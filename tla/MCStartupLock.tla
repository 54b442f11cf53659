----------------------------- MODULE MCStartupLock -----------------------------
(* Finite instances of StartupLock: three Start calls in two processes. *)
EXTENDS StartupLock

CONSTANTS s1, s2, s3

OneProcess == {{s1, s2, s3}}
TwoProcesses == {{s1, s2}, {s3}}

===============================================================================
