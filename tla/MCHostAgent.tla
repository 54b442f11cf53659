----------------------------- MODULE MCHostAgent -----------------------------
(* Finite instances of HostAgent. *)
EXTENDS HostAgent

CONSTANTS f1, f2, d, f

===============================================================================
