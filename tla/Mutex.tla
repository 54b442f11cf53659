--------------------------------- MODULE Mutex ---------------------------------
(***************************************************************************)
(* What the startup lock of one game service promises to the Start calls   *)
(* (internal/process/state.go): "an exclusive startup lock", as long as it *)
(* is not broken.  It breaks when a lock file gets old: its holder died,   *)
(* or is taken for dead.                                                   *)
(***************************************************************************)
CONSTANT Starters

VARIABLES
  holders, \* the Start calls inside
  broken   \* the lock has been given up as stale

Init == holders = {} /\ broken = FALSE

Enter(s) ==
  /\ holders = {} \/ broken
  /\ holders' = holders \cup {s}
  /\ UNCHANGED broken

\* A call returns; a program that dies takes all its calls with it.
Leave(S) ==
  /\ holders' = holders \ S
  /\ UNCHANGED broken

Break ==
  /\ broken' = TRUE
  /\ UNCHANGED holders

Next ==
  \/ \E s \in Starters : Enter(s)
  \/ \E S \in SUBSET Starters : Leave(S)
  \/ Break

Spec == Init /\ [][Next]_<<holders, broken>>

===============================================================================
