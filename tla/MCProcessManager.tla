--------------------------- MODULE MCProcessManager ---------------------------
(* Finite instances of ProcessManager: what two callers call, and the change of the *)
(* launch profile's generation.                                                     *)
EXTENDS ProcessManager, TLC

CONSTANTS c1, c2

StartStopStatus == [c \in Callers |-> {"start", "stop", "status"}]
RestarterAndStopper == [c \in Callers |-> IF c = c1 THEN {"restart"} ELSE {"stop", "force"}]
Newer == {<<1, 2>>}
Symmetric == Permutations({c1, c2})

===============================================================================
