------------------------------ MODULE MCWsClient ------------------------------
(* Finite instances of WsClient. *)
EXTENDS WsClient

CONSTANTS m, r, k1, k2

===============================================================================
