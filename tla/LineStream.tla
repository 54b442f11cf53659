------------------------------- MODULE LineStream -------------------------------
(***************************************************************************)
(* What a batch buffer of the client (internal/client/client.go) promises  *)
(* about the lines it has accepted: they leave in the order in which they  *)
(* came, each once, and never more than a batch at a time.  A line that it *)
(* does not accept is not part of the stream.                              *)
(***************************************************************************)
EXTENDS Naturals, Sequences

CONSTANTS
  Lines,   \* the lines of a log
  Batch    \* the lines of a batch at most

VARIABLES
  accepted, \* the lines accepted so far
  sent      \* how many of them have left

Init == accepted = <<>> /\ sent = 0

Accept == \E line \in Lines : accepted' = Append(accepted, line)

Send == sent' \in (sent + 1)..(sent + Batch) /\ sent' <= Len(accepted')

Next ==
  \/ Accept /\ UNCHANGED sent
  \/ UNCHANGED accepted /\ Send
  \/ Accept /\ Send

Spec == Init /\ [][Next]_<<accepted, sent>>

===============================================================================
