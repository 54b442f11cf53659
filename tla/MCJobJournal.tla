---------------------------- MODULE MCJobJournal ----------------------------
(* Instances of JobJournal for TLC. *)
EXTENDS JobJournal

CONSTANTS a, b, c, d, k, h1, h2

\* a and b share an idempotency key, c and d have none; jobs for the first program run,
\* for the second one, and for any.
MCEnvelopes ==
  {[id |-> j[1], key |-> j[2], padded |-> FALSE, generation |-> g] :
     j \in {<<a, k>>, <<b, k>>, <<c, NoKey>>, <<d, NoKey>>} \cap (JobIds \X KeyOrNone),
     g \in {0, 1}}

\* The same jobs, the id of one sent with white space around it.
MCPaddedEnvelopes == MCEnvelopes \cup {[e EXCEPT !.padded = TRUE] : e \in {e \in MCEnvelopes : e.id = b /\ e.generation = 0}}

=============================================================================
