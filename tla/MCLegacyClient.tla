----------------------------- MODULE MCLegacyClient -----------------------------
EXTENDS LegacyClient, TLC

Symmetric == Permutations(Updates) \cup Permutations(Installers)

\* Nothing is claimed of the files once two scripts have worked on them together, nor of
\* the configuration while two updates of the server overlap: the first is not followed
\* any further, the second only without an update of the client.
Followed == ~clashed /\ (overlapped => \A u \in Updates : update[u] = "none")

===============================================================================
