------------------------------ MODULE MCOperations ------------------------------
EXTENDS Operations, TLC

Symmetric == Permutations(Requests) \cup Permutations(Servers)

===============================================================================
