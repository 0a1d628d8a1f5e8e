------------------------------ MODULE MCQueue ------------------------------
EXTENDS QueueProps, TLC

\* Ids and clients are interchangeable; nothing orders or names them.
Symmetry == Permutations(Ids) \cup Permutations(Clients)
============================================================================
