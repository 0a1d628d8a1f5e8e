------------------------------- MODULE MCWal -------------------------------
EXTENDS Wal, TLC

\* Callers and payloads are interchangeable.
Symmetry == Permutations(Callers) \cup Permutations(Payloads)
============================================================================
