--------------------------- MODULE MCPersistentRuns ---------------------------
EXTENDS PersistentRuns, TLC

Symmetry == Permutations(Requests)
=============================================================================
