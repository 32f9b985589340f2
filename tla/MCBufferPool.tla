--------------------------- MODULE MCBufferPool -----------------------------
EXTENDS BufferPool, TLC

CONSTANTS c1, c2, c3, d1, d2
ClientSymmetry == Permutations(Clients)
Symmetry == Permutations(Clients) \cup Permutations(Data)
=============================================================================
