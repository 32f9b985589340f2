---------------------------- MODULE MCTableHeap -----------------------------
(***************************************************************************)
(* With one-byte words, pages of 10 bytes hold one row, or two of one      *)
(* byte.  A row of six bytes fits no page.                                 *)
(***************************************************************************)
EXTENDS TableHeap, TLC

CONSTANTS scan1, scan2, short, long, huge
MCRowSize == [r \in Rows |-> CASE r = short -> 1 [] r = long -> 2 [] r = huge -> 6]
Symmetry == Permutations(Scanners)
=============================================================================
