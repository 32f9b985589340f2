--------------------------- MODULE MCLruReplacer ----------------------------
(***************************************************************************)
(* One node more than the capacity, so that the allocator has a choice     *)
(* whenever the list is not full, and one value more, so that a full list  *)
(* has to drop its back.                                                   *)
(***************************************************************************)
EXTENDS LruReplacer, TLC

CONSTANTS n1, n2, n3, n4
MCNodes == {n1, n2, n3, n4}
=============================================================================
