----------------------------- MODULE MCJsonValue ----------------------------
(***************************************************************************)
(* Two variables and four nodes on the heap, whose names do not matter.   *)
(***************************************************************************)
EXTENDS JsonValue

CONSTANTS x, y, text, n1, n2, n3, n4

MCNumbers == {}
Symmetry == {f @@ g : f \in Permutations(Vars), g \in Permutations(Refs)}
=============================================================================
