---------------------------- MODULE MCStatements ----------------------------
(***************************************************************************)
(* With one-byte words, pages of 9 bytes hold one row each, so that three  *)
(* rows fill three pages in two frames.                                    *)
(***************************************************************************)
EXTENDS Statements

CONSTANTS select, short, long
MCRowSize == [r \in Rows |-> CASE r = short -> 1 [] r = long -> 2]
=============================================================================
