------------------------------ MODULE MCCatalog -----------------------------
(***************************************************************************)
(* A row of an INT, a row of a string, and schemas of which the first      *)
(* takes the first row, the other two the second.                          *)
(***************************************************************************)
EXTENDS Catalog

MCSchemas == {<<[type |-> "INT", size |-> 0]>>, <<[type |-> "VARCHAR", size |-> 0]>>,
              <<[type |-> "CHAR", size |-> 2]>>}
MCRows == {<<[type |-> "INTS", v |-> 1]>>, <<[type |-> "STRING", v |-> <<1, 2>>]>>}
=============================================================================
