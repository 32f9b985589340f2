------------------------------ MODULE MCBinder ------------------------------
(***************************************************************************)
(* The texts of MCSqlParser, with a catalog of no tables and two in which  *)
(* the names of the texts have columns of different types and places.      *)
(***************************************************************************)
EXTENDS MCSqlParser, Binder

MCCatalogs ==
  {[n \in {} |-> <<>>],
   t :> <<AColumn(x, "FLOAT", 0), AColumn(u1, "INT", 0)>>,
   (t :> <<AColumn(u1, "INT", 0), AColumn(t, "CHAR", 4)>>) @@ (u1 :> <<AColumn(t, "CHAR", 4), AColumn(x, "VARCHAR", 0)>>)}
=============================================================================
