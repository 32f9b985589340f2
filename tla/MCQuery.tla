------------------------------ MODULE MCQuery -------------------------------
(***************************************************************************)
(* Ints of two bytes of four values are -8..7.  The schemas have a column  *)
(* of each type before and after one whose width varies.  A CHAR(3) column *)
(* is given strings of three bytes, with a blank and a dash in them, at    *)
(* which lines could be broken; MCShort has one byte for CHAR(5), MCEmpty  *)
(* a string without any.                                                   *)
(* MCNear has floats nearer than one to each other, MCFar ints further     *)
(* apart than an int can say.                                              *)
(***************************************************************************)
EXTENDS Query

Col(t, n) == [type |-> t, size |-> n]
AnInt(n) == [type |-> "INTS", v |-> n]
AFloat(n) == [type |-> "FLOATS", v |-> n]
AString(s) == [type |-> "STRING", v |-> s]
Cond(l, op, r) == [left |-> l, op |-> op, right |-> r]
Column(i) == [col |-> i]
Const(v) == [val |-> v]

MCChars == <<" ", "a", "-", "b">>
MCSchemas == {<<Col("VARCHAR", 0), Col("INT", 0)>>,
              <<Col("FLOAT", 0), Col("CHAR", 3), Col("VARCHAR", 0)>>}
MCLiterals == {AnInt(-2), AnInt(5), AFloat(-3), AFloat(1), AString(<<1, 0, 1>>), AString(<<1, 2, 3>>)}
MCConditions ==
  {<<>>}
  \cup {<<Cond(Column(i), op, Const(v))>> : i \in 1..2, op \in Ops, v \in MCLiterals}
  \cup {<<Cond(Const(AnInt(5)), "NOT_EQUAL", Column(2)),
          Cond(Column(1), "GREATER_THAN", Const(AString(<<1, 0, 1>>)))>>,
        <<Cond(Column(2), "LESS_THAN", Column(3)),
          Cond(Column(1), "LESS_THAN", Const(AFloat(1)))>>}

MCEmptySchemas == {<<Col("VARCHAR", 0)>>}
MCEmpty == {AString(<<>>), AString(<<1>>)}
MCShortSchemas == {<<Col("CHAR", 5), Col("INT", 0)>>}
MCShort == {AnInt(1), AString(<<1>>)}

MCNear == {AFloat(2), AFloat(3)}
MCFar == {AnInt(-5), AnInt(6)}
MCFloats == {<<Col("FLOAT", 0)>>}
MCInts == {<<Col("INT", 0)>>}
MCNearConditions == {<<Cond(Column(1), op, Const(v))>> : op \in Ops, v \in MCNear}
MCFarConditions == {<<Cond(Column(1), op, Const(v))>> : op \in Ops, v \in MCFar}
MCNoConditions == {<<>>}
=============================================================================
