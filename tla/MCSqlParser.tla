---------------------------- MODULE MCSqlParser -----------------------------
(***************************************************************************)
(* Statements of each kind, with lists of one and two members, columns     *)
(* with and without a table, each operator, and a literal of each type.    *)
(* Floats end in a zero: the last digit is lost (MCFloat has one that      *)
(* does not).  The edits have no negative number, which CHAR(n) takes for  *)
(* a size_t.                                                               *)
(***************************************************************************)
EXTENDS SqlParser

Small == [select |-> "SELECT", insert |-> "INSERT", create |-> "CREATE", delete |-> "DELETE",
          drop |-> "DROP", into |-> "INTO", info |-> "INFO", from |-> "FROM", where |-> "WHERE",
          table |-> "TABLE", values |-> "VALUES", is |-> "IS", null |-> "NULL", char |-> "CHAR",
          varchar |-> "VARCHAR", int |-> "INT", float |-> "FLOAT"]
Names == {"t", "u", "x"}
MCWords == DOMAIN Small \cup Names \cup {Small[w] : w \in DOMAIN Small}
MCUpper == [w \in MCWords |-> IF w \in DOMAIN Small THEN Small[w] ELSE w]

Minus1 == [type |-> "INTS", v |-> -1]
Ten == [type |-> "INTS", v |-> 10]
Half == [type |-> "FLOATS", v |-> 250]
Str == [type |-> "STRING", v |-> <<"t", ";", " ", "u">>]
Null == [type |-> "NULL_A", v |-> <<>>]
MCLiterals == (<<"-", "1">> :> Minus1) @@ (<<"1", "0">> :> Ten) @@ (<<"2", ".", "5", "0">> :> Half)
              @@ (<<"'", "t", ";", " ", "u", "'">> :> Str)

t == <<"t">>
u1 == <<"u", "1">>
x == <<"x">>
Col(a) == [type |-> "REL_ATTR", v |-> a]
Cond(l, op, r) == [left |-> l, op |-> op, right |-> r]
Select(attrs, from, conds) == [kind |-> "SELECT", attrs |-> attrs, from |-> from, conds |-> conds]
Delete(star, conds) == [kind |-> "DELETE", star |-> star, from |-> <<t>>, conds |-> conds]
Insert(cols, values) == [kind |-> "INSERT", table |-> t, cols |-> cols, values |-> values]
Create(cols) == [kind |-> "CREATE", table |-> u1, cols |-> cols]
AColumn(name, type, size) == [name |-> name, type |-> type, size |-> size]

MCConds == {<<Cond(Col(Attr(<<>>, x)), "GREATER", Minus1), Cond(Half, "NOT_EQ", Col(Attr(t, u1)))>>,
            <<Cond(Col(Attr(t, x)), "EQ", Str)>>,
            <<Cond(Col(Attr(<<>>, x)), "IS", Null), Cond(Ten, "SMALLER", Col(Attr(<<>>, x)))>>}
MCStatements ==
  {Select(attrs, from, conds) : attrs \in {<<Attr(<<>>, Star)>>, <<Attr(t, x), Attr(<<>>, u1)>>},
                                from \in {<<t>>, <<u1, t>>}, conds \in MCConds \cup {<<>>}}
  \cup {Delete(FALSE, conds) : conds \in MCConds}
  \cup {Insert(cols, values) : cols \in {<<>>, <<x, u1>>}, values \in {<<Ten>>, <<Str, Minus1, Null>>, <<Half, Ten>>}}
  \cup {Create(<<AColumn(x, "INT", 0)>>), Create(<<AColumn(x, "FLOAT", 0), AColumn(u1, "CHAR", 10)>>),
        Create(<<AColumn(t, "VARCHAR", 10), AColumn(x, "INT", 0)>>)}
  \cup {[kind |-> "DROP", table |-> t]}

MCEditTokens == {x, <<"1", "0">>, <<"'", "t", ";", " ", "u", "'">>, <<",">>, <<";">>, <<"(">>, <<")">>,
                 <<".">>, <<"*">>, <<"=">>, <<"?">>, <<"FROM">>, <<"WHERE">>, <<"VALUES">>, <<"info">>}

MCDeletes == {Delete(star, <<>>) : star \in BOOLEAN}
MCFloatLiterals == <<"2", ".", "5">> :> Half
MCFloat == {Insert(<<>>, <<Half>>)}
=============================================================================
