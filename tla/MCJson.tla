------------------------------- MODULE MCJson -------------------------------
(***************************************************************************)
(* Schemas of one or two columns; one name is the beginning of another and *)
(* one size of another.  Documents have a value of each kind, alone in an  *)
(* object and with another, and the texts write numbers as others do.      *)
(***************************************************************************)
EXTENDS Json, TLC

MCNames == {<<"x">>, <<"x", "y">>}
MCColumns == [name : MCNames, type : {"INT", "CHAR"}, size : {1, 12}]
MCSchemas == UNION {[1..n -> MCColumns] : n \in 1..2}

Empty == [k \in {} |-> NUL]
MCLeaves == [lit : DOMAIN Literal] \cup [str : {<<>>, <<"x", "1">>}]
              \cup [num : {-125, 5, 100}]
MCValues == MCLeaves \cup [obj : {Empty} \cup {<<"b">> :> v : v \in MCLeaves}]
              \cup [arr : {<<>>} \cup {<<v, [lit |-> "false"]>> : v \in MCLeaves}]
MCDocuments == [obj : {Empty} \cup {<<"a">> :> v : v \in MCValues}
                        \cup {<<"a">> :> v @@ <<"b">> :> w : v \in MCLeaves, w \in MCLeaves}]

Around(text) == <<"{", " ", Quote, "a", Quote, ":">> \o text \o <<" ", "}">>
Saying(text, v) == [text |-> Around(text), value |-> [obj |-> <<"a">> :> v]]
MCTexts == {
  Saying(<<"0">>, [num |-> 0]),
  Saying(<<"-", "1">>, [num |-> -10]),
  Saying(<<"1", "e", "1">>, [num |-> 100]),
  Saying(<<"1", "2", ".", "5", "E", "+", "1">>, [num |-> 1250]),
  Saying(<<"-", "1", "2", "5", "e", "-", "1">>, [num |-> -125]),
  Saying(<<"[", " ", "[", "]", ",", "{", "}", " ", "]">>, [arr |-> <<[arr |-> <<>>], [obj |-> Empty]>>])}

\* A blank in a string; a quote in one, as the escape.
MCBlank == {[obj |-> <<"a">> :> [str |-> <<"x", " ", "1">>]]}
MCEscape == {Saying(<<Quote, Backslash, Quote, Quote>>, [str |-> <<Quote>>])}
MCNone == {}
=============================================================================
