----------------------------- MODULE SqlParser ------------------------------
(***************************************************************************)
(* The parser (src/sql/parser/parser.hpp) on the text of one statement.  A *)
(* step is one turn of a parse loop, or a function's calls of the lexer    *)
(* before or after its loop.  The texts are written statements, and        *)
(* written statements with one token dropped, added or put for another.    *)
(***************************************************************************)
EXTENDS Lexer

CONSTANTS
  Statements,   \* the statements that are written
  Literals,     \* the value of the text of each literal
  EditTokens,   \* tokens put into the texts
  SizeModulus,  \* 2^64, the values of a size_t
  NoStatement

ASSUME ParserAssumption ==
  /\ Upper \in [Words -> Words] /\ SizeModulus \in Nat \ {0}
  /\ \A s, t \in DOMAIN Literals : Literals[s] = Literals[t] => s = t

VARIABLES
  tokens, \* the text, as the lexer takes it
  said,   \* history: the tokens it was written from
  meant,  \* history: the statement it was written for, if it was not edited
  at,     \* where the parser is; "done" when do_parse has returned
  lex,    \* the lexer: tokens read and its slot for values, with the last result
  query,  \* query_, or what is put into it on return
  rc      \* what do_parse returned; "ABORT" if an assertion failed
vars == <<tokens, said, meant, at, lex, query, rc>>

EmptySelect == [kind |-> "SELECT", attrs |-> <<>>, from |-> <<>>, conds |-> <<>>]
Star == <<"*">>
Attr(table, name) == [table |-> table, name |-> name]
Condition(left, op, right) == [left |-> left, op |-> op, right |-> right]
Token2Op == [NOT_EQ_T |-> "NOT_EQ", ASSIGN_T |-> "EQ", GREATER_T |-> "GREATER",
             SMALLER_T |-> "SMALLER", IN_T |-> "IN", IS_T |-> "IS"]
-----------------------------------------------------------------------------
\* A call of the lexer: next, which does not get past a token that is none;
\* peek; next_if, which goes back when the token is another; and a row of
\* next_ifs, given up at the first that fails (and with it the statement:
\* where the lexer then stands is left out).  The slot is one for all.
Next(l) == LET n == tokens[l.i]
           IN  [ok |-> n.ok, tk |-> n.tk, i |-> IF n.tk = "BAD_EXPR" THEN l.i ELSE l.i + 1,
                val |-> IF n.val = NoValue THEN l.val ELSE n.val]
Peek(l) == [Next(l) EXCEPT !.i = l.i]
NextIf(l, t) == LET n == Next(l)
                IN  IF n.tk = t THEN [n EXCEPT !.ok = TRUE] ELSE [n EXCEPT !.ok = FALSE, !.i = l.i]
Expect(l, ts) ==
  LET row == l.i..(l.i + Len(ts) - 1)
      valued == {i \in row : tokens[i].val # NoValue}
  IN  IF \A i \in row : tokens[i].tk = ts[i - l.i + 1]
      THEN [ok |-> TRUE, tk |-> Last(ts), i |-> l.i + Len(ts),
            val |-> IF valued = {} THEN l.val ELSE tokens[CHOOSE i \in valued : \A j \in valued : j <= i].val]
      ELSE [l EXCEPT !.ok = FALSE]
-----------------------------------------------------------------------------
Go(place, l, q) == /\ at' = place /\ lex' = l /\ query' = q
                   /\ UNCHANGED <<tokens, said, meant, rc>>
Return(code, l, q) == /\ at' = "done" /\ rc' = code /\ lex' = l /\ query' = q
                      /\ UNCHANGED <<tokens, said, meant>>
Fail(l) == Return("SYNTAX_ERROR", l, query)
GoIf(place, l, q) == IF l.ok THEN Go(place, l, q) ELSE Fail(l)
ReturnIf(l, q) == IF l.ok THEN Return("SUCCESS", l, q) ELSE Fail(l)

\* A list goes on after a comma.
More(again, after, l, q) ==
  \E comma \in {NextIf(l, "COMMAS_T")} : Go(IF comma.ok THEN again ELSE after, comma, q)

\* A column's name after its first identifier, with a table's before it or not.
Dotted(l) ==
  LET dot == NextIf(l, "DOT_T")
      id == NextIf(dot, "ID_T")
  IN  IF dot.ok THEN [lex |-> id, attr |-> Attr(l.val.v, id.val.v)]
      ELSE [lex |-> [dot EXCEPT !.ok = TRUE], attr |-> Attr(<<>>, l.val.v)]

\* parse_value asserts that a token that starts no value does not occur.
ParseValue(l) ==
  LET n == Next(l)
      name == Dotted(n)
      Parsed(code, k, v) == [lex |-> k, rc |-> code, v |-> v]
  IN  CASE ~n.ok -> Parsed("SYNTAX_ERROR", n, NoValue)
        [] n.tk = "ID_T" -> Parsed(IF name.lex.ok THEN "SUCCESS" ELSE "SYNTAX_ERROR", name.lex,
                                   Value("REL_ATTR", name.attr))
        [] n.tk \in {"FLOAT_T", "INTEGER_T", "STRING_T"} -> Parsed("SUCCESS", n, n.val)
        [] n.tk = "NULL_T" -> Parsed("SUCCESS", n, Value("NULL_A", <<>>))
        [] OTHER -> Parsed("ABORT", n, NoValue)
-----------------------------------------------------------------------------
\* do_parse looks at the first token.
First == Peek(lex).tk
ParseOther == /\ at = "do_parse"
              /\ First \notin {"SELECT_T", "CREATE_T", "DELETE_T", "INSERT_T", "DROP_T"}
              /\ Fail(lex)

ParseSelect == /\ at = "do_parse" /\ First = "SELECT_T"
               /\ Go("attr", Next(lex), EmptySelect)

\* A turn of parse_attrs.  Mutation: a token that is none is passed over.
ParseAttrSkipping ==
  /\ at = "attr"
  /\ \E n \in {Next(lex)} : \E name \in {Dotted(n)} :
       CASE n.tk = "STAR_T" /\ query.attrs = <<>> ->
                Go("from", n, [query EXCEPT !.attrs = <<Attr(<<>>, Star)>>])
           [] n.tk = "ID_T" /\ name.lex.ok ->
                More("attr", "from", name.lex, [query EXCEPT !.attrs = Append(@, name.attr)])
           [] OTHER -> Go("attr", n, query)
ParseAttr ==
  /\ at = "attr"
  /\ \E n \in {Next(lex)} : \E name \in {Dotted(n)} :
       CASE n.tk = "STAR_T" /\ query.attrs = <<>> ->
                Go("from", n, [query EXCEPT !.attrs = <<Attr(<<>>, Star)>>])
           [] n.tk = "ID_T" /\ name.lex.ok ->
                More("attr", "from", name.lex, [query EXCEPT !.attrs = Append(@, name.attr)])
           [] OTHER -> Fail(n)

\* parse_from.
ParseFrom == /\ at = "from"
             /\ \E n \in {Next(lex)} : IF n.tk = "FROM_T" THEN Go("table", n, query) ELSE Fail(n)
ParseTable ==
  /\ at = "table"
  /\ \E n \in {NextIf(lex, "ID_T")} :
       IF n.ok THEN More("table", "where", n, [query EXCEPT !.from = Append(@, n.val.v)]) ELSE Fail(n)

\* parse_delete; star is a local of it.  DELETE * FROM t has no WHERE.
ParseDelete == LET delete == NextIf(lex, "DELETE_T")
                   star == NextIf(delete, "STAR_T")
               IN  /\ at = "do_parse" /\ First = "DELETE_T"
                   /\ Go("from", star, [kind |-> "DELETE", star |-> star.ok, from |-> <<>>, conds |-> <<>>])
StarHasWhere == query.kind = "DELETE" /\ query.star /\ First = "WHERE_T"

\* parse_conds: WHERE, or the end of the statement; then conditions.
ParseWhere ==
  /\ at = "where"
  /\ \E n \in {Next(lex)} :
       CASE n.tk = "WHERE_T" /\ ~StarHasWhere -> Go("cond", n, query)
         [] n.tk = "COLON_T" -> Go("conds_end", n, query)
         [] OTHER -> Fail(n)
ParseCond ==
  /\ at = "cond"
  /\ \E left \in {ParseValue(lex)} : \E op \in {Next(left.lex)} : \E right \in {ParseValue(op)} :
     LET code == IF left.rc # "SUCCESS" THEN left.rc
              ELSE IF op.tk \notin DOMAIN Token2Op THEN "SYNTAX_ERROR" ELSE right.rc
         cond == Condition(left.v, Token2Op[op.tk], right.v)
     IN IF code = "SUCCESS" THEN More("cond", "conds_end", right.lex, [query EXCEPT !.conds = Append(@, cond)])
         ELSE Return(code, right.lex, query)

\* A SELECT ends here; a DELETE asks for a semicolon, also after the one that
\* parse_conds took.
ParseCondsEnd == /\ at = "conds_end"
                 /\ IF query.kind = "SELECT" THEN Return("SUCCESS", lex, query)
                    ELSE ReturnIf(NextIf(lex, "COLON_T"), query)

\* parse_insert, with the list of columns or without.
ParseInsert ==
  /\ at = "do_parse" /\ First = "INSERT_T"
  /\ \E name \in {Expect(lex, <<"INSERT_T", "INTO_T", "ID_T">>)} : \E n \in {Next(name)} :
     LET insert == [kind |-> "INSERT", table |-> name.val.v, cols |-> <<>>, values |-> <<>>]
     IN  CASE name.ok /\ n.tk = "LBRACE_T" -> Go("col", n, insert)
           [] name.ok /\ n.tk = "VALUES_T" -> GoIf("value", NextIf(n, "LBRACE_T"), insert)
           [] OTHER -> Fail(n)
ParseCol ==
  /\ at = "col"
  /\ \E n \in {NextIf(lex, "ID_T")} :
       IF n.ok THEN More("col", "cols_end", n, [query EXCEPT !.cols = Append(@, n.val.v)]) ELSE Fail(n)
ParseColsEnd == /\ at = "cols_end"
                /\ GoIf("value", Expect(lex, <<"RBRACE_T", "VALUES_T", "LBRACE_T">>), query)
ParseInsertValue ==
  /\ at = "value"
  /\ \E value \in {ParseValue(lex)} :
       CASE value.rc = "SUCCESS" /\ value.v.type # "REL_ATTR" ->
                More("value", "values_end", value.lex, [query EXCEPT !.values = Append(@, value.v)])
           [] value.rc = "ABORT" -> Return("ABORT", value.lex, query)
           [] OTHER -> Fail(value.lex)
ParseValuesEnd == at = "values_end" /\ ReturnIf(Expect(lex, <<"RBRACE_T", "COLON_T">>), query)

\* parse_create and parse_create_table.
ParseCreate ==
  /\ at = "do_parse" /\ First = "CREATE_T"
  /\ \E l \in {Expect(lex, <<"CREATE_T", "TABLE_T", "ID_T", "LBRACE_T">>)} :
       GoIf("col_attr", l, [kind |-> "CREATE", table |-> l.val.v, cols |-> <<>>])
TypeName == [S_INT_T |-> "INT", S_FLOAT_T |-> "FLOAT", S_CHAR_T |-> "CHAR", S_VARCHAR_T |-> "VARCHAR"]

\* A turn of parse_col_attrs, with parse_col_data_type.
AddCol(id, type, size, l) == More("col_attr", "col_attrs_end", l, [query EXCEPT !.cols =
                               Append(@, [name |-> id.val.v, type |-> TypeName[type.tk], size |-> size])])
ParseColAttr ==
  /\ at = "col_attr"
  /\ \E id \in {NextIf(lex, "ID_T")} : \E type \in {Next(id)} :
     \E sized \in {Expect(type, <<"LBRACE_T", "INTEGER_T", "RBRACE_T">>)} :
       CASE id.ok /\ type.tk \in {"S_INT_T", "S_FLOAT_T"} -> AddCol(id, type, 0, type)
         [] id.ok /\ type.tk \in {"S_CHAR_T", "S_VARCHAR_T"} /\ sized.ok ->
              AddCol(id, type, sized.val.v % SizeModulus, sized)
         [] OTHER -> Fail(sized)
ParseColAttrsEnd == at = "col_attrs_end" /\ ReturnIf(Expect(lex, <<"RBRACE_T", "COLON_T">>), query)

\* parse_drop: when TABLE or the name is another token the code of next is
\* returned, and that is SUCCESS; query_ is still the empty SELECT.
ParseDrop ==
  /\ at = "do_parse" /\ First = "DROP_T"
  /\ \E table \in {Next(Next(lex))} : \E name \in {Next(table)} : \E end \in {Next(name)} :
       CASE table.tk # "TABLE_T" -> ReturnIf(table, EmptySelect)
         [] table.tk = "TABLE_T" /\ name.tk # "ID_T" -> ReturnIf(name, EmptySelect)
         [] OTHER -> ReturnIf([end EXCEPT !.ok = end.tk = "COLON_T"], [kind |-> "DROP", table |-> name.val.v])
-----------------------------------------------------------------------------
\* How statements are written (the comments in ast.hpp and parser.hpp).
Comma == <<",">>
Commas(parts) == FlattenSeq([i \in DOMAIN parts |-> IF i = 1 THEN parts[i] ELSE <<Comma>> \o parts[i]])
AttrText(a) == IF a.table = <<>> THEN <<a.name>> ELSE <<a.table, <<".">>, a.name>>
LiteralText(v) == IF \E s \in DOMAIN Literals : Literals[s] = v
                  THEN CHOOSE s \in DOMAIN Literals : Literals[s] = v ELSE <<>>
ValueText(v) == CASE v.type = "REL_ATTR" -> AttrText(v.v)
                  [] v.type = "NULL_A" -> <<<<"NULL">>>>
                  [] OTHER -> <<LiteralText(v)>>
OpText == ("NOT_EQ" :> <<"<", ">">>) @@ ("EQ" :> <<"=">>) @@ ("GREATER" :> <<">">>)
          @@ ("SMALLER" :> <<"<">>) @@ ("IN" :> <<"IN">>) @@ ("IS" :> <<"IS">>)
CondText(c) == ValueText(c.left) \o <<OpText[c.op]>> \o ValueText(c.right)
WhereText(conds) == <<<<"WHERE">>>> \o Commas([i \in DOMAIN conds |-> CondText(conds[i])])
ColText(c) == <<c.name, <<c.type>>>> \o
  IF c.type \in {"INT", "FLOAT"} THEN <<>>
  ELSE <<<<"(">>, LiteralText(Value("INTS", c.size)), <<")">>>>
Each(F(_), s) == [i \in DOMAIN s |-> F(s[i])]
Singly(s) == [i \in DOMAIN s |-> <<s[i]>>]
End == <<<<";">>>>

FromText(q) == <<<<"FROM">>>> \o Commas(Singly(q.from))
               \o IF q.conds = <<>> THEN <<>> ELSE WhereText(q.conds)
Text(q) ==
  CASE q.kind = "SELECT" -> <<<<"SELECT">>>> \o Commas(Each(AttrText, q.attrs)) \o FromText(q)
                            \o IF q.conds = <<>> THEN End ELSE <<>>
    [] q.kind = "DELETE" -> <<<<"DELETE">>>> \o (IF q.star THEN <<Star>> ELSE <<>>) \o FromText(q) \o End
    [] q.kind = "INSERT" -> <<<<"INSERT">>, <<"INTO">>, q.table>>
                            \o (IF q.cols = <<>> THEN <<>> ELSE <<<<"(">>>> \o Commas(Singly(q.cols)) \o <<<<")">>>>)
                            \o <<<<"VALUES">>, <<"(">>>> \o Commas(Each(ValueText, q.values)) \o <<<<")">>>> \o End
    [] q.kind = "CREATE" -> <<<<"CREATE">>, <<"TABLE">>, q.table, <<"(">>>>
                            \o Commas(Each(ColText, q.cols)) \o <<<<")">>>> \o End
    [] q.kind = "DROP" -> <<<<"DROP">>, <<"TABLE">>, q.table>> \o End

\* A SELECT with conditions has a semicolon or not.
Written(q) == {Text(q)} \cup IF q.kind = "SELECT" /\ q.conds # <<>> THEN {Text(q) \o End} ELSE {}
Edited(w) == {RemoveAt(w, i) : i \in DOMAIN w}
             \cup {ReplaceAt(w, i, t) : i \in DOMAIN w, t \in EditTokens}
             \cup {InsertAt(w, i, t) : i \in DOMAIN w, t \in EditTokens}

\* A text with a blank between any two tokens; and one in small letters with
\* blanks only where two words would become one.
IsKey(t) == t[1] \in Words /\ Len(t) = 1 /\ Upper[t[1]] \in DOMAIN SpecToken
InSmall(t) == IF IsKey(t) THEN <<CHOOSE w \in Words : Upper[w] = t[1] /\ w # t[1]>> ELSE t
Wordy(t) == t[1] \in Words \cup Digits
Spaced(w) == FlattenSeq([i \in DOMAIN w |-> IF i = 1 THEN w[i] ELSE <<" ">> \o w[i]])
Tight(w) == FlattenSeq([i \in DOMAIN w |-> IF i > 1 /\ Wordy(w[i]) /\ Wordy(w[i-1])
                                           THEN <<" ">> \o InSmall(w[i]) ELSE InSmall(w[i])])

Init == /\ at = "do_parse" /\ rc = "NONE"
        /\ lex = [ok |-> TRUE, tk |-> "NONE", i |-> 1, val |-> NoValue] /\ query = EmptySelect
        /\ \E q \in Statements : \E w \in Written(q) :
             \/ meant = q /\ said = w /\ \E d \in {Spaced(w), Tight(w)} : tokens = Lexed(d)
             \/ meant = NoStatement /\ said \in Edited(w) /\ \E d \in {Spaced(said)} : tokens = Lexed(d)

ParseStep == \/ ParseSelect \/ ParseAttr \/ ParseFrom \/ ParseTable
         \/ ParseDelete \/ ParseWhere \/ ParseCond \/ ParseCondsEnd
         \/ ParseInsert \/ ParseCol \/ ParseColsEnd \/ ParseInsertValue \/ ParseValuesEnd
         \/ ParseCreate \/ ParseColAttr \/ ParseColAttrsEnd
         \/ ParseDrop \/ ParseOther
Spec == Init /\ [][ParseStep]_vars
-----------------------------------------------------------------------------
\* Every statement that is written so is parsed, as what it says.
ReadsAsWritten == at = "done" /\ meant # NoStatement => rc = "SUCCESS" /\ query = meant

\* The text begins with the statement, up to its end: no token is passed over,
\* taken for another or made up.
SameToken(s, t) == \/ s = t
                   \/ IsKey(s) /\ IsKey(t) /\ SpecToken[Upper[s[1]]] = SpecToken[Upper[t[1]]]
Says(w, q) == LET t == Text(q)
              IN  Len(t) <= Len(w) /\ \A i \in DOMAIN t : t[i] # <<>> /\ SameToken(t[i], w[i])

\* parse_value is asked for a value only where one begins (assert(false)).
NoAssertFails == rc # "ABORT"
=============================================================================
