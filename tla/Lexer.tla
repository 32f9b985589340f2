------------------------------- MODULE Lexer --------------------------------
(***************************************************************************)
(* The lexer (src/sql/parser/lexer.hpp).  A text is a sequence of          *)
(* characters, in which a word of letters counts as one.  The lexer stops  *)
(* only between tokens, so a text is to the parser the sequence of tokens  *)
(* that Lexed gives; each with its value, or NoValue if it leaves the slot *)
(* for values (cur_val_) as it is.  Floats are in hundredths.              *)
(***************************************************************************)
EXTENDS Integers, SequencesExt

CONSTANTS Words,  \* the words of the texts, as strings
          Upper   \* each word in capitals

Value(type, v) == [type |-> type, v |-> v]
NoValue == Value("UNDEFINED", <<>>)

NUL == "NUL"
Digit == <<"0", "1", "2", "3", "4", "5", "6", "7", "8", "9">>
Digits == ToSet(Digit)

\* spec_token_.
SpecToken ==
  ("SELECT" :> "SELECT_T") @@ ("INSERT" :> "INSERT_T") @@ ("UPDATE" :> "UPDATE_T")
  @@ ("CREATE" :> "CREATE_T") @@ ("DELETE" :> "DELETE_T") @@ ("DROP" :> "DROP_T")
  @@ ("INTO" :> "INTO_T") @@ ("FROM" :> "FROM_T") @@ ("WHERE" :> "WHERE_T") @@ ("INFO" :> "INTO_T")
  @@ ("TABLE" :> "TABLE_T") @@ ("VALUES" :> "VALUES_T") @@ ("IN" :> "IN_T") @@ ("IS" :> "IS_T")
  @@ ("NOT" :> "NOT_T") @@ ("NULL" :> "NULL_T") @@ ("NULLABLE" :> "NULLABLE_T")
  @@ ("CHAR" :> "S_CHAR_T") @@ ("VARCHAR" :> "S_VARCHAR_T") @@ ("INT" :> "S_INT_T")
  @@ ("FLOAT" :> "S_FLOAT_T")

\* Tokens of one character.
Mark == ("+" :> "PLUS_T") @@ ("-" :> "MINUS_T") @@ ("=" :> "ASSIGN_T") @@ (">" :> "GREATER_T")
        @@ ("<" :> "SMALLER_T") @@ ("," :> "COMMAS_T") @@ ("*" :> "STAR_T") @@ ("." :> "DOT_T")
        @@ (";" :> "COLON_T") @@ ("(" :> "LBRACE_T") @@ (")" :> "RBRACE_T")
-----------------------------------------------------------------------------
\* The character at i; a std::string ends in a NUL.
At(d, i) == IF i \in DOMAIN d THEN d[i] ELSE NUL
FirstFrom(d, from, stops) ==
  LET S == {i \in from..Len(d) : d[i] \in stops}
  IN  IF S = {} THEN Len(d) + 1 ELSE CHOOSE i \in S : \A j \in S : i <= j
EndOfRun(d, from, chars) == FirstFrom(d, from, ToSet(d) \ chars)

\* What internal_next returns, and the position after it.
Got(tk, p, val) == [ok |-> TRUE, tk |-> tk, p |-> p, val |-> val]
Bad(p) == [ok |-> FALSE, tk |-> "BAD_EXPR", p |-> p, val |-> NoValue]

\* The value of a run of digits, and of one with at most two after a point
\* (std::stof).
Number(s) == FoldLeft(LAMBDA n, c : 10 * n + (CHOOSE k \in 0..9 : Digit[k+1] = c), 0, s)
StoF(s) ==
  LET point == FirstFrom(s, 1, {"."})
  IN  100 * Number(SubSeq(s, 1, point - 1)) + Number(SubSeq(s \o <<"0", "0">>, point + 1, point + 2))

\* parse_num: the text of a float has end - p_ - 1 characters, one too few.
ParseNum(d, p) ==
  LET point == EndOfRun(d, p, Digits)
      end == EndOfRun(d, point + 1, Digits)
  IN  IF At(d, point) # "." THEN Got("INTEGER_T", point, Value("INTS", Number(SubSeq(d, p, point - 1))))
      ELSE IF end = point + 1 THEN Bad(end)
      ELSE Got("FLOAT_T", end, Value("FLOATS", StoF(SubSeq(d, p, end - 2))))

\* A number after a minus is said to have succeeded whether it has or not.
\* Mutation: the value keeps its sign.
NegatedNot(l) == [l EXCEPT !.ok = TRUE]
Negated(l) == [l EXCEPT !.ok = TRUE, !.val = IF l.ok THEN [@ EXCEPT !.v = -@] ELSE @]

\* An identifier keeps its capitals; only it is put into the slot.
Word(d, p) ==
  LET end == EndOfRun(d, p, Words \cup Digits)
      id == SubSeq(d, p, end - 1)
      isKey == Len(id) = 1 /\ Upper[id[1]] \in DOMAIN SpecToken
  IN  IF isKey THEN Got(SpecToken[Upper[id[1]]], end, NoValue)
      ELSE Got("ID_T", end, Value("STRING", id))

\* A string in quotes, which also the end of the text ends.
Quoted(d, p) ==
  LET end == FirstFrom(d, p + 1, {"'"})
  IN  IF end = p + 1 THEN Bad(p)
      ELSE Got("STRING_T", end + 1, Value("STRING", SubSeq(d, p + 1, end - 1)))

\* internal_next: the blanks are skipped, whatever follows.
InternalNext(d, from) ==
  LET p == EndOfRun(d, from, {" "})
      ch == At(d, p)
      digitNext == At(d, p + 1) \in Digits
      isNegative == ch = "-" /\ digitNext
      isNotEq == ch = "<" /\ At(d, p + 1) = ">"
  IN  CASE ch \in Words -> Word(d, p)
        [] ch = "0" /\ digitNext -> Bad(p)
        [] ch \in Digits /\ ~(ch = "0" /\ digitNext) -> ParseNum(d, p)
        [] ch = "'" -> Quoted(d, p)
        [] isNegative -> Negated(ParseNum(d, p + 1))
        [] isNotEq -> Got("NOT_EQ_T", p + 2, NoValue)
        [] ch \in DOMAIN Mark /\ ~isNegative /\ ~isNotEq -> Got(Mark[ch], p + 1, NoValue)
        [] OTHER -> Bad(p)

\* The tokens up to the first that is none (the end of the text is one such).
\* No caller goes on after that.
Token(n) == [ok |-> n.ok, tk |-> n.tk, val |-> n.val]
Lexed(d) ==
  LET from[p \in 1..(Len(d) + 2)] ==
        LET n == InternalNext(d, p)
        IN  IF n.tk = "BAD_EXPR" THEN <<Token(n)>> ELSE <<Token(n)>> \o from[n.p]
  IN  from[1]
=============================================================================
