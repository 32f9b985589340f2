-------------------------------- MODULE Json --------------------------------
(***************************************************************************)
(* JSON in files: name.json, the schema of a table, and other values, as   *)
(* the writer (src/json/json_writer.hpp) prints them and the reader        *)
(* (src/common/json.hpp, src/json/json_parser.hpp) takes them, over any    *)
(* number of exits and starts of the program.  Opening the file truncates  *)
(* it, so a program that is killed while it writes leaves a beginning of   *)
(* the text.  A text is a sequence of characters; a word of it that never  *)
(* falls apart counts as one, and each kind of white space as " ".         *)
(***************************************************************************)
EXTENDS SchemaOps, Integers, SequencesExt

CONSTANTS Names,      \* names of columns: sequences of characters
          Schemas,    \* schemas of CREATE TABLE
          Documents,  \* other values that are written: objects
          Texts,      \* texts by other hands, and what they say: [text, value]
          Huge,       \* the greatest double, in tenths; the least is a tenth
          Down, Failed, NoText

ASSUME JsonAssumption ==
  /\ \A s \in Schemas : \A i \in DOMAIN s :
       s[i].name \in Names /\ s[i].type \in Types /\ s[i].size \in Nat
  /\ \A v \in Documents : "obj" \in DOMAIN v
  /\ Huge \in Nat /\ Down # Failed

VARIABLES
  data,  \* the program's: [schema] of the table, or [json] otherwise; Down
         \* without a program; Failed if it could not read the file
  file,  \* the text of the file
  made   \* history: the data the file is for
vars == <<data, file, made>>

Quote == "\""
Backslash == "\\"
NUL == "NUL"
Digit == <<"0", "1", "2", "3", "4", "5", "6", "7", "8", "9">>
Digits == ToSet(Digit)
-----------------------------------------------------------------------------
\* Values: [lit |-> ..], [str |-> ..], [num |-> ..] in tenths, [arr |-> ..] and
\* [obj |-> ..].  The keys, in the order of the std::map:
KeyOrder == <<<<"a">>, <<"b">>, <<"columns">>, <<"name">>, <<"size">>, <<"type">>>>
Literal == [true |-> <<"t", "r", "u", "e">>, false |-> <<"f", "a", "l", "s", "e">>,
            null |-> <<"n", "u", "l", "l">>]

\* Schema::to_json and Column::to_json.
Column(name, size, type) ==
  [obj |-> <<"name">> :> [str |-> name] @@ <<"size">> :> [num |-> 10 * size]
             @@ <<"type">> :> [num |-> 10 * type]]
Tree(cs) ==
  LET json == ToJson(cs)
  IN  [obj |-> <<"columns">> :> [arr |-> [i \in DOMAIN cs |->
                                   Column(cs[i].name, json[i].size, json[i].type)]]]

\* from_json: the assertions of Schema and Column, and at() of the map, which
\* throws.
IsSchema(v) ==
  /\ "obj" \in DOMAIN v /\ <<"columns">> \in DOMAIN v.obj
  /\ \A c \in ToSet(v.obj[<<"columns">>].arr) :
         /\ "obj" \in DOMAIN c
         /\ {<<"name">>, <<"size">>, <<"type">>} \subseteq DOMAIN c.obj
         /\ "str" \in DOMAIN c.obj[<<"name">>]
         /\ "num" \in DOMAIN c.obj[<<"size">>] /\ "num" \in DOMAIN c.obj[<<"type">>]
FromTree(v) ==
  LET cs == v.obj[<<"columns">>].arr
      json == FromJson([i \in DOMAIN cs |-> [type |-> cs[i].obj[<<"type">>].num \div 10,
                                             size |-> cs[i].obj[<<"size">>].num \div 10]])
  IN  [i \in DOMAIN cs |-> [name |-> cs[i].obj[<<"name">>].str,
                            type |-> json[i].type, size |-> json[i].size]]
-----------------------------------------------------------------------------
\* Value::print.  std::to_string of a double has six digits after the point,
\* here one.
RECURSIVE Decimal(_)
Decimal(n) == (IF n < 10 THEN <<>> ELSE Decimal(n \div 10)) \o <<Digit[(n % 10) + 1]>>
Joined(parts, sep) ==
  FlattenSeq([i \in DOMAIN parts |-> parts[i] \o IF i = Len(parts) THEN <<>> ELSE sep])

RECURSIVE PrintValue(_)
PrintValue(v) ==
  CASE "lit" \in DOMAIN v -> Literal[v.lit]
    [] "str" \in DOMAIN v -> <<Quote>> \o v.str \o <<Quote>>
    [] "num" \in DOMAIN v ->
         LET n == IF v.num < 0 THEN -v.num ELSE v.num
         IN  (IF v.num < 0 THEN <<"-">> ELSE <<>>) \o Decimal(n \div 10) \o <<".">> \o Decimal(n % 10)
    [] "arr" \in DOMAIN v ->
         <<"[">> \o Joined([i \in DOMAIN v.arr |-> PrintValue(v.arr[i])], <<" ", ",", " ">>) \o <<"]">>
    [] "obj" \in DOMAIN v ->
         LET keys == SelectSeq(KeyOrder, LAMBDA k : k \in DOMAIN v.obj)
             member(k) == <<Quote>> \o k \o <<Quote, " ", ":", " ">> \o PrintValue(v.obj[k])
         IN  IF keys = <<>> THEN <<"{", "}">>
             ELSE <<"{", " ">> \o Joined([i \in DOMAIN keys |-> member(keys[i])], <<",", " ", " ">>)
                    \o <<" ", "}">>
-----------------------------------------------------------------------------
\* The parser's state is the text d and a position.  A string ends in a NUL.
At(d, i) == IF i \in DOMAIN d THEN d[i] ELSE NUL
Fail == [ok |-> FALSE]
Got(v, at) == [ok |-> TRUE, v |-> v, at |-> at]
First(S) == CHOOSE i \in S : \A j \in S : i <= j
SkipBlanks(d, at) == First({i \in at..Len(d)+1 : At(d, i) # " "} \cup {Len(d)+1})

\* parse_true, parse_false and parse_null.
ParseLiteral(d, at, word) ==
  LET end == at + Len(Literal[word])
  IN  IF end <= Len(d)+1 /\ SubSeq(d, at, end-1) = Literal[word] THEN Got([lit |-> word], end) ELSE Fail

\* parse_string_row.  It looks at the backslash itself for the character that is
\* escaped: two backslashes are read, that character is not, and no other case
\* of its inner switch, parse_hex4 and parse_utf8 among them, is ever run.
RECURSIVE StringRow(_, _, _)
StringRow(d, at, s) ==
  CASE At(d, at) = NUL -> Fail
    [] At(d, at) = Quote -> Got([str |-> s], at+1)
    [] At(d, at) = Backslash -> StringRow(d, at+2, s \o <<Backslash, Backslash>>)
    [] OTHER -> StringRow(d, at+1, Append(s, d[at]))
ParseString(d, at) == StringRow(d, at+1, <<>>)

\* parse_number.  strtod reads what follows a leading zero too.
\* Mutation: the fraction is not read.
DigitValue(c) == CHOOSE n \in 0..9 : Digit[n+1] = c
Natural(s) == FoldLeft(LAMBDA n, c : 10 * n + DigitValue(c), 0, s)
Scaled(n, k) == IF k >= 0 THEN n * 10^k ELSE n \div 10^(-k)
Past(d, at, signs) == IF At(d, at) \in signs THEN at+1 ELSE at
DigitsEnd(d, at) == First({i \in at..Len(d)+1 : At(d, i) \notin Digits})
FractionUnread(d, at) == at
FractionEnd(d, at) == IF At(d, at) = "." THEN DigitsEnd(d, at+1) ELSE at
ExponentEnd(d, at) ==
  IF At(d, at) \in {"e", "E"} THEN DigitsEnd(d, Past(d, at+1, {"+", "-"})) ELSE at
StrToD(d, at) ==
  LET first == Past(d, at, {"-"})
      point == DigitsEnd(d, first)
      end == FractionEnd(d, point)
      places == IF end > point THEN end - point - 1 ELSE 0
      digits == SubSeq(d, first, point-1) \o SubSeq(d, point+1, end-1)
      power == Natural(SubSeq(d, Past(d, end+1, {"+", "-"}), ExponentEnd(d, end)-1))
      exponent == IF At(d, end+1) = "-" THEN -power ELSE power
  IN  [neg |-> first > at, digits |-> Natural(digits),
       size |-> Scaled(Natural(digits), 1 - places + exponent)]
ParseNumber(d, at) ==
  LET first == Past(d, at, {"-"})
      point == IF At(d, first) = "0" THEN first+1 ELSE DigitsEnd(d, first)
      fraction == FractionEnd(d, point)
      end == ExponentEnd(d, fraction)
      n == StrToD(d, at)
  IN  IF \/ point = first \/ At(d, fraction-1) = "."
         \/ At(d, end-1) \notin Digits
         \/ n.size > Huge \/ (n.size = 0 /\ n.digits # 0)  \* ERANGE
      THEN Fail ELSE Got([num |-> IF n.neg THEN -n.size ELSE n.size], end)

\* Parse and parse_value; parse_array and parse_object from after the bracket.
\* A member whose key is there already is left out (emplace).  After a member
\* that neither a comma nor a brace follows the object goes on with the next.
\* Mutation: an array ends without its bracket too.
RECURSIVE Parse(_, _), Elements(_, _, _), Members(_, _, _)
ElementsUnclosed(d, at, vs) ==
  LET e == Parse(d, at)
      all == Append(vs, e.v)
      i == SkipBlanks(d, e.at)
  IN  IF ~e.ok THEN Fail
      ELSE CASE At(d, i) = "," -> Elements(d, i+1, all)
             [] At(d, i) = "]" -> Got([arr |-> all], i+1)
             [] OTHER -> Got([arr |-> all], i)
Elements(d, at, vs) ==
  LET e == Parse(d, at)
      all == Append(vs, e.v)
      i == SkipBlanks(d, e.at)
  IN  IF ~e.ok THEN Fail
      ELSE CASE At(d, i) = "," -> Elements(d, i+1, all)
             [] At(d, i) = "]" -> Got([arr |-> all], i+1)
             [] OTHER -> Fail
Members(d, at, obj) ==
  LET key == ParseString(d, at)
      colon == SkipBlanks(d, key.at)
      e == Parse(d, colon+1)
      all == obj @@ key.v.str :> e.v
      i == SkipBlanks(d, e.at)
  IN  IF ~key.ok \/ At(d, colon) # ":" \/ ~e.ok THEN Fail
      ELSE CASE At(d, i) = "," -> Members(d, SkipBlanks(d, i+1), all)
             [] At(d, i) = "}" -> Got([obj |-> all], i+1)
             [] OTHER -> IF i > Len(d) THEN Fail ELSE Members(d, i, all)
Parse(d, from) ==
  LET at == SkipBlanks(d, from)
      inside == SkipBlanks(d, at+1)
  IN  CASE At(d, at) = "t" -> ParseLiteral(d, at, "true")
        [] At(d, at) = "f" -> ParseLiteral(d, at, "false")
        [] At(d, at) = "n" -> ParseLiteral(d, at, "null")
        [] At(d, at) = Quote -> ParseString(d, at)
        [] At(d, at) \in {"[", "{"} /\ inside > Len(d) -> Fail
        [] At(d, at) = "[" -> IF d[inside] = "]" THEN Got([arr |-> <<>>], inside+1)
                              ELSE Elements(d, inside, <<>>)
        [] At(d, at) = "{" -> IF d[inside] = "}" THEN Got([obj |-> [k \in {} |-> NUL]], inside+1)
                              ELSE Members(d, inside, [k \in {} |-> NUL])
        [] OTHER -> ParseNumber(d, at)

\* JsonFileRWer::read: the text without white space and, as the last fs >> ch
\* fails and leaves ch as it was, one byte of any value.
LastBytes == {"{", "}", "[", "]", ",", ":", Quote, ".", "e", Backslash, " ", NUL, "0", "7"}
Read(byte) == SelectSeq(file, LAMBDA c : c # " ") \o <<byte>>

\* JsonFileRWer::read and, of a schema, Catalog::init: it throws if the text is
\* no JSON.
Loaded(byte) ==
  LET r == Parse(Read(byte), 1)
  IN  CASE ~r.ok -> Failed
        [] "json" \in DOMAIN made -> [json |-> r.v]
        [] OTHER -> IF IsSchema(r.v) THEN [schema |-> FromTree(r.v)] ELSE Failed
-----------------------------------------------------------------------------
Running == data \notin {Down, Failed}
Printed(x) == PrintValue(IF "schema" \in DOMAIN x THEN Tree(x.schema) ELSE x.json)

Init == /\ data \in [schema : Schemas] \cup [json : Documents]
        /\ file = NoText
        /\ made = data

\* A clean exit: Catalog::close, JsonFileRWer::write.
Exit == /\ Running
        /\ file' = Printed(data)
        /\ data' = Down
        /\ UNCHANGED made

\* Killed while the file is written.
ExitCut == /\ Running
           /\ \E k \in 0..Len(Printed(data))-1 : file' = SubSeq(Printed(data), 1, k)
           /\ data' = Down
           /\ UNCHANGED made

\* Someone else writes the file.
Given == /\ "json" \in DOMAIN made
         /\ \E t \in Texts : file' = t.text /\ made' = [json |-> t.value]
         /\ data' = Down

\* The next start, or another try after one that failed.
Start(byte) == /\ ~Running
               /\ data' = Loaded(byte)
               /\ UNCHANGED <<file, made>>

Next == Exit \/ ExitCut \/ Given \/ \E byte \in LastBytes : Start(byte)
Spec == Init /\ [][Next]_vars
-----------------------------------------------------------------------------
\* A file that was written to its end, or by someone else, is read as what it
\* says, whatever byte the reader puts after it: literals, signs, fractions and
\* exponents, nested values and none (json_test.cc:18: "assert(p.Parse(v))").
SavedIsRead ==
  file \in {Printed(made)} \cup {t.text : t \in {u \in Texts : made = [json |-> u.value]}}
    => data \in {Down, made}

\* A schema is the one of CREATE TABLE over any exits, kills and starts: a file
\* cut off anywhere is refused or says the same, never fewer columns, another
\* size or a shorter name.  (So it also has its type.)
NeverAnother == "schema" \in DOMAIN made => data \in {Down, Failed, made}
=============================================================================
