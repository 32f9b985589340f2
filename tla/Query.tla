------------------------------- MODULE Query --------------------------------
(***************************************************************************)
(* INSERT and SELECT on one table: rows are encoded to bytes by            *)
(* create_tuple (src/catalog/tuple.hpp), read back column by column by     *)
(* value_at, compared (src/expression, Value::compare in                   *)
(* src/sql/parser/ast.hpp), filtered and projected by the executers        *)
(* (src/execution) that the binder built, and the projected rows are       *)
(* encoded again under the output schema, by which the shell prints them   *)
(* as a table.                                                             *)
(* The table is what Table promises: rows in order; its scanner is the     *)
(* position of the next.                                                   *)
(***************************************************************************)
EXTENDS SchemaOps, Tabulate, Integers, SequencesExt

CONSTANTS
  IntBytes,   \* sizeof(int), and of a float
  Base,       \* 256, the values of a byte
  FloatUnit,  \* floats are multiples of 1/FloatUnit; .v is the multiple
  Schemas,    \* schemas the table may have: sequences of columns
  Literals,   \* values a statement may contain
  Conditions, \* WHERE lists a SELECT may have
  Chars,      \* the characters of bytes 0..Base-1
  RowBound,   \* bound on the rows of the table
  NoQuery

IntModulus == Base ^ IntBytes
Ops == {"EQUAL", "NOT_EQUAL", "LESS_THAN", "GREATER_THAN"}
Operands == [col : Nat] \cup [val : Literals]

ASSUME QueryAssumption ==
  /\ IntBytes \in Nat \ {0} /\ Base \in Nat \ {0, 1} /\ FloatUnit \in Nat \ {0}
  /\ RowBound \in Nat /\ Len(Chars) = Base
  /\ Schemas \subseteq Seq(Columns) \ {<<>>}
  /\ Conditions \subseteq Seq([left : Operands, op : Ops, right : Operands])

VARIABLES
  cols,  \* the table's schema
  rows,  \* the bytes of its rows
  vals,  \* history: the values each row was inserted with
  query  \* the SELECT at hand: its WHERE and output columns, the scanner's
         \* position, the tuples so far, and whether it ended; or NoQuery
vars == <<cols, rows, vals, query>>
-----------------------------------------------------------------------------
\* A long put into an int, and an int's bytes.
ToInt(n) == ((n + IntModulus \div 2) % IntModulus) - IntModulus \div 2
IntToBytes(n) == [i \in 1..IntBytes |-> ((n % IntModulus) \div Base^(i-1)) % Base]
IntAt(data, at) ==
  LET sum[i \in 0..IntBytes] == IF i = 0 THEN 0 ELSE sum[i-1] + data[at + i] * Base^(i-1)
  IN  ToInt(sum[IntBytes])

\* create_tuple.
Encode(v, c) == IF v.type # "STRING" THEN IntToBytes(v.v)
                ELSE IF c.type = "VARCHAR" THEN IntToBytes(Len(v.v)) \o v.v
                ELSE v.v
CreateTuple(vs, cs) == FlattenSeq([i \in DOMAIN vs |-> Encode(vs[i], cs[i])])

\* value_at: columns are skipped by their widths, then the value is read.
Width(data, c, at) == CASE c.type = "CHAR" -> c.size
                        [] c.type = "VARCHAR" -> IntBytes + IntAt(data, at)
                        [] OTHER -> IntBytes
Offset(data, cs, idx) ==
  LET at[i \in 1..idx] == IF i = 1 THEN 0 ELSE at[i-1] + Width(data, cs[i-1], at[i-1])
  IN  at[idx]
ValueAt(data, cs, idx) ==
  LET at == Offset(data, cs, idx)
  IN  CASE cs[idx].type = "INT" -> [type |-> "INTS", v |-> IntAt(data, at)]
        [] cs[idx].type = "FLOAT" -> [type |-> "FLOATS", v |-> IntAt(data, at)]
        [] cs[idx].type = "CHAR" ->
             [type |-> "STRING", v |-> SubSeq(data, at + 1, at + cs[idx].size)]
        [] OTHER -> [type |-> "STRING",
                     v |-> SubSeq(data, at + IntBytes + 1, at + IntBytes + IntAt(data, at))]
-----------------------------------------------------------------------------
Toward0(n, d) == IF n >= 0 THEN n \div d ELSE -((-n) \div d)

\* Is string s before t?  (std::string::compare is negative.)
Before(s, t) ==
  \/ IsStrictPrefix(s, t)
  \/ \E k \in DOMAIN s \cap DOMAIN t :
       s[k] < t[k] /\ \A j \in 1..k-1 : s[j] = t[j]

\* Value::compare: the difference as an int.
Compare(l, r) ==
  CASE l.type = "INTS" -> ToInt(l.v - r.v)
    [] l.type = "FLOATS" -> Toward0(l.v - r.v, FloatUnit)
    [] OTHER -> IF l.v = r.v THEN 0 ELSE IF Before(l.v, r.v) THEN -1 ELSE 1

\* ComparsionExpression::evaluate yields 1.
Holds(op, n) == CASE op = "EQUAL" -> n = 0
                  [] op = "NOT_EQUAL" -> n # 0
                  [] op = "LESS_THAN" -> n < 0
                  [] op = "GREATER_THAN" -> n > 0

\* ColumnValueExpression and ConstantExpression.
Evaluate(x, data, cs) == IF "col" \in DOMAIN x THEN ValueAt(data, cs, x.col) ELSE x.val

\* FilterExpression: conditions in turn, up to one that does not hold.
\* Mutation: any condition will do.
PassesAny(conds, data, cs) ==
  conds = <<>> \/ \E i \in DOMAIN conds :
    Holds(conds[i].op, Compare(Evaluate(conds[i].left, data, cs),
                               Evaluate(conds[i].right, data, cs)))
Passes(conds, data, cs) ==
  \A i \in DOMAIN conds :
    Holds(conds[i].op, Compare(Evaluate(conds[i].left, data, cs),
                               Evaluate(conds[i].right, data, cs)))

\* The columns of a WHERE list are of the schema; of another bind_select does not
\* return (col_value_express asserts it; see Binder).
KnownColumns(conds, cs) ==
  \A i \in DOMAIN conds : \A x \in {conds[i].left, conds[i].right} :
    "col" \in DOMAIN x => x.col \in DOMAIN cs

\* compare asserts that its operands have one type, which the binder does not
\* look at.  A row aborts the process if the conditions before such a one hold.
OperandType(x, cs) ==
  IF "val" \in DOMAIN x THEN x.val.type
  ELSE AttrType(cs[x.col].type)
Comparable(c, cs) == OperandType(c.left, cs) = OperandType(c.right, cs)
Aborts(conds, data, cs) ==
  \E i \in DOMAIN conds : /\ ~Comparable(conds[i], cs)
                         /\ \A j \in 1..i-1 : Comparable(conds[j], cs)
                         /\ Passes(SubSeq(conds, 1, i-1), data, cs)
-----------------------------------------------------------------------------
Init == /\ cols \in Schemas
        /\ rows = <<>> /\ vals = <<>>
        /\ query = NoQuery

\* bind_insert compares counts and types; InsertExecuter appends the tuple.
\* Other values are refused (COLUMN_TYPE_MISMATCH) and change nothing.
Insert(vs) ==
  /\ query = NoQuery
  /\ Len(rows) < RowBound  \* model bound
  /\ Fits(vs, cols)
  /\ rows' = Append(rows, CreateTuple(vs, cols))
  /\ vals' = Append(vals, vs)
  /\ UNCHANGED <<cols, query>>

\* bind_select: `*' stands for all columns.
BindSelect(conds, out) ==
  /\ query = NoQuery
  /\ KnownColumns(conds, cols)
  /\ query' = [conds |-> conds, out |-> out, pos |-> 1, tuples |-> <<>>, ended |-> FALSE]
  /\ UNCHANGED <<cols, rows, vals>>

\* The output schema (copy_schema).
OutCols == CopySchema(cols, query.out)

\* Rows left to scan that the filter lets pass, or that end the process;
\* FilterExecuter::next asks the scan for rows up to the first.
Fatal == {i \in query.pos..Len(rows) : Aborts(query.conds, rows[i], cols)}
Found == {i \in query.pos..Len(rows) : i \in Fatal \/ Passes(query.conds, rows[i], cols)}
FirstFound == CHOOSE i \in Found : \A j \in Found : i <= j

\* ProjecetionExecuter::next: the columns asked for, as a tuple of their own.
Projected(data) ==
  CreateTuple([k \in DOMAIN query.out |-> ValueAt(data, cols, query.out[k])], OutCols)

\* One turn of execute_sql's loop.
NextTuple ==
  /\ query # NoQuery /\ ~query.ended /\ Found # {} /\ FirstFound \notin Fatal
  /\ query' = [query EXCEPT !.pos = FirstFound + 1,
                            !.tuples = Append(@, Projected(rows[FirstFound]))]
  /\ UNCHANGED <<cols, rows, vals>>

\* The assertion in Value::compare ends the process; a start finds some of the
\* rows (Crash of Table).
AbortSelect ==
  /\ query # NoQuery /\ ~query.ended /\ Found # {} /\ FirstFound \in Fatal
  /\ query' = NoQuery
  /\ \E n \in 0..Len(rows) : /\ rows' = SubSeq(rows, 1, n)
                             /\ vals' = SubSeq(vals, 1, n)
  /\ UNCHANGED cols

\* OUT_OF_RANGE ends the loop.
NoTuple ==
  /\ query # NoQuery /\ ~query.ended /\ Found = {}
  /\ query' = [query EXCEPT !.pos = Len(rows) + 1, !.ended = TRUE]
  /\ UNCHANGED <<cols, rows, vals>>

\* Value::to_string; a float has six digits after the point, here one.
Digit == <<"0", "1", "2", "3", "4", "5", "6", "7", "8", "9">>
Decimal(n) ==
  LET digits[m \in 0..n] ==
        (IF m < 10 THEN <<>> ELSE digits[m \div 10]) \o <<Digit[(m % 10) + 1]>>
  IN  digits[n]
Signed(n, text) == (IF n < 0 THEN <<"-">> ELSE <<>>) \o text
Magnitude(n) == IF n < 0 THEN -n ELSE n
ToText(v) ==
  CASE v.type = "INTS" -> Signed(v.v, Decimal(Magnitude(v.v)))
    [] v.type = "FLOATS" ->
         Signed(v.v, Decimal(Magnitude(v.v) \div FloatUnit) \o <<".">>
                       \o Decimal(((Magnitude(v.v) % FloatUnit) * 10) \div FloatUnit))
    [] OTHER -> [k \in DOMAIN v.v |-> Chars[v.v[k] + 1]]
TextsOf(vs) == [i \in DOMAIN vs |-> ToText(vs[i])]
NamesOf(out) == [i \in DOMAIN out |-> <<"c">> \o Decimal(out[i])]

\* print_rows: the tuples under the output schema, below the columns' names.
Result == [k \in DOMAIN query.tuples |->
             [i \in DOMAIN query.out |-> ValueAt(query.tuples[k], OutCols, i)]]
PrintRows ==
  FoldLeft(LAMBDA table, values : AddRow(table, TextsOf(values)), AddRow(<<>>, NamesOf(query.out)), Result)

\* The statement is done with.
Finish == /\ query # NoQuery /\ query.ended
          /\ query' = NoQuery
          /\ UNCHANGED <<cols, rows, vals>>

\* Output lists: columns in any order, some perhaps twice.
OutLists == UNION {[1..n -> DOMAIN cols] : n \in 1..Len(cols)}

Next == \/ \E n \in {Len(s) : s \in Schemas} : \E vs \in [1..n -> Literals] : Insert(vs)
        \/ \E conds \in Conditions, out \in OutLists : BindSelect(conds, out)
        \/ NextTuple \/ AbortSelect \/ NoTuple \/ Finish
Spec == Init /\ [][Next]_vars
-----------------------------------------------------------------------------
\* "assert(offset <= data_.size())" (tuple.hpp:97): no column starts past the
\* end of its row.
OffsetsInside ==
  \A r \in ToSet(rows) : \A i \in 1..Len(cols) : Offset(r, cols, i) <= Len(r)

\* What a condition means: "= 2.5" holds of 2.5 only (comparsion_expression.hpp
\* says `not eq' of the other outcome), "<" and ">" are the order of numbers
\* and strings.
ValueOf(x, row) == IF "col" \in DOMAIN x THEN row[x.col].v ELSE x.val.v
LessThan(l, r, type) == IF type = "STRING" THEN Before(l, r) ELSE l < r
Meets(c, row) ==
  LET l == ValueOf(c.left, row)
      r == ValueOf(c.right, row)
      type == OperandType(c.left, cols)
  IN  CASE c.op = "EQUAL" -> l = r
        [] c.op = "NOT_EQUAL" -> l # r
        [] c.op = "LESS_THAN" -> LessThan(l, r, type)
        [] c.op = "GREATER_THAN" -> LessThan(r, l, type)

\* A SELECT that ended has the columns asked for, of the rows that meet all
\* conditions, in the order of their insertion, each once.  (If a condition
\* compares two types, no row has come to it.)
Answer ==
  LET met == SelectSeq(vals, LAMBDA row : \A i \in DOMAIN query.conds : Meets(query.conds[i], row))
  IN  [k \in DOMAIN met |-> [i \in DOMAIN query.out |-> met[k][query.out[i]]]]
Ended == query # NoQuery /\ query.ended
SelectIsRight == Ended => Result = Answer

\* What the shell prints is a table of lines of one length that says the
\* answer: cut at the corners of its first line, its lines are the names and
\* then the values of each row, one line each, whatever their widths and with
\* no word broken ("add projection columns' values", command.cc:54).
PrintedIsAnswer ==
  Ended =>
    LET lines == PrintTable(PrintRows)
        corners == SetToSortSeq({k \in DOMAIN lines[1] : lines[1][k] = "+"}, <)
        cell(line, j) == Trim(SubSeq(line, corners[j] + 1, corners[j+1] - 1))
        texts == <<NamesOf(query.out)>> \o [k \in DOMAIN Answer |-> TextsOf(Answer[k])]
    IN  /\ Len(lines) = 2 * Len(texts) + 1
        /\ \A k \in DOMAIN lines : Len(lines[k]) = Len(lines[1])
        /\ \A k \in DOMAIN texts : \A j \in DOMAIN query.out :
             cell(lines[2*k], j) = Trim(texts[k][j])

\* "assert(type_ == v.type_)" (ast.hpp:110) never fails; BindSelect breaks it.
OperandsMatch == query # NoQuery => Fatal = {}
=============================================================================
