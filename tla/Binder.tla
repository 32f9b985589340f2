------------------------------- MODULE Binder -------------------------------
(***************************************************************************)
(* A statement from its text to its answer (execute_sql in                 *)
(* src/bin/command.cc): the parser, the binder (src/binder/binder.hpp),    *)
(* which looks the names up in the catalog and makes an executer, and the  *)
(* executer (src/execution), run until it returns no row.  Of a SELECT the *)
(* executers are the answer, with columns by their positions: Query runs   *)
(* them.                                                                   *)
(***************************************************************************)
EXTENDS SqlParser, SchemaOps

CONSTANTS Catalogs,  \* what tables there may be: the columns by the name
          NoPlan

VARIABLES
  tables,  \* the catalog's: columns [name, type, size] by the name
  rows,    \* the values in each table
  result   \* rc_ of the result, and the executers of a SELECT
bvars == <<vars, tables, rows, result>>

\* Catalog::has_table, and get_table that returns one.
HasTable(name) == name \in DOMAIN tables

\* Schema::column_idx; 0 for its -1.
ColumnIdx(cols, name) ==
  LET named == {i \in DOMAIN cols : cols[i].name = name}
  IN  IF named = {} THEN 0 ELSE Min(named)

\* filter_executer: a column is looked up by its name alone.
Convert == [EQ |-> "EQUAL", NOT_EQ |-> "NOT_EQUAL", SMALLER |-> "LESS_THAN", GREATER |-> "GREATER_THAN"]
ColValueExpress(cols, v) == [col |-> ColumnIdx(cols, v.v.name)]
ConstantExpress(v) == [val |-> v]
Operand(cols, v) == IF v.type = "REL_ATTR" THEN ColValueExpress(cols, v) ELSE ConstantExpress(v)
FilterExecuter(cols, conds) ==
  [i \in DOMAIN conds |-> [left |-> Operand(cols, conds[i].left), op |-> Convert[conds[i].op],
                           right |-> Operand(cols, conds[i].right)]]

\* Where one of its assertions fails.
Unbound(cols, c) ==
  \/ c.op \notin DOMAIN Convert
  \/ \E v \in {<<c.left>>, <<c.right>>} : v[1].type = "REL_ATTR" /\ ColumnIdx(cols, v[1].v.name) = 0
-----------------------------------------------------------------------------
\* execute_sql returns: an executer that has come to its end has succeeded.
Answer(code, plan) == /\ at = "done" /\ at' = "answered"
                      /\ result' = [rc |-> IF code = "OUT_OF_RANGE" THEN "SUCCESS" ELSE code, plan |-> plan]
                      /\ UNCHANGED <<tokens, said, meant, lex, query, rc>>

\* An ErrorExecuter, or no executer; and an assertion that fails.
ErrorExecuter(code) == Answer(code, NoPlan) /\ UNCHANGED <<tables, rows>>
Refused == rc # "SUCCESS" /\ ErrorExecuter(rc)
Bound(kind) == at = "done" /\ rc = "SUCCESS" /\ query.kind = kind

\* bind_select.
OutputIdx(cols) ==
  FlattenSeq([i \in DOMAIN query.attrs |-> IF query.attrs[i].name = Star THEN [j \in DOMAIN cols |-> j]
                                           ELSE <<ColumnIdx(cols, query.attrs[i].name)>>])
SelectRefused ==
  \/ query.attrs = <<>>
  \/ Len(query.from) # 1
  \/ \E i \in DOMAIN query.attrs : query.attrs[i].table \notin {<<>>, query.from[1]}
BindSelect ==
  /\ Bound("SELECT")
  /\ IF SelectRefused THEN ErrorExecuter("SYNTAX_ERROR")
     ELSE IF ~HasTable(query.from[1]) THEN ErrorExecuter("TABLE_NOT_EXISTED")
     ELSE \E cols \in {tables[query.from[1]]} :
       IF \E i \in DOMAIN query.conds : Unbound(cols, query.conds[i]) THEN ErrorExecuter("ABORT")
       ELSE IF \E i \in DOMAIN OutputIdx(cols) : OutputIdx(cols)[i] = 0 THEN ErrorExecuter("COLUMN_NOT_EXIST")
       ELSE /\ Answer("OUT_OF_RANGE", [table |-> query.from[1], filter |-> FilterExecuter(cols, query.conds),
                                       out |-> OutputIdx(cols)])
            /\ UNCHANGED <<tables, rows>>

\* bind_insert, which does not look at the list of columns.  Mutation: a row
\* may have fewer values than the table columns.
InsertFits == Fits(query.values, tables[query.table])
BindInsertFewer ==
  /\ Bound("INSERT")
  /\ IF ~HasTable(query.table) THEN ErrorExecuter("TABLE_NOT_EXISTED")
     ELSE IF \A n \in DOMAIN tables[query.table] : ~Fits(query.values, SubSeq(tables[query.table], 1, n))
     THEN ErrorExecuter("COLUMN_TYPE_MISMATCH")
     ELSE /\ Answer("OUT_OF_RANGE", NoPlan)
          /\ rows' = [rows EXCEPT ![query.table] = Append(@, query.values)]
          /\ UNCHANGED tables
BindInsert ==
  /\ Bound("INSERT")
  /\ IF ~HasTable(query.table) THEN ErrorExecuter("TABLE_NOT_EXISTED")
     ELSE IF ~InsertFits THEN ErrorExecuter("COLUMN_TYPE_MISMATCH")
     ELSE /\ Answer("OUT_OF_RANGE", NoPlan)
          /\ rows' = [rows EXCEPT ![query.table] = Append(@, query.values)]
          /\ UNCHANGED tables

BindDelete == Bound("DELETE") /\ ErrorExecuter("SYNTAX_ERROR")

\* bind_create, and CreateTableExecuter.
NewColumns == [i \in DOMAIN query.cols |->
                 [query.cols[i] EXCEPT !.size = IF query.cols[i].type = "CHAR" THEN @ ELSE 0]]
BindCreate ==
  /\ Bound("CREATE")
  /\ IF HasTable(query.table) THEN ErrorExecuter("TABLE_ALREADY_EXISTED")
     ELSE /\ Answer("OUT_OF_RANGE", NoPlan)
          /\ tables' = tables @@ (query.table :> NewColumns)
          /\ rows' = rows @@ (query.table :> <<>>)

\* bind_drop, and DropTableExecuter.
DropTable == /\ tables' = [n \in DOMAIN tables \ {query.table} |-> tables[n]]
             /\ rows' = [n \in DOMAIN rows \ {query.table} |-> rows[n]]
BindDrop ==
  /\ Bound("DROP")
  /\ IF ~HasTable(query.table) THEN ErrorExecuter("TABLE_NOT_EXISTED")
     ELSE Answer("OUT_OF_RANGE", NoPlan) /\ DropTable

BinderInit == /\ Init /\ tables \in Catalogs
              /\ rows = [n \in DOMAIN tables |-> <<>>] /\ result = [rc |-> "NONE", plan |-> NoPlan]
Bind == BindSelect \/ BindInsert \/ BindDelete \/ BindCreate \/ BindDrop \/ Refused
Parse == ParseStep /\ UNCHANGED <<tables, rows, result>>
BinderSpec == BinderInit /\ [][Parse \/ Bind]_bvars /\ WF_bvars(Parse \/ Bind)
-----------------------------------------------------------------------------
\* What a SELECT's executers stand for, by the names in its text.
Means(cols, v, operand) == IF v.type = "REL_ATTR" THEN cols[operand.col].name = v.v.name ELSE operand.val = v
SelectIsMeant(plan) ==
  LET cols == tables[plan.table]
      namesOf(a) == IF a.name = Star THEN [j \in DOMAIN cols |-> cols[j].name] ELSE <<a.name>>
  IN  /\ query.from = <<plan.table>> /\ Len(plan.filter) = Len(query.conds)
      /\ \A i \in DOMAIN query.conds : /\ Means(cols, query.conds[i].left, plan.filter[i].left)
                                       /\ Means(cols, query.conds[i].right, plan.filter[i].right)
      /\ [i \in DOMAIN plan.out |-> cols[plan.out[i]].name] = FlattenSeq([i \in DOMAIN query.attrs |-> namesOf(query.attrs[i])])
RowFits(cols, row) == Len(row) = Len(cols) /\ \A i \in DOMAIN row : AttrType(cols[i].type) = row[i].type
Declares(cols) == /\ Len(cols) = Len(query.cols)
                  /\ \A i \in DOMAIN cols : /\ cols[i].name = query.cols[i].name /\ cols[i].type = query.cols[i].type
                                            /\ cols[i].type = "CHAR" => cols[i].size = query.cols[i].size
Others(f, g) == /\ DOMAIN f \ {query.table} = DOMAIN g \ {query.table}
                /\ \A n \in DOMAIN f \ {query.table} : f[n] = g[n]
Done ==
  CASE query.kind = "SELECT" -> SelectIsMeant(result'.plan) /\ UNCHANGED <<tables, rows>>
    [] query.kind = "INSERT" -> /\ RowFits(tables[query.table], query.values) /\ Others(rows, rows') /\ UNCHANGED tables
                                /\ rows'[query.table] = Append(rows[query.table], query.values)
    [] query.kind = "CREATE" -> /\ query.table \notin DOMAIN tables /\ Declares(tables'[query.table])
                                /\ rows'[query.table] = <<>> /\ Others(tables, tables') /\ Others(rows, rows')
    [] query.kind = "DROP" -> /\ query.table \in DOMAIN tables \ DOMAIN tables'
                              /\ DOMAIN rows' = DOMAIN tables' /\ Others(tables, tables') /\ Others(rows, rows')
    [] OTHER -> FALSE

\* A statement that is reported as done is one that its text says, from the
\* first token up to the end of a statement, and was done with its table, its
\* columns, its values in their order and its conditions; one that is refused
\* has changed nothing (execute_sql, command.cc:70).  Two parts of a text are
\* not compared, for the code does not look at them: an INSERT's list of column
\* names and the table named with a column in a condition (ValuesInNamedColumns
\* and ConditionsOnTable, below, are broken).
DoneAsSaid ==
  [][Bind => IF result'.rc = "SUCCESS" THEN Says(said, query) /\ Done ELSE UNCHANGED <<tables, rows>>]_bvars

\* Every statement is answered, whatever its text: each loop of the parser
\* takes a token or gives up.
Answered == <>(at = "answered")

\* No assertion of the binder fails.
BindsWithoutAbort == rc = "SUCCESS" => result.rc # "ABORT"

\* A condition is on the table that its columns name.
ConditionsOnTable ==
  result.rc = "SUCCESS" /\ query.kind = "SELECT" =>
    \A i \in DOMAIN query.conds : \A v \in {<<query.conds[i].left>>, <<query.conds[i].right>>} :
      v[1].type = "REL_ATTR" => v[1].v.table \in {<<>>, query.from[1]}

\* "INSERT INTO table_name (...) VALUES (...)" (parser.hpp:377) puts each value
\* in the column that is named for it.
ValuesInNamedColumns ==
  result.rc = "SUCCESS" /\ query.kind = "INSERT" =>
    \A i \in DOMAIN query.cols : ColumnIdx(tables[query.table], query.cols[i]) = i
=============================================================================
