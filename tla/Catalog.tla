------------------------------- MODULE Catalog ------------------------------
(***************************************************************************)
(* The catalog (src/catalog/catalog.hpp): tables by name, each with its    *)
(* schema and its heap, and two files per table in the working directory.  *)
(* name.db exists from CREATE TABLE on; name.json, which makes the next    *)
(* start find the table, is written when the program exits.  A heap is     *)
(* what Table promises: its file has some prefix of the rows, and all of   *)
(* them once the heap is closed; killed while it is closed it may have any *)
(* rows after those the file had.  Statements that are refused change      *)
(* nothing; a SELECT changes nothing here (see Query), but may leave pins  *)
(* with which the heap's close finds no frame (see Statements).            *)
(***************************************************************************)
EXTENDS SchemaOps, FiniteSets

CONSTANTS
  Names,     \* names of tables; numbers, ordered as in the std::map
  Schemas,   \* schemas of CREATE TABLE
  Rows,      \* value lists of INSERT
  RowBound,  \* bound on the rows of a table
  NoFile, Torn

ASSUME CatalogAssumption ==
  /\ Names \subseteq Nat
  /\ Schemas \subseteq Seq(Columns) \ {<<>>}
  /\ RowBound \in Nat
  /\ {NoFile, Torn} \cap {ToJson(s) : s \in Schemas} = {}
  /\ NoFile \notin Seq(Rows) /\ NoFile # Torn

VARIABLES
  up,      \* the program runs
  tables,  \* Catalog::tables_: schemas by name
  heaps,   \* StorageManager::tables_: the rows of each heap by name
  db,      \* name.db: the rows that a start would find
  meta,    \* name.json
  ever,    \* history: the rows inserted since name.db was made
  foreign, \* history: the names whose CREATE TABLE took over a name.db that
           \* was used for rows of another schema
  kept     \* history: schema and rows of each table that the last exit has
           \* saved, if it was not dropped since
vars == <<up, tables, heaps, db, meta, ever, foreign, kept>>

NoTables == [n \in {} |-> NoFile]
Without(f, n) == [m \in DOMAIN f \ {n} |-> f[m]]
With(f, n, v) == [m \in DOMAIN f \cup {n} |-> IF m = n THEN v ELSE f[m]]

\* A heap that is opened has the rows of its file, which is made if missing.
\* Mutation: it is not.
OpenedAsIs(n) == db[n]
Opened(n) == IF db[n] = NoFile THEN <<>> ELSE db[n]

\* Sequences between s and t in length, on the way from one to the other.
Between(s, t) == {SubSeq(t, 1, k) : k \in Len(s)..Len(t)}

\* What a kill may leave in name.db while its heap is closed (CrashInClose of
\* Table): the rows it had and after them any that ever got into the file.
Left(n) == {db[n] \o t : t \in UNION {[1..k -> ever[n]] : k \in 0..RowBound - Len(db[n])}}

Init == /\ up = FALSE
        /\ tables = NoTables /\ heaps = NoTables /\ kept = NoTables
        /\ db = [n \in Names |-> NoFile]
        /\ meta = [n \in Names |-> NoFile]
        /\ ever = [n \in Names |-> {}] /\ foreign = {}
-----------------------------------------------------------------------------
\* Catalog::init opens a table for each .json file it finds; a file that is
\* no JSON makes it throw.
Start ==
  LET found == {n \in Names : meta[n] # NoFile}
  IN  /\ ~up /\ \A n \in Names : meta[n] # Torn
      /\ up' = TRUE
      /\ tables' = [n \in found |-> FromJson(meta[n])]
      /\ heaps' = [n \in found |-> Opened(n)]
      /\ db' = [n \in Names |-> IF n \in found THEN Opened(n) ELSE db[n]]
      /\ UNCHANGED <<meta, ever, foreign, kept>>

\* CREATE TABLE: bind_create refuses the name of a table, create_table opens
\* name.db, with the rows in it if a crash left one behind.
Create(n, cols) ==
  /\ up /\ n \notin DOMAIN tables
  /\ tables' = With(tables, n, cols)
  /\ heaps' = With(heaps, n, Opened(n))
  /\ db' = [db EXCEPT ![n] = Opened(n)]
  /\ foreign' = IF \A vs \in ever[n] : Fits(vs, cols) THEN foreign \ {n} ELSE foreign \cup {n}
  /\ UNCHANGED <<up, meta, ever, kept>>

\* The user removes the data that a crash left, or a name.json that a start
\* would not read.
RemoveLeftover(n) ==
  /\ ~up /\ meta[n] = NoFile /\ db[n] # NoFile
  /\ db' = [db EXCEPT ![n] = NoFile]
  /\ ever' = [ever EXCEPT ![n] = {}]
  /\ UNCHANGED <<up, tables, heaps, meta, foreign, kept>>
RemoveTorn(n) ==
  /\ ~up /\ meta[n] = Torn
  /\ meta' = [meta EXCEPT ![n] = NoFile]
  /\ kept' = Without(kept, n)
  /\ UNCHANGED <<up, tables, heaps, db, ever, foreign>>

\* INSERT: bind_insert checks the values, InsertExecuter appends the row.
\* Mutation: the types are not compared.
InsertUnchecked(n, vs) ==
  /\ up /\ n \in DOMAIN tables
  /\ Len(heaps[n]) < RowBound
  /\ Len(vs) = Len(tables[n])
  /\ heaps' = [heaps EXCEPT ![n] = Append(@, vs)]
  /\ ever' = [ever EXCEPT ![n] = @ \cup {vs}]
  /\ UNCHANGED <<up, tables, db, meta, foreign, kept>>
Insert(n, vs) ==
  /\ up /\ n \in DOMAIN tables
  /\ Len(heaps[n]) < RowBound  \* model bound
  /\ Fits(vs, tables[n])
  /\ heaps' = [heaps EXCEPT ![n] = Append(@, vs)]
  /\ ever' = [ever EXCEPT ![n] = @ \cup {vs}]
  /\ UNCHANGED <<up, tables, db, meta, foreign, kept>>

\* Rows become durable by evictions.
Persist(n) ==
  /\ up /\ n \in DOMAIN heaps
  /\ \E s \in Between(db[n], heaps[n]) : db' = [db EXCEPT ![n] = s]
  /\ UNCHANGED <<up, tables, heaps, meta, ever, foreign, kept>>

\* DROP TABLE: the catalog's entry and name.json go first, then the heap,
\* which closes its file, and name.db.  Mutation: the heap stays.  Mutation:
\* name.json stays.
DropKeepingHeap(n) ==
  /\ up /\ n \in DOMAIN tables
  /\ tables' = Without(tables, n)
  /\ meta' = [meta EXCEPT ![n] = NoFile]
  /\ db' = [db EXCEPT ![n] = NoFile]
  /\ ever' = [ever EXCEPT ![n] = {}]
  /\ kept' = Without(kept, n)
  /\ UNCHANGED <<up, heaps, foreign>>
DropKeepingMeta(n) ==
  /\ up /\ n \in DOMAIN tables
  /\ tables' = Without(tables, n)
  /\ heaps' = Without(heaps, n)
  /\ db' = [db EXCEPT ![n] = NoFile]
  /\ ever' = [ever EXCEPT ![n] = {}]
  /\ kept' = Without(kept, n)
  /\ UNCHANGED <<up, meta, foreign>>
Drop(n) ==
  /\ up /\ n \in DOMAIN tables
  /\ tables' = Without(tables, n)
  /\ heaps' = Without(heaps, n)
  /\ meta' = [meta EXCEPT ![n] = NoFile]
  /\ db' = [db EXCEPT ![n] = NoFile]
  /\ ever' = [ever EXCEPT ![n] = {}]
  /\ kept' = Without(kept, n)
  /\ UNCHANGED <<up, foreign>>

\* The process ends; what the files have is left.
Stop == /\ up /\ up' = FALSE /\ tables' = NoTables /\ heaps' = NoTables
        /\ UNCHANGED <<ever, foreign>>

\* Exit: ~Catalog writes every name.json, then its StorageManager closes every
\* heap; a close that finds no frame for page 0 writes nothing.  saved are the
\* others.  Mutation: the heaps are not closed.
MetaWritten(n) == IF n \in DOMAIN tables THEN ToJson(tables[n]) ELSE meta[n]
HeapClosed(n, saved) == IF n \in saved THEN heaps[n] ELSE db[n]
Saved(saved) ==
  [n \in DOMAIN tables |-> [cols |-> tables[n], rows |-> HeapClosed(n, saved)]]
ExitClosingNoHeap(saved) ==
  /\ Stop
  /\ meta' = [n \in Names |-> MetaWritten(n)]
  /\ kept' = Saved(saved)
  /\ UNCHANGED db
Exit(saved) ==
  /\ Stop
  /\ meta' = [n \in Names |-> MetaWritten(n)]
  /\ db' = [n \in Names |-> HeapClosed(n, saved)]
  /\ kept' = Saved(saved)

Crash == Stop /\ UNCHANGED <<db, meta, kept>>

\* Killed in DROP TABLE, with name.json removed and name.db not.
CrashInDrop(n) ==
  /\ Stop /\ n \in DOMAIN tables
  /\ meta' = [meta EXCEPT ![n] = NoFile]
  /\ \E s \in Left(n) : db' = [db EXCEPT ![n] = s]
  /\ kept' = Without(kept, n)

\* Killed in the exit, with every name.json written and the heap of last being
\* closed after those of the names before it.
CrashInExit(last, saved) ==
  /\ Stop /\ last \in DOMAIN heaps
  /\ meta' = [n \in Names |-> MetaWritten(n)]
  /\ \E s \in Left(last) :
       db' = [n \in Names |-> IF n < last THEN HeapClosed(n, saved)
                              ELSE IF n = last THEN s ELSE db[n]]
  /\ UNCHANGED kept

\* Killed before that, between two of the JSON files, or while that of last is
\* written, which opening it has truncated.
CrashInSave(last, cut) ==
  /\ Stop /\ last \in DOMAIN tables
  /\ meta' = [n \in Names |-> IF n < last THEN MetaWritten(n)
                              ELSE IF n = last THEN cut ELSE meta[n]]
  /\ UNCHANGED <<db, kept>>

Next == \/ Start \/ Crash
        \/ \E n \in Names :
             \/ Persist(n) \/ Drop(n) \/ CrashInDrop(n)
             \/ RemoveLeftover(n) \/ RemoveTorn(n)
             \/ \E cut \in {MetaWritten(n), Torn} : CrashInSave(n, cut)
             \/ \E vs \in Rows : Insert(n, vs)
             \/ \E cols \in Schemas : Create(n, cols)
             \/ \E saved \in SUBSET DOMAIN heaps : CrashInExit(n, saved)
        \/ \E saved \in SUBSET DOMAIN heaps : Exit(saved)
Spec == Init /\ [][Next]_vars
-----------------------------------------------------------------------------
\* Every variable has its type.
TypeOK ==
  /\ up \in BOOLEAN
  /\ DOMAIN tables \subseteq Names /\ \A n \in DOMAIN tables : tables[n] \in Schemas
  /\ DOMAIN heaps \subseteq Names /\ \A n \in DOMAIN heaps : heaps[n] \in Seq(Rows)
  /\ db \in [Names -> Seq(Rows) \cup {NoFile}]
  /\ meta \in [Names -> {ToJson(s) : s \in Schemas} \cup {NoFile, Torn}]
  /\ ever \in [Names -> SUBSET Rows] /\ foreign \subseteq Names
  /\ DOMAIN kept \subseteq Names
  /\ \A n \in DOMAIN kept : kept[n].cols \in Schemas /\ kept[n].rows \in Seq(Rows)

\* A table has a heap and a heap a table: neither "assert(tables_.find(...) ==
\* tables_.end())" (catalog.hpp:35) nor InsertExecuter's "assert(heap)" fails.
CatalogMatchesStore == DOMAIN tables = DOMAIN heaps

\* "Check columns' type" (binder.hpp:178): each row of a table has values of
\* its columns' types, so that value_at reads what create_tuple wrote; also
\* after any exit, kill and start.  All that can break it is CREATE TABLE of a
\* name whose name.db, left by a crash, had rows that do not fit.
RowsMatchSchema ==
  /\ \A n \in DOMAIN tables \ foreign : \A i \in DOMAIN heaps[n] : Fits(heaps[n][i], tables[n])
  /\ \A n \in Names \ foreign : meta[n] \notin {NoFile, Torn} /\ db[n] # NoFile =>
       \A i \in DOMAIN db[n] : Fits(db[n][i], FromJson(meta[n]))

\* The same of every table; Create breaks it.
AllRowsMatchSchema ==
  \A n \in DOMAIN tables : \A i \in DOMAIN heaps[n] : Fits(heaps[n][i], tables[n])

\* A table that was dropped does not come back: while the program runs, each
\* name.json is of a table of the catalog and has its schema.
DroppedStaysDropped ==
  up => \A n \in Names : meta[n] # NoFile => /\ n \in DOMAIN tables
                                             /\ FromJson(meta[n]) = tables[n]

\* What an exit has saved survives any number of restarts and kills until it
\* is dropped: a start finds the table, with these rows first.  Only a kill
\* while name.json is written loses the schema, and never the rows.
KeptSurvives ==
  \A n \in DOMAIN kept :
    /\ meta[n] \in {ToJson(kept[n].cols), Torn}
    /\ db[n] # NoFile /\ kept[n].rows \in Between(<<>>, db[n])

\* No kill makes the next start throw (json.hpp:36); CrashInSave breaks it.
StartsAgain == \A n \in Names : meta[n] # Torn
=============================================================================
