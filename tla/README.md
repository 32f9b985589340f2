# A TLA+ model of TadisSQL

TadisSQL is a small relational database in C++20: a shell reads one SQL
statement at a time, a parser and a binder turn it into an executer, and the
executer works on tables that are heaps of records in the pages of a file,
cached by a buffer pool. This directory holds a specification in TLA+ of the
storage engine, the catalog, the way of a statement from its text to its answer
and the JSON it is all saved in, the configurations that model-check it with TLC, and proofs of its main invariants
for TLAPS.

Paths below are relative to the repository root. The program is single
threaded. What interleaves is the use of one pool by several holders of pages
(record scanners, inserts between the calls of a scan), the death of the
process between any two writes to the file, and, from one statement to the
next, what each leaves behind in the pool. The build does not define `NDEBUG`
(`CMakeLists.txt`), so an assertion that fails ends the process.

## The system

| part | source | state | operations | talks to |
|---|---|---|---|---|
| replacer | `src/storage/bufferpool/replacer.hpp` | `lru_list_`, `dir_` (value to list iterator), capacity | `put`, `touch`, `remove`, `victim` | called by the pool |
| bitmap | `src/common/bitmap.hpp` | a view of bytes | `first`, `first_after`, `get`, `set` | over `head_.bitmap_` |
| disk manager | `.../disk_manager.hpp` | the file, `next_page_id_` | `read_page`, `write_page`, `next_page_id`, `current_pid`, `close` | called by the pool |
| buffer pool | `.../buffer_pool.hpp` | `pages_`, `dir_`, `free_list_`, `head_` | constructor, `fetch`, `new_page`, `unpin`, `delete_page`, `flush_page`, `flush_all_page`, `contain`, `next_pid_after`, `close` | replacer, disk manager, page 0 |
| record page | `.../record.hpp` | the bytes of a page; a copy of its index per object | `insert`, `remove`, `get`, `contain`, `init`, `write_head` | a `Page*` of the pool |
| record scanners | `.../record.hpp` | page and slot of the next record, a pinned page | `init`, `has_next`, `next`, destructor | pool, record page |
| table heap | `src/storage/table_heap/table_heap.hpp` | a pool | `insert`, `remove`, `scanner`, `close` | all of the above |
| catalog | `src/catalog/catalog.hpp` | tables, their schemas as JSON files | `create_table`, `drop_table`, `init`, `close` | table heaps, JSON |
| tuples | `src/catalog/{tuple,schema,column}.hpp` | bytes of a row | `create_tuple`, `value_at` | |
| lexer, parser | `src/sql/parser` | position in the text, one slot for the value of the last token, the tree | `next`, `peek`, `next_if`, `do_parse` | called by `execute_sql` |
| binder, executers, expressions | `src/binder`, `src/execution`, `src/expression` | a tree of executers per statement | `bind`, `next`, `evaluate` | catalog, scanners |
| JSON text | `src/json/json_{parser,writer}.hpp`, `src/common/json.hpp` | position in the text | `Parse`, `print`, `read`, `write` | catalog |
| JSON values | `src/json/json_value.hpp` | a tag and a pointer to a node it owns | constructors, `=`, `swap`, `push_back`, `insert`, ... | both of the above |
| printed tables | `src/bin/tabulate.h` (vendored) | cells, rows, columns, formats | `add_row`, `print` | called by the shell |
| shell | `src/bin/command.cc` | the catalog | `execute_sql`, `print_rows`, `.quit` | all |

What is hard here: a frame has several owners over its life (the free list, the
replacer, the holders of its page) and every call must hand it over exactly
once; the pool, the replacer and the head each keep the same fact twice; a page
pointer outlives the call that returned it; an object that reads a page keeps a
copy of its index while the page changes; the head reaches the file only at
close while data pages reach it at every eviction; and sizes are unsigned and
compared at boundaries. A statement's parser shares one slot for values among
all tokens and puts back the position, but not the slot, after a look ahead; a
statement that fails half way has pinned pages by then; and a JSON value is
copied, moved and swapped by members that each have to keep one owner per node.

What makes each part correct:

- **replacer**: list and map mirror each other; the victim is the value that was
  put longest ago.
- **buffer pool**: a page is in at most one frame, a held pointer stays good, no
  write is lost by an eviction, a new page was unused, and all of this over
  restarts: to its clients the pool is a store of pages.
- **head and bitmap**: bytes and sets of bits agree through growth and saving.
- **record page**: records read back as they were put in, index and records keep
  apart, and a record that is accepted fits.
- **scanners, heap**: the table is a sequence of rows; a scan returns every row
  that was there when it was opened, in order, once; every pin is returned.
- **catalog**: its two maps agree; a table that an exit saved survives crashes
  and a dropped one stays dropped; the rows of a table fit its schema, unless it
  was made over a file with others.
- **tuples, executers**: a row reads back as it was inserted, and a SELECT prints
  what the conditions and columns in it mean.
- **lexer, parser, binder**: every statement is answered; one that is reported as
  done was done with the table, the columns, the values and the conditions of its
  text, and one that is refused changed nothing.
- **statements on a table**: a SELECT ends, and answers with all rows or an
  error, whatever pins earlier statements left behind.
- **JSON values**: they behave as trees that share nothing; no node is used after
  it is deleted.
- **printed tables**: the answer can be read off the lines printed.
- **JSON text**: what the writer prints is read as the same schema, and a file that
  was cut off is never read as another.

## Modules

| module | what it is |
|---|---|
| `LruOps` | the replacer as operators on a sequence; used by the pool |
| `Lru` | what an LRU replacer promises: a set of members and the order of their last puts |
| `LruReplacer` | the linked list of nodes and the map of iterators; implements `Lru` and computes the `LruOps` operators |
| `PoolOps` | each operation of the pool, with the disk manager under it, as an operator from a pool to the pool the call leaves |
| `PageStore` | what the pool promises: allocated pages, their contents, and what a crash would leave |
| `BufferPool` | clients that hold pages, the pool's life from constructor to close or crash; implements `PageStore` |
| `HeadPage` | `bitmap_` and page 0 as bytes, in step with the sets of bits of `PoolOps`; a byte is the set of the offsets of its ones |
| `RecordOps` | what a record page does to its sequence of slots |
| `RecordPage` | the bytes of a record page, with a scanner's copy of the index, in step with `RecordOps` |
| `Table` | what a table promises: a growing sequence of rows and cursors along it |
| `TableHeap` | a pool of record pages with inserts and scanners; implements `Table` |
| `SchemaOps` | columns, what values fit them, schemas as JSON values |
| `Statements` | INSERTs, SELECTs that succeed and that fail, `.quit` and kills on a `TableHeap`; implements `Table` |
| `Tabulate` | how `print_rows` lays a table out: formats, widths and heights, lines |
| `Query` | rows as bytes, and INSERT and SELECT on one table: encoding, conditions, filter, projection, the printed table |
| `Catalog` | the tables by name, their `.db` and `.json` files, CREATE, DROP and INSERT, exits, crashes and starts |
| `Lexer` | the tokens of a text, and what each leaves in the slot for values |
| `SqlParser` | `do_parse` and the functions under it, one turn of a loop at a time, on written statements and on the same with one token edited |
| `Binder` | the parser, the binder and the executers on a catalog: a statement from text to answer |
| `Json` | the text of a `.json` file: writer, reader, exits, kills and starts |
| `JsonTree` | what a JSON value promises: variables that hold trees |
| `JsonValue` | `pson::Value` with its nodes on the heap; implements `JsonTree` |
| `OpsProofs`, `PoolProofs` | lemmas on the operators: the replacer's, a record page's and recursive functions over naturals in `OpsProofs`, the pool's in `PoolProofs` |
| `LruReplacerProofs`, `BufferPoolProofs`, `HeadPageProofs`, `RecordPageProofs`, `TableHeapProofs`, `CatalogProofs` | theorems of the specifications |
| `MC*` | model values for the configurations |

`TableHeap` extends `PoolOps` and `RecordOps`, so it is the composition of the
pool, the pages and the scanners; the operators it shares with `BufferPool` and
the ones `RecordPage` and `HeadPage` check against bytes are the same ones.
`Query` and `Catalog` take a heap for what `Table` promises: `Query` one that
appends rows and scans them in order, `Catalog` one whose file has some prefix
of its rows and all of them after a close, and after a close that was killed any
rows behind those it had. `Json` justifies that `Catalog` keeps
a `.json` file as a value: a file written whole is read as what was written.
`Statements` extends `TableHeap` and so takes the pool, the pages and the
scanners as they are, with the statements as the only client. `Binder` extends
`SqlParser`, which extends `Lexer`; the executers of a SELECT are its answer
there, with columns by position, and that is what `Query` takes as given.
`Query` extends `Tabulate` for what is printed.

A pool is a record with a field for each member of the class (`dir`, `frames`,
`free`, `lru`, `head`, `next`) and the file (`disk`). Page contents are model
values, `Zero`, an image of the head, or (`TableHeap`) the slots of a record
page. A call of the program is one action: it is never interrupted by another
call, only by a crash, and `CrashInClose` is that case for the one call in which
the order of several writes matters: in `BufferPool` and in `TableHeap` (and as
`KillInQuit` in `Statements`) any of the dirty pages are in the file by then, as
`flush_all_page` goes through an unordered map. `NewPage`, `Fetch` and the others contain
everything the method does, the write of an evicted page included.

### Whose behaviour `Spec` is

The interface accepts calls that no correct caller makes. `BufferPool!Spec` has
*careful clients*: each unpins a page once, reports what it wrote, fetches pages
that `contain` accepts, asks for a new page when a frame can be had, and the
pool is closed when nothing is pinned. `SpecWithDeletes` adds `delete_page` of a
page by its only holder and of pages no frame has, and `SpecWithFailures` adds
`new_page` calls that return null. `TableHeap!Spec` is a careful user of a
table: rows of at most four words (so that `enough` is right on every page and an
empty one has room), no scanner on a table without pages, no scanner destroyed
after it gave its last page back, no remove of a row that is the last of its page (or
the last that a scanner in the page knows of), and a frame for each call. Kills
come between its calls and inside `close`. Each
of `SpecDestroys`, `SpecEmptyScan`, `SpecRemoves` and `SpecLongRows` drops one of
these conditions, and each breaks a property (see *Disagreements*). A killed
close may leave a page without rows in the file, behind which others have some. A
scanner stops there and says it is at its end, but has not given the page back
(`StoppedEarly`), so the user destroys it. `RecordPage!Spec` inserts records of any size
for which the subtraction in `enough` does not wrap (`NoWrap`).

`Statements` is the user that the shell is: one statement at a time, each SELECT
with a scanner of its own that is destroyed after its end, or forgotten when the
binder meets a column that it does not know. So the first of the conditions
above is gone, and pin counts wrap below zero or never return to it; the model
keeps them within `LeakBound` above and `WrapBound` below. It still keeps
SELECTs to tables with a page (a SELECT of an empty one is
`TableHeapEmptyScan.cfg`) and rows to four words, and `StatementSpec` has an
INSERT only where it finds the frames it needs; `SpecNoFrame` drops that. A
SELECT begins only with a frame for page 1: without one the code goes on with an
uninitialised pointer (see *What is not modelled*).
DELETE and UPDATE do not reach the table: the binder refuses the one and the
parser the other.

`SqlParser` takes the statements of its configuration as their comments say
they are written, with blanks everywhere or only where needed and in capitals or
small letters, and each of them with one token dropped, added or put for
another. To know what a text says, `Says` compares it token by token with how
the statement that was parsed is written.

`Query` takes literals in the range of an int and strings of the full length of
a CHAR column, and its configuration has ints that are close to each other and
floats that differ by whole numbers; *Disagreements* shows what happens
otherwise. A condition on operands of two types is bound like any other there, and
the process dies at the first row that gets as far (`AbortSelect`).
`Catalog!Spec` lets its user do anything, CREATE TABLE over a `.db` file that a
crash left behind included; `foreign` has the names for which that file was used
for rows that do not fit the new schema. The process is killed between any two
calls, in DROP TABLE, while the `.json` files are written (`CrashInSave`, which
may leave one cut off, `Torn`) and while the heaps are closed (`CrashInExit`); and
in an exit each heap saves its rows or, for want of a frame, nothing
(`Exit(saved)`). A start throws at a `Torn` file until the user removes it.

`JsonValue` has the calls of the class in any order with arguments written in
place, copied or moved. What the C++ library leaves undefined is left out: a
vector assigned one of its own elements, moving a value into or out of its own
child, `pop_back` of an empty array.

## What the runs check

Runs that pass:

| run | bounds | checks |
|---|---|---|
| `lru` | capacity 3, 4 values, 4 nodes | `DirMirrorsList`, `ComputesLruOps`, `ImplementsLru` |
| `head` | 2 bitmap bytes of 3 bits, 8 allocations | `ObjIsHead`, `PageIsImage`, `LoopsFind` |
| `pool` | 2 frames, 4 pages, 2 clients, 2 contents, `phy_num_` up to 4, pages deleted and reused | `TypeOK`, `DirConsistent`, `FramePartition`, `RefsStable`, `CleanMeansOnDisk`, `HeadCounts`, `NewPageIsUnused`, `ImplementsPageStore` |
| `record_page` | pages of 20 bytes of 8 values, words of 2, up to 4 records of 0 to 2, 8 or 10 bytes; longer ones are refused | `HeadReadsBack`, `IndexStaysClear`, `RecordsReadBack`, `EnoughMeansRoom` |
| `heap` | 2 frames, 2 scanners, pages 1 and 2 of one row, or of two short ones; kills between calls and inside close | `ScansReadTheirPage`, `PinsReturned`, `PagesLaidOut`, `ScanSeesAll`, `ImplementsTable` |
| `statements` | 2 frames, 1 scanner, pages 1 to 4 of one row, 2 pins leaked and 2 below zero; kills between calls and inside `.quit` | `SelectAnswers`, `SelectEnds`, `ImplementsTable` |
| `query` | 2 schemas with a column of each type before and after one of varying width, 2 rows, 6 literals, WHERE lists of up to two conditions, of every pair of types in the first, every output list, four characters | `SelectIsRight`, `PrintedIsAnswer` |
| `catalog` | 2 names, 3 schemas of which two take the same row, 2 rows, up to 2 per table | `TypeOK`, `CatalogMatchesStore`, `RowsMatchSchema`, `DroppedStaysDropped`, `KeptSurvives` |
| `sql` | 32 statements with lists of one to three members, each operator and each type of literal; each token dropped, and one of 15 put in its place or before it; 3 catalogs | `ReadsAsWritten`, `DoneAsSaid`, `Answered` |
| `json` | schemas of 1 or 2 columns, names and sizes of which one begins another; documents with every kind of value to depth 3; every cut of a schema's text, 14 values of the byte after it | `SavedIsRead`, `NeverAnother` |
| `json_value` | 2 variables, 4 nodes, 1 name, 1 text, arrays of up to 2 | `OwnedOnce`, `ImplementsTrees` |

Why the bounds are enough: with fewer frames
than pages every access order evicts clean, dirty and just released pages; two
clients are enough for a page shared by two holders, for a page held while
another is evicted, and for a pin count that goes up and down twice; two
contents tell a stale page from a fresh one; the growth of the bitmap is in
`head`, where a byte has three bits. A record page of four records has a first,
a middle and a last slot and reaches the point where index and records meet from
several sides. `head` keeps `page_num_` within the bits of the area, as far as
the page has bytes. Four pages for two frames are enough in `statements` for
both frames to be lost to leaked pins while a scan has pages left. An edit of one
token reaches every branch of the parser that refuses; longer lists go round the
same loops. Four nodes hold two containers with a container inside each, which is
where copies, moves and swaps between levels differ.

`ImplementsPageStore` says that the pool is transparent: each page reads as last
written or, after a crash, as some version of it that was durable; closing makes
all durable. Contents may become durable at any time (an eviction), which
`PageStore` leaves open. Page 0 is seen as the set of allocated pages. What a close
writes could always be what a crash leaves, so both refinements say besides that each
step of the code's close is one of the abstract `Close`.
`ImplementsTable` says the same of a table: rows are appended or marked as
removed, a crash between two calls leaves a prefix of them with some of the marks, and a
scanner visits each row that was there when it was opened and is not removed, in order,
while of the rows inserted later it may skip some (those put into the page it is
in, whose index it has already copied). Of a close that is killed it promises
less, because the code does (`Table!CrashInClose`): the rows saved before keep
their places, and after them come any rows that lie in the file. These may be
later ones without those between, and rows of an earlier life that a crash had
dropped, in pages that the new head counts again (`strays`). A page that was not
written is a gap at which scans stop (`torn`), and nothing but a killed close
makes one.

`SelectIsRight` compares what a SELECT returns with the rows as they were
inserted, filtered by what the operators mean on numbers and strings: all of
encoding, decoding, comparing and projecting lies between. `PrintedIsAnswer` goes
from the lines printed back to the columns between the bars and from these to
the texts, which must be those of the tuples. With two
rows of which none, either or both meet a condition, a skipped or repeated row
shows. `KeptSurvives` speaks of any number of restarts: what the last clean
exit saved of a table is a prefix of what each later start finds, crashes at any
write in between included; only the schema is lost, and the start refused, if a
kill cut `name.json` off. `RowsMatchSchema` speaks of the tables that are not
`foreign`.

`ReadsAsWritten` is one direction of the parser and `DoneAsSaid` the other, for
texts nobody would write: if the shell reports success, the tokens of the text
up to the end of a statement are that statement, its names were found in the
catalog, and the catalog, the rows or the SELECT's executers are what it asks
for; otherwise nothing has changed. Two parts of a text are not in this
comparison, as the code does not look at them: the list of columns of an INSERT,
and the table named with a column in a condition (`ValuesInNamedColumns`,
`ConditionsOnTable`). `SelectAnswers` speaks of the statements
together: a SELECT that ends without an error has returned every row once (those
before the gap, if a killed `.quit` left one), although its pool has lost frames
to earlier statements and gets its pages one by one. `ImplementsTrees` says that no call on one JSON variable shows in
another, for all the sharing that a copied or swapped pointer could cause;
`OwnedOnce` is the reason.

Fairness is stated where the code has a loop that must end, and only for its
own turns. `BinderSpec` has `WF(Parse \/ Bind)`: the parser and the binder are
called and run, as the program is single threaded and nothing in them waits, so
`Answered` says that no loop goes on for ever, whatever the text. In `Statements`
`WF(SelectSteps)` is the `while` of `execute_sql`, which calls the executer again
until it returns something other than `SUCCESS`; no fairness is assumed of
statements, kills and starts. `SelectEnds` then says that each SELECT that was
begun ends, with an answer, an error or the process. The operations of the
storage engine return after a bounded number of steps, and none waits.

## Disagreements between code and documentation

This is a run that TLC must find violated; the property states what a test says.

| run | property | what the code does |
|---|---|---|
| `heap_empty_scan` | `RowsStay` | a scanner on an empty table caches page 1 before it exists; rows inserted later are lost. |

The following were met too, and TLC finds each property violated. They are not
among the regular runs: they repeat a property, concern calls the program seldom
or never makes, or show a behaviour of which no comment says that it should be
otherwise. Some have a configuration of their own. For the others the table
names the configuration of a run and its lines that change; the properties of
the run give way to the one of the table, as `PROPERTY` if it speaks of steps
(`TouchUpdates`, `ReopenKeepsPages`, `EnoughMeansRoom`, `MaxSizeFits`,
`QuitKeepsRows`, `ImplementsTable`) and as `INVARIANT` if not.

| configuration | property | what the code does |
|---|---|---|
| `LruReplacer.cfg` with `SPECIFICATION SpecWithTouch` | `TouchUpdates` | `touch` stores the iterator of the front before it pushes the value there, so the map points at another node. Nothing calls `touch`. |
| `BufferPoolFailures.cfg` | `NewPageIsUnused` | `new_page` without a frame spends a page id that `phy_num_` does not count; after a restart ids in use are handed out again. |
| `BufferPool.cfg` with `SPECIFICATION Spec`, `LastPid = 5`, `BitsPerByte = 4`, `MaxPageCount = 4`, `PhyBound = 6` | `BitmapFits` | the last id allowed needs a bitmap byte that page 0 has no room for. |
| `BufferPool.cfg` with `BitsPerByte = 2`, `MaxPageCount = 3` | `PhyNumCountsBlocks` | `phy_num_` is counted up when a deleted id is reused. |
| `BufferPool.cfg` with `LastPid = 5`, `BitsPerByte = 2`, `MaxPageCount = 3`, `PhyBound = 6` | `ReopenKeepsPages` | the size of the bitmap read back is computed from the pages in use, not from the highest id. Nothing calls `delete_page`. |
| `RecordPage.cfg` with `SPECIFICATION SpecAnySize`, `Records <- MCLongRecords` | `EnoughMeansRoom` | the unsigned difference in `enough` wraps: once a page has less free space than the row, the row is accepted and copied outside the page. |
| `RecordPage.cfg` with `SPECIFICATION SpecAnySize`, `Records <- MCMaxRecords` | `MaxSizeFits` | a record of `RECORD_MAX_SIZE` bytes is refused by an empty page. |
| `TableHeap.cfg` with `SPECIFICATION SpecRemoves`, `LastPid = 3` | `ScanSeesAll` | a page whose last rows are removed ends the scan. |
| `TableHeap.cfg` with `SPECIFICATION SpecLongRows`, `Rows = {long, huge}` | `ImplementsTable` | a row that fits no page is refused and leaves an empty page behind, a gap that ends every later scan. |
| `TableHeapDestroys.cfg` | `PinsReturned` | a scanner that reached its end unpins its last page again when destroyed (`record.hpp:261`). |
| `StatementsNoFrame.cfg` | `InsertInserts` | once SELECTs have wrapped or leaked the pins of every frame, an INSERT that needs a page reports success and stores nothing. |
| `Statements.cfg` with `LastPid = 3` | `QuitKeepsRows` | with every frame pinned, `close` finds none for page 0 and writes nothing: `.quit` loses the rows since the start. |
| `QueryChars.cfg` | `OffsetsInside` | a string shorter than its CHAR(n) column is stored without padding; the next column is looked for past the end of the row. |
| `Query.cfg` with `Schemas <- MCEmptySchemas`, `Literals <- MCEmpty`, `Conditions <- MCNoConditions` | `PrintedIsAnswer` | a row of empty texts is printed as no line at all (its height is zero). |
| `Query.cfg` with `Schemas <- MCFloats`, `Literals <- MCNear`, `Conditions <- MCNearConditions` | `SelectIsRight` | the difference of two floats is cut to an int: 2.5 and 2.9 compare as equal. |
| `Query.cfg` with `Schemas <- MCInts`, `Literals <- MCFar`, `Conditions <- MCFarConditions` | `SelectIsRight` | the difference of two ints overflows: a large positive number is less than a large negative one. |
| `Query.cfg` | `OperandsMatch` | the binder does not compare the types of a condition's operands; the assertion in `Value::compare` (`ast.hpp:110`) ends the process at the first row that gets there. |
| `Catalog.cfg` | `AllRowsMatchSchema` | CREATE TABLE takes over the rows of a `.db` file that a crash left, whatever their schema was (`catalog.hpp:33-39`). |
| `Catalog.cfg` | `StartsAgain` | a kill while a `.json` file is written leaves it cut off (`json.hpp:36`): the next start throws, for all tables. |
| `Binder.cfg` with `Statements <- MCDeletes` | `ReadsAsWritten` | `DELETE FROM t;` is refused: the parser asks for a second semicolon. |
| `Binder.cfg` with `Statements <- MCFloat`, `Literals <- MCFloatLiterals` | `ReadsAsWritten` | the last character of a float is cut off: 2.5 is read as 2. |
| `Binder.cfg` | `NoAssertFails` | a value that begins with another token fails an assertion in `parse_value`. |
| `Binder.cfg` | `BindsWithoutAbort` | a condition with `IS` or `IN`, or with an unknown column, fails an assertion of the binder. |
| `BinderConditions.cfg` | `ConditionsOnTable` | the table named in a condition is not looked at: `WHERE u.x = 1` is taken for the column `x` of the table in FROM. |
| `Binder.cfg` | `ValuesInNamedColumns` | the list of columns of an INSERT is parsed and not looked at: the values go by position. |
| `JsonValue.cfg` | `NothingLost` | a value assigned over one of another type leaves the old node behind. |
| `Json.cfg` with `Texts <- MCEscape` | `SavedIsRead` | after a backslash the backslash is looked at again: no escape is decoded. |
| `Json.cfg` with `Documents <- MCBlank`, `Schemas <- MCNone` | `SavedIsRead` | blanks inside strings are dropped when a file is read. |

## What is proved

The proofs hold for any number of frames, pages, clients, scanners, rows, names
and bytes, under the assumptions named in the modules, which TLC evaluates in
every run:

| assumption | what it says, and why the code justifies it |
|---|---|
| `PoolAssumption`, `RecordAssumption` | sizes are naturals; there is a frame, and a page is larger than the four words of a head with one record (1024 and 8 in the code) |
| `AreaAssumption` | the area for the bitmap in page 0 has a bit for each page id of the model, and no others |
| `CapacityAssumption` | the replacer has room for a value and a node for each |
| `ClientAssumption` | fewer clients than `pin_count_` counts, so that it never wraps: `close` and `delete_page` add a pin of page 0 to the clients' own |
| `TableAssumption` | no more scanners than `pin_count_` counts, less those of an insert |
| `BytesAssumption` | a byte has at least two values, a `size_t` as many as `Word` bytes have, and records are sequences of bytes |
| `SmallRowsAssumption` | an empty page has room for a row of four words |
| `CatalogAssumption` | schemas have columns |
| `ZeroAssumption`, `ImageAssumption`, `CursorAssumption` and parts of the others | the model values for "none" are not among the values they stand beside |

`OpsProofs` has the constants of `RecordOps` in scope, and so have the modules that
extend it; the proofs about the replacer, the pool and the head cite none of them,
nor `RecordAssumption`.

`LruReplacerProofs` proves of `LruReplacer!Spec`, for any capacity and values:

- `MapMirrorsList`: `DirMirrorsList`;
- `MovesAsComputed`: `ComputesLruOps`, so what is proved of the pool with
  `LruOps` holds with the linked list;
- `ReplacerIsLru`: `ImplementsLru`.

The inductive invariant is `Mirror`: the list has each node at most once and no
more of them than the capacity, and the map finds a value exactly when a node of
the list has it, and that node. A node for the next `put` is then left over.
The order of `Lru` is the set of pairs of which one node is behind the other, and
each call is shown to do to these pairs what it does to the order
(`OlderPairs`).

`BufferPoolProofs` proves of `BufferPool!SpecWithDeletes`, the specification that
the run `pool` checks, where clients create, fetch, write, release and delete
pages and the pool is flushed, closed, crashes and is opened again:

- `Typed`: `TypeOK`;
- `DirStaysConsistent`: `DirConsistent`;
- `FramesStayPartitioned`: `FramePartition`;
- `RefsStayGood`: `RefsStable`;
- `CleanStaysOnDisk`: `CleanMeansOnDisk`;
- `NewPagesAreUnused`: the action property `NewPageIsUnused`;

of `Spec`, which has no deletions:

- `HeadStaysCounted`: `HeadCounts`;
- `RestartsKeepPages`: the action property `ReopenKeepsPages`;
- `PoolIsPageStore`: `ImplementsPageStore`;

and of `SpecWithDeletes /\ ReopenKeepsPages`:

- `HeadStaysCountedWithDeletes`: `HeadCounts`;
- `PoolIsPageStoreWithDeletes`: `ImplementsPageStore`.

The hypothesis of the last two is there because the code needs it.
`ReopenKeepsPages` is false of a pool that deletes pages (see *Disagreements*):
a restart reads back as many bits as pages are in use, and once a page was
deleted the highest id may lie beyond these. The bits lost are then missing from
the map that the pool implements, and when their ids are handed out again
`page_num_` counts a page whose bit was there before. The theorems say that this
is the only way in which deletions break them. In the configuration of `pool`
a byte of the bitmap covers every id, no bit is ever lost, and both hold as they
are.

None of the invariants is inductive alone. A frame that is fetched leaves the
replacer safely only because frames in the replacer have no pins, which needs
the pin counts to be the holders, which needs a held page to stay in its frame,
which needs victims to be unpinned. `Core` therefore says all of it at once, in
terms that do not mention clients: `PoolOK(Content, s, pins)` (types,
`DirInverse`, `FramesPartitioned`, and that the pin count of each cached page is
`pins[p]`), and `CleanOK(s, pins, dirtied)` (a page that is not dirty and not in
`dirtied` agrees with the file). `PoolProofs` proves for each operation of the
pool which `pins` and `dirtied` it takes to which others (`FetchFacts`,
`NewPageFacts`, `DeleteFacts` and so on, with the lemmas of `OpsProofs` for
the replacer); `BufferPoolProofs` instantiates `pins` by the number of holders
and has one step per action.

What must be known of the header besides makes three inductive invariants:

| invariant | of | says of the header, in memory and in the file |
|---|---|---|
| `IInv` (`Inductive`) | `Spec` | `HeadOK`, `ImageOK`: the bits are the ids below the next one, all of them, and counted |
| `DInv` (`InductiveWithDeletes`) | `SpecWithDeletes` | `HeadFits`, `FileHeadOK`: the bits are ids below the next one and lie in the bytes of the bitmap, a cached page has its bit, and there are no more of them than `page_num_` says, even with the bits that an earlier, larger bitmap left in page 0 behind the present one (`KeptBits`) |
| `EInv` (`InductiveExact`) | `SpecWithDeletes /\ ReopenKeepsPages` | `HeadExact`, `FileExact` in addition: nothing was left behind, and the count is exact |

`KeptBits` is what a restart after deletions may lose, and the reason for `HeadFits`:
`write2page` writes as many bytes as the bitmap has and leaves those after them
as they were, so bits that the program no longer knows can come back from the
file when the bitmap has grown again.

The same invariants give the refinement: `PoolProofs` says of each operation
which pages read otherwise afterwards and what the file may have got (a page that
is evicted, as it reads; the header, as `SavedImage`), and that is a step of
`PageStore`. That a careful client's behaviour is also one of `SpecWithDeletes`
(`CarefulToo`) and that its restarts lose nothing (`RestartsKeepPages`) make
`PoolIsPageStore` a corollary of `PoolIsPageStoreWithDeletes`.

`HeadPageProofs` proves of `HeadPage!Spec`, for any size of byte, area and pool
and any page ids:

- `ObjFollowsHead`: `ObjIsHead`;
- `PageFollowsImage`: `PageIsImage`;
- `LoopsFindLeast`: `LoopsFind`.

The inductive invariant is `HeadInv` (`HeadIsInductive`). Its first half is the
pool's: nothing is pinned (`AtRest`, so every call finds a frame) and `HeadFits`
holds, from the lemmas of `PoolProofs`. The second half relates bytes to bits:
`ObjIs` for `head_` while the pool is up, `ImageIs` for page 0 always. They need
each other: `delete_page` and `close` write `bitmap_` over the start of the old
area, and what page 0 then says depends on what the area had behind it
(`KeptBits`); the constructor takes page 0 for fresh exactly when its
`page_num_` is 0, which it never is again because `HeadFits` has `page_num_`
count at least the bit of page 0. That `bitmap_` has no more bytes than the area
is part of it too: without that, `write2page` would run past the page. It holds
here because the model's page ids end where the area does; the configuration of
`BitmapFits` under *Disagreements* shows that the program's own limit lets one
id more pass.

Before the calls come the lemmas on bytes: where a bit lies (`BitPlace`, with
division by the size of a byte), what `set` changes (`SetBitIs`), that growing
adds no ones (`GrownIs`), what `write2page` and `init` make of an area
(`WrittenIs`, `ReadIs`), and that rounding `page_num_` up by a remainder is the
same as adding before dividing (`RoundedUp`). The loops of `first` and
`first_after` are recursive functions; `FirstFromIs` shows by a least
counterexample that they return the first index with the bit asked for, or
`NoBit` when there is none.

`OpsProofs` proves `EnoughIsRight`: on a well laid out page, a record that
`enough` accepts gets bytes of its own between index and records, and the page is
well laid out afterwards, if the subtraction in `enough` does not wrap: the record
and its mark are no longer than all that lies below the records. Where the user
cannot see how full a page is, rows of four words are safe: the smallest end of a
page's free space is four words up. That is the limit in `TableHeap!Spec`.

`RecordPageProofs` proves of `RecordPage!Spec`, for any size of page, word and
byte and any records:

- `HeadAlwaysReadsBack`: `HeadReadsBack`;
- `IndexAlwaysClear`: `IndexStaysClear`;
- `RecordsAlwaysReadBack`: `RecordsReadBack`;
- `AcceptedHadRoom`: the action property `EnoughMeansRoom`, of records of any
  size for which `enough` does not wrap (`NoWrap`; without it the property is
  false).

The first three speak of what is read from the bytes and say nothing of the
bytes of which it is not read, so none is inductive. The inductive invariant
`PageInv` (`PageIsGood`) says what every byte is for: `Holds(mem, recs)`, the
three words of the head, the words of the index and the marks and bytes of the
records hold the slots `recs`, whose places `LayoutOK` and `Packed` keep apart;
and `ViewHolds(view, recs)`, the index that a scanner copied is that of the page
at an earlier time, when it had fewer slots. `PutWordIs` and `PutBytesIs` say
what a write changes, `WordsApart`, `PlaceOf` and `LaterIsLower` that it is not
in the way of what else is there. That a word reads as it was written is
`WordOfBytes`, the uniqueness of digits. `Weight` and the sum over the bytes of a
word are recursive functions; that they obey their equations is proved
(`WeightIs`, `GetWordIs`) from the existence of finite recursions
(`FiniteRecursion`), itself by a least counterexample.

`TableHeapProofs` proves of `TableHeap!Spec`, that is with inserts, removes,
scanners, closes and kills between calls and inside close:

- `PagesStayLaidOut`: `PagesLaidOut`;
- `ScansStayOnTheirPage`: `ScansReadTheirPage`;
- `PinsAreReturned`: `PinsReturned`;
- `HeapIsTable`: `ImplementsTable`;
- `ScannersSeeAll`: `ScanSeesAll`;
- `NoRowGoesMissing`: the action property `RowsStay`, which `heap_empty_scan`
  shows false where scanners are opened on empty tables.

The first three rest on `IInv` (`Inductive`). Between calls the pool is `Ready`:
in order in the sense of `PoolProofs`, with the pins of exactly the scanners that
are on a page, and every page laid out well. So a scanner's page is pinned, a
pinned page is not evicted, and the frame the scanner points at is still its
page's. `PinsReturned` says the pins exactly: a frame has as many as there are
scanners on its page. Two parts are about scans that stop early. `ScanOK`: the
last slot that a scanner's copy of the index knows of is not removed, so that a
scanner does not end with a page left; that is why `PageOK` has that the last row of
a page is not removed. And a scanner that has gone on to a page finds rows in it, or
is `StoppedEarly`, which `ScanSeesAll` leaves out. In `Spec` only a killed close
leaves a page in use without rows. Without the user's care other calls do too:
`SpecRemoves` breaks `ScanSeesAll`, and `SpecLongRows` makes gaps, which breaks
`ImplementsTable`.

The others need `RInv` (`RowsInductive`). It adds `SavedOK`: the pages that the
file's head counts have in the file an earlier state of what the pool reads, as
long but for the last, so that the file's pages put together are a part of the
rows; and `PlaceOK`: a scanner is on a page in use, the slots its index lacks are
newer than it is, and when it has ended, not early, it has passed all it was opened
for. `SavedOK` is there only while the table is open: `open_table` finds it in any
file, for all it says of a pool that has just read the file holds at once, and that
is why a kill inside close does not break it. A
call does one of three things to the rows: nothing (`Quiet`), a row is appended
(`Inserted`), or one is marked (`OneGone`). `Kept` says of each that the file gets
no rows but the table's and that no page in use loses its rows, which is what
`Table` says of `strays` and `torn`. `StepMaps` shows for each action
that it does, and that this is a step of `Table` or stutters.

How the rows of all pages together change follows from how those of one page
change by induction over the pages, as a least counterexample (`LeastNatural`):
`SlotsUpTo` is a recursive function, and its equation (`SlotsUpToRec`) is proved,
not assumed.

`CatalogProofs` proves of `Catalog!Spec`, for any names, schemas and rows:

- `Typed`: `TypeOK`;
- `StoreMatches`: `CatalogMatchesStore`;
- `RowsStayTyped`: `RowsMatchSchema`;
- `DropsLast`: `DroppedStaysDropped`;
- `SavedStays`: `KeptSurvives`.

The inductive invariant replaces `RowsMatchSchema` by what it follows from and adds
facts to the others. `DownIsEmpty`: a program that is down has no tables, so a start
takes everything from the files. `FilesBehind`: the file of an open heap has a
prefix of its rows, so that whatever prefix an eviction or a crash leaves still
begins with what was saved. `TornStops`: no program runs with a `.json` file that is
cut off. `RowsKnown`: the rows of a heap and of a file, those that a killed close
leaves included, are among those ever inserted into it; `EverFits`: all of
these fit the schema, in the catalog and in the file, of a table that is not
`foreign`. That a schema reads back from its JSON value
(`FromJson(ToJson(s)) = s`) is a lemma; that it does from its text is what the
run `json` checks.

Only model-checked so far: the implementation of `JsonTree`,
statements and the pins they leak, the parser and binder, the rows, answers and printed tables of `Query`, and JSON. Liveness under
fairness (`SelectEnds`, `Answered`) and `ENABLED` are out of the provers' reach.
The library's induction theorems take operators as parameters, which the
installed provers cannot instantiate; the least counterexample replaces them for
recursive functions on naturals. `Json` and `JsonValue` declare recursive
operators and stay with TLC.

## What is not modelled

- Short reads and failed writes of the file, which the disk manager logs and
  ignores; writes are assumed to reach the file when the call returns (each is
  followed by `fflush`) and to be whole.
- A crash inside a call of the pool or the table other than close. Such a call
  writes the pages it evicts: mostly one, so that the file is as before or after
  the call. An insert may evict two; a kill between these leaves the file as a call
  that evicts only the first would.
- A SELECT whose scanner gets no frame for page 1, all being pinned by earlier
  statements: `RecordScanner::init` returns an error before it sets `page_scanner_`
  (`record.hpp:272-273`), `bind_select` does not look at it, and `has_next` follows an
  uninitialised pointer. That the process dies there is `Kill`; what else it may
  read is not modelled.
- `delete_page` of a page that is not in use, or cached without a holder; null
  pages dereferenced after a failed fetch.
- Texts of more than one edited token, negative sizes of CHAR (which are taken
  for a huge `size_t`), strings without a closing quote, numbers that `stol` or
  `stof` refuse.
- Of the shell: input and the layout of messages, `.show tables`, and
  `exec_from_file`, which nothing calls.
- `parse_hex4` and `parse_utf8` of the JSON reader: the switch above them never
  gets there. Moving a JSON value out of or into its own child.
- Of `tabulate.h`: `word_wrap`, for which every text of a table has room on its line
  (no format has a width, and no text a newline), and everything that `print_rows`
  does not reach: setters of formats, alignments other than the default, colours, locales and wide
  characters, the Markdown, LaTeX and AsciiDoc exporters, and the vendored
  `variant`, `optional` and `termcolor` before them, which make most of its 9255
  lines.
- `common/`: return codes are modelled where they are returned; file names,
  logging and the classes `Expect` and `Spliter`, which nothing uses, are not.
- A base directory other than the working directory: `Catalog` writes `.json`
  files to the one and `.db` files to the other; the shell starts with `.`.
- Calls by name that only tests make (of these `LruReplacer::touch` is in *Disagreements*).

## Plan

Done: the replacer, the pool, record pages, the head, the table heap, statements
on it, rows, SELECT and the printed table, the catalog, lexer, parser and binder,
JSON as text and as values; the proofs of the replacer, the pool with deletions,
the bytes of the head and of a record page, the table heap and the catalog, with the
implementations of `Lru`, `PageStore` and `Table`. What would come next, in this
order:

1. `SelectAnswers` of `Statements`: the invariant of the table heap with the
   pins that earlier statements left, which wrap.
2. `Binder` as theorems: that a refused statement changes nothing, from the
   guards of each action.
3. Tables of more than one in `Statements`, with the catalog above them: CREATE
   and DROP between SELECTs whose scanners leaked pins.
