----------------------------- MODULE TableHeap ------------------------------
(***************************************************************************)
(* A table (src/storage/table_heap/table_heap.hpp): a buffer pool whose    *)
(* pages from 1 on are record pages, rows inserted into the last of them,  *)
(* and RecordScanners (record.hpp) that walk all of them, several at once  *)
(* and while rows are inserted.  Each action is one call with all the pool *)
(* calls it makes.                                                         *)
(*                                                                         *)
(* Spec is a careful user's protocol: rows of at most four words, no       *)
(* scanner on a table without pages, none destroyed after it gave its page *)
(* back or forgotten before, no row removed that is the last of its page   *)
(* (or was when a scanner entered it), and never more pages pinned than    *)
(* frames.  The process is killed at any time, inside close as well.       *)
(* The other specifications drop one of these conditions each.             *)
(***************************************************************************)
EXTENDS PoolOps, RecordOps

CONSTANTS
  Scanners,
  Rows, RowSize,  \* the rows, and the bytes of each
  NoScan, NoRow,
  SlotBound       \* bound on the slots remove is asked for

ASSUME TableAssumption ==
  /\ RowSize \in [Rows -> Nat] /\ SlotBound \in Nat
  /\ IsFiniteSet(Scanners) /\ Cardinality(Scanners) < PinMax

VARIABLES
  up,    \* the TableHeap object exists
  pool,  \* its BufferPool, with the file
  scan   \* each RecordScanner, or NoScan
vars == <<up, pool, scan>>

\* A RecordScanner: its page and next slot (next_rid_), the frame its Page*
\* points at, the size of the rec_idx_ it read, the row the last next()
\* returned, and whether that returned OUT_OF_RANGE.  need is history: the
\* slots of the table when it was opened.
Scan == [pid : PageIds, slot : Nat, frame : Frames, count : Nat,
         row : Rows \cup {NoRow}, ended : BOOLEAN, need : Nat]

\* What a record page holds.
RecordImage == [slots : Seq([rec : Rows, start : Nat, deleted : BOOLEAN])]

\* A page without slots that a scanner enters ends it, and stays pinned: what
\* insert leaves has rows, what a killed close leaves may have none.
StoppedEarly(x) == x.ended /\ x.count = 0 /\ x.pid > 1
HoldsPage(x) == x # NoScan /\ (~x.ended \/ StoppedEarly(x))

ASSUME ImageAssumption == Zero \notin RecordImage /\ NoScan \notin Scan

\* The slots in the contents of a record page.
SlotsOf(c) == IF c = Zero THEN <<>> ELSE c.slots
PageSlots(s, p) == SlotsOf(s.frames[s.dir[p]].data)

\* All slots in pages 1 to n, page by page.
SlotsUpTo(page, n) ==
  LET f[p \in 0..n] == IF p = 0 THEN <<>> ELSE f[p-1] \o SlotsOf(page[p])
  IN  f[n]
PoolSlots(s) == SlotsUpTo([p \in PageIds |-> Latest(s, p)], s.next - 1)
FileSlots(d) == IF d[0] = Zero THEN <<>> ELSE SlotsUpTo(d, d[0].phyNum - 1)
RowsIn(slots) == [i \in DOMAIN slots |-> slots[i].rec]
MarkedRows(slots) ==
  [i \in DOMAIN slots |-> [row |-> slots[i].rec, gone |-> slots[i].deleted]]
-----------------------------------------------------------------------------
PutRow(s, p, r) ==
  [s EXCEPT !.frames[s.dir[p]].data = [slots |-> AddRecord(SlotsOf(@), r, RowSize[r])]]
HasRoomFor(s, p, r) == Enough(PageSlots(s, p), RowSize[r])

\* insert starts with the last page, or with a new one in an empty file.
LastPage(s) == IF CurrentPid(s) = 0 THEN PickedPid(s) ELSE CurrentPid(s)
OpenLastPage(s) == IF CurrentPid(s) = 0 THEN NewPage(s) ELSE Fetch(s, CurrentPid(s))
LastPageOK(s) == IF CurrentPid(s) = 0 THEN NewPageOK(s) ELSE FetchOK(s, CurrentPid(s))

AddToPage(s, p, r) == Unpin(PutRow(s, p, r), p, TRUE)

\* A second page is tried when the row does not fit the first.
InsertInNewPage(s, r) ==
  LET q == PickedPid(s)
      t == NewPage(s)
  IN  IF ~NewPageOK(s) THEN t
      ELSE IF HasRoomFor(t, q, r) THEN AddToPage(t, q, r)
      ELSE Unpin(t, q, TRUE)

\* Mutation: the page without room keeps its pin.
InsertRowKeepingPin(s, r) ==
  LET p == LastPage(s)
      t == OpenLastPage(s)
  IN  IF HasRoomFor(t, p, r) THEN AddToPage(t, p, r) ELSE InsertInNewPage(t, r)
InsertRow(s, r) ==
  LET p == LastPage(s)
      t == OpenLastPage(s)
  IN  IF HasRoomFor(t, p, r) THEN AddToPage(t, p, r)
      ELSE InsertInNewPage(Unpin(t, p, FALSE), r)

\* insert gets every page it asks for (and none beyond the model's last).
InsertOK(s, r) ==
  /\ LastPageOK(s)
  /\ LastPage(s) <= LastPid
  /\ ~HasRoomFor(OpenLastPage(s), LastPage(s), r) =>
       LET t == Unpin(OpenLastPage(s), LastPage(s), FALSE)
       IN  NewPageOK(t) /\ PickedPid(t) <= LastPid
-----------------------------------------------------------------------------
\* RecordScanner::init, and what has_next does to enter a page.
Entered(s, p, x) == [x EXCEPT !.pid = p, !.slot = 0, !.frame = s.dir[p],
                              !.count = Len(PageSlots(s, p))]

\* The slot PageRecordScanner::next stops at: the first from x.slot on, among
\* those the scanner's index has, that is not deleted in the page.
NextSlot(s, x) ==
  LET slots == SlotsOf(s.frames[x.frame].data)
      live == {k \in x.slot..x.count-1 : ~slots[k+1].deleted}
  IN  IF live = {} THEN x.count ELSE CHOOSE k \in live : \A j \in live : k <= j

\* PageRecordScanner::next on the page at hand.
TakeSlot(s, x) ==
  LET k == NextSlot(s, x)
  IN  IF k < x.count
      THEN [x EXCEPT !.slot = k + 1, !.row = SlotsOf(s.frames[x.frame].data)[k+1].rec]
      ELSE [x EXCEPT !.slot = k, !.row = NoRow, !.ended = TRUE]

\* RecordScanner::next when the page at hand has a slot left.
NextInPage(c, x) ==
  /\ x.slot < x.count
  /\ scan' = [scan EXCEPT ![c] = TakeSlot(pool, x)]
  /\ UNCHANGED <<up, pool>>

\* When it has none, has_next unpins the page and enters another; if that has
\* no slots either, next returns OUT_OF_RANGE at once.
EnterPage(c, x, p) ==
  /\ x.slot >= x.count
  /\ \E s \in {Unpin(pool, x.pid, FALSE)} :
       /\ FetchOK(s, p)
       /\ pool' = Fetch(s, p)
  /\ \E y \in {Entered(pool', p, x)} :
       scan' = [scan EXCEPT ![c] = IF y.count = 0 THEN [y EXCEPT !.row = NoRow, !.ended = TRUE]
                                                  ELSE TakeSlot(pool', y)]
  /\ UNCHANGED up

\* Mutation: the last page in use is entered.
NextInNextPageSkipping(c, x) ==
  \E p \in PidsAfter(pool, x.pid) :
    (\A q \in PidsAfter(pool, x.pid) : q <= p) /\ EnterPage(c, x, p)

\* The next page is the first in use after this.
NextInNextPage(c, x) ==
  \E p \in PidsAfter(pool, x.pid) :
    (\A q \in PidsAfter(pool, x.pid) : p <= q) /\ EnterPage(c, x, p)

\* Mutation: the next page is not asked for.
NextAtEndOfPage(c, x) ==
  /\ x.slot >= x.count
  /\ pool' = Unpin(pool, x.pid, FALSE)
  /\ scan' = [scan EXCEPT ![c].row = NoRow, ![c].ended = TRUE]
  /\ UNCHANGED up

\* At the last page's end has_next unpins the page and says no.
NextAtEnd(c, x) ==
  /\ x.slot >= x.count /\ PidsAfter(pool, x.pid) = {}
  /\ pool' = Unpin(pool, x.pid, FALSE)
  /\ scan' = [scan EXCEPT ![c].row = NoRow, ![c].ended = TRUE]
  /\ UNCHANGED up

NextRow(c) == /\ up /\ scan[c] # NoScan /\ ~scan[c].ended
              /\ \/ NextInPage(c, scan[c])
                 \/ NextInNextPage(c, scan[c])
                 \/ NextAtEnd(c, scan[c])
-----------------------------------------------------------------------------
Init == /\ up = FALSE
        /\ pool = BlankPool([p \in PageIds |-> Zero])
        /\ scan = [c \in Scanners |-> NoScan]

OpenTable == /\ ~up
             /\ up' = TRUE
             /\ pool' = OpenPool(pool.disk)
             /\ UNCHANGED scan

Insert(r) == /\ up /\ InsertOK(pool, r)
             /\ pool' = InsertRow(pool, r)
             /\ UNCHANGED <<up, scan>>

\* scanner(): init fetches page 1 whatever contain(1) says.
OpenScan(c) ==
  /\ up /\ scan[c] = NoScan
  /\ FetchOK(pool, 1)
  /\ pool' = Fetch(pool, 1)
  /\ scan' = [scan EXCEPT ![c] =
       Entered(pool', 1, [pid |-> 1, slot |-> 0, frame |-> 0, count |-> 0, row |-> NoRow,
                          ended |-> FALSE, need |-> Len(PoolSlots(pool))])]
  /\ UNCHANGED up

\* ~RecordScanner unpins the page of next_rid_.
DestroyScan(c) ==
  /\ up /\ scan[c] # NoScan
  /\ pool' = Unpin(pool, scan[c].pid, FALSE)
  /\ scan' = [scan EXCEPT ![c] = NoScan]
  /\ UNCHANGED up

\* The scanner is left as it is, as the tests leave theirs.
ForgetScan(c) ==
  /\ up /\ scan[c] # NoScan /\ ~HoldsPage(scan[c])
  /\ scan' = [scan EXCEPT ![c] = NoScan]
  /\ UNCHANGED <<up, pool>>

Down(d) == /\ up' = FALSE
           /\ pool' = BlankPool(d)
           /\ scan' = [c \in Scanners |-> NoScan]

CloseTable == /\ up /\ (\A c \in Scanners : scan[c] = NoScan)
              /\ CloseOK(pool)
              /\ Down(Close(pool).disk)

\* The process is killed between two calls.
Crash == up /\ Down(pool.disk)

\* The process is killed while close writes the dirty pages one by one.
CrashInClose == /\ up /\ (\A c \in Scanners : scan[c] = NoScan)
                /\ CloseOK(pool)
                /\ \E P \in SUBSET DirtyPids(SaveHead(pool)) :
                     Down(FlushPids(SaveHead(pool), P).disk)

\* remove(rid): the row's page is fetched, marked and unpinned.
\* Mutation: the page is unpinned as clean.
RemoveRowClean(p, k) ==
  /\ up /\ HasPage(pool, p) /\ FetchOK(pool, p)
  /\ LET t == Fetch(pool, p)
         marked == IF k < Len(PageSlots(t, p))
                   THEN [t EXCEPT !.frames[t.dir[p]].data.slots = MarkDeleted(@, k)] ELSE t
     IN  pool' = Unpin(marked, p, FALSE)
  /\ UNCHANGED <<up, scan>>
RemoveRow(p, k) ==
  /\ up /\ HasPage(pool, p) /\ FetchOK(pool, p)
  /\ LET t == Fetch(pool, p)
         marked == IF k < Len(PageSlots(t, p))
                   THEN [t EXCEPT !.frames[t.dir[p]].data.slots = MarkDeleted(@, k)] ELSE t
     IN  pool' = Unpin(marked, p, TRUE)
  /\ UNCHANGED <<up, scan>>

SmallRows == {r \in Rows : RowSize[r] <= 4 * Word}

\* A row of four words and its mark fits the 1024 bytes of an empty page.
ASSUME SmallRowsAssumption == \A r \in SmallRows : Enough(<<>>, RowSize[r])

TableSteps == OpenTable \/ CloseTable \/ Crash \/ CrashInClose
ScanSteps(c) == NextRow(c) \/ ForgetScan(c)

\* Slot k is the last neither in page p nor in a scanner's copy of its index.
HasRowAfter(p, k) ==
  /\ k + 1 < Len(SlotsOf(Latest(pool, p)))
  /\ \A c \in Scanners : scan[c] # NoScan /\ scan[c].pid = p => k + 1 < scan[c].count
RecordPids == PageIds \ {0}

Next == \/ TableSteps
        \/ \E r \in SmallRows : Insert(r)
        \/ \E p \in RecordPids, k \in 0..SlotBound : HasRowAfter(p, k) /\ RemoveRow(p, k)
        \/ \E c \in Scanners : \/ ScanSteps(c)
                               \/ HasPage(pool, 1) /\ OpenScan(c)
                               \/ HoldsPage(scan[c]) /\ DestroyScan(c)
Spec == Init /\ [][Next]_vars

\* Scanners are destroyed at any time, as by the executer that owns one.
SpecDestroys == Init /\ [][Next \/ \E c \in Scanners : DestroyScan(c)]_vars

\* Scanners are opened on an empty table too.
SpecEmptyScan == Init /\ [][Next \/ \E c \in Scanners : OpenScan(c)]_vars

\* Any rows are removed.
SpecRemoves ==
  Init /\ [][Next \/ \E p \in RecordPids, k \in 0..SlotBound : RemoveRow(p, k)]_vars

\* Rows that no page has room for are inserted.
SpecLongRows == Init /\ [][Next \/ \E r \in Rows : Insert(r)]_vars
-----------------------------------------------------------------------------
\* A scanner that has not ended can read its page: the frame its Page* points
\* at holds the page, with no fewer slots than its index, and is pinned.
ScansReadTheirPage ==
  \A c \in Scanners :
    scan[c] # NoScan /\ ~scan[c].ended =>
      LET f == pool.frames[scan[c].frame]
      IN  f.pid = scan[c].pid /\ f.pin > 0 /\ scan[c].count <= Len(SlotsOf(f.data))

\* A page is pinned once for each scanner that is on it and by nothing else;
\* with all of them at their end or gone "pin_count_ == 0" (table_heap_test.cc:37).
PinsReturned ==
  \A f \in Frames :
    pool.frames[f].pin = Cardinality({c \in Scanners :
      HoldsPage(scan[c]) /\ scan[c].pid = pool.frames[f].pid})

\* In every page, cached or in the file, index and records keep apart.
PagesLaidOut ==
  \A p \in PageIds \ {0} : LayoutOK(SlotsOf(Latest(pool, p))) /\ LayoutOK(SlotsOf(pool.disk[p]))

\* The slots a scanner has passed: those of earlier pages, and of its own.
Passed(c) == Len(SlotsUpTo([p \in PageIds |-> Latest(pool, p)], scan[c].pid - 1)) + scan[c].slot

\* "scan all records in all pages" (record.hpp:252): a scanner that says there
\* is no more has passed every row that was there when it was opened, unless
\* it came to a page that a killed close has left without rows.
ScanSeesAll ==
  \A c \in Scanners :
    scan[c] # NoScan /\ scan[c].ended /\ ~StoppedEarly(scan[c]) =>
      \A i \in Passed(c) + 1..scan[c].need : PoolSlots(pool)[i].deleted

\* While the table is open no row that was inserted goes missing, as the loop
\* at table_heap_test.cc:21-30 expects.
RowsStay ==
  [][up /\ up' => IsPrefix(RowsIn(PoolSlots(pool)), RowsIn(PoolSlots(pool')))]_vars

\* The table is a sequence of rows, whatever pages and frames they are in.  A
\* close that finds its frame saves them all: it is a step of Close, not only of
\* CrashInClose, which allows it too.
Cursor(c) == [at |-> Passed(c), need |-> scan[c].need, row |-> scan[c].row,
              ended |-> scan[c].ended]

ASSUME CursorAssumption ==
  NoScan \notin [at : Nat, need : Nat, row : Rows \cup {NoRow}, ended : BOOLEAN]

\* The rows in record pages of the file, those its header counts or others.
FileRows(d) == UNION {ToSet(RowsIn(SlotsOf(d[p]))) : p \in RecordPids}

\* A page after the first of n pages has no rows.
HasGap(page, n) == \E p \in 2..n : SlotsOf(page[p]) = <<>>
PoolGap(s) == HasGap([p \in PageIds |-> Latest(s, p)], s.next - 1)
FileGap(d) == d[0] # Zero /\ HasGap(d, d[0].phyNum - 1)

RowTable == INSTANCE Table WITH
  rows <- MarkedRows(IF up THEN PoolSlots(pool) ELSE FileSlots(pool.disk)),
  saved <- MarkedRows(FileSlots(pool.disk)),
  strays <- FileRows(pool.disk),
  torn <- (up /\ PoolGap(pool)) \/ FileGap(pool.disk),
  cur <- [c \in Scanners |-> IF scan[c] = NoScan THEN NoScan ELSE Cursor(c)]
ImplementsTable == RowTable!Spec /\ [][CloseTable => RowTable!Close]_vars
=============================================================================
