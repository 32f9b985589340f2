----------------------------- MODULE Statements -----------------------------
(***************************************************************************)
(* The statements that reach a table, one after the other (execute_sql in  *)
(* src/bin/command.cc, with the binder and the executers).  An INSERT is   *)
(* one call of the heap, whose result nobody looks at.  A SELECT makes a   *)
(* scanner, calls it until it returns no row and destroys it; one that     *)
(* names an unknown column has made its scanner by then, and forgets it.   *)
(* DELETE and UPDATE do not get as far as the table.                       *)
(*                                                                         *)
(* A scanner at its end has given its page back and gives it back once     *)
(* more when it is destroyed, so pin counts go below zero and, with        *)
(* forgotten scanners, above what is held.  The bounds keep them within    *)
(* LeakBound above zero and WrapBound below.                               *)
(*                                                                         *)
(* Spec keeps to tables with a page for SELECT, and to INSERTs that find   *)
(* the frames they need; SpecNoFrame drops the second.                     *)
(***************************************************************************)
EXTENDS TableHeap

CONSTANTS LeakBound, WrapBound

ASSUME BoundsAssumption ==
  LeakBound \in Nat /\ WrapBound \in Nat /\ LeakBound + 1 < PinMax - WrapBound

VARIABLE answer  \* tuples_ of the SELECT that runs, as the rows they are of
svars == <<up, pool, scan, answer>>

\* execute_sql returns before the next statement is read.
Idle == up /\ \A c \in Scanners : scan[c] = NoScan
PinsInBounds == \A f \in Frames : pool.frames[f].pin \in 0..LeakBound \cup (PinMax - WrapBound)..PinMax

\* The model has an id for each page the row is tried in.
PidsInBounds(r) == /\ LastPage(pool) <= LastPid
                   /\ \/ HasRoomFor(OpenLastPage(pool), LastPage(pool), r)
                      \/ PickedPid(OpenLastPage(pool)) <= LastPid

\* InsertExecuter::next: "OUT_OF_RANGE", that is success, whatever the heap
\* says.  Where the heap gets no page at all the process dies (Kill).
InsertStatement(r) ==
  /\ Idle /\ LastPageOK(pool) /\ PidsInBounds(r)
  /\ pool' = InsertRow(pool, r)
  /\ UNCHANGED <<up, scan, answer>>

\* bind_select makes the scanner first and then looks the columns up.
\* Without a frame for page 1 the scanner's init leaves its pointer to the page
\* unset (record.hpp:272-273), and bind_select goes on: the process dies at the
\* first use of it (Kill), or whatever the pointer happens to hold is read,
\* which is left out.
Select(c) == /\ Idle /\ HasPage(pool, 1)
             /\ OpenScan(c)
             /\ answer' = <<>>
SelectUnknown == /\ Idle /\ HasPage(pool, 1) /\ FetchOK(pool, 1)
                 /\ pool' = Fetch(pool, 1)
                 /\ UNCHANGED <<up, scan, answer>>

\* A turn of the loop in execute_sql.
NextTuple(c) == /\ NextRow(c)
                /\ answer' = IF scan'[c].ended THEN answer ELSE Append(answer, scan'[c].row)

\* ~RecordScanner, when the loop has ended and the executer goes.
EndSelect(c) == /\ scan[c] # NoScan /\ scan[c].ended
                /\ DestroyScan(c)
                /\ answer' = <<>>

\* RecordScanner::next finds no frame for the next page, in has_next nor when
\* it tries once more itself; the loop ends with an error and the executer goes.
\* Mutation: it tries for ever.
FailSelectRetrying(c, x) ==
  /\ x.slot >= x.count
  /\ \E p \in PidsAfter(pool, x.pid) : ~FetchOK(Unpin(pool, x.pid, FALSE), p)
  /\ UNCHANGED svars
FailSelect(c, x) ==
  /\ x.slot >= x.count
  /\ \E p \in PidsAfter(pool, x.pid) : \E s \in {Unpin(pool, x.pid, FALSE)} :
       /\ \A q \in PidsAfter(pool, x.pid) : p <= q
       /\ ~FetchOK(s, p)
       /\ pool' = Unpin(s, p, FALSE)
  /\ scan' = [scan EXCEPT ![c] = NoScan]
  /\ answer' = <<>>
  /\ UNCHANGED up

SelectSteps == \E c \in Scanners :
  \/ NextTuple(c)
  \/ EndSelect(c)
  \/ scan[c] # NoScan /\ ~scan[c].ended /\ FailSelect(c, scan[c])

Start == OpenTable /\ UNCHANGED answer

\* .quit: the destructor of Catalog closes the heap, which writes nothing if it
\* finds no frame for page 0.  Or the process is killed, in that close or
\* before, or dies.
Quit == Idle /\ Down(Close(pool).disk) /\ answer' = <<>>
Kill == Crash /\ answer' = <<>>
KillInQuit == CrashInClose /\ answer' = <<>>

StatementSteps == \/ \E c \in Scanners : Select(c)
                  \/ SelectUnknown
                  \/ \E r \in SmallRows : InsertOK(pool, r) /\ InsertStatement(r)
StatementNext == (PinsInBounds /\ StatementSteps) \/ SelectSteps \/ Start
                 \/ Quit \/ Kill \/ KillInQuit
StatementInit == Init /\ answer = <<>>
StatementSpec == StatementInit /\ [][StatementNext]_svars /\ WF_svars(SelectSteps)

\* INSERTs that find no frame for a new page, too.
SpecNoFrame == StatementInit /\ [][StatementNext \/ (PinsInBounds /\ \E r \in SmallRows : InsertStatement(r))]_svars
-----------------------------------------------------------------------------
\* A SELECT that ends without an error has returned every row of the table
\* once, in order, whatever earlier statements did to the pins; or every row
\* before a page that a killed close has left without rows.
SelectAnswers ==
  \A c \in Scanners :
    scan[c] # NoScan /\ scan[c].ended =>
      answer = RowsIn(IF StoppedEarly(scan[c])
                      THEN SlotsUpTo([p \in PageIds |-> Latest(pool, p)], scan[c].pid - 1)
                      ELSE PoolSlots(pool))

\* The loop in execute_sql ends.
SelectEnds == \A c \in Scanners : scan[c] # NoScan ~> scan[c] = NoScan

\* An INSERT that reports success has put its row at the end of the table, as
\* "pure_assert(heap.insert(r))" (table_heap_test.cc:22) would have it.
InsertInserts ==
  [][\A r \in Rows : InsertStatement(r) => RowsIn(PoolSlots(pool')) = Append(RowsIn(PoolSlots(pool)), r)]_svars

\* .quit loses no row: it is what writes the table ("close").
QuitKeepsRows == [][Quit => RowsIn(FileSlots(pool'.disk)) = RowsIn(PoolSlots(pool))]_svars
=============================================================================
