------------------------------- MODULE Table --------------------------------
(***************************************************************************)
(* What a table heap promises: a sequence of rows that grows at its end    *)
(* and in which rows can be marked as removed, a prefix of it that a crash *)
(* would leave, some of its marks missing, and scanners that walk along it *)
(* past the removed rows.  A scanner that reports the end has passed all   *)
(* the rows there were when it was opened; of those inserted since it may  *)
(* skip any.                                                               *)
(*                                                                         *)
(* A close that is killed promises less.  The rows saved before stay where *)
(* they are, but any rows that lie in the file may follow: some of those   *)
(* inserted since, with others missing before them, or some of an earlier  *)
(* life that a crash had dropped.  And the table may have got gaps, at     *)
(* which scanners report an end before they have passed all rows.          *)
(***************************************************************************)
EXTENDS Integers, Sequences

CONSTANTS Rows, Scanners, NoScan, NoRow

VARIABLES
  rows,   \* all rows, in insertion order, each with its mark (gone)
  saved,  \* those a crash would leave
  strays, \* the rows that lie in the file, found when it is opened or not
  torn,   \* a killed close has left a gap
  cur     \* each scanner: rows passed, rows to pass, last row, ended; or NoScan
vars == <<rows, saved, strays, torn, cur>>

Closed == [c \in Scanners |-> NoScan]

RowSet(s) == {s[i].row : i \in DOMAIN s}

Init == rows = <<>> /\ saved = <<>> /\ strays = {} /\ torn = FALSE /\ cur = Closed

\* new has the rows of old and maybe more after them, and no mark less.
Extends(old, new) ==
  /\ Len(old) <= Len(new)
  /\ \A i \in DOMAIN old : /\ old[i].row = new[i].row
                           /\ old[i].gone => new[i].gone

\* Only rows of the table get into the file, and gaps are filled or stay.
Written == strays' \subseteq strays \cup RowSet(rows) /\ (torn' => torn)

\* More rows may become durable in any step, in order, and more marks.
MaySave == Extends(saved, saved') /\ Extends(saved', rows') /\ Written

Insert(r) == /\ rows' = Append(rows, [row |-> r, gone |-> FALSE])
             /\ MaySave
             /\ UNCHANGED cur

Remove(i) == /\ rows' = [rows EXCEPT ![i].gone = TRUE]
             /\ MaySave
             /\ UNCHANGED cur

OpenScan(c) ==
  /\ cur[c] = NoScan
  /\ cur' = [cur EXCEPT ![c] = [at |-> 0, need |-> Len(rows), row |-> NoRow, ended |-> FALSE]]
  /\ MaySave
  /\ UNCHANGED rows

NextRow(c) ==
  LET x == cur[c]
      all == rows
  IN  /\ x # NoScan /\ ~x.ended
      /\ \E i \in x.at + 1..Len(all) :
           /\ ~all[i].gone
           /\ \A k \in x.at + 1..i - 1 : all[k].gone \/ k > x.need
           /\ cur' = [cur EXCEPT ![c].at = i, ![c].row = all[i].row]
      /\ MaySave
      /\ UNCHANGED rows

EndScan(c) ==
  LET x == cur[c]
      all == rows
  IN  /\ x # NoScan /\ ~x.ended
      /\ torn \/ \A k \in x.at + 1..x.need : all[k].gone
      /\ \E i \in x.at..Len(all) :
           cur' = [cur EXCEPT ![c].at = i, ![c].row = NoRow, ![c].ended = TRUE]
      /\ MaySave
      /\ UNCHANGED rows

CloseScan(c) == /\ cur[c] # NoScan
                /\ cur' = [cur EXCEPT ![c] = NoScan]
                /\ MaySave
                /\ UNCHANGED rows

Save == MaySave /\ UNCHANGED <<rows, cur>>

\* Closing keeps every row; a crash keeps those that were saved.
Close == /\ cur = Closed
         /\ saved' = rows
         /\ Written
         /\ UNCHANGED <<rows, cur>>
Crash == /\ rows' = saved
         /\ cur' = Closed
         /\ Written
         /\ UNCHANGED saved
CrashInClose == /\ cur = Closed
                /\ Extends(saved, rows')
                /\ RowSet(rows') \subseteq strays' /\ strays' \subseteq strays \cup RowSet(rows)
                /\ saved' = rows'
                /\ UNCHANGED cur

Next == \/ \E r \in Rows : Insert(r)
        \/ \E i \in DOMAIN rows : Remove(i)
        \/ \E c \in Scanners : OpenScan(c) \/ NextRow(c) \/ EndScan(c) \/ CloseScan(c)
        \/ Save \/ Close \/ Crash \/ CrashInClose
Spec == Init /\ [][Next]_vars
=============================================================================
