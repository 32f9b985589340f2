------------------------------ MODULE RecordPage ----------------------------
(***************************************************************************)
(* The bytes of one record page.  On disk (record.hpp:16-18) they are      *)
(*   free_addr_start_, free_addr_end_, rec_idx_count_, rec_idx_[0], ...    *)
(*   free space, ..., record 1, record 0                                   *)
(* where each of the first line is a word and a record is its delete mark  *)
(* and its bytes.  TableHeap makes a fresh RecordPage object of the page   *)
(* for each call; a scanner keeps the index it read when it was made.      *)
(***************************************************************************)
EXTENDS RecordOps

CONSTANTS
  Base,     \* 256, the values of a byte
  Records,  \* the records a caller may insert: sequences of bytes
  NoView

\* Base^i, the weight of byte i of a word.
Weight[i \in 0..Word] == IF i = 0 THEN 1 ELSE Weight[i-1] * Base

ASSUME BytesAssumption ==
  /\ Base \in Nat \ {0, 1} /\ SizeModulus = Weight[Word]
  /\ Records \subseteq Seq(0..Base-1)

VARIABLES
  mem,   \* the page: its bytes by offset
  view,  \* rec_idx_ of a scanner's RecordPage object, or NoView
  recs   \* history: the slots the calls so far should have made
vars == <<mem, view, recs>>

Offsets == 0..PageSize-1

\* Words are little-endian.
Byte(v, i) == (v \div Weight[i]) % Base
PutWord(m, o, v) == [j \in Offsets |-> IF j \in o..o+Word-1 THEN Byte(v, j - o) ELSE m[j]]
GetWord(m, o) == LET sum[i \in 0..Word] ==
                       IF i = 0 THEN 0 ELSE sum[i-1] + m[o+i-1] * Weight[i-1]
                 IN  sum[Word]

\* memcpy of bytes; those that would fall outside the page are not modelled.
PutBytes(m, o, b) == [j \in Offsets |-> IF j \in o..o+Len(b)-1 THEN b[j-o+1] ELSE m[j]]
GetBytes(m, o, n) == [i \in 1..n |-> m[o+i-1]]

\* init: what the constructor reads, after it has given a page of zeros its
\* free_addr_end_.
Prepared(m) == IF GetWord(m, Word) = 0 THEN PutWord(m, Word, PageSize) ELSE m
Loaded(m) == [start |-> GetWord(m, 0), end |-> GetWord(m, Word),
              idx |-> [k \in 1..GetWord(m, 2*Word) |-> GetWord(m, (2+k)*Word)]]

\* enough().  Mutation: room for the new index entry is not asked for.
HasRoomForRecord(p, n) == IndexEnd(Len(p.idx)) < (p.end - n - 1) % SizeModulus
HasRoom(p, n) == IndexEnd(Len(p.idx)) + Word < (p.end - n - 1) % SizeModulus

\* write_head(rid, idx): the three words, and the index entry of slot k.
\* Mutation: free_addr_end_ is not written.
WriteHeadKeepingEnd(m, start, end, k, idx) ==
  PutWord(PutWord(PutWord(m, 0, start), 2*Word, k + 1), (3 + k) * Word, idx)
WriteHead(m, start, end, k, idx) ==
  PutWord(PutWord(PutWord(PutWord(m, 0, start), Word, end), 2*Word, k + 1),
          (3 + k) * Word, idx)

\* get of slot k by an object with index idx: where the record before starts
\* tells where this one ends.
EndOf(idx, k) == IF k = 0 THEN PageSize ELSE idx[k]
GetRecord(m, idx, k) == GetBytes(m, idx[k+1] + 1, EndOf(idx, k) - idx[k+1] - 1)
Deleted(m, idx, k) == m[idx[k+1]] = 1

Init == /\ mem = [j \in Offsets |-> 0]
        /\ view = NoView
        /\ recs = <<>>

\* RecordPage{page}.insert(b).
InsertFits(b) ==
  LET m == Prepared(mem)
      p == Loaded(m)
      at == (p.end - Len(b) - 1) % SizeModulus
  IN  /\ HasRoom(p, Len(b))
      /\ mem' = WriteHead(PutBytes(m, at, <<0>> \o b), p.start + 1, at, Len(p.idx), at)
      /\ recs' = AddRecord(recs, b, Len(b))
      /\ UNCHANGED view

InsertRefused(b) ==
  /\ ~HasRoom(Loaded(Prepared(mem)), Len(b))
  /\ mem' = Prepared(mem)
  /\ UNCHANGED <<view, recs>>

Insert(b) == InsertFits(b) \/ InsertRefused(b)

\* RecordPage{page}.remove(k).
\* Mutation: the mark is written one byte late.
RemoveSlotOneLate(k) ==
  LET m == Prepared(mem)
      idx == Loaded(m).idx
  IN  /\ mem' = IF k < Len(idx) THEN PutBytes(m, idx[k+1] + 1, <<1>>) ELSE m
      /\ recs' = MarkDeleted(recs, k)
      /\ UNCHANGED view
RemoveSlot(k) ==
  LET m == Prepared(mem)
      idx == Loaded(m).idx
  IN  /\ mem' = IF k < Len(idx) THEN PutBytes(m, idx[k+1], <<1>>) ELSE m
      /\ recs' = MarkDeleted(recs, k)
      /\ UNCHANGED view

\* A scanner's object is made, or goes.
LoadView == /\ mem' = Prepared(mem)
            /\ view' = Loaded(Prepared(mem)).idx
            /\ UNCHANGED recs
DropView == /\ view # NoView
            /\ view' = NoView
            /\ UNCHANGED <<mem, recs>>

OtherSteps == LoadView \/ DropView \/ \E k \in 0..Len(recs) : RemoveSlot(k)

\* enough() subtracts without wrapping below zero (record.hpp:105).
NoWrap(n) == n + 1 <= FreeEnd(recs)

Next == OtherSteps \/ \E b \in Records : NoWrap(Len(b)) /\ Insert(b)
Spec == Init /\ [][Next]_vars

\* Records of any length: one longer than what lies below the records is taken.
SpecAnySize == Init /\ [][OtherSteps \/ \E b \in Records : Insert(b)]_vars
-----------------------------------------------------------------------------
Starts == [i \in DOMAIN recs |-> recs[i].start]

\* A fresh object reads back from the page what the calls so far made of it
\* (write_head against init).
HeadReadsBack ==
  LET p == Loaded(Prepared(mem))
  IN  p.start = Len(recs) /\ p.end = FreeEnd(recs) /\ p.idx = Starts

\* The index never grows into the records: "assert(false)" at record.hpp:84-86.
IndexStaysClear == LayoutOK(recs)

\* Each record reads as it was inserted, with its delete mark, through the
\* index in the page and through the index a scanner read earlier.
RecordsReadBack ==
  \A idx \in {Starts} \cup ({view} \ {NoView}) :
    \A k \in 0..Len(idx)-1 :
      /\ Deleted(mem, idx, k) = recs[k+1].deleted
      /\ GetRecord(mem, idx, k) = recs[k+1].rec

\* "has enough space to insert a record" (record.hpp:102): a record that is
\* accepted fits below the records and above the index.  (And enough() judges
\* as its slot-level form does, which TableHeap uses.)  With records for which
\* it wraps it does not (SpecAnySize).
EnoughMeansRoom ==
  [][\A b \in Records :
       /\ InsertFits(b) => /\ Enough(recs, Len(b))
                           /\ IndexEnd(Len(recs) + 1) + Len(b) + 1 <= FreeEnd(recs)
       /\ InsertRefused(b) => ~Enough(recs, Len(b))]_vars

\* A record of RECORD_MAX_SIZE bytes (storage_def.hpp:9) can be inserted.
MaxSizeFits ==
  [][\A b \in Records : recs = <<>> /\ Len(b) <= RecordMaxSize => ~InsertRefused(b)]_vars
=============================================================================
