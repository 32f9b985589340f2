------------------------------ MODULE RecordOps -----------------------------
(***************************************************************************)
(* What RecordPage's operations (src/storage/bufferpool/record.hpp) do to  *)
(* the sequence of slots of a page.  Slot k of the code is element k + 1:  *)
(* its record, the offset rec_idx_[k] where the record starts, and its     *)
(* delete mark.  This is the view TableHeap has of a page; RecordPage.tla  *)
(* keeps the bytes and shows that they move exactly like this.             *)
(***************************************************************************)
EXTENDS Integers, SequencesExt

CONSTANTS
  PageSize,     \* PAGE_SIZE
  Word,         \* sizeof(size_t)
  SizeModulus   \* 2^64: size_t arithmetic wraps

ASSUME RecordAssumption ==
  /\ PageSize \in Nat /\ Word \in Nat \ {0} /\ SizeModulus \in Nat
  /\ 4 * Word < PageSize /\ PageSize < SizeModulus

RecordMaxSize == PageSize - 4 * Word   \* RECORD_MAX_SIZE

\* free_addr_end_, kept as the start of the last record.
FreeEnd(slots) == IF slots = <<>> THEN PageSize ELSE Last(slots).start

\* Where a record of n bytes and its mark would start.
RecordStart(slots, n) == (FreeEnd(slots) - n - 1) % SizeModulus

\* Where an index of count entries ends.
IndexEnd(count) == Word * (3 + count)

\* enough().  Mutation: room for the new index entry is not asked for.
EnoughForRecord(slots, n) == IndexEnd(Len(slots)) < RecordStart(slots, n)
Enough(slots, n) == IndexEnd(Len(slots)) + Word < RecordStart(slots, n)

AddRecord(slots, rec, n) ==
  Append(slots, [rec |-> rec, start |-> RecordStart(slots, n), deleted |-> FALSE])

\* remove: false, and nothing changes, when there is no such slot.
MarkDeleted(slots, k) ==
  IF k < Len(slots) THEN [slots EXCEPT ![k + 1].deleted = TRUE] ELSE slots

\* Where record i ends: the one before it starts there.
SlotEnd(slots, i) == IF i = 1 THEN PageSize ELSE slots[i - 1].start

\* The index and the records share the page without meeting: each record ends
\* where the one before it starts, and the last starts past the index.
LayoutOK(slots) ==
  /\ \A i \in 1..Len(slots) : /\ slots[i].start \in 0..PageSize-1
                              /\ slots[i].start < SlotEnd(slots, i)
  /\ slots # <<>> => IndexEnd(Len(slots)) < FreeEnd(slots)
=============================================================================
