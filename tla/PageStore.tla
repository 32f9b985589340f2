----------------------------- MODULE PageStore ------------------------------
(***************************************************************************)
(* What the buffer pool promises its clients, with no frames, pins or      *)
(* dirty flags in it: a set of allocated pages, the latest contents of     *)
(* each, and what would be left of them by a crash.  Page 0 holds the set  *)
(* of allocated pages as it was last saved.  Contents may become durable   *)
(* in any step (an eviction); only closing makes all of them so.           *)
(***************************************************************************)
EXTENDS Integers

CONSTANTS PageIds, Data, Zero

VARIABLES
  up,     \* the store is open
  alloc,  \* the allocated pages
  page,   \* the latest contents of each page; of page 0, a set of pages
  disk    \* the durable contents
vars == <<up, alloc, page, disk>>

Init == /\ up = FALSE
        /\ alloc = {}
        /\ page = [p \in PageIds |-> IF p = 0 THEN {} ELSE Zero]
        /\ disk = page

\* Any page may become durable: as it was before the step or after it.
MayPersist == /\ DOMAIN disk' = PageIds
              /\ \A p \in PageIds : disk'[p] \in {disk[p], page[p], page'[p]}

Open == /\ ~up
        /\ up' = TRUE
        /\ alloc' = IF page[0] = {} THEN {0} ELSE page[0]
        /\ page' = [page EXCEPT ![0] = alloc']
        /\ MayPersist

\* A new page is one that was not allocated, and reads as zeros.
Allocate(p) == /\ up
               /\ p \notin alloc
               /\ alloc' = alloc \cup {p}
               /\ page' = [page EXCEPT ![p] = Zero]
               /\ up' = up
               /\ MayPersist

Write(p, v) == /\ up
               /\ p \in alloc \ {0}
               /\ page' = [page EXCEPT ![p] = v]
               /\ UNCHANGED <<up, alloc>>
               /\ MayPersist

\* Freeing a page saves the set of those left, if the store has room to; what
\* the freed page holds from now on means nothing.
Free(p) == /\ up
           /\ p \in alloc \ {0}
           /\ alloc' = alloc \ {p}
           /\ DOMAIN page' = PageIds
           /\ \A q \in PageIds \ {0, p} : page'[q] = page[q]
           /\ page'[0] \in {page[0], alloc'}
           /\ up' = up
           /\ MayPersist

Persist == /\ up
           /\ UNCHANGED <<up, alloc, page>>
           /\ MayPersist

Close == /\ up
         /\ up' = FALSE
         /\ alloc' = {}
         /\ page' = [page EXCEPT ![0] = alloc]
         /\ disk' = page'

\* A crash, possibly in the middle of closing: what was durable is left.
Crash == /\ up
         /\ up' = FALSE
         /\ alloc' = {}
         /\ DOMAIN disk' = PageIds
         /\ \A p \in PageIds : disk'[p] \in {disk[p], page[p]}
                                  \cup (IF p = 0 THEN {alloc} ELSE {})
         /\ page' = disk'

Next == \/ Open \/ Persist \/ Close \/ Crash
        \/ \E p \in PageIds : \/ Allocate(p) \/ Free(p)
                              \/ \E v \in Data : Write(p, v)

Spec == Init /\ [][Next]_vars
=============================================================================
