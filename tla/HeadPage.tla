------------------------------ MODULE HeadPage ------------------------------
(***************************************************************************)
(* The bytes behind a pool's head: bitmap_ (src/common/bitmap.hpp) and     *)
(* page 0 as BFPHeaderPage writes and reads it.  PoolOps has these as sets *)
(* of bits.  Here both are kept, a pool of PoolOps going through the calls *)
(* new_page (with the unpin after it), delete_page of a held page, close   *)
(* and the constructor, and the bytes through what those do to them.  A    *)
(* byte is the set of the offsets at which it has a one: 1 << o is {o},    *)
(* and |, & ~ and & are union, difference and membership.                  *)
(***************************************************************************)
EXTENDS PoolOps

CONSTANTS
  AreaBytes,  \* BFP_BITMAP_MAX_SIZE
  PhyBound    \* bound on phy_num_, which grows with every new_page

ASSUME AreaAssumption ==
  AreaBytes \in Nat /\ LastPid = AreaBytes * BitsPerByte - 1 /\ PhyBound \in Nat

VARIABLES
  up,    \* the pool object exists
  obj,   \* head_: page_num_, phy_num_ and bitmap_, a sequence of bytes
  page,  \* page 0: the two words and the area for the bitmap
  pool   \* the pool, of PoolOps
vars == <<up, obj, page, pool>>

NoBit == -1  \* first and first_after return false

Byte == SUBSET (0..BitsPerByte-1)
ZeroByte == {}
Size(bitmap) == Len(bitmap) * BitsPerByte
GetBit(bitmap, i) == i % BitsPerByte \in bitmap[i \div BitsPerByte + 1]

\* set.  Mutation: clearing a bit clears its byte.
SetBitByByte(bitmap, i, one) ==
  [bitmap EXCEPT ![i \div BitsPerByte + 1] =
     IF one THEN @ \cup {i % BitsPerByte} ELSE ZeroByte]
SetBit(bitmap, i, one) ==
  [bitmap EXCEPT ![i \div BitsPerByte + 1] =
     IF one THEN @ \cup {i % BitsPerByte} ELSE @ \ {i % BitsPerByte}]

\* The loops of first and first_after.
FirstFrom(bitmap, one, start) ==
  LET f[i \in start..Size(bitmap)] ==
        IF i = Size(bitmap) THEN NoBit
        ELSE IF GetBit(bitmap, i) = one THEN i ELSE f[i + 1]
  IN  f[start]
First(bitmap, one) == FirstFrom(bitmap, one, 0)

\* Mutation: the loop starts at cur itself.
FirstFromCurrent(bitmap, one, cur) ==
  IF Size(bitmap) <= cur THEN NoBit ELSE FirstFrom(bitmap, one, cur)
FirstAfter(bitmap, one, cur) ==
  IF Size(bitmap) <= cur THEN NoBit ELSE FirstFrom(bitmap, one, cur + 1)

\* new_page pushes zero bytes until there is a bit i.
Grown(bitmap, i) == bitmap \o [k \in 1..(i \div BitsPerByte + 1 - Len(bitmap)) |-> ZeroByte]

\* write2page.  Mutation: the whole area is written.
WrittenOverAll(o, c) ==
  [pageNum |-> o.pageNum, phyNum |-> o.phyNum,
   area |-> [k \in DOMAIN c.area |-> IF k <= Len(o.bitmap) THEN o.bitmap[k] ELSE ZeroByte]]
Written(o, c) ==
  [pageNum |-> o.pageNum, phyNum |-> o.phyNum,
   area |-> [k \in DOMAIN c.area |-> IF k <= Len(o.bitmap) THEN o.bitmap[k] ELSE c.area[k]]]

\* init of a page written before.
ReadBack(c) ==
  LET size == IF c.phyNum > BitsPerByte
              THEN c.pageNum \div BitsPerByte + (IF c.pageNum % BitsPerByte = 0 THEN 0 ELSE 1)
              ELSE 1
  IN  [pageNum |-> c.pageNum, phyNum |-> c.phyNum, bitmap |-> SubSeq(c.area, 1, size)]
FreshObj == [pageNum |-> 1, phyNum |-> 1, bitmap |-> SetBit(<<ZeroByte>>, 0, TRUE)]

Init == /\ up = FALSE
        /\ obj = FreshObj
        /\ page = [pageNum |-> 0, phyNum |-> 0, area |-> [k \in 1..AreaBytes |-> ZeroByte]]
        /\ pool = BlankPool([p \in PageIds |-> Zero])

Open == /\ ~up
        /\ up' = TRUE
        /\ obj' = IF page.pageNum = 0 THEN FreshObj ELSE ReadBack(page)
        /\ page' = IF page.pageNum = 0 THEN Written(FreshObj, page) ELSE page
        /\ pool' = OpenPool(pool.disk)

\* The page id new_page settles on.
Picked == LET i == First(obj.bitmap, FALSE)
          IN  IF i # NoBit /\ i < CurrentPid(pool) THEN i ELSE pool.next

AddPage ==
  /\ up /\ NewPageOK(pool)
  /\ Picked <= LastPid /\ obj.pageNum <= LastPid /\ obj.phyNum < PhyBound  \* model bounds
  /\ obj' = [pageNum |-> obj.pageNum + 1, phyNum |-> obj.phyNum + 1,
             bitmap |-> SetBit(Grown(obj.bitmap, Picked), Picked, TRUE)]
  /\ pool' = Unpin(NewPage(pool), PickedPid(pool), FALSE)
  /\ UNCHANGED <<up, page>>

DropPage(p) ==
  /\ up /\ p < Size(obj.bitmap) /\ GetBit(obj.bitmap, p)
  /\ obj' = [obj EXCEPT !.bitmap = SetBit(@, p, FALSE), !.pageNum = @ - 1]
  /\ page' = Written(obj', page)
  /\ pool' = DeletePage(Fetch(pool, p), p)
  /\ UNCHANGED up

ClosePool ==
  /\ up
  /\ up' = FALSE
  /\ page' = Written(obj, page)
  /\ pool' = BlankPool(Close(pool).disk)
  /\ UNCHANGED obj

Next == Open \/ AddPage \/ ClosePool \/ \E p \in PageIds \ {0} : DropPage(p)
Spec == Init /\ [][Next]_vars
-----------------------------------------------------------------------------
Ones(bitmap) == {i \in 0..Size(bitmap) - 1 : GetBit(bitmap, i)}

\* bitmap_ and the counters are the pool's head, through every growth, set,
\* clear and truncated read.
ObjIsHead ==
  up => [pageNum |-> obj.pageNum, phyNum |-> obj.phyNum, bytes |-> Len(obj.bitmap),
         bits |-> Ones(obj.bitmap)] = pool.head

\* Page 0 reads as the pool's image of it, bytes past bitmap_ that an earlier
\* write2page left included.
PageIsImage ==
  page.pageNum # 0 =>
    [pageNum |-> page.pageNum, phyNum |-> page.phyNum, bits |-> Ones(page.area)]
      = Latest(pool, 0)

\* The loops find what the set operations of PoolOps say: new_page's page id,
\* and the page next_pid_after gives a scanner.
LoopsFind ==
  up => /\ Picked = PickedPid(pool)
        /\ \A p \in PageIds :
             LET q == FirstAfter(obj.bitmap, TRUE, p)
             IN  IF PidsAfter(pool, p) = {} THEN q = NoBit
                 ELSE q \in PidsAfter(pool, p) /\ \A j \in PidsAfter(pool, p) : q <= j
=============================================================================
