-------------------------- MODULE TableHeapProofs ---------------------------
(***************************************************************************)
(* The safety invariants of TableHeap, for any number of frames, pages,    *)
(* scanners and rows, and any page and word size an empty page of which    *)
(* has room for four words.  Spec is the protocol of a careful user (see   *)
(* TableHeap), with kills between the calls and inside close.              *)
(***************************************************************************)
EXTENDS TableHeap, PoolProofs

-----------------------------------------------------------------------------
\* g sums up the slots of pages 1 to n, page by page.
SumsSlots(g, page, n) ==
  g = [p \in 0..n |-> IF p = 0 THEN <<>> ELSE g[p-1] \o SlotsOf(page[p])]

LEMMA SumExists ==
  ASSUME NEW S, NEW page, NEW n \in Nat, \A p \in 1..n : SlotsOf(page[p]) \in Seq(S)
  PROVE  \E g \in [0..n -> Seq(S)] : SumsSlots(g, page, n)
<1> DEFINE Sums(m) == {g \in [0..m -> Seq(S)] : SumsSlots(g, page, m)}
           T == {m \in 0..n : Sums(m) = {}}
<1>1. SUFFICES ASSUME T # {} PROVE FALSE
  <2>1. T = {} => Sums(n) # {}
    OBVIOUS
  <2> QED BY <1>1, <2>1
<1> HIDE DEF Sums
<1>2. PICK m \in T : \A y \in T : m <= y
  <2>1. T \subseteq Nat
    OBVIOUS
  <2> HIDE DEF T
  <2> QED BY <1>1, <2>1, LeastNatural
<1>3. CASE m = 0
  <2>1. [p \in 0..0 |-> <<>>] \in Sums(0)
    BY DEF Sums, SumsSlots
  <2> QED BY <1>2, <1>3, <2>1
<1>4. CASE m # 0
  <2>1. m - 1 \in 0..n /\ Sums(m - 1) # {} /\ m \in 1..n /\ m - 1 \in 0..m-1
    BY <1>2, <1>4
  <2>2. PICK g : g \in Sums(m - 1)
    BY <2>1
  <2> DEFINE k == [p \in 0..m |-> IF p = m THEN g[m-1] \o SlotsOf(page[m]) ELSE g[p]]
  <2>3. /\ g \in [0..m-1 -> Seq(S)]
        /\ \A p \in 0..m-1 : g[p] = IF p = 0 THEN <<>> ELSE g[p-1] \o SlotsOf(page[p])
    BY <2>2 DEF Sums, SumsSlots
  <2>4. g[m-1] \o SlotsOf(page[m]) \in Seq(S)
    BY <2>1, <2>3, ConcatProperties
  <2>5. k \in [0..m -> Seq(S)]
    BY <2>1, <2>3, <2>4
  <2>6. ASSUME NEW p \in 0..m
        PROVE  k[p] = IF p = 0 THEN <<>> ELSE k[p-1] \o SlotsOf(page[p])
    <3>1. CASE p = m
      <4>1. m - 1 \in 0..m /\ m \in 0..m /\ m - 1 # m
        BY <2>1
      <4>2. k[m - 1] = g[m - 1] /\ k[m] = g[m-1] \o SlotsOf(page[m])
        BY <4>1
      <4> HIDE DEF k
      <4> QED BY <1>4, <3>1, <4>2
    <3>2. CASE p # m
      <4>1. p \in 0..m-1 /\ (p # 0 => p - 1 \in 0..m /\ p - 1 # m)
        BY <2>1, <3>2
      <4>2. k[p] = g[p] /\ (p # 0 => k[p - 1] = g[p - 1])
        BY <3>2, <4>1
      <4> HIDE DEF k
      <4> QED BY <2>3, <4>1, <4>2
    <3> QED BY <3>1, <3>2
  <2> HIDE DEF k
  <2>7. SumsSlots(k, page, m)
    BY <2>5, <2>6 DEF SumsSlots
  <2>8. k \in Sums(m)
    BY <2>5, <2>7 DEF Sums
  <2> QED BY <1>2, <2>8
<1> QED BY <1>3, <1>4

\* The function SlotsUpTo is read from.
LEMMA SlotsUpToSum ==
  ASSUME NEW S, NEW page, NEW n \in Nat, \A p \in 1..n : SlotsOf(page[p]) \in Seq(S)
  PROVE  \E g : SumsSlots(g, page, n) /\ SlotsUpTo(page, n) = g[n]
<1> DEFINE f == CHOOSE f : f = [p \in 0..n |-> IF p = 0 THEN <<>> ELSE f[p-1] \o SlotsOf(page[p])]
<1>1. SlotsUpTo(page, n) = f[n]
  BY DEF SlotsUpTo
<1>2. f = CHOOSE g : SumsSlots(g, page, n)
  BY DEF SumsSlots
<1> HIDE DEF f
<1>3. SumsSlots(f, page, n)
  BY <1>2, SumExists
<1> QED BY <1>1, <1>3

LEMMA SumsStep ==
  ASSUME NEW page, NEW n \in Nat, NEW g, SumsSlots(g, page, n), NEW p \in 0..n
  PROVE  g[p] = IF p = 0 THEN <<>> ELSE g[p-1] \o SlotsOf(page[p])
<1> DEFINE e(q) == IF q = 0 THEN <<>> ELSE g[q-1] \o SlotsOf(page[q])
<1>1. g = [q \in 0..n |-> e(q)]
  BY DEF SumsSlots
<1> HIDE DEF e
<1>2. g[p] = e(p)
  BY <1>1
<1> QED BY <1>2 DEF e

SameSlots(page, page2, n) == \A p \in 1..n : SlotsOf(page[p]) = SlotsOf(page2[p])

\* Two sums agree as far as both go, if the pages they go over do.
LEMMA SumsAgree ==
  ASSUME NEW page, NEW page2, NEW n \in Nat, NEW m \in Nat, n <= m,
         SameSlots(page, page2, n), NEW g, SumsSlots(g, page, n), NEW k, SumsSlots(k, page2, m)
  PROVE  \A p \in 0..n : g[p] = k[p]
<1> DEFINE T == {p \in 0..n : g[p] # k[p]}
<1>1. SUFFICES ASSUME T # {} PROVE FALSE
  OBVIOUS
<1>2. PICK p \in T : \A q \in T : p <= q
  <2>1. T \subseteq Nat
    OBVIOUS
  <2> HIDE DEF T
  <2> QED BY <1>1, <2>1, LeastNatural
<1>3. /\ g[p] = IF p = 0 THEN <<>> ELSE g[p-1] \o SlotsOf(page[p])
      /\ k[p] = IF p = 0 THEN <<>> ELSE k[p-1] \o SlotsOf(page2[p])
  <2>1. p \in 0..n /\ p \in 0..m
    BY <1>2
  <2> QED BY <2>1, SumsStep
<1>4. p # 0 => p - 1 \in 0..n /\ p \in 1..n /\ p - 1 \notin T
  BY <1>2
<1>5. p # 0 => g[p-1] = k[p-1]
  BY <1>4
<1>6. g[p] = k[p]
  BY <1>3, <1>4, <1>5 DEF SameSlots
<1> QED BY <1>2, <1>6

\* The slots of pages 1 to n, by recursion on n.
LEMMA SlotsUpToStep ==
  ASSUME NEW S, NEW page, NEW n \in Nat, \A p \in 1..n : SlotsOf(page[p]) \in Seq(S)
  PROVE  /\ SlotsUpTo(page, n) \in Seq(S)
         /\ n = 0 => SlotsUpTo(page, n) = <<>>
         /\ n > 0 => SlotsUpTo(page, n) = SlotsUpTo(page, n - 1) \o SlotsOf(page[n])
<1>1. PICK g : SumsSlots(g, page, n) /\ SlotsUpTo(page, n) = g[n]
  BY SlotsUpToSum
<1>2. PICK t \in [0..n -> Seq(S)] : SumsSlots(t, page, n)
  BY SumExists
<1>3. \A p \in 0..n : g[p] = t[p]
  <2>1. n <= n /\ SameSlots(page, page, n)
    BY DEF SameSlots
  <2> QED BY <2>1, <1>1, <1>2, SumsAgree
<1>4. SlotsUpTo(page, n) \in Seq(S)
  BY <1>1, <1>2, <1>3
<1>5. g[n] = IF n = 0 THEN <<>> ELSE g[n-1] \o SlotsOf(page[n])
  <2>1. n \in 0..n
    OBVIOUS
  <2> QED BY <1>1, <2>1, SumsStep
<1>6. ASSUME n > 0 PROVE SlotsUpTo(page, n - 1) = g[n-1]
  <2>1. n - 1 \in Nat /\ n - 1 <= n /\ n - 1 \in 0..n-1 /\ \A p \in 1..n-1 : p \in 1..n
    BY <1>6
  <2>2. PICK k : SumsSlots(k, page, n - 1) /\ SlotsUpTo(page, n - 1) = k[n - 1]
    BY <2>1, SlotsUpToSum
  <2>3. SameSlots(page, page, n - 1)
    BY DEF SameSlots
  <2>4. k[n - 1] = g[n - 1]
    BY <1>1, <2>1, <2>2, <2>3, SumsAgree
  <2> QED BY <2>2, <2>4
<1> QED BY <1>1, <1>4, <1>5, <1>6

\* Pages with the same slots add up to the same.
LEMMA SlotsUpToSame ==
  ASSUME NEW S, NEW page, NEW page2, NEW n \in Nat,
         \A p \in 1..n : SlotsOf(page[p]) \in Seq(S), SameSlots(page, page2, n)
  PROVE  SlotsUpTo(page, n) = SlotsUpTo(page2, n)
<1>1. PICK g : SumsSlots(g, page, n) /\ SlotsUpTo(page, n) = g[n]
  BY SlotsUpToSum
<1>2. PICK k : SumsSlots(k, page2, n) /\ SlotsUpTo(page2, n) = k[n]
  <2>1. \A p \in 1..n : SlotsOf(page2[p]) \in Seq(S)
    BY DEF SameSlots
  <2> QED BY <2>1, SlotsUpToSum
<1>3. g[n] = k[n]
  <2>1. n <= n /\ n \in 0..n
    OBVIOUS
  <2> QED BY <1>1, <1>2, <2>1, SumsAgree
<1> QED BY <1>1, <1>2, <1>3
-----------------------------------------------------------------------------
\* The pool of an open table, with pins h.

Content == {Zero} \cup HeadImage \cup RecordImage

\* A record page: laid out well, and its last row not removed.
PageOK(c) == /\ c \in {Zero} \cup RecordImage
             /\ LayoutOK(SlotsOf(c))
             /\ SlotsOf(c) # <<>> => ~Last(SlotsOf(c)).deleted
PagesOK(s) == \A p \in PageIds \ {0} : PageOK(Latest(s, p)) /\ PageOK(s.disk[p])

Ready(s, h) ==
  /\ PoolOK(Content, s, h) /\ CleanOK(s, h, {})
  /\ HeadOK(s) /\ PagesOK(s)

\* A file that a table can be opened on.
FileOK(d) ==
  /\ d \in [PageIds -> Content] /\ ImageOK(d[0])
  /\ \A p \in PageIds \ {0} : PageOK(d[p])

LEMMA ContentFacts ==
  /\ Zero \in Content /\ HeadImage \subseteq Content /\ RecordImage \subseteq Content
  /\ 0 \in PageIds /\ NoFrame \notin Frames /\ PinMax \in Nat
  /\ SlotsOf(Zero) = <<>> /\ Zero \notin RecordImage
  BY PoolAssumption, ImageAssumption DEF Content, PageIds, NoFrame, Frames, SlotsOf

\* The slots of a page are a sequence.
LEMMA SlotsTyped ==
  ASSUME NEW c \in {Zero} \cup RecordImage
  PROVE  /\ SlotsOf(c) \in Slots(Rows)
         /\ c # Zero => SlotsOf(c) = c.slots /\ c = [slots |-> c.slots]
<1>1. CASE c = Zero
  BY <1>1 DEF SlotsOf, Slots
<1>2. CASE c # Zero
  BY <1>2 DEF SlotsOf, Slots, RecordImage
<1> QED BY <1>1, <1>2

\* A call that changes what no page reads.
LEMMA CarriedOver ==
  ASSUME NEW s, PagesOK(s), NEW r, ReadsSame(r, s),
         \A p \in PageIds : r.disk[p] \in {s.disk[p], Latest(s, p)}
  PROVE  PagesOK(r)
  BY DEF PagesOK, ReadsSame

\* The file gets nothing but what pages read.
OnDisk(r, s) == \A p \in PageIds : r.disk[p] \in {s.disk[p], Latest(s, p)}

\* A call readers of pages do not notice; those with pins keep their frames.
Quiet(r, s) == ReadsSame(r, s) /\ OnDisk(r, s) /\ r.head = s.head
Leaves(r, s, h) ==
  /\ \A p \in PageIds : h[p] > 0 => r.dir[p] = s.dir[p]
  /\ Quiet(r, s)

LEMMA FetchTable ==
  ASSUME NEW s, NEW h, Ready(s, h), NEW id \in s.head.bits,
         FetchOK(s, id), h[id] < PinMax
  PROVE  LET r == Fetch(s, id) IN
         /\ Ready(r, [h EXCEPT ![id] = @ + 1])
         /\ Leaves(r, s, h) /\ r.dir[id] # NoFrame
<1> DEFINE r == Fetch(s, id)
           W == {}
<1>1. PoolOK(Content, s, h) /\ CleanOK(s, h, W) /\ HeadOK(s) /\ PagesOK(s)
  BY DEF Ready
<1>2. id \in PageIds
  <2>1. s.head.bits = 0..s.next-1 /\ s.next \in 1..LastPid+1
    BY <1>1 DEF HeadOK
  <2> QED BY <2>1, PoolAssumption DEF PageIds
<1> HIDE DEF W
<1>3. Fetched(Content, r, s, h, W, id)
  BY <1>1, <1>2, ContentFacts, FetchFacts
<1> HIDE DEF r
<1>4. /\ Preserves(r, s, h, id) /\ Latest(r, id) = Latest(s, id)
      /\ r.dir[id] # NoFrame /\ r.head = s.head /\ r.next = s.next
      /\ PoolOK(Content, r, [h EXCEPT ![id] = @ + 1])
      /\ CleanOK(r, [h EXCEPT ![id] = @ + 1], W)
  BY <1>3 DEF Fetched
<1>5. ReadsSame(r, s) /\ \A p \in PageIds : r.disk[p] \in {s.disk[p], Latest(s, p)}
  BY <1>4 DEF Preserves, ReadsSame
<1>6. PagesOK(r)
  BY <1>1, <1>4, <1>5, CarriedOver
<1>7. HeadOK(r)
  BY <1>1, <1>2, <1>4, HeadKept
<1>8. Leaves(r, s, h)
  BY <1>4, <1>5 DEF Leaves, Quiet, OnDisk, Preserves
<1> QED BY <1>4, <1>6, <1>7, <1>8 DEF Ready, r, W

LEMMA UnpinTable ==
  ASSUME NEW s, NEW h, Ready(s, h), NEW id \in PageIds, h[id] > 0,
         NEW isDirty \in BOOLEAN
  PROVE  LET r == Unpin(s, id, isDirty) IN
         /\ Ready(r, [h EXCEPT ![id] = @ - 1])
         /\ Leaves(r, s, h) /\ r.dir = s.dir
<1> DEFINE r == Unpin(s, id, isDirty)
           W == {}
           k == [h EXCEPT ![id] = @ - 1]
<1>1. PoolOK(Content, s, h) /\ CleanOK(s, h, W) /\ HeadOK(s) /\ PagesOK(s)
  BY DEF Ready
<1>2. ReportsRest(W, W, h, id, isDirty)
  BY DEF ReportsRest
<1> HIDE DEF W
<1>3. Unpinned(Content, r, s, h, id, W)
  BY <1>1, <1>2, UnpinFacts
<1> HIDE DEF r
<1>4. /\ PoolOK(Content, r, k) /\ CleanOK(r, k, W) /\ ReadsSame(r, s)
      /\ r.dir = s.dir /\ r.disk = s.disk /\ r.head = s.head /\ r.next = s.next
  BY <1>3 DEF Unpinned
<1>5. PagesOK(r)
  BY <1>1, <1>4, CarriedOver
<1>6. HeadOK(r)
  BY <1>1, <1>4, ContentFacts DEF HeadOK, ReadsSame
<1>7. Leaves(r, s, h)
  BY <1>4 DEF Leaves, Quiet, OnDisk
<1> QED BY <1>4, <1>5, <1>6, <1>7 DEF Ready, r, W

\* new_page gives the next id a frame of zeros.
LEMMA NewPageTable ==
  ASSUME NEW s, NEW h, Ready(s, h), NewPageOK(s), PickedPid(s) <= LastPid
  PROVE  LET r == NewPage(s)
             p == PickedPid(s)
         IN  /\ p = s.next /\ p \in PageIds \ {0} /\ h[p] = 0
             /\ p \notin s.head.bits /\ Latest(s, p) = s.disk[p]
             /\ Ready(r, [h EXCEPT ![p] = 1])
             /\ \A q \in PageIds : h[q] > 0 => r.dir[q] = s.dir[q]
             /\ \A q \in PageIds : q # p => Latest(r, q) = Latest(s, q)
             /\ Latest(r, p) = Zero /\ r.dir[p] # NoFrame
             /\ r.head.bits = s.head.bits \cup {p} /\ r.next = s.next + 1
             /\ OnDisk(r, s)
<1> DEFINE r == NewPage(s)
           p == PickedPid(s)
           W == {}
<1>1. PoolOK(Content, s, h) /\ CleanOK(s, h, W) /\ HeadOK(s) /\ PagesOK(s)
  BY DEF Ready
<1>2. s \in PoolType(Content)
  BY <1>1 DEF PoolOK
<1>3. ~Reuses(s) /\ p = s.next /\ p \notin s.head.bits /\ AfterPick(s).next = s.next + 1
  BY <1>1, <1>2, NextIsPicked
<1>4. p \in PageIds \ {0}
  <2>1. s.next \in 1..LastPid+1
    BY <1>1 DEF HeadOK
  <2> QED BY <1>3, <2>1, PoolAssumption DEF PageIds
<1>5. s.dir[p] = NoFrame
  BY <1>1, <1>3, <1>4 DEF HeadOK
<1>6. h[p] = 0
  BY <1>1, <1>4, <1>5 DEF PoolOK, PinsAgree
<1> HIDE DEF W, p
<1>7. NewPageLeaves(Content, r, s, h, W)
  BY <1>1, <1>4, <1>5, ContentFacts, NewPageFacts DEF p
<1> HIDE DEF r
<1>8. /\ PoolOK(Content, r, [h EXCEPT ![p] = 1]) /\ CleanOK(r, [h EXCEPT ![p] = 1], W)
      /\ Preserves(r, s, h, p) /\ Latest(r, p) = Zero /\ r.disk[p] = s.disk[p]
      /\ r.dir[p] # NoFrame /\ r.head = Allocate(s.head, p) /\ r.next = AfterPick(s).next
  BY <1>7 DEF NewPageLeaves, p
<1>9. HeadOK(r)
  BY <1>1, <1>2, <1>3, <1>4, <1>8, NewPageHead
<1>10. r.head.bits = s.head.bits \cup {p}
  BY <1>8 DEF Allocate
<1>11. \A q \in PageIds : /\ h[q] > 0 => r.dir[q] = s.dir[q]
                          /\ q # p => Latest(r, q) = Latest(s, q)
                          /\ r.disk[q] \in {s.disk[q], Latest(s, q)}
  BY <1>8 DEF Preserves
<1>17. OnDisk(r, s)
  BY <1>11 DEF OnDisk
<1>12. PageOK(Zero)
  BY ContentFacts, RecordAssumption DEF PageOK, LayoutOK
<1>13. PagesOK(r)
  BY <1>1, <1>8, <1>11, <1>12 DEF PagesOK
<1>16. Latest(s, p) = s.disk[p]
  BY <1>5 DEF Latest
<1> QED BY <1>3, <1>4, <1>6, <1>8, <1>9, <1>10, <1>11, <1>13, <1>16, <1>17
    DEF Ready, r, p, W

\* A pinned page p gets contents v, and is unpinned as dirty.
WrittenBack(t, s, h, p, v) ==
  /\ Ready(t, [h EXCEPT ![p] = @ - 1])
  /\ t.dir = s.dir /\ t.head = s.head /\ t.next = s.next /\ t.disk = s.disk
  /\ Latest(t, p) = v
  /\ \A q \in PageIds : q # p => Latest(t, q) = Latest(s, q)

LEMMA WriteTable ==
  ASSUME NEW s, NEW h, Ready(s, h), NEW p \in PageIds \ {0}, h[p] > 0,
         NEW v, PageOK(v)
  PROVE  LET u == [s EXCEPT !.frames[s.dir[p]].data = v]
         IN  WrittenBack(Unpin(u, p, TRUE), s, h, p, v)
<1> DEFINE f == s.dir[p]
           u == [s EXCEPT !.frames[f].data = v]
           t == Unpin(u, p, TRUE)
           k == [h EXCEPT ![p] = @ - 1]
           W == {}
           V == {p}
<1>1. PoolOK(Content, s, h) /\ CleanOK(s, h, W) /\ HeadOK(s) /\ PagesOK(s)
  BY DEF Ready
<1>2. s.dir[p] # NoFrame
  BY <1>1 DEF PoolOK, PinsAgree
<1>3. f \in Frames /\ s.frames[f].dirty \in BOOLEAN
  BY <1>1, <1>2 DEF PoolOK, PoolType
<1>4. v \in Content
  BY DEF PageOK, Content
<1>5. Rewritten(Content, u, s, p, v, s.frames[f].dirty) /\ u.head = s.head /\ u.next = s.next
  <2>1. u = [s EXCEPT !.frames[f].data = v] /\ s.dir[p] = f /\ p \in PageIds
    OBVIOUS
  <2>2. PoolOK(Content, s, h) /\ f \in Frames /\ v \in Content
    BY <1>1, <1>3, <1>4
  <2> HIDE DEF u, f
  <2> QED BY ONLY <2>1, <2>2, PointerWrite
<1> DEFINE dirty == s.frames[f].dirty
<1>6. u.dir = s.dir /\ u.disk = s.disk
  BY <1>5 DEF Rewritten
<1> HIDE DEF u, W, dirty
<1>7. RewriteLeaves(Content, u, s, h, W, p, v, dirty)
  BY <1>1, <1>2, <1>3, <1>5, RewrittenOK DEF dirty
<1>8. PoolOK(Content, u, h) /\ CleanOK(u, h, V) /\ OnlyNow(u, s, p, v)
  BY <1>7 DEF RewriteLeaves, W
<1>9. ReportsRest(V, W, h, p, TRUE)
  BY DEF ReportsRest, W
<1>10. TRUE \in BOOLEAN
  OBVIOUS
<1> HIDE DEF V
<1>11. Unpinned(Content, t, u, h, p, W)
  BY <1>8, <1>9, <1>10, UnpinFacts
<1> HIDE DEF t
<1>12. /\ PoolOK(Content, t, k) /\ CleanOK(t, k, W) /\ ReadsSame(t, u)
       /\ t.dir = s.dir /\ t.disk = s.disk /\ t.head = s.head /\ t.next = s.next
  BY <1>5, <1>6, <1>11 DEF Unpinned
<1>13. Latest(t, p) = v /\ \A q \in PageIds : q # p => Latest(t, q) = Latest(s, q)
  BY <1>8, <1>12 DEF OnlyNow, ReadsSame
<1>14. HeadOK(t)
  BY <1>1, <1>12, <1>13, ContentFacts DEF HeadOK
<1>15. PagesOK(t)
  BY <1>1, <1>12, <1>13 DEF PagesOK
<1> QED BY <1>12, <1>13, <1>14, <1>15 DEF WrittenBack, Ready, u, t, W

LEMMA LastFacts ==
  ASSUME NEW Rec, NEW slots \in Slots(Rec), slots # <<>>
  PROVE  Len(slots) \in Nat \ {0} /\ Last(slots) = slots[Len(slots)]
  BY DEF Slots, Last

LEMMA SlotTyped ==
  ASSUME NEW Rec, NEW slots \in Slots(Rec), NEW i \in 1..Len(slots)
  PROVE  slots[i].rec \in Rec /\ slots[i].deleted \in BOOLEAN
<1> DEFINE S == [rec : Rec, start : Nat, deleted : BOOLEAN]
<1>1. slots \in Seq(S)
  BY DEF Slots
<1> HIDE DEF S
<1>2. slots[i] \in S
  BY <1>1
<1> QED BY <1>2 DEF S

\* The page as put leaves it, for a row of at most four words with room.
Grown(c, r) == [slots |-> AddRecord(SlotsOf(c), r, RowSize[r])]

LEMMA GrownOK ==
  ASSUME NEW c, PageOK(c), NEW r \in SmallRows, Enough(SlotsOf(c), RowSize[r])
  PROVE  LET v == Grown(c, r) IN
         /\ PageOK(v) /\ SlotsOf(v) # <<>>
         /\ \E x : SlotsOf(v) = Append(SlotsOf(c), x) /\ x.rec = r /\ ~x.deleted
<1> DEFINE a == SlotsOf(c)
           n == RowSize[r]
           x == [rec |-> r, start |-> RecordStart(a, n), deleted |-> FALSE]
           b == AddRecord(a, r, n)
           v == Grown(c, r)
<1>1. a \in Slots(Rows) /\ LayoutOK(a)
  BY SlotsTyped DEF PageOK
<1>2. r \in Rows /\ n \in Nat /\ n + 1 <= FreeEnd(a)
  <2>1. n \in Nat /\ n <= 4 * Word /\ Word \in Nat
    BY TableAssumption, RecordAssumption DEF SmallRows
  <2>2. FreeEnd(a) \in Nat /\ 4 * Word < FreeEnd(a)
    BY <1>1, RoomForFourWords
  <2> HIDE DEF a, n
  <2> QED BY <2>1, <2>2 DEF SmallRows
<1>3. b \in Slots(Rows) /\ LayoutOK(b)
  BY <1>1, <1>2, EnoughIsRight
<1>4. b = Append(a, x) /\ x.rec = r /\ ~x.deleted
  BY DEF AddRecord
<1> HIDE DEF a, n, x
<1>5. v \in RecordImage
  BY <1>3 DEF Grown, RecordImage, Slots, a, n
<1>6. SlotsOf(v) = b
  BY <1>5, ContentFacts DEF SlotsOf, Grown, a, n
<1> HIDE DEF v
<1>7. b # <<>> /\ Last(b) = x
  <2>1. Len(a) \in Nat /\ b # <<>> /\ Len(b) = Len(a) + 1 /\ b[Len(a) + 1] = x
    <3>1. x \in [rec : Rows, start : Nat, deleted : BOOLEAN]
      BY <1>1, <1>3, <1>4 DEF Slots
    <3> QED BY <1>1, <1>4, <3>1 DEF Slots
  <2> QED BY <2>1, <1>3, LastFacts
<1> QED BY <1>3, <1>4, <1>5, <1>6, <1>7 DEF PageOK, v, a

\* The row r is the last of page p in t.
EndsWith(t, s, p, r) ==
  \E x : /\ x.rec = r /\ ~x.deleted
         /\ SlotsOf(Latest(t, p)) = Append(SlotsOf(Latest(s, p)), x)

LEMMA AddTable ==
  ASSUME NEW s, NEW h, Ready(s, h), NEW p \in PageIds \ {0}, h[p] > 0, NEW r \in SmallRows, HasRoomFor(s, p, r)
  PROVE  LET t == AddToPage(s, p, r) IN
         /\ Ready(t, [h EXCEPT ![p] = @ - 1])
         /\ t.dir = s.dir /\ t.next = s.next /\ t.disk = s.disk
         /\ EndsWith(t, s, p, r)
         /\ \A q \in PageIds : q # p => Latest(t, q) = Latest(s, q)
<1> DEFINE c == Latest(s, p)
           v == Grown(c, r)
           t == AddToPage(s, p, r)
<1>1. s.dir[p] # NoFrame
  BY DEF Ready, PoolOK, PinsAgree
<1>2. c = s.frames[s.dir[p]].data
  BY <1>1 DEF Latest
<1>3. PageOK(c) /\ Enough(SlotsOf(c), RowSize[r])
  BY <1>2 DEF Ready, PagesOK, HasRoomFor, PageSlots
<1>4. s \in PoolType(Content) /\ s.dir[p] \in Frames
  BY <1>1 DEF Ready, PoolOK, PoolType
<1>5. PutRow(s, p, r) = [s EXCEPT !.frames[s.dir[p]].data = v]
  BY <1>2, <1>4 DEF PutRow, Grown, PoolType
<1> HIDE DEF c, v
<1>6. /\ PageOK(v) /\ SlotsOf(v) # <<>>
      /\ \E x : SlotsOf(v) = Append(SlotsOf(c), x) /\ x.rec = r /\ ~x.deleted
  BY <1>3, GrownOK DEF v
<1>7. WrittenBack(t, s, h, p, v)
  BY <1>5, <1>6, WriteTable DEF AddToPage
<1> HIDE DEF t
<1> QED BY <1>6, <1>7 DEF WrittenBack, EndsWith, c, t

\* insert puts the row at the end of the last page, or in a page of its own.
Inserted(t, s, r) ==
  \E p \in PageIds \ {0} :
    /\ t.next = p + 1 /\ p \in {s.next - 1, s.next}
    /\ p = s.next => SlotsOf(Latest(t, p)) # <<>> /\ Len(SlotsOf(Latest(t, p))) = 1
    /\ \E x : /\ x.rec = r /\ ~x.deleted
              /\ SlotsOf(Latest(t, p)) =
                   Append(IF p = s.next THEN <<>> ELSE SlotsOf(Latest(s, p)), x)
    /\ \A q \in PageIds : q # p => Latest(t, q) = Latest(s, q)

\* A pin taken and given back.
LEMMA PinsBack ==
  ASSUME NEW h \in [PageIds -> 0..PinMax], NEW p \in PageIds, NEW n \in Nat, n = h[p] + 1
  PROVE  [[h EXCEPT ![p] = n] EXCEPT ![p] = @ - 1] = h
<1> DEFINE k == [h EXCEPT ![p] = n]
           j == [k EXCEPT ![p] = @ - 1]
<1>1. h[p] \in Nat /\ n - 1 = h[p] /\ k[p] = n
  BY PoolAssumption
<1>2. DOMAIN h = PageIds /\ DOMAIN j = PageIds
  OBVIOUS
<1>3. \A q \in PageIds : j[q] = h[q]
  BY <1>1
<1> HIDE DEF j
<1> QED BY <1>2, <1>3 DEF j

\* The second page, or the first of an empty file.
LEMMA InsertNewTable ==
  ASSUME NEW s, NEW h, Ready(s, h), NewPageOK(s), PickedPid(s) <= LastPid,
         NEW r \in SmallRows
  PROVE  LET p == PickedPid(s)
             t == AddToPage(NewPage(s), p, r)
         IN  /\ HasRoomFor(NewPage(s), p, r)
             /\ Ready(t, h) /\ Inserted(t, s, r) /\ OnDisk(t, s)
             /\ \A q \in PageIds : h[q] > 0 => t.dir[q] = s.dir[q]
<1> DEFINE p == PickedPid(s)
           u == NewPage(s)
           t == AddToPage(u, p, r)
           k == [h EXCEPT ![p] = 1]
<1>1. /\ p = s.next /\ p \in PageIds \ {0} /\ h[p] = 0
      /\ Ready(u, k)
      /\ \A q \in PageIds : h[q] > 0 => u.dir[q] = s.dir[q]
      /\ \A q \in PageIds : q # p => Latest(u, q) = Latest(s, q)
      /\ Latest(u, p) = Zero /\ u.dir[p] # NoFrame
      /\ u.head.bits = s.head.bits \cup {p} /\ u.next = s.next + 1
      /\ OnDisk(u, s)
  BY NewPageTable
<1>2. h \in [PageIds -> 0..PinMax] /\ s.next \in Nat
  BY DEF Ready, PoolOK, PinsAgree, PoolType
<1> HIDE DEF u, p
<1>3. HasRoomFor(u, p, r)
  BY <1>1, ContentFacts, SmallRowsAssumption DEF HasRoomFor, PageSlots, Latest
<1>4. k[p] > 0
  BY <1>1, <1>2
<1> DEFINE j == [k EXCEPT ![p] = @ - 1]
<1>5. j = h
  BY <1>1, <1>2, PinsBack
<1> HIDE DEF k
<1>6. /\ Ready(t, j) /\ t.dir = u.dir /\ t.next = u.next /\ t.disk = u.disk
      /\ EndsWith(t, u, p, r)
      /\ \A q \in PageIds : q # p => Latest(t, q) = Latest(u, q)
  BY <1>1, <1>3, <1>4, AddTable
<1> HIDE DEF t, j
<1>7. Inserted(t, s, r)
  <2>1. PICK x : /\ x.rec = r /\ ~x.deleted
                 /\ SlotsOf(Latest(t, p)) = Append(<<>>, x)
    BY <1>1, <1>6, ContentFacts DEF EndsWith
  <2>2. SlotsOf(Latest(t, p)) # <<>> /\ Len(SlotsOf(Latest(t, p))) = 1
    BY <2>1
  <2>3. p \in PageIds \ {0} /\ p = s.next /\ t.next = p + 1
        /\ \A q \in PageIds : q # p => Latest(t, q) = Latest(s, q)
    BY <1>1, <1>2, <1>6
  <2>4. p \in {s.next - 1, s.next}
    BY <2>3
  <2>5. \E y : /\ y.rec = r /\ ~y.deleted
              /\ SlotsOf(Latest(t, p)) =
                   Append(IF p = s.next THEN <<>> ELSE SlotsOf(Latest(s, p)), y)
    BY <2>1, <2>3
  <2> QED BY ONLY <2>2, <2>3, <2>4, <2>5 DEF Inserted
<1>8. OnDisk(t, s)
  BY <1>1, <1>6 DEF OnDisk
<1> QED BY <1>1, <1>3, <1>5, <1>6, <1>7, <1>8 DEF t, p, u

LEMMA InsertTable ==
  ASSUME NEW s, NEW h, Ready(s, h), NEW r \in SmallRows, InsertOK(s, r),
         \A p \in PageIds : h[p] < PinMax
  PROVE  LET t == InsertRow(s, r) IN
         /\ Ready(t, h) /\ Inserted(t, s, r) /\ OnDisk(t, s)
         /\ \A q \in PageIds : h[q] > 0 => t.dir[q] = s.dir[q]
<1>0. /\ s.next \in 1..LastPid+1 /\ s.head.bits = 0..s.next-1 /\ s.next \in Nat
      /\ h \in [PageIds -> 0..PinMax]
  BY DEF Ready, HeadOK, PoolOK, PoolType, PinsAgree
<1>1. CASE CurrentPid(s) = 0
  <2>1. NewPageOK(s) /\ PickedPid(s) <= LastPid
    BY <1>1 DEF InsertOK, LastPageOK, LastPage
  <2>2. HasRoomFor(NewPage(s), PickedPid(s), r)
    BY <2>1, InsertNewTable
  <2>3. InsertRow(s, r) = AddToPage(NewPage(s), PickedPid(s), r)
    BY <1>1, <2>2 DEF InsertRow, LastPage, OpenLastPage
  <2> QED BY <2>1, <2>3, InsertNewTable
<1>2. CASE CurrentPid(s) # 0
  <2> DEFINE p == CurrentPid(s)
             u == Fetch(s, p)
             k == [h EXCEPT ![p] = h[p] + 1]
             v == Unpin(u, p, FALSE)
             j == [k EXCEPT ![p] = @ - 1]
  <2>1. /\ LastPage(s) = p /\ OpenLastPage(s) = u /\ FetchOK(s, p)
        /\ ~HasRoomFor(u, p, r) => NewPageOK(v) /\ PickedPid(v) <= LastPid
    BY <1>2 DEF InsertOK, LastPageOK, LastPage, OpenLastPage
  <2>2. p = s.next - 1 /\ p \in PageIds \ {0} /\ p \in s.head.bits
    BY <1>0, <1>2, PoolAssumption DEF CurrentPid, PageIds
  <2>3. h[p] < PinMax /\ h[p] \in Nat
    BY <1>0, <2>2
  <2>4. k[p] > 0 /\ j = h /\ k[p] \in Nat /\ h[p] + 1 \in Nat
    BY <1>0, <2>2, <2>3, PinsBack
  <2> HIDE DEF p, u, k
  <2>5. Ready(u, k) /\ Leaves(u, s, h) /\ u.dir[p] # NoFrame
    BY <2>1, <2>2, <2>3, FetchTable DEF u, k
  <2>6. ASSUME NEW q \in PageIds
        PROVE  /\ Latest(u, q) = Latest(s, q) /\ u.head = s.head
               /\ h[q] > 0 => u.dir[q] = s.dir[q]
               /\ h[q] > 0 => k[q] > 0
               /\ u.disk[q] \in {s.disk[q], Latest(s, q)}
    BY <1>0, <2>2, <2>3, <2>5 DEF Leaves, Quiet, ReadsSame, OnDisk, k
  <2>8. u.next = s.next
    BY <2>5, <2>2, <2>6 DEF Ready, HeadOK
  <2>9. CASE HasRoomFor(u, p, r)
    <3> DEFINE t == AddToPage(u, p, r)
    <3>1. InsertRow(s, r) = t
      BY <2>1, <2>9 DEF InsertRow
    <3>2. p \in PageIds \ {0} /\ k[p] > 0 /\ Ready(u, k)
      BY <2>2, <2>4, <2>5
    <3>3. /\ Ready(t, j) /\ t.dir = u.dir /\ t.next = u.next /\ t.disk = u.disk
          /\ EndsWith(t, u, p, r)
          /\ \A q \in PageIds : q # p => Latest(t, q) = Latest(u, q)
      BY <2>9, <3>2, AddTable
    <3> HIDE DEF t, j
    <3>4. Inserted(t, s, r)
      <4>1. p # s.next /\ t.next = p + 1
        BY <1>0, <2>2, <2>8, <3>3
      <4>2. PICK x : /\ x.rec = r /\ ~x.deleted
                     /\ SlotsOf(Latest(t, p)) = Append(SlotsOf(Latest(s, p)), x)
        BY <2>2, <2>6, <3>3 DEF EndsWith
      <4> QED BY <2>2, <2>6, <3>3, <4>1, <4>2 DEF Inserted
    <3>5. OnDisk(t, s)
      BY <2>6, <3>3 DEF OnDisk
    <3> QED BY <2>4, <2>6, <3>1, <3>3, <3>4, <3>5
  <2>10. CASE ~HasRoomFor(u, p, r)
    <3> DEFINE t == AddToPage(NewPage(v), PickedPid(v), r)
    <3>1. NewPageOK(v) /\ PickedPid(v) <= LastPid
      BY <2>1, <2>10
    <3>2. Ready(v, j) /\ Leaves(v, u, k) /\ v.dir = u.dir
      BY <2>2, <2>4, <2>5, UnpinTable
    <3>3. InsertRow(s, r) = InsertInNewPage(v, r)
      BY <2>1, <2>10 DEF InsertRow
    <3> HIDE DEF v, j
    <3>4. /\ HasRoomFor(NewPage(v), PickedPid(v), r)
          /\ Ready(t, j) /\ Inserted(t, v, r) /\ OnDisk(t, v)
          /\ \A q \in PageIds : j[q] > 0 => t.dir[q] = v.dir[q]
      BY <3>1, <3>2, InsertNewTable
    <3>5. InsertRow(s, r) = t
      BY <3>1, <3>3, <3>4 DEF InsertInNewPage
    <3> HIDE DEF t
    <3>6. ASSUME NEW q \in PageIds PROVE Latest(v, q) = Latest(s, q)
      BY <2>6, <3>2 DEF Leaves, Quiet, ReadsSame
    <3>7. v.next = s.next
      BY <2>2, <2>6, <3>2 DEF Ready, HeadOK, Leaves, Quiet
    <3>8. Inserted(t, s, r)
      BY <3>4, <3>6, <3>7 DEF Inserted
    <3>9. OnDisk(t, s)
      BY <2>6, <3>2, <3>4, <3>6 DEF Leaves, Quiet, OnDisk
    <3> QED BY <2>4, <2>6, <3>2, <3>4, <3>5, <3>8, <3>9
  <2> QED BY <2>9, <2>10
<1> QED BY <1>1, <1>2

\* Removing marks a slot and leaves the rows where they are.
Marked(c, k) == [slots |-> MarkDeleted(SlotsOf(c), k)]
OneGone(b, a, k) ==
  /\ Len(b) = Len(a)
  /\ \A i \in 1..Len(a) : /\ b[i].rec = a[i].rec
                          /\ b[i].deleted = IF i = k + 1 THEN TRUE ELSE a[i].deleted

LEMMA MarkedOK ==
  ASSUME NEW c, PageOK(c), NEW k \in Nat, k + 1 < Len(SlotsOf(c))
  PROVE  LET v == Marked(c, k) IN
         /\ c # Zero /\ SlotsOf(c) = c.slots /\ c = [slots |-> c.slots]
         /\ PageOK(v) /\ SlotsOf(v) # <<>>
         /\ OneGone(SlotsOf(v), SlotsOf(c), k)
<1> DEFINE a == SlotsOf(c)
           b == MarkDeleted(a, k)
           v == Marked(c, k)
           S == [rec : Rows, start : Nat, deleted : BOOLEAN]
<1> HIDE DEF S
<1>1. /\ a \in Seq(S) /\ a \in Slots(Rows) /\ LayoutOK(a)
      /\ c # Zero => a = c.slots /\ c = [slots |-> c.slots]
  BY SlotsTyped DEF PageOK, Slots, S
<1>2. c # Zero
  BY ContentFacts DEF Slots
<1>3. b = [a EXCEPT ![k + 1].deleted = TRUE] /\ Len(a) \in Nat
  BY <1>1 DEF MarkDeleted
<1> HIDE DEF a
<1>4. k + 1 \in 1..Len(a) /\ k + 1 # Len(a)
  BY <1>3 DEF a
<1> DEFINE x == [a[k + 1] EXCEPT !.deleted = TRUE]
<1>5. /\ x \in S /\ x.rec = a[k+1].rec /\ x.start = a[k+1].start /\ x.deleted = TRUE
  <2>1. a[k + 1] \in S
    BY <1>1, <1>4
  <2> QED BY <2>1 DEF S
<1>6. b = [a EXCEPT ![k + 1] = x]
  BY <1>3
<1> HIDE DEF b, x
<1>7. /\ b \in Seq(S) /\ Len(b) = Len(a) /\ b[k + 1] = x
      /\ \A i \in 1..Len(a) : i # k + 1 => b[i] = a[i]
  BY <1>1, <1>4, <1>5, <1>6
<1>8. b \in Slots(Rows)
  BY <1>7 DEF S, Slots
<1>9. \A i \in 1..Len(a) : b[i].start = a[i].start /\ b[i].rec = a[i].rec
  BY <1>5, <1>7
<1>10. a # <<>> /\ b # <<>>
  BY <1>1, <1>4, <1>7
<1>11. /\ Last(a) = a[Len(a)] /\ Last(b) = b[Len(a)] /\ Last(b) = Last(a)
  <2>1. Last(a) = a[Len(a)]
    BY <1>1, <1>10, LastFacts
  <2>2. Last(b) = b[Len(b)]
    BY <1>8, <1>10, LastFacts
  <2>3. Len(a) \in 1..Len(a)
    BY <1>3, <1>4
  <2> QED BY <1>4, <1>7, <2>1, <2>2, <2>3
<1>12. LayoutOK(b)
  <2>1. FreeEnd(b) = FreeEnd(a)
    BY <1>10, <1>11 DEF FreeEnd
  <2>2. ASSUME NEW i \in 1..Len(a) PROVE SlotEnd(b, i) = SlotEnd(a, i)
    <3>1. i # 1 => i - 1 \in 1..Len(a)
      BY <1>3
    <3> QED BY <1>9, <3>1 DEF SlotEnd
  <2> QED BY <1>1, <1>7, <1>9, <1>10, <2>1, <2>2 DEF LayoutOK
<1>13. v \in RecordImage
  BY <1>7 DEF Marked, RecordImage, S, a, b
<1>14. SlotsOf(v) = b
  BY <1>13, ContentFacts DEF SlotsOf, Marked, a, b
<1>15. ~Last(b).deleted
  BY <1>10, <1>11 DEF PageOK, a
<1>16. OneGone(b, a, k)
  BY <1>5, <1>7, <1>9 DEF OneGone
<1> HIDE DEF v
<1>17. PageOK(v)
  BY <1>12, <1>13, <1>14, <1>15 DEF PageOK
<1> QED BY <1>1, <1>2, <1>10, <1>14, <1>16, <1>17 DEF v, a

\* remove(rid) of a slot that is not the last of its page.
RemovedRow(s, p, k) ==
  LET t == Fetch(s, p)
      marked == IF k < Len(PageSlots(t, p))
                THEN [t EXCEPT !.frames[t.dir[p]].data.slots = MarkDeleted(@, k)] ELSE t
  IN  Unpin(marked, p, TRUE)

LEMMA RemoveTable ==
  ASSUME NEW s, NEW h, Ready(s, h), NEW p \in PageIds \ {0}, HasPage(s, p),
         FetchOK(s, p), h[p] < PinMax,
         NEW k \in Nat, k + 1 < Len(SlotsOf(Latest(s, p)))
  PROVE  LET r == RemovedRow(s, p, k) IN
         /\ Ready(r, h) /\ r.next = s.next /\ OnDisk(r, s)
         /\ \A q \in PageIds : h[q] > 0 => r.dir[q] = s.dir[q]
         /\ OneGone(SlotsOf(Latest(r, p)), SlotsOf(Latest(s, p)), k)
         /\ \A q \in PageIds : q # p => Latest(r, q) = Latest(s, q)
<1> DEFINE u == Fetch(s, p)
           c == Latest(u, p)
           v == Marked(c, k)
           j == [h EXCEPT ![p] = h[p] + 1]
           w == [u EXCEPT !.frames[u.dir[p]].data = v]
           r == Unpin(w, p, TRUE)
           i == [j EXCEPT ![p] = @ - 1]
<1>1. p \in s.head.bits /\ h \in [PageIds -> 0..PinMax] /\ h[p] \in Nat
  BY DEF HasPage, Ready, PoolOK, PinsAgree
<1>2. j[p] > 0 /\ i = h
  BY <1>1, PinsBack
<1> HIDE DEF u, j
<1>3. Ready(u, j) /\ Leaves(u, s, h) /\ u.dir[p] # NoFrame
  BY <1>1, FetchTable DEF u, j
<1>4. /\ \A q \in PageIds : Latest(u, q) = Latest(s, q)
      /\ \A q \in PageIds : h[q] > 0 => u.dir[q] = s.dir[q]
      /\ p \in u.head.bits /\ OnDisk(u, s)
  BY <1>1, <1>3 DEF Leaves, Quiet, ReadsSame
<1>5. u.next = s.next
  BY <1>1, <1>3 DEF Ready, HeadOK, Leaves, Quiet
<1>6. PageOK(c) /\ c = u.frames[u.dir[p]].data
  BY <1>3 DEF Ready, PagesOK, Latest
<1>7. u \in PoolType(Content) /\ u.dir[p] \in Frames
  BY <1>3 DEF Ready, PoolOK, PoolType
<1>8. k + 1 < Len(SlotsOf(c)) /\ k < Len(PageSlots(u, p))
  <2>1. SlotsOf(c) \in Slots(Rows)
    BY <1>6, SlotsTyped DEF PageOK
  <2> QED BY <1>4, <1>6, <2>1 DEF PageSlots, Slots
<1>9. /\ c # Zero /\ SlotsOf(c) = c.slots /\ c = [slots |-> c.slots]
      /\ PageOK(v) /\ SlotsOf(v) # <<>> /\ OneGone(SlotsOf(v), SlotsOf(c), k)
  BY <1>6, <1>8, MarkedOK
<1>10. [u EXCEPT !.frames[u.dir[p]].data.slots = MarkDeleted(@, k)] = w
  <2> DEFINE m == MarkDeleted(c.slots, k)
  <2>1. v = [slots |-> m] /\ [c EXCEPT !.slots = m] = v
    BY <1>9 DEF Marked
  <2> HIDE DEF m, c, v
  <2>2. /\ [u EXCEPT !.frames[u.dir[p]].data.slots = MarkDeleted(@, k)] =
           [u EXCEPT !.frames[u.dir[p]].data = [c EXCEPT !.slots = m]]
    BY <1>6, <1>7 DEF m
  <2> QED BY <2>1, <2>2
<1>11. RemovedRow(s, p, k) = r
  BY <1>8, <1>10 DEF RemovedRow, u
<1> HIDE DEF v, c
<1>13. WrittenBack(r, u, j, p, v)
  BY <1>2, <1>3, <1>9, WriteTable
<1> HIDE DEF r
<1>14. /\ Ready(r, i) /\ r.dir = u.dir /\ r.next = u.next /\ Latest(r, p) = v
       /\ r.disk = u.disk
       /\ \A q \in PageIds : q # p => Latest(r, q) = Latest(u, q)
  BY <1>13 DEF WrittenBack
<1>15. OneGone(SlotsOf(Latest(r, p)), SlotsOf(Latest(s, p)), k)
  BY <1>4, <1>9, <1>14 DEF c
<1>16. OnDisk(r, s)
  BY <1>4, <1>14 DEF OnDisk
<1> QED BY <1>2, <1>4, <1>5, <1>11, <1>14, <1>15, <1>16
-----------------------------------------------------------------------------
\* Files that are opened and closed.

NoPins == [p \in PageIds |-> 0]

LEMMA BitsArePages ==
  ASSUME NEW s, HeadOK(s)
  PROVE  s.head.bits \subseteq PageIds
<1>1. s.head.bits = 0..s.next-1 /\ s.next \in 1..LastPid+1
  BY DEF HeadOK
<1> QED BY <1>1, PoolAssumption DEF PageIds

LEMMA OpenedTable ==
  ASSUME NEW d, FileOK(d)
  PROVE  LET r == OpenPool(d) IN
         /\ Ready(r, NoPins) /\ FileOpened(r, d)
<1> DEFINE r == OpenPool(d)
           W == {}
<1>1. d \in [PageIds -> Content] /\ ImageOK(d[0])
  BY DEF FileOK
<1>2. /\ PoolOK(Content, r, NoPins) /\ CleanOK(r, NoPins, W) /\ HeadOK(r)
      /\ FileOpened(r, d)
  BY <1>1, ContentFacts, OpenFacts DEF NoPins
<1> HIDE DEF r
<1>3. PagesOK(r)
  BY <1>2 DEF FileOpened, PagesOK, FileOK
<1> QED BY <1>2, <1>3 DEF Ready, r, W

\* The file a killed process leaves.
LEMMA CrashedFile ==
  ASSUME NEW s, NEW h, Ready(s, h)
  PROVE  FileOK(s.disk)
<1>1. s.disk \in [PageIds -> Content]
  BY DEF Ready, PoolOK, PoolType
<1> QED BY <1>1 DEF Ready, HeadOK, PagesOK, FileOK

\* The file close leaves has every page as it was last read.
LEMMA ClosedFile ==
  ASSUME NEW s, NEW h, Ready(s, h), CloseOK(s), h[0] < PinMax
  PROVE  LET d == Close(s).disk IN
         /\ FileOK(d) /\ ImageBits(d[0]) = s.head.bits
         /\ \A p \in PageIds : p # 0 => d[p] = Latest(s, p)
<1> DEFINE u == SaveHead(s)
           P == DirtyPids(u)
           t == FlushPids(u, P)
           d == t.disk
           W == {}
<1>1. Close(s) = t /\ FetchOK(s, 0)
  BY DEF CloseOK, Close, FlushAll
<1>2. PoolOK(Content, s, h) /\ CleanOK(s, h, W) /\ HeadOK(s)
  BY DEF Ready
<1> HIDE DEF W
<1>3. /\ PoolOK(Content, u, h) /\ CleanOK(u, h, W)
      /\ ImageOK(Latest(u, 0)) /\ HeadSaved(u, s)
  BY <1>1, <1>2, ContentFacts, SaveHeadFacts
<1> HIDE DEF u
<1>4. P \in SUBSET DirtyPids(u)
  OBVIOUS
<1>5. \A p \in PageIds : d[p] = IF p \in P THEN u.frames[u.dir[p]].data ELSE u.disk[p]
  <2>1. u \in PoolType(Content)
    BY <1>3 DEF PoolOK
  <2> QED BY <2>1 DEF FlushPids, PoolType
<1>6. \A p \in PageIds : d[p] = Latest(u, p)
  <2>1. SUFFICES ASSUME NEW p \in PageIds PROVE d[p] = Latest(u, p)
    OBVIOUS
  <2> QED BY <1>3, <1>5 DEF DirtyPids, CleanOK, Latest, W
<1> HIDE DEF P
<1>7. d \in [PageIds -> Content]
  BY <1>3, <1>4, FlushPidsOK DEF SameFrames, PoolType
<1> HIDE DEF d
<1>8. ImageBits(d[0]) = s.head.bits /\ ImageOK(d[0])
  BY <1>3, <1>6, ContentFacts DEF HeadSaved
<1>9. \A p \in PageIds : p # 0 => d[p] = Latest(s, p)
  BY <1>3, <1>6 DEF HeadSaved
<1>10. FileOK(d)
  <2>1. \A p \in PageIds \ {0} : PageOK(d[p])
    BY <1>9 DEF Ready, PagesOK
  <2> QED BY <1>7, <1>8, <2>1 DEF FileOK
<1> QED BY <1>1, <1>8, <1>9, <1>10 DEF d

\* The file a close leaves that is killed after it wrote the pages P has some
\* pages as they were last read and the others as they were.
LEMMA TornFile ==
  ASSUME NEW s, NEW h, Ready(s, h), CloseOK(s), h[0] < PinMax,
         NEW P \in SUBSET DirtyPids(SaveHead(s))
  PROVE  LET d == FlushPids(SaveHead(s), P).disk IN
         /\ FileOK(d)
         /\ d[0] \in {s.disk[0], Latest(s, 0)} \/ ImageBits(d[0]) = s.head.bits
         /\ \A p \in PageIds : p # 0 => d[p] \in {s.disk[p], Latest(s, p)}
<1> DEFINE u == SaveHead(s)
           t == FlushPids(u, P)
           d == t.disk
           W == {}
<1>1. FetchOK(s, 0)
  BY DEF CloseOK
<1>2. PoolOK(Content, s, h) /\ CleanOK(s, h, W) /\ HeadOK(s)
  BY DEF Ready
<1> HIDE DEF W
<1>3. /\ PoolOK(Content, u, h) /\ CleanOK(u, h, W)
      /\ ImageOK(Latest(u, 0)) /\ ImageOK(u.disk[0]) /\ HeadSaved(u, s)
  BY <1>1, <1>2, ContentFacts, SaveHeadFacts
<1>4. P \in SUBSET DirtyPids(u)
  OBVIOUS
<1> HIDE DEF u
<1>5. \A p \in PageIds : d[p] = IF p \in P THEN u.frames[u.dir[p]].data ELSE u.disk[p]
  <2>1. u \in PoolType(Content)
    BY <1>3 DEF PoolOK
  <2> QED BY <2>1 DEF FlushPids, PoolType
<1>6. \A p \in PageIds : d[p] \in {u.disk[p], Latest(u, p)}
  <2>1. SUFFICES ASSUME NEW p \in PageIds PROVE d[p] \in {u.disk[p], Latest(u, p)}
    OBVIOUS
  <2>2. CASE p \in P
    BY <1>4, <1>5, <2>2 DEF DirtyPids, Latest
  <2>3. CASE p \notin P
    BY <1>5, <2>3
  <2> QED BY <2>2, <2>3
<1>7. d \in [PageIds -> Content]
  BY <1>3, <1>4, FlushPidsOK DEF SameFrames, PoolType
<1> HIDE DEF d
<1>9. /\ d[0] \in {s.disk[0], Latest(s, 0)} \/ ImageBits(d[0]) = s.head.bits
      /\ ImageOK(d[0])
  BY <1>3, <1>6, ContentFacts DEF HeadSaved
<1>10. \A p \in PageIds : p # 0 => d[p] \in {s.disk[p], Latest(s, p)}
  BY <1>3, <1>6 DEF HeadSaved
<1>11. FileOK(d)
  BY <1>7, <1>9, <1>10 DEF Ready, PagesOK, FileOK
<1> HIDE DEF W
<1> QED BY <1>9, <1>10, <1>11 DEF d, t, u
-----------------------------------------------------------------------------
\* Scanners and their pins.

ReadersOf(sc, p) == {c \in Scanners : HoldsPage(sc[c]) /\ sc[c].pid = p}
Pins(sc) == [p \in PageIds |-> Cardinality(ReadersOf(sc, p))]

\* The slots a scanner's copy of the index has are in the page, the last of
\* them not removed: next() stops at none before that page ends.
CopyOK(x, slots) ==
  x.count \in 0..Len(slots) /\ (x.count # 0 => ~slots[x.count].deleted)

\* A scanner that holds a page is on its frame, and only on the first page, or
\* once it has stopped at it, may the copy be empty.
ScanOK(s, x) ==
  HoldsPage(x) => /\ x.pid \in PageIds \ {0} /\ x.frame = s.dir[x.pid]
                  /\ CopyOK(x, SlotsOf(Latest(s, x.pid)))
                  /\ x.pid > 1 /\ ~x.ended => x.count # 0

ScanTyped(sc) == sc \in [Scanners -> Scan \cup {NoScan}]

LEMMA ScannersFinite ==
  /\ IsFiniteSet(Scanners) /\ Cardinality(Scanners) \in Nat
  /\ Cardinality(Scanners) < PinMax
<1>1. IsFiniteSet(Scanners) /\ Cardinality(Scanners) < PinMax
  BY TableAssumption
<1> QED BY <1>1, FS_CardinalityType

LEMMA PinsBounded ==
  ASSUME NEW sc
  PROVE  \A p \in PageIds : /\ IsFiniteSet(ReadersOf(sc, p))
                            /\ Pins(sc)[p] = Cardinality(ReadersOf(sc, p))
                            /\ Pins(sc)[p] \in 0..PinMax /\ Pins(sc)[p] < PinMax
                            /\ Pins(sc)[p] > 0 <=> ReadersOf(sc, p) # {}
<1>1. SUFFICES ASSUME NEW p \in PageIds
               PROVE  /\ IsFiniteSet(ReadersOf(sc, p))
                      /\ Cardinality(ReadersOf(sc, p)) \in 0..PinMax
                      /\ Cardinality(ReadersOf(sc, p)) < PinMax
                      /\ Cardinality(ReadersOf(sc, p)) > 0 <=> ReadersOf(sc, p) # {}
  BY DEF Pins
<1>2. ReadersOf(sc, p) \subseteq Scanners
  BY DEF ReadersOf
<1>3. /\ IsFiniteSet(ReadersOf(sc, p))
      /\ Cardinality(ReadersOf(sc, p)) <= Cardinality(Scanners)
  BY <1>2, ScannersFinite, FS_Subset
<1>4. Cardinality(ReadersOf(sc, p)) \in Nat
  BY <1>3, FS_CardinalityType
<1>5. Cardinality(ReadersOf(sc, p)) = 0 <=> ReadersOf(sc, p) = {}
  BY <1>3, FS_EmptySet
<1> QED BY <1>3, <1>4, <1>5, ScannersFinite, ContentFacts

\* sd is sc but for scanner c.
OnlyAt(sd, sc, c) == \A b \in Scanners : b # c => sd[b] = sc[b]

LEMMA PinsKept ==
  ASSUME NEW sc, NEW sd, NEW c \in Scanners, OnlyAt(sd, sc, c),
         HoldsPage(sc[c]) <=> HoldsPage(sd[c]), HoldsPage(sc[c]) => sd[c].pid = sc[c].pid
  PROVE  Pins(sd) = Pins(sc)
<1>1. ASSUME NEW p PROVE ReadersOf(sd, p) = ReadersOf(sc, p)
  BY DEF ReadersOf, OnlyAt
<1> QED BY <1>1 DEF Pins

LEMMA PinsTaken ==
  ASSUME NEW sc, NEW sd, NEW c \in Scanners, OnlyAt(sd, sc, c),
         ~HoldsPage(sc[c]), HoldsPage(sd[c]), NEW p \in PageIds, sd[c].pid = p
  PROVE  Pins(sd) = [Pins(sc) EXCEPT ![p] = @ + 1]
<1>1. ASSUME NEW q
      PROVE  ReadersOf(sd, q) = IF q = p THEN ReadersOf(sc, p) \cup {c} ELSE ReadersOf(sc, q)
  BY DEF ReadersOf, OnlyAt
<1>2. c \notin ReadersOf(sc, p) /\ IsFiniteSet(ReadersOf(sc, p))
  BY PinsBounded DEF ReadersOf
<1>3. Cardinality(ReadersOf(sc, p) \cup {c}) = Cardinality(ReadersOf(sc, p)) + 1
  BY <1>2, FS_AddElement
<1> QED BY <1>1, <1>3 DEF Pins

LEMMA PinsGiven ==
  ASSUME NEW sc, NEW sd, NEW c \in Scanners, OnlyAt(sd, sc, c),
         HoldsPage(sc[c]), ~HoldsPage(sd[c]), NEW p \in PageIds, sc[c].pid = p
  PROVE  Pins(sd) = [Pins(sc) EXCEPT ![p] = @ - 1] /\ Pins(sc)[p] > 0
<1>1. ASSUME NEW q
      PROVE  ReadersOf(sd, q) = IF q = p THEN ReadersOf(sc, p) \ {c} ELSE ReadersOf(sc, q)
  BY DEF ReadersOf, OnlyAt
<1>2. c \in ReadersOf(sc, p) /\ IsFiniteSet(ReadersOf(sc, p))
  BY PinsBounded DEF ReadersOf
<1>3. Cardinality(ReadersOf(sc, p) \ {c}) = Cardinality(ReadersOf(sc, p)) - 1
  BY <1>2, FS_RemoveElement
<1>4. Pins(sc)[p] > 0
  BY <1>2, PinsBounded
<1> QED BY <1>1, <1>3, <1>4 DEF Pins

\* A scanner that reads a page has it pinned.
LEMMA ReaderPins ==
  ASSUME NEW sc, NEW c \in Scanners, HoldsPage(sc[c]), sc[c].pid \in PageIds
  PROVE  Pins(sc)[sc[c].pid] > 0
<1>1. c \in ReadersOf(sc, sc[c].pid)
  BY DEF ReadersOf
<1> QED BY <1>1, PinsBounded

\* A scanner stays good while its page keeps its frame and its rows.
LEMMA ScanStays ==
  ASSUME NEW s, NEW t, NEW x, ScanOK(s, x),
         HoldsPage(x) => /\ t.dir[x.pid] = s.dir[x.pid]
                         /\ CopyOK(x, SlotsOf(Latest(t, x.pid)))
  PROVE  ScanOK(t, x)
  BY DEF ScanOK

LEMMA ScansStay ==
  ASSUME NEW sc, NEW s, NEW t, Leaves(t, s, Pins(sc)),
         NEW c \in Scanners, ScanOK(s, sc[c])
  PROVE  ScanOK(t, sc[c])
<1>1. ASSUME HoldsPage(sc[c])
      PROVE  sc[c].pid \in PageIds /\ t.dir[sc[c].pid] = s.dir[sc[c].pid]
  BY <1>1, ReaderPins DEF Leaves, Quiet, ScanOK
<1> QED BY <1>1 DEF Leaves, Quiet, ReadsSame, ScanOK

\* next() on a page with slots left returns the first of them not removed,
\* and there is one.
SlotTaken(y, x, slots) ==
  /\ y \in Scan /\ ~y.ended
  /\ y.pid = x.pid /\ y.frame = x.frame /\ y.count = x.count /\ y.need = x.need
  /\ y.slot \in x.slot + 1..x.count
  /\ y.row = slots[y.slot].rec /\ ~slots[y.slot].deleted
  /\ \A i \in x.slot + 1..y.slot - 1 : slots[i].deleted

LEMMA TakeSlotFacts ==
  ASSUME NEW s, NEW x \in Scan, ~x.ended, x.slot < x.count,
         NEW slots \in Slots(Rows), slots = SlotsOf(s.frames[x.frame].data),
         x.count \in 1..Len(slots), ~slots[x.count].deleted
  PROVE  SlotTaken(TakeSlot(s, x), x, slots)
<1> DEFINE live == {k \in x.slot..x.count-1 : ~slots[k+1].deleted}
           k == NextSlot(s, x)
           y == TakeSlot(s, x)
<1>1. /\ x.slot \in Nat /\ x.count \in Nat /\ Len(slots) \in Nat
      /\ x.pid \in PageIds /\ x.frame \in Frames /\ x.need \in Nat
      /\ x.row \in Rows \cup {NoRow} /\ x.ended \in BOOLEAN
  BY DEF Scan, Slots
<1>2. x.count - 1 \in x.slot..x.count-1 /\ (x.count - 1) + 1 = x.count
  BY <1>1
<1>3. x.count - 1 \in live /\ live \subseteq Nat
  BY <1>1, <1>2
<1>4. live # {}
  BY <1>3
<1>5. k = CHOOSE i \in live : \A j \in live : i <= j
  BY <1>4 DEF NextSlot
<1> HIDE DEF live, k
<1>6. k \in live /\ \A j \in live : k <= j
  BY <1>3, <1>4, <1>5, LeastNatural
<1>7. k \in x.slot..x.count-1 /\ ~slots[k + 1].deleted /\ k \in Nat
  BY <1>1, <1>6 DEF live
<1>8. ASSUME NEW i \in x.slot + 1..k PROVE slots[i].deleted
  <2>1. i - 1 \in x.slot..x.count-1 /\ (i - 1) + 1 = i /\ ~(k <= i - 1)
    BY <1>1, <1>7
  <2>2. i - 1 \notin live
    BY <1>6, <2>1
  <2> QED BY <2>1, <2>2 DEF live
<1>9. k < x.count
  BY <1>1, <1>7
<1>10. y = [x EXCEPT !.slot = k + 1, !.row = slots[k + 1].rec]
  BY <1>9 DEF TakeSlot, k
<1>11. k + 1 \in 1..Len(slots) /\ k + 1 \in Nat /\ k + 1 \in x.slot + 1..x.count
       /\ (k + 1) - 1 = k
  BY <1>1, <1>7
<1>12. slots[k + 1].rec \in Rows
  BY <1>11, SlotTyped
<1> HIDE DEF y
<1>13. /\ y \in Scan /\ y.slot = k + 1 /\ y.row = slots[k + 1].rec
       /\ y.pid = x.pid /\ y.frame = x.frame /\ y.count = x.count
       /\ y.need = x.need /\ y.ended = x.ended
  BY <1>10, <1>11, <1>12 DEF Scan
<1> QED BY <1>7, <1>8, <1>11, <1>13 DEF SlotTaken, y

\* A scanner that enters a page copies its index.
LEMMA EnteredFacts ==
  ASSUME NEW t, NEW h, Ready(t, h), NEW p \in t.head.bits \ {0},
         t.dir[p] # NoFrame, NEW x \in Scan, ~x.ended
  PROVE  LET y == Entered(t, p, x)
             slots == SlotsOf(Latest(t, p))
         IN  /\ y \in Scan /\ ~y.ended /\ HoldsPage(y)
             /\ (p = 1 \/ y.count # 0) => ScanOK(t, y)
             /\ y.pid = p /\ y.slot = 0 /\ y.count = Len(slots)
             /\ y.need = x.need /\ y.row = x.row /\ y.frame = t.dir[p]
             /\ slots \in Slots(Rows) /\ slots = SlotsOf(t.frames[y.frame].data)
             /\ CopyOK(y, slots)
<1> DEFINE slots == SlotsOf(Latest(t, p))
           n == Len(slots)
           y == Entered(t, p, x)
<1>1. p \in PageIds \ {0}
  BY BitsArePages DEF Ready
<1>2. PageOK(Latest(t, p))
  BY <1>1 DEF Ready, PagesOK
<1>3. slots \in Slots(Rows)
  BY <1>2, SlotsTyped DEF PageOK
<1>4. slots = SlotsOf(t.frames[t.dir[p]].data)
  BY DEF Latest
<1>5. t.dir[p] \in Frames
  BY <1>1 DEF Ready, PoolOK, PoolType
<1>6. n \in Nat /\ (n # 0 => ~slots[n].deleted)
  <2>1. n \in Nat /\ (n # 0 => slots # <<>>)
    BY <1>3 DEF Slots
  <2>2. n # 0 => Last(slots) = slots[n]
    BY <1>3, <2>1, LastFacts
  <2> QED BY <1>2, <2>1, <2>2 DEF PageOK
<1> HIDE DEF slots
<1>7. y = [x EXCEPT !.pid = p, !.slot = 0, !.frame = t.dir[p], !.count = n]
  BY <1>4 DEF Entered, PageSlots
<1> HIDE DEF n, y
<1>8. /\ y \in Scan /\ y.pid = p /\ y.slot = 0 /\ y.count = n /\ y.frame = t.dir[p]
      /\ y.need = x.need /\ y.row = x.row /\ ~y.ended
  BY <1>1, <1>5, <1>6, <1>7 DEF Scan
<1>9. HoldsPage(y)
  BY <1>8, ImageAssumption DEF HoldsPage
<1>10. CopyOK(y, slots)
  BY <1>6, <1>8 DEF CopyOK, n
<1>11. (p = 1 \/ y.count # 0) => ScanOK(t, y)
  BY <1>1, <1>8, <1>10 DEF ScanOK, slots
<1> QED BY <1>3, <1>4, <1>8, <1>9, <1>10, <1>11 DEF slots, n, y

\* next() keeps the scanner on its page.
LEMMA TakenOK ==
  ASSUME NEW s, NEW x \in Scan, HoldsPage(x), ~x.ended, ScanOK(s, x), NEW y,
         SlotTaken(y, x, SlotsOf(Latest(s, x.pid)))
  PROVE  y \in Scan /\ HoldsPage(y) /\ ScanOK(s, y) /\ y.pid = x.pid
  BY ImageAssumption DEF SlotTaken, HoldsPage, ScanOK, CopyOK

\* The slots of a table are a sequence.
LEMMA PoolSlotsTyped ==
  ASSUME NEW s, PagesOK(s), s.next \in 1..LastPid+1
  PROVE  PoolSlots(s) \in Slots(Rows) /\ Len(PoolSlots(s)) \in Nat
<1> DEFINE page == [p \in PageIds |-> Latest(s, p)]
           n == s.next - 1
           S == [rec : Rows, start : Nat, deleted : BOOLEAN]
<1>1. n \in Nat /\ \A p \in 1..n : p \in PageIds \ {0}
  BY PoolAssumption DEF PageIds
<1>2. ASSUME NEW p \in 1..n PROVE SlotsOf(page[p]) \in Seq(S)
  <2>1. PageOK(Latest(s, p)) /\ page[p] = Latest(s, p)
    BY <1>1 DEF PagesOK
  <2> QED BY <2>1, SlotsTyped DEF PageOK, Slots
<1> HIDE DEF S
<1>3. SlotsUpTo(page, n) \in Seq(S)
  <2> HIDE DEF page, n
  <2> QED BY <1>1, <1>2, SlotsUpToStep
<1>4. PoolSlots(s) = SlotsUpTo(page, n)
  BY DEF PoolSlots
<1> HIDE DEF page, n
<1> QED BY <1>3, <1>4 DEF Slots, S
-----------------------------------------------------------------------------
\* The inductive invariant: the pool is in order with a pin for each scanner
\* that reads a page, and each of these is on the frame of its page.
IInv == /\ up \in BOOLEAN /\ ScanTyped(scan)
        /\ up => /\ Ready(pool, Pins(scan))
                 /\ \A c \in Scanners : ScanOK(pool, scan[c])
        /\ ~up => /\ pool = BlankPool(pool.disk) /\ FileOK(pool.disk)
                  /\ \A c \in Scanners : scan[c] = NoScan

LEMMA NoneReads ==
  ASSUME NEW sc, \A c \in Scanners : ~HoldsPage(sc[c])
  PROVE  Pins(sc) = NoPins
<1>1. ASSUME NEW p PROVE ReadersOf(sc, p) = {}
  BY DEF ReadersOf
<1> QED BY <1>1, FS_EmptySet DEF Pins, NoPins

LEMMA DownOK ==
  ASSUME NEW d, FileOK(d), Down(d)
  PROVE  IInv'
<1>1. up' = FALSE /\ pool' = BlankPool(d) /\ scan' = [c \in Scanners |-> NoScan]
  BY DEF Down
<1>2. pool'.disk = d
  BY <1>1 DEF BlankPool
<1> QED BY <1>1, <1>2 DEF IInv, ScanTyped

LEMMA InitOK == Init => IInv
<1> SUFFICES ASSUME Init PROVE IInv
  OBVIOUS
<1> DEFINE d == [p \in PageIds |-> Zero]
<1>1. up = FALSE /\ pool = BlankPool(d) /\ scan = [c \in Scanners |-> NoScan]
  BY DEF Init
<1>2. pool.disk = d
  BY <1>1 DEF BlankPool
<1>3. PageOK(Zero)
  BY ContentFacts, RecordAssumption DEF PageOK, LayoutOK
<1>4. FileOK(d)
  BY <1>3, ContentFacts DEF FileOK, ImageOK, ImageBits
<1> QED BY <1>1, <1>2, <1>4 DEF IInv, ScanTyped

LEMMA OpenTableOK == ASSUME IInv, OpenTable PROVE IInv'
<1>1. /\ ~up /\ up' = TRUE /\ pool' = OpenPool(pool.disk) /\ scan' = scan
      /\ FileOK(pool.disk) /\ \A c \in Scanners : ~HoldsPage(scan'[c])
  BY DEF OpenTable, IInv, HoldsPage
<1>2. Ready(pool', NoPins)
  BY <1>1, OpenedTable
<1>3. Pins(scan') = NoPins
  BY <1>1, NoneReads
<1> QED BY <1>1, <1>2, <1>3 DEF IInv, ScanOK

LEMMA CloseTableOK == ASSUME IInv, CloseTable PROVE IInv'
<1>1. /\ up /\ CloseOK(pool) /\ Down(Close(pool).disk)
      /\ Ready(pool, Pins(scan))
  BY DEF CloseTable, IInv
<1>2. Pins(scan)[0] < PinMax
  BY ContentFacts, PinsBounded
<1>3. FileOK(Close(pool).disk)
  BY <1>1, <1>2, ClosedFile
<1> QED BY <1>1, <1>3, DownOK

LEMMA CrashOK == ASSUME IInv, Crash PROVE IInv'
<1>1. up /\ Down(pool.disk) /\ Ready(pool, Pins(scan))
  BY DEF Crash, IInv
<1> QED BY <1>1, CrashedFile, DownOK

LEMMA CrashInCloseOK == ASSUME IInv, CrashInClose PROVE IInv'
<1>1. /\ up /\ CloseOK(pool) /\ Ready(pool, Pins(scan))
      /\ \E P \in SUBSET DirtyPids(SaveHead(pool)) :
           Down(FlushPids(SaveHead(pool), P).disk)
  BY DEF CrashInClose, IInv
<1>2. Pins(scan)[0] < PinMax
  BY PinsBounded, ContentFacts
<1> QED BY <1>1, <1>2, TornFile, DownOK

\* A page without a number yet is in no frame, and nobody reads it.
LEMMA NextUnread ==
  ASSUME NEW s, NEW h, Ready(s, h), NEW p \in PageIds, h[p] > 0
  PROVE  p # s.next
<1>1. s.dir[p] # NoFrame
  BY DEF Ready, PoolOK, PinsAgree
<1>2. p \in s.head.bits /\ s.head.bits = 0..s.next-1 /\ s.next \in 1..LastPid+1
  BY <1>1 DEF Ready, HeadOK
<1> QED BY <1>2

LEMMA PageSlotsTyped ==
  ASSUME NEW s, PagesOK(s), NEW p \in PageIds \ {0}
  PROVE  SlotsOf(Latest(s, p)) \in Slots(Rows) /\ Len(SlotsOf(Latest(s, p))) \in Nat
<1>1. SlotsOf(Latest(s, p)) \in Slots(Rows)
  BY SlotsTyped DEF PagesOK, PageOK
<1> QED BY <1>1 DEF Slots

LEMMA InsertTableOK ==
  ASSUME IInv, NEW r \in SmallRows, Insert(r)
  PROVE  IInv' /\ up /\ up' /\ Inserted(pool', pool, r) /\ OnDisk(pool', pool)
<1> DEFINE h == Pins(scan)
           s == pool
           t == pool'
<1>1. /\ up /\ InsertOK(s, r) /\ t = InsertRow(s, r) /\ up' = up /\ scan' = scan
      /\ Ready(s, h) /\ \A c \in Scanners : ScanOK(s, scan[c])
      /\ ScanTyped(scan) /\ up \in BOOLEAN
  BY DEF IInv, Insert
<1>2. \A p \in PageIds : h[p] < PinMax
  BY PinsBounded
<1> HIDE DEF h, s, t
<1>3. /\ Ready(t, h) /\ Inserted(t, s, r) /\ OnDisk(t, s)
      /\ \A q \in PageIds : h[q] > 0 => t.dir[q] = s.dir[q]
  BY <1>1, <1>2, InsertTable
<1>4. ASSUME NEW c \in Scanners PROVE ScanOK(t, scan[c])
  <2> DEFINE x == scan[c]
             q == x.pid
  <2>1. SUFFICES ASSUME HoldsPage(x)
                 PROVE  t.dir[q] = s.dir[q] /\ CopyOK(x, SlotsOf(Latest(t, q)))
    BY <1>1, ScanStays
  <2>2. q \in PageIds \ {0} /\ CopyOK(x, SlotsOf(Latest(s, q)))
    BY <1>1, <2>1 DEF ScanOK
  <2>3. h[q] > 0
    BY <2>1, <2>2, ReaderPins DEF h
  <2>4. q # s.next
    BY <1>1, <2>2, <2>3, NextUnread
  <2> DEFINE a == SlotsOf(Latest(s, q))
             b == SlotsOf(Latest(t, q))
  <2>5. a \in Slots(Rows) /\ b \in Slots(Rows) /\ Len(a) \in Nat
    BY <1>1, <1>3, <2>2, PageSlotsTyped DEF Ready
  <2>6. b = a \/ \E z : b = Append(a, z)
    BY <1>3, <2>2, <2>4 DEF Inserted
  <2> HIDE DEF a, b
  <2>7. CopyOK(x, b)
    <3>1. CopyOK(x, a)
      BY <2>2 DEF a
    <3>2. ASSUME NEW z, b = Append(a, z) PROVE CopyOK(x, b)
      <4>1. Len(b) = Len(a) + 1 /\ \A i \in 1..Len(a) : b[i] = a[i]
        BY <2>5, <3>2 DEF Slots
      <4> QED BY <2>5, <3>1, <4>1 DEF CopyOK
    <3> QED BY <2>6, <3>1, <3>2
  <2> QED BY <1>3, <2>2, <2>3, <2>7 DEF a, b
<1>5. Pins(scan') = h
  BY <1>1 DEF h
<1>6. IInv'
  BY <1>1, <1>3, <1>4, <1>5 DEF IInv, t
<1> QED BY <1>1, <1>3, <1>6 DEF s, t

LEMMA RemoveRowOK ==
  ASSUME IInv, NEW p \in RecordPids, NEW k \in 0..SlotBound, HasRowAfter(p, k), RemoveRow(p, k)
  PROVE  /\ IInv' /\ up /\ up' /\ pool'.next = pool.next /\ OnDisk(pool', pool)
         /\ OneGone(SlotsOf(Latest(pool', p)), SlotsOf(Latest(pool, p)), k)
         /\ \A q \in PageIds : q # p => Latest(pool', q) = Latest(pool, q)
         /\ p \in 1..pool.next-1 /\ k + 1 < Len(SlotsOf(Latest(pool, p)))
<1> DEFINE h == Pins(scan)
           s == pool
           t == pool'
<1>0. k \in Nat /\ p \in PageIds \ {0}
  BY TableAssumption DEF RecordPids
<1>1. /\ up /\ HasPage(s, p) /\ FetchOK(s, p) /\ t = RemovedRow(s, p, k)
      /\ up' = up /\ scan' = scan
      /\ k + 1 < Len(SlotsOf(Latest(s, p)))
      /\ Ready(s, h) /\ \A c \in Scanners : ScanOK(s, scan[c])
      /\ ScanTyped(scan) /\ up \in BOOLEAN
  BY DEF IInv, RemoveRow, RemovedRow, HasRowAfter
<1>2. h[p] < PinMax
  BY <1>0, PinsBounded
<1> HIDE DEF h, s, t
<1>3. /\ Ready(t, h) /\ t.next = s.next /\ OnDisk(t, s)
      /\ \A q \in PageIds : h[q] > 0 => t.dir[q] = s.dir[q]
      /\ OneGone(SlotsOf(Latest(t, p)), SlotsOf(Latest(s, p)), k)
      /\ \A q \in PageIds : q # p => Latest(t, q) = Latest(s, q)
  BY <1>0, <1>1, <1>2, RemoveTable
<1>4. ASSUME NEW c \in Scanners PROVE ScanOK(t, scan[c])
  <2> DEFINE x == scan[c]
             q == x.pid
  <2>1. SUFFICES ASSUME HoldsPage(x)
                 PROVE  t.dir[q] = s.dir[q] /\ CopyOK(x, SlotsOf(Latest(t, q)))
    BY <1>1, ScanStays
  <2>2. q \in PageIds \ {0} /\ CopyOK(x, SlotsOf(Latest(s, q)))
    BY <1>1, <2>1 DEF ScanOK
  <2>3. h[q] > 0
    BY <2>1, <2>2, ReaderPins DEF h
  <2>4. q = p => k + 1 < x.count
    BY <2>1 DEF HasRowAfter, HoldsPage
  <2>5. CASE q = p
    <3>1. x.count # k + 1 /\ x.count \in 1..Len(SlotsOf(Latest(t, p)))
      BY <1>0, <1>3, <2>2, <2>4, <2>5 DEF OneGone, CopyOK
    <3>2. SlotsOf(Latest(t, p))[x.count].deleted = SlotsOf(Latest(s, p))[x.count].deleted
      BY <1>3, <2>2, <2>5, <3>1 DEF OneGone, CopyOK
    <3> QED BY <1>3, <2>2, <2>3, <2>5, <3>1, <3>2 DEF CopyOK
  <2>6. CASE q # p
    BY <1>3, <2>2, <2>3, <2>6
  <2> QED BY <2>5, <2>6
<1>5. Pins(scan') = h
  BY <1>1 DEF h
<1>6. IInv'
  BY <1>1, <1>3, <1>4, <1>5 DEF IInv, t
<1>7. p \in 1..s.next-1
  <2>1. p \in s.head.bits /\ s.head.bits = 0..s.next-1
    BY <1>1 DEF HasPage, Ready, HeadOK
  <2> QED BY <1>0, <1>1, <2>1 DEF Ready, HeadOK
<1> QED BY <1>1, <1>3, <1>6, <1>7 DEF s, t

LEMMA ForgetScanOK ==
  ASSUME IInv, NEW c \in Scanners, ForgetScan(c)
  PROVE  IInv'
<1>1. /\ up /\ ~HoldsPage(scan[c]) /\ up' = up /\ pool' = pool
      /\ scan' = [scan EXCEPT ![c] = NoScan] /\ ScanTyped(scan) /\ up \in BOOLEAN
      /\ Ready(pool, Pins(scan)) /\ \A b \in Scanners : ScanOK(pool, scan[b])
  BY DEF IInv, ForgetScan
<1>2. OnlyAt(scan', scan, c) /\ scan'[c] = NoScan /\ ScanTyped(scan')
  BY <1>1 DEF OnlyAt, ScanTyped
<1>3. ~HoldsPage(scan[c]) /\ ~HoldsPage(scan'[c])
  BY <1>1, <1>2 DEF HoldsPage
<1>4. Pins(scan') = Pins(scan)
  BY <1>2, <1>3, PinsKept
<1>5. \A b \in Scanners : ScanOK(pool, scan'[b])
  BY <1>1, <1>2, <1>3 DEF OnlyAt, ScanOK
<1> QED BY <1>1, <1>2, <1>4, <1>5 DEF IInv

LEMMA NextInPageOK ==
  ASSUME IInv, up, NEW c \in Scanners, scan[c] # NoScan, ~scan[c].ended, NextInPage(c, scan[c])
  PROVE  /\ IInv' /\ up' /\ pool' = pool
         /\ scan' = [scan EXCEPT ![c] = scan'[c]]
         /\ SlotTaken(scan'[c], scan[c], SlotsOf(Latest(pool, scan[c].pid)))
<1> DEFINE x == scan[c]
           slots == SlotsOf(Latest(pool, x.pid))
           y == TakeSlot(pool, x)
<1>1. /\ x.slot < x.count /\ up' = up /\ pool' = pool
      /\ scan' = [scan EXCEPT ![c] = y] /\ ScanTyped(scan) /\ up \in BOOLEAN
      /\ Ready(pool, Pins(scan)) /\ \A b \in Scanners : ScanOK(pool, scan[b])
  BY DEF IInv, NextInPage
<1>2. x \in Scan /\ ~x.ended /\ HoldsPage(x)
  BY <1>1 DEF ScanTyped, HoldsPage
<1>3. /\ x.pid \in PageIds \ {0} /\ x.frame = pool.dir[x.pid]
      /\ x.count \in 1..Len(slots) /\ ~slots[x.count].deleted
  BY <1>1, <1>2 DEF ScanOK, CopyOK, Scan
<1>4. slots \in Slots(Rows)
  BY <1>1, <1>3, PageSlotsTyped DEF Ready
<1>5. slots = SlotsOf(pool.frames[x.frame].data)
  <2>1. Pins(scan)[x.pid] > 0
    BY <1>2, <1>3, ReaderPins
  <2>2. pool.dir[x.pid] # NoFrame
    BY <1>1, <1>3, <2>1 DEF Ready, PoolOK, PinsAgree
  <2> QED BY <1>3, <2>2 DEF Latest
<1> HIDE DEF x, y
<1>6. SlotTaken(y, x, slots)
  <2> HIDE DEF slots
  <2> QED BY <1>1, <1>2, <1>3, <1>4, <1>5, TakeSlotFacts DEF y
<1>7. y \in Scan /\ HoldsPage(y) /\ ScanOK(pool, y) /\ y.pid = x.pid
  BY <1>1, <1>2, <1>6, TakenOK DEF x
<1>8. OnlyAt(scan', scan, c) /\ scan'[c] = y /\ ScanTyped(scan')
  BY <1>1, <1>7 DEF OnlyAt, ScanTyped
<1>9. Pins(scan') = Pins(scan)
  BY <1>2, <1>7, <1>8, PinsKept DEF x
<1>10. \A b \in Scanners : ScanOK(pool, scan'[b])
  BY <1>1, <1>7, <1>8 DEF OnlyAt
<1>11. IInv'
  BY <1>1, <1>8, <1>9, <1>10 DEF IInv
<1> QED BY <1>1, <1>6, <1>8, <1>11 DEF x

\* A scanner that stops reading its page unpins it, and no other notices.
LEMMA GivenUp ==
  ASSUME NEW s, NEW sc, Ready(s, Pins(sc)), \A b \in Scanners : ScanOK(s, sc[b]),
         NEW c \in Scanners, HoldsPage(sc[c]), NEW sd, OnlyAt(sd, sc, c), ~HoldsPage(sd[c])
  PROVE  LET t == Unpin(s, sc[c].pid, FALSE) IN
         /\ Ready(t, Pins(sd)) /\ \A b \in Scanners : ScanOK(t, sd[b])
         /\ Quiet(t, s)
<1> DEFINE p == sc[c].pid
           t == Unpin(s, p, FALSE)
           h == Pins(sc)
           j == [h EXCEPT ![p] = @ - 1]
<1>1. p \in PageIds \ {0}
  BY DEF ScanOK
<1>2. Pins(sd) = j /\ h[p] > 0
  BY <1>1, PinsGiven
<1>3. Ready(s, h) /\ FALSE \in BOOLEAN
  OBVIOUS
<1> HIDE DEF h, p
<1>4. Ready(t, j) /\ Leaves(t, s, h) /\ t.dir = s.dir
  BY <1>1, <1>2, <1>3, UnpinTable
<1> HIDE DEF t, j
<1>5. ASSUME NEW b \in Scanners PROVE ScanOK(t, sd[b])
  <2>1. CASE b = c
    BY <2>1 DEF ScanOK
  <2>2. CASE b # c
    <3>1. sd[b] = sc[b] /\ ScanOK(s, sc[b]) /\ Leaves(t, s, Pins(sc))
      BY <1>4, <2>2 DEF OnlyAt, h
    <3> QED BY <3>1, ScansStay
  <2> QED BY <2>1, <2>2
<1> QED BY <1>2, <1>4, <1>5 DEF Leaves, Quiet, t, p

\* A scanner that starts to read a page pins it.
LEMMA TakenUp ==
  ASSUME NEW s, NEW sc, Ready(s, Pins(sc)), \A b \in Scanners : ScanOK(s, sc[b]),
         NEW c \in Scanners, ~HoldsPage(sc[c]), NEW p \in s.head.bits \ {0}, FetchOK(s, p),
         NEW sd, OnlyAt(sd, sc, c), HoldsPage(sd[c]), sd[c].pid = p, ScanOK(Fetch(s, p), sd[c])
  PROVE  LET t == Fetch(s, p) IN
         /\ Ready(t, Pins(sd)) /\ \A b \in Scanners : ScanOK(t, sd[b])
         /\ Quiet(t, s)
<1> DEFINE t == Fetch(s, p)
           h == Pins(sc)
           j == [h EXCEPT ![p] = @ + 1]
<1>1. p \in PageIds
  BY BitsArePages DEF Ready
<1>2. Pins(sd) = j /\ h[p] < PinMax
  BY <1>1, PinsTaken, PinsBounded
<1>3. Ready(s, h) /\ p \in s.head.bits
  OBVIOUS
<1> HIDE DEF h
<1>4. Ready(t, j) /\ Leaves(t, s, h)
  BY <1>2, <1>3, FetchTable
<1> HIDE DEF t, j
<1>5. ASSUME NEW b \in Scanners PROVE ScanOK(t, sd[b])
  <2>1. CASE b = c
    BY <2>1 DEF t
  <2>2. CASE b # c
    <3>1. sd[b] = sc[b] /\ ScanOK(s, sc[b]) /\ Leaves(t, s, Pins(sc))
      BY <1>4, <2>2 DEF OnlyAt, h
    <3> QED BY <3>1, ScansStay
  <2> QED BY <2>1, <2>2
<1> QED BY <1>2, <1>4, <1>5 DEF Leaves, Quiet, t

LEMMA NextAtEndOK ==
  ASSUME IInv, up, NEW c \in Scanners, scan[c] # NoScan, ~scan[c].ended, NextAtEnd(c, scan[c])
  PROVE  /\ IInv' /\ up' /\ Quiet(pool', pool)
<1> DEFINE x == scan[c]
           y == [[x EXCEPT !.row = NoRow] EXCEPT !.ended = TRUE]
<1>1. /\ up' = up /\ pool' = Unpin(pool, x.pid, FALSE)
      /\ scan' = [scan EXCEPT ![c].row = NoRow, ![c].ended = TRUE]
      /\ ScanTyped(scan) /\ up \in BOOLEAN
      /\ Ready(pool, Pins(scan)) /\ \A b \in Scanners : ScanOK(pool, scan[b])
  BY DEF IInv, NextAtEnd
<1>2. x \in Scan /\ HoldsPage(x)
  BY <1>1 DEF ScanTyped, HoldsPage
<1>3. y \in Scan /\ y.ended /\ y.pid = x.pid /\ y.count = x.count
  BY <1>2 DEF Scan
<1>4. scan' = [scan EXCEPT ![c] = y]
  BY <1>1 DEF ScanTyped
<1> HIDE DEF y
<1>5. OnlyAt(scan', scan, c) /\ ~HoldsPage(scan'[c]) /\ ScanTyped(scan')
  <2>1. scan'[c] = y /\ OnlyAt(scan', scan, c) /\ ScanTyped(scan')
    BY <1>1, <1>3, <1>4 DEF OnlyAt, ScanTyped
  <2>2. x.pid > 1 => x.count # 0
    BY <1>1, <1>2 DEF ScanOK
  <2>3. ~HoldsPage(y)
    BY <1>3, <2>2 DEF HoldsPage, StoppedEarly
  <2> QED BY <2>1, <2>3
<1>6. /\ Ready(pool', Pins(scan')) /\ \A b \in Scanners : ScanOK(pool', scan'[b])
      /\ Quiet(pool', pool)
  BY <1>1, <1>2, <1>5, GivenUp
<1> QED BY <1>1, <1>5, <1>6 DEF IInv

LEMMA DestroyScanOK ==
  ASSUME IInv, NEW c \in Scanners, HoldsPage(scan[c]), DestroyScan(c)
  PROVE  IInv' /\ up /\ up' /\ Quiet(pool', pool)
<1>1. /\ up /\ up' = up /\ pool' = Unpin(pool, scan[c].pid, FALSE)
      /\ scan' = [scan EXCEPT ![c] = NoScan]
      /\ ScanTyped(scan) /\ up \in BOOLEAN
      /\ Ready(pool, Pins(scan)) /\ \A b \in Scanners : ScanOK(pool, scan[b])
  BY DEF IInv, DestroyScan
<1>2. OnlyAt(scan', scan, c) /\ ~HoldsPage(scan'[c]) /\ ScanTyped(scan')
  BY <1>1 DEF OnlyAt, HoldsPage, ScanTyped
<1>3. /\ Ready(pool', Pins(scan')) /\ \A b \in Scanners : ScanOK(pool', scan'[b])
      /\ Quiet(pool', pool)
  BY <1>1, <1>2, GivenUp
<1> QED BY <1>1, <1>2, <1>3 DEF IInv

\* Where a scanner is before the first slot of page p.
AtStart(y, p, slots, need) ==
  /\ y \in Scan /\ y.pid = p /\ y.slot = 0 /\ y.count = Len(slots) /\ y.need = need

LEMMA OpenScanOK ==
  ASSUME IInv, NEW c \in Scanners, HasPage(pool, 1), OpenScan(c)
  PROVE  /\ IInv' /\ up /\ up' /\ Quiet(pool', pool)
         /\ scan[c] = NoScan /\ scan' = [scan EXCEPT ![c] = scan'[c]]
         /\ AtStart(scan'[c], 1, SlotsOf(Latest(pool', 1)), Len(PoolSlots(pool)))
         /\ scan'[c].row = NoRow /\ ~scan'[c].ended
<1> DEFINE need == Len(PoolSlots(pool))
           x == [pid |-> 1, slot |-> 0, frame |-> 0, count |-> 0, row |-> NoRow,
                 ended |-> FALSE, need |-> need]
           t == Fetch(pool, 1)
           y == Entered(t, 1, x)
<1>1. /\ up /\ up' = up /\ scan[c] = NoScan /\ FetchOK(pool, 1) /\ pool' = t
      /\ scan' = [scan EXCEPT ![c] = y]
      /\ ScanTyped(scan) /\ up \in BOOLEAN /\ 1 \in pool.head.bits \ {0}
      /\ Ready(pool, Pins(scan)) /\ \A b \in Scanners : ScanOK(pool, scan[b])
  BY DEF IInv, OpenScan, HasPage
<1>2. 1 \in PageIds
  BY <1>1, BitsArePages DEF Ready
<1>3. need \in Nat
  BY <1>1, PoolSlotsTyped DEF Ready, HeadOK
<1> HIDE DEF need
<1>4. x \in Scan /\ ~x.ended
  BY <1>2, <1>3, PoolAssumption DEF Scan, Frames
<1>5. ~HoldsPage(scan[c])
  BY <1>1 DEF HoldsPage
<1> DEFINE h == Pins(scan)
           j == [h EXCEPT ![1] = @ + 1]
<1>6. h[1] < PinMax
  BY <1>2, PinsBounded
<1> HIDE DEF t, x, y, h
<1>7. Ready(t, j) /\ t.dir[1] # NoFrame /\ t.head = pool.head
  BY <1>1, <1>6, FetchTable DEF t, h, Leaves, Quiet
<1> HIDE DEF j
<1>8. /\ y \in Scan /\ ~y.ended /\ HoldsPage(y) /\ ScanOK(t, y) /\ y.pid = 1
      /\ AtStart(y, 1, SlotsOf(Latest(t, 1)), need) /\ y.row = NoRow
  <2>1. 1 \in t.head.bits \ {0}
    BY <1>1, <1>7
  <2>2. x.need = need /\ x.row = NoRow
    BY DEF x
  <2> QED BY <1>4, <1>7, <2>1, <2>2, EnteredFacts DEF y, AtStart
<1>9. OnlyAt(scan', scan, c) /\ scan'[c] = y /\ ScanTyped(scan')
  BY <1>1, <1>8 DEF OnlyAt, ScanTyped
<1>10. /\ Ready(t, Pins(scan')) /\ \A b \in Scanners : ScanOK(t, scan'[b])
       /\ Quiet(t, pool)
  BY <1>1, <1>5, <1>8, <1>9, TakenUp DEF t
<1>11. IInv'
  BY <1>1, <1>9, <1>10 DEF IInv
<1> QED BY <1>1, <1>8, <1>9, <1>10, <1>11 DEF need

\* It enters a page: it takes a slot of it, or stops there if it has none.
StopsAt(z, p, need) ==
  /\ z \in Scan /\ z.ended /\ z.pid = p /\ z.slot = 0 /\ z.count = 0
  /\ z.need = need /\ z.row = NoRow

LEMMA EnterPageFacts ==
  ASSUME IInv, up, NEW c \in Scanners, scan[c] # NoScan, ~scan[c].ended,
         NEW p \in PidsAfter(pool, scan[c].pid), EnterPage(c, scan[c], p)
  PROVE  /\ IInv' /\ Quiet(pool', pool) /\ up' = up
         /\ scan' = [scan EXCEPT ![c] = scan'[c]]
         /\ \/ \E y : /\ AtStart(y, p, SlotsOf(Latest(pool, p)), scan[c].need)
                      /\ SlotTaken(scan'[c], y, SlotsOf(Latest(pool, p)))
            \/ /\ SlotsOf(Latest(pool, p)) = <<>>
               /\ StopsAt(scan'[c], p, scan[c].need)
<1> DEFINE x == scan[c]
           s == Unpin(pool, x.pid, FALSE)
           t == Fetch(s, p)
           y == Entered(t, p, x)
           z == IF y.count = 0 THEN [y EXCEPT !.row = NoRow, !.ended = TRUE]
                               ELSE TakeSlot(t, y)
           sc == [scan EXCEPT ![c] = NoScan]
<1>1. /\ up' = up /\ FetchOK(s, p) /\ pool' = t
      /\ scan' = [scan EXCEPT ![c] = z]
      /\ ScanTyped(scan) /\ up \in BOOLEAN
      /\ Ready(pool, Pins(scan)) /\ \A b \in Scanners : ScanOK(pool, scan[b])
  BY DEF IInv, EnterPage
<1>2. x \in Scan /\ ~x.ended /\ x.pid \in PageIds \ {0} /\ HoldsPage(x)
  BY <1>1 DEF ScanTyped, HoldsPage, ScanOK
<1>3. p \in pool.head.bits \ {0} /\ p > 1
  BY <1>1, <1>2, BitsArePages, PoolAssumption DEF PidsAfter, PageIds, Ready
<1>4. OnlyAt(sc, scan, c) /\ ~HoldsPage(sc[c])
  BY <1>1 DEF OnlyAt, HoldsPage, ScanTyped
<1> HIDE DEF sc
<1>5. /\ Ready(s, Pins(sc)) /\ \A b \in Scanners : ScanOK(s, sc[b])
      /\ Quiet(s, pool) /\ s.head = pool.head
  BY <1>1, <1>2, <1>4, GivenUp DEF Quiet
<1>6. p \in PageIds
  BY <1>1, <1>3, BitsArePages DEF Ready
<1> DEFINE h == Pins(sc)
           j == [h EXCEPT ![p] = @ + 1]
<1>7. h[p] < PinMax
  BY <1>6, PinsBounded
<1> HIDE DEF s, t, x, y, z, h
<1>8. /\ Ready(t, j) /\ t.dir[p] # NoFrame /\ t.head = s.head /\ Quiet(t, s)
  BY <1>1, <1>3, <1>5, <1>7, FetchTable DEF t, h, Leaves, Quiet
<1> HIDE DEF j
<1> DEFINE slots == SlotsOf(Latest(t, p))
<1>9. /\ y \in Scan /\ ~y.ended /\ HoldsPage(y) /\ (y.count # 0 => ScanOK(t, y))
      /\ y.pid = p /\ y.slot = 0 /\ y.count = Len(slots)
      /\ y.need = x.need /\ y.frame = t.dir[p]
      /\ slots \in Slots(Rows) /\ slots = SlotsOf(t.frames[y.frame].data)
      /\ CopyOK(y, slots)
  <2>1. p \in t.head.bits \ {0}
    BY <1>3, <1>5, <1>8
  <2> QED BY <1>2, <1>8, <2>1, EnteredFacts DEF y
<1>10. ASSUME y.count # 0
       PROVE  /\ z \in Scan /\ HoldsPage(z) /\ ScanOK(t, z) /\ z.pid = p
              /\ SlotTaken(z, y, slots) /\ AtStart(y, p, slots, x.need)
  <2>1. ~y.ended /\ y.slot < y.count /\ y.count \in 1..Len(slots) /\ ~slots[y.count].deleted
    BY <1>9, <1>10 DEF CopyOK, Slots
  <2>2. SlotTaken(z, y, slots)
    <3> HIDE DEF slots
    <3> QED BY <1>9, <1>10, <2>1, TakeSlotFacts DEF z
  <2>3. z \in Scan /\ HoldsPage(z) /\ ScanOK(t, z) /\ z.pid = p
    BY <1>9, <1>10, <2>2, TakenOK
  <2>4. AtStart(y, p, slots, x.need)
    BY <1>9 DEF AtStart
  <2> HIDE DEF slots
  <2> QED BY <2>2, <2>3, <2>4
<1>11. ASSUME y.count = 0
       PROVE  /\ z \in Scan /\ HoldsPage(z) /\ ScanOK(t, z) /\ z.pid = p
              /\ StopsAt(z, p, x.need) /\ slots = <<>>
  <2>1. z = [[y EXCEPT !.row = NoRow] EXCEPT !.ended = TRUE]
    BY <1>9, <1>11 DEF z, Scan
  <2>2. StopsAt(z, p, x.need)
    BY <1>9, <1>11, <2>1 DEF StopsAt, Scan
  <2>3. slots = <<>>
    BY <1>9, <1>11 DEF Slots
  <2> HIDE DEF slots
  <2>4. HoldsPage(z)
    BY <1>3, <2>2, ImageAssumption DEF HoldsPage, StoppedEarly, StopsAt
  <2>5. z.frame = t.dir[p]
    BY <1>9, <2>1 DEF Scan
  <2>6. ScanOK(t, z)
    BY <1>3, <1>6, <2>2, <2>3, <2>5 DEF ScanOK, CopyOK, StopsAt, slots
  <2> QED BY <2>2, <2>3, <2>4, <2>6 DEF StopsAt
<1>12. z \in Scan /\ HoldsPage(z) /\ ScanOK(t, z) /\ z.pid = p
  <2> HIDE DEF slots
  <2> QED BY <1>10, <1>11
<1>13. scan' = [scan EXCEPT ![c] = z] /\ scan'[c] = z
  BY <1>1 DEF ScanTyped
<1>14. /\ OnlyAt(scan', sc, c) /\ ScanTyped(scan')
  BY <1>1, <1>4, <1>12, <1>13 DEF OnlyAt, ScanTyped
<1>15. Ready(t, Pins(scan')) /\ \A b \in Scanners : ScanOK(t, scan'[b])
  <2>1. p \in s.head.bits \ {0}
    BY <1>3, <1>5
  <2> QED BY <1>1, <1>4, <1>5, <1>12, <1>13, <1>14, <2>1, TakenUp DEF t
<1>16. IInv'
  BY <1>1, <1>14, <1>15 DEF IInv
<1>17. Quiet(pool', pool)
  BY <1>1, <1>5, <1>8 DEF Quiet, ReadsSame, OnDisk
<1>18. slots = SlotsOf(Latest(pool, p))
  BY <1>1, <1>6, <1>17 DEF Quiet, ReadsSame
<1> HIDE DEF slots
<1> QED BY <1>1, <1>10, <1>11, <1>13, <1>16, <1>17, <1>18 DEF x

LEMMA NextInNextPageOK ==
  ASSUME IInv, up, NEW c \in Scanners, scan[c] # NoScan, ~scan[c].ended,
         NextInNextPage(c, scan[c])
  PROVE  IInv'
<1>1. PICK p \in PidsAfter(pool, scan[c].pid) : EnterPage(c, scan[c], p)
  BY DEF NextInNextPage
<1> QED BY <1>1, EnterPageFacts

LEMMA StepOK == IInv /\ [Next]_vars => IInv'
<1> SUFFICES ASSUME IInv, [Next]_vars PROVE IInv'
  OBVIOUS
<1>1. CASE OpenTable   BY <1>1, OpenTableOK
<1>2. CASE CloseTable  BY <1>2, CloseTableOK
<1>3. CASE Crash       BY <1>3, CrashOK
<1>11. CASE CrashInClose BY <1>11, CrashInCloseOK
<1>4. ASSUME NEW r \in SmallRows, Insert(r) PROVE IInv'
  BY <1>4, InsertTableOK
<1>5. ASSUME NEW p \in RecordPids, NEW k \in 0..SlotBound, HasRowAfter(p, k), RemoveRow(p, k)
      PROVE  IInv'
  BY <1>5, RemoveRowOK
<1>6. ASSUME NEW c \in Scanners, NextRow(c) PROVE IInv'
  <2>1. up /\ scan[c] # NoScan /\ ~scan[c].ended
    BY <1>6 DEF NextRow
  <2> QED BY <1>6, <2>1, NextInPageOK, NextInNextPageOK, NextAtEndOK DEF NextRow
<1>7. ASSUME NEW c \in Scanners, ForgetScan(c) PROVE IInv'
  BY <1>7, ForgetScanOK
<1>8. ASSUME NEW c \in Scanners, HasPage(pool, 1), OpenScan(c) PROVE IInv'
  BY <1>8, OpenScanOK
<1>9. ASSUME NEW c \in Scanners, HoldsPage(scan[c]), DestroyScan(c) PROVE IInv'
  BY <1>9, DestroyScanOK
<1>10. CASE UNCHANGED vars
  BY <1>10 DEF vars, IInv
<1> QED BY <1>1, <1>2, <1>3, <1>4, <1>5, <1>6, <1>7, <1>8, <1>9, <1>10, <1>11
    DEF Next, TableSteps, ScanSteps

\* The pool, the pins and the scanners stay in order in every behaviour of
\* careful users, for any number of frames, pages, scanners and rows.
THEOREM Inductive == Spec => []IInv
<1>1. Init => IInv
  BY InitOK
<1>2. IInv /\ [Next]_vars => IInv'
  BY StepOK
<1> QED BY <1>1, <1>2, PTL DEF Spec

\* Index and records keep apart in every page, whoever inserts, removes and
\* scans: a page is laid out well in the pool and in the file.
THEOREM PagesStayLaidOut == Spec => []PagesLaidOut
<1>1. IInv => PagesLaidOut
  <2> SUFFICES ASSUME IInv PROVE PagesLaidOut
    OBVIOUS
  <2>1. CASE up
    BY <2>1 DEF IInv, Ready, PagesOK, PageOK, PagesLaidOut
  <2>2. CASE ~up
    <3>1. \A p \in PageIds : pool.dir[p] = NoFrame
      BY <2>2 DEF IInv, BlankPool
    <3> QED BY <2>2, <3>1 DEF IInv, FileOK, PageOK, PagesLaidOut, Latest
  <2> QED BY <2>1, <2>2
<1> QED BY <1>1, Inductive, PTL

\* The pin a scanner holds keeps its page in the frame its Page* points at,
\* through every insert, removal and scan of others.
THEOREM ScansStayOnTheirPage == Spec => []ScansReadTheirPage
<1>1. IInv => ScansReadTheirPage
  <2> SUFFICES ASSUME IInv, NEW c \in Scanners, scan[c] # NoScan, ~scan[c].ended
               PROVE  /\ pool.frames[scan[c].frame].pid = scan[c].pid
                      /\ pool.frames[scan[c].frame].pin > 0
                      /\ scan[c].count <= Len(SlotsOf(pool.frames[scan[c].frame].data))
    BY DEF ScansReadTheirPage
  <2> DEFINE p == scan[c].pid
             f == scan[c].frame
  <2>1. up /\ HoldsPage(scan[c])
    BY DEF IInv, HoldsPage
  <2>2. /\ p \in PageIds /\ f = pool.dir[p]
        /\ scan[c].count \in 0..Len(SlotsOf(Latest(pool, p)))
        /\ PoolOK(Content, pool, Pins(scan))
    BY <2>1 DEF IInv, ScanOK, CopyOK, Ready
  <2>3. Pins(scan)[p] > 0 /\ Pins(scan)[p] # 0
    BY <2>1, <2>2, ReaderPins, PinsBounded
  <2>4. f # NoFrame /\ pool.frames[f].pin > 0
    BY <2>2, <2>3 DEF PoolOK, PinsAgree
  <2>5. pool.frames[f].pid = p
    BY <2>2, <2>4 DEF PoolOK, DirInverse
  <2>6. Latest(pool, p) = pool.frames[f].data
    BY <2>2, <2>4 DEF Latest
  <2>7. scan[c].count <= Len(SlotsOf(pool.frames[f].data))
    BY <2>2, <2>6
  <2> QED BY <2>4, <2>5, <2>7
<1> QED BY <1>1, Inductive, PTL

\* Every call of the table and of a scanner gives back the pins it takes, but
\* for the one of the page a scanner reads: a page has as many pins as scanners
\* that are on it.
THEOREM PinsAreReturned == Spec => []PinsReturned
<1>1. IInv => PinsReturned
  <2> SUFFICES ASSUME IInv, NEW f \in Frames
               PROVE  pool.frames[f].pin = Cardinality(ReadersOf(scan, pool.frames[f].pid))
    BY DEF PinsReturned, ReadersOf
  <2> DEFINE p == pool.frames[f].pid
  <2>1. ASSUME \A c \in Scanners : HoldsPage(scan[c]) => scan[c].pid # p,
               pool.frames[f].pin = 0
        PROVE  pool.frames[f].pin = Cardinality(ReadersOf(scan, p))
    <3>1. ReadersOf(scan, p) = {}
      BY <2>1 DEF ReadersOf
    <3> QED BY <2>1, <3>1, FS_EmptySet
  <2>2. CASE up
    <3>1. PoolOK(Content, pool, Pins(scan)) /\ \A c \in Scanners : ScanOK(pool, scan[c])
      BY <2>2 DEF IInv, Ready
    <3>2. p \in PageIds \cup {NoPid}
      BY <3>1 DEF PoolOK, PoolType
    <3>3. CASE p = NoPid
      <4>1. pool.frames[f].pin = 0
        BY <3>1, <3>3 DEF PoolOK, PinsAgree
      <4>2. \A c \in Scanners : HoldsPage(scan[c]) => scan[c].pid # p
        BY <3>1, <3>3, PoolAssumption DEF ScanOK, PageIds, NoPid
      <4> QED BY <2>1, <4>1, <4>2
    <3>4. CASE p # NoPid
      <4>1. p \in PageIds /\ pool.dir[p] = f /\ f # NoFrame
        BY <3>1, <3>2, <3>4, ContentFacts DEF PoolOK, DirInverse
      <4>2. pool.frames[f].pin = Pins(scan)[p]
        BY <3>1, <4>1 DEF PoolOK, PinsAgree
      <4> QED BY <4>1, <4>2 DEF Pins
    <3> QED BY <3>3, <3>4
  <2>3. CASE ~up
    <3>1. pool.frames[f].pin = 0
      BY <2>3 DEF IInv, BlankPool, EmptyFrame, ClearedFrame
    <3> QED BY <2>1, <2>3, <3>1 DEF IInv, HoldsPage
  <2> QED BY <2>2, <2>3
<1> QED BY <1>1, Inductive, PTL
-----------------------------------------------------------------------------
\* The rows of a table, page after page.

\* b is a later state of the slots a: more may follow, more may be removed.
Before(a, b) ==
  /\ Len(a) <= Len(b)
  /\ \A i \in 1..Len(a) : b[i].rec = a[i].rec /\ (a[i].deleted => b[i].deleted)

Typed(page, n) == \A p \in 1..n : SlotsOf(page[p]) \in Slots(Rows)
SlotsBefore(page, p) == Len(SlotsUpTo(page, p - 1))

LEMMA ConcatFacts ==
  ASSUME NEW a \in Slots(Rows), NEW b \in Slots(Rows)
  PROVE  /\ a \o b \in Slots(Rows) /\ Len(a) \in Nat /\ Len(b) \in Nat
         /\ Len(a \o b) = Len(a) + Len(b)
         /\ \A i \in 1..Len(a) : (a \o b)[i] = a[i]
         /\ \A i \in 1..Len(b) : (a \o b)[Len(a) + i] = b[i]
         /\ \A i \in 1..Len(a \o b) : i \in 1..Len(a) \/ i - Len(a) \in 1..Len(b)
<1> DEFINE S == [rec : Rows, start : Nat, deleted : BOOLEAN]
<1> HIDE DEF S
<1>1. a \in Seq(S) /\ b \in Seq(S)
  BY DEF Slots, S
<1>2. /\ a \o b \in Seq(S) /\ Len(a \o b) = Len(a) + Len(b)
      /\ Len(a) \in Nat /\ Len(b) \in Nat
      /\ \A i \in 1..Len(a) + Len(b) :
           (a \o b)[i] = IF i <= Len(a) THEN a[i] ELSE b[i - Len(a)]
  BY <1>1
<1>3. a \o b \in Slots(Rows)
  BY <1>2 DEF Slots, S
<1>4. ASSUME NEW i \in 1..Len(b) PROVE (a \o b)[Len(a) + i] = b[i]
  <2>1. /\ Len(a) + i \in 1..Len(a) + Len(b) /\ ~(Len(a) + i <= Len(a))
        /\ (Len(a) + i) - Len(a) = i
    BY <1>2
  <2> QED BY <1>2, <2>1
<1> QED BY <1>2, <1>3, <1>4

LEMMA BeforeConcat ==
  ASSUME NEW a \in Slots(Rows), NEW b \in Slots(Rows), Before(a, b), Len(a) = Len(b),
         NEW c \in Slots(Rows), NEW d \in Slots(Rows), Before(c, d)
  PROVE  Before(a \o c, b \o d)
<1>1. /\ Len(a \o c) = Len(a) + Len(c) /\ Len(b \o d) = Len(b) + Len(d)
      /\ Len(a) \in Nat /\ Len(c) \in Nat /\ Len(d) \in Nat
      /\ Len(c) <= Len(d)
  BY ConcatFacts DEF Before
<1>2. ASSUME NEW i \in 1..Len(a \o c)
      PROVE  /\ (b \o d)[i].rec = (a \o c)[i].rec
             /\ (a \o c)[i].deleted => (b \o d)[i].deleted
  <2>1. CASE i \in 1..Len(a)
    <3>1. (a \o c)[i] = a[i] /\ (b \o d)[i] = b[i]
      BY <2>1, ConcatFacts
    <3> QED BY <2>1, <3>1 DEF Before
  <2>2. CASE i - Len(a) \in 1..Len(c)
    <3> DEFINE j == i - Len(a)
    <3>1. j \in 1..Len(d) /\ i = Len(a) + j /\ i = Len(b) + j
      BY <1>1, <2>2
    <3>2. (a \o c)[Len(a) + j] = c[j] /\ (b \o d)[Len(b) + j] = d[j]
      <4>1. j \in 1..Len(c)
        BY <2>2
      <4> HIDE DEF j
      <4>2. (a \o c)[Len(a) + j] = c[j]
        BY ONLY <4>1, a \in Slots(Rows), c \in Slots(Rows), ConcatFacts
      <4>3. (b \o d)[Len(b) + j] = d[j]
        BY ONLY <3>1, b \in Slots(Rows), d \in Slots(Rows), ConcatFacts
      <4> QED BY <4>2, <4>3
    <3>3. (a \o c)[i] = c[j] /\ (b \o d)[i] = d[j]
      BY <3>1, <3>2
    <3> HIDE DEF j
    <3> QED BY <2>2, <3>3 DEF Before, j
  <2> QED BY <2>1, <2>2, ConcatFacts
<1> QED BY <1>1, <1>2 DEF Before

LEMMA BeforeLonger ==
  ASSUME NEW a \in Slots(Rows), NEW b \in Slots(Rows)
  PROVE  Before(a, a \o b)
  BY ConcatFacts DEF Before

LEMMA BeforeTrans ==
  ASSUME NEW a \in Slots(Rows), NEW b \in Slots(Rows), NEW c \in Slots(Rows),
         Before(a, b), Before(b, c)
  PROVE  Before(a, c)
<1>1. Len(a) \in Nat /\ Len(b) \in Nat /\ Len(c) \in Nat
  BY DEF Slots
<1> QED BY <1>1 DEF Before

LEMMA SlotsUpToRec ==
  ASSUME NEW page, NEW n \in Nat, Typed(page, n)
  PROVE  /\ SlotsUpTo(page, n) \in Slots(Rows) /\ Len(SlotsUpTo(page, n)) \in Nat
         /\ n = 0 => SlotsUpTo(page, n) = <<>>
         /\ n > 0 => SlotsUpTo(page, n) = SlotsUpTo(page, n - 1) \o SlotsOf(page[n])
<1> DEFINE S == [rec : Rows, start : Nat, deleted : BOOLEAN]
<1>1. \A p \in 1..n : SlotsOf(page[p]) \in Seq(S)
  BY DEF Typed, Slots
<1> HIDE DEF S
<1>2. /\ SlotsUpTo(page, n) \in Seq(S)
      /\ n = 0 => SlotsUpTo(page, n) = <<>>
      /\ n > 0 => SlotsUpTo(page, n) = SlotsUpTo(page, n - 1) \o SlotsOf(page[n])
  BY <1>1, SlotsUpToStep
<1>3. Len(SlotsUpTo(page, n)) \in Nat
  BY <1>2
<1> QED BY <1>2, <1>3 DEF Slots, S

\* The step every induction over pages takes: from the pages up to n - 1.
LEMMA LastPageStep ==
  ASSUME NEW page, NEW n \in Nat, Typed(page, n), NEW k \in 1..n
  PROVE  /\ SlotsUpTo(page, k) = SlotsUpTo(page, k - 1) \o SlotsOf(page[k])
         /\ SlotsUpTo(page, k - 1) \in Slots(Rows) /\ SlotsOf(page[k]) \in Slots(Rows)
         /\ SlotsUpTo(page, k) \in Slots(Rows)
         /\ Len(SlotsUpTo(page, k)) = Len(SlotsUpTo(page, k - 1)) + Len(SlotsOf(page[k]))
         /\ Len(SlotsUpTo(page, k - 1)) \in Nat /\ Len(SlotsOf(page[k])) \in Nat
<1>1. k \in Nat /\ k - 1 \in Nat /\ k > 0 /\ Typed(page, k) /\ Typed(page, k - 1)
  BY DEF Typed
<1>2. SlotsOf(page[k]) \in Slots(Rows)
  BY DEF Typed
<1>3. /\ SlotsUpTo(page, k) = SlotsUpTo(page, k - 1) \o SlotsOf(page[k])
      /\ SlotsUpTo(page, k - 1) \in Slots(Rows) /\ SlotsUpTo(page, k) \in Slots(Rows)
  BY <1>1, SlotsUpToRec
<1> QED BY <1>2, <1>3, ConcatFacts

\* Pages as long as others add up to as many slots.
LEMMA SumsSameLen ==
  ASSUME NEW page, NEW page2, NEW n \in Nat, Typed(page, n), Typed(page2, n),
         \A p \in 1..n : Len(SlotsOf(page[p])) = Len(SlotsOf(page2[p]))
  PROVE  \A k \in 0..n : Len(SlotsUpTo(page, k)) = Len(SlotsUpTo(page2, k))
<1> DEFINE T == {k \in 0..n : Len(SlotsUpTo(page, k)) # Len(SlotsUpTo(page2, k))}
<1>1. SUFFICES ASSUME T # {} PROVE FALSE
  OBVIOUS
<1>2. PICK k \in T : \A j \in T : k <= j
  <2>1. T \subseteq Nat
    OBVIOUS
  <2> HIDE DEF T
  <2> QED BY <1>1, <2>1, LeastNatural
<1>3. k # 0
  <2>1. Typed(page, 0) /\ Typed(page2, 0)
    BY DEF Typed
  <2> QED BY <1>2, <2>1, SlotsUpToRec
<1>4. k \in 1..n /\ k - 1 \in 0..n /\ k - 1 \notin T
  BY <1>2, <1>3
<1>5. Len(SlotsUpTo(page, k - 1)) = Len(SlotsUpTo(page2, k - 1))
  BY <1>4
<1>6. Len(SlotsUpTo(page, k)) = Len(SlotsUpTo(page2, k))
  <2>1. Len(SlotsUpTo(page, k)) = Len(SlotsUpTo(page, k - 1)) + Len(SlotsOf(page[k]))
    BY <1>4, LastPageStep
  <2>2. Len(SlotsUpTo(page2, k)) = Len(SlotsUpTo(page2, k - 1)) + Len(SlotsOf(page2[k]))
    BY <1>4, LastPageStep
  <2>3. Len(SlotsOf(page[k])) = Len(SlotsOf(page2[k]))
    BY <1>4
  <2> QED BY ONLY <1>5, <2>1, <2>2, <2>3
<1> QED BY <1>2, <1>6

\* The sum of later states of pages is a later state of their sum, if no page
\* but the last has more slots.
LEMMA SumsBefore ==
  ASSUME NEW page, NEW page2, NEW n \in Nat, Typed(page, n), Typed(page2, n),
         \A p \in 1..n : Before(SlotsOf(page[p]), SlotsOf(page2[p])),
         \A p \in 1..n-1 : Len(SlotsOf(page[p])) = Len(SlotsOf(page2[p]))
  PROVE  Before(SlotsUpTo(page, n), SlotsUpTo(page2, n))
<1> DEFINE T == {k \in 0..n : ~Before(SlotsUpTo(page, k), SlotsUpTo(page2, k))}
<1>1. SUFFICES ASSUME T # {} PROVE FALSE
  <2>1. T = {} => n \notin T
    OBVIOUS
  <2> QED BY <1>1, <2>1
<1>2. PICK k \in T : \A j \in T : k <= j
  <2>1. T \subseteq Nat
    OBVIOUS
  <2> HIDE DEF T
  <2> QED BY <1>1, <2>1, LeastNatural
<1>3. k # 0
  <2>1. Typed(page, 0) /\ Typed(page2, 0)
    BY DEF Typed
  <2>2. SlotsUpTo(page, 0) = <<>> /\ SlotsUpTo(page2, 0) = <<>>
    BY <2>1, SlotsUpToRec
  <2> QED BY <1>2, <2>2 DEF Before
<1>4. k \in 1..n /\ k - 1 \in 0..n /\ k - 1 \notin T
  BY <1>2, <1>3
<1>5. Before(SlotsUpTo(page, k - 1), SlotsUpTo(page2, k - 1))
  BY <1>4
<1>6. Len(SlotsUpTo(page, k - 1)) = Len(SlotsUpTo(page2, k - 1))
  <2>1. n - 1 \in Nat /\ k - 1 \in 0..n-1 /\ Typed(page, n - 1) /\ Typed(page2, n - 1)
    BY <1>4 DEF Typed
  <2> QED BY <2>1, SumsSameLen
<1>7. Before(SlotsUpTo(page, k), SlotsUpTo(page2, k))
  <2> DEFINE a == SlotsUpTo(page, k - 1)
             a2 == SlotsUpTo(page2, k - 1)
             d == SlotsOf(page[k])
             d2 == SlotsOf(page2[k])
  <2>1. Before(d, d2) /\ Before(a, a2) /\ Len(a) = Len(a2)
    BY <1>4, <1>5, <1>6
  <2>2. SlotsUpTo(page, k) = a \o d /\ a \in Slots(Rows) /\ d \in Slots(Rows)
    BY <1>4, LastPageStep
  <2>3. SlotsUpTo(page2, k) = a2 \o d2 /\ a2 \in Slots(Rows) /\ d2 \in Slots(Rows)
    BY <1>4, LastPageStep
  <2> HIDE DEF a, a2, d, d2
  <2>4. Before(a \o d, a2 \o d2)
    BY <2>1, <2>2, <2>3, BeforeConcat
  <2> QED BY <2>2, <2>3, <2>4
<1> QED BY <1>2, <1>7

\* More pages, more slots.
LEMMA SumsLonger ==
  ASSUME NEW page, NEW m \in Nat, Typed(page, m), NEW n \in 0..m
  PROVE  \E c \in Slots(Rows) : SlotsUpTo(page, m) = SlotsUpTo(page, n) \o c
<1> DEFINE P(k) == \E c \in Slots(Rows) : SlotsUpTo(page, k) = SlotsUpTo(page, n) \o c
           T == {k \in n..m : ~P(k)}
<1>1. SUFFICES ASSUME T # {} PROVE FALSE
  <2>1. T = {} => m \notin T
    OBVIOUS
  <2>2. m \in n..m
    OBVIOUS
  <2> HIDE DEF P
  <2> QED BY <1>1, <2>1, <2>2 DEF P
<1> HIDE DEF P
<1>2. PICK k \in T : \A j \in T : k <= j
  <2>1. T \subseteq Nat
    OBVIOUS
  <2> HIDE DEF T
  <2> QED BY <1>1, <2>1, LeastNatural
<1> DEFINE S == [rec : Rows, start : Nat, deleted : BOOLEAN]
<1>3. n \in Nat /\ SlotsUpTo(page, n) \in Seq(S)
  <2>1. n \in Nat /\ Typed(page, n)
    BY DEF Typed
  <2> QED BY <2>1, SlotsUpToRec DEF Slots
<1> HIDE DEF S
<1>4. k # n
  <2>1. SlotsUpTo(page, n) = SlotsUpTo(page, n) \o <<>> /\ <<>> \in Slots(Rows)
    BY <1>3, ConcatEmptySeq DEF Slots
  <2>2. P(n)
    BY <2>1 DEF P
  <2> QED BY <1>2, <2>2
<1>5. k \in 1..m /\ k - 1 \in n..m /\ k - 1 \notin T
  BY <1>2, <1>3, <1>4
<1>6. PICK c \in Slots(Rows) : SlotsUpTo(page, k - 1) = SlotsUpTo(page, n) \o c
  BY <1>5 DEF P
<1> DEFINE d == SlotsOf(page[k])
<1>7. SlotsUpTo(page, k) = SlotsUpTo(page, k - 1) \o d /\ d \in Slots(Rows)
  BY <1>5, LastPageStep
<1> HIDE DEF d
<1>8. (SlotsUpTo(page, n) \o c) \o d = SlotsUpTo(page, n) \o (c \o d)
  <2>1. c \in Seq(S) /\ d \in Seq(S)
    BY <1>7 DEF Slots, S
  <2>2. SlotsUpTo(page, n) \in Seq(S)
    BY <1>3
  <2> QED BY ONLY <2>1, <2>2, ConcatAssociative
<1>9. P(k)
  BY <1>6, <1>7, <1>8, ConcatFacts DEF P
<1> QED BY <1>2, <1>9

\* Where the slots of a page are among those of all pages.
LEMMA SlotAt ==
  ASSUME NEW page, NEW n \in Nat, Typed(page, n), NEW p \in 1..n
  PROVE  LET b == SlotsBefore(page, p) IN
         /\ b \in Nat /\ Len(SlotsOf(page[p])) \in Nat /\ Len(SlotsUpTo(page, n)) \in Nat
         /\ b + Len(SlotsOf(page[p])) <= Len(SlotsUpTo(page, n))
         /\ p = n => b + Len(SlotsOf(page[p])) = Len(SlotsUpTo(page, n))
         /\ p + 1 \in 1..n => SlotsBefore(page, p + 1) = b + Len(SlotsOf(page[p]))
         /\ \A k \in 1..Len(SlotsOf(page[p])) :
              SlotsUpTo(page, n)[b + k] = SlotsOf(page[p])[k]
<1> DEFINE a == SlotsUpTo(page, p - 1)
           b == Len(a)
           d == SlotsOf(page[p])
<1>1. /\ SlotsUpTo(page, p) = a \o d /\ a \in Slots(Rows) /\ d \in Slots(Rows)
      /\ a \o d \in Slots(Rows)
      /\ Len(a \o d) = b + Len(d) /\ b \in Nat /\ Len(d) \in Nat
  BY LastPageStep
<1>2. PICK c \in Slots(Rows) : SlotsUpTo(page, n) = (a \o d) \o c
  <2>1. p \in 0..n
    OBVIOUS
  <2> QED BY <1>1, <2>1, SumsLonger
<1>3. SlotsBefore(page, p) = b /\ SlotsBefore(page, p + 1) = Len(a \o d)
  <2>1. (p + 1) - 1 = p
    OBVIOUS
  <2> QED BY <1>1, <2>1 DEF SlotsBefore
<1> HIDE DEF a, d
<1>4. ASSUME NEW k \in 1..Len(d)
      PROVE  SlotsUpTo(page, n)[b + k] = d[k]
  <2>1. b + k \in 1..Len(a \o d)
    BY <1>1
  <2>2. (a \o d)[b + k] = d[k]
    BY <1>1, ConcatFacts
  <2>3. ((a \o d) \o c)[b + k] = (a \o d)[b + k]
    BY <1>1, <2>1, ConcatFacts
  <2> QED BY <1>2, <2>2, <2>3
<1>5. Len(SlotsUpTo(page, n)) \in Nat /\ b + Len(d) <= Len(SlotsUpTo(page, n))
  <2>1. Len(SlotsUpTo(page, n)) = Len(a \o d) + Len(c) /\ Len(c) \in Nat
    BY <1>1, <1>2, ConcatFacts
  <2> QED BY <1>1, <2>1
<1> QED BY <1>1, <1>3, <1>4, <1>5 DEF d

\* One slot of one page marked is one slot of all pages marked.
LEMMA SumsOneGone ==
  ASSUME NEW page, NEW page2, NEW n \in Nat, Typed(page, n), Typed(page2, n),
         NEW p \in 1..n, \A q \in 1..n : q # p => SlotsOf(page2[q]) = SlotsOf(page[q]),
         NEW i \in 0..Len(SlotsOf(page[p])) - 1,
         OneGone(SlotsOf(page2[p]), SlotsOf(page[p]), i)
  PROVE  OneGone(SlotsUpTo(page2, n), SlotsUpTo(page, n), SlotsBefore(page, p) + i)
<1> DEFINE b == SlotsBefore(page, p)
           P(k) == OneGone(SlotsUpTo(page2, k), SlotsUpTo(page, k), b + i)
           T == {k \in p..n : ~P(k)}
<1>1. SUFFICES ASSUME T # {} PROVE FALSE
  <2>1. T = {} => n \notin T
    OBVIOUS
  <2>2. n \in p..n
    OBVIOUS
  <2> HIDE DEF P
  <2> QED BY <1>1, <2>1, <2>2 DEF P
<1> HIDE DEF P
<1>2. PICK k \in T : \A j \in T : k <= j
  <2>1. T \subseteq Nat
    OBVIOUS
  <2> HIDE DEF T
  <2> QED BY <1>1, <2>1, LeastNatural
<1>3. k \in 1..n /\ k \in p..n /\ (k # p => k - 1 \in p..n /\ k - 1 \notin T)
  BY <1>2
<1> DEFINE a == SlotsUpTo(page, k - 1)
           a2 == SlotsUpTo(page2, k - 1)
           d == SlotsOf(page[k])
           d2 == SlotsOf(page2[k])
<1>4. /\ SlotsUpTo(page, k) = a \o d /\ a \in Slots(Rows) /\ d \in Slots(Rows)
      /\ Len(a \o d) = Len(a) + Len(d) /\ Len(a) \in Nat /\ Len(d) \in Nat
  BY <1>3, LastPageStep
<1>5. /\ SlotsUpTo(page2, k) = a2 \o d2 /\ a2 \in Slots(Rows) /\ d2 \in Slots(Rows)
      /\ Len(a2 \o d2) = Len(a2) + Len(d2)
  BY <1>3, LastPageStep
<1>6. b \in Nat /\ b + i \in Nat /\ i \in Nat
  <2>1. b \in Nat /\ Len(SlotsOf(page[p])) \in Nat
    BY SlotAt
  <2> HIDE DEF b
  <2> QED BY <2>1
<1>7. CASE k = p
  <2>1. a2 = a
    <3> DEFINE S == [rec : Rows, start : Nat, deleted : BOOLEAN]
    <3>0. p - 1 \in Nat /\ \A q \in 1..p-1 : q \in 1..n /\ q # p
      OBVIOUS
    <3>1. /\ p - 1 \in Nat /\ SameSlots(page, page2, p - 1)
          /\ \A q \in 1..p-1 : SlotsOf(page[q]) \in Seq(S)
      BY <3>0 DEF SameSlots, Typed, Slots
    <3> HIDE DEF S
    <3> QED BY <1>7, <3>1, SlotsUpToSame
  <2>2. OneGone(d2, d, i) /\ b = Len(a) /\ i + 1 \in 1..Len(d)
    BY <1>7, <1>4 DEF SlotsBefore
  <2> HIDE DEF a, a2, d, d2, b
  <2>3. Len(a2 \o d2) = Len(a \o d)
    BY <1>4, <1>5, <2>1, <2>2 DEF OneGone
  <2>4. ASSUME NEW j \in 1..Len(a \o d)
        PROVE  /\ (a2 \o d2)[j].rec = (a \o d)[j].rec
               /\ (a2 \o d2)[j].deleted = IF j = (b + i) + 1 THEN TRUE ELSE (a \o d)[j].deleted
    <3>1. CASE j \in 1..Len(a)
      <4>1. (a2 \o d2)[j] = a[j] /\ (a \o d)[j] = a[j] /\ j # (b + i) + 1
        BY <1>4, <1>5, <1>6, <2>1, <2>2, <3>1, ConcatFacts
      <4> QED BY <4>1
    <3>2. CASE j - Len(a) \in 1..Len(d)
      <4> DEFINE l == j - Len(a)
      <4>1. l \in 1..Len(d) /\ l \in 1..Len(d2) /\ j = Len(a) + l /\ j = Len(a2) + l
        BY <1>4, <2>1, <2>2, <3>2 DEF OneGone
      <4>2. (a2 \o d2)[Len(a2) + l] = d2[l] /\ (a \o d)[Len(a) + l] = d[l]
        <5> HIDE DEF l
        <5>1. a \in Slots(Rows) /\ d \in Slots(Rows) /\ a2 \in Slots(Rows) /\ d2 \in Slots(Rows)
          BY <1>4, <1>5
        <5>2. (a2 \o d2)[Len(a2) + l] = d2[l]
          BY ONLY <4>1, <5>1, ConcatFacts
        <5>3. (a \o d)[Len(a) + l] = d[l]
          BY ONLY <4>1, <5>1, ConcatFacts
        <5> QED BY <5>2, <5>3
      <4>3. j = (b + i) + 1 <=> l = i + 1
        BY <1>4, <1>6, <2>2, <4>1
      <4>4. (a2 \o d2)[j] = d2[l] /\ (a \o d)[j] = d[l]
        BY <4>1, <4>2
      <4> HIDE DEF l
      <4> QED BY <2>2, <4>1, <4>3, <4>4 DEF OneGone
    <3> QED BY <1>4, <3>1, <3>2, ConcatFacts
  <2>5. P(k)
    BY <1>4, <1>5, <2>3, <2>4 DEF P, OneGone
  <2> QED BY <1>2, <2>5
<1>8. CASE k # p
  <2>1. OneGone(a2, a, b + i) /\ d2 = d
    BY <1>3, <1>8 DEF P
  <2>2. b + i + 1 <= Len(a)
    <3>1. k - 1 \in Nat /\ p \in 1..k-1 /\ Typed(page, k - 1)
      BY <1>3, <1>8 DEF Typed
    <3>2. b + Len(SlotsOf(page[p])) <= Len(a) /\ Len(SlotsOf(page[p])) \in Nat
      BY <3>1, SlotAt
    <3> QED BY <1>4, <1>6, <3>2
  <2> HIDE DEF a, a2, d, d2, b
  <2>3. Len(a2) = Len(a) /\ Len(a2 \o d2) = Len(a \o d)
    BY <1>4, <1>5, <2>1 DEF OneGone
  <2>4. ASSUME NEW j \in 1..Len(a \o d)
        PROVE  /\ (a2 \o d2)[j].rec = (a \o d)[j].rec
               /\ (a2 \o d2)[j].deleted = IF j = (b + i) + 1 THEN TRUE ELSE (a \o d)[j].deleted
    <3>1. CASE j \in 1..Len(a)
      <4>1. (a2 \o d2)[j] = a2[j] /\ (a \o d)[j] = a[j]
        BY <1>4, <1>5, <2>3, <3>1, ConcatFacts
      <4> QED BY <2>1, <3>1, <4>1 DEF OneGone
    <3>2. CASE j - Len(a) \in 1..Len(d)
      <4> DEFINE l == j - Len(a)
      <4>1. /\ l \in 1..Len(d) /\ j = Len(a) + l /\ j = Len(a2) + l
            /\ j # (b + i) + 1
        BY <1>4, <1>6, <2>2, <2>3, <3>2
      <4>2. (a2 \o d2)[Len(a2) + l] = d[l] /\ (a \o d)[Len(a) + l] = d[l]
        <5> HIDE DEF l
        <5>1. (a \o d)[Len(a) + l] = d[l]
          BY <1>4, <4>1, ConcatFacts
        <5>2. l \in 1..Len(d2) /\ d2[l] = d[l]
          BY <2>1, <4>1
        <5>3. (a2 \o d2)[Len(a2) + l] = d2[l]
          BY <1>5, <5>2, ConcatFacts
        <5> QED BY <5>1, <5>2, <5>3
      <4>3. (a2 \o d2)[j] = d[l] /\ (a \o d)[j] = d[l]
        BY <4>1, <4>2
      <4> HIDE DEF l
      <4> QED BY <4>1, <4>3
    <3> QED BY <1>4, <3>1, <3>2, ConcatFacts
  <2>5. P(k)
    BY <1>4, <1>5, <2>3, <2>4 DEF P, OneGone
  <2> QED BY <1>2, <2>5
<1> QED BY <1>7, <1>8
-----------------------------------------------------------------------------
\* What a crash would leave, and how far scanners are, in the rows of a table.

Pages(s) == [p \in PageIds |-> Latest(s, p)]

\* The pages the header in c counts.
InFile(c) == IF c = Zero THEN 1 ELSE c.phyNum

\* The pages the file's header counts are in the file in an earlier state, and
\* no page but the last of them has got rows since.
SavedOK(s) ==
  /\ InFile(Latest(s, 0)) = InFile(s.disk[0]) /\ InFile(s.disk[0]) <= s.next
  /\ \A p \in 1..InFile(s.disk[0]) - 1 : Before(SlotsOf(s.disk[p]), SlotsOf(Latest(s, p)))
  /\ \A p \in 1..InFile(s.disk[0]) - 2 : Len(SlotsOf(s.disk[p])) = Len(SlotsOf(Latest(s, p)))

\* A scanner is on a page in use; slots of that page its index lacks are newer
\* than it, and when it has ended it has passed all it was opened for, unless
\* it stopped at a page without rows.
PlaceOK(s, x) ==
  x # NoScan =>
    /\ x.pid \in 1..s.next-1
    /\ x.slot <= x.count /\ x.count <= Len(SlotsOf(Latest(s, x.pid)))
    /\ x.need <= Len(PoolSlots(s))
    /\ \/ x.count = Len(SlotsOf(Latest(s, x.pid)))
       \/ x.need <= SlotsBefore(Pages(s), x.pid) + x.count
    /\ x.ended /\ ~StoppedEarly(x) => x.need <= SlotsBefore(Pages(s), x.pid) + x.slot

\* What a call does at most to the rows: pages with rows are added, the last
\* page gets rows, any get marks, and the file gets what pages read.
Grows(t, s) ==
  /\ s.next <= t.next /\ \A p \in s.next..t.next-1 : SlotsOf(Latest(t, p)) # <<>>
  /\ \A p \in 1..s.next-1 : Before(SlotsOf(Latest(s, p)), SlotsOf(Latest(t, p)))
  /\ \A p \in 1..s.next-2 : Len(SlotsOf(Latest(s, p))) = Len(SlotsOf(Latest(t, p)))
  /\ OnDisk(t, s) /\ Latest(t, 0) = Latest(s, 0)

LEMMA PoolTyped ==
  ASSUME NEW s, NEW h, Ready(s, h)
  PROVE  /\ s.next \in 1..LastPid+1 /\ s.next \in Nat /\ LastPid \in Nat
         /\ \A p \in 1..s.next-1 : p \in PageIds \ {0} /\ Pages(s)[p] = Latest(s, p)
         /\ \A n \in 0..s.next-1 : Typed(Pages(s), n)
         /\ PoolSlots(s) = SlotsUpTo(Pages(s), s.next - 1)
         /\ PoolSlots(s) \in Slots(Rows) /\ Len(PoolSlots(s)) \in Nat
<1>1. s.next \in 1..LastPid+1 /\ s.next \in Nat /\ LastPid \in Nat
  BY PoolAssumption DEF Ready, HeadOK
<1>2. \A p \in 1..s.next-1 : p \in PageIds \ {0} /\ Pages(s)[p] = Latest(s, p)
  BY <1>1 DEF PageIds, Pages
<1>3. \A n \in 0..s.next-1 : Typed(Pages(s), n)
  <2>1. \A p \in 1..s.next-1 : SlotsOf(Latest(s, p)) \in Slots(Rows)
    BY <1>2, PageSlotsTyped DEF Ready
  <2> QED BY <1>1, <1>2, <2>1 DEF Typed
<1>4. PoolSlots(s) \in Slots(Rows) /\ Len(PoolSlots(s)) \in Nat
  BY <1>1, PoolSlotsTyped DEF Ready
<1> QED BY <1>1, <1>2, <1>3, <1>4 DEF PoolSlots, Pages

LEMMA FileTyped ==
  ASSUME NEW d, ImageOK(d[0]), \A p \in PageIds \ {0} : PageOK(d[p])
  PROVE  /\ InFile(d[0]) \in 1..LastPid+1 /\ InFile(d[0]) \in Nat
         /\ \A n \in 0..InFile(d[0]) - 1 : Typed(d, n)
         /\ FileSlots(d) = SlotsUpTo(d, InFile(d[0]) - 1)
         /\ FileSlots(d) \in Slots(Rows) /\ Len(FileSlots(d)) \in Nat
<1>1. InFile(d[0]) \in 1..LastPid+1 /\ InFile(d[0]) \in Nat /\ LastPid \in Nat
  BY PoolAssumption DEF InFile, ImageOK
<1>2. \A n \in 0..InFile(d[0]) - 1 : Typed(d, n)
  <2>1. \A p \in 1..InFile(d[0]) - 1 : p \in PageIds \ {0}
    BY <1>1 DEF PageIds
  <2>2. \A p \in 1..InFile(d[0]) - 1 : SlotsOf(d[p]) \in Slots(Rows)
    BY <2>1, SlotsTyped DEF PageOK
  <2> QED BY <1>1, <2>2 DEF Typed
<1> DEFINE n == InFile(d[0]) - 1
<1>3. n \in Nat /\ Typed(d, n) /\ Typed(d, 0)
  BY <1>1, <1>2
<1>4. d[0] = Zero => n = 0
  BY DEF InFile
<1>5. d[0] # Zero => n = d[0].phyNum - 1
  BY DEF InFile
<1> HIDE DEF n
<1>6. SlotsUpTo(d, n) \in Slots(Rows) /\ Len(SlotsUpTo(d, n)) \in Nat
      /\ SlotsUpTo(d, 0) = <<>>
  BY <1>3, SlotsUpToRec
<1>7. FileSlots(d) = SlotsUpTo(d, n)
  BY <1>4, <1>5, <1>6 DEF FileSlots
<1> QED BY <1>1, <1>2, <1>6, <1>7 DEF n

LEMMA ReadyFile ==
  ASSUME NEW s, NEW h, Ready(s, h)
  PROVE  ImageOK(s.disk[0]) /\ \A p \in PageIds \ {0} : PageOK(s.disk[p])
  BY DEF Ready, HeadOK, PagesOK

LEMMA BeforeSame ==
  ASSUME NEW a \in Slots(Rows)
  PROVE  Before(a, a)
<1>1. Len(a) \in Nat
  BY DEF Slots
<1> QED BY <1>1 DEF Before

\* Rows that grow stay as they are, in the pool and in the file.
LEMMA GrowsSaves ==
  ASSUME NEW s, NEW h, Ready(s, h), NEW t, NEW k, Ready(t, k),
         SavedOK(s), Grows(t, s)
  PROVE  /\ SavedOK(t) /\ Before(PoolSlots(s), PoolSlots(t))
         /\ Before(FileSlots(s.disk), FileSlots(t.disk))
         /\ Before(FileSlots(t.disk), PoolSlots(t))
<1> DEFINE m == InFile(s.disk[0]) - 1
           n == s.next - 1
<1>1. /\ s.next \in Nat /\ t.next \in Nat /\ n \in Nat /\ n \in 0..t.next-1 /\ t.next - 1 \in Nat
      /\ \A p \in 1..n : p \in PageIds \ {0} /\ p \in 1..t.next-1
      /\ Typed(Pages(s), n) /\ Typed(Pages(t), n) /\ Typed(Pages(t), t.next - 1)
      /\ \A p \in 1..n : Pages(s)[p] = Latest(s, p) /\ Pages(t)[p] = Latest(t, p)
      /\ PoolSlots(s) = SlotsUpTo(Pages(s), n) /\ PoolSlots(t) = SlotsUpTo(Pages(t), t.next - 1)
      /\ PoolSlots(s) \in Slots(Rows) /\ PoolSlots(t) \in Slots(Rows)
  BY PoolTyped DEF Grows
<1>2. InFile(t.disk[0]) = m + 1 /\ InFile(Latest(t, 0)) = m + 1 /\ InFile(s.disk[0]) = m + 1
  <2>1. InFile(t.disk[0]) = InFile(s.disk[0]) /\ InFile(Latest(t, 0)) = InFile(s.disk[0])
    BY ContentFacts DEF SavedOK, Grows, OnDisk
  <2>2. InFile(s.disk[0]) \in Nat
    BY ReadyFile, FileTyped
  <2> QED BY <2>1, <2>2
<1>3. /\ m \in Nat /\ m <= n
      /\ Typed(s.disk, m) /\ Typed(t.disk, m)
      /\ FileSlots(s.disk) = SlotsUpTo(s.disk, m) /\ FileSlots(t.disk) = SlotsUpTo(t.disk, m)
      /\ FileSlots(s.disk) \in Slots(Rows) /\ FileSlots(t.disk) \in Slots(Rows)
  <2>1. InFile(s.disk[0]) \in 1..LastPid+1 /\ InFile(s.disk[0]) \in Nat /\ LastPid \in Nat
    BY ReadyFile, FileTyped, PoolTyped
  <2>2. m \in 0..InFile(s.disk[0]) - 1 /\ m \in 0..InFile(t.disk[0]) - 1 /\ m \in Nat /\ m <= n
    BY <1>1, <1>2, <2>1 DEF SavedOK
  <2>3. (m + 1) - 1 = m
    BY <2>2
  <2> HIDE DEF n
  <2> QED BY <1>2, <2>2, <2>3, ReadyFile, FileTyped
<1> HIDE DEF m
<1>11. ASSUME NEW i \in Nat, i \in 0..t.next-1
       PROVE  \E c \in Slots(Rows) : PoolSlots(t) = SlotsUpTo(Pages(t), i) \o c
  <2> DEFINE l == t.next - 1
  <2>1. l \in Nat /\ i \in 0..l /\ Typed(Pages(t), l) /\ PoolSlots(t) = SlotsUpTo(Pages(t), l)
    BY <1>1, <1>11
  <2> HIDE DEF l
  <2> QED BY <2>1, SumsLonger
<1>4. ASSUME NEW p \in 1..m
      PROVE  /\ p \in PageIds /\ p \in 1..n
             /\ SlotsOf(s.disk[p]) \in Slots(Rows) /\ SlotsOf(t.disk[p]) \in Slots(Rows)
             /\ SlotsOf(Latest(s, p)) \in Slots(Rows) /\ SlotsOf(Latest(t, p)) \in Slots(Rows)
             /\ Before(SlotsOf(s.disk[p]), SlotsOf(Latest(s, p)))
             /\ Before(SlotsOf(Latest(s, p)), SlotsOf(Latest(t, p)))
             /\ t.disk[p] \in {s.disk[p], Latest(s, p)}
             /\ p < m => /\ Len(SlotsOf(s.disk[p])) = Len(SlotsOf(Latest(s, p)))
                         /\ Len(SlotsOf(Latest(s, p))) = Len(SlotsOf(Latest(t, p)))
  <2>1. p \in 1..n /\ p \in PageIds
    BY <1>1, <1>3
  <2>2. /\ SlotsOf(s.disk[p]) \in Slots(Rows) /\ SlotsOf(t.disk[p]) \in Slots(Rows)
        /\ SlotsOf(Latest(s, p)) \in Slots(Rows) /\ SlotsOf(Latest(t, p)) \in Slots(Rows)
    <3> HIDE DEF n
    <3> QED BY <1>1, <1>3, <2>1 DEF Typed
  <2>3. Before(SlotsOf(s.disk[p]), SlotsOf(Latest(s, p)))
    BY DEF SavedOK, m
  <2>4. Before(SlotsOf(Latest(s, p)), SlotsOf(Latest(t, p))) /\ t.disk[p] \in {s.disk[p], Latest(s, p)}
    BY <2>1 DEF Grows, OnDisk
  <2>5. p < m => p \in 1..InFile(s.disk[0]) - 2 /\ p \in 1..s.next-2
    BY <1>1, <1>2, <1>3, <2>1
  <2> QED BY <2>1, <2>2, <2>3, <2>4, <2>5 DEF SavedOK, Grows
<1>5. ASSUME NEW p \in 1..m
      PROVE  /\ Before(SlotsOf(t.disk[p]), SlotsOf(Latest(t, p)))
             /\ Before(SlotsOf(s.disk[p]), SlotsOf(t.disk[p]))
             /\ p < m => /\ Len(SlotsOf(t.disk[p])) = Len(SlotsOf(Latest(t, p)))
                         /\ Len(SlotsOf(s.disk[p])) = Len(SlotsOf(t.disk[p]))
  BY <1>4, BeforeTrans, BeforeSame
<1>6. SavedOK(t)
  <2>1. m + 1 <= t.next /\ (m + 1) - 1 = m /\ \A p \in 1..(m + 1) - 2 : p \in 1..m /\ p < m
    BY <1>1, <1>3
  <2> QED BY <1>2, <1>5, <2>1 DEF SavedOK
<1>7. Before(FileSlots(s.disk), FileSlots(t.disk))
  <2>1. \A p \in 1..m-1 : p \in 1..m /\ p < m
    BY <1>3
  <2> QED BY <1>3, <1>5, <2>1, SumsBefore
<1>8. Before(PoolSlots(s), PoolSlots(t))
  <2>1. \A p \in 1..n : Before(SlotsOf(Pages(s)[p]), SlotsOf(Pages(t)[p]))
    BY <1>1 DEF Grows
  <2>2. \A p \in 1..n-1 : Len(SlotsOf(Pages(s)[p])) = Len(SlotsOf(Pages(t)[p]))
    <3>1. \A p \in 1..n-1 : p \in 1..n /\ p \in 1..s.next-2
      BY <1>1
    <3> QED BY <1>1, <3>1 DEF Grows
  <2> HIDE DEF n
  <2>3. Before(SlotsUpTo(Pages(s), n), SlotsUpTo(Pages(t), n))
    BY <1>1, <2>1, <2>2, SumsBefore
  <2>4. PICK c \in Slots(Rows) : PoolSlots(t) = SlotsUpTo(Pages(t), n) \o c
    BY <1>1, <1>11
  <2>5. SlotsUpTo(Pages(t), n) \in Slots(Rows)
    BY <1>1, SlotsUpToRec
  <2>6. Before(SlotsUpTo(Pages(t), n), PoolSlots(t))
    BY ONLY <2>4, <2>5, BeforeLonger
  <2>7. /\ PoolSlots(s) = SlotsUpTo(Pages(s), n)
        /\ PoolSlots(s) \in Slots(Rows) /\ PoolSlots(t) \in Slots(Rows)
    BY <1>1
  <2> QED BY ONLY <2>3, <2>5, <2>6, <2>7, BeforeTrans
<1>9. Before(FileSlots(t.disk), PoolSlots(t))
  <2>1. /\ m \in 0..t.next-1 /\ Typed(Pages(t), m)
        /\ \A p \in 1..m : Pages(t)[p] = Latest(t, p)
    BY <1>1, <1>3 DEF Typed
  <2>2. \A p \in 1..m-1 : p \in 1..m /\ p < m
    BY <1>3
  <2>3. Before(SlotsUpTo(t.disk, m), SlotsUpTo(Pages(t), m))
    BY <1>3, <1>5, <2>1, <2>2, SumsBefore
  <2>4. PICK c \in Slots(Rows) : PoolSlots(t) = SlotsUpTo(Pages(t), m) \o c
    BY <1>3, <1>11, <2>1
  <2>5. SlotsUpTo(Pages(t), m) \in Slots(Rows)
    BY <1>3, <2>1, SlotsUpToRec
  <2>6. Before(SlotsUpTo(Pages(t), m), PoolSlots(t))
    BY ONLY <2>4, <2>5, BeforeLonger
  <2>7. /\ FileSlots(t.disk) = SlotsUpTo(t.disk, m)
        /\ FileSlots(t.disk) \in Slots(Rows) /\ PoolSlots(t) \in Slots(Rows)
    BY <1>1, <1>3
  <2> QED BY ONLY <2>3, <2>5, <2>6, <2>7, BeforeTrans
<1> QED BY <1>6, <1>7, <1>8, <1>9

\* The rows of slots; a gap in a table or in its file; and what a step that
\* leaves the file d may do: bring in rows of the table, and no gap.
Recs(slots) == {slots[i].rec : i \in DOMAIN slots}
Torn(s) == PoolGap(s) \/ FileGap(s.disk)
WrittenTo(d, s) == FileRows(d) \subseteq FileRows(s.disk) \cup Recs(PoolSlots(s))
Kept(t, s) == WrittenTo(t.disk, s) /\ (Torn(t) => Torn(s))

LEMMA GapsAre ==
  ASSUME NEW s, NEW h, Ready(s, h)
  PROVE  /\ PoolGap(s) <=> \E p \in 2..s.next-1 : SlotsOf(Latest(s, p)) = <<>>
         /\ \A d : FileGap(d) <=> \E p \in 2..InFile(d[0])-1 : SlotsOf(d[p]) = <<>>
<1>1. \A p \in 2..s.next-1 : p \in 1..s.next-1 /\ Pages(s)[p] = Latest(s, p)
  BY PoolTyped
<1>2. PoolGap(s) <=> \E p \in 2..s.next-1 : SlotsOf(Latest(s, p)) = <<>>
  BY <1>1 DEF PoolGap, HasGap, Pages
<1>3. ASSUME NEW d
      PROVE  FileGap(d) <=> \E p \in 2..InFile(d[0])-1 : SlotsOf(d[p]) = <<>>
  <2>1. CASE d[0] = Zero
    <3>1. ~(\E p \in 2..InFile(d[0])-1 : SlotsOf(d[p]) = <<>>)
      BY <2>1 DEF InFile
    <3> QED BY <2>1, <3>1 DEF FileGap
  <2>2. CASE d[0] # Zero
    BY <2>2 DEF FileGap, HasGap, InFile
  <2> QED BY <2>1, <2>2
<1> QED BY <1>2, <1>3

\* A row that lies in a page of the pool is one of the table's.
LEMMA DiskRows ==
  ASSUME NEW s, NEW h, Ready(s, h), NEW d,
         \A p \in PageIds : p # 0 => d[p] \in {s.disk[p], Latest(s, p)}
  PROVE  WrittenTo(d, s)
<1> SUFFICES ASSUME NEW p \in RecordPids, NEW i \in DOMAIN SlotsOf(d[p])
             PROVE  SlotsOf(d[p])[i].rec \in FileRows(s.disk) \cup Recs(PoolSlots(s))
  BY DEF WrittenTo, FileRows, RowsIn, ToSet
<1>1. p \in PageIds \ {0}
  BY DEF RecordPids
<1>2. ASSUME NEW q \in RecordPids, NEW k \in DOMAIN SlotsOf(s.disk[q])
      PROVE  SlotsOf(s.disk[q])[k].rec \in FileRows(s.disk)
  BY <1>2 DEF FileRows, RowsIn, ToSet
<1>3. CASE d[p] = s.disk[p]
  BY <1>2, <1>3
<1>4. CASE d[p] = Latest(s, p) /\ s.dir[p] = NoFrame
  BY <1>2, <1>4 DEF Latest
<1>5. CASE d[p] = Latest(s, p) /\ s.dir[p] # NoFrame
  <2> DEFINE n == s.next - 1
             a == SlotsOf(d[p])
             b == SlotsBefore(Pages(s), p)
             all == PoolSlots(s)
  <2>1. p \in 1..n /\ n \in Nat
    BY <1>1, <1>5, PoolTyped DEF Ready, HeadOK
  <2>2. /\ Typed(Pages(s), n) /\ Pages(s)[p] = d[p] /\ all = SlotsUpTo(Pages(s), n)
        /\ all \in Slots(Rows)
    BY <1>5, <2>1, PoolTyped
  <2> HIDE DEF n
  <2>3. /\ b \in Nat /\ Len(a) \in Nat /\ Len(all) \in Nat /\ b + Len(a) <= Len(all)
        /\ \A k \in 1..Len(a) : all[b + k] = a[k]
    BY <2>1, <2>2, SlotAt
  <2>4. a \in Slots(Rows)
    BY <2>1, <2>2 DEF Typed
  <2> HIDE DEF a, b, all
  <2>5. DOMAIN a = 1..Len(a) /\ DOMAIN all = 1..Len(all)
    BY <2>2, <2>4 DEF Slots
  <2>6. i \in 1..Len(a)
    BY <2>5 DEF a
  <2>7. b + i \in DOMAIN all /\ all[b + i] = a[i]
    BY <2>3, <2>5, <2>6
  <2>8. a[i].rec \in Recs(all)
    BY <2>7 DEF Recs
  <2> QED BY <2>8 DEF a, all
<1> QED BY <1>1, <1>3, <1>4, <1>5

LEMMA GrowsWrites ==
  ASSUME NEW s, NEW h, Ready(s, h), NEW t, NEW k, Ready(t, k),
         SavedOK(s), Grows(t, s)
  PROVE  Kept(t, s)
<1>1. WrittenTo(t.disk, s)
  BY DiskRows DEF Grows, OnDisk
<1>2. /\ s.next \in Nat /\ t.next \in Nat
      /\ \A p \in 1..s.next-1 : SlotsOf(Latest(s, p)) \in Slots(Rows)
      /\ \A p \in 1..s.next-1 : p \in PageIds
  <2>1. s.next \in Nat /\ t.next \in Nat /\ \A p \in 1..s.next-1 : p \in PageIds \ {0}
    BY PoolTyped
  <2> QED BY <2>1, PageSlotsTyped DEF Ready
<1>3. ASSUME PoolGap(t) PROVE PoolGap(s)
  <2>1. PICK p \in 2..t.next-1 : SlotsOf(Latest(t, p)) = <<>>
    BY <1>3, GapsAre
  <2>2. p \in 2..s.next-1 /\ p \in 1..s.next-1
    BY <1>2, <2>1 DEF Grows
  <2>3. SlotsOf(Latest(s, p)) = <<>>
    <3>1. Len(SlotsOf(Latest(s, p))) <= Len(SlotsOf(Latest(t, p)))
      BY <2>2 DEF Grows, Before
    <3>2. SlotsOf(Latest(s, p)) \in Slots(Rows)
      BY <1>2, <2>2
    <3> QED BY <2>1, <3>1, <3>2 DEF Slots
  <2> QED BY <2>2, <2>3, GapsAre
<1>4. ASSUME FileGap(t.disk) PROVE Torn(s)
  <2> DEFINE m == InFile(s.disk[0])
  <2>1. InFile(t.disk[0]) = m /\ m <= s.next /\ m \in Nat
    <3>1. InFile(t.disk[0]) = m /\ m <= s.next
      BY ContentFacts DEF SavedOK, Grows, OnDisk
    <3> QED BY <3>1, ReadyFile, FileTyped
  <2>2. PICK p \in 2..m-1 : SlotsOf(t.disk[p]) = <<>>
    BY <1>4, <2>1, GapsAre
  <2>3. p \in 2..s.next-1 /\ p \in PageIds
    BY <1>2, <2>1, <2>2
  <2>4. t.disk[p] \in {s.disk[p], Latest(s, p)}
    BY <2>3 DEF Grows, OnDisk
  <2>5. CASE t.disk[p] = s.disk[p]
    BY <2>2, <2>5, GapsAre DEF Torn
  <2>6. CASE t.disk[p] = Latest(s, p)
    BY <2>2, <2>3, <2>6, GapsAre DEF Torn
  <2> QED BY <2>4, <2>5, <2>6
<1> QED BY <1>1, <1>3, <1>4 DEF Kept, Torn

\* Scanners keep their places.
LEMMA GrowsPlaces ==
  ASSUME NEW s, NEW h, Ready(s, h), NEW t, NEW k, Ready(t, k),
         SavedOK(s), Grows(t, s), NEW x \in Scan, PlaceOK(s, x)
  PROVE  /\ PlaceOK(t, x)
         /\ SlotsBefore(Pages(t), x.pid) = SlotsBefore(Pages(s), x.pid)
<1> DEFINE p == x.pid
           n == s.next - 1
           b == SlotsBefore(Pages(s), p)
<1>1. /\ s.next \in Nat /\ t.next \in Nat /\ n \in Nat /\ n \in 0..t.next-1
      /\ Typed(Pages(s), n) /\ Typed(Pages(t), n)
      /\ \A q \in 1..n : Pages(s)[q] = Latest(s, q) /\ Pages(t)[q] = Latest(t, q)
      /\ PoolSlots(s) = SlotsUpTo(Pages(s), n)
  BY PoolTyped DEF Grows
<1>2. /\ p \in 1..n /\ x.slot \in Nat /\ x.count \in Nat /\ x.need \in Nat
      /\ x.slot <= x.count /\ x.count <= Len(SlotsOf(Latest(s, p)))
      /\ x.need <= Len(PoolSlots(s))
      /\ x.count = Len(SlotsOf(Latest(s, p))) \/ x.need <= b + x.count
      /\ x.ended /\ ~StoppedEarly(x) => x.need <= b + x.slot
  BY ImageAssumption DEF PlaceOK, Scan
<1>3. /\ b \in Nat /\ Len(SlotsOf(Latest(s, p))) \in Nat /\ Len(PoolSlots(s)) \in Nat
      /\ p = n => b + Len(SlotsOf(Latest(s, p))) = Len(PoolSlots(s))
  <2> HIDE DEF n, b, p
  <2>1. Pages(s)[p] = Latest(s, p)
    BY <1>1, <1>2
  <2> QED BY <1>1, <1>2, <2>1, SlotAt DEF b
<1>4. SlotsBefore(Pages(t), p) = b
  <2>0. p \in Nat /\ p \in 1..n
    BY <1>1, <1>2
  <2>1. p - 1 \in Nat /\ p - 1 \in 0..p-1 /\ \A q \in 1..p-1 : q \in 1..n /\ q \in 1..s.next-2
    <3> HIDE DEF p
    <3> QED BY <1>1, <2>0
  <2>2. Typed(Pages(s), p - 1) /\ Typed(Pages(t), p - 1)
    BY <1>1, <2>1 DEF Typed
  <2>3. \A q \in 1..p-1 : Len(SlotsOf(Pages(s)[q])) = Len(SlotsOf(Pages(t)[q]))
    BY <1>1, <2>1 DEF Grows
  <2> HIDE DEF p, n
  <2> QED BY <2>1, <2>2, <2>3, SumsSameLen DEF SlotsBefore
<1>5. /\ Len(SlotsOf(Latest(s, p))) <= Len(SlotsOf(Latest(t, p)))
      /\ Len(SlotsOf(Latest(t, p))) \in Nat
      /\ p # n => Len(SlotsOf(Latest(t, p))) = Len(SlotsOf(Latest(s, p)))
  <2>1. Len(SlotsOf(Latest(s, p))) <= Len(SlotsOf(Latest(t, p)))
    BY <1>2 DEF Grows, Before
  <2>2. Len(SlotsOf(Latest(t, p))) \in Nat
    <3>1. Latest(t, p) = Pages(t)[p] /\ SlotsOf(Pages(t)[p]) \in Slots(Rows)
      BY <1>1, <1>2 DEF Typed
    <3> QED BY <3>1 DEF Slots
  <2>3. p # n => p \in 1..s.next-2
    BY <1>1, <1>2
  <2> QED BY <2>1, <2>2, <2>3 DEF Grows
<1>6. Len(PoolSlots(s)) <= Len(PoolSlots(t)) /\ Len(PoolSlots(t)) \in Nat
  BY GrowsSaves, PoolTyped DEF Before
<1>7. p \in 1..t.next-1
  BY <1>1, <1>2
<1> HIDE DEF p, n, b
<1>8. /\ x.slot <= x.count /\ x.count <= Len(SlotsOf(Latest(t, p)))
      /\ x.need <= Len(PoolSlots(t))
      /\ x.count = Len(SlotsOf(Latest(t, p))) \/ x.need <= b + x.count
      /\ x.ended /\ ~StoppedEarly(x) => x.need <= b + x.slot
  BY <1>2, <1>3, <1>5, <1>6
<1>9. PlaceOK(t, x)
  BY <1>4, <1>7, <1>8 DEF PlaceOK, p
<1> QED BY <1>4, <1>9 DEF b, p

\* The three ways the rows of a table change.
LEMMA QuietGrows ==
  ASSUME NEW s, NEW h, Ready(s, h), NEW t, NEW k, Ready(t, k), Quiet(t, s)
  PROVE  /\ Grows(t, s) /\ t.next = s.next
         /\ Pages(t) = Pages(s) /\ PoolSlots(t) = PoolSlots(s)
<1>1. t.next = s.next
  BY DEF Quiet, Ready, HeadOK
<1>2. Pages(t) = Pages(s)
  BY DEF Quiet, ReadsSame, Pages
<1>3. PoolSlots(t) = PoolSlots(s)
  BY <1>1, <1>2, PoolTyped
<1>4. ASSUME NEW p \in 1..s.next-1
      PROVE  /\ Latest(t, p) = Latest(s, p)
             /\ Before(SlotsOf(Latest(s, p)), SlotsOf(Latest(t, p)))
  <2>1. p \in PageIds \ {0} /\ Latest(t, p) = Latest(s, p)
    BY PoolTyped DEF Quiet, ReadsSame
  <2>2. SlotsOf(Latest(s, p)) \in Slots(Rows)
    BY <2>1, PageSlotsTyped DEF Ready
  <2> QED BY <2>1, <2>2, BeforeSame
<1>5. \A p \in 1..s.next-2 : p \in 1..s.next-1
  BY PoolTyped
<1>6. s.next <= t.next /\ \A p \in s.next..t.next-1 : SlotsOf(Latest(t, p)) # <<>>
  BY <1>1, PoolTyped
<1>7. OnDisk(t, s) /\ Latest(t, 0) = Latest(s, 0)
  BY ContentFacts DEF Quiet, ReadsSame
<1> QED BY <1>1, <1>2, <1>3, <1>4, <1>5, <1>6, <1>7 DEF Grows

LEMMA InsertGrows ==
  ASSUME NEW s, NEW h, Ready(s, h), NEW t, NEW k, Ready(t, k),
         NEW r, Inserted(t, s, r), OnDisk(t, s)
  PROVE  /\ Grows(t, s)
         /\ \E x : x.rec = r /\ ~x.deleted /\ PoolSlots(t) = Append(PoolSlots(s), x)
<1>1. PICK p \in PageIds \ {0} :
        /\ t.next = p + 1 /\ p \in {s.next - 1, s.next}
        /\ \E x : /\ x.rec = r /\ ~x.deleted
                  /\ SlotsOf(Latest(t, p)) =
                       Append(IF p = s.next THEN <<>> ELSE SlotsOf(Latest(s, p)), x)
        /\ \A q \in PageIds : q # p => Latest(t, q) = Latest(s, q)
  BY DEF Inserted
<1>2. PICK x : /\ x.rec = r /\ ~x.deleted
               /\ SlotsOf(Latest(t, p)) =
                    Append(IF p = s.next THEN <<>> ELSE SlotsOf(Latest(s, p)), x)
  BY <1>1
<1>3. /\ s.next \in 1..LastPid+1 /\ s.next \in Nat /\ LastPid \in Nat /\ p \in Nat
      /\ p - 1 \in Nat /\ p - 1 \in 0..t.next-1 /\ p \in 0..t.next-1 /\ p \in 1..p
      /\ (t.next) - 1 = p
  BY <1>1, PoolTyped DEF PageIds
<1>4. /\ \A q \in 1..s.next-1 : /\ q \in PageIds \ {0} /\ Pages(s)[q] = Latest(s, q)
                                /\ SlotsOf(Latest(s, q)) \in Slots(Rows)
                                /\ Len(SlotsOf(Latest(s, q))) \in Nat
      /\ \A q \in 1..p : q \in PageIds \ {0} /\ Pages(t)[q] = Latest(t, q)
      /\ Typed(Pages(t), p) /\ Typed(Pages(t), p - 1)
      /\ PoolSlots(s) = SlotsUpTo(Pages(s), s.next - 1) /\ PoolSlots(t) = SlotsUpTo(Pages(t), p)
      /\ PoolSlots(t) \in Slots(Rows)
  BY <1>3, PoolTyped, PageSlotsTyped DEF Ready
<1> DEFINE a == SlotsUpTo(Pages(t), p - 1)
           d == SlotsOf(Latest(t, p))
           S == [rec : Rows, start : Nat, deleted : BOOLEAN]
<1>5. PoolSlots(t) = a \o d /\ a \in Slots(Rows) /\ d \in Slots(Rows)
  <2>1. /\ SlotsUpTo(Pages(t), p) = SlotsUpTo(Pages(t), p - 1) \o SlotsOf(Pages(t)[p])
        /\ SlotsUpTo(Pages(t), p - 1) \in Slots(Rows) /\ SlotsOf(Pages(t)[p]) \in Slots(Rows)
    <3>1. p \in Nat /\ p \in 1..p /\ Typed(Pages(t), p)
      BY <1>3, <1>4
    <3> QED BY ONLY <3>1, LastPageStep
  <2>2. Pages(t)[p] = Latest(t, p) /\ PoolSlots(t) = SlotsUpTo(Pages(t), p)
    BY <1>3, <1>4
  <2> QED BY ONLY <2>1, <2>2
<1>6. a = SlotsUpTo(Pages(s), p - 1)
  <2>1. \A q \in 1..p-1 : q \in 1..p /\ q # p /\ q \in 1..s.next-1
    BY <1>1, <1>3
  <2>2. SameSlots(Pages(t), Pages(s), p - 1)
    BY <1>1, <1>4, <2>1 DEF SameSlots
  <2>3. \A q \in 1..p-1 : SlotsOf(Pages(t)[q]) \in Seq(S)
    BY <1>4 DEF Typed, Slots
  <2> HIDE DEF S
  <2> QED BY <1>3, <2>2, <2>3, SlotsUpToSame
<1>7. PoolSlots(t) = Append(PoolSlots(s), x)
  <2> DEFINE e == IF p = s.next THEN <<>> ELSE SlotsOf(Latest(s, p))
  <2>1. d = Append(e, x)
    BY <1>2
  <2>2. PoolSlots(s) = a \o e /\ e \in Slots(Rows)
    <3>1. CASE p = s.next
      <4>1. a \o <<>> = a
        BY <1>5 DEF Slots
      <4> QED BY <1>4, <1>6, <3>1, <4>1 DEF Slots
    <3>2. CASE p # s.next
      <4>1. p = s.next - 1 /\ p \in 1..s.next-1 /\ p \in 1..p /\ p \in 0..s.next-1
        BY <1>1, <1>3, <3>2
      <4>2. Typed(Pages(s), p)
        BY <4>1, PoolTyped
      <4>3. SlotsUpTo(Pages(s), p) = SlotsUpTo(Pages(s), p - 1) \o SlotsOf(Pages(s)[p])
        BY <1>3, <4>1, <4>2, LastPageStep
      <4> QED BY <1>4, <1>6, <3>2, <4>1, <4>3
    <3> QED BY <3>1, <3>2
  <2>3. x \in S
    <3>1. d \in Seq(S) /\ e \in Seq(S)
      BY <1>5, <2>2 DEF Slots
    <3> HIDE DEF S, d, e
    <3>2. Len(d) = Len(e) + 1 /\ d[Len(e) + 1] = x /\ Len(e) \in Nat
      BY <2>1, <3>1
    <3> QED BY <3>1, <3>2
  <2>4. a \in Seq(S) /\ e \in Seq(S)
    BY <1>5, <2>2 DEF Slots
  <2> HIDE DEF a, d, e, S
  <2>5. a \o Append(e, x) = Append(a \o e, x)
    BY <2>3, <2>4
  <2> QED BY <1>5, <2>1, <2>2, <2>5
<1>8. Grows(t, s)
  <2>1. s.next <= t.next /\ \A q \in s.next..t.next-1 : SlotsOf(Latest(t, q)) # <<>>
    <3>1. \A q \in s.next..t.next-1 : q = p /\ p = s.next
      BY <1>1, <1>3
    <3>2. p = s.next => d = Append(<<>>, x)
      BY <1>2
    <3> QED BY <1>1, <1>3, <3>1, <3>2
  <2>2. ASSUME NEW q \in 1..s.next-1, q # p
        PROVE  /\ Latest(t, q) = Latest(s, q)
               /\ Before(SlotsOf(Latest(s, q)), SlotsOf(Latest(t, q)))
    BY <1>1, <1>4, <2>2, BeforeSame
  <2>3. ASSUME p \in 1..s.next-1
        PROVE  Before(SlotsOf(Latest(s, p)), SlotsOf(Latest(t, p)))
    <3> DEFINE e == SlotsOf(Latest(s, p))
    <3>1. d = Append(e, x) /\ e \in Slots(Rows) /\ d \in Slots(Rows)
      BY <1>2, <1>3, <1>4, <1>5, <2>3
    <3> HIDE DEF d, e
    <3>2. Len(d) = Len(e) + 1 /\ Len(e) \in Nat /\ \A i \in 1..Len(e) : d[i] = e[i]
      BY <3>1 DEF Slots
    <3>3. Before(e, d)
      BY <3>2 DEF Before
    <3> QED BY <3>3 DEF d, e
  <2>4. \A q \in 1..s.next-2 : q \in 1..s.next-1 /\ q # p
    BY <1>1, <1>3
  <2>5. Latest(t, 0) = Latest(s, 0)
    BY <1>1, ContentFacts
  <2> QED BY <2>1, <2>2, <2>3, <2>4, <2>5 DEF Grows
<1> QED BY <1>2, <1>7, <1>8

LEMMA RemoveGrows ==
  ASSUME NEW s, NEW h, Ready(s, h), NEW t, NEW k, Ready(t, k),
         t.next = s.next, OnDisk(t, s), NEW p \in 1..s.next-1,
         NEW i \in Nat, i + 1 < Len(SlotsOf(Latest(s, p))),
         OneGone(SlotsOf(Latest(t, p)), SlotsOf(Latest(s, p)), i),
         \A q \in PageIds : q # p => Latest(t, q) = Latest(s, q)
  PROVE  LET j == SlotsBefore(Pages(s), p) + i IN
         /\ Grows(t, s) /\ OneGone(PoolSlots(t), PoolSlots(s), j)
         /\ j + 1 \in 1..Len(PoolSlots(s))
<1> DEFINE n == s.next - 1
<1>1. /\ s.next \in Nat /\ n \in Nat /\ n \in 0..n
      /\ Typed(Pages(s), n) /\ Typed(Pages(t), n)
      /\ \A q \in 1..n : /\ q \in PageIds \ {0}
                         /\ Pages(s)[q] = Latest(s, q) /\ Pages(t)[q] = Latest(t, q)
      /\ PoolSlots(s) = SlotsUpTo(Pages(s), n) /\ PoolSlots(t) = SlotsUpTo(Pages(t), n)
  BY PoolTyped
<1>2. \A q \in 1..n : SlotsOf(Latest(s, q)) \in Slots(Rows) /\ Len(SlotsOf(Latest(s, q))) \in Nat
  <2> HIDE DEF n
  <2> QED BY <1>1, PageSlotsTyped DEF Ready
<1>3. p \in 1..n /\ i \in 0..Len(SlotsOf(Pages(s)[p])) - 1
  <2>1. p \in 1..n
    OBVIOUS
  <2>2. Len(SlotsOf(Latest(s, p))) \in Nat /\ Pages(s)[p] = Latest(s, p)
    BY <1>1, <1>2
  <2> QED BY <2>1, <2>2
<1>4. Grows(t, s)
  <2>1. ASSUME NEW q \in 1..n
        PROVE  /\ Before(SlotsOf(Latest(s, q)), SlotsOf(Latest(t, q)))
               /\ Len(SlotsOf(Latest(s, q))) = Len(SlotsOf(Latest(t, q)))
    <3>1. CASE q = p
      <4> DEFINE a == SlotsOf(Latest(s, p))
                 b == SlotsOf(Latest(t, p))
      <4>1. Len(a) \in Nat /\ OneGone(b, a, i)
        BY <1>2, <1>3
      <4> HIDE DEF a, b
      <4>2. Len(b) = Len(a) /\ Len(a) <= Len(b)
        BY <4>1 DEF OneGone
      <4>3. \A j \in 1..Len(a) : b[j].rec = a[j].rec /\ (a[j].deleted => b[j].deleted)
        BY <4>1, Zenon DEF OneGone
      <4> QED BY <3>1, <4>2, <4>3 DEF Before, a, b
    <3>2. CASE q # p
      BY <1>1, <1>2, <3>2, BeforeSame
    <3> QED BY <3>1, <3>2
  <2>2. \A q \in 1..s.next-2 : q \in 1..n
    BY <1>1
  <2>3. s.next <= t.next /\ \A q \in s.next..t.next-1 : SlotsOf(Latest(t, q)) # <<>>
    BY <1>1
  <2>4. Latest(t, 0) = Latest(s, 0)
    BY <1>1, <1>3, ContentFacts
  <2> QED BY <2>1, <2>2, <2>3, <2>4 DEF Grows
<1> HIDE DEF n
<1>5. OneGone(SlotsUpTo(Pages(t), n), SlotsUpTo(Pages(s), n), SlotsBefore(Pages(s), p) + i)
  <2>1. \A q \in 1..n : q # p => SlotsOf(Pages(t)[q]) = SlotsOf(Pages(s)[q])
    BY <1>1
  <2>2. OneGone(SlotsOf(Pages(t)[p]), SlotsOf(Pages(s)[p]), i)
    BY <1>1, <1>3
  <2> QED BY <1>1, <1>3, <2>1, <2>2, SumsOneGone
<1>6. SlotsBefore(Pages(s), p) + i + 1 \in 1..Len(PoolSlots(s))
  <2> DEFINE b == SlotsBefore(Pages(s), p)
             l == Len(SlotsOf(Pages(s)[p]))
  <2>1. b \in Nat /\ l \in Nat /\ b + l <= Len(PoolSlots(s)) /\ Len(PoolSlots(s)) \in Nat
    BY <1>1, <1>3, SlotAt
  <2> HIDE DEF b, l
  <2>2. i \in 0..l-1
    BY <1>3 DEF l
  <2> QED BY <2>1, <2>2 DEF b
<1> QED BY <1>1, <1>4, <1>5, <1>6
-----------------------------------------------------------------------------
\* The table as Table sees it.

MapRows(u, s) == MarkedRows(IF u THEN PoolSlots(s) ELSE FileSlots(s.disk))
MapSaved(s) == MarkedRows(FileSlots(s.disk))
MapCursor(s, x) ==
  IF x = NoScan THEN NoScan
  ELSE [at |-> SlotsBefore(Pages(s), x.pid) + x.slot, need |-> x.need, row |-> x.row,
        ended |-> x.ended]
MapCur(s, sc) == [c \in Scanners |-> MapCursor(s, sc[c])]

\* What Table allows to happen to the file.
MayKeep(t, s, all) ==
  /\ RowTable!Extends(MapSaved(s), MapSaved(t)) /\ RowTable!Extends(MapSaved(t), all)
  /\ Kept(t, s)

LEMMA MarkedFacts ==
  ASSUME NEW a \in Slots(Rows)
  PROVE  /\ MarkedRows(a) \in Seq([row : Rows, gone : BOOLEAN])
         /\ Len(MarkedRows(a)) = Len(a) /\ Len(a) \in Nat
         /\ DOMAIN MarkedRows(a) = 1..Len(a)
         /\ \A i \in 1..Len(a) : MarkedRows(a)[i] = [row |-> a[i].rec, gone |-> a[i].deleted]
         /\ a = <<>> => MarkedRows(a) = <<>>
<1> DEFINE m == MarkedRows(a)
<1>1. Len(a) \in Nat /\ DOMAIN a = 1..Len(a)
  BY DEF Slots
<1>2. m = [i \in 1..Len(a) |-> [row |-> a[i].rec, gone |-> a[i].deleted]]
  BY <1>1 DEF MarkedRows
<1>3. \A i \in 1..Len(a) : a[i] \in [rec : Rows, start : Nat, deleted : BOOLEAN]
  BY <1>1, ElementOfSeq DEF Slots
<1>4. \A i \in 1..Len(a) :
        [row |-> a[i].rec, gone |-> a[i].deleted] \in [row : Rows, gone : BOOLEAN]
  BY <1>3
<1> HIDE DEF m
<1>5. m \in Seq([row : Rows, gone : BOOLEAN]) /\ Len(m) = Len(a)
  BY <1>1, <1>2, <1>4
<1>6. a = <<>> => m = <<>>
  BY <1>5
<1> QED BY <1>1, <1>2, <1>5, <1>6 DEF m

LEMMA MarkedExtends ==
  ASSUME NEW a \in Slots(Rows), NEW b \in Slots(Rows), Before(a, b)
  PROVE  RowTable!Extends(MarkedRows(a), MarkedRows(b))
<1>1. /\ Len(a) \in Nat /\ Len(b) \in Nat
      /\ \A i \in 1..Len(a) : i \in 1..Len(b)
  BY DEF Slots, Before
<1>2. ASSUME NEW i \in 1..Len(a)
      PROVE  /\ MarkedRows(a)[i].row = MarkedRows(b)[i].row
             /\ MarkedRows(a)[i].gone => MarkedRows(b)[i].gone
  <2>1. MarkedRows(a)[i] = [row |-> a[i].rec, gone |-> a[i].deleted]
    BY MarkedFacts
  <2>2. MarkedRows(b)[i] = [row |-> b[i].rec, gone |-> b[i].deleted]
    BY <1>1, MarkedFacts
  <2>3. b[i].rec = a[i].rec /\ (a[i].deleted => b[i].deleted)
    BY DEF Before
  <2> QED BY <2>1, <2>2, <2>3
<1>3. Len(MarkedRows(a)) <= Len(MarkedRows(b)) /\ DOMAIN MarkedRows(a) = 1..Len(a)
  BY MarkedFacts DEF Before
<1> QED BY <1>2, <1>3 DEF RowTable!Extends

\* The rows in it, as Table and as the heap see them.
LEMMA MarkedSet ==
  ASSUME NEW a
  PROVE  RowTable!RowSet(MarkedRows(a)) = Recs(a)
<1>1. DOMAIN MarkedRows(a) = DOMAIN a
  BY DEF MarkedRows
<1>2. \A i \in DOMAIN a : MarkedRows(a)[i].row = a[i].rec
  BY DEF MarkedRows
<1> QED BY <1>1, <1>2 DEF RowTable!RowSet, Recs

\* The invariant: with that of the pool, what the file has and where the
\* scanners are.
RInv == IInv /\ (up => SavedOK(pool) /\ \A c \in Scanners : PlaceOK(pool, scan[c]))

LEMMA ScanIs ==
  ASSUME ScanTyped(scan), NEW c \in Scanners, scan[c] # NoScan
  PROVE  scan[c] \in Scan
  BY DEF ScanTyped

\* What every call on an open table does: a step of Table but for what it says
\* of the rows and the cursor of the scanner it is about.
LEMMA CallKeeps ==
  ASSUME RInv, IInv', up, up', Grows(pool', pool),
         \A b \in Scanners : scan'[b] = scan[b] \/ PlaceOK(pool', scan'[b])
  PROVE  /\ RInv'
         /\ MayKeep(pool', pool, MapRows(TRUE, pool'))
         /\ \A b \in Scanners :
              scan'[b] = scan[b] => MapCursor(pool', scan'[b]) = MapCursor(pool, scan[b])
<1>1. /\ Ready(pool, Pins(scan)) /\ Ready(pool', Pins(scan'))
      /\ SavedOK(pool) /\ ScanTyped(scan)
      /\ \A c \in Scanners : PlaceOK(pool, scan[c])
  BY DEF RInv, IInv
<1>2. /\ SavedOK(pool') /\ Before(FileSlots(pool.disk), FileSlots(pool'.disk))
      /\ Before(FileSlots(pool'.disk), PoolSlots(pool'))
  BY <1>1, GrowsSaves
<1>3. ASSUME NEW b \in Scanners, scan'[b] = scan[b]
      PROVE  /\ PlaceOK(pool', scan'[b])
             /\ MapCursor(pool', scan'[b]) = MapCursor(pool, scan[b])
  <2>1. CASE scan[b] = NoScan
    BY <1>3, <2>1 DEF PlaceOK, MapCursor
  <2>2. CASE scan[b] # NoScan
    <3>1. scan[b] \in Scan /\ PlaceOK(pool, scan[b])
      BY <1>1, <2>2, ScanIs
    <3>2. /\ PlaceOK(pool', scan[b])
          /\ SlotsBefore(Pages(pool'), scan[b].pid) = SlotsBefore(Pages(pool), scan[b].pid)
      BY <1>1, <3>1, GrowsPlaces
    <3> QED BY <1>3, <3>2 DEF MapCursor
  <2> QED BY <2>1, <2>2
<1>4. RInv'
  BY <1>2, <1>3 DEF RInv
<1>5. /\ FileSlots(pool.disk) \in Slots(Rows) /\ FileSlots(pool'.disk) \in Slots(Rows)
      /\ PoolSlots(pool') \in Slots(Rows)
  BY <1>1, ReadyFile, FileTyped, PoolTyped
<1>6. MayKeep(pool', pool, MapRows(TRUE, pool'))
  <2>1. Kept(pool', pool)
    BY <1>1, GrowsWrites
  <2>2. RowTable!Extends(MapSaved(pool), MapSaved(pool'))
    BY <1>2, <1>5, MarkedExtends DEF MapSaved
  <2>3. RowTable!Extends(MapSaved(pool'), MapRows(TRUE, pool'))
    BY <1>2, <1>5, MarkedExtends DEF MapSaved, MapRows
  <2> QED BY <2>1, <2>2, <2>3 DEF MayKeep
<1> QED BY <1>3, <1>4, <1>6

Put(f, c, y) == [f EXCEPT ![c] = y]

\* The same for a call about scanner c that no page reads differently after.
LEMMA ScanKeeps ==
  ASSUME RInv, IInv', up, up', Quiet(pool', pool),
         NEW c \in Scanners, scan' = [scan EXCEPT ![c] = scan'[c]], PlaceOK(pool', scan'[c])
  PROVE  /\ RInv'
         /\ MayKeep(pool', pool, MapRows(up', pool'))
         /\ MapRows(up', pool') = MapRows(up, pool)
         /\ MapCur(pool', scan') = Put(MapCur(pool, scan), c, MapCursor(pool, scan'[c]))
<1>1. Ready(pool, Pins(scan)) /\ Ready(pool', Pins(scan')) /\ ScanTyped(scan)
  BY DEF RInv, IInv
<1>2. /\ Grows(pool', pool) /\ Pages(pool') = Pages(pool)
      /\ PoolSlots(pool') = PoolSlots(pool)
  BY <1>1, QuietGrows
<1>3. \A b \in Scanners : b # c => scan'[b] = scan[b]
  BY <1>1 DEF ScanTyped
<1>4. /\ RInv'
      /\ MayKeep(pool', pool, MapRows(TRUE, pool'))
      /\ \A b \in Scanners :
           scan'[b] = scan[b] => MapCursor(pool', scan'[b]) = MapCursor(pool, scan[b])
  <2>1. \A b \in Scanners : scan'[b] = scan[b] \/ PlaceOK(pool', scan'[b])
    BY <1>3
  <2> QED BY <1>2, <2>1, CallKeeps
<1>5. MapRows(up', pool') = MapRows(TRUE, pool') /\ MapRows(up', pool') = MapRows(up, pool)
  BY <1>2 DEF MapRows
<1>6. \A b \in Scanners :
        MapCursor(pool', scan'[b]) = IF b = c THEN MapCursor(pool, scan'[c])
                                              ELSE MapCursor(pool, scan[b])
  BY <1>2, <1>3, <1>4 DEF MapCursor
<1>7. MapCur(pool', scan') = Put(MapCur(pool, scan), c, MapCursor(pool, scan'[c]))
  BY <1>6 DEF MapCur, Put
<1> QED BY <1>4, <1>5, <1>7

\* A row that scanner x, on page p, returns, among the rows of the table.
TakesRow(s, p, y, x) ==
  LET b == SlotsBefore(Pages(s), p)
      i == b + y.slot
      all == PoolSlots(s)
  IN  /\ b \in Nat /\ y.slot \in Nat /\ i \in 1..Len(all) /\ b + x.slot < i
      /\ y.row = all[i].rec /\ ~all[i].deleted
      /\ \A k \in b + x.slot + 1..i - 1 : all[k].deleted

LEMMA TakenAt ==
  ASSUME NEW s, NEW h, Ready(s, h), NEW p \in 1..s.next-1,
         NEW y, NEW x, SlotTaken(y, x, SlotsOf(Latest(s, p))),
         x.slot \in Nat, x.count \in Nat, x.count <= Len(SlotsOf(Latest(s, p)))
  PROVE  TakesRow(s, p, y, x)
<1> DEFINE n == s.next - 1
           b == SlotsBefore(Pages(s), p)
           d == SlotsOf(Latest(s, p))
           all == PoolSlots(s)
<1>1. /\ n \in Nat /\ p \in 1..n /\ Typed(Pages(s), n) /\ all = SlotsUpTo(Pages(s), n)
      /\ Pages(s)[p] = Latest(s, p)
  <2>1. s.next \in Nat /\ n \in 0..n /\ n \in Nat
    BY PoolTyped
  <2> QED BY <2>1, PoolTyped
<1> HIDE DEF n, b, d
<1>2. /\ b \in Nat /\ Len(d) \in Nat /\ Len(all) \in Nat /\ b + Len(d) <= Len(all)
      /\ \A k \in 1..Len(d) : all[b + k] = d[k]
  BY <1>1, SlotAt DEF b, d
<1>3. /\ y.slot \in x.slot + 1..x.count /\ x.slot \in Nat /\ x.count <= Len(d)
      /\ y.row = d[y.slot].rec /\ ~d[y.slot].deleted
      /\ \A j \in x.slot + 1..y.slot - 1 : d[j].deleted
  BY DEF SlotTaken, d
<1>4. y.slot \in Nat /\ y.slot \in 1..Len(d) /\ x.slot < y.slot
  <2>1. x.count \in Nat
    OBVIOUS
  <2> QED BY <1>2, <1>3, <2>1
<1> HIDE DEF all
<1>5. \A k \in b + x.slot + 1..b + y.slot - 1 : all[k].deleted
  <2> DEFINE u == x.slot
             v == y.slot
             l == Len(d)
  <2>1. b \in Nat /\ u \in Nat /\ v \in Nat /\ l \in Nat /\ v \in 1..l
    BY <1>2, <1>3, <1>4
  <2>2. /\ \A k \in 1..l : all[b + k] = d[k]
        /\ \A k \in u + 1..v - 1 : d[k].deleted
    BY <1>2, <1>3
  <2> HIDE DEF u, v, l
  <2>3. ASSUME NEW k \in b + u + 1..b + v - 1 PROVE all[k].deleted
    <3> DEFINE j == k - b
    <3>1. j \in u + 1..v - 1 /\ j \in 1..l /\ k = b + j
      BY <2>1
    <3> HIDE DEF j
    <3>2. all[b + j] = d[j]
      BY <2>2, <3>1
    <3> QED BY <2>2, <3>1, <3>2
  <2> QED BY <2>3 DEF u, v
<1>6. all[b + y.slot] = d[y.slot]
  BY <1>2, <1>4
<1>7. b + y.slot \in 1..Len(all) /\ b + x.slot < b + y.slot
  <2> DEFINE u == x.slot
             v == y.slot
             l == Len(d)
             m == Len(all)
  <2>1. b \in Nat /\ u \in Nat /\ v \in 1..l /\ l \in Nat /\ m \in Nat /\ b + l <= m /\ u < v
    BY <1>2, <1>3, <1>4
  <2> HIDE DEF u, v, l, m
  <2>2. b + v \in 1..m /\ b + u < b + v
    BY ONLY <2>1
  <2> QED BY <2>2 DEF u, v, m
<1>8. y.row = all[b + y.slot].rec /\ ~all[b + y.slot].deleted
  BY <1>3, <1>6
<1> QED BY ONLY <1>2, <1>4, <1>5, <1>7, <1>8 DEF b, all, TakesRow
-----------------------------------------------------------------------------
\* Each call is a step of Table.

\* The cursors Table sees, now and after a step.
LEMMA CursorsSeen ==
  /\ [c \in Scanners |-> IF scan[c] = NoScan THEN NoScan ELSE Cursor(c)] = MapCur(pool, scan)
  /\ [c \in Scanners |-> IF scan'[c] = NoScan THEN NoScan ELSE Cursor(c)'] = MapCur(pool', scan')
BY DEF Cursor, Passed, MapCur, MapCursor, SlotsBefore, Pages

\* A cursor is not taken for a scanner that is not there.
LEMMA CursorIs ==
  ASSUME NEW s, NEW h, Ready(s, h), NEW x \in Scan, PlaceOK(s, x)
  PROVE  LET y == MapCursor(s, x) IN
         /\ x # NoScan /\ y # NoScan
         /\ y = [at |-> SlotsBefore(Pages(s), x.pid) + x.slot, need |-> x.need,
                 row |-> x.row, ended |-> x.ended]
         /\ x.pid \in 1..s.next-1 /\ SlotsBefore(Pages(s), x.pid) \in Nat
<1>1. x # NoScan
  BY ImageAssumption
<1>2. x.pid \in 1..s.next-1 /\ s.next - 1 \in Nat
  BY <1>1, PoolTyped DEF PlaceOK
<1>3. SlotsBefore(Pages(s), x.pid) \in Nat
  <2>1. Typed(Pages(s), s.next - 1)
    BY <1>2, PoolTyped
  <2> QED BY <1>2, <2>1, SlotAt
<1>4. SlotsBefore(Pages(s), x.pid) + x.slot \in Nat
  BY <1>3 DEF Scan
<1>5. MapCursor(s, x) = [at |-> SlotsBefore(Pages(s), x.pid) + x.slot, need |-> x.need,
                         row |-> x.row, ended |-> x.ended]
  BY <1>1 DEF MapCursor
<1>6. MapCursor(s, x) \in [at : Nat, need : Nat, row : Rows \cup {NoRow}, ended : BOOLEAN]
  BY <1>4, <1>5 DEF Scan
<1> QED BY <1>1, <1>2, <1>3, <1>5, <1>6, CursorAssumption

LEMMA MarkedAppend ==
  ASSUME NEW a \in Slots(Rows), NEW x, Append(a, x) \in Slots(Rows), ~x.deleted
  PROVE  MarkedRows(Append(a, x)) = Append(MarkedRows(a), [row |-> x.rec, gone |-> FALSE])
<1> DEFINE b == Append(a, x)
           z == [row |-> x.rec, gone |-> FALSE]
<1>1. /\ Len(a) \in Nat /\ Len(b) = Len(a) + 1 /\ b[Len(a) + 1] = x
      /\ \A i \in 1..Len(a) : b[i] = a[i]
  BY DEF Slots
<1>2. x \in [rec : Rows, start : Nat, deleted : BOOLEAN]
  BY <1>1, ElementOfSeq DEF Slots
<1>3. /\ MarkedRows(a) \in Seq([row : Rows, gone : BOOLEAN]) /\ Len(MarkedRows(a)) = Len(a)
      /\ \A i \in 1..Len(a) : MarkedRows(a)[i] = [row |-> a[i].rec, gone |-> a[i].deleted]
  BY MarkedFacts
<1>4. /\ MarkedRows(b) \in Seq([row : Rows, gone : BOOLEAN]) /\ Len(MarkedRows(b)) = Len(b)
      /\ \A i \in 1..Len(b) : MarkedRows(b)[i] = [row |-> b[i].rec, gone |-> b[i].deleted]
  BY MarkedFacts
<1>5. MarkedRows(b)[Len(a) + 1] = z
  <2>1. MarkedRows(b)[Len(a) + 1] = [row |-> x.rec, gone |-> x.deleted]
    BY <1>1, <1>4
  <2> QED BY <1>2, <2>1
<1>6. \A i \in 1..Len(a) : MarkedRows(b)[i] = MarkedRows(a)[i]
  BY <1>1, <1>3, <1>4
<1> HIDE DEF b, z
<1>7. z \in [row : Rows, gone : BOOLEAN]
  BY <1>2 DEF z
<1>8. /\ Append(MarkedRows(a), z) \in Seq([row : Rows, gone : BOOLEAN])
      /\ Len(Append(MarkedRows(a), z)) = Len(a) + 1
      /\ \A i \in 1..Len(a) : Append(MarkedRows(a), z)[i] = MarkedRows(a)[i]
      /\ Append(MarkedRows(a), z)[Len(a) + 1] = z
  BY <1>1, <1>3, <1>7
<1>9. MarkedRows(b) = Append(MarkedRows(a), z)
  BY <1>1, <1>4, <1>5, <1>6, <1>8, SeqEqual
<1> QED BY <1>9 DEF b, z

LEMMA MarkedGone ==
  ASSUME NEW a \in Slots(Rows), NEW b \in Slots(Rows), NEW j \in Nat, j + 1 \in 1..Len(a),
         OneGone(b, a, j)
  PROVE  MarkedRows(b) = [MarkedRows(a) EXCEPT ![j + 1].gone = TRUE]
<1> DEFINE m == MarkedRows(a)
           l == j + 1
           e == [m EXCEPT ![l].gone = TRUE]
<1>1. Len(a) \in Nat /\ Len(b) = Len(a) /\ l \in 1..Len(a)
  BY DEF Slots, OneGone
<1>2. /\ m \in [1..Len(a) -> [row : Rows, gone : BOOLEAN]]
      /\ \A i \in 1..Len(a) : m[i] = [row |-> a[i].rec, gone |-> a[i].deleted]
  <2>1. m \in Seq([row : Rows, gone : BOOLEAN]) /\ Len(m) = Len(a)
    BY MarkedFacts
  <2> QED BY <2>1, MarkedFacts, LenProperties
<1>3. /\ MarkedRows(b) \in [1..Len(a) -> [row : Rows, gone : BOOLEAN]]
      /\ \A i \in 1..Len(a) : MarkedRows(b)[i] = [row |-> b[i].rec, gone |-> b[i].deleted]
  <2>1. /\ MarkedRows(b) \in Seq([row : Rows, gone : BOOLEAN]) /\ Len(MarkedRows(b)) = Len(a)
    BY <1>1, MarkedFacts
  <2> QED BY <1>1, <2>1, MarkedFacts, LenProperties
<1>4. \A i \in 1..Len(a) :
        b[i].rec = a[i].rec /\ b[i].deleted = IF i = l THEN TRUE ELSE a[i].deleted
  BY DEF OneGone
<1> HIDE DEF m, l
<1>5. /\ e \in [1..Len(a) -> [row : Rows, gone : BOOLEAN]]
      /\ e[l] = [m[l] EXCEPT !.gone = TRUE] /\ \A i \in 1..Len(a) : i # l => e[i] = m[i]
  BY <1>1, <1>2
<1> HIDE DEF e
<1>6. ASSUME NEW i \in 1..Len(a) PROVE MarkedRows(b)[i] = e[i]
  <2>1. /\ MarkedRows(b)[i] = [row |-> b[i].rec, gone |-> b[i].deleted]
        /\ m[i] = [row |-> a[i].rec, gone |-> a[i].deleted]
        /\ b[i].rec = a[i].rec
    BY <1>2, <1>3, <1>4
  <2>2. CASE i = l
    <3>1. MarkedRows(b)[i] = [row |-> a[i].rec, gone |-> TRUE]
      BY <1>4, <2>1, <2>2
    <3>2. e[i] = [m[i] EXCEPT !.gone = TRUE]
      BY <1>5, <2>2
    <3>3. ASSUME NEW z \in [row : Rows, gone : BOOLEAN]
          PROVE  [z EXCEPT !.gone = TRUE] = [row |-> z.row, gone |-> TRUE]
      <4> DEFINE w == [z EXCEPT !.gone = TRUE]
      <4>1. w \in [row : Rows, gone : BOOLEAN]
        OBVIOUS
      <4>2. w.row = z.row /\ w.gone = TRUE
        OBVIOUS
      <4> HIDE DEF w
      <4>3. w = [row |-> z.row, gone |-> TRUE]
        BY <4>1, <4>2
      <4> QED BY <4>3 DEF w
    <3>4. [m[i] EXCEPT !.gone = TRUE] = [row |-> a[i].rec, gone |-> TRUE]
      BY <1>2, <2>1, <3>3
    <3> QED BY <3>1, <3>2, <3>4
  <2>3. CASE i # l
    BY <1>4, <1>5, <2>1, <2>3
  <2> QED BY <2>2, <2>3
<1>7. MarkedRows(b) = e
  BY <1>3, <1>5, <1>6
<1> QED BY <1>7 DEF m, e, l

\* What a call does to the file, said as Table says it.
TornNow == (up /\ PoolGap(pool)) \/ FileGap(pool.disk)

LEMMA SaveSeen ==
  ASSUME up, up', MayKeep(pool', pool, MapRows(TRUE, pool'))
  PROVE  RowTable!MaySave
<1>1. /\ RowTable!Extends(MapSaved(pool), MapSaved(pool'))
      /\ RowTable!Extends(MapSaved(pool'), MapRows(TRUE, pool'))
      /\ Kept(pool', pool)
  BY DEF MayKeep
<1>2. /\ FileRows(pool'.disk)
           \subseteq FileRows(pool.disk) \cup RowTable!RowSet(MapRows(TRUE, pool))
      /\ TornNow' => TornNow
  BY <1>1, MarkedSet DEF Kept, WrittenTo, Torn, TornNow, MapRows
<1>3. RowTable!Written
  BY <1>2 DEF RowTable!Written, TornNow, MapRows
<1> QED BY <1>1, <1>3 DEF RowTable!MaySave, MapSaved, MapRows

\* What the lemmas below show of a step of Table, said as Table says it.
LEMMA StepSeen ==
  ASSUME up, up'
  PROVE  /\ \A r : /\ MapRows(TRUE, pool') = Append(MapRows(TRUE, pool), [row |-> r, gone |-> FALSE])
                   /\ MayKeep(pool', pool, MapRows(TRUE, pool'))
                   /\ MapCur(pool', scan') = MapCur(pool, scan)
                   => RowTable!Insert(r)
         /\ \A i : /\ MapRows(TRUE, pool') = [MapRows(TRUE, pool) EXCEPT ![i].gone = TRUE]
                   /\ MayKeep(pool', pool, MapRows(TRUE, pool'))
                   /\ MapCur(pool', scan') = MapCur(pool, scan)
                   => RowTable!Remove(i)
BY CursorsSeen, SaveSeen DEF MapRows, RowTable!Insert, RowTable!Remove

\* insert adds its row at the end.
LEMMA InsertMaps ==
  ASSUME RInv, NEW r \in SmallRows, Insert(r)
  PROVE  RInv' /\ RowTable!Insert(r)
<1>1. /\ IInv' /\ up /\ up' /\ Inserted(pool', pool, r) /\ OnDisk(pool', pool)
      /\ scan' = scan
  BY InsertTableOK DEF RInv, Insert
<1>2. Ready(pool, Pins(scan)) /\ Ready(pool', Pins(scan'))
  BY <1>1 DEF RInv, IInv
<1>3. Grows(pool', pool)
  BY <1>1, <1>2, InsertGrows
<1>4. PICK x : x.rec = r /\ ~x.deleted /\ PoolSlots(pool') = Append(PoolSlots(pool), x)
  BY <1>1, <1>2, InsertGrows
<1>5. /\ RInv' /\ MayKeep(pool', pool, MapRows(TRUE, pool'))
      /\ \A b \in Scanners : MapCursor(pool', scan'[b]) = MapCursor(pool, scan[b])
  BY <1>1, <1>3, CallKeeps
<1>6. MapCur(pool', scan') = MapCur(pool, scan)
  BY <1>5 DEF MapCur
<1>7. MapRows(TRUE, pool') = Append(MapRows(TRUE, pool), [row |-> r, gone |-> FALSE])
  <2>1. PoolSlots(pool) \in Slots(Rows) /\ PoolSlots(pool') \in Slots(Rows)
    BY <1>2, PoolTyped
  <2> QED BY <1>4, <2>1, MarkedAppend DEF MapRows
<1> QED BY <1>1, <1>5, <1>6, <1>7, StepSeen

\* remove marks a row that is there.
LEMMA RemoveMaps ==
  ASSUME RInv, NEW p \in RecordPids, NEW k \in 0..SlotBound, HasRowAfter(p, k), RemoveRow(p, k)
  PROVE  RInv' /\ \E i \in DOMAIN MapRows(up, pool) : RowTable!Remove(i)
<1> DEFINE j == SlotsBefore(Pages(pool), p) + k
<1>1. /\ IInv' /\ up /\ up' /\ pool'.next = pool.next /\ OnDisk(pool', pool)
      /\ OneGone(SlotsOf(Latest(pool', p)), SlotsOf(Latest(pool, p)), k)
      /\ \A q \in PageIds : q # p => Latest(pool', q) = Latest(pool, q)
      /\ p \in 1..pool.next-1 /\ k + 1 < Len(SlotsOf(Latest(pool, p)))
      /\ scan' = scan
  <2>1. IInv /\ scan' = scan
    BY DEF RInv, RemoveRow
  <2> QED BY <2>1, RemoveRowOK
<1>2. Ready(pool, Pins(scan)) /\ Ready(pool', Pins(scan'))
  BY <1>1 DEF RInv, IInv
<1>3. k \in Nat
  BY TableAssumption
<1>4. /\ Grows(pool', pool) /\ OneGone(PoolSlots(pool'), PoolSlots(pool), j)
      /\ j + 1 \in 1..Len(PoolSlots(pool))
  BY <1>1, <1>2, <1>3, RemoveGrows
<1>5. /\ RInv' /\ MayKeep(pool', pool, MapRows(TRUE, pool'))
      /\ \A b \in Scanners : MapCursor(pool', scan'[b]) = MapCursor(pool, scan[b])
  BY <1>1, <1>4, CallKeeps
<1>6. MapCur(pool', scan') = MapCur(pool, scan)
  BY <1>5 DEF MapCur
<1>7. PoolSlots(pool) \in Slots(Rows) /\ PoolSlots(pool') \in Slots(Rows)
  BY <1>2, PoolTyped
<1>8. j \in Nat
  <2>1. /\ Typed(Pages(pool), pool.next - 1) /\ pool.next - 1 \in Nat
    BY <1>1, <1>2, PoolTyped
  <2>2. SlotsBefore(Pages(pool), p) \in Nat
    BY <1>1, <2>1, SlotAt
  <2> QED BY <1>3, <2>2
<1> HIDE DEF j
<1>9. /\ MapRows(TRUE, pool') = [MapRows(TRUE, pool) EXCEPT ![j + 1].gone = TRUE]
      /\ j + 1 \in DOMAIN MapRows(TRUE, pool)
  BY <1>4, <1>7, <1>8, MarkedGone, MarkedFacts DEF MapRows
<1>10. RowTable!Remove(j + 1)
  BY <1>1, <1>5, <1>6, <1>9, StepSeen
<1>11. j + 1 \in DOMAIN MapRows(up, pool)
  BY <1>1, <1>9 DEF MapRows
<1> QED BY <1>5, <1>10, <1>11

\* A cursor moved, and one moved to the end.
Going(a, n, r) == [at |-> a, need |-> n, row |-> r, ended |-> FALSE]
Ended(a, n) == [at |-> a, need |-> n, row |-> NoRow, ended |-> TRUE]
ByScanner(f) == f = [b \in Scanners |-> f[b]]
Moved(f, c, i, z) == [f EXCEPT ![c].at = i, ![c].row = z]
Finished(f, c, i) == [f EXCEPT ![c].at = i, ![c].row = NoRow, ![c].ended = TRUE]

LEMMA CursorMoved ==
  ASSUME NEW f, ByScanner(f), NEW c \in Scanners,
         NEW a, NEW n, NEW r, f[c] = Going(a, n, r),
         NEW i, NEW z
  PROVE  /\ Moved(f, c, i, z) = Put(f, c, Going(i, n, z))
         /\ z = NoRow =>
              Finished(f, c, i) = Put(f, c, Ended(i, n))
<1> USE DEF Going, Ended, ByScanner
<1> DEFINE x == [at |-> a, need |-> n, row |-> r, ended |-> FALSE]
           y == [[x EXCEPT !.at = i] EXCEPT !.row = z]
           w == [y EXCEPT !.ended = TRUE]
           u == [f EXCEPT ![c].at = i]
           v == [u EXCEPT ![c].row = z]
<1>1. /\ y = [at |-> i, need |-> n, row |-> z, ended |-> FALSE]
      /\ w = [at |-> i, need |-> n, row |-> z, ended |-> TRUE]
  <2> DEFINE C == [at : {a, i}, need : {n}, row : {r, z}, ended : {FALSE, TRUE}]
             x1 == [x EXCEPT !.at = i]
  <2>1. x \in C /\ x.need = n /\ x.ended = FALSE
    OBVIOUS
  <2> HIDE DEF x
  <2>2. x1 \in C /\ x1.at = i /\ x1.need = n /\ x1.ended = FALSE
    BY <2>1
  <2> HIDE DEF x1
  <2>3. LET t == [x1 EXCEPT !.row = z]
        IN  t \in C /\ t.at = i /\ t.need = n /\ t.row = z /\ t.ended = FALSE
    BY <2>2
  <2>4. y \in C /\ y.at = i /\ y.need = n /\ y.row = z /\ y.ended = FALSE
    BY <2>3 DEF x1
  <2> HIDE DEF y
  <2>5. w \in C /\ w.at = i /\ w.need = n /\ w.row = z /\ w.ended = TRUE
    BY <2>4
  <2> HIDE DEF w
  <2> QED BY <2>4, <2>5
<1>2. u = [f EXCEPT ![c] = [x EXCEPT !.at = i]]
  OBVIOUS
<1>3. u = [b \in Scanners |-> IF b = c THEN [x EXCEPT !.at = i] ELSE f[b]]
  BY <1>2
<1>4. v = [b \in Scanners |-> IF b = c THEN y ELSE f[b]]
  BY <1>3
<1>5. Moved(f, c, i, z) = v
  BY DEF Moved
<1>6. z = NoRow => Finished(f, c, i) = [v EXCEPT ![c].ended = TRUE]
  BY DEF Finished
<1>7. [v EXCEPT ![c].ended = TRUE] = [b \in Scanners |-> IF b = c THEN w ELSE f[b]]
  BY <1>4
<1> HIDE DEF w, y, v
<1>8. /\ Put(f, c, y) = [b \in Scanners |-> IF b = c THEN y ELSE f[b]]
      /\ Put(f, c, w) = [b \in Scanners |-> IF b = c THEN w ELSE f[b]]
  BY DEF Put
<1> QED BY <1>1, <1>4, <1>5, <1>6, <1>7, <1>8

\* What Table asks of a scanner's call, with the functions' changes named.
SeenRows == MarkedRows(IF up THEN PoolSlots(pool) ELSE FileSlots(pool.disk))
SeenCur == [c \in Scanners |-> IF scan[c] = NoScan THEN NoScan ELSE Cursor(c)]

LEMMA ScanStepsAre ==
  ASSUME NEW c \in Scanners, RowTable!MaySave, SeenRows' = SeenRows
  PROVE  /\ /\ SeenCur[c] # NoScan /\ ~SeenCur[c].ended
            /\ \E i \in SeenCur[c].at + 1..Len(SeenRows) :
                 /\ ~SeenRows[i].gone
                 /\ \A k \in SeenCur[c].at + 1..i - 1 : SeenRows[k].gone \/ k > SeenCur[c].need
                 /\ SeenCur' = Moved(SeenCur, c, i, SeenRows[i].row)
            => RowTable!NextRow(c)
         /\ /\ SeenCur[c] # NoScan /\ ~SeenCur[c].ended
            /\ TornNow \/ \A k \in SeenCur[c].at + 1..SeenCur[c].need : SeenRows[k].gone
            /\ \E i \in SeenCur[c].at..Len(SeenRows) : SeenCur' = Finished(SeenCur, c, i)
            => RowTable!EndScan(c)
<1>1. /\ SeenCur[c] # NoScan /\ ~SeenCur[c].ended
      /\ \E i \in SeenCur[c].at + 1..Len(SeenRows) :
           /\ ~SeenRows[i].gone
           /\ \A k \in SeenCur[c].at + 1..i - 1 : SeenRows[k].gone \/ k > SeenCur[c].need
           /\ SeenCur' = Moved(SeenCur, c, i, SeenRows[i].row)
      /\ RowTable!MaySave /\ SeenRows' = SeenRows
      <=> RowTable!NextRow(c)
  BY DEF SeenRows, SeenCur, Moved, RowTable!NextRow
<1>2. /\ SeenCur[c] # NoScan /\ ~SeenCur[c].ended
      /\ TornNow \/ \A k \in SeenCur[c].at + 1..SeenCur[c].need : SeenRows[k].gone
      /\ \E i \in SeenCur[c].at..Len(SeenRows) : SeenCur' = Finished(SeenCur, c, i)
      /\ RowTable!MaySave /\ SeenRows' = SeenRows
      <=> RowTable!EndScan(c)
  BY DEF SeenRows, SeenCur, Finished, TornNow, RowTable!EndScan
<1> QED BY <1>1, <1>2

\* From row a a scanner for n rows may return row i; or end, having passed i.
CanTake(all, a, n, i) == /\ i \in a + 1..Len(all) /\ ~all[i].gone
                         /\ \A k \in a + 1..i - 1 : all[k].gone \/ k > n
CanEnd(torn, all, a, n, i) ==
  i \in a..Len(all) /\ (torn \/ \A k \in a + 1..n : all[k].gone)

\* The same of what a scanner's call does.
LEMMA ScanSeen ==
  ASSUME up, up', NEW c \in Scanners, NEW y,
         MapRows(up', pool') = MapRows(up, pool),
         MayKeep(pool', pool, MapRows(up', pool')),
         MapCur(pool', scan') = Put(MapCur(pool, scan), c, y)
  PROVE  LET x == MapCursor(pool, scan[c])
             all == MapRows(up, pool)
         IN  /\ x = NoScan /\ y = Going(0, Len(all), NoRow)
                => RowTable!OpenScan(c)
             /\ x # NoScan /\ y = NoScan => RowTable!CloseScan(c)
             /\ \A a, n, r, i :
                  /\ x # NoScan /\ x = Going(a, n, r) /\ CanTake(all, a, n, i)
                  /\ y = Going(i, n, all[i].row)
                  => RowTable!NextRow(c)
             /\ \A a, n, r, i :
                  /\ x # NoScan /\ x = Going(a, n, r) /\ CanEnd(TornNow, all, a, n, i)
                  /\ y = Ended(i, n)
                  => RowTable!EndScan(c)
<1> DEFINE x == MapCursor(pool, scan[c])
           all == MapRows(up, pool)
           cur == MapCur(pool, scan)
<1>1. ByScanner(cur) /\ cur[c] = x
  BY DEF MapCur, ByScanner
<1>7. SeenCur = cur /\ SeenRows = all /\ SeenRows' = SeenRows /\ SeenCur' = Put(cur, c, y)
  BY CursorsSeen DEF SeenCur, SeenRows, MapRows
<1>2. RowTable!MaySave
  BY SaveSeen DEF MapRows
<1>3. ASSUME x = NoScan, y = Going(0, Len(all), NoRow)
      PROVE  RowTable!OpenScan(c)
  BY <1>1, <1>2, <1>3, CursorsSeen DEF RowTable!OpenScan, MapRows, Going, Put
<1>4. ASSUME x # NoScan, y = NoScan PROVE RowTable!CloseScan(c)
  BY <1>1, <1>2, <1>4, CursorsSeen DEF RowTable!CloseScan, MapRows, Put
<1>5. ASSUME NEW a, NEW n, NEW r, NEW i,
             x # NoScan, x = Going(a, n, r), CanTake(all, a, n, i),
             y = Going(i, n, all[i].row)
      PROVE  RowTable!NextRow(c)
  <2>1. x.at = a /\ x.need = n /\ ~x.ended
    BY <1>5 DEF Going
  <2> HIDE DEF x, cur, all
  <2>2. Put(cur, c, y) = Moved(cur, c, i, all[i].row)
    BY <1>1, <1>5, CursorMoved
  <2> QED BY <1>1, <1>2, <1>5, <1>7, <2>1, <2>2, ScanStepsAre DEF CanTake
<1>6. ASSUME NEW a, NEW n, NEW r, NEW i,
             x # NoScan, x = Going(a, n, r), CanEnd(TornNow, all, a, n, i),
             y = Ended(i, n)
      PROVE  RowTable!EndScan(c)
  <2>1. x.at = a /\ x.need = n /\ ~x.ended
    BY <1>6 DEF Going
  <2> HIDE DEF x, cur, all
  <2>2. Put(cur, c, y) = Finished(cur, c, i)
    BY <1>1, <1>6, CursorMoved
  <2> QED BY <1>1, <1>2, <1>6, <1>7, <2>1, <2>2, ScanStepsAre DEF CanEnd
<1> QED BY <1>3, <1>4, <1>5, <1>6

\* The rows of a table as Table sees them.
LEMMA RowsAre ==
  ASSUME NEW s, NEW h, Ready(s, h), up
  PROVE  LET all == MapRows(up, s)
             d == PoolSlots(s)
         IN  /\ Len(all) = Len(d) /\ Len(d) \in Nat
             /\ \A i \in 1..Len(d) : all[i].row = d[i].rec /\ (all[i].gone <=> d[i].deleted)
<1>1. PoolSlots(s) \in Slots(Rows) /\ MapRows(up, s) = MarkedRows(PoolSlots(s))
  BY PoolTyped DEF MapRows
<1> DEFINE d == PoolSlots(s)
           m == MarkedRows(d)
<1>2. /\ Len(m) = Len(d) /\ Len(d) \in Nat
      /\ \A i \in 1..Len(d) : m[i] = [row |-> d[i].rec, gone |-> d[i].deleted]
  BY <1>1, MarkedFacts
<1> HIDE DEF d, m
<1>3. ASSUME NEW i \in 1..Len(d) PROVE m[i].row = d[i].rec /\ (m[i].gone <=> d[i].deleted)
  <2>1. m[i] = [row |-> d[i].rec, gone |-> d[i].deleted]
    BY <1>2
  <2> QED BY <2>1
<1> QED BY <1>1, <1>2, <1>3 DEF d, m

\* A new scanner is before all rows and has to pass those there are.
LEMMA OpenScanMaps ==
  ASSUME RInv, NEW c \in Scanners, HasPage(pool, 1), OpenScan(c)
  PROVE  RInv' /\ RowTable!OpenScan(c)
<1> DEFINE x == scan'[c]
<1>1. /\ IInv' /\ up /\ up' /\ Quiet(pool', pool)
      /\ scan[c] = NoScan /\ scan' = [scan EXCEPT ![c] = scan'[c]]
      /\ AtStart(x, 1, SlotsOf(Latest(pool', 1)), Len(PoolSlots(pool)))
      /\ x.row = NoRow /\ ~x.ended
  BY OpenScanOK DEF RInv
<1>2. Ready(pool, Pins(scan)) /\ Ready(pool', Pins(scan'))
  BY <1>1 DEF RInv, IInv
<1>3. /\ pool'.next = pool.next /\ Pages(pool') = Pages(pool)
      /\ PoolSlots(pool') = PoolSlots(pool)
  BY <1>1, <1>2, QuietGrows
<1>4. 1 \in 1..pool.next-1 /\ 1 \in PageIds /\ pool.next \in Nat
  <2>1. pool.head.bits = 0..pool.next-1 /\ 1 \in pool.head.bits
    BY <1>2 DEF Ready, HeadOK, HasPage
  <2>2. pool.next \in Nat /\ \A p \in 1..pool.next-1 : p \in PageIds
    BY <1>2, PoolTyped
  <2> QED BY <2>1, <2>2
<1>5. /\ x \in Scan /\ x.pid = 1 /\ x.slot = 0
      /\ x.count = Len(SlotsOf(Latest(pool', 1))) /\ x.count \in Nat
      /\ x.need = Len(PoolSlots(pool))
  <2>1. Len(SlotsOf(Latest(pool', 1))) \in Nat
    BY <1>2, <1>4, PageSlotsTyped DEF Ready
  <2> QED BY <1>1, <2>1 DEF AtStart
<1> HIDE DEF x
<1>6. PlaceOK(pool', x)
  <2>1. Len(PoolSlots(pool')) \in Nat
    BY <1>2, PoolTyped
  <2> QED BY <1>1, <1>3, <1>4, <1>5, <2>1 DEF PlaceOK, x
<1>7. SlotsBefore(Pages(pool), 1) = 0
  <2>1. Typed(Pages(pool), 0)
    BY DEF Typed
  <2>2. SlotsUpTo(Pages(pool), 0) = <<>>
    BY <2>1, SlotsUpToRec
  <2> QED BY <2>2 DEF SlotsBefore
<1>8. x # NoScan
  BY <1>5, ImageAssumption
<1>9. MapCursor(pool, x) = Going(0, Len(MapRows(up, pool)), NoRow)
  <2>1. Len(MapRows(up, pool)) = Len(PoolSlots(pool))
    BY <1>1, <1>2, RowsAre
  <2>2. x.ended = FALSE /\ x.row = NoRow
    BY <1>1, <1>5 DEF x, Scan
  <2>3. MapCursor(pool, x)
          = [at |-> SlotsBefore(Pages(pool), x.pid) + x.slot, need |-> x.need,
             row |-> x.row, ended |-> x.ended]
    BY <1>8 DEF MapCursor
  <2>4. SlotsBefore(Pages(pool), x.pid) + x.slot = 0
    BY <1>5, <1>7
  <2>5. Going(0, x.need, NoRow)
          = [at |-> SlotsBefore(Pages(pool), x.pid) + x.slot, need |-> x.need,
             row |-> x.row, ended |-> x.ended]
    BY <2>2, <2>4, Zenon DEF Going
  <2> QED BY <1>5, <2>1, <2>3, <2>5
<1>10. /\ RInv' /\ MayKeep(pool', pool, MapRows(up', pool'))
       /\ MapRows(up', pool') = MapRows(up, pool)
       /\ MapCur(pool', scan') = Put(MapCur(pool, scan), c, MapCursor(pool, x))
  BY <1>1, <1>6, ScanKeeps DEF x
<1>11. MapCursor(pool, scan[c]) = NoScan
  BY <1>1 DEF MapCursor
<1> QED BY <1>1, <1>9, <1>10, <1>11, ScanSeen

\* A scanner that is let go.
LEMMA CloseScanMaps ==
  ASSUME RInv, IInv', up, up', Quiet(pool', pool), NEW c \in Scanners,
         scan[c] # NoScan, scan' = [scan EXCEPT ![c] = NoScan]
  PROVE  RInv' /\ RowTable!CloseScan(c)
<1>1. ScanTyped(scan) /\ Ready(pool, Pins(scan))
  BY DEF RInv, IInv
<1>2. scan'[c] = NoScan /\ scan' = [scan EXCEPT ![c] = scan'[c]]
  BY <1>1 DEF ScanTyped
<1>3. PlaceOK(pool', scan'[c]) /\ MapCursor(pool, scan'[c]) = NoScan
  BY <1>2 DEF PlaceOK, MapCursor
<1>4. /\ RInv' /\ MayKeep(pool', pool, MapRows(up', pool'))
      /\ MapRows(up', pool') = MapRows(up, pool)
      /\ MapCur(pool', scan') = Put(MapCur(pool, scan), c, NoScan)
  BY <1>2, <1>3, ScanKeeps
<1>5. MapCursor(pool, scan[c]) # NoScan
  <2>1. scan[c] \in Scan /\ PlaceOK(pool, scan[c])
    BY <1>1, ScanIs DEF RInv
  <2> QED BY <1>1, <2>1, CursorIs
<1> QED BY <1>4, <1>5, ScanSeen

\* Cursors of scanners that go on, and of those at the end.
LEMMA GoingIs ==
  ASSUME NEW s, NEW h, Ready(s, h), NEW x \in Scan, PlaceOK(s, x)
  PROVE  LET at == SlotsBefore(Pages(s), x.pid) + x.slot IN
         /\ MapCursor(s, x) # NoScan
         /\ ~x.ended => MapCursor(s, x) = Going(at, x.need, x.row)
         /\ x.ended /\ x.row = NoRow => MapCursor(s, x) = Ended(at, x.need)
<1> DEFINE at == SlotsBefore(Pages(s), x.pid) + x.slot
<1>1. /\ MapCursor(s, x) # NoScan
      /\ MapCursor(s, x) = [at |-> at, need |-> x.need, row |-> x.row, ended |-> x.ended]
  BY CursorIs
<1>2. x.ended \in BOOLEAN
  BY DEF Scan
<1> HIDE DEF at
<1>3. ASSUME ~x.ended PROVE MapCursor(s, x) = Going(at, x.need, x.row)
  <2>1. x.ended = FALSE
    BY <1>2, <1>3
  <2> QED BY <1>1, <2>1, Zenon DEF Going
<1>4. ASSUME x.ended, x.row = NoRow PROVE MapCursor(s, x) = Ended(at, x.need)
  <2>1. x.ended = TRUE
    BY <1>2, <1>4
  <2> QED BY <1>1, <1>4, <2>1, Zenon DEF Ended
<1> QED BY <1>1, <1>3, <1>4 DEF at

LEMMA PlaceSame ==
  ASSUME NEW s, NEW t, NEW x, PlaceOK(s, x), t.next = s.next, Pages(t) = Pages(s),
         PoolSlots(t) = PoolSlots(s), Latest(t, x.pid) = Latest(s, x.pid)
  PROVE  PlaceOK(t, x)
  BY DEF PlaceOK

LEMMA PlaceEnds ==
  ASSUME NEW s, NEW x, x # NoScan, PlaceOK(s, x), NEW y,
         y.pid = x.pid, y.slot = x.slot, y.count = x.count, y.need = x.need,
         x.need <= SlotsBefore(Pages(s), x.pid) + x.slot
  PROVE  PlaceOK(s, y)
  BY DEF PlaceOK

\* A scanner that takes a row of page p, starting from where z is there, with
\* no row it has to pass between where it was and that.
LEMMA TakenMaps ==
  ASSUME RInv, IInv', up, up', Quiet(pool', pool),
         NEW c \in Scanners, scan' = [scan EXCEPT ![c] = scan'[c]], scan[c] # NoScan, ~scan[c].ended,
         NEW p \in 1..pool.next-1, NEW z, z.pid = p, z.need = scan[c].need,
         z.slot \in Nat, z.count \in Nat, z.count <= Len(SlotsOf(Latest(pool, p))),
         \/ z.count = Len(SlotsOf(Latest(pool, p)))
         \/ z.need <= SlotsBefore(Pages(pool), p) + z.count,
         SlotTaken(scan'[c], z, SlotsOf(Latest(pool, p))),
         SlotsBefore(Pages(pool), scan[c].pid) + scan[c].slot
           <= SlotsBefore(Pages(pool), p) + z.slot,
         \A k \in SlotsBefore(Pages(pool), scan[c].pid) + scan[c].slot + 1
                    ..SlotsBefore(Pages(pool), p) + z.slot :
           k > scan[c].need
  PROVE  RInv' /\ RowTable!NextRow(c)
<1> DEFINE x == scan[c]
           y == scan'[c]
           b == SlotsBefore(Pages(pool), p)
           a == SlotsBefore(Pages(pool), x.pid) + x.slot
           d == PoolSlots(pool)
           i == b + y.slot
           all == MapRows(up, pool)
<1>1. /\ Ready(pool, Pins(scan)) /\ ScanTyped(scan)
      /\ \A q \in Scanners : PlaceOK(pool, scan[q])
  BY DEF RInv, IInv
<1>2. x \in Scan /\ PlaceOK(pool, x) /\ ~x.ended
  BY <1>1, ScanIs
<1>3. /\ b \in Nat /\ y.slot \in Nat /\ i \in 1..Len(d) /\ b + z.slot < i
      /\ y.row = d[i].rec /\ ~d[i].deleted
      /\ \A k \in b + z.slot + 1..i - 1 : d[k].deleted
  <2>1. TakesRow(pool, p, y, z)
    BY <1>1, TakenAt
  <2> QED BY <2>1 DEF TakesRow
<1>4. /\ y \in Scan /\ ~y.ended /\ y.pid = p /\ y.count = z.count /\ y.need = x.need
      /\ y.slot <= y.count
  BY DEF SlotTaken
<1>5. /\ pool'.next = pool.next /\ Pages(pool') = Pages(pool)
      /\ PoolSlots(pool') = PoolSlots(pool) /\ Latest(pool', p) = Latest(pool, p)
  <2>1. Ready(pool', Pins(scan'))
    BY DEF IInv
  <2>2. p \in PageIds
    BY <1>1, PoolTyped
  <2> QED BY <1>1, <2>1, <2>2, QuietGrows DEF Quiet, ReadsSame
<1>6. x.need <= Len(d)
  BY <1>2, ImageAssumption DEF PlaceOK
<1>7. PlaceOK(pool, y)
  BY <1>4, <1>6 DEF PlaceOK
<1>8. PlaceOK(pool', y)
  BY <1>4, <1>5, <1>7, PlaceSame
<1>9. /\ RInv' /\ MayKeep(pool', pool, MapRows(up', pool'))
      /\ MapRows(up', pool') = all
      /\ MapCur(pool', scan') = Put(MapCur(pool, scan), c, MapCursor(pool, y))
  BY <1>8, ScanKeeps
<1>10. /\ Len(all) = Len(d) /\ Len(d) \in Nat
       /\ \A k \in 1..Len(d) : all[k].row = d[k].rec /\ (all[k].gone <=> d[k].deleted)
  BY <1>1, RowsAre
<1>11. /\ MapCursor(pool, x) # NoScan /\ MapCursor(pool, x) = Going(a, x.need, x.row)
       /\ MapCursor(pool, y) = Going(i, x.need, y.row)
  BY <1>1, <1>2, <1>4, <1>7, GoingIs
<1>12. a \in Nat /\ i \in Nat
  <2>1. SlotsBefore(Pages(pool), x.pid) \in Nat
    BY <1>1, <1>2, CursorIs
  <2>2. x.slot \in Nat
    BY <1>2 DEF Scan
  <2> HIDE DEF x, y, b
  <2> QED BY <1>3, <2>1, <2>2
<1> HIDE DEF x, y, a, d, all, b, i
<1>13. i \in a + 1..Len(all) /\ ~all[i].gone /\ all[i].row = y.row
  BY <1>3, <1>10, <1>12 DEF a, b, x
<1>14. ASSUME NEW k \in a + 1..i - 1 PROVE all[k].gone \/ k > x.need
  <2>1. k \in 1..Len(d)
    BY <1>3, <1>10, <1>12
  <2>2. CASE k <= b + z.slot
    BY <1>3, <1>12, <2>2 DEF a, b, x
  <2>3. CASE ~(k <= b + z.slot)
    <3>1. k \in b + z.slot + 1..i - 1
      BY <1>3, <1>12, <2>3
    <3> QED BY <1>3, <1>10, <2>1, <3>1
  <2> QED BY <2>2, <2>3
<1>15. MapCursor(pool, y) = Going(i, x.need, all[i].row)
  BY <1>11, <1>13
<1>16. CanTake(all, a, x.need, i)
  BY <1>13, <1>14 DEF CanTake
<1>17. RowTable!NextRow(c)
  BY <1>9, <1>11, <1>15, <1>16, ScanSeen DEF x, all
<1> QED BY <1>9, <1>17

LEMMA NextInPageMaps ==
  ASSUME RInv, up, NEW c \in Scanners, scan[c] # NoScan, ~scan[c].ended, NextInPage(c, scan[c])
  PROVE  RInv' /\ RowTable!NextRow(c)
<1> DEFINE x == scan[c]
           b == SlotsBefore(Pages(pool), x.pid)
<1>1. /\ IInv' /\ up' /\ pool' = pool /\ scan' = [scan EXCEPT ![c] = scan'[c]]
      /\ SlotTaken(scan'[c], x, SlotsOf(Latest(pool, x.pid)))
  BY NextInPageOK DEF RInv
<1>2. Quiet(pool', pool)
  BY <1>1 DEF Quiet, ReadsSame, OnDisk
<1>3. Ready(pool, Pins(scan)) /\ x \in Scan /\ PlaceOK(pool, x)
  BY ScanIs DEF RInv, IInv
<1>4. x.slot \in Nat /\ x.count \in Nat /\ x.need \in Nat
  BY <1>3 DEF Scan
<1>5. /\ x.pid \in 1..pool.next-1 /\ x.count <= Len(SlotsOf(Latest(pool, x.pid)))
      /\ \/ x.count = Len(SlotsOf(Latest(pool, x.pid)))
         \/ x.need <= b + x.count
  BY <1>3, ImageAssumption DEF PlaceOK
<1>6. b \in Nat
  BY <1>3, CursorIs
<1> HIDE DEF b
<1>7. b + x.slot <= b + x.slot /\ \A k \in b + x.slot + 1..b + x.slot : k > x.need
  BY <1>4, <1>6
<1> QED BY <1>1, <1>2, <1>4, <1>5, <1>7, TakenMaps DEF b

\* A scanner that stops at a page without rows ends early, in a torn table.
LEMMA StoppedMaps ==
  ASSUME RInv, IInv', up, up', Quiet(pool', pool),
         NEW c \in Scanners, scan' = [scan EXCEPT ![c] = scan'[c]],
         scan[c] # NoScan, ~scan[c].ended,
         NEW p \in 2..pool.next-1, SlotsOf(Latest(pool, p)) = <<>>,
         StopsAt(scan'[c], p, scan[c].need),
         SlotsBefore(Pages(pool), scan[c].pid) + scan[c].slot \in Nat,
         SlotsBefore(Pages(pool), scan[c].pid) + scan[c].slot <= SlotsBefore(Pages(pool), p)
  PROVE  RInv' /\ RowTable!EndScan(c)
<1> DEFINE x == scan[c]
           y == scan'[c]
           a == SlotsBefore(Pages(pool), x.pid) + x.slot
           b == SlotsBefore(Pages(pool), p)
           n == pool.next - 1
<1>1. /\ Ready(pool, Pins(scan)) /\ ScanTyped(scan)
      /\ x \in Scan /\ PlaceOK(pool, x) /\ Ready(pool', Pins(scan'))
  BY ScanIs DEF RInv, IInv
<1>2. /\ n \in Nat /\ p \in 1..n /\ p > 1 /\ Typed(Pages(pool), n) /\ p \in PageIds
      /\ Pages(pool)[p] = Latest(pool, p) /\ PoolSlots(pool) = SlotsUpTo(Pages(pool), n)
  BY <1>1, PoolTyped
<1>3. b \in Nat /\ b <= Len(PoolSlots(pool)) /\ Len(PoolSlots(pool)) \in Nat
  <2> HIDE DEF n
  <2>1. b + 0 <= Len(PoolSlots(pool)) /\ b \in Nat /\ Len(PoolSlots(pool)) \in Nat
    BY <1>2, SlotAt
  <2> QED BY <2>1
<1>4. /\ y \in Scan /\ y.ended /\ y.pid = p /\ y.slot = 0 /\ y.count = 0
      /\ y.need = x.need /\ y.row = NoRow /\ StoppedEarly(y)
  BY <1>2 DEF StopsAt, StoppedEarly
<1>5. /\ pool'.next = pool.next /\ Pages(pool') = Pages(pool)
      /\ PoolSlots(pool') = PoolSlots(pool) /\ Latest(pool', p) = Latest(pool, p)
  BY <1>1, <1>2, QuietGrows DEF Quiet, ReadsSame
<1>6. x.need <= Len(PoolSlots(pool))
  BY <1>1 DEF PlaceOK
<1>7. PlaceOK(pool, y)
  BY <1>2, <1>4, <1>6 DEF PlaceOK
<1>8. PlaceOK(pool', y)
  BY <1>4, <1>5, <1>7, PlaceSame
<1>9. /\ RInv' /\ MayKeep(pool', pool, MapRows(up', pool'))
      /\ MapRows(up', pool') = MapRows(up, pool)
      /\ MapCur(pool', scan') = Put(MapCur(pool, scan), c, MapCursor(pool, y))
  BY <1>8, ScanKeeps
<1>10. b + y.slot = b
  BY <1>3, <1>4
<1>11. /\ MapCursor(pool, x) # NoScan /\ MapCursor(pool, x) = Going(a, x.need, x.row)
       /\ MapCursor(pool, y) = Ended(b, x.need)
  BY <1>1, <1>4, <1>7, <1>10, GoingIs
<1>12. TornNow
  BY <1>1, GapsAre DEF TornNow
<1>13. CanEnd(TornNow, MapRows(up, pool), a, x.need, b)
  <2>1. Len(MapRows(up, pool)) = Len(PoolSlots(pool))
    BY <1>1, RowsAre
  <2> DEFINE all == MapRows(up, pool)
  <2>2. a \in Nat /\ a <= b /\ b \in Nat /\ b <= Len(all) /\ Len(all) \in Nat
    BY <1>3, <2>1, Zenon
  <2> HIDE DEF a, b, all
  <2>3. b \in a..Len(all)
    BY <2>2
  <2> QED BY <1>12, <2>3 DEF CanEnd, all
<1> HIDE DEF x, y, a, b
<1> QED BY <1>9, <1>11, <1>13, ScanSeen DEF x

\* The next page in use is the next page: what the scanner did not see of the
\* page it leaves was not there when it was opened.
LEMMA NextInNextPageMaps ==
  ASSUME RInv, up, NEW c \in Scanners, scan[c] # NoScan, ~scan[c].ended, NextInNextPage(c, scan[c])
  PROVE  RInv' /\ (RowTable!NextRow(c) \/ RowTable!EndScan(c))
<1> DEFINE x == scan[c]
           q == x.pid
           a == SlotsBefore(Pages(pool), q)
           b == SlotsBefore(Pages(pool), q + 1)
           l == Len(SlotsOf(Latest(pool, q)))
<1>1. PICK p \in PidsAfter(pool, x.pid) :
        (\A j \in PidsAfter(pool, x.pid) : p <= j) /\ EnterPage(c, x, p)
  BY DEF NextInNextPage
<1>2. /\ IInv' /\ Quiet(pool', pool) /\ up' = up /\ scan' = [scan EXCEPT ![c] = scan'[c]]
      /\ \/ \E z : /\ AtStart(z, p, SlotsOf(Latest(pool, p)), x.need)
                   /\ SlotTaken(scan'[c], z, SlotsOf(Latest(pool, p)))
         \/ SlotsOf(Latest(pool, p)) = <<>> /\ StopsAt(scan'[c], p, x.need)
  BY <1>1, EnterPageFacts DEF RInv
<1>4. Ready(pool, Pins(scan)) /\ x \in Scan /\ PlaceOK(pool, x) /\ pool.next \in Nat
  BY ScanIs, PoolTyped DEF RInv, IInv
<1>5. /\ x.slot \in Nat /\ x.count \in Nat /\ x.need \in Nat /\ q \in 1..pool.next-1
      /\ x.slot <= x.count /\ x.count <= l
      /\ x.count = l \/ x.need <= a + x.count
  BY <1>4, ImageAssumption DEF PlaceOK, Scan
<1>6. p = q + 1 /\ p \in 1..pool.next-1 /\ p \in PageIds \ {0} /\ x.slot >= x.count
  <2>1. x.slot >= x.count
    BY <1>1 DEF EnterPage
  <2>2. /\ pool.head.bits = 0..pool.next-1
        /\ p \in pool.head.bits /\ p > q
        /\ PidsAfter(pool, q) = {j \in pool.head.bits : j > q}
    BY <1>1, <1>4 DEF Ready, HeadOK, PidsAfter
  <2> HIDE DEF q
  <2>3. p \in Int /\ q + 1 \in 0..pool.next-1 /\ q + 1 > q
    BY <1>4, <1>5, <2>2
  <2>4. p <= q + 1
    BY <1>1, <2>2, <2>3 DEF q
  <2>5. p = q + 1 /\ p \in 1..pool.next-1
    BY <1>4, <1>5, <2>2, <2>3, <2>4
  <2> QED BY <1>4, <2>1, <2>5, PoolTyped
<1>7. a \in Nat /\ b = a + l /\ l \in Nat
  <2> DEFINE n == pool.next - 1
  <2>1. /\ Typed(Pages(pool), n) /\ Pages(pool)[q] = Latest(pool, q)
        /\ n \in Nat /\ q \in 1..n /\ q + 1 \in 1..n
    BY <1>4, <1>5, <1>6, PoolTyped
  <2> HIDE DEF n, q
  <2> QED BY <2>1, SlotAt
<1> HIDE DEF a, b, l, q
<1>8. /\ a + x.slot <= b + 0
      /\ \A k \in a + x.slot + 1..b + 0 : k > x.need
  BY <1>5, <1>6, <1>7
<1>9. ASSUME NEW z, AtStart(z, p, SlotsOf(Latest(pool, p)), x.need),
             SlotTaken(scan'[c], z, SlotsOf(Latest(pool, p)))
      PROVE  RInv' /\ RowTable!NextRow(c)
  <2>1. /\ z.pid = p /\ z.slot = 0 /\ z.slot \in Nat /\ z.need = x.need
        /\ z.count = Len(SlotsOf(Latest(pool, p)))
        /\ z.count \in Nat /\ z.count <= Len(SlotsOf(Latest(pool, p)))
    <3>1. Len(SlotsOf(Latest(pool, p))) \in Nat
      BY <1>4, <1>6, PageSlotsTyped DEF Ready
    <3> QED BY <1>9, <3>1 DEF AtStart
  <2>2. /\ a + x.slot <= SlotsBefore(Pages(pool), p) + z.slot
        /\ \A k \in a + x.slot + 1..SlotsBefore(Pages(pool), p) + z.slot : k > x.need
    BY <1>6, <1>8, <2>1 DEF b
  <2> QED BY <1>2, <1>6, <1>9, <2>1, <2>2, TakenMaps DEF a, q
<1>10. ASSUME SlotsOf(Latest(pool, p)) = <<>>, StopsAt(scan'[c], p, x.need)
       PROVE  RInv' /\ RowTable!EndScan(c)
  <2>1. SlotsBefore(Pages(pool), p) = b /\ b \in Nat /\ p > 1
    BY <1>5, <1>6, <1>7, PoolTyped DEF b, q
  <2>2. a + x.slot \in Nat /\ a + x.slot <= b
    BY <1>5, <1>7, <1>8
  <2>3. p \in 2..pool.next-1
    BY <1>4, <1>6, <2>1
  <2> QED BY <1>2, <1>5, <1>10, <2>1, <2>2, <2>3, StoppedMaps DEF a, q
<1> QED BY <1>2, <1>9, <1>10

\* The scanner is on the last page, and has seen what it has to see of it.
LEMMA NextAtEndMaps ==
  ASSUME RInv, up, NEW c \in Scanners, scan[c] # NoScan, ~scan[c].ended, NextAtEnd(c, scan[c])
  PROVE  RInv' /\ RowTable!EndScan(c)
<1> DEFINE x == scan[c]
           y == scan'[c]
           q == x.pid
           n == pool.next - 1
           a == SlotsBefore(Pages(pool), q)
           l == Len(SlotsOf(Latest(pool, q)))
<1>1. IInv' /\ up' /\ Quiet(pool', pool)
  BY NextAtEndOK DEF RInv
<1>2. /\ Ready(pool, Pins(scan)) /\ ScanTyped(scan) /\ x \in Scan /\ PlaceOK(pool, x)
      /\ pool.next \in Nat
  BY ScanIs, PoolTyped DEF RInv, IInv
<1>3. /\ x.slot >= x.count /\ PidsAfter(pool, q) = {}
      /\ scan' = [scan EXCEPT ![c].row = NoRow, ![c].ended = TRUE]
  BY DEF NextAtEnd
<1>4. /\ y \in Scan /\ y.pid = q /\ y.slot = x.slot /\ y.count = x.count
      /\ y.need = x.need /\ y.row = NoRow /\ y.ended
      /\ scan' = [scan EXCEPT ![c] = y]
  <2> DEFINE w == [x EXCEPT !.row = NoRow]
             v == [w EXCEPT !.ended = TRUE]
  <2>1. w \in Scan /\ w.row = NoRow /\ w.pid = q /\ w.slot = x.slot /\ w.count = x.count
        /\ w.need = x.need
    BY <1>2 DEF Scan
  <2> HIDE DEF w
  <2>2. v \in Scan /\ v.row = NoRow /\ v.pid = q /\ v.slot = x.slot /\ v.count = x.count
        /\ v.need = x.need /\ v.ended
    BY <2>1 DEF Scan
  <2>3. scan' = [scan EXCEPT ![c] = v]
    BY <1>2, <1>3 DEF ScanTyped, w
  <2> HIDE DEF v
  <2>4. y = v
    BY <1>2, <2>3 DEF ScanTyped
  <2> QED BY <2>2, <2>3, <2>4
<1>5. /\ x.slot \in Nat /\ x.count \in Nat /\ x.need \in Nat /\ q \in 1..n /\ n \in Nat
      /\ x.slot <= x.count /\ x.count <= l /\ x.need <= Len(PoolSlots(pool))
      /\ x.count = l \/ x.need <= a + x.count
  BY <1>2, ImageAssumption DEF PlaceOK, Scan
<1>6. q = n
  <2>1. /\ pool.head.bits = 0..n /\ n + 1 <= pool.head.bytes * BitsPerByte
    BY <1>2 DEF Ready, HeadOK
  <2>2. pool.head.bytes * BitsPerByte \in Nat
    <3>1. pool.head.bytes \in Nat
      BY <1>2 DEF Ready, PoolOK, PoolType
    <3> QED BY <3>1, PoolAssumption
  <2> DEFINE m == pool.head.bytes * BitsPerByte
  <2> HIDE DEF m, n, q
  <2>3. q < m
    BY <1>5, <2>1, <2>2 DEF m
  <2>4. {p \in 0..n : p > q} = {}
    BY <1>3, <2>1, <2>3 DEF PidsAfter, m
  <2>5. ~(q + 1 \in 0..n)
    BY <1>5, <2>4
  <2> QED BY <1>5, <2>5
<1>7. a \in Nat /\ l \in Nat /\ Len(PoolSlots(pool)) = a + l
  <2>1. /\ Typed(Pages(pool), n) /\ Pages(pool)[q] = Latest(pool, q)
        /\ PoolSlots(pool) = SlotsUpTo(Pages(pool), n)
    BY <1>2, <1>5, PoolTyped
  <2> HIDE DEF n, q
  <2> QED BY <1>5, <1>6, <2>1, SlotAt
<1>8. /\ x.slot = x.count /\ x.need <= a + x.slot /\ a + x.slot <= Len(PoolSlots(pool))
      /\ a + x.slot \in Nat /\ Len(PoolSlots(pool)) \in Nat
  <2> DEFINE k == x.slot
             m == x.count
             j == x.need
             len == Len(PoolSlots(pool))
  <2>1. /\ k >= m /\ k \in Nat /\ m \in Nat /\ j \in Nat /\ k <= m /\ m <= l /\ j <= len
        /\ m = l \/ j <= a + m
    BY <1>3, <1>5
  <2>2. a \in Nat /\ l \in Nat /\ len = a + l
    BY <1>7
  <2> HIDE DEF a, l, k, m, j, len
  <2>3. k = m /\ j <= a + k /\ a + k <= len /\ a + k \in Nat /\ len \in Nat
    BY <2>1, <2>2
  <2> QED BY <2>3 DEF k, m, j, len
<1>9. PlaceOK(pool, y)
  BY <1>2, <1>4, <1>8, PlaceEnds
<1>10. PlaceOK(pool', y)
  <2>1. Ready(pool', Pins(scan'))
    BY <1>1 DEF IInv
  <2>2. q \in PageIds
    BY <1>2, <1>5, PoolTyped
  <2>3. /\ pool'.next = pool.next /\ Pages(pool') = Pages(pool)
        /\ PoolSlots(pool') = PoolSlots(pool) /\ Latest(pool', q) = Latest(pool, q)
    BY <1>1, <1>2, <2>1, <2>2, QuietGrows DEF Quiet, ReadsSame
  <2> QED BY <1>4, <1>9, <2>3, PlaceSame
<1>11. /\ RInv' /\ MayKeep(pool', pool, MapRows(up', pool'))
       /\ MapRows(up', pool') = MapRows(up, pool)
       /\ MapCur(pool', scan') = Put(MapCur(pool, scan), c, MapCursor(pool, y))
  BY <1>1, <1>4, <1>10, ScanKeeps
<1>12. /\ MapCursor(pool, x) # NoScan /\ MapCursor(pool, x) = Going(a + x.slot, x.need, x.row)
       /\ MapCursor(pool, y) = Ended(a + x.slot, x.need)
  BY <1>2, <1>4, <1>9, GoingIs
<1>13. CanEnd(TornNow, MapRows(up, pool), a + x.slot, x.need, a + x.slot)
  <2>1. Len(MapRows(up, pool)) = Len(PoolSlots(pool))
    BY <1>2, RowsAre
  <2> DEFINE k == a + x.slot
             j == x.need
             all == MapRows(up, pool)
  <2>2. k \in Nat /\ j \in Nat /\ j <= k /\ k <= Len(all) /\ Len(all) \in Nat
    BY <1>5, <1>8, <2>1, Zenon
  <2> HIDE DEF k, j, all
  <2>3. CanEnd(TornNow, all, k, j, k)
    BY <2>2 DEF CanEnd
  <2> QED BY <2>3 DEF k, j, all
<1> QED BY <1>1, <1>11, <1>12, <1>13, ScanSeen

\* The pages of a file, from the bits of its header.
LEMMA ImageFile ==
  ASSUME NEW c, ImageOK(c), NEW n \in Nat, n > 0, ImageBits(c) = 0..n-1
  PROVE  c # Zero /\ InFile(c) = n
<1>1. c # Zero
  <2>1. 0 \in ImageBits(c)
    OBVIOUS
  <2> QED BY <2>1 DEF ImageBits
<1> DEFINE m == c.phyNum
<1>2. m \in 1..LastPid+1 /\ 0..m-1 = 0..n-1
  BY <1>1 DEF ImageOK, ImageBits
<1> HIDE DEF m
<1>3. m \in Nat /\ m > 0
  BY <1>2, PoolAssumption
<1>4. m = n
  <2>1. m - 1 \in 0..n-1 /\ n - 1 \in 0..m-1
    BY <1>2, <1>3
  <2> QED BY <1>3, <2>1
<1> QED BY <1>1, <1>4 DEF InFile, m

\* A file with the slots of some pages has their rows.
LEMMA FileIs ==
  ASSUME NEW d, ImageOK(d[0]), \A p \in PageIds \ {0} : PageOK(d[p]),
         NEW page, \A p \in 1..InFile(d[0])-1 : SlotsOf(d[p]) = SlotsOf(page[p])
  PROVE  FileSlots(d) = SlotsUpTo(page, InFile(d[0]) - 1)
<1> DEFINE n == InFile(d[0]) - 1
<1>1. /\ n \in Nat /\ Typed(d, n) /\ FileSlots(d) = SlotsUpTo(d, n)
  <2>1. InFile(d[0]) \in 1..LastPid+1 /\ InFile(d[0]) \in Nat
    BY FileTyped
  <2>2. n \in 0..n /\ n \in Nat
    BY <2>1
  <2> QED BY <2>2, FileTyped
<1> HIDE DEF n
<1>2. SameSlots(d, page, n)
  BY DEF SameSlots, n
<1>3. \A p \in 1..n : SlotsOf(d[p]) \in Seq([rec : Rows, start : Nat, deleted : BOOLEAN])
  BY <1>1 DEF Typed, Slots
<1> QED BY <1>1, <1>2, <1>3, SlotsUpToSame DEF n

\* The constructor reads the file's rows, and the file keeps them.
LEMMA OpenedRows ==
  ASSUME NEW d, FileOK(d)
  PROVE  LET t == OpenPool(d) IN
         /\ SavedOK(t) /\ PoolSlots(t) = FileSlots(d) /\ FileSlots(t.disk) = FileSlots(d)
         /\ FileRows(t.disk) = FileRows(d) /\ (Torn(t) <=> FileGap(d))
<1> DEFINE t == OpenPool(d)
           n == t.next - 1
<1>1. Ready(t, NoPins) /\ FileOpened(t, d)
  BY OpenedTable
<1> HIDE DEF t
<1>2. /\ t.head.bits = 0..n /\ t.next \in Nat /\ t.next > 0 /\ n \in Nat
      /\ ImageOK(Latest(t, 0)) /\ ImageOK(t.disk[0])
      /\ \A p \in 1..n : p \in PageIds /\ p # 0
  <2>1. t.next \in Nat /\ t.next \in 1..LastPid+1 /\ \A p \in 1..n : p \in PageIds \ {0}
    BY <1>1, PoolTyped
  <2> QED BY <1>1, <2>1 DEF Ready, HeadOK
<1>3. InFile(Latest(t, 0)) = t.next
  BY <1>1, <1>2, ImageFile DEF FileOpened
<1>4. InFile(d[0]) = t.next
  <2>1. CASE d[0] = Zero
    <3>1. t.head.bits = {0}
      BY <1>1, <2>1 DEF FileOpened, ImageBits
    <3>2. n = 0
      <4>1. n \in 0..n
        BY <1>2
      <4> QED BY <1>2, <3>1, <4>1
    <3> QED BY <1>2, <2>1, <3>2 DEF InFile
  <2>2. CASE d[0] # Zero
    <3>1. ImageOK(d[0]) /\ d[0].phyNum \in Nat /\ d[0].phyNum > 0
          /\ ImageBits(d[0]) = 0..d[0].phyNum-1
      BY <2>2, PoolAssumption DEF FileOK, ImageOK, ImageBits
    <3>2. 0 \in ImageBits(d[0])
      BY <3>1
    <3>3. ImageBits(d[0]) = 0..n
      BY <1>1, <1>2, <3>2 DEF FileOpened
    <3> QED BY <1>2, <3>1, <3>3, ImageFile
  <2> QED BY <2>1, <2>2
<1>5. InFile(t.disk[0]) = t.next
  BY <1>1, <1>3, <1>4 DEF FileOpened
<1>6. \A p \in 1..n : /\ SlotsOf(d[p]) = SlotsOf(Pages(t)[p])
                      /\ SlotsOf(t.disk[p]) = SlotsOf(Pages(t)[p])
                      /\ SlotsOf(Latest(t, p)) = SlotsOf(t.disk[p])
                      /\ SlotsOf(t.disk[p]) \in Slots(Rows)
  <2> SUFFICES ASSUME NEW p \in 1..n
               PROVE  /\ SlotsOf(d[p]) = SlotsOf(Pages(t)[p])
                      /\ SlotsOf(t.disk[p]) = SlotsOf(Pages(t)[p])
                      /\ SlotsOf(Latest(t, p)) = SlotsOf(t.disk[p])
                      /\ SlotsOf(t.disk[p]) \in Slots(Rows)
    OBVIOUS
  <2>1. p \in PageIds /\ p # 0
    BY <1>2
  <2>2. /\ d[p] = Latest(t, p) /\ t.disk[p] = Latest(t, p) /\ Pages(t)[p] = Latest(t, p)
    BY <1>1, <2>1 DEF FileOpened, Pages
  <2>3. SlotsOf(Latest(t, p)) \in Slots(Rows)
    BY <1>1, <2>1, PageSlotsTyped DEF Ready
  <2> QED BY <2>2, <2>3
<1>7. PoolSlots(t) = SlotsUpTo(Pages(t), n)
  BY <1>1, PoolTyped
<1>8. FileSlots(d) = PoolSlots(t)
  BY <1>4, <1>6, <1>7, FileIs DEF FileOK
<1>9. FileSlots(t.disk) = PoolSlots(t)
  BY <1>1, <1>5, <1>6, <1>7, FileIs, ReadyFile
<1>10. SavedOK(t)
  <2>1. \A p \in 1..n : Before(SlotsOf(t.disk[p]), SlotsOf(Latest(t, p)))
    BY <1>6, BeforeSame
  <2>2. \A p \in 1..t.next - 2 : p \in 1..n
    BY <1>2
  <2> QED BY <1>2, <1>3, <1>5, <1>6, <2>1, <2>2 DEF SavedOK
<1>11. FileRows(t.disk) = FileRows(d)
  BY <1>1 DEF FileOpened, FileRows, RecordPids
<1>12. Torn(t) <=> FileGap(d)
  <2>1. \A p \in 2..n : SlotsOf(Latest(t, p)) = SlotsOf(d[p]) /\ SlotsOf(t.disk[p]) = SlotsOf(d[p])
    BY <1>2, <1>6
  <2> QED BY <1>1, <1>4, <1>5, <2>1, GapsAre DEF Torn
<1> QED BY <1>8, <1>9, <1>10, <1>11, <1>12 DEF t

\* close writes all rows.
LEMMA ClosedRows ==
  ASSUME NEW s, NEW h, Ready(s, h), CloseOK(s), h[0] < PinMax
  PROVE  LET d == Close(s).disk IN
         /\ FileSlots(d) = PoolSlots(s)
         /\ WrittenTo(d, s) /\ (FileGap(d) => PoolGap(s))
<1> DEFINE d == Close(s).disk
           n == s.next - 1
<1>1. /\ FileOK(d) /\ ImageBits(d[0]) = s.head.bits
      /\ \A p \in PageIds : p # 0 => d[p] = Latest(s, p)
  BY ClosedFile
<1> HIDE DEF d
<1>2. /\ s.head.bits = 0..n /\ s.next \in Nat /\ s.next > 0
      /\ \A p \in 1..n : p \in PageIds /\ p # 0 /\ Pages(s)[p] = Latest(s, p)
      /\ PoolSlots(s) = SlotsUpTo(Pages(s), n)
  <2>1. s.next \in Nat /\ s.next \in 1..LastPid+1
    BY PoolTyped
  <2> QED BY <2>1, PoolTyped DEF Ready, HeadOK
<1>3. ImageOK(d[0]) /\ \A p \in PageIds \ {0} : PageOK(d[p])
  BY <1>1 DEF FileOK
<1>4. InFile(d[0]) = s.next
  BY <1>1, <1>2, <1>3, ImageFile
<1>5. \A p \in 1..n : SlotsOf(d[p]) = SlotsOf(Pages(s)[p])
  BY <1>1, <1>2
<1>6. FileSlots(d) = PoolSlots(s)
  BY <1>2, <1>3, <1>4, <1>5, FileIs
<1>7. WrittenTo(d, s)
  BY <1>1, DiskRows
<1>8. FileGap(d) => PoolGap(s)
  <2>1. \A p \in 2..n : d[p] = Latest(s, p)
    BY <1>1, <1>2
  <2> QED BY <1>4, <2>1, GapsAre
<1> QED BY <1>6, <1>7, <1>8 DEF d

\* Each row of a file lies in a page of it.
LEMMA SlotFrom ==
  ASSUME NEW page, NEW n \in Nat, Typed(page, n), NEW i \in 1..Len(SlotsUpTo(page, n))
  PROVE  \E p \in 1..n : \E k \in DOMAIN SlotsOf(page[p]) :
           SlotsUpTo(page, n)[i] = SlotsOf(page[p])[k]
<1> DEFINE T == {p \in 0..n : i <= Len(SlotsUpTo(page, p))}
<1>1. i \in Nat /\ i > 0
  BY SlotsUpToRec DEF Slots
<1>2. n \in T /\ T \subseteq Nat
  <2>1. i <= Len(SlotsUpTo(page, n))
    BY SlotsUpToRec DEF Slots
  <2> QED BY <2>1
<1>3. PICK p \in T : \A q \in T : p <= q
  BY <1>2, LeastNatural
<1>4. p # 0
  <2>1. Typed(page, 0) /\ SlotsUpTo(page, 0) = <<>>
    BY SlotsUpToRec DEF Typed
  <2> QED BY <1>1, <1>3, <2>1
<1>5. p \in 1..n /\ p - 1 \in 0..n /\ ~(p <= p - 1)
  BY <1>3, <1>4
<1>6. p - 1 \notin T
  BY <1>3, <1>5
<1>7. ~(i <= SlotsBefore(page, p))
  BY <1>5, <1>6 DEF SlotsBefore
<1>8. i <= Len(SlotsUpTo(page, p))
  BY <1>3
<1> HIDE DEF T
<1> DEFINE b == SlotsBefore(page, p)
           a == SlotsOf(page[p])
           k == i - b
<1>9. Len(SlotsUpTo(page, p)) = b + Len(a) /\ a \in Slots(Rows) /\ b \in Nat /\ Len(a) \in Nat
  BY <1>5, LastPageStep DEF SlotsBefore
<1>10. \A j \in 1..Len(a) : SlotsUpTo(page, n)[b + j] = a[j]
  BY <1>5, SlotAt
<1> HIDE DEF a, b
<1>11. k \in 1..Len(a) /\ b + k = i
  BY <1>1, <1>7, <1>8, <1>9 DEF b
<1> HIDE DEF k
<1>12. k \in DOMAIN a /\ SlotsUpTo(page, n)[i] = a[k]
  BY <1>9, <1>10, <1>11 DEF Slots
<1> QED BY <1>5, <1>12 DEF a

LEMMA FoundRows ==
  ASSUME NEW d, FileOK(d)
  PROVE  Recs(FileSlots(d)) \subseteq FileRows(d)
<1> DEFINE n == InFile(d[0]) - 1
<1>1. /\ n \in Nat /\ Typed(d, n) /\ FileSlots(d) = SlotsUpTo(d, n)
      /\ FileSlots(d) \in Slots(Rows) /\ \A p \in 1..n : p \in RecordPids
  <2>1. /\ ImageOK(d[0]) /\ \A p \in PageIds \ {0} : PageOK(d[p])
        /\ LastPid \in Nat
    BY PoolAssumption DEF FileOK
  <2>2. InFile(d[0]) \in 1..LastPid+1 /\ InFile(d[0]) \in Nat
    BY <2>1, FileTyped
  <2>3. n \in 0..n /\ n \in Nat /\ \A p \in 1..n : p \in 0..LastPid /\ p # 0
    BY <2>1, <2>2
  <2> QED BY <2>1, <2>3, FileTyped DEF RecordPids, PageIds
<1> HIDE DEF n
<1>2. SUFFICES ASSUME NEW i \in DOMAIN FileSlots(d)
               PROVE  FileSlots(d)[i].rec \in FileRows(d)
  BY DEF Recs
<1>3. i \in 1..Len(SlotsUpTo(d, n))
  BY <1>1 DEF Slots
<1>4. PICK p \in 1..n : \E k \in DOMAIN SlotsOf(d[p]) :
             SlotsUpTo(d, n)[i] = SlotsOf(d[p])[k]
  BY <1>1, <1>3, SlotFrom
<1> QED BY <1>1, <1>4 DEF FileRows, RowsIn, ToSet

\* A killed close leaves the rows a crash would have left, and maybe others.
LEMMA TornRows ==
  ASSUME NEW s, NEW h, Ready(s, h), SavedOK(s), CloseOK(s), h[0] < PinMax,
         NEW P \in SUBSET DirtyPids(SaveHead(s))
  PROVE  LET d == FlushPids(SaveHead(s), P).disk IN
         /\ FileOK(d) /\ WrittenTo(d, s) /\ FileSlots(d) \in Slots(Rows)
         /\ Before(FileSlots(s.disk), FileSlots(d))
<1> DEFINE d == FlushPids(SaveHead(s), P).disk
           m == InFile(s.disk[0]) - 1
           k == InFile(d[0]) - 1
<1>1. /\ FileOK(d)
      /\ d[0] \in {s.disk[0], Latest(s, 0)} \/ ImageBits(d[0]) = s.head.bits
      /\ \A p \in PageIds : p # 0 => d[p] \in {s.disk[p], Latest(s, p)}
  BY TornFile
<1> HIDE DEF d
<1>2. WrittenTo(d, s)
  BY <1>1, DiskRows
<1>3. ImageOK(d[0]) /\ \A p \in PageIds \ {0} : PageOK(d[p])
  BY <1>1 DEF FileOK
<1>4. /\ s.next \in Nat /\ s.next > 0 /\ s.head.bits = 0..s.next-1
      /\ \A p \in 1..s.next-1 : p \in PageIds /\ p # 0
  <2>1. s.next \in 1..LastPid+1 /\ s.next \in Nat /\ \A p \in 1..s.next-1 : p \in PageIds \ {0}
    BY PoolTyped
  <2> QED BY <2>1 DEF Ready, HeadOK
<1>5. /\ InFile(s.disk[0]) \in Nat /\ InFile(s.disk[0]) > 0 /\ InFile(s.disk[0]) <= s.next
      /\ InFile(Latest(s, 0)) = InFile(s.disk[0])
  <2>1. InFile(s.disk[0]) \in 1..LastPid+1 /\ InFile(s.disk[0]) \in Nat /\ LastPid \in Nat
    BY ReadyFile, FileTyped, PoolTyped
  <2> QED BY <2>1 DEF SavedOK
<1>6. InFile(d[0]) \in {InFile(s.disk[0]), s.next}
  BY <1>1, <1>3, <1>4, <1>5, ImageFile
<1>7. k \in Nat /\ m \in Nat /\ m \in 0..k /\ m \in 0..InFile(s.disk[0])-1 /\ k \in 0..InFile(d[0])-1
  BY <1>4, <1>5, <1>6
<1>8. /\ Typed(d, k) /\ FileSlots(d) = SlotsUpTo(d, k) /\ FileSlots(d) \in Slots(Rows)
  BY <1>3, <1>7, FileTyped
<1>9. /\ Typed(s.disk, m) /\ FileSlots(s.disk) = SlotsUpTo(s.disk, m)
      /\ FileSlots(s.disk) \in Slots(Rows)
  BY <1>7, ReadyFile, FileTyped
<1>10. ASSUME NEW p \in 1..m
       PROVE  /\ Before(SlotsOf(s.disk[p]), SlotsOf(d[p]))
              /\ p < m => Len(SlotsOf(s.disk[p])) = Len(SlotsOf(d[p]))
  <2>1. p \in PageIds /\ p # 0
    BY <1>4, <1>5
  <2>2. d[p] \in {s.disk[p], Latest(s, p)}
    BY <1>1, <2>1
  <2>3. SlotsOf(s.disk[p]) \in Slots(Rows)
    <3> HIDE DEF m
    <3> QED BY <1>9 DEF Typed
  <2>4. Before(SlotsOf(s.disk[p]), SlotsOf(Latest(s, p)))
    BY DEF SavedOK
  <2>5. p < m => Len(SlotsOf(s.disk[p])) = Len(SlotsOf(Latest(s, p)))
    <3>1. p < m => p \in 1..InFile(s.disk[0]) - 2
      BY <1>5
    <3> QED BY <3>1 DEF SavedOK
  <2> QED BY <2>2, <2>3, <2>4, <2>5, BeforeSame
<1> HIDE DEF m, k
<1>11. Typed(d, m) /\ \A p \in 1..m-1 : p \in 1..m /\ p < m
  BY <1>7, <1>8 DEF Typed
<1>12. Before(SlotsUpTo(s.disk, m), SlotsUpTo(d, m))
  BY <1>7, <1>9, <1>10, <1>11, SumsBefore
<1>13. PICK c \in Slots(Rows) : SlotsUpTo(d, k) = SlotsUpTo(d, m) \o c
  BY <1>7, <1>8, SumsLonger
<1>14. SlotsUpTo(d, m) \in Slots(Rows)
  BY <1>7, <1>11, SlotsUpToRec
<1>15. Before(SlotsUpTo(d, m), FileSlots(d))
  BY <1>8, <1>13, <1>14, BeforeLonger
<1>16. Before(FileSlots(s.disk), FileSlots(d))
  BY ONLY <1>8, <1>9, <1>12, <1>14, <1>15, BeforeTrans
<1> QED BY <1>1, <1>2, <1>8, <1>16 DEF d

\* What Table asks of a table that is opened, closed or dropped.
LEMMA FileSeen ==
  /\ MapSaved(pool') = MapSaved(pool) /\ MapRows(up', pool') = MapRows(up, pool)
     /\ FileRows(pool'.disk) = FileRows(pool.disk) /\ (TornNow' <=> TornNow)
     /\ MapCur(pool', scan') = MapCur(pool, scan)
     => UNCHANGED RowTable!vars
  /\ MapCur(pool, scan) = RowTable!Closed /\ MapSaved(pool') = MapRows(up, pool)
     /\ up /\ WrittenTo(pool'.disk, pool) /\ (TornNow' => TornNow)
     /\ MapRows(up', pool') = MapRows(up, pool) /\ MapCur(pool', scan') = MapCur(pool, scan)
     => RowTable!Close
  /\ MapRows(up', pool') = MapSaved(pool) /\ MapSaved(pool') = MapSaved(pool)
     /\ up /\ WrittenTo(pool'.disk, pool) /\ (TornNow' => TornNow)
     /\ MapCur(pool', scan') = RowTable!Closed
     => RowTable!Crash
  /\ MapCur(pool, scan) = RowTable!Closed /\ MapCur(pool', scan') = MapCur(pool, scan)
     /\ up /\ WrittenTo(pool'.disk, pool) /\ Recs(FileSlots(pool'.disk)) \subseteq FileRows(pool'.disk)
     /\ MapRows(up', pool') = MapSaved(pool') /\ RowTable!Extends(MapSaved(pool), MapSaved(pool'))
     => RowTable!CrashInClose
<1> USE CursorsSeen DEF MapRows, MapSaved
<1>1. /\ MapSaved(pool') = MapSaved(pool) /\ MapRows(up', pool') = MapRows(up, pool)
      /\ FileRows(pool'.disk) = FileRows(pool.disk) /\ (TornNow' <=> TornNow)
      /\ MapCur(pool', scan') = MapCur(pool, scan)
      => UNCHANGED RowTable!vars
  BY DEF RowTable!vars, TornNow
<1>2. /\ up /\ WrittenTo(pool'.disk, pool)
      => FileRows(pool'.disk)
           \subseteq FileRows(pool.disk) \cup RowTable!RowSet(MapRows(up, pool))
  BY MarkedSet DEF WrittenTo
<1>3. up /\ WrittenTo(pool'.disk, pool) /\ (TornNow' => TornNow) => RowTable!Written
  BY <1>2 DEF RowTable!Written, TornNow
<1>4. RowTable!RowSet(MapSaved(pool')) = Recs(FileSlots(pool'.disk))
  BY MarkedSet
<1> QED BY <1>1, <1>2, <1>3, <1>4 DEF RowTable!Close, RowTable!Crash, RowTable!CrashInClose

LEMMA NoCursors ==
  ASSUME NEW s, NEW sc, \A c \in Scanners : sc[c] = NoScan
  PROVE  MapCur(s, sc) = RowTable!Closed
  BY DEF MapCur, MapCursor, RowTable!Closed

LEMMA InitMaps == Init => RInv /\ RowTable!Init
<1> SUFFICES ASSUME Init PROVE RInv /\ RowTable!Init
  OBVIOUS
<1>1. /\ up = FALSE /\ pool.disk[0] = Zero /\ (\A p \in PageIds : pool.disk[p] = Zero)
      /\ \A c \in Scanners : scan[c] = NoScan
  <2>1. pool.disk = [p \in PageIds |-> Zero]
    BY DEF Init, BlankPool
  <2> QED BY <2>1, ContentFacts DEF Init
<1>2. RInv
  BY <1>1, InitOK DEF RInv
<1>3. FileSlots(pool.disk) = <<>>
  BY <1>1 DEF FileSlots
<1>4. MarkedRows(FileSlots(pool.disk)) = <<>>
  <2>1. FileSlots(pool.disk) \in Slots(Rows)
    BY <1>3 DEF Slots
  <2> QED BY <1>3, <2>1, MarkedFacts
<1>5. MapCur(pool, scan) = RowTable!Closed
  BY <1>1, NoCursors
<1>6. FileRows(pool.disk) = {}
  BY <1>1, ContentFacts DEF FileRows, RowsIn, ToSet, RecordPids
<1>7. TornNow = FALSE
  BY <1>1 DEF TornNow, FileGap
<1> QED BY <1>1, <1>2, <1>4, <1>5, <1>6, <1>7, CursorsSeen DEF RowTable!Init, TornNow

LEMMA OpenTableMaps ==
  ASSUME RInv, OpenTable
  PROVE  RInv' /\ UNCHANGED RowTable!vars
<1>1. /\ ~up /\ up' = TRUE /\ pool' = OpenPool(pool.disk) /\ scan' = scan
      /\ FileOK(pool.disk) /\ \A c \in Scanners : scan[c] = NoScan
  BY DEF OpenTable, RInv, IInv
<1>2. /\ SavedOK(pool') /\ PoolSlots(pool') = FileSlots(pool.disk)
      /\ FileSlots(pool'.disk) = FileSlots(pool.disk)
      /\ FileRows(pool'.disk) = FileRows(pool.disk) /\ (Torn(pool') <=> FileGap(pool.disk))
  BY <1>1, OpenedRows
<1>3. RInv'
  <2>1. IInv'
    BY OpenTableOK DEF RInv
  <2> QED BY <1>1, <1>2, <2>1 DEF RInv, PlaceOK
<1>4. MapSaved(pool') = MapSaved(pool) /\ MapRows(up', pool') = MapRows(up, pool)
  BY <1>1, <1>2 DEF MapSaved, MapRows
<1>5. MapCur(pool', scan') = MapCur(pool, scan)
  BY <1>1, NoCursors
<1>6. TornNow' <=> TornNow
  BY <1>1, <1>2 DEF TornNow, Torn
<1> QED BY <1>2, <1>3, <1>4, <1>5, <1>6, FileSeen

LEMMA CloseTableMaps ==
  ASSUME RInv, CloseTable
  PROVE  RInv' /\ RowTable!Close
<1>1. /\ up /\ CloseOK(pool) /\ \A c \in Scanners : scan[c] = NoScan
      /\ up' = FALSE /\ pool' = BlankPool(Close(pool).disk)
      /\ \A c \in Scanners : scan'[c] = NoScan
      /\ Ready(pool, Pins(scan))
  BY DEF CloseTable, Down, RInv, IInv
<1>2. pool'.disk = Close(pool).disk
  BY <1>1 DEF BlankPool
<1>3. /\ FileSlots(pool'.disk) = PoolSlots(pool)
      /\ WrittenTo(pool'.disk, pool) /\ (FileGap(pool'.disk) => PoolGap(pool))
  <2>1. Pins(scan)[0] < PinMax
    BY ContentFacts, PinsBounded
  <2> QED BY <1>1, <1>2, <2>1, ClosedRows
<1>4. RInv'
  BY <1>1, CloseTableOK DEF RInv
<1>5. MapSaved(pool') = MapRows(up, pool) /\ MapRows(up', pool') = MapRows(up, pool)
  BY <1>1, <1>3 DEF MapSaved, MapRows
<1>6. MapCur(pool, scan) = RowTable!Closed /\ MapCur(pool', scan') = RowTable!Closed
  BY <1>1, NoCursors
<1>7. TornNow' => TornNow
  BY <1>1, <1>3 DEF TornNow
<1> QED BY <1>1, <1>3, <1>4, <1>5, <1>6, <1>7, FileSeen

LEMMA CrashMaps ==
  ASSUME RInv, Crash
  PROVE  RInv' /\ RowTable!Crash
<1>1. /\ up /\ up' = FALSE /\ pool' = BlankPool(pool.disk)
      /\ \A c \in Scanners : scan'[c] = NoScan
  BY DEF Crash, Down
<1>2. pool'.disk = pool.disk
  BY <1>1 DEF BlankPool
<1>3. RInv'
  BY <1>1, CrashOK DEF RInv
<1>4. MapRows(up', pool') = MapSaved(pool) /\ MapSaved(pool') = MapSaved(pool)
  BY <1>1, <1>2 DEF MapSaved, MapRows
<1>5. MapCur(pool', scan') = RowTable!Closed
  BY <1>1, NoCursors
<1>6. WrittenTo(pool'.disk, pool)
  BY <1>2 DEF WrittenTo
<1>7. TornNow' => TornNow
  BY <1>1, <1>2 DEF TornNow
<1> QED BY <1>1, <1>3, <1>4, <1>5, <1>6, <1>7, FileSeen

LEMMA CrashInCloseMaps ==
  ASSUME RInv, CrashInClose
  PROVE  RInv' /\ RowTable!CrashInClose
<1>1. /\ up /\ CloseOK(pool) /\ \A c \in Scanners : scan[c] = NoScan
      /\ Ready(pool, Pins(scan)) /\ SavedOK(pool)
  BY DEF CrashInClose, RInv, IInv
<1>2. PICK P \in SUBSET DirtyPids(SaveHead(pool)) : Down(FlushPids(SaveHead(pool), P).disk)
  BY DEF CrashInClose
<1> DEFINE d == FlushPids(SaveHead(pool), P).disk
<1>3. /\ FileOK(d) /\ WrittenTo(d, pool) /\ FileSlots(d) \in Slots(Rows)
      /\ Before(FileSlots(pool.disk), FileSlots(d))
  <2>1. Pins(scan)[0] < PinMax
    BY ContentFacts, PinsBounded
  <2> QED BY <1>1, <2>1, TornRows
<1>4. /\ up' = FALSE /\ pool' = BlankPool(d) /\ \A c \in Scanners : scan'[c] = NoScan
  BY <1>2 DEF Down
<1> HIDE DEF d
<1>5. pool'.disk = d
  BY <1>4 DEF BlankPool
<1>6. RInv'
  BY <1>4, CrashInCloseOK DEF RInv
<1>7. Recs(FileSlots(d)) \subseteq FileRows(d)
  BY <1>3, FoundRows
<1>8. FileSlots(pool.disk) \in Slots(Rows)
  BY <1>1, ReadyFile, FileTyped
<1>9. RowTable!Extends(MapSaved(pool), MapSaved(pool'))
  BY <1>3, <1>5, <1>8, MarkedExtends DEF MapSaved
<1>10. MapRows(up', pool') = MapSaved(pool')
  BY <1>4 DEF MapRows, MapSaved
<1>11. MapCur(pool, scan) = RowTable!Closed /\ MapCur(pool', scan') = RowTable!Closed
  BY <1>1, <1>4, NoCursors
<1> QED BY <1>1, <1>3, <1>5, <1>6, <1>7, <1>9, <1>10, <1>11, FileSeen

LEMMA StepMaps == RInv /\ [Next]_vars => RInv' /\ [RowTable!Next]_(RowTable!vars)
<1> SUFFICES ASSUME RInv, [Next]_vars PROVE RInv' /\ [RowTable!Next]_(RowTable!vars)
  OBVIOUS
<1>1. CASE OpenTable
  BY <1>1, OpenTableMaps
<1>2. CASE CloseTable
  BY <1>2, CloseTableMaps DEF RowTable!Next
<1>3. CASE Crash
  BY <1>3, CrashMaps DEF RowTable!Next
<1>12. CASE CrashInClose
  BY <1>12, CrashInCloseMaps DEF RowTable!Next
<1>4. ASSUME NEW r \in SmallRows, Insert(r)
      PROVE  RInv' /\ RowTable!Next
  <2>1. r \in Rows
    BY DEF SmallRows
  <2> QED BY <1>4, <2>1, InsertMaps DEF RowTable!Next
<1>5. ASSUME NEW p \in RecordPids, NEW k \in 0..SlotBound, HasRowAfter(p, k), RemoveRow(p, k)
      PROVE  RInv' /\ RowTable!Next
  <2>1. RInv' /\ \E i \in DOMAIN MapRows(up, pool) : RowTable!Remove(i)
    BY <1>5, RemoveMaps
  <2> QED BY <2>1 DEF RowTable!Next, MapRows
<1>6. ASSUME NEW c \in Scanners, NextRow(c)
      PROVE  RInv' /\ (RowTable!NextRow(c) \/ RowTable!EndScan(c))
  <2>1. up /\ scan[c] # NoScan /\ ~scan[c].ended
    BY <1>6 DEF NextRow
  <2> QED BY <1>6, <2>1, NextInPageMaps, NextInNextPageMaps, NextAtEndMaps DEF NextRow
<1>7. ASSUME NEW c \in Scanners, ForgetScan(c)
      PROVE  RInv' /\ RowTable!CloseScan(c)
  <2>1. /\ up /\ up' = up /\ pool' = pool /\ scan[c] # NoScan
        /\ scan' = [scan EXCEPT ![c] = NoScan]
    BY <1>7 DEF ForgetScan
  <2>2. Quiet(pool', pool)
    BY <2>1 DEF Quiet, ReadsSame, OnDisk
  <2>3. IInv'
    BY <1>7, ForgetScanOK DEF RInv
  <2> QED BY <2>1, <2>2, <2>3, CloseScanMaps
<1>8. ASSUME NEW c \in Scanners, HasPage(pool, 1), OpenScan(c)
      PROVE  RInv' /\ RowTable!OpenScan(c)
  BY <1>8, OpenScanMaps
<1>9. ASSUME NEW c \in Scanners, HoldsPage(scan[c]), DestroyScan(c)
      PROVE  RInv' /\ RowTable!CloseScan(c)
  <2>1. IInv' /\ up /\ up' /\ Quiet(pool', pool) /\ scan[c] # NoScan
    BY <1>9, DestroyScanOK DEF RInv, HoldsPage
  <2>2. scan' = [scan EXCEPT ![c] = NoScan]
    BY <1>9 DEF DestroyScan
  <2> QED BY <1>9, <2>1, <2>2, CloseScanMaps
<1>10. CASE UNCHANGED vars
  <2>1. RInv'
    BY <1>10, StepOK DEF RInv, vars
  <2>2. UNCHANGED RowTable!vars
    BY <1>10, FileSeen DEF vars, TornNow
  <2> QED BY <2>1, <2>2
<1>11. ASSUME NEW c \in Scanners,
              \/ RowTable!OpenScan(c) \/ RowTable!NextRow(c)
              \/ RowTable!EndScan(c) \/ RowTable!CloseScan(c)
       PROVE  RowTable!Next
  BY <1>11 DEF RowTable!Next
<1> QED BY <1>1, <1>2, <1>3, <1>4, <1>5, <1>6, <1>7, <1>8, <1>9, <1>10, <1>11, <1>12
        DEF Next, TableSteps, ScanSteps

\* While the table is open, the rows its file would give to the next process
\* are rows it has, at the same places (the file may lack marks and later
\* rows, not rows in between), whatever file a kill, inside close
\* (buffer_pool.hpp:342-349) too, had left to open_table; and every scanner is
\* at the place among the rows that its page and slot say.
THEOREM RowsInductive == Spec => []RInv
<1>1. Init => RInv
  BY InitMaps
<1>2. RInv /\ [Next]_vars => RInv'
  BY StepMaps
<1> QED BY <1>1, <1>2, PTL DEF Spec

\* A table is a sequence of rows: whatever pages and frames they are in, every
\* insert, remove, scan, close and kill of a careful user is a step of Table.
\* A close saves every row.  After a kill between two calls a prefix of the rows
\* is left; after one while flush_all_page writes, the rows saved before and any
\* of the others.
THEOREM HeapIsTable == Spec => ImplementsTable
<1>1. Init => RowTable!Init
  BY InitMaps
<1>2. RInv /\ [Next]_vars => [RowTable!Next]_(RowTable!vars)
  BY StepMaps
<1>3. RInv => [CloseTable => RowTable!Close]_vars
  BY CloseTableMaps
<1> QED BY <1>1, <1>2, <1>3, RowsInductive, PTL DEF Spec, ImplementsTable, RowTable!Spec

\* A scanner of a careful user that says there is no more has passed every row
\* that was there when it was opened ("scan all records in all pages"), unless
\* it stopped at a page that a kill inside close had left without rows.
THEOREM ScannersSeeAll == Spec => []ScanSeesAll
<1>1. RInv => ScanSeesAll
  <2> SUFFICES ASSUME RInv, NEW c \in Scanners, scan[c] # NoScan, scan[c].ended,
                      ~StoppedEarly(scan[c])
               PROVE  \A i \in Passed(c) + 1..scan[c].need : PoolSlots(pool)[i].deleted
    BY DEF ScanSeesAll
  <2>1. up /\ scan[c] \in Scan /\ PlaceOK(pool, scan[c]) /\ Ready(pool, Pins(scan))
    BY ScanIs DEF RInv, IInv
  <2>2. Passed(c) = SlotsBefore(Pages(pool), scan[c].pid) + scan[c].slot
    BY DEF Passed, SlotsBefore, Pages
  <2>3. SlotsBefore(Pages(pool), scan[c].pid) \in Nat /\ scan[c].slot \in Nat /\ scan[c].need \in Nat
    BY <2>1, CursorIs DEF Scan
  <2>4. scan[c].need <= Passed(c)
    BY <2>1, <2>2 DEF PlaceOK
  <2>5. Passed(c) \in Nat
    BY <2>2, <2>3
  <2> QED BY <2>3, <2>4, <2>5
<1> QED BY <1>1, RowsInductive, PTL

-----------------------------------------------------------------------------
\* No row goes missing.

LEMMA BeforeIsPrefix ==
  ASSUME NEW a \in Slots(Rows), NEW b \in Slots(Rows), Before(a, b)
  PROVE  IsPrefix(RowsIn(a), RowsIn(b))
<1> DEFINE s == RowsIn(a)
           t == RowsIn(b)
           n == Len(a)
<1>1. /\ n \in Nat /\ Len(b) \in Nat /\ n <= Len(b)
      /\ DOMAIN a = 1..n /\ DOMAIN b = 1..Len(b)
      /\ \A i \in 1..n : a[i].rec \in Rows /\ b[i].rec = a[i].rec
      /\ \A i \in 1..Len(b) : b[i].rec \in Rows
  <2>1. n \in Nat /\ Len(b) \in Nat /\ DOMAIN a = 1..n /\ DOMAIN b = 1..Len(b)
    BY DEF Slots
  <2>2. ASSUME NEW i \in 1..Len(b) PROVE b[i].rec \in Rows
    <3>1. b[i] \in [rec : Rows, start : Nat, deleted : BOOLEAN]
      BY <2>1, ElementOfSeq DEF Slots
    <3> QED BY <3>1
  <2>3. ASSUME NEW i \in 1..n PROVE a[i].rec \in Rows
    <3>1. a[i] \in [rec : Rows, start : Nat, deleted : BOOLEAN]
      BY <2>1, ElementOfSeq DEF Slots
    <3> QED BY <3>1
  <2> QED BY <2>1, <2>2, <2>3 DEF Before
<1>2. s \in Seq(Rows) /\ Len(s) = n /\ \A i \in 1..n : s[i] = a[i].rec
  BY <1>1 DEF RowsIn
<1>3. t \in Seq(Rows) /\ Len(t) = Len(b) /\ \A i \in 1..Len(b) : t[i] = b[i].rec
  BY <1>1 DEF RowsIn
<1> HIDE DEF s, t, n
<1>4. /\ SubSeq(s, 1, Len(s)) \in Seq(Rows) /\ SubSeq(t, 1, Len(s)) \in Seq(Rows)
      /\ Len(SubSeq(s, 1, Len(s))) = n /\ Len(SubSeq(t, 1, Len(s))) = n
      /\ \A i \in 1..n : SubSeq(s, 1, Len(s))[i] = s[i] /\ SubSeq(t, 1, Len(s))[i] = t[i]
  BY <1>1, <1>2, <1>3
<1>5. \A i \in 1..n : SubSeq(s, 1, Len(s))[i] = SubSeq(t, 1, Len(s))[i]
  BY <1>1, <1>2, <1>3, <1>4
<1>6. SubSeq(s, 1, Len(s)) = SubSeq(t, 1, Len(s))
  BY <1>4, <1>5, SeqEqual
<1>7. Len(s) <= Len(t)
  BY <1>1, <1>2, <1>3
<1>8. IsPrefix(s, t)
  BY <1>6, <1>7 DEF IsPrefix
<1> QED BY <1>8 DEF s, t

\* A step that leaves the pages' contents alone leaves the rows.
LEMMA QuietKeepsRows ==
  ASSUME IInv, IInv', up, up', Quiet(pool', pool)
  PROVE  Before(PoolSlots(pool), PoolSlots(pool'))
<1>1. Ready(pool, Pins(scan)) /\ Ready(pool', Pins(scan'))
  BY DEF IInv
<1>2. PoolSlots(pool') = PoolSlots(pool)
  BY <1>1, QuietGrows
<1>3. PoolSlots(pool) \in Slots(Rows)
  BY <1>1, PoolTyped
<1> QED BY <1>2, <1>3, BeforeSame

\* A step that adds rows or marks them keeps those there are.
LEMMA GrowsKeepsRows ==
  ASSUME RInv, IInv', up, up', Grows(pool', pool)
  PROVE  Before(PoolSlots(pool), PoolSlots(pool'))
<1>1. /\ Ready(pool, Pins(scan)) /\ Ready(pool', Pins(scan'))
      /\ SavedOK(pool)
  BY DEF RInv, IInv
<1> QED BY <1>1, GrowsSaves

LEMMA StepKeepsRows ==
  ASSUME RInv, RInv', up, up', Next
  PROVE  Before(PoolSlots(pool), PoolSlots(pool'))
<1> USE DEF RInv
<1>0. Ready(pool, Pins(scan)) /\ Ready(pool', Pins(scan'))
  BY DEF IInv
<1>1. CASE TableSteps
  BY <1>1 DEF TableSteps, OpenTable, CloseTable, Crash, CrashInClose, Down
<1>2. ASSUME NEW r \in SmallRows, Insert(r)
      PROVE  Before(PoolSlots(pool), PoolSlots(pool'))
  <2>1. Inserted(pool', pool, r) /\ OnDisk(pool', pool)
    BY <1>2, InsertTableOK
  <2>2. Grows(pool', pool)
    BY <1>0, <2>1, InsertGrows
  <2> QED BY <2>2, GrowsKeepsRows
<1>3. ASSUME NEW p \in RecordPids, NEW k \in 0..SlotBound, HasRowAfter(p, k), RemoveRow(p, k)
      PROVE  Before(PoolSlots(pool), PoolSlots(pool'))
  <2>1. /\ pool'.next = pool.next /\ OnDisk(pool', pool)
        /\ OneGone(SlotsOf(Latest(pool', p)), SlotsOf(Latest(pool, p)), k)
        /\ \A q \in PageIds : q # p => Latest(pool', q) = Latest(pool, q)
        /\ p \in 1..pool.next-1 /\ k + 1 < Len(SlotsOf(Latest(pool, p)))
    BY <1>3, RemoveRowOK
  <2>2. k \in Nat
    BY TableAssumption
  <2>3. Grows(pool', pool)
    BY <1>0, <2>1, <2>2, RemoveGrows
  <2> QED BY <2>3, GrowsKeepsRows
<1>4. ASSUME NEW c \in Scanners, NextRow(c)
      PROVE  Quiet(pool', pool)
  <2>1. scan[c] # NoScan /\ ~scan[c].ended
    BY <1>4 DEF NextRow
  <2>2. CASE NextInPage(c, scan[c])
    BY <2>2 DEF NextInPage, Quiet, ReadsSame, OnDisk
  <2>3. CASE NextInNextPage(c, scan[c])
    BY <2>1, <2>3, EnterPageFacts DEF NextInNextPage
  <2>4. CASE NextAtEnd(c, scan[c])
    BY <2>1, <2>4, NextAtEndOK
  <2> QED BY <1>4, <2>2, <2>3, <2>4 DEF NextRow
<1>5. ASSUME NEW c \in Scanners, ForgetScan(c)
      PROVE  Quiet(pool', pool)
  BY <1>5 DEF ForgetScan, Quiet, ReadsSame, OnDisk
<1>6. ASSUME NEW c \in Scanners, HasPage(pool, 1), OpenScan(c)
      PROVE  Quiet(pool', pool)
  BY <1>6, OpenScanOK
<1>7. ASSUME NEW c \in Scanners, HoldsPage(scan[c]), DestroyScan(c)
      PROVE  Quiet(pool', pool)
  BY <1>7, DestroyScanOK
<1>8. Quiet(pool', pool) => Before(PoolSlots(pool), PoolSlots(pool'))
  BY QuietKeepsRows
<1> QED BY <1>1, <1>2, <1>3, <1>4, <1>5, <1>6, <1>7, <1>8 DEF Next, ScanSteps

\* While the table is open no row that was inserted goes missing: inserts add
\* rows after those there are, and remove marks one and keeps its place.
THEOREM NoRowGoesMissing == Spec => RowsStay
<1>1. RInv /\ RInv' /\ [Next]_vars =>
        [up /\ up' => IsPrefix(RowsIn(PoolSlots(pool)), RowsIn(PoolSlots(pool')))]_vars
  <2> SUFFICES ASSUME RInv, RInv', Next, up, up'
               PROVE  IsPrefix(RowsIn(PoolSlots(pool)), RowsIn(PoolSlots(pool')))
    OBVIOUS
  <2>1. Before(PoolSlots(pool), PoolSlots(pool'))
    BY StepKeepsRows
  <2>2. Ready(pool, Pins(scan)) /\ Ready(pool', Pins(scan'))
    BY DEF RInv, IInv
  <2>3. PoolSlots(pool) \in Slots(Rows) /\ PoolSlots(pool') \in Slots(Rows)
    BY <2>2, PoolTyped
  <2> QED BY <2>1, <2>3, BeforeIsPrefix
<1> QED BY <1>1, RowsInductive, PTL DEF Spec, RowsStay

=============================================================================
