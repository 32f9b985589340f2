-------------------------- MODULE BufferPoolProofs --------------------------
(***************************************************************************)
(* The safety invariants of BufferPool, for any number of frames, pages    *)
(* and clients, with and without deletions.  Core says of the pool what    *)
(* the lemmas of PoolProofs preserve (PoolOK, CleanOK), with the pins each *)
(* page should have counted from the clients that hold it.  What holds of  *)
(* the header besides is a matter of who the clients are: HeadOK of those  *)
(* that delete nothing, HeadFits of those that delete pages, and HeadExact *)
(* of the latter as long as no restart lost a bit (ReopenKeepsPages).      *)
(***************************************************************************)
EXTENDS BufferPool, PoolProofs

Pins == [p \in PageIds |-> Cardinality(Holders(p))]
Unreported == {p \in PageIds : \E c \in Holders(p) : ref[c].wrote}
RefsGood == \A c \in Clients : ref[c] # NoRef => pool.dir[ref[c].pid] = ref[c].frame

\* What holds whatever the header says.
Core == /\ up \in BOOLEAN
        /\ ref \in [Clients -> Refs \cup {NoRef}]
        /\ PoolOK(Content, pool, Pins)
        /\ CleanOK(pool, Pins, Unreported)
        /\ RefsGood
        /\ ~up => Idle /\ \A p \in PageIds : pool.dir[p] = NoFrame

\* The inductive invariant of Spec, and the one of SpecWithDeletes.
IInv == Core /\ ImageOK(pool.disk[0]) /\ (up => HeadOK(pool))
DInv == Core /\ FileHeadOK(pool.disk[0]) /\ (up => HeadFits(pool))

LEMMA ContentFacts == Zero \in Content /\ HeadImage \subseteq Content /\ Data \subseteq Content
  BY DEF Content

LEMMA ConstantFacts ==
  /\ 0 \in PageIds /\ NoPid \notin PageIds /\ NoFrame \notin Frames
  /\ PinMax \in Nat /\ PinMax > 0
  /\ IsFiniteSet(Clients) /\ Cardinality(Clients) \in Nat
  /\ Cardinality(Clients) < PinMax /\ NoRef \notin Refs
<1>1. IsFiniteSet(Clients) /\ Cardinality(Clients) < PinMax /\ NoRef \notin Refs
  BY ClientAssumption DEF Refs
<1>2. Cardinality(Clients) \in Nat
  BY <1>1, FS_CardinalityType
<1> QED BY <1>1, <1>2, PoolAssumption DEF PageIds, NoPid, NoFrame, Frames

\* Whoever holds a page makes its pin count positive; a client that holds none
\* leaves room for one more pin.
LEMMA HolderFacts ==
  ASSUME ref \in [Clients -> Refs \cup {NoRef}]
  PROVE  /\ \A p \in PageIds : IsFiniteSet(Holders(p)) /\ Holders(p) \subseteq Clients
         /\ \A p \in PageIds : Pins[p] \in 0..PinMax /\ Pins[p] = Cardinality(Holders(p))
         /\ \A p \in PageIds : Holders(p) # {} <=> Pins[p] > 0
         /\ \A p \in PageIds : Pins[p] < PinMax
<1>1. ASSUME NEW p \in PageIds
      PROVE  /\ IsFiniteSet(Holders(p)) /\ Holders(p) \subseteq Clients
             /\ Cardinality(Holders(p)) \in 0..PinMax
             /\ Holders(p) # {} <=> Cardinality(Holders(p)) > 0
             /\ Cardinality(Holders(p)) < PinMax
  <2>1. Holders(p) \subseteq Clients
    BY DEF Holders
  <2>2. IsFiniteSet(Holders(p)) /\ Cardinality(Holders(p)) <= Cardinality(Clients)
    BY <2>1, ConstantFacts, FS_Subset
  <2>3. Cardinality(Holders(p)) \in Nat
    BY <2>2, FS_CardinalityType
  <2>4. Holders(p) # {} <=> Cardinality(Holders(p)) > 0
    BY <2>2, <2>3, FS_EmptySet
  <2>5. Cardinality(Holders(p)) < PinMax
    BY <2>2, <2>3, ConstantFacts
  <2> QED BY <2>1, <2>2, <2>3, <2>4, <2>5, ConstantFacts
<1> QED BY <1>1 DEF Pins

\* A client that held nothing gets page p.
LEMMA TakeFacts ==
  ASSUME ref \in [Clients -> Refs \cup {NoRef}], NEW c \in Clients, ref[c] = NoRef,
         NEW p \in PageIds, NEW f \in Frames,
         ref' = [ref EXCEPT ![c] = [pid |-> p, frame |-> f, wrote |-> FALSE]]
  PROVE  /\ ref' \in [Clients -> Refs \cup {NoRef}]
         /\ Pins' = [Pins EXCEPT ![p] = @ + 1]
         /\ Unreported' = Unreported
         /\ \A b \in Clients : b # c => ref'[b] = ref[b]
<1>1. [pid |-> p, frame |-> f, wrote |-> FALSE] \in Refs
  BY DEF Refs
<1>2. ref'[c] # NoRef /\ ref'[c].pid = p /\ ~ref'[c].wrote
  BY <1>1, ConstantFacts
<1>3. \A b \in Clients : b # c => ref'[b] = ref[b]
  OBVIOUS
<1>4. \A q \in PageIds : Holders(q)' = IF q = p THEN Holders(p) \cup {c} ELSE Holders(q)
  BY <1>2, <1>3 DEF Holders
<1>5. c \notin Holders(p) /\ IsFiniteSet(Holders(p))
  BY HolderFacts DEF Holders
<1>6. Cardinality(Holders(p) \cup {c}) = Cardinality(Holders(p)) + 1
  BY <1>5, FS_AddElement
<1>7. Pins' = [Pins EXCEPT ![p] = @ + 1]
  BY <1>4, <1>6 DEF Pins
<1>8. Unreported' = Unreported
  BY <1>2, <1>3, <1>4 DEF Unreported, Holders
<1> QED BY <1>1, <1>3, <1>7, <1>8

\* The pages held keep their frames when the pool moves no pinned page.
LEMMA RefsStay ==
  ASSUME ref \in [Clients -> Refs \cup {NoRef}], RefsGood,
         NEW r, \A p \in PageIds : Pins[p] > 0 => r.dir[p] = pool.dir[p]
  PROVE  \A c \in Clients : ref[c] # NoRef => r.dir[ref[c].pid] = ref[c].frame
<1>1. SUFFICES ASSUME NEW c \in Clients, ref[c] # NoRef
               PROVE  r.dir[ref[c].pid] = ref[c].frame
  OBVIOUS
<1>2. ref[c].pid \in PageIds /\ c \in Holders(ref[c].pid)
  BY <1>1 DEF Refs, Holders
<1>3. Pins[ref[c].pid] > 0
  BY <1>2, HolderFacts
<1> QED BY <1>1, <1>2, <1>3 DEF RefsGood

LEMMA InitOK == Init => IInv /\ DInv /\ pool.disk[0] = Zero
<1> SUFFICES ASSUME Init PROVE IInv /\ DInv /\ pool.disk[0] = Zero
  OBVIOUS
<1> DEFINE d == [p \in PageIds |-> Zero]
           none == [p \in PageIds |-> 0]
<1>1. pool = BlankPool(d) /\ ~up /\ up \in BOOLEAN /\ Idle
  BY DEF Init, Idle
<1>2. ref \in [Clients -> Refs \cup {NoRef}] /\ \A p \in PageIds : Holders(p) = {}
  BY DEF Init, Holders
<1>3. Pins = none /\ Unreported = {} /\ RefsGood
  BY <1>1, <1>2, FS_EmptySet DEF Pins, Unreported, RefsGood, Idle
<1>4. /\ PoolOK(Content, pool, none) /\ CleanOK(pool, none, {}) /\ pool.disk = d
      /\ \A p \in PageIds : pool.dir[p] = NoFrame
  <2>1. d \in [PageIds -> Content]
    BY ContentFacts
  <2> HIDE DEF d
  <2> QED BY <1>1, <2>1, ContentFacts, BlankFacts
<1>5. pool.disk[0] = Zero /\ ImageOK(pool.disk[0]) /\ FileHeadOK(pool.disk[0])
  BY <1>4, ConstantFacts DEF ImageOK, FileHeadOK
<1>6. Core
  BY <1>1, <1>2, <1>3, <1>4 DEF Core
<1> QED BY <1>1, <1>5, <1>6 DEF IInv, DInv

\* What fetch and new_page have in common once the pool s they leave is known.
LEMMA TakeOK ==
  ASSUME Core, up, NEW c \in Clients, ref[c] = NoRef, NEW p \in PageIds, NEW s,
         Take(c, s, p),
         PoolOK(Content, s, [Pins EXCEPT ![p] = @ + 1]),
         CleanOK(s, [Pins EXCEPT ![p] = @ + 1], Unreported),
         \A q \in PageIds : Pins[q] > 0 => s.dir[q] = pool.dir[q],
         s.dir[p] # NoFrame
  PROVE  Core'
<1>1. pool' = s /\ up' = up /\ ref' = [ref EXCEPT ![c] = [pid |-> p, frame |-> s.dir[p], wrote |-> FALSE]]
  BY DEF Take
<1>2. s.dir[p] \in Frames /\ ref \in [Clients -> Refs \cup {NoRef}] /\ RefsGood
  BY DEF Core, PoolOK, PoolType
<1>3. /\ ref' \in [Clients -> Refs \cup {NoRef}]
      /\ Pins' = [Pins EXCEPT ![p] = @ + 1]
      /\ Unreported' = Unreported
      /\ \A b \in Clients : b # c => ref'[b] = ref[b]
  BY <1>1, <1>2, TakeFacts
<1>4. RefsGood'
  <2>1. \A b \in Clients : ref[b] # NoRef => s.dir[ref[b].pid] = ref[b].frame
    BY <1>2, RefsStay
  <2>2. ref'[c].pid = p /\ ref'[c].frame = s.dir[p]
    BY <1>1, <1>2
  <2> QED BY <1>1, <1>3, <2>1, <2>2 DEF RefsGood
<1>5. PoolOK(Content, pool, Pins)' /\ CleanOK(pool, Pins, Unreported)'
  BY <1>1, <1>3
<1> QED BY <1>1, <1>3, <1>4, <1>5 DEF Core

\* A call that leaves the header alone.
Kept == up /\ up' /\ \E r : pool' = r /\ HeadAlike(r, pool)

LEMMA KeptOK ==
  ASSUME Core', Kept
  PROVE  (IInv => IInv') /\ (DInv => DInv')
<1>1. PICK r : pool' = r /\ HeadAlike(r, pool) /\ up /\ up'
  BY DEF Kept
<1>2. HeadOK(pool) => HeadOK(r) /\ ImageOK(r.disk[0])
  BY <1>1, HeadStaysOK DEF HeadOK
<1>3. HeadFits(pool) => HeadFits(r) /\ FileHeadOK(r.disk[0])
  BY <1>1, HeadStaysFit DEF HeadFits
<1> QED BY <1>1, <1>2, <1>3 DEF IInv, DInv

LEMMA FetchPageOK ==
  ASSUME Core, NEW c \in Clients, NEW p \in PageIds, FetchPage(c, p)
  PROVE  Core' /\ Kept
<1> DEFINE s == Fetch(pool, p)
<1>1. /\ up /\ ref[c] = NoRef /\ p \in pool.head.bits /\ FetchOK(pool, p) /\ Take(c, s, p)
      /\ PoolOK(Content, pool, Pins) /\ CleanOK(pool, Pins, Unreported)
      /\ ref \in [Clients -> Refs \cup {NoRef}]
  BY DEF FetchPage, HasPage, Core
<1>2. Pins[p] < PinMax
  BY <1>1, HolderFacts
<1>3. Fetched(Content, s, pool, Pins, Unreported, p)
  BY <1>1, <1>2, ContentFacts, FetchFacts
<1> HIDE DEF s
<1>4. /\ PoolOK(Content, s, [Pins EXCEPT ![p] = @ + 1])
      /\ CleanOK(s, [Pins EXCEPT ![p] = @ + 1], Unreported)
      /\ Preserves(s, pool, Pins, p) /\ Latest(s, p) = Latest(pool, p)
      /\ s.dir[p] # NoFrame /\ s.head = pool.head /\ s.next = pool.next
  BY <1>3 DEF Fetched
<1>5. HeadAlike(s, pool)
  BY <1>1, <1>4, ConstantFacts DEF HeadAlike, Preserves
<1>6. \A q \in PageIds : Pins[q] > 0 => s.dir[q] = pool.dir[q]
  BY <1>4 DEF Preserves
<1>7. Core'
  BY <1>1, <1>4, <1>6, TakeOK
<1> QED BY <1>1, <1>5, <1>7 DEF Take, Kept

\* new_page, with the id it picks in no frame.
LEMMA GetNewPageOK ==
  ASSUME Core, NEW c \in Clients, GetNewPage(c),
         PickedPid(pool) \in PageIds, pool.dir[PickedPid(pool)] = NoFrame
  PROVE  /\ Core' /\ up /\ up'
         /\ \E s : pool' = s /\ NewPageLeaves(Content, s, pool, Pins, Unreported)
<1> DEFINE s == NewPage(pool)
           p == PickedPid(pool)
<1>1. /\ up /\ ref[c] = NoRef /\ NewPageOK(pool) /\ Take(c, s, p)
      /\ PoolOK(Content, pool, Pins) /\ CleanOK(pool, Pins, Unreported)
  BY DEF GetNewPage, Core
<1>2. Pins[p] = 0
  BY <1>1 DEF PoolOK, PinsAgree
<1>3. NewPageLeaves(Content, s, pool, Pins, Unreported)
  BY <1>1, ContentFacts, NewPageFacts
<1> HIDE DEF s
<1>4. /\ PoolOK(Content, s, [Pins EXCEPT ![p] = 1])
      /\ CleanOK(s, [Pins EXCEPT ![p] = 1], Unreported)
      /\ Preserves(s, pool, Pins, p) /\ s.dir[p] # NoFrame /\ p \in PageIds
  BY <1>3 DEF NewPageLeaves
<1> HIDE DEF p
<1>5. [Pins EXCEPT ![p] = 1] = [Pins EXCEPT ![p] = @ + 1]
  BY <1>2
<1>6. \A q \in PageIds : Pins[q] > 0 => s.dir[q] = pool.dir[q]
  BY <1>4 DEF Preserves
<1>7. Core'
  BY <1>1, <1>4, <1>5, <1>6, TakeOK
<1> QED BY <1>1, <1>3, <1>7 DEF Take

LEMMA GetNewPageGood ==
  ASSUME IInv, NEW c \in Clients, GetNewPage(c)
  PROVE  IInv'
<1> DEFINE p == PickedPid(pool)
<1>1. Core /\ up /\ HeadOK(pool) /\ pool \in PoolType(Content) /\ p <= LastPid
  BY DEF GetNewPage, IInv, Core, PoolOK
<1>2. p = pool.next /\ p \notin pool.head.bits /\ AfterPick(pool).next = p + 1
  BY <1>1, NextIsPicked
<1>3. p \in PageIds
  BY <1>1, <1>2, PoolAssumption DEF PageIds, PoolType
<1>4. pool.dir[p] = NoFrame
  BY <1>1, <1>2, <1>3 DEF HeadOK
<1>5. PICK s : Core' /\ up' /\ pool' = s /\ NewPageLeaves(Content, s, pool, Pins, Unreported)
  BY <1>1, <1>3, <1>4, GetNewPageOK
<1>6. /\ Preserves(s, pool, Pins, p) /\ Latest(s, p) = Zero /\ s.disk[p] = pool.disk[p]
      /\ s.head = Allocate(pool.head, p) /\ s.next = p + 1
  BY <1>2, <1>5 DEF NewPageLeaves
<1> HIDE DEF p
<1>7. HeadOK(s)
  BY <1>1, <1>2, <1>3, <1>6, NewPageHead
<1> QED BY <1>5, <1>7 DEF IInv, HeadOK

\* With deletions the id picked is one that is free, or next_page_id_.
LEMMA GetNewPageFits ==
  ASSUME DInv, NEW c \in Clients, GetNewPage(c)
  PROVE  /\ DInv' /\ up /\ up' /\ PickedPid(pool) \in PageIds
         /\ \E s : /\ pool' = s /\ NewPageLeaves(Content, s, pool, Pins, Unreported)
                   /\ HeadFits(s) /\ KeptBits(s) \subseteq KeptBits(pool)
<1> DEFINE p == PickedPid(pool)
<1>1. Core /\ up /\ HeadFits(pool) /\ pool \in PoolType(Content) /\ p <= LastPid
  BY DEF GetNewPage, DInv, Core, PoolOK
<1>2. p \in Nat /\ p \notin pool.head.bits
  BY <1>1, PickedIsClear
<1>3. p \in PageIds
  BY <1>1, <1>2, PoolAssumption DEF PageIds
<1>4. pool.dir[p] = NoFrame
  BY <1>1, <1>2, <1>3 DEF HeadFits
<1>5. PICK s : Core' /\ up' /\ pool' = s /\ NewPageLeaves(Content, s, pool, Pins, Unreported)
  BY <1>1, <1>3, <1>4, GetNewPageOK
<1>6. HeadFits(s) /\ KeptBits(s) \subseteq KeptBits(pool)
  BY <1>1, <1>3, <1>5, NewPageFits
<1>7. DInv'
  BY <1>5, <1>6 DEF DInv, HeadFits
<1> QED BY <1>1, <1>3, <1>5, <1>6, <1>7

\* A write goes to the frame of the page the client holds: RefsGood.
LEMMA WritePageOK ==
  ASSUME Core, NEW c \in Clients, NEW v \in Data, WritePage(c, v)
  PROVE  Core' /\ Kept
<1> DEFINE p == ref[c].pid
           f == ref[c].frame
           r == [pool EXCEPT !.frames[f].data = v]
           dirty == pool.frames[f].dirty
<1>1. /\ up /\ ref[c] # NoRef /\ p # 0 /\ up' = up
      /\ pool' = r
      /\ ref' = [ref EXCEPT ![c].wrote = TRUE]
      /\ PoolOK(Content, pool, Pins) /\ CleanOK(pool, Pins, Unreported)
      /\ ref \in [Clients -> Refs \cup {NoRef}] /\ RefsGood
  BY DEF WritePage, Core
<1>2. /\ p \in PageIds /\ f \in Frames /\ ref[c] \in Refs /\ c \in Holders(p)
      /\ pool.dir[p] = f /\ f # NoFrame
  BY <1>1, ConstantFacts DEF Refs, Holders, RefsGood
<1>3. Pins[p] > 0
  BY <1>1, <1>2, HolderFacts
<1>4. dirty \in BOOLEAN
  BY <1>1, <1>2 DEF PoolOK, PoolType
<1>5. /\ Rewritten(Content, r, pool, p, v, dirty)
      /\ r.head = pool.head /\ r.next = pool.next
  <2> HIDE DEF p, f
  <2> QED BY <1>1, <1>2, ContentFacts, PointerWrite
<1> DEFINE x == [ref[c] EXCEPT !.wrote = TRUE]
<1>6. ref' = [ref EXCEPT ![c] = x]
  BY <1>1
<1>7. x \in Refs /\ x.pid = p /\ x.frame = f /\ x.wrote
  BY <1>2 DEF Refs
<1>8. pool.dir[p] # NoFrame
  BY <1>2
<1> HIDE DEF p, f, r, dirty, x
<1>9. /\ PoolOK(Content, r, Pins) /\ CleanOK(r, Pins, Unreported \cup {p})
      /\ OnlyNow(r, pool, p, v)
  <2>1. RewriteLeaves(Content, r, pool, Pins, Unreported, p, v, dirty)
    BY <1>1, <1>2, <1>4, <1>5, <1>8, RewrittenOK
  <2> QED BY <1>3, <2>1 DEF RewriteLeaves
<1>10. /\ ref' \in [Clients -> Refs \cup {NoRef}]
       /\ \A b \in Clients : b # c => ref'[b] = ref[b]
       /\ ref'[c].pid = p /\ ref'[c].frame = f /\ ref'[c].wrote /\ ref'[c] # NoRef
  BY <1>1, <1>6, <1>7, ConstantFacts
<1>11. \A q \in PageIds : Holders(q)' = Holders(q)
  BY <1>1, <1>10 DEF Holders, p
<1>12. Pins' = Pins
  BY <1>11 DEF Pins
<1>13. Unreported' = Unreported \cup {p}
  <2>1. \A q \in PageIds : q # p =>
          ((\E b \in Holders(q) : ref'[b].wrote) <=> (\E b \in Holders(q) : ref[b].wrote))
    BY <1>10 DEF Holders, p
  <2>2. \E b \in Holders(p) : ref'[b].wrote
    BY <1>2, <1>10
  <2> QED BY <1>2, <1>11, <2>1, <2>2 DEF Unreported
<1>14. \A b \in Clients : ref'[b] # NoRef => r.dir[ref'[b].pid] = ref'[b].frame
  <2>1. r.dir = pool.dir
    BY <1>5 DEF Rewritten
  <2> QED BY <1>1, <1>2, <1>10, <2>1 DEF RefsGood
<1>15. HeadAlike(r, pool)
  <2>1. Latest(r, 0) = Latest(pool, 0) /\ r.dir = pool.dir /\ r.disk = pool.disk
    BY <1>1, <1>5, <1>9, ConstantFacts DEF OnlyNow, Rewritten
  <2> QED BY <1>5, <2>1 DEF HeadAlike
<1>16. Core'
  BY <1>1, <1>9, <1>10, <1>12, <1>13, <1>14 DEF Core, RefsGood
<1> QED BY <1>1, <1>15, <1>16 DEF Kept

LEMMA ReleasePageOK ==
  ASSUME Core, NEW c \in Clients, ReleasePage(c)
  PROVE  Core' /\ Kept
<1> DEFINE p == ref[c].pid
           wrote == ref[c].wrote
<1>1. /\ up /\ ref[c] # NoRef /\ up' = up
      /\ pool' = Unpin(pool, p, wrote)
      /\ ref' = [ref EXCEPT ![c] = NoRef]
      /\ PoolOK(Content, pool, Pins) /\ CleanOK(pool, Pins, Unreported)
      /\ ref \in [Clients -> Refs \cup {NoRef}] /\ RefsGood
  BY DEF ReleasePage, Core
<1>2. /\ p \in PageIds /\ wrote \in BOOLEAN /\ c \in Holders(p)
  BY <1>1, ConstantFacts DEF Refs, Holders
<1>3. Pins[p] > 0
  BY <1>1, <1>2, HolderFacts
<1>4. /\ ref' \in [Clients -> Refs \cup {NoRef}] /\ ref'[c] = NoRef
      /\ \A b \in Clients : b # c => ref'[b] = ref[b]
  BY <1>1
<1>5. \A q \in PageIds : Holders(q)' = IF q = p THEN Holders(p) \ {c} ELSE Holders(q)
  BY <1>4 DEF Holders
<1>6. Cardinality(Holders(p) \ {c}) = Cardinality(Holders(p)) - 1
  BY <1>1, <1>2, HolderFacts, FS_RemoveElement
<1>7. Pins' = [Pins EXCEPT ![p] = Pins[p] - 1]
  BY <1>2, <1>5, <1>6 DEF Pins
<1>8. ReportsRest(Unreported, Unreported', Pins, p, wrote)
  <2>1. ASSUME NEW q \in Unreported' PROVE q \in PageIds /\ Pins'[q] > 0
    <3>1. q \in PageIds /\ Holders(q)' # {}
      BY DEF Unreported
    <3>2. /\ IsFiniteSet(Holders(q)') /\ Pins'[q] = Cardinality(Holders(q)')
      <4>1. IsFiniteSet(Holders(q)) /\ IsFiniteSet(Holders(p))
        BY <1>1, <1>2, <3>1, HolderFacts
      <4>2. IsFiniteSet(Holders(p) \ {c})
        BY <4>1, FS_Difference
      <4> QED BY <1>5, <3>1, <4>1, <4>2 DEF Pins
    <3>3. Cardinality(Holders(q)') \in Nat /\ Cardinality(Holders(q)') # 0
      BY <3>1, <3>2, FS_CardinalityType, FS_EmptySet
    <3> QED BY <3>1, <3>2, <3>3
  <2>2. ASSUME NEW q \in Unreported PROVE q \in Unreported' \/ (q = p /\ wrote)
    <3>1. PICK b \in Holders(q) : q \in PageIds /\ ref[b].wrote
      BY DEF Unreported
    <3>2. CASE b = c
      BY <3>1, <3>2 DEF Holders
    <3>3. CASE b # c
      <4>1. ref'[b] = ref[b] /\ b \in Holders(q)'
        BY <1>4, <3>1, <3>3 DEF Holders
      <4> QED BY <3>1, <4>1 DEF Unreported
    <3> QED BY <3>2, <3>3
  <2> QED BY <1>7, <2>1, <2>2 DEF ReportsRest
<1> DEFINE r == Unpin(pool, p, wrote)
           V == Unreported'
<1>9. Unpinned(Content, r, pool, Pins, p, V)
  <2> HIDE DEF p, wrote, V
  <2>1. ReportsRest(Unreported, V, Pins, p, wrote)
    BY <1>8 DEF V
  <2> QED BY <1>1, <1>2, <1>3, <2>1, UnpinFacts
<1> HIDE DEF p, wrote, r, V
<1>10. /\ PoolOK(Content, r, [Pins EXCEPT ![p] = @ - 1])
       /\ CleanOK(r, [Pins EXCEPT ![p] = @ - 1], V)
       /\ ReadsSame(r, pool)
       /\ r.dir = pool.dir /\ r.disk = pool.disk
       /\ r.head = pool.head /\ r.next = pool.next
  BY <1>9 DEF Unpinned
<1>11. PoolOK(Content, r, Pins') /\ CleanOK(r, Pins', Unreported')
  BY <1>7, <1>10 DEF V
<1>12. HeadAlike(r, pool)
  BY <1>10, ConstantFacts DEF HeadAlike, ReadsSame
<1>13. \A b \in Clients : ref'[b] # NoRef => r.dir[ref'[b].pid] = ref'[b].frame
  BY <1>1, <1>4, <1>10 DEF RefsGood
<1>14. pool' = r
  BY <1>1 DEF r
<1>15. Core'
  BY <1>1, <1>4, <1>11, <1>13, <1>14 DEF Core, RefsGood
<1> QED BY <1>1, <1>12, <1>14, <1>15 DEF Kept

\* A step that moves no frame and leaves the clients alone.
LEMMA SameFramesStep ==
  ASSUME Core, up, NEW r, SameFrames(Content, r, pool), r.head = pool.head,
         r.next = pool.next, pool' = r, UNCHANGED <<up, ref>>
  PROVE  Core' /\ Kept
<1>1. /\ PoolOK(Content, pool, Pins) /\ CleanOK(pool, Pins, Unreported)
      /\ ref \in [Clients -> Refs \cup {NoRef}] /\ RefsGood
  BY DEF Core
<1>2. PoolOK(Content, r, Pins) /\ CleanOK(r, Pins, Unreported) /\ ReadsSame(r, pool)
  BY <1>1, SameFramesOK
<1>3. HeadAlike(r, pool)
  BY <1>2, ConstantFacts DEF HeadAlike, SameFrames, ReadsSame
<1>4. Pins' = Pins /\ Unreported' = Unreported
  BY DEF Pins, Unreported, Holders
<1>5. RefsGood'
  BY <1>1 DEF RefsGood, SameFrames
<1>6. Core'
  BY <1>1, <1>2, <1>4, <1>5 DEF Core
<1> QED BY <1>3, <1>6 DEF Kept

LEMMA FlushOneOK ==
  ASSUME Core, NEW p \in PageIds, FlushOne(p)
  PROVE  Core' /\ Kept
<1> DEFINE r == FlushPage(pool, p)
<1>1. PoolOK(Content, pool, Pins) /\ up /\ pool' = r /\ UNCHANGED <<up, ref>>
  BY DEF Core, FlushOne
<1>2. SameFrames(Content, r, pool) /\ r.head = pool.head /\ r.next = pool.next
  BY <1>1, FlushPageOK
<1> HIDE DEF r
<1> QED BY <1>1, <1>2, SameFramesStep

LEMMA FlushEveryOK ==
  ASSUME Core, FlushEvery
  PROVE  Core' /\ Kept
<1> DEFINE P == DirtyPids(pool)
           r == FlushPids(pool, P)
<1>1. PoolOK(Content, pool, Pins) /\ up /\ pool' = r /\ UNCHANGED <<up, ref>>
  BY DEF Core, FlushEvery, FlushAll
<1>2. P \in SUBSET DirtyPids(pool)
  OBVIOUS
<1> HIDE DEF P
<1>3. SameFrames(Content, r, pool) /\ r.head = pool.head /\ r.next = pool.next
  BY <1>1, <1>2, FlushPidsOK
<1> HIDE DEF r
<1> QED BY <1>1, <1>3, SameFramesStep

\* With no client holding a page nothing is pinned and nothing unreported.
LEMMA IdleFacts ==
  ASSUME Idle
  PROVE  Pins = [p \in PageIds |-> 0] /\ Unreported = {} /\ RefsGood
<1>1. \A p \in PageIds : Holders(p) = {}
  BY DEF Idle, Holders
<1> QED BY <1>1, FS_EmptySet DEF Pins, Unreported, RefsGood, Idle

\* The constructor takes page 0 of the file for a header if page_num_ is not 0.
LEMMA OpenOK ==
  ASSUME Core, Open,
         pool.disk[0] # Zero => pool.disk[0] \in HeadImage /\ pool.disk[0].pageNum \in Nat \ {0}
  PROVE  /\ Core' /\ ~up /\ up'
         /\ \E r : pool' = r /\ r = OpenPool(pool.disk) /\ Opened(Content, r, pool.disk)
<1> DEFINE none == [p \in PageIds |-> 0]
           d == pool.disk
           r == OpenPool(d)
<1>1. ~up /\ up' = TRUE /\ pool' = r /\ ref' = ref
  BY DEF Open
<1>2. Idle /\ d \in [PageIds -> Content] /\ ref \in [Clients -> Refs \cup {NoRef}]
  BY <1>1 DEF Core, PoolOK, PoolType
<1>3. Pins = none /\ Unreported = {} /\ RefsGood
  BY <1>2, IdleFacts
<1>4. Opened(Content, r, d)
  <2>1. d[0] # Zero => d[0] \in HeadImage /\ d[0].pageNum \in Nat \ {0}
    OBVIOUS
  <2> HIDE DEF d
  <2> QED BY <1>2, <2>1, ContentFacts, OpenIs
<1>5. r = OpenPool(d)
  OBVIOUS
<1> HIDE DEF r
<1>6. PoolOK(Content, r, none) /\ CleanOK(r, none, {})
  BY <1>4 DEF Opened
<1> HIDE DEF none
<1>7. Pins' = none /\ Unreported' = {}
  BY <1>1, <1>3 DEF Pins, Unreported, Holders
<1>8. RefsGood'
  BY <1>1, <1>2 DEF RefsGood, Idle
<1>9. Core'
  BY <1>1, <1>2, <1>6, <1>7, <1>8 DEF Core
<1> QED BY <1>1, <1>4, <1>5, <1>9

LEMMA OpenGood ==
  ASSUME IInv, Open
  PROVE  IInv'
<1> DEFINE d == pool.disk
<1>1. Core /\ ImageOK(d[0]) /\ d \in [PageIds -> Content]
  BY DEF IInv, Core, PoolOK, PoolType
<1>2. d[0] # Zero => d[0] \in HeadImage /\ d[0].pageNum \in Nat \ {0}
  <2>1. LastPid + 1 \in Nat
    BY PoolAssumption
  <2> QED BY <1>1, <2>1 DEF ImageOK
<1>3. PICK r : Core' /\ up' /\ pool' = r /\ r = OpenPool(d)
  BY <1>1, <1>2, OpenOK
<1>4. HeadOK(r)
  <2> HIDE DEF d
  <2> QED BY <1>1, <1>3, ContentFacts, OpenFacts
<1> QED BY <1>3, <1>4 DEF IInv, HeadOK

LEMMA OpenFit ==
  ASSUME DInv, Open
  PROVE  /\ DInv' /\ ~up /\ up'
         /\ \E r : pool' = r /\ Opened(Content, r, pool.disk) /\ HeadFits(r)
<1> DEFINE d == pool.disk
<1>1. Core /\ FileHeadOK(d[0]) /\ d \in [PageIds -> Content]
  BY DEF DInv, Core, PoolOK, PoolType
<1>2. d[0] # Zero => d[0] \in HeadImage /\ d[0].pageNum \in Nat \ {0}
  <2> HIDE DEF d
  <2> QED BY <1>1, FileHeadIs
<1>3. PICK r : Core' /\ ~up /\ up' /\ pool' = r /\ Opened(Content, r, d)
  BY <1>1, <1>2, OpenOK
<1>4. HeadFits(r)
  <2> HIDE DEF d
  <2> QED BY <1>1, <1>3, OpenFits
<1> QED BY <1>3, <1>4 DEF DInv, HeadFits

\* The process ends: what is left is the file.
LEMMA DownOK ==
  ASSUME NEW d \in [PageIds -> Content], Down(d)
  PROVE  Core' /\ ~up' /\ pool'.disk = d
<1> DEFINE none == [p \in PageIds |-> 0]
           b == BlankPool(d)
<1>1. ~up' /\ up' \in BOOLEAN /\ pool' = b /\ Idle'
  BY DEF Down, Idle
<1>2. ref' \in [Clients -> Refs \cup {NoRef}]
  BY DEF Down
<1>3. /\ PoolOK(Content, b, none) /\ CleanOK(b, none, {}) /\ b.disk = d
      /\ \A p \in PageIds : b.dir[p] = NoFrame
  BY ContentFacts, BlankFacts
<1>4. \A p \in PageIds : Holders(p)' = {}
  BY <1>1 DEF Idle, Holders
<1>5. Pins' = none /\ Unreported' = {} /\ RefsGood'
  BY <1>1, <1>4, FS_EmptySet DEF Pins, Unreported, RefsGood, Idle
<1> HIDE DEF b, none
<1>6. Core'
  BY <1>1, <1>2, <1>3, <1>5 DEF Core
<1> QED BY <1>1, <1>3, <1>6

LEMMA CrashOK ==
  ASSUME Core, Crash
  PROVE  Core' /\ ~up' /\ pool'.disk = pool.disk
<1>1. pool.disk \in [PageIds -> Content] /\ Down(pool.disk)
  BY DEF Core, PoolOK, PoolType, Crash
<1> QED BY <1>1, DownOK

\* close, or a crash in it: head_ is saved and some of the dirty pages P of the
\* pool are written, which leaves in page 0 of the file what was there or in the
\* pool, or head_.
LEMMA CloseLeaves ==
  ASSUME Core, up, Idle, CloseOK(pool), ImageBits(Latest(pool, 0)) \subseteq PageIds,
         NEW P \in SUBSET DirtyPids(SaveHead(pool))
  PROVE  LET d == FlushPids(SaveHead(pool), P).disk
         IN  /\ d \in [PageIds -> Content]
             /\ d[0] \in {pool.disk[0], Latest(pool, 0), SavedImage(pool)}
<1> DEFINE s == SaveHead(pool)
           r == FlushPids(s, P)
           h == Pins
           W == Unreported
<1>1. PoolOK(Content, pool, h) /\ CleanOK(pool, h, W) /\ FetchOK(pool, 0)
  BY DEF Core, CloseOK
<1>2. h[0] < PinMax
  BY IdleFacts, ConstantFacts
<1> HIDE DEF h, W
<1>3. Saved(Content, s, pool, h, W)
  BY <1>1, <1>2, ContentFacts, SaveHeadIs
<1> HIDE DEF s
<1>4. /\ PoolOK(Content, s, h) /\ Latest(s, 0) = SavedImage(pool)
      /\ s.disk[0] \in {pool.disk[0], Latest(pool, 0)}
  BY <1>3, ConstantFacts DEF Saved, OnlyNow
<1>5. SameFrames(Content, r, s)
  BY <1>4, FlushPidsOK DEF s
<1> HIDE DEF r
<1>6. r.disk \in [PageIds -> Content] /\ r.disk[0] \in {s.disk[0], Latest(s, 0)}
  BY <1>5, ConstantFacts DEF SameFrames, PoolType
<1> QED BY <1>4, <1>6 DEF r, s

\* So page 0 of the file stays good, with either header.
LEMMA CloseLeavesGood ==
  ASSUME Core, up, Idle, CloseOK(pool), HeadOK(pool) \/ HeadFits(pool),
         NEW P \in SUBSET DirtyPids(SaveHead(pool))
  PROVE  LET d == FlushPids(SaveHead(pool), P).disk
         IN  /\ d \in [PageIds -> Content]
             /\ HeadOK(pool) => ImageOK(d[0])
             /\ HeadFits(pool) => FileHeadOK(d[0])
<1> DEFINE d == FlushPids(SaveHead(pool), P).disk
<1>1. pool \in PoolType(Content)
  BY DEF Core, PoolOK
<1>2. HeadOK(pool) => /\ ImageBits(Latest(pool, 0)) \subseteq PageIds
                      /\ ImageOK(SavedImage(pool)) /\ ImageOK(Latest(pool, 0))
                      /\ ImageOK(pool.disk[0])
  BY <1>1, HeadImageFacts DEF HeadOK
<1>3. HeadFits(pool) => /\ ImageBits(Latest(pool, 0)) \subseteq PageIds
                        /\ FileHeadOK(SavedImage(pool)) /\ FileHeadOK(Latest(pool, 0))
                        /\ FileHeadOK(pool.disk[0])
  BY <1>1, FitFacts, SavedImageFits DEF HeadFits
<1>4. /\ d \in [PageIds -> Content]
      /\ d[0] \in {pool.disk[0], Latest(pool, 0), SavedImage(pool)}
  BY <1>2, <1>3, CloseLeaves
<1> HIDE DEF d
<1> QED BY <1>2, <1>3, <1>4 DEF d

LEMMA ClosePoolOK ==
  ASSUME Core, ClosePool, HeadOK(pool) \/ HeadFits(pool)
  PROVE  /\ Core' /\ ~up'
         /\ HeadOK(pool) => ImageOK(pool'.disk[0])
         /\ HeadFits(pool) => FileHeadOK(pool'.disk[0])
<1> DEFINE P == DirtyPids(SaveHead(pool))
           d == FlushPids(SaveHead(pool), P).disk
<1>1. up /\ Idle /\ CloseOK(pool) /\ Down(d)
  BY DEF ClosePool, Close, FlushAll
<1>2. P \in SUBSET DirtyPids(SaveHead(pool))
  OBVIOUS
<1> HIDE DEF P
<1>3. /\ d \in [PageIds -> Content]
      /\ HeadOK(pool) => ImageOK(d[0])
      /\ HeadFits(pool) => FileHeadOK(d[0])
  BY <1>1, <1>2, CloseLeavesGood
<1> HIDE DEF d
<1>4. Core' /\ ~up' /\ pool'.disk = d
  BY <1>1, <1>3, DownOK
<1> QED BY <1>3, <1>4

LEMMA CrashInCloseOK ==
  ASSUME Core, CrashInClose, HeadOK(pool) \/ HeadFits(pool)
  PROVE  /\ Core' /\ ~up'
         /\ HeadOK(pool) => ImageOK(pool'.disk[0])
         /\ HeadFits(pool) => FileHeadOK(pool'.disk[0])
<1>1. up /\ Idle /\ CloseOK(pool)
  BY DEF CrashInClose
<1>2. PICK P \in SUBSET DirtyPids(SaveHead(pool)) : Down(FlushPids(SaveHead(pool), P).disk)
  BY DEF CrashInClose
<1> DEFINE d == FlushPids(SaveHead(pool), P).disk
<1>3. /\ d \in [PageIds -> Content]
      /\ HeadOK(pool) => ImageOK(d[0])
      /\ HeadFits(pool) => FileHeadOK(d[0])
  BY <1>1, CloseLeavesGood
<1>4. Down(d)
  BY <1>2
<1> HIDE DEF d
<1>5. Core' /\ ~up' /\ pool'.disk = d
  BY <1>3, <1>4, DownOK
<1> QED BY <1>3, <1>5

LEMMA StutterOK ==
  ASSUME UNCHANGED vars
  PROVE  (IInv => IInv') /\ (DInv => DInv')
<1>1. UNCHANGED <<up, pool, ref>>
  BY DEF vars
<1>2. Pins' = Pins /\ Unreported' = Unreported /\ (RefsGood' <=> RefsGood) /\ (Idle' <=> Idle)
  BY <1>1 DEF Pins, Unreported, RefsGood, Idle, Holders
<1>3. Core => Core'
  BY <1>1, <1>2 DEF Core
<1> QED BY <1>1, <1>3 DEF IInv, DInv

LEMMA StepOK == IInv /\ [Next]_vars => IInv'
<1> SUFFICES ASSUME IInv, [Next]_vars PROVE IInv'
  OBVIOUS
<1>0. Core /\ ImageOK(pool.disk[0]) /\ (up => HeadOK(pool))
  BY DEF IInv
<1>1. CASE Open
  BY <1>1, OpenGood
<1>2. CASE FlushEvery
  BY <1>0, <1>2, FlushEveryOK, KeptOK
<1>3. CASE ClosePool
  <2>1. up
    BY <1>3 DEF ClosePool
  <2> QED BY <1>0, <1>3, <2>1, ClosePoolOK DEF IInv
<1>4. CASE Crash
  BY <1>0, <1>4, CrashOK DEF IInv
<1>5. CASE CrashInClose
  <2>1. up
    BY <1>5 DEF CrashInClose
  <2> QED BY <1>0, <1>5, <2>1, CrashInCloseOK DEF IInv
<1>6. ASSUME NEW p \in PageIds, FlushOne(p) PROVE IInv'
  BY <1>0, <1>6, FlushOneOK, KeptOK
<1>7. ASSUME NEW c \in Clients, GetNewPage(c) PROVE IInv'
  BY <1>7, GetNewPageGood
<1>8. ASSUME NEW c \in Clients, ReleasePage(c) PROVE IInv'
  BY <1>0, <1>8, ReleasePageOK, KeptOK
<1>9. ASSUME NEW c \in Clients, NEW p \in PageIds, FetchPage(c, p) PROVE IInv'
  BY <1>0, <1>9, FetchPageOK, KeptOK
<1>10. ASSUME NEW c \in Clients, NEW v \in Data, WritePage(c, v) PROVE IInv'
  BY <1>0, <1>10, WritePageOK, KeptOK
<1>11. CASE UNCHANGED vars
  BY <1>11, StutterOK
<1> QED BY <1>1, <1>2, <1>3, <1>4, <1>5, <1>6, <1>7, <1>8, <1>9, <1>10, <1>11 DEF Next

\* delete_page of a page in use that no frame holds, or that one client holds.
Deletes ==
  /\ up /\ up'
  /\ \E id \in pool.head.bits \ {0} : \E r :
       pool' = r /\ Deleted(Content, r, pool, Pins, Unreported, id)

\* The client that had page id's contents deleted lets go of it: its pin is the
\* only one, and the frame it was on is gone.
LEMMA DeleteHeldOK ==
  ASSUME DInv, NEW c \in Clients, DeleteHeld(c)
  PROVE  DInv' /\ Deletes
<1> DEFINE id == ref[c].pid
           r == DeletePage(pool, id)
           k == [Pins EXCEPT ![id] = 0]
           V == Unreported \ {id}
<1>1. /\ up /\ ref[c] # NoRef /\ id # 0 /\ Holders(id) = {c} /\ up' = up
      /\ pool' = r /\ ref' = [ref EXCEPT ![c] = NoRef]
      /\ PoolOK(Content, pool, Pins) /\ CleanOK(pool, Pins, Unreported)
      /\ ref \in [Clients -> Refs \cup {NoRef}] /\ RefsGood /\ HeadFits(pool)
  BY DEF DeleteHeld, DInv, Core
<1>2. id \in PageIds /\ ref[c].frame \in Frames /\ pool.dir[id] = ref[c].frame
  BY <1>1 DEF Refs, RefsGood
<1>3. id \in pool.head.bits
  BY <1>1, <1>2, ConstantFacts DEF HeadFits
<1>4. Pins[id] > 0 /\ Pins[0] < PinMax
  BY <1>1, <1>2, HolderFacts, ConstantFacts
<1>5. Deleted(Content, r, pool, Pins, Unreported, id)
  <2> HIDE DEF id
  <2> QED BY <1>1, <1>3, <1>4, ContentFacts, DeleteFacts
<1>6. /\ ref' \in [Clients -> Refs \cup {NoRef}] /\ ref'[c] = NoRef
      /\ \A b \in Clients : b # c => ref'[b] = ref[b]
  BY <1>1
<1>7. \A q \in PageIds : Holders(q)' = IF q = id THEN {} ELSE Holders(q)
  <2>1. ASSUME NEW q \in PageIds PROVE Holders(q)' = Holders(q) \ {c}
    BY <1>6 DEF Holders
  <2>2. ASSUME NEW q \in PageIds, q # id PROVE c \notin Holders(q)
    BY <2>2 DEF Holders
  <2> QED BY <1>1, <2>1, <2>2
<1>8. Pins' = k
  BY <1>7, FS_EmptySet DEF Pins
<1>9. Unreported' = V
  <2>1. ASSUME NEW q \in PageIds, q # id
        PROVE  (\E b \in Holders(q)' : ref'[b].wrote) <=> (\E b \in Holders(q) : ref[b].wrote)
    <3>1. Holders(q)' = Holders(q) /\ c \notin Holders(q) /\ Holders(q) \subseteq Clients
      BY <1>7, <2>1 DEF Holders
    <3> QED BY <1>6, <3>1
  <2>2. \A q \in PageIds : q \in Unreported <=> \E b \in Holders(q) : ref[b].wrote
    BY DEF Unreported
  <2>3. \A q \in PageIds : q \in Unreported' <=> \E b \in Holders(q)' : ref'[b].wrote
    BY DEF Unreported
  <2>4. id \notin Unreported'
    BY <1>2, <1>7, <2>3
  <2>5. Unreported \subseteq PageIds /\ Unreported' \subseteq PageIds
    BY DEF Unreported
  <2> QED BY <2>1, <2>2, <2>3, <2>4, <2>5
<1> HIDE DEF r, k, V
<1>10. /\ PoolOK(Content, r, k) /\ CleanOK(r, k, V) /\ HeadFits(r)
       /\ \A q \in PageIds : q # id /\ Pins[q] > 0 => r.dir[q] = pool.dir[q]
  BY <1>5 DEF Deleted, k, V
<1>11. \A b \in Clients : ref'[b] # NoRef => r.dir[ref'[b].pid] = ref'[b].frame
  <2>1. SUFFICES ASSUME NEW b \in Clients, ref'[b] # NoRef
                 PROVE  r.dir[ref'[b].pid] = ref'[b].frame
    OBVIOUS
  <2>2. b # c /\ ref'[b] = ref[b] /\ ref[b].pid \in PageIds
    BY <1>1, <1>6, <2>1 DEF Refs
  <2>3. b \in Holders(ref[b].pid) /\ ref[b].pid # id
    BY <1>1, <2>1, <2>2 DEF Holders
  <2>4. Pins[ref[b].pid] > 0
    BY <1>1, <2>2, <2>3, HolderFacts
  <2> QED BY <1>1, <1>10, <2>1, <2>2, <2>3, <2>4 DEF RefsGood
<1>12. Core'
  BY <1>1, <1>6, <1>8, <1>9, <1>10, <1>11 DEF Core, RefsGood
<1>13. DInv'
  BY <1>1, <1>10, <1>12 DEF DInv, HeadFits
<1> QED BY <1>1, <1>3, <1>5, <1>13 DEF Deletes

LEMMA DeleteUncachedOK ==
  ASSUME DInv, NEW id \in PageIds, DeleteUncached(id)
  PROVE  DInv' /\ Deletes
<1> DEFINE r == DeletePage(pool, id)
<1>1. /\ up /\ id # 0 /\ id \in pool.head.bits /\ pool.dir[id] = NoFrame
      /\ pool' = r /\ UNCHANGED <<up, ref>>
      /\ PoolOK(Content, pool, Pins) /\ CleanOK(pool, Pins, Unreported)
      /\ ref \in [Clients -> Refs \cup {NoRef}] /\ RefsGood /\ HeadFits(pool)
  BY DEF DeleteUncached, HasPage, DInv, Core
<1>2. Pins[0] < PinMax /\ Pins[id] = 0
  BY <1>1, HolderFacts, ConstantFacts DEF PoolOK, PinsAgree
<1>3. Deleted(Content, r, pool, Pins, Unreported, id)
  BY <1>1, <1>2, ContentFacts, DeleteFacts
<1> HIDE DEF r
<1>4. [Pins EXCEPT ![id] = 0] = Pins /\ Unreported \ {id} = Unreported
  <2>1. [Pins EXCEPT ![id] = 0] = Pins
    BY <1>2 DEF Pins
  <2>2. id \notin Unreported
    BY <1>1, <1>2 DEF CleanOK
  <2> QED BY <2>1, <2>2
<1>5. /\ PoolOK(Content, r, Pins) /\ CleanOK(r, Pins, Unreported) /\ HeadFits(r)
      /\ \A q \in PageIds : q # id /\ Pins[q] > 0 => r.dir[q] = pool.dir[q]
  BY <1>3, <1>4 DEF Deleted
<1>6. Pins' = Pins /\ Unreported' = Unreported
  BY <1>1 DEF Pins, Unreported, Holders
<1>7. \A b \in Clients : ref[b] # NoRef => r.dir[ref[b].pid] = ref[b].frame
  BY <1>1, <1>2, <1>5, RefsStay
<1>8. Core'
  BY <1>1, <1>5, <1>6, <1>7 DEF Core, RefsGood
<1>9. DInv'
  BY <1>1, <1>5, <1>8 DEF DInv, HeadFits
<1> QED BY <1>1, <1>3, <1>9 DEF Deletes

LEMMA StepFits == DInv /\ [NextWithDeletes]_vars => DInv'
<1> SUFFICES ASSUME DInv, [NextWithDeletes]_vars PROVE DInv'
  OBVIOUS
<1>0. Core /\ FileHeadOK(pool.disk[0]) /\ (up => HeadFits(pool))
  BY DEF DInv
<1>1. CASE Open
  BY <1>1, OpenFit
<1>2. CASE FlushEvery
  BY <1>0, <1>2, FlushEveryOK, KeptOK
<1>3. CASE ClosePool
  <2>1. up
    BY <1>3 DEF ClosePool
  <2> QED BY <1>0, <1>3, <2>1, ClosePoolOK DEF DInv
<1>4. CASE Crash
  BY <1>0, <1>4, CrashOK DEF DInv
<1>5. CASE CrashInClose
  <2>1. up
    BY <1>5 DEF CrashInClose
  <2> QED BY <1>0, <1>5, <2>1, CrashInCloseOK DEF DInv
<1>6. ASSUME NEW p \in PageIds, FlushOne(p) PROVE DInv'
  BY <1>0, <1>6, FlushOneOK, KeptOK
<1>7. ASSUME NEW c \in Clients, GetNewPage(c) PROVE DInv'
  BY <1>7, GetNewPageFits
<1>8. ASSUME NEW c \in Clients, ReleasePage(c) PROVE DInv'
  BY <1>0, <1>8, ReleasePageOK, KeptOK
<1>9. ASSUME NEW c \in Clients, NEW p \in PageIds, FetchPage(c, p) PROVE DInv'
  BY <1>0, <1>9, FetchPageOK, KeptOK
<1>10. ASSUME NEW c \in Clients, NEW v \in Data, WritePage(c, v) PROVE DInv'
  BY <1>0, <1>10, WritePageOK, KeptOK
<1>11. CASE UNCHANGED vars
  BY <1>11, StutterOK
<1>12. ASSUME NEW c \in Clients, DeleteHeld(c) PROVE DInv'
  BY <1>12, DeleteHeldOK
<1>13. ASSUME NEW p \in PageIds, DeleteUncached(p) PROVE DInv'
  BY <1>13, DeleteUncachedOK
<1> QED BY <1>1, <1>2, <1>3, <1>4, <1>5, <1>6, <1>7, <1>8, <1>9, <1>10, <1>11, <1>12, <1>13
        DEF Next, NextWithDeletes
-----------------------------------------------------------------------------
\* The inductive invariants hold in every state: of the careful protocol, and
\* of the one that also deletes pages.
THEOREM Inductive == Spec => []IInv
BY InitOK, StepOK, PTL DEF Spec

THEOREM InductiveWithDeletes == SpecWithDeletes => []DInv
BY InitOK, StepFits, PTL DEF SpecWithDeletes

\* A careful client deletes nothing, so what holds with deletions holds for it.
LEMMA CarefulToo == Spec => SpecWithDeletes
<1>1. [Next]_vars => [NextWithDeletes]_vars
  BY DEF NextWithDeletes
<1> QED BY <1>1, PTL DEF Spec, SpecWithDeletes

\* The variables keep their types; pin counts do not wrap (pin_count_).
THEOREM Typed == SpecWithDeletes => []TypeOK
<1>1. DInv => TypeOK
  BY DEF DInv, Core, PoolOK, TypeOK
<1> QED BY <1>1, InductiveWithDeletes, PTL

\* dir_ and the frames' page ids stay inverses through every eviction.
THEOREM DirStaysConsistent == SpecWithDeletes => []DirConsistent
<1>1. DInv => DirConsistent
  BY DEF DInv, Core, PoolOK, DirConsistent
<1> QED BY <1>1, InductiveWithDeletes, PTL

\* No frame is lost or offered twice: free, evictable or pinned.
THEOREM FramesStayPartitioned == SpecWithDeletes => []FramePartition
<1>1. DInv => FramePartition
  BY DEF DInv, Core, PoolOK, FramePartition
<1> QED BY <1>1, InductiveWithDeletes, PTL

\* A Page* that fetch or new_page returned is good until it is unpinned, and
\* pin_count_ counts the holders.
THEOREM RefsStayGood == SpecWithDeletes => []RefsStable
<1>1. ASSUME DInv PROVE RefsStable
  <2>1. ASSUME NEW f \in Frames, pool.frames[f].pid # NoPid
        PROVE  pool.frames[f].pin = Cardinality(Holders(pool.frames[f].pid))
    <3> DEFINE p == pool.frames[f].pid
    <3>1. p \in PageIds /\ pool.dir[p] = f /\ f # NoFrame
      BY <1>1, <2>1, ConstantFacts DEF DInv, Core, PoolOK, PoolType, DirInverse
    <3>2. pool.frames[f].pin = Pins[p]
      <4> HIDE DEF p
      <4> QED BY <1>1, <3>1 DEF DInv, Core, PoolOK, PinsAgree
    <3> QED BY <3>1, <3>2 DEF Pins
  <2> QED BY <1>1, <2>1 DEF DInv, Core, RefsGood, RefsStable
<1> QED BY <1>1, InductiveWithDeletes, PTL

\* Nothing is lost when a clean frame is given to another page.
THEOREM CleanStaysOnDisk == SpecWithDeletes => []CleanMeansOnDisk
<1>1. DInv => CleanMeansOnDisk
  BY DEF DInv, Core, CleanOK, Unreported, CleanMeansOnDisk
<1> QED BY <1>1, InductiveWithDeletes, PTL

\* page_num_ counts the pages in use, all below next_page_id_, over any number
\* of restarts and crashes, when nothing is deleted.
THEOREM HeadStaysCounted == Spec => []HeadCounts
<1>1. ASSUME IInv PROVE HeadCounts
  <2>1. SUFFICES ASSUME up
                 PROVE  /\ pool.head.pageNum = Cardinality(pool.head.bits)
                        /\ \A p \in pool.head.bits : p < pool.next
    BY DEF HeadCounts
  <2>2. /\ pool.next \in Nat /\ pool.head.bits = 0..pool.next-1
        /\ pool.head.pageNum = pool.next
    BY <1>1, <2>1, PoolAssumption DEF IInv, Core, PoolOK, PoolType, HeadOK
  <2>3. Cardinality(0..pool.next-1) = pool.next
    BY <2>2, FS_Interval
  <2> QED BY <2>2, <2>3
<1> QED BY <1>1, Inductive, PTL

\* new_page never returns an id that is in use, over any number of restarts,
\* deletions, and bits that a restart lost.
THEOREM NewPagesAreUnused == SpecWithDeletes => NewPageIsUnused
<1>1. ASSUME DInv, NEW c \in Clients, GetNewPage(c)
      PROVE  PickedPid(pool) \notin pool.head.bits
  BY <1>1, PickedIsClear DEF DInv, Core, PoolOK, GetNewPage
<1>2. DInv => [\A c \in Clients : GetNewPage(c) => PickedPid(pool) \notin pool.head.bits]_vars
  BY <1>1
<1> QED BY <1>2, InductiveWithDeletes, PTL DEF NewPageIsUnused
-----------------------------------------------------------------------------
\* Without deletions page_num_ is at least phy_num_, so the bytes a restart reads
\* are enough: contain() accepts what it accepted before.
THEOREM RestartsKeepPages == Spec => ReopenKeepsPages
<1>1. ASSUME IInv, Open PROVE ImageBits(pool.disk[0]) \subseteq pool'.head.bits
  <2> DEFINE d == pool.disk
             r == OpenPool(d)
  <2>1. pool' = r /\ ImageOK(d[0]) /\ d \in [PageIds -> Content]
    BY <1>1 DEF Open, IInv, Core, PoolOK, PoolType
  <2>2. FileOpened(r, d)
    <3> HIDE DEF d
    <3> QED BY <2>1, ContentFacts, OpenFacts
  <2> HIDE DEF r
  <2> QED BY <2>1, <2>2 DEF FileOpened
<1>2. IInv => [Open => ImageBits(pool.disk[0]) \subseteq pool'.head.bits]_vars
  BY <1>1
<1> QED BY <1>2, Inductive, PTL DEF ReopenKeepsPages

\* As long as no restart loses a page, deletions or not, page_num_ is exact.
EInv == DInv /\ FileExact(pool.disk[0]) /\ (up => HeadExact(pool))
KeepingOpen == Open => ImageBits(pool.disk[0]) \subseteq pool'.head.bits

LEMMA KeptExact ==
  ASSUME EInv, DInv', Kept
  PROVE  EInv'
<1>1. PICK r : pool' = r /\ HeadAlike(r, pool) /\ up
  BY DEF Kept
<1>2. HeadExact(r)
  BY <1>1, HeadStaysExact DEF EInv
<1> QED BY <1>1, <1>2 DEF EInv, HeadExact

LEMMA OpenKeeping ==
  ASSUME EInv, Open, KeepingOpen
  PROVE  /\ EInv' /\ ~up /\ up'
         /\ \E r : pool' = r /\ FileOpened(r, pool.disk)
<1> DEFINE d == pool.disk
<1>1. /\ DInv /\ FileHeadOK(d[0]) /\ FileExact(d[0]) /\ d \in [PageIds -> Content]
      /\ ImageBits(d[0]) \subseteq pool'.head.bits
  BY DEF EInv, DInv, Core, PoolOK, PoolType, KeepingOpen
<1>2. PICK r : DInv' /\ ~up /\ up' /\ pool' = r /\ Opened(Content, r, d)
  BY <1>1, OpenFit
<1>3. HeadExact(r) /\ FileOpened(r, d)
  <2> HIDE DEF d
  <2> QED BY <1>1, <1>2, OpenExact
<1> QED BY <1>2, <1>3 DEF EInv, HeadExact

\* A process that ends leaves page 0 of the file exact.
LEMMA DownExact ==
  ASSUME EInv, DInv', Crash \/ ClosePool \/ CrashInClose
  PROVE  EInv'
<1>1. /\ up /\ Core /\ HeadFits(pool) /\ HeadExact(pool) /\ pool \in PoolType(Content)
  BY DEF EInv, DInv, Core, PoolOK, Crash, ClosePool, CrashInClose
<1>2. /\ FileExact(pool.disk[0]) /\ FileExact(Latest(pool, 0))
      /\ FileExact(SavedImage(pool)) /\ ImageBits(Latest(pool, 0)) \subseteq PageIds
  BY <1>1, SavedImageExact, FitFacts DEF HeadExact
<1>3. ASSUME NEW d \in [PageIds -> Content], Down(d), FileExact(d[0]) PROVE EInv'
  BY <1>3, DownOK DEF EInv
<1>4. CASE Crash
  <2>1. Down(pool.disk) /\ pool.disk \in [PageIds -> Content]
    BY <1>1, <1>4 DEF Crash, PoolType
  <2> QED BY <1>2, <1>3, <2>1
<1>5. ASSUME Idle, CloseOK(pool), NEW P \in SUBSET DirtyPids(SaveHead(pool)),
             Down(FlushPids(SaveHead(pool), P).disk)
      PROVE  EInv'
  <2> DEFINE d == FlushPids(SaveHead(pool), P).disk
  <2>1. /\ d \in [PageIds -> Content]
        /\ d[0] \in {pool.disk[0], Latest(pool, 0), SavedImage(pool)}
    BY <1>1, <1>2, <1>5, CloseLeaves
  <2>2. Down(d)
    BY <1>5
  <2> HIDE DEF d
  <2> QED BY <1>2, <1>3, <2>1, <2>2
<1>6. CASE ClosePool
  <2>1. DirtyPids(SaveHead(pool)) \in SUBSET DirtyPids(SaveHead(pool))
    OBVIOUS
  <2> QED BY <1>5, <1>6, <2>1 DEF ClosePool, Close, FlushAll
<1>7. CASE CrashInClose
  BY <1>5, <1>7 DEF CrashInClose
<1> QED BY <1>4, <1>6, <1>7

\* A page deleted is one in use, and what page 0 reads is as before or without it.
LEMMA DeletesExact ==
  ASSUME EInv, DInv', Deletes
  PROVE  EInv'
<1>0. PICK id \in pool.head.bits \ {0} : \E r :
             pool' = r /\ Deleted(Content, r, pool, Pins, Unreported, id)
  BY DEF Deletes
<1>1. PICK r : pool' = r /\ Deleted(Content, r, pool, Pins, Unreported, id)
  BY <1>0
<1>2. up /\ up' /\ HeadFits(pool) /\ HeadExact(pool) /\ pool \in PoolType(Content)
  BY DEF Deletes, EInv, DInv, Core, PoolOK
<1>3. HeadExact(r)
  BY <1>1, <1>2, DeletedExact
<1> QED BY <1>1, <1>3 DEF EInv, HeadExact

LEMMA StepExact == EInv /\ [NextWithDeletes]_vars /\ [KeepingOpen]_vars => EInv'
<1> SUFFICES ASSUME EInv, [NextWithDeletes]_vars, [KeepingOpen]_vars PROVE EInv'
  OBVIOUS
<1>0. DInv /\ DInv' /\ Core
  BY StepFits DEF EInv, DInv
<1>1. CASE UNCHANGED vars
  BY <1>0, <1>1 DEF vars, EInv
<1>2. CASE Open
  <2>1. KeepingOpen
    BY <1>2 DEF vars, Open
  <2> QED BY <1>2, <2>1, OpenKeeping
<1>3. CASE FlushEvery
  BY <1>0, <1>3, FlushEveryOK, KeptExact
<1>4. CASE Crash \/ ClosePool \/ CrashInClose
  BY <1>0, <1>4, DownExact
<1>5. ASSUME NEW p \in PageIds, FlushOne(p) PROVE EInv'
  BY <1>0, <1>5, FlushOneOK, KeptExact
<1>6. ASSUME NEW c \in Clients, GetNewPage(c) PROVE EInv'
  <2>1. /\ up /\ HeadFits(pool) /\ HeadExact(pool) /\ pool \in PoolType(Content)
    BY <1>0, <1>6 DEF GetNewPage, EInv, DInv, Core, PoolOK
  <2>2. PickedPid(pool) \in PageIds
    BY <1>0, <1>6, GetNewPageFits
  <2>3. PICK s : pool' = s /\ NewPageLeaves(Content, s, pool, Pins, Unreported)
    BY <1>0, <1>6, GetNewPageFits
  <2>4. HeadExact(s)
    BY <2>1, <2>2, <2>3, NewPageExact
  <2> QED BY <1>0, <2>3, <2>4 DEF EInv, HeadExact
<1>7. ASSUME NEW c \in Clients, ReleasePage(c) PROVE EInv'
  BY <1>0, <1>7, ReleasePageOK, KeptExact
<1>8. ASSUME NEW c \in Clients, NEW p \in PageIds, FetchPage(c, p) PROVE EInv'
  BY <1>0, <1>8, FetchPageOK, KeptExact
<1>9. ASSUME NEW c \in Clients, NEW v \in Data, WritePage(c, v) PROVE EInv'
  BY <1>0, <1>9, WritePageOK, KeptExact
<1>10. ASSUME NEW c \in Clients, DeleteHeld(c) PROVE EInv'
  BY <1>0, <1>10, DeleteHeldOK, DeletesExact
<1>11. ASSUME NEW p \in PageIds, DeleteUncached(p) PROVE EInv'
  BY <1>0, <1>11, DeleteUncachedOK, DeletesExact
<1> QED BY <1>1, <1>2, <1>3, <1>4, <1>5, <1>6, <1>7, <1>8, <1>9, <1>10, <1>11
        DEF Next, NextWithDeletes

THEOREM InductiveExact == SpecWithDeletes /\ ReopenKeepsPages => []EInv
<1>1. Init => EInv
  BY InitOK DEF EInv, FileExact, Init
<1> QED BY <1>1, StepExact, PTL DEF SpecWithDeletes, ReopenKeepsPages, KeepingOpen

\* page_num_ counts the pages in use with deletions too, until a restart loses
\* one.
THEOREM HeadStaysCountedWithDeletes ==
  SpecWithDeletes /\ ReopenKeepsPages => []HeadCounts
<1>1. EInv => HeadCounts
  BY DEF EInv, DInv, HeadFits, HeadExact, HeadCounts
<1> QED BY <1>1, InductiveExact, PTL
-----------------------------------------------------------------------------
\* The store that a pool s on its file stands for, as the mapping of Store has
\* it: what page p reads, what the file has of it, and the pages in use.
Reads(s) == [p \in PageIds |-> View(p, Latest(s, p))]
OnFile(s) == [p \in PageIds |-> View(p, s.disk[p])]
InUse == IF up THEN pool.head.bits ELSE {}

LEMMA Mapped ==
  /\ Store!Init <=> up = FALSE /\ InUse = {} /\ OnFile(pool) = Reads(pool)
                    /\ Reads(pool) = [p \in PageIds |-> IF p = 0 THEN {} ELSE Zero]
  /\ Store!MayPersist <=>
       /\ DOMAIN OnFile(pool)' = PageIds
       /\ \A p \in PageIds :
            OnFile(pool)'[p] \in {OnFile(pool)[p], Reads(pool)[p], Reads(pool)'[p]}
BY DEF Store!Init, Store!MayPersist, Reads, OnFile, InUse

\* A call that writes no contents the file should not get: what it wrote of a
\* page was the latest before the call or is the latest after it.
LEMMA PersistsLatest ==
  ASSUME NEW s, NEW r, pool = s, pool' = r,
         \A p \in PageIds : r.disk[p] \in {s.disk[p], Latest(s, p), Latest(r, p)}
  PROVE  Store!MayPersist
<1>1. OnFile(pool)' = OnFile(r) /\ Reads(pool)' = Reads(r)
  BY DEF OnFile, Reads, View, Latest, ImageBits
<1>2. DOMAIN OnFile(r) = PageIds
  BY DEF OnFile
<1>3. ASSUME NEW p \in PageIds
      PROVE  OnFile(r)[p] \in {OnFile(s)[p], Reads(s)[p], Reads(r)[p]}
  BY <1>3 DEF OnFile, Reads
<1> QED BY <1>1, <1>2, <1>3, Mapped

\* A call after which every page reads as before, and as many are in use.
LEMMA PersistStep ==
  ASSUME up, UNCHANGED up, NEW r, pool' = r, ReadsSame(r, pool), r.head = pool.head,
         \A p \in PageIds : r.disk[p] \in {pool.disk[p], Latest(pool, p)}
  PROVE  Store!Persist
<1>1. Store!MayPersist
  BY PersistsLatest
<1>2. Reads(r) = Reads(pool)
  BY DEF Reads, ReadsSame
<1>3. Reads(pool)' = Reads(r)
  BY DEF Reads, View, Latest, ImageBits
<1> QED BY <1>1, <1>2, <1>3 DEF Store!Persist, Reads

LEMMA FetchIsPersist ==
  ASSUME Core, NEW c \in Clients, NEW p \in PageIds, FetchPage(c, p)
  PROVE  Store!Persist
<1> DEFINE r == Fetch(pool, p)
<1>1. /\ up /\ UNCHANGED up /\ pool' = r /\ FetchOK(pool, p)
      /\ PoolOK(Content, pool, Pins) /\ CleanOK(pool, Pins, Unreported)
      /\ ref \in [Clients -> Refs \cup {NoRef}]
  BY DEF FetchPage, Take, Core
<1>2. Fetched(Content, r, pool, Pins, Unreported, p)
  BY <1>1, HolderFacts, ContentFacts, FetchFacts
<1> HIDE DEF r
<1>3. /\ ReadsSame(r, pool) /\ r.head = pool.head
      /\ \A q \in PageIds : r.disk[q] \in {pool.disk[q], Latest(pool, q)}
  BY <1>2 DEF Fetched, Preserves, ReadsSame
<1> QED BY <1>1, <1>3, PersistStep

LEMMA NewPageIsAllocate ==
  ASSUME DInv, NEW c \in Clients, GetNewPage(c)
  PROVE  \E p \in PageIds : Store!Allocate(p)
<1> DEFINE p == PickedPid(pool)
<1>1. up /\ UNCHANGED up /\ HeadFits(pool) /\ pool \in PoolType(Content)
  BY DEF GetNewPage, Take, DInv, Core, PoolOK
<1>2. p \notin pool.head.bits /\ p \in PageIds
  BY <1>1, PickedIsClear, GetNewPageFits
<1>3. PICK r : pool' = r /\ NewPageLeaves(Content, r, pool, Pins, Unreported)
  BY GetNewPageFits
<1>4. /\ \A q \in PageIds : q # p => Latest(r, q) = Latest(pool, q)
      /\ \A q \in PageIds : r.disk[q] \in {pool.disk[q], Latest(pool, q)}
      /\ Latest(r, p) = Zero /\ r.head.bits = pool.head.bits \cup {p}
  BY <1>3 DEF NewPageLeaves, Preserves, Allocate
<1> HIDE DEF p
<1>5. p # 0
  BY <1>1, <1>2 DEF HeadFits
<1>6. Store!MayPersist
  BY <1>3, <1>4, PersistsLatest
<1>7. Reads(pool)' = Reads(r)
  BY <1>3 DEF Reads, View, Latest, ImageBits
<1>8. Reads(r) = [Reads(pool) EXCEPT ![p] = Zero]
  BY <1>2, <1>4, <1>5 DEF Reads, View
<1>9. Store!Allocate(p)
  BY <1>1, <1>2, <1>3, <1>4, <1>6, <1>7, <1>8 DEF Store!Allocate, Reads
<1> QED BY <1>2, <1>9

LEMMA WriteIsWrite ==
  ASSUME DInv, NEW c \in Clients, NEW v \in Data, WritePage(c, v)
  PROVE  \E p \in PageIds : Store!Write(p, v)
<1> DEFINE p == ref[c].pid
           f == ref[c].frame
           r == [pool EXCEPT !.frames[f].data = v]
           dirty == pool.frames[f].dirty
<1>1. /\ up /\ ref[c] # NoRef /\ p # 0 /\ UNCHANGED up /\ pool' = r
      /\ PoolOK(Content, pool, Pins) /\ CleanOK(pool, Pins, Unreported) /\ HeadFits(pool)
      /\ ref \in [Clients -> Refs \cup {NoRef}] /\ RefsGood
  BY DEF WritePage, DInv, Core
<1>2. /\ p \in PageIds /\ f \in Frames /\ pool.dir[p] = f /\ f # NoFrame
  BY <1>1, ConstantFacts DEF Refs, RefsGood
<1>3. dirty \in BOOLEAN
  BY <1>1, <1>2 DEF PoolOK, PoolType
<1>4. Rewritten(Content, r, pool, p, v, dirty) /\ r.head = pool.head
  <2> HIDE DEF p, f
  <2> QED BY <1>1, <1>2, ContentFacts, PointerWrite
<1> HIDE DEF p, f, r, dirty
<1>5. OnlyNow(r, pool, p, v) /\ r.disk = pool.disk
  <2>1. RewriteLeaves(Content, r, pool, Pins, Unreported, p, v, dirty)
    BY <1>1, <1>2, <1>3, <1>4, RewrittenOK
  <2> QED BY <1>4, <2>1 DEF RewriteLeaves, Rewritten
<1>6. p \in pool.head.bits
  BY <1>1, <1>2 DEF HeadFits
<1>7. Store!MayPersist
  BY <1>1, <1>5, PersistsLatest
<1>8. Reads(pool)' = Reads(r)
  BY <1>1 DEF Reads, View, Latest, ImageBits
<1>9. Reads(r) = [Reads(pool) EXCEPT ![p] = v]
  BY <1>1, <1>2, <1>5 DEF Reads, View, OnlyNow
<1>10. Store!Write(p, v)
  BY <1>1, <1>4, <1>6, <1>7, <1>8, <1>9 DEF Store!Write, Reads
<1> QED BY <1>2, <1>10

\* What unpin changes of the pool does not depend on who held the page.
LEMMA ReleaseIsPersist ==
  ASSUME Core, NEW c \in Clients, ReleasePage(c)
  PROVE  Store!Persist
<1> DEFINE p == ref[c].pid
           r == Unpin(pool, p, ref[c].wrote)
<1>1. /\ up /\ UNCHANGED up /\ pool' = r
      /\ pool \in PoolType(Content) /\ pool.dir[p] = ref[c].frame
      /\ ref[c].frame \in Frames /\ p \in PageIds
  BY ConstantFacts DEF ReleasePage, Core, RefsGood, PoolOK, Refs
<1>2. pool.dir[p] # NoFrame
  BY <1>1, ConstantFacts
<1> HIDE DEF p
<1>3. /\ r.dir = pool.dir /\ r.disk = pool.disk /\ r.head = pool.head
      /\ \A f \in Frames : r.frames[f].data = pool.frames[f].data
  BY <1>1, <1>2 DEF Unpin, PoolType
<1> HIDE DEF r
<1>4. ReadsSame(r, pool)
  BY <1>1, <1>3 DEF ReadsSame, Latest, PoolType
<1> QED BY <1>1, <1>3, <1>4, PersistStep

LEMMA FlushIsPersist ==
  ASSUME Core, up, UNCHANGED up, NEW r, SameFrames(Content, r, pool),
         r.head = pool.head, pool' = r
  PROVE  Store!Persist
<1>1. ReadsSame(r, pool)
  BY SameFramesOK DEF Core
<1> QED BY <1>1, PersistStep DEF SameFrames

LEMMA OpenIsOpen ==
  ASSUME EInv, Open, KeepingOpen
  PROVE  Store!Open
<1> DEFINE d == pool.disk
<1>1. PICK r : ~up /\ up' /\ pool' = r /\ FileOpened(r, d)
  BY OpenKeeping
<1>2. /\ up = FALSE /\ up' = TRUE
      /\ \A p \in PageIds : pool.dir[p] = NoFrame
  BY <1>1 DEF Open, EInv, DInv, Core
<1>3. \A p \in PageIds : Latest(pool, p) = d[p]
  BY <1>2 DEF Latest
<1>4. Store!MayPersist
  BY <1>1, <1>3, PersistsLatest DEF FileOpened
<1>5. Reads(pool)' = Reads(r)
  BY <1>1 DEF Reads, View, Latest, ImageBits
<1>6. Reads(r) = [Reads(pool) EXCEPT ![0] = r.head.bits]
  BY <1>1, <1>3, ConstantFacts DEF Reads, View, FileOpened
<1>7. Reads(pool)[0] = ImageBits(d[0])
  BY <1>3, ConstantFacts DEF Reads, View
<1>8. InUse' = r.head.bits /\ r.head.bits = IF Reads(pool)[0] = {} THEN {0} ELSE Reads(pool)[0]
  BY <1>1, <1>2, <1>7 DEF InUse, FileOpened
<1> QED BY <1>2, <1>4, <1>5, <1>6, <1>8 DEF Store!Open, Reads, InUse

\* What the file d holds once the process is gone is all there is to read.
LEMMA DownReads ==
  ASSUME NEW d \in [PageIds -> Content], Down(d)
  PROVE  /\ up' = FALSE /\ InUse' = {}
         /\ Reads(pool)' = [p \in PageIds |-> View(p, d[p])]
         /\ OnFile(pool)' = [p \in PageIds |-> View(p, d[p])]
<1> DEFINE b == BlankPool(d)
<1>1. up' = FALSE /\ pool' = b
  BY DEF Down
<1>2. b.disk = d /\ \A p \in PageIds : b.dir[p] = NoFrame
  BY DEF BlankPool
<1> HIDE DEF b
<1>3. \A p \in PageIds : Latest(b, p) = d[p]
  BY <1>2 DEF Latest
<1>4. Reads(pool)' = Reads(b) /\ OnFile(pool)' = OnFile(b)
  BY <1>1 DEF Reads, OnFile, View, Latest, ImageBits
<1> QED BY <1>1, <1>2, <1>3, <1>4 DEF InUse, Reads, OnFile

LEMMA CrashIsCrash ==
  ASSUME Core, Crash
  PROVE  Store!Crash
<1> DEFINE d == pool.disk
<1>1. up /\ Down(d) /\ d \in [PageIds -> Content]
  BY DEF Crash, Core, PoolOK, PoolType
<1>2. /\ up' = FALSE /\ InUse' = {}
      /\ Reads(pool)' = OnFile(pool) /\ OnFile(pool)' = OnFile(pool)
  <2> HIDE DEF d
  <2>1. OnFile(pool) = [p \in PageIds |-> View(p, d[p])]
    BY DEF OnFile, d
  <2> QED BY <1>1, <2>1, DownReads
<1>3. DOMAIN OnFile(pool) = PageIds
  BY DEF OnFile
<1> QED BY <1>1, <1>2, <1>3 DEF Store!Crash, Reads, OnFile, InUse

\* The file after head_ is saved and the dirty pages P are written: of each
\* page what it had or the latest, and of page 0 perhaps the bitmap.
LEMMA CloseWrites ==
  ASSUME EInv, up, Idle, CloseOK(pool), NEW P \in SUBSET DirtyPids(SaveHead(pool))
  PROVE  LET d == FlushPids(SaveHead(pool), P).disk
         IN  /\ d \in [PageIds -> Content]
             /\ \A p \in PageIds :
                  View(p, d[p]) \in {OnFile(pool)[p], Reads(pool)[p]}
                                       \cup (IF p = 0 THEN {pool.head.bits} ELSE {})
             /\ P = DirtyPids(SaveHead(pool)) =>
                  \A p \in PageIds :
                    View(p, d[p]) = IF p = 0 THEN pool.head.bits ELSE Reads(pool)[p]
<1> DEFINE s == SaveHead(pool)
           r == FlushPids(s, P)
           d == r.disk
           h == Pins
           W == Unreported
<1>1. /\ PoolOK(Content, pool, h) /\ CleanOK(pool, h, W) /\ FetchOK(pool, 0)
      /\ HeadFits(pool) /\ HeadExact(pool) /\ pool \in PoolType(Content)
  BY DEF EInv, DInv, Core, PoolOK, CloseOK
<1>2. h[0] < PinMax /\ W = {}
  BY IdleFacts, ConstantFacts
<1> HIDE DEF h, W
<1>3. PoolOK(Content, s, h) /\ CleanOK(s, h, W) /\ HeadSaved(s, pool)
  <2>1. /\ ImageBits(Latest(pool, 0)) \subseteq PageIds
        /\ ImageBits(SavedImage(pool)) = pool.head.bits
    BY <1>1, FitFacts, SavedImageExact
  <2>2. Saved(Content, s, pool, h, W)
    BY <1>1, <1>2, <2>1, ContentFacts, SaveHeadIs
  <2> HIDE DEF s
  <2> QED BY <2>1, <2>2 DEF Saved, OnlyNow, HeadSaved
<1> HIDE DEF s
<1>4. SameFrames(Content, r, s)
  BY <1>3, FlushPidsOK DEF s
<1>5. \A p \in PageIds : d[p] = IF p \in P THEN Latest(s, p) ELSE s.disk[p]
  BY DEF FlushPids, Latest, DirtyPids, s
<1> HIDE DEF r
<1>6. d \in [PageIds -> Content]
  BY <1>4 DEF SameFrames, PoolType
<1>7. ASSUME NEW p \in PageIds
      PROVE  View(p, Latest(s, p)) = IF p = 0 THEN pool.head.bits ELSE Reads(pool)[p]
  BY <1>3 DEF HeadSaved, View, Reads
<1>8. ASSUME NEW p \in PageIds
      PROVE  View(p, s.disk[p]) \in {OnFile(pool)[p], Reads(pool)[p]}
  BY <1>3 DEF HeadSaved, OnFile, Reads
<1>9. ASSUME NEW p \in PageIds
      PROVE  View(p, d[p]) \in {OnFile(pool)[p], Reads(pool)[p]}
                                  \cup (IF p = 0 THEN {pool.head.bits} ELSE {})
  BY <1>5, <1>7, <1>8
<1>10. ASSUME P = DirtyPids(s), NEW p \in PageIds
       PROVE  View(p, d[p]) = IF p = 0 THEN pool.head.bits ELSE Reads(pool)[p]
  <2>1. p \in P \/ s.disk[p] = Latest(s, p)
    BY <1>2, <1>3, <1>10 DEF CleanOK, DirtyPids, Latest
  <2>2. d[p] = Latest(s, p)
    BY <1>5, <2>1
  <2> QED BY <1>7, <2>2
<1> QED BY <1>6, <1>9, <1>10 DEF r, s

LEMMA CloseIsClose ==
  ASSUME EInv, ClosePool
  PROVE  Store!Close
<1> DEFINE P == DirtyPids(SaveHead(pool))
           d == FlushPids(SaveHead(pool), P).disk
<1>1. up /\ Idle /\ CloseOK(pool) /\ Down(d)
  BY DEF ClosePool, Close, FlushAll
<1>2. P \in SUBSET DirtyPids(SaveHead(pool)) /\ P = DirtyPids(SaveHead(pool))
  OBVIOUS
<1> HIDE DEF P
<1>3. /\ d \in [PageIds -> Content]
      /\ \A p \in PageIds :
           View(p, d[p]) = IF p = 0 THEN pool.head.bits ELSE Reads(pool)[p]
  BY <1>1, <1>2, CloseWrites
<1> HIDE DEF d
<1>4. /\ up' = FALSE /\ InUse' = {}
      /\ Reads(pool)' = [p \in PageIds |-> View(p, d[p])]
      /\ OnFile(pool)' = [p \in PageIds |-> View(p, d[p])]
  BY <1>1, <1>3, DownReads
<1>5. [p \in PageIds |-> View(p, d[p])] = [Reads(pool) EXCEPT ![0] = pool.head.bits]
  BY <1>3 DEF Reads
<1> QED BY <1>1, <1>4, <1>5 DEF Store!Close, Reads, OnFile, InUse

LEMMA CrashInCloseIsCrash ==
  ASSUME EInv, CrashInClose
  PROVE  Store!Crash
<1>1. up /\ Idle /\ CloseOK(pool)
  BY DEF CrashInClose
<1>2. PICK P \in SUBSET DirtyPids(SaveHead(pool)) : Down(FlushPids(SaveHead(pool), P).disk)
  BY DEF CrashInClose
<1> DEFINE d == FlushPids(SaveHead(pool), P).disk
<1>3. /\ d \in [PageIds -> Content]
      /\ \A p \in PageIds :
           View(p, d[p]) \in {OnFile(pool)[p], Reads(pool)[p]}
                                \cup (IF p = 0 THEN {pool.head.bits} ELSE {})
  BY <1>1, CloseWrites
<1>4. Down(d)
  BY <1>2
<1> HIDE DEF d
<1>5. /\ up' = FALSE /\ InUse' = {}
      /\ Reads(pool)' = OnFile(pool)'
      /\ OnFile(pool)' = [p \in PageIds |-> View(p, d[p])]
  BY <1>3, <1>4, DownReads
<1>6. /\ DOMAIN OnFile(pool)' = PageIds
      /\ \A p \in PageIds :
           OnFile(pool)'[p] \in {OnFile(pool)[p], Reads(pool)[p]}
                                   \cup (IF p = 0 THEN {InUse} ELSE {})
  BY <1>1, <1>3, <1>5 DEF InUse
<1> QED BY <1>1, <1>5, <1>6 DEF Store!Crash, Reads, OnFile, InUse

\* delete_page frees a page in use, and page 0 is what it was or is saved.
LEMMA DeletesIsFree ==
  ASSUME EInv, Deletes
  PROVE  \E p \in PageIds : Store!Free(p)
<1>0. PICK p \in pool.head.bits \ {0} : \E r :
             pool' = r /\ Deleted(Content, r, pool, Pins, Unreported, p)
  BY DEF Deletes
<1>1. PICK r : pool' = r /\ Deleted(Content, r, pool, Pins, Unreported, p)
  BY <1>0
<1>2. /\ up /\ up' /\ UNCHANGED up /\ HeadFits(pool) /\ HeadExact(pool)
      /\ pool \in PoolType(Content)
  BY DEF Deletes, EInv, DInv, Core, PoolOK
<1>3. p \in PageIds
  BY <1>1, <1>2, FitFacts
<1>4. /\ r.head.bits = pool.head.bits \ {p}
      /\ ImageBits(Latest(r, 0)) \in {ImageBits(Latest(pool, 0)), r.head.bits}
  BY <1>1, <1>2, DeletedExact
<1>5. \A q \in PageIds : /\ q \notin {0, p} => Latest(r, q) = Latest(pool, q)
                         /\ r.disk[q] \in {pool.disk[q], Latest(pool, q)}
  BY <1>1 DEF Deleted
<1>6. Store!MayPersist
  BY <1>1, <1>5, PersistsLatest
<1>7. Reads(pool)' = Reads(r)
  BY <1>1 DEF Reads, View, Latest, ImageBits
<1>8. /\ DOMAIN Reads(r) = PageIds
      /\ \A q \in PageIds \ {0, p} : Reads(r)[q] = Reads(pool)[q]
      /\ Reads(r)[0] \in {Reads(pool)[0], r.head.bits}
  BY <1>4, <1>5, ConstantFacts DEF Reads, View
<1>9. InUse = pool.head.bits /\ InUse' = r.head.bits
  BY <1>1, <1>2 DEF InUse
<1>10. Store!Free(p)
  BY <1>1, <1>2, <1>3, <1>4, <1>6, <1>7, <1>8, <1>9 DEF Store!Free, Reads, InUse
<1> QED BY <1>3, <1>10

\* The pool is transparent: with the pages read through it as contents, and
\* the file as what is durable, each of its calls is a step of PageStore, until a
\* restart loses a page.  An eviction is invisible but for making contents
\* durable, a close makes all of them so, and a crash, in a close or not, leaves
\* what was.
THEOREM PoolIsPageStoreWithDeletes ==
  SpecWithDeletes /\ ReopenKeepsPages => ImplementsPageStore
<1>1. Init => Store!Init
  <2> SUFFICES ASSUME Init PROVE Store!Init
    OBVIOUS
  <2> DEFINE d == [p \in PageIds |-> Zero]
             s == BlankPool(d)
  <2>1. up = FALSE /\ pool = s
    BY DEF Init
  <2>2. s.disk = d /\ \A p \in PageIds : s.dir[p] = NoFrame
    BY DEF BlankPool
  <2> HIDE DEF s
  <2>3. \A p \in PageIds : Latest(s, p) = Zero /\ s.disk[p] = Zero
    BY <2>2 DEF Latest
  <2>4. Reads(s) = [p \in PageIds |-> IF p = 0 THEN {} ELSE Zero] /\ OnFile(s) = Reads(s)
    BY <2>3 DEF Reads, OnFile, View, ImageBits
  <2> QED BY <2>1, <2>4, Mapped DEF InUse
<1>2. EInv /\ [NextWithDeletes]_vars /\ [KeepingOpen]_vars
        => [Store!Next]_<<up, InUse, Reads(pool), OnFile(pool)>>
  <2> SUFFICES ASSUME EInv, [NextWithDeletes]_vars, [KeepingOpen]_vars
               PROVE  Store!Next \/ UNCHANGED <<up, InUse, Reads(pool), OnFile(pool)>>
    OBVIOUS
  <2>0. DInv /\ Core
    BY DEF EInv, DInv
  <2>1. CASE Open
    <3>1. KeepingOpen
      BY <2>1 DEF vars, Open
    <3> QED BY <2>1, <3>1, OpenIsOpen DEF Store!Next
  <2>2. CASE FlushEvery
    <3> DEFINE P == DirtyPids(pool)
               r == FlushPids(pool, P)
    <3>1. PoolOK(Content, pool, Pins) /\ up /\ UNCHANGED up /\ pool' = r
      BY <2>0, <2>2 DEF Core, FlushEvery, FlushAll
    <3>2. P \in SUBSET DirtyPids(pool)
      OBVIOUS
    <3> HIDE DEF P
    <3>3. SameFrames(Content, r, pool) /\ r.head = pool.head
      BY <3>1, <3>2, FlushPidsOK
    <3> HIDE DEF r
    <3> QED BY <2>0, <3>1, <3>3, FlushIsPersist DEF Store!Next
  <2>3. CASE ClosePool
    BY <2>3, CloseIsClose DEF Store!Next
  <2>4. CASE Crash
    BY <2>0, <2>4, CrashIsCrash DEF Store!Next
  <2>5. CASE CrashInClose
    BY <2>5, CrashInCloseIsCrash DEF Store!Next
  <2>6. ASSUME NEW p \in PageIds, FlushOne(p) PROVE Store!Next
    <3> DEFINE r == FlushPage(pool, p)
    <3>1. PoolOK(Content, pool, Pins) /\ up /\ UNCHANGED up /\ pool' = r
      BY <2>0, <2>6 DEF Core, FlushOne
    <3>2. SameFrames(Content, r, pool) /\ r.head = pool.head
      BY <3>1, FlushPageOK
    <3> HIDE DEF r
    <3> QED BY <2>0, <3>1, <3>2, FlushIsPersist DEF Store!Next
  <2>7. ASSUME NEW c \in Clients, GetNewPage(c) PROVE Store!Next
    BY <2>0, <2>7, NewPageIsAllocate DEF Store!Next
  <2>8. ASSUME NEW c \in Clients, ReleasePage(c) PROVE Store!Next
    BY <2>0, <2>8, ReleaseIsPersist DEF Store!Next
  <2>9. ASSUME NEW c \in Clients, NEW p \in PageIds, FetchPage(c, p) PROVE Store!Next
    BY <2>0, <2>9, FetchIsPersist DEF Store!Next
  <2>10. ASSUME NEW c \in Clients, NEW v \in Data, WritePage(c, v) PROVE Store!Next
    BY <2>0, <2>10, WriteIsWrite DEF Store!Next
  <2>11. CASE UNCHANGED vars
    BY <2>11 DEF vars, InUse, Reads, OnFile, View, Latest, ImageBits
  <2>12. ASSUME NEW c \in Clients, DeleteHeld(c) PROVE Store!Next
    BY <2>0, <2>12, DeleteHeldOK, DeletesIsFree DEF Store!Next
  <2>13. ASSUME NEW p \in PageIds, DeleteUncached(p) PROVE Store!Next
    BY <2>0, <2>13, DeleteUncachedOK, DeletesIsFree DEF Store!Next
  <2> QED BY <2>1, <2>2, <2>3, <2>4, <2>5, <2>6, <2>7, <2>8, <2>9, <2>10, <2>11,
             <2>12, <2>13 DEF Next, NextWithDeletes
<1>3. EInv /\ [NextWithDeletes]_vars /\ [KeepingOpen]_vars => [Store!Next]_(Store!vars)
  BY <1>2 DEF Store!vars, InUse, Reads, OnFile
<1>4. EInv => [ClosePool => Store!Close]_vars
  BY CloseIsClose
<1> QED BY <1>1, <1>3, <1>4, InductiveExact, PTL
        DEF SpecWithDeletes, ReopenKeepsPages, KeepingOpen, ImplementsPageStore, Store!Spec

\* A client that deletes nothing loses none.
THEOREM PoolIsPageStore == Spec => ImplementsPageStore
BY CarefulToo, RestartsKeepPages, PoolIsPageStoreWithDeletes, PTL
=============================================================================
