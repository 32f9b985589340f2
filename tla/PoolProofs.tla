----------------------------- MODULE PoolProofs -----------------------------
(***************************************************************************)
(* Lemmas about the operators of PoolOps: each call keeps a pool           *)
(* consistent (PoolOK), for the number h[p] of pins on each page, and      *)
(* never drops contents the file does not have (CleanOK).                  *)
(***************************************************************************)
EXTENDS PoolOps, OpsProofs

\* h gives the number of pins on each page; each is on a page in the pool.
PinsAgree(s, h) ==
  /\ h \in [PageIds -> 0..PinMax]
  /\ \A p \in PageIds : s.dir[p] = NoFrame => h[p] = 0
  /\ \A p \in PageIds : s.dir[p] # NoFrame => s.frames[s.dir[p]].pin = h[p]
  /\ \A f \in Frames : s.frames[f].pid = NoPid => s.frames[f].pin = 0

PoolOK(Content, s, h) ==
  /\ s \in PoolType(Content)
  /\ DirInverse(s)
  /\ FramesPartitioned(s)
  /\ PinsAgree(s, h)

\* A page in the pool whose contents the file lacks is dirty or in W, the
\* pages with writes nobody has reported yet; those are pinned.
CleanOK(s, h, W) ==
  /\ \A p \in W : p \in PageIds /\ h[p] > 0
  /\ \A p \in PageIds :
       s.dir[p] # NoFrame => \/ s.frames[s.dir[p]].dirty
                             \/ s.frames[s.dir[p]].data = s.disk[p]
                             \/ p \in W

\* Every page reads the same in r as in s.
ReadsSame(r, s) == \A p \in PageIds : Latest(r, p) = Latest(s, p)

\* What a call that is about page id leaves alone, from pool s to pool r:
\* pinned pages stay in their frames, every other page reads the same, the
\* file gets nothing but latest contents, and no other page enters the pool.
Preserves(r, s, h, id) ==
  \A p \in PageIds :
    /\ h[p] > 0 => r.dir[p] = s.dir[p]
    /\ p # id => Latest(r, p) = Latest(s, p)
    /\ r.disk[p] \in {s.disk[p], Latest(s, p)}
    /\ r.dir[p] # NoFrame => p = id \/ s.dir[p] # NoFrame

\* The frame victim() picks leaves its list; it holds no page, or an unpinned one.
LEMMA VictimFacts ==
  ASSUME NEW Content, NEW s, NEW h, PoolOK(Content, s, h), CanVictim(s)
  PROVE  LET f == VictimFrame(s)  t == TakeVictim(s) IN
         /\ f \in Frames
         /\ t \in PoolType(Content)
         /\ t.dir = s.dir /\ t.frames = s.frames /\ t.disk = s.disk
         /\ t.head = s.head /\ t.next = s.next
         /\ Distinct(Frames, t.free) /\ Distinct(Frames, t.lru)
         /\ ToSet(t.free) = ToSet(s.free) \ {f}
         /\ ToSet(t.lru) = ToSet(s.lru) \ {f}
         /\ s.frames[f].pid # NoPid => s.frames[f].pin = 0
<1> DEFINE f == VictimFrame(s)
           t == TakeVictim(s)
<1>1. /\ Distinct(Frames, s.free) /\ Distinct(Frames, s.lru)
      /\ \A g \in Frames : /\ g \in ToSet(s.free) <=> s.frames[g].pid = NoPid
                           /\ g \in ToSet(s.lru) <=> /\ s.frames[g].pid # NoPid
                                                     /\ s.frames[g].pin = 0
  BY DEF PoolOK, PoolType, FramesPartitioned, Distinct
<1>2. CASE s.free # <<>>
  <2>1. /\ f = Last(s.free) /\ t.free = Front(s.free) /\ t.lru = s.lru
        /\ t.dir = s.dir /\ t.frames = s.frames /\ t.disk = s.disk
        /\ t.head = s.head /\ t.next = s.next
    BY <1>2 DEF VictimFrame, TakeVictim, PoolOK, PoolType
  <2>2. /\ Distinct(Frames, t.free) /\ f \in ToSet(s.free) /\ f \in Frames
        /\ ToSet(t.free) = ToSet(s.free) \ {f}
    BY <1>1, <1>2, <2>1, FrontFacts
  <2> HIDE DEF f, t
  <2>3. f \notin ToSet(s.lru)
    BY <1>1, <2>2
  <2>4. t \in PoolType(Content)
    BY <1>2, <2>2 DEF t, TakeVictim, PoolOK, PoolType, Distinct
  <2> QED BY <1>1, <2>1, <2>2, <2>3, <2>4 DEF f, t
<1>3. CASE s.free = <<>>
  <2>1. /\ f = Last(s.lru) /\ t.lru = Front(s.lru) /\ t.free = s.free
        /\ t.dir = s.dir /\ t.frames = s.frames /\ t.disk = s.disk
        /\ t.head = s.head /\ t.next = s.next
    BY <1>3 DEF VictimFrame, TakeVictim, PoolOK, PoolType, LruVictim, LruAfterVictim
  <2>2. /\ Distinct(Frames, t.lru) /\ f \in ToSet(s.lru) /\ f \in Frames
        /\ ToSet(t.lru) = ToSet(s.lru) \ {f}
    BY <1>1, <1>3, <2>1, FrontFacts DEF CanVictim
  <2> HIDE DEF f, t
  <2>3. f \notin ToSet(s.free)
    BY <1>1, <2>2
  <2>4. t \in PoolType(Content)
    BY <1>3, <2>2 DEF t, TakeVictim, LruAfterVictim, PoolOK, PoolType, Distinct
  <2> QED BY <1>1, <2>1, <2>2, <2>3, <2>4 DEF f, t
<1> QED BY <1>2, <1>3

\* flush_page writes one page of the file and touches nothing else.
LEMMA FlushFacts ==
  ASSUME NEW Content, NEW s, NEW h, PoolOK(Content, s, h), NEW id
  PROVE  LET t == FlushPage(s, id) IN
         /\ t = [s EXCEPT !.disk = t.disk]
         /\ t.disk \in [PageIds -> Content]
         /\ \A q \in PageIds : t.disk[q] =
              IF q = id /\ s.dir[q] # NoFrame THEN s.frames[s.dir[q]].data ELSE s.disk[q]
<1>1. s.disk \in [PageIds -> Content] /\ s.dir \in [PageIds -> Frames \cup {NoFrame}]
      /\ \A f \in Frames : s.frames[f].data \in Content
  BY DEF PoolOK, PoolType
<1>2. FlushPage(s, id) = [s EXCEPT !.disk = [q \in PageIds |->
        IF q = id /\ s.dir[q] # NoFrame THEN s.frames[s.dir[q]].data ELSE s.disk[q]]]
  BY DEF FlushPage
<1> QED BY <1>1, <1>2 DEF PoolOK, PoolType

\* The pool r is the pool s after its victim was given to page id with the
\* contents and flags nf: the common part of fetch and new_page.
Replaced(r, s, id, nf) ==
  LET f == VictimFrame(s)
      old == s.frames[f]
  IN  /\ r.dir = [q \in PageIds |-> IF q = id THEN f
                                    ELSE IF q = old.pid THEN NoFrame ELSE s.dir[q]]
      /\ r.frames = [s.frames EXCEPT ![f] = nf]
      /\ r.free = TakeVictim(s).free /\ r.lru = TakeVictim(s).lru
      /\ r.disk = IF old.dirty THEN FlushPage(s, old.pid).disk ELSE s.disk

LEMMA CorrespondFacts ==
  ASSUME NEW Content, Zero \in Content,
         NEW s, NEW h, PoolOK(Content, s, h), CanVictim(s), NEW id \in PageIds,
         NEW u \in PoolType(Content),
         u.dir = s.dir, u.frames = s.frames, u.disk = s.disk,
         u.free = TakeVictim(s).free, u.lru = TakeVictim(s).lru
  PROVE  LET c == Correspond(u, id, VictimFrame(s)) IN
         /\ c \in PoolType(Content)
         /\ Replaced(c, s, id, ClearedFrame(id))
         /\ c.head = u.head /\ c.next = u.next
<1> DEFINE f == VictimFrame(s)
           c == Correspond(u, id, f)
           e == ClearedFrame(id)
           disk == IF s.frames[f].dirty THEN FlushPage(u, s.frames[f].pid).disk
                                        ELSE u.disk
           dir == [q \in PageIds |-> IF q = id THEN f
                                    ELSE IF q = s.frames[f].pid THEN NoFrame
                                    ELSE s.dir[q]]
<1>1. f \in Frames
  BY VictimFacts
<1>2. \A id2 : FlushPage(u, id2).disk = FlushPage(s, id2).disk
  <2>1. SUFFICES ASSUME NEW id2 PROVE FlushPage(u, id2).disk = FlushPage(s, id2).disk
    OBVIOUS
  <2>2. FlushPage(s, id2).disk = [q \in PageIds |->
          IF q = id2 /\ s.dir[q] # NoFrame THEN s.frames[s.dir[q]].data ELSE s.disk[q]]
    BY DEF FlushPage, PoolOK, PoolType
  <2>3. FlushPage(u, id2).disk = [q \in PageIds |->
          IF q = id2 /\ s.dir[q] # NoFrame THEN s.frames[s.dir[q]].data ELSE s.disk[q]]
    BY DEF FlushPage, PoolType
  <2> QED BY <2>2, <2>3
<1>3. FlushPage(s, s.frames[f].pid).disk \in [PageIds -> Content]
  BY FlushFacts
<1>4. /\ disk = (IF s.frames[f].dirty THEN FlushPage(s, s.frames[f].pid).disk ELSE s.disk)
      /\ disk \in [PageIds -> Content]
  BY <1>2, <1>3 DEF PoolOK, PoolType
<1>5. e \in [pid : PageIds \cup {NoPid}, pin : 0..PinMax, dirty : BOOLEAN, data : Content]
  <2>1. 0 \in 0..PinMax
    BY PoolAssumption
  <2> QED BY <2>1 DEF ClearedFrame
<1>6. c = [u EXCEPT !.disk = disk, !.dir = dir, !.frames[f] = e]
  BY DEF Correspond
<1>7. dir \in [PageIds -> Frames \cup {NoFrame}]
  BY <1>1 DEF PoolOK, PoolType
<1>8. u.frames \in [Frames -> [pid : PageIds \cup {NoPid}, pin : 0..PinMax,
                              dirty : BOOLEAN, data : Content]]
  BY DEF PoolType
<1> HIDE DEF c, e, disk, dir, f
<1>9. c \in PoolType(Content)
  BY <1>1, <1>4, <1>5, <1>6, <1>7, <1>8 DEF PoolType
<1>10. /\ c.disk = disk /\ c.dir = dir /\ c.frames = [s.frames EXCEPT ![f] = e]
       /\ c.free = u.free /\ c.lru = u.lru
       /\ c.head = u.head /\ c.next = u.next
  BY <1>6 DEF PoolType
<1>11. Replaced(c, s, id, e)
  BY <1>4, <1>10 DEF Replaced, f, dir
<1> QED BY <1>9, <1>10, <1>11 DEF c, e, f

\* A fetch that misses.
LEMMA FetchFromDiskFacts ==
  ASSUME NEW Content, Zero \in Content,
         NEW s, NEW h, PoolOK(Content, s, h), CanVictim(s), NEW id \in PageIds
  PROVE  LET r == FetchFromDisk(s, id) IN
         /\ r \in PoolType(Content)
         /\ Replaced(r, s, id, [pid |-> id, pin |-> 1, dirty |-> FALSE, data |-> r.disk[id]])
         /\ r.head = s.head /\ r.next = s.next
<1> DEFINE f == VictimFrame(s)
           c == Correspond(TakeVictim(s), id, f)
           nf == [pid |-> id, pin |-> 1, dirty |-> FALSE, data |-> c.disk[id]]
           r == FetchFromDisk(s, id)
<1>1. /\ c \in PoolType(Content)
      /\ Replaced(c, s, id, ClearedFrame(id))
      /\ c.head = s.head /\ c.next = s.next
  BY VictimFacts, CorrespondFacts
<1>2. f \in Frames
  BY VictimFacts
<1>3. r = [c EXCEPT !.frames[f] = nf]
  BY DEF FetchFromDisk, ReadPage
<1>4. c.frames = [s.frames EXCEPT ![f] = ClearedFrame(id)]
  BY <1>1 DEF Replaced
<1>5. s.frames = [g \in Frames |-> s.frames[g]] /\ c.frames = [g \in Frames |-> c.frames[g]]
  BY <1>1 DEF PoolOK, PoolType
<1>6. nf \in [pid : PageIds \cup {NoPid}, pin : 0..PinMax, dirty : BOOLEAN, data : Content]
  BY <1>1, PoolAssumption DEF PoolType
<1> HIDE DEF c, r, nf, f
<1>7. r \in PoolType(Content)
  BY <1>1, <1>2, <1>3, <1>6 DEF PoolType
<1>8. /\ r.dir = c.dir /\ r.disk = c.disk /\ r.free = c.free /\ r.lru = c.lru
      /\ r.head = c.head /\ r.next = c.next
      /\ r.frames = [c.frames EXCEPT ![f] = nf]
  BY <1>1, <1>3 DEF PoolType
<1>9. r.frames = [s.frames EXCEPT ![f] = nf]
  BY <1>2, <1>4, <1>5, <1>8
<1>10. Replaced(r, s, id, nf)
  BY <1>1, <1>8, <1>9 DEF Replaced, f
<1> QED BY <1>1, <1>7, <1>8, <1>10 DEF nf, r

\* A frame changes its page: the pool stays consistent, with one pin on the
\* new page; pinned pages keep their frames; no contents are lost.
LEMMA ReplacedOK ==
  ASSUME NEW Content, NEW s, NEW h, PoolOK(Content, s, h), CanVictim(s),
         NEW id \in PageIds, s.dir[id] = NoFrame,
         NEW nf, nf.pid = id, nf.pin = 1,
         nf \in [pid : PageIds \cup {NoPid}, pin : 0..PinMax, dirty : BOOLEAN, data : Content],
         NEW r \in PoolType(Content), Replaced(r, s, id, nf),
         NEW W, CleanOK(s, h, W)
  PROVE  /\ PoolOK(Content, r, [h EXCEPT ![id] = 1])
         /\ Preserves(r, s, h, id)
         /\ r.dir[id] # NoFrame /\ Latest(r, id) = nf.data
         /\ r.disk[id] = s.disk[id]
         /\ nf.dirty \/ nf.data = r.disk[id] => CleanOK(r, [h EXCEPT ![id] = 1], W)
<1> DEFINE f == VictimFrame(s)
           old == s.frames[f]
<1>1. /\ f \in Frames
      /\ Distinct(Frames, r.free) /\ Distinct(Frames, r.lru)
      /\ ToSet(r.free) = ToSet(s.free) \ {f}
      /\ ToSet(r.lru) = ToSet(s.lru) \ {f}
      /\ old.pid # NoPid => old.pin = 0
  BY VictimFacts DEF Replaced
<1>2. /\ s.disk \in [PageIds -> Content] /\ s.dir \in [PageIds -> Frames \cup {NoFrame}]
      /\ s.frames \in [Frames -> [pid : PageIds \cup {NoPid}, pin : 0..PinMax,
                                  dirty : BOOLEAN, data : Content]]
      /\ h \in [PageIds -> 0..PinMax]
      /\ NoFrame \notin Frames /\ NoPid \notin PageIds
      /\ 1 \in 0..PinMax
  <2>1. NoFrame \notin Frames /\ NoPid \notin PageIds /\ 1 \in 0..PinMax
    BY PoolAssumption DEF Frames, PageIds, NoFrame, NoPid
  <2> QED BY <2>1 DEF PoolOK, PoolType, PinsAgree
<1>3. /\ r.disk \in [PageIds -> Content]
      /\ \A q \in PageIds : r.disk[q] =
           IF old.dirty /\ q = old.pid /\ s.dir[q] # NoFrame
           THEN s.frames[s.dir[q]].data ELSE s.disk[q]
  <2>1. CASE old.dirty
    BY <2>1, FlushFacts DEF Replaced
  <2>2. CASE ~old.dirty
    BY <1>2, <2>2 DEF Replaced
  <2> QED BY <2>1, <2>2
<1>4. /\ r.dir = [q \in PageIds |-> IF q = id THEN f
                                   ELSE IF q = old.pid THEN NoFrame ELSE s.dir[q]]
      /\ r.frames = [s.frames EXCEPT ![f] = nf]
  BY DEF Replaced
<1> HIDE DEF f, old
<1>5. /\ \A p \in PageIds : s.dir[p] # NoFrame => s.frames[s.dir[p]].pid = p
      /\ \A g \in Frames : s.frames[g].pid # NoPid => s.dir[s.frames[g].pid] = g
      /\ \A g \in Frames : /\ g \in ToSet(s.free) <=> s.frames[g].pid = NoPid
                           /\ g \in ToSet(s.lru) <=> /\ s.frames[g].pid # NoPid
                                                     /\ s.frames[g].pin = 0
      /\ \A p \in PageIds : s.dir[p] = NoFrame => h[p] = 0
      /\ \A p \in PageIds : s.dir[p] # NoFrame => s.frames[s.dir[p]].pin = h[p]
      /\ \A g \in Frames : s.frames[g].pid = NoPid => s.frames[g].pin = 0
  BY DEF PoolOK, DirInverse, FramesPartitioned, PinsAgree
<1>6. /\ r.dir \in [PageIds -> Frames \cup {NoFrame}]
      /\ r.frames \in [Frames -> [pid : PageIds \cup {NoPid}, pin : 0..PinMax,
                                  dirty : BOOLEAN, data : Content]]
  BY <1>1, <1>2, <1>4
<1>7. old = s.frames[f] /\ old.pid \in PageIds \cup {NoPid}
  BY <1>1, <1>2 DEF old
<1>8. \A g \in Frames : r.frames[g] = IF g = f THEN nf ELSE s.frames[g]
  BY <1>1, <1>2, <1>4
<1>10. DirInverse(r)
  <2>1. \A p \in PageIds : r.dir[p] # NoFrame => r.frames[r.dir[p]].pid = p
    BY <1>1, <1>2, <1>4, <1>5, <1>7, <1>8
  <2>2. \A g \in Frames : r.frames[g].pid # NoPid => r.dir[r.frames[g].pid] = g
    BY <1>1, <1>2, <1>4, <1>5, <1>7, <1>8
  <2> QED BY <2>1, <2>2 DEF DirInverse
<1>11. FramesPartitioned(r)
  <2>1. IsInjective(r.free) /\ IsInjective(r.lru)
    BY <1>1 DEF Distinct
  <2>2. \A g \in Frames : /\ g \in ToSet(r.free) <=> r.frames[g].pid = NoPid
                          /\ g \in ToSet(r.lru) <=> /\ r.frames[g].pid # NoPid
                                                    /\ r.frames[g].pin = 0
    BY <1>1, <1>2, <1>5, <1>8
  <2> QED BY <2>1, <2>2 DEF FramesPartitioned
<1>12. \A p \in PageIds : h[p] > 0 => r.dir[p] = s.dir[p]
  BY <1>1, <1>2, <1>4, <1>5, <1>7
<1>13. PinsAgree(r, [h EXCEPT ![id] = 1])
  <2>1. \A p \in PageIds : r.dir[p] = NoFrame => [h EXCEPT ![id] = 1][p] = 0
    BY <1>1, <1>2, <1>4, <1>5, <1>7
  <2>2. \A p \in PageIds : r.dir[p] # NoFrame =>
          r.frames[r.dir[p]].pin = [h EXCEPT ![id] = 1][p]
    BY <1>1, <1>2, <1>4, <1>5, <1>7, <1>8
  <2>3. \A g \in Frames : r.frames[g].pid = NoPid => r.frames[g].pin = 0
    BY <1>1, <1>2, <1>5, <1>8
  <2> QED BY <1>2, <2>1, <2>2, <2>3 DEF PinsAgree
<1>14. \A p \in PageIds : r.dir[p] # NoFrame => p = id \/ s.dir[p] # NoFrame
  BY <1>4
<1>15. \A p \in PageIds : r.disk[p] \in {s.disk[p], Latest(s, p)}
  BY <1>3 DEF Latest
<1>16. ASSUME NEW p \in PageIds, p # id, r.dir[p] # NoFrame
       PROVE  /\ s.dir[p] # NoFrame /\ r.dir[p] = s.dir[p] /\ p # old.pid
              /\ r.frames[r.dir[p]] = s.frames[s.dir[p]] /\ r.disk[p] = s.disk[p]
  <2>1. s.dir[p] # NoFrame /\ r.dir[p] = s.dir[p] /\ s.dir[p] # f /\ p # old.pid
    BY <1>1, <1>2, <1>4, <1>5, <1>7, <1>16
  <2> QED BY <1>2, <1>3, <1>8, <2>1
<1>17. ASSUME NEW p \in PageIds, p # id PROVE Latest(r, p) = Latest(s, p)
  <2>1. CASE r.dir[p] # NoFrame
    BY <1>16, <1>17, <2>1 DEF Latest
  <2>2. CASE r.dir[p] = NoFrame /\ s.dir[p] = NoFrame
    BY <1>3, <2>2 DEF Latest
  <2>3. CASE r.dir[p] = NoFrame /\ s.dir[p] # NoFrame
    <3>1. p = old.pid /\ s.dir[p] = f /\ h[p] = 0
      BY <1>1, <1>2, <1>4, <1>5, <1>7, <1>17, <2>3
    <3>2. old.dirty \/ old.data = s.disk[p]
      BY <1>7, <2>3, <3>1 DEF CleanOK
    <3>3. r.disk[p] = old.data
      BY <1>3, <1>7, <2>3, <3>1, <3>2
    <3> QED BY <1>7, <2>3, <3>1, <3>3 DEF Latest
  <2> QED BY <2>1, <2>2, <2>3
<1>18. Preserves(r, s, h, id)
  BY <1>12, <1>14, <1>15, <1>17 DEF Preserves
<1>19. r.dir[id] # NoFrame /\ Latest(r, id) = nf.data /\ r.disk[id] = s.disk[id]
  BY <1>1, <1>2, <1>3, <1>4, <1>8 DEF Latest
<1>20. nf.dirty \/ nf.data = r.disk[id] => CleanOK(r, [h EXCEPT ![id] = 1], W)
  <2>1. SUFFICES ASSUME nf.dirty \/ nf.data = r.disk[id]
                 PROVE  CleanOK(r, [h EXCEPT ![id] = 1], W)
    OBVIOUS
  <2>2. \A p \in W : p \in PageIds /\ [h EXCEPT ![id] = 1][p] > 0
    BY <1>2 DEF CleanOK
  <2>3. ASSUME NEW p \in PageIds, r.dir[p] # NoFrame
        PROVE  \/ r.frames[r.dir[p]].dirty
               \/ r.frames[r.dir[p]].data = r.disk[p]
               \/ p \in W
    <3>1. CASE p = id
      BY <1>1, <1>4, <1>8, <2>1, <3>1
    <3>2. CASE p # id
      BY <1>16, <2>3, <3>2 DEF CleanOK
    <3> QED BY <3>1, <3>2
  <2> QED BY <2>2, <2>3 DEF CleanOK
<1> QED BY <1>10, <1>11, <1>13, <1>18, <1>19, <1>20 DEF PoolOK

\* The pool r is the pool s with a new pin count and dirty flag for page id,
\* whose frame is in the replacer exactly when it is unpinned.
Repinned(Content, r, s, id, pin, dirty) ==
  /\ r \in PoolType(Content)
  /\ r.dir = s.dir /\ r.free = s.free /\ r.disk = s.disk
  /\ r.frames = [s.frames EXCEPT ![s.dir[id]] =
       [pid |-> id, pin |-> pin, dirty |-> dirty, data |-> s.frames[s.dir[id]].data]]
  /\ Distinct(Frames, r.lru)
  /\ ToSet(r.lru) = IF pin = 0 THEN ToSet(s.lru) \cup {s.dir[id]}
                               ELSE ToSet(s.lru) \ {s.dir[id]}

\* V may replace W as the pages with unreported writes once page id has the
\* given dirty flag: only id may be missing, and only if it is dirty now.
Reported(s, W, V, k, id, dirty) ==
  /\ s.frames[s.dir[id]].dirty => dirty
  /\ \A p \in V : p \in PageIds /\ k[p] > 0
  /\ \A p \in W : p \in V \/ (p = id /\ dirty)

\* The pin counts k are h with pin pins on page id.
Repins(k, h, id, pin) == k = [h EXCEPT ![id] = pin]

LEMMA RepinnedOK ==
  ASSUME NEW Content, NEW s, NEW h, PoolOK(Content, s, h),
         NEW id \in PageIds, s.dir[id] # NoFrame,
         NEW W, CleanOK(s, h, W), NEW V,
         NEW pin \in 0..PinMax, NEW dirty \in BOOLEAN, NEW r,
         Repinned(Content, r, s, id, pin, dirty), NEW k, Repins(k, h, id, pin),
         Reported(s, W, V, k, id, dirty)
  PROVE  /\ PoolOK(Content, r, k)
         /\ CleanOK(r, k, V)
         /\ ReadsSame(r, s)
<1>0. k = [h EXCEPT ![id] = pin]
  BY DEF Repins
<1> DEFINE f == s.dir[id]
           nf == [pid |-> id, pin |-> pin, dirty |-> dirty, data |-> s.frames[f].data]
<1>10. /\ r \in PoolType(Content)
       /\ r.dir = s.dir /\ r.free = s.free /\ r.disk = s.disk
       /\ r.frames = [s.frames EXCEPT ![f] = nf]
       /\ Distinct(Frames, r.lru)
       /\ ToSet(r.lru) = IF pin = 0 THEN ToSet(s.lru) \cup {f} ELSE ToSet(s.lru) \ {f}
  BY DEF Repinned
<1>1. /\ s.disk \in [PageIds -> Content] /\ s.dir \in [PageIds -> Frames \cup {NoFrame}]
      /\ s.frames \in [Frames -> [pid : PageIds \cup {NoPid}, pin : 0..PinMax,
                                  dirty : BOOLEAN, data : Content]]
      /\ h \in [PageIds -> 0..PinMax]
      /\ NoFrame \notin Frames /\ NoPid \notin PageIds
  <2>1. NoFrame \notin Frames /\ NoPid \notin PageIds
    BY PoolAssumption DEF Frames, PageIds, NoFrame, NoPid
  <2> QED BY <2>1 DEF PoolOK, PoolType, PinsAgree
<1>2. /\ \A p \in PageIds : s.dir[p] # NoFrame => s.frames[s.dir[p]].pid = p
      /\ \A g \in Frames : s.frames[g].pid # NoPid => s.dir[s.frames[g].pid] = g
      /\ \A g \in Frames : /\ g \in ToSet(s.free) <=> s.frames[g].pid = NoPid
                           /\ g \in ToSet(s.lru) <=> /\ s.frames[g].pid # NoPid
                                                     /\ s.frames[g].pin = 0
      /\ \A p \in PageIds : s.dir[p] = NoFrame => h[p] = 0
      /\ \A p \in PageIds : s.dir[p] # NoFrame => s.frames[s.dir[p]].pin = h[p]
      /\ \A g \in Frames : s.frames[g].pid = NoPid => s.frames[g].pin = 0
      /\ IsInjective(s.free)
  BY DEF PoolOK, DirInverse, FramesPartitioned, PinsAgree
<1>3. f \in Frames /\ s.frames[f].pid = id
  BY <1>1, <1>2
<1> HIDE DEF f
<1>4. \A g \in Frames : r.frames[g] = IF g = f THEN nf ELSE s.frames[g]
  BY <1>10, <1>1, <1>3
<1>5. DirInverse(r)
  <2>1. \A g \in Frames : r.frames[g].pid = s.frames[g].pid
    BY <1>3, <1>4
  <2>2. r.dir = s.dir /\ \A p \in PageIds : s.dir[p] # NoFrame => s.dir[p] \in Frames
    BY <1>10, <1>1
  <2> QED BY ONLY <1>2, <2>1, <2>2 DEF DirInverse
<1>6. FramesPartitioned(r)
  <2>1. \A g \in Frames : g \in ToSet(r.lru) <=> r.frames[g].pid # NoPid /\ r.frames[g].pin = 0
    <3>1. CASE pin = 0
      BY <1>10, <1>1, <1>2, <1>3, <1>4, <3>1 DEF f
    <3>2. CASE pin # 0
      BY <1>10, <1>1, <1>2, <1>3, <1>4, <3>2 DEF f
    <3> QED BY <3>1, <3>2
  <2>2. \A g \in Frames : g \in ToSet(r.free) <=> r.frames[g].pid = NoPid
    BY <1>10, <1>1, <1>2, <1>3, <1>4
  <2> QED BY <1>10, <1>2, <2>1, <2>2 DEF FramesPartitioned, Distinct
<1>7. PinsAgree(r, k)
  <2>1. \A p \in PageIds : r.dir[p] = NoFrame => k[p] = 0
    BY <1>0, <1>10, <1>1, <1>2
  <2>2. \A p \in PageIds : r.dir[p] # NoFrame =>
          r.frames[r.dir[p]].pin = k[p]
    BY <1>0, <1>10, <1>1, <1>2, <1>3, <1>4 DEF f
  <2>3. \A g \in Frames : r.frames[g].pid = NoPid => r.frames[g].pin = 0
    BY <1>1, <1>2, <1>3, <1>4
  <2> QED BY <1>0, <1>10, <1>1, <2>1, <2>2, <2>3 DEF PinsAgree
<1>8. ReadsSame(r, s)
  BY <1>10, <1>1, <1>2, <1>3, <1>4 DEF ReadsSame, Latest, f
<1>9. CleanOK(r, k, V)
  <2>1. ASSUME NEW p \in PageIds, r.dir[p] # NoFrame
        PROVE  \/ r.frames[r.dir[p]].dirty
               \/ r.frames[r.dir[p]].data = r.disk[p]
               \/ p \in V
    <3>1. CASE p = id
      <4>1. /\ r.dir[p] = f /\ r.disk = s.disk
            /\ r.frames[f].dirty = dirty /\ r.frames[f].data = s.frames[f].data
        BY <1>10, <1>3, <1>4, <3>1 DEF f
      <4>2. s.frames[f].dirty \/ s.frames[f].data = s.disk[id] \/ id \in W
        BY DEF CleanOK, f
      <4>3. /\ s.frames[f].dirty => dirty
            /\ id \in W => id \in V \/ dirty
        BY DEF Reported, f
      <4> QED BY ONLY <3>1, <4>1, <4>2, <4>3
    <3>2. CASE p # id
      <4>1. s.dir[p] # f /\ s.dir[p] \in Frames
        BY <1>10, <1>1, <1>2, <1>3, <2>1, <3>2 DEF f
      <4> QED BY <1>10, <1>4, <2>1, <3>2, <4>1 DEF CleanOK, Reported, f
    <3> QED BY <3>1, <3>2
  <2>2. \A p \in V : p \in PageIds /\ k[p] > 0
    BY DEF Reported
  <2> QED BY <2>1, <2>2 DEF CleanOK
<1> QED BY <1>10, <1>5, <1>6, <1>7, <1>8, <1>9 DEF PoolOK

\* The pool r is what fetch(id) leaves of s: one more pin on the page, which is
\* in the pool, and every page reads as before.
Fetched(Content, r, s, h, W, id) ==
  /\ PoolOK(Content, r, [h EXCEPT ![id] = @ + 1])
  /\ CleanOK(r, [h EXCEPT ![id] = @ + 1], W)
  /\ Preserves(r, s, h, id)
  /\ Latest(r, id) = Latest(s, id)
  /\ r.dir[id] # NoFrame
  /\ r.head = s.head /\ r.next = s.next

LEMMA FetchFacts ==
  ASSUME NEW Content, Zero \in Content,
         NEW s, NEW h, PoolOK(Content, s, h), NEW W, CleanOK(s, h, W),
         NEW id \in PageIds, FetchOK(s, id), h[id] < PinMax
  PROVE  Fetched(Content, Fetch(s, id), s, h, W, id)
<1> DEFINE f == s.dir[id]
           r == Fetch(s, id)
<1>0. h \in [PageIds -> 0..PinMax] /\ PinMax \in Nat
  BY PoolAssumption DEF PoolOK, PinsAgree
<1>1. CASE f # NoFrame
  <2> DEFINE nf == [pid |-> id, pin |-> h[id] + 1, dirty |-> s.frames[f].dirty,
                    data |-> s.frames[f].data]
  <2>1. r = [s EXCEPT !.frames[f].pin = Inc(@), !.lru = LruRemove(@, f)]
    BY <1>1 DEF Fetch, FetchCached
  <2>2. /\ f \in Frames
        /\ s.frames[f] \in [pid : PageIds \cup {NoPid}, pin : 0..PinMax,
                            dirty : BOOLEAN, data : Content]
        /\ s.frames[f].pid = id /\ s.frames[f].pin = h[id]
    BY <1>1 DEF PoolOK, PoolType, DirInverse, PinsAgree
  <2>3. Inc(h[id]) = h[id] + 1 /\ h[id] + 1 \in 0..PinMax /\ h[id] + 1 # 0
    BY <1>0 DEF Inc
  <2>4. [s.frames[f] EXCEPT !.pin = Inc(@)] = nf
    BY <2>2, <2>3
  <2>5. Distinct(Frames, s.lru)
    BY DEF PoolOK, PoolType, FramesPartitioned, Distinct
  <2>6. /\ Distinct(Frames, LruRemove(s.lru, f))
        /\ ToSet(LruRemove(s.lru, f)) = ToSet(s.lru) \ {f}
    BY <2>5, LruRemoveFacts
  <2>7. nf \in [pid : PageIds \cup {NoPid}, pin : 0..PinMax, dirty : BOOLEAN, data : Content]
    BY <2>2, <2>3
  <2>8. /\ r.dir = s.dir /\ r.free = s.free /\ r.disk = s.disk
        /\ r.head = s.head /\ r.next = s.next
        /\ r.lru = LruRemove(s.lru, f)
        /\ r.frames = [s.frames EXCEPT ![f] = nf]
        /\ r \in PoolType(Content)
    <3> HIDE DEF f, nf, r
    <3>1. r = [s EXCEPT !.frames[f] = nf, !.lru = LruRemove(s.lru, f)]
      BY <2>1, <2>4
    <3> QED BY <2>2, <2>6, <2>7, <3>1 DEF PoolOK, PoolType, Distinct
  <2>9. \A p \in W : p \in PageIds /\ [h EXCEPT ![id] = h[id] + 1][p] > 0
    BY <1>0 DEF CleanOK
  <2> HIDE DEF r
  <2>10. /\ PoolOK(Content, r, [h EXCEPT ![id] = h[id] + 1])
         /\ CleanOK(r, [h EXCEPT ![id] = h[id] + 1], W)
         /\ ReadsSame(r, s)
    <3> DEFINE pin == h[id] + 1
               dirty == s.frames[f].dirty
    <3>1. pin \in 0..PinMax /\ pin # 0 /\ dirty \in BOOLEAN
      BY <2>2, <2>3
    <3>2. Repinned(Content, r, s, id, pin, dirty)
      BY <2>6, <2>8, <3>1 DEF Repinned
    <3>3. s.dir[id] # NoFrame
      BY <1>1
    <3>6. Reported(s, W, W, [h EXCEPT ![id] = pin], id, dirty)
      BY <2>9 DEF Reported
    <3> DEFINE k == [h EXCEPT ![id] = pin]
    <3>7. Reported(s, W, W, k, id, dirty) /\ Repins(k, h, id, pin)
      BY <3>6 DEF Repins
    <3> HIDE DEF pin, dirty, f, nf, k
    <3>8. PoolOK(Content, r, k) /\ CleanOK(r, k, W) /\ ReadsSame(r, s)
      BY <3>1, <3>2, <3>3, <3>7, RepinnedOK
    <3> QED BY <3>8 DEF pin, k
  <2>11. Preserves(r, s, h, id)
    BY <2>8, <2>10 DEF Preserves, ReadsSame
  <2> QED BY <1>0, <1>1, <2>8, <2>10, <2>11 DEF r, ReadsSame, Fetched
<1>2. CASE f = NoFrame
  <2> DEFINE nf == [pid |-> id, pin |-> 1, dirty |-> FALSE, data |-> r.disk[id]]
  <2>1. r = FetchFromDisk(s, id) /\ CanVictim(s) /\ h[id] = 0
    BY <1>2 DEF Fetch, FetchOK, PoolOK, PinsAgree
  <2>2. /\ r \in PoolType(Content) /\ Replaced(r, s, id, nf)
        /\ r.head = s.head /\ r.next = s.next
    BY <2>1, FetchFromDiskFacts
  <2> HIDE DEF r
  <2>3. nf \in [pid : PageIds \cup {NoPid}, pin : 0..PinMax, dirty : BOOLEAN, data : Content]
    BY <2>2, PoolAssumption DEF PoolType
  <2>4. /\ PoolOK(Content, r, [h EXCEPT ![id] = 1])
        /\ Preserves(r, s, h, id)
        /\ r.dir[id] # NoFrame /\ Latest(r, id) = nf.data
        /\ r.disk[id] = s.disk[id]
        /\ CleanOK(r, [h EXCEPT ![id] = 1], W)
    <3>1. nf.pid = id /\ nf.pin = 1 /\ nf.data = r.disk[id]
      OBVIOUS
    <3> HIDE DEF nf
    <3> QED BY <1>2, <2>1, <2>2, <2>3, <3>1, ReplacedOK
  <2>5. Latest(r, id) = Latest(s, id)
    BY <1>2, <2>4 DEF Latest
  <2> QED BY <2>1, <2>2, <2>4, <2>5 DEF r, Fetched
<1> QED BY <1>1, <1>2

\* The pool r is what unpin(id) leaves of s: one pin less, nothing else changed,
\* and V the pages that still have unreported writes.
Unpinned(Content, r, s, h, id, V) ==
  /\ PoolOK(Content, r, [h EXCEPT ![id] = @ - 1])
  /\ CleanOK(r, [h EXCEPT ![id] = @ - 1], V)
  /\ ReadsSame(r, s)
  /\ r.dir = s.dir /\ r.disk = s.disk
  /\ r.head = s.head /\ r.next = s.next

\* The caller that unpins reports the writes to page id that W has and V has not.
ReportsRest(W, V, h, id, isDirty) ==
  /\ \A p \in V : p \in PageIds /\ [h EXCEPT ![id] = @ - 1][p] > 0
  /\ \A p \in W : p \in V \/ (p = id /\ isDirty)

LEMMA UnpinFacts ==
  ASSUME NEW Content, NEW s, NEW h, PoolOK(Content, s, h), NEW W, CleanOK(s, h, W),
         NEW id \in PageIds, h[id] > 0, NEW isDirty \in BOOLEAN, NEW V,
         ReportsRest(W, V, h, id, isDirty)
  PROVE  Unpinned(Content, Unpin(s, id, isDirty), s, h, id, V)
<1> DEFINE f == s.dir[id]
           r == Unpin(s, id, isDirty)
           pin == h[id] - 1
           dirty == s.frames[f].dirty \/ isDirty
           nf == [pid |-> id, pin |-> pin, dirty |-> dirty, data |-> s.frames[f].data]
           l == IF pin = 0 THEN LruPut(s.lru, f, NumFrames) ELSE s.lru
<1>0. h \in [PageIds -> 0..PinMax] /\ PinMax \in Nat
  BY PoolAssumption DEF PoolOK, PinsAgree
<1>1. /\ f # NoFrame /\ f \in Frames
      /\ s.frames[f] \in [pid : PageIds \cup {NoPid}, pin : 0..PinMax,
                          dirty : BOOLEAN, data : Content]
      /\ s.frames[f].pid = id /\ s.frames[f].pin = h[id]
  BY <1>0 DEF PoolOK, PoolType, DirInverse, PinsAgree
<1>2. Dec(s.frames[f].pin) = pin /\ pin \in 0..PinMax /\ dirty \in BOOLEAN
  BY <1>0, <1>1 DEF Dec
<1>3. /\ Distinct(Frames, s.lru) /\ f \notin ToSet(s.lru)
  <2>1. Distinct(Frames, s.lru)
    BY DEF PoolOK, PoolType, FramesPartitioned, Distinct
  <2>2. f \notin ToSet(s.lru)
    BY <1>0, <1>1 DEF PoolOK, FramesPartitioned
  <2> QED BY <2>1, <2>2
<1>4. /\ Distinct(Frames, l)
      /\ ToSet(l) = IF pin = 0 THEN ToSet(s.lru) \cup {f} ELSE ToSet(s.lru) \ {f}
  <2>1. CASE pin = 0
    BY <1>1, <1>3, <2>1, LruPutFacts, PoolAssumption DEF Frames
  <2>2. CASE pin # 0
    BY <1>3, <2>2
  <2> QED BY <2>1, <2>2
<1>5. r = [s EXCEPT !.frames[f] = nf, !.lru = l]
  BY <1>1, <1>2 DEF Unpin
<1>6. nf \in [pid : PageIds \cup {NoPid}, pin : 0..PinMax, dirty : BOOLEAN, data : Content]
  BY <1>1, <1>2
<1>7. /\ r.dir = s.dir /\ r.free = s.free /\ r.disk = s.disk
      /\ r.head = s.head /\ r.next = s.next /\ r.lru = l
      /\ r.frames = [s.frames EXCEPT ![f] = nf]
      /\ r \in PoolType(Content)
  <2> HIDE DEF f, nf, r, l
  <2> QED BY <1>1, <1>4, <1>5, <1>6 DEF PoolOK, PoolType, Distinct
<1> HIDE DEF r, l
<1>8. Repinned(Content, r, s, id, pin, dirty)
  BY <1>4, <1>7 DEF Repinned
<1>9. Reported(s, W, V, [h EXCEPT ![id] = pin], id, dirty)
  BY <1>2 DEF Reported, ReportsRest
<1>10. s.dir[id] # NoFrame
  BY <1>1
<1>11. /\ PoolOK(Content, r, [h EXCEPT ![id] = pin])
       /\ CleanOK(r, [h EXCEPT ![id] = pin], V)
       /\ ReadsSame(r, s)
  <2> DEFINE k == [h EXCEPT ![id] = pin]
  <2>1. Reported(s, W, V, k, id, dirty) /\ Repins(k, h, id, pin)
    BY <1>9 DEF Repins
  <2> HIDE DEF pin, dirty, f, nf, k
  <2>2. PoolOK(Content, r, k) /\ CleanOK(r, k, V) /\ ReadsSame(r, s)
    BY <1>2, <1>8, <1>10, <2>1, RepinnedOK
  <2> QED BY <2>2 DEF k
<1> QED BY <1>7, <1>11 DEF r, Unpinned

\* Flushing, and changes of the header or of next_page_id_, move no frame.
SameFrames(Content, r, s) ==
  /\ r \in PoolType(Content)
  /\ r.dir = s.dir /\ r.frames = s.frames /\ r.free = s.free /\ r.lru = s.lru
  /\ \A p \in PageIds : r.disk[p] \in {s.disk[p], Latest(s, p)}

LEMMA SameFramesOK ==
  ASSUME NEW Content, NEW s, NEW h, PoolOK(Content, s, h), NEW W, CleanOK(s, h, W),
         NEW r, SameFrames(Content, r, s)
  PROVE  /\ PoolOK(Content, r, h)
         /\ CleanOK(r, h, W)
         /\ ReadsSame(r, s)
<1>1. DirInverse(r) /\ FramesPartitioned(r) /\ PinsAgree(r, h)
  BY DEF PoolOK, DirInverse, FramesPartitioned, PinsAgree, SameFrames
<1>2. ReadsSame(r, s)
  BY DEF ReadsSame, Latest, SameFrames
<1>3. CleanOK(r, h, W)
  BY DEF CleanOK, Latest, SameFrames
<1> QED BY <1>1, <1>2, <1>3 DEF PoolOK, SameFrames

LEMMA FlushPageOK ==
  ASSUME NEW Content, NEW s, NEW h, PoolOK(Content, s, h), NEW id
  PROVE  LET r == FlushPage(s, id) IN
         /\ SameFrames(Content, r, s) /\ r.head = s.head /\ r.next = s.next
<1> DEFINE r == FlushPage(s, id)
<1>1. /\ r = [s EXCEPT !.disk = r.disk] /\ r.disk \in [PageIds -> Content]
      /\ \A p \in PageIds : r.disk[p] \in {s.disk[p], Latest(s, p)}
  BY FlushFacts DEF Latest
<1>2. s \in PoolType(Content)
  BY DEF PoolOK
<1> HIDE DEF r
<1>3. /\ r \in PoolType(Content)
      /\ r.dir = s.dir /\ r.frames = s.frames /\ r.free = s.free /\ r.lru = s.lru
      /\ r.head = s.head /\ r.next = s.next
  BY <1>1, <1>2 DEF PoolType
<1> QED BY <1>1, <1>3 DEF SameFrames, r

\* flush_all_page, or the part of it a crash lets happen.
LEMMA FlushPidsOK ==
  ASSUME NEW Content, NEW s, NEW h, PoolOK(Content, s, h), NEW P \in SUBSET DirtyPids(s)
  PROVE  LET r == FlushPids(s, P) IN
         /\ SameFrames(Content, r, s) /\ r.head = s.head /\ r.next = s.next
<1> DEFINE r == FlushPids(s, P)
           d == [q \in PageIds |-> IF q \in P THEN s.frames[s.dir[q]].data ELSE s.disk[q]]
<1>1. s \in PoolType(Content)
  BY DEF PoolOK
<1>2. r = [s EXCEPT !.disk = d]
  BY DEF FlushPids
<1>3. \A p \in P : s.dir[p] # NoFrame /\ p \in PageIds
  BY DEF DirtyPids
<1>4. d \in [PageIds -> Content]
  BY <1>1, <1>3 DEF PoolType
<1>5. \A p \in PageIds : d[p] \in {s.disk[p], Latest(s, p)}
  BY <1>3 DEF Latest
<1> HIDE DEF r, d
<1>6. /\ r \in PoolType(Content)
      /\ r.dir = s.dir /\ r.frames = s.frames /\ r.free = s.free /\ r.lru = s.lru
      /\ r.head = s.head /\ r.next = s.next /\ r.disk = d
  BY <1>1, <1>2, <1>4 DEF PoolType
<1> QED BY <1>5, <1>6 DEF SameFrames, r

\* The pool r is the pool s after the contents v were written in the frame of
\* page id, with the flag dirty.
Rewritten(Content, r, s, id, v, dirty) ==
  /\ r \in PoolType(Content)
  /\ r.dir = s.dir /\ r.free = s.free /\ r.lru = s.lru /\ r.disk = s.disk
  /\ r.frames = [s.frames EXCEPT ![s.dir[id]] =
       [pid |-> id, pin |-> s.frames[s.dir[id]].pin, dirty |-> dirty, data |-> v]]

\* In r page id reads v, and every other page reads as in s.
OnlyNow(r, s, id, v) ==
  /\ Latest(r, id) = v
  /\ \A p \in PageIds : p # id => Latest(r, p) = Latest(s, p)

\* A write needs the dirty flag, or a pin that its report will be made with.
RewriteLeaves(Content, r, s, h, W, id, v, dirty) ==
  /\ PoolOK(Content, r, h)
  /\ dirty = TRUE => CleanOK(r, h, W)
  /\ h[id] > 0 => CleanOK(r, h, W \cup {id})
  /\ OnlyNow(r, s, id, v)

LEMMA RewrittenOK ==
  ASSUME NEW Content, NEW s, NEW h, PoolOK(Content, s, h), NEW W, CleanOK(s, h, W),
         NEW id \in PageIds, s.dir[id] # NoFrame, NEW v, NEW dirty \in BOOLEAN,
         NEW r, Rewritten(Content, r, s, id, v, dirty)
  PROVE  RewriteLeaves(Content, r, s, h, W, id, v, dirty)
<1> DEFINE f == s.dir[id]
           nf == [pid |-> id, pin |-> s.frames[f].pin, dirty |-> dirty, data |-> v]
<1>1. /\ s.dir \in [PageIds -> Frames \cup {NoFrame}]
      /\ s.frames \in [Frames -> [pid : PageIds \cup {NoPid}, pin : 0..PinMax,
                                  dirty : BOOLEAN, data : Content]]
      /\ NoPid \notin PageIds
  <2>1. NoPid \notin PageIds
    BY PoolAssumption DEF PageIds, NoPid
  <2> QED BY <2>1 DEF PoolOK, PoolType
<1>2. /\ r.dir = s.dir /\ r.free = s.free /\ r.lru = s.lru /\ r.disk = s.disk
      /\ r.frames = [s.frames EXCEPT ![f] = nf] /\ r \in PoolType(Content)
  BY DEF Rewritten
<1>3. f \in Frames /\ s.frames[f].pid = id /\ f = s.dir[id]
  BY <1>1 DEF PoolOK, DirInverse
<1>4. \A g \in Frames : g # f => r.frames[g] = s.frames[g]
  BY <1>1, <1>2, <1>3
<1>5. r.frames[f] = nf /\ nf.pid = s.frames[f].pid /\ nf.pin = s.frames[f].pin
  BY <1>1, <1>2, <1>3
<1>6. \A g \in Frames : /\ r.frames[g].pid = s.frames[g].pid
                        /\ r.frames[g].pin = s.frames[g].pin
  BY <1>4, <1>5
<1>7. \A p \in PageIds : s.dir[p] # NoFrame /\ p # id =>
        s.dir[p] \in Frames /\ s.dir[p] # f
  BY <1>1, <1>3 DEF PoolOK, DirInverse
<1> HIDE DEF f, nf
<1>8. DirInverse(r) /\ FramesPartitioned(r) /\ PinsAgree(r, h)
  <2>1. DirInverse(r)
    BY <1>1, <1>2, <1>6 DEF PoolOK, DirInverse
  <2>2. FramesPartitioned(r)
    BY <1>2, <1>6 DEF PoolOK, FramesPartitioned
  <2>3. PinsAgree(r, h)
    BY <1>1, <1>2, <1>6 DEF PoolOK, PinsAgree
  <2> QED BY <2>1, <2>2, <2>3
<1>9. Latest(r, id) = v
  BY <1>1, <1>2, <1>3, <1>5 DEF Latest, nf
<1>10. \A p \in PageIds : p # id => Latest(r, p) = Latest(s, p)
  BY <1>1, <1>2, <1>4, <1>7 DEF Latest
<1>11. ASSUME NEW p \in PageIds, p # id, r.dir[p] # NoFrame
       PROVE  \/ r.frames[r.dir[p]].dirty
              \/ r.frames[r.dir[p]].data = r.disk[p]
              \/ p \in W
  <2>1. r.frames[r.dir[p]] = s.frames[s.dir[p]] /\ r.disk[p] = s.disk[p]
    BY <1>2, <1>4, <1>7, <1>11
  <2> QED BY <1>2, <1>11, <2>1 DEF CleanOK
<1>12. ASSUME dirty = TRUE PROVE CleanOK(r, h, W)
  <2>1. r.frames[r.dir[id]].dirty
    BY <1>2, <1>3, <1>5, <1>12 DEF nf
  <2> QED BY <1>11, <2>1 DEF CleanOK
<1>13. ASSUME h[id] > 0 PROVE CleanOK(r, h, W \cup {id})
  BY <1>11, <1>13 DEF CleanOK
<1> QED BY <1>2, <1>8, <1>9, <1>10, <1>12, <1>13 DEF PoolOK, OnlyNow, RewriteLeaves

\* A write through a Page* to the frame of page p.
LEMMA PointerWrite ==
  ASSUME NEW Content, NEW s, NEW h, PoolOK(Content, s, h), NEW p \in PageIds,
         NEW f \in Frames, s.dir[p] = f, NEW v \in Content
  PROVE  LET r == [s EXCEPT !.frames[f].data = v]
         IN  /\ Rewritten(Content, r, s, p, v, s.frames[f].dirty)
             /\ r.head = s.head /\ r.next = s.next
<1> DEFINE r == [s EXCEPT !.frames[f].data = v]
           nf == [pid |-> p, pin |-> s.frames[f].pin, dirty |-> s.frames[f].dirty, data |-> v]
           F == [pid : PageIds \cup {NoPid}, pin : 0..PinMax, dirty : BOOLEAN, data : Content]
<1>1. /\ s \in PoolType(Content) /\ s.frames \in [Frames -> F] /\ s.frames[f] \in F
  BY DEF PoolOK, PoolType
<1>2. s.frames[f].pid = p
  <2>1. NoFrame \notin Frames
    BY PoolAssumption DEF NoFrame, Frames
  <2> QED BY <2>1 DEF PoolOK, DirInverse
<1>3. nf \in F
  BY <1>1
<1>4. [s.frames[f] EXCEPT !.data = v] = nf
  BY <1>1, <1>2
<1>5. r = [s EXCEPT !.frames = [s.frames EXCEPT ![f] = nf]]
  BY <1>1, <1>4
<1>6. [s.frames EXCEPT ![f] = nf] \in [Frames -> F]
  BY <1>1, <1>3
<1> DEFINE fs == [s.frames EXCEPT ![f] = nf]
<1>7. fs \in [Frames -> F] /\ r = [s EXCEPT !.frames = fs]
  BY <1>5, <1>6
<1> HIDE DEF r, fs
<1>8. /\ r \in PoolType(Content)
      /\ r.dir = s.dir /\ r.free = s.free /\ r.lru = s.lru
      /\ r.disk = s.disk /\ r.head = s.head /\ r.next = s.next
      /\ r.frames = fs
  BY <1>1, <1>7 DEF PoolType
<1> QED BY <1>8 DEF Rewritten, r, fs

\* The pool r is what new_page leaves of s when it succeeds: a page of zeros
\* with one pin, to be written to the file some day.
NewPageLeaves(Content, r, s, h, W) ==
  LET p == PickedPid(s)
  IN  /\ PoolOK(Content, r, [h EXCEPT ![p] = 1])
      /\ CleanOK(r, [h EXCEPT ![p] = 1], W)
      /\ Preserves(r, s, h, p)
      /\ Latest(r, p) = Zero /\ r.disk[p] = s.disk[p]
      /\ r.dir[p] # NoFrame
      /\ r.head = Allocate(s.head, p) /\ r.next = AfterPick(s).next

\* The id that is picked belongs to no page in the pool.
LEMMA NewPageFacts ==
  ASSUME NEW Content, Zero \in Content,
         NEW s, NEW h, PoolOK(Content, s, h), NEW W, CleanOK(s, h, W),
         NewPageOK(s), PickedPid(s) \in PageIds, s.dir[PickedPid(s)] = NoFrame
  PROVE  NewPageLeaves(Content, NewPage(s), s, h, W)
<1> DEFINE p == PickedPid(s)
           f == VictimFrame(s)
           a == AfterPick(s)
           u == [TakeVictim(a) EXCEPT !.head = Allocate(@, p)]
           c == Correspond(u, p, f)
           nf == [pid |-> p, pin |-> 1, dirty |-> TRUE, data |-> Zero]
           r == NewPage(s)
<1>1. /\ a \in PoolType(Content)
      /\ a.dir = s.dir /\ a.frames = s.frames /\ a.disk = s.disk
      /\ a.free = s.free /\ a.lru = s.lru /\ a.head = s.head
  <2>1. CASE Reuses(s)
    BY <2>1 DEF AfterPick, PoolOK
  <2>2. CASE ~Reuses(s)
    <3>1. a = [s EXCEPT !.next = s.next + 1] /\ s.next + 1 \in Nat
      BY <2>2 DEF AfterPick, PoolOK, PoolType
    <3> HIDE DEF a
    <3> QED BY <3>1 DEF PoolOK, PoolType
  <2> QED BY <2>1, <2>2
<1>2. CanVictim(s)
  BY DEF NewPageOK
<1>3. /\ TakeVictim(s) \in PoolType(Content)
      /\ f \in Frames
  BY <1>2, VictimFacts
<1>4. /\ TakeVictim(a).free = TakeVictim(s).free /\ TakeVictim(a).lru = TakeVictim(s).lru
      /\ TakeVictim(a).dir = s.dir /\ TakeVictim(a).frames = s.frames
      /\ TakeVictim(a).disk = s.disk /\ TakeVictim(a).head = s.head
      /\ TakeVictim(a).next = a.next
  <2> HIDE DEF a
  <2>1. CASE s.free # <<>>
    BY <1>1, <2>1 DEF TakeVictim, PoolOK, PoolType
  <2>2. CASE s.free = <<>>
    BY <1>1, <2>2 DEF TakeVictim, PoolOK, PoolType
  <2> QED BY <2>1, <2>2
<1>5. TakeVictim(a) \in PoolType(Content)
  <2> HIDE DEF a
  <2>1. TakeVictim(s).free \in Seq(Frames) /\ TakeVictim(s).lru \in Seq(Frames)
    BY <1>3 DEF PoolType
  <2>2. CASE s.free # <<>>
    BY <1>1, <1>4, <2>1, <2>2 DEF TakeVictim, PoolType
  <2>3. CASE s.free = <<>>
    BY <1>1, <1>4, <2>1, <2>3 DEF TakeVictim, PoolType
  <2> QED BY <2>2, <2>3
<1>6. Allocate(s.head, p) \in [pageNum : Int, phyNum : Nat, bytes : Nat, bits : SUBSET PageIds]
  <2>1. s.head \in [pageNum : Int, phyNum : Nat, bytes : Nat, bits : SUBSET PageIds]
    BY DEF PoolOK, PoolType
  <2> HIDE DEF p
  <2>2. p \in PageIds
    BY DEF p
  <2>3. p \div BitsPerByte + 1 \in Nat
    BY <2>2, PoolAssumption DEF PageIds
  <2>4. /\ s.head.pageNum + 1 \in Int /\ s.head.phyNum + 1 \in Nat
        /\ s.head.bits \cup {p} \in SUBSET PageIds
    BY <2>1, <2>2
  <2>5. (IF p < s.head.bytes * BitsPerByte THEN s.head.bytes ELSE p \div BitsPerByte + 1) \in Nat
    BY <2>1, <2>3
  <2> QED BY <2>4, <2>5 DEF Allocate
<1>7. /\ u \in PoolType(Content)
      /\ u.dir = s.dir /\ u.frames = s.frames /\ u.disk = s.disk
      /\ u.free = TakeVictim(s).free /\ u.lru = TakeVictim(s).lru
      /\ u.head = Allocate(s.head, p) /\ u.next = a.next
  <2> HIDE DEF a, p
  <2> QED BY <1>4, <1>5, <1>6 DEF PoolType
<1>8. /\ c \in PoolType(Content) /\ Replaced(c, s, p, ClearedFrame(p))
      /\ c.head = u.head /\ c.next = u.next
  <2> HIDE DEF u, p
  <2> QED BY <1>2, <1>7, CorrespondFacts DEF p
<1>9. c.frames = [s.frames EXCEPT ![f] = ClearedFrame(p)]
  BY <1>8 DEF Replaced
<1>10. c.frames[f].data = Zero
  <2>1. s.frames \in [Frames -> [pid : PageIds \cup {NoPid}, pin : 0..PinMax,
                                 dirty : BOOLEAN, data : Content]]
    BY DEF PoolOK, PoolType
  <2> HIDE DEF c, p, f
  <2> QED BY <1>3, <1>9, <2>1 DEF ClearedFrame
<1>11. r = [c EXCEPT !.frames[f] = nf]
  <2>1. r = [c EXCEPT !.frames[f] = [pid |-> p, pin |-> 1, dirty |-> TRUE,
                                     data |-> c.frames[f].data]]
    BY DEF NewPage
  <2> HIDE DEF c, r, p, f
  <2> QED BY <1>10, <2>1
<1>12. nf \in [pid : PageIds \cup {NoPid}, pin : 0..PinMax, dirty : BOOLEAN, data : Content]
  BY PoolAssumption
<1> HIDE DEF c, r, nf, f, u
<1>13. /\ r \in PoolType(Content)
       /\ r.dir = c.dir /\ r.disk = c.disk /\ r.free = c.free /\ r.lru = c.lru
       /\ r.head = c.head /\ r.next = c.next
       /\ r.frames = [c.frames EXCEPT ![f] = nf]
  BY <1>3, <1>8, <1>11, <1>12 DEF PoolType
<1>14. r.frames = [s.frames EXCEPT ![f] = nf]
  <2>1. s.frames = [g \in Frames |-> s.frames[g]]
    BY DEF PoolOK, PoolType
  <2> QED BY <1>3, <1>9, <1>13, <2>1
<1>15. Replaced(r, s, p, nf)
  BY <1>8, <1>13, <1>14 DEF Replaced, f
<1>16. /\ PoolOK(Content, r, [h EXCEPT ![p] = 1])
       /\ Preserves(r, s, h, p)
       /\ r.dir[p] # NoFrame /\ Latest(r, p) = nf.data
       /\ r.disk[p] = s.disk[p]
       /\ CleanOK(r, [h EXCEPT ![p] = 1], W)
  <2>1. nf.pid = p /\ nf.pin = 1 /\ nf.dirty
    BY DEF nf
  <2> HIDE DEF p
  <2>2. p \in PageIds /\ s.dir[p] = NoFrame
    BY DEF p
  <2> QED BY <1>2, <1>12, <1>13, <1>15, <2>1, <2>2, ReplacedOK
<1> QED BY <1>7, <1>8, <1>13, <1>16 DEF r, nf, NewPageLeaves
-----------------------------------------------------------------------------
(* The header, as long as no page is deleted and no new_page fails: ids are  *)
(* handed out in order, and head_ and page 0 say how many there are.         *)

\* Contents of page 0 that write2page left.
ImageOK(c) ==
  c # Zero => /\ c \in HeadImage
              /\ c.phyNum \in 1..LastPid+1
              /\ c.pageNum = c.phyNum /\ c.bits = 0..c.phyNum-1

HeadOK(s) ==
  /\ s.next \in 1..LastPid+1
  /\ s.head.bits = 0..s.next-1
  /\ s.head.pageNum = s.next /\ s.head.phyNum = s.next
  /\ s.next <= s.head.bytes * BitsPerByte
  /\ \A p \in PageIds : s.dir[p] # NoFrame => p \in s.head.bits
  /\ ImageOK(Latest(s, 0)) /\ ImageOK(s.disk[0])
  /\ Latest(s, 0) # Zero => Latest(s, 0).phyNum <= s.next

\* As many bytes as bitmap_ is given hold the bits they are for.
LEMMA DivBound ==
  ASSUME NEW n \in Nat
  PROVE  /\ n < (n \div BitsPerByte + 1) * BitsPerByte
         /\ n <= ((n + BitsPerByte - 1) \div BitsPerByte) * BitsPerByte
         /\ (n + BitsPerByte - 1) \div BitsPerByte \in Nat
<1>1. BitsPerByte \in Nat \ {0}
  BY PoolAssumption
<1>2. ASSUME NEW k \in Nat
      PROVE  /\ k = (k \div BitsPerByte) * BitsPerByte + (k % BitsPerByte)
             /\ k % BitsPerByte \in 0..BitsPerByte-1
             /\ k \div BitsPerByte \in Nat
  BY <1>1
<1>3. n < (n \div BitsPerByte + 1) * BitsPerByte
  BY <1>1, <1>2
<1>4. n + BitsPerByte - 1 \in Nat
  BY <1>1
<1>5. n <= ((n + BitsPerByte - 1) \div BitsPerByte) * BitsPerByte
  <2> DEFINE k == n + BitsPerByte - 1
             q == k \div BitsPerByte
             m == q * BitsPerByte
  <2>1. /\ k = m + (k % BitsPerByte)
        /\ k % BitsPerByte \in 0..BitsPerByte-1
        /\ q \in Nat
    BY <1>2, <1>4
  <2>2. m \in Int
    BY <1>1, <2>1
  <2> QED BY <1>1, <2>1, <2>2
<1> QED BY <1>2, <1>3, <1>4, <1>5

\* The bits of page 0 past bitmap_, which write2page leaves there, and what page
\* 0 has after it.
KeptBits(s) == {i \in ImageBits(Latest(s, 0)) : i >= s.head.bytes * BitsPerByte}
SavedImage(s) == [pageNum |-> s.head.pageNum, phyNum |-> s.head.phyNum,
                  bits |-> s.head.bits \cup KeptBits(s)]

LEMMA SavedImageIs ==
  ASSUME NEW Content, NEW s \in PoolType(Content), ImageBits(Latest(s, 0)) \subseteq PageIds
  PROVE  /\ SavedImage(s) \in HeadImage /\ SavedImage(s) # Zero
         /\ ImageBits(SavedImage(s)) = s.head.bits \cup KeptBits(s)
         /\ KeptBits(s) \subseteq PageIds
<1>1. s.head \in [pageNum : Int, phyNum : Nat, bytes : Nat, bits : SUBSET PageIds]
  BY DEF PoolType
<1>2. KeptBits(s) \subseteq PageIds
  BY DEF KeptBits
<1>3. SavedImage(s) \in HeadImage /\ SavedImage(s).bits = s.head.bits \cup KeptBits(s)
  BY <1>1, <1>2 DEF SavedImage, HeadImage
<1> QED BY <1>2, <1>3, ZeroAssumption DEF ImageBits

\* The pool r is what write2page leaves of s when page 0 is in the pool.
HeadWritten(Content, r, s, h, W) ==
  /\ PoolOK(Content, r, h) /\ CleanOK(r, h, W)
  /\ OnlyNow(r, s, 0, SavedImage(s))
  /\ r.dir = s.dir /\ r.disk = s.disk
  /\ r.head = s.head /\ r.next = s.next

LEMMA WriteHeadFacts ==
  ASSUME NEW Content, HeadImage \subseteq Content,
         NEW s, NEW h, PoolOK(Content, s, h), NEW W, CleanOK(s, h, W),
         s.dir[0] # NoFrame, ImageBits(Latest(s, 0)) \subseteq PageIds
  PROVE  HeadWritten(Content, WriteHead(s), s, h, W)
<1> DEFINE f == s.dir[0]
           r == WriteHead(s)
           v == SavedImage(s)
           nf == [pid |-> 0, pin |-> s.frames[f].pin, dirty |-> TRUE, data |-> v]
<1>1. 0 \in PageIds
  BY PoolAssumption DEF PageIds
<1>2. /\ f \in Frames
      /\ s.frames[f] \in [pid : PageIds \cup {NoPid}, pin : 0..PinMax,
                          dirty : BOOLEAN, data : Content]
      /\ s.frames[f].pid = 0
  BY <1>1 DEF PoolOK, PoolType, DirInverse
<1>3. v = [pageNum |-> s.head.pageNum, phyNum |-> s.head.phyNum,
           bits |-> s.head.bits \cup {i \in ImageBits(s.frames[f].data) :
                                        i >= s.head.bytes * BitsPerByte}]
  BY DEF Latest, SavedImage, KeptBits
<1>4. v \in HeadImage
  BY SavedImageIs DEF PoolOK
<1> HIDE DEF v
<1>5. nf \in [pid : PageIds \cup {NoPid}, pin : 0..PinMax, dirty : BOOLEAN, data : Content]
  BY <1>1, <1>2, <1>4
<1>6. r = [s EXCEPT !.frames[f] = nf]
  BY <1>2, <1>3 DEF WriteHead
<1> HIDE DEF r, nf, f
<1>7. /\ r \in PoolType(Content)
      /\ r.dir = s.dir /\ r.free = s.free /\ r.lru = s.lru /\ r.disk = s.disk
      /\ r.head = s.head /\ r.next = s.next
      /\ r.frames = [s.frames EXCEPT ![f] = nf]
  BY <1>2, <1>5, <1>6 DEF PoolOK, PoolType
<1>8. Rewritten(Content, r, s, 0, v, TRUE)
  BY <1>7 DEF Rewritten, f, nf
<1>9. PoolOK(Content, r, h) /\ CleanOK(r, h, W) /\ OnlyNow(r, s, 0, v)
  <2> DEFINE dirty == TRUE
             id == 0
  <2>1. dirty \in BOOLEAN /\ dirty = TRUE /\ id \in PageIds /\ s.dir[id] # NoFrame
    BY <1>1
  <2>2. Rewritten(Content, r, s, id, v, dirty)
    BY <1>8
  <2> HIDE DEF dirty, id
  <2>3. RewriteLeaves(Content, r, s, h, W, id, v, dirty)
    BY <2>1, <2>2, RewrittenOK
  <2> QED BY <2>1, <2>3 DEF id, RewriteLeaves
<1> QED BY <1>7, <1>9 DEF r, v, HeadWritten

\* The pool r is what fetch(0), write2page and unpin(0, true) leave of s.
Saved(Content, r, s, h, W) ==
  /\ PoolOK(Content, r, h) /\ CleanOK(r, h, W)
  /\ OnlyNow(r, s, 0, SavedImage(s))
  /\ r.head = s.head /\ r.next = s.next
  /\ \A p \in PageIds : /\ h[p] > 0 => r.dir[p] = s.dir[p]
                        /\ r.disk[p] \in {s.disk[p], Latest(s, p)}
                        /\ r.dir[p] # NoFrame => p = 0 \/ s.dir[p] # NoFrame

LEMMA SaveHeadIs ==
  ASSUME NEW Content, Zero \in Content, HeadImage \subseteq Content,
         NEW s, NEW h, PoolOK(Content, s, h), NEW W, CleanOK(s, h, W),
         FetchOK(s, 0), h[0] < PinMax, ImageBits(Latest(s, 0)) \subseteq PageIds
  PROVE  Saved(Content, SaveHead(s), s, h, W)
<1> DEFINE s1 == Fetch(s, 0)
           s2 == WriteHead(s1)
           r == SaveHead(s)
           h1 == [h EXCEPT ![0] = @ + 1]
           v == SavedImage(s)
<1>1. /\ 0 \in PageIds /\ PinMax \in Nat /\ h \in [PageIds -> 0..PinMax]
  BY PoolAssumption DEF PageIds, PoolOK, PinsAgree
<1>2. /\ PoolOK(Content, s1, h1) /\ CleanOK(s1, h1, W)
      /\ Preserves(s1, s, h, 0) /\ Latest(s1, 0) = Latest(s, 0)
      /\ s1.dir[0] # NoFrame
      /\ s1.head = s.head /\ s1.next = s.next
  <2>1. Fetched(Content, s1, s, h, W, 0)
    BY <1>1, FetchFacts
  <2> QED BY <2>1 DEF Fetched
<1> HIDE DEF s1, h1
<1>3. SavedImage(s1) = v
  BY <1>2 DEF SavedImage, KeptBits
<1> HIDE DEF v
<1>4. /\ PoolOK(Content, s2, h1) /\ CleanOK(s2, h1, W)
      /\ Latest(s2, 0) = v /\ s2.disk = s1.disk /\ s2.dir = s1.dir
      /\ s2.head = s.head /\ s2.next = s.next
      /\ \A p \in PageIds : p # 0 => Latest(s2, p) = Latest(s1, p)
  <2>1. HeadWritten(Content, s2, s1, h1, W)
    BY <1>2, WriteHeadFacts
  <2> QED BY <1>2, <1>3, <2>1 DEF HeadWritten, OnlyNow
<1> HIDE DEF s2
<1>5. /\ h1[0] > 0 /\ [h1 EXCEPT ![0] = h1[0] - 1] = h
      /\ \A p \in W : p \in PageIds /\ h[p] > 0
  <2>1. h = [p \in PageIds |-> h[p]] /\ h[0] \in Nat
    BY <1>1
  <2>2. h1 = [p \in PageIds |-> IF p = 0 THEN h[0] + 1 ELSE h[p]]
    BY <1>1, <2>1 DEF h1
  <2>3. [h1 EXCEPT ![0] = h1[0] - 1] = h
    BY <1>1, <2>1, <2>2
  <2> QED BY <1>1, <2>1, <2>2, <2>3 DEF CleanOK
<1>6. r = Unpin(s2, 0, TRUE)
  BY DEF SaveHead, s2, s1
<1>7. /\ PoolOK(Content, r, h) /\ CleanOK(r, h, W)
      /\ ReadsSame(r, s2) /\ r.disk = s2.disk /\ r.dir = s2.dir
      /\ r.head = s2.head /\ r.next = s2.next
  <2>1. ReportsRest(W, W, h1, 0, TRUE)
    BY <1>5 DEF ReportsRest
  <2>2. Unpinned(Content, Unpin(s2, 0, TRUE), s2, h1, 0, W)
    BY <1>1, <1>4, <1>5, <2>1, UnpinFacts
  <2> HIDE DEF r
  <2> QED BY <1>5, <1>6, <2>2 DEF Unpinned
<1> HIDE DEF r
<1>8. OnlyNow(r, s, 0, v)
  BY <1>1, <1>2, <1>4, <1>7 DEF ReadsSame, Preserves, OnlyNow
<1>9. \A p \in PageIds : /\ h[p] > 0 => r.dir[p] = s.dir[p]
                         /\ r.disk[p] \in {s.disk[p], Latest(s, p)}
                         /\ r.dir[p] # NoFrame => p = 0 \/ s.dir[p] # NoFrame
  BY <1>2, <1>4, <1>7 DEF Preserves
<1> QED BY <1>4, <1>7, <1>8, <1>9 DEF r, v, Saved

\* head_ and page 0 stay as they should be in a call that leaves them alone.
LEMMA HeadKept ==
  ASSUME NEW s, NEW h, HeadOK(s), NEW id \in PageIds, id \in s.head.bits,
         NEW r, Preserves(r, s, h, id), Latest(r, id) = Latest(s, id),
         r.head = s.head, r.next = s.next
  PROVE  HeadOK(r)
<1>1. 0 \in PageIds
  BY PoolAssumption DEF PageIds
<1>2. Latest(r, 0) = Latest(s, 0) /\ r.disk[0] \in {s.disk[0], Latest(s, 0)}
  BY <1>1 DEF Preserves
<1>3. \A p \in PageIds : r.dir[p] # NoFrame => p \in s.head.bits
  BY DEF Preserves, HeadOK
<1>4. ImageOK(r.disk[0])
  BY <1>2 DEF HeadOK
<1> QED BY <1>2, <1>3, <1>4 DEF HeadOK

\* The same for a call that moves no frame.
LEMMA HeadKeptSame ==
  ASSUME NEW Content, NEW s, HeadOK(s), NEW r, SameFrames(Content, r, s),
         ReadsSame(r, s), r.head = s.head, r.next = s.next
  PROVE  HeadOK(r)
<1>1. 0 \in PageIds
  BY PoolAssumption DEF PageIds
<1>2. Latest(r, 0) = Latest(s, 0) /\ r.disk[0] \in {s.disk[0], Latest(s, 0)}
  BY <1>1 DEF SameFrames, ReadsSame
<1>3. ImageOK(r.disk[0])
  BY <1>2 DEF HeadOK
<1> QED BY <1>2, <1>3 DEF HeadOK, SameFrames

\* Without deletions new_page finds no bit to reuse: it takes next_page_id_.
LEMMA NextIsPicked ==
  ASSUME NEW Content, NEW s \in PoolType(Content), HeadOK(s)
  PROVE  /\ ~Reuses(s) /\ PickedPid(s) = s.next /\ s.next \notin s.head.bits
         /\ AfterPick(s).next = s.next + 1
<1>1. s.next \in Nat
  BY DEF PoolType
<1>2. ~Reuses(s)
  BY <1>1 DEF Reuses, ClearBits, CurrentPid, HeadOK
<1>3. s.next \notin s.head.bits
  BY <1>1 DEF HeadOK
<1>4. AfterPick(s) = [s EXCEPT !.next = s.next + 1]
  BY <1>2 DEF AfterPick
<1> QED BY <1>2, <1>3, <1>4 DEF PickedPid, PoolType

LEMMA NewPageHead ==
  ASSUME NEW Content, NEW s \in PoolType(Content), HeadOK(s), s.next \in PageIds,
         NEW h, NEW r, Preserves(r, s, h, s.next), Latest(r, s.next) = Zero,
         r.disk[s.next] = s.disk[s.next],
         r.head = Allocate(s.head, s.next), r.next = s.next + 1
  PROVE  HeadOK(r)
<1> DEFINE n == s.next
           b == IF n < s.head.bytes * BitsPerByte THEN s.head.bytes
                                                 ELSE n \div BitsPerByte + 1
<1>1. /\ n \in 1..LastPid /\ n \in Nat /\ LastPid \in Nat
      /\ s.head \in [pageNum : Int, phyNum : Nat, bytes : Nat, bits : SUBSET PageIds]
      /\ BitsPerByte \in Nat
  BY PoolAssumption DEF HeadOK, PageIds, PoolType
<1>2. r.head = [pageNum |-> n + 1, phyNum |-> n + 1, bytes |-> b,
                bits |-> (0..n-1) \cup {n}]
  BY DEF Allocate, HeadOK
<1>3. b \in Nat /\ n < b * BitsPerByte
  <2>1. CASE n < s.head.bytes * BitsPerByte
    BY <1>1, <2>1
  <2>2. CASE ~(n < s.head.bytes * BitsPerByte)
    <3>1. b = n \div BitsPerByte + 1
      BY <2>2
    <3>2. n \div BitsPerByte \in Nat
      BY <1>1, PoolAssumption
    <3> QED BY <1>1, <3>1, <3>2, DivBound
  <2> QED BY <2>1, <2>2
<1>4. n + 1 <= b * BitsPerByte
  <2> DEFINE m == b * BitsPerByte
  <2>1. m \in Nat /\ n < m
    BY <1>1, <1>3
  <2> HIDE DEF m
  <2>2. n + 1 <= m
    BY <1>1, <2>1
  <2> QED BY <2>2 DEF m
<1>5. (0..n-1) \cup {n} = 0..(n+1)-1
  BY <1>1
<1>6. Latest(r, 0) = Latest(s, 0) /\ r.disk[0] \in {s.disk[0], Latest(s, 0)}
  BY <1>1, PoolAssumption DEF Preserves, PageIds
<1>7. \A p \in PageIds : r.dir[p] # NoFrame => p \in r.head.bits
  BY <1>2 DEF Preserves, HeadOK
<1>8. Latest(r, 0) # Zero => Latest(r, 0).phyNum <= n + 1
  <2>1. SUFFICES ASSUME Latest(s, 0) # Zero PROVE Latest(s, 0).phyNum <= n + 1
    BY <1>6
  <2>2. Latest(s, 0).phyNum <= n /\ Latest(s, 0).phyNum \in 1..LastPid+1
    BY <2>1 DEF HeadOK, ImageOK
  <2> QED BY <1>1, <2>2
<1>9. ImageOK(Latest(r, 0)) /\ ImageOK(r.disk[0])
  BY <1>6 DEF HeadOK
<1>10. r.next \in 1..LastPid+1
  BY <1>1
<1> HIDE DEF b, n
<1>11. /\ r.head.pageNum = r.next /\ r.head.phyNum = r.next /\ r.head.bits = 0..r.next-1
       /\ r.next <= r.head.bytes * BitsPerByte
  BY <1>2, <1>4, <1>5 DEF n
<1> QED BY <1>7, <1>8, <1>9, <1>10, <1>11 DEF HeadOK, n

\* A pool just constructed: nothing cached, every frame free.
LEMMA BlankFacts ==
  ASSUME NEW Content, Zero \in Content, NEW d \in [PageIds -> Content]
  PROVE  LET s == BlankPool(d)
             none == [p \in PageIds |-> 0]
         IN  /\ PoolOK(Content, s, none) /\ CleanOK(s, none, {})
             /\ CanVictim(s) /\ s.disk = d
             /\ \A p \in PageIds : s.dir[p] = NoFrame
<1> DEFINE s == BlankPool(d)
           none == [p \in PageIds |-> 0]
           free == [i \in 1..NumFrames |-> i - 1]
<1>1. /\ NumFrames \in Nat \ {0} /\ 0 \in 0..PinMax /\ NoFrame \notin Frames
      /\ NoPid \notin PageIds
  BY PoolAssumption DEF Frames, NoFrame, PageIds, NoPid
<1>2. free \in Seq(Frames) /\ free # <<>> /\ IsInjective(free)
  <2>1. \A i \in 1..NumFrames : i - 1 \in Frames
    BY <1>1 DEF Frames
  <2>2. free \in [1..NumFrames -> Frames]
    BY <2>1
  <2>3. free \in Seq(Frames)
    BY <1>1, <2>2
  <2>4. 1 \in DOMAIN free
    BY <1>1
  <2>5. IsInjective(free)
    BY <1>1 DEF IsInjective
  <2> QED BY <2>3, <2>4, <2>5
<1>3. \A f \in Frames : f \in ToSet(free)
  <2>1. SUFFICES ASSUME NEW f \in Frames PROVE f \in ToSet(free)
    OBVIOUS
  <2>2. f + 1 \in 1..NumFrames /\ free[f + 1] = f
    BY <1>1 DEF Frames
  <2> QED BY <2>2 DEF ToSet
<1>4. EmptyFrame \in [pid : PageIds \cup {NoPid}, pin : 0..PinMax, dirty : BOOLEAN, data : Content]
  BY <1>1 DEF EmptyFrame, ClearedFrame
<1>5. /\ s.dir = [p \in PageIds |-> NoFrame] /\ s.frames = [f \in Frames |-> EmptyFrame]
      /\ s.free = free /\ s.lru = <<>> /\ s.disk = d
  BY DEF BlankPool
<1>6. s \in PoolType(Content)
  BY <1>1, <1>2, <1>4 DEF BlankPool, PoolType
<1>7. DirInverse(s)
  BY <1>5 DEF DirInverse, EmptyFrame, ClearedFrame
<1>8. FramesPartitioned(s)
  <2>1. IsInjective(<<>>) /\ ToSet(<<>>) = {}
    BY DEF IsInjective, ToSet
  <2> HIDE DEF free
  <2> QED BY <1>2, <1>3, <1>5, <2>1 DEF FramesPartitioned, EmptyFrame, ClearedFrame
<1>9. PinsAgree(s, none)
  BY <1>1, <1>5 DEF PinsAgree, EmptyFrame, ClearedFrame
<1>10. CleanOK(s, none, {})
  BY <1>5 DEF CleanOK
<1> QED BY <1>2, <1>5, <1>6, <1>7, <1>8, <1>9, <1>10 DEF PoolOK, CanVictim

\* Without deletions write2page leaves nothing of the image it overwrites, and
\* writes a good one.
LEMMA HeadImageFacts ==
  ASSUME NEW Content, NEW s \in PoolType(Content), HeadOK(s)
  PROVE  /\ ImageBits(Latest(s, 0)) \subseteq PageIds
         /\ KeptBits(s) = {} /\ ImageOK(SavedImage(s))
<1> DEFINE c == Latest(s, 0)
           m == s.head.bytes * BitsPerByte
<1>1. /\ s.next \in Nat /\ LastPid \in Nat
      /\ s.head \in [pageNum : Int, phyNum : Nat, bytes : Nat, bits : SUBSET PageIds]
      /\ m \in Nat
  BY PoolAssumption DEF PoolType
<1> HIDE DEF m, c
<1>2. ASSUME NEW i \in ImageBits(c) PROVE i \in PageIds /\ ~(i >= m)
  <2>1. c # Zero /\ i \in c.bits
    BY DEF ImageBits
  <2>2. /\ c.phyNum \in 1..LastPid+1 /\ c.bits = 0..c.phyNum-1 /\ c.phyNum <= s.next
    BY <2>1 DEF HeadOK, ImageOK, c
  <2>3. s.next <= m
    BY DEF HeadOK, m
  <2> QED BY <1>1, <2>1, <2>2, <2>3 DEF PageIds
<1>3. KeptBits(s) = {}
  BY <1>2 DEF KeptBits, c, m
<1>4. ImageBits(Latest(s, 0)) \subseteq PageIds
  BY <1>2 DEF c
<1>5. SavedImage(s) \in HeadImage
  BY <1>4, SavedImageIs
<1>6. /\ SavedImage(s).phyNum = s.head.phyNum /\ SavedImage(s).pageNum = s.head.pageNum
      /\ SavedImage(s).bits = s.head.bits
  BY <1>3 DEF SavedImage
<1>7. /\ s.head.phyNum \in 1..LastPid+1 /\ s.head.pageNum = s.head.phyNum
      /\ s.head.bits = 0..s.head.phyNum-1
  BY DEF HeadOK
<1> QED BY <1>3, <1>4, <1>5, <1>6, <1>7 DEF ImageOK

\* The pool r has head_ of the pool s in page 0, and every other page as in s;
\* the file has got nothing but latest contents.
HeadSaved(r, s) ==
  /\ ImageBits(Latest(r, 0)) = s.head.bits
  /\ \A p \in PageIds : p # 0 => Latest(r, p) = Latest(s, p)
  /\ \A p \in PageIds : r.disk[p] \in {s.disk[p], Latest(s, p)}

\* close and delete_page save head_: the pool keeps its pins, and page 0 is
\* good in memory and in the file.
LEMMA SaveHeadFacts ==
  ASSUME NEW Content, Zero \in Content, HeadImage \subseteq Content,
         NEW s, NEW h, PoolOK(Content, s, h), NEW W, CleanOK(s, h, W),
         HeadOK(s), FetchOK(s, 0), h[0] < PinMax
  PROVE  LET r == SaveHead(s) IN
         /\ PoolOK(Content, r, h) /\ CleanOK(r, h, W)
         /\ ImageOK(Latest(r, 0)) /\ ImageOK(r.disk[0])
         /\ HeadSaved(r, s)
<1> DEFINE r == SaveHead(s)
<1>1. 0 \in PageIds /\ s \in PoolType(Content)
  BY PoolAssumption DEF PageIds, PoolOK
<1>2. /\ ImageBits(Latest(s, 0)) \subseteq PageIds
      /\ KeptBits(s) = {} /\ ImageOK(SavedImage(s))
  BY <1>1, HeadImageFacts
<1>3. ImageBits(SavedImage(s)) = s.head.bits
  BY <1>1, <1>2, SavedImageIs
<1>4. Saved(Content, r, s, h, W)
  BY <1>2, SaveHeadIs
<1> HIDE DEF r
<1>5. /\ PoolOK(Content, r, h) /\ CleanOK(r, h, W) /\ Latest(r, 0) = SavedImage(s)
      /\ \A p \in PageIds : /\ p # 0 => Latest(r, p) = Latest(s, p)
                            /\ r.disk[p] \in {s.disk[p], Latest(s, p)}
  BY <1>4 DEF Saved, OnlyNow
<1>6. ImageOK(r.disk[0])
  BY <1>1, <1>5 DEF HeadOK
<1>7. HeadSaved(r, s)
  BY <1>3, <1>5 DEF HeadSaved
<1> QED BY <1>2, <1>5, <1>6, <1>7 DEF r

\* The pool r is what the constructor makes of the file d: nothing pinned, only
\* page 0 in the pool, a fresh header when the file has none, and every page as
\* the file has it.
FreshImage == [pageNum |-> 1, phyNum |-> 1, bits |-> {0}]
LoadedHead(c) == IF c = Zero THEN FreshHead ELSE LoadHead(c)
LoadedImage(c) == IF c = Zero THEN FreshImage ELSE c
Opened(Content, r, d) ==
  /\ PoolOK(Content, r, [p \in PageIds |-> 0])
  /\ CleanOK(r, [p \in PageIds |-> 0], {})
  /\ r.head = LoadedHead(d[0]) /\ r.next = r.head.phyNum
  /\ \A p \in PageIds : r.dir[p] # NoFrame => p = 0
  /\ Latest(r, 0) = LoadedImage(d[0]) /\ r.disk[0] \in {d[0], Latest(r, 0)}
  /\ \A p \in PageIds : p # 0 => Latest(r, p) = d[p] /\ r.disk[p] = d[p]

LEMMA FreshFacts ==
  /\ FreshHead \in [pageNum : Int, phyNum : Nat, bytes : Nat, bits : SUBSET PageIds]
  /\ FreshImage \in HeadImage /\ FreshImage # Zero
<1>1. 0 \in PageIds
  BY PoolAssumption DEF PageIds
<1>2. FreshImage \in HeadImage
  BY <1>1 DEF FreshImage, HeadImage
<1> QED BY <1>1, <1>2, ZeroAssumption DEF FreshHead

\* What is read back of an image whose page_num_ is not 0.
LEMMA LoadHeadIs ==
  ASSUME NEW c \in HeadImage, c.pageNum \in Nat \ {0}
  PROVE  LET h == LoadHead(c)
         IN  /\ h \in [pageNum : Int, phyNum : Nat, bytes : Nat, bits : SUBSET PageIds]
             /\ h.pageNum = c.pageNum /\ h.phyNum = c.phyNum /\ h.bytes \in Nat \ {0}
             /\ h.bits = {i \in c.bits : i < h.bytes * BitsPerByte}
             /\ c.phyNum <= c.pageNum => c.phyNum <= h.bytes * BitsPerByte
             /\ c.phyNum <= BitsPerByte => c.phyNum <= h.bytes * BitsPerByte
<1> DEFINE h == LoadHead(c)
           q == (c.pageNum + BitsPerByte - 1) \div BitsPerByte
           bytes == IF c.phyNum > BitsPerByte THEN q ELSE 1
           m == bytes * BitsPerByte
<1>1. BitsPerByte \in Nat \ {0} /\ c.phyNum \in Nat /\ c.bits \subseteq PageIds
  BY PoolAssumption DEF HeadImage
<1>2. q \in Nat /\ c.pageNum <= q * BitsPerByte
  BY DivBound
<1>3. q # 0
  BY <1>1, <1>2
<1> HIDE DEF q
<1>4. bytes \in Nat \ {0}
  BY <1>2, <1>3
<1>5. c.phyNum <= c.pageNum \/ c.phyNum <= BitsPerByte => c.phyNum <= m
  <2>1. CASE c.phyNum > BitsPerByte
    <3> DEFINE k == q * BitsPerByte
    <3>1. k \in Int /\ c.pageNum <= k /\ m = k
      BY <1>1, <1>2, <2>1
    <3> HIDE DEF k, m
    <3> QED BY <1>1, <2>1, <3>1
  <2>2. CASE ~(c.phyNum > BitsPerByte)
    BY <1>1, <2>2
  <2> QED BY <2>1, <2>2
<1>6. h = [pageNum |-> c.pageNum, phyNum |-> c.phyNum, bytes |-> bytes,
           bits |-> {i \in c.bits : i < m}]
  BY DEF LoadHead, q
<1> HIDE DEF bytes, h
<1>7. h.bytes = bytes /\ h.bits = {i \in c.bits : i < h.bytes * BitsPerByte}
      /\ h.pageNum = c.pageNum /\ h.phyNum = c.phyNum
  BY <1>6
<1>8. h \in [pageNum : Int, phyNum : Nat, bytes : Nat, bits : SUBSET PageIds]
  BY <1>1, <1>4, <1>6
<1> QED BY <1>4, <1>5, <1>7, <1>8 DEF h

LEMMA OpenIs ==
  ASSUME NEW Content, Zero \in Content, HeadImage \subseteq Content,
         NEW d \in [PageIds -> Content],
         d[0] # Zero => d[0] \in HeadImage /\ d[0].pageNum \in Nat \ {0}
  PROVE  Opened(Content, OpenPool(d), d)
<1> DEFINE none == [p \in PageIds |-> 0]
           one == [none EXCEPT ![0] = @ + 1]
           b == BlankPool(d)
           s0 == Fetch(b, 0)
           image == s0.frames[s0.dir[0]].data
           r == OpenPool(d)
<1>1. /\ 0 \in PageIds /\ PinMax \in Nat \ {0} /\ LastPid \in Nat
      /\ BitsPerByte \in Nat \ {0}
  BY PoolAssumption DEF PageIds
<1>2. /\ PoolOK(Content, b, none) /\ CleanOK(b, none, {})
      /\ CanVictim(b) /\ b.disk = d
      /\ \A p \in PageIds : b.dir[p] = NoFrame
  BY BlankFacts
<1> HIDE DEF b
<1>3. none[0] < PinMax /\ FetchOK(b, 0)
  BY <1>1, <1>2 DEF FetchOK
<1>4. /\ PoolOK(Content, s0, one) /\ CleanOK(s0, one, {})
      /\ Preserves(s0, b, none, 0) /\ Latest(s0, 0) = Latest(b, 0)
      /\ s0.dir[0] # NoFrame
  <2> HIDE DEF none
  <2>1. Fetched(Content, s0, b, none, {}, 0)
    BY <1>1, <1>2, <1>3, FetchFacts
  <2> QED BY <2>1 DEF Fetched
<1> HIDE DEF s0
<1>5. /\ image = d[0] /\ Latest(s0, 0) = d[0] /\ s0.disk[0] = d[0]
      /\ \A p \in PageIds : s0.dir[p] # NoFrame => p = 0
      /\ \A p \in PageIds : p # 0 => Latest(s0, p) = d[p] /\ s0.disk[p] = d[p]
      /\ s0 \in PoolType(Content)
  BY <1>1, <1>2, <1>4 DEF Latest, Preserves, PoolOK
<1>6. one[0] > 0 /\ [one EXCEPT ![0] = one[0] - 1] = none
  BY <1>1
<1> HIDE DEF one
<1>7. CASE ImagePageNum(image) = 0
  <2> DEFINE t == [s0 EXCEPT !.head = FreshHead]
             s1 == WriteHead(t)
             s2 == Unpin(s1, 0, TRUE)
             s3 == FlushPage(s2, 0)
  <2>1. d[0] = Zero
    BY <1>5, <1>7 DEF ImagePageNum
  <2>2. FreshHead \in [pageNum : Int, phyNum : Nat, bytes : Nat, bits : SUBSET PageIds]
    BY FreshFacts
  <2>3. /\ SameFrames(Content, t, s0) /\ t.head = FreshHead /\ t.dir = s0.dir
        /\ t.disk = s0.disk
    BY <1>5, <2>2 DEF SameFrames, PoolType
  <2> HIDE DEF t
  <2>4. PoolOK(Content, t, one) /\ CleanOK(t, one, {}) /\ ReadsSame(t, s0)
    BY <1>4, <2>3, SameFramesOK
  <2>5. ImageBits(Latest(t, 0)) = {}
    BY <1>1, <1>5, <2>1, <2>4 DEF ImageBits, ReadsSame
  <2>6. SavedImage(t) = FreshImage
    <3>1. KeptBits(t) = {}
      BY <2>5 DEF KeptBits
    <3> QED BY <2>3, <3>1 DEF SavedImage, FreshHead, FreshImage
  <2>7. /\ PoolOK(Content, s1, one) /\ CleanOK(s1, one, {})
        /\ Latest(s1, 0) = FreshImage
        /\ s1.dir = s0.dir /\ s1.disk = s0.disk /\ s1.head = FreshHead
        /\ \A p \in PageIds : p # 0 => Latest(s1, p) = Latest(t, p)
    <3>1. HeadWritten(Content, s1, t, one, {})
      BY <1>4, <2>3, <2>4, <2>5, WriteHeadFacts
    <3> QED BY <2>3, <2>6, <3>1 DEF HeadWritten, OnlyNow
  <2> HIDE DEF s1
  <2>8. /\ PoolOK(Content, s2, none) /\ CleanOK(s2, none, {})
        /\ ReadsSame(s2, s1) /\ s2.dir = s1.dir /\ s2.disk = s1.disk /\ s2.head = s1.head
    <3> HIDE DEF none
    <3>1. ReportsRest({}, {}, one, 0, TRUE)
      BY DEF ReportsRest
    <3>2. Unpinned(Content, s2, s1, one, 0, {})
      BY <1>1, <1>6, <2>7, <3>1, UnpinFacts
    <3> QED BY <1>6, <3>2 DEF Unpinned
  <2> HIDE DEF s2
  <2>9. /\ SameFrames(Content, s3, s2) /\ s3.head = s2.head
        /\ \A p \in PageIds : p # 0 => s3.disk[p] = s2.disk[p]
    <3>1. SameFrames(Content, s3, s2) /\ s3.head = s2.head
      BY <2>8, FlushPageOK
    <3>2. s2 \in PoolType(Content)
      BY <2>8 DEF PoolOK
    <3>3. \A p \in PageIds : p # 0 => s3.disk[p] = s2.disk[p]
      BY <3>2 DEF FlushPage, PoolType
    <3> QED BY <3>1, <3>3
  <2> HIDE DEF s3
  <2>10. r = [s3 EXCEPT !.next = s3.head.phyNum]
    BY <1>7 DEF OpenPool, s0, b, t, s1, s2, s3
  <2> HIDE DEF r
  <2>11. /\ SameFrames(Content, r, s2) /\ r.head = FreshHead /\ r.next = r.head.phyNum
         /\ r.disk = s3.disk
    <3>1. s3.head = FreshHead /\ s3.head.phyNum = 1
      BY <2>7, <2>8, <2>9 DEF FreshHead
    <3> QED BY <2>8, <2>9, <2>10, <3>1 DEF SameFrames, PoolType
  <2>12. PoolOK(Content, r, none) /\ CleanOK(r, none, {}) /\ ReadsSame(r, s2)
    <3> HIDE DEF none
    <3> QED BY <2>8, <2>11, SameFramesOK
  <2>13. Latest(r, 0) = FreshImage /\ r.disk[0] \in {d[0], Latest(r, 0)}
    BY <1>1, <1>5, <2>7, <2>8, <2>11, <2>12 DEF ReadsSame, SameFrames
  <2>14. \A p \in PageIds : p # 0 => Latest(r, p) = d[p] /\ r.disk[p] = d[p]
    BY <1>5, <2>4, <2>7, <2>8, <2>9, <2>11, <2>12 DEF ReadsSame
  <2>15. \A p \in PageIds : r.dir[p] # NoFrame => p = 0
    BY <1>5, <2>7, <2>8, <2>11 DEF SameFrames
  <2> QED BY <2>1, <2>11, <2>12, <2>13, <2>14, <2>15
          DEF r, Opened, LoadedHead, LoadedImage
<1>8. CASE ImagePageNum(image) # 0
  <2> DEFINE c == d[0]
             t == [s0 EXCEPT !.head = LoadHead(c)]
             s1 == Unpin(t, 0, FALSE)
  <2>1. c # Zero /\ c \in HeadImage /\ c.pageNum \in Nat \ {0}
    BY <1>5, <1>8 DEF ImagePageNum
  <2>2. r = [s1 EXCEPT !.next = s1.head.phyNum]
    BY <1>5, <1>8 DEF OpenPool, s0, b
  <2> HIDE DEF c
  <2>3. LoadHead(c) \in [pageNum : Int, phyNum : Nat, bytes : Nat, bits : SUBSET PageIds]
    BY <2>1, LoadHeadIs
  <2>4. /\ SameFrames(Content, t, s0) /\ t.head = LoadHead(c)
        /\ t.disk = s0.disk /\ t.dir = s0.dir
    BY <1>5, <2>3 DEF SameFrames, PoolType
  <2> HIDE DEF t
  <2>5. PoolOK(Content, t, one) /\ CleanOK(t, one, {}) /\ ReadsSame(t, s0)
    BY <1>4, <2>4, SameFramesOK
  <2>6. /\ PoolOK(Content, s1, none) /\ CleanOK(s1, none, {})
        /\ ReadsSame(s1, t) /\ s1.dir = t.dir /\ s1.disk = t.disk /\ s1.head = t.head
    <3> HIDE DEF none
    <3>1. ReportsRest({}, {}, one, 0, FALSE)
      BY DEF ReportsRest
    <3>2. Unpinned(Content, s1, t, one, 0, {})
      BY <1>1, <1>6, <2>5, <3>1, UnpinFacts
    <3> QED BY <1>6, <3>2 DEF Unpinned
  <2> HIDE DEF s1, r
  <2>7. /\ SameFrames(Content, r, s1) /\ r.head = LoadHead(c) /\ r.next = r.head.phyNum
        /\ r.disk = s1.disk
    <3>1. s1.head = LoadHead(c) /\ s1.head.phyNum \in Nat
      BY <2>3, <2>4, <2>6
    <3> QED BY <2>2, <2>6, <3>1 DEF SameFrames, PoolOK, PoolType
  <2>8. PoolOK(Content, r, none) /\ CleanOK(r, none, {}) /\ ReadsSame(r, s1)
    <3> HIDE DEF none
    <3> QED BY <2>6, <2>7, SameFramesOK
  <2>9. Latest(r, 0) = c /\ r.disk[0] = c
    BY <1>1, <1>5, <2>4, <2>5, <2>6, <2>7, <2>8 DEF ReadsSame, c
  <2>10. \A p \in PageIds : p # 0 => Latest(r, p) = d[p] /\ r.disk[p] = d[p]
    BY <1>5, <2>4, <2>5, <2>6, <2>7, <2>8 DEF ReadsSame
  <2>11. \A p \in PageIds : r.dir[p] # NoFrame => p = 0
    BY <1>5, <2>4, <2>6, <2>7 DEF SameFrames
  <2> QED BY <2>1, <2>7, <2>8, <2>9, <2>10, <2>11
          DEF c, r, Opened, LoadedHead, LoadedImage
<1> QED BY <1>7, <1>8

\* The pool r has the bitmap of page 0 of the file d, or a fresh one when there
\* is none, which is then what page 0 reads; every other page is as in d.
FileOpened(r, d) ==
  /\ r.head.bits = IF ImageBits(d[0]) = {} THEN {0} ELSE ImageBits(d[0])
  /\ ImageBits(Latest(r, 0)) = r.head.bits
  /\ r.disk[0] \in {d[0], Latest(r, 0)}
  /\ \A p \in PageIds : p # 0 => Latest(r, p) = d[p] /\ r.disk[p] = d[p]

\* The constructor, on a file a pool left.
LEMMA OpenFacts ==
  ASSUME NEW Content, Zero \in Content, HeadImage \subseteq Content,
         NEW d \in [PageIds -> Content], ImageOK(d[0])
  PROVE  LET r == OpenPool(d)
             none == [p \in PageIds |-> 0]
         IN  /\ PoolOK(Content, r, none) /\ CleanOK(r, none, {}) /\ HeadOK(r)
             /\ FileOpened(r, d)
<1> DEFINE none == [p \in PageIds |-> 0]
           r == OpenPool(d)
           c == d[0]
<1>1. 0 \in PageIds /\ LastPid \in Nat /\ BitsPerByte \in Nat \ {0}
  BY PoolAssumption DEF PageIds
<1>2. c # Zero => /\ c \in HeadImage /\ c.pageNum \in Nat \ {0} /\ c.phyNum \in Nat
                  /\ c.phyNum <= c.pageNum /\ c.phyNum \in 1..LastPid+1
                  /\ c.pageNum = c.phyNum /\ c.bits = 0..c.phyNum-1
  BY <1>1 DEF ImageOK
<1>3. Opened(Content, r, d)
  BY <1>2, OpenIs
<1> HIDE DEF r
<1>4. /\ PoolOK(Content, r, none) /\ CleanOK(r, none, {})
      /\ r.head = LoadedHead(c) /\ r.next = r.head.phyNum
      /\ Latest(r, 0) = LoadedImage(c) /\ r.disk[0] \in {c, Latest(r, 0)}
      /\ \A p \in PageIds : p # 0 => Latest(r, p) = d[p] /\ r.disk[p] = d[p]
      /\ \A p \in PageIds : r.dir[p] # NoFrame => p = 0
  BY <1>3 DEF Opened
<1> HIDE DEF none, c
<1>5. /\ r.head.phyNum \in 1..LastPid+1 /\ r.head.pageNum = r.head.phyNum
      /\ r.head.bits = 0..r.head.phyNum-1
      /\ r.head.phyNum <= r.head.bytes * BitsPerByte
      /\ ImageOK(Latest(r, 0)) /\ Latest(r, 0) # Zero
      /\ Latest(r, 0).phyNum = r.head.phyNum /\ Latest(r, 0).bits = r.head.bits
  <2>1. CASE c = Zero
    <3>1. r.head = FreshHead /\ Latest(r, 0) = FreshImage
      BY <1>4, <2>1 DEF LoadedHead, LoadedImage
    <3>2. 1 <= 1 * BitsPerByte /\ {0} = 0..1-1
      BY <1>1
    <3>3. ImageOK(FreshImage)
      BY <1>1, <3>2, FreshFacts DEF ImageOK, FreshImage
    <3> QED BY <1>1, <3>1, <3>2, <3>3, FreshFacts DEF FreshHead, FreshImage
  <2>2. CASE c # Zero
    <3> DEFINE hd == LoadHead(c)
               m == hd.bytes * BitsPerByte
    <3>1. r.head = hd /\ Latest(r, 0) = c
      BY <1>4, <2>2 DEF LoadedHead, LoadedImage
    <3>2. /\ hd.pageNum = c.pageNum /\ hd.phyNum = c.phyNum /\ hd.bytes \in Nat
          /\ hd.bits = {i \in c.bits : i < m} /\ c.phyNum <= m
      BY <1>2, <2>2, LoadHeadIs
    <3>3. m \in Nat
      BY <1>1, <3>2
    <3> HIDE DEF hd, m
    <3>4. hd.bits = c.bits
      BY <1>1, <1>2, <2>2, <3>2, <3>3
    <3>5. ImageOK(c)
      BY DEF c
    <3> QED BY <1>2, <2>2, <3>1, <3>2, <3>4, <3>5 DEF m
  <2> QED BY <2>1, <2>2
<1>6. 0 \in r.head.bits
  BY <1>1, <1>5
<1>7. HeadOK(r)
  <2>1. ImageOK(r.disk[0])
    BY <1>4, <1>5 DEF c
  <2>2. \A p \in PageIds : r.dir[p] # NoFrame => p \in r.head.bits
    BY <1>4, <1>6
  <2>3. Latest(r, 0).phyNum <= r.next
    BY <1>1, <1>4, <1>5
  <2> QED BY <1>4, <1>5, <2>1, <2>2, <2>3 DEF HeadOK
<1>8. FileOpened(r, d)
  <2>1. ImageBits(Latest(r, 0)) = r.head.bits
    BY <1>5 DEF ImageBits
  <2>2. r.head.bits = IF ImageBits(c) = {} THEN {0} ELSE ImageBits(c)
    <3>1. CASE c = Zero
      <4>1. r.head.bits = {0}
        BY <1>4, <3>1 DEF LoadedHead, FreshHead
      <4> QED BY <3>1, <4>1 DEF ImageBits
    <3>2. CASE c # Zero
      <4>1. ImageBits(c) = r.head.bits
        BY <1>4, <1>5, <3>2 DEF LoadedImage, ImageBits
      <4> QED BY <1>6, <4>1
    <3> QED BY <3>1, <3>2
  <2> QED BY <1>4, <2>1, <2>2 DEF FileOpened, c
<1> QED BY <1>4, <1>7, <1>8 DEF none, r
-----------------------------------------------------------------------------
(* The header when pages may be deleted.  A restart can lose bits, because   *)
(* bitmap_ is read back with the bytes for page_num_ bits, but never page 0: *)
(* every page in the pool has its bit, the bits are below next_page_id_, and *)
(* page_num_ is at least the bits there are, those left in page 0 included.  *)

\* A page 0 some pool wrote, or none.
FileHeadOK(c) ==
  c # Zero => /\ c \in HeadImage /\ 0 \in c.bits
              /\ \A p \in c.bits : p < c.phyNum
              /\ Cardinality(c.bits) <= c.pageNum

HeadFits(s) ==
  /\ 0 \in s.head.bits /\ s.next <= s.head.phyNum
  /\ \A p \in s.head.bits : p < s.next /\ p < s.head.bytes * BitsPerByte
  /\ \A p \in PageIds : s.dir[p] # NoFrame => p \in s.head.bits
  /\ Cardinality(s.head.bits \cup KeptBits(s)) <= s.head.pageNum
  /\ FileHeadOK(Latest(s, 0)) /\ FileHeadOK(s.disk[0])
  /\ Latest(s, 0) # Zero => Latest(s, 0).phyNum <= s.head.phyNum

\* A call from s to r that has nothing to do with the header: no page enters the
\* pool but one in use, and page 0 of the file gets nothing but its latest.
HeadAlike(r, s) ==
  /\ r.head = s.head /\ r.next = s.next
  /\ Latest(r, 0) = Latest(s, 0) /\ r.disk[0] \in {s.disk[0], Latest(s, 0)}
  /\ \A p \in PageIds : r.dir[p] # NoFrame => p \in s.head.bits \/ s.dir[p] # NoFrame

LEMMA HeadStaysOK ==
  ASSUME NEW s, NEW r, HeadOK(s), HeadAlike(r, s)
  PROVE  HeadOK(r)
BY DEF HeadAlike, HeadOK

LEMMA HeadStaysFit ==
  ASSUME NEW s, NEW r, HeadFits(s), HeadAlike(r, s)
  PROVE  HeadFits(r)
<1>1. KeptBits(r) = KeptBits(s)
  BY DEF HeadAlike, KeptBits
<1> QED BY <1>1 DEF HeadAlike, HeadFits

LEMMA PagesFinite ==
  ASSUME NEW B \in SUBSET PageIds
  PROVE  IsFiniteSet(B) /\ Cardinality(B) \in Nat
<1>1. IsFiniteSet(PageIds)
  BY PoolAssumption, FS_Interval DEF PageIds
<1> QED BY <1>1, FS_Subset, FS_CardinalityType

\* An image is read with a page_num_ that is not 0, so the constructor takes it
\* for one.
LEMMA FileHeadIs ==
  ASSUME NEW c, FileHeadOK(c), c # Zero
  PROVE  c \in HeadImage /\ c.pageNum \in Nat \ {0} /\ c.phyNum \in Nat
         /\ c.bits \subseteq PageIds
<1>1. c \in HeadImage /\ c.pageNum \in Int /\ c.phyNum \in Nat /\ c.bits \in SUBSET PageIds
      /\ 0 \in c.bits /\ Cardinality(c.bits) <= c.pageNum
  BY DEF FileHeadOK, HeadImage
<1>2. IsFiniteSet(c.bits) /\ Cardinality(c.bits) \in Nat /\ Cardinality(c.bits) # 0
  BY <1>1, PagesFinite, FS_EmptySet
<1> QED BY <1>1, <1>2

LEMMA FitFacts ==
  ASSUME NEW Content, NEW s \in PoolType(Content), HeadFits(s)
  PROVE  /\ s.next \in Nat /\ s.head.phyNum \in Nat /\ s.head.pageNum \in Int
         /\ s.head.bits \in SUBSET PageIds /\ s.head.bytes * BitsPerByte \in Nat
         /\ ImageBits(Latest(s, 0)) \subseteq PageIds /\ KeptBits(s) \in SUBSET PageIds
         /\ \A p \in KeptBits(s) : p < s.head.phyNum /\ p >= s.head.bytes * BitsPerByte
<1>1. /\ s.head \in [pageNum : Int, phyNum : Nat, bytes : Nat, bits : SUBSET PageIds]
      /\ s.next \in Nat /\ s.head.bytes * BitsPerByte \in Nat
  BY PoolAssumption DEF PoolType
<1> DEFINE c == Latest(s, 0)
           m == s.head.bytes * BitsPerByte
<1>2. c # Zero => /\ c.bits \subseteq PageIds /\ c.phyNum \in Nat /\ c.phyNum <= s.head.phyNum
                  /\ \A p \in c.bits : p < c.phyNum
  BY FileHeadIs DEF HeadFits, FileHeadOK
<1>3. ImageBits(c) \subseteq PageIds /\ \A p \in ImageBits(c) : p < s.head.phyNum
  BY <1>1, <1>2 DEF ImageBits, PageIds
<1>4. KeptBits(s) = {i \in ImageBits(c) : i >= m}
  BY DEF KeptBits
<1> HIDE DEF c, m
<1> QED BY <1>1, <1>3, <1>4 DEF c, m

\* The image of a header that fits is one a constructor can take.
LEMMA SavedImageFits ==
  ASSUME NEW Content, NEW s \in PoolType(Content), HeadFits(s)
  PROVE  FileHeadOK(SavedImage(s))
<1> DEFINE v == SavedImage(s)
<1>1. /\ s.next \in Nat /\ s.head.phyNum \in Nat
      /\ s.head.bits \in SUBSET PageIds /\ KeptBits(s) \in SUBSET PageIds
      /\ ImageBits(Latest(s, 0)) \subseteq PageIds
      /\ \A p \in KeptBits(s) : p < s.head.phyNum
  BY FitFacts
<1>2. v \in HeadImage /\ v # Zero
  BY <1>1, SavedImageIs
<1>3. /\ v.pageNum = s.head.pageNum /\ v.phyNum = s.head.phyNum
      /\ v.bits = s.head.bits \cup KeptBits(s)
  BY DEF SavedImage
<1> HIDE DEF v
<1>4. \A p \in s.head.bits : p < s.head.phyNum
  BY <1>1 DEF HeadFits, PageIds
<1>5. FileHeadOK(v)
  BY <1>1, <1>2, <1>3, <1>4 DEF FileHeadOK, HeadFits
<1> QED BY <1>5 DEF v

\* Saving head_ leaves it fit.
LEMMA SavedFits ==
  ASSUME NEW Content, NEW s \in PoolType(Content), HeadFits(s), NEW r, NEW h, NEW W,
         Saved(Content, r, s, h, W)
  PROVE  HeadFits(r) /\ KeptBits(r) = KeptBits(s)
<1> DEFINE v == SavedImage(s)
           m == s.head.bytes * BitsPerByte
<1>1. /\ s.head.phyNum \in Nat /\ s.head.bits \in SUBSET PageIds /\ m \in Nat
      /\ ImageBits(Latest(s, 0)) \subseteq PageIds /\ KeptBits(s) \in SUBSET PageIds
      /\ \A p \in KeptBits(s) : p >= m
  BY FitFacts
<1>2. /\ v # Zero /\ ImageBits(v) = s.head.bits \cup KeptBits(s)
      /\ FileHeadOK(v) /\ v.phyNum = s.head.phyNum
  BY <1>1, SavedImageIs, SavedImageFits DEF SavedImage
<1>3. /\ 0 \in PageIds /\ r.head = s.head /\ r.next = s.next /\ Latest(r, 0) = v
      /\ r.disk[0] \in {s.disk[0], Latest(s, 0)}
      /\ \A p \in PageIds : r.dir[p] # NoFrame => p = 0 \/ s.dir[p] # NoFrame
  BY PoolAssumption DEF Saved, OnlyNow, PageIds
<1> HIDE DEF v, m
<1>4. KeptBits(r) = KeptBits(s)
  <2>1. KeptBits(r) = {i \in s.head.bits \cup KeptBits(s) : i >= m}
    BY <1>2, <1>3 DEF KeptBits, m
  <2>2. ASSUME NEW i \in s.head.bits PROVE ~(i >= m)
    BY <1>1 DEF PageIds, HeadFits, m
  <2> QED BY <1>1, <2>1, <2>2
<1>5. FileHeadOK(r.disk[0])
  BY <1>3 DEF HeadFits
<1>6. v.phyNum <= s.head.phyNum
  BY <1>1, <1>2
<1> QED BY <1>2, <1>3, <1>4, <1>5, <1>6 DEF HeadFits

\* What the constructor reads of such a file fits.
LEMMA OpenFits ==
  ASSUME NEW Content, NEW d \in [PageIds -> Content], FileHeadOK(d[0]),
         NEW r, Opened(Content, r, d)
  PROVE  HeadFits(r)
<1> DEFINE c == d[0]
           m == r.head.bytes * BitsPerByte
<1>1. 0 \in PageIds /\ BitsPerByte \in Nat \ {0}
  BY PoolAssumption DEF PageIds
<1>2. /\ r.head = LoadedHead(c) /\ r.next = r.head.phyNum
      /\ Latest(r, 0) = LoadedImage(c) /\ r.disk[0] \in {c, Latest(r, 0)}
      /\ \A p \in PageIds : r.dir[p] # NoFrame => p = 0
  BY DEF Opened
<1>3. FileHeadOK(c)
  OBVIOUS
<1> HIDE DEF c
<1>4. /\ LoadedImage(c) # Zero /\ FileHeadOK(LoadedImage(c))
      /\ r.head.pageNum = LoadedImage(c).pageNum /\ r.head.phyNum = LoadedImage(c).phyNum
      /\ r.head.bits = {i \in LoadedImage(c).bits : i < m}
      /\ 0 < m /\ m \in Nat /\ r.head.phyNum \in Nat
      /\ LoadedImage(c).bits \subseteq PageIds
  <2>1. CASE c = Zero
    <3>1. r.head = FreshHead /\ LoadedImage(c) = FreshImage
      BY <1>2, <2>1 DEF LoadedHead, LoadedImage
    <3>2. m = BitsPerByte
      BY <1>1, <3>1 DEF FreshHead
    <3>3. Cardinality({0}) = 1
      BY FS_Singleton
    <3>4. FileHeadOK(FreshImage)
      BY <3>3, FreshFacts DEF FileHeadOK, FreshImage
    <3> HIDE DEF m
    <3>5. {0} = {i \in {0} : i < m} /\ 0 < m /\ m \in Nat
      BY <1>1, <3>2
    <3> QED BY <1>1, <3>1, <3>4, <3>5, FreshFacts DEF FreshHead, FreshImage
  <2>2. CASE c # Zero
    <3>1. r.head = LoadHead(c) /\ LoadedImage(c) = c
      BY <1>2, <2>2 DEF LoadedHead, LoadedImage
    <3>2. /\ c \in HeadImage /\ c.pageNum \in Nat \ {0} /\ c.phyNum \in Nat
          /\ c.bits \subseteq PageIds
      BY <1>3, <2>2, FileHeadIs
    <3>3. /\ r.head.pageNum = c.pageNum /\ r.head.phyNum = c.phyNum
          /\ r.head.bytes \in Nat \ {0}
          /\ r.head.bits = {i \in c.bits : i < m}
      BY <3>1, <3>2, LoadHeadIs
    <3>4. 0 < m /\ m \in Nat
      BY <1>1, <3>3
    <3> HIDE DEF m
    <3> QED BY <1>3, <2>2, <3>1, <3>2, <3>3, <3>4
  <2> QED BY <2>1, <2>2
<1> DEFINE v == LoadedImage(c)
<1>5. KeptBits(r) = {i \in v.bits : i >= m}
  BY <1>2, <1>4 DEF KeptBits, ImageBits
<1> HIDE DEF m, v
<1>6. v.bits \subseteq PageIds /\ 0 \in v.bits /\ Cardinality(v.bits) <= v.pageNum
      /\ \A p \in v.bits : p < v.phyNum
  BY <1>4 DEF FileHeadOK, v
<1>7. r.head.bits \cup KeptBits(r) = v.bits
  <2>1. \A i \in v.bits : i \in Int
    BY <1>6 DEF PageIds
  <2> QED BY <1>4, <1>5, <2>1 DEF v
<1>8. 0 \in r.head.bits
  BY <1>4, <1>6 DEF v
<1>9. \A p \in r.head.bits : p < r.next /\ p < m
  BY <1>2, <1>4, <1>6 DEF v
<1>10. FileHeadOK(r.disk[0]) /\ FileHeadOK(Latest(r, 0))
  BY <1>2, <1>3, <1>4
<1>11. Latest(r, 0).phyNum <= r.head.phyNum /\ r.next <= r.head.phyNum
  BY <1>2, <1>4
<1>12. Cardinality(r.head.bits \cup KeptBits(r)) <= r.head.pageNum
  BY <1>4, <1>6, <1>7 DEF v
<1> QED BY <1>2, <1>8, <1>9, <1>10, <1>11, <1>12 DEF HeadFits, m

\* The id new_page picks is in no bit of bitmap_, deletions or not.
LEMMA PickedIsClear ==
  ASSUME NEW Content, NEW s \in PoolType(Content), HeadFits(s)
  PROVE  LET p == PickedPid(s)
         IN  /\ p \in Nat /\ p \notin s.head.bits /\ p <= s.next
             /\ AfterPick(s).next \in {s.next, s.next + 1} /\ p < AfterPick(s).next
             /\ p < s.next => p < s.head.bytes * BitsPerByte
<1> DEFINE m == s.head.bytes * BitsPerByte
           p == PickedPid(s)
<1>1. s.next \in Nat /\ m \in Nat /\ s.head.bits \in SUBSET PageIds
  BY FitFacts
<1> HIDE DEF m
<1>2. CASE Reuses(s)
  <2> DEFINE T == ClearBits(s)
  <2>1. T = {i \in 0..(m - 1) : i \notin s.head.bits}
    BY DEF ClearBits, m
  <2>2. T \subseteq Nat /\ \E i \in T : i < s.next - 1
    BY <1>1, <1>2, <2>1 DEF Reuses, CurrentPid
  <2>3. \E i \in T : \A j \in T : i <= j
    <3> HIDE DEF T
    <3>1. PICK i \in T : \A j \in T : ~(<<j, i>> \in OpToRel(<, Nat))
      BY <2>2, NatLessThanWellFounded, WFMin
    <3>2. \A j \in T : ~(j < i)
      BY <2>2, <3>1 DEF OpToRel
    <3> QED BY <2>2, <3>2
  <2>4. p \in T /\ \A j \in T : p <= j
    <3>1. p = CHOOSE i \in T : \A j \in T : i <= j
      BY <1>2 DEF PickedPid
    <3> HIDE DEF p, T
    <3> QED BY <2>3, <3>1
  <2>5. p < s.next - 1
    BY <1>1, <2>2, <2>4
  <2>6. AfterPick(s).next = s.next
    BY <1>2 DEF AfterPick
  <2> HIDE DEF p, T
  <2> QED BY <1>1, <2>1, <2>4, <2>5, <2>6 DEF m, p
<1>3. CASE ~Reuses(s)
  <2>1. p = s.next
    BY <1>3 DEF PickedPid
  <2>2. AfterPick(s).next = s.next + 1
    BY <1>3 DEF AfterPick, PoolType
  <2>3. p \notin s.head.bits
    BY <1>1, <2>1 DEF HeadFits
  <2> QED BY <1>1, <2>1, <2>2, <2>3
<1> QED BY <1>2, <1>3

LEMMA NewPageFits ==
  ASSUME NEW Content, NEW s \in PoolType(Content), HeadFits(s), NEW r, NEW h, NEW W,
         PickedPid(s) \in PageIds, NewPageLeaves(Content, r, s, h, W)
  PROVE  HeadFits(r) /\ KeptBits(r) \subseteq KeptBits(s)
<1> DEFINE p == PickedPid(s)
           m == s.head.bytes * BitsPerByte
           n == r.head.bytes * BitsPerByte
<1>1. /\ s.next \in Nat /\ s.head.phyNum \in Nat /\ s.head.pageNum \in Int
      /\ s.head.bits \in SUBSET PageIds /\ m \in Nat
      /\ ImageBits(Latest(s, 0)) \subseteq PageIds /\ KeptBits(s) \in SUBSET PageIds
  BY FitFacts
<1>2. /\ p \in Nat /\ p \notin s.head.bits /\ p <= s.next
      /\ r.next \in {s.next, s.next + 1} /\ p < r.next
      /\ p < s.next => p < m
  BY PickedIsClear DEF NewPageLeaves
<1>3. /\ Preserves(r, s, h, p) /\ r.head = Allocate(s.head, p) /\ p \in PageIds
      /\ 0 \in PageIds
  BY PoolAssumption DEF NewPageLeaves, PageIds
<1> HIDE DEF p
<1>4. 0 \in s.head.bits /\ p # 0
  BY <1>2 DEF HeadFits
<1>5. /\ r.head.pageNum = s.head.pageNum + 1 /\ r.head.phyNum = s.head.phyNum + 1
      /\ r.head.bits = s.head.bits \cup {p}
      /\ r.head.bytes = IF p < m THEN s.head.bytes ELSE p \div BitsPerByte + 1
  BY <1>3 DEF Allocate
<1>6. p < n /\ m <= n /\ n \in Nat
  <2>1. CASE p < m
    BY <1>1, <1>5, <2>1
  <2>2. CASE ~(p < m)
    <3>1. n = (p \div BitsPerByte + 1) * BitsPerByte
      BY <1>5, <2>2
    <3>2. p < n
      BY <1>2, <3>1, DivBound
    <3>3. n \in Nat
      <4>1. p \div BitsPerByte \in Nat /\ BitsPerByte \in Nat
        BY <1>2, PoolAssumption
      <4> QED BY <3>1, <4>1
    <3> HIDE DEF m, n
    <3> QED BY <1>1, <1>2, <2>2, <3>2, <3>3
  <2> QED BY <2>1, <2>2
<1> HIDE DEF m, n
<1>7. Latest(r, 0) = Latest(s, 0) /\ r.disk[0] \in {s.disk[0], Latest(s, 0)}
  BY <1>3, <1>4 DEF Preserves
<1>8. KeptBits(r) \subseteq KeptBits(s)
  BY <1>1, <1>6, <1>7 DEF KeptBits, m, n, PageIds
<1>9. Cardinality(r.head.bits \cup KeptBits(r)) <= r.head.pageNum
  <2> DEFINE A == s.head.bits \cup KeptBits(s)
             B == r.head.bits \cup KeptBits(r)
  <2>1. B \subseteq A \cup {p} /\ A \in SUBSET PageIds
    BY <1>1, <1>5, <1>8
  <2>2. Cardinality(A) <= s.head.pageNum
    BY DEF HeadFits
  <2> HIDE DEF A, B
  <2>3. IsFiniteSet(A) /\ Cardinality(A) \in Nat
    BY <2>1, PagesFinite
  <2>4. /\ IsFiniteSet(A \cup {p}) /\ Cardinality(A \cup {p}) \in Nat
        /\ Cardinality(A \cup {p}) <= Cardinality(A) + 1
    <3>1. p \in A => A \cup {p} = A
      OBVIOUS
    <3>2. p \notin A => /\ IsFiniteSet(A \cup {p})
                       /\ Cardinality(A \cup {p}) = Cardinality(A) + 1
      BY <2>3, FS_AddElement
    <3> QED BY <2>3, <3>1, <3>2
  <2>5. IsFiniteSet(B) /\ Cardinality(B) <= Cardinality(A \cup {p}) /\ Cardinality(B) \in Nat
    BY <2>1, <2>4, FS_Subset, FS_CardinalityType
  <2>6. Cardinality(B) <= s.head.pageNum + 1
    BY <1>1, <2>2, <2>3, <2>4, <2>5
  <2> QED BY <1>5, <2>6 DEF B
<1>10. \A q \in r.head.bits : q < r.next /\ q < n
  <2>1. \A q \in s.head.bits : q < s.next /\ q < m /\ q \in Nat
    BY <1>1 DEF HeadFits, m, PageIds
  <2> QED BY <1>1, <1>2, <1>5, <1>6, <2>1
<1>11. r.next <= r.head.phyNum
  BY <1>1, <1>2, <1>5 DEF HeadFits
<1>12. \A q \in PageIds : r.dir[q] # NoFrame => q \in r.head.bits
  BY <1>3, <1>5 DEF Preserves, HeadFits
<1>13. Latest(r, 0) # Zero => Latest(r, 0).phyNum <= r.head.phyNum
  <2>1. SUFFICES ASSUME Latest(s, 0) # Zero PROVE Latest(s, 0).phyNum <= s.head.phyNum + 1
    BY <1>5, <1>7
  <2>2. Latest(s, 0).phyNum <= s.head.phyNum /\ Latest(s, 0).phyNum \in Nat
    BY <2>1, FileHeadIs DEF HeadFits
  <2> QED BY <1>1, <2>2
<1>14. FileHeadOK(Latest(r, 0)) /\ FileHeadOK(r.disk[0]) /\ 0 \in r.head.bits
  BY <1>4, <1>5, <1>7 DEF HeadFits
<1> QED BY <1>8, <1>9, <1>10, <1>11, <1>12, <1>13, <1>14 DEF HeadFits, n

\* The pool r is the pool s after delete_page has given back the frame of page
\* id, pins and unreported writes with it.
Forgotten(Content, r, s, h, W, id) ==
  /\ PoolOK(Content, r, [h EXCEPT ![id] = 0])
  /\ CleanOK(r, [h EXCEPT ![id] = 0], W \ {id})
  /\ r.head = s.head /\ r.next = s.next /\ r.disk = s.disk
  /\ r.dir = [s.dir EXCEPT ![id] = NoFrame]
  /\ \A p \in PageIds : p # id => Latest(r, p) = Latest(s, p)

\* A page that is held: its frame is not in the replacer, so that it is in one
\* place when it is back on the free list.
LEMMA ForgetFacts ==
  ASSUME NEW Content, Zero \in Content,
         NEW s, NEW h, PoolOK(Content, s, h), NEW W, CleanOK(s, h, W),
         NEW id \in PageIds, s.dir[id] # NoFrame, h[id] > 0
  PROVE  Forgotten(Content, ForgetFrame(s, id), s, h, W, id)
<1> DEFINE f == s.dir[id]
           nf == EmptyFrame
           r == ForgetFrame(s, id)
           k == [h EXCEPT ![id] = 0]
<1>1. /\ s.dir \in [PageIds -> Frames \cup {NoFrame}]
      /\ s.frames \in [Frames -> [pid : PageIds \cup {NoPid}, pin : 0..PinMax,
                                  dirty : BOOLEAN, data : Content]]
      /\ s.free \in Seq(Frames) /\ s.lru \in Seq(Frames)
      /\ s \in PoolType(Content) /\ h \in [PageIds -> 0..PinMax]
      /\ 0 \in 0..PinMax /\ NoPid \notin PageIds /\ NoFrame \notin Frames
  <2>1. 0 \in 0..PinMax /\ NoPid \notin PageIds /\ NoFrame \notin Frames
    BY PoolAssumption DEF NoPid, PageIds, NoFrame, Frames
  <2> QED BY <2>1 DEF PoolOK, PoolType, PinsAgree
<1>2. f \in Frames /\ s.frames[f].pid = id /\ s.frames[f].pin = h[id]
  BY <1>1 DEF PoolOK, DirInverse, PinsAgree
<1>3. f \notin ToSet(s.free) /\ f \notin ToSet(s.lru)
  BY <1>1, <1>2 DEF PoolOK, FramesPartitioned
<1>4. Distinct(Frames, <<f>> \o s.free) /\ ToSet(<<f>> \o s.free) = ToSet(s.free) \cup {f}
  BY <1>1, <1>2, <1>3, PushFrontFacts DEF PoolOK, FramesPartitioned, Distinct
<1>5. /\ nf \in [pid : PageIds \cup {NoPid}, pin : 0..PinMax, dirty : BOOLEAN, data : Content]
      /\ nf.pid = NoPid /\ nf.pin = 0
  BY <1>1 DEF EmptyFrame, ClearedFrame
<1> HIDE DEF nf
<1>6. r = [s EXCEPT !.frames[f] = nf, !.free = <<f>> \o s.free, !.dir[id] = NoFrame]
  BY DEF ForgetFrame, nf
<1> HIDE DEF r, f
<1>7. /\ r.dir = [s.dir EXCEPT ![id] = NoFrame]
      /\ r.frames = [s.frames EXCEPT ![f] = nf]
      /\ r.free = <<f>> \o s.free /\ r.lru = s.lru
      /\ r.head = s.head /\ r.next = s.next /\ r.disk = s.disk
      /\ r \in PoolType(Content)
  BY <1>1, <1>2, <1>4, <1>5, <1>6 DEF PoolType, Distinct
<1>8. ASSUME NEW p \in PageIds, p # id
      PROVE  /\ r.dir[p] = s.dir[p] /\ r.dir[p] # f
             /\ s.dir[p] # NoFrame => r.frames[s.dir[p]] = s.frames[s.dir[p]]
  <2>1. s.dir[p] # f
    BY <1>1, <1>2, <1>8 DEF PoolOK, DirInverse
  <2> QED BY <1>1, <1>2, <1>7, <1>8, <2>1
<1>9. r.dir[id] = NoFrame /\ r.frames[f] = nf
  BY <1>1, <1>2, <1>7
<1>10. ASSUME NEW g \in Frames, g # f PROVE r.frames[g] = s.frames[g]
  BY <1>1, <1>7, <1>10
<1>11. ASSUME NEW g \in Frames, g # f PROVE s.frames[g].pid # id
  BY <1>1, <1>2, <1>11 DEF PoolOK, DirInverse, f
<1>12. DirInverse(r)
  <2>1. ASSUME NEW p \in PageIds, r.dir[p] # NoFrame PROVE r.frames[r.dir[p]].pid = p
    <3>1. p # id
      BY <1>9, <2>1
    <3>2. r.dir[p] = s.dir[p] /\ r.frames[s.dir[p]] = s.frames[s.dir[p]]
      BY <1>8, <2>1, <3>1
    <3> QED BY <2>1, <3>2 DEF PoolOK, DirInverse
  <2>2. ASSUME NEW g \in Frames, r.frames[g].pid # NoPid PROVE r.dir[r.frames[g].pid] = g
    <3>1. g # f /\ r.frames[g] = s.frames[g]
      BY <1>5, <1>9, <1>10, <2>2
    <3>2. s.frames[g].pid \in PageIds /\ s.frames[g].pid # id
      BY <1>1, <1>11, <2>2, <3>1
    <3>3. s.dir[s.frames[g].pid] = g
      BY <2>2, <3>1 DEF PoolOK, DirInverse
    <3> QED BY <1>8, <3>1, <3>2, <3>3
  <2> QED BY <2>1, <2>2 DEF DirInverse
<1>13. FramesPartitioned(r)
  <2>1. IsInjective(r.free) /\ IsInjective(r.lru)
    BY <1>4, <1>7 DEF Distinct, PoolOK, FramesPartitioned
  <2>2. ASSUME NEW g \in Frames
        PROVE  /\ g \in ToSet(r.free) <=> r.frames[g].pid = NoPid
               /\ g \in ToSet(r.lru) <=> r.frames[g].pid # NoPid /\ r.frames[g].pin = 0
    <3>1. CASE g = f
      BY <1>3, <1>4, <1>5, <1>7, <1>9, <3>1
    <3>2. CASE g # f
      <4>1. r.frames[g] = s.frames[g]
        BY <1>10, <3>2
      <4> QED BY <1>4, <1>7, <3>2, <4>1 DEF PoolOK, FramesPartitioned
    <3> QED BY <3>1, <3>2
  <2> QED BY <2>1, <2>2 DEF FramesPartitioned
<1>14. k \in [PageIds -> 0..PinMax] /\ k[id] = 0 /\ \A p \in PageIds : p # id => k[p] = h[p]
  BY <1>1
<1> HIDE DEF k
<1>15. PinsAgree(r, k)
  <2>1. ASSUME NEW p \in PageIds, r.dir[p] = NoFrame PROVE k[p] = 0
    BY <1>8, <1>14, <2>1 DEF PoolOK, PinsAgree
  <2>2. ASSUME NEW p \in PageIds, r.dir[p] # NoFrame PROVE r.frames[r.dir[p]].pin = k[p]
    <3>1. p # id
      BY <1>9, <2>2
    <3>2. r.dir[p] = s.dir[p] /\ r.frames[s.dir[p]] = s.frames[s.dir[p]] /\ k[p] = h[p]
      BY <1>8, <1>14, <2>2, <3>1
    <3> QED BY <2>2, <3>2 DEF PoolOK, PinsAgree
  <2>3. ASSUME NEW g \in Frames, r.frames[g].pid = NoPid PROVE r.frames[g].pin = 0
    BY <1>5, <1>9, <1>10, <2>3 DEF PoolOK, PinsAgree
  <2> QED BY <1>14, <2>1, <2>2, <2>3 DEF PinsAgree
<1>16. CleanOK(r, k, W \ {id})
  <2>1. ASSUME NEW p \in PageIds, r.dir[p] # NoFrame
        PROVE  \/ r.frames[r.dir[p]].dirty
               \/ r.frames[r.dir[p]].data = r.disk[p]
               \/ p \in W \ {id}
    <3>1. p # id
      BY <1>9, <2>1
    <3>2. r.dir[p] = s.dir[p] /\ r.frames[s.dir[p]] = s.frames[s.dir[p]]
      BY <1>8, <2>1, <3>1
    <3> QED BY <1>7, <2>1, <3>1, <3>2 DEF CleanOK
  <2>2. \A p \in W \ {id} : p \in PageIds /\ k[p] > 0
    BY <1>14 DEF CleanOK
  <2> QED BY <2>1, <2>2 DEF CleanOK
<1>17. \A p \in PageIds : p # id => Latest(r, p) = Latest(s, p)
  BY <1>7, <1>8 DEF Latest
<1> QED BY <1>7, <1>12, <1>13, <1>15, <1>16, <1>17 DEF Forgotten, PoolOK, k, r

\* The pool r is what delete_page(id) leaves of s, which had page id: head_ is
\* saved in page 0 if there was a frame for it.
DeletedHead(s, id) == [s.head EXCEPT !.bits = @ \ {id}, !.pageNum = @ - 1]
Deleted(Content, r, s, h, W, id) ==
  /\ PoolOK(Content, r, [h EXCEPT ![id] = 0])
  /\ CleanOK(r, [h EXCEPT ![id] = 0], W \ {id})
  /\ HeadFits(r) /\ KeptBits(r) = KeptBits(s)
  /\ r.head = DeletedHead(s, id) /\ r.next = s.next
  /\ \/ s.dir[id] = NoFrame /\ Latest(r, 0) = Latest(s, 0)
     \/ Latest(r, 0) = [pageNum |-> r.head.pageNum, phyNum |-> r.head.phyNum,
                        bits |-> r.head.bits \cup KeptBits(s)]
  /\ \A p \in PageIds : /\ p \notin {0, id} => Latest(r, p) = Latest(s, p)
                        /\ p # id /\ h[p] > 0 => r.dir[p] = s.dir[p]
                        /\ r.disk[p] \in {s.disk[p], Latest(s, p)}

\* Without its page id, which was in use, head_ fits as before.
LEMMA DeletedHeadFits ==
  ASSUME NEW Content, NEW s \in PoolType(Content), HeadFits(s),
         NEW id \in s.head.bits, id # 0,
         NEW t, t.head = DeletedHead(s, id), t.next = s.next, t.disk = s.disk,
         t.dir = [s.dir EXCEPT ![id] = NoFrame], Latest(t, 0) = Latest(s, 0)
  PROVE  HeadFits(t) /\ KeptBits(t) = KeptBits(s)
<1>1. /\ s.head \in [pageNum : Int, phyNum : Nat, bytes : Nat, bits : SUBSET PageIds]
      /\ s.dir \in [PageIds -> Frames \cup {NoFrame}]
  BY DEF PoolType
<1>2. /\ t.head.bits = s.head.bits \ {id} /\ t.head.pageNum = s.head.pageNum - 1
      /\ t.head.phyNum = s.head.phyNum /\ t.head.bytes = s.head.bytes
  BY <1>1 DEF DeletedHead
<1>3. KeptBits(t) = KeptBits(s)
  BY <1>2 DEF KeptBits
<1> DEFINE m == s.head.bytes * BitsPerByte
<1>4. /\ KeptBits(s) \in SUBSET PageIds /\ s.head.bits \in SUBSET PageIds /\ m \in Nat
      /\ \A p \in KeptBits(s) : p >= m
  BY FitFacts
<1>5. \A p \in s.head.bits : p < m
  BY DEF HeadFits, m
<1> HIDE DEF m
<1>6. id \notin KeptBits(s)
  BY <1>4, <1>5 DEF PageIds
<1> DEFINE A == s.head.bits \cup KeptBits(s)
<1>7. Cardinality(t.head.bits \cup KeptBits(t)) <= t.head.pageNum
  <2>1. t.head.bits \cup KeptBits(t) = A \ {id}
    BY <1>2, <1>3, <1>6
  <2>2. id \in A /\ A \in SUBSET PageIds /\ Cardinality(A) <= s.head.pageNum
    BY <1>4 DEF HeadFits
  <2> HIDE DEF A
  <2>3. IsFiniteSet(A) /\ Cardinality(A) \in Nat
    BY <2>2, PagesFinite
  <2>4. Cardinality(A \ {id}) = Cardinality(A) - 1
    BY <2>2, <2>3, FS_RemoveElement
  <2>5. s.head.pageNum \in Int
    BY <1>1
  <2>6. Cardinality(A \ {id}) <= s.head.pageNum - 1
    BY <2>2, <2>3, <2>4, <2>5
  <2> QED BY <1>2, <2>1, <2>6
<1>8. \A p \in PageIds : t.dir[p] # NoFrame => p \in t.head.bits
  BY <1>1, <1>2 DEF HeadFits
<1> QED BY <1>2, <1>3, <1>7, <1>8 DEF HeadFits

LEMMA DeleteFacts ==
  ASSUME NEW Content, Zero \in Content, HeadImage \subseteq Content,
         NEW s, NEW h, PoolOK(Content, s, h), NEW W, CleanOK(s, h, W), HeadFits(s),
         NEW id \in s.head.bits, id # 0, s.dir[id] = NoFrame \/ h[id] > 0,
         h[0] < PinMax
  PROVE  Deleted(Content, DeletePage(s, id), s, h, W, id)
<1> DEFINE u == IF s.dir[id] # NoFrame THEN ForgetFrame(s, id) ELSE s
           t == [u EXCEPT !.head.bits = @ \ {id}, !.head.pageNum = @ - 1]
           r == DeletePage(s, id)
           k == [h EXCEPT ![id] = 0]
           V == W \ {id}
<1>1. /\ s \in PoolType(Content) /\ id \in PageIds /\ 0 \in PageIds
      /\ h \in [PageIds -> 0..PinMax] /\ s.head.phyNum \in Nat /\ s.next \in Nat
  BY PoolAssumption, FitFacts DEF PoolOK, PinsAgree, PageIds
<1>2. ~(id >= s.head.phyNum)
  BY <1>1 DEF HeadFits, PageIds
<1>3. r = SaveHead(t)
  BY <1>2 DEF DeletePage
<1>4. /\ PoolOK(Content, u, k) /\ CleanOK(u, k, V)
      /\ u.head = s.head /\ u.next = s.next /\ u.disk = s.disk
      /\ u.dir = [s.dir EXCEPT ![id] = NoFrame]
      /\ \A p \in PageIds : p # id => Latest(u, p) = Latest(s, p)
  <2>1. CASE s.dir[id] # NoFrame
    <3>1. Forgotten(Content, u, s, h, W, id)
      BY <1>1, <2>1, ForgetFacts
    <3> HIDE DEF u
    <3> QED BY <3>1 DEF Forgotten
  <2>2. CASE s.dir[id] = NoFrame
    <3>1. u = s
      BY <2>2
    <3>2. h[id] = 0
      BY <1>1, <2>2 DEF PoolOK, PinsAgree
    <3>3. k = h
      BY <1>1, <3>2
    <3>4. V = W
      BY <3>2 DEF CleanOK
    <3>5. s.dir = [s.dir EXCEPT ![id] = NoFrame]
      BY <1>1, <2>2 DEF PoolType
    <3> HIDE DEF u, k, V
    <3> QED BY <3>1, <3>3, <3>4, <3>5
  <2> QED BY <2>1, <2>2
<1>5. \A p \in V : p \in PageIds /\ k[p] > 0
  BY <1>4 DEF CleanOK
<1>6. k \in [PageIds -> 0..PinMax] /\ k[0] < PinMax
      /\ \A p \in PageIds : p # id => k[p] = h[p]
  <2>1. k[0] = h[0]
    BY <1>1
  <2> QED BY <1>1, <1>4, <2>1 DEF PoolOK, PinsAgree
<1> HIDE DEF u, k, V
<1>7. u \in PoolType(Content)
  BY <1>4 DEF PoolOK
<1>8. /\ t \in PoolType(Content) /\ t.head = DeletedHead(s, id) /\ t.next = s.next
      /\ t.dir = u.dir /\ t.frames = u.frames /\ t.free = u.free /\ t.lru = u.lru
      /\ t.disk = u.disk
  <2> DEFINE hd == DeletedHead(u, id)
  <2>1. u.head \in [pageNum : Int, phyNum : Nat, bytes : Nat, bits : SUBSET PageIds]
    BY <1>7 DEF PoolType
  <2>2. /\ hd \in [pageNum : Int, phyNum : Nat, bytes : Nat, bits : SUBSET PageIds]
        /\ hd = DeletedHead(s, id)
    <3>1. hd = DeletedHead(s, id)
      BY <1>4 DEF DeletedHead
    <3>2. u.head.pageNum - 1 \in Int /\ u.head.bits \ {id} \in SUBSET PageIds
      BY <2>1
    <3>3. hd \in [pageNum : Int, phyNum : Nat, bytes : Nat, bits : SUBSET PageIds]
      BY <2>1, <3>2 DEF DeletedHead
    <3> QED BY <3>1, <3>3
  <2>3. t = [u EXCEPT !.head = hd]
    BY <1>7 DEF DeletedHead, PoolType
  <2> HIDE DEF t, hd
  <2> QED BY <1>4, <1>7, <2>2, <2>3 DEF PoolType
<1> HIDE DEF t
<1>9. SameFrames(Content, t, u)
  BY <1>8 DEF SameFrames
<1>10. PoolOK(Content, t, k) /\ CleanOK(t, k, V) /\ ReadsSame(t, u)
  BY <1>4, <1>9, SameFramesOK
<1>11. Latest(t, 0) = Latest(s, 0)
  BY <1>1, <1>4, <1>10 DEF ReadsSame
<1>12. HeadFits(t) /\ KeptBits(t) = KeptBits(s)
  BY <1>1, <1>4, <1>8, <1>11, DeletedHeadFits
<1>13. ASSUME NEW p \in PageIds
       PROVE  /\ p \notin {0, id} => Latest(t, p) = Latest(s, p)
              /\ p # id /\ h[p] > 0 => t.dir[p] = s.dir[p] /\ k[p] > 0
              /\ t.disk[p] = s.disk[p] /\ Latest(t, p) \in {s.disk[p], Latest(s, p)}
  <2>1. Latest(t, p) = Latest(u, p) /\ t.disk = s.disk
    BY <1>4, <1>8, <1>10 DEF ReadsSame
  <2>2. CASE p = id
    <3>1. u.dir[p] = NoFrame
      BY <1>1, <1>4, <2>2 DEF PoolType
    <3> QED BY <1>4, <2>1, <2>2, <3>1 DEF Latest
  <2>3. CASE p # id
    BY <1>1, <1>4, <1>6, <1>8, <2>1, <2>3 DEF PoolType
  <2> QED BY <2>2, <2>3
<1>14. CASE FetchOK(t, 0)
  <2>1. ImageBits(Latest(t, 0)) \subseteq PageIds
    BY <1>8, <1>12, FitFacts
  <2>2. Saved(Content, r, t, k, V)
    BY <1>3, <1>6, <1>10, <1>14, <2>1, SaveHeadIs
  <2>3. HeadFits(r) /\ KeptBits(r) = KeptBits(s)
    BY <1>8, <1>12, <2>2, SavedFits
  <2> HIDE DEF r
  <2>4. /\ PoolOK(Content, r, k) /\ CleanOK(r, k, V)
        /\ r.head = t.head /\ r.next = t.next /\ Latest(r, 0) = SavedImage(t)
        /\ \A p \in PageIds : /\ p # 0 => Latest(r, p) = Latest(t, p)
                              /\ k[p] > 0 => r.dir[p] = t.dir[p]
                              /\ r.disk[p] \in {t.disk[p], Latest(t, p)}
    BY <2>2 DEF Saved, OnlyNow
  <2>5. SavedImage(t) = [pageNum |-> r.head.pageNum, phyNum |-> r.head.phyNum,
                         bits |-> r.head.bits \cup KeptBits(s)]
    BY <1>12, <2>4 DEF SavedImage
  <2>6. ASSUME NEW p \in PageIds
        PROVE  /\ p \notin {0, id} => Latest(r, p) = Latest(s, p)
               /\ p # id /\ h[p] > 0 => r.dir[p] = s.dir[p]
               /\ r.disk[p] \in {s.disk[p], Latest(s, p)}
    BY <1>13, <2>4
  <2> QED BY <1>8, <2>3, <2>4, <2>5, <2>6 DEF Deleted, r, k, V
<1>15. CASE ~FetchOK(t, 0)
  <2>1. r = t
    BY <1>3, <1>15 DEF SaveHead
  <2>3. s.dir[id] = NoFrame
    <3>1. SUFFICES ASSUME s.dir[id] # NoFrame PROVE FALSE
      OBVIOUS
    <3>2. u = ForgetFrame(s, id)
      BY <3>1 DEF u
    <3>3. u.free = <<s.dir[id]>> \o s.free
      BY <1>1, <3>2 DEF ForgetFrame, PoolType
    <3>4. s.free \in Seq(Frames) /\ s.dir[id] \in Frames
      BY <1>1, <3>1 DEF PoolType
    <3>5. t.free # <<>>
      BY <1>8, <3>3, <3>4
    <3> QED BY <1>15, <3>5 DEF FetchOK, CanVictim
  <2> HIDE DEF r
  <2>2. ASSUME NEW p \in PageIds
        PROVE  /\ p \notin {0, id} => Latest(r, p) = Latest(s, p)
               /\ p # id /\ h[p] > 0 => r.dir[p] = s.dir[p]
               /\ r.disk[p] \in {s.disk[p], Latest(s, p)}
    BY <1>13, <2>1
  <2> QED BY <1>8, <1>10, <1>11, <1>12, <2>1, <2>2, <2>3 DEF Deleted, r, k, V
<1> QED BY <1>14, <1>15
-----------------------------------------------------------------------------
(* The header when no restart has lost a bit: page_num_ is the number of     *)
(* bits, and page 0 has none past bitmap_.                                   *)
FileExact(c) == c # Zero => c.pageNum = Cardinality(c.bits)
HeadExact(s) ==
  /\ KeptBits(s) = {}
  /\ s.head.pageNum = Cardinality(s.head.bits)
  /\ FileExact(Latest(s, 0)) /\ FileExact(s.disk[0])

LEMMA HeadStaysExact ==
  ASSUME NEW s, NEW r, HeadExact(s), HeadAlike(r, s)
  PROVE  HeadExact(r)
<1>1. KeptBits(r) = KeptBits(s)
  BY DEF HeadAlike, KeptBits
<1> QED BY <1>1 DEF HeadAlike, HeadExact

LEMMA SavedImageExact ==
  ASSUME NEW Content, NEW s \in PoolType(Content), HeadFits(s), HeadExact(s)
  PROVE  FileExact(SavedImage(s)) /\ ImageBits(SavedImage(s)) = s.head.bits
<1>1. ImageBits(SavedImage(s)) = s.head.bits
  BY FitFacts, SavedImageIs DEF HeadExact
<1> QED BY <1>1 DEF FileExact, HeadExact, SavedImage

LEMMA NewPageExact ==
  ASSUME NEW Content, NEW s \in PoolType(Content), HeadFits(s), HeadExact(s),
         NEW r, NEW h, NEW W, PickedPid(s) \in PageIds, NewPageLeaves(Content, r, s, h, W)
  PROVE  HeadExact(r)
<1> DEFINE p == PickedPid(s)
<1>1. p \notin s.head.bits /\ s.head.bits \in SUBSET PageIds
  BY PickedIsClear, FitFacts
<1>2. Preserves(r, s, h, p) /\ r.head = Allocate(s.head, p) /\ 0 \in PageIds
  BY PoolAssumption DEF NewPageLeaves, PageIds
<1>3. KeptBits(r) = {}
  BY NewPageFits DEF HeadExact
<1> HIDE DEF p
<1>4. 0 # p
  BY <1>1 DEF HeadFits
<1>5. Latest(r, 0) = Latest(s, 0) /\ r.disk[0] \in {s.disk[0], Latest(s, 0)}
  BY <1>2, <1>4 DEF Preserves
<1>6. r.head.pageNum = s.head.pageNum + 1 /\ r.head.bits = s.head.bits \cup {p}
  BY <1>2 DEF Allocate
<1>7. Cardinality(s.head.bits \cup {p}) = Cardinality(s.head.bits) + 1
  BY <1>1, PagesFinite, FS_AddElement
<1> QED BY <1>3, <1>5, <1>6, <1>7 DEF HeadExact

\* delete_page: page 0 reads as before, or as the pages left in use.
LEMMA DeletedExact ==
  ASSUME NEW Content, NEW s \in PoolType(Content), HeadFits(s), HeadExact(s),
         NEW id \in s.head.bits, NEW r, NEW h, NEW W, Deleted(Content, r, s, h, W, id)
  PROVE  /\ HeadExact(r) /\ r.head.bits = s.head.bits \ {id}
         /\ ImageBits(Latest(r, 0)) \in {ImageBits(Latest(s, 0)), r.head.bits}
<1>1. /\ s.head \in [pageNum : Int, phyNum : Nat, bytes : Nat, bits : SUBSET PageIds]
      /\ r \in PoolType(Content) /\ 0 \in PageIds
  BY PoolAssumption DEF PoolType, Deleted, PoolOK, PageIds
<1>2. r.head = DeletedHead(s, id) /\ KeptBits(r) = {} /\ KeptBits(s) = {}
  BY DEF Deleted, HeadExact
<1>3. r.head.bits = s.head.bits \ {id} /\ r.head.pageNum = s.head.pageNum - 1
  BY <1>1, <1>2 DEF DeletedHead
<1>4. Cardinality(s.head.bits \ {id}) = Cardinality(s.head.bits) - 1
  BY <1>1, PagesFinite, FS_RemoveElement
<1>5. r.head.pageNum = Cardinality(r.head.bits)
  BY <1>3, <1>4 DEF HeadExact
<1> DEFINE v == [pageNum |-> r.head.pageNum, phyNum |-> r.head.phyNum, bits |-> r.head.bits]
<1>6. v # Zero /\ ImageBits(v) = r.head.bits /\ FileExact(v)
  <2>1. v \in HeadImage
    BY <1>1 DEF HeadImage, PoolType
  <2> QED BY <1>5, <2>1, ZeroAssumption DEF ImageBits, FileExact
<1>7. Latest(r, 0) \in {Latest(s, 0), v}
  <2>1. r.head.bits \cup KeptBits(s) = r.head.bits
    BY <1>2
  <2> QED BY <2>1 DEF Deleted
<1>8. r.disk[0] \in {s.disk[0], Latest(s, 0)}
  BY <1>1 DEF Deleted
<1> HIDE DEF v
<1>9. FileExact(Latest(r, 0)) /\ FileExact(r.disk[0])
  BY <1>6, <1>7, <1>8 DEF HeadExact
<1> QED BY <1>2, <1>3, <1>5, <1>6, <1>7, <1>9 DEF HeadExact

\* The constructor on a file whose pages it all finds again.
LEMMA OpenExact ==
  ASSUME NEW Content, NEW d \in [PageIds -> Content], FileHeadOK(d[0]), FileExact(d[0]),
         NEW r, Opened(Content, r, d), ImageBits(d[0]) \subseteq r.head.bits
  PROVE  HeadExact(r) /\ FileOpened(r, d)
<1> DEFINE c == d[0]
           v == LoadedImage(c)
           m == r.head.bytes * BitsPerByte
<1>1. /\ r.head = LoadedHead(c) /\ Latest(r, 0) = v /\ r.disk[0] \in {c, v}
      /\ \A p \in PageIds : p # 0 => Latest(r, p) = d[p] /\ r.disk[p] = d[p]
  BY DEF Opened
<1>2. FileHeadOK(c) /\ FileExact(c) /\ ImageBits(c) \subseteq r.head.bits
  OBVIOUS
<1> HIDE DEF c
<1>3. 0 \in PageIds /\ BitsPerByte \in Nat \ {0}
  BY PoolAssumption DEF PageIds
<1>4. /\ v # Zero /\ r.head.bits = v.bits /\ r.head.pageNum = Cardinality(v.bits)
      /\ FileExact(v)
      /\ r.head.bits = IF ImageBits(c) = {} THEN {0} ELSE ImageBits(c)
  <2>1. CASE c = Zero
    <3>1. r.head = FreshHead /\ v = FreshImage /\ ImageBits(c) = {}
      BY <1>1, <2>1 DEF LoadedHead, LoadedImage, ImageBits
    <3>2. Cardinality({0}) = 1
      BY FS_Singleton
    <3> HIDE DEF v
    <3> QED BY <3>1, <3>2, FreshFacts DEF FreshHead, FreshImage, FileExact
  <2>2. CASE c # Zero
    <3>1. r.head = LoadHead(c) /\ v = c /\ ImageBits(c) = c.bits
      BY <1>1, <2>2 DEF LoadedHead, LoadedImage, ImageBits
    <3>2. c \in HeadImage /\ c.pageNum \in Nat \ {0}
      BY <1>2, <2>2, FileHeadIs
    <3>3. r.head.pageNum = c.pageNum /\ r.head.bits = {i \in c.bits : i < m}
      BY <3>1, <3>2, LoadHeadIs
    <3>4. r.head.bits = c.bits
      <4> HIDE DEF m
      <4> QED BY <1>2, <3>1, <3>3
    <3>5. c.bits # {} /\ c.pageNum = Cardinality(c.bits)
      BY <1>2, <2>2 DEF FileHeadOK, FileExact
    <3> HIDE DEF v
    <3> QED BY <1>2, <2>2, <3>1, <3>3, <3>4, <3>5
  <2> QED BY <2>1, <2>2
<1>5. KeptBits(r) = {}
  <2>1. HeadFits(r)
    BY <1>2, OpenFits DEF c
  <2>2. \A p \in r.head.bits : p < m /\ p \in Nat /\ m \in Nat
    <3>1. r \in PoolType(Content)
      BY DEF Opened, PoolOK
    <3>2. m \in Nat /\ r.head.bits \in SUBSET PageIds
      BY <2>1, <3>1, FitFacts
    <3>3. \A p \in r.head.bits : p < m
      BY <2>1 DEF HeadFits
    <3> HIDE DEF m
    <3> QED BY <3>2, <3>3 DEF PageIds
  <2>3. KeptBits(r) = {i \in r.head.bits : i >= m}
    BY <1>1, <1>4 DEF KeptBits, ImageBits
  <2> HIDE DEF m
  <2> QED BY <2>2, <2>3
<1> HIDE DEF v
<1>6. HeadExact(r)
  BY <1>1, <1>2, <1>4, <1>5 DEF HeadExact
<1>7. FileOpened(r, d)
  BY <1>1, <1>4 DEF FileOpened, ImageBits, c
<1> QED BY <1>6, <1>7
=============================================================================
