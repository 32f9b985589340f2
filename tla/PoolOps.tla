------------------------------ MODULE PoolOps -------------------------------
(***************************************************************************)
(* The operations of BufferPool (src/storage/bufferpool/buffer_pool.hpp)   *)
(* with the DiskManager under it, as operators from a pool to the pool the *)
(* call leaves.  A pool s is a record:                                     *)
(*   dir    dir_: the frame holding each page, or NoFrame                  *)
(*   frames pages_: each frame's page id, pin count, dirty flag, contents  *)
(*   free   free_list_ (the frames never used, or given back by a delete)  *)
(*   lru    replacer_, most recently put first (LruOps)                    *)
(*   head   head_: page_num_, phy_num_, and bitmap_ as its size in bytes   *)
(*          and the set of its one bits (BitMap.tla has the bytes)         *)
(*   next   disk_.next_page_id_                                            *)
(*   disk   the database file: the contents of each page, Zero where the   *)
(*          file is short                                                  *)
(* The modules that have pools as state are BufferPool and TableHeap.      *)
(***************************************************************************)
EXTENDS LruOps

CONSTANTS
  NumFrames,     \* bfp_size
  LastPid,       \* the largest page id of the model
  BitsPerByte,   \* 8
  MaxPageCount,  \* BFP_MAX_PAGE_NUM
  PinMax,        \* SIZE_MAX
  Zero           \* a page of zero bytes

ASSUME PoolAssumption ==
  /\ NumFrames \in Nat \ {0} /\ LastPid \in Nat /\ BitsPerByte \in Nat \ {0}
  /\ MaxPageCount \in Nat /\ PinMax \in Nat \ {0}

PageIds == 0..LastPid
Frames == 0..NumFrames-1
NoPid == -1      \* INVALID_ID
NoFrame == -1

\* What write2page leaves in page 0.  (A page of zeros reads as page_num_ 0.)
HeadImage == [pageNum : Int, phyNum : Nat, bits : SUBSET PageIds]
ImageBits(c) == IF c = Zero THEN {} ELSE c.bits
ImagePageNum(c) == IF c = Zero THEN 0 ELSE c.pageNum

ASSUME ZeroAssumption == Zero \notin HeadImage

\* size_t arithmetic of pin_count_.
Inc(n) == IF n = PinMax THEN 0 ELSE n + 1
Dec(n) == IF n = 0 THEN PinMax ELSE n - 1

\* clear_all, and the page id a frame is then given.
ClearedFrame(id) == [pid |-> id, pin |-> 0, dirty |-> FALSE, data |-> Zero]
EmptyFrame == ClearedFrame(NoPid)
-----------------------------------------------------------------------------
\* victim(): the back of the free list, or else the replacer's victim.
CanVictim(s) == s.free # <<>> \/ s.lru # <<>>
VictimFrame(s) == IF s.free # <<>> THEN Last(s.free) ELSE LruVictim(s.lru)
TakeVictim(s) ==
  IF s.free # <<>> THEN [s EXCEPT !.free = Front(@)]
                   ELSE [s EXCEPT !.lru = LruAfterVictim(@)]

\* flush_page(id): writes whatever frame dir_ gives for id; dirty_ stays.
FlushPage(s, id) ==
  [s EXCEPT !.disk = [q \in PageIds |->
     IF q = id /\ s.dir[q] # NoFrame THEN s.frames[s.dir[q]].data ELSE @[q]]]

\* Mutations: the page stays in dir_; a dirty page is dropped.
CorrespondKeepingOld(s, id, f) ==
  LET t == IF s.frames[f].dirty THEN FlushPage(s, s.frames[f].pid) ELSE s
  IN  [t EXCEPT !.dir[id] = f, !.frames[f] = ClearedFrame(id)]
CorrespondWithoutFlush(s, id, f) ==
  [s EXCEPT !.dir = [q \in PageIds |-> IF q = id THEN f
                                       ELSE IF q = s.frames[f].pid THEN NoFrame
                                       ELSE @[q]],
            !.frames[f] = ClearedFrame(id)]

\* change_correspondence: frame f stops holding its page and gets page id.
Correspond(s, id, f) ==
  LET old == s.frames[f]
  IN  [s EXCEPT !.disk = IF old.dirty THEN FlushPage(s, old.pid).disk ELSE @,
                !.dir = [q \in PageIds |-> IF q = id THEN f
                                           ELSE IF q = old.pid THEN NoFrame
                                           ELSE @[q]],
                !.frames[f] = ClearedFrame(id)]

\* fetch(id) returns nullptr, and changes nothing, unless FetchOK.
FetchOK(s, id) == s.dir[id] # NoFrame \/ CanVictim(s)

\* Mutations: a page found in dir_ stays in the replacer; it is not counted.
FetchCachedKeepingLru(s, id) == [s EXCEPT !.frames[s.dir[id]].pin = Inc(@)]
FetchCachedUncounted(s, id) == [s EXCEPT !.lru = LruRemove(@, s.dir[id])]

FetchCached(s, id) ==
  [s EXCEPT !.frames[s.dir[id]].pin = Inc(@),
            !.lru = LruRemove(@, s.dir[id])]

\* read_page: past the end of the file nothing is read, and the frame, which
\* was cleared, keeps its zeros; disk has Zero for a page never written.
ReadPage(s, id) == s.disk[id]

FetchFromDisk(s, id) ==
  LET f == VictimFrame(s)
      t == Correspond(TakeVictim(s), id, f)
  IN  [t EXCEPT !.frames[f] = [pid |-> id, pin |-> 1, dirty |-> FALSE,
                               data |-> ReadPage(t, id)]]

Fetch(s, id) == IF s.dir[id] # NoFrame THEN FetchCached(s, id)
                                       ELSE FetchFromDisk(s, id)

\* Mutations: the last caller's flag replaces dirty_; the frame goes to the
\* replacer with one pin left.
UnpinOverwritingDirty(s, id, isDirty) ==
  IF s.dir[id] = NoFrame THEN s
  ELSE LET f == s.dir[id]
           n == Dec(s.frames[f].pin)
       IN  [s EXCEPT !.frames[f].dirty = isDirty,
                     !.frames[f].pin = n,
                     !.lru = IF n = 0 THEN LruPut(@, f, NumFrames) ELSE @]
UnpinOneEarly(s, id, isDirty) ==
  IF s.dir[id] = NoFrame THEN s
  ELSE LET f == s.dir[id]
           n == Dec(s.frames[f].pin)
       IN  [s EXCEPT !.frames[f].dirty = @ \/ isDirty,
                     !.frames[f].pin = n,
                     !.lru = IF n <= 1 THEN LruPut(@, f, NumFrames) ELSE @]

Unpin(s, id, isDirty) ==
  IF s.dir[id] = NoFrame THEN s
  ELSE LET f == s.dir[id]
           n == Dec(s.frames[f].pin)
       IN  [s EXCEPT !.frames[f] = [pid |-> @.pid, pin |-> n,
                                    dirty |-> @.dirty \/ isDirty, data |-> @.data],
                     !.lru = IF n = 0 THEN LruPut(@, f, NumFrames) ELSE @]
-----------------------------------------------------------------------------
\* contain(id) = RC::SUCCESS, and the ids next_pid_after runs through.
HasPage(s, id) == id \in s.head.bits
PidsAfter(s, id) == IF id < s.head.bytes * BitsPerByte
                    THEN {p \in s.head.bits : p > id} ELSE {}

CurrentPid(s) == s.next - 1

\* new_page takes the first zero bit below current_pid(), or else a new id;
\* the id is spent even when the call then fails.
ClearBits(s) == {i \in 0..(s.head.bytes * BitsPerByte - 1) : i \notin s.head.bits}
Reuses(s) == \E i \in ClearBits(s) : i < CurrentPid(s)
PickedPid(s) ==
  IF Reuses(s) THEN CHOOSE i \in ClearBits(s) : \A j \in ClearBits(s) : i <= j
               ELSE s.next
AfterPick(s) == IF Reuses(s) THEN s ELSE [s EXCEPT !.next = @ + 1]

NewPageOK(s) == (Reuses(s) \/ s.next <= MaxPageCount) /\ CanVictim(s)

\* Mutation: page_num_ is not counted up.
AllocateUncounted(h, p) ==
  [pageNum |-> h.pageNum, phyNum |-> h.phyNum + 1,
   bytes |-> IF p < h.bytes * BitsPerByte THEN h.bytes ELSE p \div BitsPerByte + 1,
   bits |-> h.bits \cup {p}]

\* head_.bitmap_ grows to hold the bit, which is set; both counters go up.
Allocate(h, p) ==
  [pageNum |-> h.pageNum + 1, phyNum |-> h.phyNum + 1,
   bytes |-> IF p < h.bytes * BitsPerByte THEN h.bytes ELSE p \div BitsPerByte + 1,
   bits |-> h.bits \cup {p}]

NewPage(s) ==
  LET p == PickedPid(s)
      f == VictimFrame(s)
      t == Correspond([TakeVictim(AfterPick(s)) EXCEPT !.head = Allocate(@, p)], p, f)
  IN  IF NewPageOK(s)
      THEN [t EXCEPT !.frames[f] = [pid |-> p, pin |-> 1, dirty |-> TRUE,
                                    data |-> @.data]]
      ELSE AfterPick(s)
-----------------------------------------------------------------------------
\* BFPHeaderPage::write2page into the frame holding page 0.  Bytes of the
\* page past bitmap_.size() keep what they had.
WriteHead(s) ==
  LET f == s.dir[0]
      kept == {i \in ImageBits(s.frames[f].data) : i >= s.head.bytes * BitsPerByte}
      image == [pageNum |-> s.head.pageNum, phyNum |-> s.head.phyNum,
                bits |-> s.head.bits \cup kept]
  IN  [s EXCEPT !.frames[f] = [pid |-> @.pid, pin |-> @.pin, dirty |-> TRUE,
                               data |-> image]]

\* fetch(0), write2page, unpin(0, true): what close and delete_page do.
SaveHead(s) ==
  IF FetchOK(s, 0) THEN Unpin(WriteHead(Fetch(s, 0)), 0, TRUE) ELSE s

\* flush_all_page writes the dirty pages in the order of an unordered_map; a
\* crash in it leaves those of some set written.
DirtyPids(s) == {p \in PageIds : s.dir[p] # NoFrame /\ s.frames[s.dir[p]].dirty}
FlushPids(s, P) ==
  [s EXCEPT !.disk = [q \in PageIds |-> IF q \in P THEN s.frames[s.dir[q]].data
                                                   ELSE @[q]]]
FlushAll(s) == FlushPids(s, DirtyPids(s))

\* close() returns early, nothing written, when page 0 cannot be fetched.
CloseOK(s) == FetchOK(s, 0)
Close(s) == IF CloseOK(s) THEN FlushAll(SaveHead(s)) ELSE s

\* delete_page: no look at the pin count or the replacer, and page_num_ goes
\* down whether or not the page was there.
ForgetFrame(s, id) ==
  LET f == s.dir[id]
  IN  [s EXCEPT !.frames[f] = EmptyFrame,
                !.free = <<f>> \o @,
                !.dir[id] = NoFrame]
DeletePage(s, id) ==
  LET t == IF s.dir[id] # NoFrame THEN ForgetFrame(s, id) ELSE s
  IN  IF id >= s.head.phyNum THEN s
      ELSE SaveHead([t EXCEPT !.head.bits = @ \ {id},
                              !.head.pageNum = @ - 1])
-----------------------------------------------------------------------------
\* The BufferPool constructor on the file d: a fresh header is written when
\* the file has none, and next_page_id_ restarts at phy_num_.
FreshHead == [pageNum |-> 1, phyNum |-> 1, bytes |-> 1, bits |-> {0}]
LoadHead(c) ==
  LET bytes == IF c.phyNum > BitsPerByte
               THEN (c.pageNum + BitsPerByte - 1) \div BitsPerByte
               ELSE 1
  IN  [pageNum |-> c.pageNum, phyNum |-> c.phyNum, bytes |-> bytes,
       bits |-> {i \in c.bits : i < bytes * BitsPerByte}]

\* Mutation: the free list starts with frame 1.
BlankPoolFromOne(d) ==
  [dir |-> [p \in PageIds |-> NoFrame],
   frames |-> [f \in Frames |-> EmptyFrame],
   free |-> [i \in 1..NumFrames |-> i],
   lru |-> <<>>,
   head |-> [pageNum |-> 1, phyNum |-> 1, bytes |-> 0, bits |-> {}],
   next |-> 1,
   disk |-> d]

BlankPool(d) ==
  [dir |-> [p \in PageIds |-> NoFrame],
   frames |-> [f \in Frames |-> EmptyFrame],
   free |-> [i \in 1..NumFrames |-> i - 1],
   lru |-> <<>>,
   head |-> [pageNum |-> 1, phyNum |-> 1, bytes |-> 0, bits |-> {}],
   next |-> 1,
   disk |-> d]

\* Mutation: the disk manager keeps its default next_page_id_.
OpenPoolDefaultNext(d) ==
  LET s0 == Fetch(BlankPool(d), 0)
      image == s0.frames[s0.dir[0]].data
  IN  IF ImagePageNum(image) = 0
      THEN FlushPage(Unpin(WriteHead([s0 EXCEPT !.head = FreshHead]), 0, TRUE), 0)
      ELSE Unpin([s0 EXCEPT !.head = LoadHead(image)], 0, FALSE)

OpenPool(d) ==
  LET s0 == Fetch(BlankPool(d), 0)
      image == s0.frames[s0.dir[0]].data
      s1 == IF ImagePageNum(image) = 0
            THEN FlushPage(Unpin(WriteHead([s0 EXCEPT !.head = FreshHead]), 0, TRUE), 0)
            ELSE Unpin([s0 EXCEPT !.head = LoadHead(image)], 0, FALSE)
  IN  [s1 EXCEPT !.next = s1.head.phyNum]
-----------------------------------------------------------------------------
\* Pools and their well-formedness, for any set of page contents.
PoolType(Content) ==
  [dir : [PageIds -> Frames \cup {NoFrame}],
   frames : [Frames -> [pid : PageIds \cup {NoPid}, pin : 0..PinMax,
                        dirty : BOOLEAN, data : Content]],
   free : Seq(Frames), lru : Seq(Frames),
   head : [pageNum : Int, phyNum : Nat, bytes : Nat, bits : SUBSET PageIds],
   next : Nat,
   disk : [PageIds -> Content]]

\* What a client of the pool reads in page p.
Latest(s, p) == IF s.dir[p] # NoFrame THEN s.frames[s.dir[p]].data ELSE s.disk[p]

DirInverse(s) ==
  /\ \A p \in PageIds : s.dir[p] # NoFrame => s.frames[s.dir[p]].pid = p
  /\ \A f \in Frames : s.frames[f].pid # NoPid => s.dir[s.frames[f].pid] = f

FramesPartitioned(s) ==
  /\ IsInjective(s.free) /\ IsInjective(s.lru)
  /\ \A f \in Frames :
       /\ f \in ToSet(s.free) <=> s.frames[f].pid = NoPid
       /\ f \in ToSet(s.lru) <=> s.frames[f].pid # NoPid /\ s.frames[f].pin = 0
=============================================================================
