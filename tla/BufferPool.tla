----------------------------- MODULE BufferPool -----------------------------
(***************************************************************************)
(* One database file and the programs that use it in turn: a BufferPool is *)
(* constructed on the file, its clients (record pages, scanners) fetch,    *)
(* write and unpin pages in any interleaving, each holding the Page* that  *)
(* fetch or new_page returned, and the pool is closed or the process       *)
(* crashes.  Each action is one call of the pool with all it does.         *)
(*                                                                         *)
(* Spec is the protocol of a careful client: it unpins each page once,     *)
(* reports what it wrote, fetches only pages contain() accepts, asks for a *)
(* new page only when a frame can be had, and closes with nothing pinned.  *)
(* The other specifications add calls the interface allows.                *)
(***************************************************************************)
EXTENDS PoolOps

CONSTANTS
  Clients,   \* those that hold pages; each holds at most one
  Data,      \* contents a client may write
  NoRef,
  PhyBound   \* bound on phy_num_, which grows with every new_page

ASSUME ClientAssumption ==
  /\ PhyBound \in Nat
  /\ IsFiniteSet(Clients) /\ Cardinality(Clients) < PinMax
  /\ NoRef \notin [pid : PageIds, frame : Frames, wrote : BOOLEAN]
  /\ Data \cap HeadImage = {}

VARIABLES
  up,    \* the pool object exists
  pool,  \* its state, with the file; BlankPool of the file when not up
  ref    \* each client's Page*: page, frame, and whether it wrote; or NoRef
vars == <<up, pool, ref>>

Refs == [pid : PageIds, frame : Frames, wrote : BOOLEAN]
Holders(p) == {c \in Clients : ref[c] # NoRef /\ ref[c].pid = p}
Idle == \A c \in Clients : ref[c] = NoRef

Init == /\ up = FALSE
        /\ pool = BlankPool([p \in PageIds |-> Zero])
        /\ ref = [c \in Clients |-> NoRef]

Open == /\ ~up
        /\ up' = TRUE
        /\ pool' = OpenPool(pool.disk)
        /\ UNCHANGED ref

\* Client c gets page p at frame dir_[p] of the pool s.
Take(c, s, p) ==
  /\ pool' = s
  /\ ref' = [ref EXCEPT ![c] = [pid |-> p, frame |-> s.dir[p], wrote |-> FALSE]]
  /\ UNCHANGED up

FetchPage(c, p) ==
  /\ up /\ ref[c] = NoRef
  /\ HasPage(pool, p)
  /\ FetchOK(pool, p)
  /\ Take(c, Fetch(pool, p), p)

GetNewPage(c) ==
  /\ up /\ ref[c] = NoRef
  /\ NewPageOK(pool)
  /\ PickedPid(pool) <= LastPid /\ pool.head.phyNum < PhyBound  \* model bounds
  /\ Take(c, NewPage(pool), PickedPid(pool))

\* The client writes through its pointer: whatever page the frame holds now.
WritePage(c, v) ==
  /\ up /\ ref[c] # NoRef /\ ref[c].pid # 0
  /\ pool' = [pool EXCEPT !.frames[ref[c].frame].data = v]
  /\ ref' = [ref EXCEPT ![c].wrote = TRUE]
  /\ UNCHANGED up

ReleasePage(c) ==
  /\ up /\ ref[c] # NoRef
  /\ pool' = Unpin(pool, ref[c].pid, ref[c].wrote)
  /\ ref' = [ref EXCEPT ![c] = NoRef]
  /\ UNCHANGED up

FlushOne(p) ==
  /\ up
  /\ pool' = FlushPage(pool, p)
  /\ UNCHANGED <<up, ref>>

FlushEvery ==
  /\ up
  /\ pool' = FlushAll(pool)
  /\ UNCHANGED <<up, ref>>

\* The process ends: memory is lost, the file d remains.
Down(d) == /\ up' = FALSE
           /\ pool' = BlankPool(d)
           /\ ref' = [c \in Clients |-> NoRef]

ClosePool == /\ up /\ Idle /\ CloseOK(pool)
             /\ Down(Close(pool).disk)

Crash == up /\ Down(pool.disk)

\* A crash in close, after some of the dirty pages were written.
CrashInClose ==
  /\ up /\ Idle /\ CloseOK(pool)
  /\ LET s == SaveHead(pool)
     IN  \E P \in SUBSET DirtyPids(s) : Down(FlushPids(s, P).disk)

Next == \/ Open \/ FlushEvery \/ ClosePool \/ Crash \/ CrashInClose
        \/ \E p \in PageIds : FlushOne(p)
        \/ \E c \in Clients : \/ GetNewPage(c) \/ ReleasePage(c)
                              \/ \E p \in PageIds : FetchPage(c, p)
                              \/ \E v \in Data : WritePage(c, v)
Spec == Init /\ [][Next]_vars
-----------------------------------------------------------------------------
\* delete_page by the only client holding the page, whose pointer is dead
\* afterwards, or of a page no frame holds.
DeleteHeld(c) ==
  /\ up /\ ref[c] # NoRef /\ ref[c].pid # 0
  /\ Holders(ref[c].pid) = {c}
  /\ pool' = DeletePage(pool, ref[c].pid)
  /\ ref' = [ref EXCEPT ![c] = NoRef]
  /\ UNCHANGED up

DeleteUncached(p) ==
  /\ up /\ p # 0 /\ HasPage(pool, p) /\ pool.dir[p] = NoFrame
  /\ pool' = DeletePage(pool, p)
  /\ UNCHANGED <<up, ref>>

NextWithDeletes == \/ Next
                   \/ \E c \in Clients : DeleteHeld(c)
                   \/ \E p \in PageIds : DeleteUncached(p)
SpecWithDeletes == Init /\ [][NextWithDeletes]_vars

\* new_page that returns nullptr.
FailNewPage ==
  /\ up /\ ~NewPageOK(pool)
  /\ PickedPid(pool) <= LastPid  \* model bound
  /\ pool' = NewPage(pool)
  /\ UNCHANGED <<up, ref>>

SpecWithFailures == Init /\ [][Next \/ FailNewPage]_vars
-----------------------------------------------------------------------------
\* Every variable has its type.
Content == Data \cup {Zero} \cup HeadImage
TypeOK == /\ up \in BOOLEAN
          /\ pool \in PoolType(Content)
          /\ ref \in [Clients -> Refs \cup {NoRef}]

\* dir_ and the frames' page ids are inverses: no page in two frames, no frame
\* counted for two pages (change_correspondence, delete_page).
DirConsistent == DirInverse(pool)

\* Each frame is in exactly one place: on the free list, evictable in the
\* replacer, or pinned; neither list names a frame twice.
FramePartition == FramesPartitioned(pool)

\* A Page* stays good for as long as it is held: its frame still holds its
\* page, and the pin count is the number of holders.
RefsStable ==
  /\ \A c \in Clients : ref[c] # NoRef => pool.dir[ref[c].pid] = ref[c].frame
  /\ \A f \in Frames : pool.frames[f].pid # NoPid =>
       pool.frames[f].pin = Cardinality(Holders(pool.frames[f].pid))

\* A frame that is clean, with no unreported write, can be dropped: the file
\* has its contents.
CleanMeansOnDisk ==
  \A p \in PageIds :
    pool.dir[p] # NoFrame =>
      \/ pool.frames[pool.dir[p]].dirty
      \/ pool.frames[pool.dir[p]].data = pool.disk[p]
      \/ \E c \in Holders(p) : ref[c].wrote

\* page_num_ is "the number of blocks actually used, deleted ones excluded"
\* (buffer_pool.hpp:30), and ids from next_page_id_ on are unused.
HeadCounts ==
  up => /\ pool.head.pageNum = Cardinality(pool.head.bits)
        /\ \A p \in pool.head.bits : p < pool.next

\* new_page returns a page that was not in use ("the bitmap records the empty
\* pages", buffer_pool.hpp:27).
NewPageIsUnused ==
  [][\A c \in Clients : GetNewPage(c) => PickedPid(pool) \notin pool.head.bits]_vars

\* bitmap_ fits the room page 0 has for it: BFP_BITMAP_MAX_SIZE
\* (storage_def.hpp:11) bytes for BFP_MAX_PAGE_NUM bits.
BitmapFits == pool.head.bytes * BitsPerByte <= MaxPageCount

\* phy_num_ is "the number of blocks actually used in the file, deleted ones
\* included" (buffer_pool.hpp:33): the ids handed out so far.
PhyNumCountsBlocks == up => pool.head.phyNum = pool.next

\* contain() accepts after a restart each page that was in use when the pool
\* was closed (buffer_pool.hpp:186-187).
ReopenKeepsPages ==
  [][Open => ImageBits(pool.disk[0]) \subseteq pool'.head.bits]_vars

\* The pool is transparent: a page reads as last written, whatever was evicted
\* in between; closing makes everything durable, a crash leaves what was.  A
\* close is a step of Close, not only of Crash, which allows it too.
View(p, c) == IF p = 0 THEN ImageBits(c) ELSE c
Store == INSTANCE PageStore WITH
  alloc <- IF up THEN pool.head.bits ELSE {},
  page <- [p \in PageIds |-> View(p, Latest(pool, p))],
  disk <- [p \in PageIds |-> View(p, pool.disk[p])]
ImplementsPageStore == Store!Spec /\ [][ClosePool => Store!Close]_vars
=============================================================================
