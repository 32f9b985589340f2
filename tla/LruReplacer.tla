----------------------------- MODULE LruReplacer ----------------------------
(***************************************************************************)
(* src/storage/bufferpool/replacer.hpp: a doubly linked list of nodes, the *)
(* most recently put first, and a map from each value to an iterator, that *)
(* is to the node holding it.  Nodes are named, so that an iterator that   *)
(* outlives its node, or points at another value's node, is visible.       *)
(***************************************************************************)
EXTENDS LruOps

CONSTANTS
  Values,    \* what the replacer holds (the pool's frame numbers)
  Nodes,     \* the list nodes the allocator may hand out
  Capacity,  \* capacity_
  NoValue, NoNode,
  EndNode    \* what end() points at: the list's sentinel

ASSUME CapacityAssumption ==
  /\ Capacity \in Nat \ {0}
  /\ IsFiniteSet(Nodes) /\ Cardinality(Nodes) >= Capacity
  /\ NoValue \notin Values /\ NoNode \notin Nodes /\ EndNode \notin Nodes

VARIABLES
  lru_list_,  \* the nodes, front first
  value,      \* the value in each node (meaningful for nodes in the list)
  dir_,       \* the iterator kept for each value, or NoNode
  evicted     \* the value the last victim() call returned, or NoValue
vars == <<lru_list_, value, dir_, evicted>>

\* The values in list order: what LruOps computes with.
Held == [i \in DOMAIN lru_list_ |-> value[lru_list_[i]]]

\* std::list::erase of the node an iterator points at.
EraseNode(l, n) == LruRemove(l, n)

Init == /\ lru_list_ = <<>>
        /\ value = [n \in Nodes |-> NoValue]
        /\ dir_ = [t \in Values |-> NoNode]
        /\ evicted = NoValue

\* push_front(t) on the list l followed by dir_.emplace(t, begin()).
PushFront(l, dir, t) ==
  \E n \in Nodes \ ToSet(l) :
    /\ lru_list_' = <<n>> \o l
    /\ value' = [value EXCEPT ![n] = t]
    /\ dir_' = [dir EXCEPT ![t] = n]

\* Mutation: a value that is already present keeps its place.
PutPresentInPlace(t) ==
  /\ dir_[t] # NoNode
  /\ evicted' = NoValue
  /\ UNCHANGED <<lru_list_, value, dir_>>

PutPresent(t) ==
  /\ dir_[t] # NoNode
  /\ PushFront(EraseNode(lru_list_, dir_[t]), [dir_ EXCEPT ![t] = NoNode], t)
  /\ evicted' = NoValue

PutNew(t) ==
  /\ dir_[t] = NoNode
  /\ Len(lru_list_) # Capacity
  /\ PushFront(lru_list_, dir_, t)
  /\ evicted' = NoValue

\* A full replacer silently drops its back value.
PutFull(t) ==
  /\ dir_[t] = NoNode
  /\ Len(lru_list_) = Capacity
  /\ PushFront(Front(lru_list_), [dir_ EXCEPT ![value[Last(lru_list_)]] = NoNode], t)
  /\ evicted' = NoValue

Put(t) == PutPresent(t) \/ PutNew(t) \/ PutFull(t)

\* Mutation: the node is unlinked and dir_.erase forgotten.
RemoveKeepingIterator(t) ==
  /\ dir_[t] # NoNode
  /\ lru_list_' = EraseNode(lru_list_, dir_[t])
  /\ evicted' = NoValue
  /\ UNCHANGED <<value, dir_>>

RemoveValue(t) ==
  /\ dir_[t] # NoNode
  /\ lru_list_' = EraseNode(lru_list_, dir_[t])
  /\ dir_' = [dir_ EXCEPT ![t] = NoNode]
  /\ evicted' = NoValue
  /\ UNCHANGED value

\* Mutation: the victim is the most recently used value.
VictimFromFront ==
  /\ lru_list_ # <<>>
  /\ evicted' = value[Head(lru_list_)]
  /\ dir_' = [dir_ EXCEPT ![value[Head(lru_list_)]] = NoNode]
  /\ lru_list_' = Tail(lru_list_)
  /\ UNCHANGED value

Victim ==
  /\ lru_list_ # <<>>
  /\ evicted' = value[Last(lru_list_)]
  /\ dir_' = [dir_ EXCEPT ![value[Last(lru_list_)]] = NoNode]
  /\ lru_list_' = Front(lru_list_)
  /\ UNCHANGED value

\* touch(t): the iterator is taken from begin() before t is pushed.
Touch(t) ==
  /\ dir_[t] # NoNode
  /\ LET l == EraseNode(lru_list_, dir_[t]) IN
     /\ dir_' = [dir_ EXCEPT ![t] = IF l = <<>> THEN EndNode ELSE Head(l)]
     /\ \E n \in Nodes \ ToSet(l) :
          /\ lru_list_' = <<n>> \o l
          /\ value' = [value EXCEPT ![n] = t]
  /\ evicted' = NoValue

Next == \/ \E t \in Values : Put(t) \/ RemoveValue(t)
        \/ Victim
Spec == Init /\ [][Next]_vars

\* The public interface with touch(), which nothing in src/ calls.
NextWithTouch == Next \/ \E t \in Values : Touch(t)
SpecWithTouch == Init /\ [][NextWithTouch]_vars
-----------------------------------------------------------------------------
\* The map and the list say the same: a value has an iterator exactly when it
\* is in the list, and the iterator is to the node that holds it.  Every erase
\* by iterator in put and remove relies on it.
DirMirrorsList ==
  \A t \in Values :
    IF t \in ToSet(Held) THEN dir_[t] \in ToSet(lru_list_) /\ value[dir_[t]] = t
                         ELSE dir_[t] = NoNode

\* The list of values moves exactly as the buffer pool's model of it does, so
\* PoolOps may keep the sequence and forget nodes and iterators.
ComputesLruOps ==
  [][ /\ \A t \in Values : Put(t) => Held' = LruPut(Held, t, Capacity)
      /\ \A t \in Values : RemoveValue(t) => Held' = LruRemove(Held, t)
      /\ Victim => evicted' = LruVictim(Held) /\ Held' = LruAfterVictim(Held)
    ]_vars

\* The pairs of elements of a list, the one further back first.
Behind(l) == {pair \in ToSet(l) \X ToSet(l) :
                \E i, j \in DOMAIN l : i > j /\ pair = <<l[i], l[j]>>}

\* The order of the list is the order of use: LruReplacer implements Lru.
OlderPairs == Behind(Held)
LRU == INSTANCE Lru WITH members <- ToSet(Held), older <- OlderPairs
ImplementsLru == LRU!Spec

\* replacer.hpp:35 says touch "update[s] the t in replacer": afterwards t is
\* the most recently used value and its iterator is to its node.
TouchUpdates ==
  [][\A t \in Values : Touch(t) => /\ value'[Head(lru_list_')] = t
                                   /\ dir_'[t] = Head(lru_list_')]_vars
=============================================================================
