-------------------------- MODULE LruReplacerProofs -------------------------
(***************************************************************************)
(* Theorems of LruReplacer for every set of values and nodes and every     *)
(* capacity: the map mirrors the list, the list of values moves as LruOps  *)
(* computes it, and the replacer implements Lru.  Each operation is an     *)
(* unlink, a push in front of what is left, or both, so two lemmas about   *)
(* the invariant and two about the list of values serve every action.      *)
(***************************************************************************)
EXTENDS LruReplacer, OpsProofs

\* The list l of nodes holding v and the iterators d say the same.
Mirror(l, v, d) ==
  /\ Distinct(Nodes, l)
  /\ Len(l) <= Capacity
  /\ v \in [Nodes -> Values \cup {NoValue}]
  /\ d \in [Values -> Nodes \cup {NoNode}]
  /\ \A n \in ToSet(l) : v[n] \in Values /\ d[v[n]] = n
  /\ \A t \in Values : d[t] # NoNode => d[t] \in ToSet(l) /\ v[d[t]] = t

\* The inductive invariant.
IInv == /\ Mirror(lru_list_, value, dir_)
        /\ evicted \in Values \cup {NoValue}

\* The values of the nodes of a list: Held for any list.
ValuesOf(l, v) == [i \in DOMAIN l |-> v[l[i]]]

-----------------------------------------------------------------------------
\* erase() of a node and of its value's entry in the map.
LEMMA UnlinkMirrors ==
  ASSUME NEW l, NEW v, NEW d, Mirror(l, v, d), NEW n \in ToSet(l)
  PROVE  /\ v[n] \in Values
         /\ Mirror(LruErase(l, n), v, [d EXCEPT ![v[n]] = NoNode])
         /\ Len(LruErase(l, n)) < Capacity
<1> DEFINE m == LruErase(l, n)
           e == [d EXCEPT ![v[n]] = NoNode]
<1>1. /\ Distinct(Nodes, m) /\ ToSet(m) = ToSet(l) \ {n}
      /\ Len(m) = Len(l) - 1
  BY EraseFacts DEF Mirror
<1>2. /\ Len(l) \in Nat /\ Len(l) <= Capacity /\ Capacity \in Nat
      /\ ToSet(l) \subseteq Nodes
  BY CapacityAssumption DEF Mirror, Distinct, ToSet
<1> HIDE DEF m
<1>3. v[n] \in Values /\ d[v[n]] = n
  BY DEF Mirror
<1>4. /\ v \in [Nodes -> Values \cup {NoValue}] /\ e \in [Values -> Nodes \cup {NoNode}]
      /\ e[v[n]] = NoNode /\ \A t \in Values : t # v[n] => e[t] = d[t]
  BY <1>3 DEF Mirror
<1> HIDE DEF e
<1>5. ASSUME NEW k \in ToSet(m) PROVE v[k] \in Values /\ e[v[k]] = k
  <2>1. k \in ToSet(l) /\ k # n /\ v[k] \in Values /\ d[v[k]] = k
    BY <1>1, <1>5 DEF Mirror
  <2> QED BY <1>3, <1>4, <2>1
<1>6. ASSUME NEW t \in Values, e[t] # NoNode PROVE e[t] \in ToSet(m) /\ v[e[t]] = t
  <2>1. t # v[n] /\ e[t] = d[t]
    BY <1>4, <1>6
  <2>2. d[t] \in ToSet(l) /\ v[d[t]] = t
    BY <1>6, <2>1 DEF Mirror
  <2> QED BY <1>1, <2>1, <2>2
<1>7. Len(m) <= Capacity /\ Len(m) < Capacity
  BY <1>1, <1>2
<1> QED BY <1>1, <1>3, <1>4, <1>5, <1>6, <1>7 DEF Mirror, m, e

\* push_front of a node for a value that has none, in a list that has room.
LEMMA PushMirrors ==
  ASSUME NEW l, NEW v, NEW d, Mirror(l, v, d), Len(l) < Capacity,
         NEW t \in Values, d[t] = NoNode, NEW n \in Nodes \ ToSet(l)
  PROVE  Mirror(<<n>> \o l, [v EXCEPT ![n] = t], [d EXCEPT ![t] = n])
<1> DEFINE m == <<n>> \o l
           w == [v EXCEPT ![n] = t]
           e == [d EXCEPT ![t] = n]
<1>1. /\ Distinct(Nodes, m) /\ ToSet(m) = ToSet(l) \cup {n}
      /\ Len(m) = Len(l) + 1
  BY PushFrontFacts DEF Mirror
<1>2. Len(l) \in Nat /\ Capacity \in Nat /\ ToSet(l) \subseteq Nodes /\ NoNode \notin Nodes
  BY CapacityAssumption DEF Mirror, Distinct, ToSet
<1> HIDE DEF m
<1>3. /\ w \in [Nodes -> Values \cup {NoValue}] /\ e \in [Values -> Nodes \cup {NoNode}]
      /\ w[n] = t /\ e[t] = n
      /\ \A k \in Nodes : k # n => w[k] = v[k]
      /\ \A u \in Values : u # t => e[u] = d[u]
  BY DEF Mirror
<1> HIDE DEF w, e
<1>4. ASSUME NEW k \in ToSet(l) PROVE v[k] \in Values /\ d[v[k]] = k /\ v[k] # t /\ k # n
  BY <1>2 DEF Mirror
<1>5. ASSUME NEW k \in ToSet(m) PROVE w[k] \in Values /\ e[w[k]] = k
  <2>1. CASE k = n
    BY <1>3, <2>1
  <2>2. CASE k # n
    <3>1. k \in ToSet(l) /\ k \in Nodes
      BY <1>1, <1>2, <2>2
    <3> QED BY <1>3, <1>4, <3>1
  <2> QED BY <2>1, <2>2
<1>6. ASSUME NEW u \in Values, e[u] # NoNode PROVE e[u] \in ToSet(m) /\ w[e[u]] = u
  <2>1. CASE u = t
    BY <1>1, <1>3, <2>1
  <2>2. CASE u # t
    <3>1. d[u] \in ToSet(l) /\ v[d[u]] = u /\ e[u] = d[u]
      BY <1>3, <1>6, <2>2 DEF Mirror
    <3>2. d[u] # n /\ d[u] \in Nodes
      BY <1>2, <3>1
    <3> QED BY <1>1, <1>3, <3>1, <3>2
  <2> QED BY <2>1, <2>2
<1>7. Len(m) <= Capacity
  BY <1>1, <1>2
<1> QED BY <1>1, <1>3, <1>5, <1>6, <1>7 DEF Mirror, m, w, e

-----------------------------------------------------------------------------
\* The values in a mirrored list are distinct, one per node, and are those
\* the map has an iterator for.
LEMMA HeldFacts ==
  ASSUME NEW l, NEW v, NEW d, Mirror(l, v, d)
  PROVE  /\ Distinct(Values, ValuesOf(l, v))
         /\ Len(ValuesOf(l, v)) = Len(l)
         /\ \A t \in Values : t \in ToSet(ValuesOf(l, v)) <=> d[t] # NoNode
<1> DEFINE h == ValuesOf(l, v)
<1>1. /\ l \in Seq(Nodes) /\ Len(l) \in Nat /\ DOMAIN l = 1..Len(l)
      /\ \A i, j \in 1..Len(l) : l[i] = l[j] => i = j
      /\ \A i \in 1..Len(l) : l[i] \in Nodes
  BY DEF Mirror, Distinct, IsInjective
<1>2. ToSet(l) = {l[i] : i \in 1..Len(l)}
  BY <1>1 DEF ToSet
<1>3. ASSUME NEW i \in 1..Len(l) PROVE v[l[i]] \in Values /\ d[v[l[i]]] = l[i]
  BY <1>2 DEF Mirror
<1>4. /\ h \in Seq(Values) /\ Len(h) = Len(l) /\ DOMAIN h = 1..Len(l)
      /\ \A i \in 1..Len(l) : h[i] = v[l[i]]
  BY <1>1, <1>3 DEF ValuesOf
<1> HIDE DEF h
<1>5. ToSet(h) = {h[i] : i \in 1..Len(l)}
  BY <1>4 DEF ToSet
<1>6. IsInjective(h)
  <2>1. ASSUME NEW i \in 1..Len(l), NEW j \in 1..Len(l), h[i] = h[j] PROVE i = j
    <3>1. l[i] = l[j]
      BY <1>3, <1>4, <2>1
    <3> QED BY <1>1, <3>1
  <2> QED BY <1>4, <2>1 DEF IsInjective
<1>7. ASSUME NEW t \in Values PROVE t \in ToSet(h) <=> d[t] # NoNode
  <2>1. ASSUME t \in ToSet(h) PROVE d[t] # NoNode
    <3>1. PICK i \in 1..Len(l) : t = v[l[i]]
      BY <1>4, <1>5, <2>1
    <3> QED BY <1>1, <1>3, <3>1, CapacityAssumption
  <2>2. ASSUME d[t] # NoNode PROVE t \in ToSet(h)
    <3>1. d[t] \in ToSet(l) /\ v[d[t]] = t
      BY <2>2 DEF Mirror
    <3>2. PICK i \in 1..Len(l) : l[i] = d[t]
      BY <1>2, <3>1
    <3> QED BY <1>4, <1>5, <3>1, <3>2
  <2> QED BY <2>1, <2>2
<1> QED BY <1>4, <1>6, <1>7 DEF h, Distinct

\* Unlinking a node takes its value out of the list of values.
LEMMA ValuesErase ==
  ASSUME NEW l, NEW v, NEW d, Mirror(l, v, d), NEW n \in ToSet(l)
  PROVE  /\ v[n] \in ToSet(ValuesOf(l, v))
         /\ ValuesOf(LruErase(l, n), v) = LruErase(ValuesOf(l, v), v[n])
<1> DEFINE h == ValuesOf(l, v)
           m == LruErase(l, n)
           r == LruErase(h, v[n])
<1>1. /\ Distinct(Nodes, l) /\ l \in Seq(Nodes) /\ Len(l) \in Nat
      /\ DOMAIN l = 1..Len(l)
  BY DEF Mirror, Distinct
<1>2. PICK i \in 1..Len(l) : l[i] = n
  BY <1>1 DEF ToSet
<1>3. Distinct(Values, h) /\ Len(h) = Len(l)
  BY HeldFacts
<1>4. DOMAIN h = 1..Len(l) /\ \A j \in 1..Len(l) : h[j] = v[l[j]]
  BY <1>1 DEF ValuesOf
<1> HIDE DEF h
<1>5. h[i] = v[n] /\ i \in 1..Len(h)
  BY <1>2, <1>3, <1>4
<1>6. /\ m \in Seq(Nodes) /\ Len(m) = Len(l) - 1
      /\ \A j \in 1..Len(l) - 1 : m[j] = IF j < i THEN l[j] ELSE l[j + 1]
  BY <1>1, <1>2, EraseAt
<1>7. /\ r \in Seq(Values) /\ Len(r) = Len(l) - 1
      /\ \A j \in 1..Len(l) - 1 : r[j] = IF j < i THEN h[j] ELSE h[j + 1]
  BY <1>3, <1>5, EraseAt
<1> HIDE DEF m, r
<1>8. /\ DOMAIN m = 1..Len(l) - 1 /\ r = [j \in 1..Len(l) - 1 |-> r[j]]
      /\ ValuesOf(m, v) = [j \in 1..Len(l) - 1 |-> v[m[j]]]
  BY <1>1, <1>6, <1>7 DEF ValuesOf
<1>9. ASSUME NEW j \in 1..Len(l) - 1 PROVE v[m[j]] = r[j]
  <2>1. j \in 1..Len(l) /\ j + 1 \in 1..Len(l)
    BY <1>1
  <2> QED BY <1>4, <1>6, <1>7, <2>1
<1>10. ValuesOf(m, v) = r
  BY <1>8, <1>9
<1>11. v[n] \in ToSet(h)
  BY <1>4, <1>2, <1>5 DEF ToSet
<1> QED BY <1>10, <1>11 DEF m, r, h

\* Pushing a node that is not in the list puts its value in front.
LEMMA ValuesPush ==
  ASSUME NEW l, NEW v, NEW d, Mirror(l, v, d), NEW t \in Values,
         NEW n \in Nodes \ ToSet(l)
  PROVE  ValuesOf(<<n>> \o l, [v EXCEPT ![n] = t]) = <<t>> \o ValuesOf(l, v)
<1> DEFINE h == ValuesOf(l, v)
           m == <<n>> \o l
           w == [v EXCEPT ![n] = t]
<1>1. /\ l \in Seq(Nodes) /\ Len(l) \in Nat /\ DOMAIN l = 1..Len(l)
      /\ \A j \in 1..Len(l) : l[j] \in ToSet(l) /\ l[j] \in Nodes
      /\ v \in [Nodes -> Values \cup {NoValue}]
  BY DEF Mirror, Distinct, ToSet
<1>2. h \in Seq(Values) /\ Len(h) = Len(l)
  BY HeldFacts DEF Distinct
<1>3. \A j \in 1..Len(l) : h[j] = v[l[j]]
  BY <1>1 DEF ValuesOf
<1> HIDE DEF h
<1>4. /\ m \in Seq(Nodes) /\ Len(m) = Len(l) + 1 /\ m[1] = n
      /\ \A j \in 2..Len(l) + 1 : m[j] = l[j - 1]
  BY <1>1
<1>5. /\ <<t>> \o h \in Seq(Values) /\ Len(<<t>> \o h) = Len(l) + 1
      /\ (<<t>> \o h)[1] = t
      /\ \A j \in 2..Len(l) + 1 : (<<t>> \o h)[j] = h[j - 1]
  BY <1>2
<1>6. w[n] = t /\ \A j \in 1..Len(l) : w[l[j]] = v[l[j]]
  BY <1>1
<1> HIDE DEF m, w
<1>7. /\ DOMAIN m = 1..Len(l) + 1
      /\ ValuesOf(m, w) = [j \in 1..Len(l) + 1 |-> w[m[j]]]
      /\ <<t>> \o h = [j \in 1..Len(l) + 1 |-> (<<t>> \o h)[j]]
  BY <1>1, <1>4, <1>5 DEF ValuesOf
<1>8. ASSUME NEW j \in 1..Len(l) + 1 PROVE w[m[j]] = (<<t>> \o h)[j]
  <2>1. CASE j = 1
    BY <1>4, <1>5, <1>6, <2>1
  <2>2. CASE j # 1
    <3>1. j \in 2..Len(l) + 1 /\ j - 1 \in 1..Len(l)
      BY <1>1, <2>2
    <3> QED BY <1>3, <1>4, <1>5, <1>6, <3>1
  <2> QED BY <2>1, <2>2
<1>9. ValuesOf(m, w) = <<t>> \o h
  BY <1>7, <1>8
<1> QED BY <1>9 DEF m, w, h

-----------------------------------------------------------------------------
\* push_front and emplace, after whatever made room.
LEMMA PushFrontStep ==
  ASSUME NEW l, NEW d, Mirror(l, value, d), Len(l) < Capacity,
         NEW t \in Values, d[t] = NoNode, PushFront(l, d, t)
  PROVE  /\ Mirror(lru_list_, value, dir_)'
         /\ Held' = <<t>> \o ValuesOf(l, value)
<1>1. PICK n \in Nodes \ ToSet(l) : /\ lru_list_' = <<n>> \o l
                                    /\ value' = [value EXCEPT ![n] = t]
                                    /\ dir_' = [d EXCEPT ![t] = n]
  BY DEF PushFront
<1>2. Mirror(lru_list_', value', dir_')
  BY <1>1, PushMirrors
<1>3. ValuesOf(lru_list_', value') = <<t>> \o ValuesOf(l, value)
  BY <1>1, ValuesPush
<1>4. Held' = ValuesOf(lru_list_', value')
  BY DEF Held, ValuesOf
<1> QED BY <1>2, <1>3, <1>4 DEF Mirror

\* The list of values, and the last of them, of a replacer that is not empty.
LEMMA BackFacts ==
  ASSUME IInv, lru_list_ # <<>>
  PROVE  /\ Last(lru_list_) \in ToSet(lru_list_)
         /\ Front(lru_list_) = EraseNode(lru_list_, Last(lru_list_))
         /\ Held # <<>> /\ Distinct(Values, Held)
         /\ Last(Held) = value[Last(lru_list_)]
<1>1. Distinct(Nodes, lru_list_) /\ Mirror(lru_list_, value, dir_)
  BY DEF IInv, Mirror
<1>2. /\ Last(lru_list_) \in ToSet(lru_list_)
      /\ Front(lru_list_) = LruErase(lru_list_, Last(lru_list_))
  BY <1>1, FrontFacts, FrontIsErase
<1>3. Held = ValuesOf(lru_list_, value)
  BY DEF Held, ValuesOf
<1>4. Distinct(Values, Held) /\ Len(Held) = Len(lru_list_)
  BY <1>1, <1>3, HeldFacts
<1>5. /\ Len(lru_list_) \in 1..Len(lru_list_) /\ DOMAIN lru_list_ = 1..Len(lru_list_)
  BY <1>1 DEF Distinct
<1>6. Held[Len(lru_list_)] = value[lru_list_[Len(lru_list_)]]
  BY <1>5 DEF Held
<1>7. Held # <<>>
  BY <1>4, <1>5
<1> QED BY <1>2, <1>4, <1>6, <1>7 DEF EraseNode, LruRemove, Last

\* erase() of a node by the map's entry for its value.
LEMMA EraseNodeFacts ==
  ASSUME IInv, NEW n \in ToSet(lru_list_)
  PROVE  /\ value[n] \in Values /\ dir_[value[n]] = n
         /\ Mirror(EraseNode(lru_list_, n), value, [dir_ EXCEPT ![value[n]] = NoNode])
         /\ Len(EraseNode(lru_list_, n)) < Capacity
         /\ value[n] \in ToSet(Held)
         /\ ValuesOf(EraseNode(lru_list_, n), value) = LruErase(Held, value[n])
<1>1. Mirror(lru_list_, value, dir_) /\ EraseNode(lru_list_, n) = LruErase(lru_list_, n)
  BY DEF IInv, EraseNode, LruRemove
<1>2. Held = ValuesOf(lru_list_, value)
  BY DEF Held, ValuesOf
<1>3. value[n] \in Values /\ dir_[value[n]] = n
  BY <1>1 DEF Mirror
<1> QED BY <1>1, <1>2, <1>3, UnlinkMirrors, ValuesErase

-----------------------------------------------------------------------------
\* Each operation keeps the invariant and does to the list of values what the
\* operator of LruOps says.
LEMMA PutPresentStep ==
  ASSUME IInv, NEW t \in Values, PutPresent(t)
  PROVE  IInv' /\ t \in ToSet(Held) /\ Held' = LruPut(Held, t, Capacity)
<1> DEFINE n == dir_[t]
           m == EraseNode(lru_list_, n)
           e == [dir_ EXCEPT ![t] = NoNode]
<1>1. n \in ToSet(lru_list_) /\ value[n] = t
  BY DEF PutPresent, IInv, Mirror
<1>2. /\ Mirror(m, value, e) /\ Len(m) < Capacity /\ t \in ToSet(Held)
      /\ ValuesOf(m, value) = LruErase(Held, t)
  BY <1>1, EraseNodeFacts
<1>3. e[t] = NoNode
  BY DEF IInv, Mirror
<1>4. PushFront(m, e, t) /\ evicted' = NoValue
  BY DEF PutPresent
<1> HIDE DEF m, e, n
<1>5. Mirror(lru_list_, value, dir_)' /\ Held' = <<t>> \o ValuesOf(m, value)
  BY <1>2, <1>3, <1>4, PushFrontStep
<1> QED BY <1>2, <1>4, <1>5 DEF IInv, LruPut

LEMMA PutNewStep ==
  ASSUME IInv, NEW t \in Values, PutNew(t)
  PROVE  /\ IInv' /\ t \notin ToSet(Held)
         /\ Len(Held) < Capacity
         /\ Held' = LruPut(Held, t, Capacity)
<1>1. /\ Mirror(lru_list_, value, dir_) /\ dir_[t] = NoNode
      /\ Len(lru_list_) # Capacity /\ PushFront(lru_list_, dir_, t)
      /\ evicted' = NoValue
  BY DEF IInv, PutNew
<1>2. Len(lru_list_) < Capacity
  BY <1>1, CapacityAssumption DEF Mirror, Distinct
<1>3. Held = ValuesOf(lru_list_, value)
  BY DEF Held, ValuesOf
<1>4. t \notin ToSet(Held) /\ Len(Held) = Len(lru_list_)
  BY <1>1, <1>3, HeldFacts
<1>5. Mirror(lru_list_, value, dir_)' /\ Held' = <<t>> \o Held
  BY <1>1, <1>2, <1>3, PushFrontStep
<1> QED BY <1>1, <1>2, <1>4, <1>5, CapacityAssumption DEF IInv, LruPut

LEMMA PutFullStep ==
  ASSUME IInv, NEW t \in Values, PutFull(t)
  PROVE  /\ IInv' /\ t \notin ToSet(Held)
         /\ Len(Held) = Capacity /\ Distinct(Values, Held) /\ Held # <<>>
         /\ Front(Held) = LruErase(Held, Last(Held))
         /\ Held' = LruPut(Held, t, Capacity)
<1> DEFINE n == Last(lru_list_)
           m == EraseNode(lru_list_, n)
           e == [dir_ EXCEPT ![value[n]] = NoNode]
<1>1. /\ Mirror(lru_list_, value, dir_) /\ dir_[t] = NoNode
      /\ Len(lru_list_) = Capacity
      /\ PushFront(Front(lru_list_), e, t)
      /\ evicted' = NoValue
  BY DEF IInv, PutFull
<1>2. lru_list_ # <<>>
  BY <1>1, CapacityAssumption
<1>3. /\ n \in ToSet(lru_list_) /\ Front(lru_list_) = m
      /\ Held # <<>> /\ Distinct(Values, Held) /\ Last(Held) = value[n]
  BY <1>2, BackFacts
<1>4. /\ value[n] \in Values /\ dir_[value[n]] = n
      /\ Mirror(m, value, e) /\ Len(m) < Capacity
      /\ ValuesOf(m, value) = LruErase(Held, value[n])
  BY <1>3, EraseNodeFacts
<1>5. Held = ValuesOf(lru_list_, value)
  BY DEF Held, ValuesOf
<1>6. t \notin ToSet(Held) /\ Len(Held) = Len(lru_list_)
  BY <1>1, <1>5, HeldFacts
<1>7. e[t] = NoNode
  BY <1>1 DEF Mirror
<1> HIDE DEF m, e, n
<1>8. Mirror(lru_list_, value, dir_)' /\ Held' = <<t>> \o ValuesOf(m, value)
  BY <1>1, <1>3, <1>4, <1>7, PushFrontStep
<1>9. Front(Held) = LruErase(Held, Last(Held))
  BY <1>3, FrontIsErase
<1> QED BY <1>1, <1>3, <1>4, <1>6, <1>8, <1>9 DEF IInv, LruPut

LEMMA RemoveValueStep ==
  ASSUME IInv, NEW t \in Values, RemoveValue(t)
  PROVE  IInv' /\ t \in ToSet(Held) /\ Held' = LruRemove(Held, t)
<1> DEFINE n == dir_[t]
           m == EraseNode(lru_list_, n)
<1>1. n \in ToSet(lru_list_) /\ value[n] = t
  BY DEF RemoveValue, IInv, Mirror
<1>2. /\ Mirror(m, value, [dir_ EXCEPT ![t] = NoNode]) /\ t \in ToSet(Held)
      /\ ValuesOf(m, value) = LruErase(Held, t)
  BY <1>1, EraseNodeFacts
<1>3. /\ lru_list_' = m /\ dir_' = [dir_ EXCEPT ![t] = NoNode]
      /\ value' = value /\ evicted' = NoValue
  BY DEF RemoveValue
<1> HIDE DEF m, n
<1>4. Held' = ValuesOf(m, value)
  BY <1>3 DEF Held, ValuesOf
<1>5. Mirror(lru_list_, value, dir_)'
  BY <1>2, <1>3 DEF Mirror
<1> QED BY <1>2, <1>3, <1>4, <1>5 DEF IInv, LruRemove

LEMMA VictimStep ==
  ASSUME IInv, Victim
  PROVE  /\ IInv' /\ Distinct(Values, Held) /\ Held # <<>>
         /\ evicted' = LruVictim(Held)
         /\ Held' = LruAfterVictim(Held)
         /\ Held' = LruErase(Held, Last(Held))
<1> DEFINE n == Last(lru_list_)
           m == EraseNode(lru_list_, n)
           e == [dir_ EXCEPT ![value[n]] = NoNode]
<1>1. /\ n \in ToSet(lru_list_) /\ Front(lru_list_) = m
      /\ Held # <<>> /\ Distinct(Values, Held) /\ Last(Held) = value[n]
  BY BackFacts DEF Victim
<1>2. /\ value[n] \in Values /\ Mirror(m, value, e)
      /\ ValuesOf(m, value) = LruErase(Held, value[n])
  BY <1>1, EraseNodeFacts
<1>3. lru_list_' = m /\ dir_' = e /\ value' = value /\ evicted' = value[n]
  BY <1>1 DEF Victim
<1> HIDE DEF m, e, n
<1>4. Held' = ValuesOf(m, value)
  BY <1>3 DEF Held, ValuesOf
<1>5. Front(Held) = LruErase(Held, Last(Held))
  BY <1>1, FrontIsErase
<1>6. Mirror(lru_list_, value, dir_)'
  BY <1>2, <1>3 DEF Mirror
<1> QED BY <1>1, <1>2, <1>3, <1>4, <1>5, <1>6 DEF IInv, LruVictim, LruAfterVictim

LEMMA HeldIsDistinct ==
  ASSUME IInv
  PROVE  /\ Distinct(Values, Held) /\ Len(Held) \in Nat
         /\ \A t \in Values : t \in ToSet(Held) <=> dir_[t] # NoNode
<1>1. Held = ValuesOf(lru_list_, value)
  BY DEF Held, ValuesOf
<1> QED BY <1>1, HeldFacts DEF IInv, Distinct

LEMMA IInvInit == Init => IInv
<1> SUFFICES ASSUME Init PROVE IInv
  OBVIOUS
<1>1. /\ lru_list_ = <<>> /\ value = [n \in Nodes |-> NoValue]
      /\ dir_ = [t \in Values |-> NoNode] /\ evicted = NoValue
  BY DEF Init
<1>2. Distinct(Nodes, <<>>) /\ ToSet(<<>>) = {} /\ Len(<<>>) = 0
  BY DEF Distinct, IsInjective, ToSet
<1>3. Mirror(lru_list_, value, dir_)
  BY <1>1, <1>2, CapacityAssumption DEF Mirror
<1> QED BY <1>1, <1>3 DEF IInv

LEMMA IInvStep == IInv /\ [Next]_vars => IInv'
<1> SUFFICES ASSUME IInv, [Next]_vars PROVE IInv'
  OBVIOUS
<1>1. ASSUME NEW t \in Values, Put(t) PROVE IInv'
  BY <1>1, PutPresentStep, PutNewStep, PutFullStep DEF Put
<1>2. ASSUME NEW t \in Values, RemoveValue(t) PROVE IInv'
  BY <1>2, RemoveValueStep
<1>3. CASE Victim
  BY <1>3, VictimStep
<1>4. CASE UNCHANGED vars
  BY <1>4 DEF vars, IInv, Mirror
<1> QED BY <1>1, <1>2, <1>3, <1>4 DEF Next

LEMMA Invariance == Spec => []IInv
BY IInvInit, IInvStep, PTL DEF Spec

\* The map has an iterator for exactly the values in the list, each to the
\* node that holds its value: every erase by iterator in put and remove
\* unlinks the node it is meant for.
THEOREM MapMirrorsList == Spec => []DirMirrorsList
<1>1. IInv => DirMirrorsList
  BY HeldIsDistinct DEF IInv, Mirror, DirMirrorsList
<1> QED BY <1>1, Invariance, PTL

\* The list of values moves as LruOps computes it, which is all the model of
\* the buffer pool keeps of its replacer.
THEOREM MovesAsComputed == Spec => ComputesLruOps
<1> DEFINE Moves ==
      /\ \A t \in Values : Put(t) => Held' = LruPut(Held, t, Capacity)
      /\ \A t \in Values : RemoveValue(t) => Held' = LruRemove(Held, t)
      /\ Victim => evicted' = LruVictim(Held) /\ Held' = LruAfterVictim(Held)
<1>1. IInv => Moves
  BY PutPresentStep, PutNewStep, PutFullStep, RemoveValueStep, VictimStep DEF Put
<1> HIDE DEF Moves
<1>2. Spec => [][Moves]_vars
  BY <1>1, Invariance, PTL DEF Spec
<1> QED BY <1>2 DEF ComputesLruOps, Moves

-----------------------------------------------------------------------------
\* How the order of a list of distinct values changes.
LEMMA BehindErase ==
  ASSUME NEW S, NEW l, Distinct(S, l), NEW t \in ToSet(l)
  PROVE  Behind(LruErase(l, t)) = {pair \in Behind(l) : t \notin {pair[1], pair[2]}}
<1> DEFINE r == LruErase(l, t)
           kept == {pair \in Behind(l) : t \notin {pair[1], pair[2]}}
<1>1. /\ l \in Seq(S) /\ Len(l) \in Nat /\ DOMAIN l = 1..Len(l)
      /\ \A j, k \in 1..Len(l) : l[j] = l[k] => j = k
  BY DEF Distinct, IsInjective
<1>2. PICK i \in 1..Len(l) : l[i] = t
  BY <1>1 DEF ToSet
<1>3. /\ r \in Seq(S) /\ Len(r) = Len(l) - 1
      /\ \A j \in 1..Len(l) - 1 : r[j] = IF j < i THEN l[j] ELSE l[j + 1]
  BY <1>2, EraseAt
<1>4. ToSet(r) = ToSet(l) \ {t}
  BY EraseFacts
<1> HIDE DEF r
<1>5. DOMAIN r = 1..Len(l) - 1
  BY <1>1, <1>3
<1> DEFINE at(j) == IF j < i THEN j ELSE j + 1
<1>6. \A j \in 1..Len(l) - 1 : at(j) \in 1..Len(l) /\ r[j] = l[at(j)]
  BY <1>1, <1>3
<1>7. \A j, k \in 1..Len(l) - 1 : j > k => at(j) > at(k)
  BY <1>1
<1> DEFINE to(j) == IF j < i THEN j ELSE j - 1
<1>8. \A j \in 1..Len(l) : j # i => to(j) \in 1..Len(l) - 1 /\ r[to(j)] = l[j]
  <2> SUFFICES ASSUME NEW j \in 1..Len(l), j # i
               PROVE  to(j) \in 1..Len(l) - 1 /\ r[to(j)] = l[j]
    OBVIOUS
  <2>1. to(j) \in 1..Len(l) - 1 /\ at(to(j)) = j
    BY <1>1
  <2> QED BY <1>6, <2>1
<1>9. \A j, k \in 1..Len(l) : j > k /\ j # i /\ k # i => to(j) > to(k)
  BY <1>1
<1> HIDE DEF at, to
<1>10. Behind(r) \subseteq kept
  <2> SUFFICES ASSUME NEW pair \in Behind(r) PROVE pair \in kept
    OBVIOUS
  <2>1. /\ pair \in ToSet(r) \X ToSet(r)
        /\ \E j, k \in 1..Len(l) - 1 : j > k /\ pair = <<r[j], r[k]>>
    BY <1>5 DEF Behind
  <2>2. PICK j, k \in 1..Len(l) - 1 : j > k /\ pair = <<r[j], r[k]>>
    BY <2>1
  <2>3. pair = <<l[at(j)], l[at(k)]>> /\ at(j) > at(k) /\ at(j) \in 1..Len(l) /\ at(k) \in 1..Len(l)
    BY <1>6, <1>7, <2>2
  <2>4. pair \in ToSet(l) \X ToSet(l) /\ t \notin {pair[1], pair[2]}
    BY <1>4, <2>1
  <2>5. pair \in Behind(l)
    BY <1>1, <2>3, <2>4 DEF Behind
  <2> QED BY <2>4, <2>5
<1>11. kept \subseteq Behind(r)
  <2> SUFFICES ASSUME NEW pair \in kept PROVE pair \in Behind(r)
    OBVIOUS
  <2>1. /\ pair \in ToSet(l) \X ToSet(l) /\ t # pair[1] /\ t # pair[2]
        /\ \E j, k \in 1..Len(l) : j > k /\ pair = <<l[j], l[k]>>
    BY <1>1 DEF Behind
  <2>2. PICK j, k \in 1..Len(l) : j > k /\ pair = <<l[j], l[k]>>
    BY <2>1
  <2>3. j # i /\ k # i
    BY <1>2, <2>1, <2>2
  <2>4. /\ pair = <<r[to(j)], r[to(k)]>> /\ to(j) > to(k)
        /\ to(j) \in DOMAIN r /\ to(k) \in DOMAIN r
    BY <1>5, <1>8, <1>9, <2>2, <2>3
  <2>5. pair \in ToSet(r) \X ToSet(r)
    BY <1>4, <2>1
  <2> QED BY <2>4, <2>5 DEF Behind
<1> QED BY <1>10, <1>11 DEF r

LEMMA BehindPush ==
  ASSUME NEW S, NEW l, Distinct(S, l), NEW t \in S, t \notin ToSet(l)
  PROVE  Behind(<<t>> \o l) = Behind(l) \cup (ToSet(l) \X {t})
<1> DEFINE r == <<t>> \o l
<1>1. l \in Seq(S) /\ Len(l) \in Nat /\ DOMAIN l = 1..Len(l)
  BY DEF Distinct
<1>2. /\ r \in Seq(S) /\ DOMAIN r = 1..Len(l) + 1 /\ r[1] = t
      /\ \A j \in 1..Len(l) : r[j + 1] = l[j]
      /\ \A j \in 2..Len(l) + 1 : r[j] = l[j - 1]
  BY <1>1
<1>3. ToSet(r) = ToSet(l) \cup {t}
  BY PushFrontFacts
<1>4. ToSet(l) = {l[j] : j \in 1..Len(l)}
  BY <1>1 DEF ToSet
<1> HIDE DEF r
<1>5. ASSUME NEW pair \in Behind(r) PROVE pair \in Behind(l) \cup (ToSet(l) \X {t})
  <2>1. PICK j, k \in 1..Len(l) + 1 : j > k /\ pair = <<r[j], r[k]>>
    BY <1>2 DEF Behind
  <2>2. j \in 2..Len(l) + 1 /\ j - 1 \in 1..Len(l) /\ r[j] = l[j - 1]
    BY <1>1, <1>2, <2>1
  <2>3. CASE k = 1
    BY <1>2, <1>4, <2>1, <2>2, <2>3
  <2>4. CASE k # 1
    <3>1. k - 1 \in 1..Len(l) /\ r[k] = l[k - 1] /\ j - 1 > k - 1
      BY <1>1, <1>2, <2>1, <2>4
    <3>2. pair = <<l[j - 1], l[k - 1]>> /\ pair \in ToSet(l) \X ToSet(l)
      BY <1>4, <2>1, <2>2, <3>1
    <3>3. pair \in Behind(l)
      BY <1>1, <2>2, <3>1, <3>2 DEF Behind
    <3> QED BY <3>3
  <2> QED BY <2>3, <2>4
<1>6. ASSUME NEW pair \in Behind(l) PROVE pair \in Behind(r)
  <2>1. PICK j, k \in 1..Len(l) : j > k /\ pair = <<l[j], l[k]>>
    BY <1>1 DEF Behind
  <2>2. /\ pair = <<r[j + 1], r[k + 1]>> /\ j + 1 > k + 1
        /\ j + 1 \in DOMAIN r /\ k + 1 \in DOMAIN r
    BY <1>1, <1>2, <2>1
  <2>3. pair \in ToSet(r) \X ToSet(r)
    BY <1>3 DEF Behind
  <2> QED BY <2>2, <2>3 DEF Behind
<1>7. ASSUME NEW pair \in ToSet(l) \X {t} PROVE pair \in Behind(r)
  <2>1. PICK j \in 1..Len(l) : pair = <<l[j], t>>
    BY <1>4
  <2>2. /\ pair = <<r[j + 1], r[1]>> /\ j + 1 > 1
        /\ j + 1 \in DOMAIN r /\ 1 \in DOMAIN r
    BY <1>1, <1>2, <2>1
  <2>3. pair \in ToSet(r) \X ToSet(r)
    BY <1>3
  <2> QED BY <2>2, <2>3 DEF Behind
<1>8. Behind(r) \subseteq Behind(l) \cup (ToSet(l) \X {t})
  BY <1>5
<1>9. Behind(l) \cup (ToSet(l) \X {t}) \subseteq Behind(r)
  BY <1>6, <1>7
<1> QED BY <1>8, <1>9, Zenon DEF r

\* Nothing is behind the last value.
LEMMA LastIsOldest ==
  ASSUME NEW S, NEW l, Distinct(S, l), l # <<>>
  PROVE  /\ Last(l) \in ToSet(l)
         /\ \A u \in ToSet(l) : <<u, Last(l)>> \notin Behind(l)
<1>1. /\ l \in Seq(S) /\ Len(l) \in 1..Len(l) /\ Len(l) \in Nat /\ DOMAIN l = 1..Len(l)
      /\ Last(l) = l[Len(l)]
      /\ \A j, k \in 1..Len(l) : l[j] = l[k] => j = k
  BY DEF Distinct, IsInjective, Last
<1>2. Last(l) \in ToSet(l)
  BY FrontFacts
<1>3. ASSUME NEW u, <<u, Last(l)>> \in Behind(l) PROVE FALSE
  <2>1. PICK j, k \in 1..Len(l) : j > k /\ <<u, Last(l)>> = <<l[j], l[k]>>
    BY <1>1, <1>3 DEF Behind
  <2>2. k = Len(l)
    BY <1>1, <2>1
  <2> QED BY <1>1, <2>1, <2>2
<1> QED BY <1>2, <1>3

\* A list without repetitions is as long as its set of values is large.
LEMMA DistinctCardinality ==
  ASSUME NEW S, NEW l, Distinct(S, l)
  PROVE  Cardinality(ToSet(l)) = Len(l)
<1>1. l \in Seq(S) /\ Len(l) \in Nat /\ DOMAIN l = 1..Len(l) /\ IsInjective(l)
  BY DEF Distinct
<1>2. IsFiniteSet(1..Len(l)) /\ Cardinality(1..Len(l)) = Len(l)
  <2>1. /\ IsFiniteSet(1..Len(l))
        /\ Cardinality(1..Len(l)) = IF 1 > Len(l) THEN 0 ELSE Len(l) - 1 + 1
    BY <1>1, FS_Interval
  <2> QED BY <1>1, <2>1
<1>3. l \in Bijection(1..Len(l), ToSet(l))
  BY <1>1 DEF Bijection, Injection, Surjection, IsInjective, ToSet
<1>4. ExistsBijection(1..Len(l), ToSet(l))
  BY <1>3 DEF ExistsBijection
<1> QED BY <1>2, <1>4, FS_Bijection

\* Lru counts its members with the library's Cardinality.
LEMMA SameCardinality ==
  ASSUME NEW S
  PROVE  LRU!Cardinality(S) = Cardinality(S)
BY DEF LRU!Cardinality, LRU!IsFiniteSet, Cardinality, IsFiniteSet

-----------------------------------------------------------------------------
\* Each operation is one of the abstract replacer's.
LEMMA PutPresentIsPut ==
  ASSUME IInv, NEW t \in Values, PutPresent(t)
  PROVE  LRU!Put(t)
<1> DEFINE m == LruErase(Held, t)
<1>1. t \in ToSet(Held) /\ Held' = <<t>> \o m /\ evicted' = NoValue
  BY PutPresentStep DEF LruPut, PutPresent
<1>2. Distinct(Values, Held)
  BY HeldIsDistinct
<1>3. /\ Distinct(Values, m) /\ ToSet(m) = ToSet(Held) \ {t}
      /\ Behind(m) = {pair \in Behind(Held) : t \notin {pair[1], pair[2]}}
  BY <1>1, <1>2, EraseFacts, BehindErase
<1> HIDE DEF m
<1>4. /\ ToSet(Held') = ToSet(m) \cup {t}
      /\ Behind(Held') = Behind(m) \cup (ToSet(m) \X {t})
  BY <1>1, <1>3, PushFrontFacts, BehindPush
<1>5. ToSet(Held)' = ToSet(Held') /\ OlderPairs' = Behind(Held')
  BY DEF OlderPairs, ToSet, Behind
<1>6. ToSet(Held)' = ToSet(Held) \cup {t}
  BY <1>1, <1>3, <1>4, <1>5
<1> QED BY <1>1, <1>3, <1>4, <1>5, <1>6, Zenon DEF LRU!Put, LRU!Without, OlderPairs

LEMMA PutNewIsPut ==
  ASSUME IInv, NEW t \in Values, PutNew(t)
  PROVE  LRU!Put(t)
<1>1. /\ t \notin ToSet(Held) /\ Len(Held) < Capacity
      /\ Held' = <<t>> \o Held /\ evicted' = NoValue
  BY PutNewStep, CapacityAssumption DEF LruPut, PutNew
<1>2. Distinct(Values, Held)
  BY HeldIsDistinct
<1>3. LRU!Cardinality(ToSet(Held)) < Capacity
  BY <1>1, <1>2, DistinctCardinality, SameCardinality
<1>4. /\ ToSet(Held') = ToSet(Held) \cup {t}
      /\ Behind(Held') = Behind(Held) \cup (ToSet(Held) \X {t})
  BY <1>1, <1>2, PushFrontFacts, BehindPush
<1>5. ToSet(Held)' = ToSet(Held') /\ OlderPairs' = Behind(Held')
  BY DEF OlderPairs, ToSet, Behind
<1>6. ToSet(Held) = ToSet(Held) \ {t}
  BY <1>1
<1>7. {pair \in Behind(Held) : t \notin {pair[1], pair[2]}} = Behind(Held)
  BY <1>1 DEF Behind
<1> QED BY <1>1, <1>3, <1>4, <1>5, <1>6, <1>7, Zenon DEF LRU!Put, LRU!Without, OlderPairs

LEMMA PutFullIsPutWhenFull ==
  ASSUME IInv, NEW t \in Values, PutFull(t)
  PROVE  LRU!PutWhenFull(t)
<1> DEFINE u == Last(Held)
           m == LruErase(Held, u)
<1>1. /\ t \notin ToSet(Held) /\ Len(Held) = Capacity
      /\ Distinct(Values, Held) /\ Held # <<>>
      /\ Held' = <<t>> \o m /\ evicted' = NoValue
  BY PutFullStep DEF LruPut, PutFull
<1>2. LRU!Cardinality(ToSet(Held)) = Capacity
  BY <1>1, DistinctCardinality, SameCardinality
<1>3. u \in ToSet(Held) /\ \A w \in ToSet(Held) : <<w, u>> \notin Behind(Held)
  BY <1>1, LastIsOldest
<1>4. /\ Distinct(Values, m) /\ ToSet(m) = ToSet(Held) \ {u}
      /\ Behind(m) = {pair \in Behind(Held) : u \notin {pair[1], pair[2]}}
  BY <1>1, <1>3, EraseFacts, BehindErase
<1> HIDE DEF m, u
<1>5. /\ ToSet(Held') = ToSet(m) \cup {t}
      /\ Behind(Held') = Behind(m) \cup (ToSet(m) \X {t})
  BY <1>1, <1>4, PushFrontFacts, BehindPush
<1>6. ToSet(Held)' = ToSet(Held') /\ OlderPairs' = Behind(Held')
  BY DEF OlderPairs, ToSet, Behind
<1>7. LRU!Oldest(u)
  BY <1>3, Zenon DEF LRU!Oldest, OlderPairs
<1>8. ToSet(Held)' = (ToSet(Held) \ {u}) \cup {t}
  BY <1>4, <1>5, <1>6
<1>9. OlderPairs' = LRU!Without(u) \cup ((ToSet(Held) \ {u}) \X {t})
  BY <1>4, <1>5, <1>6, Zenon DEF LRU!Without, OlderPairs
<1> QED BY <1>1, <1>2, <1>3, <1>7, <1>8, <1>9 DEF LRU!PutWhenFull

LEMMA RemoveIsRemove ==
  ASSUME IInv, NEW t \in Values, RemoveValue(t)
  PROVE  LRU!Remove(t)
<1>1. t \in ToSet(Held) /\ Held' = LruErase(Held, t) /\ evicted' = NoValue
  BY RemoveValueStep DEF LruRemove, RemoveValue
<1>2. Distinct(Values, Held)
  BY HeldIsDistinct
<1>3. /\ ToSet(Held') = ToSet(Held) \ {t}
      /\ Behind(Held') = {pair \in Behind(Held) : t \notin {pair[1], pair[2]}}
  BY <1>1, <1>2, EraseFacts, BehindErase
<1>4. ToSet(Held)' = ToSet(Held') /\ OlderPairs' = Behind(Held')
  BY DEF OlderPairs, ToSet, Behind
<1> QED BY <1>1, <1>3, <1>4, Zenon DEF LRU!Remove, LRU!Without, OlderPairs

LEMMA VictimIsVictim ==
  ASSUME IInv, Victim
  PROVE  Last(Held) \in Values /\ LRU!Victim(Last(Held))
<1> DEFINE t == Last(Held)
<1>1. /\ Distinct(Values, Held) /\ Held # <<>>
      /\ Held' = LruErase(Held, t) /\ evicted' = t
  BY VictimStep DEF LruVictim
<1>2. /\ t \in ToSet(Held) /\ t \in Values
      /\ \A w \in ToSet(Held) : <<w, t>> \notin Behind(Held)
  BY <1>1, LastIsOldest, FrontFacts
<1> HIDE DEF t
<1>3. /\ ToSet(Held') = ToSet(Held) \ {t}
      /\ Behind(Held') = {pair \in Behind(Held) : t \notin {pair[1], pair[2]}}
  BY <1>1, <1>2, EraseFacts, BehindErase
<1>4. ToSet(Held)' = ToSet(Held') /\ OlderPairs' = Behind(Held')
  BY DEF OlderPairs, ToSet, Behind
<1>5. LRU!Oldest(t)
  BY <1>2, Zenon DEF LRU!Oldest, OlderPairs
<1>6. LRU!Victim(t)
  BY <1>1, <1>3, <1>4, <1>5, Zenon DEF LRU!Victim, LRU!Without, OlderPairs
<1> QED BY <1>2, <1>6 DEF t

\* The replacer is a least-recently-used one: with its values as members and
\* the list as the order of use, every put, remove and victim is the step of
\* Lru of that name, and a put at capacity drops the oldest member.
THEOREM ReplacerIsLru == Spec => ImplementsLru
<1>1. Init => LRU!Init
  <2> SUFFICES ASSUME Init PROVE LRU!Init
    OBVIOUS
  <2>1. Held = <<>> /\ evicted = NoValue
    BY DEF Init, Held
  <2>2. ToSet(Held) = {} /\ OlderPairs = {}
    BY <2>1 DEF ToSet, OlderPairs, Behind
  <2> QED BY <2>1, <2>2 DEF LRU!Init
<1>2. IInv /\ [Next]_vars => [LRU!Next]_<<ToSet(Held), OlderPairs, evicted>>
  <2> SUFFICES ASSUME IInv, [Next]_vars
               PROVE  LRU!Next \/ UNCHANGED <<ToSet(Held), OlderPairs, evicted>>
    OBVIOUS
  <2>1. ASSUME NEW t \in Values, Put(t) PROVE LRU!Next
    BY <2>1, PutPresentIsPut, PutNewIsPut, PutFullIsPutWhenFull DEF Put, LRU!Next
  <2>2. ASSUME NEW t \in Values, RemoveValue(t) PROVE LRU!Next
    BY <2>2, RemoveIsRemove DEF LRU!Next
  <2>3. CASE Victim
    BY <2>3, VictimIsVictim DEF LRU!Next
  <2>4. CASE UNCHANGED vars
    BY <2>4 DEF vars, Held, OlderPairs, Behind, ToSet
  <2> QED BY <2>1, <2>2, <2>3, <2>4 DEF Next
<1> QED BY <1>1, <1>2, Invariance, PTL DEF Spec, ImplementsLru, LRU!Spec
=============================================================================
