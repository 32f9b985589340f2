------------------------------ MODULE OpsProofs -----------------------------
(***************************************************************************)
(* Lemmas on what the other proof modules compute with: functions defined  *)
(* by recursion, the lists of LruOps, the slots of RecordOps.  The parts   *)
(* share no constant, and no proof on lists uses what RecordOps assumes.   *)
(***************************************************************************)
EXTENDS LruOps, RecordOps, FiniteSetTheorems, SequenceTheorems,
        WellFoundedInduction, TLAPS

\* Induction over data, without the induction theorems: a claim about all
\* naturals (all sequences, by their lengths) is true if none is the first
\* for which it is false.
LEMMA LeastNatural ==
  ASSUME NEW T, T \subseteq Nat, T # {}
  PROVE  \E x \in T : \A y \in T : x <= y
<1>1. PICK x \in T : \A y \in T : ~(<<y, x>> \in OpToRel(<, Nat))
  BY NatLessThanWellFounded, WFMin
<1>2. \A y \in T : ~(y < x)
  BY <1>1 DEF OpToRel
<1> QED BY <1>2

\* f is what b becomes in the steps 1, 2, ... n.
Follows(f, n, b, step) == f[0] = b /\ \A i \in 1..n : f[i] = step[i][f[i-1]]

\* A function defined by recursion on 0..n exists.
LEMMA FiniteRecursion ==
  ASSUME NEW n \in Nat, NEW S, NEW b \in S, NEW step \in [1..n -> [S -> S]]
  PROVE  \E f \in [0..n -> S] : Follows(f, n, b, step)
<1> DEFINE Good(m) == {f \in [0..m -> S] : Follows(f, m, b, step)}
           T == {m \in 0..n : Good(m) = {}}
<1>1. SUFFICES ASSUME T # {} PROVE FALSE
  <2>1. T = {} => Good(n) # {}
    OBVIOUS
  <2> QED BY <1>1, <2>1
<1> HIDE DEF Good
<1>2. PICK m \in T : \A y \in T : m <= y
  <2>1. T \subseteq Nat
    OBVIOUS
  <2> HIDE DEF T
  <2> QED BY <1>1, <2>1, LeastNatural
<1>3. CASE m = 0
  <2>1. [i \in 0..0 |-> b] \in Good(0)
    BY DEF Good, Follows
  <2> QED BY <1>2, <1>3, <2>1
<1>4. CASE m # 0
  <2>1. m - 1 \in 0..n /\ Good(m - 1) # {} /\ m \in 1..n /\ m - 1 \in 0..m-1
    BY <1>2, <1>4
  <2>2. PICK g : g \in Good(m - 1)
    BY <2>1
  <2>3. /\ g \in [0..m-1 -> S] /\ g[0] = b
        /\ \A i \in 1..m-1 : g[i] = step[i][g[i-1]]
    BY <2>2 DEF Good, Follows
  <2> DEFINE v == step[m][g[m-1]]
             f == [i \in 0..m |-> IF i = m THEN v ELSE g[i]]
  <2>4. v \in S
    BY <2>1, <2>3
  <2> HIDE DEF v
  <2>5. f \in [0..m -> S]
    BY <2>1, <2>3, <2>4
  <2>6. \A i \in 0..m-1 : f[i] = g[i]
    BY <2>1
  <2>7. f[m] = v /\ f[0] = b /\ f[m-1] = g[m-1]
    BY <2>1, <2>3, <2>6
  <2> HIDE DEF f
  <2>8. ASSUME NEW i \in 1..m PROVE f[i] = step[i][f[i-1]]
    <3>1. CASE i = m
      BY <2>7, <3>1 DEF v
    <3>2. CASE i # m
      <4>1. i \in 1..m-1 /\ i \in 0..m-1 /\ i - 1 \in 0..m-1
        BY <2>1, <3>2
      <4> QED BY <2>3, <2>6, <4>1
    <3> QED BY <3>1, <3>2
  <2>9. f \in Good(m)
    BY <2>5, <2>7, <2>8 DEF Good, Follows
  <2> QED BY <1>2, <2>9
<1> QED BY <1>3, <1>4

-----------------------------------------------------------------------------
(* What the operators of LruOps do to a list without repetitions: to its     *)
(* set of elements, its length, and the absence of repetitions.              *)

\* A sequence over S without repetitions.
Distinct(S, l) == l \in Seq(S) /\ IsInjective(l)

\* erase() by the iterator of the i-th value: the values before it keep their
\* places, those behind it move up.
LEMMA EraseAt ==
  ASSUME NEW S, NEW l, Distinct(S, l), NEW i \in 1..Len(l)
  PROVE  /\ LruErase(l, l[i]) \in Seq(S)
         /\ Len(LruErase(l, l[i])) = Len(l) - 1
         /\ \A j \in 1..Len(l) - 1 :
              LruErase(l, l[i])[j] = IF j < i THEN l[j] ELSE l[j + 1]
<1> DEFINE r == LruErase(l, l[i])
<1>0. (CHOOSE j \in DOMAIN l : l[j] = l[i]) = i
  BY DEF Distinct, IsInjective
<1>1. r = SubSeq(l, 1, i - 1) \o SubSeq(l, i + 1, Len(l))
  BY <1>0 DEF LruErase, RemoveAt, Distinct
<1>2. /\ Len(l) \in Nat /\ i \in 1..Len(l) /\ l \in Seq(S)
      /\ \A j \in 1..Len(l) : l[j] \in S
  BY DEF Distinct
<1> DEFINE a == SubSeq(l, 1, i - 1)
           b == SubSeq(l, i + 1, Len(l))
<1>3. /\ a \in Seq(S) /\ Len(a) = i - 1
      /\ \A j \in 1..i - 1 : a[j] = l[j]
  <2>1. \A j \in 1..i - 1 : l[j] \in S
    BY <1>2
  <2>2. /\ a \in Seq(S) /\ Len(a) = (IF 1 <= i - 1 THEN (i - 1) - 1 + 1 ELSE 0)
        /\ \A j \in 1..(i - 1) - 1 + 1 : a[j] = l[1 + j - 1]
    BY <1>2, <2>1, SubSeqProperties
  <2> HIDE DEF a
  <2> QED BY <1>2, <2>2
<1>4. /\ b \in Seq(S) /\ Len(b) = Len(l) - i
      /\ \A j \in 1..Len(l) - i : b[j] = l[i + j]
  <2>1. \A j \in i + 1..Len(l) : l[j] \in S
    BY <1>2
  <2>2. /\ b \in Seq(S)
        /\ Len(b) = (IF i + 1 <= Len(l) THEN Len(l) - (i + 1) + 1 ELSE 0)
        /\ \A j \in 1..Len(l) - (i + 1) + 1 : b[j] = l[(i + 1) + j - 1]
    BY <1>2, <2>1, SubSeqProperties
  <2> HIDE DEF b
  <2>3. Len(b) = Len(l) - i
    BY <1>2, <2>2
  <2>4. ASSUME NEW j \in 1..Len(l) - i PROVE b[j] = l[i + j]
    <3>1. (i + 1) + j - 1 = i + j /\ j \in 1..Len(l) - (i + 1) + 1
      BY <1>2
    <3> QED BY <2>2, <3>1
  <2> QED BY <2>2, <2>3, <2>4
<1> HIDE DEF a, b
<1>5. /\ a \o b \in Seq(S) /\ Len(a \o b) = Len(a) + Len(b)
      /\ \A j \in 1..Len(a) + Len(b) :
           (a \o b)[j] = IF j <= Len(a) THEN a[j] ELSE b[j - Len(a)]
  BY <1>3, <1>4, ConcatProperties
<1>6. ASSUME NEW j \in 1..Len(l) - 1
      PROVE  (a \o b)[j] = IF j < i THEN l[j] ELSE l[j + 1]
  <2>1. (a \o b)[j] = IF j <= i - 1 THEN a[j] ELSE b[j - (i - 1)]
    BY <1>2, <1>3, <1>4, <1>5
  <2>2. CASE j < i
    BY <1>2, <1>3, <2>1, <2>2
  <2>3. CASE ~(j < i)
    <3>1. j - (i - 1) \in 1..Len(l) - i /\ i + (j - (i - 1)) = j + 1
      BY <1>2, <2>3
    <3>2. b[j - (i - 1)] = l[j + 1]
      BY <1>4, <3>1
    <3> QED BY <1>2, <2>1, <2>3, <3>2
  <2> QED BY <2>2, <2>3
<1>7. Len(a \o b) = Len(l) - 1
  BY <1>2, <1>3, <1>4, <1>5
<1>8. r = a \o b
  BY <1>1 DEF a, b
<1> QED BY <1>5, <1>6, <1>7, <1>8

\* erase() by the iterator of t takes out t and nothing else.
LEMMA EraseFacts ==
  ASSUME NEW S, NEW l, Distinct(S, l), NEW t \in ToSet(l)
  PROVE  /\ Distinct(S, LruErase(l, t))
         /\ ToSet(LruErase(l, t)) = ToSet(l) \ {t}
         /\ Len(LruErase(l, t)) = Len(l) - 1
<1> DEFINE i == CHOOSE j \in DOMAIN l : l[j] = t
           r == LruErase(l, t)
<1>1. i \in 1..Len(l) /\ l[i] = t
  BY DEF ToSet, Distinct
<1>2. /\ r \in Seq(S) /\ Len(r) = Len(l) - 1
      /\ \A j \in 1..Len(l) - 1 : r[j] = IF j < i THEN l[j] ELSE l[j + 1]
  <2> HIDE DEF i
  <2> QED BY <1>1, EraseAt
<1>3. IsInjective(r)
  <2> HIDE DEF i, r
  <2>1. /\ Len(l) \in Nat /\ \A j, k \in 1..Len(l) : l[j] = l[k] => j = k
    BY DEF IsInjective, Distinct
  <2>2. ASSUME NEW j \in 1..Len(l) - 1, NEW k \in 1..Len(l) - 1, r[j] = r[k]
        PROVE  j = k
    <3>1. (IF j < i THEN l[j] ELSE l[j + 1]) = (IF k < i THEN l[k] ELSE l[k + 1])
      BY <1>2, <2>2
    <3> QED BY <1>1, <2>1, <3>1
  <2> QED BY <1>2, <2>1, <2>2 DEF IsInjective
<1>4. ToSet(r) \subseteq ToSet(l) \ {t}
  <2> HIDE DEF i, r
  <2>1. SUFFICES ASSUME NEW j \in 1..Len(l) - 1 PROVE r[j] \in ToSet(l) /\ r[j] # t
    BY <1>2 DEF ToSet
  <2>2. PICK k \in 1..Len(l) : k # i /\ r[j] = l[k]
    <3>1. Len(l) \in Nat /\ i \in Nat
      BY <1>1 DEF Distinct
    <3>2. CASE j < i
      BY <1>2, <3>1, <3>2
    <3>3. CASE ~(j < i)
      <4>1. j + 1 \in 1..Len(l) /\ j + 1 # i /\ r[j] = l[j + 1]
        BY <1>2, <3>1, <3>3
      <4> QED BY <4>1
    <3> QED BY <3>2, <3>3
  <2>3. DOMAIN l = 1..Len(l) /\ l[k] # t
    BY <1>1, <2>2 DEF IsInjective, Distinct
  <2> QED BY <2>2, <2>3 DEF ToSet
<1>5. ToSet(l) \ {t} \subseteq ToSet(r)
  <2> HIDE DEF i, r
  <2>1. SUFFICES ASSUME NEW j \in 1..Len(l), j # i PROVE l[j] \in ToSet(r)
    BY <1>1 DEF ToSet, Distinct
  <2>2. CASE j < i
    BY <1>1, <1>2, <2>2 DEF ToSet, Distinct
  <2>3. CASE j > i
    <3>1. j - 1 \in 1..Len(r) /\ r[j - 1] = l[j]
      BY <1>1, <1>2, <2>3 DEF Distinct
    <3> QED BY <1>2, <3>1 DEF ToSet
  <2> QED BY <1>1, <2>1, <2>2, <2>3
<1> QED BY <1>2, <1>3, <1>4, <1>5 DEF Distinct

\* push_front of a value that is not in the list.
LEMMA PushFrontFacts ==
  ASSUME NEW S, NEW l, Distinct(S, l), NEW t \in S, t \notin ToSet(l)
  PROVE  /\ Distinct(S, <<t>> \o l)
         /\ ToSet(<<t>> \o l) = ToSet(l) \cup {t}
         /\ Len(<<t>> \o l) = Len(l) + 1
<1> DEFINE r == <<t>> \o l
<1>1. /\ r \in Seq(S) /\ Len(r) = Len(l) + 1 /\ r[1] = t
      /\ \A j \in 1..Len(l) : r[j + 1] = l[j]
      /\ \A j \in 2..Len(r) : r[j] = l[j - 1]
  BY DEF Distinct
<1> HIDE DEF r
<1>2. IsInjective(r)
  <2>1. \A j \in 2..Len(r) : r[j] # t
    BY <1>1 DEF ToSet, Distinct
  <2>2. /\ Len(l) \in Nat /\ \A j, k \in 1..Len(l) : l[j] = l[k] => j = k
    BY DEF IsInjective, Distinct
  <2>3. ASSUME NEW j \in 1..Len(r), NEW k \in 1..Len(r), r[j] = r[k]
        PROVE  j = k
    <3>1. CASE j = 1 \/ k = 1
      BY <1>1, <2>1, <2>2, <2>3, <3>1
    <3>2. CASE j # 1 /\ k # 1
      <4>1. l[j - 1] = l[k - 1] /\ j - 1 \in 1..Len(l) /\ k - 1 \in 1..Len(l)
        BY <1>1, <2>2, <2>3, <3>2
      <4> QED BY <2>2, <4>1
    <3> QED BY <3>1, <3>2
  <2> QED BY <1>1, <2>3 DEF IsInjective
<1>3. ToSet(r) = ToSet(l) \cup {t}
  <2>1. ToSet(r) \subseteq ToSet(l) \cup {t}
    <3>1. ASSUME NEW j \in 1..Len(r), j # 1 PROVE r[j] \in ToSet(l)
      <4>1. j - 1 \in 1..Len(l) /\ r[j] = l[j - 1] /\ DOMAIN l = 1..Len(l)
        BY <1>1, <3>1 DEF Distinct
      <4> QED BY <4>1 DEF ToSet
    <3> QED BY <1>1, <3>1 DEF ToSet
  <2>2. ASSUME NEW j \in 1..Len(l) PROVE l[j] \in ToSet(r)
    <3>1. j + 1 \in 1..Len(r) /\ r[j + 1] = l[j] /\ DOMAIN r = 1..Len(r)
      BY <1>1 DEF Distinct
    <3> QED BY <3>1 DEF ToSet
  <2>3. t \in ToSet(r)
    BY <1>1 DEF ToSet, Distinct
  <2>4. DOMAIN l = 1..Len(l)
    BY DEF Distinct
  <2>5. ToSet(l) \subseteq ToSet(r)
    BY <2>2, <2>4 DEF ToSet
  <2> QED BY <2>1, <2>3, <2>5, Zenon
<1> QED BY <1>1, <1>2, <1>3 DEF r, Distinct

\* pop_back: the list loses its last value.
LEMMA FrontFacts ==
  ASSUME NEW S, NEW l, Distinct(S, l), l # <<>>
  PROVE  /\ Distinct(S, Front(l))
         /\ Last(l) \in ToSet(l) /\ Last(l) \in S
         /\ ToSet(Front(l)) = ToSet(l) \ {Last(l)}
         /\ Len(Front(l)) = Len(l) - 1
<1> DEFINE r == Front(l)
<1> DEFINE n == Len(l)
<1>0. n \in Nat /\ n >= 1 /\ Last(l) = l[n] /\ l \in Seq(S)
  BY DEF Distinct, Last
<1>1. /\ r \in Seq(S) /\ Len(r) = Len(l) - 1
      /\ \A j \in 1..Len(r) : r[j] = l[j]
  <2>1. \A j \in 1..n - 1 : l[j] \in S
    BY <1>0
  <2>2. r = SubSeq(l, 1, n - 1)
    BY DEF Front
  <2> HIDE DEF n, r
  <2>3. /\ r \in Seq(S)
        /\ Len(r) = (IF 1 <= n - 1 THEN (n - 1) - 1 + 1 ELSE 0)
        /\ \A j \in 1..(n - 1) - 1 + 1 : r[j] = l[1 + j - 1]
    BY <1>0, <2>1, <2>2, SubSeqProperties
  <2>4. Len(r) = n - 1
    BY <1>0, <2>3
  <2>5. ASSUME NEW j \in 1..Len(r) PROVE r[j] = l[j]
    BY <1>0, <2>3, <2>4
  <2> QED BY <2>3, <2>4, <2>5 DEF n
<1> HIDE DEF r
<1>2. IsInjective(r)
  BY <1>0, <1>1 DEF IsInjective, Distinct
<1>3. Last(l) \in ToSet(l) /\ Last(l) \in S
  BY <1>0 DEF ToSet, Distinct
<1>4. ToSet(r) = ToSet(l) \ {Last(l)}
  <2>1. ToSet(r) \subseteq ToSet(l) \ {Last(l)}
    BY <1>0, <1>1 DEF ToSet, Distinct, IsInjective
  <2>2. ToSet(l) \ {Last(l)} \subseteq ToSet(r)
    BY <1>0, <1>1 DEF ToSet, Distinct
  <2> QED BY <2>1, <2>2
<1> QED BY <1>1, <1>2, <1>3, <1>4 DEF r, Distinct

\* pop_back is the erase of the last value.
LEMMA FrontIsErase ==
  ASSUME NEW S, NEW l, Distinct(S, l), l # <<>>
  PROVE  Front(l) = LruErase(l, Last(l))
<1>1. /\ Len(l) \in 1..Len(l) /\ Len(l) \in Nat /\ Last(l) = l[Len(l)]
      /\ l \in Seq(S) /\ \A j \in 1..Len(l) : l[j] \in S
  BY DEF Distinct, Last
<1>2. /\ LruErase(l, Last(l)) \in Seq(S) /\ Len(LruErase(l, Last(l))) = Len(l) - 1
      /\ \A j \in 1..Len(l) - 1 : LruErase(l, Last(l))[j] = l[j]
  BY <1>1, EraseAt
<1>3. /\ Front(l) \in Seq(S) /\ Len(Front(l)) = Len(l) - 1
      /\ \A j \in 1..Len(l) - 1 : Front(l)[j] = l[j]
  <2>1. \A j \in 1..Len(l) - 1 : l[j] \in S
    BY <1>1
  <2>2. Front(l) = SubSeq(l, 1, Len(l) - 1)
    BY DEF Front
  <2> DEFINE n == Len(l) - 1
  <2>3. n \in Nat
    BY <1>1
  <2> HIDE DEF n
  <2>4. /\ SubSeq(l, 1, n) \in Seq(S)
        /\ Len(SubSeq(l, 1, n)) = IF 1 <= n THEN n - 1 + 1 ELSE 0
        /\ \A j \in 1..n - 1 + 1 : SubSeq(l, 1, n)[j] = l[1 + j - 1]
    BY <2>1, <2>3, SubSeqProperties DEF n
  <2>5. Len(SubSeq(l, 1, n)) = n /\ \A j \in 1..n : SubSeq(l, 1, n)[j] = l[j]
    BY <2>3, <2>4
  <2> QED BY <2>2, <2>4, <2>5 DEF n
<1> QED BY <1>2, <1>3, SeqEqual

\* A list without repetitions over 0..n-1 that misses a value is not full.
LEMMA RoomForOneMore ==
  ASSUME NEW n \in Nat, NEW l, Distinct(0..n-1, l), NEW f \in 0..n-1, f \notin ToSet(l)
  PROVE  Len(l) < n
<1>1. IsFiniteSet(0..n-1) /\ Cardinality(0..n-1) = n
  BY FS_Interval
<1>2. IsFiniteSet(1..Len(l)) /\ Cardinality(1..Len(l)) = Len(l)
  <2>1. Len(l) \in Nat
    BY DEF Distinct
  <2>2. 1 \in Int /\ Len(l) \in Int
    BY <2>1
  <2>3. /\ IsFiniteSet(1..Len(l))
        /\ Cardinality(1..Len(l)) = IF 1 > Len(l) THEN 0 ELSE Len(l) - 1 + 1
    BY <2>2, FS_Interval
  <2> QED BY <2>1, <2>3
<1>3. l \in Injection(1..Len(l), (0..n-1) \ {f})
  BY DEF Injection, Distinct, IsInjective, ToSet
<1>4. IsFiniteSet((0..n-1) \ {f}) /\ Cardinality((0..n-1) \ {f}) = n - 1
  BY <1>1, FS_RemoveElement
<1>5. Cardinality(1..Len(l)) <= Cardinality((0..n-1) \ {f})
  BY <1>2, <1>3, <1>4, FS_Injection
<1> QED BY <1>2, <1>4, <1>5 DEF Distinct

\* remove(t), whether or not t is there.
LEMMA LruRemoveFacts ==
  ASSUME NEW S, NEW l, Distinct(S, l), NEW t
  PROVE  /\ Distinct(S, LruRemove(l, t))
         /\ ToSet(LruRemove(l, t)) = ToSet(l) \ {t}
<1>1. CASE t \in ToSet(l)
  BY <1>1, EraseFacts DEF LruRemove
<1>2. CASE t \notin ToSet(l)
  <2>1. LruRemove(l, t) = l
    BY <1>2 DEF LruRemove
  <2> QED BY <1>2, <2>1
<1> QED BY <1>1, <1>2

\* put(t) in a replacer as large as the set its values come from: nothing is
\* ever dropped.
LEMMA LruPutFacts ==
  ASSUME NEW n \in Nat, NEW l, Distinct(0..n-1, l), NEW t \in 0..n-1
  PROVE  /\ Distinct(0..n-1, LruPut(l, t, n))
         /\ ToSet(LruPut(l, t, n)) = ToSet(l) \cup {t}
<1>1. CASE t \in ToSet(l)
  <2> DEFINE m == LruErase(l, t)
  <2>1. /\ Distinct(0..n-1, m) /\ ToSet(m) = ToSet(l) \ {t}
    BY <1>1, EraseFacts
  <2>2. LruPut(l, t, n) = <<t>> \o m
    BY <1>1 DEF LruPut
  <2> HIDE DEF m
  <2>3. Distinct(0..n-1, <<t>> \o m) /\ ToSet(<<t>> \o m) = ToSet(m) \cup {t}
    BY <2>1, PushFrontFacts
  <2> QED BY <1>1, <2>1, <2>2, <2>3
<1>2. CASE t \notin ToSet(l)
  <2>1. Len(l) # n
    BY <1>2, RoomForOneMore DEF Distinct
  <2>2. LruPut(l, t, n) = <<t>> \o l
    BY <1>2, <2>1 DEF LruPut
  <2> QED BY <1>2, <2>2, PushFrontFacts
<1> QED BY <1>1, <1>2

-----------------------------------------------------------------------------
(* enough() computes with size_t, which wraps.  For rows of at most four     *)
(* words it is right on every page all the same: on a page with records the  *)
(* index alone, three words and an entry for each, ends below them, so there *)
(* are always more than four words below the last record.                    *)

Slots(Rec) == Seq([rec : Rec, start : Nat, deleted : BOOLEAN])

LEMMA ModSmall ==
  ASSUME NEW m \in Nat, NEW a \in 0..m-1
  PROVE  a % m = a
  BY Z3

\* Below the records of a page is room for a row of four words and its mark.
LEMMA RoomForFourWords ==
  ASSUME NEW Rec, NEW slots \in Slots(Rec), LayoutOK(slots)
  PROVE  FreeEnd(slots) \in Nat /\ 4 * Word < FreeEnd(slots) /\ FreeEnd(slots) <= PageSize
<1>1. PageSize \in Nat /\ Word \in Nat \ {0} /\ 4 * Word < PageSize
  BY RecordAssumption
<1>2. CASE slots = <<>>
  BY <1>1, <1>2 DEF FreeEnd
<1>3. CASE slots # <<>>
  <2> DEFINE n == Len(slots)
  <2>1. n \in Nat /\ n > 0 /\ n \in 1..n
    BY <1>3 DEF Slots
  <2>2. FreeEnd(slots) = slots[n].start
    BY <1>3 DEF FreeEnd, Last
  <2>3. slots[n].start \in 0..PageSize-1 /\ Word * (3 + n) < FreeEnd(slots)
    BY <1>3, <2>1 DEF LayoutOK, IndexEnd
  <2>4. 4 * Word <= Word * (3 + n)
    BY <1>1, <2>1, Z3
  <2>5. Word * (3 + n) \in Nat
    BY <1>1, <2>1
  <2> QED BY <1>1, <2>2, <2>3, <2>4, <2>5
<1> QED BY <1>2, <1>3

\* A record that enough() accepts gets bytes of its own, between the index with
\* its new entry and the records (insert, record.hpp:335), if the subtraction at
\* record.hpp:105 does not wrap: it is shorter than what lies below the records.
THEOREM EnoughIsRight ==
  ASSUME NEW Rec, NEW slots \in Slots(Rec), LayoutOK(slots), NEW rec \in Rec,
         NEW n \in Nat, n + 1 <= FreeEnd(slots), Enough(slots, n)
  PROVE  /\ IndexEnd(Len(slots) + 1) + n + 1 < FreeEnd(slots)
         /\ AddRecord(slots, rec, n) \in Slots(Rec)
         /\ LayoutOK(AddRecord(slots, rec, n))
<1> DEFINE end == FreeEnd(slots)
           start == RecordStart(slots, n)
           len == Len(slots)
           new == [rec |-> rec, start |-> start, deleted |-> FALSE]
           r == AddRecord(slots, rec, n)
<1>1. /\ PageSize \in Nat /\ SizeModulus \in Nat /\ PageSize < SizeModulus
      /\ Word \in Nat /\ len \in Nat
  BY RecordAssumption DEF Slots
<1>2. n \in Nat /\ n + 1 <= end
  OBVIOUS
<1>3. end \in Nat /\ end <= PageSize
  BY RoomForFourWords
<1>4. start = end - n - 1
  <2>1. end - n - 1 \in 0..SizeModulus-1
    BY <1>1, <1>2, <1>3
  <2> QED BY <1>1, <2>1, ModSmall DEF RecordStart
<1> HIDE DEF end, start
<1>5. start \in 0..PageSize-1 /\ start < end
  BY <1>1, <1>2, <1>3, <1>4
<1>6. /\ IndexEnd(len + 1) < start /\ IndexEnd(len + 1) \in Nat
  <2>1. Word * (3 + len) + Word = Word * (3 + (len + 1)) /\ Word * (3 + (len + 1)) \in Nat
    BY <1>1, Z3
  <2> QED BY <2>1 DEF Enough, IndexEnd, start
<1>7. IndexEnd(len + 1) + n + 1 < end
  BY <1>2, <1>3, <1>4, <1>6
<1>8. /\ r = Append(slots, new) /\ new \in [rec : Rec, start : Nat, deleted : BOOLEAN]
      /\ new.start = start
  BY <1>5 DEF AddRecord, start
<1> HIDE DEF new, r
<1>9. /\ r \in Slots(Rec) /\ Len(r) = len + 1 /\ r[len + 1] = new /\ r # <<>>
      /\ \A i \in 1..len : r[i] = slots[i]
  BY <1>1, <1>8 DEF Slots
<1>10. FreeEnd(r) = start
  BY <1>8, <1>9 DEF FreeEnd, Last
<1>11. SlotEnd(r, len + 1) = end
  <2>1. CASE len = 0
    BY <1>1, <2>1 DEF SlotEnd, FreeEnd, end, Slots
  <2>2. CASE len # 0
    <3>1. slots # <<>> /\ len + 1 # 1 /\ (len + 1) - 1 = len /\ len \in 1..len
      BY <1>1, <2>2
    <3>2. end = slots[len].start
      BY <3>1 DEF FreeEnd, Last, end
    <3> QED BY <1>9, <3>1, <3>2 DEF SlotEnd
  <2> QED BY <2>1, <2>2
<1>12. ASSUME NEW i \in 1..len+1
       PROVE  r[i].start \in 0..PageSize-1 /\ r[i].start < SlotEnd(r, i)
  <2>1. CASE i = len + 1
    BY <1>5, <1>8, <1>9, <1>11, <2>1
  <2>2. CASE i # len + 1
    <3>1. i \in 1..len /\ (i # 1 => i - 1 \in 1..len)
      BY <1>1, <2>2
    <3>2. SlotEnd(r, i) = SlotEnd(slots, i)
      BY <1>9, <3>1 DEF SlotEnd
    <3> QED BY <1>9, <3>1, <3>2 DEF LayoutOK
  <2> QED BY <2>1, <2>2
<1>13. LayoutOK(r)
  BY <1>1, <1>6, <1>9, <1>10, <1>12 DEF LayoutOK
<1> QED BY <1>7, <1>9, <1>13 DEF r, end
=============================================================================
