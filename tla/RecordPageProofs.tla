-------------------------- MODULE RecordPageProofs --------------------------
(***************************************************************************)
(* Theorems of RecordPage for every size of pages, words and bytes: the    *)
(* head and the index read back as they were written, the index stays      *)
(* clear of the records, and every record reads as it was inserted.        *)
(* First that a word is the bytes it is written as, then that a word is    *)
(* left alone by a write elsewhere, then one lemma for each operation.     *)
(***************************************************************************)
EXTENDS RecordPage, OpsProofs

-----------------------------------------------------------------------------
\* Recursive definitions obey their equations.

IsWeight(f) == f = [i \in 0..Word |-> IF i = 0 THEN 1 ELSE f[i-1] * Base]

LEMMA SizesAre ==
  /\ Base \in Nat \ {0, 1} /\ Word \in Nat \ {0}
  /\ PageSize \in Nat /\ 4 * Word < PageSize /\ PageSize < SizeModulus /\ SizeModulus \in Nat
  BY BytesAssumption, RecordAssumption

LEMMA WeightIs ==
  /\ \A i \in 0..Word : Weight[i] \in Nat \ {0}
  /\ Weight[0] = 1
  /\ \A i \in 1..Word : Weight[i] = Weight[i-1] * Base
<1> DEFINE P == Nat \ {0}
           step == [i \in 1..Word |-> [x \in P |-> x * Base]]
<1>1. Word \in Nat /\ Base \in P /\ 1 \in P
  BY SizesAre
<1>2. \A x \in P : x * Base \in P
  BY <1>1
<1> HIDE DEF P
<1>3. step \in [1..Word -> [P -> P]]
  BY <1>2
<1> HIDE DEF step
<1>4. PICK f \in [0..Word -> P] : Follows(f, Word, 1, step)
  BY <1>1, <1>3, FiniteRecursion
<1>5. \A i \in 1..Word : f[i] = f[i-1] * Base
  <2> SUFFICES ASSUME NEW i \in 1..Word PROVE f[i] = f[i-1] * Base
    OBVIOUS
  <2>1. f[i-1] \in P
    BY <1>1
  <2>2. f[i] = step[i][f[i-1]]
    BY <1>4 DEF Follows
  <2> QED BY <2>1, <2>2 DEF step
<1>6. IsWeight(f)
  <2>1. \A i \in 0..Word : f[i] = IF i = 0 THEN 1 ELSE f[i-1] * Base
    BY <1>1, <1>4, <1>5 DEF Follows
  <2> QED BY <2>1 DEF IsWeight
<1>7. Weight = CHOOSE g : IsWeight(g)
  BY DEF Weight, IsWeight
<1>8. IsWeight(Weight)
  BY <1>6, <1>7
<1>9. \A i \in 0..Word : Weight[i] = IF i = 0 THEN 1 ELSE Weight[i-1] * Base
  BY <1>8 DEF IsWeight
<1>10. ASSUME NEW i \in 0..Word, Weight[i] \notin P PROVE FALSE
  <2> DEFINE T == {k \in 0..Word : Weight[k] \notin P}
  <2>1. T \subseteq Nat /\ T # {}
    BY <1>10
  <2>2. PICK k \in T : \A j \in T : k <= j
    BY <2>1, LeastNatural
  <2>3. k \in 0..Word /\ Weight[k] \notin P
    BY <2>2
  <2>4. k # 0
    BY <1>1, <1>9, <2>3
  <2>5. k - 1 \in 0..Word /\ ~(k <= k - 1)
    BY <1>1, <2>3, <2>4
  <2>6. Weight[k-1] \in P
    BY <2>2, <2>5
  <2>7. Weight[k] = Weight[k-1] * Base
    BY <1>9, <2>3, <2>4
  <2> QED BY <1>2, <2>3, <2>6, <2>7
<1>11. Weight[0] = 1
  BY <1>1, <1>9
<1>12. ASSUME NEW i \in 1..Word PROVE Weight[i] = Weight[i-1] * Base
  <2>1. i \in 0..Word /\ i # 0
    BY <1>1
  <2> QED BY <1>9, <2>1
<1> QED BY <1>10, <1>11, <1>12 DEF P

\* g sums up the bytes of the word at offset o.
IsSum(g, m, o) ==
  g = [i \in 0..Word |-> IF i = 0 THEN 0 ELSE g[i-1] + m[o+i-1] * Weight[i-1]]

\* The bytes of the word at offset o.
BytesAt(m, o) == \A i \in 0..Word-1 : m[o+i] \in 0..Base-1

LEMMA GetWordIs ==
  ASSUME NEW m, NEW o \in Nat, BytesAt(m, o)
  PROVE  \E g \in [0..Word -> Nat] :
            /\ GetWord(m, o) = g[Word] /\ g[0] = 0
            /\ \A i \in 1..Word : g[i] = g[i-1] + m[o+i-1] * Weight[i-1]
<1> DEFINE term(i) == m[o+i-1] * Weight[i-1]
           step == [i \in 1..Word |-> [x \in Nat |-> x + term(i)]]
<1>1. Word \in Nat
  BY SizesAre
<1>2. ASSUME NEW i \in 1..Word PROVE term(i) \in Nat
  <2>1. i - 1 \in 0..Word-1 /\ i - 1 \in 0..Word /\ o + (i - 1) = o+i-1
    BY <1>1
  <2>2. m[o+i-1] \in Nat
    <3>1. m[o + (i - 1)] \in 0..Base-1
      BY ONLY <2>1, BytesAt(m, o) DEF BytesAt
    <3> QED BY <2>1, <3>1, SizesAre
  <2>3. Weight[i-1] \in Nat
    BY <2>1, WeightIs
  <2> QED BY <2>2, <2>3
<1> HIDE DEF term
<1>3. step \in [1..Word -> [Nat -> Nat]]
  BY <1>2
<1>4. PICK f \in [0..Word -> Nat] : Follows(f, Word, 0, step)
  <2> HIDE DEF step
  <2> QED BY <1>1, <1>3, FiniteRecursion
<1>5. \A i \in 1..Word : f[i] = f[i-1] + term(i)
  <2> SUFFICES ASSUME NEW i \in 1..Word PROVE f[i] = f[i-1] + term(i)
    OBVIOUS
  <2>1. f[i-1] \in Nat
    BY <1>1
  <2>2. f[i] = step[i][f[i-1]]
    BY <1>4 DEF Follows
  <2> QED BY <2>1, <2>2
<1>6. IsSum(f, m, o)
  <2>1. \A i \in 0..Word : f[i] = IF i = 0 THEN 0 ELSE f[i-1] + m[o+i-1] * Weight[i-1]
    BY <1>1, <1>4, <1>5 DEF Follows, term
  <2> QED BY <2>1 DEF IsSum
<1> DEFINE sum == CHOOSE sum : sum = [i \in 0..Word |->
                    IF i = 0 THEN 0 ELSE sum[i-1] + m[o+i-1] * Weight[i-1]]
<1>7. GetWord(m, o) = sum[Word]
  BY DEF GetWord
<1>8. sum = CHOOSE g : IsSum(g, m, o)
  BY DEF IsSum
<1> HIDE DEF sum
<1>9. IsSum(sum, m, o)
  BY <1>6, <1>8
<1>10. \A i \in 0..Word : sum[i] = IF i = 0 THEN 0 ELSE sum[i-1] + term(i)
  BY <1>9 DEF IsSum, term
<1>11. sum \in [0..Word -> Nat]
  <2>1. ASSUME NEW i \in 0..Word, sum[i] # f[i] PROVE FALSE
    <3> DEFINE T == {k \in 0..Word : sum[k] # f[k]}
    <3>1. T \subseteq Nat /\ T # {}
      BY <2>1
    <3>2. PICK k \in T : \A j \in T : k <= j
      BY <3>1, LeastNatural
    <3>3. k \in 0..Word /\ sum[k] # f[k]
      BY <3>2
    <3>4. k # 0
      BY <1>1, <1>4, <1>10, <3>3 DEF Follows
    <3>5. k \in 1..Word /\ k - 1 \in 0..Word /\ ~(k <= k - 1)
      BY <1>1, <3>3, <3>4
    <3>6. sum[k-1] = f[k-1]
      BY <3>2, <3>5
    <3>7. sum[k] = sum[k-1] + term(k) /\ f[k] = f[k-1] + term(k)
      BY <1>5, <1>10, <3>3, <3>4, <3>5
    <3> QED BY <3>3, <3>6, <3>7
  <2>2. \A i \in 0..Word : sum[i] \in Nat
    BY <1>4, <2>1
  <2>3. sum = [i \in 0..Word |-> sum[i]]
    BY <1>9 DEF IsSum
  <2> QED BY <2>2, <2>3
<1>12. \A i \in 1..Word : sum[i] = sum[i-1] + m[o+i-1] * Weight[i-1]
  BY <1>1, <1>10 DEF term
<1>13. sum[0] = 0
  BY <1>1, <1>10
<1> HIDE DEF step
<1> QED BY ONLY <1>7, <1>11, <1>12, <1>13

-----------------------------------------------------------------------------
\* Words and their bytes.

LEMMA ProductAtLeast ==
  ASSUME NEW a \in Nat, NEW w \in Nat \ {0}
  PROVE  a <= a * w
  BY SMT

LEMMA SmallQuotient ==
  ASSUME NEW v \in Nat, NEW n \in Nat, v < n
  PROVE  v \div n = 0
  BY SMT

LEMMA DivTwice ==
  ASSUME NEW v \in Nat, NEW w \in Nat \ {0}, NEW b \in Nat \ {0}
  PROVE  (v \div w) \div b = v \div (w * b)
  BY SMT

\* g is what v has below weight w.
Splits(v, g, w) == v = g + (v \div w) * w

LEMMA DigitStep ==
  ASSUME NEW v \in Nat, NEW w \in Nat \ {0}, NEW b \in Nat \ {0}, NEW g \in Nat,
         Splits(v, g, w)
  PROVE  Splits(v, g + ((v \div w) % b) * w, w * b)
<1> DEFINE u == v \div w
           q == u \div b
           r == u % b
<1>1. u \in Nat
  BY SMT
<1>2. q = v \div (w * b)
  BY DivTwice
<1> HIDE DEF u
<1>3. u = q * b + r /\ q \in Nat /\ r \in Nat
  BY <1>1, SMT
<1> HIDE DEF q, r
<1>4. u * w = q * (w * b) + r * w
  <2>1. u * w = (q * b) * w + r * w
    BY <1>1, <1>3, SMT
  <2>2. (q * b) * w = q * (w * b)
    BY <1>3, SMT
  <2> QED BY <2>1, <2>2
<1>5. v = g + u * w
  BY DEF u, Splits
<1>6. u * w \in Nat /\ r * w \in Nat /\ q * (w * b) \in Nat
  BY <1>1, <1>3, SMT
<1>7. v = (g + r * w) + q * (w * b)
  BY ONLY <1>4, <1>5, <1>6, v \in Nat, g \in Nat
<1> QED BY <1>2, <1>7 DEF r, u, Splits

LEMMA ByteIs ==
  ASSUME NEW v \in Nat, NEW i \in 0..Word
  PROVE  /\ Byte(v, i) = (v \div Weight[i]) % Base /\ Byte(v, i) \in 0..Base-1
         /\ v = 0 => Byte(v, i) = 0
<1>1. Weight[i] \in Nat \ {0} /\ Base \in Nat \ {0}
  BY WeightIs, SizesAre
<1> DEFINE w == Weight[i]
<1> HIDE DEF w
<1>2. (v \div w) % Base \in 0..Base-1 /\ (v = 0 => (v \div w) % Base = 0)
  BY <1>1, SMT DEF w
<1> QED BY <1>2 DEF Byte, w

\* A word whose bytes are those of v is v.
LEMMA WordOfBytes ==
  ASSUME NEW m, NEW o \in Nat, NEW v \in 0..SizeModulus-1,
         \A i \in 0..Word-1 : m[o+i] = Byte(v, i)
  PROVE  BytesAt(m, o) /\ GetWord(m, o) = v
<1>1. Word \in Nat /\ Base \in Nat \ {0} /\ v \in Nat /\ v < SizeModulus /\ SizeModulus \in Nat
  BY SizesAre
<1>2. BytesAt(m, o)
  <2>1. ASSUME NEW i \in 0..Word-1 PROVE m[o+i] \in 0..Base-1
    <3>1. i \in 0..Word /\ m[o+i] = Byte(v, i)
      BY <1>1
    <3> QED BY ONLY <1>1, <3>1, ByteIs
  <2> QED BY <2>1 DEF BytesAt
<1>3. PICK g \in [0..Word -> Nat] :
        /\ GetWord(m, o) = g[Word] /\ g[0] = 0
        /\ \A i \in 1..Word : g[i] = g[i-1] + m[o+i-1] * Weight[i-1]
  BY <1>2, GetWordIs
<1> DEFINE Split(i) == Splits(v, g[i], Weight[i])
<1>4. ASSUME NEW i \in 1..Word, Split(i-1) PROVE Split(i)
  <2> DEFINE w == Weight[i-1]
             h == g[i-1]
  <2>1. i \in 0..Word /\ i - 1 \in 0..Word /\ i - 1 \in 0..Word-1 /\ o + (i - 1) = o+i-1
    BY <1>1
  <2>2. w \in Nat \ {0} /\ h \in Nat /\ Weight[i] = w * Base
    BY <2>1, WeightIs
  <2>3. m[o+i-1] = (v \div w) % Base
    <3>1. m[o + (i - 1)] = Byte(v, i - 1)
      BY <2>1
    <3> QED BY <1>1, <2>1, <3>1, ByteIs
  <2>4. g[i] = h + ((v \div w) % Base) * w
    BY <1>3, <2>3
  <2>5. Splits(v, h, w)
    BY <1>4
  <2> HIDE DEF w, h
  <2>6. Splits(v, h + ((v \div w) % Base) * w, w * Base)
    <3>1. Base \in Nat \ {0} /\ v \in Nat /\ w \in Nat \ {0} /\ h \in Nat
      BY <1>1, <2>2
    <3> QED BY ONLY <2>5, <3>1, DigitStep
  <2> QED BY <2>2, <2>4, <2>6
<1>5. Split(0)
  <2>1. Weight[0] = 1 /\ v \div 1 = v
    BY <1>1, WeightIs, SMT
  <2> QED BY <1>1, <1>3, <2>1 DEF Splits
<1> HIDE DEF Split
<1>6. ASSUME NEW i \in 0..Word, ~Split(i) PROVE FALSE
  <2> DEFINE T == {k \in 0..Word : ~Split(k)}
  <2>1. T \subseteq Nat /\ T # {}
    BY <1>6
  <2>2. PICK k \in T : \A j \in T : k <= j
    <3> HIDE DEF T
    <3> QED BY <2>1, LeastNatural
  <2>3. k \in 0..Word /\ ~Split(k)
    BY <2>2
  <2>4. k # 0
    BY <1>5, <2>3
  <2>5. k \in 1..Word /\ k - 1 \in 0..Word /\ ~(k <= k - 1)
    BY <1>1, <2>3, <2>4
  <2>6. Split(k-1)
    BY <2>2, <2>5
  <2> QED BY <1>4, <2>3, <2>5, <2>6
<1>7. Split(Word) /\ Word \in 0..Word
  BY <1>1, <1>6
<1>8. v \div Weight[Word] = 0 /\ Weight[Word] \in Nat
  <2>1. Weight[Word] = SizeModulus
    BY BytesAssumption
  <2>2. v \div SizeModulus = 0
    BY <1>1, SmallQuotient
  <2> QED BY <1>1, <2>1, <2>2
<1>9. v = g[Word]
  BY <1>7, <1>8 DEF Split, Splits
<1> QED BY <1>2, <1>3, <1>9

LEMMA SameWord ==
  ASSUME NEW m, NEW n, NEW o \in Nat, BytesAt(m, o),
         \A i \in 0..Word-1 : n[o+i] = m[o+i]
  PROVE  BytesAt(n, o) /\ GetWord(n, o) = GetWord(m, o)
<1>1. Word \in Nat
  BY SizesAre
<1>2. BytesAt(n, o)
  BY DEF BytesAt
<1>3. PICK g \in [0..Word -> Nat] :
        /\ GetWord(m, o) = g[Word] /\ g[0] = 0
        /\ \A i \in 1..Word : g[i] = g[i-1] + m[o+i-1] * Weight[i-1]
  BY GetWordIs
<1>4. PICK h \in [0..Word -> Nat] :
        /\ GetWord(n, o) = h[Word] /\ h[0] = 0
        /\ \A i \in 1..Word : h[i] = h[i-1] + n[o+i-1] * Weight[i-1]
  BY <1>2, GetWordIs
<1>5. ASSUME NEW i \in 0..Word, h[i] # g[i] PROVE FALSE
  <2> DEFINE T == {k \in 0..Word : h[k] # g[k]}
  <2>1. T \subseteq Nat /\ T # {}
    BY <1>5
  <2>2. PICK k \in T : \A j \in T : k <= j
    <3> HIDE DEF T
    <3> QED BY <2>1, LeastNatural
  <2>3. k \in 0..Word /\ h[k] # g[k]
    BY <2>2
  <2>4. k # 0
    BY <1>3, <1>4, <2>3
  <2>5. k \in 1..Word /\ k - 1 \in 0..Word /\ ~(k <= k - 1) /\ k - 1 \in 0..Word-1
        /\ o + (k - 1) = o+k-1
    BY <1>1, <2>3, <2>4
  <2>6. h[k-1] = g[k-1]
    BY <2>2, <2>5
  <2>7. n[o+k-1] = m[o+k-1]
    <3>1. n[o + (k - 1)] = m[o + (k - 1)]
      BY <2>5
    <3> QED BY <2>5, <3>1
  <2>8. h[k] = h[k-1] + n[o+k-1] * Weight[k-1] /\ g[k] = g[k-1] + m[o+k-1] * Weight[k-1]
    BY <1>3, <1>4, <2>5
  <2> QED BY <2>3, <2>6, <2>7, <2>8
<1>6. h[Word] = g[Word]
  BY <1>1, <1>5
<1> QED BY <1>2, <1>3, <1>4, <1>6

-----------------------------------------------------------------------------
\* The page as an array of words and as bytes.

Cells == 0..Base-1
Mem == [Offsets -> Cells]
Numbers == 0..SizeModulus-1

\* Word a of the page, and whether the page is long enough to have it.
WordAt(m, a) == GetWord(m, a * Word)
HasWord(a) == a \in Nat /\ (a + 1) * Word <= PageSize

\* r is m but for word a, which is v.
WordWritten(r, m, a, v) ==
  /\ r \in Mem /\ WordAt(r, a) = v
  /\ \A c \in Nat : HasWord(c) /\ c # a => WordAt(r, c) = WordAt(m, c)
  /\ \A j \in Offsets : (a + 1) * Word <= j => r[j] = m[j]

\* r is m but for the bytes b at o.
BytesWritten(r, m, o, b) ==
  /\ r \in Mem
  /\ \A i \in 1..Len(b) : r[o+i-1] = b[i]
  /\ \A j \in Offsets : j < o \/ o + Len(b) <= j => r[j] = m[j]
  /\ \A c \in Nat : (c + 1) * Word <= o => WordAt(r, c) = WordAt(m, c)

\* The bytes m hold the slots s: the head, the index and the records.
HeadHolds(m, s) ==
  /\ WordAt(m, 0) = Len(s) /\ WordAt(m, 2) = Len(s)
  /\ WordAt(m, 1) = FreeEnd(s) \/ (WordAt(m, 1) = 0 /\ s = <<>>)
IndexHolds(m, s) == \A k \in 1..Len(s) : WordAt(m, 2+k) = s[k].start
Packed(s) == \A k \in 1..Len(s) : s[k].start + 1 + Len(s[k].rec) = SlotEnd(s, k)
SlotHolds(m, slot) ==
  /\ m[slot.start] = (IF slot.deleted THEN 1 ELSE 0)
  /\ \A j \in 1..Len(slot.rec) : m[slot.start+j] = slot.rec[j]
RecordsHold(m, s) == \A k \in 1..Len(s) : SlotHolds(m, s[k])

WellPlaced(s) == s \in Slots(Seq(Cells)) /\ LayoutOK(s) /\ Packed(s)
Holds(m, s) ==
  m \in Mem /\ WellPlaced(s) /\ HeadHolds(m, s) /\ IndexHolds(m, s) /\ RecordsHold(m, s)

\* A scanner's index is that of the page, or was when there were fewer slots.
ViewHolds(v, s) ==
  \/ v = NoView
  \/ v \in Seq(Nat) /\ Len(v) <= Len(s) /\ \A k \in 1..Len(v) : v[k] = s[k].start

\* The inductive invariant.
PageInv == Holds(mem, recs) /\ ViewHolds(view, recs)

LEMMA WordPlaces ==
  ASSUME NEW a \in Nat, HasWord(a)
  PROVE  /\ a * Word \in Nat /\ (a + 1) * Word = a * Word + Word
         /\ a * Word + Word <= PageSize
         /\ \A i \in 0..Word-1 : a * Word + i \in Offsets
<1>1. Word \in Nat \ {0} /\ PageSize \in Nat
  BY SizesAre
<1>2. a * Word \in Nat /\ (a + 1) * Word = a * Word + Word
  BY <1>1, SMT
<1>3. a * Word + Word <= PageSize
  BY <1>2 DEF HasWord
<1> DEFINE o == a * Word
<1> HIDE DEF o
<1>4. \A i \in 0..Word-1 : o + i \in Offsets
  BY <1>1, <1>2, <1>3 DEF o, Offsets
<1> QED BY <1>2, <1>3, <1>4 DEF o

\* Of two different words one ends before the other starts.
LEMMA WordsApart ==
  ASSUME NEW a \in Nat, NEW c \in Nat, a < c
  PROVE  a * Word + Word <= c * Word
<1>1. Word \in Nat \ {0}
  BY SizesAre
<1>2. (c - a - 1) * Word \in Nat /\ c * Word = a * Word + Word + (c - a - 1) * Word
  BY <1>1, SMT
<1>3. a * Word \in Nat
  BY <1>1, SMT
<1> QED BY ONLY <1>1, <1>2, <1>3

LEMMA WordBytes ==
  ASSUME NEW m \in Mem, NEW a \in Nat, HasWord(a)
  PROVE  BytesAt(m, a * Word)
  BY WordPlaces DEF BytesAt, Mem, Cells

\* A word reads the same in pages that agree on its bytes.
LEMMA SameWordAt ==
  ASSUME NEW m \in Mem, NEW r, NEW a \in Nat, HasWord(a),
         \A j \in Offsets : a * Word <= j /\ j < a * Word + Word => r[j] = m[j]
  PROVE  WordAt(r, a) = WordAt(m, a)
<1> DEFINE o == a * Word
<1>1. o \in Nat /\ Word \in Nat /\ \A i \in 0..Word-1 : o + i \in Offsets
  BY WordPlaces, SizesAre
<1>2. BytesAt(m, o)
  BY WordBytes
<1>3. \A j \in Offsets : o <= j /\ j < o + Word => r[j] = m[j]
  OBVIOUS
<1> HIDE DEF o
<1>4. \A i \in 0..Word-1 : r[o+i] = m[o+i]
  BY <1>1, <1>3
<1>5. GetWord(r, o) = GetWord(m, o)
  BY ONLY <1>1, <1>2, <1>4, SameWord
<1> QED BY <1>5 DEF WordAt, o

LEMMA PutWordIs ==
  ASSUME NEW m \in Mem, NEW a \in Nat, HasWord(a), NEW v \in Numbers
  PROVE  WordWritten(PutWord(m, a * Word, v), m, a, v)
<1> DEFINE o == a * Word
           r == PutWord(m, o, v)
<1>1. o \in Nat /\ Word \in Nat \ {0} /\ (a + 1) * Word = o + Word
      /\ \A i \in 0..Word-1 : o + i \in Offsets
  BY WordPlaces, SizesAre
<1>2. v \in Nat /\ v \in 0..SizeModulus-1
  BY SizesAre DEF Numbers
<1> HIDE DEF o
<1>3. \A j \in Offsets : r[j] = IF j \in o..o+Word-1 THEN Byte(v, j - o) ELSE m[j]
  BY DEF PutWord
<1>4. \A i \in 0..Word-1 : r[o+i] = Byte(v, i)
  <2> SUFFICES ASSUME NEW i \in 0..Word-1 PROVE r[o+i] = Byte(v, i)
    OBVIOUS
  <2>1. o + i \in Offsets
    BY <1>1
  <2>2. o + i \in o..o+Word-1 /\ (o + i) - o = i
    BY ONLY <1>1, i \in 0..Word-1
  <2> QED BY <1>3, <2>1, <2>2
<1>5. \A j \in Offsets : j < o \/ o + Word <= j => r[j] = m[j]
  <2> SUFFICES ASSUME NEW j \in Offsets, j < o \/ o + Word <= j PROVE r[j] = m[j]
    OBVIOUS
  <2>1. j \notin o..o+Word-1
    BY <1>1, SizesAre DEF Offsets
  <2> QED BY <1>3, <2>1
<1>6. r \in Mem
  <2>1. ASSUME NEW j \in Offsets PROVE r[j] \in Cells
    <3>1. CASE j \in o..o+Word-1
      <4>1. r[j] = Byte(v, j - o) /\ j - o \in 0..Word
        BY <1>1, <1>3, <3>1
      <4> QED BY ONLY <1>2, <4>1, ByteIs DEF Cells
    <3>2. CASE j \notin o..o+Word-1
      BY <1>3, <3>2 DEF Mem
    <3> QED BY <3>1, <3>2
  <2>2. r = [j \in Offsets |-> r[j]]
    BY DEF PutWord
  <2> HIDE DEF r
  <2> QED BY <2>1, <2>2 DEF Mem
<1> HIDE DEF r
<1>7. GetWord(r, o) = v
  BY ONLY <1>1, <1>2, <1>4, WordOfBytes
<1>8. ASSUME NEW c \in Nat, HasWord(c), c # a PROVE WordAt(r, c) = WordAt(m, c)
  <2>1. c * Word \in Nat /\ (c * Word + Word <= o \/ o + Word <= c * Word)
    BY <1>8, WordsApart, WordPlaces DEF o
  <2>2. \A j \in Offsets : c * Word <= j /\ j < c * Word + Word => r[j] = m[j]
    <3> DEFINE e == c * Word
    <3>1. e \in Nat /\ (e + Word <= o \/ o + Word <= e)
      BY <2>1
    <3> HIDE DEF e
    <3>2. \A j \in Offsets : e <= j /\ j < e + Word => j < o \/ o + Word <= j
      BY <1>1, <3>1, SizesAre DEF Offsets
    <3> QED BY <1>5, <3>2 DEF e
  <2> QED BY <1>8, <2>2, SameWordAt
<1>9. WordAt(r, a) = v
  BY <1>7 DEF WordAt, o
<1>10. \A j \in Offsets : (a + 1) * Word <= j => r[j] = m[j]
  BY <1>1, <1>5
<1> QED BY ONLY <1>6, <1>8, <1>9, <1>10 DEF WordWritten, r, o

LEMMA PutBytesIs ==
  ASSUME NEW m \in Mem, NEW o \in Nat, NEW b \in Seq(Cells), o + Len(b) <= PageSize
  PROVE  BytesWritten(PutBytes(m, o, b), m, o, b)
<1> DEFINE n == Len(b)
           r == PutBytes(m, o, b)
<1>1. n \in Nat /\ \A i \in 1..n : b[i] \in Cells
  OBVIOUS
<1>2. PageSize \in Nat /\ Word \in Nat \ {0} /\ o + n <= PageSize
  BY SizesAre
<1>3. \A j \in Offsets : r[j] = IF j \in o..o+n-1 THEN b[j-o+1] ELSE m[j]
  BY DEF PutBytes
<1>4. r = [j \in Offsets |-> r[j]]
  BY DEF PutBytes
<1> HIDE DEF r, n
<1>5. \A i \in 1..n : r[o+i-1] = b[i]
  <2> SUFFICES ASSUME NEW i \in 1..n PROVE r[o+i-1] = b[i]
    OBVIOUS
  <2>1. o+i-1 \in o..o+n-1 /\ (o+i-1) - o + 1 = i /\ o+i-1 \in Offsets
    BY <1>1, <1>2 DEF Offsets
  <2> QED BY <1>3, <2>1
<1>6. \A j \in Offsets : j < o \/ o + n <= j => r[j] = m[j]
  <2> SUFFICES ASSUME NEW j \in Offsets, j < o \/ o + n <= j PROVE r[j] = m[j]
    OBVIOUS
  <2>1. j \notin o..o+n-1
    BY <1>1, <1>2 DEF Offsets
  <2> QED BY <1>3, <2>1
<1>7. r \in Mem
  <2>1. ASSUME NEW j \in Offsets PROVE r[j] \in Cells
    <3>1. CASE j \in o..o+n-1
      <4>1. j-o+1 \in 1..n
        BY <1>1, <3>1
      <4> QED BY <1>1, <1>3, <3>1, <4>1
    <3>2. CASE j \notin o..o+n-1
      BY <1>3, <3>2 DEF Mem
    <3> QED BY <3>1, <3>2
  <2> QED BY <1>4, <2>1 DEF Mem
<1>8. ASSUME NEW c \in Nat, (c + 1) * Word <= o PROVE WordAt(r, c) = WordAt(m, c)
  <2>1. (c + 1) * Word <= PageSize
    <3>1. (c + 1) * Word \in Nat
      BY <1>2, SMT
    <3> QED BY ONLY <1>1, <1>2, <1>8, <3>1
  <2>2. HasWord(c)
    BY <2>1 DEF HasWord
  <2>3. c * Word \in Nat /\ c * Word + Word <= o
    BY <1>8, <2>2, WordPlaces
  <2>4. \A j \in Offsets : c * Word <= j /\ j < c * Word + Word => r[j] = m[j]
    <3> DEFINE e == c * Word
    <3>1. e \in Nat /\ e + Word <= o
      BY <2>3
    <3> HIDE DEF e
    <3>2. \A j \in Offsets : e <= j /\ j < e + Word => j < o
      BY <1>2, <3>1 DEF Offsets
    <3> QED BY <1>6, <3>2 DEF e
  <2> QED BY <2>2, <2>4, SameWordAt
<1> QED BY ONLY <1>5, <1>6, <1>7, <1>8 DEF BytesWritten, r, n

LEMMA ZeroWord ==
  ASSUME NEW m \in Mem, NEW a \in Nat, HasWord(a), \A j \in Offsets : m[j] = 0
  PROVE  WordAt(m, a) = 0
<1> DEFINE o == a * Word
<1>1. o \in Nat /\ \A i \in 0..Word-1 : o + i \in Offsets
  BY WordPlaces
<1> HIDE DEF o
<1>2. 0 \in 0..SizeModulus-1 /\ Word \in Nat /\ 0 \in Nat
  BY SizesAre
<1>3. \A i \in 0..Word-1 : m[o+i] = Byte(0, i)
  <2> SUFFICES ASSUME NEW i \in 0..Word-1 PROVE m[o+i] = Byte(0, i)
    OBVIOUS
  <2>1. i \in 0..Word
    BY <1>2
  <2>2. Byte(0, i) = 0
    BY ONLY <1>2, <2>1, ByteIs
  <2>3. m[o+i] = 0
    BY <1>1
  <2> QED BY <2>2, <2>3
<1>4. GetWord(m, o) = 0
  BY ONLY <1>1, <1>2, <1>3, WordOfBytes
<1> QED BY <1>4 DEF WordAt, o

-----------------------------------------------------------------------------
\* Where records lie.

Slot == [rec : Seq(Cells), start : Nat, deleted : BOOLEAN]

LEMMA PlaceOf ==
  ASSUME NEW s, WellPlaced(s), NEW k \in 1..Len(s)
  PROVE  /\ s[k] \in Slot /\ Len(s) \in Nat /\ Len(s[k].rec) \in Nat
         /\ s[k].start \in 0..PageSize-1
         /\ s[k].start + 1 + Len(s[k].rec) <= PageSize
         /\ s[k].start + 1 + Len(s[k].rec) = SlotEnd(s, k)
<1>1. s \in Seq(Slot) /\ s[k] \in Slot
  <2>1. s \in Seq(Slot)
    BY DEF WellPlaced, Slots, Slot
  <2> QED BY <2>1
<1>2. Len(s) \in Nat /\ Len(s[k].rec) \in Nat
  BY <1>1 DEF Slot
<1>3. \A i \in 1..Len(s) : s[i].start \in 0..PageSize-1
  BY DEF WellPlaced, LayoutOK
<1>4. s[k].start + 1 + Len(s[k].rec) = SlotEnd(s, k)
  BY DEF WellPlaced, Packed
<1>5. SlotEnd(s, k) \in Nat /\ SlotEnd(s, k) <= PageSize
  <2>1. CASE k = 1
    BY <2>1, SizesAre DEF SlotEnd
  <2>2. CASE k # 1
    <3>1. k - 1 \in 1..Len(s)
      BY <1>2, <2>2
    <3>2. SlotEnd(s, k) = s[k-1].start
      BY <2>2 DEF SlotEnd
    <3> QED BY <1>3, <3>1, <3>2, SizesAre
  <2> QED BY <2>1, <2>2
<1> QED BY <1>1, <1>2, <1>3, <1>4, <1>5

\* A later record starts, and ends, before an earlier one.
LEMMA LaterIsLower ==
  ASSUME NEW s, WellPlaced(s), NEW i \in 1..Len(s), NEW k \in 1..Len(s), i < k
  PROVE  s[k].start + 1 + Len(s[k].rec) <= s[i].start
<1> DEFINE Below(j) == i < j => s[j].start + 1 + Len(s[j].rec) <= s[i].start
           T == {j \in 1..Len(s) : ~Below(j)}
<1>1. Len(s) \in Nat /\ T \subseteq Nat
  BY PlaceOf
<1>2. SUFFICES ASSUME T # {} PROVE FALSE
  BY DEF Below
<1>3. PICK j \in T : \A x \in T : j <= x
  <2> HIDE DEF T
  <2> QED BY <1>1, <1>2, LeastNatural
<1>4. j \in 1..Len(s) /\ i < j /\ ~(s[j].start + 1 + Len(s[j].rec) <= s[i].start)
  BY <1>3
<1>5. j - 1 \in 1..Len(s) /\ ~(j <= j - 1) /\ j # 1 /\ j \in Nat /\ i \in Nat
  BY <1>1, <1>4
<1>6. s[j].start + 1 + Len(s[j].rec) = s[j-1].start
  BY <1>4, <1>5, PlaceOf DEF SlotEnd
<1>7. s[j-1].start \in Nat /\ s[i].start \in Nat /\ Len(s[j-1].rec) \in Nat
  BY <1>5, PlaceOf, SizesAre
<1>8. CASE j - 1 = i
  BY <1>4, <1>6, <1>7, <1>8
<1>9. CASE j - 1 # i
  <2>1. i < j - 1
    BY ONLY <1>4, <1>5, <1>9
  <2>2. Below(j-1)
    BY <1>3, <1>5
  <2>3. s[j-1].start + 1 + Len(s[j-1].rec) <= s[i].start
    BY <2>1, <2>2
  <2>4. s[j-1].start <= s[i].start
    BY ONLY <1>7, <2>3
  <2> QED BY <1>4, <1>6, <2>4
<1> QED BY <1>8, <1>9

\* The free space lies between the index and the records.
LEMMA FreeSpace ==
  ASSUME NEW s, WellPlaced(s)
  PROVE  /\ Len(s) \in Nat /\ s \in Slots(Seq(Cells)) /\ LayoutOK(s)
         /\ FreeEnd(s) \in Nat /\ FreeEnd(s) <= PageSize /\ FreeEnd(s) # 0
         /\ (3 + Len(s)) * Word \in Nat /\ (3 + Len(s)) * Word < FreeEnd(s)
         /\ \A k \in 1..Len(s) : FreeEnd(s) <= s[k].start
         /\ s # <<>> => Len(s) # 0 /\ FreeEnd(s) = s[Len(s)].start
<1>1. s \in Slots(Seq(Cells)) /\ LayoutOK(s)
  BY DEF WellPlaced
<1>2. FreeEnd(s) \in Nat /\ 4 * Word < FreeEnd(s) /\ FreeEnd(s) <= PageSize
  BY <1>1, RoomForFourWords
<1>3. Len(s) \in Nat /\ (s # <<>> => Len(s) # 0)
  BY <1>1 DEF Slots
<1>4. Word \in Nat \ {0} /\ 0 <= 4 * Word
  BY SizesAre
<1>5. s # <<>> => FreeEnd(s) = s[Len(s)].start
  BY DEF FreeEnd, Last
<1>6. (3 + Len(s)) * Word \in Nat /\ Word * (3 + Len(s)) = (3 + Len(s)) * Word
  BY <1>3, <1>4, SMT
<1>7. (3 + Len(s)) * Word < FreeEnd(s)
  <2>1. CASE s = <<>>
    <3>1. Len(s) = 0
      BY <2>1
    <3> QED BY <1>2, <1>4, <3>1
  <2>2. CASE s # <<>>
    BY <1>1, <1>6, <2>2 DEF LayoutOK, IndexEnd
  <2> QED BY <2>1, <2>2
<1>8. ASSUME NEW k \in 1..Len(s) PROVE FreeEnd(s) <= s[k].start
  <2>1. s # <<>> /\ Len(s) \in 1..Len(s)
    BY <1>3
  <2>2. s[k].start \in Nat /\ s[Len(s)].start \in Nat /\ Len(s[Len(s)].rec) \in Nat
    BY <2>1, PlaceOf, SizesAre
  <2>3. CASE k = Len(s)
    BY <1>5, <2>1, <2>2, <2>3
  <2>4. CASE k # Len(s)
    <3>1. k < Len(s)
      BY <1>3, <2>4
    <3>2. s[Len(s)].start + 1 + Len(s[Len(s)].rec) <= s[k].start
      BY <2>1, <3>1, LaterIsLower
    <3>3. s[Len(s)].start <= s[k].start
      BY ONLY <2>2, <3>2
    <3> QED BY <1>5, <2>1, <3>3
  <2> QED BY <2>3, <2>4
<1> QED BY ONLY <1>1, <1>2, <1>3, <1>4, <1>5, <1>6, <1>7, <1>8

\* The page has the words of the head and the index, all before the records.
LEMMA IndexWords ==
  ASSUME NEW s, WellPlaced(s), NEW a \in 0..2+Len(s)
  PROVE  HasWord(a) /\ (a + 1) * Word <= FreeEnd(s)
<1>1. Len(s) \in Nat /\ FreeEnd(s) \in Nat /\ FreeEnd(s) <= PageSize
      /\ (3 + Len(s)) * Word \in Nat /\ (3 + Len(s)) * Word < FreeEnd(s)
  BY FreeSpace
<1>2. a \in Nat /\ a + 1 \in Nat /\ 3 + Len(s) \in Nat /\ a + 1 <= 3 + Len(s)
  BY <1>1
<1>3. (a + 1) * Word \in Nat /\ (a + 1) * Word <= (3 + Len(s)) * Word
  <2> DEFINE x == a + 1
             y == 3 + Len(s)
  <2>1. x \in Nat /\ y \in Nat /\ x <= y /\ Word \in Nat
    BY <1>2, SizesAre
  <2> HIDE DEF x, y
  <2>2. x * Word \in Nat /\ (y - x) * Word \in Nat /\ y * Word = x * Word + (y - x) * Word
    BY <2>1, SMT
  <2>3. y * Word \in Nat
    BY <2>1, SMT
  <2>4. x * Word <= y * Word
    BY ONLY <2>2, <2>3
  <2> QED BY <2>2, <2>4 DEF x, y
<1>4. (a + 1) * Word <= FreeEnd(s) /\ (a + 1) * Word <= PageSize
  BY ONLY <1>1, <1>3, SizesAre
<1> QED BY <1>2, <1>4 DEF HasWord

-----------------------------------------------------------------------------
\* Reading the page.

LEMMA LoadedIs ==
  ASSUME NEW m, NEW s, Holds(m, s)
  PROVE  /\ Loaded(m).start = Len(s) /\ Loaded(m).end = WordAt(m, 1)
         /\ Loaded(m).idx = [k \in DOMAIN s |-> s[k].start]
<1>1. Word \in Nat /\ 0 * Word = 0 /\ 1 * Word = Word
  BY SizesAre
<1>2. GetWord(m, 0) = WordAt(m, 0) /\ GetWord(m, Word) = WordAt(m, 1)
      /\ GetWord(m, 2*Word) = WordAt(m, 2)
  BY <1>1 DEF WordAt
<1>3. WordAt(m, 0) = Len(s) /\ WordAt(m, 2) = Len(s)
  BY DEF Holds, HeadHolds
<1>4. \A k \in 1..Len(s) : GetWord(m, (2+k)*Word) = s[k].start
  BY DEF Holds, IndexHolds, WordAt
<1>5. DOMAIN s = 1..Len(s)
  BY DEF Holds, WellPlaced, Slots
<1> DEFINE idx == [k \in 1..GetWord(m, 2*Word) |-> GetWord(m, (2+k)*Word)]
<1>6. idx = [k \in DOMAIN s |-> s[k].start]
  BY <1>2, <1>3, <1>4, <1>5
<1>7. Loaded(m).start = GetWord(m, 0) /\ Loaded(m).end = GetWord(m, Word)
      /\ Loaded(m).idx = idx
  BY DEF Loaded
<1> QED BY <1>2, <1>3, <1>6, <1>7

\* A constructor leaves a page that is good, and whose free_addr_end_ is set.
LEMMA PreparedIs ==
  ASSUME NEW m, NEW s, Holds(m, s)
  PROVE  Holds(Prepared(m), s) /\ WordAt(Prepared(m), 1) = FreeEnd(s)
<1>1. m \in Mem /\ WellPlaced(s) /\ HeadHolds(m, s) /\ IndexHolds(m, s) /\ RecordsHold(m, s)
  BY DEF Holds
<1>2. Word \in Nat /\ 1 * Word = Word
  BY SizesAre
<1>3. GetWord(m, Word) = WordAt(m, 1)
  BY <1>2 DEF WordAt
<1>4. CASE GetWord(m, Word) # 0
  BY <1>1, <1>3, <1>4 DEF Prepared, HeadHolds
<1>5. CASE GetWord(m, Word) = 0
  <2> DEFINE r == PutWord(m, Word, PageSize)
  <2>1. s = <<>>
    BY <1>1, <1>3, <1>5, FreeSpace DEF HeadHolds
  <2>2. Len(s) = 0 /\ FreeEnd(s) = PageSize
    BY <2>1 DEF FreeEnd
  <2>3. HasWord(0) /\ HasWord(1) /\ HasWord(2)
    BY <1>1, <2>2, IndexWords
  <2>4. PageSize \in Numbers
    BY SizesAre DEF Numbers
  <2>5. WordWritten(r, m, 1, PageSize)
    <3>1. WordWritten(PutWord(m, 1 * Word, PageSize), m, 1, PageSize)
      BY <1>1, <2>3, <2>4, PutWordIs
    <3> QED BY <1>2, <3>1
  <2>6. Prepared(m) = r
    BY <1>5 DEF Prepared
  <2> HIDE DEF r
  <2>7. r \in Mem /\ WordAt(r, 1) = PageSize /\ WordAt(r, 0) = WordAt(m, 0)
        /\ WordAt(r, 2) = WordAt(m, 2)
    BY <2>3, <2>5 DEF WordWritten
  <2>8. HeadHolds(r, s)
    BY <1>1, <2>2, <2>7 DEF HeadHolds
  <2>9. IndexHolds(r, s) /\ RecordsHold(r, s)
    BY <2>2 DEF IndexHolds, RecordsHold
  <2> QED BY <1>1, <2>2, <2>6, <2>7, <2>8, <2>9 DEF Holds
<1> QED BY <1>4, <1>5

\* The record in slot k reads as slot x has it.
ReadsAs(m, idx, k, x) == Deleted(m, idx, k) = x.deleted /\ GetRecord(m, idx, k) = x.rec

\* The record in slot k reads as it was inserted, through an index that has
\* the starts of the slots up to it.
LEMMA RecordIs ==
  ASSUME NEW m, NEW s, Holds(m, s), NEW idx, NEW k \in 0..Len(s)-1,
         \A i \in 1..k+1 : idx[i] = s[i].start
  PROVE  ReadsAs(m, idx, k, s[k+1])
<1>1. WellPlaced(s) /\ RecordsHold(m, s)
  BY DEF Holds
<1>2. Len(s) \in Nat
  BY <1>1, FreeSpace
<1>3. k \in Nat /\ k + 1 \in 1..Len(s) /\ k + 1 \in 1..k+1
  BY <1>2
<1> DEFINE e == s[k+1]
           n == Len(e.rec)
<1>4. e \in Slot /\ n \in Nat /\ e.start \in Nat /\ e.start + 1 + n = SlotEnd(s, k+1)
  BY <1>1, <1>3, PlaceOf, SizesAre
<1>5. idx[k+1] = e.start
  BY <1>3
<1>6. SlotHolds(m, e)
  BY <1>1, <1>3 DEF RecordsHold
<1>7. EndOf(idx, k) = SlotEnd(s, k+1)
  <2>1. CASE k = 0
    BY <2>1 DEF EndOf, SlotEnd
  <2>2. CASE k # 0
    <3>1. k \in 1..k+1 /\ (k + 1) - 1 = k /\ k + 1 # 1
      BY <1>3, <2>2
    <3>2. idx[k] = s[k].start
      BY <3>1
    <3> QED BY <2>2, <3>1, <3>2 DEF EndOf, SlotEnd
  <2> QED BY <2>1, <2>2
<1> HIDE DEF e
<1>8. e.rec = [i \in 1..n |-> e.rec[i]] /\ e.deleted \in BOOLEAN
  BY <1>4 DEF Slot
<1>9. \A i \in 1..n : m[e.start + 1 + i - 1] = e.rec[i]
  <2> SUFFICES ASSUME NEW i \in 1..n PROVE m[e.start + 1 + i - 1] = e.rec[i]
    OBVIOUS
  <2>1. e.start + 1 + i - 1 = e.start + i
    BY ONLY <1>4, i \in 1..n
  <2>2. m[e.start+i] = e.rec[i]
    BY <1>6 DEF SlotHolds
  <2> QED BY <2>1, <2>2
<1>10. GetRecord(m, idx, k) = e.rec
  <2>1. EndOf(idx, k) - idx[k+1] - 1 = n
    <3> DEFINE x == e.start
               y == EndOf(idx, k)
    <3>1. x \in Nat /\ n \in Nat /\ y = x + 1 + n
      BY <1>4, <1>7
    <3> HIDE DEF x, y, n
    <3>2. y - x - 1 = n
      BY ONLY <3>1
    <3> QED BY <1>5, <3>2 DEF x, y
  <2>2. GetRecord(m, idx, k) = [i \in 1..n |-> m[e.start + 1 + i - 1]]
    BY <1>5, <2>1 DEF GetRecord, GetBytes
  <2> HIDE DEF n
  <2> QED BY <1>8, <1>9, <2>2
<1>11. Deleted(m, idx, k) = e.deleted
  <2>1. m[e.start] = IF e.deleted THEN 1 ELSE 0
    BY <1>6 DEF SlotHolds
  <2>2. Deleted(m, idx, k) = (m[e.start] = 1)
    BY <1>5 DEF Deleted
  <2>3. CASE e.deleted
    BY <1>8, <2>1, <2>2, <2>3
  <2>4. CASE ~e.deleted
    BY <1>8, <2>1, <2>2, <2>4
  <2> QED BY <2>3, <2>4
<1> QED BY <1>10, <1>11 DEF e, ReadsAs

-----------------------------------------------------------------------------
\* Writing the page.

LEMMA WriteHeadIs ==
  ASSUME NEW m \in Mem, NEW k \in Nat, NEW start \in Numbers, NEW end \in Numbers,
         NEW at \in Numbers, k + 1 \in Numbers,
         HasWord(0), HasWord(1), HasWord(2), HasWord(3 + k),
         NEW r, r = WriteHead(m, start, end, k, at)
  PROVE  /\ r \in Mem
         /\ WordAt(r, 0) = start /\ WordAt(r, 1) = end /\ WordAt(r, 2) = k + 1
         /\ WordAt(r, 3 + k) = at
         /\ \A c \in Nat : HasWord(c) /\ 2 < c /\ c # 3 + k => WordAt(r, c) = WordAt(m, c)
         /\ \A j \in Offsets : (4 + k) * Word <= j => r[j] = m[j]
<1> DEFINE m1 == PutWord(m, 0 * Word, start)
           m2 == PutWord(m1, 1 * Word, end)
           m3 == PutWord(m2, 2 * Word, k + 1)
           m4 == PutWord(m3, (3 + k) * Word, at)
<1>1. Word \in Nat /\ 0 * Word = 0 /\ 1 * Word = Word
  BY SizesAre
<1>2. r = m4
  BY <1>1 DEF WriteHead
<1>3. WordWritten(m1, m, 0, start)
  BY PutWordIs
<1> HIDE DEF m1
<1>4. m1 \in Mem
  BY <1>3 DEF WordWritten
<1>5. WordWritten(m2, m1, 1, end)
  BY <1>4, PutWordIs
<1> HIDE DEF m2
<1>6. m2 \in Mem
  BY <1>5 DEF WordWritten
<1>7. WordWritten(m3, m2, 2, k + 1)
  BY <1>6, PutWordIs
<1> HIDE DEF m3
<1>8. m3 \in Mem
  BY <1>7 DEF WordWritten
<1>9. WordWritten(m4, m3, 3 + k, at)
  BY <1>8, PutWordIs
<1> HIDE DEF m4
<1>10. m4 \in Mem /\ WordAt(m4, 3 + k) = at
  BY <1>9 DEF WordWritten
<1>11. WordAt(m4, 0) = start
  <2>1. WordAt(m1, 0) = start
    BY ONLY <1>3 DEF WordWritten
  <2>2. WordAt(m2, 0) = start
    BY ONLY <1>5, <2>1, HasWord(0) DEF WordWritten
  <2>3. WordAt(m3, 0) = start
    BY ONLY <1>7, <2>2, HasWord(0) DEF WordWritten
  <2>4. 0 # 3 + k
    OBVIOUS
  <2> QED BY ONLY <1>9, <2>3, <2>4, HasWord(0) DEF WordWritten
<1>12. WordAt(m4, 1) = end
  <2>1. WordAt(m2, 1) = end
    BY ONLY <1>5 DEF WordWritten
  <2>2. WordAt(m3, 1) = end
    BY ONLY <1>7, <2>1, HasWord(1) DEF WordWritten
  <2>3. 1 # 3 + k
    OBVIOUS
  <2> QED BY ONLY <1>9, <2>2, <2>3, HasWord(1) DEF WordWritten
<1>13. WordAt(m4, 2) = k + 1
  <2>1. WordAt(m3, 2) = k + 1
    BY ONLY <1>7 DEF WordWritten
  <2>2. 2 # 3 + k
    OBVIOUS
  <2> QED BY ONLY <1>9, <2>1, <2>2, HasWord(2) DEF WordWritten
<1>14. ASSUME NEW c \in Nat, HasWord(c), 2 < c, c # 3 + k PROVE WordAt(m4, c) = WordAt(m, c)
  <2>1. c # 0 /\ c # 1 /\ c # 2
    BY <1>14
  <2>2. WordAt(m1, c) = WordAt(m, c)
    BY ONLY <1>3, <1>14, <2>1 DEF WordWritten
  <2>3. WordAt(m2, c) = WordAt(m1, c)
    BY ONLY <1>5, <1>14, <2>1 DEF WordWritten
  <2>4. WordAt(m3, c) = WordAt(m2, c)
    BY ONLY <1>7, <1>14, <2>1 DEF WordWritten
  <2>5. WordAt(m4, c) = WordAt(m3, c)
    BY ONLY <1>9, <1>14 DEF WordWritten
  <2> QED BY ONLY <2>2, <2>3, <2>4, <2>5
<1>15. ASSUME NEW j \in Offsets, (4 + k) * Word <= j PROVE m4[j] = m[j]
  <2>1. j \in Nat
    BY SizesAre DEF Offsets
  <2>2. (0 + 1) * Word <= j /\ (1 + 1) * Word <= j /\ (2 + 1) * Word <= j
        /\ (3 + k + 1) * Word <= j
    <3>1. k * Word \in Nat /\ (4 + k) * Word = 4 * Word + k * Word /\ 3 + k + 1 = 4 + k
      BY <1>1, SMT
    <3> DEFINE x == k * Word
    <3>2. x \in Nat /\ 4 * Word + x <= j /\ (3 + k + 1) * Word <= j
      BY ONLY <1>15, <3>1
    <3> HIDE DEF x
    <3> QED BY ONLY <1>1, <2>1, <3>2
  <2>3. m1[j] = m[j]
    BY ONLY <1>3, <1>15, <2>2 DEF WordWritten
  <2>4. m2[j] = m1[j]
    BY ONLY <1>5, <1>15, <2>2 DEF WordWritten
  <2>5. m3[j] = m2[j]
    BY ONLY <1>7, <1>15, <2>2 DEF WordWritten
  <2>6. m4[j] = m3[j]
    BY ONLY <1>9, <1>15, <2>2 DEF WordWritten
  <2> QED BY ONLY <2>3, <2>4, <2>5, <2>6
<1> QED BY ONLY <1>2, <1>10, <1>11, <1>12, <1>13, <1>14, <1>15

\* enough() of an object judges as its slot-level form does.
LEMMA HasRoomIs ==
  ASSUME NEW m, NEW s, Holds(m, s), WordAt(m, 1) = FreeEnd(s), NEW n \in Nat
  PROVE  HasRoom(Loaded(m), n) <=> Enough(s, n)
<1>1. Loaded(m).end = FreeEnd(s) /\ Loaded(m).idx = [k \in DOMAIN s |-> s[k].start]
  BY LoadedIs
<1>2. DOMAIN s = 1..Len(s) /\ Len(s) \in Nat
  BY DEF Holds, WellPlaced, Slots
<1>3. Len(Loaded(m).idx) = Len(s)
  <2> DEFINE idx == [k \in 1..Len(s) |-> s[k].start]
  <2>1. Loaded(m).idx = idx
    BY <1>1, <1>2
  <2>2. Len(idx) = Len(s)
    BY <1>2
  <2> QED BY <2>1, <2>2
<1> QED BY <1>1, <1>3 DEF HasRoom, Enough, RecordStart

\* Where an accepted record goes.
LEMMA PlaceOfNew ==
  ASSUME NEW s, WellPlaced(s), NEW b \in Seq(Cells), NEW n, n = Len(b),
         n + 1 <= FreeEnd(s), Enough(s, n), NEW at, at = RecordStart(s, n)
  PROVE  /\ at \in Nat /\ at + n + 1 = FreeEnd(s) /\ at + n + 1 <= PageSize
         /\ (4 + Len(s)) * Word \in Nat /\ (4 + Len(s)) * Word < at
         /\ IndexEnd(Len(s) + 1) + n + 1 <= FreeEnd(s)
         /\ LayoutOK(AddRecord(s, b, n)) /\ AddRecord(s, b, n) \in Slots(Seq(Cells))
<1>1. /\ s \in Slots(Seq(Cells)) /\ LayoutOK(s) /\ Len(s) \in Nat
      /\ FreeEnd(s) \in Nat /\ FreeEnd(s) <= PageSize
  BY FreeSpace
<1>2. n \in Nat /\ Word \in Nat \ {0} /\ n + 1 <= FreeEnd(s)
  BY SizesAre
<1>3. /\ IndexEnd(Len(s) + 1) + n + 1 < FreeEnd(s)
      /\ AddRecord(s, b, n) \in Slots(Seq(Cells))
      /\ LayoutOK(AddRecord(s, b, n))
  BY ONLY <1>1, <1>2, b \in Seq(Cells), Enough(s, n), EnoughIsRight
<1> DEFINE e == (4 + Len(s)) * Word
<1>4. e \in Nat /\ IndexEnd(Len(s) + 1) = e
  BY <1>1, <1>2, SMT DEF IndexEnd
<1> HIDE DEF e
<1>5. FreeEnd(s) - n - 1 \in 0..SizeModulus-1 /\ SizeModulus \in Nat
  <2>1. SizeModulus \in Nat /\ PageSize \in Nat /\ PageSize < SizeModulus
    BY SizesAre
  <2> QED BY ONLY <1>1, <1>2, <1>3, <1>4, <2>1
<1>6. at = FreeEnd(s) - n - 1
  BY ONLY <1>5, ModSmall, at = RecordStart(s, n) DEF RecordStart
<1>7. at \in Nat /\ at + n + 1 = FreeEnd(s) /\ e < at
  BY ONLY <1>1, <1>2, <1>3, <1>4, <1>5, <1>6
<1>8. IndexEnd(Len(s) + 1) + n + 1 <= FreeEnd(s)
  BY ONLY <1>1, <1>2, <1>3, <1>4
<1> QED BY <1>1, <1>3, <1>4, <1>7, <1>8 DEF e

\* t is s and a slot of b that starts at o.
Added(t, s, b, o) ==
  /\ Len(t) = Len(s) + 1 /\ t # <<>>
  /\ \A k \in 1..Len(s) : t[k] = s[k] /\ SlotEnd(t, k) = SlotEnd(s, k)
  /\ t[Len(s)+1].rec = b /\ t[Len(s)+1].start = o /\ ~t[Len(s)+1].deleted
  /\ SlotEnd(t, Len(s)+1) = FreeEnd(s) /\ FreeEnd(t) = o

LEMMA AddedSlots ==
  ASSUME NEW s, WellPlaced(s), NEW b \in Seq(Cells), NEW n \in Nat
  PROVE  Added(AddRecord(s, b, n), s, b, RecordStart(s, n))
<1> DEFINE new == [rec |-> b, start |-> RecordStart(s, n), deleted |-> FALSE]
           l == Len(s)
           t == AddRecord(s, b, n)
<1>1. t = Append(s, new)
  BY DEF AddRecord
<1>2. s \in Seq(Slot) /\ l \in Nat
  BY FreeSpace DEF WellPlaced, Slots, Slot
<1>3. new.rec = b /\ new.start = RecordStart(s, n) /\ ~new.deleted
  OBVIOUS
<1> HIDE DEF new, t
<1>4. Len(t) = l + 1 /\ t[l+1] = new /\ \A k \in 1..l : t[k] = s[k]
  BY <1>1, <1>2
<1>5. t # <<>>
  BY <1>2, <1>4
<1>6. ASSUME NEW k \in 1..l PROVE SlotEnd(t, k) = SlotEnd(s, k)
  <2>1. k = 1 \/ k - 1 \in 1..l
    BY <1>2
  <2> QED BY <1>4, <2>1 DEF SlotEnd
<1>7. FreeEnd(t) = RecordStart(s, n)
  BY <1>3, <1>4, <1>5 DEF FreeEnd, Last
<1>8. SlotEnd(t, l+1) = FreeEnd(s)
  <2>1. CASE s = <<>>
    <3>1. l = 0
      BY <2>1
    <3> QED BY <2>1, <3>1 DEF SlotEnd, FreeEnd
  <2>2. CASE s # <<>>
    <3>1. l # 0 /\ FreeEnd(s) = s[l].start
      BY <2>2, FreeSpace
    <3>2. l + 1 # 1 /\ (l + 1) - 1 = l /\ l \in 1..l
      BY <1>2, <3>1
    <3> QED BY <1>4, <3>1, <3>2 DEF SlotEnd
  <2> QED BY <2>1, <2>2
<1> QED BY ONLY <1>3, <1>4, <1>5, <1>6, <1>7, <1>8 DEF Added, t

\* The byte that insert puts before a record, and what remove makes of it.
LiveMark == <<0>>
DeadMark == <<1>>

\* insert: the record goes below the others, and the head and the index say so.
LEMMA InsertHolds ==
  ASSUME NEW m, NEW s, Holds(m, s), NEW b \in Seq(Cells), NEW n, n = Len(b),
         n + 1 <= FreeEnd(s), Enough(s, n), NEW at, at = RecordStart(s, n),
         NEW r, r = WriteHead(PutBytes(m, at, LiveMark \o b), Len(s) + 1, at, Len(s), at)
  PROVE  Holds(r, AddRecord(s, b, n))
<1> DEFINE t == AddRecord(s, b, n)
           l == Len(s)
           bytes == <<0>> \o b
           p == PutBytes(m, at, bytes)
<1>1. m \in Mem /\ WellPlaced(s) /\ HeadHolds(m, s) /\ IndexHolds(m, s) /\ RecordsHold(m, s)
  BY DEF Holds
<1>2. /\ l \in Nat /\ n \in Nat /\ FreeEnd(s) \in Nat
      /\ \A k \in 1..l : FreeEnd(s) <= s[k].start
  BY <1>1, FreeSpace
<1>3. /\ at \in Nat /\ at + n + 1 = FreeEnd(s) /\ at + n + 1 <= PageSize
      /\ (4 + l) * Word \in Nat /\ (4 + l) * Word < at
      /\ LayoutOK(t) /\ t \in Slots(Seq(Cells))
  BY <1>1, PlaceOfNew
<1>4. /\ Len(t) = l + 1 /\ t # <<>>
      /\ \A k \in 1..l : t[k] = s[k] /\ SlotEnd(t, k) = SlotEnd(s, k)
      /\ t[l+1].rec = b /\ t[l+1].start = at /\ ~t[l+1].deleted
      /\ SlotEnd(t, l+1) = FreeEnd(s) /\ FreeEnd(t) = at
  <2>1. Added(t, s, b, at)
    BY ONLY <1>1, <1>2, b \in Seq(Cells), at = RecordStart(s, n), AddedSlots
  <2> HIDE DEF t
  <2> QED BY <2>1 DEF Added
<1>5. bytes \in Seq(Cells) /\ Len(bytes) = n + 1 /\ bytes[1] = 0
      /\ \A j \in 1..n : bytes[j+1] = b[j]
  <2>1. 0 \in Cells
    BY SizesAre DEF Cells
  <2>2. <<0>> \in Seq(Cells)
    BY <2>1
  <2> QED BY <2>2
<1>6. BytesWritten(p, m, at, bytes)
  <2>1. at + Len(bytes) <= PageSize
    BY <1>2, <1>3, <1>5
  <2> QED BY ONLY <1>1, <1>3, <1>5, <2>1, PutBytesIs
<1> HIDE DEF p, t, bytes
<1>7. WellPlaced(t)
  <2>1. ASSUME NEW k \in 1..Len(t) PROVE t[k].start + 1 + Len(t[k].rec) = SlotEnd(t, k)
    <3>1. CASE k = l + 1
      <4>1. t[k].start = at /\ Len(t[k].rec) = n /\ SlotEnd(t, k) = FreeEnd(s)
        BY <1>4, <3>1
      <4> QED BY ONLY <1>2, <1>3, <4>1
    <3>2. CASE k # l + 1
      <4>1. k \in 1..l
        BY <1>2, <1>4, <3>2
      <4>2. s[k].start + 1 + Len(s[k].rec) = SlotEnd(s, k)
        BY <1>1, <4>1, PlaceOf
      <4> QED BY <1>4, <4>1, <4>2
    <3> QED BY <3>1, <3>2
  <2> QED BY <1>3, <2>1 DEF WellPlaced, Packed, t
<1>8. p \in Mem
  BY ONLY <1>6 DEF BytesWritten
<1>9. HasWord(0) /\ HasWord(1) /\ HasWord(2) /\ HasWord(3 + l)
      /\ \A c \in 0..3+l : HasWord(c)
  <2>1. \A c \in 0..2+Len(t) : HasWord(c)
    BY <1>7, IndexWords
  <2>2. 2 + Len(t) = 3 + l
    BY <1>2, <1>4
  <2>3. 0 \in 0..3+l /\ 1 \in 0..3+l /\ 2 \in 0..3+l /\ 3 + l \in 0..3+l
    BY <1>2
  <2> QED BY <2>1, <2>2, <2>3
<1>10. l + 1 \in Numbers /\ at \in Numbers
  <2>1. PageSize \in Nat /\ SizeModulus \in Nat /\ PageSize < SizeModulus /\ Word \in Nat \ {0}
    BY SizesAre
  <2>2. l + 1 <= (4 + l) * Word
    <3> DEFINE x == 4 + l
               y == x * Word
    <3>1. x \in Nat /\ l + 1 <= x
      BY <1>2
    <3> HIDE DEF x
    <3>2. x <= y /\ y \in Nat
      BY ONLY <2>1, <3>1, ProductAtLeast
    <3> HIDE DEF y
    <3>3. l + 1 <= y
      BY ONLY <1>2, <3>1, <3>2
    <3> QED BY <3>3 DEF x, y
  <2>3. l + 1 < PageSize
    BY ONLY <1>2, <1>3, <2>1, <2>2
  <2> QED BY ONLY <1>2, <1>3, <2>1, <2>3 DEF Numbers
<1>11. /\ r \in Mem
       /\ WordAt(r, 0) = l + 1 /\ WordAt(r, 1) = at /\ WordAt(r, 2) = l + 1
       /\ WordAt(r, 3 + l) = at
       /\ \A c \in Nat : HasWord(c) /\ 2 < c /\ c # 3 + l => WordAt(r, c) = WordAt(p, c)
       /\ \A j \in Offsets : (4 + l) * Word <= j => r[j] = p[j]
  <2>1. r = WriteHead(p, l + 1, at, l, at)
    BY DEF p, bytes, LiveMark
  <2> QED BY ONLY <1>2, <1>8, <1>9, <1>10, <2>1, WriteHeadIs
<1>12. HeadHolds(r, t)
  BY ONLY <1>4, <1>11 DEF HeadHolds
<1>13. IndexHolds(r, t)
  <2> SUFFICES ASSUME NEW k \in 1..Len(t) PROVE WordAt(r, 2 + k) = t[k].start
    BY DEF IndexHolds
  <2>1. CASE k = l + 1
    <3>1. 2 + k = 3 + l
      BY <1>2, <2>1
    <3> QED BY <1>4, <1>11, <2>1, <3>1
  <2>2. CASE k # l + 1
    <3>1. k \in 1..l /\ 2 + k \in Nat /\ 2 < 2 + k /\ 2 + k # 3 + l /\ 2 + k \in 0..2+l
          /\ 2 + k \in 0..3+l
      BY <1>2, <1>4, <2>2
    <3>2. WordAt(r, 2 + k) = WordAt(p, 2 + k)
      BY <1>9, <1>11, <3>1
    <3>3. (2 + k + 1) * Word <= at
      <4>1. HasWord(2 + k) /\ 2 + k < 4 + l
        BY <1>2, <1>9, <3>1
      <4>2. (2 + k) * Word + Word <= (4 + l) * Word /\ (2 + k + 1) * Word = (2 + k) * Word + Word
            /\ (2 + k) * Word \in Nat
        BY <1>2, <3>1, <4>1, WordsApart, WordPlaces
      <4> DEFINE x == (2 + k) * Word
                 y == (4 + l) * Word
      <4>3. x \in Nat /\ x + Word <= y /\ y \in Nat /\ y < at /\ (2 + k + 1) * Word = x + Word
        BY <1>3, <4>2
      <4> HIDE DEF x, y
      <4>4. x + Word <= at
        BY ONLY <1>3, <4>3, SizesAre
      <4> QED BY <4>3, <4>4
    <3>4. WordAt(p, 2 + k) = WordAt(m, 2 + k)
      BY ONLY <1>6, <3>1, <3>3 DEF BytesWritten
    <3>5. WordAt(m, 2 + k) = s[k].start
      BY <1>1, <3>1 DEF IndexHolds
    <3> QED BY <1>4, <3>1, <3>2, <3>4, <3>5
  <2> QED BY <2>1, <2>2
<1>14. RecordsHold(r, t)
  <2> SUFFICES ASSUME NEW k \in 1..Len(t) PROVE SlotHolds(r, t[k])
    BY DEF RecordsHold
  <2>0. PageSize \in Nat
    BY SizesAre
  <2>1. CASE k = l + 1
    <3>1. t[k].start = at /\ t[k].rec = b /\ ~t[k].deleted
      BY <1>4, <2>1
    <3>2. \A j \in 0..n : r[at+j] = bytes[j+1]
      <4> SUFFICES ASSUME NEW j \in 0..n PROVE r[at+j] = bytes[j+1]
        OBVIOUS
      <4>1. at + j \in Offsets /\ (4 + l) * Word <= at + j /\ j + 1 \in 1..n+1
            /\ at + (j + 1) - 1 = at + j
        BY ONLY <1>2, <1>3, <2>0, j \in 0..n DEF Offsets
      <4>2. r[at+j] = p[at+j]
        BY <1>11, <4>1
      <4>3. p[at+(j+1)-1] = bytes[j+1]
        BY ONLY <1>5, <1>6, <4>1 DEF BytesWritten
      <4> QED BY <4>1, <4>2, <4>3
    <3>3. r[at] = 0
      <4>1. 0 \in 0..n /\ at + 0 = at /\ 0 + 1 = 1
        BY <1>2, <1>3
      <4> QED BY <1>5, <3>2, <4>1
    <3>4. \A j \in 1..n : r[at+j] = b[j]
      <4>1. \A j \in 1..n : j \in 0..n
        BY <1>2
      <4> QED BY <1>5, <3>2, <4>1
    <3> QED BY <3>1, <3>3, <3>4 DEF SlotHolds
  <2>2. CASE k # l + 1
    <3>1. k \in 1..l
      BY <1>2, <1>4, <2>2
    <3> DEFINE x == s[k]
    <3>2. t[k] = x /\ SlotHolds(m, x) /\ x.start \in Nat /\ Len(x.rec) \in Nat
          /\ x.start + 1 + Len(x.rec) <= PageSize /\ FreeEnd(s) <= x.start
      BY <1>1, <1>2, <1>4, <3>1, PlaceOf, SizesAre DEF RecordsHold
    <3> HIDE DEF x
    <3>3. \A j \in 0..Len(x.rec) : r[x.start+j] = m[x.start+j]
      <4> SUFFICES ASSUME NEW j \in 0..Len(x.rec) PROVE r[x.start+j] = m[x.start+j]
        OBVIOUS
      <4>1. x.start + j \in Offsets /\ (4 + l) * Word <= x.start + j
            /\ at + Len(bytes) <= x.start + j
        <5> DEFINE z == (4 + l) * Word
                   y == x.start
                   w == Len(x.rec)
        <5>1. z \in Nat /\ z < at /\ y \in Nat /\ w \in Nat /\ j \in 0..w
          BY <1>3, <3>2
        <5>2. y + 1 + w <= PageSize /\ at + n + 1 <= y /\ Len(bytes) = n + 1
          BY <1>3, <1>5, <3>2
        <5>0. at \in Nat /\ n \in Nat /\ PageSize \in Nat
          BY <1>2, <1>3, SizesAre
        <5> HIDE DEF y, z, w
        <5>3. y + j \in Offsets /\ z <= y + j /\ at + (n + 1) <= y + j
          BY ONLY <5>0, <5>1, <5>2 DEF Offsets
        <5> QED BY ONLY <5>2, <5>3 DEF y, z
      <4>2. r[x.start+j] = p[x.start+j]
        BY <1>11, <4>1
      <4>3. p[x.start+j] = m[x.start+j]
        BY ONLY <1>6, <4>1 DEF BytesWritten
      <4> QED BY <4>2, <4>3
    <3>4. 0 \in 0..Len(x.rec) /\ x.start + 0 = x.start
          /\ \A j \in 1..Len(x.rec) : j \in 0..Len(x.rec)
      BY <3>2
    <3>5. r[x.start] = m[x.start] /\ \A j \in 1..Len(x.rec) : r[x.start+j] = m[x.start+j]
      BY <3>3, <3>4
    <3> QED BY <3>2, <3>5 DEF SlotHolds
  <2> QED BY <2>1, <2>2
<1> QED BY <1>7, <1>11, <1>12, <1>13, <1>14 DEF Holds, t

\* t is s with the slot i marked.
Marked(t, s, i) ==
  /\ t \in Slots(Seq(Cells)) /\ Len(t) = Len(s)
  /\ \A j \in 1..Len(s) : /\ t[j].start = s[j].start /\ t[j].rec = s[j].rec
                          /\ SlotEnd(t, j) = SlotEnd(s, j)
                          /\ j # i => t[j] = s[j]
  /\ t[i].deleted
  /\ FreeEnd(t) = FreeEnd(s) /\ (t = <<>>) = (s = <<>>)

LEMMA MarkedSlots ==
  ASSUME NEW s, WellPlaced(s), NEW k \in Nat, k < Len(s)
  PROVE  Marked(MarkDeleted(s, k), s, k + 1)
<1> DEFINE i == k + 1
           t == MarkDeleted(s, k)
           e == [s[i] EXCEPT !.deleted = TRUE]
<1>1. s \in Seq(Slot) /\ Len(s) \in Nat /\ i \in 1..Len(s)
  BY FreeSpace DEF WellPlaced, Slots, Slot
<1>2. s[i] \in Slot
  BY <1>1
<1>3. t = [s EXCEPT ![i] = e]
  BY DEF MarkDeleted
<1>4. e \in Slot /\ e.deleted /\ e.start = s[i].start /\ e.rec = s[i].rec
  BY <1>2 DEF Slot
<1> HIDE DEF e, i, t, Slot
<1>5. t \in Seq(Slot) /\ Len(t) = Len(s) /\ t[i] = e
      /\ \A j \in 1..Len(s) : j # i => t[j] = s[j]
  BY <1>1, <1>3, <1>4
<1>6. \A j \in 1..Len(s) : t[j].start = s[j].start /\ t[j].rec = s[j].rec
  BY <1>4, <1>5
<1>7. ASSUME NEW j \in 1..Len(s) PROVE SlotEnd(t, j) = SlotEnd(s, j)
  <2>1. j = 1 \/ j - 1 \in 1..Len(s)
    BY <1>1
  <2> QED BY <1>6, <2>1 DEF SlotEnd
<1>8. Len(s) \in 1..Len(s) /\ s # <<>> /\ t # <<>>
  BY <1>1, <1>5
<1>9. FreeEnd(t) = FreeEnd(s)
  BY <1>5, <1>6, <1>8 DEF FreeEnd, Last
<1>10. t \in Slots(Seq(Cells))
  BY <1>5 DEF Slots, Slot
<1> QED BY ONLY <1>4, <1>5, <1>6, <1>7, <1>8, <1>9, <1>10 DEF Marked, i, t

\* remove: the mark of the slot is set, and nothing else.
LEMMA RemoveHolds ==
  ASSUME NEW m, NEW s, Holds(m, s), NEW k \in Nat, k < Len(s),
         NEW r, r = PutBytes(m, s[k+1].start, DeadMark)
  PROVE  Holds(r, MarkDeleted(s, k))
<1> DEFINE i == k + 1
           t == MarkDeleted(s, k)
           at == s[i].start
           l == Len(s)
<1>1. m \in Mem /\ WellPlaced(s) /\ HeadHolds(m, s) /\ IndexHolds(m, s) /\ RecordsHold(m, s)
  BY DEF Holds
<1>2. l \in Nat /\ FreeEnd(s) \in Nat /\ LayoutOK(s) /\ PageSize \in Nat
      /\ \A j \in 1..l : FreeEnd(s) <= s[j].start
  BY <1>1, FreeSpace, SizesAre
<1>3. i \in 1..l
  BY <1>2
<1>4. at \in Nat /\ at + 1 <= PageSize /\ FreeEnd(s) <= at
  <2>1. at \in 0..PageSize-1
    BY <1>1, <1>3, PlaceOf
  <2> QED BY <1>2, <1>3, <2>1
<1>5. Marked(t, s, i)
  BY <1>1, MarkedSlots
<1>6. BytesWritten(r, m, at, <<1>>)
  <2>1. <<1>> \in Seq(Cells) /\ Len(<<1>>) = 1
    <3>1. 1 \in Cells
      BY SizesAre DEF Cells
    <3> QED BY <3>1
  <2>2. at + Len(<<1>>) <= PageSize
    BY <1>4, <2>1
  <2> HIDE DEF at
  <2>3. BytesWritten(PutBytes(m, at, <<1>>), m, at, <<1>>)
    BY ONLY <1>1, <1>4, <2>1, <2>2, PutBytesIs
  <2> QED BY <2>3 DEF at, DeadMark
<1> HIDE DEF i, t, at
<1>7. r \in Mem /\ r[at] = 1 /\ (\A j \in Offsets : j # at => r[j] = m[j])
      /\ \A c \in Nat : (c + 1) * Word <= at => WordAt(r, c) = WordAt(m, c)
  <2>1. Len(<<1>>) = 1 /\ <<1>>[1] = 1
    OBVIOUS
  <2>2. r \in Mem /\ r[at + 1 - 1] = 1
        /\ (\A j \in Offsets : j < at \/ at + 1 <= j => r[j] = m[j])
        /\ \A c \in Nat : (c + 1) * Word <= at => WordAt(r, c) = WordAt(m, c)
    BY ONLY <1>6, <2>1 DEF BytesWritten
  <2>3. \A j \in Offsets : j # at => j < at \/ at + 1 <= j
    BY ONLY <1>2, <1>4 DEF Offsets
  <2>4. at + 1 - 1 = at
    BY <1>4
  <2> QED BY ONLY <2>2, <2>3, <2>4
<1>8. \A c \in 0..2+l : WordAt(r, c) = WordAt(m, c)
  <2> SUFFICES ASSUME NEW c \in 0..2+l PROVE WordAt(r, c) = WordAt(m, c)
    OBVIOUS
  <2>1. c \in Nat /\ (c + 1) * Word <= FreeEnd(s)
    <3>1. (c + 1) * Word <= FreeEnd(s)
      BY ONLY <1>1, c \in 0..2+l, IndexWords
    <3> QED BY <1>2, <3>1
  <2>2. (c + 1) * Word \in Nat
    BY <2>1, SizesAre, SMT
  <2>3. (c + 1) * Word <= at
    BY ONLY <1>2, <1>4, <2>1, <2>2
  <2> QED BY <1>7, <2>1, <2>3
<1>9. WellPlaced(t)
  <2>1. LayoutOK(t)
    BY <1>2, <1>5 DEF LayoutOK, Marked
  <2>2. Packed(t)
    BY <1>1, <1>5 DEF WellPlaced, Packed, Marked
  <2> QED BY <1>5, <2>1, <2>2 DEF WellPlaced, Marked
<1>10. HeadHolds(r, t)
  <2>1. 0 \in 0..2+l /\ 1 \in 0..2+l /\ 2 \in 0..2+l
    BY <1>2
  <2> QED BY <1>1, <1>5, <1>8, <2>1 DEF HeadHolds, Marked
<1>11. IndexHolds(r, t)
  <2>1. \A j \in 1..l : 2 + j \in 0..2+l
    BY <1>2
  <2> QED BY <1>1, <1>5, <1>8, <2>1 DEF IndexHolds, Marked
<1>12. ASSUME NEW j \in 1..Len(t) PROVE SlotHolds(r, t[j])
  <2>1. j \in 1..l /\ t[j].start = s[j].start /\ t[j].rec = s[j].rec
        /\ (j # i => t[j] = s[j]) /\ t[i].deleted
    BY <1>5 DEF Marked
  <2> DEFINE o == s[j].start
             n == Len(s[j].rec)
  <2>2. o \in Nat /\ n \in Nat /\ o + 1 + n <= PageSize
    BY <1>1, <2>1, PlaceOf, SizesAre
  <2>3. SlotHolds(m, s[j])
    BY <1>1, <2>1 DEF RecordsHold
  <2>4. j # i => at < o \/ o + n < at
    <3> SUFFICES ASSUME j # i PROVE at < o \/ o + n < at
      OBVIOUS
    <3>1. j < i \/ i < j
      BY <1>2, <1>3, <2>1
    <3>2. CASE j < i
      <4> DEFINE w == Len(s[i].rec)
      <4>1. at + 1 + w <= o /\ w \in Nat
        BY <1>1, <1>3, <2>1, <3>2, LaterIsLower, PlaceOf DEF at
      <4> HIDE DEF o, n, w
      <4>2. at < o
        BY ONLY <1>4, <2>2, <4>1
      <4> QED BY <4>2
    <3>3. CASE i < j
      <4>1. o + 1 + n <= at
        BY <1>1, <1>3, <2>1, <3>3, LaterIsLower DEF at
      <4> HIDE DEF o, n
      <4>2. o + n < at
        BY ONLY <1>4, <2>2, <4>1
      <4> QED BY <4>2
    <3> QED BY <3>1, <3>2, <3>3
  <2>5. (j # i => at # o) /\ \A x \in 1..n : at # o + x
    <3>1. j = i => at = o
      BY DEF at
    <3> HIDE DEF o, n
    <3> QED BY ONLY <1>4, <2>2, <2>4, <3>1
  <2>6. o \in Offsets /\ \A x \in 1..n : o + x \in Offsets
    <3> HIDE DEF o, n
    <3> QED BY ONLY <1>2, <2>2 DEF Offsets
  <2>7. \A x \in 1..n : r[o+x] = m[o+x]
    BY <1>7, <2>5, <2>6
  <2>8. r[o] = IF t[j].deleted THEN 1 ELSE 0
    <3>1. CASE j = i
      BY <1>7, <2>1, <3>1 DEF at
    <3>2. CASE j # i
      BY <1>7, <2>1, <2>3, <2>5, <2>6, <3>2 DEF SlotHolds
    <3> QED BY <3>1, <3>2
  <2>9. \A x \in 1..n : r[o+x] = s[j].rec[x]
    BY <2>3, <2>7 DEF SlotHolds
  <2> QED BY <2>1, <2>8, <2>9 DEF SlotHolds
<1> QED BY <1>7, <1>9, <1>10, <1>11, <1>12 DEF Holds, RecordsHold, t

-----------------------------------------------------------------------------
\* The calls.

\* What a RecordPage object of the page reads in its constructor.
LEMMA ObjectIs ==
  ASSUME PageInv, NEW m, m = Prepared(mem)
  PROVE  /\ Holds(m, recs) /\ WordAt(m, 1) = FreeEnd(recs)
         /\ Loaded(m).start = Len(recs) /\ Loaded(m).end = FreeEnd(recs)
         /\ Loaded(m).idx = Starts /\ Len(Starts) = Len(recs)
         /\ \A k \in 1..Len(recs) : Starts[k] = recs[k].start
<1>1. Holds(mem, recs)
  BY DEF PageInv
<1>2. Holds(m, recs) /\ WordAt(m, 1) = FreeEnd(recs)
  BY ONLY <1>1, m = Prepared(mem), PreparedIs
<1>3. Loaded(m).start = Len(recs) /\ Loaded(m).end = WordAt(m, 1) /\ Loaded(m).idx = Starts
  BY ONLY <1>2, LoadedIs DEF Starts
<1>4. DOMAIN recs = 1..Len(recs) /\ Len(recs) \in Nat
  BY <1>1 DEF Holds, WellPlaced, Slots
<1>5. Len(Starts) = Len(recs) /\ \A k \in 1..Len(recs) : Starts[k] = recs[k].start
  <2>1. Starts = [k \in 1..Len(recs) |-> recs[k].start]
    BY <1>4 DEF Starts
  <2> QED BY <1>4, <2>1
<1> QED BY <1>2, <1>3, <1>5

LEMMA ViewStays ==
  ASSUME NEW v, NEW s, NEW t, ViewHolds(v, s), Len(s) \in Nat, Len(t) \in Nat,
         Len(s) <= Len(t), \A k \in 1..Len(s) : t[k].start = s[k].start
  PROVE  ViewHolds(v, t)
<1>1. CASE v = NoView
  BY <1>1 DEF ViewHolds
<1>2. CASE v # NoView
  <2>1. v \in Seq(Nat) /\ Len(v) \in Nat /\ Len(v) <= Len(s)
        /\ \A k \in 1..Len(v) : v[k] = s[k].start
    BY <1>2 DEF ViewHolds
  <2>2. Len(v) <= Len(t) /\ \A k \in 1..Len(v) : k \in 1..Len(s)
    BY <2>1
  <2> QED BY <2>1, <2>2 DEF ViewHolds
<1> QED BY <1>1, <1>2

LEMMA InitGood == Init => PageInv
<1> SUFFICES ASSUME Init PROVE PageInv
  OBVIOUS
<1>1. mem = [j \in Offsets |-> 0] /\ view = NoView /\ recs = <<>>
  BY DEF Init
<1>2. Len(<<>>) = 0 /\ FreeEnd(<<>>) = PageSize
  BY DEF FreeEnd
<1>3. WellPlaced(<<>>)
  <2>1. <<>> \in Slots(Seq(Cells))
    BY DEF Slots
  <2> QED BY <1>2, <2>1 DEF WellPlaced, LayoutOK, Packed
<1>4. mem \in Mem /\ \A j \in Offsets : mem[j] = 0
  <2>1. 0 \in Cells
    BY SizesAre DEF Cells
  <2> QED BY <1>1, <2>1 DEF Mem
<1>5. WordAt(mem, 0) = 0 /\ WordAt(mem, 1) = 0 /\ WordAt(mem, 2) = 0
  <2>1. HasWord(0) /\ HasWord(1) /\ HasWord(2)
    BY <1>2, <1>3, IndexWords
  <2> QED BY <1>4, <2>1, ZeroWord
<1>6. Holds(mem, recs)
  <2>1. HeadHolds(mem, <<>>)
    BY <1>2, <1>5 DEF HeadHolds
  <2>2. IndexHolds(mem, <<>>) /\ RecordsHold(mem, <<>>)
    BY <1>2 DEF IndexHolds, RecordsHold
  <2> QED BY <1>1, <1>3, <1>4, <2>1, <2>2 DEF Holds
<1> QED BY <1>1, <1>6 DEF PageInv, ViewHolds

\* An accepted record had room, by enough() of the slots.
LEMMA FitsHadRoom ==
  ASSUME PageInv, NEW b \in Records
  PROVE  /\ InsertFits(b) => Enough(recs, Len(b)) /\ recs' = AddRecord(recs, b, Len(b))
         /\ InsertRefused(b) => ~Enough(recs, Len(b))
<1> DEFINE m == Prepared(mem)
<1>1. Len(b) \in Nat
  BY BytesAssumption
<1>2. Holds(m, recs) /\ WordAt(m, 1) = FreeEnd(recs)
  BY ObjectIs
<1> HIDE DEF m
<1>3. HasRoom(Loaded(m), Len(b)) <=> Enough(recs, Len(b))
  BY ONLY <1>1, <1>2, HasRoomIs
<1>4. InsertFits(b) => HasRoom(Loaded(m), Len(b)) /\ recs' = AddRecord(recs, b, Len(b))
  BY DEF InsertFits, m
<1>5. InsertRefused(b) => ~HasRoom(Loaded(m), Len(b))
  BY DEF InsertRefused, m
<1> QED BY <1>3, <1>4, <1>5

LEMMA InsertFitsGood ==
  ASSUME PageInv, NEW b \in Records, NoWrap(Len(b)), InsertFits(b)
  PROVE  PageInv'
<1> DEFINE m == Prepared(mem)
           n == Len(b)
           at == RecordStart(recs, n)
           t == AddRecord(recs, b, n)
<1>1. b \in Seq(Cells) /\ n \in Nat
  BY BytesAssumption DEF Cells
<1>2. Enough(recs, n) /\ recs' = t
  BY FitsHadRoom
<1>3. /\ Holds(m, recs) /\ Loaded(m).start = Len(recs) /\ Loaded(m).end = FreeEnd(recs)
      /\ Len(Loaded(m).idx) = Len(recs)
  BY ObjectIs
<1>4. mem' = WriteHead(PutBytes(m, at, <<0>> \o b), Len(recs) + 1, at, Len(recs), at)
  <2> DEFINE p == Loaded(m)
             o == (p.end - Len(b) - 1) % SizeModulus
  <2>1. mem' = WriteHead(PutBytes(m, o, <<0>> \o b), p.start + 1, o, Len(p.idx), o)
    BY DEF InsertFits
  <2>2. o = at
    BY <1>3 DEF RecordStart
  <2> QED BY <1>3, <2>1, <2>2
<1> HIDE DEF m, n, at, t
<1>5. Holds(mem', t)
  <2>1. n = Len(b) /\ at = RecordStart(recs, n) /\ n + 1 <= FreeEnd(recs)
    BY DEF n, at, NoWrap
  <2> QED BY ONLY <1>1, <1>2, <1>3, <1>4, <2>1, InsertHolds DEF t, LiveMark
<1>6. ViewHolds(view', t)
  <2>1. WellPlaced(recs) /\ ViewHolds(view, recs)
    BY DEF PageInv, Holds
  <2>2. Added(t, recs, b, at)
    BY ONLY <1>1, <2>1, AddedSlots DEF t, at
  <2>3. Len(recs) \in Nat
    BY <2>1, FreeSpace
  <2>4. view' = view
    BY DEF InsertFits
  <2>5. Len(t) \in Nat /\ Len(recs) <= Len(t) /\ \A k \in 1..Len(recs) : t[k].start = recs[k].start
    BY <2>2, <2>3 DEF Added
  <2>6. ViewHolds(view, t)
    BY ONLY <2>1, <2>3, <2>5, ViewStays
  <2> QED BY <2>4, <2>6
<1> QED BY <1>2, <1>5, <1>6 DEF PageInv

LEMMA InsertRefusedGood ==
  ASSUME PageInv, NEW b, InsertRefused(b) PROVE PageInv'
<1>1. Holds(Prepared(mem), recs)
  BY ObjectIs
<1>2. mem' = Prepared(mem) /\ view' = view /\ recs' = recs
  BY DEF InsertRefused
<1> QED BY <1>1, <1>2 DEF PageInv

LEMMA RemoveSlotGood ==
  ASSUME PageInv, NEW k \in 0..Len(recs), RemoveSlot(k) PROVE PageInv' /\ Len(recs') = Len(recs)
<1> DEFINE m == Prepared(mem)
           idx == Loaded(m).idx
<1>1. /\ Holds(m, recs) /\ Len(idx) = Len(recs)
      /\ \A i \in 1..Len(recs) : idx[i] = recs[i].start
  BY ObjectIs
<1>2. WellPlaced(recs) /\ ViewHolds(view, recs) /\ Len(recs) \in Nat /\ k \in Nat
  BY FreeSpace DEF PageInv, Holds
<1>3. /\ mem' = IF k < Len(idx) THEN PutBytes(m, idx[k+1], <<1>>) ELSE m
      /\ recs' = MarkDeleted(recs, k) /\ view' = view
  BY DEF RemoveSlot
<1> HIDE DEF m, idx
<1>4. CASE k < Len(recs)
  <2>1. k + 1 \in 1..Len(recs)
    BY <1>2, <1>4
  <2>2. mem' = PutBytes(m, recs[k+1].start, <<1>>)
    BY <1>1, <1>3, <1>4, <2>1
  <2>3. Holds(mem', recs')
    BY ONLY <1>1, <1>2, <1>3, <1>4, <2>2, RemoveHolds DEF DeadMark
  <2>4. Marked(recs', recs, k + 1)
    BY ONLY <1>2, <1>3, <1>4, MarkedSlots
  <2>5. Len(recs') = Len(recs) /\ Len(recs) <= Len(recs') /\ Len(recs') \in Nat
        /\ \A i \in 1..Len(recs) : recs'[i].start = recs[i].start
    BY ONLY <1>2, <2>4 DEF Marked
  <2>6. ViewHolds(view, recs')
    BY ONLY <1>2, <2>5, ViewStays
  <2> QED BY <1>3, <2>3, <2>5, <2>6 DEF PageInv
<1>5. CASE ~(k < Len(recs))
  <2>1. mem' = m /\ recs' = recs
    BY <1>1, <1>3, <1>5 DEF MarkDeleted
  <2> QED BY <1>1, <1>2, <1>3, <2>1 DEF PageInv
<1> QED BY <1>4, <1>5

LEMMA LoadViewGood ==
  ASSUME PageInv, LoadView PROVE PageInv'
<1>1. /\ Holds(Prepared(mem), recs) /\ Loaded(Prepared(mem)).idx = Starts
      /\ Len(Starts) = Len(recs) /\ \A k \in 1..Len(recs) : Starts[k] = recs[k].start
  BY ObjectIs
<1>2. mem' = Prepared(mem) /\ view' = Starts /\ recs' = recs
  BY <1>1 DEF LoadView
<1>3. WellPlaced(recs) /\ Len(recs) \in Nat
  BY FreeSpace DEF PageInv, Holds
<1>4. Starts \in Seq(Nat)
  <2>1. Starts = [k \in 1..Len(recs) |-> recs[k].start]
    BY <1>3 DEF Starts, WellPlaced, Slots
  <2>2. \A k \in 1..Len(recs) : recs[k].start \in Nat
    BY <1>3, PlaceOf, SizesAre
  <2> QED BY <1>3, <2>1, <2>2
<1>5. ViewHolds(Starts, recs)
  BY ONLY <1>1, <1>3, <1>4 DEF ViewHolds
<1> QED BY <1>1, <1>2, <1>5 DEF PageInv

LEMMA DropViewGood ==
  ASSUME PageInv, DropView PROVE PageInv'
  BY DEF PageInv, DropView, ViewHolds

-----------------------------------------------------------------------------
\* The theorems.

LEMMA PageInvStays == PageInv /\ [Next]_vars => PageInv'
<1> SUFFICES ASSUME PageInv, [Next]_vars PROVE PageInv'
  OBVIOUS
<1>1. ASSUME NEW b \in Records, NoWrap(Len(b)), InsertFits(b) PROVE PageInv'
  BY <1>1, InsertFitsGood
<1>2. ASSUME NEW b \in Records, InsertRefused(b) PROVE PageInv'
  BY <1>2, InsertRefusedGood
<1>3. ASSUME NEW k \in 0..Len(recs), RemoveSlot(k) PROVE PageInv'
  BY <1>3, RemoveSlotGood
<1>4. CASE LoadView
  BY <1>4, LoadViewGood
<1>5. CASE DropView
  BY <1>5, DropViewGood
<1>6. CASE UNCHANGED vars
  BY <1>6 DEF vars, PageInv
<1> QED BY <1>1, <1>2, <1>3, <1>4, <1>5, <1>6 DEF Next, OtherSteps, Insert

\* The bytes of the page always hold the slots that the calls made.
THEOREM PageIsGood == Spec => []PageInv
<1>1. Init => PageInv
  BY InitGood
<1>2. PageInv /\ [Next]_vars => PageInv'
  BY PageInvStays
<1> QED BY <1>1, <1>2, PTL DEF Spec

\* A fresh object reads from the page the count, the end of the free space and
\* the index that the calls so far should have left there.
THEOREM HeadAlwaysReadsBack == Spec => []HeadReadsBack
<1>1. PageInv => HeadReadsBack
  BY ObjectIs DEF HeadReadsBack
<1> QED BY <1>1, PageIsGood, PTL

\* The index and the records never meet (the assert of record.hpp:84).
THEOREM IndexAlwaysClear == Spec => []IndexStaysClear
<1>1. PageInv => IndexStaysClear
  BY DEF PageInv, Holds, WellPlaced, IndexStaysClear
<1> QED BY <1>1, PageIsGood, PTL

\* Every record reads as it was inserted, through the index of the page and
\* through the one that a scanner read before later inserts.
THEOREM RecordsAlwaysReadBack == Spec => []RecordsReadBack
<1>1. ASSUME PageInv PROVE RecordsReadBack
  <2> SUFFICES ASSUME NEW idx \in {Starts} \cup ({view} \ {NoView}), NEW k \in 0..Len(idx)-1
               PROVE  /\ Deleted(mem, idx, k) = recs[k+1].deleted
                      /\ GetRecord(mem, idx, k) = recs[k+1].rec
    BY DEF RecordsReadBack
  <2>1. Holds(mem, recs) /\ Len(recs) \in Nat
    BY <1>1, FreeSpace DEF PageInv, Holds
  <2>2. Len(idx) \in Nat /\ Len(idx) <= Len(recs) /\ \A i \in 1..Len(idx) : idx[i] = recs[i].start
    <3>1. CASE idx = Starts
      <4>1. Len(Starts) = Len(recs) /\ \A i \in 1..Len(recs) : Starts[i] = recs[i].start
        BY <1>1, ObjectIs
      <4> QED BY <2>1, <3>1, <4>1
    <3>2. CASE idx = view /\ view # NoView
      BY <1>1, <3>2 DEF PageInv, ViewHolds
    <3> QED BY <3>1, <3>2
  <2>3. k \in 0..Len(recs)-1 /\ \A i \in 1..k+1 : i \in 1..Len(idx)
    BY <2>1, <2>2
  <2>4. \A i \in 1..k+1 : idx[i] = recs[i].start
    BY <2>2, <2>3
  <2>5. ReadsAs(mem, idx, k, recs[k+1])
    BY ONLY <2>1, <2>3, <2>4, RecordIs
  <2> QED BY <2>5 DEF ReadsAs
<1> QED BY <1>1, PageIsGood, PTL

\* Of records for which enough() does not wrap (record.hpp:105): one that insert
\* accepts has room below the records and above the index with its new entry,
\* and one that it refuses is one enough() refuses.
THEOREM AcceptedHadRoom == Spec => EnoughMeansRoom
<1> DEFINE RoomFor(b) ==
       /\ InsertFits(b) => /\ Enough(recs, Len(b))
                           /\ IndexEnd(Len(recs) + 1) + Len(b) + 1 <= FreeEnd(recs)
       /\ InsertRefused(b) => ~Enough(recs, Len(b))
<1>1. ASSUME PageInv, [Next]_vars PROVE \A b \in Records : RoomFor(b)
  <2> SUFFICES ASSUME NEW b \in Records PROVE RoomFor(b)
    OBVIOUS
  <2>1. WellPlaced(recs) /\ Len(recs) \in Nat
    BY <1>1, FreeSpace DEF PageInv, Holds
  <2>2. ASSUME InsertFits(b)
        PROVE  IndexEnd(Len(recs) + 1) + Len(b) + 1 <= FreeEnd(recs)
    <3>1. Enough(recs, Len(b)) /\ recs' = AddRecord(recs, b, Len(b))
      BY <1>1, <2>2, FitsHadRoom
    <3>2. b \in Seq(Cells) /\ Len(b) \in Nat
      BY BytesAssumption DEF Cells
    <3>3. Added(recs', recs, b, RecordStart(recs, Len(b)))
      BY ONLY <2>1, <3>1, <3>2, AddedSlots
    <3>4. Len(recs') = Len(recs) + 1 /\ recs'[Len(recs)+1].rec = b
      BY ONLY <3>3 DEF Added
    <3>5. Len(recs') # Len(recs)
      BY <2>1, <3>4
    <3>6. PICK c \in Records : NoWrap(Len(c)) /\ Insert(c)
      <4>1. \A k \in 0..Len(recs) : ~RemoveSlot(k)
        BY <1>1, <3>5, RemoveSlotGood
      <4>2. ~LoadView /\ ~DropView /\ ~UNCHANGED vars
        BY <3>5 DEF LoadView, DropView, vars
      <4> QED BY <1>1, <4>1, <4>2 DEF Next, OtherSteps
    <3>7. InsertFits(c)
      BY <3>5, <3>6 DEF Insert, InsertRefused
    <3>8. recs' = AddRecord(recs, c, Len(c))
      BY <1>1, <3>7, FitsHadRoom
    <3>9. c \in Seq(Cells) /\ Len(c) \in Nat
      BY BytesAssumption DEF Cells
    <3>10. Added(recs', recs, c, RecordStart(recs, Len(c)))
      BY ONLY <2>1, <3>8, <3>9, AddedSlots
    <3>11. b = c
      BY ONLY <3>4, <3>10 DEF Added
    <3>12. Len(b) + 1 <= FreeEnd(recs)
      BY <3>6, <3>11 DEF NoWrap
    <3> QED BY ONLY <2>1, <3>1, <3>2, <3>12, PlaceOfNew
  <2> QED BY <1>1, <2>2, FitsHadRoom
<1>2. PageInv /\ [Next]_vars => [\A b \in Records : RoomFor(b)]_vars
  BY <1>1
<1>3. EnoughMeansRoom <=> [][\A b \in Records : RoomFor(b)]_vars
  BY PTL DEF EnoughMeansRoom
<1> HIDE DEF RoomFor
<1> QED BY <1>2, <1>3, PageIsGood, PTL DEF Spec
=============================================================================
