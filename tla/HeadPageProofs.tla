--------------------------- MODULE HeadPageProofs ---------------------------
(***************************************************************************)
(* The bytes of bitmap_ and of page 0 follow the sets of bits that PoolOps *)
(* has for them, for any sizes of byte, page and pool: first what each     *)
(* operation on bytes does to the bits, then the calls.                    *)
(***************************************************************************)
EXTENDS HeadPage, PoolProofs

LEMMA SizesAre ==
  /\ BitsPerByte \in Nat \ {0} /\ AreaBytes \in Nat /\ LastPid \in Nat
  /\ LastPid + 1 = AreaBytes * BitsPerByte
<1>1. BitsPerByte \in Nat \ {0} /\ AreaBytes \in Nat /\ LastPid \in Nat
  BY PoolAssumption, AreaAssumption
<1> DEFINE m == AreaBytes * BitsPerByte
<1>2. LastPid = m - 1 /\ m \in Int
  BY <1>1, AreaAssumption
<1> HIDE DEF m
<1>3. LastPid + 1 = m
  BY <1>2
<1> QED BY <1>1, <1>3 DEF m

\* The byte that holds bit i, and where in it the bit is.
LEMMA BitPlace ==
  ASSUME NEW i \in Nat
  PROVE  /\ i \div BitsPerByte \in Nat /\ i % BitsPerByte \in 0..BitsPerByte-1
         /\ i = (i \div BitsPerByte) * BitsPerByte + (i % BitsPerByte)
         /\ \A n \in Nat : i < n * BitsPerByte <=> i \div BitsPerByte < n
<1>1. BitsPerByte \in Nat \ {0}
  BY SizesAre
<1> DEFINE q == i \div BitsPerByte
           o == i % BitsPerByte
<1>2. q \in Nat /\ o \in 0..BitsPerByte-1 /\ i = q * BitsPerByte + o
  BY <1>1
<1> HIDE DEF q, o
<1>3. ASSUME NEW n \in Nat PROVE i < n * BitsPerByte <=> q < n
  <2> DEFINE a == q * BitsPerByte
             b == n * BitsPerByte
  <2>1. a \in Nat /\ b \in Nat /\ i = a + o
    BY <1>1, <1>2
  <2>2. CASE q < n
    <3>1. b = a + (n - q) * BitsPerByte
      BY <1>1, <1>2, Z3
    <3>2. (n - q) * BitsPerByte >= BitsPerByte
      BY <1>1, <1>2, <2>2, Z3
    <3> DEFINE c == (n - q) * BitsPerByte
    <3>3. c \in Int
      BY <1>1, <1>2
    <3> HIDE DEF a, b, c
    <3> QED BY <1>1, <1>2, <2>1, <2>2, <3>1, <3>2, <3>3 DEF c, b
  <2>3. CASE ~(q < n)
    <3>1. a = b + (q - n) * BitsPerByte
      BY <1>1, <1>2, Z3
    <3>2. (q - n) * BitsPerByte >= 0
      BY <1>1, <1>2, <2>3, Z3
    <3> DEFINE c == (q - n) * BitsPerByte
    <3>3. c \in Int
      BY <1>1, <1>2
    <3> HIDE DEF a, b, c
    <3> QED BY <1>1, <1>2, <2>1, <2>3, <3>1, <3>2, <3>3 DEF c, b
  <2> QED BY <2>2, <2>3
<1> QED BY <1>2, <1>3 DEF q, o

LEMMA BitsApart ==
  ASSUME NEW i \in Nat, NEW j \in Nat,
         i \div BitsPerByte = j \div BitsPerByte, i % BitsPerByte = j % BitsPerByte
  PROVE  i = j
  BY BitPlace

\* The bits of bitmaps and of areas that have the same byte for it.
LEMMA SizeIs ==
  ASSUME NEW bitmap \in Seq(Byte)
  PROVE  /\ Len(bitmap) \in Nat /\ Size(bitmap) \in Nat
         /\ \A i \in Nat : i < Size(bitmap) <=> i \div BitsPerByte + 1 \in 1..Len(bitmap)
<1>1. Len(bitmap) \in Nat
  OBVIOUS
<1>2. Size(bitmap) \in Nat
  BY <1>1, SizesAre DEF Size
<1>3. ASSUME NEW i \in Nat
      PROVE  i < Size(bitmap) <=> i \div BitsPerByte + 1 \in 1..Len(bitmap)
  <2>1. i \div BitsPerByte \in Nat
    BY BitPlace
  <2>2. i < Size(bitmap) <=> i \div BitsPerByte < Len(bitmap)
    BY <1>1, BitPlace DEF Size
  <2> QED BY <1>1, <2>1, <2>2
<1> QED BY <1>1, <1>2, <1>3

LEMMA OnesAre ==
  ASSUME NEW bitmap \in Seq(Byte)
  PROVE  /\ Ones(bitmap) \subseteq Nat
         /\ \A i \in Nat : i \in Ones(bitmap) <=> i < Size(bitmap) /\ GetBit(bitmap, i)
  BY SizeIs DEF Ones
\* Two bitmaps that agree on bit i's byte agree on bit i.
LEMMA SameByte ==
  ASSUME NEW a, NEW b, NEW i \in Nat,
         a[i \div BitsPerByte + 1] = b[i \div BitsPerByte + 1]
  PROVE  GetBit(a, i) = GetBit(b, i)
  BY DEF GetBit

\* set() of one bit leaves the others.
LEMMA SetBitIs ==
  ASSUME NEW bitmap \in Seq(Byte), NEW i \in Nat, i < Size(bitmap), NEW one \in BOOLEAN
  PROVE  LET r == SetBit(bitmap, i, one)
         IN  /\ r \in Seq(Byte) /\ Len(r) = Len(bitmap)
             /\ Ones(r) = IF one THEN Ones(bitmap) \cup {i} ELSE Ones(bitmap) \ {i}
<1> DEFINE k == i \div BitsPerByte + 1
           o == i % BitsPerByte
           v == IF one THEN bitmap[k] \cup {o} ELSE bitmap[k] \ {o}
           r == SetBit(bitmap, i, one)
<1>1. k \in 1..Len(bitmap) /\ o \in 0..BitsPerByte-1
  BY SizeIs, BitPlace
<1>2. bitmap[k] \in Byte
  BY <1>1
<1>3. v \in Byte
  BY <1>1, <1>2 DEF Byte
<1>4. r = [bitmap EXCEPT ![k] = v]
  BY DEF SetBit
<1> HIDE DEF k, v, r
<1>5. /\ r \in Seq(Byte) /\ Len(r) = Len(bitmap) /\ r[k] = v
      /\ \A j \in 1..Len(bitmap) : j # k => r[j] = bitmap[j]
  BY <1>1, <1>3, <1>4
<1>6. Size(r) = Size(bitmap)
  BY <1>5 DEF Size
<1>7. ASSUME NEW j \in Nat, j < Size(bitmap)
      PROVE  GetBit(r, j) <=> IF j = i THEN one ELSE GetBit(bitmap, j)
  <2>1. j \div BitsPerByte + 1 \in 1..Len(bitmap)
    BY <1>7, SizeIs
  <2>2. CASE j \div BitsPerByte + 1 # k
    <3>1. r[j \div BitsPerByte + 1] = bitmap[j \div BitsPerByte + 1]
      BY <1>5, <2>1, <2>2
    <3>2. j # i
      BY <2>2 DEF k
    <3> QED BY <3>1, <3>2, SameByte
  <2>3. CASE j \div BitsPerByte + 1 = k /\ j # i
    <3>1. i \div BitsPerByte \in Nat /\ j \div BitsPerByte \in Nat
      BY BitPlace
    <3>2. j % BitsPerByte # o
      BY <2>3, <3>1, BitsApart DEF k
    <3> QED BY <1>5, <2>3, <3>2 DEF GetBit, v
  <2>4. CASE j = i
    BY <1>5, <2>4 DEF GetBit, v, k
  <2> QED BY <2>2, <2>3, <2>4
<1>8. \A j \in Nat : j \in Ones(r) <=> IF j = i THEN one ELSE j \in Ones(bitmap)
  BY <1>5, <1>6, <1>7, OnesAre
<1>9. Ones(r) \subseteq Nat /\ Ones(bitmap) \subseteq Nat
  BY <1>5, OnesAre
<1> QED BY <1>5, <1>8, <1>9 DEF r

\* The bytes that new_page pushes have no ones.
LEMMA GrownIs ==
  ASSUME NEW bitmap \in Seq(Byte), NEW p \in Nat
  PROVE  LET r == Grown(bitmap, p)
         IN  /\ r \in Seq(Byte) /\ Ones(r) = Ones(bitmap) /\ p < Size(r)
             /\ Len(r) = IF p < Len(bitmap) * BitsPerByte THEN Len(bitmap)
                         ELSE p \div BitsPerByte + 1
<1> DEFINE l == Len(bitmap)
           q == p \div BitsPerByte
           n == IF q < l THEN 0 ELSE q + 1 - l
           z == [k \in 1..(q + 1 - l) |-> ZeroByte]
           r == Grown(bitmap, p)
<1>1. l \in Nat /\ q \in Nat /\ n \in Nat
  <2>1. l \in Nat
    OBVIOUS
  <2>2. q \in Nat
    BY BitPlace
  <2> HIDE DEF l, q
  <2> QED BY <2>1, <2>2
<1>2. p < l * BitsPerByte <=> q < l
  BY BitPlace
<1>3. 1..(q + 1 - l) = 1..n
  BY <1>1
<1>4. z = [k \in 1..n |-> ZeroByte]
  BY <1>3
<1>5. z \in Seq(Byte) /\ Len(z) = n /\ \A k \in 1..n : z[k] = ZeroByte
  <2>1. z \in [1..n -> Byte]
    BY <1>4 DEF ZeroByte, Byte
  <2>2. z \in Seq(Byte)
    BY <1>1, <2>1
  <2>3. DOMAIN z = 1..n
    BY <2>1
  <2> HIDE DEF z, n
  <2>4. Len(z) = n
    <3>1. Len(z) \in Nat /\ DOMAIN z = 1..Len(z)
      BY <2>2, LenProperties
    <3> QED BY <1>1, <2>3, <3>1
  <2> USE DEF z, n
  <2> QED BY <1>4, <2>2, <2>4
<1>6. r = bitmap \o z
  BY DEF Grown
<1> HIDE DEF z, r, n, q, l
<1>7. /\ r \in Seq(Byte) /\ Len(r) = l + n
      /\ \A k \in 1..l : r[k] = bitmap[k]
      /\ \A k \in l+1..l+n : r[k] = ZeroByte
  <2>1. r \in Seq(Byte) /\ Len(r) = Len(bitmap) + Len(z)
        /\ \A k \in 1..Len(bitmap) + Len(z) :
             r[k] = IF k <= Len(bitmap) THEN bitmap[k] ELSE z[k - Len(bitmap)]
    BY <1>5, <1>6, ConcatProperties
  <2>2. \A k \in 1..l : r[k] = bitmap[k]
    BY <1>1, <1>5, <2>1 DEF l
  <2>3. ASSUME NEW k \in l+1..l+n PROVE r[k] = ZeroByte
    <3>1. k \in 1..l+n /\ ~(k <= l) /\ k - l \in 1..n
      BY <1>1
    <3> QED BY <1>5, <2>1, <3>1 DEF l
  <2> QED BY <1>5, <2>1, <2>2, <2>3 DEF l
<1>8. Len(r) = IF q < l THEN l ELSE q + 1
  BY <1>1, <1>7 DEF n
<1>9. p < Size(r)
  <2>1. q + 1 \in 1..Len(r)
    BY <1>1, <1>8
  <2> QED BY <1>7, <2>1, SizeIs DEF q
<1>10. ASSUME NEW j \in Nat PROVE j \in Ones(r) <=> j \in Ones(bitmap)
  <2> DEFINE k == j \div BitsPerByte + 1
  <2>1. j < Size(r) <=> k \in 1..Len(r)
    BY <1>7, SizeIs
  <2>2. j < Size(bitmap) <=> k \in 1..l
    BY SizeIs DEF l
  <2>3. CASE k \in 1..l
    <3>1. r[k] = bitmap[k] /\ k \in 1..Len(r)
      BY <1>1, <1>7, <2>3
    <3>2. GetBit(r, j) = GetBit(bitmap, j)
      BY <3>1, SameByte
    <3> QED BY <1>7, <2>1, <2>2, <2>3, <3>1, <3>2, OnesAre
  <2>4. CASE k \notin 1..l /\ k \in 1..Len(r)
    <3>1. k \in l+1..l+n
      BY <1>1, <1>7, <2>4
    <3>2. ~GetBit(r, j)
      BY <1>7, <3>1 DEF GetBit, ZeroByte
    <3> QED BY <1>7, <2>2, <2>4, <3>2, OnesAre
  <2>5. CASE k \notin 1..l /\ k \notin 1..Len(r)
    BY <1>7, <2>1, <2>2, <2>5, OnesAre
  <2> QED BY <2>3, <2>4, <2>5
<1>11. Ones(r) \subseteq Nat /\ Ones(bitmap) \subseteq Nat
  BY <1>7, OnesAre
<1>12. Ones(r) = Ones(bitmap)
  BY <1>10, <1>11
<1> QED BY <1>2, <1>7, <1>8, <1>9, <1>12 DEF r, q, l
-----------------------------------------------------------------------------
(* Page 0 and what is read of it.                                            *)
Area == [1..AreaBytes -> Byte]

LEMMA AreaFacts ==
  ASSUME NEW area \in Area
  PROVE  area \in Seq(Byte) /\ Len(area) = AreaBytes /\ Size(area) = LastPid + 1
<1>1. AreaBytes \in Nat
  BY SizesAre
<1>2. area \in Seq(Byte)
  BY <1>1 DEF Area
<1>3. DOMAIN area = 1..AreaBytes
  BY DEF Area
<1>4. Len(area) = AreaBytes
  <2>1. Len(area) \in Nat /\ DOMAIN area = 1..Len(area)
    BY <1>2, LenProperties
  <2> QED BY <1>1, <1>3, <2>1
<1> QED BY <1>2, <1>4, SizesAre DEF Size

LEMMA AreaBits ==
  ASSUME NEW area \in Area
  PROVE  Ones(area) \subseteq PageIds
<1>1. area \in Seq(Byte) /\ Size(area) = LastPid + 1
  BY AreaFacts
<1>2. LastPid \in Nat
  BY SizesAre
<1> QED BY <1>1, <1>2 DEF Ones, PageIds

\* write2page: bitmap_ over the start of the area, the rest as it was.
LEMMA WrittenIs ==
  ASSUME NEW o, o.bitmap \in Seq(Byte), Len(o.bitmap) <= AreaBytes, NEW c, c.area \in Area
  PROVE  LET r == Written(o, c)
         IN  /\ r.area \in Area /\ r.pageNum = o.pageNum /\ r.phyNum = o.phyNum
             /\ Ones(r.area) = Ones(o.bitmap)
                               \cup {i \in Ones(c.area) : i >= Len(o.bitmap) * BitsPerByte}
<1> DEFINE b == o.bitmap
           a == c.area
           z == [k \in 1..AreaBytes |-> IF k <= Len(b) THEN b[k] ELSE a[k]]
           n == Len(b) * BitsPerByte
<1>1. DOMAIN a = 1..AreaBytes
  BY DEF Area
<1>2. /\ Written(o, c).area = z
      /\ Written(o, c).pageNum = o.pageNum /\ Written(o, c).phyNum = o.phyNum
  BY <1>1 DEF Written
<1>3. Len(b) \in Nat /\ AreaBytes \in Nat /\ n \in Nat /\ n = Size(b)
  <2>1. Len(b) \in Nat
    OBVIOUS
  <2> QED BY <2>1, SizesAre DEF Size
<1>4. z \in Area
  <2>1. ASSUME NEW k \in 1..AreaBytes PROVE (IF k <= Len(b) THEN b[k] ELSE a[k]) \in Byte
    <3>1. CASE k <= Len(b)
      <4>1. k \in 1..Len(b)
        BY <1>3, <3>1
      <4> QED BY <3>1, <4>1
    <3>2. CASE ~(k <= Len(b))
      BY <3>2 DEF Area
    <3> QED BY <3>1, <3>2
  <2> QED BY <2>1 DEF Area
<1>5. /\ \A k \in 1..Len(b) : k \in 1..AreaBytes /\ z[k] = b[k]
      /\ \A k \in 1..AreaBytes : k \notin 1..Len(b) => z[k] = a[k]
  BY <1>3
<1>6. /\ z \in Seq(Byte) /\ Len(z) = AreaBytes /\ Size(z) = LastPid + 1
      /\ a \in Seq(Byte) /\ Len(a) = AreaBytes /\ Size(a) = LastPid + 1
  BY <1>4, AreaFacts
<1> HIDE DEF z, a, b, n
<1>7. ASSUME NEW j \in Nat
      PROVE  j \in Ones(z) <=> j \in Ones(b) \/ (j \in Ones(a) /\ j >= n)
  <2> DEFINE k == j \div BitsPerByte + 1
  <2>1. /\ j < Size(z) <=> k \in 1..AreaBytes
        /\ j < Size(a) <=> k \in 1..AreaBytes
        /\ j < n <=> k \in 1..Len(b)
    BY <1>3, <1>6, SizeIs DEF b
  <2>2. /\ j \in Ones(z) <=> j < Size(z) /\ GetBit(z, j)
        /\ j \in Ones(a) <=> j < Size(a) /\ GetBit(a, j)
        /\ j \in Ones(b) <=> j < n /\ GetBit(b, j)
    BY <1>3, <1>6, OnesAre DEF b
  <2>3. CASE k \in 1..Len(b)
    <3>1. GetBit(z, j) = GetBit(b, j)
      BY <1>5, <2>3, SameByte
    <3>2. k \in 1..AreaBytes
      BY <1>5, <2>3
    <3>3. ~(j >= n)
      BY <1>3, <2>1, <2>3
    <3> HIDE DEF k
    <3> QED BY <2>1, <2>2, <2>3, <3>1, <3>2, <3>3
  <2>4. CASE k \notin 1..Len(b) /\ k \in 1..AreaBytes
    <3>1. GetBit(z, j) = GetBit(a, j)
      BY <1>5, <2>4, SameByte
    <3>2. j >= n
      BY <1>3, <2>1, <2>4
    <3> HIDE DEF k
    <3> QED BY <2>1, <2>2, <2>4, <3>1, <3>2
  <2>5. CASE k \notin 1..Len(b) /\ k \notin 1..AreaBytes
    <3> HIDE DEF k
    <3> QED BY <2>1, <2>2, <2>5
  <2> QED BY <2>3, <2>4, <2>5
<1>8. Ones(z) \subseteq Nat /\ Ones(a) \subseteq Nat /\ Ones(b) \subseteq Nat
  BY <1>6, OnesAre DEF b
<1>9. Ones(z) = Ones(b) \cup {i \in Ones(a) : i >= n}
  BY <1>7, <1>8
<1> QED BY <1>2, <1>4, <1>9 DEF z, a, b, n

\* init: the first n bytes of the area.
LEMMA ReadIs ==
  ASSUME NEW area \in Area, NEW n \in 0..AreaBytes
  PROVE  LET r == SubSeq(area, 1, n)
         IN  /\ r \in Seq(Byte) /\ Len(r) = n
             /\ Ones(r) = {i \in Ones(area) : i < n * BitsPerByte}
<1> DEFINE r == SubSeq(area, 1, n)
           m == n * BitsPerByte
<1>1. area \in Seq(Byte) /\ Len(area) = AreaBytes /\ AreaBytes \in Nat
  BY AreaFacts, SizesAre
<1>2. n \in Nat /\ n <= AreaBytes /\ m \in Nat
  BY <1>1, SizesAre
<1>3. r \in Seq(Byte) /\ Len(r) = n /\ \A k \in 1..n : r[k] = area[k]
  BY <1>1, <1>2
<1> HIDE DEF r, m
<1>4. Size(r) = m
  BY <1>3 DEF Size, m
<1>5. ASSUME NEW j \in Nat PROVE j \in Ones(r) <=> j \in Ones(area) /\ j < m
  <2> DEFINE k == j \div BitsPerByte + 1
  <2>1. /\ j < m <=> k \in 1..n
        /\ j < Size(area) <=> k \in 1..AreaBytes
    BY <1>1, <1>3, <1>4, SizeIs
  <2>2. /\ j \in Ones(r) <=> j < m /\ GetBit(r, j)
        /\ j \in Ones(area) <=> j < Size(area) /\ GetBit(area, j)
    BY <1>1, <1>3, <1>4, OnesAre
  <2>3. CASE k \in 1..n
    <3>1. k \in 1..AreaBytes
      BY <1>1, <1>2, <2>3
    <3>2. GetBit(r, j) = GetBit(area, j)
      BY <1>3, <2>3, SameByte
    <3> HIDE DEF k
    <3> QED BY <2>1, <2>2, <2>3, <3>1, <3>2
  <2>4. CASE k \notin 1..n
    BY <2>1, <2>2, <2>4
  <2> QED BY <2>3, <2>4
<1>6. Ones(r) \subseteq Nat /\ Ones(area) \subseteq Nat
  BY <1>1, <1>3, OnesAre
<1>7. Ones(r) = {i \in Ones(area) : i < m}
  BY <1>5, <1>6
<1> QED BY <1>3, <1>7 DEF r, m
-----------------------------------------------------------------------------
(* The loops of first and first_after.                                       *)

\* x is the first bit from i on that is one, or NoBit.
IsFirst(bitmap, one, i, x) ==
  \/ x = NoBit /\ \A j \in i..Size(bitmap)-1 : GetBit(bitmap, j) # one
  \/ /\ x \in i..Size(bitmap)-1 /\ GetBit(bitmap, x) = one
     /\ \A j \in i..x-1 : GetBit(bitmap, j) # one

IsLoop(f, bitmap, one, start) ==
  f = [i \in start..Size(bitmap) |->
        IF i = Size(bitmap) THEN NoBit
        ELSE IF GetBit(bitmap, i) = one THEN i ELSE f[i + 1]]

LEMMA FirstExists ==
  ASSUME NEW bitmap, Size(bitmap) \in Nat, NEW one, NEW i \in Nat
  PROVE  \E x : IsFirst(bitmap, one, i, x)
<1> DEFINE T == {j \in i..Size(bitmap)-1 : GetBit(bitmap, j) = one}
<1>1. CASE T = {}
  <2>1. IsFirst(bitmap, one, i, NoBit)
    BY <1>1 DEF IsFirst
  <2> QED BY <2>1
<1>2. CASE T # {}
  <2>1. T \subseteq Nat
    OBVIOUS
  <2>2. PICK x \in T : \A j \in T : x <= j
    BY <1>2, <2>1, LeastNatural
  <2>3. ASSUME NEW j \in i..x-1 PROVE GetBit(bitmap, j) # one
    <3>1. j \in i..Size(bitmap)-1 /\ ~(x <= j)
      BY <2>1, <2>2
    <3> QED BY <2>2, <3>1
  <2>4. IsFirst(bitmap, one, i, x)
    BY <2>2, <2>3 DEF IsFirst
  <2> QED BY <2>4
<1> QED BY <1>1, <1>2

LEMMA FirstUnique ==
  ASSUME NEW bitmap, Size(bitmap) \in Nat, NEW one, NEW i \in Nat,
         NEW x, IsFirst(bitmap, one, i, x), NEW y, IsFirst(bitmap, one, i, y)
  PROVE  x = y
<1> DEFINE N == Size(bitmap)
<1>1. x = NoBit \/ x \in i..N-1
  BY DEF IsFirst
<1>2. y = NoBit \/ y \in i..N-1
  BY DEF IsFirst
<1>3. NoBit \notin i..N-1
  BY DEF NoBit
<1>4. CASE x = NoBit \/ y = NoBit
  BY <1>1, <1>2, <1>3, <1>4 DEF IsFirst
<1>5. CASE x \in i..N-1 /\ y \in i..N-1
  <2>1. /\ GetBit(bitmap, x) = one /\ GetBit(bitmap, y) = one
        /\ \A j \in i..x-1 : GetBit(bitmap, j) # one
        /\ \A j \in i..y-1 : GetBit(bitmap, j) # one
    BY <1>3, <1>5 DEF IsFirst
  <2>2. y \notin i..x-1 /\ x \notin i..y-1
    BY <2>1
  <2> QED BY <1>5, <2>2
<1> QED BY <1>1, <1>2, <1>4, <1>5

\* One turn of the loop.
LEMMA FirstTurn ==
  ASSUME NEW bitmap, Size(bitmap) \in Nat, NEW one, NEW i \in Nat
  PROVE  /\ IsFirst(bitmap, one, Size(bitmap), NoBit)
         /\ i < Size(bitmap) /\ GetBit(bitmap, i) = one => IsFirst(bitmap, one, i, i)
         /\ \A x : i < Size(bitmap) /\ GetBit(bitmap, i) # one
                    /\ IsFirst(bitmap, one, i + 1, x) => IsFirst(bitmap, one, i, x)
<1> DEFINE N == Size(bitmap)
<1>1. IsFirst(bitmap, one, N, NoBit)
  BY DEF IsFirst
<1>2. ASSUME i < N, GetBit(bitmap, i) = one PROVE IsFirst(bitmap, one, i, i)
  BY <1>2 DEF IsFirst
<1>3. ASSUME NEW x, i < N, GetBit(bitmap, i) # one, IsFirst(bitmap, one, i + 1, x)
      PROVE  IsFirst(bitmap, one, i, x)
  <2>1. CASE x = NoBit /\ \A j \in i+1..N-1 : GetBit(bitmap, j) # one
    <3>1. \A j \in i..N-1 : j = i \/ j \in i+1..N-1
      OBVIOUS
    <3> QED BY <1>3, <2>1, <3>1 DEF IsFirst
  <2>2. CASE /\ x \in i+1..N-1 /\ GetBit(bitmap, x) = one
             /\ \A j \in i+1..x-1 : GetBit(bitmap, j) # one
    <3>1. x \in i..N-1 /\ \A j \in i..x-1 : j = i \/ j \in i+1..x-1
      BY <2>2
    <3> QED BY <1>3, <2>2, <3>1 DEF IsFirst
  <2> QED BY <1>3, <2>1, <2>2 DEF IsFirst
<1> QED BY <1>1, <1>2, <1>3

LEMMA FirstFromIs ==
  ASSUME NEW bitmap \in Seq(Byte), NEW one, NEW start \in 0..Size(bitmap)
  PROVE  IsFirst(bitmap, one, start, FirstFrom(bitmap, one, start))
<1> DEFINE N == Size(bitmap)
           g == [i \in start..N |-> CHOOSE x : IsFirst(bitmap, one, i, x)]
           f == CHOOSE h : IsLoop(h, bitmap, one, start)
<1>1. N \in Nat /\ start \in 0..N
  BY SizeIs
<1> HIDE DEF N
<1>2. ASSUME NEW i \in start..N PROVE IsFirst(bitmap, one, i, g[i])
  <2>1. i \in Nat
    BY <1>1
  <2> QED BY <1>1, <2>1, FirstExists DEF N
<1>3. ASSUME NEW i \in start..N
      PROVE  g[i] = IF i = N THEN NoBit ELSE IF GetBit(bitmap, i) = one THEN i ELSE g[i + 1]
  <2>1. i \in Nat /\ IsFirst(bitmap, one, i, g[i])
    BY <1>1, <1>2
  <2>2. CASE i = N
    BY <1>1, <2>1, <2>2, FirstTurn, FirstUnique DEF N
  <2>3. CASE i # N /\ GetBit(bitmap, i) = one
    <3>1. i < N
      BY <1>1, <2>3
    <3> QED BY <1>1, <2>1, <2>3, <3>1, FirstTurn, FirstUnique DEF N
  <2>4. CASE i # N /\ GetBit(bitmap, i) # one
    <3>1. i < N /\ i + 1 \in start..N
      BY <1>1, <2>4
    <3>2. IsFirst(bitmap, one, i + 1, g[i + 1])
      BY <1>2, <3>1
    <3> HIDE DEF g
    <3>3. IsFirst(bitmap, one, i, g[i + 1])
      BY <1>1, <2>1, <2>4, <3>1, <3>2, FirstTurn DEF N
    <3>4. g[i] = g[i + 1]
      BY <1>1, <2>1, <3>3, FirstUnique DEF N
    <3> QED BY <2>4, <3>4
  <2> QED BY <2>2, <2>3, <2>4
<1>4. DOMAIN g = start..N
  OBVIOUS
<1>5. IsLoop(g, bitmap, one, start)
  <2> DEFINE r == [i \in start..N |->
               IF i = N THEN NoBit ELSE IF GetBit(bitmap, i) = one THEN i ELSE g[i + 1]]
  <2>1. \A i \in start..N : g[i] = r[i]
    BY <1>3
  <2>2. g = r
    BY <2>1
  <2> HIDE DEF g
  <2> QED BY <2>2 DEF IsLoop, N
<1> HIDE DEF g
<1>6. IsLoop(f, bitmap, one, start)
  BY <1>5
<1>7. FirstFrom(bitmap, one, start) = f[start]
  BY DEF FirstFrom, IsLoop
<1> HIDE DEF f
<1>8. \A i \in start..N :
        f[i] = IF i = N THEN NoBit ELSE IF GetBit(bitmap, i) = one THEN i ELSE f[i + 1]
  BY <1>6 DEF IsLoop, N
<1>9. ASSUME NEW i \in start..N, ~IsFirst(bitmap, one, i, f[i]) PROVE FALSE
  <2> DEFINE T == {k \in 0..N : N - k \in start..N /\ ~IsFirst(bitmap, one, N - k, f[N - k])}
  <2>1. T \subseteq Nat
    OBVIOUS
  <2>2. T # {}
    <3>1. N - i \in 0..N /\ N - (N - i) = i
      BY <1>1
    <3> QED BY <1>9, <3>1
  <2>3. PICK k \in T : \A j \in T : k <= j
    BY <2>1, <2>2, LeastNatural
  <2> DEFINE m == N - k
  <2>4. k \in 0..N /\ m \in start..N /\ m \in Nat /\ ~IsFirst(bitmap, one, m, f[m])
    BY <1>1, <2>3
  <2>5. m # N
    BY <1>1, <1>8, <2>4, FirstTurn DEF N
  <2>6. /\ k - 1 \in 0..N /\ ~(k <= k - 1) /\ m < N
        /\ N - (k - 1) = m + 1 /\ m + 1 \in start..N
    BY <1>1, <2>4, <2>5
  <2>7. IsFirst(bitmap, one, m + 1, f[m + 1])
    BY <2>3, <2>6
  <2> HIDE DEF m
  <2>8. f[m] = IF GetBit(bitmap, m) = one THEN m ELSE f[m + 1]
    BY <1>8, <2>4, <2>5
  <2> QED BY <1>1, <2>4, <2>6, <2>7, <2>8, FirstTurn DEF N
<1>10. start \in start..N
  BY <1>1
<1> QED BY <1>7, <1>9, <1>10
\* Bits are compared as booleans.
LEMMA BitIs ==
  ASSUME NEW b, NEW j
  PROVE  (GetBit(b, j) = FALSE <=> ~GetBit(b, j)) /\ (GetBit(b, j) = TRUE <=> GetBit(b, j))
<1> DEFINE byte == b[j \div BitsPerByte + 1]
           o == j % BitsPerByte
<1>1. GetBit(b, j) = (o \in byte)
  BY DEF GetBit
<1> HIDE DEF byte, o
<1>2. CASE o \in byte
  BY <1>1, <1>2
<1>3. CASE o \notin byte
  BY <1>1, <1>3
<1> QED BY <1>2, <1>3

LEMMA FirstClear ==
  ASSUME NEW b, NEW i, NEW x, IsFirst(b, FALSE, i, x)
  PROVE  \/ x = NoBit /\ \A j \in i..Size(b)-1 : GetBit(b, j)
         \/ /\ x \in i..Size(b)-1 /\ ~GetBit(b, x)
            /\ \A j \in i..x-1 : GetBit(b, j)
<1>1. CASE x = NoBit /\ \A j \in i..Size(b)-1 : GetBit(b, j) # FALSE
  <2>1. ASSUME NEW j \in i..Size(b)-1 PROVE GetBit(b, j)
    BY <1>1, BitIs
  <2> QED BY <1>1, <2>1
<1>2. CASE /\ x \in i..Size(b)-1 /\ GetBit(b, x) = FALSE
           /\ \A j \in i..x-1 : GetBit(b, j) # FALSE
  <2>1. ASSUME NEW j \in i..x-1 PROVE GetBit(b, j)
    BY <1>2, BitIs
  <2>2. ~GetBit(b, x)
    BY <1>2, BitIs
  <2> QED BY <1>2, <2>1, <2>2
<1> QED BY <1>1, <1>2 DEF IsFirst

LEMMA FirstOne ==
  ASSUME NEW b, NEW i, NEW x, IsFirst(b, TRUE, i, x)
  PROVE  \/ x = NoBit /\ \A j \in i..Size(b)-1 : ~GetBit(b, j)
         \/ /\ x \in i..Size(b)-1 /\ GetBit(b, x)
            /\ \A j \in i..x-1 : ~GetBit(b, j)
<1>1. CASE x = NoBit /\ \A j \in i..Size(b)-1 : GetBit(b, j) # TRUE
  <2>1. ASSUME NEW j \in i..Size(b)-1 PROVE ~GetBit(b, j)
    BY <1>1, BitIs
  <2> QED BY <1>1, <2>1
<1>2. CASE /\ x \in i..Size(b)-1 /\ GetBit(b, x) = TRUE
           /\ \A j \in i..x-1 : GetBit(b, j) # TRUE
  <2>1. ASSUME NEW j \in i..x-1 PROVE ~GetBit(b, j)
    BY <1>2, BitIs
  <2>2. GetBit(b, x)
    BY <1>2, BitIs
  <2> QED BY <1>2, <2>1, <2>2
<1> QED BY <1>1, <1>2 DEF IsFirst

-----------------------------------------------------------------------------
(* A pool between calls: nothing is pinned, so a frame can be had.           *)
Images == HeadImage \cup {Zero}
NoPins == [p \in PageIds |-> 0]
AtRest(s) == PoolOK(Images, s, NoPins) /\ CleanOK(s, NoPins, {})

LEMMA ImagesFacts == Zero \in Images /\ HeadImage \subseteq Images
  BY DEF Images

LEMMA RestFacts ==
  ASSUME NEW s, AtRest(s)
  PROVE  /\ s \in PoolType(Images) /\ CanVictim(s) /\ Latest(s, 0) \in Images
         /\ s.disk \in [PageIds -> Images]
         /\ \A p \in PageIds : FetchOK(s, p) /\ NoPins[p] = 0 /\ NoPins[p] < PinMax
<1>1. s \in PoolType(Images) /\ DirInverse(s) /\ FramesPartitioned(s) /\ PinsAgree(s, NoPins)
  BY DEF AtRest, PoolOK
<1>2. /\ s.frames \in [Frames -> [pid : PageIds \cup {NoPid}, pin : 0..PinMax,
                                 dirty : BOOLEAN, data : Images]]
      /\ s.dir \in [PageIds -> Frames \cup {NoFrame}] /\ s.disk \in [PageIds -> Images]
  BY <1>1 DEF PoolType
<1>3. 0 \in Frames /\ 0 \in PageIds /\ NoFrame \notin Frames /\ PinMax > 0 /\ PinMax \in Nat
  BY PoolAssumption DEF Frames, PageIds, NoFrame
<1>4. CanVictim(s)
  <2>1. CASE s.frames[0].pid = NoPid
    <3>1. 0 \in ToSet(s.free)
      BY <1>1, <1>3, <2>1 DEF FramesPartitioned
    <3> QED BY <3>1 DEF CanVictim, ToSet
  <2>2. CASE s.frames[0].pid # NoPid
    <3>1. s.frames[0].pid \in PageIds /\ s.dir[s.frames[0].pid] = 0
      BY <1>1, <1>2, <1>3, <2>2 DEF DirInverse
    <3>2. s.frames[0].pin = 0
      BY <1>1, <1>3, <3>1 DEF PinsAgree, NoPins
    <3>3. 0 \in ToSet(s.lru)
      BY <1>1, <1>3, <2>2, <3>2 DEF FramesPartitioned
    <3> QED BY <3>3 DEF CanVictim, ToSet
  <2> QED BY <2>1, <2>2
<1>5. \A p \in PageIds : FetchOK(s, p) /\ NoPins[p] = 0 /\ NoPins[p] < PinMax
  BY <1>3, <1>4 DEF FetchOK, NoPins
<1>6. Latest(s, 0) \in Images
  BY <1>2, <1>3 DEF Latest
<1> QED BY <1>1, <1>2, <1>4, <1>5, <1>6

\* The object o has the head h, the page c the image v.
ObjIs(o, h) ==
  /\ o \in [pageNum : Int, phyNum : Nat, bitmap : Seq(Byte)]
  /\ o.bitmap \in Seq(Byte) /\ Len(o.bitmap) = h.bytes /\ Ones(o.bitmap) = h.bits
  /\ o.pageNum = h.pageNum /\ o.phyNum = h.phyNum
ImageIs(c, v) ==
  /\ c.area \in Area /\ Ones(c.area) = ImageBits(v) /\ c.pageNum = ImagePageNum(v)
  /\ v # Zero => c.phyNum = v.phyNum

\* The inductive invariant.
HeadInv ==
  /\ up \in BOOLEAN
  /\ AtRest(pool) /\ FileHeadOK(pool.disk[0])
  /\ ImageIs(page, Latest(pool, 0)) /\ page.pageNum <= LastPid + 1
  /\ IF up THEN /\ HeadFits(pool) /\ ObjIs(obj, pool.head)
               /\ Len(obj.bitmap) <= AreaBytes /\ obj.pageNum <= LastPid + 1
     ELSE Latest(pool, 0) = pool.disk[0]

\* first finds the page id that PoolOps picks.
LEMMA PickedIs ==
  ASSUME ObjIs(obj, pool.head), pool \in PoolType(Images), HeadFits(pool)
  PROVE  Picked = PickedPid(pool)
<1> DEFINE b == obj.bitmap
           N == Size(b)
           i == First(b, FALSE)
           C == ClearBits(pool)
<1>1. b \in Seq(Byte) /\ N = pool.head.bytes * BitsPerByte /\ Ones(b) = pool.head.bits
  BY DEF ObjIs, Size
<1>2. N \in Nat /\ 0 \in 0..N
  BY <1>1, SizeIs
<1>3. IsFirst(b, FALSE, 0, i)
  BY <1>1, <1>2, FirstFromIs DEF First
<1>4. C \subseteq 0..N-1 /\ \A j \in 0..N-1 : j \in C <=> ~GetBit(b, j)
  BY <1>1, <1>2 DEF ClearBits, Ones
<1>5. pool.next \in Nat
  BY FitFacts
<1> HIDE DEF N, i, C
<1>6. C \subseteq Int /\ NoBit \notin 0..N-1 /\ (i \in 0..N-1 => i \in Int)
  BY <1>4 DEF NoBit
<1>7. CASE i = NoBit
  <2>1. C = {}
    <3>1. \A j \in 0..N-1 : GetBit(b, j)
      BY <1>3, <1>6, <1>7, FirstClear DEF N
    <3> QED BY <1>4, <3>1
  <2>2. ~Reuses(pool)
    BY <2>1 DEF Reuses, C
  <2> QED BY <1>7, <2>2 DEF Picked, PickedPid, i
<1>8. CASE i # NoBit
  <2>1. i \in 0..N-1 /\ ~GetBit(b, i) /\ \A j \in 0..i-1 : GetBit(b, j)
    BY <1>3, <1>8, FirstClear DEF N
  <2>2. i \in C
    BY <1>4, <2>1
  <2>3. ASSUME NEW j \in C PROVE i <= j
    <3>1. j \in 0..N-1 /\ j \notin 0..i-1
      BY <1>4, <2>1
    <3> QED BY <1>2, <2>1, <3>1
  <2>4. Reuses(pool) <=> i < CurrentPid(pool)
    <3>1. CurrentPid(pool) \in Int
      BY <1>5 DEF CurrentPid
    <3>2. Reuses(pool) <=> \E j \in C : j < CurrentPid(pool)
      BY DEF Reuses, C
    <3> QED BY <1>6, <2>1, <2>2, <2>3, <3>1, <3>2
  <2>5. (CHOOSE k \in C : \A j \in C : k <= j) = i
    <3>1. \A j \in C : (\A k \in C : j <= k) => j = i
      BY <1>6, <2>1, <2>2, <2>3
    <3> QED BY <2>2, <2>3, <3>1
  <2>6. Picked = IF i < CurrentPid(pool) THEN i ELSE pool.next
    BY <1>8 DEF Picked, i
  <2>7. PickedPid(pool) = IF Reuses(pool) THEN i ELSE pool.next
    <3>1. PickedPid(pool) = IF Reuses(pool) THEN CHOOSE k \in C : \A j \in C : k <= j
                                            ELSE pool.next
      BY DEF PickedPid, C
    <3> QED BY <2>5, <3>1
  <2> QED BY <2>4, <2>6, <2>7
<1> QED BY <1>7, <1>8

\* first_after finds the page that a scanner goes to next.
LEMMA AfterIs ==
  ASSUME NEW o, NEW s, ObjIs(o, s.head), NEW p \in PageIds
  PROVE  LET q == FirstAfter(o.bitmap, TRUE, p)
         IN  IF PidsAfter(s, p) = {} THEN q = NoBit
             ELSE q \in PidsAfter(s, p) /\ \A j \in PidsAfter(s, p) : q <= j
<1> DEFINE b == o.bitmap
           N == Size(b)
           q == FirstAfter(b, TRUE, p)
           A == PidsAfter(s, p)
<1>1. b \in Seq(Byte) /\ N = s.head.bytes * BitsPerByte /\ Ones(b) = s.head.bits
  BY DEF ObjIs, Size
<1>2. N \in Nat /\ p \in Nat
  BY <1>1, SizeIs DEF PageIds
<1>3. CASE N <= p
  <2>1. A = {}
    BY <1>1, <1>2, <1>3 DEF PidsAfter
  <2>2. q = NoBit
    BY <1>3 DEF FirstAfter
  <2> QED BY <2>1, <2>2
<1>4. CASE ~(N <= p)
  <2>1. q = FirstFrom(b, TRUE, p + 1) /\ p + 1 \in 0..N
    BY <1>2, <1>4 DEF FirstAfter
  <2>2. IsFirst(b, TRUE, p + 1, q)
    BY <1>1, <2>1, FirstFromIs
  <2>3. A = {j \in Ones(b) : j > p}
    BY <1>1, <1>2, <1>4 DEF PidsAfter
  <2>4. \A j : j \in A <=> j \in p+1..N-1 /\ GetBit(b, j)
    BY <1>2, <2>3 DEF Ones
  <2> HIDE DEF A, q, N, b
  <2>5. CASE q = NoBit
    <3>1. NoBit \notin p+1..N-1
      BY <1>2 DEF NoBit
    <3>2. \A j \in p+1..N-1 : ~GetBit(b, j)
      BY <2>2, <2>5, <3>1, FirstOne DEF N
    <3>3. A = {}
      BY <2>4, <3>2
    <3> QED BY <2>5, <3>3 DEF A, q, b
  <2>6. CASE q # NoBit
    <3>1. q \in p+1..N-1 /\ GetBit(b, q) /\ \A j \in p+1..q-1 : ~GetBit(b, j)
      BY <2>2, <2>6, FirstOne DEF N
    <3>2. q \in A
      BY <2>4, <3>1
    <3>3. ASSUME NEW j \in A PROVE q <= j
      <4>1. j \in p+1..N-1 /\ j \notin p+1..q-1
        BY <2>4, <3>1
      <4> QED BY <1>2, <3>1, <4>1
    <3> QED BY <3>2, <3>3 DEF A, q, b
  <2> QED BY <2>5, <2>6
<1> QED BY <1>2, <1>3, <1>4
-----------------------------------------------------------------------------
(* The calls.                                                                *)

\* The bitmap of a header in memory never outgrows the area it is saved to.
LEMMA AreaHolds ==
  /\ 1 <= AreaBytes
  /\ \A q \in PageIds : q \div BitsPerByte + 1 <= AreaBytes
<1>1. /\ AreaBytes \in Nat /\ LastPid \in Nat /\ BitsPerByte \in Nat
      /\ LastPid + 1 = AreaBytes * BitsPerByte
  BY SizesAre
<1>2. ASSUME NEW q \in PageIds PROVE q \div BitsPerByte + 1 <= AreaBytes /\ q \div BitsPerByte \in Nat
  <2>1. q \in Nat /\ q < LastPid + 1
    BY <1>1 DEF PageIds
  <2>2. q < AreaBytes * BitsPerByte
    BY <1>1, <2>1
  <2>3. q \div BitsPerByte \in Nat /\ q \div BitsPerByte < AreaBytes
    BY <1>1, <2>1, <2>2, BitPlace
  <2> QED BY <1>1, <2>3
<1>3. 0 \in PageIds
  BY <1>1 DEF PageIds
<1>4. 1 <= AreaBytes
  BY <1>1, <1>2, <1>3
<1> QED BY <1>2, <1>4

\* init rounds page_num_ up to bytes as LoadHead does.
LEMMA RoundedUp ==
  ASSUME NEW n \in Nat
  PROVE  n \div BitsPerByte + (IF n % BitsPerByte = 0 THEN 0 ELSE 1)
           = (n + BitsPerByte - 1) \div BitsPerByte
<1> DEFINE q == n \div BitsPerByte
           o == n % BitsPerByte
           k == n + BitsPerByte - 1
           u == k \div BitsPerByte
           v == IF o = 0 THEN q ELSE q + 1
<1>1. BitsPerByte \in Nat \ {0}
  BY SizesAre
<1>2. q \in Nat /\ o \in 0..BitsPerByte-1 /\ n = q * BitsPerByte + o
  BY BitPlace
<1>3. k \in Nat
  BY <1>1
<1>4. u \in Nat /\ \A m \in Nat : k < m * BitsPerByte <=> u < m
  <2> HIDE DEF k
  <2> QED BY <1>3, BitPlace
<1> HIDE DEF q, o, u
<1>5. v \in Nat /\ v + 1 \in Nat
  BY <1>2
<1> DEFINE a == q * BitsPerByte
<1>6. a \in Nat /\ n = a + o
  BY <1>1, <1>2
<1>7. v * BitsPerByte = (IF o = 0 THEN a ELSE a + BitsPerByte)
      /\ (v + 1) * BitsPerByte = (IF o = 0 THEN a ELSE a + BitsPerByte) + BitsPerByte
  <2>1. (q + 1) * BitsPerByte = a + BitsPerByte /\ (q + 1 + 1) * BitsPerByte = a + BitsPerByte + BitsPerByte
    BY <1>1, <1>2, Z3
  <2> QED BY <2>1
<1> HIDE DEF a
<1>8. ~(k < v * BitsPerByte) /\ k < (v + 1) * BitsPerByte
  BY <1>1, <1>2, <1>6, <1>7
<1>9. ~(u < v) /\ u < v + 1
  BY <1>4, <1>5, <1>8
<1>10. u = v
  <2> HIDE DEF v
  <2> QED BY <1>4, <1>5, <1>9
<1> QED BY <1>2, <1>10 DEF u, v, q, o

LEMMA FreshObjIs == ObjIs(FreshObj, FreshHead)
<1> DEFINE z == <<ZeroByte>>
<1>1. z \in Seq(Byte) /\ Len(z) = 1 /\ z[1] = ZeroByte
  BY DEF ZeroByte, Byte
<1> HIDE DEF z
<1>2. BitsPerByte \in Nat \ {0} /\ Size(z) = BitsPerByte
  BY <1>1, SizesAre DEF Size
<1>3. Ones(z) = {}
  <2>1. ASSUME NEW j \in Nat, j \in Ones(z) PROVE FALSE
    <3>1. j < Size(z) /\ GetBit(z, j)
      BY <1>1, <2>1, OnesAre
    <3>2. j \div BitsPerByte + 1 \in 1..1
      BY <1>1, <3>1, SizeIs
    <3>3. j \div BitsPerByte + 1 = 1
      BY <3>2
    <3> QED BY <1>1, <3>1, <3>3 DEF GetBit, ZeroByte
  <2>2. Ones(z) \subseteq Nat
    BY <1>1, OnesAre
  <2> QED BY <2>1, <2>2
<1> DEFINE r == SetBit(z, 0, TRUE)
<1>4. r \in Seq(Byte) /\ Len(r) = 1 /\ Ones(r) = {0}
  <2>1. 0 \in Nat /\ 0 < Size(z)
    BY <1>2
  <2>2. r \in Seq(Byte) /\ Len(r) = Len(z) /\ Ones(r) = Ones(z) \cup {0}
    BY <1>1, <2>1, SetBitIs
  <2> QED BY <1>1, <1>3, <2>2
<1>5. FreshObj = [pageNum |-> 1, phyNum |-> 1, bitmap |-> r]
  BY DEF FreshObj, z
<1> HIDE DEF r
<1> QED BY <1>4, <1>5 DEF ObjIs, FreshHead

\* init of a page written before gives the header that LoadHead gives.
LEMMA ReadBackIs ==
  ASSUME NEW c, NEW v \in HeadImage, v # Zero, ImageIs(c, v),
         v.pageNum \in Nat \ {0}, v.pageNum <= LastPid + 1
  PROVE  /\ ObjIs(ReadBack(c), LoadHead(v)) /\ Len(ReadBack(c).bitmap) <= AreaBytes
         /\ ReadBack(c).pageNum = c.pageNum
<1> DEFINE n == v.pageNum
           bytes == IF v.phyNum > BitsPerByte
                    THEN (n + BitsPerByte - 1) \div BitsPerByte ELSE 1
           b == SubSeq(c.area, 1, bytes)
           h == LoadHead(v)
<1>0. v.phyNum \in Nat
  BY DEF HeadImage
<1>1. /\ c.area \in Area /\ Ones(c.area) = v.bits
      /\ c.pageNum = n /\ c.phyNum = v.phyNum /\ n \in Nat
  BY DEF ImageIs, ImageBits, ImagePageNum
<1>2. ReadBack(c) = [pageNum |-> n, phyNum |-> v.phyNum, bitmap |-> b]
  <2>1. n \div BitsPerByte + (IF n % BitsPerByte = 0 THEN 0 ELSE 1)
          = (n + BitsPerByte - 1) \div BitsPerByte
    BY <1>1, RoundedUp
  <2> HIDE DEF n
  <2> QED BY <1>1, <2>1 DEF ReadBack
<1>3. bytes \in 0..AreaBytes
  <2>1. CASE v.phyNum > BitsPerByte
    <3> DEFINE k == n + BitsPerByte - 1
               u == k \div BitsPerByte
    <3>1. /\ BitsPerByte \in Nat \ {0} /\ AreaBytes \in Nat /\ LastPid \in Nat
          /\ LastPid + 1 = AreaBytes * BitsPerByte
      BY SizesAre
    <3>2. k \in Nat
      BY <1>1, <3>1
    <3>3. n <= LastPid + 1
      OBVIOUS
    <3>4. (AreaBytes + 1) * BitsPerByte = LastPid + 1 + BitsPerByte
      BY <3>1, Z3
    <3>5. k < (AreaBytes + 1) * BitsPerByte /\ AreaBytes + 1 \in Nat
      <4> HIDE DEF n
      <4> QED BY <1>1, <3>1, <3>3, <3>4
    <3> HIDE DEF k
    <3>6. u \in Nat /\ u < AreaBytes + 1
      BY <3>2, <3>5, BitPlace
    <3> HIDE DEF u
    <3>7. u \in 0..AreaBytes
      BY <3>1, <3>6
    <3> QED BY <2>1, <3>7 DEF u, k
  <2>2. CASE ~(v.phyNum > BitsPerByte)
    BY <2>2, AreaHolds, SizesAre
  <2> QED BY <2>1, <2>2
<1>4. h = [pageNum |-> n, phyNum |-> v.phyNum, bytes |-> bytes,
           bits |-> {i \in v.bits : i < bytes * BitsPerByte}]
  BY DEF LoadHead
<1> HIDE DEF bytes
<1>5. /\ b \in Seq(Byte) /\ Len(b) = bytes
      /\ Ones(b) = {i \in v.bits : i < bytes * BitsPerByte}
  BY <1>1, <1>3, ReadIs
<1>6. bytes <= AreaBytes
  BY <1>3
<1> HIDE DEF b, n, h
<1>7. ObjIs(ReadBack(c), h)
  <2> HIDE DEF LoadHead
  <2>1. ReadBack(c) \in [pageNum : Int, phyNum : Nat, bitmap : Seq(Byte)]
    BY <1>0, <1>1, <1>2, <1>5 DEF n
  <2> QED BY <1>2, <1>4, <1>5, <2>1 DEF ObjIs
<1> QED BY <1>1, <1>2, <1>5, <1>6, <1>7 DEF h
\* write2page of the header h over the image v.
LEMMA WrittenImage ==
  ASSUME NEW o, NEW h, ObjIs(o, h), Len(o.bitmap) <= AreaBytes, NEW c, NEW v, ImageIs(c, v),
         NEW w, w # Zero, w.pageNum = h.pageNum, w.phyNum = h.phyNum,
         w.bits = h.bits \cup {i \in ImageBits(v) : i >= h.bytes * BitsPerByte}
  PROVE  ImageIs(Written(o, c), w) /\ Written(o, c).pageNum = o.pageNum
<1> DEFINE r == Written(o, c)
<1>1. /\ o.bitmap \in Seq(Byte) /\ Len(o.bitmap) = h.bytes /\ Ones(o.bitmap) = h.bits
      /\ o.pageNum = h.pageNum /\ o.phyNum = h.phyNum
      /\ c.area \in Area /\ Ones(c.area) = ImageBits(v)
  BY DEF ObjIs, ImageIs
<1>2. /\ r.area \in Area /\ r.pageNum = o.pageNum /\ r.phyNum = o.phyNum
      /\ Ones(r.area) = Ones(o.bitmap)
                        \cup {i \in Ones(c.area) : i >= Len(o.bitmap) * BitsPerByte}
  BY <1>1, WrittenIs
<1> HIDE DEF r
<1>3. Ones(r.area) = w.bits
  BY <1>1, <1>2
<1>4. ImageIs(r, w)
  BY <1>1, <1>2, <1>3 DEF ImageIs, ImageBits, ImagePageNum
<1> QED BY <1>2, <1>4 DEF r

LEMMA InitGood == Init => HeadInv
<1> SUFFICES ASSUME Init PROVE HeadInv
  OBVIOUS
<1> DEFINE d == [p \in PageIds |-> Zero]
           z == [k \in 1..AreaBytes |-> ZeroByte]
<1>1. /\ up = FALSE /\ pool = BlankPool(d)
      /\ page = [pageNum |-> 0, phyNum |-> 0, area |-> z]
  BY DEF Init
<1>2. d \in [PageIds -> Images] /\ d[0] = Zero /\ 0 \in PageIds
  BY ImagesFacts, PoolAssumption DEF PageIds
<1> HIDE DEF d
<1>3. AtRest(pool) /\ pool.disk = d /\ \A p \in PageIds : pool.dir[p] = NoFrame
  BY <1>1, <1>2, ImagesFacts, BlankFacts DEF AtRest, NoPins
<1>4. Latest(pool, 0) = Zero /\ pool.disk[0] = Zero
  BY <1>2, <1>3 DEF Latest
<1>5. z \in Area /\ \A k \in 1..AreaBytes : z[k] = ZeroByte
  BY DEF Area, Byte, ZeroByte
<1> HIDE DEF z
<1>6. Ones(z) = {}
  <2>1. z \in Seq(Byte) /\ Len(z) = AreaBytes
    BY <1>5, AreaFacts
  <2>2. ASSUME NEW j \in Nat, j \in Ones(z) PROVE FALSE
    <3>1. j < Size(z) /\ GetBit(z, j)
      BY <2>1, <2>2, OnesAre
    <3>2. j \div BitsPerByte + 1 \in 1..AreaBytes
      BY <2>1, <3>1, SizeIs
    <3> QED BY <1>5, <3>1, <3>2 DEF GetBit, ZeroByte
  <2> QED BY <2>1, <2>2, OnesAre
<1>7. ImageIs(page, Zero)
  BY <1>1, <1>5, <1>6 DEF ImageIs, ImageBits, ImagePageNum
<1>8. page.pageNum <= LastPid + 1
  BY <1>1, SizesAre
<1> QED BY <1>1, <1>3, <1>4, <1>7, <1>8 DEF HeadInv, FileHeadOK

LEMMA OpenGood ==
  ASSUME HeadInv, Open
  PROVE  HeadInv'
<1> DEFINE d == pool.disk
           c == d[0]
           r == OpenPool(d)
<1>1. /\ ~up /\ up' = TRUE /\ pool' = r /\ AtRest(pool)
      /\ FileHeadOK(c) /\ ImageIs(page, c) /\ page.pageNum <= LastPid + 1
  BY DEF HeadInv, Open
<1>2. d \in [PageIds -> Images]
  BY <1>1, RestFacts
<1>3. c # Zero => c \in HeadImage /\ c.pageNum \in Nat \ {0}
  BY <1>1, FileHeadIs
<1>4. Opened(Images, r, d)
  BY <1>2, <1>3, ImagesFacts, OpenIs
<1>5. HeadFits(r)
  BY <1>1, <1>2, <1>4, OpenFits
<1> HIDE DEF r, d
<1>6. /\ AtRest(r) /\ r.head = LoadedHead(c) /\ Latest(r, 0) = LoadedImage(c)
  BY <1>4 DEF Opened, AtRest, NoPins
<1>7. FileHeadOK(r.disk[0])
  BY <1>5 DEF HeadFits
<1> HIDE DEF c
<1>8. page.pageNum = ImagePageNum(c)
  BY <1>1 DEF ImageIs
<1>9. CASE c = Zero
  <2>1. page.pageNum = 0 /\ ImageBits(c) = {}
    BY <1>8, <1>9 DEF ImagePageNum, ImageBits
  <2>2. obj' = FreshObj /\ page' = Written(FreshObj, page)
    BY <2>1 DEF Open
  <2>3. r.head = FreshHead /\ Latest(r, 0) = FreshImage
    BY <1>6, <1>9 DEF LoadedHead, LoadedImage
  <2>4. ObjIs(FreshObj, FreshHead) /\ FreshObj.pageNum = 1
    BY FreshObjIs DEF ObjIs, FreshHead
  <2>5. Len(FreshObj.bitmap) = 1 /\ Len(FreshObj.bitmap) <= AreaBytes
    BY <2>4, AreaHolds DEF ObjIs, FreshHead
  <2>6. /\ FreshImage # Zero /\ FreshImage.pageNum = FreshHead.pageNum
        /\ FreshImage.phyNum = FreshHead.phyNum
        /\ FreshImage.bits = FreshHead.bits
                             \cup {i \in ImageBits(c) : i >= FreshHead.bytes * BitsPerByte}
    BY <2>1, FreshFacts DEF FreshImage, FreshHead
  <2>7. ImageIs(Written(FreshObj, page), FreshImage) /\ Written(FreshObj, page).pageNum = 1
    <3>1. /\ ObjIs(FreshObj, FreshHead) /\ Len(FreshObj.bitmap) <= AreaBytes /\ ImageIs(page, c)
          /\ FreshImage # Zero /\ FreshImage.pageNum = FreshHead.pageNum
          /\ FreshImage.phyNum = FreshHead.phyNum
          /\ FreshImage.bits = FreshHead.bits
                               \cup {i \in ImageBits(c) : i >= FreshHead.bytes * BitsPerByte}
      BY <1>1, <2>4, <2>5, <2>6
    <3>2. /\ ImageIs(Written(FreshObj, page), FreshImage)
          /\ Written(FreshObj, page).pageNum = FreshObj.pageNum
      BY ONLY <3>1, WrittenImage
    <3> QED BY <2>4, <3>2
  <2>8. 1 <= LastPid + 1
    BY SizesAre
  <2> QED BY <1>1, <1>5, <1>6, <1>7, <2>2, <2>3, <2>4, <2>5, <2>7, <2>8 DEF HeadInv
<1>10. CASE c # Zero
  <2>1. page.pageNum # 0 /\ page.pageNum = c.pageNum
    BY <1>3, <1>8, <1>10 DEF ImagePageNum
  <2>2. obj' = ReadBack(page) /\ page' = page
    BY <2>1 DEF Open
  <2>3. r.head = LoadHead(c) /\ Latest(r, 0) = c
    BY <1>6, <1>10 DEF LoadedHead, LoadedImage
  <2>4. /\ ObjIs(ReadBack(page), LoadHead(c)) /\ Len(ReadBack(page).bitmap) <= AreaBytes
        /\ ReadBack(page).pageNum = page.pageNum
    BY <1>1, <1>3, <1>10, <2>1, ReadBackIs
  <2> QED BY <1>1, <1>5, <1>6, <1>7, <2>2, <2>3, <2>4 DEF HeadInv
<1> QED BY <1>9, <1>10
\* set() of the page id that new_page picked leaves the header Allocate gives.
LEMMA AllocatedIs ==
  ASSUME NEW o, NEW s \in PoolType(Images), ObjIs(o, s.head), Len(o.bitmap) <= AreaBytes,
         NEW q \in PageIds
  PROVE  LET r == [pageNum |-> o.pageNum + 1, phyNum |-> o.phyNum + 1,
                   bitmap |-> SetBit(Grown(o.bitmap, q), q, TRUE)]
         IN  /\ ObjIs(r, Allocate(s.head, q)) /\ Len(r.bitmap) <= AreaBytes
             /\ r.pageNum = o.pageNum + 1
<1> DEFINE g == Grown(o.bitmap, q)
           b == SetBit(g, q, TRUE)
           r == [pageNum |-> o.pageNum + 1, phyNum |-> o.phyNum + 1, bitmap |-> b]
           h == s.head
           bytes == IF q < h.bytes * BitsPerByte THEN h.bytes ELSE q \div BitsPerByte + 1
<1>1. /\ o.bitmap \in Seq(Byte) /\ Len(o.bitmap) = h.bytes /\ Ones(o.bitmap) = h.bits
      /\ o.pageNum = h.pageNum /\ o.phyNum = h.phyNum /\ q \in Nat
  BY DEF ObjIs, PageIds
<1>2. /\ g \in Seq(Byte) /\ Ones(g) = h.bits /\ q < Size(g) /\ Len(g) = bytes
  BY <1>1, GrownIs
<1>3. bytes <= AreaBytes
  BY <1>1, AreaHolds
<1> HIDE DEF g, bytes, h
<1>4. b \in Seq(Byte) /\ Len(b) = bytes /\ Ones(b) = h.bits \cup {q}
  BY <1>1, <1>2, SetBitIs
<1> HIDE DEF b
<1>5. Allocate(h, q) = [pageNum |-> h.pageNum + 1, phyNum |-> h.phyNum + 1,
                        bytes |-> bytes, bits |-> h.bits \cup {q}]
  BY DEF Allocate, bytes
<1>6. ObjIs(r, Allocate(h, q)) /\ Len(r.bitmap) <= AreaBytes /\ r.pageNum = o.pageNum + 1
  BY <1>1, <1>3, <1>4, <1>5 DEF ObjIs
<1> QED BY <1>6 DEF h, b, g

LEMMA AddGood ==
  ASSUME HeadInv, AddPage
  PROVE  HeadInv'
<1> DEFINE q == PickedPid(pool)
           s == NewPage(pool)
           r == Unpin(s, q, FALSE)
           one == [NoPins EXCEPT ![q] = 1]
<1>1. /\ up /\ up' = up /\ page' = page /\ NewPageOK(pool) /\ Picked <= LastPid
      /\ obj.pageNum <= LastPid /\ pool' = r
      /\ obj' = [pageNum |-> obj.pageNum + 1, phyNum |-> obj.phyNum + 1,
                 bitmap |-> SetBit(Grown(obj.bitmap, Picked), Picked, TRUE)]
      /\ AtRest(pool) /\ HeadFits(pool) /\ ObjIs(obj, pool.head)
      /\ Len(obj.bitmap) <= AreaBytes
      /\ ImageIs(page, Latest(pool, 0)) /\ page.pageNum <= LastPid + 1
  BY DEF HeadInv, AddPage
<1>2. pool \in PoolType(Images) /\ PoolOK(Images, pool, NoPins) /\ CleanOK(pool, NoPins, {})
  BY <1>1, RestFacts DEF AtRest
<1>3. Picked = q
  BY <1>1, <1>2, PickedIs
<1>4. q \in PageIds /\ q \notin pool.head.bits /\ 0 \in pool.head.bits /\ 0 \in PageIds
  <2>1. q \in Nat /\ q \notin pool.head.bits
    BY <1>1, <1>2, PickedIsClear
  <2> HIDE DEF q
  <2> QED BY <1>1, <1>3, <2>1, SizesAre DEF PageIds, HeadFits
<1>5. pool.dir[q] = NoFrame
  BY <1>1, <1>4 DEF HeadFits
<1>6. NewPageLeaves(Images, s, pool, NoPins, {})
  BY <1>1, <1>2, <1>4, <1>5, ImagesFacts, NewPageFacts
<1>7. HeadFits(s)
  BY <1>1, <1>2, <1>4, <1>6, NewPageFits
<1>8. /\ PoolOK(Images, s, one) /\ CleanOK(s, one, {}) /\ Preserves(s, pool, NoPins, q)
      /\ s.head = Allocate(pool.head, q)
  BY <1>6 DEF NewPageLeaves
<1>9. Latest(s, 0) = Latest(pool, 0)
  BY <1>4, <1>8 DEF Preserves
<1> HIDE DEF s, q
<1>10. NoPins \in [PageIds -> Nat] /\ one[q] = 1 /\ [one EXCEPT ![q] = @ - 1] = NoPins
  BY <1>4 DEF NoPins
<1>11. Unpinned(Images, r, s, one, q, {})
  <2>1. ReportsRest({}, {}, one, q, FALSE)
    BY DEF ReportsRest
  <2>2. one[q] > 0
    BY <1>10
  <2> HIDE DEF one
  <2> QED BY <1>4, <1>8, <2>1, <2>2, UnpinFacts
<1> HIDE DEF r, one
<1>12. /\ PoolOK(Images, r, NoPins) /\ CleanOK(r, NoPins, {}) /\ ReadsSame(r, s)
       /\ r.dir = s.dir /\ r.disk = s.disk /\ r.head = s.head /\ r.next = s.next
  BY <1>10, <1>11 DEF Unpinned
<1>13. HeadFits(r) /\ Latest(r, 0) = Latest(pool, 0)
  <2>1. HeadAlike(r, s)
    BY <1>4, <1>12 DEF HeadAlike, ReadsSame
  <2> QED BY <1>4, <1>7, <1>9, <1>12, <2>1, HeadStaysFit DEF ReadsSame
<1>14. /\ ObjIs(obj', r.head) /\ Len(obj'.bitmap) <= AreaBytes
       /\ obj'.pageNum = obj.pageNum + 1
  <2>1. /\ ObjIs(obj', Allocate(pool.head, q)) /\ Len(obj'.bitmap) <= AreaBytes
        /\ obj'.pageNum = obj.pageNum + 1
    BY <1>1, <1>2, <1>3, <1>4, AllocatedIs
  <2> QED BY <1>8, <1>12, <2>1
<1>15. obj.pageNum + 1 <= LastPid + 1
  <2>1. obj.pageNum \in Int
    BY <1>1, <1>2 DEF PoolType, ObjIs
  <2> QED BY <1>1, <2>1, SizesAre
<1>16. FileHeadOK(r.disk[0]) /\ AtRest(r)
  BY <1>12, <1>13 DEF HeadFits, AtRest
<1> QED BY <1>1, <1>13, <1>14, <1>15, <1>16 DEF HeadInv
\* clear of the page id that delete_page is given leaves the header of PoolOps.
LEMMA DroppedIs ==
  ASSUME NEW s \in PoolType(Images), ObjIs(obj, s.head), Len(obj.bitmap) <= AreaBytes,
         NEW p \in Nat, p < Size(obj.bitmap),
         obj' = [obj EXCEPT !.bitmap = SetBit(@, p, FALSE), !.pageNum = @ - 1],
         NEW h, h = DeletedHead(s, p)
  PROVE  ObjIs(obj', h) /\ Len(obj'.bitmap) <= AreaBytes
<1> DEFINE g == obj.bitmap
           b == SetBit(g, p, FALSE)
<1>1. /\ g \in Seq(Byte) /\ Len(g) = s.head.bytes /\ Ones(g) = s.head.bits
      /\ obj.pageNum = s.head.pageNum /\ obj.phyNum = s.head.phyNum
      /\ obj \in [pageNum : Int, phyNum : Nat, bitmap : Seq(Byte)]
  BY DEF ObjIs
<1>2. b \in Seq(Byte) /\ Len(b) = Len(g) /\ Ones(b) = s.head.bits \ {p}
  BY <1>1, SetBitIs
<1>3. /\ obj'.bitmap = b /\ obj'.pageNum = obj.pageNum - 1 /\ obj'.phyNum = obj.phyNum
      /\ obj' \in [pageNum : Int, phyNum : Nat, bitmap : Seq(Byte)]
  <2>1. obj' = [obj EXCEPT !.bitmap = b, !.pageNum = obj.pageNum - 1]
    OBVIOUS
  <2>2. b \in Seq(Byte)
    BY <1>2
  <2>3. obj \in [pageNum : Int, phyNum : Nat, bitmap : Seq(Byte)]
    BY <1>1
  <2> DEFINE r == obj'
             n == obj.pageNum - 1
  <2>4. r = [obj EXCEPT !.bitmap = b, !.pageNum = n] /\ n \in Int
    BY <2>1, <2>3
  <2> HIDE DEF b, r, n
  <2>5. /\ r.bitmap = b /\ r.pageNum = n /\ r.phyNum = obj.phyNum
        /\ r \in [pageNum : Int, phyNum : Nat, bitmap : Seq(Byte)]
    BY ONLY <2>2, <2>3, <2>4
  <2> QED BY <2>5 DEF r, n
<1>4. s.head \in [pageNum : Int, phyNum : Nat, bytes : Nat, bits : SUBSET PageIds]
  BY DEF PoolType
<1>5. /\ h.bytes = s.head.bytes /\ h.bits = s.head.bits \ {p}
      /\ h.pageNum = s.head.pageNum - 1 /\ h.phyNum = s.head.phyNum
  BY <1>4 DEF DeletedHead
<1> HIDE DEF b, g
<1>6. Len(obj'.bitmap) <= AreaBytes
  BY <1>2, <1>3 DEF g
<1> QED BY <1>1, <1>2, <1>3, <1>5, <1>6 DEF ObjIs
\* delete_page of a page that is held, as a caller that drops a page has it.
DropsTo(r, p) ==
  /\ AtRest(r) /\ HeadFits(r) /\ r.head = DeletedHead(pool, p)
  /\ KeptBits(r) = KeptBits(pool)
  /\ Latest(r, 0) = [pageNum |-> r.head.pageNum, phyNum |-> r.head.phyNum,
                     bits |-> r.head.bits \cup KeptBits(pool)]

LEMMA HeldIsDeleted ==
  ASSUME AtRest(pool), HeadFits(pool), NEW p \in pool.head.bits, p # 0
  PROVE  DropsTo(DeletePage(Fetch(pool, p), p), p)
<1> DEFINE s == Fetch(pool, p)
           r == DeletePage(s, p)
           one == [NoPins EXCEPT ![p] = @ + 1]
<1>1. pool \in PoolType(Images) /\ PoolOK(Images, pool, NoPins) /\ CleanOK(pool, NoPins, {})
  BY RestFacts DEF AtRest
<1>2. p \in PageIds /\ 0 \in PageIds
  BY <1>1, SizesAre DEF PoolType, PageIds
<1>3. FetchOK(pool, p) /\ NoPins[p] < PinMax
  BY <1>2, RestFacts
<1>4. Fetched(Images, s, pool, NoPins, {}, p)
  BY <1>1, <1>2, <1>3, ImagesFacts, FetchFacts
<1> HIDE DEF s
<1>5. /\ PoolOK(Images, s, one) /\ CleanOK(s, one, {}) /\ Preserves(s, pool, NoPins, p)
      /\ s.dir[p] # NoFrame /\ s.head = pool.head /\ s.next = pool.next
  BY <1>4 DEF Fetched
<1>6. one \in [PageIds -> Nat] /\ one[p] = 1 /\ one[0] = 0 /\ 0 < PinMax
      /\ [one EXCEPT ![p] = 0] = NoPins
  BY <1>2, PoolAssumption DEF NoPins
<1> HIDE DEF one
<1>7. HeadAlike(s, pool)
  BY <1>2, <1>5 DEF HeadAlike, Preserves
<1>8. HeadFits(s) /\ KeptBits(s) = KeptBits(pool)
  BY <1>5, <1>7, HeadStaysFit DEF HeadAlike, KeptBits
<1>9. Deleted(Images, r, s, one, {}, p)
  <2>1. p \in s.head.bits /\ one[p] > 0 /\ one[0] < PinMax
    BY <1>5, <1>6
  <2> QED BY <1>5, <1>8, <2>1, ImagesFacts, DeleteFacts
<1> HIDE DEF r
<1>10. /\ PoolOK(Images, r, NoPins) /\ CleanOK(r, NoPins, {})
       /\ HeadFits(r) /\ KeptBits(r) = KeptBits(s) /\ r.head = DeletedHead(s, p)
       /\ Latest(r, 0) = [pageNum |-> r.head.pageNum, phyNum |-> r.head.phyNum,
                          bits |-> r.head.bits \cup KeptBits(s)]
  <2>1. {} \ {p} = {}
    OBVIOUS
  <2> QED BY <1>5, <1>6, <1>9, <2>1 DEF Deleted
<1>11. DeletedHead(s, p) = DeletedHead(pool, p)
  BY <1>5 DEF DeletedHead
<1>12. DropsTo(r, p)
  BY <1>8, <1>10, <1>11 DEF DropsTo, AtRest
<1> QED BY <1>12 DEF r, s

LEMMA DropGood ==
  ASSUME HeadInv, NEW p \in PageIds \ {0}, DropPage(p)
  PROVE  HeadInv'
<1> DEFINE r == DeletePage(Fetch(pool, p), p)
           h == DeletedHead(pool, p)
           w == [pageNum |-> r.head.pageNum, phyNum |-> r.head.phyNum,
                 bits |-> r.head.bits \cup KeptBits(pool)]
<1>1. /\ up /\ up' = up /\ p < Size(obj.bitmap) /\ GetBit(obj.bitmap, p)
      /\ obj' = [obj EXCEPT !.bitmap = SetBit(@, p, FALSE), !.pageNum = @ - 1]
      /\ page' = Written(obj', page) /\ pool' = r
      /\ AtRest(pool) /\ HeadFits(pool) /\ ObjIs(obj, pool.head)
      /\ Len(obj.bitmap) <= AreaBytes /\ obj.pageNum <= LastPid + 1
      /\ ImageIs(page, Latest(pool, 0))
  BY DEF HeadInv, DropPage
<1>2. pool \in PoolType(Images) /\ p \in Nat
  BY <1>1, RestFacts DEF PageIds
<1>3. p \in pool.head.bits
  BY <1>1, <1>2, OnesAre DEF ObjIs
<1>4. DropsTo(r, p)
  BY <1>1, <1>3, HeldIsDeleted
<1>5. ObjIs(obj', h) /\ Len(obj'.bitmap) <= AreaBytes
  BY <1>1, <1>2, DroppedIs
<1> HIDE DEF r
<1>6. /\ AtRest(r) /\ HeadFits(r) /\ r.head = h /\ KeptBits(r) = KeptBits(pool)
      /\ Latest(r, 0) = w
  BY <1>4 DEF DropsTo
<1>7. h.bytes = pool.head.bytes /\ h.pageNum = pool.head.pageNum - 1
  <2>1. pool.head \in [pageNum : Int, phyNum : Nat, bytes : Nat, bits : SUBSET PageIds]
    BY <1>2 DEF PoolType
  <2> QED BY <2>1 DEF DeletedHead
<1>8. w # Zero
  <2>1. w = SavedImage(r)
    BY <1>6 DEF SavedImage
  <2>2. r \in PoolType(Images) /\ ImageBits(Latest(r, 0)) \subseteq PageIds
    BY <1>6, RestFacts, FitFacts
  <2> HIDE DEF w
  <2> QED BY <2>1, <2>2, SavedImageIs
<1>9. /\ w.pageNum = h.pageNum /\ w.phyNum = h.phyNum
      /\ w.bits = h.bits \cup {i \in ImageBits(Latest(pool, 0)) : i >= h.bytes * BitsPerByte}
  BY <1>6, <1>7 DEF KeptBits
<1> HIDE DEF w, h
<1>10. ImageIs(Written(obj', page), w) /\ Written(obj', page).pageNum = obj'.pageNum
  <2> DEFINE o == obj'
             v == Latest(pool, 0)
  <2>1. /\ ObjIs(o, h) /\ Len(o.bitmap) <= AreaBytes /\ ImageIs(page, v) /\ w # Zero
        /\ w.pageNum = h.pageNum /\ w.phyNum = h.phyNum
        /\ w.bits = h.bits \cup {i \in ImageBits(v) : i >= h.bytes * BitsPerByte}
    BY <1>1, <1>5, <1>8, <1>9
  <2> HIDE DEF o, v
  <2>2. ImageIs(Written(o, page), w) /\ Written(o, page).pageNum = o.pageNum
    BY ONLY <2>1, WrittenImage
  <2> QED BY <2>2 DEF o
<1>11. obj'.pageNum <= LastPid + 1
  <2>1. /\ obj'.pageNum = h.pageNum /\ pool.head.pageNum \in Int
        /\ pool.head.pageNum <= LastPid + 1
    BY <1>1, <1>2, <1>5 DEF ObjIs, PoolType
  <2> QED BY <1>7, <2>1, SizesAre
<1>12. FileHeadOK(r.disk[0])
  BY <1>6 DEF HeadFits
<1> QED BY <1>1, <1>5, <1>6, <1>10, <1>11, <1>12 DEF HeadInv
\* close leaves in page 0 of the file the image of head_.
LEMMA ClosedFile ==
  ASSUME AtRest(pool), HeadFits(pool)
  PROVE  LET d == Close(pool).disk
         IN  d \in [PageIds -> Images] /\ d[0] = SavedImage(pool)
<1> DEFINE s == SaveHead(pool)
           P == DirtyPids(s)
           t == FlushPids(s, P)
           d == t.disk
<1>1. pool \in PoolType(Images) /\ PoolOK(Images, pool, NoPins) /\ CleanOK(pool, NoPins, {})
  BY RestFacts DEF AtRest
<1>2. 0 \in PageIds
  BY SizesAre DEF PageIds
<1>3. FetchOK(pool, 0) /\ NoPins[0] < PinMax /\ ImageBits(Latest(pool, 0)) \subseteq PageIds
  BY <1>1, <1>2, RestFacts, FitFacts
<1>4. Close(pool).disk = d
  BY <1>3 DEF Close, CloseOK, FlushAll
<1>5. Saved(Images, s, pool, NoPins, {})
  BY <1>1, <1>3, ImagesFacts, SaveHeadIs
<1> HIDE DEF s
<1>6. PoolOK(Images, s, NoPins) /\ CleanOK(s, NoPins, {}) /\ Latest(s, 0) = SavedImage(pool)
  BY <1>5 DEF Saved, OnlyNow
<1>7. SameFrames(Images, t, s)
  <2>1. P \in SUBSET DirtyPids(s)
    OBVIOUS
  <2> HIDE DEF P
  <2> QED BY <1>6, <2>1, FlushPidsOK
<1>8. d[0] = IF 0 \in P THEN s.frames[s.dir[0]].data ELSE s.disk[0]
  <2>1. t = [s EXCEPT !.disk = [q \in PageIds |-> IF q \in P THEN s.frames[s.dir[q]].data
                                                             ELSE s.disk[q]]]
    BY DEF FlushPids
  <2>2. s \in PoolType(Images)
    BY <1>6 DEF PoolOK
  <2> HIDE DEF t, P
  <2> QED BY <1>2, <2>1, <2>2 DEF PoolType
<1>9. 0 \in P <=> s.dir[0] # NoFrame /\ s.frames[s.dir[0]].dirty
  BY <1>2 DEF DirtyPids
<1>10. s.dir[0] # NoFrame => s.frames[s.dir[0]].dirty \/ s.frames[s.dir[0]].data = s.disk[0]
  BY <1>2, <1>6 DEF CleanOK
<1> HIDE DEF P
<1>11. d[0] = Latest(s, 0)
  BY <1>8, <1>9, <1>10 DEF Latest
<1>12. d \in [PageIds -> Images]
  BY <1>7 DEF SameFrames, PoolType
<1> HIDE DEF d
<1> QED BY <1>4, <1>6, <1>11, <1>12

LEMMA CloseGood ==
  ASSUME HeadInv, ClosePool
  PROVE  HeadInv'
<1> DEFINE d == Close(pool).disk
           r == BlankPool(d)
           w == SavedImage(pool)
           h == pool.head
           v == Latest(pool, 0)
<1>1. /\ up /\ up' = FALSE /\ page' = Written(obj, page) /\ pool' = r
      /\ AtRest(pool) /\ HeadFits(pool) /\ ObjIs(obj, h)
      /\ Len(obj.bitmap) <= AreaBytes /\ obj.pageNum <= LastPid + 1
      /\ ImageIs(page, v)
  BY DEF HeadInv, ClosePool
<1>2. d \in [PageIds -> Images] /\ d[0] = w
  BY <1>1, ClosedFile
<1> HIDE DEF d
<1>3. AtRest(r) /\ r.disk = d /\ \A p \in PageIds : r.dir[p] = NoFrame
  BY <1>2, ImagesFacts, BlankFacts DEF AtRest, NoPins
<1> HIDE DEF r
<1>4. Latest(r, 0) = w /\ r.disk[0] = w
  <2>1. 0 \in PageIds
    BY SizesAre DEF PageIds
  <2> QED BY <1>2, <1>3, <2>1 DEF Latest
<1>5. pool \in PoolType(Images) /\ ImageBits(v) \subseteq PageIds
  BY <1>1, RestFacts, FitFacts
<1>6. FileHeadOK(w) /\ w # Zero
  BY <1>1, <1>5, SavedImageFits, SavedImageIs
<1>7. /\ w.pageNum = h.pageNum /\ w.phyNum = h.phyNum
      /\ w.bits = h.bits \cup {i \in ImageBits(v) : i >= h.bytes * BitsPerByte}
  BY DEF SavedImage, KeptBits
<1> HIDE DEF w, h, v
<1>8. ImageIs(Written(obj, page), w) /\ Written(obj, page).pageNum = obj.pageNum
  BY ONLY <1>1, <1>6, <1>7, WrittenImage
<1> QED BY <1>1, <1>3, <1>4, <1>6, <1>8 DEF HeadInv

LEMMA StutterGood ==
  ASSUME HeadInv, UNCHANGED vars
  PROVE  HeadInv'
<1>1. up' = up /\ obj' = obj /\ page' = page /\ pool' = pool
  BY DEF vars
<1> QED BY <1>1 DEF HeadInv

LEMMA StepGood == HeadInv /\ [Next]_vars => HeadInv'
<1> SUFFICES ASSUME HeadInv, [Next]_vars PROVE HeadInv'
  OBVIOUS
<1>1. CASE Open
  BY <1>1, OpenGood
<1>2. CASE AddPage
  BY <1>2, AddGood
<1>3. CASE ClosePool
  BY <1>3, CloseGood
<1>4. ASSUME NEW p \in PageIds \ {0}, DropPage(p) PROVE HeadInv'
  BY <1>4, DropGood
<1>5. CASE UNCHANGED vars
  BY <1>5, StutterGood
<1> QED BY <1>1, <1>2, <1>3, <1>4, <1>5 DEF Next
-----------------------------------------------------------------------------
\* HeadInv holds in every state: a pool between calls is consistent, its header
\* fits its file, and bitmap_, its counters and page 0 are the bytes of them.
THEOREM HeadIsInductive == Spec => []HeadInv
BY InitGood, StepGood, PTL DEF Spec

\* bitmap_ and the counters are the header that PoolOps has as a set of bits,
\* through the bytes new_page adds, the bits it sets and delete_page clears, and
\* the constructor's read of only as many bytes as page_num_ asks for.
THEOREM ObjFollowsHead == Spec => []ObjIsHead
<1>1. HeadInv => ObjIsHead
  <2> SUFFICES ASSUME HeadInv, up
               PROVE  [pageNum |-> obj.pageNum, phyNum |-> obj.phyNum,
                       bytes |-> Len(obj.bitmap), bits |-> Ones(obj.bitmap)] = pool.head
    BY DEF ObjIsHead
  <2>1. AtRest(pool) /\ ObjIs(obj, pool.head)
    BY DEF HeadInv
  <2>2. pool.head \in [pageNum : Int, phyNum : Nat, bytes : Nat, bits : SUBSET PageIds]
    BY <2>1, RestFacts DEF PoolType
  <2> DEFINE h == pool.head
             n == Len(obj.bitmap)
             b == Ones(obj.bitmap)
  <2>3. /\ obj.pageNum = h.pageNum /\ obj.phyNum = h.phyNum /\ n = h.bytes /\ b = h.bits
        /\ h \in [pageNum : Int, phyNum : Nat, bytes : Nat, bits : SUBSET PageIds]
    BY <2>1, <2>2 DEF ObjIs
  <2> HIDE DEF h, n, b
  <2>4. [pageNum |-> obj.pageNum, phyNum |-> obj.phyNum, bytes |-> n, bits |-> b] = h
    BY <2>3
  <2> QED BY <2>4 DEF h, n, b
<1> QED BY <1>1, HeadIsInductive, PTL

\* Page 0 in memory, or in the file, is what write2page made of head_ over what
\* the page had: the bits past the end of bitmap_ are those of an earlier one.
THEOREM PageFollowsImage == Spec => []PageIsImage
<1>1. HeadInv => PageIsImage
  <2> SUFFICES ASSUME HeadInv, page.pageNum # 0
               PROVE  [pageNum |-> page.pageNum, phyNum |-> page.phyNum,
                       bits |-> Ones(page.area)] = Latest(pool, 0)
    BY DEF PageIsImage
  <2> DEFINE v == Latest(pool, 0)
             b == Ones(page.area)
  <2>1. ImageIs(page, v) /\ v \in Images
    BY RestFacts DEF HeadInv
  <2> HIDE DEF v
  <2>2. v # Zero
    BY <2>1 DEF ImageIs, ImagePageNum
  <2>3. v \in [pageNum : Int, phyNum : Nat, bits : SUBSET PageIds]
    BY <2>1, <2>2 DEF Images, HeadImage
  <2>4. b = v.bits /\ page.pageNum = v.pageNum /\ page.phyNum = v.phyNum
    BY <2>1, <2>2 DEF ImageIs, ImageBits, ImagePageNum
  <2> HIDE DEF b
  <2>5. [pageNum |-> page.pageNum, phyNum |-> page.phyNum, bits |-> b] = v
    BY <2>3, <2>4
  <2> QED BY <2>5 DEF v, b
<1> QED BY <1>1, HeadIsInductive, PTL

\* The loops of first and first_after over bitmap_ give new_page the least page id
\* that is free, and a scanner the least page id in use past its own.
THEOREM LoopsFindLeast == Spec => []LoopsFind
<1>1. HeadInv => LoopsFind
  <2> SUFFICES ASSUME HeadInv, up PROVE LoopsFind
    BY DEF LoopsFind
  <2>1. AtRest(pool) /\ HeadFits(pool) /\ ObjIs(obj, pool.head)
    BY DEF HeadInv
  <2>2. Picked = PickedPid(pool)
    BY <2>1, RestFacts, PickedIs
  <2>3. ASSUME NEW p \in PageIds
        PROVE  LET q == FirstAfter(obj.bitmap, TRUE, p)
               IN  IF PidsAfter(pool, p) = {} THEN q = NoBit
                   ELSE q \in PidsAfter(pool, p) /\ \A j \in PidsAfter(pool, p) : q <= j
    BY <2>1, AfterIs
  <2> QED BY <2>2, <2>3 DEF LoopsFind
<1> QED BY <1>1, HeadIsInductive, PTL
=============================================================================
