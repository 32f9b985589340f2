---------------------------- MODULE CatalogProofs ---------------------------
(***************************************************************************)
(* The catalog's invariants for any names, schemas and rows.  They hold    *)
(* together.  What a kill leaves in name.db are rows that were inserted    *)
(* since it was made (RowsKnown), those fit the table (EverFits), unless   *)
(* its CREATE TABLE took over a file of another schema, and the schema a   *)
(* start finds is the table's (DroppedStaysDropped).                       *)
(***************************************************************************)
EXTENDS Catalog, SequenceTheorems, TLAPS

Json == {ToJson(s) : s \in Schemas}

DownIsEmpty == ~up => DOMAIN tables = {} /\ DOMAIN heaps = {}
FilesBehind ==
  \A n \in DOMAIN heaps : db[n] # NoFile /\ db[n] \in Between(<<>>, heaps[n])
TornStops == up => \A n \in Names : meta[n] # Torn
RowsKnown ==
  /\ \A n \in DOMAIN heaps : \A i \in DOMAIN heaps[n] : heaps[n][i] \in ever[n]
  /\ \A n \in Names : db[n] # NoFile => \A i \in DOMAIN db[n] : db[n][i] \in ever[n]
EverFits ==
  /\ \A n \in DOMAIN tables \ foreign : \A vs \in ever[n] : Fits(vs, tables[n])
  /\ \A n \in Names \ foreign : meta[n] \notin {NoFile, Torn} =>
       \A vs \in ever[n] : Fits(vs, FromJson(meta[n]))
IInv == /\ TypeOK /\ CatalogMatchesStore /\ DroppedStaysDropped /\ KeptSurvives
        /\ DownIsEmpty /\ FilesBehind /\ TornStops /\ RowsKnown /\ EverFits
-----------------------------------------------------------------------------
\* A schema is read from its JSON as it was written.
LEMMA JsonReadsBack ==
  ASSUME NEW s \in Schemas
  PROVE  FromJson(ToJson(s)) = s
<1>1. s \in Seq(Columns) /\ s \in [1..Len(s) -> Columns] /\ DOMAIN s = 1..Len(s)
  BY CatalogAssumption
<1>2. \A c \in Types : (CHOOSE t \in Types : Codes[t] = Codes[c]) = c
  BY DEF Types, Codes
<1>3. \A i \in DOMAIN s : s[i] \in Columns
  BY <1>1
<1>4. \A i \in DOMAIN s : s[i] = [type |-> s[i].type, size |-> s[i].size] /\ s[i].type \in Types
  BY <1>3 DEF Columns
<1>5. FromJson(ToJson(s)) = [i \in DOMAIN s |-> s[i]]
  BY <1>2, <1>4 DEF FromJson, ToJson
<1> QED BY <1>1, <1>5

\* Between(<<>>, t) has the prefixes of t.
LEMMA PrefixIff ==
  ASSUME NEW s \in Seq(Rows), NEW t \in Seq(Rows)
  PROVE  s \in Between(<<>>, t) <=> /\ Len(s) <= Len(t)
                                    /\ \A i \in 1..Len(s) : s[i] = t[i]
<1>1. \A k \in 0..Len(t) : /\ SubSeq(t, 1, k) \in Seq(Rows) /\ Len(SubSeq(t, 1, k)) = k
                           /\ \A i \in 1..k : SubSeq(t, 1, k)[i] = t[i]
  <2> TAKE k \in 0..Len(t)
  <2>1. Len(t) \in Nat /\ k \in Int /\ 1 \in Int /\ \A i \in 1..k : t[i] \in Rows
    OBVIOUS
  <2>2. /\ SubSeq(t, 1, k) \in Seq(Rows)
        /\ Len(SubSeq(t, 1, k)) = (IF 1 <= k THEN k - 1 + 1 ELSE 0)
        /\ \A i \in 1..k - 1 + 1 : SubSeq(t, 1, k)[i] = t[1 + i - 1]
    BY <2>1, SubSeqProperties
  <2> QED BY <2>1, <2>2
<1>2. ASSUME s \in Between(<<>>, t)
      PROVE  Len(s) <= Len(t) /\ \A i \in 1..Len(s) : s[i] = t[i]
  <2>1. PICK k \in 0..Len(t) : s = SubSeq(t, 1, k)
    BY <1>2 DEF Between
  <2> QED BY <1>1, <2>1
<1>3. ASSUME Len(s) <= Len(t), \A i \in 1..Len(s) : s[i] = t[i]
      PROVE  s \in Between(<<>>, t)
  <2>1. Len(s) \in 0..Len(t)
    BY <1>3
  <2>2. s = SubSeq(t, 1, Len(s))
    BY <1>1, <1>3, <2>1, SeqEqual
  <2> QED BY <2>1, <2>2 DEF Between
<1> QED BY <1>2, <1>3

\* What lies between a prefix of t and t is a prefix of t that the first is a
\* prefix of.
LEMMA BetweenFacts ==
  ASSUME NEW s \in Seq(Rows), NEW t \in Seq(Rows), s \in Between(<<>>, t),
         NEW u \in Between(s, t)
  PROVE  u \in Seq(Rows) /\ u \in Between(<<>>, t) /\ s \in Between(<<>>, u)
<1>1. Len(s) <= Len(t) /\ \A i \in 1..Len(s) : s[i] = t[i]
  BY PrefixIff
<1>2. PICK k \in Len(s)..Len(t) : u = SubSeq(t, 1, k)
  BY DEF Between
<1>3. k \in 0..Len(t) /\ \A i \in 1..k : t[i] \in Rows
  BY <1>2
<1>4. /\ u \in Seq(Rows)
      /\ Len(u) = (IF 1 <= k THEN k - 1 + 1 ELSE 0)
      /\ \A i \in 1..k - 1 + 1 : u[i] = t[1 + i - 1]
  BY <1>2, <1>3, SubSeqProperties
<1>5. Len(u) = k /\ \A i \in 1..k : u[i] = t[i]
  BY <1>3, <1>4
<1>6. u \in Between(<<>>, t)
  BY <1>2, <1>3 DEF Between
<1>7. Len(s) <= Len(u) /\ \A i \in 1..Len(s) : s[i] = u[i]
  <2>1. Len(s) \in Nat /\ Len(s) <= k
    BY <1>2
  <2> QED BY <1>1, <1>5, <2>1
<1>8. s \in Between(<<>>, u)
  BY <1>4, <1>7, PrefixIff
<1> QED BY <1>4, <1>6, <1>8

\* A prefix of known rows has known rows.
LEMMA PrefixKnown ==
  ASSUME NEW s \in Seq(Rows), NEW t \in Seq(Rows), NEW K, s \in Between(<<>>, t),
         \A i \in DOMAIN t : t[i] \in K
  PROVE  \A i \in DOMAIN s : s[i] \in K
BY PrefixIff

LEMMA PrefixSelf ==
  ASSUME NEW s \in Seq(Rows)
  PROVE  s \in Between(<<>>, s) /\ s \in Between(s, s)
<1>1. s \in Between(<<>>, s)
  BY PrefixIff
<1> QED BY <1>1, SubSeqFull DEF Between

LEMMA PrefixTrans ==
  ASSUME NEW s \in Seq(Rows), NEW t \in Seq(Rows), NEW u \in Seq(Rows),
         s \in Between(<<>>, t), t \in Between(<<>>, u)
  PROVE  s \in Between(<<>>, u)
BY PrefixIff
-----------------------------------------------------------------------------
LEMMA InitIInv == Init => IInv
<1> SUFFICES ASSUME Init PROVE IInv
  OBVIOUS
<1>1. DOMAIN tables = {} /\ DOMAIN heaps = {} /\ DOMAIN kept = {}
  BY DEF Init, NoTables
<1>2. TypeOK
  BY <1>1 DEF Init, TypeOK
<1> QED
  BY <1>1, <1>2, CatalogAssumption
  DEF Init, IInv, CatalogMatchesStore, DroppedStaysDropped, KeptSurvives,
      DownIsEmpty, FilesBehind, TornStops, RowsKnown, EverFits

\* What the invariant says of one table's heap and files.
LEMMA HeapFacts ==
  ASSUME IInv, NEW n \in DOMAIN heaps
  PROVE  /\ n \in Names /\ n \in DOMAIN tables /\ tables[n] \in Schemas
         /\ heaps[n] \in Seq(Rows) /\ db[n] \in Seq(Rows) /\ db[n] # NoFile
         /\ db[n] \in Between(<<>>, heaps[n])
         /\ \A i \in DOMAIN heaps[n] : heaps[n][i] \in ever[n]
         /\ n \notin foreign => \A vs \in ever[n] : Fits(vs, tables[n])
         /\ up /\ (meta[n] = NoFile \/ meta[n] = ToJson(tables[n]))
<1>1. /\ n \in Names /\ n \in DOMAIN tables /\ tables[n] \in Schemas
      /\ heaps[n] \in Seq(Rows) /\ db[n] \in Seq(Rows) /\ db[n] # NoFile
      /\ db[n] \in Between(<<>>, heaps[n]) /\ up /\ meta[n] \in Json \cup {NoFile}
  BY DEF IInv, TypeOK, CatalogMatchesStore, FilesBehind, DownIsEmpty, TornStops, Json
<1>2. /\ \A i \in DOMAIN heaps[n] : heaps[n][i] \in ever[n]
      /\ n \notin foreign => \A vs \in ever[n] : Fits(vs, tables[n])
  BY <1>1 DEF IInv, RowsKnown, EverFits
<1>3. CASE meta[n] # NoFile
  <2>1. FromJson(meta[n]) = tables[n]
    BY <1>1, <1>3 DEF IInv, DroppedStaysDropped
  <2>2. PICK s \in Schemas : meta[n] = ToJson(s)
    BY <1>1, <1>3 DEF Json
  <2> QED BY <1>1, <1>2, <2>1, <2>2, JsonReadsBack
<1> QED BY <1>1, <1>2, <1>3

\* A step that changes at most the heap and the data file of table n, the file
\* still a prefix of the heap and the rows known ones that fit, keeps the
\* invariant.
LEMMA RowsStep ==
  ASSUME IInv, NEW n \in DOMAIN heaps, NEW h \in Seq(Rows), NEW d \in Seq(Rows),
         NEW K \in SUBSET Rows,
         d \in Between(<<>>, h), db[n] \in Between(<<>>, d),
         \A i \in DOMAIN h : h[i] \in K,
         n \notin foreign => \A vs \in K : Fits(vs, tables[n]),
         DOMAIN heaps' = DOMAIN heaps, heaps'[n] = h,
         \A m \in DOMAIN heaps : m # n => heaps'[m] = heaps[m],
         db' = [db EXCEPT ![n] = d], ever' = [ever EXCEPT ![n] = K],
         UNCHANGED <<up, tables, meta, foreign, kept>>
  PROVE  IInv'
<1>1. d # NoFile /\ n \in Names
  BY CatalogAssumption, HeapFacts
<1>2. /\ db'[n] = d /\ ever'[n] = K
      /\ \A m \in Names : m # n => db'[m] = db[m] /\ ever'[m] = ever[m]
  BY <1>1 DEF IInv, TypeOK
<1>3. TypeOK'
  BY <1>2 DEF IInv, TypeOK
<1>4. CatalogMatchesStore' /\ DroppedStaysDropped' /\ DownIsEmpty' /\ TornStops'
  BY <1>2 DEF IInv, CatalogMatchesStore, DroppedStaysDropped, DownIsEmpty, TornStops
<1>5. FilesBehind'
  BY <1>1, <1>2, HeapFacts DEF IInv, FilesBehind
<1>6. RowsKnown'
  <2>1. \A i \in DOMAIN d : d[i] \in K
    BY PrefixKnown
  <2>2. \A m \in DOMAIN heaps : m \in Names
    BY HeapFacts
  <2> QED BY <1>2, <2>1, <2>2 DEF IInv, RowsKnown
<1>7. EverFits'
  <2>1. ASSUME meta[n] # NoFile PROVE FromJson(meta[n]) = tables[n]
    BY <2>1, HeapFacts, JsonReadsBack
  <2>2. \A m \in DOMAIN tables : m \in Names
    BY DEF IInv, TypeOK
  <2> QED BY <1>2, <2>1, <2>2 DEF IInv, EverFits
<1>8. KeptSurvives'
  <2> SUFFICES ASSUME NEW m \in DOMAIN kept
               PROVE  /\ meta[m] \in {ToJson(kept[m].cols), Torn} /\ db'[m] # NoFile
                      /\ kept[m].rows \in Between(<<>>, db'[m])
    BY DEF KeptSurvives
  <2>1. m \in Names /\ kept[m].rows \in Seq(Rows)
    BY DEF IInv, TypeOK
  <2>2. /\ meta[m] \in {ToJson(kept[m].cols), Torn} /\ db[m] # NoFile
        /\ kept[m].rows \in Between(<<>>, db[m])
    BY DEF IInv, KeptSurvives
  <2>3. CASE m = n
    BY <1>1, <1>2, <2>1, <2>2, <2>3, HeapFacts, PrefixTrans
  <2> QED BY <1>2, <2>1, <2>2, <2>3
<1> QED BY <1>3, <1>4, <1>5, <1>6, <1>7, <1>8 DEF IInv

LEMMA OpenedFacts ==
  ASSUME IInv, NEW n \in Names
  PROVE  /\ Opened(n) \in Seq(Rows) /\ Opened(n) # NoFile
         /\ \A i \in DOMAIN Opened(n) : Opened(n)[i] \in ever[n]
<1>1. <<>> \in Seq(Rows) /\ db[n] \in Seq(Rows) \cup {NoFile} /\ NoFile \notin Seq(Rows)
  BY EmptySeq, CatalogAssumption DEF IInv, TypeOK
<1>2. CASE db[n] = NoFile
  <2>1. Opened(n) = <<>>
    BY <1>2 DEF Opened
  <2>2. \A i \in DOMAIN <<>> : FALSE
    OBVIOUS
  <2>3. \A i \in DOMAIN Opened(n) : FALSE
    BY <2>1, <2>2
  <2> QED BY <1>1, <2>1, <2>3
<1>3. CASE db[n] # NoFile
  <2>1. Opened(n) = db[n]
    BY <1>3 DEF Opened
  <2>2. \A i \in DOMAIN db[n] : db[n][i] \in ever[n]
    BY <1>3 DEF IInv, RowsKnown
  <2> QED BY <1>1, <1>3, <2>1, <2>2
<1> QED BY <1>2, <1>3

LEMMA StartStep == ASSUME IInv, Start PROVE IInv'
<1> DEFINE found == {n \in Names : meta[n] # NoFile}
<1>1. \A n \in Names : /\ Opened(n) \in Seq(Rows) /\ Opened(n) # NoFile
                       /\ \A i \in DOMAIN Opened(n) : Opened(n)[i] \in ever[n]
  BY OpenedFacts
<1>2. \A n \in Names : meta[n] # Torn
  BY DEF Start
<1>3. \A n \in found : meta[n] \in Json /\ FromJson(meta[n]) \in Schemas
                       /\ ToJson(FromJson(meta[n])) = meta[n]
  BY <1>2, JsonReadsBack DEF IInv, TypeOK, Json
<1>4. /\ up' /\ meta' = meta /\ kept' = kept /\ ever' = ever /\ foreign' = foreign
      /\ DOMAIN tables' = found /\ DOMAIN heaps' = found
      /\ \A n \in found : /\ tables'[n] = FromJson(meta[n])
                          /\ heaps'[n] = Opened(n) /\ db'[n] = Opened(n)
      /\ \A n \in Names \ found : db'[n] = db[n]
      /\ db' = [n \in Names |-> IF n \in found THEN Opened(n) ELSE db[n]]
  BY DEF Start
<1>5. TypeOK'
  <2>1. db' \in [Names -> Seq(Rows) \cup {NoFile}]
    BY <1>1, <1>4 DEF IInv, TypeOK
  <2> QED BY <1>1, <1>3, <1>4, <2>1 DEF IInv, TypeOK
<1>6. CatalogMatchesStore' /\ DroppedStaysDropped' /\ DownIsEmpty' /\ TornStops'
  BY <1>2, <1>4 DEF CatalogMatchesStore, DroppedStaysDropped, DownIsEmpty, TornStops
<1>7. FilesBehind'
  BY <1>1, <1>4, PrefixSelf DEF FilesBehind
<1>8. RowsKnown'
  BY <1>1, <1>4 DEF IInv, RowsKnown
<1>9. EverFits'
  BY <1>2, <1>4 DEF IInv, EverFits
<1>10. KeptSurvives'
  <2> SUFFICES ASSUME NEW m \in DOMAIN kept
               PROVE  /\ meta[m] \in {ToJson(kept[m].cols), Torn} /\ db'[m] # NoFile
                      /\ kept[m].rows \in Between(<<>>, db'[m])
    BY <1>4 DEF KeptSurvives
  <2>1. /\ m \in Names /\ meta[m] \in {ToJson(kept[m].cols), Torn} /\ db[m] # NoFile
        /\ kept[m].rows \in Between(<<>>, db[m])
    BY DEF IInv, TypeOK, KeptSurvives
  <2>2. db'[m] = db[m]
    BY <1>4, <2>1 DEF Opened
  <2> QED BY <2>1, <2>2
<1> QED BY <1>5, <1>6, <1>7, <1>8, <1>9, <1>10 DEF IInv

LEMMA CreateStep ==
  ASSUME IInv, NEW n \in Names, NEW cols \in Schemas, Create(n, cols)
  PROVE  IInv'
<1>1. /\ Opened(n) \in Seq(Rows) /\ Opened(n) # NoFile
      /\ \A i \in DOMAIN Opened(n) : Opened(n)[i] \in ever[n]
  BY OpenedFacts
<1>2. /\ up /\ up' /\ n \notin DOMAIN tables /\ n \notin DOMAIN heaps
      /\ meta' = meta /\ kept' = kept /\ ever' = ever
      /\ DOMAIN tables' = DOMAIN tables \cup {n} /\ tables'[n] = cols
      /\ \A m \in DOMAIN tables : tables'[m] = tables[m]
      /\ DOMAIN heaps' = DOMAIN heaps \cup {n} /\ heaps'[n] = Opened(n)
      /\ \A m \in DOMAIN heaps : heaps'[m] = heaps[m]
      /\ db' = [db EXCEPT ![n] = Opened(n)]
  BY DEF With, Create, IInv, CatalogMatchesStore
<1>3. db'[n] = Opened(n) /\ \A m \in Names : m # n => db'[m] = db[m]
  BY <1>2 DEF IInv, TypeOK
<1>4. meta[n] = NoFile
  BY <1>2 DEF IInv, DroppedStaysDropped
<1>5. /\ n \notin foreign' => \A vs \in ever[n] : Fits(vs, cols)
      /\ foreign' \subseteq Names /\ \A m \in Names : m # n => (m \in foreign' <=> m \in foreign)
  BY DEF Create, IInv, TypeOK
<1>6. TypeOK'
  <2>1. db' \in [Names -> Seq(Rows) \cup {NoFile}]
    BY <1>1, <1>2 DEF IInv, TypeOK
  <2> QED BY <1>1, <1>2, <1>5, <2>1 DEF IInv, TypeOK
<1>7. CatalogMatchesStore' /\ DroppedStaysDropped' /\ DownIsEmpty' /\ TornStops'
  BY <1>2, <1>4 DEF IInv, CatalogMatchesStore, DroppedStaysDropped, DownIsEmpty, TornStops
<1>8. FilesBehind'
  BY <1>1, <1>2, <1>3, HeapFacts, PrefixSelf DEF IInv, FilesBehind
<1>9. RowsKnown'
  BY <1>1, <1>2, <1>3, HeapFacts DEF IInv, RowsKnown
<1>10. EverFits'
  <2>1. \A m \in DOMAIN tables : m \in Names /\ m # n
    BY <1>2 DEF IInv, TypeOK
  <2> QED BY <1>2, <1>4, <1>5, <2>1 DEF IInv, EverFits
<1>11. KeptSurvives'
  <2> SUFFICES ASSUME NEW m \in DOMAIN kept
               PROVE  /\ meta[m] \in {ToJson(kept[m].cols), Torn} /\ db'[m] # NoFile
                      /\ kept[m].rows \in Between(<<>>, db'[m])
    BY <1>2 DEF KeptSurvives
  <2>1. /\ m \in Names /\ meta[m] \in {ToJson(kept[m].cols), Torn} /\ db[m] # NoFile
        /\ kept[m].rows \in Between(<<>>, db[m])
    BY DEF IInv, TypeOK, KeptSurvives
  <2>2. db'[m] = db[m]
    BY <1>3, <2>1 DEF Opened
  <2> QED BY <2>1, <2>2
<1> QED BY <1>6, <1>7, <1>8, <1>9, <1>10, <1>11 DEF IInv

LEMMA InsertStep ==
  ASSUME IInv, NEW n \in Names, NEW vs \in Rows, Insert(n, vs)
  PROVE  IInv'
<1> DEFINE h == Append(heaps[n], vs)
           K == ever[n] \cup {vs}
<1>1. n \in DOMAIN heaps /\ Fits(vs, tables[n])
  BY DEF Insert, IInv, CatalogMatchesStore
<1>2. heaps[n] \in Seq(Rows) /\ db[n] \in Seq(Rows) /\ db[n] \in Between(<<>>, heaps[n])
  BY <1>1, HeapFacts
<1>3. /\ h \in Seq(Rows) /\ Len(h) = Len(heaps[n]) + 1
      /\ \A i \in 1..Len(heaps[n]) : h[i] = heaps[n][i]
      /\ h[Len(heaps[n]) + 1] = vs
  BY <1>2
<1> HIDE DEF h
<1>4. heaps[n] \in Between(<<>>, h)
  <2>1. Len(heaps[n]) \in Nat /\ Len(heaps[n]) <= Len(h)
    BY <1>2, <1>3
  <2> QED BY <1>2, <1>3, <2>1, PrefixIff
<1>5. /\ \A i \in DOMAIN h : h[i] \in K
      /\ n \notin foreign => \A v \in K : Fits(v, tables[n])
  BY <1>1, <1>2, <1>3, HeapFacts
<1>6. db[n] \in Between(<<>>, h) /\ db[n] \in Between(<<>>, db[n])
  BY <1>2, <1>3, <1>4, PrefixTrans, PrefixSelf
<1>7. K \in SUBSET Rows
  BY DEF IInv, TypeOK
<1>8. /\ DOMAIN heaps' = DOMAIN heaps /\ heaps'[n] = h
      /\ \A m \in DOMAIN heaps : m # n => heaps'[m] = heaps[m]
      /\ db' = [db EXCEPT ![n] = db[n]] /\ ever' = [ever EXCEPT ![n] = K]
      /\ UNCHANGED <<up, tables, meta, foreign, kept>>
  BY <1>1 DEF Insert, IInv, TypeOK, h
<1> HIDE DEF K
<1> QED BY <1>1, <1>2, <1>3, <1>5, <1>6, <1>7, <1>8, RowsStep

LEMMA PersistStep ==
  ASSUME IInv, NEW n \in Names, Persist(n)
  PROVE  IInv'
<1>1. n \in DOMAIN heaps
  BY DEF Persist
<1>2. PICK d \in Between(db[n], heaps[n]) : db' = [db EXCEPT ![n] = d]
  BY DEF Persist
<1>3. /\ heaps[n] \in Seq(Rows) /\ db[n] \in Seq(Rows) /\ db[n] \in Between(<<>>, heaps[n])
      /\ \A i \in DOMAIN heaps[n] : heaps[n][i] \in ever[n]
      /\ n \notin foreign => \A v \in ever[n] : Fits(v, tables[n])
  BY <1>1, HeapFacts
<1>4. d \in Seq(Rows) /\ d \in Between(<<>>, heaps[n]) /\ db[n] \in Between(<<>>, d)
  BY <1>3, BetweenFacts
<1>5. ever[n] \in SUBSET Rows /\ ever' = [ever EXCEPT ![n] = ever[n]]
  BY DEF Persist, IInv, TypeOK
<1>6. heaps' = heaps /\ UNCHANGED <<up, tables, meta, foreign, kept>>
  BY DEF Persist
<1> QED BY <1>1, <1>2, <1>3, <1>4, <1>5, <1>6, RowsStep

LEMMA DropStep ==
  ASSUME IInv, NEW n \in Names, Drop(n)
  PROVE  IInv'
<1>1. /\ up' = up /\ n \in DOMAIN tables /\ foreign' = foreign
      /\ DOMAIN tables' = DOMAIN tables \ {n} /\ DOMAIN heaps' = DOMAIN heaps \ {n}
      /\ DOMAIN kept' = DOMAIN kept \ {n}
      /\ \A m \in DOMAIN tables \ {n} : tables'[m] = tables[m]
      /\ \A m \in DOMAIN heaps \ {n} : heaps'[m] = heaps[m]
      /\ \A m \in DOMAIN kept \ {n} : kept'[m] = kept[m]
  BY DEF Without, Drop
<1>2. /\ meta' = [meta EXCEPT ![n] = NoFile] /\ db' = [db EXCEPT ![n] = NoFile]
      /\ ever' = [ever EXCEPT ![n] = {}]
  BY DEF Drop
<1>3. /\ meta'[n] = NoFile /\ db'[n] = NoFile
      /\ \A m \in Names : m # n => meta'[m] = meta[m] /\ db'[m] = db[m] /\ ever'[m] = ever[m]
      /\ DOMAIN tables \subseteq Names /\ DOMAIN heaps \subseteq Names
  BY <1>2 DEF IInv, TypeOK
<1>4. TypeOK'
  BY <1>1, <1>2 DEF IInv, TypeOK
<1>5. CatalogMatchesStore' /\ DroppedStaysDropped' /\ DownIsEmpty' /\ TornStops'
  BY <1>1, <1>3, CatalogAssumption
  DEF IInv, CatalogMatchesStore, DroppedStaysDropped, DownIsEmpty, TornStops
<1>6. FilesBehind'
  BY <1>1, <1>3 DEF IInv, FilesBehind
<1>7. RowsKnown'
  BY <1>1, <1>3 DEF IInv, RowsKnown
<1>8. EverFits'
  BY <1>1, <1>3 DEF IInv, EverFits
<1>9. KeptSurvives'
  BY <1>1, <1>3 DEF IInv, TypeOK, KeptSurvives
<1> QED BY <1>4, <1>5, <1>6, <1>7, <1>8, <1>9 DEF IInv

LEMMA RemoveLeftoverStep ==
  ASSUME IInv, NEW n \in Names, RemoveLeftover(n)
  PROVE  IInv'
<1>1. /\ ~up /\ meta[n] = NoFile /\ db' = [db EXCEPT ![n] = NoFile]
      /\ ever' = [ever EXCEPT ![n] = {}]
      /\ UNCHANGED <<up, tables, heaps, meta, foreign, kept>>
  BY DEF RemoveLeftover
<1>2. /\ db'[n] = NoFile /\ ever'[n] = {}
      /\ \A m \in Names : m # n => db'[m] = db[m] /\ ever'[m] = ever[m]
  BY <1>1 DEF IInv, TypeOK
<1>3. DOMAIN tables = {} /\ DOMAIN heaps = {}
  BY <1>1 DEF IInv, DownIsEmpty
<1>4. TypeOK'
  BY <1>1 DEF IInv, TypeOK
<1>5. CatalogMatchesStore' /\ DroppedStaysDropped' /\ DownIsEmpty' /\ TornStops' /\ FilesBehind'
  BY <1>1, <1>3 DEF CatalogMatchesStore, DroppedStaysDropped, DownIsEmpty, TornStops, FilesBehind
<1>6. RowsKnown' /\ EverFits'
  BY <1>1, <1>2, <1>3 DEF IInv, RowsKnown, EverFits
<1>7. n \notin DOMAIN kept
  <2> SUFFICES ASSUME n \in DOMAIN kept PROVE FALSE
    OBVIOUS
  <2>1. meta[n] \in {ToJson(kept[n].cols), Torn} /\ kept[n].cols \in Schemas
    BY DEF IInv, TypeOK, KeptSurvives
  <2> QED BY <1>1, <2>1, CatalogAssumption
<1>8. KeptSurvives'
  BY <1>1, <1>2, <1>7 DEF IInv, TypeOK, KeptSurvives
<1> QED BY <1>4, <1>5, <1>6, <1>8 DEF IInv

LEMMA RemoveTornStep ==
  ASSUME IInv, NEW n \in Names, RemoveTorn(n)
  PROVE  IInv'
<1>1. /\ ~up /\ meta' = [meta EXCEPT ![n] = NoFile]
      /\ DOMAIN kept' = DOMAIN kept \ {n} /\ \A m \in DOMAIN kept \ {n} : kept'[m] = kept[m]
      /\ UNCHANGED <<up, tables, heaps, db, ever, foreign>>
  BY DEF RemoveTorn, Without
<1>2. /\ meta'[n] = NoFile /\ \A m \in Names : m # n => meta'[m] = meta[m]
      /\ DOMAIN kept \subseteq Names /\ DOMAIN tables = {} /\ DOMAIN heaps = {}
  BY <1>1 DEF IInv, TypeOK, DownIsEmpty
<1>3. TypeOK'
  BY <1>1 DEF IInv, TypeOK
<1>4. CatalogMatchesStore' /\ DroppedStaysDropped' /\ DownIsEmpty' /\ TornStops' /\ FilesBehind'
  BY <1>1, <1>2 DEF CatalogMatchesStore, DroppedStaysDropped, DownIsEmpty, TornStops, FilesBehind
<1>5. RowsKnown' /\ EverFits'
  BY <1>1, <1>2 DEF IInv, RowsKnown, EverFits
<1>6. KeptSurvives'
  BY <1>1, <1>2 DEF IInv, KeptSurvives
<1> QED BY <1>3, <1>4, <1>5, <1>6 DEF IInv

\* name.db has d, the rows it had and maybe known ones after them.
Grown(n, d) ==
  /\ d \in Seq(Rows) /\ db[n] \in Between(<<>>, d)
  /\ \A i \in DOMAIN d : d[i] \in ever[n]

\* The process ends, however far it had got: each name.json is the old one, the
\* table's, cut off, or (a dropped table's) gone; each name.db has at least
\* what it had.
LEMMA StopStep ==
  ASSUME IInv, Stop,
         DOMAIN meta' = Names, meta' = [n \in Names |-> meta'[n]],
         DOMAIN db' = Names, db' = [n \in Names |-> db'[n]],
         \A n \in Names : meta'[n] \in {meta[n], MetaWritten(n), NoFile, Torn},
         \A n \in Names : db'[n] = db[n] \/ (n \in DOMAIN heaps /\ Grown(n, db'[n])),
         \A n \in DOMAIN kept' :
           \/ /\ n \in DOMAIN kept /\ kept'[n] = kept[n]
              /\ meta'[n] \in {meta[n], MetaWritten(n), Torn}
           \/ /\ n \in DOMAIN tables /\ kept'[n] = [cols |-> tables[n], rows |-> db'[n]]
              /\ meta'[n] = MetaWritten(n)
  PROVE  IInv'
<1>1. /\ up /\ ~up' /\ DOMAIN tables' = {} /\ DOMAIN heaps' = {}
      /\ ever' = ever /\ foreign' = foreign
  BY DEF Stop, NoTables
<1>2. \A n \in DOMAIN tables : n \in DOMAIN heaps /\ MetaWritten(n) = ToJson(tables[n])
  BY DEF IInv, CatalogMatchesStore, MetaWritten
<1>3. \A n \in Names : n \notin DOMAIN tables => MetaWritten(n) = meta[n]
  BY DEF MetaWritten
<1>4. ASSUME NEW n \in Names
      PROVE  meta'[n] \in Json \cup {NoFile, Torn}
  <2>1. meta[n] \in Json \cup {NoFile}
    BY <1>1 DEF IInv, TypeOK, TornStops, Json
  <2>2. n \in DOMAIN tables => MetaWritten(n) \in Json
    BY <1>2, HeapFacts DEF Json
  <2> QED BY <1>3, <2>1, <2>2
<1>5. ASSUME NEW n \in Names
      PROVE  /\ db'[n] \in Seq(Rows) \cup {NoFile}
             /\ db'[n] # NoFile => \A i \in DOMAIN db'[n] : db'[n][i] \in ever[n]
             /\ db[n] # NoFile => /\ db[n] \in Seq(Rows) /\ db'[n] \in Seq(Rows)
                                  /\ db'[n] # NoFile
                                  /\ db[n] \in Between(<<>>, db'[n])
  <2>1. db[n] \in Seq(Rows) \cup {NoFile} /\ NoFile \notin Seq(Rows)
    BY CatalogAssumption DEF IInv, TypeOK
  <2>2. CASE db'[n] = db[n]
    BY <2>1, <2>2, PrefixSelf DEF IInv, RowsKnown
  <2>3. CASE n \in DOMAIN heaps /\ Grown(n, db'[n])
    BY <2>1, <2>3 DEF Grown
  <2> QED BY <2>2, <2>3
<1>6. ASSUME NEW n \in DOMAIN kept'
      PROVE  /\ n \in Names /\ kept'[n].cols \in Schemas /\ kept'[n].rows \in Seq(Rows)
             /\ meta'[n] \in {ToJson(kept'[n].cols), Torn}
             /\ db'[n] # NoFile /\ kept'[n].rows \in Between(<<>>, db'[n])
  <2>1. CASE n \in DOMAIN kept /\ kept'[n] = kept[n] /\ meta'[n] \in {meta[n], MetaWritten(n), Torn}
    <3>1. /\ n \in Names /\ kept[n].cols \in Schemas /\ kept[n].rows \in Seq(Rows)
          /\ meta[n] = ToJson(kept[n].cols)
          /\ db[n] # NoFile /\ kept[n].rows \in Between(<<>>, db[n])
      BY <1>1, <2>1 DEF IInv, TypeOK, KeptSurvives, TornStops
    <3>2. meta[n] \in Json /\ meta[n] # NoFile
      <4>1. meta[n] \in Json
        BY <3>1 DEF Json
      <4> QED BY <4>1, CatalogAssumption DEF Json
    <3>3. MetaWritten(n) = meta[n]
      <4>1. CASE n \in DOMAIN tables
        <5>1. n \in DOMAIN heaps /\ MetaWritten(n) = ToJson(tables[n])
          BY <1>2, <4>1
        <5>2. meta[n] = NoFile \/ meta[n] = ToJson(tables[n])
          BY <5>1, HeapFacts
        <5> QED BY <3>2, <5>1, <5>2
      <4> QED BY <1>3, <3>1, <4>1
    <3>4. kept[n].rows \in Between(<<>>, db'[n])
      BY <1>5, <3>1, PrefixTrans
    <3> QED BY <1>5, <2>1, <3>1, <3>3, <3>4
  <2>2. CASE /\ n \in DOMAIN tables /\ kept'[n] = [cols |-> tables[n], rows |-> db'[n]]
             /\ meta'[n] = MetaWritten(n)
    <3>1. n \in DOMAIN heaps /\ n \in Names /\ tables[n] \in Schemas /\ db[n] # NoFile
      BY <1>2, <2>2, HeapFacts
    <3>2. db'[n] \in Seq(Rows) /\ db'[n] # NoFile /\ db'[n] \in Between(<<>>, db'[n])
      BY <1>5, <3>1, PrefixSelf
    <3> QED BY <1>2, <2>2, <3>1, <3>2
  <2> QED BY <2>1, <2>2
<1>7. TypeOK'
  <2>1. meta' \in [Names -> Json \cup {NoFile, Torn}]
    BY <1>4
  <2>2. db' \in [Names -> Seq(Rows) \cup {NoFile}]
    BY <1>5
  <2>3. up' \in BOOLEAN
    BY DEF Stop
  <2>4. ever' \in [Names -> SUBSET Rows] /\ foreign' \subseteq Names
    BY <1>1 DEF IInv, TypeOK
  <2> QED BY <1>1, <1>6, <2>1, <2>2, <2>3, <2>4 DEF TypeOK, Json
<1>8. CatalogMatchesStore' /\ DroppedStaysDropped' /\ DownIsEmpty' /\ TornStops' /\ FilesBehind'
  BY <1>1 DEF CatalogMatchesStore, DroppedStaysDropped, DownIsEmpty, TornStops, FilesBehind
<1>9. KeptSurvives'
  BY <1>6 DEF KeptSurvives
<1>10. RowsKnown'
  BY <1>1, <1>5 DEF RowsKnown
<1>11. ASSUME NEW n \in Names \ foreign, meta'[n] \notin {NoFile, Torn}
       PROVE  \A vs \in ever[n] : Fits(vs, FromJson(meta'[n]))
  <2>1. CASE n \in DOMAIN tables /\ meta'[n] = MetaWritten(n)
    <3>1. meta'[n] = ToJson(tables[n]) /\ n \in DOMAIN heaps
      BY <1>2, <2>1
    <3>2. tables[n] \in Schemas /\ \A vs \in ever[n] : Fits(vs, tables[n])
      BY <1>11, <3>1, HeapFacts
    <3> QED BY <3>1, <3>2, JsonReadsBack
  <2>2. CASE meta'[n] = meta[n]
    BY <1>11, <2>2 DEF IInv, EverFits
  <2> QED BY <1>3, <1>11, <2>1, <2>2
<1>12. EverFits'
  BY <1>1, <1>11 DEF EverFits
<1> QED BY <1>7, <1>8, <1>9, <1>10, <1>12 DEF IInv

\* All of a heap, what a kill may leave of it, and the file as it is.
LEMMA GrownFacts ==
  ASSUME IInv, NEW n \in DOMAIN heaps
  PROVE  /\ Grown(n, heaps[n])
         /\ \A d \in Left(n) : Grown(n, d)
<1>1. /\ heaps[n] \in Seq(Rows) /\ db[n] \in Seq(Rows) /\ db[n] \in Between(<<>>, heaps[n])
      /\ \A i \in DOMAIN heaps[n] : heaps[n][i] \in ever[n]
      /\ n \in Names /\ ever[n] \subseteq Rows
      /\ \A i \in DOMAIN db[n] : db[n][i] \in ever[n]
  BY HeapFacts DEF IInv, RowsKnown, TypeOK
<1>2. ASSUME NEW d \in Left(n)
      PROVE  Grown(n, d)
  <2>1. PICK k \in 0..RowBound - Len(db[n]) : \E t \in [1..k -> ever[n]] : d = db[n] \o t
    BY DEF Left
  <2> PICK t \in [1..k -> ever[n]] : d = db[n] \o t
    BY <2>1
  <2>2. k \in Nat /\ RowBound \in Nat
    BY <1>1, CatalogAssumption
  <2>3. t \in Seq(Rows) /\ Len(t) = k /\ \A i \in 1..k : t[i] \in ever[n]
    <3>1. t \in [1..k -> Rows]
      BY <1>1, <2>1
    <3> QED BY <2>1, <2>2, <3>1
  <2>4. /\ d \in Seq(Rows) /\ Len(d) = Len(db[n]) + Len(t)
        /\ \A i \in 1..Len(db[n]) + Len(t) :
             d[i] = IF i <= Len(db[n]) THEN db[n][i] ELSE t[i - Len(db[n])]
    BY <1>1, <2>1, <2>3, ConcatProperties
  <2>5. Len(db[n]) \in Nat /\ Len(t) \in Nat
    BY <1>1, <2>3
  <2>6. db[n] \in Between(<<>>, d)
    <3>1. Len(db[n]) <= Len(d) /\ \A i \in 1..Len(db[n]) : db[n][i] = d[i]
      BY <2>4, <2>5
    <3> QED BY <1>1, <2>4, <3>1, PrefixIff
  <2>7. ASSUME NEW i \in DOMAIN d
        PROVE  d[i] \in ever[n]
    <3>1. i \in 1..Len(db[n]) + Len(t)
      BY <2>4
    <3>2. CASE i <= Len(db[n])
      BY <1>1, <2>4, <2>5, <3>1, <3>2
    <3>3. CASE i > Len(db[n])
      <4>1. i - Len(db[n]) \in 1..k
        BY <2>3, <2>5, <3>1, <3>3
      <4>2. d[i] = t[i - Len(db[n])]
        BY <2>4, <2>5, <3>1, <3>3
      <4> QED BY <2>3, <4>1, <4>2
    <3> QED BY <2>5, <3>1, <3>2, <3>3
  <2> QED BY <2>4, <2>6, <2>7 DEF Grown
<1> QED BY <1>1, <1>2 DEF Grown

LEMMA ExitStep ==
  ASSUME IInv, NEW saved \in SUBSET DOMAIN heaps, Exit(saved)
  PROVE  IInv'
<1>1. /\ Stop /\ meta' = [n \in Names |-> MetaWritten(n)]
      /\ db' = [n \in Names |-> HeapClosed(n, saved)] /\ kept' = Saved(saved)
  BY DEF Exit
<1>2. DOMAIN tables = DOMAIN heaps /\ DOMAIN tables \subseteq Names
  BY DEF IInv, TypeOK, CatalogMatchesStore
<1>3. \A n \in Names : db'[n] = db[n] \/ (n \in DOMAIN heaps /\ Grown(n, db'[n]))
  BY <1>1, GrownFacts DEF HeapClosed
<1>4. /\ DOMAIN kept' = DOMAIN tables
      /\ \A n \in DOMAIN tables : kept'[n] = [cols |-> tables[n], rows |-> db'[n]]
  BY <1>1, <1>2 DEF Saved
<1> QED BY <1>1, <1>2, <1>3, <1>4, StopStep

LEMMA CrashStep == ASSUME IInv, Crash PROVE IInv'
<1>1. Stop /\ meta' = meta /\ db' = db /\ kept' = kept
  BY DEF Crash
<1>2. /\ meta = [n \in Names |-> meta[n]] /\ db = [n \in Names |-> db[n]]
      /\ DOMAIN meta = Names /\ DOMAIN db = Names /\ DOMAIN kept \subseteq Names
  BY DEF IInv, TypeOK
<1> QED BY <1>1, <1>2, StopStep

LEMMA CrashInDropStep ==
  ASSUME IInv, NEW n \in Names, CrashInDrop(n)
  PROVE  IInv'
<1>1. n \in DOMAIN heaps /\ Stop /\ meta' = [meta EXCEPT ![n] = NoFile]
  BY DEF CrashInDrop, IInv, CatalogMatchesStore
<1>2. PICK d \in Left(n) : db' = [db EXCEPT ![n] = d]
  BY DEF CrashInDrop
<1>3. /\ meta = [m \in Names |-> meta[m]] /\ db = [m \in Names |-> db[m]]
      /\ DOMAIN meta = Names /\ DOMAIN db = Names
  BY DEF IInv, TypeOK
<1>4. /\ DOMAIN kept' = DOMAIN kept \ {n}
      /\ \A m \in DOMAIN kept' : kept'[m] = kept[m] /\ m # n /\ m \in Names
  BY DEF CrashInDrop, Without, IInv, TypeOK
<1>5. Grown(n, d)
  BY <1>1, GrownFacts
<1> QED BY <1>1, <1>2, <1>3, <1>4, <1>5, StopStep

LEMMA CrashInExitStep ==
  ASSUME IInv, NEW last \in Names, NEW saved \in SUBSET DOMAIN heaps,
         CrashInExit(last, saved)
  PROVE  IInv'
<1>1. /\ Stop /\ kept' = kept /\ last \in DOMAIN heaps
      /\ meta' = [n \in Names |-> MetaWritten(n)]
  BY DEF CrashInExit
<1>2. PICK d \in Left(last) :
        db' = [n \in Names |-> IF n < last THEN HeapClosed(n, saved)
                               ELSE IF n = last THEN d ELSE db[n]]
  BY DEF CrashInExit
<1>3. Grown(last, d)
  BY <1>1, GrownFacts
<1>4. \A n \in Names : db'[n] = db[n] \/ (n \in DOMAIN heaps /\ Grown(n, db'[n]))
  BY <1>1, <1>2, <1>3, GrownFacts DEF HeapClosed
<1>5. DOMAIN kept \subseteq Names
  BY DEF IInv, TypeOK
<1> QED BY <1>1, <1>2, <1>4, <1>5, StopStep

LEMMA CrashInSaveStep ==
  ASSUME IInv, NEW last \in Names, NEW c \in {MetaWritten(last), Torn}, CrashInSave(last, c)
  PROVE  IInv'
<1>1. /\ Stop /\ kept' = kept /\ db' = db
      /\ meta' = [n \in Names |-> IF n < last THEN MetaWritten(n)
                                  ELSE IF n = last THEN c ELSE meta[n]]
  BY DEF CrashInSave
<1>2. db = [n \in Names |-> db[n]] /\ DOMAIN db = Names /\ DOMAIN kept \subseteq Names
  BY DEF IInv, TypeOK
<1>3. \A n \in Names : meta'[n] \in {meta[n], MetaWritten(n), Torn}
  BY <1>1
<1> QED BY <1>1, <1>2, <1>3, StopStep
-----------------------------------------------------------------------------
LEMMA NextStep == IInv /\ [Next]_vars => IInv'
<1> SUFFICES ASSUME IInv, [Next]_vars PROVE IInv'
  OBVIOUS
<1>1. CASE \E n \in Names, cols \in Schemas : Create(n, cols)
  BY <1>1, CreateStep
<1>2. CASE \E n \in Names, vs \in Rows : Insert(n, vs)
  BY <1>2, InsertStep
<1>3. CASE \E n \in Names : \/ Persist(n) \/ Drop(n) \/ CrashInDrop(n)
                            \/ RemoveLeftover(n) \/ RemoveTorn(n)
  BY <1>3, PersistStep, DropStep, CrashInDropStep, RemoveLeftoverStep, RemoveTornStep
<1>4. CASE \E n \in Names : \/ \E c \in {MetaWritten(n), Torn} : CrashInSave(n, c)
                            \/ \E saved \in SUBSET DOMAIN heaps : CrashInExit(n, saved)
  BY <1>4, CrashInSaveStep, CrashInExitStep
<1>5. CASE Start \/ Crash \/ \E saved \in SUBSET DOMAIN heaps : Exit(saved)
  BY <1>5, StartStep, ExitStep, CrashStep
<1>6. CASE UNCHANGED vars
  BY <1>6 DEF vars, IInv, TypeOK, CatalogMatchesStore, DroppedStaysDropped,
              KeptSurvives, DownIsEmpty, FilesBehind, TornStops, RowsKnown, EverFits
<1> QED BY <1>1, <1>2, <1>3, <1>4, <1>5, <1>6 DEF Next

\* The invariant holds of every behaviour of the catalog.
THEOREM Inductive == Spec => []IInv
<1> QED BY InitIInv, NextStep, PTL DEF Spec

\* Every variable keeps its type.
THEOREM Typed == Spec => []TypeOK
<1>1. IInv => TypeOK
  BY DEF IInv
<1> QED BY <1>1, Inductive, PTL

\* Every table has its heap: the assertions at catalog.hpp:35 and
\* insert_executer.hpp:15 hold.
THEOREM StoreMatches == Spec => []CatalogMatchesStore
<1>1. IInv => CatalogMatchesStore
  BY DEF IInv
<1> QED BY <1>1, Inductive, PTL

\* The rows of a table fit its schema, after any exits, kills (inside an exit, a
\* DROP or a close too) and starts, unless its CREATE TABLE took over a name.db
\* that rows of another schema had been put into (catalog.hpp:33-39).
THEOREM RowsStayTyped == Spec => []RowsMatchSchema
<1>1. IInv => RowsMatchSchema
  <2> SUFFICES ASSUME IInv PROVE RowsMatchSchema
    OBVIOUS
  <2>1. ASSUME NEW n \in DOMAIN tables \ foreign, NEW i \in DOMAIN heaps[n]
        PROVE  Fits(heaps[n][i], tables[n])
    BY HeapFacts DEF IInv, CatalogMatchesStore
  <2>2. ASSUME NEW n \in Names \ foreign, meta[n] \notin {NoFile, Torn}, db[n] # NoFile,
               NEW i \in DOMAIN db[n]
        PROVE  Fits(db[n][i], FromJson(meta[n]))
    BY <2>2 DEF IInv, RowsKnown, EverFits
  <2> QED BY <2>1, <2>2 DEF RowsMatchSchema
<1> QED BY <1>1, Inductive, PTL

\* A dropped table does not come back.
THEOREM DropsLast == Spec => []DroppedStaysDropped
<1>1. IInv => DroppedStaysDropped
  BY DEF IInv
<1> QED BY <1>1, Inductive, PTL

\* What an exit has saved survives every later kill until it is dropped: its
\* rows are the first of name.db, and its schema is in name.json, unless a kill
\* in a later exit cut that file off (json.hpp:36).
THEOREM SavedStays == Spec => []KeptSurvives
<1>1. IInv => KeptSurvives
  BY DEF IInv
<1> QED BY <1>1, Inductive, PTL
=============================================================================
