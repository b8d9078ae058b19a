--------------------------- MODULE Console_proofs ---------------------------
(* Proofs about the console: every flow that is listed can be opened, an      *)
(* editor that says "saved" is right, the run console shows one run, and a    *)
(* page number never leaves its list, for any number of windows, drafts,      *)
(* texts, runs and tasks. The first part shows what the operations of         *)
(* FlowStore keep of a disk, for any ids and texts: the catalog lists only    *)
(* flows with a record, and the records and entries of other flows stay as    *)
(* they are.                                                                  *)
EXTENDS Console, SequenceTheorems, WellFoundedInduction, TLAPS

Flow(Ids, Texts) == [id : Ids, text : Texts]
Disk(Ids, Texts) ==
    [records : UNION {[D -> Texts] : D \in SUBSET Ids},
     catalog : Seq(Ids),
     versions : Seq(Flow(Ids, Texts))]

Listed(before, id) == id \in Range(before.catalog)
Stored(before, flow) ==
    /\ flow.id \in DOMAIN before.records
    /\ before.records[flow.id] = flow.text
    /\ Listed(before, flow.id)

\* The catalog lists only flows that have a record.
Backed(before) == \A k \in DOMAIN before.catalog : before.catalog[k] \in DOMAIN before.records

\* The two disks have the same of every flow but those of S.
SameBut(before, later, S) ==
    \A id : id \notin S =>
        /\ id \in DOMAIN before.records <=> id \in DOMAIN later.records
        /\ id \in DOMAIN before.records => later.records[id] = before.records[id]
        /\ Listed(before, id) <=> Listed(later, id)
-----------------------------------------------------------------------------
(* Filtering the catalog *)

IsFilter(f, catalog, id, n) ==
    f = [k \in 0 .. n |->
            IF k = 0 THEN <<>>
            ELSE IF catalog[k] = id THEN f[k - 1] ELSE Append(f[k - 1], catalog[k])]

\* One step of it.
Keep(catalog, id, x, k) == IF catalog[k] = id THEN x ELSE Append(x, catalog[k])

LEMMA FilterSteps ==
    ASSUME NEW catalog, NEW id, NEW n \in Nat, NEW f, DOMAIN f = 0 .. n, f = [k \in 0 .. n |-> f[k]],
           f[0] = <<>>, \A k \in 1 .. n : f[k] = Keep(catalog, id, f[k - 1], k)
    PROVE  IsFilter(f, catalog, id, n)
<1>1. \A k \in 0 .. n :
        f[k] = IF k = 0 THEN <<>>
               ELSE IF catalog[k] = id THEN f[k - 1] ELSE Append(f[k - 1], catalog[k])
  BY DEF Keep
<1> QED BY <1>1 DEF IsFilter

LEMMA FilterIs ==
    ASSUME NEW catalog, NEW id, NEW n \in Nat, NEW f, IsFilter(f, catalog, id, n)
    PROVE  /\ DOMAIN f = 0 .. n
           /\ f[0] = <<>>
           /\ \A k \in 1 .. n : f[k] = Keep(catalog, id, f[k - 1], k)
<1>1. DOMAIN f = 0 .. n
  BY DEF IsFilter
<1>2. \A k \in 0 .. n :
        f[k] = IF k = 0 THEN <<>>
               ELSE IF catalog[k] = id THEN f[k - 1] ELSE Append(f[k - 1], catalog[k])
  BY DEF IsFilter
<1>3. f[0] = <<>>
  BY <1>2
<1>4. \A k \in 1 .. n : f[k] = Keep(catalog, id, f[k - 1], k)
  BY <1>2 DEF Keep
<1> QED BY <1>1, <1>3, <1>4

\* The filter of the first entries is a function: there is no least number of
\* them without one.
LEMMA FilterExists ==
    ASSUME NEW catalog, NEW id, NEW n \in Nat
    PROVE  \E f : IsFilter(f, catalog, id, n)
<1> DEFINE Bad == {m \in Nat : ~ \E f : IsFilter(f, catalog, id, m)}
<1> SUFFICES ASSUME Bad # {}
             PROVE  FALSE
  OBVIOUS
<1>2. PICK m \in Bad : \A j \in Bad : ~ (<<j, m>> \in OpToRel(<, Nat))
  <2>1. Bad \subseteq Nat
    OBVIOUS
  <2> HIDE DEF Bad
  <2> QED BY <2>1, WFMin, NatLessThanWellFounded
<1>3. m \in Nat /\ ~ \E f : IsFilter(f, catalog, id, m)
  BY <1>2
<1>4. \A j \in Nat : j < m => \E f : IsFilter(f, catalog, id, j)
  <2> SUFFICES ASSUME NEW j \in Nat, j < m
               PROVE  j \notin Bad
    OBVIOUS
  <2>1. <<j, m>> \in OpToRel(<, Nat)
    BY <1>3 DEF OpToRel
  <2> QED BY <1>2, <2>1
<1>5. CASE m = 0
  <2> DEFINE f == [k \in 0 .. 0 |-> <<>>]
  <2>1. DOMAIN f = 0 .. 0 /\ f = [k \in 0 .. 0 |-> f[k]] /\ f[0] = <<>>
    OBVIOUS
  <2> HIDE DEF f
  <2>2. IsFilter(f, catalog, id, 0)
    BY <2>1, FilterSteps
  <2> QED BY <1>3, <1>5, <2>2
<1>6. CASE m # 0
  <2>1. m - 1 \in Nat /\ m - 1 < m
    BY <1>3, <1>6
  <2>2. PICK g : IsFilter(g, catalog, id, m - 1)
    BY <1>4, <2>1
  <2>3. /\ DOMAIN g = 0 .. (m - 1) /\ g[0] = <<>>
        /\ \A k \in 1 .. (m - 1) : g[k] = Keep(catalog, id, g[k - 1], k)
    BY <2>1, <2>2, FilterIs
  <2> DEFINE f == [k \in 0 .. m |-> IF k = m THEN Keep(catalog, id, g[m - 1], m) ELSE g[k]]
  <2>4. DOMAIN f = 0 .. m /\ f = [k \in 0 .. m |-> f[k]]
    OBVIOUS
  <2>5. f[m] = Keep(catalog, id, g[m - 1], m) /\ \A k \in 0 .. (m - 1) : f[k] = g[k]
    BY <1>3
  <2> HIDE DEF f
  <2>6. f[0] = <<>>
    BY <2>1, <2>3, <2>5
  <2>7. \A k \in 1 .. m : f[k] = Keep(catalog, id, f[k - 1], k)
    <3> TAKE k \in 1 .. m
    <3>1. f[k - 1] = g[k - 1]
      BY <1>3, <2>5
    <3>2. CASE k = m
      BY <2>5, <3>1, <3>2
    <3>3. CASE k # m
      <4>1. k \in 1 .. (m - 1)
        BY <1>3, <3>3
      <4> QED BY <2>3, <2>5, <3>1, <4>1
    <3> QED BY <3>2, <3>3
  <2>8. IsFilter(f, catalog, id, m)
    BY <1>3, <2>4, <2>6, <2>7, FilterSteps
  <2> QED BY <1>3, <2>8
<1> QED BY <1>5, <1>6

\* x is an entry of s.
Has(s, x) == \E k \in DOMAIN s : s[k] = x

LEMMA HasAppend ==
    ASSUME NEW S, NEW s \in Seq(S), NEW e \in S
    PROVE  \A x : Has(Append(s, e), x) <=> x = e \/ Has(s, x)
<1> DEFINE t == Append(s, e)
<1>1. /\ t \in Seq(S) /\ Len(t) = Len(s) + 1 /\ t[Len(s) + 1] = e
      /\ \A j \in 1 .. Len(s) : t[j] = s[j]
  BY AppendProperties
<1>2. DOMAIN s = 1 .. Len(s) /\ Len(s) \in Nat
  BY LenProperties
<1> HIDE DEF t
<1>3. DOMAIN t = 1 .. (Len(s) + 1)
  BY <1>1, LenProperties
<1>4. \A x : (\E k \in DOMAIN t : t[k] = x) <=> x = e \/ \E k \in DOMAIN s : s[k] = x
  BY <1>1, <1>2, <1>3
<1> QED BY <1>4 DEF t, Has

\* Every entry but those of the id stays, and nothing else comes in.
LEMMA WithoutOthers ==
    ASSUME NEW Ids, NEW catalog \in Seq(Ids), NEW id
    PROVE  /\ Without(catalog, id) \in Seq(Ids)
           /\ Range(Without(catalog, id)) = Range(catalog) \ {id}
<1> DEFINE n == Len(catalog)
           kept == CHOOSE f : IsFilter(f, catalog, id, n)
<1>1. n \in Nat /\ DOMAIN catalog = 1 .. n /\ \A k \in 1 .. n : catalog[k] \in Ids
  BY LenProperties
<1>2. Without(catalog, id) = kept[n]
  BY DEF Without, IsFilter
<1>3. IsFilter(kept, catalog, id, n)
  BY <1>1, FilterExists
<1> HIDE DEF kept, n
<1>4. kept[0] = <<>> /\ \A k \in 1 .. n : kept[k] = Keep(catalog, id, kept[k - 1], k)
  BY <1>1, <1>3, FilterIs
<1> DEFINE Right(k) == /\ kept[k] \in Seq(Ids)
                       /\ \A x : Has(kept[k], x) <=> x # id /\ \E j \in 1 .. k : catalog[j] = x
           Bad == {k \in 0 .. n : ~ Right(k)}
<1>5. Right(0)
  BY <1>4 DEF Has
<1>6. \A k \in 1 .. n : Right(k - 1) => Right(k)
  <2> SUFFICES ASSUME NEW k \in 1 .. n, Right(k - 1)
               PROVE  Right(k)
    OBVIOUS
  <2>1. CASE catalog[k] = id
    <3>1. kept[k] = kept[k - 1]
      BY <1>4, <2>1 DEF Keep
    <3>2. \A x : x # id => ((\E j \in 1 .. k : catalog[j] = x) <=> \E j \in 1 .. (k - 1) : catalog[j] = x)
      BY <1>1, <2>1
    <3> QED BY <3>1, <3>2
  <2>2. CASE catalog[k] # id
    <3>1. kept[k] = Append(kept[k - 1], catalog[k])
      BY <1>4, <2>2 DEF Keep
    <3>2. catalog[k] \in Ids
      BY <1>1
    <3>3. kept[k - 1] \in Seq(Ids)
      OBVIOUS
    <3>4. kept[k] \in Seq(Ids)
      BY <3>1, <3>2, <3>3, AppendProperties
    <3>5. \A x : Has(kept[k], x) <=> x = catalog[k] \/ Has(kept[k - 1], x)
      BY <3>1, <3>2, <3>3, HasAppend
    <3>6. \A x : (\E j \in 1 .. k : catalog[j] = x) <=> x = catalog[k] \/ \E j \in 1 .. (k - 1) : catalog[j] = x
      BY <1>1
    <3>7. \A x : Has(kept[k - 1], x) <=> x # id /\ \E j \in 1 .. (k - 1) : catalog[j] = x
      OBVIOUS
    <3> QED BY <2>2, <3>4, <3>5, <3>6, <3>7
  <2> QED BY <2>1, <2>2
<1> HIDE DEF Right
<1>7. Right(n)
  <2> SUFFICES ASSUME ~ Right(n)
               PROVE  FALSE
    OBVIOUS
  <2>1. n \in Bad
    BY <1>1
  <2>2. Bad \subseteq Nat
    BY <1>1
  <2>3. PICK m \in Bad : \A j \in Bad : ~ (<<j, m>> \in OpToRel(<, Nat))
    <3> HIDE DEF Bad
    <3> QED BY <2>1, <2>2, WFMin, NatLessThanWellFounded
  <2>4. m \in 1 .. n /\ ~ Right(m)
    <3>1. m \in 0 .. n /\ ~ Right(m)
      OBVIOUS
    <3>2. m # 0
      BY <1>5, <3>1
    <3> QED BY <1>1, <3>1, <3>2
  <2>5. m - 1 \in 0 .. n /\ ~ Right(m - 1)
    <3>1. m - 1 \in 0 .. n
      BY <1>1, <2>4
    <3>2. ~ Right(m - 1)
      BY <1>6, <2>4
    <3> QED BY <3>1, <3>2
  <2>6. m - 1 \in Bad
    BY <2>5
  <2>7. <<m - 1, m>> \in OpToRel(<, Nat)
    <3>1. m - 1 \in Nat /\ m \in Nat /\ m - 1 < m
      BY <1>1, <2>4
    <3> QED BY <3>1 DEF OpToRel
  <2> QED BY <2>3, <2>6, <2>7
<1>8. Range(kept[n]) = Range(catalog) \ {id}
  BY <1>1, <1>7 DEF Right, Range, Has
<1>9. kept[n] \in Seq(Ids)
  BY <1>7 DEF Right
<1> QED BY <1>2, <1>8, <1>9
-----------------------------------------------------------------------------
(* Operations on a before *)

LEMMA UpsertLists ==
    ASSUME NEW Ids, NEW catalog \in Seq(Ids), NEW id \in Ids
    PROVE  /\ upsertCatalog(catalog, id) \in Seq(Ids)
           /\ Range(upsertCatalog(catalog, id)) = Range(catalog) \union {id}
<1> DEFINE s == Without(catalog, id)
           t == upsertCatalog(catalog, id)
           one == <<id>>
<1>1. s \in Seq(Ids) /\ Range(s) = Range(catalog) \ {id}
  BY WithoutOthers
<1>2. one \in Seq(Ids) /\ Len(one) = 1 /\ one[1] = id
  OBVIOUS
<1>3. t = one \o s
  BY DEF upsertCatalog
<1> HIDE DEF s, t, one
<1>4. /\ one \o s \in Seq(Ids) /\ Len(one \o s) = Len(one) + Len(s)
      /\ \A i \in 1 .. Len(one) + Len(s) : (one \o s)[i] = IF i <= Len(one) THEN one[i] ELSE s[i - Len(one)]
  <2>1. one \in Seq(Ids) /\ s \in Seq(Ids)
    BY <1>1, <1>2
  <2>2. QED
    BY ONLY <2>1, ConcatProperties, Zenon
<1>5. Len(s) \in Nat /\ DOMAIN s = 1 .. Len(s)
  BY <1>1, LenProperties
<1>6. t \in Seq(Ids) /\ DOMAIN t = 1 .. 1 + Len(s)
  BY <1>2, <1>3, <1>4, LenProperties
<1>7. t[1] = id /\ \A i \in 1 .. Len(s) : t[i + 1] = s[i]
  <2>1. \A i \in 1 .. 1 + Len(s) : t[i] = IF i <= 1 THEN one[i] ELSE s[i - 1]
    BY <1>2, <1>3, <1>4
  <2>2. t[1] = id
    BY <1>2, <1>5, <2>1
  <2>3. \A i \in 1 .. Len(s) : t[i + 1] = s[i]
    <3> TAKE i \in 1 .. Len(s)
    <3>1. i + 1 \in 1 .. 1 + Len(s) /\ ~ (i + 1 <= 1) /\ (i + 1) - 1 = i
      BY <1>5
    <3> QED BY <2>1, <3>1
  <2> QED BY <2>2, <2>3
<1>8. Range(t) = Range(s) \union {id}
  <2>1. ASSUME NEW k \in DOMAIN t
        PROVE  t[k] \in Range(s) \union {id}
    <3>1. CASE k = 1
      BY <1>7, <3>1
    <3>2. CASE k # 1
      <4>1. k - 1 \in DOMAIN s /\ (k - 1) + 1 = k
        BY <1>5, <1>6, <3>2
      <4>2. t[k] = s[k - 1]
        BY <1>5, <1>7, <4>1
      <4> QED BY <4>1, <4>2 DEF Range
    <3> QED BY <3>1, <3>2
  <2>2. ASSUME NEW j \in DOMAIN s
        PROVE  s[j] \in Range(t)
    <3>1. j + 1 \in DOMAIN t /\ t[j + 1] = s[j]
      BY <1>5, <1>6, <1>7
    <3> QED BY <3>1 DEF Range
  <2>3. id \in Range(t)
    BY <1>5, <1>6, <1>7 DEF Range
  <2> QED BY <2>1, <2>2, <2>3 DEF Range
<1>9. Range(t) = Range(catalog) \union {id}
  BY <1>1, <1>8
<1> QED BY <1>6, <1>9 DEF t

LEMMA DiskFields ==
    ASSUME NEW Ids, NEW Texts, NEW before \in Disk(Ids, Texts)
    PROVE  /\ before = [records |-> before.records, catalog |-> before.catalog, versions |-> before.versions]
           /\ DOMAIN before.records \in SUBSET Ids
           /\ before.records \in [DOMAIN before.records -> Texts]
           /\ before.catalog \in Seq(Ids)
           /\ before.versions \in Seq(Flow(Ids, Texts))
<1> DEFINE R == UNION {[D -> Texts] : D \in SUBSET Ids}
           C == Seq(Ids)
           V == Seq(Flow(Ids, Texts))
<1>1. before \in [records : R, catalog : C, versions : V]
  BY DEF Disk
<1>2. \A r \in R : DOMAIN r \in SUBSET Ids /\ r \in [DOMAIN r -> Texts]
  OBVIOUS
<1> HIDE DEF R, C, V
<1>3. /\ before = [records |-> before.records, catalog |-> before.catalog, versions |-> before.versions]
      /\ before.records \in R /\ before.catalog \in C /\ before.versions \in V
  BY <1>1
<1> QED BY <1>2, <1>3 DEF C, V

LEMMA DiskMade ==
    ASSUME NEW Ids, NEW Texts, NEW D \in SUBSET Ids, NEW r \in [D -> Texts], NEW c \in Seq(Ids),
           NEW v \in Seq(Flow(Ids, Texts))
    PROVE  [records |-> r, catalog |-> c, versions |-> v] \in Disk(Ids, Texts)
<1> DEFINE R == UNION {[E -> Texts] : E \in SUBSET Ids}
           C == Seq(Ids)
           V == Seq(Flow(Ids, Texts))
<1>1. r \in R /\ c \in C /\ v \in V
  OBVIOUS
<1> HIDE DEF R, C, V
<1>2. [records |-> r, catalog |-> c, versions |-> v] \in [records : R, catalog : C, versions : V]
  BY <1>1
<1> QED BY <1>2 DEF Disk, R, C, V

LEMMA SameButSame == ASSUME NEW before, NEW S PROVE SameBut(before, before, S)
BY DEF SameBut

LEMMA SameButThen ==
    ASSUME NEW a, NEW b, NEW c, NEW S, SameBut(a, b, S), SameBut(b, c, S)
    PROVE  SameBut(a, c, S)
BY DEF SameBut

LEMMA SameButMore ==
    ASSUME NEW a, NEW b, NEW S, NEW T, SameBut(a, b, S), S \subseteq T
    PROVE  SameBut(a, b, T)
BY DEF SameBut

\* With no room left for a record nothing is written; otherwise the record is.
Writes(before, saved, flow, room) ==
    /\ room < 1 => saved = before
    /\ room >= 1 => flow.id \in DOMAIN saved.records /\ saved.records[flow.id] = flow.text

\* A save cut short by the quota leaves a record without an entry, never an
\* entry without a record; one that fits stores the flow and lists it.
LEMMA SaveKeeps ==
    ASSUME NEW Ids, NEW Texts, NEW before \in Disk(Ids, Texts), NEW flow \in Flow(Ids, Texts), NEW room \in Int
    PROVE  LET saved == saveFlow(before, flow, room) IN
           /\ saved \in Disk(Ids, Texts)
           /\ Backed(before) => Backed(saved)
           /\ SameBut(before, saved, IF room >= 1 THEN {flow.id} ELSE {})
           /\ Writes(before, saved, flow, room)
           /\ Saves(room) => Stored(saved, flow)
           /\ saved.versions = before.versions
<1> DEFINE saved == saveFlow(before, flow, room)
           r == IF room >= 1 THEN WithRecord(before.records, flow) ELSE before.records
           c == IF room >= 2 THEN upsertCatalog(before.catalog, flow.id) ELSE before.catalog
           D == IF room >= 1 THEN DOMAIN before.records \union {flow.id} ELSE DOMAIN before.records
<1>1. /\ before = [records |-> before.records, catalog |-> before.catalog, versions |-> before.versions]
      /\ DOMAIN before.records \in SUBSET Ids
      /\ before.records \in [DOMAIN before.records -> Texts]
      /\ before.catalog \in Seq(Ids)
      /\ before.versions \in Seq(Flow(Ids, Texts))
  BY DiskFields
<1>2. flow.id \in Ids /\ flow.text \in Texts
  BY DEF Flow
<1>3. saved = [records |-> r, catalog |-> c, versions |-> before.versions]
  <2>1. saved = [before EXCEPT !.records = r, !.catalog = c]
    BY DEF saveFlow
  <2> HIDE DEF r, c
  <2> QED BY <1>1, <2>1
<1>4. D \in SUBSET Ids /\ r \in [D -> Texts]
  BY <1>1, <1>2 DEF WithRecord
<1>5. room >= 1 => \A id \in D : r[id] = IF id = flow.id THEN flow.text ELSE before.records[id]
  BY DEF WithRecord
<1>6. /\ c \in Seq(Ids)
      /\ Range(c) = Range(before.catalog) \union IF room >= 2 THEN {flow.id} ELSE {}
  BY <1>1, <1>2, UpsertLists
<1>7. DOMAIN r = D /\ (room < 1 => r = before.records /\ c = before.catalog)
  BY <1>4
<1> HIDE DEF r, c, D, saved
<1>8. saved \in Disk(Ids, Texts)
  BY <1>1, <1>3, <1>4, <1>6, DiskMade
<1>9. saved.records = r /\ saved.catalog = c /\ saved.versions = before.versions
  BY <1>3
<1>10. \A x : Listed(saved, x) <=> (room >= 2 /\ x = flow.id) \/ Listed(before, x)
  BY <1>6, <1>9 DEF Listed
<1>11. Backed(before) => Backed(saved)
  <2> SUFFICES ASSUME Backed(before), NEW k \in DOMAIN c
               PROVE  c[k] \in D
    BY <1>7, <1>9 DEF Backed
  <2>1. (room >= 2 /\ c[k] = flow.id) \/ \E j \in DOMAIN before.catalog : before.catalog[j] = c[k]
    BY <1>6 DEF Range
  <2> QED BY <2>1 DEF Backed, D
<1>12. SameBut(before, saved, IF room >= 1 THEN {flow.id} ELSE {})
  <2> SUFFICES ASSUME NEW id, id \notin IF room >= 1 THEN {flow.id} ELSE {}
               PROVE  /\ id \in DOMAIN before.records <=> id \in DOMAIN saved.records
                      /\ id \in DOMAIN before.records => saved.records[id] = before.records[id]
                      /\ Listed(before, id) <=> Listed(saved, id)
    BY DEF SameBut
  <2>1. room >= 1 => id # flow.id
    OBVIOUS
  <2>2. Listed(before, id) <=> Listed(saved, id)
    BY <1>10, <2>1
  <2>3. CASE room >= 1
    BY <1>5, <1>7, <1>9, <2>1, <2>2, <2>3 DEF D
  <2>4. CASE room < 1
    BY <1>7, <1>9, <2>2, <2>4
  <2> QED BY <2>3, <2>4
<1>13. room >= 1 => flow.id \in DOMAIN saved.records /\ saved.records[flow.id] = flow.text
  BY <1>5, <1>7, <1>9 DEF D
<1>14. Saves(room) => Stored(saved, flow)
  BY <1>10, <1>13 DEF Saves, Stored
<1>15. room < 1 => saved = before
  BY <1>1, <1>3, <1>7
<1>16. Writes(before, saved, flow, room)
  BY <1>13, <1>15 DEF Writes
<1> QED BY <1>8, <1>9, <1>11, <1>12, <1>14, <1>16 DEF saved

\* A deleted flow is gone from both, the others stay.
LEMMA DeleteKeeps ==
    ASSUME NEW Ids, NEW Texts, NEW before \in Disk(Ids, Texts), NEW id
    PROVE  LET deleted == deleteFlow(before, id) IN
           /\ deleted \in Disk(Ids, Texts)
           /\ Backed(before) => Backed(deleted)
           /\ SameBut(before, deleted, {id})
<1> DEFINE deleted == deleteFlow(before, id)
           D == DOMAIN before.records \ {id}
           r == [other \in D |-> before.records[other]]
           c == Without(before.catalog, id)
<1>1. /\ before = [records |-> before.records, catalog |-> before.catalog, versions |-> before.versions]
      /\ DOMAIN before.records \in SUBSET Ids
      /\ before.records \in [DOMAIN before.records -> Texts]
      /\ before.catalog \in Seq(Ids)
      /\ before.versions \in Seq(Flow(Ids, Texts))
  BY DiskFields
<1>2. deleted = [records |-> r, catalog |-> c, versions |-> before.versions]
  <2>1. deleted = [before EXCEPT !.records = r, !.catalog = c]
    BY DEF deleteFlow
  <2> HIDE DEF r, c
  <2> QED BY <1>1, <2>1
<1>3. D \in SUBSET Ids /\ r \in [D -> Texts] /\ DOMAIN r = D /\ \A x \in D : r[x] = before.records[x]
  BY <1>1
<1>4. /\ c \in Seq(Ids)
      /\ Range(c) = Range(before.catalog) \ {id}
  BY <1>1, WithoutOthers
<1> HIDE DEF r, c, D, deleted
<1>5. deleted \in Disk(Ids, Texts)
  BY <1>1, <1>2, <1>3, <1>4, DiskMade
<1>6. deleted.records = r /\ deleted.catalog = c
  BY <1>2
<1>7. Backed(before) => Backed(deleted)
  <2> SUFFICES ASSUME Backed(before), NEW k \in DOMAIN c
               PROVE  c[k] \in D
    BY <1>3, <1>6 DEF Backed
  <2>1. c[k] # id /\ \E j \in DOMAIN before.catalog : before.catalog[j] = c[k]
    BY <1>4 DEF Range
  <2> QED BY <2>1 DEF Backed, D
<1>8. SameBut(before, deleted, {id})
  BY <1>3, <1>4, <1>6 DEF SameBut, Listed, D
<1> QED BY <1>5, <1>7, <1>8 DEF deleted

\* The seed is a save of the sample, where nothing is listed.
LEMMA SeedKeeps ==
    ASSUME NEW Ids, NEW Texts, NEW before \in Disk(Ids, Texts), SampleFlow \in Flow(Ids, Texts), NEW room \in Int
    PROVE  LET seeded == ensureSeedFlow(before, room) IN
           /\ seeded \in Disk(Ids, Texts)
           /\ Backed(before) => Backed(seeded)
           /\ SameBut(before, seeded, IF NeedsSeed(before) /\ room >= 1 THEN {SampleId} ELSE {})
<1>1. CASE NeedsSeed(before)
  <2>1. SampleFlow.id = SampleId
    BY DEF SampleFlow
  <2>2. ensureSeedFlow(before, room) = saveFlow(before, SampleFlow, room)
    BY <1>1 DEF ensureSeedFlow
  <2>3. /\ saveFlow(before, SampleFlow, room) \in Disk(Ids, Texts)
        /\ Backed(before) => Backed(saveFlow(before, SampleFlow, room))
        /\ SameBut(before, saveFlow(before, SampleFlow, room), IF room >= 1 THEN {SampleFlow.id} ELSE {})
    BY SaveKeeps
  <2> QED BY <1>1, <2>1, <2>2, <2>3
<1>2. CASE ~ NeedsSeed(before)
  <2>1. ensureSeedFlow(before, room) = before
    BY <1>2 DEF ensureSeedFlow
  <2> QED BY <1>2, <2>1, SameButSame
<1> QED BY <1>1, <1>2

LEMMA VersionsKeep ==
    ASSUME NEW Ids, NEW Texts, NEW before \in Disk(Ids, Texts), NEW versions \in Seq(Flow(Ids, Texts)), NEW room \in Int
    PROVE  LET kept == saveVersionsToStorage(before, versions, room) IN
           /\ kept \in Disk(Ids, Texts)
           /\ kept.records = before.records /\ kept.catalog = before.catalog
           /\ Backed(before) => Backed(kept)
           /\ SameBut(before, kept, {})
<1> DEFINE kept == saveVersionsToStorage(before, versions, room)
<1>1. /\ before = [records |-> before.records, catalog |-> before.catalog, versions |-> before.versions]
      /\ DOMAIN before.records \in SUBSET Ids
      /\ before.records \in [DOMAIN before.records -> Texts]
      /\ before.catalog \in Seq(Ids)
      /\ before.versions \in Seq(Flow(Ids, Texts))
  BY DiskFields
<1>2. kept.records = before.records /\ kept.catalog = before.catalog
  BY <1>1 DEF saveVersionsToStorage
<1>3. kept \in Disk(Ids, Texts)
  <2>1. CASE room >= 1
    <3>1. kept = [before EXCEPT !.versions = versions]
      BY <2>1 DEF saveVersionsToStorage
    <3>2. kept = [records |-> before.records, catalog |-> before.catalog, versions |-> versions]
      BY <1>1, <3>1
    <3> HIDE DEF kept
    <3> QED BY <1>1, <3>2, DiskMade
  <2>2. CASE ~ (room >= 1)
    BY <2>2 DEF saveVersionsToStorage
  <2> QED BY <2>1, <2>2
<1> HIDE DEF kept
<1>4. (Backed(before) => Backed(kept)) /\ SameBut(before, kept, {})
  BY <1>2 DEF Backed, SameBut, Listed
<1> QED BY <1>2, <1>3, <1>4 DEF kept

\* The newest versions, as many as are kept.
LEMMA VersionAdded ==
    ASSUME NEW F, NEW versions \in Seq(F), NEW flow \in F
    PROVE  AddVersion(versions, flow) \in Seq(F)
<1> DEFINE longer == <<flow>> \o versions
           one == <<flow>>
<1>1. longer \in Seq(F)
  <2>1. one \in Seq(F)
    OBVIOUS
  <2>2. longer = one \o versions
    OBVIOUS
  <2> HIDE DEF one, longer
  <2> QED BY <2>1, <2>2, ConcatProperties
<1> HIDE DEF longer
<1>2. Len(longer) > VersionCap => SubSeq(longer, 1, VersionCap) \in Seq(F)
  <2> SUFFICES ASSUME Len(longer) > VersionCap
               PROVE  SubSeq(longer, 1, VersionCap) \in Seq(F)
    OBVIOUS
  <2>1. VersionCap \in Int /\ \A i \in 1 .. VersionCap : longer[i] \in F
    <3>1. Len(longer) \in Nat /\ \A i \in 1 .. Len(longer) : longer[i] \in F
      BY <1>1, LenProperties
    <3> QED BY <3>1, CapAssumption
  <2>2. 1 \in Int
    OBVIOUS
  <2> QED BY <2>1, <2>2, SubSeqProperties
<1> QED BY <1>1, <1>2 DEF AddVersion, longer
-----------------------------------------------------------------------------
(* The windows *)

Flows == Flow(FlowIds, Int)
Disks == Disk(FlowIds, Int)

WindowRecs ==
    [page : {"home", "flows", "editor", "tasks", "run", "blank"}, flow : Flows,
     autosave : {"idle", "saved", "error"}, versions : Seq(Flows),
     running : BOOLEAN, lastRunId : Nat, runState : Int, runEvents : Nat,
     listed : Seq(FlowIds), confirm : SUBSET FlowIds,
     run : Nat, at : Nat, size : {1, 2}, keyword : BOOLEAN, total : Nat, loading : BOOLEAN]

CallRecs ==
    [win : Windows \union {Nobody}, kind : {"run", "events", "list", "act"}, run : Nat,
     id : FlowIds, text : Int, at : Nat, size : {1, 2}, keyword : BOOLEAN, total : Nat,
     outcome : {"none", "ok", "error"}]

TypeOK ==
    /\ disk \in Disks
    /\ window \in [Windows -> WindowRecs]
    /\ calls \subseteq CallRecs
    /\ api \in [runs : Seq(Flows), tasks : Nat]
    /\ known \subseteq FlowIds
    /\ writer \in [FlowIds -> Windows \union {Nobody}]

(* The inductive invariant *)

\* What holds of a window by itself, when n runs are stored.
WindowGood(r, n) ==
    /\ r.confirm # {} => r.page = "flows"
    /\ r.running => r.page = "editor"
    /\ r.page = "run" => r.run \in 1 .. n
    /\ r.at \in 1 .. Pages(r.total, r.size)
    /\ r.lastRunId # 0 =>
        /\ r.runState = r.lastRunId
        /\ ~ r.running => r.runEvents = r.lastRunId
WindowsGood == \A w \in Windows : WindowGood(window[w], Len(api.runs))

\* What an editor may say of its flow.
SaidGood(w, r, d, by) ==
    r.page = "editor" /\ r.autosave = "saved" /\ by[r.flow.id] = w => Stored(d, r.flow)

IsOfRun(c) == c.kind \in {"run", "events"}

\* The request of a run belongs to a window that shows it as under way, and no
\* other run of the window is.
CallGood(c) ==
    /\ c.win = Nobody => c.kind \in {"run", "act"} /\ c.outcome = "none"
    /\ c.win # Nobody /\ c.kind = "run" => window[c.win].running /\ window[c.win].lastRunId = 0
    /\ c.win # Nobody /\ c.kind = "events" => window[c.win].running /\ window[c.win].lastRunId \in {0, c.run}
CallsGood ==
    /\ \A c \in calls : CallGood(c)
    /\ \A c, d \in calls : c.win = d.win /\ c.win # Nobody /\ IsOfRun(c) /\ IsOfRun(d) => c = d

IInv ==
    /\ TypeOK
    /\ Backed(disk)
    /\ \A w \in Windows : SaidGood(w, window[w], disk, writer)
    /\ WindowsGood
    /\ CallsGood
-----------------------------------------------------------------------------
(* Records of a window, and of a request *)

\* One field changed.
LEMMA FieldSet ==
    ASSUME NEW r \in WindowRecs
    PROVE  /\ \A v \in Flows : [r EXCEPT !.flow = v] \in WindowRecs
           /\ \A v \in {"idle", "saved", "error"} : [r EXCEPT !.autosave = v] \in WindowRecs
           /\ \A v \in Seq(Flows) : [r EXCEPT !.versions = v] \in WindowRecs
           /\ \A v \in BOOLEAN : [r EXCEPT !.running = v] \in WindowRecs
           /\ \A v \in Nat : [r EXCEPT !.lastRunId = v] \in WindowRecs
           /\ \A v \in Int : [r EXCEPT !.runState = v] \in WindowRecs
           /\ \A v \in Nat : [r EXCEPT !.runEvents = v] \in WindowRecs
           /\ \A v \in Seq(FlowIds) : [r EXCEPT !.listed = v] \in WindowRecs
           /\ \A v \in SUBSET FlowIds : [r EXCEPT !.confirm = v] \in WindowRecs
           /\ \A v \in Nat : [r EXCEPT !.run = v] \in WindowRecs
           /\ \A v \in Nat : [r EXCEPT !.at = v] \in WindowRecs
           /\ \A v \in {1, 2} : [r EXCEPT !.size = v] \in WindowRecs
           /\ \A v \in BOOLEAN : [r EXCEPT !.keyword = v] \in WindowRecs
           /\ \A v \in Nat : [r EXCEPT !.total = v] \in WindowRecs
           /\ \A v \in BOOLEAN : [r EXCEPT !.loading = v] \in WindowRecs
<1>1. \A v \in Flows : [r EXCEPT !.flow = v] \in WindowRecs
  BY DEF WindowRecs
<1>2. \A v \in {"idle", "saved", "error"} : [r EXCEPT !.autosave = v] \in WindowRecs
  BY DEF WindowRecs
<1>3. \A v \in Seq(Flows) : [r EXCEPT !.versions = v] \in WindowRecs
  BY DEF WindowRecs
<1>4. \A v \in BOOLEAN : [r EXCEPT !.running = v] \in WindowRecs
  BY DEF WindowRecs
<1>5. \A v \in Nat : [r EXCEPT !.lastRunId = v] \in WindowRecs
  BY DEF WindowRecs
<1>6. \A v \in Int : [r EXCEPT !.runState = v] \in WindowRecs
  BY DEF WindowRecs
<1>7. \A v \in Nat : [r EXCEPT !.runEvents = v] \in WindowRecs
  BY DEF WindowRecs
<1>8. \A v \in Seq(FlowIds) : [r EXCEPT !.listed = v] \in WindowRecs
  BY DEF WindowRecs
<1>9. \A v \in SUBSET FlowIds : [r EXCEPT !.confirm = v] \in WindowRecs
  BY DEF WindowRecs
<1>10. \A v \in Nat : [r EXCEPT !.run = v] \in WindowRecs
  BY DEF WindowRecs
<1>11. \A v \in Nat : [r EXCEPT !.at = v] \in WindowRecs
  BY DEF WindowRecs
<1>12. \A v \in {1, 2} : [r EXCEPT !.size = v] \in WindowRecs
  BY DEF WindowRecs
<1>13. \A v \in BOOLEAN : [r EXCEPT !.keyword = v] \in WindowRecs
  BY DEF WindowRecs
<1>14. \A v \in Nat : [r EXCEPT !.total = v] \in WindowRecs
  BY DEF WindowRecs
<1>15. \A v \in BOOLEAN : [r EXCEPT !.loading = v] \in WindowRecs
  BY DEF WindowRecs
<1> QED BY <1>1, <1>2, <1>3, <1>4, <1>5, <1>6, <1>7, <1>8, <1>9, <1>10, <1>11, <1>12, <1>13, <1>14, <1>15

LEMMA WindowFields ==
    ASSUME NEW r \in WindowRecs
    PROVE  /\ r.page \in {"home", "flows", "editor", "tasks", "run", "blank"}
           /\ r.flow \in Flows /\ r.autosave \in {"idle", "saved", "error"} /\ r.versions \in Seq(Flows)
           /\ r.running \in BOOLEAN /\ r.lastRunId \in Nat /\ r.runState \in Int /\ r.runEvents \in Nat
           /\ r.listed \in Seq(FlowIds) /\ r.confirm \in SUBSET FlowIds
           /\ r.run \in Nat /\ r.at \in Nat /\ r.size \in {1, 2} /\ r.keyword \in BOOLEAN
           /\ r.total \in Nat /\ r.loading \in BOOLEAN
BY DEF WindowRecs

LEMMA FlowsMade ==
    /\ \A f \in Flows : f.id \in FlowIds /\ f.text \in Int /\ f = [id |-> f.id, text |-> f.text]
    /\ \A i \in FlowIds, x \in Int : [id |-> i, text |-> x] \in Flows
    /\ \A f \in Flows, x \in Int : [f EXCEPT !.text = x] \in Flows /\ [f EXCEPT !.text = x].id = f.id
    /\ SampleFlow \in Flows /\ SampleFlow.id = SampleId /\ SampleId \in FlowIds
    /\ \A i \in FlowIds : Draft(i) \in Flows /\ Draft(i).id = i
    /\ SelfCheckFlow \in Flows
    /\ \A f \in Flows : ensureBrowserDefaults(f) \in Flows /\ ensureBrowserDefaults(f).id = f.id
<1>1. SampleId \in FlowIds /\ SelfCheckId \in FlowIds /\ SampleText \in Int
  BY TextsAssumption DEF FlowIds
<1>2. \A f \in Flows : f.id \in FlowIds /\ f.text \in Int /\ f = [id |-> f.id, text |-> f.text]
  BY DEF Flows, Flow
<1>3. \A i \in FlowIds, x \in Int : [id |-> i, text |-> x] \in Flows
  BY DEF Flows, Flow
<1>4. \A f \in Flows, x \in Int : [f EXCEPT !.text = x] \in Flows /\ [f EXCEPT !.text = x].id = f.id
  BY DEF Flows, Flow
<1>5. SampleFlow \in Flows /\ SampleFlow.id = SampleId /\ SelfCheckFlow \in Flows
  BY <1>1, <1>3 DEF SampleFlow, SelfCheckFlow
<1>6. \A i \in FlowIds : Draft(i) \in Flows /\ Draft(i).id = i
  BY <1>1 DEF Draft, SampleFlow, Flows, Flow
<1>7. ASSUME NEW f \in Flows
      PROVE  ensureBrowserDefaults(f) \in Flows /\ ensureBrowserDefaults(f).id = f.id
  <2> DEFINE x == IF f.text \in DOMAIN Mends THEN Mends[f.text] ELSE f.text
  <2>1. x \in Int
    BY <1>2, TextsAssumption
  <2>2. ensureBrowserDefaults(f) = [f EXCEPT !.text = x]
    BY DEF ensureBrowserDefaults
  <2> HIDE DEF x
  <2> QED BY <1>4, <2>1, <2>2
<1> QED BY <1>1, <1>2, <1>3, <1>4, <1>5, <1>6, <1>7

\* A list has a first page.
LEMMA FirstPage ==
    ASSUME NEW total \in Nat, NEW size \in {1, 2}
    PROVE  Pages(total, size) \in Nat \ {0}
<1>1. CASE size = 1
  BY <1>1 DEF Pages
<1>2. CASE size = 2
  BY <1>2 DEF Pages
<1> QED BY <1>1, <1>2

LEMMA FreshWindow ==
    ASSUME NEW page \in {"home", "flows", "editor", "tasks", "run", "blank"}
    PROVE  /\ Fresh(page) \in WindowRecs
           /\ Fresh(page).page = page /\ Fresh(page).confirm = {} /\ Fresh(page).at = 1
           /\ Fresh(page).total = 0 /\ Fresh(page).size = 1 /\ Fresh(page).lastRunId = 0
           /\ Fresh(page).running = FALSE /\ Fresh(page).autosave = "idle"
           /\ \A n : page # "run" => WindowGood(Fresh(page), n)
<1>1. SampleFlow \in Flows /\ <<>> \in Seq(Flows) /\ <<>> \in Seq(FlowIds)
  BY FlowsMade
<1>2. Fresh(page) \in WindowRecs
  BY <1>1 DEF Fresh, WindowRecs
<1>3. /\ Fresh(page).page = page /\ Fresh(page).confirm = {} /\ Fresh(page).at = 1
      /\ Fresh(page).total = 0 /\ Fresh(page).size = 1 /\ Fresh(page).lastRunId = 0
      /\ Fresh(page).running = FALSE /\ Fresh(page).autosave = "idle"
  BY DEF Fresh
<1>4. Pages(0, 1) = 1
  BY DEF Pages
<1>5. \A n : page # "run" => WindowGood(Fresh(page), n)
  BY <1>3, <1>4 DEF WindowGood
<1> QED BY <1>2, <1>3, <1>5

\* What is said of a window does not change with the fields it does not speak of.
Alike(r, s) ==
    /\ s.page = r.page /\ s.flow = r.flow /\ s.autosave = r.autosave
    /\ s.confirm = r.confirm /\ s.run = r.run /\ s.at = r.at /\ s.size = r.size /\ s.total = r.total
    /\ s.running = r.running /\ s.lastRunId = r.lastRunId /\ s.runState = r.runState /\ s.runEvents = r.runEvents

LEMMA AlikeGood ==
    ASSUME NEW r, NEW s, Alike(r, s)
    PROVE  /\ \A n : WindowGood(r, n) => WindowGood(s, n)
           /\ \A w, d, by : SaidGood(w, r, d, by) => SaidGood(w, s, d, by)
BY DEF Alike, WindowGood, SaidGood

LEMMA AlikeSet ==
    ASSUME NEW r \in WindowRecs
    PROVE  /\ \A v : Alike(r, [r EXCEPT !.listed = v])
           /\ \A v : Alike(r, [r EXCEPT !.versions = v])
           /\ \A v : Alike(r, [r EXCEPT !.loading = v])
           /\ \A v : Alike(r, [r EXCEPT !.keyword = v])
BY DEF Alike, WindowRecs

LEMMA CallMade ==
    ASSUME NEW w \in Windows \union {Nobody}, NEW kind \in {"run", "events", "list", "act"}
    PROVE  /\ Call(w, kind) \in CallRecs
           /\ Call(w, kind).win = w /\ Call(w, kind).kind = kind /\ Call(w, kind).outcome = "none"
<1>1. SelfCheckId \in FlowIds /\ SampleText \in Int
  BY TextsAssumption DEF FlowIds
<1> QED BY <1>1 DEF Call, CallRecs

LEMMA ListingMade ==
    ASSUME NEW w \in Windows, NEW view \in WindowRecs
    PROVE  /\ Listing(w, view) \in CallRecs
           /\ Listing(w, view).win = w /\ Listing(w, view).kind = "list" /\ Listing(w, view).outcome = "none"
<1> DEFINE c == Call(w, "list")
           a == [c EXCEPT !.run = view.run]
           b == [a EXCEPT !.at = view.at]
           d == [b EXCEPT !.size = view.size]
           e == [d EXCEPT !.keyword = view.keyword]
<1>1. c \in CallRecs /\ c.win = w /\ c.kind = "list" /\ c.outcome = "none"
  BY CallMade
<1>2. view.run \in Nat /\ view.at \in Nat /\ view.size \in {1, 2} /\ view.keyword \in BOOLEAN
  BY WindowFields
<1>3. Listing(w, view) = e
  BY DEF Listing
<1> HIDE DEF c
<1>4. a \in CallRecs /\ a.win = w /\ a.kind = "list" /\ a.outcome = "none"
  BY <1>1, <1>2 DEF CallRecs
<1> HIDE DEF a
<1>5. b \in CallRecs /\ b.win = w /\ b.kind = "list" /\ b.outcome = "none"
  BY <1>2, <1>4 DEF CallRecs
<1> HIDE DEF b
<1>6. d \in CallRecs /\ d.win = w /\ d.kind = "list" /\ d.outcome = "none"
  BY <1>2, <1>5 DEF CallRecs
<1> HIDE DEF d
<1>7. e \in CallRecs /\ e.win = w /\ e.kind = "list" /\ e.outcome = "none"
  BY <1>2, <1>6 DEF CallRecs
<1> QED BY <1>3, <1>7
-----------------------------------------------------------------------------
(* What a step of a user does to the invariant *)

\* Requests of lists and of tasks, which no run depends on.
Harmless(w) == {c \in CallRecs : c.win = w /\ c.kind \in {"list", "act"} /\ c.outcome = "none"}

\* The requests of window w, and what it shows of its run: it is left, keeps
\* its run, or starts one.
CallsStep(w, r) ==
    \/ /\ \E N \in SUBSET Harmless(w) : calls' = Left(w) \union N
    \/ /\ \E N \in SUBSET Harmless(w) : calls' = calls \union N
       /\ r.running = window[w].running /\ r.lastRunId \in {0, window[w].lastRunId}
    \/ /\ ~ window[w].running /\ r.running /\ r.lastRunId = 0
       /\ \E c \in CallRecs : c.win = w /\ c.kind = "run" /\ calls' = calls \union {c}

\* Window w shows r afterwards; the records of S are the ones it wrote.
UserStep(w, r, S) ==
    /\ r \in WindowRecs /\ window' = [window EXCEPT ![w] = r]
    /\ disk' \in Disks /\ Backed(disk') /\ SameBut(disk, disk', S)
    /\ writer' = [id \in FlowIds |-> IF id \in S THEN w ELSE writer[id]]
    /\ SaidGood(w, r, disk', writer')
    /\ WindowGood(r, Len(api.runs))
    /\ api' = api /\ known' \subseteq FlowIds
    /\ CallsStep(w, r)

LEMMA LeftCalls ==
    ASSUME IInv, NEW w \in Windows, NEW c \in Left(w)
    PROVE  /\ c \in CallRecs
           /\ c.win # w
           /\ c.win = Nobody => c.kind \in {"run", "act"} /\ c.outcome = "none"
           /\ c.win # Nobody => c \in calls
<1>1. PICK d \in calls : /\ d.win # w \/ (d.kind \in {"run", "act"} /\ d.outcome = "none")
                         /\ c = IF d.win = w THEN [d EXCEPT !.win = Nobody] ELSE d
  BY DEF Left
<1>2. d \in CallRecs /\ CallGood(d)
  BY DEF IInv, TypeOK, CallsGood
<1>3. Nobody \notin Windows
  BY BoundsAssumption DEF Nobody
<1>4. CASE d.win = w
  <2>1. c = [d EXCEPT !.win = Nobody]
    BY <1>1, <1>4
  <2>2. c \in CallRecs /\ c.win = Nobody /\ c.kind = d.kind /\ c.outcome = d.outcome
    BY <1>2, <2>1 DEF CallRecs
  <2> QED BY <1>1, <1>3, <1>4, <2>2
<1>5. CASE d.win # w
  BY <1>1, <1>2, <1>5 DEF CallGood
<1> QED BY <1>4, <1>5

LEMMA UserCalls ==
    ASSUME IInv, NEW w \in Windows, NEW r \in WindowRecs, window' = [window EXCEPT ![w] = r], CallsStep(w, r)
    PROVE  calls' \subseteq CallRecs /\ CallsGood'
<1>1. /\ window \in [Windows -> WindowRecs] /\ calls \subseteq CallRecs /\ CallsGood
  BY DEF IInv, TypeOK
<1>2. window'[w] = r /\ \A v \in Windows \ {w} : window'[v] = window[v]
  BY <1>1
<1>3. Nobody \notin Windows
  BY BoundsAssumption DEF Nobody
<1>4. \A c \in calls' : CallGood(c)' <=>
        /\ c.win = Nobody => c.kind \in {"run", "act"} /\ c.outcome = "none"
        /\ c.win # Nobody /\ c.kind = "run" => window'[c.win].running /\ window'[c.win].lastRunId = 0
        /\ c.win # Nobody /\ c.kind = "events" => window'[c.win].running /\ window'[c.win].lastRunId \in {0, c.run}
  BY DEF CallGood
<1>5. \A c \in calls : c \in CallRecs /\ CallGood(c) /\ c.win \in Windows \union {Nobody}
  BY <1>1 DEF CallsGood, CallRecs
<1>6. \A c \in Harmless(w) : c \in CallRecs /\ ~ IsOfRun(c) /\ c.win = w /\ c.kind # "run" /\ c.kind # "events"
  BY DEF Harmless, IsOfRun
<1>7. \A c, d \in calls : c.win = d.win /\ c.win # Nobody /\ IsOfRun(c) /\ IsOfRun(d) => c = d
  BY <1>1 DEF CallsGood
<1>8. ASSUME NEW N \in SUBSET Harmless(w), calls' = Left(w) \union N
      PROVE  calls' \subseteq CallRecs /\ CallsGood'
  <2>1. \A c \in Left(w) : /\ c \in CallRecs /\ c.win # w
                           /\ c.win = Nobody => c.kind \in {"run", "act"} /\ c.outcome = "none"
                           /\ c.win # Nobody => c \in calls
    BY LeftCalls
  <2>2. calls' \subseteq CallRecs
    BY <1>6, <1>8, <2>1
  <2>3. ASSUME NEW c \in calls'
        PROVE  CallGood(c)'
    <3>1. CASE c \in N
      BY <1>3, <1>4, <1>6, <3>1
    <3>2. CASE c \in Left(w) /\ c.win = Nobody
      BY <1>4, <2>1, <3>2
    <3>3. CASE c \in Left(w) /\ c.win # Nobody
      <4>1. c \in calls /\ c.win # w /\ c.win \in Windows
        BY <1>5, <2>1, <3>3
      <4>2. CallGood(c) /\ window'[c.win] = window[c.win]
        BY <1>2, <1>5, <4>1
      <4> QED BY <1>4, <3>3, <4>2 DEF CallGood
    <3> QED BY <1>8, <3>1, <3>2, <3>3
  <2>4. \A c, d \in calls' : c.win = d.win /\ c.win # Nobody /\ IsOfRun(c) /\ IsOfRun(d) => c = d
    BY <1>6, <1>7, <1>8, <2>1
  <2> QED BY <2>2, <2>3, <2>4 DEF CallsGood, IsOfRun
<1>9. ASSUME NEW N \in SUBSET Harmless(w), calls' = calls \union N,
             r.running = window[w].running, r.lastRunId \in {0, window[w].lastRunId}
      PROVE  calls' \subseteq CallRecs /\ CallsGood'
  <2>1. calls' \subseteq CallRecs
    BY <1>1, <1>6, <1>9
  <2>2. ASSUME NEW c \in calls'
        PROVE  CallGood(c)'
    <3>1. CASE c \in N
      BY <1>3, <1>4, <1>6, <3>1
    <3>2. CASE c \in calls /\ c.win # w
      <4>1. CallGood(c) /\ (c.win # Nobody => window'[c.win] = window[c.win])
        BY <1>2, <1>5, <3>2
      <4> QED BY <1>4, <4>1 DEF CallGood
    <3>3. CASE c \in calls /\ c.win = w
      <4>1. CallGood(c) /\ window'[c.win] = r
        BY <1>2, <1>5, <3>3
      <4> QED BY <1>3, <1>4, <1>9, <3>3, <4>1 DEF CallGood
    <3> QED BY <1>9, <3>1, <3>2, <3>3
  <2>3. \A c, d \in calls' : c.win = d.win /\ c.win # Nobody /\ IsOfRun(c) /\ IsOfRun(d) => c = d
    BY <1>6, <1>7, <1>9
  <2> QED BY <2>1, <2>2, <2>3 DEF CallsGood, IsOfRun
<1>10. ASSUME ~ window[w].running, r.running, r.lastRunId = 0,
              NEW b \in CallRecs, b.win = w, b.kind = "run", calls' = calls \union {b}
       PROVE  calls' \subseteq CallRecs /\ CallsGood'
  <2>1. calls' \subseteq CallRecs
    BY <1>1, <1>10
  <2>2. \A c \in calls : c.win = w => ~ IsOfRun(c)
    BY <1>3, <1>5, <1>10 DEF CallGood, IsOfRun
  <2>3. ASSUME NEW c \in calls'
        PROVE  CallGood(c)'
    <3>1. CASE c = b
      BY <1>2, <1>3, <1>4, <1>10, <3>1
    <3>2. CASE c \in calls /\ c.win # w
      <4>1. CallGood(c) /\ (c.win # Nobody => window'[c.win] = window[c.win])
        BY <1>2, <1>5, <3>2
      <4> QED BY <1>4, <4>1 DEF CallGood
    <3>3. CASE c \in calls /\ c.win = w
      BY <1>3, <1>4, <2>2, <3>3 DEF IsOfRun
    <3> QED BY <1>10, <3>1, <3>2, <3>3
  <2>4. \A c, d \in calls' : c.win = d.win /\ c.win # Nobody /\ IsOfRun(c) /\ IsOfRun(d) => c = d
    BY <1>7, <1>10, <2>2
  <2> QED BY <2>1, <2>3, <2>4 DEF CallsGood, IsOfRun
<1> QED BY <1>8, <1>9, <1>10 DEF CallsStep

LEMMA UserKeeps ==
    ASSUME IInv, NEW w \in Windows, NEW r, NEW S, UserStep(w, r, S)
    PROVE  IInv'
<1>1. /\ r \in WindowRecs /\ window' = [window EXCEPT ![w] = r]
      /\ disk' \in Disks /\ Backed(disk') /\ SameBut(disk, disk', S)
      /\ writer' = [id \in FlowIds |-> IF id \in S THEN w ELSE writer[id]]
      /\ SaidGood(w, r, disk', writer')
      /\ WindowGood(r, Len(api.runs))
      /\ api' = api /\ known' \subseteq FlowIds
      /\ CallsStep(w, r)
  BY DEF UserStep
<1>2. calls' \subseteq CallRecs /\ CallsGood'
  BY <1>1, UserCalls
<1>3. /\ window \in [Windows -> WindowRecs] /\ writer \in [FlowIds -> Windows \union {Nobody}]
      /\ api \in [runs : Seq(Flows), tasks : Nat]
  BY DEF IInv, TypeOK
<1>4. /\ window' \in [Windows -> WindowRecs] /\ window'[w] = r
      /\ \A v \in Windows \ {w} : window'[v] = window[v]
  BY <1>1, <1>3
<1>5. writer' \in [FlowIds -> Windows \union {Nobody}]
  BY <1>1, <1>3
<1>6. TypeOK'
  BY <1>1, <1>2, <1>3, <1>4, <1>5 DEF TypeOK
<1>7. ASSUME NEW v \in Windows \ {w}
      PROVE  SaidGood(v, window[v], disk', writer')
  <2>1. SUFFICES ASSUME window[v].page = "editor", window[v].autosave = "saved", writer'[window[v].flow.id] = v
                 PROVE  Stored(disk', window[v].flow)
    BY DEF SaidGood
  <2>2. window[v].flow.id \in FlowIds
    BY <1>3, WindowFields, FlowsMade
  <2>3. window[v].flow.id \notin S /\ writer[window[v].flow.id] = v
    BY <1>1, <2>1, <2>2
  <2>4. SaidGood(v, window[v], disk, writer)
    BY DEF IInv
  <2>5. Stored(disk, window[v].flow)
    BY <2>1, <2>3, <2>4 DEF SaidGood
  <2> QED BY <1>1, <2>3, <2>5 DEF Stored, SameBut
<1>8. \A v \in Windows : SaidGood(v, window'[v], disk', writer')
  BY <1>1, <1>4, <1>7
<1>9. \A v \in Windows : WindowGood(window'[v], Len(api'.runs))
  BY <1>1, <1>4 DEF IInv, WindowsGood
<1>10. WindowsGood'
  BY <1>9 DEF WindowsGood, WindowGood
<1>11. (\A v \in Windows : SaidGood(v, window[v], disk, writer))'
  BY <1>8 DEF SaidGood, Stored, Listed
<1>12. Backed(disk)'
  BY <1>1 DEF Backed
<1> QED BY <1>2, <1>6, <1>10, <1>11, <1>12 DEF IInv
-----------------------------------------------------------------------------
(* The flow list *)

LEMMA WindowFacts ==
    ASSUME IInv, NEW w \in Windows
    PROVE  /\ window[w] \in WindowRecs /\ WindowGood(window[w], Len(api.runs))
           /\ SaidGood(w, window[w], disk, writer)
           /\ disk \in Disks /\ Backed(disk) /\ known \subseteq FlowIds
           /\ \A room \in Rooms : room \in Int
           /\ window = [window EXCEPT ![w] = window[w]]
BY DEF IInv, TypeOK, WindowsGood, Rooms, Plenty

LEMMA NothingWritten ==
    ASSUME IInv, writer' = writer, NEW w
    PROVE  writer' = [id \in FlowIds |-> IF id \in {} THEN w ELSE writer[id]]
<1>1. writer \in [FlowIds -> Windows \union {Nobody}]
  BY DEF IInv, TypeOK
<1> QED BY <1>1

\* Steps that leave the store alone.
LEMMA NoDiskStep ==
    ASSUME IInv, NEW w \in Windows, NEW r \in WindowRecs, Shows(w, r),
           UNCHANGED <<disk, api, known, writer>>,
           SaidGood(w, r, disk, writer), WindowGood(r, Len(api.runs)), CallsStep(w, r)
    PROVE  IInv'
<1>1. disk \in Disks /\ Backed(disk) /\ known \subseteq FlowIds
  BY WindowFacts
<1>2. writer' = [id \in FlowIds |-> IF id \in {} THEN w ELSE writer[id]]
  BY NothingWritten
<1>3. SaidGood(w, r, disk', writer') /\ disk' \in Disks /\ Backed(disk') /\ SameBut(disk, disk', {})
  BY <1>1, SameButSame
<1>4. UserStep(w, r, {})
  BY <1>1, <1>2, <1>3 DEF UserStep, Shows
<1> QED BY <1>4, UserKeeps

LEMMA SameCalls ==
    ASSUME IInv, NEW w \in Windows, NEW r, calls' = calls,
           r.running = window[w].running, r.lastRunId \in {0, window[w].lastRunId}
    PROVE  CallsStep(w, r)
<1>1. {} \in SUBSET Harmless(w) /\ calls' = calls \union {}
  OBVIOUS
<1> QED BY <1>1 DEF CallsStep

LEMMA LeftIt ==
    ASSUME IInv, NEW w \in Windows, NEW r, calls' = Left(w)
    PROVE  CallsStep(w, r)
<1>1. {} \in SUBSET Harmless(w) /\ calls' = Left(w) \union {}
  OBVIOUS
<1> QED BY <1>1 DEF CallsStep

\* The seeding of an empty store.
LEMMA SeedStep ==
    ASSUME IInv, NEW w \in Windows, NEW room \in Rooms, disk' = ensureSeedFlow(disk, room),
           WroteIf(w, IF NeedsSeed(disk) THEN room ELSE 0, SampleId),
           NEW r \in WindowRecs, Shows(w, r), UNCHANGED <<api, known>>,
           r.page # "editor", WindowGood(r, Len(api.runs)), CallsStep(w, r)
    PROVE  IInv'
<1> DEFINE S == IF NeedsSeed(disk) /\ room >= 1 THEN {SampleId} ELSE {}
<1>1. disk \in Disks /\ Backed(disk) /\ known \subseteq FlowIds /\ room \in Int
  BY WindowFacts
<1>2. disk' \in Disks /\ Backed(disk') /\ SameBut(disk, disk', S)
  BY <1>1, SeedKeeps, FlowsMade DEF Disks, Flows
<1>3. writer' = [id \in FlowIds |-> IF id \in S THEN w ELSE writer[id]]
  <2>1. (IF (IF NeedsSeed(disk) THEN room ELSE 0) >= 1 THEN {SampleId} ELSE {}) = S
    OBVIOUS
  <2> QED BY <2>1 DEF WroteIf, Wrote
<1> HIDE DEF S
<1>4. SaidGood(w, r, disk', writer')
  BY DEF SaidGood
<1>5. UserStep(w, r, S)
  BY <1>1, <1>2, <1>3, <1>4 DEF UserStep, Shows
<1> QED BY <1>5, UserKeeps

LEMMA ReloadKeeps ==
    ASSUME IInv, NEW w \in Windows, Reload(w)
    PROVE  IInv'
<1>1. PICK room \in Rooms :
        /\ disk' = ensureSeedFlow(disk, room)
        /\ WroteIf(w, IF NeedsSeed(disk) THEN room ELSE 0, SampleId)
        /\ Shows(w, Fresh(IF NeedsSeed(disk) /\ ~ Saves(room) THEN "blank" ELSE "home"))
  BY DEF Reload
<1> DEFINE page == IF NeedsSeed(disk) /\ ~ Saves(room) THEN "blank" ELSE "home"
           r == Fresh(page)
<1>2. page \in {"home", "flows", "editor", "tasks", "run", "blank"} /\ page # "run" /\ page # "editor"
  OBVIOUS
<1>3. r \in WindowRecs /\ r.page # "editor" /\ r.running = FALSE /\ r.lastRunId = 0 /\ WindowGood(r, Len(api.runs))
  BY <1>2, FreshWindow
<1>4. window[w].running = FALSE
  BY WindowFacts, WindowFields DEF Reload, WindowGood
<1>5. calls' = calls /\ UNCHANGED <<api, known>>
  BY DEF Reload
<1>6. Shows(w, r)
  BY <1>1
<1> HIDE DEF r
<1>7. CallsStep(w, r)
  BY <1>3, <1>4, <1>5, SameCalls
<1> QED BY <1>1, <1>3, <1>5, <1>6, <1>7, SeedStep

LEMMA OpenFlowsKeeps ==
    ASSUME IInv, NEW w \in Windows, OpenFlows(w)
    PROVE  IInv'
<1>1. PICK room \in Rooms :
        /\ disk' = ensureSeedFlow(disk, room)
        /\ WroteIf(w, IF NeedsSeed(disk) THEN room ELSE 0, SampleId)
        /\ Shows(w, IF NeedsSeed(disk) /\ ~ Saves(room) THEN Fresh("blank")
                    ELSE [Fresh("flows") EXCEPT !.listed = listFlows(ensureSeedFlow(disk, room))])
  BY DEF OpenFlows
<1> DEFINE l == listFlows(ensureSeedFlow(disk, room))
           r == IF NeedsSeed(disk) /\ ~ Saves(room) THEN Fresh("blank") ELSE [Fresh("flows") EXCEPT !.listed = l]
<1>2. disk \in Disks /\ room \in Int
  BY WindowFacts
<1>3. l \in Seq(FlowIds)
  <2>1. ensureSeedFlow(disk, room) \in Disks
    BY <1>2, SeedKeeps, FlowsMade DEF Disks, Flows
  <2> QED BY <2>1, DiskFields DEF Disks, listFlows
<1> HIDE DEF l
<1>4. /\ Fresh("flows") \in WindowRecs /\ Fresh("blank") \in WindowRecs
      /\ Fresh("flows").page = "flows" /\ Fresh("blank").page = "blank"
      /\ \A n : WindowGood(Fresh("flows"), n) /\ WindowGood(Fresh("blank"), n)
  BY FreshWindow
<1>5. /\ [Fresh("flows") EXCEPT !.listed = l] \in WindowRecs
      /\ Alike(Fresh("flows"), [Fresh("flows") EXCEPT !.listed = l])
  BY <1>3, <1>4, FieldSet, AlikeSet
<1>6. /\ [Fresh("flows") EXCEPT !.listed = l].page = "flows"
      /\ WindowGood([Fresh("flows") EXCEPT !.listed = l], Len(api.runs))
  BY <1>4, <1>5, AlikeGood DEF Alike
<1>7. r \in WindowRecs /\ r.page # "editor" /\ WindowGood(r, Len(api.runs))
  BY <1>4, <1>5, <1>6
<1>8. Shows(w, r)
  BY <1>1 DEF l
<1> HIDE DEF r
<1>9. calls' = Left(w) /\ UNCHANGED <<api, known>>
  BY DEF OpenFlows
<1>10. CallsStep(w, r)
  BY <1>9, LeftIt
<1> QED BY <1>1, <1>7, <1>8, <1>9, <1>10, SeedStep

LEMMA RefreshFlowsKeeps ==
    ASSUME IInv, NEW w \in Windows, RefreshFlows(w)
    PROVE  IInv'
<1>1. PICK room \in Rooms :
        /\ disk' = ensureSeedFlow(disk, room)
        /\ WroteIf(w, IF NeedsSeed(disk) THEN room ELSE 0, SampleId)
        /\ Shows(w, Refreshed(window[w], room, disk'))
  BY DEF RefreshFlows
<1> DEFINE l == listFlows(disk')
           r == Refreshed(window[w], room, disk')
<1>2. disk \in Disks /\ room \in Int /\ window[w] \in WindowRecs /\ WindowGood(window[w], Len(api.runs))
  BY WindowFacts
<1>3. l \in Seq(FlowIds)
  <2>1. disk' \in Disks
    BY <1>1, <1>2, SeedKeeps, FlowsMade DEF Disks, Flows
  <2> QED BY <2>1, DiskFields DEF Disks, listFlows
<1>4. r = window[w] \/ r = [window[w] EXCEPT !.listed = l]
  BY DEF Refreshed
<1>5. window[w].page = "flows"
  BY DEF RefreshFlows
<1> HIDE DEF r, l
<1>6. r \in WindowRecs /\ Alike(window[w], r)
  <2>1. Alike(window[w], window[w])
    BY DEF Alike
  <2> QED BY <1>2, <1>3, <1>4, <2>1, FieldSet, AlikeSet
<1>7. r.page # "editor" /\ WindowGood(r, Len(api.runs)) /\ r.running = window[w].running /\ r.lastRunId = window[w].lastRunId
  BY <1>2, <1>5, <1>6, AlikeGood DEF Alike
<1>8. calls' = calls /\ UNCHANGED <<api, known>>
  BY DEF RefreshFlows
<1>9. CallsStep(w, r)
  BY <1>7, <1>8, SameCalls
<1>10. Shows(w, r)
  BY <1>1 DEF r
<1> QED BY <1>1, <1>6, <1>7, <1>8, <1>9, <1>10, SeedStep

LEMMA AskDeleteKeeps ==
    ASSUME IInv, NEW w \in Windows, AskDelete(w) \/ CancelDelete(w)
    PROVE  IInv'
<1>1. window[w] \in WindowRecs /\ WindowGood(window[w], Len(api.runs))
  BY WindowFacts
<1>2. PICK c \in SUBSET FlowIds : Shows(w, [window[w] EXCEPT !.confirm = c])
  <2>1. CASE AskDelete(w)
    <3>1. PICK k \in DOMAIN window[w].listed : Shows(w, [window[w] EXCEPT !.confirm = {window[w].listed[k]}])
      BY <2>1 DEF AskDelete
    <3>2. window[w].listed[k] \in FlowIds
      BY <1>1, WindowFields, LenProperties
    <3> QED BY <3>1, <3>2
  <2>2. CASE CancelDelete(w)
    BY <2>2 DEF CancelDelete
  <2> QED BY <2>1, <2>2
<1>3. window[w].page = "flows" /\ UNCHANGED <<disk, calls, api, known, writer>>
  BY <1>1 DEF AskDelete, CancelDelete, WindowGood
<1> DEFINE r == [window[w] EXCEPT !.confirm = c]
<1>4. r \in WindowRecs
  BY <1>1, FieldSet
<1>5. /\ r.page = window[w].page /\ r.run = window[w].run /\ r.at = window[w].at /\ r.size = window[w].size
      /\ r.total = window[w].total /\ r.running = window[w].running /\ r.lastRunId = window[w].lastRunId
      /\ r.runState = window[w].runState /\ r.runEvents = window[w].runEvents
  BY <1>1 DEF WindowRecs
<1>6. Shows(w, r)
  BY <1>2
<1> HIDE DEF r
<1>7. WindowGood(r, Len(api.runs)) /\ SaidGood(w, r, disk, writer)
  BY <1>1, <1>3, <1>5 DEF WindowGood, SaidGood
<1>8. CallsStep(w, r)
  BY <1>3, <1>5, SameCalls
<1> QED BY <1>3, <1>4, <1>6, <1>7, <1>8, NoDiskStep

LEMMA ConfirmDeleteKeeps ==
    ASSUME IInv, NEW w \in Windows, ConfirmDelete(w)
    PROVE  IInv'
<1>1. PICK id \in window[w].confirm, room \in Rooms :
        LET deleted == deleteFlow(disk, id)
            seeds == NeedsSeed(deleted)
            after == ensureSeedFlow(deleted, room)
            closed == [window[w] EXCEPT !.confirm = {}]
        IN  /\ disk' = after
            /\ Wrote(w, {id} \union IF seeds /\ room >= 1 THEN {SampleId} ELSE {})
            /\ Shows(w, IF seeds /\ ~ Saves(room) THEN closed
                        ELSE [closed EXCEPT !.listed = listFlows(after)])
  BY DEF ConfirmDelete
<1> DEFINE deleted == deleteFlow(disk, id)
           closed == [window[w] EXCEPT !.confirm = {}]
           l == listFlows(disk')
           S == {id} \union IF NeedsSeed(deleted) /\ room >= 1 THEN {SampleId} ELSE {}
           r == IF NeedsSeed(deleted) /\ ~ Saves(room) THEN closed ELSE [closed EXCEPT !.listed = l]
<1>2. /\ window[w] \in WindowRecs /\ WindowGood(window[w], Len(api.runs))
      /\ disk \in Disks /\ Backed(disk) /\ known \subseteq FlowIds /\ room \in Int
  BY WindowFacts
<1>3. window[w].page = "flows"
  BY <1>2 DEF WindowGood
<1>4. deleted \in Disks /\ Backed(deleted) /\ SameBut(disk, deleted, {id})
  BY <1>2, DeleteKeeps DEF Disks
<1>5. disk' = ensureSeedFlow(deleted, room) /\ Wrote(w, S) /\ Shows(w, r)
  BY <1>1
<1> HIDE DEF deleted
<1>6. /\ disk' \in Disks /\ Backed(disk')
      /\ SameBut(deleted, disk', IF NeedsSeed(deleted) /\ room >= 1 THEN {SampleId} ELSE {})
  BY <1>2, <1>4, <1>5, SeedKeeps, FlowsMade DEF Disks, Flows
<1>7. SameBut(disk, disk', S)
  <2>1. SameBut(disk, deleted, S)
    BY <1>4, SameButMore
  <2>2. SameBut(deleted, disk', S)
    BY <1>6, SameButMore
  <2> QED BY <2>1, <2>2, SameButThen
<1>8. l \in Seq(FlowIds)
  BY <1>6, DiskFields DEF Disks, listFlows
<1> HIDE DEF l
<1>9. /\ closed \in WindowRecs
      /\ closed.page = "flows" /\ closed.run = window[w].run /\ closed.at = window[w].at
      /\ closed.size = window[w].size /\ closed.total = window[w].total
      /\ closed.running = window[w].running /\ closed.lastRunId = window[w].lastRunId
      /\ closed.runState = window[w].runState /\ closed.runEvents = window[w].runEvents
  BY <1>2, <1>3 DEF WindowRecs
<1> HIDE DEF closed
<1>10. WindowGood(closed, Len(api.runs))
  BY <1>2, <1>3, <1>9 DEF WindowGood
<1>11. r \in WindowRecs /\ Alike(closed, r)
  <2>1. Alike(closed, closed)
    BY DEF Alike
  <2> QED BY <1>8, <1>9, <2>1, FieldSet, AlikeSet
<1> HIDE DEF r, S
<1>12. WindowGood(r, Len(api.runs)) /\ SaidGood(w, r, disk', writer')
  <2>1. r.page = "flows"
    BY <1>9, <1>11 DEF Alike
  <2> QED BY <1>10, <1>11, <2>1, AlikeGood DEF SaidGood
<1>13. calls' = calls /\ UNCHANGED <<api, known>>
  BY DEF ConfirmDelete
<1>14. CallsStep(w, r)
  BY <1>9, <1>11, <1>13, SameCalls DEF Alike
<1>15. UserStep(w, r, S)
  BY <1>2, <1>5, <1>6, <1>7, <1>11, <1>12, <1>13, <1>14 DEF UserStep, Wrote, Shows
<1> QED BY <1>15, UserKeeps
-----------------------------------------------------------------------------
(* The editor *)

LEMMA AutosaveSays ==
    ASSUME NEW r \in WindowRecs, NEW room
    PROVE  /\ Autosave(r, room) \in WindowRecs
           /\ Autosave(r, room).autosave = "saved" => Saves(room)
           /\ Autosave(r, room).flow = r.flow /\ Autosave(r, room).page = r.page
           /\ Autosave(r, room).running = r.running /\ Autosave(r, room).lastRunId = r.lastRunId
           /\ \A n : WindowGood(r, n) => WindowGood(Autosave(r, room), n)
<1> DEFINE v == IF Saves(room) THEN "saved" ELSE "error"
           s == [r EXCEPT !.autosave = v]
<1>1. v \in {"idle", "saved", "error"} /\ (v = "saved" => Saves(room))
  OBVIOUS
<1>2. Autosave(r, room) = s
  BY DEF Autosave
<1> HIDE DEF v
<1>3. s \in WindowRecs
  BY <1>1, FieldSet
<1>4. /\ s.autosave = v /\ s.page = r.page /\ s.flow = r.flow
      /\ s.confirm = r.confirm /\ s.run = r.run /\ s.at = r.at /\ s.size = r.size /\ s.total = r.total
      /\ s.running = r.running /\ s.lastRunId = r.lastRunId /\ s.runState = r.runState /\ s.runEvents = r.runEvents
  BY DEF WindowRecs
<1> HIDE DEF s
<1>5. \A n : WindowGood(r, n) => WindowGood(s, n)
  BY <1>4 DEF WindowGood
<1> QED BY <1>1, <1>2, <1>3, <1>4, <1>5

\* A new flow and a clean run console.
LEMMA CleanConsole ==
    ASSUME NEW r \in WindowRecs, NEW f \in Flows
    PROVE  LET s == [r EXCEPT !.flow = f, !.lastRunId = 0, !.runState = 0, !.runEvents = 0] IN
           /\ s \in WindowRecs
           /\ s.flow = f /\ s.page = r.page /\ s.running = r.running /\ s.lastRunId = 0
           /\ \A n : WindowGood(r, n) => WindowGood(s, n)
<1> DEFINE a == [r EXCEPT !.flow = f]
           b == [a EXCEPT !.lastRunId = 0]
           c == [b EXCEPT !.runState = 0]
           s == [r EXCEPT !.flow = f, !.lastRunId = 0, !.runState = 0, !.runEvents = 0]
<1>1. s = [c EXCEPT !.runEvents = 0]
  OBVIOUS
<1>2. s \in WindowRecs
  <2>1. a \in WindowRecs
    BY FieldSet
  <2> HIDE DEF a
  <2>2. b \in WindowRecs
    BY <2>1, FieldSet
  <2> HIDE DEF b
  <2>3. c \in WindowRecs
    <3>1. \A v \in Int : [b EXCEPT !.runState = v] \in WindowRecs
      BY <2>2, FieldSet
    <3> QED BY <3>1
  <2> HIDE DEF c, s
  <2> QED BY <1>1, <2>3, FieldSet
<1>3. /\ s.page = r.page /\ s.flow = f
      /\ s.confirm = r.confirm /\ s.run = r.run /\ s.at = r.at /\ s.size = r.size /\ s.total = r.total
      /\ s.running = r.running /\ s.lastRunId = 0
  BY DEF WindowRecs
<1> HIDE DEF s
<1>4. \A n : WindowGood(r, n) => WindowGood(s, n)
  BY <1>3 DEF WindowGood
<1> QED BY <1>2, <1>3, <1>4 DEF s

LEMMA FirstFlow ==
    ASSUME NEW from \in Disks, NEW id \in FlowIds
    PROVE  InitialFlow(from, id) \in Flows /\ InitialFlow(from, id).id = id
<1>1. ASSUME id \in DOMAIN from.records
      PROVE  from.records[id] \in Int
  BY <1>1, DiskFields DEF Disks
<1> QED BY <1>1, FlowsMade DEF InitialFlow, Loads, loadFlow

\* Window w shows r, an editor of id or nothing at all; from is the store
\* before.  An editor that says "saved" has its flow in the store, and nothing
\* else was written.
EditorShows(w, r, from, id, room) ==
    /\ window' = [window EXCEPT ![w] = r]
    /\ disk' \in Disks /\ Backed(disk')
    /\ SameBut(from, disk', IF room >= 1 THEN {id} ELSE {})
    /\ r.page = "editor" /\ r.autosave = "saved" => Stored(disk', r.flow)
    /\ r.page = "editor" =>
        /\ r.flow = ensureBrowserDefaults(InitialFlow(from, id))
        /\ Loads(from, id) => disk'.records[id] \in {from.records[id], r.flow.text}
    /\ WindowGood(r, Len(api.runs)) /\ CallsStep(w, r)

LEMMA SaveWrites ==
    ASSUME NEW d \in Disks, NEW flow \in Flows, NEW room \in Int
    PROVE  /\ room < 1 => saveFlow(d, flow, room) = d
           /\ room >= 1 => saveFlow(d, flow, room).records[flow.id] = flow.text
<1>1. Writes(d, saveFlow(d, flow, room), flow, room)
  BY SaveKeeps DEF Disks, Flows
<1> QED BY <1>1 DEF Writes

LEMMA EditorOpens ==
    ASSUME IInv, NEW w \in Windows, NEW from \in Disks, Backed(from), NEW id \in FlowIds, NEW room \in Int,
           EditorOf(w, from, id, room)
    PROVE  \E r \in WindowRecs : EditorShows(w, r, from, id, room)
<1> DEFINE flow == ensureBrowserDefaults(InitialFlow(from, id))
           first == FirstDisk(from, id, room)
           rest == FirstRoom(from, id, room)
           stays == window[w].page = "editor"
           record == IF stays THEN window[w] ELSE [Fresh("editor") EXCEPT !.versions = from.versions]
           S == IF room >= 1 THEN {id} ELSE {}
<1>1. window[w] \in WindowRecs /\ WindowGood(window[w], Len(api.runs))
  BY WindowFacts
<1>2. flow \in Flows /\ flow.id = id
  <2>1. InitialFlow(from, id) \in Flows /\ InitialFlow(from, id).id = id
    BY FirstFlow
  <2> QED BY <2>1, FlowsMade
<1>3. first \in Disks /\ Backed(first) /\ SameBut(from, first, S)
  <2>1. CASE Loads(from, id)
    BY <2>1, SameButSame DEF FirstDisk
  <2>2. CASE ~ Loads(from, id)
    <3>1. first = saveFlow(from, Draft(id), room)
      BY <2>2 DEF FirstDisk
    <3>2. Draft(id) \in Flows /\ Draft(id).id = id
      BY FlowsMade
    <3> QED BY <3>1, <3>2, SaveKeeps DEF Disks, Flows
  <2> QED BY <2>1, <2>2
<1>4. rest \in Int /\ rest <= room
  BY DEF FirstRoom
<1>8. Loads(from, id) => first = from
  BY DEF FirstDisk
<1>9. flow = ensureBrowserDefaults(InitialFlow(from, id))
  OBVIOUS
<1>5. \/ /\ disk' = first /\ Shows(w, Fresh("blank")) /\ calls' = Left(w)
      \/ /\ disk' = saveFlow(first, flow, rest)
         /\ Shows(w, ShowInitial(record, flow, rest))
         /\ calls' = IF stays THEN calls ELSE Left(w)
  BY DEF EditorOf
<1> HIDE DEF flow, first, rest
<1>6. CASE disk' = first /\ Shows(w, Fresh("blank")) /\ calls' = Left(w)
  <2>1. /\ Fresh("blank") \in WindowRecs /\ Fresh("blank").page = "blank"
        /\ WindowGood(Fresh("blank"), Len(api.runs))
    BY FreshWindow
  <2>2. CallsStep(w, Fresh("blank"))
    BY <1>6, LeftIt
  <2> QED BY <1>3, <1>6, <2>1, <2>2 DEF Shows, EditorShows
<1>7. CASE /\ disk' = saveFlow(first, flow, rest)
           /\ Shows(w, ShowInitial(record, flow, rest))
           /\ calls' = IF stays THEN calls ELSE Left(w)
  <2>1. /\ record \in WindowRecs /\ record.page = "editor" /\ WindowGood(record, Len(api.runs))
        /\ stays => record.running = window[w].running
    <3>1. CASE stays
      BY <1>1, <3>1
    <3>2. CASE ~ stays
      <4>1. Fresh("editor") \in WindowRecs /\ Fresh("editor").page = "editor" /\ WindowGood(Fresh("editor"), Len(api.runs))
        BY FreshWindow
      <4>2. from.versions \in Seq(Flows)
        BY DiskFields DEF Disks, Flows
      <4>3. /\ [Fresh("editor") EXCEPT !.versions = from.versions] \in WindowRecs
            /\ Alike(Fresh("editor"), [Fresh("editor") EXCEPT !.versions = from.versions])
        BY <4>1, <4>2, FieldSet, AlikeSet
      <4>4. record = [Fresh("editor") EXCEPT !.versions = from.versions]
        BY <3>2
      <4> HIDE DEF record
      <4> QED BY <3>2, <4>1, <4>3, <4>4, AlikeGood DEF Alike
    <3> QED BY <3>1, <3>2
  <2> HIDE DEF record
  <2> DEFINE clean == [record EXCEPT !.flow = flow, !.lastRunId = 0, !.runState = 0, !.runEvents = 0]
             r == Autosave(clean, rest)
  <2>2. /\ clean \in WindowRecs /\ clean.flow = flow /\ clean.page = record.page
        /\ clean.running = record.running /\ clean.lastRunId = 0
        /\ WindowGood(clean, Len(api.runs))
    BY <1>2, <2>1, CleanConsole
  <2>3. Shows(w, r)
    BY <1>7 DEF ShowInitial
  <2> HIDE DEF clean
  <2>4. /\ r \in WindowRecs /\ r.flow = flow /\ r.page = "editor" /\ r.running = record.running /\ r.lastRunId = 0
        /\ WindowGood(r, Len(api.runs)) /\ (r.autosave = "saved" => Saves(rest))
    BY <2>1, <2>2, AutosaveSays
  <2> HIDE DEF r
  <2>5. /\ disk' \in Disks /\ Backed(disk') /\ SameBut(first, disk', IF rest >= 1 THEN {id} ELSE {})
        /\ Saves(rest) => Stored(disk', flow)
    BY <1>2, <1>3, <1>4, <1>7, SaveKeeps DEF Disks, Flows
  <2>6. SameBut(from, disk', S)
    <3>1. (IF rest >= 1 THEN {id} ELSE {}) \subseteq S
      BY <1>4
    <3>2. SameBut(first, disk', S)
      BY <2>5, <3>1, SameButMore
    <3> QED BY <1>3, <3>2, SameButThen
  <2>7. CallsStep(w, r)
    <3>1. CASE stays
      <4>1. calls' = calls /\ r.running = window[w].running /\ r.lastRunId \in {0, window[w].lastRunId}
        BY <1>7, <2>1, <2>4, <3>1
      <4> QED BY <2>4, <4>1, SameCalls
    <3>2. CASE ~ stays
      BY <1>7, <2>4, <3>2, LeftIt
    <3> QED BY <3>1, <3>2
  <2>8. Loads(from, id) => disk'.records[id] \in {from.records[id], r.flow.text}
    <3>1. /\ rest < 1 => saveFlow(first, flow, rest) = first
          /\ rest >= 1 => saveFlow(first, flow, rest).records[flow.id] = flow.text
      BY <1>2, <1>3, <1>4, SaveWrites
    <3>2. disk' = saveFlow(first, flow, rest)
      BY <1>7
    <3>3. /\ rest < 1 => disk' = first
          /\ rest >= 1 => disk'.records[flow.id] = flow.text
      BY <3>1, <3>2, Zenon
    <3> QED BY <1>2, <1>4, <1>8, <2>4, <3>3
  <2> HIDE DEF S
  <2> QED BY <1>9, <2>3, <2>4, <2>5, <2>6, <2>7, <2>8 DEF Shows, S, EditorShows
<1> QED BY <1>5, <1>6, <1>7

LEMMA OpenEditorKeeps ==
    ASSUME IInv, NEW w \in Windows, OpenEditor(w)
    PROVE  IInv'
<1>1. PICK id \in known \union { window[w].listed[k] : k \in DOMAIN window[w].listed }, room \in Rooms :
        EditorOf(w, disk, id, room) /\ WroteIf(w, room, id) /\ known' = known \union {id}
  BY DEF OpenEditor
<1>2. /\ disk \in Disks /\ Backed(disk) /\ known \subseteq FlowIds /\ room \in Int /\ window[w] \in WindowRecs
  BY WindowFacts
<1>3. id \in FlowIds
  BY <1>1, <1>2, WindowFields, LenProperties
<1> DEFINE S == IF room >= 1 THEN {id} ELSE {}
<1>4. PICK r \in WindowRecs : EditorShows(w, r, disk, id, room)
  BY <1>1, <1>2, <1>3, EditorOpens
<1>5. writer' = [i \in FlowIds |-> IF i \in S THEN w ELSE writer[i]]
  BY <1>1 DEF WroteIf, Wrote
<1>6. api' = api /\ known' \subseteq FlowIds
  BY <1>1, <1>2, <1>3 DEF OpenEditor
<1>7. UserStep(w, r, S)
  BY <1>4, <1>5, <1>6 DEF UserStep, SaidGood, EditorShows
<1> QED BY <1>7, UserKeeps

\* A save and then the editor of what was saved, or what is left of the save.
LEMMA SaveAndOpen ==
    ASSUME IInv, NEW w \in Windows, window[w].page # "editor", NEW flow \in Flows, NEW room \in Rooms,
           WroteIf(w, room, flow.id), known' \subseteq FlowIds, api' = api,
           IF Saves(room) THEN EditorOf(w, saveFlow(disk, flow, room), flow.id, room - 2)
           ELSE disk' = saveFlow(disk, flow, room) /\ UNCHANGED <<window, calls>>
    PROVE  IInv'
<1> DEFINE S == IF room >= 1 THEN {flow.id} ELSE {}
           saved == saveFlow(disk, flow, room)
<1>1. /\ disk \in Disks /\ Backed(disk) /\ room \in Int /\ window[w] \in WindowRecs
      /\ WindowGood(window[w], Len(api.runs)) /\ window = [window EXCEPT ![w] = window[w]]
  BY WindowFacts
<1>2. saved \in Disks /\ Backed(saved) /\ SameBut(disk, saved, S)
  BY <1>1, SaveKeeps DEF Disks, Flows
<1>3. flow.id \in FlowIds
  BY FlowsMade
<1>4. writer' = [i \in FlowIds |-> IF i \in S THEN w ELSE writer[i]]
  BY DEF WroteIf, Wrote
<1>5. CASE Saves(room)
  <2>1. EditorOf(w, saved, flow.id, room - 2) /\ room >= 2
    BY <1>5 DEF Saves
  <2>2. room - 2 \in Int
    BY <1>1
  <2> HIDE DEF saved
  <2>3. PICK r \in WindowRecs : EditorShows(w, r, saved, flow.id, room - 2)
    BY <1>2, <1>3, <2>1, <2>2, EditorOpens
  <2>4. SameBut(disk, disk', S)
    <3>1. (IF room - 2 >= 1 THEN {flow.id} ELSE {}) \subseteq S
      BY <1>1, <2>1
    <3>2. SameBut(saved, disk', S)
      BY <2>3, <3>1, SameButMore DEF EditorShows
    <3> QED BY <1>2, <3>2, SameButThen
  <2> HIDE DEF S
  <2>5. UserStep(w, r, S)
    BY <1>4, <2>3, <2>4 DEF UserStep, SaidGood, EditorShows
  <2> QED BY <2>5, UserKeeps
<1>6. CASE ~ Saves(room)
  <2>1. disk' = saved /\ window' = window /\ calls' = calls
    BY <1>6
  <2>2. CallsStep(w, window[w])
    BY <1>1, <2>1, SameCalls
  <2> HIDE DEF S, saved
  <2>3. UserStep(w, window[w], S)
    BY <1>1, <1>2, <1>4, <2>1, <2>2 DEF UserStep, SaidGood
  <2> QED BY <2>3, UserKeeps
<1> QED BY <1>5, <1>6

LEMMA CreateFlowKeeps ==
    ASSUME IInv, NEW w \in Windows, CreateFlow(w)
    PROVE  IInv'
<1>1. PICK id \in DraftIds \ known, room \in Rooms :
        LET saved == saveFlow(disk, Draft(id), room)
        IN  /\ known' = known \union {id}
            /\ WroteIf(w, room, id)
            /\ IF Saves(room) THEN EditorOf(w, saved, id, room - 2)
                              ELSE disk' = saved /\ UNCHANGED <<window, calls>>
  BY DEF CreateFlow
<1>2. id \in FlowIds /\ Draft(id) \in Flows /\ Draft(id).id = id
  BY FlowsMade DEF FlowIds
<1>3. known' \subseteq FlowIds /\ api' = api /\ window[w].page # "editor"
  BY <1>1, <1>2, WindowFacts DEF CreateFlow
<1>4. PICK flow \in Flows : flow = Draft(id)
  BY <1>2
<1>5. IF Saves(room) THEN EditorOf(w, saveFlow(disk, flow, room), flow.id, room - 2)
      ELSE disk' = saveFlow(disk, flow, room) /\ UNCHANGED <<window, calls>>
  BY <1>1, <1>2, <1>4
<1>6. WroteIf(w, room, flow.id)
  BY <1>1, <1>2, <1>4
<1> QED BY <1>3, <1>5, <1>6, SaveAndOpen

LEMMA EditKeeps ==
    ASSUME IInv, NEW w \in Windows, Edit(w)
    PROVE  IInv'
<1>1. PICK text \in Edits \ {window[w].flow.text}, room \in Rooms :
        LET flow == [window[w].flow EXCEPT !.text = text]
        IN  /\ disk' = saveFlow(disk, flow, room)
            /\ WroteIf(w, room, flow.id)
            /\ Shows(w, Autosave([window[w] EXCEPT !.flow = flow], room))
  BY DEF Edit
<1> DEFINE flow == [window[w].flow EXCEPT !.text = text]
           a == [window[w] EXCEPT !.flow = flow]
           r == Autosave(a, room)
           S == IF room >= 1 THEN {flow.id} ELSE {}
<1>2. /\ window[w] \in WindowRecs /\ WindowGood(window[w], Len(api.runs)) /\ room \in Int
      /\ disk \in Disks /\ Backed(disk) /\ known \subseteq FlowIds
  BY WindowFacts
<1>3. flow \in Flows
  <2>1. window[w].flow \in Flows /\ text \in Int
    BY <1>2, WindowFields, TextsAssumption
  <2> QED BY <2>1, FlowsMade
<1>4. /\ disk' = saveFlow(disk, flow, room) /\ Shows(w, r)
      /\ writer' = [i \in FlowIds |-> IF i \in S THEN w ELSE writer[i]]
  BY <1>1 DEF WroteIf, Wrote
<1> HIDE DEF flow
<1>5. /\ disk' \in Disks /\ Backed(disk') /\ SameBut(disk, disk', S)
      /\ Saves(room) => Stored(disk', flow)
  BY <1>2, <1>3, <1>4, SaveKeeps DEF Disks, Flows
<1>6. a \in WindowRecs
  BY <1>2, <1>3, FieldSet
<1>7. /\ a.flow = flow /\ a.page = window[w].page /\ a.confirm = window[w].confirm /\ a.run = window[w].run
      /\ a.at = window[w].at /\ a.size = window[w].size /\ a.total = window[w].total
      /\ a.running = window[w].running /\ a.lastRunId = window[w].lastRunId
      /\ a.runState = window[w].runState /\ a.runEvents = window[w].runEvents
  BY <1>2 DEF WindowRecs
<1> HIDE DEF a
<1>8. WindowGood(a, Len(api.runs))
  BY <1>2, <1>7 DEF WindowGood
<1>9. /\ r \in WindowRecs /\ r.flow = flow /\ r.running = window[w].running /\ r.lastRunId = window[w].lastRunId
      /\ WindowGood(r, Len(api.runs)) /\ (r.autosave = "saved" => Saves(room))
  BY <1>6, <1>7, <1>8, AutosaveSays
<1> HIDE DEF r, S
<1>10. UNCHANGED <<calls, api, known>>
  BY DEF Edit
<1>11. CallsStep(w, r)
  BY <1>9, <1>10, SameCalls
<1>12. UserStep(w, r, S)
  BY <1>2, <1>4, <1>5, <1>9, <1>10, <1>11 DEF UserStep, SaidGood, Shows
<1> QED BY <1>12, UserKeeps

LEMMA SaveVersionKeeps ==
    ASSUME IInv, NEW w \in Windows, SaveVersion(w)
    PROVE  IInv'
<1> DEFINE versions == AddVersion(window[w].versions, window[w].flow)
<1>1. PICK room \in Rooms :
        /\ disk' = saveVersionsToStorage(disk, versions, room)
        /\ Shows(w, IF room >= 1 THEN [window[w] EXCEPT !.versions = versions] ELSE Fresh("blank"))
        /\ calls' = IF room >= 1 THEN calls ELSE Left(w)
  BY DEF SaveVersion
<1> DEFINE r == IF room >= 1 THEN [window[w] EXCEPT !.versions = versions] ELSE Fresh("blank")
<1>2. /\ window[w] \in WindowRecs /\ WindowGood(window[w], Len(api.runs)) /\ room \in Int
      /\ SaidGood(w, window[w], disk, writer)
      /\ disk \in Disks /\ Backed(disk) /\ known \subseteq FlowIds
  BY WindowFacts
<1>3. versions \in Seq(Flows)
  BY <1>2, WindowFields, VersionAdded
<1> HIDE DEF versions
<1>4. /\ disk' \in Disks /\ Backed(disk') /\ SameBut(disk, disk', {})
      /\ disk'.records = disk.records /\ disk'.catalog = disk.catalog
  BY <1>1, <1>2, <1>3, VersionsKeep DEF Disks, Flows
<1>5. writer' = writer /\ api' = api /\ known' = known
  BY DEF SaveVersion
<1>6. writer' = [id \in FlowIds |-> IF id \in {} THEN w ELSE writer[id]]
  BY <1>5, NothingWritten
<1>7. /\ r \in WindowRecs /\ WindowGood(r, Len(api.runs)) /\ SaidGood(w, r, disk, writer) /\ CallsStep(w, r)
  <2>1. CASE room >= 1
    <3>1. r = [window[w] EXCEPT !.versions = versions] /\ calls' = calls
      BY <1>1, <2>1
    <3> HIDE DEF r
    <3>2. r \in WindowRecs /\ Alike(window[w], r)
      BY <1>2, <1>3, <3>1, FieldSet, AlikeSet
    <3>3. WindowGood(r, Len(api.runs)) /\ SaidGood(w, r, disk, writer)
      BY <1>2, <3>2, AlikeGood
    <3>4. r.running = window[w].running /\ r.lastRunId \in {0, window[w].lastRunId}
      BY <3>2 DEF Alike
    <3>5. CallsStep(w, r)
      BY <3>1, <3>2, <3>4, SameCalls
    <3> QED BY <3>2, <3>3, <3>5
  <2>2. CASE ~ (room >= 1)
    <3>1. r = Fresh("blank") /\ calls' = Left(w)
      BY <1>1, <2>2
    <3>2. r \in WindowRecs /\ r.page = "blank" /\ WindowGood(r, Len(api.runs))
      BY <3>1, FreshWindow
    <3> HIDE DEF r
    <3>3. CallsStep(w, r)
      BY <3>1, LeftIt
    <3> QED BY <3>2, <3>3 DEF SaidGood
  <2> QED BY <2>1, <2>2
<1>8. Shows(w, r)
  BY <1>1
<1> HIDE DEF r
<1>9. SaidGood(w, r, disk', writer')
  BY <1>4, <1>5, <1>7 DEF SaidGood, Stored, Listed
<1>10. UserStep(w, r, {})
  BY <1>2, <1>4, <1>5, <1>6, <1>7, <1>8, <1>9 DEF UserStep, Shows
<1> QED BY <1>10, UserKeeps

LEMMA RollbackKeeps ==
    ASSUME IInv, NEW w \in Windows, Rollback(w)
    PROVE  IInv'
<1>1. PICK k \in DOMAIN window[w].versions, room \in Rooms :
        LET flow == window[w].versions[k]
            versions == AddVersion(window[w].versions, flow)
            stored == saveVersionsToStorage(disk, versions, room)
            shown == [window[w] EXCEPT !.flow = flow, !.versions = versions,
                                       !.lastRunId = 0, !.runState = 0, !.runEvents = 0]
        IN  /\ WroteIf(w, room - 1, flow.id)
            /\ disk' = saveFlow(stored, flow, room - 1)
            /\ Shows(w, IF room >= 1 THEN Autosave(shown, room - 1) ELSE Fresh("blank"))
            /\ calls' = IF room >= 1 THEN calls ELSE Left(w)
  BY DEF Rollback
<1> DEFINE flow == window[w].versions[k]
           versions == AddVersion(window[w].versions, flow)
           stored == saveVersionsToStorage(disk, versions, room)
           shown == [window[w] EXCEPT !.flow = flow, !.versions = versions,
                                      !.lastRunId = 0, !.runState = 0, !.runEvents = 0]
           r == IF room >= 1 THEN Autosave(shown, room - 1) ELSE Fresh("blank")
           S == IF room - 1 >= 1 THEN {flow.id} ELSE {}
<1>2. /\ window[w] \in WindowRecs /\ WindowGood(window[w], Len(api.runs)) /\ room \in Int
      /\ disk \in Disks /\ Backed(disk) /\ known \subseteq FlowIds
  BY WindowFacts
<1>3. flow \in Flows
  BY <1>2, WindowFields, LenProperties
<1>4. versions \in Seq(Flows)
  <2>1. window[w].versions \in Seq(Flows)
    BY <1>2, WindowFields
  <2> HIDE DEF flow
  <2> QED BY <1>3, <2>1, VersionAdded
<1>5. /\ disk' = saveFlow(stored, flow, room - 1) /\ Shows(w, r)
      /\ calls' = IF room >= 1 THEN calls ELSE Left(w)
      /\ writer' = [i \in FlowIds |-> IF i \in S THEN w ELSE writer[i]]
  BY <1>1 DEF WroteIf, Wrote
<1> HIDE DEF flow, versions
<1>6. stored \in Disks /\ Backed(stored) /\ SameBut(disk, stored, {})
  BY <1>2, <1>4, VersionsKeep DEF Disks, Flows
<1> HIDE DEF stored
<1>7. /\ disk' \in Disks /\ Backed(disk') /\ SameBut(stored, disk', S)
      /\ Saves(room - 1) => Stored(disk', flow)
  <2>1. room - 1 \in Int
    BY <1>2
  <2> QED BY <1>3, <1>5, <1>6, <2>1, SaveKeeps DEF Disks, Flows
<1>8. SameBut(disk, disk', S)
  <2>1. SameBut(disk, stored, S)
    BY <1>6, SameButMore
  <2> QED BY <1>7, <2>1, SameButThen
<1>9. /\ shown \in WindowRecs /\ WindowGood(shown, Len(api.runs))
      /\ shown.flow = flow /\ shown.running = window[w].running /\ shown.lastRunId = 0
  <2> DEFINE a == [window[w] EXCEPT !.versions = versions]
  <2>1. a \in WindowRecs /\ Alike(window[w], a)
    BY <1>2, <1>4, FieldSet, AlikeSet
  <2>2. shown = [a EXCEPT !.flow = flow, !.lastRunId = 0, !.runState = 0, !.runEvents = 0]
    BY <1>2 DEF WindowRecs
  <2> HIDE DEF a, shown
  <2>3. WindowGood(a, Len(api.runs)) /\ a.running = window[w].running
    BY <1>2, <2>1, AlikeGood DEF Alike
  <2> QED BY <1>3, <2>1, <2>2, <2>3, CleanConsole
<1> HIDE DEF shown
<1>10. UNCHANGED <<api, known>>
  BY DEF Rollback
<1>11. /\ r \in WindowRecs /\ WindowGood(r, Len(api.runs)) /\ CallsStep(w, r)
       /\ r.page = "editor" /\ r.autosave = "saved" => Stored(disk', r.flow)
  <2>1. CASE room >= 1
    <3>1. r = Autosave(shown, room - 1) /\ calls' = calls
      BY <1>5, <2>1
    <3> HIDE DEF r
    <3>2. /\ r \in WindowRecs /\ r.flow = flow /\ r.running = window[w].running /\ r.lastRunId = 0
          /\ WindowGood(r, Len(api.runs)) /\ (r.autosave = "saved" => Saves(room - 1))
      BY <1>9, <3>1, AutosaveSays
    <3>3. CallsStep(w, r)
      BY <3>1, <3>2, SameCalls
    <3> QED BY <1>7, <3>2, <3>3
  <2>2. CASE ~ (room >= 1)
    <3>1. r = Fresh("blank") /\ calls' = Left(w)
      BY <1>5, <2>2
    <3>2. r \in WindowRecs /\ r.page = "blank" /\ WindowGood(r, Len(api.runs))
      BY <3>1, FreshWindow
    <3> HIDE DEF r
    <3>3. CallsStep(w, r)
      BY <3>1, LeftIt
    <3> QED BY <3>2, <3>3
  <2> QED BY <2>1, <2>2
<1> HIDE DEF r, S
<1>12. UserStep(w, r, S)
  BY <1>2, <1>5, <1>7, <1>8, <1>10, <1>11 DEF UserStep, SaidGood, Shows
<1> QED BY <1>12, UserKeeps
-----------------------------------------------------------------------------
(* Runs from the editor *)

\* A handler that mends the flow on show, and shows the rest as record has it.
LEMMA MendedShows ==
    ASSUME IInv, NEW w \in Windows, window[w].page = "editor", NEW record \in WindowRecs,
           record.page = "editor", record.flow = window[w].flow, record.autosave = window[w].autosave,
           WindowGood(record, Len(api.runs)), NEW room \in Int, ShowMended(w, record, room),
           api' = api, known' = known,
           \A r \in WindowRecs : r.running = record.running /\ r.lastRunId = record.lastRunId => CallsStep(w, r)
    PROVE  IInv'
<1> DEFINE flow == ensureBrowserDefaults(window[w].flow)
<1>1. /\ window[w] \in WindowRecs /\ SaidGood(w, window[w], disk, writer)
      /\ disk \in Disks /\ Backed(disk) /\ known \subseteq FlowIds
  BY WindowFacts
<1>2. flow \in Flows /\ flow.id = window[w].flow.id
  BY <1>1, WindowFields, FlowsMade
<1>3. flow # window[w].flow =>
        /\ disk' = saveFlow(disk, flow, room) /\ WroteIf(w, room, flow.id)
        /\ Shows(w, Autosave([record EXCEPT !.flow = flow], room))
  BY DEF ShowMended
<1>4. flow = window[w].flow => disk' = disk /\ WroteIf(w, 0, flow.id) /\ Shows(w, record)
  BY DEF ShowMended
<1> HIDE DEF flow
<1>5. CASE flow = window[w].flow
  <2>1. writer' = [i \in FlowIds |-> IF i \in {} THEN w ELSE writer[i]]
    BY <1>4, <1>5 DEF WroteIf, Wrote
  <2>2. writer' = writer
    BY <2>1 DEF IInv, TypeOK
  <2>3. SaidGood(w, record, disk, writer)
    BY <1>1 DEF SaidGood
  <2>4. CallsStep(w, record)
    OBVIOUS
  <2> QED BY <1>4, <1>5, <2>2, <2>3, <2>4, NoDiskStep
<1>6. CASE flow # window[w].flow
  <2> DEFINE a == [record EXCEPT !.flow = flow]
             r == Autosave(a, room)
             S == IF room >= 1 THEN {flow.id} ELSE {}
  <2>1. /\ disk' = saveFlow(disk, flow, room) /\ Shows(w, r)
        /\ writer' = [i \in FlowIds |-> IF i \in S THEN w ELSE writer[i]]
    BY <1>3, <1>6 DEF WroteIf, Wrote
  <2>2. /\ disk' \in Disks /\ Backed(disk') /\ SameBut(disk, disk', S)
        /\ Saves(room) => Stored(disk', flow)
    BY <1>1, <1>2, <2>1, SaveKeeps DEF Disks, Flows
  <2>3. a \in WindowRecs
    BY <1>2, FieldSet
  <2>4. /\ a.flow = flow /\ a.page = record.page /\ a.confirm = record.confirm /\ a.run = record.run
        /\ a.at = record.at /\ a.size = record.size /\ a.total = record.total
        /\ a.running = record.running /\ a.lastRunId = record.lastRunId
        /\ a.runState = record.runState /\ a.runEvents = record.runEvents
    BY DEF WindowRecs
  <2> HIDE DEF a
  <2>5. WindowGood(a, Len(api.runs))
    BY <2>4 DEF WindowGood
  <2>6. /\ r \in WindowRecs /\ r.flow = flow /\ r.running = record.running /\ r.lastRunId = record.lastRunId
        /\ WindowGood(r, Len(api.runs)) /\ (r.autosave = "saved" => Saves(room))
    BY <2>3, <2>4, <2>5, AutosaveSays
  <2> HIDE DEF r, S
  <2>7. CallsStep(w, r)
    BY <2>6
  <2>8. UserStep(w, r, S)
    BY <1>1, <2>1, <2>2, <2>6, <2>7 DEF UserStep, SaidGood, Shows
  <2> QED BY <2>8, UserKeeps
<1> QED BY <1>5, <1>6

LEMMA ValidateFlowKeeps ==
    ASSUME IInv, NEW w \in Windows, ValidateFlow(w)
    PROVE  IInv'
<1>1. PICK room \in Rooms : ShowMended(w, window[w], room)
  BY DEF ValidateFlow
<1>2. window[w].page = "editor" /\ UNCHANGED <<calls, api, known>>
  BY DEF ValidateFlow
<1>3. window[w] \in WindowRecs /\ WindowGood(window[w], Len(api.runs)) /\ room \in Int
  BY WindowFacts
<1>4. \A r \in WindowRecs : r.running = window[w].running /\ r.lastRunId = window[w].lastRunId => CallsStep(w, r)
  BY <1>2, SameCalls
<1> QED BY <1>1, <1>2, <1>3, <1>4, MendedShows

LEMMA RunCallMade ==
    ASSUME NEW w \in Windows, NEW flow \in Flows
    PROVE  RunCall(w, flow) \in CallRecs /\ RunCall(w, flow).win = w /\ RunCall(w, flow).kind = "run"
<1> DEFINE a == Call(w, "run")
           b == [a EXCEPT !.id = flow.id]
           c == [b EXCEPT !.text = flow.text]
<1>1. flow.id \in FlowIds /\ flow.text \in Int
  BY FlowsMade
<1>2. RunCall(w, flow) = c
  BY DEF RunCall
<1>3. a \in CallRecs /\ a.win = w /\ a.kind = "run"
  BY CallMade
<1> HIDE DEF a
<1>4. b \in CallRecs /\ b.win = w /\ b.kind = "run"
  BY <1>1, <1>3 DEF CallRecs
<1> HIDE DEF b
<1>5. c \in CallRecs /\ c.win = w /\ c.kind = "run"
  BY <1>1, <1>4 DEF CallRecs
<1> QED BY <1>2, <1>5

\* What a window shows while its run is under way.
LEMMA RunningShown ==
    ASSUME NEW r \in WindowRecs, r.page = "editor"
    PROVE  LET s == [r EXCEPT !.running = TRUE, !.lastRunId = 0] IN
           /\ s \in WindowRecs
           /\ s.page = r.page /\ s.flow = r.flow /\ s.autosave = r.autosave /\ s.running = TRUE /\ s.lastRunId = 0
           /\ \A n : WindowGood(r, n) => WindowGood(s, n)
<1> DEFINE a == [r EXCEPT !.running = TRUE]
           s == [r EXCEPT !.running = TRUE, !.lastRunId = 0]
<1>1. s = [a EXCEPT !.lastRunId = 0]
  OBVIOUS
<1>2. s \in WindowRecs
  <2>1. a \in WindowRecs
    BY FieldSet
  <2> HIDE DEF a, s
  <2> QED BY <1>1, <2>1, FieldSet
<1>3. /\ s.page = r.page /\ s.flow = r.flow /\ s.autosave = r.autosave
      /\ s.confirm = r.confirm /\ s.run = r.run /\ s.at = r.at
      /\ s.size = r.size /\ s.total = r.total /\ s.running = TRUE /\ s.lastRunId = 0
  BY DEF WindowRecs
<1> HIDE DEF s
<1>4. \A n : WindowGood(r, n) => WindowGood(s, n)
  BY <1>3 DEF WindowGood
<1> QED BY <1>2, <1>3, <1>4 DEF s

LEMMA StartRunKeeps ==
    ASSUME IInv, NEW w \in Windows, StartRun(w)
    PROVE  IInv'
<1> DEFINE r0 == [window[w] EXCEPT !.running = TRUE, !.lastRunId = 0]
           flow == ensureBrowserDefaults(window[w].flow)
<1>1. PICK room \in Rooms : ShowMended(w, r0, room)
  BY DEF StartRun
<1>2. window[w].page = "editor" /\ ~ window[w].running /\ UNCHANGED <<api, known>> /\ calls' = calls \union {RunCall(w, flow)}
  BY DEF StartRun
<1>3. window[w] \in WindowRecs /\ WindowGood(window[w], Len(api.runs)) /\ room \in Int
  BY WindowFacts
<1>4. /\ r0 \in WindowRecs /\ r0.page = "editor" /\ r0.flow = window[w].flow /\ r0.autosave = window[w].autosave
      /\ r0.running = TRUE /\ r0.lastRunId = 0 /\ WindowGood(r0, Len(api.runs))
  BY <1>2, <1>3, RunningShown
<1>5. flow \in Flows
  BY <1>3, WindowFields, FlowsMade
<1> HIDE DEF r0, flow
<1>6. RunCall(w, flow) \in CallRecs /\ RunCall(w, flow).win = w /\ RunCall(w, flow).kind = "run"
  BY <1>5, RunCallMade
<1>7. \A r \in WindowRecs : r.running = r0.running /\ r.lastRunId = r0.lastRunId => CallsStep(w, r)
  BY <1>2, <1>4, <1>6 DEF CallsStep
<1> QED BY <1>1, <1>2, <1>3, <1>4, <1>7, MendedShows

LEMMA StartSelfCheckKeeps ==
    ASSUME IInv, NEW w \in Windows, StartSelfCheck(w)
    PROVE  IInv'
<1> DEFINE r0 == [window[w] EXCEPT !.running = TRUE, !.lastRunId = 0]
<1>1. /\ window[w] \in WindowRecs /\ WindowGood(window[w], Len(api.runs)) /\ SaidGood(w, window[w], disk, writer)
  BY WindowFacts
<1>2. /\ Shows(w, r0) /\ window[w].page = "editor" /\ ~ window[w].running
      /\ UNCHANGED <<disk, api, known, writer>> /\ calls' = calls \union {RunCall(w, SelfCheckFlow)}
  BY DEF StartSelfCheck
<1>3. /\ r0 \in WindowRecs /\ r0.page = "editor" /\ r0.flow = window[w].flow /\ r0.autosave = window[w].autosave
      /\ r0.running = TRUE /\ r0.lastRunId = 0 /\ WindowGood(r0, Len(api.runs))
  BY <1>1, <1>2, RunningShown
<1> HIDE DEF r0
<1>4. SaidGood(w, r0, disk, writer)
  BY <1>1, <1>2, <1>3 DEF SaidGood
<1>5. SelfCheckFlow \in Flows
  BY FlowsMade
<1>6. /\ RunCall(w, SelfCheckFlow) \in CallRecs /\ RunCall(w, SelfCheckFlow).win = w
      /\ RunCall(w, SelfCheckFlow).kind = "run"
  BY <1>5, RunCallMade
<1>7. CallsStep(w, r0)
  BY <1>2, <1>3, <1>6 DEF CallsStep
<1> QED BY <1>2, <1>3, <1>4, <1>7, NoDiskStep

\* The API answers c: the windows stay, the stored runs grow.
LEMMA ServedKeeps ==
    ASSUME IInv, UNCHANGED <<disk, window, known, writer>>,
           api' \in [runs : Seq(Flows), tasks : Nat], Len(api'.runs) >= Len(api.runs),
           NEW c \in calls, NEW N, calls' = (calls \ {c}) \union N,
           \A d \in N : d \in CallRecs /\ d.win = c.win /\ d.kind = c.kind /\ d.win # Nobody /\ c.kind # "events",
           \A d, e \in N : d = e
    PROVE  IInv'
<1>1. calls \subseteq CallRecs /\ CallsGood
  BY DEF IInv, TypeOK
<1>2. TypeOK'
  BY <1>1 DEF IInv, TypeOK
<1>3. \A d \in N : CallGood(d)
  <2> TAKE d \in N
  <2>1. CallGood(c)
    BY <1>1 DEF CallsGood
  <2> QED BY <2>1 DEF CallGood
<1>4. \A d \in calls' : CallGood(d)
  BY <1>1, <1>3 DEF CallsGood
<1>5. \A d, e \in calls' : d.win = e.win /\ d.win # Nobody /\ IsOfRun(d) /\ IsOfRun(e) => d = e
  BY <1>1 DEF CallsGood, IsOfRun
<1>6. CallsGood'
  BY <1>4, <1>5 DEF CallsGood, CallGood, IsOfRun
<1>7. WindowsGood'
  <2>1. \A w \in Windows : WindowGood(window[w], Len(api'.runs))
    <3> TAKE w \in Windows
    <3>1. WindowGood(window[w], Len(api.runs)) /\ window[w].run \in Nat
      BY WindowFacts, WindowFields
    <3>2. Len(api.runs) \in Nat /\ Len(api'.runs) \in Nat
      <4>1. api.runs \in Seq(Flows) /\ api'.runs \in Seq(Flows)
        BY DEF IInv, TypeOK
      <4> QED BY <4>1, LenProperties
    <3> QED BY <3>1, <3>2 DEF WindowGood
  <2> QED BY <2>1 DEF WindowsGood, WindowGood
<1>8. (\A w \in Windows : SaidGood(w, window[w], disk, writer))' /\ Backed(disk)'
  BY DEF IInv, SaidGood, Stored, Listed, Backed
<1> QED BY <1>2, <1>6, <1>7, <1>8 DEF IInv

LEMMA ApiFacts ==
    ASSUME IInv
    PROVE  /\ api \in [runs : Seq(Flows), tasks : Nat] /\ api.runs \in Seq(Flows) /\ api.tasks \in Nat
           /\ Len(api.runs) \in Nat
           /\ \A f \in Flows : /\ [api EXCEPT !.runs = Append(@, f)] \in [runs : Seq(Flows), tasks : Nat]
                               /\ Len([api EXCEPT !.runs = Append(@, f)].runs) = Len(api.runs) + 1
           /\ \A n \in Nat : /\ [api EXCEPT !.tasks = n] \in [runs : Seq(Flows), tasks : Nat]
                             /\ [api EXCEPT !.tasks = n].runs = api.runs
<1> DEFINE Q == Seq(Flows)
<1>1. api \in [runs : Q, tasks : Nat]
  BY DEF IInv, TypeOK
<1> HIDE DEF Q
<1>2. api.runs \in Q /\ api.tasks \in Nat
  BY <1>1
<1>3. \A f \in Flows : Append(api.runs, f) \in Q /\ Len(Append(api.runs, f)) = Len(api.runs) + 1
  BY <1>2, AppendProperties DEF Q
<1>4. Len(api.runs) \in Nat
  BY <1>2, LenProperties DEF Q
<1>5. \A q \in Q : [api EXCEPT !.runs = q] \in [runs : Q, tasks : Nat] /\ [api EXCEPT !.runs = q].runs = q
  BY <1>1
<1>6. \A n \in Nat : [api EXCEPT !.tasks = n] \in [runs : Q, tasks : Nat] /\ [api EXCEPT !.tasks = n].runs = api.runs
  BY <1>1
<1>7. \A f \in Flows : /\ [api EXCEPT !.runs = Append(@, f)] \in [runs : Q, tasks : Nat]
                       /\ Len([api EXCEPT !.runs = Append(@, f)].runs) = Len(api.runs) + 1
  <2> TAKE f \in Flows
  <2>1. PICK q \in Q : q = Append(api.runs, f)
    BY <1>3
  <2>2. [api EXCEPT !.runs = Append(@, f)] = [api EXCEPT !.runs = q]
    BY <2>1
  <2> QED BY <1>3, <1>5, <2>1, <2>2
<1> QED BY <1>1, <1>2, <1>4, <1>6, <1>7 DEF Q

LEMMA RunServedKeeps ==
    ASSUME IInv, NEW c \in calls, RunIsServed(c)
    PROVE  IInv'
<1>1. PICK outcome \in {"ok", "error"}, stored \in BOOLEAN :
        /\ outcome = "ok" => stored
        /\ api' = IF stored THEN [api EXCEPT !.runs = Append(@, [id |-> c.id, text |-> c.text])] ELSE api
        /\ calls' = (calls \ {c}) \union
             IF c.win = Nobody THEN {}
             ELSE {[c EXCEPT !.outcome = outcome, !.run = IF outcome = "ok" THEN Len(api.runs) + 1 ELSE 0]}
  BY DEF RunIsServed
<1>2. c \in CallRecs /\ c.kind = "run" /\ UNCHANGED <<disk, window, known, writer>>
  BY DEF IInv, TypeOK, RunIsServed
<1>3. c.id \in FlowIds /\ c.text \in Int
  BY <1>2 DEF CallRecs
<1>4. PICK f \in Flows : f = [id |-> c.id, text |-> c.text]
  BY <1>3, FlowsMade
<1>5. api' \in [runs : Seq(Flows), tasks : Nat] /\ Len(api'.runs) >= Len(api.runs)
  <2>1. CASE stored
    <3>1. api' = [api EXCEPT !.runs = Append(@, f)]
      BY <1>1, <1>4, <2>1
    <3> QED BY <3>1, ApiFacts
  <2>2. CASE ~ stored
    BY <1>1, <2>2, ApiFacts
  <2> QED BY <2>1, <2>2
<1> DEFINE n == IF outcome = "ok" THEN Len(api.runs) + 1 ELSE 0
           d == [[c EXCEPT !.outcome = outcome] EXCEPT !.run = n]
           N == IF c.win = Nobody THEN {} ELSE {d}
<1>6. n \in Nat
  BY ApiFacts
<1>7. calls' = (calls \ {c}) \union N
  BY <1>1
<1> HIDE DEF n
<1>8. d \in CallRecs /\ d.win = c.win /\ d.kind = c.kind
  BY <1>2, <1>6 DEF CallRecs
<1> HIDE DEF d
<1>9. /\ \A e \in N : e \in CallRecs /\ e.win = c.win /\ e.kind = c.kind /\ e.win # Nobody /\ c.kind # "events"
      /\ \A a, b \in N : a = b
  BY <1>2, <1>8
<1> HIDE DEF N
<1> QED BY <1>2, <1>5, <1>7, <1>9, ServedKeeps

LEMMA ListServedKeeps ==
    ASSUME IInv, NEW c \in calls, ListIsServed(c)
    PROVE  IInv'
<1> DEFINE n == IF c.run = 0 THEN api.tasks ELSE Events[c.keyword]
<1>1. PICK outcome \in {"ok", "error"} :
        calls' = (calls \ {c}) \union {[c EXCEPT !.outcome = outcome, !.total = n]}
  BY DEF ListIsServed
<1>2. c \in CallRecs /\ c.kind = "list" /\ UNCHANGED <<disk, window, api, known, writer>>
  BY DEF IInv, TypeOK, ListIsServed
<1>3. c.win # Nobody
  BY <1>2 DEF IInv, CallsGood, CallGood
<1>4. n \in Nat
  <2>1. c.keyword \in BOOLEAN
    BY <1>2 DEF CallRecs
  <2> QED BY <2>1, ApiFacts, BoundsAssumption
<1> DEFINE d == [[c EXCEPT !.outcome = outcome] EXCEPT !.total = n]
           N == {d}
<1>5. calls' = (calls \ {c}) \union N
  BY <1>1
<1> HIDE DEF n
<1>6. d \in CallRecs /\ d.win = c.win /\ d.kind = c.kind
  BY <1>2, <1>4 DEF CallRecs
<1> HIDE DEF d
<1>7. /\ \A e \in N : e \in CallRecs /\ e.win = c.win /\ e.kind = c.kind /\ e.win # Nobody /\ c.kind # "events"
      /\ \A a, b \in N : a = b
  BY <1>2, <1>3, <1>6
<1> HIDE DEF N
<1>8. api' \in [runs : Seq(Flows), tasks : Nat] /\ Len(api'.runs) >= Len(api.runs)
  BY <1>2, ApiFacts
<1> QED BY <1>2, <1>5, <1>7, <1>8, ServedKeeps

LEMMA ActServedKeeps ==
    ASSUME IInv, NEW c \in calls, ActIsServed(c)
    PROVE  IInv'
<1>1. PICK outcome \in {"ok", "error"}, deleted \in BOOLEAN :
        /\ deleted => api.tasks > 0
        /\ api' = IF deleted THEN [api EXCEPT !.tasks = @ - 1] ELSE api
        /\ calls' = (calls \ {c}) \union IF c.win = Nobody THEN {} ELSE {[c EXCEPT !.outcome = outcome]}
  BY DEF ActIsServed
<1>2. c \in CallRecs /\ c.kind = "act" /\ UNCHANGED <<disk, window, known, writer>>
  BY DEF IInv, TypeOK, ActIsServed
<1>3. api' \in [runs : Seq(Flows), tasks : Nat] /\ Len(api'.runs) >= Len(api.runs)
  <2>1. CASE deleted
    <3>1. api.tasks - 1 \in Nat
      BY <1>1, <2>1, ApiFacts
    <3>2. api' = [api EXCEPT !.tasks = api.tasks - 1]
      BY <1>1, <2>1
    <3> QED BY <3>1, <3>2, ApiFacts
  <2>2. CASE ~ deleted
    BY <1>1, <2>2, ApiFacts
  <2> QED BY <2>1, <2>2
<1> DEFINE d == [c EXCEPT !.outcome = outcome]
           N == IF c.win = Nobody THEN {} ELSE {d}
<1>4. calls' = (calls \ {c}) \union N
  BY <1>1
<1>5. d \in CallRecs /\ d.win = c.win /\ d.kind = c.kind
  BY <1>2 DEF CallRecs
<1> HIDE DEF d
<1>6. /\ \A e \in N : e \in CallRecs /\ e.win = c.win /\ e.kind = c.kind /\ e.win # Nobody /\ c.kind # "events"
      /\ \A a, b \in N : a = b
  BY <1>2, <1>5
<1> HIDE DEF N
<1> QED BY <1>2, <1>3, <1>4, <1>6, ServedKeeps

LEMMA TaskAppearsKeeps ==
    ASSUME IInv, TaskAppears
    PROVE  IInv'
<1>1. UNCHANGED <<disk, window, calls, known, writer>> /\ api' = [api EXCEPT !.tasks = api.tasks + 1]
  BY DEF TaskAppears
<1>2. api' \in [runs : Seq(Flows), tasks : Nat] /\ api'.runs = api.runs
  BY <1>1, ApiFacts
<1>3. TypeOK'
  BY <1>1, <1>2 DEF IInv, TypeOK
<1> QED BY <1>1, <1>2, <1>3 DEF IInv, CallsGood, CallGood, IsOfRun, WindowsGood, WindowGood, SaidGood, Stored, Listed, Backed

\* Window w takes the answer c, asking for N again.
LEMMA ReturnKeeps ==
    ASSUME IInv, NEW c \in calls, NEW w \in Windows, c.win = w, NEW r \in WindowRecs, Shows(w, r),
           UNCHANGED <<disk, api, known, writer>>, WindowGood(r, Len(api.runs)),
           r.page = window[w].page, r.flow = window[w].flow, r.autosave = window[w].autosave,
           IsOfRun(c) \/ (r.running = window[w].running /\ r.lastRunId = window[w].lastRunId),
           NEW N, calls' = (calls \ {c}) \union N,
           \A d \in N : d \in CallRecs /\ d.win = w /\ d.kind # "run"
                        /\ (d.kind = "events" => IsOfRun(c) /\ r.running /\ r.lastRunId = d.run),
           \A d, e \in N : d = e
    PROVE  IInv'
<1>1. /\ window \in [Windows -> WindowRecs] /\ calls \subseteq CallRecs /\ CallsGood
      /\ disk \in Disks /\ Backed(disk)
  BY DEF IInv, TypeOK
<1>2. window' = [window EXCEPT ![w] = r] /\ window'[w] = r /\ \A v \in Windows \ {w} : window'[v] = window[v]
  BY <1>1 DEF Shows
<1>3. Nobody \notin Windows /\ \A d \in calls : d.win \in Windows \union {Nobody} /\ CallGood(d)
  BY <1>1, BoundsAssumption DEF Nobody, CallRecs, CallsGood
<1>4. \A d, e \in calls : d.win = e.win /\ d.win # Nobody /\ IsOfRun(d) /\ IsOfRun(e) => d = e
  BY <1>1 DEF CallsGood
<1>5. \A d : CallGood(d)' <=>
        /\ d.win = Nobody => d.kind \in {"run", "act"} /\ d.outcome = "none"
        /\ d.win # Nobody /\ d.kind = "run" => window'[d.win].running /\ window'[d.win].lastRunId = 0
        /\ d.win # Nobody /\ d.kind = "events" => window'[d.win].running /\ window'[d.win].lastRunId \in {0, d.run}
  BY DEF CallGood
<1>6. ASSUME NEW d \in calls'
      PROVE  CallGood(d)'
  <2>1. CASE d \in N
    BY <1>2, <1>3, <1>5, <2>1
  <2>2. CASE d \in calls /\ d # c /\ d.win # w
    <3>1. CallGood(d) /\ (d.win # Nobody => window'[d.win] = window[d.win])
      BY <1>2, <1>3, <2>2
    <3> QED BY <1>5, <3>1 DEF CallGood
  <2>3. CASE d \in calls /\ d # c /\ d.win = w /\ IsOfRun(c)
    <3>1. d.kind # "run" /\ d.kind # "events"
      BY <1>3, <1>4, <2>3 DEF IsOfRun
    <3> QED BY <1>3, <1>5, <2>3, <3>1
  <2>4. CASE d \in calls /\ d # c /\ d.win = w /\ r.running = window[w].running /\ r.lastRunId = window[w].lastRunId
    <3>1. CallGood(d)
      BY <1>3, <2>4
    <3> QED BY <1>2, <1>3, <1>5, <2>4, <3>1 DEF CallGood
  <2> QED BY <2>1, <2>2, <2>3, <2>4
<1>7. \A d, e \in calls' : d.win = e.win /\ d.win # Nobody /\ IsOfRun(d) /\ IsOfRun(e) => d = e
  <2>1. ASSUME NEW d \in N, NEW e \in calls \ {c}, d.win = e.win, IsOfRun(d), IsOfRun(e)
        PROVE  FALSE
    <3>1. IsOfRun(c) /\ e.win = w
      BY <2>1 DEF IsOfRun
    <3> QED BY <1>3, <1>4, <2>1, <3>1
  <2> QED BY <1>4, <2>1
<1>8. CallsGood'
  BY <1>6, <1>7 DEF CallsGood, IsOfRun
<1>9. calls' \subseteq CallRecs /\ window' \in [Windows -> WindowRecs]
  BY <1>1, <1>2
<1>10. TypeOK'
  BY <1>9 DEF IInv, TypeOK
<1>11. \A v \in Windows : WindowGood(window'[v], Len(api.runs))
  BY <1>2 DEF IInv, WindowsGood
<1>12. WindowsGood'
  BY <1>11 DEF WindowsGood, WindowGood
<1>13. \A v \in Windows : SaidGood(v, window'[v], disk, writer)
  BY <1>2 DEF IInv, SaidGood
<1>14. (\A v \in Windows : SaidGood(v, window[v], disk, writer))' /\ Backed(disk)'
  BY <1>1, <1>13 DEF SaidGood, Stored, Listed, Backed
<1> QED BY <1>8, <1>10, <1>12, <1>14 DEF IInv

\* A window that shows record r is still on its page and with its run; what
\* is asked for again is a list.
StaysWithRun(w, r) ==
    /\ r.page = window[w].page /\ r.flow = window[w].flow /\ r.autosave = window[w].autosave
    /\ r.running = window[w].running /\ r.lastRunId = window[w].lastRunId
AsksForList(w, N) ==
    /\ \A d \in N : d \in CallRecs /\ d.win = w /\ d.kind = "list"
    /\ \A d, e \in N : d = e

LEMMA QuietReturnKeeps ==
    ASSUME IInv, NEW c \in calls, NEW w \in Windows, c.win = w, NEW r \in WindowRecs, Shows(w, r),
           UNCHANGED <<disk, api, known, writer>>, WindowGood(r, Len(api.runs)), StaysWithRun(w, r),
           NEW N, calls' = (calls \ {c}) \union N, AsksForList(w, N)
    PROVE  IInv'
<1>1. /\ r.page = window[w].page /\ r.flow = window[w].flow /\ r.autosave = window[w].autosave
      /\ r.running = window[w].running /\ r.lastRunId = window[w].lastRunId
  BY DEF StaysWithRun
<1>2. \A d \in N : d \in CallRecs /\ d.win = w /\ d.kind # "run" /\ d.kind # "events"
  BY DEF AsksForList
<1>3. \A d, e \in N : d = e
  BY DEF AsksForList
<1> QED BY <1>1, <1>2, <1>3, ReturnKeeps

LEMMA RunReturnsKeeps ==
    ASSUME IInv, NEW c \in calls, RunReturns(c)
    PROVE  IInv'
<1>1. c \in CallRecs /\ c.kind = "run" /\ c.outcome # "none" /\ UNCHANGED <<disk, api, known, writer>> /\ IsOfRun(c)
  BY DEF IInv, TypeOK, RunReturns, IsOfRun
<1>2. CallGood(c)
  BY DEF IInv, CallsGood
<1>3. PICK w \in Windows : w = c.win
  BY <1>1, <1>2 DEF CallGood, CallRecs
<1>4. Nobody \notin Windows
  BY BoundsAssumption DEF Nobody
<1>5. /\ window[w] \in WindowRecs /\ WindowGood(window[w], Len(api.runs))
      /\ window[w].running /\ window[w].lastRunId = 0
  BY <1>1, <1>2, <1>3, <1>4, WindowFacts DEF CallGood
<1>6. CASE c.outcome = "error"
  <2> DEFINE r == [[window[w] EXCEPT !.runState = Failed] EXCEPT !.running = FALSE]
             N == {}
  <2>1. Shows(w, r) /\ calls' = (calls \ {c}) \union N
    BY <1>3, <1>6 DEF RunReturns
  <2>2. r \in WindowRecs
    <3>1. \A v \in Int : [window[w] EXCEPT !.runState = v] \in WindowRecs
      BY <1>5, FieldSet
    <3>2. [window[w] EXCEPT !.runState = Failed] \in WindowRecs
      BY <3>1 DEF Failed
    <3> QED BY <3>2, FieldSet
  <2>3. /\ r.page = window[w].page /\ r.flow = window[w].flow /\ r.autosave = window[w].autosave
        /\ r.confirm = window[w].confirm /\ r.run = window[w].run /\ r.at = window[w].at
        /\ r.size = window[w].size /\ r.total = window[w].total /\ r.running = FALSE /\ r.lastRunId = window[w].lastRunId
    BY <1>5 DEF WindowRecs
  <2> HIDE DEF r
  <2>4. WindowGood(r, Len(api.runs))
    BY <1>5, <2>3 DEF WindowGood
  <2>5. /\ \A d \in N : d \in CallRecs /\ d.win = w /\ d.kind # "run"
                        /\ (d.kind = "events" => IsOfRun(c) /\ r.running /\ r.lastRunId = d.run)
      /\ \A d, e \in N : d = e
    OBVIOUS
  <2> HIDE DEF N
  <2> QED BY <1>1, <1>3, <2>1, <2>2, <2>3, <2>4, <2>5, ReturnKeeps
<1>7. CASE c.outcome # "error"
  <2> DEFINE r == [[window[w] EXCEPT !.runState = c.run] EXCEPT !.lastRunId = c.run]
             d == [Call(w, "events") EXCEPT !.run = c.run]
             N == {d}
  <2>1. Shows(w, r) /\ calls' = (calls \ {c}) \union N
    BY <1>3, <1>7 DEF RunReturns
  <2>2. c.run \in Nat
    BY <1>1 DEF CallRecs
  <2>3. r \in WindowRecs
    <3>1. \A v \in Int : [window[w] EXCEPT !.runState = v] \in WindowRecs
      BY <1>5, FieldSet
    <3>2. [window[w] EXCEPT !.runState = c.run] \in WindowRecs
      BY <2>2, <3>1
    <3> QED BY <2>2, <3>2, FieldSet
  <2>4. /\ r.page = window[w].page /\ r.flow = window[w].flow /\ r.autosave = window[w].autosave
        /\ r.confirm = window[w].confirm /\ r.run = window[w].run /\ r.at = window[w].at
        /\ r.size = window[w].size /\ r.total = window[w].total /\ r.running = window[w].running
        /\ r.runState = c.run /\ r.lastRunId = c.run
    BY <1>5 DEF WindowRecs
  <2>5. d \in CallRecs /\ d.win = w /\ d.kind = "events" /\ d.run = c.run
    <3> DEFINE e == Call(w, "events")
    <3>1. e \in CallRecs /\ e.win = w /\ e.kind = "events"
      BY CallMade
    <3> HIDE DEF e
    <3>2. [e EXCEPT !.run = c.run] \in CallRecs /\ [e EXCEPT !.run = c.run].win = w
          /\ [e EXCEPT !.run = c.run].kind = "events" /\ [e EXCEPT !.run = c.run].run = c.run
      BY <2>2, <3>1 DEF CallRecs
    <3> QED BY <3>2 DEF e
  <2> HIDE DEF r, d
  <2>6. WindowGood(r, Len(api.runs))
    BY <1>5, <2>4 DEF WindowGood
  <2>7. \A e \in N : e \in CallRecs /\ e.win = w /\ e.kind # "run"
                       /\ (e.kind = "events" => IsOfRun(c) /\ r.running /\ r.lastRunId = e.run)
    BY <1>1, <1>5, <2>4, <2>5
  <2>8. \A e, f \in N : e = f
    OBVIOUS
  <2> HIDE DEF N
  <2> QED BY <1>1, <1>3, <2>1, <2>3, <2>4, <2>6, <2>7, <2>8, ReturnKeeps
<1> QED BY <1>6, <1>7

LEMMA EventsReturnKeeps ==
    ASSUME IInv, NEW c \in calls, EventsReturn(c)
    PROVE  IInv'
<1>1. c \in CallRecs /\ c.kind = "events" /\ UNCHANGED <<disk, api, known, writer>> /\ IsOfRun(c)
  BY DEF IInv, TypeOK, EventsReturn, IsOfRun
<1>2. CallGood(c) /\ Nobody \notin Windows
  BY BoundsAssumption DEF IInv, CallsGood, Nobody
<1>3. PICK w \in Windows : w = c.win
  BY <1>1, <1>2 DEF CallGood, CallRecs
<1>4. /\ window[w] \in WindowRecs /\ WindowGood(window[w], Len(api.runs)) /\ window[w].lastRunId \in {0, c.run}
  BY <1>1, <1>2, <1>3, WindowFacts DEF CallGood
<1> DEFINE r == [[window[w] EXCEPT !.runEvents = c.run] EXCEPT !.running = FALSE]
           N == {}
<1>5. Shows(w, r) /\ calls' = (calls \ {c}) \union N
  BY <1>3 DEF EventsReturn
<1>6. r \in WindowRecs
  <2>1. c.run \in Nat
    BY <1>1 DEF CallRecs
  <2>2. [window[w] EXCEPT !.runEvents = c.run] \in WindowRecs
    BY <1>4, <2>1, FieldSet
  <2> QED BY <2>2, FieldSet
<1>7. /\ r.page = window[w].page /\ r.flow = window[w].flow /\ r.autosave = window[w].autosave
      /\ r.confirm = window[w].confirm /\ r.run = window[w].run /\ r.at = window[w].at
      /\ r.size = window[w].size /\ r.total = window[w].total /\ r.running = FALSE
      /\ r.lastRunId = window[w].lastRunId /\ r.runState = window[w].runState /\ r.runEvents = c.run
  BY <1>4 DEF WindowRecs
<1> HIDE DEF r
<1>8. WindowGood(r, Len(api.runs))
  BY <1>4, <1>7 DEF WindowGood
<1>9. /\ \A d \in N : d \in CallRecs /\ d.win = w /\ d.kind # "run"
                        /\ (d.kind = "events" => IsOfRun(c) /\ r.running /\ r.lastRunId = d.run)
      /\ \A d, e \in N : d = e
  OBVIOUS
<1> HIDE DEF N
<1> QED BY <1>1, <1>3, <1>5, <1>6, <1>7, <1>8, <1>9, ReturnKeeps
-----------------------------------------------------------------------------
(* Pages of a list *)

\* A window of a list asks again, once or twice: nothing else of it changes
\* than where it is in the list.
LEMMA AskKeeps ==
    ASSUME IInv, NEW w \in Windows, NEW r \in WindowRecs, Shows(w, r), UNCHANGED <<disk, api, known, writer>>,
           r.page # "editor", WindowGood(r, Len(api.runs)),
           r.running = window[w].running, r.lastRunId = window[w].lastRunId,
           NEW N \in SUBSET Harmless(w), calls' = calls \union N
    PROVE  IInv'
<1>1. CallsStep(w, r)
  BY DEF CallsStep
<1>2. SaidGood(w, r, disk, writer)
  BY DEF SaidGood
<1> QED BY <1>1, <1>2, NoDiskStep

LEMMA ListingHarmless ==
    ASSUME NEW w \in Windows, NEW view \in WindowRecs
    PROVE  Listing(w, view) \in Harmless(w)
BY ListingMade DEF Harmless

\* The list page in another place.
LEMMA AsksKeeps ==
    ASSUME IInv, NEW w \in Windows, NEW view \in WindowRecs, Asks(w, view), UNCHANGED <<disk, api, known, writer>>,
           IsList(w), view.page = window[w].page, view.running = window[w].running,
           view.lastRunId = window[w].lastRunId, WindowGood(view, Len(api.runs))
    PROVE  IInv'
<1> DEFINE r == [view EXCEPT !.loading = TRUE]
           N == {Listing(w, view)}
<1>1. r \in WindowRecs /\ Alike(view, r)
  BY FieldSet, AlikeSet
<1>2. Shows(w, r) /\ calls' = calls \union N
  BY DEF Asks
<1>3. N \in SUBSET Harmless(w)
  BY ListingHarmless
<1> HIDE DEF r, N
<1>4. WindowGood(r, Len(api.runs))
  BY <1>1, AlikeGood
<1>5. r.page # "editor" /\ r.running = window[w].running /\ r.lastRunId = window[w].lastRunId
  BY <1>1 DEF Alike, IsList
<1> QED BY <1>1, <1>2, <1>3, <1>4, <1>5, AskKeeps

LEMMA TurnPageKeeps ==
    ASSUME IInv, NEW w \in Windows, TurnPage(w)
    PROVE  IInv'
<1>1. window[w] \in WindowRecs /\ WindowGood(window[w], Len(api.runs))
  BY WindowFacts
<1>2. PICK at \in {window[w].at - 1, window[w].at + 1} :
        /\ at \in 1 .. Pages(window[w].total, window[w].size)
        /\ Asks(w, [window[w] EXCEPT !.at = at])
  BY DEF TurnPage
<1>3. UNCHANGED <<disk, api, known, writer>> /\ IsList(w)
  BY DEF TurnPage
<1> DEFINE view == [window[w] EXCEPT !.at = at]
<1>4. view \in WindowRecs
  <2>1. at \in Nat
    BY <1>1, <1>2, WindowFields, FirstPage
  <2> QED BY <1>1, <2>1, FieldSet
<1>5. /\ view.page = window[w].page /\ view.confirm = window[w].confirm /\ view.run = window[w].run
      /\ view.at = at /\ view.size = window[w].size /\ view.total = window[w].total
      /\ view.running = window[w].running /\ view.lastRunId = window[w].lastRunId
      /\ view.runState = window[w].runState /\ view.runEvents = window[w].runEvents
  BY <1>1 DEF WindowRecs
<1>6. Asks(w, view)
  BY <1>2
<1> HIDE DEF view
<1>7. WindowGood(view, Len(api.runs))
  BY <1>1, <1>2, <1>5 DEF WindowGood
<1> QED BY <1>3, <1>4, <1>5, <1>6, <1>7, AsksKeeps

LEMMA SetPageSizeKeeps ==
    ASSUME IInv, NEW w \in Windows, SetPageSize(w)
    PROVE  IInv'
<1>1. window[w] \in WindowRecs /\ WindowGood(window[w], Len(api.runs))
  BY WindowFacts
<1>2. UNCHANGED <<disk, api, known, writer>> /\ IsList(w)
  BY DEF SetPageSize
<1> DEFINE n == 3 - window[w].size
           a == [window[w] EXCEPT !.size = n]
           view == [a EXCEPT !.at = 1]
<1>3. n \in {1, 2} /\ window[w].total \in Nat
  BY <1>1, WindowFields
<1>4. Asks(w, view)
  BY DEF SetPageSize
<1> HIDE DEF n
<1>5. view \in WindowRecs
  <2>1. a \in WindowRecs
    BY <1>1, <1>3, FieldSet
  <2> HIDE DEF a
  <2> QED BY <2>1, FieldSet
<1>6. /\ view.page = window[w].page /\ view.confirm = window[w].confirm /\ view.run = window[w].run
      /\ view.at = 1 /\ view.size = n /\ view.total = window[w].total
      /\ view.running = window[w].running /\ view.lastRunId = window[w].lastRunId
      /\ view.runState = window[w].runState /\ view.runEvents = window[w].runEvents
  BY <1>1 DEF WindowRecs
<1> HIDE DEF view
<1>7. WindowGood(view, Len(api.runs))
  <2>1. 1 \in 1 .. Pages(view.total, view.size)
    BY <1>3, <1>6, FirstPage
  <2> QED BY <1>1, <1>6, <2>1 DEF WindowGood
<1> QED BY <1>2, <1>4, <1>5, <1>6, <1>7, AsksKeeps

LEMMA RefreshListKeeps ==
    ASSUME IInv, NEW w \in Windows, RefreshList(w)
    PROVE  IInv'
<1>1. PICK view \in WindowRecs : view = window[w]
  BY WindowFacts
<1>2. WindowGood(view, Len(api.runs)) /\ Asks(w, view) /\ UNCHANGED <<disk, api, known, writer>> /\ IsList(w)
  BY <1>1, WindowFacts DEF RefreshList
<1> QED BY <1>1, <1>2, AsksKeeps

LEMMA SetKeywordKeeps ==
    ASSUME IInv, NEW w \in Windows, SetKeyword(w)
    PROVE  IInv'
<1>1. window[w] \in WindowRecs /\ WindowGood(window[w], Len(api.runs))
  BY WindowFacts
<1> DEFINE view == [window[w] EXCEPT !.keyword = ~ window[w].keyword]
           first == [view EXCEPT !.at = 1]
           r == [view EXCEPT !.at = 1, !.loading = TRUE]
           N == {Listing(w, view), Listing(w, first)}
<1>2. /\ Shows(w, r) /\ calls' = calls \union N
      /\ UNCHANGED <<disk, api, known, writer>> /\ window[w].page = "run"
  BY DEF SetKeyword
<1>3. view \in WindowRecs /\ Alike(window[w], view)
  <2>1. (~ window[w].keyword) \in BOOLEAN
    OBVIOUS
  <2> QED BY <1>1, <2>1, FieldSet, AlikeSet
<1>4. r = [first EXCEPT !.loading = TRUE]
  OBVIOUS
<1> HIDE DEF view
<1>5. first \in WindowRecs
  BY <1>3, FieldSet
<1>6. /\ first.page = view.page /\ first.confirm = view.confirm /\ first.run = view.run
      /\ first.at = 1 /\ first.size = view.size /\ first.total = view.total
      /\ first.running = view.running /\ first.lastRunId = view.lastRunId
      /\ first.runState = view.runState /\ first.runEvents = view.runEvents
  BY <1>3 DEF WindowRecs
<1>7. N \in SUBSET Harmless(w)
  BY <1>3, <1>5, ListingHarmless
<1> HIDE DEF first, r, N
<1>8. WindowGood(first, Len(api.runs))
  <2>1. WindowGood(view, Len(api.runs))
    BY <1>1, <1>3, AlikeGood
  <2>2. 1 \in 1 .. Pages(first.total, first.size)
    <3>1. first.total \in Nat /\ first.size \in {1, 2}
      BY <1>5, WindowFields
    <3>2. Pages(first.total, first.size) \in Nat \ {0}
      BY <3>1, FirstPage
    <3> QED BY <3>2
  <2> QED BY <1>6, <2>1, <2>2 DEF WindowGood
<1>9. r \in WindowRecs /\ Alike(first, r)
  BY <1>4, <1>5, FieldSet, AlikeSet
<1>10. /\ WindowGood(r, Len(api.runs)) /\ r.page # "editor"
       /\ r.running = window[w].running /\ r.lastRunId = window[w].lastRunId
  BY <1>2, <1>3, <1>6, <1>8, <1>9, AlikeGood DEF Alike
<1> QED BY <1>2, <1>7, <1>9, <1>10, AskKeeps

LEMMA OpenListKeeps ==
    ASSUME IInv, NEW w \in Windows, OpenList(w)
    PROVE  IInv'
<1>1. PICK run \in 0 .. Len(api.runs) :
        LET view == [Fresh(IF run = 0 THEN "tasks" ELSE "run") EXCEPT !.run = run]
        IN  /\ Shows(w, [view EXCEPT !.loading = TRUE])
            /\ calls' = Left(w) \union {Listing(w, view)}
  BY DEF OpenList
<1> DEFINE page == IF run = 0 THEN "tasks" ELSE "run"
           view == [Fresh(page) EXCEPT !.run = run]
           r == [view EXCEPT !.loading = TRUE]
           N == {Listing(w, view)}
<1>2. Len(api.runs) \in Nat
  BY ApiFacts
<1>3. /\ page \in {"home", "flows", "editor", "tasks", "run", "blank"} /\ page # "editor"
      /\ page = "run" => run \in 1 .. Len(api.runs)
  BY <1>2
<1>4. Shows(w, r) /\ calls' = Left(w) \union N /\ UNCHANGED <<disk, api, known, writer>>
  BY <1>1 DEF OpenList
<1> HIDE DEF page
<1>5. /\ Fresh(page) \in WindowRecs
      /\ Fresh(page).page = page /\ Fresh(page).confirm = {} /\ Fresh(page).at = 1
      /\ Fresh(page).total = 0 /\ Fresh(page).size = 1 /\ Fresh(page).lastRunId = 0
      /\ Fresh(page).running = FALSE
  BY <1>3, FreshWindow
<1>6. /\ view \in WindowRecs
      /\ view.page = page /\ view.confirm = {} /\ view.at = 1 /\ view.total = 0 /\ view.size = 1
      /\ view.lastRunId = 0 /\ view.running = FALSE /\ view.run = run
  <2>1. run \in Nat
    BY <1>2
  <2> QED BY <1>5, <2>1 DEF WindowRecs
<1> HIDE DEF view
<1>7. WindowGood(view, Len(api.runs))
  <2>1. Pages(0, 1) = 1
    BY DEF Pages
  <2> QED BY <1>3, <1>6, <2>1 DEF WindowGood
<1>8. N \in SUBSET Harmless(w)
  BY <1>6, ListingHarmless
<1>9. r \in WindowRecs /\ Alike(view, r)
  BY <1>6, FieldSet, AlikeSet
<1> HIDE DEF r, N
<1>10. CallsStep(w, r)
  BY <1>4, <1>8 DEF CallsStep
<1>11. WindowGood(r, Len(api.runs)) /\ SaidGood(w, r, disk, writer)
  BY <1>3, <1>6, <1>7, <1>9, AlikeGood DEF Alike, SaidGood
<1> QED BY <1>4, <1>9, <1>10, <1>11, NoDiskStep

LEMMA ActOnTaskKeeps ==
    ASSUME IInv, NEW w \in Windows, ActOnTask(w)
    PROVE  IInv'
<1>1. PICK r \in WindowRecs : r = window[w]
  BY WindowFacts
<1> DEFINE c == Listing(w, r)
           d == [c EXCEPT !.kind = "act"]
           N == {d}
<1>2. /\ calls' = calls \union N /\ UNCHANGED <<disk, window, api, known, writer>> /\ r.page = "tasks"
  BY <1>1 DEF ActOnTask
<1>3. c \in CallRecs /\ c.win = w /\ c.outcome = "none"
  BY ListingMade
<1> HIDE DEF c
<1>4. d \in Harmless(w)
  BY <1>3 DEF CallRecs, Harmless
<1>5. N \in SUBSET Harmless(w)
  BY <1>4
<1> HIDE DEF N
<1>6. Shows(w, r) /\ WindowGood(r, Len(api.runs))
  BY <1>1, <1>2, WindowFacts DEF Shows
<1>7. r.page # "editor" /\ r.running = window[w].running /\ r.lastRunId = window[w].lastRunId
  BY <1>1, <1>2
<1> QED BY <1>2, <1>5, <1>6, <1>7, AskKeeps

\* The page shown afterwards is the last one at most.
LEMMA ClampInRange ==
    ASSUME NEW view \in WindowRecs, view.at >= 1
    PROVE  /\ ClampPage(view) \in WindowRecs
           /\ ClampPage(view).at \in 1 .. Pages(view.total, view.size)
           /\ ClampPage(view).page = view.page /\ ClampPage(view).confirm = view.confirm
           /\ ClampPage(view).run = view.run
           /\ ClampPage(view).size = view.size /\ ClampPage(view).total = view.total
           /\ ClampPage(view).running = view.running /\ ClampPage(view).lastRunId = view.lastRunId
           /\ ClampPage(view).runState = view.runState /\ ClampPage(view).runEvents = view.runEvents
           /\ ClampPage(view).flow = view.flow /\ ClampPage(view).autosave = view.autosave
<1> DEFINE last == Pages(view.total, view.size)
           s == [view EXCEPT !.at = last]
<1>1. last \in Nat \ {0} /\ view.at \in Nat
  BY WindowFields, FirstPage
<1>2. ClampPage(view) = IF view.at > last THEN s ELSE view
  BY DEF ClampPage
<1>3. view.at <= last => view.at \in 1 .. last
  BY <1>1
<1> HIDE DEF last
<1>4. s \in WindowRecs
  BY <1>1, FieldSet
<1>5. /\ s.page = view.page /\ s.confirm = view.confirm /\ s.run = view.run
      /\ s.at = last /\ s.size = view.size /\ s.total = view.total
      /\ s.running = view.running /\ s.lastRunId = view.lastRunId
      /\ s.runState = view.runState /\ s.runEvents = view.runEvents
      /\ s.flow = view.flow /\ s.autosave = view.autosave
  BY DEF WindowRecs
<1> HIDE DEF s
<1>6. CASE view.at > last
  BY <1>1, <1>2, <1>4, <1>5, <1>6 DEF last
<1>7. CASE ~ (view.at > last)
  BY <1>1, <1>2, <1>3, <1>7 DEF last
<1> QED BY <1>6, <1>7

LEMMA ListReturnsKeeps ==
    ASSUME IInv, NEW c \in calls, ListReturns(c)
    PROVE  IInv'
<1>1. c \in CallRecs /\ c.kind = "list" /\ UNCHANGED <<disk, api, known, writer>>
  BY DEF IInv, TypeOK, ListReturns
<1>2. CallGood(c)
  BY DEF IInv, CallsGood
<1>3. PICK w \in Windows : w = c.win
  BY <1>1, <1>2 DEF CallGood, CallRecs
<1>4. window[w] \in WindowRecs /\ WindowGood(window[w], Len(api.runs))
  BY WindowFacts
<1> DEFINE n == IF c.outcome = "ok" THEN c.total ELSE window[w].total
           a == [window[w] EXCEPT !.loading = FALSE]
           view == [a EXCEPT !.total = n]
           clamped == ClampPage(view)
           r == [clamped EXCEPT !.loading = TRUE]
           d == Listing(w, clamped)
<1>5. n \in Nat
  BY <1>1, <1>4, WindowFields DEF CallRecs
<1>6. \/ clamped.at # view.at /\ Shows(w, r) /\ calls' = (calls \ {c}) \union {d}
      \/ clamped.at = view.at /\ Shows(w, view) /\ calls' = (calls \ {c}) \union {}
  BY <1>3 DEF ListReturns
<1> HIDE DEF n
<1>7. view \in WindowRecs
  <2>1. a \in WindowRecs
    BY <1>4, FieldSet
  <2> HIDE DEF a
  <2> QED BY <1>5, <2>1, FieldSet
<1>8. /\ view.page = window[w].page /\ view.confirm = window[w].confirm /\ view.run = window[w].run
      /\ view.at = window[w].at /\ view.size = window[w].size
      /\ view.running = window[w].running /\ view.lastRunId = window[w].lastRunId
      /\ view.runState = window[w].runState /\ view.runEvents = window[w].runEvents
      /\ view.flow = window[w].flow /\ view.autosave = window[w].autosave
  BY <1>4 DEF WindowRecs
<1> HIDE DEF view
<1>9. view.at >= 1
  BY <1>4, <1>8, WindowFields DEF WindowGood
<1>10. /\ clamped \in WindowRecs
       /\ clamped.at \in 1 .. Pages(view.total, view.size)
       /\ clamped.page = view.page /\ clamped.confirm = view.confirm /\ clamped.run = view.run
       /\ clamped.size = view.size /\ clamped.total = view.total
       /\ clamped.running = view.running /\ clamped.lastRunId = view.lastRunId
       /\ clamped.runState = view.runState /\ clamped.runEvents = view.runEvents
       /\ clamped.flow = view.flow /\ clamped.autosave = view.autosave
  BY <1>7, <1>9, ClampInRange
<1> HIDE DEF clamped
<1>11. WindowGood(clamped, Len(api.runs))
  BY <1>4, <1>8, <1>10 DEF WindowGood
<1>12. CASE clamped.at # view.at /\ Shows(w, r) /\ calls' = (calls \ {c}) \union {d}
  <2> DEFINE N == {d}
  <2>1. r \in WindowRecs /\ Alike(clamped, r)
    BY <1>10, FieldSet, AlikeSet
  <2>2. d \in CallRecs /\ d.win = w /\ d.kind = "list"
    BY <1>10, ListingMade
  <2> HIDE DEF r, d
  <2>3. WindowGood(r, Len(api.runs))
    BY <1>11, <2>1, AlikeGood
  <2>4. StaysWithRun(w, r)
    BY <1>8, <1>10, <2>1 DEF Alike, StaysWithRun
  <2>5. AsksForList(w, N)
    BY <2>2 DEF AsksForList
  <2>6. Shows(w, r) /\ calls' = (calls \ {c}) \union N
    BY <1>12
  <2> HIDE DEF N
  <2> QED BY <1>1, <1>3, <2>1, <2>3, <2>4, <2>5, <2>6, QuietReturnKeeps
<1>13. CASE clamped.at = view.at /\ Shows(w, view) /\ calls' = (calls \ {c}) \union {}
  <2> DEFINE N == {}
  <2>1. WindowGood(view, Len(api.runs))
    BY <1>10, <1>11, <1>13 DEF WindowGood
  <2>2. AsksForList(w, N) /\ StaysWithRun(w, view)
    BY <1>8 DEF AsksForList, StaysWithRun
  <2>3. Shows(w, view) /\ calls' = (calls \ {c}) \union N
    BY <1>13
  <2> HIDE DEF N
  <2> QED BY <1>1, <1>3, <1>7, <2>1, <2>2, <2>3, QuietReturnKeeps
<1> QED BY <1>6, <1>12, <1>13

LEMMA ActReturnsKeeps ==
    ASSUME IInv, NEW c \in calls, ActReturns(c)
    PROVE  IInv'
<1>1. c \in CallRecs /\ c.kind = "act" /\ c.outcome # "none" /\ UNCHANGED <<disk, api, known, writer>>
  BY DEF IInv, TypeOK, ActReturns
<1>2. CallGood(c)
  BY DEF IInv, CallsGood
<1>3. PICK w \in Windows : w = c.win
  BY <1>1, <1>2 DEF CallGood, CallRecs
<1>4. window[w] \in WindowRecs /\ WindowGood(window[w], Len(api.runs)) /\ window = [window EXCEPT ![w] = window[w]]
  BY WindowFacts
<1>5. CASE c.outcome = "ok"
  <2> DEFINE r == [window[w] EXCEPT !.loading = TRUE]
             d == [[c EXCEPT !.kind = "list"] EXCEPT !.outcome = "none"]
             N == {d}
  <2>1. Shows(w, r) /\ calls' = (calls \ {c}) \union N
    BY <1>3, <1>5 DEF ActReturns
  <2>2. r \in WindowRecs /\ Alike(window[w], r)
    BY <1>4, FieldSet, AlikeSet
  <2>3. d \in CallRecs /\ d.win = w /\ d.kind = "list"
    BY <1>1, <1>3 DEF CallRecs
  <2> HIDE DEF r, d
  <2>4. WindowGood(r, Len(api.runs))
    BY <1>4, <2>2, AlikeGood
  <2>5. StaysWithRun(w, r)
    BY <2>2 DEF Alike, StaysWithRun
  <2>6. AsksForList(w, N)
    BY <2>3 DEF AsksForList
  <2> HIDE DEF N
  <2> QED BY <1>1, <1>3, <2>1, <2>2, <2>4, <2>5, <2>6, QuietReturnKeeps
<1>6. CASE c.outcome # "ok"
  <2> DEFINE N == {}
  <2>1. PICK r \in WindowRecs : r = window[w]
    BY <1>4
  <2>2. Shows(w, r) /\ calls' = (calls \ {c}) \union N
    BY <1>4, <1>6, <2>1 DEF ActReturns, Shows
  <2>3. AsksForList(w, N) /\ StaysWithRun(w, r)
    BY <2>1 DEF AsksForList, StaysWithRun
  <2> HIDE DEF N
  <2>4. WindowGood(r, Len(api.runs))
    BY <1>4, <2>1
  <2> QED BY <1>1, <1>3, <2>2, <2>3, <2>4, QuietReturnKeeps
<1> QED BY <1>5, <1>6

LEMMA OpenFromRunKeeps ==
    ASSUME IInv, NEW w \in Windows, OpenEditorFromRun(w)
    PROVE  IInv'
<1>1. PICK room \in Rooms :
        LET ran == api.runs[window[w].run]
            flow == [ran EXCEPT !.text = Masked(@)]
            saved == saveFlow(disk, flow, room)
        IN  /\ WroteIf(w, room, flow.id)
            /\ known' = known \union {flow.id}
            /\ IF Saves(room) THEN EditorOf(w, saved, flow.id, room - 2)
                              ELSE disk' = saved /\ UNCHANGED <<window, calls>>
  BY DEF OpenEditorFromRun
<1>2. /\ window[w] \in WindowRecs /\ WindowGood(window[w], Len(api.runs)) /\ known \subseteq FlowIds
  BY WindowFacts
<1>3. window[w].page = "run" /\ window[w].page # "editor" /\ api' = api
  BY DEF OpenEditorFromRun
<1> DEFINE ran == api.runs[window[w].run]
<1>4. ran \in Flows
  <2>1. window[w].run \in 1 .. Len(api.runs)
    BY <1>2, <1>3 DEF WindowGood
  <2> QED BY <2>1, ApiFacts, ElementOfSeq
<1>5. PICK flow \in Flows : flow = [ran EXCEPT !.text = Masked(@)]
  <2>1. ran.text \in Int
    BY <1>4, FlowsMade
  <2>2. Masked(ran.text) \in Int
    BY <2>1 DEF Masked
  <2> HIDE DEF ran
  <2>3. [ran EXCEPT !.text = Masked(ran.text)] \in Flows
    BY <1>4, <2>2, FlowsMade
  <2> QED BY <2>3
<1>6. /\ WroteIf(w, room, flow.id) /\ known' = known \union {flow.id}
      /\ IF Saves(room) THEN EditorOf(w, saveFlow(disk, flow, room), flow.id, room - 2)
         ELSE disk' = saveFlow(disk, flow, room) /\ UNCHANGED <<window, calls>>
  BY <1>1, <1>5
<1>7. known' \subseteq FlowIds
  BY <1>2, <1>6, FlowsMade
<1> QED BY <1>3, <1>6, <1>7, SaveAndOpen
-----------------------------------------------------------------------------
(* Theorems *)

LEMMA Initially == Init => IInv
<1> SUFFICES ASSUME Init
             PROVE  IInv
  OBVIOUS
<1>1. SampleFlow \in Flows /\ SampleFlow.id = SampleId /\ SampleId \in FlowIds
  BY FlowsMade
<1>2. EmptyDisk \in Disks /\ Backed(EmptyDisk)
  <2>1. {} \in SUBSET FlowIds /\ <<>> \in [{} -> Int] /\ <<>> \in Seq(FlowIds) /\ <<>> \in Seq(Flows)
    OBVIOUS
  <2> QED BY <2>1, DiskMade DEF EmptyDisk, Disks, Flows, Backed
<1>3. disk = ensureSeedFlow(EmptyDisk, Plenty) /\ Plenty \in Int
  BY DEF Init, Plenty
<1>4. disk \in Disks /\ Backed(disk)
  BY <1>1, <1>2, <1>3, SeedKeeps DEF Disks, Flows
<1>5. /\ Fresh("home") \in WindowRecs /\ Fresh("home").page = "home" /\ \A n : WindowGood(Fresh("home"), n)
  BY FreshWindow
<1>6. window \in [Windows -> WindowRecs] /\ \A w \in Windows : window[w] = Fresh("home")
  BY <1>5 DEF Init
<1>7. WindowsGood /\ \A w \in Windows : SaidGood(w, window[w], disk, writer)
  BY <1>5, <1>6 DEF WindowsGood, SaidGood
<1>8. api \in [runs : Seq(Flows), tasks : Nat]
  <2> DEFINE Q == Seq(Flows)
  <2>1. <<>> \in Q
    OBVIOUS
  <2> HIDE DEF Q
  <2>2. api \in [runs : Q, tasks : Nat]
    BY <2>1, BoundsAssumption DEF Init
  <2> QED BY <2>2 DEF Q
<1>9. calls = {} /\ known \subseteq FlowIds /\ writer \in [FlowIds -> Windows \union {Nobody}]
  BY <1>1 DEF Init
<1>10. CallsGood
  BY <1>9 DEF CallsGood
<1> QED BY <1>4, <1>6, <1>7, <1>8, <1>9, <1>10 DEF IInv, TypeOK

\* Nothing of the invariant speaks of the bounds' counters.
LEMMA StutterKeeps ==
    ASSUME IInv, UNCHANGED vars
    PROVE  IInv'
<1>1. TypeOK'
  BY DEF IInv, TypeOK, vars
<1> QED BY <1>1 DEF IInv, vars, CallsGood, CallGood, IsOfRun, WindowsGood, WindowGood, SaidGood, Stored, Listed, Backed

\* What the windows show, what is under way and what is stored fit together in
\* every reachable state, whatever the windows and the API do.
THEOREM Inductive == Spec => []IInv
<1>1. IInv /\ [Next]_vars => IInv'
  <2> SUFFICES ASSUME IInv, [Next]_vars
               PROVE  IInv'
    OBVIOUS
  <2>1. ASSUME NEW w \in Windows, UserActs(w)
        PROVE  IInv'
    BY <2>1, ReloadKeeps, OpenFlowsKeeps, RefreshFlowsKeeps, AskDeleteKeeps, ConfirmDeleteKeeps, OpenEditorKeeps,
       CreateFlowKeeps, EditKeeps, SaveVersionKeeps, RollbackKeeps,
       ValidateFlowKeeps, StartRunKeeps, StartSelfCheckKeeps, OpenListKeeps, TurnPageKeeps,
       SetPageSizeKeeps, SetKeywordKeeps, RefreshListKeeps, ActOnTaskKeeps, OpenFromRunKeeps DEF UserActs
  <2>2. CASE Served
    BY <2>2, RunServedKeeps, ListServedKeeps, ActServedKeeps DEF Served
  <2>3. CASE Returned
    BY <2>3, RunReturnsKeeps, EventsReturnKeeps, ListReturnsKeeps, ActReturnsKeeps DEF Returned
  <2>4. CASE TaskAppears
    BY <2>4, TaskAppearsKeeps
  <2>5. CASE UNCHANGED vars
    BY <2>5, StutterKeeps
  <2> QED BY <2>1, <2>2, <2>3, <2>4, <2>5 DEF Next
<1> QED BY <1>1, Initially, PTL DEF Spec

\* ListedFlowsExist: every flow the catalog lists can be opened, wherever the
\* quota cuts a save short and whatever other windows delete meanwhile.
THEOREM ListedCanBeOpened == Spec => []ListedFlowsExist
<1>1. IInv => ListedFlowsExist
  BY DEF IInv, Backed, ListedFlowsExist
<1> QED BY <1>1, Inductive, PTL

\* SavedMeansStored: an editor that says "saved" shows what is stored, as long
\* as no other window wrote or deleted its flow since.
THEOREM SavedIsTrue == Spec => []SavedMeansStored
<1>1. IInv => SavedMeansStored
  <2> SUFFICES ASSUME IInv, NEW w \in Windows, window[w].page = "editor", window[w].autosave = "saved",
                      writer[window[w].flow.id] = w
               PROVE  /\ window[w].flow.id \in DOMAIN disk.records
                      /\ disk.records[window[w].flow.id] = window[w].flow.text
                      /\ \E k \in DOMAIN disk.catalog : disk.catalog[k] = window[w].flow.id
    BY DEF SavedMeansStored
  <2>1. Stored(disk, window[w].flow)
    BY WindowFacts DEF SaidGood
  <2> QED BY <2>1 DEF Stored, Listed, Range
<1> QED BY <1>1, Inductive, PTL

\* ShownRunIsOne: the run console never mixes two runs, however runs overlap
\* with flows that are opened, rolled back and edited meanwhile.
THEOREM OneRunShown == Spec => []ShownRunIsOne
<1>1. IInv => ShownRunIsOne
  BY DEF IInv, WindowsGood, WindowGood, ShownRunIsOne
<1> QED BY <1>1, Inductive, PTL

\* PageInRange: no order of answers, sizes, filters and deletions leaves a list
\* beyond its last page.
THEOREM PagesInRange == Spec => []PageInRange
<1>1. IInv => PageInRange
  BY DEF IInv, WindowsGood, WindowGood, PageInRange
<1> QED BY <1>1, Inductive, PTL

\* OpeningKeepsTheFlow: an editor shows the record there is, with what
\* ensureBrowserDefaults mends in it, and saves nothing else: a flow that needs
\* no mending is left as it was, whatever the quota and other windows do.
THEOREM OpeningOnlyMends == Spec => OpeningKeepsTheFlow
<1>1. IInv /\ [Next]_vars =>
        [ \A w \in Windows :
            LET id == window'[w].flow.id
                mended == ensureBrowserDefaults(loadFlow(disk, id))
            IN  OpenEditor(w) /\ window'[w].page = "editor" /\ Loads(disk, id) =>
                    /\ window'[w].flow = mended
                    /\ disk'.records[id] \in {disk.records[id], mended.text}
                    /\ window'[w].autosave = "saved" => disk'.records[id] = mended.text ]_vars
  <2> SUFFICES ASSUME IInv, NEW w \in Windows, OpenEditor(w), window'[w].page = "editor",
                      Loads(disk, window'[w].flow.id)
               PROVE  LET id == window'[w].flow.id
                          mended == ensureBrowserDefaults(loadFlow(disk, id))
                      IN  /\ window'[w].flow = mended
                          /\ disk'.records[id] \in {disk.records[id], mended.text}
                          /\ window'[w].autosave = "saved" => disk'.records[id] = mended.text
    OBVIOUS
  <2>1. PICK id \in known \union { window[w].listed[k] : k \in DOMAIN window[w].listed }, room \in Rooms :
          EditorOf(w, disk, id, room)
    BY DEF OpenEditor
  <2>2. disk \in Disks /\ Backed(disk) /\ known \subseteq FlowIds /\ room \in Int /\ window[w] \in WindowRecs
    BY WindowFacts
  <2>3. id \in FlowIds
    BY <2>1, <2>2, WindowFields, LenProperties
  <2>4. PICK r \in WindowRecs : EditorShows(w, r, disk, id, room)
    BY <2>1, <2>2, <2>3, EditorOpens
  <2>5. window'[w] = r
    BY <2>4 DEF IInv, TypeOK, EditorShows
  <2>6. /\ r.page = "editor" /\ r.flow = ensureBrowserDefaults(InitialFlow(disk, id))
        /\ Loads(disk, id) => disk'.records[id] \in {disk.records[id], r.flow.text}
        /\ r.autosave = "saved" => Stored(disk', r.flow)
    BY <2>4, <2>5 DEF EditorShows
  <2>7. InitialFlow(disk, id) \in Flows /\ InitialFlow(disk, id).id = id
    BY <2>2, <2>3, FirstFlow
  <2>8. r.flow.id = id
    BY <2>6, <2>7, FlowsMade
  <2>9. InitialFlow(disk, id) = loadFlow(disk, id) /\ Loads(disk, id)
    BY <2>5, <2>8 DEF InitialFlow
  <2>10. r.autosave = "saved" => disk'.records[id] = r.flow.text
    BY <2>6, <2>8 DEF Stored
  <2> QED BY <2>5, <2>6, <2>8, <2>9, <2>10
<1> QED BY <1>1, Inductive, PTL DEF Spec, OpeningKeepsTheFlow
=============================================================================
