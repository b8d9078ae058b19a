-------------------------- MODULE FlowEditor_proofs --------------------------
(* Proofs about the flow editor, for any flows, recordings, node types and    *)
(* bounds: under every order of operations the graph stays intact, no edge is *)
(* left at a port that is gone, and additions cut nothing off.                *)
EXTENDS FlowEditor, FiniteSetTheorems, SequenceTheorems, WellFoundedInduction, TLAPS

-----------------------------------------------------------------------------
(* Counting and folding *)

\* Induction from 0 to n, for a set of numbers.
LEMMA UpTo ==
    ASSUME NEW n \in Nat, NEW G, 0 \in G,
           \A k \in 1 .. n : k - 1 \in G => k \in G
    PROVE  \A k \in 0 .. n : k \in G
<1> DEFINE Bad == {k \in 0 .. n : k \notin G}
<1> SUFFICES ASSUME NEW k \in Bad
             PROVE  FALSE
  OBVIOUS
<1>1. Bad \subseteq Nat
  OBVIOUS
<1>2. PICK m \in Bad : \A j \in Bad : ~ (<<j, m>> \in OpToRel(<, Nat))
  <2> HIDE DEF Bad
  <2> QED BY <1>1, WFMin, NatLessThanWellFounded
<1>3. m \in 1 .. n /\ m - 1 \in 0 .. n /\ m \notin G
  OBVIOUS
<1>4. m - 1 \in Bad
  BY <1>3
<1>5. <<m - 1, m>> \in OpToRel(<, Nat)
  <2>1. m - 1 \in Nat /\ m \in Nat /\ m - 1 < m
    BY <1>3
  <2> QED BY <2>1 DEF OpToRel
<1> QED BY <1>2, <1>4, <1>5

LEMMA LeastOf ==
    ASSUME NEW S, S \subseteq Nat, S # {}
    PROVE  \E m \in S : \A j \in S : m <= j
<1>1. PICK m \in S : \A j \in S : ~ (<<j, m>> \in OpToRel(<, Nat))
  BY WFMin, NatLessThanWellFounded
<1>2. ASSUME NEW j \in S
      PROVE  m <= j
  <2>1. j \in Nat /\ m \in Nat
    OBVIOUS
  <2>2. CASE j < m
    <3>1. <<j, m>> \in OpToRel(<, Nat)
      BY <2>1, <2>2 DEF OpToRel
    <3> QED BY <1>1, <3>1
  <2> QED BY <2>1, <2>2
<1> QED BY <1>2

LEMMA LastOfInterval ==
    ASSUME NEW k \in Nat
    PROVE  /\ k # 0 => 1 .. k # {} /\ Max(1 .. k) = k /\ (1 .. k) \ {k} = 1 .. (k - 1)
           /\ k = 0 => 1 .. k = {}
<1>1. k # 0 => k \in 1 .. k /\ \A x \in 1 .. k : (\A y \in 1 .. k : x >= y) <=> x = k
  OBVIOUS
<1>2. k # 0 => Max(1 .. k) = k
  BY <1>1 DEF Max
<1> QED BY <1>2

LEMMA MaxIn ==
    ASSUME NEW n \in Nat, NEW S \in SUBSET (1 .. n), S # {}
    PROVE  Max(S) \in S /\ \A y \in S : Max(S) >= y
<1> DEFINE Up == {m \in 0 .. n : n - m \in S}
<1>1. PICK y \in S : y \in 1 .. n
  OBVIOUS
<1>2. Up \subseteq Nat /\ n - y \in Up
  BY <1>1
<1>3. PICK m \in Up : \A j \in Up : ~ (<<j, m>> \in OpToRel(<, Nat))
  <2> HIDE DEF Up
  <2> QED BY <1>2, WFMin, NatLessThanWellFounded
<1>4. n - m \in S /\ m \in 0 .. n
  OBVIOUS
<1>5. ASSUME NEW z \in S
      PROVE  n - m >= z
  <2> SUFFICES ASSUME n - m < z
               PROVE  FALSE
    OBVIOUS
  <2>1. z \in 1 .. n
    OBVIOUS
  <2>2. n - z \in 0 .. n /\ n - (n - z) = z /\ n - z < m
    BY <1>4, <2>1
  <2>3. n - z \in Up
    BY <2>2
  <2>4. <<n - z, m>> \in OpToRel(<, Nat)
    <3>1. n - z \in Nat /\ m \in Nat
      BY <1>4, <2>2
    <3> QED BY <2>2, <3>1 DEF OpToRel
  <2> QED BY <1>3, <2>3, <2>4
<1> QED BY <1>4, <1>5 DEF Max

\* The function a fold over 1 .. n is defined by.
FoldsUp(g, n, base, step) ==
    \A S \in SUBSET (1 .. n) :
        g[S] = IF S = {} THEN base ELSE step[<<Max(S), g[S \ {Max(S)}]>>]

StepsIn(step, n, X) == \A i \in 1 .. n, x \in X : step[<<i, x>>] \in X
FoldHas(k, X, base, step) == \E g \in [SUBSET (1 .. k) -> X] : FoldsUp(g, k, base, step)

LEMMA FoldStarts ==
    ASSUME NEW X, NEW base \in X, NEW step
    PROVE  FoldHas(0, X, base, step)
<1> DEFINE g == [S \in SUBSET (1 .. 0) |-> base]
<1>1. g \in [SUBSET (1 .. 0) -> X]
  OBVIOUS
<1>2. \A S \in SUBSET (1 .. 0) : S = {}
  OBVIOUS
<1>3. FoldsUp(g, 0, base, step)
  BY <1>2 DEF FoldsUp
<1> HIDE DEF g
<1> QED BY <1>1, <1>3 DEF FoldHas

LEMMA FoldGoesOn ==
    ASSUME NEW k \in Nat \ {0}, NEW X, NEW base \in X, NEW step,
           StepsIn(step, k, X), FoldHas(k - 1, X, base, step)
    PROVE  FoldHas(k, X, base, step)
<1>1. PICK g \in [SUBSET (1 .. (k - 1)) -> X] : FoldsUp(g, k - 1, base, step)
  BY DEF FoldHas
<1> DEFINE h == [S \in SUBSET (1 .. k) |-> IF k \in S THEN step[<<k, g[S \ {k}]>>] ELSE g[S]]
<1>2. \A S \in SUBSET (1 .. k) : S \ {k} \in SUBSET (1 .. (k - 1))
  OBVIOUS
<1>3. \A S \in SUBSET (1 .. k) : k \notin S => S \in SUBSET (1 .. (k - 1))
  OBVIOUS
<1>4. \A S \in SUBSET (1 .. k) : k \in S => step[<<k, g[S \ {k}]>>] \in X
  BY <1>2 DEF StepsIn
<1>5. h \in [SUBSET (1 .. k) -> X]
  BY <1>3, <1>4
<1>6. ASSUME NEW S \in SUBSET (1 .. k), k \in S
      PROVE  h[S] = step[<<Max(S), h[S \ {Max(S)}]>>]
  <2>0. \A x \in S : x \in Nat /\ x <= k
    OBVIOUS
  <2>1. \A x \in S : (\A y \in S : x >= y) <=> x = k
    BY <1>6, <2>0
  <2>2. Max(S) = k
    BY <1>6, <2>1 DEF Max
  <2>3. h[S] = step[<<k, g[S \ {k}]>>] /\ h[S \ {k}] = g[S \ {k}]
    BY <1>6
  <2> HIDE DEF h
  <2> QED BY <2>2, <2>3
<1>7. ASSUME NEW S \in SUBSET (1 .. k), k \notin S
      PROVE  h[S] = IF S = {} THEN base ELSE step[<<Max(S), h[S \ {Max(S)}]>>]
  <2>1. S \in SUBSET (1 .. (k - 1)) /\ S \ {Max(S)} \in SUBSET (1 .. k) /\ k \notin S \ {Max(S)}
    BY <1>3, <1>7
  <2>2. h[S] = g[S] /\ h[S \ {Max(S)}] = g[S \ {Max(S)}]
    BY <1>7, <2>1
  <2> HIDE DEF h
  <2> QED BY <1>1, <2>1, <2>2 DEF FoldsUp
<1>8. FoldsUp(h, k, base, step)
  <2> HIDE DEF h
  <2> QED BY <1>6, <1>7 DEF FoldsUp
<1> HIDE DEF h
<1> QED BY <1>5, <1>8 DEF FoldHas

LEMMA FoldExists ==
    ASSUME NEW n \in Nat, NEW X, NEW base \in X, NEW step, StepsIn(step, n, X)
    PROVE  FoldHas(n, X, base, step)
<1> DEFINE G == {k \in 0 .. n : FoldHas(k, X, base, step)}
<1>1. 0 \in G
  BY FoldStarts
<1>2. ASSUME NEW k \in 1 .. n, k - 1 \in G
      PROVE  k \in G
  <2>1. FoldHas(k - 1, X, base, step) /\ k \in Nat \ {0}
    BY <1>2
  <2>2. StepsIn(step, k, X)
    <3>1. \A i \in 1 .. k : i \in 1 .. n
      OBVIOUS
    <3> QED BY <3>1 DEF StepsIn
  <2>3. FoldHas(k, X, base, step)
    BY <2>1, <2>2, FoldGoesOn
  <2> QED BY <2>3
<1>3. n \in G
  <2> HIDE DEF G
  <2> QED BY <1>1, <1>2, UpTo
<1> QED BY <1>3

-----------------------------------------------------------------------------
(* The elements of a sequence at some places *)

PlacesStep(s, I, kept, i) == IF i \in I THEN Append(kept, s[i]) ELSE kept

PlacesRun(s, I, f) ==
    /\ f[0] = <<>>
    /\ f[Len(s)] = Places(s, I)
    /\ \A k \in 1 .. Len(s) : f[k] = PlacesStep(s, I, f[k - 1], k)

LEMMA PlacesLoop ==
    ASSUME NEW R, NEW s \in Seq(R), NEW I
    PROVE  \E f : PlacesRun(s, I, f)
<1> DEFINE n == Len(s)
           X == Seq(R)
           step == [p \in (1 .. n) \X X |-> PlacesStep(s, I, p[2], p[1])]
           idx == [i \in DOMAIN s |-> i]
           Fits(iter) == iter = [S \in SUBSET DOMAIN idx |->
                                    IF S = {} THEN <<>>
                                    ELSE PlacesStep(s, I, iter[S \ {Max(S)}], idx[Max(S)])]
           it == CHOOSE iter : Fits(iter)
<1>1. n \in Nat /\ DOMAIN s = 1 .. n /\ \A i \in 1 .. n : s[i] \in R
  BY LenProperties
<1>2. StepsIn(step, n, X)
  BY <1>1, AppendProperties DEF PlacesStep, StepsIn
<1>3. Places(s, I) = it[1 .. n]
  <2>1. Places(s, I) = it[DOMAIN idx]
    BY Zenon DEF Places, FoldLeft, MapThenFoldSet, PlacesStep
  <2>2. DOMAIN idx = 1 .. n
    BY <1>1
  <2> HIDE DEF it
  <2> QED BY <2>1, <2>2
<1>4. PICK g : Fits(g)
  <2>1. <<>> \in X
    OBVIOUS
  <2>2. PICK g \in [SUBSET (1 .. n) -> X] : FoldsUp(g, n, <<>>, step)
    <3> HIDE DEF X, step
    <3> QED BY <1>1, <1>2, <2>1, FoldExists DEF FoldHas
  <2>3. ASSUME NEW S \in SUBSET (1 .. n), S # {}
        PROVE  Max(S) \in 1 .. n /\ S \ {Max(S)} \in SUBSET (1 .. n)
    BY <1>1, <2>3, MaxIn
  <2>4. \A S \in SUBSET (1 .. n) :
           g[S] = IF S = {} THEN <<>> ELSE PlacesStep(s, I, g[S \ {Max(S)}], Max(S))
    <3>1. \A S \in SUBSET (1 .. n) : S # {} =>
             step[<<Max(S), g[S \ {Max(S)}]>>] = PlacesStep(s, I, g[S \ {Max(S)}], Max(S))
      BY <2>2, <2>3
    <3> QED BY <2>2, <3>1 DEF FoldsUp
  <2>5. DOMAIN idx = 1 .. n /\ \A i \in 1 .. n : idx[i] = i
    BY <1>1
  <2>6. Fits(g)
    <3>1. \A S \in SUBSET DOMAIN idx :
             g[S] = IF S = {} THEN <<>> ELSE PlacesStep(s, I, g[S \ {Max(S)}], idx[Max(S)])
      BY <2>3, <2>4, <2>5
    <3>2. g \in [SUBSET DOMAIN idx -> X]
      BY <2>2, <2>5
    <3> HIDE DEF idx, X
    <3> QED BY <3>1, <3>2
  <2> QED BY <2>6
<1>5. Fits(it)
  <2> HIDE DEF Fits
  <2> QED BY <1>4
<1>6. /\ it[1 .. 0] = <<>>
      /\ \A k \in 1 .. n : it[1 .. k] = PlacesStep(s, I, it[1 .. (k - 1)], k)
  <2>1. DOMAIN idx = 1 .. n /\ \A i \in 1 .. n : idx[i] = i
    BY <1>1
  <2>2. it[{}] = <<>>
    <3> HIDE DEF it, idx
    <3> QED BY <1>5
  <2>3. ASSUME NEW k \in 1 .. n
        PROVE  it[1 .. k] = PlacesStep(s, I, it[1 .. (k - 1)], k)
    <3>1. 1 .. k \in SUBSET (1 .. n)
      BY <1>1
    <3>2. k \in Nat /\ 1 .. k # {} /\ Max(1 .. k) = k /\ (1 .. k) \ {k} = 1 .. (k - 1)
      BY <1>1, LastOfInterval
    <3>3. it[1 .. k] = PlacesStep(s, I, it[(1 .. k) \ {Max(1 .. k)}], idx[Max(1 .. k)])
      <4> HIDE DEF it, idx
      <4> QED BY <1>5, <2>1, <3>1, <3>2
    <3> HIDE DEF it, idx
    <3> QED BY <2>1, <3>2, <3>3
  <2>4. 1 .. 0 = {}
    OBVIOUS
  <2> HIDE DEF it
  <2> QED BY <2>2, <2>3, <2>4
<1> DEFINE f == [k \in 0 .. n |-> it[1 .. k]]
<1>7. f[0] = <<>> /\ f[n] = Places(s, I)
  <2> HIDE DEF it
  <2> QED BY <1>1, <1>3, <1>6
<1>8. \A k \in 1 .. n : f[k] = PlacesStep(s, I, f[k - 1], k)
  <2> HIDE DEF it
  <2> QED BY <1>1, <1>6
<1> HIDE DEF f
<1> QED BY <1>7, <1>8 DEF PlacesRun

\* t holds the elements of s at the places of I up to k, each once: place m of
\* t comes from place e[m] of s.
Embeds(e, t, s, I, k) ==
    /\ e \in [1 .. Len(t) -> I \cap (1 .. k)]
    /\ \A a, b \in 1 .. Len(t) : e[a] = e[b] => a = b
    /\ \A m \in 1 .. Len(t) : t[m] = s[e[m]]
    /\ \A i \in I \cap (1 .. k) : \E m \in 1 .. Len(t) : e[m] = i

PickedUpTo(t, R, s, I, k) == t \in Seq(R) /\ Len(t) <= k /\ \E e : Embeds(e, t, s, I, k)

LEMMA PicksNothing ==
    ASSUME NEW R, NEW s, NEW I
    PROVE  PickedUpTo(<<>>, R, s, I, 0)
<1> DEFINE e == [m \in 1 .. 0 |-> m]
<1>1. <<>> \in Seq(R) /\ Len(<<>>) = 0
  BY EmptySeq
<1>2. 1 .. 0 = {}
  OBVIOUS
<1>3. e \in [1 .. 0 -> I \cap (1 .. 0)]
  BY <1>2
<1> HIDE DEF e
<1>4. Embeds(e, <<>>, s, I, 0)
  BY <1>1, <1>2, <1>3 DEF Embeds
<1> QED BY <1>1, <1>4 DEF PickedUpTo

LEMMA PicksOneMore ==
    ASSUME NEW R, NEW s \in Seq(R), NEW I, NEW t, NEW k \in 1 .. Len(s),
           PickedUpTo(t, R, s, I, k - 1)
    PROVE  PickedUpTo(PlacesStep(s, I, t, k), R, s, I, k)
<1>1. PICK e : Embeds(e, t, s, I, k - 1)
  BY DEF PickedUpTo
<1>2. t \in Seq(R) /\ Len(t) \in Nat /\ Len(t) <= k - 1 /\ s[k] \in R /\ k \in Nat
  BY LenProperties DEF PickedUpTo
<1>3. CASE k \notin I
  <2>1. I \cap (1 .. (k - 1)) = I \cap (1 .. k)
    BY <1>2, <1>3
  <2>2. Embeds(e, t, s, I, k)
    BY <1>1, <2>1 DEF Embeds
  <2>3. PlacesStep(s, I, t, k) = t
    BY <1>3 DEF PlacesStep
  <2> QED BY <1>2, <2>2, <2>3 DEF PickedUpTo
<1>4. CASE k \in I
  <2> DEFINE u == Append(t, s[k])
             n == Len(t) + 1
             d == [m \in 1 .. n |-> IF m = n THEN k ELSE e[m]]
  <2>1. u \in Seq(R) /\ Len(u) = n /\ u[n] = s[k] /\ \A m \in 1 .. Len(t) : u[m] = t[m]
    BY <1>2, AppendProperties
  <2>2. \A m \in 1 .. Len(t) : e[m] \in I /\ e[m] \in 1 .. (k - 1)
    BY <1>1 DEF Embeds
  <2>3. \A m \in 1 .. n : m = n \/ m \in 1 .. Len(t)
    BY <1>2
  <2>4. d \in [1 .. n -> I \cap (1 .. k)]
    BY <1>2, <1>4, <2>2, <2>3
  <2>5. n \in 1 .. n /\ d[n] = k /\ \A m \in 1 .. Len(t) : m \in 1 .. n /\ m # n /\ d[m] = e[m]
    BY <1>2
  <2> HIDE DEF d, u, n
  <2>6. \A a, b \in 1 .. n : d[a] = d[b] => a = b
    <3>1. \A m \in 1 .. Len(t) : d[m] # k
      BY <1>2, <2>2, <2>5
    <3> QED BY <1>1, <2>3, <2>5, <3>1 DEF Embeds
  <2>7. \A m \in 1 .. n : u[m] = s[d[m]]
    BY <1>1, <2>1, <2>3, <2>5 DEF Embeds
  <2>8. \A i \in I \cap (1 .. k) : \E m \in 1 .. n : d[m] = i
    <3>1. \A i \in I \cap (1 .. k) : i = k \/ i \in I \cap (1 .. (k - 1))
      BY <1>2
    <3> QED BY <1>1, <2>5, <3>1 DEF Embeds
  <2>9. Embeds(d, u, s, I, k)
    BY <2>1, <2>4, <2>6, <2>7, <2>8 DEF Embeds
  <2>10. PlacesStep(s, I, t, k) = u
    BY <1>4 DEF PlacesStep, u
  <2>11. Len(u) <= k
    BY <1>2, <2>1 DEF n
  <2> QED BY <2>1, <2>9, <2>10, <2>11 DEF PickedUpTo
<1> QED BY <1>3, <1>4

\* Array.filter keeps the elements at the places of I, each once, and nothing
\* else.
Filtered(t, s, I) == \E e : Embeds(e, t, s, I, Len(s))

LEMMA PlacesAre ==
    ASSUME NEW R, NEW s \in Seq(R), NEW I
    PROVE  /\ Places(s, I) \in Seq(R) /\ Len(Places(s, I)) <= Len(s)
           /\ Filtered(Places(s, I), s, I)
<1>1. PICK f : PlacesRun(s, I, f)
  BY PlacesLoop
<1> DEFINE G == {k \in 0 .. Len(s) : PickedUpTo(f[k], R, s, I, k)}
<1>2. Len(s) \in Nat
  BY LenProperties
<1>3. 0 \in G
  BY <1>1, <1>2, PicksNothing DEF PlacesRun
<1>4. ASSUME NEW k \in 1 .. Len(s), k - 1 \in G
      PROVE  k \in G
  BY <1>1, <1>2, <1>4, PicksOneMore DEF PlacesRun
<1>5. Len(s) \in G
  <2> HIDE DEF G
  <2>1. \A k \in 0 .. Len(s) : k \in G
    BY <1>2, <1>3, <1>4, UpTo
  <2> QED BY <1>2, <2>1
<1>6. PickedUpTo(Places(s, I), R, s, I, Len(s))
  BY <1>1, <1>5 DEF PlacesRun
<1> QED BY <1>6 DEF PickedUpTo, Filtered

\* What is left of a filter: its elements, and distinct ids.
LEMMA PlacesKeep ==
    ASSUME NEW R, NEW s \in Seq(R), NEW I
    PROVE  /\ \A m \in 1 .. Len(Places(s, I)) :
                 \E i \in I \cap (1 .. Len(s)) : Places(s, I)[m] = s[i]
           /\ \A i \in I \cap (1 .. Len(s)) :
                 \E m \in 1 .. Len(Places(s, I)) : Places(s, I)[m] = s[i]
           /\ Distinct(s) => Distinct(Places(s, I))
<1> DEFINE t == Places(s, I)
<1>1. t \in Seq(R) /\ Filtered(t, s, I)
  BY PlacesAre
<1>2. DOMAIN t = 1 .. Len(t) /\ DOMAIN s = 1 .. Len(s)
  BY <1>1, LenProperties
<1> HIDE DEF t
<1>3. PICK e : Embeds(e, t, s, I, Len(s))
  BY <1>1 DEF Filtered
<1>4. \A m \in 1 .. Len(t) : e[m] \in I \cap (1 .. Len(s)) /\ t[m] = s[e[m]]
  BY <1>3 DEF Embeds
<1>5. Distinct(s) => Distinct(t)
  BY <1>2, <1>3, <1>4 DEF Distinct, Embeds
<1>6. \A i \in I \cap (1 .. Len(s)) : \E m \in 1 .. Len(t) : t[m] = s[i]
  BY <1>3 DEF Embeds
<1> QED BY <1>4, <1>5, <1>6 DEF t

-----------------------------------------------------------------------------
(* Ids *)

\* The ids of a sequence's elements are as many as the elements, at most.
LEMMA IdsFinite ==
    ASSUME NEW R, NEW s \in Seq(R)
    PROVE  IsFiniteSet(Ids(s)) /\ Cardinality(Ids(s)) <= Len(s) /\ Cardinality(Ids(s)) \in Nat
<1>1. Len(s) \in Nat /\ DOMAIN s = 1 .. Len(s)
  BY LenProperties
<1>2. IsFiniteSet(1 .. Len(s)) /\ Cardinality(1 .. Len(s)) = Len(s)
  BY <1>1, FS_Interval
<1> DEFINE f == [i \in 1 .. Len(s) |-> s[i].id]
<1>3. Ids(s) = {s[i].id : i \in 1 .. Len(s)}
  BY <1>1 DEF Ids
<1>4. f \in Surjection(1 .. Len(s), Ids(s))
  BY <1>3 DEF Surjection
<1> HIDE DEF f
<1>5. IsFiniteSet(Ids(s)) /\ Cardinality(Ids(s)) <= Cardinality(1 .. Len(s))
  BY <1>2, <1>4, FS_Surjection
<1> QED BY <1>2, <1>5, FS_CardinalityType

\* A suffix above `from` makes an id of `base` that is free in `used`; what it
\* is made of is `base` and a number not far above `from`.
Suffix(id, base, from, to) == \E n \in from .. to : id = Append(base, n)

LEMMA SuffixedIsFree ==
    ASSUME NEW P, Nat \subseteq P, NEW base \in Seq(P), NEW from \in Nat,
           NEW used, IsFiniteSet(used)
    PROVE  /\ Suffixed(base, from, used) \notin used
           /\ Suffix(Suffixed(base, from, used), base, from, from + Cardinality(used))
<1> DEFINE c == Cardinality(used)
           free == {n \in from .. from + c : Append(base, n) \notin used}
           low == CHOOSE n \in free : \A m \in free : n <= m
<1>1. c \in Nat
  BY FS_CardinalityType
<1> HIDE DEF c
<1>2. free # {}
  <2> SUFFICES ASSUME free = {}
               PROVE  FALSE
    OBVIOUS
  <2> DEFINE f == [n \in from .. from + c |-> Append(base, n)]
  <2>1. \A n \in from .. from + c : Append(base, n) \in used
    OBVIOUS
  <2>2. \A n \in from .. from + c :
           Len(Append(base, n)) = Len(base) + 1 /\ Append(base, n)[Len(base) + 1] = n
    BY AppendProperties
  <2>3. f \in Injection(from .. from + c, used)
    <3>1. f \in [from .. from + c -> used]
      BY <2>1
    <3>2. \A a, b \in from .. from + c : f[a] = f[b] => a = b
      BY <2>2
    <3> HIDE DEF f
    <3> QED BY <3>1, <3>2 DEF Injection, IsInjective
  <2>4. Cardinality(from .. from + c) <= c
    <3> HIDE DEF f
    <3> QED BY <2>3, FS_Injection DEF c
  <2> QED BY <1>1, <2>4, FS_Interval
<1>3. low \in free
  <2>1. free \subseteq Nat
    BY <1>1
  <2>2. \E m \in free : \A j \in free : m <= j
    <3> HIDE DEF free
    <3> QED BY <1>2, <2>1, LeastOf
  <2> HIDE DEF free
  <2> QED BY <2>2
<1>4. Suffixed(base, from, used) = Append(base, low)
  BY DEF Suffixed, c
<1> QED BY <1>3, <1>4 DEF Suffix, c

LEMMA UniqueIdIsFree ==
    ASSUME NEW P, Nat \subseteq P, NEW base \in Seq(P), NEW used, IsFiniteSet(used)
    PROVE  /\ UniqueId(base, used) \notin used
           /\ \/ UniqueId(base, used) = base
              \/ Suffix(UniqueId(base, used), base, 2, 2 + Cardinality(used))
BY SuffixedIsFree DEF UniqueId

LEMMA EnsuredIdIsFree ==
    ASSUME NEW P, Nat \subseteq P, NEW prefix \in P, NEW raw, NEW used, IsFiniteSet(used)
    PROVE  /\ EnsureUniqueId(raw, prefix, used) \notin used
           /\ \/ EnsureUniqueId(raw, prefix, used) = raw
              \/ Suffix(EnsureUniqueId(raw, prefix, used), <<prefix>>, 0, 1 + 2 * Cardinality(used))
<1>1. Cardinality(used) \in Nat
  BY FS_CardinalityType
<1> DEFINE from == Cardinality(used) + 1
<1>2. from \in Nat /\ <<prefix>> \in Seq(P)
  BY <1>1
<1>3. /\ Suffixed(<<prefix>>, from, used) \notin used
      /\ Suffix(Suffixed(<<prefix>>, from, used), <<prefix>>, from, from + Cardinality(used))
  <2> HIDE DEF from
  <2> QED BY <1>2, SuffixedIsFree
<1>4. Suffix(Suffixed(<<prefix>>, from, used), <<prefix>>, 0, 1 + 2 * Cardinality(used))
  BY <1>1, <1>3 DEF Suffix
<1>5. EnsureUniqueId(raw, prefix, used) =
         IF raw # Blank /\ raw \notin used THEN raw ELSE Suffixed(<<prefix>>, from, used)
  BY DEF EnsureUniqueId
<1> HIDE DEF from
<1> QED BY <1>3, <1>4, <1>5

-----------------------------------------------------------------------------
(* What flows are made of: ids, nodes and edges over everything the documents, *)
(* the recordings and the user can bring in.                                   *)

Given == LoadedFlows \union Recordings
GivenNodes == (UNION { {f.nodes[i] : i \in DOMAIN f.nodes} : f \in Given }) \ {Blank}
GivenEdges == (UNION { {f.edges[i] : i \in DOMAIN f.edges} : f \in Given }) \ {Blank}

NodeType == Types \union {"start", "end", "wait"} \union {x.type : x \in GivenNodes}
CasesOf == {<<>>} \union {x.cases : x \in GivenNodes}
             \union {NormalizeSwitchCaseOptions(c) : c \in CaseLists}
Port == {"", "true", "false", "body", "exit", "found", "notFound"}
          \union UNION {ToSet(NormalizeSwitchCaseOptions(c)) : c \in CasesOf}
Cond == Port \union Conditions \union {x.cond : x \in GivenEdges}

Part == Nat \union NodeType
          \union {"n_start", "n_end", "edge", "e_start_end", "edge_append", "edge_append_end"}
          \union UNION { {x.id[k] : k \in 1 .. Len(x.id)} : x \in GivenNodes \union GivenEdges }
Id == Seq(Part)
End == Id \union {x.src : x \in GivenEdges} \union {x.dst : x \in GivenEdges}

NodeRec == [id : Id, type : NodeType, cases : CasesOf]
EdgeRec == [id : Id, src : End, dst : End, cond : Cond]

\* Records whose id can be replaced.
Named(R) == \A x \in R : x.id \in Id

\* Elements of R, their ids distinct and made of parts and numbers of D.
Sound(s, R, D) ==
    /\ s \in Seq(R) /\ Distinct(s)
    /\ \A i \in 1 .. Len(s) : Dated(s[i].id, D)

LEMMA NodesNamed == Named(NodeRec) /\ Named(EdgeRec)
BY DEF Named, NodeRec, EdgeRec

LEMMA IdsAre ==
    ASSUME NEW R, NEW s \in Seq(R)
    PROVE  /\ Ids(s) = {s[i].id : i \in 1 .. Len(s)}
           /\ \A i \in 1 .. Len(s) : s[i].id \in Ids(s)
           /\ \A id \in Ids(s) : \E i \in 1 .. Len(s) : s[i].id = id
BY LenProperties DEF Ids

LEMMA SuffixIs ==
    ASSUME NEW base \in Id, NEW from \in Nat, NEW to \in Nat, NEW id, Suffix(id, base, from, to),
           NEW D, from .. to \subseteq D
    PROVE  id \in Id /\ Dated(id, D)
<1>1. PICK n \in from .. to : id = Append(base, n)
  BY DEF Suffix
<1>2. base \in Seq(Part) /\ n \in Part /\ n \in D
  BY DEF Id, Part
<1>3. id \in Seq(Part) /\ Len(id) = Len(base) + 1 /\ id[Len(base) + 1] = n /\ Len(base) \in Nat
  BY <1>1, <1>2, AppendProperties, LenProperties
<1> QED BY <1>2, <1>3 DEF Id, Dated

LEMMA NothingIsSound ==
    ASSUME NEW R, NEW D
    PROVE  Sound(<<>>, R, D) /\ Ids(<<>>) = {}
BY EmptySeq DEF Sound, Distinct, Ids

LEMMA SoundGrows ==
    ASSUME NEW R, NEW s, NEW D, NEW E, Sound(s, R, D), D \subseteq E
    PROVE  Sound(s, R, E)
BY DEF Sound, Dated

LEMMA SoundIn ==
    ASSUME NEW R, NEW T, NEW s, NEW D, Sound(s, R, D), R \subseteq T
    PROVE  Sound(s, T, D)
BY SeqMonotonic DEF Sound

LEMMA SoundAppend ==
    ASSUME NEW R, NEW D, NEW s, Sound(s, R, D), NEW x \in R, x.id \notin Ids(s), Dated(x.id, D)
    PROVE  /\ Sound(Append(s, x), R, D)
           /\ Ids(Append(s, x)) = Ids(s) \union {x.id}
           /\ Len(Append(s, x)) = Len(s) + 1
<1> DEFINE t == Append(s, x)
           n == Len(s)
<1>1. s \in Seq(R) /\ n \in Nat /\ DOMAIN s = 1 .. n
  BY LenProperties DEF Sound
<1>2. t \in Seq(R) /\ Len(t) = n + 1 /\ t[n + 1] = x /\ \A i \in 1 .. n : t[i] = s[i]
  BY <1>1, AppendProperties
<1>3. DOMAIN t = 1 .. n + 1 /\ \A i \in 1 .. n + 1 : i \in 1 .. n \/ i = n + 1
  BY <1>1, <1>2, LenProperties
<1>4. n + 1 \in 1 .. n + 1 /\ \A i \in 1 .. n : i \in 1 .. n + 1
  BY <1>1
<1> HIDE DEF t, n
<1>5. \A i \in 1 .. n : s[i].id # x.id
  BY <1>1 DEF Ids
<1>6. Distinct(t)
  BY <1>1, <1>2, <1>3, <1>5 DEF Distinct, Sound
<1>7. Ids(t) = Ids(s) \union {x.id}
  BY <1>1, <1>2, <1>3, <1>4 DEF Ids
<1>8. \A i \in 1 .. n + 1 : Dated(t[i].id, D)
  BY <1>2, <1>3 DEF Sound, n
<1> QED BY <1>2, <1>6, <1>7, <1>8 DEF Sound, t, n

LEMMA SoundCons ==
    ASSUME NEW R, NEW D, NEW s, Sound(s, R, D), NEW x \in R, x.id \notin Ids(s), Dated(x.id, D)
    PROVE  /\ Sound(Cons(x, s), R, D)
           /\ Ids(Cons(x, s)) = Ids(s) \union {x.id}
           /\ Len(Cons(x, s)) = Len(s) + 1
           /\ Cons(x, s)[1] = x
<1> DEFINE t == <<x>> \o s
           n == Len(s)
<1>1. s \in Seq(R) /\ n \in Nat /\ DOMAIN s = 1 .. n
  BY LenProperties DEF Sound
<1>2. <<x>> \in Seq(R) /\ Len(<<x>>) = 1 /\ <<x>>[1] = x
  OBVIOUS
<1>3. /\ t \in Seq(R) /\ Len(t) = 1 + n
      /\ \A i \in 1 .. 1 + n : t[i] = IF i <= 1 THEN <<x>>[i] ELSE s[i - 1]
  <2> HIDE DEF n
  <2> QED BY <1>1, <1>2, ConcatProperties DEF n
<1>4. DOMAIN t = 1 .. n + 1 /\ \A i \in 1 .. n + 1 : i = 1 \/ (i # 1 /\ i - 1 \in 1 .. n)
  BY <1>1, <1>3, LenProperties
<1>5. 1 \in 1 .. n + 1 /\ t[1] = x
  BY <1>1, <1>2, <1>3
<1>6. /\ \A i \in 1 .. n + 1 : i # 1 => t[i] = s[i - 1]
      /\ \A i \in 1 .. n : i + 1 \in 1 .. n + 1 /\ t[i + 1] = s[i]
  BY <1>1, <1>3
<1> HIDE DEF t, n
<1>7. \A i \in 1 .. n : s[i].id # x.id
  BY <1>1 DEF Ids
<1>8. Distinct(t)
  <2> SUFFICES ASSUME NEW i \in 1 .. n + 1, NEW j \in 1 .. n + 1, t[i].id = t[j].id
               PROVE  i = j
    BY <1>4 DEF Distinct
  <2>1. CASE i = 1 \/ j = 1
    BY <1>4, <1>5, <1>6, <1>7, <2>1
  <2>2. CASE i # 1 /\ j # 1
    <3>1. i - 1 \in DOMAIN s /\ j - 1 \in DOMAIN s
      BY <1>1, <1>4, <2>2
    <3>2. s[i - 1].id = s[j - 1].id
      BY <1>6, <2>2
    <3>3. i - 1 = j - 1
      BY <3>1, <3>2 DEF Distinct, Sound
    <3> QED BY <1>1, <3>3
  <2> QED BY <2>1, <2>2
<1>9. Ids(t) = Ids(s) \union {x.id}
  <2>1. Ids(t) = {t[i].id : i \in 1 .. n + 1} /\ Ids(s) = {s[i].id : i \in 1 .. n}
    BY <1>1, <1>4 DEF Ids
  <2>2. \A i \in 1 .. n + 1 : t[i].id = x.id \/ \E j \in 1 .. n : t[i].id = s[j].id
    BY <1>4, <1>5, <1>6
  <2>3. \A j \in 1 .. n : \E i \in 1 .. n + 1 : t[i].id = s[j].id
    BY <1>6
  <2> QED BY <1>5, <2>1, <2>2, <2>3
<1>10. \A i \in 1 .. n + 1 : Dated(t[i].id, D)
  BY <1>4, <1>5, <1>6 DEF Sound, n
<1> QED BY <1>1, <1>3, <1>5, <1>8, <1>9, <1>10 DEF Sound, Cons, t, n

LEMMA SoundPlaces ==
    ASSUME NEW R, NEW D, NEW s, Sound(s, R, D), NEW I
    PROVE  Sound(Places(s, I), R, D) /\ Len(Places(s, I)) <= Len(s)
<1>1. s \in Seq(R)
  BY DEF Sound
<1> QED BY <1>1, PlacesAre, PlacesKeep DEF Sound

-----------------------------------------------------------------------------
(* Nodes of a document *)

RawNode == NodeRec \union {Blank}

LEMMA NormalNodeIs ==
    ASSUME NEW acc \in Seq(NodeRec), NEW raw \in RawNode
    PROVE  \/ NormalNode(acc, raw) = acc
           \/ \E x \in NodeRec : /\ NormalNode(acc, raw) = Append(acc, x)
                                 /\ x.id \notin Ids(acc)
                                 /\ \/ x.id = raw.id /\ raw # Blank
                                    \/ Suffix(x.id, <<x.type>>, 0, 1 + 2 * Cardinality(Ids(acc)))
<1>1. CASE raw = Blank
  BY <1>1, Zenon DEF NormalNode
<1>2. CASE raw # Blank
  <2> DEFINE type == IF raw.type = "" THEN "wait" ELSE raw.type
             id == EnsureUniqueId(raw.id, type, Ids(acc))
             x == [raw EXCEPT !.type = type, !.id = id]
  <2>1. raw \in NodeRec
    BY <1>2 DEF RawNode
  <2>2. type \in NodeType /\ type \in Part /\ Nat \subseteq Part
    BY <2>1 DEF NodeRec, NodeType, Part
  <2>3. IsFiniteSet(Ids(acc)) /\ Cardinality(Ids(acc)) \in Nat
    BY IdsFinite
  <2>4. NormalNode(acc, raw) = Append(acc, x)
    BY <1>2, Zenon DEF NormalNode
  <2> HIDE DEF type
  <2>5. /\ id \notin Ids(acc)
        /\ id = raw.id \/ Suffix(id, <<type>>, 0, 1 + 2 * Cardinality(Ids(acc)))
    <3>1. /\ EnsureUniqueId(raw.id, type, Ids(acc)) \notin Ids(acc)
          /\ \/ EnsureUniqueId(raw.id, type, Ids(acc)) = raw.id
             \/ Suffix(EnsureUniqueId(raw.id, type, Ids(acc)), <<type>>, 0,
                       1 + 2 * Cardinality(Ids(acc)))
      BY <2>2, <2>3, EnsuredIdIsFree
    <3> QED BY <3>1
  <2>6. id \in Id
    <3>1. CASE id = raw.id
      BY <2>1, <3>1 DEF NodeRec
    <3>2. CASE Suffix(id, <<type>>, 0, 1 + 2 * Cardinality(Ids(acc)))
      <4>1. <<type>> \in Id /\ 1 + 2 * Cardinality(Ids(acc)) \in Nat /\ 0 \in Nat
        BY <2>2, <2>3 DEF Id
      <4> HIDE DEF id
      <4> QED BY <3>2, <4>1, SuffixIs
    <3> HIDE DEF id
    <3> QED BY <2>5, <3>1, <3>2
  <2> HIDE DEF id
  <2>7. x \in NodeRec /\ x.id = id /\ x.type = type
    BY <2>1, <2>2, <2>6 DEF NodeRec
  <2> HIDE DEF x
  <2> QED BY <1>2, <2>1, <2>4, <2>5, <2>7
<1> QED BY <1>1, <1>2

LEMMA NormalNodeIn ==
    ASSUME NEW acc \in Seq(NodeRec), NEW raw \in RawNode
    PROVE  NormalNode(acc, raw) \in Seq(NodeRec)
<1>1. PICK x \in NodeRec : NormalNode(acc, raw) = acc \/ NormalNode(acc, raw) = Append(acc, x)
  <2>1. CASE NormalNode(acc, raw) = acc
    <3>1. NewNode(<<>>, "start") \in NodeRec
      BY EmptySeq DEF NewNode, NodeRec, Id, NodeType, CasesOf
    <3> QED BY <2>1, <3>1
  <2> QED BY <2>1, NormalNodeIs
<1> QED BY <1>1, AppendProperties

NodesRun(raw, f) ==
    /\ f[0] = <<>>
    /\ f[Len(raw)] = FoldLeft(NormalNode, <<>>, raw)
    /\ \A k \in 1 .. Len(raw) : f[k] = NormalNode(f[k - 1], raw[k])

LEMMA NodesLoop ==
    ASSUME NEW raw \in Seq(RawNode)
    PROVE  \E f : NodesRun(raw, f)
<1> DEFINE n == Len(raw)
           X == Seq(NodeRec)
           step == [p \in (1 .. n) \X X |-> NormalNode(p[2], raw[p[1]])]
           Fits(iter) == iter = [S \in SUBSET DOMAIN raw |->
                                    IF S = {} THEN <<>>
                                    ELSE NormalNode(iter[S \ {Max(S)}], raw[Max(S)])]
           it == CHOOSE iter : Fits(iter)
<1>1. n \in Nat /\ DOMAIN raw = 1 .. n /\ \A i \in 1 .. n : raw[i] \in RawNode
  BY LenProperties
<1>2. StepsIn(step, n, X)
  <2>1. \A i \in 1 .. n, x \in X : NormalNode(x, raw[i]) \in X
    BY <1>1, NormalNodeIn
  <2> HIDE DEF X
  <2> QED BY <2>1 DEF StepsIn
<1>3. FoldLeft(NormalNode, <<>>, raw) = it[1 .. n]
  <2>1. FoldLeft(NormalNode, <<>>, raw) = it[DOMAIN raw]
    BY Zenon DEF FoldLeft, MapThenFoldSet
  <2> HIDE DEF it
  <2> QED BY <1>1, <2>1
<1>4. PICK g : Fits(g)
  <2>1. <<>> \in X
    OBVIOUS
  <2>2. PICK g \in [SUBSET (1 .. n) -> X] : FoldsUp(g, n, <<>>, step)
    <3> HIDE DEF X, step
    <3> QED BY <1>1, <1>2, <2>1, FoldExists DEF FoldHas
  <2>3. ASSUME NEW S \in SUBSET (1 .. n), S # {}
        PROVE  Max(S) \in 1 .. n /\ S \ {Max(S)} \in SUBSET (1 .. n)
    BY <1>1, <2>3, MaxIn
  <2>4. \A S \in SUBSET (1 .. n) :
           g[S] = IF S = {} THEN <<>>
                  ELSE NormalNode(g[S \ {Max(S)}], raw[Max(S)])
    <3>1. \A S \in SUBSET (1 .. n) : S # {} =>
             step[<<Max(S), g[S \ {Max(S)}]>>] = NormalNode(g[S \ {Max(S)}], raw[Max(S)])
      <4>1. \A S \in SUBSET (1 .. n) : S # {} => g[S \ {Max(S)}] \in X
        <5> HIDE DEF X, step
        <5> QED BY <2>2, <2>3
      <4> HIDE DEF X
      <4> QED BY <2>3, <4>1
    <3> HIDE DEF X, step
    <3> QED BY <2>2, <3>1 DEF FoldsUp
  <2>5. Fits(g)
    <3> HIDE DEF X
    <3> QED BY <1>1, <2>2, <2>4
  <2> QED BY <2>5
<1>5. Fits(it)
  <2> HIDE DEF Fits
  <2> QED BY <1>4
<1>6. /\ it[1 .. 0] = <<>>
      /\ \A k \in 1 .. n : it[1 .. k] = NormalNode(it[1 .. (k - 1)], raw[k])
  <2>1. it[{}] = <<>>
    <3> HIDE DEF it
    <3> QED BY <1>5
  <2>2. ASSUME NEW k \in 1 .. n
        PROVE  it[1 .. k] = NormalNode(it[1 .. (k - 1)], raw[k])
    <3>1. 1 .. k \in SUBSET (1 .. n)
      BY <1>1
    <3>2. k \in Nat /\ 1 .. k # {} /\ Max(1 .. k) = k /\ (1 .. k) \ {k} = 1 .. (k - 1)
      BY <1>1, LastOfInterval
    <3>3. it[1 .. k] = NormalNode(it[(1 .. k) \ {Max(1 .. k)}], raw[Max(1 .. k)])
      <4> HIDE DEF it
      <4> QED BY <1>1, <1>5, <3>1, <3>2
    <3> HIDE DEF it
    <3> QED BY <3>2, <3>3
  <2>3. 1 .. 0 = {}
    OBVIOUS
  <2> HIDE DEF it
  <2> QED BY <2>1, <2>2, <2>3
<1> DEFINE f == [k \in 0 .. n |-> it[1 .. k]]
<1>7. f[0] = <<>> /\ f[n] = FoldLeft(NormalNode, <<>>, raw)
  <2> HIDE DEF it
  <2> QED BY <1>1, <1>3, <1>6
<1>8. \A k \in 1 .. n : f[k] = NormalNode(f[k - 1], raw[k])
  <2> HIDE DEF it
  <2> QED BY <1>1, <1>6
<1> HIDE DEF f
<1> QED BY <1>7, <1>8 DEF NodesRun

\* The numbers in ids after some elements: those before d, and counts.
Numbers(d, n) == (0 .. d - 1) \union (0 .. 1 + 2 * n)

RawDated(raw, D) == \A i \in 1 .. Len(raw) : raw[i] # Blank => Dated(raw[i].id, D)

LEMMA NodeStepSound ==
    ASSUME NEW d \in Nat, NEW acc, Sound(acc, NodeRec, Numbers(d, Len(acc))),
           NEW raw \in RawNode, raw # Blank => Dated(raw.id, 0 .. d - 1)
    PROVE  LET new == NormalNode(acc, raw)
           IN  Sound(new, NodeRec, Numbers(d, Len(new))) /\ Len(acc) <= Len(new)
<1> DEFINE new == NormalNode(acc, raw)
           D == Numbers(d, Len(acc) + 1)
<1>1. acc \in Seq(NodeRec) /\ Len(acc) \in Nat /\ Nat \subseteq Part
  BY LenProperties DEF Sound, Part
<1>2. CASE new = acc
  BY <1>1, <1>2
<1>3. ASSUME NEW x \in NodeRec, new = Append(acc, x), x.id \notin Ids(acc),
             \/ x.id = raw.id /\ raw # Blank
             \/ Suffix(x.id, <<x.type>>, 0, 1 + 2 * Cardinality(Ids(acc)))
      PROVE  Sound(new, NodeRec, Numbers(d, Len(new))) /\ Len(acc) <= Len(new)
  <2>1. Sound(acc, NodeRec, D)
    <3>1. Numbers(d, Len(acc)) \subseteq D
      BY <1>1 DEF Numbers
    <3> QED BY <3>1, SoundGrows
  <2>2. Dated(x.id, D)
    <3>1. CASE x.id = raw.id /\ raw # Blank
      BY <3>1 DEF Dated, Numbers
    <3>2. CASE Suffix(x.id, <<x.type>>, 0, 1 + 2 * Cardinality(Ids(acc)))
      <4>1. Cardinality(Ids(acc)) \in Nat /\ Cardinality(Ids(acc)) <= Len(acc)
        BY <1>1, IdsFinite
      <4>2. <<x.type>> \in Id /\ 0 \in Nat /\ 1 + 2 * Cardinality(Ids(acc)) \in Nat
        BY <4>1 DEF Id, NodeRec, Part
      <4>3. 0 .. 1 + 2 * Cardinality(Ids(acc)) \subseteq D
        BY <1>1, <4>1 DEF Numbers
      <4> HIDE DEF D
      <4> QED BY <3>2, <4>2, <4>3, SuffixIs
    <3> QED BY <1>3, <3>1, <3>2
  <2>3. Sound(Append(acc, x), NodeRec, D) /\ Len(Append(acc, x)) = Len(acc) + 1
    <3> HIDE DEF D
    <3> QED BY <1>3, <2>1, <2>2, SoundAppend
  <2> QED BY <1>1, <1>3, <2>3
<1> HIDE DEF new
<1>4. new = acc \/ \E x \in NodeRec :
          /\ new = Append(acc, x) /\ x.id \notin Ids(acc)
          /\ \/ x.id = raw.id /\ raw # Blank
             \/ Suffix(x.id, <<x.type>>, 0, 1 + 2 * Cardinality(Ids(acc)))
  BY <1>1, NormalNodeIs DEF new
<1> QED BY <1>2, <1>3, <1>4 DEF new

LEMMA NodesSound ==
    ASSUME NEW d \in Nat, NEW raw \in Seq(RawNode), RawDated(raw, 0 .. d - 1)
    PROVE  LET new == FoldLeft(NormalNode, <<>>, raw)
           IN  Sound(new, NodeRec, Numbers(d, Len(new)))
<1>1. PICK f : NodesRun(raw, f)
  BY NodesLoop
<1>2. Len(raw) \in Nat /\ \A i \in 1 .. Len(raw) : raw[i] \in RawNode
  BY LenProperties
<1> DEFINE G == {k \in 0 .. Len(raw) : Sound(f[k], NodeRec, Numbers(d, Len(f[k])))}
<1>3. 0 \in G
  BY <1>1, <1>2, NothingIsSound DEF NodesRun
<1>4. ASSUME NEW k \in 1 .. Len(raw), k - 1 \in G
      PROVE  k \in G
  <2>1. Sound(f[k - 1], NodeRec, Numbers(d, Len(f[k - 1])))
    BY <1>4
  <2>2. raw[k] \in RawNode /\ (raw[k] # Blank => Dated(raw[k].id, 0 .. d - 1))
    BY <1>2 DEF RawDated
  <2>3. f[k] = NormalNode(f[k - 1], raw[k])
    BY <1>1 DEF NodesRun
  <2>4. Sound(f[k], NodeRec, Numbers(d, Len(f[k])))
    BY <2>1, <2>2, <2>3, NodeStepSound
  <2> QED BY <1>2, <2>4
<1>5. Len(raw) \in G
  <2> HIDE DEF G
  <2>1. \A k \in 0 .. Len(raw) : k \in G
    BY <1>2, <1>3, <1>4, UpTo
  <2> QED BY <1>2, <2>1
<1> QED BY <1>1, <1>5 DEF NodesRun

\* The start and the end nodes a document lacks.
LEMMA BoundaryNode ==
    ASSUME NEW nodes \in Seq(NodeRec), NEW prefix \in {"start", "end"}, NEW name \in {"n_start", "n_end"},
           NEW d \in Nat
    PROVE  LET x == NewNode(EnsureUniqueId(<<name>>, prefix, Ids(nodes)), prefix)
           IN  /\ x \in NodeRec /\ x.id \notin Ids(nodes) /\ x.type = prefix
               /\ Dated(x.id, Numbers(d, Len(nodes) + 1))
<1> DEFINE id == EnsureUniqueId(<<name>>, prefix, Ids(nodes))
           x == NewNode(id, prefix)
           c == Cardinality(Ids(nodes))
<1>1. Nat \subseteq Part /\ prefix \in Part /\ prefix \in NodeType /\ name \in Part
  BY DEF Part, NodeType
<1>2. IsFiniteSet(Ids(nodes)) /\ c \in Nat /\ c <= Len(nodes) /\ Len(nodes) \in Nat
  BY IdsFinite, LenProperties
<1>3. id \notin Ids(nodes) /\ (id = <<name>> \/ Suffix(id, <<prefix>>, 0, 1 + 2 * c))
  BY <1>1, <1>2, EnsuredIdIsFree
<1>4. id \in Id /\ Dated(id, Numbers(d, Len(nodes) + 1))
  <2>1. CASE id = <<name>>
    <3>1. <<name>> \in Seq(Part) /\ Len(<<name>>) # 2
      BY <1>1
    <3> HIDE DEF id
    <3> QED BY <2>1, <3>1 DEF Id, Dated
  <2>2. CASE Suffix(id, <<prefix>>, 0, 1 + 2 * c)
    <3>1. <<prefix>> \in Id /\ 0 \in Nat /\ 1 + 2 * c \in Nat
      BY <1>1, <1>2 DEF Id
    <3>2. 0 .. 1 + 2 * c \subseteq Numbers(d, Len(nodes) + 1)
      BY <1>2 DEF Numbers
    <3> HIDE DEF id, c
    <3> QED BY <2>2, <3>1, <3>2, SuffixIs
  <2> HIDE DEF id, c
  <2> QED BY <1>3, <2>1, <2>2
<1> HIDE DEF id
<1>5. x \in NodeRec /\ x.id = id /\ x.type = prefix
  BY <1>1, <1>4 DEF NewNode, NodeRec, CasesOf
<1> HIDE DEF x
<1>6. x.id \notin Ids(nodes) /\ Dated(x.id, Numbers(d, Len(nodes) + 1))
  BY <1>3, <1>4, <1>5
<1> QED BY <1>5, <1>6 DEF x, id

LEMMA NormalNodesSound ==
    ASSUME NEW d \in Nat, NEW raw \in Seq(RawNode), RawDated(raw, 0 .. d - 1)
    PROVE  LET new == NormalNodes(raw)
           IN  /\ Sound(new, NodeRec, Numbers(d, Len(new)))
               /\ OfType(new, "start") # {} /\ OfType(new, "end") # {}
<1> DEFINE made == FoldLeft(NormalNode, <<>>, raw)
           begun == WithStart(made)
           new == WithEnd(begun)
<1>1. Sound(made, NodeRec, Numbers(d, Len(made)))
  BY NodesSound
<1> HIDE DEF made
<1>2. Sound(begun, NodeRec, Numbers(d, Len(begun))) /\ OfType(begun, "start") # {}
  <2>1. CASE OfType(made, "start") # {}
    BY <1>1, <2>1 DEF WithStart
  <2>2. CASE OfType(made, "start") = {}
    <3> DEFINE x == NewNode(EnsureUniqueId(<<"n_start">>, "start", Ids(made)), "start")
    <3>1. made \in Seq(NodeRec) /\ Len(made) \in Nat
      BY <1>1, LenProperties DEF Sound
    <3>2. x \in NodeRec /\ x.id \notin Ids(made) /\ x.type = "start" /\ Dated(x.id, Numbers(d, Len(made) + 1))
      BY <3>1, BoundaryNode
    <3>3. begun = Cons(x, made)
      BY <2>2, Zenon DEF WithStart
    <3> HIDE DEF x, begun
    <3>4. Numbers(d, Len(made)) \subseteq Numbers(d, Len(made) + 1)
      BY <3>1 DEF Numbers
    <3>5. Sound(made, NodeRec, Numbers(d, Len(made) + 1))
      BY <1>1, <3>4, SoundGrows
    <3>6. /\ Sound(begun, NodeRec, Numbers(d, Len(made) + 1))
          /\ Len(begun) = Len(made) + 1 /\ begun[1] = x
      BY <3>2, <3>3, <3>5, SoundCons
    <3>7. DOMAIN begun = 1 .. Len(begun)
      BY <3>6, LenProperties DEF Sound
    <3>8. 1 \in OfType(begun, "start")
      BY <3>1, <3>2, <3>6, <3>7 DEF OfType
    <3> QED BY <3>6, <3>8
  <2> QED BY <2>1, <2>2
<1> HIDE DEF begun
<1>3. Sound(new, NodeRec, Numbers(d, Len(new))) /\ OfType(new, "start") # {} /\ OfType(new, "end") # {}
  <2>1. CASE OfType(begun, "end") # {}
    BY <1>2, <2>1 DEF WithEnd
  <2>2. CASE OfType(begun, "end") = {}
    <3> DEFINE x == NewNode(EnsureUniqueId(<<"n_end">>, "end", Ids(begun)), "end")
    <3>1. begun \in Seq(NodeRec) /\ Len(begun) \in Nat
      BY <1>2, LenProperties DEF Sound
    <3>2. x \in NodeRec /\ x.id \notin Ids(begun) /\ x.type = "end" /\ Dated(x.id, Numbers(d, Len(begun) + 1))
      BY <3>1, BoundaryNode
    <3>3. new = Append(begun, x)
      BY <2>2, Zenon DEF WithEnd
    <3> HIDE DEF x, new
    <3>4. Numbers(d, Len(begun)) \subseteq Numbers(d, Len(begun) + 1)
      BY <3>1 DEF Numbers
    <3>5. Sound(begun, NodeRec, Numbers(d, Len(begun) + 1))
      BY <1>2, <3>4, SoundGrows
    <3>6. Sound(new, NodeRec, Numbers(d, Len(begun) + 1)) /\ Len(new) = Len(begun) + 1
      BY <3>2, <3>3, <3>5, SoundAppend
    <3>7. /\ DOMAIN new = 1 .. Len(new) /\ DOMAIN begun = 1 .. Len(begun)
          /\ new[Len(begun) + 1] = x /\ \A i \in 1 .. Len(begun) : new[i] = begun[i]
      BY <3>1, <3>2, <3>3, <3>6, AppendProperties, LenProperties DEF Sound
    <3>8. Len(begun) + 1 \in OfType(new, "end")
      BY <3>1, <3>2, <3>6, <3>7 DEF OfType
    <3>9. OfType(begun, "start") \subseteq OfType(new, "start")
      BY <3>1, <3>6, <3>7 DEF OfType
    <3> QED BY <1>2, <3>6, <3>8, <3>9
  <2> QED BY <2>1, <2>2
<1> QED BY <1>3 DEF NormalNodes, made, begun

-----------------------------------------------------------------------------
(* Edges of a document *)

RawEdge == EdgeRec \union {Blank}

\* Edges between nodes with ids of N.
Between(edges, N) == \A i \in 1 .. Len(edges) : {edges[i].src, edges[i].dst} \subseteq N

KeepStep(acc, edge, nodes) ==
    IF \/ edge = Blank
       \/ edge.src \in {Blank, edge.dst} \/ edge.dst = Blank
       \/ ~ {edge.src, edge.dst} \subseteq Ids(nodes)
    THEN acc
    ELSE Append(acc, [edge EXCEPT !.id = EnsureUniqueId(edge.id, "edge", Ids(acc))])

KeptEdges(raw, nodes) == FoldLeft(LAMBDA acc, edge : KeepStep(acc, edge, nodes), <<>>, raw)

LEMMA KeepIs ==
    ASSUME NEW acc \in Seq(EdgeRec), NEW raw \in RawEdge, NEW nodes
    PROVE  \/ KeepStep(acc, raw, nodes) = acc
           \/ \E x \in EdgeRec : /\ KeepStep(acc, raw, nodes) = Append(acc, x)
                                 /\ x.id \notin Ids(acc)
                                 /\ {x.src, x.dst} \subseteq Ids(nodes)
                                 /\ \/ x.id = raw.id /\ raw # Blank
                                    \/ Suffix(x.id, <<"edge">>, 0, 1 + 2 * Cardinality(Ids(acc)))
<1> DEFINE out == \/ raw = Blank
                  \/ raw.src \in {Blank, raw.dst} \/ raw.dst = Blank
                  \/ ~ {raw.src, raw.dst} \subseteq Ids(nodes)
           id == EnsureUniqueId(raw.id, "edge", Ids(acc))
           x == [raw EXCEPT !.id = id]
<1>1. CASE out
  BY <1>1, Zenon DEF KeepStep
<1>2. CASE ~ out
  <2>1. raw \in EdgeRec /\ {raw.src, raw.dst} \subseteq Ids(nodes) /\ raw # Blank
    BY <1>2 DEF RawEdge
  <2>2. KeepStep(acc, raw, nodes) = Append(acc, x)
    BY <1>2, Zenon DEF KeepStep
  <2>3. IsFiniteSet(Ids(acc)) /\ Cardinality(Ids(acc)) \in Nat /\ Nat \subseteq Part /\ "edge" \in Part
    BY IdsFinite DEF Part
  <2>4. /\ id \notin Ids(acc)
        /\ id = raw.id \/ Suffix(id, <<"edge">>, 0, 1 + 2 * Cardinality(Ids(acc)))
    BY <2>3, EnsuredIdIsFree
  <2>5. id \in Id
    <3>1. CASE id = raw.id
      BY <2>1, <3>1 DEF EdgeRec
    <3>2. CASE Suffix(id, <<"edge">>, 0, 1 + 2 * Cardinality(Ids(acc)))
      <4>1. <<"edge">> \in Id /\ 1 + 2 * Cardinality(Ids(acc)) \in Nat /\ 0 \in Nat
        BY <2>3 DEF Id
      <4> HIDE DEF id
      <4> QED BY <3>2, <4>1, SuffixIs
    <3> HIDE DEF id
    <3> QED BY <2>4, <3>1, <3>2
  <2> HIDE DEF id
  <2>6. x \in EdgeRec /\ x.id = id /\ x.src = raw.src /\ x.dst = raw.dst
    BY <2>1, <2>5 DEF EdgeRec
  <2> HIDE DEF x
  <2> QED BY <2>1, <2>2, <2>4, <2>6
<1> QED BY <1>1, <1>2

LEMMA KeepIn ==
    ASSUME NEW acc \in Seq(EdgeRec), NEW raw \in RawEdge, NEW nodes
    PROVE  KeepStep(acc, raw, nodes) \in Seq(EdgeRec)
<1>1. CASE KeepStep(acc, raw, nodes) = acc
  BY <1>1
<1>2. ASSUME NEW x \in EdgeRec, KeepStep(acc, raw, nodes) = Append(acc, x)
      PROVE  KeepStep(acc, raw, nodes) \in Seq(EdgeRec)
  BY <1>2, AppendProperties
<1> QED BY <1>1, <1>2, KeepIs

EdgesRun(raw, nodes, f) ==
    /\ f[0] = <<>>
    /\ f[Len(raw)] = KeptEdges(raw, nodes)
    /\ \A k \in 1 .. Len(raw) : f[k] = KeepStep(f[k - 1], raw[k], nodes)

LEMMA EdgesLoop ==
    ASSUME NEW raw \in Seq(RawEdge), NEW nodes
    PROVE  \E f : EdgesRun(raw, nodes, f)
<1> DEFINE n == Len(raw)
           X == Seq(EdgeRec)
           step == [p \in (1 .. n) \X X |-> KeepStep(p[2], raw[p[1]], nodes)]
           Fits(iter) == iter = [S \in SUBSET DOMAIN raw |->
                                    IF S = {} THEN <<>>
                                    ELSE KeepStep(iter[S \ {Max(S)}], raw[Max(S)], nodes)]
           it == CHOOSE iter : Fits(iter)
<1>1. n \in Nat /\ DOMAIN raw = 1 .. n /\ \A i \in 1 .. n : raw[i] \in RawEdge
  BY LenProperties
<1>2. StepsIn(step, n, X)
  <2>1. \A i \in 1 .. n, x \in X : KeepStep(x, raw[i], nodes) \in X
    BY <1>1, KeepIn
  <2> HIDE DEF X
  <2> QED BY <2>1 DEF StepsIn
<1>3. KeptEdges(raw, nodes) = it[1 .. n]
  <2>1. KeptEdges(raw, nodes) = it[DOMAIN raw]
    BY Zenon DEF KeptEdges, FoldLeft, MapThenFoldSet
  <2> HIDE DEF it
  <2> QED BY <1>1, <2>1
<1>4. PICK g : Fits(g)
  <2>1. <<>> \in X
    OBVIOUS
  <2>2. PICK g \in [SUBSET (1 .. n) -> X] : FoldsUp(g, n, <<>>, step)
    <3> HIDE DEF X, step
    <3> QED BY <1>1, <1>2, <2>1, FoldExists DEF FoldHas
  <2>3. ASSUME NEW S \in SUBSET (1 .. n), S # {}
        PROVE  Max(S) \in 1 .. n /\ S \ {Max(S)} \in SUBSET (1 .. n)
    BY <1>1, <2>3, MaxIn
  <2>4. \A S \in SUBSET (1 .. n) :
           g[S] = IF S = {} THEN <<>>
                  ELSE KeepStep(g[S \ {Max(S)}], raw[Max(S)], nodes)
    <3>1. \A S \in SUBSET (1 .. n) : S # {} =>
             step[<<Max(S), g[S \ {Max(S)}]>>] = KeepStep(g[S \ {Max(S)}], raw[Max(S)], nodes)
      <4>1. \A S \in SUBSET (1 .. n) : S # {} => g[S \ {Max(S)}] \in X
        <5> HIDE DEF X, step
        <5> QED BY <2>2, <2>3
      <4> HIDE DEF X
      <4> QED BY <2>3, <4>1
    <3> HIDE DEF X, step
    <3> QED BY <2>2, <3>1 DEF FoldsUp
  <2>5. Fits(g)
    <3> HIDE DEF X
    <3> QED BY <1>1, <2>2, <2>4
  <2> QED BY <2>5
<1>5. Fits(it)
  <2> HIDE DEF Fits
  <2> QED BY <1>4
<1>6. /\ it[1 .. 0] = <<>>
      /\ \A k \in 1 .. n : it[1 .. k] = KeepStep(it[1 .. (k - 1)], raw[k], nodes)
  <2>1. it[{}] = <<>>
    <3> HIDE DEF it
    <3> QED BY <1>5
  <2>2. ASSUME NEW k \in 1 .. n
        PROVE  it[1 .. k] = KeepStep(it[1 .. (k - 1)], raw[k], nodes)
    <3>1. 1 .. k \in SUBSET (1 .. n)
      BY <1>1
    <3>2. k \in Nat /\ 1 .. k # {} /\ Max(1 .. k) = k /\ (1 .. k) \ {k} = 1 .. (k - 1)
      BY <1>1, LastOfInterval
    <3>3. it[1 .. k] = KeepStep(it[(1 .. k) \ {Max(1 .. k)}], raw[Max(1 .. k)], nodes)
      <4> HIDE DEF it
      <4> QED BY <1>1, <1>5, <3>1, <3>2
    <3> HIDE DEF it
    <3> QED BY <3>2, <3>3
  <2>3. 1 .. 0 = {}
    OBVIOUS
  <2> HIDE DEF it
  <2> QED BY <2>1, <2>2, <2>3
<1> DEFINE f == [k \in 0 .. n |-> it[1 .. k]]
<1>7. f[0] = <<>> /\ f[n] = KeptEdges(raw, nodes)
  <2> HIDE DEF it
  <2> QED BY <1>1, <1>3, <1>6
<1>8. \A k \in 1 .. n : f[k] = KeepStep(f[k - 1], raw[k], nodes)
  <2> HIDE DEF it
  <2> QED BY <1>1, <1>6
<1> HIDE DEF f
<1> QED BY <1>7, <1>8 DEF EdgesRun

KeptSound(acc, nodes, d) == Sound(acc, EdgeRec, Numbers(d, Len(acc))) /\ Between(acc, Ids(nodes))

LEMMA EdgeStepSound ==
    ASSUME NEW d \in Nat, NEW nodes, NEW acc, KeptSound(acc, nodes, d),
           NEW raw \in RawEdge, raw # Blank => Dated(raw.id, 0 .. d - 1)
    PROVE  KeptSound(KeepStep(acc, raw, nodes), nodes, d)
<1> DEFINE new == KeepStep(acc, raw, nodes)
           D == Numbers(d, Len(acc) + 1)
<1>0. Sound(acc, EdgeRec, Numbers(d, Len(acc))) /\ Between(acc, Ids(nodes))
  BY DEF KeptSound
<1>1. acc \in Seq(EdgeRec) /\ Len(acc) \in Nat /\ Nat \subseteq Part /\ "edge" \in Part
  BY <1>0, LenProperties DEF Sound, Part
<1>2. CASE new = acc
  BY <1>2
<1>3. ASSUME NEW x \in EdgeRec, new = Append(acc, x), x.id \notin Ids(acc),
             {x.src, x.dst} \subseteq Ids(nodes),
             \/ x.id = raw.id /\ raw # Blank
             \/ Suffix(x.id, <<"edge">>, 0, 1 + 2 * Cardinality(Ids(acc)))
      PROVE  KeptSound(new, nodes, d)
  <2>1. Sound(acc, EdgeRec, D)
    <3>1. Numbers(d, Len(acc)) \subseteq D
      BY <1>1 DEF Numbers
    <3> QED BY <1>0, <3>1, SoundGrows
  <2>2. Dated(x.id, D)
    <3>1. CASE x.id = raw.id /\ raw # Blank
      BY <3>1 DEF Dated, Numbers
    <3>2. CASE Suffix(x.id, <<"edge">>, 0, 1 + 2 * Cardinality(Ids(acc)))
      <4>1. Cardinality(Ids(acc)) \in Nat /\ Cardinality(Ids(acc)) <= Len(acc)
        BY <1>1, IdsFinite
      <4>2. <<"edge">> \in Id /\ 0 \in Nat /\ 1 + 2 * Cardinality(Ids(acc)) \in Nat
        BY <1>1, <4>1 DEF Id
      <4>3. 0 .. 1 + 2 * Cardinality(Ids(acc)) \subseteq D
        BY <1>1, <4>1 DEF Numbers
      <4> HIDE DEF D
      <4> QED BY <3>2, <4>2, <4>3, SuffixIs
    <3> QED BY <1>3, <3>1, <3>2
  <2>3. Sound(Append(acc, x), EdgeRec, D) /\ Len(Append(acc, x)) = Len(acc) + 1
    <3> HIDE DEF D
    <3> QED BY <1>3, <2>1, <2>2, SoundAppend
  <2>4. Between(Append(acc, x), Ids(nodes))
    <3>1. Append(acc, x)[Len(acc) + 1] = x /\ \A i \in 1 .. Len(acc) : Append(acc, x)[i] = acc[i]
      BY <1>1, AppendProperties
    <3>2. \A i \in 1 .. Len(acc) + 1 : i = Len(acc) + 1 \/ i \in 1 .. Len(acc)
      BY <1>1
    <3> QED BY <1>0, <1>3, <2>3, <3>1, <3>2 DEF Between
  <2> QED BY <1>1, <1>3, <2>3, <2>4 DEF KeptSound
<1> HIDE DEF new
<1>4. new = acc \/ \E x \in EdgeRec :
          /\ new = Append(acc, x) /\ x.id \notin Ids(acc) /\ {x.src, x.dst} \subseteq Ids(nodes)
          /\ \/ x.id = raw.id /\ raw # Blank
             \/ Suffix(x.id, <<"edge">>, 0, 1 + 2 * Cardinality(Ids(acc)))
  BY <1>1, KeepIs DEF new
<1> QED BY <1>2, <1>3, <1>4 DEF new

LEMMA EdgesSound ==
    ASSUME NEW d \in Nat, NEW nodes, NEW raw \in Seq(RawEdge), RawDated(raw, 0 .. d - 1)
    PROVE  KeptSound(KeptEdges(raw, nodes), nodes, d)
<1>1. PICK f : EdgesRun(raw, nodes, f)
  BY EdgesLoop
<1>2. Len(raw) \in Nat /\ \A i \in 1 .. Len(raw) : raw[i] \in RawEdge
  BY LenProperties
<1> DEFINE G == {k \in 0 .. Len(raw) : KeptSound(f[k], nodes, d)}
<1>3. 0 \in G
  <2>1. f[0] = <<>> /\ Len(<<>>) = 0 /\ 1 .. 0 = {}
    BY <1>1 DEF EdgesRun
  <2>2. KeptSound(<<>>, nodes, d)
    BY <2>1, NothingIsSound DEF KeptSound, Between
  <2> QED BY <1>2, <2>1, <2>2
<1>4. ASSUME NEW k \in 1 .. Len(raw), k - 1 \in G
      PROVE  k \in G
  <2>1. KeptSound(f[k - 1], nodes, d)
    BY <1>4
  <2>2. raw[k] \in RawEdge /\ (raw[k] # Blank => Dated(raw[k].id, 0 .. d - 1))
    BY <1>2 DEF RawDated
  <2>3. f[k] = KeepStep(f[k - 1], raw[k], nodes)
    BY <1>1 DEF EdgesRun
  <2>4. KeptSound(f[k], nodes, d)
    BY <2>1, <2>2, <2>3, EdgeStepSound
  <2> QED BY <1>2, <2>4
<1>5. Len(raw) \in G
  <2> HIDE DEF G
  <2>1. \A k \in 0 .. Len(raw) : k \in G
    BY <1>2, <1>3, <1>4, UpTo
  <2> QED BY <1>2, <2>1
<1> QED BY <1>1, <1>5 DEF EdgesRun

LEMMA FirstAndLast ==
    ASSUME NEW R, NEW s \in Seq(R), NEW I, I \subseteq 1 .. Len(s), I # {}
    PROVE  /\ \E i \in I : FirstOf(s, I) = s[i] /\ \A j \in I : i <= j
           /\ \E i \in I : LastOf(s, I) = s[i] /\ \A j \in I : i >= j
<1>1. Len(s) \in Nat /\ I \subseteq Nat
  BY LenProperties
<1>2. \E i \in I : \A j \in I : i <= j
  BY <1>1, LeastOf
<1>3. \E i \in I : \A j \in I : i >= j
  BY <1>1, MaxIn
<1> QED BY <1>2, <1>3 DEF FirstOf, LastOf

LEMMA NormalEdgesSound ==
    ASSUME NEW d \in Nat, NEW nodes \in Seq(NodeRec),
           OfType(nodes, "start") # {}, OfType(nodes, "end") # {},
           NEW raw \in Seq(RawEdge), RawDated(raw, 0 .. d - 1)
    PROVE  KeptSound(NormalEdges(raw, nodes), nodes, d)
<1> DEFINE kept == KeptEdges(raw, nodes)
           only == [ id |-> <<"e_start_end">>,
                     src |-> FirstOf(nodes, OfType(nodes, "start")).id,
                     dst |-> FirstOf(nodes, OfType(nodes, "end")).id,
                     cond |-> "" ]
<1>1. NormalEdges(raw, nodes) = IF kept # <<>> THEN kept ELSE <<only>>
  BY Zenon DEF NormalEdges, KeptEdges, KeepStep
<1>2. KeptSound(kept, nodes, d)
  BY EdgesSound
<1>3. only \in EdgeRec /\ {only.src, only.dst} \subseteq Ids(nodes) /\ only.id = <<"e_start_end">>
  <2>1. \A type : OfType(nodes, type) # {} => \E i \in 1 .. Len(nodes) : FirstOf(nodes, OfType(nodes, type)) = nodes[i]
    <3>1. \A type : OfType(nodes, type) \subseteq 1 .. Len(nodes)
      BY LenProperties DEF OfType
    <3> QED BY <3>1, FirstAndLast
  <2>2. \A i \in 1 .. Len(nodes) : nodes[i].id \in Ids(nodes) /\ nodes[i] \in NodeRec
    BY IdsAre, LenProperties
  <2>3. only.src \in Ids(nodes) /\ only.src \in Id
    BY <2>1, <2>2 DEF NodeRec
  <2>4. only.dst \in Ids(nodes) /\ only.dst \in Id
    BY <2>1, <2>2 DEF NodeRec
  <2>5. only.id \in Id /\ only.cond \in Cond
    BY DEF Id, Part, Cond, Port
  <2> QED BY <2>3, <2>4, <2>5 DEF EdgeRec, End
<1>4. KeptSound(<<only>>, nodes, d)
  <2> HIDE DEF only
  <2>1. <<only>> = Append(<<>>, only) /\ Len(<<only>>) = 1 /\ <<only>>[1] = only
    OBVIOUS
  <2>2. Dated(only.id, Numbers(d, 1))
    BY <1>3 DEF Dated
  <2>3. Sound(<<>>, EdgeRec, Numbers(d, 1)) /\ only.id \notin Ids(<<>>)
    BY NothingIsSound
  <2>4. Sound(<<only>>, EdgeRec, Numbers(d, Len(<<only>>)))
    <3>1. Sound(Append(<<>>, only), EdgeRec, Numbers(d, 1))
      BY <1>3, <2>2, <2>3, SoundAppend
    <3> QED BY <2>1, <3>1
  <2>5. Between(<<only>>, Ids(nodes))
    BY <1>3, <2>1 DEF Between
  <2> QED BY <2>4, <2>5 DEF KeptSound
<1> HIDE DEF only, kept
<1> QED BY <1>1, <1>2, <1>4

-----------------------------------------------------------------------------
(* New ids for recorded nodes and edges *)

RenameStep(acc, x) ==
    LET id == UniqueId(x.id, acc.used)
    IN  [ used |-> acc.used \union {id}, items |-> Append(acc.items, [x EXCEPT !.id = id]) ]

Renaming(items, used) == FoldLeft(RenameStep, [used |-> used, items |-> <<>>], items)

Renameable(R) ==
    \A x \in R : x.id \in Id /\ \A id \in Id : [x EXCEPT !.id = id] \in R /\ [x EXCEPT !.id = id].id = id

Renamings(R) == {a \in [used : SUBSET Id, items : Seq(R)] : IsFiniteSet(a.used)}

LEMMA RecordsRenameable == Renameable(NodeRec) /\ Renameable(EdgeRec)
<1>1. Renameable(NodeRec)
  BY DEF Renameable, NodeRec
<1>2. Renameable(EdgeRec)
  BY DEF Renameable, EdgeRec
<1> QED BY <1>1, <1>2

LEMMA NewIdOf ==
    ASSUME NEW R, Renameable(R), NEW x \in R, NEW used, IsFiniteSet(used),
           NEW D, 0 .. 2 + Cardinality(used) \subseteq D, Dated(x.id, D)
    PROVE  LET id == UniqueId(x.id, used)
           IN  /\ id \in Id /\ id \notin used /\ Dated(id, D)
               /\ [x EXCEPT !.id = id] \in R /\ [x EXCEPT !.id = id].id = id
<1> DEFINE id == UniqueId(x.id, used)
<1>1. x.id \in Seq(Part) /\ x.id \in Id /\ Nat \subseteq Part /\ Cardinality(used) \in Nat
  BY FS_CardinalityType DEF Renameable, Part, Id
<1>2. id \notin used /\ (id = x.id \/ Suffix(id, x.id, 2, 2 + Cardinality(used)))
  BY <1>1, UniqueIdIsFree
<1> HIDE DEF id
<1>3. CASE id = x.id
  BY <1>1, <1>2, <1>3 DEF Renameable, id
<1>4. CASE Suffix(id, x.id, 2, 2 + Cardinality(used))
  <2>1. 2 .. 2 + Cardinality(used) \subseteq D /\ 2 \in Nat /\ 2 + Cardinality(used) \in Nat
    BY <1>1
  <2>2. id \in Id /\ Dated(id, D)
    BY <1>1, <1>4, <2>1, SuffixIs
  <2> QED BY <1>2, <2>2 DEF Renameable, id
<1> QED BY <1>2, <1>3, <1>4 DEF id

LEMMA RenameIn ==
    ASSUME NEW R, Renameable(R), NEW acc \in Renamings(R), NEW x \in R
    PROVE  RenameStep(acc, x) \in Renamings(R)
<1> DEFINE id == UniqueId(x.id, acc.used)
<1>1. IsFiniteSet(acc.used) /\ acc.used \in SUBSET Id /\ acc.items \in Seq(R)
  BY DEF Renamings
<1>2. id \in Id /\ [x EXCEPT !.id = id] \in R
  <2>1. x.id \in Seq(Part) /\ x.id \in Id /\ Nat \subseteq Part /\ Cardinality(acc.used) \in Nat
    BY <1>1, FS_CardinalityType DEF Renameable, Part, Id
  <2>2. id = x.id \/ Suffix(id, x.id, 2, 2 + Cardinality(acc.used))
    BY <1>1, <2>1, UniqueIdIsFree
  <2>3. 2 \in Nat /\ 2 + Cardinality(acc.used) \in Nat
    BY <2>1
  <2>4. id \in Id
    <3> HIDE DEF id
    <3> QED BY <2>1, <2>2, <2>3, SuffixIs
  <2> HIDE DEF id
  <2> QED BY <2>4 DEF Renameable
<1>3. IsFiniteSet(acc.used \union {id})
  BY <1>1, FS_AddElement
<1>4. RenameStep(acc, x) = [ used |-> acc.used \union {id},
                             items |-> Append(acc.items, [x EXCEPT !.id = id]) ]
  BY Zenon DEF RenameStep
<1> HIDE DEF id
<1>5. Append(acc.items, [x EXCEPT !.id = id]) \in Seq(R)
  BY <1>1, <1>2, AppendProperties
<1>6. acc.used \union {id} \in SUBSET Id
  BY <1>1, <1>2
<1> DEFINE U == acc.used \union {id}
           L == Append(acc.items, [x EXCEPT !.id = id])
<1>7. RenameStep(acc, x) = [used |-> U, items |-> L] /\ IsFiniteSet(U) /\ U \in SUBSET Id /\ L \in Seq(R)
  BY <1>3, <1>4, <1>5, <1>6
<1> HIDE DEF U, L
<1> QED BY <1>7 DEF Renamings

RenamingRun(items, used, f) ==
    /\ f[0] = [used |-> used, items |-> <<>>]
    /\ f[Len(items)] = Renaming(items, used)
    /\ \A k \in 1 .. Len(items) : f[k] = RenameStep(f[k - 1], items[k])

LEMMA RenamingLoop ==
    ASSUME NEW R, Renameable(R), NEW items \in Seq(R), NEW used \in SUBSET Id, IsFiniteSet(used)
    PROVE  \E f : RenamingRun(items, used, f)
<1> DEFINE n == Len(items)
           X == Renamings(R)
           step == [p \in (1 .. n) \X X |-> RenameStep(p[2], items[p[1]])]
           Fits(iter) == iter = [S \in SUBSET DOMAIN items |->
                                    IF S = {} THEN [used |-> used, items |-> <<>>]
                                    ELSE RenameStep(iter[S \ {Max(S)}], items[Max(S)])]
           it == CHOOSE iter : Fits(iter)
<1>1. n \in Nat /\ DOMAIN items = 1 .. n /\ \A i \in 1 .. n : items[i] \in R
  BY LenProperties
<1>2. StepsIn(step, n, X)
  <2>1. \A i \in 1 .. n, x \in X : RenameStep(x, items[i]) \in X
    BY <1>1, RenameIn
  <2> HIDE DEF X
  <2> QED BY <2>1 DEF StepsIn
<1>3. Renaming(items, used) = it[1 .. n]
  <2>1. Renaming(items, used) = it[DOMAIN items]
    BY Zenon DEF Renaming, FoldLeft, MapThenFoldSet
  <2> HIDE DEF it
  <2> QED BY <1>1, <2>1
<1>4. PICK g : Fits(g)
  <2>1. [used |-> used, items |-> <<>>] \in X
    BY EmptySeq DEF Renamings
  <2>2. PICK g \in [SUBSET (1 .. n) -> X] : FoldsUp(g, n, [used |-> used, items |-> <<>>], step)
    <3> HIDE DEF X, step
    <3> QED BY <1>1, <1>2, <2>1, FoldExists DEF FoldHas
  <2>3. ASSUME NEW S \in SUBSET (1 .. n), S # {}
        PROVE  Max(S) \in 1 .. n /\ S \ {Max(S)} \in SUBSET (1 .. n)
    BY <1>1, <2>3, MaxIn
  <2>4. \A S \in SUBSET (1 .. n) :
           g[S] = IF S = {} THEN [used |-> used, items |-> <<>>]
                  ELSE RenameStep(g[S \ {Max(S)}], items[Max(S)])
    <3>1. \A S \in SUBSET (1 .. n) : S # {} =>
             step[<<Max(S), g[S \ {Max(S)}]>>] = RenameStep(g[S \ {Max(S)}], items[Max(S)])
      <4>1. \A S \in SUBSET (1 .. n) : S # {} => g[S \ {Max(S)}] \in X
        <5> HIDE DEF X, step
        <5> QED BY <2>2, <2>3
      <4> HIDE DEF X
      <4> QED BY <2>3, <4>1
    <3> HIDE DEF X, step
    <3> QED BY <2>2, <3>1 DEF FoldsUp
  <2>5. Fits(g)
    <3> HIDE DEF X
    <3> QED BY <1>1, <2>2, <2>4
  <2> QED BY <2>5
<1>5. Fits(it)
  <2> HIDE DEF Fits
  <2> QED BY <1>4
<1>6. /\ it[1 .. 0] = [used |-> used, items |-> <<>>]
      /\ \A k \in 1 .. n : it[1 .. k] = RenameStep(it[1 .. (k - 1)], items[k])
  <2>1. it[{}] = [used |-> used, items |-> <<>>]
    <3> HIDE DEF it
    <3> QED BY <1>5
  <2>2. ASSUME NEW k \in 1 .. n
        PROVE  it[1 .. k] = RenameStep(it[1 .. (k - 1)], items[k])
    <3>1. 1 .. k \in SUBSET (1 .. n)
      BY <1>1
    <3>2. k \in Nat /\ 1 .. k # {} /\ Max(1 .. k) = k /\ (1 .. k) \ {k} = 1 .. (k - 1)
      BY <1>1, LastOfInterval
    <3>3. it[1 .. k] = RenameStep(it[(1 .. k) \ {Max(1 .. k)}], items[Max(1 .. k)])
      <4> HIDE DEF it
      <4> QED BY <1>1, <1>5, <3>1, <3>2
    <3> HIDE DEF it
    <3> QED BY <3>2, <3>3
  <2>3. 1 .. 0 = {}
    OBVIOUS
  <2> HIDE DEF it
  <2> QED BY <2>1, <2>2, <2>3
<1> DEFINE f == [k \in 0 .. n |-> it[1 .. k]]
<1>7. f[0] = [used |-> used, items |-> <<>>] /\ f[n] = Renaming(items, used)
  <2> HIDE DEF it
  <2> QED BY <1>1, <1>3, <1>6
<1>8. \A k \in 1 .. n : f[k] = RenameStep(f[k - 1], items[k])
  <2> HIDE DEF it
  <2> QED BY <1>1, <1>6
<1> HIDE DEF f
<1> QED BY <1>7, <1>8 DEF RenamingRun

\* After k items: what is in use, and the items themselves but for their ids.
RenamedUpTo(a, R, items, used, D, k) ==
    /\ a.used = used \union Ids(a.items) /\ Ids(a.items) \cap used = {}
    /\ Sound(a.items, R, D) /\ Len(a.items) = k
    /\ \A m \in 1 .. k : a.items[m] = [items[m] EXCEPT !.id = a.items[m].id]

RoomFor(items, used, D) ==
    /\ 0 .. 2 + Cardinality(used) + Len(items) \subseteq D
    /\ \A i \in 1 .. Len(items) : Dated(items[i].id, D)

LEMMA RenameStepSound ==
    ASSUME NEW R, Renameable(R), NEW items \in Seq(R), NEW used, IsFiniteSet(used),
           NEW D, RoomFor(items, used, D),
           NEW k \in 1 .. Len(items), NEW a, RenamedUpTo(a, R, items, used, D, k - 1)
    PROVE  RenamedUpTo(RenameStep(a, items[k]), R, items, used, D, k)
<1> DEFINE x == items[k]
           id == UniqueId(x.id, a.used)
           y == [x EXCEPT !.id = id]
           b == RenameStep(a, x)
<1>1. Len(items) \in Nat /\ x \in R /\ k \in Nat /\ Dated(x.id, D)
  BY LenProperties DEF RoomFor
<1>2. /\ a.used = used \union Ids(a.items) /\ Ids(a.items) \cap used = {}
      /\ Sound(a.items, R, D) /\ Len(a.items) = k - 1 /\ a.items \in Seq(R)
  BY DEF RenamedUpTo, Sound
<1>3. IsFiniteSet(a.used) /\ Cardinality(a.used) <= Cardinality(used) + (k - 1)
         /\ Cardinality(a.used) \in Nat
  <2>1. /\ IsFiniteSet(Ids(a.items)) /\ Cardinality(Ids(a.items)) \in Nat
        /\ Cardinality(Ids(a.items)) <= k - 1
    BY <1>2, IdsFinite
  <2>2. used \cap Ids(a.items) = {} /\ Cardinality({}) = 0
    BY <1>2, FS_EmptySet
  <2>3. Cardinality(used) \in Nat
    BY FS_CardinalityType
  <2>4. /\ IsFiniteSet(used \union Ids(a.items))
        /\ Cardinality(used \union Ids(a.items)) =
              Cardinality(used) + Cardinality(Ids(a.items)) - Cardinality({})
    BY <2>1, <2>2, FS_Union
  <2> QED BY <1>1, <1>2, <2>1, <2>2, <2>3, <2>4
<1>4. 0 .. 2 + Cardinality(a.used) \subseteq D
  <2>1. Cardinality(used) \in Nat
    BY FS_CardinalityType
  <2>2. 2 + Cardinality(a.used) <= 2 + Cardinality(used) + Len(items)
    BY <1>1, <1>3, <2>1
  <2>3. \A n \in 0 .. 2 + Cardinality(a.used) : n \in 0 .. 2 + Cardinality(used) + Len(items)
    BY <1>1, <1>3, <2>1, <2>2
  <2> QED BY <2>3 DEF RoomFor
<1> HIDE DEF x
<1>5. id \in Id /\ id \notin a.used /\ Dated(id, D) /\ y \in R /\ y.id = id
  BY <1>1, <1>3, <1>4, NewIdOf
<1>6. b.used = a.used \union {id} /\ b.items = Append(a.items, y)
  BY DEF RenameStep
<1> HIDE DEF y, id, b
<1>7. y = [x EXCEPT !.id = y.id]
  BY <1>5 DEF y
<1>8. Sound(b.items, R, D) /\ Ids(b.items) = Ids(a.items) \union {id} /\ Len(b.items) = k
  <2>1. y.id \notin Ids(a.items) /\ Dated(y.id, D)
    BY <1>2, <1>5
  <2>2. /\ Sound(Append(a.items, y), R, D) /\ Ids(Append(a.items, y)) = Ids(a.items) \union {y.id}
        /\ Len(Append(a.items, y)) = Len(a.items) + 1
    BY <1>2, <1>5, <2>1, SoundAppend
  <2> QED BY <1>1, <1>2, <1>5, <1>6, <2>2
<1>9. b.used = used \union Ids(b.items) /\ Ids(b.items) \cap used = {}
  BY <1>2, <1>5, <1>6, <1>8
<1>10. \A m \in 1 .. k : b.items[m] = [items[m] EXCEPT !.id = b.items[m].id]
  <2>1. b.items[k] = y /\ \A m \in 1 .. (k - 1) : b.items[m] = a.items[m]
    <3>1. Append(a.items, y)[Len(a.items) + 1] = y /\ \A m \in 1 .. Len(a.items) : Append(a.items, y)[m] = a.items[m]
      BY <1>2, <1>5, AppendProperties
    <3>2. Len(a.items) + 1 = k
      BY <1>1, <1>2
    <3> QED BY <1>2, <1>6, <3>1, <3>2
  <2>2. \A m \in 1 .. (k - 1) : a.items[m] = [items[m] EXCEPT !.id = a.items[m].id]
    BY DEF RenamedUpTo
  <2>3. \A m \in 1 .. k : m = k \/ m \in 1 .. (k - 1)
    BY <1>1
  <2>4. items[k] = x
    BY DEF x
  <2> QED BY <1>7, <2>1, <2>2, <2>3, <2>4
<1> QED BY <1>8, <1>9, <1>10 DEF RenamedUpTo, b, x

\* The recorded nodes, or edges, in their order, under ids that are free.
RenamedAs(new, R, items, used, D) ==
    /\ Sound(new, R, D) /\ Ids(new) \cap used = {}
    /\ Len(new) = Len(items)
    /\ \A m \in 1 .. Len(items) : new[m] = [items[m] EXCEPT !.id = new[m].id]

LEMMA RenamedAre ==
    ASSUME NEW R, Renameable(R), NEW items \in Seq(R), NEW used \in SUBSET Id, IsFiniteSet(used),
           NEW D, RoomFor(items, used, D)
    PROVE  RenamedAs(Renamed(items, used), R, items, used, D)
<1>1. PICK f : RenamingRun(items, used, f)
  BY RenamingLoop
<1>2. Len(items) \in Nat
  BY LenProperties
<1> DEFINE G == {k \in 0 .. Len(items) : RenamedUpTo(f[k], R, items, used, D, k)}
<1>3. 0 \in G
  <2>1. f[0].used = used /\ f[0].items = <<>> /\ 1 .. 0 = {} /\ Len(<<>>) = 0
    BY <1>1 DEF RenamingRun
  <2>2. RenamedUpTo(f[0], R, items, used, D, 0)
    BY <2>1, NothingIsSound DEF RenamedUpTo
  <2> QED BY <1>2, <2>2
<1>4. ASSUME NEW k \in 1 .. Len(items), k - 1 \in G
      PROVE  k \in G
  <2>1. RenamedUpTo(f[k - 1], R, items, used, D, k - 1)
    BY <1>4
  <2>2. f[k] = RenameStep(f[k - 1], items[k])
    BY <1>1 DEF RenamingRun
  <2>3. RenamedUpTo(f[k], R, items, used, D, k)
    BY <2>1, <2>2, RenameStepSound
  <2> QED BY <1>2, <2>3
<1>5. Len(items) \in G
  <2> HIDE DEF G
  <2>1. \A k \in 0 .. Len(items) : k \in G
    BY <1>2, <1>3, <1>4, UpTo
  <2> QED BY <1>2, <2>1
<1>6. Renamed(items, used) = f[Len(items)].items
  <2>1. Renamed(items, used) = Renaming(items, used).items
    BY Zenon DEF Renamed, Renaming, RenameStep, FoldLeft, MapThenFoldSet
  <2> QED BY <1>1, <2>1 DEF RenamingRun
<1>7. RenamedUpTo(f[Len(items)], R, items, used, D, Len(items))
  BY <1>5
<1> QED BY <1>6, <1>7 DEF RenamedUpTo, RenamedAs

-----------------------------------------------------------------------------
(* The inductive invariant *)

FlowSound(f, D) ==
    /\ f = [nodes |-> f.nodes, edges |-> f.edges]
    /\ Sound(f.nodes, NodeRec, D) /\ Sound(f.edges, EdgeRec, D)
    /\ Between(f.edges, Ids(f.nodes))

WithinBounds(f) == Len(f.nodes) <= MaxNodes /\ Len(f.edges) <= MaxEdges

\* Besides what FlowIntact says: the numbers in ids are older than the next
\* operation, and the selected node is one of the flow.
IInv ==
    /\ FlowSound(flow, 0 .. Time - 1)
    /\ WithinBounds(flow)
    /\ now \in Nat
    /\ selectedNode = None \/ selectedNode \in Ids(flow.nodes)

\* The numbers an operation may put in ids.
Soon == 0 .. Time + Gap - 1

LEMMA Clock ==
    ASSUME now \in Nat
    PROVE  /\ Time \in Nat /\ Time >= Gap /\ Gap \in Nat /\ Gap >= 2
           /\ MaxNodes \in Nat /\ MaxEdges \in Nat
           /\ 1 + 2 * MaxNodes < Gap /\ 1 + 2 * MaxEdges < Gap
<1>1. /\ MaxNodes \in Nat /\ MaxEdges \in Nat /\ Gap \in Nat
      /\ 1 + 2 * MaxNodes < Gap /\ 1 + 2 * MaxEdges < Gap
  BY EditorAssumption
<1>2. Time = Gap * now + Gap /\ Gap * now \in Nat
  BY <1>1 DEF Time
<1> QED BY <1>1, <1>2

LEMMA IntactFlow ==
    ASSUME NEW f, NEW D, FlowSound(f, D)
    PROVE  Joined(f) /\ Distinct(f.nodes) /\ Distinct(f.edges)
<1>1. f.edges \in Seq(EdgeRec) /\ DOMAIN f.edges = 1 .. Len(f.edges)
  BY LenProperties DEF FlowSound, Sound
<1> QED BY <1>1 DEF FlowSound, Sound, Between, Joined

\* An operation that makes a sound flow keeps the invariant.
LEMMA Becoming ==
    ASSUME IInv, NEW f, NEW node, NEW edge, Become(f, node, edge), FlowSound(f, Soon)
    PROVE  IInv'
<1>1. now' = now + 1 /\ now \in Nat /\ flow' = f /\ WithinBounds(f)
  BY DEF Become, IInv, WithinBounds
<1>2. selectedNode' = None \/ selectedNode' \in Ids(f.nodes)
  BY DEF Become
<1>3. Time' - 1 = Time + Gap - 1
  <2>1. Gap \in Nat
    BY EditorAssumption
  <2>2. Gap * (now + 1 + 1) = Gap * (now + 1) + Gap
    BY <1>1, <2>1
  <2>3. Time' = Gap * (now + 1 + 1)
    BY <1>1 DEF Time
  <2> QED BY <1>1, <2>1, <2>2, <2>3 DEF Time
<1>4. FlowSound(f, 0 .. Time' - 1)
  BY <1>3 DEF Soon
<1>5. FlowSound(flow, 0 .. Time - 1)'
  BY <1>1, <1>4
<1>6. WithinBounds(flow)' /\ now' \in Nat /\ (selectedNode = None \/ selectedNode \in Ids(flow.nodes))'
  BY <1>1, <1>2
<1> QED BY <1>5, <1>6 DEF IInv

\* What the invariant says of the parts of the flow.
LEMMA Parts ==
    ASSUME IInv
    PROVE  /\ flow.nodes \in Seq(NodeRec) /\ Len(flow.nodes) \in Nat /\ DOMAIN flow.nodes = 1 .. Len(flow.nodes)
           /\ flow.edges \in Seq(EdgeRec) /\ Len(flow.edges) \in Nat /\ DOMAIN flow.edges = 1 .. Len(flow.edges)
           /\ Sound(flow.nodes, NodeRec, 0 .. Time - 1) /\ Sound(flow.edges, EdgeRec, 0 .. Time - 1)
           /\ Between(flow.edges, Ids(flow.nodes))
           /\ flow = [nodes |-> flow.nodes, edges |-> flow.edges]
           /\ now \in Nat
BY LenProperties DEF IInv, FlowSound, Sound

LEMMA NodeIdsAre ==
    ASSUME NEW s \in Seq(NodeRec)
    PROVE  Ids(s) \subseteq Id
<1>1. \A i \in 1 .. Len(s) : s[i] \in NodeRec
  BY LenProperties
<1>2. \A i \in 1 .. Len(s) : s[i].id \in Id
  BY <1>1 DEF NodeRec
<1> QED BY <1>2, IdsAre

LEMMA EdgesOfFlow ==
    ASSUME IInv, NEW i \in 1 .. Len(flow.edges)
    PROVE  /\ flow.edges[i] \in EdgeRec /\ flow.edges[i].cond \in Cond
           /\ flow.edges[i].src \in Ids(flow.nodes) /\ flow.edges[i].dst \in Ids(flow.nodes)
<1>1. flow.edges[i] \in EdgeRec
  BY Parts, LenProperties
<1>2. flow.edges[i].cond \in Cond
  BY <1>1 DEF EdgeRec
<1> QED BY <1>1, <1>2, Parts DEF Between

\* An id of now is not one of the flow.
LEMMA NewIds ==
    ASSUME NEW R, NEW s, NEW t \in Nat, Sound(s, R, 0 .. t - 1), NEW x, NEW n, n \notin 0 .. t - 1
    PROVE  <<x, n>> \notin Ids(s)
<1>1. Len(<<x, n>>) = 2 /\ <<x, n>>[2] = n
  OBVIOUS
<1>2. s \in Seq(R) /\ \A i \in 1 .. Len(s) : Dated(s[i].id, 0 .. t - 1)
  BY DEF Sound
<1>3. \A i \in 1 .. Len(s) : s[i].id # <<x, n>>
  BY <1>1, <1>2 DEF Dated
<1> QED BY <1>2, <1>3, IdsAre

LEMMA NewIdIs ==
    ASSUME NEW x \in Part, NEW n \in Nat, NEW D, n \in D
    PROVE  <<x, n>> \in Id /\ Dated(<<x, n>>, D)
<1>1. Nat \subseteq Part
  BY DEF Part
<1>2. <<x, n>> \in Seq(Part) /\ <<x, n>>[2] = n
  BY <1>1
<1> QED BY <1>2 DEF Id, Dated

\* Elements that change all but their ids.
LEMMA SoundMapped ==
    ASSUME NEW R, NEW D, NEW s, Sound(s, R, D), NEW t \in Seq(R), Len(t) = Len(s),
           \A i \in 1 .. Len(s) : t[i].id = s[i].id
    PROVE  Sound(t, R, D) /\ Ids(t) = Ids(s)
<1>1. s \in Seq(R) /\ DOMAIN s = 1 .. Len(s) /\ DOMAIN t = 1 .. Len(s)
  BY LenProperties DEF Sound
<1>2. Ids(t) = Ids(s)
  BY <1>1 DEF Ids
<1>3. Distinct(t)
  BY <1>1 DEF Sound, Distinct
<1>4. \A i \in 1 .. Len(t) : Dated(t[i].id, D)
  BY DEF Sound
<1> QED BY <1>2, <1>3, <1>4 DEF Sound

LEMMA BetweenPlaces ==
    ASSUME NEW s \in Seq(EdgeRec), NEW N, Between(s, N), NEW I
    PROVE  Between(Places(s, I), N)
BY PlacesKeep DEF Between

LEMMA BetweenAppend ==
    ASSUME NEW s \in Seq(EdgeRec), NEW N, Between(s, N), NEW x \in EdgeRec, x.src \in N, x.dst \in N
    PROVE  Between(Append(s, x), N)
<1>1. /\ Len(Append(s, x)) = Len(s) + 1 /\ Len(s) \in Nat
      /\ Append(s, x)[Len(s) + 1] = x /\ \A i \in 1 .. Len(s) : Append(s, x)[i] = s[i]
  BY AppendProperties, LenProperties
<1>2. \A i \in 1 .. Len(s) + 1 : i = Len(s) + 1 \/ i \in 1 .. Len(s)
  BY <1>1
<1> QED BY <1>1, <1>2 DEF Between

-----------------------------------------------------------------------------
(* The parts of operations *)

\* Edges in the making: those an operation has made are numbered upwards from
\* its time, as many as there are edges at most.
Growing(edges, N) == Sound(edges, EdgeRec, 0 .. Time + Len(edges) - 1) /\ Between(edges, N)

LEMMA GrowsFrom ==
    ASSUME now \in Nat, NEW edges, Sound(edges, EdgeRec, 0 .. Time - 1),
           NEW N, NEW M, Between(edges, N), N \subseteq M
    PROVE  Growing(edges, M)
<1>1. Len(edges) \in Nat /\ Time \in Nat
  BY Clock, LenProperties DEF Sound
<1>2. 0 .. Time - 1 \subseteq 0 .. Time + Len(edges) - 1
  BY <1>1
<1>3. Sound(edges, EdgeRec, 0 .. Time + Len(edges) - 1)
  BY <1>2, SoundGrows
<1>4. Between(edges, M)
  BY DEF Between
<1> QED BY <1>3, <1>4 DEF Growing

LEMMA GrownSoon ==
    ASSUME now \in Nat, NEW edges, NEW N, Growing(edges, N), Len(edges) <= MaxEdges
    PROVE  Sound(edges, EdgeRec, Soon) /\ Between(edges, N)
<1>1. /\ Len(edges) \in Nat /\ Time \in Nat /\ Gap \in Nat /\ MaxEdges \in Nat
      /\ 1 + 2 * MaxEdges < Gap
  BY Clock, LenProperties DEF Growing, Sound
<1>2. 0 .. Time + Len(edges) - 1 \subseteq Soon
  BY <1>1 DEF Soon
<1> QED BY <1>2, SoundGrows DEF Growing

LEMMA AppendEdgeGrows ==
    ASSUME now \in Nat, NEW edges, NEW N, N \subseteq Id, Growing(edges, N),
           NEW src \in N, NEW dst \in N, NEW cond \in Cond
    PROVE  Growing(AppendEdge(edges, src, dst, cond), N)
<1> DEFINE n == Time + Len(edges)
           x == CreateEdge(src, dst, n, cond)
<1>1. edges \in Seq(EdgeRec) /\ Len(edges) \in Nat /\ Time \in Nat /\ n \in Nat
  BY Clock, LenProperties DEF Growing, Sound
<1>2. AppendEdge(edges, src, dst, cond) = edges \/ AppendEdge(edges, src, dst, cond) = Append(edges, x)
  BY Zenon DEF AppendEdge
<1>3. Growing(Append(edges, x), N)
  <2>1. n \in 0 .. n /\ "edge" \in Part /\ n \notin 0 .. n - 1
    BY <1>1 DEF Part
  <2> HIDE DEF n
  <2>2. <<"edge", n>> \in Id /\ Dated(<<"edge", n>>, 0 .. n)
    BY <1>1, <2>1, NewIdIs
  <2>3. Sound(edges, EdgeRec, 0 .. n - 1) /\ Between(edges, N)
    <3>1. Sound(edges, EdgeRec, 0 .. Time + Len(edges) - 1) /\ Between(edges, N)
      BY DEF Growing
    <3>2. n - 1 = Time + Len(edges) - 1
      BY <1>1 DEF n
    <3> QED BY <3>1, <3>2
  <2>4. <<"edge", n>> \notin Ids(edges)
    BY <1>1, <2>1, <2>3, NewIds
  <2>5. x \in EdgeRec /\ x.id = <<"edge", n>> /\ x.src = src /\ x.dst = dst
    BY <2>2 DEF CreateEdge, EdgeRec, End
  <2>6. Sound(edges, EdgeRec, 0 .. n)
    <3>1. 0 .. n - 1 \subseteq 0 .. n
      BY <1>1
    <3> QED BY <2>3, <3>1, SoundGrows
  <2> HIDE DEF x
  <2>7. Sound(Append(edges, x), EdgeRec, 0 .. n) /\ Len(Append(edges, x)) = Len(edges) + 1
    BY <2>2, <2>4, <2>5, <2>6, SoundAppend
  <2>8. Between(Append(edges, x), N)
    BY <1>1, <2>3, <2>5, BetweenAppend
  <2>9. Time + (Len(edges) + 1) - 1 = n
    BY <1>1 DEF n
  <2> QED BY <2>7, <2>8, <2>9 DEF Growing
<1> HIDE DEF x
<1> QED BY <1>2, <1>3

\* The flow with one more node, made now.
LEMMA NodeAdded ==
    ASSUME IInv, NEW type \in Types
    PROVE  LET id == <<type, Time>>
               new == Append(flow.nodes, NewNode(id, type))
           IN  /\ Sound(new, NodeRec, Soon)
               /\ Ids(new) = Ids(flow.nodes) \union {id}
               /\ Ids(new) \subseteq Id
<1> DEFINE id == <<type, Time>>
           x == NewNode(id, type)
           new == Append(flow.nodes, x)
<1>1. Time \in Nat /\ Gap \in Nat /\ Gap >= 2 /\ type \in Part /\ type \in NodeType
  BY Parts, Clock DEF Part, NodeType
<1>2. Time \in Soon /\ Time \notin 0 .. Time - 1 /\ 0 .. Time - 1 \subseteq Soon
  BY <1>1 DEF Soon
<1>3. id \in Id /\ Dated(id, Soon)
  BY <1>1, <1>2, NewIdIs
<1>4. id \notin Ids(flow.nodes)
  BY <1>1, <1>2, Parts, NewIds
<1> HIDE DEF id
<1>5. x \in NodeRec /\ x.id = id
  BY <1>1, <1>3 DEF NewNode, NodeRec, CasesOf
<1> HIDE DEF x
<1>6. Sound(flow.nodes, NodeRec, Soon)
  BY <1>2, Parts, SoundGrows
<1>7. Sound(new, NodeRec, Soon) /\ Ids(new) = Ids(flow.nodes) \union {x.id}
  BY <1>3, <1>4, <1>5, <1>6, SoundAppend
<1>8. Ids(new) \subseteq Id
  BY <1>7, NodeIdsAre DEF Sound
<1> QED BY <1>5, <1>7, <1>8 DEF x, id

\* A flow made of sound nodes and grown edges.
LEMMA FlowMade ==
    ASSUME now \in Nat, NEW nodes, NEW edges, Sound(nodes, NodeRec, Soon),
           Growing(edges, Ids(nodes)), Len(edges) <= MaxEdges
    PROVE  FlowSound([nodes |-> nodes, edges |-> edges], Soon)
BY GrownSoon DEF FlowSound

LEMMA BecomeBounds ==
    ASSUME NEW f, NEW node, NEW edge, Become(f, node, edge)
    PROVE  Len(f.nodes) <= MaxNodes /\ Len(f.edges) <= MaxEdges
BY DEF Become

\* The edges but one, or but those at some places.
LEMMA EdgesWithout ==
    ASSUME IInv, NEW M, Ids(flow.nodes) \subseteq M, NEW I
    PROVE  Growing(flow.edges, M) /\ Growing(Places(flow.edges, I), M)
<1>1. Sound(flow.edges, EdgeRec, 0 .. Time - 1) /\ Between(flow.edges, Ids(flow.nodes)) /\ now \in Nat
         /\ flow.edges \in Seq(EdgeRec)
  BY Parts
<1>2. Sound(Places(flow.edges, I), EdgeRec, 0 .. Time - 1)
  BY <1>1, SoundPlaces
<1>3. Between(Places(flow.edges, I), Ids(flow.nodes))
  BY <1>1, BetweenPlaces
<1> QED BY <1>1, <1>2, <1>3, GrowsFrom

LEMMA EdgeWithout ==
    ASSUME IInv, NEW M, Ids(flow.nodes) \subseteq M, NEW id
    PROVE  Growing(Without(flow.edges, id), M)
BY EdgesWithout DEF Without

LEMMA FirstEndIs ==
    ASSUME IInv
    PROVE  FirstEnd = None \/ FirstEnd \in Ids(flow.nodes)
<1> DEFINE I == OfType(flow.nodes, "end")
<1>1. I \subseteq 1 .. Len(flow.nodes) /\ flow.nodes \in Seq(NodeRec)
  BY Parts DEF OfType
<1>2. CASE I = {}
  BY <1>2 DEF FirstEnd
<1>3. CASE I # {}
  <2>1. FirstEnd = FirstOf(flow.nodes, I).id
    BY <1>3 DEF FirstEnd
  <2> HIDE DEF I
  <2>2. \E i \in 1 .. Len(flow.nodes) : FirstOf(flow.nodes, I) = flow.nodes[i]
    BY <1>1, <1>3, FirstAndLast
  <2> QED BY <1>1, <2>1, <2>2, IdsAre
<1> QED BY <1>2, <1>3

LEMMA AnchorIs ==
    ASSUME IInv
    PROVE  AnchorNode = None \/ AnchorNode \in Ids(flow.nodes)
<1> DEFINE I == {i \in DOMAIN flow.nodes : flow.nodes[i].type # "end"}
<1>1. I \subseteq 1 .. Len(flow.nodes) /\ flow.nodes \in Seq(NodeRec)
  BY Parts
<1>2. I # {} => LastOf(flow.nodes, I).id \in Ids(flow.nodes)
  <2> HIDE DEF I
  <2> SUFFICES ASSUME I # {}
               PROVE  LastOf(flow.nodes, I).id \in Ids(flow.nodes)
    OBVIOUS
  <2>1. \E i \in 1 .. Len(flow.nodes) : LastOf(flow.nodes, I) = flow.nodes[i]
    BY <1>1, FirstAndLast
  <2> QED BY <1>1, <2>1, IdsAre
<1>3. \/ AnchorNode = selectedNode /\ selectedNode # None
      \/ AnchorNode = None
      \/ I # {} /\ AnchorNode = LastOf(flow.nodes, I).id
  BY Zenon DEF AnchorNode
<1> HIDE DEF I
<1> QED BY <1>2, <1>3 DEF IInv

LEMMA FirstOutgoing ==
    ASSUME IInv, NEW I, I \subseteq 1 .. Len(flow.edges), I # {}
    PROVE  /\ FirstOf(flow.edges, I).dst \in Ids(flow.nodes)
           /\ FirstOf(flow.edges, I).cond \in Cond
<1>1. \E i \in 1 .. Len(flow.edges) : FirstOf(flow.edges, I) = flow.edges[i]
  BY Parts, FirstAndLast
<1> QED BY <1>1, EdgesOfFlow

LEMMA PreferredIs ==
    ASSUME IInv, NEW anchor, Outgoing(flow, anchor) # {}
    PROVE  /\ PreferredOutgoing(anchor).dst \in Ids(flow.nodes)
           /\ PreferredOutgoing(anchor).cond \in Cond
<1> DEFINE toEnd == {i \in Outgoing(flow, anchor) : flow.edges[i].dst = FirstEnd}
           I == IF toEnd # {} THEN toEnd ELSE Outgoing(flow, anchor)
<1>1. Outgoing(flow, anchor) \subseteq 1 .. Len(flow.edges)
  BY Parts DEF Outgoing
<1>2. I \subseteq 1 .. Len(flow.edges) /\ I # {}
  BY <1>1
<1>3. PreferredOutgoing(anchor) = FirstOf(flow.edges, I)
  BY Zenon DEF PreferredOutgoing
<1> HIDE DEF I
<1> QED BY <1>2, <1>3, FirstOutgoing

-----------------------------------------------------------------------------
(* Each operation keeps the invariant *)

LEMMA AddNodeKeeps ==
    ASSUME IInv, NEW type \in Types, AddNode(type)
    PROVE  IInv'
<1> DEFINE id == <<type, Time>>
           nodes == Append(flow.nodes, NewNode(id, type))
           N == Ids(nodes)
           edges == EdgesWithNode(id, type)
           f == [nodes |-> nodes, edges |-> edges]
<1>1. now \in Nat
  BY Parts
<1>2. Sound(nodes, NodeRec, Soon) /\ N = Ids(flow.nodes) \union {id} /\ N \subseteq Id
  BY NodeAdded
<1>3. "" \in Cond
  BY DEF Cond, Port
<1> HIDE DEF nodes
<1>4. \A M : Ids(flow.nodes) \subseteq M => Growing(flow.edges, M) /\ \A e : Growing(Without(flow.edges, e), M)
  BY EdgesWithout, EdgeWithout
<1>5. id \in N /\ Ids(flow.nodes) \subseteq N
  BY <1>2
<1> HIDE DEF N
<1>6. Growing(edges, N)
  <2> DEFINE behind == AppendEdge(flow.edges, AnchorNode, id, "")
             split == PreferredOutgoing(AnchorNode)
             out == Outgoing(flow, AnchorNode)
             before == AppendEdge(Without(flow.edges, split.id), AnchorNode, id, "")
  <2>1. FirstEnd # None => FirstEnd \in N
    BY <1>5, FirstEndIs
  <2>2. AnchorNode # None => AnchorNode \in N
    BY <1>5, AnchorIs
  <2>3. FirstEnd # None => Growing(AppendEdge(flow.edges, id, FirstEnd, ""), N)
    BY <1>1, <1>2, <1>3, <1>4, <1>5, <2>1, AppendEdgeGrows
  <2>4. AnchorNode # None => Growing(behind, N)
    BY <1>1, <1>2, <1>3, <1>4, <1>5, <2>2, AppendEdgeGrows
  <2>5. AnchorNode # None /\ out # {} => Growing(AppendEdge(before, id, split.dst, split.cond), N)
    <3> SUFFICES ASSUME AnchorNode # None, out # {}
                 PROVE  Growing(AppendEdge(before, id, split.dst, split.cond), N)
      OBVIOUS
    <3>1. split.dst \in N /\ split.cond \in Cond
      BY <1>5, PreferredIs
    <3> HIDE DEF split
    <3>2. Growing(before, N)
      BY <1>1, <1>2, <1>3, <1>4, <1>5, <2>2, AppendEdgeGrows
    <3> HIDE DEF before
    <3> QED BY <1>1, <1>2, <1>5, <3>1, <3>2, AppendEdgeGrows
  <2>6. AnchorNode # None /\ FirstEnd # None => Growing(AppendEdge(behind, id, FirstEnd, ""), N)
    <3> HIDE DEF behind
    <3> QED BY <1>1, <1>2, <1>3, <1>5, <2>1, <2>4, AppendEdgeGrows
  <2>7. \/ edges = flow.edges
        \/ FirstEnd # None /\ edges = AppendEdge(flow.edges, id, FirstEnd, "")
        \/ AnchorNode # None /\ edges = behind
        \/ AnchorNode # None /\ out # {} /\ edges = AppendEdge(before, id, split.dst, split.cond)
        \/ AnchorNode # None /\ FirstEnd # None /\ edges = AppendEdge(behind, id, FirstEnd, "")
    <3>1. AnchorNode = None => edges = IF type # "end" /\ FirstEnd # None
                                  THEN AppendEdge(flow.edges, id, FirstEnd, "") ELSE flow.edges
      BY Zenon DEF EdgesWithNode
    <3>2. AnchorNode # None /\ type = "end" => edges = behind
      BY Zenon DEF EdgesWithNode
    <3>3. AnchorNode # None /\ type # "end" /\ out # {} =>
             edges = AppendEdge(before, id, split.dst, split.cond)
      BY Zenon DEF EdgesWithNode
    <3>4. AnchorNode # None /\ type # "end" /\ out = {} =>
             edges = IF FirstEnd # None THEN AppendEdge(behind, id, FirstEnd, "") ELSE behind
      BY Zenon DEF EdgesWithNode
    <3> HIDE DEF edges, behind, before, split, out
    <3> QED BY <3>1, <3>2, <3>3, <3>4, Zenon
  <2> HIDE DEF edges, behind, before, split, out
  <2> QED BY <1>4, <1>5, <2>3, <2>4, <2>5, <2>6, <2>7
<1>7. Become(f, id, None)
  <2>1. NewNode(id, type).id = id
    BY DEF NewNode
  <2>2. Become([nodes |-> nodes, edges |-> EdgesWithNode(NewNode(id, type).id, type)],
               NewNode(id, type).id, None)
    BY Zenon DEF AddNode, nodes
  <2> QED BY <2>1, <2>2
<1> HIDE DEF edges, id
<1>8. Len(edges) <= MaxEdges
  BY <1>7, BecomeBounds
<1>9. FlowSound(f, Soon)
  BY <1>1, <1>2, <1>6, <1>8, FlowMade DEF N
<1> HIDE DEF f
<1> QED BY <1>7, <1>9, Becoming

LEMMA AddNodeFromSourceKeeps ==
    ASSUME IInv, NEW type \in Types, NEW source \in Ids(flow.nodes), AddNodeFromSource(source, type)
    PROVE  IInv'
<1> DEFINE id == <<type, Time>>
           nodes == Append(flow.nodes, NewNode(id, type))
           N == Ids(nodes)
           out == Outgoing(flow, source)
           only == FirstOf(flow.edges, out)
           behind == AppendEdge(flow.edges, source, id, "")
           before == AppendEdge(Without(flow.edges, only.id), source, id, "")
           edges == CASE type = "end" -> behind
                      [] type # "end" /\ Cardinality(out) = 1 ->
                           AppendEdge(before, id, only.dst, only.cond)
                      [] type # "end" /\ out = {} /\ FirstEnd # None -> AppendEdge(behind, id, FirstEnd, "")
                      [] OTHER -> behind
           f == [nodes |-> nodes, edges |-> edges]
<1>1. now \in Nat
  BY Parts
<1>2. Sound(nodes, NodeRec, Soon) /\ N = Ids(flow.nodes) \union {id} /\ N \subseteq Id
  BY NodeAdded
<1>3. "" \in Cond
  BY DEF Cond, Port
<1> HIDE DEF nodes
<1>4. \A M : Ids(flow.nodes) \subseteq M => Growing(flow.edges, M) /\ \A e : Growing(Without(flow.edges, e), M)
  BY EdgesWithout, EdgeWithout
<1>5. id \in N /\ Ids(flow.nodes) \subseteq N /\ source \in N
  BY <1>2
<1> HIDE DEF N
<1>6. Growing(edges, N)
  <2>1. FirstEnd # None => FirstEnd \in N
    BY <1>5, FirstEndIs
  <2>2. Growing(behind, N)
    BY <1>1, <1>2, <1>3, <1>4, <1>5, AppendEdgeGrows
  <2>3. FirstEnd # None => Growing(AppendEdge(behind, id, FirstEnd, ""), N)
    <3> HIDE DEF behind
    <3> QED BY <1>1, <1>2, <1>3, <1>5, <2>1, <2>2, AppendEdgeGrows
  <2>4. Cardinality(out) = 1 => Growing(AppendEdge(before, id, only.dst, only.cond), N)
    <3> SUFFICES ASSUME Cardinality(out) = 1
                 PROVE  Growing(AppendEdge(before, id, only.dst, only.cond), N)
      OBVIOUS
    <3>1. out # {} /\ out \subseteq 1 .. Len(flow.edges)
      <4>1. out \subseteq 1 .. Len(flow.edges)
        BY Parts DEF Outgoing
      <4> HIDE DEF out
      <4>2. out # {}
        BY FS_EmptySet
      <4> QED BY <4>1, <4>2
    <3>2. only.dst \in N /\ only.cond \in Cond
      <4> HIDE DEF out
      <4> QED BY <1>5, <3>1, FirstOutgoing
    <3> HIDE DEF only, out
    <3>3. Growing(before, N)
      BY <1>1, <1>2, <1>3, <1>4, <1>5, AppendEdgeGrows
    <3> HIDE DEF before
    <3> QED BY <1>1, <1>2, <1>5, <3>2, <3>3, AppendEdgeGrows
  <2>5. \/ edges = behind
        \/ Cardinality(out) = 1 /\ edges = AppendEdge(before, id, only.dst, only.cond)
        \/ FirstEnd # None /\ edges = AppendEdge(behind, id, FirstEnd, "")
    <3> HIDE DEF behind, before, only, out, id
    <3>1. type = "end" => edges = behind
      BY Zenon
    <3>2. type # "end" /\ Cardinality(out) = 1 => edges = AppendEdge(before, id, only.dst, only.cond)
      <4>1. Cardinality(out) = 1 => out # {}
        BY FS_EmptySet
      <4> QED BY <4>1, Zenon
    <3>3. type # "end" /\ Cardinality(out) # 1 /\ out = {} /\ FirstEnd # None =>
             edges = AppendEdge(behind, id, FirstEnd, "")
      BY Zenon
    <3>4. type # "end" /\ Cardinality(out) # 1 /\ ~ (out = {} /\ FirstEnd # None) => edges = behind
      BY Zenon
    <3> HIDE DEF edges
    <3> QED BY <3>1, <3>2, <3>3, <3>4, Zenon
  <2> HIDE DEF edges, behind, before, only, out
  <2> QED BY <2>2, <2>3, <2>4, <2>5
<1>7. Become(f, id, None)
  BY Zenon DEF AddNodeFromSource, nodes
<1> HIDE DEF edges, id
<1>8. Len(edges) <= MaxEdges
  BY <1>7, BecomeBounds
<1>9. FlowSound(f, Soon)
  BY <1>1, <1>2, <1>6, <1>8, FlowMade DEF N
<1> HIDE DEF f
<1> QED BY <1>7, <1>9, Becoming

\* Two more elements, one after the other.
LEMMA TwoMore ==
    ASSUME NEW R, NEW s \in Seq(R), NEW a \in R, NEW b \in R
    PROVE  s \o <<a, b>> = Append(Append(s, a), b)
<1>1. /\ Append(s, a) \in Seq(R) /\ Append(Append(s, a), b) \in Seq(R)
      /\ Len(Append(s, a)) = Len(s) + 1 /\ Len(Append(Append(s, a), b)) = Len(s) + 1 + 1
      /\ Len(s) \in Nat
      /\ Append(s, a)[Len(s) + 1] = a /\ \A i \in 1 .. Len(s) : Append(s, a)[i] = s[i]
      /\ Append(Append(s, a), b)[Len(s) + 1 + 1] = b
      /\ \A i \in 1 .. Len(s) + 1 : Append(Append(s, a), b)[i] = Append(s, a)[i]
  BY AppendProperties, LenProperties
<1>2. <<a, b>> \in Seq(R) /\ Len(<<a, b>>) = 2 /\ <<a, b>>[1] = a /\ <<a, b>>[2] = b
  OBVIOUS
<1>3. /\ s \o <<a, b>> \in Seq(R) /\ Len(s \o <<a, b>>) = Len(s) + 2
      /\ \A i \in 1 .. Len(s) + 2 :
            (s \o <<a, b>>)[i] = IF i <= Len(s) THEN s[i] ELSE <<a, b>>[i - Len(s)]
  BY <1>2, ConcatProperties
<1>4. ASSUME NEW i \in 1 .. Len(s) + 2
      PROVE  (s \o <<a, b>>)[i] = Append(Append(s, a), b)[i]
  <2>1. CASE i \in 1 .. Len(s)
    BY <1>1, <1>3, <2>1
  <2>2. CASE i = Len(s) + 1
    <3>1. i - Len(s) = 1 /\ ~ (i <= Len(s)) /\ i \in 1 .. Len(s) + 1
      BY <1>1, <2>2
    <3> QED BY <1>1, <1>2, <1>3, <2>2, <3>1
  <2>3. CASE i = Len(s) + 1 + 1
    <3>1. i - Len(s) = 2 /\ ~ (i <= Len(s))
      BY <1>1, <2>3
    <3> QED BY <1>1, <1>2, <1>3, <2>3, <3>1
  <2> QED BY <1>1, <2>1, <2>2, <2>3
<1>5. Len(s) + 1 + 1 = Len(s) + 2
  BY <1>1
<1> QED BY <1>1, <1>3, <1>4, <1>5, SeqEqual

\* One more edge, made at time n.
LEMMA EdgeAdded ==
    ASSUME NEW n \in Nat, NEW edges, NEW N, N \subseteq Id,
           Sound(edges, EdgeRec, 0 .. n - 1), Between(edges, N),
           NEW src \in N, NEW dst \in N, NEW cond \in Cond
    PROVE  LET x == CreateEdge(src, dst, n, cond)
           IN  /\ x \in EdgeRec
               /\ Sound(Append(edges, x), EdgeRec, 0 .. n) /\ Between(Append(edges, x), N)
<1> DEFINE x == CreateEdge(src, dst, n, cond)
<1>1. n \in 0 .. n /\ "edge" \in Part /\ n \notin 0 .. n - 1 /\ 0 .. n - 1 \subseteq 0 .. n
  BY DEF Part
<1>2. <<"edge", n>> \in Id /\ Dated(<<"edge", n>>, 0 .. n)
  BY <1>1, NewIdIs
<1>3. <<"edge", n>> \notin Ids(edges)
  BY <1>1, NewIds
<1>4. x \in EdgeRec /\ x.id = <<"edge", n>> /\ x.src = src /\ x.dst = dst
  BY <1>2 DEF CreateEdge, EdgeRec, End
<1> HIDE DEF x
<1>5. Sound(edges, EdgeRec, 0 .. n)
  BY <1>1, SoundGrows
<1>6. Sound(Append(edges, x), EdgeRec, 0 .. n)
  BY <1>2, <1>3, <1>4, <1>5, SoundAppend
<1>7. edges \in Seq(EdgeRec)
  BY DEF Sound
<1>8. Between(Append(edges, x), N)
  BY <1>4, <1>7, BetweenAppend
<1> QED BY <1>4, <1>6, <1>8 DEF x

LEMMA InsertNodeOnEdgeKeeps ==
    ASSUME IInv, NEW type \in Types, NEW edgeId \in Ids(flow.edges), InsertNodeOnEdge(edgeId, type)
    PROVE  IInv'
<1> DEFINE edge == Edge(flow, edgeId)
           id == <<type, Time>>
           nodes == Append(flow.nodes, NewNode(id, type))
           N == Ids(nodes)
           rest == Without(flow.edges, edgeId)
           a == CreateEdge(edge.src, id, Time, "")
           b == CreateEdge(id, edge.dst, Time + 1, edge.cond)
           edges == rest \o <<a, b>>
           f == [nodes |-> nodes, edges |-> edges]
<1>1. Time \in Nat /\ Time + 1 \in Nat /\ (Time + 1) - 1 = Time /\ Gap \in Nat /\ Gap >= 2
  BY Parts, Clock
<1>2. Sound(nodes, NodeRec, Soon) /\ N = Ids(flow.nodes) \union {id} /\ N \subseteq Id
  BY NodeAdded
<1>3. "" \in Cond
  BY DEF Cond, Port
<1>4. edge.src \in Ids(flow.nodes) /\ edge.dst \in Ids(flow.nodes) /\ edge.cond \in Cond
  <2>1. \E i \in DOMAIN flow.edges : flow.edges[i].id = edgeId
    BY DEF Ids
  <2>2. \E i \in DOMAIN flow.edges : edge = flow.edges[i]
    BY <2>1 DEF Edge
  <2> HIDE DEF edge
  <2> QED BY <2>2, Parts, EdgesOfFlow
<1>5. id \in N /\ Ids(flow.nodes) \subseteq N /\ edge.src \in N /\ edge.dst \in N
  BY <1>2, <1>4
<1>6. Sound(rest, EdgeRec, 0 .. Time - 1) /\ Between(rest, N)
  <2>1. Sound(rest, EdgeRec, 0 .. Time - 1)
    BY Parts, SoundPlaces DEF Without
  <2>2. Between(rest, Ids(flow.nodes))
    BY Parts, BetweenPlaces DEF Without
  <2> QED BY <1>5, <2>1, <2>2 DEF Between
<1>7. Become(f, id, None)
  BY Zenon DEF InsertNodeOnEdge
<1> HIDE DEF edge, nodes, rest, N, id
<1>8. a \in EdgeRec /\ Sound(Append(rest, a), EdgeRec, 0 .. Time) /\ Between(Append(rest, a), N)
  BY <1>1, <1>2, <1>3, <1>5, <1>6, EdgeAdded
<1>9. /\ b \in EdgeRec /\ Sound(Append(Append(rest, a), b), EdgeRec, 0 .. Time + 1)
      /\ Between(Append(Append(rest, a), b), N)
  <2>1. Sound(Append(rest, a), EdgeRec, 0 .. (Time + 1) - 1)
    BY <1>1, <1>8
  <2> HIDE DEF a
  <2> QED BY <1>1, <1>2, <1>4, <1>5, <1>8, <2>1, EdgeAdded
<1> HIDE DEF a, b
<1>10. edges = Append(Append(rest, a), b)
  <2>1. rest \in Seq(EdgeRec)
    BY <1>6 DEF Sound
  <2> QED BY <1>8, <1>9, <2>1, TwoMore
<1> HIDE DEF edges
<1>11. Sound(edges, EdgeRec, Soon) /\ Between(edges, N)
  <2>1. 0 .. Time + 1 \subseteq Soon
    BY <1>1 DEF Soon
  <2> QED BY <1>9, <1>10, <2>1, SoundGrows
<1>12. FlowSound(f, Soon)
  BY <1>2, <1>11 DEF FlowSound, N
<1> HIDE DEF f
<1> QED BY <1>7, <1>12, Becoming

LEMMA RemoveNodeKeeps ==
    ASSUME IInv, NEW id \in Ids(flow.nodes), RemoveNode(id)
    PROVE  IInv'
<1> DEFINE others == {i \in DOMAIN flow.edges : id \notin {flow.edges[i].src, flow.edges[i].dst}}
           nodes == Without(flow.nodes, id)
           edges == Places(flow.edges, others)
           f == [nodes |-> nodes, edges |-> edges]
           node == IF selectedNode = id THEN None ELSE selectedNode
<1>1. 0 .. Time - 1 \subseteq Soon
  BY Parts, Clock DEF Soon
<1>2. Sound(nodes, NodeRec, Soon) /\ Sound(edges, EdgeRec, Soon)
  BY <1>1, Parts, SoundPlaces, SoundGrows DEF Without
<1>3. Become(f, node, selectedEdge)
  BY Zenon DEF RemoveNode
<1>4. Between(edges, Ids(nodes))
  <2> SUFFICES ASSUME NEW m \in 1 .. Len(edges)
               PROVE  edges[m].src \in Ids(nodes) /\ edges[m].dst \in Ids(nodes)
    BY DEF Between
  <2>1. PICK i \in others \cap (1 .. Len(flow.edges)) : edges[m] = flow.edges[i]
    <3> HIDE DEF others
    <3>1. flow.edges \in Seq(EdgeRec)
      BY Parts
    <3> QED BY <3>1, PlacesKeep
  <2>2. /\ flow.edges[i].src \in Ids(flow.nodes) /\ flow.edges[i].src # id
        /\ flow.edges[i].dst \in Ids(flow.nodes) /\ flow.edges[i].dst # id
    BY EdgesOfFlow
  <2>3. ASSUME NEW x \in Ids(flow.nodes), x # id
        PROVE  x \in Ids(nodes)
    <3> DEFINE I == {j \in DOMAIN flow.nodes : flow.nodes[j].id # id}
    <3>1. PICK j \in 1 .. Len(flow.nodes) : flow.nodes[j].id = x
      BY Parts, IdsAre
    <3>2. j \in I \cap (1 .. Len(flow.nodes))
      BY <2>3, <3>1, Parts
    <3>3. nodes = Places(flow.nodes, I)
      BY DEF Without
    <3> HIDE DEF I, nodes
    <3>4. \E k \in 1 .. Len(nodes) : nodes[k] = flow.nodes[j]
      <4>1. flow.nodes \in Seq(NodeRec)
        BY Parts
      <4>2. \E k \in 1 .. Len(Places(flow.nodes, I)) : Places(flow.nodes, I)[k] = flow.nodes[j]
        BY <3>2, <4>1, PlacesKeep
      <4> QED BY <3>3, <4>2
    <3>5. nodes \in Seq(NodeRec)
      BY <1>2 DEF Sound
    <3> QED BY <3>1, <3>4, <3>5, IdsAre
  <2> QED BY <2>1, <2>2, <2>3
<1>5. FlowSound(f, Soon)
  <2> HIDE DEF nodes, edges
  <2> QED BY <1>2, <1>4 DEF FlowSound
<1> HIDE DEF f, node
<1> QED BY <1>3, <1>5, Becoming

LEMMA RemoveEdgeKeeps ==
    ASSUME IInv, RemoveEdge
    PROVE  IInv'
<1> DEFINE edges == Without(flow.edges, selectedEdge)
           f == [flow EXCEPT !.edges = edges]
<1>1. 0 .. Time - 1 \subseteq Soon
  BY Parts, Clock DEF Soon
<1>2. Sound(flow.nodes, NodeRec, Soon) /\ Sound(edges, EdgeRec, Soon) /\ Between(edges, Ids(flow.nodes))
  BY <1>1, Parts, SoundPlaces, SoundGrows, BetweenPlaces DEF Without
<1>3. Become(f, selectedNode, None)
  BY Zenon DEF RemoveEdge
<1> HIDE DEF edges
<1>4. f = [nodes |-> flow.nodes, edges |-> edges]
  BY Parts
<1>5. FlowSound(f, Soon)
  BY <1>2, <1>4 DEF FlowSound
<1> HIDE DEF f
<1> QED BY <1>3, <1>5, Becoming

LEMMA NodeWithId ==
    ASSUME IInv, NEW id \in Ids(flow.nodes)
    PROVE  Node(flow, id) \in NodeRec /\ Node(flow, id).id = id
<1>1. \E i \in DOMAIN flow.nodes : flow.nodes[i].id = id
  BY DEF Ids
<1>2. \E i \in DOMAIN flow.nodes : Node(flow, id) = flow.nodes[i] /\ flow.nodes[i].id = id
  BY <1>1 DEF Node
<1> QED BY <1>2, Parts, LenProperties

\* A port is one of those a node of any type has.
LEMMA HandlesArePorts ==
    ASSUME NEW n \in NodeRec
    PROVE  Handles(n) \subseteq Port
<1>1. n.cases \in CasesOf
  BY DEF NodeRec
<1>2. n.type = "if" => Handles(n) = {"true", "false"}
  BY Zenon DEF Handles
<1>3. n.type = "loop" => Handles(n) = {"body", "exit"}
  <2> HAVE n.type = "loop"
  <2>1. "loop" # "if" /\ "loop" # "rowLocate" /\ "loop" # "switchCase"
    OBVIOUS
  <2> QED BY <2>1, Zenon DEF Handles
<1>4. n.type = "rowLocate" => Handles(n) = {"found", "notFound"}
  <2> HAVE n.type = "rowLocate"
  <2>1. "rowLocate" # "if" /\ "rowLocate" # "loop" /\ "rowLocate" # "switchCase"
    OBVIOUS
  <2> QED BY <2>1, Zenon DEF Handles
<1>5. n.type = "switchCase" => Handles(n) = ToSet(NormalizeSwitchCaseOptions(n.cases))
  <2> HAVE n.type = "switchCase"
  <2>1. "switchCase" # "if" /\ "switchCase" # "loop" /\ "switchCase" # "rowLocate"
    OBVIOUS
  <2> QED BY <2>1, Zenon DEF Handles
<1>6. n.type \notin {"if", "loop", "rowLocate", "switchCase"} => Handles(n) = {""}
  BY Zenon DEF Handles
<1>7. ToSet(NormalizeSwitchCaseOptions(n.cases)) \subseteq Port
  BY <1>1 DEF Port
<1> QED BY <1>2, <1>3, <1>4, <1>5, <1>6, <1>7 DEF Port

LEMMA AddEdgeKeeps ==
    ASSUME IInv, NEW source \in Ids(flow.nodes), NEW target \in Ids(flow.nodes),
           NEW port \in Handles(Node(flow, source)), AddEdge(source, target, port)
    PROVE  IInv'
<1> DEFINE x == CreateEdge(source, target, Time, port)
           edges == Append(flow.edges, x)
           f == [flow EXCEPT !.edges = edges]
           N == Ids(flow.nodes)
<1>1. port \in Cond
  <2>1. Handles(Node(flow, source)) \subseteq Port
    <3>1. Node(flow, source) \in NodeRec
      BY NodeWithId
    <3> QED BY <3>1, HandlesArePorts
  <2> QED BY <2>1 DEF Cond
<1>2. Time \in Nat /\ 0 .. Time - 1 \subseteq Soon /\ 0 .. Time \subseteq Soon
  <2>1. Time \in Nat /\ Gap \in Nat /\ Gap >= 2
    BY Parts, Clock
  <2> QED BY <2>1 DEF Soon
<1>3. N \subseteq Id
  BY Parts, NodeIdsAre
<1>4. Sound(edges, EdgeRec, 0 .. Time) /\ Between(edges, N)
  <2>1. Sound(flow.edges, EdgeRec, 0 .. Time - 1) /\ Between(flow.edges, N)
    BY Parts
  <2> HIDE DEF N
  <2>2. source \in N /\ target \in N
    BY DEF N
  <2> QED BY <1>1, <1>2, <1>3, <2>1, <2>2, EdgeAdded
<1>5. Become(f, None, x.id)
  <2>1. f = [flow EXCEPT !.edges = Append(@, x)]
    OBVIOUS
  <2>2. Become([flow EXCEPT !.edges = Append(@, x)], None, x.id)
    BY Zenon DEF AddEdge
  <2> HIDE DEF x
  <2> QED BY <2>1, <2>2
<1> HIDE DEF edges
<1>6. f = [nodes |-> flow.nodes, edges |-> edges]
  BY Parts
<1>7. FlowSound(f, Soon)
  BY <1>2, <1>4, <1>6, Parts, SoundGrows DEF FlowSound
<1> HIDE DEF f
<1> QED BY <1>5, <1>7, Becoming

\* One node of the flow, or none, in another form under its id.
LEMMA NodesChanged ==
    ASSUME IInv, NEW nodes, nodes \in [1 .. Len(flow.nodes) -> NodeRec],
           \A i \in 1 .. Len(flow.nodes) : nodes[i].id = flow.nodes[i].id
    PROVE  Sound(nodes, NodeRec, Soon) /\ Ids(nodes) = Ids(flow.nodes) /\ nodes \in Seq(NodeRec)
<1>1. Len(flow.nodes) \in Nat /\ 0 .. Time - 1 \subseteq Soon
  BY Parts, Clock DEF Soon
<1>2. nodes \in Seq(NodeRec) /\ Len(nodes) = Len(flow.nodes)
  BY <1>1
<1>3. Sound(flow.nodes, NodeRec, Soon)
  BY <1>1, Parts, SoundGrows
<1> QED BY <1>2, <1>3, SoundMapped

LEMMA UpdateNodeTypeKeeps ==
    ASSUME IInv, NEW type \in Types, UpdateNodeType(type)
    PROVE  IInv'
<1> DEFINE At(n) == IF n.id = selectedNode THEN [n EXCEPT !.type = type] ELSE n
           nodes == [i \in DOMAIN flow.nodes |-> At(flow.nodes[i])]
           f == [flow EXCEPT !.nodes = nodes]
<1>1. DOMAIN flow.nodes = 1 .. Len(flow.nodes) /\ \A i \in 1 .. Len(flow.nodes) : flow.nodes[i] \in NodeRec
  BY Parts, LenProperties
<1>2. \A n \in NodeRec : At(n) \in NodeRec /\ At(n).id = n.id
  BY DEF NodeRec, NodeType
<1>3. Become(f, selectedNode, selectedEdge)
  <2>1. Become([flow EXCEPT !.nodes = [i \in DOMAIN @ |-> At(@[i])]], selectedNode, selectedEdge)
    BY Zenon DEF UpdateNodeType
  <2> HIDE DEF At
  <2>2. f = [flow EXCEPT !.nodes = [i \in DOMAIN @ |-> At(@[i])]]
    OBVIOUS
  <2> QED BY <2>1, <2>2
<1> HIDE DEF At
<1>4. nodes \in [1 .. Len(flow.nodes) -> NodeRec] /\ \A i \in 1 .. Len(flow.nodes) : nodes[i].id = flow.nodes[i].id
  BY <1>1, <1>2
<1> HIDE DEF nodes
<1>5. Sound(nodes, NodeRec, Soon) /\ Ids(nodes) = Ids(flow.nodes)
  BY <1>4, NodesChanged
<1>6. f = [nodes |-> nodes, edges |-> flow.edges]
  BY Parts
<1>7. 0 .. Time - 1 \subseteq Soon
  BY Parts, Clock DEF Soon
<1>8. FlowSound(f, Soon)
  BY <1>5, <1>6, <1>7, Parts, SoundGrows DEF FlowSound
<1> HIDE DEF f
<1> QED BY <1>3, <1>8, Becoming

LEMMA UpdateNodeCasesKeeps ==
    ASSUME IInv, NEW raw \in CaseLists, UpdateNodeCases(raw)
    PROVE  IInv'
<1> DEFINE cases == NormalizeSwitchCaseOptions(raw)
           At(n) == IF n.id = selectedNode THEN [n EXCEPT !.cases = cases] ELSE n
           nodes == [i \in DOMAIN flow.nodes |-> At(flow.nodes[i])]
           edges == PruneSwitchCaseOutgoingEdges(flow.edges, selectedNode, cases)
           f == [nodes |-> nodes, edges |-> edges]
<1>1. DOMAIN flow.nodes = 1 .. Len(flow.nodes) /\ \A i \in 1 .. Len(flow.nodes) : flow.nodes[i] \in NodeRec
  BY Parts, LenProperties
<1>2. cases \in CasesOf
  BY DEF CasesOf
<1>3. Become(f, selectedNode, selectedEdge)
  BY Zenon DEF UpdateNodeCases
<1>4. 0 .. Time - 1 \subseteq Soon
  BY Parts, Clock DEF Soon
<1>5. Sound(edges, EdgeRec, Soon) /\ Between(edges, Ids(flow.nodes))
  BY <1>4, Parts, SoundPlaces, SoundGrows, BetweenPlaces DEF PruneSwitchCaseOutgoingEdges
<1> HIDE DEF cases, edges
<1>6. \A n \in NodeRec : At(n) \in NodeRec /\ At(n).id = n.id
  BY <1>2 DEF NodeRec
<1> HIDE DEF At
<1>7. nodes \in [1 .. Len(flow.nodes) -> NodeRec] /\ \A i \in 1 .. Len(flow.nodes) : nodes[i].id = flow.nodes[i].id
  BY <1>1, <1>6
<1> HIDE DEF nodes
<1>8. Sound(nodes, NodeRec, Soon) /\ Ids(nodes) = Ids(flow.nodes)
  BY <1>7, NodesChanged
<1>9. FlowSound(f, Soon)
  BY <1>5, <1>8 DEF FlowSound
<1> HIDE DEF f
<1> QED BY <1>3, <1>9, Becoming

LEMMA UpdateEdgeKeeps ==
    ASSUME IInv, NEW cond \in Conditions, UpdateEdge(cond)
    PROVE  IInv'
<1> DEFINE At(e) == IF e.id = selectedEdge THEN [e EXCEPT !.cond = cond] ELSE e
           edges == [i \in DOMAIN flow.edges |-> At(flow.edges[i])]
           f == [flow EXCEPT !.edges = edges]
<1>1. /\ DOMAIN flow.edges = 1 .. Len(flow.edges) /\ Len(flow.edges) \in Nat
      /\ \A i \in 1 .. Len(flow.edges) : flow.edges[i] \in EdgeRec
  BY Parts, LenProperties
<1>2. \A e \in EdgeRec : At(e) \in EdgeRec /\ At(e).id = e.id /\ At(e).src = e.src /\ At(e).dst = e.dst
  BY DEF EdgeRec, Cond
<1>3. Become(f, selectedNode, selectedEdge)
  <2>1. Become([flow EXCEPT !.edges = [i \in DOMAIN @ |-> At(@[i])]], selectedNode, selectedEdge)
    BY Zenon DEF UpdateEdge
  <2> HIDE DEF At
  <2>2. f = [flow EXCEPT !.edges = [i \in DOMAIN @ |-> At(@[i])]]
    OBVIOUS
  <2> QED BY <2>1, <2>2
<1> HIDE DEF At
<1>4. /\ edges \in [1 .. Len(flow.edges) -> EdgeRec]
      /\ \A i \in 1 .. Len(flow.edges) : /\ edges[i].id = flow.edges[i].id
                                         /\ edges[i].src = flow.edges[i].src
                                         /\ edges[i].dst = flow.edges[i].dst
  BY <1>1, <1>2
<1> HIDE DEF edges
<1>5. edges \in Seq(EdgeRec) /\ Len(edges) = Len(flow.edges)
  BY <1>1, <1>4
<1>6. 0 .. Time - 1 \subseteq Soon
  BY Parts, Clock DEF Soon
<1>7. Sound(edges, EdgeRec, Soon)
  <2>1. Sound(flow.edges, EdgeRec, Soon)
    BY <1>6, Parts, SoundGrows
  <2> QED BY <1>4, <1>5, <2>1, SoundMapped
<1>8. Between(edges, Ids(flow.nodes))
  BY <1>4, <1>5, Parts DEF Between
<1>9. f = [nodes |-> flow.nodes, edges |-> edges]
  BY Parts
<1>10. FlowSound(f, Soon)
  BY <1>6, <1>7, <1>8, <1>9, Parts, SoundGrows DEF FlowSound
<1> HIDE DEF f
<1> QED BY <1>3, <1>10, Becoming

-----------------------------------------------------------------------------
(* Opening, normalising and importing *)

\* A normalised document is sound; the numbers in its new ids are counts.
LEMMA NormalizedSound ==
    ASSUME NEW d \in Nat, NEW f, f.nodes \in Seq(RawNode), f.edges \in Seq(RawEdge),
           RawDated(f.nodes, 0 .. d - 1), RawDated(f.edges, 0 .. d - 1),
           WithinBounds(NormalizeFlowStructure(f)), d >= Gap
    PROVE  FlowSound(NormalizeFlowStructure(f), 0 .. d - 1)
<1> DEFINE nodes == NormalNodes(f.nodes)
           edges == NormalEdges(f.edges, nodes)
           new == [nodes |-> nodes, edges |-> edges]
<1>1. NormalizeFlowStructure(f) = new
  BY Zenon DEF NormalizeFlowStructure
<1>2. /\ Sound(nodes, NodeRec, Numbers(d, Len(nodes)))
      /\ OfType(nodes, "start") # {} /\ OfType(nodes, "end") # {}
  BY NormalNodesSound
<1>3. nodes \in Seq(NodeRec)
  BY <1>2 DEF Sound
<1> HIDE DEF nodes
<1>4. Sound(edges, EdgeRec, Numbers(d, Len(edges))) /\ Between(edges, Ids(nodes))
  BY <1>2, <1>3, NormalEdgesSound DEF KeptSound
<1> HIDE DEF edges
<1>5. Len(nodes) <= MaxNodes /\ Len(edges) <= MaxEdges
  BY <1>1 DEF WithinBounds
<1>6. /\ MaxNodes \in Nat /\ MaxEdges \in Nat /\ Gap \in Nat
      /\ Gap > 2 * MaxNodes + 1 /\ Gap > 2 * MaxEdges + 1
  BY EditorAssumption
<1>7. Numbers(d, Len(nodes)) \subseteq 0 .. d - 1
  <2>1. Len(nodes) \in Nat
    BY <1>3, LenProperties
  <2> QED BY <1>5, <1>6, <2>1 DEF Numbers
<1>8. Numbers(d, Len(edges)) \subseteq 0 .. d - 1
  <2>1. Len(edges) \in Nat
    BY <1>4, LenProperties DEF Sound
  <2> QED BY <1>5, <1>6, <2>1 DEF Numbers
<1>9. Sound(nodes, NodeRec, 0 .. d - 1) /\ Sound(edges, EdgeRec, 0 .. d - 1)
  BY <1>2, <1>4, <1>7, <1>8, SoundGrows
<1> QED BY <1>1, <1>4, <1>9 DEF FlowSound

LEMMA NormalizeKeeps ==
    ASSUME IInv, Normalize
    PROVE  IInv'
<1> DEFINE f == NormalizeFlowStructure(flow)
           d == Time + Gap
<1>1. Time \in Nat /\ Gap \in Nat /\ d \in Nat /\ d >= Gap
  BY Parts, Clock
<1>2. flow.nodes \in Seq(RawNode) /\ flow.edges \in Seq(RawEdge)
  BY Parts, SeqMonotonic DEF RawNode, RawEdge
<1>3. Become(f, selectedNode, selectedEdge)
  BY Zenon DEF Normalize
<1>4. WithinBounds(f)
  BY <1>3, BecomeBounds DEF WithinBounds
<1>5. RawDated(flow.nodes, 0 .. d - 1) /\ RawDated(flow.edges, 0 .. d - 1)
  <2>1. 0 .. Time - 1 \subseteq 0 .. d - 1
    BY <1>1
  <2> QED BY <2>1, Parts DEF RawDated, Sound, Dated
<1>6. d - 1 = Time + Gap - 1
  BY <1>1
<1> HIDE DEF d
<1>7. FlowSound(f, Soon)
  BY <1>1, <1>2, <1>4, <1>5, <1>6, NormalizedSound DEF Soon
<1> HIDE DEF f
<1> QED BY <1>3, <1>7, Becoming

\* A finite list, as documents have them, is a sequence of what it holds.
LEMMA TupleIsSeq ==
    ASSUME NEW s, IsTuple(s), NEW R, \A i \in DOMAIN s : s[i] \in R
    PROVE  s \in Seq(R)
<1>1. Len(s) \in Nat /\ s = [i \in 1 .. Len(s) |-> s[i]]
  BY DEF IsTuple
<1>2. DOMAIN s = 1 .. Len(s)
  BY <1>1
<1> QED BY <1>1, <1>2

LEMMA IdInId ==
    ASSUME NEW x \in GivenNodes \union GivenEdges, IsId(x.id)
    PROVE  x.id \in Id /\ Dated(x.id, 0 .. Gap - 1)
<1>1. IsTuple(x.id) /\ Dated(x.id, 0 .. Gap - 1)
  BY DEF IsId
<1>2. DOMAIN x.id = 1 .. Len(x.id)
  BY <1>1 DEF IsTuple
<1>3. \A k \in 1 .. Len(x.id) : x.id[k] \in Part
  BY DEF Part
<1> QED BY <1>1, <1>2, <1>3, TupleIsSeq DEF Id

LEMMA GivenNode ==
    ASSUME NEW x \in GivenNodes, IsNode(x)
    PROVE  x \in NodeRec /\ Dated(x.id, 0 .. Gap - 1)
<1>1. x = [id |-> x.id, type |-> x.type, cases |-> x.cases] /\ IsId(x.id)
  BY DEF IsNode
<1>2. x.id \in Id /\ Dated(x.id, 0 .. Gap - 1)
  BY <1>1, IdInId
<1>3. x.type \in NodeType /\ x.cases \in CasesOf
  BY DEF NodeType, CasesOf
<1>4. [id |-> x.id, type |-> x.type, cases |-> x.cases] \in NodeRec
  BY <1>2, <1>3 DEF NodeRec
<1> QED BY <1>1, <1>2, <1>4

LEMMA GivenEdge ==
    ASSUME NEW x \in GivenEdges, IsEdge(x)
    PROVE  x \in EdgeRec /\ Dated(x.id, 0 .. Gap - 1)
<1>1. x = [id |-> x.id, src |-> x.src, dst |-> x.dst, cond |-> x.cond] /\ IsId(x.id)
  BY DEF IsEdge
<1>2. x.id \in Id /\ Dated(x.id, 0 .. Gap - 1)
  BY <1>1, IdInId
<1>3. x.src \in End /\ x.dst \in End /\ x.cond \in Cond
  BY DEF End, Cond
<1>4. [id |-> x.id, src |-> x.src, dst |-> x.dst, cond |-> x.cond] \in EdgeRec
  BY <1>2, <1>3 DEF EdgeRec
<1> QED BY <1>1, <1>2, <1>4

LEMMA RecordNotBlank ==
    ASSUME NEW x
    PROVE  IsNode(x) \/ IsEdge(x) => x # Blank
<1>1. ASSUME NEW i, NEW t, NEW c
      PROVE  [id |-> i, type |-> t, cases |-> c] # <<>>
  <2>1. DOMAIN [id |-> i, type |-> t, cases |-> c] # {} /\ DOMAIN <<>> = {}
    OBVIOUS
  <2> QED BY <2>1
<1>2. ASSUME NEW i, NEW s, NEW d, NEW c
      PROVE  [id |-> i, src |-> s, dst |-> d, cond |-> c] # <<>>
  <2>1. DOMAIN [id |-> i, src |-> s, dst |-> d, cond |-> c] # {} /\ DOMAIN <<>> = {}
    OBVIOUS
  <2> QED BY <2>1
<1> QED BY <1>1, <1>2 DEF IsNode, IsEdge, Blank

LEMMA GivenHolds ==
    ASSUME NEW f \in Given
    PROVE  /\ \A i \in DOMAIN f.nodes : f.nodes[i] # Blank => f.nodes[i] \in GivenNodes
           /\ \A i \in DOMAIN f.edges : f.edges[i] # Blank => f.edges[i] \in GivenEdges
<1> DEFINE S == {f.nodes[i] : i \in DOMAIN f.nodes}
           T == {f.edges[i] : i \in DOMAIN f.edges}
           AllNodes == { {g.nodes[i] : i \in DOMAIN g.nodes} : g \in Given }
           AllEdges == { {g.edges[i] : i \in DOMAIN g.edges} : g \in Given }
<1>1. S \in AllNodes /\ T \in AllEdges
  OBVIOUS
<1>2. GivenNodes = (UNION AllNodes) \ {Blank} /\ GivenEdges = (UNION AllEdges) \ {Blank}
  BY DEF GivenNodes, GivenEdges
<1>3. /\ \A i \in DOMAIN f.nodes : f.nodes[i] \in S
      /\ \A i \in DOMAIN f.edges : f.edges[i] \in T
  OBVIOUS
<1> HIDE DEF S, T, AllNodes, AllEdges
<1>4. S \subseteq UNION AllNodes /\ T \subseteq UNION AllEdges
  BY <1>1
<1>5. \A i \in DOMAIN f.nodes : f.nodes[i] # Blank => f.nodes[i] \in GivenNodes
  BY <1>2, <1>3, <1>4
<1>6. \A i \in DOMAIN f.edges : f.edges[i] # Blank => f.edges[i] \in GivenEdges
  BY <1>2, <1>3, <1>4
<1> QED BY <1>5, <1>6

LEMMA LoadedFlowIs ==
    ASSUME NEW f \in LoadedFlows
    PROVE  /\ f.nodes \in Seq(RawNode) /\ f.edges \in Seq(RawEdge)
           /\ RawDated(f.nodes, 0 .. Gap - 1) /\ RawDated(f.edges, 0 .. Gap - 1)
           /\ WithinBounds(NormalizeFlowStructure(f))
<1>1. /\ IsTuple(f.nodes) /\ \A i \in DOMAIN f.nodes : f.nodes[i] = Blank \/ IsNode(f.nodes[i])
      /\ IsTuple(f.edges) /\ \A i \in DOMAIN f.edges : f.edges[i] = Blank \/ IsEdge(f.edges[i])
      /\ WithinBounds(NormalizeFlowStructure(f))
  BY LoadedAssumption DEF WithinBounds
<1>2. /\ \A i \in DOMAIN f.nodes : f.nodes[i] = Blank \/ f.nodes[i] \in GivenNodes
      /\ \A i \in DOMAIN f.edges : f.edges[i] = Blank \/ f.edges[i] \in GivenEdges
  BY GivenHolds DEF Given
<1>3. \A i \in DOMAIN f.nodes :
         f.nodes[i] \in RawNode /\ (f.nodes[i] # Blank => Dated(f.nodes[i].id, 0 .. Gap - 1))
  BY <1>1, <1>2, GivenNode DEF RawNode
<1>4. \A i \in DOMAIN f.edges :
         f.edges[i] \in RawEdge /\ (f.edges[i] # Blank => Dated(f.edges[i].id, 0 .. Gap - 1))
  BY <1>1, <1>2, GivenEdge DEF RawEdge
<1>5. f.nodes \in Seq(RawNode) /\ f.edges \in Seq(RawEdge)
  BY <1>1, <1>3, <1>4, TupleIsSeq
<1>6. DOMAIN f.nodes = 1 .. Len(f.nodes) /\ DOMAIN f.edges = 1 .. Len(f.edges)
  BY <1>5, LenProperties
<1> QED BY <1>1, <1>3, <1>4, <1>5, <1>6 DEF RawDated

AllDated(s, D) == \A i \in 1 .. Len(s) : Dated(s[i].id, D)

LEMMA RecordingIs ==
    ASSUME NEW r \in Recordings
    PROVE  /\ r.nodes \in Seq(NodeRec) /\ r.edges \in Seq(EdgeRec)
           /\ AllDated(r.nodes, 0 .. Gap - 1) /\ AllDated(r.edges, 0 .. Gap - 1)
           /\ Between(r.edges, Ids(r.nodes))
<1>1. /\ IsTuple(r.nodes) /\ \A i \in DOMAIN r.nodes : IsNode(r.nodes[i])
      /\ IsTuple(r.edges) /\ \A i \in DOMAIN r.edges : IsEdge(r.edges[i])
      /\ Joined(r)
  BY RecordingsAssumption
<1>2. \A i \in DOMAIN r.nodes : r.nodes[i] # Blank => r.nodes[i] \in GivenNodes
  BY GivenHolds DEF Given
<1>3. \A i \in DOMAIN r.edges : r.edges[i] # Blank => r.edges[i] \in GivenEdges
  BY GivenHolds DEF Given
<1>4. \A i \in DOMAIN r.nodes : r.nodes[i] \in NodeRec /\ Dated(r.nodes[i].id, 0 .. Gap - 1)
  BY <1>1, <1>2, GivenNode, RecordNotBlank
<1>5. \A i \in DOMAIN r.edges : r.edges[i] \in EdgeRec /\ Dated(r.edges[i].id, 0 .. Gap - 1)
  BY <1>1, <1>3, GivenEdge, RecordNotBlank
<1>6. r.nodes \in Seq(NodeRec) /\ r.edges \in Seq(EdgeRec)
  BY <1>1, <1>4, <1>5, TupleIsSeq
<1>7. DOMAIN r.nodes = 1 .. Len(r.nodes) /\ DOMAIN r.edges = 1 .. Len(r.edges)
  BY <1>6, LenProperties
<1> QED BY <1>1, <1>4, <1>5, <1>6, <1>7 DEF AllDated, Between, Joined

LEMMA LoadFlowKeeps ==
    ASSUME IInv, NEW f \in LoadedFlows, LoadFlow(f)
    PROVE  IInv'
<1> DEFINE new == NormalizeFlowStructure(f)
<1>1. Become(new, None, None)
  BY Zenon DEF LoadFlow
<1>2. Gap \in Nat /\ Gap >= Gap /\ Time \in Nat
  BY Parts, Clock
<1>3. FlowSound(new, 0 .. Gap - 1)
  BY <1>2, LoadedFlowIs, NormalizedSound
<1>4. 0 .. Gap - 1 \subseteq Soon
  BY <1>2 DEF Soon
<1> HIDE DEF new
<1>5. FlowSound(new, Soon)
  BY <1>3, <1>4, SoundGrows DEF FlowSound
<1> QED BY <1>1, <1>5, Becoming

LEMMA InitKeeps ==
    ASSUME Init
    PROVE  IInv
<1>1. PICK f \in LoadedFlows : flow = NormalizeFlowStructure(f)
  BY DEF Init
<1>2. now = 0 /\ selectedNode = None
  BY DEF Init
<1>3. Gap \in Nat /\ Gap >= Gap /\ Time = Gap
  BY <1>2, EditorAssumption DEF Time
<1>4. FlowSound(flow, 0 .. Gap - 1)
  BY <1>1, <1>3, LoadedFlowIs, NormalizedSound
<1>5. WithinBounds(flow)
  BY <1>1, LoadedFlowIs
<1> QED BY <1>2, <1>3, <1>4, <1>5 DEF IInv

-----------------------------------------------------------------------------
(* Importing a recording *)

Concatenated(s, t, R, D) ==
    /\ Sound(s \o t, R, D) /\ Ids(s \o t) = Ids(s) \union Ids(t)
    /\ Len(s \o t) = Len(s) + Len(t)
    /\ \A i \in 1 .. Len(t) : (s \o t)[Len(s) + i] = t[i]

LEMMA SoundConcat ==
    ASSUME NEW R, NEW D, NEW s, NEW t, Sound(s, R, D), Sound(t, R, D), Ids(s) \cap Ids(t) = {}
    PROVE  Concatenated(s, t, R, D)
<1> DEFINE u == s \o t
           m == Len(s)
           n == Len(t)
<1>1. s \in Seq(R) /\ m \in Nat /\ DOMAIN s = 1 .. m /\ t \in Seq(R) /\ n \in Nat /\ DOMAIN t = 1 .. n
  BY LenProperties DEF Sound
<1>2. /\ u \in Seq(R) /\ Len(u) = m + n /\ DOMAIN u = 1 .. m + n
      /\ \A i \in 1 .. m + n : u[i] = IF i <= m THEN s[i] ELSE t[i - m]
  BY <1>1, ConcatProperties, LenProperties
<1> HIDE DEF u, m, n
<1>3. \A i \in 1 .. m : i \in 1 .. m + n /\ i <= m
  BY <1>1
<1>4. \A i \in 1 .. n : m + i \in 1 .. m + n /\ ~ (m + i <= m) /\ (m + i) - m = i
  BY <1>1
<1>5. \A i \in 1 .. m : u[i] = s[i]
  BY <1>2, <1>3
<1>6. \A i \in 1 .. n : u[m + i] = t[i]
  BY <1>2, <1>4
<1>7. \A i \in 1 .. m + n : i \in 1 .. m \/ (i - m \in 1 .. n /\ m + (i - m) = i)
  BY <1>1
<1>8. \A i \in 1 .. m + n : (i \in 1 .. m /\ u[i] = s[i]) \/ (i - m \in 1 .. n /\ u[i] = t[i - m])
  BY <1>5, <1>6, <1>7
<1>9. Ids(u) = Ids(s) \union Ids(t)
  <2>1. Ids(u) \subseteq Ids(s) \union Ids(t)
    BY <1>1, <1>2, <1>8 DEF Ids
  <2>2. Ids(s) \subseteq Ids(u)
    BY <1>1, <1>2, <1>3, <1>5 DEF Ids
  <2>3. Ids(t) \subseteq Ids(u)
    <3>1. \A i \in 1 .. n : m + i \in DOMAIN u /\ u[m + i].id = t[i].id
      BY <1>2, <1>4, <1>6
    <3> QED BY <1>1, <3>1 DEF Ids
  <2> QED BY <2>1, <2>2, <2>3
<1>10. Distinct(u)
  <2> SUFFICES ASSUME NEW i \in 1 .. m + n, NEW j \in 1 .. m + n, u[i].id = u[j].id
               PROVE  i = j
    BY <1>2 DEF Distinct
  <2>1. \A k \in 1 .. m : s[k].id \in Ids(s)
    BY <1>1 DEF Ids
  <2>2. \A k \in 1 .. n : t[k].id \in Ids(t)
    BY <1>1 DEF Ids
  <2>3. CASE i \in 1 .. m /\ j \in 1 .. m
    BY <1>1, <1>5, <2>3 DEF Sound, Distinct
  <2>4. CASE i - m \in 1 .. n /\ j - m \in 1 .. n
    <3>1. u[i] = t[i - m] /\ u[j] = t[j - m]
      BY <1>1, <1>8, <2>4
    <3>2. i - m = j - m
      BY <1>1, <2>4, <3>1 DEF Sound, Distinct
    <3> QED BY <1>1, <3>2
  <2> QED BY <1>8, <2>1, <2>2, <2>3, <2>4
<1>11. \A i \in 1 .. m + n : Dated(u[i].id, D)
  BY <1>8 DEF Sound, m, n
<1> QED BY <1>2, <1>6, <1>9, <1>10, <1>11 DEF Concatenated, Sound, u, m, n

\* The ends of an edge follow the nodes they name.
LEMMA RedirectedAre ==
    ASSUME NEW D, NEW edges, Sound(edges, EdgeRec, D), NEW old \in Seq(NodeRec),
           NEW new \in Seq(NodeRec), Len(new) = Len(old), Between(edges, Ids(old))
    PROVE  /\ Sound(Redirected(edges, old, new), EdgeRec, D)
           /\ Ids(Redirected(edges, old, new)) = Ids(edges)
           /\ Len(Redirected(edges, old, new)) = Len(edges)
           /\ Between(Redirected(edges, old, new), Ids(new))
<1> DEFINE At(id) == IF id \in Ids(old) THEN new[CHOOSE i \in DOMAIN old : old[i].id = id].id ELSE id
           to == Redirected(edges, old, new)
<1>1. /\ edges \in Seq(EdgeRec) /\ Len(edges) \in Nat /\ DOMAIN edges = 1 .. Len(edges)
      /\ DOMAIN old = 1 .. Len(old) /\ DOMAIN new = 1 .. Len(new)
  BY LenProperties DEF Sound
<1>2. \A id \in Ids(old) : At(id) \in Ids(new)
  <2> SUFFICES ASSUME NEW id \in Ids(old)
               PROVE  At(id) \in Ids(new)
    OBVIOUS
  <2>1. \E i \in DOMAIN old : old[i].id = id
    BY DEF Ids
  <2> DEFINE i == CHOOSE i \in DOMAIN old : old[i].id = id
  <2>2. i \in 1 .. Len(new) /\ At(id) = new[i].id
    BY <1>1, <2>1
  <2> HIDE DEF At, i
  <2> QED BY <1>1, <2>2, IdsAre
<1>3. Ids(new) \subseteq Id
  BY <1>1, NodeIdsAre
<1>4. to = [i \in DOMAIN edges |-> [edges[i] EXCEPT !.src = At(edges[i].src), !.dst = At(edges[i].dst)]]
  BY Zenon DEF Redirected
<1> HIDE DEF At, to
<1>5. ASSUME NEW i \in 1 .. Len(edges)
      PROVE  /\ to[i] \in EdgeRec /\ to[i].id = edges[i].id
             /\ to[i].src \in Ids(new) /\ to[i].dst \in Ids(new)
  <2>1. edges[i] \in EdgeRec /\ edges[i].src \in Ids(old) /\ edges[i].dst \in Ids(old)
    BY <1>1 DEF Between
  <2> DEFINE a == At(edges[i].src)
             b == At(edges[i].dst)
  <2>2. a \in Ids(new) /\ b \in Ids(new)
    BY <1>2, <2>1
  <2>3. to[i] = [edges[i] EXCEPT !.src = a, !.dst = b]
    BY <1>1, <1>4
  <2> HIDE DEF a, b
  <2>4. a \in End /\ b \in End
    BY <1>3, <2>2 DEF End
  <2> DEFINE x == edges[i]
             y == to[i]
  <2>5. x \in EdgeRec /\ y = [x EXCEPT !.src = a, !.dst = b]
    BY <2>1, <2>3
  <2> HIDE DEF x, y
  <2>6. y \in EdgeRec /\ y.id = x.id /\ y.src = a /\ y.dst = b
    BY <2>4, <2>5 DEF EdgeRec
  <2> QED BY <2>2, <2>6 DEF x, y
<1>6. to \in Seq(EdgeRec) /\ Len(to) = Len(edges)
  <2>1. to \in [1 .. Len(edges) -> EdgeRec]
    BY <1>1, <1>4, <1>5
  <2> QED BY <1>1, <2>1
<1>7. Sound(to, EdgeRec, D) /\ Ids(to) = Ids(edges)
  BY <1>5, <1>6, SoundMapped
<1>8. Between(to, Ids(new))
  BY <1>5, <1>6 DEF Between
<1> QED BY <1>6, <1>7, <1>8 DEF to

\* Edges under new ids run between the same nodes.
LEMMA RenamedBetween ==
    ASSUME NEW D, NEW used, NEW items \in Seq(EdgeRec), NEW new,
           RenamedAs(new, EdgeRec, items, used, D), NEW N, Between(items, N)
    PROVE  Between(new, N)
<1>1. Len(new) = Len(items)
  BY DEF RenamedAs
<1>2. ASSUME NEW m \in 1 .. Len(items)
      PROVE  new[m].src = items[m].src /\ new[m].dst = items[m].dst
  <2>1. new[m] = [items[m] EXCEPT !.id = new[m].id] /\ items[m] \in EdgeRec
    BY LenProperties DEF RenamedAs
  <2> DEFINE id == new[m].id
  <2>2. new[m] = [items[m] EXCEPT !.id = id]
    BY <2>1
  <2> HIDE DEF id
  <2> QED BY <2>1, <2>2 DEF EdgeRec
<1> QED BY <1>1, <1>2 DEF Between

\* The ids of sound nodes, or edges, that recorded ones have to avoid.
LEMMA UsedIds ==
    ASSUME NEW R, Renameable(R), NEW s \in Seq(R)
    PROVE  /\ Ids(s) \in SUBSET Id /\ IsFiniteSet(Ids(s))
           /\ Cardinality(Ids(s)) \in Nat /\ Cardinality(Ids(s)) <= Len(s)
<1>1. \A i \in 1 .. Len(s) : s[i].id \in Id
  BY LenProperties DEF Renameable
<1> QED BY <1>1, IdsAre, IdsFinite

\* Numbers enough for n ids that differ from those of m elements.
Roomy(D, m, n) == \A k \in Nat : k <= Gap - 1 \/ k <= 2 + m + n => k \in D

LEMMA RenamedInto ==
    ASSUME NEW R, Renameable(R), NEW items \in Seq(R), AllDated(items, 0 .. Gap - 1),
           NEW s \in Seq(R), NEW D, Roomy(D, Len(s), Len(items)), Gap \in Nat
    PROVE  RenamedAs(Renamed(items, Ids(s)), R, items, Ids(s), D)
<1> DEFINE c == Cardinality(Ids(s))
<1>1. Ids(s) \in SUBSET Id /\ IsFiniteSet(Ids(s)) /\ c \in Nat /\ c <= Len(s)
  BY UsedIds
<1>2. Len(s) \in Nat /\ Len(items) \in Nat
  BY LenProperties
<1>3. 0 .. 2 + c + Len(items) \subseteq D
  <2> HIDE DEF c
  <2>1. \A k \in 0 .. 2 + c + Len(items) : k \in Nat /\ k <= 2 + Len(s) + Len(items)
    BY <1>1, <1>2
  <2> QED BY <2>1 DEF Roomy
<1>4. 0 .. Gap - 1 \subseteq D
  BY DEF Roomy
<1>5. RoomFor(items, Ids(s), D)
  BY <1>3, <1>4 DEF RoomFor, AllDated, Dated
<1> QED BY <1>1, <1>5, RenamedAre

\* The mapped flow in the place of the current one.
LEMMA Replaced ==
    ASSUME IInv, NEW r \in Recordings, NEW D,
           Roomy(D, Len(flow.nodes), Len(r.nodes)), Roomy(D, Len(flow.edges), Len(r.edges))
    PROVE  LET f == EnsureUniqueFlowIds(r, flow)
           IN  FlowSound(f, D) /\ Len(f.nodes) = Len(r.nodes) /\ Len(f.edges) = Len(r.edges)
<1> DEFINE nodes == Renamed(r.nodes, Ids(flow.nodes))
           renamed == Renamed(r.edges, Ids(flow.edges))
           edges == Redirected(renamed, r.nodes, nodes)
           f == [nodes |-> nodes, edges |-> edges]
<1>1. Gap \in Nat
  BY EditorAssumption
<1>2. /\ r.nodes \in Seq(NodeRec) /\ r.edges \in Seq(EdgeRec)
      /\ AllDated(r.nodes, 0 .. Gap - 1) /\ AllDated(r.edges, 0 .. Gap - 1)
      /\ Between(r.edges, Ids(r.nodes))
  BY RecordingIs
<1>3. EnsureUniqueFlowIds(r, flow) = f
  BY Zenon DEF EnsureUniqueFlowIds
<1>4. RenamedAs(nodes, NodeRec, r.nodes, Ids(flow.nodes), D)
  BY <1>1, <1>2, Parts, RecordsRenameable, RenamedInto
<1>5. RenamedAs(renamed, EdgeRec, r.edges, Ids(flow.edges), D)
  BY <1>1, <1>2, Parts, RecordsRenameable, RenamedInto
<1> HIDE DEF nodes, renamed
<1>6. Between(renamed, Ids(r.nodes)) /\ Sound(renamed, EdgeRec, D) /\ Len(renamed) = Len(r.edges)
  BY <1>2, <1>5, RenamedBetween DEF RenamedAs
<1>7. Sound(edges, EdgeRec, D) /\ Between(edges, Ids(nodes)) /\ Len(edges) = Len(r.edges)
  <2>1. r.nodes \in Seq(NodeRec) /\ nodes \in Seq(NodeRec) /\ Len(nodes) = Len(r.nodes)
    BY <1>2, <1>4 DEF RenamedAs, Sound
  <2>2. Sound(renamed, EdgeRec, D) /\ Between(renamed, Ids(r.nodes)) /\ Len(renamed) = Len(r.edges)
    BY <1>6
  <2>3. /\ Sound(Redirected(renamed, r.nodes, nodes), EdgeRec, D)
        /\ Len(Redirected(renamed, r.nodes, nodes)) = Len(renamed)
        /\ Between(Redirected(renamed, r.nodes, nodes), Ids(nodes))
    <3> HIDE DEF edges
    <3> QED BY <2>1, <2>2, RedirectedAre
  <2> QED BY <2>2, <2>3
<1> HIDE DEF edges
<1>8. Sound(nodes, NodeRec, D) /\ Len(nodes) = Len(r.nodes)
  BY <1>4 DEF RenamedAs
<1> QED BY <1>3, <1>7, <1>8 DEF FlowSound

\* Two lists of at most `max` elements leave room in the numbers of now.
LEMMA RoomNow ==
    ASSUME now \in Nat, NEW m \in Nat, NEW n \in Nat, NEW max \in Nat, 1 + 2 * max < Gap,
           m + n <= 2 * max
    PROVE  Roomy(Soon, m, n)
<1>1. Time \in Nat /\ Time >= Gap /\ Gap \in Nat /\ Gap >= 2
  BY Clock
<1> SUFFICES ASSUME NEW k \in Nat, k <= Gap - 1 \/ k <= 2 + m + n
             PROVE  k \in 0 .. Time + Gap - 1
  BY DEF Roomy, Soon
<1>2. CASE k <= Gap - 1
  BY <1>1, <1>2
<1>3. CASE k <= 2 + m + n
  <2>1. k <= 2 + 2 * max
    BY <1>3
  <2> QED BY <1>1, <2>1
<1> QED BY <1>2, <1>3

LEMMA AlwaysRoom ==
    ASSUME NEW m, NEW n
    PROVE  Roomy(Nat, m, n)
BY DEF Roomy

LEMMA TwiceAtMost ==
    ASSUME NEW m \in Nat, NEW n \in Nat, NEW max \in Nat, m <= max, n <= max
    PROVE  m + n <= 2 * max
OBVIOUS

LEMMA ReplaceKeeps ==
    ASSUME IInv, NEW r \in Recordings, NEW node,
           Become(EnsureUniqueFlowIds(r, flow), node, None)
    PROVE  IInv'
<1> DEFINE f == EnsureUniqueFlowIds(r, flow)
<1>1. /\ now \in Nat /\ Len(flow.nodes) \in Nat /\ Len(flow.edges) \in Nat
      /\ Len(flow.nodes) <= MaxNodes /\ Len(flow.edges) <= MaxEdges
  BY Parts DEF IInv, WithinBounds
<1>2. Len(f.nodes) = Len(r.nodes) /\ Len(f.edges) = Len(r.edges)
  BY AlwaysRoom, Replaced
<1>3. Len(r.nodes) \in Nat /\ Len(r.edges) \in Nat
  BY RecordingIs, LenProperties
<1>4. Become(f, node, None)
  OBVIOUS
<1> HIDE DEF f
<1>5. Len(r.nodes) <= MaxNodes /\ Len(r.edges) <= MaxEdges
  BY <1>2, <1>4, BecomeBounds
<1>6. /\ MaxNodes \in Nat /\ MaxEdges \in Nat
      /\ 1 + 2 * MaxNodes < Gap /\ 1 + 2 * MaxEdges < Gap
  BY <1>1, Clock
<1>7. Roomy(Soon, Len(flow.nodes), Len(r.nodes))
  <2>1. Len(flow.nodes) + Len(r.nodes) <= 2 * MaxNodes
    BY <1>1, <1>3, <1>5, <1>6, TwiceAtMost
  <2> QED BY <1>1, <1>3, <1>6, <2>1, RoomNow
<1>8. Roomy(Soon, Len(flow.edges), Len(r.edges))
  <2>1. Len(flow.edges) + Len(r.edges) <= 2 * MaxEdges
    BY <1>1, <1>3, <1>5, <1>6, TwiceAtMost
  <2> QED BY <1>1, <1>3, <1>6, <2>1, RoomNow
<1>9. FlowSound(f, Soon)
  BY <1>7, <1>8, Replaced DEF f
<1> QED BY <1>4, <1>9, Becoming

LEMMA BetweenConcat ==
    ASSUME NEW s \in Seq(EdgeRec), NEW t \in Seq(EdgeRec), NEW M, NEW N, NEW L,
           Between(s, M), Between(t, N), L = M \union N
    PROVE  Between(s \o t, L)
<1>1. /\ Len(s) \in Nat /\ Len(t) \in Nat /\ Len(s \o t) = Len(s) + Len(t)
      /\ \A i \in 1 .. Len(s) + Len(t) : (s \o t)[i] = IF i <= Len(s) THEN s[i] ELSE t[i - Len(s)]
  BY ConcatProperties, LenProperties
<1>2. \A i \in 1 .. Len(s) + Len(t) : (i \in 1 .. Len(s) /\ i <= Len(s)) \/ (i - Len(s) \in 1 .. Len(t) /\ ~ (i <= Len(s)))
  BY <1>1
<1>3. \A i \in 1 .. Len(s) + Len(t) :
         \/ i \in 1 .. Len(s) /\ (s \o t)[i] = s[i]
         \/ i - Len(s) \in 1 .. Len(t) /\ (s \o t)[i] = t[i - Len(s)]
  BY <1>1, <1>2
<1> QED BY <1>1, <1>3 DEF Between

\* The recorded steps, the node they are put behind, the end they lead to, and
\* the flow they make: the parts of AppendMappedFlow, one by one.
Actions(r) == Places(r.nodes, {i \in DOMAIN r.nodes : r.nodes[i].type \notin {"start", "end"}})
Inner(r) == Places(r.edges, { i \in DOMAIN r.edges : {r.edges[i].src, r.edges[i].dst} \subseteq Ids(Actions(r)) })
Added(r) == Renamed(Actions(r), Ids(flow.nodes))
NodesWith(r) == flow.nodes \o Added(r)
EdgesWith(r) == flow.edges \o Redirected(Renamed(Inner(r), Ids(flow.edges)), Actions(r), Added(r))
BehindNode(nodes) ==
    LET chosen == {i \in DOMAIN nodes : nodes[i].id = selectedNode /\ nodes[i].type # "end"}
    IN  IF chosen # {} THEN FirstOf(nodes, chosen)
        ELSE LastOf(nodes, {i \in DOMAIN nodes : nodes[i].type # "end"})
Ended(nodes) ==
    IF OfType(nodes, "end") # {} THEN nodes
    ELSE Append(nodes, NewNode(UniqueId(<<"n_end">>, Ids(nodes)), "end"))
EndOf(nodes) == FirstOf(nodes, OfType(nodes, "end"))
LinkOf(id, src, dst) == [id |-> id, src |-> src, dst |-> dst, cond |-> ""]

LEMMA AppendedIs ==
    ASSUME NEW r, Actions(r) # <<>>
    PROVE  AppendMappedFlow(flow, r, selectedNode, Time) =
             [ nodes |-> Ended(NodesWith(r)),
               edges |-> EdgesWith(r) \o
                  << LinkOf(UniqueId(<<"edge_append", Time>>, Ids(EdgesWith(r))),
                            BehindNode(NodesWith(r)).id, Added(r)[1].id),
                     LinkOf(UniqueId(<<"edge_append_end", Time>>, Ids(EdgesWith(r))),
                            Last(Added(r)).id, EndOf(Ended(NodesWith(r))).id) >> ]
BY Zenon DEF AppendMappedFlow, Actions, Inner, Added, NodesWith, EdgesWith, BehindNode, Ended, EndOf, LinkOf

LEMMA NothingAppended ==
    ASSUME NEW r, Actions(r) = <<>>
    PROVE  AppendMappedFlow(flow, r, selectedNode, Time) = flow
BY Zenon DEF AppendMappedFlow, Actions

Picked(t, s, R, I) ==
    t \in Seq(R) /\ \A m \in 1 .. Len(t) : \E i \in I \cap (1 .. Len(s)) : t[m] = s[i]

LEMMA PlacesPick ==
    ASSUME NEW R, NEW s \in Seq(R), NEW I
    PROVE  Picked(Places(s, I), s, R, I)
BY PlacesAre, PlacesKeep DEF Picked

LEMMA ActionsAre ==
    ASSUME NEW r \in Recordings
    PROVE  /\ Actions(r) \in Seq(NodeRec) /\ AllDated(Actions(r), 0 .. Gap - 1)
           /\ \A m \in 1 .. Len(Actions(r)) : Actions(r)[m].type # "end"
           /\ Inner(r) \in Seq(EdgeRec) /\ AllDated(Inner(r), 0 .. Gap - 1)
           /\ Between(Inner(r), Ids(Actions(r)))
<1> DEFINE I == {i \in DOMAIN r.nodes : r.nodes[i].type \notin {"start", "end"}}
           J == { i \in DOMAIN r.edges : {r.edges[i].src, r.edges[i].dst} \subseteq Ids(Actions(r)) }
<1>1. /\ r.nodes \in Seq(NodeRec) /\ r.edges \in Seq(EdgeRec)
      /\ AllDated(r.nodes, 0 .. Gap - 1) /\ AllDated(r.edges, 0 .. Gap - 1)
  BY RecordingIs
<1>2. Actions(r) = Places(r.nodes, I) /\ Inner(r) = Places(r.edges, J)
  BY Zenon DEF Actions, Inner
<1>3. \A i \in I : r.nodes[i].type # "end"
  OBVIOUS
<1>4. \A i \in J : {r.edges[i].src, r.edges[i].dst} \subseteq Ids(Actions(r))
  OBVIOUS
<1> HIDE DEF I, J
<1>5. /\ Actions(r) \in Seq(NodeRec)
      /\ \A m \in 1 .. Len(Actions(r)) : \E i \in I \cap (1 .. Len(r.nodes)) : Actions(r)[m] = r.nodes[i]
  <2>1. Picked(Places(r.nodes, I), r.nodes, NodeRec, I)
    BY <1>1, PlacesPick
  <2> QED BY <1>2, <2>1 DEF Picked
<1>6. /\ Inner(r) \in Seq(EdgeRec)
      /\ \A m \in 1 .. Len(Inner(r)) : \E i \in J \cap (1 .. Len(r.edges)) : Inner(r)[m] = r.edges[i]
  <2>1. Picked(Places(r.edges, J), r.edges, EdgeRec, J)
    BY <1>1, PlacesPick
  <2> QED BY <1>2, <2>1 DEF Picked
<1>7. /\ AllDated(Actions(r), 0 .. Gap - 1)
      /\ \A m \in 1 .. Len(Actions(r)) : Actions(r)[m].type # "end"
  BY <1>1, <1>3, <1>5 DEF AllDated
<1>8. AllDated(Inner(r), 0 .. Gap - 1) /\ Between(Inner(r), Ids(Actions(r)))
  BY <1>1, <1>4, <1>6 DEF AllDated, Between
<1> QED BY <1>5, <1>6, <1>7, <1>8

\* The recorded steps and the edges between them, beside the flow's own.
LEMMA WithRecorded ==
    ASSUME IInv, NEW r \in Recordings, NEW D, 0 .. Time - 1 \subseteq D,
           Roomy(D, Len(flow.nodes), Len(Actions(r))), Roomy(D, Len(flow.edges), Len(Inner(r)))
    PROVE  /\ Sound(NodesWith(r), NodeRec, D) /\ Len(NodesWith(r)) = Len(flow.nodes) + Len(Actions(r))
           /\ Sound(EdgesWith(r), EdgeRec, D) /\ Len(EdgesWith(r)) = Len(flow.edges) + Len(Inner(r))
           /\ Between(EdgesWith(r), Ids(NodesWith(r)))
           /\ Added(r) \in Seq(NodeRec) /\ Len(Added(r)) = Len(Actions(r))
           /\ Ids(NodesWith(r)) = Ids(flow.nodes) \union Ids(Added(r))
           /\ \A m \in 1 .. Len(Added(r)) : NodesWith(r)[Len(flow.nodes) + m] = Added(r)[m]
           /\ \A m \in 1 .. Len(Added(r)) : Added(r)[m].type # "end"
<1> DEFINE added == Added(r)
           inner == Renamed(Inner(r), Ids(flow.edges))
           to == Redirected(inner, Actions(r), added)
<1>1. Gap \in Nat
  BY EditorAssumption
<1>2. /\ Actions(r) \in Seq(NodeRec) /\ AllDated(Actions(r), 0 .. Gap - 1)
      /\ \A m \in 1 .. Len(Actions(r)) : Actions(r)[m].type # "end"
      /\ Inner(r) \in Seq(EdgeRec) /\ AllDated(Inner(r), 0 .. Gap - 1)
      /\ Between(Inner(r), Ids(Actions(r)))
  BY ActionsAre
<1>3. RenamedAs(added, NodeRec, Actions(r), Ids(flow.nodes), D)
  BY <1>1, <1>2, Parts, RecordsRenameable, RenamedInto DEF Added
<1>4. RenamedAs(inner, EdgeRec, Inner(r), Ids(flow.edges), D)
  BY <1>1, <1>2, Parts, RecordsRenameable, RenamedInto
<1>5. /\ Sound(added, NodeRec, D) /\ Ids(flow.nodes) \cap Ids(added) = {} /\ Len(added) = Len(Actions(r))
      /\ added \in Seq(NodeRec)
  BY <1>3 DEF RenamedAs, Sound
<1>6. EdgesWith(r) = flow.edges \o to /\ NodesWith(r) = flow.nodes \o added
  BY Zenon DEF EdgesWith, NodesWith
<1>7. \A m \in 1 .. Len(added) : added[m].type # "end"
  <2> SUFFICES ASSUME NEW m \in 1 .. Len(Actions(r))
               PROVE  added[m].type # "end"
    BY <1>5
  <2> DEFINE id == added[m].id
  <2>1. added[m] = [Actions(r)[m] EXCEPT !.id = id] /\ Actions(r)[m] \in NodeRec
    BY <1>2, <1>3, LenProperties DEF RenamedAs
  <2> HIDE DEF id
  <2>2. added[m].type = Actions(r)[m].type
    BY <2>1 DEF NodeRec
  <2> QED BY <1>2, <2>2
<1> HIDE DEF added, inner
<1>8. /\ Between(inner, Ids(Actions(r))) /\ Sound(inner, EdgeRec, D) /\ Len(inner) = Len(Inner(r))
      /\ Ids(inner) \cap Ids(flow.edges) = {}
  BY <1>2, <1>4, RenamedBetween DEF RenamedAs
<1>9. /\ Sound(to, EdgeRec, D) /\ Ids(to) = Ids(inner) /\ Len(to) = Len(inner)
      /\ Between(to, Ids(added))
  BY <1>2, <1>5, <1>8, RedirectedAre
<1> HIDE DEF to
<1>10. /\ Sound(flow.nodes, NodeRec, D) /\ Sound(flow.edges, EdgeRec, D)
       /\ Between(flow.edges, Ids(flow.nodes)) /\ Len(flow.edges) \in Nat /\ Len(to) \in Nat
  <2>1. to \in Seq(EdgeRec)
    BY <1>9 DEF Sound
  <2>2. Len(to) \in Nat
    BY <2>1, LenProperties
  <2> QED BY <2>2, Parts, SoundGrows
<1>11. /\ Sound(flow.nodes \o added, NodeRec, D) /\ Ids(flow.nodes \o added) = Ids(flow.nodes) \union Ids(added)
       /\ Len(flow.nodes \o added) = Len(flow.nodes) + Len(added)
       /\ \A m \in 1 .. Len(added) : (flow.nodes \o added)[Len(flow.nodes) + m] = added[m]
  <2>1. Concatenated(flow.nodes, added, NodeRec, D)
    BY <1>5, <1>10, SoundConcat
  <2> QED BY <2>1 DEF Concatenated
<1>12. Ids(flow.edges) \cap Ids(to) = {}
  BY <1>8, <1>9
<1>13. /\ Sound(flow.edges \o to, EdgeRec, D) /\ Len(flow.edges \o to) = Len(flow.edges) + Len(to)
  <2>1. Concatenated(flow.edges, to, EdgeRec, D)
    BY <1>9, <1>10, <1>12, SoundConcat
  <2> QED BY <2>1 DEF Concatenated
<1>14. Between(flow.edges \o to, Ids(flow.nodes \o added))
  BY <1>9, <1>10, <1>11, BetweenConcat DEF Sound
<1> QED BY <1>5, <1>6, <1>7, <1>8, <1>9, <1>11, <1>13, <1>14 DEF added

\* An id made of `name` and the time is free, and begins with `name`.
LEMMA MadeId ==
    ASSUME now \in Nat, NEW name \in {"edge_append", "edge_append_end"},
           NEW s \in Seq(EdgeRec), NEW D, Time \in D, 0 .. 2 + Len(s) \subseteq D
    PROVE  LET id == UniqueId(<<name, Time>>, Ids(s))
           IN  id \in Id /\ id[1] = name /\ Dated(id, D) /\ id \notin Ids(s)
<1> DEFINE base == <<name, Time>>
           id == UniqueId(base, Ids(s))
           c == Cardinality(Ids(s))
<1>1. Time \in Nat /\ name \in Part /\ Nat \subseteq Part
  BY Clock DEF Part
<1>2. base \in Id /\ Dated(base, D) /\ base \in Seq(Part) /\ Len(base) = 2 /\ base[1] = name
  <2>1. base \in Id /\ Dated(base, D)
    BY <1>1, NewIdIs
  <2> QED BY <2>1 DEF Id
<1>3. IsFiniteSet(Ids(s)) /\ c \in Nat /\ c <= Len(s) /\ Len(s) \in Nat
  BY IdsFinite, LenProperties
<1> HIDE DEF base, c
<1>4. id \notin Ids(s) /\ (id = base \/ Suffix(id, base, 2, 2 + c))
  BY <1>1, <1>2, <1>3, UniqueIdIsFree DEF c
<1> HIDE DEF id
<1>5. CASE id = base
  BY <1>2, <1>4, <1>5 DEF id, base
<1>6. CASE Suffix(id, base, 2, 2 + c)
  <2>1. 2 \in Nat /\ 2 + c \in Nat /\ 2 .. 2 + c \subseteq D
    <3>1. \A k \in 2 .. 2 + c : k \in 0 .. 2 + Len(s)
      BY <1>3
    <3> QED BY <1>3, <3>1
  <2>2. id \in Id /\ Dated(id, D)
    BY <1>2, <1>6, <2>1, SuffixIs
  <2>3. id[1] = name
    <3>1. PICK n \in 2 .. 2 + c : id = Append(base, n)
      BY <1>6 DEF Suffix
    <3>2. n \in Part
      BY <1>1, <1>3
    <3>3. Append(base, n)[1] = base[1]
      <4>1. base \in Seq(Part) /\ 1 \in 1 .. Len(base)
        BY <1>2
      <4>2. \A i \in 1 .. Len(base) : Append(base, n)[i] = base[i]
        BY <3>2, <4>1, AppendProperties
      <4> QED BY <4>1, <4>2
    <3> QED BY <1>2, <3>1, <3>3, Zenon
  <2> QED BY <1>4, <2>2, <2>3 DEF id, base
<1> QED BY <1>4, <1>5, <1>6

\* The node the recorded steps are put behind is there: one of them is no end.
LEMMA BehindIs ==
    ASSUME NEW nodes \in Seq(NodeRec), NEW k \in 1 .. Len(nodes), nodes[k].type # "end"
    PROVE  BehindNode(nodes).id \in Ids(nodes)
<1> DEFINE chosen == {i \in DOMAIN nodes : nodes[i].id = selectedNode /\ nodes[i].type # "end"}
           open == {i \in DOMAIN nodes : nodes[i].type # "end"}
<1>1. chosen \subseteq 1 .. Len(nodes) /\ open \subseteq 1 .. Len(nodes) /\ open # {}
  BY LenProperties
<1>2. BehindNode(nodes) = IF chosen # {} THEN FirstOf(nodes, chosen) ELSE LastOf(nodes, open)
  BY Zenon DEF BehindNode
<1> HIDE DEF chosen, open
<1>3. \E i \in 1 .. Len(nodes) : LastOf(nodes, open) = nodes[i]
  BY <1>1, FirstAndLast
<1>4. chosen # {} => \E i \in 1 .. Len(nodes) : FirstOf(nodes, chosen) = nodes[i]
  BY <1>1, FirstAndLast
<1>5. \E i \in 1 .. Len(nodes) : BehindNode(nodes) = nodes[i]
  BY <1>2, <1>3, <1>4
<1> QED BY <1>5, IdsAre

\* There is an end: the nodes' own, or a new one.
LEMMA EndedIs ==
    ASSUME NEW D, NEW nodes, Sound(nodes, NodeRec, D), 0 .. 2 + Len(nodes) \subseteq D
    PROVE  /\ Sound(Ended(nodes), NodeRec, D) /\ Ids(nodes) \subseteq Ids(Ended(nodes))
           /\ Len(nodes) <= Len(Ended(nodes))
           /\ EndOf(Ended(nodes)).id \in Ids(Ended(nodes))
<1> DEFINE base == <<"n_end">>
           id == UniqueId(base, Ids(nodes))
           c == Cardinality(Ids(nodes))
           x == NewNode(id, "end")
           all == Ended(nodes)
<1>1. nodes \in Seq(NodeRec) /\ Len(nodes) \in Nat /\ DOMAIN nodes = 1 .. Len(nodes)
  BY LenProperties DEF Sound
<1>2. IsFiniteSet(Ids(nodes)) /\ c \in Nat /\ c <= Len(nodes)
  BY <1>1, IdsFinite
<1>3. base \in Id /\ base \in Seq(Part) /\ Nat \subseteq Part /\ Len(base) = 1 /\ "end" \in NodeType
  <2>1. "n_end" \in Part
    BY DEF Part
  <2> QED BY <2>1 DEF Part, Id, NodeType
<1> HIDE DEF base, c
<1>4. id \notin Ids(nodes) /\ (id = base \/ Suffix(id, base, 2, 2 + c))
  BY <1>2, <1>3, UniqueIdIsFree DEF c
<1>5. id \in Id /\ Dated(id, D)
  <2>1. id = base => id \in Id /\ Dated(id, D)
    BY <1>3 DEF Dated
  <2>2. 2 \in Nat /\ 2 + c \in Nat /\ 2 .. 2 + c \subseteq D
    <3>1. \A k \in 2 .. 2 + c : k \in 0 .. 2 + Len(nodes)
      BY <1>1, <1>2
    <3> QED BY <1>2, <3>1
  <2> HIDE DEF id
  <2>3. Suffix(id, base, 2, 2 + c) => id \in Id /\ Dated(id, D)
    BY <1>3, <2>2, SuffixIs
  <2> QED BY <1>4, <2>1, <2>3
<1> HIDE DEF id
<1>6. x \in NodeRec /\ x.id = id /\ x.type = "end"
  BY <1>3, <1>5 DEF NewNode, NodeRec, CasesOf
<1>7. all = IF OfType(nodes, "end") # {} THEN nodes ELSE Append(nodes, x)
  BY Zenon DEF Ended, id, base
<1> HIDE DEF x, all
<1>8. /\ Sound(Append(nodes, x), NodeRec, D) /\ Ids(Append(nodes, x)) = Ids(nodes) \union {x.id}
      /\ Len(Append(nodes, x)) = Len(nodes) + 1
  BY <1>4, <1>5, <1>6, SoundAppend
<1>9. Sound(all, NodeRec, D) /\ Ids(nodes) \subseteq Ids(all) /\ Len(nodes) <= Len(all)
  BY <1>1, <1>7, <1>8
<1>10. all \in Seq(NodeRec) /\ DOMAIN all = 1 .. Len(all)
  BY <1>9, LenProperties DEF Sound
<1>11. OfType(all, "end") # {} /\ OfType(all, "end") \subseteq 1 .. Len(all)
  <2>1. CASE OfType(nodes, "end") # {}
    BY <1>7, <1>10, <2>1 DEF OfType
  <2>2. CASE OfType(nodes, "end") = {}
    <3>1. all = Append(nodes, x) /\ Len(all) = Len(nodes) + 1
      BY <1>7, <1>8, <2>2
    <3>2. all[Len(nodes) + 1] = x /\ Len(nodes) + 1 \in 1 .. Len(all)
      BY <1>1, <1>6, <3>1, AppendProperties
    <3>3. Len(nodes) + 1 \in OfType(all, "end")
      BY <1>6, <1>10, <3>2 DEF OfType
    <3> QED BY <1>10, <3>3 DEF OfType
  <2> QED BY <2>1, <2>2
<1>12. \E i \in 1 .. Len(all) : EndOf(all) = all[i]
  <2> DEFINE I == OfType(all, "end")
  <2>1. I # {} /\ I \subseteq 1 .. Len(all)
    BY <1>11
  <2>2. EndOf(all) = FirstOf(all, I)
    BY DEF EndOf
  <2> HIDE DEF I
  <2>3. \E i \in 1 .. Len(all) : FirstOf(all, I) = all[i]
    BY <1>10, <2>1, FirstAndLast
  <2> QED BY <2>2, <2>3
<1>13. EndOf(all).id \in Ids(all)
  BY <1>10, <1>12, IdsAre
<1> QED BY <1>9, <1>13 DEF all

\* The flow with the recorded steps behind a node and an end behind them.
LEMMA Appended ==
    ASSUME IInv, NEW r \in Recordings, Actions(r) # <<>>,
           NEW D, Time \in D, 0 .. Time - 1 \subseteq D,
           Roomy(D, Len(flow.nodes), Len(Actions(r))), Roomy(D, Len(flow.edges), Len(Inner(r)))
    PROVE  LET f == AppendMappedFlow(flow, r, selectedNode, Time)
           IN  /\ FlowSound(f, D)
               /\ Len(flow.nodes) + Len(Actions(r)) <= Len(f.nodes)
               /\ Len(flow.edges) + Len(Inner(r)) <= Len(f.edges)
<1> DEFINE nodes == NodesWith(r)
           edges == EdgesWith(r)
           all == Ended(nodes)
           i1 == UniqueId(<<"edge_append", Time>>, Ids(edges))
           i2 == UniqueId(<<"edge_append_end", Time>>, Ids(edges))
           a == LinkOf(i1, BehindNode(nodes).id, Added(r)[1].id)
           b == LinkOf(i2, Last(Added(r)).id, EndOf(all).id)
           n == Len(flow.nodes)
           m == Len(Actions(r))
<1>1. /\ now \in Nat /\ n \in Nat /\ Len(flow.edges) \in Nat
      /\ m \in Nat /\ m # 0 /\ Len(Inner(r)) \in Nat
  <2>1. Actions(r) \in Seq(NodeRec) /\ Inner(r) \in Seq(EdgeRec)
    BY ActionsAre
  <2>2. m # 0
    BY <2>1, EmptySeq
  <2> QED BY <2>1, <2>2, Parts, LenProperties
<1>2. /\ Sound(nodes, NodeRec, D) /\ Len(nodes) = n + m
      /\ Sound(edges, EdgeRec, D) /\ Len(edges) = Len(flow.edges) + Len(Inner(r))
      /\ Between(edges, Ids(nodes))
      /\ Added(r) \in Seq(NodeRec) /\ Len(Added(r)) = m
      /\ Ids(nodes) = Ids(flow.nodes) \union Ids(Added(r))
      /\ \A k \in 1 .. Len(Added(r)) : nodes[n + k] = Added(r)[k]
      /\ \A k \in 1 .. Len(Added(r)) : Added(r)[k].type # "end"
  BY WithRecorded
<1>3. AppendMappedFlow(flow, r, selectedNode, Time) = [nodes |-> all, edges |-> edges \o <<a, b>>]
  BY AppendedIs, Zenon
<1> HIDE DEF nodes, edges, n, m
<1>4. 0 .. 2 + Len(nodes) \subseteq D /\ 0 .. 2 + Len(edges) \subseteq D
  <2>1. \A k \in 0 .. 2 + Len(nodes) : k \in Nat /\ k <= 2 + n + m
    BY <1>1, <1>2
  <2>2. \A k \in 0 .. 2 + Len(edges) : k \in Nat /\ k <= 2 + Len(flow.edges) + Len(Inner(r))
    BY <1>1, <1>2
  <2> QED BY <2>1, <2>2 DEF Roomy, n, m
<1>5. nodes \in Seq(NodeRec) /\ edges \in Seq(EdgeRec)
  BY <1>2 DEF Sound
<1>6. /\ Sound(all, NodeRec, D) /\ Ids(nodes) \subseteq Ids(all) /\ Len(nodes) <= Len(all)
      /\ EndOf(all).id \in Ids(all)
  BY <1>2, <1>4, EndedIs
<1> HIDE DEF all
<1>7. BehindNode(nodes).id \in Ids(nodes)
  <2>1. 1 \in 1 .. Len(Added(r)) /\ n + 1 \in 1 .. Len(nodes)
    BY <1>1, <1>2
  <2>2. nodes[n + 1].type # "end"
    BY <1>2, <2>1
  <2> QED BY <1>5, <2>1, <2>2, BehindIs
<1>8. Added(r)[1].id \in Ids(nodes) /\ Last(Added(r)).id \in Ids(nodes)
  <2>1. 1 \in 1 .. Len(Added(r)) /\ Len(Added(r)) \in 1 .. Len(Added(r))
    BY <1>1, <1>2
  <2>2. Added(r)[1].id \in Ids(Added(r)) /\ Added(r)[Len(Added(r))].id \in Ids(Added(r))
    BY <1>2, <2>1, IdsAre
  <2> QED BY <1>2, <2>2 DEF Last
<1>9. /\ i1 \in Id /\ i1[1] = "edge_append" /\ Dated(i1, D) /\ i1 \notin Ids(edges)
      /\ i2 \in Id /\ i2[1] = "edge_append_end" /\ Dated(i2, D) /\ i2 \notin Ids(edges)
  BY <1>1, <1>4, <1>5, MadeId
<1>10. i1 # i2
  BY <1>9
<1> HIDE DEF i1, i2
<1>11. /\ a \in EdgeRec /\ a.id = i1 /\ a.src \in Ids(all) /\ a.dst \in Ids(all)
       /\ b \in EdgeRec /\ b.id = i2 /\ b.src \in Ids(all) /\ b.dst \in Ids(all)
  <2>1. Ids(all) \subseteq End /\ "" \in Cond
    <3>1. Ids(all) \subseteq Id
      BY <1>6, NodeIdsAre DEF Sound
    <3> QED BY <3>1 DEF End, Cond, Port
  <2>2. a = [id |-> i1, src |-> BehindNode(nodes).id, dst |-> Added(r)[1].id, cond |-> ""]
    BY DEF LinkOf
  <2>3. b = [id |-> i2, src |-> Last(Added(r)).id, dst |-> EndOf(all).id, cond |-> ""]
    BY DEF LinkOf
  <2> HIDE DEF a, b
  <2>4. /\ BehindNode(nodes).id \in Ids(all) /\ Added(r)[1].id \in Ids(all)
        /\ Last(Added(r)).id \in Ids(all) /\ EndOf(all).id \in Ids(all)
    BY <1>6, <1>7, <1>8
  <2>5. a \in EdgeRec /\ a.id = i1 /\ a.src \in Ids(all) /\ a.dst \in Ids(all)
    BY <1>9, <2>1, <2>2, <2>4 DEF EdgeRec
  <2>6. b \in EdgeRec /\ b.id = i2 /\ b.src \in Ids(all) /\ b.dst \in Ids(all)
    BY <1>9, <2>1, <2>3, <2>4 DEF EdgeRec
  <2> QED BY <2>5, <2>6
<1> HIDE DEF a, b
<1>12. /\ Sound(Append(edges, a), EdgeRec, D) /\ Ids(Append(edges, a)) = Ids(edges) \union {a.id}
       /\ Len(Append(edges, a)) = Len(edges) + 1
  BY <1>2, <1>9, <1>11, SoundAppend
<1>13. Sound(Append(Append(edges, a), b), EdgeRec, D) /\ Len(Append(Append(edges, a), b)) = Len(edges) + 1 + 1
  <2>1. b.id \notin Ids(Append(edges, a)) /\ Dated(b.id, D)
    BY <1>9, <1>10, <1>11, <1>12
  <2>2. Len(Append(Append(edges, a), b)) = Len(Append(edges, a)) + 1
          /\ Sound(Append(Append(edges, a), b), EdgeRec, D)
    BY <1>11, <1>12, <2>1, SoundAppend
  <2> QED BY <1>12, <2>2
<1>14. Between(Append(Append(edges, a), b), Ids(all))
  <2>1. Between(edges, Ids(all))
    BY <1>2, <1>6 DEF Between
  <2>2. Between(Append(edges, a), Ids(all)) /\ Append(edges, a) \in Seq(EdgeRec)
    BY <1>5, <1>11, <2>1, BetweenAppend, AppendProperties
  <2> QED BY <1>11, <2>2, BetweenAppend
<1>15. edges \o <<a, b>> = Append(Append(edges, a), b)
  BY <1>5, <1>11, TwoMore
<1> DEFINE f == [nodes |-> all, edges |-> edges \o <<a, b>>]
<1>16. /\ Sound(f.nodes, NodeRec, D) /\ Sound(f.edges, EdgeRec, D)
       /\ Between(f.edges, Ids(f.nodes))
       /\ f = [nodes |-> f.nodes, edges |-> f.edges]
  BY <1>6, <1>13, <1>14, <1>15
<1>17. n + m <= Len(f.nodes)
  BY <1>1, <1>2, <1>6
<1>18. Len(flow.edges) + Len(Inner(r)) <= Len(f.edges)
  BY <1>1, <1>2, <1>13, <1>15
<1> HIDE DEF f
<1> QED BY <1>3, <1>16, <1>17, <1>18 DEF FlowSound, f, n, m

LEMMA AppendKeeps ==
    ASSUME IInv, NEW r \in Recordings, NEW node,
           Become(AppendMappedFlow(flow, r, selectedNode, Time), node, None)
    PROVE  IInv'
<1> DEFINE f == AppendMappedFlow(flow, r, selectedNode, Time)
<1>1. /\ now \in Nat /\ Len(flow.nodes) \in Nat /\ Len(flow.edges) \in Nat
      /\ Time \in Nat /\ Gap \in Nat /\ Gap >= 2
      /\ MaxNodes \in Nat /\ MaxEdges \in Nat
      /\ 1 + 2 * MaxNodes < Gap /\ 1 + 2 * MaxEdges < Gap
  BY Parts, Clock
<1>2. Time \in Soon /\ 0 .. Time - 1 \subseteq Soon
  BY <1>1 DEF Soon
<1>3. Become(f, node, None)
  OBVIOUS
<1>4. CASE Actions(r) = <<>>
  <2>1. f = flow
    BY <1>4, NothingAppended
  <2> HIDE DEF f
  <2>2. FlowSound(f, Soon)
    BY <1>2, <2>1, Parts, SoundGrows DEF FlowSound
  <2> QED BY <1>3, <2>2, Becoming
<1>5. CASE Actions(r) # <<>>
  <2>1. Len(Actions(r)) \in Nat /\ Len(Inner(r)) \in Nat
    BY ActionsAre, LenProperties
  <2>2. /\ Len(flow.nodes) + Len(Actions(r)) <= Len(f.nodes)
        /\ Len(flow.edges) + Len(Inner(r)) <= Len(f.edges)
        /\ Len(f.nodes) \in Nat /\ Len(f.edges) \in Nat
    <3>1. Time \in Nat /\ 0 .. Time - 1 \subseteq Nat
      BY <1>1
    <3>2. /\ Len(flow.nodes) + Len(Actions(r)) <= Len(f.nodes)
          /\ Len(flow.edges) + Len(Inner(r)) <= Len(f.edges)
          /\ FlowSound(f, Nat)
      BY <1>5, <3>1, AlwaysRoom, Appended
    <3> HIDE DEF f
    <3> QED BY <3>2, LenProperties DEF FlowSound, Sound
  <2> HIDE DEF f
  <2>3. Len(f.nodes) <= MaxNodes /\ Len(f.edges) <= MaxEdges
    BY <1>3, BecomeBounds
  <2>4. Roomy(Soon, Len(flow.nodes), Len(Actions(r)))
    <3>1. Len(flow.nodes) + Len(Actions(r)) <= 2 * MaxNodes
      BY <1>1, <2>1, <2>2, <2>3
    <3> QED BY <1>1, <2>1, <3>1, RoomNow
  <2>5. Roomy(Soon, Len(flow.edges), Len(Inner(r)))
    <3>1. Len(flow.edges) + Len(Inner(r)) <= 2 * MaxEdges
      BY <1>1, <2>1, <2>2, <2>3
    <3> QED BY <1>1, <2>1, <3>1, RoomNow
  <2>6. FlowSound(f, Soon)
    BY <1>2, <1>5, <2>4, <2>5, Appended DEF f
  <2> QED BY <1>3, <2>6, Becoming
<1> QED BY <1>4, <1>5

LEMMA ImportRecordingKeeps ==
    ASSUME IInv, NEW strategy \in {"replace", "append", "preview"}, NEW r \in Recordings,
           ImportRecording(strategy, r)
    PROVE  IInv'
<1> DEFINE f == ApplyRecorderImport(strategy, flow, r, selectedNode, Time)
           node == IF f.nodes = <<>> THEN None ELSE f.nodes[1].id
<1>1. strategy = "preview" => UNCHANGED vars
  BY Zenon DEF ImportRecording
<1>2. strategy # "preview" => Become(f, node, None)
  BY Zenon DEF ImportRecording
<1>3. strategy = "replace" => f = EnsureUniqueFlowIds(r, flow)
  BY Zenon DEF ApplyRecorderImport
<1>4. strategy = "append" => f = AppendMappedFlow(flow, r, selectedNode, Time)
  BY Zenon DEF ApplyRecorderImport
<1> HIDE DEF f, node
<1>5. CASE strategy = "preview"
  BY <1>1, <1>5 DEF vars, IInv, Time
<1>6. CASE strategy = "replace"
  <2>1. Become(EnsureUniqueFlowIds(r, flow), node, None)
    BY <1>2, <1>3, <1>6
  <2> QED BY <2>1, ReplaceKeeps
<1>7. CASE strategy = "append"
  <2>1. Become(AppendMappedFlow(flow, r, selectedNode, Time), node, None)
    BY <1>2, <1>4, <1>7
  <2> QED BY <2>1, AppendKeeps
<1> QED BY <1>5, <1>6, <1>7

-----------------------------------------------------------------------------
(* The theorems *)

LEMMA SelectionKeeps ==
    ASSUME IInv, UNCHANGED <<flow, now>>, selectedNode' \in Ids(flow.nodes) \union {None}
    PROVE  IInv'
BY DEF IInv, Time

LEMMA NextKeeps ==
    ASSUME IInv, [Next]_vars
    PROVE  IInv'
<1>1. CASE UNCHANGED vars
  BY <1>1 DEF vars, IInv, Time
<1>2. CASE SelectNode
  <2>1. UNCHANGED <<flow, now>> /\ selectedNode' \in Ids(flow.nodes) \union {None}
    BY <1>2 DEF SelectNode
  <2> QED BY <2>1, SelectionKeeps
<1>3. CASE SelectEdge
  <2>1. UNCHANGED <<flow, now>> /\ selectedNode' = None
    BY <1>3 DEF SelectEdge
  <2> QED BY <2>1, SelectionKeeps
<1>4. CASE RemoveEdge
  BY <1>4, RemoveEdgeKeeps
<1>5. CASE Normalize
  BY <1>5, NormalizeKeeps
<1>6. CASE \E type \in Types : UpdateNodeType(type)
  BY <1>6, UpdateNodeTypeKeeps
<1>7. CASE \E type \in OfferedTypes("canvas") : AddNode(type)
  <2>1. OfferedTypes("canvas") \subseteq Types
    BY DEF OfferedTypes
  <2> QED BY <1>7, <2>1, AddNodeKeeps
<1>8. CASE \E type \in OfferedTypes("source"), id \in Ids(flow.nodes) : AddNodeFromSource(id, type)
  <2>1. OfferedTypes("source") \subseteq Types
    BY DEF OfferedTypes
  <2> QED BY <1>8, <2>1, AddNodeFromSourceKeeps
<1>9. CASE \E type \in OfferedTypes("edge"), id \in Ids(flow.edges) : InsertNodeOnEdge(id, type)
  <2>1. OfferedTypes("edge") \subseteq Types
    BY DEF OfferedTypes
  <2> QED BY <1>9, <2>1, InsertNodeOnEdgeKeeps
<1>10. CASE \E id \in Ids(flow.nodes) : RemoveNode(id)
  BY <1>10, RemoveNodeKeeps
<1>11. CASE \E source, target \in Ids(flow.nodes) :
               \E port \in Handles(Node(flow, source)) : AddEdge(source, target, port)
  BY <1>11, AddEdgeKeeps
<1>12. CASE \E cases \in CaseLists : UpdateNodeCases(cases)
  BY <1>12, UpdateNodeCasesKeeps
<1>13. CASE \E cond \in Conditions : UpdateEdge(cond)
  BY <1>13, UpdateEdgeKeeps
<1>14. CASE \E f \in LoadedFlows : LoadFlow(f)
  BY <1>14, LoadFlowKeeps
<1>15. CASE \E strategy \in {"replace", "append", "preview"}, r \in Recordings :
               ImportRecording(strategy, r)
  BY <1>15, ImportRecordingKeeps
<1> QED BY <1>1, <1>2, <1>3, <1>4, <1>5, <1>6, <1>7, <1>8, <1>9, <1>10, <1>11, <1>12, <1>13,
           <1>14, <1>15, Zenon DEF Next

\* In every state: sound ids, edges between nodes of the flow, numbers older
\* than the next operation, and a selected node the flow has.
THEOREM Inductive == Spec => []IInv
<1>1. Init => IInv
  BY InitKeeps
<1>2. IInv /\ [Next]_vars => IInv'
  BY NextKeeps
<1> QED BY <1>1, <1>2, PTL DEF Spec

\* Whatever is added, removed, retyped, imported, opened or normalised, in
\* whatever order, for any documents, recordings, node types and bounds: every
\* edge joins two nodes of the flow, and no two nodes, or edges, share an id.
THEOREM GraphStaysIntact == Spec => []FlowIntact
<1>1. IInv => FlowIntact
  BY IntactFlow DEF IInv, FlowIntact
<1> QED BY <1>1, Inductive, PTL

-----------------------------------------------------------------------------
(* The cases of a switch *)

CasesStep(seen, c) == IF c = "" \/ Contains(seen, c) THEN seen ELSE Append(seen, c)
Deduped(raw) == FoldLeft(CasesStep, <<>>, raw)

CasesRun(raw, f) ==
    /\ f[0] = <<>>
    /\ f[Len(raw)] = FoldLeft(CasesStep, <<>>, raw)
    /\ \A k \in 1 .. Len(raw) : f[k] = CasesStep(f[k - 1], raw[k])

LEMMA CasesLoop ==
    ASSUME NEW T, NEW raw \in Seq(T)
    PROVE  \E f : CasesRun(raw, f)
<1> DEFINE n == Len(raw)
           X == Seq(T)
           step == [p \in (1 .. n) \X X |-> CasesStep(p[2], raw[p[1]])]
           Fits(iter) == iter = [S \in SUBSET DOMAIN raw |->
                                    IF S = {} THEN <<>>
                                    ELSE CasesStep(iter[S \ {Max(S)}], raw[Max(S)])]
           it == CHOOSE iter : Fits(iter)
<1>1. n \in Nat /\ DOMAIN raw = 1 .. n /\ \A i \in 1 .. n : raw[i] \in T
  BY LenProperties
<1>2. StepsIn(step, n, X)
  <2>1. \A i \in 1 .. n, x \in X : CasesStep(x, raw[i]) \in X
    BY <1>1, AppendProperties DEF CasesStep
  <2> HIDE DEF X
  <2> QED BY <2>1 DEF StepsIn
<1>3. FoldLeft(CasesStep, <<>>, raw) = it[1 .. n]
  <2>1. FoldLeft(CasesStep, <<>>, raw) = it[DOMAIN raw]
    BY Zenon DEF FoldLeft, MapThenFoldSet
  <2> HIDE DEF it
  <2> QED BY <1>1, <2>1
<1>4. PICK g : Fits(g)
  <2>1. <<>> \in X
    OBVIOUS
  <2>2. PICK g \in [SUBSET (1 .. n) -> X] : FoldsUp(g, n, <<>>, step)
    <3> HIDE DEF X, step
    <3> QED BY <1>1, <1>2, <2>1, FoldExists DEF FoldHas
  <2>3. ASSUME NEW S \in SUBSET (1 .. n), S # {}
        PROVE  Max(S) \in 1 .. n /\ S \ {Max(S)} \in SUBSET (1 .. n)
    BY <1>1, <2>3, MaxIn
  <2>4. \A S \in SUBSET (1 .. n) :
           g[S] = IF S = {} THEN <<>>
                  ELSE CasesStep(g[S \ {Max(S)}], raw[Max(S)])
    <3>1. \A S \in SUBSET (1 .. n) : S # {} =>
             step[<<Max(S), g[S \ {Max(S)}]>>] = CasesStep(g[S \ {Max(S)}], raw[Max(S)])
      <4>1. \A S \in SUBSET (1 .. n) : S # {} => g[S \ {Max(S)}] \in X
        <5> HIDE DEF X, step
        <5> QED BY <2>2, <2>3
      <4> HIDE DEF X
      <4> QED BY <2>3, <4>1
    <3> HIDE DEF X, step
    <3> QED BY <2>2, <3>1 DEF FoldsUp
  <2>5. Fits(g)
    <3> HIDE DEF X
    <3> QED BY <1>1, <2>2, <2>4
  <2> QED BY <2>5
<1>5. Fits(it)
  <2> HIDE DEF Fits
  <2> QED BY <1>4
<1>6. /\ it[1 .. 0] = <<>>
      /\ \A k \in 1 .. n : it[1 .. k] = CasesStep(it[1 .. (k - 1)], raw[k])
  <2>1. it[{}] = <<>>
    <3> HIDE DEF it
    <3> QED BY <1>5
  <2>2. ASSUME NEW k \in 1 .. n
        PROVE  it[1 .. k] = CasesStep(it[1 .. (k - 1)], raw[k])
    <3>1. 1 .. k \in SUBSET (1 .. n)
      BY <1>1
    <3>2. k \in Nat /\ 1 .. k # {} /\ Max(1 .. k) = k /\ (1 .. k) \ {k} = 1 .. (k - 1)
      BY <1>1, LastOfInterval
    <3>3. it[1 .. k] = CasesStep(it[(1 .. k) \ {Max(1 .. k)}], raw[Max(1 .. k)])
      <4> HIDE DEF it
      <4> QED BY <1>1, <1>5, <3>1, <3>2
    <3> HIDE DEF it
    <3> QED BY <3>2, <3>3
  <2>3. 1 .. 0 = {}
    OBVIOUS
  <2> HIDE DEF it
  <2> QED BY <2>1, <2>2, <2>3
<1> DEFINE f == [k \in 0 .. n |-> it[1 .. k]]
<1>7. f[0] = <<>> /\ f[n] = FoldLeft(CasesStep, <<>>, raw)
  <2> HIDE DEF it
  <2> QED BY <1>1, <1>3, <1>6
<1>8. \A k \in 1 .. n : f[k] = CasesStep(f[k - 1], raw[k])
  <2> HIDE DEF it
  <2> QED BY <1>1, <1>6
<1> HIDE DEF f
<1> QED BY <1>7, <1>8 DEF CasesRun

\* Named cases, none twice.
Clean(s) ==
    \A i \in 1 .. Len(s) : s[i] # "" /\ \A j \in 1 .. Len(s) : s[i] = s[j] => i = j

LEMMA AppendIs ==
    ASSUME NEW T, NEW s \in Seq(T), NEW c \in T
    PROVE  /\ Len(s) \in Nat /\ Append(s, c) \in Seq(T) /\ Len(Append(s, c)) = Len(s) + 1
           /\ Append(s, c)[Len(s) + 1] = c /\ \A i \in 1 .. Len(s) : Append(s, c)[i] = s[i]
           /\ \A i \in 1 .. Len(Append(s, c)) : i = Len(s) + 1 \/ i \in 1 .. Len(s)
<1>1. Len(s) \in Nat
  BY LenProperties
<1>2. /\ Append(s, c) \in Seq(T) /\ Len(Append(s, c)) = Len(s) + 1
      /\ Append(s, c)[Len(s) + 1] = c /\ \A i \in 1 .. Len(s) : Append(s, c)[i] = s[i]
  BY <1>1, AppendProperties
<1> QED BY <1>1, <1>2

LEMMA AppendClean ==
    ASSUME NEW T, NEW s \in Seq(T), NEW c \in T
    PROVE  Clean(s) /\ c # "" /\ ~ Contains(s, c) => Append(s, c) \in Seq(T) /\ Clean(Append(s, c))
<1> DEFINE t == Append(s, c)
<1>1. /\ t \in Seq(T) /\ Len(t) = Len(s) + 1 /\ t[Len(s) + 1] = c
      /\ \A i \in 1 .. Len(s) : t[i] = s[i]
      /\ \A i \in 1 .. Len(t) : i = Len(s) + 1 \/ i \in 1 .. Len(s)
  BY AppendIs
<1> HIDE DEF t
<1> HAVE Clean(s) /\ c # "" /\ ~ Contains(s, c)
<1>2. \A i \in 1 .. Len(s) : s[i] # c
  BY DEF Contains
<1>3. Clean(t)
  BY <1>1, <1>2 DEF Clean
<1> QED BY <1>1, <1>3 DEF t

LEMMA CasesStepClean ==
    ASSUME NEW T, NEW s \in Seq(T), Clean(s), NEW c \in T
    PROVE  CasesStep(s, c) \in Seq(T) /\ Clean(CasesStep(s, c))
<1>1. CASE c = "" \/ Contains(s, c)
  BY <1>1 DEF CasesStep
<1>2. CASE c # "" /\ ~ Contains(s, c)
  BY <1>2, AppendClean DEF CasesStep
<1> QED BY <1>1, <1>2

LEMMA DedupedClean ==
    ASSUME NEW T, NEW raw \in Seq(T)
    PROVE  Deduped(raw) \in Seq(T) /\ Clean(Deduped(raw))
<1>1. PICK f : CasesRun(raw, f)
  BY CasesLoop
<1>2. Len(raw) \in Nat /\ \A i \in 1 .. Len(raw) : raw[i] \in T
  BY LenProperties
<1> DEFINE G == {k \in 0 .. Len(raw) : f[k] \in Seq(T) /\ Clean(f[k])}
<1>3. 0 \in G
  <2>1. <<>> \in Seq(T) /\ Clean(<<>>)
    BY EmptySeq DEF Clean
  <2>2. f[0] = <<>> /\ 0 \in 0 .. Len(raw)
    BY <1>1, <1>2 DEF CasesRun
  <2> QED BY <2>1, <2>2
<1>4. ASSUME NEW k \in 1 .. Len(raw), k - 1 \in G
      PROVE  k \in G
  <2>1. f[k - 1] \in Seq(T) /\ Clean(f[k - 1])
    BY <1>4
  <2>2. f[k] = CasesStep(f[k - 1], raw[k]) /\ raw[k] \in T
    BY <1>1, <1>2 DEF CasesRun
  <2>3. f[k] \in Seq(T) /\ Clean(f[k])
    BY <2>1, <2>2, CasesStepClean
  <2> QED BY <1>2, <2>3
<1>5. Len(raw) \in G
  <2> HIDE DEF G
  <2>1. \A k \in 0 .. Len(raw) : k \in G
    BY <1>2, <1>3, <1>4, UpTo
  <2> QED BY <1>2, <2>1
<1> QED BY <1>1, <1>5 DEF CasesRun, Deduped

\* Nothing is removed from clean cases.
LEMMA DedupedTwice ==
    ASSUME NEW T, NEW raw \in Seq(T), Clean(raw)
    PROVE  Deduped(raw) = raw
<1>1. PICK f : CasesRun(raw, f)
  BY CasesLoop
<1>2. Len(raw) \in Nat /\ \A i \in 1 .. Len(raw) : raw[i] \in T
  BY LenProperties
<1> DEFINE Same(s, k) == s \in Seq(T) /\ Len(s) = k /\ \A i \in 1 .. k : s[i] = raw[i]
           G == {k \in 0 .. Len(raw) : Same(f[k], k)}
<1>3. 0 \in G
  <2>1. <<>> \in Seq(T) /\ Len(<<>>) = 0 /\ 1 .. 0 = {}
    OBVIOUS
  <2>2. f[0] = <<>> /\ 0 \in 0 .. Len(raw)
    BY <1>1, <1>2 DEF CasesRun
  <2> QED BY <2>1, <2>2
<1>4. ASSUME NEW k \in 1 .. Len(raw), k - 1 \in G
      PROVE  k \in G
  <2> DEFINE s == f[k - 1]
  <2>1. s \in Seq(T) /\ Len(s) = k - 1 /\ \A i \in 1 .. (k - 1) : s[i] = raw[i]
    BY <1>4
  <2>2. f[k] = CasesStep(s, raw[k]) /\ raw[k] \in T /\ k \in Nat
    BY <1>1, <1>2 DEF CasesRun
  <2> HIDE DEF s
  <2>3. ~ Contains(s, raw[k]) /\ raw[k] # ""
    <3>1. \A i \in 1 .. (k - 1) : i \in 1 .. Len(raw) /\ i # k
      BY <1>2
    <3> QED BY <2>1, <3>1 DEF Contains, Clean
  <2>4. f[k] = Append(s, raw[k])
    BY <2>2, <2>3 DEF CasesStep
  <2>5. /\ f[k] \in Seq(T) /\ Len(f[k]) = k /\ f[k][k] = raw[k]
        /\ \A i \in 1 .. (k - 1) : f[k][i] = raw[i]
    BY <2>1, <2>2, <2>4, AppendProperties
  <2>6. \A i \in 1 .. k : i = k \/ i \in 1 .. (k - 1)
    BY <2>2
  <2> QED BY <1>2, <2>5, <2>6
<1>5. Len(raw) \in G
  <2> HIDE DEF G
  <2>1. \A k \in 0 .. Len(raw) : k \in G
    BY <1>2, <1>3, <1>4, UpTo
  <2> QED BY <1>2, <2>1
<1>6. Same(Deduped(raw), Len(raw))
  BY <1>1, <1>5 DEF CasesRun, Deduped
<1> DEFINE d == Deduped(raw)
<1>7. d \in Seq(T) /\ Len(d) = Len(raw) /\ \A i \in 1 .. Len(raw) : d[i] = raw[i]
  BY <1>6
<1> HIDE DEF d
<1>8. d = raw
  BY <1>7, SeqEqual
<1> QED BY <1>8 DEF d

\* What is offered as cases stays on offer when the cases are normalised again.
LEMMA CasesTwice ==
    ASSUME NEW T, NEW raw \in Seq(T), "default" \in T
    PROVE  ToSet(NormalizeSwitchCaseOptions(raw))
             \subseteq ToSet(NormalizeSwitchCaseOptions(NormalizeSwitchCaseOptions(raw)))
<1> DEFINE Cut(s) == IF Len(s) <= MaxCases THEN s ELSE SubSeq(s, 1, MaxCases)
           all == DefaultLast(Deduped(raw))
           once == Cut(all)
<1>1. \A s : NormalizeSwitchCaseOptions(s) = Cut(DefaultLast(Deduped(s)))
  BY Zenon DEF NormalizeSwitchCaseOptions, Deduped, CasesStep
<1>2. MaxCases \in Nat \ {0}
  BY MaxCasesAssumption
<1>3. all \in Seq(T) /\ Clean(all) /\ Len(all) \in Nat
  <2> DEFINE d == Deduped(raw)
  <2>1. d \in Seq(T) /\ Clean(d)
    BY DedupedClean
  <2> HIDE DEF d
  <2>2. CASE Contains(d, "default")
    <3>1. DefaultLast(d) = d
      BY <2>2 DEF DefaultLast
    <3> QED BY <2>1, <3>1, LenProperties DEF d
  <2>3. CASE ~ Contains(d, "default")
    <3>1. DefaultLast(d) = Append(d, "default")
      BY <2>3 DEF DefaultLast
    <3>2. DefaultLast(d) \in Seq(T) /\ Clean(DefaultLast(d))
      BY <2>1, <2>3, <3>1, AppendClean
    <3> QED BY <3>2, LenProperties DEF d
  <2> QED BY <2>2, <2>3
<1> HIDE DEF all
<1>4. once \in Seq(T) /\ Clean(once) /\ Len(once) \in Nat /\ Len(once) <= MaxCases
  <2>1. CASE Len(all) <= MaxCases
    BY <1>3, <2>1
  <2>2. CASE ~ Len(all) <= MaxCases
    <3>1. once = SubSeq(all, 1, MaxCases)
      BY <2>2
    <3>2. /\ SubSeq(all, 1, MaxCases) \in Seq(T) /\ Len(SubSeq(all, 1, MaxCases)) = MaxCases
          /\ \A i \in 1 .. MaxCases : SubSeq(all, 1, MaxCases)[i] = all[i]
      <4>1. \A i \in 1 .. MaxCases : i \in 1 .. Len(all)
        BY <1>2, <1>3, <2>2
      <4>2. \A i \in 1 .. MaxCases : all[i] \in T
        BY <1>3, <4>1, LenProperties
      <4>3. SubSeq(all, 1, MaxCases) = [i \in 1 .. MaxCases |-> all[i]]
        BY <1>2, <1>3, <2>2 DEF SubSeq
      <4>4. [i \in 1 .. MaxCases |-> all[i]] \in Seq(T) /\ Len([i \in 1 .. MaxCases |-> all[i]]) = MaxCases
        BY <1>2, <4>2
      <4> QED BY <4>3, <4>4
    <3> HIDE DEF once
    <3>3. \A i \in 1 .. MaxCases : i \in 1 .. Len(all) /\ once[i] = all[i]
      BY <1>2, <1>3, <2>2, <3>1, <3>2
    <3>4. once \in Seq(T) /\ Len(once) = MaxCases
      BY <3>1, <3>2
    <3>5. Clean(once)
      BY <1>3, <3>3, <3>4 DEF Clean
    <3> QED BY <1>2, <3>4, <3>5
  <2> QED BY <2>1, <2>2
<1> HIDE DEF once
<1>5. NormalizeSwitchCaseOptions(raw) = once
  BY <1>1 DEF once, all
<1>6. Deduped(once) = once
  BY <1>4, DedupedTwice
<1>7. ToSet(once) \subseteq ToSet(Cut(DefaultLast(once)))
  <2>1. CASE Contains(once, "default")
    BY <1>4, <2>1 DEF DefaultLast
  <2>2. CASE ~ Contains(once, "default")
    <3> DEFINE more == Append(once, "default")
    <3>1. DefaultLast(once) = more
      BY <2>2 DEF DefaultLast
    <3>2. more \in Seq(T) /\ Len(more) = Len(once) + 1 /\ \A i \in 1 .. Len(once) : more[i] = once[i]
      BY <1>4, AppendProperties
    <3> HIDE DEF more
    <3>3. CASE Len(more) <= MaxCases
      <4>1. \A i \in 1 .. Len(once) : i \in 1 .. Len(more)
        BY <1>4, <3>2
      <4>2. DOMAIN once = 1 .. Len(once) /\ DOMAIN more = 1 .. Len(more)
        BY <1>4, <3>2, LenProperties
      <4> QED BY <3>1, <3>2, <3>3, <4>1, <4>2 DEF ToSet
    <3>4. CASE ~ Len(more) <= MaxCases
      <4>1. Len(once) = MaxCases
        BY <1>2, <1>4, <3>2, <3>4
      <4>2. SubSeq(more, 1, MaxCases) = [i \in 1 .. MaxCases |-> more[i]]
        BY <1>2, <3>2, <4>1 DEF SubSeq
      <4>3. DOMAIN once = 1 .. MaxCases
        BY <1>4, <4>1, LenProperties
      <4> QED BY <3>1, <3>2, <3>4, <4>1, <4>2, <4>3 DEF ToSet
    <3> QED BY <3>3, <3>4
  <2> QED BY <2>1, <2>2
<1> QED BY <1>1, <1>5, <1>6, <1>7

-----------------------------------------------------------------------------
(* Where the nodes of a flow come from *)

\* A node with a new id, or an old one with its cases.
From(x, old) ==
    /\ x.id # Blank
    /\ x.id \in Ids(old) => \E i \in 1 .. Len(old) : old[i].id = x.id /\ old[i].cases = x.cases

NodesFrom(new, old) == \A j \in 1 .. Len(new) : From(new[j], old)

NoBlankId == Blank \notin Ids(flow.nodes)

StartIds(nodes) == {nodes[i].id : i \in OfType(nodes, "start")}

LEMMA SuffixNotBlank ==
    ASSUME NEW id, NEW base \in Seq(Part), NEW from, NEW to, from \in Nat, Suffix(id, base, from, to)
    PROVE  id # Blank
<1>1. PICK n \in from .. to : id = Append(base, n)
  BY DEF Suffix
<1>2. n \in Part
  BY DEF Part
<1>3. Append(base, n) # <<>>
  BY <1>2, AppendProperties
<1> QED BY <1>1, <1>3 DEF Blank

LEMMA FromSelf ==
    ASSUME NEW s \in Seq(NodeRec), Blank \notin Ids(s)
    PROVE  NodesFrom(s, s)
BY IdsAre DEF NodesFrom, From

LEMMA FromAppend ==
    ASSUME NEW t \in Seq(NodeRec), NEW old, NodesFrom(t, old),
           NEW x \in NodeRec, x.id # Blank, x.id \notin Ids(old)
    PROVE  NodesFrom(Append(t, x), old)
<1>1. From(x, old)
  BY DEF From
<1>2. /\ Append(t, x)[Len(t) + 1] = x /\ \A i \in 1 .. Len(t) : Append(t, x)[i] = t[i]
      /\ \A i \in 1 .. Len(Append(t, x)) : i = Len(t) + 1 \/ i \in 1 .. Len(t)
  BY AppendIs
<1> QED BY <1>1, <1>2 DEF NodesFrom

LEMMA FromPlaces ==
    ASSUME NEW s \in Seq(NodeRec), Blank \notin Ids(s), NEW I
    PROVE  NodesFrom(Places(s, I), s)
<1>1. \A m \in 1 .. Len(Places(s, I)) : \E i \in 1 .. Len(s) : Places(s, I)[m] = s[i]
  BY PlacesKeep
<1>2. \A i \in 1 .. Len(s) : From(s[i], s)
  BY FromSelf DEF NodesFrom
<1> QED BY <1>1, <1>2 DEF NodesFrom

\* Nodes that keep their ids and cases.
SameNodes(new, old) ==
    /\ new \in Seq(NodeRec) /\ Len(new) = Len(old)
    /\ \A i \in 1 .. Len(old) :
          /\ new[i].id = old[i].id /\ new[i].cases = old[i].cases
          /\ old[i].type = "start" => new[i].type = "start"

LEMMA FromSame ==
    ASSUME NEW old \in Seq(NodeRec), Blank \notin Ids(old), NEW new, SameNodes(new, old)
    PROVE  NodesFrom(new, old) /\ Ids(new) = Ids(old) /\ StartIds(old) \subseteq StartIds(new)
<1>1. DOMAIN old = 1 .. Len(old) /\ DOMAIN new = 1 .. Len(old)
  BY LenProperties DEF SameNodes
<1>2. \A i \in 1 .. Len(old) : From(old[i], old)
  BY FromSelf DEF NodesFrom
<1>3. NodesFrom(new, old)
  BY <1>2 DEF SameNodes, NodesFrom, From
<1>4. Ids(new) = Ids(old)
  BY <1>1 DEF SameNodes, Ids
<1>5. \A i \in OfType(old, "start") : i \in OfType(new, "start") /\ new[i].id = old[i].id
  BY <1>1 DEF SameNodes, OfType
<1> QED BY <1>3, <1>4, <1>5 DEF StartIds

-----------------------------------------------------------------------------
(* The nodes of a flow that is normalised *)

LEMMA NormalNodeHow ==
    ASSUME NEW acc \in Seq(NodeRec), NEW raw \in NodeRec, raw # Blank
    PROVE  \E x \in NodeRec :
              /\ NormalNode(acc, raw) = Append(acc, x)
              /\ x.id # Blank /\ x.cases = raw.cases
              /\ raw.id # Blank /\ raw.id \notin Ids(acc) => x.id = raw.id
              /\ raw.type = "start" => x.type = "start"
<1> DEFINE type == IF raw.type = "" THEN "wait" ELSE raw.type
           id == EnsureUniqueId(raw.id, type, Ids(acc))
           x == [raw EXCEPT !.type = type, !.id = id]
<1>1. type \in NodeType /\ type \in Part /\ Nat \subseteq Part /\ (raw.type = "start" => type = "start")
  BY DEF NodeRec, NodeType, Part
<1>2. IsFiniteSet(Ids(acc)) /\ Cardinality(Ids(acc)) \in Nat
  BY IdsFinite
<1>3. NormalNode(acc, raw) = Append(acc, x)
  BY Zenon DEF NormalNode
<1> HIDE DEF type
<1>4. raw.id # Blank /\ raw.id \notin Ids(acc) => id = raw.id
  BY DEF EnsureUniqueId
<1>5. id = raw.id \/ Suffix(id, <<type>>, 0, 1 + 2 * Cardinality(Ids(acc)))
  BY <1>1, <1>2, EnsuredIdIsFree
<1>6. id # Blank
  <2>1. CASE raw.id # Blank /\ raw.id \notin Ids(acc)
    BY <1>4, <2>1
  <2>2. CASE ~ (raw.id # Blank /\ raw.id \notin Ids(acc))
    <3> DEFINE c == Cardinality(Ids(acc)) + 1
    <3>1. c \in Nat /\ <<type>> \in Seq(Part)
      BY <1>1, <1>2
    <3>2. id = Suffixed(<<type>>, c, Ids(acc))
      BY <2>2 DEF EnsureUniqueId
    <3> HIDE DEF c, id
    <3>3. Suffix(Suffixed(<<type>>, c, Ids(acc)), <<type>>, c, c + Cardinality(Ids(acc)))
      BY <1>1, <1>2, <3>1, SuffixedIsFree
    <3> QED BY <3>1, <3>2, <3>3, SuffixNotBlank
  <2> QED BY <2>1, <2>2
<1>7. id \in Id
  <2>1. CASE id = raw.id
    BY <2>1 DEF NodeRec
  <2>2. CASE Suffix(id, <<type>>, 0, 1 + 2 * Cardinality(Ids(acc)))
    <3>1. <<type>> \in Id /\ 1 + 2 * Cardinality(Ids(acc)) \in Nat /\ 0 \in Nat
      BY <1>1, <1>2 DEF Id
    <3> HIDE DEF id
    <3> QED BY <2>2, <3>1, SuffixIs
  <2> QED BY <1>5, <2>1, <2>2
<1> HIDE DEF id
<1>8. x \in NodeRec /\ x.id = id /\ x.type = type /\ x.cases = raw.cases
  BY <1>1, <1>7 DEF NodeRec
<1> HIDE DEF x
<1> QED BY <1>1, <1>3, <1>4, <1>6, <1>8

LEMMA NodesNotBlank ==
    ASSUME NEW raw \in Seq(RawNode)
    PROVE  Blank \notin Ids(FoldLeft(NormalNode, <<>>, raw))
<1>1. PICK f : NodesRun(raw, f)
  BY NodesLoop
<1>2. Len(raw) \in Nat /\ \A i \in 1 .. Len(raw) : raw[i] \in RawNode
  BY LenProperties
<1> DEFINE G == {k \in 0 .. Len(raw) : f[k] \in Seq(NodeRec) /\ Blank \notin Ids(f[k])}
<1>3. 0 \in G
  <2>1. <<>> \in Seq(NodeRec) /\ Ids(<<>>) = {}
    BY EmptySeq DEF Ids
  <2>2. f[0] = <<>> /\ 0 \in 0 .. Len(raw)
    BY <1>1, <1>2 DEF NodesRun
  <2> QED BY <2>1, <2>2
<1>4. ASSUME NEW k \in 1 .. Len(raw), k - 1 \in G
      PROVE  k \in G
  <2> DEFINE acc == f[k - 1]
  <2>1. acc \in Seq(NodeRec) /\ Blank \notin Ids(acc)
    BY <1>4
  <2>2. f[k] = NormalNode(acc, raw[k]) /\ raw[k] \in RawNode /\ k \in 0 .. Len(raw)
    BY <1>1, <1>2 DEF NodesRun
  <2> HIDE DEF acc
  <2>3. CASE raw[k] = Blank
    <3>1. f[k] = acc
      BY <2>2, <2>3 DEF NormalNode
    <3> QED BY <2>1, <2>2, <3>1
  <2>4. CASE raw[k] # Blank
    <3>1. PICK x \in NodeRec : f[k] = Append(acc, x) /\ x.id # Blank
      BY <2>1, <2>2, <2>4, NormalNodeHow DEF RawNode
    <3>2. /\ f[k] \in Seq(NodeRec) /\ f[k][Len(acc) + 1] = x /\ \A i \in 1 .. Len(acc) : f[k][i] = acc[i]
          /\ \A i \in 1 .. Len(f[k]) : i = Len(acc) + 1 \/ i \in 1 .. Len(acc)
      BY <2>1, <3>1, AppendIs
    <3>3. \A i \in 1 .. Len(acc) : acc[i].id # Blank
      BY <2>1, IdsAre
    <3>4. \A i \in 1 .. Len(f[k]) : f[k][i].id # Blank
      BY <3>1, <3>2, <3>3
    <3>5. Blank \notin Ids(f[k])
      BY <3>2, <3>4, IdsAre
    <3> QED BY <2>2, <3>2, <3>5
  <2> QED BY <2>3, <2>4
<1>5. Len(raw) \in G
  <2> HIDE DEF G
  <2>1. \A k \in 0 .. Len(raw) : k \in G
    BY <1>2, <1>3, <1>4, UpTo
  <2> QED BY <1>2, <2>1
<1> QED BY <1>1, <1>5 DEF NodesRun

LEMMA NodeRecNotBlank ==
    ASSUME NEW x \in NodeRec
    PROVE  x # Blank
<1>1. DOMAIN x = {"id", "type", "cases"}
  BY DEF NodeRec
<1>2. DOMAIN Blank = {}
  BY DEF Blank
<1> QED BY <1>1, <1>2

FirstSame(new, old, k) ==
    /\ new \in Seq(NodeRec) /\ Len(new) = k
    /\ \A i \in 1 .. k :
          /\ new[i].id = old[i].id /\ new[i].cases = old[i].cases
          /\ old[i].type = "start" => new[i].type = "start"

LEMMA NodesSame ==
    ASSUME NEW raw \in Seq(NodeRec), Distinct(raw), Blank \notin Ids(raw)
    PROVE  SameNodes(FoldLeft(NormalNode, <<>>, raw), raw)
<1>0. raw \in Seq(RawNode)
  BY SeqMonotonic DEF RawNode
<1>1. PICK f : NodesRun(raw, f)
  BY <1>0, NodesLoop
<1>2. /\ Len(raw) \in Nat /\ DOMAIN raw = 1 .. Len(raw)
      /\ \A i \in 1 .. Len(raw) : raw[i] \in NodeRec /\ raw[i] # Blank /\ raw[i].id # Blank
  BY LenProperties, NodeRecNotBlank, IdsAre
<1> DEFINE G == {k \in 0 .. Len(raw) : FirstSame(f[k], raw, k)}
<1>3. 0 \in G
  <2>1. <<>> \in Seq(NodeRec) /\ Len(<<>>) = 0 /\ 1 .. 0 = {}
    BY EmptySeq
  <2>2. f[0] = <<>> /\ 0 \in 0 .. Len(raw)
    BY <1>1, <1>2 DEF NodesRun
  <2> QED BY <2>1, <2>2 DEF FirstSame
<1>4. ASSUME NEW k \in 1 .. Len(raw), k - 1 \in G
      PROVE  k \in G
  <2> DEFINE acc == f[k - 1]
  <2>1. acc \in Seq(NodeRec) /\ Len(acc) = k - 1 /\ FirstSame(acc, raw, k - 1)
    BY <1>4 DEF FirstSame
  <2>2. f[k] = NormalNode(acc, raw[k]) /\ raw[k] \in NodeRec /\ k \in 0 .. Len(raw) /\ k \in Nat
    BY <1>1, <1>2 DEF NodesRun
  <2> HIDE DEF acc
  <2>3. raw[k].id \notin Ids(acc)
    <3>1. \A i \in 1 .. (k - 1) : i \in 1 .. Len(raw) /\ i # k
      BY <1>2
    <3>2. \A i \in 1 .. (k - 1) : acc[i].id # raw[k].id
      BY <1>2, <2>1, <3>1 DEF FirstSame, Distinct
    <3>3. \A i \in 1 .. Len(acc) : acc[i].id # raw[k].id
      BY <2>1, <3>2
    <3> HIDE DEF G
    <3>4. \A id \in Ids(acc) : \E i \in 1 .. Len(acc) : acc[i].id = id
      BY <2>1, IdsAre
    <3> QED BY <3>3, <3>4
  <2>4. PICK x \in NodeRec : /\ f[k] = Append(acc, x) /\ x.id = raw[k].id /\ x.cases = raw[k].cases
                             /\ raw[k].type = "start" => x.type = "start"
    BY <1>2, <2>1, <2>2, <2>3, NormalNodeHow
  <2>5. /\ f[k] \in Seq(NodeRec) /\ Len(f[k]) = k /\ f[k][k] = x /\ \A i \in 1 .. (k - 1) : f[k][i] = acc[i]
    <3>1. /\ Len(f[k]) = Len(acc) + 1 /\ f[k][Len(acc) + 1] = x /\ \A i \in 1 .. Len(acc) : f[k][i] = acc[i]
          /\ f[k] \in Seq(NodeRec)
      BY <2>1, <2>4, AppendIs
    <3>2. Len(acc) + 1 = k
      BY <2>1, <2>2
    <3> QED BY <2>1, <3>1, <3>2
  <2>6. \A i \in 1 .. k : i = k \/ i \in 1 .. (k - 1)
    BY <2>2
  <2>7. FirstSame(f[k], raw, k)
    BY <2>1, <2>4, <2>5, <2>6 DEF FirstSame
  <2> QED BY <2>2, <2>7
<1>5. Len(raw) \in G
  <2> HIDE DEF G
  <2>1. \A k \in 0 .. Len(raw) : k \in G
    BY <1>2, <1>3, <1>4, UpTo
  <2> QED BY <1>2, <2>1
<1> QED BY <1>1, <1>5 DEF NodesRun, FirstSame, SameNodes

\* The nodes normalising adds have ids of their own.
LEMMA BoundaryNotBlank ==
    ASSUME NEW nodes \in Seq(NodeRec), NEW prefix \in {"start", "end"}, NEW name \in {"n_start", "n_end"}
    PROVE  LET x == NewNode(EnsureUniqueId(<<name>>, prefix, Ids(nodes)), prefix)
           IN  x \in NodeRec /\ x.id \notin Ids(nodes) /\ x.id # Blank /\ x.type = prefix
<1> DEFINE id == EnsureUniqueId(<<name>>, prefix, Ids(nodes))
           x == NewNode(id, prefix)
<1>1. x \in NodeRec /\ x.id \notin Ids(nodes) /\ x.type = prefix
  BY BoundaryNode
<1>2. Nat \subseteq Part /\ prefix \in Part /\ IsFiniteSet(Ids(nodes))
  BY IdsFinite DEF Part, NodeType
<1>3. id = <<name>> \/ Suffix(id, <<prefix>>, 0, 1 + 2 * Cardinality(Ids(nodes)))
  BY <1>2, EnsuredIdIsFree
<1>4. <<prefix>> \in Seq(Part) /\ 0 \in Nat /\ Blank # <<name>>
  BY <1>2 DEF Blank
<1> HIDE DEF id
<1>5. id # Blank
  BY <1>3, <1>4, SuffixNotBlank
<1>6. x.id = id
  BY DEF NewNode
<1> HIDE DEF x
<1> QED BY <1>1, <1>5, <1>6 DEF x, id

Grown(new, nodes) ==
    /\ new \in Seq(NodeRec)
    /\ \A old : NodesFrom(nodes, old) /\ Ids(old) \subseteq Ids(nodes) => NodesFrom(new, old)
    /\ Ids(nodes) \subseteq Ids(new) /\ StartIds(nodes) \subseteq StartIds(new)
    /\ Blank \notin Ids(nodes) => Blank \notin Ids(new)

LEMMA NotGrown ==
    ASSUME NEW nodes \in Seq(NodeRec)
    PROVE  Grown(nodes, nodes)
BY DEF Grown

LEMMA GrownEnd ==
    ASSUME NEW nodes \in Seq(NodeRec), NEW x \in NodeRec, x.id \notin Ids(nodes), x.id # Blank
    PROVE  Grown(Append(nodes, x), nodes)
<1> DEFINE new == Append(nodes, x)
<1>1. /\ new \in Seq(NodeRec) /\ Len(new) = Len(nodes) + 1 /\ Len(nodes) \in Nat
      /\ new[Len(nodes) + 1] = x /\ \A i \in 1 .. Len(nodes) : new[i] = nodes[i]
      /\ \A i \in 1 .. Len(new) : i = Len(nodes) + 1 \/ i \in 1 .. Len(nodes)
  BY AppendIs
<1> HIDE DEF new
<1>2. \A i \in 1 .. Len(nodes) : i \in 1 .. Len(new)
  BY <1>1
<1>3. DOMAIN new = 1 .. Len(new) /\ DOMAIN nodes = 1 .. Len(nodes)
  BY <1>1, LenProperties
<1>4. Ids(nodes) \subseteq Ids(new)
  BY <1>1, <1>2, <1>3 DEF Ids
<1>5. StartIds(nodes) \subseteq StartIds(new)
  <2>1. \A i \in OfType(nodes, "start") : i \in OfType(new, "start") /\ new[i].id = nodes[i].id
    BY <1>1, <1>2, <1>3 DEF OfType
  <2> QED BY <2>1 DEF StartIds
<1>6. Blank \notin Ids(nodes) => Blank \notin Ids(new)
  <2> HAVE Blank \notin Ids(nodes)
  <2>1. \A i \in 1 .. Len(new) : new[i].id # Blank
    BY <1>1, IdsAre
  <2> QED BY <1>1, <2>1, IdsAre
<1>7. ASSUME NEW old, NodesFrom(nodes, old), Ids(old) \subseteq Ids(nodes)
      PROVE  NodesFrom(new, old)
  BY <1>7, FromAppend DEF new
<1> QED BY <1>1, <1>4, <1>5, <1>6, <1>7 DEF Grown, new

LEMMA GrownStart ==
    ASSUME NEW nodes \in Seq(NodeRec), NEW x \in NodeRec, x.id \notin Ids(nodes), x.id # Blank
    PROVE  Grown(Cons(x, nodes), nodes)
<1> DEFINE new == <<x>> \o nodes
           n == Len(nodes)
<1>1. n \in Nat /\ <<x>> \in Seq(NodeRec) /\ Len(<<x>>) = 1 /\ <<x>>[1] = x
  BY LenProperties
<1>2. /\ new \in Seq(NodeRec) /\ Len(new) = 1 + n
      /\ \A i \in 1 .. 1 + n : new[i] = IF i <= 1 THEN <<x>>[i] ELSE nodes[i - 1]
  <2> HIDE DEF n
  <2> QED BY <1>1, ConcatProperties DEF n
<1> HIDE DEF new
<1>3. /\ \A i \in 1 .. Len(new) : new[i] = x \/ \E j \in 1 .. n : new[i] = nodes[j]
      /\ \A j \in 1 .. n : j + 1 \in 1 .. Len(new) /\ new[j + 1] = nodes[j]
  <2>1. \A i \in 1 .. 1 + n : i = 1 \/ (i # 1 /\ ~ (i <= 1) /\ i - 1 \in 1 .. n)
    BY <1>1
  <2>2. \A j \in 1 .. n : j + 1 \in 1 .. 1 + n /\ ~ (j + 1 <= 1) /\ (j + 1) - 1 = j
    BY <1>1
  <2>3. \A i \in 1 .. 1 + n : new[i] = x \/ \E j \in 1 .. n : new[i] = nodes[j]
    BY <1>1, <1>2, <2>1
  <2>4. \A j \in 1 .. n : j + 1 \in 1 .. Len(new) /\ new[j + 1] = nodes[j]
    BY <1>2, <2>2
  <2> QED BY <1>2, <2>3, <2>4
<1>4. DOMAIN new = 1 .. Len(new) /\ DOMAIN nodes = 1 .. n
  BY <1>2, LenProperties
<1> HIDE DEF n
<1>5. Ids(nodes) \subseteq Ids(new)
  BY <1>3, <1>4 DEF Ids
<1>6. StartIds(nodes) \subseteq StartIds(new)
  <2>1. \A i \in OfType(nodes, "start") : i + 1 \in OfType(new, "start") /\ new[i + 1].id = nodes[i].id
    BY <1>3, <1>4 DEF OfType
  <2> QED BY <2>1 DEF StartIds
<1>7. Blank \notin Ids(nodes) => Blank \notin Ids(new)
  <2> HAVE Blank \notin Ids(nodes)
  <2>1. \A i \in 1 .. Len(nodes) : nodes[i].id # Blank
    BY IdsAre
  <2>2. \A i \in 1 .. Len(new) : new[i].id # Blank
    BY <1>3, <2>1 DEF n
  <2> QED BY <1>2, <2>2, IdsAre
<1>8. ASSUME NEW old, NodesFrom(nodes, old), Ids(old) \subseteq Ids(nodes)
      PROVE  NodesFrom(new, old)
  <2>1. From(x, old)
    BY <1>8 DEF From
  <2> QED BY <1>3, <1>8, <2>1 DEF NodesFrom, n
<1> QED BY <1>2, <1>5, <1>6, <1>7, <1>8 DEF Grown, Cons, new

LEMMA StartAndEndGrow ==
    ASSUME NEW made \in Seq(NodeRec)
    PROVE  /\ Grown(WithStart(made), made)
           /\ Grown(WithEnd(WithStart(made)), WithStart(made))
<1> DEFINE begun == WithStart(made)
<1>1. Grown(begun, made)
  <2> DEFINE x == NewNode(EnsureUniqueId(<<"n_start">>, "start", Ids(made)), "start")
  <2>1. x \in NodeRec /\ x.id \notin Ids(made) /\ x.id # Blank
    BY BoundaryNotBlank
  <2>2. begun = IF OfType(made, "start") # {} THEN made ELSE Cons(x, made)
    BY Zenon DEF WithStart
  <2> HIDE DEF x, begun
  <2> QED BY <2>1, <2>2, NotGrown, GrownStart
<1>2. begun \in Seq(NodeRec)
  BY <1>1 DEF Grown
<1> HIDE DEF begun
<1>3. Grown(WithEnd(begun), begun)
  <2> DEFINE x == NewNode(EnsureUniqueId(<<"n_end">>, "end", Ids(begun)), "end")
             new == WithEnd(begun)
  <2>1. x \in NodeRec /\ x.id \notin Ids(begun) /\ x.id # Blank
    BY <1>2, BoundaryNotBlank
  <2>2. new = IF OfType(begun, "end") # {} THEN begun ELSE Append(begun, x)
    BY Zenon DEF WithEnd
  <2> HIDE DEF x, new
  <2>3. Grown(new, begun)
    BY <1>2, <2>1, <2>2, NotGrown, GrownEnd
  <2> QED BY <2>3 DEF new
<1> QED BY <1>1, <1>3 DEF begun

LEMMA NormalNodesNotBlank ==
    ASSUME NEW raw \in Seq(RawNode), NEW d \in Nat, RawDated(raw, 0 .. d - 1)
    PROVE  Blank \notin Ids(NormalNodes(raw))
<1> DEFINE made == FoldLeft(NormalNode, <<>>, raw)
<1>1. made \in Seq(NodeRec)
  BY NodesSound DEF Sound
<1>2. Blank \notin Ids(made)
  BY NodesNotBlank
<1>3. NormalNodes(raw) = WithEnd(WithStart(made))
  BY Zenon DEF NormalNodes
<1> HIDE DEF made
<1> QED BY <1>1, <1>2, <1>3, StartAndEndGrow DEF Grown

\* What was there stays, whatever start and end nodes are added.
LEMMA NormalNodesFrom ==
    ASSUME NEW raw \in Seq(NodeRec), Distinct(raw), Blank \notin Ids(raw)
    PROVE  /\ NodesFrom(NormalNodes(raw), raw)
           /\ Ids(raw) \subseteq Ids(NormalNodes(raw)) /\ StartIds(raw) \subseteq StartIds(NormalNodes(raw))
<1> DEFINE made == FoldLeft(NormalNode, <<>>, raw)
           begun == WithStart(made)
<1>1. SameNodes(made, raw)
  BY NodesSame
<1>2. NormalNodes(raw) = WithEnd(begun)
  BY Zenon DEF NormalNodes
<1> HIDE DEF made
<1>3. NodesFrom(made, raw) /\ Ids(made) = Ids(raw) /\ StartIds(raw) \subseteq StartIds(made)
  BY <1>1, FromSame
<1>4. Grown(begun, made) /\ Grown(WithEnd(begun), begun)
  BY <1>1, StartAndEndGrow DEF SameNodes
<1> HIDE DEF begun
<1>5. NodesFrom(begun, raw) /\ Ids(made) \subseteq Ids(begun) /\ StartIds(made) \subseteq StartIds(begun)
  BY <1>3, <1>4 DEF Grown
<1>6. /\ NodesFrom(WithEnd(begun), raw) /\ Ids(begun) \subseteq Ids(WithEnd(begun))
      /\ StartIds(begun) \subseteq StartIds(WithEnd(begun))
  BY <1>3, <1>4, <1>5 DEF Grown
<1> QED BY <1>2, <1>3, <1>5, <1>6

-----------------------------------------------------------------------------
(* No step but a change of its cases changes what a switch offers *)

LEMMA MadeNotBlank ==
    ASSUME NEW x, NEW n
    PROVE  <<x, n>> # Blank
<1>1. DOMAIN <<x, n>> = 1 .. 2 /\ DOMAIN Blank = {} /\ 1 \in 1 .. 2
  BY DEF Blank
<1> QED BY <1>1

LEMMA FromMade ==
    ASSUME IInv, NoBlankId, NEW type \in Types
    PROVE  LET new == Append(flow.nodes, NewNode(<<type, Time>>, type))
           IN  /\ NodesFrom(new, flow.nodes) /\ Ids(flow.nodes) \subseteq Ids(new)
               /\ StartIds(flow.nodes) \subseteq StartIds(new)
               /\ <<type, Time>> \notin Ids(flow.nodes) /\ new \in Seq(NodeRec)
<1> DEFINE id == <<type, Time>>
           x == NewNode(id, type)
<1>1. Time \in Nat /\ type \in Part /\ type \in NodeType
  BY Parts, Clock DEF Part, NodeType
<1>2. Time \notin 0 .. Time - 1 /\ Time \in Nat /\ Time \in 0 .. Time
  BY <1>1
<1>3. id \in Id
  BY <1>1, <1>2, NewIdIs
<1>4. id \notin Ids(flow.nodes)
  BY <1>2, Parts, NewIds
<1>5. id # Blank
  BY MadeNotBlank
<1> HIDE DEF id
<1>6. x \in NodeRec /\ x.id = id
  BY <1>1, <1>3 DEF NewNode, NodeRec, CasesOf
<1> HIDE DEF x
<1>7. Grown(Append(flow.nodes, x), flow.nodes)
  BY <1>4, <1>5, <1>6, Parts, GrownEnd
<1>8. NodesFrom(flow.nodes, flow.nodes)
  BY Parts, FromSelf DEF NoBlankId
<1>9. NodesFrom(Append(flow.nodes, x), flow.nodes)
  BY <1>7, <1>8 DEF Grown
<1> QED BY <1>4, <1>7, <1>9 DEF Grown, x, id

\* An operation that makes f of the flow.
LEMMA Becomes ==
    ASSUME NEW f, NEW node, NEW edge, Become(f, node, edge)
    PROVE  flow' = f
BY DEF Become

LEMMA KeptFrom ==
    ASSUME IInv, NoBlankId, flow'.nodes = flow.nodes
    PROVE  NodesFrom(flow'.nodes, flow.nodes)
BY Parts, FromSelf DEF NoBlankId

LEMMA AddedFrom ==
    ASSUME IInv, NoBlankId, NEW type \in Types,
           \/ AddNode(type)
           \/ \E id \in Ids(flow.nodes) : AddNodeFromSource(id, type)
           \/ \E id \in Ids(flow.edges) : InsertNodeOnEdge(id, type)
    PROVE  /\ flow'.nodes = Append(flow.nodes, NewNode(<<type, Time>>, type))
           /\ NodesFrom(flow'.nodes, flow.nodes)
<1> DEFINE new == Append(flow.nodes, NewNode(<<type, Time>>, type))
<1>1. ASSUME AddNode(type)
      PROVE  flow'.nodes = new
  <2>1. \E edges : flow' = [nodes |-> new, edges |-> edges]
    BY <1>1, Becomes, Zenon DEF AddNode
  <2> HIDE DEF new
  <2> QED BY <2>1
<1>2. ASSUME NEW id \in Ids(flow.nodes), AddNodeFromSource(id, type)
      PROVE  flow'.nodes = new
  <2>1. \E edges : flow' = [nodes |-> new, edges |-> edges]
    BY <1>2, Becomes, Zenon DEF AddNodeFromSource
  <2> HIDE DEF new
  <2> QED BY <2>1
<1>3. ASSUME NEW id \in Ids(flow.edges), InsertNodeOnEdge(id, type)
      PROVE  flow'.nodes = new
  <2>1. \E edges : flow' = [nodes |-> new, edges |-> edges]
    BY <1>3, Becomes, Zenon DEF InsertNodeOnEdge
  <2> HIDE DEF new
  <2> QED BY <2>1
<1>4. flow'.nodes = new
  BY <1>1, <1>2, <1>3
<1> QED BY <1>4, FromMade

LEMMA RemovedFrom ==
    ASSUME IInv, NoBlankId, NEW id \in Ids(flow.nodes), RemoveNode(id)
    PROVE  flow'.nodes = Without(flow.nodes, id) /\ NodesFrom(flow'.nodes, flow.nodes)
<1>1. \E edges : flow' = [nodes |-> Without(flow.nodes, id), edges |-> edges]
  BY Becomes, Zenon DEF RemoveNode
<1>2. flow'.nodes = Without(flow.nodes, id)
  BY <1>1
<1> QED BY <1>2, Parts, FromPlaces DEF NoBlankId, Without

LEMMA RetypedFrom ==
    ASSUME IInv, NoBlankId, NEW type \in Types, UpdateNodeType(type)
    PROVE  Len(flow'.nodes) = Len(flow.nodes) /\ NodesFrom(flow'.nodes, flow.nodes)
<1> DEFINE At(n) == IF n.id = selectedNode THEN [n EXCEPT !.type = type] ELSE n
           nodes == [i \in DOMAIN flow.nodes |-> At(flow.nodes[i])]
<1>1. flow' = [flow EXCEPT !.nodes = nodes]
  <2>1. flow' = [flow EXCEPT !.nodes = [i \in DOMAIN @ |-> At(@[i])]]
    BY Becomes, Zenon DEF UpdateNodeType
  <2> HIDE DEF At
  <2> QED BY <2>1
<1>2. \A i \in 1 .. Len(flow.nodes) : flow.nodes[i] \in NodeRec
  BY Parts, LenProperties
<1>3. \A n \in NodeRec : At(n) \in NodeRec /\ At(n).id = n.id /\ At(n).cases = n.cases
  BY DEF NodeRec, NodeType
<1> HIDE DEF At
<1>4. DOMAIN flow.nodes = 1 .. Len(flow.nodes) /\ Len(flow.nodes) \in Nat
  BY Parts
<1>5. nodes \in Seq(NodeRec) /\ Len(nodes) = Len(flow.nodes)
  BY <1>2, <1>3, <1>4
<1>6. \A i \in 1 .. Len(flow.nodes) : nodes[i].id = flow.nodes[i].id /\ nodes[i].cases = flow.nodes[i].cases
  BY <1>2, <1>3, <1>4
<1> HIDE DEF nodes
<1>7. \A i \in 1 .. Len(flow.nodes) : From(flow.nodes[i], flow.nodes)
  BY Parts, FromSelf DEF NoBlankId, NodesFrom
<1>8. NodesFrom(nodes, flow.nodes)
  BY <1>5, <1>6, <1>7 DEF NodesFrom, From
<1>9. flow'.nodes = nodes
  <2>1. flow = [nodes |-> flow.nodes, edges |-> flow.edges]
    BY Parts
  <2> QED BY <1>1, <2>1
<1> QED BY <1>5, <1>8, <1>9

LEMMA NormalizedFrom ==
    ASSUME IInv, NoBlankId, Normalize
    PROVE  NodesFrom(flow'.nodes, flow.nodes) /\ StartIds(flow.nodes) \subseteq StartIds(flow'.nodes)
<1>1. flow' = NormalizeFlowStructure(flow)
  BY Becomes DEF Normalize
<1>2. \E edges : flow' = [nodes |-> NormalNodes(flow.nodes), edges |-> edges]
  BY <1>1, Zenon DEF NormalizeFlowStructure
<1>3. flow'.nodes = NormalNodes(flow.nodes)
  BY <1>2
<1>4. flow.nodes \in Seq(NodeRec) /\ Distinct(flow.nodes)
  BY Parts DEF Sound
<1> QED BY <1>3, <1>4, NormalNodesFrom DEF NoBlankId

-----------------------------------------------------------------------------
(* Imported nodes have ids of their own *)

LEMMA NewIdNotBlank ==
    ASSUME NEW base \in Id, base # Blank, NEW used, IsFiniteSet(used)
    PROVE  UniqueId(base, used) # Blank
<1>1. base \in Seq(Part) /\ Nat \subseteq Part /\ 2 \in Nat
  BY DEF Id, Part
<1>2. UniqueId(base, used) = base \/ Suffix(UniqueId(base, used), base, 2, 2 + Cardinality(used))
  BY <1>1, UniqueIdIsFree
<1> QED BY <1>1, <1>2, SuffixNotBlank

LEMMA RenamedNotBlank ==
    ASSUME NEW items \in Seq(NodeRec), Blank \notin Ids(items), NEW used \in SUBSET Id, IsFiniteSet(used)
    PROVE  Blank \notin Ids(Renamed(items, used))
<1>0. Renameable(NodeRec)
  BY RecordsRenameable
<1>1. PICK f : RenamingRun(items, used, f)
  BY <1>0, RenamingLoop
<1>2. Len(items) \in Nat /\ \A i \in 1 .. Len(items) : items[i] \in NodeRec /\ items[i].id # Blank
  BY LenProperties, IdsAre
<1> DEFINE G == {k \in 0 .. Len(items) : f[k] \in Renamings(NodeRec) /\ Blank \notin Ids(f[k].items)}
<1>3. 0 \in G
  <2>1. f[0] = [used |-> used, items |-> <<>>]
    BY <1>1 DEF RenamingRun
  <2>2. <<>> \in Seq(NodeRec) /\ Ids(<<>>) = {}
    BY EmptySeq DEF Ids
  <2>3. f[0] \in Renamings(NodeRec) /\ Ids(f[0].items) = {}
    BY <2>1, <2>2 DEF Renamings
  <2> QED BY <1>2, <2>3
<1>4. ASSUME NEW k \in 1 .. Len(items), k - 1 \in G
      PROVE  k \in G
  <2> DEFINE a == f[k - 1]
             x == items[k]
             id == UniqueId(x.id, a.used)
             y == [x EXCEPT !.id = id]
  <2>1. a \in Renamings(NodeRec) /\ Blank \notin Ids(a.items) /\ x \in NodeRec /\ x.id # Blank
    BY <1>2, <1>4
  <2>2. f[k] = RenameStep(a, x) /\ k \in 0 .. Len(items)
    BY <1>1, <1>2 DEF RenamingRun
  <2>3. f[k] \in Renamings(NodeRec)
    <3> HIDE DEF a, x
    <3> QED BY <1>0, <2>1, <2>2, RenameIn
  <2>4. f[k].items = Append(a.items, y)
    <3> HIDE DEF a, x
    <3> QED BY <2>2 DEF RenameStep
  <2> HIDE DEF a, x
  <2>5. IsFiniteSet(a.used) /\ a.items \in Seq(NodeRec) /\ x.id \in Id
    BY <1>0, <2>1 DEF Renamings, Renameable
  <2>6. id # Blank
    BY <2>1, <2>5, NewIdNotBlank
  <2>7. id \in Id
    <3>1. id = x.id \/ Suffix(id, x.id, 2, 2 + Cardinality(a.used))
      <4>1. x.id \in Seq(Part) /\ Nat \subseteq Part
        BY <2>5 DEF Id, Part
      <4> QED BY <2>5, <4>1, UniqueIdIsFree
    <3> DEFINE c == Cardinality(a.used)
    <3>2. c \in Nat
      BY <2>5, FS_CardinalityType
    <3> HIDE DEF c
    <3>4. 2 \in Nat /\ 2 + c \in Nat /\ 2 .. 2 + c \subseteq Nat
      BY <3>2
    <3> HIDE DEF id
    <3>3. Suffix(id, x.id, 2, 2 + c) => id \in Id
      BY <2>5, <3>4, SuffixIs
    <3> QED BY <2>5, <3>1, <3>3 DEF c
  <2> HIDE DEF id
  <2>8. y \in NodeRec /\ y.id = id
    BY <1>0, <2>1, <2>7 DEF Renameable
  <2> HIDE DEF y
  <2> DEFINE t == a.items
  <2>9. t \in Seq(NodeRec) /\ Blank \notin Ids(t) /\ f[k].items = Append(t, y)
    BY <2>1, <2>4, <2>5
  <2> HIDE DEF t
  <2>10. Append(t, y)[Len(t) + 1] = y /\ \A i \in 1 .. Len(t) : Append(t, y)[i] = t[i]
    BY <2>8, <2>9, AppendIs
  <2>11. /\ Append(t, y) \in Seq(NodeRec)
         /\ \A i \in 1 .. Len(Append(t, y)) : i = Len(t) + 1 \/ i \in 1 .. Len(t)
    BY <2>8, <2>9, AppendIs
  <2>12. \A i \in 1 .. Len(t) : t[i].id # Blank
    BY <2>9, IdsAre
  <2>13. \A i \in 1 .. Len(Append(t, y)) : Append(t, y)[i].id # Blank
    BY <2>6, <2>8, <2>10, <2>11, <2>12
  <2>14. Blank \notin Ids(Append(t, y))
    BY <2>11, <2>13, IdsAre
  <2> QED BY <2>2, <2>3, <2>9, <2>14
<1>5. Len(items) \in G
  <2> HIDE DEF G
  <2>1. \A k \in 0 .. Len(items) : k \in G
    BY <1>2, <1>3, <1>4, UpTo
  <2> QED BY <1>2, <2>1
<1>6. Renamed(items, used) = f[Len(items)].items
  <2>1. Renamed(items, used) = Renaming(items, used).items
    BY Zenon DEF Renamed, Renaming, RenameStep, FoldLeft, MapThenFoldSet
  <2> QED BY <1>1, <2>1 DEF RenamingRun
<1> QED BY <1>5, <1>6

LEMMA FromApart ==
    ASSUME NEW t \in Seq(NodeRec), NEW old, Ids(t) \cap Ids(old) = {}, Blank \notin Ids(t)
    PROVE  NodesFrom(t, old)
<1>1. \A i \in 1 .. Len(t) : t[i].id \in Ids(t)
  BY IdsAre
<1> QED BY <1>1 DEF NodesFrom, From

LEMMA FromConcat ==
    ASSUME NEW s \in Seq(NodeRec), NEW t \in Seq(NodeRec), NEW old, NodesFrom(s, old), NodesFrom(t, old)
    PROVE  NodesFrom(s \o t, old)
<1> DEFINE m == Len(s)
           n == Len(t)
<1>1. /\ m \in Nat /\ n \in Nat /\ Len(s \o t) = m + n
      /\ \A i \in 1 .. m + n : (s \o t)[i] = IF i <= m THEN s[i] ELSE t[i - m]
  BY ConcatProperties, LenProperties
<1> HIDE DEF m, n
<1>2. \A i \in 1 .. m + n : (i \in 1 .. m /\ i <= m) \/ (i - m \in 1 .. n /\ ~ (i <= m))
  BY <1>1
<1>3. \A i \in 1 .. m : From(s[i], old)
  BY DEF NodesFrom, m
<1>4. \A i \in 1 .. n : From(t[i], old)
  BY DEF NodesFrom, n
<1> QED BY <1>1, <1>2, <1>3, <1>4 DEF NodesFrom

\* The end an import adds, when the flow has none, has an id of its own too.
LEMMA EndedGrows ==
    ASSUME NEW nodes \in Seq(NodeRec)
    PROVE  Grown(Ended(nodes), nodes)
<1> DEFINE base == <<"n_end">>
           id == UniqueId(base, Ids(nodes))
           x == NewNode(id, "end")
<1>1. IsFiniteSet(Ids(nodes)) /\ Cardinality(Ids(nodes)) \in Nat /\ 2 \in Nat
  BY IdsFinite
<1>2. base \in Id /\ base \in Seq(Part) /\ Nat \subseteq Part /\ "end" \in NodeType /\ base # Blank
  <2>1. "n_end" \in Part
    BY DEF Part
  <2> QED BY <2>1 DEF Part, Id, NodeType, Blank
<1>3. Ended(nodes) = IF OfType(nodes, "end") # {} THEN nodes ELSE Append(nodes, x)
  BY Zenon DEF Ended
<1> HIDE DEF base
<1>4. id # Blank /\ id \notin Ids(nodes) /\ (id = base \/ Suffix(id, base, 2, 2 + Cardinality(Ids(nodes))))
  BY <1>1, <1>2, NewIdNotBlank, UniqueIdIsFree
<1> HIDE DEF id
<1>5. Suffix(id, base, 2, 2 + Cardinality(Ids(nodes))) => id \in Id
  BY <1>1, <1>2, SuffixIs
<1>6. x \in NodeRec /\ x.id = id
  BY <1>2, <1>4, <1>5 DEF NewNode, NodeRec, CasesOf
<1> HIDE DEF x
<1> QED BY <1>3, <1>4, <1>6, NotGrown, GrownEnd

LEMMA RecordedNotBlank ==
    ASSUME NEW r \in Recordings
    PROVE  /\ r.nodes \in Seq(NodeRec) /\ Blank \notin Ids(r.nodes)
           /\ Actions(r) \in Seq(NodeRec) /\ Blank \notin Ids(Actions(r))
<1>1. r.nodes \in Seq(NodeRec) /\ Actions(r) \in Seq(NodeRec) /\ DOMAIN r.nodes = 1 .. Len(r.nodes)
  BY RecordingIs, ActionsAre, LenProperties
<1>2. \A i \in 1 .. Len(r.nodes) : r.nodes[i].id # Blank
  BY <1>1, RecordingsAssumption
<1>3. Blank \notin Ids(r.nodes)
  BY <1>1, <1>2, IdsAre
<1> DEFINE I == {i \in DOMAIN r.nodes : r.nodes[i].type \notin {"start", "end"}}
<1>4. Actions(r) = Places(r.nodes, I)
  BY Zenon DEF Actions
<1> HIDE DEF I
<1>5. \A m \in 1 .. Len(Actions(r)) : \E i \in 1 .. Len(r.nodes) : Actions(r)[m] = r.nodes[i]
  <2>1. Picked(Places(r.nodes, I), r.nodes, NodeRec, I)
    BY <1>1, PlacesPick
  <2> QED BY <1>4, <2>1 DEF Picked
<1>6. \A m \in 1 .. Len(Actions(r)) : Actions(r)[m].id # Blank
  BY <1>2, <1>5
<1> QED BY <1>1, <1>3, <1>6, IdsAre

LEMMA ReplacedFrom ==
    ASSUME IInv, NEW r \in Recordings
    PROVE  LET new == EnsureUniqueFlowIds(r, flow).nodes
           IN  NodesFrom(new, flow.nodes) /\ Ids(new) \cap Ids(flow.nodes) = {}
<1> DEFINE new == Renamed(r.nodes, Ids(flow.nodes))
<1>1. /\ r.nodes \in Seq(NodeRec) /\ Blank \notin Ids(r.nodes) /\ AllDated(r.nodes, 0 .. Gap - 1)
      /\ Renameable(NodeRec) /\ flow.nodes \in Seq(NodeRec) /\ Gap \in Nat
  BY RecordedNotBlank, RecordingIs, RecordsRenameable, Parts, EditorAssumption
<1>2. RenamedAs(new, NodeRec, r.nodes, Ids(flow.nodes), Nat)
  BY <1>1, AlwaysRoom, RenamedInto
<1>3. Blank \notin Ids(new)
  BY <1>1, UsedIds, RenamedNotBlank
<1>4. EnsureUniqueFlowIds(r, flow).nodes = new
  BY DEF EnsureUniqueFlowIds
<1> HIDE DEF new
<1>5. new \in Seq(NodeRec) /\ Ids(new) \cap Ids(flow.nodes) = {}
  BY <1>2 DEF RenamedAs, Sound
<1> QED BY <1>3, <1>4, <1>5, FromApart

LEMMA AppendedFrom ==
    ASSUME IInv, NoBlankId, NEW r \in Recordings
    PROVE  NodesFrom(AppendMappedFlow(flow, r, selectedNode, Time).nodes, flow.nodes)
<1> DEFINE added == Added(r)
<1>1. /\ Actions(r) \in Seq(NodeRec) /\ Blank \notin Ids(Actions(r)) /\ AllDated(Actions(r), 0 .. Gap - 1)
      /\ Renameable(NodeRec) /\ flow.nodes \in Seq(NodeRec) /\ Gap \in Nat
  BY RecordedNotBlank, ActionsAre, RecordsRenameable, Parts, EditorAssumption
<1>2. RenamedAs(added, NodeRec, Actions(r), Ids(flow.nodes), Nat)
  BY <1>1, AlwaysRoom, RenamedInto DEF Added
<1>3. Blank \notin Ids(added)
  BY <1>1, UsedIds, RenamedNotBlank DEF Added
<1>4. NodesWith(r) = flow.nodes \o added
  BY DEF NodesWith
<1> HIDE DEF added
<1>5. added \in Seq(NodeRec) /\ Ids(added) \cap Ids(flow.nodes) = {}
  BY <1>2 DEF RenamedAs, Sound
<1>6. NodesFrom(flow.nodes, flow.nodes) /\ NodesFrom(added, flow.nodes)
  BY <1>1, <1>3, <1>5, FromApart, FromSelf DEF NoBlankId
<1>7. NodesFrom(NodesWith(r), flow.nodes)
  BY <1>1, <1>4, <1>5, <1>6, FromConcat
<1>8. NodesWith(r) \in Seq(NodeRec) /\ Ids(flow.nodes) \subseteq Ids(NodesWith(r))
  <2>1. Time \in Nat
    BY Parts, Clock
  <2>2. 0 .. Time - 1 \subseteq Nat
    BY <2>1
  <2>3. Sound(NodesWith(r), NodeRec, Nat) /\ Ids(NodesWith(r)) = Ids(flow.nodes) \union Ids(Added(r))
    BY <2>2, AlwaysRoom, WithRecorded
  <2> QED BY <2>3 DEF Sound
<1>9. NodesFrom(Ended(NodesWith(r)), flow.nodes)
  BY <1>7, <1>8, EndedGrows DEF Grown
<1>10. CASE Actions(r) = <<>>
  BY <1>6, <1>10, NothingAppended
<1>11. CASE Actions(r) # <<>>
  <2>1. AppendMappedFlow(flow, r, selectedNode, Time).nodes = Ended(NodesWith(r))
    <3>1. \E edges : AppendMappedFlow(flow, r, selectedNode, Time) = [nodes |-> Ended(NodesWith(r)), edges |-> edges]
      BY <1>11, AppendedIs, Zenon
    <3> QED BY <3>1
  <2> QED BY <1>9, <2>1
<1> QED BY <1>10, <1>11

LEMMA ImportedFrom ==
    ASSUME IInv, NoBlankId, NEW strategy \in {"replace", "append", "preview"}, NEW r \in Recordings,
           ImportRecording(strategy, r)
    PROVE  NodesFrom(flow'.nodes, flow.nodes)
<1> DEFINE f == ApplyRecorderImport(strategy, flow, r, selectedNode, Time)
           node == IF f.nodes = <<>> THEN None ELSE f.nodes[1].id
<1>1. strategy = "preview" => UNCHANGED vars
  BY Zenon DEF ImportRecording
<1>2. strategy # "preview" => Become(f, node, None)
  BY Zenon DEF ImportRecording
<1>3. strategy = "replace" => f = EnsureUniqueFlowIds(r, flow)
  BY Zenon DEF ApplyRecorderImport
<1>4. strategy = "append" => f = AppendMappedFlow(flow, r, selectedNode, Time)
  BY Zenon DEF ApplyRecorderImport
<1> HIDE DEF f, node
<1>5. CASE strategy = "preview"
  BY <1>1, <1>5, KeptFrom DEF vars
<1>6. CASE strategy = "replace"
  <2>1. flow' = EnsureUniqueFlowIds(r, flow)
    BY <1>2, <1>3, <1>6, Becomes
  <2> QED BY <2>1, ReplacedFrom
<1>7. CASE strategy = "append"
  <2>1. flow' = AppendMappedFlow(flow, r, selectedNode, Time)
    BY <1>2, <1>4, <1>7, Becomes
  <2> QED BY <2>1, AppendedFrom
<1> QED BY <1>5, <1>6, <1>7

-----------------------------------------------------------------------------
(* The cases of a switch *)

\* What NoEdgeAtLostPort says of a step.
PortsKept ==
    \A i \in DOMAIN flow.nodes, j \in DOMAIN flow'.nodes :
        /\ flow.nodes[i].id = flow'.nodes[j].id
        /\ flow.nodes[i].type = "switchCase" /\ flow'.nodes[j].type = "switchCase"
        /\ flow.nodes[i].cases # flow'.nodes[j].cases
        => \A k \in Outgoing(flow', flow.nodes[i].id) : flow'.edges[k].cond \in Handles(flow'.nodes[j])

\* Nodes that keep their cases lose no port.
LEMMA SameCases ==
    ASSUME IInv, NodesFrom(flow'.nodes, flow.nodes), DOMAIN flow'.nodes = 1 .. Len(flow'.nodes)
    PROVE  PortsKept
<1> SUFFICES ASSUME NEW i \in 1 .. Len(flow.nodes), NEW j \in 1 .. Len(flow'.nodes),
                    flow.nodes[i].id = flow'.nodes[j].id
             PROVE  flow.nodes[i].cases = flow'.nodes[j].cases
  BY Parts DEF PortsKept
<1> DEFINE x == flow'.nodes[j]
<1>1. From(x, flow.nodes) /\ flow.nodes[i].id = x.id
  BY DEF NodesFrom
<1> HIDE DEF x
<1>2. x.id \in Ids(flow.nodes) /\ Distinct(flow.nodes) /\ DOMAIN flow.nodes = 1 .. Len(flow.nodes)
  BY <1>1, Parts, IdsAre DEF Sound
<1>3. PICK m \in 1 .. Len(flow.nodes) : flow.nodes[m].id = x.id /\ flow.nodes[m].cases = x.cases
  BY <1>1, <1>2 DEF From
<1>4. m = i
  BY <1>1, <1>2, <1>3 DEF Distinct
<1> QED BY <1>3, <1>4 DEF x

LEMMA SwitchPorts ==
    ASSUME NEW n, n.type = "switchCase"
    PROVE  Handles(n) = ToSet(NormalizeSwitchCaseOptions(n.cases))
<1>1. "switchCase" # "if" /\ "switchCase" # "loop" /\ "switchCase" # "rowLocate"
  OBVIOUS
<1> QED BY <1>1, Zenon DEF Handles

LEMMA GivenCases ==
    ASSUME NEW raw \in CaseLists
    PROVE  ToSet(NormalizeSwitchCaseOptions(raw))
             \subseteq ToSet(NormalizeSwitchCaseOptions(NormalizeSwitchCaseOptions(raw)))
<1> DEFINE T == {raw[i] : i \in DOMAIN raw} \union {"default"}
<1>1. \A i \in DOMAIN raw : raw[i] \in T
  OBVIOUS
<1>2. "default" \in T /\ IsTuple(raw)
  BY CasesAssumption
<1> HIDE DEF T
<1>3. raw \in Seq(T)
  BY <1>1, <1>2, TupleIsSeq
<1> QED BY <1>2, <1>3, CasesTwice

\* The edges a switch keeps leave it at a listed case.
LEMMA KeptAtPorts ==
    ASSUME NEW edges \in Seq(EdgeRec), NEW source, NEW cases
    PROVE  LET kept == PruneSwitchCaseOutgoingEdges(edges, source, cases)
           IN  \A k \in DOMAIN kept : kept[k].src = source => kept[k].cond \in ToSet(cases)
<1> DEFINE Kept(i) == \/ edges[i].src # source
                      \/ /\ edges[i].cond \in ToSet(cases)
                         /\ \A j \in 1 .. i - 1 : ~ ( /\ edges[j].src = source
                                                      /\ edges[j].cond = edges[i].cond )
           I == {i \in DOMAIN edges : Kept(i)}
           kept == PruneSwitchCaseOutgoingEdges(edges, source, cases)
<1>1. kept = Places(edges, I)
  BY Zenon DEF PruneSwitchCaseOutgoingEdges
<1>2. \A i \in I : edges[i].src = source => edges[i].cond \in ToSet(cases)
  OBVIOUS
<1> HIDE DEF I, kept
<1>3. kept \in Seq(EdgeRec) /\ \A k \in 1 .. Len(kept) : \E i \in I : kept[k] = edges[i]
  BY <1>1, PlacesAre, PlacesKeep
<1>4. DOMAIN kept = 1 .. Len(kept)
  BY <1>3, LenProperties
<1>5. \A k \in DOMAIN kept : kept[k].src = source => kept[k].cond \in ToSet(cases)
  BY <1>2, <1>3, <1>4
<1> QED BY <1>5 DEF kept

LEMMA CasesChangeKeepsPorts ==
    ASSUME IInv, NEW raw \in CaseLists, UpdateNodeCases(raw)
    PROVE  /\ PortsKept
           /\ Ids(flow'.nodes) = Ids(flow.nodes) /\ Len(flow'.nodes) = Len(flow.nodes)
<1> DEFINE cases == NormalizeSwitchCaseOptions(raw)
           At(n) == IF n.id = selectedNode THEN [n EXCEPT !.cases = cases] ELSE n
           nodes == [i \in DOMAIN flow.nodes |-> At(flow.nodes[i])]
           edges == PruneSwitchCaseOutgoingEdges(flow.edges, selectedNode, cases)
<1>1. DOMAIN flow.nodes = 1 .. Len(flow.nodes) /\ \A i \in 1 .. Len(flow.nodes) : flow.nodes[i] \in NodeRec
  BY Parts, LenProperties
<1>2. cases \in CasesOf
  BY DEF CasesOf
<1>3. flow' = [nodes |-> nodes, edges |-> edges]
  BY Becomes, Zenon DEF UpdateNodeCases
<1>4. ToSet(cases) \subseteq ToSet(NormalizeSwitchCaseOptions(cases))
  BY GivenCases
<1>5. \A k \in DOMAIN edges : edges[k].src = selectedNode => edges[k].cond \in ToSet(cases)
  BY Parts, KeptAtPorts
<1> HIDE DEF cases, edges
<1>6. \A n \in NodeRec : /\ At(n) \in NodeRec /\ At(n).id = n.id
                         /\ n.id # selectedNode => At(n).cases = n.cases
                         /\ n.id = selectedNode => At(n).cases = cases
  BY <1>2 DEF NodeRec
<1> HIDE DEF At
<1>7. /\ nodes \in [1 .. Len(flow.nodes) -> NodeRec]
      /\ \A i \in 1 .. Len(flow.nodes) : nodes[i].id = flow.nodes[i].id
      /\ \A i \in 1 .. Len(flow.nodes) : flow.nodes[i].id # selectedNode => nodes[i].cases = flow.nodes[i].cases
      /\ \A i \in 1 .. Len(flow.nodes) : flow.nodes[i].id = selectedNode => nodes[i].cases = cases
  BY <1>1, <1>6
<1> HIDE DEF nodes
<1>8. Ids(nodes) = Ids(flow.nodes) /\ Len(nodes) = Len(flow.nodes) /\ DOMAIN nodes = 1 .. Len(flow.nodes)
  <2>1. Ids(nodes) = Ids(flow.nodes) /\ nodes \in Seq(NodeRec)
    BY <1>7, NodesChanged
  <2> QED BY <1>1, <1>7, <2>1, Parts, LenProperties
<1>9. Distinct(flow.nodes)
  BY Parts DEF Sound
<1>10. ASSUME NEW i \in 1 .. Len(flow.nodes), NEW j \in 1 .. Len(flow.nodes),
              flow.nodes[i].id = nodes[j].id, nodes[j].type = "switchCase",
              flow.nodes[i].cases # nodes[j].cases,
              NEW k \in DOMAIN edges, edges[k].src = flow.nodes[i].id
       PROVE  edges[k].cond \in Handles(nodes[j])
  <2>1. i = j
    BY <1>1, <1>7, <1>9, <1>10 DEF Distinct
  <2>2. flow.nodes[j].id = selectedNode /\ nodes[j].cases = cases
    BY <1>7, <1>10, <2>1
  <2>3. edges[k].cond \in ToSet(cases)
    BY <1>5, <1>10, <2>1, <2>2
  <2>4. Handles(nodes[j]) = ToSet(NormalizeSwitchCaseOptions(cases))
    <3> DEFINE n == nodes[j]
    <3>1. n.type = "switchCase" /\ n.cases = cases
      BY <1>10, <2>2
    <3> HIDE DEF n
    <3>2. Handles(n) = ToSet(NormalizeSwitchCaseOptions(cases))
      BY <3>1, SwitchPorts
    <3> QED BY <3>2 DEF n
  <2> QED BY <1>4, <2>3, <2>4
<1>11. flow'.nodes = nodes /\ flow'.edges = edges
  BY <1>3
<1> QED BY <1>1, <1>8, <1>10, <1>11 DEF PortsKept, Outgoing

LEMMA NodesNext ==
    ASSUME IInv'
    PROVE  /\ flow'.nodes \in Seq(NodeRec) /\ DOMAIN flow'.nodes = 1 .. Len(flow'.nodes)
           /\ Len(flow'.nodes) \in Nat
<1>1. flow'.nodes \in Seq(NodeRec)
  BY DEF IInv, FlowSound, Sound
<1> QED BY <1>1, LenProperties

LEMMA FromKeepsPorts ==
    ASSUME IInv, IInv', NodesFrom(flow'.nodes, flow.nodes)
    PROVE  PortsKept /\ NoBlankId'
<1>1. flow'.nodes \in Seq(NodeRec) /\ DOMAIN flow'.nodes = 1 .. Len(flow'.nodes)
  BY NodesNext
<1>2. PortsKept
  BY <1>1, SameCases
<1>3. \A i \in 1 .. Len(flow'.nodes) : flow'.nodes[i].id # Blank
  BY DEF NodesFrom, From
<1>4. Blank \notin Ids(flow'.nodes)
  BY <1>1, <1>3, IdsAre
<1> QED BY <1>2, <1>4 DEF NoBlankId

LEMMA OpenedHasIds ==
    ASSUME NEW f \in LoadedFlows, LoadFlow(f)
    PROVE  flow' = NormalizeFlowStructure(f) /\ NoBlankId'
<1>1. flow' = NormalizeFlowStructure(f)
  BY Becomes DEF LoadFlow
<1>2. flow'.nodes = NormalNodes(f.nodes)
  <2>1. \E edges : NormalizeFlowStructure(f) = [nodes |-> NormalNodes(f.nodes), edges |-> edges]
    BY Zenon DEF NormalizeFlowStructure
  <2> QED BY <1>1, <2>1
<1>3. Blank \notin Ids(NormalNodes(f.nodes))
  BY LoadedFlowIs, EditorAssumption, NormalNodesNotBlank
<1> QED BY <1>1, <1>2, <1>3 DEF NoBlankId

LEMMA OpenedKeepsPorts ==
    ASSUME DocumentsListPorts, NEW f \in LoadedFlows, LoadFlow(f)
    PROVE  PortsKept
<1>1. PortsListed(flow')
  BY OpenedHasIds DEF DocumentsListPorts
<1> QED BY <1>1 DEF PortsKept, PortsListed

LEMMA CasesChangeKeepsIds ==
    ASSUME IInv, NoBlankId, NEW raw \in CaseLists, UpdateNodeCases(raw)
    PROVE  PortsKept /\ NoBlankId'
BY CasesChangeKeepsPorts DEF NoBlankId

\* The edges alone change, or nothing does.
LEMMA NodesStay ==
    ASSUME \/ SelectNode \/ SelectEdge \/ RemoveEdge \/ UNCHANGED vars
           \/ \E source, target, port : AddEdge(source, target, port)
           \/ \E cond : UpdateEdge(cond)
    PROVE  flow'.nodes = flow.nodes
<1>1. CASE SelectNode \/ SelectEdge \/ UNCHANGED vars
  BY <1>1 DEF SelectNode, SelectEdge, vars
<1>2. CASE RemoveEdge
  <2>1. \E edges : flow' = [flow EXCEPT !.edges = edges]
    BY <1>2, Becomes, Zenon DEF RemoveEdge
  <2> QED BY <2>1
<1>3. CASE \E source, target, port : AddEdge(source, target, port)
  <2>1. PICK source, target, port : AddEdge(source, target, port)
    BY <1>3
  <2>2. \E edges : flow' = [flow EXCEPT !.edges = edges]
    BY <2>1, Becomes, Zenon DEF AddEdge
  <2> QED BY <2>2
<1>4. CASE \E cond : UpdateEdge(cond)
  <2>1. PICK cond : UpdateEdge(cond)
    BY <1>4
  <2>2. \E edges : flow' = [flow EXCEPT !.edges = edges]
    BY <2>1, Becomes, Zenon DEF UpdateEdge
  <2> QED BY <2>2
<1> QED BY <1>1, <1>2, <1>3, <1>4

\* Every node of the next flow is new or comes from one of this flow, unless
\* a document is opened or the cases of a node are changed.
LEMMA NextFrom ==
    ASSUME IInv, NoBlankId, [Next]_vars
    PROVE  \/ NodesFrom(flow'.nodes, flow.nodes)
           \/ \E cases \in CaseLists : UpdateNodeCases(cases)
           \/ \E f \in LoadedFlows : LoadFlow(f)
<1>1. CASE \/ SelectNode \/ SelectEdge \/ RemoveEdge \/ UNCHANGED vars
           \/ \E source, target, port : AddEdge(source, target, port)
           \/ \E cond : UpdateEdge(cond)
  BY <1>1, NodesStay, KeptFrom
<1>2. CASE Normalize
  BY <1>2, NormalizedFrom
<1>3. CASE \E type \in Types : UpdateNodeType(type)
  BY <1>3, RetypedFrom
<1>4. CASE \E type \in Types : \/ AddNode(type)
                               \/ \E id \in Ids(flow.nodes) : AddNodeFromSource(id, type)
                               \/ \E id \in Ids(flow.edges) : InsertNodeOnEdge(id, type)
  BY <1>4, AddedFrom
<1>5. CASE \E id \in Ids(flow.nodes) : RemoveNode(id)
  BY <1>5, RemovedFrom
<1>6. CASE \E strategy \in {"replace", "append", "preview"}, r \in Recordings :
              ImportRecording(strategy, r)
  BY <1>6, ImportedFrom
<1>7. \A menu : OfferedTypes(menu) \subseteq Types
  BY DEF OfferedTypes
<1> QED BY <1>1, <1>2, <1>3, <1>4, <1>5, <1>6, <1>7, Zenon DEF Next

LEMMA NextKeepsPorts ==
    ASSUME DocumentsListPorts, IInv, IInv', NoBlankId, [Next]_vars
    PROVE  PortsKept
<1>1. CASE NodesFrom(flow'.nodes, flow.nodes)
  BY <1>1, FromKeepsPorts
<1>2. CASE \E cases \in CaseLists : UpdateNodeCases(cases)
  BY <1>2, CasesChangeKeepsPorts
<1>3. CASE \E f \in LoadedFlows : LoadFlow(f)
  BY <1>3, OpenedKeepsPorts
<1> QED BY <1>1, <1>2, <1>3, NextFrom

LEMMA NextHasIds ==
    ASSUME IInv, IInv', NoBlankId, [Next]_vars
    PROVE  NoBlankId'
<1>1. CASE NodesFrom(flow'.nodes, flow.nodes)
  BY <1>1, FromKeepsPorts
<1>2. CASE \E cases \in CaseLists : UpdateNodeCases(cases)
  BY <1>2, CasesChangeKeepsIds
<1>3. CASE \E f \in LoadedFlows : LoadFlow(f)
  BY <1>3, OpenedHasIds
<1> QED BY <1>1, <1>2, <1>3, NextFrom

LEMMA InitHasIds ==
    ASSUME Init
    PROVE  NoBlankId
<1>1. PICK f \in LoadedFlows : flow = NormalizeFlowStructure(f)
  BY DEF Init
<1>2. flow.nodes = NormalNodes(f.nodes)
  <2>1. \E edges : NormalizeFlowStructure(f) = [nodes |-> NormalNodes(f.nodes), edges |-> edges]
    BY Zenon DEF NormalizeFlowStructure
  <2> QED BY <1>1, <2>1
<1>3. Blank \notin Ids(NormalNodes(f.nodes))
  BY LoadedFlowIs, EditorAssumption, NormalNodesNotBlank
<1> QED BY <1>2, <1>3 DEF NoBlankId

\* When the cases of a switch change, whatever they were and become, no edge is
\* left at a port that is gone; and no other operation, on any node, in any
\* flow, changes the cases of a node that stays (opened documents have no edge
\* at a lost port).
THEOREM PortsStayListed == DocumentsListPorts /\ Spec => NoEdgeAtLostPort
<1> SUFFICES ASSUME DocumentsListPorts
             PROVE  Spec => NoEdgeAtLostPort
  OBVIOUS
<1>1. Init => IInv /\ NoBlankId
  BY InitKeeps, InitHasIds
<1>2. IInv /\ NoBlankId /\ [Next]_vars => IInv' /\ NoBlankId' /\ PortsKept
  BY NextKeeps, NextKeepsPorts, NextHasIds
<1> QED BY <1>1, <1>2, PTL DEF Spec, NoEdgeAtLostPort, PortsKept

-----------------------------------------------------------------------------
(* What a walk reaches *)

Onward(h, S) == S \union { h.edges[i].dst : i \in { j \in DOMAIN h.edges : h.edges[j].src \in S } }

\* All that a walk can get to.
Ahead(h) == StartIds(h.nodes) \union { h.edges[i].dst : i \in DOMAIN h.edges }

LEMMA OnwardAhead ==
    ASSUME NEW h, NEW S \in SUBSET Ahead(h)
    PROVE  Onward(h, S) \in SUBSET Ahead(h)
BY DEF Onward, Ahead

ReachedRun(h, f) ==
    /\ f[0] = StartIds(h.nodes)
    /\ f[Len(h.nodes)] = Reached(h)
    /\ \A k \in 1 .. Len(h.nodes) : f[k] = Onward(h, f[k - 1])

LEMMA ReachedLoop ==
    ASSUME NEW R, NEW h, h.nodes \in Seq(R)
    PROVE  \E f : ReachedRun(h, f)
<1> DEFINE n == Len(h.nodes)
           X == SUBSET Ahead(h)
           step == [p \in (1 .. n) \X X |-> Onward(h, p[2])]
           Fits(iter) == iter = [S \in SUBSET DOMAIN h.nodes |->
                                    IF S = {} THEN StartIds(h.nodes)
                                    ELSE Onward(h, iter[S \ {Max(S)}])]
           it == CHOOSE iter : Fits(iter)
<1>1. n \in Nat /\ DOMAIN h.nodes = 1 .. n /\ \A i \in 1 .. n : h.nodes[i] \in R
  BY LenProperties
<1>2. StepsIn(step, n, X)
  <2>1. \A i \in 1 .. n, x \in X : Onward(h, x) \in X
    BY OnwardAhead
  <2> HIDE DEF X
  <2> QED BY <2>1 DEF StepsIn
<1>3. Reached(h) = it[1 .. n]
  <2>1. Reached(h) = it[DOMAIN h.nodes]
    BY Zenon DEF Reached, Onward, StartIds, FoldLeft, MapThenFoldSet
  <2> HIDE DEF it
  <2> QED BY <1>1, <2>1
<1>4. PICK g : Fits(g)
  <2>1. StartIds(h.nodes) \in X
    BY DEF Ahead
  <2>2. PICK g \in [SUBSET (1 .. n) -> X] : FoldsUp(g, n, StartIds(h.nodes), step)
    <3> HIDE DEF X, step
    <3> QED BY <1>1, <1>2, <2>1, FoldExists DEF FoldHas
  <2>3. ASSUME NEW S \in SUBSET (1 .. n), S # {}
        PROVE  Max(S) \in 1 .. n /\ S \ {Max(S)} \in SUBSET (1 .. n)
    BY <1>1, <2>3, MaxIn
  <2>4. \A S \in SUBSET (1 .. n) :
           g[S] = IF S = {} THEN StartIds(h.nodes)
                  ELSE Onward(h, g[S \ {Max(S)}])
    <3>1. \A S \in SUBSET (1 .. n) : S # {} =>
             step[<<Max(S), g[S \ {Max(S)}]>>] = Onward(h, g[S \ {Max(S)}])
      <4>1. \A S \in SUBSET (1 .. n) : S # {} => g[S \ {Max(S)}] \in X
        <5> HIDE DEF X, step
        <5> QED BY <2>2, <2>3
      <4> HIDE DEF X
      <4> QED BY <2>3, <4>1
    <3> HIDE DEF X, step
    <3> QED BY <2>2, <3>1 DEF FoldsUp
  <2>5. Fits(g)
    <3> HIDE DEF X
    <3> QED BY <1>1, <2>2, <2>4
  <2> QED BY <2>5
<1>5. Fits(it)
  <2> HIDE DEF Fits
  <2> QED BY <1>4
<1>6. /\ it[1 .. 0] = StartIds(h.nodes)
      /\ \A k \in 1 .. n : it[1 .. k] = Onward(h, it[1 .. (k - 1)])
  <2>1. it[{}] = StartIds(h.nodes)
    <3> HIDE DEF it
    <3> QED BY <1>5
  <2>2. ASSUME NEW k \in 1 .. n
        PROVE  it[1 .. k] = Onward(h, it[1 .. (k - 1)])
    <3>1. 1 .. k \in SUBSET (1 .. n)
      BY <1>1
    <3>2. k \in Nat /\ 1 .. k # {} /\ Max(1 .. k) = k /\ (1 .. k) \ {k} = 1 .. (k - 1)
      BY <1>1, LastOfInterval
    <3>3. it[1 .. k] = Onward(h, it[(1 .. k) \ {Max(1 .. k)}])
      <4> HIDE DEF it
      <4> QED BY <1>1, <1>5, <3>1, <3>2
    <3> HIDE DEF it
    <3> QED BY <3>2, <3>3
  <2>3. 1 .. 0 = {}
    OBVIOUS
  <2> HIDE DEF it
  <2> QED BY <2>1, <2>2, <2>3
<1> DEFINE f == [k \in 0 .. n |-> it[1 .. k]]
<1>7. f[0] = StartIds(h.nodes) /\ f[n] = Reached(h)
  <2> HIDE DEF it
  <2> QED BY <1>1, <1>3, <1>6
<1>8. \A k \in 1 .. n : f[k] = Onward(h, f[k - 1])
  <2> HIDE DEF it
  <2> QED BY <1>1, <1>6
<1> HIDE DEF f
<1> QED BY <1>7, <1>8 DEF ReachedRun

LEMMA OnwardGrows ==
    ASSUME NEW h, NEW S
    PROVE  /\ S \subseteq Onward(h, S)
           /\ \A i \in DOMAIN h.edges : h.edges[i].src \in S => h.edges[i].dst \in Onward(h, S)
           /\ S = {} => Onward(h, S) = {}
BY DEF Onward

\* A walk does not get out of a set that holds the start nodes and that no edge
\* leaves.
LEMMA ReachedLeast ==
    ASSUME NEW R, NEW h, h.nodes \in Seq(R), NEW S, StartIds(h.nodes) \subseteq S,
           \A i \in DOMAIN h.edges : h.edges[i].src \in S => h.edges[i].dst \in S
    PROVE  Reached(h) \subseteq S
<1>1. PICK f : ReachedRun(h, f)
  BY ReachedLoop
<1>2. Len(h.nodes) \in Nat
  BY LenProperties
<1> DEFINE G == {k \in 0 .. Len(h.nodes) : f[k] \subseteq S}
<1>3. 0 \in G
  BY <1>1, <1>2 DEF ReachedRun
<1>4. ASSUME NEW k \in 1 .. Len(h.nodes), k - 1 \in G
      PROVE  k \in G
  <2>1. f[k] = Onward(h, f[k - 1]) /\ f[k - 1] \subseteq S /\ k \in 0 .. Len(h.nodes)
    BY <1>1, <1>2, <1>4 DEF ReachedRun
  <2>2. Onward(h, f[k - 1]) \subseteq S
    BY <2>1 DEF Onward
  <2> QED BY <2>1, <2>2
<1>5. Len(h.nodes) \in G
  <2> HIDE DEF G
  <2>1. \A k \in 0 .. Len(h.nodes) : k \in G
    BY <1>2, <1>3, <1>4, UpTo
  <2> QED BY <1>2, <2>1
<1> QED BY <1>1, <1>5 DEF ReachedRun

\* A sound flow, whatever the numbers in its ids.
Graph(h) == h.nodes \in Seq(NodeRec) /\ h.edges \in Seq(EdgeRec) /\ Between(h.edges, Ids(h.nodes))

\* As many steps as there are nodes are enough: a step that is not the last one
\* gets to one more node.
LEMMA ReachedClosed ==
    ASSUME NEW h, Graph(h)
    PROVE  /\ StartIds(h.nodes) \subseteq Reached(h)
           /\ \A i \in DOMAIN h.edges : h.edges[i].src \in Reached(h) => h.edges[i].dst \in Reached(h)
<1> DEFINE n == Len(h.nodes)
           N == Ids(h.nodes)
<1>1. PICK f : ReachedRun(h, f)
  BY ReachedLoop DEF Graph
<1>2. /\ n \in Nat /\ IsFiniteSet(N) /\ Cardinality(N) <= n /\ Cardinality(N) \in Nat
      /\ DOMAIN h.edges = 1 .. Len(h.edges) /\ DOMAIN h.nodes = 1 .. n
  BY IdsFinite, LenProperties DEF Graph
<1>3. StartIds(h.nodes) \subseteq N
  BY DEF StartIds, Ids, OfType
<1>4. \A i \in DOMAIN h.edges : h.edges[i].dst \in N
  BY <1>2 DEF Graph, Between
<1> HIDE DEF n, N
<1> DEFINE Enough(S, k) == Onward(h, S) = S \/ Cardinality(S) >= k + 1
           G == {k \in 0 .. n : f[k] \subseteq N /\ StartIds(h.nodes) \subseteq f[k] /\ Enough(f[k], k)}
<1>5. 0 \in G
  <2> DEFINE S == StartIds(h.nodes)
  <2>1. f[0] = S /\ 0 \in 0 .. n
    BY <1>1, <1>2 DEF ReachedRun
  <2>2. S \subseteq N /\ (S = {} => Onward(h, S) = S)
    BY <1>3, OnwardGrows
  <2> HIDE DEF S
  <2>3. S # {} => Cardinality(S) >= 1
    <3>1. IsFiniteSet(S)
      BY <1>2, <2>2, FS_Subset
    <3>2. Cardinality(S) \in Nat /\ (Cardinality(S) = 0 <=> S = {})
      BY <3>1, FS_CardinalityType, FS_EmptySet
    <3> QED BY <3>2
  <2>4. Enough(S, 0)
    BY <2>2, <2>3
  <2> HIDE DEF Enough
  <2> QED BY <2>1, <2>2, <2>4 DEF S
<1>6. ASSUME NEW k \in 1 .. n, k - 1 \in G
      PROVE  k \in G
  <2> DEFINE S == f[k - 1]
             T == Onward(h, S)
  <2>1. f[k] = T /\ k \in 0 .. n /\ k \in Nat
    BY <1>1, <1>2 DEF ReachedRun, n
  <2>2. S \subseteq N /\ StartIds(h.nodes) \subseteq S /\ Enough(S, k - 1)
    BY <1>6
  <2> HIDE DEF S
  <2>3. S \subseteq T /\ T \subseteq N
    BY <1>4, <2>2 DEF Onward
  <2> HIDE DEF T
  <2>4. IsFiniteSet(S) /\ IsFiniteSet(T) /\ Cardinality(S) \in Nat /\ Cardinality(T) \in Nat
    BY <1>2, <2>2, <2>3, FS_Subset, FS_CardinalityType
  <2>5. CASE T = S
    <3>1. Onward(h, T) = T
      BY <2>5 DEF T
    <3> QED BY <2>1, <2>2, <2>3, <3>1
  <2>6. CASE T # S
    <3>1. Cardinality(S) >= (k - 1) + 1
      BY <2>2, <2>6 DEF T
    <3>2. Cardinality(S) < Cardinality(T)
      <4>1. Cardinality(S) <= Cardinality(T) /\ (Cardinality(S) = Cardinality(T) => S = T)
        BY <2>3, <2>4, FS_Subset
      <4> QED BY <2>4, <2>6, <4>1
    <3>3. Cardinality(T) >= k + 1
      BY <2>1, <2>4, <3>1, <3>2
    <3> QED BY <2>1, <2>2, <2>3, <3>3
  <2> QED BY <2>5, <2>6
<1>7. n \in G
  <2> HIDE DEF G
  <2>1. \A k \in 0 .. n : k \in G
    BY <1>2, <1>5, <1>6, UpTo
  <2> QED BY <1>2, <2>1
<1> DEFINE S == f[n]
<1>8. S = Reached(h) /\ S \subseteq N /\ StartIds(h.nodes) \subseteq S /\ Enough(S, n)
  BY <1>1, <1>7 DEF ReachedRun, n
<1> HIDE DEF S
<1>9. Onward(h, S) = S
  <2>1. IsFiniteSet(S) /\ Cardinality(S) \in Nat /\ Cardinality(S) <= Cardinality(N)
    BY <1>2, <1>8, FS_Subset, FS_CardinalityType
  <2> QED BY <1>2, <1>8, <2>1
<1> QED BY <1>8, <1>9, OnwardGrows

Joins(edges, a, b) == \E i \in 1 .. Len(edges) : edges[i].src = a /\ edges[i].dst = b

\* By an edge, or by two with a node between them.
Leads(edges, a, b) ==
    \/ a = b \/ Joins(edges, a, b)
    \/ \E x : Joins(edges, a, x) /\ Joins(edges, x, b)

\* Every edge of old has its way in new.
Carried(old, new) == \A i \in 1 .. Len(old) : Leads(new, old[i].src, old[i].dst)

LEMMA ReachedGrows ==
    ASSUME NEW h, Graph(h), NEW g, Graph(g),
           StartIds(h.nodes) \subseteq StartIds(g.nodes), Carried(h.edges, g.edges)
    PROVE  Reached(h) \subseteq Reached(g)
<1> DEFINE S == Reached(g)
<1>1. /\ StartIds(g.nodes) \subseteq S
      /\ \A i \in DOMAIN g.edges : g.edges[i].src \in S => g.edges[i].dst \in S
  BY ReachedClosed
<1>2. DOMAIN g.edges = 1 .. Len(g.edges) /\ DOMAIN h.edges = 1 .. Len(h.edges) /\ h.nodes \in Seq(NodeRec)
  BY LenProperties DEF Graph
<1> HIDE DEF S
<1>3. \A a, b : Joins(g.edges, a, b) /\ a \in S => b \in S
  BY <1>1, <1>2 DEF Joins
<1>4. \A a, b : Leads(g.edges, a, b) /\ a \in S => b \in S
  BY <1>3 DEF Leads
<1>5. \A i \in DOMAIN h.edges : h.edges[i].src \in S => h.edges[i].dst \in S
  BY <1>2, <1>4 DEF Carried
<1>6. Reached(h) \subseteq S
  BY <1>1, <1>2, <1>5, ReachedLeast
<1> QED BY <1>6 DEF S

\* All the edges that join two nodes in old, but for those of an edge `gone`.
AllKept(old, new) == \A a, b : Joins(old, a, b) => Joins(new, a, b)
KeptBut(old, new, gone) ==
    \A i \in 1 .. Len(old) : old[i] # gone => Joins(new, old[i].src, old[i].dst)

LEMMA KeptCarried ==
    ASSUME NEW old, NEW new
    PROVE  /\ AllKept(old, new) => Carried(old, new)
           /\ \A gone : KeptBut(old, new, gone) /\ Leads(new, gone.src, gone.dst) => Carried(old, new)
<1>1. \A i \in 1 .. Len(old) : Joins(old, old[i].src, old[i].dst)
  BY DEF Joins
<1> QED BY <1>1 DEF AllKept, KeptBut, Carried, Leads

LEMMA AppendKeepsEdges ==
    ASSUME NEW edges \in Seq(EdgeRec), NEW x \in EdgeRec
    PROVE  /\ AllKept(edges, Append(edges, x)) /\ Joins(Append(edges, x), x.src, x.dst)
           /\ Append(edges, x) \in Seq(EdgeRec)
<1> DEFINE new == Append(edges, x)
<1>1. /\ new \in Seq(EdgeRec) /\ Len(new) = Len(edges) + 1 /\ Len(edges) \in Nat
      /\ new[Len(edges) + 1] = x /\ \A i \in 1 .. Len(edges) : new[i] = edges[i]
  BY AppendIs
<1> HIDE DEF new
<1>2. Len(edges) + 1 \in 1 .. Len(new) /\ \A i \in 1 .. Len(edges) : i \in 1 .. Len(new)
  BY <1>1
<1> QED BY <1>1, <1>2 DEF AllKept, Joins, new

LEMMA ConcatKeepsEdges ==
    ASSUME NEW s \in Seq(EdgeRec), NEW t \in Seq(EdgeRec)
    PROVE  AllKept(s, s \o t)
<1>1. /\ Len(s) \in Nat /\ Len(t) \in Nat /\ Len(s \o t) = Len(s) + Len(t)
      /\ \A i \in 1 .. Len(s) + Len(t) : (s \o t)[i] = IF i <= Len(s) THEN s[i] ELSE t[i - Len(s)]
  BY ConcatProperties, LenProperties
<1>2. \A i \in 1 .. Len(s) : i \in 1 .. Len(s \o t) /\ i <= Len(s) /\ i \in 1 .. Len(s) + Len(t)
  BY <1>1
<1> QED BY <1>1, <1>2 DEF AllKept, Joins

LEMMA AppendEdgeKeepsEdges ==
    ASSUME now \in Nat, NEW edges \in Seq(EdgeRec), NEW src \in End, NEW dst \in End, NEW cond \in Cond
    PROVE  LET new == AppendEdge(edges, src, dst, cond)
           IN  AllKept(edges, new) /\ Joins(new, src, dst) /\ new \in Seq(EdgeRec)
<1> DEFINE x == CreateEdge(src, dst, Time + Len(edges), cond)
           joined == \E i \in DOMAIN edges : edges[i].src = src /\ edges[i].dst = dst
           new == AppendEdge(edges, src, dst, cond)
<1>1. DOMAIN edges = 1 .. Len(edges) /\ Len(edges) \in Nat /\ Time \in Nat
  BY LenProperties, Clock
<1>2. new = IF joined THEN edges ELSE Append(edges, x)
  BY Zenon DEF AppendEdge
<1>3. x \in EdgeRec /\ x.src = src /\ x.dst = dst
  <2> DEFINE n == Time + Len(edges)
  <2>1. n \in Nat /\ "edge" \in Part
    BY <1>1 DEF Part
  <2> HIDE DEF n
  <2>2. <<"edge", n>> \in Id
    BY <2>1, NewIdIs
  <2>3. CreateEdge(src, dst, n, cond) \in EdgeRec
    BY <2>2 DEF CreateEdge, EdgeRec
  <2> QED BY <2>3 DEF CreateEdge, n
<1>4. joined => Joins(edges, src, dst)
  BY <1>1 DEF Joins
<1> HIDE DEF x, joined, new
<1>5. AllKept(edges, new) /\ Joins(new, src, dst) /\ new \in Seq(EdgeRec)
  <2>1. CASE joined
    BY <1>2, <1>4, <2>1 DEF AllKept
  <2>2. CASE ~ joined
    <3>1. new = Append(edges, x)
      BY <1>2, <2>2
    <3>2. AllKept(edges, Append(edges, x)) /\ Joins(Append(edges, x), src, dst) /\ Append(edges, x) \in Seq(EdgeRec)
      BY <1>3, AppendKeepsEdges
    <3> QED BY <3>1, <3>2
  <2> QED BY <2>1, <2>2
<1> QED BY <1>5 DEF new

\* An edge is taken out: all the others stay.
LEMMA WithoutKeepsEdges ==
    ASSUME NEW edges \in Seq(EdgeRec), Distinct(edges), NEW m \in 1 .. Len(edges)
    PROVE  /\ KeptBut(edges, Without(edges, edges[m].id), edges[m])
           /\ Without(edges, edges[m].id) \in Seq(EdgeRec)
<1> DEFINE I == {i \in DOMAIN edges : edges[i].id # edges[m].id}
           rest == Without(edges, edges[m].id)
<1>1. DOMAIN edges = 1 .. Len(edges) /\ rest = Places(edges, I)
  <2>1. rest = Places(edges, I)
    BY Zenon DEF Without
  <2> QED BY <2>1, LenProperties
<1>2. \A i \in 1 .. Len(edges) : edges[i] # edges[m] => i \in I
  BY <1>1 DEF Distinct
<1> HIDE DEF I, rest
<1>3. rest \in Seq(EdgeRec) /\ \A i \in I \cap (1 .. Len(edges)) : \E k \in 1 .. Len(rest) : rest[k] = edges[i]
  <2>1. Places(edges, I) \in Seq(EdgeRec)
    BY PlacesAre
  <2>2. \A i \in I \cap (1 .. Len(edges)) : \E k \in 1 .. Len(Places(edges, I)) : Places(edges, I)[k] = edges[i]
    BY PlacesKeep
  <2> QED BY <1>1, <2>1, <2>2
<1>4. \A i \in 1 .. Len(edges) : edges[i] # edges[m] => Joins(rest, edges[i].src, edges[i].dst)
  BY <1>2, <1>3 DEF Joins
<1> QED BY <1>3, <1>4 DEF KeptBut, rest

LEMMA KeptOn ==
    ASSUME NEW old, NEW mid, NEW new, AllKept(mid, new)
    PROVE  /\ AllKept(old, mid) => AllKept(old, new)
           /\ \A gone : KeptBut(old, mid, gone) => KeptBut(old, new, gone)
BY DEF AllKept, KeptBut

\* An edge that is split leads where it led, through the new node.
LEMMA SplitCarries ==
    ASSUME IInv, NEW m \in 1 .. Len(flow.edges), NEW id \in End
    PROVE  LET split == flow.edges[m]
               new == AppendEdge(AppendEdge(Without(flow.edges, split.id), split.src, id, ""),
                                 id, split.dst, split.cond)
           IN  Carried(flow.edges, new)
<1> DEFINE split == flow.edges[m]
           rest == Without(flow.edges, split.id)
           before == AppendEdge(rest, split.src, id, "")
           new == AppendEdge(before, id, split.dst, split.cond)
<1>1. /\ flow.edges \in Seq(EdgeRec) /\ Distinct(flow.edges) /\ now \in Nat
      /\ split \in EdgeRec /\ "" \in Cond
  BY Parts, EdgesOfFlow DEF Sound, Cond, Port
<1>2. split.src \in End /\ split.dst \in End /\ split.cond \in Cond
  BY <1>1 DEF EdgeRec
<1>3. KeptBut(flow.edges, rest, split) /\ rest \in Seq(EdgeRec)
  BY <1>1, WithoutKeepsEdges
<1> HIDE DEF split, rest
<1>4. AllKept(rest, before) /\ Joins(before, split.src, id) /\ before \in Seq(EdgeRec)
  BY <1>1, <1>2, <1>3, AppendEdgeKeepsEdges
<1> HIDE DEF before
<1>5. AllKept(before, new) /\ Joins(new, id, split.dst)
  BY <1>1, <1>2, <1>4, AppendEdgeKeepsEdges
<1> HIDE DEF new
<1>6. KeptBut(flow.edges, new, split)
  BY <1>3, <1>4, <1>5, KeptOn
<1>7. Leads(new, split.src, split.dst)
  BY <1>4, <1>5 DEF AllKept, Leads
<1>8. Carried(flow.edges, new)
  BY <1>6, <1>7, KeptCarried
<1> QED BY <1>8 DEF new, before, rest, split

-----------------------------------------------------------------------------
(* What each operation leaves connected *)

\* What AddingCutsNothing says of a step.
NothingCut ==
    Ids(flow.nodes) \subseteq Ids(flow'.nodes) /\ Len(flow.nodes) < Len(flow'.nodes)
    => Reached(flow) \subseteq Reached(flow')

LEMMA FlowIsGraph ==
    ASSUME IInv
    PROVE  Graph(flow)
BY Parts DEF Graph

LEMMA NextIsGraph ==
    ASSUME IInv'
    PROVE  Graph(flow')
BY DEF IInv, FlowSound, Sound, Graph

LEMMA CarriedOn ==
    ASSUME IInv, IInv', StartIds(flow.nodes) \subseteq StartIds(flow'.nodes),
           Carried(flow.edges, flow'.edges)
    PROVE  NothingCut
<1> DEFINE g == flow'
<1>1. Graph(flow) /\ Graph(g)
  BY FlowIsGraph, NextIsGraph
<1>2. StartIds(flow.nodes) \subseteq StartIds(g.nodes) /\ Carried(flow.edges, g.edges)
  OBVIOUS
<1> HIDE DEF g
<1>3. Reached(flow) \subseteq Reached(g)
  BY <1>1, <1>2, ReachedGrows
<1> QED BY <1>3 DEF NothingCut, g

LEMMA NewEndId ==
    ASSUME now \in Nat, NEW type \in Types
    PROVE  <<type, Time>> \in End /\ "" \in Cond
<1>1. type \in Part /\ Time \in Nat
  BY Clock DEF Part, NodeType
<1>2. Time \in 0 .. Time
  BY <1>1
<1>3. <<type, Time>> \in Id
  BY <1>1, <1>2, NewIdIs
<1> QED BY <1>3 DEF End, Cond, Port

LEMMA EndsAre ==
    ASSUME IInv
    PROVE  /\ FirstEnd # None => FirstEnd \in End
           /\ AnchorNode # None => AnchorNode \in End
           /\ Ids(flow.nodes) \subseteq End
<1>1. Ids(flow.nodes) \subseteq End
  BY Parts, NodeIdsAre DEF End
<1> QED BY <1>1, FirstEndIs, AnchorIs

LEMMA PreferredLeaves ==
    ASSUME IInv, NEW anchor, Outgoing(flow, anchor) # {}
    PROVE  \E m \in 1 .. Len(flow.edges) : PreferredOutgoing(anchor) = flow.edges[m] /\ flow.edges[m].src = anchor
<1> DEFINE toEnd == {i \in Outgoing(flow, anchor) : flow.edges[i].dst = FirstEnd}
           I == IF toEnd # {} THEN toEnd ELSE Outgoing(flow, anchor)
<1>1. \A i \in Outgoing(flow, anchor) : i \in 1 .. Len(flow.edges) /\ flow.edges[i].src = anchor
  BY Parts DEF Outgoing
<1>2. I \subseteq 1 .. Len(flow.edges) /\ I # {} /\ \A i \in I : flow.edges[i].src = anchor
  BY <1>1
<1>3. PreferredOutgoing(anchor) = FirstOf(flow.edges, I)
  BY Zenon DEF PreferredOutgoing
<1> HIDE DEF I
<1>4. \E i \in I : FirstOf(flow.edges, I) = flow.edges[i]
  BY <1>2, Parts, FirstAndLast
<1> QED BY <1>2, <1>3, <1>4

\* Edges are added behind those of the flow.
LEMMA OneMoreEdge ==
    ASSUME IInv, NEW a \in End, NEW b \in End
    PROVE  LET new == AppendEdge(flow.edges, a, b, "")
           IN  Carried(flow.edges, new) /\ AllKept(flow.edges, new) /\ new \in Seq(EdgeRec)
<1>1. now \in Nat /\ flow.edges \in Seq(EdgeRec) /\ "" \in Cond
  BY Parts DEF Cond, Port
<1> DEFINE new == AppendEdge(flow.edges, a, b, "")
<1>2. AllKept(flow.edges, new) /\ new \in Seq(EdgeRec)
  BY <1>1, AppendEdgeKeepsEdges
<1> HIDE DEF new
<1>3. Carried(flow.edges, new)
  BY <1>2, KeptCarried
<1> QED BY <1>2, <1>3 DEF new

LEMMA TwoMoreEdges ==
    ASSUME IInv, NEW a \in End, NEW b \in End, NEW c \in End, NEW d \in End
    PROVE  Carried(flow.edges, AppendEdge(AppendEdge(flow.edges, a, b, ""), c, d, ""))
<1> DEFINE mid == AppendEdge(flow.edges, a, b, "")
           new == AppendEdge(mid, c, d, "")
<1>1. now \in Nat /\ "" \in Cond
  BY Parts DEF Cond, Port
<1>2. AllKept(flow.edges, mid) /\ mid \in Seq(EdgeRec)
  BY OneMoreEdge
<1> HIDE DEF mid
<1>3. AllKept(mid, new)
  BY <1>1, <1>2, AppendEdgeKeepsEdges
<1> HIDE DEF new
<1>4. Carried(flow.edges, new)
  BY <1>2, <1>3, KeptOn, KeptCarried
<1> QED BY <1>4 DEF new, mid

LEMMA AllCarried ==
    ASSUME IInv
    PROVE  Carried(flow.edges, flow.edges)
<1>1. AllKept(flow.edges, flow.edges)
  BY DEF AllKept
<1> QED BY <1>1, KeptCarried

LEMMA EdgesWithNodeCarry ==
    ASSUME IInv, NEW type \in Types
    PROVE  Carried(flow.edges, EdgesWithNode(<<type, Time>>, type))
<1> DEFINE id == <<type, Time>>
           edges == EdgesWithNode(id, type)
           behind == AppendEdge(flow.edges, AnchorNode, id, "")
           split == PreferredOutgoing(AnchorNode)
           out == Outgoing(flow, AnchorNode)
           before == AppendEdge(Without(flow.edges, split.id), AnchorNode, id, "")
<1>1. now \in Nat
  BY Parts
<1>2. id \in End
  BY <1>1, NewEndId
<1>3. \/ edges = flow.edges
      \/ FirstEnd # None /\ edges = AppendEdge(flow.edges, id, FirstEnd, "")
      \/ AnchorNode # None /\ edges = behind
      \/ AnchorNode # None /\ out # {} /\ edges = AppendEdge(before, id, split.dst, split.cond)
      \/ AnchorNode # None /\ FirstEnd # None /\ edges = AppendEdge(behind, id, FirstEnd, "")
  <2>1. AnchorNode = None => edges = IF type # "end" /\ FirstEnd # None
                                THEN AppendEdge(flow.edges, id, FirstEnd, "") ELSE flow.edges
    BY Zenon DEF EdgesWithNode
  <2>2. AnchorNode # None /\ type = "end" => edges = behind
    BY Zenon DEF EdgesWithNode
  <2>3. AnchorNode # None /\ type # "end" /\ out # {} =>
           edges = AppendEdge(before, id, split.dst, split.cond)
    BY Zenon DEF EdgesWithNode
  <2>4. AnchorNode # None /\ type # "end" /\ out = {} =>
           edges = IF FirstEnd # None THEN AppendEdge(behind, id, FirstEnd, "") ELSE behind
    BY Zenon DEF EdgesWithNode
  <2> HIDE DEF edges, behind, before, split, out
  <2> QED BY <2>1, <2>2, <2>3, <2>4, Zenon
<1> HIDE DEF id, edges
<1>4. FirstEnd # None => Carried(flow.edges, AppendEdge(flow.edges, id, FirstEnd, ""))
  BY <1>2, EndsAre, OneMoreEdge
<1>5. AnchorNode # None => Carried(flow.edges, behind)
  BY <1>2, EndsAre, OneMoreEdge
<1>6. AnchorNode # None /\ FirstEnd # None => Carried(flow.edges, AppendEdge(behind, id, FirstEnd, ""))
  BY <1>2, EndsAre, TwoMoreEdges
<1>7. out # {} => Carried(flow.edges, AppendEdge(before, id, split.dst, split.cond))
  <2> HAVE out # {}
  <2>1. PICK m \in 1 .. Len(flow.edges) : split = flow.edges[m] /\ flow.edges[m].src = AnchorNode
    BY PreferredLeaves
  <2> DEFINE e == flow.edges[m]
  <2>2. Carried(flow.edges, AppendEdge(AppendEdge(Without(flow.edges, e.id), e.src, id, ""), id, e.dst, e.cond))
    BY <1>2, SplitCarries
  <2>3. split = e /\ e.src = AnchorNode
    BY <2>1
  <2> HIDE DEF e, split, out
  <2> QED BY <2>2, <2>3
<1>8. Carried(flow.edges, flow.edges)
  BY AllCarried
<1> HIDE DEF behind, before, split, out
<1>9. Carried(flow.edges, edges)
  BY <1>3, <1>4, <1>5, <1>6, <1>7, <1>8
<1> QED BY <1>9 DEF edges, id

LEMMA AddedCarries ==
    ASSUME IInv, IInv', NoBlankId, NEW type \in Types,
           \/ AddNode(type)
           \/ \E id \in Ids(flow.nodes) : AddNodeFromSource(id, type)
           \/ \E id \in Ids(flow.edges) : InsertNodeOnEdge(id, type),
           Carried(flow.edges, flow'.edges)
    PROVE  NothingCut
<1>1. flow'.nodes = Append(flow.nodes, NewNode(<<type, Time>>, type))
  BY AddedFrom
<1>2. StartIds(flow.nodes) \subseteq StartIds(Append(flow.nodes, NewNode(<<type, Time>>, type)))
  BY FromMade
<1> QED BY <1>1, <1>2, CarriedOn

LEMMA AddNodeCuts ==
    ASSUME IInv, IInv', NoBlankId, NEW type \in Types, AddNode(type)
    PROVE  NothingCut
<1> DEFINE edges == EdgesWithNode(<<type, Time>>, type)
<1>1. NewNode(<<type, Time>>, type).id = <<type, Time>>
  BY DEF NewNode
<1>2. \E nodes : flow' = [nodes |-> nodes, edges |-> EdgesWithNode(NewNode(<<type, Time>>, type).id, type)]
  BY Becomes, Zenon DEF AddNode
<1>3. flow'.edges = edges
  BY <1>1, <1>2
<1>4. Carried(flow.edges, edges)
  BY EdgesWithNodeCarry
<1> HIDE DEF edges
<1> QED BY <1>3, <1>4, AddedCarries

LEMMA AddNodeFromSourceCuts ==
    ASSUME IInv, IInv', NoBlankId, NEW type \in Types, NEW source \in Ids(flow.nodes),
           AddNodeFromSource(source, type)
    PROVE  NothingCut
<1> DEFINE id == <<type, Time>>
           out == Outgoing(flow, source)
           only == FirstOf(flow.edges, out)
           behind == AppendEdge(flow.edges, source, id, "")
           before == AppendEdge(Without(flow.edges, only.id), source, id, "")
           edges == CASE type = "end" -> behind
                      [] type # "end" /\ Cardinality(out) = 1 ->
                           AppendEdge(before, id, only.dst, only.cond)
                      [] type # "end" /\ out = {} /\ FirstEnd # None -> AppendEdge(behind, id, FirstEnd, "")
                      [] OTHER -> behind
<1>1. now \in Nat /\ source \in End
  BY Parts, EndsAre
<1>2. id \in End
  BY <1>1, NewEndId
<1>3. flow'.edges = edges
  <2>1. \E nodes : flow' = [nodes |-> nodes, edges |-> edges]
    BY Becomes, Zenon DEF AddNodeFromSource
  <2> HIDE DEF edges
  <2> QED BY <2>1
<1>4. \/ edges = behind
      \/ Cardinality(out) = 1 /\ edges = AppendEdge(before, id, only.dst, only.cond)
      \/ FirstEnd # None /\ edges = AppendEdge(behind, id, FirstEnd, "")
  <2> HIDE DEF behind, before, only, out, id
  <2>1. type = "end" => edges = behind
    BY Zenon
  <2>2. type # "end" /\ Cardinality(out) = 1 => edges = AppendEdge(before, id, only.dst, only.cond)
    <3>1. Cardinality(out) = 1 => out # {}
      BY FS_EmptySet
    <3> QED BY <3>1, Zenon
  <2>3. type # "end" /\ Cardinality(out) # 1 /\ out = {} /\ FirstEnd # None =>
           edges = AppendEdge(behind, id, FirstEnd, "")
    BY Zenon
  <2>4. type # "end" /\ Cardinality(out) # 1 /\ ~ (out = {} /\ FirstEnd # None) => edges = behind
    BY Zenon
  <2> HIDE DEF edges
  <2> QED BY <2>1, <2>2, <2>3, <2>4, Zenon
<1> HIDE DEF id, edges
<1>5. Carried(flow.edges, behind)
  BY <1>1, <1>2, OneMoreEdge
<1>6. FirstEnd # None => Carried(flow.edges, AppendEdge(behind, id, FirstEnd, ""))
  BY <1>1, <1>2, EndsAre, TwoMoreEdges
<1>7. Cardinality(out) = 1 => Carried(flow.edges, AppendEdge(before, id, only.dst, only.cond))
  <2> HAVE Cardinality(out) = 1
  <2>1. out \subseteq 1 .. Len(flow.edges) /\ \A i \in out : flow.edges[i].src = source
    BY Parts DEF Outgoing
  <2>2. out # {}
    <3> HIDE DEF out
    <3> QED BY FS_EmptySet
  <2>3. PICK m \in 1 .. Len(flow.edges) : only = flow.edges[m] /\ flow.edges[m].src = source
    <3> HIDE DEF out
    <3>1. \E i \in out : FirstOf(flow.edges, out) = flow.edges[i]
      BY <2>1, <2>2, Parts, FirstAndLast
    <3> QED BY <2>1, <3>1
  <2> DEFINE e == flow.edges[m]
  <2>4. Carried(flow.edges, AppendEdge(AppendEdge(Without(flow.edges, e.id), e.src, id, ""), id, e.dst, e.cond))
    BY <1>2, SplitCarries
  <2>5. only = e /\ e.src = source
    BY <2>3
  <2> HIDE DEF e, only, out
  <2> QED BY <2>4, <2>5
<1> HIDE DEF behind, before, only, out
<1>8. Carried(flow.edges, edges)
  BY <1>4, <1>5, <1>6, <1>7
<1> QED BY <1>3, <1>8, AddedCarries

LEMMA InsertNodeOnEdgeCuts ==
    ASSUME IInv, IInv', NoBlankId, NEW type \in Types, NEW edgeId \in Ids(flow.edges),
           InsertNodeOnEdge(edgeId, type)
    PROVE  NothingCut
<1> DEFINE edge == Edge(flow, edgeId)
           id == <<type, Time>>
           rest == Without(flow.edges, edgeId)
           a == CreateEdge(edge.src, id, Time, "")
           b == CreateEdge(id, edge.dst, Time + 1, edge.cond)
           edges == rest \o <<a, b>>
<1>1. /\ now \in Nat /\ Time \in Nat /\ Time + 1 \in Nat
      /\ flow.edges \in Seq(EdgeRec) /\ Distinct(flow.edges) /\ DOMAIN flow.edges = 1 .. Len(flow.edges)
  BY Parts, Clock DEF Sound
<1>2. id \in End /\ "" \in Cond
  BY <1>1, NewEndId
<1>3. flow'.edges = edges
  <2>1. \E nodes : flow' = [nodes |-> nodes, edges |-> edges]
    BY Becomes, Zenon DEF InsertNodeOnEdge
  <2> HIDE DEF edges
  <2> QED BY <2>1
<1>4. PICK m \in 1 .. Len(flow.edges) : edge = flow.edges[m] /\ flow.edges[m].id = edgeId
  <2>1. \E i \in DOMAIN flow.edges : flow.edges[i].id = edgeId
    BY DEF Ids
  <2>2. \E i \in DOMAIN flow.edges : edge = flow.edges[i] /\ flow.edges[i].id = edgeId
    BY <2>1 DEF Edge
  <2> QED BY <1>1, <2>2
<1>5. edge \in EdgeRec /\ edge.src \in End /\ edge.dst \in End /\ edge.cond \in Cond
  <2>1. flow.edges[m] \in EdgeRec
    BY EdgesOfFlow
  <2> HIDE DEF edge
  <2> QED BY <1>4, <2>1 DEF EdgeRec
<1>6. KeptBut(flow.edges, rest, edge) /\ rest \in Seq(EdgeRec)
  <2>1. /\ KeptBut(flow.edges, Without(flow.edges, flow.edges[m].id), flow.edges[m])
        /\ Without(flow.edges, flow.edges[m].id) \in Seq(EdgeRec)
    BY <1>1, WithoutKeepsEdges
  <2> HIDE DEF edge
  <2> QED BY <1>4, <2>1
<1> HIDE DEF edge, rest, id
<1>7. /\ a \in EdgeRec /\ a.src = edge.src /\ a.dst = id
      /\ b \in EdgeRec /\ b.src = id /\ b.dst = edge.dst
  <2>1. \A n \in Nat : <<"edge", n>> \in Id
    <3>1. "edge" \in Part
      BY DEF Part
    <3> QED BY <3>1, NewIdIs
  <2>2. /\ a = [id |-> <<"edge", Time>>, src |-> edge.src, dst |-> id, cond |-> ""]
        /\ b = [id |-> <<"edge", Time + 1>>, src |-> id, dst |-> edge.dst, cond |-> edge.cond]
    BY DEF CreateEdge
  <2>3. <<"edge", Time>> \in Id /\ <<"edge", Time + 1>> \in Id
    BY <1>1, <2>1
  <2> HIDE DEF a, b
  <2>4. a \in EdgeRec
    BY <1>2, <1>5, <2>2, <2>3 DEF EdgeRec
  <2>5. b \in EdgeRec
    BY <1>2, <1>5, <2>2, <2>3 DEF EdgeRec
  <2> QED BY <2>2, <2>4, <2>5
<1> HIDE DEF a, b
<1>8. edges = Append(Append(rest, a), b)
  BY <1>6, <1>7, TwoMore
<1> HIDE DEF edges
<1> DEFINE mid == Append(rest, a)
<1>9. AllKept(rest, mid) /\ Joins(mid, edge.src, id) /\ mid \in Seq(EdgeRec)
  <2>1. AllKept(rest, mid) /\ Joins(mid, a.src, a.dst) /\ mid \in Seq(EdgeRec)
    BY <1>6, <1>7, AppendKeepsEdges
  <2> HIDE DEF mid
  <2> QED BY <1>7, <2>1
<1>10. edges = Append(mid, b)
  BY <1>8
<1> HIDE DEF mid
<1>11. AllKept(mid, edges) /\ Joins(edges, id, edge.dst)
  <2>1. AllKept(mid, Append(mid, b)) /\ Joins(Append(mid, b), b.src, b.dst)
    BY <1>7, <1>9, AppendKeepsEdges
  <2> QED BY <1>7, <1>10, <2>1
<1>12. KeptBut(flow.edges, edges, edge)
  BY <1>6, <1>9, <1>11, KeptOn
<1>13. Leads(edges, edge.src, edge.dst)
  BY <1>9, <1>11 DEF AllKept, Leads
<1>14. Carried(flow.edges, edges)
  BY <1>12, <1>13, KeptCarried
<1> QED BY <1>3, <1>14, AddedCarries

-----------------------------------------------------------------------------
(* Normalising and importing cut nothing off either *)

LEMMA ConcatKeeps ==
    ASSUME NEW R, NEW s \in Seq(R), NEW T, NEW t \in Seq(T)
    PROVE  AllKept(s, s \o t)
<1> DEFINE U == R \union T
<1>1. s \in Seq(U) /\ t \in Seq(U)
  BY SeqMonotonic
<1> HIDE DEF U
<1>2. /\ Len(s) \in Nat /\ Len(t) \in Nat /\ Len(s \o t) = Len(s) + Len(t)
      /\ \A i \in 1 .. Len(s) + Len(t) : (s \o t)[i] = IF i <= Len(s) THEN s[i] ELSE t[i - Len(s)]
  BY <1>1, ConcatProperties, LenProperties
<1>3. \A i \in 1 .. Len(s) : i \in 1 .. Len(s \o t) /\ i <= Len(s) /\ i \in 1 .. Len(s) + Len(t)
  BY <1>2
<1> QED BY <1>2, <1>3 DEF AllKept, Joins

LEMMA ConcatKeepsStarts ==
    ASSUME NEW R, NEW s \in Seq(R), NEW t \in Seq(R)
    PROVE  StartIds(s) \subseteq StartIds(s \o t)
<1>1. /\ Len(s) \in Nat /\ Len(t) \in Nat /\ Len(s \o t) = Len(s) + Len(t)
      /\ \A i \in 1 .. Len(s) + Len(t) : (s \o t)[i] = IF i <= Len(s) THEN s[i] ELSE t[i - Len(s)]
      /\ s \o t \in Seq(R)
  BY ConcatProperties, LenProperties
<1>2. DOMAIN s = 1 .. Len(s) /\ DOMAIN (s \o t) = 1 .. Len(s) + Len(t)
  BY <1>1, LenProperties
<1>3. \A i \in DOMAIN s : i \in DOMAIN (s \o t) /\ (s \o t)[i] = s[i]
  BY <1>1, <1>2
<1> QED BY <1>3 DEF StartIds, OfType

LEMMA KeepLeads ==
    ASSUME NEW acc \in Seq(EdgeRec), NEW raw \in EdgeRec, NEW nodes,
           raw.src \in Ids(nodes), raw.dst \in Ids(nodes), Blank \notin Ids(nodes)
    PROVE  LET new == KeepStep(acc, raw, nodes)
           IN  AllKept(acc, new) /\ (raw.src # raw.dst => Joins(new, raw.src, raw.dst))
<1> DEFINE id == EnsureUniqueId(raw.id, "edge", Ids(acc))
           x == [raw EXCEPT !.id = id]
           new == KeepStep(acc, raw, nodes)
<1>1. raw = Blank => new = acc
  BY Zenon DEF KeepStep
<1>2. raw # Blank
  <2>1. DOMAIN Blank = {} /\ "id" \in DOMAIN raw
    BY DEF Blank, EdgeRec
  <2> QED BY <2>1
<1>3. raw.src # raw.dst => new = Append(acc, x)
  BY <1>2, Zenon DEF KeepStep
<1>4. raw.src = raw.dst => new = acc
  BY Zenon DEF KeepStep
<1>5. new \in Seq(EdgeRec)
  BY KeepIn DEF RawEdge
<1>6. x.src = raw.src /\ x.dst = raw.dst
  <2> HIDE DEF id
  <2> QED BY DEF EdgeRec
<1> HIDE DEF x, new
<1>7. CASE raw.src = raw.dst
  BY <1>4, <1>7 DEF AllKept, new
<1>8. CASE raw.src # raw.dst
  <2> DEFINE U == EdgeRec \union {x}
  <2>1. acc \in Seq(U) /\ x \in U
    BY SeqMonotonic
  <2> HIDE DEF U
  <2>2. /\ Len(acc) \in Nat /\ Len(Append(acc, x)) = Len(acc) + 1
        /\ Append(acc, x)[Len(acc) + 1] = x /\ \A i \in 1 .. Len(acc) : Append(acc, x)[i] = acc[i]
    BY <2>1, AppendIs
  <2>3. Len(acc) + 1 \in 1 .. Len(new) /\ \A i \in 1 .. Len(acc) : i \in 1 .. Len(new)
    BY <1>3, <1>8, <2>2
  <2>4. AllKept(acc, new) /\ Joins(new, raw.src, raw.dst)
    BY <1>3, <1>6, <1>8, <2>2, <2>3 DEF AllKept, Joins
  <2> QED BY <2>4 DEF new
<1> QED BY <1>7, <1>8

\* Normalising keeps every edge between two different nodes.
LEMMA KeptEdgesJoin ==
    ASSUME NEW raw \in Seq(EdgeRec), NEW nodes, Blank \notin Ids(nodes), Between(raw, Ids(nodes))
    PROVE  \A i \in 1 .. Len(raw) :
              raw[i].src # raw[i].dst => Joins(KeptEdges(raw, nodes), raw[i].src, raw[i].dst)
<1>0. raw \in Seq(RawEdge)
  BY SeqMonotonic DEF RawEdge
<1>1. PICK f : EdgesRun(raw, nodes, f)
  BY <1>0, EdgesLoop
<1>2. Len(raw) \in Nat /\ \A i \in 1 .. Len(raw) : raw[i] \in EdgeRec /\ raw[i] \in RawEdge
  BY <1>0, LenProperties
<1> DEFINE Has(s, i) == raw[i].src # raw[i].dst => Joins(s, raw[i].src, raw[i].dst)
           G == {k \in 0 .. Len(raw) : f[k] \in Seq(EdgeRec) /\ \A i \in 1 .. k : Has(f[k], i)}
<1>3. 0 \in G
  <2>1. f[0] = <<>> /\ 1 .. 0 = {} /\ 0 \in 0 .. Len(raw)
    BY <1>1, <1>2 DEF EdgesRun
  <2>2. f[0] \in Seq(EdgeRec)
    BY <2>1
  <2>3. \A i \in 1 .. 0 : Has(f[0], i)
    BY <2>1
  <2> HIDE DEF Has
  <2> QED BY <2>1, <2>2, <2>3
<1>4. ASSUME NEW k \in 1 .. Len(raw), k - 1 \in G
      PROVE  k \in G
  <2> DEFINE acc == f[k - 1]
             new == KeepStep(acc, raw[k], nodes)
  <2>1. acc \in Seq(EdgeRec) /\ \A i \in 1 .. k - 1 : Has(acc, i)
    BY <1>4
  <2>2. f[k] = new /\ k \in 0 .. Len(raw) /\ \A i \in 1 .. k : i = k \/ i \in 1 .. k - 1
    BY <1>1, <1>2 DEF EdgesRun
  <2> HIDE DEF acc
  <2>3. raw[k].src \in Ids(nodes) /\ raw[k].dst \in Ids(nodes)
    BY DEF Between
  <2>4. AllKept(acc, new) /\ Has(new, k)
    BY <1>2, <2>1, <2>3, KeepLeads
  <2>5. new \in Seq(EdgeRec)
    BY <1>2, <2>1, KeepIn
  <2> HIDE DEF new
  <2>6. \A i \in 1 .. k - 1 : Has(new, i)
    BY <2>1, <2>4 DEF AllKept
  <2>7. \A i \in 1 .. k : Has(new, i)
    <3> HIDE DEF Has
    <3> QED BY <2>2, <2>4, <2>6
  <2> HIDE DEF Has
  <2> QED BY <2>2, <2>5, <2>7
<1>5. Len(raw) \in G
  <2> HIDE DEF G
  <2>1. \A k \in 0 .. Len(raw) : k \in G
    BY <1>2, <1>3, <1>4, UpTo
  <2> QED BY <1>2, <2>1
<1> QED BY <1>1, <1>5 DEF EdgesRun

LEMMA NormalEdgesCarry ==
    ASSUME NEW raw \in Seq(EdgeRec), NEW nodes, Blank \notin Ids(nodes), Between(raw, Ids(nodes))
    PROVE  Carried(raw, NormalEdges(raw, nodes))
<1> DEFINE kept == KeptEdges(raw, nodes)
           new == NormalEdges(raw, nodes)
<1>1. kept # <<>> => new = kept
  BY Zenon DEF NormalEdges, KeptEdges, KeepStep
<1>2. \A i \in 1 .. Len(raw) : raw[i].src # raw[i].dst => Joins(kept, raw[i].src, raw[i].dst)
  BY KeptEdgesJoin
<1> HIDE DEF kept, new
<1>3. \A a, b : kept = <<>> => ~ Joins(kept, a, b)
  BY DEF Joins
<1>4. \A i \in 1 .. Len(raw) : raw[i].src # raw[i].dst => Joins(new, raw[i].src, raw[i].dst)
  BY <1>1, <1>2, <1>3
<1> QED BY <1>4 DEF Carried, Leads, new

LEMMA NormalizeCuts ==
    ASSUME IInv, IInv', NoBlankId, Normalize
    PROVE  NothingCut
<1> DEFINE nodes == NormalNodes(flow.nodes)
           edges == NormalEdges(flow.edges, nodes)
<1>1. flow' = [nodes |-> nodes, edges |-> edges]
  BY Becomes, Zenon DEF Normalize, NormalizeFlowStructure
<1>2. flow'.nodes = nodes /\ flow'.edges = edges
  <2> HIDE DEF nodes, edges
  <2> QED BY <1>1
<1>3. NodesFrom(flow'.nodes, flow.nodes) /\ StartIds(flow.nodes) \subseteq StartIds(flow'.nodes)
  BY NormalizedFrom
<1>4. Blank \notin Ids(nodes)
  <2>1. NoBlankId'
    BY <1>3, FromKeepsPorts
  <2> HIDE DEF nodes
  <2> QED BY <1>2, <2>1 DEF NoBlankId
<1>5. Ids(flow.nodes) \subseteq Ids(nodes)
  <2>1. flow.nodes \in Seq(NodeRec) /\ Distinct(flow.nodes)
    BY Parts DEF Sound
  <2> QED BY <2>1, NormalNodesFrom DEF NoBlankId
<1> HIDE DEF nodes
<1>6. Between(flow.edges, Ids(nodes))
  BY <1>5, Parts DEF Between
<1>7. Carried(flow.edges, edges)
  BY <1>4, <1>6, Parts, NormalEdgesCarry
<1> HIDE DEF edges
<1>8. Carried(flow.edges, flow'.edges)
  BY <1>2, <1>7
<1> QED BY <1>3, <1>8, CarriedOn

LEMMA AppendCarries ==
    ASSUME IInv, NEW r \in Recordings, Actions(r) # <<>>
    PROVE  LET f == AppendMappedFlow(flow, r, selectedNode, Time)
           IN  StartIds(flow.nodes) \subseteq StartIds(f.nodes) /\ Carried(flow.edges, f.edges)
<1> DEFINE f == AppendMappedFlow(flow, r, selectedNode, Time)
           nodes == NodesWith(r)
           edges == EdgesWith(r)
           a == LinkOf(UniqueId(<<"edge_append", Time>>, Ids(edges)), BehindNode(nodes).id, Added(r)[1].id)
           b == LinkOf(UniqueId(<<"edge_append_end", Time>>, Ids(edges)),
                       Last(Added(r)).id, EndOf(Ended(nodes)).id)
           to == Redirected(Renamed(Inner(r), Ids(flow.edges)), Actions(r), Added(r))
<1>1. f = [nodes |-> Ended(nodes), edges |-> edges \o <<a, b>>]
  BY AppendedIs, Zenon
<1>2. nodes \in Seq(NodeRec) /\ edges \in Seq(EdgeRec) /\ Added(r) \in Seq(NodeRec)
  <2>1. 0 .. Time - 1 \subseteq Nat
    <3>1. Time \in Nat
      BY Parts, Clock
    <3> QED BY <3>1
  <2>2. Sound(nodes, NodeRec, Nat) /\ Sound(edges, EdgeRec, Nat) /\ Added(r) \in Seq(NodeRec)
    BY <2>1, AlwaysRoom, WithRecorded
  <2> QED BY <2>2 DEF Sound
<1>3. nodes = flow.nodes \o Added(r) /\ edges = flow.edges \o to
  BY Zenon DEF NodesWith, EdgesWith
<1>4. to \in Seq(EdgeRec)
  <2> DEFINE inner == Renamed(Inner(r), Ids(flow.edges))
  <2>1. /\ Actions(r) \in Seq(NodeRec) /\ AllDated(Actions(r), 0 .. Gap - 1)
        /\ Inner(r) \in Seq(EdgeRec) /\ AllDated(Inner(r), 0 .. Gap - 1)
        /\ Between(Inner(r), Ids(Actions(r)))
        /\ Renameable(NodeRec) /\ Renameable(EdgeRec) /\ Gap \in Nat
    BY ActionsAre, RecordsRenameable, EditorAssumption
  <2>2. RenamedAs(Added(r), NodeRec, Actions(r), Ids(flow.nodes), Nat)
    BY <2>1, Parts, AlwaysRoom, RenamedInto DEF Added
  <2>3. RenamedAs(inner, EdgeRec, Inner(r), Ids(flow.edges), Nat)
    BY <2>1, Parts, AlwaysRoom, RenamedInto
  <2> HIDE DEF inner
  <2>4. Between(inner, Ids(Actions(r))) /\ Sound(inner, EdgeRec, Nat) /\ Len(Added(r)) = Len(Actions(r))
    BY <2>1, <2>2, <2>3, RenamedBetween DEF RenamedAs
  <2>5. Sound(Redirected(inner, Actions(r), Added(r)), EdgeRec, Nat)
    BY <1>2, <2>1, <2>4, RedirectedAre
  <2> QED BY <2>5 DEF Sound, inner
<1> HIDE DEF to, nodes, edges
<1>5. StartIds(flow.nodes) \subseteq StartIds(Ended(nodes))
  <2>1. StartIds(flow.nodes) \subseteq StartIds(nodes)
    BY <1>2, <1>3, Parts, ConcatKeepsStarts
  <2>2. StartIds(nodes) \subseteq StartIds(Ended(nodes))
    BY <1>2, EndedGrows DEF Grown
  <2> QED BY <2>1, <2>2
<1> HIDE DEF a, b
<1>6. Carried(flow.edges, edges \o <<a, b>>)
  <2>1. AllKept(flow.edges, edges)
    BY <1>3, <1>4, Parts, ConcatKeepsEdges
  <2>2. AllKept(edges, edges \o <<a, b>>)
    <3>1. <<a, b>> \in Seq({a, b})
      OBVIOUS
    <3> QED BY <1>2, <3>1, ConcatKeeps
  <2>3. AllKept(flow.edges, edges \o <<a, b>>)
    BY <2>1, <2>2, KeptOn
  <2> QED BY <2>3, KeptCarried
<1>7. f.nodes = Ended(nodes) /\ f.edges = edges \o <<a, b>>
  <2> HIDE DEF f
  <2> QED BY <1>1
<1> HIDE DEF f
<1>8. StartIds(flow.nodes) \subseteq StartIds(f.nodes) /\ Carried(flow.edges, f.edges)
  BY <1>5, <1>6, <1>7
<1> QED BY <1>8 DEF f

\* A flow without nodes reaches nothing.
LEMMA NothingToReach ==
    ASSUME NEW h, Graph(h), Ids(h.nodes) = {}
    PROVE  Reached(h) = {}
<1>1. h.nodes \in Seq(NodeRec) /\ DOMAIN h.edges = 1 .. Len(h.edges) /\ Between(h.edges, {})
  BY LenProperties DEF Graph
<1>2. StartIds(h.nodes) \subseteq {}
  BY DEF StartIds, OfType, Ids
<1>3. \A i \in DOMAIN h.edges : h.edges[i].src \in {} => h.edges[i].dst \in {}
  OBVIOUS
<1>4. Reached(h) \subseteq {}
  BY <1>1, <1>2, <1>3, ReachedLeast
<1> QED BY <1>4

LEMMA ReachedAreNodes ==
    ASSUME NEW h, Graph(h)
    PROVE  Reached(h) \subseteq Ids(h.nodes)
<1>1. h.nodes \in Seq(NodeRec) /\ DOMAIN h.edges = 1 .. Len(h.edges) /\ Between(h.edges, Ids(h.nodes))
  BY LenProperties DEF Graph
<1>2. StartIds(h.nodes) \subseteq Ids(h.nodes)
  BY DEF StartIds, OfType, Ids
<1>3. \A i \in DOMAIN h.edges : h.edges[i].src \in Ids(h.nodes) => h.edges[i].dst \in Ids(h.nodes)
  BY <1>1 DEF Between
<1> QED BY <1>1, <1>2, <1>3, ReachedLeast

LEMMA ImportRecordingCuts ==
    ASSUME IInv, IInv', NEW strategy \in {"replace", "append", "preview"},
           NEW r \in Recordings, ImportRecording(strategy, r)
    PROVE  NothingCut
<1> DEFINE f == ApplyRecorderImport(strategy, flow, r, selectedNode, Time)
           node == IF f.nodes = <<>> THEN None ELSE f.nodes[1].id
<1>1. strategy = "preview" => UNCHANGED vars
  BY Zenon DEF ImportRecording
<1>2. strategy # "preview" => Become(f, node, None)
  BY Zenon DEF ImportRecording
<1>3. strategy = "replace" => f = EnsureUniqueFlowIds(r, flow)
  BY Zenon DEF ApplyRecorderImport
<1>4. strategy = "append" => f = AppendMappedFlow(flow, r, selectedNode, Time)
  BY Zenon DEF ApplyRecorderImport
<1> HIDE DEF f, node
<1>5. CASE strategy = "preview"
  <2>1. flow' = flow
    BY <1>1, <1>5 DEF vars
  <2> QED BY <2>1 DEF NothingCut
<1>6. CASE strategy = "replace"
  <2>1. flow' = EnsureUniqueFlowIds(r, flow)
    BY <1>2, <1>3, <1>6, Becomes
  <2>2. Ids(flow'.nodes) \cap Ids(flow.nodes) = {}
    BY <2>1, ReplacedFrom
  <2>3. Ids(flow.nodes) = {} => Reached(flow) = {}
    BY FlowIsGraph, NothingToReach
  <2> QED BY <2>2, <2>3 DEF NothingCut
<1>7. CASE strategy = "append"
  <2>1. flow' = AppendMappedFlow(flow, r, selectedNode, Time)
    BY <1>2, <1>4, <1>7, Becomes
  <2>2. CASE Actions(r) = <<>>
    <3>1. flow' = flow
      BY <2>1, <2>2, NothingAppended
    <3> QED BY <3>1 DEF NothingCut
  <2>3. CASE Actions(r) # <<>>
    <3>1. StartIds(flow.nodes) \subseteq StartIds(flow'.nodes) /\ Carried(flow.edges, flow'.edges)
      BY <2>1, <2>3, AppendCarries
    <3> QED BY <3>1, CarriedOn
  <2> QED BY <2>2, <2>3
<1> QED BY <1>5, <1>6, <1>7

LEMMA LoadFlowCuts ==
    ASSUME DocumentsAreConnected, IInv, NEW f \in LoadedFlows, LoadFlow(f)
    PROVE  NothingCut
<1>1. flow' = NormalizeFlowStructure(f)
  BY Becomes DEF LoadFlow
<1>2. Ids(flow'.nodes) \subseteq Reached(flow')
  BY <1>1 DEF DocumentsAreConnected
<1>3. Reached(flow) \subseteq Ids(flow.nodes)
  BY FlowIsGraph, ReachedAreNodes
<1> QED BY <1>2, <1>3 DEF NothingCut

-----------------------------------------------------------------------------
(* The other operations add no node *)

LEMMA NoNewNode ==
    ASSUME Len(flow'.nodes) = Len(flow.nodes), IInv
    PROVE  NothingCut
BY Parts DEF NothingCut

LEMMA RemoveNodeCuts ==
    ASSUME IInv, NoBlankId, NEW id \in Ids(flow.nodes), RemoveNode(id)
    PROVE  NothingCut
<1> DEFINE I == {i \in DOMAIN flow.nodes : flow.nodes[i].id # id}
           rest == Places(flow.nodes, I)
<1>1. flow'.nodes = rest
  <2>1. flow'.nodes = Without(flow.nodes, id)
    BY RemovedFrom
  <2> QED BY <2>1, Zenon DEF Without
<1>2. \A i \in I : flow.nodes[i].id # id
  OBVIOUS
<1> HIDE DEF I
<1>3. Picked(rest, flow.nodes, NodeRec, I)
  BY Parts, PlacesPick
<1> HIDE DEF rest
<1>4. \A m \in 1 .. Len(rest) : rest[m].id # id
  BY <1>2, <1>3 DEF Picked
<1>5. rest \in Seq(NodeRec)
  BY <1>3 DEF Picked
<1>6. id \notin Ids(rest)
  BY <1>4, <1>5, IdsAre
<1> QED BY <1>1, <1>6 DEF NothingCut

LEMMA NextCutsNothing ==
    ASSUME DocumentsAreConnected, IInv, IInv', NoBlankId, [Next]_vars
    PROVE  NothingCut
<1>1. CASE \/ SelectNode \/ SelectEdge \/ RemoveEdge \/ UNCHANGED vars
           \/ \E source, target, port : AddEdge(source, target, port)
           \/ \E cond : UpdateEdge(cond)
  <2>1. flow'.nodes = flow.nodes
    BY <1>1, NodesStay
  <2> QED BY <2>1, NoNewNode
<1>2. CASE Normalize
  BY <1>2, NormalizeCuts
<1>3. CASE \E type \in Types : UpdateNodeType(type)
  BY <1>3, RetypedFrom, NoNewNode
<1>4. CASE \E type \in Types : \/ AddNode(type)
                               \/ \E id \in Ids(flow.nodes) : AddNodeFromSource(id, type)
                               \/ \E id \in Ids(flow.edges) : InsertNodeOnEdge(id, type)
  BY <1>4, AddNodeCuts, AddNodeFromSourceCuts, InsertNodeOnEdgeCuts
<1>5. CASE \E id \in Ids(flow.nodes) : RemoveNode(id)
  BY <1>5, RemoveNodeCuts
<1>6. CASE \E cases \in CaseLists : UpdateNodeCases(cases)
  BY <1>6, CasesChangeKeepsPorts, NoNewNode
<1>7. CASE \E f \in LoadedFlows : LoadFlow(f)
  BY <1>7, LoadFlowCuts
<1>8. CASE \E strategy \in {"replace", "append", "preview"}, r \in Recordings :
              ImportRecording(strategy, r)
  BY <1>8, ImportRecordingCuts
<1>9. \A menu : OfferedTypes(menu) \subseteq Types
  BY DEF OfferedTypes
<1> QED BY <1>1, <1>2, <1>3, <1>4, <1>5, <1>6, <1>7, <1>8, <1>9 DEF Next

\* Whatever is added to whatever flow, by the menus, on an edge, by importing a
\* recording or by normalising it: a node that a walk from a start node got to
\* is one that it still gets to (opened documents have no node cut off).
THEOREM AdditionsCutNothing == DocumentsAreConnected /\ Spec => AddingCutsNothing
<1> SUFFICES ASSUME DocumentsAreConnected
             PROVE  Spec => AddingCutsNothing
  OBVIOUS
<1>1. Init => IInv /\ NoBlankId
  BY InitKeeps, InitHasIds
<1>2. IInv /\ NoBlankId /\ [Next]_vars => IInv' /\ NoBlankId' /\ NothingCut
  BY NextKeeps, NextHasIds, NextCutsNothing
<1> QED BY <1>1, <1>2, PTL DEF Spec, AddingCutsNothing, NothingCut
=============================================================================
