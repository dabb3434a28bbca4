---------------------------- MODULE Ordered_proofs ----------------------------
(***************************************************************************)
(* What Ascending and Picked return, that sets of numbers have a least one *)
(* and finite ones a greatest one, what is left of a sequence without some *)
(* of its elements, and where the elements of lists put together lie.      *)
(***************************************************************************)
EXTENDS Ordered, Integers, SequencesExt, FiniteSetTheorems, SequenceTheorems, TLAPS

\* Sets of numbers have a least one; what is shown with it takes the place of
\* an induction.
LEMMA LeastNumber ==
  ASSUME NEW T \in SUBSET Nat, T # {}
  PROVE  \E n \in T : \A m \in T : n <= m
<1>1. PICK n \in T : \A m \in T : ~(<<m, n>> \in OpToRel(<, Nat))
  BY NatLessThanWellFounded, WFMin, Zenon
<1>2. \A m \in T : ~(m < n)
  BY <1>1 DEF OpToRel
<1> QED
  BY <1>2

\* A finite set of numbers has a greatest one.
LEMMA GreatestNumber ==
  ASSUME NEW S \in SUBSET Nat, IsFiniteSet(S), S # {}
  PROVE  \E m \in S : \A n \in S : n <= m
<1> DEFINE Bad(X) == /\ X \in SUBSET Nat /\ IsFiniteSet(X) /\ X # {}
                     /\ ~ \E m \in X : \A n \in X : n <= m
           Sizes == {c \in Nat : \E X : Bad(X) /\ Cardinality(X) = c}
<1>1. SUFFICES ASSUME Bad(S)
               PROVE  FALSE
  OBVIOUS
<1>2. Cardinality(S) \in Sizes
  BY <1>1, FS_CardinalityType
<1>3. PICK c \in Sizes : \A d \in Sizes : c <= d
  BY <1>2, LeastNumber
<1>4. PICK X : Bad(X) /\ Cardinality(X) = c
  OBVIOUS
<1>5. PICK x \in X : TRUE
  BY <1>4
<1> DEFINE Y == X \ {x}
<1>6. IsFiniteSet(Y) /\ Cardinality(Y) = c - 1 /\ Y \in SUBSET Nat /\ c \in Nat
  BY <1>4, <1>5, FS_RemoveElement
<1>7. Cardinality(Y) \in Nat
  BY <1>6, FS_CardinalityType
<1>8. ~Bad(Y)
  <2>1. c - 1 \notin Sizes
    BY <1>3, <1>6
  <2> QED
    BY <2>1, <1>6, <1>7 DEF Sizes
<1>9. CASE Y = {}
  <2>1. X = {x}
    BY <1>9, <1>5
  <2> QED
    BY <2>1, <1>4
<1>10. CASE Y # {}
  <2>1. PICK y \in Y : \A n \in Y : n <= y
    BY <1>6, <1>8, <1>10
  <2>2. x \in Nat /\ y \in Nat /\ y \in X
    BY <1>4, <1>5, <2>1
  <2>3. CASE x <= y
    <3>1. \A n \in X : n <= y
      BY <2>1, <2>3
    <3> QED
      BY <3>1, <2>2, <1>4
  <2>4. CASE y <= x
    <3>1. \A n \in X : n <= x
      BY <2>1, <2>2, <2>4, <1>4
    <3> QED
      BY <3>1, <1>4, <1>5
  <2> QED
    BY <2>2, <2>3, <2>4
<1> QED
  BY <1>9, <1>10

\* What Max returns of such a set.
LEMMA MaxIsGreatest ==
  ASSUME NEW S \in SUBSET Nat, IsFiniteSet(S), S # {}
  PROVE  /\ Max(S) \in S
         /\ \A n \in S : n <= Max(S)
<1>1. \E m \in S : \A n \in S : m >= n
  BY GreatestNumber
<1> QED
  BY <1>1 DEF Max

\* The values of a function with a finite domain.
LEMMA FiniteValues ==
  ASSUME NEW f, IsFiniteSet(DOMAIN f), f = [x \in DOMAIN f |-> f[x]]
  PROVE  IsFiniteSet({f[x] : x \in DOMAIN f})
<1>1. f \in Surjection(DOMAIN f, {f[x] : x \in DOMAIN f})
  BY DEF Surjection
<1> QED
  BY <1>1, FS_Surjection

-----------------------------------------------------------------------------
\* Every place up to the number of elements is the rank of exactly one element,
\* and a lower key has a lower rank.
Rank(S, key, x) == Cardinality({y \in S : key[y] <= key[x]})

LEMMA RankFacts ==
  ASSUME NEW S, IsFiniteSet(S), NEW key,
         \A x \in S : key[x] \in Nat,
         \A x, y \in S : key[x] = key[y] => x = y
  PROVE  /\ \A x \in S : Rank(S, key, x) \in 1..Cardinality(S)
         /\ \A x, y \in S : key[x] < key[y] => Rank(S, key, x) < Rank(S, key, y)
         /\ \A n \in 1..Cardinality(S) : \E x \in S : Rank(S, key, x) = n
<1> DEFINE Below(x) == {y \in S : key[y] <= key[x]}
           rank(x) == Cardinality(Below(x))
           r == [x \in S |-> rank(x)]
<1>1. ASSUME NEW x \in S
      PROVE  IsFiniteSet(Below(x)) /\ rank(x) \in 1..Cardinality(S)
  <2>1. IsFiniteSet(Below(x)) /\ Cardinality(Below(x)) <= Cardinality(S)
    BY FS_Subset
  <2>2. Cardinality(Below(x)) # 0
    <3>1. x \in Below(x)
      OBVIOUS
    <3> QED
      BY <3>1, <2>1, FS_EmptySet
  <2> QED
    BY <2>1, <2>2, FS_CardinalityType
<1>2. ASSUME NEW x \in S, NEW y \in S, key[x] < key[y]
      PROVE  rank(x) < rank(y)
  <2>1. Below(x) \in SUBSET Below(y)
    BY <1>2
  <2>2. y \in Below(y) /\ y \notin Below(x)
    BY <1>2
  <2>3. Cardinality(Below(x)) <= Cardinality(Below(y)) /\ Cardinality(Below(x)) # Cardinality(Below(y))
    BY <1>1, <2>1, <2>2, FS_Subset
  <2> HIDE DEF Below
  <2> QED
    BY <1>1, <2>3
<1> HIDE DEF Below
<1>3. r \in Injection(S, 1..Cardinality(S))
  <2>1. r \in [S -> 1..Cardinality(S)]
    BY <1>1
  <2>2. ASSUME NEW x \in S, NEW y \in S, x # y
        PROVE  r[x] # r[y]
    <3>1. key[x] < key[y] \/ key[y] < key[x]
      BY <2>2
    <3>2. rank(x) # rank(y)
      BY <3>1, <1>1, <1>2
    <3> QED
      BY <3>2
  <2> HIDE DEF r
  <2> QED
    BY <2>1, <2>2 DEF Injection, IsInjective
<1>4. r \in Surjection(S, 1..Cardinality(S))
  <2>1. Cardinality(S) \in Nat
    BY FS_CardinalityType
  <2>2. IsFiniteSet(1..Cardinality(S)) /\ Cardinality(1..Cardinality(S)) = Cardinality(S)
    BY <2>1, FS_Interval
  <2> QED
    BY <1>3, <2>2, FS_Injection
<1>5. \A n \in 1..Cardinality(S) : \E x \in S : rank(x) = n
  BY <1>4 DEF Surjection
<1> QED
  BY <1>1, <1>2, <1>5 DEF Below, Rank

\* Ascending returns each element once, those with lower keys first.
LEMMA AscendingFacts ==
  ASSUME NEW S, IsFiniteSet(S), NEW key,
         \A x \in S : key[x] \in Nat,
         \A x, y \in S : key[x] = key[y] => x = y
  PROVE  LET a == Ascending(S, key)
         IN  /\ a \in [1..Cardinality(S) -> S] /\ a \in Seq(S)
             /\ Len(a) = Cardinality(S)
             /\ \A x \in S : \E n \in DOMAIN a : a[n] = x
             /\ \A m, n \in DOMAIN a : m < n => key[a[m]] < key[a[n]]
             /\ a = <<>> <=> S = {}
<1> DEFINE rank(x) == Rank(S, key, x)
           a == Ascending(S, key)
           c == Cardinality(S)
<1>1. /\ \A x \in S : rank(x) \in 1..c
      /\ \A x, y \in S : key[x] < key[y] => rank(x) < rank(y)
      /\ \A n \in 1..c : \E x \in S : rank(x) = n
  BY RankFacts
<1>2. a = [n \in 1..c |-> CHOOSE x \in S : rank(x) = n]
  BY DEF Ascending, Rank
<1> HIDE DEF a, rank
<1>3. \A n \in 1..c : a[n] \in S /\ rank(a[n]) = n
  BY <1>1, <1>2
<1>4. c \in Nat
  BY FS_CardinalityType
<1>5. a \in [1..c -> S] /\ a \in Seq(S) /\ Len(a) = c
  <2>1. a \in [1..c -> S]
    BY <1>2, <1>3
  <2> QED
    BY <2>1, <1>4
<1>6. \A x \in S : \E n \in 1..c : a[n] = x
  <2>1. SUFFICES ASSUME NEW x \in S
                 PROVE  a[rank(x)] = x
    BY <1>1
  <2>2. rank(x) \in 1..c /\ a[rank(x)] \in S /\ rank(a[rank(x)]) = rank(x)
    BY <1>1, <1>3
  <2>3. rank(x) \in Nat
    BY <2>2, <1>4
  <2>4. ~(key[a[rank(x)]] < key[x]) /\ ~(key[x] < key[a[rank(x)]])
    BY <2>2, <2>3, <1>1
  <2> QED
    BY <2>2, <2>4
<1>7. ASSUME NEW m \in 1..c, NEW n \in 1..c, m < n
      PROVE  key[a[m]] < key[a[n]]
  <2>1. a[m] \in S /\ a[n] \in S /\ rank(a[m]) = m /\ rank(a[n]) = n
    BY <1>3
  <2>2. ~(key[a[n]] < key[a[m]]) /\ a[m] # a[n]
    BY <2>1, <1>1, <1>7, <1>4
  <2> QED
    BY <2>1, <2>2
<1>8. a = <<>> <=> S = {}
  <2>1. c = 0 <=> S = {}
    BY FS_EmptySet
  <2> QED
    BY <2>1, <1>5, <1>4
<1> QED
  BY <1>5, <1>6, <1>7, <1>8 DEF a

\* Picked keeps the order of what it keeps: keeps[n] is the place that the n-th
\* element comes from.
LEMMA PickedFacts ==
  ASSUME NEW T, NEW s \in Seq(T), NEW places \in SUBSET DOMAIN s
  PROVE  LET p == Picked(s, places)
         IN  /\ p \in Seq(T)
             /\ \E keeps \in [DOMAIN p -> places] :
                  /\ \A n \in DOMAIN p : p[n] = s[keeps[n]]
                  /\ \A m, n \in DOMAIN p : m < n => keeps[m] < keeps[n]
                  /\ \A i \in places : \E n \in DOMAIN p : keeps[n] = i
             /\ p = <<>> <=> places = {}
<1> DEFINE key == [i \in DOMAIN s |-> i]
           order == Ascending(places, key)
           p == Picked(s, places)
<1>1. DOMAIN s = 1..Len(s) /\ Len(s) \in Nat
  OBVIOUS
<1>2. IsFiniteSet(places)
  <2>1. IsFiniteSet(1..Len(s)) /\ places \in SUBSET (1..Len(s))
    BY <1>1, FS_Interval
  <2> QED
    BY <2>1, FS_Subset
<1>3. /\ \A i \in places : key[i] = i /\ i \in Nat
      /\ \A i \in places : key[i] \in Nat
      /\ \A i, k \in places : key[i] = key[k] => i = k
  BY <1>1
<1> HIDE DEF key
<1>4. /\ order \in [1..Cardinality(places) -> places] /\ order \in Seq(places)
      /\ \A i \in places : \E n \in DOMAIN order : order[n] = i
      /\ \A m, n \in DOMAIN order : m < n => order[m] < order[n]
      /\ order = <<>> <=> places = {}
  <2>1. /\ order \in [1..Cardinality(places) -> places] /\ order \in Seq(places)
        /\ \A i \in places : \E n \in DOMAIN order : order[n] = i
        /\ \A m, n \in DOMAIN order : m < n => key[order[m]] < key[order[n]]
        /\ order = <<>> <=> places = {}
    BY <1>2, <1>3, AscendingFacts
  <2>2. \A n \in DOMAIN order : key[order[n]] = order[n]
    BY <2>1, <1>3
  <2> QED
    BY <2>1, <2>2
<1>5. p = [n \in DOMAIN order |-> s[order[n]]]
  BY DEF Picked, key
<1> HIDE DEF order, p
<1>6. p \in Seq(T) /\ DOMAIN p = DOMAIN order /\ (p = <<>> <=> places = {})
  <2>1. order \in [1..Len(order) -> places] /\ Len(order) \in Nat
    BY <1>4
  <2>2. \A n \in 1..Len(order) : s[order[n]] \in T
    BY <2>1, <1>1
  <2> QED
    BY <2>1, <2>2, <1>4, <1>5
<1>7. \A m, n \in DOMAIN p : m < n => order[m] < order[n]
  BY <1>4, <1>6
<1>8. order \in [DOMAIN p -> places]
  BY <1>4, <1>6
<1> QED
  BY <1>4, <1>5, <1>6, <1>7, <1>8 DEF p

-----------------------------------------------------------------------------
(* Elements picked from two sequences.                                     *)

\* How many of the places there are up to one of them.
PlaceRank(places, i) == Cardinality({j \in places : j <= i})
PlaceAt(places, n) == CHOOSE i \in places : PlaceRank(places, i) = n

\* Where the elements that Picked keeps come from.
LEMMA PickedPlaces ==
  ASSUME NEW T, NEW s \in Seq(T), NEW places \in SUBSET DOMAIN s
  PROVE  /\ Picked(s, places) = [n \in 1..Cardinality(places) |-> s[PlaceAt(places, n)]]
         /\ \A n \in 1..Cardinality(places) :
              PlaceAt(places, n) \in places /\ PlaceRank(places, PlaceAt(places, n)) = n
<1> DEFINE key == [i \in DOMAIN s |-> i]
           c == Cardinality(places)
           rank(x) == Rank(places, key, x)
           order == Ascending(places, key)
<1>1. DOMAIN s = 1..Len(s) /\ Len(s) \in Nat
  OBVIOUS
<1>2. IsFiniteSet(places)
  <2>1. IsFiniteSet(1..Len(s)) /\ places \in SUBSET (1..Len(s))
    BY <1>1, FS_Interval
  <2> QED
    BY <2>1, FS_Subset
<1>3. /\ \A i \in places : key[i] \in Nat
      /\ \A i, k \in places : key[i] = key[k] => i = k
  BY <1>1
<1>4. \A i \in places : rank(i) = PlaceRank(places, i)
  <2>1. ASSUME NEW i \in places
        PROVE  {j \in places : key[j] <= key[i]} = {j \in places : j <= i}
    OBVIOUS
  <2> QED
    BY <2>1 DEF PlaceRank, Rank
<1> HIDE DEF key
<1>5. \A n \in 1..c : \E i \in places : rank(i) = n
  BY <1>2, <1>3, RankFacts
<1>6. order = [n \in 1..c |-> CHOOSE i \in places : rank(i) = n]
  BY DEF Ascending, Rank
<1>7. Picked(s, places) = [n \in DOMAIN order |-> s[order[n]]]
  BY DEF Picked, key
<1>8. \A n \in 1..c : order[n] = PlaceAt(places, n)
  <2> SUFFICES ASSUME NEW n \in 1..c
               PROVE  (CHOOSE i \in places : rank(i) = n) = PlaceAt(places, n)
    BY <1>6
  <2> QED
    BY <1>4 DEF PlaceAt
<1> HIDE DEF order, rank
<1>9. \A n \in 1..c : \E i \in places : PlaceRank(places, i) = n
  BY <1>4, <1>5
<1>10. \A n \in 1..c :
         PlaceAt(places, n) \in places /\ PlaceRank(places, PlaceAt(places, n)) = n
  BY <1>9 DEF PlaceAt
<1> QED
  BY <1>6, <1>7, <1>8, <1>10

\* A place has one rank, and no two have the same.
LEMMA RankOfOne ==
  ASSUME NEW places \in SUBSET Nat, IsFiniteSet(places), NEW i \in places, NEW k \in places,
         PlaceRank(places, i) = PlaceRank(places, k)
  PROVE  i = k
<1> DEFINE key == [j \in places |-> j]
<1>1. \A x \in places : {j \in places : key[j] <= key[x]} = {j \in places : j <= x}
  OBVIOUS
<1>2. /\ \A x \in places : key[x] = x /\ key[x] \in Nat
      /\ \A x, y \in places : key[x] = key[y] => x = y
  OBVIOUS
<1> HIDE DEF key
<1>3. /\ \A x \in places : Rank(places, key, x) \in 1..Cardinality(places)
      /\ \A x, y \in places :
           key[x] < key[y] => Rank(places, key, x)
                                < Rank(places, key, y)
  BY <1>2, RankFacts
<1>4. \A x, y \in places :
        x < y => PlaceRank(places, x) < PlaceRank(places, y)
  BY <1>1, <1>2, <1>3 DEF PlaceRank, Rank
<1>5. \A x \in places : PlaceRank(places, x) \in Nat
  <2> SUFFICES ASSUME NEW x \in places
               PROVE  PlaceRank(places, x) \in Nat
    OBVIOUS
  <2>1. IsFiniteSet({j \in places : j <= x})
    BY FS_Subset
  <2> QED
    BY <2>1, FS_CardinalityType DEF PlaceRank
<1>6. ~(i < k) /\ ~(k < i)
  BY <1>4, <1>5
<1> QED
  BY <1>6

\* The same elements in the same order, wherever they are: f says where.
Alike(s, P, t, Q, f) ==
  /\ f \in [P -> Q]
  /\ \A i, k \in P : i < k => f[i] < f[k]
  /\ \A k \in Q : \E i \in P : f[i] = k
  /\ \A i \in P : s[i] = t[f[i]]

LEMMA PickedAlike ==
  ASSUME NEW S, NEW s \in Seq(S), NEW P \in SUBSET DOMAIN s,
         NEW T, NEW t \in Seq(T), NEW Q \in SUBSET DOMAIN t,
         NEW f, Alike(s, P, t, Q, f)
  PROVE  Picked(s, P) = Picked(t, Q)
<1>0. /\ f \in [P -> Q]
      /\ \A i, k \in P : i < k => f[i] < f[k]
      /\ \A k \in Q : \E i \in P : f[i] = k
      /\ \A i \in P : s[i] = t[f[i]]
  BY DEF Alike
<1>1. /\ DOMAIN s = 1..Len(s) /\ Len(s) \in Nat
      /\ DOMAIN t = 1..Len(t) /\ Len(t) \in Nat
      /\ P \in SUBSET Nat /\ Q \in SUBSET Nat
  OBVIOUS
<1>2. IsFiniteSet(P) /\ IsFiniteSet(Q)
  <2>1. IsFiniteSet(1..Len(s)) /\ IsFiniteSet(1..Len(t))
    BY <1>1, FS_Interval
  <2> QED
    BY <1>1, <2>1, FS_Subset
<1>3. \A i, k \in P : f[i] <= f[k] <=> i <= k
  BY <1>0, <1>1
<1>4. Cardinality(P) = Cardinality(Q)
  <2>1. f \in Bijection(P, Q)
    <3>1. \A i, k \in P : f[i] = f[k] => i = k
      BY <1>0, <1>1, <1>3
    <3> QED
      BY <1>0, <3>1 DEF Bijection, Injection, Surjection, IsInjective
  <2> QED
    BY <1>2, <2>1, FS_Bijection DEF ExistsBijection
<1>5. ASSUME NEW x \in P
      PROVE  PlaceRank(Q, f[x]) = PlaceRank(P, x)
  <2> DEFINE A == {j \in P : j <= x}
             B == {j \in Q : j <= f[x]}
             g == [j \in A |-> f[j]]
  <2>1. g \in [A -> B]
    BY <1>0, <1>3
  <2>2. \A k \in B : \E j \in A : g[j] = k
    BY <1>0, <1>3
  <2>3. \A j, k \in A : g[j] = g[k] => j = k
    BY <1>0, <1>1, <1>3
  <2> HIDE DEF A, B, g
  <2>4. g \in Bijection(A, B)
    BY <2>1, <2>2, <2>3 DEF Bijection, Injection, Surjection, IsInjective
  <2>5. IsFiniteSet(A)
    BY <1>2, FS_Subset DEF A
  <2>6. Cardinality(B) = Cardinality(A)
    BY <2>4, <2>5, FS_Bijection DEF ExistsBijection
  <2> QED
    BY <2>6 DEF A, B, PlaceRank
<1> DEFINE c == Cardinality(P)
<1>6. /\ Picked(s, P) = [n \in 1..c |-> s[PlaceAt(P, n)]]
      /\ \A n \in 1..c : PlaceAt(P, n) \in P /\ PlaceRank(P, PlaceAt(P, n)) = n
  BY PickedPlaces
<1>7. /\ Picked(t, Q) = [n \in 1..Cardinality(Q) |-> t[PlaceAt(Q, n)]]
      /\ \A n \in 1..Cardinality(Q) : PlaceAt(Q, n) \in Q /\ PlaceRank(Q, PlaceAt(Q, n)) = n
  BY PickedPlaces
<1> HIDE DEF c
<1>9. c = Cardinality(Q)
  BY <1>4 DEF c
<1>8. ASSUME NEW n \in 1..c PROVE s[PlaceAt(P, n)] = t[PlaceAt(Q, n)]
  <2>1. PlaceAt(P, n) \in P /\ f[PlaceAt(P, n)] \in Q /\ PlaceAt(Q, n) \in Q
    BY <1>0, <1>6, <1>7, <1>9
  <2>2. PlaceRank(Q, f[PlaceAt(P, n)]) = PlaceRank(Q, PlaceAt(Q, n))
    BY <1>5, <1>6, <1>7, <1>9, <2>1
  <2>3. f[PlaceAt(P, n)] = PlaceAt(Q, n)
    BY <1>1, <1>2, <2>1, <2>2, RankOfOne
  <2> QED
    BY <1>0, <2>1, <2>3
<1> QED
  BY <1>6, <1>7, <1>8, <1>9

\* All of them.
LEMMA PickedAll ==
  ASSUME NEW T, NEW s \in Seq(T)
  PROVE  Picked(s, DOMAIN s) = s
<1> DEFINE L == Len(s)
<1>1. DOMAIN s = 1..L /\ L \in Nat
  OBVIOUS
<1>2. IsFiniteSet(1..L) /\ Cardinality(1..L) = L
  BY <1>1, FS_Interval
<1>3. /\ Picked(s, DOMAIN s) = [n \in 1..Cardinality(DOMAIN s) |-> s[PlaceAt(DOMAIN s, n)]]
      /\ \A n \in 1..Cardinality(DOMAIN s) :
           /\ PlaceAt(DOMAIN s, n) \in DOMAIN s
           /\ PlaceRank(DOMAIN s, PlaceAt(DOMAIN s, n)) = n
  <2>1. DOMAIN s \in SUBSET DOMAIN s
    OBVIOUS
  <2> QED
    BY <2>1, PickedPlaces
<1>4. ASSUME NEW n \in 1..L PROVE PlaceAt(1..L, n) = n
  <2>1. {j \in 1..L : j <= n} = 1..n
    BY <1>1
  <2>2. Cardinality(1..n) = n
    BY FS_Interval
  <2>3. PlaceRank(1..L, n) = n
    BY <2>1, <2>2 DEF PlaceRank
  <2>4. 1..L \in SUBSET Nat /\ PlaceAt(1..L, n) \in 1..L
    BY <1>1, <1>2, <1>3
  <2>5. PlaceRank(1..L, PlaceAt(1..L, n)) = PlaceRank(1..L, n)
    BY <1>1, <1>2, <1>3, <2>3
  <2> QED
    BY <1>2, <2>4, <2>5, RankOfOne
<1> HIDE DEF L
<1>5. s = [n \in 1..L |-> s[n]]
  BY <1>1
<1> QED
  BY <1>1, <1>2, <1>3, <1>4, <1>5

-----------------------------------------------------------------------------
(* What is left of a sequence without some of its elements, and sequences  *)
(* that are put together.                                                  *)

Cut(fs, i, j) == SubSeq(fs, 1, i - 1) \o SubSeq(fs, j + 1, Len(fs))

\* Where the n-th element was before.
Before(i, j, n) == IF n < i THEN n ELSE n + (j - i) + 1

LEMMA CutFacts ==
  ASSUME NEW S, NEW fs \in Seq(S), NEW i \in DOMAIN fs, NEW j \in DOMAIN fs, i <= j
  PROVE  LET cut == Cut(fs, i, j)
         IN  /\ cut \in Seq(S)
             /\ \A n \in DOMAIN cut : /\ Before(i, j, n) \in DOMAIN fs \ (i..j)
                                      /\ cut[n] = fs[Before(i, j, n)]
             /\ \A k \in DOMAIN fs \ (i..j) : \E n \in DOMAIN cut : Before(i, j, n) = k
             /\ \A m, n \in DOMAIN cut : m < n <=> Before(i, j, m) < Before(i, j, n)
             /\ DOMAIN cut \in SUBSET Nat /\ DOMAIN fs \in SUBSET Nat
<1> DEFINE L == Len(fs)
           a == SubSeq(fs, 1, i - 1)
           b == SubSeq(fs, j + 1, L)
           cut == Cut(fs, i, j)
<1>1. DOMAIN fs = 1..L /\ L \in Nat /\ i \in 1..L /\ j \in 1..L
  OBVIOUS
<1>2. /\ a \in Seq(S) /\ Len(a) = i - 1 /\ \A n \in 1..(i - 1) : a[n] = fs[n]
      /\ b \in Seq(S) /\ Len(b) = L - j /\ \A n \in 1..(L - j) : b[n] = fs[n + j]
  <2>1. a \in Seq(S) /\ Len(a) = i - 1 /\ \A n \in 1..(i - 1) : a[n] = fs[n]
    BY <1>1
  <2>2. b \in Seq(S) /\ Len(b) = L - j
    BY <1>1
  <2>3. \A n \in 1..(L - j) : b[n] = fs[n + j]
    BY <1>1
  <2> QED
    BY <2>1, <2>2, <2>3
<1> HIDE DEF a, b, L
<1>3. cut = a \o b
  BY DEF Cut, a, b, L
<1> HIDE DEF cut
<1>4. /\ cut \in Seq(S) /\ Len(cut) = (i - 1) + (L - j)
      /\ DOMAIN cut = 1..((i - 1) + (L - j))
      /\ \A n \in DOMAIN cut : cut[n] = IF n <= i - 1 THEN a[n] ELSE b[n - (i - 1)]
  <2>1. cut \in Seq(S)
    BY <1>2, <1>3
  <2>2. Len(cut) = (i - 1) + (L - j)
    <3>1. Len(a \o b) = Len(a) + Len(b)
      BY <1>2, ConcatProperties
    <3> QED
      BY <1>2, <1>3, <3>1
  <2>3. DOMAIN cut = 1..((i - 1) + (L - j))
    BY <2>1, <2>2
  <2>4. \A n \in 1..((i - 1) + (L - j)) : cut[n] = IF n <= i - 1 THEN a[n] ELSE b[n - (i - 1)]
    <3>1. a \in Seq(S) /\ b \in Seq(S) /\ Len(a) = i - 1 /\ Len(b) = L - j /\ i - 1 \in Nat
      BY <1>1, <1>2
    <3> QED
      BY <1>3, <3>1
  <2> QED
    BY <2>1, <2>2, <2>3, <2>4
<1>5. \A n \in DOMAIN cut : /\ Before(i, j, n) \in DOMAIN fs \ (i..j)
                            /\ cut[n] = fs[Before(i, j, n)]
  <2> SUFFICES ASSUME NEW n \in DOMAIN cut
               PROVE  /\ Before(i, j, n) \in DOMAIN fs \ (i..j)
                      /\ cut[n] = fs[Before(i, j, n)]
    OBVIOUS
  <2>1. CASE n < i
    <3>1. n \in 1..(i - 1)
      BY <1>1, <1>4, <2>1
    <3> QED
      BY <1>1, <1>2, <1>4, <2>1, <3>1 DEF Before
  <2>2. CASE ~(n < i)
    <3>1. n - (i - 1) \in 1..(L - j) /\ n \in Nat
      BY <1>1, <1>4, <2>2
    <3>2. cut[n] = fs[(n - (i - 1)) + j]
      <4>1. cut[n] = b[n - (i - 1)]
        BY <1>1, <1>4, <2>2
      <4> QED
        BY <1>2, <3>1, <4>1
    <3>3. (n - (i - 1)) + j = n + (j - i) + 1
      BY <1>1, <3>1
    <3>4. n + (j - i) + 1 \in (j + 1)..L
      BY <1>1, <3>1
    <3> QED
      BY <1>1, <2>2, <3>2, <3>3, <3>4 DEF Before
  <2> QED
    BY <2>1, <2>2
<1>6. \A k \in DOMAIN fs \ (i..j) : \E n \in DOMAIN cut : Before(i, j, n) = k
  <2> SUFFICES ASSUME NEW k \in DOMAIN fs \ (i..j)
               PROVE  \E n \in DOMAIN cut : Before(i, j, n) = k
    OBVIOUS
  <2>1. CASE k < i
    BY <1>1, <1>4, <2>1 DEF Before
  <2>2. CASE k > j
    <3>1. k - (j - i) - 1 \in DOMAIN cut
      BY <1>1, <1>4, <2>2
    <3>2. Before(i, j, k - (j - i) - 1) = k
      BY <1>1, <2>2 DEF Before
    <3> QED
      BY <3>1, <3>2
  <2> QED
    BY <1>1, <2>1, <2>2
<1>7. \A m, n \in DOMAIN cut : m < n <=> Before(i, j, m) < Before(i, j, n)
  BY <1>1, <1>4 DEF Before
<1> QED
  BY <1>1, <1>4, <1>5, <1>6, <1>7 DEF cut

LEMMA ConcatFacts ==
  ASSUME NEW S, NEW a \in Seq(S), NEW b \in Seq(S)
  PROVE  /\ a \o b \in Seq(S) /\ Len(a) \in Nat /\ Len(b) \in Nat
         /\ DOMAIN a = 1..Len(a) /\ DOMAIN b = 1..Len(b) /\ DOMAIN (a \o b) = 1..(Len(a) + Len(b))
         /\ \A n \in DOMAIN a : (a \o b)[n] = a[n]
         /\ \A n \in DOMAIN b : (a \o b)[Len(a) + n] = b[n]
<1>1. a \o b \in Seq(S) /\ Len(a) \in Nat /\ Len(b) \in Nat
  OBVIOUS
<1>2. DOMAIN a = 1..Len(a) /\ DOMAIN b = 1..Len(b) /\ DOMAIN (a \o b) = 1..(Len(a) + Len(b))
  OBVIOUS
<1>3. \A n \in 1..Len(a) : (a \o b)[n] = a[n]
  OBVIOUS
<1>4. \A n \in 1..Len(b) : (a \o b)[Len(a) + n] = b[n]
  BY <1>1
<1> QED
  BY <1>1, <1>2, <1>3, <1>4

-----------------------------------------------------------------------------
(* Lists put together.                                                     *)

\* How the elements of f, the first n of the lists ss put together, lie in them.
Laid(f, ss, n, row, col) ==
  /\ row \in [DOMAIN f -> 1..n] /\ col \in [DOMAIN f -> Nat]
  /\ \A k \in DOMAIN f : col[k] \in DOMAIN ss[row[k]] /\ f[k] = ss[row[k]][col[k]]
  /\ \A i \in 1..n : \A j \in DOMAIN ss[i] : \E k \in DOMAIN f : row[k] = i /\ col[k] = j
  /\ \A k, l \in DOMAIN f : k < l => \/ row[k] < row[l]
                                     \/ row[k] = row[l] /\ col[k] < col[l]

LEMMA LaidFirst ==
  ASSUME NEW S, NEW ss \in Seq(Seq(S)), ss # <<>>
  PROVE  \E row, col : Laid(ss[1], ss, 1, row, col)
<1> DEFINE f == ss[1]
           row == [k \in DOMAIN f |-> 1]
           col == [k \in DOMAIN f |-> k]
<1>1. f \in Seq(S) /\ DOMAIN f = 1..Len(f) /\ Len(f) \in Nat
  OBVIOUS
<1>2. /\ row \in [DOMAIN f -> 1..1] /\ col \in [DOMAIN f -> Nat]
      /\ \A k \in DOMAIN f : row[k] = 1 /\ col[k] = k
  BY <1>1
<1> HIDE DEF row, col
<1>3. \A i \in 1..1 : i = 1
  OBVIOUS
<1>4. Laid(f, ss, 1, row, col)
  BY <1>1, <1>2, <1>3 DEF Laid
<1> QED
  BY <1>4

LEMMA LaidNext ==
  ASSUME NEW S, NEW ss \in Seq(Seq(S)), NEW n \in 1..Len(ss), n + 1 \in 1..Len(ss),
         NEW f \in Seq(S), NEW r, NEW c, Laid(f, ss, n, r, c)
  PROVE  \E row, col : Laid(f \o ss[n + 1], ss, n + 1, row, col)
<1> DEFINE m == Len(f)
           g == ss[n + 1]
           h == f \o g
           row == [k \in DOMAIN h |-> IF k <= m THEN r[k] ELSE n + 1]
           col == [k \in DOMAIN h |-> IF k <= m THEN c[k] ELSE k - m]
<1>0. n \in Nat /\ Len(ss) \in Nat /\ g \in Seq(S)
  OBVIOUS
<1>1. /\ h \in Seq(S) /\ m \in Nat /\ Len(g) \in Nat
      /\ DOMAIN f = 1..m /\ DOMAIN g = 1..Len(g) /\ DOMAIN h = 1..(m + Len(g))
      /\ \A k \in DOMAIN f : h[k] = f[k]
      /\ \A k \in DOMAIN g : h[m + k] = g[k]
  BY <1>0, ConcatFacts
<1>2. \A k \in DOMAIN h : \/ k \in DOMAIN f /\ k <= m
                          \/ k - m \in DOMAIN g /\ ~(k <= m) /\ k = m + (k - m)
  BY <1>1
<1>3. \A k \in DOMAIN f : k \in DOMAIN h /\ k <= m
  BY <1>1
<1>4. \A k \in DOMAIN g : m + k \in DOMAIN h /\ ~(m + k <= m) /\ (m + k) - m = k
  BY <1>1
<1>5. DOMAIN h \in SUBSET Nat /\ DOMAIN g \in SUBSET Nat
  BY <1>1
<1>6. /\ r \in [DOMAIN f -> 1..n] /\ c \in [DOMAIN f -> Nat]
      /\ \A k \in DOMAIN f : c[k] \in DOMAIN ss[r[k]] /\ f[k] = ss[r[k]][c[k]]
      /\ \A i \in 1..n : \A j \in DOMAIN ss[i] : \E k \in DOMAIN f : r[k] = i /\ c[k] = j
      /\ \A k, l \in DOMAIN f : k < l => r[k] < r[l] \/ (r[k] = r[l] /\ c[k] < c[l])
  BY DEF Laid
<1>7. /\ \A k \in DOMAIN h : k <= m => row[k] = r[k] /\ col[k] = c[k]
      /\ \A k \in DOMAIN h : ~(k <= m) => row[k] = n + 1 /\ col[k] = k - m
  OBVIOUS
<1>8. row \in [DOMAIN h -> 1..(n + 1)] /\ col \in [DOMAIN h -> Nat]
  <2>1. ASSUME NEW k \in DOMAIN h
        PROVE  /\ (IF k <= m THEN r[k] ELSE n + 1) \in 1..(n + 1)
               /\ (IF k <= m THEN c[k] ELSE k - m) \in Nat
    <3>1. CASE k \in DOMAIN f /\ k <= m
      <4>1. r[k] \in 1..n /\ c[k] \in Nat
        BY <1>6, <3>1
      <4> QED
        BY <1>0, <3>1, <4>1
    <3>2. CASE k - m \in DOMAIN g /\ ~(k <= m)
      BY <1>0, <1>5, <3>2
    <3> QED
      BY <1>2, <3>1, <3>2
  <2> QED
    BY <2>1
<1>9. row = [k \in DOMAIN h |-> row[k]] /\ col = [k \in DOMAIN h |-> col[k]]
  OBVIOUS
<1> HIDE DEF row, col, h, m, g
<1>10. ASSUME NEW k \in DOMAIN h
       PROVE  col[k] \in DOMAIN ss[row[k]] /\ h[k] = ss[row[k]][col[k]]
  <2>1. CASE k \in DOMAIN f /\ k <= m
    BY <1>1, <1>6, <1>7, <2>1
  <2>2. CASE k - m \in DOMAIN g /\ ~(k <= m) /\ k = m + (k - m)
    <3>1. h[k] = g[k - m]
      BY <1>1, <2>2
    <3>2. row[k] = n + 1 /\ col[k] = k - m
      BY <1>7, <2>2
    <3> QED
      BY <2>2, <3>1, <3>2 DEF g
  <2> QED
    BY <1>2, <2>1, <2>2
<1>11. ASSUME NEW i \in 1..(n + 1), NEW j \in DOMAIN ss[i]
       PROVE  \E k \in DOMAIN h : row[k] = i /\ col[k] = j
  <2>1. CASE i \in 1..n
    <3>1. PICK k \in DOMAIN f : r[k] = i /\ c[k] = j
      BY <1>6, <2>1
    <3>2. k \in DOMAIN h /\ row[k] = r[k] /\ col[k] = c[k]
      BY <1>3, <1>7
    <3> QED
      BY <3>1, <3>2
  <2>2. CASE i = n + 1
    <3>1. j \in DOMAIN g
      BY <2>2 DEF g
    <3>2. m + j \in DOMAIN h /\ ~(m + j <= m) /\ (m + j) - m = j
      BY <1>4, <3>1
    <3> QED
      BY <1>7, <2>2, <3>2
  <2> QED
    BY <1>0, <2>1, <2>2
<1>12. ASSUME NEW k \in DOMAIN h, NEW l \in DOMAIN h, k < l
       PROVE  row[k] < row[l] \/ (row[k] = row[l] /\ col[k] < col[l])
  <2>0. k \in Nat /\ l \in Nat /\ m \in Nat
    BY <1>1, <1>5
  <2>1. CASE l <= m
    <3>1. k <= m
      BY <2>0, <2>1, <1>12
    <3>2. k \in DOMAIN f /\ l \in DOMAIN f
      BY <1>2, <2>1, <3>1
    <3> QED
      BY <1>6, <1>7, <1>12, <2>1, <3>1, <3>2
  <2>2. CASE k <= m /\ ~(l <= m)
    <3>1. k \in DOMAIN f
      BY <1>2, <2>2
    <3>2. row[k] = r[k] /\ row[l] = n + 1 /\ r[k] \in 1..n
      BY <1>6, <1>7, <2>2, <3>1
    <3> QED
      BY <1>0, <3>2
  <2>3. CASE ~(k <= m) /\ ~(l <= m)
    <3>1. row[k] = row[l] /\ col[k] = k - m /\ col[l] = l - m
      BY <1>7, <2>3
    <3> QED
      BY <1>12, <2>0, <3>1
  <2> QED
    BY <2>1, <2>2, <2>3
<1>13. Laid(h, ss, n + 1, row, col)
  BY <1>8, <1>10, <1>11, <1>12 DEF Laid
<1> QED
  BY <1>13 DEF h, g

\* The recursion that FlattenSeq is defined by has a solution.
LEMMA FlattenIs ==
  ASSUME NEW S, NEW ss \in Seq(Seq(S)), ss # <<>>
  PROVE  \E F : /\ F = [i \in 1..Len(ss) |-> IF i = 1 THEN ss[i] ELSE F[i - 1] \o ss[i]]
                /\ FlattenSeq(ss) = F[Len(ss)]
<1> DEFINE L == Len(ss)
           Solves(g, n) == \A i \in 1..n : g[i] = IF i = 1 THEN ss[i] ELSE g[i - 1] \o ss[i]
           Bad == {n \in 1..L : ~ \E g \in [1..n -> Seq(S)] : Solves(g, n)}
<1>1. L \in Nat /\ L # 0 /\ L \in 1..L /\ \A i \in 1..L : ss[i] \in Seq(S)
  OBVIOUS
<1>2. Bad = {}
  <2> SUFFICES ASSUME Bad # {} PROVE FALSE
    OBVIOUS
  <2>1. PICK n \in Bad : \A m \in Bad : n <= m
    <3>1. Bad \in SUBSET Nat
      BY <1>1
    <3> QED
      BY <3>1, LeastNumber
  <2>2. n \in 1..L /\ n \in Nat
    BY <1>1, <2>1
  <2>3. CASE n = 1
    <3> DEFINE g == [i \in 1..1 |-> ss[1]]
    <3>1. g \in [1..1 -> Seq(S)] /\ Solves(g, 1)
      BY <1>1, <2>2, <2>3
    <3> QED
      BY <2>1, <2>3, <3>1
  <2>4. CASE n # 1
    <3>1. n - 1 \in 1..L /\ n - 1 \notin Bad
      <4>1. n - 1 \in 1..L /\ ~(n <= n - 1)
        BY <1>1, <2>2, <2>4
      <4> HIDE DEF Bad
      <4> QED
        BY <2>1, <4>1
    <3>2. PICK g \in [1..(n - 1) -> Seq(S)] : Solves(g, n - 1)
      BY <3>1
    <3> DEFINE h == [i \in 1..n |-> IF i = n THEN g[n - 1] \o ss[n] ELSE g[i]]
    <3>3. n - 1 \in 1..(n - 1) /\ \A i \in 1..n : i # n => i \in 1..(n - 1)
      BY <2>2, <3>1
    <3>4. g[n - 1] \in Seq(S) /\ ss[n] \in Seq(S)
      BY <1>1, <2>2, <3>2, <3>3
    <3>5. g[n - 1] \o ss[n] \in Seq(S)
      BY <3>4, ConcatFacts
    <3>6. h \in [1..n -> Seq(S)]
      BY <3>2, <3>3, <3>5
    <3>7. \A i \in 1..n : (i # n => h[i] = g[i]) /\ (i = n => h[i] = g[n - 1] \o ss[n])
      OBVIOUS
    <3> HIDE DEF h
    <3>8. ASSUME NEW i \in 1..n
          PROVE  h[i] = IF i = 1 THEN ss[i] ELSE h[i - 1] \o ss[i]
      <4>1. CASE i = n
        <5>1. n - 1 \in 1..n /\ n - 1 # n
          BY <2>2, <3>1
        <5> QED
          BY <2>4, <3>7, <4>1, <5>1
      <4>2. CASE i # n
        <5>1. i \in 1..(n - 1) /\ h[i] = g[i]
          BY <3>3, <3>7, <4>2
        <5>2. i # 1 => i - 1 \in 1..n /\ i - 1 # n
          BY <2>2, <5>1
        <5>3. i # 1 => h[i - 1] = g[i - 1]
          BY <3>7, <5>2
        <5>4. g[i] = IF i = 1 THEN ss[i] ELSE g[i - 1] \o ss[i]
          BY <3>2, <5>1
        <5> QED
          BY <5>1, <5>3, <5>4
      <4> QED
        BY <4>1, <4>2
    <3>9. Solves(h, n)
      BY <3>8
    <3> QED
      BY <2>1, <3>6, <3>9
  <2> QED
    BY <2>3, <2>4
<1>3. PICK g \in [1..L -> Seq(S)] : Solves(g, L)
  BY <1>1, <1>2
<1> DEFINE Is(F) == F = [i \in 1..L |-> IF i = 1 THEN ss[i] ELSE F[i - 1] \o ss[i]]
<1>4. Is(g)
  BY <1>3
<1>5. FlattenSeq(ss) = (CHOOSE F : Is(F))[L]
  BY <1>1 DEF FlattenSeq
<1>6. Is(CHOOSE F : Is(F))
  BY <1>4
<1> QED
  BY <1>5, <1>6

\* FlattenSeq puts lists together: every element of each of them has its place,
\* and the places are in the order of the lists.
LEMMA FlattenPlaces ==
  ASSUME NEW S, NEW ss \in Seq(Seq(S))
  PROVE  /\ FlattenSeq(ss) \in Seq(S)
         /\ \E row, col : Laid(FlattenSeq(ss), ss, Len(ss), row, col)
<1> DEFINE L == Len(ss)
<1>1. L \in Nat /\ \A i \in 1..L : ss[i] \in Seq(S)
  OBVIOUS
<1>2. CASE ss = <<>>
  <2>1. FlattenSeq(ss) = <<>> /\ L = 0
    BY <1>2 DEF FlattenSeq
  <2> DEFINE f == [k \in {} |-> 0]
  <2>2. Laid(<<>>, ss, 0, f, f)
    BY DEF Laid
  <2> QED
    BY <2>1, <2>2
<1>3. CASE ss # <<>>
  <2>1. PICK F : /\ F = [i \in 1..L |-> IF i = 1 THEN ss[i] ELSE F[i - 1] \o ss[i]]
                 /\ FlattenSeq(ss) = F[L]
    BY <1>3, FlattenIs
  <2>2. \A i \in 1..L : F[i] = IF i = 1 THEN ss[i] ELSE F[i - 1] \o ss[i]
    BY <2>1
  <2> DEFINE Fine(n) == F[n] \in Seq(S) /\ \E row, col : Laid(F[n], ss, n, row, col)
             Bad == {n \in 1..L : ~Fine(n)}
  <2>3. Bad = {}
    <3> SUFFICES ASSUME Bad # {} PROVE FALSE
      OBVIOUS
    <3>1. PICK n \in Bad : \A m \in Bad : n <= m
      <4>1. Bad \in SUBSET Nat
        BY <1>1
      <4> QED
        BY <4>1, LeastNumber
    <3>2. n \in 1..L /\ n \in Nat /\ ~Fine(n)
      BY <1>1, <3>1
    <3>3. CASE n = 1
      <4>1. F[n] = ss[1]
        BY <2>2, <3>2, <3>3
      <4>2. F[n] \in Seq(S)
        BY <1>1, <3>2, <3>3, <4>1
      <4> QED
        BY <1>3, <3>2, <3>3, <4>1, <4>2, LaidFirst
    <3>4. CASE n # 1
      <4>1. n - 1 \in 1..L /\ n - 1 \notin Bad /\ (n - 1) + 1 = n
        <5>1. n - 1 \in 1..L /\ ~(n <= n - 1) /\ (n - 1) + 1 = n
          BY <1>1, <3>2, <3>4
        <5> HIDE DEF Bad
        <5> QED
          BY <3>1, <5>1
      <4>2. Fine(n - 1)
        BY <4>1
      <4>3. F[n] = F[n - 1] \o ss[(n - 1) + 1]
        BY <2>2, <3>2, <3>4, <4>1
      <4> HIDE DEF L
      <4>4. PICK row, col : Laid(F[n - 1], ss, n - 1, row, col)
        BY <4>2
      <4>5. \E x, y : Laid(F[n - 1] \o ss[(n - 1) + 1], ss, (n - 1) + 1, x, y)
        BY <3>2, <4>1, <4>2, <4>4, LaidNext DEF L
      <4>6. F[n] \in Seq(S)
        BY <1>1, <3>2, <4>1, <4>2, <4>3, ConcatFacts
      <4> QED
        BY <3>2, <4>1, <4>3, <4>5, <4>6
    <3> QED
      BY <3>3, <3>4
  <2>4. L \in 1..L
    BY <1>1, <1>3
  <2>5. Fine(L)
    BY <2>3, <2>4
  <2> QED
    BY <2>1, <2>5
<1> QED
  BY <1>2, <1>3
=============================================================================
