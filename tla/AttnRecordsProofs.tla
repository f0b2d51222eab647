------------------------- MODULE AttnRecordsProofs --------------------------
(***************************************************************************)
(* What the operators of the history do to a history of any length, with   *)
(* any number of senders and any bounds.                                   *)
(***************************************************************************)
EXTENDS AttnRecords, FiniteSetTheorems, WellFoundedInduction, TLAPS

(***************************************************************************)
(* Told apart by a number each, the elements of a finite set take every    *)
(* rank from none below to all the others below.                           *)
(***************************************************************************)
Below(S, v, x) == {y \in S : v[y] < v[x]}

LEMMA BelowFinite ==
  ASSUME NEW S, IsFiniteSet(S), NEW v \in [S -> Nat], NEW x \in S
  PROVE  /\ IsFiniteSet(Below(S, v, x))
         /\ Cardinality(Below(S, v, x)) \in 0 .. Cardinality(S) - 1
<1>1. Below(S, v, x) \in SUBSET S /\ Below(S, v, x) # S
  BY DEF Below
<1>2. /\ IsFiniteSet(Below(S, v, x))
      /\ Cardinality(Below(S, v, x)) <= Cardinality(S)
      /\ Cardinality(Below(S, v, x)) # Cardinality(S)
  BY <1>1, FS_Subset
<1>3. Cardinality(S) \in Nat /\ Cardinality(Below(S, v, x)) \in Nat
  BY <1>2, FS_CardinalityType
<1>4. QED
  BY <1>2, <1>3

LEMMA BelowGrows ==
  ASSUME NEW S, IsFiniteSet(S), NEW v \in [S -> Nat],
         NEW x \in S, NEW y \in S, v[x] < v[y]
  PROVE  Cardinality(Below(S, v, x)) < Cardinality(Below(S, v, y))
<1>1. /\ IsFiniteSet(Below(S, v, y))
      /\ Cardinality(Below(S, v, x)) \in Nat /\ Cardinality(Below(S, v, y)) \in Nat
  BY BelowFinite
<1>2. \A z \in S : v[z] \in Nat
  OBVIOUS
<1>3. Below(S, v, x) \in SUBSET Below(S, v, y)
  BY <1>2 DEF Below
<1>4. x \in Below(S, v, y) /\ x \notin Below(S, v, x)
  BY <1>2 DEF Below
<1>5. QED
  BY <1>1, <1>3, <1>4, FS_Subset

LEMMA RanksFill ==
  ASSUME NEW S, IsFiniteSet(S), NEW v \in [S -> Nat],
         \A x, y \in S : v[x] = v[y] => x = y
  PROVE  [x \in S |-> Cardinality(Below(S, v, x))]
           \in Bijection(S, 0 .. Cardinality(S) - 1)
<1> DEFINE r == [x \in S |-> Cardinality(Below(S, v, x))]
           T == 0 .. Cardinality(S) - 1
<1>1. r \in [S -> T]
  BY BelowFinite
<1>2. ASSUME NEW x \in S, NEW y \in S, x # y
      PROVE  r[x] # r[y]
  <2>1. v[x] \in Nat /\ v[y] \in Nat /\ v[x] # v[y]
    BY <1>2
  <2>2. r[x] \in Nat /\ r[y] \in Nat
    BY <1>1
  <2>3. CASE v[x] < v[y]
    BY <2>2, <2>3, BelowGrows
  <2>4. CASE v[y] < v[x]
    BY <2>2, <2>4, BelowGrows
  <2>5. QED
    BY <2>1, <2>3, <2>4
<1>3. r \in Injection(S, T)
  BY <1>1, <1>2 DEF Injection, IsInjective
<1>4. IsFiniteSet(T) /\ Cardinality(T) = Cardinality(S)
  <2>1. Cardinality(S) \in Nat
    BY FS_CardinalityType
  <2>2. QED
    BY <2>1, FS_Interval
<1>5. r \in Surjection(S, T)
  BY <1>3, <1>4, FS_Injection
<1>6. QED
  BY <1>3, <1>5 DEF Bijection

(***************************************************************************)
(* So, of k ranks asked for, exactly k elements have one of the first k.   *)
(***************************************************************************)
LEMMA FirstRanks ==
  ASSUME NEW S, IsFiniteSet(S), NEW v \in [S -> Nat],
         \A x, y \in S : v[x] = v[y] => x = y,
         NEW k \in 0 .. Cardinality(S)
  PROVE  LET T == {x \in S : Cardinality(Below(S, v, x)) < k}
         IN  IsFiniteSet(T) /\ Cardinality(T) = k
<1> DEFINE r == [x \in S |-> Cardinality(Below(S, v, x))]
           T == {x \in S : Cardinality(Below(S, v, x)) < k}
           g == [x \in T |-> r[x]]
<1>1. r \in Bijection(S, 0 .. Cardinality(S) - 1)
  BY RanksFill
<1>2. Cardinality(S) \in Nat /\ k \in Nat /\ k <= Cardinality(S)
  BY FS_CardinalityType
<1>3. /\ \A x \in S : r[x] \in 0 .. Cardinality(S) - 1
      /\ \A x, y \in S : r[x] = r[y] => x = y
      /\ \A n \in 0 .. Cardinality(S) - 1 : \E x \in S : r[x] = n
  BY <1>1 DEF Bijection, Injection, IsInjective, Surjection
<1>4. T = {x \in S : r[x] < k}
  OBVIOUS
<1> HIDE DEF r, T
<1>5. g \in [T -> 0 .. k - 1]
  BY <1>2, <1>3, <1>4
<1>6. \A x, y \in T : g[x] = g[y] => x = y
  BY <1>3, <1>4
<1>7. \A n \in 0 .. k - 1 : \E x \in T : g[x] = n
  BY <1>2, <1>3, <1>4
<1>8. g \in Bijection(T, 0 .. k - 1)
  BY <1>5, <1>6, <1>7 DEF Bijection, Injection, IsInjective, Surjection
<1>9. IsFiniteSet(T)
  BY <1>4, FS_Subset
<1>10. Cardinality(0 .. k - 1) = Cardinality(T)
  BY <1>8, <1>9, FS_Bijection DEF ExistsBijection
<1>11. Cardinality(0 .. k - 1) = k
  BY <1>2, FS_Interval
<1>12. QED
  BY <1>9, <1>10, <1>11 DEF T

-----------------------------------------------------------------------------
(***************************************************************************)
(* The records at some places of a history are as many as the places, in   *)
(* their order.                                                            *)
(***************************************************************************)
Lookups(keep) == [n \in 1 .. Cardinality(keep) |-> Nth(keep, n)]

LEMMA PlacesFinite ==
  ASSUME NEW R, NEW h \in Seq(R), NEW keep \in SUBSET DOMAIN h
  PROVE  /\ IsFiniteSet(keep) /\ Cardinality(keep) \in Nat
         /\ keep \subseteq Nat \ {0} /\ DOMAIN h = 1 .. Len(h) /\ Len(h) \in Nat
         /\ Cardinality(keep) <= Len(h)
<1>1. DOMAIN h = 1 .. Len(h) /\ Len(h) \in Nat
  OBVIOUS
<1>2. IsFiniteSet(1 .. Len(h)) /\ Cardinality(1 .. Len(h)) = Len(h)
  <2>1. 1 \in Int /\ Len(h) \in Int
    BY <1>1
  <2>2. IsFiniteSet(1 .. Len(h)) /\ Cardinality(1 .. Len(h)) = IF 1 > Len(h) THEN 0 ELSE Len(h) - 1 + 1
    BY ONLY <2>1, FS_Interval
  <2>3. QED
    BY <1>1, <2>2
<1>3. IsFiniteSet(keep) /\ Cardinality(keep) <= Len(h)
  BY <1>1, <1>2, FS_Subset
<1>4. QED
  BY <1>1, <1>3, FS_CardinalityType

LEMMA RankBelow ==
  ASSUME NEW keep \in SUBSET (Nat \ {0}), IsFiniteSet(keep), NEW i \in keep
  PROVE  Rank(keep, i) = Cardinality(Below(keep, [j \in keep |-> j], i)) + 1
<1> DEFINE b == Below(keep, [j \in keep |-> j], i)
<1>1. b = {j \in keep : j < i}
  BY DEF Below
<1>2. keep \cap 1 .. i = b \cup {i}
  <2>1. \A j \in keep : j \in Int /\ 1 <= j
    OBVIOUS
  <2>2. \A j \in keep : j \in 1 .. i <=> j < i \/ j = i
    BY <2>1
  <2>3. QED
    BY ONLY <1>1, <2>2, i \in keep
<1>3. i \notin b
  BY <1>1
<1>4. IsFiniteSet(b)
  BY <1>1, FS_Subset
<1> HIDE DEF b
<1>5. QED
  BY <1>2, <1>3, <1>4, FS_AddElement DEF Rank, b

LEMMA NthPlace ==
  ASSUME NEW keep \in SUBSET (Nat \ {0}), IsFiniteSet(keep)
  PROVE  /\ Lookups(keep) \in Bijection(1 .. Cardinality(keep), keep)
         /\ \A i \in keep : \E n \in 1 .. Cardinality(keep) : Nth(keep, n) = i
         /\ \A n \in 1 .. Cardinality(keep) : Nth(keep, n) \in keep
         /\ \A m, n \in 1 .. Cardinality(keep) : m < n => Nth(keep, m) < Nth(keep, n)
<1> DEFINE v == [j \in keep |-> j]
           c == Cardinality(keep)
           r == [x \in keep |-> Cardinality(Below(keep, v, x))]
<1>1. v \in [keep -> Nat] /\ (\A x, y \in keep : v[x] = v[y] => x = y)
  OBVIOUS
<1>2. r \in Bijection(keep, 0 .. c - 1)
  BY <1>1, RanksFill
<1>3. c \in Nat
  BY FS_CardinalityType
<1>4. /\ \A x \in keep : r[x] \in 0 .. c - 1
      /\ \A x, y \in keep : r[x] = r[y] => x = y
      /\ \A n \in 0 .. c - 1 : \E x \in keep : r[x] = n
  BY <1>2 DEF Bijection, Injection, IsInjective, Surjection
<1>5. \A x \in keep : Rank(keep, x) = r[x] + 1
  BY RankBelow
<1>6. ASSUME NEW x \in keep, NEW y \in keep, x < y
      PROVE  r[x] < r[y]
  <2>1. v[x] < v[y]
    BY <1>6
  <2>2. QED
    BY <1>1, <2>1, BelowGrows
<1> HIDE DEF v, c, r
<1>7. ASSUME NEW n \in 1 .. c
      PROVE  Nth(keep, n) \in keep /\ Rank(keep, Nth(keep, n)) = n
  <2>1. n - 1 \in 0 .. c - 1
    BY <1>3
  <2>2. \E x \in keep : r[x] = n - 1
    BY <1>4, <2>1
  <2>3. \E x \in keep : Rank(keep, x) = n
    BY <1>5, <2>2
  <2>4. QED
    BY <2>3 DEF Nth
<1>8. ASSUME NEW i \in keep
      PROVE  Rank(keep, i) \in 1 .. c /\ Nth(keep, Rank(keep, i)) = i
  <2>1. Rank(keep, i) \in 1 .. c
    BY <1>3, <1>4, <1>5
  <2> DEFINE z == Nth(keep, Rank(keep, i))
  <2>2. z \in keep /\ Rank(keep, z) = Rank(keep, i)
    BY <1>7, <2>1
  <2> HIDE DEF z
  <2>3. r[i] + 1 = r[z] + 1 /\ r[i] \in Int /\ r[z] \in Int
    BY <1>3, <1>4, <1>5, <2>2
  <2>4. r[z] = r[i]
    BY ONLY <2>3
  <2>5. QED
    BY <1>4, <2>1, <2>2, <2>4 DEF z
<1>9. ASSUME NEW m \in 1 .. c, NEW n \in 1 .. c, m < n
      PROVE  Nth(keep, m) < Nth(keep, n)
  <2> DEFINE x == Nth(keep, m)
             y == Nth(keep, n)
  <2>1. x \in keep /\ y \in keep /\ Rank(keep, x) = m /\ Rank(keep, y) = n
    BY <1>7
  <2> HIDE DEF x, y
  <2>2. r[x] + 1 = m /\ r[y] + 1 = n /\ r[x] \in Int /\ r[y] \in Int /\ m \in Int /\ n \in Int
    BY <1>3, <1>4, <1>5, <2>1
  <2>3. ~(r[y] < r[x]) /\ x # y
    BY ONLY <1>9, <2>2
  <2>4. x \in Nat /\ y \in Nat
    BY <2>1
  <2>5. x < y
    BY <1>6, <2>1, <2>3, <2>4
  <2>6. QED
    BY <2>5 DEF x, y
<1>10. Lookups(keep) \in Bijection(1 .. c, keep)
  <2>1. Lookups(keep) \in [1 .. c -> keep]
    BY <1>7 DEF Lookups, c
  <2>2. \A m, n \in 1 .. c : Lookups(keep)[m] = Lookups(keep)[n] => m = n
    BY <1>7 DEF Lookups, c
  <2>3. \A i \in keep : \E n \in 1 .. c : Lookups(keep)[n] = i
    BY <1>8 DEF Lookups, c
  <2>4. QED
    BY <2>1, <2>2, <2>3 DEF Bijection, Injection, IsInjective, Surjection
<1>11. QED
  BY <1>7, <1>8, <1>9, <1>10 DEF c

LEMMA AtRecords ==
  ASSUME NEW R, NEW h \in Seq(R), NEW keep \in SUBSET DOMAIN h
  PROVE  /\ At(h, keep) \in Seq(R)
         /\ Len(At(h, keep)) = Cardinality(keep)
         /\ DOMAIN At(h, keep) = 1 .. Cardinality(keep)
         /\ \A n \in DOMAIN At(h, keep) : Nth(keep, n) \in keep /\ At(h, keep)[n] = h[Nth(keep, n)]
         /\ \A i \in keep : \E n \in DOMAIN At(h, keep) : Nth(keep, n) = i /\ At(h, keep)[n] = h[i]
<1>1. /\ IsFiniteSet(keep) /\ keep \in SUBSET (Nat \ {0}) /\ Cardinality(keep) \in Nat
  BY PlacesFinite
<1>2. /\ \A i \in keep : \E n \in 1 .. Cardinality(keep) : Nth(keep, n) = i
      /\ \A n \in 1 .. Cardinality(keep) : Nth(keep, n) \in keep
  BY <1>1, NthPlace
<1>3. \A i \in keep : h[i] \in R
  OBVIOUS
<1>4. At(h, keep) \in [1 .. Cardinality(keep) -> R]
  BY <1>2, <1>3 DEF At
<1>5. QED
  BY <1>1, <1>2, <1>4 DEF At

(***************************************************************************)
(* What a ring keeps of its records, and the ids that are left.            *)
(***************************************************************************)
LEMMA RingAt ==
  ASSUME NEW h \in Seq(Record), NEW keep \in SUBSET DOMAIN h, NEW f
  PROVE  /\ Held(At(h, keep), f) = Cardinality(Ring(h, f) \cap keep)
         /\ Ring(At(h, keep), f) = {} <=> Ring(h, f) \cap keep = {}
<1> DEFINE a == At(h, keep)
           K == Ring(h, f) \cap keep
           p == [n \in Ring(a, f) |-> Nth(keep, n)]
<1>1. /\ DOMAIN a = 1 .. Cardinality(keep)
      /\ \A n \in DOMAIN a : Nth(keep, n) \in keep /\ a[n] = h[Nth(keep, n)]
      /\ \A i \in keep : \E n \in DOMAIN a : Nth(keep, n) = i /\ a[n] = h[i]
  BY AtRecords
<1>2. /\ IsFiniteSet(keep) /\ keep \in SUBSET (Nat \ {0}) /\ Cardinality(keep) \in Nat
  BY PlacesFinite
<1>3. \A m, n \in DOMAIN a : m < n => Nth(keep, m) < Nth(keep, n)
  BY <1>1, <1>2, NthPlace
<1> HIDE DEF a
<1>4. p \in [Ring(a, f) -> K]
  BY <1>1 DEF Ring
<1>5. \A i \in K : \E n \in Ring(a, f) : p[n] = i
  BY <1>1 DEF Ring
<1>6. \A m, n \in Ring(a, f) : p[m] = p[n] => m = n
  BY <1>1, <1>2, <1>3 DEF Ring
<1>7. p \in Bijection(Ring(a, f), K)
  BY <1>4, <1>5, <1>6 DEF Bijection, Injection, IsInjective, Surjection
<1>8. IsFiniteSet(Ring(a, f))
  <2>1. IsFiniteSet(1 .. Cardinality(keep))
    BY <1>2, FS_Interval
  <2>2. QED
    BY <1>1, <2>1, FS_Subset DEF Ring
<1>9. Cardinality(K) = Cardinality(Ring(a, f))
  BY <1>7, <1>8, FS_Bijection DEF ExistsBijection
<1>10. Ring(a, f) = {} <=> K = {}
  BY <1>4, <1>5
<1>11. QED
  BY <1>9, <1>10 DEF Held, a

LEMMA IdsAt ==
  ASSUME NEW h \in Seq(Record), NEW keep \in SUBSET DOMAIN h
  PROVE  HistoryIds(At(h, keep)) = {h[i].id : i \in keep}
<1> DEFINE a == At(h, keep)
<1>1. /\ \A n \in DOMAIN a : Nth(keep, n) \in keep /\ a[n] = h[Nth(keep, n)]
      /\ \A i \in keep : \E n \in DOMAIN a : Nth(keep, n) = i /\ a[n] = h[i]
  BY AtRecords
<1> HIDE DEF a
<1>2. QED
  BY <1>1 DEF HistoryIds, a

LEMMA FromAt ==
  ASSUME NEW h \in Seq(Record), NEW keep \in SUBSET DOMAIN h,
         NEW n \in DOMAIN At(h, keep)
  PROVE  \E i \in keep : At(h, keep)[n] = h[i]
BY AtRecords

-----------------------------------------------------------------------------
(***************************************************************************)
(* Least and greatest places.                                              *)
(***************************************************************************)
LEMMA LeastPlace ==
  ASSUME NEW T \in SUBSET Nat, T # {}
  PROVE  \E x \in T : \A y \in T : x <= y
<1>1. PICK x \in T : \A y \in T : ~(<<y, x>> \in OpToRel(<, Nat))
  BY NatLessThanWellFounded, WFMin
<1>2. x \in Nat /\ \A y \in T : y \in Nat /\ ~(y < x)
  BY <1>1 DEF OpToRel
<1>3. \A y \in T : x <= y
  BY <1>2
<1>4. QED
  BY <1>1, <1>3

LEMMA GreatestPlace ==
  ASSUME NEW n \in Nat, NEW T \in SUBSET (1 .. n), T # {}
  PROVE  \E x \in T : \A y \in T : y <= x
<1> DEFINE U == {n - i : i \in T}
<1>1. U \in SUBSET Nat /\ U # {}
  <2>1. \A i \in T : n - i \in Nat
    OBVIOUS
  <2>2. QED
    BY <2>1
<1>2. PICK u \in U : \A w \in U : u <= w
  <2> HIDE DEF U
  <2>1. QED
    BY <1>1, LeastPlace
<1>3. PICK x \in T : u = n - x
  BY <1>2
<1>4. \A y \in T : n - x <= n - y /\ y \in Int /\ x \in Int
  <2>1. \A y \in T : n - y \in U
    OBVIOUS
  <2> HIDE DEF U
  <2>2. QED
    BY <1>2, <1>3, <2>1
<1>5. \A y \in T : y <= x
  BY <1>3, <1>4
<1>6. QED
  BY <1>5

LEMMA RingPlaces ==
  ASSUME NEW h \in Seq(Record), NEW f
  PROVE  /\ Ring(h, f) \in SUBSET (1 .. Len(h)) /\ Ring(h, f) \in SUBSET DOMAIN h
         /\ IsFiniteSet(Ring(h, f)) /\ Len(h) \in Nat
         /\ Held(h, f) \in Nat
         /\ Held(h, f) = 0 <=> Ring(h, f) = {}
<1>1. Ring(h, f) \in SUBSET DOMAIN h
  BY DEF Ring
<1>2. /\ IsFiniteSet(Ring(h, f)) /\ Cardinality(Ring(h, f)) \in Nat
      /\ DOMAIN h = 1 .. Len(h) /\ Len(h) \in Nat
  BY <1>1, PlacesFinite
<1>3. Cardinality(Ring(h, f)) = 0 <=> Ring(h, f) = {}
  BY <1>2, FS_EmptySet
<1>4. QED
  BY <1>1, <1>2, <1>3 DEF Held

LEMMA LatestPlace ==
  ASSUME NEW h \in Seq(Record), NEW f, Ring(h, f) # {}
  PROVE  /\ Latest(h, f) \in Ring(h, f)
         /\ Latest(h, f) \in 1 .. Len(h) /\ h[Latest(h, f)].from = f
         /\ \A j \in Ring(h, f) : j <= Latest(h, f)
<1>1. \E i \in Ring(h, f) : \A j \in Ring(h, f) : j <= i
  BY RingPlaces, GreatestPlace
<1>2. /\ Latest(h, f) \in Ring(h, f)
      /\ \A j \in Ring(h, f) : j <= Latest(h, f)
  BY <1>1 DEF Latest
<1>3. QED
  BY <1>2, RingPlaces DEF Ring

-----------------------------------------------------------------------------
(***************************************************************************)
(* A trim leaves a ring at most PerSenderMax records, all of those it had  *)
(* if they were no more, and always its newest.                            *)
(***************************************************************************)
Newer(h, f, i) == {j \in Ring(h, f) : j >= i}
TrimKeep(h) == {i \in DOMAIN h : Cardinality(Newer(h, h[i].from, i)) <= PerSenderMax}

LEMMA TrimmedAt ==
  ASSUME NEW h \in Seq(Record)
  PROVE  Trimmed(h) = At(h, TrimKeep(h)) /\ TrimKeep(h) \in SUBSET DOMAIN h
BY DEF Trimmed, TrimKeep, Newer

LEMMA TrimmedRings ==
  ASSUME NEW h \in Seq(Record), NEW f
  PROVE  /\ Held(Trimmed(h), f) <= PerSenderMax
         /\ Held(h, f) <= PerSenderMax =>
              Ring(h, f) \subseteq TrimKeep(h) /\ Held(Trimmed(h), f) = Held(h, f)
         /\ Ring(h, f) # {} => Latest(h, f) \in TrimKeep(h)
<1> DEFINE R == Ring(h, f)
           K == R \cap TrimKeep(h)
<1>1. Held(Trimmed(h), f) = Cardinality(K)
  BY TrimmedAt, RingAt
<1>2. /\ IsFiniteSet(R) /\ R \in SUBSET (1 .. Len(h)) /\ R \in SUBSET DOMAIN h
      /\ Len(h) \in Nat /\ Cardinality(R) \in Nat
  BY RingPlaces DEF Held
<1>3. PerSenderMax \in Nat /\ PerSenderMax >= 1
  BY RingsAssumption
<1>4. ASSUME NEW i \in R
      PROVE  /\ IsFiniteSet(Newer(h, f, i))
             /\ Cardinality(Newer(h, f, i)) \in Nat
             /\ Cardinality(Newer(h, f, i)) <= Cardinality(R)
             /\ i \in TrimKeep(h) <=> Cardinality(Newer(h, f, i)) <= PerSenderMax
  <2>1. Newer(h, f, i) \in SUBSET R
    BY DEF Newer
  <2>2. h[i].from = f /\ i \in DOMAIN h
    BY DEF Ring
  <2>3. QED
    BY <1>2, <2>1, <2>2, FS_Subset, FS_CardinalityType DEF TrimKeep
<1>5. Cardinality(K) <= PerSenderMax
  <2>1. CASE K = {}
    BY <1>3, <2>1, FS_EmptySet
  <2>2. CASE K # {}
    <3>1. PICK i \in K : \A j \in K : i <= j
      <4>1. K \in SUBSET Nat
        BY <1>2
      <4>2. QED
        BY <2>2, <4>1, LeastPlace
    <3>2. K \in SUBSET Newer(h, f, i)
      <4>1. \A j \in K : i <= j /\ i \in Int /\ j \in Int /\ j \in R
        BY <1>2, <3>1
      <4>2. \A j \in K : j >= i
        BY <4>1
      <4>3. QED
        BY <4>1, <4>2 DEF Newer
    <3>3. Cardinality(K) <= Cardinality(Newer(h, f, i)) /\ Cardinality(K) \in Nat
      BY <1>4, <3>2, FS_Subset, FS_CardinalityType
    <3>4. Cardinality(Newer(h, f, i)) <= PerSenderMax /\ Cardinality(Newer(h, f, i)) \in Nat
      BY <1>4
    <3>5. QED
      BY <1>3, <3>3, <3>4
  <2>3. QED
    BY <2>1, <2>2
<1>6. ASSUME Held(h, f) <= PerSenderMax
      PROVE  R \subseteq TrimKeep(h) /\ Held(Trimmed(h), f) = Held(h, f)
  <2>1. R \subseteq TrimKeep(h)
    BY <1>2, <1>3, <1>4, <1>6 DEF Held
  <2>2. K = R
    BY <2>1
  <2>3. QED
    BY <1>1, <2>1, <2>2 DEF Held
<1>7. ASSUME R # {}
      PROVE  Latest(h, f) \in TrimKeep(h)
  <2> DEFINE i == Latest(h, f)
  <2>1. i \in R /\ \A j \in R : j <= i
    BY <1>7, LatestPlace
  <2> HIDE DEF i
  <2>2. Newer(h, f, i) = {i}
    <3>1. \A j \in R : j \in Int /\ j <= i
      BY <1>2, <2>1
    <3>2. \A j \in R : j >= i <=> j = i
      BY <2>1, <3>1
    <3>3. QED
      BY <2>1, <3>2 DEF Newer
  <2>3. Cardinality(Newer(h, f, i)) = 1
    BY <2>2, FS_Singleton
  <2>4. QED
    BY <1>3, <1>4, <2>1, <2>3 DEF i
<1>8. QED
  BY <1>1, <1>5, <1>6, <1>7

-----------------------------------------------------------------------------
(***************************************************************************)
(* Cheaper is an order on the rings: a number each, as large as the ring,  *)
(* and within a size as late as it was heard from.                         *)
(***************************************************************************)
Score(h, f) == Held(h, f) * (Len(h) + 1) + Latest(h, f)

LEMMA LexicalOrder ==
  ASSUME NEW a \in Nat, NEW b \in Nat, NEW n \in Nat,
         NEW x \in 0 .. n, NEW y \in 0 .. n, a < b
  PROVE  a * (n + 1) + x < b * (n + 1) + y
<1>1. PICK d \in Nat : b = a + 1 + d
  <2>1. b - a - 1 \in Nat /\ b = a + 1 + (b - a - 1)
    OBVIOUS
  <2>2. QED
    BY <2>1
<1>2. b * (n + 1) = a * (n + 1) + (n + 1) + d * (n + 1)
  BY <1>1
<1>3. a * (n + 1) \in Nat /\ d * (n + 1) \in Nat
  OBVIOUS
<1>4. QED
  BY <1>2, <1>3

LEMMA ScoreOrders ==
  ASSUME NEW h \in Seq(Record), NEW f \in Named(h), NEW g \in Named(h)
  PROVE  /\ Score(h, f) \in Nat
         /\ Cheaper(h, f, g) <=> Score(h, f) < Score(h, g)
         /\ Score(h, f) = Score(h, g) => f = g
<1>1. Ring(h, f) # {} /\ Ring(h, g) # {}
  BY DEF Named
<1>2. /\ Held(h, f) \in Nat /\ Held(h, g) \in Nat /\ Len(h) \in Nat
      /\ Latest(h, f) \in 1 .. Len(h) /\ h[Latest(h, f)].from = f
      /\ Latest(h, g) \in 1 .. Len(h) /\ h[Latest(h, g)].from = g
  BY <1>1, RingPlaces, LatestPlace
<1>3. ASSUME NEW a \in Nat, NEW b \in Nat, NEW x \in 1 .. Len(h), NEW y \in 1 .. Len(h)
      PROVE  /\ a * (Len(h) + 1) + x \in Nat
             /\ (a < b \/ (a = b /\ x < y))
                  <=> a * (Len(h) + 1) + x < b * (Len(h) + 1) + y
             /\ a * (Len(h) + 1) + x = b * (Len(h) + 1) + y => x = y
  <2>1. x \in 0 .. Len(h) /\ y \in 0 .. Len(h)
    BY <1>2
  <2>2. a * (Len(h) + 1) \in Nat /\ b * (Len(h) + 1) \in Nat
    BY <1>2
  <2>3. a < b => a * (Len(h) + 1) + x < b * (Len(h) + 1) + y
    BY <1>2, <2>1, LexicalOrder
  <2>4. b < a => b * (Len(h) + 1) + y < a * (Len(h) + 1) + x
    BY <1>2, <2>1, LexicalOrder
  <2>5. a = b => a * (Len(h) + 1) = b * (Len(h) + 1)
    OBVIOUS
  <2>6. a < b \/ a = b \/ b < a
    OBVIOUS
  <2>7. x \in Int /\ y \in Int
    BY <2>1
  <2>8. QED
    BY ONLY <2>2, <2>3, <2>4, <2>5, <2>6, <2>7, a \in Nat, b \in Nat
<1>4. QED
  BY <1>2, <1>3 DEF Score, Cheaper

(***************************************************************************)
(* What dropExtraSenders drops.                                            *)
(***************************************************************************)
Extra(h) == Cardinality(Named(h)) - SendersMax
Dropped(h, spared) ==
  {f \in Named(h) \ spared :
     Cardinality({g \in Named(h) \ spared : Cheaper(h, g, f)}) < Extra(h)}
DropKeep(h, spared) == {i \in DOMAIN h : h[i].from \notin Dropped(h, spared)}

LEMMA DropExtraAt ==
  ASSUME NEW h \in Seq(Record), NEW spared
  PROVE  /\ DropExtraSenders(h, spared) = At(h, DropKeep(h, spared))
         /\ DropKeep(h, spared) \in SUBSET DOMAIN h
BY DEF DropExtraSenders, DropKeep, Dropped, Extra

LEMMA NamedFinite ==
  ASSUME NEW h
  PROVE  /\ IsFiniteSet(Named(h)) /\ Cardinality(Named(h)) \in Nat
         /\ Named(h) \in SUBSET Apps
<1>1. Named(h) \in SUBSET Apps
  BY DEF Named
<1>2. QED
  BY <1>1, AppsAssumption, FS_Subset, FS_CardinalityType

LEMMA DroppedRings ==
  ASSUME NEW h \in Seq(Record), NEW spared, NEW f
  PROVE  /\ f \in Dropped(h, spared) => Held(DropExtraSenders(h, spared), f) = 0
         /\ f \notin Dropped(h, spared) =>
              Held(DropExtraSenders(h, spared), f) = Held(h, f)
<1> DEFINE K == Ring(h, f) \cap DropKeep(h, spared)
<1>1. Held(DropExtraSenders(h, spared), f) = Cardinality(K)
  BY DropExtraAt, RingAt
<1>2. f \in Dropped(h, spared) => K = {}
  BY DEF Ring, DropKeep
<1>3. f \notin Dropped(h, spared) => K = Ring(h, f)
  BY DEF Ring, DropKeep
<1>4. QED
  BY <1>1, <1>2, <1>3, FS_EmptySet DEF Held

(***************************************************************************)
(* After it the apps hold SendersMax rings between them at most, as long   *)
(* as no more than one of them was spared.                                 *)
(***************************************************************************)
LEMMA SendersBounded ==
  ASSUME NEW h \in Seq(Record), NEW spared, \E a : spared \subseteq {a}
  PROVE  /\ Cardinality(Named(DropExtraSenders(h, spared))) <= SendersMax
         /\ Cardinality(Named(h)) <= SendersMax => Dropped(h, spared) = {}
<1> DEFINE N == Named(h)
           O == N \ spared
           D == Dropped(h, spared)
           v == [f \in O |-> Score(h, f)]
<1>1. /\ IsFiniteSet(N) /\ Cardinality(N) \in Nat /\ N \in SUBSET Apps
  BY NamedFinite
<1>2. SendersMax \in Nat /\ SendersMax >= 1
  BY RingsAssumption
<1>3. IsFiniteSet(O) /\ Cardinality(O) \in Nat /\ O \in SUBSET N
  BY <1>1, FS_Subset, FS_CardinalityType
<1>4. Named(DropExtraSenders(h, spared)) = N \ D
  <2>1. \A f \in Apps : Ring(DropExtraSenders(h, spared), f) = {}
                          <=> Ring(h, f) \cap DropKeep(h, spared) = {}
    <3>1. DropKeep(h, spared) \in SUBSET DOMAIN h
      BY DropExtraAt
    <3>2. TAKE f \in Apps
    <3>3. Ring(At(h, DropKeep(h, spared)), f) = {}
            <=> Ring(h, f) \cap DropKeep(h, spared) = {}
      BY <3>1, RingAt
    <3>4. QED
      BY <3>3, DropExtraAt
  <2>2. \A f \in Apps : Ring(h, f) \cap DropKeep(h, spared) = {}
                          <=> Ring(h, f) = {} \/ f \in D
    BY DEF Ring, DropKeep
  <2>3. QED
    BY <2>1, <2>2 DEF Named
<1>5. ASSUME Cardinality(N) <= SendersMax
      PROVE  D = {}
  <2>1. Extra(h) <= 0 /\ Extra(h) \in Int
    BY <1>1, <1>2, <1>5 DEF Extra
  <2>2. \A f \in O : Cardinality({g \in O : Cheaper(h, g, f)}) \in Nat
    <3>1. \A f \in O : {g \in O : Cheaper(h, g, f)} \in SUBSET O
      OBVIOUS
    <3>2. QED
      BY <1>3, <3>1, FS_Subset, FS_CardinalityType
  <2>3. \A f \in O : ~(Cardinality({g \in O : Cheaper(h, g, f)}) < Extra(h))
    BY <2>1, <2>2
  <2>4. QED
    BY <2>3 DEF Dropped
<1>6. ASSUME ~(Cardinality(N) <= SendersMax)
      PROVE  Cardinality(N \ D) = SendersMax
  <2>1. Extra(h) \in Nat /\ Extra(h) = Cardinality(N) - SendersMax
    BY <1>1, <1>2, <1>6 DEF Extra
  <2>2. Extra(h) <= Cardinality(O)
    <3>1. CASE spared \cap N = {}
      <4>1. Cardinality(O) = Cardinality(N)
        <5>1. O = N
          BY <3>1
        <5>2. QED
          BY <5>1
      <4>2. QED
        BY <1>1, <1>2, <2>1, <4>1
    <3>2. CASE spared \cap N # {}
      <4>0. PICK a : spared \subseteq {a}
        OBVIOUS
      <4>1. spared = {a} /\ a \in N /\ O = N \ {a}
        BY <3>2, <4>0
      <4>2. Cardinality(O) = Cardinality(N) - 1
        BY <1>1, <4>1, FS_RemoveElement
      <4>3. QED
        BY <1>1, <1>2, <2>1, <4>2
    <3>3. QED
      BY <3>1, <3>2
  <2>3. /\ v \in [O -> Nat]
        /\ \A x, y \in O : v[x] = v[y] => x = y
    BY <1>3, ScoreOrders
  <2>4. D = {f \in O : Cardinality(Below(O, v, f)) < Extra(h)}
    <3>1. \A f \in O : Below(O, v, f) = {g \in O : Cheaper(h, g, f)}
      BY <1>3, ScoreOrders DEF Below
    <3>2. QED
      BY <3>1 DEF Dropped
  <2>5. Cardinality(D) = Extra(h) /\ IsFiniteSet(D)
    <3>1. Extra(h) \in 0 .. Cardinality(O)
      BY <1>3, <2>1, <2>2
    <3> HIDE DEF v, D, O
    <3>2. QED
      BY <1>3, <2>3, <2>4, <3>1, FirstRanks, SMTT(30)
  <2>6. D \in SUBSET N
    BY DEF Dropped
  <2>7. Cardinality(N \ D) = Cardinality(N) - Cardinality(D)
    <3>1. N \cap D = D
      BY <2>6
    <3>2. QED
      BY <1>1, <3>1, FS_Difference
  <2>8. QED
    BY <1>1, <1>2, <2>1, <2>5, <2>7
<1>7. QED
  <2>1. CASE Cardinality(N) <= SendersMax
    <3>1. N \ D = N
      BY <1>5, <2>1
    <3>2. QED
      BY <1>4, <1>5, <2>1, <3>1
  <2>2. CASE ~(Cardinality(N) <= SendersMax)
    BY <1>2, <1>4, <1>6, <2>2
  <2>3. QED
    BY <2>1, <2>2

-----------------------------------------------------------------------------
(***************************************************************************)
(* Whatever all the records of a history have in common, those of the      *)
(* history after any of its operations still have.                         *)
(***************************************************************************)
LEMMA SeqWiden ==
  ASSUME NEW S, NEW R \in SUBSET S, NEW h \in Seq(R)
  PROVE  h \in Seq(S)
OBVIOUS

LEMMA TrimmedType ==
  ASSUME NEW R \in SUBSET Record, NEW h \in Seq(R)
  PROVE  Trimmed(h) \in Seq(R)
<1>1. h \in Seq(Record)
  BY SeqWiden
<1>2. QED
  BY <1>1, TrimmedAt, AtRecords

LEMMA DropExtraType ==
  ASSUME NEW R \in SUBSET Record, NEW h \in Seq(R), NEW spared
  PROVE  DropExtraSenders(h, spared) \in Seq(R)
<1>1. h \in Seq(Record)
  BY SeqWiden
<1>2. QED
  BY <1>1, DropExtraAt, AtRecords

LEMMA AddType ==
  ASSUME NEW R \in SUBSET Record, NEW h \in Seq(R), NEW r \in R
  PROVE  Add(h, r) \in Seq(R)
<1>1. Append(h, r) \in Seq(R)
  OBVIOUS
<1>2. Trimmed(Append(h, r)) \in Seq(R)
  BY <1>1, TrimmedType
<1>3. DropExtraSenders(Trimmed(Append(h, r)), {r.from}) \in Seq(R)
  BY <1>2, DropExtraType
<1>4. QED
  BY <1>3 DEF Add

LEMMA RemovedType ==
  ASSUME NEW R \in SUBSET Record, NEW h \in Seq(R), NEW id
  PROVE  /\ Removed(h, id) \in Seq(R)
         /\ HistoryIds(Removed(h, id)) = HistoryIds(h) \ {id}
<1> DEFINE keep == {i \in DOMAIN h : h[i].id # id}
<1>1. h \in Seq(Record) /\ keep \in SUBSET DOMAIN h
  BY SeqWiden
<1>2. At(h, keep) \in Seq(R) /\ HistoryIds(At(h, keep)) = {h[i].id : i \in keep}
  BY <1>1, AtRecords, IdsAt
<1>3. {h[i].id : i \in keep} = HistoryIds(h) \ {id}
  BY DEF HistoryIds
<1>4. QED
  BY <1>2, <1>3 DEF Removed

LEMMA ReplaceType ==
  ASSUME NEW R \in SUBSET Record, NEW h \in Seq(R), NEW old, NEW r \in R
  PROVE  Replace(h, old, r) \in Seq(R)
BY RemovedType, AddType DEF Replace

LEMMA DismissType ==
  ASSUME NEW R \in SUBSET Record, NEW h \in Seq(R), NEW id,
         \A r \in R : [r EXCEPT !.dismissed = TRUE] \in R
  PROVE  /\ Dismiss(h, id) \in Seq(R)
         /\ DOMAIN Dismiss(h, id) = DOMAIN h
         /\ \A i \in DOMAIN h : /\ Dismiss(h, id)[i].from = h[i].from
                                /\ Dismiss(h, id)[i].id = h[i].id
                                /\ Dismiss(h, id)[i].private = h[i].private
<1>1. \A i \in DOMAIN h : h[i] \in R /\ h[i] \in Record
  OBVIOUS
<1>2. Dismiss(h, id) \in [DOMAIN h -> R]
  BY <1>1 DEF Dismiss
<1>3. DOMAIN h = 1 .. Len(h) /\ Len(h) \in Nat
  OBVIOUS
<1>4. Dismiss(h, id) \in Seq(R)
  BY <1>2, <1>3
<1>5. QED
  BY <1>1, <1>2, <1>4 DEF Dismiss, Record

LEMMA DismissRings ==
  ASSUME NEW h \in Seq(Record), NEW id, NEW f
  PROVE  /\ Ring(Dismiss(h, id), f) = Ring(h, f)
         /\ Held(Dismiss(h, id), f) = Held(h, f)
         /\ Named(Dismiss(h, id)) = Named(h)
         /\ HistoryIds(Dismiss(h, id)) = HistoryIds(h)
<1>1. \A r \in Record : [r EXCEPT !.dismissed = TRUE] \in Record
  BY DEF Record
<1>2. /\ DOMAIN Dismiss(h, id) = DOMAIN h
      /\ \A i \in DOMAIN h : /\ Dismiss(h, id)[i].from = h[i].from
                             /\ Dismiss(h, id)[i].id = h[i].id
  <2>1. Record \in SUBSET Record
    OBVIOUS
  <2>2. QED
    BY <1>1, <2>1, DismissType
<1>3. \A g : Ring(Dismiss(h, id), g) = Ring(h, g)
  BY <1>2 DEF Ring
<1>4. QED
  BY <1>2, <1>3 DEF Held, Named, HistoryIds

-----------------------------------------------------------------------------
(***************************************************************************)
(* Both bounds after an arrival, a replacement and a restore.              *)
(***************************************************************************)
LEMMA TrimmedDropBounds ==
  ASSUME NEW h \in Seq(Record), NEW spared, \E a : spared \subseteq {a}
  PROVE  /\ \A f : Held(DropExtraSenders(Trimmed(h), spared), f) <= PerSenderMax
         /\ Cardinality(Named(DropExtraSenders(Trimmed(h), spared))) <= SendersMax
<1> DEFINE t == Trimmed(h)
<1>1. t \in Seq(Record)
  BY TrimmedAt, AtRecords
<1>2. \A f : Held(t, f) <= PerSenderMax /\ Held(t, f) \in Nat
  BY <1>1, TrimmedRings, RingPlaces
<1> HIDE DEF t
<1>3. \A f : Held(DropExtraSenders(t, spared), f) <= PerSenderMax
  <2>1. TAKE f
  <2>2. Held(DropExtraSenders(t, spared), f) \in {0, Held(t, f)}
    BY <1>1, DroppedRings
  <2>3. QED
    BY <1>2, <2>2, RingsAssumption
<1>4. Cardinality(Named(DropExtraSenders(t, spared))) <= SendersMax
  BY <1>1, SendersBounded
<1>5. QED
  BY <1>3, <1>4 DEF t

LEMMA AddBounds ==
  ASSUME NEW h \in Seq(Record), NEW r \in Record
  PROVE  /\ \A f : Held(Add(h, r), f) <= PerSenderMax
         /\ Cardinality(Named(Add(h, r))) <= SendersMax
<1>1. Append(h, r) \in Seq(Record)
  OBVIOUS
<1>2. \E a : {r.from} \subseteq {a}
  OBVIOUS
<1>3. QED
  BY <1>1, <1>2, TrimmedDropBounds DEF Add

LEMMA ReplaceBounds ==
  ASSUME NEW h \in Seq(Record), NEW old, NEW r \in Record
  PROVE  /\ \A f : Held(Replace(h, old, r), f) <= PerSenderMax
         /\ Cardinality(Named(Replace(h, old, r))) <= SendersMax
BY RemovedType, AddBounds DEF Replace

LEMMA RestoreBounds ==
  ASSUME NEW R \in SUBSET Record, NEW h \in Seq(R), NEW old \in Seq(R)
  PROVE  /\ Restore(h, old) \in Seq(R)
         /\ \A f : Held(Restore(h, old), f) <= PerSenderMax
         /\ Cardinality(Named(Restore(h, old))) <= SendersMax
<1>1. old \o h \in Seq(R)
  OBVIOUS
<1>2. old \o h \in Seq(Record)
  BY <1>1, SeqWiden
<1>3. QED
  BY <1>1, <1>2, TrimmedType, DropExtraType, TrimmedDropBounds DEF Restore

-----------------------------------------------------------------------------
(***************************************************************************)
(* What is written: nothing private, and no more than SnapshotMax.         *)
(***************************************************************************)
LEMMA SnapshotType ==
  ASSUME NEW R \in SUBSET Record, NEW h \in Seq(R)
  PROVE  /\ Snapshot(h) \in Seq({r \in R : ~r.private})
         /\ Len(Snapshot(h)) <= SnapshotMax
<1> DEFINE keep == {i \in DOMAIN h : ~h[i].private}
           open == At(h, keep)
           P == {r \in R : ~r.private}
           n == IF Len(open) < SnapshotMax THEN Len(open) ELSE SnapshotMax
<1>1. keep \in SUBSET DOMAIN h /\ \A i \in keep : h[i] \in P
  OBVIOUS
<1>2. open \in Seq(P)
  <2>1. /\ open \in Seq(R)
        /\ \A m \in DOMAIN open : Nth(keep, m) \in keep /\ open[m] = h[Nth(keep, m)]
    BY <1>1, AtRecords
  <2>2. \A m \in DOMAIN open : open[m] \in P
    BY <1>1, <2>1
  <2> HIDE DEF open, P
  <2>3. QED
    BY <2>1, <2>2
<1> HIDE DEF open, P
<1>3. Len(open) \in Nat /\ SnapshotMax \in Nat
  BY <1>2, RingsAssumption
<1>4. n \in Nat /\ n <= Len(open) /\ n <= SnapshotMax
  BY <1>3
<1> HIDE DEF n
<1>5. /\ SubSeq(open, Len(open) - n + 1, Len(open)) \in Seq(P)
      /\ Len(SubSeq(open, Len(open) - n + 1, Len(open))) = n
  <2>1. \A i \in Len(open) - n + 1 .. Len(open) : i \in DOMAIN open /\ open[i] \in P
    BY <1>2, <1>3, <1>4
  <2>2. Len(open) - n + 1 \in Int
    BY <1>3, <1>4
  <2>3. QED
    BY <1>2, <1>3, <1>4, <2>1, <2>2
<1>6. Snapshot(h) = SubSeq(open, Len(open) - n + 1, Len(open))
  BY DEF Snapshot, Newest, open, n
<1>7. QED
  BY <1>4, <1>5, <1>6 DEF P

LEMMA ReadType ==
  ASSUME NEW file \in Seq(Record)
  PROVE  /\ Read(file) \in Seq(Record)
         /\ DOMAIN Read(file) = DOMAIN file
         /\ \A i \in DOMAIN file : Read(file)[i].id = file[i].id
<1>1. \A i \in DOMAIN file : file[i] \in Record
  OBVIOUS
<1>2. Read(file) \in [DOMAIN file -> Record]
  BY <1>1 DEF Read, Record
<1>3. DOMAIN file = 1 .. Len(file) /\ Len(file) \in Nat
  OBVIOUS
<1>4. Read(file) \in Seq(Record)
  BY <1>2, <1>3
<1>5. DOMAIN Read(file) = DOMAIN file
  BY DEF Read
<1>6. ASSUME NEW i \in DOMAIN file
      PROVE  Read(file)[i].id = file[i].id
  BY <1>1 DEF Read, Record
<1>7. QED
  BY <1>4, <1>5, <1>6

-----------------------------------------------------------------------------
(***************************************************************************)
(* What an arrival costs whom.                                             *)
(***************************************************************************)
LEMMA AppendRings ==
  ASSUME NEW h \in Seq(Record), NEW r \in Record
  PROVE  /\ Append(h, r) \in Seq(Record)
         /\ \A f : f # r.from => Ring(Append(h, r), f) = Ring(h, f)
         /\ Len(h) + 1 \in Ring(Append(h, r), r.from)
         /\ Latest(Append(h, r), r.from) = Len(h) + 1
<1> DEFINE b == Append(h, r)
<1>1. /\ b \in Seq(Record) /\ Len(b) = Len(h) + 1 /\ Len(h) \in Nat
      /\ DOMAIN h = 1 .. Len(h) /\ DOMAIN b = 1 .. Len(h) + 1
      /\ b[Len(h) + 1] = r /\ \A i \in DOMAIN h : b[i] = h[i]
  OBVIOUS
<1> HIDE DEF b
<1>2. ASSUME NEW f, f # r.from
      PROVE  Ring(b, f) = Ring(h, f)
  <2>1. \A i \in DOMAIN b : i \in DOMAIN h \/ i = Len(h) + 1
    BY <1>1
  <2>2. DOMAIN h \subseteq DOMAIN b
    BY <1>1
  <2>3. QED
    BY <1>1, <1>2, <2>1, <2>2 DEF Ring
<1>3. Len(h) + 1 \in Ring(b, r.from)
  <2>1. Len(h) + 1 \in DOMAIN b
    BY <1>1
  <2>2. QED
    BY <1>1, <2>1 DEF Ring
<1>4. Latest(b, r.from) = Len(h) + 1
  <2>1. /\ Latest(b, r.from) \in 1 .. Len(b)
        /\ \A j \in Ring(b, r.from) : j <= Latest(b, r.from)
    BY <1>1, <1>3, LatestPlace
  <2>2. Len(h) + 1 <= Latest(b, r.from)
    BY <1>3, <2>1
  <2>3. QED
    BY <1>1, <2>1, <2>2
<1>5. QED
  BY <1>1, <1>2, <1>3, <1>4 DEF b

\* the newcomer's own record survives its arrival
LEMMA NewcomerKept ==
  ASSUME NEW h \in Seq(Record), NEW r \in Record
  PROVE  r.id \in HistoryIds(Add(h, r))
<1> DEFINE b == Append(h, r)
           t == Trimmed(b)
           d == DropExtraSenders(t, {r.from})
<1>1. /\ b \in Seq(Record) /\ b[Len(h) + 1] = r
      /\ Latest(b, r.from) = Len(h) + 1 /\ Ring(b, r.from) # {}
  BY AppendRings
<1> HIDE DEF b
<1>2. Len(h) + 1 \in TrimKeep(b) /\ TrimKeep(b) \in SUBSET DOMAIN b
  BY <1>1, TrimmedRings, TrimmedAt
<1>3. PICK n \in DOMAIN t : t[n] = r
  BY <1>1, <1>2, TrimmedAt, AtRecords
<1>4. t \in Seq(Record)
  BY <1>1, <1>2, TrimmedAt, AtRecords
<1> HIDE DEF t
<1>5. n \in DropKeep(t, {r.from}) /\ DropKeep(t, {r.from}) \in SUBSET DOMAIN t
  BY <1>3 DEF DropKeep, Dropped
<1>6. \E m \in DOMAIN d : d[m] = r
  BY <1>3, <1>4, <1>5, DropExtraAt, AtRecords
<1>7. Add(h, r) = d
  BY DEF Add, t, b
<1>8. QED
  BY <1>6, <1>7 DEF HistoryIds

\* an arrival brings no id but its own
LEMMA AddIds ==
  ASSUME NEW h \in Seq(Record), NEW r \in Record
  PROVE  HistoryIds(Add(h, r)) \subseteq HistoryIds(h) \cup {r.id}
<1> DEFINE R == {x \in Record : x.id \in HistoryIds(h) \cup {r.id}}
<1>1. h \in Seq(R)
  <2>1. \A i \in DOMAIN h : h[i] \in Record /\ h[i].id \in HistoryIds(h)
    BY DEF HistoryIds
  <2>2. \A i \in DOMAIN h : h[i] \in R
    BY <2>1
  <2> HIDE DEF R
  <2>3. QED
    BY <2>2
<1>2. Add(h, r) \in Seq(R)
  BY <1>1, AddType
<1>3. \A i \in DOMAIN Add(h, r) : Add(h, r)[i] \in R
  BY <1>2
<1>4. QED
  BY <1>3 DEF HistoryIds

LEMMA ReplaceIds ==
  ASSUME NEW h \in Seq(Record), NEW old, NEW r \in Record
  PROVE  /\ HistoryIds(Replace(h, old, r)) \subseteq (HistoryIds(h) \ {old}) \cup {r.id}
         /\ r.id \in HistoryIds(Replace(h, old, r))
<1>1. /\ Removed(h, old) \in Seq(Record)
      /\ HistoryIds(Removed(h, old)) = HistoryIds(h) \ {old}
  BY RemovedType
<1>2. QED
  BY <1>1, AddIds, NewcomerKept DEF Replace

-----------------------------------------------------------------------------
(***************************************************************************)
(* What an arrival may cost.  A record that comes out leaves both bounds.  *)
(***************************************************************************)
Bounded(h) ==
  /\ \A f \in From : Held(h, f) <= PerSenderMax
  /\ Cardinality(Named(h)) <= SendersMax

LEMMA RemovedBounds ==
  ASSUME NEW h \in Seq(Record), NEW id, Bounded(h)
  PROVE  Removed(h, id) \in Seq(Record) /\ Bounded(Removed(h, id))
<1> DEFINE keep == {i \in DOMAIN h : h[i].id # id}
           q == At(h, keep)
<1>1. keep \in SUBSET DOMAIN h /\ Removed(h, id) = q
  BY DEF Removed
<1>2. q \in Seq(Record)
  BY <1>1, AtRecords
<1> HIDE DEF q
<1>3. ASSUME NEW f \in From
      PROVE  Held(q, f) <= PerSenderMax
  <2>1. Held(q, f) = Cardinality(Ring(h, f) \cap keep)
    BY <1>1, RingAt DEF q
  <2>2. /\ IsFiniteSet(Ring(h, f)) /\ Cardinality(Ring(h, f)) \in Nat
        /\ Cardinality(Ring(h, f)) <= PerSenderMax
    BY RingPlaces DEF Bounded, Held
  <2>3. Ring(h, f) \cap keep \in SUBSET Ring(h, f)
    OBVIOUS
  <2>4. /\ Cardinality(Ring(h, f) \cap keep) <= Cardinality(Ring(h, f))
        /\ Cardinality(Ring(h, f) \cap keep) \in Nat
    BY <2>2, <2>3, FS_Subset, FS_CardinalityType
  <2>5. QED
    BY <2>1, <2>2, <2>4, RingsAssumption
<1>4. Cardinality(Named(q)) <= SendersMax
  <2>1. \A f : Ring(q, f) = {} <=> Ring(h, f) \cap keep = {}
    BY <1>1, RingAt DEF q
  <2>2. Named(q) \in SUBSET Named(h)
    BY <2>1 DEF Named
  <2>3. /\ IsFiniteSet(Named(h)) /\ Cardinality(Named(h)) \in Nat
        /\ Cardinality(Named(q)) \in Nat
    BY NamedFinite
  <2>4. Cardinality(Named(q)) <= Cardinality(Named(h))
    BY <2>2, <2>3, FS_Subset
  <2>5. QED
    BY <2>3, <2>4, RingsAssumption DEF Bounded
<1>5. QED
  BY <1>1, <1>2, <1>3, <1>4 DEF Bounded

\* a ring that is kept whole is last heard from where it was
LEMMA LatestAt ==
  ASSUME NEW h \in Seq(Record), NEW keep \in SUBSET DOMAIN h, NEW f,
         Ring(h, f) # {}, Ring(h, f) \subseteq keep
  PROVE  /\ Latest(At(h, keep), f) \in 1 .. Cardinality(keep)
         /\ Nth(keep, Latest(At(h, keep), f)) = Latest(h, f)
<1> DEFINE a == At(h, keep)
           l == Latest(a, f)
           m == Latest(h, f)
<1>1. /\ a \in Seq(Record) /\ DOMAIN a = 1 .. Cardinality(keep)
      /\ \A n \in DOMAIN a : Nth(keep, n) \in keep /\ a[n] = h[Nth(keep, n)]
      /\ \A i \in keep : \E n \in DOMAIN a : Nth(keep, n) = i /\ a[n] = h[i]
  BY AtRecords
<1>2. /\ IsFiniteSet(keep) /\ keep \in SUBSET (Nat \ {0}) /\ Cardinality(keep) \in Nat
  BY PlacesFinite
<1>3. \A x, y \in 1 .. Cardinality(keep) : x < y => Nth(keep, x) < Nth(keep, y)
  BY <1>2, NthPlace
<1>4. Ring(a, f) # {}
  BY RingAt
<1>5. m \in Ring(h, f) /\ m \in keep /\ (\A j \in Ring(h, f) : j <= m)
  BY LatestPlace
<1> HIDE DEF a
<1>6. l \in Ring(a, f) /\ (\A j \in Ring(a, f) : j <= l)
  BY <1>1, <1>4, LatestPlace
<1>7. l \in DOMAIN a /\ a[l].from = f
  BY <1>6 DEF Ring
<1>8. PICK n \in DOMAIN a : Nth(keep, n) = m /\ a[n] = h[m]
  BY <1>1, <1>5
<1>9. n \in Ring(a, f)
  BY <1>5, <1>8 DEF Ring
<1>10. n <= l
  BY <1>6, <1>9
<1>11. Nth(keep, l) \in Ring(h, f)
  BY <1>1, <1>7 DEF Ring
<1>12. Nth(keep, l) <= m
  BY <1>5, <1>11
<1> HIDE DEF l, m
<1>13. n \in Int /\ l \in Int /\ m \in Int /\ Nth(keep, l) \in Int
  BY <1>1, <1>2, <1>5, <1>7, <1>8
<1>14. CASE n = l
  BY <1>1, <1>7, <1>8, <1>14 DEF l, m, a
<1>15. CASE n < l
  <2>1. m < Nth(keep, l)
    BY <1>1, <1>3, <1>7, <1>8, <1>15
  <2>2. QED
    BY <1>12, <1>13, <2>1
<1>16. QED
  BY <1>10, <1>13, <1>14, <1>15

LEMMA LatestOrder ==
  ASSUME NEW h \in Seq(Record), NEW keep \in SUBSET DOMAIN h, NEW f, NEW g,
         Ring(h, f) # {}, Ring(h, f) \subseteq keep,
         Ring(h, g) # {}, Ring(h, g) \subseteq keep,
         Latest(At(h, keep), f) < Latest(At(h, keep), g)
  PROVE  Latest(h, f) < Latest(h, g)
<1>1. /\ Latest(At(h, keep), f) \in 1 .. Cardinality(keep)
      /\ Nth(keep, Latest(At(h, keep), f)) = Latest(h, f)
  BY LatestAt
<1>2. /\ Latest(At(h, keep), g) \in 1 .. Cardinality(keep)
      /\ Nth(keep, Latest(At(h, keep), g)) = Latest(h, g)
  BY LatestAt
<1>3. \A x, y \in 1 .. Cardinality(keep) : x < y => Nth(keep, x) < Nth(keep, y)
  BY PlacesFinite, NthPlace
<1>4. QED
  BY <1>1, <1>2, <1>3

\* with one ring too many, the one that goes comes before every other in the order
LEMMA CheapestGoes ==
  ASSUME NEW h \in Seq(Record), NEW spared, Extra(h) <= 1,
         NEW f \in Dropped(h, spared), NEW g \in Named(h) \ spared, f # g
  PROVE  Cheaper(h, f, g)
<1> DEFINE O == Named(h) \ spared
           C == {y \in O : Cheaper(h, y, f)}
<1>1. f \in Named(h) /\ g \in Named(h) /\ g \in O
  BY DEF Dropped
<1>2. Cardinality(C) < Extra(h) /\ Extra(h) \in Int
  BY NamedFinite, RingsAssumption DEF Dropped, Extra
<1>3. IsFiniteSet(C) /\ Cardinality(C) \in Nat
  <2>1. C \in SUBSET Named(h)
    OBVIOUS
  <2>2. QED
    BY <2>1, NamedFinite, FS_Subset, FS_CardinalityType
<1>4. Cardinality(C) = 0
  BY <1>2, <1>3
<1>5. C = {}
  BY <1>3, <1>4, FS_EmptySet
<1>6. ~Cheaper(h, g, f)
  BY <1>1, <1>5
<1>7. /\ Score(h, f) \in Nat /\ Score(h, g) \in Nat
      /\ Cheaper(h, f, g) <=> Score(h, f) < Score(h, g)
      /\ Cheaper(h, g, f) <=> Score(h, g) < Score(h, f)
      /\ Score(h, f) # Score(h, g)
  BY <1>1, ScoreOrders
<1>8. QED
  BY <1>6, <1>7

\* the rings that are not the newcomer's go through the trim as they are
LEMMA OthersTrimmed ==
  ASSUME NEW h \in Seq(Record), NEW r \in Record, Bounded(h), NEW f \in From \ {r.from}
  PROVE  LET b == Append(h, r) IN
         /\ Ring(b, f) = Ring(h, f) /\ Ring(b, f) \subseteq TrimKeep(b)
         /\ Held(Trimmed(b), f) = Held(h, f)
         /\ Ring(Trimmed(b), f) = {} <=> Ring(h, f) = {}
<1> DEFINE b == Append(h, r)
<1>1. b \in Seq(Record) /\ Ring(b, f) = Ring(h, f)
  BY AppendRings
<1>2. Held(b, f) <= PerSenderMax
  BY <1>1 DEF Bounded, Held
<1> HIDE DEF b
<1>3. Ring(b, f) \subseteq TrimKeep(b) /\ Held(Trimmed(b), f) = Held(b, f)
  BY <1>1, <1>2, TrimmedRings
<1>4. Ring(Trimmed(b), f) = {} <=> Ring(b, f) \cap TrimKeep(b) = {}
  <2>1. Trimmed(b) = At(b, TrimKeep(b)) /\ TrimKeep(b) \in SUBSET DOMAIN b
    BY <1>1, TrimmedAt
  <2>2. Ring(At(b, TrimKeep(b)), f) = {} <=> Ring(b, f) \cap TrimKeep(b) = {}
    BY <1>1, <2>1, RingAt
  <2>3. QED
    BY <2>1, <2>2
<1>5. QED
  BY <1>1, <1>3, <1>4 DEF Held, b

\* a ring goes only when the newcomer is a sender more than the bound takes
LEMMA DroppedOnlyFull ==
  ASSUME NEW h \in Seq(Record), NEW r \in Record, Bounded(h)
  PROVE  LET t == Trimmed(Append(h, r)) IN
         /\ t \in Seq(Record)
         /\ Dropped(t, {r.from}) # {} =>
              /\ r.from \in Apps \ Named(h) /\ Cardinality(Named(h)) = SendersMax
              /\ Extra(t) <= 1
<1> DEFINE t == Trimmed(Append(h, r))
           a == r.from
<1>1. t \in Seq(Record)
  <2>1. Append(h, r) \in Seq(Record)
    BY AppendRings
  <2> DEFINE b == Append(h, r)
  <2> HIDE DEF b
  <2>2. Trimmed(b) = At(b, TrimKeep(b)) /\ TrimKeep(b) \in SUBSET DOMAIN b
    BY <2>1, TrimmedAt DEF b
  <2>3. At(b, TrimKeep(b)) \in Seq(Record)
    BY <2>1, <2>2, AtRecords DEF b
  <2>4. QED
    BY <2>2, <2>3 DEF b
<1>2. \A f \in Apps \ {a} : Ring(t, f) = {} <=> Ring(h, f) = {}
  BY OthersTrimmed DEF From
<1>3. \E x : {a} \subseteq {x}
  OBVIOUS
<1> HIDE DEF t
<1>4. Cardinality(Named(t)) <= SendersMax => Dropped(t, {a}) = {}
  BY <1>1, <1>3, SendersBounded
<1>5. /\ IsFiniteSet(Named(h)) /\ Cardinality(Named(h)) \in Nat
      /\ Cardinality(Named(t)) \in Nat /\ Cardinality(Named(h)) <= SendersMax
      /\ SendersMax \in Nat
  BY NamedFinite, RingsAssumption DEF Bounded
<1>6. CASE a \in Named(h) \/ a \notin Apps
  <2>1. Named(t) \in SUBSET Named(h)
    BY <1>2, <1>6 DEF Named
  <2>2. Cardinality(Named(t)) <= Cardinality(Named(h))
    BY <1>5, <2>1, FS_Subset
  <2>3. Cardinality(Named(t)) <= SendersMax
    BY <1>5, <2>2
  <2>4. Dropped(t, {a}) = {}
    BY <1>4, <2>3
  <2>5. QED
    BY <1>1, <2>4 DEF t
<1>7. CASE a \in Apps \ Named(h)
  <2>1. Named(t) \in SUBSET (Named(h) \cup {a})
    BY <1>2 DEF Named
  <2>2. /\ IsFiniteSet(Named(h) \cup {a})
        /\ Cardinality(Named(h) \cup {a}) = Cardinality(Named(h)) + 1
    BY <1>5, <1>7, FS_AddElement
  <2>3. Cardinality(Named(t)) <= Cardinality(Named(h)) + 1
    BY <2>1, <2>2, FS_Subset
  <2>4. Extra(t) <= 1
    BY <1>5, <2>3 DEF Extra
  <2>5. CASE Cardinality(Named(h)) = SendersMax
    BY <1>1, <1>7, <2>4, <2>5 DEF t
  <2>6. CASE Cardinality(Named(h)) # SendersMax
    <3>1. Cardinality(Named(t)) <= SendersMax
      BY <1>5, <2>3, <2>6
    <3>2. Dropped(t, {a}) = {}
      BY <1>4, <3>1
    <3>3. QED
      BY <1>1, <3>2 DEF t
  <2>7. QED
    BY <2>5, <2>6
<1>8. QED
  BY <1>6, <1>7

\* a full ring makes room for the newcomer with its oldest record
LEMMA OldestTrimmed ==
  ASSUME NEW h \in Seq(Record), NEW r \in Record, Held(h, r.from) <= PerSenderMax,
         NEW i \in Ring(h, r.from), i \notin TrimKeep(Append(h, r))
  PROVE  Held(h, r.from) = PerSenderMax /\ \A j \in Ring(h, r.from) : i <= j
<1> DEFINE b == Append(h, r)
           a == r.from
           R == Ring(h, a)
           N == Newer(b, a, i)
<1>1. /\ b \in Seq(Record) /\ DOMAIN h = 1 .. Len(h) /\ DOMAIN b = 1 .. Len(h) + 1
      /\ Len(h) \in Nat /\ b[Len(h) + 1] = r /\ \A j \in DOMAIN h : b[j] = h[j]
  OBVIOUS
<1> HIDE DEF b
<1>2. Ring(b, a) = R \cup {Len(h) + 1} /\ Len(h) + 1 \notin R
  <2>1. \A j : j \in DOMAIN b <=> j \in DOMAIN h \/ j = Len(h) + 1
    BY <1>1
  <2>2. Len(h) + 1 \notin DOMAIN h
    BY <1>1
  <2>3. QED
    BY <1>1, <2>1, <2>2 DEF Ring
<1>3. /\ IsFiniteSet(R) /\ Cardinality(R) \in Nat /\ R \in SUBSET (1 .. Len(h))
      /\ Cardinality(R) <= PerSenderMax
  BY RingPlaces DEF Held
<1>4. /\ IsFiniteSet(Ring(b, a)) /\ Cardinality(Ring(b, a)) = Cardinality(R) + 1
  BY <1>2, <1>3, FS_AddElement
<1>5. N \in SUBSET Ring(b, a)
  BY DEF Newer
<1>6. IsFiniteSet(N) /\ Cardinality(N) \in Nat /\ Cardinality(N) <= Cardinality(R) + 1
  BY <1>4, <1>5, FS_Subset, FS_CardinalityType
<1>7. ~(Cardinality(N) <= PerSenderMax)
  <2>1. i \in DOMAIN b /\ b[i].from = a
    BY <1>1 DEF Ring
  <2>2. QED
    BY <2>1 DEF TrimKeep, b
<1>8. Cardinality(R) = PerSenderMax /\ Cardinality(N) = Cardinality(R) + 1
  BY <1>3, <1>6, <1>7, RingsAssumption
<1>9. N = Ring(b, a)
  BY <1>4, <1>5, <1>8, FS_Subset
<1>10. \A j \in R : j >= i /\ j \in Int /\ i \in Int
  BY <1>2, <1>3, <1>9 DEF Newer
<1>11. QED
  BY <1>8, <1>10 DEF Held

=============================================================================
