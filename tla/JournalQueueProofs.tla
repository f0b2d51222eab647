------------------------- MODULE JournalQueueProofs -------------------------
(***************************************************************************)
(* What the operators of the queue do to a queue of any length, with any   *)
(* number of senders and any bounds.                                       *)
(***************************************************************************)
EXTENDS JournalEntries, FiniteSetTheorems, WellFoundedInduction, TLAPS

(***************************************************************************)
(* A set of naturals that is not empty has a least element.                *)
(***************************************************************************)
LEMMA LeastExists ==
  ASSUME NEW T \in SUBSET Nat, T # {}
  PROVE  \E x \in T : \A y \in T : x <= y
<1>1. \E x \in T : \A y \in T : ~(<<y, x>> \in OpToRel(<, Nat))
  BY NatLessThanWellFounded, WFMin
<1>2. PICK x \in T : \A y \in T : ~(<<y, x>> \in OpToRel(<, Nat))
  BY <1>1
<1>3. x \in Nat /\ \A y \in T : y \in Nat /\ ~(y < x)
  BY <1>2 DEF OpToRel
<1>4. \A y \in T : x <= y
  BY <1>3
<1>5. QED
  BY <1>2, <1>4

(***************************************************************************)
(* An id on the queue has a first place there, which is what Done removes. *)
(***************************************************************************)
LEMMA FirstExists ==
  ASSUME NEW q \in Seq(Item), NEW id, id \in IdsOf(q)
  PROVE  \E i \in DOMAIN q : FirstAt(q, id, i)
<1> DEFINE T == {i \in DOMAIN q : q[i].id = id}
<1>1. T \in SUBSET Nat /\ T # {}
  BY DEF IdsOf
<1>2. PICK i \in T : \A j \in T : i <= j
  BY <1>1, LeastExists
<1>3. \A j \in DOMAIN q : j < i => q[j].id # id
  BY <1>2
<1>4. QED
  BY <1>2, <1>3 DEF FirstAt

(***************************************************************************)
(* Removing the first item numbered id: the queue stays a queue of items,  *)
(* every item left was there, and the ones left keep their order.          *)
(***************************************************************************)
LEMMA WithoutAtType ==
  ASSUME NEW q \in Seq(Item), NEW i \in DOMAIN q
  PROVE  /\ WithoutAt(q, i) \in Seq(Item)
         /\ DOMAIN WithoutAt(q, i) = 1 .. Len(q) - 1
         /\ \A j \in 1 .. Len(q) - 1 :
              WithoutAt(q, i)[j] = IF j < i THEN q[j] ELSE q[j + 1]
BY DEF WithoutAt

LEMMA IdsType ==
  ASSUME NEW q \in Seq(Item)
  PROVE  IdsOf(q) \subseteq Ids
<1>1. \A i \in DOMAIN q : q[i] \in Item
  OBVIOUS
<1>2. QED
  BY <1>1 DEF IdsOf, Item

LEMMA DropFirstType ==
  ASSUME NEW q \in Seq(Item), NEW id
  PROVE  /\ DropFirst(q, id) \in Seq(Item)
         /\ Ordered(q) => Ordered(DropFirst(q, id))
         /\ IdsOf(DropFirst(q, id)) \subseteq IdsOf(q)
<1>1. CASE id \notin IdsOf(q)
  BY <1>1 DEF DropFirst
<1>2. CASE id \in IdsOf(q)
  <2> DEFINE i == CHOOSE n \in DOMAIN q : FirstAt(q, id, n)
             r == WithoutAt(q, i)
  <2>1. i \in DOMAIN q
    BY <1>2, FirstExists
  <2>2. DropFirst(q, id) = r
    BY <1>2 DEF DropFirst
  <2> HIDE DEF i
  <2>3. /\ r \in Seq(Item)
        /\ DOMAIN r = 1 .. Len(q) - 1
        /\ \A j \in 1 .. Len(q) - 1 : r[j] = IF j < i THEN q[j] ELSE q[j + 1]
    BY <2>1, WithoutAtType
  <2> HIDE DEF r
  <2>4. ASSUME Ordered(q), NEW j \in DOMAIN r, NEW k \in DOMAIN r, j < k
        PROVE  r[j].id < r[k].id
    <3>1. PICK m \in {j, j + 1}, n \in {k, k + 1} :
            m \in DOMAIN q /\ n \in DOMAIN q /\ m < n /\ r[j] = q[m] /\ r[k] = q[n]
      <4>1. /\ Len(q) \in Nat /\ i \in 1 .. Len(q)
            /\ j \in 1 .. Len(q) - 1 /\ k \in 1 .. Len(q) - 1
            /\ DOMAIN q = 1 .. Len(q)
        BY <2>1, <2>3
      <4>2. CASE k < i
        BY <4>1, <4>2, <2>3, <2>4
      <4>3. CASE j < i /\ ~(k < i)
        BY <4>1, <4>3, <2>3, <2>4
      <4>4. CASE ~(j < i)
        BY <4>1, <4>4, <2>3, <2>4
      <4>5. QED
        BY <4>1, <4>2, <4>3, <4>4
    <3>2. QED
      BY <2>4, <3>1 DEF Ordered
  <2>5. IdsOf(r) \subseteq IdsOf(q)
    BY <2>1, <2>3 DEF IdsOf
  <2>6. Ordered(q) => Ordered(r)
    BY <2>4 DEF Ordered
  <2>7. QED
    BY <2>2, <2>3, <2>5, <2>6
<1>3. QED
  BY <1>1, <1>2

(***************************************************************************)
(* On an ordered queue Done removes the id altogether, not one of several. *)
(***************************************************************************)
LEMMA DropFirstRemoves ==
  ASSUME NEW q \in Seq(Item), Ordered(q), NEW id
  PROVE  id \notin IdsOf(DropFirst(q, id))
<1>1. CASE id \notin IdsOf(q)
  BY <1>1 DEF DropFirst
<1>2. CASE id \in IdsOf(q)
  <2> DEFINE i == CHOOSE n \in DOMAIN q : FirstAt(q, id, n)
             r == WithoutAt(q, i)
  <2>1. i \in DOMAIN q /\ q[i].id = id
    BY <1>2, FirstExists DEF FirstAt
  <2>2. DropFirst(q, id) = r
    BY <1>2 DEF DropFirst
  <2> HIDE DEF i
  <2>3. /\ DOMAIN r = 1 .. Len(q) - 1
        /\ \A j \in 1 .. Len(q) - 1 : r[j] = IF j < i THEN q[j] ELSE q[j + 1]
    BY <2>1, WithoutAtType
  <2> HIDE DEF r
  <2>4. \A j \in DOMAIN q : j # i => q[j].id # id
    <3>1. \A j \in DOMAIN q : q[j] \in Item /\ j \in Int
      OBVIOUS
    <3>2. q[i].id \in Nat /\ \A j \in DOMAIN q : q[j].id \in Nat
      BY <2>1, <3>1 DEF Item, Ids
    <3>3. \A j \in DOMAIN q : j # i => q[j].id < q[i].id \/ q[i].id < q[j].id
      BY <2>1, <3>1 DEF Ordered
    <3>4. QED
      BY <2>1, <3>2, <3>3
  <2>5. \A j \in DOMAIN r : \E k \in DOMAIN q : k # i /\ r[j] = q[k]
    <3>1. Len(q) \in Nat /\ DOMAIN q = 1 .. Len(q)
      OBVIOUS
    <3>2. QED
      BY <2>1, <2>3, <3>1
  <2>6. QED
    BY <2>2, <2>4, <2>5 DEF IdsOf
<1>3. QED
  BY <1>1, <1>2

(***************************************************************************)
(* A queue with nothing on it.                                             *)
(***************************************************************************)
LEMMA EmptyQueue == << >> \in Seq(Item) /\ Ordered(<< >>) /\ IdsOf(<< >>) = {}
<1>1. DOMAIN << >> = {}
  OBVIOUS
<1>2. QED
  BY <1>1 DEF Ordered, IdsOf

-----------------------------------------------------------------------------
(***************************************************************************)
(* How many places a class of senders holds: a number, one more at most    *)
(* for an item appended, never more for one removed.                       *)
(***************************************************************************)
LEMMA HeldType ==
  ASSUME NEW q \in Seq(Item), NEW names
  PROVE  /\ IsFiniteSet({i \in DOMAIN q : q[i].from \in names})
         /\ HeldBy(q, names) \in Nat
<1>1. IsFiniteSet(DOMAIN q)
  BY FS_Interval
<1>2. QED
  BY <1>1, FS_Subset, FS_CardinalityType DEF HeldBy

LEMMA HeldEmpty ==
  ASSUME NEW names
  PROVE  HeldBy(<< >>, names) = 0
<1>1. {i \in DOMAIN << >> : << >>[i].from \in names} = {}
  OBVIOUS
<1>2. QED
  BY <1>1, FS_EmptySet DEF HeldBy

LEMMA EmptyShares == Shares(<< >>)
<1>1. Len(<< >>) = 0 /\ \A names : HeldBy(<< >>, names) = 0
  BY HeldEmpty
<1>2. QED
  BY <1>1, BoundsAssumption DEF Shares

LEMMA HeldAppend ==
  ASSUME NEW q \in Seq(Item), NEW x \in Item, NEW names
  PROVE  HeldBy(Append(q, x), names) =
           IF x.from \in names THEN HeldBy(q, names) + 1 ELSE HeldBy(q, names)
<1> DEFINE S == {i \in DOMAIN q : q[i].from \in names}
           T == {i \in DOMAIN Append(q, x) : Append(q, x)[i].from \in names}
<1>0. IsFiniteSet(S)
  BY HeldType
<1>1. IsFiniteSet(S) /\ Len(q) + 1 \notin S
  <2>1. Len(q) \in Nat /\ DOMAIN q = 1 .. Len(q)
    OBVIOUS
  <2>2. QED
    BY <1>0, <2>1
<1>2. CASE x.from \in names
  <2>1. T = S \cup {Len(q) + 1}
    BY <1>2
  <2>2. QED
    BY <1>1, <1>2, <2>1, FS_AddElement DEF HeldBy
<1>3. CASE x.from \notin names
  <2>1. T = S
    BY <1>3
  <2>2. QED
    BY <1>3, <2>1 DEF HeldBy
<1>4. QED
  BY <1>2, <1>3

LEMMA HeldDrop ==
  ASSUME NEW q \in Seq(Item), NEW id, NEW names
  PROVE  HeldBy(DropFirst(q, id), names) <= HeldBy(q, names)
<1>1. CASE id \notin IdsOf(q)
  <2>1. DropFirst(q, id) = q
    BY <1>1 DEF DropFirst
  <2>2. HeldBy(q, names) \in Nat
    BY HeldType
  <2>3. QED
    BY <2>1, <2>2
<1>2. CASE id \in IdsOf(q)
  <2> DEFINE i == CHOOSE n \in DOMAIN q : FirstAt(q, id, n)
             r == WithoutAt(q, i)
  <2>1. i \in DOMAIN q
    BY <1>2, FirstExists
  <2>2. DropFirst(q, id) = r
    BY <1>2 DEF DropFirst
  <2> HIDE DEF i
  <2>3. /\ DOMAIN r = 1 .. Len(q) - 1
        /\ \A j \in 1 .. Len(q) - 1 : r[j] = IF j < i THEN q[j] ELSE q[j + 1]
    BY <2>1, WithoutAtType
  <2> HIDE DEF r
  <2> DEFINE S == {j \in DOMAIN q : q[j].from \in names}
             T == {j \in DOMAIN r : r[j].from \in names}
             f == [j \in T |-> IF j < i THEN j ELSE j + 1]
  <2>4. f \in Injection(T, S)
    <3>1. /\ Len(q) \in Nat /\ i \in 1 .. Len(q) /\ DOMAIN q = 1 .. Len(q)
      BY <2>1
    <3>2. f \in [T -> S]
      BY <2>3, <3>1
    <3>3. ASSUME NEW j \in T, NEW k \in T, f[j] = f[k]
          PROVE  j = k
      BY <2>3, <3>1, <3>3
    <3>4. QED
      BY <3>2, <3>3 DEF Injection, IsInjective
  <2>5. IsFiniteSet(S)
    BY HeldType
  <2>6. Cardinality(T) <= Cardinality(S)
    <3> HIDE DEF f, S, T
    <3>1. QED
      BY <2>4, <2>5, FS_Injection
  <2>7. QED
    BY <2>2, <2>6 DEF HeldBy
<1>3. QED
  BY <1>1, <1>2

(***************************************************************************)
(* An item with an id past all the others keeps the order, and adds its id *)
(* to them; finishing one keeps the shares; an item there was room for     *)
(* keeps them too.                                                         *)
(***************************************************************************)
LEMMA AppendOrdered ==
  ASSUME NEW q \in Seq(Item), NEW x \in Item,
         Ordered(q), \A id \in IdsOf(q) : id < x.id
  PROVE  /\ Append(q, x) \in Seq(Item) /\ Ordered(Append(q, x))
         /\ IdsOf(Append(q, x)) = IdsOf(q) \cup {x.id}
<1> DEFINE b == Append(q, x)
<1>1. /\ b \in Seq(Item) /\ Len(q) \in Nat
      /\ DOMAIN q = 1 .. Len(q) /\ DOMAIN b = 1 .. Len(q) + 1
      /\ b[Len(q) + 1] = x /\ \A i \in DOMAIN q : b[i] = q[i]
  OBVIOUS
<1> HIDE DEF b
<1>2. \A i \in DOMAIN b : i \in DOMAIN q \/ i = Len(q) + 1
  BY <1>1
<1>3. DOMAIN q \subseteq DOMAIN b /\ Len(q) + 1 \in DOMAIN b
  BY <1>1
<1>4. IdsOf(b) = IdsOf(q) \cup {x.id}
  BY <1>1, <1>2, <1>3 DEF IdsOf
<1>5. ASSUME NEW i \in DOMAIN b, NEW j \in DOMAIN b, i < j
      PROVE  b[i].id < b[j].id
  <2>1. i \in DOMAIN q
    BY <1>1, <1>5
  <2>2. CASE j \in DOMAIN q
    BY <1>1, <1>5, <2>1, <2>2 DEF Ordered
  <2>3. CASE j = Len(q) + 1
    BY <1>1, <2>1, <2>3 DEF IdsOf
  <2>4. QED
    BY <1>2, <2>2, <2>3
<1>6. QED
  BY <1>1, <1>4, <1>5 DEF Ordered, b

LEMMA SharesAppend ==
  ASSUME NEW q \in Seq(Item), NEW x \in Item, Shares(q), RoomFor(q, x.from)
  PROVE  Shares(Append(q, x))
<1>1. /\ Len(q) < QueueMax
      /\ \/ x.from \in Ours
         \/ /\ HeldBy(q, {x.from}) < PerSenderMax
            /\ HeldBy(q, Apps) < QueueMax - Reserved
  BY DEF RoomFor
<1>2. Len(Append(q, x)) <= QueueMax
  BY <1>1, BoundsAssumption
<1>3. ASSUME NEW f \in Apps
      PROVE  HeldBy(Append(q, x), {f}) <= PerSenderMax
  <2>1. HeldBy(q, {f}) \in Nat /\ HeldBy(q, {f}) <= PerSenderMax
    BY HeldType DEF Shares
  <2>2. CASE x.from = f
    <3>1. HeldBy(Append(q, x), {f}) = HeldBy(q, {f}) + 1
      BY <2>2, HeldAppend
    <3>2. HeldBy(q, {f}) < PerSenderMax
      BY <1>1, <2>2, NamesAssumption
    <3>3. QED
      BY <2>1, <3>1, <3>2, BoundsAssumption
  <2>3. CASE x.from # f
    <3>1. HeldBy(Append(q, x), {f}) = HeldBy(q, {f})
      BY <2>3, HeldAppend
    <3>2. QED
      BY <2>1, <3>1
  <2>4. QED
    BY <2>2, <2>3
<1>4. HeldBy(Append(q, x), Apps) <= QueueMax - Reserved
  <2>1. HeldBy(q, Apps) \in Nat /\ HeldBy(q, Apps) <= QueueMax - Reserved
    BY HeldType DEF Shares
  <2>2. CASE x.from \in Apps
    <3>1. HeldBy(Append(q, x), Apps) = HeldBy(q, Apps) + 1
      BY <2>2, HeldAppend
    <3>2. HeldBy(q, Apps) < QueueMax - Reserved
      BY <1>1, <2>2, NamesAssumption
    <3>3. QED
      BY <2>1, <3>1, <3>2, BoundsAssumption
  <2>3. CASE x.from \notin Apps
    <3>1. HeldBy(Append(q, x), Apps) = HeldBy(q, Apps)
      BY <2>3, HeldAppend
    <3>2. QED
      BY <2>1, <3>1
  <2>4. QED
    BY <2>2, <2>3
<1>5. QED
  BY <1>2, <1>3, <1>4 DEF Shares

LEMMA SharesDrop ==
  ASSUME NEW q \in Seq(Item), Shares(q), NEW id
  PROVE  Shares(DropFirst(q, id))
<1> DEFINE r == DropFirst(q, id)
<1>1. r \in Seq(Item)
  BY DropFirstType
<1>2. Len(r) <= Len(q)
  BY FirstExists, WithoutAtType DEF DropFirst
<1>3. Len(r) \in Nat /\ Len(q) \in Nat /\ Len(q) <= QueueMax
  BY <1>1 DEF Shares
<1>4. \A names : /\ HeldBy(r, names) \in Nat /\ HeldBy(q, names) \in Nat
                 /\ HeldBy(r, names) <= HeldBy(q, names)
  BY <1>1, HeldType, HeldDrop
<1> HIDE DEF r
<1>5. Len(r) <= QueueMax
  BY <1>2, <1>3, BoundsAssumption
<1>6. \A f \in Apps : HeldBy(r, {f}) <= PerSenderMax
  BY <1>4, BoundsAssumption DEF Shares
<1>7. HeldBy(r, Apps) <= QueueMax - Reserved
  BY <1>4, BoundsAssumption DEF Shares
<1>8. QED
  BY <1>5, <1>6, <1>7 DEF Shares, r
=============================================================================
