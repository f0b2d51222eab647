--------------------------- MODULE JournalProofs ----------------------------
(***************************************************************************)
(* What holds of the journal for every set of desks, senders and bounds.   *)
(***************************************************************************)
EXTENDS Journal, JournalQueueProofs

-----------------------------------------------------------------------------
(***************************************************************************)
(* Applying any line to a state gives a state.                             *)
(***************************************************************************)
LEMMA ApplyType ==
  ASSUME NEW s \in State, NEW e \in Tails
  PROVE  Apply(s, e) \in State
<1>0. /\ s.place \in [Places -> Slots \cup {None}]
      /\ s.reg \in [Registers -> Values \cup {None}]
      /\ s.queue \in Seq(Item)
      /\ s.lastID \in Nat
  BY DEF State
<1>1. CASE e \in ActiveEntry
  <2>1. ApplyActive(s, e) \in State
    BY <1>1 DEF ApplyActive, ActiveEntry, State
  <2>2. QED
    BY <1>1, <2>1 DEF Apply, ActiveEntry
<1>2. CASE e \in RegisterEntry
  <2>1. ApplyRegister(s, e) \in State
    BY <1>2 DEF ApplyRegister, RegisterEntry, State
  <2>2. QED
    BY <1>2, <2>1 DEF Apply, RegisterEntry
<1>3. CASE e \in RenamedEntry
  <2>1. ApplyRenamed(s, e) \in State
    BY <1>3 DEF ApplyRenamed, RenamedEntry, State
  <2>2. QED
    BY <1>3, <2>1 DEF Apply, RenamedEntry
<1>4. CASE e \in QueuedEntry
  <2>1. [id |-> e.id, from |-> e.from] \in Item
    BY <1>4 DEF QueuedEntry, Item
  <2>2. MaxOf(s.lastID, e.id) \in Nat
    BY <1>0, <1>4 DEF QueuedEntry, Ids, MaxOf
  <2>3. Append(s.queue, [id |-> e.id, from |-> e.from]) \in Seq(Item)
    BY <1>0, <2>1
  <2>4. ApplyQueued(s, e) \in State
    BY <2>2, <2>3 DEF ApplyQueued, State
  <2>5. QED
    BY <1>4, <2>4 DEF Apply, QueuedEntry
<1>5. CASE e \in DoneEntry
  <2>1. DropFirst(s.queue, e.id) \in Seq(Item)
    BY <1>0, DropFirstType
  <2>2. ApplyDone(s, e) \in State
    BY <2>1 DEF ApplyDone, State
  <2>3. QED
    BY <1>5, <2>2 DEF Apply, DoneEntry
<1>6. CASE e \in ClearedEntry
  <2>1. << >> \in Seq(Item)
    OBVIOUS
  <2>2. ApplyCleared(s) \in State
    BY <2>1 DEF ApplyCleared, State
  <2>3. QED
    BY <1>6, <2>2 DEF Apply, ClearedEntry
<1>7. CASE e \in LastIDEntry
  <2>1. MaxOf(s.lastID, e.id) \in Nat
    BY <1>0, <1>7 DEF LastIDEntry, Ids, MaxOf
  <2>2. ApplyLastID(s, e) \in State
    BY <2>1 DEF ApplyLastID, State
  <2>3. QED
    BY <1>7, <2>2 DEF Apply, LastIDEntry
<1>8. CASE e \in {NoTail, Part}
  BY <1>8 DEF Apply, NoTail, Part
<1>9. QED
  BY <1>1, <1>2, <1>3, <1>4, <1>5, <1>6, <1>7, <1>8 DEF Tails, Entry

(***************************************************************************)
(* The state of a file nothing was written to.                             *)
(***************************************************************************)
LEMMA NewStateType == newState \in State
<1>1. << >> \in Seq(Item)
  OBVIOUS
<1>2. QED
  BY <1>1 DEF newState, State

(***************************************************************************)
(* recordLocked keeps the types whatever the entry and whatever happens    *)
(* inside it.                                                              *)
(***************************************************************************)
LEMMA RecordType ==
  ASSUME TypeOK, NEW e \in Entry, Record(e)
  PROVE  TypeOK'
<1>1. /\ Apply(mem, e) \in State
      /\ Apply(base, e) \in State
      /\ newState \in State
  BY ApplyType, NewStateType DEF TypeOK, Tails
<1>2. Land(e) => base' \in State /\ tail' \in Tails /\ entries' \in Nat
  BY <1>1 DEF Land, TypeOK, Tails
<1>3. LandPart(e) =>
        /\ base' \in State /\ tail' \in Tails /\ entries' \in Nat
        /\ damage' \in Seq({"fragment", "unsynced"})
  BY DEF LandPart, Damaged, TypeOK, Tails
<1>4. Answered(e) => given' \in Seq(Ids) /\ finished' \subseteq Ids
  <2> SUFFICES ASSUME Answered(e)
               PROVE  given' \in Seq(Ids) /\ finished' \subseteq Ids
    OBVIOUS
  <2>1. e.kind \in {"queued", "lastid"} => e.id \in Ids
    BY DEF Entry, ActiveEntry, RegisterEntry, RenamedEntry, QueuedEntry, DoneEntry,
           ClearedEntry, LastIDEntry
  <2>2. given' \in Seq(Ids)
    BY <2>1 DEF Answered, TypeOK
  <2>3. IdsOf(mem.queue) \subseteq Ids
    BY IdsType DEF TypeOK, State
  <2>4. finished' \subseteq Ids
    BY <2>3 DEF Answered, TypeOK
  <2>5. QED
    BY <2>2, <2>4
<1>5. CASE Recorded(e)
  BY <1>1, <1>2, <1>4, <1>5 DEF Recorded, TypeOK
<1>6. CASE WriteFails(e)
  BY <1>3, <1>6 DEF WriteFails, Unanswered, TypeOK
<1>7. CASE SyncFails(e)
  BY <1>2, <1>7 DEF SyncFails, Damaged, Unanswered, TypeOK
<1>8. CASE StopsInside(e)
  BY <1>1, <1>2, <1>3, <1>8 DEF StopsInside, Stopped, Unanswered, TypeOK
<1>9. QED
  BY <1>5, <1>6, <1>7, <1>8 DEF Record

(***************************************************************************)
(* Every call but Open and Crash is recordLocked of some entry.  What an   *)
(* entry that takes an id can be: the next one, lastID + 1; and a queued   *)
(* one has asked for room.                                                 *)
(***************************************************************************)
LEMMA CallsRecord ==
  ASSUME TypeOK, Next, ~Crash, ~Open
  PROVE  \E e \in Entry :
           /\ Record(e)
           /\ e.kind \in {"queued", "lastid"} => e.id = mem.lastID + 1
           /\ e.kind = "queued" => RoomFor(mem.queue, e.from)
<1>0. mem.lastID + 1 \in Ids
  BY DEF TypeOK, State, Ids
<1>1. ASSUME NEW p \in Places, NEW s \in Slots, SetActive(p, s)
      PROVE  \E e \in ActiveEntry : Record(e)
  <2> DEFINE e == [kind |-> "active", place |-> p, slot |-> s]
  <2>1. e \in ActiveEntry
    BY DEF ActiveEntry
  <2>2. QED
    BY <1>1, <2>1 DEF SetActive
<1>2. ASSUME NEW r \in Registers, NEW v \in Values \cup {None}, SetRegister(r, v)
      PROVE  \E e \in RegisterEntry : Record(e)
  <2> DEFINE e == [kind |-> "register", reg |-> r, value |-> v]
  <2>1. e \in RegisterEntry
    BY DEF RegisterEntry
  <2>2. QED
    BY <1>2, <2>1 DEF SetRegister
<1>3. ASSUME NEW p \in Places, NEW q \in Places, NEW s \in Slots, NEW t \in Slots,
             Renamed(p, s, q, t)
      PROVE  \E e \in RenamedEntry : Record(e)
  <2> DEFINE e == [kind |-> "renamed", from |-> p, slot |-> s, to |-> q, toSlot |-> t]
  <2>1. e \in RenamedEntry
    BY DEF RenamedEntry
  <2>2. QED
    BY <1>3, <2>1 DEF Renamed
<1>4. ASSUME NEW f \in Senders, Queue(f)
      PROVE  \E e \in QueuedEntry :
               Record(e) /\ e.id = mem.lastID + 1 /\ RoomFor(mem.queue, e.from)
  <2> DEFINE e == [kind |-> "queued", id |-> mem.lastID + 1, from |-> f]
  <2>1. e \in QueuedEntry /\ e.id = mem.lastID + 1 /\ e.from = f
    BY <1>0 DEF QueuedEntry
  <2>2. QED
    BY <1>4, <2>1 DEF Queue
<1>5. ASSUME ClaimID
      PROVE  \E e \in LastIDEntry : Record(e) /\ e.id = mem.lastID + 1
  <2> DEFINE e == [kind |-> "lastid", id |-> mem.lastID + 1]
  <2>1. e \in LastIDEntry /\ e.id = mem.lastID + 1
    BY <1>0 DEF LastIDEntry
  <2>2. QED
    BY <1>5, <2>1 DEF ClaimID
<1>6. ASSUME NEW id \in 1 .. MaxId, Done(id)
      PROVE  \E e \in DoneEntry : Record(e)
  <2> DEFINE e == [kind |-> "done", id |-> id]
  <2>1. e \in DoneEntry
    BY DEF DoneEntry
  <2>2. QED
    BY <1>6, <2>1 DEF Done
<1>7. ASSUME Clear
      PROVE  \E e \in ClearedEntry : Record(e)
  <2> DEFINE e == [kind |-> "cleared"]
  <2>1. e \in ClearedEntry
    BY DEF ClearedEntry
  <2>2. QED
    BY <1>7, <2>1 DEF Clear
<1>8. QED
  BY <1>1, <1>2, <1>3, <1>4, <1>5, <1>6, <1>7
     DEF Next, Entry, ActiveEntry, RegisterEntry, RenamedEntry, QueuedEntry, DoneEntry,
         ClearedEntry, LastIDEntry

(***************************************************************************)
(* Journal is type correct: what a replay, a call, a fault or a compaction *)
(* leaves is a state of the journal.                                       *)
(***************************************************************************)
LEMMA InitType == Init => TypeOK
<1> SUFFICES ASSUME Init
             PROVE  TypeOK
  OBVIOUS
<1>1. given \in Seq(Ids)
  BY DEF Init
<1>2. damage \in Seq({"fragment", "unsynced"})
  BY DEF Init
<1>3. mem \in State /\ base \in State /\ tail \in Tails
  BY NewStateType DEF Init, Tails
<1>4. up \in BOOLEAN /\ entries \in Nat /\ finished \subseteq Ids
  BY DEF Init
<1>5. QED
  BY <1>1, <1>2, <1>3, <1>4 DEF TypeOK

LEMMA OpenType ==
  ASSUME TypeOK, Open
  PROVE  TypeOK'
<1>1. Replayed \in State
  BY ApplyType DEF Replayed, TypeOK
<1>2. base' \in State /\ tail' \in Tails
  BY <1>1 DEF Open, Compacted, TypeOK, Tails
<1>3. entries' \in Nat
  <2>1. ShortestLen(Replayed) \in Nat
    <3>1. /\ Cardinality({p \in Places : Replayed.place[p] # None}) \in Nat
          /\ Cardinality({r \in Registers : Replayed.reg[r] # None}) \in Nat
      BY FiniteAssumption, FS_Subset, FS_CardinalityType
    <3>2. Len(Replayed.queue) \in Nat
      BY <1>1 DEF State
    <3>3. QED
      BY <3>1, <3>2 DEF ShortestLen
  <2>2. QED
    BY <2>1 DEF Open, TypeOK
<1>4. QED
  BY <1>1, <1>2, <1>3 DEF Open, TypeOK

THEOREM TypeCorrect == Spec => []TypeOK
<1>1. TypeOK /\ [Next]_vars => TypeOK'
  <2> SUFFICES ASSUME TypeOK, [Next]_vars
               PROVE  TypeOK'
    OBVIOUS
  <2>1. CASE Next /\ ~Crash /\ ~Open
    BY <2>1, CallsRecord, RecordType
  <2>2. CASE Crash
    BY <2>2, NewStateType DEF Crash, Stopped, TypeOK
  <2>3. CASE Open
    BY <2>3, OpenType
  <2>4. CASE UNCHANGED vars
    BY <2>4 DEF vars, TypeOK
  <2>5. QED
    BY <2>1, <2>2, <2>3, <2>4
<1>2. QED
  BY <1>1, InitType, PTL DEF Spec

-----------------------------------------------------------------------------
(***************************************************************************)
(* What a line does to the counter: only the kinds that carry an id move   *)
(* it, and never down.                                                     *)
(***************************************************************************)
LEMMA LastIDAfter ==
  ASSUME NEW s \in State, NEW e \in Tails
  PROVE  Apply(s, e).lastID =
           IF e.kind \in {"queued", "lastid"} THEN MaxOf(s.lastID, e.id) ELSE s.lastID
<1>1. CASE e.kind = "queued"
  BY <1>1 DEF Apply, ApplyQueued, State
<1>2. CASE e.kind = "lastid"
  BY <1>2 DEF Apply, ApplyLastID, State
<1>3. CASE e.kind \notin {"queued", "lastid"}
  BY <1>3 DEF Apply, ApplyActive, ApplyRegister, ApplyRenamed, ApplyDone, ApplyCleared, State
<1>4. QED
  BY <1>1, <1>2, <1>3

(***************************************************************************)
(* What a line does to the queue.                                          *)
(***************************************************************************)
LEMMA QueueAfter ==
  ASSUME NEW s \in State, NEW e \in Tails
  PROVE  /\ e.kind = "queued" =>
              Apply(s, e).queue = Append(s.queue, [id |-> e.id, from |-> e.from])
         /\ e.kind = "done" => Apply(s, e).queue = DropFirst(s.queue, e.id)
         /\ e.kind = "cleared" => Apply(s, e).queue = << >>
         /\ e.kind \notin {"queued", "done", "cleared"} => Apply(s, e).queue = s.queue
<1>1. CASE e.kind = "queued"
  BY <1>1 DEF Apply, ApplyQueued, State
<1>2. CASE e.kind = "done"
  BY <1>2 DEF Apply, ApplyDone, State
<1>3. CASE e.kind = "cleared"
  BY <1>3 DEF Apply, ApplyCleared, State
<1>4. CASE e.kind \notin {"queued", "done", "cleared"}
  BY <1>4 DEF Apply, ApplyActive, ApplyRegister, ApplyRenamed, ApplyLastID, State
<1>5. QED
  BY <1>1, <1>2, <1>3, <1>4

(***************************************************************************)
(* The entries that carry an id carry a positive one.                      *)
(***************************************************************************)
LEMMA TailIds ==
  ASSUME NEW e \in Tails, e.kind \in {"queued", "lastid"}
  PROVE  e.id \in Ids
BY DEF Tails, NoTail, Part, Entry, ActiveEntry, RegisterEntry, RenamedEntry, QueuedEntry,
       DoneEntry, ClearedEntry, LastIDEntry

LEMMA QueuedItem ==
  ASSUME NEW e \in Tails, e.kind = "queued"
  PROVE  [id |-> e.id, from |-> e.from] \in Item
BY DEF Tails, NoTail, Part, Entry, ActiveEntry, RegisterEntry, RenamedEntry, QueuedEntry,
       DoneEntry, ClearedEntry, LastIDEntry, Item

(***************************************************************************)
(* A sound state stays sound under any line but a queued one whose id is   *)
(* not past the counter.                                                   *)
(***************************************************************************)
LEMMA ApplySound ==
  ASSUME NEW s \in State, Sound(s), NEW e \in Tails,
         e.kind = "queued" => s.lastID < e.id
  PROVE  Sound(Apply(s, e))
<1> DEFINE t == Apply(s, e)
<1>1. /\ t \in State /\ s.queue \in Seq(Item) /\ t.queue \in Seq(Item)
      /\ s.lastID \in Nat /\ t.lastID \in Nat
  BY ApplyType DEF State
<1>2. s.lastID <= t.lastID
  BY <1>1, LastIDAfter, TailIds DEF MaxOf, Ids
<1>3. CASE e.kind = "queued"
  <2> DEFINE it == [id |-> e.id, from |-> e.from]
  <2>1. it \in Item /\ it.id = e.id /\ e.id \in Nat
    BY <1>3, QueuedItem, TailIds DEF Ids
  <2>2. t.queue = Append(s.queue, it)
    BY <1>3, QueueAfter
  <2>3. t.lastID = e.id
    BY <1>1, <1>3, <2>1, LastIDAfter DEF MaxOf
  <2>4. /\ DOMAIN t.queue = 1 .. Len(s.queue) + 1
        /\ t.queue[Len(s.queue) + 1] = it
        /\ \A i \in 1 .. Len(s.queue) : t.queue[i] = s.queue[i]
        /\ DOMAIN s.queue = 1 .. Len(s.queue)
        /\ Len(s.queue) \in Nat
    BY <1>1, <2>1, <2>2
  <2>5. \A i \in DOMAIN s.queue : s.queue[i].id \in Nat /\ s.queue[i].id < e.id
    <3>1. \A i \in DOMAIN s.queue : s.queue[i] \in Item
      BY <1>1
    <3>2. QED
      BY <1>1, <1>3, <2>1, <3>1 DEF Sound, Item, Ids
  <2> HIDE DEF t, it
  <2>6. \A i \in DOMAIN t.queue : t.queue[i].id <= t.lastID
    <3>1. ASSUME NEW i \in DOMAIN t.queue
          PROVE  i \in 1 .. Len(s.queue) \/ i = Len(s.queue) + 1
      BY <2>4
    <3>2. ASSUME NEW i \in 1 .. Len(s.queue)
          PROVE  t.queue[i].id <= e.id
      BY <2>1, <2>4, <2>5
    <3>3. t.queue[Len(s.queue) + 1].id <= e.id
      BY <2>1, <2>4
    <3>4. QED
      BY <2>3, <3>1, <3>2, <3>3
  <2>7. Ordered(t.queue)
    <3>1. ASSUME NEW i \in DOMAIN t.queue, NEW j \in DOMAIN t.queue, i < j
          PROVE  t.queue[i].id < t.queue[j].id
      <4>1. i \in DOMAIN s.queue
        BY <2>4, <3>1
      <4>2. CASE j \in DOMAIN s.queue
        BY <1>1, <2>4, <3>1, <4>1, <4>2 DEF Ordered, Sound
      <4>3. CASE j = Len(s.queue) + 1
        BY <2>1, <2>4, <2>5, <4>1, <4>3
      <4>4. QED
        BY <2>4, <4>2, <4>3
    <3>2. QED
      BY <3>1 DEF Ordered
  <2>8. QED
    BY <2>6, <2>7 DEF Sound, t
<1>4. CASE e.kind # "queued"
  <2>1. Ordered(t.queue) /\ IdsOf(t.queue) \subseteq IdsOf(s.queue)
    <3>1. CASE e.kind = "done"
      BY <1>1, <3>1, QueueAfter, DropFirstType DEF Sound
    <3>2. CASE e.kind = "cleared"
      <4>1. t.queue = << >>
        BY <3>2, QueueAfter
      <4>2. QED
        BY <4>1, EmptyQueue
    <3>3. CASE e.kind \notin {"done", "cleared"}
      BY <1>4, <3>3, QueueAfter DEF Sound
    <3>4. QED
      BY <3>1, <3>2, <3>3
  <2>2. \A id \in IdsOf(s.queue) : id \in Nat /\ id <= s.lastID
    BY <1>1, IdsType DEF Sound, IdsOf, Ids
  <2>3. \A i \in DOMAIN t.queue : t.queue[i].id <= t.lastID
    <3>1. \A i \in DOMAIN t.queue : t.queue[i].id \in IdsOf(t.queue)
      BY DEF IdsOf
    <3> HIDE DEF t
    <3>2. QED
      BY <1>1, <1>2, <2>1, <2>2, <3>1
  <2>4. QED
    BY <2>1, <2>3 DEF Sound
<1>5. QED
  BY <1>3, <1>4

LEMMA NewStateSound == Sound(newState)
<1>1. newState.queue = << >>
  BY DEF newState
<1>2. DOMAIN newState.queue = {}
  BY <1>1
<1>3. QED
  BY <1>2 DEF Sound, Ordered

(***************************************************************************)
(* A fault of the disk is remembered.                                      *)
(***************************************************************************)
LEMMA DamageKept ==
  ASSUME TypeOK, NEW how \in {"fragment", "unsynced"}, Damaged(how)
  PROVE  /\ ~(damage' = << >>)
         /\ Synced' => Synced /\ how # "unsynced"
<1>1. /\ damage \in Seq({"fragment", "unsynced"})
      /\ damage' = Append(damage, how)
  BY DEF TypeOK, Damaged
<1>2. /\ DOMAIN damage' = 1 .. Len(damage) + 1
      /\ damage'[Len(damage) + 1] = how
      /\ \A i \in 1 .. Len(damage) : damage'[i] = damage[i]
      /\ DOMAIN damage = 1 .. Len(damage)
      /\ Len(damage) \in Nat
  BY <1>1
<1>3. damage' # << >>
  <2>1. Len(damage') = Len(damage) + 1
    BY <1>1
  <2>2. QED
    BY <1>2, <2>1
<1>4. ASSUME \A i \in DOMAIN damage' : damage'[i] # "unsynced"
      PROVE  Synced /\ how # "unsynced"
  BY <1>2, <1>4 DEF Synced
<1>5. QED
  BY <1>3, <1>4 DEF Synced

(***************************************************************************)
(* The order of the queue is kept by every call, whatever happens inside   *)
(* it: a new id passes the counter in memory, which the file's never       *)
(* passes.                                                                 *)
(***************************************************************************)
LEMMA RecordOrder ==
  ASSUME TypeOK, OrderInv, NEW e \in Entry, Record(e), Synced',
         e.kind \in {"queued", "lastid"} => e.id = mem.lastID + 1
  PROVE  OrderInv'
<1>1. /\ mem \in State /\ base \in State /\ e \in Tails /\ up
      /\ mem.lastID \in Nat /\ base.lastID \in Nat
  BY DEF TypeOK, State, Tails, Record
<1>2. Synced
  BY DamageKept DEF Record, Recorded, WriteFails, SyncFails, StopsInside, LandPart, Synced
<1>3. /\ Sound(mem) /\ Sound(base) /\ base.lastID <= mem.lastID
      /\ tail.kind = "queued" => base.lastID < tail.id
  BY <1>1, <1>2 DEF OrderInv
<1>4. e.kind = "queued" => base.lastID < e.id /\ mem.lastID < e.id
  BY <1>1, <1>3
<1>5. /\ Sound(Apply(mem, e)) /\ Sound(Apply(base, e))
      /\ Apply(base, e).lastID <= Apply(mem, e).lastID
      /\ base.lastID <= Apply(mem, e).lastID
  <2>1. Sound(Apply(mem, e)) /\ Sound(Apply(base, e))
    BY <1>1, <1>3, <1>4, ApplySound
  <2>2. CASE e.kind \in {"queued", "lastid"}
    <3>1. /\ Apply(mem, e).lastID = MaxOf(mem.lastID, e.id)
          /\ Apply(base, e).lastID = MaxOf(base.lastID, e.id)
          /\ e.id = mem.lastID + 1
      BY <1>1, <2>2, LastIDAfter
    <3>2. QED
      BY <1>1, <1>3, <2>1, <3>1 DEF MaxOf
  <2>3. CASE e.kind \notin {"queued", "lastid"}
    <3>1. Apply(mem, e).lastID = mem.lastID /\ Apply(base, e).lastID = base.lastID
      BY <1>1, <2>3, LastIDAfter
    <3>2. QED
      BY <1>1, <1>3, <2>1, <3>1
  <2>4. QED
    BY <2>2, <2>3
<1>6. Land(e) => /\ Sound(base') /\ tail' = NoTail
                 /\ base'.lastID <= Apply(mem, e).lastID
  BY <1>3, <1>5 DEF Land
<1>7. LandPart(e) => /\ Sound(base') /\ base' = base
                     /\ tail'.kind = "queued" => base'.lastID < tail'.id
  BY <1>3, <1>4 DEF LandPart, Part
<1>8. CASE Recorded(e)
  BY <1>5, <1>6, <1>8 DEF Recorded, OrderInv, NoTail
<1>9. CASE WriteFails(e)
  BY <1>3, <1>7, <1>9 DEF WriteFails, OrderInv
<1>10. CASE SyncFails(e)
  BY <1>10, DamageKept DEF SyncFails
<1>11. CASE StopsInside(e)
  BY <1>6, <1>7, <1>11, NewStateSound DEF StopsInside, Stopped, OrderInv, NoTail
<1>12. QED
  BY <1>8, <1>9, <1>10, <1>11 DEF Record

LEMMA OpenOrder ==
  ASSUME TypeOK, OrderInv, Open, Synced
  PROVE  OrderInv'
<1>1. base \in State /\ tail \in Tails /\ base.lastID \in Nat
  BY DEF TypeOK, State
<1>2. Sound(base) /\ (tail.kind = "queued" => base.lastID < tail.id)
  BY DEF OrderInv
<1>3. Sound(Replayed)
  BY <1>1, <1>2, ApplySound DEF Replayed
<1>4. Replayed.lastID \in Nat /\ base.lastID <= Replayed.lastID
  BY <1>1, ApplyType, LastIDAfter, TailIds DEF Replayed, State, MaxOf, Ids
<1>5. CASE base' = Replayed /\ tail' = NoTail
  BY <1>3, <1>4, <1>5 DEF Open, OrderInv, NoTail
<1>6. CASE UNCHANGED <<base, tail>>
  BY <1>2, <1>3, <1>4, <1>6 DEF Open, OrderInv
<1>7. QED
  BY <1>5, <1>6 DEF Open, Compacted

(***************************************************************************)
(* The inductive invariant: Spec keeps OrderInv.                           *)
(***************************************************************************)
LEMMA OrderInductive == Spec => []OrderInv
<1>1. Init => OrderInv
  BY NewStateSound DEF Init, OrderInv, NoTail
<1>2. TypeOK /\ OrderInv /\ [Next]_vars => OrderInv'
  <2> SUFFICES ASSUME TypeOK, OrderInv, [Next]_vars, Synced'
               PROVE  OrderInv'
    BY DEF OrderInv
  <2>1. CASE Next /\ ~Crash /\ ~Open
    BY <2>1, CallsRecord, RecordOrder
  <2>2. CASE Crash
    BY <2>2, NewStateSound DEF Crash, Stopped, OrderInv, Synced
  <2>3. CASE Open
    <3>1. Synced
      BY <2>3 DEF Open, Synced
    <3>2. QED
      BY <2>3, <3>1, OpenOrder
  <2>4. CASE UNCHANGED vars
    BY <2>4 DEF vars, OrderInv, Synced, Sound, Ordered
  <2>5. QED
    BY <2>1, <2>2, <2>3, <2>4
<1>3. QED
  BY <1>1, <1>2, TypeCorrect, PTL DEF Spec

(***************************************************************************)
(* The queue a person sees, and the one a restart would read, is in the    *)
(* order its ids were taken, for every number of senders, places and       *)
(* faults, so long as no line was left behind by a failed Sync.            *)
(***************************************************************************)
THEOREM QueueInOrder == Spec => []QueueOrdered
<1>1. TypeOK /\ OrderInv => QueueOrdered
  <2> SUFFICES ASSUME TypeOK, OrderInv, Synced
               PROVE  Ordered(mem.queue) /\ Ordered(Replayed.queue)
    BY DEF QueueOrdered
  <2>1. base \in State /\ tail \in Tails
    BY DEF TypeOK
  <2>2. Sound(Replayed)
    BY <2>1, ApplySound DEF OrderInv, Replayed
  <2>3. QED
    BY <2>2 DEF OrderInv, Sound
<1>2. QED
  BY <1>1, TypeCorrect, OrderInductive, PTL

-----------------------------------------------------------------------------
(***************************************************************************)
(* A line takes no id back onto the queue but the one it queues.           *)
(***************************************************************************)
LEMMA IdsAfter ==
  ASSUME NEW s \in State, NEW e \in Tails
  PROVE  IdsOf(Apply(s, e).queue) \subseteq
           IdsOf(s.queue) \cup (IF e.kind = "queued" THEN {e.id} ELSE {})
<1>1. s.queue \in Seq(Item)
  BY DEF State
<1>2. CASE e.kind = "queued"
  <2> DEFINE it == [id |-> e.id, from |-> e.from]
             q  == Append(s.queue, it)
  <2>1. it \in Item /\ it.id = e.id
    BY <1>2, QueuedItem
  <2> HIDE DEF it
  <2>2. \A i \in DOMAIN q : q[i] = it \/ \E j \in DOMAIN s.queue : q[i] = s.queue[j]
    BY <1>1, <2>1
  <2>3. IdsOf(q) \subseteq IdsOf(s.queue) \cup {e.id}
    BY <2>1, <2>2 DEF IdsOf
  <2>4. QED
    BY <1>2, <2>3, QueueAfter DEF it
<1>3. CASE e.kind = "done"
  BY <1>1, <1>3, QueueAfter, DropFirstType
<1>4. CASE e.kind = "cleared"
  BY <1>4, QueueAfter, EmptyQueue
<1>5. CASE e.kind \notin {"queued", "done", "cleared"}
  BY <1>5, QueueAfter
<1>6. QED
  BY <1>2, <1>3, <1>4, <1>5

(***************************************************************************)
(* The parts of WholeInv about what callers were told, for the file's      *)
(* state s.                                                                *)
(***************************************************************************)
LEMMA SpentKept ==
  ASSUME NEW s \in State, NEW e \in Tails, NEW id \in Ids,
         id <= s.lastID, id \notin IdsOf(s.queue),
         e.kind = "queued" => s.lastID < e.id
  PROVE  id <= Apply(s, e).lastID /\ id \notin IdsOf(Apply(s, e).queue)
<1>1. s.lastID \in Nat /\ Apply(s, e).lastID \in Nat /\ s.lastID <= Apply(s, e).lastID
  BY ApplyType, LastIDAfter, TailIds DEF State, MaxOf, Ids
<1>2. e.kind = "queued" => e.id # id
  BY <1>1, TailIds DEF Ids
<1>3. QED
  BY <1>1, <1>2, IdsAfter DEF Ids

(***************************************************************************)
(* An answered call: the id it gave is new, and what it finished is gone.  *)
(***************************************************************************)
LEMMA AnswerWhole ==
  ASSUME TypeOK, Whole, OrderInv, WholeInv, NEW e \in Entry, up, Recorded(e),
         e.kind \in {"queued", "lastid"} => e.id = mem.lastID + 1
  PROVE  WholeInv'
<1>1. /\ tail = NoTail /\ mem = base /\ base \in State /\ e \in Tails
      /\ base.lastID \in Nat /\ base.queue \in Seq(Item)
      /\ base' = Apply(base, e) /\ tail' = NoTail /\ mem' = base' /\ up'
  BY DEF WholeInv, TypeOK, State, Tails, Recorded, Land
<1>2. Sound(base)
  BY DEF OrderInv, Whole, Synced
<1>3. base'.lastID \in Nat /\ base.lastID <= base'.lastID
  BY <1>1, ApplyType, LastIDAfter, TailIds DEF State, MaxOf, Ids
<1>4. e.kind = "queued" => base.lastID < e.id
  BY <1>1
<1>5. /\ \A i \in DOMAIN given' : given'[i] <= base'.lastID
      /\ \A i, j \in DOMAIN given' : i < j => given'[i] < given'[j]
  <2>1. /\ given \in Seq(Ids)
        /\ \A i \in DOMAIN given : given[i] \in Ids /\ given[i] <= base.lastID
        /\ \A i, j \in DOMAIN given : i < j => given[i] < given[j]
    BY DEF TypeOK, WholeInv
  <2>2. CASE e.kind \in {"queued", "lastid"}
    <3>1. e.id \in Ids /\ e.id = base.lastID + 1 /\ given' = Append(given, e.id)
      BY <1>1, <2>2, TailIds DEF Recorded, Answered
    <3>2. base'.lastID = e.id
      <4>1. base'.lastID = MaxOf(base.lastID, e.id)
        BY <1>1, <2>2, LastIDAfter
      <4>2. QED
        BY <1>1, <3>1, <4>1 DEF MaxOf
    <3>3. /\ DOMAIN given = 1 .. Len(given) /\ Len(given) \in Nat
          /\ DOMAIN given' = 1 .. Len(given) + 1
          /\ given'[Len(given) + 1] = e.id
          /\ \A i \in 1 .. Len(given) : given'[i] = given[i]
      BY <2>1, <3>1
    <3>4. \A i \in DOMAIN given : given[i] \in Nat /\ given[i] < e.id
      BY <1>1, <2>1, <3>1 DEF Ids
    <3>5. \A i \in DOMAIN given' : given'[i] <= base'.lastID
      BY <1>1, <3>1, <3>2, <3>3, <3>4
    <3>6. \A i, j \in DOMAIN given' : i < j => given'[i] < given'[j]
      BY <2>1, <3>3, <3>4
    <3>7. QED
      BY <3>5, <3>6
  <2>3. CASE e.kind \notin {"queued", "lastid"}
    <3>1. given' = given
      BY <2>3 DEF Recorded, Answered
    <3>2. QED
      BY <1>1, <1>3, <2>1, <3>1 DEF Ids
  <2>4. QED
    BY <2>2, <2>3
<1>6. ASSUME NEW id \in finished'
      PROVE  id <= base'.lastID /\ id \notin IdsOf(base'.queue)
  <2>1. CASE id \in finished
    <3>1. id \in Ids /\ id <= base.lastID /\ id \notin IdsOf(base.queue)
      BY <2>1 DEF TypeOK, WholeInv, Whole
    <3>2. QED
      BY <1>1, <1>4, <3>1, SpentKept
  <2>2. CASE id \notin finished
    <3>1. /\ id \in IdsOf(base.queue)
          /\ (e.kind = "done" /\ id = e.id) \/ e.kind = "cleared"
      BY <1>1, <1>6, <2>2 DEF Recorded, Answered
    <3>2. id \in Nat /\ id <= base.lastID
      BY <1>1, <1>2, <3>1, IdsType DEF Sound, IdsOf, Ids
    <3>3. id \notin IdsOf(base'.queue)
      <4>1. CASE e.kind = "done" /\ id = e.id
        BY <1>1, <1>2, <4>1, QueueAfter, DropFirstRemoves DEF Sound
      <4>2. CASE e.kind = "cleared"
        BY <1>1, <4>2, QueueAfter, EmptyQueue
      <4>3. QED
        BY <3>1, <4>1, <4>2
    <3>4. QED
      BY <1>1, <1>3, <3>2, <3>3
  <2>3. QED
    BY <2>1, <2>2
<1>7. QED
  BY <1>1, <1>5, <1>6 DEF WholeInv

(***************************************************************************)
(* A process stopped inside a call may leave the whole line: the file then *)
(* knows more than any caller was told, and nothing a caller was told is   *)
(* undone.                                                                 *)
(***************************************************************************)
LEMMA StopWhole ==
  ASSUME TypeOK, Whole, OrderInv, WholeInv, NEW e \in Entry, up,
         Stopped, Unanswered, Land(e),
         e.kind \in {"queued", "lastid"} => e.id = mem.lastID + 1
  PROVE  WholeInv'
<1>1. /\ tail = NoTail /\ mem = base /\ base \in State /\ e \in Tails
      /\ base.lastID \in Nat
      /\ base' = Apply(base, e) /\ tail' = NoTail
      /\ given' = given /\ finished' = finished /\ ~up' /\ mem' = newState
  BY DEF WholeInv, TypeOK, State, Tails, Land, Stopped, Unanswered
<1>2. base'.lastID \in Nat /\ base.lastID <= base'.lastID
  BY <1>1, ApplyType, LastIDAfter, TailIds DEF State, MaxOf, Ids
<1>3. \A i \in DOMAIN given : given[i] \in Ids /\ given[i] <= base.lastID
  BY DEF TypeOK, WholeInv
<1>4. \A i \in DOMAIN given : given[i] <= base'.lastID
  BY <1>1, <1>2, <1>3 DEF Ids
<1>5. ASSUME NEW id \in finished
      PROVE  id <= base'.lastID /\ id \notin IdsOf(base'.queue)
  <2>1. id \in Ids /\ id <= base.lastID /\ id \notin IdsOf(base.queue)
    BY <1>5 DEF TypeOK, WholeInv, Whole
  <2>2. QED
    BY <1>1, <2>1, SpentKept
<1>6. QED
  BY <1>1, <1>4, <1>5 DEF WholeInv

(***************************************************************************)
(* The inductive invariant: Spec keeps WholeInv.                           *)
(***************************************************************************)
LEMMA WholeInductive == Spec => []WholeInv
<1>1. Init => WholeInv
  <2> SUFFICES ASSUME Init
               PROVE  WholeInv
    OBVIOUS
  <2>1. DOMAIN given = {}
    BY DEF Init
  <2>2. QED
    BY <2>1 DEF Init, WholeInv
<1>2. TypeOK /\ OrderInv /\ WholeInv /\ [Next]_vars => WholeInv'
  <2> SUFFICES ASSUME TypeOK, OrderInv, WholeInv, [Next]_vars, Whole'
               PROVE  WholeInv'
    BY DEF WholeInv
  <2>1. CASE Next /\ ~Crash /\ ~Open
    <3>1. PICK e \in Entry :
            /\ Record(e)
            /\ e.kind \in {"queued", "lastid"} => e.id = mem.lastID + 1
      BY <2>1, CallsRecord
    <3>2. CASE Recorded(e)
      <4>1. Whole /\ up
        BY <3>1, <3>2 DEF Recorded, Record, Whole
      <4>2. QED
        BY <3>1, <3>2, <4>1, AnswerWhole
    <3>3. CASE StopsInside(e) /\ Land(e) /\ UNCHANGED damage
      <4>1. Whole /\ up /\ Stopped /\ Unanswered
        BY <3>1, <3>3 DEF StopsInside, Record, Whole
      <4>2. QED
        BY <3>1, <3>3, <4>1, StopWhole
    <3>4. CASE LandPart(e) \/ SyncFails(e)
      <4>1. ~(damage' = << >>)
        BY <3>4, DamageKept DEF LandPart, SyncFails
      <4>2. QED
        BY <4>1 DEF Whole
    <3>5. QED
      BY <3>1, <3>2, <3>3, <3>4 DEF Record, WriteFails, StopsInside
  <2>2. CASE Crash
    BY <2>2 DEF Crash, Stopped, WholeInv, Whole
  <2>3. CASE Open
    <3>1. Whole /\ tail = NoTail
      BY <2>3 DEF Open, Whole, WholeInv
    <3>2. Replayed = base
      BY <3>1 DEF Replayed, Apply, NoTail
    <3>3. QED
      BY <2>3, <3>1, <3>2 DEF Open, Compacted, WholeInv, Whole
  <2>4. CASE UNCHANGED vars
    BY <2>4 DEF vars, WholeInv, Whole
  <2>5. QED
    BY <2>1, <2>2, <2>3, <2>4
<1>3. QED
  BY <1>1, <1>2, TypeCorrect, OrderInductive, PTL DEF Spec

(***************************************************************************)
(* A restart finds what callers were told, wherever the process stops.     *)
(***************************************************************************)
THEOREM RestartIsFaithful == Spec => []RestartForgetsNothing
<1>1. WholeInv => RestartForgetsNothing
  BY DEF WholeInv, RestartForgetsNothing, Replayed, Apply, NoTail
<1>2. QED
  BY <1>1, WholeInductive, PTL

(***************************************************************************)
(* What was finished is not waiting again after any number of restarts.    *)
(***************************************************************************)
THEOREM FinishedForGood == Spec => []FinishedStaysFinished
<1>1. TypeOK /\ WholeInv => FinishedStaysFinished
  <2> SUFFICES ASSUME TypeOK, WholeInv, Whole
               PROVE  finished \cap (IdsOf(mem.queue) \cup IdsOf(Replayed.queue)) = {}
    BY DEF FinishedStaysFinished
  <2>1. Replayed = base
    BY DEF WholeInv, Replayed, Apply, NoTail
  <2>2. finished \cap IdsOf(base.queue) = {} /\ IdsOf(newState.queue) = {}
    BY EmptyQueue DEF WholeInv, newState
  <2>3. QED
    BY <2>1, <2>2 DEF WholeInv
<1>2. QED
  BY <1>1, TypeCorrect, WholeInductive, PTL

(***************************************************************************)
(* No two callers were ever given one id, across any number of restarts,   *)
(* while no line was only partly written.                                  *)
(***************************************************************************)
THEOREM IdsNeverRepeat == Spec => []IdGivenOnceWhileWhole
<1>1. TypeOK /\ WholeInv => IdGivenOnceWhileWhole
  <2> SUFFICES ASSUME TypeOK, WholeInv, Whole,
                      NEW i \in DOMAIN given, NEW j \in DOMAIN given, given[i] = given[j]
               PROVE  i = j
    BY DEF IdGivenOnceWhileWhole, GivenOnce
  <2>1. i \in Int /\ j \in Int /\ given[i] \in Nat /\ given[j] \in Nat
    BY DEF TypeOK, Ids
  <2>2. ~(i < j) /\ ~(j < i)
    BY <2>1 DEF WholeInv
  <2>3. QED
    BY <2>1, <2>2
<1>2. QED
  BY <1>1, TypeCorrect, WholeInductive, PTL

-----------------------------------------------------------------------------
(***************************************************************************)
(* A line keeps the shares, if a queued one has asked for room.            *)
(***************************************************************************)
LEMMA ApplyShares ==
  ASSUME NEW s \in State, Shares(s.queue), NEW e \in Entry,
         e.kind = "queued" => RoomFor(s.queue, e.from)
  PROVE  Shares(Apply(s, e).queue)
<1>1. s.queue \in Seq(Item) /\ e \in Tails
  BY DEF State, Tails
<1>2. CASE e.kind = "queued"
  <2> DEFINE x == [id |-> e.id, from |-> e.from]
  <2>1. x \in Item /\ Apply(s, e).queue = Append(s.queue, x)
    BY <1>1, <1>2, QueuedItem, QueueAfter
  <2>2. Shares(Append(s.queue, x))
    BY <1>1, <1>2, <2>1, SharesAppend
  <2>3. QED
    BY <2>1, <2>2
<1>3. CASE e.kind = "done"
  <2>1. Apply(s, e).queue = DropFirst(s.queue, e.id)
    BY <1>1, <1>3, QueueAfter
  <2>2. QED
    BY <1>1, <2>1, SharesDrop
<1>4. CASE e.kind = "cleared"
  <2>1. Apply(s, e).queue = << >>
    BY <1>1, <1>4, QueueAfter
  <2>2. QED
    BY <2>1, EmptyShares
<1>5. CASE e.kind \notin {"queued", "done", "cleared"}
  BY <1>1, <1>5, QueueAfter
<1>6. QED
  BY <1>2, <1>3, <1>4, <1>5

(***************************************************************************)
(* The bounds hold of the queue after any calls, crashes, restarts and     *)
(* compactions, not only of the call that asks for room.                   *)
(***************************************************************************)
LEMMA SharesInductive == Spec => []SharesInv
<1>1. Init => SharesInv
  BY EmptyShares DEF Init, newState, SharesInv
<1>2. TypeOK /\ WholeInv /\ SharesInv /\ [Next]_vars => SharesInv'
  <2> SUFFICES ASSUME TypeOK, WholeInv, SharesInv, [Next]_vars, Whole'
               PROVE  Shares(base'.queue)
    BY DEF SharesInv, Shares
  <2>1. CASE Next /\ ~Crash /\ ~Open
    <3>1. PICK e \in Entry :
            /\ Record(e)
            /\ e.kind = "queued" => RoomFor(mem.queue, e.from)
      BY <2>1, CallsRecord
    <3>2. CASE Land(e) /\ UNCHANGED damage
      <4>1. Whole /\ tail = NoTail /\ mem = base /\ base' = Apply(base, e)
        BY <3>1, <3>2 DEF Land, Whole, WholeInv, Record
      <4>2. QED
        BY <3>1, <4>1, ApplyShares DEF TypeOK, SharesInv
    <3>3. CASE LandPart(e) \/ SyncFails(e)
      <4>1. ~(damage' = << >>)
        BY <3>3, DamageKept DEF LandPart, SyncFails
      <4>2. QED
        BY <4>1 DEF Whole
    <3>4. QED
      BY <3>1, <3>2, <3>3 DEF Record, Recorded, WriteFails, StopsInside
  <2>2. CASE Crash
    BY <2>2 DEF Crash, SharesInv, Whole
  <2>3. CASE Open
    <3>1. Whole /\ Replayed = base
      BY <2>3 DEF Open, Whole, WholeInv, Replayed, Apply, NoTail
    <3>2. QED
      BY <2>3, <3>1 DEF Open, Compacted, SharesInv
  <2>4. CASE UNCHANGED vars
    BY <2>4 DEF vars, SharesInv, Whole
  <2>5. QED
    BY <2>1, <2>2, <2>3, <2>4
<1>3. QED
  BY <1>1, <1>2, TypeCorrect, WholeInductive, PTL DEF Spec

(***************************************************************************)
(* One sender never holds more than its share of what a person sees, and   *)
(* senders together never the reserved places.                             *)
(***************************************************************************)
THEOREM SharesKept == Spec => []QueueShares
<1>1. WholeInv /\ SharesInv => QueueShares
  <2>1. Shares(newState.queue)
    BY EmptyShares DEF newState
  <2>2. QED
    BY <2>1 DEF WholeInv, SharesInv, QueueShares
<1>2. QED
  BY <1>1, WholeInductive, SharesInductive, PTL
=============================================================================
