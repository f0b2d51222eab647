--------------------------- MODULE JournalEntries ---------------------------
(***************************************************************************)
(* The lines of zde's journal and what replaying one does to the state     *)
(* (internal/journal: entry, State, apply, roomFor).  Shared by Journal,   *)
(* which keeps the file as what a replay of it yields, and by JournalFile, *)
(* which keeps it line by line.                                            *)
(*                                                                         *)
(* Data that no property tells apart is abstract.  A place is a desk and   *)
(* monitor pair; the last-value-wins kinds (lastdesk, ondesk, mode,        *)
(* borrowed, zen) are registers; a queued item is its id and its sender,   *)
(* its text, desk and badges being payload nothing here reads.             *)
(***************************************************************************)
EXTENDS Integers, Sequences, FiniteSets

CONSTANTS
  Places,        \* desk and monitor pairs whose active slot is remembered
  Slots,         \* workspace slots
  Registers,     \* the last-value-wins kinds of line
  Values,        \* what a register can hold besides nothing
  Apps,          \* sender names the bus can produce
  Ours,          \* the names it cannot: a person's "" and "zde" itself
  None,          \* nothing remembered, nothing held
  QueueMax,      \* places on the queue
  PerSenderMax,  \* places one sender may hold
  Reserved       \* places nothing off the bus can hold

ASSUME FiniteAssumption == IsFiniteSet(Places) /\ IsFiniteSet(Registers)
ASSUME NoneAssumption == None \notin Slots \cup Values
ASSUME NamesAssumption == Apps \cap Ours = {}
ASSUME BoundsAssumption ==
  /\ QueueMax \in Nat /\ PerSenderMax \in Nat /\ Reserved \in Nat
  /\ Reserved <= QueueMax

Senders == Apps \cup Ours
Ids == Nat \ {0}

Item == [id : Ids, from : Senders]

(***************************************************************************)
(* State and lastID of the Journal struct: what a replay builds.           *)
(***************************************************************************)
State == [ place  : [Places -> Slots \cup {None}],
           reg    : [Registers -> Values \cup {None}],
           queue  : Seq(Item),
           lastID : Nat ]

newState == [ place  |-> [p \in Places |-> None],
              reg    |-> [r \in Registers |-> None],
              queue  |-> << >>,
              lastID |-> 0 ]

(***************************************************************************)
(* entry: one line of the file, by kind.                                   *)
(***************************************************************************)
ActiveEntry   == [kind : {"active"}, place : Places, slot : Slots]
RegisterEntry == [kind : {"register"}, reg : Registers, value : Values \cup {None}]
RenamedEntry  == [kind : {"renamed"}, from : Places, slot : Slots,
                  to : Places, toSlot : Slots]
QueuedEntry   == [kind : {"queued"}, id : Ids, from : Senders]
DoneEntry     == [kind : {"done"}, id : Nat]
ClearedEntry  == [kind : {"cleared"}]
LastIDEntry   == [kind : {"lastid"}, id : Ids]

Entry == ActiveEntry \cup RegisterEntry \cup RenamedEntry \cup QueuedEntry
           \cup DoneEntry \cup ClearedEntry \cup LastIDEntry

-----------------------------------------------------------------------------
(***************************************************************************)
(* apply, kind by kind.                                                    *)
(***************************************************************************)
MaxOf(a, b) == IF a > b THEN a ELSE b

IdsOf(q) == {q[i].id : i \in DOMAIN q}

\* q without its i-th item
WithoutAt(q, i) == [j \in 1 .. Len(q) - 1 |-> IF j < i THEN q[j] ELSE q[j + 1]]

\* the first item numbered id goes, and only that one
FirstAt(q, id, i) == /\ i \in DOMAIN q
                     /\ q[i].id = id
                     /\ \A j \in DOMAIN q : j < i => q[j].id # id

DropFirst(q, id) == IF id \in IdsOf(q)
                      THEN WithoutAt(q, CHOOSE i \in DOMAIN q : FirstAt(q, id, i))
                      ELSE q

ApplyActive(s, e)   == [s EXCEPT !.place[e.place] = e.slot]
ApplyRegister(s, e) == [s EXCEPT !.reg[e.reg] = e.value]
ApplyLastID(s, e)   == [s EXCEPT !.lastID = MaxOf(@, e.id)]
ApplyDone(s, e)     == [s EXCEPT !.queue = DropFirst(@, e.id)]
ApplyCleared(s)     == [s EXCEPT !.queue = << >>]

ApplyQueued(s, e) ==
  [s EXCEPT !.queue = Append(@, [id |-> e.id, from |-> e.from]),
            !.lastID = MaxOf(@, e.id)]

\* a rename moves the remembered position only when it renames the remembered slot
ApplyRenamed(s, e) ==
  IF s.place[e.from] = e.slot
    THEN [s EXCEPT !.place = [[@ EXCEPT ![e.from] = None] EXCEPT ![e.to] = e.toSlot]]
    ELSE s

Apply(s, e) ==
  CASE e.kind = "active"   -> ApplyActive(s, e)
    [] e.kind = "register" -> ApplyRegister(s, e)
    [] e.kind = "renamed"  -> ApplyRenamed(s, e)
    [] e.kind = "queued"   -> ApplyQueued(s, e)
    [] e.kind = "done"     -> ApplyDone(s, e)
    [] e.kind = "cleared"  -> ApplyCleared(s)
    [] e.kind = "lastid"   -> ApplyLastID(s, e)
    [] OTHER               -> s

-----------------------------------------------------------------------------
(***************************************************************************)
(* roomFor: the three bounds on the queue.                                 *)
(***************************************************************************)
HeldBy(q, names) == Cardinality({i \in DOMAIN q : q[i].from \in names})

RoomFor(q, from) ==
  /\ Len(q) < QueueMax
  /\ \/ from \in Ours
     \/ /\ HeldBy(q, {from}) < PerSenderMax
        /\ HeldBy(q, Apps) < QueueMax - Reserved

-----------------------------------------------------------------------------
(***************************************************************************)
(* What the properties of the queue ask of it.                             *)
(***************************************************************************)
Ordered(q) == \A i, j \in DOMAIN q : i < j => q[i].id < q[j].id

Shares(q) ==
  /\ Len(q) <= QueueMax
  /\ \A f \in Apps : HeldBy(q, {f}) <= PerSenderMax
  /\ HeldBy(q, Apps) <= QueueMax - Reserved
=============================================================================
