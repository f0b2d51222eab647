------------------------------ MODULE Journal ------------------------------
(***************************************************************************)
(* The journal (internal/journal): an append-only file replayed at Open,   *)
(* one line and one fsync per call, under one mutex.                       *)
(*                                                                         *)
(* The file is only ever read whole, by a replay, so it is kept here as    *)
(* what a replay yields: base is the state its terminated lines build,     *)
(* entries how many of them parse, and tail what follows the last newline. *)
(* JournalFile keeps the lines themselves and implements this module.      *)
(*                                                                         *)
(* The mutex is held from the first read of lastID to the end of the       *)
(* fsync, so a call is one step; what can fall inside it is a failure or   *)
(* the end of the process, and each of those is an outcome of that step.   *)
(***************************************************************************)
EXTENDS JournalEntries

CONSTANTS
  CompactAt,   \* a replay longer than this is rewritten (compactAt)
  Faults,      \* the faults of the disk this instance allows
  MaxFaults,   \* bound: faults of the disk in one behaviour
  MaxId,       \* bound: ids handed out
  MaxEntries   \* bound: terminated lines in the file

ASSUME FaultsAssumption ==
  Faults \subseteq {"short_write", "failed_sync", "torn_crash"}
ASSUME CompactAtAssumption == CompactAt \in Nat
ASSUME LimitsAssumption == MaxFaults \in Nat /\ MaxId \in Nat /\ MaxEntries \in Nat

VARIABLES
  up,        \* a process has the journal open
  mem,       \* its state and lastID; newState while no process has it open
  base,      \* what the terminated lines of the file replay to
  tail,      \* what follows the last newline: nothing, a fragment, or a whole entry
  entries,   \* terminated lines that parse
  given,     \* history: the ids handed to callers, in order
  finished,  \* history: the ids of waiting items a caller was told are done
  damage     \* history: the faults of the disk so far, in order

vars == <<up, mem, base, tail, entries, given, finished, damage>>

NoTail == [kind |-> "none"]   \* the file ends in a newline
Part   == [kind |-> "part"]   \* it ends in a fragment that does not parse
Tails  == {NoTail, Part} \cup Entry

\* what Open builds: replay reads an unterminated last line as a line
Replayed == Apply(base, tail)

\* the lines compactLocked writes for a state
ShortestLen(s) ==
  Cardinality({p \in Places : s.place[p] # None})
    + Cardinality({r \in Registers : s.reg[r] # None})
    + Len(s.queue)
    + (IF s.lastID # 0 THEN 1 ELSE 0)

-----------------------------------------------------------------------------
(***************************************************************************)
(* What one write can do to the file.  O_APPEND puts the bytes after       *)
(* whatever is there: after a fragment they end its line, and a fragment   *)
(* joined to an entry parses as neither.                                   *)
(***************************************************************************)
Land(e) ==
  /\ tail' = NoTail
  /\ \/ /\ tail = NoTail
        /\ base' = Apply(base, e)
        /\ entries' = entries + 1
     \/ /\ tail # NoTail
        /\ UNCHANGED <<base, entries>>

Damaged(how) == /\ Len(damage) < MaxFaults
                /\ damage' = Append(damage, how)

\* a write cut short: some of the line, or all of it but the newline
LandPart(e) ==
  /\ \/ tail = NoTail /\ tail' \in {Part, e}
     \/ tail # NoTail /\ tail' = Part
  /\ Damaged("fragment")
  /\ UNCHANGED <<base, entries>>

Stopped == up' = FALSE /\ mem' = newState

\* the call returned without an error: its id is the caller's, its item is done
Answered(e) ==
  /\ given' = IF e.kind \in {"queued", "lastid"} THEN Append(given, e.id) ELSE given
  /\ finished' = CASE e.kind = "done"    -> finished \cup ({e.id} \cap IdsOf(mem.queue))
                   [] e.kind = "cleared" -> finished \cup IdsOf(mem.queue)
                   [] OTHER              -> finished

Unanswered == UNCHANGED <<given, finished>>

\* Write and Sync both succeed, and only then is the entry applied
Recorded(e) ==
  /\ Land(e)
  /\ mem' = Apply(mem, e)
  /\ Answered(e)
  /\ UNCHANGED <<up, damage>>

\* Write returns an error after some of the line (none of it: nothing happened)
WriteFails(e) ==
  /\ "short_write" \in Faults
  /\ LandPart(e)
  /\ UNCHANGED <<up, mem>>
  /\ Unanswered

\* the line is in the file and Sync returns an error: it is not applied
SyncFails(e) ==
  /\ "failed_sync" \in Faults
  /\ Land(e)
  /\ Damaged("unsynced")
  /\ UNCHANGED <<up, mem>>
  /\ Unanswered

\* the process or the machine stops inside the call, before its answer is heard
StopsInside(e) ==
  /\ Stopped
  /\ Unanswered
  /\ \/ Land(e) /\ UNCHANGED damage
     \/ "torn_crash" \in Faults /\ LandPart(e)

\* recordLocked
Record(e) ==
  /\ up
  /\ entries < MaxEntries
  /\ Recorded(e) \/ WriteFails(e) \/ SyncFails(e) \/ StopsInside(e)

-----------------------------------------------------------------------------
(***************************************************************************)
(* The calls.                                                              *)
(***************************************************************************)
SetActive(p, s) == Record([kind |-> "active", place |-> p, slot |-> s])

\* SetLastDesk, SetOnDesk, SetMode, SetBorrowed and SetZen: the zero value is
\* written down like any other
SetRegister(r, v) == Record([kind |-> "register", reg |-> r, value |-> v])

Renamed(p, s, q, t) ==
  /\ <<p, s>> # <<q, t>>
  /\ Record([kind |-> "renamed", from |-> p, slot |-> s, to |-> q, toSlot |-> t])

\* mutant: numbered from the length of the queue
QueueByLength(f) ==
  /\ RoomFor(mem.queue, f)
  /\ mem.lastID < MaxId
  /\ Record([kind |-> "queued", id |-> Len(mem.queue) + 1, from |-> f])

\* mutant: the shares are not asked
QueueUnshared(f) ==
  /\ Len(mem.queue) < QueueMax
  /\ mem.lastID < MaxId
  /\ Record([kind |-> "queued", id |-> mem.lastID + 1, from |-> f])

\* mutant: the item is given the last id, and not the next
QueueLastID(f) ==
  /\ RoomFor(mem.queue, f)
  /\ mem.lastID < MaxId
  /\ Record([kind |-> "queued", id |-> mem.lastID, from |-> f])

Queue(f) ==
  /\ RoomFor(mem.queue, f)
  /\ mem.lastID < MaxId
  /\ Record([kind |-> "queued", id |-> mem.lastID + 1, from |-> f])

ClaimID ==
  /\ mem.lastID < MaxId
  /\ Record([kind |-> "lastid", id |-> mem.lastID + 1])

Done(id) == Record([kind |-> "done", id |-> id])

\* mutant: the queue is emptied in memory and no line says so
ClearUnwritten ==
  /\ up
  /\ mem.queue # << >>
  /\ mem' = ApplyCleared(mem)
  /\ Answered([kind |-> "cleared"])
  /\ UNCHANGED <<up, base, tail, entries, damage>>

Clear ==
  /\ mem.queue # << >>
  /\ Record([kind |-> "cleared"])

Crash ==
  /\ up
  /\ Stopped
  /\ UNCHANGED <<base, tail, entries, given, finished, damage>>

\* mutant: compaction leaves out the counter, as if the queue said what it was
CompactUncounted(s) ==
  [s EXCEPT !.lastID = IF s.queue = << >> THEN 0 ELSE s.queue[Len(s.queue)].id]

\* compactLocked, as a replay of the file it leaves reads it (JournalFile has the lines)
Compacted(s) == s

\* replay, and compaction when it was long
Open ==
  /\ ~up
  /\ up' = TRUE
  /\ mem' = Replayed
  /\ LET replayed == entries + (IF tail \in Entry THEN 1 ELSE 0)
     IN  IF replayed > CompactAt
           THEN /\ base' = Compacted(Replayed)
                /\ tail' = NoTail
                /\ entries' = ShortestLen(Replayed)
           ELSE UNCHANGED <<base, tail, entries>>
  /\ UNCHANGED <<given, finished, damage>>

Init ==
  /\ up = FALSE
  /\ mem = newState
  /\ base = newState
  /\ tail = NoTail
  /\ entries = 0
  /\ given = << >>
  /\ finished = {}
  /\ damage = << >>

Next ==
  \/ \E p \in Places, s \in Slots : SetActive(p, s)
  \/ \E r \in Registers, v \in Values \cup {None} : SetRegister(r, v)
  \/ \E p, q \in Places, s, t \in Slots : Renamed(p, s, q, t)
  \/ \E f \in Senders : Queue(f)
  \/ ClaimID
  \/ \E id \in 1 .. MaxId : Done(id)
  \/ Clear
  \/ Crash
  \/ Open

Spec == Init /\ [][Next]_vars

-----------------------------------------------------------------------------
TypeOK ==
  /\ up \in BOOLEAN
  /\ mem \in State /\ base \in State
  /\ tail \in Tails
  /\ entries \in Nat
  /\ given \in Seq(Ids)
  /\ finished \subseteq Ids
  /\ damage \in Seq({"fragment", "unsynced"})

\* no line of the file was ever only partly written, or written and not synced
Whole == damage = << >>

Synced == \A i \in DOMAIN damage : damage[i] # "unsynced"

(***************************************************************************)
(* The queue is in the order its ids were taken, so no two items share an  *)
(* id and finishing one cannot finish the other: in memory, and in what a  *)
(* restart would read (Queue takes lastID + 1, replay carries the highest, *)
(* compaction keeps order and counter).  Tears do not break it; a line     *)
(* whose Sync failed does, because its id is taken again.                  *)
(***************************************************************************)
QueueOrdered ==
  Synced => Ordered(mem.queue) /\ Ordered(Replayed.queue)

(***************************************************************************)
(* What callers were told is what a restart finds, whenever the process    *)
(* stops: recordLocked applies only what is in the file, and compaction    *)
(* changes nothing.  Unless some line was only partly written or synced.   *)
(***************************************************************************)
RestartForgetsNothing == up /\ Whole => Replayed = mem

(***************************************************************************)
(* An item a caller was told is done, or that Clear answered for, is not   *)
(* waiting again after any number of restarts and compactions.             *)
(***************************************************************************)
FinishedStaysFinished ==
  Whole => finished \cap (IdsOf(mem.queue) \cup IdsOf(Replayed.queue)) = {}

GivenOnce == \A i, j \in DOMAIN given : given[i] = given[j] => i = j

(***************************************************************************)
(* "Ids come from the journal and never repeat within its life, including  *)
(* across a restart" (Queue, ClaimID): true of a file never partly written.*)
(***************************************************************************)
IdGivenOnceWhileWhole == Whole => GivenOnce

(***************************************************************************)
(* The same promise with no condition on the disk.                         *)
(***************************************************************************)
IdGivenOnce == GivenOnce

(***************************************************************************)
(* roomFor's shares hold of the queue and not only of the call: one sender *)
(* never holds more than its share, the senders together never reach the   *)
(* reserved places, and so a person is refused only behind items of their  *)
(* own or the desktop's.                                                   *)
(***************************************************************************)
QueueShares == Whole => Shares(mem.queue)

-----------------------------------------------------------------------------
(***************************************************************************)
(* What the properties above need to be kept step by step (JournalProofs). *)
(***************************************************************************)
Sound(s) ==
  /\ Ordered(s.queue)
  /\ \A i \in DOMAIN s.queue : s.queue[i].id <= s.lastID

\* the file's counter never passes the one in memory, so an id is new to both
OrderInv ==
  Synced =>
    /\ Sound(mem) /\ Sound(base)
    /\ up => base.lastID <= mem.lastID
    /\ tail.kind = "queued" => base.lastID < tail.id

\* while the file is whole it is the memory, and its counter bounds every id spent
WholeInv ==
  Whole =>
    /\ tail = NoTail
    /\ mem = IF up THEN base ELSE newState
    /\ \A i \in DOMAIN given : given[i] <= base.lastID
    /\ \A i, j \in DOMAIN given : i < j => given[i] < given[j]
    /\ \A id \in finished : id <= base.lastID /\ id \notin IdsOf(base.queue)

\* the shares hold of the file's queue, which a process that opens it has
SharesInv == Whole => Shares(base.queue)
=============================================================================
