---------------------------- MODULE JournalFile -----------------------------
(***************************************************************************)
(* The journal's file line by line: write, then fsync, then apply; replay, *)
(* then rewrite through a temporary file and a rename.  It shows that      *)
(* Journal may keep the file as what a replay yields: a call's steps come  *)
(* to one step there, and a compaction to none.                            *)
(***************************************************************************)
EXTENDS JournalEntries, SequencesExt

CONSTANTS CompactAt, Faults, MaxFaults, MaxId, MaxEntries   \* as in Journal

VARIABLES
  pc,        \* "down", "replayed", "rewritten" (Open); "idle", "written" (a call)
  disk,      \* the file as the last finished step left it: its lines, and its end
  pending,   \* the entry written and not yet synced
  temp,      \* .journal-*, the file a compaction writes
  mem,       \* state and lastID
  given, finished, damage   \* history, as in Journal

vars == <<pc, disk, pending, temp, mem, given, finished, damage>>
history == <<given, finished, damage>>

NoTail == [kind |-> "none"]
Part   == [kind |-> "part"]
Junk   == [kind |-> "junk"]    \* a line that does not parse

\* replay: every line in order, and an unterminated last one as a line
Replay(lines) == FoldLeft(Apply, newState, lines)
ReplayFile(f) == Apply(Replay(f.lines), f.end)
Parsed(lines) == Len(SelectSeq(lines, LAMBDA l : l # Junk))

\* O_APPEND: after a fragment the new bytes end the fragment's line
Appended(f, e) ==
  [lines |-> Append(f.lines, IF f.end = NoTail THEN e ELSE Junk), end |-> NoTail]

CutShort(f, e) ==
  {[f EXCEPT !.end = end] : end \in IF f.end = NoTail THEN {Part, e} ELSE {Part}}

Damaged(how) == /\ Len(damage) < MaxFaults
                /\ damage' = Append(damage, how)

-----------------------------------------------------------------------------
(***************************************************************************)
(* Open: replay, and when the replay was long, compactLocked.              *)
(***************************************************************************)
StartOpen ==
  /\ pc = "down"
  /\ mem' = ReplayFile(disk)
  /\ LET n == Parsed(disk.lines) + (IF disk.end \in {NoTail, Part} THEN 0 ELSE 1)
     IN  pc' = IF n > CompactAt THEN "replayed" ELSE "idle"
  /\ UNCHANGED <<disk, pending, temp, history>>

\* the lines of a map, in a fixed order of its keys
LinesOf(keys, Held(_), Line(_)) ==
  LET held == SelectSeq(SetToSeq(keys), Held)
  IN  [i \in DOMAIN held |-> Line(held[i])]

PlaceLines(s) ==
  LET Held(p) == s.place[p] # None
      Line(p) == [kind |-> "active", place |-> p, slot |-> s.place[p]]
  IN  LinesOf(Places, Held, Line)

RegisterLines(s) ==
  LET Held(r) == s.reg[r] # None
      Line(r) == [kind |-> "register", reg |-> r, value |-> s.reg[r]]
  IN  LinesOf(Registers, Held, Line)

QueueLines(s) ==
  [i \in DOMAIN s.queue |-> [kind |-> "queued", id |-> s.queue[i].id, from |-> s.queue[i].from]]

\* mutant: the counter is left to be learned from what still waits
ShortestUncounted(s) == PlaceLines(s) \o RegisterLines(s) \o QueueLines(s)

\* the shortest lines that replay to s: zero values and spent entries are not written
Shortest(s) ==
  PlaceLines(s) \o RegisterLines(s) \o QueueLines(s)
    \o (IF s.lastID = 0 THEN << >> ELSE << [kind |-> "lastid", id |-> s.lastID] >>)

WriteTemp ==
  /\ pc = "replayed"
  /\ temp' = Shortest(mem)
  /\ pc' = "rewritten"
  /\ UNCHANGED <<disk, pending, mem, history>>

\* rename over the live file, and reopen it
RenameTemp ==
  /\ pc = "rewritten"
  /\ disk' = [lines |-> temp, end |-> NoTail]
  /\ temp' = << >>
  /\ pc' = "idle"
  /\ UNCHANGED <<pending, mem, history>>

\* a step of the compaction fails, Open returns its error and nothing serves
OpenFails ==
  /\ pc \in {"replayed", "rewritten"}
  /\ pc' = "down"
  /\ mem' = newState
  /\ temp' = << >>
  /\ UNCHANGED <<disk, pending, history>>

-----------------------------------------------------------------------------
(***************************************************************************)
(* recordLocked, a step per system call.                                   *)
(***************************************************************************)
Room == Parsed(disk.lines) < MaxEntries

Write(e) ==
  /\ pc = "idle" /\ Room
  /\ pending' = e
  /\ pc' = "written"
  /\ UNCHANGED <<disk, temp, mem, history>>

ShortWrite(e) ==
  /\ pc = "idle" /\ Room
  /\ "short_write" \in Faults
  /\ disk' \in CutShort(disk, e)
  /\ Damaged("fragment")
  /\ UNCHANGED <<pc, pending, temp, mem, given, finished>>

Sync ==
  /\ pc = "written"
  /\ disk' = Appended(disk, pending)
  /\ mem' = Apply(mem, pending)
  /\ given' = IF pending.kind \in {"queued", "lastid"}
                THEN Append(given, pending.id) ELSE given
  /\ finished' = CASE pending.kind = "done"    -> finished \cup ({pending.id} \cap IdsOf(mem.queue))
                   [] pending.kind = "cleared" -> finished \cup IdsOf(mem.queue)
                   [] OTHER                    -> finished
  /\ pending' = NoTail
  /\ pc' = "idle"
  /\ UNCHANGED <<temp, damage>>

\* the error returns before apply; the line may have reached the disk or not
SyncFails ==
  /\ pc = "written"
  /\ "failed_sync" \in Faults
  /\ \/ disk' = disk /\ UNCHANGED damage
     \/ disk' = Appended(disk, pending) /\ Damaged("unsynced")
  /\ pending' = NoTail
  /\ pc' = "idle"
  /\ UNCHANGED <<temp, mem, given, finished>>

Crash ==
  /\ pc # "down"
  /\ \/ disk' = disk /\ UNCHANGED damage
     \/ pc = "written" /\ disk' = Appended(disk, pending) /\ UNCHANGED damage
     \/ /\ pc = "written"
        /\ "torn_crash" \in Faults
        /\ disk' \in CutShort(disk, pending)
        /\ Damaged("fragment")
  /\ pc' = "down"
  /\ pending' = NoTail
  /\ temp' = << >>
  /\ mem' = newState
  /\ UNCHANGED <<given, finished>>

\* the entries the calls would write in this state
Calls ==
  [kind : {"active"}, place : Places, slot : Slots]
    \cup [kind : {"register"}, reg : Registers, value : Values \cup {None}]
    \cup {e \in RenamedEntry : <<e.from, e.slot>> # <<e.to, e.toSlot>>}
    \cup {[kind |-> "queued", id |-> mem.lastID + 1, from |-> f] :
             f \in {f \in Senders : mem.lastID < MaxId /\ RoomFor(mem.queue, f)}}
    \cup {[kind |-> "lastid", id |-> n] : n \in {mem.lastID + 1} \cap (1 .. MaxId)}
    \cup [kind : {"done"}, id : 1 .. MaxId]
    \cup {[kind |-> "cleared"] : x \in {mem.queue} \ {<< >>}}

Init ==
  /\ pc = "down"
  /\ disk = [lines |-> << >>, end |-> NoTail]
  /\ pending = NoTail
  /\ temp = << >>
  /\ mem = newState
  /\ given = << >> /\ finished = {} /\ damage = << >>

Next ==
  \/ StartOpen
  \/ WriteTemp
  \/ RenameTemp
  \/ OpenFails
  \/ \E e \in Calls : Write(e)
  \/ \E e \in Calls : ShortWrite(e)
  \/ Sync
  \/ SyncFails
  \/ Crash

Spec == Init /\ [][Next]_vars

-----------------------------------------------------------------------------
Serving == pc \in {"idle", "written"}

J == INSTANCE Journal WITH
       up <- Serving,
       mem <- IF Serving THEN mem ELSE newState,
       base <- Replay(disk.lines),
       tail <- disk.end,
       entries <- Parsed(disk.lines)

(***************************************************************************)
(* Every step on the file is a step of Journal or none: what a call leaves *)
(* in the file, what a crash at any point of a call or of a compaction     *)
(* leaves, and what the next Open makes of it.                             *)
(***************************************************************************)
ImplementsJournal == J!Spec
=============================================================================
