---------------------------- MODULE AttnHistory ----------------------------
(***************************************************************************)
(* The history of one daemon after another: what arrives, the writer that  *)
(* puts a snapshot in a file on a clock and once more on the way out, and  *)
(* the next session reading it back (internal/attn History and snapshot;   *)
(* internal/zded LoadHistory, SaveHistory, KeepHistory; cmd/zded run).     *)
(*                                                                         *)
(* Arrivals, the writer and the shutdown are goroutines of one process.    *)
(* The history's mutex makes Add, Replace, Dismiss, Rev and Snapshot one   *)
(* step each; a save is four of them and a rename.                         *)
(***************************************************************************)
EXTENDS AttnRecords

CONSTANTS
  Files,     \* what an earlier session may have left on disk
  MaxId,     \* bound: arrivals over all sessions
  MaxRev,    \* bound: changes in one session
  Failing    \* whether the file may fail to be written

ASSUME FilesAssumption ==
  \A f \in Files : /\ f \in Seq(Record) /\ Len(f) <= SnapshotMax /\ Len(f) <= MaxId
                   /\ \A i \in DOMAIN f : f[i].id = i /\ ~f[i].private
ASSUME HistoryLimits == MaxId \in Nat /\ MaxRev \in Nat \ {0} /\ Failing \in BOOLEAN

VARIABLES
  phase,      \* of the process
  cancelled,  \* the context KeepHistory waits on has ended
  hist,       \* the rings
  rev,        \* how many times this session changed them
  lastID,     \* the journal's counter: ids never repeat
  written,    \* what SaveHistory believes the file holds: [once, rev]
  writer,     \* the goroutine of KeepHistory: [at, rev, taken]
  file,       \* the snapshot on disk
  atClose,    \* history: the newest record that may be written when srv.Close returned
  exposed     \* history: the ids of records that arrived private

vars == <<phase, cancelled, hist, rev, lastID, written, writer, file, atClose, exposed>>
process == <<phase, cancelled>>
records == <<hist, rev, lastID, exposed>>
saving  == <<written, writer, file>>

Unwritten == [once |-> FALSE, rev |-> 0]
Waiting == [at |-> "waiting", rev |-> 0, taken |-> << >>]

Serving == phase \in {"serving", "stopping", "closed"}

NewestOf(h) == IF h = << >> THEN 0 ELSE h[Len(h)].id

-----------------------------------------------------------------------------
(***************************************************************************)
(* The process.  run restores before anything can arrive, and the bus is   *)
(* let go of after everything else, so arrivals go on to the very end.     *)
(***************************************************************************)
Start ==
  /\ phase = "down"
  /\ phase' = "serving"
  /\ hist' = Restore(<< >>, Read(file))
  /\ rev' = IF file = << >> THEN 0 ELSE 1
  /\ UNCHANGED <<cancelled, lastID, exposed, saving, atClose>>

\* a signal ends run's context, and with it the one KeepHistory waits on
Signal ==
  /\ phase = "serving"
  /\ phase' = "stopping"
  /\ cancelled' = TRUE
  /\ UNCHANGED <<records, saving, atClose>>

\* Serve returns an error: srv.Close first, and the context after it
ListenerFails ==
  /\ phase = "serving"
  /\ phase' = "stopping"
  /\ UNCHANGED <<cancelled, records, saving, atClose>>

\* mutant: only a signal ends the context
CloseReturnsUncancelled ==
  /\ phase = "stopping"
  /\ phase' = "closed"
  /\ atClose' = NewestOf(Snapshot(hist))
  /\ UNCHANGED <<cancelled, records, saving>>

\* srv.Close returns, having waited for the runs, and stopSaving follows
CloseReturns ==
  /\ phase = "stopping"
  /\ phase' = "closed"
  /\ cancelled' = TRUE
  /\ atClose' = NewestOf(Snapshot(hist))
  /\ UNCHANGED <<records, saving>>

\* the process is gone, and what it held in memory with it
Ended ==
  /\ phase' = "down" /\ cancelled' = FALSE
  /\ hist' = << >> /\ rev' = 0
  /\ written' = Unwritten /\ writer' = Waiting
  /\ atClose' = 0
  /\ UNCHANGED <<lastID, exposed, file>>

\* <-saved, and the process ends
Exit ==
  /\ phase = "closed"
  /\ writer.at = "saved"
  /\ Ended

Crash ==
  /\ Serving
  /\ Ended

-----------------------------------------------------------------------------
(***************************************************************************)
(* What changes the history while the process is there.                    *)
(***************************************************************************)
Arrival(f, private) ==
  [id |-> lastID + 1, from |-> f, private |-> private, dismissed |-> FALSE,
   restored |-> FALSE]

Changed == rev < MaxRev /\ rev' = rev + 1

Counted(private) ==
  /\ lastID' = lastID + 1
  /\ exposed' = IF private THEN exposed \cup {lastID + 1} ELSE exposed

Arrive(f, private) ==
  /\ Serving /\ lastID < MaxId /\ Changed
  /\ Counted(private)
  /\ hist' = Add(hist, Arrival(f, private))
  /\ UNCHANGED <<process, saving, atClose>>

\* a restored record has no connection that could name it
Addressable == {hist[i].id : i \in {j \in DOMAIN hist : ~hist[j].restored}}

\* replaces_id: the superseded record comes out, whichever ring it is in
ArriveReplacing(f, private, old) ==
  /\ Serving /\ lastID < MaxId /\ Changed
  /\ Counted(private)
  /\ hist' = Replace(hist, old, Arrival(f, private))
  /\ UNCHANGED <<process, saving, atClose>>

DismissRecord(id) ==
  /\ Serving /\ id \in HistoryIds(hist) /\ Changed
  /\ hist' = Dismiss(hist, id)
  /\ UNCHANGED <<process, lastID, exposed, saving, atClose>>

-----------------------------------------------------------------------------
(***************************************************************************)
(* KeepHistory: on a tick, and once more when the context ends.            *)
(***************************************************************************)
\* where a save leaves the goroutine: back at the select, or returned
AfterSave(final) == IF final THEN [Waiting EXCEPT !.at = "saved"] ELSE Waiting

Begin(final) ==
  /\ Serving /\ writer.at = "waiting"
  /\ final => cancelled
  /\ IF written.once /\ written.rev = rev
       THEN writer' = AfterSave(final)
       ELSE writer' = [at |-> IF final THEN "last" ELSE "save", rev |-> rev, taken |-> << >>]
  /\ UNCHANGED <<process, records, written, file, atClose>>

Take ==
  /\ writer.at \in {"save", "last"} /\ writer.taken = << >>
  /\ writer' = [writer EXCEPT !.taken = << Snapshot(hist) >>]
  /\ UNCHANGED <<process, records, written, file, atClose>>

\* mutant: the revision is read when the file is written
WriteLateRev ==
  /\ writer.at \in {"save", "last"} /\ writer.taken # << >>
  /\ file' = writer.taken[1]
  /\ written' = [once |-> TRUE, rev |-> rev]
  /\ writer' = AfterSave(writer.at = "last")
  /\ UNCHANGED <<process, records, atClose>>

\* WriteSnapshot, whole by rename, and the note of what the file now holds
Write ==
  /\ writer.at \in {"save", "last"} /\ writer.taken # << >>
  /\ file' = writer.taken[1]
  /\ written' = [once |-> TRUE, rev |-> writer.rev]
  /\ writer' = AfterSave(writer.at = "last")
  /\ UNCHANGED <<process, records, atClose>>

WriteFails ==
  /\ Failing
  /\ writer.at \in {"save", "last"} /\ writer.taken # << >>
  /\ writer' = AfterSave(writer.at = "last")
  /\ UNCHANGED <<process, records, written, file, atClose>>

Init ==
  /\ phase = "down" /\ cancelled = FALSE
  /\ hist = << >> /\ rev = 0 /\ exposed = {}
  /\ written = Unwritten /\ writer = Waiting
  /\ file \in Files
  /\ lastID = Len(file)
  /\ atClose = 0

Next ==
  \/ Start
  \/ Signal
  \/ ListenerFails
  \/ CloseReturns
  \/ Exit
  \/ Crash
  \/ \E f \in From, private \in BOOLEAN : Arrive(f, private)
  \/ \E f \in Apps, private \in BOOLEAN, old \in Addressable :
       ArriveReplacing(f, private, old)
  \/ \E id \in HistoryIds(hist) : DismissRecord(id)
  \/ \E final \in BOOLEAN : Begin(final)
  \/ Take
  \/ Write
  \/ WriteFails

(***************************************************************************)
(* The ticker ticks and the goroutine runs; a select with both cases ready *)
(* picks at random, so the end of the context is not passed over for ever; *)
(* a disk that is written to again and again takes a file in the end; and  *)
(* srv.Close is bounded by runStopWait.                                    *)
(***************************************************************************)
Fairness ==
  /\ WF_vars(Begin(FALSE)) /\ SF_vars(Begin(TRUE))
  /\ WF_vars(Take) /\ SF_vars(Write)
  /\ WF_vars(CloseReturns) /\ WF_vars(Exit)

Spec == Init /\ [][Next]_vars /\ Fairness

-----------------------------------------------------------------------------
\* types, and both bounds of the history, whatever order arrivals, replacements
\* across rings and restarts come in (add, remove, Restore)
TypeOK ==
  /\ phase \in {"down", "serving", "stopping", "closed"}
  /\ cancelled \in BOOLEAN
  /\ hist \in Seq(Record)
  /\ \A f \in From : Held(hist, f) <= PerSenderMax
  /\ Cardinality(Named(hist)) <= SendersMax
  /\ rev \in 0 .. MaxRev /\ lastID \in 0 .. MaxId
  /\ exposed \subseteq 1 .. MaxId /\ atClose \in 0 .. MaxId
  /\ written \in [once : BOOLEAN, rev : 0 .. MaxRev]
  /\ writer \in [at : {"waiting", "save", "last", "saved"}, rev : 0 .. MaxRev,
                 taken : Seq(Seq(Record))]
  /\ file \in Seq(Record) /\ Len(file) <= SnapshotMax

\* the rings that are gone whole from a history once one of a's has arrived
Evicted(h, new, a) == {f \in From \ {a} : Held(h, f) > 0 /\ Held(new, f) = 0}

(***************************************************************************)
(* What an arrival of a may cost a history: the ring of one app, and only  *)
(* when a is a sender more than the bound takes; that app held less than   *)
(* every other, or as little and was heard from longest ago; and of a's    *)
(* own ring the oldest record, when it was full.  Nothing else.            *)
(***************************************************************************)
CostsLeast(h, new, a) ==
  LET evicted == Evicted(h, new, a) IN
  /\ evicted # {} => a \in Apps \ Named(h) /\ Cardinality(Named(h)) = SendersMax
  /\ evicted \subseteq Apps
  /\ \A f \in evicted : \A g \in Named(h) \ {f} :
       \/ Held(h, f) < Held(h, g)
       \/ Held(h, f) = Held(h, g) /\ Latest(h, f) < Latest(h, g)
  /\ \A i \in DOMAIN h : h[i].id \notin HistoryIds(new) =>
       \/ h[i].from \in evicted
       \/ /\ h[i].from = a /\ Held(h, a) = PerSenderMax
          /\ \A j \in Ring(h, a) : i <= j

(***************************************************************************)
(* No arrival costs more than that, nor its own record, and no replacement *)
(* more than that beyond the record it supersedes, whatever was restored,  *)
(* replaced or evicted before it (dropExtraSenders: names are free, so the *)
(* bound must not be leverage).                                            *)
(***************************************************************************)
EvictsCheapest ==
  [][/\ \A a \in From, private \in BOOLEAN : Arrive(a, private) =>
          lastID' \in HistoryIds(hist') /\ CostsLeast(hist, hist', a)
     /\ \A a \in Apps, private \in BOOLEAN, old \in Addressable :
          ArriveReplacing(a, private, old) =>
            lastID' \in HistoryIds(hist') /\ CostsLeast(Removed(hist, old), hist', a)]_vars

(***************************************************************************)
(* "Private desks are history only": no record that arrived private is in  *)
(* the file, nor on its way to it, in this session or a later one.         *)
(***************************************************************************)
PrivateStaysInMemory ==
  /\ HistoryIds(file) \cap exposed = {}
  /\ writer.taken # << >> => HistoryIds(writer.taken[1]) \cap exposed = {}

(***************************************************************************)
(* A save that would be skipped is one the file does not need: SaveHistory *)
(* reads the revision before the records, so an arrival between the two is *)
(* written again rather than never.                                        *)
(***************************************************************************)
SkippedIsCurrent ==
  Serving /\ written.once /\ written.rev = rev => file = Snapshot(hist)

(***************************************************************************)
(* While the daemon serves, the file catches up with the history, though   *)
(* writes may fail and arrivals may fall inside a save (KeepHistory's      *)
(* clock); and a daemon told to stop ends, by a signal or by a listener    *)
(* that failed: run waits for the last save, and the save for the context. *)
(***************************************************************************)
SavedOrEnded ==
  (phase = "serving" /\ file # Snapshot(hist)) \/ phase = "stopping"
    ~> (phase = "serving" /\ file = Snapshot(hist)) \/ phase = "down"

(***************************************************************************)
(* "Save last, including arrivals during shutdown" (cmd/zded/run.go): what *)
(* had arrived when srv.Close returned is in the file the process leaves.  *)
(***************************************************************************)
SavedThroughClose == [][Exit => atClose <= NewestOf(file)]_vars
=============================================================================
