------------------------------- MODULE Chrome -------------------------------
(***************************************************************************)
(* The files zded keeps for the session: the desk manifests, which people  *)
(* write and a snapshot adds to (internal/manifest, zded desk_apps.go),    *)
(* and niri's dynamic config, which SyncRules writes from the manifests    *)
(* and from whether zen is on (zded rules.go, zen.go), at startup, on a    *)
(* reconcile and on a zen key.                                             *)
(*                                                                         *)
(* Requests run on their own connections, and a directory is read one file *)
(* at a time.  A power cut loses what was not synced and starts the daemon *)
(* again; the journal, with zen in it, is another module's and whole here. *)
(***************************************************************************)
EXTENDS Manifests, FiniteSets, FiniteSetsExt

CONSTANTS
  Task,          \* requests, one each; startup takes one too
  Start,         \* the task of the startup
  Paths,         \* the *.yaml names of the directory, numbers in the order of the names
  PathOf,        \* desk -> the name a snapshot of it gets
  Texts,         \* what a person may put at one
  Shapes,        \* what niri may have of a desk, its monitors with their slots
  ManifestsMax,  \* manifestsMax
  FileBudgets    \* [snap, zen, sync, edit, fail, cut]: what may happen at most

VARIABLES
  dir,      \* path -> a file, or None
  byHand,   \* history: path -> what a person last put there, or None
  zen,      \* what the journal says
  kdl,      \* dynamic.kdl: [text, synced, mode], its text what DynamicKDL gives
  task,     \* request -> [at, for, want, desk, todo, out, bad, text, synced, said, still, kept]
  settled,  \* history: whoever wrote or compared dynamic.kdl last saw nothing change under it
  spare     \* bound: what is left of the budget

files == <<dir, byHand, zen, kdl, task, settled, spare>>

Spares(what) == spare[what] > 0 /\ spare' = [spare EXCEPT ![what] = @ - 1]
Here(p) == dir[p] # None
Lost == [lost |-> TRUE]  \* what a power cut leaves of an unsynced text
NoFile == [text |-> None, synced |-> TRUE, mode |-> "0600"]
Idle == [at |-> "none", for |-> "sync", want |-> FALSE, desk |-> None, todo |-> {}, out |-> {},
         bad |-> 0, text |-> None, synced |-> FALSE, said |-> "nothing", still |-> TRUE, kept |-> {}]
Step(t, at) == task' = [task EXCEPT ![t].at = at]
Ends(t, said) ==
  task' = [task EXCEPT ![t] = [Idle EXCEPT !.at = "done", !.said = said, !.for = task[t].for,
                                           !.kept = task[t].kept, !.desk = task[t].desk]]

\* once the daemon serves, which startup's own SyncRules is before
Serving == task[Start].at = "done"

\* history: those of some paths that were never past the cap
Within(table, ps) == IF Cardinality({p \in Paths : table[p] # None}) > ManifestsMax THEN {} ELSE ps

\* history: something that dynamic.kdl is written from has changed; of these tasks,
\* and when it was the directory, these paths of it
Stale(tasks) == [t \in Task |-> [tasks[t] EXCEPT !.still = FALSE]]
Changed(table, ps) == [t \in Task |-> [task[t] EXCEPT !.still = FALSE, !.kept = Within(table, @ \ ps)]]

-----------------------------------------------------------------------------
(***************************************************************************)
(* LoadDir: the names, and then one file after another.                    *)
(***************************************************************************)
\* what the readings are for: SyncRules, manifestFor and Save
Reading == {"sync dir", "private dir", "save dir"}
Files   == [sync |-> "sync files", private |-> "private files", save |-> "save files"]
Purpose(at) == CASE at \in {"sync dir", "sync files"} -> "sync"
                 [] at \in {"private dir", "private files"} -> "private"
                 [] OTHER -> "save"

ReadDir(t) ==
  /\ task[t].at \in Reading
  /\ task' = [task EXCEPT ![t].at = Files[Purpose(@)], ![t].todo = {p \in Paths : Here(p)},
                          ![t].out = {}, ![t].bad = 0]
  /\ UNCHANGED <<dir, byHand, zen, kdl, settled, spare>>

\* a directory that cannot be read: no rules are written, nothing is saved,
\* and a desk nothing is known of is not taken for private
CannotReadDir(t) ==
  /\ task[t].at \in Reading /\ Spares("fail")
  /\ CASE Purpose(task[t].at) = "sync"    -> Ends(t, "not synced")
       [] Purpose(task[t].at) = "private" -> Step(t, "map")
       [] OTHER                           -> Ends(t, "refused")
  /\ UNCHANGED <<dir, byHand, zen, kdl, settled>>

Loaded(t) == {e.desk : e \in task[t].out}
Named(t, name) == {d \in Loaded(t) : d.name = name}

\* a file costs only itself; the first of a name has it; past the cap nothing is read
LoadNext(t) ==
  LET p == Min(task[t].todo)
      d == IF Here(p) THEN Load(dir[p]) ELSE None
      capped == Cardinality(task[t].out) + task[t].bad >= ManifestsMax
      takes == d # None /\ Named(t, d.name) = {} IN
  /\ task[t].at \in Range(Files) /\ task[t].todo # {}
  /\ task' = [task EXCEPT
       ![t].todo = IF capped THEN {} ELSE @ \ {p},
       ![t].bad  = IF capped \/ ~takes THEN @ + 1 ELSE @,
       ![t].out  = IF ~capped /\ takes THEN @ \cup {[path |-> p, desk |-> d]} ELSE @]
  /\ UNCHANGED <<dir, byHand, zen, kdl, settled, spare>>

-----------------------------------------------------------------------------
(***************************************************************************)
(* desk.snapshot and Dir.Save.                                             *)
(***************************************************************************)
\* niri's map is read, and then what the desk's manifest says of privacy
Snapshot(t, name, shape) ==
  /\ t # Start /\ Serving /\ task[t].at = "none" /\ Spares("snap")
  /\ name # "regulars"
  /\ task' = [task EXCEPT ![t] =
       [Idle EXCEPT !.at = "private dir", !.for = "snapshot",
                    !.desk = FromMap(shape, name, FALSE), !.kept = Within(dir, {p \in Paths : Here(p)})]]
  /\ UNCHANGED <<dir, byHand, zen, kdl, settled>>

ManifestFor(t) ==
  /\ task[t].at = "private files" /\ task[t].todo = {}
  /\ task' = [task EXCEPT ![t].at = "map",
                          ![t].desk.private = \E d \in Named(t, task[t].desk.name) : d.private]
  /\ UNCHANGED <<dir, byHand, zen, kdl, settled, spare>>

\* written through its own checks
WritesDown(t) ==
  /\ task[t].at = "map"
  /\ IF Check(task[t].desk) THEN Step(t, "save dir") ELSE Ends(t, "refused")
  /\ UNCHANGED <<dir, byHand, zen, kdl, settled, spare>>

Save(t) ==
  /\ task[t].at = "save files" /\ task[t].todo = {}
  /\ IF Named(t, task[t].desk.name) # {} THEN Ends(t, "refused") ELSE Step(t, "manifest temp")
  /\ UNCHANGED <<dir, byHand, zen, kdl, settled, spare>>

\* a file of ours with one document in it, which is on the disk
Written(d) == [kind |-> "file", owner |-> "us", writable |-> TRUE, large |-> FALSE,
               documents |-> 1, desk |-> d, synced |-> TRUE]

\* what was written and synced gets its name, unless something has it
LinksNew(t) ==
  LET p == PathOf[task[t].desk.name] IN
  /\ task[t].at = "manifest temp" /\ task[t].synced
  /\ IF Here(p) THEN Ends(t, "refused") /\ UNCHANGED <<dir, settled>>
     ELSE /\ dir' = [dir EXCEPT ![p] = Written(task[t].desk)]
          /\ task' = [Changed(dir', {}) EXCEPT ![t] = [Idle EXCEPT !.at = "done", !.said = "saved",
                        !.for = "snapshot", !.desk = task[t].desk, !.kept = Within(dir', task[t].kept)]]
          /\ settled' = FALSE
  /\ UNCHANGED <<byHand, zen, kdl, spare>>

-----------------------------------------------------------------------------
(***************************************************************************)
(* SyncRules: the manifests, then zen, then the file.                      *)
(***************************************************************************)
Begins(t, for, want, at) == [task EXCEPT ![t] = [Idle EXCEPT !.at = at, !.for = for, !.want = want]]

\* a reconcile's first call; what it asks of niri after it is DeskSession's
SyncRules(t) ==
  /\ task[t].at = "none"
  /\ IF t = Start THEN UNCHANGED spare ELSE Serving /\ Spares("sync")
  /\ task' = Begins(t, "sync", FALSE, "sync dir")
  /\ UNCHANGED <<dir, byHand, zen, kdl, settled>>

\* zen on, off, or the other of what it is read to be
Zen(t, word) ==
  /\ t # Start /\ Serving /\ task[t].at = "none" /\ Spares("zen")
  /\ task' = Begins(t, "zen", CASE word = "on" -> TRUE [] word = "off" -> FALSE [] OTHER -> ~zen, "set")
  /\ UNCHANGED <<dir, byHand, zen, kdl, settled>>

\* the journal first
SetZen(t) ==
  /\ task[t].at = "set"
  /\ \/ /\ zen' = task[t].want /\ UNCHANGED spare
        /\ task' = [(IF zen' = zen THEN task ELSE Stale(task)) EXCEPT
                      ![t].at = "sync dir", ![t].still = TRUE]
        /\ settled' = (settled /\ zen' = zen)
     \/ Ends(t, "error") /\ Spares("fail") /\ UNCHANGED <<zen, settled>>
  /\ UNCHANGED <<dir, byHand, kdl>>

\* what the file should say, from the manifests read and zen read now
Renders(t) ==
  /\ task[t].at = "sync files" /\ task[t].todo = {}
  /\ task' = [task EXCEPT ![t].at = "compare", ![t].text = DynamicKDL(zen, Loaded(t)),
                          ![t].todo = {}, ![t].out = {}, ![t].bad = 0]
  /\ UNCHANGED <<dir, byHand, zen, kdl, settled, spare>>

\* written or found the same; zen then asks niri to look, which it may refuse,
\* and tells the shell to ask: neither changes the answer
RulesDone(t) == settled' = task[t].still /\ Ends(t, "synced")

\* the same bytes are left alone but for their mode
Compare(t) ==
  /\ task[t].at = "compare"
  /\ IF kdl.text = task[t].text
     THEN kdl' = [kdl EXCEPT !.mode = "0600"] /\ RulesDone(t)
     ELSE Step(t, "rules temp") /\ UNCHANGED <<kdl, settled>>
  /\ UNCHANGED <<dir, byHand, zen, spare>>

\* the temporary file is written, and then on the disk
Sync(t) ==
  /\ task[t].at \in {"rules temp", "manifest temp"} /\ ~task[t].synced
  /\ task' = [task EXCEPT ![t].synced = TRUE]
  /\ UNCHANGED <<dir, byHand, zen, kdl, settled, spare>>

\* mutant: renamed as soon as it is written
RenameUnsynced(t) ==
  /\ task[t].at = "rules temp"
  /\ kdl' = [text |-> task[t].text, synced |-> task[t].synced, mode |-> "0600"]
  /\ RulesDone(t)
  /\ UNCHANGED <<dir, byHand, zen, spare>>

Rename(t) ==
  /\ task[t].at = "rules temp" /\ task[t].synced
  /\ kdl' = [text |-> task[t].text, synced |-> task[t].synced, mode |-> "0600"]
  /\ RulesDone(t)
  /\ UNCHANGED <<dir, byHand, zen, spare>>

\* a step of the writing fails: nothing has been replaced, and zen goes on
WriteFails(t) ==
  /\ task[t].at \in {"rules temp", "manifest temp"} /\ Spares("fail")
  /\ Ends(t, IF task[t].for = "snapshot" THEN "refused" ELSE "not synced")
  /\ UNCHANGED <<dir, byHand, zen, kdl, settled>>

-----------------------------------------------------------------------------
(***************************************************************************)
(* The person and the power.                                               *)
(***************************************************************************)
\* a file is written or taken away by its owner
Edits(p, f) ==
  /\ Spares("edit") /\ f # dir[p]
  /\ dir' = [dir EXCEPT ![p] = f] /\ byHand' = [byHand EXCEPT ![p] = f]
  /\ task' = Changed(dir', {p})
  /\ settled' = FALSE
  /\ UNCHANGED <<zen, kdl>>

Cut ==
  /\ Spares("cut")
  /\ kdl' = IF kdl.synced THEN kdl ELSE [kdl EXCEPT !.text = Lost, !.synced = TRUE]
  /\ dir' = [p \in Paths |-> IF Here(p) /\ ~dir[p].synced
                             THEN [dir[p] EXCEPT !.documents = 0, !.synced = TRUE] ELSE dir[p]]
  /\ task' = [t \in Task |-> IF t = Start \/ task[t].at = "none" THEN Idle
                             ELSE [Idle EXCEPT !.at = "done"]]
  /\ settled' = FALSE
  /\ UNCHANGED <<byHand, zen>>

-----------------------------------------------------------------------------
InitFiles ==
  /\ dir \in [Paths -> {None} \cup Texts] /\ byHand = dir
  /\ \A p \in Paths : p # Min(Paths) => dir[p] = None
  /\ zen = FALSE
  /\ kdl \in {NoFile, [text |-> DynamicKDL(FALSE, {}), synced |-> TRUE, mode |-> "0644"]}
  /\ task = [t \in Task |-> Idle]
  /\ settled = FALSE
  /\ spare \in FileBudgets

NextFiles ==
  \/ \E t \in Task :
       \/ ReadDir(t) \/ CannotReadDir(t) \/ LoadNext(t)
       \/ \E name \in DOMAIN PathOf, shape \in Shapes : Snapshot(t, name, shape)
       \/ ManifestFor(t) \/ WritesDown(t) \/ Save(t) \/ LinksNew(t)
       \/ SyncRules(t) \/ Renders(t) \/ Compare(t) \/ Sync(t) \/ Rename(t) \/ WriteFails(t)
       \/ \E word \in {"on", "off", "toggle"} : Zen(t, word)
       \/ SetZen(t)
  \/ \E p \in Paths, f \in {None} \cup Texts : Edits(p, f)
  \/ Cut

SpecFiles == InitFiles /\ [][NextFiles]_files

-----------------------------------------------------------------------------
TypeOK ==
  /\ \A p \in Paths : Here(p) => dir[p].kind \in {"file", "fifo"}
  /\ zen \in BOOLEAN /\ settled \in BOOLEAN
  /\ kdl.synced \in BOOLEAN /\ kdl.mode \in {"0600", "0644"}
  /\ \A t \in Task :
       /\ task[t].todo \subseteq Paths /\ task[t].bad \in 0 .. Cardinality(Paths)
       /\ Cardinality(task[t].out) + task[t].bad <= ManifestsMax + 1
       /\ \A d, e \in task[t].out : d.desk.name = e.desk.name => d = e

\* the desks the directory declares: of the first files that may be read, the
\* first of every name
Declared ==
  LET first == {p \in Paths : Here(p) /\ Cardinality({q \in Paths : Here(q) /\ q < p}) < ManifestsMax}
      read == {p \in first : Load(dir[p]) # None} IN
  {Load(dir[p]) : p \in {q \in read : \A r \in read : r < q => Load(dir[r]).name # Load(dir[q]).name}}

\* niri never finds a file that is not whole, whatever was cut short
\* (rules.go writeRules: niri refuses all of such a config, the binds with it).
Whole == kdl.text # Lost

\* After a SyncRules that saw nothing change, and until something does, the
\* file says what the journal and the directory say (zen.go setZen: a session
\* that missed one converges).
FileAgrees == settled =>
  kdl.text.zen = zen /\ kdl.text.rules = PlacementRules(Declared) /\ kdl.mode = "0600"

\* What a person wrote is as they wrote it, whoever saved a snapshot meanwhile
\* (manifest.go writeNew).
HandsOff == \A p \in Paths : byHand[p] # None => dir[p] = byHand[p]

\* A snapshot is written only where no file that could be read declared the
\* desk all along, and what is written can be read back (manifest.go Save).
SnapshotAdds ==
  \A t \in Task : task[t].said = "saved" =>
    LET d == task[t].desk IN
    /\ \A p \in task[t].kept : Load(dir[p]) # None => Load(dir[p]).name # d.name
    /\ Here(PathOf[d.name]) /\ byHand[PathOf[d.name]] = None => Load(dir[PathOf[d.name]]) # None

\* The files zded writes are whole, true, and take nothing of anybody's.
FilesHold == Whole /\ FileAgrees /\ HandsOff /\ SnapshotAdds

=============================================================================
