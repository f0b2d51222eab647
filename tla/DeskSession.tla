----------------------------- MODULE DeskSession -----------------------------
(***************************************************************************)
(* The naming of workspaces while a session runs (internal/zded): the      *)
(* watcher of niri's events, which reconciles names with where workspaces  *)
(* are, and a request that switches desks, carries a window, moves a       *)
(* workspace or scrolls, beside niri, a person at its keys and a cable.    *)
(*                                                                         *)
(* zded keeps no copy of niri's state: every step asks, and what it was    *)
(* told may be old by the time it acts.  A step here is one exchange with  *)
(* niri, except that a request reads workspaces and screens at once (it    *)
(* renames nothing because of the pair; the watcher does, and reads them   *)
(* in two).  niri itself is external: a workspace keeps a name when it is  *)
(* empty, every strip ends in an empty one, an unplugged monitor's go to a *)
(* survivor and come home with it, a name in use is not given again.       *)
(***************************************************************************)
EXTENDS DeskMap

CONSTANTS
  Desks, Screens,   \* desks and monitors
  Apps,             \* application ids
  Declared,         \* desk -> the names its manifest declares, in order
  Remembers,        \* what the journal may remember: monitor -> slot or None
  Starts,           \* [ws, shown, onDesk, lastDesk, hands, requests, fails]: how sessions begin
  MaxID             \* bound on the workspaces that people and cables make

VARIABLES
  ws,       \* niri: the workspaces, [id, idx, name, output, home, app]
  screens,  \* niri: the outputs it draws on
  shown,    \* niri: the workspace each of them shows
  focus,    \* niri: the output with the focus, None with no output
  nextID,   \* niri
  onDesk, lastDesk,  \* the journal
  event,    \* an event waits in the watcher's channel, or starts its timer
  watch,    \* the watcher: [at, read, map, plan, active], and, history, whether a
            \* failed call cut its last round short
  req,      \* the request in progress: [at, what, to, ...]
  left,     \* bound: what people, cables, callers and failures may still do
  stale,    \* history: the workspaces others moved or named since a round began to read
  calm      \* history: nobody but the request changed niri since it began

niri    == <<ws, screens, shown, focus, nextID>>
journal == <<onDesk, lastDesk>>
vars    == <<niri, journal, event, watch, req, left, stale, calm>>

Waits == [at |-> "idle", read |-> {}, map |-> << >>, plan |-> << >>, active |-> None,
          cut |-> FALSE]
Free  == [at |-> "idle", what |-> None, to |-> None, from |-> None, make |-> << >>,
          tries |-> 0, plan |-> << >>, landed |-> 0, last |-> << >>, by |-> 0,
          ok |-> TRUE, waiting |-> {}]

-----------------------------------------------------------------------------
(***************************************************************************)
(* niri.                                                                   *)
(***************************************************************************)
With(id)    == CHOOSE w \in ws : w.id = id
Live(id)    == \E w \in ws : w.id = id
Called(n)   == {w \in ws : w.name = n}
Empty(w)    == w.name = None /\ w.app = None
Bottom(o)   == Max({w.idx : w \in {v \in ws : v.output = o}} \cup {0})
Scratch(id, o, i) == [id |-> id, idx |-> i, name |-> None, output |-> o,
                      home |-> o, app |-> None]
Focused     == IF focus = None THEN << >> ELSE << With(shown[focus]) >>
FocusedName == IF Focused = << >> THEN None ELSE Focused[1].name
Set(id, w)  == (ws \ {With(id)}) \cup {w}

FirstApp == [id \in 1 .. (nextID - 1) |->
               IF \E w \in ws : w.id = id THEN With(id).app ELSE None]
EmptyOn  == [o \in Screens |-> {w.id : w \in {v \in ws : Empty(v) /\ v.output = o}}]

\* a name in use is not given again, and niri says it handled it; an empty
\* workspace that takes a name leaves its strip needing another empty one
GivenName(id, n) ==
  LET w == With(id)
  IN  IF Called(n) # {} THEN ws
      ELSE Set(id, [w EXCEPT !.name = n]) \cup
           (IF Empty(w) /\ w.output # None
              THEN {Scratch(nextID, w.output, Bottom(w.output) + 1)} ELSE {})

Naming(id, n) ==
  /\ ws' = GivenName(id, n)
  /\ nextID' = IF Cardinality(ws') > Cardinality(ws) THEN nextID + 1 ELSE nextID
  /\ event' = (event \/ ws' # ws)
  /\ UNCHANGED <<screens, shown, focus>>

Show(id) ==
  /\ With(id).output # None
  /\ shown' = [shown EXCEPT ![With(id).output] = id]
  /\ focus' = With(id).output
  /\ event' = TRUE
  /\ UNCHANGED <<ws, screens, nextID>>

Placing(w) == <<w.name, w.output, w.home>>
Touched == {w.id : w \in {v \in ws : \A u \in ws' : u.id = v.id => Placing(u) # Placing(v)}}
Meanwhile == stale' = IF watch.at = "idle" THEN {} ELSE stale \cup Touched

\* somebody other than the one whose step it is did this to niri
Outside ==
  /\ event' = TRUE
  /\ Meanwhile
  /\ calm' = FALSE
  /\ UNCHANGED <<journal, watch, req>>

Spend(what) == left[what] > 0 /\ left' = [left EXCEPT ![what] = @ - 1]

\* the focused workspace, with its name, to another monitor: that is its home now
Drag(o) ==
  /\ Spend("hands")
  /\ focus # None /\ o \in screens \ {focus} /\ ~Empty(Focused[1])
  /\ LET w == Focused[1]
         rest == {v \in ws : v.output = focus /\ v # w}
     IN  /\ ws' = Set(w.id, [w EXCEPT !.output = o, !.home = o, !.idx = Bottom(o) + 1])
         /\ shown' = [shown EXCEPT ![o] = w.id,
                        ![focus] = Min({v.id : v \in rest})]
         /\ focus' = o
  /\ UNCHANGED <<screens, nextID>>
  /\ Outside

\* a window opens on the focused workspace, and its strip gets a new empty one
Open(a) ==
  /\ Spend("hands")
  /\ focus # None /\ Empty(Focused[1]) /\ nextID < MaxID
  /\ LET w == Focused[1]
     IN  ws' = Set(w.id, [w EXCEPT !.app = a]) \cup
               {Scratch(nextID, focus, Bottom(focus) + 1)}
  /\ nextID' = nextID + 1
  /\ UNCHANGED <<screens, shown, focus>>
  /\ Outside

WalkTo(id) ==
  /\ Spend("hands")
  /\ With(id).output # None
  /\ shown' = [shown EXCEPT ![With(id).output] = id]
  /\ focus' = With(id).output
  /\ UNCHANGED <<ws, screens, nextID>>
  /\ Outside

\* a monitor goes: what is on it is parked on a survivor, its empty one ends
Unplug(o) ==
  /\ Spend("hands")
  /\ o \in screens
  /\ screens' = screens \ {o}
  /\ LET to == IF screens' = {} THEN None ELSE CHOOSE s \in screens' : TRUE
     IN  /\ ws' = {w \in ws : w.output # o} \cup
                  {[w EXCEPT !.output = to] : w \in {v \in ws : v.output = o /\ ~Empty(v)}}
         /\ focus' = IF focus = o THEN to ELSE focus
  /\ UNCHANGED <<shown, nextID>>
  /\ Outside

\* it comes back: what was made or put there goes home, and to a first one everything
Plug(o) ==
  /\ Spend("hands")
  /\ o \in Screens \ screens /\ nextID < MaxID
  /\ screens' = screens \cup {o}
  /\ LET comes(w) == screens = {} \/ w.home = o
         all == {w \in ws : ~(Empty(w) /\ w.output = None)}
         back == {[w EXCEPT !.output = o] : w \in {v \in all : comes(v)}}
         stay == {w \in all : ~comes(w)}
         new == Scratch(nextID, o, Max({w.idx : w \in back} \cup {0}) + 1)
         still == {w \in stay : w.output # None}
     IN  /\ ws' = stay \cup back \cup {new}
         /\ shown' = [s \in Screens |->
                        IF s = o THEN IF back = {} THEN nextID ELSE Min({w.id : w \in back})
                        ELSE IF s \in screens /\ ~ \E w \in still : w.id = shown[s] /\ w.output = s
                          THEN Min({w.id : w \in {v \in still : v.output = s}})
                        ELSE shown[s]]
         /\ focus' = IF focus = None THEN o ELSE focus
  /\ nextID' = nextID + 1
  /\ Outside

-----------------------------------------------------------------------------
(***************************************************************************)
(* deskOf: the desk in the focused workspace's name, written down; for a   *)
(* nameless one the desk remembered, while the map still has it.           *)
(***************************************************************************)
DeskOf(m, f) ==
  IF f = None THEN IF onDesk # None /\ NamesOf(m, onDesk) # {} THEN onDesk ELSE None
  ELSE IF "desk" \in DOMAIN f THEN f.desk ELSE None

NoteDesk(f) == onDesk' = IF f # None /\ "desk" \in DOMAIN f THEN f.desk ELSE onDesk

-----------------------------------------------------------------------------
(***************************************************************************)
(* Watch, drain and reconcile: wake, read the workspaces, read the         *)
(* screens, rename one at a time, ask where we are, read the windows,      *)
(* adopt one at a time.  An error ends the round and waits for an event,   *)
(* which a call that failed does not bring about.                          *)
(***************************************************************************)
WatchAt(at, plan) == watch' = [watch EXCEPT !.at = at, !.plan = plan]
Ends == watch' = [Waits EXCEPT !.cut = watch.cut]
GivenUp == watch' = [Waits EXCEPT !.cut = TRUE]

\* mutant: the events that woke it are not drained
WakeUndrained ==
  /\ watch.at = "idle" /\ event
  /\ stale' = {}
  /\ watch' = [Waits EXCEPT !.at = "screens", !.read = ws]
  /\ UNCHANGED <<niri, journal, event, req, left, calm>>

Wake ==
  /\ watch.at = "idle" /\ event
  /\ event' = FALSE /\ stale' = {}
  /\ watch' = [Waits EXCEPT !.at = "screens", !.read = ws]
  /\ UNCHANGED <<niri, journal, req, left, calm>>

\* mutant: events are drained after the reading they are about
ReadScreensThenDrain ==
  /\ watch.at = "screens"
  /\ LET m == Rebuild(watch.read, screens)
     IN  watch' = [watch EXCEPT !.at = "rename", !.read = {}, !.map = m, !.plan = m.renames]
  /\ event' = FALSE
  /\ UNCHANGED <<niri, journal, req, left, stale, calm>>

ReadScreens ==
  /\ watch.at = "screens"
  /\ LET m == Rebuild(watch.read, screens)
     IN  watch' = [watch EXCEPT !.at = "rename", !.read = {}, !.map = m, !.plan = m.renames]
  /\ UNCHANGED <<niri, journal, event, req, left, stale, calm>>

\* niri is asked by name; it refuses a name nobody has
RenameNext ==
  /\ watch.at = "rename" /\ watch.plan # << >>
  /\ LET r == Head(watch.plan)
     IN  IF Called(r.from) = {}
           THEN Ends /\ UNCHANGED <<niri, event>>
           ELSE /\ Naming((CHOOSE w \in Called(r.from) : TRUE).id, r.to)
                /\ WatchAt("rename", Tail(watch.plan))
  /\ calm' = (calm /\ ws' = ws)
  /\ UNCHANGED <<journal, req, left, stale>>

\* on to the windows, if there is a desk to adopt into
Adopts(active, cut) ==
  watch' = IF active = None THEN [Waits EXCEPT !.cut = cut]
           ELSE [watch EXCEPT !.at = "windows", !.active = active, !.cut = cut]

AskWhere ==
  /\ watch.at = "rename" /\ watch.plan = << >>
  /\ Adopts(DeskOf(watch.map, FocusedName), FALSE)
  /\ NoteDesk(FocusedName)
  /\ UNCHANGED <<niri, lastDesk, event, req, left, stale, calm>>

ReadWindows ==
  /\ watch.at = "windows"
  /\ WatchAt("adopt", AdoptPlan(watch.map, watch.active, FirstApp))
  /\ UNCHANGED <<niri, journal, event, req, left, stale, calm>>

AdoptNext ==
  /\ watch.at = "adopt"
  /\ IF watch.plan = << >> \/ ~Live(Head(watch.plan).id)
       THEN Ends /\ UNCHANGED <<niri, event>>
       ELSE /\ Naming(Head(watch.plan).id, Head(watch.plan).name)
            /\ WatchAt("adopt", Tail(watch.plan))
  /\ calm' = (calm /\ ws' = ws)
  /\ UNCHANGED <<journal, req, left, stale>>

(***************************************************************************)
(* A call fails when niri refuses it or is late, having done it or not.    *)
(* drain logs that and waits on: the stream of events is a connection of   *)
(* its own, still open, and nothing but the next event wakes the watcher.  *)
(***************************************************************************)
\* of the workspaces, the screens or the windows
ReadFails ==
  /\ Spend("fails")
  /\ \/ watch.at = "idle" /\ event /\ event' = FALSE
     \/ watch.at \in {"screens", "windows"} /\ UNCHANGED event
  /\ GivenUp
  /\ UNCHANGED <<niri, journal, req, stale, calm>>

\* of a rename or an adoption
NameFails ==
  /\ Spend("fails")
  /\ watch.at \in {"rename", "adopt"} /\ watch.plan # << >>
  /\ LET next == Head(watch.plan)
         asked == IF watch.at = "adopt" THEN {w \in ws : w.id = next.id} ELSE Called(next.from)
     IN  \/ UNCHANGED <<niri, event>>
         \/ \E w \in asked : Naming(w.id, IF watch.at = "adopt" THEN next.name ELSE next.to)
  /\ GivenUp
  /\ calm' = (calm /\ ws' = ws)
  /\ UNCHANGED <<journal, req, stale>>

\* nobody knows what is focused, which is taken for a workspace without a name
WhereFails ==
  /\ Spend("fails")
  /\ watch.at = "rename" /\ watch.plan = << >>
  /\ Adopts(DeskOf(watch.map, None), TRUE)
  /\ UNCHANGED <<niri, journal, event, req, stale, calm>>

\* the stream ends, seen where drain waits for it, with the event that was waiting
StreamEnds ==
  /\ Spend("fails")
  /\ watch.at = "idle"
  /\ watch' = [watch EXCEPT !.at = "down"] /\ event' = FALSE
  /\ UNCHANGED <<niri, journal, req, stale, calm>>

\* a new stream opens with events of its own
Resubscribe ==
  /\ watch.at = "down"
  /\ Ends /\ event' = TRUE
  /\ UNCHANGED <<niri, journal, req, left, stale, calm>>

-----------------------------------------------------------------------------
(***************************************************************************)
(* A request.                                                              *)
(***************************************************************************)
Map == Rebuild(ws, screens)
Own == UNCHANGED <<watch, left>> /\ Meanwhile
Answer(ok, r) == req' = [r EXCEPT !.at = "replied", !.ok = ok, !.make = << >>, !.plan = << >>]

Begin(what, to, at, r) ==
  /\ req.at = "idle" /\ Spend("requests")
  /\ req' = [r EXCEPT !.at = at, !.what = what, !.to = to,
                      !.tries = IF to \in Desks THEN Len(Declared[to]) ELSE 0]
  /\ calm' = TRUE
  /\ UNCHANGED <<niri, lastDesk, event, watch, stale>>

\* "last" is a switch to the desk one came from; its error tells a desk that is gone
SwitchDesk(t, last) ==
  \E what \in {"switch"} \cup (IF t = lastDesk THEN {"last"} ELSE {}) :
    Begin(what, t, "declare", [Free EXCEPT !.last = last]) /\ UNCHANGED onDesk

\* desk.next and desk.prev
Rotate(by, last) ==
  LET from == DeskOf(Map, FocusedName)
      to   == Step(Rotation(Map), from, by)
  IN  /\ to \notin {None, from}
      /\ Begin("switch", to, "declare", [Free EXCEPT !.last = last])
      /\ NoteDesk(FocusedName)

\* the window goes along, to the next desk of the rotation or to any by name
CarryTo(d, last) ==
  LET from == DeskOf(Map, FocusedName)
  IN  /\ d # from
      /\ Begin("carry", d, "declare", [Free EXCEPT !.last = last, !.from = from])
      /\ NoteDesk(FocusedName)

\* mutant: passes are not counted
DeclareUntilDone ==
  /\ req.at = "declare"
  /\ LET d == Declared[req.to]
         make == FirstMissing(Map, d, EmptyOn)
     IN  req' = IF make # << >>
                  THEN [req EXCEPT !.at = "make", !.make = make, !.tries = @ - 1]
                  ELSE [req EXCEPT !.at = "plan", !.waiting = ToSet(Waiting(Map, d))]
  /\ UNCHANGED <<niri, journal, event, calm>> /\ Own

\* ensureDeclared: at most a pass for each declared workspace, each naming one
Declare ==
  /\ req.at = "declare"
  /\ LET d == Declared[req.to]
         make == FirstMissing(Map, d, EmptyOn)
     IN  req' = IF req.tries > 0 /\ make # << >>
                  THEN [req EXCEPT !.at = "make", !.make = make, !.tries = @ - 1,
                                   !.waiting = ToSet(Waiting(Map, d))]
                ELSE [req EXCEPT !.at = IF req.what = "carry" /\ req.landed = 0
                                          THEN "carry" ELSE "plan",
                                 !.waiting = IF req.tries > 0 THEN ToSet(Waiting(Map, d)) ELSE @]
  /\ UNCHANGED <<niri, journal, event, calm>> /\ Own

Make ==
  /\ req.at = "make"
  /\ LET a == req.make[1]
     IN  IF ~Live(a.id) THEN Answer(FALSE, req) /\ UNCHANGED <<niri, event>>
         ELSE /\ Naming(a.id, a.name)
              /\ req' = [req EXCEPT !.at = "declare", !.make = << >>]
  /\ UNCHANGED <<journal, calm>> /\ Own

\* what is remembered of each monitor, then the first its manifest declares there
Slots ==
  [m \in Screens |->
     LET declared == SelectSeq(Declared[req.to], LAMBDA n : n.monitor = m)
     IN  IF req.last[m] # None THEN req.last[m]
         ELSE IF declared # << >> THEN declared[1].slot ELSE None]

\* where a carried window may come down: this screen's band, or the desk's first elsewhere
Landings ==
  (IF focus = None THEN << >> ELSE Pick(Map, req.to, focus, Slots))
    \o SwitchPlan(Map, req.to, Slots)

\* on to switchFrom, which declares again
Carried(id) == req' = [req EXCEPT !.at = "declare", !.landed = id,
                                  !.tries = Len(Declared[req.to])]

Carry ==
  /\ req.at = "carry"
  /\ IF Focused = << >> \/ Focused[1].app = None
       THEN Carried(-1) /\ UNCHANGED <<niri, event>>
     ELSE IF Landings = << >> THEN Answer(FALSE, req) /\ UNCHANGED <<niri, event>>
     ELSE \E t \in Called(Landings[1]) :
            /\ ws' = {IF w = t THEN [t EXCEPT !.app = IF @ = None THEN Focused[1].app ELSE @]
                      ELSE IF w = Focused[1] THEN [w EXCEPT !.app = None] ELSE w : w \in ws}
            /\ Carried(t.id)
            /\ event' = TRUE
            /\ UNCHANGED <<screens, shown, focus, nextID>>
  /\ UNCHANGED <<journal, calm>> /\ Own

\* lastDesk forgets a desk that is gone and keeps one that only failed
NoSuchBand ==
  /\ Answer(FALSE, req)
  /\ lastDesk' = IF req.what = "last" THEN None ELSE lastDesk
  /\ UNCHANGED onDesk

Plan ==
  /\ req.at = "plan"
  /\ LET plan == SwitchPlan(Map, req.to, Slots)
     IN  IF plan = << >> THEN NoSuchBand
         ELSE /\ req' = [req EXCEPT !.at = "focus", !.plan = plan,
                             !.from = IF @ # None THEN @ ELSE DeskOf(Map, FocusedName)]
              /\ IF req.from = None THEN NoteDesk(FocusedName) ELSE UNCHANGED onDesk
              /\ UNCHANGED lastDesk
  /\ UNCHANGED <<niri, event, calm>> /\ Own

FocusNext ==
  /\ req.at = "focus" /\ req.plan # << >>
  /\ LET t == Called(Head(req.plan))
     IN  IF t = {} \/ (\E w \in t : w.output = None)
           THEN Answer(FALSE, req) /\ UNCHANGED <<niri, event>>
           ELSE /\ \E w \in t : Show(w.id)
                /\ req' = [req EXCEPT !.plan = Tail(@)]
  /\ UNCHANGED <<journal, calm>> /\ Own

Land ==
  /\ req.at = "focus" /\ req.plan = << >>
  /\ Answer(TRUE, req)
  /\ onDesk' = req.to
  /\ lastDesk' = IF req.from \notin {None, req.to} THEN req.from ELSE lastDesk
  /\ UNCHANGED <<niri, event, calm>> /\ Own

-----------------------------------------------------------------------------
\* moveWorkspaceTo: a name nobody declares is changed for one in another band
MoveWorkspaceTo(d) ==
  /\ FocusedName # None /\ "desk" \in DOMAIN FocusedName
  /\ FocusedName.desk # d
  /\ FocusedName.desk \in Desks => FocusedName \notin ToSet(Declared[FocusedName.desk])
  /\ Begin("move", d, "move",
       [Free EXCEPT !.plan = << FocusedName, MoveTo(Map, FocusedName, d) >>])
  /\ UNCHANGED onDesk

Move ==
  /\ req.at = "move"
  /\ IF Called(req.plan[1]) = {}
       THEN Answer(FALSE, req) /\ UNCHANGED <<niri, journal, event>>
       ELSE /\ Naming((CHOOSE w \in Called(req.plan[1]) : TRUE).id, req.plan[2])
            /\ onDesk' = req.to /\ lastDesk' = req.plan[1].desk
            /\ Answer(TRUE, req)
  /\ UNCHANGED calm /\ Own

\* one along the band of this screen; at its end nothing moves
Scroll(by) ==
  LET on   == DeskOf(Map, FocusedName)
      to   == BandStep(Band(Map, on, focus), FocusedName, by)
  IN  /\ focus # None /\ on # None /\ to # << >>
      /\ Begin("scroll", on, "scroll", [Free EXCEPT !.plan = to, !.by = by])
      /\ NoteDesk(FocusedName)

ScrollTo ==
  /\ req.at = "scroll"
  /\ IF Called(req.plan[1]) = {}
       THEN Answer(FALSE, req) /\ UNCHANGED <<niri, event>>
       ELSE /\ \E w \in Called(req.plan[1]) : IF w.output = None THEN UNCHANGED <<niri, event>> ELSE Show(w.id)
            /\ Answer(TRUE, req)
  /\ UNCHANGED <<journal, calm>> /\ Own

Done ==
  /\ req.at = "replied"
  /\ req' = Free
  /\ UNCHANGED <<niri, journal, event, watch, left, stale, calm>>

Init ==
  /\ \E s \in Starts :
       /\ ws = s.ws /\ shown = s.shown /\ onDesk = s.onDesk /\ lastDesk = s.lastDesk
       /\ screens = {o \in Screens : \E w \in s.ws : Empty(w) /\ w.output = o}
       /\ focus \in screens
       /\ left = [hands |-> s.hands, requests |-> s.requests, fails |-> s.fails]
  /\ nextID = 1 + Max({w.id : w \in ws})
  /\ event = TRUE
  /\ watch = Waits /\ req = Free
  /\ stale = {} /\ calm = TRUE

Watcher == Wake \/ ReadScreens \/ RenameNext \/ AskWhere \/ ReadWindows \/ AdoptNext \/ Resubscribe

Next ==
  \/ Watcher
  \/ ReadFails \/ NameFails \/ WhereFails \/ StreamEnds
  \/ \E o \in Screens : Drag(o) \/ Unplug(o) \/ Plug(o)
  \/ \E a \in Apps : Open(a)
  \/ \E w \in ws : WalkTo(w.id)
  \/ \E last \in Remembers :
       \/ \E d \in Desks : SwitchDesk(d, last)
       \/ \E d \in Desks : CarryTo(d, last)
       \/ \E by \in {-1, 1} : Rotate(by, last)
  \/ \E d \in Desks : MoveWorkspaceTo(d)
  \/ \E by \in {-1, 1} : Scroll(by)
  \/ Declare \/ Make \/ Carry \/ Plan \/ FocusNext \/ Land
  \/ Move \/ ScrollTo \/ Done

\* the watcher's goroutine runs: for ever with nothing to do, or with for ever one
\* more step of its own.  This is WF_vars(Watcher), whose steps are those that
\* change watch (and failures, which are bounded), said without ENABLED
WatcherRuns == []<>(~event /\ watch.at = "idle") \/ []<><<watch' # watch>>_watch

Spec == Init /\ [][Next]_vars /\ WatcherRuns

-----------------------------------------------------------------------------
\* niri gives no name twice, so neither does zded end up with two under one
TypeOK ==
  /\ screens \subseteq Screens /\ focus \in screens \cup {None}
  /\ screens # {} <=> focus # None
  /\ \A o \in screens : Live(shown[o]) /\ With(shown[o]).output = o
  /\ \A w, v \in ws : (w.id = v.id \/ (w.name = v.name /\ w.name # None)) => w = v
  /\ \A w \in ws : w.id < nextID /\ w.output \in screens \cup {None}
  /\ onDesk \in Desks \cup {None} /\ lastDesk \in Desks \cup {None}
  /\ req.tries >= 0

(***************************************************************************)
(* "A rename happens one at a time" and cycles are refused (grantMoves):   *)
(* the renames of a reading can be given to niri in the order listed       *)
(* without asking for a name in use, and leave none that could have been.  *)
(***************************************************************************)
RenamesInOrder ==
  [][watch.at = "screens" /\ watch'.at = "rename" =>
       LET kept == Kept(watch.read)
           plan == watch'.plan
           used(k) == ({w.name : w \in kept} \ {plan[j].from : j \in 1 .. k})
                        \cup {plan[j].to : j \in 1 .. k}
       IN  /\ \A k \in DOMAIN plan : plan[k].from \in used(k-1) /\ plan[k].to \notin used(k-1)
           /\ \A w \in kept :
                Moved(watch.read, w, screens) /\ Truthful(w).to \notin used(Len(plan)) =>
                  \E k \in DOMAIN plan : plan[k].from = w.name]_vars

(***************************************************************************)
(* "A missing rename is recoverable; a wrong one erases home" (Rebuild):   *)
(* through unplugging, plugging and dragging, in a round that others move  *)
(* and name workspaces under, the monitor in a name of ours changes only   *)
(* to where a person put the workspace, unless it is one of those moved or *)
(* named since the round began to read.                                    *)
(***************************************************************************)
HomeKeptWhileStill ==
  [][\A w \in ws, v \in ws' :
       w.id = v.id /\ w.id \notin stale /\ Ours(w) /\ Ours(v)
         /\ w.name.monitor # v.name.monitor => v.name.monitor = w.home]_vars

(***************************************************************************)
(* "A desk switch moves every monitor at once" (docs/model.md), and makes  *)
(* what the desk declares: after one that reports success, undisturbed,    *)
(* every screen the desk is on shows it, and what it declares is there or  *)
(* is noted as waiting for its monitor.                                    *)
(***************************************************************************)
SwitchBringsUp ==
  req.at = "replied" /\ req.ok /\ calm /\ req.what \in {"switch", "last", "carry"} =>
    /\ \A o \in screens : Band(Map, req.to, o) # << >> =>
         Ours(With(shown[o])) /\ With(shown[o]).name.desk = req.to
    /\ \A n \in ToSet(Declared[req.to]) : Called(n) = {} => n \in req.waiting

(***************************************************************************)
(* SwitchPlan is per screen and not per monitor named: with a monitor      *)
(* gone, two workspaces would be focused on the one left and the second    *)
(* would scroll the restored one away.                                     *)
(***************************************************************************)
OnePerScreen ==
  [][req.at = "plan" /\ req'.at = "focus" =>
       \A o \in screens :
         Cardinality({i \in DOMAIN req'.plan : \E p \in Map.places : p.name = req'.plan[i] /\ p.at = o})
           = IF Band(Map, req.to, o) = << >> THEN 0 ELSE 1]_vars

(***************************************************************************)
(* "This terminates rather than thrashes because reconcile converges"      *)
(* (Watch): the renames and adoptions of a round wake the next, and once   *)
(* people, cables and callers leave niri alone the rounds come to an end.  *)
(***************************************************************************)
Settles == <>[](~event /\ watch.at = "idle")

(***************************************************************************)
(* ... and a watcher at rest left nothing out: no name to put right that   *)
(* could be, no window outside every desk that the desk in force could     *)
(* take in - unless a call of its last round failed, which leaves the rest *)
(* undone until the next event of any kind.                                *)
(***************************************************************************)
RestMeansDone ==
  ~event /\ watch.at = "idle" /\ ~watch.cut =>
    LET m == Map
    IN  m.renames = << >> /\ AdoptPlan(m, DeskOf(m, FocusedName), FirstApp) = << >>

=============================================================================
