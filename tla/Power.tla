------------------------------- MODULE Power --------------------------------
(***************************************************************************)
(* The power menu, the power actions, the idle hold and the two locks      *)
(* (internal/power; internal/zded power.go, power_costs.go, idle.go,       *)
(* lock.go, config.go).  What an answer says is put together from several  *)
(* readings - logind's sessions, which of them is this one, its            *)
(* inhibitors, niri's windows, config files - while the things read come   *)
(* and go; so is what a lock does.                                         *)
(*                                                                         *)
(* Everything that may come and go is a fact of the world: a session, an   *)
(* inhibitor, a configured locker or preset, what the manifests say of the *)
(* preset desk, windows that are open.  logind, polkit, niri and the       *)
(* person are external.  The connection to logind is in Buses.             *)
(***************************************************************************)
EXTENDS Naturals, FiniteSets, FiniteSetsExt

CONSTANTS
  Key,         \* requests, one each
  Sessions, UserOf, ClassOf,  \* logind's sessions, whose and of what class
  Own, Me,     \* the session zde runs in, and its user
  Inhibitors, WhatOf, ModeOf, \* logind's inhibitors, what they hold off and how
  HoldsMax,    \* holders one idle answer names
  Worlds,      \* what may stand at first: a set of sets of facts
  PowerBudgets, \* [ask, change, refuse, fail, walk]: what may happen at most
  None

Facts == Sessions \cup Inhibitors \cup
         {"locker", "preset", "private", "broken", "windows", "unqueued"}

VARIABLES
  world,    \* the facts that stand
  env,      \* XDG_SESSION_ID: Own or None
  screen,   \* the desk on the screen: "preset" or another one, "here"
  press,    \* request -> [at, for, rows, mine, err, read, known, names, count,
            \*             said, moved, under: what a locker took, kept, stood]
  ended,    \* history: the sessions a log out has ended
  allow     \* bound: what is left of the budget

power == <<world, env, screen, press, ended, allow>>

What   == {"logout", "suspend", "reboot", "poweroff"}
Ending == {"logout", "reboot", "poweroff"}  \* the ones that close the windows

May(what) == allow[what] > 0 /\ allow' = [allow EXCEPT ![what] = @ - 1]
Rest == [at |-> "none", for |-> "menu", rows |-> {}, mine |-> None, err |-> "no", read |-> FALSE,
         known |-> FALSE, names |-> {}, count |-> 0, said |-> "nothing", moved |-> FALSE,
         under |-> "nothing", kept |-> {}, stood |-> {}]
Goes(k, at) == press[k].at = at
To(k, at) == press' = [press EXCEPT ![k].at = at]
Says(said, names, count) == [said |-> said, names |-> names, count |-> count]
Answered(p, a) == [p EXCEPT !.at = "answered", !.said = a.said, !.names = a.names,
                            !.count = a.count, !.rows = {}, !.mine = None]
\* history: what a request has seen stand all along, and at any time
Seen(k, w) ==
  IF press[k].at \in {"none", "answered"} THEN press[k]
  ELSE [press[k] EXCEPT !.kept = @ \cap w, !.stood = @ \cup w]

Answer(k, a) == press' = [press EXCEPT ![k] = Answered(@, a)]

-----------------------------------------------------------------------------
(***************************************************************************)
(* internal/power: what the sessions and the inhibitors mean for a verb.   *)
(***************************************************************************)
\* another person, by logind's own rule
Counts(s) == ClassOf[s] \in {"", "user", "user-early", "user-light", "user-early-light"}

Stands(i, w) ==
  \/ w = "suspend" /\ "sleep" \in WhatOf[i]
  \/ w \in {"reboot", "poweroff"} /\ "shutdown" \in WhatOf[i]

\* with no row of ours every session counts as somebody's
Others(rows, mine) ==
  {s \in rows \ {mine} : Counts(s) /\ (mine \in rows => UserOf[s] # UserOf[mine])}

Blocking(blocks, w) == {i \in blocks : Stands(i, w)}
HoldsIdle(i) == "idle" \in WhatOf[i]
HoldingIdle(blocks) == {i \in blocks : HoldsIdle(i)}

NeedsAdmin(err) == err \in {"auth", "denied"}

\* a refusal in words: what it names, and how many it stands for
Because(w, err, rows, mine, blocks) ==
  LET held == Blocking(blocks, w)
      others == Others(rows, mine) IN
  IF err = "blocked" \/ (err = "denied" /\ held # {})
  THEN IF held = {} THEN {Says("held", {}, 0)}
       ELSE {Says("held", {<<w, first>>}, Cardinality(held)) : first \in held}
  ELSE IF NeedsAdmin(err) THEN {Says("authority", {<<w, s>> : s \in others}, Cardinality(others))}
  ELSE {Says(err, {}, 0)}

-----------------------------------------------------------------------------
(***************************************************************************)
(* Logind.State: the sessions, which is ours, and then the inhibitors.     *)
(***************************************************************************)
\* this session: from the environment, from logind by pid, or the user's display
MyIDs ==
  IF env # None THEN {env}
  ELSE {None} \cup {s \in world \cap Sessions : UserOf[s] = Me}

\* for the menu, the rows of what each verb costs
Costs(rows, mine, blocks) ==
  ({"reboot", "poweroff"} \X Others(rows, mine)) \cup
  {c \in What \X Inhibitors : c[2] \in Blocking(blocks, c[1])}

\* the first HoldsMax of them, and how many there are
IdleHolds(holds) ==
  {Says("idle", {"idle"} \X some, Cardinality(holds)) :
     some \in kSubset(Min({HoldsMax, Cardinality(holds)}), holds)}

\* what a reading is for
Told(k, mine, blocks, read) ==
  LET p == press[k]
      says == CASE p.for = "menu" -> {Says("menu", Costs(p.rows, mine, blocks), 0)}
                [] p.for = "idle" -> IdleHolds(HoldingIdle(blocks))
                [] OTHER -> Because(p.for, p.err, p.rows, mine, blocks) IN
  \E a \in says :
    press' = [press EXCEPT ![k] = [Answered(p, a) EXCEPT
      !.at = IF p.for = "menu" THEN "windows" ELSE "answered",
      !.known = mine \in p.rows, !.read = read]]

ListSessions(k) ==
  /\ Goes(k, "sessions")
  /\ press' = [press EXCEPT ![k].at = "mine", ![k].rows = world \cap Sessions]
  /\ UNCHANGED <<world, env, screen, ended, allow>>

\* no logind, or one that does not say: an empty state for a refusal
StateFails(k) ==
  /\ Goes(k, "sessions") /\ May("fail")
  /\ CASE press[k].for = "menu" -> To(k, "windows")
       [] press[k].for = "idle" -> Answer(k, Says("unknown", {}, 0))
       [] OTHER -> \E a \in Because(press[k].for, press[k].err, {}, None, {}) : Answer(k, a)
  /\ UNCHANGED <<world, env, screen, ended>>

MyID(k) ==
  /\ Goes(k, "mine")
  /\ \E id \in MyIDs : press' = [press EXCEPT ![k].at = "inhibitors", ![k].mine = id]
  /\ UNCHANGED <<world, env, screen, ended, allow>>

\* only the mode block refuses anything; an error is a state without inhibitors
ListInhibitors(k) ==
  /\ Goes(k, "inhibitors")
  /\ \/ /\ Told(k, press[k].mine, {i \in world \cap Inhibitors : ModeOf[i] = "block"}, TRUE)
        /\ UNCHANGED allow
     \/ Told(k, press[k].mine, {}, FALSE) /\ May("fail")
  /\ UNCHANGED <<world, env, screen, ended>>

-----------------------------------------------------------------------------
(***************************************************************************)
(* The menu, the idle hold and the actions.                                *)
(***************************************************************************)
Asks(k, for, at) ==
  /\ Goes(k, "none") /\ May("ask")
  /\ press' = [press EXCEPT ![k] = [Rest EXCEPT !.at = at, !.for = for,
                                                !.kept = world, !.stood = world]]
  /\ UNCHANGED <<world, env, screen, ended>>

PowerMenu(k) == Asks(k, "menu", "sessions")
IdleHold(k)  == Asks(k, "idle", "sessions")
PowerRun(k)  == \/ \E w \in What : Asks(k, w, "verb")
                \/ Asks(k, "lock", "lock")
LockPreset(k) == Asks(k, "preset", "locker")

\* a cost of every verb that ends the session, when it could be read
Costing(k, fact, at) ==
  press' = [press EXCEPT ![k].at = at,
                         ![k].names = @ \cup (IF fact \in world THEN Ending \X {fact} ELSE {})]

WindowsOpen(k) ==
  /\ Goes(k, "windows")
  /\ \/ Costing(k, "windows", "unqueued") /\ UNCHANGED allow
     \/ To(k, "unqueued") /\ May("fail")
  /\ UNCHANGED <<world, env, screen, ended>>

UnqueuedArrivals(k) ==
  /\ Goes(k, "unqueued") /\ Costing(k, "unqueued", "answered")
  /\ UNCHANGED <<world, env, screen, ended, allow>>

Refused(k, err) ==
  /\ press' = [press EXCEPT ![k].at = "sessions", ![k].err = err]
  /\ UNCHANGED <<world, ended>>

\* logind looks at its inhibitors, and only then is polkit asked
ShutdownOrSleep(k) ==
  LET w == press[k].for
      standing == {i \in world \cap Inhibitors : ModeOf[i] = "block" /\ Stands(i, w)} IN
  /\ Goes(k, "verb") /\ w \in What \ {"logout"}
  /\ \/ /\ standing # {} /\ \E err \in {"blocked", "denied"} : Refused(k, err)
        /\ UNCHANGED allow
     \/ /\ standing = {} /\ May("refuse")
        /\ \E err \in {"auth", "denied", "logind"} : Refused(k, err)
     \/ /\ standing = {} /\ Answer(k, Says("started", {}, 0))
        /\ UNCHANGED <<world, ended, allow>>
  /\ UNCHANGED <<env, screen>>

\* logind ends the session with that id
Ended(k, id) ==
  /\ ended' = ended \cup {id} /\ world' = world \ {id}
  /\ press' = [j \in Key |-> IF j = k THEN Answered(press[k], Says("started", {}, 0))
                             ELSE Seen(j, world')]

\* this session by its id, and nothing when nobody can say which
Terminate(k) ==
  /\ Goes(k, "verb") /\ press[k].for = "logout"
  /\ \E id \in MyIDs :
       \/ id = None /\ Refused(k, "whose")
       \/ id # None /\ id \notin world /\ Refused(k, "logind")
       \/ id \in world /\ Ended(k, id)
  /\ UNCHANGED <<env, screen, allow>>

-----------------------------------------------------------------------------
(***************************************************************************)
(* lock and lock-preset.                                                   *)
(***************************************************************************)
NotLocked(k, said) ==
  press' = [press EXCEPT ![k] = [Answered(@, Says(said, {}, 0)) EXCEPT !.err = "failed"]]

CanLock(k) ==
  /\ Goes(k, "locker")
  /\ \/ "locker" \in world /\ To(k, "config") /\ UNCHANGED allow
     \/ "locker" \notin world /\ Answer(k, Says("no_locker", {}, 0)) /\ UNCHANGED allow
     \/ NotLocked(k, "no_locker") /\ May("fail")
  /\ UNCHANGED <<world, env, screen, ended>>

\* locking where you were is only a note
ReadConfig(k) ==
  /\ Goes(k, "config")
  /\ \/ "preset" \in world /\ To(k, "show") /\ UNCHANGED allow
     \/ "preset" \notin world /\ To(k, "lock") /\ UNCHANGED allow
     \/ To(k, "lock") /\ May("fail")
  /\ UNCHANGED <<world, env, screen, ended>>

\* mutant: manifests that cannot be read allow it
CanShowUnlessPrivate(k) ==
  /\ Goes(k, "show")
  /\ To(k, IF "private" \in world /\ "broken" \notin world THEN "lock" ELSE "switch")
  /\ UNCHANGED <<world, env, screen, ended, allow>>

\* neither a private desk nor one nobody can tell about
CanShow(k) ==
  /\ Goes(k, "show")
  /\ \/ To(k, IF {"private", "broken"} \cap world = {} THEN "switch" ELSE "lock") /\ UNCHANGED allow
     \/ To(k, "lock") /\ May("fail")
  /\ UNCHANGED <<world, env, screen, ended>>

SwitchToPreset(k) ==
  /\ Goes(k, "switch")
  /\ \/ /\ press' = [press EXCEPT ![k].at = "lock", ![k].moved = TRUE]
        /\ screen' = "preset" /\ UNCHANGED allow
     \/ To(k, "lock") /\ May("fail") /\ UNCHANGED screen
  /\ UNCHANGED <<world, env, ended>>

\* system.lock starts `zde system lock`, when zde is found and starts, and that
\* is all the answer says: nobody looks the locker up again
RunLock(k) ==
  /\ Goes(k, "lock")
  /\ \/ /\ press' = [press EXCEPT ![k] = [Answered(@, Says("locking", {}, 0)) EXCEPT !.at = "spawned"]]
        /\ UNCHANGED allow
     \/ NotLocked(k, "not_run") /\ May("fail")
  /\ UNCHANGED <<world, env, screen, ended>>

\* the process started looks it up, and becomes it: no one hears when it cannot
LockStarts(k) ==
  /\ Goes(k, "spawned")
  /\ \/ /\ press' = [press EXCEPT ![k].at = "answered",
                                  ![k].under = IF "locker" \in world THEN screen ELSE "nothing"]
        /\ UNCHANGED allow
     \/ /\ press' = [press EXCEPT ![k].at = "answered", ![k].err = "failed"]
        /\ May("fail")
  /\ UNCHANGED <<world, env, screen, ended>>

-----------------------------------------------------------------------------
(***************************************************************************)
(* The world, and the person at another key.                               *)
(***************************************************************************)
\* a change before or after every request is another start
Busy == \E k \in Key : press[k].at \notin {"none", "answered"}

Changes(fact) ==
  /\ Busy /\ May("change")
  /\ world' = IF fact \in world THEN world \ {fact} ELSE world \cup {fact}
  /\ press' = [k \in Key |-> Seen(k, world')]
  /\ UNCHANGED <<env, screen, ended>>

Walks ==
  /\ Busy /\ screen = "preset" /\ May("walk") /\ screen' = "here"
  /\ press' = [k \in Key |-> Seen(k, world \cup {"walked"})]
  /\ UNCHANGED <<world, env, ended>>

InitPower ==
  /\ world \in Worlds
  /\ env \in {None, Own}
  /\ screen = "here"
  /\ press = [k \in Key |-> Rest]
  /\ ended = {}
  /\ allow \in PowerBudgets

NextPower ==
  \/ \E k \in Key :
       \/ PowerMenu(k) \/ IdleHold(k) \/ PowerRun(k) \/ LockPreset(k)
       \/ ListSessions(k) \/ StateFails(k) \/ MyID(k) \/ ListInhibitors(k)
       \/ WindowsOpen(k) \/ UnqueuedArrivals(k)
       \/ ShutdownOrSleep(k) \/ Terminate(k)
       \/ CanLock(k) \/ ReadConfig(k) \/ CanShow(k) \/ SwitchToPreset(k)
       \/ RunLock(k) \/ LockStarts(k)
  \/ \E fact \in Facts : Changes(fact)
  \/ Walks

SpecPower == InitPower /\ [][NextPower]_power

-----------------------------------------------------------------------------
TypeOK ==
  /\ world \subseteq Facts /\ env \in {None, Own} /\ screen \in {"here", "preset"}
  /\ ended \subseteq Sessions
  /\ \A k \in Key :
       /\ press[k].at \in {"none", "sessions", "mine", "inhibitors", "windows", "unqueued", "verb",
                           "locker", "config", "show", "switch", "lock", "spawned", "answered"}
       /\ press[k].for \in What \cup {"menu", "idle", "lock", "preset"}
       /\ press[k].rows \subseteq Sessions /\ press[k].mine \in Sessions \cup {None}
       /\ press[k].count \in 0 .. Cardinality(Facts)
       /\ press[k].kept \subseteq press[k].stood

Person(s) == s \in Sessions /\ Counts(s) /\ UserOf[s] # Me
InTheWay(i, w) == i \in Inhibitors /\ ModeOf[i] = "block" /\ Stands(i, w)
\* what a verb's row has to say of a fact
Concerns(w, f) == InTheWay(f, w) \/ (w \in {"reboot", "poweroff"} /\ Person(f))

\* The menu's rows name what stands: everything that stood all along, when it
\* could be read, and nothing that never did; nobody is named to themselves
\* unless nothing said which session is this one (power.go Others, Blocking).
MenuIsTrue(p) ==
  p.for = "menu" =>
    /\ \A w \in What, f \in p.kept :
         Concerns(w, f) /\ (f \in Inhibitors => p.read) /\ p.said = "menu" => <<w, f>> \in p.names
    /\ \A n \in p.names :
         /\ n[2] \in p.stood
         /\ \/ Concerns(n[1], n[2]) \/ n[2] \in {"windows", "unqueued"}
            \/ ~p.known /\ n[2] \in Sessions

\* A refusal blames what stood in the verb's way while it was asked for, and
\* counts all of it; nobody is told to find an administrator over a program
\* they could have closed (power.go Because).
RefusalIsTrue(p) ==
  LET blockers == {i \in p.kept : InTheWay(i, p.for)} IN
  p.for \in What =>
    /\ \A n \in p.names : n[2] \in p.stood
    /\ p.said = "held" => \A n \in p.names : InTheWay(n[2], p.for)
    /\ p.said = "held" /\ p.read => p.count >= Cardinality(blockers)
    /\ p.said = "authority" => \A n \in p.names : Person(n[2]) \/ ~p.known
    /\ p.err \in {"blocked", "denied"} /\ p.read /\ blockers # {} => p.said = "held"

\* The idle hold counts every holder logind could name, however few it shows,
\* and says nothing is known only when logind did not answer (idle.go Idle).
IdleIsTrue(p) ==
  p.said = "idle" =>
    /\ p.read => p.count >= Cardinality({i \in p.kept \cap Inhibitors :
                                           ModeOf[i] = "block" /\ HoldsIdle(i)})
    /\ \A n \in p.names : n[2] \in p.stood
    /\ Cardinality(p.names) <= p.count

\* The two locks (lock.go, palette.go runAction): what a locker took was asked
\* for in the answer, and is the preset's desk when that was switched to, unless
\* the person went on; a desk that was private or could not be told all along is
\* never switched to, nor any without a locker having stood, nor before a refusal
\* for want of one; and nothing is locked only when the locker was gone for a
\* time or a step failed.
LockTakesIt(p) ==
  p.for \in {"lock", "preset"} =>
    /\ p.under # "nothing" => p.said = "locking" /\ "locker" \in p.stood
    /\ p.under # "nothing" /\ p.moved => p.under = "preset" \/ "walked" \in p.stood
    /\ p.moved => {"private", "broken"} \cap p.kept = {} /\ "locker" \in p.stood
    /\ p.said = "no_locker" => ~p.moved
    /\ p.under = "nothing" /\ "locker" \in p.kept => p.err = "failed"

\* An answer is true of the moment it is given in, a log out ends nobody
\* else's session, and the preset lock keeps its order.
PowerHolds ==
  /\ \A k \in Key : press[k].at = "answered" =>
       MenuIsTrue(press[k]) /\ RefusalIsTrue(press[k]) /\ IdleIsTrue(press[k]) /\ LockTakesIt(press[k])
  /\ \A s \in ended : UserOf[s] = Me

=============================================================================
