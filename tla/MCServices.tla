----------------------------- MODULE MCServices -----------------------------
(***************************************************************************)
(* The eight services that share no state, in one run: a behaviour is one   *)
(* of theirs, with the others at rest (their budgets are empty, which      *)
(* leaves nothing of theirs enabled).                                      *)
(***************************************************************************)
EXTENDS Naturals, FiniteSets

CONSTANTS
  None,
  Conn, PidOf, ConnectionsMax, ListenersMax, AsksMax, PopupBacklog,
  Copies, Callers, ClipMax, TTL, ExpectWindow, SweepEvery,
  Calls, Devices, Keys,
  Asker, Dials,
  Joiner, Networks, SavedNetwork, Activations,
  Key, Sessions, UserOf, ClassOf, Own, Me, Inhibitors, WhatOf, ModeOf, HoldsMax, Worlds,
  Task, Start, Paths, PathOf, Texts, Shapes, ManifestsMax,
  PendingMax,
  Running      \* the services that have something to do

\* None is nobody, no line or writer of the socket, and no record of what the services keep
ASSUME NobodyAssumption ==
  /\ None \notin Asker /\ None \notin Nat /\ None \notin Conn
  /\ None \notin {"ok", "yes", "no", "asking", "reply", "stream"}
  /\ None \notin [n : Nat, id : Nat, kind : {"ask", "display"},
                  dev : Devices \cup {None}, key : Keys \cup {None}]
ASSUME DialsAssumption == Dials \in Nat /\ PendingMax \in Nat
ASSUME JoinsAssumption == SavedNetwork \in Networks /\ Activations \in Nat
ASSUME RoomAssumption == {ConnectionsMax, ListenersMax, AsksMax, PopupBacklog} \subseteq Nat

\* what is kept is kept for longer than a run of wl-paste takes
ASSUME ClipAssumption ==
  {ClipMax, TTL, ExpectWindow, SweepEvery} \subseteq Nat /\ 1 < TTL

VARIABLES
  order, subs, asks, asking, open, gate, job, run, dropping, tokens, waiting, acked,
  popups, pump, closing, thanked, drawn, heard, left,
  sel, bell, watcher, entries, nextID, expect, expectAt, put, now, sweepAt, fresh, room,
  agent, seq, slot, asked, call, armed, due, doing, seen, yes, yesIDs, budget,
  conn, made, have, gone, held, absent, ask, reaped, closer, purse,
  profiles, nextProfile, act, begun, on, off, join, hand, wanted, means,
  world, env, screen, press, ended, allow,
  dir, byHand, zen, kdl, task, settled, spare,
  link, sequence, pending, acks, outcome, peer, lines, window, stock,
  service      \* the one this behaviour is of

-----------------------------------------------------------------------------
NoConn == [dial |-> 0, call |-> 0, listen |-> 0, surface |-> 0, shown |-> 0, ask |-> 0,
           speak |-> 0, pop |-> 0, close |-> 0, hangup |-> 0]
Budgets ==
  { [NoConn EXCEPT !.dial = 3, !.listen = 2, !.surface = 1, !.shown = 1],
    [NoConn EXCEPT !.dial = 3, !.ask = 2, !.speak = 1],
    [NoConn EXCEPT !.dial = 2, !.ask = 2, !.close = 1],
    [NoConn EXCEPT !.dial = 2, !.listen = 1, !.pop = 2, !.close = 1, !.hangup = 1],
    [NoConn EXCEPT !.dial = 3, !.call = 2, !.ask = 1] } \cup {NoConn}

NoClip == [copy |-> 0, put |-> 0, clear |-> 0, look |-> 0, down |-> 0, fail |-> 0, tick |-> 0]
ClipBudgets ==
  { [NoClip EXCEPT !.copy = 1, !.put = 1, !.down = 1, !.clear = 1, !.tick = 5],
    [NoClip EXCEPT !.copy = 2, !.put = 2, !.fail = 1, !.tick = 1],
    [NoClip EXCEPT !.copy = 2, !.fail = 1, !.look = 1, !.tick = 3],
    [NoClip EXCEPT !.copy = 3] } \cup {NoClip}

NoPair == [ask |-> 0, show |-> 0, cancel |-> 0, long |-> 0, bus |-> 0]
PairBudgets ==
  { [NoPair EXCEPT !.ask = 2, !.cancel = 1],
    [NoPair EXCEPT !.ask = 1, !.show = 1, !.long = 1],
    [NoPair EXCEPT !.show = 2, !.long = 1],
    [NoPair EXCEPT !.ask = 2, !.bus = 1] } \cup {NoPair}

NoBus == [call |-> 0, fail |-> 0, die |-> 0, age |-> 0, close |-> 0]
BusBudgets ==
  { [NoBus EXCEPT !.call = 3, !.die = 1, !.close = 1],
    [NoBus EXCEPT !.call = 3, !.fail = 1, !.age = 1] } \cup {NoBus}

NoNet == [join |-> 0, forget |-> 0, drop |-> 0, switch |-> 0, err |-> 0]
NetBudgets ==
  { [NoNet EXCEPT !.join = 2, !.forget = 1, !.err = 1],
    [NoNet EXCEPT !.join = 1, !.drop = 1, !.switch = 2] } \cup {NoNet}

NoPower == [ask |-> 0, change |-> 0, refuse |-> 0, fail |-> 0, walk |-> 0]
PowerBudgets ==
  { [NoPower EXCEPT !.ask = 1, !.change = 2],
    [NoPower EXCEPT !.ask = 1, !.change = 1, !.fail = 1],
    [NoPower EXCEPT !.ask = 1, !.change = 1, !.refuse = 1, !.walk = 1],
    [NoPower EXCEPT !.ask = 2, !.walk = 1] } \cup {NoPower}

NoFiles == [snap |-> 0, zen |-> 0, sync |-> 0, edit |-> 0, fail |-> 0, cut |-> 0]
FileBudgets ==
  { [NoFiles EXCEPT !.snap = 2],
    [NoFiles EXCEPT !.snap = 1, !.edit = 1],
    [NoFiles EXCEPT !.snap = 1, !.fail = 1, !.cut = 1],
    [NoFiles EXCEPT !.zen = 2, !.fail = 1],
    [NoFiles EXCEPT !.sync = 1, !.edit = 1, !.fail = 1],
    [NoFiles EXCEPT !.zen = 1, !.edit = 1, !.cut = 1] } \cup {NoFiles}

NoShell == [call |-> 0, ack |-> 0, ask |-> 0, forget |-> 0, speak |-> 0, lose |-> 0,
            slow |-> 0, evict |-> 0]
ShellBudgets ==
  { [NoShell EXCEPT !.call = 2, !.ack = 2, !.slow = 1],
    [NoShell EXCEPT !.call = 3, !.slow = 1],
    [NoShell EXCEPT !.call = 1, !.ack = 1, !.lose = 1, !.evict = 1],
    [NoShell EXCEPT !.ask = 2, !.speak = 2, !.slow = 1, !.forget = 1],
    [NoShell EXCEPT !.ask = 2, !.speak = 1, !.lose = 1, !.evict = 1] } \cup {NoShell}

-----------------------------------------------------------------------------
Pids == <<1, 1, 2>>
Offered == { [text |-> "a", kind |-> "text"], [text |-> "b", kind |-> "text"],
             [text |-> "s", kind |-> "secret"], [text |-> "i", kind |-> "other"],
             [text |-> "l", kind |-> "big"] }

Logins  == {"own", "guest", "greeter"}
Users   == [own |-> "me", guest |-> "guest", greeter |-> "gdm"]
Classes == [own |-> "user", guest |-> "user", greeter |-> "greeter"]
Holders == {"update", "player", "saver"}
Holds   == [update |-> {"shutdown", "sleep", "idle"}, player |-> {"idle"}, saver |-> {"sleep"}]
Modes   == [update |-> "block", player |-> "block", saver |-> "delay"]
AtFirst == { {"own", "guest", "update", "locker", "preset"},
             {"own", "greeter", "player", "saver", "windows", "locker", "preset", "broken"} }

WorkDesk == [name |-> "work", private |-> TRUE, monitors |-> [m |-> <<"a", "b">>], attn |-> "focus",
             apps |-> {[app |-> "x", id |-> "x", monitor |-> "m", workspace |-> "b"]}]
FileOf(d) == [kind |-> "file", owner |-> "us", writable |-> TRUE, large |-> FALSE,
              documents |-> 1, desk |-> d, synced |-> TRUE]
Manifests ==
  { FileOf(WorkDesk),
    FileOf([WorkDesk EXCEPT !.monitors = [m |-> <<"a", "a">>]]),  \* a label twice
    [FileOf([WorkDesk EXCEPT !.name = "play"]) EXCEPT !.owner = "root", !.writable = FALSE] }
FileNames == [work |-> 2, play |-> 3]
Strips == { [m |-> <<"a">>] }

C == INSTANCE Connections
B == INSTANCE Clipboard
P == INSTANCE Pairing
D == INSTANCE Buses
J == INSTANCE Joins
W == INSTANCE Power
F == INSTANCE Chrome
H == INSTANCE ShellChannel

\* zde runs in a session of its own user's; nothing that comes and goes is "nobody"
\* or the note that somebody walked away from the screen
ASSUME PowerAssumption ==
  /\ Own \in Sessions /\ UserOf[Own] = Me
  /\ IsFiniteSet(Sessions) /\ IsFiniteSet(Inhibitors)
  /\ Worlds \subseteq SUBSET W!Facts /\ {None, "walked"} \cap W!Facts = {}

\* a snapshot's name is one of the directory's; what a person put there is on the disk
ASSUME FilesAssumption ==
  /\ IsFiniteSet(Paths) /\ Paths \subseteq Nat /\ ManifestsMax \in Nat
  /\ PathOf \in [DOMAIN PathOf -> Paths] /\ \A f \in Texts : f.synced /\ f.kind \in {"file", "fifo"}
  /\ None # F!Lost
  /\ \A shape \in Shapes, name \in DOMAIN PathOf, private \in BOOLEAN :
       None # F!FromMap(shape, name, private)

\* a service other than the behaviour's own has nothing to do
Init ==
  /\ service \in Running
  /\ C!Init /\ (service = "connections") = (left # NoConn)
  /\ B!Init /\ (service = "clipboard") = (room # NoClip)
  /\ P!InitPairing /\ (service = "pairing") = (budget # NoPair)
  /\ D!InitBuses /\ (service = "buses") = (purse # NoBus)
  /\ J!InitJoins /\ (service = "joins") = (means # NoNet)
  /\ W!InitPower /\ (service = "power") = (allow # NoPower)
  /\ service # "power" => env = None /\ "guest" \in world
  /\ F!InitFiles /\ (service = "files") = (spare # NoFiles)
  /\ service # "files" => kdl.text = None /\ \A p \in Paths : dir[p] = None
  /\ H!InitShell /\ (service = "channel") = (stock # NoShell)

ofC == <<order, subs, asks, asking, open, gate, job, run, dropping, tokens, waiting, acked,
         popups, pump, closing, thanked, drawn, heard, left>>
ofB == <<sel, bell, watcher, entries, nextID, expect, expectAt, put, now, sweepAt, fresh, room>>
ofP == <<agent, seq, slot, asked, call, armed, due, doing, seen, yes, yesIDs, budget>>
ofD == <<conn, made, have, gone, held, absent, ask, reaped, closer, purse>>
ofJ == <<profiles, nextProfile, act, begun, on, off, join, hand, wanted, means>>
ofW == <<world, env, screen, press, ended, allow>>
ofF == <<dir, byHand, zen, kdl, task, settled, spare>>
ofH == <<link, sequence, pending, acks, outcome, peer, lines, window, stock>>

vars == <<ofC, ofB, ofP, ofD, ofJ, ofW, ofF, ofH, service>>

Next ==
  /\ service' = service
  /\ \/ service = "connections" /\ C!Next /\ UNCHANGED <<ofB, ofP, ofD, ofJ, ofW, ofF, ofH>>
     \/ service = "clipboard" /\ B!Next /\ UNCHANGED <<ofC, ofP, ofD, ofJ, ofW, ofF, ofH>>
     \/ service = "pairing" /\ P!NextPairing /\ UNCHANGED <<ofC, ofB, ofD, ofJ, ofW, ofF, ofH>>
     \/ service = "buses" /\ D!NextBuses /\ UNCHANGED <<ofC, ofB, ofP, ofJ, ofW, ofF, ofH>>
     \/ service = "joins" /\ J!NextJoins /\ UNCHANGED <<ofC, ofB, ofP, ofD, ofW, ofF, ofH>>
     \/ service = "power" /\ W!NextPower /\ UNCHANGED <<ofC, ofB, ofP, ofD, ofJ, ofF, ofH>>
     \/ service = "files" /\ F!NextFiles /\ UNCHANGED <<ofC, ofB, ofP, ofD, ofJ, ofW, ofH>>
     \/ service = "channel" /\ H!NextShell /\ UNCHANGED <<ofC, ofB, ofP, ofD, ofJ, ofW, ofF>>

\* Connections' fairness, for the behaviours that are its own
ZdedRuns == WF_ofC(service = "connections" /\ C!Zded)

Spec == Init /\ [][Next]_vars /\ ZdedRuns

-----------------------------------------------------------------------------
\* The states of every service are what its module says (zded, clip, bt,
\* bus, link, power, manifest; the shell's RequestChannel).
TypeOK == C!TypeOK /\ B!TypeOK /\ P!TypeOK /\ D!TypeOK /\ J!TypeOK /\ W!TypeOK /\ F!TypeOK
          /\ H!TypeOK

\* A surface answered as shown was drawn, and one drawn in time is; asks are told in
\* order, and none runs once Close has seen them gone (surface.go, ask_run.go).
ConnectionsHold == C!ShownIsDrawn /\ C!AsksInOrder

\* Whoever waits for an ask's end is not evicted to make room (connections.go).
AskedStays == C!AskedStays

\* A request is answered or its connection closed (sink_write.go).
Answered == C!Answered

\* The history keeps nothing too old, and no secret it could have known (clip.go, wl.go).
ClipForgets == B!ClipForgets

\* An entry put back is not recorded as a new one (clip.go Expect).
PutBackIsNotNew == B!PutBackIsNotNew

\* A pairing question is answered by name, stands, and will end (agent.go).
QuestionsHold == P!QuestionsHold

\* A yes is spent on the question that was read, or on nothing (agent.go).
YesIsForItsQuestion == P!YesIsForItsQuestion

\* No connection to the bus is leaked, doubled, or kept when given up (bluetooth.go, bus.go).
BusesHold == D!BusesHold

\* A join deletes only what it added, once it is over (nm.go watch).
SavedStays == J!SavedStays

\* An answer about power is true when given, a log out ends only one's own, and
\* the preset lock keeps its order (power.go, logind.go, lock.go).
PowerHolds == W!PowerHolds

\* The files zded writes are whole and true, and take nothing of anybody's
\* (rules.go, zen.go, manifest.go).
FilesHold == F!FilesHold

\* A call ends once, with its own reply or an error, and a question with its own
\* answer (RequestChannel.qml, AskWindow.qml).
ChannelHolds == H!ChannelHolds

=============================================================================
