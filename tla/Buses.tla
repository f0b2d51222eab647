------------------------------- MODULE Buses --------------------------------
(***************************************************************************)
(* The three connections to the system bus zded opens when first asked     *)
(* (internal/zded bluetooth.go, net_manager.go, power_manager.go;          *)
(* internal/bus; Open and Dial of internal/bt, link and power): the radio, *)
(* dialled under a lock of its own and given up by the session's end; the  *)
(* link, dialled under its only lock; and logind, where one dial is        *)
(* published to everybody who waits.  All three drop a dead connection     *)
(* and keep one that works, and all three go through bus.Connect, which    *)
(* gives up on a socket or a handshake that is too slow.                   *)
(*                                                                         *)
(* A question that finds its connection is answered in one step: what it   *)
(* then asks changes nothing here.  How long an absence is remembered for  *)
(* is a choice: it grows old at any time.                                  *)
(***************************************************************************)
EXTENDS Naturals

CONSTANTS
  Asker,        \* requests that ask one of the three
  Dials,        \* connections a session makes at most, a number
  BusBudgets,   \* [call, fail, die, age, close]: what may happen at most
  None

Kinds == {"radio", "link", "logins"}

VARIABLES
  conn,       \* number -> [at, kind, gone]: "none", "socket", "open", "live", "dead" or "closed"
  made,       \* how many have been dialled
  have,       \* s.bluetooth, s.link and s.logind: a number, or 0
  gone,       \* s.bluetoothGone
  held,       \* who holds bluetoothDial and linkMu, and who dials logind
  absent,     \* the absence remembered: "no", "fresh" or "old"
  ask,        \* request -> [at, kind, conn, old, gone]
  reaped,     \* sockets given up on before they opened: whoever opens one closes it
  closer,     \* the connection closeRadio has taken and not closed yet, or 0
  purse       \* bound: what is left of the budget

buses == <<conn, made, have, gone, held, absent, ask, reaped, closer, purse>>

Pays(what) == purse[what] > 0 /\ purse' = [purse EXCEPT ![what] = @ - 1]
Done  == [at |-> "none", kind |-> "radio", conn |-> 0, old |-> 0, gone |-> 0]
Alive(k) == have[k] # 0 /\ conn[have[k]].at = "live"
Closed(i, table) == IF i = 0 THEN table ELSE [table EXCEPT ![i].at = "closed"]

-----------------------------------------------------------------------------
(***************************************************************************)
(* Asking: what is kept, what is remembered as absent, or a dial.          *)
(***************************************************************************)
\* the socket is asked for on a goroutine of its own; what went before is closed
Opening(t, k, table) ==
  /\ made < Dials /\ made' = made + 1
  /\ conn' = [table EXCEPT ![made'] = [at |-> "socket", kind |-> k, gone |-> gone]]
  /\ ask' = [ask EXCEPT ![t] = [Done EXCEPT !.at = "opening", !.kind = k, !.conn = made', !.gone = gone]]

Kept(t, k) ==
  /\ ask[t].at = "none" /\ Alive(k) /\ Pays("call")
  /\ k = "logins" \/ held[k] = None
  /\ UNCHANGED <<conn, made, have, gone, held, absent, ask, reaped, closer>>

\* under bluetoothDial; the field's own lock is let go before anything is closed
AsksRadio(t) ==
  /\ ask[t].at = "none" /\ held.radio = None /\ ~Alive("radio") /\ Pays("call")
  /\ held' = [held EXCEPT !.radio = t]
  /\ have' = [have EXCEPT !.radio = 0]
  /\ ask' = [ask EXCEPT ![t] = [Done EXCEPT !.at = "drops", !.old = have.radio, !.gone = gone]]
  /\ UNCHANGED <<conn, made, gone, absent, reaped, closer>>

DialsRadio(t) ==
  /\ ask[t].at = "drops" /\ made < Dials /\ made' = made + 1
  /\ conn' = [Closed(ask[t].old, conn) EXCEPT ![made'] =
                [at |-> "socket", kind |-> "radio", gone |-> ask[t].gone]]
  /\ ask' = [ask EXCEPT ![t].at = "opening", ![t].conn = made', ![t].old = 0]
  /\ UNCHANGED <<have, gone, held, absent, reaped, closer, purse>>

\* under linkMu from here to the answer
AsksLink(t) ==
  /\ ask[t].at = "none" /\ held.link = None /\ ~Alive("link") /\ Pays("call")
  /\ have' = [have EXCEPT !.link = 0]
  /\ IF absent.link = "fresh"
     THEN conn' = Closed(have.link, conn) /\ UNCHANGED <<made, ask, held>>
     ELSE Opening(t, "link", Closed(have.link, conn)) /\ held' = [held EXCEPT !.link = t]
  /\ UNCHANGED <<gone, absent, reaped, closer>>

\* under powerMu, which a dial is not: a remembered absence answers while one goes on
AsksLogins(t) ==
  /\ ask[t].at = "none" /\ ~Alive("logins") /\ Pays("call")
  /\ have' = [have EXCEPT !.logins = 0]
  /\ LET table == Closed(have.logins, conn) IN
     \/ /\ absent.logins = "fresh" \/ (held.logins # None /\ absent.logins = "old")
        /\ conn' = table /\ UNCHANGED <<made, ask, held>>
     \/ /\ held.logins # None /\ absent.logins = "no"
        /\ ask' = [ask EXCEPT ![t] = [Done EXCEPT !.at = "awaits", !.kind = "logins",
                                                  !.conn = ask[held.logins].conn]]
        /\ conn' = table /\ UNCHANGED <<made, held>>
     \/ /\ held.logins = None /\ absent.logins # "fresh"
        /\ Opening(t, "logins", table) /\ held' = [held EXCEPT !.logins = t]
  /\ UNCHANGED <<gone, absent, reaped, closer>>

\* the dial this one waited for has been published
Awaited(t) ==
  /\ ask[t].at = "awaits" /\ \A d \in Asker \ {t} : ask[d].conn # ask[t].conn \/ ask[d].at \in {"none", "awaits"}
  /\ ask' = [ask EXCEPT ![t] = Done]
  /\ UNCHANGED <<conn, made, have, gone, held, absent, reaped, closer, purse>>

-----------------------------------------------------------------------------
(***************************************************************************)
(* bus.Connect, and what Dial and Open do with the connection.             *)
(***************************************************************************)
Socket(i) ==
  /\ conn[i].at = "socket"
  /\ \/ conn' = [conn EXCEPT ![i].at = "open"] /\ UNCHANGED purse
     \/ conn' = [conn EXCEPT ![i].at = "closed"] /\ Pays("fail")
  /\ UNCHANGED <<made, have, gone, held, absent, ask, reaped, closer>>

Reaps(i) ==
  /\ i \in reaped /\ conn[i].at # "socket"
  /\ conn' = [conn EXCEPT ![i].at = "closed"] /\ reaped' = reaped \ {i}
  /\ UNCHANGED <<made, have, gone, held, absent, ask, closer, purse>>

\* what the three remember of a dial that gave nothing: the link and logind, absence
Fails(t, why) ==
  LET k == ask[t].kind IN
  /\ ask' = [ask EXCEPT ![t] = Done]
  /\ held' = [held EXCEPT ![k] = None]
  /\ absent' = IF why = "absent" /\ k # "radio" THEN [absent EXCEPT ![k] = "fresh"] ELSE absent
  /\ UNCHANGED <<made, have, gone, closer>>

Opened(t) ==
  /\ ask[t].at = "opening"
  /\ \/ /\ conn[ask[t].conn].at = "open"
        /\ ask' = [ask EXCEPT ![t].at = "shaking"]
        /\ UNCHANGED <<made, have, gone, held, absent, closer>>
     \/ conn[ask[t].conn].at = "closed" /\ Fails(t, "absent")
  /\ UNCHANGED <<conn, reaped, purse>>

\* nothing to close yet: a goroutine is left to close what opens late
OpenTooSlow(t) ==
  /\ ask[t].at = "opening" /\ Pays("fail") /\ Fails(t, "absent")
  /\ reaped' = reaped \cup {ask[t].conn}
  /\ UNCHANGED conn

Shaken(t) ==
  /\ ask[t].at = "shaking"
  /\ \/ /\ ask' = [ask EXCEPT ![t].at = "checking"]
        /\ UNCHANGED <<conn, made, have, gone, held, absent, closer, purse>>
     \/ /\ Pays("fail") /\ Fails(t, "absent")      \* refused, or too slow: closed either way
        /\ conn' = Closed(ask[t].conn, conn)
  /\ UNCHANGED reaped

\* the agent is exported; the name is looked for
Checked(t) ==
  /\ ask[t].at = "checking"
  /\ \/ /\ conn' = [conn EXCEPT ![ask[t].conn].at = "live"]
        /\ ask' = [ask EXCEPT ![t].at = "publish"]
        /\ UNCHANGED <<made, have, gone, held, absent, closer, purse>>
     \/ /\ Pays("fail")
        /\ \E why \in {"absent", "other"} : Fails(t, why)
        /\ conn' = Closed(ask[t].conn, conn)
  /\ UNCHANGED reaped

\* mutant: what was dialled is kept, whatever was given up meanwhile
PublishesAnyway(t) ==
  LET k == ask[t].kind IN
  /\ ask[t].at = "publish"
  /\ ask' = [ask EXCEPT ![t] = Done] /\ held' = [held EXCEPT ![k] = None]
  /\ have' = [have EXCEPT ![k] = ask[t].conn]
  /\ absent' = [absent EXCEPT ![k] = "no"]
  /\ UNCHANGED <<conn, made, gone, reaped, closer, purse>>

\* kept, unless the radio was given up while it was dialled
Publishes(t) ==
  LET k == ask[t].kind
      lost == k = "radio" /\ gone # ask[t].gone
  IN
  /\ ask[t].at = "publish"
  /\ ask' = [ask EXCEPT ![t] = Done] /\ held' = [held EXCEPT ![k] = None]
  /\ have' = IF lost THEN have ELSE [have EXCEPT ![k] = ask[t].conn]
  /\ conn' = IF lost THEN Closed(ask[t].conn, conn) ELSE conn
  /\ absent' = [absent EXCEPT ![k] = "no"]
  /\ UNCHANGED <<made, gone, reaped, closer, purse>>

-----------------------------------------------------------------------------
(***************************************************************************)
(* The session's end, and the world.                                       *)
(***************************************************************************)
CloseRadio ==
  /\ closer = 0 /\ Pays("close")
  /\ closer' = have.radio /\ have' = [have EXCEPT !.radio = 0] /\ gone' = gone + 1
  /\ UNCHANGED <<conn, made, held, absent, ask, reaped>>

ClosesTaken ==
  /\ closer # 0 /\ conn' = Closed(closer, conn) /\ closer' = 0
  /\ UNCHANGED <<made, have, gone, held, absent, ask, reaped, purse>>

Dies(i) ==
  /\ conn[i].at = "live" /\ Pays("die")
  /\ conn' = [conn EXCEPT ![i].at = "dead"]
  /\ UNCHANGED <<made, have, gone, held, absent, ask, reaped, closer>>

Ages(k) ==
  /\ absent[k] = "fresh" /\ Pays("age")
  /\ absent' = [absent EXCEPT ![k] = "old"]
  /\ UNCHANGED <<conn, made, have, gone, held, ask, reaped, closer>>

InitBuses ==
  /\ conn = [i \in 1 .. Dials |-> [at |-> "none", kind |-> "radio", gone |-> 0]]
  /\ made = 0 /\ have = [k \in Kinds |-> 0] /\ gone = 0
  /\ held = [k \in Kinds |-> None] /\ absent = [k \in Kinds |-> "no"]
  /\ ask = [t \in Asker |-> Done]
  /\ reaped = {} /\ closer = 0
  /\ purse \in BusBudgets

Asks(t) ==
  \/ \E k \in Kinds : Kept(t, k)
  \/ AsksRadio(t) \/ DialsRadio(t) \/ AsksLink(t) \/ AsksLogins(t) \/ Awaited(t)

NextBuses ==
  \/ \E t \in Asker : \/ Asks(t) \/ Opened(t) \/ OpenTooSlow(t) \/ Shaken(t)
                      \/ Checked(t) \/ Publishes(t)
  \/ \E i \in 1 .. Dials : Socket(i) \/ Reaps(i) \/ Dies(i)
  \/ CloseRadio \/ ClosesTaken
  \/ \E k \in Kinds : Ages(k)

SpecBuses == InitBuses /\ [][NextBuses]_buses

-----------------------------------------------------------------------------
TypeOK ==
  /\ conn \in [1 .. Dials -> [at : {"none", "socket", "open", "live", "dead", "closed"},
                              kind : Kinds, gone : 0 .. gone]]
  /\ made \in 0 .. Dials /\ have \in [Kinds -> 0 .. made]
  /\ held \in [Kinds -> Asker \cup {None}]
  /\ absent \in [Kinds -> {"no", "fresh", "old"}]
  /\ reaped \subseteq 1 .. made /\ closer \in 0 .. made
  /\ ask \in [Asker -> [at : {"none", "drops", "opening", "shaking", "checking", "publish", "awaits"},
                        kind : Kinds, conn : 0 .. made, old : 0 .. made, gone : 0 .. gone]]

InHand == UNION {{ask[t].conn, ask[t].old} : t \in {u \in Asker : ask[u].at # "awaits"}}

\* Every socket that is open is kept, in the hands of a dial, or about to be
\* closed by somebody: a slow bus, a dead connection and an absent service
\* leave nothing behind (bus.go Connect, Open, links, logins).
NothingLeaks ==
  \A i \in 1 .. made :
    conn[i].at \in {"open", "live", "dead"} =>
      i \in InHand \cup reaped \cup {closer} \cup {have[k] : k \in Kinds}

\* One pairing agent is on the bus at a time, and each of the three has one dial
\* (bluetooth.go radio: two would be two agents; power_manager.go logins).
OneOfEach ==
  /\ \A i, j \in {a \in 1 .. made \ {closer} : conn[a].at = "live" /\ conn[a].kind = "radio"} : i = j
  /\ \A t, u \in {a \in Asker : ask[a].at \notin {"none", "awaits"}} :
       ask[t].kind = ask[u].kind => t = u

\* What the session's end gave up stays given up: no dial begun before it is
\* kept after it (bluetooth.go closeRadio).
GivenUpStays == have.radio # 0 => conn[have.radio].gone = gone

BusesHold == NothingLeaks /\ OneOfEach /\ GivenUpStays

=============================================================================
