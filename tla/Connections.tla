---------------------------- MODULE Connections -----------------------------
(***************************************************************************)
(* zded's socket (internal/zded): a goroutine per connection that reads    *)
(* one request, answers it and reads the next; the room those connections  *)
(* share; the listeners events are broadcast to; the surfaces a shell      *)
(* acknowledges; the popup pump; the asks that stream to the connection    *)
(* that asked; and Close.                                                  *)
(*                                                                         *)
(* A line goes out under the sink's gate, one writer at a time.  A reply   *)
(* and an ask's line may hold it for five seconds (two steps here); an     *)
(* event gives up after 200 ms (one step: sent, failed, or busy).  A five  *)
(* second waiter queued after the holder began, so the holder's deadline   *)
(* comes first and closes the connection: only reply need ask what to do   *)
(* then.  What a method does is other modules' matter: "call" is any that  *)
(* answers without showing a surface.  The order of last requests stands   *)
(* for their times.                                                        *)
(***************************************************************************)
EXTENDS Naturals, FiniteSets, SequencesExt

CONSTANTS
  Conn,            \* the connections dialled in a session, numbered in that order
  PidOf,           \* connection -> the process that dialled it
  ConnectionsMax, ListenersMax, AsksMax, PopupBacklog,
  Budgets,         \* what clients, tiers and the session may do: [dial, call, surface, ...]
  None

VARIABLES
  order,      \* s.conns, the one that has gone longest without asking first
  subs,       \* s.subs
  asks,       \* s.asks
  asking,     \* the connections whose sink says asking
  open,       \* the connections whose socket is open
  gate,       \* connection -> who writes a line to it: None, "reply" or "stream"
  job,        \* connection -> its handler: [at, line, token, todo, sent, owed]
  run,        \* connection -> its ask: "no", "claimed", "added", "runs", ...
  dropping,   \* evicted connections whose notice is not out yet
  tokens, waiting, acked,   \* surfaces: the last token, registered, resolved
  popups, pump,             \* how many wait, and the pump: [on, todo]
  closing,    \* Close: "no", "runs", "waits", "done" or "gaveup"
  thanked,    \* history: the tokens a shell has acknowledged
  drawn,      \* history: the tokens that reached a listener
  heard,      \* history: connection -> the lines of its asks, in order
  left        \* bound: what is left of the budget

vars == <<order, subs, asks, asking, open, gate, job, run, dropping, tokens, waiting,
          acked, popups, pump, closing, thanked, drawn, heard, left>>

Idle    == [at |-> "none", line |-> None, token |-> 0, todo |-> {}, sent |-> FALSE,
            owed |-> FALSE]
Held    == Range(order)
Exempt  == subs \cup asking
Gone(c) == RemoveFirst(order, c)
Touch(c) == Append(Gone(c), c)
Holds(p, s) == Cardinality({c \in Range(s) : PidOf[c] = p})
Spend(what) == left[what] > 0 /\ left' = [left EXCEPT ![what] = @ - 1]
Job(c, at)  == job' = [job EXCEPT ![c].at = at]
Answer(c, line) == job' = [job EXCEPT ![c].at = "answer", ![c].line = line]

rooms    == <<order, subs, open, dropping>>
surfaces == <<tokens, waiting, acked, thanked, drawn>>
asked    == <<asks, asking, run, heard>>
popping  == <<popups, pump>>

-----------------------------------------------------------------------------
(***************************************************************************)
(* Accepting, and the room connections share.                              *)
(***************************************************************************)
\* of the others, one of the process that holds most, the longest silent; or k
Evicted(k, s) ==
  LET may == {c \in Range(s) \ {k} : c \notin Exempt}
      n(c) == Holds(PidOf[c], s)
      most == {c \in may : \A d \in may : n(d) <= n(c)}
  IN  IF Len(s) <= ConnectionsMax THEN None
      ELSE IF may = {} THEN k
      ELSE s[SelectInSeq(s, LAMBDA c : c \in most)]

\* the arriving one is told and closed by its own handler, another in its own time
Admit(c) ==
  /\ closing = "no" /\ job[c].at = "none" /\ \A d \in Conn : d < c => job[d].at # "none"
  /\ Spend("dial")
  /\ LET s == Append(order, c)
         out == Evicted(c, s)
     IN  /\ order' = RemoveFirst(s, out)
         /\ open' = IF out = c THEN open ELSE open \cup {c}
         /\ Job(c, IF out = c THEN "left" ELSE "read")
         /\ dropping' = dropping \cup ({out} \cap open)
  /\ UNCHANGED <<subs, asked, gate, surfaces, popping, closing>>

\* the notice may not get out; the connection is closed either way
Drop(c) ==
  /\ c \in dropping
  /\ dropping' = dropping \ {c}
  /\ open' = open \ {c}
  /\ UNCHANGED <<order, subs, asked, gate, job, surfaces, popping, closing, left>>

Hangup(c) ==
  /\ c \in open
  /\ Spend("hangup")
  /\ open' = open \ {c}
  /\ UNCHANGED <<order, subs, dropping, asked, gate, job, surfaces, popping, closing>>

\* the read fails: forgotten, ended for its ask, and no longer a listener
Leave(c) ==
  /\ job[c].at = "read" /\ c \notin open
  /\ order' = Gone(c)
  /\ subs' = subs \ {c}
  /\ job' = [job EXCEPT ![c] = [Idle EXCEPT !.at = "left"]]
  /\ UNCHANGED <<open, dropping, asked, gate, surfaces, popping, closing, left>>

-----------------------------------------------------------------------------
(***************************************************************************)
(* A request is read, and answered.                                        *)
(***************************************************************************)
Reads(c, what) ==
  /\ job[c].at = "read" /\ c \in open
  /\ Spend(what)
  /\ order' = IF c \in Held THEN Touch(c) ELSE order

Begin(c, at, line) ==
  job' = [job EXCEPT ![c] = [Idle EXCEPT !.at = at, !.line = line, !.owed = TRUE]]

Call(c) ==
  /\ Reads(c, "call")
  /\ Begin(c, "answer", "ok")
  /\ UNCHANGED <<subs, open, dropping, asked, gate, surfaces, popping, closing>>

\* events: a listener stays one, and a full house refuses
Listen(c) ==
  /\ Reads(c, "listen")
  /\ subs' = IF Cardinality(subs) < ListenersMax THEN subs \cup {c} ELSE subs
  /\ Begin(c, "answer", "ok")
  /\ UNCHANGED <<open, dropping, asked, gate, surfaces, popping, closing>>

\* shown: a token that is waited for is resolved once, any other is thanked for
Acknowledge(c, t) ==
  /\ Reads(c, "shown")
  /\ acked' = acked \cup ({t} \cap waiting)
  /\ waiting' = waiting \ {t}
  /\ thanked' = thanked \cup {t}
  /\ Begin(c, "answer", "ok")
  /\ UNCHANGED <<subs, open, dropping, asked, gate, tokens, drawn, popping, closing>>

TakeGate(c) ==
  /\ job[c].at = "answer" /\ gate[c] = None
  /\ gate' = [gate EXCEPT ![c] = "reply"]
  /\ UNCHANGED <<rooms, asked, job, surfaces, popping, closing, left>>

\* the reply is out; after "asking", the stream starts
Replied(c) ==
  /\ gate[c] = "reply" /\ c \in open
  /\ gate' = [gate EXCEPT ![c] = None]
  /\ job' = [job EXCEPT ![c] = [Idle EXCEPT !.at = "read"]]
  /\ IF job[c].line = "asking"
       THEN /\ heard' = [heard EXCEPT ![c] = Append(@, "asking")]
            /\ run' = [run EXCEPT ![c] = IF @ = "added" THEN "runs" ELSE @]
       ELSE UNCHANGED <<heard, run>>
  /\ UNCHANGED <<rooms, asks, asking, surfaces, popping, closing, left>>

\* a line that fails or runs out of time cannot be repaired: the connection closes
Unwritten(c) == open' = open \ {c}

AfterReply(c) ==
  /\ job' = [job EXCEPT ![c].at = "read", ![c].line = None]
  /\ run' = [run EXCEPT ![c] = IF job[c].line = "asking" /\ @ = "added" THEN "runs" ELSE @]

ReplyFails(c) ==
  /\ gate[c] = "reply"
  /\ gate' = [gate EXCEPT ![c] = None]
  /\ Unwritten(c)
  /\ AfterReply(c)
  /\ UNCHANGED <<order, subs, dropping, asks, asking, heard, surfaces, popping, closing, left>>

\* no gate in five seconds: closed, rather than left unanswered on a live socket
ReplyGivesUp(c) ==
  /\ job[c].at = "answer" /\ gate[c] = "stream"
  /\ Unwritten(c)
  /\ AfterReply(c)
  /\ UNCHANGED <<order, subs, dropping, asks, asking, heard, gate, surfaces, popping,
                 closing, left>>

-----------------------------------------------------------------------------
(***************************************************************************)
(* Surfaces: a token is registered, broadcast, and acknowledged in time or *)
(* not.  Listeners are sent to at once, and the slow cost one wait.        *)
(***************************************************************************)
Surface(c) ==
  /\ Reads(c, "surface")
  /\ Begin(c, "await", "no")
  /\ UNCHANGED <<subs, open, dropping, asked, gate, surfaces, popping, closing>>

\* mutant: the token is registered only after the broadcast, too late for this one
AwaitLater(c) ==
  /\ job[c].at = "await"
  /\ tokens' = tokens + 1
  /\ job' = [job EXCEPT ![c].at = "snapshot", ![c].token = tokens + 1]
  /\ UNCHANGED <<rooms, asked, gate, waiting, acked, thanked, drawn, popping, closing, left>>

Await(c) ==
  /\ job[c].at = "await"
  /\ tokens' = tokens + 1
  /\ waiting' = waiting \cup {tokens + 1}
  /\ job' = [job EXCEPT ![c].at = "snapshot", ![c].token = tokens + 1]
  /\ UNCHANGED <<rooms, asked, gate, acked, thanked, drawn, popping, closing, left>>

Snapshot(c) ==
  /\ job[c].at = "snapshot"
  /\ job' = [job EXCEPT ![c].at = "send", ![c].todo = subs]
  /\ UNCHANGED <<rooms, asked, gate, surfaces, popping, closing, left>>

\* what becomes of an event for l: how is "sent", "fails" or "busy"
EventTo(l, how) ==
  /\ how = "busy" <=> gate[l] # None
  /\ how = "sent" => l \in open
  /\ IF how = "fails" THEN subs' = subs \ {l} /\ open' = open \ {l}
                      ELSE UNCHANGED <<subs, open>>

Send(c, l, how) ==
  /\ job[c].at = "send" /\ l \in job[c].todo
  /\ EventTo(l, how)
  /\ job' = [job EXCEPT ![c].todo = @ \ {l}, ![c].sent = @ \/ how = "sent"]
  /\ drawn' = IF how = "sent" THEN drawn \cup {job[c].token} ELSE drawn
  /\ UNCHANGED <<order, dropping, asked, gate, tokens, waiting, acked, thanked, popping,
                 closing, left>>

Sent(c) ==
  /\ job[c].at = "send" /\ job[c].todo = {}
  /\ IF job[c].sent THEN Job(c, "wait") /\ UNCHANGED waiting
     ELSE Answer(c, "no") /\ waiting' = waiting \ {job[c].token}
  /\ UNCHANGED <<rooms, asked, gate, tokens, acked, thanked, drawn, popping, closing, left>>

\* mutant: no timer beside the acknowledgement
ShownUntimed(c) ==
  /\ job[c].at = "wait" /\ job[c].token \in acked
  /\ Answer(c, "yes")
  /\ waiting' = waiting \ {job[c].token}
  /\ UNCHANGED <<rooms, asked, gate, tokens, acked, thanked, drawn, popping, closing, left>>

\* whichever comes first: the acknowledgement, or 200 ms
Shown(c) ==
  /\ job[c].at = "wait"
  /\ Answer(c, IF job[c].token \in acked THEN "yes" ELSE "no")
  /\ waiting' = waiting \ {job[c].token}
  /\ UNCHANGED <<rooms, asked, gate, tokens, acked, thanked, drawn, popping, closing, left>>

-----------------------------------------------------------------------------
(***************************************************************************)
(* Popups: offered without waiting, sent by one pump in their order.       *)
(***************************************************************************)
Pop ==
  /\ Spend("pop")
  /\ popups' = IF popups < PopupBacklog THEN popups + 1 ELSE popups
  /\ pump' = IF pump.on = "no" THEN [pump EXCEPT !.on = "yes"] ELSE pump
  /\ UNCHANGED <<rooms, asked, gate, job, surfaces, closing>>

PumpTakes ==
  /\ pump.on = "yes" /\ pump.todo = {} /\ popups > 0
  /\ popups' = popups - 1
  /\ pump' = [pump EXCEPT !.todo = subs]
  /\ UNCHANGED <<rooms, asked, gate, job, surfaces, closing, left>>

PumpSends(l, how) ==
  /\ l \in pump.todo
  /\ EventTo(l, how)
  /\ pump' = [pump EXCEPT !.todo = @ \ {l}]
  /\ UNCHANGED <<order, dropping, asked, gate, job, surfaces, popups, closing, left>>

PumpStops ==
  /\ pump.on = "yes" /\ pump.todo = {} /\ closing # "no"
  /\ pump' = [pump EXCEPT !.on = "stopped"]
  /\ UNCHANGED <<rooms, asked, gate, job, surfaces, popups, closing, left>>

-----------------------------------------------------------------------------
(***************************************************************************)
(* Asks: claimed on the read loop, accepted, then streamed by a goroutine  *)
(* of their own that ends with its one Done line.                          *)
(***************************************************************************)
Ask(c) ==
  /\ Reads(c, "ask")
  /\ IF c \in asking \/ asks >= AsksMax
       THEN Begin(c, "answer", "no") /\ UNCHANGED <<asks, run>>
       ELSE /\ Begin(c, "start", None)
            /\ asks' = asks + 1
            /\ run' = [run EXCEPT ![c] = "claimed"]
  /\ UNCHANGED <<subs, open, dropping, asking, heard, gate, surfaces, popping, closing>>

\* mutant: the goroutine starts before the acceptance is written
StartRunAtOnce(c) ==
  /\ job[c].at = "start"
  /\ asking' = asking \cup {c}
  /\ run' = [run EXCEPT ![c] = "runs"]
  /\ Answer(c, "asking")
  /\ UNCHANGED <<rooms, asks, heard, gate, surfaces, popping, closing, left>>

\* asking is said, and the run is counted unless the daemon is stopping
StartRun(c) ==
  /\ job[c].at = "start"
  /\ IF closing \in {"no", "runs"}
       THEN /\ asking' = asking \cup {c}
            /\ run' = [run EXCEPT ![c] = "added"]
            /\ Answer(c, "asking")
            /\ UNCHANGED asks
       ELSE /\ asks' = asks - 1
            /\ run' = [run EXCEPT ![c] = "no"]
            /\ Answer(c, "no")
            /\ UNCHANGED asking
  /\ UNCHANGED <<rooms, heard, gate, surfaces, popping, closing, left>>

TierSpeaks(c) ==
  /\ run[c] = "runs"
  /\ Spend("speak")
  /\ run' = [run EXCEPT ![c] = "text"]
  /\ UNCHANGED <<rooms, asks, asking, heard, gate, job, surfaces, popping, closing>>

\* mutant: asking ends with the tier, before its Done line is out
TierEndsAndRests(c) ==
  /\ run[c] = "runs"
  /\ run' = [run EXCEPT ![c] = "done"]
  /\ asking' = asking \ {c}
  /\ UNCHANGED <<rooms, asks, heard, gate, job, surfaces, popping, closing, left>>

\* it ends, fails, says too much or is out of time; or its client or zded is going
TierEnds(c) ==
  /\ run[c] = "runs"
  /\ run' = [run EXCEPT ![c] = "done"]
  /\ UNCHANGED <<rooms, asks, asking, heard, gate, job, surfaces, popping, closing, left>>

StreamGate(c) ==
  /\ run[c] \in {"text", "done"} /\ gate[c] = None
  /\ gate' = [gate EXCEPT ![c] = "stream"]
  /\ UNCHANGED <<rooms, asked, job, surfaces, popping, closing, left>>

Streamed(c) ==
  /\ gate[c] = "stream" /\ c \in open
  /\ gate' = [gate EXCEPT ![c] = None]
  /\ heard' = [heard EXCEPT ![c] = Append(@, run[c])]
  /\ run' = [run EXCEPT ![c] = IF @ = "text" THEN "runs" ELSE "ending"]
  /\ UNCHANGED <<rooms, asks, asking, job, surfaces, popping, closing, left>>

\* text that cannot be delivered stops the tier; Done is tried once
StreamFails(c) ==
  /\ gate[c] = "stream"
  /\ gate' = [gate EXCEPT ![c] = None]
  /\ Unwritten(c)
  /\ run' = [run EXCEPT ![c] = IF @ = "text" THEN "done" ELSE "ending"]
  /\ UNCHANGED <<order, subs, dropping, asks, asking, heard, job, surfaces, popping,
                 closing, left>>

\* the deferred calls: the claim goes back, then asking and the count of runs
ReleaseAsk(c) ==
  /\ run[c] = "ending"
  /\ asks' = asks - 1
  /\ run' = [run EXCEPT ![c] = "released"]
  /\ UNCHANGED <<rooms, asking, heard, gate, job, surfaces, popping, closing, left>>

RunDone(c) ==
  /\ run[c] = "released"
  /\ asking' = asking \ {c}
  /\ run' = [run EXCEPT ![c] = "no"]
  /\ UNCHANGED <<rooms, asks, heard, gate, job, surfaces, popping, closing, left>>

-----------------------------------------------------------------------------
(***************************************************************************)
(* Close: the pump and the listener stop, then runs, waited for so long.   *)
(***************************************************************************)
Counted == {c \in Conn : run[c] \notin {"no", "claimed"}}

Close ==
  /\ closing = "no"
  /\ Spend("close")
  /\ closing' = "runs"
  /\ UNCHANGED <<rooms, asked, gate, job, surfaces, popping>>

StopRuns ==
  /\ closing = "runs"
  /\ closing' = "waits"
  /\ UNCHANGED <<rooms, asked, gate, job, surfaces, popping, left>>

RunsGone ==
  /\ closing = "waits" /\ Counted = {}
  /\ closing' = "done"
  /\ UNCHANGED <<rooms, asked, gate, job, surfaces, popping, left>>

WaitedEnough ==
  /\ closing = "waits" /\ Counted # {}
  /\ closing' = "gaveup"
  /\ UNCHANGED <<rooms, asked, gate, job, surfaces, popping, left>>

-----------------------------------------------------------------------------
Hows == {"sent", "fails", "busy"}

Handler(c) ==
  \/ Leave(c) \/ TakeGate(c) \/ Replied(c) \/ ReplyFails(c) \/ ReplyGivesUp(c)
  \/ Await(c) \/ Snapshot(c) \/ (\E l \in Conn, how \in Hows : Send(c, l, how))
  \/ Sent(c) \/ Shown(c) \/ StartRun(c)

AskRun(c) ==
  \/ TierEnds(c) \/ StreamGate(c) \/ Streamed(c) \/ StreamFails(c)
  \/ ReleaseAsk(c) \/ RunDone(c)

Pump == PumpTakes \/ (\E l \in Conn, how \in Hows : PumpSends(l, how)) \/ PumpStops

Closes == StopRuns \/ RunsGone \/ WaitedEnough

Client(c) ==
  \/ Admit(c) \/ Hangup(c) \/ Call(c) \/ Listen(c) \/ Surface(c) \/ Ask(c)
  \/ (\E t \in drawn : Acknowledge(c, t))

Init ==
  /\ order = << >> /\ subs = {} /\ asks = 0 /\ asking = {} /\ open = {}
  /\ gate = [c \in Conn |-> None]
  /\ job = [c \in Conn |-> Idle]
  /\ run = [c \in Conn |-> "no"]
  /\ dropping = {} /\ tokens = 0 /\ waiting = {} /\ acked = {}
  /\ popups = 0 /\ pump = [on |-> "no", todo |-> {}]
  /\ closing = "no" /\ thanked = {} /\ drawn = {}
  /\ heard = [c \in Conn |-> << >>]
  /\ left \in Budgets

Zded ==
  \/ \E c \in Conn : Handler(c) \/ AskRun(c) \/ Drop(c)
  \/ Pump \/ Closes

Next == Zded \/ (\E c \in Conn : Client(c) \/ TierSpeaks(c)) \/ Pop \/ Close

\* zded's goroutines run until none can; clients, tiers and the session owe nothing
Fairness == WF_vars(Zded)

Spec == Init /\ [][Next]_vars /\ Fairness

-----------------------------------------------------------------------------
TypeOK ==
  /\ Held \subseteq Conn /\ IsInjective(order)
  /\ Len(order) <= ConnectionsMax
  /\ subs \subseteq Conn /\ Cardinality(subs) <= ListenersMax
  /\ asks \in 0 .. AsksMax /\ asking \subseteq Conn /\ open \subseteq Conn
  /\ gate \in [Conn -> {None, "reply", "stream"}]
  /\ job \in [Conn -> [at : {"none", "left", "read", "answer", "await", "snapshot", "send", "wait", "start"},
                       line : {None, "ok", "yes", "no", "asking"}, token : 0 .. tokens,
                       todo : SUBSET Conn, sent : BOOLEAN, owed : BOOLEAN]]
  /\ run \in [Conn -> {"no", "claimed", "added", "runs", "text", "done", "ending", "released"}]
  /\ dropping \subseteq Conn
  /\ waiting \subseteq 1 .. tokens /\ acked \subseteq 1 .. tokens
  /\ popups \in 0 .. PopupBacklog
  /\ pump \in [on : {"no", "yes", "stopped"}, todo : SUBSET Conn]
  /\ closing \in {"no", "runs", "waits", "done", "gaveup"}

\* A surface that a shell has drawn and acknowledged while its request still
\* waits is answered as shown, however early the acknowledgement came; and
\* none is answered as shown that no shell acknowledged (surface.go).
ShownIsDrawn ==
  \A c \in Conn :
    /\ job[c].at \in {"snapshot", "send", "wait"} /\ job[c].token \in thanked
         => job[c].token \in acked
    /\ job[c].line = "yes" => job[c].token \in thanked

\* A connection hears of its asks in order: accepted, then what the tier
\* says, then one Done before the next is accepted (socket.go startRun, ask_run.go).
StreamInOrder ==
  \A c \in Conn : \A i \in 1 .. Len(heard[c]) :
    LET before == IF i = 1 THEN "done" ELSE heard[c][i - 1]
    IN  heard[c][i] = "asking" <=> before = "done"

Unfinished(c) == heard[c] # << >> /\ Last(heard[c]) # "done"

\* who is kept no longer once c has come
PutOut(c) == (Held \cup {c}) \ Range(order')

(***************************************************************************)
(* Who makes room (connections.go admit, ask_request.go askOn): exactly    *)
(* one connection when there is none left, and nobody before that; never a *)
(* listener, nor one that is open and was told "asking" and not yet of its *)
(* Done, so asking covers what a client sees; and the one arriving only    *)
(* when every other is exempt.                                             *)
(***************************************************************************)
AskedStays ==
  [][/\ \A c \in dropping' \ dropping : ~Unfinished(c)
     /\ \A c \in Conn : Admit(c) =>
          /\ Cardinality(PutOut(c)) = IF Len(order) = ConnectionsMax THEN 1 ELSE 0
          /\ PutOut(c) \cap subs \subseteq {c}
          /\ c \in PutOut(c) => Held \subseteq Exempt]_vars

\* Once Close has seen every run gone, none is going or starts (socket.go).
StoppedIsQuiet == closing = "done" => Counted = {} /\ asking = {}

\* What is counted as taken of the places for asks is what asks have taken and
\* not given back: none leaks by a refusal, a failed line, a stop or a client
\* that went, and so they never run out for good (ask_request.go, ask_run.go).
Taking == {"claimed", "added", "runs", "text", "done", "ending"}
ClaimsReturn == asks = Cardinality({c \in Conn : run[c] \in Taking})

AsksInOrder == StreamInOrder /\ StoppedIsQuiet /\ ClaimsReturn

\* A request is answered or its connection is closed, whatever the shells,
\* the tiers and the other connections do: none is owed one for good (sink_write.go).
Answered == \A c \in Conn : []<>(job[c].owed => c \notin open)

=============================================================================
