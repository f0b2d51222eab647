---------------------------- MODULE ShellChannel ----------------------------
(***************************************************************************)
(* The shell's end of a connection to zded (shell/RequestChannel.qml over   *)
(* shell/Dialer.qml) and the window that asks over one (AskWindow.qml,      *)
(* AskSurface.qml).  Requests carry an id; a daemon older than ids answers  *)
(* without, and answers are pieces without ids on either.  QML runs one     *)
(* handler at a time, so an action is a handler.  A behaviour's stock says  *)
(* which channel it is of: the stream's, with calls and acknowledgements,   *)
(* or the ask window's, with questions only.                                *)
(***************************************************************************)
EXTENDS Naturals, Sequences, FiniteSets, SequencesExt

CONSTANTS
  None,
  PendingMax,  \* replies waited for at once, and tokens queued
  ShellBudgets \* the stocks a behaviour may begin with

VARIABLES
  link,      \* the socket of the moment, whether it is connected, probed, and old
  sequence,  \* the last id
  pending,   \* the ids waited for
  acks,      \* shown tokens waiting to be written
  outcome,   \* history: <<id, the id whose reply it got, or 0 for an error>>, and what ended again
  peer,      \* zded's end of that socket
  lines,     \* lines on their way, those of a retired socket among them
  window,    \* what AskWindow shows and waits for
  stock      \* bound: what people, time and the daemon may still do

shell == <<link, sequence, pending, acks, outcome, peer, lines, window, stock>>

Uses(what) == stock[what] > 0 /\ stock' = [stock EXCEPT ![what] = @ - 1]
Connected  == link.up /\ link.ready
Cap        == IF link.legacy THEN 1 ELSE PendingMax
NewPeer(old) == [old |-> old, todo |-> {0}, asking |-> 0, gone |-> FALSE]  \* 0 is the probe
Closed     == [window EXCEPT !.running = FALSE, !.awaiting = FALSE, !.live = {}]

Ended      == {result[1] : result \in outcome.results}
Ends(results) ==
  outcome' = [results |-> outcome.results \cup results,
              again |-> outcome.again \cup (Ended \cap {result[1] : result \in results})]

-----------------------------------------------------------------------------
(***************************************************************************)
(* fail, restart and the socket.                                           *)
(***************************************************************************)
\* every callback released, with an error, and the window told
Fail ==
  /\ pending' = {} /\ acks' = 0
  /\ Ends({<<id, 0>> : id \in pending})
  /\ window' = IF window.running THEN Closed ELSE window
  /\ UNCHANGED sequence

\* a new socket, which connects at once or after a while, and the probe on it
Dial ==
  \E up, old \in BOOLEAN :
    /\ link' = [link EXCEPT !.sock = @ + 1, !.up = up, !.ready = FALSE]
    /\ peer' = NewPeer(old)

Restart == Fail /\ Dial

Redial == ~link.up /\ Restart /\ link'.up /\ UNCHANGED <<lines, stock>>

\* only the socket of the moment is listened to
Hears(l) == l.conn = link.sock

\* the end of a socket comes after its last line
Loses ==
  /\ link.up /\ ~ \E i \in DOMAIN lines : Hears(lines[i])
  /\ Fail
  /\ Uses("lose") \/ (peer.gone /\ UNCHANGED stock)
  /\ link' = [link EXCEPT !.up = FALSE, !.ready = FALSE]
  /\ UNCHANGED <<peer, lines>>

-----------------------------------------------------------------------------
(***************************************************************************)
(* Calls, acknowledgements and questions.                                  *)
(***************************************************************************)
\* these ids are written and waited for, beside those still in rest
Writes(n, rest) ==
  LET ids == sequence + 1 .. sequence + n IN
  /\ sequence' = sequence + n
  /\ pending' = rest \cup ids
  /\ peer' = [peer EXCEPT !.todo = @ \cup ids]

\* flushAcknowledgements, with these ids waited for and so many tokens queued
Flush(rest, queued) ==
  LET free == IF Cardinality(rest) < Cap THEN Cap - Cardinality(rest) ELSE 0
      n    == IF queued < free THEN queued ELSE free
  IN  Writes(n, rest) /\ acks' = queued - n

Takes == Connected /\ Cardinality(pending) < Cap

Call ==
  /\ Uses("call")
  /\ IF Takes THEN Writes(1, pending) ELSE UNCHANGED <<sequence, pending, peer>>
  /\ UNCHANGED <<link, acks, outcome, lines, window>>

Acknowledge ==
  /\ Uses("ack") /\ Connected /\ acks < PendingMax
  /\ Flush(pending, acks + 1)
  /\ UNCHANGED <<link, outcome, lines, window>>

\* refused, it ends before it began
Submit ==
  /\ Uses("ask") /\ ~window.running
  /\ IF Takes
     THEN /\ Writes(1, pending)
          /\ window' = [on |-> sequence + 1, running |-> TRUE, awaiting |-> TRUE, live |-> {}]
     ELSE /\ window' = [Closed EXCEPT !.on = 0]
          /\ UNCHANGED <<sequence, pending, peer>>
  /\ UNCHANGED <<link, acks, outcome, lines>>

\* a window opened afresh, or ctrl+n
Forget ==
  /\ Uses("forget")
  /\ window' = [window EXCEPT !.awaiting = FALSE, !.live = {}]
  /\ UNCHANGED <<link, sequence, pending, acks, outcome, peer, lines>>

-----------------------------------------------------------------------------
(***************************************************************************)
(* zded: answers in any order, for an ask's and a put's come later.        *)
(***************************************************************************)
Line(kind, of, ok) ==
  [conn |-> link.sock, kind |-> kind, of |-> of, ok |-> ok,
   id |-> IF kind = "reply" /\ ~peer.old THEN of ELSE None]
Sends(l) == lines' = Append(lines, l)
Writing == link.up /\ ~peer.gone
Peers == UNCHANGED <<link, sequence, pending, acks, outcome, window>>

Replies ==
  /\ Writing
  /\ \E id \in peer.todo, ok \in BOOLEAN :
       LET ask == id = window.on /\ id # 0 IN
       /\ ok \/ ask
       /\ ok /\ ask => peer.asking = 0
       /\ Sends(Line("reply", id, ok))
       /\ peer' = [peer EXCEPT !.todo = @ \ {id}, !.asking = IF ok /\ ask THEN id ELSE @]
  /\ Peers /\ UNCHANGED stock

Speaks ==
  /\ Writing /\ peer.asking # 0 /\ Uses("speak")
  /\ Sends(Line("piece", peer.asking, TRUE))
  /\ Peers /\ UNCHANGED peer

Finishes ==
  /\ Writing /\ peer.asking # 0
  /\ Sends(Line("done", peer.asking, TRUE))
  /\ peer' = [peer EXCEPT !.asking = 0]
  /\ Peers /\ UNCHANGED stock

\* the notice an evicted connection is closed with, which answers nothing and is the last line
Evicts ==
  /\ Writing /\ Uses("evict")
  /\ Sends(Line("notice", 0, FALSE))
  /\ peer' = [peer EXCEPT !.gone = TRUE]
  /\ Peers

-----------------------------------------------------------------------------
(***************************************************************************)
(* accept.                                                                 *)
(***************************************************************************)
Heard(i) == lines' = RemoveAt(lines, i) /\ UNCHANGED stock

Ignored(l) ==
  /\ ~Hears(l)
  /\ UNCHANGED <<link, sequence, pending, acks, outcome, peer, window>>

Received(l) ==
  /\ Hears(l) /\ l.kind \in {"piece", "done"}
  /\ window' = IF l.kind = "done" THEN Closed
               ELSE IF window.awaiting THEN [window EXCEPT !.live = @ \cup {l.of}]
               ELSE window
  /\ UNCHANGED <<link, sequence, pending, acks, outcome, peer>>

Probed(l) ==
  /\ Hears(l) /\ l.kind \in {"reply", "notice"} /\ ~link.ready
  /\ IF ~l.ok \/ l.id \notin {0, None}
     THEN Restart
     ELSE /\ link' = [link EXCEPT !.legacy = l.id = None, !.ready = TRUE]
          /\ UNCHANGED <<sequence, pending, acks, outcome, peer, window>>

\* the one waited for on an old daemon, else the one the line names
Identity(l) ==
  IF link.legacy THEN IF pending = {} THEN None ELSE CHOOSE i \in pending : \A j \in pending : i <= j
  ELSE l.id

\* the slot is given to a token before the callback can ask for it
Accepted(l) ==
  /\ Hears(l) /\ l.kind \in {"reply", "notice"} /\ link.ready
  /\ LET id == Identity(l) IN
     IF ~link.legacy /\ l.id = None THEN Restart
     ELSE IF id \notin pending
     THEN UNCHANGED <<link, sequence, pending, acks, outcome, peer, window>>
     ELSE /\ Ends({<<id, IF l.ok THEN l.of ELSE 0>>})
          /\ Flush(pending \ {id}, acks)
          /\ window' = IF id = window.on /\ ~l.ok THEN Closed ELSE window
          /\ UNCHANGED link

\* a socket's lines come in order
Hear ==
  \E i \in DOMAIN lines :
    /\ \A j \in 1 .. i - 1 : lines[j].conn # lines[i].conn
    /\ Heard(i)
    /\ \/ Ignored(lines[i]) \/ Received(lines[i])
       \/ Probed(lines[i]) \/ Accepted(lines[i])

-----------------------------------------------------------------------------
(***************************************************************************)
(* The timer.  What was called earlier runs out earlier.                   *)
(***************************************************************************)
ProbeRunsOut ==
  /\ link.up /\ ~link.ready /\ Uses("slow")
  /\ Restart /\ UNCHANGED lines

\* mutant: a call is given up and an old daemon's connection kept
RetiresForAsks(late) == window.on \in late

\* an old daemon's reply could be taken for the next call's, and an answer's
\* pieces for the next question's: those connections are given up
Retires(late) == link.legacy \/ window.on \in late

RunsOut ==
  /\ Connected /\ Uses("slow")
  /\ \E last \in pending :
       LET late == {id \in pending : id <= last} IN
       IF Retires(late)
       THEN Restart
       ELSE /\ Ends({<<id, 0>> : id \in late})
            /\ Flush(pending \ late, acks)
            /\ UNCHANGED <<link, window>>
  /\ UNCHANGED lines

-----------------------------------------------------------------------------
InitShell ==
  /\ link = [sock |-> 0, up |-> FALSE, ready |-> FALSE, legacy |-> FALSE]
  /\ sequence = 0 /\ pending = {} /\ acks = 0
  /\ outcome = [results |-> {}, again |-> {}]
  /\ peer = NewPeer(FALSE) /\ lines = << >>
  /\ window = [on |-> 0, running |-> FALSE, awaiting |-> FALSE, live |-> {}]
  /\ stock \in ShellBudgets

NextShell ==
  \/ Redial \/ Loses
  \/ Call \/ Acknowledge \/ Submit \/ Forget
  \/ Replies \/ Speaks \/ Finishes \/ Evicts
  \/ Hear \/ ProbeRunsOut \/ RunsOut

SpecShell == InitShell /\ [][NextShell]_shell

-----------------------------------------------------------------------------
TypeOK ==
  /\ link \in [sock : Nat, up : BOOLEAN, ready : BOOLEAN, legacy : BOOLEAN]
  /\ link.ready => link.up
  /\ pending \subseteq 1 .. sequence /\ Cardinality(pending) <= Cap
  /\ acks \in 0 .. PendingMax
  /\ peer.todo \subseteq 0 .. sequence /\ peer.asking \in 0 .. sequence
  /\ window.on \in 0 .. sequence /\ (window.awaiting => window.running)

\* "Timed-out, duplicate and unknown replies cannot finish another call": a call
\* ends once, with its own reply or an error, whatever comes late, from the
\* socket before, or without an id (accept).
OwnReplyOnce ==
  /\ \A result \in outcome.results : result[2] \in {0, result[1]}
  /\ outcome.again = {} /\ Ended = (1 .. sequence) \ pending

\* A token waits only while every place is taken: whatever frees one, a reply, a
\* timeout or a probe answered, sends it (flushAcknowledgements).
TokensGo == Connected /\ acks > 0 => Cardinality(pending) >= Cap

\* What appears under a question is its answer, though pieces carry no id and an
\* answer goes on after its window was opened afresh (AskWindow.awaiting).
PiecesAreItsOwn == window.live \subseteq {window.on}

\* The keys are shut only while something will open them again (AskWindow.running).
KeysOpenAgain ==
  window.running =>
    /\ Connected
    /\ \/ window.on \in pending \/ peer.asking = window.on \/ peer.gone
       \/ \E i \in DOMAIN lines : Hears(lines[i]) /\ lines[i].kind = "done"
                                   /\ lines[i].of = window.on

ChannelHolds == OwnReplyOnce /\ TokensGo /\ PiecesAreItsOwn /\ KeysOpenAgain

=============================================================================
