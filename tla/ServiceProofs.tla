--------------------------- MODULE ServiceProofs ----------------------------
(***************************************************************************)
(* What holds of zded's socket and of the shell's end of it, for any       *)
(* number of connections, calls and questions and any budgets, whatever    *)
(* clients, tiers and older daemons do; and, with what BusProofs proves of *)
(* the others, the types of all eight services.                            *)
(***************************************************************************)
EXTENDS BusProofs

-----------------------------------------------------------------------------
(***************************************************************************)
(* A connection goes through the places of an ask in one order, and what   *)
(* it has heard is what they say, or its socket is shut; a surface's token *)
(* is its handler's own, and registered until it is answered.              *)
(***************************************************************************)
Places  == {"none", "left", "read", "answer", "await", "snapshot", "send", "wait", "start"}
Going   == {"added", "runs", "text", "done", "ending", "released"}
Streams == {"runs", "text", "done"}
Told    == {"asking", "text", "done"}

Jobs == [at : Places, line : {None, "ok", "yes", "no", "asking"}, token : Nat,
         todo : SUBSET Conn, sent : BOOLEAN, owed : BOOLEAN]

SocketTypes ==
  /\ job \in [Conn -> Jobs] /\ subs \subseteq Conn
  /\ run \in [Conn -> {"no", "claimed"} \cup Going]
  /\ gate \in [Conn -> {None, "reply", "stream"}]
  /\ heard \in [Conn -> Seq(Told)] /\ asking \subseteq Conn

Finished(h) == h = << >> \/ h[Len(h)] = "done"
InTurn(h) == \A i \in 1 .. Len(h) : h[i] = "asking" <=> i = 1 \/ h[i - 1] = "done"

\* what a handler does, what its ask does, who writes, and what has been heard
AskOK(at, line, r, g, h, opened, asks_) ==
  /\ at = "start" <=> r = "claimed"
  /\ line = "asking" <=> r = "added"
  /\ r = "added" => at = "answer"
  /\ at = "none" => r = "no" /\ h = << >> /\ ~opened
  /\ g = "reply" => at = "answer"
  /\ g = "stream" => r \in {"text", "done"}
  /\ asks_ <=> r \in Going
  /\ InTurn(h)
  /\ opened => (Finished(h) <=> r \notin Streams)

AskHolds(c) ==
  AskOK(job[c].at, job[c].line, run[c], gate[c], heard[c], c \in open, c \in asking)

AsksInv ==
  /\ \A c \in Conn : AskHolds(c)
  /\ closing = "done" => \A c \in Conn : run[c] \in {"no", "claimed"}

-----------------------------------------------------------------------------
Showing(c) == job[c].at \in {"snapshot", "send", "wait"}

SurfaceOK(c) ==
  /\ job[c].line = "yes" => job[c].token \in thanked
  /\ job[c].at = "await" \/ Showing(c) => job[c].line # "yes"
  /\ Showing(c) =>
       /\ job[c].token \in waiting \cup acked /\ job[c].token \in 1 .. tokens
       /\ job[c].token \in thanked => job[c].token \in acked

TokensInv ==
  /\ tokens \in Nat /\ waiting \subseteq 1 .. tokens
  /\ acked \subseteq thanked /\ thanked \subseteq drawn /\ drawn \subseteq 1 .. tokens
  /\ \A c \in Conn : SurfaceOK(c)
  /\ \A c, d \in Conn : Showing(c) /\ Showing(d) /\ job[c].token = job[d].token => c = d

SocketInv == SocketTypes /\ AsksInv /\ TokensInv

-----------------------------------------------------------------------------
\* no connection but c is touched, unless its socket is shut
Others(c) ==
  \A d \in Conn \ {c} :
    /\ job'[d] = job[d] /\ run'[d] = run[d] /\ gate'[d] = gate[d] /\ heard'[d] = heard[d]
    /\ d \in open' => d \in open
    /\ d \in asking' <=> d \in asking

LEMMA AsksStep ==
  ASSUME AsksInv, NEW c \in Conn, Others(c), AskHolds(c)',
         closing' = closing,
         closing = "done" /\ run[c] \in {"no", "claimed"} => run'[c] \in {"no", "claimed"}
  PROVE  AsksInv'
<1>1. ASSUME NEW d \in Conn \ {c}
      PROVE  AskHolds(d)'
  BY DEF AsksInv, AskHolds, AskOK, Others
<1>2. ASSUME NEW d \in Conn \ {c}
      PROVE  run'[d] = run[d]
  BY DEF Others
<1>3. QED
  BY <1>1, <1>2 DEF AsksInv

\* a connection that is not shown a surface, and surfaces nobody acknowledges
LEMMA TokensStep ==
  ASSUME TokensInv, NEW c \in Conn, Others(c), ~Showing(c)',
         UNCHANGED <<tokens, waiting, acked, thanked, drawn>>,
         job'[c].line # "yes" \/ (job'[c].line = job[c].line /\ job'[c].token = job[c].token),
         job'[c].at = "await" => job'[c].line # "yes"
  PROVE  TokensInv'
<1>1. ASSUME NEW d \in Conn \ {c}
      PROVE  SurfaceOK(d)' /\ job'[d] = job[d] /\ Showing(d)' = Showing(d)
  BY DEF TokensInv, SurfaceOK, Showing, Others
<1>2. SurfaceOK(c)'
  BY DEF TokensInv, SurfaceOK
<1>3. (\A d, e \in Conn : Showing(d) /\ Showing(e) /\ job[d].token = job[e].token => d = e)'
  BY <1>1 DEF TokensInv
<1>4. QED
  BY <1>1, <1>2, <1>3 DEF TokensInv

-----------------------------------------------------------------------------
\* a handler begins an answer, or waits for its next request
Turns(c, at, line) ==
  /\ job'[c].at = at /\ job'[c].line = line /\ job' \in [Conn -> Jobs]
  /\ \A d \in Conn \ {c} : job'[d] = job[d]

LEMMA HandlerBegins ==
  ASSUME SocketTypes, NEW c \in Conn, NEW at \in Places,
         NEW line \in {None, "ok", "yes", "no", "asking"}, C!Begin(c, at, line)
  PROVE  Turns(c, at, line)
<1> DEFINE j == [C!Idle EXCEPT !.at = at, !.line = line, !.owed = TRUE]
<1>1. j \in Jobs /\ j.at = at /\ j.line = line
  BY DEF C!Idle, Jobs, Places
<1>2. job' = [job EXCEPT ![c] = j]
  BY DEF C!Begin
<1> HIDE DEF j
<1>3. QED
  BY <1>1, <1>2 DEF Turns, SocketTypes

LEMMA Answers ==
  ASSUME SocketTypes, NEW c \in Conn,
         NEW line \in {None, "ok", "yes", "no", "asking"}, C!Answer(c, line)
  PROVE  Turns(c, "answer", line) /\ job'[c].token = job[c].token
<1> DEFINE j == [job[c] EXCEPT !.at = "answer", !.line = line]
<1>0. job[c] \in Jobs
  BY DEF SocketTypes
<1>1. j \in Jobs /\ j.at = "answer" /\ j.line = line /\ j.token = job[c].token
  BY <1>0 DEF Jobs, Places
<1>2. job' = [job EXCEPT ![c] = j]
  BY DEF C!Answer, SocketTypes, Jobs
<1> HIDE DEF j
<1>3. QED
  BY <1>1, <1>2 DEF Turns, SocketTypes

LEMMA AfterReplies ==
  ASSUME SocketTypes, NEW c \in Conn, C!AfterReply(c)
  PROVE  /\ Turns(c, "read", None)
         /\ run' = [run EXCEPT ![c] = IF job[c].line = "asking" /\ @ = "added" THEN "runs" ELSE @]
<1> DEFINE j == [job[c] EXCEPT !.at = "read", !.line = None]
<1>0. job[c] \in Jobs
  BY DEF SocketTypes
<1>1. j \in Jobs /\ j.at = "read" /\ j.line = None
  BY <1>0 DEF Jobs, Places
<1>2. job' = [job EXCEPT ![c] = j]
  BY DEF C!AfterReply, SocketTypes, Jobs
<1> HIDE DEF j
<1>3. Turns(c, "read", None)
  BY <1>1, <1>2 DEF Turns, SocketTypes
<1>4. QED
  BY <1>3 DEF C!AfterReply

-----------------------------------------------------------------------------
\* sockets that are shut, listeners that go, and Close's own steps
LEMMA UntouchedSocket ==
  ASSUME SocketInv, UNCHANGED <<job, run, gate, heard, asking, C!surfaces>>,
         subs' \subseteq Conn, open' \subseteq open,
         closing' = "done" =>
           closing = "done" \/ \A c \in Conn : run[c] \in {"no", "claimed"}
  PROVE  SocketInv'
<1>1. SocketTypes'
  BY DEF SocketInv, SocketTypes
<1>2. \A c \in Conn : AskHolds(c)'
  BY DEF SocketInv, AsksInv, AskHolds, AskOK
<1>3. AsksInv'
  BY <1>2 DEF SocketInv, AsksInv
<1>4. TokensInv'
  BY DEF SocketInv, TokensInv, SurfaceOK, Showing, C!surfaces
<1>5. QED
  BY <1>1, <1>3, <1>4 DEF SocketInv

\* who takes, gives back or waits for no gate changes no job
LEMMA AdmitSocket ==
  ASSUME SocketInv, NEW c \in Conn, C!Admit(c)
  PROVE  SocketInv'
<1>1. /\ job[c].at = "none" /\ closing' = closing
      /\ UNCHANGED <<subs, run, gate, heard, asking, tokens, waiting, acked, thanked, drawn>>
      /\ open' = open \/ open' = open \cup {c}
      /\ \E at \in {"left", "read"} : C!Job(c, at)
  BY DEF C!Admit, C!asked, C!surfaces
<1>2. PICK at \in {"left", "read"} : C!Job(c, at)
  BY <1>1
<1>3. Turns(c, at, job[c].line) /\ job'[c].token = job[c].token
  <2> DEFINE j == [job[c] EXCEPT !.at = at]
  <2>0. job[c] \in Jobs
    BY DEF SocketInv, SocketTypes
  <2>1. j \in Jobs /\ j.at = at /\ j.line = job[c].line /\ j.token = job[c].token
    BY <2>0 DEF Jobs, Places
  <2>2. job' = [job EXCEPT ![c] = j]
    BY <1>2 DEF C!Job
  <2> HIDE DEF j
  <2>3. QED
    BY <2>1, <2>2 DEF Turns, SocketInv, SocketTypes
<1>4. Others(c)
  BY <1>1, <1>3 DEF Others, Turns
<1>5. AskHolds(c)'
  BY <1>1, <1>3 DEF SocketInv, AsksInv, AskHolds, AskOK, Turns, Finished, Streams
<1>6. SocketTypes'
  BY <1>1, <1>3 DEF SocketInv, SocketTypes, Turns
<1>7. AsksInv'
  BY <1>1, <1>4, <1>5, AsksStep DEF SocketInv
<1>8. TokensInv'
  BY <1>1, <1>3, <1>4, TokensStep DEF SocketInv, Turns, Showing
<1>9. QED
  BY <1>6, <1>7, <1>8 DEF SocketInv

\* a read that fails: the run, if there is one, goes on without its handler
LEMMA LeaveSocket ==
  ASSUME SocketInv, NEW c \in Conn, C!Leave(c)
  PROVE  SocketInv'
<1>1. /\ job[c].at = "read" /\ closing' = closing /\ subs' = subs \ {c}
      /\ UNCHANGED <<open, run, gate, heard, asking, tokens, waiting, acked, thanked, drawn>>
  BY DEF C!Leave, C!asked, C!surfaces
<1>2. Turns(c, "left", None)
  <2> DEFINE j == [C!Idle EXCEPT !.at = "left"]
  <2>1. j \in Jobs /\ j.at = "left" /\ j.line = None
    BY DEF C!Idle, Jobs, Places
  <2>2. job' = [job EXCEPT ![c] = j]
    BY DEF C!Leave
  <2> HIDE DEF j
  <2>3. QED
    BY <2>1, <2>2 DEF Turns, SocketInv, SocketTypes
<1>3. Others(c)
  BY <1>1, <1>2 DEF Others, Turns
<1>4. AskHolds(c)'
  BY <1>1, <1>2, NobodyAssumption DEF SocketInv, AsksInv, AskHolds, AskOK, Turns
<1>5. SocketTypes'
  BY <1>1, <1>2 DEF SocketInv, SocketTypes, Turns
<1>6. AsksInv'
  BY <1>1, <1>3, <1>4, AsksStep DEF SocketInv
<1>7. TokensInv'
  BY <1>1, <1>2, <1>3, NobodyAssumption, TokensStep DEF SocketInv, Turns, Showing
<1>8. QED
  BY <1>5, <1>6, <1>7 DEF SocketInv

\* a request that is answered, or that waits to be shown, and no more
LEMMA RequestSocket ==
  ASSUME SocketInv, NEW c \in Conn, NEW at \in {"answer", "await"}, NEW line \in {"ok", "no"},
         job[c].at = "read", C!Begin(c, at, line), closing' = closing, subs' \subseteq Conn,
         UNCHANGED <<open, run, gate, heard, asking, C!surfaces>>
  PROVE  SocketInv'
<1>1. Turns(c, at, line)
  BY HandlerBegins DEF SocketInv, Places
<1>2. Others(c)
  BY <1>1 DEF Others, Turns
<1>3. AskHolds(c)'
  BY <1>1, NobodyAssumption DEF SocketInv, AsksInv, AskHolds, AskOK, Turns
<1>4. SocketTypes'
  BY <1>1 DEF SocketInv, SocketTypes, Turns
<1>5. AsksInv'
  BY <1>2, <1>3, AsksStep DEF SocketInv
<1>6. TokensInv'
  BY <1>1, <1>2, TokensStep DEF SocketInv, Turns, Showing, C!surfaces
<1>7. QED
  BY <1>4, <1>5, <1>6 DEF SocketInv

LEMMA AskSocket ==
  ASSUME SocketInv, NEW c \in Conn, C!Ask(c)
  PROVE  SocketInv'
<1>1. /\ job[c].at = "read" /\ closing' = closing
      /\ UNCHANGED <<subs, open, gate, heard, asking, C!surfaces>>
  BY DEF C!Ask, C!Reads, C!surfaces
<1>2. CASE C!Begin(c, "answer", "no") /\ run' = run
  BY <1>1, <1>2, RequestSocket DEF SocketInv, SocketTypes
<1>3. CASE /\ c \notin asking /\ C!Begin(c, "start", None)
           /\ run' = [run EXCEPT ![c] = "claimed"]
  <2>1. Turns(c, "start", None)
    BY <1>3, HandlerBegins DEF SocketInv, Places
  <2>2. run[c] = "no" /\ gate[c] # "reply" /\ gate[c] # "stream"
    BY <1>1, <1>3 DEF SocketInv, SocketTypes, AsksInv, AskHolds, AskOK
  <2>3. /\ run' \in [Conn -> {"no", "claimed"} \cup Going] /\ run'[c] = "claimed"
        /\ \A d \in Conn \ {c} : run'[d] = run[d]
    BY <1>3 DEF SocketInv, SocketTypes
  <2>4. Others(c)
    BY <1>1, <2>1, <2>3 DEF Others, Turns
  <2>5. AskHolds(c)'
    BY <1>1, <1>3, <2>1, <2>2, <2>3, NobodyAssumption
    DEF SocketInv, AsksInv, AskHolds, AskOK, Turns, Going, Streams
  <2>6. SocketTypes'
    BY <1>1, <2>1, <2>3 DEF SocketInv, SocketTypes, Turns
  <2>7. AsksInv'
    BY <1>1, <2>3, <2>4, <2>5, AsksStep DEF SocketInv
  <2>8. TokensInv'
    BY <1>1, <2>1, <2>4, NobodyAssumption, TokensStep DEF SocketInv, Turns, Showing, C!surfaces
  <2>9. QED
    BY <2>6, <2>7, <2>8 DEF SocketInv
<1>4. QED
  BY <1>2, <1>3 DEF C!Ask
\* an acknowledgement may come for any token a listener was sent
LEMMA AcknowledgeSocket ==
  ASSUME SocketInv, NEW c \in Conn, NEW t \in drawn, C!Acknowledge(c, t)
  PROVE  SocketInv'
<1>1. /\ job[c].at = "read" /\ closing' = closing
      /\ acked' = acked \cup ({t} \cap waiting) /\ waiting' = waiting \ {t}
      /\ thanked' = thanked \cup {t}
      /\ UNCHANGED <<subs, open, run, gate, heard, asking, tokens, drawn>>
  BY DEF C!Acknowledge, C!Reads, C!asked
<1>2. Turns(c, "answer", "ok")
  BY HandlerBegins DEF C!Acknowledge, SocketInv, Places
<1>3. Others(c)
  BY <1>1, <1>2 DEF Others, Turns
<1>4. AskHolds(c)'
  BY <1>1, <1>2, NobodyAssumption DEF SocketInv, AsksInv, AskHolds, AskOK, Turns
<1>5. SocketTypes'
  BY <1>1, <1>2 DEF SocketInv, SocketTypes, Turns
<1>6. AsksInv'
  BY <1>1, <1>3, <1>4, AsksStep DEF SocketInv
<1>7. ASSUME NEW d \in Conn
      PROVE  SurfaceOK(d)' /\ (Showing(d)' => Showing(d) /\ job'[d].token = job[d].token)
  BY <1>1, <1>2 DEF SocketInv, TokensInv, SurfaceOK, Showing, Turns
<1>8. TokensInv'
  BY <1>1, <1>7 DEF SocketInv, TokensInv
<1>9. QED
  BY <1>5, <1>6, <1>8 DEF SocketInv

\* the gate of c's sink is taken or let go of, and the job is as it was
LEMMA GateSocket ==
  ASSUME SocketInv, NEW c \in Conn, C!TakeGate(c) \/ C!StreamGate(c)
  PROVE  SocketInv'
<1>1. /\ UNCHANGED <<job, run, heard, asking, open, subs, closing>>
      /\ UNCHANGED <<tokens, waiting, acked, thanked, drawn>>
  BY DEF C!TakeGate, C!StreamGate, C!rooms, C!asked, C!surfaces
<1>2. PICK w \in {"reply", "stream"} :
        /\ gate' = [gate EXCEPT ![c] = w]
        /\ w = "reply" => job[c].at = "answer"
        /\ w = "stream" => run[c] \in {"text", "done"}
  BY DEF C!TakeGate, C!StreamGate
<1>3. /\ gate' \in [Conn -> {None, "reply", "stream"}] /\ gate'[c] = w
      /\ \A d \in Conn \ {c} : gate'[d] = gate[d]
  BY <1>2 DEF SocketInv, SocketTypes
<1>4. Others(c)
  BY <1>1, <1>3 DEF Others
<1>5. AskHolds(c)'
  BY <1>1, <1>2, <1>3 DEF SocketInv, AsksInv, AskHolds, AskOK
<1>6. SocketTypes'
  BY <1>1, <1>3 DEF SocketInv, SocketTypes
<1>7. AsksInv'
  BY <1>1, <1>4, <1>5, AsksStep DEF SocketInv
<1>8. TokensInv'
  BY <1>1 DEF SocketInv, TokensInv, SurfaceOK, Showing
<1>9. QED
  BY <1>6, <1>7, <1>8 DEF SocketInv

-----------------------------------------------------------------------------
(***************************************************************************)
(* What a connection has heard.  Each line takes the place that follows.   *)
(***************************************************************************)
LEMMA HeardAsking ==
  ASSUME NEW h \in Seq(Told), InTurn(h), Finished(h)
  PROVE  LET g == Append(h, "asking") IN
           g \in Seq(Told) /\ InTurn(g) /\ ~Finished(g)
<1> DEFINE g == Append(h, "asking")
<1>1. /\ g \in Seq(Told) /\ Len(g) = Len(h) + 1 /\ Len(h) \in Nat /\ g[Len(g)] = "asking"
      /\ \A i \in 1 .. Len(h) : g[i] = h[i]
  BY DEF Told
<1>2. g # << >>
  BY <1>1
<1>3. ASSUME NEW i \in 1 .. Len(g)
      PROVE  g[i] = "asking" <=> i = 1 \/ g[i - 1] = "done"
  <2>1. CASE i \in 1 .. Len(h)
    <3>1. i = 1 \/ i - 1 \in 1 .. Len(h)
      BY <1>1, <2>1
    <3>2. QED
      BY <1>1, <2>1, <3>1 DEF InTurn
  <2>2. CASE i = Len(h) + 1
    <3>1. CASE h = << >>
      BY <1>1, <2>2, <3>1
    <3>2. CASE h # << >> /\ h[Len(h)] = "done"
      <4>1. Len(h) \in 1 .. Len(h)
        BY <3>2
      <4>2. QED
        BY <1>1, <2>2, <3>2, <4>1
    <3>3. QED
      BY <3>1, <3>2 DEF Finished
  <2>3. QED
    BY <1>1, <2>1, <2>2
<1>4. QED
  BY <1>1, <1>2, <1>3 DEF InTurn, Finished

LEMMA HeardTier ==
  ASSUME NEW h \in Seq(Told), InTurn(h), ~Finished(h), NEW x \in {"text", "done"}
  PROVE  LET g == Append(h, x) IN
           g \in Seq(Told) /\ InTurn(g) /\ (Finished(g) <=> x = "done")
<1> DEFINE g == Append(h, x)
<1>1. /\ g \in Seq(Told) /\ Len(g) = Len(h) + 1 /\ Len(h) \in Nat /\ g[Len(g)] = x
      /\ \A i \in 1 .. Len(h) : g[i] = h[i]
  BY DEF Told
<1>2. g # << >>
  BY <1>1
<1>3. /\ h # << >> /\ h[Len(h)] # "done" /\ Len(h) \in 1 .. Len(h)
  BY DEF Finished
<1>4. ASSUME NEW i \in 1 .. Len(g)
      PROVE  g[i] = "asking" <=> i = 1 \/ g[i - 1] = "done"
  <2>1. CASE i \in 1 .. Len(h)
    <3>1. i = 1 \/ i - 1 \in 1 .. Len(h)
      BY <1>1, <2>1
    <3>2. QED
      BY <1>1, <2>1, <3>1 DEF InTurn
  <2>2. CASE i = Len(h) + 1
    BY <1>1, <1>3, <2>2
  <2>3. QED
    BY <1>1, <2>1, <2>2
<1>5. QED
  BY <1>1, <1>2, <1>4 DEF InTurn, Finished

-----------------------------------------------------------------------------
LEMMA RepliedSocket ==
  ASSUME SocketInv, NEW c \in Conn, C!Replied(c)
  PROVE  SocketInv'
<1>1. /\ gate[c] = "reply" /\ c \in open /\ job[c].at = "answer"
      /\ UNCHANGED <<subs, open, asking, closing, tokens, waiting, acked, thanked, drawn>>
  BY DEF C!Replied, C!rooms, C!surfaces, SocketInv, AsksInv, AskHolds, AskOK
<1>2. Turns(c, "read", None)
  <2> DEFINE j == [C!Idle EXCEPT !.at = "read"]
  <2>1. j \in Jobs /\ j.at = "read" /\ j.line = None
    BY DEF C!Idle, Jobs, Places
  <2>2. job' = [job EXCEPT ![c] = j]
    BY DEF C!Replied
  <2> HIDE DEF j
  <2>3. QED
    BY <2>1, <2>2 DEF Turns, SocketInv, SocketTypes
<1>3. /\ gate' \in [Conn -> {None, "reply", "stream"}] /\ gate'[c] = None
      /\ \A d \in Conn \ {c} : gate'[d] = gate[d]
  BY DEF C!Replied, SocketInv, SocketTypes
<1>4. /\ heard' \in [Conn -> Seq(Told)] /\ run' \in [Conn -> {"no", "claimed"} \cup Going]
      /\ \A d \in Conn \ {c} : run'[d] = run[d] /\ heard'[d] = heard[d]
      /\ \/ /\ run[c] = "added" /\ run'[c] = "runs"
            /\ InTurn(heard'[c]) /\ ~Finished(heard'[c])
         \/ run[c] # "added" /\ run'[c] = run[c] /\ heard'[c] = heard[c]
  <2>1. CASE job[c].line = "asking"
    <3> DEFINE g == Append(heard[c], "asking")
    <3>1. run[c] = "added" /\ heard[c] \in Seq(Told) /\ InTurn(heard[c]) /\ Finished(heard[c])
      BY <1>1, <2>1 DEF SocketInv, SocketTypes, AsksInv, AskHolds, AskOK, Streams
    <3>2. g \in Seq(Told) /\ InTurn(g) /\ ~Finished(g)
      BY <3>1, HeardAsking
    <3>3. heard' = [heard EXCEPT ![c] = g] /\ run' = [run EXCEPT ![c] = "runs"]
      BY <2>1, <3>1 DEF C!Replied, SocketInv, SocketTypes
    <3> HIDE DEF g
    <3>4. QED
      BY <3>1, <3>2, <3>3 DEF SocketInv, SocketTypes, Going
  <2>2. CASE job[c].line # "asking"
    BY <2>2 DEF C!Replied, SocketInv, SocketTypes, AsksInv, AskHolds, AskOK
  <2>3. QED
    BY <2>1, <2>2
<1>5. Others(c)
  BY <1>1, <1>2, <1>3, <1>4 DEF Others, Turns
<1>6. AskHolds(c)'
  BY <1>1, <1>2, <1>3, <1>4, NobodyAssumption
  DEF SocketInv, AsksInv, AskHolds, AskOK, Turns, Going, Streams
<1>7. SocketTypes'
  BY <1>1, <1>2, <1>3, <1>4 DEF SocketInv, SocketTypes, Turns
<1>8. AsksInv'
  BY <1>1, <1>4, <1>5, <1>6, AsksStep DEF SocketInv
<1>9. TokensInv'
  BY <1>1, <1>2, <1>5, NobodyAssumption, TokensStep DEF SocketInv, Turns, Showing
<1>10. QED
  BY <1>7, <1>8, <1>9 DEF SocketInv

\* a reply that cannot be written, or is not let to the gate, costs the connection
LEMMA UnrepliedSocket ==
  ASSUME SocketInv, NEW c \in Conn, C!ReplyFails(c) \/ C!ReplyGivesUp(c)
  PROVE  SocketInv'
<1>1. /\ job[c].at = "answer" /\ open' = open \ {c} /\ C!AfterReply(c)
      /\ UNCHANGED <<subs, asking, heard, closing, tokens, waiting, acked, thanked, drawn>>
  BY DEF C!ReplyFails, C!ReplyGivesUp, C!Unwritten, C!surfaces, SocketInv, AsksInv, AskHolds, AskOK
<1>2. /\ gate' \in [Conn -> {None, "reply", "stream"}]
      /\ \/ gate'[c] = None
         \/ gate'[c] = "stream" /\ gate[c] = "stream"
      /\ \A d \in Conn \ {c} : gate'[d] = gate[d]
  BY DEF C!ReplyFails, C!ReplyGivesUp, SocketInv, SocketTypes
<1>3. /\ Turns(c, "read", None)
      /\ run' = [run EXCEPT ![c] = IF job[c].line = "asking" /\ @ = "added" THEN "runs" ELSE @]
  BY <1>1, AfterReplies DEF SocketInv
<1>4. /\ run' \in [Conn -> {"no", "claimed"} \cup Going]
      /\ run'[c] = IF run[c] = "added" THEN "runs" ELSE run[c]
      /\ \A d \in Conn \ {c} : run'[d] = run[d]
  BY <1>3 DEF SocketInv, SocketTypes, AsksInv, AskHolds, AskOK, Going
<1>5. Others(c)
  BY <1>1, <1>2, <1>3, <1>4 DEF Others, Turns
<1>6. AskHolds(c)'
  BY <1>1, <1>2, <1>3, <1>4, NobodyAssumption
  DEF SocketInv, AsksInv, AskHolds, AskOK, Turns, Going
<1>7. SocketTypes'
  BY <1>1, <1>2, <1>3, <1>4 DEF SocketInv, SocketTypes, Turns
<1>8. AsksInv'
  BY <1>1, <1>4, <1>5, <1>6, AsksStep DEF SocketInv
<1>9. TokensInv'
  BY <1>1, <1>3, <1>5, NobodyAssumption, TokensStep DEF SocketInv, Turns, Showing
<1>10. QED
  BY <1>7, <1>8, <1>9 DEF SocketInv

-----------------------------------------------------------------------------
(***************************************************************************)
(* Surfaces.                                                               *)
(***************************************************************************)
\* a handler that shows a surface goes on, and no ask is touched
LEMMA ShowingAsks ==
  ASSUME SocketInv, NEW c \in Conn, NEW at \in Places, NEW line \in {None, "ok", "yes", "no", "asking"},
         Turns(c, at, line), job[c].at = "await" \/ Showing(c),
         at \in {"answer", "snapshot", "send", "wait"}, line # "asking",
         open' \subseteq open, subs' \subseteq subs,
         UNCHANGED <<run, gate, heard, asking, closing>>
  PROVE  SocketTypes' /\ AsksInv'
<1>1. Others(c)
  BY DEF Others, Turns
<1>2. AskHolds(c)'
  BY DEF SocketInv, AsksInv, AskHolds, AskOK, Turns, Showing
<1>3. AsksInv'
  BY <1>1, <1>2, AsksStep DEF SocketInv
<1>4. QED
  BY <1>3 DEF SocketInv, SocketTypes, Turns

LEMMA AwaitSocket ==
  ASSUME SocketInv, NEW c \in Conn, C!Await(c)
  PROVE  SocketInv'
<1>1. /\ job[c].at = "await" /\ tokens' = tokens + 1 /\ waiting' = waiting \cup {tokens + 1}
      /\ UNCHANGED <<subs, open, run, gate, heard, asking, closing, acked, thanked, drawn>>
  BY DEF C!Await, C!rooms, C!asked
<1>2. Turns(c, "snapshot", job[c].line) /\ job'[c].token = tokens + 1
  <2> DEFINE j == [job[c] EXCEPT !.at = "snapshot", !.token = tokens + 1]
  <2>0. job[c] \in Jobs /\ tokens + 1 \in Nat
    BY DEF SocketInv, SocketTypes, TokensInv
  <2>1. j \in Jobs /\ j.at = "snapshot" /\ j.line = job[c].line /\ j.token = tokens + 1
    BY <2>0 DEF Jobs, Places
  <2>2. job' = [job EXCEPT ![c] = j]
    BY DEF C!Await, SocketInv, SocketTypes, Jobs
  <2> HIDE DEF j
  <2>3. QED
    BY <2>1, <2>2 DEF Turns, SocketInv, SocketTypes
<1>3. job[c].line # "asking" /\ job[c].line # "yes" /\ job[c].line \in {None, "ok", "yes", "no", "asking"}
  BY <1>1 DEF SocketInv, SocketTypes, Jobs, AsksInv, AskHolds, AskOK, TokensInv, SurfaceOK
<1>4. SocketTypes' /\ AsksInv'
  BY <1>1, <1>2, <1>3, ShowingAsks DEF Places
<1>5. ASSUME NEW d \in Conn \ {c}
      PROVE  /\ SurfaceOK(d)' /\ Showing(d)' = Showing(d) /\ job'[d] = job[d]
             /\ Showing(d) => job[d].token # tokens + 1
  BY <1>1, <1>2 DEF SocketInv, TokensInv, SurfaceOK, Showing, Turns
<1>6. SurfaceOK(c)'
  BY <1>1, <1>2, <1>3 DEF SocketInv, TokensInv, SurfaceOK, Showing, Turns
<1>7. (\A d, e \in Conn : Showing(d) /\ Showing(e) /\ job[d].token = job[e].token => d = e)'
  BY <1>2, <1>5 DEF SocketInv, TokensInv
<1>8. TokensInv'
  BY <1>1, <1>5, <1>6, <1>7 DEF SocketInv, TokensInv
<1>9. QED
  BY <1>4, <1>8 DEF SocketInv

\* on the way from the snapshot to the wait; what a listener was sent is drawn
LEMMA ShowingSocket ==
  ASSUME SocketInv, NEW c \in Conn, NEW at \in {"send", "wait"}, Showing(c),
         Turns(c, at, job[c].line), job'[c].token = job[c].token,
         open' \subseteq open, subs' \subseteq subs,
         drawn' = drawn \/ drawn' = drawn \cup {job[c].token},
         UNCHANGED <<run, gate, heard, asking, closing, tokens, waiting, acked, thanked>>
  PROVE  SocketInv'
<1>1. job[c].line # "asking" /\ job[c].line \in {None, "ok", "yes", "no", "asking"}
  BY DEF SocketInv, SocketTypes, Jobs, AsksInv, AskHolds, AskOK, Showing
<1>2. SocketTypes' /\ AsksInv'
  BY <1>1, ShowingAsks DEF Places
<1>3. ASSUME NEW d \in Conn
      PROVE  SurfaceOK(d)' /\ Showing(d)' = Showing(d) /\ job'[d].token = job[d].token
  BY DEF SocketInv, TokensInv, SurfaceOK, Showing, Turns
<1>4. TokensInv'
  BY <1>3 DEF SocketInv, TokensInv, SurfaceOK
<1>5. QED
  BY <1>2, <1>4 DEF SocketInv

LEMMA SnapshotSocket ==
  ASSUME SocketInv, NEW c \in Conn, C!Snapshot(c)
  PROVE  SocketInv'
<1>1. /\ job[c].at = "snapshot"
      /\ UNCHANGED <<subs, open, run, gate, heard, asking, closing, tokens, waiting, acked, thanked, drawn>>
  BY DEF C!Snapshot, C!rooms, C!asked, C!surfaces
<1>2. Turns(c, "send", job[c].line) /\ job'[c].token = job[c].token
  <2> DEFINE j == [job[c] EXCEPT !.at = "send", !.todo = subs]
  <2>0. job[c] \in Jobs /\ subs \in SUBSET Conn
    BY DEF SocketInv, SocketTypes
  <2>1. j \in Jobs /\ j.at = "send" /\ j.line = job[c].line /\ j.token = job[c].token
    BY <2>0 DEF Jobs, Places
  <2>2. job' = [job EXCEPT ![c] = j]
    BY DEF C!Snapshot, SocketInv, SocketTypes, Jobs
  <2> HIDE DEF j
  <2>3. QED
    BY <2>1, <2>2 DEF Turns, SocketInv, SocketTypes
<1>3. QED
  BY <1>1, <1>2, ShowingSocket DEF Showing

LEMMA SendSocket ==
  ASSUME SocketInv, NEW c \in Conn, NEW l \in Conn, NEW how \in C!Hows, C!Send(c, l, how)
  PROVE  SocketInv'
<1>1. /\ job[c].at = "send" /\ open' \subseteq open /\ subs' \subseteq subs
      /\ drawn' = drawn \/ drawn' = drawn \cup {job[c].token}
      /\ UNCHANGED <<run, gate, heard, asking, closing, tokens, waiting, acked, thanked>>
  BY DEF C!Send, C!EventTo, C!asked
<1>2. Turns(c, "send", job[c].line) /\ job'[c].token = job[c].token
  <2> DEFINE j == [job[c] EXCEPT !.todo = @ \ {l}, !.sent = @ \/ how = "sent"]
  <2>1. job[c].todo \ {l} \in SUBSET Conn /\ (job[c].sent \/ how = "sent") \in BOOLEAN
    BY DEF SocketInv, SocketTypes, Jobs
  <2>0. job[c] \in Jobs
    BY DEF SocketInv, SocketTypes
  <2>2. j \in Jobs /\ j.at = job[c].at /\ j.line = job[c].line /\ j.token = job[c].token
    BY <2>0, <2>1 DEF Jobs, Places
  <2>3. job' = [job EXCEPT ![c] = j]
    BY DEF C!Send, SocketInv, SocketTypes, Jobs
  <2> HIDE DEF j
  <2>4. QED
    BY <1>1, <2>2, <2>3 DEF Turns, SocketInv, SocketTypes
<1>3. QED
  BY <1>1, <1>2, ShowingSocket DEF Showing

\* answered: nobody waits for the token any more
LEMMA ShownSocket ==
  ASSUME SocketInv, NEW c \in Conn, NEW line \in {"yes", "no"}, Showing(c), C!Answer(c, line),
         line = "yes" => job[c].token \in acked,
         waiting' = waiting \ {job[c].token},
         UNCHANGED <<subs, open, run, gate, heard, asking, closing, tokens, acked, thanked, drawn>>
  PROVE  SocketInv'
<1>1. Turns(c, "answer", line) /\ job'[c].token = job[c].token
  BY Answers DEF SocketInv
<1>2. SocketTypes' /\ AsksInv'
  BY <1>1, ShowingAsks DEF Places
<1>3. ASSUME NEW d \in Conn
      PROVE  SurfaceOK(d)' /\ (Showing(d)' => Showing(d) /\ job'[d] = job[d])
  BY <1>1 DEF SocketInv, TokensInv, SurfaceOK, Showing, Turns
<1>4. TokensInv'
  BY <1>3 DEF SocketInv, TokensInv
<1>5. QED
  BY <1>2, <1>4 DEF SocketInv

LEMMA SentSocket ==
  ASSUME SocketInv, NEW c \in Conn, C!Sent(c) \/ C!Shown(c)
  PROVE  SocketInv'
<1>1. /\ Showing(c)
      /\ UNCHANGED <<subs, open, run, gate, heard, asking, closing, tokens, acked, thanked, drawn>>
  BY DEF C!Sent, C!Shown, C!rooms, C!asked, Showing
<1>2. CASE C!Job(c, "wait") /\ UNCHANGED waiting
  <2>1. Turns(c, "wait", job[c].line) /\ job'[c].token = job[c].token
    <3> DEFINE j == [job[c] EXCEPT !.at = "wait"]
    <3>0. job[c] \in Jobs
      BY DEF SocketInv, SocketTypes
    <3>1. j \in Jobs /\ j.at = "wait" /\ j.line = job[c].line /\ j.token = job[c].token
      BY <3>0 DEF Jobs, Places
    <3>2. job' = [job EXCEPT ![c] = j]
      BY <1>2 DEF C!Job
    <3> HIDE DEF j
    <3>3. QED
      BY <3>1, <3>2 DEF Turns, SocketInv, SocketTypes
  <2>2. QED
    BY <1>1, <1>2, <2>1, ShowingSocket
<1>3. CASE C!Answer(c, "no") /\ waiting' = waiting \ {job[c].token}
  BY <1>1, <1>3, ShownSocket
<1>4. CASE C!Shown(c)
  <2> DEFINE line == IF job[c].token \in acked THEN "yes" ELSE "no"
  <2>1. C!Answer(c, line) /\ waiting' = waiting \ {job[c].token}
    BY <1>4 DEF C!Shown
  <2>2. line \in {"yes", "no"} /\ (line = "yes" => job[c].token \in acked)
    OBVIOUS
  <2> HIDE DEF line
  <2>3. QED
    BY <1>1, <2>1, <2>2, ShownSocket
<1>5. QED
  BY <1>2, <1>3, <1>4 DEF C!Sent

-----------------------------------------------------------------------------
(***************************************************************************)
(* Asks.                                                                   *)
(***************************************************************************)
LEMMA StartRunSocket ==
  ASSUME SocketInv, NEW c \in Conn, C!StartRun(c)
  PROVE  SocketInv'
<1>1. /\ job[c].at = "start" /\ run[c] = "claimed" /\ c \notin asking
      /\ gate[c] # "reply" /\ gate[c] # "stream"
      /\ UNCHANGED <<subs, open, gate, heard, closing, tokens, waiting, acked, thanked, drawn>>
  BY DEF C!StartRun, C!rooms, C!surfaces, SocketInv, AsksInv, AskHolds, AskOK, Going
<1>2. PICK line \in {"asking", "no"} :
        /\ C!Answer(c, line)
        /\ run' = [run EXCEPT ![c] = IF line = "asking" THEN "added" ELSE "no"]
        /\ asking' = IF line = "asking" THEN asking \cup {c} ELSE asking
        /\ line = "asking" => closing # "done"
  BY DEF C!StartRun
<1>3. Turns(c, "answer", line)
  BY <1>2, Answers DEF SocketInv
<1>4. /\ run' \in [Conn -> {"no", "claimed"} \cup Going]
      /\ run'[c] = IF line = "asking" THEN "added" ELSE "no"
      /\ \A d \in Conn \ {c} : run'[d] = run[d]
  BY <1>2 DEF SocketInv, SocketTypes, Going
<1>5. Others(c)
  BY <1>1, <1>2, <1>3, <1>4 DEF Others, Turns
<1>6. AskHolds(c)'
  BY <1>1, <1>2, <1>3, <1>4 DEF SocketInv, AsksInv, AskHolds, AskOK, Turns, Going, Streams
<1>7. SocketTypes'
  BY <1>1, <1>2, <1>3, <1>4 DEF SocketInv, SocketTypes, Turns
<1>8. AsksInv'
  BY <1>1, <1>2, <1>4, <1>5, <1>6, AsksStep DEF SocketInv
<1>9. TokensInv'
  BY <1>1, <1>3, <1>5, TokensStep DEF SocketInv, Turns, Showing
<1>10. QED
  BY <1>7, <1>8, <1>9 DEF SocketInv

\* an ask goes on to its next place; what it said is heard, or the socket is shut
LEMMA RunSocket ==
  ASSUME SocketInv, NEW c \in Conn, NEW r \in Going \cup {"no"},
         run[c] \in Going \ {"added"}, r # "added", run' = [run EXCEPT ![c] = r],
         gate' = gate \/ gate' = [gate EXCEPT ![c] = None],
         gate'[c] = "stream" => r \in {"text", "done"},
         heard' \in [Conn -> Seq(Told)], InTurn(heard'[c]),
         \A d \in Conn \ {c} : heard'[d] = heard[d],
         asking' = IF r = "no" THEN asking \ {c} ELSE asking,
         open' \subseteq open,
         c \in open' => (Finished(heard'[c]) <=> r \notin Streams),
         UNCHANGED <<subs, job, closing, C!surfaces>>
  PROVE  SocketInv'
<1>1. /\ run' \in [Conn -> {"no", "claimed"} \cup Going] /\ run'[c] = r
      /\ \A d \in Conn \ {c} : run'[d] = run[d]
  BY DEF SocketInv, SocketTypes
<1>2. /\ gate' \in [Conn -> {None, "reply", "stream"}]
      /\ gate'[c] = "reply" => gate[c] = "reply"
      /\ \A d \in Conn \ {c} : gate'[d] = gate[d]
  BY NobodyAssumption DEF SocketInv, SocketTypes
<1>3. Others(c)
  BY <1>1, <1>2 DEF Others
<1>4. AskHolds(c)'
  BY <1>1, <1>2 DEF SocketInv, AsksInv, AskHolds, AskOK, SocketTypes, Going
<1>5. SocketTypes'
  BY <1>1, <1>2 DEF SocketInv, SocketTypes
<1>6. AsksInv'
  BY <1>1, <1>3, <1>4, AsksStep DEF SocketInv, AsksInv, Going
<1>7. TokensInv'
  BY DEF SocketInv, TokensInv, SurfaceOK, Showing, C!surfaces
<1>8. QED
  BY <1>5, <1>6, <1>7 DEF SocketInv

LEMMA TierSocket ==
  ASSUME SocketInv, NEW c \in Conn,
         C!TierSpeaks(c) \/ C!TierEnds(c) \/ C!ReleaseAsk(c) \/ C!RunDone(c)
  PROVE  SocketInv'
<1>1. PICK r \in Going \cup {"no"} :
        /\ run' = [run EXCEPT ![c] = r]
        /\ \/ run[c] = "runs" /\ r \in {"text", "done"}
           \/ run[c] = "ending" /\ r = "released"
           \/ run[c] = "released" /\ r = "no"
        /\ asking' = IF r = "no" THEN asking \ {c} ELSE asking
  BY DEF C!TierSpeaks, C!TierEnds, C!ReleaseAsk, C!RunDone, Going
<1>2. UNCHANGED <<subs, open, gate, heard, job, closing, C!surfaces>>
  BY DEF C!TierSpeaks, C!TierEnds, C!ReleaseAsk, C!RunDone, C!rooms
<1>3. /\ run[c] \in Going \ {"added"} /\ r # "added"
      /\ gate[c] = "stream" => r \in {"text", "done"}
      /\ r \in Streams <=> run[c] \in Streams
      /\ heard \in [Conn -> Seq(Told)] /\ InTurn(heard[c])
      /\ c \in open => (Finished(heard[c]) <=> run[c] \notin Streams)
  BY <1>1 DEF SocketInv, SocketTypes, AsksInv, AskHolds, AskOK, Going, Streams
<1>4. QED
  BY <1>1, <1>2, <1>3, RunSocket

LEMMA StreamedSocket ==
  ASSUME SocketInv, NEW c \in Conn, C!Streamed(c) \/ C!StreamFails(c)
  PROVE  SocketInv'
<1>1. /\ gate[c] = "stream" /\ run[c] \in {"text", "done"}
      /\ gate' = [gate EXCEPT ![c] = None] /\ gate'[c] = None
      /\ UNCHANGED <<subs, asking, job, closing, C!surfaces>>
  BY DEF C!Streamed, C!StreamFails, C!rooms, SocketInv, SocketTypes, AsksInv, AskHolds, AskOK
<1>2. CASE C!Streamed(c)
  <2> DEFINE g == Append(heard[c], run[c])
             r == IF run[c] = "text" THEN "runs" ELSE "ending"
  <2>1. heard[c] \in Seq(Told) /\ InTurn(heard[c]) /\ ~Finished(heard[c])
    BY <1>1, <1>2 DEF C!Streamed, SocketInv, SocketTypes, AsksInv, AskHolds, AskOK, Streams
  <2>2. g \in Seq(Told) /\ InTurn(g) /\ (Finished(g) <=> run[c] = "done")
    BY <1>1, <2>1, HeardTier
  <2>3. /\ heard' = [heard EXCEPT ![c] = g] /\ run' = [run EXCEPT ![c] = r] /\ open' = open
    BY <1>2 DEF C!Streamed, C!rooms
  <2>4. r \in Going \cup {"no"} /\ r # "added" /\ r # "no" /\ (r \in Streams <=> run[c] = "text")
    BY DEF Going, Streams
  <2> HIDE DEF g, r
  <2>5. /\ heard' \in [Conn -> Seq(Told)] /\ heard'[c] = g
        /\ \A d \in Conn \ {c} : heard'[d] = heard[d]
    BY <2>2, <2>3 DEF SocketInv, SocketTypes
  <2>6. run[c] \in Going \ {"added"}
    BY <1>1 DEF Going
  <2>7. QED
    BY <1>1, <2>2, <2>3, <2>4, <2>5, <2>6, NobodyAssumption, RunSocket
<1>3. CASE C!StreamFails(c)
  <2> DEFINE r == IF run[c] = "text" THEN "done" ELSE "ending"
  <2>1. /\ run' = [run EXCEPT ![c] = r] /\ open' = open \ {c} /\ heard' = heard
    BY <1>3 DEF C!StreamFails, C!Unwritten
  <2>2. r \in Going \cup {"no"} /\ r # "added" /\ r # "no"
    BY DEF Going
  <2> HIDE DEF r
  <2>3. run[c] \in Going \ {"added"} /\ heard \in [Conn -> Seq(Told)] /\ InTurn(heard[c])
    BY <1>1 DEF Going, SocketInv, SocketTypes, AsksInv, AskHolds, AskOK
  <2>4. QED
    BY <1>1, <2>1, <2>2, <2>3, NobodyAssumption, RunSocket
<1>4. QED
  BY <1>2, <1>3

-----------------------------------------------------------------------------
LEMMA SocketStep ==
  ASSUME SocketInv, C!Next
  PROVE  SocketInv'
<1>1. ASSUME NEW c \in Conn, C!Client(c) \/ C!TierSpeaks(c)
      PROVE  SocketInv'
  <2>1. CASE C!Hangup(c)
    BY <2>1, UntouchedSocket DEF C!Hangup, C!asked, SocketInv, SocketTypes
  <2>2. CASE C!Call(c)
    BY <2>2, RequestSocket DEF C!Call, C!Reads, C!asked, SocketInv, SocketTypes
  <2>3. CASE C!Listen(c)
    BY <2>3, RequestSocket DEF C!Listen, C!Reads, C!asked, SocketInv, SocketTypes
  <2>4. CASE C!Surface(c)
    BY <2>4, RequestSocket DEF C!Surface, C!Reads, C!asked, SocketInv, SocketTypes
  <2>5. CASE \E t \in drawn : C!Acknowledge(c, t)
    BY <2>5, AcknowledgeSocket
  <2>6. QED
    BY <1>1, <2>1, <2>2, <2>3, <2>4, <2>5, AdmitSocket, AskSocket, TierSocket DEF C!Client
<1>2. ASSUME NEW c \in Conn, C!Handler(c)
      PROVE  SocketInv'
  BY <1>2, LeaveSocket, GateSocket, RepliedSocket, UnrepliedSocket, AwaitSocket, SnapshotSocket,
     SendSocket, SentSocket, StartRunSocket DEF C!Handler
<1>3. ASSUME NEW c \in Conn, C!AskRun(c) \/ C!Drop(c)
      PROVE  SocketInv'
  <2>1. CASE C!Drop(c)
    BY <2>1, UntouchedSocket DEF C!Drop, C!asked, SocketInv, SocketTypes
  <2>2. QED
    BY <1>3, <2>1, TierSocket, GateSocket, StreamedSocket DEF C!AskRun
<1>4. CASE C!Pump
  <2>1. CASE C!PumpTakes \/ C!PumpStops
    BY <2>1, UntouchedSocket DEF C!PumpTakes, C!PumpStops, C!rooms, C!asked, SocketInv, SocketTypes
  <2>2. CASE \E l \in Conn, how \in C!Hows : C!PumpSends(l, how)
    BY <2>2, UntouchedSocket DEF C!PumpSends, C!EventTo, C!asked, SocketInv, SocketTypes
  <2>3. QED
    BY <1>4, <2>1, <2>2 DEF C!Pump
<1>5. CASE C!Closes \/ C!Close \/ C!Pop
  <2>1. /\ UNCHANGED <<job, run, gate, heard, asking, subs, open, C!surfaces>>
        /\ closing' = "done" => closing = "done" \/ C!Counted = {}
    BY <1>5 DEF C!Closes, C!StopRuns, C!RunsGone, C!WaitedEnough, C!Close, C!Pop, C!rooms, C!asked
  <2>2. C!Counted = {} => \A c \in Conn : run[c] \in {"no", "claimed"}
    BY DEF C!Counted
  <2>3. QED
    BY <2>1, <2>2, UntouchedSocket DEF SocketInv, SocketTypes
<1>6. QED
  BY <1>1, <1>2, <1>3, <1>4, <1>5 DEF C!Next, C!Zded

LEMMA SocketInit ==
  ASSUME Init
  PROVE  SocketInv
<1>1. C!Init
  BY DEF Init
<1>2. C!Idle \in Jobs /\ C!Idle.at = "none" /\ C!Idle.line = None
  BY DEF C!Idle, Jobs, Places
<1>3. << >> \in Seq(Told) /\ InTurn(<< >>) /\ Finished(<< >>)
  BY DEF InTurn, Finished
<1>4. SocketTypes
  BY <1>1, <1>2, <1>3 DEF C!Init, SocketTypes
<1>5. AsksInv
  BY <1>1, <1>2, <1>3, NobodyAssumption DEF C!Init, AsksInv, AskHolds, AskOK, Going, Streams
<1>6. TokensInv
  BY <1>1, <1>2, NobodyAssumption DEF C!Init, TokensInv, SurfaceOK, Showing
<1>7. QED
  BY <1>4, <1>5, <1>6 DEF SocketInv

-----------------------------------------------------------------------------
(***************************************************************************)
(* The shell's channel.  What is on its way on the socket of the moment    *)
(* answers what that socket was asked, once, and each reply before what    *)
(* follows from it; an older daemon's replies are the one waited for.      *)
(***************************************************************************)
Lines == [conn : Nat, kind : {"reply", "piece", "done", "notice"}, of : Nat, ok : BOOLEAN,
          id : Nat \cup {None}]

ChannelTypes ==
  /\ link \in [sock : Nat, up : BOOLEAN, ready : BOOLEAN, legacy : BOOLEAN]
  /\ sequence \in Nat /\ acks \in 0 .. PendingMax
  /\ pending \subseteq 1 .. sequence /\ Cardinality(pending) <= H!Cap
  /\ peer \in [old : BOOLEAN, todo : SUBSET Nat, asking : Nat, gone : BOOLEAN]
  /\ peer.todo \subseteq 0 .. sequence /\ peer.asking \in 0 .. sequence
  /\ window \in [on : Nat, running : BOOLEAN, awaiting : BOOLEAN, live : SUBSET Nat]
  /\ window.on \in 0 .. sequence /\ window.live \subseteq {window.on}
  /\ window.awaiting => window.running
  /\ lines \in Seq(Lines)

\* one line l of the socket, which is ready or not, of a peer pr, for a window w
LineOK(l, lk, pr, w, waited, last) ==
  /\ l.kind = "reply" =>
       /\ l.of <= last /\ l.of \notin pr.todo
       /\ l.id = IF pr.old THEN None ELSE l.of
       /\ lk.ready <=> l.of # 0
       /\ lk.ready /\ lk.legacy => l.of \in waited
       /\ l.ok \/ pr.gone \/ l.of # pr.asking
  /\ l.kind # "reply" => l.id = None
  /\ l.kind = "notice" => pr.gone /\ ~l.ok
  /\ l.kind \in {"piece", "done"} =>
       lk.ready /\ w.running /\ l.of = w.on /\ l.of \notin pr.todo
  /\ l.kind = "done" => pr.gone \/ pr.asking = 0

\* of two lines of the socket, l comes first
PairOK(l, m) ==
  /\ l.kind # "notice"
  /\ l.kind = "reply" /\ m.kind = "reply" => l.of # m.of
  /\ l.kind = "done" => m.kind \notin {"piece", "done"}
  /\ l.kind = "reply" /\ ~l.ok /\ m.kind \in {"piece", "done"} => l.of # m.of
  /\ m.kind = "reply" /\ ~m.ok /\ l.kind \in {"piece", "done"} => l.of # m.of

LinesOK(ls, lk, pr, w, waited, last) ==
  /\ \A i \in DOMAIN ls : ls[i].conn <= lk.sock
  /\ \A i \in DOMAIN ls : ls[i].conn = lk.sock => LineOK(ls[i], lk, pr, w, waited, last)
  /\ \A i, j \in DOMAIN ls :
       i < j /\ ls[i].conn = lk.sock /\ ls[j].conn = lk.sock => PairOK(ls[i], ls[j])

\* what the daemon still owes, and that it owes it to the window which asked
PeerOK(lk, pr, w, waited) ==
  /\ ~lk.ready => pr.todo \subseteq {0} /\ pr.asking = 0
  /\ lk.ready => 0 \notin pr.todo /\ lk.legacy = pr.old
  /\ ~pr.gone =>
       /\ pr.asking # 0 => w.running /\ w.on = pr.asking /\ pr.asking \notin pr.todo
       /\ w.on \in pr.todo /\ w.on # 0 => w.running
       /\ lk.ready /\ lk.legacy => pr.todo \subseteq waited

\* an answer goes on, or its end is on its way, or the connection's
Promised(ls, lk, pr, q) ==
  \/ pr.asking = q \/ pr.gone
  \/ \E i \in DOMAIN ls : ls[i].conn = lk.sock /\ ls[i].kind = "done" /\ ls[i].of = q

WindowOK(ls, lk, pr, w, waited) ==
  w.running =>
    /\ lk.ready /\ w.on # 0
    /\ \/ Promised(ls, lk, pr, w.on)
       \/ /\ w.on \in waited
          /\ \A i \in DOMAIN ls :
               ls[i].conn = lk.sock /\ ls[i].kind = "reply" /\ ls[i].of = w.on => ~ls[i].ok

LinkOK ==
  /\ link.ready => link.up
  /\ ~link.ready => pending = {} /\ acks = 0
  /\ ~link.up => \A i \in DOMAIN lines : lines[i].conn # link.sock

ChannelInv ==
  /\ ChannelTypes /\ LinkOK /\ H!OwnReplyOnce /\ H!TokensGo
  /\ LinesOK(lines, link, peer, window, pending, sequence)
  /\ link.up => PeerOK(link, peer, window, pending)
  /\ WindowOK(lines, link, peer, window, pending)

-----------------------------------------------------------------------------
LEMMA RemoveAtIs ==
  ASSUME NEW S, NEW s \in Seq(S), NEW i \in DOMAIN s
  PROVE  /\ H!RemoveAt(s, i) \in Seq(S)
         /\ DOMAIN H!RemoveAt(s, i) = 1 .. Len(s) - 1
         /\ \A k \in 1 .. Len(s) - 1 : H!RemoveAt(s, i)[k] = s[IF k < i THEN k ELSE k + 1]
<1>1. i \in 1 .. Len(s) /\ Len(s) \in Nat
  OBVIOUS
<1> DEFINE before == SubSeq(s, 1, i - 1)
           after == SubSeq(s, i + 1, Len(s))
<1>2. before \in Seq(S) /\ Len(before) = i - 1 /\ \A k \in 1 .. i - 1 : before[k] = s[k]
  BY <1>1
<1>3. after \in Seq(S) /\ Len(after) = Len(s) - i /\ \A k \in 1 .. Len(s) - i : after[k] = s[k + i]
  BY <1>1
<1>4. H!RemoveAt(s, i) = before \o after
  BY DEF H!RemoveAt
<1> HIDE DEF before, after
<1>5. /\ before \o after \in Seq(S) /\ Len(before \o after) = Len(s) - 1
      /\ \A k \in 1 .. Len(s) - 1 :
           (before \o after)[k] = IF k <= i - 1 THEN before[k] ELSE after[k - (i - 1)]
  <2>1. before \in Seq(S) /\ after \in Seq(S)
    BY <1>2, <1>3
  <2>2. before \o after \in Seq(S) /\ Len(before \o after) = Len(before) + Len(after)
    BY ONLY <2>1
  <2>3. \A k \in 1 .. Len(before) + Len(after) :
          (before \o after)[k] =
            IF k <= Len(before) THEN before[k] ELSE after[k - Len(before)]
    BY ONLY <2>1
  <2>4. Len(before) = i - 1 /\ Len(before) + Len(after) = Len(s) - 1
    BY <1>1, <1>2, <1>3
  <2> QED
    BY <2>2, <2>3, <2>4
<1>6. ASSUME NEW k \in 1 .. Len(s) - 1
      PROVE  (before \o after)[k] = s[IF k < i THEN k ELSE k + 1]
  <2>1. CASE k < i
    <3>1. k \in 1 .. i - 1 /\ k <= i - 1
      BY <1>1, <2>1
    <3>2. (before \o after)[k] = before[k]
      BY <1>5, <3>1
    <3> QED
      BY <1>2, <2>1, <3>1, <3>2
  <2>2. CASE k >= i
    <3> DEFINE m == k - (i - 1)
    <3>1. m \in 1 .. Len(s) - i /\ m + i = k + 1 /\ ~ k <= i - 1 /\ ~ k < i
      BY <1>1, <2>2
    <3>2. (before \o after)[k] = after[m]
      BY <1>5, <3>1
    <3> HIDE DEF m
    <3>3. after[m] = s[m + i]
      BY <1>3, <3>1
    <3>4. m + i = IF k < i THEN k ELSE k + 1
      BY <3>1
    <3> QED
      BY <3>2, <3>3, <3>4
  <2>3. k < i \/ k >= i
    BY <1>1
  <2> QED
    BY <2>1, <2>2, <2>3, Zenon
<1>7. before \o after \in Seq(S) /\ DOMAIN (before \o after) = 1 .. Len(s) - 1
  <2> DEFINE b == before \o after
  <2>1. b \in Seq(S) /\ Len(b) = Len(s) - 1
    BY <1>5
  <2> HIDE DEF b
  <2>2. DOMAIN b = 1 .. Len(b)
    BY ONLY <2>1
  <2>3. b \in Seq(S) /\ DOMAIN b = 1 .. Len(s) - 1
    BY ONLY <2>1, <2>2
  <2> QED
    BY ONLY <2>3 DEF b
<1> QED
  BY ONLY <1>4, <1>6, <1>7, Zenon

\* A line that is heard leaves the others as they were, in their order.
LEMMA HeardLines ==
  ASSUME NEW ls \in Seq(Lines), NEW i \in DOMAIN ls,
         NEW lk, NEW pr, NEW w, NEW waited, NEW last,
         LinesOK(ls, lk, pr, w, waited, last)
  PROVE  LinesOK(H!RemoveAt(ls, i), lk, pr, w, waited, last)
<1> DEFINE rest == H!RemoveAt(ls, i)
           was(k) == IF k < i THEN k ELSE k + 1
<1>1. /\ i \in 1 .. Len(ls) /\ Len(ls) \in Nat /\ DOMAIN ls = 1 .. Len(ls)
      /\ DOMAIN rest = 1 .. Len(ls) - 1
      /\ \A k \in DOMAIN rest : rest[k] = ls[was(k)]
  <2>1. /\ DOMAIN rest = 1 .. Len(ls) - 1
        /\ \A k \in 1 .. Len(ls) - 1 : rest[k] = ls[IF k < i THEN k ELSE k + 1]
    BY RemoveAtIs
  <2> HIDE DEF rest
  <2> QED
    BY <2>1
<1>2. \A k \in DOMAIN rest : was(k) \in DOMAIN ls
  BY <1>1
<1>3. \A j, k \in DOMAIN rest : j < k => was(j) < was(k)
  BY <1>1
<1> HIDE DEF rest, was
<1> QED
  BY <1>1, <1>2, <1>3 DEF LinesOK, rest

\* A line that is sent is the last of its socket.
LEMMA SentLines ==
  ASSUME NEW ls \in Seq(Lines), NEW l, l \in Lines,
         NEW lk, NEW pr, NEW pr2, NEW w, NEW waited, NEW last,
         LinesOK(ls, lk, pr, w, waited, last),
         l.conn = lk.sock, lk.sock \in Nat, LineOK(l, lk, pr2, w, waited, last),
         \A i \in DOMAIN ls :
           ls[i].conn = lk.sock => LineOK(ls[i], lk, pr2, w, waited, last) /\ PairOK(ls[i], l)
  PROVE  LinesOK(Append(ls, l), lk, pr2, w, waited, last)
<1> DEFINE more == Append(ls, l)
<1>1. /\ Len(ls) \in Nat /\ DOMAIN ls = 1 .. Len(ls) /\ DOMAIN more = 1 .. Len(ls) + 1
      /\ \A k \in DOMAIN ls : more[k] = ls[k]
      /\ more[Len(ls) + 1] = l
  OBVIOUS
<1>2. \A k \in DOMAIN more : k \in DOMAIN ls \/ k = Len(ls) + 1
  BY <1>1
<1>3. \A j, k \in DOMAIN more : j < k => j \in DOMAIN ls
  BY <1>1
<1> HIDE DEF more
<1>4. \A i \in DOMAIN more : more[i].conn <= lk.sock
  BY <1>1, <1>2 DEF LinesOK
<1>5. \A i \in DOMAIN more :
        more[i].conn = lk.sock => LineOK(more[i], lk, pr2, w, waited, last)
  BY <1>1, <1>2 DEF LinesOK
<1>6. \A i, j \in DOMAIN more :
        i < j /\ more[i].conn = lk.sock /\ more[j].conn = lk.sock => PairOK(more[i], more[j])
  BY <1>1, <1>2, <1>3 DEF LinesOK
<1> QED
  BY <1>4, <1>5, <1>6 DEF LinesOK, more

\* Ids are new: what is on its way answers none of those written now.
LEMMA AskedLines ==
  ASSUME NEW ls \in Seq(Lines), NEW lk, NEW pr, NEW pr2, NEW w, NEW waited,
         NEW rest, NEW last \in Nat, NEW n \in Nat,
         pr2.old = pr.old, pr2.gone = pr.gone, pr2.asking = pr.asking,
         pr2.todo = pr.todo \cup (last + 1 .. last + n),
         LinesOK(ls, lk, pr, w, waited, last), w.on \in 0 .. last,
         \A i \in DOMAIN ls :
           ls[i].conn = lk.sock /\ ls[i].kind = "reply" /\ lk.ready /\ lk.legacy => ls[i].of \in rest
  PROVE  LinesOK(ls, lk, pr2, w, rest \cup (last + 1 .. last + n), last + n)
<1> DEFINE ids == last + 1 .. last + n
<1>1. ASSUME NEW i \in DOMAIN ls, ls[i].conn = lk.sock
      PROVE  LineOK(ls[i], lk, pr2, w, rest \cup ids, last + n)
  <2>1. LineOK(ls[i], lk, pr, w, waited, last) /\ ls[i] \in Lines /\ ls[i].of \in Nat
    <3>1. ls[i] \in Lines
      OBVIOUS
    <3> QED
      BY <1>1, <3>1 DEF LinesOK, Lines
  <2>2. ls[i].kind = "reply" => ls[i].of <= last + n /\ ls[i].of \notin ids
    BY <2>1 DEF LineOK
  <2>3. ls[i].kind \in {"piece", "done"} => ls[i].of \notin ids
    BY <2>1 DEF LineOK
  <2> HIDE DEF ids
  <2> QED
    BY <1>1, <2>1, <2>2, <2>3 DEF LineOK, ids
<1> QED
  BY <1>1 DEF LinesOK

-----------------------------------------------------------------------------
\* What ends was waited for, and is not waited for again.
LEMMA EndsOnce ==
  ASSUME sequence \in Nat, sequence' \in Nat, sequence <= sequence',
         pending \subseteq 1 .. sequence, H!OwnReplyOnce, NEW ends, NEW late,
         late = {e[1] : e \in ends}, late \subseteq pending,
         \A e \in ends : e[2] \in {0, e[1]},
         outcome'.results = outcome.results \cup ends,
         outcome'.again = outcome.again \cup (H!Ended \cap late),
         pending' = (pending \ late) \cup (sequence + 1 .. sequence')
  PROVE  H!OwnReplyOnce'
<1>1. H!Ended' = H!Ended \cup late
  BY DEF H!Ended
<1>2. H!Ended = (1 .. sequence) \ pending /\ outcome.again = {}
  BY DEF H!OwnReplyOnce
<1>3. 1 .. sequence' = (1 .. sequence) \cup (sequence + 1 .. sequence')
  OBVIOUS
<1>4. (1 .. sequence) \cap (sequence + 1 .. sequence') = {}
  OBVIOUS
<1>5. H!Ended \cap late = {}
  BY <1>2
<1>6. H!Ended' = (1 .. sequence') \ pending'
  BY <1>1, <1>2, <1>3, <1>4
<1>7. outcome'.again = {}
  BY <1>2, <1>5
<1>8. \A e \in outcome'.results : e[2] \in {0, e[1]}
  BY DEF H!OwnReplyOnce
<1> QED
  BY <1>6, <1>7, <1>8 DEF H!OwnReplyOnce

\* n more ids are waited for beside those left of the ones before.
LEMMA AsksMore ==
  ASSUME sequence \in Nat, pending \subseteq 1 .. sequence, NEW n \in Nat, NEW rest,
         rest \subseteq pending
  PROVE  /\ IsFiniteSet(pending) /\ IsFiniteSet(rest)
         /\ Cardinality(rest) \in Nat /\ Cardinality(rest) <= Cardinality(pending)
         /\ rest \cup (sequence + 1 .. sequence + n) \subseteq 1 .. sequence + n
         /\ Cardinality(rest \cup (sequence + 1 .. sequence + n)) = Cardinality(rest) + n
<1> DEFINE ids == sequence + 1 .. sequence + n
<1>1. IsFiniteSet(1 .. sequence)
  BY FS_Interval
<1>2. IsFiniteSet(pending) /\ IsFiniteSet(rest) /\ Cardinality(rest) <= Cardinality(pending)
  BY <1>1, FS_Subset
<1>3. Cardinality(rest) \in Nat
  BY <1>2, FS_CardinalityType
<1>4. IsFiniteSet(ids) /\ Cardinality(ids) = n
  <2>1. sequence + 1 \in Int /\ sequence + n \in Int
    OBVIOUS
  <2>2. /\ IsFiniteSet(ids)
        /\ Cardinality(ids) = IF sequence + 1 > sequence + n THEN 0
                              ELSE (sequence + n) - (sequence + 1) + 1
    BY <2>1, FS_Interval
  <2> QED
    BY <2>2
<1>5. rest \cap ids = {}
  OBVIOUS
<1>6. rest \cup ids \subseteq 1 .. sequence + n
  OBVIOUS
<1>7. Cardinality(rest \cup ids) = Cardinality(rest) + Cardinality(ids) - Cardinality({})
  <2> HIDE DEF ids
  <2> QED
    BY <1>2, <1>4, <1>5, FS_Union
<1>8. Cardinality({}) = 0
  BY FS_EmptySet
<1> QED
  BY <1>2, <1>3, <1>4, <1>6, <1>7, <1>8

\* Tokens go out to the places there are, and none waits while one is left.
LEMMA FlushesAll ==
  ASSUME sequence \in Nat, pending \subseteq 1 .. sequence, PendingMax \in Nat,
         NEW rest, rest \subseteq pending, Cardinality(pending) <= H!Cap,
         NEW queued \in 0 .. PendingMax, H!Flush(rest, queued)
  PROVE  \E n \in Nat :
           /\ H!Writes(n, rest) /\ acks' \in 0 .. PendingMax
           /\ Cardinality(rest) + n <= H!Cap
           /\ acks' > 0 => Cardinality(rest) + n = H!Cap
<1> DEFINE free == IF Cardinality(rest) < H!Cap THEN H!Cap - Cardinality(rest) ELSE 0
           n == IF queued < free THEN queued ELSE free
<1>1. H!Writes(n, rest) /\ acks' = queued - n
  BY DEF H!Flush, H!Cardinality, Cardinality
<1>2. Cardinality(rest) \in Nat /\ Cardinality(rest) <= Cardinality(pending)
  <2>1. IsFiniteSet(1 .. sequence)
    BY FS_Interval
  <2> QED
    BY <2>1, FS_Subset, FS_CardinalityType
<1>3. Cardinality(pending) \in Nat
  <2>1. IsFiniteSet(1 .. sequence)
    BY FS_Interval
  <2> QED
    BY <2>1, FS_Subset, FS_CardinalityType
<1>4. H!Cap \in Nat
  BY DEF H!Cap
<1>5. /\ n \in Nat /\ queued - n \in 0 .. PendingMax /\ Cardinality(rest) + n <= H!Cap
      /\ queued - n > 0 => Cardinality(rest) + n = H!Cap
  BY <1>2, <1>3, <1>4
<1> HIDE DEF n
<1> QED
  BY <1>1, <1>5

-----------------------------------------------------------------------------
LEMMA Errors ==
  ASSUME NEW ids, NEW ends, ends = {<<id, 0>> : id \in ids}
  PROVE  ids = {e[1] : e \in ends} /\ \A e \in ends : e[2] \in {0, e[1]}
<1>1. \A id \in ids : <<id, 0>> \in ends /\ <<id, 0>>[1] = id
  OBVIOUS
<1>2. \A e \in ends : e[1] \in ids /\ e[2] = 0
  OBVIOUS
<1>3. ids = {e[1] : e \in ends}
  BY ONLY <1>1, <1>2
<1> QED
  BY <1>2, <1>3

\* Whatever was waited for ends with an error when the socket is given up or
\* lost, and nothing of the next one is on its way.
LEMMA FailHolds ==
  ASSUME ChannelInv, H!Fail,
         link' \in [sock : Nat, up : BOOLEAN, ready : BOOLEAN, legacy : BOOLEAN],
         ~link'.ready, lines' \in Seq(Lines),
         \A i \in DOMAIN lines' : lines'[i].conn < link'.sock,
         peer' \in [old : BOOLEAN, todo : SUBSET Nat, asking : Nat, gone : BOOLEAN],
         peer'.todo \subseteq 0 .. sequence, peer'.asking \in 0 .. sequence,
         link'.up => peer'.todo \subseteq {0} /\ peer'.asking = 0
  PROVE  ChannelInv'
<1>1. /\ pending' = {} /\ acks' = 0 /\ sequence' = sequence
      /\ outcome'.results = outcome.results \cup {<<id, 0>> : id \in pending}
      /\ outcome'.again =
           outcome.again \cup (H!Ended \cap {e[1] : e \in {<<id, 0>> : id \in pending}})
      /\ window' = IF window.running THEN H!Closed ELSE window
  BY DEF H!Fail, H!Ends
<1>2. ~window'.running /\ window'.on = window.on /\ window'.live \subseteq {window.on}
      /\ ~window'.awaiting
      /\ window' \in [on : Nat, running : BOOLEAN, awaiting : BOOLEAN, live : SUBSET Nat]
  <2>1. window \in [on : Nat, running : BOOLEAN, awaiting : BOOLEAN, live : SUBSET Nat]
        /\ (window.awaiting => window.running) /\ window.live \subseteq {window.on}
    BY DEF ChannelInv, ChannelTypes
  <2>2. CASE window.running
    BY <1>1, <2>1, <2>2 DEF H!Closed
  <2>3. CASE ~window.running
    BY <1>1, <2>1, <2>3
  <2> QED
    BY <2>2, <2>3
<1>3. ChannelTypes'
  <2>1. Cardinality({}) = 0 /\ H!Cap' \in Nat
    BY FS_EmptySet, DialsAssumption DEF H!Cap
  <2>2. Cardinality(pending)' <= H!Cap'
    BY <1>1, <2>1
  <2>3. window.on \in 0 .. sequence /\ sequence \in Nat
    BY DEF ChannelInv, ChannelTypes
  <2> QED
    BY <1>1, <1>2, <2>2, <2>3, DialsAssumption DEF ChannelTypes
<1>4. LinkOK' /\ H!TokensGo'
  <2>1. \A i \in DOMAIN lines' : lines'[i].conn # link'.sock
    <3> TAKE i \in DOMAIN lines'
    <3>1. lines'[i] \in Lines
      OBVIOUS
    <3> QED
      BY <3>1 DEF Lines
  <2> QED
    BY <1>1, <2>1 DEF LinkOK, H!TokensGo
<1>5. H!OwnReplyOnce'
  <2> DEFINE ends == {<<id, 0>> : id \in pending}
  <2>1. pending = {e[1] : e \in ends} /\ \A e \in ends : e[2] \in {0, e[1]}
    BY Errors
  <2>2. /\ sequence \in Nat /\ sequence <= sequence /\ pending \subseteq 1 .. sequence
        /\ H!OwnReplyOnce
    BY DEF ChannelInv, ChannelTypes
  <2>3. outcome'.results = outcome.results \cup ends
    BY <1>1
  <2>4. outcome'.again = outcome.again \cup (H!Ended \cap pending)
    BY <1>1, <2>1
  <2>5. pending' = (pending \ pending) \cup (sequence + 1 .. sequence')
    BY <1>1, <2>2
  <2> HIDE DEF ends
  <2> QED
    BY <1>1, <2>1, <2>2, <2>3, <2>4, <2>5, EndsOnce
<1>6. LinesOK(lines, link, peer, window, pending, sequence)'
  <2>1. \A i \in DOMAIN lines' :
          lines'[i].conn <= link'.sock /\ lines'[i].conn # link'.sock
    <3> TAKE i \in DOMAIN lines'
    <3>1. lines'[i] \in Lines
      OBVIOUS
    <3> QED
      BY <3>1 DEF Lines
  <2> QED
    BY <2>1 DEF LinesOK
<1>7. link'.up => PeerOK(link, peer, window, pending)'
  BY <1>1, <1>2 DEF PeerOK
<1>8. WindowOK(lines, link, peer, window, pending)'
  BY <1>2 DEF WindowOK
<1> QED
  BY <1>3, <1>4, <1>5, <1>6, <1>7, <1>8 DEF ChannelInv

\* A new socket is dialed, and only the probe asked on it.
LEMMA RestartHolds ==
  ASSUME ChannelInv, H!Restart, lines' \in Seq(Lines),
         \A i \in DOMAIN lines' : lines'[i].conn <= link.sock
  PROVE  ChannelInv'
<1>1. H!Fail /\ H!Dial
  BY DEF H!Restart
<1>2. PICK up \in BOOLEAN, old \in BOOLEAN :
        /\ link' = [link EXCEPT !.sock = @ + 1, !.up = up, !.ready = FALSE]
        /\ peer' = H!NewPeer(old)
  BY <1>1 DEF H!Dial
<1>3. /\ link \in [sock : Nat, up : BOOLEAN, ready : BOOLEAN, legacy : BOOLEAN]
      /\ sequence \in Nat
  BY DEF ChannelInv, ChannelTypes
<1>4. /\ link' \in [sock : Nat, up : BOOLEAN, ready : BOOLEAN, legacy : BOOLEAN]
      /\ ~link'.ready /\ link'.sock = link.sock + 1 /\ link.sock \in Nat
  <2> DEFINE no == FALSE
  <2>1. no \in BOOLEAN /\ ~no
    OBVIOUS
  <2> HIDE DEF no
  <2>2. link' = [link EXCEPT !.sock = @ + 1, !.up = up, !.ready = no]
    BY <1>2 DEF no
  <2>3. link.sock \in Nat /\ link.sock + 1 \in Nat
    BY <1>3
  <2>4. link' \in [sock : Nat, up : BOOLEAN, ready : BOOLEAN, legacy : BOOLEAN]
    BY <1>3, <2>1, <2>2, <2>3
  <2>5. link'.ready = no /\ link'.sock = link.sock + 1
    BY <1>3, <2>2
  <2> QED
    BY <2>1, <2>3, <2>4, <2>5
<1>5. /\ peer' \in [old : BOOLEAN, todo : SUBSET Nat, asking : Nat, gone : BOOLEAN]
      /\ peer'.todo = {0} /\ peer'.asking = 0
  BY <1>2 DEF H!NewPeer
<1>6. \A i \in DOMAIN lines' : lines'[i].conn < link'.sock
  <2> TAKE i \in DOMAIN lines'
  <2>1. lines'[i] \in Lines /\ lines'[i].conn <= link.sock
    OBVIOUS
  <2> QED
    BY <1>4, <2>1 DEF Lines
<1> QED
  BY <1>1, <1>3, <1>4, <1>5, <1>6, FailHolds

LEMMA LosesHolds ==
  ASSUME ChannelInv, H!Loses  PROVE ChannelInv'
<1>1. /\ H!Fail /\ link' = [link EXCEPT !.up = FALSE, !.ready = FALSE]
      /\ peer' = peer /\ lines' = lines
      /\ \A i \in DOMAIN lines : lines[i].conn # link.sock
  BY DEF H!Loses, H!Hears
<1>2. ChannelTypes
  BY DEF ChannelInv
<1>3. /\ link' \in [sock : Nat, up : BOOLEAN, ready : BOOLEAN, legacy : BOOLEAN]
      /\ ~link'.ready /\ ~link'.up /\ link'.sock = link.sock /\ link.sock \in Nat
  BY <1>1, <1>2 DEF ChannelTypes
<1>4. \A i \in DOMAIN lines' : lines'[i].conn < link'.sock
  <2> TAKE i \in DOMAIN lines'
  <2>1. lines[i] \in Lines
    BY <1>1, <1>2 DEF ChannelTypes
  <2>2. lines[i].conn <= link.sock /\ lines[i].conn # link.sock
    BY <1>1 DEF ChannelInv, LinesOK
  <2> QED
    BY <1>1, <1>3, <2>1, <2>2 DEF Lines
<1> QED
  BY <1>1, <1>2, <1>3, <1>4, FailHolds DEF ChannelTypes

-----------------------------------------------------------------------------
\* What the ids written now change besides the lines and the window.
LEMMA AskedHolds ==
  ASSUME ChannelInv, link.up, link.ready, NEW n \in Nat, NEW rest, rest \subseteq pending,
         H!Writes(n, rest), Cardinality(rest) + n <= H!Cap,
         acks' \in 0 .. PendingMax, acks' > 0 => Cardinality(rest) + n >= H!Cap,
         link' = link, lines' \in Seq(Lines),
         window' \in [on : Nat, running : BOOLEAN, awaiting : BOOLEAN, live : SUBSET Nat],
         window'.on \in 0 .. sequence + n, window'.live \subseteq {window'.on},
         window'.awaiting => window'.running
  PROVE  /\ ChannelTypes' /\ LinkOK' /\ H!TokensGo' /\ sequence' = sequence + n
         /\ pending' = rest \cup (sequence + 1 .. sequence')
         /\ peer' = [peer EXCEPT !.todo = @ \cup (sequence + 1 .. sequence')]
<1> DEFINE ids == sequence + 1 .. sequence + n
<1>1. /\ sequence' = sequence + n /\ pending' = rest \cup ids
      /\ peer' = [peer EXCEPT !.todo = @ \cup ids]
  BY DEF H!Writes
<1>2. /\ sequence \in Nat /\ pending \subseteq 1 .. sequence
      /\ peer \in [old : BOOLEAN, todo : SUBSET Nat, asking : Nat, gone : BOOLEAN]
      /\ peer.todo \subseteq 0 .. sequence /\ peer.asking \in 0 .. sequence
      /\ link \in [sock : Nat, up : BOOLEAN, ready : BOOLEAN, legacy : BOOLEAN]
  BY DEF ChannelInv, ChannelTypes
<1>3. pending' \subseteq 1 .. sequence' /\ Cardinality(pending') = Cardinality(rest) + n
  BY <1>1, <1>2, AsksMore
<1>4. H!Cap' = H!Cap
  BY DEF H!Cap
<1>5. ids \subseteq Nat /\ ids \subseteq 0 .. sequence' /\ 0 .. sequence \subseteq 0 .. sequence'
  BY <1>1, <1>2
<1>6. sequence' \in Nat
  BY <1>1, <1>2
<1> HIDE DEF ids
<1>7. /\ peer' \in [old : BOOLEAN, todo : SUBSET Nat, asking : Nat, gone : BOOLEAN]
      /\ peer'.todo = peer.todo \cup ids /\ peer'.asking = peer.asking
  <2>1. peer.todo \cup ids \in SUBSET Nat
    BY <1>2, <1>5
  <2> QED
    BY <1>1, <1>2, <2>1
<1>8. ChannelTypes'
  <2>1. Cardinality(pending') <= H!Cap'
    BY <1>3, <1>4
  <2>2. peer'.todo \subseteq 0 .. sequence' /\ peer'.asking \in 0 .. sequence'
    BY <1>2, <1>5, <1>7
  <2>3. window'.on \in 0 .. sequence'
    BY <1>1
  <2> QED
    BY <1>2, <1>3, <1>6, <1>7, <2>1, <2>2, <2>3, Zenon DEF ChannelTypes
<1>9. LinkOK'
  BY DEF LinkOK
<1>10. H!TokensGo'
  BY <1>3, <1>4 DEF H!TokensGo, H!Cardinality, Cardinality
<1> QED
  BY <1>1, <1>8, <1>9, <1>10 DEF ids

\* The lines on their way stand, and the peer owes what it was asked.
LEMMA AskedStands ==
  ASSUME ChannelInv, link.ready, NEW n \in Nat, NEW rest, rest \subseteq pending,
         NEW ls \in Seq(Lines), LinesOK(ls, link, peer, window, pending, sequence),
         link.legacy =>
           /\ ~peer.gone => peer.todo \subseteq rest
           /\ \A i \in DOMAIN ls :
                ls[i].conn = link.sock /\ ls[i].kind = "reply" => ls[i].of \in rest,
         link.up, NEW pr, NEW waited,
         pr = [peer EXCEPT !.todo = @ \cup (sequence + 1 .. sequence + n)],
         waited = rest \cup (sequence + 1 .. sequence + n)
  PROVE  /\ LinesOK(ls, link, pr, window, waited, sequence + n)
         /\ PeerOK(link, pr, window, waited)
<1> DEFINE ids == sequence + 1 .. sequence + n
<1>1. /\ sequence \in Nat
      /\ peer \in [old : BOOLEAN, todo : SUBSET Nat, asking : Nat, gone : BOOLEAN]
      /\ peer.todo \subseteq 0 .. sequence /\ peer.asking \in 0 .. sequence
      /\ window.on \in 0 .. sequence
  BY DEF ChannelInv, ChannelTypes
<1>2. /\ pr.old = peer.old /\ pr.gone = peer.gone /\ pr.asking = peer.asking
      /\ pr.todo = peer.todo \cup ids
  BY <1>1
<1>3. LinesOK(ls, link, pr, window, waited, sequence + n)
  <2>1. \A i \in DOMAIN ls :
          ls[i].conn = link.sock /\ ls[i].kind = "reply" /\ link.ready /\ link.legacy
            => ls[i].of \in rest
    OBVIOUS
  <2>2. pr.todo = peer.todo \cup (sequence + 1 .. sequence + n)
    BY <1>2
  <2> HIDE DEF ids
  <2>3. LinesOK(ls, link, pr, window, rest \cup (sequence + 1 .. sequence + n), sequence + n)
    BY <1>1, <1>2, <2>1, <2>2, AskedLines
  <2> QED
    BY <2>3
<1>4. \A id \in ids : id # 0 /\ id \notin 0 .. sequence
  BY <1>1
<1>5. PeerOK(link, peer, window, pending)
  BY DEF ChannelInv
<1>6. waited = rest \cup ids
  OBVIOUS
<1> HIDE DEF ids
<1>7. PeerOK(link, pr, window, waited)
  BY <1>1, <1>2, <1>4, <1>5, <1>6 DEF PeerOK
<1> QED
  BY <1>3, <1>7

\* no more is waited for, and nothing ended
LEMMA NothingEnded ==
  ASSUME ChannelInv, outcome' = outcome, sequence' \in Nat, sequence <= sequence',
         pending' = pending \cup (sequence + 1 .. sequence')
  PROVE  H!OwnReplyOnce'
<1>1. sequence \in Nat /\ pending \subseteq 1 .. sequence /\ H!OwnReplyOnce
  BY DEF ChannelInv, ChannelTypes
<1>2. {} = {e[1] : e \in {}}
  OBVIOUS
<1>3. /\ outcome'.results = outcome.results \cup {}
      /\ outcome'.again = outcome.again \cup (H!Ended \cap {})
      /\ pending' = (pending \ {}) \cup (sequence + 1 .. sequence')
  OBVIOUS
<1> QED
  BY <1>1, <1>2, <1>3, EndsOnce

\* Requests and tokens, with the window as it was.
LEMMA WrittenHolds ==
  ASSUME ChannelInv, link.up, link.ready, NEW n \in Nat, H!Writes(n, pending),
         Cardinality(pending) + n <= H!Cap, acks' \in 0 .. PendingMax,
         acks' > 0 => Cardinality(pending) + n >= H!Cap,
         link' = link, lines' = lines, window' = window, outcome' = outcome
  PROVE  ChannelInv'
<1>1. /\ lines \in Seq(Lines) /\ sequence \in Nat /\ pending \subseteq pending
      /\ window \in [on : Nat, running : BOOLEAN, awaiting : BOOLEAN, live : SUBSET Nat]
      /\ window.on \in 0 .. sequence /\ window.live \subseteq {window.on}
      /\ window.awaiting => window.running
  BY DEF ChannelInv, ChannelTypes
<1>2. window.on \in 0 .. sequence + n /\ sequence + n \in Nat /\ sequence <= sequence + n
  BY <1>1
<1>3. /\ ChannelTypes' /\ LinkOK' /\ H!TokensGo' /\ sequence' = sequence + n
      /\ pending' = pending \cup (sequence + 1 .. sequence')
      /\ peer' = [peer EXCEPT !.todo = @ \cup (sequence + 1 .. sequence')]
  BY <1>1, <1>2, AskedHolds
<1>4. /\ LinesOK(lines, link, peer, window, pending, sequence)
      /\ PeerOK(link, peer, window, pending)
      /\ WindowOK(lines, link, peer, window, pending)
  BY DEF ChannelInv
<1>5. link.legacy =>
        /\ ~peer.gone => peer.todo \subseteq pending
        /\ \A i \in DOMAIN lines :
             lines[i].conn = link.sock /\ lines[i].kind = "reply" => lines[i].of \in pending
  BY <1>4 DEF PeerOK, LinesOK, LineOK
<1>6. /\ LinesOK(lines, link, peer', window, pending', sequence + n)
      /\ PeerOK(link, peer', window, pending')
  BY <1>1, <1>3, <1>4, <1>5, AskedStands
<1>7. peer'.asking = peer.asking /\ peer'.gone = peer.gone
  <2>1. peer \in [old : BOOLEAN, todo : SUBSET Nat, asking : Nat, gone : BOOLEAN]
    BY DEF ChannelInv, ChannelTypes
  <2> QED
    BY <1>3, <2>1
<1>8. WindowOK(lines, link, peer', window, pending')
  BY <1>3, <1>4, <1>7 DEF WindowOK, Promised
<1>9. H!OwnReplyOnce'
  BY <1>2, <1>3, NothingEnded
<1> QED
  BY <1>3, <1>6, <1>8, <1>9 DEF ChannelInv

LEMMA CallHolds ==
  ASSUME ChannelInv, H!Call  PROVE ChannelInv'
<1>1. /\ IF H!Takes THEN H!Writes(1, pending) ELSE UNCHANGED <<sequence, pending, peer>>
      /\ link' = link /\ acks' = acks /\ outcome' = outcome /\ lines' = lines
      /\ window' = window
  BY DEF H!Call
<1>2. CASE H!Takes
  <2>1. link.up /\ link.ready /\ Cardinality(pending) < H!Cap /\ H!TokensGo
    BY <1>2 DEF H!Takes, H!Connected, ChannelInv, H!Cardinality, Cardinality
  <2>2. /\ acks \in 0 .. PendingMax /\ sequence \in Nat /\ pending \subseteq 1 .. sequence
    BY DEF ChannelInv, ChannelTypes
  <2>3. Cardinality(pending) \in Nat /\ H!Cap \in Nat
    <3>1. Cardinality(pending) \in Nat
      BY <2>2, AsksMore
    <3> QED
      BY <3>1, DialsAssumption DEF H!Cap
  <2>4. Cardinality(pending) + 1 <= H!Cap
    BY <2>1, <2>3
  <2>5. ~ acks > 0
    BY <2>1, <2>3 DEF H!TokensGo, H!Connected, H!Cardinality, Cardinality
  <2> QED
    BY <1>1, <1>2, <2>1, <2>2, <2>4, <2>5, WrittenHolds
<1>3. CASE ~H!Takes
  BY <1>1, <1>3 DEF ChannelInv, ChannelTypes, LinkOK, H!OwnReplyOnce, H!Ended, H!TokensGo,
     H!Cap, H!Connected
<1> QED
  BY <1>2, <1>3

LEMMA AcknowledgeHolds ==
  ASSUME ChannelInv, H!Acknowledge  PROVE ChannelInv'
<1>1. /\ link.up /\ link.ready /\ acks < PendingMax /\ H!Flush(pending, acks + 1)
      /\ link' = link /\ outcome' = outcome /\ lines' = lines /\ window' = window
  BY DEF H!Acknowledge, H!Connected
<1>2. /\ acks \in 0 .. PendingMax /\ sequence \in Nat /\ pending \subseteq 1 .. sequence
      /\ Cardinality(pending) <= H!Cap /\ PendingMax \in Nat
  BY DialsAssumption DEF ChannelInv, ChannelTypes
<1>3. acks + 1 \in 0 .. PendingMax
  BY <1>1, <1>2
<1>4. PICK n \in Nat :
        /\ H!Writes(n, pending) /\ acks' \in 0 .. PendingMax
        /\ Cardinality(pending) + n <= H!Cap
        /\ acks' > 0 => Cardinality(pending) + n = H!Cap
  BY <1>1, <1>2, <1>3, FlushesAll
<1>5. H!Cap \in Nat
  BY <1>2 DEF H!Cap
<1>6. acks' > 0 => Cardinality(pending) + n >= H!Cap
  BY <1>4, <1>5
<1> QED
  BY <1>1, <1>4, <1>6, WrittenHolds

-----------------------------------------------------------------------------
\* A window that is not waiting has nothing of its own on the way.
LEMMA OtherWindow ==
  ASSUME NEW ls, NEW lk, NEW pr, NEW w, NEW w2, NEW waited, NEW last,
         LinesOK(ls, lk, pr, w, waited, last),
         ~w.running \/ (w2.running = w.running /\ w2.on = w.on)
  PROVE  LinesOK(ls, lk, pr, w2, waited, last)
BY DEF LinesOK, LineOK

LEMMA SubmitHolds ==
  ASSUME ChannelInv, H!Submit  PROVE ChannelInv'
<1>1. /\ ~window.running /\ link' = link /\ acks' = acks /\ outcome' = outcome
      /\ lines' = lines
      /\ IF H!Takes
         THEN /\ H!Writes(1, pending)
              /\ window' = [on |-> sequence + 1, running |-> TRUE, awaiting |-> TRUE, live |-> {}]
         ELSE /\ window' = [H!Closed EXCEPT !.on = 0]
              /\ sequence' = sequence /\ pending' = pending /\ peer' = peer
  BY DEF H!Submit
<1>2. /\ lines \in Seq(Lines) /\ sequence \in Nat /\ pending \subseteq 1 .. sequence
      /\ window \in [on : Nat, running : BOOLEAN, awaiting : BOOLEAN, live : SUBSET Nat]
      /\ acks \in 0 .. PendingMax
      /\ peer \in [old : BOOLEAN, todo : SUBSET Nat, asking : Nat, gone : BOOLEAN]
      /\ peer.todo \subseteq 0 .. sequence /\ peer.asking \in 0 .. sequence
  BY DEF ChannelInv, ChannelTypes
<1>3. /\ LinesOK(lines, link, peer, window, pending, sequence)
      /\ link.up => PeerOK(link, peer, window, pending)
      /\ link.ready => link.up
  BY DEF ChannelInv, LinkOK
<1>4. CASE H!Takes
  <2> DEFINE id == sequence + 1
  <2>1. link.up /\ link.ready /\ Cardinality(pending) < H!Cap
    BY <1>4 DEF H!Takes, H!Connected, H!Cardinality, Cardinality
  <2>2. Cardinality(pending) \in Nat /\ H!Cap \in Nat
    <3>1. Cardinality(pending) \in Nat
      BY <1>2, AsksMore
    <3> QED
      BY <3>1, DialsAssumption DEF H!Cap
  <2>3. Cardinality(pending) + 1 <= H!Cap /\ ~ acks > 0
    BY <2>1, <2>2 DEF H!TokensGo, H!Connected, ChannelInv, H!Cardinality, Cardinality
  <2>4. /\ window' \in [on : Nat, running : BOOLEAN, awaiting : BOOLEAN, live : SUBSET Nat]
        /\ window'.on = id /\ window'.live = {} /\ window'.running /\ id \in 0 .. sequence + 1
        /\ id # 0
    <3> DEFINE yes_ == TRUE
    <3>1. yes_ \in BOOLEAN /\ yes_
      OBVIOUS
    <3> HIDE DEF yes_
    <3>2. window' = [on |-> id, running |-> yes_, awaiting |-> yes_, live |-> {}]
      BY <1>1, <1>4 DEF yes_
    <3> QED
      BY <1>2, <3>1, <3>2
  <2>5. /\ ChannelTypes' /\ LinkOK' /\ H!TokensGo' /\ sequence' = sequence + 1
        /\ pending' = pending \cup (sequence + 1 .. sequence')
        /\ peer' = [peer EXCEPT !.todo = @ \cup (sequence + 1 .. sequence')]
    BY <1>1, <1>2, <1>4, <2>1, <2>3, <2>4, AskedHolds
  <2>6. link.legacy =>
          /\ ~peer.gone => peer.todo \subseteq pending
          /\ \A i \in DOMAIN lines :
               lines[i].conn = link.sock /\ lines[i].kind = "reply" => lines[i].of \in pending
    BY <1>3, <2>1 DEF PeerOK, LinesOK, LineOK
  <2>7. /\ LinesOK(lines, link, peer', window, pending', sequence + 1)
        /\ PeerOK(link, peer', window, pending')
    BY <1>2, <1>3, <2>1, <2>5, <2>6, AskedStands
  <2>8. LinesOK(lines, link, peer', window', pending', sequence')
    BY <1>1, <2>5, <2>7, OtherWindow
  <2>9. /\ peer'.asking = peer.asking /\ peer'.gone = peer.gone
        /\ peer'.todo = peer.todo \cup (sequence + 1 .. sequence')
    BY <1>2, <2>5
  <2>10. PeerOK(link, peer', window', pending')
    <3>1. ~peer.gone => peer.asking = 0
      BY <1>1, <1>3, <2>1 DEF PeerOK
    <3> QED
      BY <2>4, <2>7, <2>9, <3>1 DEF PeerOK
  <2>11. WindowOK(lines, link, peer', window', pending')
    <3>1. id \in pending'
      BY <1>2, <2>5
    <3>2. \A i \in DOMAIN lines :
            lines[i].conn = link.sock /\ lines[i].kind = "reply" => lines[i].of # id
      <4> TAKE i \in DOMAIN lines
      <4>1. lines[i] \in Lines
        BY <1>2
      <4> QED
        BY <1>2, <1>3, <4>1 DEF LinesOK, LineOK, Lines
    <3> QED
      BY <2>1, <2>4, <3>1, <3>2 DEF WindowOK
  <2>12. H!OwnReplyOnce'
    BY <1>1, <1>2, <2>5, NothingEnded
  <2> QED
    BY <1>1, <2>5, <2>8, <2>10, <2>11, <2>12 DEF ChannelInv
<1>5. CASE ~H!Takes
  <2>1. /\ window' \in [on : Nat, running : BOOLEAN, awaiting : BOOLEAN, live : SUBSET Nat]
        /\ window'.on = 0 /\ window'.live = {} /\ ~window'.running /\ ~window'.awaiting
    <3> DEFINE no == FALSE
    <3>1. no \in BOOLEAN /\ ~no
      OBVIOUS
    <3> HIDE DEF no
    <3>2. window' = [[window EXCEPT !.running = no, !.awaiting = no, !.live = {}] EXCEPT !.on = 0]
      BY <1>1, <1>5 DEF H!Closed, no
    <3> QED
      BY <1>2, <3>1, <3>2
  <2>2. ChannelTypes' /\ LinkOK' /\ H!TokensGo' /\ H!OwnReplyOnce'
    BY <1>1, <1>2, <1>5, <2>1 DEF ChannelInv, ChannelTypes, LinkOK, H!OwnReplyOnce, H!Ended,
       H!TokensGo, H!Cap, H!Connected
  <2>3. LinesOK(lines, link, peer, window', pending, sequence)
    BY <1>1, <1>3, OtherWindow
  <2>4. link.up => PeerOK(link, peer, window', pending)
    BY <1>1, <1>3, <2>1 DEF PeerOK
  <2>5. WindowOK(lines, link, peer, window', pending)
    BY <2>1 DEF WindowOK
  <2> QED
    BY <1>1, <1>5, <2>2, <2>3, <2>4, <2>5 DEF ChannelInv
<1> QED
  BY <1>4, <1>5

\* What a window no longer shows changes nothing that it waits for.
LEMMA SameRun ==
  ASSUME ChannelInv, UNCHANGED <<link, sequence, pending, acks, outcome, peer, lines>>,
         window' \in [on : Nat, running : BOOLEAN, awaiting : BOOLEAN, live : SUBSET Nat],
         window'.on = window.on, window'.running = window.running,
         window'.live \subseteq {window.on}, window'.awaiting => window.awaiting
  PROVE  ChannelInv'
<1>1. LinesOK(lines, link, peer, window, pending, sequence)
  BY DEF ChannelInv
<1>2. LinesOK(lines, link, peer, window', pending, sequence)
  BY <1>1, OtherWindow
<1>3. (link.up => PeerOK(link, peer, window, pending))'
  BY DEF ChannelInv, PeerOK
<1>4. WindowOK(lines, link, peer, window, pending)'
  BY DEF ChannelInv, WindowOK, Promised
<1>5. ChannelTypes'
  BY DEF ChannelInv, ChannelTypes, H!Cap
<1>6. LinkOK' /\ H!TokensGo' /\ H!OwnReplyOnce'
  BY DEF ChannelInv, LinkOK, H!OwnReplyOnce, H!Ended, H!TokensGo, H!Cap, H!Connected
<1> QED
  BY <1>2, <1>3, <1>4, <1>5, <1>6 DEF ChannelInv

LEMMA ForgetHolds ==
  ASSUME ChannelInv, H!Forget  PROVE ChannelInv'
<1>1. /\ window' = [window EXCEPT !.awaiting = FALSE, !.live = {}]
      /\ UNCHANGED <<link, sequence, pending, acks, outcome, peer, lines>>
  BY DEF H!Forget
<1>2. window \in [on : Nat, running : BOOLEAN, awaiting : BOOLEAN, live : SUBSET Nat]
  BY DEF ChannelInv, ChannelTypes
<1> DEFINE no == FALSE
<1>3. no \in BOOLEAN /\ ~no /\ window' = [window EXCEPT !.awaiting = no, !.live = {}]
  BY <1>1
<1> HIDE DEF no
<1>4. /\ window' \in [on : Nat, running : BOOLEAN, awaiting : BOOLEAN, live : SUBSET Nat]
      /\ window'.on = window.on /\ window'.running = window.running /\ window'.live = {}
      /\ window'.awaiting = no
  BY <1>2, <1>3
<1> QED
  BY <1>1, <1>3, <1>4, SameRun

-----------------------------------------------------------------------------
LEMMA AppendIs ==
  ASSUME NEW S, NEW s \in Seq(S), NEW l \in S
  PROVE  /\ Append(s, l) \in Seq(S)
         /\ \A k \in DOMAIN s : k \in DOMAIN Append(s, l) /\ Append(s, l)[k] = s[k]
         /\ \A k \in DOMAIN Append(s, l) :
              \/ k \in DOMAIN s /\ Append(s, l)[k] = s[k]
              \/ Append(s, l)[k] = l
         /\ \E k \in DOMAIN Append(s, l) : Append(s, l)[k] = l
<1>1. /\ Append(s, l) \in Seq(S) /\ Len(s) \in Nat /\ DOMAIN s = 1 .. Len(s)
      /\ DOMAIN Append(s, l) = 1 .. Len(s) + 1 /\ Append(s, l)[Len(s) + 1] = l
      /\ \A k \in 1 .. Len(s) : Append(s, l)[k] = s[k]
  OBVIOUS
<1>2. Len(s) + 1 \in DOMAIN Append(s, l)
  BY <1>1
<1>3. \A k \in DOMAIN Append(s, l) : k \in DOMAIN s \/ k = Len(s) + 1
  BY <1>1
<1>4. \A k \in DOMAIN s : k \in DOMAIN Append(s, l)
  BY <1>1
<1> QED
  BY <1>1, <1>2, <1>3, <1>4

LEMMA LineIs ==
  ASSUME ChannelInv, NEW kind \in {"reply", "piece", "done", "notice"}, NEW of \in Nat,
         NEW ok \in BOOLEAN, NEW l, l = H!Line(kind, of, ok)
  PROVE  /\ l \in Lines /\ l.conn = link.sock /\ l.kind = kind /\ l.of = of /\ l.ok = ok
         /\ l.id = IF kind = "reply" /\ ~peer.old THEN of ELSE None
<1> DEFINE id_ == IF kind = "reply" /\ ~peer.old THEN of ELSE None
<1>1. id_ \in Nat \cup {None} /\ link.sock \in Nat
  BY DEF ChannelInv, ChannelTypes
<1>2. l = [conn |-> link.sock, kind |-> kind, of |-> of, ok |-> ok, id |-> id_]
  BY DEF H!Line
<1> HIDE DEF id_
<1>3. l \in Lines
  BY <1>1, <1>2 DEF Lines
<1>4. l.conn = link.sock /\ l.kind = kind /\ l.of = of /\ l.ok = ok /\ l.id = id_
  BY <1>2
<1> QED
  BY <1>3, <1>4 DEF id_

\* zded writes a line l and is left as pr: what there is to show of it.
LEMMA SentHolds ==
  ASSUME ChannelInv, H!Peers, link.up, NEW l \in Lines, l.conn = link.sock,
         lines' = Append(lines, l),
         peer' \in [old : BOOLEAN, todo : SUBSET Nat, asking : Nat, gone : BOOLEAN],
         peer'.todo \subseteq 0 .. sequence, peer'.asking \in 0 .. sequence,
         LineOK(l, link, peer', window, pending, sequence),
         \A i \in DOMAIN lines :
           lines[i].conn = link.sock =>
             LineOK(lines[i], link, peer', window, pending, sequence) /\ PairOK(lines[i], l),
         PeerOK(link, peer', window, pending),
         Promised(lines, link, peer, window.on) =>
           \/ Promised(lines, link, peer', window.on)
           \/ l.kind = "done" /\ l.of = window.on,
         l.kind = "reply" /\ l.ok /\ l.of = window.on /\ window.running =>
           Promised(lines, link, peer', window.on)
  PROVE  ChannelInv'
<1>1. UNCHANGED <<link, sequence, pending, acks, outcome, window>>
  BY DEF H!Peers
<1>2. /\ lines \in Seq(Lines) /\ link.sock \in Nat
      /\ LinesOK(lines, link, peer, window, pending, sequence)
      /\ WindowOK(lines, link, peer, window, pending)
  BY DEF ChannelInv, ChannelTypes
<1>3. /\ lines' \in Seq(Lines)
      /\ \A k \in DOMAIN lines : k \in DOMAIN lines' /\ lines'[k] = lines[k]
      /\ \A k \in DOMAIN lines' : (k \in DOMAIN lines /\ lines'[k] = lines[k]) \/ lines'[k] = l
      /\ \E k \in DOMAIN lines' : lines'[k] = l
  BY <1>2, AppendIs
<1>4. ChannelTypes'
  BY <1>1, <1>3 DEF ChannelInv, ChannelTypes, H!Cap
<1>5. LinkOK' /\ H!TokensGo' /\ H!OwnReplyOnce'
  BY <1>1 DEF ChannelInv, LinkOK, H!OwnReplyOnce, H!Ended, H!TokensGo, H!Cap, H!Connected
<1>6. LinesOK(lines', link, peer', window, pending, sequence)
  BY <1>2, SentLines
<1>7. WindowOK(lines', link, peer', window, pending)
  <2>1. Promised(lines, link, peer', window.on) => Promised(lines', link, peer', window.on)
    BY <1>3 DEF Promised
  <2>2. l.kind = "done" /\ l.of = window.on => Promised(lines', link, peer', window.on)
    BY <1>3 DEF Promised
  <2> QED
    BY <1>2, <1>3, <2>1, <2>2 DEF WindowOK
<1> QED
  BY <1>1, <1>4, <1>5, <1>6, <1>7 DEF ChannelInv

LEMMA RepliesHolds ==
  ASSUME ChannelInv, H!Replies  PROVE ChannelInv'
<1> DEFINE ask_(id) == id = window.on /\ id # 0
<1>1. PICK id \in peer.todo, ok \in BOOLEAN :
        /\ link.up /\ ~peer.gone /\ H!Peers /\ (ok \/ ask_(id))
        /\ ok /\ ask_(id) => peer.asking = 0
        /\ lines' = Append(lines, H!Line("reply", id, ok))
        /\ peer' = [peer EXCEPT !.todo = @ \ {id},
                                !.asking = IF ok /\ ask_(id) THEN id ELSE @]
  BY DEF H!Replies, H!Writing, H!Sends
<1> DEFINE l == H!Line("reply", id, ok)
           answers == ok /\ ask_(id)
<1>2. /\ sequence \in Nat /\ window.on \in 0 .. sequence
      /\ peer \in [old : BOOLEAN, todo : SUBSET Nat, asking : Nat, gone : BOOLEAN]
      /\ peer.todo \subseteq 0 .. sequence /\ peer.asking \in 0 .. sequence
      /\ lines \in Seq(Lines)
  BY DEF ChannelInv, ChannelTypes
<1>3. id \in 0 .. sequence /\ id \in Nat
  BY <1>2
<1>4. /\ l \in Lines /\ l.conn = link.sock /\ l.kind = "reply" /\ l.of = id /\ l.ok = ok
      /\ l.id = IF peer.old THEN None ELSE id
  <2>1. /\ l \in Lines /\ l.conn = link.sock /\ l.kind = "reply" /\ l.of = id /\ l.ok = ok
        /\ l.id = IF "reply" = "reply" /\ ~peer.old THEN id ELSE None
    BY <1>3, LineIs
  <2> QED
    BY <2>1
<1>5. /\ peer' \in [old : BOOLEAN, todo : SUBSET Nat, asking : Nat, gone : BOOLEAN]
      /\ peer'.todo = peer.todo \ {id} /\ peer'.old = peer.old /\ peer'.gone = peer.gone
      /\ peer'.asking = (IF answers THEN id ELSE peer.asking)
  <2> DEFINE a == IF answers THEN id ELSE peer.asking
  <2>1. a \in Nat /\ peer' = [peer EXCEPT !.todo = @ \ {id}, !.asking = a]
    BY <1>1, <1>2, <1>3
  <2> HIDE DEF a, answers
  <2> QED
    BY <1>2, <2>1 DEF a
<1>6. /\ answers => ask_(id) /\ ok /\ peer.asking = 0
      /\ ~ok => ask_(id) /\ ~answers
      /\ ok /\ ask_(id) => answers
      /\ ask_(id) <=> id = window.on /\ id # 0
  BY <1>1
<1>7. ~peer.gone /\ link.up /\ H!Peers /\ lines' = Append(lines, l)
  BY <1>1, Zenon
<1> HIDE DEF l, answers, ask_
<1>8. /\ LinesOK(lines, link, peer, window, pending, sequence)
      /\ PeerOK(link, peer, window, pending)
  BY <1>7 DEF ChannelInv
<1>9. LineOK(l, link, peer', window, pending, sequence)
  <2>1. link.ready <=> id # 0
    BY <1>8 DEF PeerOK
  <2>2. link.ready /\ link.legacy => id \in pending
    BY <1>7, <1>8 DEF PeerOK
  <2>3. ok \/ id # peer'.asking
    BY <1>5, <1>6, <1>7, <1>8 DEF PeerOK
  <2> QED
    BY <1>2, <1>3, <1>4, <1>5, <2>1, <2>2, <2>3 DEF LineOK
<1>10. ASSUME NEW i \in DOMAIN lines, lines[i].conn = link.sock
       PROVE  LineOK(lines[i], link, peer', window, pending, sequence) /\ PairOK(lines[i], l)
  <2>1. LineOK(lines[i], link, peer, window, pending, sequence) /\ lines[i] \in Lines
    BY <1>2, <1>8, <1>10 DEF LinesOK
  <2>2. lines[i].kind \in {"reply", "piece", "done"} => lines[i].of # id
    BY <2>1 DEF LineOK
  <2>3. lines[i].kind \in {"piece", "done"} => ~answers
    BY <1>6, <2>1, <2>2 DEF LineOK
  <2>4. lines[i].kind # "notice"
    BY <1>7, <2>1 DEF LineOK
  <2>5. PairOK(lines[i], l)
    BY <1>4, <2>2, <2>4 DEF PairOK
  <2>6. LineOK(lines[i], link, peer', window, pending, sequence)
    BY <1>5, <2>1, <2>2, <2>3, <2>4 DEF LineOK
  <2> QED
    BY <2>5, <2>6
<1>11. PeerOK(link, peer', window, pending)
  <2>1. answers => link.ready /\ window.running /\ window.on = id
    BY <1>6, <1>7, <1>8 DEF PeerOK
  <2> QED
    BY <1>5, <1>7, <1>8, <2>1 DEF PeerOK
<1>12. Promised(lines, link, peer, window.on) => Promised(lines, link, peer', window.on)
  BY <1>5, <1>6 DEF Promised
<1>13. l.kind = "reply" /\ l.ok /\ l.of = window.on /\ window.running =>
         Promised(lines, link, peer', window.on)
  <2>1. window.running => window.on # 0
    BY DEF ChannelInv, WindowOK
  <2> QED
    BY <1>4, <1>5, <1>6, <2>1 DEF Promised
<1>14. peer'.todo \subseteq 0 .. sequence /\ peer'.asking \in 0 .. sequence
  BY <1>2, <1>3, <1>5
<1> QED
  BY <1>4, <1>5, <1>7, <1>9, <1>10, <1>11, <1>12, <1>13, <1>14, SentHolds

LEMMA SpeaksHolds ==
  ASSUME ChannelInv, H!Speaks  PROVE ChannelInv'
<1> DEFINE yes_ == TRUE
           l == H!Line("piece", peer.asking, yes_)
<1>1. /\ link.up /\ ~peer.gone /\ H!Peers /\ peer.asking # 0 /\ lines' = Append(lines, l)
      /\ peer' = peer /\ yes_ \in BOOLEAN
  BY DEF H!Speaks, H!Writing, H!Sends
<1> HIDE DEF yes_
<1>2. /\ peer \in [old : BOOLEAN, todo : SUBSET Nat, asking : Nat, gone : BOOLEAN]
      /\ peer.todo \subseteq 0 .. sequence /\ peer.asking \in 0 .. sequence
      /\ lines \in Seq(Lines)
  BY DEF ChannelInv, ChannelTypes
<1>3. peer.asking \in Nat
  BY <1>2
<1>4. /\ l \in Lines /\ l.conn = link.sock /\ l.kind = "piece" /\ l.of = peer.asking
      /\ l.id = None
  <2>1. /\ l \in Lines /\ l.conn = link.sock /\ l.kind = "piece" /\ l.of = peer.asking
        /\ l.id = IF "piece" = "reply" /\ ~peer.old THEN peer.asking ELSE None
    BY <1>1, <1>3, LineIs
  <2> QED
    BY <2>1
<1> HIDE DEF l
<1>5. /\ LinesOK(lines, link, peer, window, pending, sequence)
      /\ PeerOK(link, peer, window, pending)
  BY <1>1 DEF ChannelInv
<1>6. link.ready /\ window.running /\ window.on = peer.asking /\ peer.asking \notin peer.todo
  BY <1>1, <1>5 DEF PeerOK
<1>7. LineOK(l, link, peer, window, pending, sequence)
  BY <1>4, <1>6 DEF LineOK
<1>8. ASSUME NEW i \in DOMAIN lines, lines[i].conn = link.sock
      PROVE  LineOK(lines[i], link, peer, window, pending, sequence) /\ PairOK(lines[i], l)
  <2>1. LineOK(lines[i], link, peer, window, pending, sequence)
    BY <1>5, <1>8 DEF LinesOK
  <2> QED
    BY <1>1, <1>4, <2>1 DEF LineOK, PairOK
<1>9. l.kind # "reply"
  BY <1>4
<1> QED
  BY <1>1, <1>2, <1>4, <1>5, <1>7, <1>8, <1>9, SentHolds

LEMMA FinishesHolds ==
  ASSUME ChannelInv, H!Finishes  PROVE ChannelInv'
<1> DEFINE yes_ == TRUE
           l == H!Line("done", peer.asking, yes_)
<1>1. /\ link.up /\ ~peer.gone /\ H!Peers /\ peer.asking # 0 /\ lines' = Append(lines, l)
      /\ peer' = [peer EXCEPT !.asking = 0] /\ yes_ \in BOOLEAN
  BY DEF H!Finishes, H!Writing, H!Sends
<1> HIDE DEF yes_
<1>2. /\ peer \in [old : BOOLEAN, todo : SUBSET Nat, asking : Nat, gone : BOOLEAN]
      /\ peer.todo \subseteq 0 .. sequence /\ peer.asking \in 0 .. sequence
      /\ lines \in Seq(Lines) /\ sequence \in Nat
  BY DEF ChannelInv, ChannelTypes
<1>3. peer.asking \in Nat
  BY <1>2
<1>4. /\ l \in Lines /\ l.conn = link.sock /\ l.kind = "done" /\ l.of = peer.asking
      /\ l.id = None
  <2>1. /\ l \in Lines /\ l.conn = link.sock /\ l.kind = "done" /\ l.of = peer.asking
        /\ l.id = IF "done" = "reply" /\ ~peer.old THEN peer.asking ELSE None
    BY <1>1, <1>3, LineIs
  <2> QED
    BY <2>1
<1> HIDE DEF l
<1>5. /\ peer' \in [old : BOOLEAN, todo : SUBSET Nat, asking : Nat, gone : BOOLEAN]
      /\ peer'.todo = peer.todo /\ peer'.old = peer.old /\ peer'.gone = peer.gone
      /\ peer'.asking = 0 /\ 0 \in 0 .. sequence
  BY <1>1, <1>2
<1>6. /\ LinesOK(lines, link, peer, window, pending, sequence)
      /\ PeerOK(link, peer, window, pending)
  BY <1>1 DEF ChannelInv
<1>7. link.ready /\ window.running /\ window.on = peer.asking /\ peer.asking \notin peer.todo
  BY <1>1, <1>6 DEF PeerOK
<1>8. LineOK(l, link, peer', window, pending, sequence)
  BY <1>4, <1>5, <1>7 DEF LineOK
<1>9. ASSUME NEW i \in DOMAIN lines, lines[i].conn = link.sock
      PROVE  LineOK(lines[i], link, peer', window, pending, sequence) /\ PairOK(lines[i], l)
  <2>1. LineOK(lines[i], link, peer, window, pending, sequence)
    BY <1>6, <1>9 DEF LinesOK
  <2>2. lines[i].kind = "reply" => lines[i].ok \/ lines[i].of # 0
    <3>1. lines[i].kind = "reply" => lines[i].of # 0
      BY <1>7, <2>1 DEF LineOK
    <3> QED
      BY <3>1
  <2>3. PairOK(lines[i], l)
    BY <1>1, <1>4, <2>1 DEF LineOK, PairOK
  <2>4. LineOK(lines[i], link, peer', window, pending, sequence)
    BY <1>5, <2>1, <2>2 DEF LineOK
  <2> QED
    BY <2>3, <2>4
<1>10. PeerOK(link, peer', window, pending)
  BY <1>5, <1>6 DEF PeerOK
<1>11. Promised(lines, link, peer, window.on) => l.kind = "done" /\ l.of = window.on
  BY <1>4, <1>7
<1>12. l.kind # "reply"
  BY <1>4
<1> QED
  BY <1>1, <1>2, <1>4, <1>5, <1>8, <1>9, <1>10, <1>11, <1>12, SentHolds

LEMMA EvictsHolds ==
  ASSUME ChannelInv, H!Evicts  PROVE ChannelInv'
<1> DEFINE yes_ == TRUE
           no == FALSE
           of_ == 0
           l == H!Line("notice", of_, no)
<1>1. /\ link.up /\ ~peer.gone /\ H!Peers /\ lines' = Append(lines, l)
      /\ peer' = [peer EXCEPT !.gone = yes_] /\ yes_ \in BOOLEAN /\ yes_
      /\ no \in BOOLEAN /\ ~no /\ of_ \in Nat
  BY DEF H!Evicts, H!Writing, H!Sends
<1> HIDE DEF yes_, no, of_
<1>2. /\ peer \in [old : BOOLEAN, todo : SUBSET Nat, asking : Nat, gone : BOOLEAN]
      /\ peer.todo \subseteq 0 .. sequence /\ peer.asking \in 0 .. sequence
      /\ lines \in Seq(Lines) /\ sequence \in Nat
  BY DEF ChannelInv, ChannelTypes
<1>3. /\ l \in Lines /\ l.conn = link.sock /\ l.kind = "notice" /\ l.id = None /\ l.ok = no
  <2>1. /\ l \in Lines /\ l.conn = link.sock /\ l.kind = "notice" /\ l.ok = no
        /\ l.id = IF "notice" = "reply" /\ ~peer.old THEN of_ ELSE None
    BY <1>1, LineIs
  <2> QED
    BY <2>1
<1> HIDE DEF l
<1>4. /\ peer' \in [old : BOOLEAN, todo : SUBSET Nat, asking : Nat, gone : BOOLEAN]
      /\ peer'.todo = peer.todo /\ peer'.old = peer.old /\ peer'.gone = yes_
      /\ peer'.asking = peer.asking
  BY <1>1, <1>2
<1>5. /\ LinesOK(lines, link, peer, window, pending, sequence)
      /\ PeerOK(link, peer, window, pending)
  BY <1>1 DEF ChannelInv
<1>6. LineOK(l, link, peer', window, pending, sequence)
  BY <1>1, <1>3, <1>4 DEF LineOK
<1>7. ASSUME NEW i \in DOMAIN lines, lines[i].conn = link.sock
      PROVE  LineOK(lines[i], link, peer', window, pending, sequence) /\ PairOK(lines[i], l)
  <2>1. LineOK(lines[i], link, peer, window, pending, sequence)
    BY <1>5, <1>7 DEF LinesOK
  <2>2. PairOK(lines[i], l)
    BY <1>1, <1>3, <2>1 DEF LineOK, PairOK
  <2>3. LineOK(lines[i], link, peer', window, pending, sequence)
    BY <1>1, <1>4, <2>1 DEF LineOK
  <2> QED
    BY <2>2, <2>3
<1>8. PeerOK(link, peer', window, pending)
  BY <1>1, <1>4, <1>5 DEF PeerOK
<1>9. Promised(lines, link, peer', window.on)
  BY <1>1, <1>4 DEF Promised
<1>10. l.kind # "reply"
  BY <1>3
<1> QED
  BY <1>1, <1>2, <1>3, <1>4, <1>6, <1>7, <1>8, <1>9, <1>10, SentHolds

-----------------------------------------------------------------------------
LEMMA ClosedIs ==
  ASSUME ChannelInv
  PROVE  /\ H!Closed \in [on : Nat, running : BOOLEAN, awaiting : BOOLEAN, live : SUBSET Nat]
         /\ H!Closed.on = window.on /\ H!Closed.live = {} /\ ~H!Closed.running
         /\ ~H!Closed.awaiting
<1>1. window \in [on : Nat, running : BOOLEAN, awaiting : BOOLEAN, live : SUBSET Nat]
  BY DEF ChannelInv, ChannelTypes
<1> DEFINE no == FALSE
<1>2. no \in BOOLEAN /\ ~no
      /\ H!Closed = [window EXCEPT !.running = no, !.awaiting = no, !.live = {}]
  BY DEF H!Closed
<1> HIDE DEF no
<1> QED
  BY <1>1, <1>2

\* Some calls end, tokens take their places, and the window closes with the
\* question that ended, or still waits for what is coming.
LEMMA EndedHolds ==
  ASSUME ChannelInv, link.up, link.ready, link' = link, NEW late, late \subseteq pending,
         NEW ends, late = {e[1] : e \in ends}, \A e \in ends : e[2] \in {0, e[1]},
         H!Ends(ends), H!Flush(pending \ late, acks),
         lines' \in Seq(Lines), LinesOK(lines', link, peer, window, pending, sequence),
         link.legacy =>
           /\ ~peer.gone => peer.todo \subseteq pending \ late
           /\ \A i \in DOMAIN lines' :
                lines'[i].conn = link.sock /\ lines'[i].kind = "reply" =>
                  lines'[i].of \in pending \ late,
         \/ /\ window' = window
            /\ window.running =>
                 \/ Promised(lines', link, peer, window.on)
                 \/ /\ window.on \in pending \ late
                    /\ \A i \in DOMAIN lines' :
                         lines'[i].conn = link.sock /\ lines'[i].kind = "reply"
                           /\ lines'[i].of = window.on => ~lines'[i].ok
         \/ /\ window' = H!Closed
            /\ \A i \in DOMAIN lines' :
                 lines'[i].conn = link.sock => lines'[i].kind \notin {"piece", "done"}
            /\ ~peer.gone => peer.asking = 0 /\ window.on \notin peer.todo
  PROVE  ChannelInv'
<1> DEFINE rest == pending \ late
<1>1. /\ sequence \in Nat /\ pending \subseteq 1 .. sequence /\ Cardinality(pending) <= H!Cap
      /\ acks \in 0 .. PendingMax /\ PendingMax \in Nat /\ H!Cap \in Nat
      /\ peer \in [old : BOOLEAN, todo : SUBSET Nat, asking : Nat, gone : BOOLEAN]
      /\ window \in [on : Nat, running : BOOLEAN, awaiting : BOOLEAN, live : SUBSET Nat]
      /\ window.on \in 0 .. sequence /\ window.live \subseteq {window.on}
      /\ window.awaiting => window.running
  BY DialsAssumption DEF ChannelInv, ChannelTypes, H!Cap
<1>2. rest \subseteq pending /\ H!Flush(rest, acks)
  BY Zenon
<1>3. PICK n \in Nat :
        /\ H!Writes(n, rest) /\ acks' \in 0 .. PendingMax
        /\ Cardinality(rest) + n <= H!Cap
        /\ acks' > 0 => Cardinality(rest) + n = H!Cap
  <2> HIDE DEF rest
  <2> QED
    BY <1>1, <1>2, FlushesAll
<1>4. acks' > 0 => Cardinality(rest) + n >= H!Cap
  BY <1>1, <1>3
<1>5. /\ window' \in [on : Nat, running : BOOLEAN, awaiting : BOOLEAN, live : SUBSET Nat]
      /\ window'.on = window.on /\ window'.live \subseteq {window'.on}
      /\ window'.awaiting => window'.running
      /\ window' = window \/ ~window'.running
  BY <1>1, ClosedIs
<1>6. window'.on \in 0 .. sequence + n /\ sequence + n \in Nat /\ sequence <= sequence + n
  BY <1>1, <1>5
<1>7. /\ ChannelTypes' /\ LinkOK' /\ H!TokensGo' /\ sequence' = sequence + n
      /\ pending' = rest \cup (sequence + 1 .. sequence')
      /\ peer' = [peer EXCEPT !.todo = @ \cup (sequence + 1 .. sequence')]
  <2> HIDE DEF rest
  <2> QED
    BY <1>2, <1>3, <1>4, <1>5, <1>6, AskedHolds
<1>8. /\ LinesOK(lines', link, peer', window, pending', sequence + n)
      /\ PeerOK(link, peer', window, pending')
  <2> HIDE DEF rest
  <2>1. link.legacy =>
          /\ ~peer.gone => peer.todo \subseteq rest
          /\ \A i \in DOMAIN lines' :
               lines'[i].conn = link.sock /\ lines'[i].kind = "reply" => lines'[i].of \in rest
    BY DEF rest
  <2> QED
    BY <1>2, <1>7, <2>1, AskedStands
<1>9. /\ peer'.asking = peer.asking /\ peer'.gone = peer.gone
      /\ peer'.todo = peer.todo \cup (sequence + 1 .. sequence')
      /\ window.on \notin sequence + 1 .. sequence'
  BY <1>1, <1>7
<1>10. H!OwnReplyOnce'
  <2>1. /\ outcome'.results = outcome.results \cup ends
        /\ outcome'.again = outcome.again \cup (H!Ended \cap late)
    BY DEF H!Ends
  <2>2. H!OwnReplyOnce /\ pending' = (pending \ late) \cup (sequence + 1 .. sequence')
    BY <1>7 DEF ChannelInv
  <2>3. sequence' \in Nat /\ sequence <= sequence'
    BY <1>6, <1>7
  <2> QED
    BY <1>1, <2>1, <2>2, <2>3, EndsOnce
<1>11. CASE /\ window' = window
            /\ window.running =>
                 \/ Promised(lines', link, peer, window.on)
                 \/ /\ window.on \in pending \ late
                    /\ \A i \in DOMAIN lines' :
                         lines'[i].conn = link.sock /\ lines'[i].kind = "reply"
                           /\ lines'[i].of = window.on => ~lines'[i].ok
  <2>1. WindowOK(lines, link, peer, window, pending)
    BY DEF ChannelInv
  <2>2. WindowOK(lines', link, peer', window, pending')
    BY <1>7, <1>9, <1>11, <2>1 DEF WindowOK, Promised
  <2> QED
    BY <1>7, <1>8, <1>10, <1>11, <2>2 DEF ChannelInv
<1>12. CASE /\ window' = H!Closed
            /\ \A i \in DOMAIN lines' :
                 lines'[i].conn = link.sock => lines'[i].kind \notin {"piece", "done"}
            /\ ~peer.gone => peer.asking = 0 /\ window.on \notin peer.todo
  <2>1. ~window'.running
    BY <1>12, ClosedIs
  <2>2. LinesOK(lines', link, peer', window', pending', sequence + n)
    BY <1>8, <1>12 DEF LinesOK, LineOK
  <2>3. PeerOK(link, peer', window', pending')
    BY <1>5, <1>8, <1>9, <1>12 DEF PeerOK
  <2>4. WindowOK(lines', link, peer', window', pending')
    BY <2>1 DEF WindowOK
  <2> QED
    BY <1>7, <1>10, <2>2, <2>3, <2>4 DEF ChannelInv
<1> QED
  BY <1>11, <1>12

LEMMA RunsOutHolds ==
  ASSUME ChannelInv, H!RunsOut  PROVE ChannelInv'
<1> DEFINE late(last) == {id \in pending : id <= last}
<1>1. PICK last \in pending :
        /\ link.up /\ link.ready /\ lines' = lines
        /\ IF H!Retires(late(last))
           THEN H!Restart
           ELSE /\ H!Ends({<<id, 0>> : id \in late(last)})
                /\ H!Flush(pending \ late(last), acks)
                /\ link' = link /\ window' = window
  BY DEF H!RunsOut, H!Connected
<1>2. /\ lines \in Seq(Lines) /\ LinesOK(lines, link, peer, window, pending, sequence)
      /\ WindowOK(lines, link, peer, window, pending)
  BY DEF ChannelInv, ChannelTypes
<1>3. CASE H!Retires(late(last))
  BY <1>1, <1>2, <1>3, RestartHolds DEF LinesOK
<1>4. CASE ~H!Retires(late(last))
  <2> DEFINE gone_ == late(last)
             ends == {<<id, 0>> : id \in gone_}
  <2>1. gone_ \subseteq pending /\ ~link.legacy /\ window.on \notin gone_
    BY <1>4 DEF H!Retires
  <2>2. /\ H!Ends(ends) /\ H!Flush(pending \ gone_, acks) /\ link' = link /\ window' = window
    BY <1>1, <1>4
  <2> HIDE DEF gone_
  <2>3. gone_ = {e[1] : e \in ends} /\ \A e \in ends : e[2] \in {0, e[1]}
    BY Errors
  <2> HIDE DEF ends
  <2>4. window.running =>
          \/ Promised(lines', link, peer, window.on)
          \/ /\ window.on \in pending \ gone_
             /\ \A i \in DOMAIN lines' :
                  lines'[i].conn = link.sock /\ lines'[i].kind = "reply"
                    /\ lines'[i].of = window.on => ~lines'[i].ok
    BY <1>1, <1>2, <2>1 DEF WindowOK
  <2> QED
    BY <1>1, <1>2, <2>1, <2>2, <2>3, <2>4, EndedHolds
<1> QED
  BY <1>3, <1>4

-----------------------------------------------------------------------------
\* The first line l of its socket is taken, the i-th of those on their way.
Taken(i, l) ==
  /\ i \in DOMAIN lines /\ l = lines[i] /\ lines' = H!RemoveAt(lines, i)
  /\ \A j \in 1 .. i - 1 : lines[j].conn # lines[i].conn

LEMMA TakenIs ==
  ASSUME ChannelInv, NEW i, NEW l, Taken(i, l)
  PROVE  /\ l \in Lines /\ l.conn <= link.sock /\ lines' \in Seq(Lines)
         /\ LinesOK(lines', link, peer, window, pending, sequence)
         /\ l.conn = link.sock =>
              link.up /\ LineOK(l, link, peer, window, pending, sequence)
         /\ \A k \in DOMAIN lines' :
              /\ lines'[k] \in Lines /\ lines'[k].conn <= link.sock
              /\ \E m \in DOMAIN lines : lines'[k] = lines[m]
              /\ l.conn = link.sock /\ lines'[k].conn = link.sock => PairOK(l, lines'[k])
         /\ \A m \in DOMAIN lines : lines[m] = l \/ \E k \in DOMAIN lines' : lines'[k] = lines[m]
<1> DEFINE was(k) == IF k < i THEN k ELSE k + 1
           now_(m) == IF m < i THEN m ELSE m - 1
<1>1. /\ lines \in Seq(Lines) /\ LinesOK(lines, link, peer, window, pending, sequence)
      /\ LinkOK
  BY DEF ChannelInv, ChannelTypes
<1>2. /\ i \in DOMAIN lines /\ l = lines[i] /\ lines' = H!RemoveAt(lines, i)
      /\ \A j \in 1 .. i - 1 : lines[j].conn # l.conn
  BY DEF Taken
<1>3. /\ lines' \in Seq(Lines) /\ DOMAIN lines' = 1 .. Len(lines) - 1
      /\ \A k \in 1 .. Len(lines) - 1 : lines'[k] = lines[was(k)]
  BY <1>1, <1>2, RemoveAtIs
<1>4. DOMAIN lines = 1 .. Len(lines) /\ Len(lines) \in Nat /\ i \in 1 .. Len(lines)
  BY <1>1, <1>2
<1>5. /\ \A k \in DOMAIN lines' :
           was(k) \in DOMAIN lines /\ (was(k) \in 1 .. i - 1 \/ i < was(k))
      /\ \A m \in DOMAIN lines : m = i \/ (now_(m) \in DOMAIN lines' /\ was(now_(m)) = m)
  BY <1>3, <1>4
<1> HIDE DEF was, now_
<1>6. LinesOK(lines', link, peer, window, pending, sequence)
  BY <1>1, <1>2, HeardLines
<1>7. ASSUME NEW k \in DOMAIN lines'
      PROVE  /\ lines'[k] \in Lines /\ lines'[k].conn <= link.sock
             /\ \E m \in DOMAIN lines : lines'[k] = lines[m]
             /\ l.conn = link.sock /\ lines'[k].conn = link.sock => PairOK(l, lines'[k])
  <2>1. lines'[k] = lines[was(k)] /\ was(k) \in DOMAIN lines /\ lines'[k] \in Lines
    BY <1>3, <1>5
  <2>2. l.conn = lines'[k].conn => i < was(k)
    BY <1>2, <1>5, <2>1
  <2> QED
    BY <1>1, <1>2, <2>1, <2>2 DEF LinesOK
<1>8. \A m \in DOMAIN lines : lines[m] = l \/ \E k \in DOMAIN lines' : lines'[k] = lines[m]
  BY <1>2, <1>3, <1>5
<1>9. /\ l \in Lines /\ l.conn <= link.sock
      /\ l.conn = link.sock => link.up /\ LineOK(l, link, peer, window, pending, sequence)
  BY <1>1, <1>2 DEF LinesOK, LinkOK
<1> QED
  BY <1>3, <1>6, <1>7, <1>8, <1>9

\* A line that is not the end of an answer breaks no promise.
LEMMA StillPromised ==
  ASSUME ChannelInv, NEW i, NEW l, Taken(i, l), l.conn # link.sock \/ l.kind # "done",
         window.running
  PROVE  /\ link.ready /\ window.on # 0
         /\ \/ Promised(lines', link, peer, window.on)
            \/ /\ window.on \in pending
               /\ \A k \in DOMAIN lines' :
                    lines'[k].conn = link.sock /\ lines'[k].kind = "reply"
                      /\ lines'[k].of = window.on => ~lines'[k].ok
               /\ l.conn = link.sock /\ l.kind = "reply" /\ l.of = window.on => ~l.ok
<1>1. WindowOK(lines, link, peer, window, pending)
  BY DEF ChannelInv
<1>2. /\ \A k \in DOMAIN lines' : \E m \in DOMAIN lines : lines'[k] = lines[m]
      /\ \A m \in DOMAIN lines : lines[m] = l \/ \E k \in DOMAIN lines' : lines'[k] = lines[m]
      /\ i \in DOMAIN lines /\ lines[i] = l
  BY TakenIs DEF Taken
<1>3. Promised(lines, link, peer, window.on) => Promised(lines', link, peer, window.on)
  BY <1>2 DEF Promised
<1> QED
  BY <1>1, <1>2, <1>3 DEF WindowOK

\* nothing but the window may change with the line
LEMMA TakenHolds ==
  ASSUME ChannelInv, NEW i, NEW l, Taken(i, l),
         UNCHANGED <<link, sequence, pending, acks, outcome, peer>>,
         window' \in [on : Nat, running : BOOLEAN, awaiting : BOOLEAN, live : SUBSET Nat],
         window'.on = window.on, window'.live \subseteq {window.on},
         window'.awaiting => window'.running,
         LinesOK(lines', link, peer, window', pending, sequence),
         PeerOK(link, peer, window', pending) \/ ~link.up,
         WindowOK(lines', link, peer, window', pending)
  PROVE  ChannelInv'
<1>1. ChannelTypes'
  BY TakenIs DEF ChannelInv, ChannelTypes, H!Cap
<1>2. H!TokensGo' /\ H!OwnReplyOnce'
  BY DEF ChannelInv, H!OwnReplyOnce, H!Ended, H!TokensGo, H!Cap, H!Connected
<1>3. LinkOK'
  <2>1. \A k \in DOMAIN lines' : \E m \in DOMAIN lines : lines'[k] = lines[m]
    BY TakenIs
  <2> QED
    BY <2>1 DEF ChannelInv, LinkOK
<1> QED
  BY <1>1, <1>2, <1>3 DEF ChannelInv

LEMMA SameWindowTaken ==
  ASSUME ChannelInv, NEW i, NEW l, Taken(i, l), l.conn # link.sock \/ l.kind # "done",
         UNCHANGED <<link, sequence, pending, acks, outcome, peer>>,
         window' \in [on : Nat, running : BOOLEAN, awaiting : BOOLEAN, live : SUBSET Nat],
         window'.on = window.on, window'.running = window.running,
         window'.live \subseteq {window.on}, window'.awaiting => window.awaiting
  PROVE  ChannelInv'
<1>1. LinesOK(lines', link, peer, window', pending, sequence)
  <2>1. LinesOK(lines', link, peer, window, pending, sequence)
    BY TakenIs
  <2> QED
    BY <2>1, OtherWindow
<1>2. PeerOK(link, peer, window', pending) \/ ~link.up
  BY DEF ChannelInv, PeerOK
<1>3. WindowOK(lines', link, peer, window', pending)
  BY StillPromised DEF WindowOK
<1>4. window'.awaiting => window'.running
  BY DEF ChannelInv, ChannelTypes
<1> QED
  BY <1>1, <1>2, <1>3, <1>4, TakenHolds

LEMMA IgnoredHolds ==
  ASSUME ChannelInv, NEW i, NEW l, Taken(i, l), H!Ignored(l)  PROVE ChannelInv'
<1>1. l.conn # link.sock
      /\ UNCHANGED <<link, sequence, pending, acks, outcome, peer, window>>
  BY DEF H!Ignored, H!Hears
<1>2. /\ window \in [on : Nat, running : BOOLEAN, awaiting : BOOLEAN, live : SUBSET Nat]
      /\ window.live \subseteq {window.on}
  BY DEF ChannelInv, ChannelTypes
<1> QED
  BY <1>1, <1>2, SameWindowTaken

LEMMA ReceivedHolds ==
  ASSUME ChannelInv, NEW i, NEW l, Taken(i, l), H!Received(l)  PROVE ChannelInv'
<1>1. /\ l.conn = link.sock /\ l.kind \in {"piece", "done"}
      /\ window' = IF l.kind = "done" THEN H!Closed
                   ELSE IF window.awaiting THEN [window EXCEPT !.live = @ \cup {l.of}]
                   ELSE window
      /\ UNCHANGED <<link, sequence, pending, acks, outcome, peer>>
  BY DEF H!Received, H!Hears
<1>2. /\ window \in [on : Nat, running : BOOLEAN, awaiting : BOOLEAN, live : SUBSET Nat]
      /\ window.live \subseteq {window.on}
  BY DEF ChannelInv, ChannelTypes
<1>3. /\ link.up /\ link.ready /\ window.running /\ l.of = window.on /\ l.of \notin peer.todo
      /\ l.kind = "done" => peer.gone \/ peer.asking = 0
  BY <1>1, TakenIs DEF LineOK
<1>4. CASE l.kind = "done"
  <2>1. window' = H!Closed
    BY <1>1, <1>4
  <2>2. /\ window' \in [on : Nat, running : BOOLEAN, awaiting : BOOLEAN, live : SUBSET Nat]
        /\ window'.on = window.on /\ window'.live \subseteq {window.on}
        /\ ~window'.running /\ ~window'.awaiting
    BY <2>1, ClosedIs
  <2>3. \A k \in DOMAIN lines' :
          lines'[k].conn = link.sock => lines'[k].kind \notin {"piece", "done"}
    BY <1>1, <1>4, TakenIs DEF PairOK
  <2>4. LinesOK(lines', link, peer, window', pending, sequence)
    <3>1. LinesOK(lines', link, peer, window, pending, sequence)
      BY TakenIs
    <3> QED
      BY <2>3, <3>1 DEF LinesOK, LineOK
  <2>5. PeerOK(link, peer, window', pending)
    <3>1. PeerOK(link, peer, window, pending)
      BY <1>3 DEF ChannelInv
    <3> QED
      BY <1>3, <1>4, <2>2, <3>1 DEF PeerOK
  <2>6. WindowOK(lines', link, peer, window', pending)
    BY <2>2 DEF WindowOK
  <2> QED
    BY <1>1, <2>2, <2>4, <2>5, <2>6, TakenHolds
<1>5. CASE l.kind = "piece" /\ window.awaiting
  <2>1. window' = [window EXCEPT !.live = @ \cup {l.of}]
    BY <1>1, <1>5
  <2>2. window.live \cup {l.of} \in SUBSET Nat /\ window.live \cup {l.of} \subseteq {window.on}
    BY <1>2, <1>3
  <2>3. /\ window' \in [on : Nat, running : BOOLEAN, awaiting : BOOLEAN, live : SUBSET Nat]
        /\ window'.on = window.on /\ window'.running = window.running
        /\ window'.live = window.live \cup {l.of} /\ window'.awaiting = window.awaiting
    BY <1>2, <2>1, <2>2
  <2> QED
    BY <1>1, <1>5, <2>2, <2>3, SameWindowTaken
<1>6. CASE l.kind = "piece" /\ ~window.awaiting
  <2>1. window' = window
    BY <1>1, <1>6
  <2> QED
    BY <1>1, <1>2, <1>6, <2>1, SameWindowTaken
<1> QED
  BY <1>1, <1>4, <1>5, <1>6

\* The answer to the probe: this daemon's age is known, and calls may begin.
LEMMA ProbedHolds ==
  ASSUME ChannelInv, NEW i, NEW l, Taken(i, l), H!Probed(l)  PROVE ChannelInv'
<1>1. /\ l.conn = link.sock /\ l.kind \in {"reply", "notice"} /\ ~link.ready
      /\ IF ~l.ok \/ l.id \notin {0, None}
         THEN H!Restart
         ELSE /\ link' = [link EXCEPT !.legacy = l.id = None, !.ready = TRUE]
              /\ UNCHANGED <<sequence, pending, acks, outcome, peer, window>>
  BY DEF H!Probed, H!Hears
<1>2. /\ lines' \in Seq(Lines) /\ LinesOK(lines', link, peer, window, pending, sequence)
      /\ link.up /\ LineOK(l, link, peer, window, pending, sequence) /\ l \in Lines
      /\ \A k \in DOMAIN lines' :
           /\ lines'[k].conn <= link.sock
           /\ lines'[k].conn = link.sock => PairOK(l, lines'[k])
  BY <1>1, TakenIs
<1>3. CASE ~l.ok \/ l.id \notin {0, None}
  BY <1>1, <1>2, <1>3, RestartHolds
<1>4. CASE l.ok /\ l.id \in {0, None}
  <2> DEFINE old_ == l.id = None
             yes_ == TRUE
  <2>1. link' = [link EXCEPT !.legacy = old_, !.ready = yes_]
        /\ UNCHANGED <<sequence, pending, acks, outcome, peer, window>>
    BY <1>1, <1>4
  <2>2. old_ \in BOOLEAN /\ yes_ \in BOOLEAN /\ yes_ = TRUE
    OBVIOUS
  <2>3. l.kind = "reply" /\ l.of = 0 /\ 0 \notin peer.todo /\ old_ = peer.old
    <3>1. l.kind = "reply" /\ l.of = 0 /\ 0 \notin peer.todo
      BY <1>1, <1>2, <1>4 DEF LineOK
    <3>2. l.id = IF peer.old THEN None ELSE 0
      BY <1>2, <3>1 DEF LineOK
    <3>3. peer.old \in BOOLEAN
      BY DEF ChannelInv, ChannelTypes
    <3> QED
      BY <3>1, <3>2, <3>3, NobodyAssumption
  <2> HIDE DEF old_, yes_
  <2>4. link \in [sock : Nat, up : BOOLEAN, ready : BOOLEAN, legacy : BOOLEAN]
    BY DEF ChannelInv, ChannelTypes
  <2>5. /\ link' \in [sock : Nat, up : BOOLEAN, ready : BOOLEAN, legacy : BOOLEAN]
        /\ link'.sock = link.sock /\ link'.up = link.up /\ link'.ready /\ link'.legacy = old_
    BY <2>1, <2>2, <2>4
  <2>6. pending = {} /\ acks = 0
    BY <1>1 DEF ChannelInv, LinkOK
  <2>7. ChannelTypes'
    <3>1. Cardinality({}) = 0 /\ H!Cap' \in Nat
      BY FS_EmptySet, DialsAssumption DEF H!Cap
    <3>2. Cardinality(pending)' <= H!Cap'
      BY <2>1, <2>6, <3>1
    <3> QED
      BY <1>2, <2>1, <2>5, <3>2 DEF ChannelInv, ChannelTypes
  <2>8. LinkOK' /\ H!TokensGo' /\ H!OwnReplyOnce'
    BY <1>2, <2>1, <2>5, <2>6 DEF ChannelInv, LinkOK, H!TokensGo, H!OwnReplyOnce, H!Ended
  <2>9. LinesOK(lines', link', peer, window, pending, sequence)
    <3>1. ASSUME NEW k \in DOMAIN lines', lines'[k].conn = link.sock
          PROVE  LineOK(lines'[k], link', peer, window, pending, sequence)
      <4>1. /\ LineOK(lines'[k], link, peer, window, pending, sequence)
            /\ PairOK(l, lines'[k])
        BY <1>2, <3>1 DEF LinesOK
      <4>2. lines'[k].kind # "reply"
        BY <1>1, <2>3, <4>1 DEF LineOK, PairOK
      <4> QED
        BY <1>1, <4>1, <4>2 DEF LineOK
    <3> QED
      BY <1>2, <2>5, <3>1 DEF LinesOK
  <2>10. PeerOK(link', peer, window, pending)
    <3>1. PeerOK(link, peer, window, pending)
      BY <1>2 DEF ChannelInv
    <3>2. peer.todo = {} /\ peer.asking = 0
      BY <1>1, <2>3, <3>1 DEF PeerOK
    <3> QED
      BY <2>3, <2>5, <3>2 DEF PeerOK
  <2>11. WindowOK(lines', link', peer, window, pending)
    BY <1>1 DEF ChannelInv, WindowOK
  <2> QED
    BY <2>1, <2>7, <2>8, <2>9, <2>10, <2>11 DEF ChannelInv
<1> QED
  BY <1>3, <1>4

\* An old daemon's reply is to the one call it was asked.
LEMMA OneWaited ==
  ASSUME ChannelInv, link.legacy, NEW id \in pending
  PROVE  pending = {id}
<1>1. sequence \in Nat /\ pending \subseteq 1 .. sequence /\ Cardinality(pending) <= 1
  BY DEF ChannelInv, ChannelTypes, H!Cap
<1>2. IsFiniteSet(pending) /\ Cardinality(pending) \in Nat
  BY <1>1, AsksMore
<1>3. {id} \in SUBSET pending /\ Cardinality({id}) = 1
  BY FS_Singleton
<1>4. Cardinality({id}) <= Cardinality(pending)
  BY <1>2, <1>3, FS_Subset
<1>5. Cardinality(pending) = Cardinality({id})
  BY <1>1, <1>2, <1>3, <1>4
<1> QED
  BY <1>2, <1>3, <1>5, FS_Subset

LEMMA AcceptedHolds ==
  ASSUME ChannelInv, NEW i, NEW l, Taken(i, l), H!Accepted(l)  PROVE ChannelInv'
<1> DEFINE id == H!Identity(l)
           closes == id = window.on /\ ~l.ok
<1>1. /\ l.conn = link.sock /\ l.kind \in {"reply", "notice"} /\ link.ready
      /\ IF ~link.legacy /\ l.id = None THEN H!Restart
         ELSE IF id \notin pending
         THEN UNCHANGED <<link, sequence, pending, acks, outcome, peer, window>>
         ELSE /\ H!Ends({<<id, IF l.ok THEN l.of ELSE 0>>})
              /\ H!Flush(pending \ {id}, acks)
              /\ window' = IF closes THEN H!Closed ELSE window
              /\ link' = link
  BY DEF H!Accepted, H!Hears
<1>2. ~link.legacy => id = l.id
  BY DEF H!Identity
<1> HIDE DEF id
<1>3. /\ lines' \in Seq(Lines) /\ LinesOK(lines', link, peer, window, pending, sequence)
      /\ link.up /\ LineOK(l, link, peer, window, pending, sequence) /\ l \in Lines
      /\ \A k \in DOMAIN lines' :
           /\ lines'[k].conn <= link.sock
           /\ lines'[k].conn = link.sock =>
                /\ PairOK(l, lines'[k])
                /\ LineOK(lines'[k], link, peer, window, pending, sequence)
  BY <1>1, TakenIs DEF LinesOK
<1>4. CASE ~link.legacy /\ l.id = None
  BY <1>1, <1>3, <1>4, RestartHolds
<1>5. CASE ~(~link.legacy /\ l.id = None) /\ id \notin pending
  <2>1. /\ window \in [on : Nat, running : BOOLEAN, awaiting : BOOLEAN, live : SUBSET Nat]
        /\ window.live \subseteq {window.on}
    BY DEF ChannelInv, ChannelTypes
  <2>2. UNCHANGED <<link, sequence, pending, acks, outcome, peer, window>> /\ l.kind # "done"
    BY <1>1, <1>5
  <2> QED
    BY <2>1, <2>2, SameWindowTaken
<1>6. CASE ~(~link.legacy /\ l.id = None) /\ id \in pending
  <2> DEFINE reply == IF l.ok THEN l.of ELSE 0
             ends == {<<id, reply>>}
  <2>1. /\ H!Ends(ends) /\ H!Flush(pending \ {id}, acks) /\ link' = link
        /\ window' = IF closes THEN H!Closed ELSE window
    BY <1>1, <1>6
  <2>2. l.kind = "reply" => l.of = id
    <3>1. CASE link.legacy
      BY <1>1, <1>3, <1>6, <3>1, OneWaited DEF LineOK
    <3>2. CASE ~link.legacy
      BY <1>2, <1>3, <1>6, <3>2 DEF LineOK
    <3> QED
      BY <3>1, <3>2
  <2>3. l.kind = "notice" => ~l.ok /\ peer.gone
    BY <1>3 DEF LineOK
  <2>4. reply \in {0, id}
    BY <1>1, <2>2, <2>3
  <2>5. {id} = {e[1] : e \in ends} /\ \A e \in ends : e[2] \in {0, e[1]}
    <3> HIDE DEF reply
    <3>1. <<id, reply>>[1] = id /\ <<id, reply>>[2] = reply
      OBVIOUS
    <3>2. \A e \in ends : e = <<id, reply>>
      OBVIOUS
    <3>3. <<id, reply>> \in ends
      OBVIOUS
    <3> HIDE DEF ends
    <3> QED
      BY <2>4, <3>1, <3>2, <3>3
  <2> HIDE DEF ends
  <2>6. link.legacy =>
          /\ ~peer.gone => peer.todo \subseteq pending \ {id}
          /\ \A k \in DOMAIN lines' :
               lines'[k].conn = link.sock /\ lines'[k].kind = "reply" =>
                 lines'[k].of \in pending \ {id}
    <3>1. ~peer.gone => id \notin peer.todo
      BY <1>1, <1>3, <2>2, <2>3 DEF LineOK
    <3>2. link.legacy /\ ~peer.gone => peer.todo \subseteq pending
      BY <1>1, <1>3 DEF ChannelInv, PeerOK
    <3>3. \A k \in DOMAIN lines' :
            lines'[k].conn = link.sock /\ lines'[k].kind = "reply" => lines'[k].of # id
      BY <1>1, <1>3, <2>2 DEF PairOK
    <3>4. link.legacy =>
            \A k \in DOMAIN lines' :
              lines'[k].conn = link.sock /\ lines'[k].kind = "reply" => lines'[k].of \in pending
      BY <1>1, <1>3 DEF LineOK
    <3> QED
      BY <3>1, <3>2, <3>3, <3>4
  <2>7. CASE closes
    <3>1. window' = H!Closed
      BY <2>1, <2>7
    <3>2. \A k \in DOMAIN lines' :
            lines'[k].conn = link.sock => lines'[k].kind \notin {"piece", "done"}
      BY <1>1, <1>3, <2>2, <2>7 DEF LineOK, PairOK
    <3>3. ~peer.gone => peer.asking = 0 /\ window.on \notin peer.todo
      <4>1. PeerOK(link, peer, window, pending)
        BY <1>3 DEF ChannelInv
      <4> QED
        BY <1>1, <1>3, <2>2, <2>3, <2>7, <4>1 DEF LineOK, PeerOK
    <3> QED
      BY <1>1, <1>3, <1>6, <2>1, <2>5, <2>6, <3>1, <3>2, <3>3, EndedHolds
  <2>8. CASE ~closes
    <3>1. window' = window
      BY <2>1, <2>8
    <3>2. window.running =>
            \/ Promised(lines', link, peer, window.on)
            \/ /\ window.on \in pending \ {id}
               /\ \A k \in DOMAIN lines' :
                    lines'[k].conn = link.sock /\ lines'[k].kind = "reply"
                      /\ lines'[k].of = window.on => ~lines'[k].ok
      <4>1. window.running =>
              \/ Promised(lines', link, peer, window.on)
              \/ /\ window.on \in pending
                 /\ \A k \in DOMAIN lines' :
                      lines'[k].conn = link.sock /\ lines'[k].kind = "reply"
                        /\ lines'[k].of = window.on => ~lines'[k].ok
                 /\ l.conn = link.sock /\ l.kind = "reply" /\ l.of = window.on => ~l.ok
        BY <1>1, StillPromised
      <4>2. id = window.on => l.ok /\ l.kind = "reply" /\ l.of = window.on
        BY <1>1, <2>2, <2>3, <2>8
      <4> QED
        BY <1>1, <4>1, <4>2
    <3> QED
      BY <1>1, <1>3, <1>6, <2>1, <2>5, <2>6, <3>1, <3>2, EndedHolds
  <2> QED
    BY <2>7, <2>8
<1> QED
  BY <1>4, <1>5, <1>6

LEMMA HearHolds ==
  ASSUME ChannelInv, H!Hear  PROVE ChannelInv'
<1>1. PICK i \in DOMAIN lines :
        /\ \A j \in 1 .. i - 1 : lines[j].conn # lines[i].conn
        /\ lines' = H!RemoveAt(lines, i)
        /\ \/ H!Ignored(lines[i]) \/ H!Received(lines[i])
           \/ H!Probed(lines[i]) \/ H!Accepted(lines[i])
  BY DEF H!Hear, H!Heard
<1> DEFINE l == lines[i]
<1>2. Taken(i, l)
  BY <1>1 DEF Taken
<1>3. H!Ignored(l) \/ H!Received(l) \/ H!Probed(l) \/ H!Accepted(l)
  BY <1>1
<1> HIDE DEF l
<1> QED
  BY <1>2, <1>3, IgnoredHolds, ReceivedHolds, ProbedHolds, AcceptedHolds

-----------------------------------------------------------------------------
LEMMA ChannelSteps ==
  ASSUME ChannelInv, H!NextShell  PROVE ChannelInv'
<1>1. CASE H!Redial
  <2>1. H!Restart /\ lines' = lines
    BY <1>1 DEF H!Redial
  <2>2. lines \in Seq(Lines) /\ \A i \in DOMAIN lines : lines[i].conn <= link.sock
    BY DEF ChannelInv, ChannelTypes, LinesOK
  <2> QED
    BY <2>1, <2>2, RestartHolds
<1>2. CASE H!ProbeRunsOut
  <2>1. H!Restart /\ lines' = lines
    BY <1>2 DEF H!ProbeRunsOut
  <2>2. lines \in Seq(Lines) /\ \A i \in DOMAIN lines : lines[i].conn <= link.sock
    BY DEF ChannelInv, ChannelTypes, LinesOK
  <2> QED
    BY <2>1, <2>2, RestartHolds
<1> QED
  BY <1>1, <1>2, LosesHolds, CallHolds, AcknowledgeHolds, SubmitHolds, ForgetHolds,
     RepliesHolds, SpeaksHolds, FinishesHolds, EvictsHolds, HearHolds, RunsOutHolds
     DEF H!NextShell

LEMMA ChannelInit ==
  ASSUME H!InitShell  PROVE ChannelInv
<1> DEFINE no == FALSE
<1>1. /\ link = [sock |-> 0, up |-> no, ready |-> no, legacy |-> no]
      /\ sequence = 0 /\ pending = {} /\ acks = 0
      /\ outcome = [results |-> {}, again |-> {}]
      /\ peer = [old |-> no, todo |-> {0}, asking |-> 0, gone |-> no] /\ lines = << >>
      /\ window = [on |-> 0, running |-> no, awaiting |-> no, live |-> {}]
      /\ no \in BOOLEAN /\ ~no
  BY DEF H!InitShell, H!NewPeer
<1> HIDE DEF no
<1>2. /\ link \in [sock : Nat, up : BOOLEAN, ready : BOOLEAN, legacy : BOOLEAN]
      /\ ~link.up /\ ~link.ready
  BY <1>1
<1>3. /\ peer \in [old : BOOLEAN, todo : SUBSET Nat, asking : Nat, gone : BOOLEAN]
      /\ peer.todo = {0} /\ peer.asking = 0
  BY <1>1
<1>4. /\ window \in [on : Nat, running : BOOLEAN, awaiting : BOOLEAN, live : SUBSET Nat]
      /\ window.on = 0 /\ window.live = {} /\ ~window.running /\ ~window.awaiting
  BY <1>1
<1>5. lines \in Seq(Lines) /\ DOMAIN lines = {}
  BY <1>1
<1>6. ChannelTypes
  <2>1. Cardinality({}) = 0 /\ H!Cap \in Nat /\ 0 \in 0 .. PendingMax
    BY FS_EmptySet, DialsAssumption DEF H!Cap
  <2> QED
    BY <1>1, <1>2, <1>3, <1>4, <1>5, <2>1 DEF ChannelTypes
<1>7. H!OwnReplyOnce
  <2>1. outcome.results = {} /\ outcome.again = {}
    BY <1>1
  <2>2. H!Ended = {} /\ 1 .. sequence = {}
    BY <1>1, <2>1 DEF H!Ended
  <2> QED
    BY <1>1, <2>1, <2>2 DEF H!OwnReplyOnce
<1> QED
  BY <1>1, <1>2, <1>4, <1>5, <1>6, <1>7 DEF ChannelInv, LinkOK, H!TokensGo, LinesOK, WindowOK

\* What the invariant says of the channel is what it promises.
LEMMA ChannelPromises ==
  ASSUME ChannelInv  PROVE H!ChannelHolds /\ H!TypeOK
<1>1. H!PiecesAreItsOwn
  BY DEF ChannelInv, ChannelTypes, H!PiecesAreItsOwn
<1>2. H!KeysOpenAgain
  BY DEF ChannelInv, LinkOK, WindowOK, Promised, H!KeysOpenAgain, H!Connected, H!Hears
<1>3. H!TypeOK
  BY DEF ChannelInv, ChannelTypes, LinkOK, H!TypeOK, H!Cardinality, Cardinality
<1> QED
  BY <1>1, <1>2, <1>3 DEF ChannelInv, H!ChannelHolds

LEMMA ChannelInductive == Spec => []ChannelInv
<1>1. Init => ChannelInv
  BY ChannelInit DEF Init
<1>2. ChannelInv /\ [Next]_vars => ChannelInv'
  <2> SUFFICES ASSUME ChannelInv, [Next]_vars  PROVE ChannelInv'
    OBVIOUS
  <2>1. CASE H!NextShell
    BY <2>1, ChannelSteps
  <2>2. CASE UNCHANGED ofH
    BY <2>2 DEF ofH, ChannelInv, ChannelTypes, LinkOK, H!Cap, H!OwnReplyOnce, H!Ended, H!TokensGo,
       H!Connected
  <2> QED
    BY <2>1, <2>2, Zenon DEF Next, vars
<1> QED
  BY <1>1, <1>2, PTL DEF Spec

\* Whatever comes late, twice, without an id, or from the socket before, a call
\* of the shell ends once, with its own reply or an error; no token waits while
\* a place is free; and an ask window shows its own answer and is not shut for
\* good (RequestChannel.qml accept and the timer, AskWindow.qml).
THEOREM CallsEndOnce == Spec => []ChannelHolds
<1>1. ChannelInv => ChannelHolds
  BY ChannelPromises DEF ChannelHolds
<1> QED
  BY <1>1, ChannelInductive, PTL

-----------------------------------------------------------------------------
(***************************************************************************)
(* The room of the socket: who is kept, and in which order; how many       *)
(* listen; and that every claim of an ask is given back once.              *)
(***************************************************************************)
Claiming == {"claimed", "added", "runs", "text", "done", "ending"}
Claims == {c \in Conn : run[c] \in Claiming}

OrderOK ==
  /\ order \in Seq(Conn) /\ Len(order) <= ConnectionsMax
  /\ \A i, j \in 1 .. Len(order) : order[i] = order[j] => i = j
  /\ \A i \in 1 .. Len(order) : job[order[i]].at # "none"

RoomInv ==
  /\ OrderOK
  /\ open \subseteq Conn /\ dropping \subseteq Conn
  /\ IsFiniteSet(subs) /\ Cardinality(subs) <= ListenersMax

ClaimsInv == IsFiniteSet(Claims) /\ asks = Cardinality(Claims) /\ asks <= AsksMax

PumpInv ==
  /\ popups \in 0 .. PopupBacklog
  /\ pump \in [on : {"no", "yes", "stopped"}, todo : SUBSET Conn]
  /\ closing \in {"no", "runs", "waits", "done", "gaveup"}
  /\ \A c \in Conn : job[c].token <= tokens

-----------------------------------------------------------------------------
(***************************************************************************)
(* What the order of last requests becomes.                                *)
(***************************************************************************)
LEMMA FirstGoes ==
  ASSUME NEW s \in Seq(Conn), NEW e,
         \A i, j \in 1 .. Len(s) : s[i] = s[j] => i = j
  PROVE  /\ C!RemoveFirst(s, e) \in Seq(Conn)
         /\ Len(C!RemoveFirst(s, e)) = IF \E i \in 1 .. Len(s) : s[i] = e THEN Len(s) - 1 ELSE Len(s)
         /\ \A i \in 1 .. Len(C!RemoveFirst(s, e)) :
              C!RemoveFirst(s, e)[i] # e /\ \E j \in 1 .. Len(s) : C!RemoveFirst(s, e)[i] = s[j]
         /\ \A i, j \in 1 .. Len(C!RemoveFirst(s, e)) :
              C!RemoveFirst(s, e)[i] = C!RemoveFirst(s, e)[j] => i = j
<1>0. Len(s) \in Nat
  OBVIOUS
<1>1. CASE ~\E i \in 1 .. Len(s) : s[i] = e
  <2>1. C!RemoveFirst(s, e) = s
    BY <1>1 DEF C!RemoveFirst
  <2> QED
    BY <1>1, <2>1
<1>2. CASE \E i \in 1 .. Len(s) : s[i] = e
  <2> DEFINE T == {i \in 1 .. Len(s) : s[i] = e}
             here == C!SelectInSeq(s, LAMBDA v : v = e)
  <2>1. here \in T
    <3>1. \E i \in T : \A j \in T : i <= j
      BY <1>0, <1>2, LeastNumber
    <3> QED
      BY <3>1 DEF C!SelectInSeq, C!Min
  <2>2. C!RemoveFirst(s, e) = C!RemoveAt(s, here)
    BY <1>2 DEF C!RemoveFirst
  <2>3. PICK n \in 1 .. Len(s) : n = here /\ s[n] = e
    BY <2>1
  <2>4. C!RemoveFirst(s, e) = H!RemoveAt(s, n)
    BY <2>2, <2>3 DEF C!RemoveAt, H!RemoveAt
  <2> HIDE DEF here, T
  <2> DEFINE r == H!RemoveAt(s, n)
  <2>5. /\ r \in Seq(Conn) /\ DOMAIN r = 1 .. Len(s) - 1
        /\ \A k \in 1 .. Len(s) - 1 : r[k] = s[IF k < n THEN k ELSE k + 1]
    BY <2>3, RemoveAtIs
  <2> HIDE DEF r
  <2>6. Len(r) = Len(s) - 1
    BY <1>0, <2>3, <2>5
  <2>7. \A k \in 1 .. Len(s) - 1 : /\ (IF k < n THEN k ELSE k + 1) \in 1 .. Len(s)
                                   /\ (IF k < n THEN k ELSE k + 1) # n
    BY <1>0, <2>3
  <2>8. \A k, l \in 1 .. Len(s) - 1 :
          (IF k < n THEN k ELSE k + 1) = (IF l < n THEN l ELSE l + 1) => k = l
    BY <1>0, <2>3
  <2>9. \A i \in 1 .. Len(r) : r[i] # e /\ \E j \in 1 .. Len(s) : r[i] = s[j]
    BY <2>3, <2>5, <2>6, <2>7
  <2>10. \A i, j \in 1 .. Len(r) : r[i] = r[j] => i = j
    BY <2>5, <2>6, <2>7, <2>8
  <2>11. C!RemoveFirst(s, e) = r
    BY <2>4 DEF r
  <2> QED
    BY <1>2, <2>5, <2>6, <2>9, <2>10, <2>11
<1> QED
  BY <1>1, <1>2

\* nobody but the one named goes
LEMMA OthersStay ==
  ASSUME NEW s \in Seq(Conn), NEW e,
         \A k, l \in 1 .. Len(s) : s[k] = s[l] => k = l
  PROVE  \A i \in 1 .. Len(s) : s[i] # e =>
           \E j \in 1 .. Len(C!RemoveFirst(s, e)) : C!RemoveFirst(s, e)[j] = s[i]
<1> SUFFICES ASSUME NEW i \in 1 .. Len(s), s[i] # e
             PROVE  \E j \in 1 .. Len(C!RemoveFirst(s, e)) : C!RemoveFirst(s, e)[j] = s[i]
  OBVIOUS
<1>0. Len(s) \in Nat
  OBVIOUS
<1>1. CASE ~\E k \in 1 .. Len(s) : s[k] = e
  <2>1. C!RemoveFirst(s, e) = s
    BY <1>1 DEF C!RemoveFirst
  <2> QED
    BY <2>1
<1>2. CASE \E k \in 1 .. Len(s) : s[k] = e
  <2> DEFINE T == {k \in 1 .. Len(s) : s[k] = e}
             here == C!SelectInSeq(s, LAMBDA v : v = e)
  <2>1. here \in T
    <3>1. \E k \in T : \A l \in T : k <= l
      BY <1>0, <1>2, LeastNumber
    <3> QED
      BY <3>1 DEF C!SelectInSeq, C!Min
  <2>2. C!RemoveFirst(s, e) = C!RemoveAt(s, here)
    BY <1>2 DEF C!RemoveFirst
  <2>3. PICK n \in 1 .. Len(s) : n = here /\ s[n] = e
    BY <2>1
  <2>4. C!RemoveFirst(s, e) = H!RemoveAt(s, n)
    BY <2>2, <2>3 DEF C!RemoveAt, H!RemoveAt
  <2> HIDE DEF here, T
  <2> DEFINE r == H!RemoveAt(s, n)
  <2>5. /\ r \in Seq(Conn) /\ DOMAIN r = 1 .. Len(s) - 1
        /\ \A k \in 1 .. Len(s) - 1 : r[k] = s[IF k < n THEN k ELSE k + 1]
    BY <2>3, RemoveAtIs
  <2> HIDE DEF r
  <2>6. Len(r) = Len(s) - 1
    BY <1>0, <2>3, <2>5
  <2>7. i # n
    BY <2>3
  <2>8. CASE i < n
    <3>1. i \in 1 .. Len(s) - 1 /\ r[i] = s[i]
      BY <1>0, <2>3, <2>5, <2>8
    <3> QED
      BY <2>4, <2>6, <3>1 DEF r
  <2>9. CASE n < i
    <3>1. i - 1 \in 1 .. Len(s) - 1 /\ ~(i - 1 < n) /\ i - 1 + 1 = i
      BY <1>0, <2>3, <2>9
    <3>2. r[i - 1] = s[i]
      BY <2>5, <3>1
    <3> QED
      BY <2>4, <2>6, <3>1, <3>2 DEF r
  <2> QED
    BY <2>3, <2>7, <2>8, <2>9
<1> QED
  BY <1>1, <1>2

LEMMA RangeIsFinite ==
  ASSUME NEW s \in Seq(Conn)
  PROVE  /\ C!Range(s) = {s[i] : i \in 1 .. Len(s)} /\ C!Range(s) \subseteq Conn
         /\ IsFiniteSet(C!Range(s))
<1>1. C!Range(s) = {s[i] : i \in 1 .. Len(s)}
  BY DEF C!Range
<1>2. IsFiniteSet(1 .. Len(s))
  BY FS_Interval
<1>3. IsFiniteSet({s[i] : i \in 1 .. Len(s)})
  <2>1. s \in [1 .. Len(s) -> Conn]
    OBVIOUS
  <2>2. s \in Surjection(1 .. Len(s), {s[i] : i \in 1 .. Len(s)})
    BY <2>1 DEF Surjection
  <2> QED
    BY <1>2, <2>2, FS_Surjection
<1> QED
  BY <1>1, <1>3

\* who makes room is somebody kept that is not exempt, or, when all are, came last
LEMMA EvictedIs ==
  ASSUME NEW s \in Seq(Conn), NEW k \in Conn, \E i \in 1 .. Len(s) : s[i] = k
  PROVE  /\ C!Evicted(k, s) \in {None, k} \cup (Conn \ C!Exempt)
         /\ Len(s) > ConnectionsMax => \E i \in 1 .. Len(s) : s[i] = C!Evicted(k, s)
         /\ Len(s) <= ConnectionsMax => C!Evicted(k, s) = None
         /\ Len(s) > ConnectionsMax /\ C!Evicted(k, s) = k =>
              \A i \in 1 .. Len(s) : s[i] = k \/ s[i] \in C!Exempt
<1> DEFINE n(c) == C!Holds(PidOf[c], s)
           may == {c \in C!Range(s) \ {k} : c \notin C!Exempt}
           most == {c \in may : \A d \in may : n(d) <= n(c)}
           T == {i \in 1 .. Len(s) : s[i] \in most}
           all == Cardinality(C!Range(s))
<1>0. Len(s) \in Nat /\ ConnectionsMax \in Nat
  BY RoomAssumption
<1>1. all \in Nat
  BY RangeIsFinite, FS_CardinalityType
<1>2. ASSUME NEW c
      PROVE  n(c) \in Nat /\ n(c) <= all
  <2> DEFINE of_ == {d \in C!Range(s) : PidOf[d] = PidOf[c]}
  <2>1. n(c) = Cardinality(of_)
    BY DEF C!Holds, C!Cardinality, Cardinality
  <2>2. of_ \subseteq C!Range(s)
    OBVIOUS
  <2> HIDE DEF n, of_
  <2> QED
    BY <2>1, <2>2, RangeIsFinite, FS_Subset, FS_CardinalityType
<1>3. ASSUME may # {}
      PROVE  T # {}
  <2> HIDE DEF n, all
  <2> DEFINE N == {all - n(c) : c \in may}
  <2>1. N \in SUBSET Nat /\ N # {}
    BY <1>1, <1>2, <1>3
  <2> HIDE DEF N
  <2>2. PICK m \in N : \A y \in N : m <= y
    BY <2>1, LeastNumber
  <2>3. PICK c \in may : m = all - n(c)
    BY <2>2 DEF N
  <2>4. \A d \in may : n(d) <= n(c)
    <3> SUFFICES ASSUME NEW d \in may  PROVE n(d) <= n(c)
      OBVIOUS
    <3>1. all - n(c) <= all - n(d)
      BY <2>2, <2>3 DEF N
    <3> QED
      BY <1>1, <1>2, <3>1
  <2>5. c \in most /\ c \in C!Range(s)
    BY <2>3, <2>4
  <2> QED
    BY <2>5, RangeIsFinite
<1>4. CASE Len(s) <= ConnectionsMax
  <2>1. C!Evicted(k, s) = None
    BY <1>4 DEF C!Evicted
  <2> QED
    BY <1>0, <1>4, <2>1
<1>5. CASE ~(Len(s) <= ConnectionsMax) /\ may = {}
  <2>1. C!Evicted(k, s) = k
    BY <1>5 DEF C!Evicted
  <2>2. \A i \in 1 .. Len(s) : s[i] \in C!Range(s)
    BY RangeIsFinite
  <2>3. \A i \in 1 .. Len(s) : s[i] = k \/ s[i] \in C!Exempt
    BY <1>5, <2>2
  <2> QED
    BY <1>5, <2>1, <2>3
<1>6. CASE ~(Len(s) <= ConnectionsMax) /\ may # {}
  <2>1. C!SelectInSeq(s, LAMBDA c : c \in most) \in T
    <3> HIDE DEF most
    <3>0. T \in SUBSET Nat /\ T # {}
      BY <1>0, <1>3, <1>6
    <3>1. \E i \in T : \A j \in T : i <= j
      BY <3>0, LeastNumber
    <3> QED
      BY <3>1 DEF C!SelectInSeq, C!Min
  <2>2. C!Evicted(k, s) = s[C!SelectInSeq(s, LAMBDA c : c \in most)]
    BY <1>6 DEF C!Evicted
  <2>3. PICK i \in T : C!Evicted(k, s) = s[i]
    BY <2>1, <2>2
  <2>4. i \in 1 .. Len(s) /\ s[i] \in Conn /\ s[i] \notin C!Exempt /\ s[i] # k
    BY <2>3
  <2> QED
    BY <1>6, <2>3, <2>4
<1> QED
  BY <1>4, <1>5, <1>6

-----------------------------------------------------------------------------
\* a connection that has come has come
Begun == \A c \in Conn : job[c].at # "none" => job'[c].at # "none"

\* what a step does to an order that RoomInv is about
LEMMA OrderStays ==
  ASSUME RoomInv, Begun,
         order' = order
  PROVE  OrderOK'
BY DEF RoomInv, OrderOK, Begun

LEMMA GoneFrom ==
  ASSUME RoomInv, NEW c \in Conn, Begun,
         order' = C!Gone(c)
  PROVE  OrderOK'
<1>1. order \in Seq(Conn) /\ \A i, j \in 1 .. Len(order) : order[i] = order[j] => i = j
  BY DEF RoomInv, OrderOK
<1>2. order' = C!RemoveFirst(order, c)
  BY DEF C!Gone
<1>3. /\ order' \in Seq(Conn) /\ Len(order') <= Len(order)
      /\ \A i \in 1 .. Len(order') : \E j \in 1 .. Len(order) : order'[i] = order[j]
      /\ \A i, j \in 1 .. Len(order') : order'[i] = order'[j] => i = j
  <2>1. PICK s \in Seq(Conn) : s = order
    BY <1>1
  <2>2. \A i, j \in 1 .. Len(s) : s[i] = s[j] => i = j
    BY <1>1, <2>1
  <2>3. /\ C!RemoveFirst(s, c) \in Seq(Conn)
        /\ Len(C!RemoveFirst(s, c)) = IF \E i \in 1 .. Len(s) : s[i] = c THEN Len(s) - 1 ELSE Len(s)
        /\ \A i \in 1 .. Len(C!RemoveFirst(s, c)) :
             C!RemoveFirst(s, c)[i] # c /\ \E j \in 1 .. Len(s) : C!RemoveFirst(s, c)[i] = s[j]
        /\ \A i, j \in 1 .. Len(C!RemoveFirst(s, c)) :
             C!RemoveFirst(s, c)[i] = C!RemoveFirst(s, c)[j] => i = j
    BY ONLY <2>2, FirstGoes, Zenon
  <2>4. order' = C!RemoveFirst(s, c)
    BY <1>2, <2>1
  <2>5. Len(s) \in Nat
    OBVIOUS
  <2> QED
    <3>1. /\ order' \in Seq(Conn)
          /\ Len(order') = IF \E i \in 1 .. Len(s) : s[i] = c THEN Len(s) - 1 ELSE Len(s)
      BY ONLY <2>3, <2>4
    <3>2. /\ \A i \in 1 .. Len(order') : \E j \in 1 .. Len(s) : order'[i] = s[j]
          /\ \A i, j \in 1 .. Len(order') : order'[i] = order'[j] => i = j
      BY ONLY <2>3, <2>4
    <3>3. Len(order') <= Len(s)
      BY ONLY <2>5, <3>1
    <3>4. s = order
      BY ONLY <2>1
    <3> QED
      BY ONLY <3>1, <3>2, <3>3, <3>4
<1>4. \A i \in 1 .. Len(order') : job'[order'[i]].at # "none"
  BY <1>3 DEF RoomInv, OrderOK, Begun
<1> QED
  BY <1>3, <1>4, RoomAssumption DEF RoomInv, OrderOK

LEMMA TouchedIs ==
  ASSUME RoomInv, NEW c \in Conn, c \in C!Held,
         Begun, order' = C!Touch(c)
  PROVE  OrderOK'
<1>1. order \in Seq(Conn) /\ \A i, j \in 1 .. Len(order) : order[i] = order[j] => i = j
  BY DEF RoomInv, OrderOK
<1>2. PICK rest : rest = C!RemoveFirst(order, c)
  OBVIOUS
<1>3. order' = Append(rest, c)
  BY <1>2 DEF C!Touch, C!Gone
<1>4. PICK k \in 1 .. Len(order) : order[k] = c
  BY <1>1, RangeIsFinite DEF C!Held
<1>5. /\ rest \in Seq(Conn) /\ Len(rest) = Len(order) - 1
      /\ \A i \in 1 .. Len(rest) : rest[i] # c /\ \E j \in 1 .. Len(order) : rest[i] = order[j]
      /\ \A i, j \in 1 .. Len(rest) : rest[i] = rest[j] => i = j
  <2>1. PICK s \in Seq(Conn) : s = order
    BY <1>1
  <2>2. \A i, j \in 1 .. Len(s) : s[i] = s[j] => i = j
    BY <1>1, <2>1
  <2>3. /\ rest \in Seq(Conn) /\ Len(rest) = IF \E i \in 1 .. Len(s) : s[i] = c THEN Len(s) - 1 ELSE Len(s)
        /\ \A i \in 1 .. Len(rest) : rest[i] # c /\ \E j \in 1 .. Len(s) : rest[i] = s[j]
        /\ \A i, j \in 1 .. Len(rest) : rest[i] = rest[j] => i = j
    BY ONLY <1>2, <2>1, <2>2, FirstGoes
  <2> QED
    BY <1>4, <2>1, <2>3
<1>6. /\ order' \in Seq(Conn) /\ Len(order') = Len(rest) + 1
      /\ \A i \in 1 .. Len(order') : order'[i] = IF i = Len(rest) + 1 THEN c ELSE rest[i]
  BY <1>3, <1>5
<1>7. \A i, j \in 1 .. Len(order') : order'[i] = order'[j] => i = j
  <2> SUFFICES ASSUME NEW i \in 1 .. Len(order'), NEW j \in 1 .. Len(order'), order'[i] = order'[j]
               PROVE  i = j
    OBVIOUS
  <2>1. i \in 1 .. Len(rest) \/ i = Len(rest) + 1
    BY <1>5, <1>6
  <2>2. j \in 1 .. Len(rest) \/ j = Len(rest) + 1
    BY <1>5, <1>6
  <2> QED
    BY <1>5, <1>6, <2>1, <2>2
<1>8. \A i \in 1 .. Len(order') : \E j \in 1 .. Len(order) : order'[i] = order[j]
  <2> SUFFICES ASSUME NEW i \in 1 .. Len(order')  PROVE \E j \in 1 .. Len(order) : order'[i] = order[j]
    OBVIOUS
  <2>1. i \in 1 .. Len(rest) \/ i = Len(rest) + 1
    BY <1>5, <1>6
  <2> QED
    BY <1>4, <1>5, <1>6, <2>1
<1>9. \A i \in 1 .. Len(order') : job'[order'[i]].at # "none"
  BY <1>1, <1>8 DEF RoomInv, OrderOK, Begun
<1>10. Len(order') <= ConnectionsMax
  BY <1>1, <1>5, <1>6 DEF RoomInv, OrderOK
<1> QED
  BY <1>6, <1>7, <1>9, <1>10 DEF OrderOK

\* who comes last makes one too many, or somebody goes
LEMMA AdmittedIs ==
  ASSUME RoomInv, SocketInv, NEW c \in Conn, C!Admit(c)
  PROVE  /\ OrderOK'
         /\ open' \subseteq open \cup {c}
         /\ dropping' \subseteq dropping \cup (open \ C!Exempt)
<1> DEFINE s == Append(order, c)
           out == C!Evicted(c, s)
<1>0. /\ order' = C!RemoveFirst(s, out) /\ open' \subseteq open \cup {c}
      /\ dropping' = dropping \cup ({out} \cap open)
      /\ job[c].at = "none" /\ \E at \in {"left", "read"} : C!Job(c, at)
  BY DEF C!Admit
<1>1. order \in Seq(Conn) /\ Len(order) \in Nat
  BY DEF RoomInv, OrderOK
<1>2. /\ s \in Seq(Conn) /\ Len(s) = Len(order) + 1
      /\ \A i \in 1 .. Len(s) : s[i] = IF i = Len(order) + 1 THEN c ELSE order[i]
  BY <1>1
<1>3. \A i \in 1 .. Len(order) : order[i] # c
  BY <1>0 DEF RoomInv, OrderOK
<1> HIDE DEF s
<1>4. \A i, j \in 1 .. Len(s) : s[i] = s[j] => i = j
  <2> SUFFICES ASSUME NEW i \in 1 .. Len(s), NEW j \in 1 .. Len(s), s[i] = s[j]
               PROVE  i = j
    OBVIOUS
  <2>1. i \in 1 .. Len(order) \/ i = Len(order) + 1
    BY <1>1, <1>2
  <2>2. j \in 1 .. Len(order) \/ j = Len(order) + 1
    BY <1>1, <1>2
  <2> QED
    BY <1>2, <1>3, <2>1, <2>2 DEF RoomInv, OrderOK
<1>5. \E i \in 1 .. Len(s) : s[i] = c
  BY <1>1, <1>2
<1>6. /\ out \in {None, c} \cup (Conn \ C!Exempt)
      /\ Len(s) > ConnectionsMax => \E i \in 1 .. Len(s) : s[i] = out
  BY <1>2, <1>5, EvictedIs
<1> HIDE DEF out
<1>7. /\ order' \in Seq(Conn)
      /\ Len(order') = IF \E i \in 1 .. Len(s) : s[i] = out THEN Len(s) - 1 ELSE Len(s)
      /\ \A i \in 1 .. Len(order') : \E j \in 1 .. Len(s) : order'[i] = s[j]
      /\ \A i, j \in 1 .. Len(order') : order'[i] = order'[j] => i = j
  <2>1. PICK r : r = C!RemoveFirst(s, out)
    OBVIOUS
  <2>2. /\ r \in Seq(Conn) /\ Len(r) = IF \E i \in 1 .. Len(s) : s[i] = out THEN Len(s) - 1 ELSE Len(s)
        /\ \A i \in 1 .. Len(r) : r[i] # out /\ \E j \in 1 .. Len(s) : r[i] = s[j]
        /\ \A i, j \in 1 .. Len(r) : r[i] = r[j] => i = j
    <3>1. s \in Seq(Conn)
      BY <1>2
    <3> QED
      BY ONLY <1>4, <2>1, <3>1, FirstGoes
  <2>3. order' = r
    BY <1>0, <2>1
  <2> QED
    BY <2>2, <2>3
<1>8. Len(order') <= ConnectionsMax
  BY <1>1, <1>2, <1>6, <1>7, RoomAssumption DEF RoomInv, OrderOK
<1>9. job'[c].at # "none" /\ \A d \in Conn \ {c} : job'[d] = job[d]
  <2>1. job[c] \in Jobs
    BY DEF SocketInv, SocketTypes
  <2> QED
    BY <1>0, <2>1 DEF C!Job, SocketInv, SocketTypes, Jobs
<1>10. \A i \in 1 .. Len(order') : job'[order'[i]].at # "none"
  <2> SUFFICES ASSUME NEW i \in 1 .. Len(order')  PROVE job'[order'[i]].at # "none"
    OBVIOUS
  <2>1. PICK j \in 1 .. Len(s) : order'[i] = s[j]
    BY <1>7
  <2>2. j \in 1 .. Len(order) \/ j = Len(order) + 1
    BY <1>1, <1>2
  <2> QED
    BY <1>1, <1>2, <1>9, <2>1, <2>2 DEF RoomInv, OrderOK
<1>11. c \notin open
  BY <1>0 DEF SocketInv, AsksInv, AskHolds, AskOK
<1>12. None \notin open
  BY NobodyAssumption DEF RoomInv, OrderOK
<1>13. {out} \cap open \subseteq open \ C!Exempt
  BY <1>6, <1>11, <1>12
<1> QED
  BY <1>0, <1>7, <1>8, <1>10, <1>13 DEF OrderOK

-----------------------------------------------------------------------------
\* what becomes of a job: it has come, and its token is its own or the last one
GoesOn ==
  /\ Begun /\ tokens' \in Nat /\ tokens <= tokens'
  /\ \A c \in Conn : job'[c].token \in {0, job[c].token, tokens'}

Becomes(c, j) ==
  /\ job' = [job EXCEPT ![c] = j] /\ tokens' \in {tokens, tokens + 1}
  /\ j.at # "none" /\ j.token \in {0, job[c].token, tokens'}

LEMMA JobGoes ==
  ASSUME SocketInv, NEW c \in Conn, NEW j, Becomes(c, j)
  PROVE  GoesOn
BY DEF Becomes, SocketInv, SocketTypes, TokensInv, GoesOn, Begun

LEMMA JobsStand ==
  ASSUME SocketInv, UNCHANGED <<job, tokens>>
  PROVE  GoesOn
BY DEF SocketInv, TokensInv, GoesOn, Begun

LEMMA RequestGoes ==
  ASSUME SocketInv, NEW c \in Conn, NEW at \in {"answer", "await", "start"}, NEW line,
         C!Begin(c, at, line), UNCHANGED tokens
  PROVE  GoesOn
<1> DEFINE j == [C!Idle EXCEPT !.at = at, !.line = line, !.owed = TRUE]
<1>1. j.at # "none" /\ j.token = 0
  BY DEF C!Idle
<1>2. job' = [job EXCEPT ![c] = j]
  BY DEF C!Begin
<1> HIDE DEF j
<1>3. Becomes(c, j)
  BY <1>1, <1>2 DEF Becomes
<1> QED
  BY <1>3, JobGoes

LEMMA AnswerGoes ==
  ASSUME SocketInv, NEW c \in Conn, NEW line, C!Answer(c, line), UNCHANGED tokens
  PROVE  GoesOn
<1> DEFINE j == [job[c] EXCEPT !.at = "answer", !.line = line]
<1>0. job[c] \in Jobs
  BY DEF SocketInv, SocketTypes
<1>1. j.at # "none" /\ j.token = job[c].token
  BY <1>0 DEF Jobs
<1>2. job' = [job EXCEPT ![c] = j]
  BY DEF C!Answer, SocketInv, SocketTypes, Jobs
<1> HIDE DEF j
<1>3. Becomes(c, j)
  BY <1>1, <1>2 DEF Becomes
<1> QED
  BY <1>3, JobGoes

LEMMA HandlerGoes ==
  ASSUME SocketInv, NEW c \in Conn, C!Handler(c)
  PROVE  GoesOn
<1>0. job[c] \in Jobs /\ tokens \in Nat
  BY DEF SocketInv, SocketTypes, TokensInv
<1>1. CASE C!Leave(c)
  <2>1. job' = [job EXCEPT ![c] = [C!Idle EXCEPT !.at = "left"]] /\ tokens' = tokens
    BY <1>1 DEF C!Leave, C!surfaces
  <2>2. [C!Idle EXCEPT !.at = "left"].at # "none" /\ [C!Idle EXCEPT !.at = "left"].token = 0
    BY DEF C!Idle
  <2>3. Becomes(c, [C!Idle EXCEPT !.at = "left"])
    BY <1>0, <2>1, <2>2 DEF Becomes
  <2> QED
    BY <2>3, JobGoes
<1>2. CASE C!TakeGate(c)
  BY <1>2, JobsStand DEF C!TakeGate, C!surfaces
<1>3. CASE C!Replied(c)
  <2>1. job' = [job EXCEPT ![c] = [C!Idle EXCEPT !.at = "read"]] /\ tokens' = tokens
    BY <1>3 DEF C!Replied, C!surfaces
  <2>2. [C!Idle EXCEPT !.at = "read"].at # "none" /\ [C!Idle EXCEPT !.at = "read"].token = 0
    BY DEF C!Idle
  <2>3. Becomes(c, [C!Idle EXCEPT !.at = "read"])
    BY <1>0, <2>1, <2>2 DEF Becomes
  <2> QED
    BY <2>3, JobGoes
<1>4. CASE C!ReplyFails(c) \/ C!ReplyGivesUp(c)
  <2> DEFINE j == [job[c] EXCEPT !.at = "read", !.line = None]
  <2>1. job' = [job EXCEPT ![c] = j] /\ tokens' = tokens
    BY <1>4 DEF C!ReplyFails, C!ReplyGivesUp, C!AfterReply, C!surfaces, SocketInv, SocketTypes, Jobs
  <2>2. j.at # "none" /\ j.token = job[c].token
    BY <1>0 DEF Jobs
  <2> HIDE DEF j
  <2>3. Becomes(c, j)
    BY <1>0, <2>1, <2>2 DEF Becomes
  <2> QED
    BY <2>3, JobGoes
<1>5. CASE C!Await(c)
  <2> DEFINE j == [job[c] EXCEPT !.at = "snapshot", !.token = tokens + 1]
  <2>1. job' = [job EXCEPT ![c] = j] /\ tokens' = tokens + 1
    BY <1>5 DEF C!Await, SocketInv, SocketTypes, Jobs
  <2>2. j.at # "none" /\ j.token = tokens'
    BY <1>0, <2>1 DEF Jobs
  <2> HIDE DEF j
  <2>3. Becomes(c, j)
    BY <1>0, <2>1, <2>2 DEF Becomes
  <2> QED
    BY <2>3, JobGoes
<1>6. CASE C!Snapshot(c)
  <2> DEFINE j == [job[c] EXCEPT !.at = "send", !.todo = subs]
  <2>1. job' = [job EXCEPT ![c] = j] /\ tokens' = tokens
    BY <1>6 DEF C!Snapshot, C!surfaces, SocketInv, SocketTypes, Jobs
  <2>2. j.at # "none" /\ j.token = job[c].token
    BY <1>0 DEF Jobs
  <2> HIDE DEF j
  <2>3. Becomes(c, j)
    BY <1>0, <2>1, <2>2 DEF Becomes
  <2> QED
    BY <2>3, JobGoes
<1>7. ASSUME NEW l \in Conn, NEW how \in C!Hows, C!Send(c, l, how)
      PROVE  GoesOn
  <2> DEFINE j == [job[c] EXCEPT !.todo = @ \ {l}, !.sent = @ \/ how = "sent"]
  <2>1. job' = [job EXCEPT ![c] = j] /\ tokens' = tokens /\ job[c].at = "send"
    BY <1>7 DEF C!Send, SocketInv, SocketTypes, Jobs
  <2>2. j.at # "none" /\ j.token = job[c].token
    BY <1>0, <2>1 DEF Jobs
  <2> HIDE DEF j
  <2>3. Becomes(c, j)
    BY <1>0, <2>1, <2>2 DEF Becomes
  <2> QED
    BY <2>3, JobGoes
<1>8. CASE C!Sent(c)
  <2>1. CASE C!Answer(c, "no")
    BY <1>8, <2>1, AnswerGoes DEF C!Sent
  <2>2. CASE C!Job(c, "wait")
    <3> DEFINE j == [job[c] EXCEPT !.at = "wait"]
    <3>1. job' = [job EXCEPT ![c] = j] /\ tokens' = tokens
      BY <1>8, <2>2 DEF C!Sent, C!Job, SocketInv, SocketTypes, Jobs
    <3>2. j.at # "none" /\ j.token = job[c].token
      BY <1>0 DEF Jobs
    <3> HIDE DEF j
    <3>3. Becomes(c, j)
      BY <1>0, <3>1, <3>2 DEF Becomes
    <3> QED
      BY <3>3, JobGoes
  <2> QED
    BY <1>8, <2>1, <2>2 DEF C!Sent
<1>9. CASE C!Shown(c)
  <2>1. PICK line : line = IF job[c].token \in acked THEN "yes" ELSE "no"
    OBVIOUS
  <2> QED
    BY <1>9, <2>1, AnswerGoes DEF C!Shown
<1>10. CASE C!StartRun(c)
  <2>1. C!Answer(c, "asking") \/ C!Answer(c, "no")
    BY <1>10 DEF C!StartRun
  <2> QED
    BY <1>10, <2>1, AnswerGoes DEF C!StartRun, C!surfaces
<1> QED
  BY <1>1, <1>2, <1>3, <1>4, <1>5, <1>6, <1>7, <1>8, <1>9, <1>10 DEF C!Handler

LEMMA JobsGo ==
  ASSUME SocketInv, C!Next
  PROVE  GoesOn
<1>1. ASSUME NEW c \in Conn, C!Client(c)
      PROVE  GoesOn
  <2>1. CASE C!Admit(c)
    <3>0. job[c] \in Jobs /\ tokens \in Nat
      BY DEF SocketInv, SocketTypes, TokensInv
    <3>1. PICK at \in {"left", "read"} : C!Job(c, at)
      BY <2>1 DEF C!Admit
    <3> DEFINE j == [job[c] EXCEPT !.at = at]
    <3>2. job' = [job EXCEPT ![c] = j] /\ tokens' = tokens
      BY <2>1, <3>1 DEF C!Admit, C!Job, C!surfaces, SocketInv, SocketTypes, Jobs
    <3>3. j.at # "none" /\ j.token = job[c].token
      BY <3>0 DEF Jobs
    <3> HIDE DEF j
    <3>4. Becomes(c, j)
      BY <3>0, <3>2, <3>3 DEF Becomes
    <3> QED
      BY <3>4, JobGoes
  <2>2. CASE C!Hangup(c)
    BY <2>2, JobsStand DEF C!Hangup, C!surfaces
  <2>3. CASE C!Call(c) \/ C!Listen(c)
    BY <2>3, RequestGoes DEF C!Call, C!Listen, C!surfaces
  <2>4. CASE C!Surface(c)
    BY <2>4, RequestGoes DEF C!Surface, C!surfaces
  <2>5. CASE C!Ask(c)
    <3>1. C!Begin(c, "answer", "no") \/ C!Begin(c, "start", None)
      BY <2>5 DEF C!Ask
    <3> QED
      BY <2>5, <3>1, RequestGoes DEF C!Ask, C!surfaces
  <2>6. ASSUME NEW t, C!Acknowledge(c, t)
        PROVE  GoesOn
    BY <2>6, RequestGoes DEF C!Acknowledge
  <2> QED
    BY <1>1, <2>1, <2>2, <2>3, <2>4, <2>5, <2>6 DEF C!Client
<1>2. ASSUME NEW c \in Conn, C!TierSpeaks(c) \/ C!AskRun(c) \/ C!Drop(c)
      PROVE  GoesOn
  BY <1>2, JobsStand DEF C!TierSpeaks, C!AskRun, C!Drop, C!TierEnds, C!StreamGate, C!Streamed,
     C!StreamFails, C!ReleaseAsk, C!RunDone, C!surfaces
<1>3. CASE C!Pump \/ C!Closes \/ C!Pop \/ C!Close
  BY <1>3, JobsStand DEF C!Pump, C!Closes, C!Pop, C!Close, C!PumpTakes, C!PumpSends, C!PumpStops,
     C!StopRuns, C!RunsGone, C!WaitedEnough, C!surfaces
<1> QED
  BY <1>1, <1>2, <1>3, HandlerGoes DEF C!Next, C!Zded

-----------------------------------------------------------------------------
LEMMA OrderStep ==
  ASSUME RoomInv, SocketInv, C!Next
  PROVE  OrderOK'
<1>0. Begun
  BY JobsGo DEF GoesOn
<1>1. ASSUME NEW c \in Conn, NEW what, C!Reads(c, what)
      PROVE  OrderOK'
  BY <1>0, <1>1, OrderStays, TouchedIs DEF C!Reads
<1>2. ASSUME NEW c \in Conn, C!Leave(c)
      PROVE  OrderOK'
  BY <1>0, <1>2, GoneFrom DEF C!Leave
<1>3. ASSUME NEW c \in Conn, C!Admit(c)
      PROVE  OrderOK'
  BY <1>3, AdmittedIs
<1>4. CASE UNCHANGED order
  BY <1>0, <1>4, OrderStays
<1>5. ASSUME NEW c \in Conn, C!Client(c)
      PROVE  OrderOK'
  <2>1. CASE C!Hangup(c)
    BY <1>4, <2>1 DEF C!Hangup
  <2>2. C!Call(c) => C!Reads(c, "call")
    BY DEF C!Call
  <2>3. C!Listen(c) => C!Reads(c, "listen")
    BY DEF C!Listen
  <2>4. C!Surface(c) => C!Reads(c, "surface")
    BY DEF C!Surface
  <2>5. C!Ask(c) => C!Reads(c, "ask")
    BY DEF C!Ask
  <2>6. \A t : C!Acknowledge(c, t) => C!Reads(c, "shown")
    BY DEF C!Acknowledge
  <2> QED
    BY <1>1, <1>3, <1>5, <2>1, <2>2, <2>3, <2>4, <2>5, <2>6 DEF C!Client
<1>6. ASSUME NEW c \in Conn, C!Handler(c)
      PROVE  OrderOK'
  <2>1. C!Leave(c) \/ UNCHANGED order
    BY <1>6 DEF C!Handler, C!TakeGate, C!Replied, C!ReplyFails, C!ReplyGivesUp, C!Await, C!Snapshot,
       C!Send, C!Sent, C!Shown, C!StartRun, C!rooms
  <2> QED
    BY <1>2, <1>4, <2>1
<1>7. ASSUME NEW c \in Conn, C!TierSpeaks(c) \/ C!AskRun(c) \/ C!Drop(c)
      PROVE  OrderOK'
  BY <1>4, <1>7 DEF C!TierSpeaks, C!AskRun, C!Drop, C!TierEnds, C!StreamGate, C!Streamed,
     C!StreamFails, C!ReleaseAsk, C!RunDone, C!rooms
<1>8. CASE C!Pump \/ C!Closes \/ C!Pop \/ C!Close
  BY <1>4, <1>8 DEF C!Pump, C!Closes, C!Pop, C!Close, C!PumpTakes, C!PumpSends, C!PumpStops,
     C!StopRuns, C!RunsGone, C!WaitedEnough, C!rooms
<1> QED
  BY <1>3, <1>5, <1>6, <1>7, <1>8 DEF C!Next, C!Zded

\* no socket that is shut opens again, and who is put out for another is not asking
Sockets ==
  /\ open' \subseteq open \cup Conn
  /\ dropping' \subseteq dropping \cup (open \ C!Exempt)

\* listeners go, or one more comes to a house that has room
Listeners == subs' \subseteq subs \/ \E c \in Conn : Cardinality(subs) < ListenersMax /\ subs' = subs \cup {c}

LEMMA EventIs ==
  ASSUME NEW l, NEW how, C!EventTo(l, how)
  PROVE  subs' \subseteq subs /\ open' \subseteq open
BY DEF C!EventTo

LEMMA RoomsStep ==
  ASSUME RoomInv, SocketInv, C!Next
  PROVE  Sockets /\ Listeners
<1>1. CASE /\ UNCHANGED <<subs, dropping>> /\ open' \subseteq open
  BY <1>1 DEF Sockets, Listeners
<1>2. ASSUME NEW c \in Conn, C!Client(c)
      PROVE  Sockets /\ Listeners
  <2>1. CASE C!Admit(c)
    <3>1. UNCHANGED subs
      BY <2>1 DEF C!Admit
    <3> QED
      BY <2>1, <3>1, AdmittedIs DEF Sockets, Listeners
  <2>2. CASE C!Hangup(c)
    BY <1>1, <2>2 DEF C!Hangup
  <2>3. CASE C!Listen(c)
    <3>1. C!Cardinality(subs) = Cardinality(subs)
      BY DEF C!Cardinality, Cardinality
    <3> QED
      BY <2>3, <3>1 DEF C!Listen, Sockets, Listeners
  <2>4. CASE C!Call(c) \/ C!Surface(c) \/ C!Ask(c) \/ (\E t \in drawn : C!Acknowledge(c, t))
    BY <1>1, <2>4 DEF C!Call, C!Surface, C!Ask, C!Acknowledge
  <2> QED
    BY <1>2, <2>1, <2>2, <2>3, <2>4 DEF C!Client
<1>3. ASSUME NEW c \in Conn, C!Handler(c)
      PROVE  Sockets /\ Listeners
  <2>1. CASE C!Leave(c)
    BY <2>1 DEF C!Leave, Sockets, Listeners
  <2>2. ASSUME NEW l \in Conn, NEW how \in C!Hows, C!Send(c, l, how)
        PROVE  Sockets /\ Listeners
    BY <2>2, EventIs DEF C!Send, Sockets, Listeners
  <2>3. CASE C!ReplyFails(c) \/ C!ReplyGivesUp(c)
    BY <1>1, <2>3 DEF C!ReplyFails, C!ReplyGivesUp, C!Unwritten
  <2>4. CASE C!TakeGate(c) \/ C!Replied(c) \/ C!Await(c) \/ C!Snapshot(c) \/ C!Sent(c) \/ C!Shown(c)
             \/ C!StartRun(c)
    BY <1>1, <2>4 DEF C!TakeGate, C!Replied, C!Await, C!Snapshot, C!Sent, C!Shown, C!StartRun, C!rooms
  <2> QED
    BY <1>3, <2>1, <2>2, <2>3, <2>4 DEF C!Handler
<1>4. ASSUME NEW c \in Conn, C!TierSpeaks(c) \/ C!AskRun(c) \/ C!Drop(c)
      PROVE  Sockets /\ Listeners
  <2>1. CASE C!Drop(c)
    BY <2>1 DEF C!Drop, Sockets, Listeners
  <2>2. CASE C!StreamFails(c)
    BY <1>1, <2>2 DEF C!StreamFails, C!Unwritten
  <2> QED
    BY <1>1, <1>4, <2>1, <2>2 DEF C!TierSpeaks, C!AskRun, C!TierEnds, C!StreamGate, C!Streamed,
       C!ReleaseAsk, C!RunDone, C!rooms
<1>5. ASSUME NEW l \in Conn, NEW how \in C!Hows, C!PumpSends(l, how)
      PROVE  Sockets /\ Listeners
  BY <1>5, EventIs DEF C!PumpSends, Sockets, Listeners
<1>6. CASE C!PumpTakes \/ C!PumpStops \/ C!Closes \/ C!Pop \/ C!Close
  BY <1>1, <1>6 DEF C!Closes, C!Pop, C!Close, C!PumpTakes, C!PumpStops,
     C!StopRuns, C!RunsGone, C!WaitedEnough, C!rooms
<1> QED
  BY <1>2, <1>3, <1>4, <1>5, <1>6 DEF C!Next, C!Zded, C!Pump

LEMMA RoomStep ==
  ASSUME RoomInv, SocketInv, C!Next
  PROVE  RoomInv'
<1>1. OrderOK'
  BY OrderStep
<1>2. Sockets /\ Listeners
  BY RoomsStep
<1>3. open' \subseteq Conn /\ dropping' \subseteq Conn
  BY <1>2 DEF RoomInv, Sockets
<1>4. IsFiniteSet(subs') /\ Cardinality(subs') <= ListenersMax
  <2>0. IsFiniteSet(subs) /\ Cardinality(subs) <= ListenersMax /\ Cardinality(subs) \in Nat
        /\ ListenersMax \in Nat
    BY RoomAssumption, FS_CardinalityType DEF RoomInv
  <2>1. CASE subs' \subseteq subs
    BY <2>0, <2>1, FS_Subset, FS_CardinalityType
  <2>2. ASSUME NEW c \in Conn, Cardinality(subs) < ListenersMax, subs' = subs \cup {c}
        PROVE  IsFiniteSet(subs') /\ Cardinality(subs') <= ListenersMax
    BY <2>0, <2>2, FS_AddElement
  <2> QED
    BY <1>2, <2>1, <2>2 DEF Listeners
<1> QED
  BY <1>1, <1>3, <1>4 DEF RoomInv

-----------------------------------------------------------------------------
LEMMA ClaimsStay ==
  ASSUME ClaimsInv, UNCHANGED asks,
         \A c \in Conn : run'[c] \in Claiming <=> run[c] \in Claiming
  PROVE  ClaimsInv'
<1>1. Claims' = Claims
  BY DEF Claims
<1> QED
  BY <1>1 DEF ClaimsInv

\* a claim is taken, and given back
LEMMA Claimed ==
  ASSUME ClaimsInv, SocketInv, NEW c \in Conn, run[c] = "no", run' = [run EXCEPT ![c] = "claimed"],
         asks < AsksMax, asks' = asks + 1
  PROVE  ClaimsInv'
<1>1. Claims' = Claims \cup {c} /\ c \notin Claims
  BY DEF Claims, Claiming, SocketInv, SocketTypes
<1>2. IsFiniteSet(Claims') /\ Cardinality(Claims') = Cardinality(Claims) + 1
  BY <1>1, FS_AddElement DEF ClaimsInv
<1>3. Cardinality(Claims) \in Nat
  BY FS_CardinalityType DEF ClaimsInv
<1> QED
  BY <1>2, <1>3, RoomAssumption DEF ClaimsInv

LEMMA GivenBack ==
  ASSUME ClaimsInv, SocketInv, NEW c \in Conn, run[c] \in Claiming, NEW r \in {"no", "released"},
         run' = [run EXCEPT ![c] = r], asks' = asks - 1
  PROVE  ClaimsInv'
<1>1. Claims' = Claims \ {c} /\ c \in Claims
  BY DEF Claims, Claiming, SocketInv, SocketTypes
<1>2. IsFiniteSet(Claims') /\ Cardinality(Claims') = Cardinality(Claims) - 1
  BY <1>1, FS_RemoveElement DEF ClaimsInv
<1>3. Cardinality(Claims) \in Nat
  BY FS_CardinalityType DEF ClaimsInv
<1> QED
  BY <1>2, <1>3, RoomAssumption DEF ClaimsInv

LEMMA ClaimsStep ==
  ASSUME ClaimsInv, SocketInv, C!Next
  PROVE  ClaimsInv'
<1>1. CASE UNCHANGED <<asks, run>>
  BY <1>1, ClaimsStay
<1>2. ASSUME NEW c \in Conn, C!Client(c)
      PROVE  ClaimsInv'
  <2>1. CASE C!Ask(c)
    <3>1. CASE UNCHANGED <<asks, run>>
      BY <1>1, <3>1
    <3>2. CASE ~UNCHANGED <<asks, run>>
      <4>1. /\ c \notin asking /\ ~(asks >= AsksMax) /\ asks' = asks + 1
            /\ run' = [run EXCEPT ![c] = "claimed"] /\ job[c].at = "read"
        BY <2>1, <3>2 DEF C!Ask, C!Reads
      <4>2. run[c] = "no"
        BY <4>1 DEF SocketInv, SocketTypes, AsksInv, AskHolds, AskOK
      <4>3. asks < AsksMax
        BY <4>1, RoomAssumption, FS_CardinalityType DEF ClaimsInv
      <4> QED
        BY <4>1, <4>2, <4>3, Claimed
    <3> QED
      BY <3>1, <3>2
  <2> QED
    BY <1>1, <1>2, <2>1 DEF C!Client, C!Admit, C!Hangup, C!Call, C!Listen, C!Surface, C!Acknowledge, C!asked
<1>3. ASSUME NEW c \in Conn, C!Replied(c) \/ C!ReplyFails(c) \/ C!ReplyGivesUp(c)
      PROVE  ClaimsInv'
  <2>1. UNCHANGED asks /\ (UNCHANGED run \/ \E yes_ \in BOOLEAN :
             run' = [run EXCEPT ![c] = IF yes_ /\ @ = "added" THEN "runs" ELSE @])
    BY <1>3 DEF C!Replied, C!ReplyFails, C!ReplyGivesUp, C!AfterReply
  <2>2. \A d \in Conn : run'[d] \in Claiming <=> run[d] \in Claiming
    BY <2>1 DEF Claiming, SocketInv, SocketTypes
  <2> QED
    BY <2>1, <2>2, ClaimsStay
<1>4. ASSUME NEW c \in Conn, C!StartRun(c)
      PROVE  ClaimsInv'
  <2>1. job[c].at = "start" /\ run[c] = "claimed"
    BY <1>4 DEF C!StartRun, SocketInv, AsksInv, AskHolds, AskOK
  <2>2. \/ asks' = asks /\ run' = [run EXCEPT ![c] = "added"]
        \/ asks' = asks - 1 /\ run' = [run EXCEPT ![c] = "no"]
    BY <1>4 DEF C!StartRun
  <2>3. CASE asks' = asks /\ run' = [run EXCEPT ![c] = "added"]
    <3>1. \A d \in Conn : run'[d] \in Claiming <=> run[d] \in Claiming
      BY <2>1, <2>3 DEF Claiming, SocketInv, SocketTypes
    <3> QED
      BY <2>3, <3>1, ClaimsStay
  <2>4. CASE asks' = asks - 1 /\ run' = [run EXCEPT ![c] = "no"]
    <3>1. run[c] \in Claiming /\ "no" \in {"no", "released"}
      BY <2>1 DEF Claiming
    <3> QED
      BY <2>4, <3>1, GivenBack
  <2> QED
    BY <2>2, <2>3, <2>4
<1>5. ASSUME NEW c \in Conn, C!Handler(c)
      PROVE  ClaimsInv'
  <2>1. ASSUME NEW l \in Conn, NEW how \in C!Hows, C!Send(c, l, how)
        PROVE  ClaimsInv'
    BY <1>1, <2>1 DEF C!Send, C!asked
  <2> QED
    BY <1>1, <1>3, <1>4, <1>5, <2>1 DEF C!Handler, C!Leave, C!TakeGate, C!Await, C!Snapshot, C!Sent,
       C!Shown, C!asked
<1>6. ASSUME NEW c \in Conn, C!ReleaseAsk(c)
      PROVE  ClaimsInv'
  <2>1. run[c] \in Claiming /\ "released" \in {"no", "released"}
        /\ run' = [run EXCEPT ![c] = "released"] /\ asks' = asks - 1
    BY <1>6 DEF C!ReleaseAsk, Claiming
  <2> QED
    BY <2>1, GivenBack
<1>7. ASSUME NEW c \in Conn, C!TierSpeaks(c) \/ C!AskRun(c) \/ C!Drop(c)
      PROVE  ClaimsInv'
  <2>1. CASE C!TierSpeaks(c) \/ C!TierEnds(c) \/ C!Streamed(c) \/ C!StreamFails(c) \/ C!RunDone(c)
    <3>1. gate[c] = "stream" => run[c] \in {"text", "done"}
      BY DEF SocketInv, AsksInv, AskHolds, AskOK
    <3>2. UNCHANGED asks /\ \A d \in Conn : run'[d] \in Claiming <=> run[d] \in Claiming
      BY <2>1, <3>1 DEF C!TierSpeaks, C!TierEnds, C!Streamed, C!StreamFails, C!RunDone, Claiming,
         SocketInv, SocketTypes
    <3> QED
      BY <3>2, ClaimsStay
  <2> QED
    BY <1>1, <1>6, <1>7, <2>1 DEF C!AskRun, C!Drop, C!StreamGate, C!asked
<1>8. ASSUME NEW l \in Conn, NEW how \in C!Hows, C!PumpSends(l, how)
      PROVE  ClaimsInv'
  BY <1>1, <1>8 DEF C!PumpSends, C!asked
<1>9. CASE C!PumpTakes \/ C!PumpStops \/ C!Closes \/ C!Pop \/ C!Close
  BY <1>1, <1>9 DEF C!Closes, C!Pop, C!Close, C!PumpTakes, C!PumpStops,
     C!StopRuns, C!RunsGone, C!WaitedEnough, C!asked
<1> QED
  BY <1>2, <1>5, <1>7, <1>8, <1>9 DEF C!Next, C!Zded, C!Pump

LEMMA PumpStep ==
  ASSUME PumpInv, SocketInv, C!Next
  PROVE  PumpInv'
<1>0. GoesOn
  BY JobsGo
<1>1. ASSUME NEW c \in Conn
      PROVE  job'[c].token <= tokens'
  <2>1. job[c].token <= tokens /\ job[c].token \in Nat /\ tokens \in Nat
    BY DEF PumpInv, SocketInv, TokensInv, SocketTypes, Jobs
  <2>2. tokens' \in Nat /\ tokens <= tokens' /\ job'[c].token \in {0, job[c].token, tokens'}
    BY <1>0 DEF GoesOn
  <2> QED
    BY <2>1, <2>2
<1>2. CASE UNCHANGED <<popups, pump, closing>>
  BY <1>1, <1>2 DEF PumpInv
<1>3. ASSUME NEW c \in Conn, C!Client(c) \/ C!TierSpeaks(c) \/ C!AskRun(c) \/ C!Drop(c)
      PROVE  PumpInv'
  BY <1>2, <1>3 DEF C!Client, C!Admit, C!Hangup, C!Call, C!Listen, C!Surface, C!Ask, C!Acknowledge,
     C!TierSpeaks, C!AskRun, C!Drop, C!TierEnds, C!StreamGate, C!Streamed, C!StreamFails,
     C!ReleaseAsk, C!RunDone, C!popping
<1>4. ASSUME NEW c \in Conn, C!Handler(c)
      PROVE  PumpInv'
  BY <1>2, <1>4 DEF C!Handler, C!Leave, C!TakeGate, C!Replied, C!ReplyFails, C!ReplyGivesUp,
     C!Await, C!Snapshot, C!Send, C!Sent, C!Shown, C!StartRun, C!popping
<1>5. CASE C!Pop
  <2>1. popups' \in 0 .. PopupBacklog
    BY <1>5, RoomAssumption DEF C!Pop, PumpInv
  <2>2. pump' \in [on : {"no", "yes", "stopped"}, todo : SUBSET Conn]
    BY <1>5 DEF C!Pop, PumpInv
  <2>3. closing' \in {"no", "runs", "waits", "done", "gaveup"}
    BY <1>5 DEF C!Pop, PumpInv
  <2> QED
    BY <1>1, <2>1, <2>2, <2>3 DEF PumpInv
<1>6. CASE C!PumpTakes
  <2>1. popups' \in 0 .. PopupBacklog
    BY <1>6, RoomAssumption DEF C!PumpTakes, PumpInv
  <2>2. pump' \in [on : {"no", "yes", "stopped"}, todo : SUBSET Conn]
    BY <1>6 DEF C!PumpTakes, PumpInv, SocketInv, SocketTypes
  <2>3. closing' = closing
    BY <1>6 DEF C!PumpTakes
  <2> QED
    BY <1>1, <2>1, <2>2, <2>3 DEF PumpInv
<1>7. ASSUME NEW l \in Conn, NEW how \in C!Hows, C!PumpSends(l, how)
      PROVE  PumpInv'
  BY <1>1, <1>7 DEF C!PumpSends, PumpInv
<1>8. CASE C!PumpStops
  BY <1>1, <1>8 DEF C!PumpStops, PumpInv
<1>9. CASE C!Closes \/ C!Close
  BY <1>1, <1>9 DEF C!Closes, C!StopRuns, C!RunsGone, C!WaitedEnough, C!Close, C!popping, PumpInv
<1> QED
  BY <1>3, <1>4, <1>5, <1>6, <1>7, <1>8, <1>9 DEF C!Next, C!Zded, C!Pump

-----------------------------------------------------------------------------
HouseInv == SocketInv /\ RoomInv /\ ClaimsInv /\ PumpInv

LEMMA HouseInit ==
  ASSUME Init
  PROVE  HouseInv
<1>0. C!Init
  BY DEF Init
<1>1. IsFiniteSet({}) /\ Cardinality({}) = 0
  BY FS_EmptySet
<1>2. RoomInv
  <2>1. << >> \in Seq(Conn) /\ Len(<< >>) = 0 /\ 1 .. 0 = {}
    OBVIOUS
  <2> QED
    BY <1>0, <1>1, <2>1, RoomAssumption DEF C!Init, RoomInv, OrderOK
<1>3. ClaimsInv
  <2>1. Claims = {}
    BY <1>0 DEF C!Init, Claims, Claiming
  <2> QED
    BY <1>0, <1>1, <2>1, RoomAssumption DEF C!Init, ClaimsInv
<1>4. PumpInv
  <2>1. C!Idle.token = 0
    BY DEF C!Idle
  <2> QED
    BY <1>0, <2>1, RoomAssumption DEF C!Init, PumpInv
<1> QED
  BY <1>2, <1>3, <1>4, SocketInit DEF HouseInv

LEMMA HouseStep ==
  ASSUME HouseInv, [Next]_vars
  PROVE  HouseInv' /\ [Sockets]_C!vars
<1>1. CASE C!Next
  BY <1>1, SocketStep, RoomStep, RoomsStep, ClaimsStep, PumpStep DEF HouseInv
<1>2. CASE UNCHANGED ofC
  <2>1. SocketInv'
    <3>1. /\ UNCHANGED <<job, run, gate, heard, asking, subs, open, closing>>
          /\ UNCHANGED <<tokens, waiting, acked, thanked, drawn>>
      BY <1>2 DEF ofC
    <3> QED
      BY <3>1, UntouchedSocket DEF C!surfaces, HouseInv, SocketInv, SocketTypes
  <2>2. RoomInv' /\ ClaimsInv' /\ PumpInv'
    BY <1>2 DEF ofC, HouseInv, RoomInv, OrderOK, ClaimsInv, Claims, PumpInv
  <2>3. UNCHANGED C!vars
    BY <1>2 DEF ofC, C!vars
  <2> QED
    BY <2>1, <2>2, <2>3 DEF HouseInv
<1> QED
  BY <1>1, <1>2, Zenon DEF Next, vars

LEMMA HouseInductive == Spec => []HouseInv
<1>1. HouseInv /\ [Next]_vars => HouseInv'
  BY HouseStep
<1> QED
  BY <1>1, HouseInit, PTL DEF Spec

(***************************************************************************)
(* A surface is answered as shown when it was drawn in time, and only then *)
(* (surface.go); a connection hears of its asks in order, none of which is *)
(* going once Close has seen them gone (socket.go, ask_run.go); and of the *)
(* places for asks only those are taken that an ask took and has not given *)
(* back (ask_request.go).                                                  *)
(***************************************************************************)
THEOREM ConnectionsAreKept == Spec => []ConnectionsHold
<1>1. HouseInv => ConnectionsHold
  <2> SUFFICES ASSUME HouseInv
               PROVE  ConnectionsHold
    OBVIOUS
  <2>0. SocketInv /\ ClaimsInv
    BY DEF HouseInv
  <2>1. C!ShownIsDrawn
    BY <2>0 DEF SocketInv, TokensInv, SurfaceOK, Showing, C!ShownIsDrawn
  <2>2. ASSUME NEW c \in Conn, NEW i \in 1 .. Len(heard[c])
        PROVE  LET before == IF i = 1 THEN "done" ELSE heard[c][i - 1]
               IN  heard[c][i] = "asking" <=> before = "done"
    <3>1. heard[c][i] = "asking" <=> i = 1 \/ heard[c][i - 1] = "done"
      BY <2>0 DEF SocketInv, AsksInv, AskHolds, AskOK, InTurn
    <3>2. QED
      BY <3>1
  <2>3. C!StreamInOrder
    BY <2>2 DEF C!StreamInOrder
  <2>4. C!StoppedIsQuiet
    BY <2>0 DEF SocketInv, SocketTypes, AsksInv, AskHolds, AskOK, Going, C!StoppedIsQuiet, C!Counted
  <2>5. C!ClaimsReturn
    BY <2>0 DEF ClaimsInv, Claims, Claiming, C!ClaimsReturn, C!Taking, C!Cardinality, Cardinality
  <2>6. QED
    BY <2>1, <2>3, <2>4, <2>5 DEF ConnectionsHold, C!AsksInOrder
<1>2. QED
  BY <1>1, HouseInductive, PTL

\* Whoever was told that an ask goes on, and not yet of its end, is kept.
LEMMA UnfinishedAsks ==
  ASSUME SocketInv, NEW c \in open, c \notin asking, c \in Conn
  PROVE  ~C!Unfinished(c)
<1>1. run[c] \notin Streams
  BY DEF SocketInv, SocketTypes, AsksInv, AskHolds, AskOK, Streams, Going
<1>2. Finished(heard[c])
  BY <1>1 DEF SocketInv, AsksInv, AskHolds, AskOK
<1> QED
  BY <1>2 DEF Finished, C!Unfinished, C!Last

\* An arrival puts out one connection when there is no room, and none before.
LEMMA AdmitPuts ==
  ASSUME RoomInv, NEW c \in Conn, C!Admit(c)
  PROVE  /\ C!Cardinality(C!PutOut(c)) = IF Len(order) = ConnectionsMax THEN 1 ELSE 0
         /\ C!PutOut(c) \cap subs \subseteq {c}
         /\ c \in C!PutOut(c) => C!Held \subseteq C!Exempt
<1> DEFINE s == Append(order, c)
           out == C!Evicted(c, s)
           goes == C!PutOut(c)
<1>1. /\ order \in Seq(Conn) /\ Len(order) \in Nat /\ Len(order) <= ConnectionsMax
      /\ ConnectionsMax \in Nat /\ c \notin C!Held
  <2>1. order \in Seq(Conn) /\ \A i \in 1 .. Len(order) : order[i] # c
    BY DEF C!Admit, RoomInv, OrderOK
  <2>2. c \notin C!Held
    BY <2>1, RangeIsFinite DEF C!Held
  <2> QED
    BY <2>1, <2>2, RoomAssumption DEF RoomInv, OrderOK
<1>2. /\ s \in Seq(Conn) /\ Len(s) = Len(order) + 1
      /\ \A i \in 1 .. Len(s) : s[i] = IF i = Len(order) + 1 THEN c ELSE order[i]
  BY <1>1
<1>3. order' = C!RemoveFirst(s, out)
  BY DEF C!Admit
<1> HIDE DEF s
<1>4. \A i, j \in 1 .. Len(s) : s[i] = s[j] => i = j
  <2> SUFFICES ASSUME NEW i \in 1 .. Len(s), NEW j \in 1 .. Len(s), s[i] = s[j]
               PROVE  i = j
    OBVIOUS
  <2>1. \A k \in 1 .. Len(order) : order[k] # c
    BY <1>1, RangeIsFinite DEF C!Held
  <2>2. i \in 1 .. Len(order) \/ i = Len(order) + 1
    BY <1>1, <1>2
  <2>3. j \in 1 .. Len(order) \/ j = Len(order) + 1
    BY <1>1, <1>2
  <2> QED
    BY <1>2, <2>1, <2>2, <2>3 DEF RoomInv, OrderOK
<1>5. C!Range(s) = C!Held \cup {c}
  <2>1. C!Range(s) = {s[i] : i \in 1 .. Len(s)} /\ C!Held = {order[i] : i \in 1 .. Len(order)}
    BY <1>1, <1>2, RangeIsFinite DEF C!Held
  <2>2. \A i \in 1 .. Len(s) : i \in 1 .. Len(order) \/ i = Len(order) + 1
    BY <1>1, <1>2
  <2>3. \A i \in 1 .. Len(order) : i \in 1 .. Len(s) /\ i # Len(order) + 1
    BY <1>1, <1>2
  <2>4. Len(order) + 1 \in 1 .. Len(s)
    BY <1>1, <1>2
  <2> QED
    BY <1>2, <2>1, <2>2, <2>3, <2>4
<1>6. /\ out \in {None, c} \cup (Conn \ C!Exempt)
      /\ Len(s) > ConnectionsMax => \E i \in 1 .. Len(s) : s[i] = out
      /\ Len(s) <= ConnectionsMax => out = None
      /\ Len(s) > ConnectionsMax /\ out = c =>
           \A i \in 1 .. Len(s) : s[i] = c \/ s[i] \in C!Exempt
  <2>1. \E i \in 1 .. Len(s) : s[i] = c
    BY <1>1, <1>2
  <2> QED
    BY <1>2, <2>1, EvictedIs
<1> HIDE DEF out
<1>7. C!Range(order') = C!Range(s) \ {out}
  <2> DEFINE t == C!RemoveFirst(s, out)
  <2>1. /\ t \in Seq(Conn)
        /\ \A i \in 1 .. Len(t) : t[i] # out /\ \E j \in 1 .. Len(s) : t[i] = s[j]
    BY <1>2, <1>4, FirstGoes
  <2>2. \A i \in 1 .. Len(s) : s[i] # out => \E j \in 1 .. Len(t) : t[j] = s[i]
    <3>1. s \in Seq(Conn)
      BY <1>2
    <3> QED
      BY ONLY <1>4, <3>1, OthersStay
  <2> HIDE DEF t
  <2>3. /\ C!Range(t) = {t[i] : i \in 1 .. Len(t)}
        /\ C!Range(s) = {s[i] : i \in 1 .. Len(s)}
    BY <1>2, <2>1, RangeIsFinite
  <2>4. C!Range(t) = C!Range(s) \ {out}
    BY <2>1, <2>2, <2>3
  <2> QED
    BY <1>3, <2>4 DEF t
<1>8. goes = C!Range(s) \cap {out}
  BY <1>5, <1>7 DEF C!PutOut
<1> HIDE DEF goes
<1>9. C!Range(s) = {s[i] : i \in 1 .. Len(s)} /\ C!Range(s) \subseteq Conn
  BY <1>2, RangeIsFinite
<1>10. CASE Len(order) = ConnectionsMax
  <2>1. Len(s) > ConnectionsMax
    BY <1>1, <1>2, <1>10
  <2>2. goes = {out} /\ out \in Conn
    BY <1>6, <1>8, <1>9, <2>1
  <2>3. C!Cardinality(goes) = 1
    BY <2>2, FS_Singleton DEF C!Cardinality, Cardinality
  <2>4. goes \cap subs \subseteq {c}
    BY <1>6, <2>2, NobodyAssumption DEF C!Exempt
  <2>5. c \in goes => C!Held \subseteq C!Exempt
    BY <1>1, <1>5, <1>6, <1>9, <2>1, <2>2
  <2> QED
    BY <1>10, <2>3, <2>4, <2>5 DEF goes
<1>11. CASE Len(order) # ConnectionsMax
  <2>1. Len(s) <= ConnectionsMax
    BY <1>1, <1>2, <1>11
  <2>2. goes = {}
    BY <1>6, <1>8, <1>9, <2>1, NobodyAssumption
  <2>3. C!Cardinality(goes) = 0
    BY <2>2, FS_EmptySet DEF C!Cardinality, Cardinality
  <2> QED
    BY <1>11, <2>2, <2>3 DEF goes
<1> QED
  BY <1>10, <1>11

(***************************************************************************)
(* Exactly one connection makes room for another when there is none left:  *)
(* no listener, nobody who was told that an ask goes on and not yet of its *)
(* end, and the one arriving only when every other is exempt               *)
(* (connections.go admit, ask_request.go askOn).                           *)
(***************************************************************************)
THEOREM AskedAreKept == Spec => AskedStays
<1> DEFINE Stay == /\ \A c \in dropping' \ dropping : ~C!Unfinished(c)
                   /\ \A c \in Conn : C!Admit(c) =>
                        /\ C!Cardinality(C!PutOut(c)) = IF Len(order) = ConnectionsMax THEN 1 ELSE 0
                        /\ C!PutOut(c) \cap subs \subseteq {c}
                        /\ c \in C!PutOut(c) => C!Held \subseteq C!Exempt
<1>1. HouseInv /\ [Next]_vars => [\A c \in dropping' \ dropping : ~C!Unfinished(c)]_C!vars
  <2> SUFFICES ASSUME HouseInv, [Next]_vars, ~UNCHANGED C!vars,
                      NEW c \in dropping' \ dropping
               PROVE  ~C!Unfinished(c)
    OBVIOUS
  <2>1. Sockets
    BY HouseStep
  <2>2. c \in open /\ c \notin asking /\ c \in Conn
    BY <2>1 DEF Sockets, C!Exempt, HouseInv, RoomInv
  <2> QED
    BY <2>2, UnfinishedAsks DEF HouseInv
<1>2. ASSUME HouseInv, NEW c \in Conn, C!Admit(c)
      PROVE  /\ C!Cardinality(C!PutOut(c)) = IF Len(order) = ConnectionsMax THEN 1 ELSE 0
             /\ C!PutOut(c) \cap subs \subseteq {c}
             /\ c \in C!PutOut(c) => C!Held \subseteq C!Exempt
  BY <1>2, AdmitPuts DEF HouseInv
<1>3. AskedStays <=> [][Stay]_C!vars
  BY DEF AskedStays, C!AskedStays
<1>4. HouseInv /\ [Next]_vars => [Stay]_C!vars
  BY <1>1, <1>2
<1> HIDE DEF Stay
<1> QED
  BY <1>3, <1>4, HouseInductive, PTL DEF Spec

\* The states of the socket are what its module says: no more connections,
\* listeners, asks and popups than there may be (connections.go, socket.go).
LEMMA ConnectionsTypes == HouseInv => C!TypeOK
<1> SUFFICES ASSUME HouseInv  PROVE C!TypeOK
  OBVIOUS
<1>1. C!Held \subseteq Conn
  BY RangeIsFinite DEF C!Held, HouseInv, RoomInv, OrderOK
<1>2. C!IsInjective(order)
  BY DEF C!IsInjective, HouseInv, RoomInv, OrderOK
<1>3. C!Cardinality(subs) <= ListenersMax
  BY DEF C!Cardinality, Cardinality, HouseInv, RoomInv
<1>4. asks \in 0 .. AsksMax
  BY RoomAssumption, FS_CardinalityType DEF HouseInv, ClaimsInv
<1>5. job \in [Conn -> [at : {"none", "left", "read", "answer", "await", "snapshot", "send", "wait", "start"},
                        line : {None, "ok", "yes", "no", "asking"}, token : 0 .. tokens,
                        todo : SUBSET Conn, sent : BOOLEAN, owed : BOOLEAN]]
  <2>1. \A c \in Conn : job[c] \in Jobs /\ job[c].token <= tokens /\ tokens \in Nat
    BY DEF HouseInv, SocketInv, SocketTypes, TokensInv, PumpInv
  <2>2. \A c \in Conn : job[c].token \in 0 .. tokens
    BY <2>1 DEF Jobs
  <2>3. job \in [Conn -> Jobs]
    BY DEF HouseInv, SocketInv, SocketTypes
  <2> QED
    BY <2>1, <2>2, <2>3 DEF Jobs, Places
<1>6. waiting \subseteq 1 .. tokens /\ acked \subseteq 1 .. tokens
  BY DEF HouseInv, SocketInv, TokensInv
<1>7. run \in [Conn -> {"no", "claimed", "added", "runs", "text", "done", "ending", "released"}]
  BY DEF HouseInv, SocketInv, SocketTypes, Going
<1> QED
  BY <1>1, <1>2, <1>3, <1>4, <1>5, <1>6, <1>7
     DEF C!TypeOK, HouseInv, SocketInv, SocketTypes, RoomInv, OrderOK, PumpInv

-----------------------------------------------------------------------------
(***************************************************************************)
(* The states of every service are what its module says: no more is kept,  *)
(* waited for, asked, read or counted than there is room for, and what is  *)
(* referred to exists (zded, clip, bt, bus, link, power, manifest;         *)
(* RequestChannel.qml).                                                    *)
(***************************************************************************)
THEOREM ServicesTypes == Spec => []TypeOK
<1>1. PairingInv => P!TypeOK
  BY DEF PairingInv
<1>2. ChannelInv => H!TypeOK
  BY ChannelPromises
<1>3. /\ HouseInv => C!TypeOK
      /\ ClipInv => B!TypeOK
      /\ BusesInv => D!TypeOK
      /\ JoinsInv => J!TypeOK
      /\ TallyInv => W!TypeOK
      /\ FilesInv /\ ReadingsInv => F!TypeOK
  BY ConnectionsTypes, ClipTypes, ConnectionTypes, JoinsTypes, PowerTypes, FilesTypes
<1>4. HouseInv /\ ClipInv /\ PairingInv /\ BusesInv /\ JoinsInv /\ TallyInv /\ FilesInv /\ ReadingsInv
        /\ ChannelInv => TypeOK
  BY <1>1, <1>2, <1>3 DEF TypeOK
<1>5. QED
  BY <1>4, HouseInductive, ClipInductive, PairingAlways, BusesInductive, JoinsInductive, TallyInductive,
     ReadingsInductive, ChannelInductive, PTL

=============================================================================
