------------------------------ MODULE Pairing -------------------------------
(***************************************************************************)
(* The pairing agent (internal/bt agent.go, bluez.go): bluetoothd asks on  *)
(* goroutines of its own, one question holds the one slot, and a person    *)
(* reads it over the socket, thinks, and answers by the name that was      *)
(* read.  A passkey to type elsewhere is shown with nobody waiting on it.  *)
(* The questions end by an answer, by their own 45 seconds, by Cancel, or  *)
(* when a pairing started here is over; a dead bus brings a new agent.     *)
(*                                                                         *)
(* Every method of the agent holds its mutex and is one step; waiting for  *)
(* the answer, and the timer's call once it is due, are not.  The 45       *)
(* seconds of the waiter and of the timer end at any time.                 *)
(***************************************************************************)
EXTENDS Naturals, FiniteSets

CONSTANTS
  Calls,           \* bluetoothd's calls that may wait for a person
  Devices, Keys,
  PairBudgets,     \* [ask, show, cancel, long, bus]: what the outside may do at most
  None

VARIABLES
  agent,    \* how many agents there have been: one for each connection
  seq,      \* the agent's a.seq
  slot,     \* a.q: [n, id, kind, dev, key] or None; n tells questions apart for good
  asked,    \* history: how many questions there have been
  call,     \* bluetoothd's call -> [at, agent, n, id, ans, lapsed, cleared]
  armed, due,   \* questions whose expiry will fire, or has fired and waits for the mutex
  doing,    \* the long call: [what, dev, at] or None
  seen,     \* the question a person has read: [n, id] or None
  yes,      \* history: the questions a person has said yes to
  yesIDs,   \* history: the names those had
  budget    \* bound: what is left of the outside's

pairing == <<agent, seq, slot, asked, call, armed, due, doing, seen, yes, yesIDs, budget>>
person  == <<seen, yes, yesIDs>>
Takes(what) == budget[what] > 0 /\ budget' = [budget EXCEPT ![what] = @ - 1]
Fresh == [at |-> "none", agent |-> 0, n |-> 0, id |-> 0, ans |-> "none",
          lapsed |-> FALSE, cleared |-> FALSE]
Refused == [Fresh EXCEPT !.at = "refused"]

-----------------------------------------------------------------------------
(***************************************************************************)
(* The slot.                                                               *)
(***************************************************************************)
\* the same passkey arriving again, for every digit typed on the other device
SameShown(d, key) ==
  slot.kind = "display" /\ slot.dev = d /\ slot.key = key

Opens(kind, d, key) ==
  /\ slot = None
  /\ seq' = seq + 1 /\ asked' = asked + 1
  /\ slot' = [n |-> asked', id |-> seq', kind |-> kind, dev |-> d, key |-> key]
  /\ armed' = armed \cup {asked'}

\* close, Clear and ClearShown: whatever holds the slot stops its timer and goes
Frees == slot' = None /\ armed' = armed \ {slot.n}

\* by identity: the slot may hold another question by now
Closes(n) == IF slot # None /\ slot.n = n THEN Frees ELSE UNCHANGED <<slot, armed>>

-----------------------------------------------------------------------------
(***************************************************************************)
(* What bluetoothd calls.                                                  *)
(***************************************************************************)
\* RequestConfirmation, RequestAuthorization, AuthorizeService: ask, then wait;
\* only a passkey's device tells questions apart
Ask(c) ==
  /\ call[c].at = "none" /\ Takes("ask")
  /\ \/ /\ Opens("ask", None, None)
        /\ call' = [call EXCEPT ![c] = [Fresh EXCEPT !.at = "waits", !.agent = agent,
                                                     !.n = asked', !.id = seq']]
     \/ /\ slot # None                         \* a second question is refused
        /\ call' = [call EXCEPT ![c] = Refused]
        /\ UNCHANGED <<seq, asked, slot, armed>>
  /\ UNCHANGED <<agent, due, doing, person>>

Accepted(c) ==
  /\ call[c].at = "waits" /\ call[c].ans # "none"
  /\ call' = [call EXCEPT ![c].at = call[c].ans]
  /\ UNCHANGED <<agent, seq, slot, asked, armed, due, doing, person, budget>>

NobodyAnswered(c) ==
  /\ call[c].at = "waits" /\ call' = [call EXCEPT ![c].at = "no"]
  /\ UNCHANGED <<agent, seq, slot, asked, armed, due, doing, person, budget>>

\* the deferred close, and the reply
Replies(c) ==
  /\ call[c].at \in {"yes", "no"}
  /\ Closes(call[c].n)
  /\ call' = [call EXCEPT ![c] = IF @.at = "yes" THEN [@ EXCEPT !.at = "paired"] ELSE Refused]
  /\ UNCHANGED <<agent, seq, asked, due, doing, person, budget>>

\* DisplayPasskey and DisplayPinCode: shown, refreshed, or refused for being second
Show(d, key) ==
  /\ Takes("show")
  /\ \/ Opens("display", d, key)
     \/ /\ slot # None /\ UNCHANGED <<seq, asked, slot>>
        /\ armed' = IF SameShown(d, key) THEN armed \cup {slot.n} ELSE armed
  /\ UNCHANGED <<agent, call, due, doing, person>>

\* the 45 seconds of a question's own timer are over
Lapses(n) ==
  /\ n \in armed
  /\ armed' = armed \ {n} /\ due' = due \cup {n}
  /\ call' = [c \in Calls |-> IF call[c].n = n THEN [call[c] EXCEPT !.lapsed = TRUE] ELSE call[c]]
  /\ UNCHANGED <<agent, seq, slot, asked, doing, person, budget>>

Expires(n) ==
  /\ n \in due /\ due' = due \ {n}
  /\ Closes(n)
  /\ UNCHANGED <<agent, seq, asked, call, doing, person, budget>>

\* Cancel and Release end whichever question it is
Clear ==
  /\ slot # None /\ Takes("cancel")
  /\ Frees
  /\ call' = [c \in Calls |-> IF call[c].n = slot.n THEN [call[c] EXCEPT !.cleared = TRUE] ELSE call[c]]
  /\ UNCHANGED <<agent, seq, asked, due, doing, person>>

-----------------------------------------------------------------------------
(***************************************************************************)
(* A person, over zded's socket.                                           *)
(***************************************************************************)
\* State reads the question that is pending
Reads ==
  /\ slot # None /\ seen' = [n |-> slot.n, id |-> slot.id]
  /\ UNCHANGED <<agent, seq, slot, asked, call, armed, due, doing, yes, yesIDs, budget>>

\* mutant: a yes lands on whatever holds the slot
AnswerWhatever(id) == {c \in Calls : slot # None /\ call[c].n = slot.n /\ call[c].ans = "none"}

\* Answer: the question in the slot, if that is the one named and it has a yes or no
Answerable(id) ==
  {c \in Calls : slot # None /\ slot.id = id /\ call[c].n = slot.n /\ call[c].ans = "none"}

Says(word) ==
  /\ seen # None
  /\ call' = [c \in Calls |-> IF c \in Answerable(seen.id) THEN [call[c] EXCEPT !.ans = word]
                              ELSE call[c]]
  /\ yes' = IF word = "yes" THEN yes \cup {seen.n} ELSE yes
  /\ yesIDs' = IF word = "yes" THEN yesIDs \cup {seen.id} ELSE yesIDs
  /\ seen' = None
  /\ UNCHANGED <<agent, seq, slot, asked, armed, due, doing, budget>>

\* Pair, Connect, Disconnect and Forget: found, and started one at a time
Starts(what, d) ==
  /\ doing = None /\ Takes("long")
  /\ doing' = [what |-> what, dev |-> d, at |-> "runs"]
  /\ UNCHANGED <<agent, seq, slot, asked, call, armed, due, person>>

\* the call is over: a pairing takes down the passkey shown for its own device
Ends ==
  /\ doing # None /\ doing.at = "runs"
  /\ IF doing.what = "pairing" /\ slot # None /\ slot.kind = "display" /\ slot.dev = doing.dev
     THEN Frees ELSE UNCHANGED <<slot, armed>>
  /\ doing' = [doing EXCEPT !.at = "over"]
  /\ UNCHANGED <<agent, seq, asked, call, due, person, budget>>

Rests ==
  /\ doing # None /\ doing.at = "over" /\ doing' = None
  /\ UNCHANGED <<agent, seq, slot, asked, call, armed, due, person, budget>>

\* the bus restarts, and the next question dials: a client and an agent of its own
Redials ==
  /\ Takes("bus")
  /\ agent' = agent + 1 /\ seq' = 0 /\ slot' = None /\ doing' = None
  /\ armed' = IF slot # None THEN armed \ {slot.n} ELSE armed
  /\ UNCHANGED <<asked, call, due, person>>

-----------------------------------------------------------------------------
InitPairing ==
  /\ agent = 1 /\ seq = 0 /\ slot = None /\ asked = 0
  /\ call = [c \in Calls |-> Fresh]
  /\ armed = {} /\ due = {} /\ doing = None
  /\ seen = None /\ yes = {} /\ yesIDs = {}
  /\ budget \in PairBudgets

NextPairing ==
  \/ \E c \in Calls : Ask(c) \/ Accepted(c) \/ NobodyAnswered(c) \/ Replies(c)
  \/ \E d \in Devices, key \in Keys : Show(d, key)
  \/ \E n \in armed : Lapses(n)
  \/ \E n \in due : Expires(n)
  \/ Clear \/ Reads \/ Ends \/ Rests \/ Redials
  \/ \E word \in {"yes", "no"} : Says(word)
  \/ \E what \in {"pairing", "link"}, d \in Devices : Starts(what, d)

SpecPairing == InitPairing /\ [][NextPairing]_pairing

-----------------------------------------------------------------------------
TypeOK ==
  /\ slot = None \/ slot \in [n : 1 .. asked, id : 1 .. seq, kind : {"ask", "display"},
                              dev : Devices \cup {None}, key : Keys \cup {None}]
  /\ call \in [Calls -> [at : {"none", "waits", "yes", "no", "paired", "refused"},
                         agent : 0 .. agent, n : 0 .. asked, id : 0 .. asked,
                         ans : {"none", "yes", "no"}, lapsed : BOOLEAN, cleared : BOOLEAN]]
  /\ armed \subseteq 1 .. asked /\ due \subseteq 1 .. asked
  /\ doing = None \/ doing \in [what : {"pairing", "link"}, dev : Devices, at : {"runs", "over"}]

\* What is agreed to was said yes to under its name (agent.go Answer).
YesIsByName == \A c \in Calls : call[c].at \in {"yes", "paired"} => call[c].id \in yesIDs

\* A question somebody waits on stays answerable until it is late or called
\* off: nothing else that ends takes it away (agent.go close, ClearShown).
QuestionStands ==
  \A c \in Calls :
    call[c].at = "waits" /\ call[c].agent = agent /\ ~call[c].lapsed /\ ~call[c].cleared =>
      slot # None /\ slot.n = call[c].n

\* Whatever holds the slot will leave it on its own (agent.go, principle 3).
SlotExpires == slot # None => slot.n \in armed \cup due

QuestionsHold == YesIsByName /\ QuestionStands /\ SlotExpires

\* "A yes is spent on the question the person read, or on nothing at all"
\* (agent.go, principle 5): of the question, and not of its number.
YesIsForItsQuestion == \A c \in Calls : call[c].at \in {"yes", "paired"} => call[c].n \in yes

=============================================================================
