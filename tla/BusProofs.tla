----------------------------- MODULE BusProofs ------------------------------
(***************************************************************************)
(* What holds of what zded asks of the system bus: the pairing agent's     *)
(* questions, the connections themselves, the networks that are saved and  *)
(* what is said of power; of what the clipboard history keeps; and of the  *)
(* files zded writes for the session: for any number of callers, devices,  *)
(* dials, attempts, requests, copies, paths and desks, and whatever the    *)
(* budgets, people, power cuts and the world let happen.                   *)
(***************************************************************************)
EXTENDS MCServices, Sequences, FiniteSetTheorems, WellFoundedInduction, TLAPS

-----------------------------------------------------------------------------
\* a set of naturals that is not empty has a least element
LEMMA LeastNumber ==
  ASSUME NEW T \in SUBSET Nat, T # {}
  PROVE  \E x \in T : \A y \in T : x <= y
<1>1. PICK x \in T : \A y \in T : ~(<<y, x>> \in OpToRel(<, Nat))
  <2>1. \E x \in T : \A y \in T : ~(<<y, x>> \in OpToRel(<, Nat))
    BY NatLessThanWellFounded, WFMin
  <2>2. QED
    BY <2>1
<1>2. x \in Nat /\ \A y \in T : y \in Nat /\ ~(y < x)
  BY <1>1 DEF OpToRel
<1>3. QED
  BY <1>2

-----------------------------------------------------------------------------
(***************************************************************************)
(* The pairing agent.  A question has a number of its own for good; its    *)
(* name starts again with every agent.                                     *)
(***************************************************************************)
Waiting == {"none", "waits", "yes", "no", "paired", "refused"}

AskedOf(x) ==
  /\ x.n \in 0 .. asked
  /\ slot # None /\ x.n = slot.n => slot.kind = "ask" /\ x.id = slot.id
  /\ x.n \in due => x.lapsed
  /\ x.ans = "yes" \/ x.at \in {"yes", "paired"} => x.id \in yesIDs
  /\ x.at = "waits" /\ x.agent = agent /\ ~x.lapsed /\ ~x.cleared =>
       slot # None /\ slot.n = x.n

PairingInv ==
  /\ P!TypeOK
  /\ agent \in Nat /\ asked \in Nat /\ seq \in 0 .. asked
  /\ \A x, y \in Calls : call[x].n # 0 /\ call[x].n = call[y].n => x = y
  /\ \A x \in Calls : AskedOf(call[x])
  /\ P!SlotExpires

Held(r, a, n) ==
  r \in [at : Waiting, agent : 0 .. a, n : 0 .. n, id : 0 .. n,
         ans : {"none", "yes", "no"}, lapsed : BOOLEAN, cleared : BOOLEAN]

LEMMA NobodyIsNoQuestion ==
  ASSUME NEW n \in Nat, NEW i \in Nat, NEW k \in {"ask", "display"},
         NEW d \in Devices \cup {None}, NEW key \in Keys \cup {None}
  PROVE  [n |-> n, id |-> i, kind |-> k, dev |-> d, key |-> key] # None
BY NobodyAssumption

\* a question is opened: a new number, a new name and a timer
LEMMA OpensAs ==
  ASSUME PairingInv, NEW k \in {"ask", "display"}, NEW d \in Devices \cup {None},
         NEW key \in Keys \cup {None}, P!Opens(k, d, key)
  PROVE  /\ slot = None /\ slot' # None
         /\ slot' \in [n : 1 .. asked', id : 1 .. seq', kind : {"ask", "display"},
                       dev : Devices \cup {None}, key : Keys \cup {None}]
         /\ slot'.n = asked' /\ slot'.id = seq' /\ slot'.kind = k
         /\ asked' = asked + 1 /\ asked' \in Nat /\ seq' = seq + 1 /\ seq' \in 1 .. asked'
         /\ armed' = armed \cup {asked'}
<1>1. /\ slot = None /\ seq' = seq + 1 /\ asked' = asked + 1 /\ armed' = armed \cup {asked'}
      /\ slot' = [n |-> asked', id |-> seq', kind |-> k, dev |-> d, key |-> key]
  BY DEF P!Opens
<1>2. asked' \in Nat /\ seq' \in Nat /\ seq' \in 1 .. asked' /\ asked' \in 1 .. asked' /\ seq' \in 1 .. seq'
  BY <1>1 DEF PairingInv
<1>3. slot' # None
  BY <1>1, <1>2, NobodyIsNoQuestion
<1>4. QED
  BY <1>1, <1>2, <1>3

LEMMA RefusedAs ==
  ASSUME PairingInv
  PROVE  Held(P!Refused, agent, asked) /\ P!Refused.at = "refused" /\ P!Refused.n = 0 /\ P!Refused.ans = "none"
<1>1. 0 \in 0 .. agent /\ 0 \in 0 .. asked
  BY DEF PairingInv
<1>2. QED
  BY <1>1 DEF P!Refused, P!Fresh, Held, Waiting

LEMMA AskPairing ==
  ASSUME PairingInv, NEW c \in Calls, P!Ask(c)
  PROVE  PairingInv'
<1>1. /\ call[c].at = "none"
      /\ UNCHANGED <<agent, due, doing, seen, yes, yesIDs>>
  BY DEF P!Ask, P!person
<1>2. CASE /\ P!Opens("ask", None, None)
           /\ call' = [call EXCEPT ![c] = [P!Fresh EXCEPT !.at = "waits", !.agent = agent,
                                                          !.n = asked', !.id = seq']]
  <2> DEFINE r == [P!Fresh EXCEPT !.at = "waits", !.agent = agent, !.n = asked', !.id = seq']
  <2>1. /\ slot = None /\ slot' # None
        /\ slot' \in [n : 1 .. asked', id : 1 .. seq', kind : {"ask", "display"},
                      dev : Devices \cup {None}, key : Keys \cup {None}]
        /\ slot'.n = asked' /\ slot'.id = seq' /\ slot'.kind = "ask"
        /\ asked' = asked + 1 /\ asked' \in Nat /\ seq' = seq + 1 /\ seq' \in 1 .. asked'
        /\ armed' = armed \cup {asked'}
    BY <1>2, OpensAs
  <2>2. call' = [call EXCEPT ![c] = r]
    BY <1>2
  <2>3. /\ Held(r, agent', asked') /\ r.at = "waits" /\ r.agent = agent /\ r.n = asked' /\ r.id = seq'
        /\ r.ans = "none" /\ ~r.lapsed /\ ~r.cleared
    <3>1. /\ agent \in 0 .. agent' /\ asked' \in 0 .. asked' /\ seq' \in 0 .. asked'
      BY <1>1, <2>1 DEF PairingInv
    <3>2. QED
      BY <3>1 DEF P!Fresh, Held, Waiting
  <2> HIDE DEF r
  <2>4. P!TypeOK'
    BY <1>1, <2>1, <2>2, <2>3 DEF P!TypeOK, PairingInv, Held, Waiting
  <2>5. (\A x, y \in Calls : call[x].n # 0 /\ call[x].n = call[y].n => x = y)'
    BY <1>1, <2>1, <2>2, <2>3 DEF P!TypeOK, PairingInv, AskedOf
  <2>6. (\A x \in Calls : AskedOf(call[x]))'
    BY <1>1, <2>1, <2>2, <2>3 DEF P!TypeOK, PairingInv, AskedOf
  <2>7. P!SlotExpires'
    BY <2>1 DEF P!SlotExpires
  <2>8. QED
    BY <1>1, <2>1, <2>4, <2>5, <2>6, <2>7 DEF PairingInv
<1>3. CASE /\ call' = [call EXCEPT ![c] = P!Refused]
           /\ UNCHANGED <<seq, asked, slot, armed>>
  <2>1. /\ Held(P!Refused, agent, asked) /\ P!Refused.at = "refused" /\ P!Refused.n = 0
        /\ P!Refused.ans = "none"
    BY RefusedAs
  <2>2. QED
    BY <1>1, <1>3, <2>1 DEF P!TypeOK, PairingInv, AskedOf, P!SlotExpires, Held, Waiting
<1>4. QED
  BY <1>2, <1>3 DEF P!Ask


\* what may be written on a call
LEMMA CallsHeld ==
  ASSUME PairingInv, NEW x \in Calls
  PROVE  /\ Held(call[x], agent, asked)
         /\ Held([call[x] EXCEPT !.lapsed = TRUE], agent, asked)
         /\ Held([call[x] EXCEPT !.cleared = TRUE], agent, asked)
         /\ Held([call[x] EXCEPT !.at = "paired"], agent, asked)
<1>1. Held(call[x], agent, asked)
  BY DEF PairingInv, P!TypeOK, Held, Waiting
<1>2. QED
  BY <1>1 DEF Held, Waiting

LEMMA WaiterPairing ==
  ASSUME PairingInv, NEW c \in Calls, P!Accepted(c) \/ P!NobodyAnswered(c)
  PROVE  PairingInv'
<1>1. /\ call[c].at = "waits"
      /\ UNCHANGED <<agent, seq, slot, asked, armed, due, doing, seen, yes, yesIDs>>
  BY DEF P!Accepted, P!NobodyAnswered, P!person
<1>2. PICK at \in {"yes", "no"} : /\ call' = [call EXCEPT ![c].at = at]
                                  /\ at = "yes" => call[c].ans = "yes"
  BY DEF P!Accepted, P!NobodyAnswered, PairingInv, P!TypeOK
<1>3. P!TypeOK'
  BY <1>1, <1>2 DEF P!TypeOK, PairingInv
<1>4. (\A x, y \in Calls : call[x].n # 0 /\ call[x].n = call[y].n => x = y)'
  BY <1>1, <1>2 DEF P!TypeOK, PairingInv
<1>5. (\A x \in Calls : AskedOf(call[x]))'
  BY <1>1, <1>2 DEF P!TypeOK, PairingInv, AskedOf
<1>6. QED
  BY <1>1, <1>3, <1>4, <1>5 DEF PairingInv, P!SlotExpires

LEMMA RepliesPairing ==
  ASSUME PairingInv, NEW c \in Calls, P!Replies(c)
  PROVE  PairingInv'
<1>1. /\ call[c].at \in {"yes", "no"} /\ P!Closes(call[c].n)
      /\ UNCHANGED <<agent, seq, asked, due, doing, seen, yes, yesIDs>>
  BY DEF P!Replies, P!person
<1>2. /\ slot' = None \/ (slot' = slot /\ armed' = armed)
      /\ slot' = slot \/ (slot # None /\ slot.n = call[c].n)
      /\ armed' \subseteq armed
  BY <1>1 DEF P!Closes, P!Frees
<1>3. PICK r : /\ call' = [call EXCEPT ![c] = r]
               /\ \/ r = [call[c] EXCEPT !.at = "paired"] /\ call[c].at = "yes"
                  \/ r = P!Refused
  BY DEF P!Replies, P!TypeOK, PairingInv
<1>4. CASE r = P!Refused
  <2>1. Held(r, agent, asked) /\ r.at = "refused" /\ r.n = 0 /\ r.ans = "none"
    BY <1>4, RefusedAs
  <2>2. P!TypeOK'
    BY <1>1, <1>2, <1>3, <2>1 DEF P!TypeOK, PairingInv, Held, Waiting
  <2>3. (\A x, y \in Calls : call[x].n # 0 /\ call[x].n = call[y].n => x = y)'
    BY <1>1, <1>3, <2>1 DEF P!TypeOK, PairingInv
  <2>4. (\A x \in Calls : AskedOf(call[x]))'
    BY <1>1, <1>2, <1>3, <2>1 DEF P!TypeOK, PairingInv, AskedOf, Held
  <2>5. QED
    BY <1>1, <1>2, <2>2, <2>3, <2>4 DEF PairingInv, P!SlotExpires
<1>5. CASE r = [call[c] EXCEPT !.at = "paired"] /\ call[c].at = "yes"
  <2>1. /\ Held(r, agent, asked) /\ r.at = "paired" /\ r.n = call[c].n /\ r.ans = call[c].ans
        /\ r.id = call[c].id /\ r.lapsed = call[c].lapsed
    BY <1>5, CallsHeld DEF Held
  <2>2. P!TypeOK'
    BY <1>1, <1>2, <1>3, <2>1 DEF P!TypeOK, PairingInv, Held, Waiting
  <2>3. (\A x, y \in Calls : call[x].n # 0 /\ call[x].n = call[y].n => x = y)'
    BY <1>1, <1>3, <2>1 DEF P!TypeOK, PairingInv
  <2>4. (\A x \in Calls : AskedOf(call[x]))'
    BY <1>1, <1>2, <1>3, <1>5, <2>1 DEF P!TypeOK, PairingInv, AskedOf
  <2>5. QED
    BY <1>1, <1>2, <2>2, <2>3, <2>4 DEF PairingInv, P!SlotExpires
<1>6. QED
  BY <1>3, <1>4, <1>5

LEMMA ShowPairing ==
  ASSUME PairingInv, NEW d \in Devices, NEW key \in Keys, P!Show(d, key)
  PROVE  PairingInv'
<1>1. UNCHANGED <<agent, call, due, doing, seen, yes, yesIDs>>
  BY DEF P!Show, P!person
<1>2. CASE P!Opens("display", d, key)
  <2>1. /\ slot = None /\ slot' # None
        /\ slot' \in [n : 1 .. asked', id : 1 .. seq', kind : {"ask", "display"},
                      dev : Devices \cup {None}, key : Keys \cup {None}]
        /\ slot'.n = asked' /\ slot'.id = seq' /\ slot'.kind = "display"
        /\ asked' = asked + 1 /\ asked' \in Nat /\ seq' = seq + 1 /\ seq' \in 1 .. asked'
        /\ armed' = armed \cup {asked'}
    BY <1>2, OpensAs
  <2>2. P!TypeOK'
    BY <1>1, <2>1 DEF P!TypeOK, PairingInv
  <2>3. (\A x \in Calls : AskedOf(call[x]))'
    BY <1>1, <2>1 DEF P!TypeOK, PairingInv, AskedOf
  <2>4. QED
    BY <1>1, <2>1, <2>2, <2>3 DEF PairingInv, P!SlotExpires
<1>3. CASE /\ slot # None /\ UNCHANGED <<seq, asked, slot>>
           /\ armed' = IF P!SameShown(d, key) THEN armed \cup {slot.n} ELSE armed
  <2>1. P!TypeOK'
    BY <1>1, <1>3 DEF P!TypeOK, PairingInv
  <2>2. QED
    BY <1>1, <1>3, <2>1 DEF PairingInv, AskedOf, P!SlotExpires
<1>4. QED
  BY <1>2, <1>3 DEF P!Show

LEMMA LapsesPairing ==
  ASSUME PairingInv, NEW m \in armed, P!Lapses(m)
  PROVE  PairingInv'
<1>1. /\ armed' = armed \ {m} /\ due' = due \cup {m}
      /\ call' = [x \in Calls |-> IF call[x].n = m THEN [call[x] EXCEPT !.lapsed = TRUE] ELSE call[x]]
      /\ UNCHANGED <<agent, seq, slot, asked, doing, seen, yes, yesIDs>>
  BY DEF P!Lapses, P!person
<1>2. P!TypeOK'
  <2>1. \A x \in Calls : Held(call'[x], agent, asked)
    BY <1>1, CallsHeld
  <2>2. QED
    BY <1>1, <2>1 DEF P!TypeOK, PairingInv, Held, Waiting
<1>3. (\A x, y \in Calls : call[x].n # 0 /\ call[x].n = call[y].n => x = y)'
  BY <1>1 DEF P!TypeOK, PairingInv
<1>4. (\A x \in Calls : AskedOf(call[x]))'
  BY <1>1 DEF P!TypeOK, PairingInv, AskedOf
<1>5. QED
  BY <1>1, <1>2, <1>3, <1>4 DEF PairingInv, P!SlotExpires

\* only a question nobody stands on any more is closed by its timer
LEMMA ExpiresPairing ==
  ASSUME PairingInv, NEW m \in due, P!Expires(m)
  PROVE  PairingInv'
<1>1. /\ due' = due \ {m} /\ P!Closes(m)
      /\ UNCHANGED <<agent, seq, asked, call, doing, seen, yes, yesIDs>>
  BY DEF P!Expires, P!person
<1>2. /\ slot' = None \/ (slot' = slot /\ armed' = armed /\ slot.n # m)
      /\ slot' = slot \/ slot.n = m
      /\ armed' \subseteq armed
  BY <1>1 DEF P!Closes, P!Frees
<1>3. P!TypeOK'
  BY <1>1, <1>2 DEF P!TypeOK, PairingInv
<1>4. (\A x \in Calls : AskedOf(call[x]))'
  BY <1>1, <1>2 DEF P!TypeOK, PairingInv, AskedOf
<1>5. P!SlotExpires'
  BY <1>1, <1>2 DEF PairingInv, P!SlotExpires
<1>6. QED
  BY <1>1, <1>3, <1>4, <1>5 DEF PairingInv

LEMMA ClearPairing ==
  ASSUME PairingInv, P!Clear
  PROVE  PairingInv'
<1>1. /\ slot # None /\ slot' = None /\ armed' = armed \ {slot.n}
      /\ call' = [x \in Calls |-> IF call[x].n = slot.n THEN [call[x] EXCEPT !.cleared = TRUE]
                                  ELSE call[x]]
      /\ UNCHANGED <<agent, seq, asked, due, doing, seen, yes, yesIDs>>
  BY DEF P!Clear, P!Frees, P!person
<1>2. P!TypeOK'
  <2>1. \A x \in Calls : Held(call'[x], agent, asked)
    BY <1>1, CallsHeld
  <2>2. QED
    BY <1>1, <2>1 DEF P!TypeOK, PairingInv, Held, Waiting
<1>3. (\A x, y \in Calls : call[x].n # 0 /\ call[x].n = call[y].n => x = y)'
  BY <1>1 DEF P!TypeOK, PairingInv
<1>4. (\A x \in Calls : AskedOf(call[x]))'
  BY <1>1 DEF P!TypeOK, PairingInv, AskedOf
<1>5. QED
  BY <1>1, <1>2, <1>3, <1>4 DEF PairingInv, P!SlotExpires

\* a yes goes to the call that has the name and nothing else
LEMMA SaysPairing ==
  ASSUME PairingInv, NEW word \in {"yes", "no"}, P!Says(word)
  PROVE  PairingInv'
<1>1. /\ call' = [x \in Calls |-> IF x \in P!Answerable(seen.id)
                                  THEN [call[x] EXCEPT !.ans = word] ELSE call[x]]
      /\ yesIDs' = (IF word = "yes" THEN yesIDs \cup {seen.id} ELSE yesIDs)
      /\ UNCHANGED <<agent, seq, slot, asked, armed, due, doing>>
  BY DEF P!Says
<1>2. \A x \in P!Answerable(seen.id) : slot # None /\ call[x].n = slot.n /\ slot.id = seen.id
  BY DEF P!Answerable
<1>3. P!TypeOK'
  BY <1>1 DEF P!TypeOK, PairingInv
<1>4. (\A x, y \in Calls : call[x].n # 0 /\ call[x].n = call[y].n => x = y)'
  BY <1>1 DEF P!TypeOK, PairingInv
<1>5. (\A x \in Calls : AskedOf(call[x]))'
  BY <1>1, <1>2 DEF P!TypeOK, PairingInv, AskedOf
<1>6. QED
  BY <1>1, <1>3, <1>4, <1>5 DEF PairingInv, P!SlotExpires

\* the end of a pairing takes down what was shown, and never a question
LEMMA LongPairing ==
  ASSUME PairingInv, P!Ends \/ P!Rests \/ (\E what \in {"pairing", "link"}, d \in Devices : P!Starts(what, d))
  PROVE  PairingInv'
<1>1. UNCHANGED <<agent, seq, asked, call, due, seen, yes, yesIDs>>
  BY DEF P!Ends, P!Rests, P!Starts, P!person
<1>2. /\ \/ slot' = slot /\ armed' = armed
         \/ slot' = None /\ slot.kind = "display" /\ slot # None
      /\ armed' \subseteq armed
  BY DEF P!Ends, P!Rests, P!Starts, P!Frees
<1>3. doing' = None \/ doing' \in [what : {"pairing", "link"}, dev : Devices, at : {"runs", "over"}]
  BY DEF P!Ends, P!Rests, P!Starts, PairingInv, P!TypeOK
<1>4. P!TypeOK'
  BY <1>1, <1>2, <1>3 DEF P!TypeOK, PairingInv
<1>5. (\A x \in Calls : AskedOf(call[x]))'
  BY <1>1, <1>2 DEF P!TypeOK, PairingInv, AskedOf
<1>6. QED
  BY <1>1, <1>2, <1>4, <1>5 DEF PairingInv, P!SlotExpires

\* a new agent has asked nobody yet
LEMMA RedialsPairing ==
  ASSUME PairingInv, P!Redials
  PROVE  PairingInv'
<1>1. /\ agent' = agent + 1 /\ seq' = 0 /\ slot' = None /\ doing' = None
      /\ armed' \subseteq armed
      /\ UNCHANGED <<asked, call, due, seen, yes, yesIDs>>
  BY DEF P!Redials, P!person
<1>2. P!TypeOK'
  BY <1>1 DEF P!TypeOK, PairingInv
<1>3. (\A x \in Calls : AskedOf(call[x]))'
  BY <1>1 DEF P!TypeOK, PairingInv, AskedOf
<1>4. QED
  BY <1>1, <1>2, <1>3 DEF PairingInv, P!SlotExpires

LEMMA PairingStep ==
  ASSUME PairingInv, [P!NextPairing]_ofP
  PROVE  PairingInv'
<1>1. CASE UNCHANGED ofP
  BY <1>1 DEF ofP, PairingInv, AskedOf, P!TypeOK, P!SlotExpires
<1>2. CASE P!Reads
  BY <1>2 DEF P!Reads, PairingInv, AskedOf, P!TypeOK, P!SlotExpires
<1>3. CASE P!NextPairing
  BY <1>2, <1>3, AskPairing, WaiterPairing, RepliesPairing, ShowPairing, LapsesPairing,
     ExpiresPairing, ClearPairing, SaysPairing, LongPairing, RedialsPairing
  DEF P!NextPairing
<1>4. QED
  BY <1>1, <1>3

LEMMA PairingInit ==
  ASSUME P!InitPairing
  PROVE  PairingInv
<1>1. /\ agent = 1 /\ seq = 0 /\ slot = None /\ asked = 0 /\ call = [x \in Calls |-> P!Fresh]
      /\ armed = {} /\ due = {} /\ doing = None
  BY DEF P!InitPairing
<1>2. P!Fresh = [at |-> "none", agent |-> 0, n |-> 0, id |-> 0, ans |-> "none",
                 lapsed |-> FALSE, cleared |-> FALSE]
  BY DEF P!Fresh
<1>3. P!TypeOK
  BY <1>1, <1>2 DEF P!TypeOK
<1>4. QED
  BY <1>1, <1>2, <1>3 DEF PairingInv, AskedOf, P!SlotExpires

\* The session as a whole, of any of its services: nothing but the agent touches the agent's.
LEMMA PairingAlways ==
  Spec => []PairingInv
<1>1. Init => PairingInv
  BY PairingInit DEF Init
<1>2. PairingInv /\ [Next]_vars => PairingInv'
  <2>1. [Next]_vars => [P!NextPairing]_ofP
    BY DEF Next, vars, ofP
  <2>2. QED
    BY <2>1, PairingStep
<1>3. QED
  BY <1>1, <1>2, PTL DEF Spec

\* A pairing question is answered by name, stands until it is late or called off, and
\* whatever holds the slot will leave it (agent.go close, ClearShown, principle 3).
THEOREM QuestionsAreKept ==
  Spec => []QuestionsHold
<1>1. PairingInv => QuestionsHold
  BY DEF PairingInv, AskedOf, QuestionsHold, P!QuestionsHold, P!YesIsByName, P!QuestionStands
<1>2. QED
  BY <1>1, PairingAlways, PTL

-----------------------------------------------------------------------------
(***************************************************************************)
(* The connections to the system bus.                                      *)
(***************************************************************************)
Dialling == {"drops", "opening", "shaking", "checking", "publish"}
Up == {"socket", "open", "live", "dead"}

Conns(g) == [at : {"none", "socket", "open", "live", "dead", "closed"},
             kind : D!Kinds, gone : 0 .. g]
Hands(m, g) == [at : Dialling \cup {"none", "awaits"}, kind : D!Kinds,
                conn : 0 .. m, old : 0 .. m, gone : 0 .. g]

\* whoever dials holds that kind's lock, nothing of the kind is kept meanwhile, and
\* what is dialled is in nobody else's hands
DialOK(t) ==
  LET i == ask[t].conn
  IN  /\ ask[t].at \in Dialling => held[ask[t].kind] = t /\ have[ask[t].kind] = 0
      /\ ask[t].at = "drops" => ask[t].kind = "radio" /\ i = 0
      /\ ask[t].at # "drops" => ask[t].old = 0
      /\ ask[t].at \in Dialling \ {"drops"} =>
           /\ i \in 1 .. made /\ i \notin reaped
           /\ conn[i].kind = ask[t].kind /\ conn[i].gone = ask[t].gone
      /\ ask[t].at = "opening" => conn[i].at \in {"socket", "open", "closed"}

\* whatever is up is kept, or somebody has it in hand
InHandOf(i, t) ==
  /\ ask[t].at \in Dialling /\ ask[t].kind = conn[i].kind
  /\ i \in {ask[t].conn, ask[t].old}

Owned(i) ==
  conn[i].at \in Up =>
    i \in reaped \/ i = closer \/ have[conn[i].kind] = i \/ (\E t \in Asker : InHandOf(i, t))

BusesInv ==
  /\ conn \in [1 .. Dials -> Conns(gone)] /\ made \in 0 .. Dials /\ gone \in Nat
  /\ have \in [D!Kinds -> 0 .. made] /\ held \in [D!Kinds -> Asker \cup {None}]
  /\ absent \in [D!Kinds -> {"no", "fresh", "old"}]
  /\ reaped \subseteq 1 .. made /\ closer \in 0 .. made
  /\ ask \in [Asker -> Hands(made, gone)]
  /\ \A t \in Asker : DialOK(t)
  /\ \A i \in reaped : conn[i].at \in {"socket", "open", "closed"}
  /\ \A k \in D!Kinds : have[k] # 0 => conn[have[k]].kind = k
  /\ \A i \in 1 .. Dials : i > made => conn[i].at = "none"
  /\ \A i \in 1 .. made : Owned(i)
  /\ D!GivenUpStays

LEMMA BusTypes ==
  ASSUME BusesInv
  PROVE  /\ \A i \in 1 .. Dials : conn[i].kind \in D!Kinds /\ conn[i].gone \in 0 .. gone
         /\ \A t \in Asker : /\ ask[t].at \in Dialling \cup {"none", "awaits"}
                             /\ ask[t].kind \in D!Kinds /\ ask[t].conn \in 0 .. made
                             /\ ask[t].old \in 0 .. made /\ ask[t].gone \in 0 .. gone
         /\ made \in Nat /\ \A i \in 0 .. made : i \in 0 .. Dials
         /\ \A i \in 1 .. made : i \in 1 .. Dials /\ i \in 0 .. made
<1>1. made \in Nat /\ \A i \in 0 .. made : i \in 0 .. Dials
  BY DialsAssumption DEF BusesInv
<1>2. \A i \in 1 .. made : i \in 1 .. Dials /\ i \in 0 .. made
  BY <1>1, DialsAssumption DEF BusesInv
<1>3. QED
  BY <1>1, <1>2 DEF BusesInv, Conns, Hands

\* where one connection goes, with the others as they were
LEMMA GoesTo ==
  ASSUME BusesInv, NEW i \in 1 .. Dials, NEW s \in Up \cup {"none", "closed"}
  PROVE  /\ [conn EXCEPT ![i].at = s] \in [1 .. Dials -> Conns(gone)]
         /\ \A j \in 1 .. Dials :
              /\ [conn EXCEPT ![i].at = s][j].kind = conn[j].kind
              /\ [conn EXCEPT ![i].at = s][j].gone = conn[j].gone
              /\ [conn EXCEPT ![i].at = s][j].at = IF j = i THEN s ELSE conn[j].at
<1> DEFINE r == [conn[i] EXCEPT !.at = s]
<1>1. conn \in [1 .. Dials -> Conns(gone)]
  BY DEF BusesInv
<1>2. r \in Conns(gone) /\ r.at = s /\ r.kind = conn[i].kind /\ r.gone = conn[i].gone
  BY <1>1 DEF Conns, Up
<1>3. [conn EXCEPT ![i].at = s] = [conn EXCEPT ![i] = r]
  OBVIOUS
<1> HIDE DEF r
<1>4. QED
  BY <1>1, <1>2, <1>3

LEMMA ClosedAs ==
  ASSUME BusesInv, NEW i \in 0 .. Dials
  PROVE  /\ D!Closed(i, conn) \in [1 .. Dials -> Conns(gone)]
         /\ \A j \in 1 .. Dials :
              /\ D!Closed(i, conn)[j].kind = conn[j].kind
              /\ D!Closed(i, conn)[j].gone = conn[j].gone
              /\ D!Closed(i, conn)[j].at = IF j = i THEN "closed" ELSE conn[j].at
<1>1. CASE i = 0
  BY <1>1 DEF BusesInv, D!Closed
<1>2. CASE i \in 1 .. Dials
  BY <1>2, DialsAssumption, GoesTo, "closed" \in Up \cup {"none", "closed"} DEF D!Closed
<1>3. QED
  BY <1>1, <1>2, DialsAssumption

\* one asker at a time dials a kind
LEMMA OneDials ==
  ASSUME BusesInv, NEW t \in Asker, NEW u \in Asker,
         ask[t].at \in Dialling, ask[u].at \in Dialling, ask[t].kind = ask[u].kind
  PROVE  t = u
BY DEF BusesInv, DialOK

-----------------------------------------------------------------------------
(***************************************************************************)
(* Asking.                                                                 *)
(***************************************************************************)
LEMMA DoneIs ==
  ASSUME NEW m \in Nat, NEW g \in Nat
  PROVE  /\ D!Done \in Hands(m, g)
         /\ D!Done.at = "none" /\ D!Done.kind = "radio"
         /\ D!Done.conn = 0 /\ D!Done.old = 0 /\ D!Done.gone = 0
<1>1. 0 \in 0 .. m /\ 0 \in 0 .. g /\ "none" \in Dialling \cup {"none", "awaits"} /\ "radio" \in D!Kinds
  BY DEF D!Kinds
<1>2. QED
  BY <1>1 DEF Hands, D!Done

LEMMA AsksRadioBuses ==
  ASSUME BusesInv, NEW t \in Asker, D!AsksRadio(t)
  PROVE  BusesInv'
<1> DEFINE a == [D!Done EXCEPT !.at = "drops", !.old = have["radio"], !.gone = gone]
<1>1. /\ ask[t].at = "none" /\ held["radio"] = None
      /\ held' = [held EXCEPT !["radio"] = t] /\ have' = [have EXCEPT !["radio"] = 0]
      /\ ask' = [ask EXCEPT ![t] = a]
      /\ UNCHANGED <<conn, made, gone, absent, reaped, closer>>
  BY DEF D!AsksRadio
<1>2. /\ a.at = "drops" /\ a.kind = "radio" /\ a.conn = 0 /\ a.old = have["radio"] /\ a.gone = gone
      /\ a \in Hands(made, gone) /\ "radio" \in D!Kinds
  <2>1. /\ "radio" \in D!Kinds /\ have["radio"] \in 0 .. made /\ made \in Nat /\ gone \in Nat
        /\ gone \in 0 .. gone /\ "drops" \in Dialling \cup {"none", "awaits"}
    BY BusTypes DEF BusesInv, D!Kinds, Dialling
  <2>2. D!Done \in Hands(made, gone) /\ D!Done.kind = "radio" /\ D!Done.conn = 0
    BY <2>1, DoneIs
  <2>3. QED
    BY <2>1, <2>2 DEF Hands
<1> HIDE DEF a
<1>3. /\ have' \in [D!Kinds -> 0 .. made] /\ held' \in [D!Kinds -> Asker \cup {None}]
      /\ ask' \in [Asker -> Hands(made, gone)]
      /\ \A k \in D!Kinds : /\ have'[k] = IF k = "radio" THEN 0 ELSE have[k]
                            /\ held'[k] = IF k = "radio" THEN t ELSE held[k]
      /\ \A u \in Asker : ask'[u] = IF u = t THEN a ELSE ask[u]
  BY <1>1, <1>2, BusTypes DEF BusesInv
<1>4. ASSUME NEW u \in Asker
      PROVE  DialOK(u)'
  BY <1>1, <1>2, <1>3, <1>4, BusTypes, NobodyAssumption DEF BusesInv, DialOK, Dialling
<1>5. ASSUME NEW i \in 1 .. made
      PROVE  Owned(i)'
  <2>1. CASE have[conn[i].kind] = i /\ conn[i].kind = "radio"
    BY <1>1, <1>2, <1>3, <2>1, BusTypes DEF Owned, InHandOf, Dialling
  <2>2. CASE have[conn[i].kind] = i /\ conn[i].kind # "radio"
    BY <1>1, <1>3, <2>2, BusTypes DEF Owned
  <2>3. ASSUME NEW u \in Asker, InHandOf(i, u)
        PROVE  InHandOf(i, u)'
    BY <1>1, <1>3, <2>3 DEF InHandOf, Dialling
  <2>4. QED
    BY <1>1, <2>1, <2>2, <2>3 DEF BusesInv, Owned
<1>6. D!GivenUpStays'
  BY <1>1 DEF D!GivenUpStays, BusesInv, D!Kinds
<1>7. QED
  BY <1>1, <1>3, <1>4, <1>5, <1>6 DEF BusesInv


\* a dial begins: what went before it is closed, and its socket is asked for
Begins(t, k, o) ==
  LET m == made + 1
  IN  /\ made < Dials /\ made' = m
      /\ \/ ask[t].at = "none" /\ held[k] = None /\ o = have[k]
         \/ ask[t].at = "drops" /\ ask[t].kind = k /\ o = ask[t].old
      /\ conn' \in [1 .. Dials -> Conns(gone)]
      /\ conn'[m].at = "socket" /\ conn'[m].kind = k /\ conn'[m].gone = ask'[t].gone
      /\ \A j \in 1 .. Dials : j # m => conn'[j] = D!Closed(o, conn)[j]
      /\ ask' \in [Asker -> Hands(m, gone)]
      /\ ask'[t].at = "opening" /\ ask'[t].kind = k /\ ask'[t].conn = m /\ ask'[t].old = 0
      /\ \A u \in Asker \ {t} : ask'[u] = ask[u]
      /\ held' = [held EXCEPT ![k] = t] /\ have' = [have EXCEPT ![k] = 0]
      /\ absent' = absent /\ UNCHANGED <<gone, reaped, closer>>

LEMMA DialBegins ==
  ASSUME BusesInv, NEW t \in Asker, NEW k \in D!Kinds, NEW o \in 0 .. made, Begins(t, k, o)
  PROVE  BusesInv'
<1> DEFINE m == made + 1
<1>0. /\ made < Dials /\ made' = m
      /\ \/ ask[t].at = "none" /\ held[k] = None /\ o = have[k]
         \/ ask[t].at = "drops" /\ ask[t].kind = k /\ o = ask[t].old
      /\ conn' \in [1 .. Dials -> Conns(gone)]
      /\ conn'[m].at = "socket" /\ conn'[m].kind = k /\ conn'[m].gone = ask'[t].gone
      /\ \A j \in 1 .. Dials : j # m => conn'[j] = D!Closed(o, conn)[j]
      /\ ask' \in [Asker -> Hands(m, gone)]
      /\ ask'[t].at = "opening" /\ ask'[t].kind = k /\ ask'[t].conn = m /\ ask'[t].old = 0
      /\ \A u \in Asker \ {t} : ask'[u] = ask[u]
      /\ held' = [held EXCEPT ![k] = t] /\ have' = [have EXCEPT ![k] = 0]
      /\ absent' = absent /\ UNCHANGED <<gone, reaped, closer>>
  BY DEF Begins
<1>1. /\ made \in Nat /\ Dials \in Nat /\ gone \in Nat /\ m \in 1 .. Dials /\ m \in 1 .. m /\ m \in 0 .. Dials
      /\ \A i \in 0 .. made : i \in 0 .. m /\ i # m
      /\ \A i \in 1 .. made : i \in 1 .. m /\ i \in 1 .. Dials /\ i # m
      /\ \A i \in 1 .. m : i = m \/ i \in 1 .. made
  <2>1. made \in Nat /\ Dials \in Nat /\ gone \in Nat /\ made < Dials
    BY <1>0, DialsAssumption, BusTypes DEF BusesInv
  <2>2. QED
    BY <2>1
<1> HIDE DEF m
<1>2. /\ D!Closed(o, conn) \in [1 .. Dials -> Conns(gone)]
      /\ \A j \in 1 .. Dials :
           /\ D!Closed(o, conn)[j].kind = conn[j].kind /\ D!Closed(o, conn)[j].gone = conn[j].gone
           /\ D!Closed(o, conn)[j].at = IF j = o THEN "closed" ELSE conn[j].at
  BY BusTypes, ClosedAs
<1>3. /\ \A j \in 1 .. made : /\ conn'[j].kind = conn[j].kind /\ conn'[j].gone = conn[j].gone
                              /\ conn'[j].at = IF j = o THEN "closed" ELSE conn[j].at
      /\ \A j \in 1 .. Dials : j > m => conn'[j].at = "none"
  <2>1. \A j \in 1 .. Dials : j > m => j # m /\ j # o /\ conn[j].at = "none"
    BY <1>0, <1>1 DEF BusesInv, m
  <2>2. /\ \A j \in 1 .. Dials : j # m => conn'[j] = D!Closed(o, conn)[j]
        /\ \A j \in 1 .. made : j \in 1 .. Dials /\ j # m
    BY <1>0, <1>1
  <2>3. ASSUME NEW j \in 1 .. made
        PROVE  /\ conn'[j].kind = conn[j].kind /\ conn'[j].gone = conn[j].gone
               /\ conn'[j].at = IF j = o THEN "closed" ELSE conn[j].at
    BY <1>2, <2>2
  <2>4. ASSUME NEW j \in 1 .. Dials, j > m
        PROVE  conn'[j].at = "none"
    BY <1>2, <2>1, <2>2, <2>4
  <2>5. QED
    BY <2>3, <2>4
<1>4. /\ have' \in [D!Kinds -> 0 .. m] /\ held' \in [D!Kinds -> Asker \cup {None}]
      /\ \A j \in D!Kinds : /\ have'[j] = IF j = k THEN 0 ELSE have[j]
                            /\ held'[j] = IF j = k THEN t ELSE held[j]
  <2>1. /\ have \in [D!Kinds -> 0 .. made] /\ held \in [D!Kinds -> Asker \cup {None}]
    BY DEF BusesInv
  <2>2. /\ have' = [have EXCEPT ![k] = 0] /\ held' = [held EXCEPT ![k] = t]
    BY <1>0
  <2>3. 0 \in 0 .. m /\ \A i \in 0 .. made : i \in 0 .. m
    BY <1>1
  <2>4. QED
    BY <2>1, <2>2, <2>3
<1>5. reaped' \subseteq 1 .. m /\ closer' \in 0 .. m /\ m \notin reaped
  BY <1>0, <1>1 DEF BusesInv
<1>6. ASSUME NEW u \in Asker
      PROVE  DialOK(u)'
  <2>1. CASE u = t
    <3>1. /\ held'[k] = t /\ have'[k] = 0 /\ m \in 1 .. made' /\ m \notin reaped'
      BY <1>0, <1>1, <1>4, <1>5
    <3>2. DialOK(t)'
      BY <1>0, <3>1 DEF DialOK
    <3>3. QED
      BY <2>1, <3>2 DEF DialOK
  <2>2. CASE u # t
    <3>1. ask[u].at \in Dialling => ask[u].kind # k /\ ask[u].kind \in D!Kinds
      BY <1>0, <2>2, BusTypes, NobodyAssumption DEF BusesInv, DialOK, Dialling
    <3>2. ask'[u] = ask[u] /\ DialOK(u)
      BY <1>0, <1>4, <2>2 DEF BusesInv
    <3>3. /\ ask'[u] = ask[u] /\ made' = m /\ reaped' = reaped
          /\ ask[u].at \in Dialling =>
               held'[ask[u].kind] = held[ask[u].kind] /\ have'[ask[u].kind] = have[ask[u].kind]
          /\ \A i \in 1 .. made : i \in 1 .. m
      BY <1>0, <1>1, <1>4, <3>1, <3>2
    <3>4. QED
      BY <1>3, <3>2, <3>3 DEF DialOK, Dialling
  <2>3. QED
    BY <2>1, <2>2
<1>7. ASSUME NEW i \in 1 .. m
      PROVE  Owned(i)'
  <2>1. CASE i = m
    BY <1>0, <1>3, <1>4, <2>1 DEF Owned, InHandOf, Dialling
  <2>2. CASE i \in 1 .. made /\ i # o
    <3>1. ASSUME NEW u \in Asker, InHandOf(i, u)
          PROVE  InHandOf(i, u)'
      <4>1. u # t
        BY <1>0, <1>1, <2>2, <3>1 DEF BusesInv, DialOK, InHandOf, Dialling
      <4>2. QED
        BY <1>0, <1>3, <1>4, <2>2, <3>1, <4>1 DEF InHandOf
    <3>2. have[conn[i].kind] = i => have'[conn[i].kind] = i
      BY <1>0, <1>1, <1>4, <2>2, BusTypes DEF BusesInv, DialOK, Dialling
    <3>3. QED
      BY <1>0, <1>3, <2>2, <3>1, <3>2 DEF BusesInv, Owned
  <2>3. CASE i \in 1 .. made /\ i = o
    BY <1>0, <1>3, <2>3 DEF Owned, Up
  <2>4. QED
    BY <1>1, <2>1, <2>2, <2>3
<1>8. \A j \in D!Kinds : have'[j] # 0 => have[j] \in 1 .. made /\ have'[j] = have[j]
  BY <1>0, <1>1, <1>4 DEF BusesInv
<1>9. D!GivenUpStays'
  <2>1. "radio" \in D!Kinds /\ D!GivenUpStays /\ gone' = gone
    BY <1>0 DEF BusesInv, D!Kinds
  <2>2. QED
    BY <1>3, <1>8, <2>1 DEF D!GivenUpStays
<1>10. (\A j \in D!Kinds : have[j] # 0 => conn[have[j]].kind = j)'
  <2>1. \A j \in D!Kinds : have[j] # 0 => conn[have[j]].kind = j
    BY DEF BusesInv
  <2>2. QED
    BY <1>3, <1>8, <2>1
<1>11. (\A i \in reaped : conn[i].at \in {"socket", "open", "closed"})'
  <2>1. reaped' = reaped
    BY <1>0
  <2>2. \A i \in reaped : i \in 1 .. made /\ conn[i].at \in {"socket", "open", "closed"}
    BY DEF BusesInv
  <2>3. \A i \in 1 .. made : conn'[i].at = IF i = o THEN "closed" ELSE conn[i].at
    BY <1>3
  <2>4. QED
    BY <2>1, <2>2, <2>3
<1>12. QED
  BY <1>0, <1>1, <1>3, <1>4, <1>5, <1>6, <1>7, <1>9, <1>10, <1>11 DEF BusesInv

LEMMA DialsRadioBuses ==
  ASSUME BusesInv, NEW t \in Asker, D!DialsRadio(t)
  PROVE  BusesInv'
<1> DEFINE m == made + 1
           r == [at |-> "socket", kind |-> "radio", gone |-> ask[t].gone]
           a == [ask[t] EXCEPT !.at = "opening", !.conn = m, !.old = 0]
<1>1. /\ ask[t].at = "drops" /\ made < Dials /\ made' = m
      /\ conn' = [D!Closed(ask[t].old, conn) EXCEPT ![m] = r]
      /\ ask' = [ask EXCEPT ![t].at = "opening", ![t].conn = m, ![t].old = 0]
      /\ absent' = absent /\ UNCHANGED <<have, held, gone, reaped, closer>>
  BY DEF D!DialsRadio
<1>3. /\ m \in 0 .. m /\ 0 \in 0 .. m /\ made \in Nat /\ \A i \in 0 .. made : i \in 0 .. m
      /\ "opening" \in Dialling \cup {"none", "awaits"} /\ "radio" \in D!Kinds
  BY BusTypes DEF Dialling, D!Kinds
<1>4. ask[t] \in Hands(m, gone)
  BY <1>3 DEF BusesInv, Hands
<1>5. /\ a \in Hands(m, gone) /\ a.at = "opening" /\ a.kind = ask[t].kind
      /\ a.conn = m /\ a.old = 0 /\ a.gone = ask[t].gone
  BY <1>3, <1>4 DEF Hands
<1>6. r \in Conns(gone) /\ r.at = "socket" /\ r.kind = "radio" /\ r.gone = a.gone
  BY <1>3, <1>5, BusTypes DEF Conns
<1>7. ask[t].kind = "radio" /\ held["radio"] = t /\ have["radio"] = 0 /\ ask[t].old \in 0 .. made
  BY <1>1, BusTypes DEF BusesInv, DialOK, Dialling
<1>8. held' = [held EXCEPT !["radio"] = t] /\ have' = [have EXCEPT !["radio"] = 0]
  BY <1>1, <1>7 DEF BusesInv
<1>9. ask' \in [Asker -> Hands(m, gone)] /\ ask'[t] = a /\ \A u \in Asker \ {t} : ask'[u] = ask[u]
  <2>1. \A u \in Asker : ask[u] \in Hands(m, gone)
    BY <1>3 DEF BusesInv, Hands
  <2>2. ask' = [ask EXCEPT ![t] = a]
    BY <1>1 DEF BusesInv, Hands
  <2> HIDE DEF a
  <2>3. QED
    BY <1>5, <2>1, <2>2 DEF BusesInv
<1>10. /\ conn' \in [1 .. Dials -> Conns(gone)] /\ conn'[m] = r
       /\ \A j \in 1 .. Dials : j # m => conn'[j] = D!Closed(ask[t].old, conn)[j]
  <2> HIDE DEF r
  <2>1. D!Closed(ask[t].old, conn) \in [1 .. Dials -> Conns(gone)] /\ m \in 1 .. Dials
    BY <1>1, <1>3, <1>7, ClosedAs, BusTypes, DialsAssumption
  <2>2. QED
    BY <1>1, <1>6, <2>1
<1> HIDE DEF r, a
<1>11. Begins(t, "radio", ask[t].old)
  BY <1>1, <1>5, <1>6, <1>7, <1>8, <1>9, <1>10 DEF Begins
<1>12. QED
  BY <1>3, <1>7, <1>11, DialBegins

\* what is kept is given up and closed; whoever asks for it has nothing in hand
Drops(k) ==
  /\ conn' = D!Closed(have[k], conn) /\ have' = [have EXCEPT ![k] = 0]
  /\ ask' \in [Asker -> Hands(made, gone)]
  /\ \A u \in Asker : \/ ask'[u] = ask[u]
                      \/ /\ ask[u].at \notin Dialling
                         /\ ask'[u].at \in {"none", "awaits"} /\ ask'[u].old = 0
  /\ UNCHANGED <<made, held, gone, absent, reaped, closer>>

LEMMA DropsBuses ==
  ASSUME BusesInv, NEW k \in D!Kinds, Drops(k)
  PROVE  BusesInv'
<1>1. /\ conn' = D!Closed(have[k], conn) /\ have' = [have EXCEPT ![k] = 0]
      /\ ask' \in [Asker -> Hands(made, gone)]
      /\ \A u \in Asker : \/ ask'[u] = ask[u]
                          \/ /\ ask[u].at \notin Dialling
                             /\ ask'[u].at \in {"none", "awaits"} /\ ask'[u].old = 0
      /\ UNCHANGED <<made, held, gone, absent, reaped, closer>>
  BY DEF Drops
<1>2. /\ conn' \in [1 .. Dials -> Conns(gone)]
      /\ \A j \in 1 .. Dials :
           /\ conn'[j].kind = conn[j].kind /\ conn'[j].gone = conn[j].gone
           /\ conn'[j].at = IF j = have[k] THEN "closed" ELSE conn[j].at
  <2>1. have[k] \in 0 .. made
    BY DEF BusesInv
  <2>2. have[k] \in 0 .. Dials
    BY <2>1, BusTypes
  <2>3. QED
    BY <1>1, <2>2, ClosedAs
<1>3. /\ have' \in [D!Kinds -> 0 .. made]
      /\ \A j \in D!Kinds : have'[j] = IF j = k THEN 0 ELSE have[j]
  BY <1>1, BusTypes DEF BusesInv
<1>4. \A j \in 1 .. made : j \in 1 .. Dials /\ j # 0
  BY BusTypes
<1>5. ASSUME NEW u \in Asker
      PROVE  DialOK(u)'
  <2>1. CASE ask'[u] = ask[u]
    <3>1. DialOK(u) /\ ask[u].kind \in D!Kinds
      BY BusTypes DEF BusesInv
    <3>2. have[ask[u].kind] = 0 => have'[ask[u].kind] = 0
      BY <1>3, <3>1
    <3>3. ask[u].conn \in 1 .. made =>
            /\ conn'[ask[u].conn].kind = conn[ask[u].conn].kind
            /\ conn'[ask[u].conn].gone = conn[ask[u].conn].gone
            /\ conn'[ask[u].conn].at \in {"closed", conn[ask[u].conn].at}
      BY <1>2, <1>4
    <3>4. QED
      BY <1>1, <2>1, <3>1, <3>2, <3>3 DEF DialOK, Dialling
  <2>2. CASE ask'[u].at \in {"none", "awaits"} /\ ask'[u].old = 0
    BY <2>2 DEF DialOK, Dialling
  <2>3. QED
    BY <1>1, <2>1, <2>2
<1>6. ASSUME NEW i \in 1 .. made
      PROVE  Owned(i)'
  <2>1. CASE i = have[k]
    BY <1>2, <1>4, <2>1 DEF Owned, Up
  <2>2. CASE i # have[k]
    <3>1. ASSUME NEW u \in Asker, InHandOf(i, u)
          PROVE  InHandOf(i, u)'
      BY <1>1, <1>2, <1>4, <3>1 DEF InHandOf
    <3>2. have[conn[i].kind] = i => have'[conn[i].kind] = i
      BY <1>3, <1>4, <2>2, BusTypes
    <3>3. QED
      BY <1>1, <1>2, <1>4, <2>2, <3>1, <3>2 DEF BusesInv, Owned
  <2>3. QED
    BY <2>1, <2>2
<1>7. \A j \in D!Kinds : have'[j] # 0 => have[j] \in 1 .. made /\ have'[j] = have[j]
  BY <1>3, BusTypes DEF BusesInv
<1>8. D!GivenUpStays'
  BY <1>1, <1>2, <1>4, <1>7 DEF BusesInv, D!GivenUpStays, D!Kinds
<1>9. (\A j \in D!Kinds : have[j] # 0 => conn[have[j]].kind = j)'
  BY <1>2, <1>4, <1>7 DEF BusesInv
<1>10. (\A i \in reaped : conn[i].at \in {"socket", "open", "closed"})'
  BY <1>1, <1>2, <1>4 DEF BusesInv
<1>11. (\A i \in 1 .. Dials : i > made => conn[i].at = "none")'
  <2>1. have[k] \in 0 .. made
    BY DEF BusesInv
  <2>2. \A i \in 1 .. Dials : i > made => i # have[k] /\ conn[i].at = "none"
    BY <2>1, BusTypes, DialsAssumption DEF BusesInv
  <2>3. QED
    BY <1>1, <1>2, <2>2
<1>12. QED
  BY <1>1, <1>2, <1>3, <1>5, <1>6, <1>8, <1>9, <1>10, <1>11 DEF BusesInv


\* the rest of the three questions
LEMMA OpeningBegins ==
  ASSUME BusesInv, NEW t \in Asker, NEW k \in D!Kinds, NEW table,
         ask[t].at = "none", held[k] = None, table = D!Closed(have[k], conn),
         D!Opening(t, k, table), held' = [held EXCEPT ![k] = t], have' = [have EXCEPT ![k] = 0],
         absent' = absent, UNCHANGED <<gone, reaped, closer>>
  PROVE  BusesInv'
<1> DEFINE m == made + 1
           r == [at |-> "socket", kind |-> k, gone |-> gone]
           a == [D!Done EXCEPT !.at = "opening", !.kind = k, !.conn = m, !.gone = gone]
<1>1. /\ made < Dials /\ made' = m /\ conn' = [table EXCEPT ![m] = r] /\ ask' = [ask EXCEPT ![t] = a]
  BY DEF D!Opening
<1>2. /\ m \in Nat /\ made \in Nat /\ gone \in Nat /\ m \in 0 .. m /\ gone \in 0 .. gone
      /\ have[k] \in 0 .. made /\ m \in 1 .. Dials
      /\ \A i \in 0 .. made : i \in 0 .. m
      /\ "opening" \in Dialling \cup {"none", "awaits"}
  BY <1>1, BusTypes, DialsAssumption DEF BusesInv, Dialling
<1>3. D!Done \in Hands(m, gone) /\ D!Done.old = 0
  BY <1>2, DoneIs
<1>4. /\ a \in Hands(m, gone) /\ a.at = "opening" /\ a.kind = k
      /\ a.conn = m /\ a.old = 0 /\ a.gone = gone
  BY <1>2, <1>3 DEF Hands
<1>5. r \in Conns(gone) /\ r.at = "socket" /\ r.kind = k /\ r.gone = gone
  BY <1>2 DEF Conns
<1>6. \A u \in Asker : ask[u] \in Hands(m, gone)
  BY <1>2 DEF BusesInv, Hands
<1> HIDE DEF r, a
<1>7. ask' \in [Asker -> Hands(m, gone)] /\ ask'[t] = a /\ \A u \in Asker \ {t} : ask'[u] = ask[u]
  BY <1>1, <1>4, <1>6 DEF BusesInv
<1>8. table \in [1 .. Dials -> Conns(gone)]
  <2>1. have[k] \in 0 .. Dials
    BY <1>2, BusTypes
  <2>2. QED
    BY <2>1, ClosedAs
<1>9. /\ conn' \in [1 .. Dials -> Conns(gone)] /\ conn'[m] = r
      /\ \A j \in 1 .. Dials : j # m => conn'[j] = D!Closed(have[k], conn)[j]
  BY <1>1, <1>2, <1>5, <1>8
<1>10. Begins(t, k, have[k])
  BY <1>1, <1>4, <1>5, <1>7, <1>9 DEF Begins
<1>11. QED
  BY <1>2, <1>10, DialBegins

\* an absence answers, and what is kept is dropped first
LEMMA AbsentDrops ==
  ASSUME BusesInv, NEW k \in D!Kinds,
         conn' = D!Closed(have[k], conn), have' = [have EXCEPT ![k] = 0], absent' = absent,
         UNCHANGED <<made, ask, held, gone, reaped, closer>>
  PROVE  BusesInv'
<1>1. Drops(k)
  BY DEF Drops, BusesInv
<1>2. QED
  BY <1>1, DropsBuses

LEMMA AsksLinkBuses ==
  ASSUME BusesInv, NEW t \in Asker, D!AsksLink(t)
  PROVE  BusesInv'
<1>1. "link" \in D!Kinds
  BY DEF D!Kinds
<1>2. /\ ask[t].at = "none" /\ held["link"] = None
      /\ have' = [have EXCEPT !["link"] = 0] /\ absent' = absent /\ UNCHANGED <<gone, reaped, closer>>
  BY DEF D!AsksLink
<1>3. CASE absent["link"] = "fresh"
  <2>1. conn' = D!Closed(have["link"], conn) /\ UNCHANGED <<made, ask, held>>
    BY <1>3 DEF D!AsksLink
  <2>2. QED
    BY <1>1, <1>2, <2>1, AbsentDrops
<1>4. CASE absent["link"] # "fresh"
  <2>1. D!Opening(t, "link", D!Closed(have["link"], conn)) /\ held' = [held EXCEPT !["link"] = t]
    BY <1>4 DEF D!AsksLink
  <2>2. QED
    BY <1>1, <1>2, <2>1, OpeningBegins
<1>5. QED
  BY <1>3, <1>4

LEMMA AsksLoginsBuses ==
  ASSUME BusesInv, NEW t \in Asker, D!AsksLogins(t)
  PROVE  BusesInv'
<1> DEFINE k == "logins"
           a == [D!Done EXCEPT !.at = "awaits", !.kind = "logins", !.conn = ask[held.logins].conn]
<1>1. k \in D!Kinds
  BY DEF D!Kinds
<1>2. /\ ask[t].at = "none" /\ have' = [have EXCEPT ![k] = 0] /\ absent' = absent
      /\ UNCHANGED <<gone, reaped, closer>>
  BY DEF D!AsksLogins
<1>3. CASE conn' = D!Closed(have[k], conn) /\ UNCHANGED <<made, ask, held>>
  BY <1>1, <1>2, <1>3, AbsentDrops
<1>4. CASE /\ held[k] # None /\ ask' = [ask EXCEPT ![t] = a]
           /\ conn' = D!Closed(have[k], conn) /\ UNCHANGED <<made, held>>
  <2>1. /\ held[k] \in Asker /\ made \in Nat /\ gone \in Nat
        /\ "awaits" \in Dialling \cup {"none", "awaits"}
    BY <1>1, <1>4, BusTypes DEF BusesInv, Dialling
  <2>2. ask[held.logins].conn \in 0 .. made
    BY <2>1, BusTypes
  <2>3. D!Done \in Hands(made, gone) /\ D!Done.old = 0
    BY <2>1, DoneIs
  <2>4. a \in Hands(made, gone) /\ a.at = "awaits" /\ a.old = 0
    BY <1>1, <2>1, <2>2, <2>3 DEF Hands
  <2> HIDE DEF a
  <2>5. /\ ask' \in [Asker -> Hands(made, gone)]
        /\ \A u \in Asker : \/ ask'[u] = ask[u]
                            \/ /\ ask[u].at \notin Dialling
                               /\ ask'[u].at \in {"none", "awaits"} /\ ask'[u].old = 0
    BY <1>2, <1>4, <2>4 DEF BusesInv, Dialling
  <2>6. Drops(k)
    BY <1>2, <1>4, <2>5 DEF Drops
  <2>7. QED
    BY <1>1, <2>6, DropsBuses
<1>5. CASE /\ held[k] = None /\ D!Opening(t, k, D!Closed(have[k], conn))
           /\ held' = [held EXCEPT ![k] = t]
  BY <1>1, <1>2, <1>5, OpeningBegins
<1>6. QED
  BY <1>3, <1>4, <1>5 DEF D!AsksLogins


\* nothing is dialled, kept or closed: an answer, an end of waiting, an absence that ages
Rests ==
  /\ ask' \in [Asker -> Hands(made, gone)]
  /\ \A u \in Asker : \/ ask'[u] = ask[u]
                      \/ /\ ask[u].at \notin Dialling
                         /\ ask'[u].at \in {"none", "awaits"} /\ ask'[u].old = 0
  /\ absent' \in [D!Kinds -> {"no", "fresh", "old"}]
  /\ UNCHANGED <<conn, made, have, gone, held, reaped, closer>>

LEMMA RestsBuses ==
  ASSUME BusesInv, Rests
  PROVE  BusesInv'
<1>1. /\ ask' \in [Asker -> Hands(made, gone)]
      /\ \A u \in Asker : \/ ask'[u] = ask[u]
                          \/ /\ ask[u].at \notin Dialling
                             /\ ask'[u].at \in {"none", "awaits"} /\ ask'[u].old = 0
      /\ absent' \in [D!Kinds -> {"no", "fresh", "old"}]
      /\ UNCHANGED <<conn, made, have, gone, held, reaped, closer>>
  BY DEF Rests
<1>2. ASSUME NEW u \in Asker
      PROVE  DialOK(u)'
  <2>1. CASE ask'[u] = ask[u]
    BY <1>1, <2>1 DEF BusesInv, DialOK
  <2>2. CASE ask'[u].at \in {"none", "awaits"} /\ ask'[u].old = 0
    BY <2>2 DEF DialOK, Dialling
  <2>3. QED
    BY <1>1, <2>1, <2>2
<1>3. ASSUME NEW i \in 1 .. made
      PROVE  Owned(i)'
  <2>1. ASSUME NEW u \in Asker, InHandOf(i, u)
        PROVE  InHandOf(i, u)'
    BY <1>1, <2>1 DEF InHandOf
  <2>2. QED
    BY <1>1, <2>1 DEF BusesInv, Owned
<1>4. QED
  BY <1>1, <1>2, <1>3 DEF BusesInv, D!GivenUpStays

LEMMA QuietBuses ==
  ASSUME BusesInv,
         \/ UNCHANGED ofD \/ (\E k \in D!Kinds : D!Ages(k))
         \/ \E t \in Asker : D!Awaited(t) \/ (\E k \in D!Kinds : D!Kept(t, k))
  PROVE  BusesInv'
<1>1. CASE UNCHANGED ofD
  <2>1. Rests
    BY <1>1 DEF BusesInv, Rests, ofD
  <2>2. QED
    BY <2>1, RestsBuses
<1>2. ASSUME NEW t \in Asker, NEW k \in D!Kinds, D!Kept(t, k)
      PROVE  BusesInv'
  <2>1. Rests
    BY <1>2 DEF BusesInv, Rests, D!Kept
  <2>2. QED
    BY <2>1, RestsBuses
<1>3. ASSUME NEW k \in D!Kinds, D!Ages(k)
      PROVE  BusesInv'
  <2>1. Rests
    BY <1>3 DEF BusesInv, Rests, D!Ages
  <2>2. QED
    BY <2>1, RestsBuses
<1>4. ASSUME NEW t \in Asker, D!Awaited(t)
      PROVE  BusesInv'
  <2>1. D!Done \in Hands(made, gone) /\ D!Done.at = "none" /\ D!Done.old = 0
    BY DoneIs, BusTypes DEF BusesInv
  <2>2. Rests
    BY <1>4, <2>1 DEF BusesInv, Rests, D!Awaited, Dialling
  <2>3. QED
    BY <2>2, RestsBuses
<1>5. QED
  BY <1>1, <1>2, <1>3, <1>4

-----------------------------------------------------------------------------
(***************************************************************************)
(* A connection on its own: it opens, it dies, somebody closes it.         *)
(***************************************************************************)
TurnsTo(i, s) ==
  /\ conn' = [conn EXCEPT ![i].at = s]
  /\ \/ s = "open" /\ conn[i].at = "socket" /\ UNCHANGED <<reaped, closer>>
     \/ s = "dead" /\ conn[i].at = "live" /\ UNCHANGED <<reaped, closer>>
     \/ /\ s = "closed"
        /\ reaped' \in {reaped, reaped \ {i}}
        /\ closer' = closer \/ (closer = i /\ closer' = 0)
  /\ UNCHANGED <<made, have, gone, held, absent, ask>>

LEMMA TurnsBuses ==
  ASSUME BusesInv, NEW i \in 1 .. made, NEW s \in {"open", "dead", "closed"}, TurnsTo(i, s)
  PROVE  BusesInv'
<1>1. /\ \/ s = "open" /\ conn[i].at = "socket" /\ UNCHANGED <<reaped, closer>>
         \/ s = "dead" /\ conn[i].at = "live" /\ UNCHANGED <<reaped, closer>>
         \/ /\ s = "closed"
            /\ reaped' \in {reaped, reaped \ {i}}
            /\ closer' = closer \/ (closer = i /\ closer' = 0)
      /\ UNCHANGED <<made, have, gone, held, absent, ask>>
  BY DEF TurnsTo
<1>2. /\ conn' \in [1 .. Dials -> Conns(gone)]
      /\ \A j \in 1 .. Dials :
           /\ conn'[j].kind = conn[j].kind /\ conn'[j].gone = conn[j].gone
           /\ conn'[j].at = IF j = i THEN s ELSE conn[j].at
  <2>1. s \in Up \cup {"none", "closed"} /\ i \in 1 .. Dials
    BY BusTypes DEF Up
  <2>2. conn' = [conn EXCEPT ![i].at = s]
    BY DEF TurnsTo
  <2>3. /\ [conn EXCEPT ![i].at = s] \in [1 .. Dials -> Conns(gone)]
        /\ \A j \in 1 .. Dials :
             /\ [conn EXCEPT ![i].at = s][j].kind = conn[j].kind
             /\ [conn EXCEPT ![i].at = s][j].gone = conn[j].gone
             /\ [conn EXCEPT ![i].at = s][j].at = IF j = i THEN s ELSE conn[j].at
    BY <2>1, GoesTo
  <2>4. QED
    BY <2>2, <2>3
<1>3. \A j \in 1 .. made : j \in 1 .. Dials /\ j # 0
  BY BusTypes
<1>4. reaped' \subseteq 1 .. made /\ closer' \in 0 .. made
  <2>1. reaped' \subseteq reaped /\ closer' \in {closer, 0} /\ 0 \in 0 .. made
    BY <1>1, BusTypes
  <2>2. QED
    BY <2>1 DEF BusesInv
<1>5. ASSUME NEW u \in Asker
      PROVE  DialOK(u)'
  <2>1. DialOK(u)
    BY DEF BusesInv
  <2>2. /\ ask'[u] = ask[u] /\ made' = made /\ held' = held /\ have' = have
        /\ \A j \in reaped' : j \in reaped
    BY <1>1
  <2>3. ask[u].conn \in 1 .. made =>
          /\ conn'[ask[u].conn].kind = conn[ask[u].conn].kind
          /\ conn'[ask[u].conn].gone = conn[ask[u].conn].gone
          /\ conn[ask[u].conn].at \in {"socket", "open", "closed"} =>
               conn'[ask[u].conn].at \in {"socket", "open", "closed"}
    BY <1>1, <1>2, <1>3
  <2>4. QED
    BY <2>1, <2>2, <2>3 DEF DialOK, Dialling
<1>6. ASSUME NEW j \in 1 .. made
      PROVE  Owned(j)'
  <2>1. ASSUME NEW u \in Asker, InHandOf(j, u)
        PROVE  InHandOf(j, u)'
    BY <1>1, <1>2, <1>3, <2>1 DEF InHandOf
  <2>2. CASE j = i /\ s = "closed"
    BY <1>2, <1>3, <2>2 DEF Owned, Up
  <2>3. CASE ~(j = i /\ s = "closed")
    <3>1. conn'[j].at \in Up => conn[j].at \in Up
      BY <1>1, <1>2, <1>3 DEF Up
    <3>2. (j \in reaped => j \in reaped') /\ (j = closer => j = closer')
      BY <1>1, <2>3
    <3>3. QED
      BY <1>1, <1>2, <1>3, <2>1, <3>1, <3>2 DEF BusesInv, Owned
  <2>4. QED
    BY <2>2, <2>3
<1>7. D!GivenUpStays'
  BY <1>1, <1>2, <1>3, BusTypes DEF BusesInv, D!GivenUpStays, D!Kinds
<1>8. (\A j \in D!Kinds : have[j] # 0 => conn[have[j]].kind = j)'
  BY <1>1, <1>2, <1>3 DEF BusesInv
<1>9. (\A j \in reaped : conn[j].at \in {"socket", "open", "closed"})'
  BY <1>1, <1>2, <1>3 DEF BusesInv
<1>10. (\A j \in 1 .. Dials : j > made => conn[j].at = "none")'
  <2>1. \A j \in 1 .. Dials : j > made => j # i
    BY BusTypes, DialsAssumption
  <2>2. QED
    BY <1>1, <1>2, <2>1 DEF BusesInv
<1>11. QED
  BY <1>1, <1>2, <1>4, <1>5, <1>6, <1>7, <1>8, <1>9, <1>10 DEF BusesInv


LEMMA WorldBuses ==
  ASSUME BusesInv,
         \/ \E i \in 1 .. Dials : D!Socket(i) \/ D!Reaps(i) \/ D!Dies(i)
         \/ D!ClosesTaken
  PROVE  BusesInv'
<1>1. ASSUME NEW i \in 1 .. Dials, conn[i].at # "none"
      PROVE  i \in 1 .. made
  BY <1>1, BusTypes, DialsAssumption DEF BusesInv
<1>2. ASSUME NEW i \in 1 .. Dials, D!Socket(i)
      PROVE  BusesInv'
  <2>1. i \in 1 .. made
    BY <1>1, <1>2 DEF D!Socket
  <2>2. TurnsTo(i, "open") \/ TurnsTo(i, "closed")
    BY <1>2 DEF D!Socket, TurnsTo
  <2>3. QED
    BY <2>1, <2>2, TurnsBuses
<1>3. ASSUME NEW i \in 1 .. Dials, D!Reaps(i)
      PROVE  BusesInv'
  <2>1. i \in 1 .. made
    BY <1>3 DEF D!Reaps, BusesInv
  <2>2. TurnsTo(i, "closed")
    BY <1>3 DEF D!Reaps, TurnsTo
  <2>3. QED
    BY <2>1, <2>2, TurnsBuses
<1>4. ASSUME NEW i \in 1 .. Dials, D!Dies(i)
      PROVE  BusesInv'
  <2>1. i \in 1 .. made
    BY <1>1, <1>4 DEF D!Dies
  <2>2. TurnsTo(i, "dead")
    BY <1>4 DEF D!Dies, TurnsTo
  <2>3. QED
    BY <2>1, <2>2, TurnsBuses
<1>5. CASE D!ClosesTaken
  <2>1. closer \in 1 .. made
    BY <1>5, BusTypes DEF D!ClosesTaken, BusesInv
  <2>2. TurnsTo(closer, "closed")
    BY <1>5 DEF D!ClosesTaken, D!Closed, TurnsTo
  <2>3. QED
    BY <2>1, <2>2, TurnsBuses
<1>6. QED
  BY <1>2, <1>3, <1>4, <1>5

\* the session's end takes the radio, and will close it
LEMMA CloseRadioBuses ==
  ASSUME BusesInv, D!CloseRadio
  PROVE  BusesInv'
<1>1. /\ closer = 0 /\ closer' = have["radio"] /\ have' = [have EXCEPT !["radio"] = 0]
      /\ gone' = gone + 1 /\ UNCHANGED <<conn, made, held, absent, ask, reaped>>
  BY DEF D!CloseRadio
<1>2. /\ "radio" \in D!Kinds /\ gone \in Nat /\ gone' \in Nat
      /\ \A g \in 0 .. gone : g \in 0 .. gone'
  BY <1>1 DEF D!Kinds, BusesInv
<1>3. \A i \in 1 .. made : i \in 1 .. Dials /\ i # 0
  BY BusTypes
<1>4. conn' \in [1 .. Dials -> Conns(gone')] /\ ask' \in [Asker -> Hands(made', gone')]
  <2>1. \A i \in 1 .. Dials : conn[i] \in Conns(gone')
    BY <1>2 DEF BusesInv, Conns
  <2>2. \A t \in Asker : ask[t] \in Hands(made, gone')
    BY <1>2 DEF BusesInv, Hands
  <2>3. QED
    BY <1>1, <2>1, <2>2 DEF BusesInv
<1>5. /\ have' \in [D!Kinds -> 0 .. made] /\ closer' \in 0 .. made
      /\ \A j \in D!Kinds : have'[j] = IF j = "radio" THEN 0 ELSE have[j]
  BY <1>1, <1>2, BusTypes DEF BusesInv
<1>6. ASSUME NEW u \in Asker
      PROVE  DialOK(u)'
  <2>1. DialOK(u) /\ ask[u].kind \in D!Kinds
    BY BusTypes DEF BusesInv
  <2>2. have[ask[u].kind] = 0 => have'[ask[u].kind] = 0
    BY <1>5, <2>1
  <2>3. QED
    BY <1>1, <2>1, <2>2 DEF DialOK
<1>7. ASSUME NEW j \in 1 .. made
      PROVE  Owned(j)'
  <2>1. ASSUME NEW u \in Asker, InHandOf(j, u)
        PROVE  InHandOf(j, u)'
    BY <1>1, <2>1 DEF InHandOf
  <2>2. have[conn[j].kind] = j => have'[conn[j].kind] = j \/ closer' = j
    BY <1>1, <1>3, <1>5, BusTypes
  <2>3. j # closer
    BY <1>1, <1>3
  <2>4. QED
    BY <1>1, <2>1, <2>2, <2>3 DEF BusesInv, Owned
<1>8. D!GivenUpStays'
  BY <1>2, <1>5 DEF D!GivenUpStays
<1>9. (\A j \in D!Kinds : have[j] # 0 => conn[have[j]].kind = j)'
  BY <1>1, <1>5 DEF BusesInv
<1>10. QED
  BY <1>1, <1>2, <1>4, <1>5, <1>6, <1>7, <1>8, <1>9 DEF BusesInv

-----------------------------------------------------------------------------
(***************************************************************************)
(* A dial goes on, fails, or is kept.                                      *)
(***************************************************************************)
Goes(t, from, to) ==
  LET i == ask[t].conn
  IN  /\ ask[t].at = from /\ ask' = [ask EXCEPT ![t].at = to]
      /\ conn' \in {conn, [conn EXCEPT ![i].at = "live"]}
      /\ UNCHANGED <<made, have, gone, held, absent, reaped, closer>>

LEMMA GoesBuses ==
  ASSUME BusesInv, NEW t \in Asker, NEW from \in {"opening", "shaking", "checking"},
         NEW to \in {"shaking", "checking", "publish"}, Goes(t, from, to)
  PROVE  BusesInv'
<1> DEFINE i == ask[t].conn
<1>1. /\ ask[t].at = from /\ UNCHANGED <<made, have, gone, held, absent, reaped, closer>>
  BY DEF Goes
<1>2. /\ ask[t].at \in Dialling \ {"drops"} /\ to \in (Dialling \ {"drops", "opening"})
      /\ DialOK(t) /\ ask[t].old = 0
  BY <1>1 DEF BusesInv, DialOK, Dialling
<1>3. i \in 1 .. made /\ i \notin reaped
  BY <1>2 DEF DialOK
<1>4. \A j \in 1 .. made : j \in 1 .. Dials /\ j # 0
  BY BusTypes
<1>5. /\ ask' \in [Asker -> Hands(made, gone)]
      /\ ask'[t].at = to /\ ask'[t].kind = ask[t].kind /\ ask'[t].conn = i
      /\ ask'[t].old = 0 /\ ask'[t].gone = ask[t].gone
      /\ \A u \in Asker \ {t} : ask'[u] = ask[u]
  <2>1. to \in Dialling \cup {"none", "awaits"}
    BY <1>2
  <2>2. QED
    BY <1>2, <2>1 DEF Goes, BusesInv, Hands
<1>6. /\ conn' \in [1 .. Dials -> Conns(gone)]
      /\ \A j \in 1 .. Dials :
           /\ conn'[j].kind = conn[j].kind /\ conn'[j].gone = conn[j].gone
           /\ j # i => conn'[j].at = conn[j].at
           /\ conn'[j].at \in {conn[j].at, "live"}
  <2>1. i \in 1 .. Dials
    BY <1>3, <1>4
  <2>2. CASE conn' = conn
    BY <2>2 DEF BusesInv
  <2>3. CASE conn' = [conn EXCEPT ![i].at = "live"]
    <3>1. conn \in [1 .. Dials -> Conns(gone)]
      BY DEF BusesInv
    <3> HIDE DEF i
    <3>2. QED
      BY <2>1, <2>3, <3>1 DEF Conns
  <2>4. QED
    BY <2>2, <2>3 DEF Goes
<1>7. ASSUME NEW u \in Asker, InHandOf(i, u)
      PROVE  u = t
  BY <1>2, <1>7, OneDials DEF InHandOf, DialOK
<1>8. \A u \in Asker : u # t /\ ask[u].at \in Dialling \ {"drops"} => ask[u].conn # i
  <2>1. \A u \in Asker : ask[u].at \in Dialling \ {"drops"} =>
          conn[ask[u].conn].kind = ask[u].kind
    BY DEF BusesInv, DialOK
  <2>2. QED
    BY <1>7, <2>1 DEF InHandOf
<1> HIDE DEF i
<1>9. ASSUME NEW u \in Asker
      PROVE  DialOK(u)'
  <2>1. CASE u = t
    BY <1>1, <1>2, <1>3, <1>4, <1>5, <1>6, <2>1 DEF DialOK, i
  <2>2. CASE u # t
    <3>1. DialOK(u) /\ ask'[u] = ask[u]
      BY <1>5, <2>2 DEF BusesInv
    <3>2. ask[u].at \in Dialling \ {"drops"} => ask[u].conn \in 1 .. Dials /\ ask[u].conn # i
      BY <1>4, <1>8, <2>2, <3>1 DEF DialOK
    <3>3. QED
      BY <1>1, <1>6, <3>1, <3>2 DEF DialOK, Dialling
  <2>3. QED
    BY <2>1, <2>2
<1>10. ASSUME NEW j \in 1 .. made
       PROVE  Owned(j)'
  <2>1. ASSUME NEW u \in Asker, InHandOf(j, u)
        PROVE  InHandOf(j, u)'
    BY <1>2, <1>4, <1>5, <1>6, <2>1 DEF InHandOf, i
  <2>2. CASE j = i
    <3>1. InHandOf(i, t)
      BY <1>2 DEF InHandOf, DialOK, i
    <3>2. QED
      BY <2>1, <2>2, <3>1 DEF Owned
  <2>3. CASE j # i
    BY <1>1, <1>4, <1>6, <2>1, <2>3 DEF BusesInv, Owned
  <2>4. QED
    BY <2>2, <2>3
<1>11. D!GivenUpStays'
  BY <1>1, <1>4, <1>6, BusTypes DEF BusesInv, D!GivenUpStays, D!Kinds
<1>12. (\A j \in D!Kinds : have[j] # 0 => conn[have[j]].kind = j)'
  BY <1>1, <1>4, <1>6 DEF BusesInv
<1>13. (\A j \in reaped : conn[j].at \in {"socket", "open", "closed"})'
  BY <1>1, <1>3, <1>4, <1>6 DEF BusesInv
<1>14. (\A j \in 1 .. Dials : j > made => conn[j].at = "none")'
  <2>1. \A j \in 1 .. Dials : j > made => j # i
    BY <1>3, BusTypes, DialsAssumption
  <2>2. QED
    BY <1>1, <1>6, <2>1 DEF BusesInv
<1>15. QED
  BY <1>1, <1>5, <1>6, <1>9, <1>10, <1>11, <1>12, <1>13, <1>14 DEF BusesInv


\* a dial ends: what was dialled is closed, left to be closed, or kept
Ends(t) ==
  LET i == ask[t].conn  k == ask[t].kind
  IN  /\ ask[t].at \in Dialling \ {"drops"} /\ ask' = [ask EXCEPT ![t] = D!Done]
      /\ held' = [held EXCEPT ![k] = None]
      /\ absent' \in [D!Kinds -> {"no", "fresh", "old"}]
      /\ \/ conn' = D!Closed(i, conn) /\ UNCHANGED <<have, reaped>>
         \/ conn[i].at = "closed" /\ UNCHANGED <<conn, have, reaped>>
         \/ ask[t].at = "opening" /\ reaped' = reaped \cup {i} /\ UNCHANGED <<conn, have>>
         \/ /\ k # "radio" \/ ask[t].gone = gone
            /\ have' = [have EXCEPT ![k] = i] /\ UNCHANGED <<conn, reaped>>
      /\ UNCHANGED <<made, gone, closer>>

LEMMA EndsBuses ==
  ASSUME BusesInv, NEW t \in Asker, Ends(t)
  PROVE  BusesInv'
<1> DEFINE i == ask[t].conn
           k == ask[t].kind
<1>1. /\ ask[t].at \in Dialling \ {"drops"} /\ UNCHANGED <<made, gone, closer>>
      /\ absent' \in [D!Kinds -> {"no", "fresh", "old"}]
  BY DEF Ends
<1>2. /\ DialOK(t) /\ ask[t].old = 0 /\ k \in D!Kinds /\ held[k] = t /\ have[k] = 0
      /\ i \in 1 .. made /\ i \notin reaped /\ conn[i].kind = k /\ conn[i].gone = ask[t].gone
  BY <1>1, BusTypes DEF BusesInv, DialOK, Dialling
<1>3. \A j \in 1 .. made : j \in 1 .. Dials /\ j \in 0 .. made /\ j # 0
  BY BusTypes
<1>4. /\ ask' \in [Asker -> Hands(made, gone)] /\ ask'[t].at = "none" /\ ask'[t].old = 0
      /\ \A u \in Asker \ {t} : ask'[u] = ask[u]
  <2>1. D!Done \in Hands(made, gone) /\ D!Done.at = "none" /\ D!Done.old = 0
    BY DoneIs, BusTypes DEF BusesInv
  <2>2. QED
    BY <2>1 DEF Ends, BusesInv
<1>5. /\ held' \in [D!Kinds -> Asker \cup {None}]
      /\ \A j \in D!Kinds : j # k => held'[j] = held[j]
  BY <1>2 DEF Ends, BusesInv
<1>6. \A u \in Asker : u # t /\ ask[u].at \in Dialling => ask[u].kind # k /\ ask[u].kind \in D!Kinds
  BY <1>1, OneDials, BusTypes
<1> HIDE DEF i, k
<1>7. /\ conn' \in [1 .. Dials -> Conns(gone)]
      /\ \A j \in 1 .. Dials :
           /\ conn'[j].kind = conn[j].kind /\ conn'[j].gone = conn[j].gone
           /\ j # i => conn'[j].at = conn[j].at
           /\ conn'[j].at \in {conn[j].at, "closed"}
  <2>1. CASE conn' = D!Closed(i, conn)
    <3>1. i \in 0 .. Dials
      BY <1>2, <1>3, BusTypes
    <3>2. QED
      BY <2>1, <3>1, ClosedAs
  <2>2. CASE conn' = conn
    BY <2>2 DEF BusesInv
  <2>3. QED
    BY <2>1, <2>2 DEF Ends, i
<1>8. /\ have' \in [D!Kinds -> 0 .. made]
      /\ \A j \in D!Kinds : j # k => have'[j] = have[j]
      /\ have'[k] \in {0, i}
      /\ k = "radio" /\ have'[k] = i => ask[t].gone = gone
  <2>1. CASE have' = have
    BY <1>2, <1>3, <2>1 DEF BusesInv
  <2>2. CASE (k # "radio" \/ ask[t].gone = gone) /\ have' = [have EXCEPT ![k] = i]
    BY <1>2, <1>3, <2>2 DEF BusesInv
  <2>3. QED
    BY <2>1, <2>2 DEF Ends, i, k
<1>9. /\ reaped' \in {reaped, reaped \cup {i}} /\ reaped' \subseteq 1 .. made
      /\ i \in reaped' => ask[t].at = "opening" /\ conn' = conn
  BY <1>2 DEF Ends, BusesInv, i
<1>10. conn'[i].at = "closed" \/ i \in reaped' \/ have'[k] = i
  <2>1. CASE conn' = D!Closed(i, conn)
    <3>1. i \in 0 .. Dials /\ i \in 1 .. Dials
      BY <1>2, <1>3, BusTypes
    <3>2. QED
      BY <2>1, <3>1, ClosedAs
  <2>2. CASE conn[i].at = "closed" /\ conn' = conn
    BY <2>2
  <2>3. CASE reaped' = reaped \cup {i}
    BY <2>3
  <2>4. CASE have' = [have EXCEPT ![k] = i]
    BY <1>2, <2>4 DEF BusesInv
  <2>5. QED
    BY <2>1, <2>2, <2>3, <2>4 DEF Ends, i, k
<1>11. ASSUME NEW u \in Asker
       PROVE  DialOK(u)'
  <2>1. CASE u = t
    BY <1>4, <2>1 DEF DialOK, Dialling
  <2>2. CASE u # t
    <3>1. DialOK(u) /\ ask'[u] = ask[u]
      BY <1>4, <2>2 DEF BusesInv
    <3>2. ask[u].at \in Dialling =>
            held'[ask[u].kind] = held[ask[u].kind] /\ have'[ask[u].kind] = have[ask[u].kind]
      BY <1>5, <1>6, <1>8, <2>2
    <3>3. ask[u].at \in Dialling \ {"drops"} =>
            /\ ask[u].conn \in 1 .. made /\ ask[u].conn \in 1 .. Dials
            /\ ask[u].conn \notin reaped /\ ask[u].conn # i
      BY <1>2, <1>3, <1>6, <2>2, <3>1 DEF DialOK
    <3>4. QED
      BY <1>1, <1>7, <1>9, <3>1, <3>2, <3>3 DEF DialOK, Dialling
  <2>3. QED
    BY <2>1, <2>2
<1>12. ASSUME NEW j \in 1 .. made
       PROVE  Owned(j)'
  <2>1. CASE j = i
    BY <1>2, <1>3, <1>7, <1>10, <2>1 DEF Owned, Up
  <2>2. CASE j # i
    <3>1. ASSUME NEW u \in Asker, InHandOf(j, u)
          PROVE  InHandOf(j, u)'
      <4>1. u # t
        BY <1>2, <1>3, <2>2, <3>1 DEF InHandOf, i
      <4>2. QED
        BY <1>3, <1>4, <1>7, <3>1, <4>1 DEF InHandOf
    <3>2. have[conn[j].kind] = j => have'[conn[j].kind] = j
      BY <1>2, <1>3, <1>8, BusTypes
    <3>3. QED
      BY <1>1, <1>3, <1>7, <1>9, <2>2, <3>1, <3>2 DEF BusesInv, Owned
  <2>3. QED
    BY <2>1, <2>2
<1>13. \A j \in D!Kinds : have'[j] # 0 => have'[j] \in 1 .. made /\ (have'[j] = have[j] \/ (j = k /\ have'[j] = i))
  BY <1>2, <1>3, <1>8, BusTypes
<1>14. D!GivenUpStays'
  <2>1. "radio" \in D!Kinds
    BY DEF D!Kinds
  <2>2. CASE have'["radio"] = have["radio"]
    BY <1>1, <1>3, <1>7, <1>13, <2>1, <2>2 DEF BusesInv, D!GivenUpStays
  <2>3. CASE k = "radio" /\ have'["radio"] = i
    BY <1>1, <1>2, <1>3, <1>7, <1>8, <2>3 DEF D!GivenUpStays
  <2>4. QED
    BY <1>13, <2>1, <2>2, <2>3 DEF D!GivenUpStays
<1>15. (\A j \in D!Kinds : have[j] # 0 => conn[have[j]].kind = j)'
  BY <1>2, <1>3, <1>7, <1>13 DEF BusesInv
<1>16. (\A j \in reaped : conn[j].at \in {"socket", "open", "closed"})'
  BY <1>2, <1>3, <1>7, <1>9 DEF BusesInv, DialOK, i
<1>17. (\A j \in 1 .. Dials : j > made => conn[j].at = "none")'
  <2>1. \A j \in 1 .. Dials : j > made => j # i
    BY <1>2, BusTypes, DialsAssumption
  <2>2. QED
    BY <1>1, <1>7, <2>1 DEF BusesInv
<1>18. QED
  BY <1>1, <1>4, <1>5, <1>7, <1>8, <1>9, <1>11, <1>12, <1>14, <1>15, <1>16, <1>17 DEF BusesInv


\* the steps of bus.Connect and of the three openings, each the one or the other
LEMMA FailsEnds ==
  ASSUME BusesInv, NEW t \in Asker, NEW why \in {"absent", "other"}, D!Fails(t, why),
         ask[t].at \in Dialling \ {"drops"},
         \/ conn' = D!Closed(ask[t].conn, conn) /\ UNCHANGED reaped
         \/ conn[ask[t].conn].at = "closed" /\ UNCHANGED <<conn, reaped>>
         \/ ask[t].at = "opening" /\ reaped' = reaped \cup {ask[t].conn} /\ UNCHANGED conn
  PROVE  BusesInv'
<1>1. absent' \in [D!Kinds -> {"no", "fresh", "old"}]
  BY BusTypes DEF D!Fails, BusesInv
<1>2. Ends(t)
  BY <1>1 DEF D!Fails, Ends
<1>3. QED
  BY <1>2, EndsBuses

LEMMA DialBuses ==
  ASSUME BusesInv, NEW t \in Asker,
         D!Opened(t) \/ D!OpenTooSlow(t) \/ D!Shaken(t) \/ D!Checked(t) \/ D!Publishes(t)
  PROVE  BusesInv'
<1>1. CASE D!Opened(t)
  <2>1. ask[t].at = "opening" /\ UNCHANGED <<conn, reaped>>
    BY <1>1 DEF D!Opened
  <2>2. CASE conn[ask[t].conn].at = "closed" /\ D!Fails(t, "absent")
    BY <2>1, <2>2, FailsEnds DEF Dialling
  <2>3. CASE /\ ask' = [ask EXCEPT ![t].at = "shaking"]
             /\ UNCHANGED <<made, have, gone, held, absent, closer>>
    <3>1. Goes(t, "opening", "shaking")
      BY <2>1, <2>3 DEF Goes
    <3>2. QED
      BY <3>1, GoesBuses
  <2>4. QED
    BY <1>1, <2>2, <2>3 DEF D!Opened
<1>2. CASE D!OpenTooSlow(t)
  BY <1>2, FailsEnds DEF D!OpenTooSlow, Dialling
<1>3. CASE D!Shaken(t)
  <2>1. ask[t].at = "shaking" /\ UNCHANGED reaped
    BY <1>3 DEF D!Shaken
  <2>2. CASE D!Fails(t, "absent") /\ conn' = D!Closed(ask[t].conn, conn)
    BY <2>1, <2>2, FailsEnds DEF Dialling
  <2>3. CASE /\ ask' = [ask EXCEPT ![t].at = "checking"]
             /\ UNCHANGED <<conn, made, have, gone, held, absent, closer>>
    <3>1. Goes(t, "shaking", "checking")
      BY <2>1, <2>3 DEF Goes
    <3>2. QED
      BY <3>1, GoesBuses
  <2>4. QED
    BY <1>3, <2>2, <2>3 DEF D!Shaken
<1>4. CASE D!Checked(t)
  <2>1. ask[t].at = "checking" /\ UNCHANGED reaped
    BY <1>4 DEF D!Checked
  <2>2. CASE /\ \E why \in {"absent", "other"} : D!Fails(t, why)
             /\ conn' = D!Closed(ask[t].conn, conn)
    BY <2>1, <2>2, FailsEnds DEF Dialling
  <2>3. CASE /\ conn' = [conn EXCEPT ![ask[t].conn].at = "live"]
             /\ ask' = [ask EXCEPT ![t].at = "publish"]
             /\ UNCHANGED <<made, have, gone, held, absent, closer>>
    <3>1. Goes(t, "checking", "publish")
      BY <2>1, <2>3 DEF Goes
    <3>2. QED
      BY <3>1, GoesBuses
  <2>4. QED
    BY <1>4, <2>2, <2>3 DEF D!Checked
<1>5. CASE D!Publishes(t)
  <2>1. absent' \in [D!Kinds -> {"no", "fresh", "old"}]
    BY <1>5, BusTypes DEF D!Publishes, BusesInv
  <2>2. Ends(t)
    BY <1>5, <2>1 DEF D!Publishes, Ends, Dialling
  <2>3. QED
    BY <2>2, EndsBuses
<1>6. QED
  BY <1>1, <1>2, <1>3, <1>4, <1>5

LEMMA BusesStep ==
  ASSUME BusesInv, [D!NextBuses]_ofD
  PROVE  BusesInv'
<1>1. CASE UNCHANGED ofD
  BY <1>1, QuietBuses
<1>2. ASSUME NEW t \in Asker, D!Asks(t)
      PROVE  BusesInv'
  BY <1>2, QuietBuses, AsksRadioBuses, DialsRadioBuses, AsksLinkBuses, AsksLoginsBuses DEF D!Asks
<1>3. CASE \E k \in D!Kinds : D!Ages(k)
  BY <1>3, QuietBuses
<1>4. QED
  BY <1>1, <1>2, <1>3, DialBuses, WorldBuses, CloseRadioBuses DEF D!NextBuses

LEMMA BusesInit ==
  ASSUME D!InitBuses
  PROVE  BusesInv
<1>1. /\ conn = [i \in 1 .. Dials |-> [at |-> "none", kind |-> "radio", gone |-> 0]]
      /\ made = 0 /\ have = [k \in D!Kinds |-> 0] /\ gone = 0
      /\ held = [k \in D!Kinds |-> None] /\ absent = [k \in D!Kinds |-> "no"]
      /\ ask = [t \in Asker |-> D!Done] /\ reaped = {} /\ closer = 0
  BY DEF D!InitBuses
<1>2. /\ 0 \in 0 .. 0 /\ 0 \in 0 .. Dials /\ 1 .. 0 = {} /\ "radio" \in D!Kinds
  BY DialsAssumption DEF D!Kinds
<1>3. conn \in [1 .. Dials -> Conns(gone)] /\ \A i \in 1 .. Dials : conn[i].at = "none"
  BY <1>1, <1>2 DEF Conns
<1>4. ask \in [Asker -> Hands(made, gone)] /\ \A t \in Asker : DialOK(t)
  <2>1. D!Done \in Hands(0, 0) /\ D!Done.at = "none" /\ D!Done.old = 0
    BY DoneIs
  <2>2. QED
    BY <1>1, <2>1 DEF DialOK, Dialling
<1>5. QED
  BY <1>1, <1>2, <1>3, <1>4 DEF BusesInv, D!GivenUpStays


-----------------------------------------------------------------------------
(***************************************************************************)
(* What follows.                                                           *)
(***************************************************************************)
LEMMA ConnectionTypes == BusesInv => D!TypeOK
BY DEF BusesInv, Conns, Hands, Dialling, D!TypeOK

LEMMA NoLeaks ==
  ASSUME BusesInv
  PROVE  D!NothingLeaks
<1>1. ASSUME NEW i \in 1 .. made, conn[i].at \in {"open", "live", "dead"}
      PROVE  i \in D!InHand \cup reaped \cup {closer} \cup {have[k] : k \in D!Kinds}
  <2>1. Owned(i) /\ conn[i].at \in Up /\ conn[i].kind \in D!Kinds
    BY <1>1, BusTypes DEF BusesInv, Up
  <2>2. ASSUME NEW t \in Asker, InHandOf(i, t)
        PROVE  i \in D!InHand
    BY <2>2 DEF InHandOf, D!InHand, Dialling
  <2>3. QED
    BY <2>1, <2>2 DEF Owned
<1>2. QED
  BY <1>1 DEF D!NothingLeaks

LEMMA OneAgentOneDial ==
  ASSUME BusesInv
  PROVE  D!OneOfEach
<1> DEFINE S == {i \in 1 .. made \ {closer} : conn[i].at = "live" /\ conn[i].kind = "radio"}
<1>1. ASSUME NEW i \in S
      PROVE  (i # 0 /\ have["radio"] = i) \/ (\E t \in Asker : ask[t].kind = "radio" /\ InHandOf(i, t))
  <2>1. i \in 1 .. made /\ i # closer /\ conn[i].at = "live" /\ i # 0
    BY BusTypes
  <2>2. Owned(i) /\ i \notin reaped
    BY <2>1 DEF BusesInv
  <2>3. QED
    BY <2>1, <2>2 DEF Owned, Up, InHandOf
<1>2. ASSUME NEW i \in S, NEW j \in S
      PROVE  i = j
  <2>1. \A t \in Asker : ask[t].at \in Dialling /\ ask[t].kind = "radio" => have["radio"] = 0
    BY DEF BusesInv, DialOK
  <2>2. ASSUME NEW t \in Asker, InHandOf(i, t), InHandOf(j, t)
        PROVE  i = j
    <3>1. i # 0 /\ j # 0 /\ DialOK(t)
      BY DEF BusesInv
    <3>2. QED
      BY <2>2, <3>1 DEF InHandOf, DialOK, Dialling
  <2>3. ASSUME NEW t \in Asker, NEW u \in Asker, ask[t].kind = "radio", ask[u].kind = "radio",
               InHandOf(i, t), InHandOf(j, u)
        PROVE  t = u
    BY <2>3, OneDials DEF InHandOf
  <2>4. QED
    BY <1>1, <2>1, <2>2, <2>3 DEF InHandOf
<1>3. ASSUME NEW t \in Asker, NEW u \in Asker, ask[t].at \notin {"none", "awaits"},
             ask[u].at \notin {"none", "awaits"}, ask[t].kind = ask[u].kind
      PROVE  t = u
  BY <1>3, OneDials, BusTypes
<1>4. QED
  BY <1>2, <1>3 DEF D!OneOfEach

LEMMA BusesInductive ==
  Spec => []BusesInv
<1>1. Init => BusesInv
  BY BusesInit DEF Init
<1>2. BusesInv /\ [Next]_vars => BusesInv'
  <2>1. [Next]_vars => [D!NextBuses]_ofD
    BY DEF Next, vars, ofD
  <2>2. QED
    BY <2>1, BusesStep
<1>3. QED
  BY <1>1, <1>2, PTL DEF Spec

\* Every connection to the system bus that is open is kept, in hand, or about to be closed;
\* the radio has one agent and each service one dial; and what the session's end gave up is
\* not kept again (bus.go Connect; bluetooth.go radio, closeRadio; power_manager.go logins).
THEOREM BusesAreKept ==
  Spec => []BusesHold
<1>1. BusesInv => BusesHold
  BY NoLeaks, OneAgentOneDial DEF BusesHold, D!BusesHold, BusesInv
<1>2. QED
  BY <1>1, BusesInductive, PTL

-----------------------------------------------------------------------------
(***************************************************************************)
(* The networks that are saved.  What a person is about to forget, they    *)
(* have asked to; a watch takes away its own, on a verdict that it is over.*)
(***************************************************************************)
HandAsked == hand.at = "forget" => hand.what \in wanted

TakenBack ==
  \A p \in profiles \ profiles' :
    \/ p.id \in wanted
    \/ \E j \in Joiner : /\ join[j].added = p.id /\ join[j].at \in {"watches", "watching"}
                         /\ act[join[j].act].at \in {"failing", "over"}

LEMMA DeletesOne ==
  ASSUME NEW id, J!Deletes(id)
  PROVE  \A p \in profiles \ profiles' : p.id = id
BY DEF J!Deletes

\* a verdict on the radio or on the activation
LEMMA RefusedTakesBack ==
  ASSUME NEW j \in Joiner, J!Refused(j), act[join[j].act].at \in {"failing", "over"},
         join[j].at \in {"settles", "settling", "watches", "watching"}
  PROVE  TakenBack
<1>1. CASE join[j].at \in {"settles", "settling"}
  BY <1>1 DEF J!Refused, J!wireless, TakenBack
<1>2. CASE join[j].at \notin {"settles", "settling"}
  <2>1. \A p \in profiles \ profiles' : p.id = join[j].added
    BY <1>2, DeletesOne DEF J!Refused
  <2>2. QED
    BY <1>2, <2>1 DEF TakenBack
<1>3. QED
  BY <1>1, <1>2

LEMMA JoinsStep ==
  ASSUME HandAsked, J!NextJoins
  PROVE  HandAsked' /\ TakenBack
<1>1. ASSUME NEW a \in 1 .. Activations, J!TakesRadio(a) \/ J!Associates(a) \/ J!Removes(a)
      PROVE  HandAsked' /\ TakenBack
  BY <1>1 DEF J!TakesRadio, J!Associates, J!Removes, HandAsked, TakenBack
<1>2. ASSUME NEW j \in Joiner, J!NotConnected(j) \/ J!ActivateConnection(j)
                               \/ J!StillTrying(j) \/ J!WatchEnds(j)
                               \/ \E net \in Networks, secret \in BOOLEAN : J!Connect(j, net, secret)
      PROVE  HandAsked' /\ TakenBack
  BY <1>2 DEF J!NotConnected, J!ActivateConnection, J!StillTrying, J!WatchEnds, J!Connect,
              J!wireless, HandAsked, TakenBack
<1>3. ASSUME NEW j \in Joiner, J!AddAndActivateConnection(j)
      PROVE  HandAsked' /\ TakenBack
  BY <1>3 DEF J!AddAndActivateConnection, HandAsked, TakenBack
<1>4. ASSUME NEW j \in Joiner, J!Decides(j) \/ J!AsksDevice(j)
      PROVE  HandAsked' /\ TakenBack
  <2>1. HandAsked'
    BY <1>4 DEF J!Decides, J!AsksDevice, HandAsked
  <2>2. CASE /\ join[j].at \in {"settles", "settling", "watches", "watching"}
             /\ J!Refused(j) /\ act[join[j].act].at \in {"failing", "over"}
    BY <2>1, <2>2, RefusedTakesBack
  <2>3. CASE UNCHANGED profiles
    BY <2>1, <2>3 DEF TakenBack
  <2>4. QED
    BY <1>4, <2>2, <2>3 DEF J!Decides, J!AsksDevice, J!wireless
<1>5. CASE J!Forgets
  <2>1. \A p \in profiles \ profiles' : p.id = hand.what
    BY <1>5, DeletesOne DEF J!Forgets
  <2>2. QED
    BY <1>5, <2>1 DEF J!Forgets, J!HandRests, HandAsked, TakenBack
<1>6. CASE (\E net \in Networks : J!Forget(net)) \/ J!Disconnect \/ J!Deactivates \/ J!Kill \/ J!Enables
  BY <1>6 DEF J!Forget, J!Disconnect, J!Deactivates, J!Kill, J!Enables, J!Looks, J!HandRests,
              J!wireless, HandAsked, TakenBack
<1>7. QED
  BY <1>1, <1>2, <1>3, <1>4, <1>5, <1>6 DEF J!NextJoins

(***************************************************************************)
(* A saved network goes because a person forgot it, or because the join    *)
(* that added it saw its own activation over (nm.go watch, refused).       *)
(***************************************************************************)
THEOREM SavedNetworksStay == Spec => SavedStays
<1>1. Init => HandAsked
  BY DEF Init, J!InitJoins, HandAsked
<1>2. ASSUME HandAsked, [Next]_vars
      PROVE  HandAsked' /\ [TakenBack]_(J!joins)
  <2>1. CASE J!NextJoins
    BY <1>2, <2>1, JoinsStep
  <2>2. CASE UNCHANGED ofJ
    BY <1>2, <2>2 DEF ofJ, J!joins, J!wireless, HandAsked
  <2>3. QED
    BY <1>2, <2>1, <2>2 DEF Next, vars
<1>3. Spec => [][TakenBack]_(J!joins)
  BY <1>1, <1>2, PTL DEF Spec
<1>4. QED
  BY <1>3 DEF SavedStays, J!SavedStays, TakenBack

-----------------------------------------------------------------------------
(***************************************************************************)
(* What a join keeps: a profile's id is given once, nothing has become of  *)
(* an activation that has not begun, and a join asks for a network.        *)
(***************************************************************************)
Verdicts == {"none", "activate", "settles", "settling", "watches", "watching", "joined",
             "trying", "failed"}
Attempts == [at : Verdicts, net : Networks \cup {None}, secret : BOOLEAN, saved : Nat,
             act : Nat, added : Nat]
Activated(n) == [at : {"none", "going", "ip", "up", "failing", "over"}, profile : 0 .. n]

ProfilesOK ==
  /\ nextProfile \in Nat
  /\ \A p \in profiles : p.id \in 1 .. nextProfile /\ p.net \in Networks
  /\ \A p, q \in profiles : p.id = q.id => p = q

ActivationsOK ==
  /\ begun \in 0 .. Activations /\ on \in 0 .. begun /\ off \in BOOLEAN
  /\ act \in [1 .. Activations -> Activated(nextProfile)]
  /\ \A a \in 1 .. Activations : a > begun => act[a].at = "none"
  /\ hand.at = "drop" => hand.what \in 0 .. begun

AttemptsOK ==
  /\ join \in [Joiner -> Attempts]
  /\ \A j \in Joiner : join[j].at = "activate" => join[j].net \in Networks
  /\ hand.at \in {"none", "forget", "drop", "enable", "cut"}

JoinsInv == ProfilesOK /\ ActivationsOK /\ AttemptsOK

LEMMA FirstIsNumber ==
  ASSUME ProfilesOK, NEW net
  PROVE  J!First(net) \in Nat
<1> DEFINE ids == {p.id : p \in J!For(net)}
<1>1. CASE J!For(net) = {}
  BY <1>1 DEF J!First
<1>2. CASE J!For(net) # {}
  <2>1. ids \in SUBSET Nat /\ ids # {}
    BY <1>2 DEF J!For, ProfilesOK
  <2>2. \E x \in ids : \A y \in ids : x <= y
    BY <2>1, LeastNumber
  <2>3. J!Min(ids) \in ids
    BY <2>2 DEF J!Min
  <2>4. J!First(net) = J!Min(ids)
    BY <1>2 DEF J!First
  <2> QED
    BY <2>1, <2>3, <2>4
<1> QED
  BY <1>1, <1>2

\* an activation goes on or is over
MovesTo(a, at) == act' = [act EXCEPT ![a].at = at]

LEMMA ActivationMoves ==
  ASSUME ActivationsOK, NEW a \in 1 .. Activations, a <= begun, nextProfile \in Nat,
         NEW at \in {"ip", "up", "failing", "over"}, MovesTo(a, at)
  PROVE  /\ act' \in [1 .. Activations -> Activated(nextProfile)]
         /\ \A b \in 1 .. Activations : b > begun => act'[b].at = "none"
<1>1. act[a] \in Activated(nextProfile)
  BY DEF ActivationsOK
<1>2. [act[a] EXCEPT !.at = at] \in Activated(nextProfile)
  BY <1>1 DEF Activated
<1> QED
  BY <1>2 DEF ActivationsOK, MovesTo

\* those of a kind that go are over, and none that has not begun
LEMMA ActivationsEnd ==
  ASSUME ActivationsOK, nextProfile \in Nat, NEW S
  PROVE  LET ends == [a \in DOMAIN act |-> IF J!Goes(a) /\ a \in S
                                           THEN [act[a] EXCEPT !.at = "over"] ELSE act[a]]
         IN  /\ ends \in [1 .. Activations -> Activated(nextProfile)]
             /\ \A b \in 1 .. Activations : b > begun => ends[b].at = "none"
<1> DEFINE ends == [a \in DOMAIN act |-> IF J!Goes(a) /\ a \in S
                                        THEN [act[a] EXCEPT !.at = "over"] ELSE act[a]]
<1>1. \A a \in 1 .. Activations :
        act[a] \in Activated(nextProfile) /\ [act[a] EXCEPT !.at = "over"] \in Activated(nextProfile)
  BY DEF ActivationsOK, Activated
<1>2. DOMAIN act = 1 .. Activations
  BY DEF ActivationsOK
<1>3. ends \in [1 .. Activations -> Activated(nextProfile)]
  BY <1>1, <1>2
<1>4. \A b \in 1 .. Activations : b > begun => ends[b] = act[b]
  BY <1>2 DEF ActivationsOK, J!Goes
<1>5. \A b \in 1 .. Activations : b > begun => ends[b].at = "none"
  BY <1>4 DEF ActivationsOK
<1> QED
  BY <1>3, <1>5


LEMMA OverActivations ==
  ASSUME ActivationsOK, nextProfile \in Nat, NEW a \in 0 .. begun,
         act' = J!Over(act, a)
  PROVE  /\ act' \in [1 .. Activations -> Activated(nextProfile)]
         /\ \A b \in 1 .. Activations : b > begun => act'[b].at = "none"
<1>1. CASE a = 0
  BY <1>1 DEF J!Over, ActivationsOK
<1>2. CASE a # 0
  <2>1. a \in 1 .. Activations /\ a <= begun
    BY <1>2, JoinsAssumption DEF ActivationsOK
  <2>2. MovesTo(a, "over")
    BY <1>2 DEF J!Over, MovesTo
  <2> QED
    BY <2>1, <2>2, ActivationMoves
<1> QED
  BY <1>1, <1>2

LEMMA DeletesKeeps ==
  ASSUME ProfilesOK, ActivationsOK, NEW id, J!Deletes(id),
         hand' = hand \/ hand'.at = "none"
  PROVE  ProfilesOK' /\ ActivationsOK'
<1>1. ProfilesOK'
  BY DEF ProfilesOK, J!Deletes
<1>2. act' = [a \in DOMAIN act |-> IF J!Goes(a) /\ a \in {b \in DOMAIN act : act[b].profile = id}
                                   THEN [act[a] EXCEPT !.at = "over"] ELSE act[a]]
  BY DEF J!Deletes
<1>3. /\ act' \in [1 .. Activations -> Activated(nextProfile)]
      /\ \A b \in 1 .. Activations : b > begun => act'[b].at = "none"
  BY <1>2, ActivationsEnd DEF ProfilesOK
<1>4. on' \in 0 .. begun /\ UNCHANGED <<nextProfile, begun, off>>
  BY JoinsAssumption DEF J!Deletes, ActivationsOK
<1> QED
  BY <1>1, <1>3, <1>4 DEF ActivationsOK

\* a join that gets to a place, as it is but for the fields named
LEMMA AttemptMoves ==
  ASSUME AttemptsOK, NEW j \in Joiner, NEW r \in Attempts, r.at = "activate" => r.net \in Networks,
         join' = [join EXCEPT ![j] = r], UNCHANGED hand
  PROVE  AttemptsOK'
BY DEF AttemptsOK

LEMMA AttemptGets ==
  ASSUME AttemptsOK, NEW j \in Joiner, NEW at \in Verdicts \ {"activate"},
         join' = [join EXCEPT ![j].at = at], UNCHANGED hand
  PROVE  AttemptsOK'
<1>1. PICK r : r = [join[j] EXCEPT !.at = at]
  OBVIOUS
<1>2. join[j] \in Attempts
  BY DEF AttemptsOK
<1>3. r \in Attempts /\ r.at # "activate"
  BY <1>1, <1>2 DEF Attempts
<1>4. join' = [join EXCEPT ![j] = r]
  BY <1>1, <1>2
<1> QED
  BY <1>3, <1>4, AttemptMoves

LEMMA RefusedKeeps ==
  ASSUME JoinsInv, NEW j \in Joiner, J!Refused(j), UNCHANGED hand
  PROVE  JoinsInv'
<1>1. CASE join[j].at \in {"settles", "settling"}
  <2>1. PICK at \in Verdicts \ {"activate"} : join' = [join EXCEPT ![j].at = at]
    BY <1>1 DEF J!Refused, J!Behind, Verdicts
  <2>2. AttemptsOK'
    BY <2>1, AttemptGets DEF JoinsInv
  <2>3. UNCHANGED <<profiles, nextProfile, act, begun, on, off>>
    BY <1>1 DEF J!Refused, J!wireless
  <2> QED
    BY <2>2, <2>3 DEF JoinsInv, ProfilesOK, ActivationsOK
<1>2. CASE join[j].at \notin {"settles", "settling"}
  <2>1. J!Deletes(join[j].added) /\ join' = [join EXCEPT ![j].at = "failed"]
    BY <1>2 DEF J!Refused
  <2>2. AttemptsOK'
    BY <2>1, AttemptGets DEF JoinsInv, Verdicts
  <2> QED
    BY <2>1, <2>2, DeletesKeeps DEF JoinsInv
<1> QED
  BY <1>1, <1>2

\* a verdict, or none yet
LEMMA LooksKeeps ==
  ASSUME JoinsInv, NEW j \in Joiner, J!Decides(j) \/ J!AsksDevice(j)
  PROVE  JoinsInv'
<1>1. UNCHANGED hand
  BY DEF J!Decides, J!AsksDevice
<1>2. CASE J!Refused(j)
  BY <1>1, <1>2, RefusedKeeps
<1>3. CASE ~J!Refused(j)
  <2>1. UNCHANGED <<profiles, nextProfile, act, begun, on, off>>
    BY <1>3 DEF J!Decides, J!AsksDevice, J!wireless
  <2>2. \E at \in Verdicts \ {"activate"} : join' = [join EXCEPT ![j].at = at]
    BY <1>3 DEF J!Decides, J!AsksDevice, J!Landed, Verdicts
  <2>3. AttemptsOK'
    BY <1>1, <2>2, AttemptGets DEF JoinsInv
  <2> QED
    BY <1>1, <2>1, <2>3 DEF JoinsInv, ProfilesOK, ActivationsOK
<1> QED
  BY <1>2, <1>3


\* the caller's answer, a watch that ends
LEMMA BehindKeeps ==
  ASSUME JoinsInv, NEW j \in Joiner, J!StillTrying(j) \/ J!WatchEnds(j)
  PROVE  JoinsInv'
<1>1. \E at \in Verdicts \ {"activate"} : join' = [join EXCEPT ![j].at = at]
  BY DEF J!StillTrying, J!WatchEnds, J!Behind, Verdicts
<1>2. UNCHANGED <<profiles, nextProfile, act, begun, on, off, hand>>
  BY DEF J!StillTrying, J!WatchEnds, J!wireless
<1>3. AttemptsOK'
  BY <1>1, <1>2, AttemptGets DEF JoinsInv
<1> QED
  BY <1>2, <1>3 DEF JoinsInv, ProfilesOK, ActivationsOK

LEMMA ConnectKeeps ==
  ASSUME JoinsInv, NEW j \in Joiner, NEW net \in Networks, NEW secret \in BOOLEAN,
         J!Connect(j, net, secret)
  PROVE  JoinsInv'
<1>1. J!First(net) \in Nat
  BY FirstIsNumber DEF JoinsInv
<1>2. PICK r : r = [J!Asked EXCEPT !.at = "activate", !.net = net, !.secret = secret,
                                   !.saved = J!First(net)]
  OBVIOUS
<1>3. r \in Attempts /\ r.net \in Networks
  BY <1>1, <1>2 DEF J!Asked, Attempts, Verdicts
<1>4. join' = [join EXCEPT ![j] = r]
  BY <1>2 DEF J!Connect
<1>5. UNCHANGED <<profiles, nextProfile, act, begun, on, off, hand>>
  BY DEF J!Connect, J!wireless
<1>6. AttemptsOK'
  BY <1>3, <1>4, <1>5, AttemptMoves DEF JoinsInv
<1> QED
  BY <1>5, <1>6 DEF JoinsInv, ProfilesOK, ActivationsOK

LEMMA NotConnectedKeeps ==
  ASSUME JoinsInv, NEW j \in Joiner, J!NotConnected(j)
  PROVE  JoinsInv'
<1>1. PICK r : r = [J!Asked EXCEPT !.at = "failed"]
  OBVIOUS
<1>2. r \in Attempts /\ r.at = "failed"
  BY <1>1 DEF J!Asked, Attempts, Verdicts
<1>3. join' = [join EXCEPT ![j] = r]
  BY <1>1 DEF J!NotConnected
<1>4. UNCHANGED <<profiles, nextProfile, act, begun, on, off, hand>>
  BY DEF J!NotConnected, J!wireless
<1>5. AttemptsOK'
  BY <1>2, <1>3, <1>4, AttemptMoves DEF JoinsInv
<1> QED
  BY <1>4, <1>5 DEF JoinsInv, ProfilesOK, ActivationsOK

\* an activation begins of a profile that is saved by then
LEMMA StartsKeeps ==
  ASSUME ActivationsOK, nextProfile \in Nat, nextProfile' \in Nat, nextProfile <= nextProfile',
         NEW id \in 1 .. nextProfile', J!Starts(id), UNCHANGED <<on, off, hand>>
  PROVE  ActivationsOK' /\ begun' \in Nat
<1>1. begun' = begun + 1 /\ begun < Activations /\ begun \in 0 .. Activations
  BY DEF J!Starts, ActivationsOK
<1>2. begun' \in 1 .. Activations
  BY <1>1, JoinsAssumption
<1>3. PICK r : r = [at |-> "going", profile |-> id]
  OBVIOUS
<1>4. r \in Activated(nextProfile')
  BY <1>3 DEF Activated
<1>5. act \in [1 .. Activations -> Activated(nextProfile')]
  <2>1. Activated(nextProfile) \subseteq Activated(nextProfile')
    BY DEF Activated
  <2> QED
    BY <2>1 DEF ActivationsOK
<1>6. act' = [act EXCEPT ![begun'] = r]
  BY <1>3 DEF J!Starts
<1>7. act' \in [1 .. Activations -> Activated(nextProfile')]
  BY <1>2, <1>4, <1>5, <1>6
<1>8. \A a \in 1 .. Activations : a > begun' => act'[a].at = "none"
  BY <1>1, <1>2, <1>5, <1>6, JoinsAssumption DEF ActivationsOK
<1>9. /\ on' \in 0 .. begun' /\ off' \in BOOLEAN
      /\ hand'.at = "drop" => hand'.what \in 0 .. begun'
  BY <1>1, JoinsAssumption DEF ActivationsOK
<1> QED
  BY <1>2, <1>7, <1>8, <1>9 DEF ActivationsOK

LEMMA ActivateKeeps ==
  ASSUME JoinsInv, NEW j \in Joiner,
         J!ActivateConnection(j) \/ J!AddAndActivateConnection(j)
  PROVE  JoinsInv'
<1>1. PICK added : added \in Nat /\ added = IF J!ActivateConnection(j) THEN join[j].added ELSE nextProfile + 1
  BY DEF JoinsInv, AttemptsOK, Attempts, ProfilesOK
<1>2. ProfilesOK' /\ nextProfile' \in Nat /\ nextProfile \in Nat /\ nextProfile <= nextProfile'
  <2>1. CASE J!ActivateConnection(j)
    BY <2>1 DEF J!ActivateConnection, JoinsInv, ProfilesOK
  <2>2. CASE J!AddAndActivateConnection(j)
    <3>1. join[j].net \in Networks
      BY <2>2 DEF J!AddAndActivateConnection, JoinsInv, AttemptsOK
    <3>2. nextProfile \in Nat /\ nextProfile' = nextProfile + 1
      BY <2>2 DEF J!AddAndActivateConnection, JoinsInv, ProfilesOK
    <3>3. PICK new : new = [id |-> nextProfile', net |-> join[j].net]
      OBVIOUS
    <3>4. new.id = nextProfile + 1 /\ new.net \in Networks
      BY <3>1, <3>2, <3>3
    <3>5. profiles' = profiles \cup {new}
      BY <2>2, <3>3 DEF J!AddAndActivateConnection
    <3> QED
      BY ONLY JoinsInv, <3>2, <3>4, <3>5 DEF JoinsInv, ProfilesOK
  <2> QED
    BY <2>1, <2>2
<1>3. \E id \in 1 .. nextProfile' : J!Starts(id)
  <2>1. CASE J!ActivateConnection(j)
    BY <1>2, <2>1 DEF J!ActivateConnection, JoinsInv, ProfilesOK
  <2>2. CASE J!AddAndActivateConnection(j)
    BY <1>2, <2>2 DEF J!AddAndActivateConnection
  <2> QED
    BY <2>1, <2>2
<1>4. UNCHANGED <<on, off, hand>>
  BY DEF J!ActivateConnection, J!AddAndActivateConnection
<1>5. ActivationsOK' /\ begun' \in Nat
  BY <1>2, <1>3, <1>4, StartsKeeps DEF JoinsInv
<1>6. AttemptsOK'
  <2>1. join[j] \in Attempts
    BY DEF JoinsInv, AttemptsOK
  <2>2. PICK r : r = [join[j] EXCEPT !.at = "settles", !.act = begun', !.added = added]
    OBVIOUS
  <2>3. r \in Attempts /\ r.at = "settles"
    BY ONLY <1>1, <1>5, <2>1, <2>2 DEF Attempts, Verdicts
  <2>4. join' = [join EXCEPT ![j] = r]
    <3>1. CASE J!ActivateConnection(j)
      <4>1. r = [join[j] EXCEPT !.at = "settles", !.act = begun']
        BY ONLY <1>1, <2>1, <2>2, <3>1 DEF Attempts
      <4> QED
        BY <3>1, <4>1 DEF J!ActivateConnection
    <3>2. CASE ~J!ActivateConnection(j)
      <4>1. added = nextProfile'
        BY <1>1, <3>2 DEF J!AddAndActivateConnection
      <4> QED
        BY <2>2, <3>2, <4>1 DEF J!AddAndActivateConnection
    <3> QED
      BY <3>1, <3>2
  <2> QED
    BY <1>4, <2>3, <2>4, AttemptMoves DEF JoinsInv
<1> QED
  BY <1>2, <1>5, <1>6 DEF JoinsInv


\* NetworkManager
LEMMA RadioKeeps ==
  ASSUME JoinsInv, NEW a \in 1 .. Activations, J!TakesRadio(a) \/ J!Associates(a) \/ J!Removes(a)
  PROVE  JoinsInv'
<1>1. UNCHANGED <<profiles, nextProfile, begun, off, join, hand>>
  BY DEF J!TakesRadio, J!Associates, J!Removes
<1>2. begun \in Nat /\ on \in 0 .. begun /\ nextProfile \in Nat /\ ActivationsOK
  BY JoinsAssumption DEF JoinsInv, ActivationsOK, ProfilesOK
<1>3. a \in 1 .. begun
  BY <1>2, JoinsAssumption DEF J!TakesRadio, J!Associates, J!Removes, ActivationsOK
<1>4. on' \in 0 .. begun
  BY <1>2, <1>3 DEF J!TakesRadio, J!Associates, J!Removes
<1>5. /\ act' \in [1 .. Activations -> Activated(nextProfile)]
      /\ \A b \in 1 .. Activations : b > begun => act'[b].at = "none"
  <2>1. CASE J!TakesRadio(a)
    <3>1. act' = J!Over(act, on)
      BY <2>1 DEF J!TakesRadio
    <3> QED
      BY <1>2, <3>1, OverActivations
  <2>2. CASE J!Associates(a) \/ J!Removes(a)
    <3>1. PICK at \in {"ip", "up", "failing", "over"} : MovesTo(a, at)
      BY <2>2 DEF J!Associates, J!Removes, MovesTo
    <3>2. a <= begun
      BY <1>2, <1>3
    <3> QED
      BY <1>2, <3>1, <3>2, ActivationMoves
  <2> QED
    BY <2>1, <2>2
<1> QED
  BY <1>1, <1>2, <1>4, <1>5 DEF JoinsInv, ProfilesOK, ActivationsOK, AttemptsOK

\* a person
LEMMA HandKeeps ==
  ASSUME JoinsInv,
         \/ \E net \in Networks : J!Forget(net)
         \/ J!Forgets \/ J!Disconnect \/ J!Deactivates \/ J!Kill \/ J!Enables
  PROVE  JoinsInv'
<1>1. UNCHANGED join /\ hand'.at \in {"none", "forget", "drop", "enable", "cut"}
  BY DEF J!Forget, J!Forgets, J!Disconnect, J!Deactivates, J!Kill, J!Enables, J!Looks, J!HandRests
<1>2. AttemptsOK'
  BY <1>1 DEF JoinsInv, AttemptsOK
<1>3. CASE (\E net \in Networks : J!Forget(net)) \/ J!Disconnect \/ J!Kill
  <2>1. UNCHANGED <<profiles, nextProfile, act, begun, on, off>>
    BY <1>3 DEF J!Forget, J!Disconnect, J!Kill, J!wireless
  <2>2. hand'.at = "drop" => hand'.what \in 0 .. begun
    BY <1>3 DEF J!Forget, J!Disconnect, J!Kill, J!Looks, JoinsInv, ActivationsOK
  <2> QED
    BY <1>2, <2>1, <2>2 DEF JoinsInv, ProfilesOK, ActivationsOK
<1>4. CASE J!Forgets
  BY <1>2, <1>4, DeletesKeeps DEF J!Forgets, J!HandRests, JoinsInv
<1>5. CASE J!Deactivates
  <2>1. UNCHANGED <<profiles, nextProfile, begun, off>> /\ hand'.at = "none"
    BY <1>5 DEF J!Deactivates, J!HandRests
  <2>2. begun \in Nat /\ on \in 0 .. begun /\ nextProfile \in Nat /\ ActivationsOK
    BY JoinsAssumption DEF JoinsInv, ActivationsOK, ProfilesOK
  <2>3. on' \in 0 .. begun
    BY <1>5, <2>2 DEF J!Deactivates
  <2>4. act' = J!Over(act, hand.what)
    BY <1>5 DEF J!Deactivates
  <2>5. hand.what \in 0 .. begun
    BY <1>5 DEF J!Deactivates, JoinsInv, ActivationsOK
  <2>6. /\ act' \in [1 .. Activations -> Activated(nextProfile)]
        /\ \A b \in 1 .. Activations : b > begun => act'[b].at = "none"
    BY <2>2, <2>4, <2>5, OverActivations
  <2> QED
    BY <1>2, <2>1, <2>2, <2>3, <2>6 DEF JoinsInv, ProfilesOK, ActivationsOK
<1>6. CASE J!Enables
  <2>1. UNCHANGED <<profiles, nextProfile, begun>> /\ off' \in BOOLEAN /\ hand'.at = "none"
    BY <1>6 DEF J!Enables, J!HandRests
  <2>2. begun \in Nat /\ on \in 0 .. begun /\ nextProfile \in Nat /\ ActivationsOK
    BY JoinsAssumption DEF JoinsInv, ActivationsOK, ProfilesOK
  <2>3. on' \in 0 .. begun
    BY <1>6, <2>2 DEF J!Enables
  <2>4. /\ act' \in [1 .. Activations -> Activated(nextProfile)]
        /\ \A b \in 1 .. Activations : b > begun => act'[b].at = "none"
    <3>1. CASE act' = act
      BY <2>2, <3>1 DEF ActivationsOK
    <3>2. CASE act' # act
      <4>1. act' = [a \in DOMAIN act |-> IF J!Goes(a) THEN [act[a] EXCEPT !.at = "over"] ELSE act[a]]
        BY <1>6, <3>2 DEF J!Enables
      <4>2. act' = [a \in DOMAIN act |-> IF J!Goes(a) /\ a \in DOMAIN act
                                         THEN [act[a] EXCEPT !.at = "over"] ELSE act[a]]
        BY <4>1
      <4> QED
        BY <2>2, <4>2, ActivationsEnd
    <3> QED
      BY <3>1, <3>2
  <2> QED
    BY <1>2, <2>1, <2>2, <2>3, <2>4 DEF JoinsInv, ProfilesOK, ActivationsOK
<1> QED
  BY <1>3, <1>4, <1>5, <1>6

LEMMA JoinsInductive == Spec => [](JoinsInv)
<1>1. Init => JoinsInv
  <2> SUFFICES ASSUME Init PROVE JoinsInv
    OBVIOUS
  <2>1. J!Asked \in Attempts /\ J!Asked.at = "none"
    BY DEF J!Asked, Attempts, Verdicts
  <2>2. AttemptsOK
    BY <2>1 DEF Init, J!InitJoins, AttemptsOK
  <2>3. ActivationsOK
    <3>1. PICK r : r = [at |-> "none", profile |-> 0]
      OBVIOUS
    <3>2. r \in Activated(1) /\ r.at = "none"
      BY <3>1 DEF Activated
    <3>3. act = [a \in 1 .. Activations |-> r] /\ nextProfile = 1
      BY <3>1 DEF Init, J!InitJoins
    <3>4. begun = 0 /\ on = 0 /\ off = FALSE /\ hand.at = "none"
      BY DEF Init, J!InitJoins
    <3>5. act \in [1 .. Activations -> Activated(nextProfile)]
      BY <3>2, <3>3
    <3>6. \A a \in 1 .. Activations : act[a].at = "none"
      BY <3>2, <3>3
    <3>7. begun \in 0 .. Activations /\ on \in 0 .. begun
      BY <3>4, JoinsAssumption
    <3>8. off \in BOOLEAN
      BY <3>4, Zenon
    <3> QED
      BY <3>4, <3>5, <3>6, <3>7, <3>8 DEF ActivationsOK
  <2>4. ProfilesOK
    BY JoinsAssumption DEF Init, J!InitJoins, ProfilesOK
  <2> QED
    BY <2>2, <2>3, <2>4 DEF JoinsInv
<1>2. JoinsInv /\ [Next]_vars => JoinsInv'
  <2> SUFFICES ASSUME JoinsInv, [Next]_vars PROVE JoinsInv'
    OBVIOUS
  <2>1. CASE J!NextJoins
    BY <2>1, RadioKeeps, HandKeeps, LooksKeeps, BehindKeeps, ConnectKeeps, NotConnectedKeeps,
       ActivateKeeps DEF J!NextJoins
  <2>2. CASE UNCHANGED ofJ
    BY <2>2 DEF ofJ, JoinsInv, ProfilesOK, ActivationsOK, AttemptsOK
  <2> QED
    BY <2>1, <2>2 DEF Next, vars
<1> QED
  BY <1>1, <1>2, PTL DEF Spec

LEMMA JoinsTypes == JoinsInv => J!TypeOK
BY DEF JoinsInv, ProfilesOK, ActivationsOK, Activated, AttemptsOK, Attempts, Verdicts, J!TypeOK

-----------------------------------------------------------------------------
(***************************************************************************)
(* What an answer about power says.  While a request goes on, what has     *)
(* stood all along stands, and what stands has been seen; each place says  *)
(* what has been read of it by then.                                       *)
(***************************************************************************)
Ats == {"none", "sessions", "mine", "inhibitors", "windows", "unqueued", "verb",
        "locker", "config", "show", "switch", "lock", "spawned", "answered"}
Errs == {"no", "auth", "denied", "blocked", "logind", "whose", "failed"}
Saids == Errs \cup {"nothing", "menu", "idle", "unknown", "held", "authority", "started",
                    "locking", "no_locker", "not_run"}
Rows == (W!What \cup {"idle"}) \X W!Facts

Requests ==
  [at : Ats, for : W!What \cup {"menu", "idle", "lock", "preset"}, rows : SUBSET Sessions,
   mine : Sessions \cup {None}, err : Errs, read : BOOLEAN, known : BOOLEAN,
   names : SUBSET Rows, count : Nat, said : Saids, moved : BOOLEAN, under : {"nothing", "here", "preset"},
   kept : SUBSET W!Facts, stood : SUBSET (W!Facts \cup {"walked"})]

Untold(p) == {"private", "broken"} \cap p.kept = {}

PlaceOK(p, w, s) ==
  /\ p.at \notin {"none", "answered"} => p.kept \subseteq w /\ w \subseteq p.stood
  /\ p.at \in {"sessions", "mine", "inhibitors", "verb"} =>
       p.names = {} /\ p.said = "nothing" /\ ~p.read /\ ~p.known /\ p.for \notin {"lock", "preset"}
  /\ p.at = "verb" => p.for \in W!What /\ p.err = "no"
  /\ p.at \in {"mine", "inhibitors"} => p.rows \subseteq p.stood /\ p.kept \cap Sessions \subseteq p.rows
  /\ p.at = "inhibitors" => p.mine = None \/ UserOf[p.mine] = Me
  /\ p.at \in {"windows", "unqueued"} => p.for = "menu" /\ p.said # "idle" /\ W!MenuIsTrue(p)
  /\ p.at \in {"locker", "config", "show", "switch", "lock", "spawned"} =>
       p.for \in {"lock", "preset"} /\ p.under = "nothing"
  /\ p.at \in {"locker", "config", "show", "switch"} => ~p.moved
  /\ p.at \in {"config", "show", "switch"} => "locker" \in p.stood
  /\ p.at = "switch" => Untold(p)
  /\ p.at = "spawned" => p.said = "locking" /\ p.names = {}
  /\ p.at \in {"lock", "spawned"} /\ p.moved =>
       Untold(p) /\ "locker" \in p.stood /\ (s = "preset" \/ "walked" \in p.stood)
  /\ p.at = "answered" =>
       W!MenuIsTrue(p) /\ W!RefusalIsTrue(p) /\ W!IdleIsTrue(p) /\ W!LockTakesIt(p)

PowerInv ==
  /\ press \in [Key -> Requests] /\ world \subseteq W!Facts
  /\ env \in {None, Own} /\ screen \in {"here", "preset"}
  /\ \A k \in Key : PlaceOK(press[k], world, screen)
  /\ \A s \in ended : UserOf[s] = Me

\* one request goes on, and the world stays
Turned(k) ==
  /\ press' \in [Key -> Requests] /\ \A j \in Key \ {k} : press'[j] = press[j]
  /\ UNCHANGED <<world, env, ended>> /\ screen' \in {screen, "preset"}

LEMMA PressStep ==
  ASSUME PowerInv, NEW k \in Key, Turned(k), PlaceOK(press'[k], world, screen')
  PROVE  PowerInv'
<1>1. ASSUME NEW j \in Key
      PROVE  PlaceOK(press'[j], world, screen')
  BY DEF PowerInv, Turned, PlaceOK
<1>2. QED
  BY <1>1 DEF PowerInv, Turned

\* what is seen of a world that changed under a request
LEMMA SeenOK ==
  ASSUME PowerInv, NEW k \in Key, NEW v \in SUBSET (W!Facts \cup {"walked"}), NEW w \in SUBSET W!Facts,
         NEW s \in {"here", "preset"}, v \cap W!Facts \subseteq w, w \subseteq v,
         s = screen \/ "walked" \in v
  PROVE  W!Seen(k, v) \in Requests /\ PlaceOK(W!Seen(k, v), w, s)
<1> DEFINE p == press[k]
           q == [p EXCEPT !.kept = @ \cap v, !.stood = @ \cup v]
<1>1. p \in Requests /\ PlaceOK(p, world, screen)
  BY DEF PowerInv
<1>2. CASE p.at \in {"none", "answered"}
  <2>1. W!Seen(k, v) = p
    BY <1>2 DEF W!Seen
  <2>2. PlaceOK(p, w, s)
    BY <1>1, <1>2 DEF PlaceOK
  <2>3. QED
    BY <1>1, <2>1, <2>2
<1>3. CASE p.at \notin {"none", "answered"}
  <2>1. W!Seen(k, v) = q
    BY <1>3 DEF W!Seen
  <2>2. /\ q \in Requests
        /\ q.at = p.at /\ q.for = p.for /\ q.rows = p.rows /\ q.mine = p.mine /\ q.err = p.err
        /\ q.read = p.read /\ q.known = p.known /\ q.names = p.names /\ q.said = p.said
        /\ q.moved = p.moved /\ q.under = p.under
        /\ q.kept = p.kept \cap v /\ q.stood = p.stood \cup v
    BY <1>1 DEF Requests
  <2> HIDE DEF q, p
  <2>3. q.kept \subseteq w /\ w \subseteq q.stood
    BY <1>1, <2>2 DEF Requests
  <2>4. W!MenuIsTrue(p) => W!MenuIsTrue(q)
    BY <2>2 DEF W!MenuIsTrue
  <2>5. PlaceOK(q, w, s)
    BY <1>1, <1>3, <2>2, <2>3, <2>4 DEF PlaceOK, Untold
  <2>6. QED
    BY <2>1, <2>2, <2>5
<1>4. QED
  BY <1>2, <1>3

-----------------------------------------------------------------------------
(***************************************************************************)
(* What is said, of what has been read.                                    *)
(***************************************************************************)
\* ours among the rows, or nobody's
LEMMA OthersArePeople ==
  ASSUME NEW rows \in SUBSET Sessions, NEW mine \in Sessions \cup {None},
         mine = None \/ UserOf[mine] = Me
  PROVE  /\ W!Others(rows, mine) \subseteq rows
         /\ \A s \in W!Others(rows, mine) : mine \in rows => W!Person(s)
         /\ \A s \in rows : W!Person(s) => s \in W!Others(rows, mine)
BY PowerAssumption DEF W!Others, W!Person, W!Facts

\* what the inhibitors listed have to do with those that stand
Listed(blocks, read, w) ==
  /\ blocks \subseteq {i \in w \cap Inhibitors : ModeOf[i] = "block"}
  /\ read => blocks = {i \in w \cap Inhibitors : ModeOf[i] = "block"}

LEMMA CostsAreTrue ==
  ASSUME NEW p \in Requests, NEW w \in SUBSET W!Facts, NEW blocks, NEW read \in BOOLEAN, NEW q \in Requests,
         Listed(blocks, read, w), p.kept \subseteq w, w \subseteq p.stood,
         p.rows \subseteq p.stood, p.kept \cap Sessions \subseteq p.rows,
         p.mine = None \/ UserOf[p.mine] = Me,
         q.kept = p.kept, q.stood = p.stood, q.known = (p.mine \in p.rows), q.read = read,
         q.names = W!Costs(p.rows, p.mine, blocks)
  PROVE  W!MenuIsTrue(q)
<1>1. p.rows \in SUBSET Sessions /\ p.mine \in Sessions \cup {None}
  BY DEF Requests
<1>2. /\ W!Others(p.rows, p.mine) \subseteq p.rows
      /\ \A s \in W!Others(p.rows, p.mine) : p.mine \in p.rows => W!Person(s)
      /\ \A s \in p.rows : W!Person(s) => s \in W!Others(p.rows, p.mine)
  BY <1>1, OthersArePeople
<1>3. ASSUME NEW v \in W!What, NEW f \in q.kept,
             W!Concerns(v, f), f \in Inhibitors => q.read
      PROVE  <<v, f>> \in q.names
  <2>1. CASE W!InTheWay(f, v)
    <3>1. f \in W!Blocking(blocks, v) /\ f \in Inhibitors
      BY <1>3, <2>1 DEF W!InTheWay, W!Blocking, Listed
    <3>2. QED
      BY <3>1 DEF W!Costs
  <2>2. CASE v \in {"reboot", "poweroff"} /\ W!Person(f)
    <3>1. f \in W!Others(p.rows, p.mine)
      BY <1>2, <2>2 DEF W!Person
    <3>2. QED
      BY <2>2, <3>1 DEF W!Costs
  <2>3. QED
    BY <1>3, <2>1, <2>2 DEF W!Concerns
<1>4. ASSUME NEW n \in q.names
      PROVE  /\ n[2] \in q.stood
             /\ W!Concerns(n[1], n[2]) \/ (~q.known /\ n[2] \in Sessions)
  <2>1. CASE n \in {"reboot", "poweroff"} \X W!Others(p.rows, p.mine)
    BY <1>1, <1>2, <2>1 DEF W!Concerns
  <2>2. CASE n \in W!What \X Inhibitors /\ n[2] \in W!Blocking(blocks, n[1])
    BY <2>2 DEF W!Concerns, W!InTheWay, W!Blocking, Listed
  <2>3. QED
    BY <2>1, <2>2 DEF W!Costs
<1>5. QED
  BY <1>3, <1>4 DEF W!MenuIsTrue

LEMMA CountedAsUsual == \A S : W!Cardinality(S) = Cardinality(S)
BY DEF W!Cardinality, Cardinality

\* no more of some inhibitors than of those they are among
LEMMA FewerOfThem ==
  ASSUME NEW S, NEW T, S \subseteq T, T \subseteq Inhibitors
  PROVE  /\ IsFiniteSet(T) /\ W!Cardinality(S) \in Nat /\ W!Cardinality(T) \in Nat
         /\ W!Cardinality(S) <= W!Cardinality(T)
<1>1. IsFiniteSet(T)
  BY PowerAssumption, FS_Subset
<1>2. /\ IsFiniteSet(S) /\ Cardinality(S) \in Nat /\ Cardinality(T) \in Nat
      /\ Cardinality(S) <= Cardinality(T)
  BY <1>1, FS_Subset, FS_CardinalityType
<1>3. QED
  BY <1>1, <1>2, CountedAsUsual

LEMMA BecauseIsTrue ==
  ASSUME NEW p \in Requests, NEW w \in SUBSET W!Facts, NEW blocks, NEW read \in BOOLEAN, NEW q \in Requests,
         NEW rows \in SUBSET Sessions, NEW mine \in Sessions \cup {None}, NEW a,
         Listed(blocks, read, w), p.kept \subseteq w, w \subseteq p.stood,
         rows \subseteq p.stood, mine = None \/ UserOf[mine] = Me,
         p.for \in W!What, a \in W!Because(p.for, p.err, rows, mine, blocks),
         q.for = p.for, q.err = p.err, q.kept = p.kept, q.stood = p.stood,
         q.known = (mine \in rows), q.read = read,
         q.said = a.said, q.names = a.names, q.count = a.count
  PROVE  W!RefusalIsTrue(q) /\ q.said # "idle"
<1> DEFINE bars == W!Blocking(blocks, p.for)
           blockers == {i \in q.kept : W!InTheWay(i, q.for)}
           others == W!Others(rows, mine)
<1>1. /\ bars \subseteq Inhibitors /\ bars \subseteq q.stood
      /\ \A i \in bars : W!InTheWay(i, q.for)
      /\ read => blockers \subseteq bars
  BY DEF W!Blocking, Listed, W!InTheWay
<1>2. /\ W!Cardinality(bars) \in Nat
      /\ read => W!Cardinality(blockers) \in Nat /\ W!Cardinality(blockers) <= W!Cardinality(bars)
  BY <1>1, FewerOfThem
<1>3. others \subseteq rows /\ \A s \in others : mine \in rows => W!Person(s)
  BY OthersArePeople
<1>4. blockers = {} => W!Cardinality(blockers) = 0
  BY CountedAsUsual, FS_EmptySet
<1>5. \/ /\ bars = {} /\ p.err = "blocked" /\ a.said = "held" /\ a.names = {} /\ a.count = 0
      \/ /\ p.err \in {"blocked", "denied"} /\ a.said = "held" /\ a.count = W!Cardinality(bars)
         /\ \E f \in bars : a.names = {<<p.for, f>>}
      \/ /\ p.err = "denied" => bars = {}
         /\ p.err # "blocked" /\ a.said = "authority" /\ a.names = {<<p.for, s>> : s \in others}
      \/ p.err \notin {"blocked", "denied"} /\ a.said = p.err /\ a.names = {}
  BY DEF W!Because, W!Says, W!NeedsAdmin
<1>6. p.err # "idle" /\ p.err # "held" /\ p.err # "authority"
  BY DEF Requests, Errs
<1>7. \A n \in q.names : n[2] \in q.stood
  BY <1>1, <1>3, <1>5
<1>8. q.said = "held" => \A n \in q.names : W!InTheWay(n[2], q.for)
  BY <1>1, <1>5, <1>6
<1>9. q.said = "held" /\ q.read => q.count >= W!Cardinality(blockers)
  BY <1>1, <1>2, <1>4, <1>5, <1>6
<1>10. q.said = "authority" => \A n \in q.names : W!Person(n[2]) \/ ~q.known
  <2>1. q.said = "authority" => \A n \in q.names : n[2] \in others
    BY <1>5, <1>6
  <2>2. QED
    BY <1>3, <2>1
<1>11. q.err \in {"blocked", "denied"} /\ q.read /\ blockers # {} => q.said = "held"
  BY <1>1, <1>5
<1>12. QED
  BY <1>5, <1>6, <1>7, <1>8, <1>9, <1>10, <1>11 DEF W!RefusalIsTrue

LEMMA HoldsAreTrue ==
  ASSUME NEW p \in Requests, NEW w \in SUBSET W!Facts, NEW blocks, NEW read \in BOOLEAN, NEW q \in Requests,
         NEW a, Listed(blocks, read, w), p.kept \subseteq w, w \subseteq p.stood,
         a \in W!IdleHolds(W!HoldingIdle(blocks)),
         q.kept = p.kept, q.stood = p.stood, q.read = read,
         q.names = a.names, q.count = a.count
  PROVE  W!IdleIsTrue(q)
<1> DEFINE holds == W!HoldingIdle(blocks)
           known == {i \in q.kept \cap Inhibitors : ModeOf[i] = "block" /\ W!HoldsIdle(i)}
<1>1. PICK some \in SUBSET holds : a = W!Says("idle", {"idle"} \X some, W!Cardinality(holds))
  BY DEF W!IdleHolds, W!kSubset
<1>2. a.names = {"idle"} \X some /\ a.count = W!Cardinality(holds)
  BY <1>1 DEF W!Says
<1>3. holds \subseteq Inhibitors /\ holds \subseteq q.stood /\ (read => known \subseteq holds)
  BY DEF W!HoldingIdle, Listed
<1>4. /\ W!Cardinality(holds) \in Nat /\ IsFiniteSet(holds)
      /\ read => W!Cardinality(known) \in Nat /\ W!Cardinality(known) <= W!Cardinality(holds)
  BY <1>3, FewerOfThem
<1>5. W!Cardinality({"idle"} \X some) \in Nat /\ W!Cardinality({"idle"} \X some) <= W!Cardinality(holds)
  <2>1. IsFiniteSet(some) /\ Cardinality(some) \in Nat /\ Cardinality(some) <= Cardinality(holds)
        /\ Cardinality(holds) \in Nat
    BY <1>4, FS_Subset, FS_CardinalityType
  <2>2. IsFiniteSet({"idle"}) /\ Cardinality({"idle"}) = 1
    BY FS_Singleton
  <2>3. Cardinality({"idle"} \X some) = 1 * Cardinality(some)
    BY <2>1, <2>2, FS_Product
  <2>4. QED
    BY <2>1, <2>3, CountedAsUsual
<1>6. QED
  BY <1>2, <1>3, <1>4, <1>5 DEF W!IdleIsTrue

-----------------------------------------------------------------------------
(***************************************************************************)
(* One request's steps.                                                    *)
(***************************************************************************)
Puts(k, q) == press' = [press EXCEPT ![k] = q]
Still == UNCHANGED <<world, env, screen, ended>>

LEMMA PutStep ==
  ASSUME PowerInv, NEW k \in Key, NEW q \in Requests, Puts(k, q), UNCHANGED <<world, env, ended>>,
         screen' \in {screen, "preset"}, PlaceOK(q, world, screen')
  PROVE  PowerInv'
<1>1. Turned(k) /\ press'[k] = q
  BY DEF Turned, Puts, PowerInv
<1>2. QED
  BY <1>1, PressStep

\* what a place alone changes nothing of
Like(q, p) ==
  /\ q.for = p.for /\ q.rows = p.rows /\ q.mine = p.mine /\ q.err = p.err /\ q.read = p.read
  /\ q.known = p.known /\ q.names = p.names /\ q.count = p.count /\ q.said = p.said
  /\ q.kept = p.kept /\ q.stood = p.stood /\ q.under = p.under

LEMMA ToStep ==
  ASSUME PowerInv, NEW k \in Key, NEW at \in {"windows", "unqueued", "config", "show", "switch", "lock"},
         W!To(k, at), Still,
         \/ at = "windows" /\ press[k].at = "sessions" /\ press[k].for = "menu"
         \/ at = "unqueued" /\ press[k].at = "windows"
         \/ at = "config" /\ press[k].at = "locker" /\ "locker" \in world
         \/ at = "show" /\ press[k].at = "config"
         \/ at = "switch" /\ press[k].at = "show" /\ {"private", "broken"} \cap world = {}
         \/ at = "lock" /\ press[k].at \in {"config", "show", "switch"}
  PROVE  PowerInv'
<1> DEFINE p == press[k]
           q == [p EXCEPT !.at = at]
<1>1. p \in Requests /\ PlaceOK(p, world, screen)
  BY DEF PowerInv
<1>2. q \in Requests /\ q.at = at /\ q.moved = p.moved /\ Like(q, p)
  BY <1>1 DEF Requests, Ats, Like
<1>3. Puts(k, q)
  BY DEF W!To, Puts, PowerInv
<1> HIDE DEF q
<1>4. W!MenuIsTrue(q)
  <2>1. CASE p.names = {} /\ p.said = "nothing"
    BY <1>2, <2>1 DEF Like, W!MenuIsTrue
  <2>2. CASE W!MenuIsTrue(p)
    BY <1>2, <2>2 DEF Like, W!MenuIsTrue
  <2>3. CASE p.for # "menu"
    BY <1>2, <2>3 DEF Like, W!MenuIsTrue
  <2>4. QED
    BY <1>1, <2>1, <2>2, <2>3 DEF PlaceOK
<1>5. PlaceOK(q, world, screen)
  BY <1>1, <1>2, <1>4 DEF PlaceOK, Like, Untold
<1>6. QED
  BY <1>2, <1>3, <1>5, PutStep DEF Still

\* an answer, and the request it is an answer to
Speech(a) == a.said \in Saids /\ a.names \in SUBSET Rows /\ a.count \in Nat

Answering(q, p, a) ==
  /\ q \in Requests /\ q.at = "answered" /\ q.for = p.for /\ q.err = p.err /\ q.read = p.read
  /\ q.known = p.known /\ q.moved = p.moved /\ q.under = p.under
  /\ q.kept = p.kept /\ q.stood = p.stood
  /\ q.said = a.said /\ q.names = a.names /\ q.count = a.count

LEMMA AnswerIs ==
  ASSUME NEW p \in Requests, NEW a, Speech(a)
  PROVE  Answering(W!Answered(p, a), p, a)
BY DEF Requests, Ats, Speech, W!Answered, Answering

LEMMA NamesNobody ==
  ASSUME NEW a, a.said \in Saids, a.names = {}, a.count = 0
  PROVE  Speech(a)
BY DEF Speech

LEMMA SilentAnswer ==
  ASSUME PowerInv, NEW k \in Key, NEW a, W!Answer(k, a), Still, a.names = {}, a.count = 0,
         \/ press[k].at = "verb" /\ a.said = "started"
         \/ press[k].at = "sessions" /\ press[k].for = "idle" /\ a.said = "unknown"
         \/ press[k].at = "locker" /\ "locker" \notin world /\ a.said = "no_locker"
  PROVE  PowerInv'
<1> DEFINE p == press[k]
           q == W!Answered(p, a)
<1>1. p \in Requests /\ PlaceOK(p, world, screen)
  BY DEF PowerInv
<1>2. Answering(q, p, a)
  <2>1. a.said \in Saids
    BY DEF Saids
  <2>2. Speech(a)
    BY <2>1, NamesNobody
  <2>3. QED
    BY <1>1, <2>2, AnswerIs
<1>3. Puts(k, q)
  BY DEF W!Answer, Puts, PowerInv
<1> HIDE DEF q
<1>4. /\ q.names = {} /\ q.said \notin {"idle", "menu", "held", "authority", "locking"}
      /\ q.for \in W!What => q.err \notin {"blocked", "denied"}
      /\ q.for \in {"lock", "preset"} => ~q.moved /\ q.under = "nothing" /\ "locker" \notin q.kept
  BY <1>1, <1>2 DEF Answering, PlaceOK, Untold, W!What
<1>5. W!MenuIsTrue(q) /\ W!RefusalIsTrue(q) /\ W!IdleIsTrue(q) /\ W!LockTakesIt(q)
  BY <1>4 DEF W!MenuIsTrue, W!RefusalIsTrue, W!IdleIsTrue, W!LockTakesIt, Untold
<1>6. PlaceOK(q, world, screen) /\ q \in Requests
  BY <1>2, <1>5 DEF PlaceOK, Answering
<1>7. QED
  BY <1>3, <1>6, PutStep DEF Still

LEMMA AsksPower ==
  ASSUME PowerInv, NEW k \in Key, NEW for \in W!What \cup {"menu", "idle", "lock", "preset"}, NEW at \in Ats,
         W!Asks(k, for, at),
         \/ at = "sessions" /\ for \in {"menu", "idle"}
         \/ at = "verb" /\ for \in W!What
         \/ at = "lock" /\ for = "lock"
         \/ at = "locker" /\ for = "preset"
  PROVE  PowerInv'
<1> DEFINE q == [W!Rest EXCEPT !.at = at, !.for = for, !.kept = world, !.stood = world]
<1>1. world \in SUBSET W!Facts /\ world \in SUBSET (W!Facts \cup {"walked"})
  BY DEF PowerInv
<1>2. /\ q \in Requests /\ q.at = at /\ q.for = for /\ q.kept = world /\ q.stood = world
      /\ q.names = {} /\ q.said = "nothing" /\ q.err = "no" /\ ~q.read /\ ~q.known /\ ~q.moved
      /\ q.under = "nothing"
  BY <1>1 DEF W!Rest, Requests, Errs, Saids
<1>3. Puts(k, q) /\ Still
  BY DEF W!Asks, Puts, Still
<1> HIDE DEF q
<1>4. PlaceOK(q, world, screen)
  BY <1>2 DEF PlaceOK, W!What
<1>5. QED
  BY <1>2, <1>3, <1>4, PutStep DEF Still

LEMMA ListSessionsPower ==
  ASSUME PowerInv, NEW k \in Key, W!ListSessions(k)
  PROVE  PowerInv'
<1> DEFINE p == press[k]
           q == [p EXCEPT !.at = "mine", !.rows = world \cap Sessions]
<1>1. p \in Requests /\ PlaceOK(p, world, screen) /\ p.at = "sessions" /\ world \cap Sessions \in SUBSET Sessions
  BY DEF PowerInv, W!ListSessions, W!Goes
<1>2. /\ q \in Requests /\ q.at = "mine" /\ q.rows = world \cap Sessions
      /\ q.for = p.for /\ q.err = p.err /\ q.kept = p.kept /\ q.stood = p.stood
      /\ q.names = p.names /\ q.said = p.said /\ q.read = p.read /\ q.known = p.known
  BY <1>1 DEF Requests, Ats
<1>3. Puts(k, q) /\ Still
  BY DEF W!ListSessions, Puts, Still, PowerInv
<1> HIDE DEF q
<1>4. PlaceOK(q, world, screen)
  BY <1>1, <1>2 DEF PlaceOK
<1>5. QED
  BY <1>2, <1>3, <1>4, PutStep DEF Still

\* this session, when it can be told, is of the user asking
LEMMA MyIDsAreMine ==
  ASSUME PowerInv, NEW id \in W!MyIDs
  PROVE  id \in Sessions \cup {None} /\ (id = None \/ UserOf[id] = Me)
BY PowerAssumption DEF PowerInv, W!MyIDs, W!Facts

LEMMA MyIDPower ==
  ASSUME PowerInv, NEW k \in Key, W!MyID(k)
  PROVE  PowerInv'
<1>1. PICK id \in W!MyIDs : press' = [press EXCEPT ![k].at = "inhibitors", ![k].mine = id]
  BY DEF W!MyID
<1> DEFINE p == press[k]
           q == [p EXCEPT !.at = "inhibitors", !.mine = id]
<1>2. p \in Requests /\ PlaceOK(p, world, screen) /\ p.at = "mine"
  BY DEF PowerInv, W!MyID, W!Goes
<1>3. id \in Sessions \cup {None} /\ (id = None \/ UserOf[id] = Me)
  BY MyIDsAreMine
<1>4. /\ q \in Requests /\ q.at = "inhibitors" /\ q.mine = id /\ q.rows = p.rows
      /\ q.for = p.for /\ q.err = p.err /\ q.kept = p.kept /\ q.stood = p.stood
      /\ q.names = p.names /\ q.said = p.said /\ q.read = p.read /\ q.known = p.known
  BY <1>2, <1>3 DEF Requests, Ats
<1>5. Puts(k, q) /\ Still
  BY <1>1 DEF Puts, Still, PowerInv, W!MyID
<1> HIDE DEF q
<1>6. PlaceOK(q, world, screen)
  BY <1>2, <1>3, <1>4 DEF PlaceOK
<1>7. QED
  BY <1>4, <1>5, <1>6, PutStep DEF Still

\* what a menu, an idle hold and a refusal are made of
LEMMA SpeechOf ==
  ASSUME NEW p \in Requests, NEW rows \in SUBSET Sessions, NEW mine, NEW blocks \in SUBSET Inhibitors
  PROVE  /\ Speech(W!Says("menu", W!Costs(rows, mine, blocks), 0))
         /\ \A a \in W!IdleHolds(W!HoldingIdle(blocks)) : Speech(a) /\ a.said = "idle"
         /\ p.for \in W!What => \A a \in W!Because(p.for, p.err, rows, mine, blocks) : Speech(a)
<1>1. /\ W!Others(rows, mine) \subseteq W!Facts
      /\ \A v : W!Blocking(blocks, v) \subseteq Inhibitors
      /\ W!HoldingIdle(blocks) \subseteq Inhibitors /\ Inhibitors \subseteq W!Facts
  BY DEF W!Others, W!Blocking, W!HoldingIdle, W!Facts
<1>2. /\ W!Cardinality(W!HoldingIdle(blocks)) \in Nat
      /\ \A v : W!Cardinality(W!Blocking(blocks, v)) \in Nat
  BY <1>1, FewerOfThem
<1>3. W!Cardinality(W!Others(rows, mine)) \in Nat
  <2>1. W!Others(rows, mine) \subseteq Sessions
    BY DEF W!Others
  <2>2. QED
    BY <2>1, PowerAssumption, FS_Subset, FS_CardinalityType, CountedAsUsual
<1>4. W!Costs(rows, mine, blocks) \subseteq Rows
  BY <1>1 DEF W!Costs, Rows, W!What
<1>5. ASSUME NEW a \in W!IdleHolds(W!HoldingIdle(blocks))
      PROVE  Speech(a) /\ a.said = "idle"
  <2>1. PICK some \in SUBSET W!HoldingIdle(blocks) :
          a = W!Says("idle", {"idle"} \X some, W!Cardinality(W!HoldingIdle(blocks)))
    BY DEF W!IdleHolds, W!kSubset
  <2>2. QED
    BY <1>1, <1>2, <2>1 DEF W!Says, Speech, Rows, Saids
<1>6. ASSUME p.for \in W!What, NEW a \in W!Because(p.for, p.err, rows, mine, blocks)
      PROVE  Speech(a)
  <2>1. p.err \in Errs
    BY DEF Requests
  <2>2. \/ a.said = "held" /\ a.names = {} /\ a.count = 0
        \/ /\ a.said = "held" /\ a.count = W!Cardinality(W!Blocking(blocks, p.for))
           /\ \E f \in W!Blocking(blocks, p.for) : a.names = {<<p.for, f>>}
        \/ /\ a.said = "authority" /\ a.count = W!Cardinality(W!Others(rows, mine))
           /\ a.names = {<<p.for, s>> : s \in W!Others(rows, mine)}
        \/ a.said = p.err /\ a.names = {} /\ a.count = 0
    BY <1>6 DEF W!Because, W!Says, W!NeedsAdmin
  <2>3. a.names \subseteq Rows
    BY <1>1, <1>6, <2>2 DEF Rows
  <2>4. QED
    <3>1. a.said \in Saids
      BY <2>1, <2>2 DEF Saids
    <3>2. a.count \in Nat
      BY <1>2, <1>3, <2>2
    <3>3. QED
      BY <2>3, <3>1, <3>2 DEF Speech
<1>7. Speech(W!Says("menu", W!Costs(rows, mine, blocks), 0))
  BY <1>4 DEF W!Says, Speech, Saids
<1>8. QED
  BY <1>5, <1>6, <1>7

LEMMA ToldPower ==
  ASSUME PowerInv, NEW k \in Key, NEW blocks, NEW read \in BOOLEAN,
         press[k].at = "inhibitors", Listed(blocks, read, world),
         W!Told(k, press[k].mine, blocks, read), Still
  PROVE  PowerInv'
<1> DEFINE p == press[k]
<1>1. p \in Requests /\ PlaceOK(p, world, screen) /\ world \in SUBSET W!Facts
  BY DEF PowerInv
<1>2. /\ p.rows \in SUBSET Sessions /\ p.mine \in Sessions \cup {None} /\ blocks \in SUBSET Inhibitors
      /\ p.kept \subseteq world /\ world \subseteq p.stood /\ p.rows \subseteq p.stood
      /\ p.kept \cap Sessions \subseteq p.rows /\ (p.mine = None \/ UserOf[p.mine] = Me)
      /\ p.for \in W!What \cup {"menu", "idle"}
  BY <1>1 DEF PlaceOK, Requests, Listed
<1>3. PICK a :
        /\ \/ p.for = "menu" /\ a = W!Says("menu", W!Costs(p.rows, p.mine, blocks), 0)
           \/ p.for = "idle" /\ a \in W!IdleHolds(W!HoldingIdle(blocks))
           \/ p.for \in W!What /\ a \in W!Because(p.for, p.err, p.rows, p.mine, blocks)
        /\ press' = [press EXCEPT ![k] = [W!Answered(p, a) EXCEPT
             !.at = IF p.for = "menu" THEN "windows" ELSE "answered",
             !.known = p.mine \in p.rows, !.read = read]]
  BY <1>2 DEF W!Told, W!What
<1>4. Speech(a)
  BY <1>1, <1>2, <1>3, SpeechOf
<1> DEFINE r == W!Answered(p, a)
           at == IF p.for = "menu" THEN "windows" ELSE "answered"
           known == p.mine \in p.rows
           q == [r EXCEPT !.at = at, !.known = known, !.read = read]
<1>5. Answering(r, p, a)
  BY <1>1, <1>4, AnswerIs
<1>6. Puts(k, q)
  BY <1>3 DEF Puts
<1> HIDE DEF r
<1>7. /\ q \in Requests /\ q.at = at /\ q.known = known /\ q.read = read
      /\ q.for = p.for /\ q.err = p.err /\ q.kept = p.kept /\ q.stood = p.stood
      /\ q.said = a.said /\ q.names = a.names /\ q.count = a.count
  <2>1. r \in Requests
    BY <1>5 DEF Answering
  <2>2. at \in Ats /\ known \in BOOLEAN
    BY DEF Ats
  <2> HIDE DEF at, known
  <2>3. q \in Requests /\ q.at = at /\ q.known = known /\ q.read = read
        /\ q.for = r.for /\ q.err = r.err /\ q.kept = r.kept /\ q.stood = r.stood
        /\ q.said = r.said /\ q.names = r.names /\ q.count = r.count
    BY <2>1, <2>2 DEF Requests
  <2>4. QED
    BY <1>5, <2>3 DEF Answering
<1> HIDE DEF q, p
<1>8. CASE p.for = "menu"
  <2>1. q.said = "menu" /\ q.names = W!Costs(p.rows, p.mine, blocks)
    BY <1>3, <1>7, <1>8 DEF W!Says, W!What
  <2>2. W!MenuIsTrue(q)
    BY <1>1, <1>2, <1>7, <2>1, CostsAreTrue
  <2>3. PlaceOK(q, world, screen)
    BY <1>2, <1>7, <1>8, <2>1, <2>2 DEF PlaceOK
  <2>4. QED
    BY <1>6, <1>7, <2>3, PutStep DEF Still
<1>9. CASE p.for = "idle"
  <2>1. a \in W!IdleHolds(W!HoldingIdle(blocks))
    BY <1>3, <1>9 DEF W!What
  <2>2. W!IdleIsTrue(q)
    BY <1>1, <1>2, <1>7, <2>1, HoldsAreTrue
  <2>3. W!MenuIsTrue(q) /\ W!RefusalIsTrue(q) /\ W!LockTakesIt(q)
    BY <1>7, <1>9 DEF W!MenuIsTrue, W!RefusalIsTrue, W!LockTakesIt, W!What
  <2>4. PlaceOK(q, world, screen)
    BY <1>7, <1>9, <2>2, <2>3 DEF PlaceOK
  <2>5. QED
    BY <1>6, <1>7, <2>4, PutStep DEF Still
<1>10. CASE p.for \in W!What
  <2>1. a \in W!Because(p.for, p.err, p.rows, p.mine, blocks)
    BY <1>3, <1>10 DEF W!What
  <2>2. W!RefusalIsTrue(q) /\ q.said # "idle"
    BY <1>1, <1>2, <1>7, <1>10, <2>1, BecauseIsTrue
  <2>3. W!MenuIsTrue(q) /\ W!IdleIsTrue(q) /\ W!LockTakesIt(q)
    BY <1>7, <1>10, <2>2 DEF W!MenuIsTrue, W!IdleIsTrue, W!LockTakesIt, W!What
  <2>4. PlaceOK(q, world, screen)
    BY <1>7, <1>10, <2>2, <2>3 DEF PlaceOK, W!What
  <2>5. QED
    BY <1>6, <1>7, <2>4, PutStep DEF Still
<1>11. QED
  BY <1>2, <1>8, <1>9, <1>10

LEMMA ListInhibitorsPower ==
  ASSUME PowerInv, NEW k \in Key, W!ListInhibitors(k)
  PROVE  PowerInv'
<1>1. press[k].at = "inhibitors" /\ Still
  BY DEF W!ListInhibitors, W!Goes, Still
<1> DEFINE blocks == {i \in world \cap Inhibitors : ModeOf[i] = "block"}
<1>2. Listed(blocks, TRUE, world) /\ Listed({}, FALSE, world)
  BY DEF Listed
<1>3. W!Told(k, press[k].mine, blocks, TRUE) \/ W!Told(k, press[k].mine, {}, FALSE)
  BY DEF W!ListInhibitors
<1> HIDE DEF blocks
<1>4. QED
  BY <1>1, <1>2, <1>3, ToldPower

\* nothing was read: what is said is about nothing
LEMMA StateFailsPower ==
  ASSUME PowerInv, NEW k \in Key, W!StateFails(k)
  PROVE  PowerInv'
<1> DEFINE p == press[k]
<1>1. /\ p \in Requests /\ PlaceOK(p, world, screen) /\ world \in SUBSET W!Facts
      /\ p.at = "sessions" /\ Still
  BY DEF PowerInv, W!StateFails, W!Goes, Still
<1>2. CASE p.for = "menu"
  <2>1. W!To(k, "windows")
    BY <1>2 DEF W!StateFails
  <2>2. QED
    BY <1>1, <1>2, <2>1, ToStep
<1>3. CASE p.for = "idle"
  <2> DEFINE a == W!Says("unknown", {}, 0)
  <2>1. W!Answer(k, a) /\ a.said = "unknown" /\ a.names = {} /\ a.count = 0
    BY <1>3 DEF W!StateFails, W!Says
  <2> HIDE DEF a
  <2>2. QED
    BY <1>1, <1>3, <2>1, SilentAnswer
<1>4. CASE p.for \notin {"menu", "idle"}
  <2>1. PICK a \in W!Because(p.for, p.err, {}, None, {}) : W!Answer(k, a)
    BY <1>4 DEF W!StateFails
  <2>2. p.for \in W!What /\ p.kept \subseteq world /\ world \subseteq p.stood /\ ~p.known /\ ~p.read
    BY <1>1, <1>4 DEF PlaceOK, Requests
  <2>3. Speech(a)
    BY <1>1, <2>1, <2>2, SpeechOf
  <2> DEFINE q == W!Answered(p, a)
  <2>4. Answering(q, p, a)
    BY <1>1, <2>3, AnswerIs
  <2>5. Puts(k, q)
    BY <2>1 DEF W!Answer, Puts, PowerInv
  <2> HIDE DEF q, p
  <2>6. Listed({}, FALSE, world)
    BY DEF Listed
  <2>7. q.known = (None \in {}) /\ q.read = FALSE
    BY <1>1, <2>2, <2>4 DEF Answering, Requests
  <2>8. W!RefusalIsTrue(q) /\ q.said # "idle"
    <3>1. /\ q \in Requests /\ q.for = p.for /\ q.err = p.err /\ q.kept = p.kept /\ q.stood = p.stood
          /\ q.said = a.said /\ q.names = a.names /\ q.count = a.count
      BY <2>4 DEF Answering
    <3>2. {} \in SUBSET Sessions /\ None \in Sessions \cup {None} /\ {} \subseteq p.stood
      OBVIOUS
    <3>3. QED
      BY <1>1, <2>1, <2>2, <2>6, <2>7, <3>1, <3>2, BecauseIsTrue
  <2>9. W!MenuIsTrue(q) /\ W!IdleIsTrue(q) /\ W!LockTakesIt(q)
    BY <1>4, <2>2, <2>4, <2>8 DEF Answering, W!MenuIsTrue, W!IdleIsTrue, W!LockTakesIt, W!What
  <2>10. PlaceOK(q, world, screen) /\ q \in Requests
    BY <2>4, <2>8, <2>9 DEF PlaceOK, Answering
  <2>11. QED
    BY <1>1, <2>5, <2>10, PutStep DEF Still
<1>5. QED
  BY <1>2, <1>3, <1>4

\* what every end of the session costs is added to the rows
LEMMA CostingPower ==
  ASSUME PowerInv, NEW k \in Key, NEW fact \in {"windows", "unqueued"}, NEW at \in {"unqueued", "answered"},
         press[k].at \in {"windows", "unqueued"}, W!Costing(k, fact, at), Still
  PROVE  PowerInv'
<1> DEFINE p == press[k]
           more == IF fact \in world THEN W!Ending \X {fact} ELSE {}
           q == [p EXCEPT !.at = at, !.names = @ \cup more]
<1>1. p \in Requests /\ PlaceOK(p, world, screen)
  BY DEF PowerInv
<1>2. more \in SUBSET Rows
  BY DEF Rows, W!Ending, W!What, W!Facts
<1>3. \A n \in more : n[2] = fact /\ fact \in world
  OBVIOUS
<1>4. Puts(k, q)
  BY DEF W!Costing, Puts, PowerInv
<1> HIDE DEF more
<1>5. /\ q \in Requests /\ q.at = at /\ q.names = p.names \cup more
      /\ q.for = p.for /\ q.err = p.err /\ q.kept = p.kept /\ q.stood = p.stood
      /\ q.said = p.said /\ q.read = p.read /\ q.known = p.known
  BY <1>1, <1>2 DEF Requests, Ats
<1> HIDE DEF q, p
<1>6. p.for = "menu" /\ p.said # "idle" /\ W!MenuIsTrue(p) /\ p.kept \subseteq world /\ world \subseteq p.stood
  BY <1>1 DEF PlaceOK, p
<1>7. W!MenuIsTrue(q)
  BY <1>3, <1>5, <1>6 DEF W!MenuIsTrue
<1>8. W!RefusalIsTrue(q) /\ W!IdleIsTrue(q) /\ W!LockTakesIt(q)
  BY <1>5, <1>6 DEF W!RefusalIsTrue, W!IdleIsTrue, W!LockTakesIt, W!What
<1>9. PlaceOK(q, world, screen)
  BY <1>5, <1>6, <1>7, <1>8 DEF PlaceOK
<1>10. QED
  BY <1>4, <1>5, <1>9, PutStep DEF Still

\* a verb that was refused goes and reads why
LEMMA RefusedPower ==
  ASSUME PowerInv, NEW k \in Key, NEW err \in Errs, press[k].at = "verb", W!Refused(k, err), Still
  PROVE  PowerInv'
<1> DEFINE p == press[k]
           q == [p EXCEPT !.at = "sessions", !.err = err]
<1>1. p \in Requests /\ PlaceOK(p, world, screen)
  BY DEF PowerInv
<1>2. /\ q \in Requests /\ q.at = "sessions"
      /\ q.for = p.for /\ q.kept = p.kept /\ q.stood = p.stood
      /\ q.names = p.names /\ q.said = p.said /\ q.read = p.read /\ q.known = p.known
  BY <1>1 DEF Requests, Ats
<1>3. Puts(k, q)
  BY DEF W!Refused, Puts, PowerInv
<1> HIDE DEF q
<1>4. PlaceOK(q, world, screen)
  BY <1>1, <1>2 DEF PlaceOK
<1>5. QED
  BY <1>2, <1>3, <1>4, PutStep DEF Still

\* every request sees what comes and goes, but for those that are over
LEMMA WorldPower ==
  ASSUME PowerInv, NEW v \in SUBSET (W!Facts \cup {"walked"}), NEW w \in SUBSET W!Facts,
         NEW s \in {"here", "preset"}, world' = w, screen' = s,
         v \cap W!Facts = w, s = screen \/ "walked" \in v, env' = env,
         \A x \in ended' : UserOf[x] = Me,
         press' \in [Key -> Requests],
         \A j \in Key : press'[j] = W!Seen(j, v) \/ PlaceOK(press'[j], w, s)
  PROVE  PowerInv'
<1>1. ASSUME NEW j \in Key
      PROVE  PlaceOK(press'[j], w, s)
  BY SeenOK
<1>2. QED
  BY <1>1 DEF PowerInv

LEMMA EndedPower ==
  ASSUME PowerInv, NEW k \in Key, NEW id \in Sessions, UserOf[id] = Me,
         press[k].at = "verb", W!Ended(k, id), env' = env, screen' = screen
  PROVE  PowerInv'
<1> DEFINE p == press[k]
           a == W!Says("started", {}, 0)
           q == W!Answered(p, a)
           w == world \ {id}
<1>1. p \in Requests /\ PlaceOK(p, world, screen) /\ w \in SUBSET W!Facts /\ w \in SUBSET (W!Facts \cup {"walked"})
  BY DEF PowerInv
<1>2. a.said = "started" /\ a.names = {} /\ a.count = 0
  BY DEF W!Says
<1>3. /\ ended' = ended \cup {id} /\ world' = w
      /\ press' = [j \in Key |-> IF j = k THEN q ELSE W!Seen(j, w)]
  BY DEF W!Ended
<1> HIDE DEF a
<1>4. Answering(q, p, a)
  BY <1>1, <1>2, NamesNobody, AnswerIs DEF Saids
<1> HIDE DEF q, w
<1>5. W!MenuIsTrue(q) /\ W!RefusalIsTrue(q) /\ W!IdleIsTrue(q) /\ W!LockTakesIt(q)
  BY <1>1, <1>2, <1>4
  DEF Answering, PlaceOK, W!What, W!MenuIsTrue, W!RefusalIsTrue, W!IdleIsTrue, W!LockTakesIt
<1>6. PlaceOK(q, w, screen) /\ q \in Requests
  BY <1>4, <1>5 DEF PlaceOK, Answering
<1>7. ASSUME NEW j \in Key
      PROVE  W!Seen(j, w) \in Requests
  BY <1>1, SeenOK DEF PowerInv
<1>8. "walked" \notin W!Facts => w \cap W!Facts = w
  BY <1>1
<1>9. QED
  BY <1>1, <1>3, <1>6, <1>7, WorldPower DEF PowerInv

LEMMA TerminatePower ==
  ASSUME PowerInv, NEW k \in Key, W!ShutdownOrSleep(k) \/ W!Terminate(k)
  PROVE  PowerInv'
<1>1. press[k].at = "verb" /\ UNCHANGED <<env, screen>>
  BY DEF W!ShutdownOrSleep, W!Terminate, W!Goes
<1>2. CASE \E err \in Errs : W!Refused(k, err)
  BY <1>1, <1>2, RefusedPower DEF W!Refused, Still
<1>3. CASE W!Answer(k, W!Says("started", {}, 0)) /\ Still
  <2> DEFINE a == W!Says("started", {}, 0)
  <2>1. a.said = "started" /\ a.names = {} /\ a.count = 0
    BY DEF W!Says
  <2> HIDE DEF a
  <2>2. QED
    BY <1>1, <1>3, <2>1, SilentAnswer DEF a
<1>4. CASE \E id \in W!MyIDs : id \in world /\ W!Ended(k, id)
  <2>1. PICK id \in W!MyIDs : id \in world /\ W!Ended(k, id)
    BY <1>4
  <2>2. id \in Sessions /\ UserOf[id] = Me
    BY <2>1, MyIDsAreMine, PowerAssumption DEF PowerInv
  <2>3. QED
    BY <1>1, <2>1, <2>2, EndedPower
<1>5. QED
  <2>1. CASE W!ShutdownOrSleep(k)
    BY <1>1, <1>2, <1>3, <2>1 DEF W!ShutdownOrSleep, Errs, Still
  <2>2. CASE W!Terminate(k)
    BY <1>2, <1>4, <2>2 DEF W!Terminate, Errs
  <2>3. QED
    BY <2>1, <2>2

\* the preset is on the screen, and stays until the person goes on
LEMMA SwitchPower ==
  ASSUME PowerInv, NEW k \in Key, W!SwitchToPreset(k)
  PROVE  PowerInv'
<1> DEFINE p == press[k]
           q == [p EXCEPT !.at = "lock", !.moved = TRUE]
<1>1. p \in Requests /\ PlaceOK(p, world, screen) /\ p.at = "switch"
  BY DEF PowerInv, W!SwitchToPreset, W!Goes
<1>2. CASE press' = [press EXCEPT ![k].at = "lock", ![k].moved = TRUE] /\ screen' = "preset"
  <2>1. /\ q \in Requests /\ q.at = "lock" /\ q.for = p.for /\ q.under = p.under
        /\ q.kept = p.kept /\ q.stood = p.stood
    BY <1>1 DEF Requests, Ats
  <2>2. Puts(k, q)
    BY <1>2 DEF Puts, PowerInv
  <2> HIDE DEF q
  <2>3. PlaceOK(q, world, screen')
    BY <1>1, <1>2, <2>1 DEF PlaceOK, Untold
  <2>4. QED
    BY <1>2, <2>1, <2>2, <2>3, PutStep DEF W!SwitchToPreset
<1>3. CASE W!To(k, "lock") /\ UNCHANGED screen
  BY <1>1, <1>3, ToStep DEF W!SwitchToPreset, Still
<1>4. QED
  BY <1>2, <1>3 DEF W!SwitchToPreset

\* what could not be started is said, and nothing is locked
LEMMA NotLockedPower ==
  ASSUME PowerInv, NEW k \in Key, NEW said \in {"no_locker", "not_run"}, W!NotLocked(k, said), Still,
         \/ press[k].at = "locker"
         \/ press[k].at = "lock" /\ said = "not_run"
  PROVE  PowerInv'
<1> DEFINE p == press[k]
           a == W!Says(said, {}, 0)
           r == W!Answered(p, a)
           q == [r EXCEPT !.err = "failed"]
<1>1. p \in Requests /\ PlaceOK(p, world, screen) /\ p.at \in {"locker", "lock"}
  BY DEF PowerInv
<1>2. a.said = said /\ a.names = {} /\ a.count = 0
  BY DEF W!Says
<1>3. Puts(k, q)
  BY DEF W!NotLocked, Puts, PowerInv
<1> HIDE DEF a
<1>4. Answering(r, p, a)
  BY <1>1, <1>2, NamesNobody, AnswerIs DEF Saids
<1> HIDE DEF r
<1>5. /\ q \in Requests /\ q.at = "answered" /\ q.for = p.for /\ q.err = "failed" /\ q.said = said
      /\ q.names = {} /\ q.moved = p.moved /\ q.under = p.under /\ q.kept = p.kept /\ q.stood = p.stood
  BY <1>2, <1>4 DEF Answering, Requests, Errs
<1> HIDE DEF q
<1>6. q.for \in {"lock", "preset"} /\ q.under = "nothing"
  BY <1>1, <1>5 DEF PlaceOK
<1>7. /\ q.moved => Untold(q) /\ "locker" \in q.stood
      /\ q.said = "no_locker" => ~q.moved
  BY <1>1, <1>5 DEF PlaceOK, Untold
<1>8. W!MenuIsTrue(q) /\ W!RefusalIsTrue(q) /\ W!IdleIsTrue(q) /\ W!LockTakesIt(q)
  BY <1>5, <1>6, <1>7
  DEF W!MenuIsTrue, W!RefusalIsTrue, W!IdleIsTrue, W!LockTakesIt, Untold, W!What
<1>9. PlaceOK(q, world, screen)
  BY <1>5, <1>8 DEF PlaceOK
<1>10. QED
  BY <1>3, <1>5, <1>9, PutStep DEF Still

LEMMA RunLockPower ==
  ASSUME PowerInv, NEW k \in Key, W!RunLock(k)
  PROVE  PowerInv'
<1> DEFINE p == press[k]
<1>1. p \in Requests /\ PlaceOK(p, world, screen) /\ p.at = "lock" /\ Still
  BY DEF PowerInv, W!RunLock, W!Goes, Still
<1>2. CASE press' = [press EXCEPT ![k] = [W!Answered(@, W!Says("locking", {}, 0)) EXCEPT !.at = "spawned"]]
  <2> DEFINE a == W!Says("locking", {}, 0)
             r == W!Answered(p, a)
             q == [r EXCEPT !.at = "spawned"]
  <2>1. a.said = "locking" /\ a.names = {} /\ a.count = 0
    BY DEF W!Says
  <2>2. Puts(k, q)
    BY <1>2 DEF Puts, PowerInv
  <2> HIDE DEF a
  <2>3. Answering(r, p, a)
    BY <1>1, <2>1, NamesNobody, AnswerIs DEF Saids
  <2> HIDE DEF r
  <2>4. /\ q \in Requests /\ q.at = "spawned" /\ q.for = p.for /\ q.said = "locking" /\ q.names = {}
        /\ q.moved = p.moved /\ q.under = p.under /\ q.kept = p.kept /\ q.stood = p.stood
    BY <2>1, <2>3 DEF Answering, Requests, Ats
  <2> HIDE DEF q
  <2>5. PlaceOK(q, world, screen)
    BY <1>1, <2>4 DEF PlaceOK, Untold
  <2>6. QED
    BY <1>1, <2>2, <2>4, <2>5, PutStep DEF Still
<1>3. CASE W!NotLocked(k, "not_run")
  BY <1>1, <1>3, NotLockedPower
<1>4. QED
  BY <1>2, <1>3 DEF W!RunLock

\* what a locker takes is what is on the screen when it starts
LEMMA LockStartsPower ==
  ASSUME PowerInv, NEW k \in Key, W!LockStarts(k)
  PROVE  PowerInv'
<1> DEFINE p == press[k]
<1>1. /\ p \in Requests /\ PlaceOK(p, world, screen) /\ p.at = "spawned" /\ Still
      /\ screen \in {"here", "preset"}
  BY DEF PowerInv, W!LockStarts, W!Goes, Still
<1>2. ASSUME NEW q \in Requests, Puts(k, q), q.at = "answered", q.for = p.for, q.said = p.said,
             q.names = p.names, q.moved = p.moved, q.kept = p.kept, q.stood = p.stood,
             \/ q.under = screen /\ "locker" \in world
             \/ q.under = p.under /\ ("locker" \notin world \/ q.err = "failed")
      PROVE  PowerInv'
  <2>1. q.for \in {"lock", "preset"} /\ q.said = "locking" /\ q.names = {} /\ p.under = "nothing"
    BY <1>1, <1>2 DEF PlaceOK
  <2>2. /\ q.moved => Untold(q) /\ "locker" \in q.stood /\ (screen = "preset" \/ "walked" \in q.stood)
        /\ q.kept \subseteq world /\ world \subseteq q.stood
    BY <1>1, <1>2 DEF PlaceOK, Untold
  <2>3. W!LockTakesIt(q)
    BY <1>1, <1>2, <2>1, <2>2 DEF W!LockTakesIt, Untold
  <2>4. W!MenuIsTrue(q) /\ W!RefusalIsTrue(q) /\ W!IdleIsTrue(q)
    BY <2>1 DEF W!MenuIsTrue, W!RefusalIsTrue, W!IdleIsTrue, W!What
  <2>5. PlaceOK(q, world, screen)
    BY <1>2, <2>3, <2>4 DEF PlaceOK
  <2>6. QED
    BY <1>1, <1>2, <2>5, PutStep DEF Still
<1>3. CASE press' = [press EXCEPT ![k].at = "answered",
                                  ![k].under = IF "locker" \in world THEN screen ELSE "nothing"]
  <2> DEFINE u == IF "locker" \in world THEN screen ELSE "nothing"
             q == [p EXCEPT !.at = "answered", !.under = u]
  <2>1. Puts(k, q)
    BY <1>3 DEF Puts, PowerInv
  <2>2. u \in {"nothing", "here", "preset"}
    BY <1>1
  <2>3. \/ u = screen /\ "locker" \in world
        \/ u = p.under /\ "locker" \notin world
    BY <1>1 DEF PlaceOK
  <2> HIDE DEF u
  <2>4. /\ q \in Requests /\ q.at = "answered" /\ q.for = p.for /\ q.said = p.said /\ q.names = p.names
        /\ q.moved = p.moved /\ q.kept = p.kept /\ q.stood = p.stood /\ q.under = u
    BY <1>1, <2>2 DEF Requests, Ats
  <2> HIDE DEF q
  <2>5. QED
    BY <1>2, <2>1, <2>3, <2>4
<1>4. CASE press' = [press EXCEPT ![k].at = "answered", ![k].err = "failed"]
  <2> DEFINE q == [p EXCEPT !.at = "answered", !.err = "failed"]
  <2>1. Puts(k, q)
    BY <1>4 DEF Puts, PowerInv
  <2>2. /\ q \in Requests /\ q.at = "answered" /\ q.for = p.for /\ q.said = p.said /\ q.names = p.names
        /\ q.moved = p.moved /\ q.kept = p.kept /\ q.stood = p.stood /\ q.under = p.under
        /\ q.err = "failed"
    BY <1>1 DEF Requests, Ats, Errs
  <2> HIDE DEF q
  <2>3. QED
    BY <1>2, <2>1, <2>2
<1>5. QED
  BY <1>3, <1>4 DEF W!LockStarts

LEMMA LockPower ==
  ASSUME PowerInv, NEW k \in Key, W!CanLock(k) \/ W!ReadConfig(k) \/ W!CanShow(k)
  PROVE  PowerInv'
<1>1. Still
  BY DEF W!CanLock, W!ReadConfig, W!CanShow, Still
<1>2. CASE W!CanLock(k)
  <2> DEFINE a == W!Says("no_locker", {}, 0)
  <2>1. a.said = "no_locker" /\ a.names = {} /\ a.count = 0
    BY DEF W!Says
  <2>2. /\ press[k].at = "locker"
        /\ \/ "locker" \notin world /\ W!Answer(k, a)
           \/ "locker" \in world /\ W!To(k, "config")
           \/ W!NotLocked(k, "no_locker")
    BY <1>2 DEF W!CanLock, W!Goes
  <2> HIDE DEF a
  <2>3. QED
    BY <1>1, <2>1, <2>2, SilentAnswer, ToStep, NotLockedPower
<1>3. CASE W!ReadConfig(k)
  <2>1. press[k].at = "config" /\ (W!To(k, "show") \/ W!To(k, "lock"))
    BY <1>3 DEF W!ReadConfig, W!Goes
  <2>2. QED
    BY <1>1, <2>1, ToStep
<1>4. CASE W!CanShow(k)
  <2>1. /\ press[k].at = "show"
        /\ \/ {"private", "broken"} \cap world = {} /\ W!To(k, "switch")
           \/ W!To(k, "lock")
    BY <1>4 DEF W!CanShow, W!Goes
  <2>2. QED
    BY <1>1, <2>1, ToStep
<1>5. QED
  BY <1>2, <1>3, <1>4

LEMMA CostsPower ==
  ASSUME PowerInv, NEW k \in Key, W!WindowsOpen(k) \/ W!UnqueuedArrivals(k)
  PROVE  PowerInv'
<1>1. Still
  BY DEF W!WindowsOpen, W!UnqueuedArrivals, Still
<1>2. \/ press[k].at = "windows" /\ (W!Costing(k, "windows", "unqueued") \/ W!To(k, "unqueued"))
      \/ press[k].at = "unqueued" /\ W!Costing(k, "unqueued", "answered")
  BY DEF W!WindowsOpen, W!UnqueuedArrivals, W!Goes
<1>3. QED
  BY <1>1, <1>2, CostingPower, ToStep

-----------------------------------------------------------------------------
LEMMA PowerStep ==
  ASSUME PowerInv, W!NextPower
  PROVE  PowerInv'
<1>1. ASSUME NEW k \in Key, W!PowerMenu(k) \/ W!IdleHold(k) \/ W!PowerRun(k) \/ W!LockPreset(k)
      PROVE  PowerInv'
  <2>1. PICK for \in W!What \cup {"menu", "idle", "lock", "preset"}, at \in Ats :
          /\ W!Asks(k, for, at)
          /\ \/ at = "sessions" /\ for \in {"menu", "idle"}
             \/ at = "verb" /\ for \in W!What
             \/ at = "lock" /\ for = "lock"
             \/ at = "locker" /\ for = "preset"
    BY <1>1 DEF W!PowerMenu, W!IdleHold, W!PowerRun, W!LockPreset, Ats
  <2>2. QED
    BY <2>1, AsksPower
<1>2. ASSUME NEW fact \in W!Facts, W!Changes(fact)
      PROVE  PowerInv'
  <2>1. /\ world' \in SUBSET W!Facts /\ world' \in SUBSET (W!Facts \cup {"walked"})
        /\ press' = [j \in Key |-> W!Seen(j, world')] /\ UNCHANGED <<env, screen, ended>>
    BY <1>2 DEF W!Changes, PowerInv
  <2>2. ASSUME NEW j \in Key
        PROVE  W!Seen(j, world') \in Requests
    BY <2>1, SeenOK DEF PowerInv
  <2>3. QED
    BY <2>1, <2>2, WorldPower DEF PowerInv
<1>3. CASE W!Walks
  <2> DEFINE v == world \cup {"walked"}
  <2>1. /\ v \in SUBSET (W!Facts \cup {"walked"}) /\ world \in SUBSET W!Facts
        /\ press' = [j \in Key |-> W!Seen(j, v)] /\ UNCHANGED <<world, env, ended>> /\ screen' = "here"
        /\ "walked" \in v /\ world \subseteq v
    BY <1>3 DEF W!Walks, PowerInv
  <2>2. v \cap W!Facts = world
    BY <2>1, PowerAssumption
  <2> HIDE DEF v
  <2>3. ASSUME NEW j \in Key
        PROVE  W!Seen(j, v) \in Requests
    BY <2>1, <2>2, SeenOK DEF PowerInv
  <2>4. QED
    BY <2>1, <2>2, <2>3, WorldPower DEF PowerInv
<1>4. QED
  BY <1>1, <1>2, <1>3, ListSessionsPower, StateFailsPower, MyIDPower, ListInhibitorsPower,
     CostsPower, TerminatePower, LockPower, SwitchPower, RunLockPower, LockStartsPower DEF W!NextPower

LEMMA PowerInit == Init => PowerInv
<1> SUFFICES ASSUME Init
             PROVE  PowerInv
  OBVIOUS
<1>1. W!Rest \in Requests /\ W!Rest.at = "none"
  BY DEF W!Rest, Requests, Ats, Errs, Saids
<1>2. PlaceOK(W!Rest, world, screen)
  BY <1>1 DEF PlaceOK
<1>3. QED
  BY <1>1, <1>2, PowerAssumption DEF Init, W!InitPower, PowerInv

LEMMA PowerKept ==
  ASSUME PowerInv, [Next]_vars
  PROVE  PowerInv'
<1>1. CASE W!NextPower
  BY <1>1, PowerStep
<1>2. CASE UNCHANGED ofW
  BY <1>2 DEF ofW, PowerInv
<1>3. QED
  BY <1>1, <1>2 DEF Next, vars

(***************************************************************************)
(* An answer is true of the moment it is given in, a log out ends nobody   *)
(* else's session, and the preset lock keeps its order (power.go,          *)
(* logind.go, idle.go, lock.go).                                           *)
(***************************************************************************)
THEOREM PowerIsTrue == Spec => []PowerHolds
<1>1. PowerInv => PowerHolds
  BY DEF PowerInv, PlaceOK, PowerHolds, W!PowerHolds
<1>2. QED
  BY <1>1, PowerInit, PowerKept, PTL DEF Spec

-----------------------------------------------------------------------------
(***************************************************************************)
(* What Power's TypeOK says beyond this: of what has stood all along, all  *)
(* has been seen, and nothing is counted that is no fact.                  *)
(***************************************************************************)
Tally(n) == n = 0 \/ \E some \in SUBSET W!Facts : n = Cardinality(some)

TallyInv ==
  /\ PowerInv /\ ended \subseteq Sessions
  /\ \A k \in Key : press[k].kept \subseteq press[k].stood /\ Tally(press[k].count)

\* what a step may make of what a request has seen, and of its count
Tallied(q, p) ==
  /\ \/ q.kept = p.kept /\ q.stood = p.stood
     \/ q.kept = q.stood
     \/ \E v \in SUBSET (W!Facts \cup {"walked"}) : q.kept = p.kept \cap v /\ q.stood = p.stood \cup v
  /\ q.count = p.count \/ Tally(q.count)

Tallies == \A k \in Key : Tallied(press'[k], press[k])

LEMMA TallyStep ==
  ASSUME TallyInv, PowerInv', Tallies, ended' \subseteq ended \cup Sessions
  PROVE  TallyInv'
<1>1. ASSUME NEW k \in Key
      PROVE  press'[k].kept \subseteq press'[k].stood /\ Tally(press'[k].count)
  BY <1>1 DEF Tallies, Tallied, TallyInv
<1>2. (\A k \in Key : press[k].kept \subseteq press[k].stood /\ Tally(press[k].count))'
  BY <1>1 DEF Tally
<1>3. QED
  BY <1>2 DEF TallyInv

LEMMA TallyPut ==
  ASSUME PowerInv, NEW k \in Key, NEW q, Puts(k, q), Tallied(q, press[k])
  PROVE  Tallies
<1>1. ASSUME NEW j \in Key
      PROVE  Tallied(press'[j], press[j])
  <2>1. CASE j = k
    BY <2>1 DEF Puts, PowerInv
  <2>2. CASE j # k
    BY <2>2 DEF Puts, PowerInv, Tallied
  <2>3. QED
    BY <2>1, <2>2
<1>2. QED
  BY <1>1 DEF Tallies

LEMMA TallySeen ==
  ASSUME PowerInv, NEW k \in Key, NEW v \in SUBSET (W!Facts \cup {"walked"})
  PROVE  Tallied(W!Seen(k, v), press[k])
<1> DEFINE p == press[k]
           q == [p EXCEPT !.kept = @ \cap v, !.stood = @ \cup v]
<1>1. p \in Requests
  BY DEF PowerInv
<1>2. q.kept = p.kept \cap v /\ q.stood = p.stood \cup v /\ q.count = p.count
  BY <1>1 DEF Requests
<1>3. Tallied(q, p) /\ Tallied(p, p)
  BY <1>2 DEF Tallied
<1>4. QED
  BY <1>3 DEF W!Seen

\* what an answer counts, it counts of the inhibitors or of the sessions
LEMMA SpeechTally ==
  ASSUME NEW p \in Requests, NEW rows \in SUBSET Sessions, NEW mine, NEW blocks \in SUBSET Inhibitors, NEW a,
         \/ a = W!Says("menu", W!Costs(rows, mine, blocks), 0)
         \/ a \in W!IdleHolds(W!HoldingIdle(blocks))
         \/ a \in W!Because(p.for, p.err, rows, mine, blocks)
  PROVE  Tally(a.count)
<1>1. \/ a.count = 0 \/ a.count = W!Cardinality(W!HoldingIdle(blocks))
      \/ a.count = W!Cardinality(W!Blocking(blocks, p.for))
      \/ a.count = W!Cardinality(W!Others(rows, mine))
  BY DEF W!IdleHolds, W!Because, W!Says
<1>2. /\ W!HoldingIdle(blocks) \subseteq W!Facts /\ W!Blocking(blocks, p.for) \subseteq W!Facts
      /\ W!Others(rows, mine) \subseteq W!Facts
  BY DEF W!HoldingIdle, W!Blocking, W!Others, W!Facts
<1>3. QED
  BY <1>1, <1>2, CountedAsUsual DEF Tally

LEMMA AnswerTally ==
  ASSUME PowerInv, NEW k \in Key, NEW a, W!Answer(k, a), Tally(a.count)
  PROVE  Tallies
<1> DEFINE p == press[k]
           q == W!Answered(p, a)
<1>1. p \in Requests
  BY DEF PowerInv
<1>2. q.kept = p.kept /\ q.stood = p.stood /\ q.count = a.count
  BY <1>1 DEF Requests, W!Answered
<1>3. Puts(k, q)
  BY DEF W!Answer, Puts, PowerInv
<1> HIDE DEF q
<1>4. Tallied(q, p)
  BY <1>2 DEF Tallied
<1>5. QED
  BY <1>3, <1>4, TallyPut

LEMMA ToldTally ==
  ASSUME PowerInv, NEW k \in Key, NEW blocks \in SUBSET Inhibitors, NEW read,
         W!Told(k, press[k].mine, blocks, read)
  PROVE  Tallies
<1> DEFINE p == press[k]
<1>1. p \in Requests /\ p.rows \in SUBSET Sessions
  BY DEF PowerInv, Requests
<1>2. PICK a :
        /\ \/ a = W!Says("menu", W!Costs(p.rows, p.mine, blocks), 0)
           \/ a \in W!IdleHolds(W!HoldingIdle(blocks))
           \/ a \in W!Because(p.for, p.err, p.rows, p.mine, blocks)
        /\ press' = [press EXCEPT ![k] = [W!Answered(p, a) EXCEPT
             !.at = IF p.for = "menu" THEN "windows" ELSE "answered",
             !.known = p.mine \in p.rows, !.read = read]]
  BY DEF W!Told
<1>3. Tally(a.count)
  BY <1>1, <1>2, SpeechTally
<1> DEFINE q == [W!Answered(p, a) EXCEPT
             !.at = IF p.for = "menu" THEN "windows" ELSE "answered",
             !.known = p.mine \in p.rows, !.read = read]
<1>4. q.kept = p.kept /\ q.stood = p.stood /\ q.count = a.count
  BY <1>1 DEF Requests, W!Answered
<1>5. Puts(k, q)
  BY <1>2 DEF Puts
<1> HIDE DEF q
<1>6. Tallied(q, p)
  BY <1>3, <1>4 DEF Tallied
<1>7. QED
  BY <1>5, <1>6, TallyPut

\* the steps that go on to another place with what was seen and counted
LEMMA PlaceTally ==
  ASSUME PowerInv, NEW k \in Key,
         \/ \E at : W!To(k, at)
         \/ \E fact, at : W!Costing(k, fact, at)
         \/ \E err : W!Refused(k, err)
         \/ W!ListSessions(k) \/ W!MyID(k)
         \/ press' = [press EXCEPT ![k].at = "lock", ![k].moved = TRUE]
         \/ W!LockStarts(k)
  PROVE  Tallies
<1> DEFINE p == press[k]
<1>1. p \in Requests
  BY DEF PowerInv
<1>2. ASSUME NEW q, Puts(k, q), q.kept = p.kept, q.stood = p.stood, q.count = p.count
      PROVE  Tallies
  BY <1>2, TallyPut DEF Tallied
<1>3. ASSUME NEW at, W!To(k, at)
      PROVE  Tallies
  <2> DEFINE q == [p EXCEPT !.at = at]
  <2>1. Puts(k, q)
    BY <1>3 DEF W!To, Puts, PowerInv
  <2>2. q.kept = p.kept /\ q.stood = p.stood /\ q.count = p.count
    BY <1>1 DEF Requests
  <2>3. QED
    BY <1>2, <2>1, <2>2
<1>4. ASSUME NEW fact, NEW at, W!Costing(k, fact, at)
      PROVE  Tallies
  <2> DEFINE q == [p EXCEPT !.at = at, !.names = @ \cup (IF fact \in world THEN W!Ending \X {fact} ELSE {})]
  <2>1. Puts(k, q)
    BY <1>4 DEF W!Costing, Puts, PowerInv
  <2>2. q.kept = p.kept /\ q.stood = p.stood /\ q.count = p.count
    BY <1>1 DEF Requests
  <2>3. QED
    BY <1>2, <2>1, <2>2
<1>5. ASSUME NEW err, W!Refused(k, err)
      PROVE  Tallies
  <2> DEFINE q == [p EXCEPT !.at = "sessions", !.err = err]
  <2>1. Puts(k, q)
    BY <1>5 DEF W!Refused, Puts, PowerInv
  <2>2. q.kept = p.kept /\ q.stood = p.stood /\ q.count = p.count
    BY <1>1 DEF Requests
  <2>3. QED
    BY <1>2, <2>1, <2>2
<1>6. CASE W!ListSessions(k)
  <2> DEFINE q == [p EXCEPT !.at = "mine", !.rows = world \cap Sessions]
  <2>1. Puts(k, q)
    BY <1>6 DEF W!ListSessions, Puts, PowerInv
  <2>2. q.kept = p.kept /\ q.stood = p.stood /\ q.count = p.count
    BY <1>1 DEF Requests
  <2>3. QED
    BY <1>2, <2>1, <2>2
<1>7. CASE W!MyID(k)
  <2>1. PICK id \in W!MyIDs : press' = [press EXCEPT ![k].at = "inhibitors", ![k].mine = id]
    BY <1>7 DEF W!MyID
  <2> DEFINE q == [p EXCEPT !.at = "inhibitors", !.mine = id]
  <2>2. Puts(k, q)
    BY <2>1 DEF Puts, PowerInv
  <2>3. q.kept = p.kept /\ q.stood = p.stood /\ q.count = p.count
    BY <1>1 DEF Requests
  <2>4. QED
    BY <1>2, <2>2, <2>3
<1>8. CASE press' = [press EXCEPT ![k].at = "lock", ![k].moved = TRUE]
  <2> DEFINE q == [p EXCEPT !.at = "lock", !.moved = TRUE]
  <2>1. Puts(k, q)
    BY <1>8 DEF Puts, PowerInv
  <2>2. q.kept = p.kept /\ q.stood = p.stood /\ q.count = p.count
    BY <1>1 DEF Requests
  <2>3. QED
    BY <1>2, <2>1, <2>2
<1>9. CASE W!LockStarts(k)
  <2>1. PICK under, err : Puts(k, [p EXCEPT !.at = "answered", !.under = under, !.err = err])
    <3>1. CASE press' = [press EXCEPT ![k].at = "answered",
                                      ![k].under = IF "locker" \in world THEN screen ELSE "nothing"]
      <4>1. PICK under : press' = [press EXCEPT ![k].at = "answered", ![k].under = under]
        BY <3>1
      <4>2. Puts(k, [p EXCEPT !.at = "answered", !.under = under, !.err = p.err])
        BY <1>1, <4>1 DEF Puts, Requests, PowerInv
      <4>3. QED
        BY <4>2
    <3>2. CASE press' = [press EXCEPT ![k].at = "answered", ![k].err = "failed"]
      <4>1. Puts(k, [p EXCEPT !.at = "answered", !.under = p.under, !.err = "failed"])
        BY <1>1, <3>2 DEF Puts, Requests, PowerInv
      <4>2. QED
        BY <4>1
    <3>3. QED
      BY <1>9, <3>1, <3>2 DEF W!LockStarts
  <2> DEFINE q == [p EXCEPT !.at = "answered", !.under = under, !.err = err]
  <2>2. q.kept = p.kept /\ q.stood = p.stood /\ q.count = p.count
    BY <1>1 DEF Requests
  <2>3. QED
    BY <1>2, <2>1, <2>2
<1>10. QED
  BY <1>3, <1>4, <1>5, <1>6, <1>7, <1>8, <1>9

LEMMA WorldTally ==
  ASSUME PowerInv,
         \E v \in SUBSET (W!Facts \cup {"walked"}) : press' = [k \in Key |-> W!Seen(k, v)]
  PROVE  Tallies
BY TallySeen DEF Tallies

LEMMA AsksTally ==
  ASSUME PowerInv, NEW k \in Key, NEW for, NEW at, W!Asks(k, for, at)
  PROVE  Tallies
<1> DEFINE q == [W!Rest EXCEPT !.at = at, !.for = for, !.kept = world, !.stood = world]
<1>1. q.kept = q.stood /\ q.count = 0
  BY DEF W!Rest
<1>2. Puts(k, q)
  BY DEF W!Asks, Puts
<1> HIDE DEF q
<1>3. Tallied(q, press[k])
  BY <1>1 DEF Tallied, Tally
<1>4. QED
  BY <1>2, <1>3, TallyPut

LEMMA EndedTally ==
  ASSUME PowerInv, NEW k \in Key, NEW id \in W!MyIDs, id \in world, W!Ended(k, id)
  PROVE  Tallies /\ ended' \subseteq ended \cup Sessions
<1> DEFINE p == press[k]
           a == W!Says("started", {}, 0)
           q == W!Answered(p, a)
           w == world \ {id}
<1>1. p \in Requests /\ w \in SUBSET (W!Facts \cup {"walked"})
  BY DEF PowerInv
<1>2. id \in Sessions
  BY MyIDsAreMine, PowerAssumption DEF PowerInv
<1>3. q.kept = p.kept /\ q.stood = p.stood /\ q.count = 0
  BY <1>1 DEF Requests, W!Answered, W!Says
<1>4. /\ press' = [j \in Key |-> IF j = k THEN q ELSE W!Seen(j, w)] /\ ended' = ended \cup {id}
  BY DEF W!Ended
<1> HIDE DEF q, w
<1>5. Tallied(q, p)
  BY <1>3 DEF Tallied, Tally
<1>6. Tallies
  BY <1>1, <1>4, <1>5, TallySeen DEF Tallies
<1>7. QED
  BY <1>2, <1>4, <1>6

\* an answer that counts nothing
LEMMA QuietTally ==
  ASSUME PowerInv, NEW k \in Key, NEW said,
         \/ W!Answer(k, W!Says(said, {}, 0))
         \/ W!NotLocked(k, said)
         \/ press' = [press EXCEPT ![k] = [W!Answered(@, W!Says(said, {}, 0)) EXCEPT !.at = "spawned"]]
  PROVE  Tallies
<1> DEFINE p == press[k]
           a == W!Says(said, {}, 0)
<1>1. p \in Requests
  BY DEF PowerInv
<1>2. a.count = 0
  BY DEF W!Says
<1>3. CASE W!NotLocked(k, said)
  <2> DEFINE q == [W!Answered(p, a) EXCEPT !.err = "failed"]
  <2>1. Puts(k, q)
    BY <1>3 DEF W!NotLocked, Puts, PowerInv
  <2>2. q.kept = p.kept /\ q.stood = p.stood /\ q.count = 0
    BY <1>1, <1>2 DEF Requests, W!Answered
  <2> HIDE DEF q
  <2>3. Tallied(q, p)
    BY <2>2 DEF Tallied, Tally
  <2>4. QED
    BY <2>1, <2>3, TallyPut
<1> HIDE DEF a
<1>4. CASE W!Answer(k, a)
  BY <1>2, <1>4, AnswerTally DEF Tally
<1>5. CASE press' = [press EXCEPT ![k] = [W!Answered(@, a) EXCEPT !.at = "spawned"]]
  <2> DEFINE q == [W!Answered(p, a) EXCEPT !.at = "spawned"]
  <2>1. q.kept = p.kept /\ q.stood = p.stood /\ q.count = 0
    BY <1>1, <1>2 DEF Requests, W!Answered
  <2>2. Puts(k, q)
    BY <1>5 DEF Puts, PowerInv
  <2> HIDE DEF q
  <2>3. Tallied(q, p)
    BY <2>1 DEF Tallied, Tally
  <2>4. QED
    BY <2>2, <2>3, TallyPut
<1>6. QED
  BY <1>3, <1>4, <1>5 DEF a

LEMMA PowerTallies ==
  ASSUME PowerInv, W!NextPower
  PROVE  Tallies /\ ended' \subseteq ended \cup Sessions
<1>1. ASSUME NEW k \in Key, W!PowerMenu(k) \/ W!IdleHold(k) \/ W!PowerRun(k) \/ W!LockPreset(k)
      PROVE  Tallies /\ ended' = ended
  <2>1. PICK for, at : W!Asks(k, for, at)
    BY <1>1 DEF W!PowerMenu, W!IdleHold, W!PowerRun, W!LockPreset
  <2>2. QED
    BY <2>1, AsksTally DEF W!Asks
<1>2. ASSUME NEW k \in Key, W!ListSessions(k) \/ W!MyID(k) \/ W!WindowsOpen(k) \/ W!UnqueuedArrivals(k)
                            \/ W!ReadConfig(k) \/ W!CanShow(k) \/ W!SwitchToPreset(k) \/ W!LockStarts(k)
      PROVE  Tallies /\ ended' = ended
  <2>1. /\ \/ \E at : W!To(k, at)
           \/ \E fact, at : W!Costing(k, fact, at)
           \/ W!ListSessions(k) \/ W!MyID(k)
           \/ press' = [press EXCEPT ![k].at = "lock", ![k].moved = TRUE]
           \/ W!LockStarts(k)
        /\ ended' = ended
    BY <1>2 DEF W!ListSessions, W!MyID, W!WindowsOpen, W!UnqueuedArrivals, W!ReadConfig, W!CanShow,
       W!SwitchToPreset, W!LockStarts
  <2>2. QED
    BY <2>1, PlaceTally
<1>3. ASSUME NEW k \in Key, W!CanLock(k) \/ W!RunLock(k)
      PROVE  Tallies /\ ended' = ended
  <2>1. /\ \/ \E at : W!To(k, at)
           \/ \E said : \/ W!Answer(k, W!Says(said, {}, 0))
                        \/ W!NotLocked(k, said)
                        \/ press' = [press EXCEPT ![k] = [W!Answered(@, W!Says(said, {}, 0)) EXCEPT !.at = "spawned"]]
        /\ ended' = ended
    BY <1>3 DEF W!CanLock, W!RunLock
  <2>2. QED
    BY <2>1, PlaceTally, QuietTally
<1>4. ASSUME NEW k \in Key, W!ListInhibitors(k)
      PROVE  Tallies /\ ended' = ended
  <2> DEFINE blocks == {i \in world \cap Inhibitors : ModeOf[i] = "block"}
  <2>1. /\ blocks \in SUBSET Inhibitors /\ {} \in SUBSET Inhibitors /\ ended' = ended
        /\ W!Told(k, press[k].mine, blocks, TRUE) \/ W!Told(k, press[k].mine, {}, FALSE)
    BY <1>4 DEF W!ListInhibitors
  <2> HIDE DEF blocks
  <2>2. QED
    BY <2>1, ToldTally
<1>5. ASSUME NEW k \in Key, W!StateFails(k)
      PROVE  Tallies /\ ended' = ended
  <2>1. /\ ended' = ended
        /\ \/ W!To(k, "windows") \/ W!Answer(k, W!Says("unknown", {}, 0))
           \/ \E a \in W!Because(press[k].for, press[k].err, {}, None, {}) : W!Answer(k, a)
    BY <1>5 DEF W!StateFails
  <2>2. ASSUME NEW a \in W!Because(press[k].for, press[k].err, {}, None, {}), W!Answer(k, a)
        PROVE  Tallies
    <3>1. press[k] \in Requests /\ {} \in SUBSET Sessions /\ {} \in SUBSET Inhibitors
      BY DEF PowerInv
    <3>2. Tally(a.count)
      BY <2>2, <3>1, SpeechTally
    <3>3. QED
      BY <2>2, <3>2, AnswerTally
  <2>3. QED
    BY <2>1, <2>2, PlaceTally, QuietTally
<1>6. ASSUME NEW k \in Key, W!ShutdownOrSleep(k) \/ W!Terminate(k)
      PROVE  Tallies /\ ended' \subseteq ended \cup Sessions
  <2>1. \/ /\ ended' = ended
           /\ (\E err : W!Refused(k, err)) \/ W!Answer(k, W!Says("started", {}, 0))
        \/ \E id \in W!MyIDs : id \in world /\ W!Ended(k, id)
    BY <1>6 DEF W!ShutdownOrSleep, W!Terminate, W!Refused
  <2>2. QED
    BY <2>1, PlaceTally, QuietTally, EndedTally
<1>7. ASSUME NEW fact \in W!Facts, W!Changes(fact)
      PROVE  Tallies /\ ended' = ended
  <2>1. /\ world' \in SUBSET (W!Facts \cup {"walked"})
        /\ press' = [j \in Key |-> W!Seen(j, world')] /\ ended' = ended
    BY <1>7 DEF W!Changes, PowerInv
  <2>2. QED
    BY <2>1, WorldTally
<1>8. CASE W!Walks
  <2>1. /\ world \cup {"walked"} \in SUBSET (W!Facts \cup {"walked"})
        /\ press' = [j \in Key |-> W!Seen(j, world \cup {"walked"})] /\ ended' = ended
    BY <1>8 DEF W!Walks, PowerInv
  <2>2. QED
    BY <2>1, WorldTally
<1>9. QED
  BY <1>1, <1>2, <1>3, <1>4, <1>5, <1>6, <1>7, <1>8 DEF W!NextPower

LEMMA TallyInductive == Spec => []TallyInv
<1>1. Init => TallyInv
  <2>1. Init => PowerInv
    BY PowerInit
  <2>2. Init => ended = {} /\ \A k \in Key : press[k] = W!Rest
    BY DEF Init, W!InitPower
  <2>3. W!Rest.kept = {} /\ W!Rest.count = 0
    BY DEF W!Rest
  <2>4. QED
    BY <2>1, <2>2, <2>3 DEF TallyInv, Tally
<1>2. ASSUME TallyInv, [Next]_vars
      PROVE  TallyInv'
  <2>1. PowerInv /\ PowerInv'
    BY <1>2, PowerKept DEF TallyInv
  <2>2. CASE W!NextPower
    BY <1>2, <2>1, <2>2, PowerTallies, TallyStep
  <2>3. CASE UNCHANGED ofW
    BY <1>2, <2>1, <2>3 DEF ofW, TallyInv, Tally
  <2>4. QED
    BY <1>2, <2>2, <2>3 DEF Next, vars
<1>3. QED
  BY <1>1, <1>2, PTL DEF Spec

LEMMA PowerTypes == TallyInv => W!TypeOK
<1> SUFFICES ASSUME TallyInv
             PROVE  W!TypeOK
  OBVIOUS
<1>1. IsFiniteSet(W!Facts)
  <2>1. IsFiniteSet({"locker", "preset", "private", "broken", "windows", "unqueued"})
    <3>1. IsFiniteSet({"locker"} \cup {"preset"})
      BY FS_Singleton, FS_AddElement
    <3>2. IsFiniteSet(({"locker"} \cup {"preset"}) \cup {"private"})
      BY <3>1, FS_AddElement
    <3>3. IsFiniteSet((({"locker"} \cup {"preset"}) \cup {"private"}) \cup {"broken"})
      BY <3>2, FS_AddElement
    <3>4. IsFiniteSet({"windows"} \cup {"unqueued"})
      BY FS_Singleton, FS_AddElement
    <3>5. IsFiniteSet(((({"locker"} \cup {"preset"}) \cup {"private"}) \cup {"broken"})
                      \cup ({"windows"} \cup {"unqueued"}))
      BY <3>3, <3>4, FS_Union
    <3>6. {"locker", "preset", "private", "broken", "windows", "unqueued"}
            = ((({"locker"} \cup {"preset"}) \cup {"private"}) \cup {"broken"})
                \cup ({"windows"} \cup {"unqueued"})
      OBVIOUS
    <3>7. QED
      BY <3>5, <3>6
  <2>2. QED
    BY <2>1, PowerAssumption, FS_Union DEF W!Facts
<1>2. ASSUME NEW n, Tally(n)
      PROVE  n \in 0 .. W!Cardinality(W!Facts)
  <2>1. Cardinality(W!Facts) \in Nat
    BY <1>1, FS_CardinalityType
  <2>2. CASE n = 0
    BY <2>1, <2>2, CountedAsUsual
  <2>3. ASSUME NEW some \in SUBSET W!Facts, n = Cardinality(some)
        PROVE  n \in 0 .. W!Cardinality(W!Facts)
    <3>1. Cardinality(some) \in Nat /\ Cardinality(some) <= Cardinality(W!Facts)
      BY <1>1, FS_Subset, FS_CardinalityType
    <3>2. QED
      BY <2>1, <2>3, <3>1, CountedAsUsual
  <2>4. QED
    BY <1>2, <2>2, <2>3 DEF Tally
<1>3. ASSUME NEW k \in Key
      PROVE  /\ press[k].at \in Ats /\ press[k].for \in W!What \cup {"menu", "idle", "lock", "preset"}
             /\ press[k].rows \subseteq Sessions /\ press[k].mine \in Sessions \cup {None}
             /\ press[k].count \in 0 .. W!Cardinality(W!Facts) /\ press[k].kept \subseteq press[k].stood
  <2>1. press[k] \in Requests /\ Tally(press[k].count) /\ press[k].kept \subseteq press[k].stood
    BY DEF TallyInv, PowerInv
  <2>2. press[k].count \in 0 .. W!Cardinality(W!Facts)
    BY <1>2, <2>1
  <2>3. QED
    BY <2>1, <2>2 DEF Requests
<1>4. QED
  BY <1>3 DEF TallyInv, PowerInv, W!TypeOK, Ats

-----------------------------------------------------------------------------
(***************************************************************************)
(* The clipboard history.  Every entry was young at the last sweep; an     *)
(* id says one text for as long as it is kept, to the put that copied it   *)
(* and to the selection that came of the put; and an echo that nothing     *)
(* crossed is expected, or was for too long, or its entry is gone.         *)
(***************************************************************************)
Said == {c.text : c \in Copies} \cup {None, "image", "big"}
Selections == [text : Said, kind : {c.kind : c \in Copies} \cup {"text", "secret"}, by : Nat]
Entries == [id : Nat, text : Said, kind : {"text", "too-big", "other"}, at : Nat,
            marked : BOOLEAN, gap : BOOLEAN]
Putting == [at : {"idle", "expect", "write"}, id : Nat, text : Said, alone : BOOLEAN]

LastSweep == sweepAt - SweepEvery

EntryOK(e) ==
  /\ e.id \in 1 .. nextID /\ e.at \in 0 .. now
  /\ LastSweep - e.at < TTL /\ (e.marked => e.gap)

RingOK ==
  /\ now \in Nat /\ nextID \in Nat /\ expect \in 0 .. nextID /\ expectAt \in 0 .. now
  /\ sweepAt \in Nat /\ LastSweep <= now /\ now <= sweepAt
  /\ entries \subseteq Entries /\ IsFiniteSet(entries) /\ Cardinality(entries) <= ClipMax
  /\ \A e \in entries : EntryOK(e)
  /\ \A e, f \in entries : e.id = f.id => e = f

\* a watcher that is reading asked about the selection a moment ago
WatchOK ==
  /\ sel \in Selections /\ bell \in BOOLEAN /\ fresh \in BOOLEAN
  /\ watcher \in [at : {"down", "idle", "settling", "typed"}, stamp : 0 .. now, gap : BOOLEAN]
  /\ watcher.at = "typed" =>
       now - watcher.stamp <= 1 /\ (sel.kind = "secret" => watcher.gap)

\* the entry of this id is text, and this text
Says(id, text) == \A e \in entries : e.id = id => e.kind = "text" /\ e.text = text

\* the selection that the put of this id makes is taken for an echo, or need not be
Awaited(id) ==
  expect = id \/ now - expectAt >= ExpectWindow \/ \A e \in entries : e.id # id

\* a put under way, and one that no other put crossed
PutOK(k) ==
  put[k].at # "idle" =>
    /\ put[k].id \in 1 .. nextID /\ Says(put[k].id, put[k].text)
    /\ put[k].alone => \A j \in Callers \ {k} : put[j].at = "idle"
    /\ put[k].alone /\ put[k].at = "write" => Awaited(put[k].id)

PutsOK == put \in [Callers -> Putting] /\ \A k \in Callers : PutOK(k)

\* the selection that a put made
WrittenOK ==
  sel.by # 0 =>
    /\ sel.kind = "text" /\ sel.by \in 1 .. nextID /\ Says(sel.by, sel.text)
    /\ fresh => Awaited(sel.by)

ClipInv == RingOK /\ WatchOK /\ PutsOK /\ WrittenOK

-----------------------------------------------------------------------------
\* nothing new says what an older id says
Kept ==
  nextID' \in Nat /\ nextID <= nextID' /\ \A e \in entries' : e \in entries \/ e.id > nextID

\* what is expected is still, unless for too long or of nothing
Expecting ==
  /\ expectAt' = expectAt /\ now' \in Nat /\ now <= now'
  /\ expect' = expect \/ now' - expectAt >= ExpectWindow \/ entries' = {}

LEMMA SaysStill ==
  ASSUME nextID \in Nat, Kept, NEW id \in 1 .. nextID, NEW text, Says(id, text)
  PROVE  id \in 1 .. nextID' /\ Says(id, text)'
<1>1. \A e \in entries' : e.id = id => e \in entries
  BY DEF Kept
<1> QED
  BY <1>1 DEF Says, Kept

LEMMA AwaitedStill ==
  ASSUME RingOK, Kept, Expecting, NEW id \in 1 .. nextID, Awaited(id)
  PROVE  Awaited(id)'
<1>1. now - expectAt >= ExpectWindow => now' - expectAt >= ExpectWindow
  BY ClipAssumption DEF Expecting, RingOK
<1>2. (\A e \in entries : e.id # id) => \A e \in entries' : e.id # id
  BY DEF Kept, RingOK
<1> QED
  BY <1>1, <1>2 DEF Expecting, Awaited

\* the oldest entry goes from a ring that has one too many
LEMMA OldestGoes ==
  ASSUME NEW all, all \subseteq Entries, IsFiniteSet(all), Cardinality(all) <= ClipMax + 1
  PROVE  /\ B!Fits(all, ClipMax) \subseteq all
         /\ IsFiniteSet(B!Fits(all, ClipMax))
         /\ Cardinality(B!Fits(all, ClipMax)) <= ClipMax
<1> DEFINE rest == {e \in all : \E f \in all : f.id < e.id}
<1>0. B!Cardinality(all) = Cardinality(all) /\ ClipMax \in Nat /\ Cardinality(all) \in Nat
  BY ClipAssumption, FS_CardinalityType DEF B!Cardinality, Cardinality
<1>1. CASE Cardinality(all) > ClipMax
  <2>1. B!Fits(all, ClipMax) = rest
    BY <1>0, <1>1 DEF B!Fits
  <2>2. {e.id : e \in all} \subseteq Nat
    BY DEF Entries
  <2>3. {e.id : e \in all} # {}
    <3>1. all # {}
      BY <1>0, <1>1, FS_EmptySet
    <3> QED
      BY <3>1
  <2>4. PICK least \in {e.id : e \in all} :
          \A n \in {e.id : e \in all} : ~(<<n, least>> \in OpToRel(<, Nat))
    <3> HIDE DEF rest
    <3> QED
      BY <2>2, <2>3, NatLessThanWellFounded, WFMin
  <2>5. PICK oldest \in all : oldest.id = least
    OBVIOUS
  <2>6. \A f \in all : ~(f.id < oldest.id)
    BY <2>2, <2>4, <2>5 DEF OpToRel
  <2>7. rest \subseteq all \ {oldest}
    BY <2>6
  <2>8. IsFiniteSet(all \ {oldest}) /\ Cardinality(all \ {oldest}) = Cardinality(all) - 1
    BY <2>5, FS_RemoveElement
  <2>9. IsFiniteSet(rest) /\ Cardinality(rest) <= Cardinality(all \ {oldest})
    BY <2>7, <2>8, FS_Subset
  <2> QED
    BY <1>0, <2>1, <2>7, <2>8, <2>9, FS_CardinalityType
<1>2. CASE ~(Cardinality(all) > ClipMax)
  BY <1>0, <1>2 DEF B!Fits
<1> QED
  BY <1>1, <1>2

\* a new entry, of a moment ago
LEMMA PushRing ==
  ASSUME RingOK, UNCHANGED <<now, sweepAt>>,
         NEW e, e \in Entries, e.at <= now, now - e.at <= 1, e.marked => e.gap,
         B!Push(e)
  PROVE  RingOK' /\ Kept /\ UNCHANGED <<expect, expectAt>>
<1>0. PICK new : new = [e EXCEPT !.id = nextID + 1]
  OBVIOUS
<1> DEFINE all == entries \cup {new}
<1>1. /\ new \in Entries /\ new.id = nextID + 1 /\ new.at = e.at
      /\ new.marked => new.gap
  BY <1>0 DEF Entries, RingOK
<1>2. new \notin entries
  <2>1. ~(nextID + 1 <= nextID)
    BY DEF RingOK
  <2> QED
    BY <1>1, <2>1 DEF RingOK, EntryOK
<1>3. all \subseteq Entries /\ IsFiniteSet(all) /\ Cardinality(all) <= ClipMax + 1
  <2>1. IsFiniteSet(all) /\ Cardinality(all) = Cardinality(entries) + 1
    BY <1>2, FS_AddElement DEF RingOK
  <2> QED
    BY <1>1, <2>1, FS_CardinalityType, ClipAssumption DEF RingOK
<1>4. entries' = B!Fits(all, ClipMax) /\ nextID' = nextID + 1 /\ UNCHANGED <<expect, expectAt>>
  BY <1>0 DEF B!Push
<1>5. /\ entries' \subseteq all /\ IsFiniteSet(entries') /\ Cardinality(entries') <= ClipMax
  <2> HIDE DEF all
  <2> QED
    BY <1>3, <1>4, OldestGoes
<1>6. EntryOK(new)'
  <2>1. new.at \in 0 .. now /\ new.id \in 1 .. nextID'
    BY <1>1, <1>4 DEF RingOK, Entries
  <2>2. LastSweep - new.at < TTL
    BY <1>1, <2>1, ClipAssumption DEF RingOK, LastSweep, Entries
  <2> QED
    BY <1>1, <2>1, <2>2 DEF EntryOK, LastSweep
<1>7. \A f \in entries : EntryOK(f)'
  BY <1>4 DEF RingOK, EntryOK, LastSweep
<1>8. \A f \in entries' : EntryOK(f)'
  BY <1>5, <1>6, <1>7
<1>9. \A f, g \in entries' : f.id = g.id => f = g
  <2>1. \A f \in entries : f.id # new.id
    BY <1>1, <1>2 DEF RingOK, EntryOK
  <2> QED
    BY <1>5, <2>1 DEF RingOK
<1>10. Kept
  BY <1>1, <1>4, <1>5 DEF Kept, RingOK
<1>11. entries' \subseteq Entries
  BY <1>3, <1>5
<1> QED
  BY <1>4, <1>5, <1>8, <1>9, <1>10, <1>11 DEF RingOK, LastSweep

\* what a look takes away, and an expectation that has run out
LEMMA ExpiredRing ==
  ASSUME RingOK, UNCHANGED <<now, sweepAt>>, B!Expired
  PROVE  RingOK' /\ Kept /\ Expecting
<1>1. entries' \subseteq entries
  BY DEF B!Expired, B!Young
<1>2. IsFiniteSet(entries') /\ Cardinality(entries') <= ClipMax
  BY <1>1, FS_Subset, FS_CardinalityType, ClipAssumption DEF RingOK
<1>3. expect' \in 0 .. nextID /\ UNCHANGED <<nextID, expectAt>>
  BY DEF B!Expired, RingOK
<1>4. Expecting
  BY DEF B!Expired, B!Stale, Expecting, RingOK
<1> QED
  BY <1>1, <1>2, <1>3, <1>4 DEF RingOK, EntryOK, LastSweep, Kept

LEMMA SweptRing ==
  ASSUME RingOK, B!Sweep
  PROVE  RingOK' /\ Kept /\ Expecting
<1>1. entries' \subseteq entries /\ now' = now /\ sweepAt' = now + SweepEvery
  BY DEF B!Sweep, B!Expired, B!Young
<1>2. IsFiniteSet(entries') /\ Cardinality(entries') <= ClipMax
  BY <1>1, FS_Subset, FS_CardinalityType, ClipAssumption DEF RingOK
<1>3. expect' \in 0 .. nextID /\ UNCHANGED <<nextID, expectAt>>
  BY DEF B!Sweep, B!Expired, RingOK
<1>4. Expecting
  BY DEF B!Sweep, B!Expired, B!Stale, Expecting, RingOK
<1>5. sweepAt' \in Nat /\ LastSweep' = now /\ LastSweep' <= now' /\ now' <= sweepAt'
  BY <1>1, ClipAssumption DEF RingOK, LastSweep
<1>6. \A e \in entries' : EntryOK(e)'
  <2>1. \A e \in entries' : now - e.at < TTL
    BY DEF B!Sweep, B!Expired, B!Young
  <2> QED
    BY <1>1, <1>3, <1>5, <2>1 DEF RingOK, EntryOK
<1> QED
  BY <1>1, <1>2, <1>3, <1>4, <1>5, <1>6 DEF RingOK, Kept

\* what was read or noted is an echo, a repeat, or a new entry
LEMMA ArrivesRing ==
  ASSUME RingOK, UNCHANGED <<now, sweepAt>>,
         NEW text \in Said, NEW kind \in {"text", "too-big", "other"}, NEW t \in 0 .. now,
         NEW marked \in BOOLEAN, NEW gap \in BOOLEAN,
         now - t <= 1, marked => gap,
         B!Arrives(text, kind, t, marked, gap)
  PROVE  /\ RingOK' /\ Kept /\ UNCHANGED expectAt
         /\ kind # "text" => UNCHANGED expect
<1> DEFINE e == [id |-> 0, text |-> text, kind |-> kind, at |-> t, marked |-> marked, gap |-> gap]
<1>1. CASE kind = "text" /\ B!Echo(text, t)
  <2>1. expect' = 0 /\ UNCHANGED <<entries, nextID, expectAt>>
    BY <1>1 DEF B!Arrives
  <2> QED
    BY <1>1, <2>1 DEF RingOK, EntryOK, LastSweep, Kept
<1>2. CASE ~(kind = "text" /\ B!Echo(text, t)) /\ B!Repeats(text, kind)
  <2>1. UNCHANGED <<entries, nextID, expect, expectAt>>
    BY <1>2 DEF B!Arrives, B!ring
  <2> QED
    BY <2>1 DEF RingOK, EntryOK, LastSweep, Kept
<1>3. CASE ~(kind = "text" /\ B!Echo(text, t)) /\ ~B!Repeats(text, kind)
  <2>1. B!Push(e)
    BY <1>3 DEF B!Arrives
  <2>2. e \in Entries /\ e.at <= now /\ now - e.at <= 1 /\ (e.marked => e.gap)
    BY DEF Entries, RingOK
  <2> HIDE DEF e
  <2> QED
    BY <2>1, <2>2, PushRing
<1> QED
  BY <1>1, <1>2, <1>3

\* the ring, and what becomes of what was said and awaited before
LEMMA RingStep ==
  ASSUME RingOK, WatchOK, PutsOK, B!Next
  PROVE  RingOK' /\ Kept
<1>1. CASE UNCHANGED <<entries, nextID, expect, expectAt, now, sweepAt>>
  BY <1>1 DEF RingOK, EntryOK, LastSweep, Kept
<1>2. CASE B!Types
  <2>1. CASE sel.kind = "other"
    <3>1. B!Arrives("image", "other", now, FALSE, FALSE) /\ UNCHANGED <<now, sweepAt>>
      BY <1>2, <2>1 DEF B!Types
    <3>2. "image" \in Said /\ "other" \in {"text", "too-big", "other"} /\ now \in 0 .. now /\ now - now <= 1
      BY DEF RingOK, Said
    <3> QED
      BY <3>1, <3>2, ArrivesRing
  <2>2. CASE sel.kind # "other"
    BY <1>1, <1>2, <2>2 DEF B!Types, B!ring
  <2> QED
    BY <2>1, <2>2
<1>3. CASE B!Read
  <2>0. /\ watcher.stamp \in 0 .. now /\ now - watcher.stamp <= 1 /\ watcher.gap \in BOOLEAN
        /\ sel.kind = "secret" => watcher.gap
        /\ sel.text \in Said /\ "big" \in Said
        /\ (sel.kind = "secret") \in BOOLEAN
    BY <1>3 DEF B!Read, WatchOK, Selections, Said
  <2>1. CASE sel.kind = "other"
    BY <1>1, <1>3, <2>1 DEF B!Read, B!ring
  <2>2. CASE sel.kind = "big"
    <3>1. B!Arrives("big", "too-big", watcher.stamp, FALSE, FALSE) /\ UNCHANGED <<now, sweepAt>>
      BY <1>3, <2>2 DEF B!Read
    <3> QED
      BY <2>0, <3>1, ArrivesRing
  <2>3. CASE sel.kind # "other" /\ sel.kind # "big"
    <3>1. /\ B!Arrives(sel.text, "text", watcher.stamp, sel.kind = "secret", watcher.gap)
          /\ UNCHANGED <<now, sweepAt>>
      BY <1>3, <2>3 DEF B!Read
    <3> QED
      BY <2>0, <3>1, ArrivesRing
  <2> QED
    BY <2>1, <2>2, <2>3
<1>4. ASSUME NEW k \in Callers, NEW id \in 1 .. nextID, B!PutText(k, id)
      PROVE  RingOK' /\ Kept
  BY <1>4, ExpiredRing DEF B!PutText
<1>5. ASSUME NEW k \in Callers, B!PutExpects(k)
      PROVE  RingOK' /\ Kept
  <2>1. put[k].id \in 0 .. nextID
    BY <1>5 DEF B!PutExpects, PutsOK, PutOK
  <2> QED
    BY <1>5, <2>1 DEF B!PutExpects, RingOK, EntryOK, LastSweep, Kept
<1>6. ASSUME NEW k \in Callers, B!PutFails(k)
      PROVE  RingOK' /\ Kept
  BY <1>6 DEF B!PutFails, RingOK, EntryOK, LastSweep, Kept
<1>7. CASE B!Look
  BY <1>7, ExpiredRing DEF B!Look
<1>8. CASE B!Clear
  <2>1. IsFiniteSet({}) /\ Cardinality({}) = 0
    BY FS_EmptySet
  <2> QED
    BY <1>8, <2>1, ClipAssumption DEF B!Clear, RingOK, LastSweep, Kept
<1>9. CASE B!Sweep
  BY <1>9, SweptRing
<1>10. CASE B!Tick
  <2>1. now' = now + 1 /\ now < sweepAt /\ UNCHANGED <<entries, nextID, expect, expectAt, sweepAt>>
    BY <1>10 DEF B!Tick, B!ring
  <2>2. \A e \in entries : EntryOK(e)'
    BY <2>1 DEF RingOK, EntryOK, LastSweep
  <2>3. LastSweep' = LastSweep /\ LastSweep <= now /\ LastSweep \in Int
    BY <2>1, ClipAssumption DEF RingOK, LastSweep
  <2>4. Kept /\ now' \in Nat /\ LastSweep' <= now' /\ now' <= sweepAt'
    BY <2>1, <2>3 DEF RingOK, Kept
  <2> QED
    BY <2>1, <2>2, <2>4 DEF RingOK
<1>11. ASSUME NEW c \in Copies, B!Copy(c)
       PROVE  RingOK' /\ Kept
  <2>1. UNCHANGED <<entries, nextID, expect, expectAt, now, sweepAt>>
    BY <1>11 DEF B!Copy, B!ring
  <2> QED
    BY <1>1, <2>1
<1>12. ASSUME NEW k \in Callers, B!PutWrites(k)
       PROVE  RingOK' /\ Kept
  BY <1>1, <1>12 DEF B!PutWrites, B!ring
<1>13. CASE B!Rung \/ B!Unread \/ B!WatchEnds \/ B!WatchAgain
  BY <1>1, <1>13 DEF B!Rung, B!Unread, B!WatchEnds, B!WatchAgain, B!ring
<1> QED
  BY <1>2, <1>3, <1>4, <1>5, <1>6, <1>7, <1>8, <1>9, <1>10, <1>11, <1>12, <1>13
     DEF B!Next, B!Puts

\* a watcher asks about the selection, and reads it as it is by then
LEMMA WatchStep ==
  ASSUME RingOK, WatchOK, PutsOK, B!Next
  PROVE  WatchOK'
<1> DEFINE Watchers(t) == [at : {"down", "idle", "settling", "typed"}, stamp : 0 .. t, gap : BOOLEAN]
<1>0. now \in Nat /\ watcher \in Watchers(now)
  BY DEF RingOK, WatchOK
<1>1. ASSUME NEW s \in Selections, B!Changed(s), UNCHANGED now, fresh' \in BOOLEAN
      PROVE  WatchOK'
  <2>1. watcher' = [watcher EXCEPT !.gap = @ \/ watcher.at = "typed"]
    BY <1>1 DEF B!Changed
  <2>2. watcher' \in Watchers(now) /\ watcher'.at = watcher.at /\ watcher'.stamp = watcher.stamp
    BY ONLY <1>0, <2>1
  <2>3. watcher.at = "typed" => watcher'.gap
    BY <1>0, <2>1
  <2> QED
    BY <1>1, <2>2, <2>3 DEF B!Changed, WatchOK
<1>2. ASSUME NEW at \in {"down", "idle", "settling"}, watcher' = B!Resting(at),
             UNCHANGED sel, bell' \in BOOLEAN, fresh' \in BOOLEAN, now' \in Nat
      PROVE  WatchOK'
  <2>1. watcher' \in Watchers(now') /\ watcher'.at # "typed"
    BY ONLY <1>2 DEF B!Resting
  <2> QED
    BY <1>2, <2>1 DEF WatchOK
<1>3. CASE UNCHANGED <<sel, watcher, bell, now>> /\ fresh' \in BOOLEAN
  BY <1>3 DEF WatchOK
<1>4. ASSUME NEW c \in Copies, B!Copy(c)
      PROVE  WatchOK'
  <2>1. PICK s : s = [text |-> c.text, kind |-> c.kind, by |-> 0]
    OBVIOUS
  <2>2. s \in Selections
    BY <2>1 DEF Selections, Said
  <2>3. B!Changed(s) /\ UNCHANGED now /\ fresh' \in BOOLEAN
    BY <1>4, <2>1 DEF B!Copy, WatchOK
  <2> QED
    BY <1>1, <2>2, <2>3
<1>5. ASSUME NEW k \in Callers, B!PutWrites(k)
      PROVE  WatchOK'
  <2>0. put[k] \in Putting
    BY DEF PutsOK
  <2>1. PICK s : s = [text |-> put[k].text, kind |-> "text", by |-> put[k].id]
    OBVIOUS
  <2>2. s \in Selections
    BY <2>0, <2>1 DEF Selections, Putting
  <2>3. B!Changed(s) /\ UNCHANGED now /\ fresh' \in BOOLEAN
    BY <1>5, <2>0, <2>1 DEF B!PutWrites, Putting
  <2> QED
    BY <1>1, <2>2, <2>3
<1>6. CASE B!Types
  <2>1. CASE sel.kind \in {"text", "big"}
    <3>1. watcher' = [at |-> "typed", stamp |-> now, gap |-> FALSE] /\ UNCHANGED <<sel, bell, now, fresh>>
      BY <1>6, <2>1 DEF B!Types
    <3> QED
      BY <1>0, <2>1, <3>1 DEF WatchOK
  <2>2. CASE sel.kind \notin {"text", "big"}
    <3>1. watcher' = B!Resting("idle") /\ UNCHANGED <<sel, bell, now, fresh>>
      BY <1>6, <2>2 DEF B!Types
    <3> QED
      BY <1>0, <1>2, <3>1 DEF WatchOK
  <2> QED
    BY <2>1, <2>2
<1>7. CASE B!Tick
  <2>1. now' = now + 1 /\ UNCHANGED <<sel, bell, watcher, fresh>> /\ (watcher.at = "typed" => now <= watcher.stamp)
    BY <1>7 DEF B!Tick
  <2>2. watcher' \in Watchers(now')
    BY <1>0, <2>1
  <2> QED
    BY <1>0, <2>1, <2>2 DEF WatchOK
<1>8. CASE B!Rung
  BY <1>0, <1>2, <1>8 DEF B!Rung, WatchOK
<1>9. CASE B!Read
  BY <1>0, <1>2, <1>9 DEF B!Read, WatchOK
<1>10. CASE B!Unread
  BY <1>0, <1>2, <1>10 DEF B!Unread, WatchOK
<1>11. CASE B!WatchEnds
  BY <1>0, <1>2, <1>11 DEF B!WatchEnds, WatchOK
<1>12. CASE B!WatchAgain
  BY <1>0, <1>2, <1>12 DEF B!WatchAgain, WatchOK
<1>13. ASSUME NEW k \in Callers, B!PutExpects(k) \/ B!PutFails(k) \/ (\E id \in 1 .. nextID : B!PutText(k, id))
       PROVE  WatchOK'
  BY <1>3, <1>13 DEF B!PutExpects, B!PutFails, B!PutText, WatchOK
<1>14. CASE B!Look \/ B!Clear \/ B!Sweep
  BY <1>3, <1>14 DEF B!Look, B!Clear, B!Sweep, WatchOK
<1> QED
  BY <1>4, <1>5, <1>6, <1>7, <1>8, <1>9, <1>10, <1>11, <1>12, <1>13, <1>14 DEF B!Next, B!Puts

-----------------------------------------------------------------------------
\* what was said and awaited stays so, for a put that is as it was
LEMMA PutStays ==
  ASSUME RingOK, Kept, Expecting, NEW k \in Callers, PutOK(k),
         \A j \in Callers : put'[j].at = put[j].at,
         put'[k].id = put[k].id, put'[k].text = put[k].text,
         put'[k].alone => put[k].alone
  PROVE  PutOK(k)'
<1> SUFFICES ASSUME put[k].at # "idle"  PROVE PutOK(k)'
  BY DEF PutOK
<1>1. put[k].id \in 1 .. nextID /\ Says(put[k].id, put[k].text)
  BY DEF PutOK
<1>2. PICK id \in 1 .. nextID : id = put[k].id
  BY <1>1
<1>3. PICK text : text = put[k].text
  OBVIOUS
<1>4. id \in 1 .. nextID' /\ Says(id, text)'
  BY <1>1, <1>2, <1>3, SaysStill DEF RingOK
<1>5. put[k].alone /\ put[k].at = "write" => Awaited(id)'
  BY <1>2, AwaitedStill DEF PutOK
<1> QED
  BY <1>2, <1>3, <1>4, <1>5 DEF PutOK

\* what is not so when other puts are under way
LEMMA Alone ==
  ASSUME NEW k \in Callers, NEW j \in Callers \ {k},
         PutOK(j), put[k].at # "idle", put[j].at # "idle"
  PROVE  ~put[j].alone
BY DEF PutOK

\* the next step of a put that is under way, the others at rest or crossed by it
LEMMA PutMoves ==
  ASSUME RingOK, PutsOK, Kept, NEW k \in Callers, put[k].at # "idle",
         NEW p \in Putting, put' = [put EXCEPT ![k] = p],
         PutOK(k)'
  PROVE  PutsOK'
<1>1. put' \in [Callers -> Putting] /\ put'[k] = p /\ \A j \in Callers \ {k} : put'[j] = put[j]
  BY DEF PutsOK
<1>2. ASSUME NEW j \in Callers \ {k}
      PROVE  PutOK(j)'
  <2> SUFFICES ASSUME put[j].at # "idle"  PROVE PutOK(j)'
    BY <1>1 DEF PutOK
  <2>1. ~put[j].alone /\ put[j].id \in 1 .. nextID /\ Says(put[j].id, put[j].text)
    BY Alone DEF PutsOK, PutOK
  <2>2. PICK id \in 1 .. nextID : id = put[j].id
    BY <2>1
  <2>3. PICK text : text = put[j].text
    OBVIOUS
  <2>4. id \in 1 .. nextID' /\ Says(id, text)'
    BY <2>1, <2>2, <2>3, SaysStill DEF RingOK
  <2> QED
    BY <1>1, <2>1, <2>2, <2>3, <2>4 DEF PutOK
<1> QED
  BY <1>1, <1>2 DEF PutsOK

LEMMA ExpectingAsBefore ==
  ASSUME RingOK, UNCHANGED <<expect, expectAt, now>>
  PROVE  Expecting
BY DEF RingOK, Expecting

LEMMA PutsStep ==
  ASSUME RingOK, WatchOK, PutsOK, RingOK', Kept, B!Next
  PROVE  PutsOK'
<1>0. \A k \in Callers : put[k] \in Putting /\ PutOK(k)
  BY DEF PutsOK
<1>1. ASSUME UNCHANGED put, Expecting
      PROVE  PutsOK'
  <2>1. ASSUME NEW k \in Callers  PROVE PutOK(k)'
    BY <1>0, <1>1, PutStays
  <2> QED
    BY <1>1, <2>1 DEF PutsOK
<1>2. CASE B!Read
  <2>1. put' = [k \in Callers |-> [put[k] EXCEPT !.alone = @ /\ expect' = expect]]
    BY <1>2 DEF B!Read
  <2>2. \A k \in Callers : /\ put'[k] \in Putting
                           /\ put'[k].at = put[k].at /\ put'[k].id = put[k].id /\ put'[k].text = put[k].text
                           /\ put'[k].alone <=> put[k].alone /\ expect' = expect
    BY <1>0, <2>1 DEF Putting
  <2>3. CASE expect' = expect
    <3>1. Expecting
      BY <1>2, <2>3, ExpectingAsBefore DEF B!Read, B!Arrives, B!Push, B!ring
    <3>2. ASSUME NEW k \in Callers  PROVE PutOK(k)'
      BY <1>0, <2>2, <3>1, PutStays
    <3> QED
      BY <2>1, <2>2, <3>2 DEF PutsOK
  <2>4. CASE expect' # expect
    <3>1. ASSUME NEW k \in Callers, put[k].at # "idle"  PROVE PutOK(k)'
      <4>1. put[k].id \in 1 .. nextID /\ Says(put[k].id, put[k].text)
        BY <1>0, <3>1 DEF PutOK
      <4>2. PICK id \in 1 .. nextID : id = put[k].id
        BY <4>1
      <4>3. PICK text : text = put[k].text
        OBVIOUS
      <4>4. id \in 1 .. nextID' /\ Says(id, text)'
        BY <4>1, <4>2, <4>3, SaysStill DEF RingOK
      <4> QED
        BY <2>2, <2>4, <4>2, <4>3, <4>4 DEF PutOK
    <3>2. ASSUME NEW k \in Callers, put[k].at = "idle"  PROVE PutOK(k)'
      BY <2>2, <3>2 DEF PutOK
    <3>3. put' \in [Callers -> Putting]
      BY <2>1, <2>2
    <3> QED
      BY <3>1, <3>2, <3>3 DEF PutsOK
  <2> QED
    BY <2>3, <2>4
<1>3. ASSUME NEW k \in Callers, NEW of_ \in 1 .. nextID, B!PutText(k, of_)
      PROVE  PutsOK'
  <2>0. Expecting /\ nextID' = nextID /\ entries' = B!Young(now)
    BY <1>3, ExpiredRing DEF B!PutText, B!Expired
  <2>1. CASE UNCHANGED put
    BY <1>1, <2>0, <2>1
  <2>2. ASSUME NEW e \in B!Found(of_),
               put' = [j \in Callers |->
                         IF j = k THEN [at |-> "expect", id |-> of_, text |-> e.text,
                                        alone |-> \A i \in Callers \ {k} : put[i].at = "idle"]
                                  ELSE [put[j] EXCEPT !.alone = FALSE]]
        PROVE  PutsOK'
    <3>1. e \in entries /\ e.id = of_ /\ e.kind = "text" /\ e.text \in Said
      BY <2>2 DEF B!Found, B!Young, RingOK, Entries
    <3>2. Says(of_, e.text)
      BY <3>1 DEF Says, RingOK
    <3>3. \A j \in Callers \ {k} : /\ put'[j] \in Putting
                                   /\ put'[j].at = put[j].at /\ put'[j].id = put[j].id
                                   /\ put'[j].text = put[j].text /\ ~put'[j].alone
      BY <1>0, <2>2 DEF Putting
    <3>4. /\ put'[k].at = "expect" /\ put'[k].id = of_ /\ put'[k].text = e.text
          /\ put'[k].alone => \A i \in Callers \ {k} : put[i].at = "idle"
          /\ put'[k] \in Putting
      BY <2>2, <3>1 DEF Putting
    <3>5. PutOK(k)'
      <4>1. PICK text : text = e.text
        OBVIOUS
      <4>2. of_ \in 1 .. nextID' /\ Says(of_, text)'
        BY <3>2, <4>1, SaysStill DEF RingOK
      <4> QED
        BY <3>3, <3>4, <4>1, <4>2 DEF PutOK
    <3>6. ASSUME NEW j \in Callers \ {k}, put[j].at # "idle"  PROVE PutOK(j)'
      <4>1. put[j].id \in 1 .. nextID /\ Says(put[j].id, put[j].text)
        BY <1>0, <3>6 DEF PutOK
      <4>2. PICK id \in 1 .. nextID : id = put[j].id
        BY <4>1
      <4>3. PICK text : text = put[j].text
        OBVIOUS
      <4>4. id \in 1 .. nextID' /\ Says(id, text)'
        BY <4>1, <4>2, <4>3, SaysStill DEF RingOK
      <4> QED
        BY <3>3, <4>2, <4>3, <4>4 DEF PutOK
    <3>7. ASSUME NEW j \in Callers \ {k}, put[j].at = "idle"  PROVE PutOK(j)'
      BY <3>3, <3>7 DEF PutOK
    <3>8. put' \in [Callers -> Putting]
      BY <2>2, <3>3, <3>4
    <3> QED
      BY <3>5, <3>6, <3>7, <3>8 DEF PutsOK
  <2> QED
    BY <1>3, <2>1, <2>2 DEF B!PutText
<1>4. ASSUME NEW k \in Callers, B!PutExpects(k)
      PROVE  PutsOK'
  <2>1. PICK p : p = [put[k] EXCEPT !.at = "write"]
    OBVIOUS
  <2>2. p \in Putting /\ p.at = "write" /\ p.id = put[k].id /\ p.text = put[k].text /\ p.alone = put[k].alone
    BY <1>0, <2>1 DEF Putting
  <2>3. put' = [put EXCEPT ![k] = p] /\ put[k].at = "expect" /\ expect' = put[k].id
        /\ UNCHANGED <<entries, nextID>>
    BY <1>0, <1>4, <2>1 DEF B!PutExpects
  <2>4. PutOK(k)'
    <3>1. put'[k] = p /\ \A j \in Callers \ {k} : put'[j] = put[j]
      BY <2>3 DEF PutsOK
    <3>2. put[k].id \in 1 .. nextID /\ Says(put[k].id, put[k].text)
          /\ (put[k].alone => \A j \in Callers \ {k} : put[j].at = "idle")
      BY <1>0, <2>3 DEF PutOK
    <3> QED
      BY <2>2, <2>3, <3>1, <3>2 DEF PutOK, Says, Awaited
  <2> QED
    BY <2>2, <2>3, <2>4, PutMoves
<1>5. ASSUME NEW k \in Callers, B!PutWrites(k) \/ B!PutFails(k)
      PROVE  PutsOK'
  <2>1. put' = [put EXCEPT ![k] = B!Rest] /\ put[k].at = "write"
    BY <1>5 DEF B!PutWrites, B!PutFails
  <2>2. B!Rest \in Putting /\ B!Rest.at = "idle"
    BY DEF Putting, B!Rest, Said
  <2>3. PutOK(k)'
    BY <2>1, <2>2 DEF PutsOK, PutOK
  <2> QED
    BY <2>1, <2>2, <2>3, PutMoves
<1>6. CASE B!Types
  <2>1. UNCHANGED put /\ UNCHANGED <<expect, expectAt, now>>
    BY <1>6 DEF B!Types, B!Arrives, B!Push, B!ring
  <2> QED
    BY <1>1, <2>1, ExpectingAsBefore
<1>7. ASSUME NEW c \in Copies, B!Copy(c)
      PROVE  PutsOK'
  BY <1>1, <1>7, ExpectingAsBefore DEF B!Copy, B!ring
<1>8. CASE B!Rung \/ B!Unread \/ B!WatchEnds \/ B!WatchAgain
  BY <1>1, <1>8, ExpectingAsBefore DEF B!Rung, B!Unread, B!WatchEnds, B!WatchAgain, B!ring
<1>9. CASE B!Look
  BY <1>1, <1>9, ExpiredRing DEF B!Look
<1>10. CASE B!Clear
  BY <1>1, <1>10 DEF B!Clear, Expecting, RingOK
<1>11. CASE B!Sweep
  BY <1>1, <1>11, SweptRing DEF B!Sweep
<1>12. CASE B!Tick
  BY <1>1, <1>12 DEF B!Tick, B!ring, Expecting, RingOK
<1> QED
  BY <1>2, <1>3, <1>4, <1>5, <1>6, <1>7, <1>8, <1>9, <1>10, <1>11, <1>12 DEF B!Next, B!Puts

\* what a put wrote is its own text, and is still awaited until it is read
LEMMA WrittenStep ==
  ASSUME RingOK, WatchOK, PutsOK, WrittenOK, Kept, B!Next
  PROVE  WrittenOK'
<1>1. ASSUME UNCHANGED sel, fresh' => fresh /\ Expecting
      PROVE  WrittenOK'
  <2> SUFFICES ASSUME sel.by # 0  PROVE WrittenOK'
    BY <1>1 DEF WrittenOK
  <2>1. PICK id \in 1 .. nextID : id = sel.by
    BY DEF WrittenOK
  <2>2. PICK text : text = sel.text
    OBVIOUS
  <2>3. id \in 1 .. nextID' /\ Says(id, text)'
    BY <2>1, <2>2, SaysStill DEF RingOK, WrittenOK
  <2>4. fresh' => Awaited(id)'
    BY <1>1, <2>1, AwaitedStill DEF WrittenOK
  <2> QED
    BY <1>1, <2>1, <2>2, <2>3, <2>4 DEF WrittenOK
<1>2. ASSUME NEW k \in Callers, B!PutWrites(k)
      PROVE  WrittenOK'
  <2>1. /\ sel' = [text |-> put[k].text, kind |-> "text", by |-> put[k].id]
        /\ fresh' = put[k].alone /\ put[k].at = "write"
        /\ UNCHANGED <<entries, nextID, expect, expectAt, now>>
    BY <1>2 DEF B!PutWrites, B!Changed, B!ring
  <2>2. PutOK(k)
    BY DEF PutsOK
  <2> QED
    BY <2>1, <2>2 DEF PutOK, WrittenOK, Says, Awaited
<1>3. ASSUME NEW c \in Copies, B!Copy(c)
      PROVE  WrittenOK'
  BY <1>3 DEF B!Copy, B!Changed, WrittenOK
<1>4. CASE B!Read
  BY <1>1, <1>4 DEF B!Read
<1>5. CASE B!Types
  <2>1. UNCHANGED <<sel, fresh, expect, expectAt, now>>
    BY <1>5 DEF B!Types, B!Arrives, B!Push, B!ring
  <2> QED
    BY <1>1, <2>1, ExpectingAsBefore
<1>6. ASSUME NEW k \in Callers, NEW id \in 1 .. nextID, B!PutText(k, id)
      PROVE  WrittenOK'
  BY <1>1, <1>6, ExpiredRing DEF B!PutText
<1>7. ASSUME NEW k \in Callers, B!PutExpects(k) \/ B!PutFails(k)
      PROVE  WrittenOK'
  BY <1>1, <1>7 DEF B!PutExpects, B!PutFails
<1>8. CASE B!Rung \/ B!Unread \/ B!WatchEnds \/ B!WatchAgain
  BY <1>1, <1>8, ExpectingAsBefore DEF B!Rung, B!Unread, B!WatchEnds, B!WatchAgain, B!ring
<1>9. CASE B!Look
  BY <1>1, <1>9, ExpiredRing DEF B!Look
<1>10. CASE B!Clear
  BY <1>1, <1>10 DEF B!Clear, Expecting, RingOK
<1>11. CASE B!Sweep
  BY <1>1, <1>11, SweptRing DEF B!Sweep
<1>12. CASE B!Tick
  BY <1>1, <1>12 DEF B!Tick, B!ring, Expecting, RingOK
<1> QED
  BY <1>2, <1>3, <1>4, <1>5, <1>6, <1>7, <1>8, <1>9, <1>10, <1>11, <1>12 DEF B!Next, B!Puts

LEMMA ClipInit ==
  ASSUME B!Init
  PROVE  ClipInv
<1>1. IsFiniteSet({}) /\ Cardinality({}) = 0
  BY FS_EmptySet
<1>2. RingOK
  BY <1>1, ClipAssumption DEF B!Init, RingOK, LastSweep
<1>3. WatchOK
  <2>1. watcher = [at |-> "idle", stamp |-> 0, gap |-> FALSE] /\ now = 0
    BY DEF B!Init, B!Resting
  <2>2. watcher \in [at : {"down", "idle", "settling", "typed"}, stamp : 0 .. now, gap : BOOLEAN]
    BY ONLY <2>1
  <2>3. sel \in Selections
    BY DEF B!Init, Selections, Said
  <2>4. bell \in BOOLEAN /\ fresh \in BOOLEAN
    BY DEF B!Init
  <2> QED
    BY <2>1, <2>2, <2>3, <2>4 DEF WatchOK
<1>4. PutsOK
  <2>1. B!Rest \in Putting /\ B!Rest.at = "idle"
    BY DEF Putting, B!Rest, Said
  <2> QED
    BY <2>1 DEF B!Init, PutsOK, PutOK
<1>5. WrittenOK
  BY DEF B!Init, WrittenOK
<1> QED
  BY <1>2, <1>3, <1>4, <1>5 DEF ClipInv

LEMMA ClipStep ==
  ASSUME ClipInv, [Next]_vars
  PROVE  ClipInv'
<1>1. CASE B!Next
  <2>1. RingOK' /\ Kept
    BY <1>1, RingStep DEF ClipInv
  <2>2. WatchOK'
    BY <1>1, WatchStep DEF ClipInv
  <2>3. PutsOK'
    BY <1>1, <2>1, PutsStep DEF ClipInv
  <2>4. WrittenOK'
    BY <1>1, <2>1, WrittenStep DEF ClipInv
  <2> QED
    BY <2>1, <2>2, <2>3, <2>4 DEF ClipInv
<1>2. CASE UNCHANGED ofB
  BY <1>2 DEF ofB, ClipInv, RingOK, EntryOK, LastSweep, WatchOK, PutsOK, PutOK, WrittenOK, Says, Awaited
<1> QED
  BY <1>1, <1>2, Zenon DEF Next, vars

LEMMA ClipInductive == Spec => []ClipInv
<1>1. Init => ClipInv
  BY ClipInit DEF Init
<1>2. ClipInv /\ [Next]_vars => ClipInv'
  BY ClipStep
<1> QED
  BY <1>1, <1>2, PTL DEF Spec

\* The states of the clipboard history are what its module says: the ring is
\* never larger than it may be, and an id is of one entry (clip.go push).
LEMMA ClipTypes == ClipInv => B!TypeOK
<1> SUFFICES ASSUME ClipInv  PROVE B!TypeOK
  OBVIOUS
<1>1. B!Cardinality(entries) <= ClipMax
  BY DEF ClipInv, RingOK, B!Cardinality, Cardinality
<1>2. \A k \in Callers : put[k].at \in {"idle", "expect", "write"}
  BY DEF ClipInv, PutsOK, Putting
<1> QED
  BY <1>1, <1>2 DEF ClipInv, RingOK, EntryOK, WatchOK, B!TypeOK

\* No entry outlives its TTL by a whole sweep, whatever becomes of the watch,
\* and a marked secret is kept only when it was copied after the question what
\* the clipboard offers (clip_watch.go sweepClips, clip.go expire, wl.go take).
THEOREM ClipboardForgets == Spec => []ClipForgets
<1>1. ClipInv => ClipForgets
  <2> SUFFICES ASSUME ClipInv  PROVE ClipForgets
    OBVIOUS
  <2>1. ASSUME NEW e \in entries  PROVE now - e.at < TTL + SweepEvery
    <3>1. e.at \in Int /\ LastSweep - e.at < TTL /\ now <= sweepAt /\ now \in Nat /\ sweepAt \in Nat
      BY DEF ClipInv, RingOK, EntryOK
    <3> QED
      BY <3>1, ClipAssumption DEF LastSweep
  <2>2. \A e \in entries : e.marked => e.gap
    BY DEF ClipInv, RingOK, EntryOK
  <2> QED
    BY <2>1, <2>2 DEF ClipForgets, B!ClipForgets, B!ForgottenInTime, B!SecretOnlyInGap
<1> QED
  BY <1>1, ClipInductive, PTL

\* What zde put on the clipboard is no new entry when it comes back, unless it
\* took too long or its entry is gone (clip.go Expect, clip_put.go).
THEOREM PutBackStaysOld == Spec => PutBackIsNotNew
<1> DEFINE NotNew == B!Read /\ sel.by # 0 /\ fresh /\ nextID' # nextID =>
                       \/ now - expectAt >= ExpectWindow
                       \/ \A e \in entries : e.id # sel.by
<1>1. ClipInv => NotNew
  <2> SUFFICES ASSUME ClipInv, B!Read, sel.by # 0, fresh, nextID' # nextID,
                      ~(now - expectAt >= ExpectWindow), ~\A e \in entries : e.id # sel.by
               PROVE  FALSE
    OBVIOUS
  <2>1. sel.kind = "text" /\ Says(sel.by, sel.text) /\ expect = sel.by
    BY DEF ClipInv, WrittenOK, Awaited
  <2>2. watcher.stamp \in Nat /\ watcher.stamp <= now /\ watcher.at = "typed"
    BY DEF ClipInv, WatchOK, RingOK, B!Read
  <2>3. watcher.stamp - expectAt < ExpectWindow
    BY <2>2, ClipAssumption DEF ClipInv, RingOK
  <2>4. B!Echo(sel.text, watcher.stamp)
    BY <2>1, <2>3 DEF B!Echo, Says
  <2>5. B!Arrives(sel.text, "text", watcher.stamp, sel.kind = "secret", watcher.gap)
    BY <2>1 DEF B!Read
  <2>6. nextID' = nextID
    BY <2>4, <2>5 DEF B!Arrives
  <2> QED
    BY <2>6
<1>2. PutBackIsNotNew <=> [][NotNew]_B!vars
  BY DEF PutBackIsNotNew, B!PutBackIsNotNew
<1>3. ClipInv => [NotNew]_B!vars
  BY <1>1
<1> HIDE DEF NotNew
<1> QED
  BY <1>2, <1>3, ClipInductive, PTL

-----------------------------------------------------------------------------
(***************************************************************************)
(* The files zded writes.  A reading that nothing changed under has, of    *)
(* the files read so far, the first of every name; a snapshot's, every     *)
(* name of the files that stood all along and are read.                    *)
(***************************************************************************)
Shots == {F!FromMap(shape, name, private) :
            shape \in Shapes, name \in DOMAIN PathOf, private \in BOOLEAN}
Declares == {f.desk : f \in Texts} \cup Shots
Renderings == {F!DynamicKDL(z, desks) : z \in BOOLEAN, desks \in SUBSET Declares}
Snapped == {F!Written(d) : d \in Shots}

TaskAts == {"none", "done", "sync dir", "private dir", "save dir", "sync files", "private files",
            "save files", "map", "manifest temp", "set", "compare", "rules temp"}
Tasks ==
  [at : TaskAts, for : {"sync", "zen", "snapshot"}, want : BOOLEAN, desk : Shots \cup {None},
   todo : SUBSET Paths, out : SUBSET [path : Paths, desk : Declares], bad : Nat,
   text : Renderings \cup {None}, synced : BOOLEAN,
   said : {"nothing", "saved", "refused", "synced", "not synced", "error"},
   still : BOOLEAN, kept : SUBSET Paths]

Standing(table) == {p \in Paths : table[p] # None}

\* of the files in ps, one for every name, and no earlier one has it
FirstsOf(out, table, ps) ==
  /\ \A e \in out :
       /\ e.path \in ps /\ e.desk = F!Load(table[e.path]) /\ e.desk # None
       /\ \A r \in ps : r < e.path /\ F!Load(table[r]) # None => F!Load(table[r]).name # e.desk.name
  /\ \A r \in ps : F!Load(table[r]) # None =>
       \E e \in out : e.desk.name = F!Load(table[r]).name /\ e.path <= r

\* what F!Declared says of a directory
Considered(table) ==
  {p \in Paths : table[p] # None /\ Cardinality({q \in Paths : table[q] # None /\ q < p}) < ManifestsMax}
DeclaredIn(table) ==
  LET read == {p \in Considered(table) : F!Load(table[p]) # None} IN
  {F!Load(table[p]) : p \in {q \in read : \A r \in read : r < q =>
                                            F!Load(table[r]).name # F!Load(table[q]).name}}

\* a reading of a directory that has not changed since
SoFar(x, table) ==
  /\ x.todo # {} =>
       LET done == Standing(table) \ x.todo IN
       /\ x.todo \subseteq Standing(table) /\ \A p \in done, q \in x.todo : p < q
       /\ FirstsOf(x.out, table, done)
       /\ Cardinality(x.out) + x.bad = Cardinality(done) /\ Cardinality(done) <= ManifestsMax
  /\ x.todo = {} => {e.desk : e \in x.out} = DeclaredIn(table)

\* a snapshot's reading of one that may change
Keeping(x, table) ==
  /\ x.kept # {} => Cardinality(x.out) + x.bad + Cardinality(x.todo) <= ManifestsMax
  /\ \A p \in x.kept : F!Load(table[p]) # None =>
       p \in x.todo \/ \E e \in x.out : e.desk.name = F!Load(table[p]).name

Nameless(x, table) ==
  \A p \in x.kept : F!Load(table[p]) # None => F!Load(table[p]).name # x.desk.name

TaskOK(x, table, z) ==
  /\ x.kept \subseteq Standing(table) /\ (x.kept # {} => Cardinality(Standing(table)) <= ManifestsMax)
  /\ IsFiniteSet(x.out)
  /\ x.at = "sync files" /\ x.still => SoFar(x, table)
  /\ x.at \in {"compare", "rules temp"} /\ x.still => x.text = F!DynamicKDL(z, DeclaredIn(table))
  /\ x.at \in {"private dir", "private files", "map", "save dir", "save files", "manifest temp"} =>
       x.desk # None
  /\ x.at \in {"save dir", "save files", "manifest temp"} => F!Check(x.desk)
  /\ x.at = "save files" => Keeping(x, table)
  /\ x.at = "manifest temp" \/ x.said = "saved" => Nameless(x, table)
  /\ x.said = "saved" => x.desk # None /\ x.at = "done"

FilesInv ==
  /\ dir \in [Paths -> {None} \cup Texts \cup Snapped] /\ byHand \in [Paths -> {None} \cup Texts]
  /\ zen \in BOOLEAN /\ task \in [Task -> Tasks]
  /\ kdl \in [text : Renderings \cup {None}, synced : {TRUE}, mode : {"0600", "0644"}]
  /\ \A t \in Task : TaskOK(task[t], dir, zen)
  /\ settled => kdl.text = F!DynamicKDL(zen, DeclaredIn(dir)) /\ kdl.mode = "0600"
  /\ F!HandsOff
  /\ \A p \in Paths : dir[p] # None /\ byHand[p] = None => F!Load(dir[p]) # None

-----------------------------------------------------------------------------
(***************************************************************************)
(* What the operators come to.                                             *)
(***************************************************************************)
LEMMA CountedInFiles == \A S : F!Cardinality(S) = Cardinality(S)
BY DEF F!Cardinality, Cardinality

LEMMA PathsCount ==
  ASSUME NEW S \in SUBSET Paths
  PROVE  IsFiniteSet(S) /\ Cardinality(S) \in Nat
BY FilesAssumption, FS_Subset, FS_CardinalityType

LEMMA FewerPaths ==
  ASSUME NEW S \in SUBSET Paths, NEW T \in SUBSET S
  PROVE  Cardinality(T) <= Cardinality(S) /\ (T # S => Cardinality(T) < Cardinality(S))
<1>1. /\ IsFiniteSet(S) /\ Cardinality(S) \in Nat /\ Cardinality(T) \in Nat
  BY PathsCount
<1>2. QED
  BY <1>1, FS_Subset

LEMMA FirstPath ==
  ASSUME NEW S \in SUBSET Paths, S # {}
  PROVE  F!Min(S) \in S /\ \A y \in S : F!Min(S) <= y
<1>1. \E x \in S : \A y \in S : x <= y
  <2>1. S \in SUBSET Nat
    BY FilesAssumption
  <2>2. QED
    BY <2>1, LeastNumber
<1>2. QED
  BY <1>1 DEF F!Min

LEMMA DeclaredAs == F!Declared = DeclaredIn(dir)
<1>1. \A p \in Paths : {q \in Paths : F!Here(q) /\ q < p} = {q \in Paths : dir[q] # None /\ q < p}
  BY DEF F!Here
<1>2. Considered(dir) =
        {p \in Paths : F!Here(p) /\ F!Cardinality({q \in Paths : F!Here(q) /\ q < p}) < ManifestsMax}
  BY <1>1, CountedInFiles DEF Considered, F!Here
<1>3. QED
  BY <1>2 DEF F!Declared, DeclaredIn

LEMMA NoRenderingIsLost ==
  ASSUME NEW text \in Renderings \cup {None}
  PROVE  text # F!Lost
BY FilesAssumption DEF Renderings, F!DynamicKDL, F!Lost

LEMMA ShotsAreDesks ==
  ASSUME NEW d \in Shots
  PROVE  d # None /\ d.name \in DOMAIN PathOf /\ PathOf[d.name] \in Paths
<1>1. PICK shape \in Shapes, name \in DOMAIN PathOf, private \in BOOLEAN :
        d = F!FromMap(shape, name, private)
  BY DEF Shots
<1>2. d # None
  BY <1>1, FilesAssumption
<1>3. d.name = name
  BY <1>1 DEF F!FromMap
<1>4. QED
  BY <1>2, <1>3, FilesAssumption

LEMMA LoadsDesks ==
  ASSUME NEW f \in {None} \cup Texts \cup Snapped, f # None
  PROVE  F!Load(f) \in Declares \cup {None}
BY DEF F!Load, F!Parse, Snapped, F!Written, Declares

LEMMA LoadsSnapped ==
  ASSUME NEW d \in Shots, F!Check(d)
  PROVE  F!Load(F!Written(d)) = d
BY DEF F!Load, F!Parse, F!Plain, F!Trusted, F!Written

\* the desks a whole reading has are the ones the directory declares
LEMMA FirstsAreDeclared ==
  ASSUME NEW table, NEW out, FirstsOf(out, table, Considered(table))
  PROVE  {e.desk : e \in out} = DeclaredIn(table)
<1> DEFINE read == {p \in Considered(table) : F!Load(table[p]) # None}
           firsts == {q \in read : \A r \in read : r < q => F!Load(table[r]).name # F!Load(table[q]).name}
<1>1. \A e \in out : e.path \in firsts /\ e.desk = F!Load(table[e.path])
  BY DEF FirstsOf
<1>2. ASSUME NEW q \in firsts
      PROVE  \E e \in out : e.desk = F!Load(table[q])
  <2>1. PICK e \in out : e.desk.name = F!Load(table[q]).name /\ e.path <= q
    BY <1>2 DEF FirstsOf
  <2>2. e.path \in read /\ e.desk = F!Load(table[e.path]) /\ e.path \in Nat /\ q \in Nat
    BY <1>1, FilesAssumption DEF Considered
  <2>3. ~(e.path < q)
    BY <1>2, <2>1, <2>2
  <2>4. e.path = q
    BY <2>1, <2>2, <2>3
  <2>5. QED
    BY <2>2, <2>4
<1>3. QED
  BY <1>1, <1>2 DEF DeclaredIn

\* at the end, or at the cap, what was read is what is considered
LEMMA ReadToTheEnd ==
  ASSUME NEW table, Cardinality(Standing(table)) <= ManifestsMax
  PROVE  Considered(table) = Standing(table)
<1>1. ASSUME NEW p \in Standing(table)
      PROVE  Cardinality({q \in Paths : table[q] # None /\ q < p}) < ManifestsMax
  <2> DEFINE before == {q \in Paths : table[q] # None /\ q < p}
  <2>1. before \subseteq Standing(table) /\ p \notin before /\ Standing(table) \in SUBSET Paths
    BY FilesAssumption DEF Standing
  <2>2. Cardinality(before) < Cardinality(Standing(table))
    BY <2>1, FewerPaths
  <2>3. Cardinality(before) \in Nat /\ Cardinality(Standing(table)) \in Nat /\ ManifestsMax \in Nat
    BY <2>1, PathsCount, FilesAssumption
  <2>4. QED
    BY <2>2, <2>3
<1>2. QED
  BY <1>1 DEF Considered, Standing

LEMMA ReadToTheCap ==
  ASSUME NEW table, NEW done \in SUBSET Standing(table), Cardinality(done) = ManifestsMax,
         \A p \in done, q \in Standing(table) \ done : p < q
  PROVE  Considered(table) = done
<1>1. Standing(table) \in SUBSET Paths /\ done \in SUBSET Paths
  BY DEF Standing
<1>2. ASSUME NEW p \in Standing(table)
      PROVE  Cardinality({q \in Paths : table[q] # None /\ q < p}) < ManifestsMax <=> p \in done
  <2> DEFINE before == {q \in Paths : table[q] # None /\ q < p}
  <2>1. before \in SUBSET Paths /\ Cardinality(before) \in Nat /\ Cardinality(done) \in Nat
    BY <1>1, PathsCount
  <2>2. CASE p \in done
    <3>1. before \subseteq done /\ p \notin before
      <4>1. \A q \in before : q \in Standing(table) /\ q < p
        BY DEF Standing
      <4>2. \A q \in Standing(table) : q \in Nat
        BY <1>1, FilesAssumption
      <4>3. QED
        BY <2>2, <4>1, <4>2, <1>2
    <3>2. QED
      BY <1>1, <2>2, <3>1, FewerPaths
  <2>3. CASE p \notin done
    <3>1. done \subseteq before
      BY <1>1, <1>2, <2>3 DEF Standing
    <3>2. Cardinality(done) <= Cardinality(before)
      BY <2>1, <3>1, FewerPaths
    <3>3. QED
      BY <2>1, <2>3, <3>2
  <2>4. QED
    BY <2>2, <2>3
<1>3. QED
  BY <1>2 DEF Considered, Standing

-----------------------------------------------------------------------------
(***************************************************************************)
(* One task goes on, and the files stay.                                   *)
(***************************************************************************)
Moves(t, x) == task' = [task EXCEPT ![t] = x]
FilesStay == UNCHANGED <<dir, byHand, zen>>
RulesStay == UNCHANGED <<kdl, settled>>

LEMMA MovesStep ==
  ASSUME FilesInv, NEW t \in Task, NEW x \in Tasks, Moves(t, x), FilesStay, TaskOK(x, dir, zen),
         kdl' \in [text : Renderings \cup {None}, synced : {TRUE}, mode : {"0600", "0644"}],
         settled' => kdl'.text = F!DynamicKDL(zen, DeclaredIn(dir)) /\ kdl'.mode = "0600"
  PROVE  FilesInv'
<1>1. task' \in [Task -> Tasks]
  BY DEF FilesInv, Moves
<1>2. ASSUME NEW u \in Task
      PROVE  TaskOK(task'[u], dir, zen)
  BY DEF FilesInv, Moves
<1>3. QED
  BY <1>1, <1>2 DEF FilesInv, FilesStay, F!HandsOff

LEMMA MovesOn ==
  ASSUME FilesInv, NEW t \in Task, NEW x \in Tasks, Moves(t, x), FilesStay, RulesStay, TaskOK(x, dir, zen)
  PROVE  FilesInv'
BY MovesStep DEF FilesInv, RulesStay

\* what is so of a task that goes on or begins
LEMMA TaskHere ==
  ASSUME FilesInv, NEW t \in Task
  PROVE  task[t] \in Tasks /\ TaskOK(task[t], dir, zen)
BY DEF FilesInv

LEMMA IdleTask == F!Idle \in Tasks /\ IsFiniteSet(F!Idle.out) /\ F!Idle.kept = {} /\ F!Idle.said = "nothing"
BY FS_EmptySet DEF F!Idle, Tasks, TaskAts

\* an answer, with what it is an answer to
LEMMA EndsFiles ==
  ASSUME FilesInv, NEW t \in Task, NEW said \in {"refused", "synced", "not synced", "error"},
         F!Ends(t, said), FilesStay,
         kdl' \in [text : Renderings \cup {None}, synced : {TRUE}, mode : {"0600", "0644"}],
         settled' => kdl'.text = F!DynamicKDL(zen, DeclaredIn(dir)) /\ kdl'.mode = "0600"
  PROVE  FilesInv'
<1> DEFINE p == task[t]
           x == [F!Idle EXCEPT !.at = "done", !.said = said, !.for = p.for, !.kept = p.kept,
                               !.desk = p.desk]
<1>1. p \in Tasks /\ TaskOK(p, dir, zen)
  BY TaskHere
<1>2. /\ x \in Tasks /\ x.at = "done" /\ x.said = said /\ x.kept = p.kept /\ x.out = {}
  <2>1. /\ p.for \in {"sync", "zen", "snapshot"} /\ p.kept \in SUBSET Paths
        /\ p.desk \in Shots \cup {None}
    BY <1>1 DEF Tasks
  <2> HIDE DEF p
  <2>2. QED
    BY <2>1 DEF F!Idle, Tasks, TaskAts
<1>3. Moves(t, x)
  BY DEF F!Ends, Moves
<1> HIDE DEF x
<1>4. TaskOK(x, dir, zen)
  BY <1>1, <1>2, FS_EmptySet DEF TaskOK
<1>5. QED
  BY <1>2, <1>3, <1>4, MovesStep

\* what a step to another place leaves
Same(x, p) ==
  /\ x.for = p.for /\ x.want = p.want /\ x.desk = p.desk /\ x.todo = p.todo /\ x.out = p.out
  /\ x.bad = p.bad /\ x.text = p.text /\ x.synced = p.synced /\ x.said = p.said
  /\ x.still = p.still /\ x.kept = p.kept

LEMMA StepFiles ==
  ASSUME FilesInv, NEW t \in Task, NEW at \in {"map", "save dir", "manifest temp", "rules temp"},
         F!Step(t, at), FilesStay, RulesStay,
         \/ at = "map" /\ task[t].at = "private dir"
         \/ at = "save dir" /\ task[t].at = "map" /\ F!Check(task[t].desk)
         \/ at = "manifest temp" /\ task[t].at = "save files" /\ Nameless(task[t], dir)
         \/ at = "rules temp" /\ task[t].at = "compare"
  PROVE  FilesInv'
<1> DEFINE p == task[t]
           x == [p EXCEPT !.at = at]
<1>1. p \in Tasks /\ TaskOK(p, dir, zen)
  BY TaskHere
<1>2. x \in Tasks /\ x.at = at /\ Same(x, p)
  BY <1>1 DEF Tasks, TaskAts, Same
<1>3. Moves(t, x)
  BY DEF F!Step, Moves, FilesInv
<1> HIDE DEF x
<1>4. TaskOK(x, dir, zen)
  BY <1>1, <1>2 DEF TaskOK, Same, Nameless
<1>5. QED
  BY <1>2, <1>3, <1>4, MovesOn

-----------------------------------------------------------------------------
(***************************************************************************)
(* The readings.                                                           *)
(***************************************************************************)
LEMMA ReadDirFiles ==
  ASSUME FilesInv, NEW t \in Task, F!ReadDir(t)
  PROVE  FilesInv'
<1> DEFINE p == task[t]
           at == F!Files[F!Purpose(p.at)]
           todo == {q \in Paths : F!Here(q)}
           x == [p EXCEPT !.at = at, !.todo = todo, !.out = {}, !.bad = 0]
<1>1. p \in Tasks /\ TaskOK(p, dir, zen) /\ p.at \in F!Reading
  BY TaskHere DEF F!ReadDir
<1>2. \/ p.at = "sync dir" /\ at = "sync files"
      \/ p.at = "private dir" /\ at = "private files"
      \/ p.at = "save dir" /\ at = "save files"
  BY <1>1 DEF F!Reading, F!Purpose, F!Files
<1>3. todo = Standing(dir) /\ todo \in SUBSET Paths
  BY DEF Standing, F!Here
<1>4. Moves(t, x) /\ FilesStay /\ RulesStay
  BY DEF F!ReadDir, Moves, FilesStay, RulesStay, FilesInv
<1> HIDE DEF at, todo
<1>5. /\ x \in Tasks /\ x.at = at /\ x.todo = todo /\ x.out = {} /\ x.bad = 0
      /\ x.desk = p.desk /\ x.said = p.said /\ x.kept = p.kept
  BY <1>1, <1>2, <1>3 DEF Tasks, TaskAts
<1> HIDE DEF x, p
<1>6. Cardinality({}) = 0 /\ IsFiniteSet({}) /\ ManifestsMax \in Nat
      /\ Cardinality(todo) \in Nat
  BY <1>3, FS_EmptySet, FilesAssumption, PathsCount
<1>7. SoFar(x, dir)
  <2>1. CASE todo # {}
    BY <1>3, <1>5, <1>6, <2>1 DEF SoFar, FirstsOf
  <2>2. CASE todo = {}
    <3>1. FirstsOf({}, dir, Considered(dir))
      BY <1>3, <2>2 DEF FirstsOf, Considered, Standing
    <3>2. QED
      BY <1>5, <2>2, <3>1, FirstsAreDeclared DEF SoFar
  <2>3. QED
    BY <2>1, <2>2
<1>8. x.kept \subseteq todo /\ (x.kept # {} => Cardinality(todo) <= ManifestsMax)
  BY <1>1, <1>3, <1>5 DEF TaskOK
<1>9. Keeping(x, dir)
  BY <1>5, <1>6, <1>8 DEF Keeping
<1>10. TaskOK(x, dir, zen)
  BY <1>1, <1>2, <1>5, <1>6, <1>7, <1>9 DEF TaskOK
<1>11. QED
  BY <1>4, <1>5, <1>10, MovesOn

LEMMA CannotReadFiles ==
  ASSUME FilesInv, NEW t \in Task, F!CannotReadDir(t)
  PROVE  FilesInv'
<1>1. FilesStay /\ RulesStay
  BY DEF F!CannotReadDir, FilesStay, RulesStay
<1>2. \/ F!Ends(t, "not synced") \/ F!Ends(t, "refused")
      \/ task[t].at = "private dir" /\ F!Step(t, "map")
  BY DEF F!CannotReadDir, F!Reading, F!Purpose
<1>3. QED
  BY <1>1, <1>2, EndsFiles, StepFiles DEF FilesInv, RulesStay

\* the next file of a reading, beside those that were read
LEMMA NextOfFirsts ==
  ASSUME NEW table, NEW out \in SUBSET [path : Paths, desk : Declares], NEW done \in SUBSET Paths,
         NEW p \in Paths, FirstsOf(out, table, done), \A q \in done : q < p,
         NEW new \in SUBSET {[path |-> p, desk |-> F!Load(table[p])]},
         new # {} <=> F!Load(table[p]) # None /\ ~\E e \in out : e.desk.name = F!Load(table[p]).name
  PROVE  FirstsOf(out \cup new, table, done \cup {p})
<1> DEFINE d == F!Load(table[p])
           e0 == [path |-> p, desk |-> d]
<1>1. e0.path = p /\ e0.desk = d /\ p \in Nat /\ \A q \in done : q \in Nat
  BY FilesAssumption
<1> HIDE DEF e0
<1>2. ASSUME NEW e \in out \cup new
      PROVE  /\ e.path \in done \cup {p} /\ e.desk = F!Load(table[e.path]) /\ e.desk # None
             /\ \A r \in done \cup {p} :
                  r < e.path /\ F!Load(table[r]) # None => F!Load(table[r]).name # e.desk.name
  <2>1. CASE e \in out
    <3>1. /\ e.path \in done /\ e.desk = F!Load(table[e.path]) /\ e.desk # None
          /\ \A r \in done : r < e.path /\ F!Load(table[r]) # None => F!Load(table[r]).name # e.desk.name
      BY <2>1 DEF FirstsOf
    <3>2. e.path \in Nat /\ e.path < p
      BY <1>1, <3>1
    <3>3. ~(p < e.path)
      BY <1>1, <3>2
    <3>4. QED
      BY <3>1, <3>3
  <2>2. CASE e \notin out
    <3>1. e = e0 /\ d # None /\ ~\E f \in out : f.desk.name = d.name
      BY <1>2, <2>2 DEF e0
    <3>2. ASSUME NEW r \in done \cup {p}, r < p, F!Load(table[r]) # None
          PROVE  F!Load(table[r]).name # d.name
      <4>1. r \in done
        BY <1>1, <3>2
      <4>2. PICK f \in out : f.desk.name = F!Load(table[r]).name
        BY <3>2, <4>1 DEF FirstsOf
      <4>3. QED
        BY <3>1, <4>2
    <3>3. QED
      BY <1>1, <3>1, <3>2
  <2>3. QED
    BY <2>1, <2>2
<1>3. ASSUME NEW r \in done \cup {p}, F!Load(table[r]) # None
      PROVE  \E e \in out \cup new : e.desk.name = F!Load(table[r]).name /\ e.path <= r
  <2>1. CASE r \in done
    BY <1>3, <2>1 DEF FirstsOf
  <2>2. CASE r = p /\ new # {}
    <3>1. e0 \in new
      BY <2>2 DEF e0
    <3>2. QED
      BY <1>1, <2>2, <3>1
  <2>3. CASE r = p /\ new = {}
    <3>1. PICK e \in out : e.desk.name = d.name
      BY <1>3, <2>3
    <3>2. e.path \in done
      BY <3>1 DEF FirstsOf
    <3>3. e.path < p /\ e.path \in Nat
      BY <1>1, <3>2
    <3>4. e \in out \cup new /\ e.path <= r
      BY <1>1, <2>3, <3>3
    <3>5. QED
      BY <2>3, <3>1, <3>4
  <2>4. QED
    BY <2>1, <2>2, <2>3
<1>4. QED
  BY <1>2, <1>3 DEF FirstsOf

\* a reading p and the next, x: the file at q of the directory is taken or not, or the
\* cap is met
NextIs(p, x, q, capped, new) ==
  /\ p.at \in {"sync files", "private files", "save files"}
  /\ q \in p.todo /\ \A r \in p.todo : q <= r
  /\ capped <=> Cardinality(p.out) + p.bad >= ManifestsMax
  /\ new \subseteq {[path |-> q, desk |-> F!Load(dir[q])]}
  /\ x.out = p.out \cup new /\ IsFiniteSet(x.out)
  /\ x.bad = IF capped \/ new = {} THEN p.bad + 1 ELSE p.bad
  /\ capped => new = {} /\ x.todo = {}
  /\ ~capped =>
       /\ new # {} <=> /\ dir[q] # None /\ F!Load(dir[q]) # None
                       /\ ~\E e \in p.out : e.desk.name = F!Load(dir[q]).name
       /\ x.todo = p.todo \ {q}
       /\ Cardinality(x.out) + x.bad = Cardinality(p.out) + p.bad + 1
  /\ x.at = p.at /\ x.still = p.still /\ x.desk = p.desk /\ x.said = p.said /\ x.kept = p.kept

LEMMA LoadNextIs ==
  ASSUME FilesInv, NEW t \in Task, F!LoadNext(t)
  PROVE  \E x \in Tasks, q \in Paths, capped \in BOOLEAN, new \in SUBSET [path : Paths, desk : Declares] :
           Moves(t, x) /\ FilesStay /\ RulesStay /\ NextIs(task[t], x, q, capped, new)
<1> DEFINE y == task[t]
           q == F!Min(y.todo)
           d == IF F!Here(q) THEN F!Load(dir[q]) ELSE None
           capped == F!Cardinality(y.out) + y.bad >= ManifestsMax
           takes == d # None /\ F!Named(t, d.name) = {}
           new == IF ~capped /\ takes THEN {[path |-> q, desk |-> d]} ELSE {}
           todo == IF capped THEN {} ELSE y.todo \ {q}
           bad == IF capped \/ ~takes THEN y.bad + 1 ELSE y.bad
           x == [y EXCEPT !.todo = todo, !.bad = bad, !.out = y.out \cup new]
<1>1. /\ y \in Tasks /\ IsFiniteSet(y.out) /\ y.todo # {}
      /\ y.at \in {"sync files", "private files", "save files"}
  <2>1. y \in Tasks /\ IsFiniteSet(y.out)
    BY TaskHere DEF TaskOK
  <2>2. y.at \in F!Range(F!Files) /\ y.todo # {}
    BY DEF F!LoadNext
  <2>3. F!Range(F!Files) = {F!Files[k] : k \in {"sync", "private", "save"}}
    BY DEF F!Range, F!Files
  <2>4. F!Range(F!Files) = {"sync files", "private files", "save files"}
    <3>1. /\ F!Files["sync"] = "sync files" /\ F!Files["private"] = "private files"
          /\ F!Files["save"] = "save files"
      BY DEF F!Files
    <3>2. QED
      BY <2>3, <3>1
  <2>5. QED
    BY <2>1, <2>2, <2>4
<1>2. q \in y.todo /\ q \in Paths /\ \A r \in y.todo : q <= r
  <2>1. y.todo \in SUBSET Paths
    BY <1>1 DEF Tasks
  <2>2. QED
    BY <1>1, <2>1, FirstPath
<1>3. /\ task' = [task EXCEPT
             ![t].todo = IF capped THEN {} ELSE @ \ {q},
             ![t].bad  = IF capped \/ ~takes THEN @ + 1 ELSE @,
             ![t].out  = IF ~capped /\ takes THEN @ \cup {[path |-> q, desk |-> d]} ELSE @]
      /\ FilesStay /\ RulesStay
  BY DEF F!LoadNext, FilesStay, RulesStay
<1>4. takes <=> /\ dir[q] # None /\ F!Load(dir[q]) # None
                /\ ~\E e \in y.out : e.desk.name = F!Load(dir[q]).name
  BY DEF F!Here, F!Named, F!Loaded
<1>5. takes => d = F!Load(dir[q]) /\ d \in Declares
  <2>1. dir[q] \in {None} \cup Texts \cup Snapped
    BY <1>2 DEF FilesInv
  <2>2. QED
    BY <1>4, <2>1, LoadsDesks DEF F!Here
<1>6. capped \in BOOLEAN /\ takes \in BOOLEAN
      /\ (capped <=> Cardinality(y.out) + y.bad >= ManifestsMax)
  BY CountedInFiles
<1>7. Moves(t, x)
  <2>1. task = [u \in Task |-> task[u]]
    BY DEF FilesInv
  <2> HIDE DEF q, d, capped, takes
  <2>2. QED
    BY <1>3, <2>1 DEF Moves
<1> HIDE DEF q, d, capped, takes
<1>8. /\ todo \in SUBSET Paths /\ bad \in Nat /\ y.out \in SUBSET [path : Paths, desk : Declares]
      /\ new \in SUBSET [path : Paths, desk : Declares]
      /\ new \subseteq {[path |-> q, desk |-> F!Load(dir[q])]}
  <2>1. /\ y.todo \in SUBSET Paths /\ y.bad \in Nat
        /\ y.out \in SUBSET [path : Paths, desk : Declares]
    BY <1>1 DEF Tasks
  <2>2. todo \in SUBSET Paths /\ bad \in Nat
    BY <2>1
  <2> HIDE DEF todo, bad
  <2>3. CASE new = {}
    BY <2>1, <2>2, <2>3
  <2>4. CASE new # {}
    <3>1. takes /\ new = {[path |-> q, desk |-> d]}
      BY <2>4
    <3>2. d = F!Load(dir[q]) /\ d \in Declares
      BY <1>5, <3>1
    <3>3. [path |-> q, desk |-> d] \in [path : Paths, desk : Declares]
      BY <1>2, <3>2
    <3> HIDE DEF new
    <3>4. QED
      BY <2>1, <2>2, <3>1, <3>2, <3>3
  <2> HIDE DEF new
  <2>5. QED
    BY <2>3, <2>4
<1>9. IsFiniteSet(y.out \cup new) /\ Cardinality(y.out) \in Nat
      /\ Cardinality(y.out \cup new) = IF new = {} THEN Cardinality(y.out) ELSE Cardinality(y.out) + 1
  <2>1. CASE new = {}
    BY <1>1, <2>1, FS_CardinalityType
  <2>2. CASE new # {}
    <3> DEFINE e0 == [path |-> q, desk |-> d]
    <3>1. new = {e0} /\ takes /\ e0.desk = d
      BY <2>2
    <3>2. e0 \notin y.out
      BY <1>4, <1>5, <3>1
    <3> HIDE DEF e0
    <3>3. QED
      BY <1>1, <2>2, <3>1, <3>2, FS_AddElement, FS_CardinalityType
  <2>3. QED
    BY <2>1, <2>2
<1>10. /\ new # {} <=> ~capped /\ takes
       /\ ~capped => todo = y.todo \ {q} /\ bad = IF new = {} THEN y.bad + 1 ELSE y.bad
       /\ capped => todo = {} /\ bad = y.bad + 1
  BY <1>6
<1> HIDE DEF new, todo, bad
<1>11. /\ x \in Tasks /\ x.todo = todo /\ x.bad = bad /\ x.out = y.out \cup new
       /\ x.at = y.at /\ x.still = y.still /\ x.desk = y.desk /\ x.said = y.said /\ x.kept = y.kept
  BY <1>1, <1>8 DEF Tasks
<1> HIDE DEF x
<1>12. ~capped => Cardinality(x.out) + x.bad = Cardinality(y.out) + y.bad + 1
  <2>1. y.bad \in Nat
    BY <1>1 DEF Tasks
  <2>2. QED
    BY <1>9, <1>10, <1>11, <2>1
<1>13. x.bad = IF capped \/ new = {} THEN y.bad + 1 ELSE y.bad
  BY <1>10, <1>11
<1>14. NextIs(y, x, q, capped, new)
  BY <1>1, <1>2, <1>4, <1>6, <1>8, <1>9, <1>10, <1>11, <1>12, <1>13 DEF NextIs
<1>15. QED
  BY <1>2, <1>3, <1>6, <1>7, <1>8, <1>11, <1>14, Zenon

\* nothing changed under it
LEMMA NextSoFar ==
  ASSUME FilesInv, NEW y \in Tasks, NEW x \in Tasks, NEW q \in Paths, NEW capped \in BOOLEAN,
         NEW new \in SUBSET [path : Paths, desk : Declares],
         SoFar(y, dir), q \in y.todo, \A r \in y.todo : q <= r,
         capped <=> Cardinality(y.out) + y.bad >= ManifestsMax,
         new \subseteq {[path |-> q, desk |-> F!Load(dir[q])]},
         x.out = y.out \cup new, capped => new = {} /\ x.todo = {},
         ~capped =>
           /\ new # {} <=> /\ dir[q] # None /\ F!Load(dir[q]) # None
                           /\ ~\E e \in y.out : e.desk.name = F!Load(dir[q]).name
           /\ x.todo = y.todo \ {q}
           /\ Cardinality(x.out) + x.bad = Cardinality(y.out) + y.bad + 1
  PROVE  SoFar(x, dir)
<1> DEFINE done == Standing(dir) \ y.todo
           more == done \cup {q}
<1>1. /\ y.todo \subseteq Standing(dir) /\ \A p \in done, r \in y.todo : p < r
      /\ FirstsOf(y.out, dir, done)
      /\ Cardinality(y.out) + y.bad = Cardinality(done) /\ Cardinality(done) <= ManifestsMax
  BY DEF SoFar
<1>2. /\ Standing(dir) \in SUBSET Paths /\ done \in SUBSET Standing(dir) /\ more \in SUBSET Standing(dir)
      /\ dir[q] # None /\ q \notin done /\ \A p \in Paths : p \in Nat
  BY <1>1, FilesAssumption DEF Standing
<1>3. /\ Cardinality(done) \in Nat /\ ManifestsMax \in Nat
      /\ Cardinality(more) = Cardinality(done) + 1
  <2>1. done \in SUBSET Paths
    BY <1>2
  <2>2. IsFiniteSet(done) /\ Cardinality(done) \in Nat
    BY <2>1, PathsCount
  <2>3. QED
    BY <1>2, <2>2, FS_AddElement, FilesAssumption
<1>4. CASE capped
  <2>1. Cardinality(done) = ManifestsMax
    BY <1>1, <1>3, <1>4
  <2>2. \A p \in done, r \in Standing(dir) \ done : p < r
    BY <1>1
  <2>3. Considered(dir) = done
    BY <1>2, <2>1, <2>2, ReadToTheCap
  <2>4. x.out = y.out /\ x.todo = {}
    BY <1>4
  <2>5. QED
    BY <1>1, <2>3, <2>4, FirstsAreDeclared DEF SoFar
<1>5. CASE ~capped
  <2>1. FirstsOf(x.out, dir, more)
    <3>1. /\ y.out \in SUBSET [path : Paths, desk : Declares] /\ done \in SUBSET Paths
          /\ \A p \in done : p < q
          /\ new \in SUBSET {[path |-> q, desk |-> F!Load(dir[q])]}
      BY <1>1, <1>2 DEF Tasks
    <3>2. new # {} <=> F!Load(dir[q]) # None /\ ~\E e \in y.out : e.desk.name = F!Load(dir[q]).name
      BY <1>2, <1>5
    <3>3. FirstsOf(y.out, dir, done)
      BY <1>1
    <3> HIDE DEF done
    <3>4. FirstsOf(y.out \cup new, dir, done \cup {q})
      BY <3>1, <3>2, <3>3, NextOfFirsts
    <3>5. QED
      BY <3>4
  <2>2. x.todo = y.todo \ {q} /\ Standing(dir) \ x.todo = more
    BY <1>1, <1>2, <1>5
  <2>3. Cardinality(x.out) + x.bad = Cardinality(more) /\ Cardinality(more) <= ManifestsMax
    BY <1>1, <1>3, <1>5
  <2> HIDE DEF more, done
  <2>4. CASE x.todo # {}
    <3>1. x.todo \subseteq Standing(dir) /\ \A p \in more, r \in x.todo : p < r
      <4>1. \A r \in x.todo : r \in Nat /\ q < r
        BY <1>1, <1>2, <2>2
      <4>2. QED
        BY <1>1, <2>2, <4>1 DEF more
    <3>2. QED
      BY <2>1, <2>2, <2>3, <2>4, <3>1 DEF SoFar
  <2>5. CASE x.todo = {}
    <3>1. more = Standing(dir)
      BY <2>2, <2>5
    <3>2. Considered(dir) = more
      BY <2>3, <3>1, ReadToTheEnd
    <3>3. QED
      BY <2>1, <2>5, <3>2, FirstsAreDeclared DEF SoFar
  <2>6. QED
    BY <2>4, <2>5
<1>6. QED
  BY <1>4, <1>5

\* what stood all along is read, whatever comes and goes beside it
LEMMA NextKeeping ==
  ASSUME FilesInv, NEW y \in Tasks, NEW x \in Tasks, NEW q \in Paths, NEW capped \in BOOLEAN,
         NEW new \in SUBSET [path : Paths, desk : Declares],
         Keeping(y, dir), y.kept \subseteq Standing(dir), x.kept = y.kept, IsFiniteSet(y.out), IsFiniteSet(x.out),
         q \in y.todo,
         capped <=> Cardinality(y.out) + y.bad >= ManifestsMax,
         new \subseteq {[path |-> q, desk |-> F!Load(dir[q])]},
         x.out = y.out \cup new, capped => new = {} /\ x.todo = {},
         ~capped =>
           /\ new # {} <=> /\ dir[q] # None /\ F!Load(dir[q]) # None
                           /\ ~\E e \in y.out : e.desk.name = F!Load(dir[q]).name
           /\ x.todo = y.todo \ {q}
           /\ Cardinality(x.out) + x.bad = Cardinality(y.out) + y.bad + 1
  PROVE  Keeping(x, dir)
<1>1. CASE y.kept = {}
  BY <1>1 DEF Keeping
<1>2. CASE y.kept # {}
  <2>1. /\ y.todo \in SUBSET Paths /\ IsFiniteSet(y.todo) /\ Cardinality(y.todo) \in Nat
        /\ y.bad \in Nat /\ Cardinality(y.out) \in Nat /\ ManifestsMax \in Nat
    BY PathsCount, FS_CardinalityType, FilesAssumption DEF Tasks
  <2>2. Cardinality(y.todo \ {q}) = Cardinality(y.todo) - 1
    BY <2>1, FS_RemoveElement
  <2>3. Cardinality(y.todo) # 0
    BY <2>1, FS_EmptySet
  <2>4. Cardinality(y.out) + y.bad + Cardinality(y.todo) <= ManifestsMax
    BY <1>2 DEF Keeping
  <2>5. ~capped
    BY <2>1, <2>3, <2>4
  <2>6. Cardinality(x.out) + x.bad + Cardinality(x.todo) <= ManifestsMax
    <3>1. /\ x.todo = y.todo \ {q}
          /\ Cardinality(x.out) + x.bad = Cardinality(y.out) + y.bad + 1
      BY <2>5
    <3>2. Cardinality(x.todo) = Cardinality(y.todo) - 1
      BY <2>2, <3>1
    <3>3. x.bad \in Nat /\ Cardinality(x.out) \in Nat
      BY FS_CardinalityType DEF Tasks
    <3>4. QED
      BY <2>1, <2>4, <3>1, <3>2, <3>3
  <2>7. ASSUME NEW p \in x.kept, F!Load(dir[p]) # None
        PROVE  p \in x.todo \/ \E e \in x.out : e.desk.name = F!Load(dir[p]).name
    <3> DEFINE d == F!Load(dir[q])
               e0 == [path |-> q, desk |-> d]
    <3>1. p \in y.kept /\ dir[p] # None
      BY <2>7 DEF Standing
    <3>2. CASE p # q
      BY <2>5, <2>7, <3>1, <3>2 DEF Keeping
    <3>3. CASE p = q /\ new = {}
      BY <2>5, <2>7, <3>1, <3>3
    <3>4. CASE p = q /\ new # {}
      <4>1. e0 \in new /\ e0.desk = d
        BY <3>4
      <4> HIDE DEF e0
      <4>2. QED
        BY <3>4, <4>1
    <3>5. QED
      BY <3>2, <3>3, <3>4
  <2>8. QED
    BY <2>6, <2>7 DEF Keeping
<1>3. QED
  BY <1>1, <1>2

LEMMA LoadNextFiles ==
  ASSUME FilesInv, NEW t \in Task, F!LoadNext(t)
  PROVE  FilesInv'
<1> DEFINE y == task[t]
<1>1. PICK x \in Tasks, q \in Paths, capped \in BOOLEAN, new \in SUBSET [path : Paths, desk : Declares] :
        Moves(t, x) /\ FilesStay /\ RulesStay /\ NextIs(y, x, q, capped, new)
  BY LoadNextIs
<1>2. y \in Tasks /\ TaskOK(y, dir, zen)
  BY TaskHere
<1> HIDE DEF y
<1>3. SoFar(y, dir) => SoFar(x, dir)
  BY <1>1, <1>2, NextSoFar DEF NextIs
<1>4. Keeping(y, dir) => Keeping(x, dir)
  BY <1>1, <1>2, NextKeeping DEF TaskOK, NextIs
<1>5. TaskOK(x, dir, zen)
  BY <1>1, <1>2, <1>3, <1>4 DEF TaskOK, NextIs
<1>6. QED
  BY <1>1, <1>5, MovesOn

-----------------------------------------------------------------------------
(***************************************************************************)
(* A snapshot.                                                             *)
(***************************************************************************)
LEMMA WithinIs ==
  ASSUME NEW table, NEW ps
  PROVE  /\ F!Within(table, ps) \subseteq ps
         /\ F!Within(table, ps) # {} => Cardinality(Standing(table)) <= ManifestsMax
<1>1. Standing(table) \in SUBSET Paths
  BY DEF Standing
<1>2. Cardinality(Standing(table)) \in Nat /\ ManifestsMax \in Nat
  BY <1>1, PathsCount, FilesAssumption
<1>3. F!Within(table, ps) = IF Cardinality(Standing(table)) > ManifestsMax THEN {} ELSE ps
  BY CountedInFiles DEF F!Within, Standing
<1>4. QED
  BY <1>2, <1>3

LEMMA ShotsAre ==
  ASSUME NEW shape \in Shapes, NEW name \in DOMAIN PathOf, NEW b \in BOOLEAN
  PROVE  F!FromMap(shape, name, b) \in Shots
BY DEF Shots

LEMMA ShotsPrivacy ==
  ASSUME NEW shape, NEW name, NEW a, NEW b
  PROVE  [F!FromMap(shape, name, a) EXCEPT !.private = b] = F!FromMap(shape, name, b)
<1> DEFINE none == {}
           blank == ""
           Desk(c) == [name |-> name, private |-> c, monitors |-> shape, apps |-> none, attn |-> blank]
<1>1. F!FromMap(shape, name, a) = Desk(a) /\ F!FromMap(shape, name, b) = Desk(b)
  BY DEF F!FromMap
<1> HIDE DEF none, blank
<1>2. [Desk(a) EXCEPT !.private = b] = Desk(b)
  OBVIOUS
<1> HIDE DEF Desk
<1>3. QED
  BY <1>1, <1>2

LEMMA SnapshotFiles ==
  ASSUME FilesInv, NEW t \in Task, NEW name \in DOMAIN PathOf, NEW shape \in Shapes,
         F!Snapshot(t, name, shape)
  PROVE  FilesInv'
<1> DEFINE d == F!FromMap(shape, name, FALSE)
           kept == F!Within(dir, {p \in Paths : F!Here(p)})
           x == [F!Idle EXCEPT !.at = "private dir", !.for = "snapshot", !.desk = d, !.kept = kept]
<1>1. Moves(t, x) /\ FilesStay /\ RulesStay
  BY DEF F!Snapshot, Moves, FilesStay, RulesStay
<1>2. d \in Shots /\ d # None
  <2> DEFINE b == FALSE
  <2>1. b \in BOOLEAN /\ d = F!FromMap(shape, name, b)
    OBVIOUS
  <2> HIDE DEF b, d
  <2>2. d \in Shots
    BY <2>1, ShotsAre
  <2>3. QED
    BY <2>2, ShotsAreDesks
<1>3. kept \subseteq Standing(dir) /\ kept \in SUBSET Paths
      /\ (kept # {} => Cardinality(Standing(dir)) <= ManifestsMax)
  <2>1. {p \in Paths : F!Here(p)} = Standing(dir)
    BY DEF F!Here, Standing
  <2>2. Standing(dir) \in SUBSET Paths
    BY DEF Standing
  <2>3. QED
    BY <2>1, <2>2, WithinIs
<1> HIDE DEF d, kept
<1>4. /\ x \in Tasks /\ x.at = "private dir" /\ x.desk = d /\ x.kept = kept /\ x.out = {}
      /\ x.said = "nothing"
  BY <1>2, <1>3 DEF F!Idle, Tasks, TaskAts
<1> HIDE DEF x
<1>5. TaskOK(x, dir, zen)
  BY <1>2, <1>3, <1>4, FS_EmptySet DEF TaskOK
<1>6. QED
  BY <1>1, <1>4, <1>5, MovesOn

LEMMA ManifestForFiles ==
  ASSUME FilesInv, NEW t \in Task, F!ManifestFor(t)
  PROVE  FilesInv'
<1> DEFINE p == task[t]
           private == \E d \in F!Named(t, p.desk.name) : d.private
           desk == [p.desk EXCEPT !.private = private]
           x == [p EXCEPT !.at = "map", !.desk = desk]
<1>1. p \in Tasks /\ TaskOK(p, dir, zen) /\ p.at = "private files"
  BY TaskHere DEF F!ManifestFor
<1>2. Moves(t, x) /\ FilesStay /\ RulesStay
  BY DEF F!ManifestFor, Moves, FilesStay, RulesStay, FilesInv
<1>3. private \in BOOLEAN
  OBVIOUS
<1> HIDE DEF private
<1>4. desk \in Shots
  <2>1. p.desk \in Shots
    BY <1>1 DEF Tasks, TaskOK
  <2>2. PICK shape \in Shapes, name \in DOMAIN PathOf, b \in BOOLEAN : p.desk = F!FromMap(shape, name, b)
    BY <2>1 DEF Shots
  <2>3. desk = F!FromMap(shape, name, private)
    BY <2>2, ShotsPrivacy
  <2>4. QED
    BY <1>3, <2>3, ShotsAre
<1>5. desk # None
  BY <1>4, ShotsAreDesks
<1> HIDE DEF desk
<1>6. /\ x \in Tasks /\ x.at = "map" /\ x.desk = desk /\ x.out = p.out /\ x.said = p.said
      /\ x.kept = p.kept
  BY <1>1, <1>4 DEF Tasks, TaskAts
<1> HIDE DEF x
<1>7. TaskOK(x, dir, zen)
  BY <1>1, <1>5, <1>6 DEF TaskOK
<1>8. QED
  BY <1>2, <1>6, <1>7, MovesOn

LEMMA WritesDownFiles ==
  ASSUME FilesInv, NEW t \in Task, F!WritesDown(t)
  PROVE  FilesInv'
<1>1. FilesStay /\ RulesStay /\ task[t].at = "map"
  BY DEF F!WritesDown, FilesStay, RulesStay
<1>2. F!Ends(t, "refused") \/ (F!Check(task[t].desk) /\ F!Step(t, "save dir"))
  BY DEF F!WritesDown
<1>3. QED
  BY <1>1, <1>2, EndsFiles, StepFiles DEF FilesInv, RulesStay

LEMMA SaveFiles ==
  ASSUME FilesInv, NEW t \in Task, F!Save(t)
  PROVE  FilesInv'
<1>1. FilesStay /\ RulesStay /\ task[t].at = "save files" /\ task[t].todo = {}
  BY DEF F!Save, FilesStay, RulesStay
<1>2. CASE F!Named(t, task[t].desk.name) # {}
  <2>1. F!Ends(t, "refused")
    BY <1>2 DEF F!Save
  <2>2. QED
    BY <1>1, <2>1, EndsFiles DEF FilesInv, RulesStay
<1>3. CASE F!Named(t, task[t].desk.name) = {}
  <2>1. F!Step(t, "manifest temp")
    BY <1>3 DEF F!Save
  <2>2. Keeping(task[t], dir)
    BY <1>1, TaskHere DEF TaskOK
  <2>3. \A e \in task[t].out : e.desk.name # task[t].desk.name
    BY <1>3 DEF F!Named, F!Loaded
  <2>4. Nameless(task[t], dir)
    BY <1>1, <2>2, <2>3 DEF Keeping, Nameless
  <2>5. QED
    BY <1>1, <2>1, <2>4, StepFiles
<1>4. QED
  BY <1>2, <1>3

-----------------------------------------------------------------------------
(***************************************************************************)
(* The rules.                                                              *)
(***************************************************************************)
LEMMA BeginsFiles ==
  ASSUME FilesInv, NEW t \in Task, NEW for \in {"sync", "zen"}, NEW want \in BOOLEAN,
         NEW at \in {"sync dir", "set"}, task' = F!Begins(t, for, want, at), FilesStay, RulesStay
  PROVE  FilesInv'
<1> DEFINE x == [F!Idle EXCEPT !.at = at, !.for = for, !.want = want]
<1>1. Moves(t, x)
  BY DEF F!Begins, Moves
<1>2. x \in Tasks /\ x.at = at /\ x.kept = {} /\ x.out = {} /\ x.said = "nothing"
  BY DEF F!Idle, Tasks, TaskAts
<1> HIDE DEF x
<1>3. TaskOK(x, dir, zen)
  BY <1>2, FS_EmptySet DEF TaskOK
<1>4. QED
  BY <1>1, <1>2, <1>3, MovesOn

LEMMA SyncRulesFiles ==
  ASSUME FilesInv, NEW t \in Task, F!SyncRules(t)
  PROVE  FilesInv'
BY BeginsFiles DEF F!SyncRules, FilesStay, RulesStay

LEMMA ZenFiles ==
  ASSUME FilesInv, NEW t \in Task, NEW word \in {"on", "off", "toggle"}, F!Zen(t, word)
  PROVE  FilesInv'
<1> DEFINE want == CASE word = "on" -> TRUE [] word = "off" -> FALSE [] OTHER -> ~zen
<1>1. want \in BOOLEAN
  BY DEF FilesInv
<1>2. task' = F!Begins(t, "zen", want, "set") /\ FilesStay /\ RulesStay
  BY DEF F!Zen, FilesStay, RulesStay
<1> HIDE DEF want
<1>3. QED
  BY <1>1, <1>2, BeginsFiles

\* a task under which something has changed, with those of its paths that are left
ChangedTo(y, x, table, ps) ==
  /\ y = [x EXCEPT !.still = FALSE, !.kept = F!Within(table, x.kept \ ps)]
  /\ \A q \in x.kept \ ps : table[q] = dir[q]

LEMMA ChangedOK ==
  ASSUME NEW x \in Tasks, NEW z, TaskOK(x, dir, z), NEW table, NEW ps, NEW w, NEW y,
         ChangedTo(y, x, table, ps)
  PROVE  y \in Tasks /\ TaskOK(y, table, w)
<1> DEFINE kept == F!Within(table, x.kept \ ps)
<1>0. y = [x EXCEPT !.still = FALSE, !.kept = kept] /\ \A q \in x.kept \ ps : table[q] = dir[q]
  BY DEF ChangedTo
<1>1. /\ kept \subseteq x.kept \ ps /\ x.kept \in SUBSET Paths
      /\ kept # {} => Cardinality(Standing(table)) <= ManifestsMax
  BY WithinIs DEF Tasks
<1> HIDE DEF kept
<1>2. kept \subseteq Standing(table)
  BY <1>0, <1>1 DEF TaskOK, Standing
<1>3. /\ y \in Tasks /\ y.still = FALSE /\ y.kept = kept /\ y.at = x.at /\ y.desk = x.desk
      /\ y.todo = x.todo /\ y.out = x.out /\ y.bad = x.bad /\ y.text = x.text /\ y.said = x.said
  BY <1>0, <1>1 DEF Tasks
<1>4. Keeping(x, dir) => Keeping(y, table)
  BY <1>0, <1>1, <1>3 DEF Keeping
<1>5. Nameless(x, dir) => Nameless(y, table)
  BY <1>0, <1>1, <1>3 DEF Nameless
<1>6. TaskOK(y, table, w)
  BY <1>1, <1>2, <1>3, <1>4, <1>5 DEF TaskOK
<1>7. QED
  BY <1>3, <1>6

LEMMA StaleOK ==
  ASSUME NEW x \in Tasks, NEW z, TaskOK(x, dir, z), NEW w
  PROVE  /\ [x EXCEPT !.still = FALSE] \in Tasks
         /\ TaskOK([x EXCEPT !.still = FALSE], dir, w)
<1> DEFINE y == [x EXCEPT !.still = FALSE]
<1>1. /\ y \in Tasks /\ y.still = FALSE /\ y.kept = x.kept /\ y.at = x.at /\ y.desk = x.desk
      /\ y.todo = x.todo /\ y.out = x.out /\ y.bad = x.bad /\ y.text = x.text /\ y.said = x.said
  BY DEF Tasks
<1> HIDE DEF y
<1>2. TaskOK(y, dir, w)
  BY <1>1 DEF TaskOK, Keeping, Nameless
<1>3. QED
  BY <1>1, <1>2 DEF y

LEMMA SetZenFiles ==
  ASSUME FilesInv, NEW t \in Task, F!SetZen(t)
  PROVE  FilesInv'
<1> DEFINE p == task[t]
           x == [p EXCEPT !.at = "sync dir", !.still = TRUE]
<1>1. p \in Tasks /\ TaskOK(p, dir, zen) /\ p.at = "set"
  BY TaskHere DEF F!SetZen
<1>2. /\ x \in Tasks /\ x.at = "sync dir" /\ x.desk = p.desk /\ x.out = p.out /\ x.said = p.said
      /\ x.kept = p.kept
  BY <1>1 DEF Tasks, TaskAts
<1>3. \A z : TaskOK(x, dir, z)
  <2> HIDE DEF x
  <2>1. QED
    BY <1>1, <1>2 DEF TaskOK, Nameless
<1>4. dir' = dir /\ byHand' = byHand /\ kdl' = kdl
  BY DEF F!SetZen
<1>5. CASE F!Ends(t, "error") /\ UNCHANGED <<zen, settled>>
  BY <1>4, <1>5, EndsFiles DEF FilesInv, FilesStay
<1>6. CASE /\ zen' = p.want /\ settled' = (settled /\ zen' = zen)
           /\ task' = [(IF zen' = zen THEN task ELSE F!Stale(task)) EXCEPT
                         ![t].at = "sync dir", ![t].still = TRUE]
  <2>1. zen' \in BOOLEAN
    BY <1>1, <1>6 DEF Tasks
  <2>2. CASE zen' = zen
    <3>1. Moves(t, x) /\ FilesStay
      BY <1>4, <1>6, <2>2 DEF Moves, FilesStay, FilesInv
    <3>2. settled' => settled
      BY <1>6
    <3> HIDE DEF x
    <3>3. QED
      BY <1>2, <1>3, <1>4, <3>1, <3>2, MovesStep DEF FilesInv
  <2>3. CASE zen' # zen
    <3>1. task' = [F!Stale(task) EXCEPT ![t].at = "sync dir", ![t].still = TRUE] /\ ~settled'
      BY <1>6, <2>3
    <3>2. task' = [u \in Task |-> IF u = t THEN x ELSE [task[u] EXCEPT !.still = FALSE]]
      <4>1. F!Stale(task)[t] = [p EXCEPT !.still = FALSE]
        BY DEF F!Stale
      <4>2. [[p EXCEPT !.still = FALSE] EXCEPT !.at = "sync dir", !.still = TRUE] = x
        BY <1>1 DEF Tasks
      <4>3. QED
        BY <3>1, <4>1, <4>2 DEF F!Stale
    <3> HIDE DEF x
    <3>3. ASSUME NEW u \in Task
          PROVE  task'[u] \in Tasks /\ TaskOK(task'[u], dir, zen')
      <4>1. CASE u = t
        BY <1>2, <1>3, <3>2, <4>1
      <4>2. CASE u # t
        <5>1. task[u] \in Tasks /\ TaskOK(task[u], dir, zen)
          BY TaskHere
        <5>2. task'[u] = [task[u] EXCEPT !.still = FALSE]
          BY <3>2, <4>2
        <5>3. QED
          BY <5>1, <5>2, StaleOK
      <4>3. QED
        BY <4>1, <4>2
    <3>4. task' \in [Task -> Tasks]
      BY <3>2, <3>3
    <3>5. QED
      BY <1>4, <2>1, <3>1, <3>3, <3>4 DEF FilesInv, F!HandsOff
  <2>4. QED
    BY <2>2, <2>3
<1>7. QED
  BY <1>5, <1>6 DEF F!SetZen

LEMMA RendersFiles ==
  ASSUME FilesInv, NEW t \in Task, F!Renders(t)
  PROVE  FilesInv'
<1> DEFINE p == task[t]
           desks == F!Loaded(t)
           text == F!DynamicKDL(zen, desks)
           x == [p EXCEPT !.at = "compare", !.text = text, !.todo = {}, !.out = {}, !.bad = 0]
<1>1. p \in Tasks /\ TaskOK(p, dir, zen) /\ p.at = "sync files" /\ p.todo = {}
  BY TaskHere DEF F!Renders
<1>2. Moves(t, x) /\ FilesStay /\ RulesStay
  BY DEF F!Renders, Moves, FilesStay, RulesStay, FilesInv
<1>3. desks = {e.desk : e \in p.out}
  BY DEF F!Loaded
<1>4. p.out \in SUBSET [path : Paths, desk : Declares]
  BY <1>1 DEF Tasks
<1> HIDE DEF desks
<1>5. text \in Renderings
  <2>1. desks \in SUBSET Declares /\ zen \in BOOLEAN
    BY <1>3, <1>4 DEF FilesInv
  <2>2. QED
    BY <2>1 DEF Renderings
<1>6. p.still => text = F!DynamicKDL(zen, DeclaredIn(dir))
  BY <1>1, <1>3 DEF TaskOK, SoFar
<1> HIDE DEF text
<1>7. /\ x \in Tasks /\ x.at = "compare" /\ x.text = text /\ x.out = {} /\ x.said = p.said
      /\ x.still = p.still /\ x.kept = p.kept
  BY <1>1, <1>5 DEF Tasks, TaskAts
<1> HIDE DEF x
<1>8. TaskOK(x, dir, zen)
  BY <1>1, <1>5, <1>6, <1>7, FS_EmptySet DEF TaskOK
<1>9. QED
  BY <1>2, <1>7, <1>8, MovesOn

\* the file says what was rendered
LEMMA RulesDoneFiles ==
  ASSUME FilesInv, NEW t \in Task, task[t].at \in {"compare", "rules temp"}, F!RulesDone(t), FilesStay,
         kdl' \in [text : {task[t].text}, synced : {TRUE}, mode : {"0600"}]
  PROVE  FilesInv'
<1> DEFINE p == task[t]
<1>1. p \in Tasks /\ TaskOK(p, dir, zen)
  BY TaskHere
<1>2. kdl'.text = p.text /\ kdl'.mode = "0600" /\ p.text \in Renderings \cup {None}
  BY <1>1 DEF Tasks
<1>3. kdl' \in [text : Renderings \cup {None}, synced : {TRUE}, mode : {"0600", "0644"}]
  BY <1>2
<1>4. settled' => kdl'.text = F!DynamicKDL(zen, DeclaredIn(dir))
  BY <1>1, <1>2 DEF F!RulesDone, TaskOK
<1>5. F!Ends(t, "synced")
  BY DEF F!RulesDone
<1>6. QED
  BY <1>2, <1>3, <1>4, <1>5, EndsFiles

LEMMA CompareFiles ==
  ASSUME FilesInv, NEW t \in Task, F!Compare(t)
  PROVE  FilesInv'
<1>1. FilesStay /\ task[t].at = "compare"
  BY DEF F!Compare, FilesStay
<1>2. CASE kdl.text = task[t].text
  <2>1. kdl' = [kdl EXCEPT !.mode = "0600"] /\ F!RulesDone(t)
    BY <1>2 DEF F!Compare
  <2>2. kdl' \in [text : {task[t].text}, synced : {TRUE}, mode : {"0600"}]
    BY <1>2, <2>1 DEF FilesInv
  <2>3. QED
    BY <1>1, <2>1, <2>2, RulesDoneFiles
<1>3. CASE kdl.text # task[t].text
  BY <1>1, <1>3, StepFiles DEF F!Compare, RulesStay
<1>4. QED
  BY <1>2, <1>3

LEMMA SyncFiles ==
  ASSUME FilesInv, NEW t \in Task, F!Sync(t)
  PROVE  FilesInv'
<1> DEFINE p == task[t]
           x == [p EXCEPT !.synced = TRUE]
<1>1. p \in Tasks /\ TaskOK(p, dir, zen)
  BY TaskHere
<1>2. Moves(t, x) /\ FilesStay /\ RulesStay
  BY DEF F!Sync, Moves, FilesStay, RulesStay, FilesInv
<1>3. /\ x \in Tasks /\ x.at = p.at /\ x.desk = p.desk /\ x.todo = p.todo /\ x.out = p.out
      /\ x.bad = p.bad /\ x.text = p.text /\ x.said = p.said /\ x.still = p.still /\ x.kept = p.kept
  BY <1>1 DEF Tasks
<1> HIDE DEF x
<1>4. TaskOK(x, dir, zen)
  BY <1>1, <1>3 DEF TaskOK, SoFar, Keeping, Nameless
<1>5. QED
  BY <1>2, <1>3, <1>4, MovesOn

LEMMA RenameFiles ==
  ASSUME FilesInv, NEW t \in Task, F!Rename(t)
  PROVE  FilesInv'
<1>1. /\ FilesStay /\ task[t].at = "rules temp" /\ task[t].synced /\ F!RulesDone(t)
      /\ kdl' = [text |-> task[t].text, synced |-> task[t].synced, mode |-> "0600"]
  BY DEF F!Rename, FilesStay
<1>2. task[t].synced = TRUE
  BY <1>1, TaskHere DEF Tasks
<1>3. kdl' \in [text : {task[t].text}, synced : {TRUE}, mode : {"0600"}]
  BY <1>1, <1>2
<1>4. QED
  BY <1>1, <1>3, RulesDoneFiles

LEMMA WriteFailsFiles ==
  ASSUME FilesInv, NEW t \in Task, F!WriteFails(t)
  PROVE  FilesInv'
<1>1. FilesStay /\ RulesStay /\ (F!Ends(t, "refused") \/ F!Ends(t, "not synced"))
  BY DEF F!WriteFails, FilesStay, RulesStay
<1>2. QED
  BY <1>1, EndsFiles DEF FilesInv, RulesStay

-----------------------------------------------------------------------------
(***************************************************************************)
(* The directory changes, and the power goes.                              *)
(***************************************************************************)
LEMMA LinksNewFiles ==
  ASSUME FilesInv, NEW t \in Task, F!LinksNew(t)
  PROVE  FilesInv'
<1> DEFINE y == task[t]
           p == PathOf[y.desk.name]
           kept == F!Within(dir', y.kept)
           x == [F!Idle EXCEPT !.at = "done", !.said = "saved", !.for = "snapshot", !.desk = y.desk,
                               !.kept = kept]
<1>1. y \in Tasks /\ TaskOK(y, dir, zen) /\ y.at = "manifest temp"
  BY TaskHere DEF F!LinksNew
<1>2. y.desk \in Shots /\ y.desk # None /\ F!Check(y.desk) /\ p \in Paths
  BY <1>1, ShotsAreDesks DEF Tasks, TaskOK
<1>3. byHand' = byHand /\ zen' = zen /\ kdl' = kdl
  BY DEF F!LinksNew
<1>4. CASE F!Here(p)
  <2>1. F!Ends(t, "refused") /\ UNCHANGED <<dir, settled>>
    BY <1>4 DEF F!LinksNew
  <2>2. QED
    BY <1>3, <2>1, EndsFiles DEF FilesStay, FilesInv
<1>5. CASE ~F!Here(p)
  <2>1. /\ dir' = [dir EXCEPT ![p] = F!Written(y.desk)] /\ settled' = FALSE /\ dir[p] = None
        /\ task' = [F!Changed(dir', {}) EXCEPT ![t] = x]
    BY <1>5 DEF F!LinksNew, F!Here
  <2>2. /\ dir' \in [Paths -> {None} \cup Texts \cup Snapped]
        /\ dir'[p] = F!Written(y.desk) /\ \A q \in Paths \ {p} : dir'[q] = dir[q]
    BY <1>2, <2>1 DEF FilesInv, Snapped
  <2>3. F!Load(dir'[p]) # None
    BY <1>2, <2>2, LoadsSnapped
  <2>4. \A u \in Task : \A q \in task[u].kept : q \in Paths /\ dir'[q] = dir[q]
    <3>1. \A u \in Task : task[u].kept \subseteq Standing(dir)
      BY TaskHere DEF TaskOK
    <3>2. QED
      BY <2>1, <2>2, <3>1 DEF Standing
  <2>5. /\ kept \subseteq y.kept /\ kept \in SUBSET Paths
        /\ kept # {} => Cardinality(Standing(dir')) <= ManifestsMax
    BY <2>4, WithinIs
  <2>6. kept \subseteq Standing(dir')
    BY <1>1, <2>4, <2>5 DEF TaskOK, Standing
  <2> HIDE DEF kept
  <2>7. /\ x \in Tasks /\ x.at = "done" /\ x.said = "saved" /\ x.desk = y.desk /\ x.kept = kept
        /\ x.out = {}
    BY <1>2, <2>5 DEF F!Idle, Tasks, TaskAts
  <2> HIDE DEF x
  <2>8. Nameless(x, dir')
    BY <1>1, <2>4, <2>5, <2>7 DEF TaskOK, Nameless
  <2>9. TaskOK(x, dir', zen')
    BY <1>2, <2>5, <2>6, <2>7, <2>8, FS_EmptySet DEF TaskOK
  <2>10. ASSUME NEW u \in Task
         PROVE  task'[u] \in Tasks /\ TaskOK(task'[u], dir', zen')
    <3>1. CASE u = t
      BY <2>1, <2>7, <2>9, <3>1 DEF F!Changed
    <3>2. CASE u # t
      <4>1. task[u] \in Tasks /\ TaskOK(task[u], dir, zen)
        BY TaskHere
      <4>2. ChangedTo(task'[u], task[u], dir', {})
        BY <2>1, <2>4, <3>2 DEF F!Changed, ChangedTo
      <4>3. QED
        BY <4>1, <4>2, ChangedOK
    <3>3. QED
      BY <3>1, <3>2
  <2>11. task' \in [Task -> Tasks]
    BY <2>1, <2>10 DEF F!Changed
  <2>12. F!HandsOff'
    BY <1>3, <2>1, <2>2 DEF FilesInv, F!HandsOff
  <2>13. \A q \in Paths : dir'[q] # None /\ byHand'[q] = None => F!Load(dir'[q]) # None
    BY <1>3, <2>2, <2>3 DEF FilesInv
  <2>14. QED
    BY <1>3, <2>1, <2>2, <2>10, <2>11, <2>12, <2>13 DEF FilesInv
<1>6. QED
  BY <1>4, <1>5

LEMMA EditsFiles ==
  ASSUME FilesInv, NEW p \in Paths, NEW f \in {None} \cup Texts, F!Edits(p, f)
  PROVE  FilesInv'
<1>1. /\ dir' = [dir EXCEPT ![p] = f] /\ byHand' = [byHand EXCEPT ![p] = f] /\ settled' = FALSE
      /\ task' = F!Changed(dir', {p}) /\ zen' = zen /\ kdl' = kdl
  BY DEF F!Edits
<1>2. /\ dir' \in [Paths -> {None} \cup Texts \cup Snapped] /\ byHand' \in [Paths -> {None} \cup Texts]
      /\ dir'[p] = f /\ byHand'[p] = f
      /\ \A q \in Paths \ {p} : dir'[q] = dir[q] /\ byHand'[q] = byHand[q]
  BY <1>1 DEF FilesInv
<1>3. ASSUME NEW u \in Task
      PROVE  task'[u] \in Tasks /\ TaskOK(task'[u], dir', zen')
  <2>1. task[u] \in Tasks /\ TaskOK(task[u], dir, zen)
    BY TaskHere
  <2>2. \A q \in task[u].kept \ {p} : dir'[q] = dir[q]
    BY <1>2, <2>1 DEF Tasks
  <2>3. ChangedTo(task'[u], task[u], dir', {p})
    BY <1>1, <2>2 DEF F!Changed, ChangedTo
  <2>4. QED
    BY <2>1, <2>3, ChangedOK
<1>4. task' \in [Task -> Tasks]
  BY <1>1, <1>3 DEF F!Changed
<1>5. F!HandsOff'
  BY <1>2 DEF FilesInv, F!HandsOff
<1>6. \A q \in Paths : dir'[q] # None /\ byHand'[q] = None => F!Load(dir'[q]) # None
  BY <1>2 DEF FilesInv
<1>7. QED
  BY <1>1, <1>2, <1>3, <1>4, <1>5, <1>6 DEF FilesInv

LEMMA CutFiles ==
  ASSUME FilesInv, F!Cut
  PROVE  FilesInv'
<1>1. kdl' = kdl /\ settled' = FALSE /\ byHand' = byHand /\ zen' = zen
  BY DEF F!Cut, FilesInv
<1>2. dir' = dir
  <2>1. ASSUME NEW p \in Paths, F!Here(p)
        PROVE  dir[p].synced
    BY <2>1, FilesAssumption DEF FilesInv, F!Here, Snapped, F!Written
  <2>2. dir' = [p \in Paths |-> dir[p]]
    BY <2>1 DEF F!Cut
  <2>3. QED
    BY <2>2 DEF FilesInv
<1> DEFINE x == [F!Idle EXCEPT !.at = "done"]
<1>3. /\ x \in Tasks /\ x.at = "done" /\ x.out = {} /\ x.kept = {} /\ x.said = "nothing"
  BY DEF F!Idle, Tasks, TaskAts
<1>4. F!Idle.at = "none"
  BY DEF F!Idle
<1>5. task' = [t \in Task |-> IF t = Start \/ task[t].at = "none" THEN F!Idle ELSE x]
  BY DEF F!Cut
<1> HIDE DEF x
<1>6. ASSUME NEW t \in Task
      PROVE  task'[t] \in Tasks /\ TaskOK(task'[t], dir, zen)
  BY <1>3, <1>4, <1>5, IdleTask, FS_EmptySet DEF TaskOK
<1>7. task' \in [Task -> Tasks]
  BY <1>5, <1>6
<1>8. QED
  BY <1>1, <1>2, <1>6, <1>7 DEF FilesInv, F!HandsOff

-----------------------------------------------------------------------------
LEMMA FilesStep ==
  ASSUME FilesInv, F!NextFiles
  PROVE  FilesInv'
<1>1. CASE \E t \in Task :
             \/ F!ReadDir(t) \/ F!CannotReadDir(t) \/ F!LoadNext(t)
             \/ \E name \in DOMAIN PathOf, shape \in Shapes : F!Snapshot(t, name, shape)
             \/ F!ManifestFor(t) \/ F!WritesDown(t) \/ F!Save(t) \/ F!LinksNew(t)
             \/ F!SyncRules(t) \/ F!Renders(t) \/ F!Compare(t) \/ F!Sync(t) \/ F!Rename(t)
             \/ F!WriteFails(t) \/ F!SetZen(t)
             \/ \E word \in {"on", "off", "toggle"} : F!Zen(t, word)
  BY <1>1, ReadDirFiles, CannotReadFiles, LoadNextFiles, SnapshotFiles, ManifestForFiles,
     WritesDownFiles, SaveFiles, LinksNewFiles, SyncRulesFiles, RendersFiles, CompareFiles, SyncFiles,
     RenameFiles, WriteFailsFiles, SetZenFiles, ZenFiles
<1>2. QED
  BY <1>1, EditsFiles, CutFiles DEF F!NextFiles

LEMMA FilesInvHolds ==
  ASSUME FilesInv
  PROVE  FilesHold
<1>1. F!Whole
  BY NoRenderingIsLost DEF FilesInv, F!Whole
<1>2. F!FileAgrees
  <2>1. ASSUME settled
        PROVE  kdl.text.zen = zen /\ kdl.text.rules = F!PlacementRules(F!Declared) /\ kdl.mode = "0600"
    <3>1. kdl.text = F!DynamicKDL(zen, F!Declared) /\ kdl.mode = "0600"
      BY <2>1, DeclaredAs DEF FilesInv
    <3>2. QED
      BY <3>1 DEF F!DynamicKDL
  <2>2. QED
    BY <2>1 DEF F!FileAgrees
<1>3. F!SnapshotAdds
  <2> SUFFICES ASSUME NEW t \in Task, task[t].said = "saved"
               PROVE  /\ Nameless(task[t], dir)
                      /\ LET d == task[t].desk IN
                         F!Here(PathOf[d.name]) /\ byHand[PathOf[d.name]] = None
                           => F!Load(dir[PathOf[d.name]]) # None
    BY DEF F!SnapshotAdds, Nameless
  <2>1. task[t] \in Tasks /\ TaskOK(task[t], dir, zen)
    BY TaskHere
  <2>2. PathOf[task[t].desk.name] \in Paths
    BY <2>1, ShotsAreDesks DEF TaskOK, Tasks
  <2>3. QED
    BY <2>1, <2>2 DEF TaskOK, FilesInv, F!Here
<1>4. QED
  BY <1>1, <1>2, <1>3 DEF FilesInv, FilesHold, F!FilesHold

LEMMA FilesInit ==
  ASSUME F!InitFiles
  PROVE  FilesInv
<1>1. F!Idle \in Tasks /\ TaskOK(F!Idle, dir, zen)
  <2>1. F!Idle.at = "none"
    BY DEF F!Idle
  <2>2. QED
    BY <2>1, IdleTask DEF TaskOK
<1> DEFINE text == F!DynamicKDL(FALSE, {})
<1>2. text \in Renderings
  <2> DEFINE none == {}
             zenOff == FALSE
  <2>1. none \in SUBSET Declares /\ zenOff \in BOOLEAN /\ text = F!DynamicKDL(zenOff, none)
    OBVIOUS
  <2> HIDE DEF none, zenOff, text
  <2>2. QED
    BY <2>1 DEF Renderings
<1>3. kdl \in [text : Renderings \cup {None}, synced : {TRUE}, mode : {"0600", "0644"}]
  <2> DEFINE whole == TRUE
             Wholes == {TRUE}
             some == Renderings \cup {None}
  <2>1. \/ kdl = [text |-> None, synced |-> whole, mode |-> "0600"]
        \/ kdl = [text |-> text, synced |-> whole, mode |-> "0644"]
    BY DEF F!InitFiles, F!NoFile
  <2>2. whole \in Wholes
    OBVIOUS
  <2> HIDE DEF text, whole, Wholes
  <2>3. text \in some /\ None \in some
    BY <1>2
  <2> HIDE DEF some
  <2>4. kdl \in [text : some, synced : Wholes, mode : {"0600", "0644"}]
    BY <2>1, <2>2, <2>3
  <2>5. QED
    BY <2>4 DEF Wholes, some
<1>4. QED
  BY <1>1, <1>3 DEF F!InitFiles, FilesInv, F!HandsOff

LEMMA FilesInductive == Spec => []FilesInv
<1>1. Init => FilesInv
  BY FilesInit DEF Init
<1>2. ASSUME FilesInv, [Next]_vars
      PROVE  FilesInv'
  <2>1. CASE F!NextFiles
    BY <1>2, <2>1, FilesStep
  <2>2. CASE UNCHANGED ofF
    BY <1>2, <2>2 DEF ofF, FilesInv, F!HandsOff
  <2>3. QED
    BY <1>2, <2>1, <2>2 DEF Next, vars
<1>3. QED
  BY <1>1, <1>2, PTL DEF Spec

(***************************************************************************)
(* niri never finds half a file; dynamic.kdl says what the journal and the *)
(* directory say once a SyncRules saw nothing change; what a person wrote  *)
(* stays; and a snapshot adds a desk that nothing declared and that can be *)
(* read back (rules.go, zen.go, manifest.go).                              *)
(***************************************************************************)
THEOREM FilesAreTrue == Spec => []FilesHold
BY FilesInductive, FilesInvHolds, PTL

-----------------------------------------------------------------------------
(***************************************************************************)
(* What Chrome's TypeOK says beyond this: a reading goes one file past the *)
(* cap and ends, a file that is no desk is one of the directory's, and no  *)
(* two of the desks read have a name.                                      *)
(***************************************************************************)
ReadingOK(x) ==
  /\ Cardinality(x.out) + x.bad <= ManifestsMax + 1
  /\ x.todo # {} => Cardinality(x.out) + x.bad <= ManifestsMax
  /\ x.bad + Cardinality(x.todo) <= Cardinality(Paths)
  /\ \A d, e \in x.out : d.desk.name = e.desk.name => d = e

ReadingsInv == settled \in BOOLEAN /\ \A t \in Task : ReadingOK(task[t])

ReadsOne(x, p) ==
  \E q \in Paths, capped \in BOOLEAN, new \in SUBSET [path : Paths, desk : Declares] :
    NextIs(p, x, q, capped, new)

\* what a step may make of what a task has read
ReadsAs(x, p) ==
  \/ x.out = p.out /\ x.bad = p.bad /\ x.todo = p.todo
  \/ x.out = {} /\ x.bad = 0
  \/ ReadsOne(x, p)

LEMMA ReadingKept ==
  ASSUME NEW p \in Tasks, NEW x \in Tasks, IsFiniteSet(p.out), IsFiniteSet(x.out),
         ReadingOK(p), ReadsAs(x, p)
  PROVE  ReadingOK(x)
<1>1. /\ Cardinality(p.out) \in Nat /\ Cardinality(x.out) \in Nat /\ p.bad \in Nat /\ x.bad \in Nat
      /\ p.todo \in SUBSET Paths /\ x.todo \in SUBSET Paths
  BY FS_CardinalityType DEF Tasks
<1>2. /\ Cardinality(p.todo) \in Nat /\ Cardinality(x.todo) \in Nat /\ Cardinality(Paths) \in Nat
      /\ Cardinality(x.todo) <= Cardinality(Paths) /\ ManifestsMax \in Nat
  BY <1>1, PathsCount, FewerPaths, FilesAssumption
<1>3. CASE x.out = p.out /\ x.bad = p.bad /\ x.todo = p.todo
  BY <1>3 DEF ReadingOK
<1>4. CASE x.out = {} /\ x.bad = 0
  <2>1. Cardinality(x.out) = 0
    BY <1>4, FS_EmptySet
  <2>2. QED
    BY <1>2, <1>4, <2>1 DEF ReadingOK
<1>5. CASE ReadsOne(x, p)
  <2>1. PICK q \in Paths, capped \in BOOLEAN, new \in SUBSET [path : Paths, desk : Declares] :
          NextIs(p, x, q, capped, new)
    BY <1>5 DEF ReadsOne
  <2>2. Cardinality(p.out) + p.bad <= ManifestsMax /\ p.bad + Cardinality(p.todo) <= Cardinality(Paths)
    BY <2>1 DEF ReadingOK, NextIs
  <2>3. x.todo \in SUBSET p.todo /\ x.todo # p.todo
    BY <2>1 DEF NextIs
  <2>4. Cardinality(x.todo) + 1 <= Cardinality(p.todo)
    BY <1>1, <1>2, <2>3, FewerPaths
  <2>5. x.bad <= p.bad + 1
    <3>1. x.bad = p.bad + 1 \/ x.bad = p.bad
      BY <2>1 DEF NextIs
    <3>2. QED
      BY <1>1, <3>1
  <2>6. x.bad + Cardinality(x.todo) <= Cardinality(Paths)
    BY <1>1, <1>2, <2>2, <2>4, <2>5
  <2>7. CASE capped
    <3>1. x.out = p.out /\ x.todo = {} /\ x.bad = p.bad + 1
      BY <2>1, <2>7 DEF NextIs
    <3>2. Cardinality(x.out) + x.bad <= ManifestsMax + 1
      BY <1>1, <1>2, <2>2, <3>1
    <3>3. QED
      BY <2>6, <3>1, <3>2 DEF ReadingOK
  <2>8. CASE ~capped
    <3>1. Cardinality(x.out) + x.bad <= ManifestsMax
      <4>1. /\ ~(Cardinality(p.out) + p.bad >= ManifestsMax)
            /\ Cardinality(x.out) + x.bad = Cardinality(p.out) + p.bad + 1
        BY <2>1, <2>8 DEF NextIs
      <4>2. QED
        BY <1>1, <1>2, <4>1
    <3>2. ASSUME NEW d \in x.out, NEW e \in x.out, d.desk.name = e.desk.name
          PROVE  d = e
      <4> DEFINE desk == F!Load(dir[q])
                 e0 == [path |-> q, desk |-> desk]
      <4>1. e0.desk = desk
        OBVIOUS
      <4> HIDE DEF e0
      <4>2. d \in p.out \/ d = e0
        BY <2>1 DEF e0, NextIs
      <4>3. e \in p.out \/ e = e0
        BY <2>1 DEF e0, NextIs
      <4>4. d \notin p.out \/ e \notin p.out => ~\E f \in p.out : f.desk.name = desk.name
        BY <2>1 DEF NextIs
      <4> HIDE DEF desk
      <4>5. QED
        BY <3>2, <4>1, <4>2, <4>3, <4>4 DEF ReadingOK
    <3>3. QED
      BY <1>1, <1>2, <2>6, <3>1, <3>2 DEF ReadingOK
  <2>9. QED
    BY <2>7, <2>8
<1>6. QED
  BY <1>3, <1>4, <1>5 DEF ReadsAs

AllRead == \A t \in Task : ReadsAs(task'[t], task[t])

LEMMA OneReads ==
  ASSUME FilesInv, NEW t \in Task, NEW x, Moves(t, x), ReadsAs(x, task[t])
  PROVE  AllRead
<1>1. ASSUME NEW u \in Task
      PROVE  ReadsAs(task'[u], task[u])
  <2>1. CASE u = t
    BY <2>1 DEF Moves, FilesInv
  <2>2. CASE u # t
    BY <2>2 DEF Moves, FilesInv, ReadsAs
  <2>3. QED
    BY <2>1, <2>2
<1>2. QED
  BY <1>1 DEF AllRead

LEMMA IdleReads == F!Idle.out = {} /\ F!Idle.bad = 0
BY DEF F!Idle

LEMMA EndsReads ==
  ASSUME FilesInv, NEW t \in Task, (\E said : F!Ends(t, said)) \/ (\E at : F!Step(t, at))
  PROVE  AllRead
<1> DEFINE p == task[t]
<1>1. p \in Tasks
  BY TaskHere
<1>2. ASSUME NEW said, F!Ends(t, said)
      PROVE  AllRead
  <2> DEFINE x == [F!Idle EXCEPT !.at = "done", !.said = said, !.for = p.for, !.kept = p.kept,
                                 !.desk = p.desk]
  <2>1. Moves(t, x)
    BY <1>2 DEF F!Ends, Moves
  <2>2. x.out = {} /\ x.bad = 0
    BY DEF F!Idle
  <2> HIDE DEF x
  <2>3. QED
    BY <2>1, <2>2, OneReads DEF ReadsAs
<1>3. ASSUME NEW at, F!Step(t, at)
      PROVE  AllRead
  <2> DEFINE x == [p EXCEPT !.at = at]
  <2>1. Moves(t, x)
    BY <1>3 DEF F!Step, Moves, FilesInv
  <2>2. x.out = p.out /\ x.bad = p.bad /\ x.todo = p.todo
    BY <1>1 DEF Tasks
  <2> HIDE DEF x
  <2>3. QED
    BY <2>1, <2>2, OneReads DEF ReadsAs
<1>4. QED
  BY <1>2, <1>3

LEMMA ReadingReads ==
  ASSUME FilesInv, NEW t \in Task,
         F!ReadDir(t) \/ F!LoadNext(t) \/ F!ManifestFor(t) \/ F!Renders(t) \/ F!Sync(t)
  PROVE  AllRead
<1> DEFINE p == task[t]
<1>1. p \in Tasks
  BY TaskHere
<1>2. CASE F!ReadDir(t)
  <2> DEFINE x == [p EXCEPT !.at = F!Files[F!Purpose(p.at)], !.todo = {q \in Paths : F!Here(q)},
                            !.out = {}, !.bad = 0]
  <2>1. Moves(t, x)
    BY <1>2 DEF F!ReadDir, Moves, FilesInv
  <2>2. x.out = {} /\ x.bad = 0
    BY <1>1 DEF Tasks
  <2> HIDE DEF x
  <2>3. QED
    BY <2>1, <2>2, OneReads DEF ReadsAs
<1>3. CASE F!LoadNext(t)
  <2>1. PICK x \in Tasks, q \in Paths, capped \in BOOLEAN, new \in SUBSET [path : Paths, desk : Declares] :
          Moves(t, x) /\ NextIs(task[t], x, q, capped, new)
    BY <1>3, LoadNextIs
  <2>2. ReadsOne(x, task[t])
    BY <2>1 DEF ReadsOne
  <2>3. QED
    BY <2>1, <2>2, OneReads DEF ReadsAs
<1>4. CASE F!ManifestFor(t)
  <2> DEFINE desk == [p.desk EXCEPT !.private = \E d \in F!Named(t, p.desk.name) : d.private]
             x == [p EXCEPT !.at = "map", !.desk = desk]
  <2>1. Moves(t, x)
    BY <1>4 DEF F!ManifestFor, Moves, FilesInv
  <2> HIDE DEF desk
  <2>2. x.out = p.out /\ x.bad = p.bad /\ x.todo = p.todo
    BY <1>1 DEF Tasks
  <2> HIDE DEF x
  <2>3. QED
    BY <2>1, <2>2, OneReads DEF ReadsAs
<1>5. CASE F!Renders(t)
  <2> DEFINE text == F!DynamicKDL(zen, F!Loaded(t))
             x == [p EXCEPT !.at = "compare", !.text = text, !.todo = {}, !.out = {}, !.bad = 0]
  <2>1. Moves(t, x)
    BY <1>5 DEF F!Renders, Moves, FilesInv
  <2> HIDE DEF text
  <2>2. x.out = {} /\ x.bad = 0
    BY <1>1 DEF Tasks
  <2> HIDE DEF x
  <2>3. QED
    BY <2>1, <2>2, OneReads DEF ReadsAs
<1>6. CASE F!Sync(t)
  <2> DEFINE x == [p EXCEPT !.synced = TRUE]
  <2>1. Moves(t, x)
    BY <1>6 DEF F!Sync, Moves, FilesInv
  <2>2. x.out = p.out /\ x.bad = p.bad /\ x.todo = p.todo
    BY <1>1 DEF Tasks
  <2> HIDE DEF x
  <2>3. QED
    BY <2>1, <2>2, OneReads DEF ReadsAs
<1>7. QED
  BY <1>2, <1>3, <1>4, <1>5, <1>6

\* a request that begins has read nothing
LEMMA BeginsReads ==
  ASSUME FilesInv, NEW t \in Task,
         \/ \E for, want, at : task' = F!Begins(t, for, want, at)
         \/ \E name, shape : F!Snapshot(t, name, shape)
  PROVE  AllRead
<1>1. ASSUME NEW for, NEW want, NEW at, task' = F!Begins(t, for, want, at)
      PROVE  AllRead
  <2> DEFINE x == [F!Idle EXCEPT !.at = at, !.for = for, !.want = want]
  <2>1. Moves(t, x)
    BY <1>1 DEF F!Begins, Moves
  <2>2. x.out = {} /\ x.bad = 0
    BY DEF F!Idle
  <2> HIDE DEF x
  <2>3. QED
    BY <2>1, <2>2, OneReads DEF ReadsAs
<1>2. ASSUME NEW name, NEW shape, F!Snapshot(t, name, shape)
      PROVE  AllRead
  <2> DEFINE d == F!FromMap(shape, name, FALSE)
             kept == F!Within(dir, {p \in Paths : F!Here(p)})
             x == [F!Idle EXCEPT !.at = "private dir", !.for = "snapshot", !.desk = d, !.kept = kept]
  <2>1. Moves(t, x)
    BY <1>2 DEF F!Snapshot, Moves
  <2> HIDE DEF d, kept
  <2>2. x.out = {} /\ x.bad = 0
    BY DEF F!Idle
  <2> HIDE DEF x
  <2>3. QED
    BY <2>1, <2>2, OneReads DEF ReadsAs
<1>3. QED
  BY <1>1, <1>2

\* a change under the tasks leaves what each has read
LEMMA ChangedReads ==
  ASSUME FilesInv, NEW table, NEW ps, NEW u \in Task
  PROVE  /\ ReadsAs(F!Changed(table, ps)[u], task[u])
         /\ ReadsAs(F!Stale(task)[u], task[u])
<1> DEFINE p == task[u]
           kept == F!Within(table, p.kept \ ps)
<1>1. p \in Tasks
  BY TaskHere
<1>2. F!Changed(table, ps)[u] = [p EXCEPT !.still = FALSE, !.kept = kept]
  BY DEF F!Changed
<1>3. F!Stale(task)[u] = [p EXCEPT !.still = FALSE]
  BY DEF F!Stale
<1> HIDE DEF kept
<1>4. /\ F!Changed(table, ps)[u].out = p.out /\ F!Changed(table, ps)[u].bad = p.bad
      /\ F!Changed(table, ps)[u].todo = p.todo
  BY <1>1, <1>2 DEF Tasks
<1>5. /\ F!Stale(task)[u].out = p.out /\ F!Stale(task)[u].bad = p.bad /\ F!Stale(task)[u].todo = p.todo
  BY <1>1, <1>3 DEF Tasks
<1>6. QED
  BY <1>4, <1>5 DEF ReadsAs

LEMMA WorldReads ==
  ASSUME FilesInv,
         \/ \E t \in Task : F!SetZen(t) \/ F!LinksNew(t)
         \/ \E p \in Paths, f \in {None} \cup Texts : F!Edits(p, f)
         \/ F!Cut
  PROVE  AllRead
<1>1. ASSUME NEW t \in Task, F!SetZen(t)
      PROVE  AllRead
  <2> DEFINE p == task[t]
             y == F!Stale(task)[t]
  <2>1. p \in Tasks /\ y = [p EXCEPT !.still = FALSE]
    BY TaskHere DEF F!Stale
  <2>2. CASE task' = [task EXCEPT ![t].at = "sync dir", ![t].still = TRUE]
    <3> DEFINE x == [p EXCEPT !.at = "sync dir", !.still = TRUE]
    <3>1. Moves(t, x)
      BY <2>2 DEF Moves, FilesInv
    <3>2. x.out = p.out /\ x.bad = p.bad /\ x.todo = p.todo
      BY <2>1 DEF Tasks
    <3> HIDE DEF x
    <3>3. QED
      BY <3>1, <3>2, OneReads DEF ReadsAs
  <2>3. CASE task' = [F!Stale(task) EXCEPT ![t].at = "sync dir", ![t].still = TRUE]
    <3> DEFINE x == [y EXCEPT !.at = "sync dir", !.still = TRUE]
    <3>1. task' = [F!Stale(task) EXCEPT ![t] = x]
      BY <2>3
    <3>2. x.out = p.out /\ x.bad = p.bad /\ x.todo = p.todo
      BY <2>1 DEF Tasks
    <3> HIDE DEF x
    <3>3. DOMAIN F!Stale(task) = Task
      BY DEF F!Stale
    <3>4. task'[t] = x /\ \A u \in Task \ {t} : task'[u] = F!Stale(task)[u]
      BY <3>1, <3>3
    <3>5. ReadsAs(task'[t], task[t])
      BY <3>2, <3>4 DEF ReadsAs
    <3>6. \A u \in Task \ {t} : ReadsAs(task'[u], task[u])
      BY <3>4, ChangedReads
    <3>7. QED
      BY <3>5, <3>6 DEF AllRead
  <2>4. CASE F!Ends(t, "error")
    BY <2>4, EndsReads
  <2>5. QED
    BY <1>1, <2>2, <2>3, <2>4 DEF F!SetZen
<1>2. ASSUME NEW t \in Task, F!LinksNew(t)
      PROVE  AllRead
  <2>1. CASE F!Ends(t, "refused")
    BY <2>1, EndsReads
  <2>2. CASE ~F!Ends(t, "refused")
    <3> DEFINE kept == F!Within(dir', task[t].kept)
               x == [F!Idle EXCEPT !.at = "done", !.said = "saved", !.for = "snapshot",
                                   !.desk = task[t].desk, !.kept = kept]
    <3>1. task' = [F!Changed(dir', {}) EXCEPT ![t] = x]
      BY <1>2, <2>2 DEF F!LinksNew
    <3> HIDE DEF kept
    <3>2. x.out = {} /\ x.bad = 0
      BY DEF F!Idle
    <3> HIDE DEF x
    <3>3. DOMAIN F!Changed(dir', {}) = Task
      BY DEF F!Changed
    <3>4. PICK table : table = dir'
      OBVIOUS
    <3>5. task'[t] = x /\ \A u \in Task \ {t} : task'[u] = F!Changed(table, {})[u]
      BY <3>1, <3>3, <3>4
    <3>6. ReadsAs(task'[t], task[t])
      BY <3>2, <3>5 DEF ReadsAs
    <3>7. \A u \in Task \ {t} : ReadsAs(task'[u], task[u])
      BY <3>5, ChangedReads
    <3>8. QED
      BY <3>6, <3>7 DEF AllRead
  <2>3. QED
    BY <2>1, <2>2
<1>3. ASSUME NEW p \in Paths, NEW f \in {None} \cup Texts, F!Edits(p, f)
      PROVE  AllRead
  <2>1. PICK table : table = dir'
    OBVIOUS
  <2>2. task' = F!Changed(table, {p})
    BY <1>3, <2>1 DEF F!Edits
  <2>3. QED
    BY <2>2, ChangedReads DEF AllRead
<1>4. CASE F!Cut
  <2> DEFINE x == [F!Idle EXCEPT !.at = "done"]
  <2>1. x.out = {} /\ x.bad = 0 /\ F!Idle.out = {} /\ F!Idle.bad = 0
    BY DEF F!Idle
  <2>2. task' = [t \in Task |-> IF t = Start \/ task[t].at = "none" THEN F!Idle ELSE x]
    BY <1>4 DEF F!Cut
  <2> HIDE DEF x
  <2>3. \A u \in Task : task'[u] = F!Idle \/ task'[u] = x
    BY <2>2
  <2>4. QED
    BY <2>1, <2>3 DEF AllRead, ReadsAs
<1>5. QED
  BY <1>1, <1>2, <1>3, <1>4

LEMMA FilesRead ==
  ASSUME FilesInv, F!NextFiles
  PROVE  AllRead
<1>1. ASSUME NEW t \in Task,
             \/ F!CannotReadDir(t) \/ F!WritesDown(t) \/ F!Save(t) \/ F!Compare(t) \/ F!Rename(t)
             \/ F!WriteFails(t)
      PROVE  AllRead
  <2>1. (\E said : F!Ends(t, said)) \/ (\E at : F!Step(t, at))
    BY <1>1 DEF F!CannotReadDir, F!WritesDown, F!Save, F!Compare, F!Rename, F!WriteFails, F!RulesDone
  <2>2. QED
    BY <2>1, EndsReads
<1>2. ASSUME NEW t \in Task,
             \/ F!SyncRules(t) \/ \E word \in {"on", "off", "toggle"} : F!Zen(t, word)
             \/ \E name \in DOMAIN PathOf, shape \in Shapes : F!Snapshot(t, name, shape)
      PROVE  AllRead
  <2>1. \/ \E for, want, at : task' = F!Begins(t, for, want, at)
        \/ \E name, shape : F!Snapshot(t, name, shape)
    BY <1>2 DEF F!SyncRules, F!Zen
  <2>2. QED
    BY <2>1, BeginsReads
<1>3. QED
  BY <1>1, <1>2, ReadingReads, WorldReads DEF F!NextFiles

LEMMA SettledStays ==
  ASSUME FilesInv, F!NextFiles, settled \in BOOLEAN
  PROVE  settled' \in BOOLEAN
<1>1. ASSUME NEW t \in Task,
             \/ F!ReadDir(t) \/ F!CannotReadDir(t) \/ F!LoadNext(t)
             \/ \E name \in DOMAIN PathOf, shape \in Shapes : F!Snapshot(t, name, shape)
             \/ F!ManifestFor(t) \/ F!WritesDown(t) \/ F!Save(t)
             \/ F!SyncRules(t) \/ F!Renders(t) \/ F!Sync(t) \/ F!WriteFails(t)
             \/ \E word \in {"on", "off", "toggle"} : F!Zen(t, word)
      PROVE  settled' = settled
  BY <1>1 DEF F!ReadDir, F!CannotReadDir, F!LoadNext, F!Snapshot, F!ManifestFor, F!WritesDown, F!Save,
     F!SyncRules, F!Renders, F!Sync, F!WriteFails, F!Zen
<1>2. ASSUME NEW t \in Task, F!Compare(t) \/ F!Rename(t)
      PROVE  settled' = settled \/ settled' = task[t].still
  BY <1>2 DEF F!Compare, F!Rename, F!RulesDone
<1>3. ASSUME NEW t \in Task
      PROVE  task[t].still \in BOOLEAN
  BY TaskHere DEF Tasks
<1>4. ASSUME NEW t \in Task, F!SetZen(t)
      PROVE  settled' \in BOOLEAN
  <2>1. settled' = settled \/ settled' = (settled /\ zen' = zen)
    BY <1>4 DEF F!SetZen
  <2>2. (settled /\ zen' = zen) \in BOOLEAN
    OBVIOUS
  <2>3. QED
    BY <2>1, <2>2, Zenon
<1>5. ASSUME NEW t \in Task, F!LinksNew(t)
      PROVE  settled' = settled \/ settled' = FALSE
  BY <1>5 DEF F!LinksNew
<1>6. ASSUME F!Cut \/ \E p \in Paths, f \in {None} \cup Texts : F!Edits(p, f)
      PROVE  settled' = FALSE
  BY <1>6 DEF F!Cut, F!Edits
<1>7. \/ settled' = settled \/ settled' = FALSE \/ \E t \in Task : settled' = task[t].still
      \/ \E t \in Task : F!SetZen(t)
  BY <1>1, <1>2, <1>5, <1>6 DEF F!NextFiles
<1>8. FALSE \in BOOLEAN
  OBVIOUS
<1>9. QED
  BY <1>3, <1>4, <1>7, <1>8, Zenon

LEMMA ReadingsInductive == Spec => [](FilesInv /\ ReadingsInv)
<1>1. Init => ReadingsInv
  <2> SUFFICES ASSUME Init
               PROVE  ReadingsInv
    OBVIOUS
  <2>1. FilesInv /\ settled = FALSE /\ task = [t \in Task |-> F!Idle]
    BY FilesInit DEF Init, F!InitFiles
  <2>2. F!Idle.out = {} /\ F!Idle.bad = 0 /\ F!Idle.todo = {}
    BY DEF F!Idle
  <2>3. Cardinality({}) = 0 /\ Cardinality(Paths) \in Nat /\ ManifestsMax \in Nat
    BY FS_EmptySet, PathsCount, FilesAssumption
  <2>4. ReadingOK(F!Idle)
    BY <2>2, <2>3 DEF ReadingOK
  <2>5. settled \in BOOLEAN
    BY <2>1
  <2>6. QED
    BY <2>1, <2>4, <2>5 DEF ReadingsInv
<1>2. ASSUME FilesInv, FilesInv', ReadingsInv, [Next]_vars
      PROVE  ReadingsInv'
  <2>1. CASE F!NextFiles
    <3>1. ASSUME NEW t \in Task
          PROVE  ReadingOK(task'[t])
      <4>1. /\ task[t] \in Tasks /\ IsFiniteSet(task[t].out)
            /\ task'[t] \in Tasks /\ IsFiniteSet(task'[t].out)
        BY <1>2 DEF FilesInv, TaskOK
      <4>2. ReadsAs(task'[t], task[t])
        BY <1>2, <2>1, FilesRead DEF AllRead
      <4>3. ReadingOK(task[t])
        BY <1>2 DEF ReadingsInv
      <4>4. QED
        BY <4>1, <4>2, <4>3, ReadingKept
    <3>2. settled' \in BOOLEAN
      BY <1>2, <2>1, SettledStays DEF ReadingsInv
    <3>3. (\A t \in Task : ReadingOK(task[t]))'
      BY <3>1 DEF ReadingOK
    <3>4. QED
      BY <3>2, <3>3 DEF ReadingsInv
  <2>2. CASE UNCHANGED ofF
    <3>1. settled' = settled /\ task' = task
      BY <2>2 DEF ofF
    <3>2. QED
      BY <1>2, <3>1 DEF ReadingsInv, ReadingOK
  <2>3. QED
    BY <1>2, <2>1, <2>2 DEF Next, vars
<1>3. QED
  BY <1>1, <1>2, FilesInductive, PTL DEF Spec

LEMMA FilesTypes == FilesInv /\ ReadingsInv => F!TypeOK
<1> SUFFICES ASSUME FilesInv, ReadingsInv
             PROVE  F!TypeOK
  OBVIOUS
<1>1. ASSUME NEW p \in Paths, F!Here(p)
      PROVE  dir[p].kind \in {"file", "fifo"}
  <2>1. dir[p] \in Texts \cup Snapped
    BY <1>1 DEF FilesInv, F!Here
  <2>2. QED
    BY <2>1, FilesAssumption DEF Snapped, F!Written
<1>2. kdl.synced \in BOOLEAN /\ kdl.mode \in {"0600", "0644"} /\ zen \in BOOLEAN
  BY DEF FilesInv
<1>3. settled \in BOOLEAN
  BY DEF ReadingsInv
<1>4. ASSUME NEW t \in Task
      PROVE  /\ task[t].todo \subseteq Paths /\ task[t].bad \in 0 .. F!Cardinality(Paths)
             /\ F!Cardinality(task[t].out) + task[t].bad <= ManifestsMax + 1
             /\ \A d, e \in task[t].out : d.desk.name = e.desk.name => d = e
  <2>1. task[t] \in Tasks /\ ReadingOK(task[t])
    BY TaskHere DEF ReadingsInv
  <2>2. task[t].todo \in SUBSET Paths /\ task[t].bad \in Nat
    BY <2>1 DEF Tasks
  <2>3. Cardinality(task[t].todo) \in Nat /\ Cardinality(Paths) \in Nat
    BY <2>2, PathsCount
  <2>4. task[t].bad \in 0 .. Cardinality(Paths)
    BY <2>1, <2>2, <2>3 DEF ReadingOK
  <2>5. QED
    BY <2>1, <2>2, <2>4, CountedInFiles DEF ReadingOK
<1>5. QED
  BY <1>1, <1>2, <1>3, <1>4 DEF F!TypeOK

=============================================================================
