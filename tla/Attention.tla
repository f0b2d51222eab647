----------------------------- MODULE Attention -----------------------------
(***************************************************************************)
(* A notification's life across the daemon: the bus server's two tables of *)
(* names (internal/attn Server), the queue (internal/journal), the history *)
(* (internal/attn History) and the calls that move one through all three   *)
(* (attn Notify and CloseNotification; zded Arrived, Closed, queueAdd,     *)
(* queueDone, queueClear).                                                 *)
(*                                                                         *)
(* Every call runs on a goroutine of its own: godbus starts one for each   *)
(* method call and the socket one for each connection.  Each table has its *)
(* own mutex and nothing spans two of them, so a call is as many steps as  *)
(* it takes locks, and any two calls interleave between them.              *)
(*                                                                         *)
(* The mode only says whether an arrival asks for a place on the queue,    *)
(* and it is sampled once: here it is the choice of either.  Signals,      *)
(* popups and what a notification says are left out.                       *)
(***************************************************************************)
EXTENDS AttnRecords

CONSTANTS
  Clients,    \* connections on the bus
  Person,     \* who typed `zde queue add`: the "" of Ours
  Self,       \* SelfFrom: the desktop's own messages
  Handlers,   \* goroutines: calls in progress at once
  QueueMax, QueuePerSenderMax, Reserved,   \* the journal's three bounds
  Asked,      \* the numbers a sender may ask to replace, those of its own choosing included
  Breaks,     \* whether a journal write may fail
  MaxId       \* bound: ids handed out

ASSUME OursAssumption == Person \in Ours /\ Self \in Ours /\ Person # Self
ASSUME CallsAssumption ==
  Breaks \in BOOLEAN /\ MaxId \in Nat /\ Asked \subseteq Nat \ {0}

ASSUME QueueAssumption ==
  /\ QueueMax \in Nat /\ QueuePerSenderMax \in Nat /\ Reserved \in Nat
  /\ Reserved <= QueueMax

VARIABLES
  mine,     \* Server.mine: a connection's number for one of its own, to the item
  by,       \* Server.by: the item, to the numbers it is known by
  hist,     \* the history
  queue,    \* what waits, in order
  lastID,   \* the journal's counter
  sent,     \* history: whose each id is, and the number it was sent to replace
  broken,   \* history: the items whose end the journal could not write down
  call      \* what each goroutine is doing

vars == <<mine, by, hist, queue, lastID, sent, broken, call>>
names   == <<mine, by>>
journal == <<queue, lastID, sent>>

None == 0
Given == 1 .. MaxId
Names == Clients \X (Given \cup Asked)

\* the journal's own bounds, as internal/journal asks them
Q == INSTANCE JournalEntries WITH
       Places <- {}, Slots <- {}, Registers <- {}, Values <- {},
       PerSenderMax <- QueuePerSenderMax

QueueIds == Q!IdsOf(queue)

\* a goroutine's locals: where it is, for whom, and what it is holding
Idle == [at |-> "idle", client |-> Self, from |-> Self, replaces |-> None, id |-> None,
         replaced |-> None, todo |-> {}]

Goto(h, at) == call' = [call EXCEPT ![h].at = at]
Return(h) == call' = [call EXCEPT ![h] = Idle]

\* an error from the journal ends the call that met it, with some ids not let go of
Break(h, kept) ==
  /\ Breaks
  /\ broken' = broken \cup kept
  /\ Return(h)
  /\ UNCHANGED <<names, journal>>

-----------------------------------------------------------------------------
(***************************************************************************)
(* The tables, each call under s.mu.                                       *)
(***************************************************************************)
\* mutant: a number that pointed at something else is copied, not moved
RememberCopied(k, id) ==
  /\ mine' = [mine EXCEPT ![k] = id]
  /\ by' = [by EXCEPT ![id] = @ \cup {k}]

Remember(k, id) ==
  /\ mine' = [mine EXCEPT ![k] = id]
  /\ by' = [i \in Given |-> IF i = id THEN by[i] \cup {k} ELSE by[i] \ {k}]

Forget(id) ==
  /\ mine' = [k \in Names |-> IF k \in by[id] THEN None ELSE mine[k]]
  /\ by' = [by EXCEPT ![id] = {}]

\* mutant: the number is looked up whoever gave it
LookupAnyone(c, n) ==
  IF \E d \in Clients : mine[<<d, n>>] # None
    THEN mine[<<CHOOSE d \in Clients : mine[<<d, n>>] # None, n>>]
    ELSE None

Lookup(c, n) == mine[<<c, n>>]

-----------------------------------------------------------------------------
(***************************************************************************)
(* Notify: look up what it replaces; close and forget that; arrive; be     *)
(* remembered under the id given and under the number asked for.           *)
(***************************************************************************)
Notify(h, c, app, replaces) ==
  /\ call[h].at = "idle"
  /\ LET old == IF replaces = None THEN None ELSE Lookup(c, replaces)
     IN  call' = [call EXCEPT ![h] =
                    [Idle EXCEPT !.at = IF old = None THEN "queueing" ELSE "replacing",
                                 !.client = c, !.from = app, !.replaces = replaces,
                                 !.id = old]]
  /\ UNCHANGED <<names, journal, hist, broken>>

\* the desktop's own message, which never crosses the bus (Local)
NotifySelf(h) ==
  /\ call[h].at = "idle"
  /\ call' = [call EXCEPT ![h] = [Idle EXCEPT !.at = "queueing"]]
  /\ UNCHANGED <<names, journal, hist, broken>>

CloseNotification(h, c, n) ==
  /\ call[h].at = "idle"
  /\ Lookup(c, n) # None
  /\ call' = [call EXCEPT ![h] = [Idle EXCEPT !.at = "closing", !.client = c,
                                             !.id = Lookup(c, n)]]
  /\ UNCHANGED <<names, journal, hist, broken>>

\* zded Closed: the history is told first, and the journal after it
CloseRecord(h) ==
  /\ call[h].at \in {"replacing", "closing"}
  /\ hist' = Dismiss(hist, call[h].id)
  /\ Goto(h, IF call[h].at = "replacing" THEN "replaced" ELSE "closed")
  /\ UNCHANGED <<names, journal, broken>>

CloseItem(h) ==
  /\ call[h].at \in {"replaced", "closed"}
  /\ \/ /\ queue' = Q!DropFirst(queue, call[h].id)
        /\ Goto(h, IF call[h].at = "replaced" THEN "superseding" ELSE "forgetting")
        /\ UNCHANGED <<names, lastID, sent, hist, broken>>
     \/ Break(h, {call[h].id}) /\ UNCHANGED hist

ForgetClosed(h) ==
  /\ call[h].at \in {"superseding", "forgetting"}
  /\ Forget(call[h].id)
  /\ IF call[h].at = "superseding"
       THEN call' = [call EXCEPT ![h].at = "queueing", ![h].replaced = call[h].id, ![h].id = None]
       ELSE Return(h)
  /\ UNCHANGED <<journal, hist, broken>>

-----------------------------------------------------------------------------
(***************************************************************************)
(* zded Arrived: a place on the queue if the mode asks for one and there   *)
(* is room, an id of its own otherwise; then the history; then the ids the *)
(* history pushed out are forgotten.                                       *)
(***************************************************************************)
Sender(h) == IF call[h].from = Self THEN Self ELSE call[h].client

TakeId(h, at) ==
  /\ lastID < MaxId
  /\ lastID' = lastID + 1
  /\ sent' = [sent EXCEPT ![lastID + 1] = <<Sender(h), call[h].replaces>>]
  /\ call' = [call EXCEPT ![h].at = at, ![h].id = lastID + 1]

\* mutant: whatever arrives in work mode is queued
QueueUnasked(h) ==
  /\ call[h].at = "queueing"
  /\ queue' = Append(queue, [id |-> lastID + 1, from |-> call[h].from])
  /\ TakeId(h, "recording")
  /\ UNCHANGED <<names, hist, broken>>

Queue(h) ==
  /\ call[h].at = "queueing"
  /\ \/ /\ Q!RoomFor(queue, call[h].from)
        /\ queue' = Append(queue, [id |-> lastID + 1, from |-> call[h].from])
        /\ TakeId(h, "recording")
        /\ UNCHANGED <<names, hist, broken>>
     \/ /\ Goto(h, "claiming")   \* no room, or the mode keeps it off the queue
        /\ UNCHANGED <<names, journal, hist, broken>>
     \/ Break(h, {}) /\ UNCHANGED hist

ClaimID(h) ==
  /\ call[h].at = "claiming"
  /\ \/ /\ TakeId(h, "recording")
        /\ UNCHANGED <<names, queue, hist, broken>>
     \/ Break(h, {}) /\ UNCHANGED hist

Recorded(h) ==
  LET r == [id |-> call[h].id, from |-> call[h].from, private |-> FALSE,
            dismissed |-> FALSE, restored |-> FALSE]
  IN  IF call[h].replaced = None THEN Add(hist, r) ELSE Replace(hist, call[h].replaced, r)

\* the superseded record is not among what the history answers with
PushedOut(h) == Gone(hist, Recorded(h)) \ {call[h].replaced}

AfterRecord(h) == IF call[h].from = Self THEN "idle" ELSE "naming"

RecordArrival(h) ==
  /\ call[h].at = "recording"
  /\ hist' = Recorded(h)
  /\ IF PushedOut(h) = {}
       THEN IF AfterRecord(h) = "idle" THEN Return(h) ELSE Goto(h, "naming")
       ELSE call' = [call EXCEPT ![h].at = "evicting", ![h].todo = PushedOut(h)]
  /\ UNCHANGED <<names, journal, broken>>

ForgetEvicted(h) ==
  /\ call[h].at = "evicting"
  /\ \E id \in call[h].todo :
       /\ Forget(id)
       /\ IF call[h].todo # {id}
            THEN call' = [call EXCEPT ![h].todo = @ \ {id}]
            ELSE IF AfterRecord(h) = "idle"
                   THEN Return(h)
                   ELSE call' = [call EXCEPT ![h].at = "naming", ![h].todo = {}]
  /\ UNCHANGED <<journal, hist, broken>>

NameGiven(h) ==
  /\ call[h].at = "naming"
  /\ Remember(<<call[h].client, call[h].id>>, call[h].id)
  /\ IF call[h].replaces = None THEN Return(h) ELSE Goto(h, "renaming")
  /\ UNCHANGED <<journal, hist, broken>>

NameAsked(h) ==
  /\ call[h].at = "renaming"
  /\ Remember(<<call[h].client, call[h].replaces>>, call[h].id)
  /\ Return(h)
  /\ UNCHANGED <<journal, hist, broken>>

-----------------------------------------------------------------------------
(***************************************************************************)
(* A person at the socket.                                                 *)
(***************************************************************************)
QueueAdd ==
  /\ lastID < MaxId
  /\ Q!RoomFor(queue, Person)
  /\ queue' = Append(queue, [id |-> lastID + 1, from |-> Person])
  /\ lastID' = lastID + 1
  /\ sent' = [sent EXCEPT ![lastID + 1] = <<Person, None>>]
  /\ UNCHANGED <<names, hist, broken, call>>

\* mutant: the history is marked before the journal is asked
QueueDoneMarkedFirst(h, id) ==
  /\ call[h].at = "idle"
  /\ \/ /\ queue' = Q!DropFirst(queue, id)
        /\ call' = [call EXCEPT ![h] = [Idle EXCEPT !.at = "marking", !.todo = {id}]]
        /\ UNCHANGED <<names, lastID, sent, hist, broken>>
     \/ Break(h, {}) /\ hist' = Dismiss(hist, id)

\* queueDone: the journal is told first, then the history, then the sender
QueueDone(h, id) ==
  /\ call[h].at = "idle"
  /\ queue' = Q!DropFirst(queue, id)
  /\ call' = [call EXCEPT ![h] = [Idle EXCEPT !.at = "marking", !.todo = {id}]]
  /\ UNCHANGED <<names, lastID, sent, hist, broken>>

\* queueClear: what is waiting is read, then cleared, then marked and let go of
QueueClear(h) ==
  /\ call[h].at = "idle"
  /\ queue # << >>
  /\ call' = [call EXCEPT ![h] = [Idle EXCEPT !.at = "clearing", !.todo = QueueIds]]
  /\ UNCHANGED <<names, journal, hist, broken>>

ClearQueue(h) ==
  /\ call[h].at = "clearing"
  /\ \/ /\ queue' = << >>
        /\ Goto(h, "marking")
        /\ UNCHANGED <<names, lastID, sent, hist, broken>>
     \/ Break(h, {}) /\ UNCHANGED hist

MarkFinished(h) ==
  /\ call[h].at = "marking"
  /\ \E id \in call[h].todo :
       /\ hist' = Dismiss(hist, id)
       /\ call' = [call EXCEPT ![h].at = "telling", ![h].id = id, ![h].todo = @ \ {id}]
  /\ UNCHANGED <<names, journal, broken>>

\* Dismissed
TellSender(h) ==
  /\ call[h].at = "telling"
  /\ Forget(call[h].id)
  /\ IF call[h].todo = {} THEN Return(h) ELSE Goto(h, "marking")
  /\ UNCHANGED <<journal, hist, broken>>

Init ==
  /\ mine = [k \in Names |-> None] /\ by = [id \in Given |-> {}]
  /\ hist = << >> /\ queue = << >> /\ lastID = 0
  /\ sent = [id \in Given |-> << >>]
  /\ broken = {}
  /\ call = [h \in Handlers |-> Idle]

Next ==
  \/ QueueAdd
  \/ \E h \in Handlers :
       \/ \E c \in Clients, app \in Apps, n \in Asked \cup {None} : Notify(h, c, app, n)
       \/ NotifySelf(h)
       \/ \E c \in Clients, n \in Given \cup Asked : CloseNotification(h, c, n)
       \/ CloseRecord(h)
       \/ CloseItem(h)
       \/ ForgetClosed(h)
       \/ Queue(h)
       \/ ClaimID(h)
       \/ RecordArrival(h)
       \/ ForgetEvicted(h)
       \/ NameGiven(h)
       \/ NameAsked(h)
       \/ \E id \in 1 .. lastID : QueueDone(h, id)   \* a number read off a list
       \/ QueueClear(h)
       \/ ClearQueue(h)
       \/ MarkFinished(h)
       \/ TellSender(h)

Spec == Init /\ [][Next]_vars

-----------------------------------------------------------------------------
Points == {"idle", "replacing", "replaced", "superseding", "closing", "closed",
           "forgetting", "queueing", "claiming", "recording", "evicting", "naming",
           "renaming", "clearing", "marking", "telling"}

Senders == Clients \cup {Self, Person}

Locals == [at : Points, client : Clients \cup {Self}, from : From,
           replaces : Asked \cup {None}, id : Given \cup {None},
           replaced : Given \cup {None}, todo : SUBSET Given]

\* types, and the journal's shares of the queue, whichever calls interleave
TypeOK ==
  /\ mine \in [Names -> Given \cup {None}]
  /\ by \in [Given -> SUBSET Names]
  /\ hist \in Seq(Record)
  /\ queue \in Seq(Q!Item) /\ Q!Shares(queue)
  /\ lastID \in 0 .. MaxId
  /\ sent \in [Given -> {<< >>} \cup (Senders \X (Asked \cup {None}))]
  /\ broken \subseteq Given
  /\ call \in [Handlers -> Locals]

(***************************************************************************)
(* The two tables are one table read both ways, an item is known by at     *)
(* most two names, and all of them belong to the connection that sent it:  *)
(* so forgetting an item never deletes a live entry of another, and the    *)
(* first name says who sent it (remember, forget, senderOf).               *)
(***************************************************************************)
NamesAgree ==
  /\ \A k \in Names, id \in Given : mine[k] = id <=> k \in by[id]
  /\ \A id \in Given : Cardinality(by[id]) <= 2
  /\ \A id \in Given, k \in Names : k \in by[id] => sent[id][1] = k[1]

(***************************************************************************)
(* A call on the bus only ever takes off what its own connection sent:     *)
(* never another's, and never a reminder a person typed, however the       *)
(* numbers it may use and the journal's collide (lookup, Notify,           *)
(* CloseNotification).                                                     *)
(***************************************************************************)
OnlyOwnClosed ==
  \A h \in Handlers :
    call[h].at \in {"replacing", "replaced", "superseding", "closing", "closed", "forgetting"}
      => sent[call[h].id][1] = call[h].client

(***************************************************************************)
(* What the history shows as dismissed is not waiting, except while a call *)
(* is between the two or after the journal refused the end of that item    *)
(* (Closed marks before it writes; queueDone and queueClear after).        *)
(***************************************************************************)
DismissedIsNotWaiting ==
  \A i \in DOMAIN hist : hist[i].dismissed /\ hist[i].id \in QueueIds =>
    \/ hist[i].id \in broken
    \/ \E h \in Handlers : call[h].id = hist[i].id /\ call[h].at \in {"replaced", "closed"}

(***************************************************************************)
(* "Replacing is how one download stays one queue item through a hundred   *)
(* updates": what a connection sent under one number of its own choosing   *)
(* waits at most once when no call is in progress (Notify).                *)
(***************************************************************************)
Quiet == \A h \in Handlers : call[h].at = "idle"

OneItemPerDownload ==
  Quiet => \A i, j \in QueueIds :
             sent[i] = sent[j] /\ sent[i][2] \in Asked \ Given => i = j
=============================================================================
