-------------------------- MODULE AttentionProofs ---------------------------
(***************************************************************************)
(* What holds of a notification's life across the tables, the queue and    *)
(* the history, for any number of calls in progress, of connections, of    *)
(* senders and of ids, and any bounds.                                     *)
(***************************************************************************)
EXTENDS Attention, AttnRecordsProofs

\* what is proved of the journal's queue (JournalQueueProofs), of this queue
QP == INSTANCE JournalQueueProofs WITH
        Places <- {}, Slots <- {}, Registers <- {}, Values <- {},
        PerSenderMax <- QueuePerSenderMax

-----------------------------------------------------------------------------
(***************************************************************************)
(* The invariant.  What a call holds: an id its own connection sent, or    *)
(* one taken for this arrival and told to nobody else, and, for a person's *)
(* call, ids that wait no longer.                                          *)
(***************************************************************************)
OnTheBus == {"replacing", "replaced", "superseding", "closing", "closed", "forgetting"}
Arriving == {"recording", "evicting", "naming", "renaming"}

CallOK(c, last, to, waiting) ==
  /\ c.id <= last /\ c.replaced <= last /\ \A id \in c.todo : id <= last
  /\ c.at \in OnTheBus =>
       c.client \in Clients /\ c.id # None /\ to[c.id][1] = c.client
  /\ c.at \in OnTheBus \cup {"queueing", "claiming"} \cup Arriving =>
       c.from = Self \/ c.client \in Clients
  /\ c.at \in Arriving =>
       /\ c.id # None
       /\ to[c.id] = <<IF c.from = Self THEN Self ELSE c.client, c.replaces>>
  /\ c.at \in {"naming", "renaming"} => c.from # Self
  /\ c.at = "renaming" => c.replaces # None
  /\ c.at = "telling" => c.id # None
  /\ c.at \in {"marking", "telling"} => c.todo \cap waiting = {}

CallsInv == \A h \in Handlers : CallOK(call[h], lastID, sent, QueueIds)

\* the tables are one table, and an item is known only by the two names its
\* sender can have for it
TablesOK(m, b, last, to) ==
  /\ \A k \in Names, id \in Given : m[k] = id <=> k \in b[id]
  /\ \A id \in Given : b[id] # {} =>
       id <= last /\ b[id] \subseteq {<<to[id][1], id>>, to[id]}

TablesInv == TablesOK(mine, by, lastID, sent)

\* nothing is numbered past the counter
QueueOK(q, last) == Q!Ordered(q) /\ \A id \in Q!IdsOf(q) : id <= last
QueueInv == QueueOK(queue, lastID)
RecordsInv == \A id \in HistoryIds(hist) : id <= lastID

AttentionInv == TypeOK /\ CallsInv /\ TablesInv /\ QueueInv /\ RecordsInv

-----------------------------------------------------------------------------
(***************************************************************************)
(* The queue, as one call changes it.                                      *)
(***************************************************************************)
LEMMA QueueBounds ==
  /\ QP!FiniteAssumption /\ QP!NoneAssumption /\ QP!NamesAssumption
  /\ QP!BoundsAssumption
<1>1. QP!IsFiniteSet({})
  BY FS_EmptySet DEF IsFiniteSet, QP!IsFiniteSet
<1>2. QED
  BY <1>1, AppsAssumption, QueueAssumption
  DEF QP!FiniteAssumption, QP!NoneAssumption, QP!NamesAssumption, QP!BoundsAssumption

LEMMA SameQueue ==
  /\ Q!Item = QP!Item
  /\ \A q : Q!IdsOf(q) = QP!IdsOf(q)
  /\ \A q : Q!Ordered(q) = QP!Ordered(q)
  /\ \A q : Q!Shares(q) = QP!Shares(q)
  /\ \A q, id : Q!DropFirst(q, id) = QP!DropFirst(q, id)
  /\ \A q, f : Q!RoomFor(q, f) = QP!RoomFor(q, f)
<1>1. Q!Item = QP!Item
  BY DEF Q!Item, QP!Item, Q!Ids, QP!Ids, Q!Senders, QP!Senders
<1>2. \A q : Q!IdsOf(q) = QP!IdsOf(q)
  BY DEF Q!IdsOf, QP!IdsOf
<1>3. \A q : Q!Ordered(q) = QP!Ordered(q)
  BY DEF Q!Ordered, QP!Ordered
<1>4. \A q, F : Q!HeldBy(q, F) = QP!HeldBy(q, F)
  <2>1. \A T : Q!Cardinality(T) = QP!Cardinality(T)
    BY DEF Q!Cardinality, QP!Cardinality
  <2>2. QED
    BY <2>1 DEF Q!HeldBy, QP!HeldBy
<1>5. \A q : Q!Shares(q) = QP!Shares(q)
  BY <1>4 DEF Q!Shares, QP!Shares
<1>6. \A q, f : Q!RoomFor(q, f) = QP!RoomFor(q, f)
  BY <1>4 DEF Q!RoomFor, QP!RoomFor
<1>7. \A q, id : Q!DropFirst(q, id) = QP!DropFirst(q, id)
  BY DEF Q!DropFirst, QP!DropFirst, Q!IdsOf, QP!IdsOf, Q!WithoutAt, QP!WithoutAt,
         Q!FirstAt, QP!FirstAt
<1>8. QED
  BY <1>1, <1>2, <1>3, <1>5, <1>6, <1>7

LEMMA QueueDrops ==
  ASSUME NEW q \in Seq(Q!Item), Q!Shares(q), NEW id, NEW last, QueueOK(q, last)
  PROVE  /\ Q!DropFirst(q, id) \in Seq(Q!Item) /\ Q!Shares(Q!DropFirst(q, id))
         /\ QueueOK(Q!DropFirst(q, id), last)
         /\ Q!IdsOf(Q!DropFirst(q, id)) \subseteq Q!IdsOf(q)
         /\ id \notin Q!IdsOf(Q!DropFirst(q, id))
<1>1. q \in Seq(QP!Item) /\ QP!Shares(q) /\ QP!Ordered(q)
  BY SameQueue DEF QueueOK
<1>2. /\ QP!DropFirst(q, id) \in Seq(QP!Item)
      /\ QP!Ordered(QP!DropFirst(q, id))
      /\ QP!IdsOf(QP!DropFirst(q, id)) \subseteq QP!IdsOf(q)
  BY <1>1, QueueBounds, QP!DropFirstType
<1>3. QP!Shares(QP!DropFirst(q, id))
  BY <1>1, QueueBounds, QP!SharesDrop
<1>4. id \notin QP!IdsOf(QP!DropFirst(q, id))
  BY <1>1, QueueBounds, QP!DropFirstRemoves
<1>5. QED
  BY <1>2, <1>3, <1>4, SameQueue DEF QueueOK

LEMMA QueueGrows ==
  ASSUME NEW q \in Seq(Q!Item), Q!Shares(q), NEW last \in Nat, QueueOK(q, last),
         NEW f \in From, Q!RoomFor(q, f)
  PROVE  LET b == Append(q, [id |-> last + 1, from |-> f])
         IN  /\ b \in Seq(Q!Item) /\ Q!Shares(b) /\ QueueOK(b, last + 1)
             /\ Q!IdsOf(b) = Q!IdsOf(q) \cup {last + 1}
<1> DEFINE x == [id |-> last + 1, from |-> f]
           b == Append(q, x)
<1>1. /\ q \in Seq(QP!Item) /\ QP!Shares(q) /\ QP!Ordered(q)
      /\ \A id \in QP!IdsOf(q) : id <= last
  BY SameQueue DEF QueueOK
<1>2. x \in QP!Item /\ x.id = last + 1 /\ x.from = f
  BY DEF QP!Item, QP!Ids, QP!Senders, From
<1> HIDE DEF x
<1>3. QP!RoomFor(q, x.from)
  BY <1>2, SameQueue
<1>4. \A id \in QP!IdsOf(q) : id \in Int /\ id < x.id
  <2>1. QP!IdsOf(q) \subseteq Nat
    BY <1>1, QueueBounds, QP!IdsType DEF QP!Ids
  <2>2. QED
    BY <1>1, <1>2, <2>1
<1>5. /\ b \in Seq(QP!Item) /\ QP!Ordered(b)
      /\ QP!IdsOf(b) = QP!IdsOf(q) \cup {x.id}
  BY <1>1, <1>2, <1>4, QueueBounds, QP!AppendOrdered
<1>6. QP!Shares(b)
  BY <1>1, <1>2, <1>3, QueueBounds, QP!SharesAppend
<1>7. \A id \in QP!IdsOf(b) : id <= last + 1
  BY <1>2, <1>4, <1>5
<1> HIDE DEF b
<1>8. b \in Seq(Q!Item) /\ Q!Shares(b) /\ QueueOK(b, last + 1)
  BY <1>5, <1>6, <1>7, SameQueue DEF QueueOK
<1>9. QED
  BY <1>2, <1>5, <1>8, SameQueue DEF x, b

LEMMA QueueEmpties ==
  /\ << >> \in Seq(Q!Item) /\ Q!Shares(<< >>) /\ Q!IdsOf(<< >>) = {}
  /\ \A last : QueueOK(<< >>, last)
<1>1. /\ << >> \in Seq(QP!Item) /\ QP!Ordered(<< >>) /\ QP!IdsOf(<< >>) = {}
      /\ QP!Shares(<< >>)
  BY QueueBounds, QP!EmptyQueue, QP!EmptyShares
<1>2. QED
  BY <1>1, SameQueue DEF QueueOK

-----------------------------------------------------------------------------
(***************************************************************************)
(* A call that is left alone: what it holds was numbered before, so nobody *)
(* else's arrival changes whose it is or puts it back on the queue.        *)
(***************************************************************************)
Numbered(last, to, last2, to2) ==
  /\ last \in Nat /\ last2 \in Nat /\ last <= last2
  /\ \A id \in Given : id <= last => to2[id] = to[id]

LEMMA GivenIds ==
  /\ MaxId \in Nat /\ None \notin Given /\ None \in Nat
  /\ \A id \in Given : id \in Nat /\ id >= 1 /\ id <= MaxId
BY CallsAssumption DEF Given, None

LEMMA CallKept ==
  ASSUME NEW c \in Locals, NEW last, NEW last2, NEW to, NEW to2, NEW w, NEW w2,
         CallOK(c, last, to, w), Numbered(last, to, last2, to2),
         \A id \in w2 : id <= last => id \in w
  PROVE  CallOK(c, last2, to2, w2)
<1>1. /\ c.id \in Given \cup {None} /\ c.replaced \in Given \cup {None}
      /\ c.todo \subseteq Given
  BY DEF Locals
<1>2. last \in Nat /\ last2 \in Nat /\ last <= last2
  BY DEF Numbered
<1>3. \A id \in Given \cup {None} : id <= last => id <= last2
  BY <1>2, GivenIds
<1>4. c.id <= last2 /\ c.replaced <= last2 /\ \A id \in c.todo : id <= last2
  BY <1>1, <1>3 DEF CallOK
<1>5. c.id # None => to2[c.id] = to[c.id]
  BY <1>1 DEF CallOK, Numbered
<1>6. c.at \in {"marking", "telling"} => c.todo \cap w2 = {}
  BY DEF CallOK
<1>7. QED
  BY <1>4, <1>5, <1>6 DEF CallOK, OnTheBus, Arriving

\* nothing is held by a call that is idle
LEMMA IdleOK ==
  ASSUME NEW last \in Nat, NEW to, NEW w
  PROVE  Idle \in Locals /\ CallOK(Idle, last, to, w)
<1>1. Self \in From
  BY OursAssumption DEF From
<1>2. Idle \in Locals
  BY <1>1 DEF Idle, Locals, Points
<1>3. CallOK(Idle, last, to, w)
  BY DEF Idle, CallOK, OnTheBus, Arriving, None
<1>4. QED
  BY <1>2, <1>3

LEMMA IdleFields ==
  /\ Idle \in Locals /\ Idle.client = Self /\ Idle.from = Self /\ Idle.replaces = None
  /\ Idle.id = None /\ Idle.replaced = None /\ Idle.todo = {}
<1>1. 0 \in Nat
  OBVIOUS
<1>2. Idle \in Locals
  BY <1>1, IdleOK
<1>3. QED
  BY <1>2 DEF Idle

\* one call moved, and the others may have seen new numbers but no old one back
LEMMA CallMoved ==
  ASSUME AttentionInv, NEW h \in Handlers, NEW c \in Locals,
         call' = [call EXCEPT ![h] = c],
         CallOK(c, lastID', sent', QueueIds'),
         Numbered(lastID, sent, lastID', sent'),
         \A id \in QueueIds' : id <= lastID => id \in QueueIds
  PROVE  call' \in [Handlers -> Locals] /\ CallsInv'
<1>1. call \in [Handlers -> Locals]
  BY DEF AttentionInv, TypeOK
<1>2. call' \in [Handlers -> Locals] /\ call'[h] = c
      /\ \A k \in Handlers \ {h} : call'[k] = call[k]
  BY <1>1
<1>3. ASSUME NEW k \in Handlers \ {h}
      PROVE  CallOK(call[k], lastID', sent', QueueIds')
  BY <1>1, CallKept DEF AttentionInv, CallsInv
<1>4. \A k \in Handlers : CallOK(call'[k], lastID', sent', QueueIds')
  BY <1>2, <1>3
<1>5. CallsInv'
  BY <1>4 DEF CallsInv
<1>6. QED
  BY <1>2, <1>5

-----------------------------------------------------------------------------
(***************************************************************************)
(* The tables.                                                             *)
(***************************************************************************)
TablesType == mine \in [Names -> Given \cup {None}] /\ by \in [Given -> SUBSET Names]

LEMMA RememberOK ==
  ASSUME TablesType, NEW last, NEW to, TablesOK(mine, by, last, to),
         NEW k \in Names, NEW id \in Given, id <= last,
         k \in {<<to[id][1], id>>, to[id]}, Remember(k, id)
  PROVE  TablesType' /\ TablesOK(mine', by', last, to)
<1>1. /\ mine' = [mine EXCEPT ![k] = id]
      /\ by' = [i \in Given |-> IF i = id THEN by[i] \cup {k} ELSE by[i] \ {k}]
  BY DEF Remember
<1>2. TablesType'
  BY <1>1 DEF TablesType
<1>3. ASSUME NEW n \in Names, NEW i \in Given
      PROVE  mine'[n] = i <=> n \in by'[i]
  BY <1>1 DEF TablesType, TablesOK
<1>4. ASSUME NEW i \in Given, by'[i] # {}
      PROVE  i <= last /\ by'[i] \subseteq {<<to[i][1], i>>, to[i]}
  BY <1>1, <1>4 DEF TablesOK
<1>5. QED
  BY <1>2, <1>3, <1>4 DEF TablesOK

LEMMA ForgetOK ==
  ASSUME TablesType, NEW last, NEW to, TablesOK(mine, by, last, to),
         NEW id \in Given, Forget(id)
  PROVE  TablesType' /\ TablesOK(mine', by', last, to)
<1>1. /\ mine' = [k \in Names |-> IF k \in by[id] THEN None ELSE mine[k]]
      /\ by' = [by EXCEPT ![id] = {}]
  BY DEF Forget
<1>2. TablesType'
  BY <1>1 DEF TablesType
<1>3. ASSUME NEW n \in Names, NEW i \in Given
      PROVE  mine'[n] = i <=> n \in by'[i]
  <2>1. /\ mine[n] = i <=> n \in by[i]
        /\ mine[n] = id <=> n \in by[id]
    BY DEF TablesOK
  <2>2. /\ mine'[n] = IF n \in by[id] THEN None ELSE mine[n]
        /\ by'[i] = IF i = id THEN {} ELSE by[i]
    BY <1>1 DEF TablesType
  <2>3. None # i
    BY GivenIds
  <2>4. QED
    BY <2>1, <2>2, <2>3
<1>4. ASSUME NEW i \in Given, by'[i] # {}
      PROVE  i <= last /\ by'[i] \subseteq {<<to[i][1], i>>, to[i]}
  BY <1>1, <1>4 DEF TablesType, TablesOK
<1>5. QED
  BY <1>2, <1>3, <1>4 DEF TablesOK

\* a number taken is nobody's name yet
LEMMA TablesKept ==
  ASSUME TablesType, NEW last, NEW last2, NEW to, NEW to2,
         TablesOK(mine, by, last, to), Numbered(last, to, last2, to2)
  PROVE  TablesOK(mine, by, last2, to2)
<1>1. ASSUME NEW i \in Given, by[i] # {}
      PROVE  i <= last2 /\ by[i] \subseteq {<<to2[i][1], i>>, to2[i]}
  <2>1. i <= last /\ by[i] \subseteq {<<to[i][1], i>>, to[i]}
    BY <1>1 DEF TablesOK
  <2>2. to2[i] = to[i] /\ i <= last2
    BY <2>1, GivenIds DEF Numbered
  <2>3. QED
    BY <2>1, <2>2
<1>2. QED
  BY <1>1 DEF TablesOK

\* whoever finds a number in the table sent what it points at
LEMMA LookupOwn ==
  ASSUME AttentionInv, NEW c \in Clients, NEW n \in Given \cup Asked,
         Lookup(c, n) # None
  PROVE  /\ Lookup(c, n) \in Given /\ Lookup(c, n) <= lastID
         /\ sent[Lookup(c, n)][1] = c
<1> DEFINE k == <<c, n>>
           id == mine[k]
<1>1. k \in Names /\ id \in Given
  BY DEF Names, AttentionInv, TypeOK, Lookup
<1>2. k \in by[id]
  BY <1>1 DEF AttentionInv, TablesInv, TablesOK
<1>3. id <= lastID /\ by[id] \subseteq {<<sent[id][1], id>>, sent[id]}
  BY <1>1, <1>2 DEF AttentionInv, TablesInv, TablesOK
<1>4. k = <<sent[id][1], id>> \/ k = sent[id]
  BY <1>2, <1>3
<1>5. sent[id][1] = c
  BY <1>4
<1>6. QED
  BY <1>1, <1>3, <1>5 DEF Lookup

-----------------------------------------------------------------------------
(***************************************************************************)
(* The steps of one call, by what they touch besides the call's locals.    *)
(***************************************************************************)
LEMMA Unpacked ==
  ASSUME AttentionInv
  PROVE  /\ TablesType /\ TablesOK(mine, by, lastID, sent)
         /\ Numbered(lastID, sent, lastID, sent)
         /\ lastID \in 0 .. MaxId /\ lastID \in Nat
         /\ queue \in Seq(Q!Item) /\ Q!Shares(queue) /\ QueueOK(queue, lastID)
         /\ hist \in Seq(Record) /\ broken \subseteq Given
         /\ sent \in [Given -> {<< >>} \cup (Senders \X (Asked \cup {None}))]
         /\ \A h \in Handlers : call[h] \in Locals /\ CallOK(call[h], lastID, sent, QueueIds)
<1>1. lastID \in 0 .. MaxId /\ lastID \in Nat
  BY GivenIds DEF AttentionInv, TypeOK
<1>2. Numbered(lastID, sent, lastID, sent)
  BY <1>1 DEF Numbered
<1>3. QED
  BY <1>1, <1>2
  DEF AttentionInv, TypeOK, TablesType, TablesInv, QueueInv, CallsInv

LEMMA OnlyCall ==
  ASSUME AttentionInv, NEW h \in Handlers, NEW c \in Locals,
         call' = [call EXCEPT ![h] = c], CallOK(c, lastID, sent, QueueIds),
         UNCHANGED <<names, journal, hist, broken>>
  PROVE  AttentionInv'
<1>1. /\ lastID' = lastID /\ sent' = sent /\ queue' = queue /\ QueueIds' = QueueIds
      /\ mine' = mine /\ by' = by /\ hist' = hist /\ broken' = broken
  BY DEF names, journal, QueueIds
<1>2. call' \in [Handlers -> Locals] /\ CallsInv'
  BY <1>1, Unpacked, CallMoved
<1>3. QED
  BY <1>1, <1>2 DEF AttentionInv, TypeOK, TablesInv, QueueInv, RecordsInv

LEMMA CallAndTables ==
  ASSUME AttentionInv, NEW h \in Handlers, NEW c \in Locals,
         call' = [call EXCEPT ![h] = c], CallOK(c, lastID, sent, QueueIds),
         TablesType', TablesOK(mine', by', lastID, sent),
         UNCHANGED <<journal, hist, broken>>
  PROVE  AttentionInv'
<1>1. /\ lastID' = lastID /\ sent' = sent /\ queue' = queue /\ QueueIds' = QueueIds
      /\ hist' = hist /\ broken' = broken
  BY DEF journal, QueueIds
<1>2. call' \in [Handlers -> Locals] /\ CallsInv'
  BY <1>1, Unpacked, CallMoved
<1>3. QED
  BY <1>1, <1>2 DEF AttentionInv, TypeOK, TablesType, TablesInv, QueueInv, RecordsInv

LEMMA CallAndHistory ==
  ASSUME AttentionInv, NEW h \in Handlers, NEW c \in Locals,
         call' = [call EXCEPT ![h] = c], CallOK(c, lastID, sent, QueueIds),
         hist' \in Seq(Record), \A id \in HistoryIds(hist') : id <= lastID,
         UNCHANGED <<names, journal, broken>>
  PROVE  AttentionInv'
<1>1. /\ lastID' = lastID /\ sent' = sent /\ queue' = queue /\ QueueIds' = QueueIds
      /\ mine' = mine /\ by' = by /\ broken' = broken
  BY DEF names, journal, QueueIds
<1>2. call' \in [Handlers -> Locals] /\ CallsInv'
  BY <1>1, Unpacked, CallMoved
<1>3. QED
  BY <1>1, <1>2 DEF AttentionInv, TypeOK, TablesInv, QueueInv, RecordsInv

LEMMA CallAndQueue ==
  ASSUME AttentionInv, NEW h \in Handlers, NEW c \in Locals,
         call' = [call EXCEPT ![h] = c], CallOK(c, lastID, sent, QueueIds'),
         queue' \in Seq(Q!Item), Q!Shares(queue'), QueueOK(queue', lastID),
         Q!IdsOf(queue') \subseteq QueueIds,
         UNCHANGED <<names, lastID, sent, hist, broken>>
  PROVE  AttentionInv'
<1>1. /\ lastID' = lastID /\ sent' = sent /\ QueueIds' = Q!IdsOf(queue')
      /\ mine' = mine /\ by' = by /\ hist' = hist /\ broken' = broken
  BY DEF names, QueueIds
<1>2. call' \in [Handlers -> Locals] /\ CallsInv'
  BY <1>1, Unpacked, CallMoved
<1>3. QED
  BY <1>1, <1>2 DEF AttentionInv, TypeOK, TablesInv, QueueInv, RecordsInv

LEMMA ReturnStep ==
  ASSUME AttentionInv, NEW h \in Handlers, Return(h)
  PROVE  /\ call' = [call EXCEPT ![h] = Idle] /\ Idle \in Locals
         /\ \A w : CallOK(Idle, lastID, sent, w)
BY Unpacked, IdleOK DEF Return

LEMMA GotoStep ==
  ASSUME AttentionInv, NEW h \in Handlers, NEW at \in Points, Goto(h, at)
  PROVE  LET c == [call[h] EXCEPT !.at = at]
         IN  /\ call' = [call EXCEPT ![h] = c] /\ c \in Locals
             /\ c.at = at /\ c.client = call[h].client /\ c.from = call[h].from
             /\ c.replaces = call[h].replaces /\ c.id = call[h].id
             /\ c.replaced = call[h].replaced /\ c.todo = call[h].todo
<1>1. call[h] \in Locals /\ call \in [Handlers -> Locals]
  BY DEF AttentionInv, TypeOK
<1>2. QED
  BY <1>1 DEF Goto, Locals

LEMMA BreakStep ==
  ASSUME AttentionInv, NEW h \in Handlers, NEW kept \in SUBSET Given,
         Break(h, kept), UNCHANGED hist
  PROVE  AttentionInv'
<1>1. /\ call' = [call EXCEPT ![h] = Idle] /\ Idle \in Locals
      /\ CallOK(Idle, lastID, sent, QueueIds)
  BY ReturnStep DEF Break
<1>2. /\ lastID' = lastID /\ sent' = sent /\ queue' = queue /\ QueueIds' = QueueIds
      /\ mine' = mine /\ by' = by /\ hist' = hist /\ broken' \subseteq Given
  BY Unpacked DEF Break, names, journal, QueueIds
<1>3. call' \in [Handlers -> Locals] /\ CallsInv'
  BY <1>1, <1>2, Unpacked, CallMoved
<1>4. QED
  BY <1>2, <1>3 DEF AttentionInv, TypeOK, TablesInv, QueueInv, RecordsInv

-----------------------------------------------------------------------------
(***************************************************************************)
(* Notify, Local, CloseNotification and queueClear begin.                  *)
(***************************************************************************)
LEMMA NotifyStep ==
  ASSUME AttentionInv, NEW h \in Handlers, NEW c \in Clients, NEW app \in Apps,
         NEW n \in Asked \cup {None}, Notify(h, c, app, n)
  PROVE  AttentionInv'
<1> DEFINE old == IF n = None THEN None ELSE Lookup(c, n)
           d == [Idle EXCEPT !.at = IF old = None THEN "queueing" ELSE "replacing",
                             !.client = c, !.from = app, !.replaces = n, !.id = old]
<1>1. call' = [call EXCEPT ![h] = d] /\ UNCHANGED <<names, journal, hist, broken>>
  BY DEF Notify
<1>2. old = None \/ (old \in Given /\ old <= lastID /\ sent[old][1] = c)
  BY LookupOwn
<1>3. old \in Given \cup {None} /\ old <= lastID
  BY <1>2, Unpacked, GivenIds DEF None
<1> HIDE DEF old
<1>4. /\ d \in Locals
      /\ d.at = (IF old = None THEN "queueing" ELSE "replacing") /\ d.client = c
      /\ d.from = app /\ d.id = old /\ d.replaced = None /\ d.todo = {}
  BY <1>3, IdleFields DEF Locals, Points, From
<1>5. None <= lastID
  BY Unpacked DEF None
<1> HIDE DEF d
<1>6. CallOK(d, lastID, sent, QueueIds)
  BY <1>2, <1>3, <1>4, <1>5 DEF CallOK, OnTheBus, Arriving
<1>7. QED
  BY <1>1, <1>4, <1>6, OnlyCall

LEMMA NotifySelfStep ==
  ASSUME AttentionInv, NEW h \in Handlers, NotifySelf(h)
  PROVE  AttentionInv'
<1> DEFINE d == [Idle EXCEPT !.at = "queueing"]
<1>1. call' = [call EXCEPT ![h] = d] /\ UNCHANGED <<names, journal, hist, broken>>
  BY DEF NotifySelf
<1>2. /\ d \in Locals /\ d.at = "queueing" /\ d.from = Self
      /\ d.id = None /\ d.replaced = None /\ d.todo = {}
  BY IdleFields DEF Locals, Points
<1>3. None <= lastID
  BY Unpacked DEF None
<1> HIDE DEF d
<1>4. CallOK(d, lastID, sent, QueueIds)
  BY <1>2, <1>3 DEF CallOK, OnTheBus, Arriving
<1>5. QED
  BY <1>1, <1>2, <1>4, OnlyCall

LEMMA CloseNotificationStep ==
  ASSUME AttentionInv, NEW h \in Handlers, NEW c \in Clients, NEW n \in Given \cup Asked,
         CloseNotification(h, c, n)
  PROVE  AttentionInv'
<1> DEFINE old == Lookup(c, n)
           d == [Idle EXCEPT !.at = "closing", !.client = c, !.id = old]
<1>1. call' = [call EXCEPT ![h] = d] /\ UNCHANGED <<names, journal, hist, broken>>
  BY DEF CloseNotification
<1>2. old \in Given /\ old <= lastID /\ sent[old][1] = c /\ old # None
  BY LookupOwn DEF CloseNotification
<1> HIDE DEF old
<1>3. /\ d \in Locals /\ d.at = "closing" /\ d.client = c
      /\ d.id = old /\ d.replaced = None /\ d.todo = {}
  BY <1>2, IdleFields DEF Locals, Points
<1>4. None <= lastID
  BY Unpacked DEF None
<1> HIDE DEF d
<1>5. CallOK(d, lastID, sent, QueueIds)
  BY <1>2, <1>3, <1>4 DEF CallOK, OnTheBus, Arriving
<1>6. QED
  BY <1>1, <1>3, <1>5, OnlyCall

LEMMA WaitingIds ==
  ASSUME AttentionInv
  PROVE  QueueIds \subseteq Given /\ \A id \in QueueIds : id <= lastID
<1>1. queue \in Seq(QP!Item)
  BY Unpacked, SameQueue
<1>2. QueueIds \subseteq Nat \ {0}
  BY <1>1, QueueBounds, QP!IdsType, SameQueue DEF QP!Ids, QueueIds
<1>3. \A id \in QueueIds : id <= lastID /\ lastID <= MaxId
  BY Unpacked, GivenIds DEF QueueOK, QueueIds
<1>4. QED
  BY <1>2, <1>3, Unpacked, GivenIds DEF Given

LEMMA QueueClearStep ==
  ASSUME AttentionInv, NEW h \in Handlers, QueueClear(h)
  PROVE  AttentionInv'
<1> DEFINE d == [Idle EXCEPT !.at = "clearing", !.todo = QueueIds]
<1>1. call' = [call EXCEPT ![h] = d] /\ UNCHANGED <<names, journal, hist, broken>>
  BY DEF QueueClear
<1>2. QueueIds \subseteq Given /\ \A id \in QueueIds : id <= lastID
  BY WaitingIds
<1>3. /\ d \in Locals /\ d.at = "clearing"
      /\ d.id = None /\ d.replaced = None /\ d.todo = QueueIds
  BY <1>2, IdleFields DEF Locals, Points
<1>4. None <= lastID
  BY Unpacked DEF None
<1> HIDE DEF d
<1>5. CallOK(d, lastID, sent, QueueIds)
  BY <1>2, <1>3, <1>4 DEF CallOK, OnTheBus, Arriving
<1>6. QED
  BY <1>1, <1>3, <1>5, OnlyCall

-----------------------------------------------------------------------------
(***************************************************************************)
(* Closed, and the name let go of after it.                                *)
(***************************************************************************)
LEMMA CallFacts ==
  ASSUME AttentionInv, NEW h \in Handlers
  PROVE  /\ call[h] \in Locals /\ CallOK(call[h], lastID, sent, QueueIds)
         /\ call[h].id \in Given \cup {None} /\ call[h].replaced \in Given \cup {None}
         /\ call[h].todo \subseteq Given /\ call[h].from \in From
         /\ call[h].client \in Clients \cup {Self} /\ call[h].replaces \in Asked \cup {None}
BY Unpacked DEF Locals

LEMMA MarkedHistory ==
  ASSUME AttentionInv, NEW id
  PROVE  /\ Dismiss(hist, id) \in Seq(Record)
         /\ \A i \in HistoryIds(Dismiss(hist, id)) : i <= lastID
<1>1. hist \in Seq(Record) /\ Record \in SUBSET Record
  BY Unpacked
<1>2. \A r \in Record : [r EXCEPT !.dismissed = TRUE] \in Record
  BY DEF Record
<1>3. Dismiss(hist, id) \in Seq(Record)
  BY <1>1, <1>2, DismissType
<1>4. HistoryIds(Dismiss(hist, id)) = HistoryIds(hist)
  BY <1>1, DismissRings
<1>5. QED
  BY <1>3, <1>4 DEF AttentionInv, RecordsInv

LEMMA CloseRecordStep ==
  ASSUME AttentionInv, NEW h \in Handlers, CloseRecord(h)
  PROVE  AttentionInv'
<1> DEFINE at == IF call[h].at = "replacing" THEN "replaced" ELSE "closed"
           c == [call[h] EXCEPT !.at = at]
<1>1. /\ call[h].at \in {"replacing", "closing"} /\ Goto(h, at)
      /\ hist' = Dismiss(hist, call[h].id) /\ UNCHANGED <<names, journal, broken>>
  BY DEF CloseRecord
<1>2. at \in Points /\ at \in {"replaced", "closed"}
  BY DEF Points
<1> HIDE DEF at
<1>3. /\ call' = [call EXCEPT ![h] = c] /\ c \in Locals
      /\ c.at = at /\ c.client = call[h].client /\ c.from = call[h].from
      /\ c.id = call[h].id /\ c.replaced = call[h].replaced /\ c.todo = call[h].todo
  BY <1>1, <1>2, GotoStep
<1> HIDE DEF c
<1>4. CallOK(c, lastID, sent, QueueIds)
  BY <1>1, <1>2, <1>3, CallFacts DEF CallOK, OnTheBus, Arriving
<1>5. QED
  BY <1>1, <1>3, <1>4, MarkedHistory, CallAndHistory

LEMMA CloseItemStep ==
  ASSUME AttentionInv, NEW h \in Handlers, CloseItem(h)
  PROVE  AttentionInv'
<1>1. CASE Break(h, {call[h].id}) /\ UNCHANGED hist
  <2>1. {call[h].id} \in SUBSET Given
    BY CallFacts DEF CallOK, OnTheBus, CloseItem
  <2>2. QED
    BY <1>1, <2>1, BreakStep
<1>2. CASE ~(Break(h, {call[h].id}) /\ UNCHANGED hist)
  <2> DEFINE at == IF call[h].at = "replaced" THEN "superseding" ELSE "forgetting"
             c == [call[h] EXCEPT !.at = at]
  <2>1. /\ call[h].at \in {"replaced", "closed"} /\ Goto(h, at)
        /\ queue' = Q!DropFirst(queue, call[h].id)
        /\ UNCHANGED <<names, lastID, sent, hist, broken>>
    BY <1>2 DEF CloseItem
  <2>2. at \in Points /\ at \in {"superseding", "forgetting"}
    BY DEF Points
  <2> HIDE DEF at
  <2>3. /\ call' = [call EXCEPT ![h] = c] /\ c \in Locals
        /\ c.at = at /\ c.client = call[h].client /\ c.from = call[h].from
        /\ c.id = call[h].id /\ c.replaced = call[h].replaced /\ c.todo = call[h].todo
    BY <2>1, <2>2, GotoStep
  <2> HIDE DEF c
  <2>4. CallOK(c, lastID, sent, QueueIds')
    BY <2>1, <2>2, <2>3, CallFacts DEF CallOK, OnTheBus, Arriving
  <2>5. /\ queue' \in Seq(Q!Item) /\ Q!Shares(queue') /\ QueueOK(queue', lastID)
        /\ Q!IdsOf(queue') \subseteq QueueIds
    BY <2>1, Unpacked, QueueDrops DEF QueueIds
  <2>6. QED
    BY <2>1, <2>3, <2>4, <2>5, CallAndQueue
<1>3. QED
  BY <1>1, <1>2

LEMMA ForgetClosedStep ==
  ASSUME AttentionInv, NEW h \in Handlers, ForgetClosed(h)
  PROVE  AttentionInv'
<1>1. /\ call[h].at \in {"superseding", "forgetting"} /\ Forget(call[h].id)
      /\ call[h].id \in Given /\ UNCHANGED <<journal, hist, broken>>
  BY CallFacts DEF ForgetClosed, CallOK, OnTheBus
<1>2. TablesType' /\ TablesOK(mine', by', lastID, sent)
  BY <1>1, Unpacked, ForgetOK
<1>3. CASE call[h].at = "superseding"
  <2> DEFINE c == [call[h] EXCEPT !.at = "queueing", !.replaced = call[h].id, !.id = None]
  <2>1. call' = [call EXCEPT ![h] = c]
    BY <1>3 DEF ForgetClosed, AttentionInv, TypeOK
  <2>2. /\ c \in Locals /\ c.at = "queueing" /\ c.client = call[h].client
        /\ c.from = call[h].from /\ c.id = None /\ c.replaced = call[h].id
        /\ c.todo = call[h].todo
    BY <1>1, CallFacts DEF Locals, Points
  <2>3. None <= lastID
    BY Unpacked DEF None
  <2> HIDE DEF c
  <2>4. CallOK(c, lastID, sent, QueueIds)
    BY <1>3, <2>2, <2>3, CallFacts DEF CallOK, OnTheBus, Arriving
  <2>5. QED
    BY <1>1, <1>2, <2>1, <2>2, <2>4, CallAndTables
<1>4. CASE call[h].at # "superseding"
  <2>1. Return(h)
    BY <1>4 DEF ForgetClosed
  <2>2. QED
    BY <1>1, <1>2, <2>1, ReturnStep, CallAndTables
<1>5. QED
  BY <1>3, <1>4

-----------------------------------------------------------------------------
(***************************************************************************)
(* Arrived: a number of its own, a place on the queue or none.             *)
(***************************************************************************)
\* a number taken outdates nothing the history has
LEMMA HistoryBehind ==
  ASSUME AttentionInv, lastID' = lastID + 1, UNCHANGED hist
  PROVE  RecordsInv'
<1>1. \A i \in DOMAIN hist : hist[i] \in Record
  BY Unpacked
<1>2. \A r \in Record : r.id \in Nat
  BY DEF Record, Ids
<1>3. \A id \in HistoryIds(hist) : id \in Nat /\ id <= lastID
  BY <1>1, <1>2 DEF AttentionInv, RecordsInv, HistoryIds
<1>4. \A id \in HistoryIds(hist) : id <= lastID + 1
  BY <1>3, Unpacked
<1>5. QED
  BY <1>4 DEF RecordsInv

\* the next number, and the call that took it
LEMMA TakeIdStep ==
  ASSUME AttentionInv, NEW h \in Handlers, call[h].at \in {"queueing", "claiming"},
         TakeId(h, "recording"),
         queue' \in Seq(Q!Item), Q!Shares(queue'), QueueOK(queue', lastID'),
         Q!IdsOf(queue') \subseteq QueueIds \cup {lastID'},
         UNCHANGED <<names, hist, broken>>
  PROVE  AttentionInv'
<1> DEFINE n == lastID + 1
           c == [call[h] EXCEPT !.at = "recording", !.id = n]
<1>1. /\ lastID < MaxId /\ lastID' = n
      /\ sent' = [sent EXCEPT ![n] = <<Sender(h), call[h].replaces>>]
      /\ call' = [call EXCEPT ![h] = c]
  BY DEF TakeId, AttentionInv, TypeOK
<1>2. n \in Given /\ n # None /\ n \in 0 .. MaxId /\ n \in Nat
  BY <1>1, Unpacked, GivenIds DEF Given
<1>3. Sender(h) \in Senders /\ call[h].replaces \in Asked \cup {None}
  BY CallFacts DEF Sender, Senders
<1>4. /\ sent' \in [Given -> {<< >>} \cup (Senders \X (Asked \cup {None}))]
      /\ sent'[n] = <<Sender(h), call[h].replaces>>
      /\ \A id \in Given : id <= lastID => sent'[id] = sent[id]
  BY <1>1, <1>2, <1>3, Unpacked
<1>5. Numbered(lastID, sent, lastID', sent')
  BY <1>1, <1>2, <1>4, Unpacked DEF Numbered
<1>6. /\ c \in Locals /\ c.at = "recording" /\ c.client = call[h].client
      /\ c.from = call[h].from /\ c.replaces = call[h].replaces
      /\ c.id = n /\ c.replaced = call[h].replaced /\ c.todo = call[h].todo
  BY <1>2, CallFacts DEF Locals, Points
<1> HIDE DEF c
<1>7. CallOK(c, lastID', sent', QueueIds')
  <2>1. /\ call[h].replaced <= lastID /\ \A id \in call[h].todo : id <= lastID
        /\ call[h].from = Self \/ call[h].client \in Clients
    BY CallFacts DEF CallOK
  <2>2. /\ c.replaced <= n /\ \A id \in c.todo : id <= n
    <3>1. \A x \in Nat : x <= lastID => x <= n
      BY Unpacked
    <3>2. call[h].replaced \in Nat /\ \A id \in call[h].todo : id \in Nat
      BY CallFacts, GivenIds
    <3> HIDE DEF n
    <3>3. QED
      BY <1>6, <2>1, <3>1, <3>2
  <2>3. n <= n
    BY <1>2
  <2>4. sent'[n] = <<IF c.from = Self THEN Self ELSE c.client, c.replaces>>
    BY <1>4, <1>6 DEF Sender
  <2> HIDE DEF n
  <2>5. QED
    BY <1>1, <1>2, <1>6, <2>1, <2>2, <2>3, <2>4 DEF CallOK, OnTheBus, Arriving
<1>8. \A id \in QueueIds' : id <= lastID => id \in QueueIds
  BY <1>1, Unpacked DEF QueueIds
<1>9. call' \in [Handlers -> Locals] /\ CallsInv'
  BY <1>1, <1>5, <1>6, <1>7, <1>8, CallMoved
<1>10. TablesOK(mine, by, lastID', sent')
  BY <1>5, Unpacked, TablesKept
<1>11. RecordsInv'
  BY <1>1, HistoryBehind
<1>12. TypeOK'
  BY <1>1, <1>2, <1>4, <1>9 DEF AttentionInv, TypeOK, names
<1>13. TablesInv' /\ QueueInv'
  BY <1>10 DEF TablesInv, QueueInv, names
<1>14. QED
  BY <1>9, <1>11, <1>12, <1>13 DEF AttentionInv

LEMMA QueueStep ==
  ASSUME AttentionInv, NEW h \in Handlers, Queue(h)
  PROVE  AttentionInv'
<1>1. CASE /\ Q!RoomFor(queue, call[h].from)
           /\ queue' = Append(queue, [id |-> lastID + 1, from |-> call[h].from])
           /\ TakeId(h, "recording")
           /\ UNCHANGED <<names, hist, broken>>
  <2>1. /\ queue' \in Seq(Q!Item) /\ Q!Shares(queue') /\ QueueOK(queue', lastID + 1)
        /\ Q!IdsOf(queue') = QueueIds \cup {lastID + 1}
    BY <1>1, Unpacked, CallFacts, QueueGrows DEF QueueIds
  <2>2. lastID' = lastID + 1
    BY <1>1 DEF TakeId
  <2>3. QED
    BY <1>1, <2>1, <2>2, TakeIdStep DEF Queue
<1>2. CASE Goto(h, "claiming") /\ UNCHANGED <<names, journal, hist, broken>>
  <2> DEFINE c == [call[h] EXCEPT !.at = "claiming"]
  <2>1. "claiming" \in Points
    BY DEF Points
  <2>2. /\ call' = [call EXCEPT ![h] = c] /\ c \in Locals
        /\ c.at = "claiming" /\ c.client = call[h].client /\ c.from = call[h].from
        /\ c.id = call[h].id /\ c.replaced = call[h].replaced /\ c.todo = call[h].todo
    BY <1>2, <2>1, GotoStep
  <2> HIDE DEF c
  <2>3. CallOK(c, lastID, sent, QueueIds)
    BY <2>2, CallFacts DEF Queue, CallOK, OnTheBus, Arriving
  <2>4. QED
    BY <1>2, <2>2, <2>3, OnlyCall
<1>3. CASE Break(h, {}) /\ UNCHANGED hist
  BY <1>3, BreakStep
<1>4. QED
  BY <1>1, <1>2, <1>3 DEF Queue

LEMMA ClaimIDStep ==
  ASSUME AttentionInv, NEW h \in Handlers, ClaimID(h)
  PROVE  AttentionInv'
<1>1. CASE TakeId(h, "recording") /\ UNCHANGED <<names, queue, hist, broken>>
  <2>1. lastID' = lastID + 1 /\ queue' = queue
    BY <1>1 DEF TakeId
  <2>2. QueueOK(queue', lastID')
    <3>1. \A id \in Q!IdsOf(queue) : id \in Nat /\ id <= lastID
      BY WaitingIds, GivenIds DEF QueueIds
    <3>2. QED
      BY <2>1, <3>1, Unpacked DEF QueueOK
  <2>3. QED
    BY <1>1, <2>1, <2>2, Unpacked, TakeIdStep DEF ClaimID, QueueIds
<1>2. CASE Break(h, {}) /\ UNCHANGED hist
  BY <1>2, BreakStep
<1>3. QED
  BY <1>1, <1>2 DEF ClaimID

-----------------------------------------------------------------------------
(***************************************************************************)
(* The history is told, and what it pushed out is forgotten.               *)
(***************************************************************************)
RecordOf(h) == [id |-> call[h].id, from |-> call[h].from, private |-> FALSE,
                dismissed |-> FALSE, restored |-> FALSE]

LEMMA RecordedOK ==
  ASSUME AttentionInv, NEW h \in Handlers, call[h].at = "recording"
  PROVE  /\ RecordOf(h) \in Record
         /\ Recorded(h) = IF call[h].replaced = None THEN Add(hist, RecordOf(h))
                          ELSE Replace(hist, call[h].replaced, RecordOf(h))
         /\ Recorded(h) \in Seq(Record)
         /\ \A id \in HistoryIds(Recorded(h)) : id <= lastID
         /\ PushedOut(h) \subseteq Given /\ \A id \in PushedOut(h) : id <= lastID
<1> DEFINE r == RecordOf(h)
<1>1. call[h].id \in Given /\ call[h].id <= lastID
  BY CallFacts DEF CallOK, Arriving
<1>2. r \in Record /\ r.id = call[h].id
  BY <1>1, CallFacts, GivenIds DEF RecordOf, Record, Ids
<1>3. Recorded(h) = IF call[h].replaced = None THEN Add(hist, r)
                    ELSE Replace(hist, call[h].replaced, r)
  BY DEF Recorded, RecordOf
<1> HIDE DEF r
<1>4. Recorded(h) \in Seq(Record)
  BY <1>2, <1>3, Unpacked, AddType, ReplaceType
<1>5. HistoryIds(Recorded(h)) \subseteq HistoryIds(hist) \cup {r.id}
  BY <1>2, <1>3, Unpacked, AddIds, ReplaceIds
<1>6. \A id \in HistoryIds(hist) : id <= lastID
  BY DEF AttentionInv, RecordsInv
<1>7. HistoryIds(hist) \subseteq Given
  <2>1. \A i \in DOMAIN hist : hist[i] \in Record
    BY Unpacked
  <2>2. \A x \in Record : x.id \in Nat \ {0}
    BY DEF Record, Ids
  <2>3. HistoryIds(hist) \subseteq Nat \ {0}
    BY <2>1, <2>2 DEF HistoryIds
  <2>4. \A x \in Nat : x <= lastID => x <= MaxId
    BY Unpacked, GivenIds
  <2>5. QED
    BY <1>6, <2>3, <2>4, GivenIds DEF Given
<1>8. PushedOut(h) \subseteq HistoryIds(hist)
  BY DEF PushedOut, Gone
<1>9. QED
  BY <1>1, <1>2, <1>3, <1>4, <1>5, <1>6, <1>7, <1>8 DEF r

LEMMA RecordArrivalStep ==
  ASSUME AttentionInv, NEW h \in Handlers, RecordArrival(h)
  PROVE  AttentionInv'
<1>1. /\ call[h].at = "recording" /\ hist' = Recorded(h)
      /\ UNCHANGED <<names, journal, broken>>
  BY DEF RecordArrival
<1>2. hist' \in Seq(Record) /\ \A id \in HistoryIds(hist') : id <= lastID
  BY <1>1, RecordedOK
<1>3. CASE PushedOut(h) = {} /\ AfterRecord(h) = "idle"
  <2>1. Return(h)
    BY <1>3 DEF RecordArrival
  <2>2. QED
    BY <1>1, <1>2, <2>1, ReturnStep, CallAndHistory
<1>4. CASE PushedOut(h) = {} /\ AfterRecord(h) # "idle"
  <2> DEFINE c == [call[h] EXCEPT !.at = "naming"]
  <2>1. Goto(h, "naming") /\ "naming" \in Points
    BY <1>4 DEF RecordArrival, Points
  <2>2. /\ call' = [call EXCEPT ![h] = c] /\ c \in Locals
        /\ c.at = "naming" /\ c.client = call[h].client /\ c.from = call[h].from
        /\ c.replaces = call[h].replaces
        /\ c.id = call[h].id /\ c.replaced = call[h].replaced /\ c.todo = call[h].todo
    BY <2>1, GotoStep
  <2> HIDE DEF c
  <2>3. c.from # Self
    BY <1>4, <2>2 DEF AfterRecord
  <2>4. CallOK(c, lastID, sent, QueueIds)
    BY <1>1, <2>2, <2>3, CallFacts DEF CallOK, OnTheBus, Arriving
  <2>5. QED
    BY <1>1, <1>2, <2>2, <2>4, CallAndHistory
<1>5. CASE PushedOut(h) # {}
  <2> DEFINE c == [call[h] EXCEPT !.at = "evicting", !.todo = PushedOut(h)]
  <2>1. call' = [call EXCEPT ![h] = c]
    BY <1>5 DEF RecordArrival, AttentionInv, TypeOK
  <2>2. /\ c \in Locals /\ c.at = "evicting" /\ c.client = call[h].client
        /\ c.from = call[h].from /\ c.replaces = call[h].replaces /\ c.id = call[h].id
        /\ c.replaced = call[h].replaced /\ c.todo = PushedOut(h)
    BY <1>1, CallFacts, RecordedOK DEF Locals, Points
  <2> HIDE DEF c
  <2>3. CallOK(c, lastID, sent, QueueIds)
    BY <1>1, <2>2, CallFacts, RecordedOK DEF CallOK, OnTheBus, Arriving
  <2>4. QED
    BY <1>1, <1>2, <2>1, <2>2, <2>3, CallAndHistory
<1>6. QED
  BY <1>3, <1>4, <1>5

LEMMA ForgetEvictedStep ==
  ASSUME AttentionInv, NEW h \in Handlers, ForgetEvicted(h)
  PROVE  AttentionInv'
<1>1. PICK id \in call[h].todo :
        /\ Forget(id)
        /\ IF call[h].todo # {id}
             THEN call' = [call EXCEPT ![h].todo = @ \ {id}]
             ELSE IF AfterRecord(h) = "idle"
                    THEN Return(h)
                    ELSE call' = [call EXCEPT ![h].at = "naming", ![h].todo = {}]
  BY DEF ForgetEvicted
<1>2. call[h].at = "evicting" /\ UNCHANGED <<journal, hist, broken>>
  BY DEF ForgetEvicted
<1>3. id \in Given
  BY CallFacts
<1>4. TablesType' /\ TablesOK(mine', by', lastID, sent)
  BY <1>1, <1>3, Unpacked, ForgetOK
<1>5. CASE call[h].todo # {id}
  <2> DEFINE c == [call[h] EXCEPT !.todo = @ \ {id}]
  <2>1. call' = [call EXCEPT ![h] = c]
    BY <1>1, <1>5 DEF AttentionInv, TypeOK
  <2>2. /\ c \in Locals /\ c.at = "evicting" /\ c.client = call[h].client
        /\ c.from = call[h].from /\ c.replaces = call[h].replaces /\ c.id = call[h].id
        /\ c.replaced = call[h].replaced /\ c.todo = call[h].todo \ {id}
    BY <1>2, CallFacts DEF Locals, Points
  <2> HIDE DEF c
  <2>3. CallOK(c, lastID, sent, QueueIds)
    BY <1>2, <2>2, CallFacts DEF CallOK, OnTheBus, Arriving
  <2>4. QED
    BY <1>2, <1>4, <2>1, <2>2, <2>3, CallAndTables
<1>6. CASE call[h].todo = {id} /\ AfterRecord(h) = "idle"
  <2>1. Return(h)
    BY <1>1, <1>6
  <2>2. QED
    BY <1>2, <1>4, <2>1, ReturnStep, CallAndTables
<1>7. CASE call[h].todo = {id} /\ AfterRecord(h) # "idle"
  <2> DEFINE c == [call[h] EXCEPT !.at = "naming", !.todo = {}]
  <2>1. call' = [call EXCEPT ![h] = c]
    BY <1>1, <1>7 DEF AttentionInv, TypeOK
  <2>2. /\ c \in Locals /\ c.at = "naming" /\ c.client = call[h].client
        /\ c.from = call[h].from /\ c.replaces = call[h].replaces /\ c.id = call[h].id
        /\ c.replaced = call[h].replaced /\ c.todo = {}
    BY CallFacts DEF Locals, Points
  <2> HIDE DEF c
  <2>3. c.from # Self
    BY <1>7, <2>2 DEF AfterRecord
  <2>4. CallOK(c, lastID, sent, QueueIds)
    BY <1>2, <2>2, <2>3, CallFacts DEF CallOK, OnTheBus, Arriving
  <2>5. QED
    BY <1>2, <1>4, <2>1, <2>2, <2>4, CallAndTables
<1>8. QED
  BY <1>5, <1>6, <1>7

-----------------------------------------------------------------------------
(***************************************************************************)
(* Remembered, under the number given and under the number asked for.      *)
(***************************************************************************)
LEMMA NameGivenStep ==
  ASSUME AttentionInv, NEW h \in Handlers, NameGiven(h)
  PROVE  AttentionInv'
<1> DEFINE id == call[h].id
           k == <<call[h].client, id>>
<1>1. /\ call[h].at = "naming" /\ Remember(k, id)
      /\ IF call[h].replaces = None THEN Return(h) ELSE Goto(h, "renaming")
      /\ UNCHANGED <<journal, hist, broken>>
  BY DEF NameGiven
<1>2. /\ id \in Given /\ id <= lastID /\ call[h].from # Self
      /\ call[h].client \in Clients /\ sent[id] = <<call[h].client, call[h].replaces>>
  BY <1>1, CallFacts DEF CallOK, Arriving
<1>3. k \in Names /\ k = <<sent[id][1], id>>
  BY <1>2 DEF Names
<1> HIDE DEF k
<1>4. TablesType' /\ TablesOK(mine', by', lastID, sent)
  BY <1>1, <1>2, <1>3, Unpacked, RememberOK
<1>5. CASE call[h].replaces = None
  BY <1>1, <1>4, <1>5, ReturnStep, CallAndTables
<1>6. CASE call[h].replaces # None
  <2> DEFINE c == [call[h] EXCEPT !.at = "renaming"]
  <2>1. Goto(h, "renaming") /\ "renaming" \in Points
    BY <1>1, <1>6 DEF Points
  <2>2. /\ call' = [call EXCEPT ![h] = c] /\ c \in Locals
        /\ c.at = "renaming" /\ c.client = call[h].client /\ c.from = call[h].from
        /\ c.replaces = call[h].replaces
        /\ c.id = call[h].id /\ c.replaced = call[h].replaced /\ c.todo = call[h].todo
    BY <2>1, GotoStep
  <2> HIDE DEF c
  <2>3. CallOK(c, lastID, sent, QueueIds)
    BY <1>1, <1>6, <2>2, CallFacts DEF CallOK, OnTheBus, Arriving
  <2>4. QED
    BY <1>1, <1>4, <2>2, <2>3, CallAndTables
<1>7. QED
  BY <1>5, <1>6

LEMMA NameAskedStep ==
  ASSUME AttentionInv, NEW h \in Handlers, NameAsked(h)
  PROVE  AttentionInv'
<1> DEFINE id == call[h].id
           k == <<call[h].client, call[h].replaces>>
<1>1. /\ call[h].at = "renaming" /\ Remember(k, id) /\ Return(h)
      /\ UNCHANGED <<journal, hist, broken>>
  BY DEF NameAsked
<1>2. /\ id \in Given /\ id <= lastID /\ call[h].from # Self
      /\ call[h].client \in Clients /\ sent[id] = k
      /\ call[h].replaces \in Asked
  BY <1>1, CallFacts DEF CallOK, Arriving
<1>3. k \in Names
  BY <1>2 DEF Names
<1> HIDE DEF k
<1>4. TablesType' /\ TablesOK(mine', by', lastID, sent)
  BY <1>1, <1>2, <1>3, Unpacked, RememberOK
<1>5. QED
  BY <1>1, <1>4, ReturnStep, CallAndTables

-----------------------------------------------------------------------------
(***************************************************************************)
(* A person at the socket.                                                 *)
(***************************************************************************)
LEMMA QueueDoneStep ==
  ASSUME AttentionInv, NEW h \in Handlers, NEW id \in 1 .. lastID, QueueDone(h, id)
  PROVE  AttentionInv'
<1> DEFINE c == [Idle EXCEPT !.at = "marking", !.todo = {id}]
<1>1. /\ call' = [call EXCEPT ![h] = c] /\ queue' = Q!DropFirst(queue, id)
      /\ UNCHANGED <<names, lastID, sent, hist, broken>>
  BY DEF QueueDone
<1>2. id \in Given /\ id <= lastID
  BY Unpacked, GivenIds DEF Given
<1>3. /\ c \in Locals /\ c.at = "marking"
      /\ c.id = None /\ c.replaced = None /\ c.todo = {id}
  BY <1>2, IdleFields DEF Locals, Points
<1> HIDE DEF c
<1>4. /\ queue' \in Seq(Q!Item) /\ Q!Shares(queue') /\ QueueOK(queue', lastID)
      /\ Q!IdsOf(queue') \subseteq QueueIds /\ id \notin QueueIds'
  BY <1>1, Unpacked, QueueDrops DEF QueueIds
<1>5. None <= lastID
  BY Unpacked DEF None
<1>6. CallOK(c, lastID, sent, QueueIds')
  BY <1>2, <1>3, <1>4, <1>5 DEF CallOK, OnTheBus, Arriving
<1>7. QED
  BY <1>1, <1>3, <1>4, <1>6, CallAndQueue

LEMMA ClearQueueStep ==
  ASSUME AttentionInv, NEW h \in Handlers, ClearQueue(h)
  PROVE  AttentionInv'
<1>1. CASE /\ queue' = << >> /\ Goto(h, "marking")
           /\ UNCHANGED <<names, lastID, sent, hist, broken>>
  <2> DEFINE c == [call[h] EXCEPT !.at = "marking"]
  <2>1. "marking" \in Points
    BY DEF Points
  <2>2. /\ call' = [call EXCEPT ![h] = c] /\ c \in Locals
        /\ c.at = "marking" /\ c.client = call[h].client /\ c.from = call[h].from
        /\ c.id = call[h].id /\ c.replaced = call[h].replaced /\ c.todo = call[h].todo
    BY <1>1, <2>1, GotoStep
  <2> HIDE DEF c
  <2>3. /\ queue' \in Seq(Q!Item) /\ Q!Shares(queue') /\ QueueOK(queue', lastID)
        /\ Q!IdsOf(queue') = {} /\ QueueIds' = {}
    BY <1>1, QueueEmpties DEF QueueIds
  <2>4. CallOK(c, lastID, sent, QueueIds')
    BY <2>2, <2>3, CallFacts DEF CallOK, OnTheBus, Arriving
  <2>5. QED
    BY <1>1, <2>2, <2>3, <2>4, CallAndQueue
<1>2. CASE Break(h, {}) /\ UNCHANGED hist
  BY <1>2, BreakStep
<1>3. QED
  BY <1>1, <1>2 DEF ClearQueue

LEMMA MarkFinishedStep ==
  ASSUME AttentionInv, NEW h \in Handlers, MarkFinished(h)
  PROVE  AttentionInv'
<1>1. PICK id \in call[h].todo :
        /\ hist' = Dismiss(hist, id)
        /\ call' = [call EXCEPT ![h].at = "telling", ![h].id = id, ![h].todo = @ \ {id}]
  BY DEF MarkFinished
<1> DEFINE c == [call[h] EXCEPT !.at = "telling", !.id = id, !.todo = @ \ {id}]
<1>2. call[h].at = "marking" /\ UNCHANGED <<names, journal, broken>>
  BY DEF MarkFinished
<1>3. id \in Given /\ id <= lastID /\ id # None
  BY CallFacts, GivenIds DEF CallOK
<1>4. call' = [call EXCEPT ![h] = c]
  BY <1>1 DEF AttentionInv, TypeOK
<1>5. /\ c \in Locals /\ c.at = "telling" /\ c.id = id
      /\ c.replaced = call[h].replaced /\ c.todo = call[h].todo \ {id}
  BY <1>3, CallFacts DEF Locals, Points
<1> HIDE DEF c
<1>6. CallOK(c, lastID, sent, QueueIds)
  BY <1>2, <1>3, <1>5, CallFacts DEF CallOK, OnTheBus, Arriving
<1>7. QED
  BY <1>1, <1>2, <1>4, <1>5, <1>6, MarkedHistory, CallAndHistory

LEMMA TellSenderStep ==
  ASSUME AttentionInv, NEW h \in Handlers, TellSender(h)
  PROVE  AttentionInv'
<1>1. /\ call[h].at = "telling" /\ Forget(call[h].id) /\ call[h].id \in Given
      /\ UNCHANGED <<journal, hist, broken>>
  BY CallFacts DEF TellSender, CallOK
<1>2. TablesType' /\ TablesOK(mine', by', lastID, sent)
  BY <1>1, Unpacked, ForgetOK
<1>3. CASE call[h].todo = {}
  <2>1. Return(h)
    BY <1>3 DEF TellSender
  <2>2. QED
    BY <1>1, <1>2, <2>1, ReturnStep, CallAndTables
<1>4. CASE call[h].todo # {}
  <2> DEFINE c == [call[h] EXCEPT !.at = "marking"]
  <2>1. Goto(h, "marking") /\ "marking" \in Points
    BY <1>4 DEF TellSender, Points
  <2>2. /\ call' = [call EXCEPT ![h] = c] /\ c \in Locals
        /\ c.at = "marking" /\ c.client = call[h].client /\ c.from = call[h].from
        /\ c.id = call[h].id /\ c.replaced = call[h].replaced /\ c.todo = call[h].todo
    BY <2>1, GotoStep
  <2> HIDE DEF c
  <2>3. CallOK(c, lastID, sent, QueueIds)
    BY <1>1, <2>2, CallFacts DEF CallOK, OnTheBus, Arriving
  <2>4. QED
    BY <1>1, <1>2, <2>2, <2>3, CallAndTables
<1>5. QED
  BY <1>3, <1>4

LEMMA QueueAddStep ==
  ASSUME AttentionInv, QueueAdd
  PROVE  AttentionInv'
<1> DEFINE n == lastID + 1
<1>1. /\ lastID < MaxId /\ lastID' = n
      /\ Q!RoomFor(queue, Person)
      /\ queue' = Append(queue, [id |-> n, from |-> Person])
      /\ sent' = [sent EXCEPT ![n] = <<Person, None>>]
      /\ UNCHANGED <<names, hist, broken, call>>
  BY DEF QueueAdd
<1>2. n \in Given /\ n \in 0 .. MaxId /\ n \in Nat
  BY <1>1, Unpacked, GivenIds DEF Given
<1>3. Person \in From /\ Person \in Senders /\ None \in Asked \cup {None}
  BY OursAssumption DEF From, Senders
<1>4. /\ sent' \in [Given -> {<< >>} \cup (Senders \X (Asked \cup {None}))]
      /\ \A id \in Given : id <= lastID => sent'[id] = sent[id]
  BY <1>1, <1>2, <1>3, Unpacked
<1>5. Numbered(lastID, sent, lastID', sent')
  BY <1>1, <1>2, <1>4, Unpacked DEF Numbered
<1>6. /\ queue' \in Seq(Q!Item) /\ Q!Shares(queue') /\ QueueOK(queue', lastID')
      /\ QueueIds' = QueueIds \cup {n}
  BY <1>1, <1>3, Unpacked, QueueGrows DEF QueueIds
<1>7. \A id \in QueueIds' : id <= lastID => id \in QueueIds
  BY <1>6, Unpacked
<1>8. ASSUME NEW h \in Handlers
      PROVE  CallOK(call[h], lastID', sent', QueueIds')
  BY <1>5, <1>7, Unpacked, CallKept
<1>9. CallsInv'
  BY <1>1, <1>8 DEF CallsInv
<1>10. TablesOK(mine, by, lastID', sent')
  BY <1>5, Unpacked, TablesKept
<1>11. RecordsInv'
  BY <1>1, HistoryBehind
<1>12. TypeOK'
  BY <1>1, <1>2, <1>4, <1>6 DEF AttentionInv, TypeOK, names
<1>13. TablesInv' /\ QueueInv'
  BY <1>1, <1>6, <1>10 DEF TablesInv, QueueInv, names
<1>14. QED
  BY <1>9, <1>11, <1>12, <1>13 DEF AttentionInv

-----------------------------------------------------------------------------
(***************************************************************************)
(* Whichever calls interleave.                                             *)
(***************************************************************************)
LEMMA InitInv == Init => AttentionInv
<1> SUFFICES ASSUME Init PROVE AttentionInv
  OBVIOUS
<1> USE DEF Init
<1>1. 0 \in Nat /\ 0 \in 0 .. MaxId /\ lastID = 0
  BY GivenIds
<1>2. hist \in Seq(Record) /\ HistoryIds(hist) = {}
  BY DEF HistoryIds
<1>3. /\ queue \in Seq(Q!Item) /\ Q!Shares(queue) /\ QueueOK(queue, lastID)
  BY QueueEmpties
<1>4. /\ call \in [Handlers -> Locals]
      /\ \A h \in Handlers : CallOK(call[h], lastID, sent, QueueIds)
  BY <1>1, IdleOK
<1>5. TablesInv
  BY GivenIds DEF TablesInv, TablesOK
<1>6. sent \in [Given -> {<< >>} \cup (Senders \X (Asked \cup {None}))]
  OBVIOUS
<1>7. mine \in [Names -> Given \cup {None}] /\ by \in [Given -> SUBSET Names] /\ broken \subseteq Given
  OBVIOUS
<1>8. TypeOK
  BY <1>1, <1>2, <1>3, <1>4, <1>6, <1>7 DEF TypeOK
<1>9. QED
  BY <1>2, <1>3, <1>4, <1>5, <1>8
  DEF AttentionInv, CallsInv, QueueInv, RecordsInv

LEMMA NextInv == AttentionInv /\ [Next]_vars => AttentionInv'
<1> SUFFICES ASSUME AttentionInv, [Next]_vars PROVE AttentionInv'
  OBVIOUS
<1>1. CASE QueueAdd
  BY <1>1, QueueAddStep
<1>2. ASSUME NEW h \in Handlers, NEW c \in Clients, NEW app \in Apps,
             NEW n \in Asked \cup {None}, Notify(h, c, app, n)
      PROVE  AttentionInv'
  BY <1>2, NotifyStep
<1>3. ASSUME NEW h \in Handlers, NEW c \in Clients, NEW n \in Given \cup Asked,
             CloseNotification(h, c, n)
      PROVE  AttentionInv'
  BY <1>3, CloseNotificationStep
<1>4. ASSUME NEW h \in Handlers, NEW id \in 1 .. lastID, QueueDone(h, id)
      PROVE  AttentionInv'
  BY <1>4, QueueDoneStep
<1>5. ASSUME NEW h \in Handlers,
             NotifySelf(h) \/ CloseRecord(h) \/ CloseItem(h) \/ ForgetClosed(h)
      PROVE  AttentionInv'
  BY <1>5, NotifySelfStep, CloseRecordStep, CloseItemStep, ForgetClosedStep
<1>6. ASSUME NEW h \in Handlers,
             Queue(h) \/ ClaimID(h) \/ RecordArrival(h) \/ ForgetEvicted(h)
      PROVE  AttentionInv'
  BY <1>6, QueueStep, ClaimIDStep, RecordArrivalStep, ForgetEvictedStep
<1>7. ASSUME NEW h \in Handlers, NameGiven(h) \/ NameAsked(h)
      PROVE  AttentionInv'
  BY <1>7, NameGivenStep, NameAskedStep
<1>8. ASSUME NEW h \in Handlers,
             QueueClear(h) \/ ClearQueue(h) \/ MarkFinished(h) \/ TellSender(h)
      PROVE  AttentionInv'
  BY <1>8, QueueClearStep, ClearQueueStep, MarkFinishedStep, TellSenderStep
<1>9. CASE UNCHANGED vars
  <2>1. QueueIds' = QueueIds
    BY <1>9 DEF vars, QueueIds
  <2>2. QED
    BY <1>9, <2>1
    DEF vars, AttentionInv, TypeOK, CallsInv, TablesInv, QueueInv, RecordsInv
<1>10. QED
  BY <1>1, <1>2, <1>3, <1>4, <1>5, <1>6, <1>7, <1>8, <1>9 DEF Next

LEMMA AttentionInductive == Spec => []AttentionInv
BY InitInv, NextInv, PTL DEF Spec

\* Every table, queue and call keeps its type, and the queue each sender's share
\* and the places held for a person, however the calls of the daemon interleave.
THEOREM AttentionTypes == Spec => []TypeOK
<1>1. AttentionInv => TypeOK
  BY DEF AttentionInv
<1>2. QED
  BY <1>1, AttentionInductive, PTL

\* The server's two tables are one table read both ways, an item has at most two
\* names, and its names are its sender's (remember, forget, senderOf).
THEOREM NamesAreOneTable == Spec => []NamesAgree
<1>1. AttentionInv => NamesAgree
  <2> SUFFICES ASSUME AttentionInv PROVE NamesAgree
    OBVIOUS
  <2>1. \A k \in Names, id \in Given : mine[k] = id <=> k \in by[id]
    BY DEF AttentionInv, TablesInv, TablesOK
  <2>2. ASSUME NEW id \in Given
        PROVE  by[id] \subseteq {<<sent[id][1], id>>, sent[id]}
    BY <2>2 DEF AttentionInv, TablesInv, TablesOK
  <2>3. ASSUME NEW id \in Given
        PROVE  Cardinality(by[id]) <= 2
    <3> DEFINE a == <<sent[id][1], id>>
               b == sent[id]
    <3>1. by[id] \subseteq {a} \cup {b}
      BY <2>2
    <3> HIDE DEF a, b
    <3>2. IsFiniteSet({a}) /\ Cardinality({a}) = 1
      BY FS_Singleton
    <3>3. IsFiniteSet({a} \cup {b}) /\ Cardinality({a} \cup {b}) <= 2
      BY <3>2, FS_AddElement
    <3>4. /\ IsFiniteSet(by[id]) /\ Cardinality(by[id]) \in Nat
          /\ Cardinality({a} \cup {b}) \in Nat
          /\ Cardinality(by[id]) <= Cardinality({a} \cup {b})
      BY <3>1, <3>3, FS_Subset, FS_CardinalityType
    <3>5. QED
      BY <3>3, <3>4
  <2>4. ASSUME NEW id \in Given, NEW k \in Names, k \in by[id]
        PROVE  sent[id][1] = k[1]
    <3>1. k = <<sent[id][1], id>> \/ k = sent[id]
      BY <2>2, <2>4
    <3>2. QED
      BY <3>1
  <2>5. QED
    BY <2>1, <2>3, <2>4 DEF NamesAgree
<1>2. QED
  BY <1>1, AttentionInductive, PTL

\* What a call on the bus is taking off was sent by the connection that makes the
\* call: never another's, and never a person's reminder (lookup, CloseNotification).
THEOREM ClosesItsOwn == Spec => []OnlyOwnClosed
<1>1. AttentionInv => OnlyOwnClosed
  BY DEF AttentionInv, CallsInv, CallOK, OnTheBus, OnlyOwnClosed
<1>2. QED
  BY <1>1, AttentionInductive, PTL

-----------------------------------------------------------------------------
(***************************************************************************)
(* What is shown as dismissed and what waits.  The two are written one     *)
(* after the other, so a record may be ahead of the queue while its call   *)
(* is between the two, and only then.                                      *)
(***************************************************************************)
Between == {"replaced", "closed"}
Ended(h) == {h[i].id : i \in {j \in DOMAIN h : h[j].dismissed}}
Excused(id, b, c) == id \in b \/ \E h \in Handlers : c[h].id = id /\ c[h].at \in Between

LEMMA DismissedAs ==
  DismissedIsNotWaiting <=>
    \A id \in Ended(hist) \cap QueueIds : Excused(id, broken, call)
BY DEF DismissedIsNotWaiting, Ended, Excused, Between

\* a step that marks at most the ids of new, lets nothing old back onto the queue,
\* and ends no call that was between the two but for an id of new
LEMMA StillExcused ==
  ASSUME AttentionInv, DismissedIsNotWaiting, NEW new,
         Ended(hist') \subseteq Ended(hist) \cup new,
         QueueIds' \subseteq QueueIds \cup {lastID + 1},
         broken \subseteq broken',
         \A h \in Handlers : call[h].at \in Between =>
            call[h].id \in new \/ call'[h] = call[h],
         \A id \in new : id \in QueueIds' => Excused(id, broken', call')
  PROVE  DismissedIsNotWaiting'
<1>1. ASSUME NEW id \in Ended(hist') \cap QueueIds', id \notin new
      PROVE  Excused(id, broken', call')
  <2>1. id \in HistoryIds(hist)
    BY <1>1 DEF Ended, HistoryIds
  <2>2. id # lastID + 1
    BY <2>1, Unpacked DEF AttentionInv, RecordsInv
  <2>3. id \in Ended(hist) \cap QueueIds
    BY <1>1, <2>2
  <2>4. Excused(id, broken, call)
    BY <2>3, DismissedAs
  <2>5. QED
    BY <1>1, <2>4 DEF Excused
<1>2. \A id \in Ended(hist') \cap QueueIds' : Excused(id, broken', call')
  BY <1>1
<1>3. QED
  BY <1>2 DEF DismissedIsNotWaiting, Ended, Excused, Between

LEMMA OneMarked ==
  ASSUME AttentionInv, DismissedIsNotWaiting, NEW id,
         Ended(hist') \subseteq Ended(hist) \cup {id},
         QueueIds' \subseteq QueueIds, broken \subseteq broken',
         \A h \in Handlers :
            call[h].at \in Between => call[h].id = id \/ call'[h] = call[h],
         id \in QueueIds' => Excused(id, broken', call')
  PROVE  DismissedIsNotWaiting'
<1> DEFINE new == {id}
<1>1. /\ Ended(hist') \subseteq Ended(hist) \cup new
      /\ QueueIds' \subseteq QueueIds \cup {lastID + 1}
      /\ \A h \in Handlers :
           call[h].at \in Between => call[h].id \in new \/ call'[h] = call[h]
      /\ \A x \in new : x \in QueueIds' => Excused(x, broken', call')
  OBVIOUS
<1> HIDE DEF new
<1>2. QED
  BY <1>1, StillExcused

LEMMA NoneMarked ==
  ASSUME AttentionInv, DismissedIsNotWaiting,
         Ended(hist') \subseteq Ended(hist),
         QueueIds' \subseteq QueueIds \cup {lastID + 1}, broken \subseteq broken',
         \A h \in Handlers : call[h].at \in Between => call'[h] = call[h]
  PROVE  DismissedIsNotWaiting'
<1> DEFINE new == {}
<1>1. /\ Ended(hist') \subseteq Ended(hist) \cup new
      /\ \A h \in Handlers :
           call[h].at \in Between => call[h].id \in new \/ call'[h] = call[h]
      /\ \A x \in new : x \in QueueIds' => Excused(x, broken', call')
  OBVIOUS
<1> HIDE DEF new
<1>2. QED
  BY <1>1, StillExcused

LEMMA EndedMarked ==
  ASSUME NEW h \in Seq(Record), NEW id
  PROVE  Ended(Dismiss(h, id)) \subseteq Ended(h) \cup {id}
<1>1. DOMAIN Dismiss(h, id) = DOMAIN h
  BY DEF Dismiss
<1>2. ASSUME NEW i \in DOMAIN h, Dismiss(h, id)[i].dismissed
      PROVE  Dismiss(h, id)[i].id \in Ended(h) \cup {id}
  <2>1. h[i] \in Record
    OBVIOUS
  <2>2. CASE h[i].id = id
    BY <2>1, <2>2 DEF Dismiss, Record
  <2>3. CASE h[i].id # id
    BY <1>2, <2>3 DEF Dismiss, Ended
  <2>4. QED
    BY <2>2, <2>3
<1>3. QED
  BY <1>1, <1>2 DEF Ended

\* what arrives is not dismissed, and the records it arrives among are as they were
LEMMA EndedRecorded ==
  ASSUME AttentionInv, NEW h \in Handlers, call[h].at = "recording"
  PROVE  Ended(Recorded(h)) \subseteq Ended(hist)
<1> DEFINE r == RecordOf(h)
           R == {x \in Record : x.dismissed => x.id \in Ended(hist)}
<1>1. r \in R
  BY RecordedOK DEF RecordOf
<1>2. hist \in Seq(R)
  <2>1. \A i \in DOMAIN hist : hist[i] \in R
    BY Unpacked DEF Ended
  <2>2. hist \in Seq(Record)
    BY Unpacked
  <2> HIDE DEF R
  <2>3. QED
    BY <2>1, <2>2
<1>3. R \in SUBSET Record
  OBVIOUS
<1>4. Recorded(h) \in Seq(R)
  <2> HIDE DEF r, R
  <2>1. Add(hist, r) \in Seq(R) /\ \A old : Replace(hist, old, r) \in Seq(R)
    BY <1>1, <1>2, <1>3, AddType, ReplaceType
  <2>2. QED
    BY <2>1, RecordedOK DEF r
<1>5. \A i \in DOMAIN Recorded(h) : Recorded(h)[i] \in R
  <2> HIDE DEF R
  <2>1. QED
    BY <1>4
<1>6. QED
  BY <1>5 DEF Ended

\* a call that moved alone, and was not between the two
LEMMA OthersStill ==
  ASSUME AttentionInv, NEW h \in Handlers, NEW c \in Locals,
         call' = [call EXCEPT ![h] = c], call[h].at \notin Between
  PROVE  \A k \in Handlers : call[k].at \in Between => call'[k] = call[k]
BY DEF AttentionInv, TypeOK

LEMMA CloseRecordExcused ==
  ASSUME AttentionInv, DismissedIsNotWaiting, NEW h \in Handlers, CloseRecord(h)
  PROVE  DismissedIsNotWaiting'
<1> DEFINE id == call[h].id
           at == IF call[h].at = "replacing" THEN "replaced" ELSE "closed"
           c == [call[h] EXCEPT !.at = at]
<1>1. /\ call[h].at \in {"replacing", "closing"} /\ Goto(h, at)
      /\ hist' = Dismiss(hist, id) /\ UNCHANGED <<names, journal, broken>>
  BY DEF CloseRecord
<1>2. at \in Points /\ at \in Between
  BY DEF Points, Between
<1> HIDE DEF at
<1>3. /\ call' = [call EXCEPT ![h] = c] /\ c \in Locals /\ c.at = at /\ c.id = id
  BY <1>1, <1>2, GotoStep
<1> HIDE DEF c
<1>4. Excused(id, broken', call')
  BY <1>2, <1>3 DEF Excused, AttentionInv, TypeOK
<1>5. call[h].at \notin Between
  BY <1>1 DEF Between
<1>6. Ended(hist') \subseteq Ended(hist) \cup {id}
  BY <1>1, Unpacked, EndedMarked
<1>7. QueueIds' \subseteq QueueIds /\ broken \subseteq broken'
  BY <1>1 DEF journal, QueueIds
<1>8. \A k \in Handlers : call[k].at \in Between => call[k].id = id \/ call'[k] = call[k]
  BY <1>3, <1>5, OthersStill
<1> HIDE DEF id
<1>9. QED
  BY <1>4, <1>6, <1>7, <1>8, OneMarked

LEMMA CloseItemExcused ==
  ASSUME AttentionInv, DismissedIsNotWaiting, NEW h \in Handlers, CloseItem(h)
  PROVE  DismissedIsNotWaiting'
<1> DEFINE id == call[h].id
<1>1. /\ hist' = hist
      /\ \E c \in Locals : call' = [call EXCEPT ![h] = c]
      /\ QueueIds' \subseteq QueueIds /\ broken \subseteq broken'
      /\ id \in QueueIds' => id \in broken'
  <2>1. CASE Break(h, {id}) /\ UNCHANGED hist
    BY <2>1, ReturnStep DEF Break, journal, QueueIds
  <2>2. CASE ~(Break(h, {id}) /\ UNCHANGED hist)
    <3> DEFINE at == IF call[h].at = "replaced" THEN "superseding" ELSE "forgetting"
    <3>1. /\ queue' = Q!DropFirst(queue, id) /\ Goto(h, at)
          /\ UNCHANGED <<names, lastID, sent, hist, broken>>
      BY <2>2 DEF CloseItem
    <3>2. at \in Points
      BY DEF Points
    <3> HIDE DEF at
    <3>3. \E c \in Locals : call' = [call EXCEPT ![h] = c]
      BY <3>1, <3>2, GotoStep
    <3>4. QueueIds' \subseteq QueueIds /\ id \notin QueueIds'
      BY <3>1, Unpacked, QueueDrops DEF QueueIds
    <3>5. QED
      BY <3>1, <3>3, <3>4
  <2>3. QED
    BY <2>1, <2>2
<1>2. PICK c \in Locals : call' = [call EXCEPT ![h] = c]
  BY <1>1
<1>3. \A k \in Handlers : call[k].at \in Between => call[k].id = id \/ call'[k] = call[k]
  BY <1>2 DEF AttentionInv, TypeOK
<1>4. Ended(hist') \subseteq Ended(hist) \cup {id}
  BY <1>1
<1>5. id \in QueueIds' => Excused(id, broken', call')
  BY <1>1 DEF Excused
<1> HIDE DEF id
<1>6. QED
  BY <1>1, <1>3, <1>4, <1>5, OneMarked

LEMMA MarkFinishedExcused ==
  ASSUME AttentionInv, DismissedIsNotWaiting, NEW h \in Handlers, MarkFinished(h)
  PROVE  DismissedIsNotWaiting'
<1>1. PICK id \in call[h].todo :
        /\ hist' = Dismiss(hist, id)
        /\ call' = [call EXCEPT ![h].at = "telling", ![h].id = id, ![h].todo = @ \ {id}]
  BY Zenon DEF MarkFinished
<1>2. call[h].at = "marking" /\ UNCHANGED <<names, journal, broken>>
  BY DEF MarkFinished
<1>3. QueueIds' \subseteq QueueIds /\ broken \subseteq broken' /\ id \notin QueueIds'
  BY <1>2, CallFacts DEF CallOK, journal, QueueIds
<1>4. \A k \in Handlers :
        call[k].at \in Between => call[k].id = id \/ call'[k] = call[k]
  BY <1>1, <1>2 DEF AttentionInv, TypeOK, Between
<1>5. Ended(hist') \subseteq Ended(hist) \cup {id}
  BY <1>1, Unpacked, EndedMarked
<1>6. id \in QueueIds' => Excused(id, broken', call')
  BY <1>3
<1>7. QED
  BY <1>3, <1>4, <1>5, <1>6, OneMarked

\* the steps of one call that dismiss nothing
Quietly(h) ==
  /\ \A k \in Handlers : call[k].at \in Between => call'[k] = call[k]
  /\ Ended(hist') \subseteq Ended(hist)
  /\ broken \subseteq broken'

OnlyMoved(h) ==
  /\ call[h].at \notin Between
  /\ \A k \in Handlers : k # h => call'[k] = call[k]
  /\ hist' = hist /\ broken \subseteq broken'

LEMMA MovedQuietly ==
  ASSUME NEW h \in Handlers, OnlyMoved(h)
  PROVE  Quietly(h)
BY DEF OnlyMoved, Quietly

LEMMA QuietSteps ==
  ASSUME AttentionInv, NEW h \in Handlers,
         \/ \E c \in Clients, app \in Apps, n \in Asked \cup {None} : Notify(h, c, app, n)
         \/ NotifySelf(h)
         \/ \E c \in Clients, n \in Given \cup Asked : CloseNotification(h, c, n)
         \/ ForgetClosed(h) \/ ForgetEvicted(h) \/ NameGiven(h) \/ NameAsked(h)
         \/ QueueClear(h) \/ TellSender(h)
  PROVE  Quietly(h) /\ QueueIds' = QueueIds
<1>1. call \in [Handlers -> Locals]
  BY DEF AttentionInv, TypeOK
<1> USE DEF OnlyMoved, Between, journal
<1>2. ASSUME NEW c \in Clients, NEW app \in Apps, NEW n \in Asked \cup {None},
             Notify(h, c, app, n)
      PROVE  OnlyMoved(h) /\ queue' = queue
  <2>1. /\ \E d : call' = [call EXCEPT ![h] = d]
        /\ call[h].at = "idle" /\ UNCHANGED <<journal, hist, broken>>
    BY <1>2, Zenon DEF Notify
  <2>2. QED
    BY <1>1, <2>1
<1>3. ASSUME NEW c \in Clients, NEW n \in Given \cup Asked, CloseNotification(h, c, n)
      PROVE  OnlyMoved(h) /\ queue' = queue
  <2>1. /\ \E d : call' = [call EXCEPT ![h] = d]
        /\ call[h].at = "idle" /\ UNCHANGED <<journal, hist, broken>>
    BY <1>3, Zenon DEF CloseNotification
  <2>2. QED
    BY <1>1, <2>1
<1>4. CASE NotifySelf(h)
  BY <1>1, <1>4, MovedQuietly DEF NotifySelf, QueueIds
<1>5. CASE ForgetClosed(h)
  BY <1>1, <1>5, MovedQuietly DEF ForgetClosed, Return, QueueIds
<1>6. CASE ForgetEvicted(h)
  <2>1. \A k \in Handlers : k # h => call'[k] = call[k]
    BY <1>1, <1>6 DEF ForgetEvicted, Return
  <2>2. OnlyMoved(h) /\ queue' = queue
    BY <1>6, <2>1 DEF ForgetEvicted
  <2>3. QED
    BY <2>2, MovedQuietly DEF QueueIds
<1>7. CASE NameGiven(h)
  BY <1>1, <1>7, MovedQuietly DEF NameGiven, Return, Goto, QueueIds
<1>8. CASE NameAsked(h)
  BY <1>1, <1>8, MovedQuietly DEF NameAsked, Return, QueueIds
<1>9. CASE QueueClear(h)
  BY <1>1, <1>9, MovedQuietly DEF QueueClear, QueueIds
<1>10. CASE TellSender(h)
  BY <1>1, <1>10, MovedQuietly DEF TellSender, Return, Goto, QueueIds
<1>11. QED
  BY <1>2, <1>3, <1>4, <1>5, <1>6, <1>7, <1>8, <1>9, <1>10, MovedQuietly DEF QueueIds

LEMMA QueueQuiet ==
  ASSUME AttentionInv, NEW h \in Handlers,
         \/ Queue(h) \/ ClaimID(h)
         \/ \E id \in 1 .. lastID : QueueDone(h, id)
         \/ ClearQueue(h)
  PROVE  Quietly(h) /\ QueueIds' \subseteq QueueIds \cup {lastID + 1}
<1>1. call \in [Handlers -> Locals]
  BY DEF AttentionInv, TypeOK
<1> USE DEF OnlyMoved, Between, journal
<1>2. ASSUME Break(h, {}), UNCHANGED hist, call[h].at \notin Between
      PROVE  OnlyMoved(h) /\ queue' = queue
  BY <1>1, <1>2 DEF Break, Return
<1>3. ASSUME TakeId(h, "recording"), UNCHANGED <<hist, broken>>, call[h].at \notin Between
      PROVE  OnlyMoved(h)
  BY <1>1, <1>3 DEF TakeId
<1>4. CASE Queue(h)
  <2>1. CASE /\ Q!RoomFor(queue, call[h].from)
             /\ queue' = Append(queue, [id |-> lastID + 1, from |-> call[h].from])
             /\ TakeId(h, "recording") /\ UNCHANGED <<names, hist, broken>>
    <3>1. QueueIds' = QueueIds \cup {lastID + 1}
      BY <2>1, Unpacked, CallFacts, QueueGrows DEF QueueIds
    <3>2. QED
      BY <1>3, <1>4, <2>1, <3>1, MovedQuietly DEF Queue
  <2>2. CASE Goto(h, "claiming") /\ UNCHANGED <<names, journal, hist, broken>>
    BY <1>1, <1>4, <2>2, MovedQuietly DEF Queue, Goto, QueueIds
  <2>3. CASE Break(h, {}) /\ UNCHANGED hist
    BY <1>2, <1>4, <2>3, MovedQuietly DEF Queue, QueueIds
  <2>4. QED
    BY <1>4, <2>1, <2>2, <2>3 DEF Queue
<1>5. CASE ClaimID(h)
  <2>1. OnlyMoved(h) /\ queue' = queue
    BY <1>2, <1>3, <1>5 DEF ClaimID
  <2>2. QED
    BY <2>1, MovedQuietly DEF QueueIds
<1>6. ASSUME NEW id \in 1 .. lastID, QueueDone(h, id)
      PROVE  Quietly(h) /\ QueueIds' \subseteq QueueIds
  <2>1. /\ \E d : call' = [call EXCEPT ![h] = d]
        /\ call[h].at = "idle" /\ queue' = Q!DropFirst(queue, id)
        /\ UNCHANGED <<hist, broken>>
    BY <1>6, Zenon DEF QueueDone
  <2>2. QueueIds' \subseteq QueueIds
    BY <2>1, Unpacked, QueueDrops DEF QueueIds
  <2>3. OnlyMoved(h)
    BY <1>1, <2>1
  <2>4. QED
    BY <2>2, <2>3, MovedQuietly
<1>7. CASE ClearQueue(h)
  <2>1. CASE Break(h, {}) /\ UNCHANGED hist
    BY <1>2, <1>7, <2>1, MovedQuietly DEF ClearQueue, QueueIds
  <2>2. CASE queue' = << >> /\ Goto(h, "marking") /\ UNCHANGED <<hist, broken>>
    <3>1. QueueIds' = {}
      BY <2>2, QueueEmpties DEF QueueIds
    <3>2. OnlyMoved(h)
      BY <1>1, <1>7, <2>2 DEF ClearQueue, Goto
    <3>3. QED
      BY <3>1, <3>2, MovedQuietly
  <2>3. QED
    BY <1>7, <2>1, <2>2 DEF ClearQueue
<1>8. QED
  BY <1>4, <1>5, <1>6, <1>7

LEMMA RecordQuiet ==
  ASSUME AttentionInv, NEW h \in Handlers, RecordArrival(h)
  PROVE  Quietly(h) /\ QueueIds' = QueueIds
<1>1. call[h].at = "recording" /\ hist' = Recorded(h) /\ broken' = broken /\ queue' = queue
  BY DEF RecordArrival, journal
<1>2. \A k \in Handlers : k # h => call'[k] = call[k]
  BY DEF RecordArrival, Return, Goto, AttentionInv, TypeOK
<1>3. Ended(hist') \subseteq Ended(hist)
  BY <1>1, EndedRecorded
<1>4. QED
  BY <1>1, <1>2, <1>3 DEF Quietly, Between, QueueIds

LEMMA AddQuiet ==
  ASSUME AttentionInv, QueueAdd
  PROVE  /\ hist' = hist /\ broken' = broken /\ call' = call
         /\ QueueIds' = QueueIds \cup {lastID + 1}
BY Unpacked, QueueGrows, OursAssumption DEF QueueAdd, QueueIds, From

LEMMA DismissedStep ==
  AttentionInv /\ DismissedIsNotWaiting /\ [Next]_vars => DismissedIsNotWaiting'
<1> SUFFICES ASSUME AttentionInv, DismissedIsNotWaiting, [Next]_vars
             PROVE  DismissedIsNotWaiting'
  OBVIOUS
<1>1. CASE QueueAdd
  BY <1>1, AddQuiet, NoneMarked
<1>2. ASSUME NEW h \in Handlers, CloseRecord(h) \/ CloseItem(h) \/ MarkFinished(h)
      PROVE  DismissedIsNotWaiting'
  BY <1>2, CloseRecordExcused, CloseItemExcused, MarkFinishedExcused
<1>3. ASSUME NEW h \in Handlers,
         \/ \E c \in Clients, app \in Apps, n \in Asked \cup {None} : Notify(h, c, app, n)
         \/ NotifySelf(h)
         \/ \E c \in Clients, n \in Given \cup Asked : CloseNotification(h, c, n)
         \/ ForgetClosed(h) \/ ForgetEvicted(h) \/ NameGiven(h) \/ NameAsked(h)
         \/ QueueClear(h) \/ TellSender(h)
      PROVE  DismissedIsNotWaiting'
  BY <1>3, QuietSteps, NoneMarked DEF Quietly
<1>4. ASSUME NEW h \in Handlers,
             \/ Queue(h) \/ ClaimID(h)
             \/ \E id \in 1 .. lastID : QueueDone(h, id)
             \/ ClearQueue(h)
      PROVE  DismissedIsNotWaiting'
  BY <1>4, QueueQuiet, NoneMarked DEF Quietly
<1>5. ASSUME NEW h \in Handlers, RecordArrival(h)
      PROVE  DismissedIsNotWaiting'
  BY <1>5, RecordQuiet, NoneMarked DEF Quietly
<1>6. CASE UNCHANGED vars
  BY <1>6 DEF vars, DismissedIsNotWaiting, QueueIds
<1>7. QED
  BY <1>1, <1>2, <1>3, <1>4, <1>5, <1>6 DEF Next

\* What the history shows as dismissed does not wait on the queue, but for the call
\* that is between the two and the item whose end the journal could not write
\* (Closed marks before it writes; queueDone and queueClear after).
THEOREM DismissedLeftTheQueue == Spec => []DismissedIsNotWaiting
<1>1. Init => DismissedIsNotWaiting
  BY DEF Init, DismissedIsNotWaiting
<1>2. QED
  BY <1>1, DismissedStep, AttentionInductive, PTL DEF Spec

=============================================================================
