------------------------- MODULE AttnHistoryProofs --------------------------
(***************************************************************************)
(* What holds of the history, its writer and its file for every set of     *)
(* senders, every bound and every number of sessions.                      *)
(***************************************************************************)
EXTENDS AttnHistory, AttnRecordsProofs

(***************************************************************************)
(* The invariant that carries the types and the privacy of the file: every *)
(* record is numbered below the counter, one that arrived private says so  *)
(* for as long as it is in memory, and none of those is in the file or on  *)
(* its way to it.                                                          *)
(***************************************************************************)
Kept == {r \in Record : r.id <= lastID /\ (r.id \in exposed => r.private)}
Writable == {r \in Record : r.id <= lastID /\ r.id \notin exposed}

RecordsInv ==
  /\ exposed \subseteq 1 .. lastID
  /\ hist \in Seq(Kept)
  /\ file \in Seq(Writable)
  /\ writer.taken \in Seq({s \in Seq(Writable) : Len(s) <= SnapshotMax})

HistoryInv == TypeOK /\ RecordsInv

(***************************************************************************)
(* A snapshot of the history may be written, and so may what is in a file  *)
(* be read back into one.                                                  *)
(***************************************************************************)
LEMMA NewestType ==
  ASSUME NEW R, NEW n, NEW s \in Seq(R), 0 \in 0 .. n, \A r \in R : r.id \in 0 .. n
  PROVE  NewestOf(s) \in 0 .. n
BY DEF NewestOf

LEMMA SnapshotWritable ==
  ASSUME HistoryInv
  PROVE  /\ Snapshot(hist) \in Seq(Writable) /\ Snapshot(hist) \in Seq(Record)
         /\ Len(Snapshot(hist)) <= SnapshotMax
         /\ NewestOf(Snapshot(hist)) \in 0 .. MaxId
<1>1. hist \in Seq(Kept) /\ Kept \in SUBSET Record
  BY DEF HistoryInv, RecordsInv, Kept
<1>2. /\ Snapshot(hist) \in Seq({r \in Kept : ~r.private})
      /\ Len(Snapshot(hist)) <= SnapshotMax
  BY <1>1, SnapshotType
<1>3. {r \in Kept : ~r.private} \in SUBSET Writable
  BY DEF Kept, Writable
<1>4. Snapshot(hist) \in Seq(Writable)
  BY <1>2, <1>3, SeqWiden
<1>5. Writable \in SUBSET Record
  BY DEF Writable
<1>6. Snapshot(hist) \in Seq(Record)
  BY <1>4, <1>5, SeqWiden
<1>7. NewestOf(Snapshot(hist)) \in 0 .. MaxId
  <2>1. \A r \in Writable : r.id \in 0 .. MaxId
    BY HistoryLimits DEF HistoryInv, TypeOK, Writable, Record, Ids
  <2>2. 0 \in 0 .. MaxId
    BY HistoryLimits
  <2>3. QED
    BY <1>4, <2>1, <2>2, NewestType
<1>8. QED
  BY <1>2, <1>4, <1>6, <1>7

LEMMA EmptyBounds ==
  /\ \A f : Held(<< >>, f) <= PerSenderMax
  /\ Cardinality(Named(<< >>)) <= SendersMax
<1>1. \A f : Ring(<< >>, f) = {}
  BY DEF Ring
<1>2. Named(<< >>) = {}
  BY <1>1 DEF Named
<1>3. \A f : Held(<< >>, f) = 0
  BY <1>1, FS_EmptySet DEF Held
<1>4. Cardinality(Named(<< >>)) = 0
  BY <1>2, FS_EmptySet
<1>5. QED
  BY <1>3, <1>4, RingsAssumption

LEMMA InitHistory == Init => HistoryInv
<1> SUFFICES ASSUME Init PROVE HistoryInv
  OBVIOUS
<1>1. /\ file \in Seq(Record) /\ Len(file) <= SnapshotMax /\ Len(file) <= MaxId
      /\ \A i \in DOMAIN file : file[i].id = i /\ ~file[i].private
  BY FilesAssumption DEF Init
<1>2. lastID \in 0 .. MaxId /\ lastID = Len(file)
  BY <1>1, HistoryLimits DEF Init
<1>3. \A i \in DOMAIN file : file[i] \in Writable
  BY <1>1, <1>2 DEF Init, Writable
<1>4. file \in Seq(Writable)
  BY <1>1, <1>3
<1>6. /\ \A f \in From : Held(<< >>, f) <= PerSenderMax
      /\ Cardinality(Named(<< >>)) <= SendersMax
  BY EmptyBounds
<1>7. TypeOK
  <2>1. 0 \in 0 .. MaxRev /\ 0 \in 0 .. MaxId
    BY HistoryLimits
  <2>2. /\ written \in [once : BOOLEAN, rev : 0 .. MaxRev]
        /\ writer \in [at : {"waiting", "save", "last", "saved"}, rev : 0 .. MaxRev,
                       taken : Seq(Seq(Record))]
    BY <2>1 DEF Init, Unwritten, Waiting
  <2>3. hist \in Seq(Record) /\ hist = << >>
    BY DEF Init
  <2>4. QED
    BY <1>1, <1>2, <1>6, <2>1, <2>2, <2>3 DEF Init, TypeOK
<1>8. RecordsInv
  BY <1>2, <1>4 DEF Init, RecordsInv, Waiting
<1>9. QED
  BY <1>7, <1>8 DEF HistoryInv

(***************************************************************************)
(* An arrival takes the next number: what was below the counter is still,  *)
(* and so private or writable as it was.                                   *)
(***************************************************************************)
LEMMA CountedKeeps ==
  ASSUME HistoryInv, NEW f \in From, NEW private \in BOOLEAN, Counted(private),
         lastID < MaxId
  PROVE  /\ lastID' \in 0 .. MaxId /\ exposed' \subseteq 1 .. lastID'
         /\ exposed' \subseteq 1 .. MaxId
         /\ Kept \subseteq Kept' /\ Writable \subseteq Writable'
         /\ Arrival(f, private) \in Kept' /\ Kept' \in SUBSET Record
<1>1. /\ lastID \in Nat /\ MaxId \in Nat /\ exposed \subseteq 1 .. lastID
  BY HistoryLimits DEF HistoryInv, TypeOK, RecordsInv
<1>2. /\ lastID' = lastID + 1
      /\ exposed' = IF private THEN exposed \cup {lastID + 1} ELSE exposed
  BY DEF Counted
<1>3. \A r \in Record : r.id \in Nat /\ r.id # 0
  BY DEF Record, Ids
<1>4. lastID' \in 0 .. MaxId /\ exposed' \subseteq 1 .. lastID' /\ exposed' \subseteq 1 .. MaxId
  BY <1>1, <1>2
<1>5. \A r \in Record : r.id <= lastID => (r.id \in exposed' <=> r.id \in exposed)
  BY <1>1, <1>2, <1>3
<1>6. \A r \in Record : r.id <= lastID => r.id <= lastID'
  BY <1>1, <1>2, <1>3
<1>7. Kept \subseteq Kept' /\ Writable \subseteq Writable'
  BY <1>5, <1>6 DEF Kept, Writable
<1>8. Arrival(f, private) \in Record
  BY <1>1 DEF Arrival, Record, Ids
<1>9. Arrival(f, private).id = lastID + 1 /\ Arrival(f, private).private = private
  BY DEF Arrival
<1>10. Arrival(f, private) \in Kept'
  <2>1. lastID + 1 <= lastID' /\ (lastID + 1 \in exposed' => private)
    BY <1>1, <1>2
  <2>2. QED
    BY <1>8, <1>9, <2>1 DEF Kept
<1>11. QED
  BY <1>4, <1>7, <1>10 DEF Kept

LEMMA FileWidens ==
  ASSUME HistoryInv, Writable \subseteq Writable'
  PROVE  /\ file \in Seq(Writable')
         /\ writer.taken \in Seq({s \in Seq(Writable') : Len(s) <= SnapshotMax})
<1>1. file \in Seq(Writable')
  BY SeqWiden DEF HistoryInv, RecordsInv
<1>2. {s \in Seq(Writable) : Len(s) <= SnapshotMax}
        \in SUBSET {s \in Seq(Writable') : Len(s) <= SnapshotMax}
  BY SeqWiden
<1>3. QED
  BY <1>1, <1>2, SeqWiden DEF HistoryInv, RecordsInv

LEMMA ArrivalStep ==
  ASSUME HistoryInv, NEW f \in From, NEW private \in BOOLEAN,
         Serving /\ lastID < MaxId /\ Changed, Counted(private),
         hist' \in Seq(Kept'),
         \A g \in From : Held(hist, g)' <= PerSenderMax,
         Cardinality(Named(hist))' <= SendersMax,
         UNCHANGED <<process, saving, atClose>>
  PROVE  HistoryInv'
<1>1. /\ lastID' \in 0 .. MaxId /\ exposed' \subseteq 1 .. lastID'
      /\ exposed' \subseteq 1 .. MaxId
      /\ Writable \subseteq Writable' /\ Kept' \in SUBSET Record
  BY CountedKeeps
<1>2. /\ file \in Seq(Writable')
      /\ writer.taken \in Seq({s \in Seq(Writable') : Len(s) <= SnapshotMax})
  BY <1>1, FileWidens
<1>3. rev' \in 0 .. MaxRev
  BY HistoryLimits DEF HistoryInv, TypeOK, Changed
<1>4. hist' \in Seq(Record)
  BY <1>1, SeqWiden
<1>5. TypeOK'
  BY <1>1, <1>3, <1>4 DEF HistoryInv, TypeOK, process, saving
<1>6. RecordsInv'
  BY <1>1, <1>2 DEF RecordsInv, process, saving
<1>7. QED
  BY <1>5, <1>6 DEF HistoryInv

LEMMA ArriveStep ==
  ASSUME HistoryInv, NEW f \in From, NEW private \in BOOLEAN, Arrive(f, private)
  PROVE  HistoryInv'
<1> DEFINE r == Arrival(f, private)
<1>1. /\ Kept \subseteq Kept' /\ r \in Kept' /\ Kept' \in SUBSET Record
  BY CountedKeeps DEF Arrive
<1>2. hist \in Seq(Kept') /\ hist \in Seq(Record) /\ r \in Record
  BY <1>1, SeqWiden DEF HistoryInv, RecordsInv, TypeOK
<1>3. hist' = Add(hist, r)
  BY DEF Arrive
<1> HIDE DEF r
<1>4. hist' \in Seq(Kept')
  BY <1>1, <1>2, <1>3, AddType
<1>5. /\ \A g \in From : Held(hist', g) <= PerSenderMax
      /\ Cardinality(Named(hist')) <= SendersMax
  BY <1>2, <1>3, AddBounds
<1>6. QED
  BY <1>4, <1>5, ArrivalStep DEF Arrive

LEMMA ArriveReplacingStep ==
  ASSUME HistoryInv, NEW f \in Apps, NEW private \in BOOLEAN, NEW old \in Addressable,
         ArriveReplacing(f, private, old)
  PROVE  HistoryInv'
<1> DEFINE r == Arrival(f, private)
<1>0. f \in From
  BY DEF From
<1>1. /\ Kept \subseteq Kept' /\ r \in Kept' /\ Kept' \in SUBSET Record
  BY <1>0, CountedKeeps DEF ArriveReplacing
<1>2. hist \in Seq(Kept') /\ hist \in Seq(Record) /\ r \in Record
  BY <1>1, SeqWiden DEF HistoryInv, RecordsInv, TypeOK
<1>3. hist' = Replace(hist, old, r)
  BY DEF ArriveReplacing
<1> HIDE DEF r
<1>4. hist' \in Seq(Kept')
  BY <1>1, <1>2, <1>3, ReplaceType
<1>5. /\ \A g \in From : Held(hist', g) <= PerSenderMax
      /\ Cardinality(Named(hist')) <= SendersMax
  BY <1>2, <1>3, ReplaceBounds
<1>6. QED
  BY <1>0, <1>4, <1>5, ArrivalStep DEF ArriveReplacing

LEMMA DismissStep ==
  ASSUME HistoryInv, NEW id, DismissRecord(id)
  PROVE  HistoryInv'
<1>1. hist \in Seq(Kept) /\ Kept \in SUBSET Record /\ hist \in Seq(Record)
  BY DEF HistoryInv, RecordsInv, Kept, TypeOK
<1>2. \A r \in Kept : [r EXCEPT !.dismissed = TRUE] \in Kept
  BY DEF Kept, Record
<1>3. hist' \in Seq(Kept)
  BY <1>1, <1>2, DismissType DEF DismissRecord
<1>4. Kept' = Kept /\ Writable' = Writable
  BY DEF Kept, Writable, DismissRecord
<1>5. hist' \in Seq(Record)
  BY <1>1, <1>3, SeqWiden
<1>6. /\ \A g \in From : Held(hist', g) <= PerSenderMax
      /\ Cardinality(Named(hist')) <= SendersMax
  BY <1>1, DismissRings DEF HistoryInv, TypeOK, DismissRecord
<1>7. rev' \in 0 .. MaxRev
  BY HistoryLimits DEF HistoryInv, TypeOK, DismissRecord, Changed
<1>8. TypeOK'
  BY <1>5, <1>6, <1>7 DEF HistoryInv, TypeOK, DismissRecord, process, saving
<1>9. RecordsInv'
  BY <1>3, <1>4 DEF HistoryInv, RecordsInv, DismissRecord, process, saving
<1>10. QED
  BY <1>8, <1>9 DEF HistoryInv

LEMMA StartStep ==
  ASSUME HistoryInv, Start
  PROVE  HistoryInv'
<1>1. file \in Seq(Writable) /\ file \in Seq(Record)
  BY DEF HistoryInv, RecordsInv, TypeOK
<1>2. Kept' = Kept /\ Writable' = Writable
  BY DEF Kept, Writable, Start
<1>3. Read(file) \in Seq(Kept)
  <2>1. /\ Read(file) \in Seq(Record) /\ DOMAIN Read(file) = DOMAIN file
        /\ \A i \in DOMAIN file : Read(file)[i].id = file[i].id
    BY <1>1, ReadType
  <2>2. \A i \in DOMAIN file : file[i].id <= lastID /\ file[i].id \notin exposed
    BY <1>1 DEF Writable
  <2>3. \A i \in DOMAIN Read(file) : Read(file)[i] \in Kept
    BY <2>1, <2>2 DEF Kept
  <2>4. QED
    BY <2>1, <2>3
<1>4. /\ hist' \in Seq(Kept)
      /\ \A f \in From : Held(hist', f) <= PerSenderMax
      /\ Cardinality(Named(hist')) <= SendersMax
  <2>1. << >> \in Seq(Kept) /\ Kept \in SUBSET Record
    BY DEF Kept
  <2>2. QED
    BY <1>3, <2>1, RestoreBounds DEF Start
<1>5. hist' \in Seq(Record)
  <2>1. Kept \in SUBSET Record
    BY DEF Kept
  <2>2. QED
    BY <1>4, <2>1, SeqWiden
<1>6. rev' \in 0 .. MaxRev
  BY HistoryLimits DEF Start
<1>7. TypeOK'
  BY <1>4, <1>5, <1>6 DEF HistoryInv, TypeOK, Start, saving
<1>8. RecordsInv'
  BY <1>2, <1>4 DEF HistoryInv, RecordsInv, Start, saving
<1>9. QED
  BY <1>7, <1>8 DEF HistoryInv

LEMMA EndedStep ==
  ASSUME HistoryInv, Ended
  PROVE  HistoryInv'
<1>1. Kept' = Kept /\ Writable' = Writable
  BY DEF Kept, Writable, Ended
<1>2. /\ \A f \in From : Held(<< >>, f) <= PerSenderMax
      /\ Cardinality(Named(<< >>)) <= SendersMax
  BY EmptyBounds
<1>3. hist' = << >> /\ rev' = 0 /\ written' = Unwritten /\ writer' = Waiting
  BY DEF Ended
<1>4. TypeOK'
  <2>1. 0 \in 0 .. MaxRev /\ 0 \in 0 .. MaxId
    BY HistoryLimits
  <2>2. /\ written' \in [once : BOOLEAN, rev : 0 .. MaxRev]
        /\ writer' \in [at : {"waiting", "save", "last", "saved"}, rev : 0 .. MaxRev,
                        taken : Seq(Seq(Record))]
    BY <1>3, <2>1 DEF Unwritten, Waiting
  <2>3. hist' \in Seq(Record)
    BY <1>3
  <2>4. QED
    BY <1>2, <1>3, <2>1, <2>2, <2>3 DEF HistoryInv, TypeOK, Ended
<1>5. RecordsInv'
  BY <1>1, <1>3 DEF HistoryInv, RecordsInv, Ended, Waiting
<1>6. QED
  BY <1>4, <1>5 DEF HistoryInv

\* a signal, a listener that failed, srv.Close returning: the records stay
LEMMA ProcessStep ==
  ASSUME HistoryInv, Signal \/ ListenerFails \/ CloseReturns
  PROVE  HistoryInv'
<1>1. /\ UNCHANGED <<records, saving>>
      /\ phase' \in {"down", "serving", "stopping", "closed"}
      /\ cancelled' \in BOOLEAN /\ atClose' \in 0 .. MaxId
  BY SnapshotWritable DEF Signal, ListenerFails, CloseReturns, HistoryInv, TypeOK
<1>2. Kept' = Kept /\ Writable' = Writable
  BY <1>1 DEF Kept, Writable, records
<1>3. TypeOK'
  BY <1>1 DEF HistoryInv, TypeOK, records, saving
<1>4. RecordsInv'
  BY <1>1, <1>2 DEF HistoryInv, RecordsInv, records, saving
<1>5. QED
  BY <1>3, <1>4 DEF HistoryInv

\* a step of the writer, which touches the file and its own notes
LEMMA WriterStep ==
  ASSUME HistoryInv,
         (\E final \in BOOLEAN : Begin(final)) \/ Take \/ Write \/ WriteFails
  PROVE  HistoryInv'
<1> DEFINE Taken == Seq({s \in Seq(Writable) : Len(s) <= SnapshotMax})
           W == [at : {"waiting", "save", "last", "saved"}, rev : 0 .. MaxRev,
                 taken : Seq(Seq(Record))]
           N == [once : BOOLEAN, rev : 0 .. MaxRev]
<1>1. /\ UNCHANGED <<process, records, atClose>>
      /\ writer \in W /\ writer.taken \in Taken
      /\ written \in N /\ rev \in 0 .. MaxRev
      /\ file \in Seq(Writable) /\ file \in Seq(Record) /\ Len(file) <= SnapshotMax
  BY DEF HistoryInv, RecordsInv, TypeOK, Begin, Take, Write, WriteFails
<1>2. \A final \in BOOLEAN : AfterSave(final) \in W /\ AfterSave(final).taken = << >>
  <2>1. 0 \in 0 .. MaxRev
    BY HistoryLimits
  <2>2. \A final \in BOOLEAN :
          AfterSave(final) \in {[at |-> "waiting", rev |-> 0, taken |-> << >>],
                               [at |-> "saved", rev |-> 0, taken |-> << >>]}
    BY DEF AfterSave, Waiting
  <2>3. \A w \in {[at |-> "waiting", rev |-> 0, taken |-> << >>],
                 [at |-> "saved", rev |-> 0, taken |-> << >>]} :
          w \in W /\ w.taken = << >>
    <3>1. << >> \in Seq(Seq(Record))
      OBVIOUS
    <3>2. /\ [at |-> "waiting", rev |-> 0, taken |-> << >>] \in W
          /\ [at |-> "saved", rev |-> 0, taken |-> << >>] \in W
      BY <2>1, <3>1
    <3> HIDE DEF W
    <3>3. QED
      BY <3>2
  <2>4. QED
    BY <2>2, <2>3
<1>3. << >> \in Taken
  OBVIOUS
<1>4. ASSUME writer.taken # << >>
      PROVE  /\ writer.taken[1] \in Seq(Writable) /\ writer.taken[1] \in Seq(Record)
             /\ Len(writer.taken[1]) <= SnapshotMax
  BY <1>1, <1>4
<1>5. /\ writer' \in W /\ writer'.taken \in Taken
      /\ written' \in N
      /\ file' \in Seq(Writable) /\ file' \in Seq(Record) /\ Len(file') <= SnapshotMax
  <2>1. CASE \E final \in BOOLEAN : Begin(final)
    <3>1. PICK final \in BOOLEAN : Begin(final)
      BY <2>1
    <3>2. /\ writer' \in {AfterSave(final),
                          [at |-> IF final THEN "last" ELSE "save", rev |-> rev,
                           taken |-> << >>]}
          /\ UNCHANGED <<written, file>>
      BY <3>1 DEF Begin
    <3>3. [at |-> IF final THEN "last" ELSE "save", rev |-> rev, taken |-> << >>] \in W
      BY <1>1
    <3> HIDE DEF Taken, W
    <3>4. QED
      BY <1>1, <1>2, <1>3, <3>2, <3>3
  <2>2. CASE Take
    <3> DEFINE w == [writer EXCEPT !.taken = << Snapshot(hist) >>]
    <3>1. writer' = w /\ UNCHANGED <<written, file>>
      BY <2>2 DEF Take
    <3>2. /\ Snapshot(hist) \in Seq(Writable) /\ Snapshot(hist) \in Seq(Record)
          /\ Len(Snapshot(hist)) <= SnapshotMax
      BY SnapshotWritable
    <3>3. << Snapshot(hist) >> \in Seq(Seq(Record)) /\ << Snapshot(hist) >> \in Taken
      BY <3>2
    <3>4. w \in W /\ w.taken = << Snapshot(hist) >>
      BY <1>1, <3>3
    <3> HIDE DEF Taken, W, w
    <3>5. QED
      BY <1>1, <3>1, <3>3, <3>4
  <2>3. CASE Write
    <3>1. /\ file' = writer.taken[1] /\ writer.taken # << >>
          /\ written' = [once |-> TRUE, rev |-> writer.rev]
          /\ \E final \in BOOLEAN : writer' = AfterSave(final)
      BY <2>3 DEF Write
    <3>2. written' \in N
      BY <1>1, <3>1
    <3> HIDE DEF Taken, W
    <3>3. QED
      BY <1>1, <1>2, <1>3, <1>4, <3>1, <3>2
  <2>4. CASE WriteFails
    <3>1. /\ UNCHANGED <<written, file>>
          /\ \E final \in BOOLEAN : writer' = AfterSave(final)
      BY <2>4 DEF WriteFails
    <3> HIDE DEF Taken, W
    <3>2. QED
      BY <1>1, <1>2, <1>3, <3>1
  <2>5. QED
    BY <2>1, <2>2, <2>3, <2>4
<1>6. Kept' = Kept /\ Writable' = Writable
  BY <1>1 DEF Kept, Writable, records
<1>7. TypeOK'
  BY <1>1, <1>5 DEF HistoryInv, TypeOK, records, process
<1>8. RecordsInv'
  BY <1>1, <1>5, <1>6 DEF HistoryInv, RecordsInv, records
<1>9. QED
  BY <1>7, <1>8 DEF HistoryInv

THEOREM HistoryInductive == Spec => []HistoryInv
<1>1. ASSUME HistoryInv, [Next]_vars
      PROVE  HistoryInv'
  <2>1. CASE Start
    BY <1>1, <2>1, StartStep
  <2>2. CASE Signal \/ ListenerFails \/ CloseReturns
    BY <1>1, <2>2, ProcessStep
  <2>3. CASE Exit \/ Crash
    BY <1>1, <2>3, EndedStep DEF Exit, Crash
  <2>4. ASSUME NEW f \in From, NEW private \in BOOLEAN, Arrive(f, private)
        PROVE  HistoryInv'
    BY <1>1, <2>4, ArriveStep
  <2>5. ASSUME NEW f \in Apps, NEW private \in BOOLEAN, NEW old \in Addressable,
               ArriveReplacing(f, private, old)
        PROVE  HistoryInv'
    BY <1>1, <2>5, ArriveReplacingStep
  <2>6. ASSUME NEW id \in HistoryIds(hist), DismissRecord(id)
        PROVE  HistoryInv'
    BY <1>1, <2>6, DismissStep
  <2>7. CASE (\E final \in BOOLEAN : Begin(final)) \/ Take \/ Write \/ WriteFails
    BY <1>1, <2>7, WriterStep
  <2>8. CASE UNCHANGED vars
    BY <1>1, <2>8 DEF vars, HistoryInv, TypeOK, RecordsInv, Kept, Writable
  <2>9. QED
    BY <1>1, <2>1, <2>2, <2>3, <2>4, <2>5, <2>6, <2>7, <2>8 DEF Next
<1>2. QED
  BY <1>1, InitHistory, PTL DEF Spec

(***************************************************************************)
(* The history and its file are well typed, and both bounds of the history *)
(* hold, for every number of senders, of sessions and of replacements.     *)
(***************************************************************************)
THEOREM HistoryTypes == Spec => []TypeOK
<1>1. HistoryInv => TypeOK
  BY DEF HistoryInv
<1>2. QED
  BY <1>1, HistoryInductive, PTL

(***************************************************************************)
(* No record that arrived private reaches the file, in any session.        *)
(***************************************************************************)
THEOREM PrivacyKept == Spec => []PrivateStaysInMemory
<1>1. HistoryInv => PrivateStaysInMemory
  <2> SUFFICES ASSUME HistoryInv
               PROVE  PrivateStaysInMemory
    OBVIOUS
  <2>1. \A s \in Seq(Writable) : HistoryIds(s) \cap exposed = {}
    <3>1. \A r \in Writable : r.id \notin exposed
      BY DEF Writable
    <3>2. QED
      BY <3>1 DEF HistoryIds
  <2>2. file \in Seq(Writable)
    BY DEF HistoryInv, RecordsInv
  <2>3. writer.taken # << >> => writer.taken[1] \in Seq(Writable)
    BY DEF HistoryInv, RecordsInv
  <2>4. QED
    BY <2>1, <2>2, <2>3 DEF PrivateStaysInMemory
<1>2. QED
  BY <1>1, HistoryInductive, PTL

-----------------------------------------------------------------------------
(***************************************************************************)
(* The invariant behind the skipped save: what was noted of the file, and  *)
(* what a save under way has taken, is no newer than the history, and when *)
(* it is as new the records are the history's.  A process that is down has *)
(* noted nothing.                                                          *)
(***************************************************************************)
NotesInv ==
  /\ phase = "down" => written = Unwritten /\ writer = Waiting /\ rev = 0
  /\ written.rev <= rev
  /\ written.once /\ written.rev = rev => file = Snapshot(hist)
  /\ writer.rev <= rev
  /\ writer.taken # << >> /\ writer.rev = rev => writer.taken[1] = Snapshot(hist)

LEMMA NoteTypes ==
  ASSUME HistoryInv
  PROVE  rev \in Nat /\ written.rev \in Nat /\ writer.rev \in Nat
BY HistoryLimits DEF HistoryInv, TypeOK

\* whatever changes the history in a session moves the revision past every note
LEMMA ChangedNotes ==
  ASSUME HistoryInv, NotesInv, Serving, Changed, UNCHANGED <<process, saving>>
  PROVE  NotesInv'
<1>1. rev' = rev + 1 /\ phase # "down" /\ phase' = phase
  BY DEF Changed, Serving, process
<1>2. written'.rev <= rev /\ writer'.rev <= rev
  BY DEF NotesInv, saving
<1>3. rev \in Nat /\ written'.rev \in Nat /\ writer'.rev \in Nat
  BY NoteTypes DEF saving
<1>4. written'.rev <= rev' /\ writer'.rev <= rev' /\ written'.rev # rev' /\ writer'.rev # rev'
  BY <1>1, <1>2, <1>3
<1>5. QED
  BY <1>1, <1>4 DEF NotesInv

LEMMA WriterNotes ==
  ASSUME HistoryInv, NotesInv,
         (\E final \in BOOLEAN : Begin(final)) \/ Take \/ Write \/ WriteFails
  PROVE  NotesInv'
<1>1. rev' = rev /\ phase' = phase /\ hist' = hist
  BY DEF Begin, Take, Write, WriteFails, process, records
<1>2. /\ rev \in Nat /\ writer.rev <= rev /\ written.rev <= rev
      /\ written.once /\ written.rev = rev => file = Snapshot(hist)
      /\ writer.taken # << >> /\ writer.rev = rev => writer.taken[1] = Snapshot(hist)
  BY NoteTypes DEF NotesInv
<1>3. phase # "down"
  BY DEF NotesInv, Begin, Take, Write, WriteFails, Serving, Waiting
<1>4. \A final \in BOOLEAN : AfterSave(final).rev = 0 /\ AfterSave(final).taken = << >>
  BY DEF AfterSave, Waiting
<1>5. CASE \E final \in BOOLEAN : Begin(final)
  <2>1. /\ UNCHANGED <<written, file>>
        /\ writer'.rev \in {0, rev} /\ writer'.taken = << >>
    BY <1>4, <1>5 DEF Begin
  <2>2. QED
    BY <1>1, <1>2, <1>3, <2>1 DEF NotesInv
<1>6. CASE Take
  <2>1. /\ UNCHANGED <<written, file>>
        /\ writer'.rev = writer.rev /\ writer'.taken = << Snapshot(hist) >>
    BY <1>6 DEF Take, HistoryInv, TypeOK
  <2>2. QED
    BY <1>1, <1>2, <1>3, <2>1 DEF NotesInv
<1>7. CASE Write
  <2>1. /\ file' = writer.taken[1] /\ writer.taken # << >>
        /\ written'.rev = writer.rev
        /\ writer'.rev = 0 /\ writer'.taken = << >>
    BY <1>4, <1>7 DEF Write
  <2>2. QED
    BY <1>1, <1>2, <1>3, <2>1 DEF NotesInv
<1>8. CASE WriteFails
  <2>1. /\ UNCHANGED <<written, file>>
        /\ writer'.rev = 0 /\ writer'.taken = << >>
    BY <1>4, <1>8 DEF WriteFails
  <2>2. QED
    BY <1>1, <1>2, <1>3, <2>1 DEF NotesInv
<1>9. QED
  BY <1>5, <1>6, <1>7, <1>8

(***************************************************************************)
(* A save that would be skipped is one the file does not need, for every   *)
(* order of arrivals, saves, failures and restarts.                        *)
(***************************************************************************)
THEOREM SkipIsSafe == Spec => []SkippedIsCurrent
<1>1. Init => NotesInv
  BY DEF Init, NotesInv, Unwritten, Waiting
<1>2. ASSUME HistoryInv, NotesInv, [Next]_vars
      PROVE  NotesInv'
  <2>1. CASE Start
    <3>1. /\ written' = Unwritten /\ writer' = Waiting /\ rev' \in {0, 1}
          /\ phase' = "serving"
      BY <1>2, <2>1 DEF Start, NotesInv, saving
    <3>2. QED
      BY <3>1 DEF NotesInv, Unwritten, Waiting
  <2>2. CASE Signal \/ ListenerFails \/ CloseReturns
    BY <1>2, <2>2
    DEF Signal, ListenerFails, CloseReturns, NotesInv, records, saving
  <2>3. CASE Exit \/ Crash
    BY <2>3 DEF Exit, Crash, Ended, NotesInv, Unwritten, Waiting
  <2>4. ASSUME NEW f \in From, NEW private \in BOOLEAN, Arrive(f, private)
        PROVE  NotesInv'
    BY <1>2, <2>4, ChangedNotes DEF Arrive
  <2>5. ASSUME NEW f \in Apps, NEW private \in BOOLEAN, NEW old \in Addressable,
               ArriveReplacing(f, private, old)
        PROVE  NotesInv'
    BY <1>2, <2>5, ChangedNotes DEF ArriveReplacing
  <2>6. ASSUME NEW id \in HistoryIds(hist), DismissRecord(id)
        PROVE  NotesInv'
    BY <1>2, <2>6, ChangedNotes DEF DismissRecord
  <2>7. CASE (\E final \in BOOLEAN : Begin(final)) \/ Take \/ Write \/ WriteFails
    BY <1>2, <2>7, WriterNotes
  <2>8. CASE UNCHANGED vars
    BY <1>2, <2>8 DEF vars, NotesInv
  <2>9. QED
    BY <1>2, <2>1, <2>2, <2>3, <2>4, <2>5, <2>6, <2>7, <2>8 DEF Next
<1>3. NotesInv => SkippedIsCurrent
  BY DEF NotesInv, SkippedIsCurrent
<1>4. QED
  BY <1>1, <1>2, <1>3, HistoryInductive, PTL DEF Spec

(***************************************************************************)
(* What an arrival costs a history within its bounds.                      *)
(***************************************************************************)
LEMMA AddCostsLeast ==
  ASSUME NEW h \in Seq(Record), NEW r \in Record, Bounded(h)
  PROVE  CostsLeast(h, Add(h, r), r.from)
<1> DEFINE a == r.from
           b == Append(h, r)
           t == Trimmed(b)
           S == {a}
           D == Dropped(t, S)
           new == Add(h, r)
           gone == Evicted(h, new, a)
<1>1. /\ b \in Seq(Record) /\ DOMAIN h \subseteq DOMAIN b
      /\ \A i \in DOMAIN h : b[i] = h[i]
  OBVIOUS
<1>2. /\ t \in Seq(Record)
      /\ D # {} => /\ a \in Apps \ Named(h) /\ Cardinality(Named(h)) = SendersMax
                   /\ Extra(t) <= 1
  BY DroppedOnlyFull
<1>3. \A f \in From \ S : /\ Ring(b, f) = Ring(h, f) /\ Ring(b, f) \subseteq TrimKeep(b)
                          /\ Held(t, f) = Held(h, f)
                          /\ Ring(t, f) = {} <=> Ring(h, f) = {}
  BY OthersTrimmed
<1>4. new = DropExtraSenders(t, S)
  BY DEF Add
<1>5. t = At(b, TrimKeep(b)) /\ TrimKeep(b) \in SUBSET DOMAIN b
  BY <1>1, TrimmedAt
<1>6. \A f \in From : Held(h, f) \in Nat /\ (Held(h, f) = 0 <=> Ring(h, f) = {})
  BY RingPlaces
<1>7. D \in SUBSET (Apps \ S)
  BY DEF Dropped, Named
<1> HIDE DEF b, t
<1>8. \A f : /\ f \in D => Held(new, f) = 0
             /\ f \notin D => Held(new, f) = Held(t, f)
  BY <1>2, <1>4, DroppedRings
<1> HIDE DEF new, D
<1>9. gone \in SUBSET D
  <2> SUFFICES ASSUME NEW f \in From \ S, Held(h, f) > 0, Held(new, f) = 0
               PROVE  f \in D
    BY DEF Evicted
  <2>1. Held(h, f) \in Nat /\ Held(t, f) = Held(h, f)
    BY <1>3, <1>6
  <2>2. Held(new, f) # Held(t, f)
    BY <2>1
  <2>3. QED
    BY <1>8, <2>2
<1>10. \A f \in D : Ring(h, f) # {} => f \in gone
  <2> SUFFICES ASSUME NEW f \in D, Ring(h, f) # {}
               PROVE  f \in gone
    OBVIOUS
  <2>1. f \in From \ S
    BY <1>7 DEF From
  <2>2. Held(h, f) > 0
    BY <1>6, <2>1
  <2>3. QED
    BY <1>8, <2>1, <2>2 DEF Evicted
<1> HIDE DEF gone
<1>11. gone # {} => a \in Apps \ Named(h) /\ Cardinality(Named(h)) = SendersMax
  BY <1>2, <1>9
<1>12. gone \subseteq Apps
  BY <1>7, <1>9
<1>13. ASSUME NEW f \in gone, NEW g \in Named(h) \ {f}
       PROVE  \/ Held(h, f) < Held(h, g)
              \/ Held(h, f) = Held(h, g) /\ Latest(h, f) < Latest(h, g)
  <2>1. /\ f \in D /\ f \in From \ S /\ g \in From \ S /\ g \in Apps
        /\ Extra(t) <= 1 /\ Ring(h, g) # {}
    BY <1>2, <1>7, <1>9, <1>11, <1>13 DEF Named, From
  <2>2. Ring(h, f) # {}
    <3>1. Held(h, f) > 0
      BY <1>13 DEF gone, Evicted
    <3>2. QED
      BY <1>6, <2>1, <3>1
  <2>3. g \in Named(t) \ S
    BY <1>3, <2>1 DEF Named
  <2>4. Cheaper(t, f, g)
    BY <1>2, <1>13, <2>1, <2>3, CheapestGoes DEF D
  <2>5. Held(t, f) = Held(h, f) /\ Held(t, g) = Held(h, g)
    BY <1>3, <2>1
  <2>6. ASSUME Latest(t, f) < Latest(t, g)
        PROVE  Latest(h, f) < Latest(h, g)
    <3>1. /\ Ring(b, f) # {} /\ Ring(b, f) \subseteq TrimKeep(b)
          /\ Ring(b, g) # {} /\ Ring(b, g) \subseteq TrimKeep(b)
      BY <1>3, <2>1, <2>2
    <3>2. Latest(At(b, TrimKeep(b)), f) < Latest(At(b, TrimKeep(b)), g)
      BY <1>5, <2>6
    <3>3. Latest(b, f) < Latest(b, g)
      BY <1>1, <1>5, <3>1, <3>2, LatestOrder
    <3>4. Latest(b, f) = Latest(h, f) /\ Latest(b, g) = Latest(h, g)
      BY <1>3, <2>1 DEF Latest
    <3>5. QED
      BY <3>3, <3>4
  <2>7. QED
    BY <2>4, <2>5, <2>6 DEF Cheaper
<1>14. ASSUME NEW i \in DOMAIN h, h[i].id \notin HistoryIds(new)
       PROVE  \/ h[i].from \in gone
              \/ /\ h[i].from = a /\ Held(h, a) = PerSenderMax
                 /\ \A j \in Ring(h, a) : i <= j
  <2>1. h[i].from \in From /\ i \in DOMAIN b /\ b[i] = h[i]
    <3>1. h[i] \in Record
      OBVIOUS
    <3>2. \A x \in Record : x.from \in From
      BY DEF Record
    <3>3. QED
      BY <1>1, <3>1, <3>2
  <2>2. i \in Ring(h, h[i].from)
    BY DEF Ring
  <2>3. CASE i \in TrimKeep(b)
    <3>1. PICK n \in DOMAIN t : t[n] = h[i]
      BY <1>1, <1>5, <2>1, <2>3, AtRecords
    <3>2. n \notin DropKeep(t, S)
      <4>1. /\ new = At(t, DropKeep(t, S)) /\ DropKeep(t, S) \in SUBSET DOMAIN t
        BY <1>2, <1>4, DropExtraAt
      <4>2. HistoryIds(new) = {t[m].id : m \in DropKeep(t, S)}
        BY <1>2, <4>1, IdsAt
      <4>3. QED
        BY <1>14, <3>1, <4>2
    <3>3. h[i].from \in D
      BY <3>1, <3>2 DEF DropKeep, D
    <3>4. QED
      BY <1>10, <2>2, <3>3
  <2>4. CASE i \notin TrimKeep(b)
    <3>1. h[i].from = a
      BY <1>3, <2>1, <2>2, <2>4
    <3>2. Held(h, a) <= PerSenderMax /\ i \in Ring(h, a)
      BY <2>2, <3>1 DEF Bounded, Record
    <3>3. QED
      BY <2>4, <3>1, <3>2, OldestTrimmed DEF b
  <2>5. QED
    BY <2>3, <2>4
<1>15. QED
  BY <1>11, <1>12, <1>13, <1>14 DEF CostsLeast, gone, new

(***************************************************************************)
(* What an arrival costs is the least in every reachable state, for every  *)
(* number of senders and every size of the rings: by type correctness both *)
(* bounds held before it, and a record taken out leaves them.              *)
(***************************************************************************)
THEOREM EvictionIsFair == Spec => EvictsCheapest
<1> DEFINE Fair(a, private) ==
      Arrive(a, private) =>
        lastID' \in HistoryIds(hist') /\ CostsLeast(hist, hist', a)
    FairReplacing(a, private, old) ==
      ArriveReplacing(a, private, old) =>
        lastID' \in HistoryIds(hist') /\ CostsLeast(Removed(hist, old), hist', a)
<1>1. ASSUME HistoryInv, NEW a \in From, NEW private \in BOOLEAN, Counted(private),
             lastID < MaxId
      PROVE  /\ Arrival(a, private) \in Record /\ Arrival(a, private).from = a
             /\ Arrival(a, private).id = lastID'
             /\ hist \in Seq(Record) /\ Bounded(hist)
  BY <1>1, CountedKeeps DEF Arrival, Counted, HistoryInv, TypeOK, Bounded
<1>2. ASSUME HistoryInv, NEW a \in From, NEW private \in BOOLEAN
      PROVE  Fair(a, private)
  <2> SUFFICES ASSUME Arrive(a, private)
               PROVE  lastID' \in HistoryIds(hist') /\ CostsLeast(hist, hist', a)
    OBVIOUS
  <2> DEFINE r == Arrival(a, private)
  <2>1. /\ r \in Record /\ r.from = a /\ r.id = lastID'
        /\ hist \in Seq(Record) /\ Bounded(hist)
    BY <1>1, <1>2 DEF Arrive
  <2>2. hist' = Add(hist, r)
    BY DEF Arrive
  <2> HIDE DEF r
  <2>3. lastID' \in HistoryIds(hist')
    BY <2>1, <2>2, NewcomerKept
  <2>4. CostsLeast(hist, hist', a)
    BY <2>1, <2>2, AddCostsLeast
  <2>5. QED
    BY <2>3, <2>4
<1>3. ASSUME HistoryInv, NEW a \in Apps, NEW private \in BOOLEAN, NEW old \in Addressable
      PROVE  FairReplacing(a, private, old)
  <2> SUFFICES ASSUME ArriveReplacing(a, private, old)
               PROVE  /\ lastID' \in HistoryIds(hist')
                      /\ CostsLeast(Removed(hist, old), hist', a)
    OBVIOUS
  <2> DEFINE r == Arrival(a, private)
  <2>1. /\ r \in Record /\ r.from = a /\ r.id = lastID'
        /\ hist \in Seq(Record) /\ Bounded(hist)
    BY <1>1, <1>3 DEF ArriveReplacing, From
  <2>2. hist' = Add(Removed(hist, old), r)
    BY DEF ArriveReplacing, Replace
  <2> HIDE DEF r
  <2>3. Removed(hist, old) \in Seq(Record) /\ Bounded(Removed(hist, old))
    BY <2>1, RemovedBounds
  <2>4. lastID' \in HistoryIds(hist')
    BY <2>1, <2>2, <2>3, NewcomerKept
  <2>5. CostsLeast(Removed(hist, old), hist', a)
    BY <2>1, <2>2, <2>3, AddCostsLeast
  <2>6. QED
    BY <2>4, <2>5
<1>4. HistoryInv =>
        [/\ \A a \in From, private \in BOOLEAN : Fair(a, private)
         /\ \A a \in Apps, private \in BOOLEAN, old \in Addressable :
              FairReplacing(a, private, old)]_vars
  BY <1>2, <1>3
<1>5. QED
  BY <1>4, HistoryInductive, PTL DEF EvictsCheapest

=============================================================================
