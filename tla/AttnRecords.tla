---------------------------- MODULE AttnRecords -----------------------------
(***************************************************************************)
(* The notification history as a value (internal/attn: History, its rings  *)
(* and its snapshot).  Shared by AttnHistory, which gives it a daemon and  *)
(* a disk, and by Attention, which gives it the bus.                       *)
(*                                                                         *)
(* The rings are one sequence in the order of their seq numbers, oldest    *)
(* first: what was restored, then what arrived.  A ring is what a sender   *)
(* has in it.  Text, bodies, actions and times are payload.                *)
(***************************************************************************)
EXTENDS Integers, Sequences, FiniteSets, SequencesExt

CONSTANTS
  Apps,          \* sender names an app can claim
  Ours,          \* nobody and SelfFrom: neither counted nor evicted
  PerSenderMax,  \* records a ring holds
  SendersMax,    \* rings the apps hold between them
  SnapshotMax    \* records the file holds

ASSUME AppsAssumption == IsFiniteSet(Apps) /\ Apps \cap Ours = {}
ASSUME RingsAssumption ==
  PerSenderMax \in Nat \ {0} /\ SendersMax \in Nat \ {0} /\ SnapshotMax \in Nat

From == Apps \cup Ours
Ids == Nat \ {0}

Record == [id : Ids, from : From, private : BOOLEAN, dismissed : BOOLEAN,
           restored : BOOLEAN]

HistoryIds(h) == {h[i].id : i \in DOMAIN h}

Ring(h, f) == {i \in DOMAIN h : h[i].from = f}
Held(h, f) == Cardinality(Ring(h, f))
Latest(h, f) == CHOOSE i \in Ring(h, f) : \A j \in Ring(h, f) : j <= i

\* the names counted against SendersMax
Named(h) == {f \in Apps : Ring(h, f) # {}}

\* the records at the places in keep, in their order: the n-th is the one at the
\* place with n places of keep up to it
Rank(keep, i) == Cardinality(keep \cap 1 .. i)
Nth(keep, n)  == CHOOSE i \in keep : Rank(keep, i) = n
At(h, keep)   == [n \in 1 .. Cardinality(keep) |-> h[Nth(keep, n)]]

\* each ring down to its newest PerSenderMax (the trims in add and prepend)
Trimmed(h) ==
  At(h, {i \in DOMAIN h :
           Cardinality({j \in Ring(h, h[i].from) : j >= i}) <= PerSenderMax})

-----------------------------------------------------------------------------
(***************************************************************************)
(* dropExtraSenders: the cheapest ring first, and of two as cheap the one  *)
(* heard from longest ago; never the one that just arrived, nor ours.      *)
(***************************************************************************)
\* mutant: least recently heard from first, whatever it holds
CheaperByAge(h, f, g) == Latest(h, f) < Latest(h, g)

Cheaper(h, f, g) ==
  \/ Held(h, f) < Held(h, g)
  \/ Held(h, f) = Held(h, g) /\ Latest(h, f) < Latest(h, g)

DropExtraSenders(h, spared) ==
  LET extra   == Cardinality(Named(h)) - SendersMax
      others  == Named(h) \ spared
      dropped == {f \in others : Cardinality({g \in others : Cheaper(h, g, f)}) < extra}
  IN  At(h, {i \in DOMAIN h : h[i].from \notin dropped})

Add(h, r) == DropExtraSenders(Trimmed(Append(h, r)), {r.from})

Removed(h, id) == At(h, {i \in DOMAIN h : h[i].id # id})

\* mutant: one record for another, so no bound is asked
ReplaceUnbounded(h, old, r) == Append(Removed(h, old), r)

Replace(h, old, r) == Add(Removed(h, old), r)

\* what an arrival pushed out: every id the caller has to let go of
Gone(before, after) == HistoryIds(before) \ HistoryIds(after)

Dismiss(h, id) ==
  [i \in DOMAIN h |-> IF h[i].id = id THEN [h[i] EXCEPT !.dismissed = TRUE] ELSE h[i]]

-----------------------------------------------------------------------------
(***************************************************************************)
(* The file: the newest records that may be written at all, oldest first.  *)
(***************************************************************************)
Newest(h, n) == SubSeq(h, Len(h) - n + 1, Len(h))

\* mutant: private records are written like any other
SnapshotUnfiltered(h) == Newest(h, IF Len(h) < SnapshotMax THEN Len(h) ELSE SnapshotMax)

Snapshot(h) ==
  LET open == At(h, {i \in DOMAIN h : ~h[i].private})
  IN  Newest(open, IF Len(open) < SnapshotMax THEN Len(open) ELSE SnapshotMax)

\* ReadSnapshot: every record of the file is marked as the last session's
Read(file) ==
  [i \in DOMAIN file |-> [file[i] EXCEPT !.restored = TRUE, !.private = FALSE]]

\* Restore: behind what this session has, both bounds over the result
Restore(h, records) == DropExtraSenders(Trimmed(records \o h), {})
=============================================================================
