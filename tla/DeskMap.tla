------------------------------- MODULE DeskMap -------------------------------
(***************************************************************************)
(* The desk map (internal/desk): what zded reads out of the names niri's   *)
(* workspaces carry, and the plans it makes from it.  Nothing here keeps   *)
(* state: a map is a function of a set of workspaces and a set of screens. *)
(*                                                                         *)
(* A name is a desk, a monitor and a slot; text is left out.  A slot is a  *)
(* sequence: << code >> is the label "code", << code, 2 >> is "code-2",    *)
(* << 3 >> is the ordinal 3.  Desks, monitors and labels are model values  *)
(* and Order is the alphabet they are sorted by.                           *)
(***************************************************************************)
EXTENDS Integers, Sequences, FiniteSets, SequencesExt

CONSTANTS
  Order,     \* every desk, monitor and label, in the order of their text
  Regulars,  \* the desk no rotation enters
  AppLabel,  \* application id -> its label, or None
  Odd,       \* outputs whose name no workspace name can hold
  None

Place(x) == CHOOSE i \in DOMAIN Order : Order[i] = x

\* a workspace as niri reports it: [id, idx, name, output]; name is None, a
\* name of ours, or somebody else's word; output is None where niri says nothing
Ours(w) == w.name # None /\ DOMAIN w.name = {"desk", "monitor", "slot"}

Name(d, m, s) == [desk |-> d, monitor |-> m, slot |-> s]

IsOrdinal(slot) == Len(slot) = 1 /\ slot[1] \in Nat

\* digits sort before letters
RankOf(part) == IF part \in Nat THEN part ELSE 1000 + Place(part)

\* labels before ordinals, ordinals by number, labels by their text
SlotLess(a, b) ==
  IF IsOrdinal(a) # IsOrdinal(b) THEN IsOrdinal(b)
  ELSE \E i \in 1 .. Len(b) :
         /\ \A j \in 1 .. (i - 1) : j <= Len(a) /\ a[j] = b[j]
         /\ i > Len(a) \/ RankOf(a[i]) < RankOf(b[i])

\* names of two desks that tie are in either order in the code; here by desk
Less(a, b) ==
  IF a.monitor # b.monitor THEN Place(a.monitor) < Place(b.monitor)
  ELSE IF a.slot # b.slot THEN SlotLess(a.slot, b.slot)
  ELSE Place(a.desk) < Place(b.desk)

\* S in the order of before, which is total on it
InOrder(S, before(_, _)) ==
  [i \in 1 .. Cardinality(S) |->
     CHOOSE x \in S : Cardinality({y \in S : before(y, x)}) = i - 1]

\* which of two workspaces under one name is met first
Earlier(a, b) ==
  IF a.output # b.output
    THEN a.output = None \/ (b.output # None /\ Place(a.output) < Place(b.output))
    ELSE IF a.idx # b.idx THEN a.idx < b.idx ELSE a.id < b.id

-----------------------------------------------------------------------------
(***************************************************************************)
(* grantMoves: moves is a set of [from, to], held the names in use.  A     *)
(* name two want goes to the first; a move onto a name that stays is       *)
(* refused, which cascades; a cycle waits on itself.                       *)
(***************************************************************************)
Claims(moves) ==
  {m \in moves : ~ \E o \in moves : o.to = m.to /\ Less(o.from, m.from)}

\* what is left after a pass for each claim: a refused one keeps its name
Standing(claims, held) ==
  LET pass[k \in 0 .. Cardinality(claims)] ==
        IF k = 0 THEN claims
        ELSE LET left == pass[k-1]
                 off  == {m.from : m \in left}
             IN  {m \in left : m.to \notin held \/ m.to \in off}
  IN  pass[Cardinality(claims)]

ByFrom(moves) == InOrder(moves, LAMBDA a, b : Less(a.from, b.from))

\* mutant: a name that is being moved off counts as free, whoever goes first
GrantedUnordered(moves, held) == ByFrom(Standing(Claims(moves), held))

\* onto free names first, then onto the names those leave, and so on
Granted(moves, held) ==
  LET standing == Standing(Claims(moves), held)
      round[k \in 0 .. Cardinality(standing)] ==
        IF k = 0 THEN ByFrom({m \in standing : m.to \notin held})
        ELSE LET done == round[k-1]
                 off  == {m.from : m \in ToSet(done)}
             IN  done \o ByFrom({m \in standing : m.from \notin off /\ m.to \in off})
  IN  IF moves = {} THEN << >> ELSE round[Cardinality(standing)]

-----------------------------------------------------------------------------
(***************************************************************************)
(* Rebuild.  screens is what niri draws on; {} is a caller who cannot say. *)
(***************************************************************************)
\* the first workspace under each name; a second one is nobody's
Kept(W) ==
  {w \in W : Ours(w) /\ ~ \E v \in W : v.name = w.name /\ Earlier(v, w)}

HomeGone(n, screens) == screens # {} /\ n.monitor \notin screens

HeldBy(W, n) == Cardinality({w \in W : w.name = n})

Astray(w) == w.output \notin {None, w.name.monitor}

\* mutant: a monitor that is gone is not told from a workspace somebody moved
MovedOrParked(W, w, screens) ==
  /\ Astray(w) /\ screens # {}
  /\ w.output \in screens \ Odd
  /\ HeldBy(W, w.name) = 1

\* both monitors are there, so somebody moved it
Moved(W, w, screens) ==
  /\ Astray(w) /\ screens # {} /\ ~HomeGone(w.name, screens)
  /\ w.output \in screens \ Odd
  /\ HeldBy(W, w.name) = 1

\* where a workspace is: niri's output, else the monitor in its name while that is a screen
At(w, screens) ==
  IF w.output # None THEN w.output
  ELSE IF HomeGone(w.name, screens) THEN None ELSE w.name.monitor

Truthful(w) == [from |-> w.name, to |-> [w.name EXCEPT !.monitor = w.output]]

Rebuild(W, screens) ==
  LET kept    == Kept(W)
      moves   == {Truthful(w) : w \in {v \in kept : Moved(W, v, screens)}}
      renames == Granted(moves, {w.name : w \in kept})
      off     == {r.from : r \in ToSet(renames)}
      named(w) == IF w.name \in off THEN Truthful(w).to ELSE w.name
  IN  [ places    |-> {[name |-> named(w), at |-> At(w, screens), idx |-> w.idx] : w \in kept},
        screens   |-> screens,
        renames   |-> renames,
        foreign   |-> W \ kept,
        displaced |-> {w.name : w \in {v \in kept :
                         HomeGone(v.name, screens) /\ v.output # v.name.monitor}} ]

-----------------------------------------------------------------------------
(***************************************************************************)
(* Reading a map.                                                          *)
(***************************************************************************)
DeskNames(m) == {p.name.desk : p \in m.places}

\* by monitor, and down each monitor's strip
InStrip(p, q) ==
  IF p.name.monitor # q.name.monitor
    THEN Place(p.name.monitor) < Place(q.name.monitor)
    ELSE p.idx < q.idx \/ (p.idx = q.idx /\ Less(p.name, q.name))

Workspaces(m, d) == InOrder({p \in m.places : p.name.desk = d}, InStrip)

\* a desk's workspaces on one screen, in the screen's order
Band(m, d, screen) ==
  IF screen = None THEN << >>
  ELSE InOrder({p \in m.places : p.name.desk = d /\ p.at = screen},
         LAMBDA p, q : p.idx < q.idx \/ (p.idx = q.idx /\ InStrip(p, q)))

\* desk.next and desk.prev; a desk that is in no rotation comes in at an end
Rotation(m) ==
  InOrder(DeskNames(m) \ {Regulars}, LAMBDA a, b : Place(a) < Place(b))

Step(rotation, from, by) ==
  IF rotation = << >> THEN None
  ELSE IF from \in ToSet(rotation)
    THEN LET n == Len(rotation)
             i == CHOOSE k \in 1 .. n : rotation[k] = from
         IN  rotation[((i - 1 + by) % n) + 1]
    ELSE IF by > 0 THEN rotation[1] ELSE rotation[Len(rotation)]

\* << >> at the end of a band, where nothing moves
BandStep(band, from, by) ==
  LET here == {i \in DOMAIN band : band[i].name = from}
  IN  IF band = << >> THEN << >>
      ELSE IF here # {}
        THEN LET to == (CHOOSE i \in here : TRUE) + by
             IN  IF to \in DOMAIN band THEN << band[to].name >> ELSE << >>
        ELSE << band[IF by > 0 THEN 1 ELSE Len(band)].name >>

-----------------------------------------------------------------------------
(***************************************************************************)
(* Where a desk comes up.  last is what it remembers: monitor -> slot, or  *)
(* None.                                                                   *)
(***************************************************************************)
\* remembered and at home here, else remembered and parked here, else the first
Pick(m, d, screen, last) ==
  LET band == Band(m, d, screen)
      remembered(ok(_)) ==
        SelectSeq(band, LAMBDA p : last[p.name.monitor] = p.name.slot /\ ok(p))
      native == remembered(LAMBDA p : p.name.monitor = screen)
      parked == remembered(LAMBDA p : TRUE)
  IN  IF native # << >> THEN << native[1].name >>
      ELSE IF parked # << >> THEN << parked[1].name >>
      ELSE IF band # << >> THEN << band[1].name >> ELSE << >>

\* the first of a desk's workspaces under each key
Firsts(places, key(_)) ==
  SelectSeq([i \in DOMAIN places |-> [first |-> \A j \in 1 .. (i - 1) : key(places[j]) # key(places[i]),
                                      place |-> places[i]]],
            LAMBDA x : x.first)

\* mutant: one workspace for each monitor a name says, wherever it is parked
SwitchPlanByMonitor(m, d, last) ==
  LET onScreen == SelectSeq(Workspaces(m, d), LAMBDA p : p.at # None)
      firsts   == Firsts(onScreen, LAMBDA p : p.name.monitor)
  IN  [i \in DOMAIN firsts |-> firsts[i].place.name]

\* mutant: what is parked is left out
SwitchPlanAtHome(m, d, last) ==
  LET atHome == SelectSeq(Workspaces(m, d), LAMBDA p : p.at = p.name.monitor)
      firsts == Firsts(atHome, LAMBDA p : p.at)
  IN  [i \in DOMAIN firsts |-> firsts[i].place.name]

\* one workspace for each screen the desk is on
SwitchPlan(m, d, last) ==
  LET onScreen == SelectSeq(Workspaces(m, d), LAMBDA p : p.at # None)
      firsts   == Firsts(onScreen, LAMBDA p : p.at)
  IN  [i \in DOMAIN firsts |-> Pick(m, d, firsts[i].place.at, last)[1]]

-----------------------------------------------------------------------------
(***************************************************************************)
(* Names to give.                                                          *)
(***************************************************************************)
\* label, label-2, label-3, ...: the first that is free
FirstFree(taken, d, mon, slot) ==
  LET try(i) == Name(d, mon, IF i = 1 THEN slot ELSE Append(slot, i))
      i == CHOOSE k \in 1 .. (Cardinality(taken) + 1) :
             try(k) \notin taken /\ \A j \in 1 .. (k - 1) : try(j) \in taken
  IN  try(i)

\* the slot an application gives its workspace, or the next ordinal there
SlotFor(taken, d, mon, app) ==
  IF AppLabel[app] # None THEN FirstFree(taken, d, mon, << AppLabel[app] >>)
  ELSE LET used == {n.slot[1] : n \in {t \in taken : t.monitor = mon /\ IsOrdinal(t.slot)}}
       IN  Name(d, mon, << 1 + Max(used \cup {0}) >>)

NamesOf(m, d) == {p.name : p \in {q \in m.places : q.name.desk = d}}

\* who is named into the active desk, and what: not an empty one, not one on no screen
AdoptPlan(m, active, firstApp) ==
  LET adoptable == {w \in m.foreign : w.output \notin Odd \cup {None} /\ firstApp[w.id] # None}
      queue     == InOrder(adoptable, LAMBDA a, b :
                     IF a.output # b.output THEN Place(a.output) < Place(b.output) ELSE a.id < b.id)
      names[k \in 0 .. Len(queue)] ==
        IF k = 0 THEN << >>
        ELSE LET given == names[k-1]
             IN  Append(given, SlotFor(NamesOf(m, active) \cup ToSet(given),
                                 active, queue[k].output, firstApp[queue[k].id]))
      given     == names[Len(queue)]
  IN  IF active = None THEN << >>
      ELSE [k \in DOMAIN queue |-> [id |-> queue[k].id, name |-> given[k]]]

\* what a manifest declares, in its order, and niri does not have; empty is the
\* ids of the nameless empty workspaces of each output
Absent(m, declared) == SelectSeq(declared, LAMBDA n : n \notin NamesOf(m, n.desk))

Waiting(m, declared) ==
  SelectSeq(Absent(m, declared), LAMBDA n : HomeGone(n, m.screens))

\* MissingPlan's first entry, which is all its caller takes
FirstMissing(m, declared, empty) ==
  LET can == SelectSeq(Absent(m, declared), LAMBDA n :
               ~HomeGone(n, m.screens) /\ empty[n.monitor] # {})
  IN  IF can = << >> THEN << >>
      ELSE << [id |-> Min(empty[can[1].monitor]), name |-> can[1]] >>

\* the name a workspace takes in another band: its own label where that is free
MoveTo(m, from, d) == FirstFree(NamesOf(m, d), d, from.monitor, from.slot)

=============================================================================
