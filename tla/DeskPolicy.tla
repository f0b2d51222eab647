----------------------------- MODULE DeskPolicy -----------------------------
(***************************************************************************)
(* Which desk is on, which mode is in force and who lent it: the calls of  *)
(* internal/zded that write the three (switchFrom and enterDesk, setMode,  *)
(* deskPanic, moveWorkspaceTo, deskOf), beside niri, which shows one desk  *)
(* and lets a person walk to another without asking zded.                  *)
(*                                                                         *)
(* Every request runs on its connection's goroutine and nothing serialises *)
(* two of them: the journal's mutex covers one read or one line.  A call   *)
(* is a step per line it writes and per thing it asks niri.                *)
(*                                                                         *)
(* A desk has a band on each of Screens monitors and every desk exists, so *)
(* what naming workspaces does (ensureDeclared) is left to other modules,  *)
(* as are the registers no call here reads (LastDesk, LastActive).         *)
(***************************************************************************)
EXTENDS Integers, Sequences, FiniteSets

CONSTANTS
  Desks,
  Modes,      \* work, focus, quiet
  Work, Quiet,
  Declares,   \* policies.attn of each desk's manifest, or None
  Decoy,      \* zde.panic.decoy
  None,
  Screens,    \* workspaces a switch focuses
  Walks,      \* where niri's own keys can take somebody: desks, or None
  Handlers,   \* goroutines: requests in progress at once
  Faults      \* whether zded may crash, and journal lines fail to be written

ASSUME ModesAssumption == Work \in Modes /\ Quiet \in Modes /\ None \notin Modes
ASSUME DesksAssumption ==
  /\ Decoy \in Desks /\ None \notin Desks
  /\ Walks \subseteq Desks \cup {None}
  /\ Declares \in [Desks -> Modes \cup {None}]
ASSUME ScreensAssumption == Screens \in Nat \ {0} /\ Faults \in BOOLEAN

VARIABLES
  focused,   \* niri: the desk whose workspace has the focus, None an unnamed one
  onDesk, borrowed, mode,   \* the journal's registers
  muted,     \* the machine's sound
  hold,      \* panicHold, in memory
  seen,      \* an arrival or the watcher in deskOf: what niri told it
  call,      \* what each goroutine is doing
  own,       \* history: the mode last set by name, which no desk lent
  stands,    \* history: the desk somebody walked to, by a switch that landed or by hand
  landed,    \* history: the last switch, while nothing has overruled it
  before,    \* history: what was in force when panic was pressed, while nothing has overruled it
  doubt      \* history: two requests overlapped, or a fault fell inside one

registers == <<onDesk, borrowed, mode>>
history   == <<own, stands, landed, before, doubt>>
vars == <<focused, registers, muted, hold, seen, call, history>>

Desk == Desks \cup {None}
Nobody == [desk |-> None, mode |-> None]
Loans == {Nobody} \cup [desk : Desks, mode : Modes]
Holds == [decoy : Desk, from : Desk, mode : Modes \cup {None}, unmute : BOOLEAN]
NotHeld == [decoy |-> None, from |-> None, mode |-> None, unmute |-> FALSE]

\* a goroutine's locals; after is the call that made this one
Idle == [at |-> "idle", after |-> "reply", to |-> None, was |-> None,
         left |-> 0, set |-> None, had |-> None, loan |-> Nobody, held |-> NotHeld]

Goto(h, at) == call' = [call EXCEPT ![h].at = at]
Return(h) == call' = [call EXCEPT ![h] = Idle]
Quiescent == \A h \in Handlers : call[h] = Idle

\* a request that meets another one in progress
Meets(h) == IF \E g \in Handlers \ {h} : call[g] # Idle THEN {"overlap"} ELSE {}

\* bound: one fault at a time, until a mode set by name has settled what it left
Fault == Faults /\ "fault" \notin doubt

\* the journal line could not be written, and the caller goes on to its next step
Unwritten == Fault /\ doubt' = doubt \cup {"fault"}
Written == UNCHANGED doubt

-----------------------------------------------------------------------------
(***************************************************************************)
(* deskOf: where we are, by the focused workspace's name, and by the       *)
(* journal when it has none.  Asking writes down the answer.               *)
(***************************************************************************)
WhereWeAre == IF focused # None THEN focused ELSE onDesk

NoteDesk(f) == onDesk' = IF f # None THEN f ELSE onDesk

Ask ==
  /\ seen = << >>
  /\ focused # None
  /\ seen' = <<focused>>
  /\ UNCHANGED <<focused, registers, muted, hold, call, history>>

\* late, it writes down a desk that is no longer the one (deskOf's comment)
Note ==
  /\ seen # << >>
  /\ NoteDesk(seen[1])
  /\ seen' = << >>
  /\ UNCHANGED <<focused, borrowed, mode, muted, hold, call, history>>

\* niri's own keys, or a click: no call of zded
WalkByHand(d) ==
  /\ d # focused
  /\ focused' = d
  /\ stands' = IF d = None THEN stands ELSE d
  /\ landed' = << >> /\ before' = << >>
  /\ UNCHANGED <<registers, muted, hold, seen, call, own, doubt>>

-----------------------------------------------------------------------------
(***************************************************************************)
(* switchFrom: the journal's desk first, then where we are, then a focus   *)
(* per screen; the destination is written down when all of them moved.     *)
(***************************************************************************)
Into(h, at, after, t) ==
  call' = [call EXCEPT ![h].at = at, ![h].after = after, ![h].to = t, ![h].left = Screens]

Switch(h, t) ==
  /\ call[h] = Idle
  /\ Into(h, "switch", "reply", t)
  /\ landed' = << >> /\ before' = << >>
  /\ doubt' = doubt \cup Meets(h)
  /\ UNCHANGED <<focused, registers, muted, hold, seen, own, stands>>

\* what a switch to t finds, kept for the properties
Begun(t) ==
  [to    |-> t,
   knew  |-> onDesk = stands,             \* the journal had it right
   retry |-> focused = t /\ stands # t,   \* an earlier switch got halfway here
   whole |-> FALSE]                       \* every screen has moved

Capture(h) ==
  /\ call[h].at = "switch"
  /\ call' = [call EXCEPT ![h].at = "focus", ![h].was = onDesk]
  /\ NoteDesk(focused)
  /\ landed' = IF call[h].after = "reply" THEN << Begun(call[h].to) >> ELSE << >>
  /\ UNCHANGED <<focused, borrowed, mode, muted, hold, seen, own,
                 stands, before, doubt>>

\* mutant: one screen too many is asked for
FocusWorkspacePast(h) ==
  /\ call[h].at = "focus"
  /\ focused' = call[h].to
  /\ call' = [call EXCEPT ![h].left = @ - 1,
                          ![h].at = IF call[h].left = 0 THEN "landed" ELSE "focus"]
  /\ UNCHANGED <<registers, muted, hold, seen, history>>

FocusWorkspace(h) ==
  /\ call[h].at = "focus"
  /\ focused' = call[h].to
  /\ call' = [call EXCEPT ![h].left = @ - 1,
                          ![h].at = IF call[h].left = 1 THEN "landed" ELSE "focus"]
  /\ UNCHANGED <<registers, muted, hold, seen, history>>

\* niri refuses, with some of the screens moved or none
FocusFails(h) ==
  /\ call[h].at = "focus"
  /\ CASE call[h].after = "reply" -> Return(h)
       [] call[h].after = "hide"  -> Return(h)
       [] call[h].after = "back"  -> Goto(h, "unmute")
  /\ landed' = << >>
  /\ before' = IF call[h].after = "hide" THEN << >> ELSE before
  /\ UNCHANGED <<focused, registers, muted, hold, seen, own, stands, doubt>>

\* the caller of a switch, its own locals kept and the switch's spent
Going(h, at, m) ==
  [Idle EXCEPT !.at = at, !.set = m, !.after = call[h].after, !.held = call[h].held]

\* what a switch goes on to once the desk has been entered, or was already on
Entered(h) ==
  CASE call[h].after = "reply" -> Return(h)
    [] call[h].after = "hide"  -> call' = [call EXCEPT ![h] = Going(h, "choose", Quiet)]
    [] call[h].after = "back"  -> call' = [call EXCEPT ![h] = Going(h, "unmute", None)]

\* mutant: whether the desk changed is asked once the destination is written down
SetOnDeskReread(h) ==
  /\ call[h].at = "landed"
  /\ \/ onDesk' = call[h].to /\ Written
     \/ UNCHANGED onDesk /\ Unwritten
  /\ landed' = (IF stands = call[h].to \/ landed = << >> THEN << >>
                ELSE << [landed[1] EXCEPT !.whole = TRUE] >>)
  /\ stands' = call[h].to
  /\ IF onDesk' # call[h].to THEN call' = [call EXCEPT ![h].at = "mode", ![h].was = None]
     ELSE Entered(h)
  /\ UNCHANGED <<focused, borrowed, mode, muted, hold, seen, own, before>>

SetOnDesk(h) ==
  /\ call[h].at = "landed"
  /\ \/ onDesk' = call[h].to /\ Written
     \/ UNCHANGED onDesk /\ Unwritten
  /\ landed' = (IF stands = call[h].to \/ landed = << >> THEN << >>
                ELSE << [landed[1] EXCEPT !.whole = TRUE] >>)
  /\ stands' = call[h].to
  /\ IF call[h].was # call[h].to THEN call' = [call EXCEPT ![h].at = "mode", ![h].was = None]
     ELSE Entered(h)
  /\ UNCHANGED <<focused, borrowed, mode, muted, hold, seen, own, before>>

-----------------------------------------------------------------------------
(***************************************************************************)
(* enterDesk: read the mode and the loan, work both out, write down those  *)
(* that changed.  A line that cannot be written is logged and passed over. *)
(***************************************************************************)
ReadMode(h) ==
  /\ call[h].at = "mode"
  /\ call' = [call EXCEPT ![h].at = "loan", ![h].had = mode]
  /\ UNCHANGED <<focused, registers, muted, hold, seen, history>>

\* the mode that is the session's again once held is given back
Returned(h, held) ==
  IF held.desk \notin {None, call[h].to} THEN held.mode ELSE call[h].had

\* mutant: a desk that still holds the mode lends it again, over its own
LoanOverItself(h, held) ==
  IF Declares[call[h].to] = None
    THEN IF held.desk = call[h].to THEN held ELSE Nobody
    ELSE [desk |-> call[h].to, mode |-> Returned(h, held)]

Loan(h, held) ==
  IF held.desk = call[h].to THEN held
  ELSE IF Declares[call[h].to] = None THEN Nobody
  ELSE [desk |-> call[h].to, mode |-> Returned(h, held)]

ReadLoan(h) ==
  /\ call[h].at = "loan"
  /\ call' = [call EXCEPT ![h].at = "lend", ![h].loan = Loan(h, borrowed),
                ![h].set = IF Declares[call[h].to] # None THEN Declares[call[h].to]
                           ELSE Returned(h, borrowed)]
  /\ UNCHANGED <<focused, registers, muted, hold, seen, history>>

SetBorrowed(h) ==
  /\ call[h].at = "lend"
  /\ \/ borrowed' = call[h].loan /\ Written
     \/ borrowed # call[h].loan /\ UNCHANGED borrowed /\ Unwritten
  /\ call' = [call EXCEPT ![h].at = "apply", ![h].loan = Nobody, ![h].to = None]
  /\ UNCHANGED <<focused, onDesk, mode, muted, hold, seen, own, stands,
                 landed, before>>

ApplyMode(h) ==
  /\ call[h].at = "apply"
  /\ \/ mode' = (IF call[h].set # call[h].had THEN call[h].set ELSE mode) /\ Written
     \/ call[h].set # call[h].had /\ UNCHANGED mode /\ Unwritten
  /\ Entered(h)
  /\ UNCHANGED <<focused, onDesk, borrowed, muted, hold, seen, own, stands,
                 landed, before>>

-----------------------------------------------------------------------------
(***************************************************************************)
(* setMode: the mode, and then the end of any desk's loan.                 *)
(***************************************************************************)
Choose(h, m) ==
  /\ call[h] = Idle
  /\ call' = [call EXCEPT ![h].at = "choose", ![h].set = m]
  /\ landed' = << >> /\ before' = << >>
  /\ doubt' = doubt \cup Meets(h)
  /\ UNCHANGED <<focused, registers, muted, hold, seen, own, stands>>

SetModeNamed(h, m) == Choose(h, m)

ToggleQuiet(h) == Choose(h, IF mode = Quiet THEN Work ELSE Quiet)

\* what setMode answers to, with an error or without
Chosen(h) ==
  CASE call[h].after = "reply" -> Return(h)
    [] call[h].after = "hide"  -> Goto(h, "mute")
    [] call[h].after = "back"  -> Goto(h, "letgo")

\* a mode set by name overrules what came before it, and leaves nothing in doubt when
\* no other request is in progress
Overrule(h) ==
  /\ landed' = << >> /\ before' = << >>
  /\ doubt' = (IF Meets(h) = {} THEN {} ELSE doubt)

SetMode(h) ==
  /\ call[h].at = "choose"
  /\ \/ /\ mode' = call[h].set /\ own' = call[h].set
        /\ Goto(h, "settle")
        /\ IF call[h].after = "reply" THEN Overrule(h) ELSE UNCHANGED <<landed, before, doubt>>
     \/ /\ Chosen(h)
        /\ Unwritten
        /\ UNCHANGED <<mode, own, landed, before>>
  /\ UNCHANGED <<focused, onDesk, borrowed, muted, hold, seen, stands>>

EndLoan(h) ==
  /\ call[h].at = "settle"
  /\ \/ borrowed' = Nobody /\ Written
     \/ borrowed # Nobody /\ UNCHANGED borrowed /\ Unwritten
  /\ Chosen(h)
  /\ UNCHANGED <<focused, onDesk, mode, muted, hold, seen, own, stands,
                 landed, before>>

-----------------------------------------------------------------------------
(***************************************************************************)
(* deskPanic: back when it is holding and the decoy is where we are, and   *)
(* otherwise hide.  Only what panic took is given back.                    *)
(***************************************************************************)
\* what can be read of the sound: whether it is muted, or nothing
Hide(h, knew) ==
  /\ call[h] = Idle
  /\ ~(hold.decoy # None /\ WhereWeAre = hold.decoy)
  /\ NoteDesk(focused)
  /\ call' = [call EXCEPT ![h].at = "switch", ![h].after = "hide", ![h].to = Decoy,
                ![h].left = Screens,
                ![h].held = [decoy |-> Decoy, from |-> WhereWeAre, mode |-> mode,
                             unmute |-> knew /\ ~muted]]
  /\ before' = << [mode |-> mode, muted |-> muted] >>
  /\ landed' = << >>
  /\ doubt' = doubt \cup Meets(h)
  /\ UNCHANGED <<focused, borrowed, mode, muted, hold, seen, own, stands>>

Mute(h, works) ==
  /\ call[h].at = "mute"
  /\ muted' = (muted \/ works)
  /\ hold' = [call[h].held EXCEPT !.unmute = @ /\ works]
  /\ Return(h)
  /\ UNCHANGED <<focused, registers, seen, history>>

\* the switch back comes first, unless panic was pressed on the decoy itself
ComeBack(h) ==
  /\ call[h] = Idle
  /\ hold.decoy # None /\ WhereWeAre = hold.decoy
  /\ NoteDesk(focused)
  /\ call' = [call EXCEPT ![h].after = "back", ![h].held = hold, ![h].to = hold.from,
                ![h].left = Screens, ![h].set = hold.mode,
                ![h].at = IF hold.from \notin {None, hold.decoy} THEN "switch" ELSE "unmute"]
  /\ landed' = << >>
  /\ doubt' = doubt \cup Meets(h)
  /\ UNCHANGED <<focused, borrowed, mode, muted, hold, seen, own, stands,
                 before>>

\* mutant: the sound is turned on whoever turned it off
UnmuteAnyway(h, works) ==
  /\ call[h].at = "unmute"
  /\ muted' = (muted /\ ~works)
  /\ call' = [call EXCEPT ![h].at = "choose", ![h].set = call[h].held.mode]
  /\ UNCHANGED <<focused, registers, hold, seen, history>>

Unmute(h, works) ==
  /\ call[h].at = "unmute"
  /\ muted' = (muted /\ ~(call[h].held.unmute /\ works))
  /\ call' = [call EXCEPT ![h].at = "choose", ![h].set = call[h].held.mode]
  /\ UNCHANGED <<focused, registers, hold, seen, history>>

\* kept while the desk could not be brought back, so that the key still means "back"
LetGo(h) ==
  /\ call[h].at = "letgo"
  /\ hold' = IF call[h].left > 0 /\ call[h].held.from \notin {None, call[h].held.decoy}
               THEN hold ELSE NotHeld
  /\ before' = << >>
  /\ Return(h)
  /\ UNCHANGED <<focused, registers, muted, seen, own, stands, landed, doubt>>

-----------------------------------------------------------------------------
(***************************************************************************)
(* moveWorkspaceTo: the workspace under the person changes hands, and they *)
(* are on another desk without a switch.                                   *)
(***************************************************************************)
MoveWorkspaceTo(h, t) ==
  /\ call[h] = Idle
  /\ focused \notin {None, t}
  /\ call' = [call EXCEPT ![h].at = "moved", ![h].to = t]
  /\ focused' = t /\ stands' = t
  /\ landed' = << >> /\ before' = << >>
  /\ doubt' = doubt \cup Meets(h)
  /\ UNCHANGED <<registers, muted, hold, seen, own>>

NoteMove(h) ==
  /\ call[h].at = "moved"
  /\ \/ onDesk' = call[h].to /\ Written
     \/ UNCHANGED onDesk /\ Unwritten
  /\ Return(h)
  /\ UNCHANGED <<focused, borrowed, mode, muted, hold, seen, own, stands, landed, before>>

\* zded dies and is started again: the journal is what it was, panic is forgotten
Crash ==
  /\ Fault
  /\ doubt' = IF Quiescent THEN doubt ELSE doubt \cup {"fault"}
  /\ call' = [h \in Handlers |-> Idle]
  /\ seen' = << >> /\ hold' = NotHeld /\ before' = << >>
  /\ UNCHANGED <<focused, registers, muted, own, stands, landed>>

Init ==
  /\ focused \in Desks
  /\ onDesk = focused /\ stands = focused
  /\ borrowed = Nobody /\ mode = Work /\ own = Work
  /\ muted = FALSE
  /\ hold = NotHeld /\ seen = << >>
  /\ call = [h \in Handlers |-> Idle]
  /\ landed = << >> /\ before = << >> /\ doubt = {}

Next ==
  \/ Ask
  \/ Note
  \/ Crash
  \/ \E d \in Walks : WalkByHand(d)
  \/ \E h \in Handlers :
       \/ \E t \in Desks : Switch(h, t)
       \/ \E t \in Desks : MoveWorkspaceTo(h, t)
       \/ \E m \in Modes : SetModeNamed(h, m)
       \/ ToggleQuiet(h)
       \/ \E knew \in BOOLEAN : Hide(h, knew)
       \/ ComeBack(h)
       \/ Capture(h)
       \/ FocusWorkspace(h)
       \/ FocusFails(h)
       \/ SetOnDesk(h)
       \/ ReadMode(h)
       \/ ReadLoan(h)
       \/ SetBorrowed(h)
       \/ ApplyMode(h)
       \/ SetMode(h)
       \/ EndLoan(h)
       \/ \E works \in BOOLEAN : Mute(h, works)
       \/ \E works \in BOOLEAN : Unmute(h, works)
       \/ LetGo(h)
       \/ NoteMove(h)

Spec == Init /\ [][Next]_vars

-----------------------------------------------------------------------------
Points == {"idle", "switch", "focus", "landed", "mode", "loan", "lend", "apply",
           "choose", "settle", "mute", "unmute", "letgo", "moved"}

Locals == [at : Points, after : {"reply", "hide", "back"}, to : Desk, was : Desk,
           left : 0 .. Screens, set : Modes \cup {None}, had : Modes \cup {None},
           loan : Loans, held : Holds]

Landings == [to : Desks, knew : BOOLEAN, retry : BOOLEAN, whole : BOOLEAN]
Befores == [mode : Modes, muted : BOOLEAN]

\* a tuple that holds one of S, or nothing
AtMostOne(S) == {<< >>} \cup {<<x>> : x \in S}

TypeOK ==
  /\ focused \in Desk /\ onDesk \in Desk /\ stands \in Desk
  /\ borrowed \in Loans
  /\ mode \in Modes /\ own \in Modes
  /\ muted \in BOOLEAN
  /\ hold \in Holds
  /\ seen \in AtMostOne(Desks)
  /\ landed \in AtMostOne(Landings) /\ before \in AtMostOne(Befores)
  /\ doubt \subseteq {"overlap", "fault"}
  /\ call \in [Handlers -> Locals]

(***************************************************************************)
(* "What was in force is written down and comes back when you leave" and   *)
(* "a mode set by hand ends the loan; it follows you off the desk"         *)
(* (docs/model.md): between requests the mode is the session's own, or one *)
(* desk's declared mode over it, through switches that fail halfway, walks *)
(* by hand, panics and stale notes of the desk.  A request that met        *)
(* another or a fault is forgiven until a mode is next set by name.        *)
(***************************************************************************)
LentAndOwn ==
  Quiescent /\ doubt = {} =>
    IF borrowed = Nobody THEN mode = own
    ELSE borrowed.mode = own /\ mode = Declares[borrowed.desk]

\* the last switch landed on a desk nobody has left since, and that declares a mode
Applies(l) == l.whole /\ Declares[l.to] # None

(***************************************************************************)
(* "Entering a desk applies the mode it declares": after a switch to       *)
(* another desk than the one the journal rightly had, the mode is that     *)
(* desk's, on loan to it, until somebody chooses or walks.                 *)
(***************************************************************************)
PolicyFollowsSwitch ==
  Quiescent /\ doubt = {} =>
    \A i \in DOMAIN landed :
      LET l == landed[i]
      IN  l.knew /\ Applies(l) =>
            mode = Declares[l.to] /\ borrowed.desk = l.to

(***************************************************************************)
(* "A switch that failed partway is not a desk you are on [...] and the    *)
(* retry that fixes them is what applies" its mode (attn_test.go):         *)
(* whatever was written down of where we were between the two.             *)
(***************************************************************************)
RetryApplies ==
  Quiescent /\ doubt = {} =>
    \A i \in DOMAIN landed :
      landed[i].retry /\ Applies(landed[i]) => mode = Declares[landed[i].to]

(***************************************************************************)
(* Panic gives back what it took and nothing else: when it lets go, with   *)
(* no mode, sound or desk chosen since it was pressed, the mode is the one *)
(* that was in force and a sound that was off is still off (leavePanic).   *)
(***************************************************************************)
PanicGivesBack ==
  [][\A h \in Handlers : LetGo(h) /\ doubt = {} =>
       \A i \in DOMAIN before : /\ mode = before[i].mode
                                /\ before[i].muted => muted]_vars
=============================================================================
