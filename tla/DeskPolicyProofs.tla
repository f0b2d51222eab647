------------------------- MODULE DeskPolicyProofs --------------------------
(***************************************************************************)
(* What holds of desks, modes, loans and panic for any number of requests  *)
(* in progress, of desks, modes and screens, whatever each desk declares.  *)
(***************************************************************************)
EXTENDS DeskPolicy, TLAPS

-----------------------------------------------------------------------------
(***************************************************************************)
(* What a call holds at each place, whatever the other calls did.          *)
(***************************************************************************)
Switching == {"switch", "focus", "landed", "mode", "loan", "lend"}

CallOK(c) ==
  /\ c.at = "idle" => c = Idle
  /\ c.at \in Switching => c.to \in Desks
  /\ c.at \in {"focus", "switch"} => c.left > 0
  /\ c.at \in {"loan", "lend", "apply"} => c.had \in Modes
  /\ c.at \in {"lend", "apply", "choose", "settle"} => c.set \in Modes
  /\ c.at = "moved" => c.to \in Desks /\ c.after = "reply"
  /\ c.at = "mute" => c.after = "hide"
  /\ c.at \in {"unmute", "letgo"} => c.after = "back"
  /\ c.at # "idle" /\ c.after # "reply" => c.held.mode \in Modes

HoldOK(k) == k.decoy # None => k.mode \in Modes

TypeInv == TypeOK /\ (\A h \in Handlers : CallOK(call[h])) /\ HoldOK(hold)

(***************************************************************************)
(* What is true of the registers while nothing is in doubt.  b is the      *)
(* loan, m the mode in force, o the session's own, s the desk somebody     *)
(* stands on, l the last switch if it still counts and p what was in force *)
(* at the last panic if that still counts.                                 *)
(***************************************************************************)
Lent(b, m, o) == IF b = Nobody THEN m = o ELSE b.mode = o /\ m = Declares[b.desk]

Matches(k, was) == k.mode = was.mode /\ (k.unmute => ~was.muted)

\* between requests
AtRest(b, m, o, k, l, p) ==
  /\ Lent(b, m, o)
  /\ \A i \in DOMAIN l :
       l[i].knew /\ Applies(l[i]) => m = Declares[l[i].to] /\ b.desk = l[i].to
  /\ \A i \in DOMAIN p : Matches(k, p[i])

\* within one: the loan is written before the mode, and a chosen mode before the loan
LentOK(c, b, m, o) ==
  /\ c.at \notin {"apply", "settle"} => Lent(b, m, o)
  /\ c.at \in {"loan", "lend", "apply"} => c.had = m
  /\ c.at = "lend" => Lent(c.loan, c.set, o)
  /\ c.at = "apply" => Lent(b, c.set, o)
  /\ c.at = "settle" => m = o

LandingOK(c, b, s, l) ==
  \A i \in DOMAIN l :
    /\ c.at \in {"focus", "landed", "mode", "loan", "lend", "apply"} /\ c.after = "reply"
    /\ c.at \in {"focus", "landed"} =>
         l[i].to = c.to /\ ~l[i].whole /\ (l[i].knew => c.was = s)
    /\ l[i].knew /\ Applies(l[i]) =>
         /\ c.at \in {"mode", "loan"} => c.to = l[i].to
         /\ c.at = "lend" => c.loan.desk = l[i].to
         /\ c.at = "apply" => b.desk = l[i].to
         /\ c.at \in {"lend", "apply"} => c.set = Declares[l[i].to]

PanicOK(c, m, p) ==
  \A i \in DOMAIN p :
    /\ c.after # "reply" /\ Matches(c.held, p[i])
    /\ c.after = "back" /\ c.at \in {"choose", "settle"} => c.set = p[i].mode
    /\ c.after = "back" /\ c.at \in {"settle", "letgo"} => m = p[i].mode

Alone == \A g, h \in Handlers : call[g].at # "idle" /\ call[h].at # "idle" => g = h

StillMuted(p, sound) == \A i \in DOMAIN p : p[i].muted => sound

SoundInv ==
  doubt = {} =>
    /\ Alone /\ StillMuted(before, muted)
    /\ Quiescent => AtRest(borrowed, mode, own, hold, landed, before)
    /\ \A h \in Handlers : call[h].at # "idle" =>
         /\ LentOK(call[h], borrowed, mode, own)
         /\ LandingOK(call[h], borrowed, stands, landed)
         /\ PanicOK(call[h], mode, before)

DeskInv == TypeInv /\ SoundInv

-----------------------------------------------------------------------------
(***************************************************************************)
(* The steps of one call.                                                  *)
(***************************************************************************)
RestType ==
  /\ focused \in Desk /\ onDesk \in Desk /\ stands \in Desk
  /\ borrowed \in Loans
  /\ mode \in Modes /\ own \in Modes
  /\ muted \in BOOLEAN
  /\ hold \in Holds /\ HoldOK(hold)
  /\ seen \in AtMostOne(Desks)
  /\ landed \in AtMostOne(Landings) /\ before \in AtMostOne(Befores)
  /\ doubt \subseteq {"overlap", "fault"}

LEMMA Unpacked ==
  ASSUME DeskInv
  PROVE  /\ RestType /\ call \in [Handlers -> Locals]
         /\ \A h \in Handlers : call[h] \in Locals /\ CallOK(call[h])
BY DEF DeskInv, TypeInv, TypeOK, RestType

LEMMA IdleType == Idle \in Locals /\ CallOK(Idle) /\ Nobody \in Loans /\ NotHeld \in Holds
<1>1. Nobody \in Loans /\ NotHeld \in Holds
  BY DEF Loans, NotHeld, Holds, Desk
<1>2. 0 \in 0 .. Screens
  BY ScreensAssumption
<1>3. Idle \in Locals
  BY <1>1, <1>2 DEF Idle, Locals, Points, Desk
<1>4. CallOK(Idle)
  BY DEF CallOK, Idle, Switching
<1>5. QED
  BY <1>1, <1>3, <1>4

LEMMA IdleFields ==
  /\ Idle.at = "idle" /\ Idle.after = "reply" /\ Idle.to = None /\ Idle.was = None
  /\ Idle.left = 0 /\ Idle.set = None /\ Idle.had = None /\ Idle.loan = Nobody
  /\ Idle.held = NotHeld
BY DEF Idle

\* one call moved: what the moved call and the registers have to be
LEMMA Moved ==
  ASSUME DeskInv, NEW h \in Handlers, NEW c \in Locals, CallOK(c),
         call' = [call EXCEPT ![h] = c], RestType',
         doubt' = {} =>
           /\ \A k \in Handlers \ {h} : call[k].at = "idle"
           /\ StillMuted(before', muted')
           /\ c.at = "idle" => AtRest(borrowed', mode', own', hold', landed', before')
           /\ c.at # "idle" =>
                /\ LentOK(c, borrowed', mode', own')
                /\ LandingOK(c, borrowed', stands', landed')
                /\ PanicOK(c, mode', before')
  PROVE  DeskInv'
<1>1. /\ call' \in [Handlers -> Locals] /\ call'[h] = c
      /\ \A k \in Handlers \ {h} : call'[k] = call[k]
  BY Unpacked
<1>2. TypeInv'
  BY <1>1, Unpacked DEF TypeInv, TypeOK, RestType
<1>3. ASSUME doubt' = {}
      PROVE  /\ Alone' /\ StillMuted(before', muted')
             /\ Quiescent' => AtRest(borrowed', mode', own', hold', landed', before')
             /\ \A k \in Handlers : call'[k].at # "idle" =>
                  /\ LentOK(call'[k], borrowed', mode', own')
                  /\ LandingOK(call'[k], borrowed', stands', landed')
                  /\ PanicOK(call'[k], mode', before')
  <2>1. \A k \in Handlers \ {h} : call'[k].at = "idle"
    BY <1>1, <1>3
  <2>2. Alone'
    BY <2>1 DEF Alone
  <2>3. Quiescent' => c.at = "idle"
    BY <1>1, IdleFields DEF Quiescent
  <2>4. QED
    BY <1>1, <1>3, <2>1, <2>2, <2>3
<1>4. SoundInv'
  BY <1>3 DEF SoundInv
<1>5. QED
  BY <1>2, <1>4 DEF DeskInv

\* a call in progress is alone while nothing is in doubt
LEMMA Continues ==
  ASSUME DeskInv, NEW h \in Handlers, call[h].at # "idle", doubt = {}
  PROVE  /\ \A k \in Handlers \ {h} : call[k].at = "idle"
         /\ StillMuted(before, muted)
         /\ LentOK(call[h], borrowed, mode, own)
         /\ LandingOK(call[h], borrowed, stands, landed)
         /\ PanicOK(call[h], mode, before)
BY DEF DeskInv, SoundInv, Alone

\* one that begins without meeting another finds the registers at rest
LEMMA Begins ==
  ASSUME DeskInv, NEW h \in Handlers, call[h] = Idle,
         doubt' = doubt \cup Meets(h), doubt' = {}
  PROVE  /\ doubt = {} /\ \A k \in Handlers \ {h} : call[k].at = "idle"
         /\ StillMuted(before, muted)
         /\ AtRest(borrowed, mode, own, hold, landed, before)
<1>1. doubt = {} /\ Meets(h) = {}
  OBVIOUS
<1>2. \A k \in Handlers \ {h} : call[k] = Idle
  BY <1>1 DEF Meets
<1>3. Quiescent
  BY <1>2 DEF Quiescent
<1>4. QED
  BY <1>1, <1>2, <1>3, IdleFields DEF DeskInv, SoundInv

LEMMA MeetsType ==
  ASSUME NEW h
  PROVE  Meets(h) \subseteq {"overlap", "fault"}
BY DEF Meets

LEMMA NoteType ==
  ASSUME DeskInv, NEW f \in Desk, NoteDesk(f)
  PROVE  onDesk' \in Desk
BY Unpacked DEF NoteDesk, RestType

-----------------------------------------------------------------------------
(***************************************************************************)
(* The requests that begin.                                                *)
(***************************************************************************)
LEMMA SwitchStep ==
  ASSUME DeskInv, NEW h \in Handlers, NEW t \in Desks, Switch(h, t)
  PROVE  DeskInv'
<1> DEFINE c == [call[h] EXCEPT !.at = "switch", !.after = "reply", !.to = t, !.left = Screens]
<1>1. /\ call[h] = Idle /\ call' = [call EXCEPT ![h] = c]
      /\ landed' = << >> /\ before' = << >> /\ doubt' = doubt \cup Meets(h)
      /\ UNCHANGED <<focused, registers, muted, hold, seen, own, stands>>
  BY Unpacked DEF Switch, Into
<1>2. /\ c \in Locals /\ c.at = "switch" /\ c.after = "reply" /\ c.to = t /\ c.left = Screens
  <2>1. call[h] \in Locals /\ Screens \in 0 .. Screens
    BY Unpacked, ScreensAssumption
  <2>2. QED
    BY <2>1 DEF Locals, Points, Desk
<1> HIDE DEF c
<1>3. CallOK(c)
  BY <1>2, ScreensAssumption DEF CallOK, Switching
<1>4. RestType'
  BY <1>1, Unpacked, MeetsType DEF RestType, registers, AtMostOne
<1>5. ASSUME doubt' = {}
      PROVE  /\ \A k \in Handlers \ {h} : call[k].at = "idle"
             /\ LentOK(c, borrowed', mode', own')
  BY <1>1, <1>2, <1>5, Begins DEF AtRest, LentOK, registers
<1>6. StillMuted(before', muted') /\ LandingOK(c, borrowed', stands', landed') /\ PanicOK(c, mode', before')
  BY <1>1 DEF StillMuted, LandingOK, PanicOK
<1>7. QED
  BY <1>1, <1>2, <1>3, <1>4, <1>5, <1>6, Moved

LEMMA ChooseStep ==
  ASSUME DeskInv, NEW h \in Handlers, NEW m \in Modes, Choose(h, m)
  PROVE  DeskInv'
<1> DEFINE c == [call[h] EXCEPT !.at = "choose", !.set = m]
<1>1. /\ call[h] = Idle /\ call' = [call EXCEPT ![h] = c]
      /\ landed' = << >> /\ before' = << >> /\ doubt' = doubt \cup Meets(h)
      /\ UNCHANGED <<focused, registers, muted, hold, seen, own, stands>>
  BY Unpacked DEF Choose
<1>2. c \in Locals /\ c.at = "choose" /\ c.after = "reply" /\ c.set = m
  <2>1. call[h] \in Locals /\ call[h].after = "reply"
    BY <1>1, Unpacked, IdleFields
  <2>2. QED
    BY <2>1 DEF Locals, Points
<1> HIDE DEF c
<1>3. CallOK(c)
  BY <1>2 DEF CallOK, Switching
<1>4. RestType'
  BY <1>1, Unpacked, MeetsType DEF RestType, registers, AtMostOne
<1>5. ASSUME doubt' = {}
      PROVE  /\ \A k \in Handlers \ {h} : call[k].at = "idle"
             /\ LentOK(c, borrowed', mode', own')
  BY <1>1, <1>2, <1>5, Begins DEF AtRest, LentOK, registers
<1>6. StillMuted(before', muted') /\ LandingOK(c, borrowed', stands', landed') /\ PanicOK(c, mode', before')
  BY <1>1 DEF StillMuted, LandingOK, PanicOK
<1>7. QED
  BY <1>1, <1>2, <1>3, <1>4, <1>5, <1>6, Moved

LEMMA MoveWorkspaceStep ==
  ASSUME DeskInv, NEW h \in Handlers, NEW t \in Desks, MoveWorkspaceTo(h, t)
  PROVE  DeskInv'
<1> DEFINE c == [call[h] EXCEPT !.at = "moved", !.to = t]
<1>1. /\ call[h] = Idle /\ call' = [call EXCEPT ![h] = c]
      /\ focused' = t /\ stands' = t
      /\ landed' = << >> /\ before' = << >> /\ doubt' = doubt \cup Meets(h)
      /\ UNCHANGED <<registers, muted, hold, seen, own>>
  BY Unpacked DEF MoveWorkspaceTo
<1>2. c \in Locals /\ c.at = "moved" /\ c.after = "reply" /\ c.to = t
  <2>1. call[h] \in Locals /\ call[h].after = "reply"
    BY <1>1, Unpacked, IdleFields
  <2>2. QED
    BY <2>1 DEF Locals, Points, Desk
<1> HIDE DEF c
<1>3. CallOK(c)
  BY <1>2 DEF CallOK, Switching
<1>4. RestType'
  BY <1>1, Unpacked, MeetsType DEF RestType, registers, AtMostOne, Desk
<1>5. ASSUME doubt' = {}
      PROVE  /\ \A k \in Handlers \ {h} : call[k].at = "idle"
             /\ LentOK(c, borrowed', mode', own')
  BY <1>1, <1>2, <1>5, Begins DEF AtRest, LentOK, registers
<1>6. StillMuted(before', muted') /\ LandingOK(c, borrowed', stands', landed') /\ PanicOK(c, mode', before')
  BY <1>1 DEF StillMuted, LandingOK, PanicOK
<1>7. QED
  BY <1>1, <1>2, <1>3, <1>4, <1>5, <1>6, Moved

\* panic, pressed away from the decoy
LEMMA HideStep ==
  ASSUME DeskInv, NEW h \in Handlers, NEW knew \in BOOLEAN, Hide(h, knew)
  PROVE  DeskInv'
<1> DEFINE k == [decoy |-> Decoy, from |-> WhereWeAre, mode |-> mode, unmute |-> knew /\ ~muted]
           p == [mode |-> mode, muted |-> muted]
           c == [call[h] EXCEPT !.at = "switch", !.after = "hide", !.to = Decoy,
                                !.left = Screens, !.held = k]
<1>1. /\ call[h] = Idle /\ call' = [call EXCEPT ![h] = c] /\ NoteDesk(focused)
      /\ landed' = << >> /\ before' = << p >> /\ doubt' = doubt \cup Meets(h)
      /\ UNCHANGED <<focused, borrowed, mode, muted, hold, seen, own, stands>>
  BY Unpacked DEF Hide
<1>2. k \in Holds /\ k.mode = mode /\ (k.unmute => ~muted)
  BY Unpacked, DesksAssumption DEF Holds, RestType, WhereWeAre, Desk
<1>3. p \in Befores /\ p.mode = mode /\ p.muted = muted
  BY Unpacked DEF Befores, RestType
<1> HIDE DEF k, p
<1>4. /\ c \in Locals /\ c.at = "switch" /\ c.after = "hide" /\ c.to = Decoy
      /\ c.left = Screens /\ c.held = k
  <2>1. call[h] \in Locals /\ Screens \in 0 .. Screens /\ Decoy \in Desk
    BY Unpacked, ScreensAssumption, DesksAssumption DEF Desk
  <2>2. QED
    BY <1>2, <2>1 DEF Locals, Points
<1> HIDE DEF c
<1>5. CallOK(c)
  BY <1>2, <1>4, Unpacked, ScreensAssumption, DesksAssumption DEF CallOK, Switching, RestType
<1>6. RestType'
  <2>1. onDesk' \in Desk /\ doubt' \subseteq {"overlap", "fault"}
    BY <1>1, Unpacked, NoteType, MeetsType DEF RestType
  <2>2. QED
    BY <1>1, <1>3, <2>1, Unpacked DEF RestType, AtMostOne
<1>7. ASSUME doubt' = {}
      PROVE  /\ \A g \in Handlers \ {h} : call[g].at = "idle"
             /\ LentOK(c, borrowed', mode', own')
  BY <1>1, <1>4, <1>7, Begins DEF AtRest, LentOK
<1>8. LandingOK(c, borrowed', stands', landed')
  BY <1>1 DEF LandingOK
<1>9. StillMuted(before', muted') /\ PanicOK(c, mode', before')
  BY <1>1, <1>2, <1>3, <1>4 DEF StillMuted, PanicOK, Matches
<1>10. QED
  BY <1>1, <1>4, <1>5, <1>6, <1>7, <1>8, <1>9, Moved

\* and on it, while it is holding
LEMMA ComeBackStep ==
  ASSUME DeskInv, NEW h \in Handlers, ComeBack(h)
  PROVE  DeskInv'
<1> DEFINE at == IF hold.from \notin {None, hold.decoy} THEN "switch" ELSE "unmute"
           c == [call[h] EXCEPT !.after = "back", !.held = hold, !.to = hold.from,
                                !.left = Screens, !.set = hold.mode, !.at = at]
<1>1. /\ call[h] = Idle /\ call' = [call EXCEPT ![h] = c] /\ NoteDesk(focused)
      /\ hold.decoy # None
      /\ landed' = << >> /\ before' = before /\ doubt' = doubt \cup Meets(h)
      /\ UNCHANGED <<focused, borrowed, mode, muted, hold, seen, own, stands>>
  BY Unpacked DEF ComeBack
<1>2. /\ hold \in Holds /\ hold.mode \in Modes /\ hold.from \in Desk
  BY <1>1, Unpacked DEF RestType, HoldOK, Holds
<1>3. at \in {"switch", "unmute"} /\ (at = "switch" => hold.from \in Desks)
  BY <1>2 DEF Desk
<1> HIDE DEF at
<1>4. /\ c \in Locals /\ c.at = at /\ c.after = "back" /\ c.to = hold.from
      /\ c.left = Screens /\ c.held = hold /\ c.set = hold.mode
  <2>1. call[h] \in Locals /\ Screens \in 0 .. Screens
    BY Unpacked, ScreensAssumption
  <2>2. QED
    BY <1>2, <1>3, <2>1 DEF Locals, Points
<1> HIDE DEF c
<1>5. CallOK(c)
  BY <1>2, <1>3, <1>4, ScreensAssumption DEF CallOK, Switching
<1>6. RestType'
  <2>1. onDesk' \in Desk /\ doubt' \subseteq {"overlap", "fault"}
    BY <1>1, Unpacked, NoteType, MeetsType DEF RestType
  <2>2. QED
    BY <1>1, <2>1, Unpacked DEF RestType, AtMostOne
<1>7. ASSUME doubt' = {}
      PROVE  /\ \A g \in Handlers \ {h} : call[g].at = "idle"
             /\ LentOK(c, borrowed', mode', own')
             /\ StillMuted(before', muted') /\ PanicOK(c, mode', before')
  BY <1>1, <1>3, <1>4, <1>7, Begins DEF AtRest, LentOK, PanicOK
<1>8. LandingOK(c, borrowed', stands', landed')
  BY <1>1 DEF LandingOK
<1>9. QED
  BY <1>1, <1>3, <1>4, <1>5, <1>6, <1>7, <1>8, Moved

-----------------------------------------------------------------------------
(***************************************************************************)
(* The steps of a switch.                                                  *)
(***************************************************************************)
LEMMA CaptureStep ==
  ASSUME DeskInv, NEW h \in Handlers, Capture(h)
  PROVE  DeskInv'
<1> DEFINE c == [call[h] EXCEPT !.at = "focus", !.was = onDesk]
<1>1. /\ call[h].at = "switch" /\ call' = [call EXCEPT ![h] = c] /\ NoteDesk(focused)
      /\ landed' = IF call[h].after = "reply" THEN << Begun(call[h].to) >> ELSE << >>
      /\ UNCHANGED <<focused, borrowed, mode, muted, hold, seen, own, stands, before, doubt>>
  BY Unpacked DEF Capture
<1>2. /\ call[h] \in Locals /\ CallOK(call[h]) /\ onDesk \in Desk
  BY Unpacked DEF RestType
<1>3. /\ c \in Locals /\ c.at = "focus" /\ c.was = onDesk /\ c.after = call[h].after
      /\ c.to = call[h].to /\ c.left = call[h].left /\ c.held = call[h].held
  BY <1>2 DEF Locals, Points
<1> HIDE DEF c
<1>4. CallOK(c)
  BY <1>1, <1>2, <1>3 DEF CallOK, Switching
<1>5. RestType'
  <2>1. onDesk' \in Desk
    BY <1>1, Unpacked, NoteType DEF RestType
  <2>2. Begun(call[h].to) \in Landings
    BY <1>1, <1>2 DEF Begun, Landings, CallOK, Switching
  <2>3. landed' \in AtMostOne(Landings)
    BY <1>1, <2>2 DEF AtMostOne
  <2>4. QED
    BY <1>1, <2>1, <2>3, Unpacked DEF RestType
<1>6. LandingOK(c, borrowed', stands', landed')
  <2>1. CASE call[h].after = "reply"
    <3> DEFINE b == Begun(call[h].to)
    <3>1. b.to = call[h].to /\ ~b.whole /\ (b.knew => onDesk = stands)
      BY DEF Begun
    <3> HIDE DEF b
    <3>2. landed' = << b >> /\ \A i \in DOMAIN landed' : landed'[i] = b
      BY <1>1, <2>1 DEF b
    <3>3. stands' = stands
      BY <1>1
    <3>4. QED
      BY <1>3, <2>1, <3>1, <3>2, <3>3 DEF LandingOK
  <2>2. CASE call[h].after # "reply"
    BY <1>1, <2>2 DEF LandingOK
  <2>3. QED
    BY <2>1, <2>2
<1>7. ASSUME doubt' = {}
      PROVE  /\ \A g \in Handlers \ {h} : call[g].at = "idle"
             /\ StillMuted(before', muted')
             /\ LentOK(c, borrowed', mode', own') /\ PanicOK(c, mode', before')
  BY <1>1, <1>3, <1>7, Continues DEF LentOK, PanicOK
<1>8. QED
  BY <1>1, <1>3, <1>4, <1>5, <1>6, <1>7, Moved

LEMMA FocusWorkspaceStep ==
  ASSUME DeskInv, NEW h \in Handlers, FocusWorkspace(h)
  PROVE  DeskInv'
<1> DEFINE at == IF call[h].left = 1 THEN "landed" ELSE "focus"
           c == [call[h] EXCEPT !.left = @ - 1, !.at = at]
<1>1. /\ call[h].at = "focus" /\ call' = [call EXCEPT ![h] = c] /\ focused' = call[h].to
      /\ UNCHANGED <<registers, muted, hold, seen, history>>
  BY Unpacked DEF FocusWorkspace
<1>2. /\ call[h] \in Locals /\ CallOK(call[h])
  BY Unpacked
<1>3. call[h].left \in 0 .. Screens /\ call[h].left > 0 /\ call[h].to \in Desks
  BY <1>1, <1>2 DEF Locals, CallOK, Switching
<1>4. /\ call[h].left - 1 \in 0 .. Screens
      /\ at = "focus" => call[h].left - 1 > 0
      /\ at \in {"landed", "focus"}
  BY <1>3, ScreensAssumption
<1> HIDE DEF at
<1>5. /\ c \in Locals /\ c.at = at /\ c.was = call[h].was /\ c.after = call[h].after
      /\ c.to = call[h].to /\ c.left = call[h].left - 1 /\ c.held = call[h].held
  BY <1>2, <1>4 DEF Locals, Points
<1> HIDE DEF c
<1>6. CallOK(c)
  BY <1>1, <1>2, <1>3, <1>4, <1>5 DEF CallOK, Switching
<1>7. RestType'
  BY <1>1, <1>3, Unpacked DEF RestType, registers, history, Desk
<1>8. ASSUME doubt' = {}
      PROVE  /\ \A g \in Handlers \ {h} : call[g].at = "idle"
             /\ StillMuted(before', muted')
             /\ LentOK(c, borrowed', mode', own')
             /\ LandingOK(c, borrowed', stands', landed')
             /\ PanicOK(c, mode', before')
  BY <1>1, <1>4, <1>5, <1>8, Continues
  DEF LentOK, LandingOK, PanicOK, registers, history
<1>9. QED
  BY <1>1, <1>4, <1>5, <1>6, <1>7, <1>8, Moved

LEMMA FocusFailsStep ==
  ASSUME DeskInv, NEW h \in Handlers, FocusFails(h)
  PROVE  DeskInv'
<1>1. /\ call[h].at = "focus" /\ landed' = << >>
      /\ before' = IF call[h].after = "hide" THEN << >> ELSE before
      /\ UNCHANGED <<focused, registers, muted, hold, seen, own, stands, doubt>>
  BY DEF FocusFails
<1>2. /\ call[h] \in Locals /\ CallOK(call[h]) /\ call[h].after \in {"reply", "hide", "back"}
  BY Unpacked DEF Locals
<1>3. RestType'
  BY <1>1, Unpacked DEF RestType, registers, AtMostOne
<1>4. ASSUME doubt' = {}
      PROVE  /\ \A g \in Handlers \ {h} : call[g].at = "idle"
             /\ StillMuted(before', muted')
             /\ Lent(borrowed', mode', own')
             /\ PanicOK(call[h], mode', before')
  BY <1>1, <1>4, Continues DEF LentOK, PanicOK, StillMuted, registers
<1>5. CASE call[h].after \in {"reply", "hide"}
  <2>1. call' = [call EXCEPT ![h] = Idle]
    BY <1>5 DEF FocusFails, Return
  <2>2. ASSUME doubt' = {}
        PROVE  AtRest(borrowed', mode', own', hold', landed', before')
    BY <1>1, <1>4, <1>5, <2>2 DEF AtRest, PanicOK
  <2>3. QED
    BY <1>3, <1>4, <2>1, <2>2, IdleType, IdleFields, Moved
<1>6. CASE call[h].after = "back"
  <2> DEFINE c == [call[h] EXCEPT !.at = "unmute"]
  <2>1. call' = [call EXCEPT ![h] = c]
    BY <1>6, Unpacked DEF FocusFails, Goto
  <2>2. /\ c \in Locals /\ c.at = "unmute" /\ c.after = "back" /\ c.held = call[h].held
    BY <1>2, <1>6 DEF Locals, Points
  <2> HIDE DEF c
  <2>3. CallOK(c)
    BY <1>1, <1>2, <1>6, <2>2 DEF CallOK, Switching
  <2>4. ASSUME doubt' = {}
        PROVE  /\ LentOK(c, borrowed', mode', own')
               /\ LandingOK(c, borrowed', stands', landed')
               /\ PanicOK(c, mode', before')
    BY <1>1, <1>4, <2>2, <2>4 DEF LentOK, LandingOK, PanicOK
  <2>5. QED
    BY <1>3, <1>4, <2>1, <2>2, <2>3, <2>4, Moved
<1>7. QED
  BY <1>2, <1>5, <1>6

\* what a switch goes on to
LEMMA EnteredAs ==
  ASSUME DeskInv, NEW h \in Handlers, call[h].at # "idle", Entered(h)
  PROVE  \E c \in Locals :
           /\ call' = [call EXCEPT ![h] = c] /\ CallOK(c)
           /\ \/ call[h].after = "reply" /\ c = Idle
              \/ call[h].after = "hide" /\ c.at = "choose"
                   /\ c.after = "hide" /\ c.held = call[h].held
              \/ call[h].after = "back" /\ c.at = "unmute"
                   /\ c.after = "back" /\ c.held = call[h].held
<1>1. /\ call[h] \in Locals /\ CallOK(call[h]) /\ call[h].after \in {"reply", "hide", "back"}
      /\ call[h].held \in Holds
  BY Unpacked DEF Locals
<1>2. ASSUME NEW at \in Points, NEW m \in Modes \cup {None}
      PROVE  /\ Going(h, at, m) \in Locals
             /\ Going(h, at, m).at = at /\ Going(h, at, m).set = m
             /\ Going(h, at, m).after = call[h].after /\ Going(h, at, m).held = call[h].held
  <2>1. Idle \in Locals
    BY IdleType
  <2>2. QED
    BY <1>1, <2>1 DEF Going, Locals
<1>3. CASE call[h].after = "reply"
  BY <1>3, IdleType DEF Entered, Return
<1>4. CASE call[h].after = "hide"
  <2> DEFINE c == Going(h, "choose", Quiet)
  <2>1. call' = [call EXCEPT ![h] = c]
    BY <1>4 DEF Entered
  <2>2. "choose" \in Points /\ Quiet \in Modes
    BY ModesAssumption DEF Points
  <2>3. /\ c \in Locals /\ c.at = "choose" /\ c.set = Quiet /\ c.after = "hide"
        /\ c.held = call[h].held
    BY <1>2, <1>4, <2>2
  <2> HIDE DEF c
  <2>4. CallOK(c)
    BY <1>1, <1>4, <2>2, <2>3 DEF CallOK, Switching
  <2>5. QED
    BY <1>4, <2>1, <2>3, <2>4
<1>5. CASE call[h].after = "back"
  <2> DEFINE c == Going(h, "unmute", None)
  <2>1. call' = [call EXCEPT ![h] = c]
    BY <1>5 DEF Entered
  <2>2. "unmute" \in Points
    BY DEF Points
  <2>3. /\ c \in Locals /\ c.at = "unmute" /\ c.after = "back" /\ c.held = call[h].held
    BY <1>2, <1>5, <2>2
  <2> HIDE DEF c
  <2>4. CallOK(c)
    BY <1>1, <1>5, <2>3 DEF CallOK, Switching
  <2>5. QED
    BY <1>5, <2>1, <2>3, <2>4
<1>6. QED
  BY <1>1, <1>3, <1>4, <1>5

LEMMA TheOne ==
  ASSUME NEW x
  PROVE  DOMAIN << x >> = {1} /\ << x >>[1] = x
OBVIOUS

LEMMA SetOnDeskStep ==
  ASSUME DeskInv, NEW h \in Handlers, SetOnDesk(h)
  PROVE  DeskInv'
<1> DEFINE t == call[h].to
<1>1. /\ call[h].at = "landed" /\ stands' = t
      /\ onDesk' = t \/ onDesk' = onDesk
      /\ doubt' = doubt \/ doubt' = doubt \cup {"fault"}
      /\ landed' = (IF stands = t \/ landed = << >> THEN << >>
                    ELSE << [landed[1] EXCEPT !.whole = TRUE] >>)
      /\ UNCHANGED <<focused, borrowed, mode, muted, hold, seen, own, before>>
  BY DEF SetOnDesk, Written, Unwritten
<1>2. /\ call[h] \in Locals /\ CallOK(call[h]) /\ t \in Desks
  BY <1>1, Unpacked DEF CallOK, Switching
<1>3. \/ landed' = << >>
      \/ \E l \in Landings : /\ landed = << l >> /\ landed' = << [l EXCEPT !.whole = TRUE] >>
                             /\ stands # t
  <2>1. landed = << >> \/ \E l \in Landings : landed = << l >>
    BY Unpacked DEF RestType, AtMostOne
  <2>2. CASE landed = << >>
    BY <1>1, <2>2
  <2>3. ASSUME NEW l \in Landings, landed = << l >>
        PROVE  landed # << >> /\ landed[1] = l
    BY <2>3
  <2>4. QED
    BY <1>1, <2>1, <2>2, <2>3
<1>4. landed' \in AtMostOne(Landings)
  BY <1>3 DEF AtMostOne, Landings
<1>5. RestType'
  <2>1. stands' \in Desk /\ onDesk' \in Desk
    BY <1>1, <1>2, Unpacked DEF RestType, Desk
  <2>2. doubt' \subseteq {"overlap", "fault"}
    BY <1>1, Unpacked DEF RestType
  <2>3. QED
    BY <1>1, <1>4, <2>1, <2>2, Unpacked DEF RestType
<1>6. ASSUME doubt' = {}
      PROVE  /\ doubt = {} /\ \A g \in Handlers \ {h} : call[g].at = "idle"
             /\ StillMuted(before', muted') /\ Lent(borrowed', mode', own')
             /\ LandingOK(call[h], borrowed, stands, landed)
             /\ PanicOK(call[h], mode', before')
  <2>1. doubt = {}
    BY <1>1, <1>6
  <2>2. QED
    BY <1>1, <2>1, Continues DEF LentOK
\* a switch that counts was made by name, to a desk nobody stood on
<1>7. ASSUME doubt' = {}, NEW i \in DOMAIN landed'
      PROVE  /\ call[h].after = "reply" /\ landed'[i].to = t
             /\ landed'[i].knew => call[h].was # t
  <2>1. PICK l \in Landings : /\ landed = << l >> /\ landed' = << [l EXCEPT !.whole = TRUE] >>
                              /\ stands # t
    BY <1>3, <1>7
  <2>2. i = 1 /\ 1 \in DOMAIN landed /\ landed[1] = l
        /\ landed'[i] = [l EXCEPT !.whole = TRUE]
    <3> DEFINE w == [l EXCEPT !.whole = TRUE]
    <3>1. landed' = << w >>
      BY <2>1
    <3> HIDE DEF w
    <3>2. i = 1 /\ landed'[i] = w
      BY <1>7, <3>1, TheOne
    <3>3. 1 \in DOMAIN landed /\ landed[1] = l
      BY <2>1, TheOne
    <3>4. QED
      BY <3>2, <3>3 DEF w
  <2>3. landed'[i].to = l.to /\ landed'[i].knew = l.knew
    BY <2>2 DEF Landings
  <2>4. l.to = t /\ (l.knew => call[h].was = stands) /\ call[h].after = "reply"
    BY <1>1, <1>6, <1>7, <2>2 DEF LandingOK
  <2>5. QED
    BY <2>1, <2>3, <2>4
<1>8. CASE call[h].was # t
  <2> DEFINE c == [call[h] EXCEPT !.at = "mode", !.was = None]
  <2>1. call' = [call EXCEPT ![h] = c]
    BY <1>8, Unpacked DEF SetOnDesk
  <2>2. /\ c \in Locals /\ c.at = "mode" /\ c.after = call[h].after /\ c.to = t
        /\ c.held = call[h].held
    BY <1>2 DEF Locals, Points, Desk
  <2> HIDE DEF c
  <2>3. CallOK(c)
    BY <1>1, <1>2, <2>2 DEF CallOK, Switching
  <2>4. ASSUME doubt' = {}
        PROVE  /\ LentOK(c, borrowed', mode', own') /\ PanicOK(c, mode', before')
               /\ LandingOK(c, borrowed', stands', landed')
    BY <1>1, <1>6, <1>7, <2>2, <2>4 DEF LentOK, PanicOK, LandingOK
  <2>5. QED
    BY <1>5, <1>6, <2>1, <2>2, <2>3, <2>4, Moved
<1>9. CASE call[h].was = t
  <2>1. Entered(h)
    BY <1>9 DEF SetOnDesk
  <2>2. PICK c \in Locals :
           /\ call' = [call EXCEPT ![h] = c] /\ CallOK(c)
           /\ \/ call[h].after = "reply" /\ c = Idle
              \/ call[h].after = "hide" /\ c.at = "choose"
                   /\ c.after = "hide" /\ c.held = call[h].held
              \/ call[h].after = "back" /\ c.at = "unmute"
                   /\ c.after = "back" /\ c.held = call[h].held
    BY <1>1, <2>1, EnteredAs
  <2>3. ASSUME doubt' = {}
        PROVE  /\ c.at = "idle" => AtRest(borrowed', mode', own', hold', landed', before')
               /\ c.at # "idle" =>
                    /\ LentOK(c, borrowed', mode', own') /\ PanicOK(c, mode', before')
                    /\ LandingOK(c, borrowed', stands', landed')
    <3>1. \A i \in DOMAIN landed' : call[h].after = "reply" /\ ~landed'[i].knew
      BY <1>7, <1>9, <2>3
    <3>2. CASE c.at = "idle"
      <4>1. call[h].after = "reply"
        BY <2>2, <3>2
      <4>2. DOMAIN before' = {}
        BY <1>6, <2>3, <4>1 DEF PanicOK
      <4>3. QED
        BY <1>6, <2>3, <3>1, <3>2, <4>2 DEF AtRest
    <3>3. CASE c.at # "idle"
      <4>1. /\ c.at \in {"choose", "unmute"} /\ call[h].after # "reply"
            /\ c.after = call[h].after /\ c.held = call[h].held
            /\ c.after = "back" => c.at = "unmute"
        BY <2>2, <3>3, IdleFields
      <4>2. LandingOK(c, borrowed', stands', landed')
        BY <3>1, <4>1 DEF LandingOK
      <4>3. QED
        BY <1>6, <2>3, <3>3, <4>1, <4>2 DEF LentOK, PanicOK
    <3>4. QED
      BY <3>2, <3>3
  <2>4. QED
    BY <1>5, <1>6, <2>2, <2>3, Moved
<1>10. QED
  BY <1>8, <1>9

LEMMA ReadModeStep ==
  ASSUME DeskInv, NEW h \in Handlers, ReadMode(h)
  PROVE  DeskInv'
<1> DEFINE c == [call[h] EXCEPT !.at = "loan", !.had = mode]
<1>1. /\ call[h].at = "mode" /\ call' = [call EXCEPT ![h] = c]
      /\ UNCHANGED <<focused, registers, muted, hold, seen, history>>
  BY Unpacked DEF ReadMode
<1>2. /\ call[h] \in Locals /\ CallOK(call[h]) /\ mode \in Modes
  BY Unpacked DEF RestType
<1>3. /\ c \in Locals /\ c.at = "loan" /\ c.had = mode /\ c.after = call[h].after
      /\ c.to = call[h].to /\ c.held = call[h].held
  BY <1>2 DEF Locals, Points
<1> HIDE DEF c
<1>4. CallOK(c)
  BY <1>1, <1>2, <1>3 DEF CallOK, Switching
<1>5. RestType'
  BY <1>1, Unpacked DEF RestType, registers, history
<1>6. ASSUME doubt' = {}
      PROVE  /\ \A g \in Handlers \ {h} : call[g].at = "idle"
             /\ StillMuted(before', muted')
             /\ LentOK(c, borrowed', mode', own')
             /\ LandingOK(c, borrowed', stands', landed')
             /\ PanicOK(c, mode', before')
  BY <1>1, <1>3, <1>6, Continues DEF LentOK, LandingOK, PanicOK, registers, history
<1>7. QED
  BY <1>1, <1>3, <1>4, <1>5, <1>6, Moved

-----------------------------------------------------------------------------
(***************************************************************************)
(* The steps of a desk's loan.                                             *)
(***************************************************************************)
\* the loan a desk takes, and the mode with it: the session's own is in one of them
LEMMA LoanAs ==
  ASSUME DeskInv, NEW h \in Handlers, call[h].at = "loan"
  PROVE  LET t == call[h].to
             m == IF Declares[t] # None THEN Declares[t] ELSE Returned(h, borrowed)
         IN  /\ Loan(h, borrowed) \in Loans /\ m \in Modes
             /\ Declares[t] # None => Loan(h, borrowed).desk = t
             /\ call[h].had = mode /\ Lent(borrowed, mode, own) =>
                  Lent(Loan(h, borrowed), m, own)
<1> DEFINE t == call[h].to
           x == Returned(h, borrowed)
           m == IF Declares[t] # None THEN Declares[t] ELSE x
<1>1. t \in Desks /\ call[h].had \in Modes
  BY Unpacked DEF CallOK, Switching
<1>2. borrowed \in Loans /\ mode \in Modes
  BY Unpacked DEF RestType
<1>3. /\ borrowed = Nobody \/ (borrowed.desk \in Desks /\ borrowed.mode \in Modes)
      /\ Nobody.desk = None /\ Nobody.mode = None
  BY <1>2 DEF Loans, Nobody
<1>4. None \notin Desks /\ None \notin Modes /\ Declares[t] \in Modes \cup {None}
  BY <1>1, DesksAssumption, ModesAssumption
<1>5. x = IF borrowed.desk \notin {None, t} THEN borrowed.mode ELSE call[h].had
  BY DEF Returned
<1>6. x \in Modes
  BY <1>1, <1>3, <1>4, <1>5
<1>7. CASE borrowed.desk = t
  <2>1. Loan(h, borrowed) = borrowed /\ borrowed # Nobody
    BY <1>1, <1>3, <1>4, <1>7 DEF Loan
  <2>2. Lent(borrowed, mode, own) => borrowed.mode = own /\ mode = Declares[t]
    BY <1>7, <2>1 DEF Lent
  <2>3. x = call[h].had
    BY <1>5, <1>7
  <2>4. Lent(borrowed, mode, own) => Lent(Loan(h, borrowed), m, own)
    BY <1>2, <1>4, <1>7, <2>1, <2>2 DEF Lent
  <2>5. QED
    BY <1>2, <1>4, <1>6, <1>7, <2>1, <2>4
<1>8. CASE borrowed.desk # t
  <2>1. call[h].had = mode /\ Lent(borrowed, mode, own) => x = own
    BY <1>1, <1>3, <1>4, <1>5, <1>8 DEF Lent
  <2>2. CASE Declares[t] = None
    <3>1. Loan(h, borrowed) = Nobody
      BY <1>8, <2>2 DEF Loan
    <3>2. QED
      BY <1>6, <2>1, <2>2, <3>1, IdleType DEF Lent
  <2>3. CASE Declares[t] # None
    <3> DEFINE b == [desk |-> t, mode |-> x]
    <3>1. Loan(h, borrowed) = b
      BY <1>8, <2>3 DEF Loan
    <3>2. b.desk = t /\ b.mode = x /\ b \in Loans /\ b # Nobody
      BY <1>1, <1>3, <1>4, <1>6 DEF Loans
    <3> HIDE DEF b
    <3>3. QED
      BY <1>4, <2>1, <2>3, <3>1, <3>2 DEF Lent
  <2>4. QED
    BY <2>2, <2>3
<1>9. QED
  BY <1>7, <1>8

LEMMA ReadLoanStep ==
  ASSUME DeskInv, NEW h \in Handlers, ReadLoan(h)
  PROVE  DeskInv'
<1> DEFINE t == call[h].to
           b == Loan(h, borrowed)
           m == IF Declares[t] # None THEN Declares[t] ELSE Returned(h, borrowed)
           c == [call[h] EXCEPT !.at = "lend", !.loan = b, !.set = m]
<1>1. /\ call[h].at = "loan" /\ call' = [call EXCEPT ![h] = c]
      /\ UNCHANGED <<focused, registers, muted, hold, seen, history>>
  BY Unpacked DEF ReadLoan
<1>2. /\ b \in Loans /\ m \in Modes /\ (Declares[t] # None => b.desk = t)
      /\ call[h].had = mode /\ Lent(borrowed, mode, own) => Lent(b, m, own)
      /\ Declares[t] # None => m = Declares[t]
  BY <1>1, LoanAs
<1>3. /\ call[h] \in Locals /\ CallOK(call[h])
  BY Unpacked
<1> HIDE DEF b, m
<1>4. /\ c \in Locals /\ c.at = "lend" /\ c.had = call[h].had /\ c.after = call[h].after
      /\ c.to = t /\ c.held = call[h].held /\ c.loan = b /\ c.set = m
  BY <1>2, <1>3 DEF Locals, Points
<1> HIDE DEF c
<1>5. CallOK(c)
  BY <1>1, <1>2, <1>3, <1>4 DEF CallOK, Switching
<1>6. RestType'
  BY <1>1, Unpacked DEF RestType, registers, history
<1>7. ASSUME doubt' = {}
      PROVE  /\ \A g \in Handlers \ {h} : call[g].at = "idle"
             /\ StillMuted(before', muted')
             /\ PanicOK(c, mode', before')
             /\ LentOK(c, borrowed', mode', own')
             /\ LandingOK(c, borrowed', stands', landed')
  <2>1. /\ borrowed' = borrowed /\ mode' = mode /\ own' = own /\ stands' = stands
        /\ landed' = landed /\ before' = before /\ muted' = muted /\ doubt = {}
    BY <1>1, <1>7 DEF registers, history
  <2>2. /\ \A g \in Handlers \ {h} : call[g].at = "idle"
        /\ StillMuted(before, muted)
        /\ LentOK(call[h], borrowed, mode, own)
        /\ LandingOK(call[h], borrowed, stands, landed)
        /\ PanicOK(call[h], mode, before)
    BY <1>1, <2>1, Continues
  <2>3. LentOK(c, borrowed, mode, own)
    BY <1>1, <1>2, <1>4, <2>2 DEF LentOK
  <2>4. LandingOK(c, borrowed, stands, landed)
    BY <1>1, <1>2, <1>4, <2>2 DEF LandingOK, Applies
  <2>5. PanicOK(c, mode, before)
    BY <1>4, <2>2 DEF PanicOK
  <2>6. QED
    BY <2>1, <2>2, <2>3, <2>4, <2>5
<1>8. QED
  BY <1>1, <1>4, <1>5, <1>6, <1>7, Moved

LEMMA SetBorrowedStep ==
  ASSUME DeskInv, NEW h \in Handlers, SetBorrowed(h)
  PROVE  DeskInv'
<1> DEFINE c == [call[h] EXCEPT !.at = "apply", !.loan = Nobody, !.to = None]
<1>1. /\ call[h].at = "lend" /\ call' = [call EXCEPT ![h] = c]
      /\ \/ borrowed' = call[h].loan /\ doubt' = doubt
         \/ borrowed' = borrowed /\ doubt' = doubt \cup {"fault"}
      /\ UNCHANGED <<focused, onDesk, mode, muted, hold, seen, own, stands, landed, before>>
  BY Unpacked DEF SetBorrowed, Written, Unwritten
<1>2. /\ call[h] \in Locals /\ CallOK(call[h]) /\ call[h].loan \in Loans
  BY Unpacked DEF Locals
<1>3. /\ c \in Locals /\ c.at = "apply" /\ c.had = call[h].had /\ c.after = call[h].after
      /\ c.held = call[h].held /\ c.set = call[h].set
  BY <1>2, IdleType DEF Locals, Points, Desk
<1> HIDE DEF c
<1>4. CallOK(c)
  BY <1>1, <1>2, <1>3 DEF CallOK, Switching
<1>5. RestType'
  BY <1>1, <1>2, Unpacked DEF RestType
<1>6. ASSUME doubt' = {}
      PROVE  /\ \A g \in Handlers \ {h} : call[g].at = "idle"
             /\ StillMuted(before', muted')
             /\ LentOK(c, borrowed', mode', own')
             /\ LandingOK(c, borrowed', stands', landed')
             /\ PanicOK(c, mode', before')
  <2>1. doubt = {} /\ borrowed' = call[h].loan
    BY <1>1, <1>6
  <2>2. QED
    BY <1>1, <1>3, <2>1, Continues DEF LentOK, LandingOK, PanicOK
<1>7. QED
  BY <1>1, <1>3, <1>4, <1>5, <1>6, Moved

LEMMA ApplyModeStep ==
  ASSUME DeskInv, NEW h \in Handlers, ApplyMode(h)
  PROVE  DeskInv'
<1>1. /\ call[h].at = "apply" /\ Entered(h)
      /\ \/ mode' = (IF call[h].set # call[h].had THEN call[h].set ELSE mode) /\ doubt' = doubt
         \/ mode' = mode /\ doubt' = doubt \cup {"fault"}
      /\ UNCHANGED <<focused, onDesk, borrowed, muted, hold, seen, own, stands, landed, before>>
  BY DEF ApplyMode, Written, Unwritten
<1>2. /\ call[h] \in Locals /\ CallOK(call[h]) /\ call[h].set \in Modes
  BY <1>1, Unpacked DEF CallOK
<1>3. RestType'
  BY <1>1, <1>2, Unpacked DEF RestType
<1>4. PICK c \in Locals :
         /\ call' = [call EXCEPT ![h] = c] /\ CallOK(c)
         /\ \/ call[h].after = "reply" /\ c = Idle
            \/ call[h].after = "hide" /\ c.at = "choose"
                 /\ c.after = "hide" /\ c.held = call[h].held
            \/ call[h].after = "back" /\ c.at = "unmute"
                 /\ c.after = "back" /\ c.held = call[h].held
  BY <1>1, EnteredAs
<1>5. ASSUME doubt' = {}
      PROVE  /\ \A g \in Handlers \ {h} : call[g].at = "idle"
             /\ StillMuted(before', muted')
             /\ c.at = "idle" => AtRest(borrowed', mode', own', hold', landed', before')
             /\ c.at # "idle" =>
                  /\ LentOK(c, borrowed', mode', own')
                  /\ LandingOK(c, borrowed', stands', landed')
                  /\ PanicOK(c, mode', before')
  <2>1. /\ doubt = {}
        /\ mode' = (IF call[h].set # call[h].had THEN call[h].set ELSE mode)
    BY <1>1, <1>5
  <2>2. /\ \A g \in Handlers \ {h} : call[g].at = "idle"
        /\ StillMuted(before, muted)
        /\ Lent(borrowed, call[h].set, own) /\ call[h].had = mode
        /\ LandingOK(call[h], borrowed, stands, landed)
        /\ PanicOK(call[h], mode, before)
    BY <1>1, <2>1, Continues DEF LentOK
  <2>3. mode' = call[h].set
    BY <2>1, <2>2
  <2>4. CASE c.at = "idle"
    <3>1. call[h].after = "reply"
      BY <1>4, <2>4
    <3>2. DOMAIN before = {}
      BY <2>2, <3>1 DEF PanicOK
    <3>3. \A i \in DOMAIN landed : landed[i].knew /\ Applies(landed[i]) =>
            mode' = Declares[landed[i].to] /\ borrowed.desk = landed[i].to
      BY <1>1, <2>2, <2>3 DEF LandingOK
    <3>4. QED
      BY <1>1, <2>2, <2>3, <2>4, <3>2, <3>3 DEF AtRest
  <2>5. CASE c.at # "idle"
    <3>1. /\ c.at \in {"choose", "unmute"} /\ call[h].after # "reply"
          /\ c.after = call[h].after /\ c.held = call[h].held
          /\ c.after = "back" => c.at = "unmute"
      BY <1>4, <2>5, IdleFields
    <3>2. DOMAIN landed = {}
      BY <2>2, <3>1 DEF LandingOK
    <3>3. QED
      BY <1>1, <2>2, <2>3, <2>5, <3>1, <3>2 DEF LentOK, PanicOK, LandingOK
  <2>6. QED
    BY <1>1, <2>2, <2>4, <2>5
<1>6. QED
  BY <1>3, <1>4, <1>5, Moved

-----------------------------------------------------------------------------
(***************************************************************************)
(* The steps of a mode set by name, and of panic.                          *)
(***************************************************************************)
\* what setMode answers to
LEMMA ChosenAs ==
  ASSUME DeskInv, NEW h \in Handlers, call[h].at \in {"choose", "settle"}, Chosen(h)
  PROVE  \E c \in Locals :
           /\ call' = [call EXCEPT ![h] = c] /\ CallOK(c)
           /\ \/ call[h].after = "reply" /\ c = Idle
              \/ /\ call[h].after = "hide" /\ c.at = "mute"
                 /\ c.after = call[h].after /\ c.held = call[h].held
              \/ /\ call[h].after = "back" /\ c.at = "letgo"
                 /\ c.after = call[h].after /\ c.held = call[h].held
<1>1. /\ call[h] \in Locals /\ CallOK(call[h]) /\ call[h].after \in {"reply", "hide", "back"}
  BY Unpacked DEF Locals
<1>2. CASE call[h].after = "reply"
  BY <1>2, IdleType DEF Chosen, Return
<1>3. CASE call[h].after = "hide"
  <2> DEFINE c == [call[h] EXCEPT !.at = "mute"]
  <2>1. call' = [call EXCEPT ![h] = c]
    BY <1>3, Unpacked DEF Chosen, Goto
  <2>2. /\ c \in Locals /\ c.at = "mute" /\ c.after = call[h].after /\ c.held = call[h].held
    BY <1>1 DEF Locals, Points
  <2> HIDE DEF c
  <2>3. CallOK(c)
    BY <1>1, <1>3, <2>2 DEF CallOK, Switching
  <2>4. QED
    BY <1>3, <2>1, <2>2, <2>3
<1>4. CASE call[h].after = "back"
  <2> DEFINE c == [call[h] EXCEPT !.at = "letgo"]
  <2>1. call' = [call EXCEPT ![h] = c]
    BY <1>4, Unpacked DEF Chosen, Goto
  <2>2. /\ c \in Locals /\ c.at = "letgo" /\ c.after = call[h].after /\ c.held = call[h].held
    BY <1>1 DEF Locals, Points
  <2> HIDE DEF c
  <2>3. CallOK(c)
    BY <1>1, <1>4, <2>2 DEF CallOK, Switching
  <2>4. QED
    BY <1>4, <2>1, <2>2, <2>3
<1>5. QED
  BY <1>1, <1>2, <1>3, <1>4

LEMMA SetModeStep ==
  ASSUME DeskInv, NEW h \in Handlers, SetMode(h)
  PROVE  DeskInv'
<1>1. /\ call[h].at = "choose" /\ call[h] \in Locals /\ CallOK(call[h])
      /\ call[h].set \in Modes
      /\ UNCHANGED <<focused, onDesk, borrowed, muted, hold, seen, stands>>
  BY Unpacked DEF SetMode, CallOK
<1>2. CASE /\ mode' = call[h].set /\ own' = call[h].set /\ Goto(h, "settle")
           /\ IF call[h].after = "reply" THEN Overrule(h) ELSE UNCHANGED <<landed, before, doubt>>
  <2> DEFINE c == [call[h] EXCEPT !.at = "settle"]
  <2>1. call' = [call EXCEPT ![h] = c]
    BY <1>2, Unpacked DEF Goto
  <2>2. /\ c \in Locals /\ c.at = "settle" /\ c.after = call[h].after /\ c.held = call[h].held
        /\ c.set = call[h].set
    BY <1>1 DEF Locals, Points
  <2> HIDE DEF c
  <2>3. CallOK(c)
    BY <1>1, <2>2 DEF CallOK, Switching
  <2>4. LentOK(c, borrowed', mode', own')
    BY <1>2, <2>2 DEF LentOK
  <2>5. CASE call[h].after = "reply"
    <3>1. /\ landed' = << >> /\ before' = << >>
          /\ doubt' = (IF Meets(h) = {} THEN {} ELSE doubt)
      BY <1>2, <2>5 DEF Overrule
    <3>2. RestType'
      BY <1>1, <1>2, <3>1, Unpacked DEF RestType, AtMostOne
    <3>3. ASSUME doubt' = {}
          PROVE  \A g \in Handlers \ {h} : call[g].at = "idle"
      <4>1. CASE Meets(h) = {}
        BY <4>1, IdleFields DEF Meets
      <4>2. CASE Meets(h) # {}
        BY <1>1, <3>1, <3>3, <4>2, Continues
      <4>3. QED
        BY <4>1, <4>2
    <3>4. /\ StillMuted(before', muted') /\ LandingOK(c, borrowed', stands', landed')
          /\ PanicOK(c, mode', before')
      BY <3>1 DEF StillMuted, LandingOK, PanicOK
    <3>5. QED
      BY <2>1, <2>2, <2>3, <2>4, <3>2, <3>3, <3>4, Moved
  <2>6. CASE call[h].after # "reply"
    <3>1. landed' = landed /\ before' = before /\ doubt' = doubt
      BY <1>2, <2>6
    <3>2. RestType'
      BY <1>1, <1>2, <3>1, Unpacked DEF RestType
    <3>3. ASSUME doubt' = {}
          PROVE  /\ \A g \in Handlers \ {h} : call[g].at = "idle"
                 /\ StillMuted(before', muted')
                 /\ LandingOK(c, borrowed', stands', landed')
                 /\ PanicOK(c, mode', before')
      BY <1>1, <1>2, <2>2, <3>1, <3>3, Continues DEF LandingOK, PanicOK
    <3>4. QED
      BY <2>1, <2>2, <2>3, <2>4, <3>2, <3>3, Moved
  <2>7. QED
    BY <2>5, <2>6
<1>3. CASE Chosen(h) /\ Unwritten /\ UNCHANGED <<mode, own, landed, before>>
  <2>1. doubt' = doubt \cup {"fault"}
    BY <1>3 DEF Unwritten
  <2>2. RestType'
    BY <1>1, <1>3, <2>1, Unpacked DEF RestType
  <2>3. PICK c \in Locals : call' = [call EXCEPT ![h] = c] /\ CallOK(c)
    BY <1>1, <1>3, ChosenAs
  <2>4. doubt' # {}
    BY <2>1
  <2>5. QED
    BY <2>2, <2>3, <2>4, Moved
<1>4. QED
  BY <1>2, <1>3 DEF SetMode

LEMMA EndLoanStep ==
  ASSUME DeskInv, NEW h \in Handlers, EndLoan(h)
  PROVE  DeskInv'
<1>1. /\ call[h].at = "settle" /\ Chosen(h)
      /\ \/ borrowed' = Nobody /\ doubt' = doubt
         \/ borrowed' = borrowed /\ doubt' = doubt \cup {"fault"}
      /\ UNCHANGED <<focused, onDesk, mode, muted, hold, seen, own, stands, landed, before>>
  BY DEF EndLoan, Written, Unwritten
<1>2. RestType'
  BY <1>1, IdleType, Unpacked DEF RestType
<1>3. PICK c \in Locals :
         /\ call' = [call EXCEPT ![h] = c] /\ CallOK(c)
         /\ \/ call[h].after = "reply" /\ c = Idle
            \/ /\ call[h].after = "hide" /\ c.at = "mute"
               /\ c.after = call[h].after /\ c.held = call[h].held
            \/ /\ call[h].after = "back" /\ c.at = "letgo"
               /\ c.after = call[h].after /\ c.held = call[h].held
  BY <1>1, ChosenAs
<1>4. ASSUME doubt' = {}
      PROVE  /\ \A g \in Handlers \ {h} : call[g].at = "idle"
             /\ StillMuted(before', muted')
             /\ c.at = "idle" => AtRest(borrowed', mode', own', hold', landed', before')
             /\ c.at # "idle" =>
                  /\ LentOK(c, borrowed', mode', own')
                  /\ LandingOK(c, borrowed', stands', landed')
                  /\ PanicOK(c, mode', before')
  <2>1. doubt = {} /\ borrowed' = Nobody
    BY <1>1, <1>4
  <2>2. /\ \A g \in Handlers \ {h} : call[g].at = "idle"
        /\ StillMuted(before, muted) /\ mode = own
        /\ LandingOK(call[h], borrowed, stands, landed)
        /\ PanicOK(call[h], mode, before)
    BY <1>1, <2>1, Continues DEF LentOK
  <2>3. DOMAIN landed = {} /\ Lent(borrowed', mode', own')
    BY <1>1, <2>1, <2>2 DEF LandingOK, Lent
  <2>4. CASE c.at = "idle"
    <3>1. call[h].after = "reply"
      BY <1>3, <2>4
    <3>2. DOMAIN before = {}
      BY <2>2, <3>1 DEF PanicOK
    <3>3. QED
      BY <1>1, <2>2, <2>3, <2>4, <3>2 DEF AtRest
  <2>5. CASE c.at # "idle"
    <3>1. /\ c.at \in {"mute", "letgo"} /\ call[h].after # "reply"
          /\ c.after = call[h].after /\ c.held = call[h].held
      BY <1>3, <2>5, IdleFields
    <3>2. QED
      BY <1>1, <2>2, <2>3, <2>5, <3>1 DEF LentOK, PanicOK, LandingOK
  <2>6. QED
    BY <1>1, <2>2, <2>4, <2>5
<1>5. QED
  BY <1>2, <1>3, <1>4, Moved

LEMMA MuteStep ==
  ASSUME DeskInv, NEW h \in Handlers, NEW works \in BOOLEAN, Mute(h, works)
  PROVE  DeskInv'
<1> DEFINE k == [call[h].held EXCEPT !.unmute = @ /\ works]
<1>1. /\ call[h].at = "mute" /\ call' = [call EXCEPT ![h] = Idle]
      /\ muted' = (muted \/ works) /\ hold' = k
      /\ UNCHANGED <<focused, registers, seen, history>>
  BY DEF Mute, Return
<1>2. call[h].held \in Holds /\ call[h].held.mode \in Modes /\ call[h].after = "hide"
  BY <1>1, Unpacked DEF Locals, CallOK
<1>3. k \in Holds /\ k.mode = call[h].held.mode /\ (k.unmute => call[h].held.unmute)
  BY <1>2 DEF Holds
<1> HIDE DEF k
<1>4. RestType'
  BY <1>1, <1>2, <1>3, Unpacked DEF RestType, HoldOK, registers, history
<1>5. ASSUME doubt' = {}
      PROVE  /\ \A g \in Handlers \ {h} : call[g].at = "idle"
             /\ StillMuted(before', muted')
             /\ AtRest(borrowed', mode', own', hold', landed', before')
  <2>1. /\ borrowed' = borrowed /\ mode' = mode /\ own' = own
        /\ landed' = landed /\ before' = before /\ doubt = {}
    BY <1>1, <1>5 DEF registers, history
  <2>2. /\ \A g \in Handlers \ {h} : call[g].at = "idle"
        /\ StillMuted(before, muted) /\ Lent(borrowed, mode, own)
        /\ DOMAIN landed = {}
        /\ \A i \in DOMAIN before : Matches(call[h].held, before[i])
    BY <1>1, <2>1, Continues DEF LentOK, LandingOK, PanicOK
  <2>3. StillMuted(before, muted')
    BY <1>1, <2>2 DEF StillMuted
  <2>4. QED
    BY <1>1, <1>3, <2>1, <2>2, <2>3 DEF AtRest, Matches
<1>6. QED
  BY <1>1, <1>4, <1>5, IdleType, IdleFields, Moved

LEMMA UnmuteStep ==
  ASSUME DeskInv, NEW h \in Handlers, NEW works \in BOOLEAN, Unmute(h, works)
  PROVE  DeskInv'
<1> DEFINE c == [call[h] EXCEPT !.at = "choose", !.set = call[h].held.mode]
<1>1. /\ call[h].at = "unmute" /\ call' = [call EXCEPT ![h] = c]
      /\ muted' = (muted /\ ~(call[h].held.unmute /\ works))
      /\ UNCHANGED <<focused, registers, hold, seen, history>>
  BY Unpacked DEF Unmute
<1>2. call[h] \in Locals /\ CallOK(call[h]) /\ call[h].held.mode \in Modes
  BY <1>1, Unpacked DEF CallOK
<1>3. /\ c \in Locals /\ c.at = "choose" /\ c.after = call[h].after
      /\ c.held = call[h].held /\ c.set = call[h].held.mode
  BY <1>2 DEF Locals, Points
<1> HIDE DEF c
<1>4. CallOK(c)
  BY <1>1, <1>2, <1>3 DEF CallOK, Switching
<1>5. RestType'
  BY <1>1, Unpacked DEF RestType, registers, history
<1>6. ASSUME doubt' = {}
      PROVE  /\ \A g \in Handlers \ {h} : call[g].at = "idle"
             /\ StillMuted(before', muted')
             /\ LentOK(c, borrowed', mode', own')
             /\ LandingOK(c, borrowed', stands', landed')
             /\ PanicOK(c, mode', before')
  <2>1. /\ borrowed' = borrowed /\ mode' = mode /\ own' = own
        /\ landed' = landed /\ before' = before /\ doubt = {}
    BY <1>1, <1>6 DEF registers, history
  <2>2. /\ \A g \in Handlers \ {h} : call[g].at = "idle"
        /\ StillMuted(before, muted) /\ Lent(borrowed, mode, own)
        /\ DOMAIN landed = {} /\ PanicOK(call[h], mode, before)
    BY <1>1, <2>1, Continues DEF LentOK, LandingOK
  <2>3. StillMuted(before, muted')
    BY <1>1, <2>2 DEF StillMuted, PanicOK, Matches
  <2>4. PanicOK(c, mode, before)
    BY <1>3, <2>2 DEF PanicOK, Matches
  <2>5. QED
    BY <1>3, <2>1, <2>2, <2>3, <2>4 DEF LentOK, LandingOK
<1>7. QED
  BY <1>1, <1>3, <1>4, <1>5, <1>6, Moved

LEMMA LetGoStep ==
  ASSUME DeskInv, NEW h \in Handlers, LetGo(h)
  PROVE  DeskInv'
<1>1. /\ call[h].at = "letgo" /\ call' = [call EXCEPT ![h] = Idle]
      /\ hold' = hold \/ hold' = NotHeld
      /\ before' = << >>
      /\ UNCHANGED <<focused, registers, muted, seen, own, stands, landed, doubt>>
  BY DEF LetGo, Return
<1>2. HoldOK(NotHeld)
  BY DEF HoldOK, NotHeld
<1>3. RestType'
  BY <1>1, <1>2, IdleType, Unpacked DEF RestType, registers, AtMostOne
<1>4. ASSUME doubt' = {}
      PROVE  /\ \A g \in Handlers \ {h} : call[g].at = "idle"
             /\ StillMuted(before', muted')
             /\ AtRest(borrowed', mode', own', hold', landed', before')
  <2>1. borrowed' = borrowed /\ mode' = mode /\ own' = own /\ landed' = landed /\ doubt = {}
    BY <1>1, <1>4 DEF registers
  <2>2. /\ \A g \in Handlers \ {h} : call[g].at = "idle"
        /\ Lent(borrowed, mode, own) /\ DOMAIN landed = {}
    BY <1>1, <2>1, Continues DEF LentOK, LandingOK
  <2>3. QED
    BY <1>1, <2>1, <2>2 DEF AtRest, StillMuted
<1>5. QED
  BY <1>1, <1>3, <1>4, IdleType, IdleFields, Moved

LEMMA NoteMoveStep ==
  ASSUME DeskInv, NEW h \in Handlers, NoteMove(h)
  PROVE  DeskInv'
<1>1. /\ call[h].at = "moved" /\ call' = [call EXCEPT ![h] = Idle]
      /\ onDesk' = call[h].to \/ onDesk' = onDesk
      /\ doubt' = doubt \/ doubt' = doubt \cup {"fault"}
      /\ UNCHANGED <<focused, borrowed, mode, muted, hold, seen, own, stands, landed, before>>
  BY DEF NoteMove, Return, Written, Unwritten
<1>2. call[h].to \in Desk /\ call[h].after = "reply"
  BY <1>1, Unpacked DEF CallOK, Desk
<1>3. RestType'
  BY <1>1, <1>2, Unpacked DEF RestType
<1>4. ASSUME doubt' = {}
      PROVE  /\ \A g \in Handlers \ {h} : call[g].at = "idle"
             /\ StillMuted(before', muted')
             /\ AtRest(borrowed', mode', own', hold', landed', before')
  <2>1. doubt = {}
    BY <1>1, <1>4
  <2>2. /\ \A g \in Handlers \ {h} : call[g].at = "idle"
        /\ StillMuted(before, muted) /\ Lent(borrowed, mode, own)
        /\ DOMAIN landed = {} /\ DOMAIN before = {}
    BY <1>1, <1>2, <2>1, Continues DEF LentOK, LandingOK, PanicOK
  <2>3. QED
    BY <1>1, <2>2 DEF AtRest
<1>5. QED
  BY <1>1, <1>3, <1>4, IdleType, IdleFields, Moved


-----------------------------------------------------------------------------
(***************************************************************************)
(* The steps of nobody's call.                                             *)
(***************************************************************************)
\* no call moved, and what the last switch and the last panic left stands or is overruled
LEMMA Unmoved ==
  ASSUME DeskInv, RestType',
         UNCHANGED <<borrowed, mode, muted, hold, call, own, doubt>>,
         \/ UNCHANGED <<stands, landed, before>>
         \/ landed' = << >> /\ before' = << >>
  PROVE  DeskInv'
<1>1. TypeInv'
  BY Unpacked DEF TypeInv, TypeOK, RestType
<1>2. ASSUME doubt' = {}
      PROVE  /\ Alone' /\ StillMuted(before', muted')
             /\ Quiescent' => AtRest(borrowed', mode', own', hold', landed', before')
             /\ \A h \in Handlers : call'[h].at # "idle" =>
                  /\ LentOK(call'[h], borrowed', mode', own')
                  /\ LandingOK(call'[h], borrowed', stands', landed')
                  /\ PanicOK(call'[h], mode', before')
  <2>1. /\ Alone /\ StillMuted(before, muted)
        /\ Quiescent => AtRest(borrowed, mode, own, hold, landed, before)
        /\ \A h \in Handlers : call[h].at # "idle" =>
             /\ LentOK(call[h], borrowed, mode, own)
             /\ LandingOK(call[h], borrowed, stands, landed)
             /\ PanicOK(call[h], mode, before)
    BY <1>2 DEF DeskInv, SoundInv
  <2>2. Alone' /\ (Quiescent' => Quiescent)
    BY <2>1 DEF Alone, Quiescent
  <2>3. CASE UNCHANGED <<stands, landed, before>>
    BY <2>1, <2>2, <2>3
  <2>4. CASE landed' = << >> /\ before' = << >>
    BY <2>1, <2>2, <2>4 DEF AtRest, LandingOK, PanicOK, StillMuted
  <2>5. QED
    BY <2>3, <2>4
<1>3. SoundInv'
  BY <1>2 DEF SoundInv
<1>4. QED
  BY <1>1, <1>3 DEF DeskInv

LEMMA NoteStep ==
  ASSUME DeskInv, Note
  PROVE  DeskInv'
<1>1. seen[1] \in Desks
  BY Unpacked DEF Note, RestType, AtMostOne
<1>2. onDesk' \in Desk
  BY <1>1, NoteType DEF Note, Desk
<1>3. RestType'
  BY <1>2, Unpacked DEF Note, RestType, AtMostOne, history
<1>4. QED
  BY <1>3, Unmoved DEF Note, history

LEMMA AskStep ==
  ASSUME DeskInv, Ask
  PROVE  DeskInv'
<1>1. focused \in Desks /\ seen' \in AtMostOne(Desks)
  BY Unpacked DEF Ask, RestType, Desk, AtMostOne
<1>2. RestType'
  BY <1>1, Unpacked DEF Ask, RestType, registers, history
<1>3. QED
  BY <1>2, Unmoved DEF Ask, registers, history

LEMMA WalkByHandStep ==
  ASSUME DeskInv, NEW d \in Walks, WalkByHand(d)
  PROVE  DeskInv'
<1>1. d \in Desk
  BY DesksAssumption DEF Desk
<1>2. RestType'
  BY <1>1, Unpacked DEF WalkByHand, RestType, registers, AtMostOne
<1>3. QED
  BY <1>2, Unmoved DEF WalkByHand, registers

\* only a crash between requests leaves nothing in doubt
LEMMA CrashStep ==
  ASSUME DeskInv, Crash
  PROVE  DeskInv'
<1>1. /\ call' = [h \in Handlers |-> Idle] /\ doubt' = IF Quiescent THEN doubt ELSE doubt \cup {"fault"}
      /\ seen' = << >> /\ hold' = NotHeld /\ before' = << >>
      /\ UNCHANGED <<focused, registers, muted, own, stands, landed>>
  BY DEF Crash
<1>2. \A h \in Handlers : call'[h] = Idle
  BY <1>1
<1>3. TypeInv'
  <2>1. call' \in [Handlers -> Locals] /\ \A h \in Handlers : CallOK(call'[h])
    BY <1>1, IdleType
  <2>2. HoldOK(NotHeld)
    BY DEF HoldOK, NotHeld
  <2>3. RestType'
    BY <1>1, <2>2, IdleType, Unpacked DEF RestType, registers, AtMostOne
  <2>4. QED
    BY <2>1, <2>3 DEF TypeInv, TypeOK, RestType
<1>4. ASSUME doubt' = {}
      PROVE  /\ Alone' /\ StillMuted(before', muted')
             /\ AtRest(borrowed', mode', own', hold', landed', before')
  <2>1. Quiescent /\ doubt = {}
    BY <1>1, <1>4
  <2>2. AtRest(borrowed, mode, own, hold, landed, before)
    BY <2>1 DEF DeskInv, SoundInv
  <2>3. Alone'
    BY <1>2, IdleFields DEF Alone
  <2>4. QED
    BY <1>1, <2>2, <2>3 DEF AtRest, StillMuted, registers
<1>5. SoundInv'
  BY <1>2, <1>4, IdleFields DEF SoundInv
<1>6. QED
  BY <1>3, <1>5 DEF DeskInv

-----------------------------------------------------------------------------
(***************************************************************************)
(* What follows.                                                           *)
(***************************************************************************)
LEMMA InitInv ==
  ASSUME Init
  PROVE  DeskInv
<1>1. /\ focused \in Desks /\ onDesk = focused /\ stands = focused
      /\ borrowed = Nobody /\ mode = Work /\ own = Work /\ muted = FALSE
      /\ hold = NotHeld /\ seen = << >> /\ call = [h \in Handlers |-> Idle]
      /\ landed = << >> /\ before = << >> /\ doubt = {}
  BY DEF Init
<1>2. \A h \in Handlers : call[h] = Idle
  BY <1>1
<1>3. call \in [Handlers -> Locals] /\ \A h \in Handlers : CallOK(call[h])
  BY <1>1, IdleType
<1>4. HoldOK(hold)
  BY <1>1 DEF HoldOK, NotHeld
<1>5. TypeInv
  BY <1>1, <1>3, <1>4, IdleType, ModesAssumption DEF TypeInv, TypeOK, Desk, AtMostOne
<1>6. Alone
  BY <1>2, IdleFields DEF Alone
<1>7. StillMuted(before, muted) /\ AtRest(borrowed, mode, own, hold, landed, before)
  BY <1>1 DEF StillMuted, AtRest, Lent
<1>8. SoundInv
  BY <1>2, <1>6, <1>7, IdleFields DEF SoundInv
<1>9. QED
  BY <1>5, <1>8 DEF DeskInv

\* a step of the call h
Handles(h) ==
  \/ \E t \in Desks : Switch(h, t)
  \/ \E t \in Desks : MoveWorkspaceTo(h, t)
  \/ \E m \in Modes : SetModeNamed(h, m)
  \/ ToggleQuiet(h)
  \/ \E knew \in BOOLEAN : Hide(h, knew)
  \/ ComeBack(h)
  \/ Capture(h)
  \/ FocusWorkspace(h)
  \/ FocusFails(h)
  \/ SetOnDesk(h)
  \/ ReadMode(h)
  \/ ReadLoan(h)
  \/ SetBorrowed(h)
  \/ ApplyMode(h)
  \/ SetMode(h)
  \/ EndLoan(h)
  \/ \E works \in BOOLEAN : Mute(h, works)
  \/ \E works \in BOOLEAN : Unmute(h, works)
  \/ LetGo(h)
  \/ NoteMove(h)

LEMMA HandlesInv ==
  ASSUME DeskInv, NEW h \in Handlers, Handles(h)
  PROVE  DeskInv'
<1>1. CASE \E m \in Modes : SetModeNamed(h, m)
  BY <1>1, ChooseStep DEF SetModeNamed
<1>2. CASE ToggleQuiet(h)
  <2>1. (IF mode = Quiet THEN Work ELSE Quiet) \in Modes
    BY ModesAssumption
  <2>2. QED
    BY <1>2, <2>1, ChooseStep DEF ToggleQuiet
<1>3. CASE \E t \in Desks : Switch(h, t)
  BY <1>3, SwitchStep
<1>4. CASE \E t \in Desks : MoveWorkspaceTo(h, t)
  BY <1>4, MoveWorkspaceStep
<1>5. CASE \E knew \in BOOLEAN : Hide(h, knew)
  BY <1>5, HideStep
<1>6. CASE \E works \in BOOLEAN : Mute(h, works)
  BY <1>6, MuteStep
<1>7. CASE \E works \in BOOLEAN : Unmute(h, works)
  BY <1>7, UnmuteStep
<1>8. QED
  BY <1>1, <1>2, <1>3, <1>4, <1>5, <1>6, <1>7, ComeBackStep, CaptureStep,
     FocusWorkspaceStep, FocusFailsStep, SetOnDeskStep, ReadModeStep, ReadLoanStep,
     SetBorrowedStep, ApplyModeStep, SetModeStep, EndLoanStep, LetGoStep, NoteMoveStep
  DEF Handles

LEMMA NextInv ==
  ASSUME DeskInv, [Next]_vars
  PROVE  DeskInv'
<1>1. CASE Ask
  BY <1>1, AskStep
<1>2. CASE Note
  BY <1>2, NoteStep
<1>3. CASE Crash
  BY <1>3, CrashStep
<1>4. CASE \E d \in Walks : WalkByHand(d)
  BY <1>4, WalkByHandStep
<1>5. CASE \E h \in Handlers : Handles(h)
  BY <1>5, HandlesInv
<1>6. CASE UNCHANGED vars
  <2>1. RestType'
    BY <1>6, Unpacked DEF vars, registers, history, RestType
  <2>2. QED
    BY <1>6, <2>1, Unmoved DEF vars, registers, history
<1>7. QED
  BY <1>1, <1>2, <1>3, <1>4, <1>5, <1>6 DEF Next, Handles

THEOREM DeskInductive == Spec => []DeskInv
<1>1. Init => DeskInv
  BY InitInv
<1>2. DeskInv /\ [Next]_vars => DeskInv'
  BY NextInv
<1>3. QED
  BY <1>1, <1>2, PTL DEF Spec

(***************************************************************************)
(* Every register, the hold of a panic and what each call carries between  *)
(* its steps are well formed: no call is ever at a step whose desk or mode *)
(* it has not worked out.                                                  *)
(***************************************************************************)
THEOREM DeskTypes == Spec => []TypeOK
<1>1. DeskInv => TypeOK
  BY DEF DeskInv, TypeInv
<1>2. QED
  BY <1>1, DeskInductive, PTL

(***************************************************************************)
(* "What was in force is written down and comes back when you leave":      *)
(* between requests the mode is the session's own, or one desk's over it,  *)
(* through switches that stop halfway, walks, panics and crashes between   *)
(* two requests (enterDesk, setMode).                                      *)
(***************************************************************************)
THEOREM OwnModeIsKept == Spec => []LentAndOwn
<1>1. DeskInv => LentAndOwn
  BY DEF DeskInv, SoundInv, AtRest, Lent, LentAndOwn
<1>2. QED
  BY <1>1, DeskInductive, PTL

(***************************************************************************)
(* "Entering a desk applies the mode it declares": the last switch landed  *)
(* on a desk the journal rightly had us away from, so its mode is in force *)
(* and on loan to it, until somebody chooses or walks (switchFrom).        *)
(***************************************************************************)
THEOREM EnteringApplies == Spec => []PolicyFollowsSwitch
<1>1. DeskInv => PolicyFollowsSwitch
  BY DEF DeskInv, SoundInv, AtRest, PolicyFollowsSwitch
<1>2. QED
  BY <1>1, DeskInductive, PTL

(***************************************************************************)
(* Only what panic took is given back: when it lets go, the mode is the    *)
(* one in force when it was pressed and a sound that was off is off        *)
(* (leavePanic).                                                           *)
(***************************************************************************)
THEOREM PanicIsUndone == Spec => PanicGivesBack
<1> DEFINE Undone(h) == LetGo(h) /\ doubt = {} =>
                          \A i \in DOMAIN before : /\ mode = before[i].mode
                                                   /\ before[i].muted => muted
<1>1. ASSUME DeskInv, NEW h \in Handlers
      PROVE  Undone(h)
  <2> SUFFICES ASSUME LetGo(h), doubt = {}, NEW i \in DOMAIN before
               PROVE  mode = before[i].mode /\ (before[i].muted => muted)
    OBVIOUS
  <2>1. call[h].at = "letgo" /\ call[h].after = "back"
    BY <1>1, Unpacked DEF LetGo, CallOK
  <2>2. StillMuted(before, muted) /\ PanicOK(call[h], mode, before)
    BY <1>1, <2>1, Continues
  <2>3. QED
    BY <2>1, <2>2 DEF PanicOK, StillMuted
<1>2. DeskInv => [\A h \in Handlers : Undone(h)]_vars
  BY <1>1
<1>3. QED
  BY <1>2, DeskInductive, PTL DEF PanicGivesBack

=============================================================================
