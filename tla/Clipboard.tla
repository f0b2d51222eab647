------------------------------ MODULE Clipboard -----------------------------
(***************************************************************************)
(* The clipboard history (internal/clip, internal/zded clip*.go): the      *)
(* watcher that is rung when the selection changes and asks what it is     *)
(* before it reads it, the ring with its expiry, and requests that put an  *)
(* entry back, which is a change of the selection too.                     *)
(*                                                                         *)
(* What is offered and what it says are two runs of wl-paste, so that the  *)
(* selection may change in between; a put is a copy of the entry, the      *)
(* expectation of its echo, and the write.  The selection is external: it  *)
(* changes at any time, rings once or several times, and is rung about     *)
(* again when a watch starts.  Time is counted in ticks; sleeping ends on  *)
(* its tick, and one run of wl-paste (three seconds) crosses one at most.  *)
(***************************************************************************)
EXTENDS Integers, FiniteSets

CONSTANTS
  Copies,       \* [text, kind] that applications offer: "text", "secret", "other" or "big"
  Callers,      \* connections that ask for an entry to be put back
  ClipMax, TTL, ExpectWindow, SweepEvery,
  ClipBudgets,  \* [copy, put, clear, look, down, fail, tick]: what may happen at most
  None

VARIABLES
  sel,       \* the selection: [text, kind, by], by the entry zde wrote or 0
  bell,      \* the watch's channel of one
  watcher,   \* [at, stamp, gap]: "down", "idle", "settling" or "typed"
  entries,   \* the ring, older where the id is less: [id, text, kind, at, marked, gap]
  nextID, expect, expectAt,
  put,       \* connection -> [at, id, text, alone]: alone is history, nothing crossed it
  now, sweepAt,
  fresh,     \* history: zde's write has not been taken in yet, and nothing crossed it
  room       \* bound: what is left of the budget

vars == <<sel, bell, watcher, entries, nextID, expect, expectAt, put, now, sweepAt,
          fresh, room>>

ring  == <<entries, nextID, expect, expectAt>>
Use(what) == room[what] > 0 /\ room' = [room EXCEPT ![what] = @ - 1]
Rest  == [at |-> "idle", id |-> 0, text |-> None, alone |-> TRUE]
Resting(at) == [at |-> at, stamp |-> 0, gap |-> FALSE]

-----------------------------------------------------------------------------
(***************************************************************************)
(* The ring.                                                               *)
(***************************************************************************)
Young(t) == {e \in entries : t - e.at < TTL}
Stale(t) == expect # 0 /\ t - expectAt >= ExpectWindow
Fits(all, most) ==
  IF Cardinality(all) > most THEN {e \in all : \E f \in all : f.id < e.id} ELSE all

\* Expire, and what Text and Rows begin with
Expired ==
  /\ entries' = Young(now)
  /\ expect' = IF Stale(now) THEN 0 ELSE expect
  /\ UNCHANGED <<nextID, expectAt>>

\* mutant: one entry more than the ring has room for
PushOneMore(e) ==
  /\ nextID' = nextID + 1
  /\ entries' = Fits(entries \cup {[e EXCEPT !.id = nextID + 1]}, ClipMax + 1)
  /\ UNCHANGED <<expect, expectAt>>

\* the oldest goes when there is one too many
Push(e) ==
  /\ nextID' = nextID + 1
  /\ entries' = Fits(entries \cup {[e EXCEPT !.id = nextID + 1]}, ClipMax)
  /\ UNCHANGED <<expect, expectAt>>

\* this arrival is the change zde made
Echo(text, t) ==
  /\ expect # 0 /\ t - expectAt < ExpectWindow
  /\ \E e \in entries : e.id = expect /\ e.kind = "text" /\ e.text = text

Repeats(text, kind) ==
  \E e \in entries : /\ \A f \in entries : f.id <= e.id
                    /\ e.text = text /\ e.kind = kind

\* Add for text, Note for what is not kept, which an expectation is not asked about
Arrives(text, kind, t, marked, gap) ==
  LET echo == kind = "text" /\ Echo(text, t)
  IN  IF echo THEN expect' = 0 /\ UNCHANGED <<entries, nextID, expectAt>>
      ELSE IF Repeats(text, kind) THEN UNCHANGED ring
      ELSE Push([id |-> 0, text |-> text, kind |-> kind, at |-> t,
                 marked |-> marked, gap |-> gap])

-----------------------------------------------------------------------------
(***************************************************************************)
(* The watcher.                                                            *)
(***************************************************************************)
Changed(s) ==
  /\ sel' = s
  /\ bell' = (watcher.at # "down")
  /\ watcher' = [watcher EXCEPT !.gap = @ \/ watcher.at = "typed"]

Copy(c) ==
  /\ Use("copy")
  /\ Changed([text |-> c.text, kind |-> c.kind, by |-> 0])
  /\ UNCHANGED <<ring, put, now, sweepAt, fresh>>

Rung ==
  /\ watcher.at \in {"idle", "settling"} /\ bell
  /\ bell' = FALSE
  /\ watcher' = Resting("settling")
  /\ UNCHANGED <<sel, ring, put, now, sweepAt, fresh, room>>

\* settled: what is it made of?  A secret is asked nothing more; what is no
\* text is noted; text is stamped and asked for
Types ==
  /\ watcher.at = "settling"
  /\ IF sel.kind = "other" THEN Arrives("image", "other", now, FALSE, FALSE) ELSE UNCHANGED ring
  /\ watcher' = IF sel.kind \in {"text", "big"}
                  THEN [at |-> "typed", stamp |-> now, gap |-> FALSE] ELSE Resting("idle")
  /\ UNCHANGED <<sel, bell, put, now, sweepAt, fresh, room>>

\* what is read is the selection as it is now, which may be a later one
Read ==
  /\ watcher.at = "typed"
  /\ IF sel.kind = "other" THEN UNCHANGED ring
     ELSE IF sel.kind = "big" THEN Arrives("big", "too-big", watcher.stamp, FALSE, FALSE)
     ELSE Arrives(sel.text, "text", watcher.stamp, sel.kind = "secret", watcher.gap)
  /\ watcher' = Resting("idle")
  /\ fresh' = FALSE
  /\ put' = [k \in Callers |-> [put[k] EXCEPT !.alone = @ /\ expect' = expect]]
  /\ UNCHANGED <<sel, bell, now, sweepAt, room>>

\* wl-paste fails or is out of time: nothing is recorded
Unread ==
  /\ watcher.at \in {"settling", "typed"}
  /\ Use("fail")
  /\ watcher' = Resting("idle")
  /\ UNCHANGED <<sel, bell, ring, put, now, sweepAt, fresh>>

\* the watch ends, and another is begun after a while
WatchEnds ==
  /\ watcher.at \in {"idle", "settling"}
  /\ Use("down")
  /\ watcher' = Resting("down")
  /\ bell' = FALSE
  /\ UNCHANGED <<sel, ring, put, now, sweepAt, fresh>>

WatchAgain ==
  /\ watcher.at = "down"
  /\ watcher' = Resting("idle")
  /\ bell' = TRUE
  /\ UNCHANGED <<sel, ring, put, now, sweepAt, fresh, room>>

-----------------------------------------------------------------------------
(***************************************************************************)
(* Putting an entry back, one at a time on a connection; reading; clearing.*)
(***************************************************************************)
Found(id) == {e \in Young(now) : e.id = id /\ e.kind = "text"}

\* the claim, and a copy of the text; what is gone or was never kept is refused
PutText(k, id) ==
  /\ put[k].at = "idle"
  /\ Use("put")
  /\ Expired
  /\ \/ Found(id) = {} /\ UNCHANGED put
     \/ \E e \in Found(id) :
          put' = [j \in Callers |->
                    IF j = k THEN [at |-> "expect", id |-> id, text |-> e.text,
                                   alone |-> \A i \in Callers \ {k} : put[i].at = "idle"]
                             ELSE [put[j] EXCEPT !.alone = FALSE]]
  /\ UNCHANGED <<sel, bell, watcher, now, sweepAt, fresh>>

\* mutant: the echo is expected only from the next step on
PutExpectsLater(k) ==
  /\ put[k].at = "expect"
  /\ put' = [put EXCEPT ![k].at = "write"]
  /\ fresh' = FALSE
  /\ UNCHANGED <<sel, bell, watcher, ring, now, sweepAt, room>>

PutExpects(k) ==
  /\ put[k].at = "expect"
  /\ expect' = put[k].id
  /\ expectAt' = now
  /\ put' = [put EXCEPT ![k].at = "write"]
  /\ fresh' = FALSE
  /\ UNCHANGED <<sel, bell, watcher, entries, nextID, now, sweepAt, room>>

PutWrites(k) ==
  /\ put[k].at = "write"
  /\ Changed([text |-> put[k].text, kind |-> "text", by |-> put[k].id])
  /\ put' = [put EXCEPT ![k] = Rest]
  /\ fresh' = put[k].alone
  /\ UNCHANGED <<ring, now, sweepAt, room>>

\* a write that failed takes the expectation back, whosever it is by then
PutFails(k) ==
  /\ put[k].at = "write"
  /\ Use("fail")
  /\ expect' = 0 /\ expectAt' = now
  /\ put' = [put EXCEPT ![k] = Rest]
  /\ fresh' = FALSE
  /\ UNCHANGED <<sel, bell, watcher, entries, nextID, now, sweepAt>>

Look ==
  /\ Use("look")
  /\ Expired
  /\ UNCHANGED <<sel, bell, watcher, put, now, sweepAt, fresh>>

Clear ==
  /\ Use("clear")
  /\ entries' = {} /\ expect' = 0
  /\ UNCHANGED <<nextID, expectAt, sel, bell, watcher, put, now, sweepAt, fresh>>

-----------------------------------------------------------------------------
(***************************************************************************)
(* Time, and the sweep that runs whatever becomes of the watch.            *)
(***************************************************************************)
\* mutant: the sweep is part of a watch that runs
SweepWatching ==
  /\ now = sweepAt
  /\ IF watcher.at = "down" THEN UNCHANGED ring ELSE Expired
  /\ sweepAt' = now + SweepEvery
  /\ UNCHANGED <<sel, bell, watcher, put, now, fresh, room>>

Sweep ==
  /\ now = sweepAt
  /\ Expired
  /\ sweepAt' = now + SweepEvery
  /\ UNCHANGED <<sel, bell, watcher, put, now, fresh, room>>

Tick ==
  /\ Use("tick")
  /\ now < sweepAt
  /\ watcher.at = "typed" => now <= watcher.stamp
  /\ now' = now + 1
  /\ UNCHANGED <<sel, bell, watcher, ring, put, sweepAt, fresh>>

-----------------------------------------------------------------------------
Init ==
  /\ sel = [text |-> None, kind |-> "secret", by |-> 0]
  /\ bell = FALSE /\ watcher = Resting("idle")
  /\ entries = {} /\ nextID = 0 /\ expect = 0 /\ expectAt = 0
  /\ put = [k \in Callers |-> Rest]
  /\ now = 0 /\ sweepAt = SweepEvery
  /\ fresh = FALSE
  /\ room \in ClipBudgets

Puts(k) == (\E id \in 1 .. nextID : PutText(k, id)) \/ PutExpects(k) \/ PutWrites(k) \/ PutFails(k)

Next ==
  \/ \E c \in Copies : Copy(c)
  \/ Rung \/ Types \/ Read \/ Unread \/ WatchEnds \/ WatchAgain
  \/ \E k \in Callers : Puts(k)
  \/ Look \/ Clear \/ Sweep \/ Tick

Spec == Init /\ [][Next]_vars

-----------------------------------------------------------------------------
TypeOK ==
  /\ Cardinality(entries) <= ClipMax
  /\ \A e \in entries : e.id \in 1 .. nextID /\ e.at \in 0 .. now
  /\ \A e, f \in entries : e.id = f.id => e = f
  /\ expect \in 0 .. nextID /\ expectAt \in 0 .. now
  /\ watcher \in [at : {"down", "idle", "settling", "typed"}, stamp : 0 .. now, gap : BOOLEAN]
  /\ \A k \in Callers : put[k].at \in {"idle", "expect", "write"}
  /\ bell \in BOOLEAN /\ fresh \in BOOLEAN

\* No entry outlives its TTL by a whole sweep, whatever becomes of the watch
\* and however old it was when it was read (clip_watch.go, clip.go expire).
ForgottenInTime == \A e \in entries : now - e.at < TTL + SweepEvery

\* What zde put on the clipboard is no new entry when it comes back: unless it
\* took too long, its entry is gone, or what was expected was another put's, was
\* taken back by another put that failed, or came before the write as somebody
\* else's copy of the same text (clip.go Expect, clip_put.go).
PutBackIsNotNew ==
  [][Read /\ sel.by # 0 /\ fresh /\ nextID' # nextID =>
       \/ now - expectAt >= ExpectWindow
       \/ \A e \in entries : e.id # sel.by]_vars

\* What was marked as a secret is kept only when it was copied between asking
\* what the clipboard offers and reading it (wl.go, take).
SecretOnlyInGap == \A e \in entries : e.marked => e.gap

ClipForgets == ForgottenInTime /\ SecretOnlyInGap

=============================================================================
