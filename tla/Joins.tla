------------------------------- MODULE Joins --------------------------------
(***************************************************************************)
(* Joining a wireless network (internal/link nm.go, internal/zded net.go): *)
(* Connect looks, reads what is saved, asks NetworkManager to activate a   *)
(* saved profile or to add one, waits four seconds for the verdict, and    *)
(* leaves a watcher behind that takes the profile it added away again when *)
(* the verdict turns out to be no.  Beside it Forget, Disconnect and the   *)
(* switch, each of them a reading and then a call.                         *)
(*                                                                         *)
(* NetworkManager is external: an activation goes on, takes the radio from *)
(* the one before, comes up or fails, and is removed when it is over.  Any *)
(* of its answers may be an error, and every wait may run out.             *)
(***************************************************************************)
EXTENDS Naturals, FiniteSets, FiniteSetsExt

CONSTANTS
  Joiner,        \* requests to join, one each
  Networks,
  SavedNetwork,  \* the one saved before the session
  Activations,   \* how many activations a session sees at most
  NetBudgets,    \* [join, forget, drop, switch, err]: what may happen at most
  None

VARIABLES
  profiles,   \* what NetworkManager has saved: [id, net]
  nextProfile,
  act,        \* activation -> [at, profile]: "none", "going", "ip", "up", "failing" or "over"
  begun,      \* how many activations there were
  on,         \* the radio's ActiveConnection: an activation, or 0
  off,        \* the networking switch is off
  join,       \* request -> [at, net, secret, saved, act, added]
  hand,       \* Forget, Disconnect and Kill between reading and calling: [at, what]
  wanted,     \* history: the profiles a person has asked to forget
  means       \* bound: what is left of the budget

wireless == <<profiles, nextProfile, act, begun, on, off>>
joins == <<wireless, join, hand, wanted, means>>

Affords(what) == means[what] > 0 /\ means' = [means EXCEPT ![what] = @ - 1]
Asked == [at |-> "none", net |-> None, secret |-> FALSE, saved |-> 0, act |-> 0, added |-> 0]
For(net) == {p \in profiles : p.net = net}
\* the first profile of a network is the one kept of them
First(net) == IF For(net) = {} THEN 0 ELSE Min({p.id : p \in For(net)})
Goes(a) == act[a].at \in {"going", "ip", "up", "failing"}
Over(table, a) == IF a = 0 THEN table ELSE [table EXCEPT ![a].at = "over"]

-----------------------------------------------------------------------------
(***************************************************************************)
(* NetworkManager.                                                         *)
(***************************************************************************)
\* the radio leaves what it was on
TakesRadio(a) ==
  /\ act[a].at = "going" /\ on # a
  /\ on' = a /\ act' = Over(act, on)
  /\ UNCHANGED <<profiles, nextProfile, begun, off, join, hand, wanted, means>>

Associates(a) ==
  /\ on = a
  /\ \/ act[a].at = "going" /\ act' = [act EXCEPT ![a].at = "ip"]
     \/ act[a].at = "ip" /\ act' = [act EXCEPT ![a].at = "up"]
     \/ act[a].at \in {"going", "ip"} /\ act' = [act EXCEPT ![a].at = "failing"]
  /\ UNCHANGED <<profiles, nextProfile, begun, on, off, join, hand, wanted, means>>

Removes(a) ==
  /\ act[a].at = "failing"
  /\ act' = [act EXCEPT ![a].at = "over"] /\ on' = IF on = a THEN 0 ELSE on
  /\ UNCHANGED <<profiles, nextProfile, begun, off, join, hand, wanted, means>>

\* Delete ends what is activated on the profile
Deletes(id) ==
  /\ profiles' = {p \in profiles : p.id # id}
  /\ act' = [a \in DOMAIN act |-> IF Goes(a) /\ act[a].profile = id
                                 THEN [act[a] EXCEPT !.at = "over"] ELSE act[a]]
  /\ on' = IF on # 0 /\ act[on].profile = id THEN 0 ELSE on
  /\ UNCHANGED <<nextProfile, begun, off>>

Starts(id) ==
  /\ ~off /\ begun < Activations /\ begun' = begun + 1
  /\ act' = [act EXCEPT ![begun'] = [at |-> "going", profile |-> id]]

-----------------------------------------------------------------------------
(***************************************************************************)
(* Connect.                                                                *)
(***************************************************************************)
\* the radio and the access point are there, and what is saved is read
Connect(j, net, secret) ==
  /\ join[j].at = "none" /\ Affords("join")
  /\ join' = [join EXCEPT ![j] = [Asked EXCEPT !.at = "activate", !.net = net, !.secret = secret,
                                               !.saved = First(net)]]
  /\ UNCHANGED <<wireless, hand, wanted>>

NotConnected(j) ==
  /\ join[j].at = "activate"
  /\ \/ join[j].saved # 0 /\ join[j].secret /\ UNCHANGED means  \* it would overwrite what is saved
     \/ join[j].saved # 0 /\ ~(\E p \in profiles : p.id = join[j].saved) /\ UNCHANGED means
     \/ off /\ UNCHANGED means
     \/ Affords("err")
  /\ join' = [join EXCEPT ![j] = [Asked EXCEPT !.at = "failed"]]
  /\ UNCHANGED <<wireless, hand, wanted>>

ActivateConnection(j) ==
  LET id == join[j].saved IN
  /\ join[j].at = "activate" /\ id # 0 /\ ~join[j].secret
  /\ \E p \in profiles : p.id = id
  /\ Starts(id)
  /\ join' = [join EXCEPT ![j].at = "settles", ![j].act = begun']
  /\ UNCHANGED <<profiles, nextProfile, on, off, hand, wanted, means>>

AddAndActivateConnection(j) ==
  /\ join[j].at = "activate" /\ join[j].saved = 0
  /\ nextProfile' = nextProfile + 1
  /\ profiles' = profiles \cup {[id |-> nextProfile', net |-> join[j].net]}
  /\ Starts(nextProfile')
  /\ join' = [join EXCEPT ![j].at = "settles", ![j].act = begun', ![j].added = nextProfile']
  /\ UNCHANGED <<on, off, hand, wanted, means>>

\* the caller has its answer; only a profile this join added is watched further
Behind(j, said) ==
  join' = [join EXCEPT ![j].at = IF join[j].added # 0 THEN "watches" ELSE said]

\* settle and watch: what a verdict means for each
Landed(j) == join' = [join EXCEPT ![j].at = "joined"]
Refused(j) ==
  IF join[j].at \in {"settles", "settling"} THEN Behind(j, "failed") /\ UNCHANGED wireless
  ELSE Deletes(join[j].added) /\ join' = [join EXCEPT ![j].at = "failed"]

\* decided, first: the activation itself
Decides(j) ==
  LET a == join[j].act IN
  /\ join[j].at \in {"settles", "watches"}
  /\ CASE act[a].at = "up"   -> Landed(j) /\ UNCHANGED wireless
       [] act[a].at = "over" -> Refused(j)
       [] OTHER -> /\ join' = [join EXCEPT ![j].at = IF @ = "settles" THEN "settling" ELSE "watching"]
                   /\ UNCHANGED wireless
  /\ UNCHANGED <<hand, wanted, means>>

\* then the radio, if it is on this attempt
AsksDevice(j) ==
  LET a == join[j].act IN
  /\ join[j].at \in {"settling", "watching"}
  /\ CASE on = a /\ act[a].at \in {"ip", "up"} -> Landed(j) /\ UNCHANGED wireless
       [] on = a /\ act[a].at = "failing" -> Refused(j)
       [] OTHER -> /\ join' = [join EXCEPT ![j].at = IF @ = "settling" THEN "settles" ELSE "watches"]
                   /\ UNCHANGED wireless
  /\ UNCHANGED <<hand, wanted, means>>

\* the four seconds are over, or the bus gave no answer
StillTrying(j) ==
  /\ join[j].at \in {"settles", "settling"}
  /\ Behind(j, "trying")
  /\ UNCHANGED <<wireless, hand, wanted, means>>

\* mutant: no verdict is taken for a no
WatchEndsDeleting(j) ==
  /\ join[j].at \in {"watches", "watching"}
  /\ join' = [join EXCEPT ![j].at = "trying"] /\ Deletes(join[j].added)
  /\ UNCHANGED <<hand, wanted, means>>

\* a minute without a verdict: the profile stays
WatchEnds(j) ==
  /\ join[j].at \in {"watches", "watching"}
  /\ join' = [join EXCEPT ![j].at = "trying"]
  /\ UNCHANGED <<wireless, hand, wanted, means>>

-----------------------------------------------------------------------------
(***************************************************************************)
(* Forget, Disconnect and netKill: read, then call.                        *)
(***************************************************************************)
Looks(at, what) == hand.at = "none" /\ hand' = [at |-> at, what |-> what]
HandRests == hand' = [at |-> "none", what |-> 0]

Forget(net) ==
  /\ Affords("forget") /\ First(net) # 0
  /\ Looks("forget", First(net)) /\ wanted' = wanted \cup {First(net)}
  /\ UNCHANGED <<wireless, join>>

Forgets ==
  /\ hand.at = "forget" /\ HandRests /\ Deletes(hand.what)
  /\ UNCHANGED <<join, wanted, means>>

Disconnect ==
  /\ Affords("drop") /\ on # 0 /\ Looks("drop", on)
  /\ UNCHANGED <<wireless, join, wanted>>

Deactivates ==
  /\ hand.at = "drop" /\ HandRests
  /\ act' = Over(act, hand.what) /\ on' = IF on = hand.what THEN 0 ELSE on
  /\ UNCHANGED <<profiles, nextProfile, begun, off, join, wanted, means>>

Kill ==
  /\ Affords("switch") /\ Looks(IF off THEN "enable" ELSE "cut", 0)
  /\ UNCHANGED <<wireless, join, wanted>>

Enables ==
  /\ hand.at \in {"enable", "cut"} /\ HandRests
  /\ off' = (hand.at = "cut")
  /\ act' = IF off' THEN [a \in DOMAIN act |-> IF Goes(a) THEN [act[a] EXCEPT !.at = "over"] ELSE act[a]]
            ELSE act
  /\ on' = IF off' THEN 0 ELSE on
  /\ UNCHANGED <<profiles, nextProfile, begun, join, wanted, means>>

-----------------------------------------------------------------------------
InitJoins ==
  /\ profiles = {[id |-> 1, net |-> SavedNetwork]}
  /\ nextProfile = 1
  /\ act = [a \in 1 .. Activations |-> [at |-> "none", profile |-> 0]]
  /\ begun = 0 /\ on = 0 /\ off = FALSE
  /\ join = [j \in Joiner |-> Asked]
  /\ hand = [at |-> "none", what |-> 0] /\ wanted = {}
  /\ means \in NetBudgets

NextJoins ==
  \/ \E a \in 1 .. Activations : TakesRadio(a) \/ Associates(a) \/ Removes(a)
  \/ \E j \in Joiner :
       \/ \E net \in Networks, secret \in BOOLEAN : Connect(j, net, secret)
       \/ NotConnected(j) \/ ActivateConnection(j) \/ AddAndActivateConnection(j)
       \/ Decides(j) \/ AsksDevice(j) \/ StillTrying(j) \/ WatchEnds(j)
  \/ \E net \in Networks : Forget(net)
  \/ Forgets \/ Disconnect \/ Deactivates \/ Kill \/ Enables

SpecJoins == InitJoins /\ [][NextJoins]_joins

-----------------------------------------------------------------------------
TypeOK ==
  /\ \A p \in profiles : p.id \in 1 .. nextProfile /\ p.net \in Networks
  /\ \A p, q \in profiles : p.id = q.id => p = q
  /\ act \in [1 .. Activations -> [at : {"none", "going", "ip", "up", "failing", "over"},
                                   profile : 0 .. nextProfile]]
  /\ on \in 0 .. begun /\ off \in BOOLEAN /\ begun \in 0 .. Activations
  /\ \A j \in Joiner : join[j].at \in {"none", "activate", "settles", "settling", "watches",
                                       "watching", "joined", "trying", "failed"}
  /\ hand.at \in {"none", "forget", "drop", "enable", "cut"}

\* A saved network goes because a person forgot it, or because the join that
\* added it saw its own activation over: never one that was there before, and
\* never while that join is still going (nm.go watch, refused).
SavedStays ==
  [][\A p \in profiles \ profiles' :
       \/ p.id \in wanted
       \/ \E j \in Joiner : /\ join[j].added = p.id /\ join[j].at \in {"watches", "watching"}
                            /\ act[join[j].act].at \in {"failing", "over"}]_joins

=============================================================================
