----------------------------- MODULE Manifests ------------------------------
(***************************************************************************)
(* What a manifest is (internal/manifest), what may be read as one         *)
(* (internal/plainfile), and the window rules a directory of them comes to *)
(* (internal/zded rules.go): the pure half of Chrome.                      *)
(*                                                                         *)
(* A desk is its name, whether it is private, its monitors with their      *)
(* labels in order, its pinned apps and its attn mode.  Names stand for    *)
(* what internal/desk would accept; a name it refuses, an address or a     *)
(* character the compositor's config cannot hold is None.                  *)
(***************************************************************************)
EXTENDS Naturals, Sequences

CONSTANT None

-----------------------------------------------------------------------------
\* ours, or a file root itself cannot write, which is what the store's are
Trusted(f) == f.owner = "us" \/ (f.owner = "root" /\ ~f.writable)

\* a plain file of somebody trusted, within the ceiling
Plain(f) == f.kind = "file" /\ Trusted(f) /\ ~f.large

Check(d) ==
  /\ d.name \notin {None, "regulars"}
  /\ DOMAIN d.monitors # {}
  /\ \A m \in DOMAIN d.monitors :
       /\ d.monitors[m] # <<>>
       /\ \A i \in DOMAIN d.monitors[m] :
            /\ d.monitors[m][i] # None
            /\ \A j \in 1 .. i - 1 : d.monitors[m][j] # d.monitors[m][i]
  /\ d.attn \in {"", "work", "focus", "quiet"}
  /\ \A a \in d.apps :
       /\ a.app # None
       /\ \/ a.monitor = "" /\ a.workspace = ""
          \/ /\ a.monitor \in DOMAIN d.monitors
             /\ \E i \in DOMAIN d.monitors[a.monitor] : d.monitors[a.monitor][i] = a.workspace

\* a desk, or None: one document, and one that passes its checks
Parse(f) == IF f.documents = 1 /\ Check(f.desk) THEN f.desk ELSE None

Load(f) == IF Plain(f) THEN Parse(f) ELSE None

\* the shape niri has, under the desk's name: no apps, and private only if told
FromMap(shape, name, private) ==
  [name |-> name, private |-> private, monitors |-> shape, apps |-> {}, attn |-> ""]

-----------------------------------------------------------------------------
\* one rule for every pinned app whose window can be told
PlacementRules(desks) ==
  UNION {{[id |-> a.id, monitor |-> a.monitor, on |-> <<d.name, a.monitor, a.workspace>>] :
            a \in {b \in d.apps : "" \notin {b.id, b.monitor, b.workspace}}} : d \in desks}

\* the whole of the file
DynamicKDL(zen, desks) == [zen |-> zen, rules |-> PlacementRules(desks)]

=============================================================================
