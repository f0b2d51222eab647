--------------------------- MODULE MCDeskSession ----------------------------
(* DeskSession with two desks, two monitors and what a session starts with. *)
EXTENDS DeskSession

CONSTANTS vshop, home, dp, edp, code, web, ff, term

Alphabet == << code, dp, edp, ff, home, vshop, web >>
Labels == [a \in {ff, term} |-> IF a = ff THEN ff ELSE None]

\* vshop declares two workspaces on one monitor and one on the other
Manifests == [d \in {vshop, home} |->
  IF d = vshop THEN << Name(vshop, dp, << code >>), Name(vshop, edp, << code >>) >>
  ELSE << >>]

NothingKept == {[m \in {dp, edp} |-> None]}
SomethingKept == {[m \in {dp, edp} |-> None], [m \in {dp, edp} |-> << ff >>]}

At0(id, o, n, a) == [id |-> id, idx |-> id, name |-> n, output |-> o, home |-> o, app |-> a]
Tails(i) == {At0(i, dp, None, None), At0(i + 1, edp, None, None)}

\* one declared workspace there, one of another desk, and an application in nobody's
Ordinary == [ws |-> {At0(1, dp, Name(vshop, dp, << code >>), ff),
                     At0(2, edp, Name(home, edp, << ff >>), ff),
                     At0(3, dp, None, ff)} \cup Tails(4),
             shown |-> (dp :> 1 @@ edp :> 2), onDesk |-> vshop, lastDesk |-> home,
             hands |-> 2, requests |-> 1, fails |-> 0]

\* two workspaces that were moved onto each other's monitors, alike but for it
Traded(n, m) ==
  [ws |-> {At0(1, dp, Name(vshop, edp, << ff >>), ff), At0(2, edp, n, ff),
           At0(3, dp, m, ff)} \cup Tails(4),
   shown |-> (dp :> 1 @@ edp :> 2), onDesk |-> vshop, lastDesk |-> home,
   hands |-> 0, requests |-> 0, fails |-> 0]

Names == {Name(d, m, s) : d \in {vshop, home}, m \in {dp, edp}, s \in {<< ff >>, << ff, 2 >>}}

Moves == {Traded(n, m) : n, m \in Names \ {Name(vshop, edp, << ff >>)}}
Beginnings ==
  {Ordinary, [Ordinary EXCEPT !.requests = 0, !.fails = 1],
   [Ordinary EXCEPT !.hands = 0, !.requests = 2]} \cup {s \in Moves : Cardinality({w.name : w \in s.ws}) = 4}
=============================================================================
