---------------------------- MODULE MCDeskPolicy ----------------------------
(* DeskPolicy over a desk that lends the mode a session starts with, one that lends
   quiet, and one that declares nothing. *)
EXTENDS DeskPolicy, TLC

CONSTANTS vshop, game, haven, work, quiet

ThreeDesks == [d \in {vshop, game, haven} |->
                 CASE d = vshop -> work [] d = game -> quiet [] d = haven -> None]
TwoDesks == [d \in {vshop, haven} |-> IF d = vshop THEN quiet ELSE None]
=============================================================================
