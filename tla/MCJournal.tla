----------------------------- MODULE MCJournal ------------------------------
(* Journal on a small disk: see the README for what the bounds let happen. *)
EXTENDS Journal, TLC

Symmetry == Permutations(Apps)
=============================================================================
