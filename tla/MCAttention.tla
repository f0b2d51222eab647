---------------------------- MODULE MCAttention -----------------------------
(* Attention with two calls in progress at once: see the README for the bounds. *)
EXTENDS Attention, TLC

Symmetry == Permutations(Clients) \cup Permutations(Handlers)
=============================================================================
