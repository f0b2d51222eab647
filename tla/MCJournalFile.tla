--------------------------- MODULE MCJournalFile ----------------------------
(* JournalFile on a small disk: see the README for the bounds. *)
EXTENDS JournalFile
=============================================================================
