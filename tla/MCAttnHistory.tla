--------------------------- MODULE MCAttnHistory ----------------------------
(* AttnHistory with few senders and a small file: see the README for the bounds. *)
EXTENDS AttnHistory

CONSTANTS a1, a2, a3

Left(id, f) == [id |-> id, from |-> f, private |-> FALSE, dismissed |-> FALSE,
                restored |-> FALSE]

\* a first login, and a session that left two records of one sender
Logins == {<< >>}
Logouts == {<< Left(1, a1), Left(2, a1) >>}
=============================================================================
