------------------------------ MODULE MCReader ------------------------------
(* Reads of a few entries, with and without a limit, from both ends.         *)
EXTENDS Reader

Ask(kind, at, limit, step) == [kind |-> kind, at |-> at, limit |-> limit, step |-> step]

LimitedReads ==
  {Ask("from", 0, 2, 1), Ask("from", 1, 2, 1), Ask("from", 0, 2, 2),
   Ask("tail", 1, 2, 1), Ask("tail", 2, 2, 2)}

\* And without a limit: every second one from the first on, and only new ones.
Reads == LimitedReads \cup {Ask("from", 0, 0, 2), Ask("tail", 0, 0, 1)}
=============================================================================
