---------------------------- MODULE MCMemFollow -----------------------------
(* Two writers, two followers, a channel that holds one entry.               *)
EXTENDS MemFollow

StartsEmpty == {None}

Ask(kind, at, step) == [kind |-> kind, at |-> at, step |-> step]

\* From the first entry on, from the last one, and from now on.
Joins == {Ask("from", 0, 1), Ask("tail", 1, 1), Ask("tail", 0, 1)}
=============================================================================
