----------------------------- MODULE MCMemQueue -----------------------------
(* The memory queue alone: a queue that starts empty or with a recovered     *)
(* last id, a limit that a few entries exceed, and entries of two lengths.   *)
EXTENDS MemQueue

RecoveredIdsDef == {None, 1}
=============================================================================
