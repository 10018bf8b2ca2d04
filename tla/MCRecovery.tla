----------------------------- MODULE MCRecovery -----------------------------
(* A queue of a few entries, its store workers, crashes and restarts.        *)
EXTENDS RecoveryReads

StartsEmpty == {None}
=============================================================================
