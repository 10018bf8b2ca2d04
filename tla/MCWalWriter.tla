---------------------------- MODULE MCWalWriter -----------------------------
(* The WAL writer alone, started on an empty queue or after recovery.        *)
EXTENDS WalWriter

StartsEmpty == {None}
StartsAnywhere == {None, 0}
=============================================================================
