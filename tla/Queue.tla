------------------------------- MODULE Queue --------------------------------
(***************************************************************************)
(* What the memory queue and the WAL writer of one queue share: the data   *)
(* that is enqueued, and the id that recovery hands to both.               *)
(***************************************************************************)
EXTENDS Ids

CONSTANTS
  DataLens,       \* lengths of the entries' data
  RecoveredIds,   \* the last ids start_queue may hand over after recovery
  MaxBatch,       \* bound: entries of one batch
  MaxId           \* bound: the largest id assigned

Entry == [id : Nat, len : DataLens]
=============================================================================
