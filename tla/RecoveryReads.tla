--------------------------- MODULE RecoveryReads ----------------------------
(***************************************************************************)
(* What a reader sees of a queue that is written to, crashes and starts    *)
(* again: the files and the memory of Recovery as QueueFiles, on which     *)
(* Reader runs, has them.                                                  *)
(***************************************************************************)
EXTENDS Recovery

Served == INSTANCE QueueFiles
            WITH wal <- [f \in DOMAIN wal \ headless |-> AsRead(wal[f].before, wal[f].ids)],
                 store <- [f \in DOMAIN store |-> AsRead(store[f].before, store[f].content)],
                 CutEntries <- TRUE

\* What a reader's view depends on.
Readable == <<last_id, first_id, wal, store, headless>>

\* While the process writes, all that its tasks do to memory and files is what
\* QueueFiles lets happen around a reader.
ServesReaders ==
  [][up /\ up' /\ Readable' # Readable => [Served!Next]_(Served!queueVars)]_vars
=============================================================================
