----------------------------- MODULE QueueFiles -----------------------------
(***************************************************************************)
(* A running queue as a reader meets it: the window of ids that memory     *)
(* holds, and files that grow, are completed, are copied to the store and  *)
(* leave the WAL.  Recovery, with all its tasks, implements this module    *)
(* while the process runs (its property ServesReaders); readers are        *)
(* checked against it.                                                     *)
(***************************************************************************)
EXTENDS Ids, Sequences, FiniteSetsExt, TLC

CONSTANTS
  CutEntries,     \* whether a crash may have cut an entry off behind its header
  MaxId           \* bound: the largest id assigned

VARIABLES
  last_id,        \* the last id given to an entry
  first_id,       \* the first id that memory holds, None when it holds none
  wal,            \* file -> its first id, its entries, and the id in the header
  store           \*   of an entry that is cut off behind them

queueVars == <<last_id, first_id, wal, store>>

With(f, x, v) == [y \in DOMAIN f \cup {x} |-> IF y = x THEN v ELSE f[y]]
Without(f, x) == [y \in DOMAIN f \ {x} |-> f[y]]

Content(first, ids, torn) == [before |-> first, ids |-> ids, torn |-> torn]

\* The file that is written to, and the first id that is in no file.
Active == Max(DOMAIN wal)
NextOnDisk == wal[Active].before + Len(wal[Active].ids)

\* The ids from a to b, in their order.
Run(a, b) == [i \in 1..b - a + 1 |-> a + i - 1]

-----------------------------------------------------------------------------
\* A new queue, or one that has just recovered: the entries 0..k are in file 1,
\* behind them perhaps the remains of the entry that a crash has cut off, whose
\* id is given out again.
Init ==
  \/ /\ last_id = None /\ first_id = None /\ store = <<>>
     /\ wal = (1 :> Content(0, <<>>, None))
  \/ \E k \in 0..MaxId - 1 : \E torn \in IF CutEntries THEN {None, k + 1} ELSE {None} :
       /\ last_id = k /\ first_id = None
       /\ LET old    == Content(0, Run(0, k), torn)
              active == (2 :> Content(k + 1, <<>>, None))
          IN  \/ wal = active @@ (1 :> old) /\ store = <<>>
              \/ wal = active /\ store = (1 :> old)

\* Memory forgets entries that are on disk, oldest first.
Keep(first, last) ==
  \E k \in first..MaxOpt(first, NextOnDisk) : first_id' = IF k > last THEN None ELSE k

\* MemQueue::enqueue and enqueue_batch
Assign ==
  /\ \E n \in 1..MaxId - last_id :
       /\ last_id' = last_id + n
       /\ Keep(IF first_id = None THEN last_id + 1 ELSE first_id, last_id')
  /\ UNCHANGED <<wal, store>>

\* MemQueue::ack
Forget ==
  /\ first_id # None
  /\ Keep(first_id, last_id)
  /\ UNCHANGED <<last_id, wal, store>>

\* AckFileWriter: a block of entries reaches the newest file.
Flush ==
  /\ \E id \in NextOnDisk..last_id :
       wal' = [wal EXCEPT ![Active].ids = @ \o Run(NextOnDisk, id)]
  /\ UNCHANGED <<last_id, first_id, store>>

\* WalWriter: rotate
Rotate ==
  /\ wal' = With(wal, Active + 1, Content(NextOnDisk, <<>>, None))
  /\ UNCHANGED <<last_id, first_id, store>>

\* The store's workers: a complete file is copied, then removed from the WAL.
Publish(f) ==
  /\ f # Active
  /\ store' = With(store, f, wal[f])
  /\ UNCHANGED <<last_id, first_id, wal>>

Delete(f) ==
  /\ f \in DOMAIN store
  /\ wal' = Without(wal, f)
  /\ UNCHANGED <<last_id, first_id, store>>

Next ==
  \/ Assign \/ Forget \/ Flush \/ Rotate
  \/ \E f \in DOMAIN wal : Publish(f) \/ Delete(f)

Spec == Init /\ [][Next]_queueVars
=============================================================================
