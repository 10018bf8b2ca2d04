------------------------------ MODULE MemQueue ------------------------------
(***************************************************************************)
(* The in-memory tail of one queue (normfs/src/mem/mod.rs, MemQueue): a    *)
(* window of the newest entries that assigns the ids and forgets entries   *)
(* only after the write-ahead log has acknowledged them.  Every operation  *)
(* holds the write lock of "inner" for its whole body, so each is one      *)
(* action.  Subscribers are added by MemFollow.                            *)
(***************************************************************************)
EXTENDS Queue, Sequences, FiniteSets

CONSTANTS
  MaxMemoryUsage,     \* bytes the queue may hold before it cleans up
  ReadSteps           \* the steps reads are made with

ASSUME MemAssumption ==
  /\ MaxMemoryUsage \in Nat
  /\ DataLens \subseteq Nat
  /\ RecoveredIds \subseteq Nat \cup {None}
  /\ ReadSteps \subseteq Nat \ {0}
  /\ MaxBatch \in Nat
  /\ MaxId \in Nat

VARIABLES
  entries,            \* Vec<Entry>, an entry is its id and its data's length
  first_id,
  last_id,
  last_acked_id,
  memory_usage,
  recovered           \* history: the last_id that MemQueue::new was given

memVars == <<entries, first_id, last_id, last_acked_id, memory_usage, recovered>>

\* Bytes of data in a sequence of entries.
DataLen(es) ==
  LET sum[n \in 0..Len(es)] == IF n = 0 THEN 0 ELSE sum[n - 1] + es[n].len
  IN  sum[Len(es)]

\* Mutant of ToRemove: one entry more than was acknowledged.
ToRemove_OneMore(es, acked) ==
  CHOOSE n \in 0..Len(es) :
    /\ \A i \in 1..n : es[i].id <= acked + 1
    /\ n < Len(es) => es[n + 1].id > acked + 1

\* The number of leading entries that the acknowledged id covers.
ToRemove(es, acked) ==
  CHOOSE n \in 0..Len(es) :
    /\ \A i \in 1..n : es[i].id <= acked
    /\ n < Len(es) => es[n + 1].id > acked

\* Mutant of NewEntries: the first id is last_id, not the one after it.
NewEntries_FromLast(lens) ==
  [i \in 1..Len(lens) |-> [id |-> last_id + i - 1, len |-> lens[i]]]

\* The ids that a batch of data lengths gets.
NewEntries(lens) == [i \in 1..Len(lens) |-> [id |-> last_id + i, len |-> lens[i]]]

\* Mutant of cleanup_unlocked: memory_usage keeps counting what was removed.
cleanup_unlocked_NoRefund(es, first, acked, usage) ==
  LET n    == ToRemove(es, acked)
      rest == SubSeq(es, n + 1, Len(es))
  IN  /\ memory_usage' = usage
      /\ IF usage <= MaxMemoryUsage \/ n = 0
         THEN entries' = es /\ first_id' = first
         ELSE entries' = rest /\ first_id' = IF rest = <<>> THEN None ELSE rest[1].id

\* Nothing happens until the limit is exceeded; then the acknowledged prefix
\* of the entries goes, and first_id is re-read from what remains.
cleanup_unlocked(es, first, acked, usage) ==
  LET n    == ToRemove(es, acked)
      rest == SubSeq(es, n + 1, Len(es))
  IN  IF usage <= MaxMemoryUsage \/ n = 0
      THEN /\ entries' = es
           /\ first_id' = first
           /\ memory_usage' = usage
      ELSE /\ entries' = rest
           /\ first_id' = IF rest = <<>> THEN None ELSE rest[1].id
           /\ memory_usage' = usage - DataLen(SubSeq(es, 1, n))

\* The common body of enqueue and enqueue_batch.
Push(lens) ==
  LET new == NewEntries(lens)
  IN  /\ last_id' = last_id + Len(lens)
      /\ cleanup_unlocked(entries \o new,
                          IF first_id = None THEN increment(last_id) ELSE first_id,
                          last_acked_id,
                          memory_usage + DataLen(new))
      /\ UNCHANGED <<last_acked_id, recovered>>

-----------------------------------------------------------------------------
\* MemQueue::new
MemInit ==
  /\ recovered \in RecoveredIds
  /\ last_id = recovered
  /\ entries = <<>>
  /\ first_id = None
  /\ last_acked_id = None
  /\ memory_usage = 0

enqueue(len) == last_id + 1 <= MaxId /\ Push(<<len>>)

\* An empty batch returns before it takes the lock.
enqueue_batch(lens) ==
  /\ lens # <<>>
  /\ last_id + Len(lens) <= MaxId
  /\ Push(lens)

ack(id) ==
  /\ last_acked_id' = MaxOpt(last_acked_id, id)
  /\ cleanup_unlocked(entries, first_id, last_acked_id', memory_usage)
  /\ UNCHANGED <<last_id, recovered>>

\* The log acknowledges ids it was given since the queue started.
MemNext ==
  \/ \E len \in DataLens : enqueue(len)
  \/ \E n \in 1..MaxBatch : \E lens \in [1..n -> DataLens] : enqueue_batch(lens)
  \/ \E id \in recovered + 1..last_id : ack(id)

MemSpec == MemInit /\ [][MemNext]_memVars

-----------------------------------------------------------------------------
(* Reads.  A read takes its entries under one read lock, so its result is a *)
(* function of the state.                                                   *)

IdsOf(es) == {es[i].id : i \in 1..Len(es)}

\* Mutant of Collect: the entry at "start" itself is left out.
Collect_AfterStart(start, step) ==
  {id \in IdsOf(entries) : id > start /\ (id - start) % step = 0}

\* The ids a read collects: it walks the window from "start" and keeps every
\* step-th id.
Collect(start, step) == {id \in IdsOf(entries) : id >= start /\ (id - start) % step = 0}

fail == [success |-> FALSE, ids |-> {}]

\* MemQueue::read_full
read_full(start, end, step) ==
  IF last_id = None \/ start > last_id THEN [success |-> TRUE, ids |-> {}]
  ELSE IF first_id = None \/ start < first_id THEN fail
  ELSE [success |-> TRUE, ids |-> {id \in Collect(start, step) : id <= end}]

\* The first "limit" ids collected, all of them for limit zero.
Limited(ids, limit) ==
  {id \in ids : limit > 0 => Cardinality({earlier \in ids : earlier < id}) < limit}

\* MemQueue::read_full_negative; nothing collected is a failure as well.
read_full_negative(offset, step, limit) ==
  LET start == BackFrom(last_id, offset)
      got   == Limited(Collect(start, step), limit)
  IN  IF last_id = None THEN [success |-> TRUE, ids |-> {}]
      ELSE IF first_id = None \/ start < first_id \/ got = {} THEN fail
      ELSE [success |-> TRUE, ids |-> got]

-----------------------------------------------------------------------------
MemTypeOK ==
  /\ entries \in Seq(Entry)
  /\ {first_id, last_id, last_acked_id, recovered} \subseteq Nat \cup {None}

\* The window is what readers assume of it: its ids are consecutive, they end
\* at last_id, first_id is the id of its first entry and None exactly when
\* cleanup_unlocked has emptied it.
WindowExact ==
  /\ \A i \in 1..Len(entries) : entries[i].id = last_id - Len(entries) + i
  /\ first_id = IF entries = <<>> THEN None ELSE entries[1].id
  /\ recovered <= last_id - Len(entries)

\* cleanup_unlocked forgets an entry only once the log has acknowledged it:
\* every id assigned since the queue started and not yet acknowledged can be
\* read back from memory alone.
UnackedReadable ==
  \A id \in recovered + 1..last_id :
    id > last_acked_id => read_full(id, id, 1) = [success |-> TRUE, ids |-> {id}]

\* When read_full reports success the reader never looks into a file: what it
\* returned is every step-th id of the requested range that exists.
ReadFullExact ==
  \A start, end \in 0..MaxId + 1 : \A step \in ReadSteps :
    LET r == read_full(start, end, step)
    IN  r.success => r.ids = {id \in start..last_id : id <= end /\ (id - start) % step = 0}

\* A successful read_full_negative returned the first "limit" ids in step from
\* "offset" entries before the end (from zero when there are fewer).
ReadNegativeExact ==
  \A offset \in 0..MaxId + 1 : \A step \in ReadSteps : \A limit \in 0..MaxId + 1 :
    LET r     == read_full_negative(offset, step, limit)
        start == BackFrom(last_id, offset)
    IN  r.success => r.ids = {id \in start..last_id :
                                /\ (id - start) % step = 0
                                /\ limit > 0 => id < start + limit * step}

\* What memory answers is complete, from either end of the queue.
ReadsExact == ReadFullExact /\ ReadNegativeExact

\* memory_usage, which enqueue adds to and cleanup_unlocked subtracts from, is
\* the size of the window: it neither drifts nor wraps below zero. And it exceeds
\* the limit only while nothing can be forgotten: the oldest entry that the
\* window holds is then unacknowledged.
UsageExact ==
  /\ memory_usage = DataLen(entries)
  /\ memory_usage > MaxMemoryUsage => entries # <<>> /\ entries[1].id > last_acked_id

\* Ids are never reassigned and acknowledgements never retreat, whatever the
\* order in which they arrive; an entry leaves the window only at its front.
Monotone ==
  [][/\ last_id' >= last_id
     /\ last_acked_id' >= last_acked_id
     /\ \A id \in IdsOf(entries') : id > last_id \/ id \in IdsOf(entries)
     /\ entries # <<>> /\ entries' # <<>> => entries'[1].id >= entries[1].id]_memVars
=============================================================================
