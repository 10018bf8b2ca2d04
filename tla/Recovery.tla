------------------------------ MODULE Recovery ------------------------------
(***************************************************************************)
(* One queue over the life of several processes (normfs/src/lib.rs): the   *)
(* memory window (MemQueue) and the WAL writer (WalWriter) are composed    *)
(* with the task that acknowledges, the workers that move complete WAL     *)
(* files to the store (normfs-store/src/writer.rs), crashes, the orderly   *)
(* close, and the recovery that starts the queue again from its files.     *)
(***************************************************************************)
EXTENDS MemQueue, WalWriter

CONSTANTS
  Workers,         \* the store's workers
  PowerLoss,       \* a crash loses what no fsync has covered
  MaxStops         \* bound: how often the process crashes or is closed

ASSUME RecoveryAssumption ==
  RecoveredIds = {None} /\ PowerLoss \in BOOLEAN /\ MaxStops \in Nat

VARIABLES
  headless,        \* WAL files whose header did not survive a crash
  store,           \* the store files on disk
  ranges,          \* RangeStore.ranges
  up,              \* the process runs and has started the queue's writer
  opened,          \* it has opened the queue for reading only
  listed,          \* process_old_files has listed the old files
  old,             \* the files it has sent and no worker has received
  received,        \* how many of wal_complete the workers have received
  worker,          \* what each worker is doing
  stopping,        \* PersistStore::close has told the workers to stop
  applied,         \* how many of written the memory queue has been told
  promised,        \* history: the largest id acknowledged by an earlier process
  stops

diskVars  == <<headless, store>>
storeVars == <<ranges, listed, old, received, worker, stopping>>
vars == <<memVars, walVars, diskVars, storeVars, up, opened, applied, promised, stops>>

\* What a reader finds in the bytes of a file: the entries before the first
\* one that is cut off or fails its hash.
Valid(ids) ==
  LET bad == {i \in 1..Len(ids) : ids[i] = Torn}
  IN  IF bad = {} THEN ids ELSE SubSeq(ids, 1, Min(bad) - 1)

\* A file as its reader has it; the id of an entry that is cut off is the one
\* after the last whole entry.
AsRead(first, ids) ==
  [before |-> first, ids |-> Valid(ids),
   torn |-> IF Torn \in Range(ids) THEN first + Len(Valid(ids)) ELSE None]

Restrict1(f, S) == [x \in S |-> f[x]]
With(f, x, v) == [y \in DOMAIN f \cup {x} |-> IF y = x THEN v ELSE f[y]]
Without(f, x) == Restrict1(f, DOMAIN f \ {x})

-----------------------------------------------------------------------------
(* The running process                                                      *)

\* NormFS::enqueue and enqueue_batch: the memory queue assigns the ids.
Enqueue ==
  /\ up /\ ~closing
  /\ \E n \in 1..MaxBatch : \E lens \in [1..n -> DataLens] :
       enqueue_batch(lens) /\ Assign(lens)
  /\ UNCHANGED <<diskVars, storeVars, up, opened, applied, promised, stops>>

\* The task of NormFS::new that hands acknowledgements to the memory queue.
AckTask ==
  /\ up /\ applied < Len(written)
  /\ ack(written[applied + 1])
  /\ applied' = applied + 1
  /\ UNCHANGED <<walVars, diskVars, storeVars, up, opened, promised, stops>>

\* The producers and the tasks of the WAL writer.
WalStep ==
  /\ up
  /\ \/ \E batch \in unsent : Send(batch)
     \/ WriterTask
     \/ FlushTask
  /\ headless' = headless \ (DOMAIN wal' \ DOMAIN wal)
  /\ UNCHANGED <<memVars, store, storeVars, up, opened, applied, promised, stops>>

-----------------------------------------------------------------------------
(* The store                                                                *)

Idle == [at |-> "idle"]

\* Mutant of process_old_files: the files of earlier processes are not listed.
process_old_files_None ==
  /\ up /\ ~listed
  /\ listed' = TRUE
  /\ UNCHANGED <<memVars, walVars, diskVars, ranges, old, received, worker, stopping,
                 up, opened, applied, promised, stops>>

\* WalStore::process_old_files, spawned by start_queue.
process_old_files ==
  /\ up /\ ~listed
  /\ listed' = TRUE
  /\ old' = {f \in DOMAIN wal : f < Min({file_id} \cup Range(wal_complete))}
  /\ UNCHANGED <<memVars, walVars, diskVars, ranges, received, worker, stopping,
                 up, opened, applied, promised, stops>>

\* Mutant of ReadWal: the file is not copied before it is deleted.
ReadWal_NoCopy(w, f) ==
  worker' = [worker EXCEPT ![w] =
    IF f \in DOMAIN wal \ headless
    THEN [at |-> "delete", file |-> f, before |-> wal[f].before, content |-> wal[f].ids]
    ELSE Idle]

\* A worker has a file; it reads it, or gives up when its header is unreadable.
ReadWal(w, f) ==
  worker' = [worker EXCEPT ![w] =
    IF f \in DOMAIN wal \ headless
    THEN [at |-> "publish", file |-> f, before |-> wal[f].before, content |-> wal[f].ids]
    ELSE Idle]

\* The shared channel holds the complete files and the old ones.
ReceiveFile(w) ==
  /\ up /\ ~stopping /\ worker[w] = Idle
  /\ \/ /\ received < Len(wal_complete)
        /\ received' = received + 1
        /\ ReadWal(w, wal_complete[received + 1])
        /\ UNCHANGED old
     \/ \E f \in old :
          /\ old' = old \ {f}
          /\ ReadWal(w, f)
          /\ UNCHANGED received
  /\ UNCHANGED <<memVars, walVars, diskVars, ranges, listed, stopping, up, opened,
                 applied, promised, stops>>

\* write_store_file: a synced temporary file is renamed into place.
Publish(w) ==
  /\ up /\ worker[w].at = "publish"
  /\ LET job == worker[w]
     IN  store' = With(store, job.file,
                       [before |-> job.before, content |-> job.content,
                        num |-> Len(Valid(job.content))])
  /\ worker' = [worker EXCEPT ![w].at = "delete"]
  /\ UNCHANGED <<memVars, walVars, headless, ranges, listed, old, received,
                 stopping, up, opened, applied, promised, stops>>

\* record_range and delete_wal_file; without an id to end the range with, the
\* worker leaves the WAL file where it is.
Finish(w) ==
  /\ up /\ worker[w].at = "delete"
  /\ LET job == worker[w]
         num == Len(Valid(job.content))
     IN  IF job.before + num = 0
         THEN UNCHANGED <<ranges, wal>>
         ELSE /\ ranges' = With(ranges, job.file,
                                [first |-> job.before, last |-> job.before + num - 1])
              /\ wal' = Without(wal, job.file)
  /\ worker' = [worker EXCEPT ![w] = Idle]
  /\ UNCHANGED <<memVars, taskVars, diskVars, listed, old, received, stopping, up, opened,
                 applied, promised, stops>>

-----------------------------------------------------------------------------
(* Stopping                                                                 *)

\* NormFS::close closes the store first: its workers end after the file they
\* are working on.
CloseStore ==
  /\ up /\ ~stopping /\ stops < MaxStops
  /\ stopping' = TRUE
  /\ UNCHANGED <<memVars, walVars, diskVars, ranges, listed, old, received,
                 worker, up, opened, applied, promised, stops>>

\* Then it closes the WAL.
CloseWal ==
  /\ up /\ stopping /\ \A w \in Workers : worker[w] = Idle
  /\ Close
  /\ UNCHANGED <<memVars, diskVars, storeVars, up, opened, applied, promised, stops>>

\* MemQueue::new: an empty queue that continues after the id "last".
FreshMem(last) ==
  /\ entries' = <<>> /\ first_id' = None /\ last_acked_id' = None /\ memory_usage' = 0
  /\ last_id' = last /\ recovered' = last

\* WalWriter::new: a writer that starts on file f after the id "last", and the
\* tasks around it, which have nothing to do yet.
FreshWriter(f, last) ==
  /\ assigned' = last /\ last_written_id' = last
  /\ file_id' = f /\ before' = increment(last) /\ wide' = (last > NarrowMax)
  /\ unsent' = {} /\ pending' = {} /\ todo' = {} /\ write_chan' = <<>> /\ req' = <<>>
  /\ closing' = FALSE /\ writer' = "recv" /\ has_written' = FALSE
  /\ buffer' = <<>> /\ current_size' = HeaderSize
  /\ shutdown' = FALSE /\ task' = "running"
  /\ flush' = "idle" /\ data_to_write' = <<>> /\ attempt' = 0 /\ final' = FALSE
  /\ written' = <<>> /\ wal_complete' = <<>>
  /\ ranges' = <<>> /\ listed' = FALSE /\ old' = {} /\ received' = 0
  /\ worker' = [w \in Workers |-> Idle] /\ stopping' = FALSE /\ applied' = 0

Down ==
  /\ up /\ up' = FALSE
  /\ stops' = stops + 1
  /\ promised' = IF written = <<>> THEN promised ELSE MaxOpt(promised, LastId(written))
  /\ FreshMem(None) /\ FreshWriter(0, None)
  /\ UNCHANGED <<store, io_errors, opened>>

\* The process ends after an orderly close.
Exit == writer = "closed" /\ Down /\ UNCHANGED <<wal, headless>>

\* What the flush task was writing when the process died, of which any part may
\* have reached the file.
BeingWritten(f) == IF f = file_id /\ flush = "write" THEN data_to_write ELSE <<>>

\* What may be left of file f.
Survivors(f) ==
  LET all  == wal[f].ids \o BeingWritten(f)
      safe == IF PowerLoss THEN wal[f].synced ELSE Len(wal[f].ids)
      left == {SubSeq(all, 1, n) : n \in safe..Len(all)}
  IN  left \cup {Append(s, Torn) : s \in left \ {all}}

Crash ==
  /\ stops < MaxStops
  /\ \E left \in [DOMAIN wal -> UNION {Survivors(f) : f \in DOMAIN wal}] :
       /\ \A f \in DOMAIN wal : left[f] \in Survivors(f)
       /\ wal' = [f \in DOMAIN wal |->
                    [before |-> wal[f].before, ids |-> left[f], synced |-> Len(left[f])]]
       /\ \E lost \in SUBSET {f \in DOMAIN wal : PowerLoss /\ wal[f].synced = 0 /\ left[f] = <<>>} :
            headless' = headless \cup lost
  /\ Down

-----------------------------------------------------------------------------
(* Recovery                                                                 *)

Files == DOMAIN wal \cup DOMAIN store

\* NormFS::get_latest_file
get_latest_file == IF Files = {} THEN None ELSE Max(Files)

LastOf(ids) == IF ids = <<>> THEN None ELSE LastId(ids)

\* WalStore::get_file_end and PersistStore::get_file_end, for a new process.
WalEnd(f) == IF f \in DOMAIN wal \ headless THEN LastOf(Valid(wal[f].ids)) ELSE None

\* Mutant of StoreEnd: one id too many.
StoreEnd_Exclusive(f) ==
  IF f \in DOMAIN store /\ store[f].num > 0 THEN store[f].before + store[f].num ELSE None

StoreEnd(f) ==
  IF f \in DOMAIN store /\ store[f].num > 0 THEN store[f].before + store[f].num - 1 ELSE None

\* Mutant of get_file_end: the store is not asked.
get_file_end_WalOnly(f) == WalEnd(f)

\* NormFS::get_file_end_all_sources
get_file_end(f) == MaxOpt(WalEnd(f), StoreEnd(f))

\* Mutant of continue_queue: the latest file is written to although it has entries.
continue_queue_Overwrites ==
  LET latest == get_latest_file
      full   == {f \in 1..latest : get_file_end(f) # None}
  IN  IF full = {} THEN [file |-> 1, last |-> None]
      ELSE [file |-> latest, last |-> get_file_end(Max(full))]

\* NormFS::continue_queue walks back from the latest file to one with entries:
\* the file to write to, and the last id.
continue_queue ==
  LET latest == get_latest_file
      full   == {f \in 1..latest : get_file_end(f) # None}
  IN  IF full = {} THEN [file |-> 1, last |-> None]
      ELSE [file |-> IF Max(full) = latest THEN increment(latest) ELSE latest,
            last |-> get_file_end(Max(full))]

\* NormFS::start_queue starts the memory queue, unless the process has one.
StartMem(last) == IF opened THEN UNCHANGED memVars ELSE FreshMem(last)

\* ensure_queue_exists_for_read: start_queue in read-only mode starts no writer.
OpenForRead ==
  /\ ~up /\ ~opened /\ opened' = TRUE
  /\ StartMem(continue_queue.last)
  /\ UNCHANGED <<walVars, diskVars, storeVars, up, applied, promised, stops>>

\* ensure_queue_exists_for_write, for a queue that is not open or open for
\* reading only: the writer truncates its file and writes the header.
OpenForWrite ==
  /\ ~up /\ up' = TRUE /\ opened' = FALSE
  /\ LET found == continue_queue
     IN  /\ StartMem(found.last) /\ FreshWriter(found.file, found.last)
         /\ wal' = With(wal, found.file, NewFile(increment(found.last)))
         /\ headless' = headless \ {found.file}
  /\ UNCHANGED <<store, io_errors, promised, stops>>

\* A process that has the queue open for reading ends, in whatever way.
EndReadOnly ==
  /\ opened /\ opened' = FALSE
  /\ FreshMem(None)
  /\ UNCHANGED <<walVars, diskVars, storeVars, up, applied, promised, stops>>

-----------------------------------------------------------------------------
Init ==
  /\ MemInit
  /\ WalStart(1, None, FALSE)
  /\ wal = [f \in {1} |-> NewFile(0)]
  /\ io_errors = 0
  /\ headless = {} /\ store = <<>> /\ ranges = <<>>
  /\ up = TRUE /\ opened = FALSE /\ listed = FALSE /\ old = {} /\ received = 0
  /\ worker = [w \in Workers |-> Idle]
  /\ stopping = FALSE /\ applied = 0 /\ promised = None /\ stops = 0

WorkerStep(w) == ReceiveFile(w) \/ Publish(w) \/ Finish(w)

Next ==
  \/ Enqueue \/ AckTask \/ WalStep \/ process_old_files
  \/ \E w \in Workers : WorkerStep(w)
  \/ CloseStore \/ CloseWal \/ Exit \/ Crash
  \/ OpenForRead \/ OpenForWrite \/ EndReadOnly

Fairness ==
  /\ WF_vars(WalStep) /\ WF_vars(AckTask) /\ WF_vars(process_old_files)
  /\ \A w \in Workers : WF_vars(WorkerStep(w))
  /\ WF_vars(CloseWal) /\ WF_vars(Exit)
  /\ WF_vars(OpenForWrite)

Spec == Init /\ [][Next]_vars

FairSpec == Spec /\ Fairness

-----------------------------------------------------------------------------
\* What a reader gets from file f: the store's copy before the WAL's.
Content(f) ==
  IF f \in DOMAIN store THEN Valid(store[f].content)
  ELSE IF f \in headless THEN <<>> ELSE Valid(wal[f].ids)

\* The ids that can be read from the files.
OnDisk == UNION {Range(Content(f)) : f \in Files}

\* The files read in their order are the ids from zero on, each exactly once,
\* whatever crash, recovery or move to the store has happened in between.
DiskIsOneLog ==
  /\ OnDisk = 0..Cardinality(OnDisk) - 1
  /\ \A f, g \in Files : \A i \in 1..Len(Content(f)), j \in 1..Len(Content(g)) :
       f < g \/ (f = g /\ i < j) => Content(f)[i] < Content(g)[j]

Acked == IF written = <<>> THEN promised ELSE MaxOpt(promised, LastId(written))

\* An id that any process has acknowledged can be read from the files, at every
\* moment: while it is moved to the store, after a crash and after recovery.
AckedIsOnDisk == 0..Acked \subseteq OnDisk

\* Memory and files overlap: an id that was assigned and is not on disk can be
\* read from the memory queue.
NothingBetween == up \/ opened => 0..last_id \subseteq OnDisk \cup IdsOf(entries)

\* The entries of a file tile the log: a file's header names its first entry,
\* and files are in the order of their ids.  Lookup's binary search rests on it.
RangesTile ==
  \A f \in Files : Content(f) # <<>> =>
    /\ f \in DOMAIN store =>
         store[f].before = Content(f)[1] /\ StoreEnd(f) = LastId(Content(f))
    /\ f \in DOMAIN wal => wal[f].before = Content(f)[1]
    /\ \A g \in Files : g < f /\ Content(g) # <<>> => LastId(Content(g)) < Content(f)[1]

\* After an orderly close every entry handed to the log in order is on disk.
CloseKeepsAll ==
  writer = "closed" /\ io_errors = 0 => OnDisk = 0..last_written_id

\* A WAL file that is complete is eventually in the store and nowhere else.
CompleteIsStored ==
  \A f \in 1..MaxId + MaxStops + 1 :
    (f \in DOMAIN wal /\ \E g \in DOMAIN wal : g > f)
      ~> (f \notin DOMAIN wal /\ f \in DOMAIN store) \/ f \in headless

Log == INSTANCE DurableQueue
         WITH length <- IF up \/ opened THEN last_id + 1 ELSE increment(continue_queue.last),
              acked <- Acked

\* The queue implements a log that a crash may cut, never below what it has
\* acknowledged, and that continues where it was cut.
IsDurableQueue == Log!Spec
=============================================================================
