----------------------------- MODULE WalWriter ------------------------------
(***************************************************************************)
(* The write-ahead log writer of one queue: the ordering buffer            *)
(* (normfs-wal/src/writer_buffer.rs), the writer task that appends entries *)
(* and rotates files (writer.rs) and the flush task of the current file    *)
(* that writes, syncs and acknowledges (ack_file_writer.rs).               *)
(*                                                                         *)
(* Ids are assigned under the memory queue's lock, but enqueue calls       *)
(* wal.enqueue after that lock is gone: concurrent producers hand their    *)
(* entries over in any order.  "unsent" is where they are in between.      *)
(***************************************************************************)
EXTENDS Queue, Sequences, FiniteSetsExt

CONSTANTS
  HeaderSize,      \* bytes of a WAL file's header
  EntryOverhead,   \* bytes of an entry beside its data
  MaxFileSize,     \* settings.max_file_size
  NarrowMax,       \* the largest id that fits the id width of a new header
  Fsync,           \* settings.enable_fsync
  MAX_RETRIES,     \* attempts of one flush
  IoErrors,        \* the calls that may fail: a subset of {"write","sync","open"}
  MaxIoErrors,     \* bound: how often a call fails
  MaxInFlight      \* bound: producers between id assignment and wal.enqueue

ASSUME WalAssumption ==
  /\ DataLens \subseteq Nat
  /\ RecoveredIds \subseteq Nat \cup {None}
  /\ {HeaderSize, EntryOverhead, MaxFileSize, NarrowMax} \subseteq Nat
  /\ Fsync \in BOOLEAN
  /\ MAX_RETRIES \in Nat \ {0}
  /\ IoErrors \subseteq {"write", "sync", "open"}
  /\ {MaxIoErrors, MaxInFlight, MaxBatch, MaxId} \subseteq Nat

VARIABLES
  assigned,        \* the last id the memory queue assigned
  unsent,          \* batches with ids that no producer has sent yet
  closing,         \* WalStore::close has taken the writer and sent Close
  write_chan,      \* batches in the writer's channel
  req,             \* what is left of the batch the writer task works on
  pending,         \* OrderedBuffer.pending, sorted by id: a set of entries
  last_written_id, \* OrderedBuffer.last_written_id
  todo,            \* entries write() has released and not yet appended
  writer,          \* where the writer task is
  file_id,
  before,          \* header.num_entries_before
  wide,            \* header.id_size_bytes was widened beyond NarrowMax
  has_written,
  buffer,          \* ids in AckFileWriter's buffer; acks ends with its last id
  current_size,
  shutdown,        \* close() has signalled the flush task
  task,            \* "running" or "ended": the flush task of the current file
  flush,           \* "idle", "write" or "sync": where flush_buffer is
  data_to_write,   \* the block flush_buffer has taken
  attempt,
  final,           \* this flush is the one after the shutdown signal
  wal,             \* the WAL files on disk
  written,         \* the ids sent to written_sender, in order
  wal_complete,    \* the files sent to wal_complete_sender, in order
  io_errors

producerVars == <<assigned, unsent, closing>>
orderVars    == <<write_chan, req, pending, last_written_id>>
fileVars     == <<file_id, before, wide, has_written>>
flushVars    == <<flush, data_to_write, attempt, final>>
bufferVars   == <<buffer, current_size>>
walVars == <<producerVars, orderVars, todo, writer, fileVars, bufferVars,
             shutdown, task, flushVars, wal, written, wal_complete, io_errors>>
\* All but the files.
taskVars == <<producerVars, orderVars, todo, writer, fileVars, bufferVars,
              shutdown, task, flushVars, written, wal_complete, io_errors>>

\* What an interrupted write leaves behind: bytes no reader can parse.
Torn == -1

\* A WAL file: the header's num_entries_before, the ids in it, and how many of
\* them an fsync has covered.
NewFile(b) == [before |-> b, ids |-> <<>>, synced |-> 0]

CanFail(call) == call \in IoErrors /\ io_errors < MaxIoErrors

-----------------------------------------------------------------------------
(* Producers                                                                *)

\* The memory queue has assigned the next ids to a batch.
Assign(lens) ==
  /\ Cardinality(unsent) < MaxInFlight
  /\ assigned + Len(lens) <= MaxId
  /\ assigned' = assigned + Len(lens)
  /\ unsent' = unsent \cup {[i \in 1..Len(lens) |-> [id |-> assigned + i, len |-> lens[i]]]}
  /\ UNCHANGED <<closing, orderVars, todo, writer, fileVars, bufferVars, shutdown,
                 task, flushVars, wal, written, wal_complete, io_errors>>

\* Mutant of Send: of a batch, the first entry only.
Send_First(batch) ==
  /\ unsent' = unsent \ {batch}
  /\ write_chan' = IF closing THEN write_chan ELSE Append(write_chan, <<Head(batch)>>)
  /\ UNCHANGED <<assigned, closing, req, pending, last_written_id, todo, writer,
                 fileVars, bufferVars, shutdown, task, flushVars, wal, written,
                 wal_complete, io_errors>>

\* WalStore::enqueue and enqueue_batch: one message on the writer's channel, or
\* WriterNotFound once close has taken the writer away.
Send(batch) ==
  /\ unsent' = unsent \ {batch}
  /\ write_chan' = IF closing THEN write_chan ELSE Append(write_chan, batch)
  /\ UNCHANGED <<assigned, closing, req, pending, last_written_id, todo, writer,
                 fileVars, bufferVars, shutdown, task, flushVars, wal, written,
                 wal_complete, io_errors>>

\* WalStore::close: Close is the last message the writer's channel gets.
Close ==
  /\ ~closing
  /\ closing' = TRUE
  /\ UNCHANGED <<assigned, unsent, orderVars, todo, writer, fileVars, bufferVars,
                 shutdown, task, flushVars, wal, written, wal_complete, io_errors>>

-----------------------------------------------------------------------------
(* The writer task                                                          *)

\* rx.recv() yields the next request.
Receive ==
  /\ writer = "recv" /\ req = <<>> /\ todo = {} /\ write_chan # <<>>
  /\ req' = Head(write_chan)
  /\ write_chan' = Tail(write_chan)
  /\ UNCHANGED <<producerVars, pending, last_written_id, todo, writer, fileVars,
                 bufferVars, shutdown, task, flushVars, wal, written,
                 wal_complete, io_errors>>

check_can_write(id) == id = increment(last_written_id)

IdsIn(es) == {e.id : e \in es}

\* The entries at the front of the sorted list "es" whose ids follow "last"
\* without a gap.
Ready(es, last) ==
  {e \in es : IdsIn({d \in es : d.id <= e.id}) = last + 1..e.id}

\* The first half of write(): an entry whose turn it is goes straight to the
\* file; any other joins the pending ones, of which wait_for_order releases
\* those that are ready.
Order ==
  /\ writer = "recv" /\ req # <<>> /\ todo = {}
  /\ LET e   == Head(req)
         all == pending \cup {e}
         out == Ready(all, last_written_id)
     IN  IF check_can_write(e.id)
         THEN /\ todo' = {e}
              /\ last_written_id' = e.id
              /\ UNCHANGED pending
         ELSE /\ todo' = out
              /\ pending' = all \ out
              /\ last_written_id' = IF out = {} THEN last_written_id ELSE Max(IdsIn(out))
  /\ req' = Tail(req)
  /\ UNCHANGED <<producerVars, write_chan, writer, fileVars, bufferVars, shutdown,
                 task, flushVars, wal, written, wal_complete, io_errors>>

\* Mutant of Next1: the released entries are written in the wrong order.
Next1_Newest == CHOOSE e \in todo : \A d \in todo : e.id >= d.id

\* The entry write() handles next.
Next1 == CHOOSE e \in todo : \A d \in todo : e.id <= d.id

can_add(len) == current_size + len <= MaxFileSize

can_hold_entry(id) == wide \/ id <= NarrowMax

MustRotate(e) == (has_written /\ ~can_add(e.len)) \/ ~can_hold_entry(e.id)

\* AckFileWriter::write, for an entry that fits or for which rotate() has just
\* opened a file.
AppendEntry ==
  /\ todo # {}
  /\ \/ writer = "append"
     \/ writer = "recv" /\ ~MustRotate(Next1)
  /\ buffer' = Append(buffer, Next1.id)
  /\ current_size' = current_size + EntryOverhead + Next1.len
  /\ has_written' = TRUE
  /\ todo' = todo \ {Next1}
  /\ writer' = "recv"
  /\ UNCHANGED <<producerVars, orderVars, file_id, before, wide, shutdown, task,
                 flushVars, wal, written, wal_complete, io_errors>>

\* rotate() signals the flush task to shut down and waits for it to end.
Rotate ==
  /\ writer = "recv" /\ todo # {} /\ MustRotate(Next1)
  /\ writer' = "rotate"
  /\ shutdown' = TRUE
  /\ UNCHANGED <<producerVars, orderVars, todo, fileVars, bufferVars, task,
                 flushVars, wal, written, wal_complete, io_errors>>

\* Mutant of Advance: the file announced as complete is the next one.
Advance_AnnouncesNew ==
  /\ writer = "rotate" /\ task = "ended"
  /\ file_id' = increment(file_id)
  /\ wal_complete' = Append(wal_complete, file_id')
  /\ wide' = (wide \/ Next1.id > NarrowMax)
  /\ before' = Next1.id

\* The old file is complete; file_id and the header move on before the new file
\* is opened.
Advance ==
  /\ writer = "rotate" /\ task = "ended"
  /\ wal_complete' = Append(wal_complete, file_id)
  /\ file_id' = increment(file_id)
  /\ wide' = (wide \/ Next1.id > NarrowMax)
  /\ before' = Next1.id

\* The rest of rotate(): new_file_writer creates the next file, with its header.
Open ==
  /\ Advance
  /\ wal' = [f \in DOMAIN wal \cup {file_id'} |->
               IF f = file_id' THEN NewFile(before') ELSE wal[f]]
  /\ has_written' = FALSE
  /\ buffer' = <<>>
  /\ current_size' = HeaderSize
  /\ shutdown' = FALSE
  /\ task' = "running"
  /\ writer' = "append"
  /\ UNCHANGED <<producerVars, orderVars, todo, flushVars, written, io_errors>>

\* new_file_writer fails: write() and write_batch() return the error, which
\* drops the entries they still held; the closed file writer stays in place.
OpenFails ==
  /\ CanFail("open")
  /\ Advance
  /\ io_errors' = io_errors + 1
  /\ todo' = {}
  /\ req' = <<>>
  /\ writer' = "recv"
  /\ UNCHANGED <<producerVars, write_chan, pending, last_written_id, has_written,
                 bufferVars, shutdown, task, flushVars, wal, written>>

\* Mutant of HandleClose: the flush task is not told.
HandleClose_NoSignal ==
  /\ closing /\ writer = "recv" /\ req = <<>> /\ todo = {} /\ write_chan = <<>>
  /\ writer' = "close"
  /\ UNCHANGED <<producerVars, orderVars, todo, fileVars, bufferVars, shutdown, task,
                 flushVars, wal, written, wal_complete, io_errors>>

\* WriteRequest::Close, behind every other request.
HandleClose ==
  /\ closing /\ writer = "recv" /\ req = <<>> /\ todo = {} /\ write_chan = <<>>
  /\ writer' = "close"
  /\ shutdown' = TRUE
  /\ UNCHANGED <<producerVars, orderVars, todo, fileVars, bufferVars, task,
                 flushVars, wal, written, wal_complete, io_errors>>

\* Mutant of Closed: without waiting for the flush task.
Closed_NoWait ==
  /\ writer = "close"
  /\ writer' = "closed"
  /\ UNCHANGED <<producerVars, orderVars, todo, fileVars, bufferVars, shutdown,
                 task, flushVars, wal, written, wal_complete, io_errors>>

\* The flush task has ended, the responder fires and the writer task ends.
Closed ==
  /\ writer = "close" /\ task = "ended"
  /\ writer' = "closed"
  /\ UNCHANGED <<producerVars, orderVars, todo, fileVars, bufferVars, shutdown,
                 task, flushVars, wal, written, wal_complete, io_errors>>

-----------------------------------------------------------------------------
(* The flush task of the current file                                       *)

WriterUnchanged ==
  UNCHANGED <<producerVars, orderVars, todo, writer, fileVars, current_size,
              shutdown, wal_complete>>

\* Mutant of FlushEnds: the task ends after any flush.
FlushEnds_Always == task' = "ended"

\* What writer_task does after flush_buffer: break after the final flush.
FlushEnds == task' = IF final THEN "ended" ELSE "running"

\* flush_buffer takes the buffer, on a tick, on a full buffer or on shutdown.
FlushTake ==
  /\ task = "running" /\ flush = "idle" /\ buffer # <<>>
  /\ data_to_write' = buffer
  /\ buffer' = <<>>
  /\ attempt' = 1
  /\ final' = shutdown
  /\ flush' = "write"
  /\ WriterUnchanged
  /\ UNCHANGED <<task, wal, written, io_errors>>

\* With nothing to flush, the shutdown signal ends the task at once.
FlushNothing ==
  /\ task = "running" /\ flush = "idle" /\ buffer = <<>> /\ shutdown
  /\ task' = "ended"
  /\ WriterUnchanged
  /\ UNCHANGED <<buffer, flushVars, wal, written, io_errors>>

\* Mutants of LastId: off by one, in both directions.
LastId_Next(block) == block[Len(block)] + 1
LastId_Previous(block) == block[Len(block)] - 1

LastId(block) == block[Len(block)]

\* The block is on disk: acknowledge its last id.
Acknowledge ==
  /\ flush' = "idle"
  /\ written' = Append(written, LastId(data_to_write))
  /\ FlushEnds

\* write_all succeeds; without fsync that is all.
WriteOk ==
  /\ flush = "write"
  /\ wal' = [wal EXCEPT ![file_id].ids = @ \o data_to_write]
  /\ IF Fsync THEN flush' = "sync" /\ UNCHANGED <<written, task>> ELSE Acknowledge
  /\ WriterUnchanged
  /\ UNCHANGED <<buffer, data_to_write, attempt, final, io_errors>>

SyncOk ==
  /\ flush = "sync"
  /\ wal' = [wal EXCEPT ![file_id].synced = Len(wal[file_id].ids)]
  /\ Acknowledge
  /\ WriterUnchanged
  /\ UNCHANGED <<buffer, data_to_write, attempt, final, io_errors>>

\* A failed attempt is followed by another one, which writes the whole block
\* again; after MAX_RETRIES the block goes back to the front of the buffer.
FailAttempt ==
  /\ io_errors' = io_errors + 1
  /\ IF attempt < MAX_RETRIES
     THEN /\ attempt' = attempt + 1
          /\ flush' = "write"
          /\ UNCHANGED <<buffer, data_to_write, task>>
     ELSE /\ buffer' = data_to_write \o buffer
          /\ flush' = "idle"
          /\ FlushEnds
          /\ UNCHANGED <<attempt, data_to_write>>
  /\ WriterUnchanged
  /\ UNCHANGED <<final, written>>

\* write_all fails after some whole entries, and possibly part of one more,
\* have reached the file.
WriteFails ==
  /\ flush = "write" /\ CanFail("write")
  /\ \E n \in 0..Len(data_to_write) - 1 : \E torn \in {<<>>, <<Torn>>} :
       wal' = [wal EXCEPT ![file_id].ids = @ \o SubSeq(data_to_write, 1, n) \o torn]
  /\ FailAttempt

SyncFails ==
  /\ flush = "sync" /\ CanFail("sync")
  /\ UNCHANGED wal
  /\ FailAttempt

-----------------------------------------------------------------------------
\* WalStore::start_writer on a new or empty file f, after recovery of "last"
\* from a file whose header has the id width w.
WalStart(f, last, w) ==
  /\ assigned = last
  /\ last_written_id = last
  /\ file_id = f
  /\ before = last + 1
  /\ wide = w
  /\ unsent = {} /\ pending = {} /\ todo = {}
  /\ write_chan = <<>> /\ req = <<>>
  /\ closing = FALSE
  /\ writer = "recv"
  /\ has_written = FALSE
  /\ buffer = <<>>
  /\ current_size = HeaderSize
  /\ shutdown = FALSE
  /\ task = "running"
  /\ flush = "idle"
  /\ data_to_write = <<>>
  /\ attempt = 0
  /\ final = FALSE
  /\ written = <<>>
  /\ wal_complete = <<>>

WalInit ==
  /\ \E last \in RecoveredIds, w \in BOOLEAN :
       /\ last > NarrowMax => w
       /\ WalStart(IF last = None THEN 1 ELSE 2, last, w)
  /\ wal = [f \in {file_id} |-> NewFile(before)]
  /\ io_errors = 0

Producers ==
  \/ \E n \in 1..MaxBatch : \E lens \in [1..n -> DataLens] : Assign(lens)
  \/ \E batch \in unsent : Send(batch)

WriterTask ==
  Receive \/ Order \/ AppendEntry \/ Rotate \/ Open \/ OpenFails \/ HandleClose \/ Closed

FlushTask ==
  FlushTake \/ FlushNothing \/ WriteOk \/ SyncOk \/ WriteFails \/ SyncFails

WalNext == Producers \/ Close \/ WriterTask \/ FlushTask

\* Both tasks are scheduled by the runtime, and a producer that has an id goes
\* on to call wal.enqueue without waiting.  No call has to succeed for ever:
\* that the failing ones are bounded is MaxIoErrors.
WalFairness ==
  /\ WF_walVars(\E batch \in unsent : Send(batch))
  /\ WF_walVars(WriterTask)
  /\ WF_walVars(FlushTask)

WalSpec == WalInit /\ [][WalNext]_walVars

FairWalSpec == WalSpec /\ WalFairness

-----------------------------------------------------------------------------
ProducerTypeOK ==
  assigned \in Nat \cup {None} /\ unsent \subseteq Seq(Entry) /\ closing \in BOOLEAN

OrderTypeOK ==
  /\ write_chan \in Seq(Seq(Entry)) /\ req \in Seq(Entry)
  /\ pending \subseteq Entry /\ todo \subseteq Entry
  /\ last_written_id \in Nat \cup {None}

FileTypeOK ==
  /\ writer \in {"recv", "append", "rotate", "close", "closed"}
  /\ file_id \in Nat /\ before \in Nat
  /\ wide \in BOOLEAN /\ has_written \in BOOLEAN
  /\ wal_complete \in Seq(Nat)

FlushTypeOK ==
  /\ buffer \in Seq(Nat) /\ data_to_write \in Seq(Nat)
  /\ current_size \in Nat /\ attempt \in Nat
  /\ task \in {"running", "ended"} /\ flush \in {"idle", "write", "sync"}
  /\ shutdown \in BOOLEAN /\ final \in BOOLEAN

DiskTypeOK ==
  /\ DOMAIN wal \subseteq Nat
  /\ wal \in [DOMAIN wal -> [before : Nat, ids : Seq(Nat \cup {Torn}), synced : Nat]]
  /\ written \in Seq(Nat)
  /\ io_errors \in Nat

WalTypeOK == ProducerTypeOK /\ OrderTypeOK /\ FileTypeOK /\ FlushTypeOK /\ DiskTypeOK

\* The first id this writer was started for.
FirstId == Min({wal[f].before : f \in DOMAIN wal})

\* As long as no I/O call fails, the files are the log readers and recovery
\* take them for: the n-th entry of a file is entry num_entries_before + n,
\* and each file starts where its predecessor ends.
LogIsConsecutive ==
  io_errors = 0 =>
    \A f \in DOMAIN wal :
      /\ \A i \in 1..Len(wal[f].ids) : wal[f].ids[i] = wal[f].before + i - 1
      /\ f + 1 \in DOMAIN wal => wal[f + 1].before = wal[f].before + Len(wal[f].ids)

\* The entries of a file that survive a power failure.
Durable(f) == {wal[f].ids[i] : i \in 1..(IF Fsync THEN wal[f].synced ELSE Len(wal[f].ids))}

\* The failures stayed within what the writer makes up for: no flush ran out of
\* attempts, and every new file was created.
Recoverable == io_errors < MAX_RETRIES /\ Min(DOMAIN wal)..file_id \subseteq DOMAIN wal

\* Acknowledgements are sent in the order of the ids, also across a rotation:
\* no flush of the old file is left when the first one of the new file starts.
AcksAscend == \A m, n \in 1..Len(written) : m < n => written[m] < written[n]

\* An acknowledgement covers every id up to it, which lets the memory queue drop
\* them all: they are on disk by then, in this file or in an earlier one, also
\* when a failed attempt was repeated.  Acknowledgements ascend even when a
\* failure was not made up for.
AckedIsDurable ==
  /\ AcksAscend
  /\ Recoverable =>
       \A n \in 1..Len(written) : \A f \in DOMAIN wal : \A id \in wal[f].before..written[n] :
         \E g \in DOMAIN wal : id \in Durable(g)

\* When the store is told of a complete file the writer is done with it: its
\* last flush is over and nothing is added to it any more.
CompleteIsFinal ==
  [][\A n \in 1..Len(wal_complete) :
       wal_complete[n] \in DOMAIN wal => wal'[wal_complete[n]] = wal[wal_complete[n]]]_walVars

BatchIds(batches) == UNION {IdsIn(Range(b)) : b \in batches}

\* The stations an id passes on its way to the disk.
Stations ==
  <<BatchIds(unsent), BatchIds(Range(write_chan)), IdsIn(Range(req)), IdsIn(pending),
    IdsIn(todo), Range(buffer), IF flush = "write" THEN Range(data_to_write) ELSE {},
    UNION {Range(wal[f].ids) : f \in DOMAIN wal}>>

\* Until the queue is closed or an I/O call fails, every id that was assigned is
\* at exactly one station: reordering, rotation and flushing neither lose nor
\* repeat an entry.
NothingLostOrRepeated ==
  io_errors = 0 /\ ~closing =>
    \A id \in FirstId..assigned :
      Cardinality({n \in 1..Len(Stations) : id \in Stations[n]}) = 1

\* An entry whose turn has come does not wait in the ordering buffer once the
\* writer has nothing else to do.
ReadyIsReleased ==
  writer = "recv" /\ req = <<>> /\ todo = {} /\ write_chan = <<>> =>
    increment(last_written_id) \notin IdsIn(pending)

AckedUpTo(id) == written # <<>> /\ LastId(written) >= id

\* Every entry the ordering buffer releases is eventually acknowledged, through
\* rotations, failed attempts and the closing of the queue, as long as the
\* failures are recoverable.
ReleasedIsAcked ==
  \A id \in 0..MaxId :
    FirstId <= id /\ id <= last_written_id ~> AckedUpTo(id) \/ ~Recoverable

\* WalStore::close terminates: it never waits for a flush task that waits for
\* the writer.
CloseTerminates == closing ~> writer = "closed"
=============================================================================
