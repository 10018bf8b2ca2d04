--------------------------- MODULE RecoveryProofs ---------------------------
(***************************************************************************)
(* What holds of a queue over any number of processes, crashes, closes and *)
(* restarts, with any number of store workers, as long as no I/O call      *)
(* fails.  The parts keep their own invariants: the window of the memory   *)
(* queue, the pipeline of the WAL writer and, in RecoveryFiles, the files. *)
(***************************************************************************)
EXTENDS RecoveryFiles, RecoveryReads, MemQueueProofs, WalWriterPipeline

\* The leaves are first-order reasoning; those about numbers, sequences or
\* records name SMT.
USE Zenon DEF producerVars, orderVars, fileVars, bufferVars, flushVars

-----------------------------------------------------------------------------
(* The memory queue                                                         *)

\* What the window tells about the files.
LEMMA MemSeen ==
  ASSUME MemInv
  PROVE  MemView
<1>1. last_id \in Int /\ Len(entries) \in Nat /\ recovered \in Int /\ last_acked_id \in Int
  BY SMT DEF MemInv, MemTypeOK, None
<1>2. last_id - Len(entries) <= MaxOpt(recovered, last_acked_id)
  BY DEF MemInv, OlderIsAcked
<1> QED BY <1>1, <1>2, WindowIds DEF MemView

\* A queue that MemQueue::new has just made.
LEMMA MemFresh ==
  ASSUME NEW last \in Nat \cup {None}, FreshMem(last)
  PROVE  MemInv'
<1>1. /\ entries' = <<>> /\ first_id' = None /\ last_acked_id' = None
      /\ last_id' = last /\ recovered' = last /\ last \in Int
  BY SMT DEF FreshMem, None
<1>2. MemTypeOK'
  BY <1>1, EmptySeq DEF MemTypeOK, None
<1>3. WindowExact' /\ OlderIsAcked'
  BY SMT, <1>1 DEF WindowExact, OlderIsAcked, MaxOpt, None
<1> QED BY <1>2, <1>3 DEF MemInv

\* The queue of the first process.
LEMMA MemStart ==
  ASSUME MemInit
  PROVE  MemInv /\ last_id = None /\ recovered = None /\ last_acked_id = None
<1>1. /\ entries = <<>> /\ first_id = None /\ last_acked_id = None
      /\ last_id = None /\ recovered = None /\ None = -1
  BY RecoveryAssumption DEF MemInit, None
<1>2. MemTypeOK
  BY <1>1, EmptySeq DEF MemTypeOK, None
<1>3. WindowExact /\ OlderIsAcked
  BY SMT, <1>1 DEF WindowExact, OlderIsAcked, MaxOpt, None
<1> QED BY <1>1, <1>2, <1>3 DEF MemInv

\* A step that leaves the queue alone.
LEMMA MemSame ==
  ASSUME MemInv, UNCHANGED memVars
  PROVE  MemInv'
BY DEF memVars, MemInv, MemTypeOK, WindowExact, OlderIsAcked

\* A step that enqueues, or hands an acknowledgement over.
LEMMA MemMoves ==
  ASSUME MemInv, applied \in Nat, written \in Seq(Nat), Enqueue \/ AckTask
  PROVE  MemInv'
<1>1. CASE Enqueue
  <2>1. PICK n \in 1..MaxBatch : \E lens \in [1..n -> DataLens] : enqueue_batch(lens)
    BY <1>1 DEF Enqueue
  <2>2. PICK lens \in [1..n -> DataLens] : enqueue_batch(lens)
    BY <2>1
  <2>3. lens \in Seq(DataLens) /\ lens # <<>> /\ Push(lens)
    BY SMT, <2>2, SeqDef, MemAssumption DEF enqueue_batch
  <2> QED BY <2>3, PushInv
<1>2. CASE AckTask
  <2>1. applied + 1 \in 1..Len(written) /\ ack(written[applied + 1])
    BY SMT, <1>2 DEF AckTask
  <2>2. PICK id \in Nat : ack(id)
    BY SMT, <2>1
  <2> QED BY <2>2, AckInv
<1> QED BY <1>1, <1>2

\* The file process_old_files stops at.
LEMMA LeastFile ==
  ASSUME file_id \in Nat, wal_complete \in Seq(Nat)
  PROVE  \E least \in Nat : least <= file_id /\ Min({file_id} \cup Range(wal_complete)) = least
<1> DEFINE S == {file_id} \cup Range(wal_complete)
<1>1. S \in SUBSET Nat /\ S # {} /\ file_id \in S
  BY SMT DEF Range
<1> HIDE DEF S
<1>2. \E m \in S : \A k \in S : m <= k
  BY <1>1, LeastNat
<1>3. Min(S) \in S /\ \A k \in S : Min(S) <= k
  BY <1>2 DEF Min
<1> QED BY <1>1, <1>3 DEF S

\* Every step keeps the window.
LEMMA MemKeeps ==
  ASSUME MemInv, View, [Next]_vars
  PROVE  MemInv'
<1>1. CASE Enqueue \/ AckTask
  <2>1. UpView /\ WriterView
    BY <1>1 DEF Enqueue, AckTask, View
  <2> QED BY <1>1, <2>1, MemMoves DEF UpView, WriterView
<1>2. CASE \/ WalStep \/ process_old_files \/ CloseStore \/ CloseWal \/ UNCHANGED vars
           \/ \E w \in Workers : WorkerStep(w)
  <2>1. UNCHANGED memVars
    BY <1>2 DEF WalStep, process_old_files, CloseStore, CloseWal, vars, WorkerStep, ReceiveFile, Publish, Finish
  <2> QED BY <2>1, MemSame
<1>3. CASE Exit \/ Crash \/ EndReadOnly
  <2>1. FreshMem(None)
    BY <1>3 DEF Exit, Crash, Down, EndReadOnly
  <2> QED BY <2>1, MemFresh
<1>4. CASE OpenForRead \/ OpenForWrite
  <2>1. DownView
    BY <1>4 DEF OpenForRead, OpenForWrite, View
  <2>2. UNCHANGED memVars \/ FreshMem(continue_queue.last)
    BY <1>4 DEF OpenForRead, OpenForWrite, StartMem
  <2> QED BY <2>1, <2>2, MemSame, MemFresh, DownContinues
<1> QED BY <1>1, <1>2, <1>3, <1>4 DEF Next

\* The files are one log.
LEMMA OneLog ==
  ASSUME View
  PROVE  DiskIsOneLog
<1>1. PICK t : FilesOK(t) /\ LogOK(t)
  BY ViewFacts
<1>2. OnDisk = 0..End(t) - 1 /\ End(t) \in Nat
  BY <1>1, OnDiskFacts
<1>3. ASSUME NEW n \in Nat PROVE Cardinality(0..n - 1) = n
  <2>1. n - 1 \in Int /\ 0 \in Int
    BY SMT
  <2>2. Cardinality(0..n - 1) = IF 0 > n - 1 THEN 0 ELSE n - 1 - 0 + 1
    BY <2>1, FS_Interval
  <2> QED BY SMT, <2>2
<1>4. OnDisk = 0..Cardinality(OnDisk) - 1
  BY <1>2, <1>3
<1>5. \A f, g \in Files : \A i \in 1..Len(Content(f)), j \in 1..Len(Content(g)) :
        f < g \/ (f = g /\ i < j) => Content(f)[i] < Content(g)[j]
  BY <1>1, EntriesAscend
<1> QED BY <1>4, <1>5 DEF DiskIsOneLog

-----------------------------------------------------------------------------
(* The WAL writer                                                           *)

\* What the writer's invariant tells about its file.
LEMMA WriterShows ==
  WriterInv /\ io_errors = 0 =>
    WriterView /\ \A m, n \in 1..Len(written) : m < n => written[m] < written[n]
<1> SUFFICES ASSUME WriterInv, io_errors = 0
             PROVE  WriterView /\ \A m, n \in 1..Len(written) : m < n => written[m] < written[n]
  OBVIOUS
<1>1. Cur = wal[file_id] /\ CurIds = Cur.ids /\ Handed(file_id) = Cur.ids \o Blk
  BY DEF Cur, Blk, CurIds, Handed, BeingWritten
<1> QED BY <1>1, WriterSeen DEF WriterView, WalFile, Bytes, Whole, AcksAscend

\* The same after a step.
LEMMA WriterShowsNext ==
  (WriterInv /\ io_errors = 0 =>
     WriterView /\ \A m, n \in 1..Len(written) : m < n => written[m] < written[n])'
BY WriterShows, PTL

\* A step of the writer, as the files see it.
LEMMA WriterMoved ==
  ASSUME WriterInv, WalNext
  PROVE  /\ WriterInv'
         /\ written' = written \/ \E x \in Nat : written' = Append(written, x)
         /\ io_errors' = 0 => WriterMoves
<1>1. WriterInv'
  BY WriterStep
<1>2. written' = written \/ \E x \in Nat : written' = Append(written, x)
  BY AckMoves
<1>3. ASSUME io_errors' = 0 PROVE WriterMoves
  <2>1. Cur = wal[file_id] /\ CurIds = Cur.ids /\ CurIds' = Cur'.ids
    BY DEF Cur, CurIds
  <2> QED BY <1>3, <2>1, FilesSeen DEF WriterMoves, With
<1> QED BY <1>1, <1>2, <1>3

\* A writer that has just been started.
LEMMA WriterStart ==
  \A f \in Nat, last \in Nat \cup {None}, w \in BOOLEAN :
    WalStart(f, last, w) /\ FilesOK(f) /\ wal = [g \in DOMAIN wal |-> wal[g]]
      /\ io_errors \in Nat /\ wal[f] = NewFile(last + 1) => WriterInv
<1> SUFFICES ASSUME NEW f \in Nat, NEW last \in Nat \cup {None}, NEW w \in BOOLEAN,
                    WalStart(f, last, w), FilesOK(f), wal = [g \in DOMAIN wal |-> wal[g]],
                    io_errors \in Nat, wal[f] = NewFile(last + 1)
             PROVE  WriterInv
  OBVIOUS
<1>1. f \in DOMAIN wal /\ \A g \in DOMAIN wal : g \in Nat /\ wal[g] \in WalFile
  BY SMT DEF FilesOK, Files, FileOK
<1>2. written = <<>>
  BY DEF WalStart
<1>3. wal \in [DOMAIN wal -> [before : Nat, ids : Seq(Nat \cup {Torn}), synced : Nat]]
  BY <1>1 DEF WalFile, Bytes
<1>4. DiskTypeOK
  BY <1>1, <1>2, <1>3, EmptySeq DEF DiskTypeOK
<1> QED BY <1>1, <1>4, StartInv

\* The same after a step.
LEMMA WriterStartNext ==
  (\A f \in Nat, last \in Nat \cup {None}, w \in BOOLEAN :
     WalStart(f, last, w) /\ FilesOK(f) /\ wal = [g \in DOMAIN wal |-> wal[g]]
       /\ io_errors \in Nat /\ wal[f] = NewFile(last + 1) => WriterInv)'
BY WriterStart, PTL

\* The writer starts as recovery has it start.
LEMMA WriterStarts ==
  ASSUME DownView, OpenForWrite, io_errors \in Nat
  PROVE  WriterInv'
<1>1. PICK f \in Nat, last \in Nat \cup {None} :
        /\ FreshWriter(f, last) /\ FilesOK(f)' /\ wal'[f] = NewFile(last + 1)
        /\ wal' = [g \in DOMAIN wal' |-> wal'[g]] /\ io_errors' = io_errors
  BY OpenStarts
<1>2. (last > NarrowMax) \in BOOLEAN /\ WalStart(f, last, last > NarrowMax)'
  BY SMT, <1>1 DEF FreshWriter, WalStart, increment
<1> QED BY <1>1, <1>2, WriterStartNext

\* Every step that leaves or makes a process that writes keeps its writer.
LEMMA WriterKeeps ==
  ASSUME View, up => WriterInv, [Next]_vars, io_errors \in Nat, io_errors' = 0
  PROVE  (up' => WriterInv') /\ WriterStepSeen
<1>1. CASE WalStep
  <2>1. WalNext /\ WriterInv
    BY <1>1 DEF WalStep, WalNext, Producers
  <2>2. /\ WriterInv' /\ WriterMoves
        /\ written' = written \/ \E x \in Nat : written' = Append(written, x)
    BY <2>1, WriterMoved
  <2> QED BY <2>2, WriterShowsNext DEF WriterStepSeen
<1>2. CASE ~WalStep
  <2>1. up' => WriterInv'
    <3>1. CASE Enqueue \/ CloseWal
      <4>1. WalNext /\ WriterInv
        BY <3>1 DEF Enqueue, CloseWal, WalNext, Producers
      <4> QED BY <4>1, WriterMoved
    <3>2. CASE \/ AckTask \/ process_old_files \/ CloseStore \/ UNCHANGED vars
               \/ \E w \in Workers : ReceiveFile(w) \/ Publish(w)
      <4>1. UNCHANGED walVars /\ up' = up
        BY <3>2 DEF AckTask, process_old_files, CloseStore, vars, ReceiveFile, Publish
      <4> QED BY <4>1, WriterStep
    <3>3. ASSUME NEW w \in Workers, Finish(w) PROVE WriterInv'
      <4>1. UpView /\ WriterView /\ WriterInv
        BY <3>3 DEF Finish, View
      <4> QED BY <3>3, <4>1, FinishKeeps, OtherFiles, WriterStep DEF walVars, taskVars
    <3>4. CASE Exit \/ Crash \/ OpenForRead
      BY <3>4 DEF Exit, Crash, Down, OpenForRead
    <3>5. CASE EndReadOnly
      BY <3>5 DEF EndReadOnly, View, UpView
    <3>6. CASE OpenForWrite
      <4>1. DownView
        BY <3>6 DEF OpenForWrite, View
      <4> QED BY <3>6, <4>1, WriterStarts
    <3> QED BY <1>2, <3>1, <3>2, <3>3, <3>4, <3>5, <3>6 DEF Next, WorkerStep
  <2> QED BY <1>2, <2>1, WriterShowsNext DEF WriterStepSeen
<1> QED BY <1>1, <1>2

-----------------------------------------------------------------------------
(* What a reader sees                                                       *)

\* The file that is written to, as QueueFiles has it.
LEMMA ServedEnd ==
  ASSUME UpView, WriterView
  PROVE  /\ Served!Active = file_id /\ Served!NextOnDisk = End(file_id)
         /\ End(file_id) \in Nat /\ End(file_id) = before + Len(CurIds)
<1>1. /\ Max(DOMAIN WalSeen) = file_id /\ End(file_id) = before + Len(CurIds) /\ End(file_id) \in Nat
      /\ WalSeen[file_id] = Plain(before, CurIds)
  BY ActiveSeen
<1>2. Served!Active = file_id
  BY <1>1 DEF Served!Active, Served!Max, Max, WalSeen
<1>3. Served!NextOnDisk = WalSeen[file_id].before + Len(WalSeen[file_id].ids)
  BY <1>2 DEF Served!NextOnDisk, WalSeen
<1>4. WalSeen[file_id].before = before /\ WalSeen[file_id].ids = CurIds
  BY SMT, <1>1 DEF Plain
<1> QED BY <1>1, <1>2, <1>3, <1>4

\* What memory forgets is on disk.
LEMMA KeepsUnwritten ==
  ASSUME MemInv, MemInv', Moved, UpView, UpView', WriterView,
         UNCHANGED <<wal, store, headless, file_id, before>>
  PROVE  \A lo, last : lo = Lo /\ last = last_id' => Served!Keep(lo, last)
<1>1. PICK lo \in Int, hi \in Int, last \in Int :
        /\ lo = Lo /\ hi = Lo' /\ last = last_id'
        /\ first_id' = IF hi > last THEN None ELSE hi
  BY WindowStart, WindowStartNext
<1>2. lo <= hi
  BY <1>1, StartsLater
<1>3. PICK e \in Nat : e = End(file_id) /\ e = Served!NextOnDisk
  BY ServedEnd
<1>4. hi <= e
  <2>1. End(file_id)' = e
    BY <1>3, FilesSame DEF UpView
  <2>2. PICK r \in Int, a \in Int : r = recovered' /\ a = last_acked_id'
    BY WindowStartNext
  <2>3. r < before /\ a < e /\ before \in Nat /\ before <= e
    <3>1. r < before /\ a < e
      BY <2>1, <2>2 DEF UpView
    <3>2. e = before + Len(CurIds) /\ Len(CurIds) \in Nat /\ before \in Nat
      BY <1>3, CurEnds DEF UpView, WriterView
    <3> QED BY SMT, <3>1, <3>2
  <2>4. hi - 1 <= MaxOpt(r, a)
    BY <1>1, <2>2, WindowStartNext
  <2> QED BY SMT, <2>3, <2>4 DEF MaxOpt
<1>5. hi \in lo..MaxOpt(lo, e)
  BY SMT, <1>2, <1>4 DEF MaxOpt
<1>6. \E k \in lo..Served!MaxOpt(lo, e) : first_id' = IF k > last THEN Served!None ELSE k
  BY <1>1, <1>5 DEF MaxOpt, Served!MaxOpt, None, Served!None
<1>7. Served!Keep(lo, last)
  BY <1>3, <1>6 DEF Served!Keep
<1> QED BY <1>1, <1>7

\* MemQueue::enqueue_batch.
LEMMA EnqueueSeen ==
  ASSUME MemInv, UpView, UpView', WriterView, Enqueue
  PROVE  Served!Next
<1>1. PICK n \in 1..MaxBatch : \E lens \in [1..n -> DataLens] : enqueue_batch(lens) /\ Assign(lens)
  BY DEF Enqueue
<1>2. PICK lens \in [1..n -> DataLens] : enqueue_batch(lens) /\ Assign(lens)
  BY <1>1
<1>3. /\ lens \in Seq(DataLens) /\ lens # <<>> /\ Push(lens) /\ last_id + Len(lens) <= MaxId
      /\ last_id' = last_id + Len(lens) /\ Len(lens) = n /\ n \in Nat \ {0}
  BY SMT, <1>2, SeqDef, MemAssumption DEF enqueue_batch, Push
<1>4. MemInv' /\ Moved
  BY <1>3, PushInv
<1>5. UNCHANGED <<wal, store, headless, file_id, before>>
  BY <1>2 DEF Enqueue, Assign, diskVars
<1>6. PICK lo \in Int, last \in Int : lo = Lo /\ last = last_id' /\ Served!Keep(lo, last)
  BY <1>4, <1>5, WindowStart, WindowStartNext, KeepsUnwritten
<1>7. n \in 1..MaxId - last_id
  BY SMT, <1>3, WindowStart, MemAssumption
<1>8. lo = IF first_id = None THEN last_id + 1 ELSE first_id
  BY <1>6, WindowStart
<1>9. WalSeen' = WalSeen /\ StoreSeen' = StoreSeen
  BY <1>5, SeenSame
<1>10. Served!Assign
  BY <1>3, <1>6, <1>7, <1>8, <1>9 DEF Served!Assign, Served!Keep, WalSeen, StoreSeen, None, Served!None
<1> QED BY <1>10 DEF Served!Next

\* MemQueue::ack.
LEMMA AckSeen ==
  ASSUME MemInv, UpView, UpView', WriterView, AckTask
  PROVE  UNCHANGED Readable \/ Served!Next
<1>1. applied + 1 \in 1..Len(written) /\ ack(written[applied + 1]) /\ written \in Seq(Nat)
  BY SMT DEF AckTask, UpView, WriterView
<1>2. PICK id \in Nat : ack(id)
  BY SMT, <1>1
<1>3. MemInv' /\ Moved
  BY <1>2, AckInv
<1>4. UNCHANGED <<wal, store, headless, file_id, before>> /\ last_id' = last_id
  BY <1>2 DEF AckTask, ack, walVars, diskVars
<1>5. PICK lo \in Int, last \in Int : lo = Lo /\ last = last_id' /\ Served!Keep(lo, last)
  BY <1>3, <1>4, WindowStart, WindowStartNext, KeepsUnwritten
<1>6. WalSeen' = WalSeen /\ StoreSeen' = StoreSeen
  BY <1>4, SeenSame
<1>7. CASE first_id = None
  <2>1. Lo <= Lo' /\ Lo = last_id + 1 /\ Lo' \in Int /\ last_id \in Int
    BY <1>3, <1>7, StartsLater, WindowStart, WindowStartNext
  <2>2. Lo' > last_id'
    BY SMT, <1>4, <2>1
  <2>3. first_id' = None
    BY <1>3, <2>2, WindowStartNext
  <2> QED BY <1>4, <1>7, <2>3 DEF Readable
<1>8. CASE first_id # None
  <2>1. lo = first_id /\ last = last_id
    BY <1>4, <1>5, <1>8, WindowStart
  <2>2. Served!Forget
    BY <1>4, <1>5, <1>6, <1>8, <2>1 DEF Served!Forget, Served!Keep, WalSeen, StoreSeen, None, Served!None
  <2> QED BY <2>2 DEF Served!Next
<1> QED BY <1>7, <1>8

\* What happens to the files is what QueueFiles lets happen to them.
LEMMA FilesShown ==
  ASSUME UpView, WriterView, FilesServed, UNCHANGED <<last_id, first_id>>
  PROVE  UNCHANGED Served!queueVars \/ Served!Next
<1>1. Served!Active = file_id /\ Served!NextOnDisk = End(file_id)
  BY ServedEnd
<1>2. CASE UNCHANGED <<WalSeen, StoreSeen>>
  BY <1>2 DEF Served!queueVars, WalSeen, StoreSeen
<1>3. ASSUME NEW id \in End(file_id)..last_id,
             WalSeen' = ExtendAt(WalSeen, file_id, Span(End(file_id), id)), UNCHANGED StoreSeen
      PROVE  Served!Next
  <2>1. PICK e : e = End(file_id)
    OBVIOUS
  <2>2. Span(e, id) = Served!Run(e, id)
    BY DEF Span, Served!Run
  <2>3. WalSeen' = ExtendAt(WalSeen, file_id, Served!Run(e, id)) /\ id \in e..last_id
    BY <1>3, <2>1, <2>2
  <2>4. Served!Flush
    BY <1>1, <1>3, <2>1, <2>3 DEF Served!Flush, ExtendAt, WalSeen, StoreSeen
  <2> QED BY <2>4 DEF Served!Next
<1>4. CASE WalSeen' = With(WalSeen, file_id + 1, Plain(End(file_id), <<>>)) /\ UNCHANGED StoreSeen
  <2>1. Served!Rotate
    BY <1>1, <1>4 DEF Served!Rotate, Served!With, With, Served!Content, Plain, WalSeen, StoreSeen, None, Served!None
  <2> QED BY <2>1 DEF Served!Next
<1>5. ASSUME NEW f \in DOMAIN WalSeen, f # file_id, StoreSeen' = With(StoreSeen, f, WalSeen[f]),
             UNCHANGED WalSeen
      PROVE  Served!Next
  <2>1. Served!Publish(f)
    BY <1>1, <1>5 DEF Served!Publish, Served!With, With, WalSeen, StoreSeen
  <2> QED BY <2>1 DEF Served!Next, WalSeen
<1>6. ASSUME NEW f \in DOMAIN WalSeen, f \in DOMAIN StoreSeen, WalSeen' = Without(WalSeen, f),
             UNCHANGED StoreSeen
      PROVE  Served!Next
  <2>1. Served!Delete(f)
    BY <1>6 DEF Served!Delete, Served!Without, Without, Restrict1, WalSeen, StoreSeen
  <2> QED BY <2>1 DEF Served!Next, WalSeen
<1> QED BY <1>2, <1>3, <1>4, <1>5, <1>6 DEF FilesServed

\* All that happens between two moments at which the process writes.
LEMMA UpServes ==
  ASSUME MemInv, UpView, WriterView, UpView', WriterView', Headed, WriterStepSeen, [Next]_vars, up, up'
  PROVE  UNCHANGED Readable \/ UNCHANGED Served!queueVars \/ Served!Next
<1>1. CASE Enqueue
  BY <1>1, EnqueueSeen
<1>2. CASE AckTask
  BY <1>2, AckSeen
<1>3. CASE WalStep
  BY <1>3, FilesServe, FilesShown DEF WriterStepSeen
<1>4. CASE process_old_files \/ CloseStore \/ CloseWal \/ UNCHANGED vars \/ \E w \in Workers : ReceiveFile(w)
  BY <1>4 DEF process_old_files, CloseStore, CloseWal, Close, vars, ReceiveFile, Readable, memVars, walVars,
     diskVars
<1>5. ASSUME NEW w \in Workers, Publish(w) \/ Finish(w)
      PROVE  UNCHANGED Served!queueVars \/ Served!Next
  BY <1>5, FilesServe, FilesShown
<1>6. ~Exit /\ ~Crash /\ ~OpenForRead /\ ~OpenForWrite /\ ~EndReadOnly
  BY DEF Exit, Crash, Down, OpenForRead, OpenForWrite, EndReadOnly, UpView
<1> QED BY <1>1, <1>2, <1>3, <1>4, <1>5, <1>6 DEF Next, WorkerStep

-----------------------------------------------------------------------------
(* The invariant of the whole                                               *)

\* As long as no call has failed: the window, the files, and the writer when
\* there is one.
Healthy ==
  /\ MemInv /\ up \in BOOLEAN
  /\ IF up THEN UpView /\ WriterInv ELSE DownView

Inv == io_errors \in Nat /\ (io_errors = 0 => Healthy)

\* What a healthy queue shows.
LEMMA HealthyShows ==
  ASSUME Healthy, io_errors = 0
  PROVE  View /\ MemView /\ (up => WriterInv)
BY WriterShows, MemSeen DEF Healthy, View

\* The first process is healthy.
LEMMA InitHealthy ==
  ASSUME Init
  PROVE  Inv
<1>1. MemInv /\ UpView
  BY MemStart, InitView DEF Init
<1>2. /\ WalStart(1, None, FALSE) /\ wal = [g \in DOMAIN wal |-> wal[g]]
      /\ wal[1] = NewFile(None + 1) /\ io_errors = 0 /\ file_id = 1 /\ up = TRUE
  BY SMT DEF Init, WalStart, None
<1>3. WriterInv
  BY <1>1, <1>2, WriterStart DEF UpView
<1> QED BY <1>1, <1>2, <1>3 DEF Inv, Healthy

\* Every step keeps the invariant, and as long as no call fails it is a step of
\* the abstract log.
LEMMA InvStep ==
  ASSUME Inv, [Next]_vars, PowerLoss => Fsync
  PROVE  Inv' /\ (io_errors' = 0 => Abstract)
<1>1. io_errors' \in Nat /\ (io_errors' = 0 => io_errors = 0)
  BY SMT, ErrorsGrow DEF Inv
<1>2. ASSUME io_errors' = 0 PROVE Healthy' /\ Abstract
  <2>1. io_errors = 0 /\ Healthy
    BY <1>1, <1>2 DEF Inv
  <2>2. View /\ MemView /\ (up => WriterInv) /\ up \in BOOLEAN /\ MemInv
    BY <2>1, HealthyShows DEF Healthy
  <2>3. (up' => WriterInv') /\ WriterStepSeen
    BY <1>2, <2>1, <2>2, WriterKeeps
  <2>4. up => \E least \in Nat : least <= file_id /\ Min({file_id} \cup Range(wal_complete)) = least
    BY <2>2, LeastFile DEF View, WriterView
  <2>5. up' \in BOOLEAN /\ (IF up' THEN UpView' ELSE DownView') /\ Abstract
    BY <2>2, <2>3, <2>4, ViewStep
  <2>6. MemInv'
    BY <2>2, MemKeeps
  <2> QED BY <2>3, <2>5, <2>6 DEF Healthy
<1> QED BY <1>1, <1>2 DEF Inv

-----------------------------------------------------------------------------
(* The theorems.  A queue without fsync promises nothing about a power      *)
(* failure, and a failed call may leave torn and repeated entries: both are *)
(* left out.                                                                *)

\* The window, the pipeline and the files stay as described above, over every
\* sequence of crashes, closes, recoveries and moves to the store.
THEOREM RecoveryInvariant ==
  ASSUME PowerLoss => Fsync
  PROVE  Spec => []Inv
<1>1. Init => Inv
  BY InitHealthy
<1>2. Inv /\ [Next]_vars => Inv'
  BY InvStep
<1> QED BY <1>1, <1>2, PTL DEF Spec

\* DiskIsOneLog: the files are the ids from zero on, each exactly once and in
\* order, after any number of crashes and recoveries.
THEOREM FilesAreOneLog ==
  ASSUME PowerLoss => Fsync
  PROVE  Spec => [](io_errors = 0 => DiskIsOneLog)
<1>1. Inv => (io_errors = 0 => DiskIsOneLog)
  BY HealthyShows, OneLog DEF Inv
<1> QED BY <1>1, RecoveryInvariant, PTL

\* AckedIsOnDisk: no crash, recovery or move to the store loses an entry that
\* was acknowledged.
THEOREM AckedStaysOnDisk ==
  ASSUME PowerLoss => Fsync
  PROVE  Spec => [](io_errors = 0 => AckedIsOnDisk)
<1>1. Inv => (io_errors = 0 => AckedIsOnDisk)
  BY HealthyShows, ViewShows DEF Inv
<1> QED BY <1>1, RecoveryInvariant, PTL

\* NothingBetween: an entry that cleanup_unlocked has dropped from memory can be
\* read from the files, also when workers move them at that moment.
THEOREM MemoryAndFilesOverlap ==
  ASSUME PowerLoss => Fsync
  PROVE  Spec => [](io_errors = 0 => NothingBetween)
<1>1. Inv => (io_errors = 0 => NothingBetween)
  BY HealthyShows, NoneBetween DEF Inv
<1> QED BY <1>1, RecoveryInvariant, PTL

\* RangesTile: headers and ranges say which ids a file holds, as Lookup's binary
\* search assumes.
THEOREM RangesAreExact ==
  ASSUME PowerLoss => Fsync
  PROVE  Spec => [](io_errors = 0 => RangesTile)
<1>1. Inv => (io_errors = 0 => RangesTile)
  BY HealthyShows, ViewShows DEF Inv
<1> QED BY <1>1, RecoveryInvariant, PTL

\* CloseKeepsAll: when WalWriter has closed, what it had put in order is on disk.
THEOREM CloseLosesNothing ==
  ASSUME PowerLoss => Fsync
  PROVE  Spec => []CloseKeepsAll
<1>1. Inv => CloseKeepsAll
  <2>1. ASSUME Inv, io_errors = 0 PROVE CloseKeepsAll
    BY <2>1, HealthyShows, ViewShows DEF Inv
  <2> QED BY <2>1 DEF CloseKeepsAll
<1> QED BY <1>1, RecoveryInvariant, PTL

\* IsDurableQueue: through every crash and recovery the queue is a log that is
\* cut only behind what it has acknowledged and goes on where it was cut.
THEOREM ImplementsDurableQueue ==
  ASSUME PowerLoss => Fsync
  PROVE  Spec /\ [](io_errors = 0) => IsDurableQueue
<1>1. Init => Log!Init
  <2> SUFFICES ASSUME Init PROVE Log!Init
    OBVIOUS
  <2>1. up = TRUE /\ last_id = None /\ written = <<>> /\ promised = None
    BY MemStart DEF Init, WalStart
  <2> QED BY SMT, <2>1 DEF Log!Init, Acked, None
<1>2. Inv /\ (io_errors = 0)' /\ [Next]_vars =>
        [Log!Next]_<<IF up \/ opened THEN last_id + 1 ELSE increment(continue_queue.last), Acked>>
  BY InvStep DEF Abstract, Length
<1> QED BY <1>1, <1>2, RecoveryInvariant, PTL DEF Spec, IsDurableQueue, Log!Spec

\* ServesReaders: while the process writes, what happens to memory and files is
\* what the readers of QueueFiles are checked against: memory forgets only what is
\* on disk, and a file leaves the WAL only when the store has it.
THEOREM ReadersAreServed ==
  ASSUME PowerLoss => Fsync
  PROVE  Spec /\ [](io_errors = 0) => ServesReaders
<1>1. Init => Headed
  BY DEF Init, Headed
<1>2. Inv /\ io_errors = 0 /\ Headed /\ [Next]_vars => Headed'
  BY HeadedStep DEF Inv, Healthy
<1>3. Inv /\ io_errors = 0 /\ (io_errors = 0)' /\ Headed /\ [Next]_vars =>
        [up /\ up' /\ Readable' # Readable => [Served!Next]_(Served!queueVars)]_vars
  <2> SUFFICES ASSUME Inv, io_errors = 0, io_errors' = 0, Headed, [Next]_vars, up, up', Readable' # Readable
               PROVE  [Served!Next]_(Served!queueVars)
    OBVIOUS
  <2>1. View /\ MemInv /\ UpView /\ WriterInv /\ WriterView
    BY HealthyShows DEF Inv, Healthy, View
  <2>2. Healthy'
    BY InvStep DEF Inv
  <2>3. UpView' /\ WriterStepSeen /\ WriterView'
    <3>1. WriterStepSeen
      BY <2>1, WriterKeeps DEF Inv
    <3> QED BY <2>2, <3>1 DEF Healthy, WriterStepSeen
  <2> QED BY <2>1, <2>3, UpServes
<1> QED BY <1>1, <1>2, <1>3, RecoveryInvariant, PTL DEF Spec, ServesReaders
=============================================================================
