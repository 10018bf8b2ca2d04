-------------------------- MODULE WalWriterProofs ---------------------------
(***************************************************************************)
(* What holds of the WAL writer for every file size, id width and number   *)
(* of producers.  The argument follows an id down the pipeline: the ids in *)
(* the current file, in the block being flushed, in the buffer and in      *)
(* "todo" are adjacent intervals, in this order, that end at               *)
(* last_written_id.  LogIsConsecutive and AckedIsDurable read off the      *)
(* first two; neither is inductive without the rest.                       *)
(***************************************************************************)
EXTENDS WalWriterPipeline, FiniteSetTheorems

\* The leaves are first-order reasoning; those about numbers, sequences or
\* records name SMT.
USE Zenon

\* Before the first step there is one file, and it is empty.
LEMMA InitInv ==
  ASSUME WalInit
  PROVE  WalInv
<1>1. PICK last \in RecoveredIds, w \in BOOLEAN :
         WalStart(IF last = None THEN 1 ELSE 2, last, w)
  BY DEF WalInit
<1>2. last \in Nat \cup {None} /\ last + 1 \in Nat
  BY SMT, WalAssumption DEF None
<1>3. /\ file_id \in Nat /\ before = last + 1 /\ written = <<>>
      /\ file_id = IF last = None THEN 1 ELSE 2
  BY <1>1 DEF WalStart
<1>4. wal = [f \in {file_id} |-> NewFile(before)] /\ io_errors = 0
  BY DEF WalInit
<1>5. DiskTypeOK
  <2>1. NewFile(before) \in [before : Nat, ids : Seq(Nat \cup {Torn}), synced : Nat]
    BY <1>2, <1>3, EmptySeq DEF NewFile
  <2> QED BY <1>3, <1>4, <2>1, EmptySeq DEF DiskTypeOK
<1>6. WriterInv
  <2>1. file_id \in DOMAIN wal /\ wal[file_id] = NewFile(last + 1)
    BY <1>3, <1>4
  <2>2. WalStart(file_id, last, w)
    BY <1>1, <1>3
  <2> QED BY SMT, <1>2, <1>3, <1>5, <2>1, <2>2, StartInv
<1>7. FilesInv
  <2>1. /\ DOMAIN wal = {file_id} /\ wal[file_id].ids = <<>> /\ wal[file_id].before = before
        /\ wal[file_id].synced = 0
    BY <1>4 DEF NewFile
  <2> QED BY SMT, <1>2, <1>3, <2>1 DEF FilesInv, FileIsConsecutive
<1> QED BY <1>6, <1>7 DEF WalInv

\* The entries of the current file are durable up to DurableEnd.
LEMMA CurIsDurable ==
  ASSUME WalTypeOK, Pipeline, Synced, NEW id \in before..DurableEnd - 1
  PROVE  id \in Durable(file_id)
<1>1. /\ before \in Nat /\ DurableEnd \in Nat /\ Len(Cur.ids) \in Nat /\ Cur.synced \in Nat
      /\ file_id \in DOMAIN wal
  BY PipelineTypes DEF Pipeline
<1> DEFINE last == IF Fsync THEN Cur.synced ELSE Len(Cur.ids)
           k == id - before + 1
<1>2. last \in Nat /\ last <= Len(Cur.ids) /\ DurableEnd = before + last
  BY SMT, <1>1 DEF Synced, DurableEnd
<1> HIDE DEF last
<1>3. k \in 1..last /\ k \in 1..Len(Cur.ids) /\ before + k - 1 = id
  BY SMT, <1>1, <1>2
<1> HIDE DEF k
<1>4. Cur.ids[k] = id
  BY <1>3 DEF Pipeline
<1>5. Durable(file_id) = {Cur.ids[i] : i \in 1..last}
  BY DEF Durable, Cur, last
<1> QED BY <1>3, <1>4, <1>5

\* The files stay in order, and only the current one changes.
LEMMA FilesStep ==
  ASSUME WriterInv, FilesInv, [WalNext]_walVars, io_errors' = 0, WriterInv'
  PROVE  FilesInv'
<1>0. /\ WalTypeOK /\ Pipeline /\ Synced /\ file_id \in DOMAIN wal /\ DOMAIN wal \subseteq Nat
      /\ Pipeline' /\ Synced' /\ file_id' \in DOMAIN wal' /\ before \in Nat /\ file_id \in Nat
      /\ FileEnd \in Nat
  <2>1. io_errors = 0
    BY HealthyStep
  <2>2. WalTypeOK /\ Pipeline /\ Synced /\ Pipeline' /\ Synced' /\ file_id \in DOMAIN wal
    BY <2>1 DEF WriterInv, Pipeline
  <2> QED BY <2>2, PipelineTypes DEF Pipeline, WalTypeOK, DiskTypeOK
<1>1. \A f \in DOMAIN wal : wal[f].before \in Nat /\ Len(wal[f].ids) \in Nat
  <2>1. ASSUME NEW f \in DOMAIN wal PROVE wal[f].before \in Nat /\ Len(wal[f].ids) \in Nat
    <3>1. wal[f].before \in Nat /\ wal[f].ids \in Seq(Nat \cup {Torn})
      BY <1>0 DEF WalTypeOK, DiskTypeOK
    <3> QED BY <3>1, LenProperties
  <2> QED BY <2>1
<1>2. ASSUME UNCHANGED <<file_id, before>>, DOMAIN wal' = DOMAIN wal,
             \A f \in DOMAIN wal \ {file_id} : wal'[f] = wal[f]
      PROVE  FilesInv'
  <2>1. \A f \in DOMAIN wal \ {file_id} : Durable(f)' = Durable(f)
    BY <1>2 DEF Durable
  <2>2. wal'[file_id].before = wal[file_id].before
    BY <1>0, <1>2 DEF Pipeline, Cur
  <2>3. \A f \in DOMAIN wal : wal'[f].before = wal[f].before
    BY <1>2, <2>2
  <2>4. FileIsConsecutive(file_id)'
    <3>1. wal'[file_id] = Cur' /\ file_id + 1 \notin DOMAIN wal
      BY SMT, <1>0, <1>2 DEF Cur, FilesInv
    <3> QED BY SMT, <1>0, <1>2, <3>1 DEF FileIsConsecutive, Pipeline
  <2>5. \A f \in DOMAIN wal \ {file_id} : FileIsConsecutive(f)'
    BY SMT, <1>2, <2>3 DEF FilesInv, FileIsConsecutive
  <2>6. \A f \in DOMAIN wal : wal'[f].synced <= Len(wal'[f].ids)
    BY <1>0, <1>2 DEF FilesInv, Synced, Cur
  <2> QED BY SMT, <1>2, <2>1, <2>3, <2>4, <2>5, <2>6 DEF FilesInv
<1>3. CASE DiskSame
  BY <1>2, <1>3 DEF DiskSame
<1>4. CASE DiskGrown \/ DiskSynced
  <2>1. \E r : wal' = [wal EXCEPT ![file_id] = r]
    BY <1>4 DEF DiskGrown, DiskSynced
  <2> QED BY <1>2, <1>4, <2>1 DEF DiskGrown, DiskSynced
<1>5. CASE DiskOpened
  <2>1. /\ file_id' = file_id + 1 /\ before' = FileEnd /\ DurableEnd = FileEnd
        /\ DOMAIN wal' = DOMAIN wal \cup {file_id + 1}
        /\ wal'[file_id + 1] = NewFile(FileEnd)
        /\ \A f \in DOMAIN wal : f # file_id + 1 => wal'[f] = wal[f]
    BY <1>5 DEF DiskOpened
  <2>2. \A f \in DOMAIN wal : f <= file_id /\ f \in Nat
    BY <1>0 DEF FilesInv
  <2>3. \A f \in DOMAIN wal : f # file_id + 1 /\ wal'[f] = wal[f] /\ Durable(f)' = Durable(f)
    BY SMT, <1>0, <2>1, <2>2 DEF Durable
  <2>4. FileEnd = wal[file_id].before + Len(wal[file_id].ids) /\ wal[file_id].before = before
    BY <1>0 DEF FileEnd, Cur, Pipeline
  <2>5. /\ NewFile(FileEnd).before = FileEnd /\ NewFile(FileEnd).ids = <<>>
        /\ file_id + 2 \notin DOMAIN wal'
    BY SMT, <1>0, <2>1, <2>2 DEF NewFile
  <2>6. ASSUME NEW f \in DOMAIN wal' PROVE f <= file_id' /\ FileIsConsecutive(f)'
    <3>1. CASE f = file_id + 1
      <4>1. f + 1 = file_id + 2
        BY SMT, <1>0, <3>1
      <4> QED BY SMT, <1>0, <2>1, <2>5, <3>1, <4>1 DEF FileIsConsecutive
    <3>2. CASE f = file_id
      <4>1. FileIsConsecutive(f) /\ wal'[f] = wal[f]
        BY <1>0, <2>3, <3>2 DEF FilesInv
      <4> QED BY SMT, <1>0, <2>1, <2>4, <2>5, <3>2, <4>1 DEF FileIsConsecutive
    <3>3. CASE f \in DOMAIN wal \ {file_id}
      <4>1. FileIsConsecutive(f) /\ wal'[f] = wal[f] /\ f <= file_id'
        BY SMT, <1>0, <2>1, <2>2, <2>3, <3>3 DEF FilesInv
      <4>2. f + 1 \in DOMAIN wal' <=> f + 1 \in DOMAIN wal
        BY SMT, <1>0, <2>1, <2>2, <3>3
      <4> QED BY <2>3, <4>1, <4>2 DEF FileIsConsecutive
    <3> QED BY <2>1, <3>1, <3>2, <3>3
  <2>7. ASSUME NEW f \in DOMAIN wal' \ {file_id'}
        PROVE  wal'[f].before + Len(wal'[f].ids) <= before'
    <3>1. f \in DOMAIN wal /\ wal'[f] = wal[f]
      BY <2>1, <2>3
    <3>2. f # file_id => wal[f].before + Len(wal[f].ids) <= before
      BY <3>1 DEF FilesInv
    <3> QED BY SMTT(20), <1>0, <1>1, <2>1, <2>4, <3>1, <3>2
  <2>8. ASSUME NEW f \in DOMAIN wal', NEW id \in wal'[f].before..before' - 1
        PROVE  \E g \in DOMAIN wal' \ {file_id'} : id \in Durable(g)'
    <3>1. f \in DOMAIN wal
      BY SMT, <1>0, <2>1, <2>5
    <3>2. id \in wal[f].before..FileEnd - 1
      BY <2>1, <2>3, <3>1
    <3>3. CASE id < before
      <4>1. id \in wal[f].before..before - 1
        BY SMT, <1>0, <1>1, <3>1, <3>2, <3>3
      <4>2. PICK g \in DOMAIN wal \ {file_id} : id \in Durable(g)
        BY <3>1, <4>1 DEF FilesInv
      <4> QED BY <2>1, <2>3, <4>2
    <3>4. CASE id >= before
      <4>1. id \in before..DurableEnd - 1
        BY SMT, <1>0, <1>1, <2>1, <3>1, <3>2, <3>4
      <4>2. id \in Durable(file_id)
        BY <1>0, <4>1, CurIsDurable
      <4> QED BY <1>0, <2>1, <2>3, <4>2
    <3> QED BY SMT, <1>0, <1>1, <3>1, <3>2, <3>3, <3>4
  <2>9. \A f \in DOMAIN wal' : wal'[f].synced <= Len(wal'[f].ids)
    BY <1>0, <2>1, <2>3 DEF FilesInv, Synced, Cur
  <2> QED BY <2>6, <2>7, <2>8, <2>9 DEF FilesInv
<1> QED BY <1>3, <1>4, <1>5, DiskStep

-----------------------------------------------------------------------------
(* Waiting for the turn                                                     *)

\* The ids of a batch.
LEMMA IdsOfBatch ==
  ASSUME NEW b \in Seq(Entry)
  PROVE  IdsIn(Range(b)) = {b[i].id : i \in 1..Len(b)}
<1>1. Range(b) = {b[i] : i \in 1..Len(b)}
  BY RangeEquality
<1> QED BY <1>1, Zenon DEF IdsIn

\* The ids in a channel.
LEMMA IdsOfChannel ==
  ASSUME NEW c \in Seq(Seq(Entry))
  PROVE  \A id : id \in BatchIds(Range(c)) <=> \E n \in 1..Len(c) : id \in IdsIn(Range(c[n]))
<1>1. Range(c) = {c[i] : i \in 1..Len(c)}
  BY RangeEquality
<1> QED BY <1>1, Zenon DEF BatchIds

\* A batch without its first entry has one id less.
LEMMA TailIds ==
  ASSUME NEW b \in Seq(Entry), b # <<>>, DistinctIds(b)
  PROVE  /\ DistinctIds(Tail(b)) /\ Head(b).id \in IdsIn(Range(b))
         /\ IdsIn(Range(Tail(b))) = IdsIn(Range(b)) \ {Head(b).id}
<1>1. /\ Len(b) \in Nat /\ Len(b) > 0 /\ Head(b) = b[1] /\ Tail(b) \in Seq(Entry)
      /\ Len(Tail(b)) = Len(b) - 1 /\ \A i \in 1..Len(Tail(b)) : Tail(b)[i] = b[i + 1]
  BY SMT, HeadTailProperties, EmptySeq
<1>2. /\ IdsIn(Range(b)) = {b[i].id : i \in 1..Len(b)}
      /\ IdsIn(Range(Tail(b))) = {Tail(b)[i].id : i \in 1..Len(Tail(b))}
  BY <1>1, IdsOfBatch
<1>3. DistinctIds(Tail(b))
  BY SMT, <1>1 DEF DistinctIds
<1>4. b[1].id \in IdsIn(Range(b))
  BY SMT, <1>1, <1>2
<1>5. ASSUME NEW i \in 1..Len(Tail(b)) PROVE i + 1 \in 1..Len(b) /\ b[i + 1].id # b[1].id
  BY SMT, <1>1 DEF DistinctIds
<1>6. ASSUME NEW i \in 1..Len(b), b[i].id # b[1].id
      PROVE  i - 1 \in 1..Len(Tail(b)) /\ Tail(b)[i - 1] = b[i]
  BY SMT, <1>1, <1>6
<1>7. IdsIn(Range(Tail(b))) \subseteq IdsIn(Range(b)) \ {b[1].id}
  BY SMT, <1>1, <1>2, <1>5
<1>8. IdsIn(Range(b)) \ {b[1].id} \subseteq IdsIn(Range(Tail(b)))
  BY SMT, <1>2, <1>6
<1> QED BY <1>1, <1>3, <1>4, <1>7, <1>8

\* The batch that enqueue makes of the next ids.
LEMMA NewBatch ==
  ASSUME NEW a \in Int, NEW n \in Nat, NEW b \in Seq(Entry), Len(b) = n,
         \A i \in 1..n : b[i].id = a + i
  PROVE  DistinctIds(b) /\ IdsIn(Range(b)) = a + 1..a + n
<1>1. DistinctIds(b)
  BY SMT DEF DistinctIds
<1>2. IdsIn(Range(b)) = {b[i].id : i \in 1..n}
  BY IdsOfBatch
<1>3. ASSUME NEW k \in a + 1..a + n PROVE k \in IdsIn(Range(b))
  <2>1. k - a \in 1..n /\ b[k - a].id = k
    BY SMT
  <2> QED BY <1>2, <2>1
<1>4. ASSUME NEW k \in IdsIn(Range(b)) PROVE k \in a + 1..a + n
  <2>1. PICK i \in 1..n : k = b[i].id
    BY <1>2
  <2>2. k = a + i
    BY <2>1
  <2> QED BY SMT, <2>2
<1> QED BY <1>1, <1>3, <1>4

\* Every step moves an id from one waiting place to the next, or releases it.
LEMMA WaitingStep ==
  ASSUME WriterInv, WaitingOnce, [WalNext]_walVars, io_errors' = 0, ~closing'
  PROVE  WaitingOnce'
<1>0. /\ ~OpenFails /\ ~WriteFails /\ ~SyncFails /\ io_errors = 0
      /\ ProducerTypeOK /\ OrderTypeOK /\ assigned \in Int /\ last_written_id \in Int
      /\ Pipeline
  BY SMT, HealthyStep DEF WriterInv, WalTypeOK, ProducerTypeOK, OrderTypeOK, None
<1>1. ASSUME UNCHANGED <<unsent, write_chan, req, pending, last_written_id, assigned>>
      PROVE  WaitingOnce'
  BY <1>1 DEF WaitingOnce, Unsent, Sent, InReq, Pending
<1>2. ASSUME NEW n \in 1..MaxBatch, NEW lens \in [1..n -> DataLens], Assign(lens)
      PROVE  WaitingOnce'
  <2> DEFINE batch == [i \in 1..Len(lens) |-> [id |-> assigned + i, len |-> lens[i]]]
  <2>1. Len(lens) = n /\ n \in Nat /\ n > 0 /\ \A i \in 1..n : lens[i] \in DataLens
    BY SMT, SeqDef, WalAssumption
  <2>2. batch \in Seq(Entry) /\ Len(batch) = n /\ \A i \in 1..n : batch[i].id = assigned + i
    <3>1. \A i \in 1..n : [id |-> assigned + i, len |-> lens[i]] \in Entry
      <4>1. assigned >= -1
        BY SMT, <1>0 DEF ProducerTypeOK, None
      <4> QED BY SMT, <1>0, <2>1, <4>1 DEF Entry
    <3> QED BY SMT, <2>1, <3>1
  <2>3. /\ unsent' = unsent \cup {batch} /\ assigned' = assigned + n
        /\ UNCHANGED <<write_chan, req, pending, last_written_id>>
    BY <1>2, <2>1 DEF Assign, orderVars
  <2> HIDE DEF batch
  <2>4. DistinctIds(batch) /\ IdsIn(Range(batch)) = assigned + 1..assigned + n
    BY <1>0, <2>1, <2>2, NewBatch
  <2>5. Unsent' = Unsent \cup (assigned + 1..assigned + n)
    BY <2>3, <2>4 DEF Unsent, BatchIds
  <2>6. Sent' = Sent /\ InReq' = InReq /\ Pending' = Pending
    BY <2>3 DEF Sent, InReq, Pending
  <2>7. \A id \in Unsent \cup Sent \cup InReq \cup Pending : id \in Int /\ id <= assigned
    BY SMT, <1>0 DEF WaitingOnce
  <2>8. \A b \in unsent : IdsIn(Range(b)) \subseteq Unsent
    BY DEF Unsent, BatchIds
  <2>9. \A b \in unsent : Disjoint(IdsIn(Range(b)), IdsIn(Range(batch)))
    BY SMT, <1>0, <2>1, <2>4, <2>7, <2>8 DEF Disjoint
  <2>10. \A b, c \in unsent' : b # c => Disjoint(IdsIn(Range(b)), IdsIn(Range(c)))
    BY <2>3, <2>9 DEF WaitingOnce, Disjoint
  <2>11. Disjoint(Unsent', Sent') /\ Disjoint(Unsent', InReq') /\ Disjoint(Unsent', Pending')
    BY SMT, <1>0, <2>1, <2>5, <2>6, <2>7 DEF WaitingOnce, Disjoint
  <2>12. (last_written_id + 1..assigned) \cup (assigned + 1..assigned + n)
           = last_written_id + 1..assigned + n
    <3>1. last_written_id <= assigned
      BY <1>0 DEF Pipeline
    <3> QED BY SMT, <1>0, <2>1, <3>1
  <2>13. Unsent' \cup Sent' \cup InReq' \cup Pending' = last_written_id' + 1..assigned'
    <3>1. Unsent' \cup Sent' \cup InReq' \cup Pending'
            = (last_written_id + 1..assigned) \cup (assigned + 1..assigned + n)
      BY <2>5, <2>6 DEF WaitingOnce
    <3> QED BY <2>3, <2>12, <3>1
  <2>14. \A b \in unsent' : DistinctIds(b)
    BY <2>3, <2>4 DEF WaitingOnce
  <2> QED BY SMT, <2>3, <2>6, <2>10, <2>11, <2>13, <2>14 DEF WaitingOnce
<1>3. ASSUME NEW batch \in unsent, Send(batch) PROVE WaitingOnce'
  <2> DEFINE B == IdsIn(Range(batch))
  <2>1. /\ unsent' = unsent \ {batch} /\ write_chan' = Append(write_chan, batch)
        /\ UNCHANGED <<assigned, req, pending, last_written_id>>
    BY <1>3 DEF Send
  <2>2. /\ write_chan \in Seq(Seq(Entry)) /\ Len(write_chan) \in Nat /\ batch \in Seq(Entry)
        /\ Len(write_chan') = Len(write_chan) + 1
        /\ \A n \in 1..Len(write_chan) : write_chan'[n] = write_chan[n]
        /\ write_chan'[Len(write_chan) + 1] = batch
    BY SMT, <1>0, <2>1 DEF OrderTypeOK, ProducerTypeOK
  <2>3. Unsent' = Unsent \ B
    BY SMT, <2>1 DEF WaitingOnce, Unsent, BatchIds, Disjoint
  <2>4. Range(write_chan') = Range(write_chan) \cup {batch}
    <3>1. Range(write_chan) = {write_chan[i] : i \in 1..Len(write_chan)}
      BY <2>2, RangeEquality
    <3>2. Range(write_chan') = {write_chan'[i] : i \in 1..Len(write_chan) + 1}
      <4>1. write_chan' \in Seq(Seq(Entry))
        BY SMT, <2>1, <2>2
      <4> QED BY <2>2, <4>1, RangeEquality
    <3>3. \A i \in 1..Len(write_chan) + 1 : i \in 1..Len(write_chan) \/ i = Len(write_chan) + 1
      BY SMT, <2>2
    <3>4. 1..Len(write_chan) \subseteq 1..Len(write_chan) + 1 /\ Len(write_chan) + 1 \in 1..Len(write_chan) + 1
      BY SMT, <2>2
    <3>5. Range(write_chan') \subseteq Range(write_chan) \cup {batch}
      BY <2>2, <3>1, <3>2, <3>3
    <3>6. Range(write_chan) \cup {batch} \subseteq Range(write_chan')
      BY <2>2, <3>1, <3>2, <3>4
    <3> QED BY <3>5, <3>6
  <2>5. Sent' = Sent \cup B
    BY <2>4 DEF Sent, BatchIds
  <2>6. InReq' = InReq /\ Pending' = Pending /\ B \subseteq Unsent
    BY <2>1 DEF InReq, Pending, Unsent, BatchIds
  <2>7. \A n \in 1..Len(write_chan) : IdsIn(Range(write_chan[n])) \subseteq Sent
    BY <2>2, IdsOfChannel DEF Sent
  <2> HIDE DEF B
  <2>8. \A n \in 1..Len(write_chan') : DistinctIds(write_chan'[n])
    <3>1. DistinctIds(batch)
      BY DEF WaitingOnce
    <3>2. \A n \in 1..Len(write_chan') : n \in 1..Len(write_chan) \/ n = Len(write_chan) + 1
      BY SMT, <2>2
    <3> QED BY <2>2, <3>1, <3>2 DEF WaitingOnce
  <2>9. ASSUME NEW m \in 1..Len(write_chan'), NEW n \in 1..Len(write_chan'), m # n
        PROVE  Disjoint(IdsIn(Range(write_chan'[m])), IdsIn(Range(write_chan'[n])))
    <3>1. \A k \in 1..Len(write_chan') : k \in 1..Len(write_chan) \/ k = Len(write_chan) + 1
      BY SMT, <2>2
    <3>2. ASSUME NEW k \in 1..Len(write_chan)
          PROVE  Disjoint(IdsIn(Range(write_chan[k])), B)
      BY <2>6, <2>7 DEF WaitingOnce, Disjoint
    <3>3. CASE m \in 1..Len(write_chan) /\ n \in 1..Len(write_chan)
      BY <2>2, <2>9, <3>3 DEF WaitingOnce
    <3>4. CASE m = Len(write_chan) + 1
      <4>1. n \in 1..Len(write_chan)
        BY <2>9, <3>1, <3>4
      <4> QED BY <2>2, <3>2, <3>4, <4>1 DEF Disjoint, B
    <3>5. CASE n = Len(write_chan) + 1
      <4>1. m \in 1..Len(write_chan)
        BY <2>9, <3>1, <3>5
      <4> QED BY <2>2, <3>2, <3>5, <4>1 DEF Disjoint, B
    <3> QED BY <3>1, <3>3, <3>4, <3>5
  <2>10. /\ Disjoint(Unsent', Sent') /\ Disjoint(Unsent', InReq') /\ Disjoint(Unsent', Pending')
         /\ Disjoint(Sent', InReq') /\ Disjoint(Sent', Pending') /\ Disjoint(InReq', Pending')
    BY <2>3, <2>5, <2>6 DEF WaitingOnce, Disjoint
  <2>11. Unsent' \cup Sent' \cup InReq' \cup Pending' = last_written_id' + 1..assigned'
    <3>1. Unsent' \cup Sent' \cup InReq' \cup Pending' = Unsent \cup Sent \cup InReq \cup Pending
      BY <2>3, <2>5, <2>6
    <3> QED BY <2>1, <3>1 DEF WaitingOnce
  <2> QED BY <2>1, <2>8, <2>9, <2>10, <2>11 DEF WaitingOnce
<1>4. CASE Receive
  <2> DEFINE B == IdsIn(Range(Head(write_chan)))
  <2>1. /\ req = <<>> /\ req' = Head(write_chan) /\ write_chan' = Tail(write_chan)
        /\ write_chan # <<>> /\ UNCHANGED <<assigned, unsent, pending, last_written_id>>
    BY <1>4 DEF Receive, producerVars
  <2>2. /\ write_chan \in Seq(Seq(Entry)) /\ Len(write_chan) \in Nat /\ Len(write_chan) > 0
        /\ Head(write_chan) = write_chan[1] /\ Len(write_chan') = Len(write_chan) - 1
        /\ write_chan' \in Seq(Seq(Entry))
        /\ \A n \in 1..Len(write_chan') : write_chan'[n] = write_chan[n + 1] /\ n + 1 \in 1..Len(write_chan)
    BY SMT, <1>0, <2>1, HeadTailProperties, EmptySeq DEF OrderTypeOK
  <2>3. InReq = {} /\ InReq' = B
    BY SMT, <2>1 DEF InReq, Range, IdsIn
  <2>4. /\ \A id : id \in Sent <=> \E n \in 1..Len(write_chan) : id \in IdsIn(Range(write_chan[n]))
        /\ \A id : id \in Sent' <=> \E n \in 1..Len(write_chan') : id \in IdsIn(Range(write_chan'[n]))
    BY <2>2, IdsOfChannel DEF Sent
  <2>5. B \subseteq Sent /\ Disjoint(Sent', B) /\ Sent' \cup B = Sent
    <3>1. ASSUME NEW n \in 1..Len(write_chan')
          PROVE  Disjoint(IdsIn(Range(write_chan'[n])), B)
      <4>1. n + 1 \in 1..Len(write_chan) /\ 1 \in 1..Len(write_chan) /\ n + 1 # 1
        BY SMT, <2>2
      <4>2. Disjoint(IdsIn(Range(write_chan[n + 1])), IdsIn(Range(write_chan[1])))
        BY <4>1 DEF WaitingOnce
      <4> QED BY <2>2, <4>2
    <3>2. B \subseteq Sent
      BY SMT, <2>2, <2>4
    <3>3. Sent' \subseteq Sent
      BY <2>2, <2>4
    <3>4. Disjoint(Sent', B)
      BY <2>4, <3>1 DEF Disjoint
    <3>5. Sent \subseteq Sent' \cup B
      <4>1. ASSUME NEW n \in 1..Len(write_chan), n # 1
            PROVE  n - 1 \in 1..Len(write_chan') /\ write_chan'[n - 1] = write_chan[n]
        BY SMTT(20), <2>2, <4>1
      <4>2. ASSUME NEW id \in Sent PROVE id \in Sent' \cup B
        <5>1. PICK n \in 1..Len(write_chan) : id \in IdsIn(Range(write_chan[n]))
          BY <2>4
        <5> QED BY <2>2, <2>4, <4>1, <5>1
      <4> QED BY <4>2
    <3> QED BY <3>2, <3>3, <3>4, <3>5
  <2> HIDE DEF B
  <2>6. Unsent' = Unsent /\ Pending' = Pending
    BY <2>1 DEF Unsent, Pending
  <2>7. DistinctIds(req') /\ \A n \in 1..Len(write_chan') : DistinctIds(write_chan'[n])
    BY SMT, <2>1, <2>2 DEF WaitingOnce
  <2>8. \A m, n \in 1..Len(write_chan') : m # n =>
          Disjoint(IdsIn(Range(write_chan'[m])), IdsIn(Range(write_chan'[n])))
    <3>1. ASSUME NEW m \in 1..Len(write_chan'), NEW n \in 1..Len(write_chan'), m # n
          PROVE  Disjoint(IdsIn(Range(write_chan'[m])), IdsIn(Range(write_chan'[n])))
      <4>1. m + 1 \in 1..Len(write_chan) /\ n + 1 \in 1..Len(write_chan) /\ m + 1 # n + 1
        <5>1. m \in 1..Len(write_chan) - 1 /\ n \in 1..Len(write_chan) - 1 /\ Len(write_chan) \in Nat
          BY <2>2
        <5> QED BY <3>1, <5>1, Shifted
      <4>2. Disjoint(IdsIn(Range(write_chan[m + 1])), IdsIn(Range(write_chan[n + 1])))
        BY <4>1 DEF WaitingOnce
      <4> QED BY <2>2, <4>2
    <3> QED BY <3>1
  <2>9. /\ Disjoint(Unsent', Sent') /\ Disjoint(Unsent', InReq') /\ Disjoint(Unsent', Pending')
        /\ Disjoint(Sent', InReq') /\ Disjoint(Sent', Pending') /\ Disjoint(InReq', Pending')
    BY <2>3, <2>5, <2>6 DEF WaitingOnce, Disjoint
  <2>10. Unsent' \cup Sent' \cup InReq' \cup Pending' = last_written_id' + 1..assigned'
    <3>1. Unsent' \cup Sent' \cup InReq' \cup Pending' = Unsent \cup Sent \cup InReq \cup Pending
      BY <2>3, <2>5, <2>6
    <3> QED BY <2>1, <3>1 DEF WaitingOnce
  <2> QED BY <2>1, <2>7, <2>8, <2>9, <2>10 DEF WaitingOnce
<1>5. CASE Order
  <2> DEFINE e == Head(req)
             R == IdsIn(todo')
  <2>1. /\ req \in Seq(Entry) /\ req # <<>> /\ req' = Tail(req) /\ pending \subseteq Entry
        /\ UNCHANGED <<assigned, unsent, write_chan>>
        /\ IF check_can_write(e.id)
           THEN todo' = {e} /\ pending' = pending
           ELSE todo' = Ready(pending \cup {e}, last_written_id) /\ pending' = (pending \cup {e}) \ todo'
    BY <1>0, <1>5 DEF Order, OrderTypeOK, producerVars
  <2>2. /\ R = last_written_id + 1..last_written_id' /\ last_written_id <= last_written_id'
        /\ last_written_id' \in Int /\ e \in Entry
        /\ last_written_id' = last_written_id \/ last_written_id' <= assigned
    BY SMT, <1>5, OrderFacts DEF None
  <2>3. /\ DistinctIds(req') /\ e.id \in InReq /\ InReq' = InReq \ {e.id}
    BY <2>1, TailIds DEF WaitingOnce, InReq
  <2>4. Unsent' = Unsent /\ Sent' = Sent
    BY <2>1 DEF Unsent, Sent
  <2>5. Pending' = (Pending \cup {e.id}) \ R /\ R \subseteq Pending \cup {e.id}
    <3>1. CASE check_can_write(e.id)
      <4>1. R = {e.id} /\ Pending' = Pending
        BY <2>1, <3>1 DEF IdsIn, Pending
      <4>2. e.id \notin Pending
        BY <2>3 DEF WaitingOnce, Disjoint
      <4> QED BY <4>1, <4>2
    <3>2. CASE ~check_can_write(e.id)
      <4>1. todo' \subseteq pending \cup {e} /\ pending' = (pending \cup {e}) \ todo'
        BY <2>1, <3>2 DEF Ready
      <4>2. \A d, x \in pending \cup {e} : d.id = x.id => d = x
        <5>1. pending \cup {e} \subseteq Upstream
          <6>1. e \in Range(req)
            BY SMT, <2>1, HeadTailProperties DEF Range
          <6> QED BY <2>1, <2>2, <6>1 DEF Upstream
        <5> QED BY <5>1 DEF WriterInv, IdsName
      <4>3. Pending \cup {e.id} = {d.id : d \in pending \cup {e}}
        BY DEF Pending, IdsIn
      <4>4. Pending' = {d.id : d \in pending'} /\ R = {d.id : d \in todo'}
        BY DEF Pending, IdsIn
      <4> HIDE DEF R
      <4>5. Pending' \subseteq (Pending \cup {e.id}) \ R
        BY SMT, <4>1, <4>2, <4>3, <4>4
      <4>6. (Pending \cup {e.id}) \ R \subseteq Pending'
        BY <4>1, <4>3, <4>4
      <4>7. R \subseteq Pending \cup {e.id}
        BY <4>1, <4>3, <4>4
      <4> QED BY <4>5, <4>6, <4>7
    <3> QED BY <3>1, <3>2
  <2> HIDE DEF R
  <2>6. /\ Disjoint(Unsent', Sent') /\ Disjoint(Unsent', InReq') /\ Disjoint(Unsent', Pending')
        /\ Disjoint(Sent', InReq') /\ Disjoint(Sent', Pending') /\ Disjoint(InReq', Pending')
    BY SMT, <2>3, <2>4, <2>5 DEF WaitingOnce, Disjoint
  <2>7. Unsent' \cup Sent' \cup InReq' \cup Pending'
          = (Unsent \cup Sent \cup InReq \cup Pending) \ R
    BY <2>3, <2>4, <2>5 DEF WaitingOnce, Disjoint
  <2>8. (last_written_id + 1..assigned) \ (last_written_id + 1..last_written_id')
          = last_written_id' + 1..assigned
    BY SMT, <1>0, <2>2
  <2>9. Unsent' \cup Sent' \cup InReq' \cup Pending' = last_written_id' + 1..assigned'
    BY <2>1, <2>2, <2>7, <2>8 DEF WaitingOnce
  <2> QED BY <2>1, <2>3, <2>6, <2>9 DEF WaitingOnce
<1>6. CASE Close \/ AppendEntry \/ Rotate \/ Open \/ HandleClose \/ Closed
  BY <1>1, <1>6 DEF Close, AppendEntry, Rotate, Open, HandleClose, Closed, producerVars, orderVars
<1>7. CASE FlushTake \/ FlushNothing \/ WriteOk \/ SyncOk \/ UNCHANGED walVars
  BY <1>1, <1>7 DEF FlushTake, FlushNothing, WriteOk, SyncOk, WriterUnchanged, walVars,
     producerVars, orderVars
<1> QED BY SMT, <1>0, <1>2, <1>3, <1>4, <1>5, <1>6, <1>7
        DEF WalNext, Producers, WriterTask, FlushTask

-----------------------------------------------------------------------------
(* The theorems                                                             *)

\* WalInv is inductive: each step of the producers, the writer task and the
\* flush task keeps it.
THEOREM WalInvariant == WalSpec => []WalInv
<1>1. WalInit => WalInv
  BY InitInv
<1>2. WalInv /\ [WalNext]_walVars => WalInv'
  <2> SUFFICES ASSUME WalInv, [WalNext]_walVars PROVE WalInv'
    OBVIOUS
  <2>1. WriterInv'
    BY WriterStep DEF WalInv
  <2>2. io_errors' = 0 => FilesInv'
    BY <2>1, HealthyStep, FilesStep DEF WalInv
  <2> QED BY <2>1, <2>2 DEF WalInv
<1> QED BY <1>1, <1>2, PTL DEF WalSpec

\* The WAL files form the log that readers and recovery compute positions from,
\* whatever the order in which producers hand their entries over and wherever
\* rotate() cuts the files.
THEOREM LogIsTheLog == WalSpec => [](WalTypeOK /\ LogIsConsecutive)
<1>1. WalInv => WalTypeOK /\ LogIsConsecutive
  BY DEF WalInv, WriterInv, LogIsConsecutive, FilesInv, FileIsConsecutive
<1> QED BY <1>1, WalInvariant, PTL

\* The ids of a run of consecutive ones.
LEMMA RunIds ==
  ASSUME NEW S, NEW s \in Seq(S), NEW a \in Int, \A i \in 1..Len(s) : s[i] = a + i - 1
  PROVE  Range(s) = a..a + Len(s) - 1
<1>1. Len(s) \in Nat /\ Range(s) = {s[i] : i \in 1..Len(s)}
  BY RangeEquality, LenProperties
<1>2. ASSUME NEW x \in Range(s) PROVE x \in a..a + Len(s) - 1
  <2>1. PICK i \in 1..Len(s) : x = a + i - 1
    BY <1>1
  <2> QED BY SMT, <1>1, <2>1
<1>3. ASSUME NEW x \in a..a + Len(s) - 1 PROVE x \in Range(s)
  <2>1. x - a + 1 \in 1..Len(s) /\ s[x - a + 1] = x
    BY SMT, <1>1
  <2> QED BY <1>1, <2>1
<1> QED BY <1>2, <1>3

\* The first id of the files.
LEMMA FirstIdFacts ==
  ASSUME DiskTypeOK, DOMAIN wal # {}
  PROVE  \E f \in DOMAIN wal : FirstId = wal[f].before /\ FirstId \in Nat
<1> DEFINE T == {wal[f].before : f \in DOMAIN wal}
<1>1. T \in SUBSET Nat /\ T # {}
  BY DEF DiskTypeOK
<1>2. \E m \in T : \A k \in T : m <= k
  BY <1>1, LeastNat
<1>3. Min(T) \in T
  BY <1>2 DEF Min
<1> QED BY <1>1, <1>3 DEF FirstId

\* The stations behind the ordering buffer are adjacent intervals.
LEMMA LowerStations ==
  ASSUME WalInv, io_errors = 0, NEW id \in FirstId..assigned
  PROVE  /\ id \in Int
         /\ id \in IdsIn(todo) <=> BufferEnd <= id /\ id <= last_written_id
         /\ id \in Range(buffer) <=> BlkEnd <= id /\ id < BufferEnd
         /\ id \in (IF flush = "write" THEN Range(data_to_write) ELSE {}) <=> FileEnd <= id /\ id < BlkEnd
         /\ id \in UNION {Range(wal[f].ids) : f \in DOMAIN wal} <=> id < FileEnd
<1>0. WalTypeOK /\ Pipeline /\ Synced /\ FilesInv /\ file_id \in DOMAIN wal
  BY DEF WalInv, WriterInv, Pipeline
<1>1. /\ Cur.ids \in Seq(Nat \cup {Torn}) /\ Len(Cur.ids) \in Nat /\ Blk \in Seq(Nat)
      /\ Len(Blk) \in Nat /\ buffer \in Seq(Nat) /\ Len(buffer) \in Nat
      /\ before \in Nat /\ last_written_id \in Int /\ assigned \in Int
      /\ FileEnd \in Nat /\ BlkEnd \in Nat /\ BufferEnd \in Nat
  BY <1>0, PipelineTypes
<1>2. PICK first \in DOMAIN wal : FirstId = wal[first].before /\ FirstId \in Nat
  BY <1>0, FirstIdFacts DEF WalTypeOK
<1>3. id \in Nat /\ FirstId <= id
  BY SMT, <1>1, <1>2
<1>4. id \in IdsIn(todo) <=> BufferEnd <= id /\ id <= last_written_id
  BY SMT, <1>0, <1>1, <1>3 DEF Pipeline
<1>5. Range(buffer) = BlkEnd..BufferEnd - 1
  <2>1. Range(buffer) = BlkEnd..BlkEnd + Len(buffer) - 1
    <3>1. \A i \in 1..Len(buffer) : buffer[i] = BlkEnd + i - 1
      BY <1>0 DEF Pipeline
    <3>2. buffer \in Seq(Nat) /\ BlkEnd \in Int
      BY SMT, <1>1
    <3> QED BY <3>1, <3>2, RunIds
  <2>2. BufferEnd = BlkEnd + Len(buffer)
    BY DEF BufferEnd
  <2>3. BufferEnd - 1 = BlkEnd + Len(buffer) - 1
    BY SMT, <1>1, <2>2
  <2> QED BY <2>1, <2>3
<1>6. Range(Blk) = FileEnd..BlkEnd - 1
  <2>1. Range(Blk) = FileEnd..FileEnd + Len(Blk) - 1
    <3>1. \A i \in 1..Len(Blk) : Blk[i] = FileEnd + i - 1
      BY <1>0 DEF Pipeline
    <3>2. Blk \in Seq(Nat) /\ FileEnd \in Int
      BY SMT, <1>1
    <3> QED BY <3>1, <3>2, RunIds
  <2>2. BlkEnd = FileEnd + Len(Blk)
    BY DEF BlkEnd
  <2>3. BlkEnd - 1 = FileEnd + Len(Blk) - 1
    BY SMT, <1>1, <2>2
  <2> QED BY <2>1, <2>3
<1>7. Range(Blk) = IF flush = "write" THEN Range(data_to_write) ELSE {}
  <2>1. CASE flush = "write"
    BY <2>1 DEF Blk
  <2>2. CASE flush # "write"
    <3>1. Blk = <<>>
      BY <2>2 DEF Blk
    <3>2. Range(Blk) = {}
      BY SMT, <3>1 DEF Range
    <3> QED BY <2>2, <3>2
  <2> QED BY <2>1, <2>2
<1>8. Range(Cur.ids) = before..FileEnd - 1
  <2>1. Range(Cur.ids) = before..before + Len(Cur.ids) - 1
    <3>1. before \in Int /\ \A i \in 1..Len(Cur.ids) : Cur.ids[i] = before + i - 1
      BY SMT, <1>0, <1>1 DEF Pipeline
    <3> HIDE DEF Cur
    <3> QED BY <1>1, <3>1, RunIds
  <2>2. FileEnd = before + Len(Cur.ids)
    BY DEF FileEnd
  <2>3. FileEnd - 1 = before + Len(Cur.ids) - 1
    BY SMT, <1>1, <2>2
  <2> QED BY <2>1, <2>3
<1>9. ASSUME NEW f \in DOMAIN wal
      PROVE  /\ wal[f].ids \in Seq(Nat \cup {Torn}) /\ wal[f].before \in Nat /\ Len(wal[f].ids) \in Nat
             /\ Range(wal[f].ids) = wal[f].before..wal[f].before + Len(wal[f].ids) - 1
  <2>1. wal[f].ids \in Seq(Nat \cup {Torn}) /\ wal[f].before \in Nat
    BY <1>0 DEF WalTypeOK, DiskTypeOK
  <2>2. \A i \in 1..Len(wal[f].ids) : wal[f].ids[i] = wal[f].before + i - 1
    BY <1>0 DEF FilesInv, FileIsConsecutive
  <2> QED BY SMT, <2>1, <2>2, RunIds, LenProperties
<1>10. ASSUME id \in UNION {Range(wal[f].ids) : f \in DOMAIN wal} PROVE id < FileEnd
  <2>1. PICK f \in DOMAIN wal : id \in Range(wal[f].ids)
    BY <1>10
  <2>2. CASE f = file_id
    BY SMT, <1>1, <1>8, <2>1, <2>2 DEF Cur
  <2>3. CASE f # file_id
    <3>1. wal[f].before + Len(wal[f].ids) <= before
      BY <1>0, <2>3 DEF FilesInv
    <3>2. before <= FileEnd
      BY SMT, <1>1 DEF FileEnd
    <3> QED BY SMT, <1>1, <1>3, <1>9, <2>1, <3>1, <3>2
  <2> QED BY <2>2, <2>3
<1>11. ASSUME id < FileEnd PROVE \E f \in DOMAIN wal : id \in Range(wal[f].ids)
  <2>1. CASE id < before
    <3>1. id \in wal[first].before..before - 1
      BY SMT, <1>1, <1>2, <1>3, <2>1
    <3>2. PICK g \in DOMAIN wal : id \in Durable(g)
      BY <1>0, <3>1 DEF FilesInv
    <3>3. wal[g].synced <= Len(wal[g].ids) /\ wal[g].synced \in Nat
      BY <1>0 DEF FilesInv, WalTypeOK, DiskTypeOK
    <3>4. PICK i \in 1..(IF Fsync THEN wal[g].synced ELSE Len(wal[g].ids)) : id = wal[g].ids[i]
      BY <3>2 DEF Durable
    <3>5. i \in 1..Len(wal[g].ids)
      BY SMT, <1>9, <3>3, <3>4
    <3>6. id \in Range(wal[g].ids)
      BY SMT, <1>9, <3>4, <3>5, RangeEquality
    <3> QED BY <3>6
  <2>2. CASE id >= before
    <3>1. id \in Range(wal[file_id].ids)
      BY SMT, <1>1, <1>3, <1>8, <1>11, <2>2 DEF Cur
    <3> QED BY <1>0, <3>1
  <2> QED BY SMT, <1>1, <1>3, <2>1, <2>2
<1>12. id \in Range(buffer) <=> BlkEnd <= id /\ id < BufferEnd
  BY SMT, <1>1, <1>3, <1>5
<1>13. id \in Range(Blk) <=> FileEnd <= id /\ id < BlkEnd
  BY SMT, <1>1, <1>3, <1>6
<1>14. id \in UNION {Range(wal[f].ids) : f \in DOMAIN wal} <=> id < FileEnd
  BY <1>10, <1>11
<1> QED BY SMT, <1>3, <1>4, <1>7, <1>12, <1>13, <1>14

\* Until the queue is closed or a call fails, no entry is lost or repeated between
\* the producers and the disk, in whatever order the producers hand them over.
THEOREM NoEntryIsLost == WalSpec => []NothingLostOrRepeated
<1> DEFINE Waits == io_errors = 0 /\ ~closing => WaitingOnce
<1>1. WalInit => Waits
  <2> SUFFICES ASSUME WalInit PROVE WaitingOnce
    OBVIOUS
  <2>1. PICK last \in RecoveredIds, w \in BOOLEAN :
          WalStart(IF last = None THEN 1 ELSE 2, last, w)
    BY DEF WalInit
  <2>2. /\ unsent = {} /\ write_chan = <<>> /\ req = <<>> /\ pending = {}
        /\ last_written_id = assigned /\ assigned \in Int
    BY SMT, <2>1, WalAssumption DEF WalStart, None
  <2>3. Unsent = {} /\ Sent = {} /\ InReq = {} /\ Pending = {}
    BY SMT, <2>2 DEF Unsent, Sent, InReq, Pending, BatchIds, IdsIn, Range
  <2>4. last_written_id + 1..assigned = {}
    BY SMT, <2>2
  <2> QED BY SMT, <2>2, <2>3, <2>4 DEF WaitingOnce, DistinctIds, Disjoint
<1>2. WalInv /\ Waits /\ [WalNext]_walVars => Waits'
  <2> SUFFICES ASSUME WalInv, Waits, [WalNext]_walVars, io_errors' = 0, ~closing' PROVE WaitingOnce'
    OBVIOUS
  <2>1. io_errors = 0 /\ WriterInv
    BY HealthyStep DEF WalInv
  <2>2. ~closing
    <3>1. closing \in BOOLEAN
      BY <2>1 DEF WriterInv, WalTypeOK, ProducerTypeOK
    <3>2. closing' = closing \/ closing'
      BY DEF WalNext, Producers, WriterTask, FlushTask, Assign, Send, Close, Receive, Order,
         AppendEntry, Rotate, Open, OpenFails, HandleClose, Closed, FlushTake, FlushNothing,
         WriteOk, SyncOk, WriteFails, SyncFails, FailAttempt, WriterUnchanged, producerVars, walVars
    <3> QED BY <3>1, <3>2
  <2> QED BY <2>1, <2>2, WaitingStep
<1>3. WalInv /\ Waits => NothingLostOrRepeated
  <2> SUFFICES ASSUME WalInv, WaitingOnce, io_errors = 0, NEW id \in FirstId..assigned
               PROVE  Cardinality({n \in 1..Len(Stations) : id \in Stations[n]}) = 1
    BY DEF NothingLostOrRepeated
  <2> DEFINE s1 == BatchIds(unsent)
             s2 == BatchIds(Range(write_chan))
             s3 == IdsIn(Range(req))
             s4 == IdsIn(pending)
             s5 == IdsIn(todo)
             s6 == Range(buffer)
             s7 == IF flush = "write" THEN Range(data_to_write) ELSE {}
             s8 == UNION {Range(wal[f].ids) : f \in DOMAIN wal}
  <2>1. Stations = <<s1, s2, s3, s4, s5, s6, s7, s8>>
    BY DEF Stations
  <2>2. /\ id \in Int
        /\ id \in s5 <=> BufferEnd <= id /\ id <= last_written_id
        /\ id \in s6 <=> BlkEnd <= id /\ id < BufferEnd
        /\ id \in s7 <=> FileEnd <= id /\ id < BlkEnd
        /\ id \in s8 <=> id < FileEnd
    BY LowerStations
  <2>3. /\ id \in s1 \cup s2 \cup s3 \cup s4 <=> last_written_id < id
        /\ s1 \cap s2 = {} /\ s1 \cap s3 = {} /\ s1 \cap s4 = {}
        /\ s2 \cap s3 = {} /\ s2 \cap s4 = {} /\ s3 \cap s4 = {}
    <3>1. last_written_id \in Int /\ assigned \in Int /\ id <= assigned
      BY SMT, <2>2 DEF WalInv, WriterInv, WalTypeOK, ProducerTypeOK, OrderTypeOK, None
    <3> QED BY SMTT(20), <2>2, <3>1 DEF WaitingOnce, Unsent, Sent, InReq, Pending, Disjoint
  <2>4. /\ FileEnd \in Nat /\ BlkEnd \in Nat /\ BufferEnd \in Nat /\ last_written_id \in Int
        /\ FileEnd <= BlkEnd /\ BlkEnd <= BufferEnd /\ BufferEnd <= last_written_id + 1
    <3>1. WalTypeOK /\ Pipeline /\ file_id \in DOMAIN wal
      BY DEF WalInv, WriterInv, Pipeline
    <3>2. /\ FileEnd \in Nat /\ BlkEnd \in Nat /\ BufferEnd \in Nat /\ last_written_id \in Int
          /\ Len(Blk) \in Nat /\ Len(buffer) \in Nat
      BY <3>1, PipelineTypes
    <3>3. BlkEnd = FileEnd + Len(Blk) /\ BufferEnd = BlkEnd + Len(buffer)
      BY DEF BlkEnd, BufferEnd
    <3> QED BY SMT, <3>1, <3>2, <3>3 DEF Pipeline
  <2> HIDE DEF s1, s2, s3, s4, s5, s6, s7, s8
  <2> DEFINE st == <<s1, s2, s3, s4, s5, s6, s7, s8>>
  <2>5. /\ Len(st) = 8 /\ st[1] = s1 /\ st[2] = s2 /\ st[3] = s3 /\ st[4] = s4
        /\ st[5] = s5 /\ st[6] = s6 /\ st[7] = s7 /\ st[8] = s8
    OBVIOUS
  <2> HIDE DEF st
  <2>6. 1..8 = {1, 2, 3, 4, 5, 6, 7, 8}
    BY SMT
  <2>7. \E k \in 1..8 : id \in st[k]
    <3>1. \/ id \in s1 \/ id \in s2 \/ id \in s3 \/ id \in s4
          \/ id \in s5 \/ id \in s6 \/ id \in s7 \/ id \in s8
      BY SMT, <2>2, <2>3, <2>4
    <3> QED BY <2>5, <2>6, <3>1, Zenon
  <2>8. PICK k \in 1..8 : id \in st[k]
    BY <2>7
  <2>9. ASSUME NEW n \in 1..8, id \in st[n] PROVE n = k
    <3>1. CASE id > last_written_id
      <4>1. id \notin s5 /\ id \notin s6 /\ id \notin s7 /\ id \notin s8
        BY SMT, <2>2, <2>4, <3>1
      <4>2. n \in {1, 2, 3, 4} /\ k \in {1, 2, 3, 4}
        BY <2>5, <2>6, <2>8, <2>9, <4>1, Zenon
      <4> QED BY SMT, <2>3, <2>5, <2>8, <2>9, <4>2
    <3>2. CASE id <= last_written_id
      <4>1. id \notin s1 /\ id \notin s2 /\ id \notin s3 /\ id \notin s4
        BY SMT, <2>2, <2>3, <2>4, <3>2
      <4>2. n \in {5, 6, 7, 8} /\ k \in {5, 6, 7, 8}
        BY <2>5, <2>6, <2>8, <2>9, <4>1, Zenon
      <4>3. /\ ~(id \in s5 /\ id \in s6) /\ ~(id \in s5 /\ id \in s7) /\ ~(id \in s5 /\ id \in s8)
            /\ ~(id \in s6 /\ id \in s7) /\ ~(id \in s6 /\ id \in s8) /\ ~(id \in s7 /\ id \in s8)
        BY SMT, <2>2, <2>4
      <4> QED BY SMT, <2>5, <2>8, <2>9, <4>2, <4>3
    <3> QED BY SMT, <2>2, <2>4, <3>1, <3>2
  <2>10. {n \in 1..8 : id \in st[n]} = {k}
    BY <2>8, <2>9
  <2>11. Stations = st
    BY <2>1 DEF st
  <2>12. {n \in 1..Len(Stations) : id \in Stations[n]} = {k}
    BY <2>5, <2>10, <2>11
  <2> QED BY <2>12, FS_Singleton
<1> HIDE DEF Waits
<1> QED BY <1>1, <1>2, <1>3, WalInvariant, PTL DEF WalSpec

\* A file that rotate() has reported complete is never written again, even when
\* I/O calls fail.
THEOREM CompleteFilesAreFinal == WalSpec => CompleteIsFinal
<1>1. ASSUME WalInv, [WalNext]_walVars, NEW n \in 1..Len(wal_complete), wal_complete[n] \in DOMAIN wal
      PROVE  wal'[wal_complete[n]] = wal[wal_complete[n]]
  <2> DEFINE f == wal_complete[n]
  <2>1. f < file_id /\ f \in Nat /\ file_id \in Nat
    BY SMT, <1>1 DEF WalInv, WriterInv, Handshake, WalTypeOK, FileTypeOK
  <2>2. f \in DOMAIN wal /\ f # file_id /\ f # file_id + 1
    BY SMT, <1>1, <2>1
  <2> HIDE DEF f
  <2>3. CASE wal' = wal
    BY <2>3 DEF f
  <2>4. CASE Open
    <3>1. wal' = [g \in DOMAIN wal \cup {file_id + 1} |->
                    IF g = file_id + 1 THEN NewFile(before') ELSE wal[g]]
      BY <2>1, <2>4 DEF Open, Advance, increment
    <3> QED BY <2>2, <3>1 DEF f
  <2>5. CASE WriteOk \/ SyncOk \/ WriteFails
    <3>1. \E r : wal' = [wal EXCEPT ![file_id] = r]
      BY <2>5 DEF WriteOk, SyncOk, WriteFails
    <3> QED BY <2>2, <3>1 DEF f
  <2>6. CASE Producers \/ Close
    BY <2>3, <2>6 DEF Producers, Assign, Send, Close
  <2>7. CASE Receive \/ Order \/ AppendEntry \/ Rotate \/ OpenFails \/ HandleClose \/ Closed
    BY <2>3, <2>7 DEF Receive, Order, AppendEntry, Rotate, OpenFails, HandleClose, Closed
  <2>8. CASE FlushTake \/ FlushNothing \/ SyncFails
    BY <2>3, <2>8 DEF FlushTake, FlushNothing, SyncFails
  <2>9. CASE UNCHANGED walVars
    BY <2>3, <2>9 DEF walVars
  <2> QED BY SMT, <1>1, <2>4, <2>5, <2>6, <2>7, <2>8, <2>9 DEF WalNext, WriterTask, FlushTask
<1>2. WalInv /\ [WalNext]_walVars =>
        [\A n \in 1..Len(wal_complete) :
           wal_complete[n] \in DOMAIN wal => wal'[wal_complete[n]] = wal[wal_complete[n]]]_walVars
  BY <1>1
<1> QED BY <1>2, WalInvariant, PTL DEF WalSpec, CompleteIsFinal

-----------------------------------------------------------------------------
(* Acknowledgements when I/O calls fail.  A failed attempt leaves repeated  *)
(* and torn entries in the file, so the ids are no longer adjacent          *)
(* intervals; what remains is that they keep their order on the way to the  *)
(* file, and that every id that was released is durable or still on its     *)
(* way.                                                                     *)

\* The ids flush_buffer has taken, and those that wait for it.
BlockIds  == IF flush = "idle" THEN {} ELSE Range(data_to_write)
BufferIds == Range(buffer)

\* Ids are flushed and acknowledged in their order, whatever fails.
InOrder ==
  /\ \A x \in BlockIds : \A y \in BufferIds : x < y
  /\ \A x \in BlockIds \cup BufferIds : x <= last_written_id /\ \A e \in todo : x < e.id
  /\ \A e \in todo : e.id <= last_written_id
  /\ AcksAscend
  /\ \A n \in 1..Len(written) :
       /\ written[n] <= last_written_id
       /\ \A x \in BlockIds \cup BufferIds \cup IdsIn(todo) : written[n] < x

\* What flush_buffer has done so far; a flush has no more attempts than calls
\* that failed, and one.
FlushFacts ==
  /\ DOMAIN wal # {}
  /\ \A f \in DOMAIN wal : f <= file_id /\ wal[f].synced <= Len(wal[f].ids)
  /\ flush = "sync" => Fsync /\ Range(data_to_write) \subseteq Range(wal[file_id].ids)
  /\ flush # "idle" => attempt <= io_errors + 1

\* While the failures are recoverable, an id that was released is durable or on
\* its way to the current file.
Kept ==
  /\ CleanHandshake
  /\ file_id \in DOMAIN wal /\ wal[file_id].before = before
  /\ \A id \in before..last_written_id :
       id \in Durable(file_id) \cup BlockIds \cup BufferIds \cup IdsIn(todo)
  /\ \A f \in DOMAIN wal : \A id \in wal[f].before..before - 1 :
       \E g \in DOMAIN wal \ {file_id} : id \in Durable(g)

\* What write() still holds ends with the last id that was released.
Released == \A e \in todo : e.id..last_written_id \subseteq IdsIn(todo)

AckInv ==
  /\ WriterInv /\ InOrder /\ FlushFacts /\ Released
  /\ Recoverable => Kept

-----------------------------------------------------------------------------
\* What Append adds to the elements of a sequence.
LEMMA RangeOfAppend ==
  ASSUME NEW S, NEW s \in Seq(S), NEW x \in S
  PROVE  Range(Append(s, x)) = Range(s) \cup {x}
<1>1. /\ Append(s, x) \in Seq(S) /\ Len(s) \in Nat /\ Len(Append(s, x)) = Len(s) + 1
      /\ \A i \in 1..Len(s) : Append(s, x)[i] = s[i]
      /\ Append(s, x)[Len(s) + 1] = x
  BY SMT
<1>2. /\ Range(s) = {s[i] : i \in 1..Len(s)}
      /\ Range(Append(s, x)) = {Append(s, x)[i] : i \in 1..Len(s) + 1}
  BY <1>1, RangeEquality
<1>3. \A i \in 1..Len(s) + 1 : i \in 1..Len(s) \/ i = Len(s) + 1
  BY SMT, <1>1
<1>4. 1..Len(s) \subseteq 1..Len(s) + 1 /\ Len(s) + 1 \in 1..Len(s) + 1
  BY SMT, <1>1
<1>5. Range(Append(s, x)) \subseteq Range(s) \cup {x}
  BY <1>1, <1>2, <1>3
<1>6. Range(s) \cup {x} \subseteq Range(Append(s, x))
  BY <1>1, <1>2, <1>4
<1> QED BY <1>5, <1>6

\* The types of the ids on their way to the file.
LEMMA AckTypes ==
  ASSUME WalTypeOK
  PROVE  /\ BlockIds \subseteq Nat /\ BufferIds \subseteq Nat /\ IdsIn(todo) \subseteq Nat
         /\ last_written_id \in Int /\ buffer \in Seq(Nat) /\ data_to_write \in Seq(Nat)
         /\ written \in Seq(Nat) /\ Len(written) \in Nat
         /\ \A n \in 1..Len(written) : written[n] \in Nat
         /\ todo \subseteq Entry /\ \A e \in todo : e.id \in Nat
<1>1. /\ buffer \in Seq(Nat) /\ data_to_write \in Seq(Nat) /\ written \in Seq(Nat)
      /\ todo \subseteq Entry /\ last_written_id \in Nat \cup {None}
  BY DEF WalTypeOK, FlushTypeOK, DiskTypeOK, OrderTypeOK
<1>2. Range(buffer) \subseteq Nat /\ Range(data_to_write) \subseteq Nat
  BY <1>1, RangeOfSeq
<1>3. \A e \in todo : e.id \in Nat
  BY <1>1 DEF Entry
<1>4. Len(written) \in Nat /\ \A n \in 1..Len(written) : written[n] \in Nat
  BY SMT, <1>1
<1> QED BY SMT, <1>1, <1>2, <1>3, <1>4 DEF BlockIds, BufferIds, IdsIn, None

\* An acknowledgement takes its block out of the order.
LEMMA InOrderAck ==
  ASSUME WriterInv, InOrder, flush # "idle", Acknowledge,
         UNCHANGED <<buffer, todo, last_written_id>>
  PROVE  InOrder'
<1>0. WalTypeOK /\ data_to_write # <<>>
  BY DEF WriterInv, Handshake
<1>1. /\ BlockIds \subseteq Nat /\ BufferIds \subseteq Nat /\ IdsIn(todo) \subseteq Nat
      /\ last_written_id \in Int /\ data_to_write \in Seq(Nat)
      /\ written \in Seq(Nat) /\ Len(written) \in Nat /\ todo \subseteq Entry
      /\ \A n \in 1..Len(written) : written[n] \in Nat
  BY <1>0, AckTypes
<1> DEFINE last == LastId(data_to_write)
<1>2. last \in BlockIds
  <2>1. Len(data_to_write) \in 1..Len(data_to_write)
    BY SMT, <1>0, <1>1, EmptySeq
  <2>2. Range(data_to_write) = {data_to_write[i] : i \in 1..Len(data_to_write)}
    BY <1>1, RangeEquality
  <2> QED BY <2>1, <2>2 DEF BlockIds, LastId
<1>3. /\ flush' = "idle" /\ written' = Append(written, last)
  BY DEF Acknowledge
<1> HIDE DEF last
<1>4. last \in Nat
  BY <1>1, <1>2
<1>5. BlockIds' = {} /\ BufferIds' = BufferIds /\ IdsIn(todo') = IdsIn(todo)
  BY <1>3 DEF BlockIds, BufferIds
<1>6. /\ Len(written') = Len(written) + 1 /\ written'[Len(written) + 1] = last
      /\ \A n \in 1..Len(written) : written'[n] = written[n]
  BY SMT, <1>1, <1>3, <1>4
<1>7. \A n \in 1..Len(written') : n \in 1..Len(written) \/ n = Len(written) + 1
  BY SMT, <1>1, <1>6
<1>8. /\ last <= last_written_id
      /\ \A x \in BufferIds \cup IdsIn(todo) : last < x
      /\ \A n \in 1..Len(written) : written[n] < last
  BY <1>2 DEF InOrder, IdsIn
<1>9. AcksAscend'
  <2>1. ASSUME NEW m \in 1..Len(written'), NEW n \in 1..Len(written'), m < n
        PROVE  written'[m] < written'[n]
    <3>1. m \in 1..Len(written)
      BY SMT, <1>1, <1>6, <2>1
    <3>2. CASE n \in 1..Len(written)
      BY <1>6, <2>1, <3>1, <3>2 DEF InOrder, AcksAscend
    <3>3. CASE n = Len(written) + 1
      BY <1>6, <1>8, <3>1, <3>3
    <3> QED BY <1>7, <3>2, <3>3
  <2> QED BY <2>1 DEF AcksAscend
<1>10. \A n \in 1..Len(written') :
         /\ written'[n] <= last_written_id'
         /\ \A x \in BlockIds' \cup BufferIds' \cup IdsIn(todo') : written'[n] < x
  <2>1. ASSUME NEW n \in 1..Len(written') 
        PROVE  /\ written'[n] <= last_written_id
               /\ \A x \in BufferIds \cup IdsIn(todo) : written'[n] < x
    <3>1. CASE n \in 1..Len(written)
      BY <1>6, <3>1 DEF InOrder
    <3>2. CASE n = Len(written) + 1
      BY <1>6, <1>8, <3>2
    <3> QED BY <1>7, <3>1, <3>2
  <2> QED BY <1>5, <2>1
<1> QED BY <1>5, <1>9, <1>10 DEF InOrder

\* Every step keeps the order of the ids.
LEMMA InOrderStep ==
  ASSUME WriterInv, InOrder, [WalNext]_walVars
  PROVE  InOrder'
<1>0. WalTypeOK
  BY DEF WriterInv
<1>1. /\ BlockIds \subseteq Nat /\ BufferIds \subseteq Nat /\ IdsIn(todo) \subseteq Nat
      /\ last_written_id \in Int /\ buffer \in Seq(Nat) /\ data_to_write \in Seq(Nat)
      /\ written \in Seq(Nat) /\ todo \subseteq Entry /\ \A e \in todo : e.id \in Nat
      /\ \A n \in 1..Len(written) : written[n] \in Nat
  BY <1>0, AckTypes
<1>2. ASSUME BlockIds' \cup BufferIds' \subseteq BlockIds \cup BufferIds,
             \A x \in BlockIds' : \A y \in BufferIds' : x < y,
             todo' \subseteq todo, UNCHANGED <<last_written_id, written>>
      PROVE  InOrder'
  <2>1. IdsIn(todo') \subseteq IdsIn(todo)
    BY <1>2 DEF IdsIn
  <2> QED BY <1>2, <2>1 DEF InOrder, AcksAscend
<1>3. ASSUME UNCHANGED <<flush, data_to_write, buffer, last_written_id, written>>, todo' \subseteq todo
      PROVE  InOrder'
  <2>1. BlockIds' = BlockIds /\ BufferIds' = BufferIds
    BY <1>3 DEF BlockIds, BufferIds
  <2> QED BY <1>2, <1>3, <2>1 DEF InOrder
<1>4. CASE Producers \/ Close \/ Receive \/ Rotate \/ OpenFails \/ HandleClose \/ Closed
  BY <1>3, <1>4 DEF Producers, Assign, Send, Close, Receive, Rotate, OpenFails, HandleClose,
     Closed, orderVars, bufferVars, flushVars
<1>5. CASE FlushNothing \/ UNCHANGED walVars
  BY <1>3, <1>5 DEF FlushNothing, WriterUnchanged, walVars, orderVars, bufferVars, flushVars
<1>6. CASE Order
  <2>1. /\ todo = {} /\ UNCHANGED <<flush, data_to_write, buffer, written>>
    BY <1>6 DEF Order, bufferVars, flushVars
  <2>2. BlockIds' = BlockIds /\ BufferIds' = BufferIds
    BY <2>1 DEF BlockIds, BufferIds
  <2>3. /\ IdsIn(todo') = last_written_id + 1..last_written_id'
        /\ last_written_id <= last_written_id' /\ last_written_id' \in Int
    BY SMT, <1>6, OrderFacts DEF None
  <2>4. \A e \in todo' : e.id \in last_written_id + 1..last_written_id'
    BY <2>3 DEF IdsIn
  <2>5. \A x \in BlockIds' \cup BufferIds' : x <= last_written_id' /\ \A e \in todo' : x < e.id
    <3>1. \A x \in BlockIds \cup BufferIds : x <= last_written_id /\ x \in Nat
      BY <1>1 DEF InOrder
    <3> QED BY SMT, <1>1, <2>2, <2>3, <2>4, <3>1
  <2>6. \A n \in 1..Len(written) :
          /\ written[n] <= last_written_id'
          /\ \A x \in BlockIds' \cup BufferIds' \cup IdsIn(todo') : written[n] < x
    <3>1. ASSUME NEW n \in 1..Len(written)
          PROVE  /\ written[n] <= last_written_id /\ written[n] \in Nat
                 /\ \A x \in BlockIds \cup BufferIds : written[n] < x
      BY <1>1 DEF InOrder
    <3>2. ASSUME NEW n \in 1..Len(written), NEW x \in IdsIn(todo') PROVE written[n] < x
      BY SMT, <1>1, <2>3, <3>1
    <3> QED BY SMT, <1>1, <2>2, <2>3, <3>1, <3>2
  <2>7. \A e \in todo' : e.id <= last_written_id'
    BY SMT, <1>1, <2>3, <2>4
  <2> QED BY SMT, <2>1, <2>2, <2>5, <2>6, <2>7 DEF InOrder, AcksAscend
<1>7. CASE AppendEntry
  <2>1. /\ todo # {} /\ buffer' = Append(buffer, Next1.id) /\ todo' = todo \ {Next1}
        /\ UNCHANGED <<flush, data_to_write, written, last_written_id>>
    BY <1>7 DEF AppendEntry, flushVars, orderVars
  <2>2. Next1 \in todo /\ \A d \in todo : Next1.id <= d.id
    BY <1>1, <2>1, Next1Facts
  <2>3. BlockIds' = BlockIds /\ BufferIds' = BufferIds \cup {Next1.id}
    <3>1. Next1.id \in Nat
      BY <1>1, <2>2
    <3>2. Range(Append(buffer, Next1.id)) = Range(buffer) \cup {Next1.id}
      BY SMTT(20), <1>1, <3>1, RangeOfAppend
    <3> QED BY <2>1, <3>2 DEF BlockIds, BufferIds
  <2>4. \A e \in todo' : e \in todo /\ Next1.id < e.id
    <3>1. todo \subseteq Upstream
      BY <1>1 DEF Upstream
    <3>2. \A d \in todo : d.id = Next1.id => d = Next1
      BY <2>2, <3>1 DEF WriterInv, IdsName
    <3> QED BY SMT, <1>1, <2>1, <2>2, <3>2
  <2>5. IdsIn(todo') \subseteq IdsIn(todo) /\ Next1.id \in IdsIn(todo)
    BY <2>1, <2>2 DEF IdsIn
  <2>6. \A x \in BlockIds' : \A y \in BufferIds' : x < y
    BY <2>2, <2>3 DEF InOrder
  <2>7. \A x \in BlockIds' \cup BufferIds' : x <= last_written_id' /\ \A e \in todo' : x < e.id
    BY SMT, <2>1, <2>2, <2>3, <2>4 DEF InOrder
  <2>8. \A n \in 1..Len(written) : \A x \in BlockIds' \cup BufferIds' \cup IdsIn(todo') : written[n] < x
    BY <2>3, <2>5 DEF InOrder
  <2> QED BY <2>1, <2>4, <2>6, <2>7, <2>8 DEF InOrder, AcksAscend
<1>8. CASE Open
  <2>1. buffer' = <<>> /\ UNCHANGED <<flush, data_to_write, todo, last_written_id, written>>
    BY <1>8 DEF Open, flushVars, orderVars
  <2>2. BlockIds' = BlockIds /\ BufferIds' = {}
    BY SMT, <2>1 DEF BlockIds, BufferIds, Range
  <2> QED BY <1>2, <2>1, <2>2
<1>9. CASE FlushTake
  <2>1. /\ buffer' = <<>> /\ data_to_write' = buffer /\ flush' = "write"
        /\ UNCHANGED <<todo, last_written_id, written>>
    BY <1>9 DEF FlushTake, WriterUnchanged, orderVars
  <2>2. BlockIds' = BufferIds /\ BufferIds' = {}
    BY SMT, <2>1 DEF BlockIds, BufferIds, Range
  <2> QED BY <1>2, <2>1, <2>2
<1>10. CASE WriteOk \/ SyncOk
  <2>1. flush # "idle" /\ UNCHANGED <<buffer, data_to_write, todo, last_written_id>>
    BY <1>10 DEF WriteOk, SyncOk, WriterUnchanged, orderVars
  <2>2. CASE Acknowledge
    BY <2>1, <2>2, InOrderAck
  <2>3. CASE flush' = "sync" /\ written' = written
    <3>1. BlockIds' = BlockIds /\ BufferIds' = BufferIds
      BY <2>1, <2>3 DEF BlockIds, BufferIds
    <3> QED BY SMT, <1>2, <2>1, <2>3, <3>1 DEF InOrder
  <2> QED BY <1>10, <2>2, <2>3 DEF WriteOk, SyncOk
<1>11. CASE WriteFails \/ SyncFails
  <2>1. flush # "idle" /\ UNCHANGED <<data_to_write, todo, last_written_id, written>> /\ FailAttempt
    BY <1>11 DEF WriteFails, SyncFails, FailAttempt, WriterUnchanged, orderVars
  <2>2. CASE attempt < MAX_RETRIES
    <3>1. BlockIds' = BlockIds /\ BufferIds' = BufferIds
      BY <2>1, <2>2 DEF FailAttempt, BlockIds, BufferIds
    <3> QED BY <1>2, <2>1, <3>1 DEF InOrder
  <2>3. CASE ~(attempt < MAX_RETRIES)
    <3>1. buffer' = data_to_write \o buffer /\ flush' = "idle"
      BY <2>1, <2>3 DEF FailAttempt
    <3>2. BlockIds' = {} /\ BufferIds' = BlockIds \cup BufferIds
      BY SMT, <1>1, <2>1, <3>1, RangeConcatenation DEF BlockIds, BufferIds
    <3> QED BY <1>2, <2>1, <3>2
  <2> QED BY <2>2, <2>3
<1> QED BY SMT, <1>4, <1>5, <1>6, <1>7, <1>8, <1>9, <1>10, <1>11 DEF WalNext, WriterTask, FlushTask

\* A file that grows by two parts.
LEMMA ConcatThree ==
  \A s, t, u \in Seq(Nat \cup {Torn}) : (s \o t) \o u = s \o (t \o u)
BY SMTT(20), ConcatAssociative

\* How a step of the flush task changes the current file: it adds ids, or syncs
\* those that are there.
LEMMA FlushedFile ==
  ASSUME WalTypeOK, Handshake, FlushFacts, WriteOk \/ SyncOk \/ WriteFails \/ SyncFails
  PROVE  /\ file_id \in DOMAIN wal /\ DOMAIN wal' = DOMAIN wal /\ file_id' = file_id
         /\ \A f \in DOMAIN wal \ {file_id} : wal'[f] = wal[f]
         /\ wal'[file_id].before = wal[file_id].before
         /\ wal[file_id].ids \in Seq(Nat \cup {Torn})
         /\ Range(wal[file_id].ids) \subseteq Range(wal'[file_id].ids)
         /\ wal'[file_id].synced <= Len(wal'[file_id].ids)
         /\ Durable(file_id) \subseteq Durable(file_id)'
         /\ WriteOk => Range(data_to_write) \subseteq Range(wal'[file_id].ids)
         /\ SyncOk \/ (~Fsync /\ WriteOk) => Durable(file_id)' = Range(wal'[file_id].ids)
<1> DEFINE ids == wal[file_id].ids
           new == wal'[file_id].ids
<1>1. /\ file_id \in DOMAIN wal /\ file_id' = file_id
      /\ wal[file_id] \in [before : Nat, ids : Seq(Nat \cup {Torn}), synced : Nat]
      /\ wal[file_id].synced <= Len(ids) /\ data_to_write \in Seq(Nat)
  <2>1. flush # "idle" /\ file_id' = file_id
    BY DEF WriteOk, SyncOk, WriteFails, SyncFails, FailAttempt, WriterUnchanged, fileVars
  <2>2. file_id \in DOMAIN wal
    BY <2>1 DEF Handshake
  <2> QED BY <2>1, <2>2 DEF WalTypeOK, DiskTypeOK, FlushTypeOK, FlushFacts
<1>2. ids \in Seq(Nat \cup {Torn}) /\ Len(ids) \in Nat /\ wal[file_id].synced \in Nat
  <2>1. ids \in Seq(Nat \cup {Torn}) /\ wal[file_id].synced \in Nat
    BY <1>1
  <2> QED BY <2>1, LenProperties
<1>3. ASSUME NEW add \in Seq(Nat \cup {Torn}), wal' = [wal EXCEPT ![file_id].ids = @ \o add]
      PROVE  /\ DOMAIN wal' = DOMAIN wal /\ \A f \in DOMAIN wal \ {file_id} : wal'[f] = wal[f]
             /\ wal'[file_id].before = wal[file_id].before
             /\ wal'[file_id].synced = wal[file_id].synced /\ new = ids \o add
             /\ Len(new) \in Nat /\ Len(ids) <= Len(new) /\ new \in Seq(Nat \cup {Torn})
             /\ \A i \in 1..Len(ids) : new[i] = ids[i]
             /\ Range(new) = Range(ids) \cup Range(add)
             /\ Durable(file_id) \subseteq Durable(file_id)'
  <2>1. /\ DOMAIN wal' = DOMAIN wal /\ \A f \in DOMAIN wal \ {file_id} : wal'[f] = wal[f]
        /\ wal'[file_id] = [wal[file_id] EXCEPT !.ids = ids \o add]
    BY <1>1, <1>3 DEF WalTypeOK, DiskTypeOK
  <2>2. /\ wal'[file_id].before = wal[file_id].before
        /\ wal'[file_id].synced = wal[file_id].synced /\ new = ids \o add
    BY <1>1, <2>1
  <2> HIDE DEF ids, new
  <2>3. /\ Len(add) \in Nat /\ new \in Seq(Nat \cup {Torn}) /\ Len(new) = Len(ids) + Len(add)
        /\ \A i \in 1..Len(ids) + Len(add) :
             new[i] = IF i <= Len(ids) THEN ids[i] ELSE add[i - Len(ids)]
    BY SMT, <1>2, <1>3, <2>2, ConcatProperties, LenProperties
  <2>4. Len(new) \in Nat /\ Len(ids) <= Len(new) /\ \A i \in 1..Len(ids) : new[i] = ids[i]
    BY SMTT(20), <1>2, <2>3
  <2>5. Range(new) = Range(ids) \cup Range(add)
    BY SMT, <1>2, <1>3, <2>2, RangeConcatenation
  <2>6. Durable(file_id) \subseteq Durable(file_id)'
    <3>1. /\ Durable(file_id) = {ids[i] : i \in 1..(IF Fsync THEN wal[file_id].synced ELSE Len(ids))}
          /\ Durable(file_id)' = {new[i] : i \in 1..(IF Fsync THEN wal'[file_id].synced ELSE Len(new))}
      BY <1>1 DEF Durable, ids, new
    <3>2. wal[file_id].synced <= Len(ids)
      BY <1>1 DEF ids
    <3>3. \A i \in 1..(IF Fsync THEN wal[file_id].synced ELSE Len(ids)) :
            /\ i \in 1..(IF Fsync THEN wal'[file_id].synced ELSE Len(new)) /\ new[i] = ids[i]
      BY SMTT(20), <1>2, <2>2, <2>4, <3>2
    <3> QED BY <3>1, <3>3
  <2> QED BY SMT, <2>1, <2>2, <2>3, <2>4, <2>5, <2>6
<1>4. \A add \in Seq(Nat) : add \in Seq(Nat \cup {Torn})
  BY SeqMonotonic
<1>5. CASE WriteOk
  <2>1. wal' = [wal EXCEPT ![file_id].ids = @ \o data_to_write] /\ data_to_write \in Seq(Nat \cup {Torn})
    BY <1>1, <1>4, <1>5 DEF WriteOk
  <2>2. ~SyncOk
    BY <1>5 DEF WriteOk, SyncOk
  <2>3. ~Fsync => Durable(file_id)' = Range(wal'[file_id].ids)
    <3>1. ~Fsync => Durable(file_id)' = {new[i] : i \in 1..Len(new)}
      BY <1>1 DEF Durable
    <3>2. new \in Seq(Nat \cup {Torn})
      BY <1>3, <2>1
    <3>3. Range(new) = {new[i] : i \in 1..Len(new)}
      BY <3>2, RangeEquality
    <3> QED BY <3>1, <3>3
  <2>4. wal'[file_id].synced <= Len(wal'[file_id].ids)
    <3>1. wal[file_id].synced <= Len(ids) /\ wal'[file_id].synced = wal[file_id].synced /\ Len(ids) <= Len(new)
          /\ Len(new) \in Nat
      BY <1>1, <1>3, <2>1
    <3> HIDE DEF ids, new
    <3>2. wal[file_id].synced <= Len(new)
      BY SMT, <1>2, <3>1
    <3> QED BY <3>1, <3>2 DEF new
  <2> QED BY <1>1, <1>3, <2>1, <2>2, <2>3, <2>4
<1>6. CASE WriteFails
  <2>1. PICK n \in 0..Len(data_to_write) - 1, torn \in {<<>>, <<Torn>>} :
          wal' = [wal EXCEPT ![file_id].ids = @ \o SubSeq(data_to_write, 1, n) \o torn]
    BY <1>6 DEF WriteFails
  <2> DEFINE add == SubSeq(data_to_write, 1, n) \o torn
  <2>2. SubSeq(data_to_write, 1, n) \in Seq(Nat \cup {Torn}) /\ torn \in Seq(Nat \cup {Torn})
    <3>1. SubSeq(data_to_write, 1, n) \in Seq(Nat)
      BY SMT, <1>1, SubSeqProperties
    <3>2. <<>> \in Seq(Nat \cup {Torn}) /\ <<Torn>> \in Seq(Nat \cup {Torn})
      BY SMT
    <3> QED BY <1>4, <3>1, <3>2
  <2>3. add \in Seq(Nat \cup {Torn})
    BY <2>2, ConcatProperties
  <2>4. (ids \o SubSeq(data_to_write, 1, n)) \o torn = ids \o add
    <3> DEFINE pre == SubSeq(data_to_write, 1, n)
    <3>1. /\ ids \in Seq(Nat \cup {Torn}) /\ pre \in Seq(Nat \cup {Torn})
          /\ torn \in Seq(Nat \cup {Torn}) /\ add = pre \o torn
      BY <1>2, <2>2
    <3> HIDE DEF ids, pre, add
    <3>2. (ids \o pre) \o torn = ids \o (pre \o torn)
      BY <3>1, ConcatThree
    <3>3. (ids \o pre) \o torn = ids \o add
      BY <3>1, <3>2
    <3> QED BY <3>3 DEF pre
  <2>5. wal' = [wal EXCEPT ![file_id].ids = @ \o add]
    BY <1>1, <2>1, <2>4
  <2> HIDE DEF add
  <2>6. ~SyncOk /\ ~WriteOk
    BY SMTT(20), <1>1, <1>6 DEF WalTypeOK, DiskTypeOK, WriteFails, FailAttempt, SyncOk, WriteOk
  <2>7. wal'[file_id].synced <= Len(wal'[file_id].ids)
    <3>1. wal[file_id].synced <= Len(ids) /\ wal'[file_id].synced = wal[file_id].synced /\ Len(ids) <= Len(new)
          /\ Len(new) \in Nat
      BY <1>1, <1>3, <2>3, <2>5
    <3> HIDE DEF ids, new
    <3>2. wal[file_id].synced <= Len(new)
      BY SMT, <1>2, <3>1
    <3> QED BY <3>1, <3>2 DEF new
  <2> QED BY <1>1, <1>3, <2>3, <2>5, <2>6, <2>7
<1>7. CASE SyncOk
  <2>1. wal' = [wal EXCEPT ![file_id].synced = Len(wal[file_id].ids)] /\ Fsync /\ ~WriteOk
    BY <1>7 DEF SyncOk, WriteOk, FlushFacts
  <2>2. /\ DOMAIN wal' = DOMAIN wal /\ \A f \in DOMAIN wal \ {file_id} : wal'[f] = wal[f]
        /\ wal'[file_id] = [wal[file_id] EXCEPT !.synced = Len(ids)]
    BY <1>1, <2>1 DEF WalTypeOK, DiskTypeOK
  <2>3. wal'[file_id].before = wal[file_id].before /\ new = ids /\ wal'[file_id].synced = Len(ids)
    BY <1>1, <2>2
  <2>4. /\ Durable(file_id) = {ids[i] : i \in 1..wal[file_id].synced}
        /\ Durable(file_id)' = {ids[i] : i \in 1..Len(ids)}
    BY <1>1, <2>1, <2>3 DEF Durable
  <2>5. 1..wal[file_id].synced \subseteq 1..Len(ids)
    BY SMT, <1>1, <1>2
  <2>6. Range(ids) = {ids[i] : i \in 1..Len(ids)}
    BY <1>2, RangeEquality
  <2>7. wal'[file_id].synced <= Len(new)
    BY SMT, <1>2, <2>3
  <2> HIDE DEF ids
  <2> QED BY SMTT(20), <1>1, <1>2, <2>1, <2>2, <2>3, <2>4, <2>5, <2>6, <2>7
<1>8. CASE SyncFails
  <2>1. wal' = wal /\ ~SyncOk /\ ~WriteOk
    BY SMT, <1>1, <1>8 DEF WalTypeOK, DiskTypeOK, SyncFails, FailAttempt, SyncOk, WriteOk
  <2>2. Durable(file_id)' = Durable(file_id)
    BY <1>1, <2>1 DEF Durable
  <2> QED BY <1>1, <1>2, <2>1, <2>2
<1> QED BY <1>5, <1>6, <1>7, <1>8

\* Every step keeps what the flush task relies on.
LEMMA FlushFactsStep ==
  ASSUME WriterInv, FlushFacts, [WalNext]_walVars
  PROVE  FlushFacts'
<1>0. WalTypeOK /\ Handshake /\ file_id \in Nat /\ io_errors \in Nat /\ attempt \in Nat
  BY DEF WriterInv, WalTypeOK, FileTypeOK, FlushTypeOK, DiskTypeOK
<1>1. ASSUME UNCHANGED <<wal, file_id, flush, data_to_write, attempt, io_errors>>
      PROVE  FlushFacts'
  BY <1>1 DEF FlushFacts
<1>2. CASE Producers \/ Close \/ Receive \/ Order \/ AppendEntry \/ Rotate \/ HandleClose \/ Closed
  BY <1>1, <1>2 DEF Producers, Assign, Send, Close, Receive, Order, AppendEntry, Rotate,
     HandleClose, Closed, fileVars, flushVars
<1>3. CASE FlushNothing \/ UNCHANGED walVars
  BY <1>1, <1>3 DEF FlushNothing, WriterUnchanged, walVars, fileVars, flushVars
<1>4. ASSUME Advance PROVE file_id' = file_id + 1 /\ flush = "idle"
  BY <1>0, <1>4 DEF Advance, increment, Handshake
<1>5. CASE Open
  <2>1. /\ file_id' = file_id + 1 /\ flush = "idle" /\ flush' = flush
        /\ wal' = [f \in DOMAIN wal \cup {file_id'} |->
                     IF f = file_id' THEN NewFile(before') ELSE wal[f]]
    BY <1>4, <1>5 DEF Open, flushVars
  <2>2. ASSUME NEW f \in DOMAIN wal' PROVE f <= file_id' /\ wal'[f].synced <= Len(wal'[f].ids)
    <3>1. CASE f = file_id'
      <4>1. wal'[f].synced = 0 /\ Len(wal'[f].ids) = 0
        BY <2>1, <3>1 DEF NewFile
      <4> QED BY SMT, <1>0, <2>1, <3>1, <4>1
    <3>2. CASE f # file_id'
      <4>1. f \in DOMAIN wal /\ wal'[f] = wal[f] /\ f \in Nat
        BY <1>0, <2>1, <3>2 DEF WalTypeOK, DiskTypeOK
      <4> QED BY SMT, <1>0, <2>1, <4>1 DEF FlushFacts
    <3> QED BY <3>1, <3>2
  <2> QED BY <2>1, <2>2 DEF FlushFacts
<1>6. CASE OpenFails
  <2>1. file_id' = file_id + 1 /\ flush = "idle" /\ flush' = flush /\ wal' = wal
    BY <1>4, <1>6 DEF OpenFails, flushVars
  <2>2. \A f \in DOMAIN wal : f \in Nat
    BY <1>0 DEF WalTypeOK, DiskTypeOK
  <2> QED BY SMT, <1>0, <2>1, <2>2 DEF FlushFacts
<1>7. CASE FlushTake
  <2>1. flush' = "write" /\ attempt' = 1 /\ UNCHANGED <<wal, file_id, io_errors>>
    BY <1>7 DEF FlushTake, WriterUnchanged, fileVars
  <2>2. attempt' <= io_errors' + 1
    BY SMT, <1>0, <2>1
  <2> QED BY <2>1, <2>2 DEF FlushFacts
<1>8. CASE WriteOk \/ SyncOk \/ WriteFails \/ SyncFails
  <2>1. /\ file_id \in DOMAIN wal /\ DOMAIN wal' = DOMAIN wal /\ file_id' = file_id
        /\ \A f \in DOMAIN wal \ {file_id} : wal'[f] = wal[f]
        /\ wal'[file_id].synced <= Len(wal'[file_id].ids)
        /\ WriteOk => Range(data_to_write) \subseteq Range(wal'[file_id].ids)
    BY <1>0, <1>8, FlushedFile
  <2>2. \A f \in DOMAIN wal' : f <= file_id' /\ wal'[f].synced <= Len(wal'[f].ids)
    BY <2>1 DEF FlushFacts
  <2>3. data_to_write' = data_to_write /\ (flush' = "sync" => WriteOk /\ Fsync)
    BY <1>8 DEF WriteOk, SyncOk, WriteFails, SyncFails, FailAttempt, Acknowledge
  <2>4. flush' # "idle" => attempt' <= io_errors' + 1
    <3>1. CASE WriteOk \/ SyncOk
      BY <3>1 DEF WriteOk, SyncOk, FlushFacts
    <3>2. CASE WriteFails \/ SyncFails
      <4>1. /\ io_errors' = io_errors + 1 /\ flush # "idle"
            /\ attempt' = attempt + 1 \/ attempt' = attempt
        BY <3>2 DEF WriteFails, SyncFails, FailAttempt
      <4> QED BY SMT, <1>0, <4>1 DEF FlushFacts
    <3> QED BY <1>8, <3>1, <3>2
  <2> QED BY <2>1, <2>2, <2>3, <2>4 DEF FlushFacts
<1> QED BY <1>2, <1>3, <1>5, <1>6, <1>7, <1>8 DEF WalNext, WriterTask, FlushTask

\* The least file of a non-empty set.
LEMMA LeastFile ==
  ASSUME NEW D \in SUBSET Nat, D # {}
  PROVE  Min(D) \in D /\ \A f \in D : Min(D) <= f
<1>1. \E m \in D : \A k \in D : m <= k
  BY LeastNat
<1> QED BY <1>1 DEF Min

\* What is recoverable after a step was so before it, and the step was neither a
\* failed open nor the last attempt of a flush.
LEMMA RecoverableStep ==
  ASSUME WriterInv, FlushFacts, [WalNext]_walVars, Recoverable'
  PROVE  /\ Recoverable /\ ~OpenFails
         /\ WriteFails \/ SyncFails => attempt < MAX_RETRIES
<1>0. /\ WalTypeOK /\ Handshake /\ file_id \in Nat /\ io_errors \in Nat /\ attempt \in Nat
      /\ MAX_RETRIES \in Nat /\ DOMAIN wal \subseteq Nat
  BY WalAssumption DEF WriterInv, WalTypeOK, FileTypeOK, FlushTypeOK, DiskTypeOK
<1>1. Min(DOMAIN wal) \in DOMAIN wal /\ \A f \in DOMAIN wal : Min(DOMAIN wal) <= f /\ f <= file_id
  BY <1>0, LeastFile DEF FlushFacts
<1>2. io_errors' < MAX_RETRIES /\ Min(DOMAIN wal')..file_id' \subseteq DOMAIN wal'
  BY DEF Recoverable
<1>3. ASSUME OpenFails PROVE FALSE
  <2>1. file_id' = file_id + 1 /\ wal' = wal
    BY <1>0, <1>3 DEF OpenFails, Advance, increment
  <2>2. file_id + 1 \in Min(DOMAIN wal)..file_id + 1
    BY SMT, <1>0, <1>1
  <2>3. file_id + 1 \in DOMAIN wal
    BY <1>2, <2>1, <2>2
  <2> QED BY SMT, <1>0, <1>1, <2>3
<1>4. ASSUME WriteFails \/ SyncFails PROVE attempt < MAX_RETRIES /\ Recoverable
  <2>1. io_errors' = io_errors + 1 /\ flush # "idle" /\ file_id' = file_id
    BY <1>4 DEF WriteFails, SyncFails, FailAttempt, WriterUnchanged, fileVars
  <2>2. DOMAIN wal' = DOMAIN wal
    BY <1>4 DEF WriteFails, SyncFails
  <2>3. attempt <= io_errors + 1
    BY <2>1 DEF FlushFacts
  <2> QED BY SMT, <1>0, <1>2, <2>1, <2>2, <2>3 DEF Recoverable
<1>5. CASE Open
  <2>1. /\ file_id' = file_id + 1 /\ io_errors' = io_errors
        /\ DOMAIN wal' = DOMAIN wal \cup {file_id + 1}
    BY <1>0, <1>5 DEF Open, Advance, increment
  <2> DEFINE m == Min(DOMAIN wal)
             k == Min(DOMAIN wal')
  <2>2. m \in DOMAIN wal /\ m \in Nat /\ m <= file_id
    BY <1>0, <1>1
  <2>3. k \in DOMAIN wal' /\ \A f \in DOMAIN wal' : k <= f
    <3>1. DOMAIN wal' \in SUBSET Nat /\ DOMAIN wal' # {}
      BY SMT, <1>0, <2>1
    <3> QED BY <3>1, LeastFile
  <2>4. k \in Nat /\ k <= m
    BY SMT, <1>0, <2>1, <2>2, <2>3
  <2> HIDE DEF m, k
  <2>5. ASSUME NEW f \in m..file_id PROVE f \in DOMAIN wal
    <3>1. f \in k..file_id + 1 /\ f # file_id + 1
      BY SMT, <1>0, <2>2, <2>4
    <3>2. f \in DOMAIN wal'
      BY <1>2, <2>1, <3>1 DEF k
    <3> QED BY <2>1, <3>1, <3>2
  <2>6. Min(DOMAIN wal)..file_id \subseteq DOMAIN wal
    BY <2>5 DEF m
  <2> QED BY SMT, <1>2, <2>1, <2>6, <1>3, <1>4 DEF Recoverable
<1>6. ASSUME UNCHANGED <<file_id, io_errors>>, DOMAIN wal' = DOMAIN wal PROVE Recoverable
  BY <1>2, <1>6 DEF Recoverable
<1>7. CASE Producers \/ Close \/ Receive \/ Order \/ AppendEntry \/ Rotate \/ HandleClose \/ Closed
  <2>1. UNCHANGED <<file_id, io_errors, wal>>
    BY <1>7 DEF Producers, Assign, Send, Close, Receive, Order, AppendEntry, Rotate, HandleClose,
       Closed, fileVars
  <2> QED BY <1>3, <1>4, <1>6, <2>1
<1>8. CASE FlushTake \/ FlushNothing \/ WriteOk \/ SyncOk \/ UNCHANGED walVars
  BY SMT, <1>3, <1>4, <1>6, <1>8 DEF FlushTake, FlushNothing, WriteOk, SyncOk, WriterUnchanged,
     walVars, fileVars
<1> QED BY SMT, <1>3, <1>4, <1>5, <1>7, <1>8 DEF WalNext, WriterTask, FlushTask

\* write() takes the entries it has released from the front.
LEMMA ReleasedStep ==
  ASSUME WriterInv, Released, [WalNext]_walVars
  PROVE  Released'
<1>0. WalTypeOK /\ IdsName
  BY DEF WriterInv
<1>1. todo \subseteq Entry /\ last_written_id \in Int /\ \A e \in todo : e.id \in Nat
  BY <1>0, AckTypes
<1>2. ASSUME UNCHANGED <<todo, last_written_id>> PROVE Released'
  BY <1>2 DEF Released
<1>3. CASE Producers \/ Close \/ Receive \/ Rotate \/ Open \/ HandleClose \/ Closed
  BY <1>2, <1>3 DEF Producers, Assign, Send, Close, Receive, Rotate, Open, HandleClose, Closed, orderVars
<1>4. CASE FlushTask \/ UNCHANGED walVars
  BY <1>2, <1>4 DEF FlushTask, FlushTake, FlushNothing, WriteOk, SyncOk, WriteFails, SyncFails,
     FailAttempt, WriterUnchanged, walVars, orderVars
<1>5. CASE OpenFails
  BY <1>5 DEF OpenFails, Released
<1>6. CASE Order
  <2>1. /\ IdsIn(todo') = last_written_id + 1..last_written_id'
        /\ last_written_id <= last_written_id' /\ last_written_id' \in Int
    BY SMT, <1>6, OrderFacts DEF None
  <2>2. ASSUME NEW e \in todo', NEW id \in e.id..last_written_id' PROVE id \in IdsIn(todo')
    <3>1. e.id \in last_written_id + 1..last_written_id'
      BY <2>1 DEF IdsIn
    <3> QED BY SMT, <1>1, <2>1, <3>1
  <2> QED BY SMT, <2>2 DEF Released
<1>7. CASE AppendEntry
  <2>1. todo # {} /\ todo' = todo \ {Next1} /\ last_written_id' = last_written_id
    BY <1>7 DEF AppendEntry, orderVars
  <2>2. Next1 \in todo /\ \A d \in todo : Next1.id <= d.id
    BY <1>1, <2>1, Next1Facts
  <2>3. ASSUME NEW e \in todo', NEW id \in e.id..last_written_id PROVE id \in IdsIn(todo')
    <3>1. e \in todo /\ e.id # Next1.id
      <4>1. e \in todo /\ e # Next1 /\ todo \subseteq Upstream
        BY <1>1, <2>1 DEF Upstream
      <4> QED BY <1>0, <2>2, <4>1 DEF IdsName
    <3>2. PICK d \in todo : d.id = id
      BY <3>1 DEF Released, IdsIn
    <3>3. d.id # Next1.id
      BY SMT, <1>1, <2>2, <3>1, <3>2
    <3> QED BY <2>1, <3>2, <3>3 DEF IdsIn
  <2> QED BY <2>1, <2>3 DEF Released
<1> QED BY SMT, <1>3, <1>4, <1>5, <1>6, <1>7 DEF WalNext, WriterTask

\* While the failures are recoverable, no id that was released gets lost.
LEMMA KeptStep ==
  ASSUME AckInv, [WalNext]_walVars, Recoverable'
  PROVE  Kept'
<1>0. /\ WriterInv /\ InOrder /\ FlushFacts /\ WalTypeOK /\ Handshake /\ Kept /\ ~OpenFails
      /\ WriteFails \/ SyncFails => attempt < MAX_RETRIES
  BY RecoverableStep DEF AckInv, WriterInv
<1>1. CleanHandshake'
  BY <1>0, CleanHandshakeStep DEF Kept
<1>2. /\ BlockIds \subseteq Nat /\ BufferIds \subseteq Nat /\ todo \subseteq Entry
      /\ last_written_id \in Int /\ buffer \in Seq(Nat) /\ data_to_write \in Seq(Nat)
      /\ \A e \in todo : e.id \in Nat
  BY <1>0, AckTypes
<1>3. before \in Nat /\ file_id \in Nat /\ DOMAIN wal \subseteq Nat
  BY <1>0 DEF WalTypeOK, FileTypeOK, DiskTypeOK
<1>4. ASSUME UNCHANGED <<file_id, before, last_written_id>>, DOMAIN wal' = DOMAIN wal,
             \A f \in DOMAIN wal \ {file_id} : wal'[f] = wal[f],
             wal'[file_id].before = wal[file_id].before,
             Durable(file_id) \cup BlockIds \cup BufferIds \cup IdsIn(todo) \subseteq
               Durable(file_id)' \cup BlockIds' \cup BufferIds' \cup IdsIn(todo')
      PROVE  Kept'
  <2>1. \A f \in DOMAIN wal \ {file_id} : Durable(f)' = Durable(f)
    BY <1>4 DEF Durable
  <2>2. \A f \in DOMAIN wal : wal'[f].before = wal[f].before
    BY <1>4
  <2>3. \A id \in before'..last_written_id' :
          id \in Durable(file_id)' \cup BlockIds' \cup BufferIds' \cup IdsIn(todo')
    BY <1>0, <1>4 DEF Kept
  <2>4. file_id' \in DOMAIN wal' /\ wal'[file_id'].before = before'
    BY <1>0, <1>4 DEF Kept
  <2>5. \A f \in DOMAIN wal' : \A id \in wal'[f].before..before' - 1 :
          \E g \in DOMAIN wal' \ {file_id'} : id \in Durable(g)'
    <3>1. ASSUME NEW f \in DOMAIN wal, NEW id \in wal[f].before..before - 1
          PROVE  \E g \in DOMAIN wal' \ {file_id'} : id \in Durable(g)'
      <4>1. PICK g \in DOMAIN wal \ {file_id} : id \in Durable(g)
        BY <1>0 DEF Kept
      <4>2. g \in DOMAIN wal' \ {file_id'} /\ id \in Durable(g)'
        BY <1>4, <2>1, <4>1
      <4> QED BY <4>2
    <3> QED BY <1>4, <2>2, <3>1
  <2> QED BY SMT, <1>1, <2>3, <2>4, <2>5 DEF Kept
<1>5. ASSUME UNCHANGED <<wal, file_id, before, last_written_id>>,
             BlockIds \cup BufferIds \cup IdsIn(todo) \subseteq BlockIds' \cup BufferIds' \cup IdsIn(todo')
      PROVE  Kept'
  <2>1. Durable(file_id)' = Durable(file_id)
    BY <1>5 DEF Durable
  <2>2. Durable(file_id) \cup BlockIds \cup BufferIds \cup IdsIn(todo) \subseteq
          Durable(file_id)' \cup BlockIds' \cup BufferIds' \cup IdsIn(todo')
    BY <1>5, <2>1
  <2> QED BY <1>4, <1>5, <2>2
<1>6. ASSUME UNCHANGED <<wal, file_id, before, last_written_id, flush, data_to_write, buffer, todo>>
      PROVE  Kept'
  <2>1. BlockIds' = BlockIds /\ BufferIds' = BufferIds
    BY <1>6 DEF BlockIds, BufferIds
  <2> QED BY <1>5, <1>6, <2>1
<1>7. CASE Producers \/ Close \/ Receive \/ Rotate \/ HandleClose \/ Closed
  BY <1>6, <1>7 DEF Producers, Assign, Send, Close, Receive, Rotate, HandleClose, Closed,
     fileVars, orderVars, bufferVars, flushVars
<1>8. CASE FlushNothing \/ UNCHANGED walVars
  BY <1>6, <1>8 DEF FlushNothing, WriterUnchanged, walVars, fileVars, orderVars, bufferVars, flushVars
<1>9. CASE Order
  <2>1. todo = {} /\ UNCHANGED <<wal, file_id, before, flush, data_to_write, buffer>>
    BY <1>9 DEF Order, fileVars, bufferVars, flushVars
  <2>2. /\ IdsIn(todo') = last_written_id + 1..last_written_id'
        /\ last_written_id <= last_written_id' /\ last_written_id' \in Int
    BY SMT, <1>0, <1>9, OrderFacts DEF None
  <2>3. BlockIds' = BlockIds /\ BufferIds' = BufferIds /\ \A f : Durable(f)' = Durable(f)
    BY <2>1 DEF BlockIds, BufferIds, Durable
  <2>4. ASSUME NEW id \in before..last_written_id'
        PROVE  id \in Durable(file_id) \cup BlockIds \cup BufferIds \cup IdsIn(todo')
    <3>1. CASE id <= last_written_id
      <4>1. id \in before..last_written_id /\ IdsIn(todo) = {}
        BY SMTT(20), <1>2, <1>3, <2>1, <2>2, <3>1 DEF IdsIn
      <4> QED BY <1>0, <4>1 DEF Kept
    <3>2. CASE id > last_written_id
      BY SMT, <1>2, <1>3, <2>2, <3>2
    <3> QED BY SMT, <1>2, <1>3, <2>2, <3>1, <3>2
  <2>5. \A f \in DOMAIN wal' : \A id \in wal'[f].before..before' - 1 :
          \E g \in DOMAIN wal' \ {file_id'} : id \in Durable(g)'
    BY <1>0, <2>1, <2>3 DEF Kept
  <2>6. Durable(file_id)' = Durable(file_id)
    BY <2>1 DEF Durable
  <2>7. file_id' \in DOMAIN wal' /\ wal'[file_id'].before = before'
    BY <1>0, <2>1 DEF Kept
  <2>8. \A id \in before'..last_written_id' :
          id \in Durable(file_id)' \cup BlockIds' \cup BufferIds' \cup IdsIn(todo')
    BY <2>1, <2>3, <2>4, <2>6
  <2> QED BY <1>1, <2>5, <2>7, <2>8 DEF Kept
<1>10. CASE AppendEntry
  <2>1. /\ todo # {} /\ buffer' = Append(buffer, Next1.id) /\ todo' = todo \ {Next1}
        /\ UNCHANGED <<flush, data_to_write, last_written_id, wal, file_id, before>>
    BY <1>10 DEF AppendEntry, flushVars, orderVars
  <2>2. Next1 \in todo /\ Next1.id \in Nat
    BY <1>2, <2>1, Next1Facts
  <2>3. Range(Append(buffer, Next1.id)) = Range(buffer) \cup {Next1.id}
    BY SMT, <1>2, <2>2, RangeOfAppend
  <2>4. BlockIds' = BlockIds /\ BufferIds' = BufferIds \cup {Next1.id}
    BY <2>1, <2>3 DEF BlockIds, BufferIds
  <2>5. IdsIn(todo) \subseteq IdsIn(todo') \cup {Next1.id}
    BY <2>1 DEF IdsIn
  <2>6. BlockIds \cup BufferIds \cup IdsIn(todo) \subseteq BlockIds' \cup BufferIds' \cup IdsIn(todo')
    BY <2>4, <2>5
  <2> QED BY <1>5, <2>1, <2>6
<1>11. CASE Open
  <2>1. /\ flush = "idle" /\ buffer = <<>> /\ todo # {} /\ flush' = "idle"
        /\ file_id' = file_id + 1 /\ before' = Next1.id /\ buffer' = <<>>
        /\ UNCHANGED <<data_to_write, todo, last_written_id>>
    BY <1>0, <1>3, <1>11 DEF Open, Advance, increment, flushVars, orderVars, Kept, CleanHandshake, Handshake
  <2>2. /\ DOMAIN wal' = DOMAIN wal \cup {file_id + 1}
        /\ wal'[file_id + 1] = NewFile(before')
        /\ \A f \in DOMAIN wal : f # file_id + 1 => wal'[f] = wal[f]
    BY <1>11, <2>1 DEF Open
  <2>3. \A f \in DOMAIN wal : f # file_id + 1 /\ wal'[f] = wal[f] /\ Durable(f)' = Durable(f)
    <3>1. \A f \in DOMAIN wal : f # file_id + 1
      BY SMT, <1>0, <1>3 DEF FlushFacts
    <3> QED BY <2>2, <3>1 DEF Durable
  <2>4. BlockIds = {} /\ BufferIds = {}
    BY SMT, <2>1 DEF BlockIds, BufferIds, Range
  <2>5. Next1 \in todo /\ (\A d \in todo : Next1.id <= d.id) /\ Next1.id \in Nat
    BY <1>2, <2>1, Next1Facts
  <2>6. Next1.id <= last_written_id
    BY <1>0, <2>5 DEF InOrder
  <2>7. ASSUME NEW id \in before..Next1.id - 1 PROVE id \in Durable(file_id)
    <3>1. id \in before..last_written_id /\ id < Next1.id /\ id \in Int
      BY SMT, <1>2, <1>3, <2>5, <2>6
    <3>2. id \notin IdsIn(todo)
      <4>1. \A d \in todo : id < d.id
        BY SMT, <1>2, <2>5, <3>1
      <4> QED BY SMT, <3>1, <4>1 DEF IdsIn
    <3> QED BY <1>0, <2>4, <3>1, <3>2 DEF Kept
  <2>8. wal'[file_id'].before = before' /\ file_id' \in DOMAIN wal'
    BY SMT, <2>1, <2>2 DEF NewFile
  <2>9. ASSUME NEW id \in before'..last_written_id' PROVE id \in IdsIn(todo')
    BY <1>0, <2>1, <2>5 DEF AckInv, Released
  <2>10. ASSUME NEW f \in DOMAIN wal', NEW id \in wal'[f].before..before' - 1
         PROVE  \E g \in DOMAIN wal' \ {file_id'} : id \in Durable(g)'
    <3>1. f \in DOMAIN wal /\ wal'[f] = wal[f] /\ wal[f].before \in Nat
      <4>1. f # file_id + 1
        BY SMT, <1>2, <2>1, <2>2, <2>5 DEF NewFile
      <4> QED BY <1>0, <2>2, <2>3, <4>1 DEF WalTypeOK, DiskTypeOK
    <3>2. CASE id < before
      <4>1. id \in wal[f].before..before - 1
        BY SMT, <1>3, <2>1, <2>5, <3>1, <3>2
      <4>2. PICK g \in DOMAIN wal \ {file_id} : id \in Durable(g)
        BY <1>0, <3>1, <4>1 DEF Kept
      <4> QED BY <2>1, <2>2, <2>3, <4>2
    <3>3. CASE id >= before
      <4>1. id \in before..Next1.id - 1
        BY SMT, <1>3, <2>1, <2>5, <3>1, <3>3
      <4>2. id \in Durable(file_id) /\ file_id \in DOMAIN wal
        BY <1>0, <2>7, <4>1 DEF Kept
      <4> QED BY <2>1, <2>2, <2>3, <4>2
    <3> QED BY SMTT(20), <1>3, <2>1, <2>5, <3>1, <3>2, <3>3
  <2> QED BY <1>1, <2>8, <2>9, <2>10 DEF Kept
<1>12. CASE FlushTake
  <2>1. /\ flush = "idle" /\ flush' = "write" /\ data_to_write' = buffer /\ buffer' = <<>>
        /\ UNCHANGED <<wal, file_id, before, last_written_id, todo>>
    BY <1>12 DEF FlushTake, WriterUnchanged, fileVars, orderVars
  <2>2. BlockIds = {} /\ BlockIds' = BufferIds
    BY <2>1 DEF BlockIds, BufferIds
  <2> QED BY <1>5, <2>1, <2>2
<1>13. CASE WriteOk \/ SyncOk \/ WriteFails \/ SyncFails
  <2>1. /\ file_id \in DOMAIN wal /\ DOMAIN wal' = DOMAIN wal
        /\ \A f \in DOMAIN wal \ {file_id} : wal'[f] = wal[f]
        /\ wal'[file_id].before = wal[file_id].before
        /\ wal[file_id].ids \in Seq(Nat \cup {Torn})
        /\ Range(wal[file_id].ids) \subseteq Range(wal'[file_id].ids)
        /\ Durable(file_id) \subseteq Durable(file_id)'
        /\ WriteOk => Range(data_to_write) \subseteq Range(wal'[file_id].ids)
        /\ SyncOk \/ (~Fsync /\ WriteOk) => Durable(file_id)' = Range(wal'[file_id].ids)
    BY <1>0, <1>13, FlushedFile
  <2>2. /\ flush # "idle" /\ UNCHANGED <<file_id, before, last_written_id, todo, data_to_write, buffer>>
        /\ flush' # "idle" \/ SyncOk \/ (~Fsync /\ WriteOk)
        /\ SyncOk => flush = "sync"
    BY <1>0, <1>13 DEF WriteOk, SyncOk, WriteFails, SyncFails, FailAttempt, WriterUnchanged,
       fileVars, orderVars
  <2>3. BufferIds' = BufferIds /\ BlockIds = Range(data_to_write)
    BY <2>2 DEF BufferIds, BlockIds
  <2>4. BlockIds \subseteq BlockIds' \cup Durable(file_id)'
    <3>1. CASE flush' # "idle"
      BY <2>2, <2>3, <3>1 DEF BlockIds
    <3>2. CASE SyncOk
      BY SMTT(20), <1>0, <2>1, <2>2, <2>3, <3>2 DEF FlushFacts
    <3>3. CASE ~Fsync /\ WriteOk
      BY <2>1, <2>3, <3>3
    <3> QED BY <2>2, <3>1, <3>2, <3>3
  <2>5. Durable(file_id) \cup BlockIds \cup BufferIds \cup IdsIn(todo) \subseteq
          Durable(file_id)' \cup BlockIds' \cup BufferIds' \cup IdsIn(todo')
    BY SMTT(20), <2>1, <2>2, <2>3, <2>4
  <2> QED BY <1>4, <2>1, <2>2, <2>5
<1> QED BY SMT, <1>0, <1>7, <1>8, <1>9, <1>10, <1>11, <1>12, <1>13 DEF WalNext, WriterTask, FlushTask

-----------------------------------------------------------------------------
\* What holds of every reachable state of the writer, whatever call fails.
THEOREM AckInvariant == WalSpec => []AckInv
<1>1. WalInit => AckInv
  <2> SUFFICES ASSUME WalInit PROVE AckInv
    OBVIOUS
  <2>1. WriterInv
    BY InitInv DEF WalInv
  <2>2. PICK last \in RecoveredIds, w \in BOOLEAN : WalStart(IF last = None THEN 1 ELSE 2, last, w)
    BY DEF WalInit
  <2>3. /\ last \in Int /\ last_written_id = last /\ before = last + 1 /\ file_id \in Nat
        /\ flush = "idle" /\ buffer = <<>> /\ todo = {} /\ written = <<>>
    BY SMT, <2>2, WalAssumption DEF WalStart, None
  <2>4. wal = [f \in {file_id} |-> NewFile(before)]
    BY DEF WalInit
  <2>5. BlockIds = {} /\ BufferIds = {} /\ Len(written) = 0
    BY SMT, <2>3 DEF BlockIds, BufferIds, Range
  <2>6. InOrder /\ Released
    BY SMT, <2>3, <2>5 DEF InOrder, Released, AcksAscend, IdsIn
  <2>7. /\ file_id \in DOMAIN wal /\ DOMAIN wal = {file_id} /\ wal[file_id].before = before
        /\ wal[file_id].synced = 0 /\ Len(wal[file_id].ids) = 0
    BY <2>4 DEF NewFile
  <2>8. FlushFacts
    BY SMT, <2>3, <2>7 DEF FlushFacts
  <2>9. CleanHandshake
    BY <2>2, <2>3 DEF CleanHandshake, WalStart
  <2>10. Kept
    BY SMTT(20), <2>3, <2>7, <2>9 DEF Kept
  <2> QED BY <2>1, <2>6, <2>8, <2>10 DEF AckInv
<1>2. AckInv /\ [WalNext]_walVars => AckInv'
  <2> SUFFICES ASSUME AckInv, [WalNext]_walVars PROVE AckInv'
    OBVIOUS
  <2>1. WriterInv /\ InOrder /\ FlushFacts /\ Released
    BY DEF AckInv
  <2>2. WriterInv' /\ InOrder' /\ FlushFacts' /\ Released'
    BY SMT, <2>1, WriterStep, InOrderStep, FlushFactsStep, ReleasedStep
  <2> QED BY <2>2, KeptStep DEF AckInv
<1> QED BY <1>1, <1>2, PTL DEF WalSpec

\* AckedIsDurable holds whatever the sizes, the limits and the calls that fail:
\* AckFileWriter acknowledges a block when it is on disk, in the order of the
\* ids, and rotate() waits for the last flush of the old file.
THEOREM AcksAreDurable == WalSpec => []AckedIsDurable
<1>1. AckInv => AckedIsDurable
  <2> SUFFICES ASSUME AckInv PROVE AckedIsDurable
    OBVIOUS
  <2>1. WalTypeOK /\ InOrder /\ (Recoverable => Kept)
    BY DEF AckInv, WriterInv
  <2>2. ASSUME Recoverable, NEW n \in 1..Len(written), NEW f \in DOMAIN wal,
               NEW id \in wal[f].before..written[n]
        PROVE  \E g \in DOMAIN wal : id \in Durable(g)
    <3>1. /\ written[n] \in Nat /\ last_written_id \in Int
          /\ BlockIds \subseteq Nat /\ BufferIds \subseteq Nat /\ IdsIn(todo) \subseteq Nat
      BY <2>1, AckTypes
    <3>2. wal[f].before \in Nat /\ before \in Nat
      BY <2>1 DEF WalTypeOK, DiskTypeOK, FileTypeOK
    <3>3. /\ written[n] <= last_written_id
          /\ \A x \in BlockIds \cup BufferIds \cup IdsIn(todo) : written[n] < x
      BY <2>1 DEF InOrder
    <3>4. CASE id < before
      <4>1. id \in wal[f].before..before - 1
        BY SMT, <3>1, <3>2, <3>4
      <4> QED BY SMT, <2>1, <2>2, <4>1 DEF Kept
    <3>5. CASE id >= before
      <4>1. id \in before..last_written_id
        BY SMT, <3>1, <3>2, <3>3, <3>5
      <4>2. id \notin BlockIds \cup BufferIds \cup IdsIn(todo)
        BY SMT, <3>1, <3>2, <3>3
      <4> QED BY SMT, <2>1, <2>2, <4>1, <4>2 DEF Kept
    <3> QED BY SMT, <3>1, <3>2, <3>4, <3>5
  <2> QED BY <2>1, <2>2 DEF AckedIsDurable, InOrder
<1> QED BY <1>1, AckInvariant, PTL
=============================================================================
