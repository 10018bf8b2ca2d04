------------------------- MODULE WalWriterPipeline -------------------------
(***************************************************************************)
(* The inductive invariant of the WAL writer, and how an id goes down it:  *)
(* every step keeps the types, the handshake of the two tasks and the      *)
(* intervals of ids between them.                                          *)
(***************************************************************************)
EXTENDS WalWriter, SequenceTheorems, WellFoundedInduction, TLAPS

\* The leaves are first-order reasoning; those about numbers, sequences or
\* records name SMT.
USE Zenon

(* Least and greatest elements                                              *)

\* A non-empty set of naturals has a least element.
LEMMA LeastNat ==
  ASSUME NEW T \in SUBSET Nat, T # {}
  PROVE  \E m \in T : \A k \in T : m <= k
<1> DEFINE R == {ss \in Nat \X Nat : ss[1] < ss[2]}
<1>1. IsWellFoundedOn(R, Nat)
  BY NatLessThanWellFounded, Zenon DEF OpToRel
<1>2. \E x \in T : \A y \in T : ~ (<<y, x>> \in R)
  <2> HIDE DEF R
  <2> QED BY <1>1, WFMin
<1>3. PICK x \in T : \A y \in T : ~ (<<y, x>> \in R)
  BY <1>2
<1>4. ASSUME NEW y \in T PROVE x <= y
  <2>1. ~ (<<y, x>> \in R)
    BY <1>3
  <2>2. <<y, x>> \in Nat \X Nat
    OBVIOUS
  <2>3. ~ (y < x)
    BY <2>1, <2>2, Zenon
  <2> QED BY SMT, <2>3
<1> QED BY <1>4

\* The maximum of a non-empty set of naturals that has an upper bound.
LEMMA MaxFacts ==
  ASSUME NEW S \in SUBSET Nat, S # {}, NEW b \in Int, \A x \in S : x <= b
  PROVE  Max(S) \in S /\ \A x \in S : x <= Max(S)
<1> DEFINE T == {b - x : x \in S}
<1>1. T \in SUBSET Nat /\ T # {}
  <2>1. ASSUME NEW x \in S PROVE b - x \in Nat
    <3>1. x <= b /\ x \in Nat
      OBVIOUS
    <3> QED BY SMT, <3>1
  <2> QED BY <2>1
<1>2. PICK m \in T : \A k \in T : m <= k
  BY <1>1, LeastNat
<1>3. PICK x \in S : m = b - x
  BY <1>2
<1>4. \A y \in S : x >= y
  BY SMT, <1>2, <1>3
<1>5. \E z \in S : \A y \in S : z >= y
  BY <1>4
<1>6. Max(S) \in S /\ \A y \in S : Max(S) >= y
  BY <1>5 DEF Max
<1> QED BY <1>6

\* The entry that write() handles next is one of "todo" with the smallest id.
LEMMA Next1Facts ==
  ASSUME todo \subseteq Entry, todo # {}
  PROVE  Next1 \in todo /\ \A d \in todo : Next1.id <= d.id
<1>1. IdsIn(todo) \in SUBSET Nat /\ IdsIn(todo) # {}
  BY DEF IdsIn, Entry
<1>2. PICK m \in IdsIn(todo) : \A k \in IdsIn(todo) : m <= k
  BY <1>1, LeastNat
<1>3. \E e \in todo : \A d \in todo : e.id <= d.id
  BY <1>2 DEF IdsIn
<1> QED BY <1>3 DEF Next1

\* What wait_for_order releases is an interval that starts after the last id.
LEMMA ReadyInterval ==
  ASSUME NEW es \in SUBSET Entry, NEW last \in Int, NEW m \in Ready(es, last),
         \A e \in Ready(es, last) : e.id <= m.id
  PROVE  IdsIn(Ready(es, last)) = last + 1..m.id
<1>1. es \subseteq Entry /\ m \in es /\ \A e \in es : e.id \in Nat
  BY DEF Ready, Entry
<1>2. \A e \in Ready(es, last) : e \in es /\ IdsIn({d \in es : d.id <= e.id}) = last + 1..e.id
  BY DEF Ready
<1>3. ASSUME NEW e \in Ready(es, last) PROVE e.id \in last + 1..m.id
  <2>1. e.id \in IdsIn({d \in es : d.id <= e.id})
    BY SMT, <1>1, <1>2 DEF IdsIn
  <2> QED BY SMT, <1>1, <1>2, <2>1
<1>4. ASSUME NEW k \in last + 1..m.id PROVE k \in IdsIn(Ready(es, last))
  <2>1. IdsIn({d \in es : d.id <= m.id}) = last + 1..m.id
    BY <1>2
  <2>2. PICK d \in es : d.id = k
    BY <2>1 DEF IdsIn
  <2>3. IdsIn({x \in es : x.id <= d.id}) = last + 1..d.id
    <3>1. ASSUME NEW j \in IdsIn({x \in es : x.id <= d.id}) PROVE j \in last + 1..d.id
      <4>1. PICK x \in es : x.id = j /\ x.id <= d.id
        BY DEF IdsIn
      <4>2. x.id <= m.id
        BY SMT, <1>1, <2>2, <4>1
      <4>3. j \in last + 1..m.id
        BY <2>1, <4>1, <4>2 DEF IdsIn
      <4> QED BY SMT, <1>1, <4>1, <4>3
    <3>2. ASSUME NEW j \in last + 1..d.id PROVE j \in IdsIn({x \in es : x.id <= d.id})
      <4>1. j \in last + 1..m.id /\ j <= d.id
        BY SMT, <1>1, <2>2
      <4>2. PICK x \in es : x.id = j
        BY <2>1, <4>1 DEF IdsIn
      <4> QED BY <4>1, <4>2 DEF IdsIn
    <3> QED BY <3>1, <3>2
  <2>4. d \in Ready(es, last)
    BY <2>3 DEF Ready
  <2> QED BY <2>2, <2>4 DEF IdsIn
<1> QED BY <1>3, <1>4 DEF IdsIn

-----------------------------------------------------------------------------
(* The invariant                                                            *)

\* Entries that have not reached the file writer yet.
Upstream ==
  {e \in Entry : \/ \E b \in unsent : e \in Range(b)
                 \/ \E n \in 1..Len(write_chan) : e \in Range(write_chan[n])
                 \/ e \in Range(req)
                 \/ e \in pending
                 \/ e \in todo}

\* Upstream, an id names one entry, and it was assigned.
IdsName ==
  /\ \A e \in Upstream : e.id <= assigned
  /\ \A d, e \in Upstream : d.id = e.id => d = e

\* How the two tasks wait for each other.
Handshake ==
  /\ task = "running" => file_id \in DOMAIN wal
  /\ flush # "idle" => task = "running" /\ data_to_write # <<>>
  /\ writer \in {"append", "rotate"} => todo # {}
  /\ writer \in {"close", "closed"} => todo = {}
  /\ writer = "closed" => task = "ended"
  /\ \A n \in 1..Len(wal_complete) : wal_complete[n] < file_id

\* The same while no call has failed.
CleanHandshake ==
  /\ shutdown <=> writer \in {"rotate", "close", "closed"}
  /\ task = "ended" => flush = "idle" /\ buffer = <<>> /\ shutdown
  /\ flush # "idle" /\ final => buffer = <<>> /\ shutdown

Cur == wal[file_id]
Blk == IF flush = "write" THEN data_to_write ELSE <<>>

\* Where the file, the block and the buffer end.
FileEnd   == before + Len(Cur.ids)
BlkEnd    == FileEnd + Len(Blk)
BufferEnd == BlkEnd + Len(buffer)
DurableEnd == before + (IF Fsync THEN Cur.synced ELSE Len(Cur.ids))

\* The intervals of the pipeline, from the current file up to the ids that were
\* assigned.  rotate() leaves no file empty when it starts at entry zero.
Pipeline ==
  /\ file_id \in DOMAIN wal /\ Cur.before = before
  /\ \A i \in 1..Len(Cur.ids) : Cur.ids[i] = before + i - 1
  /\ \A i \in 1..Len(Blk) : Blk[i] = FileEnd + i - 1
  /\ \A i \in 1..Len(buffer) : buffer[i] = BlkEnd + i - 1
  /\ IdsIn(todo) = BufferEnd..last_written_id
  /\ BufferEnd <= last_written_id + 1
  /\ last_written_id <= assigned
  /\ has_written => BufferEnd > before
  /\ writer = "rotate" => BufferEnd > 0

\* What has been synced and acknowledged.
Synced ==
  /\ Cur.synced <= Len(Cur.ids)
  /\ flush = "sync" => /\ Fsync
                       /\ LastId(data_to_write) = FileEnd - 1
                       /\ Cur.synced < Len(Cur.ids)
  /\ flush # "sync" /\ Fsync => Cur.synced = Len(Cur.ids)
  /\ \A n \in 1..Len(written) : written[n] < DurableEnd
  /\ AcksAscend

\* The tasks and the file they work on.  Nothing is said of other files, which
\* the store moves away.
WriterInv ==
  /\ WalTypeOK /\ IdsName /\ Handshake
  /\ io_errors = 0 => CleanHandshake /\ Pipeline /\ Synced

\* How the files change while no call fails: rotate() adds one that starts where
\* the complete one ends, and flush_buffer adds entries to the current file or
\* syncs it.
DiskSame   == UNCHANGED <<wal, file_id, before>>
DiskOpened ==
  /\ FileEnd > 0 /\ DurableEnd = FileEnd
  /\ file_id' = file_id + 1 /\ before' = FileEnd
  /\ wal' = [f \in DOMAIN wal \cup {file_id + 1} |->
               IF f = file_id + 1 THEN NewFile(FileEnd) ELSE wal[f]]
DiskGrown ==
  /\ UNCHANGED <<file_id, before>>
  /\ wal' = [wal EXCEPT ![file_id].ids = @ \o data_to_write]
DiskSynced ==
  /\ UNCHANGED <<file_id, before>>
  /\ wal' = [wal EXCEPT ![file_id].synced = Len(wal[file_id].ids)]

FileIsConsecutive(f) ==
  /\ \A i \in 1..Len(wal[f].ids) : wal[f].ids[i] = wal[f].before + i - 1
  /\ f + 1 \in DOMAIN wal => wal[f + 1].before = wal[f].before + Len(wal[f].ids)

\* All files of this writer: they follow each other up to the current one, and
\* the earlier ones durably hold every id before it.
FilesInv ==
  /\ \A f \in DOMAIN wal : f <= file_id /\ FileIsConsecutive(f)
  /\ \A f \in DOMAIN wal : wal[f].synced <= Len(wal[f].ids)
  /\ \A f \in DOMAIN wal \ {file_id} : wal[f].before + Len(wal[f].ids) <= before
  /\ \A f \in DOMAIN wal : \A id \in wal[f].before..before - 1 :
       \E g \in DOMAIN wal \ {file_id} : id \in Durable(g)

WalInv == WriterInv /\ (io_errors = 0 => FilesInv)

DistinctIds(b) == \A i, j \in 1..Len(b) : b[i].id = b[j].id => i = j

Disjoint(S, T) == S \cap T = {}

\* Where an id waits for its turn.
Unsent  == BatchIds(unsent)
Sent    == BatchIds(Range(write_chan))
InReq   == IdsIn(Range(req))
Pending == IdsIn(pending)

\* Every id that was assigned and is not released yet waits in exactly one
\* place, once: the batches share no id.
WaitingOnce ==
  /\ \A b \in unsent : DistinctIds(b)
  /\ \A n \in 1..Len(write_chan) : DistinctIds(write_chan[n])
  /\ DistinctIds(req)
  /\ \A b, c \in unsent : b # c => Disjoint(IdsIn(Range(b)), IdsIn(Range(c)))
  /\ \A m, n \in 1..Len(write_chan) :
       m # n => Disjoint(IdsIn(Range(write_chan[m])), IdsIn(Range(write_chan[n])))
  /\ Disjoint(Unsent, Sent) /\ Disjoint(Unsent, InReq) /\ Disjoint(Unsent, Pending)
  /\ Disjoint(Sent, InReq) /\ Disjoint(Sent, Pending) /\ Disjoint(InReq, Pending)
  /\ Unsent \cup Sent \cup InReq \cup Pending = last_written_id + 1..assigned

-----------------------------------------------------------------------------
(* Type correctness                                                         *)

\* A step that leaves a group of variables alone keeps their types.
LEMMA TypeUnchanged ==
  /\ ProducerTypeOK /\ UNCHANGED producerVars => ProducerTypeOK'
  /\ OrderTypeOK /\ UNCHANGED <<orderVars, todo>> => OrderTypeOK'
  /\ FileTypeOK /\ UNCHANGED <<fileVars, writer, wal_complete>> => FileTypeOK'
  /\ FlushTypeOK /\ UNCHANGED <<bufferVars, shutdown, task, flushVars>> => FlushTypeOK'
  /\ DiskTypeOK /\ UNCHANGED <<wal, written, io_errors>> => DiskTypeOK'
<1>1. ProducerTypeOK /\ UNCHANGED producerVars => ProducerTypeOK'
  BY DEF ProducerTypeOK, producerVars
<1>2. OrderTypeOK /\ UNCHANGED <<orderVars, todo>> => OrderTypeOK'
  BY DEF OrderTypeOK, orderVars
<1>3. FileTypeOK /\ UNCHANGED <<fileVars, writer, wal_complete>> => FileTypeOK'
  BY DEF FileTypeOK, fileVars
<1>4. FlushTypeOK /\ UNCHANGED <<bufferVars, shutdown, task, flushVars>> => FlushTypeOK'
  BY DEF FlushTypeOK, bufferVars, flushVars
<1>5. DiskTypeOK /\ UNCHANGED <<wal, written, io_errors>> => DiskTypeOK'
  BY DEF DiskTypeOK
<1> QED BY <1>1, <1>2, <1>3, <1>4, <1>5

\* What Order releases is upstream already, and its greatest id is an id.
LEMMA OrderFacts ==
  ASSUME WriterInv, Order
  PROVE  /\ req' = Tail(req) /\ Head(req) \in Entry /\ req' \in Seq(Entry)
         /\ pending' \cup todo' \subseteq pending \cup {Head(req)}
         /\ last_written_id' \in Nat \cup {None}
         /\ IdsIn(todo') = last_written_id + 1..last_written_id'
         /\ last_written_id <= last_written_id'
         /\ last_written_id' = last_written_id \/ last_written_id' <= assigned
<1> DEFINE e == Head(req)
           all == pending \cup {e}
           out == Ready(all, last_written_id)
<1>1. /\ req \in Seq(Entry) /\ req # <<>> /\ pending \subseteq Entry
      /\ last_written_id \in Nat \cup {None} /\ assigned \in Nat \cup {None}
  BY DEF WriterInv, WalTypeOK, ProducerTypeOK, OrderTypeOK, Order
<1>2. last_written_id \in Int /\ assigned \in Int
  BY SMT, <1>1 DEF None
<1>3. e \in Entry /\ Tail(req) \in Seq(Entry) /\ e \in Range(req)
  BY SMT, <1>1, HeadTailProperties DEF Range
<1>4. /\ req' = Tail(req)
      /\ IF check_can_write(e.id)
         THEN todo' = {e} /\ last_written_id' = e.id /\ pending' = pending
         ELSE /\ todo' = out /\ pending' = all \ out
              /\ last_written_id' = IF out = {} THEN last_written_id ELSE Max(IdsIn(out))
  BY DEF Order
<1>5. e.id \in Nat /\ all \subseteq Entry /\ out \subseteq all /\ e \in all
  BY <1>1, <1>3 DEF Entry, Ready
<1>6. \A x \in all : x.id <= assigned
  <2>1. pending \cup {e} \subseteq Upstream
    BY <1>1, <1>3 DEF Upstream
  <2> QED BY <1>3, <2>1 DEF WriterInv, IdsName
<1>7. all = pending \cup {Head(req)} /\ e = Head(req) /\ out = Ready(all, last_written_id)
  OBVIOUS
<1> HIDE DEF e, all, out
<1>8. CASE check_can_write(e.id)
  <2>1. e.id = last_written_id + 1
    BY <1>8 DEF check_can_write, increment
  <2>2. IdsIn({e}) = last_written_id + 1..e.id
    BY SMT, <1>2, <1>5, <2>1 DEF IdsIn
  <2>3. pending' \cup todo' \subseteq pending \cup {Head(req)}
    BY <1>4, <1>7, <1>8
  <2>4. last_written_id <= e.id /\ e.id <= assigned
    BY SMT, <1>2, <1>5, <1>6, <2>1
  <2> QED BY <1>3, <1>4, <1>5, <1>7, <1>8, <2>2, <2>3, <2>4
<1>9. CASE ~check_can_write(e.id) /\ out = {}
  <2>1. IdsIn(out) = last_written_id + 1..last_written_id
    BY SMT, <1>2, <1>9 DEF IdsIn
  <2>2. todo' = out /\ pending' = all /\ last_written_id' = last_written_id
    BY <1>4, <1>9
  <2>3. pending' \cup todo' \subseteq pending \cup {Head(req)}
    BY <1>5, <1>7, <2>2
  <2>4. last_written_id <= last_written_id' /\ req' = Tail(req)
    BY SMT, <1>2, <1>4, <2>2
  <2> QED BY <1>1, <1>3, <1>7, <2>1, <2>2, <2>3, <2>4
<1>10. CASE ~check_can_write(e.id) /\ out # {}
  <2> DEFINE m == Max(IdsIn(out))
  <2>1. IdsIn(out) \in SUBSET Nat /\ IdsIn(out) # {} /\ \A x \in IdsIn(out) : x <= assigned
    BY <1>5, <1>6, <1>10 DEF IdsIn, Entry
  <2>2. m \in IdsIn(out) /\ \A x \in IdsIn(out) : x <= m
    BY <1>2, <2>1, MaxFacts
  <2> HIDE DEF m
  <2>3. PICK top \in out : top.id = m
    BY <2>2 DEF IdsIn
  <2>4. \A x \in out : x.id <= top.id
    BY <2>2, <2>3 DEF IdsIn
  <2>5. IdsIn(out) = last_written_id + 1..m
    BY <1>2, <1>5, <1>7, <2>3, <2>4, ReadyInterval
  <2>6. m \in Nat /\ last_written_id <= m /\ m <= assigned
    BY SMT, <1>2, <2>1, <2>2, <2>5
  <2>7. todo' = out /\ pending' = all \ out /\ last_written_id' = m
    BY <1>4, <1>10 DEF m
  <2> QED BY <1>3, <1>4, <1>5, <1>7, <2>5, <2>6, <2>7
<1> QED BY <1>8, <1>9, <1>10

\* Every step keeps the types.
LEMMA TypeStep ==
  ASSUME WriterInv, [WalNext]_walVars
  PROVE  WalTypeOK'
<1> USE DEF WalTypeOK
<1>0. ProducerTypeOK /\ OrderTypeOK /\ FileTypeOK /\ FlushTypeOK /\ DiskTypeOK
  BY DEF WriterInv
<1>1. ASSUME NEW n \in 1..MaxBatch, NEW lens \in [1..n -> DataLens], Assign(lens)
      PROVE  WalTypeOK'
  <2> DEFINE batch == [i \in 1..Len(lens) |-> [id |-> assigned + i, len |-> lens[i]]]
  <2>1. lens \in Seq(DataLens) /\ Len(lens) = n /\ n \in Nat \ {0}
    BY SMT, SeqDef, WalAssumption
  <2>2. assigned \in Int /\ assigned >= -1
    BY SMT, <1>0 DEF ProducerTypeOK, None
  <2>3. batch \in Seq(Entry)
    BY SMT, <2>1, <2>2 DEF Entry
  <2>4. assigned + Len(lens) \in Nat
    BY SMT, <2>1, <2>2
  <2> HIDE DEF batch
  <2>5. unsent' = unsent \cup {batch} /\ assigned' = assigned + Len(lens) /\ closing' = closing
    BY <1>1 DEF Assign, batch
  <2>6. ProducerTypeOK'
    BY <1>0, <2>3, <2>4, <2>5 DEF ProducerTypeOK
  <2> QED BY <1>0, <1>1, <2>6, TypeUnchanged DEF Assign
<1>2. ASSUME NEW batch \in unsent, Send(batch) PROVE WalTypeOK'
  <2>1. ProducerTypeOK'
    BY <1>0, <1>2 DEF Send, ProducerTypeOK
  <2>2. OrderTypeOK'
    BY SMT, <1>0, <1>2 DEF Send, OrderTypeOK, ProducerTypeOK
  <2> QED BY <1>0, <1>2, <2>1, <2>2, TypeUnchanged DEF Send
<1>3. CASE Close
  <2>1. ProducerTypeOK'
    BY <1>0, <1>3 DEF Close, ProducerTypeOK
  <2> QED BY <1>0, <1>3, <2>1, TypeUnchanged DEF Close
<1>4. CASE Receive
  <2>1. OrderTypeOK'
    BY <1>0, <1>4, HeadTailProperties DEF Receive, OrderTypeOK
  <2> QED BY <1>0, <1>4, <2>1, TypeUnchanged DEF Receive
<1>5. CASE Order
  <2>1. OrderTypeOK'
    <3>1. write_chan' = write_chan
      BY <1>5 DEF Order
    <3> QED BY <1>0, <1>5, <3>1, OrderFacts DEF OrderTypeOK
  <2> QED BY <1>0, <1>5, <2>1, TypeUnchanged DEF Order
<1>6. CASE AppendEntry
  <2>1. Next1 \in Entry
    BY <1>0, <1>6, Next1Facts DEF AppendEntry, OrderTypeOK
  <2>2. Next1.id \in Nat /\ Next1.len \in Nat
    BY <2>1, WalAssumption DEF Entry
  <2>3. OrderTypeOK'
    BY <1>0, <1>6 DEF AppendEntry, OrderTypeOK, orderVars
  <2>4. FileTypeOK'
    BY <1>0, <1>6 DEF AppendEntry, FileTypeOK
  <2>5. FlushTypeOK'
    <3>1. /\ buffer' = Append(buffer, Next1.id)
          /\ current_size' = current_size + EntryOverhead + Next1.len
      BY <1>6 DEF AppendEntry
    <3>2. buffer \in Seq(Nat) /\ current_size \in Nat /\ EntryOverhead \in Nat
      BY <1>0, WalAssumption DEF FlushTypeOK
    <3>3. Append(buffer, Next1.id) \in Seq(Nat)
      BY <2>2, <3>2, AppendProperties
    <3>4. buffer' \in Seq(Nat) /\ current_size' \in Nat
      BY SMT, <2>2, <3>1, <3>2, <3>3
    <3> QED BY <1>0, <1>6, <3>4 DEF AppendEntry, FlushTypeOK, flushVars
  <2> QED BY <1>0, <1>6, <2>3, <2>4, <2>5, TypeUnchanged DEF AppendEntry
<1>7. CASE Rotate
  <2>1. FileTypeOK'
    BY <1>0, <1>7 DEF Rotate, FileTypeOK, fileVars
  <2>2. FlushTypeOK'
    BY <1>0, <1>7 DEF Rotate, FlushTypeOK, flushVars, bufferVars
  <2> QED BY <1>0, <1>7, <2>1, <2>2, TypeUnchanged DEF Rotate
<1>8. ASSUME Advance
      PROVE  /\ file_id' \in Nat /\ before' \in Nat /\ wide' \in BOOLEAN
             /\ wal_complete' \in Seq(Nat)
  <2>1. todo # {}
    BY <1>8 DEF Advance, WriterInv, Handshake
  <2>2. Next1 \in Entry
    BY <1>0, <2>1, Next1Facts DEF OrderTypeOK
  <2> QED BY SMT, <1>0, <1>8, <2>2 DEF Advance, FileTypeOK, Entry, increment
<1>9. CASE Open
  <2>1. Advance
    BY <1>9 DEF Open
  <2>2. FileTypeOK'
    BY <1>8, <1>9, <2>1 DEF Open, FileTypeOK
  <2>3. FlushTypeOK'
    <3>1. HeaderSize \in Nat /\ <<>> \in Seq(Nat)
      BY WalAssumption, EmptySeq
    <3> QED BY <1>0, <1>9, <3>1 DEF Open, FlushTypeOK, flushVars
  <2>4. DiskTypeOK'
    <3>1. NewFile(before') \in [before : Nat, ids : Seq(Nat \cup {Torn}), synced : Nat]
      BY SMT, <1>8, <2>1 DEF NewFile
    <3>2. wal' = [f \in DOMAIN wal \cup {file_id'} |->
                    IF f = file_id' THEN NewFile(before') ELSE wal[f]]
      BY <1>9 DEF Open
    <3> QED BY <1>0, <1>8, <1>9, <2>1, <3>1, <3>2 DEF Open, DiskTypeOK
  <2> QED BY <1>0, <1>9, <2>2, <2>3, <2>4, TypeUnchanged DEF Open
<1>10. CASE OpenFails
  <2>1. Advance
    BY <1>10 DEF OpenFails
  <2>2. FileTypeOK'
    BY <1>0, <1>8, <1>10, <2>1 DEF OpenFails, FileTypeOK
  <2>3. OrderTypeOK'
    BY SMT, <1>0, <1>10 DEF OpenFails, OrderTypeOK
  <2>4. DiskTypeOK'
    BY SMT, <1>0, <1>10 DEF OpenFails, DiskTypeOK
  <2> QED BY <1>0, <1>10, <2>2, <2>3, <2>4, TypeUnchanged DEF OpenFails
<1>11. CASE HandleClose
  <2>1. FileTypeOK'
    BY <1>0, <1>11 DEF HandleClose, FileTypeOK, fileVars
  <2>2. FlushTypeOK'
    BY <1>0, <1>11 DEF HandleClose, FlushTypeOK, flushVars, bufferVars
  <2> QED BY <1>0, <1>11, <2>1, <2>2, TypeUnchanged DEF HandleClose
<1>12. CASE Closed
  <2>1. FileTypeOK'
    BY <1>0, <1>12 DEF Closed, FileTypeOK, fileVars
  <2> QED BY <1>0, <1>12, <2>1, TypeUnchanged DEF Closed
<1>13. ASSUME WriterUnchanged, FlushTypeOK', DiskTypeOK' PROVE WalTypeOK'
  BY <1>0, <1>13, TypeUnchanged DEF WriterUnchanged
<1>14. CASE FlushTake
  <2>1. FlushTypeOK'
    BY SMT, <1>0, <1>14 DEF FlushTake, WriterUnchanged, FlushTypeOK
  <2> QED BY <1>0, <1>13, <1>14, <2>1, TypeUnchanged DEF FlushTake
<1>15. CASE FlushNothing
  <2>1. FlushTypeOK'
    BY <1>0, <1>15 DEF FlushNothing, WriterUnchanged, FlushTypeOK, flushVars
  <2> QED BY <1>0, <1>13, <1>15, <2>1, TypeUnchanged DEF FlushNothing
<1>16. ASSUME flush # "idle"
       PROVE  /\ file_id \in DOMAIN wal /\ LastId(data_to_write) \in Nat
              /\ wal[file_id].ids \in Seq(Nat \cup {Torn})
              /\ data_to_write \in Seq(Nat) /\ data_to_write \in Seq(Nat \cup {Torn})
  <2>1. data_to_write # <<>> /\ file_id \in DOMAIN wal
    BY <1>16 DEF WriterInv, Handshake
  <2>2. data_to_write \in Seq(Nat) /\ Len(data_to_write) \in Nat \ {0}
    BY <1>0, <2>1, EmptySeq DEF FlushTypeOK
  <2>3. LastId(data_to_write) \in Nat
    BY SMT, <2>2, ElementOfSeq DEF LastId
  <2>4. data_to_write \in Seq(Nat \cup {Torn})
    BY <2>2, SeqMonotonic
  <2> QED BY <1>0, <2>1, <2>2, <2>3, <2>4 DEF DiskTypeOK
<1>17. CASE WriteOk
  <2>1. flush # "idle"
    BY <1>17 DEF WriteOk
  <2>2. FlushTypeOK'
    BY <1>0, <1>17 DEF WriteOk, WriterUnchanged, FlushTypeOK, Acknowledge, FlushEnds
  <2>3. wal[file_id].ids \o data_to_write \in Seq(Nat \cup {Torn})
    BY <1>16, <2>1, ConcatProperties
  <2>4. written' \in Seq(Nat)
    <3>1. written' = written \/ written' = Append(written, LastId(data_to_write))
      BY <1>17 DEF WriteOk, Acknowledge
    <3>2. written \in Seq(Nat) /\ LastId(data_to_write) \in Nat
      BY <1>0, <1>16, <2>1 DEF DiskTypeOK
    <3>3. Append(written, LastId(data_to_write)) \in Seq(Nat)
      BY SMT, <3>2
    <3> QED BY <3>1, <3>2, <3>3
  <2>5. wal' = [wal EXCEPT ![file_id].ids = @ \o data_to_write] /\ io_errors' = io_errors
    BY <1>17 DEF WriteOk
  <2>6. DiskTypeOK'
    BY <1>0, <2>3, <2>4, <2>5 DEF DiskTypeOK
  <2> QED BY <1>13, <1>17, <2>2, <2>6 DEF WriteOk
<1>18. CASE SyncOk
  <2>1. flush # "idle"
    BY <1>18 DEF SyncOk
  <2>2. FlushTypeOK'
    BY <1>0, <1>18 DEF SyncOk, WriterUnchanged, FlushTypeOK, Acknowledge, FlushEnds
  <2>3. Len(wal[file_id].ids) \in Nat
    BY <1>16, <2>1, LenProperties
  <2>4. written' \in Seq(Nat)
    BY SMT, <1>0, <1>16, <1>18, <2>1 DEF SyncOk, Acknowledge, DiskTypeOK
  <2>5. /\ wal' = [wal EXCEPT ![file_id].synced = Len(wal[file_id].ids)]
        /\ io_errors' = io_errors
    BY <1>18 DEF SyncOk
  <2>6. DiskTypeOK'
    BY <1>0, <2>3, <2>4, <2>5 DEF DiskTypeOK
  <2> QED BY <1>13, <1>18, <2>2, <2>6 DEF SyncOk
<1>19. ASSUME flush # "idle", FailAttempt PROVE FlushTypeOK'
  <2>1. data_to_write \o buffer \in Seq(Nat)
    BY <1>0, ConcatProperties DEF FlushTypeOK
  <2>2. /\ buffer' = buffer \/ buffer' = data_to_write \o buffer
        /\ data_to_write' = data_to_write /\ final' = final
        /\ attempt' = attempt \/ attempt' = attempt + 1
        /\ flush' \in {"write", "idle"}
        /\ task' = task \/ task' \in {"running", "ended"}
        /\ current_size' = current_size /\ shutdown' = shutdown
    BY <1>19 DEF FailAttempt, FlushEnds, WriterUnchanged
  <2>3. buffer' \in Seq(Nat) /\ data_to_write' \in Seq(Nat)
    BY <1>0, <2>1, <2>2 DEF FlushTypeOK
  <2>4. attempt' \in Nat /\ current_size' \in Nat
    BY SMT, <1>0, <2>2 DEF FlushTypeOK
  <2>5. task' \in {"running", "ended"} /\ flush' \in {"idle", "write", "sync"}
    BY <1>0, <2>2 DEF FlushTypeOK
  <2>6. shutdown' \in BOOLEAN /\ final' \in BOOLEAN
    BY <1>0, <2>2 DEF FlushTypeOK
  <2> QED BY <2>3, <2>4, <2>5, <2>6 DEF FlushTypeOK
<1>20. CASE WriteFails
  <2>1. flush # "idle" /\ FailAttempt
    BY <1>20 DEF WriteFails
  <2>2. PICK n \in 0..Len(data_to_write) - 1, torn \in {<<>>, <<Torn>>} :
          wal' = [wal EXCEPT ![file_id].ids = @ \o SubSeq(data_to_write, 1, n) \o torn]
    BY <1>20 DEF WriteFails
  <2> DEFINE part == SubSeq(data_to_write, 1, n)
  <2>3. torn \in Seq(Nat \cup {Torn})
    <3>1. <<Torn>> \in Seq(Nat \cup {Torn}) /\ <<>> \in Seq(Nat \cup {Torn})
      BY SMT, EmptySeq
    <3> QED BY <3>1
  <2>4. part \in Seq(Nat \cup {Torn})
    BY SMT, <1>16, <2>1
  <2> HIDE DEF part
  <2>5. wal[file_id].ids \o part \o torn \in Seq(Nat \cup {Torn})
    BY <1>16, <2>1, <2>3, <2>4, ConcatProperties
  <2> DEFINE longer == wal[file_id].ids \o part \o torn
  <2>6. wal' = [wal EXCEPT ![file_id].ids = longer]
    BY <2>2 DEF part
  <2>9. longer \in Seq(Nat \cup {Torn})
    BY <2>5
  <2> HIDE DEF longer
  <2>7. written' = written /\ io_errors' = io_errors + 1
    BY <2>1 DEF FailAttempt
  <2>8. DiskTypeOK'
    <3>1. file_id \in DOMAIN wal
      BY <1>16, <2>1
    <3>2. DOMAIN wal' = DOMAIN wal
      BY <2>6
    <3>3. wal' \in [DOMAIN wal -> [before : Nat, ids : Seq(Nat \cup {Torn}), synced : Nat]]
      BY <1>0, <2>6, <2>9, <3>1 DEF DiskTypeOK
    <3>4. written' \in Seq(Nat) /\ io_errors' \in Nat
      BY SMT, <1>0, <2>7 DEF DiskTypeOK
    <3> QED BY <1>0, <3>2, <3>3, <3>4 DEF DiskTypeOK
  <2> QED BY <1>13, <1>19, <2>1, <2>8 DEF FailAttempt
<1>21. CASE SyncFails
  <2>1. flush # "idle" /\ FailAttempt
    BY <1>21 DEF SyncFails
  <2>2. DiskTypeOK'
    BY SMT, <1>0, <1>21, <2>1 DEF SyncFails, FailAttempt, DiskTypeOK
  <2> QED BY <1>13, <1>19, <2>1, <2>2 DEF FailAttempt
<1>22. CASE UNCHANGED walVars
  BY <1>0, <1>22, TypeUnchanged DEF walVars
<1> HIDE DEF WalTypeOK
<1> QED BY <1>1, <1>2, <1>3, <1>4, <1>5, <1>6, <1>7, <1>9, <1>10, <1>11, <1>12, <1>14,
           <1>15, <1>17, <1>18, <1>20, <1>21, <1>22
        DEF WalNext, Producers, WriterTask, FlushTask

-----------------------------------------------------------------------------
(* An id names one entry                                                    *)

\* Entries only move downstream, except that Assign adds new ids.
LEMMA NamesStep ==
  ASSUME WriterInv, [WalNext]_walVars
  PROVE  IdsName'
<1>0. /\ ProducerTypeOK /\ OrderTypeOK /\ IdsName /\ WalTypeOK'
      /\ \A e \in Entry : e.id \in Nat
  BY TypeStep DEF WriterInv, WalTypeOK, Entry
<1>1. ASSUME Upstream' \subseteq Upstream, assigned' = assigned PROVE IdsName'
  BY <1>0, <1>1 DEF IdsName
<1>2. ASSUME UNCHANGED <<unsent, write_chan, req, pending, assigned>>, todo' \subseteq todo
      PROVE  IdsName'
  <2>1. Upstream' \subseteq Upstream
    BY <1>2 DEF Upstream
  <2> QED BY <1>1, <1>2, <2>1
<1>3. ASSUME NEW n \in 1..MaxBatch, NEW lens \in [1..n -> DataLens], Assign(lens)
      PROVE  IdsName'
  <2> DEFINE batch == [i \in 1..Len(lens) |-> [id |-> assigned + i, len |-> lens[i]]]
  <2>1. Len(lens) = n /\ n \in Nat \ {0} /\ assigned \in Int
    BY SMT, <1>0, SeqDef, WalAssumption DEF ProducerTypeOK, None
  <2>2. /\ \A e \in Range(batch) : \E i \in 1..n : e = [id |-> assigned + i, len |-> lens[i]]
        /\ \A d, e \in Range(batch) : d.id = e.id => d = e
        /\ \A e \in Range(batch) : e.id > assigned /\ e.id <= assigned + n
    <3>1. \A e \in Range(batch) : \E i \in 1..n : e = [id |-> assigned + i, len |-> lens[i]]
      BY <2>1 DEF Range
    <3>2. \A e \in Range(batch) : e.id > assigned /\ e.id <= assigned + n
      BY SMT, <2>1, <3>1
    <3>3. ASSUME NEW d \in Range(batch), NEW e \in Range(batch), d.id = e.id PROVE d = e
      <4>1. PICK i \in 1..n : d = [id |-> assigned + i, len |-> lens[i]]
        BY <3>1
      <4>2. PICK j \in 1..n : e = [id |-> assigned + j, len |-> lens[j]]
        BY <3>1
      <4>3. i = j
        BY SMT, <2>1, <3>3, <4>1, <4>2
      <4> QED BY <4>1, <4>2, <4>3
    <3> QED BY <3>1, <3>2, <3>3
  <2> HIDE DEF batch
  <2>3. /\ unsent' = unsent \cup {batch} /\ assigned' = assigned + n
        /\ UNCHANGED <<write_chan, req, pending, todo>>
    BY <1>3, <2>1 DEF Assign, orderVars, batch
  <2>4. Upstream' \subseteq Upstream \cup Range(batch)
    BY <2>3 DEF Upstream
  <2>5. \A e \in Upstream : e.id <= assigned /\ e.id \in Nat
    BY <1>0 DEF IdsName, Upstream
  <2>6. \A e \in Upstream' : e.id \in Nat
    BY <1>0 DEF Upstream
  <2>7. ASSUME NEW e \in Upstream' PROVE e.id <= assigned'
    BY SMT, <2>1, <2>2, <2>3, <2>4, <2>5, <2>6
  <2>8. ASSUME NEW d \in Upstream', NEW e \in Upstream', d.id = e.id PROVE d = e
    <3>1. CASE d \in Upstream /\ e \in Upstream
      BY <1>0, <2>8, <3>1 DEF IdsName
    <3>2. CASE d \in Range(batch) /\ e \in Range(batch)
      BY <2>2, <2>8, <3>2
    <3>3. CASE d \in Upstream /\ e \in Range(batch)
      BY SMT, <2>1, <2>2, <2>5, <2>6, <2>8, <3>3
    <3>4. CASE d \in Range(batch) /\ e \in Upstream
      BY SMT, <2>1, <2>2, <2>5, <2>6, <2>8, <3>4
    <3> QED BY <2>4, <3>1, <3>2, <3>3, <3>4
  <2> QED BY <2>7, <2>8 DEF IdsName
<1>4. ASSUME NEW batch \in unsent, Send(batch) PROVE IdsName'
  <2>1. /\ unsent' \subseteq unsent /\ assigned' = assigned
        /\ UNCHANGED <<req, pending, todo>>
        /\ write_chan' = write_chan \/ write_chan' = Append(write_chan, batch)
    BY <1>4 DEF Send
  <2>2. \A n \in 1..Len(write_chan') :
          \/ write_chan'[n] = batch
          \/ n \in 1..Len(write_chan) /\ write_chan'[n] = write_chan[n]
    <3>1. write_chan \in Seq(Seq(Entry)) /\ batch \in Seq(Entry)
      BY <1>0 DEF OrderTypeOK, ProducerTypeOK
    <3>2. CASE write_chan' = write_chan
      BY <3>2
    <3>3. CASE write_chan' = Append(write_chan, batch)
      BY SMT, <3>1, <3>3
    <3> QED BY <2>1, <3>2, <3>3
  <2>3. Upstream' \subseteq Upstream
    BY <2>1, <2>2 DEF Upstream
  <2> QED BY <1>1, <2>1, <2>3
<1>5. CASE Receive
  <2>1. /\ req' = Head(write_chan) /\ write_chan' = Tail(write_chan)
        /\ UNCHANGED <<assigned, unsent, pending, todo>> /\ write_chan # <<>>
    BY <1>5 DEF Receive, producerVars
  <2>2. /\ 1 \in 1..Len(write_chan) /\ req' = write_chan[1]
        /\ \A n \in 1..Len(write_chan') : n + 1 \in 1..Len(write_chan) /\ write_chan'[n] = write_chan[n + 1]
    BY SMT, <1>0, <2>1 DEF OrderTypeOK
  <2>3. Upstream' \subseteq Upstream
    BY <2>1, <2>2 DEF Upstream
  <2> QED BY <1>1, <2>1, <2>3
<1>6. CASE Order
  <2>1. /\ req' = Tail(req) /\ req # <<>>
        /\ pending' \cup todo' \subseteq pending \cup {Head(req)}
        /\ UNCHANGED <<assigned, unsent, write_chan>>
    BY <1>6, OrderFacts DEF Order, producerVars
  <2>2. Head(req) \in Range(req) /\ Range(req') \subseteq Range(req)
    BY SMT, <1>0, <2>1, HeadTailProperties DEF OrderTypeOK, Range
  <2>3. Upstream' \subseteq Upstream
    BY <2>1, <2>2 DEF Upstream
  <2> QED BY <1>1, <2>1, <2>3
<1>7. CASE OpenFails
  <2>1. /\ req' = <<>> /\ todo' = {}
        /\ UNCHANGED <<assigned, unsent, write_chan, pending>>
    BY <1>7 DEF OpenFails, producerVars
  <2>2. Range(req') = {}
    BY SMT, <2>1 DEF Range
  <2>3. Upstream' \subseteq Upstream
    BY <2>1, <2>2 DEF Upstream
  <2> QED BY <1>1, <2>1, <2>3
<1>8. CASE AppendEntry
  BY <1>2, <1>8 DEF AppendEntry, producerVars, orderVars
<1>9. CASE Close \/ Rotate \/ Open \/ HandleClose \/ Closed
  BY <1>2, <1>9 DEF Close, Rotate, Open, HandleClose, Closed, producerVars, orderVars
<1>10. CASE FlushTask \/ UNCHANGED walVars
  BY <1>2, <1>10 DEF FlushTask, FlushTake, FlushNothing, WriteOk, SyncOk, WriteFails,
     SyncFails, FailAttempt, WriterUnchanged, walVars, producerVars, orderVars
<1> QED BY <1>3, <1>4, <1>5, <1>6, <1>7, <1>8, <1>9, <1>10
        DEF WalNext, Producers, WriterTask

-----------------------------------------------------------------------------
(* The tasks' handshake                                                     *)

\* The writer and the flush task never act on a file at the same time as its
\* successor is opened, whatever fails.
LEMMA HandshakeStep ==
  ASSUME WriterInv, [WalNext]_walVars
  PROVE  Handshake'
<1>0. Handshake /\ FileTypeOK /\ FlushTypeOK
  BY DEF WriterInv, WalTypeOK
<1>1. ASSUME UNCHANGED <<task, file_id, flush, data_to_write, wal, wal_complete>>,
             writer' \in {"append", "rotate"} => todo' # {},
             writer' \in {"close", "closed"} => todo' = {},
             writer' = "closed" => task = "ended"
      PROVE  Handshake'
  BY <1>0, <1>1 DEF Handshake
<1>2. CASE Producers \/ Close \/ Receive
  BY <1>0, <1>1, <1>2 DEF Producers, Assign, Send, Close, Receive, Handshake, fileVars, flushVars
<1>3. CASE Order \/ AppendEntry
  BY <1>0, <1>1, <1>3 DEF Order, AppendEntry, Handshake, fileVars, flushVars
<1>4. CASE Rotate \/ HandleClose \/ Closed
  BY <1>0, <1>1, <1>4 DEF Rotate, HandleClose, Closed, Handshake, fileVars, flushVars
<1>5. ASSUME Advance
      PROVE  /\ \A n \in 1..Len(wal_complete') : wal_complete'[n] < file_id'
             /\ flush = "idle" /\ todo # {}
  <2>1. /\ wal_complete' = Append(wal_complete, file_id) /\ file_id' = file_id + 1
        /\ writer = "rotate" /\ task = "ended"
    BY <1>5 DEF Advance, increment
  <2>2. wal_complete \in Seq(Nat) /\ file_id \in Nat
    BY <1>0 DEF FileTypeOK
  <2>3. \A n \in 1..Len(wal_complete) : wal_complete[n] < file_id /\ wal_complete[n] \in Nat
    BY SMT, <1>0, <2>2 DEF Handshake
  <2>4. ASSUME NEW n \in 1..Len(wal_complete') PROVE wal_complete'[n] < file_id'
    BY SMT, <2>1, <2>2, <2>3
  <2> QED BY <1>0, <2>1, <2>4 DEF Handshake
<1>6. CASE Open
  BY <1>0, <1>5, <1>6 DEF Open, Handshake, flushVars
<1>7. CASE OpenFails
  <2>1. task' = "ended" /\ flush' = flush /\ writer' = "recv"
    BY <1>7 DEF OpenFails, Advance, flushVars
  <2> QED BY <1>0, <1>5, <1>7, <2>1 DEF OpenFails, Handshake, flushVars
<1>8. CASE FlushTake
  <2>1. /\ task' = task /\ task = "running" /\ data_to_write' = buffer /\ buffer # <<>>
        /\ UNCHANGED <<file_id, wal, wal_complete, writer, todo>>
    BY <1>8 DEF FlushTake, WriterUnchanged, fileVars
  <2> QED BY <1>0, <2>1 DEF Handshake
<1>9. CASE FlushNothing
  <2>1. /\ task' = "ended" /\ flush' = flush /\ flush = "idle"
        /\ UNCHANGED <<file_id, wal, wal_complete, writer, todo>>
    BY <1>9 DEF FlushNothing, WriterUnchanged, fileVars, flushVars
  <2> QED BY <1>0, <2>1 DEF Handshake
<1>10. CASE WriteOk \/ SyncOk \/ WriteFails \/ SyncFails
  <2>1. flush # "idle" /\ data_to_write' = data_to_write /\ DOMAIN wal' = DOMAIN wal
    BY <1>10 DEF WriteOk, SyncOk, WriteFails, SyncFails, FailAttempt
  <2>2. UNCHANGED <<file_id, wal_complete, writer, todo>>
    BY <1>10 DEF WriteOk, SyncOk, WriteFails, SyncFails, FailAttempt, WriterUnchanged, fileVars
  <2>3. flush' = "idle" \/ task' = task
    BY <1>10 DEF WriteOk, SyncOk, WriteFails, SyncFails, FailAttempt, Acknowledge
  <2>4. task = "running" /\ file_id \in DOMAIN wal /\ data_to_write # <<>>
    BY <1>0, <2>1 DEF Handshake
  <2> QED BY <1>0, <2>1, <2>2, <2>3, <2>4 DEF Handshake
<1>11. CASE UNCHANGED walVars
  BY <1>0, <1>1, <1>11 DEF walVars, Handshake, fileVars, flushVars
<1> QED BY <1>2, <1>3, <1>4, <1>6, <1>7, <1>8, <1>9, <1>10, <1>11
        DEF WalNext, WriterTask, FlushTask

\* While no call has failed, the step is none of the failing ones.
LEMMA HealthyStep ==
  ASSUME WriterInv, [WalNext]_walVars, io_errors' = 0
  PROVE  io_errors = 0 /\ ~OpenFails /\ ~WriteFails /\ ~SyncFails
<1>1. io_errors \in Nat
  BY DEF WriterInv, WalTypeOK, DiskTypeOK
<1>2. ASSUME OpenFails \/ WriteFails \/ SyncFails PROVE FALSE
  BY SMTT(20), <1>1, <1>2 DEF OpenFails, WriteFails, SyncFails, FailAttempt
<1>3. ASSUME Producers \/ Close PROVE io_errors' = io_errors
  BY <1>3 DEF Producers, Assign, Send, Close
<1>4. ASSUME Receive \/ Order \/ AppendEntry \/ Rotate \/ Open \/ HandleClose \/ Closed PROVE io_errors' = io_errors
  BY <1>4 DEF Receive, Order, AppendEntry, Rotate, Open, HandleClose, Closed
<1>5. ASSUME FlushTake \/ FlushNothing \/ WriteOk \/ SyncOk PROVE io_errors' = io_errors
  BY <1>5 DEF FlushTake, FlushNothing, WriteOk, SyncOk
<1>6. ASSUME UNCHANGED walVars PROVE io_errors' = io_errors
  BY <1>6 DEF walVars
<1> QED BY <1>2, <1>3, <1>4, <1>5, <1>6 DEF WalNext, WriterTask, FlushTask

\* The flush task has nothing left when it ends, as long as every file is opened
\* and no flush runs out of attempts.
LEMMA CleanHandshakeStep ==
  ASSUME WriterInv, CleanHandshake, [WalNext]_walVars, ~OpenFails,
         WriteFails \/ SyncFails => attempt < MAX_RETRIES
  PROVE  CleanHandshake'
<1>0. CleanHandshake /\ Handshake /\ ~OpenFails
  BY DEF WriterInv
<1>1. CASE Producers \/ Close \/ Receive \/ Order
  <2>1. UNCHANGED <<shutdown, writer, task, flush, buffer, final>>
    <3>1. CASE Producers
      BY <3>1 DEF Producers, Assign, Send, flushVars, bufferVars
    <3>2. CASE Close
      BY <3>2 DEF Close, flushVars, bufferVars
    <3>3. CASE Receive
      BY <3>3 DEF Receive, flushVars, bufferVars
    <3>4. CASE Order
      BY <3>4 DEF Order, flushVars, bufferVars
    <3> QED BY <1>1, <3>1, <3>2, <3>3, <3>4
  <2> QED BY <1>0, <2>1 DEF CleanHandshake
<1>2. CASE AppendEntry
  <2>1. /\ writer' = "recv" /\ writer \in {"recv", "append"}
        /\ UNCHANGED <<shutdown, task, flush, final>>
    BY <1>2 DEF AppendEntry, flushVars
  <2> QED BY <1>0, <2>1 DEF CleanHandshake
<1>3. CASE Rotate \/ HandleClose \/ Closed
  BY SMT, <1>0, <1>3 DEF Rotate, HandleClose, Closed, CleanHandshake, fileVars, flushVars, bufferVars
<1>4. CASE Open
  <2>1. /\ writer' = "append" /\ shutdown' = FALSE /\ task' = "running" /\ flush' = flush
        /\ task = "ended"
    BY <1>4 DEF Open, Advance, flushVars
  <2> QED BY <1>0, <2>1 DEF CleanHandshake
<1>5. CASE FlushTake
  <2>1. /\ task = "running" /\ buffer' = <<>> /\ final' = shutdown
        /\ UNCHANGED <<shutdown, writer, task>>
    BY <1>5 DEF FlushTake, WriterUnchanged
  <2> QED BY <1>0, <2>1 DEF CleanHandshake
<1>6. CASE FlushNothing
  <2>1. /\ buffer = <<>> /\ shutdown /\ flush = "idle"
        /\ UNCHANGED <<shutdown, writer, flush, buffer, final>>
    BY <1>6 DEF FlushNothing, WriterUnchanged, flushVars
  <2> QED BY <1>0, <2>1 DEF CleanHandshake
<1>7. CASE WriteOk \/ SyncOk
  <2>1. /\ flush # "idle" /\ UNCHANGED <<shutdown, writer, buffer, final>>
        /\ (flush' # "idle" /\ task' = task)
             \/ (flush' = "idle" /\ task' = IF final THEN "ended" ELSE "running")
    BY <1>7 DEF WriteOk, SyncOk, Acknowledge, FlushEnds, WriterUnchanged
  <2> QED BY <1>0, <2>1 DEF CleanHandshake, Handshake
<1>8. CASE WriteFails \/ SyncFails
  <2>1. flush # "idle" /\ flush' = "write" /\ UNCHANGED <<shutdown, writer, buffer, final, task>>
    BY <1>8 DEF WriteFails, SyncFails, FailAttempt, WriterUnchanged
  <2> QED BY <1>0, <2>1 DEF CleanHandshake
<1>9. CASE UNCHANGED walVars
  BY <1>0, <1>9 DEF walVars, CleanHandshake, fileVars, flushVars, bufferVars
<1> QED BY <1>0, <1>1, <1>2, <1>3, <1>4, <1>5, <1>6, <1>7, <1>8, <1>9
        DEF WalNext, WriterTask, FlushTask

-----------------------------------------------------------------------------
(* The pipeline                                                             *)

\* The types of what the pipeline is described with.
LEMMA PipelineTypes ==
  ASSUME WalTypeOK, file_id \in DOMAIN wal
  PROVE  /\ Cur \in [before : Nat, ids : Seq(Nat \cup {Torn}), synced : Nat]
         /\ Cur.ids \in Seq(Nat \cup {Torn}) /\ Len(Cur.ids) \in Nat /\ Cur.synced \in Nat
         /\ Blk \in Seq(Nat) /\ Len(Blk) \in Nat
         /\ buffer \in Seq(Nat) /\ Len(buffer) \in Nat
         /\ before \in Nat /\ file_id \in Nat /\ last_written_id \in Int /\ assigned \in Int
         /\ FileEnd \in Nat /\ BlkEnd \in Nat /\ BufferEnd \in Nat /\ DurableEnd \in Nat
<1>1. Cur \in [before : Nat, ids : Seq(Nat \cup {Torn}), synced : Nat]
  BY DEF WalTypeOK, DiskTypeOK, Cur
<1>2. Cur.ids \in Seq(Nat \cup {Torn}) /\ Cur.synced \in Nat
  BY <1>1
<1>3. Len(Cur.ids) \in Nat
  BY <1>2, LenProperties
<1>4. Blk \in Seq(Nat) /\ buffer \in Seq(Nat)
  BY EmptySeq DEF WalTypeOK, FlushTypeOK, Blk
<1>5. Len(Blk) \in Nat /\ Len(buffer) \in Nat
  BY <1>4, LenProperties
<1>6. before \in Nat /\ file_id \in Nat /\ last_written_id \in Int /\ assigned \in Int
  BY SMT DEF WalTypeOK, ProducerTypeOK, FileTypeOK, OrderTypeOK, None
<1>7. FileEnd \in Nat
  BY SMT, <1>3, <1>6 DEF FileEnd
<1>8. BlkEnd \in Nat
  BY SMT, <1>5, <1>7 DEF BlkEnd
<1>9. BufferEnd \in Nat
  BY SMT, <1>5, <1>8 DEF BufferEnd
<1>10. DurableEnd \in Nat
  BY SMT, <1>2, <1>3, <1>6 DEF DurableEnd
<1> QED BY <1>1, <1>2, <1>3, <1>4, <1>5, <1>6, <1>7, <1>8, <1>9, <1>10

\* The places of a channel, shifted by the batch that Receive takes off its head.
LEMMA Shifted ==
  \A n \in Nat : \A k \in 1..n - 1 : k + 1 \in 1..n /\ \A j \in 1..n - 1 : j # k => j + 1 # k + 1
BY SMT

\* Successors keep their order (the bounds of the next entry in AppendEntry).
LEMMA SuccMonotone == \A a, b \in Int : a <= b => a + 1 <= b + 1
BY SMT

\* The next entry of "todo" continues the buffer.
LEMMA Next1Continues ==
  ASSUME WriterInv, Pipeline, todo # {}
  PROVE  /\ Next1 \in todo /\ Next1.id = BufferEnd
         /\ IdsIn(todo \ {Next1}) = BufferEnd + 1..last_written_id
         /\ BufferEnd <= last_written_id
<1>1. todo \subseteq Entry /\ BufferEnd \in Nat /\ last_written_id \in Int
  BY PipelineTypes DEF WriterInv, WalTypeOK, OrderTypeOK, Pipeline
<1>2. Next1 \in todo /\ \A d \in todo : Next1.id <= d.id
  BY <1>1, Next1Facts
<1>3. IdsIn(todo) = BufferEnd..last_written_id
  BY DEF Pipeline
<1>4. Next1.id \in BufferEnd..last_written_id
  BY <1>2, <1>3 DEF IdsIn
<1>5. BufferEnd \in IdsIn(todo)
  BY SMT, <1>1, <1>3, <1>4
<1>6. Next1.id = BufferEnd
  <2>1. PICK d \in todo : d.id = BufferEnd
    BY <1>5 DEF IdsIn
  <2> QED BY SMT, <1>1, <1>2, <1>4, <2>1
<1>7. \A d \in todo : d.id = Next1.id => d = Next1
  <2>1. todo \subseteq Upstream
    BY <1>1 DEF Upstream
  <2> QED BY <1>2, <2>1 DEF WriterInv, IdsName
<1>8. IdsIn(todo \ {Next1}) = IdsIn(todo) \ {BufferEnd}
  BY <1>6, <1>7 DEF IdsIn
<1>9. (BufferEnd..last_written_id) \ {BufferEnd} = BufferEnd + 1..last_written_id
  BY SMT, <1>1, <1>4
<1>10. BufferEnd <= last_written_id
  BY SMT, <1>1, <1>4
<1>11. IdsIn(todo \ {Next1}) = BufferEnd + 1..last_written_id
  BY <1>3, <1>8, <1>9, Zenon
<1> QED BY <1>2, <1>6, <1>10, <1>11, Zenon

\* A step of the writer task that stays within the current file.
LEMMA PipelineWriter ==
  ASSUME WriterInv, Pipeline, Synced, Order \/ AppendEntry
  PROVE  Pipeline' /\ Synced'
<1>0. file_id \in DOMAIN wal /\ WalTypeOK
  BY DEF Pipeline, WriterInv
<1>1. /\ buffer \in Seq(Nat) /\ Len(buffer) \in Nat /\ last_written_id \in Int
      /\ FileEnd \in Nat /\ BlkEnd \in Nat /\ BufferEnd \in Nat /\ before \in Nat
      /\ Len(Cur.ids) \in Nat /\ Len(Blk) \in Nat
  BY <1>0, PipelineTypes
<1>2. UNCHANGED <<file_id, before, flush, data_to_write, wal, written, assigned>>
  BY DEF Order, AppendEntry, fileVars, flushVars, producerVars
<1>3. /\ Cur' = Cur /\ Blk' = Blk /\ FileEnd' = FileEnd /\ BlkEnd' = BlkEnd
      /\ DurableEnd' = DurableEnd
  BY <1>2 DEF Cur, Blk, FileEnd, BlkEnd, DurableEnd
<1>4. Synced'
  BY <1>2, <1>3 DEF Synced, AcksAscend
<1>5. CASE Order
  <2>1. todo = {} /\ buffer' = buffer
    BY <1>5 DEF Order, bufferVars
  <2>2. BufferEnd' = BufferEnd
    BY <1>3, <2>1 DEF BufferEnd
  <2>3. BufferEnd = last_written_id + 1
    <3>1. BufferEnd..last_written_id = {} /\ BufferEnd <= last_written_id + 1
      BY <2>1 DEF Pipeline, IdsIn
    <3> QED BY SMT, <1>1, <3>1
  <2>4. /\ IdsIn(todo') = last_written_id + 1..last_written_id'
        /\ last_written_id <= last_written_id' /\ last_written_id' \in Int
    BY SMT, <1>5, OrderFacts DEF None
  <2>5. /\ last_written_id <= last_written_id'
        /\ last_written_id \in Int /\ last_written_id' \in Int
    BY <1>1, <2>4
  <2>6. BufferEnd' <= last_written_id' + 1
    <3>1. last_written_id + 1 <= last_written_id' + 1
      BY <2>5, SuccMonotone, Zenon
    <3> QED BY <2>2, <2>3, <3>1, Zenon
  <2>7. last_written_id' <= assigned'
    BY <1>2, <1>5, OrderFacts DEF Pipeline
  <2>8. has_written' = has_written /\ writer' = writer
    BY <1>5 DEF Order, fileVars
  <2> QED BY <1>2, <1>3, <1>4, <2>1, <2>2, <2>3, <2>4, <2>6, <2>7, <2>8 DEF Pipeline
<1>6. CASE AppendEntry
  <2>1. /\ todo # {} /\ buffer' = Append(buffer, Next1.id) /\ todo' = todo \ {Next1}
        /\ last_written_id' = last_written_id
    BY <1>6 DEF AppendEntry, orderVars
  <2>2. /\ Next1.id = BufferEnd /\ IdsIn(todo') = BufferEnd + 1..last_written_id
        /\ BufferEnd <= last_written_id
    BY <2>1, Next1Continues
  <2>3. Len(buffer') = Len(buffer) + 1 /\ BufferEnd' = BufferEnd + 1
    BY SMT, <1>1, <1>3, <2>1, <2>2 DEF BufferEnd
  <2>4. ASSUME NEW i \in 1..Len(buffer') PROVE buffer'[i] = BlkEnd + i - 1
    <3>1. CASE i <= Len(buffer)
      BY SMT, <1>1, <2>1, <2>2, <2>3, <3>1 DEF Pipeline
    <3>2. CASE i = Len(buffer) + 1
      BY SMT, <1>1, <2>1, <2>2, <3>2 DEF BufferEnd
    <3> QED BY SMT, <1>1, <2>3, <3>1, <3>2
  <2>5. BufferEnd' <= last_written_id' + 1
    BY SMT, <1>1, <2>1, <2>2, <2>3
  <2>6. BufferEnd' > before' /\ writer' # "rotate"
    <3>1. BufferEnd >= before
      BY SMT, <1>1 DEF BufferEnd, BlkEnd, FileEnd
    <3> QED BY SMT, <1>1, <1>2, <1>6, <2>3, <3>1 DEF AppendEntry
  <2> QED BY <1>2, <1>3, <1>4, <2>1, <2>2, <2>3, <2>4, <2>5, <2>6 DEF Pipeline
<1> QED BY <1>5, <1>6

\* The flush task takes the buffer: the block continues the file.
LEMMA PipelineTake ==
  ASSUME WriterInv, Pipeline, Synced, FlushTake
  PROVE  Pipeline' /\ Synced'
<1>0. file_id \in DOMAIN wal /\ WalTypeOK
  BY DEF Pipeline, WriterInv
<1>1. /\ buffer \in Seq(Nat) /\ Len(buffer) \in Nat
      /\ FileEnd \in Nat /\ BlkEnd \in Nat /\ BufferEnd \in Nat
  BY <1>0, PipelineTypes
<1>2. /\ UNCHANGED <<file_id, before, wal, written, todo, last_written_id, assigned,
                      has_written, writer>>
      /\ flush = "idle" /\ flush' = "write" /\ data_to_write' = buffer /\ buffer' = <<>>
  BY DEF FlushTake, WriterUnchanged, fileVars, orderVars, producerVars
<1>3. Cur' = Cur /\ FileEnd' = FileEnd /\ DurableEnd' = DurableEnd
  BY <1>2 DEF Cur, FileEnd, DurableEnd
<1>4. Blk = <<>> /\ Blk' = buffer
  BY <1>2 DEF Blk
<1>5. BlkEnd = FileEnd /\ BlkEnd' = BufferEnd /\ BufferEnd' = BufferEnd
  BY SMT, <1>1, <1>2, <1>3, <1>4 DEF BlkEnd, BufferEnd
<1>6. Synced'
  BY <1>2, <1>3 DEF Synced, AcksAscend
<1>7. /\ \A i \in 1..Len(Blk') : Blk'[i] = FileEnd' + i - 1
      /\ \A i \in 1..Len(buffer') : buffer'[i] = BlkEnd' + i - 1
  BY SMT, <1>2, <1>3, <1>4, <1>5 DEF Pipeline
<1> QED BY <1>2, <1>3, <1>5, <1>6, <1>7 DEF Pipeline

\* rotate() has waited for the last flush: the new file starts where the old
\* one ends.
LEMMA PipelineOpen ==
  ASSUME WriterInv, CleanHandshake, Pipeline, Synced, Open
  PROVE  Pipeline' /\ Synced'
<1>0. file_id \in DOMAIN wal /\ WalTypeOK
  BY DEF Pipeline, WriterInv
<1>1. /\ before \in Nat /\ file_id \in Nat /\ Len(Cur.ids) \in Nat
      /\ FileEnd \in Nat /\ BlkEnd \in Nat /\ BufferEnd \in Nat /\ DurableEnd \in Nat
  BY <1>0, PipelineTypes
<1>2. /\ flush = "idle" /\ buffer = <<>> /\ todo # {}
  BY DEF Open, Advance, CleanHandshake, WriterInv, Handshake
<1>3. Blk = <<>> /\ BlkEnd = FileEnd /\ BufferEnd = FileEnd
  BY SMT, <1>1, <1>2 DEF Blk, BlkEnd, BufferEnd
<1>4. /\ file_id' = file_id + 1 /\ before' = Next1.id /\ buffer' = <<>>
      /\ UNCHANGED <<flush, data_to_write, todo, last_written_id, written, assigned>>
      /\ has_written' = FALSE /\ writer' = "append"
  BY <1>1 DEF Open, Advance, increment, flushVars, orderVars, producerVars
<1>5. before' = FileEnd
  BY <1>2, <1>3, <1>4, Next1Continues
<1>6. file_id + 1 \in DOMAIN wal' /\ wal'[file_id + 1] = NewFile(FileEnd)
  BY <1>4, <1>5 DEF Open
<1>9. /\ Cur' = NewFile(FileEnd) /\ Cur'.ids = <<>> /\ Cur'.synced = 0
      /\ Cur'.before = FileEnd
  BY SMT, <1>4, <1>6 DEF Cur, NewFile
<1>10. Len(Cur'.ids) = 0 /\ FileEnd' = FileEnd /\ DurableEnd' = FileEnd
  <2>1. Len(Cur'.ids) = 0 /\ before' + 0 = FileEnd
    BY SMT, <1>1, <1>5, <1>9
  <2>2. FileEnd' = before' + Len(Cur'.ids)
    BY DEF FileEnd
  <2>3. DurableEnd' = before' + IF Fsync THEN Cur'.synced ELSE Len(Cur'.ids)
    BY DEF DurableEnd
  <2> QED BY <1>9, <2>1, <2>2, <2>3
<1>11. Blk' = <<>> /\ BlkEnd' = FileEnd /\ BufferEnd' = FileEnd
  BY SMT, <1>1, <1>2, <1>4, <1>10 DEF Blk, BlkEnd, BufferEnd
<1>13. /\ IdsIn(todo') = BufferEnd'..last_written_id' /\ BufferEnd' <= last_written_id' + 1
       /\ last_written_id' <= assigned'
  BY <1>3, <1>4, <1>11 DEF Pipeline
<1>14. Pipeline'
  <2>1. file_id' \in DOMAIN wal' /\ Cur'.before = before'
    BY <1>4, <1>5, <1>6, <1>9
  <2>2. /\ \A i \in 1..Len(Blk') : Blk'[i] = FileEnd' + i - 1
        /\ \A i \in 1..Len(buffer') : buffer'[i] = BlkEnd' + i - 1
    BY SMT, <1>4, <1>11
  <2>3. \A i \in 1..Len(Cur'.ids) : Cur'.ids[i] = before' + i - 1
    BY SMT, <1>10
  <2> QED BY <1>4, <1>13, <2>1, <2>2, <2>3 DEF Pipeline
<1>15. DurableEnd = FileEnd
  BY <1>1, <1>2 DEF Synced, DurableEnd, FileEnd
<1>17. Synced'
  <2>1. /\ Cur'.synced <= Len(Cur'.ids) /\ flush' # "sync"
        /\ Fsync => Cur'.synced = Len(Cur'.ids)
    BY SMT, <1>2, <1>4, <1>9, <1>10
  <2>2. /\ AcksAscend'
        /\ \A n \in 1..Len(written') : written'[n] < DurableEnd'
    BY <1>4, <1>10, <1>15 DEF Synced, AcksAscend
  <2> QED BY <2>1, <2>2 DEF Synced
<1> QED BY <1>14, <1>17

\* The last element of a block of consecutive ids.
LEMMA LastOfBlock ==
  ASSUME NEW b \in Seq(Nat), b # <<>>, NEW s \in Nat, \A i \in 1..Len(b) : b[i] = s + i - 1
  PROVE  Len(b) \in Nat /\ Len(b) > 0 /\ LastId(b) = s + Len(b) - 1
<1>1. Len(b) \in Nat /\ Len(b) > 0
  BY SMT, EmptySeq, LenProperties
<1> QED BY SMT, <1>1 DEF LastId

\* An acknowledgement of what has just become durable, the ids up to "end".
LEMMA AckStep ==
  ASSUME WalTypeOK, Synced, NEW end \in Nat, end > DurableEnd, DurableEnd \in Nat,
         written' = Append(written, end - 1)
  PROVE  AcksAscend' /\ \A n \in 1..Len(written') : written'[n] < end
<1>1. written \in Seq(Nat) /\ Len(written) \in Nat
  BY LenProperties DEF WalTypeOK, DiskTypeOK
<1>2. \A n \in 1..Len(written) : written[n] \in Nat /\ written[n] < DurableEnd
  BY SMT, <1>1 DEF Synced
<1>3. /\ Len(written') = Len(written) + 1 /\ written'[Len(written) + 1] = end - 1
      /\ \A n \in 1..Len(written) : written'[n] = written[n]
  BY SMT, <1>1
<1>4. \A n \in 1..Len(written') : n \in 1..Len(written) \/ n = Len(written) + 1
  BY SMT, <1>1, <1>3
<1>5. \A n \in 1..Len(written') : written'[n] < end
  BY SMT, <1>2, <1>3, <1>4
<1>6. ASSUME NEW m \in 1..Len(written'), NEW n \in 1..Len(written'), m < n
      PROVE  written'[m] < written'[n]
  <2>1. CASE n \in 1..Len(written)
    <3>1. m \in 1..Len(written)
      BY SMT, <1>1, <1>6, <2>1
    <3> QED BY <1>3, <1>6, <2>1, <3>1 DEF Synced, AcksAscend
  <2>2. CASE n = Len(written) + 1
    <3>1. m \in 1..Len(written)
      BY SMT, <1>1, <1>3, <1>6, <2>2
    <3> QED BY SMT, <1>2, <1>3, <2>2, <3>1
  <2> QED BY <1>4, <2>1, <2>2
<1> QED BY <1>5, <1>6 DEF AcksAscend

\* The block reaches the file.
LEMMA PipelineWrite ==
  ASSUME WriterInv, Pipeline, Synced, WriteOk
  PROVE  Pipeline' /\ Synced'
<1> DEFINE ids == Cur.ids
           data == data_to_write
<1>0. file_id \in DOMAIN wal /\ WalTypeOK /\ wal[file_id] = Cur
  BY DEF Pipeline, WriterInv, Cur
<1>1. /\ Cur \in [before : Nat, ids : Seq(Nat \cup {Torn}), synced : Nat]
      /\ before \in Nat /\ file_id \in Nat /\ last_written_id \in Int
      /\ FileEnd \in Nat /\ BlkEnd \in Nat /\ BufferEnd \in Nat /\ DurableEnd \in Nat
  BY <1>0, PipelineTypes
<1>2. ids \in Seq(Nat \cup {Torn}) /\ Len(ids) \in Nat /\ Cur.synced \in Nat
  BY <1>0, PipelineTypes
<1>3. /\ flush = "write" /\ UNCHANGED <<file_id, before, buffer, data_to_write, todo, last_written_id>>
      /\ wal' = [wal EXCEPT ![file_id].ids = @ \o data_to_write]
      /\ UNCHANGED <<assigned, has_written, writer>>
  BY DEF WriteOk, WriterUnchanged, fileVars, orderVars, producerVars
<1>4. Blk = data
  BY <1>3 DEF Blk
<1>5. data \in Seq(Nat) /\ data # <<>> /\ \A i \in 1..Len(data) : data[i] = FileEnd + i - 1
  BY <1>3, <1>4, <1>0 DEF Pipeline, WriterInv, Handshake, WalTypeOK, FlushTypeOK
<1>6. Len(data) \in Nat /\ Len(data) > 0 /\ LastId(data) = FileEnd + Len(data) - 1
  BY <1>1, <1>5, LastOfBlock
<1>7. /\ DOMAIN wal' = DOMAIN wal
      /\ \A f \in DOMAIN wal : f # file_id => wal'[f] = wal[f]
      /\ Cur' = [Cur EXCEPT !.ids = ids \o data]
  BY <1>0, <1>3 DEF WalTypeOK, DiskTypeOK, Cur
<1>8. Cur'.ids = ids \o data /\ Cur'.before = Cur.before /\ Cur'.synced = Cur.synced
  BY <1>1, <1>7
<1> HIDE DEF ids, data
<1>9. data \in Seq(Nat \cup {Torn})
  BY <1>5, SeqMonotonic
<1>10. /\ Len(Cur'.ids) = Len(ids) + Len(data)
       /\ \A i \in 1..Len(ids) + Len(data) :
            Cur'.ids[i] = IF i <= Len(ids) THEN ids[i] ELSE data[i - Len(ids)]
  BY SMT, <1>2, <1>8, <1>9, ConcatProperties
<1>11. FileEnd = before + Len(ids) /\ BlkEnd = FileEnd + Len(data)
  BY <1>4 DEF FileEnd, BlkEnd, ids
<1>12. FileEnd' = BlkEnd
  <2>1. FileEnd' = before' + Len(Cur'.ids)
    BY DEF FileEnd
  <2> QED BY SMTT(20), <1>1, <1>2, <1>3, <1>6, <1>10, <1>11, <2>1
<1>13. flush' # "write"
  BY DEF WriteOk, Acknowledge
<1>14. Blk' = <<>> /\ BlkEnd' = BlkEnd /\ BufferEnd' = BufferEnd
  <2>1. Blk' = <<>>
    BY <1>13 DEF Blk
  <2>2. BlkEnd' = FileEnd' + Len(Blk') /\ BufferEnd' = BlkEnd' + Len(buffer')
    BY DEF BlkEnd, BufferEnd
  <2>3. BlkEnd' = BlkEnd
    BY SMT, <1>1, <1>12, <2>1, <2>2
  <2>4. BufferEnd = BlkEnd + Len(buffer)
    BY DEF BufferEnd
  <2> QED BY <1>3, <2>1, <2>2, <2>3, <2>4
<1>15. Cur'.before = before /\ \A i \in 1..Len(Cur'.ids) : Cur'.ids[i] = before + i - 1
  <2>1. Cur.before = before /\ \A i \in 1..Len(ids) : ids[i] = before + i - 1
    BY DEF Pipeline, ids
  <2>2. ASSUME NEW i \in 1..Len(ids) + Len(data) PROVE Cur'.ids[i] = before + i - 1
    <3>1. CASE i <= Len(ids)
      BY SMT, <1>2, <1>10, <2>1, <3>1
    <3>2. CASE i > Len(ids)
      <4>1. i - Len(ids) \in 1..Len(data)
        BY SMT, <1>2, <1>6, <3>2
      <4>2. Cur'.ids[i] = FileEnd + (i - Len(ids)) - 1
        BY SMT, <1>2, <1>5, <1>10, <3>2, <4>1
      <4> QED BY SMT, <1>1, <1>2, <1>11, <4>2
    <3> QED BY SMT, <1>2, <3>1, <3>2
  <2> QED BY <1>8, <1>10, <2>1, <2>2
<1>17. Pipeline'
  <2>1. file_id' \in DOMAIN wal' /\ Cur'.before = before'
    BY <1>0, <1>3, <1>7, <1>15
  <2>2. \A i \in 1..Len(Blk') : Blk'[i] = FileEnd' + i - 1
    BY SMT, <1>14
  <2>3. \A i \in 1..Len(buffer') : buffer'[i] = BlkEnd' + i - 1
    BY <1>3, <1>14 DEF Pipeline
  <2>4. IdsIn(todo') = BufferEnd'..last_written_id' /\ BufferEnd' <= last_written_id' + 1
    BY <1>3, <1>14 DEF Pipeline
  <2> QED BY <1>3, <1>14, <1>15, <2>1, <2>2, <2>3, <2>4 DEF Pipeline
<1>19. CASE Fsync
  <2>1. flush' = "sync" /\ written' = written
    BY <1>19 DEF WriteOk
  <2>2. Cur.synced = Len(ids)
    BY <1>3, <1>19 DEF Synced, ids
  <2>3. DurableEnd' = DurableEnd
    <3>1. DurableEnd' = before' + Cur'.synced /\ DurableEnd = before + Cur.synced
      BY <1>19 DEF DurableEnd
    <3> QED BY <1>3, <1>8, <3>1
  <2>4. Cur'.synced < Len(Cur'.ids)
    BY SMT, <1>2, <1>6, <1>8, <1>10, <2>2
  <2>5. LastId(data_to_write') = FileEnd' - 1
    BY SMTT(20), <1>1, <1>3, <1>6, <1>11, <1>12 DEF data
  <2>8. /\ AcksAscend'
        /\ \A n \in 1..Len(written') : written'[n] < DurableEnd'
    BY <2>1, <2>3 DEF Synced, AcksAscend
  <2>9. Cur'.synced <= Len(Cur'.ids)
    BY SMT, <1>2, <1>6, <1>8, <1>10, <2>2
  <2>10. Synced'
    BY <1>19, <2>1, <2>4, <2>5, <2>8, <2>9 DEF Synced
  <2> QED BY <1>17, <2>10
<1>20. CASE ~Fsync
  <2>1. flush' = "idle" /\ written' = Append(written, LastId(data))
    BY <1>20 DEF WriteOk, Acknowledge, data
  <2>2. DurableEnd = FileEnd /\ DurableEnd' = BlkEnd /\ DurableEnd' = FileEnd'
    <3>1. DurableEnd' = FileEnd' /\ DurableEnd = FileEnd
      BY <1>20 DEF DurableEnd, FileEnd
    <3> QED BY <1>12, <3>1
  <2>3. BlkEnd > DurableEnd /\ LastId(data) = BlkEnd - 1
    BY SMT, <1>1, <1>6, <1>11, <2>2
  <2>4. AcksAscend' /\ \A n \in 1..Len(written') : written'[n] < BlkEnd
    BY <1>0, <1>1, <2>1, <2>3, AckStep
  <2>9. Cur'.synced <= Len(Cur'.ids)
    <3>1. Cur.synced <= Len(ids)
      BY DEF Synced, ids
    <3> QED BY SMT, <1>2, <1>6, <1>8, <1>10, <3>1
  <2>10. Synced'
    BY <1>20, <2>1, <2>2, <2>4, <2>9 DEF Synced
  <2> QED BY <1>17, <2>10
<1> QED BY <1>19, <1>20

\* The fsync covers the whole file.
LEMMA PipelineSync ==
  ASSUME WriterInv, Pipeline, Synced, SyncOk
  PROVE  Pipeline' /\ Synced'
<1> DEFINE ids == Cur.ids
<1>0. file_id \in DOMAIN wal /\ WalTypeOK /\ wal[file_id] = Cur
  BY DEF Pipeline, WriterInv, Cur
<1>1. /\ Cur \in [before : Nat, ids : Seq(Nat \cup {Torn}), synced : Nat]
      /\ before \in Nat /\ Len(ids) \in Nat /\ Cur.synced \in Nat
      /\ FileEnd \in Nat /\ DurableEnd \in Nat
  BY <1>0, PipelineTypes
<1>2. /\ flush = "sync" /\ flush' = "idle" /\ written' = Append(written, LastId(data_to_write))
      /\ UNCHANGED <<file_id, before, buffer, todo, last_written_id, assigned, has_written, writer>>
      /\ wal' = [wal EXCEPT ![file_id].synced = Len(wal[file_id].ids)]
  BY DEF SyncOk, Acknowledge, WriterUnchanged, fileVars, orderVars, producerVars
<1>3. Fsync /\ LastId(data_to_write) = FileEnd - 1 /\ Cur.synced < Len(ids)
  BY <1>2 DEF Synced
<1>4. /\ DOMAIN wal' = DOMAIN wal
      /\ \A f \in DOMAIN wal : f # file_id => wal'[f] = wal[f]
      /\ Cur' = [Cur EXCEPT !.synced = Len(Cur.ids)]
  BY <1>0, <1>2 DEF WalTypeOK, DiskTypeOK, Cur
<1>5. Cur'.ids = Cur.ids /\ Cur'.before = Cur.before /\ Cur'.synced = Len(ids)
  BY <1>1, <1>4
<1>7. Blk = <<>> /\ Blk' = <<>>
  BY <1>2 DEF Blk
<1>8. FileEnd' = FileEnd /\ BlkEnd' = BlkEnd /\ BufferEnd' = BufferEnd
  BY <1>2, <1>5, <1>7 DEF FileEnd, BlkEnd, BufferEnd
<1>9. Pipeline'
  <2>1. file_id' \in DOMAIN wal' /\ Cur'.before = before'
    BY <1>0, <1>2, <1>4, <1>5 DEF Pipeline
  <2>2. \A i \in 1..Len(Cur'.ids) : Cur'.ids[i] = before' + i - 1
    BY <1>2, <1>5 DEF Pipeline
  <2>3. /\ \A i \in 1..Len(Blk') : Blk'[i] = FileEnd' + i - 1
        /\ \A i \in 1..Len(buffer') : buffer'[i] = BlkEnd' + i - 1
    BY <1>2, <1>7, <1>8 DEF Pipeline
  <2>4. IdsIn(todo') = BufferEnd'..last_written_id' /\ BufferEnd' <= last_written_id' + 1
    BY <1>2, <1>8 DEF Pipeline
  <2> QED BY <1>2, <1>8, <2>1, <2>2, <2>3, <2>4 DEF Pipeline
<1>10. DurableEnd' = FileEnd /\ DurableEnd < FileEnd
  <2>1. DurableEnd' = before' + Cur'.synced /\ DurableEnd = before + Cur.synced
    BY <1>3 DEF DurableEnd
  <2>2. FileEnd = before + Len(ids)
    BY DEF FileEnd
  <2> QED BY SMT, <1>1, <1>2, <1>3, <1>5, <2>1, <2>2
<1>11. AcksAscend' /\ \A n \in 1..Len(written') : written'[n] < FileEnd
  <2>1. written' = Append(written, FileEnd - 1) /\ FileEnd > DurableEnd
    BY <1>1, <1>2, <1>3, <1>10
  <2> QED BY <1>0, <1>1, <2>1, AckStep
<1>15. Cur'.synced <= Len(Cur'.ids) /\ Cur'.synced = Len(Cur'.ids)
  BY SMT, <1>1, <1>5
<1>16. Synced'
  BY <1>2, <1>10, <1>11, <1>15 DEF Synced
<1> QED BY <1>9, <1>16

\* Every step keeps the intervals adjacent while no call has failed.
LEMMA PipelineStep ==
  ASSUME WriterInv, [WalNext]_walVars, io_errors' = 0
  PROVE  Pipeline' /\ Synced'
<1>0. /\ CleanHandshake /\ Pipeline /\ Synced
      /\ ~OpenFails /\ ~WriteFails /\ ~SyncFails
  BY HealthyStep DEF WriterInv
<1>1. ASSUME UNCHANGED <<todo, last_written_id, file_id, before, buffer, flush,
                         data_to_write, wal, written, has_written>>,
             assigned <= assigned', writer' = "rotate" => writer = "rotate" \/ BufferEnd > 0
      PROVE  Pipeline' /\ Synced'
  <2>0. assigned \in Int /\ assigned' \in Int /\ last_written_id \in Int
    BY SMT, TypeStep DEF WriterInv, WalTypeOK, ProducerTypeOK, OrderTypeOK, None
  <2>1. /\ Cur' = Cur /\ Blk' = Blk /\ FileEnd' = FileEnd /\ BlkEnd' = BlkEnd
        /\ BufferEnd' = BufferEnd /\ DurableEnd' = DurableEnd
    BY <1>1 DEF Cur, Blk, FileEnd, BlkEnd, BufferEnd, DurableEnd
  <2>2. last_written_id <= assigned'
    BY SMT, <1>0, <1>1, <2>0 DEF Pipeline
  <2>3. Pipeline'
    BY <1>0, <1>1, <2>1, <2>2 DEF Pipeline
  <2>4. Synced'
    BY <1>0, <1>1, <2>1 DEF Synced, AcksAscend
  <2> QED BY <2>3, <2>4
<1>2. assigned \in Int
  BY SMT DEF WriterInv, WalTypeOK, ProducerTypeOK, None
<1>3. CASE Producers \/ Close
  <2>1. assigned <= assigned'
    <3>1. ASSUME NEW n \in 1..MaxBatch, NEW lens \in [1..n -> DataLens], Assign(lens)
          PROVE  assigned <= assigned'
      <4>1. Len(lens) \in Nat
        BY SMT, SeqDef, WalAssumption
      <4> QED BY SMT, <1>2, <3>1, <4>1 DEF Assign
    <3> QED BY SMT, <1>2, <1>3, <3>1 DEF Producers, Send, Close
  <2> QED BY <1>1, <1>3, <2>1 DEF Producers, Assign, Send, Close, orderVars, fileVars,
          bufferVars, flushVars
<1>4. CASE Receive \/ HandleClose \/ Closed
  BY SMT, <1>1, <1>2, <1>4 DEF Receive, HandleClose, Closed, producerVars, orderVars, fileVars,
     bufferVars, flushVars
<1>11. CASE Rotate
  <2>1. todo # {} /\ MustRotate(Next1)
    BY <1>11 DEF Rotate
  <2>2. Next1.id = BufferEnd /\ BufferEnd \in Nat /\ before \in Nat /\ NarrowMax \in Nat
    BY <1>0, <2>1, Next1Continues, PipelineTypes, WalAssumption DEF Pipeline, WriterInv
  <2>3. BufferEnd > 0
    BY SMT, <1>0, <2>1, <2>2 DEF MustRotate, can_hold_entry, Pipeline
  <2> QED BY SMT, <1>1, <1>2, <1>11, <2>3 DEF Rotate, producerVars, orderVars, fileVars,
          bufferVars, flushVars
<1>5. CASE FlushNothing \/ UNCHANGED walVars
  BY SMT, <1>1, <1>2, <1>5 DEF FlushNothing, WriterUnchanged, walVars, producerVars, orderVars,
     fileVars, bufferVars, flushVars
<1>6. CASE Order \/ AppendEntry
  BY <1>0, <1>6, PipelineWriter
<1>7. CASE Open
  BY <1>0, <1>7, PipelineOpen
<1>8. CASE FlushTake
  BY <1>0, <1>8, PipelineTake
<1>9. CASE WriteOk
  BY <1>0, <1>9, PipelineWrite
<1>10. CASE SyncOk
  BY <1>0, <1>10, PipelineSync
<1> QED BY <1>0, <1>3, <1>4, <1>5, <1>6, <1>7, <1>8, <1>9, <1>10, <1>11
        DEF WalNext, WriterTask, FlushTask

-----------------------------------------------------------------------------
(* The invariant holds at first and is inductive                           *)

\* A writer that has just been started has written nothing.
LEMMA StartInv ==
  ASSUME NEW f \in Nat, NEW last \in Nat \cup {None}, NEW w \in BOOLEAN,
         WalStart(f, last, w),
         DiskTypeOK, f \in DOMAIN wal, wal[f] = NewFile(last + 1)
  PROVE  WriterInv
<1>1. /\ assigned = last /\ last_written_id = last /\ before = last + 1
      /\ file_id \in Nat /\ before \in Nat /\ last \in Int /\ before = last + 1
  BY SMT DEF WalStart, None
<1>2. /\ unsent = {} /\ pending = {} /\ todo = {} /\ write_chan = <<>> /\ req = <<>>
      /\ closing = FALSE /\ writer = "recv" /\ has_written = FALSE /\ wide \in BOOLEAN
  BY DEF WalStart
<1>3. /\ buffer = <<>> /\ current_size = HeaderSize /\ shutdown = FALSE /\ task = "running"
      /\ flush = "idle" /\ data_to_write = <<>> /\ attempt = 0 /\ final = FALSE
      /\ written = <<>> /\ wal_complete = <<>>
  BY DEF WalStart
<1>4. /\ file_id \in DOMAIN wal /\ Cur = NewFile(before)
      /\ Cur.ids = <<>> /\ Cur.synced = 0 /\ Cur.before = before
  BY SMTT(20) DEF Cur, NewFile, WalStart
<1>5. ProducerTypeOK /\ OrderTypeOK
  BY <1>1, <1>2, EmptySeq DEF ProducerTypeOK, OrderTypeOK
<1>6. FileTypeOK
  BY <1>1, <1>2, <1>3, EmptySeq DEF FileTypeOK
<1>7. FlushTypeOK
  BY <1>3, EmptySeq, WalAssumption DEF FlushTypeOK
<1>8. IdsName
  <2>1. Upstream = {}
    BY SMT, <1>2 DEF Upstream, Range
  <2> QED BY <2>1 DEF IdsName
<1>9. Handshake /\ CleanHandshake
  <2>1. Handshake
    BY SMT, <1>2, <1>3, <1>4 DEF Handshake
  <2>2. CleanHandshake
    BY <1>2, <1>3 DEF CleanHandshake
  <2> QED BY <2>1, <2>2
<1>10. Blk = <<>> /\ FileEnd = before /\ BlkEnd = before /\ BufferEnd = before /\ DurableEnd = before
  <2>1. Blk = <<>> /\ Len(Blk) = 0 /\ Len(buffer) = 0 /\ Len(Cur.ids) = 0 /\ before + 0 = before
    BY SMT, <1>1, <1>3, <1>4 DEF Blk
  <2>2. FileEnd = before /\ DurableEnd = before
    BY <1>4, <2>1 DEF FileEnd, DurableEnd
  <2>3. BlkEnd = before
    BY <2>1, <2>2 DEF BlkEnd
  <2> QED BY <2>1, <2>2, <2>3 DEF BufferEnd
<1>11. Pipeline
  <2>1. IdsIn(todo) = BufferEnd..last_written_id /\ BufferEnd <= last_written_id + 1
    BY SMT, <1>1, <1>2, <1>10 DEF IdsIn
  <2> QED BY SMT, <1>1, <1>2, <1>3, <1>4, <1>10, <2>1 DEF Pipeline
<1>12. Synced
  BY SMT, <1>1, <1>3, <1>4, <1>10 DEF Synced, AcksAscend
<1> QED BY <1>5, <1>6, <1>7, <1>8, <1>9, <1>11, <1>12 DEF WriterInv, WalTypeOK

\* The tasks' part of the invariant is inductive by itself.
LEMMA WriterStep ==
  ASSUME WriterInv, [WalNext]_walVars
  PROVE  WriterInv'
<1>1. WalTypeOK' /\ IdsName' /\ Handshake'
  BY TypeStep, NamesStep, HandshakeStep
<1>2. io_errors' = 0 => CleanHandshake' /\ Pipeline' /\ Synced'
  BY HealthyStep, CleanHandshakeStep, PipelineStep DEF WriterInv
<1> QED BY <1>1, <1>2 DEF WriterInv

\* Each step changes the files in one of four ways, as long as no call fails.
LEMMA DiskStep ==
  ASSUME WriterInv, [WalNext]_walVars, io_errors' = 0
  PROVE  DiskSame \/ DiskOpened \/ DiskGrown \/ DiskSynced
<1>0. /\ CleanHandshake /\ Pipeline /\ Synced /\ WalTypeOK /\ file_id \in DOMAIN wal
      /\ ~OpenFails /\ ~WriteFails /\ ~SyncFails
  BY HealthyStep DEF WriterInv, Pipeline
<1>1. CASE Producers \/ Close \/ Receive \/ Order \/ AppendEntry \/ Rotate \/ HandleClose \/ Closed
  BY <1>1 DEF DiskSame, Producers, Assign, Send, Close, Receive, Order, AppendEntry, Rotate,
     HandleClose, Closed, fileVars
<1>2. CASE FlushTake \/ FlushNothing \/ UNCHANGED walVars
  BY <1>2 DEF DiskSame, FlushTake, FlushNothing, WriterUnchanged, walVars, fileVars
<1>3. CASE Open
  <2>1. flush = "idle" /\ buffer = <<>> /\ todo # {} /\ writer = "rotate"
    BY <1>0, <1>3 DEF Open, Advance, CleanHandshake, WriterInv, Handshake
  <2>2. BufferEnd \in Nat /\ FileEnd \in Nat /\ BlkEnd \in Nat /\ file_id \in Nat
    BY <1>0, PipelineTypes
  <2>3. BufferEnd = FileEnd
    BY SMT, <2>1, <2>2 DEF BufferEnd, BlkEnd, Blk
  <2>4. Next1.id = FileEnd
    BY <1>0, <2>1, <2>3, Next1Continues
  <2>5. FileEnd > 0 /\ DurableEnd = FileEnd
    BY <1>0, <2>1, <2>3 DEF Pipeline, Synced, DurableEnd, FileEnd
  <2>6. file_id' = file_id + 1 /\ before' = FileEnd
    BY <1>3, <2>2, <2>4 DEF Open, Advance, increment
  <2>7. wal' = [f \in DOMAIN wal \cup {file_id'} |->
                  IF f = file_id' THEN NewFile(before') ELSE wal[f]]
    BY <1>3 DEF Open
  <2> QED BY <2>5, <2>6, <2>7 DEF DiskOpened
<1>4. CASE WriteOk
  BY <1>4 DEF DiskGrown, WriteOk, WriterUnchanged, fileVars
<1>5. CASE SyncOk
  BY <1>5 DEF DiskSynced, SyncOk, WriterUnchanged, fileVars
<1> QED BY <1>0, <1>1, <1>2, <1>3, <1>4, <1>5 DEF WalNext, WriterTask, FlushTask

-----------------------------------------------------------------------------
(* For a composition in which other components share the files              *)

\* A step sends one acknowledgement at most.
LEMMA AckMoves ==
  ASSUME WriterInv, [WalNext]_walVars
  PROVE  written' = written \/ (flush # "idle" /\ \E x \in Nat : written' = Append(written, x))
<1>1. CASE WriteOk \/ SyncOk
  <2>1. flush # "idle" /\ (written' = written \/ written' = Append(written, LastId(data_to_write)))
    BY <1>1 DEF WriteOk, SyncOk, Acknowledge
  <2>2. data_to_write \in Seq(Nat) /\ data_to_write # <<>>
    BY <2>1 DEF WriterInv, WalTypeOK, FlushTypeOK, Handshake
  <2>3. LastId(data_to_write) \in Nat
    BY SMT, <2>2, EmptySeq, LenProperties, ElementOfSeq DEF LastId
  <2> QED BY <2>1, <2>3
<1>2. CASE Producers \/ Close \/ Receive \/ Order \/ AppendEntry \/ Rotate \/ Open \/ OpenFails \/ HandleClose \/ Closed
  BY <1>2 DEF Producers, Assign, Send, Close, Receive, Order, AppendEntry, Rotate, Open, OpenFails,
     HandleClose, Closed
<1>3. CASE FlushTake \/ FlushNothing \/ WriteFails \/ SyncFails \/ UNCHANGED walVars
  BY <1>3 DEF FlushTake, FlushNothing, WriteFails, SyncFails, FailAttempt, walVars
<1> QED BY <1>1, <1>2, <1>3 DEF WalNext, WriterTask, FlushTask

\* The invariant does not depend on the files the writer is done with.
LEMMA OtherFiles ==
  ASSUME WriterInv, UNCHANGED taskVars, file_id \in DOMAIN wal, file_id \in DOMAIN wal',
         wal'[file_id] = wal[file_id], DOMAIN wal' \subseteq DOMAIN wal,
         wal' = [f \in DOMAIN wal' |-> wal[f]]
  PROVE  WriterInv'
<1> USE DEF taskVars, producerVars, orderVars, fileVars, bufferVars, flushVars
<1>1. ProducerTypeOK' /\ OrderTypeOK' /\ FileTypeOK' /\ FlushTypeOK'
  BY SMT DEF WriterInv, WalTypeOK, ProducerTypeOK, OrderTypeOK, FileTypeOK, FlushTypeOK
<1>2. DiskTypeOK'
  <2>1. /\ wal \in [DOMAIN wal -> [before : Nat, ids : Seq(Nat \cup {Torn}), synced : Nat]]
        /\ DOMAIN wal \subseteq Nat /\ written \in Seq(Nat) /\ io_errors \in Nat
    BY DEF WriterInv, WalTypeOK, DiskTypeOK
  <2>2. wal' \in [DOMAIN wal' -> [before : Nat, ids : Seq(Nat \cup {Torn}), synced : Nat]]
    BY <2>1
  <2> QED BY <2>1, <2>2 DEF DiskTypeOK
<1>3. Upstream' = Upstream
  BY DEF Upstream
<1>4. IdsName' /\ Handshake'
  BY <1>3 DEF WriterInv, IdsName, Handshake
<1>5. /\ Cur' = Cur /\ Blk' = Blk /\ FileEnd' = FileEnd /\ BlkEnd' = BlkEnd
      /\ BufferEnd' = BufferEnd /\ DurableEnd' = DurableEnd
  BY DEF Cur, Blk, FileEnd, BlkEnd, BufferEnd, DurableEnd
<1>6. io_errors' = 0 => CleanHandshake'
  BY DEF WriterInv, CleanHandshake
<1>7. io_errors' = 0 => Pipeline'
  BY <1>5 DEF WriterInv, Pipeline
<1>8. io_errors' = 0 => Synced'
  BY <1>5 DEF WriterInv, Synced, AcksAscend
<1> QED BY <1>1, <1>2, <1>4, <1>6, <1>7, <1>8 DEF WriterInv, WalTypeOK

\* What the writer is doing to its file, as others see it.
LEMMA WriterSeen ==
  ASSUME WriterInv, io_errors = 0
  PROVE  /\ file_id \in Nat /\ file_id \in DOMAIN wal /\ before \in Nat /\ Cur.before = before
         /\ Cur \in [before : Nat, ids : Seq(Nat \cup {Torn}), synced : Nat]
         /\ Cur.ids \o Blk \in Seq(Nat \cup {Torn}) /\ Len(Cur.ids) <= Len(Cur.ids \o Blk)
         /\ \A i \in 1..Len(Cur.ids) : Cur.ids[i] = before + i - 1
         /\ \A i \in 1..Len(Cur.ids \o Blk) : (Cur.ids \o Blk)[i] = before + i - 1
         /\ last_written_id \in Nat \cup {None} /\ assigned \in Nat \cup {None}
         /\ before + Len(Cur.ids \o Blk) <= last_written_id + 1 /\ last_written_id <= assigned
         /\ Cur.synced <= Len(Cur.ids)
         /\ written \in Seq(Nat) /\ AcksAscend
         /\ \A n \in 1..Len(written) :
              written[n] < before + (IF Fsync THEN Cur.synced ELSE Len(Cur.ids))
         /\ wal_complete \in Seq(Nat) /\ \A n \in 1..Len(wal_complete) : wal_complete[n] < file_id
         /\ writer = "closed" => /\ before + Len(Cur.ids) = last_written_id + 1
                                 /\ Fsync => Cur.synced = Len(Cur.ids)
<1>1. WalTypeOK /\ Handshake /\ CleanHandshake /\ Pipeline /\ Synced /\ file_id \in DOMAIN wal
  BY DEF WriterInv, Pipeline
<1>2. /\ file_id \in Nat /\ before \in Nat /\ last_written_id \in Nat \cup {None}
      /\ assigned \in Nat \cup {None} /\ written \in Seq(Nat) /\ wal_complete \in Seq(Nat)
      /\ data_to_write \in Seq(Nat) /\ buffer \in Seq(Nat)
  BY <1>1 DEF WalTypeOK, FileTypeOK, OrderTypeOK, ProducerTypeOK, DiskTypeOK, FlushTypeOK
<1>3. Cur \in [before : Nat, ids : Seq(Nat \cup {Torn}), synced : Nat]
  BY <1>1 DEF WalTypeOK, DiskTypeOK, Cur
<1>4. /\ Cur.ids \in Seq(Nat \cup {Torn}) /\ Blk \in Seq(Nat \cup {Torn})
      /\ Len(Cur.ids) \in Nat /\ Len(Blk) \in Nat /\ Len(buffer) \in Nat
  <2>1. Cur.ids \in Seq(Nat \cup {Torn}) /\ Len(Cur.ids) \in Nat
    BY SMT, <1>3
  <2>2. Blk \in Seq(Nat)
    BY <1>2, EmptySeq DEF Blk
  <2>3. Blk \in Seq(Nat \cup {Torn})
    BY SMT, <2>2
  <2> QED BY <1>2, <2>1, <2>2, <2>3, LenProperties
<1>5. Cur.ids \o Blk \in Seq(Nat \cup {Torn}) /\ Len(Cur.ids \o Blk) = Len(Cur.ids) + Len(Blk)
  BY SMT, <1>4
<1>6. /\ \A i \in 1..Len(Cur.ids) : Cur.ids[i] = before + i - 1
      /\ \A i \in 1..Len(Blk) : Blk[i] = FileEnd + i - 1
  BY <1>1 DEF Pipeline
<1>7. ASSUME NEW i \in 1..Len(Cur.ids \o Blk) PROVE (Cur.ids \o Blk)[i] = before + i - 1
  <2>1. CASE i <= Len(Cur.ids)
    BY SMT, <1>4, <1>6, <2>1
  <2>2. CASE i > Len(Cur.ids)
    <3>1. i - Len(Cur.ids) \in 1..Len(Blk)
      BY SMT, <1>4, <1>5, <2>2
    <3>2. (Cur.ids \o Blk)[i] = Blk[i - Len(Cur.ids)]
      BY SMT, <1>4, <1>5, <2>2
    <3>3. Blk[i - Len(Cur.ids)] = FileEnd + (i - Len(Cur.ids)) - 1
      BY <1>6, <3>1
    <3>4. i \in Int /\ FileEnd = before + Len(Cur.ids)
      BY SMT, <1>5 DEF FileEnd
    <3>5. before \in Int /\ Len(Cur.ids) \in Int
      BY SMT, <1>2, <1>4
    <3>6. \A a, b, c \in Int : a + b + (c - b) - 1 = a + c - 1
      BY SMT
    <3>7. FileEnd + (i - Len(Cur.ids)) - 1 = before + i - 1
      BY <3>4, <3>5, <3>6, Zenon
    <3> QED BY <3>2, <3>3, <3>7
  <2> QED BY SMT, <1>4, <1>5, <2>1, <2>2
<1>8. before + Len(Cur.ids \o Blk) <= last_written_id + 1 /\ last_written_id <= assigned
  <2>1. BufferEnd <= last_written_id + 1 /\ last_written_id <= assigned
    BY <1>1 DEF Pipeline
  <2> QED BY SMT, <1>2, <1>4, <1>5, <2>1 DEF BufferEnd, BlkEnd, FileEnd, None
<1>9. ASSUME writer = "closed"
      PROVE  before + Len(Cur.ids) = last_written_id + 1 /\ (Fsync => Cur.synced = Len(Cur.ids))
  <2>1. flush = "idle" /\ buffer = <<>> /\ todo = {}
    BY <1>1, <1>9 DEF Handshake, CleanHandshake
  <2>2. BufferEnd = before + Len(Cur.ids) /\ BufferEnd \in Nat
    BY SMT, <1>2, <1>4, <2>1 DEF BufferEnd, BlkEnd, FileEnd, Blk
  <2>3. BufferEnd..last_written_id = {}
    BY <1>1, <2>1 DEF Pipeline, IdsIn
  <2>4. BufferEnd = last_written_id + 1
    <3>1. BufferEnd <= last_written_id + 1
      BY <1>1 DEF Pipeline
    <3>2. BufferEnd <= last_written_id => BufferEnd \in BufferEnd..last_written_id
      BY SMT, <1>2, <2>2 DEF None
    <3>3. ~ (BufferEnd <= last_written_id)
      BY <2>3, <3>2, Zenon
    <3>4. last_written_id \in Int /\ BufferEnd \in Int
      BY SMT, <1>2, <2>2 DEF None
    <3> QED BY SMT, <3>1, <3>3, <3>4
  <2> QED BY <1>1, <2>1, <2>2, <2>4 DEF Synced
<1>10. /\ Cur.synced <= Len(Cur.ids) /\ AcksAscend /\ Cur.before = before
       /\ \A n \in 1..Len(written) :
            written[n] < before + (IF Fsync THEN Cur.synced ELSE Len(Cur.ids))
       /\ \A n \in 1..Len(wal_complete) : wal_complete[n] < file_id
  BY <1>1 DEF Synced, DurableEnd, Pipeline, Handshake
<1> QED BY SMT, <1>1, <1>2, <1>3, <1>4, <1>5, <1>6, <1>7, <1>8, <1>9, <1>10

\* How a step changes the files, as others see it.
LEMMA FilesSeen ==
  ASSUME WriterInv, [WalNext]_walVars, io_errors' = 0
  PROVE  \/ UNCHANGED <<wal, file_id, before>>
         \/ /\ before + Len(Cur.ids) > 0 /\ (Fsync => Cur.synced = Len(Cur.ids))
            /\ file_id' = file_id + 1
            /\ wal' = [f \in DOMAIN wal \cup {file_id + 1} |->
                         IF f = file_id + 1 THEN NewFile(before + Len(Cur.ids)) ELSE wal[f]]
         \/ /\ UNCHANGED <<file_id, before>> /\ DOMAIN wal' = DOMAIN wal
            /\ \A f \in DOMAIN wal \ {file_id} : wal'[f] = wal[f]
            /\ Len(Cur.ids) <= Len(Cur'.ids)
<1>1. io_errors = 0
  BY HealthyStep
<1>2. /\ file_id \in DOMAIN wal /\ before \in Nat
      /\ Cur \in [before : Nat, ids : Seq(Nat \cup {Torn}), synced : Nat]
  BY <1>1, WriterSeen
<1>3. Cur.ids \in Seq(Nat \cup {Torn}) /\ Len(Cur.ids) \in Nat /\ Cur.synced \in Nat
  BY SMT, <1>2
<1>4. CASE DiskSame
  BY <1>4 DEF DiskSame
<1>5. CASE DiskOpened
  <2>1. Fsync => Cur.synced = Len(Cur.ids)
    BY SMT, <1>2, <1>3, <1>5 DEF DiskOpened, DurableEnd, FileEnd
  <2> QED BY <1>5, <2>1 DEF DiskOpened, FileEnd
<1>6. CASE DiskGrown
  <2>1. data_to_write \in Seq(Nat)
    BY DEF WriterInv, WalTypeOK, FlushTypeOK
  <2>2. /\ UNCHANGED <<file_id, before>> /\ DOMAIN wal' = DOMAIN wal
        /\ \A f \in DOMAIN wal \ {file_id} : wal'[f] = wal[f]
        /\ wal'[file_id].ids = wal[file_id].ids \o data_to_write
    BY <1>2, <1>6 DEF DiskGrown, Cur
  <2>3. Cur'.ids = Cur.ids \o data_to_write
    BY <2>2 DEF Cur
  <2>4. data_to_write \in Seq(Nat \cup {Torn})
    BY SMT, <2>1
  <2>5. Len(Cur.ids \o data_to_write) >= Len(Cur.ids)
    BY SMT, <1>3, <2>4
  <2> QED BY <1>3, <2>2, <2>3, <2>5
<1>7. CASE DiskSynced
  <2>1. /\ UNCHANGED <<file_id, before>> /\ DOMAIN wal' = DOMAIN wal
        /\ \A f \in DOMAIN wal \ {file_id} : wal'[f] = wal[f]
        /\ wal'[file_id].ids = wal[file_id].ids
    BY <1>2, <1>7 DEF DiskSynced, Cur
  <2>2. Cur'.ids = Cur.ids
    BY <2>1 DEF Cur
  <2> QED BY SMT, <1>3, <2>1, <2>2
<1> QED BY <1>4, <1>5, <1>6, <1>7, DiskStep
=============================================================================
