--------------------------- MODULE OffloadProofs ----------------------------
(***************************************************************************)
(* Deletion against upload, for any number of files, workers and failing   *)
(* requests: a file that the disk no longer has is in the bucket or was    *)
(* overtaken in the upload queue.                                          *)
(*                                                                         *)
(* The monitor knows of the uploads only the largest id, so the property   *)
(* rests on the order of the upload queue: what is behind a file in the    *)
(* queue, or was put there after it, cannot vouch for it.  UploadOrder     *)
(* says so, and LatestVouches is what the monitor may conclude.            *)
(***************************************************************************)
EXTENDS Offload, TLAPS

Files == Nat \ {0}

\* The file is in the bucket, or a later one was queued before it.
Accounted(f) == f \in DOMAIN s3 \/ f \in overtaken

Stages == {"idle", "write", "delete"}

FileTypeOK ==
  /\ active \in Files
  /\ DOMAIN wal \subseteq Files /\ DOMAIN store \subseteq Files
  /\ old \in Seq(Files) /\ complete \in Seq(Files) /\ done \in Seq(Files)
  /\ upload_chan \in Seq(Files)
  /\ uploader \in Files \cup {None}
  /\ latest \in Files \cup {None}
  /\ queued \subseteq Files

WorkerTypeOK ==
  /\ DOMAIN worker = Workers
  /\ \A w \in Workers :
       /\ worker[w] \in [at : Stages, file : Nat, size : {worker[w].size}]
       /\ worker[w].at # "idle" => worker[w].file \in Files

CleanerTypeOK ==
  cleaner \in [at : {"first", "idle", "wal", "store", "next", "delete_store", "delete_wal"},
               files : {cleaner.files}, size : {cleaner.size}, id : {cleaner.id},
               latest : Files \cup {None}]

OffloadTypeOK == FileTypeOK /\ WorkerTypeOK /\ CleanerTypeOK

\* Monitor and offloader look at the queue's own directories.
SamePath == MonitoredPath = to_fs_path

\* In the upload queue a file comes behind every earlier one that is still to
\* be dealt with.
UploadOrder ==
  SamePath =>
    /\ uploader # None => \A f \in 1..uploader - 1 : Accounted(f)
    /\ \A i \in 1..Len(upload_chan) : \A f \in 1..upload_chan[i] - 1 :
         Accounted(f) \/ f = uploader \/ \E j \in 1..i - 1 : upload_chan[j] = f
    /\ \A f \in queued :
         Accounted(f) \/ f = uploader \/ \E j \in 1..Len(upload_chan) : upload_chan[j] = f

\* What has been queued, or will be, was in the store.
QueuedIsStored ==
  /\ uploader # None => uploader \in queued
  /\ \A i \in 1..Len(upload_chan) : upload_chan[i] \in queued
  /\ \A f \in queued : f \in DOMAIN store \/ Accounted(f)
  /\ \A i \in 1..Len(done) : done[i] \in DOMAIN store \/ Accounted(done[i])

\* latest_offloaded_id vouches for every smaller id.
LatestVouches ==
  /\ \A f \in 1..latest : Accounted(f)
  /\ ~SamePath => latest = None
  /\ cleaner.latest <= latest
  /\ cleaner.at \in {"delete_store", "delete_wal"} =>
       cleaner.id \in Files /\ cleaner.id <= cleaner.latest

\* No file gets lost without being accounted for.
NothingLost ==
  /\ \A f \in 1..active : f \in DOMAIN wal \cup DOMAIN store \/ Accounted(f)
  /\ \A w \in Workers :
       worker[w].at = "delete" => worker[w].file \in DOMAIN store \/ Accounted(worker[w].file)

OffloadInv ==
  /\ OffloadTypeOK
  /\ cloud => UploadOrder /\ QueuedIsStored /\ LatestVouches /\ NothingLost

-----------------------------------------------------------------------------
\* Functions with one value more, or one less.
LEMMA WithDomain ==
  ASSUME NEW f, NEW x, NEW v
  PROVE  DOMAIN With(f, x, v) = DOMAIN f \cup {x}
BY DEF With

LEMMA WithoutDomain ==
  ASSUME NEW f, NEW x
  PROVE  DOMAIN Without(f, x) = DOMAIN f \ {x}
BY DEF Without

\* Initially everything is on disk.
LEMMA OffloadInit == Init => OffloadInv
<1> SUFFICES ASSUME Init PROVE OffloadInv
  OBVIOUS
<1> USE DEF None
<1>1. PICK start \in Starts :
        /\ store = [f \in 1..start.stored |-> Packed[MaxFileSize]]
        /\ wal = [f \in start.stored + 1..start.stored + start.old + 1 |->
                    IF f <= start.stored + start.old THEN MaxFileSize ELSE 0]
        /\ active = start.stored + start.old + 1
        /\ old = [i \in 1..start.old |-> start.stored + i]
        /\ s3 = [f \in start.uploaded |-> Packed[MaxFileSize]]
  BY DEF Init
<1>2. start.stored \in Nat /\ start.old \in Nat
  BY OffloadAssumption
<1>3. FileTypeOK
  <2>1. active \in Files
    BY <1>1, <1>2 DEF Files
  <2>2. old \in Seq(Files)
    <3>1. \A i \in 1..start.old : start.stored + i \in Files
      BY <1>2 DEF Files
    <3>2. old \in [1..start.old -> Files]
      BY <1>1, <3>1
    <3> QED BY <1>2, <3>2
  <2>3. DOMAIN wal \subseteq Files /\ DOMAIN store \subseteq Files
    <3>1. /\ DOMAIN wal = start.stored + 1..start.stored + start.old + 1
          /\ DOMAIN store = 1..start.stored
      BY <1>1
    <3> QED BY <1>2, <3>1 DEF Files
  <2>4. /\ complete \in Seq(Files) /\ done \in Seq(Files) /\ upload_chan \in Seq(Files)
        /\ uploader \in Files \cup {None} /\ latest \in Files \cup {None} /\ queued \subseteq Files
    BY DEF Init
  <2> QED BY <2>1, <2>2, <2>3, <2>4 DEF FileTypeOK
<1>6. WorkerTypeOK /\ CleanerTypeOK
  <2>1. WorkerTypeOK
    BY DEF Init, Idle, Stages, WorkerTypeOK
  <2>2. CleanerTypeOK
    BY DEF Init, Resting, CleanerTypeOK
  <2> QED BY <2>1, <2>2
<1>4. UploadOrder /\ QueuedIsStored /\ LatestVouches
  BY DEF Init, UploadOrder, QueuedIsStored, LatestVouches, Resting
<1>5. NothingLost
  <2>1. \A f \in 1..active : f \in DOMAIN wal \cup DOMAIN store
    <3>1. /\ DOMAIN wal = start.stored + 1..start.stored + start.old + 1
          /\ DOMAIN store = 1..start.stored
          /\ active = start.stored + start.old + 1
      BY <1>1
    <3> QED BY <1>2, <3>1
  <2>2. \A w \in Workers : worker[w].at # "delete"
    BY DEF Init, Idle
  <2> QED BY <2>1, <2>2 DEF NothingLost
<1> QED BY <1>3, <1>4, <1>5, <1>6 DEF OffloadInv, OffloadTypeOK

-----------------------------------------------------------------------------
\* Sequences of files.
LEMMA ChannelSteps ==
  ASSUME NEW s \in Seq(Files)
  PROVE  /\ \A f \in Files :
              /\ Append(s, f) \in Seq(Files)
              /\ Len(Append(s, f)) = Len(s) + 1
              /\ Append(s, f)[Len(s) + 1] = f
              /\ \A i \in 1..Len(s) : Append(s, f)[i] = s[i]
         /\ s # <<>> =>
              /\ Head(s) \in Files /\ Tail(s) \in Seq(Files)
              /\ Head(s) = s[1] /\ 1 \in 1..Len(s)
              /\ Len(Tail(s)) = Len(s) - 1
              /\ \A i \in 1..Len(s) - 1 : Tail(s)[i] = s[i + 1] /\ i + 1 \in 1..Len(s)
OBVIOUS

\* Every step of a task keeps the types.
LEMMA FileTypes == OffloadTypeOK /\ [Next]_vars => FileTypeOK'
<1> SUFFICES ASSUME FileTypeOK, WorkerTypeOK, [Next]_vars PROVE FileTypeOK'
  BY DEF OffloadTypeOK
<1> USE DEF FileTypeOK
<1>1. CASE Write
  BY <1>1 DEF Write, writerVars, workerVars, offloadVars, uploadVars
<1>2. CASE Rotate
  <2>1. complete' \in Seq(Files) /\ active' \in Files
    BY <1>2, ChannelSteps DEF Rotate, Files
  <2>2. DOMAIN wal' = DOMAIN wal \cup {active + 1}
    BY <1>2, WithDomain DEF Rotate
  <2> QED BY <1>2, <2>1, <2>2 DEF Rotate, workerVars, offloadVars, uploadVars
<1>3. CASE process_old_files
  <2>1. complete' \in Seq(Files) /\ old' \in Seq(Files)
    BY <1>3, ChannelSteps DEF process_old_files
  <2> QED BY <1>3, <2>1 DEF process_old_files, workerVars, offloadVars, uploadVars
<1>4. ASSUME NEW w \in Workers, WorkerStep(w) PROVE FileTypeOK'
  <2>1. CASE Receive(w)
    <3>1. complete' \in Seq(Files)
      BY <2>1, ChannelSteps DEF Receive
    <3> QED BY <2>1, <3>1 DEF Receive, offloadVars, uploadVars
  <2>2. CASE Publish(w)
    <3>1. worker[w].file \in Files
      BY <2>2 DEF Publish, WorkerTypeOK
    <3>2. DOMAIN store' = DOMAIN store \cup {worker[w].file}
      BY <2>2, WithDomain DEF Publish
    <3>3. done' \in Seq(Files)
      BY <2>2, <3>1, ChannelSteps DEF Publish
    <3> QED BY <2>2, <3>1, <3>2, <3>3 DEF Publish, writerVars, offloadVars, uploadVars
  <2>3. CASE DeleteWal(w)
    <3>1. DOMAIN wal' = DOMAIN wal \ {worker[w].file}
      BY <2>3, WithoutDomain DEF DeleteWal
    <3> QED BY <2>3, <3>1 DEF DeleteWal, writerVars, offloadVars, uploadVars
  <2>4. CASE StoreFails(w)
    BY <2>4 DEF StoreFails, writerVars, offloadVars, uploadVars
  <2> QED BY <1>4, <2>1, <2>2, <2>3, <2>4 DEF WorkerStep
<1>5. ASSUME NEW f \in Files, ToUpload(f)
      PROVE  upload_chan' \in Seq(Files) /\ queued' \subseteq Files
  BY <1>5, ChannelSteps DEF ToUpload
<1>6. CASE Forward
  <2>1. Head(done) \in Files /\ done' \in Seq(Files)
    BY <1>6, ChannelSteps DEF Forward
  <2>2. upload_chan' \in Seq(Files) /\ queued' \subseteq Files
    BY <1>5, <1>6, <2>1 DEF Forward
  <2> QED BY <1>6, <2>1, <2>2 DEF Forward, writerVars, uploadVars
<1>7. CASE List
  BY <1>7 DEF List, writerVars, workerVars, uploadVars
<1>8. CASE ListNext
  <2>1. upload_chan' \in Seq(Files) /\ queued' \subseteq Files
    BY <1>5, <1>8 DEF ListNext
  <2> QED BY <1>8, <2>1 DEF ListNext, writerVars, workerVars, uploadVars
<1>9. CASE UploadStep
  <2>1. CASE UploadNext
    <3>1. uploader' \in Files /\ upload_chan' \in Seq(Files)
      BY <2>1, ChannelSteps DEF UploadNext
    <3> QED BY <2>1, <3>1 DEF UploadNext, writerVars, workerVars
  <2>2. CASE UploadSkip
    BY <2>2 DEF UploadSkip, writerVars, workerVars, offloadVars
  <2>3. CASE Upload
    BY <2>3 DEF Upload, Uploaded, MaxOpt, writerVars, workerVars, offloadVars
  <2>4. CASE UploadFails
    BY <2>4 DEF UploadFails, writerVars, workerVars, offloadVars
  <2> QED BY <1>9, <2>1, <2>2, <2>3, <2>4 DEF UploadStep
<1>10. CASE CleanerStep
  <2>1. DOMAIN wal' \subseteq DOMAIN wal /\ DOMAIN store' \subseteq DOMAIN store
    <3>1. CASE DeleteStoreFile
      BY <3>1, WithoutDomain DEF DeleteStoreFile
    <3>2. CASE DeleteWalFile
      BY <3>2, WithoutDomain DEF DeleteWalFile
    <3> QED BY <1>10, <3>1, <3>2 DEF CleanerStep, CheckWal, SizeWal, SizeStore, CleanNext
  <2>2. UNCHANGED <<writerVars, workerVars, offloadVars, uploadVars>>
    BY <1>10
    DEF CleanerStep, CheckWal, SizeWal, SizeStore, CleanNext, DeleteStoreFile, DeleteWalFile
  <2> QED BY <2>1, <2>2 DEF writerVars, workerVars, offloadVars, uploadVars
<1>11. CASE UNCHANGED vars
  BY <1>11 DEF vars, writerVars, workerVars, offloadVars, uploadVars
<1> QED BY <1>1, <1>2, <1>3, <1>4, <1>6, <1>7, <1>8, <1>9, <1>10, <1>11 DEF Next

LEMMA WorkerTypes == OffloadTypeOK /\ [Next]_vars => WorkerTypeOK'
<1> SUFFICES ASSUME FileTypeOK, WorkerTypeOK, [Next]_vars PROVE WorkerTypeOK'
  BY DEF OffloadTypeOK
<1>1. CASE UNCHANGED worker
  BY <1>1 DEF WorkerTypeOK
<1>2. ASSUME NEW w \in Workers, WorkerStep(w) PROVE WorkerTypeOK'
  <2>1. ASSUME NEW W, worker' = [worker EXCEPT ![w] = W],
               W \in [at : Stages, file : Nat, size : {W.size}],
               W.at # "idle" => W.file \in Files
        PROVE  WorkerTypeOK'
    <3>1. DOMAIN worker' = Workers /\ worker'[w] = W
      BY <2>1 DEF WorkerTypeOK
    <3>2. \A v \in Workers \ {w} : worker'[v] = worker[v]
      BY <2>1 DEF WorkerTypeOK
    <3> QED BY <2>1, <3>1, <3>2, Zenon DEF WorkerTypeOK
  <2>2. Idle \in [at : Stages, file : Nat, size : {Idle.size}] /\ Idle.at = "idle"
    BY DEF Idle, Stages
  <2>3. CASE Receive(w)
    <3> DEFINE f == Head(complete)
               R == [at |-> "write", file |-> f, size |-> wal[f]]
    <3>1. f \in Files /\ f \in Nat
      BY <2>3, ChannelSteps DEF Receive, FileTypeOK, Files
    <3>2. R \in [at : Stages, file : Nat, size : {R.size}] /\ R.file \in Files
      BY <3>1 DEF Stages
    <3>3. worker' = [worker EXCEPT ![w] = IF f \in DOMAIN wal THEN R ELSE Idle]
      BY <2>3 DEF Receive
    <3> HIDE DEF R
    <3> QED BY <2>1, <2>2, <3>2, <3>3, Zenon
  <2>4. CASE Publish(w)
    <3> DEFINE W == [worker[w] EXCEPT !.at = "delete"]
    <3>1. W \in [at : Stages, file : Nat, size : {W.size}] /\ W.file \in Files
      BY <2>4 DEF Publish, WorkerTypeOK, Stages
    <3>2. worker' = [worker EXCEPT ![w] = W]
      BY <2>4 DEF Publish
    <3> HIDE DEF W
    <3> QED BY <2>1, <3>1, <3>2
  <2>5. CASE DeleteWal(w) \/ StoreFails(w)
    BY <2>1, <2>2, <2>5 DEF DeleteWal, StoreFails
  <2> QED BY <1>2, <2>3, <2>4, <2>5 DEF WorkerStep
<1> QED
  BY <1>1, <1>2 DEF Next, Write, Rotate, process_old_files, Forward, List, ListNext, UploadStep,
     UploadNext, UploadSkip, Upload, UploadFails, CleanerStep, CheckWal, SizeWal, SizeStore,
     CleanNext, DeleteStoreFile, DeleteWalFile, workerVars, vars

LEMMA CleanerTypes == OffloadTypeOK /\ [Next]_vars => CleanerTypeOK'
<1> SUFFICES ASSUME FileTypeOK, CleanerTypeOK, [Next]_vars PROVE CleanerTypeOK'
  BY DEF OffloadTypeOK
<1> USE DEF CleanerTypeOK
<1>1. CASE UNCHANGED cleaner
  BY <1>1
<1>2. CASE cleaner' = Resting
  BY <1>2 DEF Resting
<1>3. CASE CheckWal
  BY <1>3 DEF CheckWal, Resting
<1>4. CASE SizeWal
  <2>1. ASSUME NEW n, cleaner' = [cleaner EXCEPT !.at = "store", !.size = n, !.files = {}]
        PROVE  CleanerTypeOK'
    BY <2>1
  <2> QED BY <1>2, <1>4, <2>1 DEF SizeWal
<1>5. CASE SizeStore
  <2>1. ASSUME NEW n, NEW i,
               cleaner' = [cleaner EXCEPT !.at = "next", !.size = n, !.latest = latest, !.id = i]
        PROVE  CleanerTypeOK'
    BY <2>1 DEF FileTypeOK
  <2> QED BY <1>2, <1>5, <2>1 DEF SizeStore, Finish
<1>6. CASE CleanNext
  <2>1. CASE cleaner' = [cleaner EXCEPT !.at = Victim]
    BY <2>1 DEF Victim
  <2> QED BY <1>2, <1>6, <2>1 DEF CleanNext, Finish
<1>7. ASSUME NEW n, Freed(n) PROVE CleanerTypeOK'
  BY <1>7 DEF Freed
<1> QED
  BY <1>1, <1>3, <1>4, <1>5, <1>6, <1>7 DEF Next, Write, Rotate, process_old_files, WorkerStep,
     Receive, Publish, DeleteWal, StoreFails, Forward, List, ListNext, UploadStep, UploadNext,
     UploadSkip, Upload, UploadFails, CleanerStep, DeleteStoreFile, DeleteWalFile, monitorVars, vars

-----------------------------------------------------------------------------
\* What is accounted for stays so.
LEMMA AccountedStays ==
  ASSUME [Next]_vars, NEW f, Accounted(f)
  PROVE  Accounted(f)'
<1>1. DOMAIN s3 \subseteq DOMAIN s3'
  <2>1. CASE Put
    BY <2>1 DEF Put, With
  <2>2. CASE UNCHANGED s3
    BY <2>2
  <2> QED
    BY <2>1, <2>2 DEF Next, Write, Rotate, process_old_files, WorkerStep, Receive, Publish,
       DeleteWal, StoreFails, Forward, List, ListNext, UploadStep, UploadNext, UploadSkip, Upload,
       UploadFails, CleanerStep, CheckWal, SizeWal, SizeStore, CleanNext, DeleteStoreFile,
       DeleteWalFile, uploadVars, vars
<1>2. overtaken \subseteq overtaken'
  BY DEF Next, Write, Rotate, process_old_files, WorkerStep, Receive, Publish, DeleteWal,
     StoreFails, Forward, ToUpload, List, ListNext, UploadStep, UploadNext, UploadSkip, Upload,
     UploadFails, CleanerStep, CheckWal, SizeWal, SizeStore, CleanNext, DeleteStoreFile,
     DeleteWalFile, offloadVars, vars
<1> QED BY <1>1, <1>2 DEF Accounted

\* What a step may do to the upload queue.
LEMMA UploadSteps ==
  ASSUME OffloadInv, cloud, [Next]_vars
  PROVE  \/ UNCHANGED <<upload_chan, uploader, queued>>
         \/ UNCHANGED uploader /\ \E f \in Files :
              ToUpload(f) /\ (f \in DOMAIN store \/ Accounted(f))
         \/ UploadNext
         \/ UploadSkip
         \/ Upload
<1>1. CASE Forward
  <2>1. done # <<>>
    BY <1>1 DEF Forward
  <2>2. Head(done) \in Files /\ Head(done) = done[1] /\ 1 \in 1..Len(done)
    BY <2>1, ChannelSteps DEF OffloadInv, OffloadTypeOK, FileTypeOK
  <2>3. Head(done) \in DOMAIN store \/ Accounted(Head(done))
    BY <2>2 DEF OffloadInv, QueuedIsStored
  <2> QED BY <1>1, <2>2, <2>3 DEF Forward, uploadVars
<1>2. CASE ListNext
  BY <1>2 DEF ListNext, uploadVars, OffloadInv, OffloadTypeOK, FileTypeOK
<1> QED
  BY <1>1, <1>2 DEF Next, Write, Rotate, process_old_files, WorkerStep, Receive, Publish, DeleteWal,
     StoreFails, List, UploadStep, UploadFails, CleanerStep, CheckWal, SizeWal, SizeStore,
     CleanNext, DeleteStoreFile, DeleteWalFile, offloadVars, uploadVars, vars

\* The order of the upload queue survives every step: what ToUpload finds
\* unqueued in front of its file becomes overtaken.
LEMMA OrderStep ==
  ASSUME OffloadInv, OffloadTypeOK', cloud, [Next]_vars
  PROVE  UploadOrder'
<1> SUFFICES ASSUME SamePath
             PROVE  /\ uploader' # None => \A f \in 1..uploader' - 1 : Accounted(f)'
                    /\ \A i \in 1..Len(upload_chan') : \A f \in 1..upload_chan'[i] - 1 :
                         \/ Accounted(f)' \/ f = uploader'
                         \/ \E j \in 1..i - 1 : upload_chan'[j] = f
                    /\ \A f \in queued' :
                         \/ Accounted(f)' \/ f = uploader'
                         \/ \E j \in 1..Len(upload_chan') : upload_chan'[j] = f
  BY DEF UploadOrder, SamePath
<1>1. \A f : Accounted(f) => Accounted(f)'
  BY AccountedStays
<1>2. /\ uploader # None => \A f \in 1..uploader - 1 : Accounted(f)
      /\ \A i \in 1..Len(upload_chan) : \A f \in 1..upload_chan[i] - 1 :
           Accounted(f) \/ f = uploader \/ \E j \in 1..i - 1 : upload_chan[j] = f
      /\ \A f \in queued :
           Accounted(f) \/ f = uploader \/ \E j \in 1..Len(upload_chan) : upload_chan[j] = f
  BY DEF OffloadInv, UploadOrder
<1>3. upload_chan \in Seq(Files) /\ uploader \in Files \cup {None} /\ queued \subseteq Files
  BY DEF OffloadInv, OffloadTypeOK, FileTypeOK
<1>4. CASE UNCHANGED <<upload_chan, uploader, queued>>
  BY <1>1, <1>2, <1>4
<1>5. ASSUME UNCHANGED uploader, NEW g \in Files, ToUpload(g) PROVE UploadOrder'
  <2> DEFINE n == Len(upload_chan)
  <2>1. /\ n \in Nat /\ Len(upload_chan') = n + 1 /\ upload_chan'[n + 1] = g
        /\ \A i \in 1..n : upload_chan'[i] = upload_chan[i]
    BY <1>3, <1>5, ChannelSteps DEF ToUpload
  <2>2. \A f \in 1..g - 1 : f \in queued \/ Accounted(f)'
    BY <1>5 DEF ToUpload, Accounted
  <2>3. queued' = queued \cup {g} /\ uploader' = uploader
    BY <1>5 DEF ToUpload
  <2> HIDE DEF n
  <2>4. \A f \in queued : Accounted(f)' \/ f = uploader' \/ \E j \in 1..n : upload_chan'[j] = f
    BY <1>1, <1>2, <2>1, <2>3 DEF n
  <2>5. \A i \in 1..n + 1 : \A f \in 1..upload_chan'[i] - 1 :
          Accounted(f)' \/ f = uploader' \/ \E j \in 1..i - 1 : upload_chan'[j] = f
    <3> SUFFICES ASSUME NEW i \in 1..n + 1, NEW f \in 1..upload_chan'[i] - 1,
                        ~Accounted(f)', f # uploader'
                 PROVE  \E j \in 1..i - 1 : upload_chan'[j] = f
      OBVIOUS
    <3>1. CASE i \in 1..n
      <4>1. \E j \in 1..i - 1 : upload_chan[j] = f
        BY <1>1, <1>2, <2>1, <2>3, <3>1 DEF n
      <4>2. \A j \in 1..i - 1 : j \in 1..n
        BY <2>1, <3>1
      <4> QED BY <2>1, <4>1, <4>2
    <3>2. CASE i = n + 1
      <4>1. f \in 1..g - 1
        BY <2>1, <3>2
      <4>2. \E j \in 1..n : upload_chan'[j] = f
        BY <2>2, <2>4, <4>1
      <4>3. i - 1 = n
        BY <2>1, <3>2
      <4> QED BY <4>2, <4>3
    <3> QED BY <2>1, <3>1, <3>2
  <2>6. \A f \in queued' :
          Accounted(f)' \/ f = uploader' \/ \E j \in 1..n + 1 : upload_chan'[j] = f
    <3>1. \A j \in 1..n : j \in 1..n + 1
      BY <2>1
    <3>2. n + 1 \in 1..n + 1
      BY <2>1
    <3> QED BY <2>1, <2>3, <2>4, <3>1, <3>2
  <2>7. uploader' # None => \A f \in 1..uploader' - 1 : Accounted(f)'
    BY <1>1, <1>2, <2>3
  <2> QED BY <2>1, <2>5, <2>6, <2>7 DEF UploadOrder
<1>6. CASE UploadNext
  <2>1. /\ upload_chan # <<>> /\ uploader = None
        /\ uploader' = Head(upload_chan) /\ upload_chan' = Tail(upload_chan) /\ queued' = queued
    BY <1>6 DEF UploadNext
  <2> DEFINE n == Len(upload_chan)
  <2>2. /\ n \in Nat /\ 1 \in 1..n /\ uploader' = upload_chan[1] /\ uploader' \in Files
        /\ Len(upload_chan') = n - 1
        /\ \A i \in 1..n - 1 : upload_chan'[i] = upload_chan[i + 1] /\ i + 1 \in 1..n
    BY <1>3, <2>1, ChannelSteps
  <2>3. \A f \in Files : f # uploader
    BY <2>1 DEF None, Files
  <2> HIDE DEF n
  <2>4. \A f \in 1..uploader' - 1 : Accounted(f)'
    <3> SUFFICES ASSUME NEW f \in 1..upload_chan[1] - 1 PROVE Accounted(f)'
      BY <2>2
    <3>1. f \in Files
      BY <2>2 DEF Files
    <3>2. ~ \E j \in 1..1 - 1 : upload_chan[j] = f
      OBVIOUS
    <3> QED BY <1>1, <1>2, <2>2, <2>3, <3>1, <3>2 DEF n
  <2>5. \A k \in 1..n : k = 1 \/ (k - 1 \in 1..n - 1 /\ upload_chan'[k - 1] = upload_chan[k])
    <3> SUFFICES ASSUME NEW k \in 1..n, k # 1
                 PROVE  k - 1 \in 1..n - 1 /\ upload_chan'[k - 1] = upload_chan[k]
      OBVIOUS
    <3>1. k - 1 \in 1..n - 1 /\ (k - 1) + 1 = k
      BY <2>2
    <3> QED BY <2>2, <3>1
  <2>6. \A i \in 1..n - 1 : \A f \in 1..upload_chan'[i] - 1 :
          Accounted(f)' \/ f = uploader' \/ \E j \in 1..i - 1 : upload_chan'[j] = f
    <3> SUFFICES ASSUME NEW i \in 1..n - 1, NEW f \in 1..upload_chan'[i] - 1,
                        ~Accounted(f)', f # uploader'
                 PROVE  \E j \in 1..i - 1 : upload_chan'[j] = f
      OBVIOUS
    <3>1. i + 1 \in 1..n /\ f \in 1..upload_chan[i + 1] - 1
      BY <2>2
    <3>2. f \in Files
      <4>1. upload_chan[i + 1] \in Files
        BY <1>3, <3>1 DEF n
      <4> QED BY <3>1, <4>1 DEF Files
    <3>3. PICK k \in 1..(i + 1) - 1 : upload_chan[k] = f
      BY <1>1, <1>2, <2>3, <3>1, <3>2 DEF n
    <3>4. k \in 1..n /\ k # 1
      BY <2>2, <3>3
    <3>5. k - 1 \in 1..i - 1
      BY <2>2, <3>4
    <3> QED BY <2>5, <3>3, <3>4, <3>5
  <2>7. \A f \in queued :
          Accounted(f)' \/ f = uploader' \/ \E j \in 1..n - 1 : upload_chan'[j] = f
    <3> SUFFICES ASSUME NEW f \in queued, ~Accounted(f)', f # uploader'
                 PROVE  \E j \in 1..n - 1 : upload_chan'[j] = f
      OBVIOUS
    <3>1. PICK k \in 1..n : upload_chan[k] = f
      BY <1>1, <1>2, <1>3, <2>3 DEF n
    <3> QED BY <2>2, <2>5, <3>1
  <2> QED BY <2>1, <2>2, <2>4, <2>6, <2>7
<1>7. CASE UploadSkip \/ Upload
  <2>1. uploader' = None /\ upload_chan' = upload_chan /\ queued' = queued /\ uploader # None
    BY <1>7 DEF UploadSkip, Upload, offloadVars
  <2>2. PICK u \in Files : u = uploader
    BY <1>3, <2>1
  <2>3. Accounted(u)'
    <3>1. CASE UploadSkip
      <4>1. u \notin DOMAIN store
        BY <2>2, <3>1 DEF UploadSkip, Seen, SamePath
      <4>2. Accounted(u)
        BY <2>1, <2>2, <4>1 DEF OffloadInv, QueuedIsStored
      <4> QED BY <1>1, <4>2
    <3>2. CASE Upload
      <4>1. u \in DOMAIN s3'
        BY <2>2, <3>2 DEF Upload, Put, With
      <4> QED BY <4>1 DEF Accounted
    <3> QED BY <1>7, <3>1, <3>2
  <2>4. \A f : Accounted(f) \/ f = uploader => Accounted(f)'
    BY <1>1, <2>2, <2>3
  <2>5. \A i \in 1..Len(upload_chan) : \A f \in 1..upload_chan[i] - 1 :
           Accounted(f)' \/ \E j \in 1..i - 1 : upload_chan[j] = f
    BY <1>2, <2>4
  <2>6. \A f \in queued : Accounted(f)' \/ \E j \in 1..Len(upload_chan) : upload_chan[j] = f
    BY <1>2, <2>4
  <2> QED BY <2>1, <2>5, <2>6
<1> QED BY <1>4, <1>5, <1>6, <1>7, UploadSteps DEF UploadOrder

\* What leaves the store, or the disk, is accounted for.
LEMMA StoredStays ==
  ASSUME OffloadInv, cloud, [Next]_vars, NEW f
  PROVE  /\ f \in DOMAIN store => f \in DOMAIN store' \/ Accounted(f)'
         /\ f \in DOMAIN wal \cup DOMAIN store => f \in DOMAIN wal' \cup DOMAIN store' \/ Accounted(f)'
<1>1. cleaner.at \in {"delete_store", "delete_wal"} => Accounted(cleaner.id)
  <2> SUFFICES ASSUME cleaner.at \in {"delete_store", "delete_wal"} PROVE Accounted(cleaner.id)
    OBVIOUS
  <2>1. /\ cleaner.id \in Files /\ cleaner.id <= cleaner.latest /\ cleaner.latest <= latest
        /\ \A g \in 1..latest : Accounted(g)
    BY DEF OffloadInv, LatestVouches
  <2>2. latest \in Int /\ cleaner.latest \in Int
    BY DEF OffloadInv, OffloadTypeOK, FileTypeOK, CleanerTypeOK, Files, None
  <2>3. cleaner.id \in 1..latest
    BY <2>1, <2>2 DEF Files
  <2> QED BY <2>1, <2>3
<1>2. CASE DeleteStoreFile
  <2>1. DOMAIN store' = DOMAIN store \ {cleaner.id} /\ wal' = wal
    BY <1>2, WithoutDomain DEF DeleteStoreFile
  <2>2. f = cleaner.id => Accounted(f)'
    BY <1>1, <1>2, AccountedStays DEF DeleteStoreFile
  <2> QED BY <2>1, <2>2
<1>3. CASE DeleteWalFile
  <2>1. DOMAIN wal' = DOMAIN wal \ {cleaner.id} /\ store' = store
    BY <1>3, WithoutDomain DEF DeleteWalFile
  <2>2. f = cleaner.id => Accounted(f)'
    BY <1>1, <1>3, AccountedStays DEF DeleteWalFile
  <2> QED BY <2>1, <2>2
<1>4. ASSUME NEW w \in Workers, DeleteWal(w)
      PROVE  /\ f \in DOMAIN store => f \in DOMAIN store'
             /\ f \in DOMAIN wal \cup DOMAIN store =>
                  f \in DOMAIN wal' \cup DOMAIN store' \/ Accounted(f)'
  <2>1. DOMAIN wal' = DOMAIN wal \ {worker[w].file} /\ store' = store
    BY <1>4, WithoutDomain DEF DeleteWal
  <2>2. f = worker[w].file => f \in DOMAIN store \/ Accounted(f)
    BY <1>4 DEF DeleteWal, OffloadInv, NothingLost
  <2> QED BY <2>1, <2>2, AccountedStays
<1>5. ASSUME NEW w \in Workers, Publish(w)
      PROVE  DOMAIN store \subseteq DOMAIN store' /\ DOMAIN wal' = DOMAIN wal
  BY <1>5 DEF Publish, With
<1>6. CASE Rotate
  <2>1. DOMAIN wal \subseteq DOMAIN wal' /\ store' = store
    BY <1>6 DEF Rotate, With
  <2> QED BY <2>1
<1>7. CASE Write
  BY <1>7 DEF Write
<1>8. CASE UNCHANGED <<wal, store>>
  BY <1>8
<1> QED
  BY <1>2, <1>3, <1>4, <1>5, <1>6, <1>7, <1>8 DEF Next, process_old_files, WorkerStep, Receive,
     StoreFails, Forward, List, ListNext, UploadStep, UploadNext, UploadSkip, Upload, UploadFails,
     CleanerStep, CheckWal, SizeWal, SizeStore, CleanNext, vars

LEMMA QueuedStep ==
  ASSUME OffloadInv, cloud, [Next]_vars
  PROVE  QueuedIsStored'
<1> USE DEF OffloadInv, OffloadTypeOK, FileTypeOK
<1>1. \A f : f \in DOMAIN store \/ Accounted(f) => f \in DOMAIN store' \/ Accounted(f)'
  BY StoredStays, AccountedStays
<1>2. /\ uploader' # None => uploader' \in queued'
      /\ \A i \in 1..Len(upload_chan') : upload_chan'[i] \in queued'
      /\ \A f \in queued' : f \in DOMAIN store' \/ Accounted(f)'
  <2>1. CASE UNCHANGED <<upload_chan, uploader, queued>>
    BY <1>1, <2>1 DEF QueuedIsStored
  <2>2. CASE \E f \in Files : UNCHANGED uploader /\ ToUpload(f) /\ (f \in DOMAIN store \/ Accounted(f))
    <3>1. PICK g \in Files : UNCHANGED uploader /\ ToUpload(g) /\ (g \in DOMAIN store \/ Accounted(g))
      BY <2>2
    <3>2. queued' = queued \cup {g} /\ uploader' = uploader
      BY <3>1 DEF ToUpload
    <3>3. /\ Len(upload_chan') = Len(upload_chan) + 1 /\ upload_chan'[Len(upload_chan) + 1] = g
          /\ \A i \in 1..Len(upload_chan) : upload_chan'[i] = upload_chan[i]
      BY <3>1, ChannelSteps DEF ToUpload
    <3>4. \A i \in 1..Len(upload_chan) + 1 : i \in 1..Len(upload_chan) \/ i = Len(upload_chan) + 1
      OBVIOUS
    <3>5. \A f \in queued' : f \in DOMAIN store' \/ Accounted(f)'
      BY <1>1, <3>1, <3>2 DEF QueuedIsStored
    <3> QED BY <3>2, <3>3, <3>4, <3>5 DEF QueuedIsStored
  <2>3. CASE UploadNext
    <3>1. upload_chan # <<>> /\ uploader' = Head(upload_chan) /\ upload_chan' = Tail(upload_chan)
          /\ queued' = queued
      BY <2>3 DEF UploadNext
    <3>2. /\ uploader' = upload_chan[1] /\ 1 \in 1..Len(upload_chan)
          /\ \A i \in 1..Len(upload_chan') :
               upload_chan'[i] = upload_chan[i + 1] /\ i + 1 \in 1..Len(upload_chan)
      BY <3>1, ChannelSteps
    <3> QED BY <1>1, <3>1, <3>2 DEF QueuedIsStored
  <2>4. CASE UploadSkip \/ Upload
    <3>1. uploader' = None /\ upload_chan' = upload_chan /\ queued' = queued
      BY <2>4 DEF UploadSkip, Upload, offloadVars
    <3> QED BY <1>1, <3>1 DEF QueuedIsStored
  <2> QED BY <2>1, <2>2, <2>3, <2>4, UploadSteps
<1>3. \A i \in 1..Len(done') : \A f : f = done'[i] => f \in DOMAIN store' \/ Accounted(f)'
  <2>1. CASE UNCHANGED done
    BY <1>1, <2>1 DEF QueuedIsStored
  <2>2. CASE Forward
    <3>1. done # <<>> /\ done' = Tail(done)
      BY <2>2 DEF Forward
    <3>2. \A i \in 1..Len(done') : done'[i] = done[i + 1] /\ i + 1 \in 1..Len(done)
      BY <3>1, ChannelSteps
    <3> QED BY <1>1, <3>2 DEF QueuedIsStored
  <2>3. ASSUME NEW w \in Workers, Publish(w)
        PROVE  \A i \in 1..Len(done') : \A f : f = done'[i] => f \in DOMAIN store' \/ Accounted(f)'
    <3>1. worker[w].file \in Files /\ done' = Append(done, worker[w].file)
      BY <2>3 DEF Publish, WorkerTypeOK
    <3>2. worker[w].file \in DOMAIN store'
      BY <2>3 DEF Publish, With
    <3>3. /\ Len(done') = Len(done) + 1 /\ done'[Len(done) + 1] = worker[w].file
          /\ \A i \in 1..Len(done) : done'[i] = done[i]
      BY <3>1, ChannelSteps
    <3>4. \A i \in 1..Len(done) + 1 : i \in 1..Len(done) \/ i = Len(done) + 1
      OBVIOUS
    <3> QED BY <1>1, <3>2, <3>3, <3>4 DEF QueuedIsStored
  <2> QED
    BY <2>1, <2>2, <2>3 DEF Next, Write, Rotate, process_old_files, WorkerStep, Receive, DeleteWal,
       StoreFails, List, ListNext, UploadStep, UploadNext, UploadSkip, Upload, UploadFails,
       CleanerStep, CheckWal, SizeWal, SizeStore, CleanNext, DeleteStoreFile, DeleteWalFile,
       workerVars, vars
<1> QED BY <1>2, <1>3 DEF QueuedIsStored, Accounted

LEMMA LatestStep ==
  ASSUME OffloadInv, OffloadTypeOK', cloud, [Next]_vars
  PROVE  LatestVouches'
<1>1. /\ latest \in Files \cup {None} /\ latest' \in Files \cup {None}
      /\ uploader \in Files \cup {None}
      /\ cleaner.latest \in Files \cup {None} /\ cleaner'.latest \in Files \cup {None}
  BY DEF OffloadInv, OffloadTypeOK, FileTypeOK, CleanerTypeOK
<1>2. /\ \A f \in 1..latest : Accounted(f)
      /\ ~SamePath => latest = None
      /\ cleaner.latest <= latest
      /\ cleaner.at \in {"delete_store", "delete_wal"} =>
           cleaner.id \in Files /\ cleaner.id <= cleaner.latest
  BY DEF OffloadInv, LatestVouches
<1>3. \A f : Accounted(f) => Accounted(f)'
  BY AccountedStays
<1>4. /\ \A f \in 1..latest' : Accounted(f)'
      /\ ~SamePath => latest' = None
      /\ latest <= latest'
  <2>1. CASE UNCHANGED latest
    BY <1>1, <1>2, <1>3, <2>1 DEF Files, None
  <2>2. CASE Upload
    <3>1. uploader \in Files /\ SamePath /\ latest' = MaxOpt(latest, uploader)
      BY <1>1, <2>2 DEF Upload, Uploaded, Seen, SamePath
    <3>2. \A f \in 1..uploader - 1 : Accounted(f)
      BY <3>1 DEF OffloadInv, UploadOrder, Files, None
    <3>3. PICK u : u = uploader
      OBVIOUS
    <3>4. u \in DOMAIN s3'
      BY <2>2, <3>3 DEF Upload, Put, With
    <3>5. Accounted(u)'
      BY <3>4 DEF Accounted
    <3>6. \A f \in 1..u : Accounted(f)'
      <4>1. \A f \in 1..u : f \in 1..u - 1 \/ f = u
        BY <3>1, <3>3 DEF Files
      <4> QED BY <1>3, <3>2, <3>3, <3>5, <4>1
    <3>7. \/ latest' = latest /\ u <= latest
          \/ latest' = u /\ latest <= u
      BY <1>1, <3>1, <3>3 DEF MaxOpt, Files, None
    <3> QED BY <1>1, <1>2, <1>3, <3>1, <3>6, <3>7 DEF Files, None
  <2> QED
    BY <2>1, <2>2 DEF Next, Write, Rotate, process_old_files, WorkerStep, Receive, Publish,
       DeleteWal, StoreFails, Forward, List, ListNext, UploadStep, UploadNext, UploadSkip,
       UploadFails, CleanerStep, CheckWal, SizeWal, SizeStore, CleanNext, DeleteStoreFile,
       DeleteWalFile, uploadVars, vars
<1>5. /\ cleaner'.latest \in {cleaner.latest, latest, None}
      /\ cleaner'.at \in {"delete_store", "delete_wal"} =>
           cleaner'.id \in Files /\ cleaner'.id <= cleaner'.latest
  <2> USE DEF CleanerTypeOK
  <2>0. CleanerTypeOK
    BY DEF OffloadInv, OffloadTypeOK
  <2>1. CASE UNCHANGED cleaner
    BY <1>2, <2>1
  <2>2. CASE cleaner' = Resting
    BY <2>2 DEF Resting
  <2>3. CASE CheckWal
    BY <2>3 DEF CheckWal, Resting
  <2>4. CASE SizeWal
    <3>1. ASSUME NEW n, cleaner' = [cleaner EXCEPT !.at = "store", !.size = n, !.files = {}]
          PROVE  cleaner'.latest = cleaner.latest /\ cleaner'.at = "store"
      BY <2>0, <3>1
    <3> QED BY <2>2, <2>4, <3>1 DEF SizeWal
  <2>5. CASE SizeStore
    <3>1. ASSUME NEW n, NEW i,
                 cleaner' = [cleaner EXCEPT !.at = "next", !.size = n, !.latest = latest, !.id = i]
          PROVE  cleaner'.latest = latest /\ cleaner'.at = "next"
      BY <2>0, <3>1
    <3> QED BY <2>2, <2>5, <3>1 DEF SizeStore, Finish
  <2>6. CASE CleanNext
    <3>1. CASE /\ cleaner' = [cleaner EXCEPT !.at = Victim]
               /\ cleaner.id \in DOMAIN wal \cup DOMAIN store
               /\ can_delete(cleaner.id)
      <4>1. cleaner'.latest = cleaner.latest /\ cleaner'.id = cleaner.id
        BY <2>0, <3>1
      <4>2. cleaner.id \in Files
        BY <3>1 DEF OffloadInv, OffloadTypeOK, FileTypeOK
      <4>3. cleaner.id <= cleaner.latest
        BY <3>1 DEF can_delete
      <4> QED BY <4>1, <4>2, <4>3
    <3> QED BY <2>2, <2>6, <3>1 DEF CleanNext, Finish
  <2>7. ASSUME NEW n, Freed(n)
        PROVE  cleaner'.latest = cleaner.latest /\ cleaner'.at = "next"
    BY <2>0, <2>7 DEF Freed
  <2> QED
    BY <2>1, <2>3, <2>4, <2>5, <2>6, <2>7 DEF Next, Write, Rotate, process_old_files, WorkerStep,
       Receive, Publish, DeleteWal, StoreFails, Forward, List, ListNext, UploadStep, UploadNext,
       UploadSkip, Upload, UploadFails, CleanerStep, DeleteStoreFile, DeleteWalFile, monitorVars, vars
<1>6. cleaner'.latest <= latest'
  BY <1>1, <1>2, <1>4, <1>5 DEF Files, None
<1> QED BY <1>4, <1>5, <1>6 DEF LatestVouches, SamePath

LEMMA LostStep ==
  ASSUME OffloadInv, cloud, [Next]_vars
  PROVE  NothingLost'
<1> USE DEF OffloadInv, OffloadTypeOK, FileTypeOK
<1>1. \A f : f \in DOMAIN wal \cup DOMAIN store \/ Accounted(f)
               => f \in DOMAIN wal' \cup DOMAIN store' \/ Accounted(f)'
  BY StoredStays, AccountedStays
<1>2. \A f : f \in DOMAIN store \/ Accounted(f) => f \in DOMAIN store' \/ Accounted(f)'
  BY StoredStays, AccountedStays
<1>3. \A f \in 1..active' : f \in DOMAIN wal' \cup DOMAIN store' \/ Accounted(f)'
  <2>1. CASE UNCHANGED active
    BY <1>1, <2>1 DEF NothingLost
  <2>2. CASE Rotate
    <3>1. active' = active + 1 /\ active + 1 \in DOMAIN wal'
      BY <2>2 DEF Rotate, With
    <3>2. \A f \in 1..active + 1 : f \in 1..active \/ f = active + 1
      BY DEF Files
    <3> QED BY <1>1, <3>1, <3>2 DEF NothingLost
  <2> QED
    BY <2>1, <2>2 DEF Next, Write, process_old_files, WorkerStep, Receive, Publish,
       DeleteWal, StoreFails, Forward, List, ListNext, UploadStep, UploadNext, UploadSkip, Upload,
       UploadFails, CleanerStep, CheckWal, SizeWal, SizeStore, CleanNext, DeleteStoreFile,
       DeleteWalFile, writerVars, vars
<1>4. ASSUME NEW w \in Workers, worker'[w].at = "delete", NEW f, f = worker'[w].file
      PROVE  f \in DOMAIN store' \/ Accounted(f)'
  <2>1. CASE worker'[w] = worker[w]
    BY <1>2, <1>4, <2>1 DEF NothingLost
  <2>2. CASE Publish(w)
    <3>1. f = worker[w].file
      BY <1>4, <2>2 DEF Publish, WorkerTypeOK
    <3>2. worker[w].file \in DOMAIN store'
      BY <2>2 DEF Publish, With
    <3> QED BY <3>1, <3>2
  <2>3. ~(Receive(w) \/ DeleteWal(w) \/ StoreFails(w))
    <3>1. Idle.at = "idle"
      BY DEF Idle
    <3>2. ~Receive(w)
      <4> SUFFICES ASSUME Receive(w) PROVE FALSE
        OBVIOUS
      <4> DEFINE R == [at |-> "write", file |-> Head(complete), size |-> wal[Head(complete)]]
      <4>1. worker'[w] = R \/ worker'[w] = Idle
        BY DEF Receive, WorkerTypeOK
      <4>2. worker'[w].at \in {"idle", "write"}
        BY <3>1, <4>1
      <4> QED BY <1>4, <4>2
    <3>3. ~(DeleteWal(w) \/ StoreFails(w))
      BY <1>4, <3>1 DEF DeleteWal, StoreFails, WorkerTypeOK
    <3> QED BY <3>2, <3>3
  <2>4. ASSUME NEW v \in Workers, WorkerStep(v), v # w PROVE worker'[w] = worker[w]
    BY <2>4 DEF WorkerStep, Receive, Publish, DeleteWal, StoreFails, WorkerTypeOK
  <2>5. CASE UNCHANGED worker
    BY <2>1, <2>5
  <2>6. CASE \E v \in Workers : WorkerStep(v)
    BY <2>1, <2>2, <2>3, <2>4, <2>6 DEF WorkerStep
  <2> QED
    BY <2>5, <2>6 DEF Next, Write, Rotate, process_old_files, Forward, List, ListNext,
       UploadStep, UploadNext, UploadSkip, Upload, UploadFails, CleanerStep, CheckWal, SizeWal,
       SizeStore, CleanNext, DeleteStoreFile, DeleteWalFile, workerVars, vars
<1> QED BY <1>3, <1>4 DEF NothingLost, Accounted

-----------------------------------------------------------------------------
\* Whatever the order of uploads, completions, failing requests and checks of
\* the disk: with an offloader, a file that neither directory has is in the
\* bucket, unless a later file was queued for upload before it.
THEOREM DeletionIsSafe == Spec => []DeletedIsUploaded
<1>1. Init => OffloadInv
  BY OffloadInit
<1>2. OffloadInv /\ [Next]_vars => OffloadInv'
  <2> SUFFICES ASSUME OffloadInv, [Next]_vars PROVE OffloadInv'
    OBVIOUS
  <2>1. OffloadTypeOK'
    BY FileTypes, WorkerTypes, CleanerTypes DEF OffloadInv, OffloadTypeOK
  <2>2. cloud' = cloud
    BY DEF Next, Write, Rotate, process_old_files, WorkerStep, Receive, Publish, DeleteWal,
       StoreFails, Forward, List, ListNext, UploadStep, UploadNext, UploadSkip, Upload,
       UploadFails, CleanerStep, CheckWal, SizeWal, SizeStore, CleanNext, DeleteStoreFile,
       DeleteWalFile, vars
  <2>3. cloud => UploadOrder' /\ QueuedIsStored' /\ LatestVouches' /\ NothingLost'
    BY <2>1, OrderStep, QueuedStep, LatestStep, LostStep
  <2> QED BY <2>1, <2>2, <2>3, Zenon DEF OffloadInv
<1>3. OffloadInv => DeletedIsUploaded
  BY DEF OffloadInv, NothingLost, DeletedIsUploaded, Gone, Accounted
<1> QED BY <1>1, <1>2, <1>3, PTL DEF Spec
=============================================================================
