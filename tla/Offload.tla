------------------------------ MODULE Offload -------------------------------
(***************************************************************************)
(* The size limit of a queue and its copy in the cloud: DiskMonitor        *)
(* (normfs/src/offload/disk_monitor.rs) measures the queue's directories   *)
(* and deletes the oldest files when they are too large; QueueOffloader    *)
(* (normfs-cloud/src/offloader.rs) uploads the store's files and tells the *)
(* monitor the largest file id it has uploaded.  Around them go on: the    *)
(* WAL writer, which fills and rotates files, the store's workers, which   *)
(* turn WAL files into store files, and the task that forwards the store's *)
(* completions to the offloader.                                           *)
(*                                                                         *)
(* A file is its size here, in units of which a full WAL file has          *)
(* MaxFileSize; the store's copy is compressed and may be smaller.         *)
(***************************************************************************)
EXTENDS Ids, FiniteSetsExt, SequencesExt

CONSTANTS
  Root,            \* the path NormFS is opened at, as a sequence of names
  QueuePath,       \* QueueId.path, which begins with a slash: its names
  MaxFileSize,     \* wal_settings.max_file_size
  MaxSize,         \* config.max_size
  Packed,          \* size of a WAL file -> size of the store's copy
  Starts,          \* what a queue may start with: [cloud, stored, uploaded, old]
  Workers,         \* the store's workers
  MaxFiles,        \* bound: the newest file
  MaxRemoteErrors  \* bound: how often a request to S3 fails

\* DiskMonitorConfig::validate
ASSUME OffloadAssumption ==
  /\ MaxFileSize \in Nat \ {0} /\ MaxSize \in Nat /\ MaxSize >= 3 * MaxFileSize
  /\ Packed \in [0..MaxFileSize -> 0..MaxFileSize]
  /\ Starts \subseteq [cloud : BOOLEAN, stored : Nat, uploaded : SUBSET Nat, old : Nat]
  /\ MaxFiles \in Nat /\ MaxRemoteErrors \in Nat

VARIABLES
  cloud,           \* the monitor has an offloader
  active,          \* the file the WAL writer has open
  wal, store,      \* file -> size, in the queue's two directories
  old,             \* files process_old_files has not sent yet
  complete,        \* the channel of complete WAL files
  worker,          \* what each worker of the store is doing
  done,            \* the channel of store completions
  monitor,         \* "adding", "monitored" or "failed": add_queue
  cleaner,         \* check_and_cleanup, where it is and its variables
  listing,         \* initialize_upload_queue
  upload_chan,     \* offload_sender
  uploader,        \* the file offload_worker is at
  latest,          \* latest_offloaded_id
  s3,              \* file -> size, the objects under the offloader's prefix
  remote_errors,
  queued,          \* history: the files that were ever in upload_chan ...
  overtaken,       \* ... and those a later file got there before
  calm             \* history: during this check no file went from WAL to store

writerVars   == <<active, old, complete>>
workerVars   == <<worker, done>>
monitorVars  == <<monitor, cleaner, calm>>
offloadVars  == <<listing, upload_chan, queued, overtaken>>
uploadVars   == <<uploader, latest, s3, remote_errors>>
vars == <<cloud, wal, store, writerVars, workerVars, monitorVars, offloadVars, uploadVars>>

With(f, x, v) == [y \in DOMAIN f \cup {x} |-> IF y = x THEN v ELSE f[y]]
Without(f, x) == [y \in DOMAIN f \ {x} |-> f[y]]
TotalSize(f) == FoldFunction(LAMBDA a, b : a + b, 0, f)

-----------------------------------------------------------------------------
(* Directories                                                              *)

\* QueueId::to_fs_path, the directory that the WAL and the store use: the slash
\* in front of the queue's path is cut off.
to_fs_path == Root \o QueuePath

\* Path::join, when what is joined begins with a slash: it replaces the base.
join(base, absolute) == absolute

\* root_path.join(&queue_id), the directory that monitor and offloader use.
MonitoredPath == join(Root, QueuePath)

\* What they see of the files in one of the queue's directories.
Seen(files) == IF MonitoredPath = to_fs_path THEN files ELSE <<>>

-----------------------------------------------------------------------------
(* WAL writer and store, see WalWriter and Recovery                         *)

\* An append to the active file, also to one that has been unlinked.
Write ==
  /\ active \in DOMAIN wal
  /\ wal[active] < MaxFileSize
  /\ wal' = [wal EXCEPT ![active] = @ + 1]
  /\ UNCHANGED <<cloud, store, writerVars, workerVars, monitorVars, offloadVars, uploadVars>>

Rotate ==
  /\ active < MaxFiles
  /\ active \in DOMAIN wal => wal[active] > 0
  /\ active' = active + 1
  /\ wal' = With(wal, active + 1, 0)
  /\ complete' = Append(complete, active)
  /\ UNCHANGED <<cloud, store, old, workerVars, monitorVars, offloadVars, uploadVars>>

\* WalStore::process_old_files, a task of its own: new files may be complete
\* before it gets to send the old ones.
process_old_files ==
  /\ old # <<>>
  /\ complete' = Append(complete, Head(old))
  /\ old' = Tail(old)
  /\ UNCHANGED <<cloud, active, wal, store, workerVars, monitorVars, offloadVars, uploadVars>>

Idle == [at |-> "idle", file |-> 0, size |-> 0]

\* A worker receives a complete file and process_entry reads it; without it the
\* worker gives up.
Receive(w) ==
  /\ worker[w].at = "idle" /\ complete # <<>>
  /\ LET f == Head(complete)
     IN  worker' = [worker EXCEPT ![w] =
           IF f \in DOMAIN wal THEN [at |-> "write", file |-> f, size |-> wal[f]] ELSE Idle]
  /\ complete' = Tail(complete)
  /\ UNCHANGED <<cloud, active, wal, store, old, done, monitorVars, offloadVars, uploadVars>>

\* write_store_file: the rename, and store_done_tx.send right behind it.
Publish(w) ==
  /\ worker[w].at = "write"
  /\ store' = With(store, worker[w].file, Packed[worker[w].size])
  /\ done' = Append(done, worker[w].file)
  /\ worker' = [worker EXCEPT ![w].at = "delete"]
  /\ calm' = FALSE
  /\ UNCHANGED <<cloud, wal, writerVars, monitor, cleaner, offloadVars, uploadVars>>

\* delete_wal_file
DeleteWal(w) ==
  /\ worker[w].at = "delete"
  /\ wal' = Without(wal, worker[w].file)
  /\ worker' = [worker EXCEPT ![w] = Idle]
  /\ calm' = FALSE
  /\ UNCHANGED <<cloud, store, writerVars, done, monitor, cleaner, offloadVars, uploadVars>>

\* Writing the copy or deleting fails: the WAL file stays where it is.
StoreFails(w) ==
  /\ worker[w].at \in {"write", "delete"}
  /\ worker' = [worker EXCEPT ![w] = Idle]
  /\ UNCHANGED <<cloud, wal, store, writerVars, done, monitorVars, offloadVars, uploadVars>>

WorkerStep(w) ==
  Receive(w) \/ Publish(w) \/ DeleteWal(w) \/ StoreFails(w)

-----------------------------------------------------------------------------
(* The offloader                                                            *)

\* offload_sender.send
ToUpload(f) ==
  /\ upload_chan' = Append(upload_chan, f)
  /\ queued' = queued \cup {f}
  /\ overtaken' = overtaken \cup (1..f - 1 \ queued)

\* The task that forwards completions: enqueue_for_offload refuses a queue that
\* add_queue has not put into the map yet, and the completion is only logged.
Forward ==
  /\ done # <<>>
  /\ done' = Tail(done)
  /\ IF cloud /\ monitor = "monitored" THEN ToUpload(Head(done))
     ELSE UNCHANGED <<upload_chan, queued, overtaken>>
  /\ UNCHANGED <<cloud, wal, store, writerVars, worker, monitorVars, listing, uploadVars>>

\* initialize_upload_queue_static, a detached task: the smallest and the largest
\* file in the store ...
List ==
  /\ listing.at = "list"
  /\ listing' = IF DOMAIN Seen(store) = {} THEN [listing EXCEPT !.at = "ended"]
                ELSE [at |-> "send", id |-> Min(DOMAIN store), max_id |-> Max(DOMAIN store)]
  /\ UNCHANGED <<cloud, wal, store, writerVars, workerVars, monitorVars, upload_chan,
                 queued, overtaken, uploadVars>>

\* ... and then whatever exists between them.
ListNext ==
  /\ listing.at = "send"
  /\ IF listing.id \in DOMAIN store THEN ToUpload(listing.id)
     ELSE UNCHANGED <<upload_chan, queued, overtaken>>
  /\ listing' = IF listing.id = listing.max_id THEN [listing EXCEPT !.at = "ended"]
                ELSE [listing EXCEPT !.id = @ + 1]
  /\ UNCHANGED <<cloud, wal, store, writerVars, workerVars, monitorVars, uploadVars>>

\* offload_worker takes the next file.
UploadNext ==
  /\ uploader = None /\ upload_chan # <<>>
  /\ uploader' = Head(upload_chan)
  /\ upload_chan' = Tail(upload_chan)
  /\ UNCHANGED <<cloud, wal, store, writerVars, workerVars, monitorVars, listing, queued,
                 overtaken, latest, s3, remote_errors>>

\* LocalFileError: the file is skipped.
UploadSkip ==
  /\ uploader # None /\ uploader \notin DOMAIN Seen(store)
  /\ uploader' = None
  /\ UNCHANGED <<cloud, wal, store, writerVars, workerVars, monitorVars, offloadVars,
                 latest, s3, remote_errors>>

\* The file has been put into the bucket; an object of the same size, which
\* is_file_offloaded takes for it, stays.
Put == s3' = With(s3, uploader, store[uploader])

\* latest_offloaded_id only grows.
Uploaded == latest' = MaxOpt(latest, uploader)

\* is_file_offloaded, and upload_file if it is not.
Upload ==
  /\ uploader # None /\ uploader \in DOMAIN Seen(store)
  /\ Put
  /\ Uploaded
  /\ uploader' = None
  /\ UNCHANGED <<cloud, wal, store, writerVars, workerVars, monitorVars, offloadVars,
                 remote_errors>>

\* Mutant of UploadFails: the file is given up.
UploadFails_Skip ==
  /\ uploader # None /\ uploader \in DOMAIN Seen(store)
  /\ remote_errors < MaxRemoteErrors
  /\ remote_errors' = remote_errors + 1
  /\ uploader' = None
  /\ UNCHANGED <<cloud, wal, store, writerVars, workerVars, monitorVars, offloadVars, latest, s3>>

\* RemoteError: all over again a second later.  The object may have got there.
UploadFails ==
  /\ uploader # None /\ uploader \in DOMAIN Seen(store)
  /\ remote_errors < MaxRemoteErrors
  /\ remote_errors' = remote_errors + 1
  /\ UNCHANGED s3 \/ Put
  /\ UNCHANGED <<cloud, wal, store, writerVars, workerVars, monitorVars, offloadVars,
                 uploader, latest>>

UploadStep == UploadNext \/ UploadSkip \/ Upload \/ UploadFails

-----------------------------------------------------------------------------
(* The disk monitor                                                         *)

Resting == [at |-> "idle", files |-> {}, size |-> 0, id |-> 0, latest |-> None]

\* check_and_cleanup returns; for add_queue's own check that is the moment the
\* queue enters the map of monitors.
Finish ==
  /\ cleaner' = Resting
  /\ monitor' = IF monitor = "adding" THEN "monitored" ELSE monitor

\* A tick of the interval, or add_queue's check: get_queue_size lists the WAL.
CheckWal ==
  /\ \/ cleaner.at = "idle" /\ monitor = "monitored"
     \/ cleaner.at = "first"
  /\ cleaner' = [Resting EXCEPT !.at = "wal", !.files = DOMAIN Seen(wal)]
  /\ calm' = (Cardinality(DOMAIN wal \cap DOMAIN store) <= 2)
  /\ UNCHANGED <<cloud, wal, store, writerVars, workerVars, monitor, offloadVars, uploadVars>>

\* It asks for the size of what it has listed.  A file that a worker has deleted
\* since fails the check, and with it add_queue.
SizeWal ==
  /\ cleaner.at = "wal"
  /\ IF cleaner.files \subseteq DOMAIN wal
     THEN /\ cleaner' = [cleaner EXCEPT !.at = "store",
                           !.size = TotalSize([f \in cleaner.files |-> wal[f]]), !.files = {}]
          /\ UNCHANGED monitor
     ELSE /\ cleaner' = Resting
          /\ monitor' = IF monitor = "adding" THEN "failed" ELSE monitor
  /\ UNCHANGED <<cloud, wal, store, writerVars, workerVars, calm, offloadVars, uploadVars>>

\* The same for the store.  Above the limit, cleanup_oldest_files asks the
\* offloader for its latest id and begins with the oldest file of both
\* directories; from here on size is size_to_free.
SizeStore ==
  /\ cleaner.at = "store"
  /\ LET size  == cleaner.size + TotalSize(Seen(store))
         files == DOMAIN Seen(wal) \cup DOMAIN Seen(store)
     IN  IF size > MaxSize /\ files # {}
         THEN /\ cleaner' = [cleaner EXCEPT !.at = "next", !.size = size - MaxSize,
                               !.latest = latest, !.id = Min(files)]
              /\ UNCHANGED monitor
         ELSE Finish
  /\ UNCHANGED <<cloud, wal, store, writerVars, workerVars, calm, offloadVars, uploadVars>>

\* Mutants of can_delete: only what has been uploaded, even without an offloader;
\* and an offloader that has uploaded nothing is no offloader.
can_delete_UploadedOnly(id) == id <= cleaner.latest

can_delete_NoneYet(id) == cleaner.latest = None \/ id <= cleaner.latest

can_delete(id) == IF cleaner.latest # None THEN id <= cleaner.latest ELSE ~cloud

\* Of a file in both directories only the store's copy is deleted.
Victim == IF cleaner.id \in DOMAIN store THEN "delete_store" ELSE "delete_wal"

\* The head of the loop.
CleanNext ==
  /\ cleaner.at = "next"
  /\ IF /\ cleaner.size > 0
        /\ cleaner.id \in DOMAIN wal \cup DOMAIN store
        /\ can_delete(cleaner.id)
     THEN cleaner' = [cleaner EXCEPT !.at = Victim] /\ UNCHANGED monitor
     ELSE Finish
  /\ UNCHANGED <<cloud, wal, store, writerVars, workerVars, calm, offloadVars, uploadVars>>

\* Mutant of Freed: what is deleted does not count.
Freed_Nothing(size) == cleaner' = [cleaner EXCEPT !.at = "next", !.id = @ + 1]

\* size_to_free.saturating_sub, and current_id.increment.  A file that is gone
\* by now frees nothing.
Freed(size) ==
  cleaner' = [cleaner EXCEPT !.at = "next", !.id = @ + 1,
                             !.size = IF size > @ THEN 0 ELSE @ - size]

DeleteStoreFile ==
  /\ cleaner.at = "delete_store"
  /\ Freed(IF cleaner.id \in DOMAIN store THEN store[cleaner.id] ELSE 0)
  /\ store' = Without(store, cleaner.id)
  /\ UNCHANGED <<cloud, wal, writerVars, workerVars, monitor, calm, offloadVars, uploadVars>>

DeleteWalFile ==
  /\ cleaner.at = "delete_wal"
  /\ Freed(IF cleaner.id \in DOMAIN wal THEN wal[cleaner.id] ELSE 0)
  /\ wal' = Without(wal, cleaner.id)
  /\ UNCHANGED <<cloud, store, writerVars, workerVars, monitor, calm, offloadVars, uploadVars>>

CleanerStep ==
  CheckWal \/ SizeWal \/ SizeStore \/ CleanNext \/ DeleteStoreFile \/ DeleteWalFile

-----------------------------------------------------------------------------
\* start_queue has started the writer, spawned process_old_files and called
\* add_queue.  The bucket may hold uploads of earlier processes.
Init ==
  /\ \E start \in Starts :
       /\ cloud = start.cloud
       /\ store = [f \in 1..start.stored |-> Packed[MaxFileSize]]
       /\ wal = [f \in start.stored + 1..start.stored + start.old + 1 |->
                   IF f <= start.stored + start.old THEN MaxFileSize ELSE 0]
       /\ active = start.stored + start.old + 1
       /\ old = [i \in 1..start.old |-> start.stored + i]
       /\ s3 = [f \in start.uploaded |-> Packed[MaxFileSize]]
  /\ complete = <<>> /\ done = <<>> /\ upload_chan = <<>>
  /\ worker = [w \in Workers |-> Idle]
  /\ monitor = "adding"
  /\ cleaner = [Resting EXCEPT !.at = "first"]
  /\ listing = [at |-> IF cloud THEN "list" ELSE "ended", id |-> 0, max_id |-> 0]
  /\ uploader = None /\ latest = None /\ remote_errors = 0
  /\ queued = {} /\ overtaken = {} /\ calm = TRUE

Next ==
  \/ Write \/ Rotate \/ process_old_files
  \/ \E w \in Workers : WorkerStep(w)
  \/ Forward \/ List \/ ListNext \/ UploadStep
  \/ CleanerStep

Spec == Init /\ [][Next]_vars

\* All tasks are scheduled by the runtime and the interval keeps ticking; writes
\* need not come, and failing requests are bounded by MaxRemoteErrors.
Fairness ==
  /\ WF_vars(process_old_files) /\ \A w \in Workers : WF_vars(WorkerStep(w))
  /\ WF_vars(Forward) /\ WF_vars(List \/ ListNext)
  /\ WF_vars(UploadStep) /\ WF_vars(CleanerStep)

FairSpec == Spec /\ Fairness

-----------------------------------------------------------------------------
\* Files nobody has any more: neither directory, nor a worker that has read it.
Gone ==
  1..active \ (DOMAIN wal \cup DOMAIN store
                 \cup {worker[w].file : w \in {v \in Workers : worker[v].at = "write"}})

\* "Check if file has been offloaded before deleting": with an offloader, what
\* the disk no longer has is in the bucket, if it was queued for upload before
\* any later file was.
DeletedIsUploaded == cloud => Gone \subseteq DOMAIN s3 \cup overtaken

\* Files with entries; the next process continues behind the newest of them, and
\* does not ask the bucket for it.
NonEmpty == {f \in DOMAIN wal : wal[f] > 0} \cup {f \in DOMAIN store : store[f] > 0}

\* The file that is being written is never deleted with an offloader; without one
\* the limit of three files protects it, as long as no more than two files are
\* in both directories and none moves from one to the other during the check.
\* Under that condition the newest file with entries is never deleted either, so
\* that recovery finds the id to continue from.
TailSurvives ==
  [][/\ (cloud \/ calm) /\ active \in DOMAIN wal => active \in DOMAIN (wal')
     /\ calm' /\ NonEmpty # {} => Max(NonEmpty) \in DOMAIN (wal') \cup DOMAIN (store')]_vars

Usage == TotalSize(wal) + TotalSize(store)

\* Some file was never queued for upload, so that nothing allows its deletion.
Stuck == cloud /\ \E f \in DOMAIN wal \cup DOMAIN store : f < active /\ f \notin queued

\* A queue that has been added to the monitor comes back within its limit once
\* the writes pause.
LimitIsKept == <>[](Usage <= MaxSize \/ Stuck \/ monitor = "failed")

\* "Maximum size in bytes for a queue (store + wal combined)": the same, without
\* exceptions, for a queue without an offloader.
MaximumSize == <>[](Usage <= MaxSize \/ monitor = "failed")

\* Every file in the upload queue gets to the bucket, through failing requests,
\* unless it is deleted before.
QueuedIsUploaded ==
  \A f \in 1..MaxFiles :
    f \in ToSet(upload_chan) ~> f \in DOMAIN s3 \/ f \notin DOMAIN store
=============================================================================
