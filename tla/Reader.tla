------------------------------- MODULE Reader -------------------------------
(***************************************************************************)
(* One read of a queue (normfs/src/reader_fsm): the state machine that     *)
(* tries memory, looks for the file with the first entry, goes from file   *)
(* to file through store and WAL with one file prefetched, and returns to  *)
(* memory before every file.  A file that is neither in the store nor in   *)
(* the WAL is fetched from the bucket if there is a cloud downloader.      *)
(* Between two of its steps the queue goes on (QueueFiles) and the disk    *)
(* monitor removes what has been uploaded (Offload).  A subscription, once *)
(* made, is MemFollow's.                                                   *)
(***************************************************************************)
EXTENDS QueueFiles, Lookup, SequencesExt

CONSTANTS
  Asks,           \* the reads that may be asked for: [kind, at, limit, step]
  Quiets,         \* what may not happen during the read: the queue's Forget and
                  \*   Delete, and Fail, a bucket that refuses the search
  Clouds,         \* whether there is a cloud downloader
  MaxFiles        \* bound: the newest file

ASSUME ReaderAssumption ==
  /\ Asks \subseteq [kind : {"from", "tail"}, at : Nat, limit : Nat, step : Nat \ {0}]
  /\ Quiets \subseteq SUBSET {"Forget", "Delete", "Fail"}
  /\ Clouds \subseteq BOOLEAN /\ CutEntries \in BOOLEAN /\ MaxId \in Nat /\ MaxFiles \in Nat \ {0, 1}

VARIABLES
  cloud,          \* s3_downloader is Some
  s3,             \* file -> its content, the objects that the downloader finds
  ask,
  quiet,          \* what does not happen during this read
  state,          \* the ReaderState
  start, end,     \* the first id asked for, the last one (None: no limit)
  file,           \* ctx.file_id, or current_file
  next_id,        \* ctx.next_id
  bytes,          \* wal_bytes: a file as it was when it was read
  prefetch,       \* the prefetch task
  sent,           \* what went into the sender
  seen            \* history: last_id when the read began

readerVars == <<ask, quiet, state, start, end, file, next_id, bytes, prefetch, sent, seen>>
cloudVars == <<cloud, s3>>
vars == <<queueVars, cloudVars, readerVars>>

Terminal == {"Completed", "Subscribed", "Failed"}

NoBytes == Content(0, <<>>, None)
NoPrefetch == [at |-> "none", file |-> None, bytes |-> NoBytes]

-----------------------------------------------------------------------------
(* Memory, see MemQueue and MemFollow                                       *)

\* The ids that memory holds, in order, from "from" to "to" in the read's step.
InMemory(from, to) ==
  SetToSortSeq({id \in first_id..last_id :
                  id >= from /\ id <= to /\ (id - from) % ask.step = 0}, <)

\* read_full and follow_full succeed ...
MemoryHas(from) ==
  IF end # None
  THEN last_id = None \/ from > last_id \/ (first_id # None /\ from >= first_id)
  ELSE first_id = None \/ from >= first_id

\* ... and what they send then.
MemorySends(from) ==
  IF first_id = None THEN <<>> ELSE InMemory(from, IF end = None THEN last_id ELSE end)

FromMemory(from) ==
  /\ sent' = sent \o MemorySends(from)
  /\ state' = IF end = None THEN "Subscribed" ELSE "Completed"

-----------------------------------------------------------------------------
(* The states of the reader                                                 *)

\* limit > 0: start_id + (limit - 1) * step
EndOf(from) == IF ask.limit = 0 THEN None ELSE from + (ask.limit - 1) * ask.step

LookupPositive ==
  /\ state = "LookupPositive"
  /\ UNCHANGED <<queueVars, cloudVars, ask, quiet, start, end, file, next_id, bytes, prefetch>>
  /\ start = ask.at /\ end = EndOf(ask.at)
  /\ seen' = last_id
  /\ IF MemoryHas(ask.at) THEN FromMemory(ask.at)
     ELSE state' = "LookupFile" /\ UNCHANGED sent

\* An offset of zero without a limit only subscribes; a queue without entries
\* completes a limited read and sends the others to the files.
LookupNegative ==
  /\ state = "LookupNegative"
  /\ UNCHANGED <<queueVars, cloudVars, ask, quiet, file, next_id, bytes, prefetch>>
  /\ LET from == IF last_id = None THEN 0 ELSE BackFrom(last_id, ask.at)
         got  == IF first_id = None THEN <<>> ELSE InMemory(from, EndOf(from))
         all  == IF first_id = None THEN <<>> ELSE InMemory(from, last_id)
         here == first_id # None /\ from >= first_id
     IN  IF ask.limit = 0
         THEN /\ start' = (IF ask.at = 0 THEN last_id + 1 ELSE from) /\ end' = None
              /\ IF ask.at = 0 THEN state' = "Subscribed" /\ UNCHANGED sent
                 ELSE IF here THEN state' = "Subscribed" /\ sent' = all
                 ELSE state' = "LookupFile" /\ UNCHANGED sent
         ELSE /\ start' = from /\ end' = EndOf(from)
              /\ IF last_id = None THEN state' = "Completed" /\ UNCHANGED sent
                 ELSE IF here /\ got # <<>> THEN state' = "Completed" /\ sent' = got
                 ELSE state' = "LookupFile" /\ UNCHANGED sent
  /\ seen' = last_id

\* What the probes of Lookup see of the files.
Disk(c) ==
  [store |-> [f \in DOMAIN store |-> [before |-> store[f].before, num |-> Len(store[f].ids)]],
   wal   |-> [f \in DOMAIN wal |-> wal[f].before],
   s3    |-> [f \in DOMAIN s3 |-> [before |-> s3[f].before, num |-> Len(s3[f].ids)]],
   cloud |-> c]

\* The bucket answers or not; while the search repeats its request nothing happens.
LookupFile ==
  /\ state = "LookupFile"
  /\ UNCHANGED <<queueVars, cloudVars, ask, quiet, start, end, bytes, prefetch, sent, seen>>
  /\ \E c \in IF ~cloud THEN {"none"} ELSE IF "Fail" \in quiet THEN {"up"} ELSE {"up", "down"} :
     \E disk \in {Disk(c)} :
     \E found \in {find_file(disk, start)} :
       /\ found # Hangs
       /\ IF found \in {None, NotFound}
          THEN state' = "Failed" /\ UNCHANGED <<file, next_id>>
          ELSE state' = "ReadStore" /\ file' = found /\ next_id' = start

\* The whole file, with ExtractWalBytes.
ReadStore ==
  /\ state = "ReadStore"
  /\ IF file \in DOMAIN store
     THEN state' = "ParseWalBytes" /\ bytes' = store[file]
     ELSE state' = "ReadWal" /\ UNCHANGED bytes
  /\ UNCHANGED <<queueVars, cloudVars, ask, quiet, start, end, file, next_id, prefetch, sent, seen>>

ReadWal ==
  /\ state = "ReadWal"
  /\ IF file \in DOMAIN wal
     THEN state' = "ParseWalBytes" /\ bytes' = wal[file]
     ELSE state' = (IF cloud THEN "ReadS3" ELSE "ReadNextFile") /\ UNCHANGED bytes
  /\ UNCHANGED <<queueVars, cloudVars, ask, quiet, start, end, file, next_id, prefetch, sent, seen>>

\* The download fails the read, or the object is there or not.
ReadS3 ==
  /\ state = "ReadS3"
  /\ \/ state' = "Failed" /\ UNCHANGED bytes
     \/ /\ file \in DOMAIN s3
        /\ state' = "ParseWalBytes" /\ bytes' = s3[file]
     \/ /\ file \notin DOMAIN s3
        /\ state' = "ReadNextFile" /\ UNCHANGED bytes
  /\ UNCHANGED <<queueVars, cloudVars, ask, quiet, start, end, file, next_id, prefetch, sent, seen>>

\* Mutants of Wanted: entries before the next one, and the next one left out.
Wanted_FromBegin ==
  SelectSeq(bytes.ids, LAMBDA id : (end # None => id <= end) /\ in_step(id, next_id, ask.step))

Wanted_AfterNext ==
  SelectSeq(bytes.ids, LAMBDA id : /\ id > next_id
                                   /\ end # None => id <= end
                                   /\ in_step(id, next_id, ask.step))

\* read_wal_bytes_range: the entries to send, and whether the last one asked for
\* has been met.  The header of an entry that is cut off counts for the latter.
Wanted ==
  SelectSeq(bytes.ids, LAMBDA id : /\ id >= next_id
                                   /\ end # None => id <= end
                                   /\ in_step(id, next_id, ask.step))

MetEnd == end # None /\ \E id \in ToSet(bytes.ids) \cup {bytes.torn} : id >= end

\* The next file is fetched while this one is parsed.
ParseWalBytes ==
  /\ state = "ParseWalBytes"
  /\ UNCHANGED <<queueVars, cloudVars, ask, quiet, start, end, file, seen>>
  /\ sent' = sent \o Wanted
  /\ next_id' = IF Wanted = <<>> THEN next_id ELSE Last(Wanted) + ask.step
  /\ state' = IF MetEnd THEN "Completed" ELSE "ReadNextFile"
  /\ prefetch' = IF ask.step = 1 /\ (end = None \/ next_id < end) /\ ~MetEnd
                 THEN [at |-> "store", file |-> file + 1, bytes |-> NoBytes]
                 ELSE NoPrefetch
  /\ bytes' = NoBytes

\* prefetch_next_file: the store, then the WAL, then the bucket.
PrefetchStore ==
  /\ prefetch.at = "store"
  /\ prefetch' = IF prefetch.file \in DOMAIN store
                 THEN [prefetch EXCEPT !.at = "found", !.bytes = store[prefetch.file]]
                 ELSE [prefetch EXCEPT !.at = "wal"]
  /\ UNCHANGED <<queueVars, cloudVars, ask, quiet, state, start, end, file, next_id, bytes, sent, seen>>

PrefetchWal ==
  /\ prefetch.at = "wal"
  /\ prefetch' = IF prefetch.file \in DOMAIN wal
                 THEN [prefetch EXCEPT !.at = "found", !.bytes = wal[prefetch.file]]
                 ELSE [prefetch EXCEPT !.at = IF cloud THEN "s3" ELSE "missing"]
  /\ UNCHANGED <<queueVars, cloudVars, ask, quiet, state, start, end, file, next_id, bytes, sent, seen>>

PrefetchS3 ==
  /\ prefetch.at = "s3"
  /\ \/ prefetch' = [prefetch EXCEPT !.at = "failed"]
     \/ prefetch' = IF prefetch.file \in DOMAIN s3
                    THEN [prefetch EXCEPT !.at = "found", !.bytes = s3[prefetch.file]]
                    ELSE [prefetch EXCEPT !.at = "missing"]
  /\ UNCHANGED <<queueVars, cloudVars, ask, quiet, state, start, end, file, next_id, bytes, sent, seen>>

\* The end of the queue, memory, and only then the next file.
ReadNextFile ==
  /\ state = "ReadNextFile"
  /\ UNCHANGED <<queueVars, cloudVars, ask, quiet, start, end, file, next_id, bytes, prefetch, seen>>
  /\ IF last_id # None /\ next_id > last_id THEN state' = "Completed" /\ UNCHANGED sent
     ELSE IF MemoryHas(next_id) THEN FromMemory(next_id)
     ELSE state' = "AwaitPrefetch" /\ UNCHANGED sent

\* Mutant of NextFile: without a prefetched file the same one is read again.
NextFile_Same == IF prefetch.at = "none" \/ file > MaxFiles THEN file ELSE file + 1

\* current_file.increment(); MaxFiles + 1 stands for every file id that is beyond
\* the newest file.
NextFile == IF file > MaxFiles THEN file ELSE file + 1

\* The rest of the handler, once the prefetch task has ended if there is one.
AwaitPrefetch ==
  /\ state = "AwaitPrefetch"
  /\ prefetch.at \in {"none", "found", "missing", "failed"}
  /\ file' = NextFile
  /\ state' = CASE prefetch.at = "none"    -> "ReadStore"
                [] prefetch.at = "found"   -> "ParseWalBytes"
                [] prefetch.at = "missing" -> "ReadNextFile"
                [] prefetch.at = "failed"  -> "Failed"
  /\ bytes' = prefetch.bytes
  /\ prefetch' = NoPrefetch
  /\ UNCHANGED <<queueVars, cloudVars, ask, quiet, start, end, next_id, sent, seen>>

\* The receiver goes away; the next handler that looks at the sender fails.
Disconnect ==
  /\ state \notin Terminal
  /\ state' = "Failed"
  /\ UNCHANGED <<queueVars, cloudVars, ask, quiet, start, end, file, next_id, bytes, prefetch, sent, seen>>

-----------------------------------------------------------------------------
ReaderInit ==
  /\ Init
  /\ cloud \in Clouds /\ s3 = <<>>
  /\ ask \in Asks /\ quiet \in Quiets
  /\ state = IF ask.kind = "from" THEN "LookupPositive" ELSE "LookupNegative"
  /\ start = IF ask.kind = "from" THEN ask.at ELSE 0
  /\ end = IF ask.kind = "from" THEN EndOf(ask.at) ELSE None
  /\ file = 0 /\ next_id = 0 /\ bytes = NoBytes /\ prefetch = NoPrefetch
  /\ sent = <<>> /\ seen = None

ReaderStep ==
  \/ LookupPositive \/ LookupNegative \/ LookupFile
  \/ ReadStore \/ ReadWal \/ ReadS3 \/ ParseWalBytes \/ ReadNextFile \/ AwaitPrefetch

PrefetchStep == PrefetchStore \/ PrefetchWal \/ PrefetchS3

Begun == state \notin {"LookupPositive", "LookupNegative"}

\* Memory loses nothing in this step.
Remembers == first_id' = IF first_id = None /\ last_id' > last_id THEN last_id + 1 ELSE first_id

QueueStep ==
  /\ state \notin Terminal
  /\ \/ Assign \/ Forget \/ Flush
     \/ Active < MaxFiles /\ Rotate
     \/ \E f \in DOMAIN wal : Publish(f)
     \/ (Begun => "Delete" \notin quiet) /\ \E f \in DOMAIN wal : Delete(f)
  /\ Begun /\ "Forget" \in quiet => Remembers
  /\ UNCHANGED <<cloudVars, readerVars>>

\* QueueOffloader puts a file of the store into the bucket.
Upload(f) ==
  /\ cloud /\ f \notin DOMAIN s3
  /\ s3' = With(s3, f, store[f])
  /\ UNCHANGED <<queueVars, cloud, readerVars>>

\* DiskMonitor deletes the oldest file once it has been uploaded.
Evict(f) ==
  /\ f \in DOMAIN s3 /\ f = Min(DOMAIN store \cup DOMAIN wal)
  /\ store' = Without(store, f)
  /\ UNCHANGED <<last_id, first_id, wal, cloudVars, readerVars>>

CloudStep ==
  /\ state \notin Terminal
  /\ \E f \in DOMAIN store : Upload(f) \/ Evict(f)

ReaderNext == ReaderStep \/ PrefetchStep \/ QueueStep \/ CloudStep \/ Disconnect

ReaderSpec == ReaderInit /\ [][ReaderNext]_vars

\* The runtime runs the reader's task and its prefetch task: weak fairness of
\* their steps, of which one is enabled in every state that is not terminal.
FairReaderSpec ==
  /\ ReaderSpec
  /\ []<>(state \in Terminal) \/ []<><<ReaderStep \/ PrefetchStep>>_vars

-----------------------------------------------------------------------------
\* A client sees ids of its range in its step, ascending and none twice, from
\* whatever mixture of memory, store, WAL and prefetched files they come and
\* whatever moves meanwhile.
SentInOrder ==
  /\ \A i, j \in 1..Len(sent) : i < j => sent[i] < sent[j]
  /\ \A i \in 1..Len(sent) :
       /\ sent[i] >= start /\ sent[i] <= last_id
       /\ end # None => sent[i] <= end
       /\ (sent[i] - start) % ask.step = 0

\* The ids of the range that existed when the read began.
Due ==
  {id \in start..seen : id <= end /\ (id - start) % ask.step = 0}

\* No file has the remains of an entry that was cut off.
Whole == \A files \in {wal, store, s3} : \A f \in DOMAIN files : files[f].torn = None

\* "Read operation completed successfully": a limited read that completes has
\* sent every entry of its range that existed when it began, and left out none
\* before one it has sent, if memory forgets nothing while it goes on and the
\* search is not refused by the bucket; the disk monitor may remove files.
CompletedIsComplete ==
  state = "Completed" /\ end # None /\ {"Forget", "Fail"} \subseteq quiet /\ Whole =>
    /\ Due \subseteq ToSet(sent)
    /\ \A i \in 1..Len(sent) : sent[i] = start + (i - 1) * ask.step

\* A read ends, if memory forgets nothing while it goes on: the walk from file to
\* file meets memory or the end of the queue.
ReadEnds == <>(state \in Terminal \/ "Forget" \notin quiet \/ ~Whole)
=============================================================================
