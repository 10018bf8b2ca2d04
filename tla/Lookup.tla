------------------------------- MODULE Lookup -------------------------------
(***************************************************************************)
(* Which file holds an entry (normfs/src/lookup.rs).  The search sees a    *)
(* file through three probes: store and bucket know the first and the last *)
(* id of a file with entries, a WAL header knows the first only.  A disk   *)
(* is                                                                      *)
(*   [store |-> file -> [before, num],  wal |-> file -> before or None,    *)
(*    s3 |-> file -> [before, num],  cloud |-> "none", "up" or "down"]     *)
(* where None stands for a header that cannot be read (WalEmpty), and      *)
(* cloud for the downloader: there is none, it answers, or it fails.       *)
(***************************************************************************)
EXTENDS Ids, FiniteSetsExt

NotFound == -2      \* Err(..): the reader fails with NotFound
Hangs == -4         \* no answer: the same request to the bucket for ever

\* PersistStore::get_file_range is Some.
Stored(disk, f) == f \in DOMAIN disk.store /\ disk.store[f].num > 0

\* One of the two local probes answers.
Known(disk, f) == Stored(disk, f) \/ (f \in DOMAIN disk.wal /\ disk.wal[f] # None)

\* The bucket is asked for a file that no local directory has ...
AsksCloud(disk, f) == disk.cloud # "none" /\ ~Stored(disk, f) /\ f \notin DOMAIN disk.wal

\* ... and CloudDownloader::get_file_range is Some.
InCloud(disk, f) ==
  AsksCloud(disk, f) /\ disk.cloud = "up" /\ f \in DOMAIN disk.s3 /\ disk.s3[f].num > 0

Found(disk, f) == Known(disk, f) \/ InCloud(disk, f)

\* The header of the store's copy, here or in the bucket.
Header(disk, f) == IF Stored(disk, f) THEN disk.store[f] ELSE disk.s3[f]

FileStart(disk, f) ==
  IF Known(disk, f) /\ ~Stored(disk, f) THEN disk.wal[f] ELSE Header(disk, f).before

\* Mutants of FileEnd: one id too many, one too few.
FileEnd_Exclusive(disk, f) ==
  IF Known(disk, f) /\ ~Stored(disk, f) THEN None ELSE Header(disk, f).before + Header(disk, f).num

FileEnd_Short(disk, f) ==
  IF Known(disk, f) /\ ~Stored(disk, f) THEN None ELSE Header(disk, f).before + Header(disk, f).num - 2

FileEnd(disk, f) ==
  IF Known(disk, f) /\ ~Stored(disk, f) THEN None ELSE Header(disk, f).before + Header(disk, f).num - 1

find_valid_file_backward(disk, from, min) ==
  LET known == {f \in min..from : Known(disk, f)}
  IN  IF known = {} THEN None ELSE Max(known)

RECURSIVE binary_search(_, _, _, _, _, _)
binary_search(disk, target, left, right, left_end, right_start) ==
  LET mid   == (left + right) \div 2
      valid == find_valid_file_backward(disk, mid, left + 1)
      next  == mid + 1
  IN
  IF left = right THEN left
  ELSE IF left + 1 = right
       THEN IF target <= left_end \/ (left_end = None /\ target < right_start)
            THEN left ELSE right
  ELSE IF ~Found(disk, mid)
       THEN IF AsksCloud(disk, mid) THEN IF disk.cloud = "up" THEN NotFound ELSE Hangs
            ELSE IF valid = None THEN left
            ELSE binary_search(disk, target, left, valid,
                               FileEnd(disk, valid), FileStart(disk, valid))
  ELSE IF target < FileStart(disk, mid)
       THEN binary_search(disk, target, left, mid, left_end, FileStart(disk, mid))
  ELSE IF FileEnd(disk, mid) # None
       THEN IF target <= FileEnd(disk, mid) THEN mid
            ELSE binary_search(disk, target, mid, right, FileEnd(disk, mid), right_start)
  ELSE IF ~Found(disk, next)
       THEN IF AsksCloud(disk, next) /\ disk.cloud = "down" THEN mid ELSE NotFound
  ELSE IF target < FileStart(disk, next) THEN mid
  ELSE binary_search(disk, target, mid, right, None, right_start)

\* find_file_with_s3: a file, None when the queue is reported as not found.  The
\* oldest file may be in the bucket only, the newest is a local one.
find_file(disk, target) ==
  LET local == DOMAIN disk.store \cup DOMAIN disk.wal
      first == Min(local \cup IF disk.cloud = "up" THEN DOMAIN disk.s3 ELSE {})
      last  == find_valid_file_backward(disk, Max(local), first)
  IN
  IF local = {} THEN None
  ELSE IF ~Found(disk, first)
       THEN IF first \in DOMAIN disk.wal \/ AsksCloud(disk, first) THEN None ELSE NotFound
  ELSE IF target < FileStart(disk, first) \/ target <= FileEnd(disk, first) THEN first
  ELSE IF last = None THEN None
  ELSE IF target > FileStart(disk, last) THEN last
  ELSE binary_search(disk, target, first, last, FileEnd(disk, first), FileStart(disk, last))
=============================================================================
