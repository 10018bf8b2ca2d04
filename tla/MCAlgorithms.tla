---------------------------- MODULE MCAlgorithms ----------------------------
(***************************************************************************)
(* The algorithms of the system on all small inputs, a question at a time: *)
(* the search for an entry's file on every small layout of files, against  *)
(* the definition of the file that holds the entry; the search for the     *)
(* oldest and the newest file in a directory; and the arithmetic of        *)
(* identifiers.                                                            *)
(***************************************************************************)
EXTENDS Paths, Identifiers

L == INSTANCE Lookup

CONSTANTS
  MaxFiles,        \* bound: files of a queue
  Counts,          \* how many entries a file may have
  Kinds,           \* where a file may be: "wal", "store", "headless", "s3", "gone"
  Clouds,          \* the downloader: "none", "up", "down"
  MaxFileId,       \* bound: the newest file in the directory
  Spans            \* bound: how far apart its files may be

VARIABLES
  question,
  sizes, kinds, cloud, target, answer,
  directory

lookupVars == <<sizes, kinds, cloud, target, answer>>
vars == <<question, lookupVars, directory, idVars>>

\* Types of 1, 2, 4, 8 and 16 bits for the five native ones; the client has the
\* first four, as in the code.
CapDef == <<2, 4, 16, 256, 65536>>
GoCapDef == <<2, 4, 16, 256>>

NotAsked == -3

\* The id of the first entry of each file: entries are numbered through.
Before(f) == FoldSet(LAMBDA g, sum : sizes[g] + sum, 0, 1..f - 1)

Of(kind) == {f \in DOMAIN kinds : kinds[f] = kind}

Disk ==
  [store |-> [f \in Of("store") |-> [before |-> Before(f), num |-> sizes[f]]],
   wal   |-> [f \in Of("wal") \cup Of("headless") |->
                IF kinds[f] = "wal" THEN Before(f) ELSE L!None],
   s3    |-> [f \in Of("s3") |-> [before |-> Before(f), num |-> sizes[f]]],
   cloud |-> cloud]

\* The file that holds the entry, if a file within reach does.
Owner(entry) ==
  {f \in Of("store") \cup Of("wal") \cup IF cloud = "up" THEN Of("s3") ELSE {} :
     entry \in Before(f)..Before(f) + sizes[f] - 1}

\* A file without a header has no entries; the oldest file is not such a file,
\* and it has entries once it is in the store.  Files leave for the bucket from
\* the oldest on.  How many entries a lost file had only shifts the others.
LookupInit ==
  /\ \E n \in 1..MaxFiles :
       /\ sizes \in [1..n -> Counts]
       /\ kinds \in [1..n -> Kinds]
  /\ \A f \in Of("headless") : sizes[f] = 0
  /\ \A f \in Of("gone") : sizes[f] <= 1
  /\ kinds[1] \in {"wal", "store", "s3"} /\ (kinds[1] # "wal" => sizes[1] > 0)
  /\ cloud \in Clouds /\ (cloud = "none" => Of("s3") = {})
  /\ \A f \in Of("s3") : \A g \in 1..f - 1 : kinds[g] \in {"s3", "gone"}
  /\ target \in 0..Before(Len(sizes)) + sizes[Len(sizes)]
  /\ answer = NotAsked

LookupNext ==
  /\ answer = NotAsked
  /\ answer' = L!find_file(Disk, target)
  /\ UNCHANGED <<sizes, kinds, cloud, target>>

Unasked == sizes = <<>> /\ kinds = <<>> /\ cloud = "none" /\ target = 0 /\ answer = NotAsked

\* All sets of files between an oldest and a newest one.
DirectoryInit ==
  \E oldest \in 0..MaxFileId : \E span \in Spans :
    /\ oldest + span <= MaxFileId
    /\ \E between \in SUBSET (oldest + 1..oldest + span - 1) :
         directory = between \cup {oldest, oldest + span}

Init ==
  \/ question = "entry" /\ LookupInit /\ directory = {} /\ IdInit
  \/ question = "directory" /\ Unasked /\ DirectoryInit /\ IdInit
  \/ question = "identifier" /\ Unasked /\ directory = {} /\ IdInit

Next ==
  \/ question = "entry" /\ LookupNext /\ UNCHANGED <<question, directory, idVars>>
  \/ question = "identifier" /\ IdNext /\ UNCHANGED <<question, directory, lookupVars>>

Spec == Init /\ [][Next]_vars

-----------------------------------------------------------------------------
\* A reader starts at the file lookup names and only goes to later files: for an
\* entry that some file holds, here or in the bucket, find_file_with_s3 never
\* names a later one.
NeverPastOwner == \A f \in Owner(target) : answer <= f

\* With all files within reach and none empty, find_file_with_s3 names exactly
\* the file that holds the entry, wherever the moves to the store and to the
\* bucket have got to; the active file is local.
OwnerIsExact ==
  (/\ answer # NotAsked
   /\ \A f \in DOMAIN kinds : kinds[f] \in {"wal", "store", "s3"} /\ sizes[f] > 0
   /\ cloud = "down" => Of("s3") = {}
   /\ kinds[Len(kinds)] # "s3") =>
    \A f \in Owner(target) : answer = f

\* find_max_id and find_min_id name the newest and the oldest file of every
\* directory whose files are not too far apart, see Paths.
SearchIsExact == DirectorySearchIsExact(directory)

\* The server's arithmetic of identifiers is exact after any operations, see
\* Identifiers.
ServerIsExact == question = "identifier" => ArithmeticIsExact

\* The Go client's identifiers agree with the server's, see Identifiers.
ClientIsExact == question = "identifier" => ClientAgrees
=============================================================================
