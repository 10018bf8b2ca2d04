------------------------------- MODULE Paths --------------------------------
(***************************************************************************)
(* Where the file with an id is, and how the smallest and the largest id   *)
(* are found again (uintn-rs/src/paths.rs, to_file_path in                 *)
(* uintn-rs/src/lib.rs, normfs-cloud/src/paths.rs).                        *)
(*                                                                         *)
(* The hexadecimal digits of an id are cut into names of three; all but    *)
(* the last are directories.  A path is the sequence of its names, a name  *)
(* is a number below Base.  A directory is the set of the paths below it;  *)
(* directories without files are found, and count for nothing.             *)
(***************************************************************************)
EXTENDS Integers, Sequences, FiniteSetsExt

CONSTANT Base      \* the names of three digits: 16^3

RECURSIVE to_file_path(_)
to_file_path(id) ==
  IF id < Base THEN <<id>> ELSE Append(to_file_path(id \div Base), id % Base)

\* path_to_id, and the same lines in find_max_id, find_min_id and get_files_ids
path_to_id(path) ==
  LET upTo[i \in 0..Len(path)] == IF i = 0 THEN 0 ELSE Base * upTo[i - 1] + path[i]
  IN  upTo[Len(path)]

get_files_ids(files) == {path_to_id(p) : p \in files}

-----------------------------------------------------------------------------
\* Mutant of Better: names are compared as strings, the first one decides.
Better_ByName(sign, p, q) == sign * Head(p) >= sign * Head(q)

\* max_by and min_by compare the ids of the paths, relative to the directory
\* that is being searched.
Better(sign, p, q) == sign * path_to_id(p) >= sign * path_to_id(q)

\* The best of what the subdirectories have come up with, found[d] being what d
\* may have: of equal ones the order of read_dir decides.
BestOf(sign, found) ==
  UNION {{p \in found[d] : \A e \in DOMAIN found \ {d} : \E q \in found[e] : Better(sign, p, q)} :
           d \in DOMAIN found}

\* find_max_id_recursive for sign 1, find_min_id_recursive for sign -1: what they
\* may return, nothing for NoFilesFound.
RECURSIVE find_id_recursive(_, _)
find_id_recursive(sign, files) ==
  LET below(d) == {Tail(p) : p \in {q \in files : Len(q) > 1 /\ Head(q) = d}}
      dirs     == {Head(p) : p \in {q \in files : Len(q) > 1}}
      found    == [d \in dirs |-> {<<d>> \o p : p \in find_id_recursive(sign, below(d))}]
      here     == {q \in files : Len(q) = 1}
      fromDirs  == BestOf(sign, found)
      fromFiles == {p \in here : \A q \in here : Better(sign, p, q)}
  IN  IF fromDirs = {} THEN fromFiles
      ELSE IF fromFiles = {} THEN fromDirs
      ELSE {IF Better(sign, p[1], p[2]) THEN p[1] ELSE p[2] : p \in fromDirs \X fromFiles}

find_max_id(files) == get_files_ids(find_id_recursive(1, files))

find_min_id(files) == get_files_ids(find_id_recursive(-1, files))

\* The same in the bucket: the smallest file at the top; below it the search
\* only looks for directories whose name is a single digit, and there are none.
cloud_find_min_id(files) ==
  LET here == {p \in files : Len(p) = 1}
  IN  IF here = {} THEN {} ELSE {Min(get_files_ids(here))}

-----------------------------------------------------------------------------
\* As long as the ids of a queue's files are not further apart than the first
\* two levels allow (16,769,024 for Base 4096), find_max_id and find_min_id name
\* the newest and the oldest file, whichever files between them are missing; in
\* the bucket, as long as some file has an id of one level.
DirectorySearchIsExact(ids) ==
  LET files == {to_file_path(id) : id \in ids}
  IN  ids # {} /\ Max(ids) - Min(ids) <= Base * Base - 2 * Base =>
        /\ get_files_ids(files) = ids
        /\ find_max_id(files) = {Max(ids)}
        /\ find_min_id(files) = {Min(ids)}
        /\ Min(ids) < Base => cloud_find_min_id(files) = {Min(ids)}
=============================================================================
