--------------------------- MODULE RecoveryFiles ----------------------------
(***************************************************************************)
(* The files of a queue over the life of several processes.  Each file     *)
(* holds a run of ids, and the runs follow each other up to the latest     *)
(* file.  A step leaves the runs alone, or changes the end of the last     *)
(* one, or adds an empty file behind it; recovery finds where the last run *)
(* ends.                                                                   *)
(***************************************************************************)
EXTENDS Recovery, TLAPS

\* The leaves are first-order reasoning; those about numbers, sequences or
\* records name SMT.
USE Zenon DEF producerVars, orderVars, fileVars, bufferVars, flushVars

Bytes     == Seq(Nat \cup {Torn})
WalFile   == [before : Nat, ids : Bytes, synced : Nat]
StoreFile == [before : Nat, content : Bytes, num : Nat]

\* The ids from b on, and behind them perhaps what a crash has left of an entry.
Run(b, ids) ==
  \A i \in 1..Len(ids) : ids[i] = b + i - 1 \/ (ids[i] = Torn /\ i = Len(ids))

\* The ids of file f are First(f)..End(f) - 1.
First(f) == IF f \in DOMAIN store THEN store[f].before ELSE wal[f].before
End(f)   == First(f) + Len(Content(f))

\* File f holds what a worker has read from it.
Holds(f, b, ids) ==
  /\ f \in Files
  /\ f \in DOMAIN wal => wal[f].before = b /\ wal[f].ids = ids
  /\ f \in DOMAIN store => store[f].before = b /\ store[f].content = ids

\* What is in the WAL and in the store of file f.
FileOK(f) ==
  /\ f \in DOMAIN wal =>
       /\ wal[f] \in WalFile /\ Run(wal[f].before, wal[f].ids)
       /\ f \in headless => wal[f].ids = <<>>
  /\ f \in DOMAIN store =>
       /\ store[f] \in StoreFile /\ Run(store[f].before, store[f].content)
       /\ store[f].num = Len(Valid(store[f].content))
       /\ Holds(f, store[f].before, store[f].content)

\* The files up to the latest one, t.
FilesOK(t) ==
  /\ t \in Nat /\ t \in DOMAIN wal /\ t \notin DOMAIN store
  /\ \A f \in Files : f \in 1..t /\ FileOK(f)
  /\ PowerLoss => \A f \in DOMAIN wal \ {t} : wal[f].synced = Len(wal[f].ids)

\* The runs of ids follow each other and leave nothing out.
LogOK(t) ==
  /\ \A f, g \in Files : g < f => End(g) <= First(f)
  /\ \A id \in 0..End(t) - 1 : \E f \in Files : First(f) <= id /\ id < End(f)
  /\ t > 1 => First(t) > 0

-----------------------------------------------------------------------------
(* What the files hold                                                      *)

\* What the record of a file is made of.
LEMMA Records ==
  /\ \A w \in WalFile : w.before \in Nat /\ w.ids \in Bytes /\ w.synced \in Nat
  /\ \A b, n \in Nat : \A ids \in Bytes : [before |-> b, ids |-> ids, synced |-> n] \in WalFile
BY DEF WalFile

\* The length of what is in a file.
LEMMA BytesLen == \A ids \in Bytes : Len(ids) \in Nat
BY SMT DEF Bytes

\* An empty file, and a file's bytes up to their end and with none behind them.
LEMMA BytesWhole ==
  /\ <<>> \in Bytes /\ Len(<<>>) = 0
  /\ \A ids \in Bytes : SubSeq(ids, 1, Len(ids)) = ids /\ ids \o <<>> = ids
<1>1. <<>> \in Bytes /\ Len(<<>>) = 0
  BY SMT DEF Bytes
<1>2. ASSUME NEW ids \in Bytes PROVE SubSeq(ids, 1, Len(ids)) = ids
  BY SMTT(20) DEF Bytes
<1>3. ASSUME NEW ids \in Bytes PROVE ids \o <<>> = ids
  BY SMTT(20) DEF Bytes
<1> QED BY <1>1, <1>2, <1>3

\* Bytes that agree at every position are the same.
LEMMA BytesEqual ==
  ASSUME NEW s \in Bytes, NEW r \in Bytes, Len(s) = Len(r), \A i \in 1..Len(s) : s[i] = r[i]
  PROVE  s = r
BY SMTT(20) DEF Bytes

\* A new file is empty.
LEMMA NewFileFacts ==
  /\ Valid(<<>>) = <<>> /\ \A b : Run(b, <<>>)
  /\ \A b \in Nat : /\ NewFile(b) \in WalFile /\ NewFile(b).before = b
                    /\ NewFile(b).ids = <<>> /\ NewFile(b).synced = 0
<1>1. Valid(<<>>) = <<>>
  BY SMT DEF Valid
<1>2. \A i : i \notin 1..0
  BY SMT
<1>3. \A b : Run(b, <<>>)
  BY <1>2, BytesWhole DEF Run
<1>4. 0 \in Nat
  BY SMT
<1>5. \A b \in Nat : NewFile(b) \in WalFile
  BY <1>4, BytesWhole, Records DEF NewFile
<1>6. \A b \in Nat : NewFile(b).before = b /\ NewFile(b).ids = <<>> /\ NewFile(b).synced = 0
  BY SMT DEF NewFile
<1> QED BY <1>1, <1>3, <1>5, <1>6

\* The least element of a set with one element.
LEMMA MinOfOne == \A n \in Int : Min({n}) = n
BY SMT DEF Min

\* The largest element of a set that has one.
LEMMA MaxOfSet ==
  ASSUME NEW S \in SUBSET Int, NEW m \in S, \A x \in S : x <= m
  PROVE  Max(S) = m
<1>1. \A n \in S : (\A x \in S : n >= x) => n = m
  BY SMT
<1>2. \A x \in S : m >= x
  OBVIOUS
<1> QED BY <1>1, <1>2 DEF Max

\* The first n elements of a sequence.
LEMMA PrefixFacts ==
  ASSUME NEW S, NEW s \in Seq(S), NEW n \in 0..Len(s)
  PROVE  /\ SubSeq(s, 1, n) \in Seq(S) /\ Len(SubSeq(s, 1, n)) = n
         /\ \A i \in 1..n : SubSeq(s, 1, n)[i] = s[i]
<1>1. n \in Int /\ 1 \in Int /\ Len(s) \in Nat
  BY SMT
<1>2. \A i \in 1..n : s[i] \in S
  BY SMT, <1>1
<1>3. /\ SubSeq(s, 1, n) \in Seq(S) /\ Len(SubSeq(s, 1, n)) = IF 1 <= n THEN n - 1 + 1 ELSE 0
      /\ \A i \in 1..n - 1 + 1 : SubSeq(s, 1, n)[i] = s[1 + i - 1]
  BY SMTT(20), <1>1, <1>2
<1>4. n - 1 + 1 = n /\ n >= 0 /\ \A i \in 1..n : 1 + i - 1 = i
  BY SMT, <1>1
<1>5. \A i \in 1..n : SubSeq(s, 1, n)[i] = s[i]
  BY <1>3, <1>4
<1> QED BY SMT, <1>3, <1>4, <1>5

\* A reader finds the run without the entry that is cut off.
LEMMA ValidRun ==
  ASSUME NEW b \in Nat, NEW ids \in Bytes, Run(b, ids)
  PROVE  /\ Valid(ids) \in Seq(Nat) /\ Len(Valid(ids)) \in Nat
         /\ \A i \in 1..Len(Valid(ids)) : Valid(ids)[i] = b + i - 1
         /\ (\A i \in 1..Len(ids) : ids[i] = b + i - 1) => Valid(ids) = ids
         /\ Len(ids) >= 1 /\ ids[Len(ids)] = Torn => Len(Valid(ids)) = Len(ids) - 1
<1>1. Len(ids) \in Nat /\ Torn = -1
  BY SMT DEF Bytes, Torn
<1> DEFINE bad == {i \in 1..Len(ids) : ids[i] = Torn}
<1>2. Valid(ids) = IF bad = {} THEN ids ELSE SubSeq(ids, 1, Min(bad) - 1)
  BY DEF Valid
<1>3. CASE bad = {}
  <2>1. Valid(ids) = ids
    BY <1>2, <1>3
  <2>2. \A i \in 1..Len(ids) : ids[i] = b + i - 1 /\ ids[i] \in Nat
    BY SMT, <1>1, <1>3 DEF Run
  <2>3. ids \in Seq(Nat)
    BY SMT, <2>2 DEF Bytes
  <2>4. Len(ids) >= 1 => ids[Len(ids)] # Torn
    BY SMT, <1>1, <1>3
  <2> QED BY <1>1, <2>1, <2>2, <2>3, <2>4
<1>4. CASE bad # {}
  <2>1. PICK k \in 1..Len(ids) : ids[k] = Torn
    BY <1>4
  <2>2. bad = {Len(ids)} /\ Len(ids) >= 1 /\ ids[Len(ids)] = Torn
    <3>1. \A i \in bad : i = Len(ids)
      BY SMT, <1>1 DEF Run
    <3> QED BY SMT, <1>1, <2>1, <3>1
  <2>3. Min(bad) = Len(ids)
    BY SMT, <1>1, <2>2, MinOfOne
  <2>4. Valid(ids) = SubSeq(ids, 1, Len(ids) - 1)
    BY <1>2, <1>4, <2>3
  <2> HIDE DEF bad
  <2>5. \A i \in 1..Len(ids) - 1 : ids[i] = b + i - 1 /\ ids[i] \in Nat
    BY SMT, <1>1, <2>2 DEF Run
  <2>6. Len(ids) - 1 \in 0..Len(ids)
    BY SMT, <1>1, <2>2
  <2> DEFINE n == Len(ids) - 1
             s == SubSeq(ids, 1, n)
  <2>7. s \in Bytes /\ Len(s) = n /\ \A i \in 1..n : s[i] = ids[i]
    BY <2>6, PrefixFacts DEF Bytes
  <2> HIDE DEF s
  <2>8. \A i \in 1..Len(s) : s[i] = b + i - 1 /\ s[i] \in Nat
    BY <2>5, <2>7
  <2>9. s \in Seq(Nat)
    BY SMTT(20), <2>7, <2>8 DEF Bytes
  <2>10. Valid(ids) = s
    BY <2>4 DEF s
  <2>11. ~ \A i \in 1..Len(ids) : ids[i] = b + i - 1
    <3>1. Len(ids) \in 1..Len(ids) /\ b + Len(ids) - 1 # Torn
      BY SMT, <1>1, <2>2
    <3> QED BY <2>2, <3>1
  <2> QED BY SMT, <2>6, <2>7, <2>8, <2>9, <2>10, <2>11
<1> QED BY <1>3, <1>4

\* The ids of a file, from its header on.
LEMMA ContentFacts ==
  ASSUME NEW t, FilesOK(t), NEW f \in Files
  PROVE  /\ Content(f) \in Seq(Nat) /\ Len(Content(f)) \in Nat
         /\ First(f) \in Nat /\ End(f) \in Nat /\ End(f) = First(f) + Len(Content(f))
         /\ \A i \in 1..Len(Content(f)) : Content(f)[i] = First(f) + i - 1
<1>1. CASE f \in DOMAIN store
  <2>1. /\ Content(f) = Valid(store[f].content) /\ First(f) = store[f].before
        /\ store[f].before \in Nat /\ store[f].content \in Bytes
        /\ Run(store[f].before, store[f].content)
    BY <1>1 DEF Content, First, FilesOK, FileOK, StoreFile
  <2> QED BY SMT, <2>1, ValidRun DEF End
<1>2. CASE f \notin DOMAIN store
  <2>1. /\ f \in DOMAIN wal /\ First(f) = wal[f].before
        /\ wal[f].before \in Nat /\ wal[f].ids \in Bytes
        /\ Run(wal[f].before, wal[f].ids)
    BY <1>2 DEF First, FilesOK, FileOK, WalFile, Files
  <2>2. CASE f \in headless
    <3>1. Content(f) = <<>>
      BY <1>2, <2>2 DEF Content
    <3> QED BY SMT, <2>1, <3>1 DEF End
  <2>3. CASE f \notin headless
    <3>1. Content(f) = Valid(wal[f].ids)
      BY <1>2, <2>3 DEF Content
    <3> QED BY SMT, <2>1, <3>1, ValidRun DEF End
  <2> QED BY <2>2, <2>3
<1> QED BY <1>1, <1>2

\* What get_file_end_all_sources finds is the last id of the file.
LEMMA FileEndFacts ==
  ASSUME NEW t, FilesOK(t), NEW f \in 1..t
  PROVE  get_file_end(f) = IF f \in Files /\ Content(f) # <<>> THEN End(f) - 1 ELSE None
<1>1. ASSUME NEW b \in Nat, NEW s \in Seq(Nat), \A i \in 1..Len(s) : s[i] = b + i - 1
      PROVE  /\ LastOf(s) = IF s = <<>> THEN None ELSE b + Len(s) - 1
             /\ s = <<>> <=> Len(s) = 0
  <2>1. Len(s) \in Nat /\ (s = <<>> <=> Len(s) = 0)
    BY SMT
  <2>2. CASE s # <<>>
    <3>1. Len(s) \in 1..Len(s)
      BY SMT, <2>1, <2>2
    <3> QED BY <1>1, <2>1, <2>2, <3>1 DEF LastOf, LastId
  <2> QED BY <2>1, <2>2 DEF LastOf
<1>2. \A n \in Nat \cup {None} : MaxOpt(None, n) = n /\ MaxOpt(n, None) = n /\ MaxOpt(n, n) = n
  BY SMT DEF MaxOpt, None
<1>3. CASE f \in DOMAIN store
  <2> DEFINE s == Valid(store[f].content)
             b == store[f].before
  <2>1. /\ f \in Files /\ Content(f) = s /\ First(f) = b /\ store[f].num = Len(s)
        /\ b \in Nat /\ store[f].content \in Bytes /\ Run(b, store[f].content)
        /\ f \in DOMAIN wal => wal[f].ids = store[f].content
    BY <1>3 DEF FilesOK, FileOK, Files, Content, First, StoreFile, Holds
  <2>2. s \in Seq(Nat) /\ Len(s) \in Nat /\ \A i \in 1..Len(s) : s[i] = b + i - 1
    BY <2>1, ValidRun
  <2>3. End(f) = b + Len(s)
    BY <2>1 DEF End
  <2>4. LastOf(s) = IF s = <<>> THEN None ELSE b + Len(s) - 1
    BY <1>1, <2>1, <2>2
  <2>5. s = <<>> <=> Len(s) = 0
    BY SMT, <2>2
  <2>6. StoreEnd(f) = LastOf(s)
    BY SMT, <1>3, <2>1, <2>2, <2>4, <2>5 DEF StoreEnd
  <2>7. WalEnd(f) \in {None, LastOf(s)}
    BY <2>1 DEF WalEnd
  <2> HIDE DEF s, b
  <2>8. LastOf(s) \in Nat \cup {None}
    BY SMT, <2>1, <2>2, <2>4, <2>5
  <2>9. get_file_end(f) = LastOf(s)
    BY <1>2, <2>6, <2>7, <2>8 DEF get_file_end
  <2> QED BY SMT, <2>1, <2>3, <2>4, <2>9
<1>4. CASE f \in DOMAIN wal \ DOMAIN store
  <2>1. f \in Files /\ First(f) = wal[f].before /\ StoreEnd(f) = None
    BY <1>4 DEF Files, First, StoreEnd
  <2>2. CASE f \in headless
    <3>1. Content(f) = <<>> /\ WalEnd(f) = None
      BY <1>4, <2>2 DEF Content, WalEnd
    <3> QED BY <1>2, <2>1, <3>1 DEF get_file_end
  <2>3. CASE f \notin headless
    <3> DEFINE s == Valid(wal[f].ids)
               b == wal[f].before
    <3>1. /\ Content(f) = s /\ WalEnd(f) = LastOf(s)
          /\ b \in Nat /\ wal[f].ids \in Bytes /\ Run(b, wal[f].ids)
      BY <1>4, <2>3 DEF FilesOK, FileOK, Files, Content, WalEnd, WalFile
    <3>2. s \in Seq(Nat) /\ Len(s) \in Nat /\ \A i \in 1..Len(s) : s[i] = b + i - 1
      BY <3>1, ValidRun
    <3>3. End(f) = b + Len(s)
      BY <2>1, <3>1 DEF End
    <3>4. LastOf(s) = IF s = <<>> THEN None ELSE b + Len(s) - 1
      BY <1>1, <3>1, <3>2
    <3>5. s = <<>> <=> Len(s) = 0
      BY SMT, <3>2
    <3> HIDE DEF s, b
    <3>6. LastOf(s) \in Nat \cup {None}
      BY SMT, <3>1, <3>2, <3>4, <3>5
    <3>7. get_file_end(f) = LastOf(s)
      BY <1>2, <2>1, <3>1, <3>6 DEF get_file_end
    <3> QED BY SMT, <2>1, <3>1, <3>3, <3>4, <3>7
  <2> QED BY <2>2, <2>3
<1>5. CASE f \notin Files
  BY <1>2, <1>5 DEF get_file_end, WalEnd, StoreEnd, Files
<1> QED BY <1>3, <1>4, <1>5 DEF Files

\* Recovery continues after the last id of the files, in the latest file if that
\* one is empty and in the next one otherwise.
LEMMA ContinueFacts ==
  ASSUME NEW t, FilesOK(t), LogOK(t)
  PROVE  /\ continue_queue.last = End(t) - 1 /\ End(t) \in Nat
         /\ \/ continue_queue.file = t /\ Content(t) = <<>>
            \/ continue_queue.file = t + 1 /\ End(t) > 0
<1>1. t \in Files /\ t \in Nat /\ t >= 1 /\ \A f \in Files : f \in 1..t
  BY SMT DEF FilesOK, Files
<1>2. get_latest_file = t
  <2>1. Max(Files) = t
    BY SMT, <1>1, MaxOfSet
  <2> QED BY <1>1, <2>1 DEF get_latest_file
<1>3. /\ \A f \in Files : First(f) \in Nat /\ End(f) \in Nat /\ First(f) <= End(f)
      /\ \A f \in Files : Content(f) = <<>> <=> End(f) = First(f)
  <2>1. ASSUME NEW f \in Files
        PROVE  First(f) \in Nat /\ End(f) \in Nat /\ First(f) <= End(f)
               /\ (Content(f) = <<>> <=> End(f) = First(f))
    <3>1. /\ Content(f) \in Seq(Nat) /\ Len(Content(f)) \in Nat
          /\ First(f) \in Nat /\ End(f) \in Nat /\ End(f) = First(f) + Len(Content(f))
      BY ContentFacts
    <3>2. Content(f) = <<>> <=> Len(Content(f)) = 0
      BY SMT, <3>1
    <3> QED BY SMT, <3>1, <3>2
  <2> QED BY <2>1
<1> DEFINE full == {f \in 1..t : get_file_end(f) # None}
<1>4. continue_queue = IF full = {} THEN [file |-> 1, last |-> None]
                       ELSE [file |-> IF Max(full) = t THEN t + 1 ELSE t,
                             last |-> get_file_end(Max(full))]
  BY <1>2 DEF continue_queue, increment
<1>5. \A f \in 1..t : get_file_end(f) = IF f \in Files /\ Content(f) # <<>> THEN End(f) - 1 ELSE None
  BY FileEndFacts
<1>6. full = {f \in Files : First(f) < End(f)}
  <2>1. ASSUME NEW f \in 1..t PROVE get_file_end(f) # None <=> f \in Files /\ First(f) < End(f)
    <3>1. CASE f \notin Files
      BY <1>5, <3>1
    <3>2. CASE f \in Files
      BY SMT, <1>3, <1>5, <3>2 DEF None
    <3> QED BY <3>1, <3>2
  <2> QED BY <1>1, <2>1
<1> HIDE DEF full
<1>7. ASSUME NEW id \in 0..End(t) - 1 PROVE \E f \in full : First(f) <= id /\ id < End(f)
  <2>1. PICK f \in Files : First(f) <= id /\ id < End(f)
    BY DEF LogOK
  <2>2. First(f) < End(f)
    BY SMT, <1>1, <1>3, <2>1
  <2> QED BY <1>6, <2>1, <2>2
<1>8. CASE full = {}
  <2>1. End(t) = 0
    <3>1. End(t) \in Nat
      BY <1>1, <1>3
    <3>2. End(t) > 0 => 0 \in 0..End(t) - 1
      BY SMT, <3>1
    <3> QED BY SMT, <1>7, <1>8, <3>1, <3>2
  <2>2. t = 1 /\ Content(t) = <<>>
    BY SMT, <1>1, <1>3, <2>1 DEF LogOK
  <2> QED BY SMT, <1>4, <1>8, <2>1, <2>2 DEF None
<1>9. CASE full # {}
  <2>1. \A f \in Files : End(f) <= End(t)
    <3>1. ASSUME NEW f \in Files, f # t PROVE End(f) <= End(t)
      <4>1. f < t
        BY SMT, <1>1, <3>1
      <4>2. End(f) <= First(t)
        BY <1>1, <4>1 DEF LogOK
      <4> QED BY SMT, <1>1, <1>3, <4>2
    <3> QED BY SMT, <1>1, <1>3, <3>1
  <2>2. End(t) > 0 /\ End(t) \in Nat
    <3>1. PICK f \in full : TRUE
      BY <1>9
    <3>2. f \in Files /\ First(f) < End(f)
      BY <1>6
    <3> QED BY SMT, <1>1, <1>3, <2>1, <3>2
  <2>3. PICK m \in full : First(m) <= End(t) - 1 /\ End(t) - 1 < End(m)
    <3>1. End(t) - 1 \in 0..End(t) - 1
      BY SMT, <2>2
    <3> QED BY <1>7, <3>1
  <2>4. m \in Files /\ End(m) = End(t)
    BY SMT, <1>3, <1>6, <2>1, <2>2, <2>3
  <2>5. \A f \in full : f <= m
    <3>1. ASSUME NEW f \in full, f > m PROVE FALSE
      <4>1. f \in Files /\ First(f) < End(f)
        BY <1>6
      <4>2. End(m) <= First(f)
        BY <2>4, <3>1, <4>1 DEF LogOK
      <4> QED BY SMT, <1>3, <2>1, <2>2, <2>4, <4>1, <4>2
    <3>2. \A f \in full : f \in Nat /\ m \in Nat
      BY SMT, <1>1, <1>6, <2>4
    <3> QED BY SMT, <3>1, <3>2
  <2>6. Max(full) = m
    <3>1. full \in SUBSET Int
      <4>1. \A f \in Files : f \in Int
        BY SMT, <1>1
      <4> QED BY <1>6, <4>1
    <3> QED BY <2>5, <3>1, MaxOfSet
  <2>7. get_file_end(m) = End(t) - 1
    <3>1. m \in 1..t /\ Content(m) # <<>>
      BY SMT, <1>1, <1>3, <1>6, <2>4
    <3> QED BY <1>5, <2>4, <3>1
  <2>8. m # t => Content(t) = <<>>
    <3>1. ASSUME m # t PROVE End(t) <= First(t)
      <4>1. m < t
        BY SMT, <1>1, <2>4, <3>1
      <4> QED BY <1>1, <2>4, <4>1 DEF LogOK
    <3> QED BY SMT, <1>1, <1>3, <3>1
  <2> QED BY <1>4, <1>9, <2>2, <2>6, <2>7, <2>8
<1> QED BY <1>8, <1>9

-----------------------------------------------------------------------------
(* Steps                                                                    *)

\* File f is left as it is.
Untouched(f) ==
  /\ f \in DOMAIN wal' <=> f \in DOMAIN wal
  /\ f \in DOMAIN wal => wal'[f] = wal[f]
  /\ f \in DOMAIN store' <=> f \in DOMAIN store
  /\ f \in DOMAIN store => store'[f] = store[f]
  /\ f \in headless' <=> f \in headless

\* What is left alone reads the same.
LEMMA UntouchedFacts ==
  ASSUME NEW f \in Files, Untouched(f)
  PROVE  /\ f \in Files' /\ First(f)' = First(f) /\ Content(f)' = Content(f) /\ End(f)' = End(f)
         /\ FileOK(f) => FileOK(f)'
         /\ \A b, ids : Holds(f, b, ids) => Holds(f, b, ids)'
<1>1. f \in Files' /\ First(f)' = First(f) /\ Content(f)' = Content(f)
  BY DEF Untouched, Files, First, Content, Valid
<1>2. \A b, ids : Holds(f, b, ids) => Holds(f, b, ids)'
  BY <1>1 DEF Untouched, Holds
<1>3. FileOK(f) => FileOK(f)'
  BY <1>2 DEF Untouched, FileOK, Valid
<1> QED BY <1>1, <1>2, <1>3 DEF End

\* The end of the last run moves.
LEMMA LogEnds ==
  ASSUME NEW t \in Nat, FilesOK(t), LogOK(t), Files' = Files,
         \A f \in Files : First(f)' = First(f), \A f \in Files \ {t} : End(f)' = End(f),
         End(t)' \in Nat, First(t) <= End(t)'
  PROVE  LogOK(t)'
<1>1. t \in Files /\ \A f \in Files : f \in 1..t
  BY DEF FilesOK, Files
<1>2. \A f \in Files : First(f) \in Nat /\ End(f) \in Nat
  BY ContentFacts
<1>3. \A f, g \in Files' : g < f => End(g)' <= First(f)'
  <2>1. ASSUME NEW f \in Files, NEW g \in Files, g < f PROVE End(g)' <= First(f)'
    <3>1. g # t
      BY SMT, <1>1, <2>1
    <3> QED BY <2>1, <3>1 DEF LogOK
  <2> QED BY <2>1
<1>4. \A id \in 0..End(t)' - 1 : \E f \in Files' : First(f)' <= id /\ id < End(f)'
  <2>1. ASSUME NEW id \in 0..End(t)' - 1 PROVE \E f \in Files : First(f)' <= id /\ id < End(f)'
    <3>1. CASE First(t) <= id
      <4>1. id < End(t)'
        BY SMT
      <4> QED BY <1>1, <3>1, <4>1
    <3>2. CASE id < First(t)
      <4>1. First(t) <= End(t)
        BY SMT, <1>1, ContentFacts
      <4>2. id \in 0..End(t) - 1
        BY SMT, <1>1, <1>2, <3>2, <4>1
      <4>3. PICK f \in Files : First(f) <= id /\ id < End(f)
        BY <4>2 DEF LogOK
      <4>4. f # t
        BY SMT, <1>1, <1>2, <3>2, <4>3
      <4> QED BY <4>3, <4>4
    <3> QED BY SMT, <1>1, <1>2, <3>1, <3>2
  <2> QED BY <2>1
<1> QED BY <1>1, <1>3, <1>4 DEF LogOK

\* An empty file is added behind the last run.
LEMMA LogContinues ==
  ASSUME NEW t \in Nat, FilesOK(t), LogOK(t), Files' = Files \cup {t + 1},
         \A f \in Files : First(f)' = First(f) /\ End(f)' = End(f),
         First(t + 1)' = End(t), End(t + 1)' = End(t), End(t) > 0
  PROVE  LogOK(t + 1)'
<1>1. t \in Files /\ \A f \in Files : f \in 1..t
  BY DEF FilesOK, Files
<1>2. \A f \in Files : First(f) \in Nat /\ End(f) \in Nat /\ First(f) <= End(f)
  BY SMT, ContentFacts
<1>3. \A f \in Files : End(f) <= End(t)
  <2>1. ASSUME NEW f \in Files, f # t PROVE End(f) <= End(t)
    <3>1. f < t
      BY SMT, <1>1, <2>1
    <3>2. End(f) <= First(t)
      BY <1>1, <3>1 DEF LogOK
    <3> QED BY SMT, <1>1, <1>2, <3>2
  <2> QED BY SMT, <1>1, <1>2, <2>1
<1>4. ASSUME NEW f \in Files', NEW g \in Files', g < f PROVE End(g)' <= First(f)'
  <2>1. CASE f = t + 1
    <3>1. g \in Files
      BY SMT, <1>1, <1>4, <2>1
    <3> QED BY <1>3, <2>1, <3>1
  <2>2. CASE f # t + 1
    <3>1. f \in Files /\ g \in Files
      BY SMT, <1>1, <1>4, <2>2
    <3> QED BY <1>4, <3>1 DEF LogOK
  <2> QED BY <2>1, <2>2
<1>5. ASSUME NEW id \in 0..End(t + 1)' - 1 PROVE \E f \in Files' : First(f)' <= id /\ id < End(f)'
  <2>1. PICK f \in Files : First(f) <= id /\ id < End(f)
    BY DEF LogOK
  <2> QED BY <2>1
<1> QED BY <1>4, <1>5 DEF LogOK

\* The flush task changes the latest file.
LEMMA TopChanged ==
  ASSUME NEW t, FilesOK(t), LogOK(t), t \notin headless, NEW r \in WalFile,
         r.before = wal[t].before, Run(r.before, r.ids), DOMAIN wal' = DOMAIN wal,
         wal'[t] = r, \A f \in DOMAIN wal \ {t} : wal'[f] = wal[f], UNCHANGED <<store, headless>>
  PROVE  /\ FilesOK(t)' /\ LogOK(t)' /\ First(t)' = First(t)
         /\ End(t)' = r.before + Len(Valid(r.ids))
         /\ \A f \in Files \ {t} : Untouched(f)
<1>1. /\ t \in Nat /\ t \in DOMAIN wal /\ t \notin DOMAIN store /\ t \in Files
      /\ \A f \in Files : f \in 1..t /\ FileOK(f)
  BY DEF FilesOK, Files
<1>2. Files' = Files
  BY DEF Files
<1>3. \A f \in Files \ {t} : Untouched(f)
  BY DEF Untouched, Files
<1>4. First(t)' = First(t) /\ Content(t)' = Valid(r.ids) /\ First(t) = r.before
  BY <1>1 DEF First, Content, Valid
<1>5. r.before \in Nat /\ r.ids \in Bytes
  BY DEF WalFile
<1>6. Len(Valid(r.ids)) \in Nat
  BY <1>5, ValidRun
<1>7. End(t)' = r.before + Len(Valid(r.ids))
  BY <1>4 DEF End
<1>8. \A f \in Files \ {t} : First(f)' = First(f) /\ End(f)' = End(f) /\ FileOK(f)'
  BY <1>1, <1>3, UntouchedFacts
<1>9. LogOK(t)'
  <2>1. End(t)' \in Nat /\ First(t) <= End(t)'
    BY SMT, <1>4, <1>5, <1>6, <1>7
  <2> QED BY <1>1, <1>2, <1>4, <1>8, <2>1, LogEnds
<1>10. FileOK(t)'
  BY <1>1 DEF FileOK
<1>11. FilesOK(t)'
  <2>1. \A f \in Files' : f \in 1..t /\ FileOK(f)'
    BY <1>1, <1>2, <1>8, <1>10
  <2>2. PowerLoss => \A f \in DOMAIN wal' \ {t} : wal'[f].synced = Len(wal'[f].ids)
    BY DEF FilesOK
  <2> QED BY <1>1, <2>1, <2>2 DEF FilesOK
<1> QED BY <1>3, <1>4, <1>7, <1>9, <1>11

\* No file changes.
LEMMA FilesSame ==
  ASSUME NEW t, FilesOK(t), LogOK(t), UNCHANGED <<wal, store, headless>>
  PROVE  /\ FilesOK(t)' /\ LogOK(t)' /\ End(t)' = End(t) /\ Content(t)' = Content(t)
         /\ \A f, b, ids : Holds(f, b, ids) => Holds(f, b, ids)'
         /\ \A f : Untouched(f)
<1>1. \A f : First(f)' = First(f) /\ Content(f)' = Content(f) /\ End(f)' = End(f)
  BY SMT DEF First, Content, End, Valid
<1>2. Files' = Files
  BY DEF Files
<1>3. \A f, b, ids : Holds(f, b, ids) => Holds(f, b, ids)'
  BY <1>2 DEF Holds
<1>4. LogOK(t)'
  BY <1>1, <1>2 DEF LogOK
<1>5. \A f : FileOK(f) => FileOK(f)'
  BY <1>3 DEF FileOK, Valid
<1>6. FilesOK(t)'
  BY <1>2, <1>5 DEF FilesOK
<1>7. \A f : Untouched(f)
  BY DEF Untouched
<1> QED BY <1>1, <1>3, <1>4, <1>6, <1>7

\* A new file is created behind the latest one.
LEMMA TopAdded ==
  ASSUME NEW t, FilesOK(t), LogOK(t), End(t) > 0,
         PowerLoss => wal[t].synced = Len(wal[t].ids),
         wal' = With(wal, t + 1, NewFile(End(t))), headless' = headless \ {t + 1}, store' = store
  PROVE  /\ FilesOK(t + 1)' /\ LogOK(t + 1)' /\ End(t + 1)' = End(t)
         /\ \A f \in Files : Untouched(f)
<1>1. /\ t \in Nat /\ t \in DOMAIN wal /\ t \notin DOMAIN store /\ t \in Files
      /\ \A f \in Files : f \in 1..t /\ FileOK(f)
  BY DEF FilesOK, Files
<1>2. t + 1 \notin Files
  BY SMT, <1>1
<1> DEFINE new == NewFile(End(t))
<1>3. /\ DOMAIN wal' = DOMAIN wal \cup {t + 1} /\ wal'[t + 1] = new
      /\ \A f \in DOMAIN wal : wal'[f] = wal[f]
  BY <1>2 DEF Files, With
<1>4. new.before = End(t) /\ new.ids = <<>> /\ new \in WalFile
  <2>1. End(t) \in Nat
    BY <1>1, ContentFacts
  <2> QED BY <2>1, NewFileFacts
<1> HIDE DEF new
<1>5. Files' = Files \cup {t + 1}
  BY <1>3 DEF Files
<1>6. \A f \in Files : Untouched(f)
  BY <1>1, <1>2, <1>3 DEF Untouched, Files
<1>7. \A f \in Files : First(f)' = First(f) /\ End(f)' = End(f) /\ FileOK(f)'
  BY <1>1, <1>6, UntouchedFacts
<1>8. Valid(<<>>) = <<>> /\ Len(<<>>) = 0
  BY BytesWhole, NewFileFacts
<1>9. First(t + 1)' = End(t) /\ Content(t + 1)' = <<>>
  <2>1. t + 1 \notin DOMAIN store' /\ t + 1 \in DOMAIN wal'
    BY <1>2, <1>3 DEF Files
  <2>2. First(t + 1)' = End(t)
    BY <1>3, <1>4, <2>1 DEF First
  <2>3. Content(t + 1)' = Valid(<<>>)
    BY <1>3, <1>4, <2>1 DEF Content, Valid
  <2> QED BY <1>8, <2>2, <2>3
<1>10. End(t + 1)' = End(t)
  <2>1. End(t) \in Nat
    BY <1>1, ContentFacts
  <2> QED BY SMT, <1>8, <1>9, <2>1 DEF End
<1>11. LogOK(t + 1)'
  BY <1>1, <1>5, <1>7, <1>9, <1>10, LogContinues
<1>12. FileOK(t + 1)'
  <2>1. t + 1 \notin DOMAIN store'
    BY <1>2 DEF Files
  <2>2. wal'[t + 1] \in WalFile /\ wal'[t + 1].ids = <<>>
    BY <1>3, <1>4
  <2>3. Run(wal'[t + 1].before, wal'[t + 1].ids)
    BY <2>2, NewFileFacts
  <2> QED BY <2>1, <2>2, <2>3 DEF FileOK, Run
<1>13. FilesOK(t + 1)'
  <2>1. \A f \in Files' : f \in 1..t + 1 /\ FileOK(f)'
    BY SMT, <1>1, <1>5, <1>7, <1>12
  <2>2. PowerLoss => \A f \in DOMAIN wal' \ {t + 1} : wal'[f].synced = Len(wal'[f].ids)
    BY <1>3 DEF FilesOK
  <2>3. t + 1 \in Nat /\ t + 1 \in DOMAIN wal' /\ t + 1 \notin DOMAIN store'
    BY SMT, <1>1, <1>2, <1>3 DEF Files
  <2> QED BY <2>1, <2>2, <2>3 DEF FilesOK
<1> QED BY <1>6, <1>10, <1>11, <1>13

\* The latest file, which holds no entries, is truncated and used again.
LEMMA TopReset ==
  ASSUME NEW t, FilesOK(t), LogOK(t), Content(t) = <<>>,
         wal' = With(wal, t, NewFile(End(t))), headless' = headless \ {t}, store' = store
  PROVE  FilesOK(t)' /\ LogOK(t)' /\ End(t)' = End(t)
<1>1. /\ t \in Nat /\ t \in DOMAIN wal /\ t \notin DOMAIN store /\ t \in Files
      /\ \A f \in Files : f \in 1..t /\ FileOK(f)
  BY DEF FilesOK, Files
<1> DEFINE new == NewFile(End(t))
<1>2. /\ DOMAIN wal' = DOMAIN wal /\ wal'[t] = new
      /\ \A f \in DOMAIN wal \ {t} : wal'[f] = wal[f]
  BY <1>1 DEF With
<1>3. End(t) \in Nat /\ First(t) = End(t)
  <2>1. First(t) \in Nat /\ End(t) = First(t) + 0
    BY <1>1, ContentFacts
  <2> QED BY SMT, <2>1
<1>4. new.before = End(t) /\ new.ids = <<>> /\ new \in WalFile
  BY <1>3, NewFileFacts
<1> HIDE DEF new
<1>5. Files' = Files
  BY <1>2 DEF Files
<1>6. \A f \in Files \ {t} : Untouched(f)
  BY <1>1, <1>2 DEF Untouched, Files
<1>7. \A f \in Files \ {t} : First(f)' = First(f) /\ End(f)' = End(f) /\ FileOK(f)'
  BY <1>1, <1>6, UntouchedFacts
<1>8. Valid(<<>>) = <<>> /\ Len(<<>>) = 0
  BY BytesWhole, NewFileFacts
<1>9. First(t)' = End(t) /\ Content(t)' = <<>>
  BY <1>1, <1>2, <1>4, <1>8 DEF First, Content, Valid
<1>10. End(t)' = End(t)
  BY <1>3, <1>8, <1>9 DEF End
<1>11. LogOK(t)'
  <2>1. \A f \in Files : First(f)' = First(f)
    BY <1>3, <1>7, <1>9
  <2> QED BY SMT, <1>1, <1>3, <1>5, <1>7, <1>10, <2>1, LogEnds
<1>12. FileOK(t)'
  <2>1. wal'[t] \in WalFile /\ wal'[t].ids = <<>>
    BY <1>2, <1>4
  <2>2. Run(wal'[t].before, wal'[t].ids)
    BY <2>1, NewFileFacts
  <2> QED BY <1>1, <2>1, <2>2 DEF FileOK, Run
<1>13. FilesOK(t)'
  <2>1. \A f \in Files' : f \in 1..t /\ FileOK(f)'
    BY <1>1, <1>5, <1>7, <1>12
  <2>2. PowerLoss => \A f \in DOMAIN wal' \ {t} : wal'[f].synced = Len(wal'[f].ids)
    BY <1>2 DEF FilesOK
  <2> QED BY <1>1, <1>2, <2>1, <2>2 DEF FilesOK
<1> QED BY <1>10, <1>11, <1>13

\* A worker renames the copy of file g into place.
LEMMA FilePublished ==
  ASSUME NEW t, FilesOK(t), LogOK(t), NEW g, g # t, NEW b \in Nat, NEW ids \in Bytes,
         Holds(g, b, ids), UNCHANGED <<wal, headless>>,
         store' = With(store, g, [before |-> b, content |-> ids, num |-> Len(Valid(ids))])
  PROVE  /\ FilesOK(t)' /\ LogOK(t)' /\ End(t)' = End(t)
         /\ \A f, c, s : Holds(f, c, s) => Holds(f, c, s)'
<1>1. /\ t \in Nat /\ t \in DOMAIN wal /\ t \notin DOMAIN store /\ t \in Files
      /\ \A f \in Files : f \in 1..t /\ FileOK(f)
  BY DEF FilesOK, Files
<1> DEFINE new == [before |-> b, content |-> ids, num |-> Len(Valid(ids))]
<1>2. /\ DOMAIN store' = DOMAIN store \cup {g} /\ store'[g] = new
      /\ \A f \in DOMAIN store \ {g} : store'[f] = store[f]
  BY DEF With
<1>3. Run(b, ids) /\ g \in Files
  BY <1>1 DEF Holds, FileOK, Files
<1>4. Valid(ids) \in Seq(Nat) /\ Len(Valid(ids)) \in Nat
  BY <1>3, ValidRun
<1>5. new.before = b /\ new.content = ids /\ new.num = Len(Valid(ids)) /\ new \in StoreFile
  BY <1>4 DEF StoreFile
<1> HIDE DEF new
<1>6. Files' = Files
  BY <1>2, <1>3 DEF Files
<1>7. \A f \in Files \ {g} : Untouched(f)
  BY <1>2 DEF Untouched, Files
<1>8. First(g)' = First(g) /\ Content(g)' = Content(g) /\ End(g)' = End(g)
  <2>1. First(g)' = b /\ Content(g)' = Valid(ids)
    <3>1. g \in DOMAIN store' /\ store'[g].before = b /\ store'[g].content = ids
      BY <1>2, <1>5
    <3> QED BY <3>1 DEF First, Content, Valid
  <2>2. First(g) = b
    BY <1>3 DEF First, Holds, Files
  <2>3. Content(g) = Valid(ids)
    <3>1. CASE g \in DOMAIN store
      BY <3>1 DEF Content, Holds
    <3>2. CASE g \notin DOMAIN store /\ g \in headless
      <4>1. ids = <<>>
        BY <1>1, <1>3, <3>2 DEF Holds, FileOK, Files
      <4>2. Content(g) = <<>>
        BY <3>2 DEF Content
      <4> QED BY <4>1, <4>2, NewFileFacts
    <3>3. CASE g \notin DOMAIN store /\ g \notin headless
      BY <1>3, <3>3 DEF Content, Holds, Files
    <3> QED BY <3>1, <3>2, <3>3
  <2> QED BY <2>1, <2>2, <2>3 DEF End
<1>9. \A f \in Files : First(f)' = First(f) /\ End(f)' = End(f)
  BY <1>7, <1>8, UntouchedFacts
<1>10. ASSUME NEW f, NEW c, NEW s, Holds(f, c, s) PROVE Holds(f, c, s)'
  <2>1. CASE f = g
    <3>1. c = b /\ s = ids
      BY <1>3, <1>10, <2>1 DEF Holds, Files
    <3> QED BY <1>2, <1>3, <1>5, <1>6, <1>10, <2>1, <3>1 DEF Holds
  <2>2. CASE f # g
    BY <1>7, <1>10, <2>2, UntouchedFacts DEF Holds
  <2> QED BY <2>1, <2>2
<1>11. FileOK(g)'
  <2>1. Holds(g, b, ids)'
    BY <1>10
  <2>2. g \in DOMAIN wal => wal[g] \in WalFile /\ Run(wal[g].before, wal[g].ids)
                            /\ (g \in headless => wal[g].ids = <<>>)
    BY <1>1, <1>3 DEF FileOK
  <2>3. /\ store'[g] \in StoreFile /\ Run(store'[g].before, store'[g].content)
        /\ store'[g].num = Len(Valid(store'[g].content))
        /\ store'[g].before = b /\ store'[g].content = ids
    BY <1>2, <1>3, <1>5
  <2> QED BY <2>1, <2>2, <2>3 DEF FileOK, Valid
<1>12. FilesOK(t)'
  <2>1. \A f \in Files \ {g} : FileOK(f)'
    BY <1>1, <1>7, UntouchedFacts
  <2>2. PowerLoss => \A f \in DOMAIN wal' \ {t} : wal'[f].synced = Len(wal'[f].ids)
    BY DEF FilesOK
  <2> QED BY <1>1, <1>2, <1>6, <1>11, <2>1, <2>2 DEF FilesOK
<1>13. LogOK(t)'
  <2>1. End(t) \in Nat /\ First(t) <= End(t)
    BY SMT, <1>1, ContentFacts
  <2> QED BY <1>1, <1>6, <1>9, <2>1, LogEnds
<1> QED BY <1>1, <1>9, <1>10, <1>12, <1>13

\* A worker deletes file g from the WAL when the store has it.
LEMMA FileDeleted ==
  ASSUME NEW t, FilesOK(t), LogOK(t), NEW g \in DOMAIN store, wal' = Without(wal, g),
         UNCHANGED <<store, headless>>
  PROVE  /\ FilesOK(t)' /\ LogOK(t)' /\ End(t)' = End(t)
         /\ \A f, c, s : Holds(f, c, s) => Holds(f, c, s)'
<1>1. /\ t \in Nat /\ t \in DOMAIN wal /\ t \notin DOMAIN store /\ t \in Files
      /\ \A f \in Files : f \in 1..t /\ FileOK(f)
  BY DEF FilesOK, Files
<1>2. DOMAIN wal' = DOMAIN wal \ {g} /\ \A f \in DOMAIN wal \ {g} : wal'[f] = wal[f]
  BY DEF Without, Restrict1
<1>3. Files' = Files /\ g \in Files /\ g # t
  BY <1>1, <1>2 DEF Files
<1>4. \A f \in Files \ {g} : Untouched(f)
  BY <1>2 DEF Untouched, Files
<1>5. First(g)' = First(g) /\ Content(g)' = Content(g) /\ End(g)' = End(g)
  BY DEF First, Content, End, Valid
<1>6. \A f \in Files : First(f)' = First(f) /\ End(f)' = End(f)
  BY <1>4, <1>5, UntouchedFacts
<1>7. ASSUME NEW f, NEW c, NEW s, Holds(f, c, s) PROVE Holds(f, c, s)'
  BY <1>2, <1>3, <1>7 DEF Holds
<1>8. FileOK(g)'
  <2>1. /\ store[g] \in StoreFile /\ Run(store[g].before, store[g].content)
        /\ store[g].num = Len(Valid(store[g].content))
        /\ Holds(g, store[g].before, store[g].content)'
    BY <1>1, <1>3, <1>7 DEF FileOK
  <2> QED BY <1>2, <2>1 DEF FileOK, Valid
<1>9. FilesOK(t)'
  <2>1. \A f \in Files \ {g} : FileOK(f)'
    BY <1>1, <1>4, UntouchedFacts
  <2>2. PowerLoss => \A f \in DOMAIN wal' \ {t} : wal'[f].synced = Len(wal'[f].ids)
    BY <1>2 DEF FilesOK
  <2> QED BY <1>1, <1>2, <1>3, <1>8, <2>1, <2>2 DEF FilesOK
<1>10. LogOK(t)'
  <2>1. End(t) \in Nat /\ First(t) <= End(t)
    BY SMT, <1>1, ContentFacts
  <2> QED BY <1>1, <1>3, <1>6, <2>1, LogEnds
<1> QED BY <1>1, <1>6, <1>7, <1>9, <1>10

\* The prefixes of a sequence that have at least a given length.
Prefixes(all, safe) == {SubSeq(all, 1, n) : n \in safe..Len(all)}

\* Such a prefix, whole or, when something is missing from it, followed by a torn
\* entry.
LEMMA PrefixOrTorn ==
  ASSUME NEW all \in Bytes, NEW safe \in Nat,
         NEW s \in Prefixes(all, safe) \cup {Append(p, Torn) : p \in Prefixes(all, safe) \ {all}}
  PROVE  \E n \in safe..Len(all) :
           s = SubSeq(all, 1, n) \/ (n < Len(all) /\ s = Append(SubSeq(all, 1, n), Torn))
<1>1. SubSeq(all, 1, Len(all)) = all
  BY BytesWhole
<1>2. Len(all) \in Nat
  BY SMT DEF Bytes
<1>3. CASE s \in Prefixes(all, safe)
  BY <1>3 DEF Prefixes
<1>4. CASE s \notin Prefixes(all, safe)
  <2>1. PICK p \in Prefixes(all, safe) \ {all} : s = Append(p, Torn)
    BY <1>4
  <2>2. PICK n \in safe..Len(all) : p = SubSeq(all, 1, n)
    BY <2>1 DEF Prefixes
  <2>3. n # Len(all)
    BY <1>1, <2>1, <2>2
  <2>4. n < Len(all)
    BY SMT, <1>2, <2>3
  <2> QED BY <2>1, <2>2, <2>4
<1> QED BY <1>3, <1>4

\* What the writer has handed the operating system for a file, and how much of it
\* a crash cannot take.
Handed(f) == wal[f].ids \o BeingWritten(f)
Safe(f) == IF PowerLoss THEN wal[f].synced ELSE Len(wal[f].ids)

\* The bytes that a crash leaves are a prefix of what was written and was being
\* written, with perhaps part of one more entry.
LEMMA SurvivorFacts ==
  ASSUME NEW f, NEW s \in Survivors(f), Handed(f) \in Bytes, Safe(f) \in Nat
  PROVE  \E n \in Safe(f)..Len(Handed(f)) :
           \/ s = SubSeq(Handed(f), 1, n)
           \/ n < Len(Handed(f)) /\ s = Append(SubSeq(Handed(f), 1, n), Torn)
<1>1. Survivors(f) = Prefixes(Handed(f), Safe(f))
                       \cup {Append(p, Torn) : p \in Prefixes(Handed(f), Safe(f)) \ {Handed(f)}}
  BY DEF Survivors, Prefixes, Handed, Safe
<1> QED BY <1>1, PrefixOrTorn

\* The ids from b on and nothing else.
Whole(b, ids) == \A i \in 1..Len(ids) : ids[i] = b + i - 1

\* Such a prefix of a run is a run.
LEMMA RunPrefix ==
  ASSUME NEW b \in Nat, NEW all \in Bytes, Whole(b, all),
         NEW n \in 0..Len(all), NEW s,
         s = SubSeq(all, 1, n) \/ s = Append(SubSeq(all, 1, n), Torn)
  PROVE  s \in Bytes /\ Run(b, s) /\ Len(Valid(s)) = n
<1> DEFINE p == SubSeq(all, 1, n)
<1>1. /\ p \in Bytes /\ Len(p) = n /\ n \in Nat
      /\ \A i \in 1..n : p[i] = all[i] /\ i \in 1..Len(all)
  <2>1. Len(all) \in Nat
    BY SMT DEF Bytes
  <2> QED BY SMT, <2>1, PrefixFacts DEF Bytes
<1> HIDE DEF p
<1>2. \A i \in 1..Len(p) : p[i] = b + i - 1
  BY <1>1 DEF Whole
<1>3. CASE s = p
  <2>1. Run(b, s)
    BY <1>2, <1>3 DEF Run
  <2>2. Valid(s) = s
    BY <1>1, <1>2, <1>3, <2>1, ValidRun
  <2> QED BY <1>1, <1>3, <2>1, <2>2
<1>4. CASE s = Append(p, Torn)
  <2>1. s \in Bytes /\ Len(s) = n + 1 /\ s[n + 1] = Torn /\ \A i \in 1..n : s[i] = p[i]
    BY SMT, <1>1, <1>4 DEF Bytes
  <2>2. Run(b, s)
    <3>1. ASSUME NEW i \in 1..Len(s)
          PROVE  s[i] = b + i - 1 \/ (s[i] = Torn /\ i = Len(s))
      <4>1. i \in 1..n \/ i = n + 1
        BY SMT, <1>1, <2>1
      <4> QED BY <1>1, <1>2, <2>1, <4>1
    <3> QED BY <3>1 DEF Run
  <2>3. Len(s) >= 1 /\ s[Len(s)] = Torn
    BY SMT, <1>1, <2>1
  <2>4. Len(Valid(s)) = Len(s) - 1
    BY <2>1, <2>2, <2>3, ValidRun
  <2> QED BY SMT, <1>1, <2>1, <2>2, <2>4
<1> QED BY <1>3, <1>4 DEF p

\* A crash leaves the complete files as they are.
LEMMA CompleteSurvives ==
  ASSUME NEW t, FilesOK(t), t = file_id, NEW f \in DOMAIN wal, f # t, NEW s \in Survivors(f)
  PROVE  s = wal[f].ids
<1>1. wal[f] \in WalFile /\ (PowerLoss => wal[f].synced = Len(wal[f].ids))
  BY DEF FilesOK, FileOK, Files
<1> DEFINE ids == wal[f].ids
<1>2. ids \in Bytes /\ Len(ids) \in Nat /\ SubSeq(ids, 1, Len(ids)) = ids
  <2>1. ids \in Bytes
    BY <1>1 DEF WalFile
  <2> HIDE DEF ids
  <2> QED BY <2>1, BytesLen, BytesWhole
<1>3. Handed(f) = ids
  <2>1. BeingWritten(f) = <<>>
    BY DEF BeingWritten
  <2>2. ids \o <<>> = ids
    BY <1>2, BytesWhole
  <2> QED BY <2>1, <2>2 DEF Handed
<1>4. Safe(f) = Len(ids)
  BY <1>1 DEF Safe
<1> HIDE DEF ids
<1>5. PICK n \in Safe(f)..Len(Handed(f)) :
           \/ s = SubSeq(Handed(f), 1, n)
           \/ n < Len(Handed(f)) /\ s = Append(SubSeq(Handed(f), 1, n), Torn)
  BY <1>2, <1>3, <1>4, SurvivorFacts
<1>6. n = Len(ids)
  BY SMT, <1>2, <1>3, <1>4
<1>7. s = ids
  BY SMT, <1>2, <1>3, <1>5, <1>6
<1> QED BY <1>7 DEF ids

\* A crash cuts the latest file, and nothing that it cannot take.
LEMMA Crashed ==
  ASSUME NEW t, FilesOK(t), LogOK(t), t = file_id, t \notin headless,
         Handed(t) \in Bytes, Safe(t) \in Nat,
         Whole(wal[t].before, Handed(t)), Crash
  PROVE  /\ FilesOK(t)' /\ LogOK(t)' /\ First(t)' = First(t) /\ End(t)' \in Nat
         /\ First(t) + Safe(t) <= End(t)' /\ End(t)' <= First(t) + Len(Handed(t))
         /\ wal'[t].synced = Len(wal'[t].ids)
<1>1. /\ t \in Nat /\ t \in DOMAIN wal /\ t \notin DOMAIN store /\ t \in Files
      /\ \A f \in Files : f \in 1..t /\ FileOK(f)
  BY DEF FilesOK, Files
<1>2. PICK left :
        /\ \A f \in DOMAIN wal : left[f] \in Survivors(f)
        /\ wal' = [f \in DOMAIN wal |->
                    [before |-> wal[f].before, ids |-> left[f], synced |-> Len(left[f])]]
        /\ \E lost \in SUBSET {f \in DOMAIN wal : PowerLoss /\ wal[f].synced = 0 /\ left[f] = <<>>} :
             headless' = headless \cup lost
  BY DEF Crash
<1>3. store' = store
  BY DEF Crash, Down
<1>4. /\ DOMAIN wal' = DOMAIN wal
      /\ \A f \in DOMAIN wal : /\ wal'[f].before = wal[f].before /\ wal'[f].ids = left[f]
                               /\ wal'[f].synced = Len(left[f])
                               /\ wal'[f] = [before |-> wal[f].before, ids |-> left[f],
                                             synced |-> Len(left[f])]
  BY <1>2
<1>5. \A f \in DOMAIN wal : /\ f \in headless => f \in headless'
                            /\ f \in headless' => f \in headless \/ left[f] = <<>>
  BY <1>2
<1>6. Files' = Files
  BY <1>3, <1>4 DEF Files
<1>7. \A f \in Files : First(f)' = First(f)
  BY <1>3, <1>4 DEF First, Files
<1>8. Valid(<<>>) = <<>> /\ Len(<<>>) = 0
  BY BytesWhole, NewFileFacts
<1>9. ASSUME NEW f \in Files, f # t
      PROVE  FileOK(f)' /\ Content(f)' = Content(f)
  <2>1. f \in DOMAIN wal => left[f] = wal[f].ids /\ wal[f] \in WalFile
    <3>1. f \in DOMAIN wal => wal[f] \in WalFile
      BY <1>1 DEF FileOK
    <3>2. f \in DOMAIN wal => left[f] = wal[f].ids
      BY <1>2, <1>9, CompleteSurvives
    <3> QED BY <3>1, <3>2
  <2>2. f \in DOMAIN wal => wal'[f] \in WalFile
    <3>1. ASSUME f \in DOMAIN wal PROVE Len(left[f]) \in Nat /\ left[f] \in Bytes /\ wal[f].before \in Nat
      BY <2>1, <3>1, Records, BytesLen
    <3>2. ASSUME f \in DOMAIN wal PROVE wal'[f] \in WalFile
      <4>1. [before |-> wal[f].before, ids |-> left[f], synced |-> Len(left[f])] \in WalFile
        BY <3>1, <3>2, Records
      <4> QED BY <1>4, <3>2, <4>1
    <3> QED BY <3>2
  <2>3. \A b, ids : Holds(f, b, ids) => Holds(f, b, ids)'
    BY <1>3, <1>4, <1>6, <2>1 DEF Holds
  <2>4. FileOK(f)'
    <3>1. f \in DOMAIN wal' => Run(wal'[f].before, wal'[f].ids) /\ (f \in headless' => wal'[f].ids = <<>>)
      BY <1>1, <1>4, <1>5, <1>9, <2>1 DEF FileOK
    <3>2. f \in DOMAIN store' => /\ store'[f] \in StoreFile /\ Run(store'[f].before, store'[f].content)
                                 /\ store'[f].num = Len(Valid(store'[f].content))
                                 /\ Holds(f, store[f].before, store[f].content)'
      BY <1>1, <1>3, <1>9, <2>3 DEF FileOK
    <3> QED BY <1>4, <2>2, <3>1, <3>2 DEF FileOK, Valid
  <2>5. Content(f)' = Content(f)
    <3>1. CASE f \in DOMAIN store
      BY <1>3, <3>1 DEF Content, Valid
    <3>2. CASE f \notin DOMAIN store /\ f \in headless
      BY <1>3, <1>5, <1>9, <3>2 DEF Content, Files
    <3>3. CASE f \notin DOMAIN store /\ f \notin headless /\ f \in headless'
      <4>1. wal[f].ids = <<>>
        BY <1>5, <1>9, <2>1, <3>3 DEF Files
      <4> QED BY <1>3, <1>8, <3>3, <4>1 DEF Content
    <3>4. CASE f \notin DOMAIN store /\ f \notin headless /\ f \notin headless'
      <4>1. wal'[f].ids = wal[f].ids
        BY <1>4, <1>9, <2>1, <3>4 DEF Files
      <4> QED BY <1>3, <3>4, <4>1 DEF Content, Valid
    <3> QED BY <3>1, <3>2, <3>3, <3>4
  <2> QED BY <2>4, <2>5
<1>10. PICK n \in Safe(t)..Len(Handed(t)) :
           \/ left[t] = SubSeq(Handed(t), 1, n)
           \/ n < Len(Handed(t)) /\ left[t] = Append(SubSeq(Handed(t), 1, n), Torn)
  BY <1>1, <1>2, SurvivorFacts
<1>11. wal[t].before \in Nat /\ n \in 0..Len(Handed(t)) /\ Len(Handed(t)) \in Nat /\ First(t) = wal[t].before
  <2>1. Len(Handed(t)) \in Nat
    BY SMT DEF Bytes
  <2>2. First(t) = wal[t].before
    BY <1>1 DEF First
  <2>3. wal[t] \in WalFile
    BY <1>1 DEF FileOK
  <2>4. wal[t].before \in Nat
    BY <2>3, Records
  <2>5. n \in 0..Len(Handed(t))
    BY SMT, <2>1
  <2> QED BY <2>1, <2>2, <2>4, <2>5
<1>12. left[t] \in Bytes /\ Run(wal[t].before, left[t]) /\ Len(Valid(left[t])) = n
  <2>1. left[t] = SubSeq(Handed(t), 1, n) \/ left[t] = Append(SubSeq(Handed(t), 1, n), Torn)
    BY <1>10
  <2>2. PICK b \in Nat, all \in Bytes : b = wal[t].before /\ all = Handed(t)
    BY <1>11
  <2>3. PICK s : s = left[t]
    OBVIOUS
  <2>4. /\ Whole(b, all) /\ n \in 0..Len(all)
        /\ s = SubSeq(all, 1, n) \/ s = Append(SubSeq(all, 1, n), Torn)
    BY <1>11, <2>1, <2>2, <2>3
  <2>5. s \in Bytes /\ Run(b, s) /\ Len(Valid(s)) = n
    BY <2>4, RunPrefix
  <2> QED BY <2>2, <2>3, <2>5
<1>13. Content(t)' = Valid(left[t])
  <2>1. CASE t \in headless'
    BY <1>1, <1>3, <1>5, <1>8, <2>1 DEF Content
  <2>2. CASE t \notin headless'
    <3>1. wal'[t].ids = left[t]
      BY <1>1, <1>4
    <3> QED BY <1>1, <1>3, <2>2, <3>1 DEF Content, Valid
  <2> QED BY <2>1, <2>2
<1>14. End(t)' = First(t) + n
  BY <1>1, <1>7, <1>12, <1>13 DEF End
<1>15. FileOK(t)'
  <2>1. wal'[t] \in WalFile
    <3>1. Len(left[t]) \in Nat
      BY <1>12, BytesLen
    <3>2. [before |-> wal[t].before, ids |-> left[t], synced |-> Len(left[t])] \in WalFile
      BY <1>11, <1>12, <3>1, Records
    <3> QED BY <1>1, <1>4, <3>2
  <2> QED BY <1>1, <1>3, <1>4, <1>5, <1>12, <2>1 DEF FileOK
<1>16. FilesOK(t)'
  <2>1. \A f \in Files' : f \in 1..t /\ FileOK(f)'
    BY <1>1, <1>6, <1>9, <1>15
  <2> QED BY <1>1, <1>3, <1>4, <2>1 DEF FilesOK
<1>17. LogOK(t)'
  <2>1. \A f \in Files \ {t} : End(f)' = End(f)
    BY <1>7, <1>9 DEF End
  <2>2. End(t)' \in Nat /\ First(t) <= End(t)'
    <3>1. n \in Nat /\ First(t) \in Nat
      BY SMT, <1>11
    <3>2. First(t) + n \in Nat /\ First(t) <= First(t) + n
      BY SMT, <3>1
    <3> QED BY <1>14, <3>2
  <2> QED BY <1>1, <1>6, <1>7, <2>1, <2>2, LogEnds
<1>18. First(t) + Safe(t) <= End(t)' /\ End(t)' <= First(t) + Len(Handed(t)) /\ End(t)' \in Nat
  <2>1. First(t) \in Nat /\ Safe(t) <= n /\ n <= Len(Handed(t)) /\ n \in Nat /\ Len(Handed(t)) \in Nat
    BY SMT, <1>11
  <2>2. /\ First(t) + Safe(t) <= First(t) + n /\ First(t) + n <= First(t) + Len(Handed(t))
        /\ First(t) + n \in Nat
    BY SMT, <2>1
  <2> QED BY <1>14, <2>2
<1> QED BY <1>1, <1>4, <1>7, <1>16, <1>17, <1>18

-----------------------------------------------------------------------------
(* The store's workers                                                      *)

Job == [at : {"publish", "delete"}, file : Nat, before : Nat, content : Bytes]

\* A worker that has a file works on a complete one, and what it has read is still
\* what the file holds.  It deletes a file that the store has.
JobOK(job) ==
  \/ job = Idle
  \/ /\ job \in Job /\ job.file < file_id
     /\ Holds(job.file, job.before, job.content)
     /\ job.at = "delete" => job.file \in DOMAIN store

StoreOK ==
  /\ worker = [w \in Workers |-> worker[w]] /\ \A w \in Workers : JobOK(worker[w])
  /\ \A f \in old : f \in Nat /\ f < file_id
  /\ received \in Nat

\* A worker with nothing to do, and one that is done with its file.
LEMMA IdleFacts == Idle.at = "idle" /\ \A job : JobOK(job) /\ job.at # "idle" => job \in Job
<1>1. Idle.at = "idle"
  BY DEF Idle
<1> QED BY <1>1 DEF JobOK

\* A worker receives a complete file, or process_old_files has listed it.
LEMMA ReceiveStep ==
  ASSUME FilesOK(file_id), StoreOK, wal_complete \in Seq(Nat),
         \A n \in 1..Len(wal_complete) : wal_complete[n] < file_id,
         NEW w \in Workers, ReceiveFile(w)
  PROVE  StoreOK'
<1>1. UNCHANGED <<wal, store, headless, file_id>>
  BY DEF ReceiveFile, walVars, taskVars, diskVars
<1>2. \A job : JobOK(job) => JobOK(job)'
  BY <1>1 DEF JobOK, Holds, Files
<1>3. ASSUME NEW f \in Nat, f < file_id, ReadWal(w, f), old' \subseteq old, received' \in Nat
      PROVE  StoreOK'
  <2> DEFINE job == IF f \in DOMAIN wal \ headless
                    THEN [at |-> "publish", file |-> f, before |-> wal[f].before, content |-> wal[f].ids]
                    ELSE Idle
  <2>1. JobOK(job)
    <3>1. CASE f \in DOMAIN wal \ headless
      <4>1. FileOK(f) /\ f \in Files
        BY <3>1 DEF FilesOK, Files
      <4>2. wal[f].before \in Nat /\ wal[f].ids \in Bytes
        BY <3>1, <4>1 DEF FileOK, WalFile
      <4>3. Holds(f, wal[f].before, wal[f].ids)
        BY <3>1, <4>1 DEF FileOK, Holds
      <4>4. job \in Job /\ job.file = f /\ job.before = wal[f].before /\ job.content = wal[f].ids
            /\ job.at = "publish"
        BY <3>1, <4>2 DEF Job
      <4> QED BY <1>3, <4>3, <4>4 DEF JobOK
    <3>2. CASE f \notin DOMAIN wal \ headless
      BY <3>2 DEF JobOK
    <3> QED BY <3>1, <3>2
  <2>2. worker' = [worker EXCEPT ![w] = job]
    BY <1>3 DEF ReadWal
  <2> HIDE DEF job
  <2>3. worker' = [v \in Workers |-> worker'[v]] /\ \A v \in Workers : worker'[v] = worker[v] \/ worker'[v] = job
    BY <2>2 DEF StoreOK
  <2>4. \A v \in Workers : JobOK(worker'[v])
    BY <2>1, <2>3 DEF StoreOK
  <2>5. \A v \in Workers : JobOK(worker[v])'
    BY <1>1, <2>4 DEF JobOK, Holds, Files
  <2> QED BY <1>1, <1>3, <2>3, <2>5 DEF StoreOK
<1>4. received \in Nat
  BY DEF StoreOK
<1>5. CASE /\ received < Len(wal_complete) /\ received' = received + 1
           /\ ReadWal(w, wal_complete[received + 1]) /\ UNCHANGED old
  <2>1. received + 1 \in 1..Len(wal_complete)
    BY SMT, <1>4, <1>5
  <2>2. wal_complete[received + 1] \in Nat /\ wal_complete[received + 1] < file_id
    BY SMT, <2>1
  <2> QED BY SMT, <1>3, <1>4, <1>5, <2>2
<1>6. CASE \E f \in old : old' = old \ {f} /\ ReadWal(w, f) /\ UNCHANGED received
  BY <1>3, <1>4, <1>6 DEF StoreOK
<1> QED BY <1>5, <1>6 DEF ReceiveFile

\* What holds of the jobs still holds when every file still holds what it held and
\* the store has lost none.
LEMMA JobsKept ==
  ASSUME \A f, b, ids : Holds(f, b, ids) => Holds(f, b, ids)', DOMAIN store \subseteq DOMAIN store',
         file_id \in Int, file_id' \in Int, file_id <= file_id', NEW job, JobOK(job)
  PROVE  \/ job = Idle
         \/ /\ job \in Job /\ job.file < file_id' /\ Holds(job.file, job.before, job.content)'
            /\ job.at = "delete" => job.file \in DOMAIN store'
<1>1. CASE job = Idle
  BY <1>1
<1>2. CASE /\ job \in Job /\ job.file < file_id /\ Holds(job.file, job.before, job.content)
           /\ job.at = "delete" => job.file \in DOMAIN store
  <2>1. job.file < file_id'
    BY SMT, <1>2 DEF Job
  <2> QED BY <1>2, <2>1
<1> QED BY <1>1, <1>2 DEF JobOK

\* A worker publishes the copy of its file.
LEMMA PublishStep ==
  ASSUME FilesOK(file_id), LogOK(file_id), StoreOK, NEW w \in Workers, Publish(w)
  PROVE  FilesOK(file_id)' /\ LogOK(file_id)' /\ End(file_id)' = End(file_id) /\ StoreOK'
<1>1. UNCHANGED <<wal, headless, file_id, old, received>> /\ worker[w].at = "publish"
  BY DEF Publish, walVars, taskVars
<1>0. PICK job, t : job = worker[w] /\ t = file_id
  OBVIOUS
<1> DEFINE new == [job EXCEPT !.at = "delete"]
<1>2. /\ job \in Job /\ job.file < file_id /\ Holds(job.file, job.before, job.content)
      /\ file_id \in Nat
  <2>1. JobOK(job) /\ job # Idle
    BY <1>0, <1>1, IdleFacts DEF StoreOK
  <2> QED BY <2>1 DEF JobOK, FilesOK
<1>3. job.file # file_id /\ job.before \in Nat /\ job.content \in Bytes
  BY SMT, <1>2 DEF Job
<1>4. store' = With(store, job.file, [before |-> job.before, content |-> job.content,
                                      num |-> Len(Valid(job.content))])
  BY <1>0 DEF Publish
<1>5. worker' = [worker EXCEPT ![w] = new]
  BY <1>0 DEF Publish
<1>6. new \in Job /\ new.at = "delete" /\ new.file = job.file /\ new.before = job.before
      /\ new.content = job.content
  BY <1>2 DEF Job
<1> HIDE DEF new
<1>7. /\ FilesOK(file_id)' /\ LogOK(file_id)' /\ End(file_id)' = End(file_id)
      /\ \A f, b, ids : Holds(f, b, ids) => Holds(f, b, ids)'
  <2>1. FilesOK(t) /\ LogOK(t) /\ job.file # t
    BY <1>0, <1>3
  <2>2. /\ FilesOK(t)' /\ LogOK(t)' /\ End(t)' = End(t)
        /\ \A f, b, ids : Holds(f, b, ids) => Holds(f, b, ids)'
    BY <1>1, <1>2, <1>3, <1>4, <2>1, FilePublished
  <2>3. t = file_id'
    BY <1>0, <1>1
  <2> QED BY <1>0, <2>2, <2>3
<1>8. DOMAIN store' = DOMAIN store \cup {job.file}
  BY <1>4 DEF With
<1>9. worker' = [v \in Workers |-> worker'[v]] /\ \A v \in Workers : worker'[v] = worker[v] \/ worker'[v] = new
  BY <1>5 DEF StoreOK
<1>10. \A v \in Workers : JobOK(worker[v])'
  <2>1. ASSUME NEW v \in Workers, worker'[v] = worker[v] PROVE JobOK(worker[v])'
    <3>1. JobOK(worker[v])
      BY DEF StoreOK
    <3>2. file_id \in Int /\ file_id' \in Int /\ file_id <= file_id'
      BY SMT, <1>1, <1>2
    <3>3. DOMAIN store \subseteq DOMAIN store'
      BY <1>8
    <3> QED BY <1>7, <2>1, <3>1, <3>2, <3>3, JobsKept DEF JobOK
  <2>2. ASSUME NEW v \in Workers, worker'[v] = new PROVE JobOK(worker[v])'
    <3>1. Holds(job.file, job.before, job.content)'
      BY <1>2, <1>7
    <3> QED BY <1>1, <1>2, <1>6, <1>8, <2>2, <3>1 DEF JobOK
  <2> QED BY <1>9, <2>1, <2>2
<1> QED BY <1>1, <1>7, <1>9, <1>10 DEF StoreOK

\* A worker is done with its file.
LEMMA FinishStep ==
  ASSUME FilesOK(file_id), LogOK(file_id), StoreOK, NEW w \in Workers, Finish(w)
  PROVE  /\ FilesOK(file_id)' /\ LogOK(file_id)' /\ End(file_id)' = End(file_id) /\ StoreOK'
         /\ wal'[file_id] = wal[file_id] /\ DOMAIN wal' \subseteq DOMAIN wal
         /\ \A f \in DOMAIN wal' : wal'[f] = wal[f]
<1>1. UNCHANGED <<headless, store, file_id, old, received>> /\ worker[w].at = "delete"
  BY DEF Finish, diskVars, taskVars
<1>2. PICK job, t : job = worker[w] /\ t = file_id
  OBVIOUS
<1>3. job \in Job /\ job.file < t /\ job.file \in DOMAIN store /\ t \in Nat
  <2>1. JobOK(job) /\ job # Idle
    BY <1>1, <1>2, IdleFacts DEF StoreOK
  <2> QED BY <1>1, <1>2, <2>1 DEF JobOK, FilesOK
<1>4. wal' = wal \/ wal' = Without(wal, job.file)
  BY <1>2 DEF Finish
<1>5. job.file # t
  BY SMT, <1>3 DEF Job
<1>6. /\ DOMAIN wal' \subseteq DOMAIN wal /\ \A f \in DOMAIN wal' : wal'[f] = wal[f]
      /\ wal'[t] = wal[t]
  BY <1>2, <1>4, <1>5 DEF Without, Restrict1, FilesOK
<1>7. /\ FilesOK(t)' /\ LogOK(t)' /\ End(t)' = End(t)
      /\ \A f, b, ids : Holds(f, b, ids) => Holds(f, b, ids)'
  <2>1. FilesOK(t) /\ LogOK(t)
    BY <1>2
  <2>2. CASE wal' = Without(wal, job.file)
    BY <1>1, <1>3, <2>1, <2>2, FileDeleted
  <2>3. CASE wal' = wal
    BY <1>1, <2>1, <2>3, FilesSame
  <2> QED BY <1>4, <2>2, <2>3
<1>8. worker' = [worker EXCEPT ![w] = Idle]
  BY DEF Finish
<1>9. worker' = [v \in Workers |-> worker'[v]] /\ \A v \in Workers : worker'[v] = worker[v] \/ worker'[v] = Idle
  BY <1>8 DEF StoreOK
<1>10. \A v \in Workers : JobOK(worker[v])'
  <2>1. ASSUME NEW v \in Workers, worker'[v] = worker[v] PROVE JobOK(worker[v])'
    <3>1. JobOK(worker[v]) /\ file_id \in Int /\ file_id' \in Int /\ file_id <= file_id'
      BY SMT, <1>1, <1>2, <1>3 DEF StoreOK
    <3> QED BY <1>1, <1>7, <2>1, <3>1, JobsKept DEF JobOK
  <2> QED BY <1>9, <2>1 DEF JobOK
<1>11. t = file_id /\ t = file_id'
  BY <1>1, <1>2
<1> QED BY <1>1, <1>6, <1>7, <1>9, <1>10, <1>11 DEF StoreOK

\* process_old_files lists complete files only.
LEMMA OldFilesStep ==
  ASSUME FilesOK(file_id), StoreOK, NEW least \in Nat, least <= file_id,
         Min({file_id} \cup Range(wal_complete)) = least, process_old_files
  PROVE  StoreOK'
<1>1. /\ UNCHANGED <<wal, store, headless, file_id, worker, received>>
      /\ old' = {f \in DOMAIN wal : f < least}
  BY DEF process_old_files, walVars, taskVars, diskVars
<1>2. \A f \in DOMAIN wal : f \in Nat
  BY SMT DEF FilesOK, Files
<1>3. \A f \in old' : f \in Nat /\ f < file_id'
  BY SMT, <1>1, <1>2 DEF FilesOK
<1>4. \A w \in Workers : JobOK(worker[w])'
  BY <1>1 DEF StoreOK, JobOK, Holds, Files
<1> QED BY <1>1, <1>3, <1>4 DEF StoreOK

-----------------------------------------------------------------------------
(* The WAL writer, as far as the files depend on it                         *)

CurIds == wal[file_id].ids

\* The current file and the block being written to it hold the ids from "before"
\* on, and what has been acknowledged is in the file.
WriterView ==
  /\ file_id \in Nat /\ file_id \in DOMAIN wal /\ wal[file_id] \in WalFile
  /\ before \in Nat /\ wal[file_id].before = before
  /\ Handed(file_id) \in Bytes /\ Len(CurIds) <= Len(Handed(file_id))
  /\ Whole(before, CurIds) /\ Whole(before, Handed(file_id))
  /\ last_written_id \in Nat \cup {None} /\ assigned \in Nat \cup {None}
  /\ before + Len(Handed(file_id)) <= last_written_id + 1 /\ last_written_id <= assigned
  /\ wal[file_id].synced <= Len(CurIds)
  /\ written \in Seq(Nat)
  /\ \A n \in 1..Len(written) :
       written[n] < before + (IF Fsync THEN wal[file_id].synced ELSE Len(CurIds))
  /\ wal_complete \in Seq(Nat) /\ \A n \in 1..Len(wal_complete) : wal_complete[n] < file_id
  /\ writer = "closed" => /\ before + Len(CurIds) = last_written_id + 1
                          /\ Fsync => wal[file_id].synced = Len(CurIds)

\* What the tasks of the writer do to the files: nothing, or open the next file,
\* or add to the current one or sync it.
WriterMoves ==
  \/ UNCHANGED <<wal, file_id, before>>
  \/ /\ before + Len(CurIds) > 0 /\ (Fsync => wal[file_id].synced = Len(CurIds))
     /\ file_id' = file_id + 1
     /\ wal' = With(wal, file_id + 1, NewFile(before + Len(CurIds)))
  \/ /\ UNCHANGED <<file_id, before>> /\ DOMAIN wal' = DOMAIN wal
     /\ \A f \in DOMAIN wal \ {file_id} : wal'[f] = wal[f]
     /\ Len(CurIds) <= Len(CurIds')

\* The last file ends where the writer has written to.
LEMMA CurEnds ==
  ASSUME FilesOK(file_id), WriterView, file_id \notin headless
  PROVE  /\ First(file_id) = before /\ End(file_id) = before + Len(CurIds)
         /\ Len(CurIds) \in Nat /\ CurIds \in Bytes /\ Len(Handed(file_id)) \in Nat
<1>1. /\ file_id \in DOMAIN wal /\ file_id \notin DOMAIN store /\ before \in Nat
      /\ CurIds \in Bytes /\ Whole(before, CurIds) /\ wal[file_id].before = before
  BY DEF FilesOK, WriterView, CurIds, WalFile
<1>2. Len(CurIds) \in Nat /\ Len(Handed(file_id)) \in Nat
  BY SMT, <1>1 DEF Bytes, WriterView
<1>3. Run(before, CurIds)
  BY <1>1 DEF Run, Whole
<1>4. Valid(CurIds) = CurIds
  BY <1>1, <1>3, ValidRun DEF Whole
<1>5. Content(file_id) = CurIds
  BY <1>1, <1>4 DEF Content, CurIds
<1>6. First(file_id) = before
  BY <1>1 DEF First
<1> QED BY <1>1, <1>2, <1>5, <1>6 DEF End

\* The files after a step of the writer.
LEMMA WriterFiles ==
  ASSUME FilesOK(file_id), LogOK(file_id), WriterView, file_id \notin headless, StoreOK,
         PowerLoss => Fsync, WriterMoves, WriterView',
         headless' = headless \ (DOMAIN wal' \ DOMAIN wal), UNCHANGED <<store, worker, old, received>>
  PROVE  /\ FilesOK(file_id)' /\ LogOK(file_id)' /\ (file_id \notin headless)' /\ StoreOK'
         /\ End(file_id)' >= End(file_id) /\ before' >= before
         /\ End(file_id)' \in Nat /\ End(file_id) \in Nat /\ before \in Nat
<1>0. /\ First(file_id) = before /\ End(file_id) = before + Len(CurIds) /\ Len(CurIds) \in Nat
      /\ before \in Nat /\ file_id \in Nat
  BY CurEnds DEF WriterView
<1>1. PICK t : t = file_id
  OBVIOUS
<1>2. FilesOK(t) /\ LogOK(t) /\ t \notin headless /\ t \in Nat /\ t \in DOMAIN wal
  BY <1>0, <1>1 DEF FilesOK
<1>3. ASSUME \A f \in Files \ {t} : Untouched(f), file_id' \in {t, t + 1}
      PROVE  StoreOK'
  <2>1. \A v \in Workers : JobOK(worker[v])'
    <3>1. ASSUME NEW v \in Workers PROVE JobOK(worker[v])'
      <4>1. PICK job : job = worker[v]
        OBVIOUS
      <4>2. JobOK(job) /\ job = worker'[v]
        BY <4>1 DEF StoreOK
      <4>3. CASE job = Idle
        BY <4>2, <4>3 DEF JobOK
      <4>4. CASE job # Idle
        <5>1. /\ job \in Job /\ job.file < t /\ Holds(job.file, job.before, job.content)
              /\ job.at = "delete" => job.file \in DOMAIN store
          BY <1>1, <4>2, <4>4 DEF JobOK
        <5>2. job.file < file_id' /\ job.file # t
          BY SMT, <1>2, <1>3, <5>1 DEF Job
        <5>3. job.file \in Files
          BY <5>1 DEF Holds
        <5>4. Holds(job.file, job.before, job.content)'
          BY <1>3, <5>1, <5>2, <5>3, UntouchedFacts
        <5> QED BY <4>2, <5>1, <5>2, <5>4 DEF JobOK
      <4> QED BY <4>3, <4>4
    <3> QED BY <3>1
  <2>2. \A f \in old' : f \in Nat /\ f < file_id'
    BY SMT, <1>1, <1>2, <1>3 DEF StoreOK
  <2> QED BY <2>1, <2>2 DEF StoreOK
<1>4. CASE UNCHANGED <<wal, file_id, before>>
  <2>1. UNCHANGED <<wal, store, headless>>
    BY <1>4
  <2>2. /\ FilesOK(t)' /\ LogOK(t)' /\ End(t)' = End(t) /\ \A f : Untouched(f)
    BY <1>2, <2>1, FilesSame
  <2>3. t = file_id' /\ StoreOK'
    BY <1>1, <1>3, <1>4, <2>2
  <2> QED BY SMTT(20), <1>0, <1>1, <1>2, <1>4, <2>1, <2>2, <2>3
<1>5. CASE /\ before + Len(CurIds) > 0 /\ (Fsync => wal[file_id].synced = Len(CurIds))
           /\ file_id' = file_id + 1
           /\ wal' = With(wal, file_id + 1, NewFile(before + Len(CurIds)))
  <2>1. t + 1 \notin DOMAIN wal
    BY SMT, <1>2 DEF FilesOK, Files
  <2>2. DOMAIN wal' = DOMAIN wal \cup {t + 1} /\ wal'[t + 1] = NewFile(End(t))
    BY <1>0, <1>1, <1>5 DEF With
  <2>3. headless' = headless \ {t + 1}
    BY <2>1, <2>2
  <2>4. PowerLoss => wal[t].synced = Len(wal[t].ids)
    BY <1>1, <1>5 DEF CurIds
  <2>5. End(t) > 0 /\ wal' = With(wal, t + 1, NewFile(End(t)))
    BY <1>0, <1>1, <1>5
  <2>6. /\ FilesOK(t + 1)' /\ LogOK(t + 1)' /\ End(t + 1)' = End(t)
        /\ \A f \in Files : Untouched(f)
    BY <1>2, <2>3, <2>4, <2>5, TopAdded
  <2>7. file_id' = t + 1 /\ StoreOK'
    BY <1>1, <1>3, <1>5, <2>6
  <2>8. before' = End(t)
    <3>1. NewFile(End(t)).before = End(t)
      BY DEF NewFile
    <3>2. wal'[file_id'].before = before'
      BY DEF WriterView
    <3> QED BY <2>2, <2>7, <3>1, <3>2
  <2>9. t + 1 = file_id' /\ End(t + 1)' = End(file_id)'
    BY <2>7
  <2> QED BY SMT, <1>0, <1>1, <2>3, <2>6, <2>7, <2>8, <2>9
<1>6. CASE /\ UNCHANGED <<file_id, before>> /\ DOMAIN wal' = DOMAIN wal
           /\ \A f \in DOMAIN wal \ {file_id} : wal'[f] = wal[f]
           /\ Len(CurIds) <= Len(CurIds')
  <2>1. PICK r : r = wal'[t]
    OBVIOUS
  <2>2. t = file_id' /\ headless' = headless
    BY <1>1, <1>6
  <2>3. r \in WalFile /\ r.before = before /\ r.ids = CurIds' /\ Whole(before, r.ids)
    <3>1. wal'[t] \in WalFile /\ wal'[t].before = before' /\ Whole(before', wal'[t].ids)
      BY <2>2 DEF WriterView, CurIds, Whole
    <3> QED BY <1>6, <2>1, <2>2, <3>1 DEF CurIds
  <2>4. r.before = wal[t].before
    BY <1>1, <2>3 DEF WriterView
  <2>5. r.ids \in Bytes /\ Run(r.before, r.ids)
    BY <2>3 DEF WalFile, Whole, Run
  <2>6. Valid(r.ids) = r.ids
    BY <1>0, <2>3, <2>5, ValidRun DEF Whole
  <2>7. /\ FilesOK(t)' /\ LogOK(t)' /\ End(t)' = r.before + Len(Valid(r.ids))
        /\ \A f \in Files \ {t} : Untouched(f)
    <3>1. /\ t \notin headless /\ DOMAIN wal' = DOMAIN wal /\ wal'[t] = r
          /\ UNCHANGED <<store, headless>> /\ \A f \in DOMAIN wal \ {t} : wal'[f] = wal[f]
      BY <1>1, <1>2, <1>6, <2>1, <2>2
    <3> QED BY <1>2, <2>3, <2>4, <2>5, <3>1, TopChanged
  <2>8. StoreOK'
    BY <1>3, <2>2, <2>7
  <2>9. End(t)' >= End(t) /\ End(t)' \in Nat
    <3>1. Len(r.ids) \in Nat
      BY SMT, <2>5 DEF Bytes
    <3> QED BY SMTT(20), <1>0, <1>1, <1>6, <2>3, <2>6, <2>7, <3>1
  <2> QED BY SMTT(20), <1>0, <1>1, <1>2, <1>6, <2>2, <2>7, <2>8, <2>9
<1> QED BY <1>4, <1>5, <1>6 DEF WriterMoves

-----------------------------------------------------------------------------
(* Processes                                                                *)

\* While a process has the queue open for writing.
UpView ==
  /\ FilesOK(file_id) /\ LogOK(file_id) /\ file_id \notin headless /\ StoreOK
  /\ assigned = last_id /\ opened = FALSE
  /\ promised \in Nat \cup {None} /\ promised < before
  /\ recovered < before /\ last_acked_id < End(file_id)
  /\ applied \in Nat

\* The files that a process has left, t the latest of them.
LeftAt(t) ==
  /\ FilesOK(t) /\ LogOK(t)
  /\ PowerLoss => wal[t].synced = Len(wal[t].ids)
  /\ promised \in Nat \cup {None} /\ promised < End(t)
  /\ opened => last_id = End(t) - 1 /\ recovered = last_id /\ entries = <<>> /\ last_acked_id = None

\* While no process has the queue open for writing.
DownView ==
  /\ written = <<>> /\ writer = "recv" /\ opened \in BOOLEAN
  /\ \E t \in DOMAIN wal : LeftAt(t)

\* What has been acknowledged is durable, hence in the files.
LEMMA AckedFacts ==
  ASSUME WriterView, promised \in Nat \cup {None}, promised < before
  PROVE  /\ Acked \in Nat \cup {None}
         /\ Acked < before + (IF Fsync THEN wal[file_id].synced ELSE Len(CurIds))
         /\ Acked < before + Len(CurIds)
<1>1. /\ before \in Nat /\ wal[file_id].synced \in Nat /\ Len(CurIds) \in Nat
      /\ wal[file_id].synced <= Len(CurIds) /\ written \in Seq(Nat)
  <2>1. /\ before \in Nat /\ wal[file_id] \in WalFile /\ written \in Seq(Nat)
        /\ wal[file_id].synced <= Len(CurIds)
    BY DEF WriterView
  <2> QED BY <2>1, Records, BytesLen DEF CurIds
<1> DEFINE n == IF Fsync THEN wal[file_id].synced ELSE Len(CurIds)
<1>2. n \in Nat /\ n <= Len(CurIds)
  BY SMT, <1>1
<1>3. CASE written = <<>>
  BY SMT, <1>1, <1>2, <1>3 DEF Acked, None
<1>4. CASE written # <<>>
  <2>1. Len(written) \in 1..Len(written)
    BY SMT, <1>1, <1>4
  <2>2. LastId(written) \in Nat /\ LastId(written) < before + n
    BY SMTT(20), <1>1, <2>1 DEF LastId, WriterView
  <2>3. Acked = MaxOpt(promised, LastId(written))
    BY <1>4 DEF Acked
  <2> HIDE DEF n
  <2>4. Acked \in Nat \cup {None} /\ Acked < before + n
    BY SMT, <1>1, <1>2, <2>2, <2>3 DEF MaxOpt, None
  <2>5. Acked < before + Len(CurIds)
    BY SMT, <1>1, <1>2, <2>4 DEF None
  <2> QED BY <2>4, <2>5 DEF n
<1> QED BY <1>3, <1>4

\* The process ends, in order or by a crash.
LEMMA StopStep ==
  ASSUME UpView, WriterView, PowerLoss => Fsync, Exit \/ Crash
  PROVE  /\ written' = <<>> /\ writer' = "recv" /\ up' = FALSE /\ opened' = FALSE /\ io_errors' = io_errors
         /\ \E t \in DOMAIN wal' : LeftAt(t)' /\ End(t)' <= last_id + 1
<1>1. /\ written' = <<>> /\ writer' = "recv" /\ up' = FALSE /\ opened' = FALSE /\ io_errors' = io_errors
      /\ promised' = Acked /\ store' = store
  BY DEF UpView, Exit, Crash, Down, FreshWriter, Acked
<1>2. /\ First(file_id) = before /\ End(file_id) = before + Len(CurIds) /\ Len(CurIds) \in Nat
      /\ before \in Nat /\ file_id \in Nat /\ CurIds \in Bytes /\ Len(Handed(file_id)) \in Nat
  BY CurEnds DEF UpView, WriterView
<1>3. /\ Acked \in Nat \cup {None} /\ Acked < before + Len(CurIds)
      /\ Acked < before + (IF Fsync THEN wal[file_id].synced ELSE Len(CurIds))
  BY AckedFacts DEF UpView
<1>4. PICK t : t = file_id
  OBVIOUS
<1>5. FilesOK(t) /\ LogOK(t) /\ t \notin headless /\ t \in DOMAIN wal /\ t \in Nat
  BY <1>4 DEF UpView, FilesOK
<1>6. /\ last_written_id \in Int /\ last_id \in Int /\ last_written_id <= last_id
      /\ before + Len(Handed(t)) <= last_written_id + 1
  BY SMTT(20), <1>4 DEF UpView, WriterView, None
<1>7. CASE Exit
  <2>1. /\ UNCHANGED <<wal, store, headless>>
        /\ before + Len(CurIds) = last_written_id + 1
        /\ Fsync => wal[file_id].synced = Len(CurIds)
    BY <1>1, <1>7 DEF Exit, WriterView
  <2>2. FilesOK(t)' /\ LogOK(t)' /\ End(t)' = End(t)
    BY <1>5, <2>1, FilesSame
  <2>3. PowerLoss => wal'[t].synced = Len(wal'[t].ids)
    BY <1>4, <2>1 DEF CurIds
  <2>4. promised' < End(t)' /\ End(t)' <= last_id + 1
    BY SMT, <1>1, <1>2, <1>3, <1>4, <1>6, <2>1, <2>2
  <2>5. t \in DOMAIN wal'
    BY <1>5, <2>1
  <2> QED BY <1>1, <1>3, <2>2, <2>3, <2>4, <2>5 DEF LeftAt
<1>8. CASE Crash
  <2>1. Handed(t) \in Bytes /\ Whole(wal[t].before, Handed(t)) /\ First(t) = before
    BY <1>2, <1>4 DEF WriterView
  <2>2. Safe(t) = (IF PowerLoss THEN wal[t].synced ELSE Len(wal[t].ids)) /\ Safe(t) \in Nat
        /\ wal[t].synced \in Nat
    BY <1>2, <1>4 DEF Safe, WriterView, WalFile, CurIds
  <2>3. /\ FilesOK(t)' /\ LogOK(t)' /\ End(t)' \in Nat
        /\ First(t) + Safe(t) <= End(t)' /\ End(t)' <= First(t) + Len(Handed(t))
        /\ wal'[t].synced = Len(wal'[t].ids)
    BY <1>4, <1>5, <1>8, <2>1, <2>2, Crashed
  <2>4. t \in DOMAIN wal'
    BY <2>3 DEF FilesOK
  <2>5. Acked < First(t) + Safe(t)
    <3>1. wal[t].synced <= Len(CurIds) /\ wal[t].ids = CurIds
      BY <1>4 DEF WriterView, CurIds
    <3> QED BY SMTT(20), <1>2, <1>3, <1>4, <2>1, <2>2, <3>1 DEF None
  <2>6. promised' < End(t)' /\ End(t)' <= last_id + 1
    <3> DEFINE e == End(t)'
               h == Len(Handed(t))
    <3>1. /\ e \in Nat /\ h \in Nat /\ Safe(t) \in Nat /\ Acked \in Int
          /\ before + Safe(t) <= e /\ e <= before + h /\ Acked < before + Safe(t)
          /\ before + h <= last_written_id + 1
      <4>1. Acked \in Int
        BY SMT, <1>3 DEF None
      <4> QED BY <1>2, <1>4, <1>6, <2>1, <2>2, <2>3, <2>5, <4>1
    <3> HIDE DEF e, h
    <3>2. Acked < e /\ e <= last_id + 1
      BY SMT, <1>2, <1>6, <3>1
    <3> QED BY <1>1, <3>2 DEF e
  <2> QED BY <1>1, <1>3, <2>3, <2>4, <2>6 DEF LeftAt
<1> QED BY <1>7, <1>8

\* A process opens the queue for reading.
LEMMA ReadStep ==
  ASSUME NEW t \in DOMAIN wal, LeftAt(t), written = <<>>, writer = "recv", opened \in BOOLEAN,
         OpenForRead \/ EndReadOnly
  PROVE  /\ LeftAt(t)' /\ End(t)' = End(t) /\ t \in DOMAIN wal'
         /\ written' = <<>> /\ writer' = "recv" /\ opened' \in BOOLEAN
         /\ UNCHANGED <<up, promised, io_errors>> /\ (opened' => last_id' = End(t) - 1)
<1>1. /\ UNCHANGED <<wal, store, headless, written, writer, promised, io_errors, up>> /\ opened' \in BOOLEAN
  BY DEF OpenForRead, EndReadOnly, walVars, taskVars, diskVars
<1>2. FilesOK(t)' /\ LogOK(t)' /\ End(t)' = End(t)
  BY <1>1, FilesSame DEF LeftAt
<1>3. continue_queue.last = End(t) - 1
  BY ContinueFacts DEF LeftAt
<1>4. opened' => last_id' = End(t) - 1 /\ recovered' = last_id' /\ entries' = <<>> /\ last_acked_id' = None
  BY <1>3 DEF OpenForRead, EndReadOnly, StartMem, FreshMem
<1> QED BY <1>1, <1>2, <1>4 DEF LeftAt

\* A process opens the queue for writing.
LEMMA WriteStep ==
  ASSUME NEW t \in DOMAIN wal, LeftAt(t), OpenForWrite
  PROVE  /\ UpView' /\ last_id' + 1 = End(t) /\ before' = End(t) /\ End(t) \in Nat
         /\ file_id' \in Nat /\ wal'[file_id'] = NewFile(End(t))
         /\ assigned' = last_id' /\ last_id' \in Nat \cup {None}
         /\ last_id' = continue_queue.last
         /\ written' = <<>> /\ up' = TRUE /\ promised' = promised /\ io_errors' = io_errors
<1>1. FilesOK(t) /\ LogOK(t) /\ t \in Nat /\ promised \in Nat \cup {None} /\ promised < End(t)
  BY DEF LeftAt, FilesOK
<1>2. PICK f, last : f = continue_queue.file /\ last = continue_queue.last
  OBVIOUS
<1>3. /\ StartMem(last) /\ FreshWriter(f, last) /\ wal' = With(wal, f, NewFile(last + 1))
      /\ headless' = headless \ {f} /\ UNCHANGED <<store, promised, io_errors>>
      /\ up' = TRUE /\ opened' = FALSE
  BY <1>2 DEF OpenForWrite, increment
<1>4. /\ last = End(t) - 1 /\ End(t) \in Nat
      /\ (f = t /\ Content(t) = <<>>) \/ (f = t + 1 /\ End(t) > 0)
  BY <1>1, <1>2, ContinueFacts
<1>5. last + 1 = End(t) /\ last \in Nat \cup {None}
  BY SMT, <1>4 DEF None
<1>6. /\ file_id' = f /\ before' = End(t) /\ assigned' = last /\ old' = {} /\ received' = 0
      /\ worker' = [w \in Workers |-> Idle] /\ applied' = 0 /\ written' = <<>>
  BY <1>3, <1>5 DEF FreshWriter, increment
<1>7. last_id' = last /\ recovered' = last /\ last_acked_id' = None
  <2>1. CASE opened
    <3>1. last_id = End(t) - 1 /\ recovered = last_id /\ last_acked_id = None
      BY <2>1 DEF LeftAt
    <3>2. UNCHANGED <<last_id, recovered, last_acked_id>>
      BY <1>3, <2>1 DEF StartMem, memVars
    <3>3. last_id = last
      BY <1>4, <3>1
    <3> QED BY <3>1, <3>2, <3>3
  <2>2. CASE ~opened
    BY <1>3, <2>2 DEF StartMem, FreshMem
  <2> QED BY <2>1, <2>2
<1>8. FilesOK(f)' /\ LogOK(f)' /\ End(f)' = End(t)
  <2>1. wal' = With(wal, f, NewFile(End(t)))
    BY <1>3, <1>5
  <2>2. CASE f = t /\ Content(t) = <<>>
    BY <1>1, <1>3, <2>1, <2>2, TopReset
  <2>3. CASE f = t + 1 /\ End(t) > 0
    <3>1. PowerLoss => wal[t].synced = Len(wal[t].ids)
      BY DEF LeftAt
    <3> QED BY SMTT(20), <1>1, <1>3, <2>1, <2>3, <3>1, TopAdded
  <2> QED BY <1>4, <2>2, <2>3
<1>9. f \in Nat /\ f \notin headless' /\ wal'[f] = NewFile(End(t))
  BY SMT, <1>1, <1>3, <1>4, <1>5 DEF With
<1>10. StoreOK'
  BY <1>6 DEF StoreOK, JobOK
<1>11. f = file_id' /\ End(f)' = End(file_id)'
  BY <1>6
<1>12. UpView'
  <2>1. FilesOK(file_id)' /\ LogOK(file_id)' /\ End(file_id)' = End(t) /\ file_id' \notin headless'
    BY <1>8, <1>9, <1>11
  <2>2. promised' \in Nat \cup {None} /\ promised' < before' /\ recovered' < before'
        /\ last_acked_id' < End(file_id)'
    BY SMTT(20), <1>1, <1>3, <1>4, <1>6, <1>7, <2>1 DEF None
  <2> QED BY SMT, <1>3, <1>6, <1>7, <1>10, <2>1, <2>2 DEF UpView
<1> QED BY SMTT(20), <1>2, <1>3, <1>4, <1>5, <1>6, <1>7, <1>9, <1>11, <1>12

-----------------------------------------------------------------------------
(* What the files show a reader                                             *)

\* The ids on disk are the ones up to the end of the last run.
LEMMA OnDiskFacts ==
  ASSUME NEW t, FilesOK(t), LogOK(t)
  PROVE  OnDisk = 0..End(t) - 1 /\ End(t) \in Nat
<1>1. t \in Files /\ t \in Nat /\ \A f \in Files : f \in 1..t
  BY DEF FilesOK, Files
<1>2. \A f \in Files : /\ Content(f) \in Seq(Nat) /\ Len(Content(f)) \in Nat
                       /\ First(f) \in Nat /\ End(f) = First(f) + Len(Content(f))
                       /\ \A i \in 1..Len(Content(f)) : Content(f)[i] = First(f) + i - 1
  BY ContentFacts
<1>3. \A f \in Files : End(f) <= End(t)
  <2>1. ASSUME NEW f \in Files, f # t PROVE End(f) <= End(t)
    <3>1. f < t
      BY SMT, <1>1, <2>1
    <3>2. End(f) <= First(t)
      BY <1>1, <3>1 DEF LogOK
    <3> QED BY SMT, <1>1, <1>2, <3>2
  <2>2. End(t) <= End(t)
    BY SMT, <1>1, <1>2
  <2> QED BY <2>1, <2>2
<1>4. ASSUME NEW id \in OnDisk PROVE id \in 0..End(t) - 1
  <2>1. PICK f \in Files : id \in Range(Content(f))
    BY DEF OnDisk
  <2>2. PICK i \in 1..Len(Content(f)) : id = Content(f)[i]
    BY SMT, <1>2, <2>1 DEF Range
  <2>3. id = First(f) + i - 1 /\ End(f) = First(f) + Len(Content(f)) /\ First(f) \in Nat
        /\ Len(Content(f)) \in Nat
    BY <1>2, <2>2
  <2>4. End(f) <= End(t) /\ End(t) \in Nat
    BY SMT, <1>1, <1>2, <1>3
  <2> QED BY SMT, <2>3, <2>4
<1>5. ASSUME NEW id \in 0..End(t) - 1 PROVE id \in OnDisk
  <2>1. PICK f \in Files : First(f) <= id /\ id < End(f)
    BY DEF LogOK
  <2> DEFINE i == id - First(f) + 1
  <2>2. i \in 1..Len(Content(f)) /\ First(f) + i - 1 = id
    BY SMT, <1>2, <2>1
  <2>3. Content(f)[i] = id
    BY <1>2, <2>2
  <2>4. id \in Range(Content(f))
    <3>1. DOMAIN Content(f) = 1..Len(Content(f))
      BY SMT, <1>2
    <3>2. i \in DOMAIN Content(f)
      BY <2>2, <3>1
    <3> QED BY <2>3, <3>2 DEF Range
  <2> QED BY <2>4 DEF OnDisk
<1>6. End(t) \in Nat
  BY SMT, <1>1, <1>2
<1> QED BY <1>4, <1>5, <1>6

\* The entries ascend within a file and from one file to the next.
LEMMA EntriesAscend ==
  ASSUME NEW t, FilesOK(t), LogOK(t), NEW f \in Files, NEW g \in Files,
         NEW i \in 1..Len(Content(f)), NEW j \in 1..Len(Content(g)), f < g \/ (f = g /\ i < j)
  PROVE  Content(f)[i] < Content(g)[j]
<1>1. \A h \in {f, g} : /\ Len(Content(h)) \in Nat /\ First(h) \in Nat /\ End(h) = First(h) + Len(Content(h))
                        /\ \A k \in 1..Len(Content(h)) : Content(h)[k] = First(h) + k - 1
  BY ContentFacts
<1>2. Content(f)[i] = First(f) + i - 1 /\ Content(g)[j] = First(g) + j - 1
  BY <1>1
<1>3. CASE f < g
  <2>1. End(f) <= First(g)
    BY <1>3 DEF LogOK
  <2> QED BY SMT, <1>1, <1>2, <2>1
<1>4. CASE f = g /\ i < j
  BY SMT, <1>1, <1>2, <1>4
<1> QED BY <1>3, <1>4

\* The headers and the store's ranges say what the files hold.
LEMMA Tiles ==
  ASSUME NEW t, FilesOK(t), LogOK(t)
  PROVE  RangesTile
<1> SUFFICES ASSUME NEW f \in Files, Content(f) # <<>>
             PROVE  /\ f \in DOMAIN store =>
                         store[f].before = Content(f)[1] /\ StoreEnd(f) = LastId(Content(f))
                    /\ f \in DOMAIN wal => wal[f].before = Content(f)[1]
                    /\ \A g \in Files : g < f /\ Content(g) # <<>> =>
                         LastId(Content(g)) < Content(f)[1]
  BY DEF RangesTile
<1>1. \A g \in Files : /\ Content(g) \in Seq(Nat) /\ Len(Content(g)) \in Nat
                       /\ First(g) \in Nat /\ End(g) = First(g) + Len(Content(g))
                       /\ \A i \in 1..Len(Content(g)) : Content(g)[i] = First(g) + i - 1
  BY ContentFacts
<1>2. ASSUME NEW g \in Files, Content(g) # <<>>
      PROVE  /\ Content(g)[1] = First(g) /\ LastId(Content(g)) = End(g) - 1
             /\ Len(Content(g)) > 0 /\ First(g) \in Nat /\ End(g) = First(g) + Len(Content(g))
  <2>1. Len(Content(g)) \in Nat \ {0}
    BY SMT, <1>1, <1>2
  <2>2. 1 \in 1..Len(Content(g)) /\ Len(Content(g)) \in 1..Len(Content(g))
    BY SMT, <2>1
  <2>3. Content(g)[1] = First(g) + 1 - 1 /\ Content(g)[Len(Content(g))] = First(g) + Len(Content(g)) - 1
    BY <1>1, <2>2
  <2> QED BY SMT, <1>1, <2>1, <2>3 DEF LastId
<1>3. FileOK(f) /\ Content(f)[1] = First(f) /\ LastId(Content(f)) = End(f) - 1
      /\ Len(Content(f)) > 0 /\ First(f) \in Nat /\ End(f) = First(f) + Len(Content(f))
  BY <1>2 DEF FilesOK
<1>4. f \in DOMAIN store => store[f].before = Content(f)[1] /\ StoreEnd(f) = LastId(Content(f))
  <2> SUFFICES ASSUME f \in DOMAIN store
               PROVE  store[f].before = Content(f)[1] /\ StoreEnd(f) = LastId(Content(f))
    OBVIOUS
  <2>1. store[f].num = Len(Content(f)) /\ store[f].before = First(f)
    BY <1>3 DEF FileOK, First, Content
  <2>2. StoreEnd(f) = First(f) + Len(Content(f)) - 1
    BY <1>3, <2>1 DEF StoreEnd
  <2>3. StoreEnd(f) = End(f) - 1
    BY SMT, <1>3, <2>2
  <2> QED BY <1>3, <2>1, <2>3
<1>5. f \in DOMAIN wal => wal[f].before = Content(f)[1]
  BY <1>3 DEF FileOK, First, Holds
<1>6. ASSUME NEW g \in Files, g < f, Content(g) # <<>> PROVE LastId(Content(g)) < Content(f)[1]
  <2>1. End(g) <= First(f) /\ LastId(Content(g)) = End(g) - 1 /\ End(g) \in Int
    <3>1. End(g) <= First(f)
      BY <1>6 DEF LogOK
    <3>2. /\ LastId(Content(g)) = End(g) - 1 /\ First(g) \in Nat /\ Len(Content(g)) \in Nat
          /\ End(g) = First(g) + Len(Content(g))
      BY <1>1, <1>2, <1>6
    <3>3. End(g) \in Int
      BY SMT, <3>2
    <3> QED BY <3>1, <3>2, <3>3
  <2> QED BY SMT, <1>3, <2>1
<1> QED BY <1>4, <1>5, <1>6

\* Either way.
View == IF up THEN UpView /\ WriterView ELSE DownView

\* Where the log ends, in every state.
LEMMA ViewFacts ==
  ASSUME View
  PROVE  \E t : /\ FilesOK(t) /\ LogOK(t) /\ Acked \in Nat \cup {None} /\ Acked < End(t)
                /\ up => t = file_id
                /\ ~up => LeftAt(t)
<1>1. CASE up
  <2>1. PICK t : t = file_id
    OBVIOUS
  <2>2. UpView /\ WriterView
    BY <1>1 DEF View
  <2>3. Acked \in Nat \cup {None} /\ Acked < End(file_id)
    BY <2>2, AckedFacts, CurEnds DEF UpView
  <2> QED BY <1>1, <2>1, <2>2, <2>3 DEF UpView
<1>2. CASE ~up
  <2>1. DownView
    BY <1>2 DEF View
  <2>2. PICK t \in DOMAIN wal : LeftAt(t)
    BY <2>1 DEF DownView
  <2>3. Acked = promised
    BY <2>1 DEF DownView, Acked
  <2> QED BY <1>2, <2>2, <2>3 DEF LeftAt
<1> QED BY <1>1, <1>2

\* What has been acknowledged can be read from the files, an orderly close leaves
\* all of it there, and the files' headers tell where.
LEMMA ViewShows ==
  ASSUME View
  PROVE  AckedIsOnDisk /\ RangesTile /\ CloseKeepsAll
<1>1. PICK t : /\ FilesOK(t) /\ LogOK(t) /\ Acked \in Nat \cup {None} /\ Acked < End(t)
               /\ up => t = file_id
  BY ViewFacts
<1>2. OnDisk = 0..End(t) - 1 /\ End(t) \in Nat
  BY <1>1, OnDiskFacts
<1>3. AckedIsOnDisk
  BY SMT, <1>1, <1>2 DEF AckedIsOnDisk, None
<1>4. RangesTile
  BY <1>1, Tiles
<1>5. CloseKeepsAll
  <2> SUFFICES ASSUME writer = "closed" PROVE OnDisk = 0..last_written_id
    BY DEF CloseKeepsAll
  <2>1. up
    BY DEF View, DownView
  <2>2. UpView /\ WriterView /\ t = file_id
    BY <1>1, <2>1 DEF View
  <2>3. End(t) = last_written_id + 1 /\ last_written_id \in Int
    <3>1. End(t) = before + Len(CurIds)
      BY <2>2, CurEnds DEF UpView
    <3>2. before + Len(CurIds) = last_written_id + 1 /\ last_written_id \in Nat \cup {None}
      BY <2>2 DEF WriterView
    <3>3. last_written_id \in Int
      BY SMT, <3>2 DEF None
    <3> QED BY <3>1, <3>2, <3>3
  <2> QED BY SMT, <1>2, <2>3
<1> QED BY <1>3, <1>4, <1>5

\* The window of the memory queue, as far as the files depend on it.
MemView ==
  /\ last_id \in Int /\ Len(entries) \in Nat /\ recovered \in Int /\ last_acked_id \in Int
  /\ IdsOf(entries) = last_id - Len(entries) + 1..last_id
  /\ last_id - Len(entries) <= MaxOpt(recovered, last_acked_id)

\* What memory has dropped is in the files.
LEMMA NoneBetween ==
  ASSUME View, MemView
  PROVE  NothingBetween
<1>1. PICK t : /\ FilesOK(t) /\ LogOK(t) /\ (up => t = file_id) /\ (~up => LeftAt(t))
  BY ViewFacts
<1>2. OnDisk = 0..End(t) - 1 /\ End(t) \in Nat
  BY <1>1, OnDiskFacts
<1>3. ASSUME up \/ opened PROVE last_id - Len(entries) < End(t)
  <2>1. CASE up
    <3>1. UpView /\ WriterView /\ t = file_id
      BY <1>1, <2>1 DEF View
    <3>2. End(t) = before + Len(CurIds) /\ before \in Nat /\ Len(CurIds) \in Nat
      BY <3>1, CurEnds DEF UpView, WriterView
    <3>3. recovered < End(t) /\ last_acked_id < End(t)
      BY SMT, <3>1, <3>2 DEF UpView, MemView
    <3> QED BY SMT, <1>2, <3>3 DEF MemView, MaxOpt
  <2>2. CASE ~up
    BY SMT, <1>1, <1>2, <1>3, <2>2 DEF LeftAt, MemView
  <2> QED BY <2>1, <2>2
<1>4. ASSUME up \/ opened, NEW id \in 0..last_id PROVE id \in OnDisk \cup IdsOf(entries)
  BY SMT, <1>2, <1>3, <1>4 DEF MemView
<1> QED BY <1>4 DEF NothingBetween

-----------------------------------------------------------------------------
(* The steps of a process that has the queue open for writing               *)

\* A step that leaves the files and the workers alone.
LEMMA UpSame ==
  ASSUME UpView, UNCHANGED <<wal, store, headless, file_id, before, worker, old, received>>,
         UNCHANGED <<promised, recovered, opened>>,
         assigned' = last_id', last_acked_id' < End(file_id), applied' \in Nat
  PROVE  UpView'
<1>1. PICK t : t = file_id
  OBVIOUS
<1>2. FilesOK(t)' /\ LogOK(t)' /\ End(t)' = End(t)
  BY <1>1, FilesSame DEF UpView
<1>3. StoreOK'
  BY DEF UpView, StoreOK, JobOK, Holds, Files
<1>4. t = file_id'
  BY <1>1
<1>5. FilesOK(file_id)' /\ LogOK(file_id)' /\ End(file_id)' = End(file_id)
  BY <1>1, <1>2, <1>4
<1> QED BY <1>3, <1>5 DEF UpView

\* New entries, and acknowledgements that reach the memory queue.
LEMMA MemStep ==
  ASSUME UpView, WriterView, last_acked_id \in Int, Enqueue \/ AckTask
  PROVE  UpView'
<1>1. CASE Enqueue
  <2>1. PICK lens : enqueue_batch(lens) /\ Assign(lens)
    BY <1>1 DEF Enqueue
  <2>2. /\ last_id' = last_id + Len(lens) /\ UNCHANGED <<last_acked_id, recovered>>
        /\ assigned' = assigned + Len(lens) /\ UNCHANGED <<wal, file_id, before>>
    BY <2>1 DEF enqueue_batch, Push, Assign, fileVars
  <2>3. UNCHANGED <<store, headless, worker, old, received, promised, opened, applied>>
    BY <1>1 DEF Enqueue, diskVars, storeVars
  <2> QED BY <2>2, <2>3, UpSame DEF UpView
<1>2. CASE AckTask
  <2>1. /\ UNCHANGED <<wal, store, headless, file_id, before, worker, old, received>>
        /\ UNCHANGED <<promised, opened, assigned>>
        /\ applied < Len(written) /\ applied' = applied + 1 /\ ack(written[applied + 1])
    BY <1>2 DEF AckTask, walVars, taskVars, diskVars, storeVars
  <2>2. last_acked_id' = MaxOpt(last_acked_id, written[applied + 1]) /\ UNCHANGED <<last_id, recovered>>
    BY <2>1, Zenon DEF ack, MaxOpt, MaxOpt
  <2>3. applied \in Nat /\ written \in Seq(Nat)
    BY DEF UpView, WriterView
  <2>4. applied + 1 \in 1..Len(written)
    BY SMT, <2>1, <2>3
  <2>5. written[applied + 1] < End(file_id)
    <3>1. /\ End(file_id) = before + Len(CurIds) /\ Len(CurIds) \in Nat /\ before \in Nat
          /\ wal[file_id].synced \in Nat /\ wal[file_id].synced <= Len(CurIds)
      BY CurEnds DEF UpView, WriterView, WalFile
    <3>2. written[applied + 1] < before + (IF Fsync THEN wal[file_id].synced ELSE Len(CurIds))
      BY <2>4 DEF WriterView
    <3>3. written[applied + 1] \in Nat
      BY SMT, <2>3, <2>4
    <3>4. CASE Fsync
      <4>1. written[applied + 1] < before + wal[file_id].synced
        BY <3>2, <3>4
      <4> QED BY SMT, <3>1, <3>3, <4>1
    <3>5. CASE ~Fsync
      BY <3>1, <3>2, <3>5
    <3> QED BY <3>4, <3>5
  <2>6. last_acked_id' < End(file_id)
    BY <2>2, <2>5 DEF MaxOpt, UpView
  <2>7. applied' \in Nat /\ assigned' = last_id' /\ recovered' = recovered
    BY SMT, <2>1, <2>2, <2>3 DEF UpView
  <2>8. /\ UNCHANGED <<wal, store, headless, file_id, before, worker, old, received>>
        /\ UNCHANGED <<promised, recovered, opened>>
    BY <2>1, <2>7
  <2> QED BY <2>6, <2>7, <2>8, UpSame
<1> QED BY <1>1, <1>2

\* The workers of the store, and process_old_files.
LEMMA StoreStep ==
  ASSUME UpView, WriterView,
         \E least \in Nat : least <= file_id /\ Min({file_id} \cup Range(wal_complete)) = least,
         process_old_files \/ \E w \in Workers : WorkerStep(w)
  PROVE  UpView'
<1>1. /\ UNCHANGED <<headless, file_id, before, promised, recovered, opened, assigned>>
      /\ UNCHANGED <<last_id, last_acked_id, applied>>
  BY DEF process_old_files, WorkerStep, ReceiveFile, Publish, Finish, walVars, taskVars, diskVars, memVars
<1>2. FilesOK(file_id) /\ LogOK(file_id) /\ StoreOK
      /\ wal_complete \in Seq(Nat) /\ \A n \in 1..Len(wal_complete) : wal_complete[n] < file_id
  BY DEF UpView, WriterView
<1>3. ASSUME FilesOK(file_id)', LogOK(file_id)', End(file_id)' = End(file_id), StoreOK'
      PROVE  UpView'
  BY <1>1, <1>3 DEF UpView
<1>4. ASSUME StoreOK', UNCHANGED <<wal, store>> PROVE UpView'
  <2>1. PICK t : t = file_id
    OBVIOUS
  <2>2. FilesOK(t)' /\ LogOK(t)' /\ End(t)' = End(t)
    BY <1>1, <1>2, <1>4, <2>1, FilesSame
  <2>3. t = file_id'
    BY <1>1, <2>1
  <2> QED BY <1>3, <1>4, <2>1, <2>2, <2>3
<1>5. CASE process_old_files
  <2>1. UNCHANGED <<wal, store>>
    BY <1>5 DEF process_old_files, walVars, diskVars
  <2>2. StoreOK'
    BY <1>2, <1>5, OldFilesStep
  <2> QED BY <1>4, <2>1, <2>2
<1>6. ASSUME NEW w \in Workers, ReceiveFile(w) PROVE UpView'
  <2>1. UNCHANGED <<wal, store>>
    BY <1>6 DEF ReceiveFile, walVars, diskVars
  <2>2. StoreOK'
    BY <1>2, <1>6, ReceiveStep
  <2> QED BY <1>4, <2>1, <2>2
<1>7. ASSUME NEW w \in Workers, Publish(w) PROVE UpView'
  BY <1>2, <1>3, <1>7, PublishStep
<1>8. ASSUME NEW w \in Workers, Finish(w) PROVE UpView'
  BY <1>2, <1>3, <1>8, FinishStep
<1> QED BY <1>5, <1>6, <1>7, <1>8 DEF WorkerStep

\* The tasks of the writer assign no ids.
LEMMA SameAssigned ==
  ASSUME (\E batch \in unsent : Send(batch)) \/ WriterTask \/ FlushTask
  PROVE  assigned' = assigned
<1>1. CASE \E batch \in unsent : Send(batch)
  BY <1>1 DEF Send
<1>2. CASE WriterTask
  BY <1>2 DEF WriterTask, Receive, Order, AppendEntry, Rotate, Open,
     OpenFails, HandleClose, Closed, producerVars
<1>3. CASE FlushTask
  BY <1>3 DEF FlushTask, FlushTake, FlushNothing, WriteOk, SyncOk, WriteFails,
     SyncFails, FailAttempt, WriterUnchanged, producerVars
<1> QED BY <1>1, <1>2, <1>3

\* The writer and the closing of the queue.
LEMMA WalSteps ==
  ASSUME UpView, WriterView, WriterView', PowerLoss => Fsync, recovered \in Int, last_acked_id \in Int,
         (WalStep /\ WriterMoves) \/ CloseStore \/ CloseWal
  PROVE  UpView'
<1>1. CASE WalStep /\ WriterMoves
  <2>1. /\ UNCHANGED <<last_id, last_acked_id, recovered, opened, applied, promised>>
        /\ UNCHANGED <<store, worker, old, received>>
        /\ headless' = headless \ (DOMAIN wal' \ DOMAIN wal)
    BY <1>1 DEF WalStep, memVars, storeVars
  <2>2. assigned' = assigned
    BY <1>1, SameAssigned DEF WalStep
  <2>3. /\ FilesOK(file_id)' /\ LogOK(file_id)' /\ (file_id \notin headless)' /\ StoreOK'
        /\ End(file_id)' >= End(file_id) /\ before' >= before
        /\ End(file_id)' \in Nat /\ End(file_id) \in Nat /\ before \in Nat
    BY <1>1, <2>1, WriterFiles DEF UpView
  <2>4. before' \in Nat
    BY DEF WriterView
  <2>5. promised < before' /\ recovered < before' /\ last_acked_id < End(file_id)'
    BY SMT, <2>3, <2>4 DEF UpView, None
  <2> QED BY <2>1, <2>2, <2>3, <2>5 DEF UpView
<1>2. CASE CloseStore
  <2>1. /\ UNCHANGED <<wal, store, headless, file_id, before, worker, old, received>>
        /\ UNCHANGED <<promised, recovered, opened, assigned, last_id, last_acked_id, applied>>
    BY <1>2 DEF CloseStore, walVars, taskVars, diskVars, memVars
  <2> QED BY <2>1, UpSame DEF UpView
<1>3. CASE CloseWal
  <2>1. /\ UNCHANGED <<wal, store, headless, file_id, before, worker, old, received>>
        /\ UNCHANGED <<promised, recovered, opened, assigned, last_id, last_acked_id, applied>>
    BY <1>3 DEF CloseWal, Close, fileVars, diskVars, memVars, storeVars
  <2> QED BY <2>1, UpSame DEF UpView
<1> QED BY <1>1, <1>2, <1>3

-----------------------------------------------------------------------------
(* The abstract log                                                         *)

\* How many ids the queue has, as DurableQueue has it.
Length == IF up \/ opened THEN last_id + 1 ELSE increment(continue_queue.last)

\* A step of the abstract log, or none.
Abstract == [Log!Next]_<<Length, Acked>>

\* Between two processes the files tell the length.
LEMMA LeftLength ==
  \A t : LeftAt(t) /\ up = FALSE /\ opened \in BOOLEAN => Length = End(t) /\ End(t) \in Nat
<1> SUFFICES ASSUME NEW t, LeftAt(t), up = FALSE, opened \in BOOLEAN
             PROVE  Length = End(t) /\ End(t) \in Nat
  OBVIOUS
<1>1. continue_queue.last = End(t) - 1 /\ End(t) \in Nat
  BY ContinueFacts DEF LeftAt
<1>2. opened => last_id = End(t) - 1
  BY DEF LeftAt
<1> QED BY SMT, <1>1, <1>2 DEF Length, increment

\* The same after a step.
LEMMA LeftLengthNext ==
  (\A t : LeftAt(t) /\ up = FALSE /\ opened \in BOOLEAN => Length = End(t) /\ End(t) \in Nat)'
BY LeftLength, PTL

\* New entries extend the log.
LEMMA EnqueueExtends ==
  ASSUME Enqueue, last_id \in Int
  PROVE  Abstract
<1>1. PICK n \in 1..MaxBatch : \E lens \in [1..n -> DataLens] : enqueue_batch(lens) /\ Assign(lens)
  BY DEF Enqueue
<1>2. PICK lens \in [1..n -> DataLens] : enqueue_batch(lens) /\ Assign(lens)
  BY <1>1
<1>3. Len(lens) = n /\ n \in Nat \ {0}
  BY SMT, RecoveryAssumption
<1>4. last_id' = last_id + Len(lens)
  BY <1>2 DEF enqueue_batch, Push
<1>5. UNCHANGED <<written, promised>>
  BY <1>2 DEF Enqueue, Assign
<1>6. up /\ up'
  BY DEF Enqueue
<1>7. Length' > Length /\ Acked' = Acked
  <2>1. last_id' + 1 > last_id + 1
    BY SMT, <1>3, <1>4
  <2>2. Length' = last_id' + 1 /\ Length = last_id + 1
    BY <1>6 DEF Length
  <2>3. Acked' = Acked
    BY <1>5 DEF Acked
  <2> QED BY <2>1, <2>2, <2>3
<1> QED BY <1>7 DEF Abstract, Log!Next, Log!Extend, Length

\* The acknowledgements and the store's work are not seen.
LEMMA Unseen ==
  ASSUME up, up', UNCHANGED <<last_id, written, promised>>
  PROVE  Abstract
<1>1. Length' = Length /\ Acked' = Acked
  BY DEF Length, Acked
<1> QED BY <1>1 DEF Abstract

\* What is acknowledged has been assigned.
LEMMA AckBound ==
  WriterView => /\ assigned \in Int /\ before <= assigned + 1
                /\ \A n \in 1..Len(written) : written[n] < assigned + 1
<1> SUFFICES ASSUME WriterView
             PROVE  /\ assigned \in Int /\ before <= assigned + 1
                    /\ \A n \in 1..Len(written) : written[n] < assigned + 1
  OBVIOUS
<1>1. /\ before \in Nat /\ wal[file_id].synced \in Nat /\ Len(CurIds) \in Nat
      /\ Len(Handed(file_id)) \in Nat /\ written \in Seq(Nat)
  <2>1. /\ before \in Nat /\ wal[file_id] \in WalFile /\ Handed(file_id) \in Bytes
        /\ written \in Seq(Nat)
    BY DEF WriterView
  <2> QED BY <2>1, Records, BytesLen DEF CurIds
<1>2. /\ wal[file_id].synced <= Len(CurIds) /\ Len(CurIds) <= Len(Handed(file_id))
      /\ before + Len(Handed(file_id)) <= last_written_id + 1 /\ last_written_id <= assigned
      /\ last_written_id \in Int /\ assigned \in Int
  <2>1. last_written_id \in Nat \cup {None} /\ assigned \in Nat \cup {None}
    BY DEF WriterView
  <2>2. last_written_id \in Int /\ assigned \in Int
    BY SMT, <2>1 DEF None
  <2> QED BY <2>2 DEF WriterView
<1>3. ASSUME NEW n \in 1..Len(written) PROVE written[n] < assigned + 1
  <2> DEFINE k == IF Fsync THEN wal[file_id].synced ELSE Len(CurIds)
             w == written[n]
  <2>1. w \in Nat /\ w < before + k
    <3>1. w \in Nat
      BY SMT, <1>1
    <3>2. w < before + k
      BY DEF WriterView
    <3> QED BY <3>1, <3>2
  <2>2. k \in Nat /\ k <= Len(Handed(file_id))
    BY SMTT(20), <1>1, <1>2
  <2> HIDE DEF k, w
  <2>3. w < assigned + 1
    BY SMT, <1>1, <1>2, <2>1, <2>2
  <2> QED BY <2>3 DEF w
<1>4. before <= assigned + 1
  BY SMT, <1>1, <1>2
<1> QED BY <1>2, <1>3, <1>4

\* The same after a step.
LEMMA AckBoundNext ==
  (WriterView => /\ assigned \in Int /\ before <= assigned + 1
                 /\ \A n \in 1..Len(written) : written[n] < assigned + 1)'
BY AckBound, PTL

\* What the flush task acknowledges is in the log.
LEMMA AckExtends ==
  ASSUME UpView, WriterView, UpView', WriterView', up, up', UNCHANGED <<last_id, promised>>, last_id \in Int,
         NEW x \in Nat, written' = Append(written, x),
         \A m, n \in 1..Len(written') : m < n => written'[m] < written'[n]
  PROVE  Abstract
<1>1. Length' = Length /\ Length = last_id + 1
  BY DEF Length
<1>2. written \in Seq(Nat) /\ promised \in Int /\ Len(written) \in Nat
  <2>1. written \in Seq(Nat) /\ promised \in Nat \cup {None}
    BY DEF UpView, WriterView
  <2> QED BY SMT, <2>1 DEF None
<1>3. written' # <<>> /\ Len(written') = Len(written) + 1 /\ LastId(written') = x
  BY SMT, <1>2 DEF LastId
<1>4. Acked' = MaxOpt(promised, x)
  <2>1. LastId(written)' = x
    BY <1>3 DEF LastId
  <2> QED BY <1>3, <2>1 DEF Acked
<1>5. written # <<>> => LastId(written) < x /\ LastId(written) \in Nat
  <2> SUFFICES ASSUME written # <<>> PROVE LastId(written) < x /\ LastId(written) \in Nat
    OBVIOUS
  <2>1. /\ Len(written) \in 1..Len(written) /\ Len(written) \in 1..Len(written')
        /\ Len(written) + 1 \in 1..Len(written')
    BY SMT, <1>2, <1>3
  <2>2. written'[Len(written)] = written[Len(written)] /\ written'[Len(written) + 1] = x
    BY SMT, <1>2, <2>1
  <2>3. written'[Len(written)] < written'[Len(written) + 1]
    BY SMT, <1>2, <2>1
  <2> QED BY SMT, <1>2, <2>1, <2>2, <2>3 DEF LastId
<1>6. Acked \in Int /\ Acked' >= Acked /\ Acked' \in Int
  BY SMTT(20), <1>2, <1>4, <1>5 DEF Acked, MaxOpt
<1>7. Acked' < last_id + 1
  <2>1. x < last_id + 1
    <3>1. Len(written') \in 1..Len(written') /\ written'[Len(written')] = x
      BY SMT, <1>2, <1>3
    <3>2. x < assigned' + 1 /\ assigned' = last_id
      BY <3>1, AckBoundNext DEF UpView
    <3> QED BY <3>2
  <2>2. promised < last_id + 1
    <3>1. promised < before /\ before \in Nat /\ before <= last_id + 1
      BY AckBound DEF UpView, WriterView
    <3> QED BY SMT, <1>2, <3>1
  <2> QED BY <1>4, <2>1, <2>2 DEF MaxOpt
<1>8. Acked' = Acked \/ (Acked' > Acked /\ Acked' < Length)
  BY SMT, <1>1, <1>6, <1>7
<1> QED BY <1>1, <1>8 DEF Abstract, Log!Next, Log!Acknowledge, Length

\* The end of a process cuts the log, not into what was acknowledged.
LEMMA StopCuts ==
  ASSUME up, UpView, WriterView, PowerLoss => Fsync, last_id \in Int, Exit \/ Crash
  PROVE  up' = FALSE /\ DownView' /\ Abstract
<1>1. /\ written' = <<>> /\ writer' = "recv" /\ up' = FALSE /\ opened' = FALSE
      /\ \E t \in DOMAIN wal' : LeftAt(t)' /\ End(t)' <= last_id + 1
  BY StopStep
<1>2. PICK t \in DOMAIN wal' : LeftAt(t)' /\ End(t)' <= last_id + 1
  BY <1>1
<1>3. Length' = End(t)' /\ End(t)' \in Nat
  BY <1>1, <1>2, LeftLengthNext
<1>4. Length = last_id + 1
  BY DEF Length
<1>5. promised' = Acked
  BY DEF Exit, Crash, Down, Acked
<1>6. Acked' = Acked
  BY <1>1, <1>5 DEF Acked
<1>7. promised' < End(t)'
  BY <1>2 DEF LeftAt
<1>8. DownView'
  BY <1>1, <1>2 DEF DownView
<1>9. Length' = Length \/ (Length' < Length /\ Acked < Length')
  BY SMT, <1>2, <1>3, <1>4, <1>5, <1>7
<1>10. Abstract
  BY <1>6, <1>9 DEF Abstract, Log!Next, Log!Cut, Length
<1> QED BY <1>1, <1>8, <1>10

\* A read-only open keeps what the process that ended left behind.
LEMMA ReadKeeps ==
  ASSUME up = FALSE, DownView, OpenForRead \/ EndReadOnly
  PROVE  DownView' /\ up' = FALSE
<1>1. PICK t \in DOMAIN wal : LeftAt(t)
  BY DEF DownView
<1>2. /\ LeftAt(t)' /\ t \in DOMAIN wal'
      /\ written' = <<>> /\ writer' = "recv" /\ opened' \in BOOLEAN /\ UNCHANGED up
  BY <1>1, ReadStep DEF DownView
<1> QED BY <1>2 DEF DownView

\* Recovery keeps the log as it is.
LEMMA OpenUnseen ==
  ASSUME up = FALSE, DownView, OpenForRead \/ EndReadOnly \/ OpenForWrite
  PROVE  Abstract
<1>1. PICK t \in DOMAIN wal : LeftAt(t)
  BY DEF DownView
<1>2. Length = End(t) /\ End(t) \in Nat
  BY <1>1, LeftLength DEF DownView
<1>3. Length' = Length /\ written' = <<>> /\ promised' = promised
  <2>1. CASE OpenForRead \/ EndReadOnly
    <3>1. /\ LeftAt(t)' /\ End(t)' = End(t) /\ t \in DOMAIN wal'
          /\ written' = <<>> /\ opened' \in BOOLEAN /\ UNCHANGED <<up, promised>>
      BY <1>1, <2>1, ReadStep DEF DownView
    <3>2. Length' = End(t)'
      BY <3>1, LeftLengthNext
    <3> QED BY <1>2, <3>1, <3>2
  <2>2. CASE OpenForWrite
    <3>1. last_id' + 1 = End(t) /\ written' = <<>> /\ up' = TRUE /\ promised' = promised
      BY <1>1, <2>2, WriteStep
    <3> QED BY <1>2, <3>1 DEF Length
  <2> QED BY <2>1, <2>2
<1>4. Acked' = Acked
  BY <1>3 DEF Acked, DownView
<1> QED BY <1>3, <1>4 DEF Abstract

-----------------------------------------------------------------------------
(* The first process, and failed calls                                      *)

\* The first process has one file, and nothing in it.
LEMMA InitView ==
  ASSUME Init, last_id = None, recovered = None, last_acked_id = None
  PROVE  UpView
<1>1. /\ wal = [f \in {1} |-> NewFile(0)] /\ store = <<>> /\ headless = {}
      /\ file_id = 1 /\ before = 0 /\ assigned = None /\ worker = [w \in Workers |-> Idle]
      /\ old = {} /\ received = 0 /\ opened = FALSE /\ promised = None /\ applied = 0
  BY SMTT(20) DEF Init, WalStart, None, None
<1>2. DOMAIN wal = {1} /\ DOMAIN store = {} /\ Files = {1} /\ wal[1] = NewFile(0)
  BY SMT, <1>1 DEF Files
<1>3. wal[1] \in WalFile /\ wal[1].before = 0 /\ wal[1].ids = <<>> /\ wal[1].synced = 0
  <2>1. 0 \in Nat
    BY SMT
  <2> QED BY <1>2, <2>1, NewFileFacts
<1>4. Run(0, <<>>)
  BY NewFileFacts
<1>5. FileOK(1)
  <2>1. 1 \in DOMAIN wal /\ 1 \notin DOMAIN store
    BY <1>2
  <2> QED BY <1>3, <1>4, <2>1 DEF FileOK
<1>6. FilesOK(1)
  BY SMT, <1>2, <1>3, <1>5 DEF FilesOK
<1>7. Content(1) = <<>> /\ First(1) = 0 /\ End(1) = 0
  <2>1. Content(1) = <<>>
    BY <1>1, <1>2, <1>3, NewFileFacts DEF Content
  <2> QED BY SMT, <1>2, <1>3, <2>1 DEF First, End
<1>8. LogOK(1)
  BY SMT, <1>2, <1>7 DEF LogOK
<1>9. StoreOK
  BY <1>1 DEF StoreOK, JobOK
<1> QED BY SMT, <1>1, <1>6, <1>7, <1>8, <1>9 DEF UpView, None

\* A failed call is counted, and never forgotten.
LEMMA ErrorsGrow ==
  ASSUME [Next]_vars
  PROVE  io_errors' \in {io_errors, io_errors + 1}
<1>1. CASE WalStep
  <2>1. CASE \E batch \in unsent : Send(batch)
    BY <2>1 DEF Send
  <2>2. CASE WriterTask
    BY <2>2 DEF WriterTask, Receive, Order, AppendEntry, Rotate, Open,
       OpenFails, HandleClose, Closed
  <2>3. CASE FlushTask
    BY <2>3 DEF FlushTask, FlushTake, FlushNothing, WriteOk, SyncOk, WriteFails,
       SyncFails, FailAttempt
  <2> QED BY <1>1, <2>1, <2>2, <2>3 DEF WalStep
<1>2. CASE Enqueue
  BY <1>2 DEF Enqueue, Assign
<1>3. CASE CloseWal
  BY <1>3 DEF CloseWal, Close
<1>4. CASE AckTask \/ process_old_files \/ CloseStore \/ OpenForRead \/ EndReadOnly
  BY <1>4 DEF AckTask, process_old_files, CloseStore, OpenForRead, EndReadOnly, walVars, taskVars
<1>5. CASE Exit \/ Crash \/ OpenForWrite
  BY <1>5 DEF Exit, Crash, Down, OpenForWrite
<1>6. ASSUME NEW w \in Workers, WorkerStep(w) PROVE io_errors' = io_errors
  BY <1>6 DEF WorkerStep, ReceiveFile, Publish, Finish, walVars, taskVars
<1>7. CASE UNCHANGED vars
  BY <1>7 DEF vars, walVars, taskVars
<1> QED BY SMT, <1>1, <1>2, <1>3, <1>4, <1>5, <1>6, <1>7 DEF Next

-----------------------------------------------------------------------------
(* Every step                                                               *)

\* What the step of a writer may be.
WriterStepSeen ==
  /\ WalStep => WriterMoves /\ (written' = written \/ \E x \in Nat : written' = Append(written, x))
  /\ up' => WriterView' /\ \A m, n \in 1..Len(written') : m < n => written'[m] < written'[n]

\* While one process writes, it extends the log and acknowledges what is in it.
LEMMA UpKeeps ==
  ASSUME UpView, WriterView, MemView, up, WriterStepSeen, PowerLoss => Fsync,
         \E least \in Nat : least <= file_id /\ Min({file_id} \cup Range(wal_complete)) = least,
         \/ Enqueue \/ AckTask \/ WalStep \/ process_old_files \/ CloseStore \/ CloseWal
         \/ \E w \in Workers : WorkerStep(w)
  PROVE  up' = up /\ UpView' /\ Abstract
<1>1. up' = up /\ promised' = promised
  BY DEF Enqueue, AckTask, WalStep, process_old_files, CloseStore, CloseWal, WorkerStep, ReceiveFile, Publish, Finish
<1>2. last_id \in Int /\ recovered \in Int /\ last_acked_id \in Int
  BY DEF MemView
<1>3. WriterView' /\ \A m, n \in 1..Len(written') : m < n => written'[m] < written'[n]
  BY <1>1 DEF WriterStepSeen
<1>4. CASE Enqueue
  BY <1>1, <1>2, <1>4, MemStep, EnqueueExtends
<1>5. CASE AckTask
  <2>1. UNCHANGED <<last_id, written>>
    BY <1>5 DEF AckTask, ack, walVars, taskVars
  <2> QED BY SMT, <1>1, <1>2, <1>5, <2>1, MemStep, Unseen
<1>6. CASE WalStep
  <2>1. WriterMoves /\ (written' = written \/ \E x \in Nat : written' = Append(written, x))
    BY <1>6 DEF WriterStepSeen
  <2>2. UpView'
    BY <1>2, <1>3, <1>6, <2>1, WalSteps
  <2>3. last_id' = last_id
    BY <1>6 DEF WalStep, memVars
  <2>4. CASE written' = written
    BY <1>1, <2>2, <2>3, <2>4, Unseen
  <2>5. CASE \E x \in Nat : written' = Append(written, x)
    BY SMT, <1>1, <1>2, <1>3, <2>2, <2>3, <2>5, AckExtends
  <2> QED BY <2>1, <2>4, <2>5
<1>7. CASE CloseStore \/ CloseWal
  <2>1. UNCHANGED <<last_id, written>>
    BY <1>7 DEF CloseStore, CloseWal, Close, walVars, taskVars, memVars
  <2> QED BY SMT, <1>1, <1>2, <1>3, <1>7, <2>1, WalSteps, Unseen
<1>8. CASE process_old_files \/ \E w \in Workers : WorkerStep(w)
  <2>1. UNCHANGED <<last_id, written>>
    BY <1>8 DEF process_old_files, WorkerStep, ReceiveFile, Publish, Finish, walVars, taskVars, memVars
  <2> QED BY <1>1, <1>8, <2>1, StoreStep, Unseen
<1> QED BY <1>4, <1>5, <1>6, <1>7, <1>8

\* Every step keeps the files as they must be, and is a step of the abstract log.
LEMMA ViewStep ==
  ASSUME up \in BOOLEAN, View, MemView, [Next]_vars, WriterStepSeen, PowerLoss => Fsync,
         up => \E least \in Nat : least <= file_id /\ Min({file_id} \cup Range(wal_complete)) = least
  PROVE  up' \in BOOLEAN /\ (IF up' THEN UpView' ELSE DownView') /\ Abstract
<1>1. up => UpView /\ WriterView
  BY DEF View
<1>2. ~up => up = FALSE /\ DownView
  BY DEF View
<1>3. CASE \/ Enqueue \/ AckTask \/ WalStep \/ process_old_files \/ CloseStore \/ CloseWal
           \/ \E w \in Workers : WorkerStep(w)
  <2>1. up
    BY <1>3 DEF Enqueue, AckTask, WalStep, process_old_files, CloseStore, CloseWal, WorkerStep, ReceiveFile,
       Publish, Finish
  <2> QED BY <1>1, <1>3, <2>1, UpKeeps
<1>4. CASE Exit \/ Crash
  <2>1. up
    BY <1>4 DEF Exit, Crash, Down
  <2> QED BY <1>1, <1>4, <2>1, StopCuts DEF MemView
<1>5. CASE OpenForRead \/ EndReadOnly
  <2>1. ~up
    BY <1>1, <1>5 DEF OpenForRead, EndReadOnly, UpView
  <2> QED BY <1>2, <1>5, <2>1, ReadKeeps, OpenUnseen
<1>6. CASE OpenForWrite
  <2>1. ~up
    BY <1>6 DEF OpenForWrite
  <2>2. UpView' /\ up' = TRUE
    BY <1>2, <1>6, <2>1, WriteStep DEF DownView
  <2> QED BY <1>2, <1>6, <2>1, <2>2, OpenUnseen
<1>7. CASE UNCHANGED vars
  <2>1. UNCHANGED <<wal, store, headless>> /\ UNCHANGED memVars /\ UNCHANGED taskVars
        /\ UNCHANGED storeVars /\ UNCHANGED <<up, opened, applied, promised>>
    <3>1. /\ UNCHANGED memVars /\ UNCHANGED walVars /\ UNCHANGED diskVars /\ UNCHANGED storeVars
          /\ UNCHANGED <<up, opened, applied, promised>>
      BY <1>7 DEF vars
    <3>2. UNCHANGED wal /\ UNCHANGED taskVars
      BY <3>1 DEF walVars, taskVars
    <3> QED BY <3>1, <3>2 DEF diskVars
  <2>2. Length' = Length /\ Acked' = Acked
    <3>1. UNCHANGED <<last_id, written>>
      BY <2>1 DEF memVars, taskVars
    <3>2. continue_queue' = continue_queue
      <4>1. get_latest_file' = get_latest_file
        BY <2>1 DEF get_latest_file, Files
      <4>2. ASSUME NEW f PROVE WalEnd(f)' = WalEnd(f) /\ StoreEnd(f)' = StoreEnd(f)
        BY <2>1 DEF WalEnd, StoreEnd, Valid, LastOf, LastId
      <4>3. ASSUME NEW f PROVE get_file_end(f)' = get_file_end(f)
        BY <4>2 DEF get_file_end, MaxOpt
      <4> QED BY <4>1, <4>3 DEF continue_queue
    <3> QED BY <2>1, <3>1, <3>2 DEF Length, Acked, LastId
  <2>3. (IF up' THEN UpView' ELSE DownView')
    <3>1. ASSUME UpView PROVE UpView'
      BY <2>1, <3>1, UpSame DEF UpView, memVars, taskVars, storeVars
    <3>2. ASSUME DownView PROVE DownView'
      <4>1. PICK t \in DOMAIN wal : LeftAt(t)
        BY <3>2 DEF DownView
      <4>2. FilesOK(t)' /\ LogOK(t)' /\ End(t)' = End(t)
        BY <2>1, <4>1, FilesSame DEF LeftAt
      <4>3. LeftAt(t)' /\ t \in DOMAIN wal'
        BY <2>1, <4>1, <4>2 DEF LeftAt, memVars
      <4> QED BY <2>1, <3>2, <4>3 DEF DownView, taskVars
    <3> QED BY <1>1, <1>2, <2>1, <3>1, <3>2
  <2> QED BY <2>1, <2>2, <2>3 DEF Abstract
<1> QED BY <1>3, <1>4, <1>5, <1>6, <1>7 DEF Next

-----------------------------------------------------------------------------
(* What the steps mean to the memory queue and to the writer                *)

\* The id recovery finds.
LEMMA DownContinues ==
  ASSUME DownView
  PROVE  continue_queue.last \in Nat \cup {None}
<1>1. PICK t \in DOMAIN wal : LeftAt(t)
  BY DEF DownView
<1>2. continue_queue.last = End(t) - 1 /\ End(t) \in Nat
  BY <1>1, ContinueFacts DEF LeftAt
<1> QED BY SMT, <1>2 DEF None

\* A worker deletes no file the writer works on.
LEMMA FinishKeeps ==
  ASSUME UpView, WriterView, NEW w \in Workers, Finish(w)
  PROVE  /\ UNCHANGED taskVars
         /\ \/ wal' = wal
            \/ /\ file_id \in DOMAIN wal /\ file_id \in DOMAIN wal' /\ wal'[file_id] = wal[file_id]
               /\ DOMAIN wal' \subseteq DOMAIN wal /\ wal' = [f \in DOMAIN wal' |-> wal[f]]
<1>1. FilesOK(file_id)' /\ wal'[file_id] = wal[file_id] /\ DOMAIN wal' \subseteq DOMAIN wal
  BY FinishStep DEF UpView
<1>2. file_id' = file_id /\ UNCHANGED taskVars
  BY DEF Finish, taskVars
<1>3. file_id \in DOMAIN wal /\ file_id \in DOMAIN wal'
  BY <1>1, <1>2 DEF FilesOK, WriterView
<1>4. wal' = wal \/ \E x : wal' = Without(wal, x)
  BY DEF Finish
<1>5. ASSUME NEW x, wal' = Without(wal, x) PROVE wal' = [f \in DOMAIN wal' |-> wal[f]]
  BY <1>5 DEF Without, Restrict1
<1> QED BY SMT, <1>1, <1>2, <1>3, <1>4, <1>5

\* The writer that recovery starts.
LEMMA OpenStarts ==
  ASSUME DownView, OpenForWrite
  PROVE  \E f \in Nat, last \in Nat \cup {None} :
           /\ FreshWriter(f, last) /\ FilesOK(f)' /\ wal'[f] = NewFile(last + 1)
           /\ wal' = [g \in DOMAIN wal' |-> wal'[g]] /\ io_errors' = io_errors
<1>1. PICK t \in DOMAIN wal : LeftAt(t)
  BY DEF DownView
<1>2. PICK f, last : f = continue_queue.file /\ last = continue_queue.last
  OBVIOUS
<1>3. FreshWriter(f, last) /\ wal' = With(wal, f, NewFile(increment(last)))
  BY <1>2 DEF OpenForWrite
<1>4. file_id' = f
  BY <1>3 DEF FreshWriter
<1>5. UpView' /\ file_id' \in Nat /\ io_errors' = io_errors
  BY <1>1, WriteStep
<1>6. FilesOK(f)'
  BY <1>4, <1>5 DEF UpView
<1>7. last \in Nat \cup {None}
  BY <1>2, DownContinues
<1>8. wal' = [g \in DOMAIN wal' |-> wal'[g]] /\ wal'[f] = NewFile(last + 1)
  BY <1>3 DEF With, increment
<1> QED BY SMT, <1>3, <1>4, <1>5, <1>6, <1>7, <1>8

-----------------------------------------------------------------------------
(* What a reader sees                                                       *)

WalSeen   == [f \in DOMAIN wal \ headless |-> AsRead(wal[f].before, wal[f].ids)]
StoreSeen == [f \in DOMAIN store |-> AsRead(store[f].before, store[f].content)]

\* A file without a cut entry is read as it is.
Plain(b, ids) == [before |-> b, ids |-> ids, torn |-> None]

LEMMA WholeRead ==
  ASSUME NEW b \in Nat, NEW ids \in Bytes, Whole(b, ids)
  PROVE  AsRead(b, ids) = Plain(b, ids)
<1>1. Len(ids) \in Nat /\ DOMAIN ids = 1..Len(ids)
  BY SMT DEF Bytes
<1>2. Valid(ids) = ids
  BY <1>1, ValidRun DEF Run, Whole
<1>3. Torn \notin Range(ids)
  <2>1. \A i \in 1..Len(ids) : ids[i] # Torn
    BY SMT, <1>1 DEF Whole, Torn
  <2> QED BY <1>1, <2>1 DEF Range
<1> QED BY <1>2, <1>3 DEF AsRead, Plain

\* The file that is written to, and where it ends.
LEMMA ActiveSeen ==
  ASSUME UpView, WriterView
  PROVE  /\ Max(DOMAIN WalSeen) = file_id /\ file_id \in DOMAIN WalSeen
         /\ End(file_id) = before + Len(CurIds) /\ End(file_id) \in Nat
         /\ WalSeen[file_id] = Plain(before, CurIds)
<1>1. /\ file_id \in DOMAIN wal \ headless /\ file_id \in Nat
      /\ \A f \in DOMAIN wal \ headless : f \in 1..file_id
  BY DEF UpView, FilesOK, Files
<1>2. DOMAIN WalSeen = DOMAIN wal \ headless
  BY DEF WalSeen
<1>3. DOMAIN WalSeen \in SUBSET Int /\ \A f \in DOMAIN WalSeen : f <= file_id
  BY SMT, <1>1, <1>2
<1>4. Max(DOMAIN WalSeen) = file_id
  BY <1>1, <1>2, <1>3, MaxOfSet
<1>5. /\ End(file_id) = before + Len(CurIds) /\ CurIds \in Bytes /\ Len(CurIds) \in Nat
      /\ before \in Nat /\ Whole(before, CurIds) /\ wal[file_id].before = before
  BY CurEnds DEF UpView, WriterView
<1>6. WalSeen[file_id] = Plain(before, CurIds)
  BY <1>1, <1>5, WholeRead DEF WalSeen, CurIds
<1>7. End(file_id) \in Nat
  BY SMT, <1>5
<1> QED BY <1>1, <1>2, <1>4, <1>5, <1>6, <1>7

\* Files that nobody touches look the same.
LEMMA SeenSame ==
  ASSUME UNCHANGED <<wal, store, headless>>
  PROVE  WalSeen' = WalSeen /\ StoreSeen' = StoreSeen
<1>1. WalSeen' = WalSeen
  BY DEF WalSeen, AsRead, Valid
<1>2. StoreSeen' = StoreSeen
  BY DEF StoreSeen, AsRead, Valid
<1> QED BY <1>1, <1>2

\* Bytes behind bytes.
LEMMA BytesConcat ==
  ASSUME NEW s \in Bytes, NEW r \in Bytes
  PROVE  s \o r \in Bytes /\ Len(s \o r) = Len(s) + Len(r)
BY SMT DEF Bytes

\* The ids from a to b.
Span(a, b) == [i \in 1..b - a + 1 |-> a + i - 1]

\* A longer run of ids goes on where a shorter one ends.
LEMMA RunGoesOn ==
  ASSUME NEW b \in Nat, NEW s \in Bytes, NEW t \in Bytes, Whole(b, s), Whole(b, t), Len(s) <= Len(t)
  PROVE  t = s \o Span(b + Len(s), b + Len(t) - 1)
<1>1. PICK m \in Nat, n \in Nat : m = Len(s) /\ n = Len(t) /\ m <= n
  BY BytesLen
<1> DEFINE r == Span(b + m, b + n - 1)
<1>2. r = [i \in 1..n - m |-> b + m + i - 1]
  <2>1. b + n - 1 - (b + m) + 1 = n - m
    BY SMT
  <2> QED BY SMT, <2>1 DEF Span
<1> HIDE DEF r
<1>3. r \in Bytes /\ Len(r) = n - m /\ \A i \in 1..n - m : r[i] = b + m + i - 1
  <2>1. n - m \in Nat /\ \A i \in 1..n - m : b + m + i - 1 \in Nat
    BY SMT, <1>1
  <2> QED BY SMT, <1>2, <2>1 DEF Bytes
<1>4. s \o r \in Bytes /\ Len(s \o r) = n /\ \A i \in 1..n : (s \o r)[i] = b + i - 1
  <2>1. s \o r \in Bytes /\ Len(s \o r) = Len(s) + Len(r)
    BY <1>3, BytesConcat
  <2>5. Len(s \o r) = n
    BY SMT, <1>1, <1>3, <2>1
  <2>2. ASSUME NEW i \in 1..m PROVE (s \o r)[i] = b + i - 1
    BY SMT, <1>1, <1>3 DEF Bytes, Whole
  <2>3. ASSUME NEW i \in m + 1..n PROVE (s \o r)[i] = b + i - 1
    <3>1. (s \o r)[i] = r[i - m] /\ i - m \in 1..n - m
      BY SMT, <1>1, <1>3 DEF Bytes
    <3>2. b + m + (i - m) - 1 = b + i - 1
      BY SMT
    <3> QED BY <1>3, <3>1, <3>2
  <2>4. \A i \in 1..n : i \in 1..m \/ i \in m + 1..n
    BY SMT
  <2> QED BY <2>1, <2>2, <2>3, <2>4, <2>5
<1>5. t = s \o r
  BY <1>1, <1>4, BytesEqual DEF Whole
<1> QED BY <1>1, <1>5 DEF r

\* A file with more entries, and the files with more entries in one of them.
Extended(x, r)    == [x EXCEPT !.ids = @ \o r]
ExtendAt(F, a, r) == [F EXCEPT ![a].ids = @ \o r]
Replaced(F, a, x) == [f \in DOMAIN F |-> IF f = a THEN x ELSE F[f]]

LEMMA IdsReplaced ==
  ASSUME NEW b, NEW s, NEW r
  PROVE  Extended(Plain(b, s), r) = Plain(b, s \o r)
<1>1. ASSUME NEW x, NEW y, x = [before |-> b, ids |-> s, torn |-> None]
      PROVE  [x EXCEPT !.ids = y] = [before |-> b, ids |-> y, torn |-> None] /\ x.ids = s
  BY SMT, <1>1
<1> QED BY <1>1 DEF Extended, Plain

LEMMA EntryReplaced ==
  ASSUME NEW F, NEW a \in DOMAIN F, NEW r
  PROVE  ExtendAt(F, a, r) = Replaced(F, a, Extended(F[a], r))
BY DEF Extended, ExtendAt, Replaced

\* A block of entries has been written.
LEMMA FlushSeen ==
  ASSUME UpView, WriterView, UpView', WriterView',
         UNCHANGED <<file_id, before, headless, store, last_id>>, DOMAIN wal' = DOMAIN wal,
         \A f \in DOMAIN wal \ {file_id} : wal'[f] = wal[f], Len(CurIds) <= Len(CurIds')
  PROVE  \/ WalSeen' = WalSeen
         \/ \E id \in End(file_id)..last_id : WalSeen' = ExtendAt(WalSeen, file_id, Span(End(file_id), id))
<1>1. PICK s \in Bytes, t \in Bytes : s = CurIds /\ t = CurIds' /\ Whole(before, s) /\ Whole(before, t)
  BY DEF WriterView, CurIds, WalFile
<1>2. PICK e \in Nat, id \in Int : e = before + Len(s) /\ id = before + Len(t) - 1 /\ id <= last_id
  <2>1. Len(s) \in Nat /\ Len(t) \in Nat /\ before \in Nat
    BY BytesLen DEF WriterView
  <2>2. PICK h \in Nat, w \in Int, l \in Int :
          h = Len(Handed(file_id))' /\ w = last_written_id' /\ l = last_id
    <3>1. last_written_id' \in Int /\ last_id \in Int
      <4>1. last_written_id' \in Nat \cup {None} /\ last_id \in Nat \cup {None}
        BY DEF WriterView, UpView
      <4> QED BY SMT, <4>1 DEF None
    <3> QED BY <3>1, BytesLen DEF WriterView
  <2>3. Len(t) <= h /\ before + h <= w + 1 /\ w <= l
    BY <1>1, <2>2 DEF WriterView, UpView
  <2>4. before + Len(t) - 1 \in Int /\ before + Len(t) - 1 <= l /\ before + Len(s) \in Nat
    BY SMT, <2>1, <2>3
  <2> QED BY <2>2, <2>4
<1>3. End(file_id) = e /\ file_id \in DOMAIN WalSeen /\ WalSeen[file_id] = Plain(before, s)
  BY <1>1, <1>2, ActiveSeen
<1>4. t = s \o Span(e, id) /\ before \in Nat
  BY <1>1, <1>2, RunGoesOn DEF WriterView
<1> DEFINE new == Plain(before, t)
<1>5. WalSeen' = Replaced(WalSeen, file_id, new)
  <2>1. wal'[file_id].before = before /\ wal'[file_id].ids = t
    BY <1>1 DEF WriterView, CurIds
  <2>2. AsRead(before, t) = new
    BY <1>1, <1>4, WholeRead
  <2>3. WalSeen' = [f \in DOMAIN wal \ headless |-> AsRead(wal'[f].before, wal'[f].ids)]
    BY DEF WalSeen, AsRead, Valid
  <2> QED BY <2>1, <2>2, <2>3 DEF WalSeen, Replaced
<1>6. new = Extended(WalSeen[file_id], Span(e, id))
  BY <1>3, <1>4, IdsReplaced
<1> HIDE DEF new
<1>7. CASE id \in e..last_id
  <2>1. PICK F, a, r : F = WalSeen /\ a = file_id /\ r = Span(e, id) /\ a \in DOMAIN F
    BY <1>3
  <2>2. ExtendAt(F, a, r) = Replaced(F, a, Extended(F[a], r))
    BY <2>1, EntryReplaced
  <2> QED BY <1>3, <1>5, <1>6, <1>7, <2>1, <2>2
<1>8. CASE id \notin e..last_id
  <2>1. s = t
    <3>1. Len(s) = Len(t) /\ Len(s) \in Nat
      <4>1. PICK m \in Nat, n \in Nat, l \in Int : m = Len(s) /\ n = Len(t) /\ l = last_id
        <5>1. last_id \in Int
          <6>1. last_id \in Nat \cup {None}
            BY DEF WriterView, UpView
          <6> QED BY SMT, <6>1 DEF None
        <5> QED BY <5>1, BytesLen
      <4>2. m <= n /\ e = before + m /\ id = before + n - 1 /\ id <= l /\ id \notin e..l
        BY <1>1, <1>2, <1>8, <4>1
      <4>3. m = n
        <5>1. before \in Nat
          BY <1>4
        <5>2. before + m \in Int /\ before + n - 1 \in Int /\ before + n - 1 < before + m
          BY SMT, <4>2, <5>1
        <5>3. n - 1 < m
          BY SMT, <5>1, <5>2
        <5> QED BY SMT, <4>2, <5>3
      <4> QED BY <4>1, <4>3
    <3>2. s \in Bytes /\ t \in Bytes /\ \A i \in 1..Len(s) : s[i] = t[i]
      BY <1>1, <3>1 DEF Whole
    <3> QED BY <3>1, <3>2, BytesEqual
  <2>2. new = WalSeen[file_id] /\ WalSeen = [f \in DOMAIN WalSeen |-> WalSeen[f]]
    BY <1>3, <2>1 DEF new, WalSeen
  <2> QED BY <1>5, <2>2 DEF Replaced
<1> QED BY <1>7, <1>8

\* The next file has been opened.
LEMMA RotateSeen ==
  ASSUME UpView, WriterView, UNCHANGED store,
         wal' = With(wal, file_id + 1, NewFile(before + Len(CurIds))),
         headless' = headless \ (DOMAIN wal' \ DOMAIN wal)
  PROVE  WalSeen' = With(WalSeen, file_id + 1, Plain(End(file_id), <<>>))
<1>1. PICK e \in Nat, a \in Nat : e = before + Len(CurIds) /\ a = file_id + 1 /\ e = End(file_id)
  <2>1. before + Len(CurIds) \in Nat /\ End(file_id) = before + Len(CurIds)
    BY ActiveSeen
  <2>2. file_id \in Nat
    BY DEF WriterView
  <2>3. file_id + 1 \in Nat
    BY SMT, <2>2
  <2> QED BY <2>1, <2>3
<1>2. a \notin DOMAIN wal
  <2>1. \A f \in DOMAIN wal : f \in 1..file_id
    BY DEF UpView, FilesOK, Files
  <2>2. file_id \in Nat
    BY DEF WriterView
  <2>3. file_id + 1 \notin 1..file_id
    BY SMT, <2>2
  <2> QED BY <1>1, <2>1, <2>3
<1>3. wal'[a].before = e /\ wal'[a].ids = <<>> /\ DOMAIN wal' = DOMAIN wal \cup {a}
  <2>1. NewFile(e).before = e /\ NewFile(e).ids = <<>>
    BY DEF NewFile
  <2> QED BY <1>1, <2>1 DEF With
<1>4. \A f \in DOMAIN wal : wal'[f] = wal[f]
  BY <1>1, <1>2 DEF With
<1>5. headless' = headless \ {a}
  BY <1>2, <1>3
<1>6. AsRead(e, <<>>) = Plain(e, <<>>)
  <2>1. Whole(e, <<>>)
    <3>1. \A i : i \notin 1..0
      BY SMT
    <3> QED BY <3>1, BytesWhole DEF Whole
  <2> QED BY <2>1, BytesWhole, WholeRead
<1>7. WalSeen' = [f \in DOMAIN wal' \ headless' |-> AsRead(wal'[f].before, wal'[f].ids)]
  BY DEF WalSeen, AsRead, Valid
<1>8. DOMAIN WalSeen = DOMAIN wal \ headless /\ DOMAIN wal' \ headless' = DOMAIN WalSeen \cup {a}
  BY <1>2, <1>3, <1>5 DEF WalSeen
<1>9. \A f \in DOMAIN WalSeen : AsRead(wal'[f].before, wal'[f].ids) = WalSeen[f] /\ f # a
  BY <1>2, <1>4, <1>8 DEF WalSeen
<1>10. WalSeen' = [f \in DOMAIN WalSeen \cup {a} |-> IF f = a THEN Plain(e, <<>>) ELSE WalSeen[f]]
  BY <1>3, <1>6, <1>7, <1>8, <1>9
<1> QED BY <1>1, <1>10 DEF With

\* The files that workers have could be read, and can be.
Headed == \A w \in Workers : worker[w] # Idle => worker[w].file \notin headless

\* A worker publishes the copy of its file.
LEMMA PublishSeen ==
  ASSUME UpView, WriterView, Headed, NEW w \in Workers, Publish(w)
  PROVE  \/ StoreSeen' = StoreSeen
         \/ \E f \in DOMAIN WalSeen : f # file_id /\ StoreSeen' = With(StoreSeen, f, WalSeen[f])
<1>1. worker[w].at = "publish"
  BY DEF Publish
<1>2. PICK job, a : job = worker[w] /\ a = job.file
  OBVIOUS
<1>3. /\ job \in Job /\ a < file_id /\ Holds(a, job.before, job.content) /\ a \notin headless
  <2>1. JobOK(job) /\ job # Idle
    BY <1>1, <1>2, IdleFacts DEF UpView, StoreOK
  <2> QED BY <1>2, <2>1 DEF JobOK, Headed
<1>4. a # file_id
  <2>1. file_id \in Nat
    BY DEF WriterView
  <2>2. ~(file_id < file_id)
    BY SMT, <2>1
  <2> QED BY <1>3, <2>2
<1> DEFINE new == [before |-> job.before, content |-> job.content, num |-> Len(Valid(job.content))]
<1>5. store' = With(store, a, new)
  BY <1>2 DEF Publish
<1>6. new.before = job.before /\ new.content = job.content
  OBVIOUS
<1> HIDE DEF new
<1>7. /\ DOMAIN store' = DOMAIN store \cup {a} /\ store'[a] = new
      /\ \A f \in DOMAIN store : f # a => store'[f] = store[f]
  BY <1>5 DEF With
<1>8. StoreSeen' = [f \in DOMAIN store \cup {a} |-> AsRead(store'[f].before, store'[f].content)]
  BY <1>7 DEF StoreSeen, AsRead, Valid
<1>9. CASE a \in DOMAIN store
  <2>1. store[a].before = job.before /\ store[a].content = job.content
    BY <1>3, <1>9 DEF Holds
  <2>2. \A f \in DOMAIN store : AsRead(store'[f].before, store'[f].content) = StoreSeen[f]
    BY <1>6, <1>7, <2>1 DEF StoreSeen
  <2>3. DOMAIN store \cup {a} = DOMAIN store
    BY <1>9
  <2> QED BY <1>8, <2>2, <2>3 DEF StoreSeen
<1>10. CASE a \notin DOMAIN store
  <2>1. a \in DOMAIN wal /\ wal[a].before = job.before /\ wal[a].ids = job.content
    BY <1>3, <1>10 DEF Holds, Files
  <2>2. a \in DOMAIN WalSeen /\ WalSeen[a] = AsRead(job.before, job.content)
    BY <1>3, <2>1 DEF WalSeen
  <2>3. DOMAIN StoreSeen = DOMAIN store
    BY DEF StoreSeen
  <2>4. \A f \in DOMAIN StoreSeen : AsRead(store'[f].before, store'[f].content) = StoreSeen[f] /\ f # a
    BY <1>7, <1>10, <2>3 DEF StoreSeen
  <2>5. StoreSeen' = [f \in DOMAIN StoreSeen \cup {a} |-> IF f = a THEN WalSeen[a] ELSE StoreSeen[f]]
    BY <1>6, <1>7, <1>8, <2>2, <2>3, <2>4
  <2> QED BY <1>4, <2>2, <2>5 DEF With
<1> QED BY <1>9, <1>10

\* A worker is done with its file.
LEMMA FinishSeen ==
  ASSUME UpView, NEW w \in Workers, Finish(w)
  PROVE  \/ WalSeen' = WalSeen
         \/ \E f \in DOMAIN WalSeen : f \in DOMAIN StoreSeen /\ WalSeen' = Without(WalSeen, f)
<1>1. UNCHANGED <<store, headless>> /\ worker[w].at = "delete"
  BY DEF Finish, diskVars
<1>2. PICK job, a : job = worker[w] /\ a = job.file
  OBVIOUS
<1>3. a \in DOMAIN StoreSeen
  <2>1. JobOK(job) /\ job # Idle
    BY <1>1, <1>2, IdleFacts DEF UpView, StoreOK
  <2> QED BY <1>1, <1>2, <2>1 DEF JobOK, StoreSeen
<1>4. wal' = wal \/ wal' = Without(wal, a)
  BY <1>2 DEF Finish
<1>5. CASE wal' = wal
  BY <1>1, <1>5, SeenSame
<1>6. CASE wal' = Without(wal, a)
  <2>1. DOMAIN wal' = DOMAIN wal \ {a} /\ \A f \in DOMAIN wal' : wal'[f] = wal[f]
    BY <1>6 DEF Without, Restrict1
  <2>2. DOMAIN WalSeen = DOMAIN wal \ headless /\ DOMAIN wal' \ headless' = DOMAIN WalSeen \ {a}
    BY <1>1, <2>1 DEF WalSeen
  <2>3. WalSeen' = [f \in DOMAIN wal' \ headless' |-> AsRead(wal'[f].before, wal'[f].ids)]
    BY DEF WalSeen, AsRead, Valid
  <2>4. \A f \in DOMAIN wal' \ headless' : AsRead(wal'[f].before, wal'[f].ids) = WalSeen[f]
    BY <1>1, <2>1 DEF WalSeen
  <2>5. WalSeen' = [f \in DOMAIN WalSeen \ {a} |-> WalSeen[f]]
    BY <2>2, <2>3, <2>4
  <2>6. CASE a \in DOMAIN WalSeen
    BY <1>3, <2>5, <2>6 DEF Without, Restrict1
  <2>7. CASE a \notin DOMAIN WalSeen
    <3>1. DOMAIN WalSeen \ {a} = DOMAIN WalSeen
      BY <2>7
    <3> QED BY <2>5, <3>1 DEF WalSeen
  <2> QED BY <2>6, <2>7
<1> QED BY <1>4, <1>5, <1>6

\* A worker takes no file without a header, and files only get headers while
\* workers have them.
LEMMA HeadedStep ==
  ASSUME Headed, up => UpView, [Next]_vars
  PROVE  Headed'
<1>1. ASSUME worker' = worker, headless' \subseteq headless PROVE Headed'
  BY <1>1 DEF Headed
<1>2. ASSUME worker' = [w \in Workers |-> Idle] PROVE Headed'
  BY <1>2 DEF Headed
<1>3. CASE Enqueue \/ AckTask \/ process_old_files \/ CloseStore \/ CloseWal \/ OpenForRead \/ EndReadOnly
           \/ UNCHANGED vars
  <2>1. worker' = worker /\ headless' = headless
    BY <1>3 DEF Enqueue, AckTask, process_old_files, CloseStore, CloseWal, OpenForRead, EndReadOnly, vars,
       diskVars, storeVars
  <2> QED BY <1>1, <2>1
<1>4. CASE WalStep
  <2>1. worker' = worker /\ headless' \subseteq headless
    BY <1>4 DEF WalStep, storeVars
  <2> QED BY <1>1, <2>1
<1>5. CASE Exit \/ Crash \/ OpenForWrite
  <2>1. worker' = [w \in Workers |-> Idle]
    BY <1>5 DEF Exit, Crash, Down, OpenForWrite, FreshWriter
  <2> QED BY <1>2, <2>1
<1>6. ASSUME NEW w \in Workers, WorkerStep(w) PROVE Headed'
  <2>1. DOMAIN worker = Workers /\ headless' = headless
    <3>1. worker = [v \in Workers |-> worker[v]]
      BY <1>6 DEF WorkerStep, ReceiveFile, Publish, Finish, UpView, StoreOK
    <3>2. headless' = headless
      BY <1>6 DEF WorkerStep, ReceiveFile, Publish, Finish, diskVars
    <3> QED BY <3>1, <3>2
  <2>2. ASSUME NEW x, worker' = [worker EXCEPT ![w] = x], x # Idle => x.file \notin headless
        PROVE  Headed'
    BY <2>1, <2>2 DEF Headed
  <2>3. CASE ReceiveFile(w)
    <3>1. PICK f : ReadWal(w, f)
      BY <2>3 DEF ReceiveFile
    <3>2. CASE f \in DOMAIN wal \ headless
      <4> DEFINE x == [at |-> "publish", file |-> f, before |-> wal[f].before, content |-> wal[f].ids]
      <4>1. worker' = [worker EXCEPT ![w] = x]
        BY <3>1, <3>2 DEF ReadWal
      <4>2. x.file = f
        OBVIOUS
      <4> HIDE DEF x
      <4> QED BY <2>2, <3>2, <4>1, <4>2
    <3>3. CASE f \notin DOMAIN wal \ headless
      BY <2>2, <3>1, <3>3 DEF ReadWal
    <3> QED BY <3>2, <3>3
  <2>4. CASE Publish(w)
    <3> DEFINE x == [worker[w] EXCEPT !.at = "delete"]
    <3>1. worker[w].at = "publish" /\ worker' = [worker EXCEPT ![w] = x]
      BY <2>4 DEF Publish
    <3>2. worker[w] # Idle
      BY <3>1, IdleFacts
    <3>3. x.file = worker[w].file
      <4>1. worker[w] \in Job
        BY <2>4, <3>1, IdleFacts DEF Publish, UpView, StoreOK
      <4> QED BY <4>1 DEF Job
    <3> HIDE DEF x
    <3> QED BY <2>2, <3>1, <3>2, <3>3 DEF Headed
  <2>5. CASE Finish(w)
    BY <2>2, <2>5 DEF Finish
  <2> QED BY <1>6, <2>3, <2>4, <2>5 DEF WorkerStep
<1> QED BY <1>3, <1>4, <1>5, <1>6 DEF Next

\* What may happen to the files that a reader sees: entries are added to the last
\* one, a new one is opened, one is copied to the store, one that the store has is
\* deleted.
FilesServed ==
  \/ UNCHANGED <<WalSeen, StoreSeen>>
  \/ /\ \E id \in End(file_id)..last_id : WalSeen' = ExtendAt(WalSeen, file_id, Span(End(file_id), id))
     /\ UNCHANGED StoreSeen
  \/ WalSeen' = With(WalSeen, file_id + 1, Plain(End(file_id), <<>>)) /\ UNCHANGED StoreSeen
  \/ /\ \E f \in DOMAIN WalSeen : f # file_id /\ StoreSeen' = With(StoreSeen, f, WalSeen[f])
     /\ UNCHANGED WalSeen
  \/ /\ \E f \in DOMAIN WalSeen : f \in DOMAIN StoreSeen /\ WalSeen' = Without(WalSeen, f)
     /\ UNCHANGED StoreSeen

\* Nothing else happens while the process writes.
LEMMA FilesServe ==
  ASSUME UpView, WriterView, UpView', WriterView', Headed,
         \/ WalStep /\ WriterMoves
         \/ \E w \in Workers : Publish(w) \/ Finish(w)
  PROVE  FilesServed /\ UNCHANGED <<last_id, first_id>>
<1>1. UNCHANGED <<last_id, first_id>>
  BY DEF WalStep, Publish, Finish, memVars
<1>2. CASE WalStep /\ WriterMoves
  <2>1. UNCHANGED store /\ headless' = headless \ (DOMAIN wal' \ DOMAIN wal)
    BY <1>2 DEF WalStep
  <2>2. ASSUME DOMAIN wal' = DOMAIN wal PROVE headless' = headless
    BY <2>1, <2>2
  <2>3. StoreSeen' = StoreSeen
    BY <2>1 DEF StoreSeen, AsRead, Valid
  <2>4. CASE UNCHANGED <<wal, file_id, before>>
    <3>1. UNCHANGED <<wal, store, headless>>
      BY <2>1, <2>2, <2>4
    <3>2. WalSeen' = WalSeen /\ StoreSeen' = StoreSeen
      BY <3>1, SeenSame
    <3> QED BY <1>1, <3>2 DEF FilesServed
  <2>5. CASE wal' = With(wal, file_id + 1, NewFile(before + Len(CurIds)))
    <3>1. WalSeen' = With(WalSeen, file_id + 1, Plain(End(file_id), <<>>))
      BY <2>1, <2>5, RotateSeen
    <3> QED BY <1>1, <2>3, <3>1 DEF FilesServed
  <2>6. CASE /\ UNCHANGED <<file_id, before>> /\ DOMAIN wal' = DOMAIN wal
             /\ \A f \in DOMAIN wal \ {file_id} : wal'[f] = wal[f]
             /\ Len(CurIds) <= Len(CurIds')
    BY <1>1, <2>1, <2>2, <2>3, <2>6, FlushSeen DEF FilesServed
  <2> QED BY <1>2, <2>4, <2>5, <2>6 DEF WriterMoves
<1>3. ASSUME NEW w \in Workers, Publish(w) PROVE FilesServed
  <2>1. WalSeen' = WalSeen
    <3>1. UNCHANGED <<wal, headless>>
      BY <1>3 DEF Publish, walVars
    <3> QED BY <3>1 DEF WalSeen, AsRead, Valid
  <2> QED BY <1>3, <2>1, PublishSeen DEF FilesServed
<1>4. ASSUME NEW w \in Workers, Finish(w) PROVE FilesServed
  <2>1. StoreSeen' = StoreSeen
    <3>1. UNCHANGED store
      BY <1>4 DEF Finish, diskVars
    <3> QED BY <3>1 DEF StoreSeen, AsRead, Valid
  <2> QED BY <1>4, <2>1, FinishSeen DEF FilesServed
<1> QED BY <1>1, <1>2, <1>3, <1>4
=============================================================================
