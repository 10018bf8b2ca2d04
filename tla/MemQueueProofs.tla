--------------------------- MODULE MemQueueProofs ---------------------------
(***************************************************************************)
(* What holds of the memory queue for every memory limit, every set of     *)
(* entry lengths and every bound.  WindowExact alone is not enough for     *)
(* UnackedReadable: the inductive invariant adds that what lies before the *)
(* window is recovered or acknowledged.                                    *)
(***************************************************************************)
EXTENDS MemQueue, SequenceTheorems, FiniteSetTheorems, WellFoundedInduction,
        TLAPS

\* The ids in "es" are consecutive and end at "last".
Consecutive(es, last) == \A i \in 1..Len(es) : es[i].id = last - Len(es) + i

FirstOf(es) == IF es = <<>> THEN None ELSE es[1].id

\* Everything older than the window is recovered or acknowledged.
OlderIsAcked == last_id - Len(entries) <= MaxOpt(recovered, last_acked_id)

MemInv == MemTypeOK /\ WindowExact /\ OlderIsAcked

\* Neither end of the window moves backwards, nor does the acknowledged id.
Moved ==
  /\ last_id' >= last_id
  /\ last_acked_id' >= last_acked_id
  /\ last_id' - Len(entries') >= last_id - Len(entries)

\* The id of a window's first entry is an id, or None for an empty window.
LEMMA FirstOfType ==
  ASSUME NEW es \in Seq(Entry)
  PROVE  FirstOf(es) \in Nat \cup {None}
<1>1. CASE es = <<>>
  BY <1>1 DEF FirstOf
<1>2. CASE es # <<>>
  <2>1. Len(es) \in Nat \ {0}
    BY <1>2, EmptySeq
  <2>2. 1 \in 1..Len(es)
    BY <2>1
  <2>3. es[1] \in Entry
    BY <2>2, ElementOfSeq
  <2> QED BY <1>2, <2>3 DEF FirstOf, Entry
<1> QED BY <1>1, <1>2

\* The number of entries cleanup_unlocked drains is well defined on a window of
\* consecutive ids, and all the entries it drains are acknowledged.
LEMMA ToRemoveFacts ==
  ASSUME NEW es \in Seq(Entry), NEW last \in Int, NEW acked \in Int,
         Consecutive(es, last)
  PROVE  /\ ToRemove(es, acked) \in 0..Len(es)
         /\ \A i \in 1..ToRemove(es, acked) : es[i].id <= acked
         /\ ToRemove(es, acked) < Len(es) => es[ToRemove(es, acked) + 1].id > acked
<1> DEFINE P(n) == /\ \A i \in 1..n : es[i].id <= acked
                   /\ n < Len(es) => es[n + 1].id > acked
           first == last - Len(es) + 1
           w == IF acked < first THEN 0
                ELSE IF acked > last THEN Len(es) ELSE acked - first + 1
<1>1. Len(es) \in Nat
  OBVIOUS
<1>2. w \in 0..Len(es)
  BY <1>1
<1>3. \A i \in 1..Len(es) : es[i].id = first + i - 1
  BY <1>1 DEF Consecutive
<1>4. /\ w > 0 => first + w - 1 <= acked
      /\ w < Len(es) => first + w > acked
      /\ first \in Int
  <2>0. first \in Int /\ last = first + Len(es) - 1
    BY <1>1
  <2>1. CASE acked < first
    <3>1. w = 0
      BY <2>1
    <3> HIDE DEF w, first
    <3> QED BY <1>1, <2>0, <2>1, <3>1
  <2>2. CASE acked >= first /\ acked > last
    <3>1. w = Len(es)
      BY <1>1, <2>0, <2>2
    <3> HIDE DEF w, first
    <3> QED BY <1>1, <2>0, <2>2, <3>1
  <2>3. CASE acked >= first /\ acked <= last
    <3>1. w = acked - first + 1
      BY <1>1, <2>0, <2>3
    <3> HIDE DEF w, first
    <3> QED BY <1>1, <2>0, <2>3, <3>1
  <2> HIDE DEF w, first
  <2> QED BY <2>0, <2>1, <2>2, <2>3
<1> HIDE DEF w, first
<1>5. P(w)
  <2>1. ASSUME NEW i \in 1..w PROVE es[i].id <= acked
    <3>1. i \in 1..Len(es) /\ i <= w /\ w > 0
      BY <1>1, <1>2
    <3>2. es[i].id = first + i - 1
      BY <1>3, <3>1
    <3> QED BY <1>2, <1>4, <3>1, <3>2
  <2>2. ASSUME w < Len(es) PROVE es[w + 1].id > acked
    <3>1. w + 1 \in 1..Len(es)
      BY <1>1, <1>2, <2>2
    <3>2. es[w + 1].id = first + (w + 1) - 1
      BY <1>3, <3>1
    <3> QED BY <1>2, <1>4, <2>2, <3>2
  <2> QED BY <2>1, <2>2
<1>6. ToRemove(es, acked) \in 0..Len(es) /\ P(ToRemove(es, acked))
  <2> DEFINE t == CHOOSE n \in 0..Len(es) : P(n)
  <2>1. \E n \in 0..Len(es) : P(n)
    BY <1>2, <1>5
  <2> HIDE DEF P
  <2>2. t \in 0..Len(es) /\ P(t)
    BY <2>1
  <2>3. t = ToRemove(es, acked)
    BY DEF P, ToRemove
  <2> QED BY <2>2, <2>3
<1> QED BY <1>6

\* cleanup_unlocked keeps the window consecutive and first_id in step with it,
\* and what it drops is acknowledged.
LEMMA CleanupFacts ==
  ASSUME NEW es \in Seq(Entry), NEW last \in Int, NEW acked \in Int, NEW usage,
         Consecutive(es, last),
         cleanup_unlocked(es, FirstOf(es), acked, usage)
  PROVE  /\ entries' \in Seq(Entry)
         /\ Consecutive(entries', last)
         /\ first_id' = FirstOf(entries')
         /\ Len(entries') <= Len(es)
         /\ Len(entries') = Len(es) \/ last - Len(entries') <= acked
<1> DEFINE n == ToRemove(es, acked)
           rest == SubSeq(es, n + 1, Len(es))
<1>1. n \in 0..Len(es) /\ \A i \in 1..n : es[i].id <= acked
  BY ToRemoveFacts
<1> HIDE DEF n
<1>2. Len(es) \in Nat
  OBVIOUS
<1>3. CASE entries' = es /\ first_id' = FirstOf(es)
  BY <1>2, <1>3
<1>4. CASE /\ entries' = rest
           /\ first_id' = (IF rest = <<>> THEN None ELSE rest[1].id)
           /\ n # 0
  <2>1. /\ rest \in Seq(Entry)
        /\ Len(rest) = Len(es) - n
        /\ \A i \in 1..Len(es) - n : rest[i] = es[n + i]
    BY <1>1, <1>2
  <2>2. \A i \in 1..Len(rest) : rest[i].id = last - Len(rest) + i
    <3> SUFFICES ASSUME NEW i \in 1..Len(rest)
                 PROVE  rest[i].id = last - Len(rest) + i
      OBVIOUS
    <3> HIDE DEF rest
    <3>1. n + i \in 1..Len(es) /\ rest[i] = es[n + i]
      BY <1>1, <1>2, <2>1
    <3>2. es[n + i].id = last - Len(es) + (n + i)
      BY <3>1 DEF Consecutive
    <3> QED BY SMTT(20), <1>1, <1>2, <2>1, <3>1, <3>2
  <2>3. es[n].id = last - Len(es) + n /\ es[n].id <= acked
    BY <1>1, <1>2, <1>4 DEF Consecutive
  <2> HIDE DEF rest
  <2> QED BY <1>1, <1>2, <1>4, <2>1, <2>2, <2>3 DEF Consecutive, FirstOf
<1> QED BY <1>3, <1>4 DEF cleanup_unlocked, FirstOf, n

\* Appending the new entries of a batch extends the window consecutively.
LEMMA PushFacts ==
  ASSUME MemInv, NEW lens \in Seq(DataLens), lens # <<>>, Push(lens)
  PROVE  LET es == entries \o NewEntries(lens)
         IN  /\ NewEntries(lens) \in Seq(Entry) /\ es \in Seq(Entry)
             /\ Len(es) = Len(entries) + Len(lens) /\ Len(lens) \in Nat \ {0}
             /\ last_id + Len(lens) \in Int
             /\ Consecutive(es, last_id + Len(lens))
             /\ last_id' = last_id + Len(lens)
             /\ last_acked_id' = last_acked_id
             /\ recovered' = recovered
             /\ cleanup_unlocked(es, FirstOf(es), last_acked_id,
                                 memory_usage + DataLen(NewEntries(lens)))
<1> DEFINE new == NewEntries(lens)
           es == entries \o new
           first == IF first_id = None THEN increment(last_id) ELSE first_id
<1> USE MemAssumption
<1>1. /\ Len(lens) \in Nat \ {0}
      /\ Len(entries) \in Nat
      /\ last_id \in Int /\ last_acked_id \in Int /\ recovered \in Int
      /\ last_id >= -1 /\ recovered >= -1
      /\ entries \in Seq(Entry)
  BY EmptySeq DEF MemInv, MemTypeOK, None
<1>2. /\ new \in Seq(Entry)
      /\ Len(new) = Len(lens)
      /\ \A i \in 1..Len(lens) : new[i].id = last_id + i
  BY <1>1 DEF NewEntries, Entry
<1> HIDE DEF new
<1>3. /\ es \in Seq(Entry)
      /\ Len(es) = Len(entries) + Len(lens)
      /\ \A i \in 1..Len(entries) : es[i] = entries[i]
      /\ \A i \in Len(entries) + 1..Len(es) : es[i] = new[i - Len(entries)]
  <2>1. /\ entries \o new \in Seq(Entry)
        /\ Len(entries \o new) = Len(entries) + Len(new)
        /\ \A i \in 1..Len(entries) + Len(new) : (entries \o new)[i] =
             IF i <= Len(entries) THEN entries[i] ELSE new[i - Len(entries)]
    BY <1>1, <1>2, ConcatProperties
  <2> QED BY <1>1, <1>2, <2>1
<1> HIDE DEF es
<1>4. Consecutive(es, last_id + Len(lens))
  <2>1. ASSUME NEW i \in 1..Len(es)
        PROVE  es[i].id = (last_id + Len(lens)) - Len(es) + i
    <3>1. CASE i <= Len(entries)
      BY <1>1, <1>3, <3>1 DEF MemInv, WindowExact
    <3>2. CASE i > Len(entries)
      <4>1. i - Len(entries) \in 1..Len(lens) /\ es[i] = new[i - Len(entries)]
        BY <1>1, <1>3, <3>2
      <4>2. es[i].id = last_id + (i - Len(entries))
        BY <1>2, <4>1
      <4> QED BY <1>1, <1>3, <4>2
    <3> QED BY <1>1, <1>3, <3>1, <3>2
  <2> QED BY <2>1, Zenon DEF Consecutive
<1>5. first = FirstOf(es)
  <2>1. es # <<>>
    BY <1>1, <1>3
  <2>2. CASE entries = <<>>
    BY <1>1, <1>2, <1>3, <2>1, <2>2 DEF MemInv, WindowExact, FirstOf, increment
  <2>3. CASE entries # <<>>
    <3>1. Len(entries) > 0 /\ es[1] = entries[1] /\ first_id = entries[1].id
      BY <1>1, <1>3, <2>3 DEF MemInv, WindowExact
    <3>2. entries[1].id \in Nat
      <4>1. entries[1] \in Entry
        BY <1>1, <3>1, ElementOfSeq
      <4> QED BY <4>1 DEF Entry
    <3> QED BY <2>1, <3>1, <3>2 DEF FirstOf, None
  <2> QED BY <2>2, <2>3
<1> HIDE DEF first
<1>6. /\ last_id' = last_id + Len(lens)
      /\ last_acked_id' = last_acked_id
      /\ recovered' = recovered
      /\ cleanup_unlocked(es, FirstOf(es), last_acked_id, memory_usage + DataLen(new))
  BY <1>5 DEF Push, first, es, new
<1> QED BY <1>1, <1>2, <1>3, <1>4, <1>6 DEF es, new

\* Pushing a batch keeps the invariant.
LEMMA PushInv ==
  ASSUME MemInv, NEW lens \in Seq(DataLens), lens # <<>>, Push(lens)
  PROVE  MemInv' /\ Moved
<1> DEFINE es == entries \o NewEntries(lens)
<1> USE MemAssumption
<1>1. /\ Len(entries) \in Nat
      /\ last_id \in Int /\ last_acked_id \in Int /\ recovered \in Int
      /\ last_id >= -1 /\ recovered >= -1
  BY DEF MemInv, MemTypeOK, None
<1>2. /\ es \in Seq(Entry) /\ Len(es) = Len(entries) + Len(lens) /\ Len(lens) \in Nat \ {0}
      /\ Consecutive(es, last_id')
      /\ last_id' = last_id + Len(lens) /\ last_acked_id' = last_acked_id
      /\ recovered' = recovered
      /\ cleanup_unlocked(es, FirstOf(es), last_acked_id,
                          memory_usage + DataLen(NewEntries(lens)))
  BY PushFacts
<1> HIDE DEF es
<1>3. /\ entries' \in Seq(Entry)
      /\ Consecutive(entries', last_id')
      /\ first_id' = FirstOf(entries')
      /\ Len(entries') <= Len(es)
      /\ Len(entries') = Len(es) \/ last_id' - Len(entries') <= last_acked_id
  BY <1>1, <1>2, CleanupFacts
<1>4. MemTypeOK'
  <2>1. first_id' \in Nat \cup {None}
    BY <1>3, FirstOfType
  <2> QED BY <1>1, <1>2, <1>3, <2>1 DEF MemInv, MemTypeOK, None
<1>5. WindowExact'
  BY <1>1, <1>2, <1>3 DEF MemInv, WindowExact, Consecutive, FirstOf
<1>6. OlderIsAcked'
  BY <1>1, <1>2, <1>3 DEF MemInv, OlderIsAcked, MaxOpt
<1>7. Moved
  BY <1>1, <1>2, <1>3 DEF Moved
<1> QED BY <1>4, <1>5, <1>6, <1>7 DEF MemInv

\* An acknowledgement, in whatever order it arrives, keeps the invariant.
LEMMA AckInv ==
  ASSUME MemInv, NEW id \in Nat, ack(id)
  PROVE  MemInv' /\ Moved
<1> USE MemAssumption
<1>1. /\ Len(entries) \in Nat
      /\ last_id \in Int /\ last_acked_id \in Int /\ recovered \in Int
      /\ entries \in Seq(Entry)
  BY DEF MemInv, MemTypeOK, None
<1>2. /\ last_acked_id' \in Nat \cup {None}
      /\ last_acked_id' >= last_acked_id
      /\ last_acked_id' \in Int
  BY <1>1 DEF ack, MaxOpt, MemInv, MemTypeOK
<1>3. /\ last_id' = last_id
      /\ recovered' = recovered
      /\ cleanup_unlocked(entries, FirstOf(entries), last_acked_id', memory_usage)
  BY DEF ack, MemInv, WindowExact, FirstOf
<1>4. Consecutive(entries, last_id)
  BY DEF MemInv, WindowExact, Consecutive
<1>5. /\ entries' \in Seq(Entry)
      /\ Consecutive(entries', last_id)
      /\ first_id' = FirstOf(entries')
      /\ Len(entries') <= Len(entries)
      /\ Len(entries') = Len(entries) \/ last_id - Len(entries') <= last_acked_id'
  BY <1>1, <1>2, <1>3, <1>4, CleanupFacts
<1>6. MemTypeOK'
  <2>1. first_id' \in Nat \cup {None}
    BY <1>5, FirstOfType
  <2> QED BY <1>2, <1>3, <1>5, <2>1 DEF MemInv, MemTypeOK
<1>7. WindowExact'
  BY <1>1, <1>3, <1>5 DEF MemInv, WindowExact, Consecutive, FirstOf
<1>8. OlderIsAcked'
  BY <1>1, <1>2, <1>3, <1>5 DEF MemInv, OlderIsAcked, MaxOpt
<1>9. Moved
  BY <1>1, <1>2, <1>3, <1>5 DEF Moved
<1> QED BY <1>6, <1>7, <1>8, <1>9 DEF MemInv

\* The invariant is inductive, and every step advances.
LEMMA MemInvInductive ==
  ASSUME MemInv, [MemNext]_memVars
  PROVE  MemInv' /\ Moved
<1> USE MemAssumption
<1>1. last_id \in Int /\ recovered \in Int /\ recovered >= -1
  BY DEF MemInv, MemTypeOK, None
<1>2. ASSUME NEW len \in DataLens, enqueue(len) PROVE MemInv' /\ Moved
  <2>1. <<len>> \in Seq(DataLens) /\ <<len>> # <<>>
    OBVIOUS
  <2> QED BY <1>2, <2>1, PushInv DEF enqueue
<1>3. ASSUME NEW n \in 1..MaxBatch, NEW lens \in [1..n -> DataLens], enqueue_batch(lens)
      PROVE  MemInv' /\ Moved
  <2>1. lens \in Seq(DataLens)
    BY SeqDef
  <2> QED BY <1>3, <2>1, PushInv DEF enqueue_batch
<1>4. ASSUME NEW id \in recovered + 1..last_id, ack(id) PROVE MemInv' /\ Moved
  <2>1. id \in Nat
    BY <1>1
  <2> QED BY <1>4, <2>1, AckInv
<1>5. CASE UNCHANGED memVars
  <2>1. MemInv'
    BY <1>5 DEF memVars, MemInv, MemTypeOK, WindowExact, OlderIsAcked
  <2>2. Len(entries) \in Nat /\ last_id \in Int /\ last_acked_id \in Int
    BY DEF MemInv, MemTypeOK, None
  <2> QED BY <1>5, <2>1, <2>2 DEF memVars, Moved
<1> QED BY <1>2, <1>3, <1>4, <1>5 DEF MemNext

\* The memory queue keeps its window consecutive, ending at last_id, and drops
\* only what is recovered or acknowledged.
THEOREM MemInvariant == MemSpec => []MemInv
<1>1. MemInit => MemInv
  <2> SUFFICES ASSUME MemInit PROVE MemInv
    OBVIOUS
  <2> USE MemAssumption
  <2>1. entries \in Seq(Entry) /\ Len(entries) = 0
    BY EmptySeq DEF MemInit
  <2>2. MemTypeOK
    BY <2>1 DEF MemInit, MemTypeOK
  <2>3. recovered \in Int
    BY <2>2 DEF MemTypeOK, None
  <2> QED BY <2>1, <2>2, <2>3 DEF MemInit, MemInv, WindowExact, OlderIsAcked, MaxOpt, None
<1>2. MemInv /\ [MemNext]_memVars => MemInv'
  BY MemInvInductive
<1> QED BY <1>1, <1>2, PTL DEF MemSpec

\* The window that the readers of MemQueue rely on is exact in every state.
THEOREM WindowIsExact == MemSpec => [](MemTypeOK /\ WindowExact)
<1>1. MemInv => MemTypeOK /\ WindowExact
  BY DEF MemInv
<1> QED BY <1>1, MemInvariant, PTL

\* A window of consecutive ids holds the last Len(es) ids.
LEMMA ConsecutiveIds ==
  ASSUME NEW es \in Seq(Entry), NEW last \in Int, Consecutive(es, last)
  PROVE  IdsOf(es) = last - Len(es) + 1..last
<1>1. Len(es) \in Nat
  OBVIOUS
<1>2. \A i \in 1..Len(es) : es[i].id = last - Len(es) + i
  BY Zenon DEF Consecutive
<1>3. ASSUME NEW id \in IdsOf(es) PROVE id \in last - Len(es) + 1..last
  BY <1>1, <1>2 DEF IdsOf
<1>4. ASSUME NEW id \in last - Len(es) + 1..last PROVE id \in IdsOf(es)
  <2> DEFINE i == id - (last - Len(es))
  <2>1. i \in 1..Len(es) /\ last - Len(es) + i = id
    BY <1>1
  <2> HIDE DEF i
  <2>2. es[i].id = id
    BY <1>2, <2>1
  <2> QED BY <2>1, <2>2 DEF IdsOf
<1> QED BY <1>3, <1>4

\* The ids in the window are the last Len(entries) ids assigned.
LEMMA WindowIds ==
  ASSUME MemInv
  PROVE  IdsOf(entries) = last_id - Len(entries) + 1..last_id
<1>1. entries \in Seq(Entry) /\ last_id \in Int /\ Consecutive(entries, last_id)
  BY DEF MemInv, MemTypeOK, WindowExact, Consecutive, None
<1> QED BY <1>1, ConsecutiveIds

\* Where the window begins.
Lo == last_id - Len(entries) + 1

\* The window begins behind what is recovered or acknowledged, and first_id says
\* where.
LEMMA WindowStart ==
  MemInv =>
    /\ last_id \in Int /\ Lo \in Int /\ recovered \in Int /\ last_acked_id \in Int
    /\ Lo - 1 <= MaxOpt(recovered, last_acked_id)
    /\ first_id = (IF Lo > last_id THEN None ELSE Lo)
    /\ Lo = IF first_id = None THEN last_id + 1 ELSE first_id
<1> SUFFICES ASSUME MemInv
             PROVE  /\ last_id \in Int /\ Lo \in Int /\ recovered \in Int /\ last_acked_id \in Int
                    /\ Lo - 1 <= MaxOpt(recovered, last_acked_id)
                    /\ first_id = (IF Lo > last_id THEN None ELSE Lo)
                    /\ Lo = IF first_id = None THEN last_id + 1 ELSE first_id
  OBVIOUS
<1>1. /\ entries \in Seq(Entry) /\ last_id \in Int /\ recovered \in Int /\ last_acked_id \in Int
      /\ first_id \in Nat \cup {None} /\ recovered >= -1
      /\ recovered <= last_id - Len(entries)
      /\ last_id - Len(entries) <= MaxOpt(recovered, last_acked_id)
  BY SMT DEF MemInv, MemTypeOK, WindowExact, OlderIsAcked, None
<1>2. Len(entries) \in Nat /\ (entries = <<>> <=> Len(entries) = 0)
  BY SMT, <1>1
<1>3. Lo \in Int /\ Lo - 1 = last_id - Len(entries) /\ (Lo > last_id <=> Len(entries) = 0)
  BY SMT, <1>1, <1>2 DEF Lo
<1>4. CASE entries = <<>>
  <2>1. first_id = None
    BY <1>4 DEF MemInv, WindowExact
  <2>2. Lo = last_id + 1
    BY SMT, <1>1, <1>2, <1>3, <1>4
  <2> QED BY <1>1, <1>2, <1>3, <1>4, <2>1, <2>2
<1>5. CASE entries # <<>>
  <2>1. 1 \in 1..Len(entries)
    BY SMT, <1>2, <1>5
  <2>2. first_id = Lo
    BY <1>5, <2>1 DEF MemInv, WindowExact, Lo
  <2>3. first_id # None
    BY SMT, <1>1, <1>3, <2>2 DEF None
  <2> QED BY <1>1, <1>2, <1>3, <1>5, <2>2, <2>3
<1> QED BY <1>4, <1>5

\* The same after a step.
LEMMA WindowStartNext ==
  (MemInv =>
    /\ last_id \in Int /\ Lo \in Int /\ recovered \in Int /\ last_acked_id \in Int
    /\ Lo - 1 <= MaxOpt(recovered, last_acked_id)
    /\ first_id = (IF Lo > last_id THEN None ELSE Lo)
    /\ Lo = IF first_id = None THEN last_id + 1 ELSE first_id)'
BY WindowStart, PTL

\* The window only moves forward.
LEMMA StartsLater ==
  ASSUME MemInv, MemInv', Moved
  PROVE  Lo <= Lo'
<1>1. PICK lo \in Int, hi \in Int : lo = Lo /\ hi = Lo'
  BY WindowStart, WindowStartNext
<1>2. last_id - Len(entries) = lo - 1 /\ last_id' - Len(entries') = hi - 1
  <2>1. entries \in Seq(Entry) /\ entries' \in Seq(Entry) /\ last_id \in Int /\ last_id' \in Int
    BY WindowStart, WindowStartNext DEF MemInv, MemTypeOK
  <2>2. lo = last_id - Len(entries) + 1 /\ hi = last_id' - Len(entries') + 1
    BY <1>1 DEF Lo
  <2> QED BY SMT, <2>1, <2>2
<1>3. hi - 1 >= lo - 1
  BY <1>2 DEF Moved
<1>4. lo <= hi
  BY SMT, <1>3
<1> QED BY <1>1, <1>4

\* In a state of the invariant, read_full either points before the window, where
\* the files must be read, or returns exactly what was asked for.
LEMMA ReadFullResult ==
  ASSUME MemInv, NEW start \in Nat, NEW end \in Nat, NEW step \in Nat \ {0},
         read_full(start, end, step).success
  PROVE  read_full(start, end, step).ids =
           {id \in start..last_id : id <= end /\ (id - start) % step = 0}
<1>1. Len(entries) \in Nat /\ last_id \in Int /\ entries \in Seq(Entry)
  BY DEF MemInv, MemTypeOK, None
<1>2. CASE last_id = None \/ start > last_id
  <2>1. read_full(start, end, step).ids = {}
    BY <1>2 DEF read_full
  <2>2. start..last_id = {}
    BY <1>1, <1>2 DEF None
  <2> QED BY <2>1, <2>2
<1>3. CASE ~(last_id = None \/ start > last_id)
  <2>1. first_id # None /\ ~(start < first_id)
    BY <1>3 DEF read_full, fail
  <2>2. read_full(start, end, step).ids = {id \in Collect(start, step) : id <= end}
    BY <1>3, <2>1 DEF read_full
  <2>3. entries # <<>> /\ first_id = entries[1].id
    BY <2>1 DEF MemInv, WindowExact
  <2>4. Len(entries) \in Nat \ {0}
    BY <1>1, <2>3, EmptySeq
  <2>5. first_id = last_id - Len(entries) + 1
    BY <2>3, <2>4 DEF MemInv, WindowExact
  <2>6. IdsOf(entries) = first_id..last_id
    BY <2>5, WindowIds
  <2>7. \A id : id \in first_id..last_id /\ id >= start <=> id \in start..last_id
    BY <1>1, <2>1, <2>4, <2>5
  <2> QED BY <2>2, <2>6, <2>7 DEF Collect
<1> QED BY <1>2, <1>3

\* A successful read_full is exact, for every range, step and memory limit.
THEOREM ReadFullIsExact == MemSpec => []ReadFullExact
<1>1. MemInv => ReadFullExact
  <2> SUFFICES ASSUME MemInv, NEW start \in 0..MaxId + 1, NEW end \in 0..MaxId + 1,
                      NEW step \in ReadSteps, read_full(start, end, step).success
               PROVE  read_full(start, end, step).ids =
                        {id \in start..last_id : id <= end /\ (id - start) % step = 0}
    BY DEF ReadFullExact
  <2>1. start \in Nat /\ end \in Nat /\ step \in Nat \ {0}
    BY MemAssumption
  <2> QED BY <2>1, ReadFullResult
<1> QED BY <1>1, MemInvariant, PTL

\* The ids in step from "start" that come before id.
Earlier(start, last, step, id) == {e \in start..last : (e - start) % step = 0 /\ e < id}

\* The k-th of them is start + k * step, so that id is preceded by as many as there
\* are steps up to it.
LEMMA InStepCount ==
  ASSUME NEW start \in Nat, NEW last \in Int, NEW step \in Nat \ {0},
         NEW id \in start..last, (id - start) % step = 0
  PROVE  /\ Cardinality(Earlier(start, last, step, id)) \in Nat
         /\ id = start + Cardinality(Earlier(start, last, step, id)) * step
<1> DEFINE earlier == {e \in start..last : (e - start) % step = 0 /\ e < id}
           m == (id - start) \div step
           f == [k \in 0..m - 1 |-> start + k * step]
<1>1. ASSUME NEW e \in start..last, (e - start) % step = 0
      PROVE  /\ (e - start) \div step \in Nat
             /\ e = start + ((e - start) \div step) * step
  <2>1. e - start \in Nat
    OBVIOUS
  <2> DEFINE d == e - start
  <2>2. d \in Nat /\ d % step = 0
    BY <1>1, <2>1
  <2> HIDE DEF d
  <2>3. d \div step \in Nat /\ d = (d \div step) * step
    BY <2>2
  <2> QED BY <2>3 DEF d
<1>2. m \in Nat /\ id = start + m * step
  BY <1>1
<1> HIDE DEF m
<1>3. \A j, k \in Nat : j < k <=> j * step < k * step
  OBVIOUS
<1>4. \A k \in Nat : k * step \in Nat /\ (k * step) % step = 0
  OBVIOUS
<1>5. f \in [0..m - 1 -> earlier]
  <2> SUFFICES ASSUME NEW k \in 0..m - 1 PROVE start + k * step \in earlier
    OBVIOUS
  <2>1. k \in Nat /\ k < m
    BY <1>2
  <2>2. k * step \in Nat /\ k * step < m * step /\ m * step \in Nat
    BY <1>2, <1>3, <1>4, <2>1
  <2>3. ((start + k * step) - start) % step = 0
    <3>1. (start + k * step) - start = k * step
      BY <2>2
    <3> QED BY <1>4, <2>1, <3>1
  <2> QED BY <1>2, <2>2, <2>3
<1>6. f \in Injection(0..m - 1, earlier)
  <2>1. ASSUME NEW j \in 0..m - 1, NEW k \in 0..m - 1, j # k PROVE f[j] # f[k]
    <3>1. j \in Nat /\ k \in Nat /\ (j < k \/ k < j) /\ j * step \in Nat /\ k * step \in Nat
      BY <1>2, <1>4, <2>1
    <3> QED BY <1>3, <3>1
  <2>2. DOMAIN f = 0..m - 1
    OBVIOUS
  <2> HIDE DEF f, earlier
  <2> QED BY <1>5, <2>1, <2>2 DEF Injection, IsInjective
<1>7. f \in Surjection(0..m - 1, earlier)
  <2>1. ASSUME NEW e \in earlier PROVE \E k \in 0..m - 1 : f[k] = e
    <3> DEFINE k == (e - start) \div step
    <3>1. k \in Nat /\ e = start + k * step
      BY <1>1
    <3> HIDE DEF k
    <3>2. k * step < m * step
      BY <1>2, <1>4, <3>1
    <3>3. k < m
      BY <1>2, <1>3, <3>1, <3>2
    <3>4. k \in 0..m - 1
      BY <1>2, <3>1, <3>3
    <3> QED BY <3>1, <3>4
  <2> QED BY <1>5, <2>1 DEF Surjection
<1>8. Cardinality(earlier) = m
  <2>1. IsFiniteSet(0..m - 1) /\ Cardinality(0..m - 1) = m
    BY <1>2, FS_Interval
  <2>2. ExistsBijection(0..m - 1, earlier)
    BY <1>6, <1>7 DEF ExistsBijection, Bijection
  <2> HIDE DEF f, earlier
  <2> QED BY <2>1, <2>2, FS_Bijection
<1>9. Earlier(start, last, step, id) = earlier
  BY DEF Earlier
<1> HIDE DEF earlier
<1> QED BY <1>2, <1>8, <1>9

\* In a state of the invariant, read_full_negative fails, and the files must be
\* read, or returns the first "limit" ids in step.
LEMMA ReadNegativeResult ==
  ASSUME MemInv, NEW offset \in Nat, NEW step \in Nat \ {0}, NEW limit \in Nat,
         read_full_negative(offset, step, limit).success
  PROVE  LET start == BackFrom(last_id, offset)
         IN  read_full_negative(offset, step, limit).ids =
               {id \in start..last_id : /\ (id - start) % step = 0
                                        /\ limit > 0 => id < start + limit * step}
<1> DEFINE start == BackFrom(last_id, offset)
           ids == Collect(start, step)
           want == {id \in start..last_id : /\ (id - start) % step = 0
                                            /\ limit > 0 => id < start + limit * step}
           result == read_full_negative(offset, step, limit)
<1>1. Len(entries) \in Nat /\ last_id \in Int /\ last_id >= -1 /\ entries \in Seq(Entry)
  BY DEF MemInv, MemTypeOK, None
<1>2. start \in Nat
  BY <1>1 DEF BackFrom
<1>3. CASE last_id = None
  <2>1. result.ids = {}
    BY <1>3 DEF read_full_negative
  <2>2. start..last_id = {}
    BY <1>2, <1>3 DEF None
  <2> QED BY <2>1, <2>2
<1>4. CASE last_id # None
  <2>1. first_id # None /\ ~(start < first_id)
    BY <1>4 DEF read_full_negative, fail
  <2>2. result.ids = Limited(ids, limit)
    BY <1>4 DEF read_full_negative, fail
  <2>3. entries # <<>> /\ first_id = entries[1].id
    BY <2>1 DEF MemInv, WindowExact
  <2>4. Len(entries) \in Nat \ {0}
    BY <1>1, <2>3, EmptySeq
  <2>5. first_id = last_id - Len(entries) + 1
    BY <2>3, <2>4 DEF MemInv, WindowExact
  <2>6. IdsOf(entries) = first_id..last_id
    BY <2>5, WindowIds
  <2>7. \A id : id \in first_id..last_id /\ id >= start <=> id \in start..last_id
    BY <1>1, <1>2, <2>1, <2>4, <2>5
  <2> HIDE DEF start
  <2>8. ids = {id \in start..last_id : (id - start) % step = 0}
    BY <2>6, <2>7 DEF Collect
  <2>9. ASSUME NEW id \in ids, limit > 0
        PROVE  Cardinality({e \in ids : e < id}) < limit <=> id < start + limit * step
    <3> DEFINE n == Cardinality({e \in ids : e < id})
    <3>1. {e \in ids : e < id} = Earlier(start, last_id, step, id)
      BY <2>8 DEF Earlier
    <3>2. id \in start..last_id /\ (id - start) % step = 0
      BY <2>8
    <3> HIDE DEF ids
    <3>3. n \in Nat /\ id = start + n * step
      <4>1. /\ Cardinality(Earlier(start, last_id, step, id)) \in Nat
            /\ id = start + Cardinality(Earlier(start, last_id, step, id)) * step
        BY Zenon, <1>1, <1>2, <3>2, InStepCount
      <4> QED BY Zenon, <3>1, <4>1
    <3> HIDE DEF n
    <3>4. n < limit <=> n * step < limit * step
      BY <3>3
    <3>5. n * step \in Nat /\ limit * step \in Nat
      BY <3>3
    <3>6. n < limit <=> id < start + limit * step
      BY <1>2, <3>3, <3>4, <3>5
    <3> QED BY <3>6 DEF n
  <2>10. Limited(ids, limit) = want
    <3>1. Limited(ids, limit) = {id \in ids : limit > 0 => Cardinality({e \in ids : e < id}) < limit}
      BY DEF Limited
    <3>2. want = {id \in ids : limit > 0 => id < start + limit * step}
      BY <2>8
    <3> HIDE DEF ids, want
    <3> QED BY <2>9, <3>1, <3>2
  <2> QED BY <2>2, <2>10 DEF start
<1> QED BY <1>3, <1>4

\* What memory answers is complete, from either end of the queue, for every
\* position, step, limit and memory limit.
THEOREM ReadsAreExact == MemSpec => []ReadsExact
<1>1. MemInv => ReadNegativeExact
  <2> SUFFICES ASSUME MemInv, NEW offset \in 0..MaxId + 1, NEW step \in ReadSteps,
                      NEW limit \in 0..MaxId + 1,
                      read_full_negative(offset, step, limit).success
               PROVE  LET start == BackFrom(last_id, offset)
                      IN  read_full_negative(offset, step, limit).ids =
                            {id \in start..last_id :
                               /\ (id - start) % step = 0
                               /\ limit > 0 => id < start + limit * step}
    BY DEF ReadNegativeExact
  <2>1. offset \in Nat /\ step \in Nat \ {0} /\ limit \in Nat
    BY MemAssumption
  <2> QED BY <2>1, ReadNegativeResult
<1> QED BY <1>1, ReadFullIsExact, MemInvariant, PTL DEF ReadsExact

\* No memory limit, batch size or order of acknowledgements makes the memory
\* queue forget an entry that the log has not acknowledged.
THEOREM UnackedIsReadable == MemSpec => []UnackedReadable
<1>1. MemInv => UnackedReadable
  <2> SUFFICES ASSUME MemInv, NEW id \in recovered + 1..last_id, id > last_acked_id
               PROVE  read_full(id, id, 1) = [success |-> TRUE, ids |-> {id}]
    BY DEF UnackedReadable
  <2>1. /\ Len(entries) \in Nat /\ last_id \in Int /\ recovered \in Int
        /\ last_acked_id \in Int /\ recovered >= -1 /\ entries \in Seq(Entry)
    BY DEF MemInv, MemTypeOK, None
  <2>2. id > last_id - Len(entries) /\ id <= last_id /\ id \in Nat
    BY <2>1 DEF MemInv, OlderIsAcked, MaxOpt
  <2>3. Len(entries) > 0
    BY <2>1, <2>2
  <2>4. entries # <<>>
    BY <2>3, EmptySeq
  <2>5. first_id = last_id - Len(entries) + 1
    BY <2>1, <2>3, <2>4 DEF MemInv, WindowExact
  <2>6. first_id # None /\ ~(id < first_id) /\ last_id # None /\ ~(id > last_id)
    BY <2>1, <2>2, <2>5, recovered <= last_id - Len(entries) DEF MemInv, WindowExact, None
  <2>7. IdsOf(entries) = first_id..last_id
    BY <2>5, WindowIds
  <2>8. read_full(id, id, 1) = [success |-> TRUE, ids |-> {i \in Collect(id, 1) : i <= id}]
    BY <2>6 DEF read_full
  <2>9. {i \in Collect(id, 1) : i <= id} = {id}
    <3>1. (id - id) % 1 = 0
      BY <2>2
    <3> QED BY <2>1, <2>2, <2>5, <2>7, <3>1 DEF Collect
  <2> QED BY <2>8, <2>9
<1> QED BY <1>1, MemInvariant, PTL

-----------------------------------------------------------------------------
(* How much memory the window takes                                         *)

\* A non-empty set of naturals has a least element.
LEMMA LeastOfNat ==
  ASSUME NEW T \in SUBSET Nat, T # {}
  PROVE  \E m \in T : \A k \in T : m <= k
<1> DEFINE R == {ss \in Nat \X Nat : ss[1] < ss[2]}
<1>1. IsWellFoundedOn(R, Nat)
  BY NatLessThanWellFounded, Zenon DEF OpToRel
<1>2. \E x \in T : \A y \in T : ~ (<<y, x>> \in R)
  <2> HIDE DEF R
  <2> QED BY <1>1, WFMin
<1>3. PICK x \in T : \A y \in T : ~ (<<y, x>> \in R)
  BY <1>2
<1>4. ASSUME NEW y \in T PROVE x <= y
  <2>1. ~ (<<y, x>> \in R)
    BY <1>3
  <2>2. <<y, x>> \in Nat \X Nat
    OBVIOUS
  <2>3. ~ (y < x)
    BY <2>1, <2>2, Zenon
  <2> QED BY <2>3
<1> QED BY <1>4

\* f[n] is the data length of the first n of the entries "es", for n up to k.
IsSum(f, es, k) == f = [n \in 0..k |-> IF n = 0 THEN 0 ELSE f[n - 1] + es[n].len]

Sums(es) == CHOOSE f : IsSum(f, es, Len(es))

\* Such a function exists, for every number of entries.
LEMMA SumExists ==
  ASSUME NEW es \in Seq(Entry), NEW k \in 0..Len(es)
  PROVE  \E f : IsSum(f, es, k)
<1> DEFINE Bad == {n \in 0..Len(es) : ~\E f : IsSum(f, es, n)}
<1> SUFFICES ASSUME Bad # {} PROVE FALSE
  OBVIOUS
<1>1. PICK n \in Bad : \A m \in Bad : n <= m
  <2>1. Bad \in SUBSET Nat
    OBVIOUS
  <2> HIDE DEF Bad
  <2> QED BY <2>1, LeastOfNat
<1>2. n \in Nat /\ n <= Len(es) /\ Len(es) \in Nat /\ ~\E f : IsSum(f, es, n)
  BY <1>1
<1>3. CASE n = 0
  <2> DEFINE f == [i \in 0..0 |-> 0]
  <2>1. f = [i \in 0..n |-> IF i = 0 THEN 0 ELSE f[i - 1] + es[i].len]
    BY <1>3
  <2> HIDE DEF f
  <2> QED BY <1>2, <2>1 DEF IsSum
<1>4. CASE n > 0
  <2>1. n - 1 \in 0..Len(es) /\ n - 1 \notin Bad
    BY <1>1, <1>2, <1>4
  <2>2. PICK g : IsSum(g, es, n - 1)
    BY <2>1
  <2> DEFINE f == [i \in 0..n |-> IF i = n THEN g[n - 1] + es[n].len ELSE g[i]]
  <2>3. ASSUME NEW i \in 0..n PROVE f[i] = IF i = 0 THEN 0 ELSE f[i - 1] + es[i].len
    <3>1. CASE i = n
      BY <1>2, <1>4, <3>1
    <3>2. CASE i # n
      <4>1. i \in 0..n - 1 /\ i - 1 # n
        BY <1>2, <3>2
      <4>2. g[i] = IF i = 0 THEN 0 ELSE g[i - 1] + es[i].len
        BY <2>2, <4>1 DEF IsSum
      <4> QED BY <1>2, <3>2, <4>1, <4>2
    <3> QED BY <3>1, <3>2
  <2>4. f = [i \in 0..n |-> IF i = 0 THEN 0 ELSE f[i - 1] + es[i].len]
    <3>1. f = [i \in 0..n |-> f[i]]
      OBVIOUS
    <3> HIDE DEF f
    <3> QED BY <2>3, <3>1
  <2> HIDE DEF f
  <2> QED BY <1>2, <2>4 DEF IsSum
<1> QED BY <1>2, <1>3, <1>4

\* DataLen is the last of the sums.
LEMMA SumFacts ==
  ASSUME NEW es \in Seq(Entry)
  PROVE  /\ DataLen(es) = Sums(es)[Len(es)]
         /\ Sums(es)[0] = 0
         /\ \A n \in 1..Len(es) : Sums(es)[n] = Sums(es)[n - 1] + es[n].len
<1>1. Len(es) \in Nat
  OBVIOUS
<1>2. IsSum(Sums(es), es, Len(es))
  <2>1. \E f : IsSum(f, es, Len(es))
    BY <1>1, SumExists
  <2> QED BY <2>1 DEF Sums
<1>3. DataLen(es) = Sums(es)[Len(es)]
  BY DEF DataLen, Sums, IsSum
<1>4. \A n \in 0..Len(es) : Sums(es)[n] = IF n = 0 THEN 0 ELSE Sums(es)[n - 1] + es[n].len
  BY <1>2 DEF IsSum
<1> QED BY <1>1, <1>3, <1>4

\* The sums of consecutive entries are differences of the sums of all entries.
LEMMA SumOfPart ==
  ASSUME NEW es \in Seq(Entry), NEW part \in Seq(Entry), NEW n \in 0..Len(es),
         n + Len(part) <= Len(es), \A i \in 1..Len(part) : part[i] = es[n + i]
  PROVE  \A i \in 0..Len(part) :
           Sums(es)[n + i] \in Nat /\ Sums(part)[i] = Sums(es)[n + i] - Sums(es)[n]
<1> USE MemAssumption
<1>1. Len(es) \in Nat /\ Len(part) \in Nat
  OBVIOUS
<1>2. \A i \in 0..Len(es) : Sums(es)[i] \in Nat
  <2> DEFINE Bad == {i \in 0..Len(es) : Sums(es)[i] \notin Nat}
  <2> SUFFICES ASSUME Bad # {} PROVE FALSE
    OBVIOUS
  <2>1. PICK i \in Bad : \A j \in Bad : i <= j
    <3>1. Bad \in SUBSET Nat
      OBVIOUS
    <3> HIDE DEF Bad
    <3> QED BY <3>1, LeastOfNat
  <2>2. i \in 0..Len(es) /\ Sums(es)[i] \notin Nat
    BY <2>1
  <2>3. i # 0
    BY <2>2, SumFacts
  <2>4. i \in 1..Len(es) /\ i - 1 \in 0..Len(es) /\ i - 1 \notin Bad
    BY <1>1, <2>1, <2>2, <2>3
  <2>5. es[i].len \in Nat
    <3>1. es[i] \in Entry
      BY <2>4, ElementOfSeq
    <3> QED BY <3>1 DEF Entry
  <2>6. Sums(es)[i] = Sums(es)[i - 1] + es[i].len
    BY <2>4, SumFacts
  <2> QED BY <2>2, <2>4, <2>5, <2>6
<1>3. \A i \in 0..Len(part) : Sums(part)[i] = Sums(es)[n + i] - Sums(es)[n]
  <2> DEFINE Bad == {i \in 0..Len(part) : Sums(part)[i] # Sums(es)[n + i] - Sums(es)[n]}
  <2> SUFFICES ASSUME Bad # {} PROVE FALSE
    OBVIOUS
  <2>1. PICK i \in Bad : \A j \in Bad : i <= j
    <3>1. Bad \in SUBSET Nat
      OBVIOUS
    <3> HIDE DEF Bad
    <3> QED BY <3>1, LeastOfNat
  <2>2. i \in 0..Len(part) /\ Sums(part)[i] # Sums(es)[n + i] - Sums(es)[n]
    BY <2>1
  <2>3. i # 0
    <3>1. Sums(part)[0] = 0 /\ Sums(es)[n + 0] = Sums(es)[n] /\ Sums(es)[n] \in Nat
      BY <1>1, <1>2, SumFacts
    <3> QED BY <2>2, <3>1
  <2>4. i \in 1..Len(part) /\ i - 1 \in 0..Len(part) /\ i - 1 \notin Bad
    BY <1>1, <2>1, <2>2, <2>3
  <2>5. Sums(part)[i - 1] = Sums(es)[n + (i - 1)] - Sums(es)[n]
    BY <2>4
  <2>6. n + i \in 1..Len(es) /\ n + i - 1 \in 0..Len(es) /\ n + (i - 1) = n + i - 1
    BY <1>1, <2>4
  <2>7. Sums(part)[i] = Sums(part)[i - 1] + part[i].len
    BY <2>4, SumFacts
  <2>8. Sums(es)[n + i] = Sums(es)[n + i - 1] + es[n + i].len
    BY <2>6, SumFacts
  <2>9. es[n + i].len \in Nat /\ part[i] = es[n + i]
    <3>1. es[n + i] \in Entry
      BY <2>6, ElementOfSeq
    <3> QED BY <2>4, <3>1 DEF Entry
  <2>10. Sums(es)[n + i - 1] \in Nat /\ Sums(es)[n] \in Nat
    BY <1>2, <2>6
  <2>11. Sums(part)[i - 1] = Sums(es)[n + i - 1] - Sums(es)[n]
    BY <2>5, <2>6
  <2> DEFINE u == Sums(es)[n + i - 1]
             v == Sums(es)[n]
             w == Sums(part)[i - 1]
             d == es[n + i].len
  <2>12. Sums(part)[i] = w + d /\ Sums(es)[n + i] = u + d /\ w = u - v
    BY <2>7, <2>8, <2>9, <2>11
  <2>13. {u, v, d} \subseteq Nat
    BY <2>9, <2>10
  <2> HIDE DEF u, v, w, d
  <2>14. w + d = (u + d) - v
    BY <2>12, <2>13
  <2> QED BY <2>2, <2>12, <2>14 DEF v
<1>4. \A i \in 0..Len(part) : n + i \in 0..Len(es)
  BY <1>1
<1> QED BY <1>2, <1>3, <1>4

\* DataLen is a natural number, and additive.
LEMMA DataLenSplit ==
  ASSUME NEW es \in Seq(Entry), NEW n \in 0..Len(es)
  PROVE  /\ {DataLen(SubSeq(es, 1, n)), DataLen(SubSeq(es, n + 1, Len(es)))} \subseteq Nat
         /\ DataLen(es) = DataLen(SubSeq(es, 1, n)) + DataLen(SubSeq(es, n + 1, Len(es)))
<1> DEFINE a == SubSeq(es, 1, n)
           b == SubSeq(es, n + 1, Len(es))
<1>1. /\ Len(es) \in Nat /\ a \in Seq(Entry) /\ b \in Seq(Entry)
      /\ Len(a) = n /\ Len(b) = Len(es) - n
      /\ \A i \in 1..Len(a) : a[i] = es[0 + i]
      /\ \A i \in 1..Len(b) : b[i] = es[n + i]
  OBVIOUS
<1> HIDE DEF a, b
<1>2. \A i \in 0..Len(a) : Sums(es)[0 + i] \in Nat /\ Sums(a)[i] = Sums(es)[0 + i] - Sums(es)[0]
  <2>1. 0 \in 0..Len(es) /\ 0 + Len(a) <= Len(es)
    BY <1>1
  <2> QED BY <1>1, <2>1, SumOfPart
<1>3. \A i \in 0..Len(b) : Sums(es)[n + i] \in Nat /\ Sums(b)[i] = Sums(es)[n + i] - Sums(es)[n]
  <2>1. n + Len(b) <= Len(es)
    BY <1>1
  <2> QED BY <1>1, <2>1, SumOfPart
<1>4. /\ DataLen(es) = Sums(es)[Len(es)] /\ DataLen(a) = Sums(a)[Len(a)]
      /\ DataLen(b) = Sums(b)[Len(b)] /\ Sums(es)[0] = 0
  BY <1>1, SumFacts
<1>5. Sums(es)[n] \in Nat /\ Sums(a)[n] = Sums(es)[n] - 0
  BY <1>1, <1>2, <1>4
<1>6. Sums(es)[Len(es)] \in Nat /\ Sums(b)[Len(b)] = Sums(es)[Len(es)] - Sums(es)[n]
  BY <1>1, <1>3
<1>7. DataLen(a) \in Nat /\ DataLen(es) = DataLen(a) + DataLen(b)
  BY <1>1, <1>4, <1>5, <1>6
<1>8. DataLen(b) \in Nat
  <2>1. \A i \in 0..Len(b) : Sums(b)[0 + i] \in Nat
    <3>1. 0 \in 0..Len(b) /\ 0 + Len(b) <= Len(b) /\ \A i \in 1..Len(b) : b[i] = b[0 + i]
      BY <1>1
    <3> QED BY <1>1, <3>1, SumOfPart
  <2>2. Sums(b)[0 + Len(b)] \in Nat
    BY <1>1, <2>1
  <2> QED BY <1>1, <1>4, <2>2
<1> QED BY <1>7, <1>8 DEF a, b

LEMMA DataLenConcat ==
  ASSUME NEW s \in Seq(Entry), NEW t \in Seq(Entry)
  PROVE  DataLen(s) \in Nat /\ DataLen(s \o t) = DataLen(s) + DataLen(t)
<1> DEFINE es == s \o t
           a == SubSeq(es, 1, Len(s))
           b == SubSeq(es, Len(s) + 1, Len(es))
<1>1. /\ es \in Seq(Entry) /\ Len(es) = Len(s) + Len(t) /\ Len(s) \in Nat /\ Len(t) \in Nat
      /\ \A i \in 1..Len(s) + Len(t) : es[i] = IF i <= Len(s) THEN s[i] ELSE t[i - Len(s)]
  BY ConcatProperties
<1> HIDE DEF es
<1>2. a = s
  <2>1. a \in Seq(Entry) /\ Len(a) = Len(s) /\ \A i \in 1..Len(s) : a[i] = es[i]
    BY <1>1
  <2> HIDE DEF a
  <2>2. \A i \in 1..Len(a) : a[i] = s[i]
    BY <1>1, <2>1
  <2> QED BY <2>1, <2>2, SeqEqual
<1>3. b = t
  <2>1. b \in Seq(Entry) /\ Len(b) = Len(t) /\ \A i \in 1..Len(t) : b[i] = es[Len(s) + i]
    BY <1>1
  <2> HIDE DEF b
  <2>2. ASSUME NEW i \in 1..Len(b) PROVE b[i] = t[i]
    <3>1. Len(s) + i \in 1..Len(s) + Len(t) /\ ~(Len(s) + i <= Len(s)) /\ Len(s) + i - Len(s) = i
      BY <1>1, <2>1
    <3>2. es[Len(s) + i] = t[Len(s) + i - Len(s)]
      BY <1>1, <3>1
    <3> QED BY <2>1, <3>1, <3>2
  <2> QED BY <2>1, <2>2, SeqEqual
<1>4. DataLen(a) \in Nat /\ DataLen(es) = DataLen(a) + DataLen(b)
  <2>1. Len(s) \in 0..Len(es)
    BY <1>1
  <2> QED BY <1>1, <2>1, DataLenSplit
<1> HIDE DEF a, b
<1> QED BY <1>2, <1>3, <1>4 DEF es

\* cleanup_unlocked subtracts what it drops; when more than the limit is left,
\* nothing more can be dropped.
LEMMA CleanupUsage ==
  ASSUME NEW es \in Seq(Entry), NEW last \in Int, NEW acked \in Int,
         Consecutive(es, last),
         cleanup_unlocked(es, FirstOf(es), acked, DataLen(es))
  PROVE  /\ memory_usage' = DataLen(entries')
         /\ memory_usage' > MaxMemoryUsage => entries' # <<>> /\ entries'[1].id > acked
<1> USE MemAssumption
<1> DEFINE n == ToRemove(es, acked)
           front == SubSeq(es, 1, n)
           rest == SubSeq(es, n + 1, Len(es))
<1>1. n \in 0..Len(es) /\ Len(es) \in Nat /\ (n < Len(es) => es[n + 1].id > acked)
  BY ToRemoveFacts
<1> HIDE DEF n
<1>2. /\ {DataLen(front), DataLen(rest)} \subseteq Nat
      /\ DataLen(es) = DataLen(front) + DataLen(rest)
  BY <1>1, DataLenSplit
<1>3. DataLen(<<>>) = 0
  <2>1. <<>> \in Seq(Entry) /\ Len(<<>>) = 0
    BY EmptySeq
  <2> QED BY <2>1, SumFacts
<1>4. /\ rest \in Seq(Entry) /\ Len(rest) = Len(es) - n
      /\ \A i \in 1..Len(es) - n : rest[i] = es[n + i]
  BY <1>1
<1>5. \/ /\ DataLen(es) <= MaxMemoryUsage \/ n = 0
         /\ entries' = es /\ memory_usage' = DataLen(es)
      \/ entries' = rest /\ memory_usage' = DataLen(es) - DataLen(front)
  BY DEF cleanup_unlocked, n
<1> HIDE DEF front, rest
<1>6. CASE /\ DataLen(es) <= MaxMemoryUsage \/ n = 0
           /\ entries' = es /\ memory_usage' = DataLen(es)
  <2>1. ASSUME memory_usage' > MaxMemoryUsage PROVE es # <<>> /\ es[1].id > acked
    <3>1. n = 0
      BY <1>2, <1>6, <2>1
    <3>2. es # <<>>
      BY <1>3, <1>6, <2>1
    <3>3. Len(es) > 0
      BY <3>2, EmptySeq
    <3> QED BY <1>1, <3>1, <3>2, <3>3
  <2> QED BY <1>6, <2>1
<1>7. CASE entries' = rest /\ memory_usage' = DataLen(es) - DataLen(front)
  <2>1. memory_usage' = DataLen(rest)
    BY <1>2, <1>7
  <2>2. ASSUME memory_usage' > MaxMemoryUsage PROVE rest # <<>> /\ rest[1].id > acked
    <3>1. rest # <<>>
      BY <1>3, <2>1, <2>2
    <3>2. Len(rest) > 0
      BY <1>4, <3>1, EmptySeq
    <3> QED BY <1>1, <1>4, <3>1, <3>2
  <2> QED BY <1>7, <2>1, <2>2
<1> QED BY <1>5, <1>6, <1>7

\* Every operation keeps memory_usage equal to the size of the window.
LEMMA UsageStep ==
  ASSUME MemInv, UsageExact, [MemNext]_memVars
  PROVE  UsageExact'
<1> USE MemAssumption
<1>1. /\ last_id \in Int /\ last_acked_id \in Int /\ recovered \in Int /\ recovered >= -1
      /\ entries \in Seq(Entry) /\ Consecutive(entries, last_id) /\ first_id = FirstOf(entries)
      /\ MemInv'
  BY MemInvInductive DEF MemInv, MemTypeOK, WindowExact, Consecutive, FirstOf, None
<1>2. ASSUME NEW lens \in Seq(DataLens), lens # <<>>, Push(lens) PROVE UsageExact'
  <2> DEFINE es == entries \o NewEntries(lens)
  <2>1. /\ NewEntries(lens) \in Seq(Entry) /\ es \in Seq(Entry) /\ last_id + Len(lens) \in Int
        /\ Consecutive(es, last_id + Len(lens))
        /\ cleanup_unlocked(es, FirstOf(es), last_acked_id,
                            memory_usage + DataLen(NewEntries(lens)))
    BY <1>2, PushFacts
  <2>2. memory_usage + DataLen(NewEntries(lens)) = DataLen(es)
    BY <1>1, <2>1, DataLenConcat DEF UsageExact
  <2>3. last_acked_id' = last_acked_id
    BY <1>2 DEF Push
  <2> HIDE DEF es
  <2> QED BY <1>1, <2>1, <2>2, <2>3, CleanupUsage DEF UsageExact
<1>3. ASSUME NEW len \in DataLens, enqueue(len) PROVE UsageExact'
  <2>1. <<len>> \in Seq(DataLens) /\ <<len>> # <<>>
    OBVIOUS
  <2> QED BY <1>2, <1>3, <2>1 DEF enqueue
<1>4. ASSUME NEW n \in 1..MaxBatch, NEW lens \in [1..n -> DataLens], enqueue_batch(lens)
      PROVE  UsageExact'
  <2>1. lens \in Seq(DataLens)
    BY SeqDef
  <2> QED BY <1>2, <1>4, <2>1 DEF enqueue_batch
<1>5. ASSUME NEW id \in recovered + 1..last_id, ack(id) PROVE UsageExact'
  <2>1. last_acked_id' \in Int
    BY <1>1 DEF MemInv, MemTypeOK, None
  <2>2. cleanup_unlocked(entries, FirstOf(entries), last_acked_id', DataLen(entries))
    BY <1>1, <1>5 DEF ack, UsageExact
  <2> QED BY <1>1, <2>1, <2>2, CleanupUsage DEF UsageExact
<1>6. CASE UNCHANGED memVars
  BY <1>6 DEF memVars, UsageExact
<1> QED BY <1>3, <1>4, <1>5, <1>6 DEF MemNext

\* memory_usage is the size of the window, for every mix of lengths, batches,
\* acknowledgements and limits: it never drifts, and the subtraction in
\* cleanup_unlocked never goes below zero.
THEOREM UsageIsExact == MemSpec => []UsageExact
<1>1. MemInit => UsageExact
  <2> SUFFICES ASSUME MemInit PROVE UsageExact
    OBVIOUS
  <2>1. DataLen(<<>>) = 0
    <3>1. <<>> \in Seq(Entry) /\ Len(<<>>) = 0
      BY EmptySeq
    <3> QED BY <3>1, SumFacts
  <2> QED BY <2>1, MemAssumption DEF MemInit, UsageExact
<1>2. MemInv /\ UsageExact /\ [MemNext]_memVars => UsageExact'
  BY UsageStep
<1> QED BY <1>1, <1>2, MemInvariant, PTL DEF MemSpec

\* Ids are never reassigned, acknowledgements never retreat and entries leave
\* only at the front of the window, in every step of every operation.
THEOREM IsMonotone == MemSpec => Monotone
<1> DEFINE A == /\ last_id' >= last_id
                /\ last_acked_id' >= last_acked_id
                /\ \A id \in IdsOf(entries') : id > last_id \/ id \in IdsOf(entries)
                /\ entries # <<>> /\ entries' # <<>> => entries'[1].id >= entries[1].id
<1>1. ASSUME MemInv, [MemNext]_memVars PROVE A
  <2>1. MemInv' /\ Moved
    BY <1>1, MemInvInductive
  <2>2. /\ Len(entries) \in Nat /\ last_id \in Int /\ entries \in Seq(Entry)
        /\ Len(entries') \in Nat /\ last_id' \in Int /\ entries' \in Seq(Entry)
    BY <1>1, <2>1 DEF MemInv, MemTypeOK, None
  <2>3. /\ IdsOf(entries) = last_id - Len(entries) + 1..last_id
        /\ IdsOf(entries') = last_id' - Len(entries') + 1..last_id'
    <3>1. Consecutive(entries', last_id')
      BY <2>1 DEF MemInv, WindowExact, Consecutive
    <3>2. IdsOf(entries') = last_id' - Len(entries') + 1..last_id'
      BY <2>2, <3>1, ConsecutiveIds
    <3> QED BY <1>1, <3>2, WindowIds
  <2>4. ASSUME NEW id \in IdsOf(entries') PROVE id > last_id \/ id \in IdsOf(entries)
    BY <2>1, <2>2, <2>3 DEF Moved
  <2>5. ASSUME entries # <<>>, entries' # <<>> PROVE entries'[1].id >= entries[1].id
    <3>1. Len(entries) > 0 /\ Len(entries') > 0
      BY <2>2, <2>5, EmptySeq
    <3>2. /\ entries[1].id = last_id - Len(entries) + 1
          /\ entries'[1].id = last_id' - Len(entries') + 1
      BY <1>1, <2>1, <2>2, <3>1 DEF MemInv, WindowExact
    <3> QED BY <2>1, <2>2, <3>2 DEF Moved
  <2> QED BY <2>1, <2>4, <2>5 DEF Moved
<1>2. MemInv /\ [MemNext]_memVars => [A]_memVars
  BY <1>1
<1> QED BY <1>2, MemInvariant, PTL DEF MemSpec, Monotone
=============================================================================
