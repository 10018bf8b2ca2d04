----------------------------- MODULE MemFollow ------------------------------
(***************************************************************************)
(* Following a queue from memory (normfs/src/mem/mod.rs): follow_full and  *)
(* follow_full_negative send what the window holds and then register a     *)
(* callback; enqueue calls the registered callbacks after it has released  *)
(* the lock of the window.  The window itself is MemQueue.                 *)
(*                                                                         *)
(* Three locks interleave: "inner" around each operation on the window,    *)
(* "subscribers" around each use of the map of callbacks, and the channel  *)
(* of each follower, of which the receiver takes entries at any time.      *)
(***************************************************************************)
EXTENDS MemQueue, SequencesExt

CONSTANTS
  Writers,          \* threads that enqueue
  Followers,        \* reads without a limit
  Asks,             \* what they may ask for: [kind, at, step]
  ChanCap           \* capacity of a follower's channel

ASSUME FollowAssumption ==
  /\ Asks \subseteq [kind : {"from", "tail"}, at : Nat, step : Nat \ {0}]
  /\ ChanCap \in Nat \ {0}

VARIABLES
  note,             \* note[w]: the ids w has pushed and must tell subscribers of
  to_remove,        \* to_remove[w]: callbacks that failed, not yet unsubscribed
  subscribers,      \* the followers whose callback is in the map
  ask,              \* ask[f]: what f asks for
  phase,            \* where f's follow call is
  from,             \* from[f]: from_id of its callback
  skip,             \* skip[f]: last_sent_id of its callback
  outbox,           \* entries_to_send
  sent,             \* what entered f's channel, in order
  taken,            \* how many of them the receiver has taken
  gone,             \* the receiver was dropped
  seen,             \* history: last_id when f looked at the window
  joined            \* history: last_id when f's callback was registered

writerVars == <<note, to_remove>>
followVars == <<ask, phase, from, skip, outbox, seen, joined>>
chanVars   == <<sent, taken, gone>>
vars == <<memVars, writerVars, subscribers, followVars, chanVars>>

Free(f) == ChanCap - (Len(sent[f]) - taken[f])

-----------------------------------------------------------------------------
(* Writers                                                                  *)

\* enqueue and enqueue_batch up to the release of "inner".  Whether there is
\* anybody to notify is decided under that lock.
Enqueue(w) ==
  /\ note[w] = <<>> /\ to_remove[w] = {}
  /\ \/ \E len \in DataLens : enqueue(len)
     \/ \E n \in 1..MaxBatch : \E lens \in [1..n -> DataLens] : enqueue_batch(lens)
  /\ note' = IF subscribers = {} THEN note
             ELSE [note EXCEPT ![w] = [i \in 1..last_id' - last_id |-> last_id + i]]
  /\ UNCHANGED <<to_remove, subscribers, followVars, chanVars>>

\* Mutant of Wanted: last_sent_id is not looked at.
Wanted_NoSkip(f, ids) == SelectSeq(ids, LAMBDA id : in_step(id, from[f], ask[f].step))

\* What f's callback sends of the entries "ids": all that are in step and newer
\* than what was sent before.
Wanted(f, ids) ==
  SelectSeq(ids, LAMBDA id : id > skip[f] /\ in_step(id, from[f], ask[f].step))

\* try_send fails on a full channel and on one without a receiver; the callback
\* returns at the first failure.
Accepted(f, ids) ==
  LET want == Wanted(f, ids)
  IN  IF gone[f] THEN <<>> ELSE SubSeq(want, 1, IF Len(want) < Free(f) THEN Len(want) ELSE Free(f))

\* Mutant of Failed: the result of try_send is ignored.
Failed_Never(f, ids) == FALSE

Failed(f, ids) == Len(Accepted(f, ids)) < Len(Wanted(f, ids))

\* notify_subscribers, up to the release of "subscribers".
Notify(w) ==
  /\ note[w] # <<>>
  /\ sent' = [f \in Followers |->
                IF f \in subscribers THEN sent[f] \o Accepted(f, note[w]) ELSE sent[f]]
  /\ to_remove' = [to_remove EXCEPT ![w] = {f \in subscribers : Failed(f, note[w])}]
  /\ note' = [note EXCEPT ![w] = <<>>]
  /\ UNCHANGED <<memVars, subscribers, followVars, taken, gone>>

\* The rest of it: one lock per callback that failed.
unsubscribe(w, f) ==
  /\ f \in to_remove[w]
  /\ to_remove' = [to_remove EXCEPT ![w] = @ \ {f}]
  /\ subscribers' = subscribers \ {f}
  /\ UNCHANGED <<memVars, note, followVars, chanVars>>

\* MemStore::ack, from the write-ahead log.
Ack ==
  /\ \E id \in recovered + 1..last_id : ack(id)
  /\ UNCHANGED <<writerVars, subscribers, followVars, chanVars>>

-----------------------------------------------------------------------------
(* Followers                                                                *)

\* follow_full and follow_full_negative return without a subscription: the
\* reader goes on to look for files.
ToFiles(f) ==
  /\ phase' = [phase EXCEPT ![f] = "files"]
  /\ UNCHANGED <<from, skip, outbox>>

\* They have read the window under "inner".
Collected(f, start, last_sent, ids) ==
  /\ phase' = [phase EXCEPT ![f] = "send"]
  /\ from' = [from EXCEPT ![f] = start]
  /\ skip' = [skip EXCEPT ![f] = last_sent]
  /\ outbox' = [outbox EXCEPT ![f] = SetToSortSeq(ids, <)]

LastOf(ids) == IF ids = {} THEN None ELSE Max(ids)

\* follow_full: an empty window is not told apart from an empty queue.
follow_full(f, start, step) ==
  LET ids == IF first_id = None THEN {} ELSE Collect(start, step)
  IN  IF first_id # None /\ start < first_id THEN ToFiles(f)
      ELSE Collected(f, start, LastOf(ids), ids)

follow_full_negative(f, offset, step) ==
  LET start == BackFrom(last_id, offset)
      ids   == Collect(start, step)
  IN  IF offset = 0 THEN Collected(f, increment(last_id), last_id, {})
      ELSE IF first_id = None \/ start < first_id THEN ToFiles(f)
      ELSE Collected(f, start, LastOf(ids), ids)

Look(f) ==
  /\ phase[f] = "ask"
  /\ IF ask[f].kind = "from" THEN follow_full(f, ask[f].at, ask[f].step)
     ELSE follow_full_negative(f, ask[f].at, ask[f].step)
  /\ seen' = [seen EXCEPT ![f] = last_id]
  /\ UNCHANGED <<memVars, writerVars, subscribers, ask, joined, chanVars>>

\* send().await waits for room and fails without a receiver.
SendOne(f) ==
  /\ phase[f] = "send" /\ outbox[f] # <<>>
  /\ IF gone[f]
     THEN ToFiles(f) /\ UNCHANGED sent
     ELSE /\ Free(f) > 0
          /\ sent' = [sent EXCEPT ![f] = Append(@, Head(outbox[f]))]
          /\ outbox' = [outbox EXCEPT ![f] = Tail(@)]
          /\ UNCHANGED <<phase, from, skip>>
  /\ UNCHANGED <<memVars, writerVars, subscribers, ask, seen, joined, taken, gone>>

\* The callback enters the map of subscribers.
Register(f) ==
  /\ phase[f] = "send" /\ outbox[f] = <<>>
  /\ phase' = [phase EXCEPT ![f] = "subscribed"]
  /\ subscribers' = subscribers \cup {f}
  /\ joined' = [joined EXCEPT ![f] = last_id]
  /\ UNCHANGED <<memVars, writerVars, ask, from, skip, outbox, seen, chanVars>>

\* The receiver's side of the channel.
Take(f) ==
  /\ taken[f] < Len(sent[f]) /\ ~gone[f]
  /\ taken' = [taken EXCEPT ![f] = @ + 1]
  /\ UNCHANGED <<memVars, writerVars, subscribers, followVars, sent, gone>>

Disconnect(f) ==
  /\ ~gone[f]
  /\ gone' = [gone EXCEPT ![f] = TRUE]
  /\ UNCHANGED <<memVars, writerVars, subscribers, followVars, sent, taken>>

-----------------------------------------------------------------------------
Init ==
  /\ MemInit
  /\ note = [w \in Writers |-> <<>>]
  /\ to_remove = [w \in Writers |-> {}]
  /\ subscribers = {}
  /\ ask \in [Followers -> Asks]
  /\ phase = [f \in Followers |-> "ask"]
  /\ from = [f \in Followers |-> 0]
  /\ skip = [f \in Followers |-> None]
  /\ outbox = [f \in Followers |-> <<>>]
  /\ sent = [f \in Followers |-> <<>>]
  /\ taken = [f \in Followers |-> 0]
  /\ gone = [f \in Followers |-> FALSE]
  /\ seen = [f \in Followers |-> None]
  /\ joined = [f \in Followers |-> None]

WriterStep(w) == Notify(w) \/ \E f \in Followers : unsubscribe(w, f)

FollowerStep(f) == Look(f) \/ SendOne(f) \/ Register(f)

Next ==
  \/ Ack
  \/ \E w \in Writers : Enqueue(w) \/ WriterStep(w)
  \/ \E f \in Followers : FollowerStep(f) \/ Take(f) \/ Disconnect(f)

\* A thread that has pushed goes on to notify, and a receiver that is not
\* dropped keeps taking entries.
Fairness ==
  /\ \A w \in Writers : WF_vars(WriterStep(w))
  /\ \A f \in Followers : WF_vars(FollowerStep(f)) /\ WF_vars(Take(f))

Spec == Init /\ [][Next]_vars

FairSpec == Spec /\ Fairness

-----------------------------------------------------------------------------
\* No entry reaches a follower twice, although an entry that the snapshot holds
\* may still be in the hands of the writer that is about to notify: the
\* callback's last_sent_id drops it.  And "offset 0 means just subscribe from
\* now on": a follower of the tail gets no entry that was there when it asked.
NothingRepeated ==
  \A f \in Followers :
    /\ IsInjective(sent[f])
    /\ ask[f].kind = "tail" /\ ask[f].at = 0 =>
         \A i \in 1..Len(sent[f]) : sent[f][i] > seen[f]

\* The new entries that a callback registered in time is for.
Due(f) == {id \in joined[f] + 1..last_id : id > skip[f] /\ in_step(id, from[f], ask[f].step)}

BeingNotified == UNION {ToSet(note[w]) : w \in Writers}

\* A callback that is in the map and has not failed has been given every entry
\* pushed since it got there, except those a writer is still about to notify:
\* the test for subscribers under "inner" loses none.
CompleteWhileSubscribed ==
  \A f \in subscribers :
    (\A w \in Writers : f \notin to_remove[w]) =>
      Due(f) \subseteq ToSet(sent[f]) \cup BeingNotified

\* Every entry a registered callback is for reaches its receiver, unless the
\* callback has been dropped or the receiver has gone.
DueIsTaken ==
  \A f \in Followers : \A id \in 0..MaxId :
    f \in subscribers /\ id \in Due(f) ~>
      \/ \E i \in 1..taken[f] : sent[f][i] = id
      \/ f \notin subscribers
      \/ gone[f]
=============================================================================
