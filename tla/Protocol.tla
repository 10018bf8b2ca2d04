------------------------------ MODULE Protocol ------------------------------
(***************************************************************************)
(* What a NormFS server promises to do with the requests of a connection:  *)
(* it performs a write at most once and then answers it, and it answers a  *)
(* read with a start, entries and at most one end.  The clients' side      *)
(* (GoClient) is checked against this promise, and the handlers of the     *)
(* server (ServerConnection) are shown to keep it.                         *)
(*                                                                         *)
(* Requests carry the connection they were sent on: the server may still   *)
(* perform a write of a connection that the client has given up.           *)
(***************************************************************************)
EXTENDS Naturals, Sequences, FiniteSets

CONSTANTS
  Writes,          \* the ids of write requests
  Reads,           \* the ids of read requests
  MaxEntries       \* bound: entries the server has for a read

ASSUME RequestsAssumption == Writes \cap Reads = {} /\ MaxEntries \in Nat

VARIABLES
  asked,           \* <<request, connection>>: requests the server has accepted
  acted,           \* the writes among them that it has performed
  line             \* line[e]: the responses on the e-th connection, in order

protocolVars == <<asked, acted, line>>

Requests == Writes \cup Reads

\* The number of the connection that is used now.
epoch == Len(line)

ProtocolInit == asked = {} /\ acted = {} /\ line = << <<>> >>

-----------------------------------------------------------------------------
\* Where the responses to q are on the e-th connection, and the entries among them.
About(q, e) == {i \in DOMAIN line[e] : line[e][i].re = q}

Entries(q, e) == {i \in About(q, e) : line[e][i].what = "entry"}

IsOver(q, e) == \E i \in About(q, e) : line[e][i].what \in {"end", "failed"}

\* A response names its request, and an entry its place in the stream.
Say(q, what, n) ==
  line' = [line EXCEPT ![epoch] = Append(@, [re |-> q, what |-> what, n |-> n])]

\* The client's request arrives.
Ask(q) ==
  /\ asked' = asked \cup {<<q, epoch>>}
  /\ UNCHANGED <<acted, line>>

\* The entries of a write are in the queue.
Perform(w, e) ==
  /\ <<w, e>> \in asked \ acted
  /\ acted' = acted \cup {<<w, e>>}
  /\ UNCHANGED <<asked, line>>

Answered(q) == About(q, epoch) # {}

AnswerDone(w) ==
  /\ <<w, epoch>> \in acted
  /\ ~Answered(w)
  /\ Say(w, "done", 0)
  /\ UNCHANGED <<asked, acted>>

\* A write that is refused is not performed later.
AnswerError(w) ==
  /\ <<w, epoch>> \in asked \ acted
  /\ ~Answered(w)
  /\ Say(w, "error", 0)
  /\ asked' = asked \ {<<w, epoch>>}
  /\ UNCHANGED acted

\* A read that is refused, or that fails, gets "failed" in place of the rest.
Stream(r) ==
  LET n == Cardinality(Entries(r, epoch)) IN
  /\ <<r, epoch>> \in asked
  /\ ~IsOver(r, epoch)
  /\ \/ ~Answered(r) /\ \E what \in {"start", "failed"} : Say(r, what, 0)
     \/ Answered(r) /\ n < MaxEntries /\ Say(r, "entry", n + 1)
     \/ Answered(r) /\ \E what \in {"end", "failed"} : Say(r, what, 0)
  /\ UNCHANGED <<asked, acted>>

Serve ==
  \/ \E w \in Writes :
       AnswerDone(w) \/ AnswerError(w) \/ \E e \in 1..epoch : Perform(w, e)
  \/ \E r \in Reads : Stream(r)

\* The client has given the connection up and makes another one.
Reconnect ==
  /\ line' = Append(line, <<>>)
  /\ UNCHANGED <<asked, acted>>

ProtocolNext == Serve \/ Reconnect \/ \E q \in Requests : Ask(q)

ProtocolSpec == ProtocolInit /\ [][ProtocolNext]_protocolVars
=============================================================================
