--------------------------- MODULE GoClientProofs ---------------------------
(***************************************************************************)
(* What Enqueue of the Go client returns is true, and what a consumer of a *)
(* read receives is the stream without a hole, for any number of calls,    *)
(* connections and failures: OutcomeIsTrue and StreamIsWhole of GoClient.  *)
(***************************************************************************)
EXTENDS GoClient, FiniteSetTheorems, TLAPS

\* The leaves are first-order reasoning; those about numbers, sequences or
\* records name SMT.
USE Zenon DEF protocolVars, connVars, loopVars, queueVars, callVars, To, Holds, At, Returns

Response == [re : Calls, what : {"done", "error", "start", "entry", "end", "failed"}, n : Nat]

TypeOK ==
  /\ line \in Seq(Seq(Response)) /\ epoch \in Nat \ {0}
  /\ asked \subseteq Calls \X (1..epoch) /\ acted \subseteq asked
  /\ c2s \in Seq(Calls) /\ got \in Nat
  /\ loop["write"] = "send" => msg["write"] \in Calls
  /\ call = [k \in Calls |-> call[k]] /\ result = [k \in Calls |-> result[k]]

-----------------------------------------------------------------------------
(* Where a request is                                                       *)

Unsent(k)    == call[k] \in {"idle", "register", "ask"}
Queued(k)    == \E i \in 1..Len(c2s) : c2s[i] = k
InHand(k)    == loop["write"] = "send" /\ msg["write"] = k
Asked(k)     == \E p \in asked : p[1] = k
Performed(k) == \E p \in acted : p[1] = k
Absent(k)    == ~Queued(k) /\ ~InHand(k) /\ ~Asked(k)

\* The server has not got the request of k and never will.
Never(k) == Absent(k) /\ ~Unsent(k)

\* A request is in one place at most, and in none before the call has put it into c2s.
QueuedOnce(k) == \A i, j \in 1..Len(c2s) : c2s[i] = k /\ c2s[j] = k => i = j
AskedOnce(k)  == \A p, q \in asked : p[1] = k /\ q[1] = k => p = q

Once(k) ==
  /\ Unsent(k) => Absent(k)
  /\ Queued(k) => ~InHand(k) /\ ~Asked(k)
  /\ InHand(k) => ~Asked(k)
  /\ QueuedOnce(k) /\ AskedOnce(k)

RequestsOK == \A k \in Calls : Once(k)

\* What cannot be undone.
Settled ==
  \A k \in Calls : /\ Performed(k) => Performed(k)'
                   /\ Never(k) => Never(k)'

-----------------------------------------------------------------------------
(* Where a response is                                                      *)

\* All that the server has ever said.
Said == UNION {{line[e][i] : i \in DOMAIN line[e]} : e \in DOMAIN line}

\* The client has nothing that the server has not said.
LoopsOK(at, has) ==
  /\ at = [l \in Loops |-> at[l]] /\ has = [l \in Loops |-> has[l]]
  /\ at["read"] = "push" => has["read"] \in Said
  /\ at["process"] = "dispatch" => has["process"] \in Said

ChanOK(c) ==
  /\ c = [k \in Calls |-> c[k]]
  /\ \A k \in Calls : c[k] \in Seq({m \in Said : m.re = k} \cup {nil})

ResponsesOK == s2c \in Seq(Said) /\ LoopsOK(loop, msg) /\ ChanOK(chan)

\* What the server says of a write is true, and stays so.
IsTrue(m) ==
  m.re \in Writes => \/ m.what = "done" /\ Performed(m.re)
                     \/ m.what = "error" /\ Never(m.re)

SaidOK == \A m \in Said : IsTrue(m)

ResultsOK ==
  \A w \in Writes :
    \/ result[w] \in {"none", "connection closed"}
    \/ result[w] \in {"not connected", "full"} /\ Never(w)
    \/ \E m \in Said : m.re = w /\ m.what = result[w]

Inv == TypeOK /\ RequestsOK /\ ResponsesOK /\ SaidOK /\ ResultsOK

-----------------------------------------------------------------------------
(* Steps that move no request                                               *)

\* Nothing is asked twice if no request gets to a new place.
LEMMA RequestsKept ==
  ASSUME RequestsOK, UNCHANGED <<c2s, asked>>, acted \subseteq acted',
         \A k \in Calls : InHand(k)' => InHand(k),
         \A k \in Calls : Unsent(k)' => Unsent(k)
  PROVE  RequestsOK' /\ Settled
<1>1. ASSUME NEW k \in Calls PROVE Once(k)' /\ (Never(k) => Never(k)')
  <2>1. Once(k) /\ (InHand(k)' => InHand(k)) /\ (Unsent(k)' => Unsent(k))
    BY DEF RequestsOK
  <2>2. (Queued(k)' <=> Queued(k)) /\ (Asked(k)' <=> Asked(k))
    BY DEF Queued, Asked
  <2>3. QueuedOnce(k)' /\ AskedOnce(k)'
    BY <2>1 DEF Once, QueuedOnce, AskedOnce
  <2>4. Absent(k) => Absent(k)'
    BY <2>1, <2>2 DEF Absent
  <2>5. Once(k)'
    BY <2>1, <2>2, <2>3, <2>4 DEF Once
  <2> QED BY <2>1, <2>4, <2>5 DEF Never
<1>2. \A k \in Calls : Performed(k) => Performed(k)'
  BY DEF Performed
<1> QED BY <1>1, <1>2 DEF RequestsOK, Settled

\* What the write loop holds does not change.
LEMMA HandKept ==
  ASSUME loop'["write"] # "send" \/ (loop'["write"] = loop["write"] /\ msg'["write"] = msg["write"])
  PROVE  \A k \in Calls : InHand(k)' => InHand(k)
BY DEF InHand

\* Where it is said.
LEMMA SaidWhere == \A m : m \in Said <=> \E e \in DOMAIN line : \E i \in DOMAIN line[e] : m = line[e][i]
BY SMT DEF Said

\* What the server says is a response.
LEMMA SaidType == TypeOK => Said \subseteq Response
<1> SUFFICES ASSUME TypeOK PROVE Said \subseteq Response
  OBVIOUS
<1>1. \A e \in DOMAIN line : line[e] \in Seq(Response)
  BY SMT DEF TypeOK
<1>2. \A e \in DOMAIN line : \A i \in DOMAIN line[e] : line[e][i] \in Response
  BY SMT, <1>1
<1>3. ASSUME NEW m \in Said PROVE m \in Response
  <2>1. PICK e \in DOMAIN line : \E i \in DOMAIN line[e] : m = line[e][i]
    BY SaidWhere
  <2> QED BY <1>2, <2>1
<1> QED BY <1>3

\* What the server has said remains.
LEMMA SaidKept ==
  ASSUME TypeOK, Settled, SaidOK, line' = line
  PROVE  Said' = Said /\ SaidOK'
<1>1. Said' = Said
  BY SMT DEF Said
<1>2. Said \subseteq Response
  BY SaidType
<1>3. ASSUME NEW m \in Said PROVE IsTrue(m)'
  <2>1. m.re \in Calls /\ IsTrue(m)
    BY <1>2 DEF Response, SaidOK
  <2> QED BY <2>1 DEF IsTrue, Settled
<1> QED BY <1>1, <1>3 DEF SaidOK

\* A result remains true.
LEMMA ResultsKept ==
  ASSUME Settled, ResultsOK, Said \subseteq Said', UNCHANGED result
  PROVE  ResultsOK'
BY DEF ResultsOK, Settled, Calls

\* A call gets a result that is true, and the others keep theirs.
LEMMA ResultGiven ==
  ASSUME Settled, ResultsOK, Said \subseteq Said', NEW k \in Calls, NEW x, TypeOK,
         result' = [result EXCEPT ![k] = x],
         k \in Writes => \/ x \in {"none", "connection closed"}
                         \/ x \in {"not connected", "full"} /\ Never(k)'
                         \/ \E m \in Said' : m.re = k /\ m.what = x
  PROVE  ResultsOK'
<1>1. result'[k] = x /\ \A w \in Calls \ {k} : result'[w] = result[w]
  BY DEF TypeOK
<1>2. ASSUME NEW w \in Writes, w # k
      PROVE  \/ result'[w] \in {"none", "connection closed"}
             \/ result'[w] \in {"not connected", "full"} /\ Never(w)'
             \/ \E m \in Said' : m.re = w /\ m.what = result'[w]
  <2>1. result'[w] = result[w] /\ (Never(w) => Never(w)')
    BY <1>1, <1>2 DEF Settled, Calls
  <2> QED BY <2>1 DEF ResultsOK
<1> QED BY <1>1, <1>2 DEF ResultsOK

\* A step that neither moves a request nor says or returns anything.
LEMMA Quiet ==
  ASSUME Inv, UNCHANGED <<asked, line, c2s, result>>, acted \subseteq acted', acted' \subseteq asked,
         got' \in Nat, s2c' \in Seq(Said), LoopsOK(loop', msg'), ChanOK(chan'),
         loop'["write"] # "send" \/ (loop'["write"] = loop["write"] /\ msg'["write"] = msg["write"]),
         call' = [k \in Calls |-> call'[k]], \A k \in Calls : Unsent(k)' => Unsent(k)
  PROVE  Inv'
<1>1. RequestsOK' /\ Settled
  BY HandKept, RequestsKept DEF Inv
<1>2. Said' = Said /\ SaidOK'
  BY <1>1, SaidKept DEF Inv
<1>3. ResultsOK'
  BY <1>1, <1>2, ResultsKept DEF Inv
<1>4. ResponsesOK'
  BY <1>2 DEF ResponsesOK, LoopsOK, ChanOK
<1>5. TypeOK'
  <2>1. epoch' = epoch
    BY DEF epoch
  <2> QED BY <2>1 DEF Inv, TypeOK
<1> QED BY <1>1, <1>2, <1>3, <1>4, <1>5 DEF Inv

\* A call that is told of the end of its connection.
LEMMA OfferNil ==
  ASSUME NEW S, NEW c \in Seq(S \cup {nil}), NEW cap
  PROVE  Offer(c, cap, nil) \in Seq(S \cup {nil})
BY SMT DEF Offer

\* Some calls are.
LEMMA ToldOK ==
  ASSUME ChanOK(chan), NEW c, c = [k \in Calls |-> c[k]],
         \A k \in Calls : c[k] = chan[k] \/ \E cap : c[k] = Offer(chan[k], cap, nil)
  PROVE  ChanOK(c)
<1>1. ASSUME NEW k \in Calls PROVE c[k] \in Seq({m \in Said : m.re = k} \cup {nil})
  <2>1. chan[k] \in Seq({m \in Said : m.re = k} \cup {nil})
    BY DEF ChanOK
  <2> QED BY <2>1, OfferNil
<1> QED BY <1>1 DEF ChanOK

-----------------------------------------------------------------------------
(* The steps                                                                *)

\* A loop goes to a place in which it has nothing in hand.
LEMMA LoopMoves ==
  ASSUME LoopsOK(loop, msg), NEW l \in Loops, NEW at, at \notin {"send", "push", "dispatch"},
         loop' = [loop EXCEPT ![l] = at], \/ msg' = msg \/ \E m : msg' = [msg EXCEPT ![l] = m]
  PROVE  /\ LoopsOK(loop', msg')
         /\ loop'["write"] # "send" \/ (loop'["write"] = loop["write"] /\ msg'["write"] = msg["write"])
<1>1. "read" \in Loops /\ "process" \in Loops /\ "write" \in Loops
  BY DEF Loops
<1>2. /\ loop' = [k \in Loops |-> loop'[k]] /\ loop'[l] = at /\ msg' = [k \in Loops |-> msg'[k]]
      /\ \A k \in Loops \ {l} : loop'[k] = loop[k] /\ msg'[k] = msg[k]
  BY DEF LoopsOK
<1> QED BY <1>1, <1>2 DEF LoopsOK

\* The facts that most steps need.
LEMMA InvFacts ==
  ASSUME Inv
  PROVE  /\ acted \subseteq asked /\ got \in Nat /\ call = [k \in Calls |-> call[k]]
         /\ s2c \in Seq(Said) /\ LoopsOK(loop, msg) /\ ChanOK(chan)
BY DEF Inv, TypeOK, ResponsesOK

\* handleReadWriteError, Stopped and Begin.
LEMMA LoopStops ==
  ASSUME Inv, NEW l \in Loops, HandleError(l) \/ Stopped(l) \/ Begin(l)
  PROVE  Inv'
<1>1. /\ UNCHANGED <<asked, acted, line, c2s, s2c, result, got, call>>
      /\ \E at : at \notin {"send", "push", "dispatch"} /\ loop' = [loop EXCEPT ![l] = at]
      /\ msg' = msg \/ \E m : msg' = [msg EXCEPT ![l] = m]
  <2>1. CASE HandleError(l)
    BY <2>1 DEF HandleError, CloseConnection, TryClose, CloseStop, failPendingWrites, failPendingReads
  <2>2. CASE Stopped(l)
    BY <2>2 DEF Stopped
  <2>3. CASE Begin(l)
    BY <2>3 DEF Begin
  <2> QED BY <2>1, <2>2, <2>3
<1>2. \/ chan' = chan
      \/ \E pending, cap : FailPending(pending, cap)
  BY DEF HandleError, CloseConnection, TryClose, CloseStop, failPendingWrites, failPendingReads, Stopped,
     Begin
<1>3. ChanOK(chan')
  <2>1. CASE chan' = chan
    BY <2>1, InvFacts
  <2>2. CASE \E pending, cap : FailPending(pending, cap)
    BY <2>2, InvFacts, ToldOK DEF FailPending
  <2> QED BY <1>2, <2>1, <2>2
<1>4. /\ LoopsOK(loop', msg')
      /\ loop'["write"] # "send" \/ (loop'["write"] = loop["write"] /\ msg'["write"] = msg["write"])
  BY <1>1, InvFacts, LoopMoves
<1>5. \A k \in Calls : Unsent(k)' => Unsent(k)
  BY <1>1 DEF Unsent
<1> QED BY <1>1, <1>3, <1>4, <1>5, InvFacts, Quiet

\* What the manager does on a connection, and the failures of connections.
LEMMA ManagerKeeps ==
  ASSUME Inv, \/ SetUp \/ SetUpFails \/ StartLoops \/ LoopsEnded \/ Break \/ closeConnectionInternal
              \/ \E r \in Reads : Consume(r)
              \/ UNCHANGED vars
  PROVE  Inv'
<1>1. /\ UNCHANGED <<asked, acted, line, c2s, s2c, result, got, call, msg>>
      /\ loop' = loop \/ loop' = [l \in Loops |-> IF l \in {"read", "write"} THEN "begin" ELSE "run"]
  BY DEF SetUp, SetUpFails, StartLoops, LoopsEnded, Break, closeConnectionInternal, Consume, vars
<1>2. ChanOK(chan')
  <2>1. CASE SetUpFails
    <3>1. /\ chan' = [k \in Calls |-> chan'[k]]
          /\ \A k \in Calls : chan'[k] = chan[k] \/ \E cap : chan'[k] = Offer(chan[k], cap, nil)
      <4>1. chan' = [k \in Calls |-> chan'[k]]
        BY SMT, <2>1 DEF SetUpFails
      <4>2. ASSUME NEW k \in Calls
            PROVE  \/ chan'[k] = chan[k] \/ chan'[k] = Offer(chan[k], 1, nil)
                   \/ chan'[k] = Offer(chan[k], ReadCap, nil)
        BY SMT, <2>1 DEF SetUpFails
      <4> QED BY <4>1, <4>2
    <3> QED BY <3>1, InvFacts, ToldOK
  <2>2. CASE ~SetUpFails
    <3>1. chan' = chan
      BY <2>2 DEF SetUp, StartLoops, LoopsEnded, Break, closeConnectionInternal, Consume, vars
    <3> QED BY <3>1, InvFacts
  <2> QED BY <2>1, <2>2
<1>3. /\ LoopsOK(loop', msg')
      /\ loop'["write"] # "send" \/ (loop'["write"] = loop["write"] /\ msg'["write"] = msg["write"])
  BY <1>1, InvFacts DEF LoopsOK, Loops
<1>4. \A k \in Calls : Unsent(k)' => Unsent(k)
  BY <1>1 DEF Unsent
<1> QED BY <1>1, <1>2, <1>3, <1>4, InvFacts, Quiet

\* Seq(S) grows with S.
LEMMA SeqOfMore == \A S, T : S \subseteq T => Seq(S) \subseteq Seq(T)
BY SMT

\* The loops that carry responses.
LEMMA ResponseMoves ==
  ASSUME Inv, ReadMessage \/ PushMessage \/ TakeResponse \/ Dispatch
  PROVE  Inv'
<1>0. /\ UNCHANGED <<asked, acted, line, c2s, result, call>> /\ \A k \in Calls : Unsent(k)' => Unsent(k)
  BY DEF ReadMessage, PushMessage, TakeResponse, Dispatch, Unsent
<1>1. "read" \in Loops /\ "process" \in Loops /\ "write" \in Loops
  BY DEF Loops
<1>2. CASE ReadMessage
  <2>1. UNCHANGED <<s2c, chan>>
    BY <1>2 DEF ReadMessage
  <2>2. CASE /\ got < Len(line[epoch]) /\ got' = got + 1
             /\ msg' = [msg EXCEPT !["read"] = line[epoch][got + 1]]
             /\ loop' = [loop EXCEPT !["read"] = "push"]
    <3>1. epoch \in DOMAIN line /\ got + 1 \in DOMAIN line[epoch] /\ got' \in Nat
      <4>1. line \in Seq(Seq(Response)) /\ epoch \in Nat \ {0} /\ got \in Nat
        BY DEF Inv, TypeOK
      <4>2. epoch \in DOMAIN line /\ line[epoch] \in Seq(Response)
        BY SMT, <4>1 DEF epoch
      <4> QED BY SMT, <2>2, <4>1, <4>2
    <3>2. line[epoch][got + 1] \in Said
      BY <3>1, SaidWhere
    <3>3. LoopsOK(loop', msg') /\ loop'["write"] = loop["write"] /\ msg'["write"] = msg["write"]
      BY <1>1, <2>2, <3>2, InvFacts DEF LoopsOK
    <3> QED BY <1>0, <2>1, <3>1, <3>3, InvFacts, Quiet
  <2>3. CASE loop' = [loop EXCEPT !["read"] = "error"] /\ UNCHANGED <<got, msg>>
    <3>1. /\ LoopsOK(loop', msg')
          /\ loop'["write"] # "send" \/ (loop'["write"] = loop["write"] /\ msg'["write"] = msg["write"])
      BY <1>1, <2>3, InvFacts, LoopMoves
    <3> QED BY <1>0, <2>1, <2>3, <3>1, InvFacts, Quiet
  <2> QED BY <1>2, <2>2, <2>3 DEF ReadMessage
<1>3. CASE PushMessage
  <2>1. /\ UNCHANGED <<got, chan>> /\ s2c' = Append(s2c, msg["read"]) /\ loop["read"] = "push"
        /\ loop' = [loop EXCEPT !["read"] = "run"] /\ msg' = [msg EXCEPT !["read"] = NoMsg]
    BY <1>3 DEF PushMessage
  <2>2. msg["read"] \in Said
    BY <2>1, InvFacts DEF LoopsOK
  <2>3. s2c' \in Seq(Said)
    <3>1. s2c \in Seq(Said)
      BY InvFacts
    <3> QED BY SMT, <2>1, <2>2, <3>1
  <2>4. /\ LoopsOK(loop', msg')
        /\ loop'["write"] # "send" \/ (loop'["write"] = loop["write"] /\ msg'["write"] = msg["write"])
    BY <1>1, <2>1, InvFacts, LoopMoves
  <2> QED BY <1>0, <2>1, <2>3, <2>4, InvFacts, Quiet
<1>4. CASE TakeResponse
  <2>1. /\ UNCHANGED <<got, chan>> /\ s2c # <<>> /\ s2c' = Tail(s2c)
    BY <1>4 DEF TakeResponse
  <2>2. s2c' \in Seq(Said) /\ Head(s2c) \in Said
    <3>1. s2c \in Seq(Said)
      BY InvFacts
    <3> QED BY SMT, <2>1, <3>1
  <2>3. \/ UNCHANGED <<msg, loop>>
        \/ /\ msg' = [msg EXCEPT !["process"] = Head(s2c)]
           /\ loop' = [loop EXCEPT !["process"] = "dispatch"]
    BY <1>4 DEF TakeResponse
  <2>4. LoopsOK(loop', msg') /\ loop'["write"] = loop["write"] /\ msg'["write"] = msg["write"]
    BY <1>1, <2>2, <2>3, InvFacts DEF LoopsOK
  <2> QED BY <1>0, <2>1, <2>2, <2>4, InvFacts, Quiet
<1>5. CASE Dispatch
  <2> DEFINE m == msg["process"]
             k == m.re
  <2>1. /\ UNCHANGED <<got, s2c>> /\ loop["process"] = "dispatch"
        /\ loop' = [loop EXCEPT !["process"] = "run"] /\ msg' = [msg EXCEPT !["process"] = NoMsg]
        /\ chan' = chan \/ \E cap : chan' = [chan EXCEPT ![k] = Offer(@, cap, m)]
    BY <1>5 DEF Dispatch
  <2>2. m \in Said
    BY <2>1, InvFacts DEF LoopsOK
  <2> HIDE DEF m
  <2>3. ChanOK(chan')
    <3>1. CASE chan' = chan
      BY <3>1, InvFacts
    <3>2. ASSUME NEW cap, chan' = [chan EXCEPT ![k] = Offer(@, cap, m)] PROVE ChanOK(chan')
      <4>1. chan' = [j \in Calls |-> chan'[j]] /\ \A j \in Calls \ {k} : chan'[j] = chan[j]
        BY <3>2, InvFacts DEF ChanOK
      <4>2. ASSUME k \in Calls PROVE chan'[k] \in Seq({x \in Said : x.re = k} \cup {nil})
        <5>1. chan[k] \in Seq({x \in Said : x.re = k} \cup {nil}) /\ m \in {x \in Said : x.re = k} \cup {nil}
          BY <2>2, <4>2, InvFacts DEF ChanOK
        <5>2. chan'[k] = Offer(chan[k], cap, m)
          BY <3>2, <4>2, InvFacts DEF ChanOK
        <5>3. Offer(chan[k], cap, m) \in Seq({x \in Said : x.re = k} \cup {nil})
          <6> DEFINE S == {x \in Said : x.re = k} \cup {nil}
          <6>1. chan[k] \in Seq(S) /\ m \in S
            BY <5>1
          <6> HIDE DEF S, k
          <6>2. Append(chan[k], m) \in Seq(S)
            BY SMT, <6>1
          <6>3. Offer(chan[k], cap, m) \in Seq(S)
            BY <6>1, <6>2 DEF Offer
          <6> QED BY <6>3 DEF S, k
        <5> QED BY <5>2, <5>3
      <4> QED BY <4>1, <4>2, InvFacts DEF ChanOK
    <3> QED BY <2>1, <3>1, <3>2
  <2>4. /\ LoopsOK(loop', msg')
        /\ loop'["write"] # "send" \/ (loop'["write"] = loop["write"] /\ msg'["write"] = msg["write"])
    BY <1>1, <2>1, InvFacts, LoopMoves
  <2> QED BY <1>0, <2>1, <2>3, <2>4, InvFacts, Quiet
<1> QED BY <1>2, <1>3, <1>4, <1>5

\* A step that moves a request, or says or returns something.
LEMMA Otherwise ==
  ASSUME Inv, TypeOK', RequestsOK', SaidOK', ResultsOK', Said \subseteq Said',
         s2c' = s2c, loop' = [l \in Loops |-> loop'[l]], msg' = [l \in Loops |-> msg'[l]],
         \A l \in {"read", "process"} : loop'[l] = loop[l] /\ msg'[l] = msg[l], ChanOK(chan')
  PROVE  Inv'
<1>1. s2c' \in Seq(Said')
  BY InvFacts, SeqOfMore
<1>2. ASSUME NEW k \in Calls PROVE chan'[k] \in Seq({m \in Said' : m.re = k} \cup {nil})
  <2>1. {m \in Said : m.re = k} \cup {nil} \subseteq {m \in Said' : m.re = k} \cup {nil}
    OBVIOUS
  <2> QED BY <2>1, SeqOfMore DEF ChanOK
<1>3. ChanOK(chan)'
  BY <1>2 DEF ChanOK
<1>4. LoopsOK(loop, msg)'
  BY InvFacts DEF LoopsOK
<1> QED BY <1>1, <1>3, <1>4 DEF Inv, ResponsesOK

\* The check of a call, and the steps of a call that leave c2s alone.
LEMMA CallMoves ==
  ASSUME Inv, NEW k \in Calls, Check(k) \/ Register(k) \/ Leave(k) \/ CloseChannel(k) \/ Receive(k)
  PROVE  Inv'
<1>0. UNCHANGED <<asked, acted, line, c2s, s2c, got, msg, loop>>
  BY DEF Check, Register, Leave, CloseChannel, Receive
<1>1. /\ call' = call \/ \E at : call' = [call EXCEPT ![k] = at]
      /\ call' = call \/ Unsent(k) \/ \E at : /\ at \notin {"idle", "register", "ask"}
                                              /\ call' = [call EXCEPT ![k] = at]
  <2>1. CASE Check(k) \/ Register(k) \/ Leave(k) \/ CloseChannel(k)
    BY <2>1 DEF Check, Register, Leave, CloseChannel, Unsent
  <2>2. CASE Receive(k)
    <3>1. call' = call \/ call' = [call EXCEPT ![k] = "stream"] \/ call' = [call EXCEPT ![k] = "leave"]
      BY SMT, <2>2 DEF Receive
    <3> QED BY <3>1
  <2> QED BY <2>1, <2>2
<1>2. /\ call' = [j \in Calls |-> call'[j]]
      /\ \A j \in Calls : Unsent(j)' => Unsent(j)
  BY <1>1, InvFacts DEF Unsent
<1>3. CASE Register(k) \/ Leave(k) \/ CloseChannel(k)
  <2>1. UNCHANGED <<result, chan>>
    BY <1>3 DEF Register, Leave, CloseChannel
  <2> QED BY <1>0, <1>2, <2>1, InvFacts, Quiet
<1>4. RequestsOK' /\ Settled
  BY <1>0, <1>2, HandKept, RequestsKept DEF Inv
<1>5. Said' = Said /\ SaidOK'
  BY <1>0, <1>4, SaidKept DEF Inv
<1>6. ASSUME result' = [j \in Calls |-> result'[j]] PROVE TypeOK'
  <2>1. epoch' = epoch
    BY <1>0 DEF epoch
  <2> QED BY <1>0, <1>2, <1>6, <2>1 DEF Inv, TypeOK
<1>7. CASE Check(k)
  <2>1. chan' = chan /\ ChanOK(chan')
    BY <1>7, InvFacts DEF Check
  <2>2. CASE UNCHANGED result
    <3>1. ResultsOK'
      BY <1>4, <1>5, <2>2, ResultsKept DEF Inv
    <3>2. TypeOK'
      BY <1>6, <2>2 DEF Inv, TypeOK
    <3> QED BY <1>0, <1>4, <1>5, <2>1, <3>1, <3>2, InvFacts, Otherwise DEF LoopsOK
  <2>3. CASE /\ call[k] = "idle" /\ call' = [call EXCEPT ![k] = "returned"]
             /\ result' = [result EXCEPT ![k] = "not connected"]
    <3>1. Never(k)'
      <4>1. Absent(k)
        BY <2>3 DEF Inv, RequestsOK, Once, Unsent
      <4>2. Absent(k)'
        BY <1>0, <4>1 DEF Absent, Queued, InHand, Asked
      <4>3. call'[k] = "returned"
        BY <2>3, InvFacts
      <4> QED BY <4>2, <4>3 DEF Never, Unsent
    <3>2. ResultsOK'
      BY <1>4, <1>5, <2>3, <3>1, ResultGiven DEF Inv
    <3>3. TypeOK'
      BY <1>6, <2>3 DEF Inv, TypeOK
    <3> QED BY <1>0, <1>4, <1>5, <2>1, <3>2, <3>3, InvFacts, Otherwise DEF LoopsOK
  <2> QED BY <1>7, <2>2, <2>3 DEF Check
<1>8. CASE Receive(k)
  <2> DEFINE S == {m \in Said : m.re = k} \cup {nil}
  <2>1. chan[k] # <<>> /\ chan' = [chan EXCEPT ![k] = Tail(@)]
    BY <1>8 DEF Receive
  <2>2. chan[k] \in Seq(S) /\ chan' = [j \in Calls |-> chan'[j]] /\ chan'[k] = Tail(chan[k])
        /\ \A j \in Calls \ {k} : chan'[j] = chan[j]
    BY <2>1, InvFacts DEF ChanOK
  <2>3. Head(chan[k]) \in S /\ Tail(chan[k]) \in Seq(S)
    <3> HIDE DEF S
    <3> QED BY SMT, <2>1, <2>2
  <2>4. ChanOK(chan')
    BY <2>2, <2>3, InvFacts DEF ChanOK
  <2>5. result' = result \/ result' = [result EXCEPT ![k] = Outcome(Head(chan[k]))]
    BY SMT, <1>8 DEF Receive
  <2>6. \/ Outcome(Head(chan[k])) = "connection closed"
        \/ \E m \in Said' : m.re = k /\ m.what = Outcome(Head(chan[k]))
    BY <1>5, <2>3 DEF Outcome
  <2>7. ResultsOK'
    <3>1. CASE result' = result
      BY <1>4, <1>5, <3>1, ResultsKept DEF Inv
    <3>2. CASE result' = [result EXCEPT ![k] = Outcome(Head(chan[k]))]
      BY <1>4, <1>5, <2>6, <3>2, ResultGiven DEF Inv
    <3> QED BY <2>5, <3>1, <3>2
  <2>8. TypeOK'
    BY <1>6, <2>5 DEF Inv, TypeOK
  <2> QED BY <1>0, <1>4, <1>5, <2>4, <2>7, <2>8, InvFacts, Otherwise DEF LoopsOK
<1> QED BY <1>3, <1>7, <1>8

\* And in one that loses its head.
LEMMA TailFacts ==
  ASSUME NEW S, NEW s \in Seq(S), s # <<>>
  PROVE  /\ Len(s) \in Nat /\ Tail(s) \in Seq(S) /\ Head(s) \in S /\ Head(s) = s[1] /\ 1 \in 1..Len(s)
         /\ Len(Tail(s)) = Len(s) - 1 /\ \A i \in 1..Len(s) - 1 : Tail(s)[i] = s[i + 1]
BY SMT

\* Places of a queue.
LEMMA Places ==
  \A n \in Nat : /\ n + 1 \in 1..n + 1 /\ n + 1 \notin 1..n /\ 1..n \subseteq 1..n + 1
                 /\ \A i \in 1..n + 1 : i \in 1..n \/ i = n + 1
                 /\ \A i \in 1..n - 1 : i + 1 \in 1..n /\ i + 1 # 1
                 /\ \A i, j \in 1..n - 1 : i + 1 = j + 1 => i = j
BY SMT

\* A call puts its request into c2s.
LEMMA RequestQueued ==
  ASSUME RequestsOK, c2s \in Seq(Calls), NEW k \in Calls, Unsent(k), c2s' = Append(c2s, k), ~Unsent(k)',
         \A j \in Calls \ {k} : Unsent(j)' <=> Unsent(j), UNCHANGED <<asked, acted, loop, msg>>
  PROVE  RequestsOK' /\ Settled
<1>1. Absent(k)
  BY DEF RequestsOK, Once
<1>2. /\ Len(c2s) \in Nat /\ Len(c2s') = Len(c2s) + 1 /\ c2s'[Len(c2s) + 1] = k
      /\ \A i \in 1..Len(c2s) : c2s'[i] = c2s[i]
  BY SMT
<1>3. ASSUME NEW j \in Calls PROVE (InHand(j)' <=> InHand(j)) /\ (Asked(j)' <=> Asked(j))
  BY DEF InHand, Asked
<1>4. ASSUME NEW j \in Calls PROVE Queued(j)' <=> Queued(j) \/ j = k
  BY <1>2, Places DEF Queued
<1>5. ASSUME NEW j \in Calls, NEW a \in 1..Len(c2s'), NEW b \in 1..Len(c2s'), c2s'[a] = j, c2s'[b] = j
      PROVE  a = b
  <2>1. CASE j = k
    <3>1. \A i \in 1..Len(c2s) : c2s[i] # k
      BY <1>1 DEF Absent, Queued
    <3>2. a \notin 1..Len(c2s) /\ b \notin 1..Len(c2s)
      BY <1>2, <1>5, <2>1, <3>1
    <3> QED BY <1>2, <3>2, Places
  <2>2. CASE j # k
    <3>1. a \in 1..Len(c2s) /\ b \in 1..Len(c2s)
      BY <1>2, <1>5, <2>2, Places
    <3> QED BY <1>2, <1>5, <3>1 DEF RequestsOK, Once, QueuedOnce
  <2> QED BY <2>1, <2>2
<1>6. ASSUME NEW j \in Calls PROVE Once(j)'
  <2>1. Once(j) /\ AskedOnce(j)' /\ QueuedOnce(j)'
    BY <1>5 DEF RequestsOK, Once, AskedOnce, QueuedOnce
  <2>2. CASE j = k
    BY <1>1, <1>3, <2>1, <2>2 DEF Once, Absent
  <2>3. CASE j # k
    BY <1>3, <1>4, <2>1, <2>3 DEF Once, Absent
  <2> QED BY <2>2, <2>3
<1>7. ASSUME NEW j \in Calls, Never(j) PROVE Never(j)'
  <2>1. j # k
    BY <1>7 DEF Never
  <2> QED BY <1>3, <1>4, <1>7, <2>1 DEF Never, Absent
<1> QED BY <1>6, <1>7 DEF RequestsOK, Settled, Performed

\* The write loop takes a request.
LEMMA RequestTaken ==
  ASSUME RequestsOK, c2s \in Seq(Calls), c2s # <<>>, c2s' = Tail(c2s), loop["write"] # "send",
         loop'["write"] = "send", msg'["write"] = Head(c2s), UNCHANGED <<asked, acted, call>>
  PROVE  RequestsOK' /\ Settled
<1>1. /\ Len(c2s) \in Nat /\ Len(c2s') = Len(c2s) - 1 /\ Head(c2s) = c2s[1] /\ 1 \in 1..Len(c2s)
      /\ \A i \in 1..Len(c2s) - 1 : c2s'[i] = c2s[i + 1]
  BY TailFacts
<1>2. ASSUME NEW j \in Calls PROVE (Asked(j)' <=> Asked(j)) /\ (Unsent(j)' <=> Unsent(j))
  BY DEF Asked, Unsent
<1>3. ASSUME NEW j \in Calls PROVE InHand(j)' <=> j = c2s[1]
  BY <1>1 DEF InHand
<1>4. ASSUME NEW j \in Calls, Queued(j)' PROVE Queued(j) /\ j # c2s[1]
  <2>1. PICK i \in 1..Len(c2s) - 1 : c2s'[i] = j
    BY <1>1, <1>4 DEF Queued
  <2>2. i + 1 \in 1..Len(c2s) /\ i + 1 # 1 /\ c2s[i + 1] = j
    BY <1>1, <2>1, Places
  <2> QED BY <1>1, <2>2 DEF Queued, RequestsOK, Once, QueuedOnce
<1>5. ASSUME NEW j \in Calls, NEW a \in 1..Len(c2s'), NEW b \in 1..Len(c2s'), c2s'[a] = j, c2s'[b] = j
      PROVE  a = b
  <2>1. a \in 1..Len(c2s) - 1 /\ b \in 1..Len(c2s) - 1
    BY <1>1
  <2>2. a + 1 \in 1..Len(c2s) /\ b + 1 \in 1..Len(c2s) /\ c2s[a + 1] = j /\ c2s[b + 1] = j
    BY <1>1, <1>5, <2>1, Places
  <2>3. a + 1 = b + 1
    BY <2>2 DEF RequestsOK, Once, QueuedOnce
  <2> QED BY <1>1, <2>1, <2>3, Places
<1>6. ASSUME NEW j \in Calls PROVE Once(j)'
  <2>1. Once(j) /\ AskedOnce(j)' /\ QueuedOnce(j)'
    BY <1>5 DEF RequestsOK, Once, AskedOnce, QueuedOnce
  <2>2. j = c2s[1] => Queued(j)
    BY <1>1 DEF Queued
  <2> QED BY <1>2, <1>3, <1>4, <2>1, <2>2 DEF Once, Absent
<1>7. ASSUME NEW j \in Calls, Never(j) PROVE Never(j)'
  <2>1. j # c2s[1]
    BY <1>1, <1>7 DEF Never, Absent, Queued
  <2> QED BY <1>2, <1>3, <1>4, <1>7, <2>1 DEF Never, Absent
<1> QED BY <1>6, <1>7 DEF RequestsOK, Settled, Performed

\* A request and its connection.
LEMMA Pair == \A x, y : <<x, y>>[1] = x /\ <<x, y>>[2] = y
BY SMT

\* The write loop sends it, or loses it.
LEMMA RequestSent ==
  ASSUME RequestsOK, loop["write"] = "send", loop'["write"] # "send", NEW e,
         asked' = asked \/ asked' = asked \cup {<<msg["write"], e>>}, UNCHANGED <<c2s, acted, call>>
  PROVE  RequestsOK' /\ Settled
<1>0. \A p \in asked' : p \in asked \/ (p = <<msg["write"], e>> /\ p[1] = msg["write"])
  <2>1. \A p \in asked' : p \in asked \/ p = <<msg["write"], e>>
    OBVIOUS
  <2>2. <<msg["write"], e>>[1] = msg["write"]
    BY Pair
  <2> QED BY <2>1, <2>2
<1>1. ASSUME NEW j \in Calls
      PROVE  /\ Queued(j)' <=> Queued(j)
             /\ Unsent(j)' <=> Unsent(j)
             /\ ~InHand(j)'
             /\ Asked(j)' => Asked(j) \/ InHand(j)
  BY <1>0 DEF Queued, Unsent, InHand, Asked
<1>2. ASSUME NEW j \in Calls PROVE Once(j)'
  <2>1. Once(j) /\ QueuedOnce(j)'
    BY DEF RequestsOK, Once, QueuedOnce
  <2>2. ASSUME NEW p \in asked', NEW q \in asked', p[1] = j, q[1] = j PROVE p = q
    <3>1. CASE InHand(j)
      <4>1. ~Asked(j)
        BY <2>1, <3>1 DEF Once
      <4>2. p \notin asked /\ q \notin asked
        BY <2>2, <4>1 DEF Asked
      <4> QED BY <1>0, <4>2
    <3>2. CASE ~InHand(j)
      <4>1. p \in asked /\ q \in asked
        BY <1>0, <2>2, <3>2 DEF InHand
      <4> QED BY <2>1, <2>2, <4>1 DEF Once, AskedOnce
    <3> QED BY <3>1, <3>2
  <2>3. AskedOnce(j)'
    BY <2>2 DEF AskedOnce
  <2> QED BY <1>1, <2>1, <2>3 DEF Once, Absent
<1>3. ASSUME NEW j \in Calls, Never(j) PROVE Never(j)'
  BY <1>1, <1>3 DEF Never, Absent
<1> QED BY <1>2, <1>3 DEF RequestsOK, Settled, Performed

\* The steps that move requests.
LEMMA RequestMoves ==
  ASSUME Inv, TakeRequest \/ SendMessage \/ \E k \in Calls : Request(k)
  PROVE  Inv'
<1>0. /\ line \in Seq(Seq(Response)) /\ epoch \in Nat \ {0}
      /\ asked \subseteq Calls \X (1..epoch) /\ acted \subseteq asked
      /\ c2s \in Seq(Calls) /\ got \in Nat /\ (loop["write"] = "send" => msg["write"] \in Calls)
      /\ call = [k \in Calls |-> call[k]] /\ result = [k \in Calls |-> result[k]]
  BY DEF Inv, TypeOK
<1>1. UNCHANGED <<acted, line, s2c, got, chan>> /\ ChanOK(chan') /\ epoch' = epoch
  <2>1. UNCHANGED <<acted, line, s2c, got, chan>>
    BY DEF TakeRequest, SendMessage, Request, Ask
  <2> QED BY <2>1, InvFacts DEF epoch
<1>2. LoopsOK(loop, msg) /\ {"read", "write", "process"} \subseteq Loops
  BY InvFacts DEF Loops
<1>3. CASE TakeRequest
  <2>1. /\ UNCHANGED <<asked, call, result>> /\ c2s # <<>> /\ c2s' = Tail(c2s) /\ loop["write"] # "send"
        /\ loop' = [loop EXCEPT !["write"] = "send"] /\ msg' = [msg EXCEPT !["write"] = Head(c2s)]
    BY <1>3 DEF TakeRequest
  <2>2. /\ loop' = [l \in Loops |-> loop'[l]] /\ msg' = [l \in Loops |-> msg'[l]]
        /\ \A l \in {"read", "process"} : loop'[l] = loop[l] /\ msg'[l] = msg[l]
        /\ loop'["write"] = "send" /\ msg'["write"] = Head(c2s)
    BY <1>2, <2>1 DEF LoopsOK
  <2>3. RequestsOK' /\ Settled
    BY <1>0, <1>1, <2>1, <2>2, RequestTaken DEF Inv
  <2>4. Said' = Said /\ SaidOK' /\ ResultsOK'
    BY <1>1, <2>1, <2>3, SaidKept, ResultsKept DEF Inv
  <2>5. TypeOK'
    <3>1. c2s' \in Seq(Calls) /\ Head(c2s) \in Calls
      BY <1>0, <2>1, TailFacts
    <3> QED BY <1>0, <1>1, <2>1, <2>2, <3>1 DEF TypeOK
  <2> QED BY <1>1, <2>2, <2>3, <2>4, <2>5, Otherwise
<1>4. CASE SendMessage
  <2>1. /\ UNCHANGED <<c2s, call, result>> /\ loop["write"] = "send"
        /\ msg' = [msg EXCEPT !["write"] = NoMsg]
        /\ \E at \in {"run", "error"} : loop' = [loop EXCEPT !["write"] = at]
        /\ asked' = asked \/ asked' = asked \cup {<<msg["write"], epoch>>}
    BY <1>4 DEF SendMessage, Ask
  <2>2. /\ loop' = [l \in Loops |-> loop'[l]] /\ msg' = [l \in Loops |-> msg'[l]]
        /\ \A l \in {"read", "process"} : loop'[l] = loop[l] /\ msg'[l] = msg[l]
        /\ loop'["write"] # "send"
    BY <1>2, <2>1 DEF LoopsOK
  <2>3. RequestsOK' /\ Settled
    BY <1>1, <2>1, <2>2, RequestSent DEF Inv
  <2>4. Said' = Said /\ SaidOK' /\ ResultsOK'
    BY <1>1, <2>1, <2>3, SaidKept, ResultsKept DEF Inv
  <2>5. TypeOK'
    <3>1. epoch \in 1..epoch
      BY SMT, <1>0
    <3>2. asked' \subseteq Calls \X (1..epoch)
      <4>1. <<msg["write"], epoch>> \in Calls \X (1..epoch)
        BY <1>0, <2>1, <3>1
      <4> QED BY <1>0, <2>1, <4>1
    <3> QED BY <1>0, <1>1, <2>1, <2>2, <3>2 DEF TypeOK
  <2> QED BY <1>1, <2>2, <2>3, <2>4, <2>5, Otherwise
<1>5. ASSUME NEW k \in Calls, Request(k) PROVE Inv'
  <2>1. /\ UNCHANGED <<asked, loop, msg>> /\ call[k] = "ask" /\ Unsent(k)
        /\ loop' = [l \in Loops |-> loop'[l]] /\ msg' = [l \in Loops |-> msg'[l]]
        /\ \A l \in {"read", "process"} : loop'[l] = loop[l] /\ msg'[l] = msg[l]
    BY <1>2, <1>5 DEF Request, Unsent, LoopsOK
  <2>2. CASE /\ c2s' = Append(c2s, k) /\ call' = [call EXCEPT ![k] = "wait"] /\ UNCHANGED result
    <3>1. ~Unsent(k)' /\ \A j \in Calls \ {k} : Unsent(j)' <=> Unsent(j)
      BY <1>0, <2>2 DEF Unsent
    <3>2. RequestsOK' /\ Settled
      BY <1>0, <1>1, <2>1, <2>2, <3>1, RequestQueued DEF Inv
    <3>3. Said' = Said /\ SaidOK' /\ ResultsOK'
      BY <1>1, <2>2, <3>2, SaidKept, ResultsKept DEF Inv
    <3>4. TypeOK'
      <4>1. c2s' \in Seq(Calls)
        BY SMT, <1>0, <2>2
      <4> QED BY <1>0, <1>1, <2>1, <2>2, <4>1 DEF TypeOK
    <3> QED BY <1>1, <2>1, <3>2, <3>3, <3>4, Otherwise
  <2>3. CASE /\ c2s' = c2s /\ call' = [call EXCEPT ![k] = "leave"]
             /\ result' = [result EXCEPT ![k] = "full"]
    <3>1. ~Unsent(k)' /\ \A j \in Calls : Unsent(j)' => Unsent(j)
      BY <1>0, <2>3 DEF Unsent
    <3>2. RequestsOK' /\ Settled
      BY <1>1, <2>1, <2>3, <3>1, HandKept, RequestsKept DEF Inv
    <3>3. Said' = Said /\ SaidOK'
      BY <1>1, <3>2, SaidKept DEF Inv
    <3>4. Never(k)'
      <4>1. Absent(k)
        BY <2>1 DEF Inv, RequestsOK, Once
      <4>2. Absent(k)'
        BY <2>1, <2>3, <4>1 DEF Absent, Queued, InHand, Asked
      <4> QED BY <3>1, <4>2 DEF Never
    <3>5. ResultsOK'
      BY <2>3, <3>2, <3>3, <3>4, ResultGiven DEF Inv
    <3>6. TypeOK'
      BY <1>0, <1>1, <2>1, <2>3 DEF TypeOK
    <3> QED BY <1>1, <2>1, <3>2, <3>3, <3>5, <3>6, Otherwise
  <2> QED BY <1>5, <2>2, <2>3 DEF Request, Offer
<1> QED BY <1>3, <1>4, <1>5

\* The server says something more on the connection.
LEMMA SaidMore ==
  ASSUME TypeOK, NEW m \in Response, line' = [line EXCEPT ![epoch] = Append(@, m)]
  PROVE  line' \in Seq(Seq(Response)) /\ epoch' = epoch /\ Said' = Said \cup {m}
<1>1. line \in Seq(Seq(Response)) /\ epoch \in DOMAIN line /\ line[epoch] \in Seq(Response)
      /\ DOMAIN line = 1..Len(line)
  BY SMT DEF TypeOK, epoch
<1>2. /\ DOMAIN line' = DOMAIN line /\ line'[epoch] = Append(line[epoch], m)
      /\ \A e \in DOMAIN line \ {epoch} : line'[e] = line[e]
  BY <1>1
<1>3. Append(line[epoch], m) \in Seq(Response)
  BY SMT, <1>1
<1>4. line' \in Seq(Seq(Response)) /\ Len(line') = Len(line)
  BY SMT, <1>1, <1>3
<1>5. /\ DOMAIN Append(line[epoch], m) = DOMAIN line[epoch] \cup {Len(line[epoch]) + 1}
      /\ Append(line[epoch], m)[Len(line[epoch]) + 1] = m
      /\ \A i \in DOMAIN line[epoch] : Append(line[epoch], m)[i] = line[epoch][i]
  BY SMT, <1>1
<1>6. ASSUME NEW x, x \in Said' PROVE x \in Said \/ x = m
  <2>1. PICK e \in DOMAIN line' : \E i \in DOMAIN line'[e] : x = line'[e][i]
    BY SMT, <1>6 DEF Said
  <2>2. PICK i \in DOMAIN line'[e] : x = line'[e][i]
    BY <2>1
  <2>3. CASE e = epoch
    BY <1>1, <1>2, <1>5, <2>2, <2>3, SaidWhere
  <2>4. CASE e # epoch
    BY <1>2, <2>2, <2>4, SaidWhere
  <2> QED BY <2>3, <2>4
<1>7. ASSUME NEW x, x \in Said \/ x = m PROVE x \in Said'
  <2>1. \E e \in DOMAIN line' : \E i \in DOMAIN line'[e] : x = line'[e][i]
    <3>1. CASE x = m
      BY <1>1, <1>2, <1>5, <3>1
    <3>2. CASE x \in Said
      <4>1. PICK e \in DOMAIN line : \E i \in DOMAIN line[e] : x = line[e][i]
        BY <3>2, SaidWhere
      <4>2. PICK i \in DOMAIN line[e] : x = line[e][i]
        BY <4>1
      <4>3. i \in DOMAIN line'[e] /\ line'[e][i] = x
        BY <1>1, <1>2, <1>5, <4>2
      <4> QED BY <1>2, <4>3
    <3> QED BY <1>7, <3>1, <3>2
  <2> QED BY SMT, <2>1 DEF Said
<1> QED BY <1>4, <1>6, <1>7 DEF epoch

\* The next connection has nothing on it.
LEMMA NewLine ==
  ASSUME TypeOK, line' = Append(line, <<>>)
  PROVE  /\ line' \in Seq(Seq(Response)) /\ epoch' = epoch + 1 /\ Said' = Said
         /\ 1..epoch \subseteq 1..epoch'
<1>1. line \in Seq(Seq(Response)) /\ <<>> \in Seq(Response) /\ Len(line) \in Nat
  BY SMT DEF TypeOK
<1>2. /\ line' \in Seq(Seq(Response)) /\ Len(line') = Len(line) + 1
      /\ DOMAIN line' = DOMAIN line \cup {Len(line) + 1} /\ line'[Len(line) + 1] = <<>>
      /\ \A e \in DOMAIN line : line'[e] = line[e]
  BY SMT, <1>1
<1>3. DOMAIN << >> = {}
  BY SMT
<1>4. ASSUME NEW x, x \in Said' PROVE x \in Said
  <2>1. PICK e \in DOMAIN line' : \E i \in DOMAIN line'[e] : x = line'[e][i]
    BY SMT, <1>4 DEF Said
  <2>2. e \in DOMAIN line
    BY <1>2, <1>3, <2>1
  <2> QED BY <1>2, <2>1, <2>2, SaidWhere
<1>5. ASSUME NEW x, x \in Said PROVE x \in Said'
  <2>1. \E e \in DOMAIN line' : \E i \in DOMAIN line'[e] : x = line'[e][i]
    <3>1. PICK e \in DOMAIN line : \E i \in DOMAIN line[e] : x = line[e][i]
      BY <1>5, SaidWhere
    <3> QED BY <1>2, <3>1
  <2> QED BY SMT, <2>1 DEF Said
<1>6. epoch' = epoch + 1 /\ 1..epoch \subseteq 1..epoch'
  BY SMT, <1>1, <1>2 DEF epoch
<1> QED BY <1>2, <1>4, <1>5, <1>6

\* The number of entries on a connection.
LEMMA EntriesCount ==
  ASSUME TypeOK, NEW r, NEW e \in DOMAIN line
  PROVE  IsFiniteSet(Entries(r, e)) /\ Cardinality(Entries(r, e)) \in Nat
<1>1. line[e] \in Seq(Response)
  BY SMT DEF TypeOK
<1>2. DOMAIN line[e] = 1..Len(line[e]) /\ Len(line[e]) \in Nat
  BY SMT, <1>1
<1>3. IsFiniteSet(1..Len(line[e]))
  <2>1. 1 \in Int /\ Len(line[e]) \in Int
    BY SMT, <1>2
  <2> QED BY <2>1, FS_Interval
<1>4. Entries(r, e) \subseteq 1..Len(line[e])
  BY <1>2 DEF Entries, About
<1>5. IsFiniteSet(Entries(r, e))
  BY <1>3, <1>4, FS_Subset
<1> QED BY <1>5, FS_CardinalityType

\* The server answers.
LEMMA Speaks ==
  ASSUME Inv, NEW m \in Response, line' = [line EXCEPT ![epoch] = Append(@, m)],
         UNCHANGED <<acted, c2s, s2c, loop, msg, got, chan, call, result>>,
         asked' \subseteq asked, acted \subseteq asked', RequestsOK', Settled, IsTrue(m)'
  PROVE  Inv'
<1>1. line' \in Seq(Seq(Response)) /\ epoch' = epoch /\ Said' = Said \cup {m}
  BY SaidMore DEF Inv
<1>2. TypeOK'
  BY <1>1 DEF Inv, TypeOK
<1>3. SaidOK'
  <2>1. ASSUME NEW x \in Said PROVE IsTrue(x)'
    <3>1. IsTrue(x)
      BY DEF Inv, SaidOK
    <3> QED BY <3>1 DEF IsTrue, Settled, Calls
  <2> QED BY <1>1, <2>1 DEF SaidOK
<1>4. ResultsOK'
  BY <1>1, ResultsKept DEF Inv
<1> QED BY <1>1, <1>2, <1>3, <1>4, InvFacts, Otherwise DEF LoopsOK

\* The server.
LEMMA ServerKeeps ==
  ASSUME Inv, ServerStep
  PROVE  Inv'
<1>0. /\ UNCHANGED <<c2s, s2c, loop, msg, got, chan, call, result>>
      /\ \A k \in Calls : Unsent(k)' => Unsent(k) 
      /\ \A k \in Calls : InHand(k)' => InHand(k)
  BY DEF ServerStep, Unsent, InHand
<1>1. ASSUME UNCHANGED asked, acted' = acted PROVE RequestsOK' /\ Settled
  BY <1>0, <1>1, RequestsKept DEF Inv
<1>2. epoch \in DOMAIN line /\ epoch \in 1..epoch
  BY SMT DEF Inv, TypeOK, epoch
<1>3. ASSUME NEW w \in Writes, AnswerDone(w) PROVE Inv'
  <2> DEFINE m == [re |-> w, what |-> "done", n |-> 0]
  <2>1. line' = [line EXCEPT ![epoch] = Append(@, m)] /\ UNCHANGED <<asked, acted>> /\ <<w, epoch>> \in acted
    BY <1>3 DEF AnswerDone, Say
  <2>2. m \in Response /\ m.re = w /\ m.what = "done"
    BY SMT DEF Response, Calls
  <2> HIDE DEF m
  <2>3. IsTrue(m)'
    <3>1. <<w, epoch>>[1] = w
      BY Pair
    <3>2. Performed(w)'
      BY <2>1, <3>1 DEF Performed
    <3> QED BY <2>2, <3>2 DEF IsTrue
  <2>4. RequestsOK' /\ Settled /\ acted \subseteq asked'
    BY <1>1, <2>1 DEF Inv, TypeOK
  <2> QED BY <1>0, <2>1, <2>2, <2>3, <2>4, Speaks
<1>4. ASSUME NEW w \in Writes, AnswerError(w) PROVE Inv'
  <2> DEFINE m == [re |-> w, what |-> "error", n |-> 0]
             p == <<w, epoch>>
  <2>1. /\ line' = [line EXCEPT ![epoch] = Append(@, m)] /\ UNCHANGED acted
        /\ p \in asked \ acted /\ asked' = asked \ {p}
    BY <1>4 DEF AnswerError, Say
  <2>2. m \in Response /\ m.re = w /\ m.what = "error" /\ p[1] = w /\ w \in Calls
    BY SMT DEF Response, Calls
  <2> HIDE DEF m, p
  <2>3. ASSUME NEW k \in Calls
        PROVE  /\ Queued(k)' <=> Queued(k)
               /\ InHand(k)' <=> InHand(k)
               /\ Unsent(k)' <=> Unsent(k)
               /\ Asked(k)' => Asked(k)
               /\ QueuedOnce(k)' <=> QueuedOnce(k)
               /\ AskedOnce(k) => AskedOnce(k)'
    BY <1>0, <2>1 DEF Queued, InHand, Unsent, Asked, QueuedOnce, AskedOnce
  <2>4. RequestsOK'
    <3>1. ASSUME NEW k \in Calls PROVE Once(k)'
      <4>1. Once(k)
        BY DEF Inv, RequestsOK
      <4> QED BY <2>3, <4>1 DEF Once, Absent
    <3> QED BY <3>1 DEF RequestsOK
  <2>5. Settled
    <3>1. ASSUME NEW k \in Calls PROVE Never(k) => Never(k)'
      BY <2>3 DEF Never, Absent
    <3> QED BY <2>1, <3>1 DEF Settled, Performed
  <2>6. Never(w)'
    <3>1. Once(w) /\ Asked(w)
      BY <2>1, <2>2 DEF Inv, RequestsOK, Asked
    <3>2. ~Queued(w) /\ ~InHand(w) /\ ~Unsent(w) /\ AskedOnce(w)
      BY <3>1 DEF Once, Absent
    <3>3. ~Asked(w)'
      BY <2>1, <2>2, <3>2 DEF Asked, AskedOnce
    <3> QED BY <2>2, <2>3, <3>2, <3>3 DEF Never, Absent
  <2>7. IsTrue(m)'
    BY <2>2, <2>6 DEF IsTrue
  <2>8. asked' \subseteq asked /\ acted \subseteq asked'
    BY <2>1 DEF Inv, TypeOK
  <2> QED BY <1>0, <2>1, <2>2, <2>4, <2>5, <2>7, <2>8, Speaks
<1>5. ASSUME NEW w \in Writes, NEW e \in 1..epoch, Perform(w, e) PROVE Inv'
  <2>1. UNCHANGED <<asked, line>> /\ acted \subseteq acted' /\ acted' \subseteq asked
    BY <1>5, InvFacts DEF Perform
  <2> QED BY <1>0, <2>1, InvFacts, Quiet
<1>6. ASSUME NEW r \in Reads, Stream(r) PROVE Inv'
  <2>1. /\ UNCHANGED <<asked, acted>>
        /\ \E what \in {"start", "failed", "entry", "end"} :
             \E n \in {0, Cardinality(Entries(r, epoch)) + 1} : Say(r, what, n)
    BY <1>6 DEF Stream
  <2>2. PICK what \in {"start", "failed", "entry", "end"} :
          \E n \in {0, Cardinality(Entries(r, epoch)) + 1} : Say(r, what, n)
    BY <2>1
  <2>3. PICK n \in {0, Cardinality(Entries(r, epoch)) + 1} : Say(r, what, n)
    BY <2>2
  <2>4. n \in Nat
    <3>1. Cardinality(Entries(r, epoch)) \in Nat
      BY <1>2, EntriesCount DEF Inv
    <3> QED BY SMT, <3>1
  <2> DEFINE m == [re |-> r, what |-> what, n |-> n]
  <2>5. m \in Response /\ m.re = r
    BY SMT, <2>4 DEF Response, Calls
  <2>6. line' = [line EXCEPT ![epoch] = Append(@, m)]
    BY <2>3 DEF Say
  <2> HIDE DEF m
  <2>7. IsTrue(m)'
    BY <2>5, RequestsAssumption DEF IsTrue
  <2>8. RequestsOK' /\ Settled /\ acted \subseteq asked'
    BY <1>1, <2>1 DEF Inv, TypeOK
  <2> QED BY <1>0, <2>1, <2>5, <2>6, <2>7, <2>8, Speaks
<1> QED BY <1>3, <1>4, <1>5, <1>6 DEF ServerStep, Serve

\* The next connection.
LEMMA DialKeeps ==
  ASSUME Inv, Dial
  PROVE  Inv'
<1>1. UNCHANGED <<asked, acted, c2s, s2c, loop, msg, chan, call, result>> /\ got' = 0 /\ line' = Append(line, <<>>)
  BY DEF Dial, Reconnect
<1>2. /\ line' \in Seq(Seq(Response)) /\ epoch' = epoch + 1 /\ Said' = Said
      /\ 1..epoch \subseteq 1..epoch'
  BY <1>1, NewLine DEF Inv
<1>3. RequestsOK' /\ Settled
  <2>1. \A k \in Calls : (Unsent(k)' => Unsent(k)) /\ (InHand(k)' => InHand(k))
    BY <1>1 DEF Unsent, InHand
  <2> QED BY <1>1, <2>1, RequestsKept DEF Inv
<1>4. ResultsOK'
  BY <1>1, <1>2, <1>3, ResultsKept DEF Inv
<1>5. SaidOK'
  <2>1. ASSUME NEW x \in Said PROVE IsTrue(x)'
    <3>1. IsTrue(x)
      BY DEF Inv, SaidOK
    <3> QED BY <1>3, <3>1 DEF IsTrue, Settled, Calls
  <2> QED BY <1>2, <2>1 DEF SaidOK
<1>6. TypeOK'
  <2>1. epoch' \in Nat \ {0} /\ got' \in Nat
    BY SMT, <1>1, <1>2 DEF Inv, TypeOK
  <2>2. asked' \subseteq Calls \X (1..epoch')
    BY <1>1, <1>2 DEF Inv, TypeOK
  <2> QED BY <1>1, <1>2, <2>1, <2>2 DEF Inv, TypeOK
<1> QED BY <1>1, <1>2, <1>3, <1>4, <1>5, <1>6, InvFacts, Otherwise DEF LoopsOK

-----------------------------------------------------------------------------
(* The results                                                              *)

\* The invariant holds when the client has just connected.
LEMMA InvStarts == ClientInit => Inv
<1> SUFFICES ASSUME ClientInit PROVE Inv
  OBVIOUS
<1>0. /\ asked = {} /\ acted = {} /\ line = << <<>> >> /\ c2s = <<>> /\ s2c = <<>> /\ got = 0
      /\ loop = [l \in Loops |-> "done"] /\ msg = [l \in Loops |-> NoMsg]
      /\ chan = [k \in Calls |-> <<>>] /\ call = [k \in Calls |-> "idle"]
      /\ result = [k \in Calls |-> "none"]
  BY DEF ClientInit, ProtocolInit
<1>1. /\ line \in Seq(Seq(Response)) /\ epoch = 1 /\ DOMAIN line = {1} /\ line[1] = <<>>
      /\ DOMAIN << >> = {} /\ Len(<< >>) = 0 /\ 1..0 = {} /\ epoch \in Nat \ {0} /\ got \in Nat
  BY SMT, <1>0 DEF epoch
<1>2. c2s \in Seq(Calls) /\ s2c \in Seq(Said) /\ \A S : <<>> \in Seq(S)
  BY SMT, <1>0
<1>3. Said = {}
  BY <1>1, SaidWhere
<1>4. \A l \in Loops : loop[l] = "done"
  BY <1>0
<1>5. {"read", "write", "process"} \subseteq Loops
  BY DEF Loops
<1>6. TypeOK
  BY <1>0, <1>1, <1>2, <1>4, <1>5 DEF TypeOK
<1>7. RequestsOK
  <2>1. ASSUME NEW k \in Calls PROVE Once(k)
    <3>1. ~Queued(k) /\ ~Asked(k) /\ QueuedOnce(k) /\ AskedOnce(k)
      BY <1>0, <1>1 DEF Queued, Asked, QueuedOnce, AskedOnce
    <3>2. ~InHand(k)
      BY <1>4, <1>5 DEF InHand
    <3> QED BY <3>1, <3>2 DEF Once, Absent
  <2> QED BY <2>1 DEF RequestsOK
<1>8. ResponsesOK
  BY <1>0, <1>2, <1>4, <1>5 DEF ResponsesOK, LoopsOK, ChanOK
<1>9. SaidOK /\ ResultsOK
  BY <1>0, <1>3 DEF SaidOK, ResultsOK, Calls
<1> QED BY <1>6, <1>7, <1>8, <1>9 DEF Inv

\* Every step of the client, of the server and of the network keeps it.
LEMMA InvKept == Inv /\ [ClientNext]_vars => Inv'
<1> SUFFICES ASSUME Inv, [ClientNext]_vars PROVE Inv'
  OBVIOUS
<1>1. CASE \/ SetUp \/ SetUpFails \/ StartLoops \/ LoopsEnded \/ Break \/ closeConnectionInternal
           \/ \E r \in Reads : Consume(r)
           \/ UNCHANGED vars
  BY <1>1, ManagerKeeps
<1>2. CASE Dial
  BY <1>2, DialKeeps
<1>3. ASSUME NEW l \in Loops, LoopStep(l) PROVE Inv'
  <2>1. \/ HandleError(l) \/ Stopped(l) \/ Begin(l)
        \/ ReadMessage \/ PushMessage \/ TakeResponse \/ Dispatch \/ TakeRequest \/ SendMessage
    BY <1>3 DEF LoopStep
  <2> QED BY <2>1, LoopStops, ResponseMoves, RequestMoves
<1>4. ASSUME NEW k \in Calls, CallStep(k) \/ Check(k) PROVE Inv'
  <2>1. \/ Check(k) \/ Register(k) \/ Leave(k) \/ CloseChannel(k) \/ Receive(k)
        \/ \E j \in Calls : Request(j)
    BY <1>4 DEF CallStep
  <2> QED BY <2>1, CallMoves, RequestMoves
<1>5. CASE ServerStep
  BY <1>5, ServerKeeps
<1> QED BY <1>1, <1>2, <1>3, <1>4, <1>5 DEF ClientNext, Progress, ManagerStep

\* A request that is in one place at most has been performed once at most.
LEMMA OutcomeFollows == Inv => OutcomeIsTrue
<1> SUFFICES ASSUME Inv, NEW w \in Writes
             PROVE  LET times == Cardinality({e \in 1..epoch : <<w, e>> \in acted}) IN
                    /\ times <= 1
                    /\ result[w] = "done" => times = 1
                    /\ result[w] \in {"not connected", "full", "error"} => times = 0
  BY DEF OutcomeIsTrue
<1> DEFINE E == {e \in 1..epoch : <<w, e>> \in acted}
<1>0. w \in Calls /\ Once(w) /\ acted \subseteq asked /\ asked \subseteq Calls \X (1..epoch)
  BY DEF Inv, TypeOK, RequestsOK, Calls
<1>1. ASSUME NEW e \in E, NEW f \in E PROVE e = f
  <2>1. <<w, e>> \in asked /\ <<w, f>> \in asked
    BY <1>0
  <2>2. <<w, e>>[1] = w /\ <<w, f>>[1] = w /\ <<w, e>>[2] = e /\ <<w, f>>[2] = f
    BY Pair
  <2>3. <<w, e>> = <<w, f>>
    BY <1>0, <2>1, <2>2 DEF Once, AskedOnce
  <2> QED BY <2>2, <2>3
<1>2. E = {} \/ \E e : E = {e}
  BY <1>1
<1>3. Performed(w) => E # {}
  <2>1. ASSUME NEW p \in acted, p[1] = w PROVE E # {}
    <3>1. p \in Calls \X (1..epoch)
      BY <1>0
    <3>2. p = <<w, p[2]>> /\ p[2] \in 1..epoch
      BY SMT, <2>1, <3>1
    <3> QED BY <3>2
  <2> QED BY <2>1 DEF Performed
<1>4. Absent(w) => E = {}
  <2>1. ASSUME NEW e \in E PROVE Asked(w)
    <3>1. <<w, e>> \in asked /\ <<w, e>>[1] = w
      BY <1>0, Pair
    <3> QED BY <3>1 DEF Asked
  <2> QED BY <2>1 DEF Absent
<1>5. result[w] = "done" => Performed(w)
  BY DEF Inv, ResultsOK, SaidOK, IsTrue
<1>6. result[w] \in {"not connected", "full", "error"} => Absent(w)
  <2>1. ASSUME NEW m \in Said, m.re = w, m.what = result[w]
        PROVE  result[w] \in {"not connected", "full", "error"} => Absent(w)
    BY <2>1 DEF Inv, SaidOK, IsTrue, Never
  <2> QED BY <2>1 DEF Inv, ResultsOK, Never
<1> HIDE DEF E
<1>7. Cardinality({}) = 0 /\ \A e : Cardinality({e}) = 1
  BY FS_EmptySet, FS_Singleton
<1>8. (E = {} => Cardinality(E) = 0) /\ (E # {} => Cardinality(E) = 1)
  BY <1>2, <1>7
<1>9. Cardinality(E) <= 1
  BY SMT, <1>8
<1> QED BY <1>3, <1>4, <1>5, <1>6, <1>8, <1>9 DEF E

\* Enqueue and EnqueuePack tell the truth, through any number of connections and
\* failures: a write is performed at most once; an id means that it was performed,
\* and ErrNotConnected, ErrBufferFull and ErrServerSide mean that it was not and
\* will not be.
THEOREM OutcomesAreTrue == ClientSpec => []OutcomeIsTrue
<1>1. ClientSpec => []Inv
  BY InvStarts, InvKept, PTL DEF ClientSpec
<1> QED BY <1>1, OutcomeFollows, PTL

-----------------------------------------------------------------------------
(* Where the entries of a read are                                          *)

IsEntry(m, r) == m.re = r /\ m.what = "entry"
IsEnd(m, r)   == m.re = r /\ m.what = "end"

\* From a entries of r to b: m is the next one, or not an entry.  An end comes
\* after a number of entries that is in E.
Passes(m, r, E, a, b) ==
  /\ IsEntry(m, r) => m.n = a + 1 /\ b = a + 1
  /\ ~IsEntry(m, r) => b = a
  /\ IsEnd(m, r) => a \in E

\* From a to b by the messages of s: f counts.
Run(s, r, E, a, b) ==
  \E f \in [0..Len(s) -> Nat] :
    /\ f[0] = a /\ f[Len(s)] = b
    /\ \A i \in 1..Len(s) : Passes(s[i], r, E, f[i - 1], f[i])

\* By the message in the hand of a loop.
Hand(l, at, r, E, a, b) ==
  (loop[l] = at => Passes(msg[l], r, E, a, b)) /\ (loop[l] # at => b = a)

\* The entries of r up to the i-th response on a connection.
UpTo(r, e, i) == {j \in Entries(r, e) : j <= i}

\* The server numbers the entries of a read, and ends it after the last one.
LineOK(r, e) ==
  \A i \in About(r, e) :
    /\ <<r, e>> \in asked
    /\ line[e][i].what = "entry" => line[e][i].n = Cardinality(UpTo(r, e, i))
    /\ line[e][i].what = "end" => UpTo(r, e, i) = Entries(r, e)

\* The lengths of the streams of r that are over: one, or none.
Ends(r) == {Cardinality(Entries(r, e)) : e \in {x \in 1..epoch : IsOver(r, x)}}

\* The read loop of this connection has not ended.
Live == manager \in {"setup", "start"} \/ loop["read"] \in {"begin", "run", "push"}

\* r was not asked on an earlier connection.
Fresh(r) == \A p \in asked : p[1] = r => p[2] = epoch

\* The goroutine of r receives no more.
Over(r) == call[r] \in {"leave", "close", "returned"}

\* What r has received, what is in its channel and in the hand of
\* processResponses follow each other without a hole; and so does, as long as r
\* is pending, all that is still on its way.
WayBy(r, a, b, c, d) ==
  /\ Run(chan[r], r, Ends(r), Len(Received(r)), a)
  /\ Hand("process", "dispatch", r, Ends(r), a, b)
  /\ r \in pendingReads =>
       /\ Run(s2c, r, Ends(r), b, c)
       /\ Hand("read", "push", r, Ends(r), c, d)
       /\ Live /\ Fresh(r) => d = Cardinality(UpTo(r, epoch, got))

Way(r) == \E a, b, c, d \in Nat : WayBy(r, a, b, c, d)

ReadOK(r) ==
  /\ \A i \in 1..Len(Received(r)) : Received(r)[i] = i
  /\ result[r] = "end" => Over(r) /\ Len(Received(r)) \in Ends(r)
  /\ Asked(r) \/ Received(r) = <<>>
  /\ Over(r) \/ Way(r)

LinesOK == \A r \in Reads : \A e \in 1..epoch : LineOK(r, e)

ManagerOK ==
  /\ got <= Len(line[epoch])
  /\ manager = "wait" \/ \A l \in Loops : loop[l] = "done"
  /\ data \in [Reads -> Seq(Nat)] /\ given \in [Reads -> Seq(Nat)]
  /\ pendingWrites \subseteq Writes
  /\ closed \subseteq Calls /\ \A k \in closed : call[k] = "returned"

StreamInv == LinesOK /\ ManagerOK /\ \A r \in Reads : ReadOK(r)

-----------------------------------------------------------------------------
(* Counting                                                                 *)

\* A message behind others.
LEMMA RunAppend ==
  ASSUME NEW S, NEW s \in Seq(S), NEW m \in S, NEW r, NEW E, NEW a, NEW b, NEW c \in Nat,
         Run(s, r, E, a, b), Passes(m, r, E, b, c)
  PROVE  Run(Append(s, m), r, E, a, c)
<1> DEFINE n == Len(s)
<1>1. PICK f \in [0..n -> Nat] : /\ f[0] = a /\ f[n] = b
                                 /\ \A i \in 1..n : Passes(s[i], r, E, f[i - 1], f[i])
  BY DEF Run
<1>2. /\ n \in Nat /\ Len(Append(s, m)) = n + 1 /\ Append(s, m)[n + 1] = m
      /\ \A i \in 1..n : Append(s, m)[i] = s[i]
  BY SMT
<1> HIDE DEF n
<1> DEFINE g == [i \in 0..n + 1 |-> IF i = n + 1 THEN c ELSE f[i]]
<1>3. /\ g \in [0..n + 1 -> Nat] /\ g[0] = a /\ g[n + 1] = c
      /\ \A i \in 1..n : g[i - 1] = f[i - 1] /\ g[i] = f[i]
      /\ g[n + 1 - 1] = b
  BY SMT, <1>1, <1>2
<1> HIDE DEF g
<1>4. ASSUME NEW i \in 1..n + 1 PROVE Passes(Append(s, m)[i], r, E, g[i - 1], g[i])
  <2>1. CASE i \in 1..n
    <3>1. Append(s, m)[i] = s[i] /\ g[i - 1] = f[i - 1] /\ g[i] = f[i]
      BY <1>2, <1>3, <2>1
    <3>2. Passes(s[i], r, E, f[i - 1], f[i])
      BY <1>1, <2>1
    <3> QED BY <3>1, <3>2
  <2>2. CASE i = n + 1
    BY SMT, <1>2, <1>3, <2>2
  <2> QED BY <1>2, <2>1, <2>2, Places
<1> QED BY <1>2, <1>3, <1>4 DEF Run

\* The first message of several.
LEMMA RunTail ==
  ASSUME NEW S, NEW s \in Seq(S), s # <<>>, NEW r, NEW E, NEW a, NEW c, Run(s, r, E, a, c)
  PROVE  \E b \in Nat : Passes(Head(s), r, E, a, b) /\ Run(Tail(s), r, E, b, c)
<1> DEFINE n == Len(s)
<1>1. PICK f \in [0..n -> Nat] : /\ f[0] = a /\ f[n] = c
                                 /\ \A i \in 1..n : Passes(s[i], r, E, f[i - 1], f[i])
  BY DEF Run
<1>2. /\ n \in Nat /\ Head(s) = s[1] /\ 1 \in 1..n /\ Len(Tail(s)) = n - 1
      /\ \A i \in 1..n - 1 : Tail(s)[i] = s[i + 1]
  BY TailFacts
<1> HIDE DEF n
<1> DEFINE g == [i \in 0..n - 1 |-> f[i + 1]]
<1>3. /\ g \in [0..n - 1 -> Nat] /\ g[0] = f[1] /\ g[n - 1] = c /\ f[1] \in Nat /\ f[1 - 1] = a
      /\ \A i \in 1..n - 1 : g[i - 1] = f[i + 1 - 1] /\ g[i] = f[i + 1] /\ i + 1 \in 1..n
  BY SMT, <1>1, <1>2
<1> HIDE DEF g
<1>4. Passes(Head(s), r, E, a, f[1])
  <2>1. Passes(s[1], r, E, f[1 - 1], f[1])
    BY <1>1, <1>2
  <2> QED BY <1>2, <1>3, <2>1
<1>5. \A i \in 1..n - 1 : Passes(Tail(s)[i], r, E, g[i - 1], g[i])
  BY SMT, <1>1, <1>2, <1>3
<1>6. Run(Tail(s), r, E, f[1], c)
  BY <1>2, <1>3, <1>5 DEF Run
<1> QED BY <1>3, <1>4, <1>6

\* Messages that are not about r.
LEMMA RunPlain ==
  ASSUME NEW S, NEW s \in Seq(S), NEW r, NEW E, NEW a \in Nat,
         \A i \in 1..Len(s) : ~IsEntry(s[i], r) /\ ~IsEnd(s[i], r)
  PROVE  Run(s, r, E, a, a)
<1> DEFINE n == Len(s)
<1>0. n \in Nat
  BY SMT
<1> HIDE DEF n
<1> DEFINE g == [i \in 0..n |-> a]
<1>1. g \in [0..n -> Nat] /\ g[0] = a /\ g[n] = a /\ \A i \in 1..n : g[i - 1] = a /\ g[i] = a
  BY SMT, <1>0
<1> HIDE DEF g
<1>2. \A i \in 1..n : Passes(s[i], r, E, g[i - 1], g[i])
  BY <1>1 DEF Passes, n
<1> QED BY <1>1, <1>2 DEF Run, n

\* More ends are allowed.
LEMMA RunMore ==
  ASSUME NEW s, NEW r, NEW E, NEW F, E \subseteq F, NEW a, NEW b, Run(s, r, E, a, b)
  PROVE  Run(s, r, F, a, b)
<1>1. PICK f \in [0..Len(s) -> Nat] : /\ f[0] = a /\ f[Len(s)] = b
                                      /\ \A i \in 1..Len(s) : Passes(s[i], r, E, f[i - 1], f[i])
  BY DEF Run
<1>2. \A i \in 1..Len(s) : Passes(s[i], r, F, f[i - 1], f[i])
  BY <1>1 DEF Passes
<1> QED BY <1>1, <1>2 DEF Run

-----------------------------------------------------------------------------
(* The entries on a connection                                              *)

\* How many there are.
LEMMA UpToCount ==
  ASSUME TypeOK, NEW r, NEW e \in DOMAIN line, NEW i
  PROVE  IsFiniteSet(UpTo(r, e, i)) /\ Cardinality(UpTo(r, e, i)) \in Nat
<1>1. UpTo(r, e, i) \subseteq Entries(r, e)
  BY DEF UpTo
<1>2. IsFiniteSet(UpTo(r, e, i))
  BY <1>1, EntriesCount, FS_Subset
<1> QED BY <1>2, FS_CardinalityType

\* One response further.
LEMMA UpToNext ==
  ASSUME TypeOK, NEW r, NEW e \in DOMAIN line, NEW i \in Nat, i < Len(line[e])
  PROVE  /\ i + 1 \in DOMAIN line[e]
         /\ ~IsEntry(line[e][i + 1], r) => UpTo(r, e, i + 1) = UpTo(r, e, i)
         /\ IsEntry(line[e][i + 1], r) =>
              Cardinality(UpTo(r, e, i + 1)) = Cardinality(UpTo(r, e, i)) + 1
<1>1. line[e] \in Seq(Response)
  BY SMT DEF TypeOK
<1>2. i + 1 \in DOMAIN line[e] /\ DOMAIN line[e] \subseteq Nat
  BY SMT, <1>1
<1>3. \A j \in Nat : j <= i + 1 <=> j <= i \/ j = i + 1
  BY SMT
<1>4. ~(i + 1 <= i)
  BY SMT
<1>5. Entries(r, e) \subseteq Nat /\ (i + 1 \in Entries(r, e) <=> IsEntry(line[e][i + 1], r))
  BY <1>2 DEF Entries, About, IsEntry
<1>6. CASE ~IsEntry(line[e][i + 1], r)
  BY <1>2, <1>3, <1>5, <1>6 DEF UpTo
<1>7. CASE IsEntry(line[e][i + 1], r)
  <2>1. UpTo(r, e, i + 1) = UpTo(r, e, i) \cup {i + 1}
    BY <1>3, <1>5, <1>7 DEF UpTo
  <2>2. i + 1 \notin UpTo(r, e, i)
    BY <1>4 DEF UpTo
  <2> QED BY <1>2, <1>7, <2>1, <2>2, UpToCount, FS_AddElement
<1> QED BY <1>2, <1>6, <1>7

\* The next response on the connection is the next of the stream.
LEMMA NextPasses ==
  ASSUME TypeOK, NEW r \in Reads, LineOK(r, epoch), got < Len(line[epoch])
  PROVE  Passes(line[epoch][got + 1], r, Ends(r),
                Cardinality(UpTo(r, epoch, got)), Cardinality(UpTo(r, epoch, got + 1)))
<1> DEFINE m == line[epoch][got + 1]
<1>1. epoch \in DOMAIN line /\ epoch \in 1..epoch /\ got \in Nat
  BY SMT DEF TypeOK, epoch
<1>2. /\ got + 1 \in DOMAIN line[epoch]
      /\ ~IsEntry(m, r) => UpTo(r, epoch, got + 1) = UpTo(r, epoch, got)
      /\ IsEntry(m, r) =>
           Cardinality(UpTo(r, epoch, got + 1)) = Cardinality(UpTo(r, epoch, got)) + 1
  BY <1>1, UpToNext
<1>3. m.re = r => got + 1 \in About(r, epoch)
  BY <1>2 DEF About
<1>4. IsEntry(m, r) => m.n = Cardinality(UpTo(r, epoch, got + 1))
  BY <1>3 DEF IsEntry, LineOK
<1>5. IsEnd(m, r) => UpTo(r, epoch, got + 1) = Entries(r, epoch) /\ IsOver(r, epoch)
  BY <1>3 DEF IsEnd, LineOK, IsOver
<1>6. IsEnd(m, r) => ~IsEntry(m, r)
  BY DEF IsEnd, IsEntry
<1>7. IsEnd(m, r) => Cardinality(UpTo(r, epoch, got)) \in Ends(r)
  BY <1>1, <1>2, <1>5, <1>6 DEF Ends
<1> QED BY <1>2, <1>4, <1>7 DEF Passes

\* The server says nothing about a read that it was not asked for.
LEMMA Unheard ==
  ASSUME TypeOK, LinesOK, NEW r \in Reads, ~Asked(r)
  PROVE  (\A m \in Said : m.re # r) /\ \A e \in 1..epoch : About(r, e) = {}
<1>1. DOMAIN line = 1..epoch
  BY SMT DEF TypeOK, epoch
<1>2. ASSUME NEW e \in 1..epoch, NEW i \in About(r, e) PROVE FALSE
  <2>1. <<r, e>> \in asked
    BY DEF LinesOK, LineOK
  <2>2. <<r, e>>[1] = r
    BY Pair
  <2> QED BY <2>1, <2>2 DEF Asked
<1>3. ASSUME NEW m \in Said PROVE m.re # r
  <2>1. PICK e \in DOMAIN line : \E i \in DOMAIN line[e] : m = line[e][i]
    BY SaidWhere
  <2> QED BY <1>1, <1>2, <2>1 DEF About
<1> QED BY <1>2, <1>3

-----------------------------------------------------------------------------
(* The way of the entries of a read                                         *)

\* A loop keeps what it has in hand.
Steady(l, at) == IF loop[l] = at THEN loop'[l] = at /\ msg'[l] = msg[l] ELSE loop'[l] # at

\* nil is no message of a stream.
LEMMA NilPasses == \A r, E, a : Passes(nil, r, E, a, a)
<1>1. nil.what # "entry" /\ nil.what # "end"
  BY SMT DEF nil
<1> QED BY <1>1 DEF Passes, IsEntry, IsEnd

\* The channel of a call.
LEMMA ChanType ==
  ASSUME Inv, NEW r \in Reads
  PROVE  chan[r] \in Seq({m \in Said : m.re = r} \cup {nil})
BY DEF Inv, ResponsesOK, ChanOK, Calls

\* A step that takes nothing from one stage to the next.
LEMMA WayStays ==
  ASSUME Inv, NEW r \in Reads, Way(r), Ends(r) \subseteq Ends(r)',
         chan'[r] = chan[r] \/ chan'[r] = Append(chan[r], nil),
         Len(Received(r))' = Len(Received(r)), Steady("process", "dispatch"),
         r \in pendingReads' =>
           /\ r \in pendingReads /\ s2c' = s2c
           /\ Steady("read", "push") \/ ~Live'
           /\ (Live /\ Fresh(r))' => /\ Live /\ Fresh(r)
                                     /\ UpTo(r, epoch, got)' = UpTo(r, epoch, got)
  PROVE  Way(r)'
<1>1. PICK a, b, c, d \in Nat : WayBy(r, a, b, c, d)
  BY DEF Way
<1>2. Run(chan[r], r, Ends(r), Len(Received(r)), a) /\ Hand("process", "dispatch", r, Ends(r), a, b)
  BY <1>1 DEF WayBy
<1>3. Run(chan'[r], r, Ends(r), Len(Received(r)), a)
  <2>1. CASE chan'[r] = chan[r]
    BY <1>2, <2>1
  <2>2. CASE chan'[r] = Append(chan[r], nil)
    <3>1. nil \in {m \in Said : m.re = r} \cup {nil}
      OBVIOUS
    <3> QED BY <1>2, <2>2, <3>1, ChanType, NilPasses, RunAppend
  <2> QED BY <2>1, <2>2
<1>4. Run(chan[r], r, Ends(r), Len(Received(r)), a)'
  <2>1. Run(chan'[r], r, Ends(r)', Len(Received(r)), a)
    BY <1>3, RunMore
  <2> QED BY <2>1
<1>5. Hand("process", "dispatch", r, Ends(r), a, b)'
  BY <1>2 DEF Hand, Steady, Passes
<1>6. CASE r \notin pendingReads'
  <2>1. WayBy(r, a, b, c, d)'
    BY <1>4, <1>5, <1>6 DEF WayBy
  <2> QED BY <2>1 DEF Way
<1>7. CASE r \in pendingReads'
  <2>0. /\ Run(s2c, r, Ends(r), b, c) /\ Hand("read", "push", r, Ends(r), c, d)
        /\ Live /\ Fresh(r) => d = Cardinality(UpTo(r, epoch, got))
    BY <1>1, <1>7 DEF WayBy
  <2>1. Run(s2c, r, Ends(r), b, c)'
    BY <1>7, <2>0, RunMore
  <2>2. CASE Steady("read", "push")
    <3>1. Hand("read", "push", r, Ends(r), c, d)'
      BY <2>0, <2>2 DEF Hand, Steady, Passes
    <3>2. (Live /\ Fresh(r) => d = Cardinality(UpTo(r, epoch, got)))'
      BY <1>7, <2>0
    <3>3. WayBy(r, a, b, c, d)'
      BY <1>4, <1>5, <2>1, <3>1, <3>2 DEF WayBy
    <3> QED BY <3>3 DEF Way
  <2>3. CASE ~Live'
    <3>1. Hand("read", "push", r, Ends(r), c, c)'
      BY <2>3 DEF Live, Hand
    <3>2. WayBy(r, a, b, c, c)'
      BY <1>4, <1>5, <2>1, <2>3, <3>1 DEF WayBy
    <3> QED BY <3>2 DEF Way
  <2> QED BY <1>7, <2>2, <2>3
<1> QED BY <1>6, <1>7

\* While the server says nothing, what it has said about a read stays the same.
LEMMA SameLine ==
  ASSUME UNCHANGED <<asked, line>>, NEW r
  PROVE  epoch' = epoch /\ Ends(r)' = Ends(r) /\ (Fresh(r)' <=> Fresh(r)) /\ (Asked(r)' <=> Asked(r))
<1>1. epoch' = epoch
  BY DEF epoch
<1>2. \A e : (IsOver(r, e)' <=> IsOver(r, e)) /\ Entries(r, e)' = Entries(r, e)
  BY DEF IsOver, Entries, About
<1>3. Ends(r)' = Ends(r)
  BY <1>1, <1>2 DEF Ends
<1> QED BY <1>1, <1>3 DEF Fresh, Asked

\* A connection on which r was not asked says nothing about it.
LEMMA NotHere ==
  ASSUME Inv, LinesOK, NEW r \in Reads, ~Fresh(r), NEW i \in DOMAIN line[epoch]
  PROVE  line[epoch][i].re # r
<1>1. epoch \in 1..epoch
  BY SMT DEF Inv, TypeOK
<1>2. PICK p \in asked : p[1] = r /\ p[2] # epoch
  BY DEF Fresh
<1>3. AskedOnce(r)
  BY DEF Inv, RequestsOK, Once, Calls
<1>4. ASSUME line[epoch][i].re = r PROVE FALSE
  <2>1. <<r, epoch>> \in asked
    BY <1>1, <1>4 DEF LinesOK, LineOK, About
  <2>2. <<r, epoch>>[1] = r /\ <<r, epoch>>[2] = epoch
    BY Pair
  <2> QED BY <1>2, <1>3, <2>1, <2>2 DEF AskedOnce
<1> QED BY <1>4

\* The read loop reads a response.
LEMMA WayRead ==
  ASSUME Inv, LinesOK, NEW r \in Reads, Way(r), got < Len(line[epoch]), loop["read"] = "run", got' = got + 1,
         msg' = [msg EXCEPT !["read"] = line[epoch][got + 1]], loop' = [loop EXCEPT !["read"] = "push"],
         UNCHANGED <<asked, line, s2c, chan, pendingReads, data, given, manager>>
  PROVE  Way(r)'
<1> DEFINE m == line[epoch][got + 1]
<1>1. /\ loop'["read"] = "push" /\ msg'["read"] = m
      /\ loop'["process"] = loop["process"] /\ msg'["process"] = msg["process"]
  BY InvFacts DEF LoopsOK, Loops
<1>2. epoch' = epoch /\ Ends(r)' = Ends(r) /\ (Fresh(r)' <=> Fresh(r)) /\ Received(r)' = Received(r)
  BY SameLine DEF Received
<1>3. PICK a, b, c, d \in Nat : WayBy(r, a, b, c, d)
  BY DEF Way
<1>4. /\ Run(chan[r], r, Ends(r), Len(Received(r)), a)'
      /\ Hand("process", "dispatch", r, Ends(r), a, b)'
  BY <1>1, <1>2, <1>3 DEF WayBy, Hand
<1>5. r \in pendingReads => /\ Run(s2c, r, Ends(r), b, c)' /\ c = d
                            /\ Fresh(r) => d = Cardinality(UpTo(r, epoch, got))
  BY <1>2, <1>3 DEF WayBy, Hand, Live
<1>6. epoch \in DOMAIN line /\ got \in Nat /\ epoch \in 1..epoch
  BY SMT DEF Inv, TypeOK, epoch
<1>7. CASE Fresh(r)
  <2>1. PICK x \in Nat : x = Cardinality(UpTo(r, epoch, got + 1))
    BY <1>6, UpToCount DEF Inv
  <2>2. UpTo(r, epoch, got)' = UpTo(r, epoch, got + 1)
    BY <1>2 DEF UpTo, Entries, About
  <2>3. Passes(m, r, Ends(r), Cardinality(UpTo(r, epoch, got)), x)
    BY <1>6, <2>1, NextPasses DEF Inv, LinesOK
  <2>4. r \in pendingReads => Passes(m, r, Ends(r), c, x)
    BY <1>5, <1>7, <2>3
  <2>5. r \in pendingReads => Hand("read", "push", r, Ends(r), c, x)'
    BY <1>1, <1>2, <2>4 DEF Hand
  <2>6. WayBy(r, a, b, c, x)'
    BY <1>4, <1>5, <2>1, <2>2, <2>5 DEF WayBy
  <2> QED BY <2>6 DEF Way
<1>8. CASE ~Fresh(r)
  <2>1. m.re # r
    BY <1>6, <1>8, UpToNext, NotHere DEF Inv
  <2>2. Passes(m, r, Ends(r), d, d)
    BY <2>1 DEF Passes, IsEntry, IsEnd
  <2>3. r \in pendingReads => Hand("read", "push", r, Ends(r), c, d)'
    BY <1>1, <1>2, <1>5, <2>2 DEF Hand
  <2>4. WayBy(r, a, b, c, d)'
    BY <1>2, <1>4, <1>5, <1>8, <2>3 DEF WayBy
  <2> QED BY <2>4 DEF Way
<1> QED BY <1>7, <1>8

\* The read loop puts it into s2c.
LEMMA WayPush ==
  ASSUME Inv, NEW r \in Reads, Way(r), PushMessage
  PROVE  Way(r)'
<1>0. /\ loop["read"] = "push" /\ s2c' = Append(s2c, msg["read"])
      /\ loop' = [loop EXCEPT !["read"] = "run"] /\ msg' = [msg EXCEPT !["read"] = NoMsg]
      /\ UNCHANGED <<asked, line, chan, pendingReads, data, given, got>>
  BY DEF PushMessage
<1>1. /\ loop'["read"] = "run" /\ msg["read"] \in Said /\ s2c \in Seq(Said)
      /\ loop'["process"] = loop["process"] /\ msg'["process"] = msg["process"]
  BY <1>0, InvFacts DEF LoopsOK, Loops
<1>2. epoch' = epoch /\ Ends(r)' = Ends(r) /\ (Fresh(r)' <=> Fresh(r)) /\ Received(r)' = Received(r)
  BY <1>0, SameLine DEF Received
<1>3. PICK a, b, c, d \in Nat : WayBy(r, a, b, c, d)
  BY DEF Way
<1>4. /\ Run(chan[r], r, Ends(r), Len(Received(r)), a)'
      /\ Hand("process", "dispatch", r, Ends(r), a, b)'
  BY <1>0, <1>1, <1>2, <1>3 DEF WayBy, Hand
<1>5. r \in pendingReads => /\ Run(s2c, r, Ends(r), b, c) /\ Passes(msg["read"], r, Ends(r), c, d)
                            /\ Fresh(r) => d = Cardinality(UpTo(r, epoch, got))
  BY <1>0, <1>3 DEF WayBy, Hand, Live
<1>6. r \in pendingReads => Run(s2c', r, Ends(r), b, d)
  BY <1>0, <1>1, <1>5, RunAppend
<1>7. Hand("read", "push", r, Ends(r), d, d)'
  BY <1>1 DEF Hand
<1>8. UpTo(r, epoch, got)' = UpTo(r, epoch, got)
  BY <1>0, <1>2 DEF UpTo, Entries, About
<1>9. WayBy(r, a, b, d, d)'
  BY <1>0, <1>2, <1>4, <1>5, <1>6, <1>7, <1>8 DEF WayBy
<1> QED BY <1>9 DEF Way

\* processResponses takes a response from s2c, and drops it if nobody waits for it.
LEMMA WayTake ==
  ASSUME Inv, pendingWrites \subseteq Writes, NEW r \in Reads, Way(r), TakeResponse
  PROVE  Way(r)'
<1> DEFINE m == Head(s2c)
<1>0. /\ loop["process"] = "run" /\ s2c # <<>> /\ s2c' = Tail(s2c)
      /\ UNCHANGED <<asked, line, chan, pendingReads, data, given, got, manager>>
      /\ \/ /\ m.re \in pendingWrites \cup pendingReads
            /\ loop' = [loop EXCEPT !["process"] = "dispatch"] /\ msg' = [msg EXCEPT !["process"] = m]
         \/ m.re \notin pendingWrites \cup pendingReads /\ UNCHANGED <<loop, msg>>
  BY DEF TakeResponse
<1>1. /\ s2c \in Seq(Said) /\ r \notin pendingWrites
      /\ loop'["read"] = loop["read"] /\ msg'["read"] = msg["read"]
  BY <1>0, InvFacts, RequestsAssumption DEF LoopsOK, Loops
<1>2. epoch' = epoch /\ Ends(r)' = Ends(r) /\ (Fresh(r)' <=> Fresh(r)) /\ Received(r)' = Received(r)
  BY <1>0, SameLine DEF Received
<1>3. PICK a, b, c, d \in Nat : WayBy(r, a, b, c, d)
  BY DEF Way
<1>4. Run(chan[r], r, Ends(r), Len(Received(r)), a)' /\ b = a
  BY <1>0, <1>2, <1>3 DEF WayBy, Hand
<1>5. r \in pendingReads => /\ Run(s2c, r, Ends(r), b, c) /\ Hand("read", "push", r, Ends(r), c, d)
                            /\ Live /\ Fresh(r) => d = Cardinality(UpTo(r, epoch, got))
  BY <1>3 DEF WayBy
<1>6. PICK x \in Nat : /\ r \in pendingReads => Passes(m, r, Ends(r), b, x) /\ Run(s2c', r, Ends(r), x, c)
                       /\ r \notin pendingReads => x = b
  BY <1>0, <1>1, <1>5, RunTail
<1>7. (Live /\ Fresh(r) => d = Cardinality(UpTo(r, epoch, got)))' \/ r \notin pendingReads
  <2>1. UpTo(r, epoch, got)' = UpTo(r, epoch, got)
    BY <1>0, <1>2 DEF UpTo, Entries, About
  <2> QED BY <1>0, <1>1, <1>2, <1>5, <2>1 DEF Live
<1>8. Hand("read", "push", r, Ends(r), c, d)' \/ r \notin pendingReads
  BY <1>1, <1>2, <1>5 DEF Hand
<1>9. ASSUME m.re # r PROVE Passes(m, r, Ends(r), b, x) /\ x = b
  BY <1>6, <1>9 DEF Passes, IsEntry, IsEnd
<1>10. CASE m.re \in pendingWrites \cup pendingReads
  <2>1. loop'["process"] = "dispatch" /\ msg'["process"] = m
    BY <1>0, <1>10, InvFacts DEF LoopsOK, Loops
  <2>2. Passes(m, r, Ends(r), a, x)
    BY <1>1, <1>4, <1>6, <1>9, <1>10
  <2>3. Hand("process", "dispatch", r, Ends(r), a, x)'
    BY <1>2, <2>1, <2>2 DEF Hand
  <2>4. WayBy(r, a, x, c, d)'
    BY <1>0, <1>2, <1>4, <1>6, <1>7, <1>8, <2>3 DEF WayBy
  <2> QED BY <2>4 DEF Way
<1>11. CASE m.re \notin pendingWrites \cup pendingReads
  <2>1. loop'["process"] = "run" /\ (r \in pendingReads => m.re # r)
    BY <1>0, <1>11
  <2>2. x = b
    BY <1>6, <1>9, <2>1
  <2>3. Hand("process", "dispatch", r, Ends(r), a, b)'
    BY <1>4, <2>1 DEF Hand
  <2>4. WayBy(r, a, b, c, d)'
    BY <1>0, <1>2, <1>4, <1>6, <1>7, <1>8, <2>2, <2>3 DEF WayBy
  <2> QED BY <2>4 DEF Way
<1> QED BY <1>10, <1>11

\* processResponses hands it over to the read it is for.
LEMMA WayDispatch ==
  ASSUME Inv, ManagerOK, NEW r \in Reads, ~Over(r), Way(r), Dispatch
  PROVE  Way(r)'
<1> DEFINE m == msg["process"]
<1>0. /\ loop["process"] = "dispatch" /\ loop' = [loop EXCEPT !["process"] = "run"]
      /\ msg' = [msg EXCEPT !["process"] = NoMsg]
      /\ UNCHANGED <<asked, line, s2c, pendingReads, data, given, got, manager>>
      /\ \/ m.re \in closed /\ UNCHANGED chan
         \/ /\ m.re \notin closed /\ m.re \in Reads => Len(chan[m.re]) < ReadCap
            /\ chan' = [chan EXCEPT ![m.re] = Offer(@, IF m.re \in Writes THEN 1 ELSE ReadCap, m)]
  BY DEF Dispatch
<1>1. /\ m \in Said /\ loop'["process"] = "run" /\ chan = [k \in Calls |-> chan[k]] /\ r \in Calls
      /\ loop'["read"] = loop["read"] /\ msg'["read"] = msg["read"] /\ r \notin Writes
  BY <1>0, InvFacts, RequestsAssumption DEF LoopsOK, ChanOK, Loops, Calls
<1>2. epoch' = epoch /\ Ends(r)' = Ends(r) /\ (Fresh(r)' <=> Fresh(r)) /\ Received(r)' = Received(r)
  BY <1>0, SameLine DEF Received
<1>3. PICK a, b, c, d \in Nat : WayBy(r, a, b, c, d)
  BY DEF Way
<1>4. Run(chan[r], r, Ends(r), Len(Received(r)), a) /\ Passes(m, r, Ends(r), a, b)
  BY <1>0, <1>3 DEF WayBy, Hand
<1>5. r \in pendingReads => /\ Run(s2c, r, Ends(r), b, c)' /\ Hand("read", "push", r, Ends(r), c, d)'
                            /\ (Live /\ Fresh(r) => d = Cardinality(UpTo(r, epoch, got)))'
  <2>1. UpTo(r, epoch, got)' = UpTo(r, epoch, got)
    BY <1>0, <1>2 DEF UpTo, Entries, About
  <2> QED BY <1>0, <1>1, <1>2, <1>3, <2>1 DEF WayBy, Live, Hand
<1>6. Run(chan'[r], r, Ends(r), Len(Received(r)), b)
  <2>1. CASE m.re = r
    <3>1. r \notin closed
      BY DEF ManagerOK, Over
    <3>2. chan'[r] = Append(chan[r], m)
      BY <1>0, <1>1, <2>1, <3>1 DEF Offer
    <3>3. m \in {x \in Said : x.re = r} \cup {nil}
      BY <1>1, <2>1
    <3> QED BY <1>4, <3>2, <3>3, ChanType, RunAppend
  <2>2. CASE m.re # r
    <3>1. chan'[r] = chan[r]
      BY <1>0, <1>1, <2>2
    <3>2. b = a
      BY <1>4, <2>2 DEF Passes, IsEntry
    <3> QED BY <1>4, <3>1, <3>2
  <2> QED BY <2>1, <2>2
<1>7. Hand("process", "dispatch", r, Ends(r), b, b)'
  BY <1>1 DEF Hand
<1>8. WayBy(r, b, b, c, d)'
  BY <1>0, <1>2, <1>5, <1>6, <1>7 DEF WayBy
<1> QED BY <1>8 DEF Way

-----------------------------------------------------------------------------
(* A read                                                                   *)

\* An entry goes into Data.
Longer(t, s, n) ==
  Len(s) \in Nat /\ Len(t) = Len(s) + 1 /\ t[Len(s) + 1] = n /\ \A i \in 1..Len(s) : t[i] = s[i]

\* What Received is then.
LEMMA ConcatAppend == \A s, t \in Seq(Nat) : \A n \in Nat : Longer(s \o Append(t, n), s \o t, n)
BY SMT DEF Longer

\* An entry goes from Data to the consumer.
LEMMA ConcatMove ==
  ASSUME NEW s \in Seq(Nat), NEW t \in Seq(Nat), t # <<>>
  PROVE  Append(s, Head(t)) \o Tail(t) = s \o t
BY SMT

\* A step that is not about r: no response goes from one stage to the next, nobody
\* is asked or answered but others, and the call of r does not begin again.
LEMMA Elsewhere ==
  ASSUME Inv, NEW r \in Reads, ReadOK(r), UNCHANGED <<line, s2c, got>>, asked \subseteq asked',
         Received(r)' = Received(r), chan'[r] = chan[r] \/ chan'[r] = Append(chan[r], nil),
         Steady("process", "dispatch"), r \in pendingReads' => r \in pendingReads,
         Steady("read", "push") \/ ~Live', Live' => Live, Over(r) => Over(r)',
         result'[r] = "end" => result[r] = "end"
  PROVE  ReadOK(r)'
<1>1. epoch' = epoch /\ Ends(r)' = Ends(r)
  <2>1. epoch' = epoch
    BY DEF epoch
  <2>2. \A e : (IsOver(r, e)' <=> IsOver(r, e)) /\ Entries(r, e)' = Entries(r, e)
    BY DEF IsOver, Entries, About
  <2> QED BY <2>1, <2>2 DEF Ends
<1>2. (Fresh(r)' => Fresh(r)) /\ (Asked(r) => Asked(r)')
  BY <1>1 DEF Fresh, Asked
<1>3. UpTo(r, epoch, got)' = UpTo(r, epoch, got)
  BY <1>1 DEF UpTo, Entries, About
<1>4. ~Over(r)' => Way(r)'
  <2>1. Way(r) => Way(r)'
    BY <1>1, <1>2, <1>3, WayStays
  <2> QED BY <2>1 DEF ReadOK
<1>5. result'[r] = "end" => Over(r)' /\ Len(Received(r))' \in Ends(r)'
  BY <1>1 DEF ReadOK
<1>6. Asked(r)' \/ Received(r)' = <<>>
  BY <1>2 DEF ReadOK
<1>7. (\A i \in 1..Len(Received(r)) : Received(r)[i] = i)'
  BY DEF ReadOK
<1> QED BY <1>4, <1>5, <1>6, <1>7 DEF ReadOK

\* The loops, when they carry no response.
LEMMA ReadLoops ==
  ASSUME Inv, ManagerOK, NEW r \in Reads, ReadOK(r), NEW l \in Loops,
         \/ Stopped(l)
         \/ l \in {"read", "write"} /\ (Begin(l) \/ HandleError(l))
         \/ l = "read" /\ UNCHANGED <<got, msg>> /\ ReadMessage
         \/ l = "write" /\ (TakeRequest \/ SendMessage)
  PROVE  ReadOK(r)'
<1>0. LoopsOK(loop, msg) /\ {"read", "write", "process"} \subseteq Loops /\ r \in Calls
  BY InvFacts DEF Loops, Calls
<1>1. UNCHANGED <<line, s2c, got, data, given, call, result, manager>> /\ asked \subseteq asked'
  BY DEF HandleError, CloseConnection, TryClose, CloseStop, failPendingWrites, failPendingReads, Stopped,
     Begin, ReadMessage, TakeRequest, SendMessage, Ask
<1>2. \/ UNCHANGED <<chan, pendingReads>>
      \/ /\ pendingReads' = pendingReads \/ pendingReads' = {}
         /\ \E pending, cap : FailPending(pending, cap)
  BY DEF HandleError, CloseConnection, TryClose, CloseStop, failPendingWrites, failPendingReads, Stopped,
     Begin, ReadMessage, TakeRequest, SendMessage
<1>3. chan'[r] = chan[r] \/ chan'[r] = Append(chan[r], nil)
  BY <1>0, <1>2 DEF FailPending, Offer
<1>4. loop[l] # "done" /\ loop[l] # "dispatch"
  BY DEF HandleError, CloseConnection, TryClose, CloseStop, failPendingWrites, failPendingReads, Stopped,
     Begin, ReadMessage, TakeRequest, SendMessage
<1>5. PICK at \in {"run", "send", "error", "try_close", "close", "fail_writes", "fail_reads", "done"} :
           loop' = [loop EXCEPT ![l] = at] /\ (at = "run" => l # "read" \/ loop[l] = "begin")
  <2>1. CASE Stopped(l)
    <3>1. loop' = [loop EXCEPT ![l] = "done"]
      BY <2>1 DEF Stopped
    <3> QED BY <3>1
  <2>2. CASE Begin(l)
    <3>1. loop' = [loop EXCEPT ![l] = "run"] \/ loop' = [loop EXCEPT ![l] = "error"]
      BY <2>2 DEF Begin
    <3> QED BY <2>2, <3>1 DEF Begin
  <2>3. CASE HandleError(l)
    BY <2>3 DEF HandleError, CloseConnection, TryClose, CloseStop, failPendingWrites, failPendingReads
  <2>4. CASE l = "read" /\ UNCHANGED got /\ ReadMessage
    <3>1. got' # got + 1
      BY SMT, <2>4 DEF Inv, TypeOK
    <3>2. loop' = [loop EXCEPT ![l] = "error"]
      BY <2>4, <3>1 DEF ReadMessage
    <3> QED BY <3>2
  <2>5. CASE l = "write" /\ (TakeRequest \/ SendMessage)
    <3>1. \E x \in {"run", "error", "send"} : loop' = [loop EXCEPT !["write"] = x]
      BY <2>5 DEF TakeRequest, SendMessage
    <3> QED BY <2>5, <3>1
  <2> QED BY <2>1, <2>2, <2>3, <2>4, <2>5
<1>6. /\ \A k \in Loops \ {l} : loop'[k] = loop[k] /\ msg'[k] = msg[k]
      /\ loop'[l] = at
  <2>1. msg' = msg \/ \E m : msg' = [msg EXCEPT ![l] = m]
    BY DEF HandleError, CloseConnection, TryClose, CloseStop, failPendingWrites, failPendingReads, Stopped,
       Begin, TakeRequest, SendMessage
  <2> QED BY <1>0, <1>5, <2>1 DEF LoopsOK
<1>7. manager = "wait" /\ manager' = "wait"
  BY <1>1, <1>4 DEF ManagerOK
<1>8. Steady("process", "dispatch")
  BY <1>0, <1>4, <1>5, <1>6 DEF Steady
<1>9. (Steady("read", "push") \/ ~Live') /\ (Live' => Live)
  <2>1. CASE l = "read" /\ at = "run"
    BY <1>5, <1>6, <2>1 DEF Live, Steady
  <2>2. CASE l = "read" /\ at # "run"
    BY <1>5, <1>6, <1>7, <2>2 DEF Live
  <2>3. CASE l # "read"
    BY <1>0, <1>1, <1>6, <2>3 DEF Live, Steady
  <2> QED BY <2>1, <2>2, <2>3
<1>10. Received(r)' = Received(r) /\ (Over(r) => Over(r)')
  BY <1>1 DEF Received, Over
<1> QED BY <1>1, <1>2, <1>3, <1>8, <1>9, <1>10, Elsewhere

\* The manager on a connection, failures of connections, and consumers.
LEMMA ReadManager ==
  ASSUME Inv, ManagerOK, NEW r \in Reads, ReadOK(r),
         \/ SetUp \/ SetUpFails \/ StartLoops \/ LoopsEnded \/ Break \/ closeConnectionInternal
         \/ \E x \in Reads : Consume(x)
         \/ UNCHANGED vars
  PROVE  ReadOK(r)'
<1>0. {"read", "process"} \subseteq Loops /\ r \in Calls
  BY DEF Loops, Calls
<1>1. UNCHANGED <<asked, line, s2c, got, call, result, msg>>
  BY DEF SetUp, SetUpFails, StartLoops, LoopsEnded, Break, closeConnectionInternal, Consume, vars
<1>2. /\ r \in pendingReads' => r \in pendingReads
      /\ chan'[r] = chan[r] \/ chan'[r] = Append(chan[r], nil)
  <2>1. CASE SetUpFails
    <3>1. \/ chan'[r] = chan[r] \/ chan'[r] = Offer(chan[r], 1, nil)
          \/ chan'[r] = Offer(chan[r], ReadCap, nil)
      BY SMT, <1>0, <2>1 DEF SetUpFails
    <3>2. pendingReads' = {}
      BY <2>1 DEF SetUpFails
    <3> QED BY <3>1, <3>2 DEF Offer
  <2>2. CASE ~SetUpFails
    BY <2>2 DEF SetUp, StartLoops, LoopsEnded, Break, closeConnectionInternal, Consume, vars
  <2> QED BY <2>1, <2>2
<1>3. Received(r)' = Received(r)
  <2>1. CASE \E x \in Reads : Consume(x)
    <3>1. PICK x \in Reads : Consume(x)
      BY <2>1
    <3>2. /\ data[x] # <<>> /\ given' = [given EXCEPT ![x] = Append(@, Head(data[x]))]
          /\ data' = [data EXCEPT ![x] = Tail(@)]
      BY <3>1 DEF Consume
    <3>3. data \in [Reads -> Seq(Nat)] /\ given \in [Reads -> Seq(Nat)]
      BY DEF ManagerOK
    <3>4. CASE x = r
      <4>1. given'[r] = Append(given[r], Head(data[r])) /\ data'[r] = Tail(data[r])
        BY <3>2, <3>3, <3>4
      <4>2. given[r] \in Seq(Nat) /\ data[r] \in Seq(Nat)
        BY <3>3
      <4>3. Append(given[r], Head(data[r])) \o Tail(data[r]) = given[r] \o data[r]
        BY <3>2, <3>4, <4>2, ConcatMove
      <4> QED BY <4>1, <4>3 DEF Received
    <3>5. CASE x # r
      <4>1. given'[r] = given[r] /\ data'[r] = data[r]
        BY <3>2, <3>3, <3>5
      <4> QED BY <4>1 DEF Received
    <3> QED BY <3>4, <3>5
  <2>2. CASE UNCHANGED <<data, given>>
    BY <2>2 DEF Received
  <2> QED BY <2>1, <2>2
     DEF SetUp, SetUpFails, StartLoops, LoopsEnded, Break, closeConnectionInternal, vars
<1>4. /\ Steady("process", "dispatch") /\ Steady("read", "push")
      /\ Live' => Live
  <2>1. CASE StartLoops
    <3>1. loop["read"] = "done" /\ loop["process"] = "done" /\ Live
      BY <1>0, <2>1 DEF StartLoops, ManagerOK, Live
    <3>2. loop'["read"] = "begin" /\ loop'["process"] = "run"
      BY <1>0, <2>1 DEF StartLoops
    <3> QED BY <3>1, <3>2 DEF Steady
  <2>2. CASE ~StartLoops
    <3>1. UNCHANGED <<loop, msg>>
      BY <2>2 DEF SetUp, SetUpFails, LoopsEnded, Break, closeConnectionInternal, Consume, vars
    <3>2. manager' = manager \/ manager' = "dial" \/ (manager = "setup" /\ manager' = "start")
      BY <2>2 DEF SetUp, SetUpFails, LoopsEnded, Break, closeConnectionInternal, Consume, vars
    <3> QED BY <3>1, <3>2 DEF Live, Steady
  <2> QED BY <2>1, <2>2
<1>5. Over(r) => Over(r)'
  BY <1>1 DEF Over
<1> QED BY <1>1, <1>2, <1>3, <1>4, <1>5, Elsewhere

\* The calls, but for what r itself registers and receives.
LEMMA ReadCalls ==
  ASSUME Inv, ManagerOK, NEW r \in Reads, ReadOK(r), NEW k \in Calls,
         \/ Check(k) \/ Request(k) \/ Leave(k) \/ CloseChannel(k)
         \/ k # r /\ (Register(k) \/ Receive(k))
  PROVE  ReadOK(r)'
<1>0. /\ r \in Calls /\ call = [x \in Calls |-> call[x]] /\ result = [x \in Calls |-> result[x]]
      /\ chan = [x \in Calls |-> chan[x]]
  BY InvFacts DEF Calls, Inv, TypeOK, ChanOK
<1>1. UNCHANGED <<asked, line, s2c, got, given, loop, msg, manager>>
  BY DEF Check, Request, Leave, CloseChannel, Register, Receive
<1>2. chan' = chan \/ (k # r /\ chan' = [chan EXCEPT ![k] = Tail(@)])
  BY DEF Check, Request, Leave, CloseChannel, Register, Receive
<1>3. pendingReads' \in {pendingReads, pendingReads \ {k}} \/ (k # r /\ pendingReads' = pendingReads \cup {k})
  BY DEF Check, Request, Leave, CloseChannel, Register, Receive
<1>4. UNCHANGED data \/ (k # r /\ \E x : data' = [data EXCEPT ![k] = x])
  <2>1. CASE k # r /\ Receive(k)
    <3>1. \/ UNCHANGED data
          \/ data' = [data EXCEPT ![k] = Append(data[k], Head(chan[k]).n)]
      BY SMT, <2>1 DEF Receive
    <3> QED BY <2>1, <3>1
  <2> QED BY <2>1 DEF Check, Request, Leave, CloseChannel, Register
<1>5. /\ Over(r) => Over(r)'
      /\ result'[r] = "end" => result[r] = "end"
  <2>1. CASE k # r
    <3>1. call' = call \/ \E x : call' = [call EXCEPT ![k] = x]
      <4>1. CASE Receive(k)
        <5>1. \/ call' = call \/ call' = [call EXCEPT ![k] = "stream"]
              \/ call' = [call EXCEPT ![k] = "leave"]
          BY SMT, <4>1 DEF Receive
        <5> QED BY <5>1
      <4> QED BY <4>1 DEF Check, Request, Leave, CloseChannel, Register
    <3>2. result' = result \/ \E x : result' = [result EXCEPT ![k] = x]
      <4>1. CASE Receive(k)
        <5>1. result' = result \/ result' = [result EXCEPT ![k] = Outcome(Head(chan[k]))]
          BY SMT, <4>1 DEF Receive
        <5> QED BY <5>1
      <4> QED BY <4>1 DEF Check, Request, Leave, CloseChannel, Register
    <3>3. call'[r] = call[r] /\ result'[r] = result[r]
      BY <1>0, <2>1, <3>1, <3>2
    <3> QED BY <3>3 DEF Over
  <2>2. CASE k = r
    <3>1. CASE Check(k) \/ Request(k)
      <4>1. ~Over(r)
        BY <2>2, <3>1 DEF Check, Request, Over
      <4>2. \/ result' = result
            \/ \E x \in {"not connected", "full"} : result' = [result EXCEPT ![k] = x]
        BY <3>1 DEF Check, Request
      <4> QED BY <1>0, <2>2, <4>1, <4>2
    <3>2. CASE Leave(k) \/ CloseChannel(k)
      <4>1. result' = result /\ (call' = [call EXCEPT ![k] = "close"] \/ call' = [call EXCEPT ![k] = "returned"])
        BY <3>2 DEF Leave, CloseChannel
      <4> QED BY <1>0, <2>2, <4>1 DEF Over
    <3> QED BY <2>2, <3>1, <3>2
  <2> QED BY <2>1, <2>2
<1>6. chan'[r] = chan[r] /\ (r \in pendingReads' => r \in pendingReads)
  BY <1>0, <1>2, <1>3
<1>7. Received(r)' = Received(r)
  <2>1. data \in [Reads -> Seq(Nat)]
    BY DEF ManagerOK
  <2>2. data'[r] = data[r]
    BY <1>4, <2>1
  <2> QED BY <1>1, <2>2 DEF Received
<1>8. Steady("process", "dispatch") /\ Steady("read", "push") /\ (Live' => Live)
  BY <1>1 DEF Steady, Live
<1> QED BY <1>1, <1>5, <1>6, <1>7, <1>8, Elsewhere

\* A read that the server was not asked for has nothing on its way.
LEMMA WayStarts ==
  ASSUME Inv, LinesOK, NEW r \in Reads, ~Asked(r), UNCHANGED <<chan, s2c, loop, msg>>,
         Received(r)' = <<>>, UpTo(r, epoch, got)' = {}
  PROVE  Way(r)'
<1> DEFINE E == Ends(r)'
<1>1. 0 \in Nat /\ Len(<< >>) = 0 /\ nil.what = "nil"
  BY SMT DEF nil
<1>2. \A m \in Said : ~IsEntry(m, r) /\ ~IsEnd(m, r)
  BY Unheard DEF Inv, IsEntry, IsEnd
<1>3. ~IsEntry(nil, r) /\ ~IsEnd(nil, r)
  BY <1>1 DEF IsEntry, IsEnd
<1>4. chan[r] \in Seq(Said \cup {nil}) /\ s2c \in Seq(Said \cup {nil})
  <2>1. s2c \in Seq(Said)
    BY InvFacts
  <2> QED BY <2>1, ChanType, SeqOfMore
<1>5. \A s \in Seq(Said \cup {nil}) : \A i \in 1..Len(s) : s[i] \in Said \cup {nil}
  BY SMT
<1>6. Run(chan[r], r, E, 0, 0) /\ Run(s2c, r, E, 0, 0)
  <2>1. \A s \in Seq(Said \cup {nil}) : \A i \in 1..Len(s) : ~IsEntry(s[i], r) /\ ~IsEnd(s[i], r)
    BY <1>2, <1>3, <1>5
  <2>2. ASSUME NEW s \in Seq(Said \cup {nil}) PROVE Run(s, r, E, 0, 0)
    BY <1>1, <2>1, RunPlain
  <2> QED BY <1>4, <2>2
<1>7. \A m \in Said : Passes(m, r, E, 0, 0)
  BY <1>2 DEF Passes
<1>8. Hand("process", "dispatch", r, Ends(r), 0, 0)' /\ Hand("read", "push", r, Ends(r), 0, 0)'
  BY <1>7, InvFacts DEF Hand, LoopsOK
<1>9. Cardinality(UpTo(r, epoch, got)') = 0
  BY FS_EmptySet
<1>10. WayBy(r, 0, 0, 0, 0)'
  BY <1>1, <1>6, <1>8, <1>9 DEF WayBy
<1> QED BY <1>1, <1>10 DEF Way

\* A read registers.
LEMMA ReadRegisters ==
  ASSUME Inv, LinesOK, NEW r \in Reads, ReadOK(r), Register(r)
  PROVE  ReadOK(r)'
<1>1. /\ UNCHANGED <<asked, line, chan, s2c, loop, msg, data, given, got, result>>
      /\ call[r] = "register"
  BY DEF Register
<1>2. ~Asked(r)
  BY <1>1 DEF Inv, RequestsOK, Once, Absent, Unsent, Calls
<1>3. Received(r) = <<>> /\ result[r] # "end"
  BY <1>1, <1>2 DEF ReadOK, Over
<1>4. Received(r)' = <<>>
  BY <1>1, <1>3 DEF Received
<1>5. UpTo(r, epoch, got)' = {}
  <2>1. epoch \in 1..epoch /\ epoch' = epoch
    BY SMT, <1>1 DEF Inv, TypeOK, epoch
  <2>2. About(r, epoch) = {}
    BY <1>2, <2>1, Unheard DEF Inv
  <2>3. About(r, epoch)' = {}
    BY <1>1, <2>1, <2>2 DEF About
  <2> QED BY <2>3 DEF UpTo, Entries
<1>6. Way(r)'
  BY <1>1, <1>2, <1>4, <1>5, WayStarts
<1>7. Len(<< >>) = 0 /\ 1..0 = {}
  BY SMT
<1> QED BY <1>1, <1>3, <1>4, <1>6, <1>7 DEF ReadOK

\* The next connection.  A read that was asked on an earlier one gets nothing from it.
LEMMA ReadDials ==
  ASSUME Inv, LinesOK, ManagerOK, NEW r \in Reads, ReadOK(r), Dial
  PROVE  ReadOK(r)' /\ \A e \in 1..epoch' : LineOK(r, e)'
<1>0. /\ UNCHANGED <<asked, chan, s2c, loop, msg, data, given, result, call, pendingReads>>
      /\ got' = 0 /\ line' = Append(line, <<>>) /\ manager' = "setup" /\ manager = "dial"
  BY DEF Dial, Reconnect
<1>1. /\ epoch' = epoch + 1 /\ epoch \in Nat /\ line'[epoch + 1] = <<>> /\ \A e \in 1..epoch : line'[e] = line[e]
  BY SMT, <1>0 DEF Inv, TypeOK, epoch
<1>2. /\ epoch + 1 \notin 1..epoch /\ 1..epoch \subseteq 1..epoch' /\ DOMAIN << >> = {}
      /\ \A e \in 1..epoch' : e \in 1..epoch \/ e = epoch + 1
  BY SMT, <1>1
<1>3. /\ \A e \in 1..epoch : About(r, e)' = About(r, e) /\ Entries(r, e)' = Entries(r, e)
      /\ About(r, epoch)' = {}
  BY <1>1, <1>2 DEF About, Entries
<1>4. ASSUME NEW e \in 1..epoch' PROVE LineOK(r, e)'
  <2>1. CASE e \in 1..epoch
    <3>1. \A i : UpTo(r, e, i)' = UpTo(r, e, i)
      BY <1>3, <2>1 DEF UpTo
    <3>2. LineOK(r, e)
      BY <2>1 DEF LinesOK
    <3> QED BY <1>0, <1>1, <1>3, <2>1, <3>1, <3>2 DEF LineOK
  <2>2. CASE e = epoch'
    BY <1>3, <2>2 DEF LineOK
  <2> QED BY <1>1, <1>2, <2>1, <2>2
<1>5. Ends(r) \subseteq Ends(r)'
  <2>1. \A e \in 1..epoch : IsOver(r, e) => IsOver(r, e)'
    BY <1>1, <1>3 DEF IsOver
  <2> QED BY <1>2, <1>3, <2>1 DEF Ends
<1>6. Received(r)' = Received(r) /\ (Asked(r)' <=> Asked(r)) /\ (Over(r)' <=> Over(r))
  BY <1>0 DEF Received, Asked, Over
<1>7. ~Over(r) => Way(r)'
  <2>1. CASE ~Asked(r)
    <3>1. Received(r)' = <<>>
      BY <1>6, <2>1 DEF ReadOK
    <3>2. UpTo(r, epoch, got)' = {}
      BY <1>1, <1>3 DEF UpTo, Entries
    <3> QED BY <1>0, <2>1, <3>1, <3>2, WayStarts
  <2>2. CASE Asked(r)
    <3>1. PICK p \in asked : p[1] = r
      BY <2>2 DEF Asked
    <3>2. p[2] \in 1..epoch
      <4>1. p \in Calls \X (1..epoch)
        BY DEF Inv, TypeOK
      <4> QED BY SMT, <4>1
    <3>3. ~Fresh(r)'
      BY <1>0, <1>1, <1>2, <3>1, <3>2 DEF Fresh
    <3>4. Steady("process", "dispatch") /\ Steady("read", "push")
      BY <1>0 DEF Steady
    <3> QED BY <1>0, <1>5, <1>6, <3>3, <3>4, WayStays DEF ReadOK
  <2> QED BY <2>1, <2>2
<1>8. ReadOK(r)'
  BY <1>0, <1>5, <1>6, <1>7 DEF ReadOK
<1> QED BY <1>4, <1>8

\* A read receives: the answer to its request, an entry, the end, or nil.
LEMMA ReadReceives ==
  ASSUME Inv, LinesOK, ManagerOK, NEW r \in Reads, ReadOK(r), Receive(r)
  PROVE  ReadOK(r)'
<1> DEFINE m == Head(chan[r])
           n == Len(Received(r))
<1>0. /\ UNCHANGED <<asked, line, s2c, loop, msg, got, given, pendingReads, manager>> /\ chan[r] # <<>>
      /\ chan' = [chan EXCEPT ![r] = Tail(@)] /\ call[r] \in {"wait", "stream"}
  BY DEF Receive
<1>1. \/ m.what = "start" /\ call' = [call EXCEPT ![r] = "stream"] /\ UNCHANGED <<result, data>>
      \/ /\ m.what = "entry" /\ data' = [data EXCEPT ![r] = Append(@, m.n)]
         /\ UNCHANGED <<call, result>>
      \/ /\ call' = [call EXCEPT ![r] = "leave"] /\ result' = [result EXCEPT ![r] = Outcome(m)]
         /\ UNCHANGED data
  BY SMT DEF Receive
<1>2. /\ r \in Calls /\ call = [x \in Calls |-> call[x]] /\ result = [x \in Calls |-> result[x]]
      /\ chan = [x \in Calls |-> chan[x]] /\ data \in [Reads -> Seq(Nat)] /\ given \in [Reads -> Seq(Nat)]
  BY InvFacts DEF Calls, Inv, TypeOK, ChanOK, ManagerOK
<1>3. ~Over(r) /\ Way(r) /\ result[r] # "end" /\ \A i \in 1..n : Received(r)[i] = i
  BY <1>0 DEF Over, ReadOK
<1>4. m \in {x \in Said : x.re = r} \cup {nil}
  BY <1>0, ChanType, TailFacts
<1>5. m = nil => m.what = "nil"
  BY SMT DEF nil
<1>6. /\ epoch' = epoch /\ Ends(r)' = Ends(r) /\ (Fresh(r)' <=> Fresh(r)) /\ (Asked(r)' <=> Asked(r))
      /\ UpTo(r, epoch, got)' = UpTo(r, epoch, got)
  <2>1. epoch' = epoch
    BY <1>0 DEF epoch
  <2>2. UpTo(r, epoch, got)' = UpTo(r, epoch, got)
    BY <1>0, <2>1 DEF UpTo, Entries, About
  <2> QED BY <1>0, <2>2, SameLine
<1>7. PICK a, b, c, d \in Nat : WayBy(r, a, b, c, d)
  BY <1>3 DEF Way
<1>8. PICK x \in Nat : Passes(m, r, Ends(r), n, x) /\ Run(chan'[r], r, Ends(r), x, a)
  <2>1. Run(chan[r], r, Ends(r), n, a)
    BY <1>7 DEF WayBy
  <2>2. \E x \in Nat : Passes(m, r, Ends(r), n, x) /\ Run(Tail(chan[r]), r, Ends(r), x, a)
    BY <1>0, <2>1, ChanType, RunTail
  <2>3. chan'[r] = Tail(chan[r])
    BY <1>0, <1>2
  <2> QED BY <2>2, <2>3
<1>9. ASSUME Len(Received(r))' = x PROVE Way(r)'
  <2>1. Run(chan[r], r, Ends(r), Len(Received(r)), a)'
    BY <1>6, <1>8, <1>9
  <2>2. /\ Hand("process", "dispatch", r, Ends(r), a, b)'
        /\ r \in pendingReads' =>
             /\ Run(s2c, r, Ends(r), b, c)' /\ Hand("read", "push", r, Ends(r), c, d)'
             /\ (Live /\ Fresh(r) => d = Cardinality(UpTo(r, epoch, got)))'
    BY <1>0, <1>6, <1>7 DEF WayBy, Hand, Live
  <2>3. WayBy(r, a, b, c, d)'
    BY <2>1, <2>2 DEF WayBy
  <2> QED BY <2>3 DEF Way
<1>10. CASE m.what = "start" /\ call' = [call EXCEPT ![r] = "stream"] /\ UNCHANGED <<result, data>>
  <2>1. Received(r)' = Received(r) /\ x = n
    BY <1>0, <1>8, <1>10 DEF Received, Passes, IsEntry
  <2>2. Way(r)'
    BY <1>9, <2>1
  <2>3. result'[r] # "end" /\ (Asked(r)' \/ Received(r)' = <<>>)
    BY <1>3, <1>6, <1>10, <2>1 DEF ReadOK
  <2> QED BY <1>3, <2>1, <2>2, <2>3 DEF ReadOK
<1>11. CASE /\ m.what = "entry" /\ data' = [data EXCEPT ![r] = Append(@, m.n)]
            /\ UNCHANGED <<call, result>>
  <2>1. m \in Said /\ m.re = r
    BY <1>4, <1>5, <1>11
  <2>2. m.n = n + 1 /\ x = n + 1
    BY <1>8, <1>11, <2>1 DEF Passes, IsEntry
  <2>3. Received(r)' = given[r] \o Append(data[r], m.n) /\ given[r] \in Seq(Nat) /\ data[r] \in Seq(Nat)
    BY <1>0, <1>2, <1>11 DEF Received
  <2>4. m.n \in Nat
    BY SMT, <1>8, <2>2
  <2>5. /\ n \in Nat /\ Len(Received(r))' = n + 1 /\ Received(r)'[n + 1] = n + 1
        /\ \A i \in 1..n : Received(r)'[i] = Received(r)[i]
    <3>1. Longer(given[r] \o Append(data[r], m.n), given[r] \o data[r], m.n)
      BY <2>3, <2>4, ConcatAppend
    <3>2. Longer(Received(r)', Received(r), n + 1)
      BY <2>2, <2>3, <3>1 DEF Received
    <3> QED BY <3>2 DEF Longer
  <2>6. Way(r)'
    BY <1>9, <2>2, <2>5
  <2>7. \A i \in 1..n + 1 : Received(r)'[i] = i
    BY <1>3, <2>5, Places
  <2>8. Asked(r)'
    BY <1>6, <2>1, Unheard DEF Inv
  <2>9. result'[r] # "end"
    BY <1>3, <1>11
  <2> QED BY <2>5, <2>6, <2>7, <2>8, <2>9 DEF ReadOK
<1>12. CASE /\ call' = [call EXCEPT ![r] = "leave"] /\ result' = [result EXCEPT ![r] = Outcome(m)]
            /\ UNCHANGED data
  <2>1. Received(r)' = Received(r)
    BY <1>0, <1>12 DEF Received
  <2>2. Over(r)' /\ result'[r] = Outcome(m)
    BY <1>2, <1>12 DEF Over
  <2>3. ASSUME Outcome(m) = "end" PROVE n \in Ends(r)
    <3>1. m # nil /\ m.what = "end"
      BY <2>3 DEF Outcome
    <3>2. IsEnd(m, r)
      BY <1>4, <3>1 DEF IsEnd
    <3> QED BY <1>8, <3>2 DEF Passes
  <2> QED BY <1>3, <1>6, <2>1, <2>2, <2>3 DEF ReadOK
<1> QED BY <1>1, <1>10, <1>11, <1>12

\* The server says something on the connection; about r it is what comes next.
LEMMA LineSaid ==
  ASSUME Inv, LinesOK, ManagerOK, NEW r \in Reads, NEW m \in Response, UNCHANGED got,
         line' = [line EXCEPT ![epoch] = Append(@, m)], \A e : <<r, e>> \in asked => <<r, e>> \in asked',
         m.re = r => /\ <<r, epoch>> \in asked /\ ~IsOver(r, epoch)
                     /\ m.what = "entry" => m.n = Cardinality(Entries(r, epoch)) + 1
  PROVE  /\ epoch' = epoch /\ \A e \in 1..epoch : LineOK(r, e)'
         /\ Ends(r) \subseteq Ends(r)' /\ UpTo(r, epoch, got)' = UpTo(r, epoch, got)
<1>0. PICK p : p = epoch
  OBVIOUS
<1>1. line \in Seq(Seq(Response)) /\ p \in DOMAIN line /\ line[p] \in Seq(Response) /\ p \in 1..p
      /\ DOMAIN line = 1..p /\ epoch' = p
  BY SMT, <1>0 DEF Inv, TypeOK, epoch
<1>2. PICK L \in Nat : L = Len(line[p])
  BY SMT, <1>1
<1>3. /\ \A e \in 1..p : e # p => line'[e] = line[e]
      /\ line'[p] = Append(line[p], m)
  BY <1>0, <1>1
<1>4. /\ DOMAIN line[p] = 1..L /\ DOMAIN line'[p] = 1..L + 1 /\ line'[p][L + 1] = m
      /\ \A i \in 1..L : line'[p][i] = line[p][i]
  <2>1. /\ DOMAIN line[p] = 1..L /\ DOMAIN Append(line[p], m) = 1..L + 1 /\ Append(line[p], m)[L + 1] = m
        /\ \A i \in 1..L : Append(line[p], m)[i] = line[p][i]
    BY SMT, <1>1, <1>2
  <2> QED BY <1>3, <2>1
<1>5. /\ L + 1 \in 1..L + 1 /\ L + 1 \notin 1..L /\ \A i \in 1..L + 1 : i \in 1..L \/ i = L + 1
      /\ \A i \in 1..L : i \in 1..L + 1 /\ ~(L + 1 <= i)
      /\ \A i \in 1..L + 1 : i <= L + 1
      /\ got <= L => ~(L + 1 <= got)
  BY SMT DEF Inv, TypeOK
<1>6. ASSUME NEW e \in 1..p, e # p
      PROVE  /\ About(r, e)' = About(r, e) /\ Entries(r, e)' = Entries(r, e)
             /\ IsOver(r, e)' <=> IsOver(r, e)
             /\ \A i : UpTo(r, e, i)' = UpTo(r, e, i)
  BY <1>3, <1>6 DEF About, Entries, UpTo, IsOver
<1>7. /\ About(r, p) \subseteq 1..L /\ About(r, p)' \subseteq 1..L + 1
      /\ \A i \in 1..L : i \in About(r, p)' <=> i \in About(r, p)
      /\ L + 1 \in About(r, p)' <=> m.re = r
  BY <1>4, <1>5 DEF About
<1>8. /\ Entries(r, p) \subseteq 1..L /\ Entries(r, p)' \subseteq 1..L + 1
      /\ \A i \in 1..L : i \in Entries(r, p)' <=> i \in Entries(r, p)
      /\ L + 1 \in Entries(r, p)' <=> IsEntry(m, r)
  BY <1>4, <1>5, <1>7 DEF Entries, IsEntry
<1>9. ASSUME NEW i, ~(L + 1 <= i) PROVE UpTo(r, p, i)' = UpTo(r, p, i)
  BY <1>5, <1>8, <1>9 DEF UpTo
<1>10. UpTo(r, p, L + 1)' = Entries(r, p)'
  BY <1>5, <1>8 DEF UpTo
<1>11. ASSUME m.re # r
       PROVE  Entries(r, p)' = Entries(r, p) /\ (IsOver(r, p) => IsOver(r, p)')
  <2>1. Entries(r, p)' = Entries(r, p) /\ About(r, p)' = About(r, p)
    BY <1>5, <1>7, <1>8, <1>11 DEF IsEntry
  <2> QED BY <1>4, <1>7, <2>1 DEF IsOver
<1>12. IsEntry(m, r) => m.n = Cardinality(Entries(r, p)')
  <2>1. SUFFICES ASSUME IsEntry(m, r) PROVE m.n = Cardinality(Entries(r, p)')
    OBVIOUS
  <2>2. Entries(r, p)' = Entries(r, p) \cup {L + 1} /\ L + 1 \notin Entries(r, p)
    BY <1>5, <1>8, <2>1
  <2>3. IsFiniteSet(Entries(r, p))
    BY <1>1, EntriesCount DEF Inv
  <2>4. Cardinality(Entries(r, p)') = Cardinality(Entries(r, p)) + 1
    BY <2>2, <2>3, FS_AddElement
  <2> QED BY <1>0, <2>1, <2>4 DEF IsEntry
<1>13. ASSUME NEW e \in 1..p PROVE LineOK(r, e)'
  <2>0. LineOK(r, e)
    BY <1>0 DEF LinesOK
  <2>1. CASE e # p
    BY <1>3, <1>6, <2>0, <2>1 DEF LineOK
  <2>2. CASE e = p
    <3>1. ASSUME NEW i \in About(r, p)
          PROVE  /\ <<r, p>> \in asked'
                 /\ line'[p][i].what = "entry" => line'[p][i].n = Cardinality(UpTo(r, p, i)')
                 /\ line'[p][i].what = "end" => UpTo(r, p, i)' = Entries(r, p)'
      <4>1. i \in 1..L /\ line'[p][i] = line[p][i] /\ UpTo(r, p, i)' = UpTo(r, p, i)
        BY <1>4, <1>5, <1>7, <1>9
      <4>2. /\ <<r, p>> \in asked
            /\ line[p][i].what = "entry" => line[p][i].n = Cardinality(UpTo(r, p, i))
            /\ line[p][i].what = "end" => UpTo(r, p, i) = Entries(r, p)
        BY <2>0, <2>2 DEF LineOK
      <4>3. line[p][i].what = "end" => m.re # r
        BY <1>0 DEF IsOver
      <4> QED BY <1>11, <4>1, <4>2, <4>3
    <3>2. ASSUME m.re = r
          PROVE  /\ <<r, p>> \in asked'
                 /\ line'[p][L + 1].what = "entry" => line'[p][L + 1].n = Cardinality(UpTo(r, p, L + 1)')
                 /\ line'[p][L + 1].what = "end" => UpTo(r, p, L + 1)' = Entries(r, p)'
      BY <1>0, <1>4, <1>10, <1>12, <3>2 DEF IsEntry
    <3>3. \A i \in About(r, p)' : i \in About(r, p) \/ (i = L + 1 /\ m.re = r)
      BY <1>5, <1>7
    <3> QED BY <2>2, <3>1, <3>2, <3>3 DEF LineOK
  <2> QED BY <2>1, <2>2
<1>14. Ends(r) \subseteq Ends(r)'
  <2>1. ASSUME NEW e \in 1..p, IsOver(r, e) PROVE IsOver(r, e)' /\ Entries(r, e)' = Entries(r, e)
    BY <1>0, <1>6, <1>11, <2>1
  <2> QED BY <1>0, <1>1, <2>1 DEF Ends
<1>15. UpTo(r, epoch, got)' = UpTo(r, epoch, got)
  BY <1>0, <1>1, <1>2, <1>5, <1>9 DEF ManagerOK
<1> QED BY <1>0, <1>1, <1>13, <1>14, <1>15

\* The server.
LEMMA ReadServed ==
  ASSUME Inv, LinesOK, ManagerOK, NEW r \in Reads, ReadOK(r), ServerStep
  PROVE  ReadOK(r)' /\ epoch' = epoch /\ \A e \in 1..epoch : LineOK(r, e)'
<1>0. /\ UNCHANGED <<s2c, loop, msg, got, chan, call, result, data, given, pendingReads, manager>>
      /\ r \notin Writes
  BY RequestsAssumption DEF ServerStep
<1>1. \A e : <<r, e>> \in asked <=> <<r, e>> \in asked'
  <2>1. ASSUME NEW w \in Writes, asked' = asked \ {<<w, epoch>>}, NEW e, <<r, e>> = <<w, epoch>> PROVE FALSE
    BY SMT, <1>0, <2>1
  <2> QED BY <2>1 DEF ServerStep, Serve, AnswerDone, AnswerError, Perform, Stream
<1>2. /\ epoch' = epoch /\ \A e \in 1..epoch : LineOK(r, e)'
      /\ Ends(r) \subseteq Ends(r)' /\ UpTo(r, epoch, got)' = UpTo(r, epoch, got)
  <2>1. CASE UNCHANGED line
    <3>1. epoch' = epoch
      BY <2>1 DEF epoch
    <3>2. \A e, i : /\ About(r, e)' = About(r, e) /\ Entries(r, e)' = Entries(r, e)
                    /\ UpTo(r, e, i)' = UpTo(r, e, i) /\ (IsOver(r, e)' <=> IsOver(r, e))
      BY <2>1 DEF About, Entries, UpTo, IsOver
    <3>3. UpTo(r, epoch, got)' = UpTo(r, epoch, got)
      BY <1>0, <2>1, <3>1 DEF UpTo, Entries, About
    <3>4. ASSUME NEW e \in 1..epoch PROVE LineOK(r, e)'
      <4>1. LineOK(r, e)
        BY DEF LinesOK
      <4> QED BY <1>1, <2>1, <3>2, <4>1 DEF LineOK
    <3>5. Ends(r)' = Ends(r)
      BY <3>1, <3>2 DEF Ends
    <3> QED BY <3>1, <3>3, <3>4, <3>5
  <2>2. ASSUME NEW w \in Writes, AnswerDone(w) \/ AnswerError(w)
        PROVE  \E m \in Response : m.re # r /\ line' = [line EXCEPT ![epoch] = Append(@, m)]
    <3>1. PICK what \in {"done", "error"} : Say(w, what, 0)
      BY <2>2 DEF AnswerDone, AnswerError
    <3> DEFINE m == [re |-> w, what |-> what, n |-> 0]
    <3>2. line' = [line EXCEPT ![epoch] = Append(@, m)]
      BY <3>1 DEF Say
    <3>3. m \in Response /\ m.re = w
      BY SMT DEF Response, Calls
    <3> HIDE DEF m
    <3> QED BY <1>0, <3>2, <3>3
  <2>3. ASSUME NEW x \in Reads, Stream(x)
        PROVE  \E m \in Response :
                 /\ line' = [line EXCEPT ![epoch] = Append(@, m)] /\ m.re = x
                 /\ m.what = "entry" => m.n = Cardinality(Entries(x, epoch)) + 1
    <3>1. PICK what \in {"start", "failed", "entry", "end"} :
            \E n \in {0, Cardinality(Entries(x, epoch)) + 1} :
              Say(x, what, n) /\ (what = "entry" => n = Cardinality(Entries(x, epoch)) + 1)
      BY <2>3 DEF Stream
    <3>2. PICK n \in {0, Cardinality(Entries(x, epoch)) + 1} :
            Say(x, what, n) /\ (what = "entry" => n = Cardinality(Entries(x, epoch)) + 1)
      BY <3>1
    <3>3. n \in Nat
      <4>1. epoch \in DOMAIN line
        BY SMT DEF Inv, TypeOK, epoch
      <4>2. Cardinality(Entries(x, epoch)) \in Nat
        BY <4>1, EntriesCount DEF Inv
      <4> QED BY SMT, <4>2
    <3> DEFINE m == [re |-> x, what |-> what, n |-> n]
    <3>4. m \in Response /\ m.re = x /\ m.what = what /\ m.n = n
      BY SMT, <3>3 DEF Response, Calls
    <3>5. line' = [line EXCEPT ![epoch] = Append(@, m)]
      BY <3>2 DEF Say
    <3> HIDE DEF m
    <3> QED BY <3>2, <3>4, <3>5
  <2>4. ASSUME NEW w \in Writes, AnswerDone(w) \/ AnswerError(w)
        PROVE  /\ epoch' = epoch /\ \A e \in 1..epoch : LineOK(r, e)'
               /\ Ends(r) \subseteq Ends(r)' /\ UpTo(r, epoch, got)' = UpTo(r, epoch, got)
    BY <1>0, <1>1, <2>2, <2>4, LineSaid
  <2>5. ASSUME NEW x \in Reads, Stream(x)
        PROVE  /\ epoch' = epoch /\ \A e \in 1..epoch : LineOK(r, e)'
               /\ Ends(r) \subseteq Ends(r)' /\ UpTo(r, epoch, got)' = UpTo(r, epoch, got)
    <3>1. <<x, epoch>> \in asked /\ ~IsOver(x, epoch)
      BY <2>5 DEF Stream
    <3>2. PICK m \in Response :
            /\ line' = [line EXCEPT ![epoch] = Append(@, m)] /\ m.re = x
            /\ m.what = "entry" => m.n = Cardinality(Entries(x, epoch)) + 1
      BY <2>3, <2>5
    <3>3. m.re = r => /\ <<r, epoch>> \in asked /\ ~IsOver(r, epoch)
                      /\ m.what = "entry" => m.n = Cardinality(Entries(r, epoch)) + 1
      BY <3>1, <3>2
    <3> QED BY <1>0, <1>1, <3>2, <3>3, LineSaid
  <2>6. ASSUME NEW w \in Writes, NEW e, Perform(w, e) PROVE UNCHANGED line
    BY <2>6 DEF Perform
  <2> QED BY <2>1, <2>4, <2>5, <2>6 DEF ServerStep, Serve
<1>3. /\ Received(r)' = Received(r) /\ (Asked(r) => Asked(r)') /\ (Over(r)' <=> Over(r))
      /\ Fresh(r)' => Fresh(r)
  <2>1. \A x \in asked : x[1] = r => x = <<r, x[2]>>
    BY SMT DEF Inv, TypeOK
  <2>2. \A x \in asked : x[1] = r => x \in asked'
    BY <1>1, <2>1
  <2> QED BY <1>0, <1>2, <2>2 DEF Received, Asked, Over, Fresh
<1>4. Way(r) => Way(r)'
  <2>1. Steady("process", "dispatch") /\ Steady("read", "push") /\ (Live' => Live)
    BY <1>0 DEF Steady, Live
  <2> QED BY <1>0, <1>2, <1>3, <2>1, WayStays
<1>5. ReadOK(r)'
  BY <1>0, <1>2, <1>3, <1>4 DEF ReadOK
<1> QED BY <1>2, <1>5

\* The loops that carry responses.
LEMMA ReadMoves ==
  ASSUME Inv, LinesOK, ManagerOK, NEW r \in Reads, ReadOK(r),
         \/ ReadMessage /\ got' = got + 1
         \/ PushMessage \/ TakeResponse \/ Dispatch
  PROVE  ReadOK(r)'
<1>1. UNCHANGED <<asked, line, data, given, call, result>>
  BY DEF ReadMessage, PushMessage, TakeResponse, Dispatch
<1>2. Ends(r)' = Ends(r) /\ (Asked(r)' <=> Asked(r)) /\ Received(r)' = Received(r) /\ (Over(r)' <=> Over(r))
  BY <1>1, SameLine DEF Received, Over
<1>3. ASSUME ~Over(r) PROVE Way(r)'
  <2>0. Way(r)
    BY <1>3 DEF ReadOK
  <2>1. CASE ReadMessage /\ got' = got + 1
    <3>1. got # got'
      BY SMT, <2>1 DEF Inv, TypeOK
    <3>2. /\ got < Len(line[epoch]) /\ loop["read"] = "run"
          /\ msg' = [msg EXCEPT !["read"] = line[epoch][got + 1]]
          /\ loop' = [loop EXCEPT !["read"] = "push"]
          /\ UNCHANGED <<asked, line, s2c, chan, pendingReads, data, given, manager>>
      BY <2>1, <3>1 DEF ReadMessage
    <3> QED BY <2>0, <2>1, <3>2, WayRead
  <2>2. CASE PushMessage
    BY <2>0, <2>2, WayPush
  <2>3. CASE TakeResponse
    BY <2>0, <2>3, WayTake DEF ManagerOK
  <2>4. CASE Dispatch
    BY <1>3, <2>0, <2>4, WayDispatch
  <2> QED BY <2>1, <2>2, <2>3, <2>4
<1> QED BY <1>1, <1>2, <1>3 DEF ReadOK

\* What the server has said stays as it is.
LEMMA LinesKept ==
  ASSUME LinesOK, UNCHANGED line, asked \subseteq asked'
  PROVE  LinesOK'
<1>1. epoch' = epoch
  BY DEF epoch
<1>2. ASSUME NEW r \in Reads, NEW e \in 1..epoch PROVE LineOK(r, e)'
  <2>1. /\ About(r, e)' = About(r, e) /\ Entries(r, e)' = Entries(r, e)
        /\ \A i : UpTo(r, e, i)' = UpTo(r, e, i)
    BY DEF About, Entries, UpTo
  <2>2. LineOK(r, e)
    BY DEF LinesOK
  <2> QED BY <2>1, <2>2 DEF LineOK
<1> QED BY <1>1, <1>2 DEF LinesOK

\* Loops run only while the manager waits for them, and so on.
LEMMA ManagerKept ==
  ASSUME Inv, ManagerOK, [ClientNext]_vars
  PROVE  ManagerOK'
<1>0. /\ got <= Len(line[epoch]) /\ data \in [Reads -> Seq(Nat)] /\ given \in [Reads -> Seq(Nat)]
      /\ manager = "wait" \/ \A l \in Loops : loop[l] = "done"
      /\ pendingWrites \subseteq Writes /\ \A k \in closed : call[k] = "returned"
      /\ got \in Nat /\ line \in Seq(Seq(Response)) /\ epoch \in DOMAIN line
      /\ call = [k \in Calls |-> call[k]] /\ closed \subseteq Calls
  <2>1. /\ got \in Nat /\ line \in Seq(Seq(Response)) /\ epoch \in DOMAIN line
        /\ call = [k \in Calls |-> call[k]]
    BY SMT DEF Inv, TypeOK, epoch
  <2> QED BY <2>1 DEF ManagerOK
<1>1. ASSUME NEW l \in Loops, LoopStep(l) PROVE ManagerOK'
  <2>1. /\ UNCHANGED <<line, data, given, closed, call, manager>>
        /\ pendingWrites' = pendingWrites \/ pendingWrites' = {}
    BY <1>1 DEF LoopStep, HandleError, CloseConnection, TryClose, CloseStop, failPendingWrites,
       failPendingReads, Stopped, Begin, ReadMessage, PushMessage, TakeRequest, SendMessage, TakeResponse,
       Dispatch, Ask
  <2>2. loop[l] # "done"
    BY <1>1 DEF LoopStep, HandleError, CloseConnection, TryClose, CloseStop, failPendingWrites,
       failPendingReads, Stopped, Begin, ReadMessage, PushMessage, TakeRequest, SendMessage, TakeResponse,
       Dispatch
  <2>3. got' = got \/ (got < Len(line[epoch]) /\ got' = got + 1)
    BY <1>1 DEF LoopStep, HandleError, CloseConnection, TryClose, CloseStop, failPendingWrites,
       failPendingReads, Stopped, Begin, ReadMessage, PushMessage, TakeRequest, SendMessage, TakeResponse,
       Dispatch
  <2>4. epoch' = epoch
    BY <2>1 DEF epoch
  <2>5. got' <= Len(line[epoch])
    BY SMT, <1>0, <2>3
  <2>6. manager' = "wait"
    BY <1>0, <2>1, <2>2
  <2> QED BY <1>0, <2>1, <2>4, <2>5, <2>6 DEF ManagerOK
<1>2. CASE \/ SetUp \/ SetUpFails \/ StartLoops \/ LoopsEnded \/ Break \/ closeConnectionInternal
           \/ UNCHANGED vars
  <2>1. /\ UNCHANGED <<line, data, given, closed, call, got>>
        /\ pendingWrites' = pendingWrites \/ pendingWrites' = {}
    BY <1>2 DEF SetUp, SetUpFails, StartLoops, LoopsEnded, Break, closeConnectionInternal, vars
  <2>2. \/ manager' = "wait"
        \/ UNCHANGED loop /\ \A l \in Loops : loop[l] = "done"
    BY <1>0, <1>2 DEF SetUp, SetUpFails, StartLoops, LoopsEnded, Break, closeConnectionInternal, vars
  <2>3. epoch' = epoch
    BY <2>1 DEF epoch
  <2> QED BY <1>0, <2>1, <2>2, <2>3 DEF ManagerOK
<1>3. CASE Dial
  <2>1. /\ UNCHANGED <<data, given, closed, call, loop, pendingWrites>> /\ got' = 0 /\ manager = "dial"
        /\ line' = Append(line, <<>>)
    BY <1>3 DEF Dial, Reconnect
  <2>2. got' <= Len(line'[epoch'])
    BY SMT, <1>0, <2>1 DEF epoch
  <2> QED BY <1>0, <2>1, <2>2 DEF ManagerOK
<1>4. ASSUME NEW x \in Reads, Consume(x) PROVE ManagerOK'
  <2>1. /\ UNCHANGED <<line, closed, call, loop, pendingWrites, got, manager>> /\ data[x] # <<>>
        /\ given' = [given EXCEPT ![x] = Append(@, Head(data[x]))] /\ data' = [data EXCEPT ![x] = Tail(@)]
    BY <1>4 DEF Consume
  <2>2. Tail(data[x]) \in Seq(Nat) /\ Append(given[x], Head(data[x])) \in Seq(Nat)
    BY SMT, <1>0, <2>1
  <2>3. data' \in [Reads -> Seq(Nat)] /\ given' \in [Reads -> Seq(Nat)]
    BY <1>0, <2>1, <2>2
  <2>4. epoch' = epoch
    BY <2>1 DEF epoch
  <2> QED BY <1>0, <2>1, <2>3, <2>4 DEF ManagerOK
<1>5. ASSUME NEW k \in Calls, CallStep(k) \/ Check(k) PROVE ManagerOK'
  <2>1. UNCHANGED <<line, given, loop, got, manager>> /\ call[k] # "returned"
    BY <1>5 DEF CallStep, Register, Request, Receive, Leave, CloseChannel, Check
  <2>2. pendingWrites' \subseteq Writes /\ closed' \subseteq Calls
    BY <1>0, <1>5 DEF CallStep, Register, Request, Receive, Leave, CloseChannel, Check
  <2>3. \A j \in closed' : call'[j] = "returned"
    <3>1. CASE CloseChannel(k)
      <4>1. closed' = closed \cup {k} /\ call' = [call EXCEPT ![k] = "returned"]
        BY <3>1 DEF CloseChannel
      <4>2. \A j \in closed : j # k => call'[j] = call[j]
        BY <1>0, <4>1
      <4> QED BY <1>0, <4>1, <4>2
    <3>2. CASE ~CloseChannel(k)
      <4>1. closed' = closed /\ k \notin closed
        BY <1>0, <1>5, <2>1, <3>2 DEF CallStep, Register, Request, Receive, Leave, Check
      <4>2. call' = call \/ \E at : call' = [call EXCEPT ![k] = at]
        <5>1. CASE Receive(k)
          <6>1. \/ call' = call \/ call' = [call EXCEPT ![k] = "stream"]
                \/ call' = [call EXCEPT ![k] = "leave"]
            BY SMT, <5>1 DEF Receive
          <6> QED BY <6>1
        <5> QED BY <1>5, <3>2, <5>1 DEF CallStep, Register, Request, Leave, Check
      <4>3. \A j \in closed : j # k => call'[j] = call[j]
        BY <1>0, <4>2
      <4> QED BY <1>0, <4>1, <4>3
    <3> QED BY <3>1, <3>2
  <2>4. data' \in [Reads -> Seq(Nat)]
    <3>1. CASE data' = data
      BY <1>0, <3>1
    <3>2. CASE Receive(k) /\ data' # data
      <4>1. /\ data' = [data EXCEPT ![k] = Append(data[k], Head(chan[k]).n)]
            /\ Head(chan[k]).what = "entry" /\ chan[k] # <<>>
        BY SMT, <3>2 DEF Receive
      <4>2. Head(chan[k]) \in {m \in Said : m.re = k} \cup {nil}
        BY <4>1, InvFacts, TailFacts DEF ChanOK
      <4>3. Head(chan[k]).n \in Nat
        <5>1. nil.n \in Nat
          BY SMT DEF nil
        <5>2. \A m \in Said : m.n \in Nat
          BY SaidType DEF Inv, Response
        <5> QED BY <4>2, <5>1, <5>2
      <4>4. CASE k \in Reads
        <5>1. Append(data[k], Head(chan[k]).n) \in Seq(Nat)
          BY SMT, <1>0, <4>3, <4>4
        <5> QED BY <1>0, <4>1, <5>1
      <4>5. CASE k \notin Reads
        BY <1>0, <4>1, <4>5
      <4> QED BY <4>4, <4>5
    <3> QED BY <1>5, <3>1, <3>2 DEF CallStep, Register, Request, Leave, CloseChannel, Check
  <2>5. epoch' = epoch
    BY <2>1 DEF epoch
  <2> QED BY <1>0, <2>1, <2>2, <2>3, <2>4, <2>5 DEF ManagerOK
<1>6. CASE ServerStep
  <2>1. UNCHANGED <<data, given, closed, call, loop, pendingWrites, got, manager>>
    BY <1>6 DEF ServerStep
  <2>2. UNCHANGED line \/ \E m : line' = [line EXCEPT ![epoch] = Append(@, m)]
    BY <1>6 DEF ServerStep, Serve, AnswerDone, AnswerError, Perform, Stream, Say
  <2>3. epoch' = epoch /\ got' <= Len(line'[epoch'])
    <3>1. CASE UNCHANGED line
      BY <1>0, <2>1, <3>1 DEF epoch
    <3>2. CASE \E m : line' = [line EXCEPT ![epoch] = Append(@, m)]
      <4>1. PICK m : line' = [line EXCEPT ![epoch] = Append(@, m)]
        BY <3>2
      <4>2. Len(line') = Len(line) /\ line'[epoch] = Append(line[epoch], m)
        BY SMT, <1>0, <4>1
      <4>3. Len(Append(line[epoch], m)) = Len(line[epoch]) + 1 /\ Len(line[epoch]) \in Nat
        BY SMT, <1>0
      <4>4. epoch' = epoch
        BY <4>2 DEF epoch
      <4>5. got <= Len(line[epoch]) + 1
        BY SMT, <1>0, <4>3
      <4> QED BY <2>1, <4>2, <4>3, <4>4, <4>5
    <3> QED BY <2>2, <3>1, <3>2
  <2> QED BY <1>0, <2>1, <2>3 DEF ManagerOK
<1> QED BY <1>1, <1>2, <1>3, <1>4, <1>5, <1>6 DEF ClientNext, Progress, ManagerStep

\* The invariant about the streams holds before the first request.
LEMMA StreamStarts == ClientInit => StreamInv
<1> SUFFICES ASSUME ClientInit PROVE StreamInv
  OBVIOUS
<1>0. /\ asked = {} /\ line = << <<>> >> /\ s2c = <<>> /\ got = 0 /\ manager = "start"
      /\ loop = [l \in Loops |-> "done"] /\ chan = [k \in Calls |-> <<>>]
      /\ call = [k \in Calls |-> "idle"] /\ result = [k \in Calls |-> "none"]
      /\ data = [r \in Reads |-> <<>>] /\ given = [r \in Reads |-> <<>>]
      /\ pendingWrites = {} /\ pendingReads = {} /\ closed = {}
  BY DEF ClientInit, ProtocolInit
<1>1. /\ epoch = 1 /\ line[1] = <<>> /\ DOMAIN line[1] = {} /\ 1..epoch = {1}
      /\ Len(line[epoch]) = 0 /\ <<>> \in Seq(Nat) /\ 0 <= 0
  BY SMT, <1>0 DEF epoch
<1>2. LinesOK
  BY <1>1 DEF LinesOK, LineOK, About
<1>3. ManagerOK
  BY <1>0, <1>1 DEF ManagerOK
<1>4. ASSUME NEW r \in Reads PROVE ReadOK(r)
  <2>0. r \in Calls /\ "process" \in Loops
    BY DEF Calls, Loops
  <2>1. Received(r) = <<>> /\ Len(Received(r)) = 0 /\ 1..Len(Received(r)) = {}
    BY SMT, <1>0 DEF Received
  <2>2. Run(<<>>, r, Ends(r), 0, 0)
    <3>1. <<>> \in Seq(Nat) /\ 1..Len(<<>>) = {} /\ 0 \in Nat
      BY SMT
    <3> QED BY <3>1, RunPlain
  <2>3. WayBy(r, 0, 0, 0, 0)
    BY <1>0, <2>0, <2>1, <2>2 DEF WayBy, Hand
  <2>4. Way(r)
    BY SMT, <2>3 DEF Way
  <2>5. result[r] # "end"
    BY <1>0, <2>0
  <2> QED BY <2>1, <2>4, <2>5 DEF ReadOK
<1> QED BY <1>2, <1>3, <1>4 DEF StreamInv

\* Every step keeps it.
LEMMA StreamKept == Inv /\ StreamInv /\ [ClientNext]_vars => StreamInv'
<1> SUFFICES ASSUME Inv, StreamInv, [ClientNext]_vars PROVE StreamInv'
  OBVIOUS
<1>0. LinesOK /\ ManagerOK /\ \A r \in Reads : ReadOK(r)
  BY DEF StreamInv
<1>1. ManagerOK'
  BY <1>0, ManagerKept
<1>2. SUFFICES LinesOK' /\ \A r \in Reads : ReadOK(r)'
  BY <1>1 DEF StreamInv
<1>3. CASE \/ SetUp \/ SetUpFails \/ StartLoops \/ LoopsEnded \/ Break \/ closeConnectionInternal
           \/ \E x \in Reads : Consume(x)
           \/ UNCHANGED vars
  <2>1. UNCHANGED <<line, asked>>
    BY <1>3 DEF SetUp, SetUpFails, StartLoops, LoopsEnded, Break, closeConnectionInternal, Consume, vars,
       protocolVars
  <2>2. LinesOK'
    BY <1>0, <2>1, LinesKept
  <2>3. ASSUME NEW r \in Reads PROVE ReadOK(r)'
    BY <1>0, <1>3, ReadManager
  <2> QED BY <2>2, <2>3
<1>4. ASSUME NEW l \in Loops, LoopStep(l) PROVE LinesOK' /\ \A r \in Reads : ReadOK(r)'
  <2>1. UNCHANGED line /\ asked \subseteq asked'
    BY <1>4 DEF LoopStep, HandleError, CloseConnection, TryClose, CloseStop, failPendingWrites,
       failPendingReads, Stopped, Begin, ReadMessage, PushMessage, TakeRequest, SendMessage, TakeResponse,
       Dispatch, Ask, protocolVars
  <2>2. LinesOK'
    BY <1>0, <2>1, LinesKept
  <2>3. ASSUME NEW r \in Reads PROVE ReadOK(r)'
    <3>1. CASE \/ Stopped(l)
               \/ l \in {"read", "write"} /\ (Begin(l) \/ HandleError(l))
               \/ l = "write" /\ (TakeRequest \/ SendMessage)
      BY <1>0, <3>1, ReadLoops
    <3>2. CASE l = "read" /\ ReadMessage
      <4>1. got' = got + 1 \/ UNCHANGED <<got, msg>>
        BY <3>2 DEF ReadMessage
      <4>2. CASE got' = got + 1
        BY <1>0, <3>2, <4>2, ReadMoves
      <4>3. CASE UNCHANGED <<got, msg>>
        BY <1>0, <3>2, <4>3, ReadLoops
      <4> QED BY <4>1, <4>2, <4>3
    <3>3. CASE PushMessage \/ TakeResponse \/ Dispatch
      BY <1>0, <3>3, ReadMoves
    <3>4. \/ Stopped(l)
          \/ l \in {"read", "write"} /\ (Begin(l) \/ HandleError(l))
          \/ l = "write" /\ (TakeRequest \/ SendMessage)
          \/ l = "read" /\ ReadMessage
          \/ PushMessage \/ TakeResponse \/ Dispatch
      BY <1>4 DEF LoopStep
    <3> QED BY <3>1, <3>2, <3>3, <3>4
  <2> QED BY <2>2, <2>3
<1>5. ASSUME NEW k \in Calls, CallStep(k) \/ Check(k) PROVE LinesOK' /\ \A r \in Reads : ReadOK(r)'
  <2>1. UNCHANGED <<line, asked>>
    BY <1>5 DEF CallStep, Register, Request, Receive, Leave, CloseChannel, Check, protocolVars
  <2>2. LinesOK'
    BY <1>0, <2>1, LinesKept
  <2>3. ASSUME NEW r \in Reads PROVE ReadOK(r)'
    <3>1. CASE k = r /\ Register(k)
      BY <1>0, <3>1, ReadRegisters
    <3>2. CASE k = r /\ Receive(k)
      BY <1>0, <3>2, ReadReceives
    <3>3. CASE \/ Check(k) \/ Request(k) \/ Leave(k) \/ CloseChannel(k)
               \/ k # r /\ (Register(k) \/ Receive(k))
      BY <1>0, <3>3, ReadCalls
    <3> QED BY <1>5, <3>1, <3>2, <3>3 DEF CallStep
  <2> QED BY <2>2, <2>3
<1>6. CASE Dial
  BY <1>0, <1>6, ReadDials DEF LinesOK
<1>7. CASE ServerStep
  <2>1. \A r \in Reads : ReadOK(r)' /\ epoch' = epoch /\ \A e \in 1..epoch : LineOK(r, e)'
    BY <1>0, <1>7, ReadServed
  <2>2. \A r \in Reads : \A e \in 1..epoch' : LineOK(r, e)'
    BY <2>1
  <2> QED BY <2>1, <2>2 DEF LinesOK
<1> QED BY <1>3, <1>4, <1>5, <1>6, <1>7 DEF ClientNext, Progress, ManagerStep

\* It says in particular what a consumer may rely on.
LEMMA StreamFollows == StreamInv => StreamIsWhole
<1> SUFFICES ASSUME StreamInv, NEW r \in Reads
             PROVE  /\ \A i \in 1..Len(Received(r)) : Received(r)[i] = i
                    /\ result[r] = "end" =>
                         \E e \in 1..epoch : Len(Received(r)) = Cardinality(Entries(r, e)) /\ IsOver(r, e)
  BY DEF StreamIsWhole
<1>1. ReadOK(r)
  BY DEF StreamInv
<1>2. ASSUME result[r] = "end"
      PROVE  \E e \in 1..epoch : Len(Received(r)) = Cardinality(Entries(r, e)) /\ IsOver(r, e)
  <2>1. Len(Received(r)) \in Ends(r)
    BY <1>1, <1>2 DEF ReadOK
  <2> QED BY <2>1 DEF Ends
<1> QED BY <1>1, <1>2 DEF ReadOK

\* What a consumer has received of a read is the beginning of the stream in the
\* server's order, without a hole and without a repetition, however the two
\* loops, processResponses, the callers, the failures of connections and the
\* reconnects interleave; and a read that ended without an error has received
\* the whole stream.  For every number of requests, connections and entries and
\* every size of the channels.
THEOREM StreamsAreWhole == ClientSpec => []StreamIsWhole
<1>1. ClientSpec => []Inv
  BY InvStarts, InvKept, PTL DEF ClientSpec
<1>2. ClientSpec => [](Inv /\ StreamInv)
  BY <1>1, InvStarts, InvKept, StreamStarts, StreamKept, PTL DEF ClientSpec
<1> QED BY <1>2, StreamFollows, PTL

=============================================================================
