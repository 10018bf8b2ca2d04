------------------------------ MODULE GoClient ------------------------------
(***************************************************************************)
(* One connection object of the Go client (normfs_go/client.go, api.go):   *)
(* the manager that dials, sets up and starts the loops of a connection;   *)
(* the loops that read, write and dispatch; the calls that wait for their  *)
(* responses and the goroutines of read streams.  The server is Protocol.  *)
(*                                                                         *)
(* The pending maps hold channels.  A call's channel is its own, so a map  *)
(* is the set of calls in it.  c.conn is nil exactly when c.connected is   *)
(* false, and the manager waits for the loops of a connection before it    *)
(* dials again: one socket at a time.  keepAliveLoop is a loop that ends;   *)
(* its pings, whose answers nobody waits for, are left out.                *)
(***************************************************************************)
EXTENDS Protocol

CONSTANTS
  C2SCap, S2CCap,  \* messageChanBuffer, for the requests and the responses
  ReadCap,         \* messageChanBuffer, for the responses of a read
  BufSize,         \* capacity of a read's Data
  MaxBreaks        \* bound: connections that fail

ASSUME ClientAssumption ==
  /\ {C2SCap, S2CCap, ReadCap, BufSize} \subseteq Nat \ {0}
  /\ MaxBreaks \in Nat

VARIABLES
  conn,            \* the socket: "open", "broken" by the peer, "closed" by us
  setup_done,
  manager,         \* where manageConnection is
  stop,            \* stopConnectionLoops is closed
  loop,            \* where each loop is
  got,             \* how many responses of the line were read
  msg,             \* the message a loop has in hand
  c2s, s2c,
  pendingWrites, pendingReads,
  chan,            \* the channel of each call
  closed,          \* the calls whose channel is closed
  call,            \* where each Enqueue and each read is
  result,          \* what Enqueue returns, finalError of a read
  data,            \* qr.Data, with the entry that waits for room in it
  given,           \* what the consumer of a read has received
  breaks,          \* how many connections have failed
  panicked         \* a close of a closed channel, or a send on one

connVars  == <<conn, setup_done, breaks>>
loopVars  == <<stop, loop, got, msg>>
queueVars == <<c2s, s2c>>
callVars  == <<pendingWrites, pendingReads, chan, closed, call, result, data, given>>
vars == <<protocolVars, connVars, manager, loopVars, queueVars, callVars, panicked>>

Calls == Writes \cup Reads
Loops == {"read", "write", "ping", "process"}

nil == [re |-> "nil", what |-> "nil", n |-> 0]
NoMsg == nil

connected == conn # "closed"

\* A channel of capacity cap takes m if it has room.
Offer(c, cap, m) == IF Len(c) < cap THEN Append(c, m) ELSE c

-----------------------------------------------------------------------------
(* handleReadWriteError, by a loop or by the manager                        *)

\* closeConnectionInternal
CloseConnection(who) ==
  /\ loop[who] = "error"
  /\ conn' = "closed" /\ setup_done' = FALSE
  /\ loop' = [loop EXCEPT ![who] = "try_close"]
  /\ UNCHANGED <<protocolVars, breaks, manager, stop, got, msg, queueVars, callVars, panicked>>

\* tryCloseChannel: the select, and the close in its default branch.
TryClose(who) ==
  /\ loop[who] = "try_close"
  /\ loop' = [loop EXCEPT ![who] = IF stop THEN "fail_writes" ELSE "close"]
  /\ UNCHANGED <<protocolVars, connVars, manager, stop, got, msg, queueVars, callVars, panicked>>

CloseStop(who) ==
  /\ loop[who] = "close"
  /\ stop' = TRUE
  /\ panicked' = stop
  /\ loop' = [loop EXCEPT ![who] = "fail_writes"]
  /\ UNCHANGED <<protocolVars, connVars, manager, got, msg, queueVars, callVars>>

FailPending(pending, cap) ==
  chan' = [k \in Calls |-> IF k \in pending THEN Offer(chan[k], cap, nil) ELSE chan[k]]

\* Mutant of failPendingWrites: the calls are forgotten, not told.
failPendingWrites_Silent(who) ==
  /\ loop[who] = "fail_writes"
  /\ pendingWrites' = {}
  /\ loop' = [loop EXCEPT ![who] = "fail_reads"]
  /\ UNCHANGED <<protocolVars, connVars, manager, stop, got, msg, queueVars,
                 pendingReads, chan, closed, call, result, data, given, panicked>>

failPendingWrites(who) ==
  /\ loop[who] = "fail_writes"
  /\ FailPending(pendingWrites, 1)
  /\ pendingWrites' = {}
  /\ loop' = [loop EXCEPT ![who] = "fail_reads"]
  /\ UNCHANGED <<protocolVars, connVars, manager, stop, got, msg, queueVars,
                 pendingReads, closed, call, result, data, given, panicked>>

failPendingReads(who) ==
  /\ loop[who] = "fail_reads"
  /\ FailPending(pendingReads, ReadCap)
  /\ pendingReads' = {}
  /\ loop' = [loop EXCEPT ![who] = "done"]
  /\ UNCHANGED <<protocolVars, connVars, manager, stop, got, msg, queueVars,
                 pendingWrites, closed, call, result, data, given, panicked>>

HandleError(who) ==
  \/ CloseConnection(who) \/ TryClose(who) \/ CloseStop(who)
  \/ failPendingWrites(who) \/ failPendingReads(who)

-----------------------------------------------------------------------------
(* manageConnection                                                         *)

\* A dial that fails changes nothing.  The new connection is not set up.
Dial ==
  /\ manager = "dial"
  /\ ~ connected
  /\ Reconnect
  /\ conn' = "open" /\ setup_done' = FALSE
  /\ got' = 0
  /\ manager' = "setup"
  /\ UNCHANGED <<breaks, stop, loop, msg, queueVars, callVars, panicked>>

\* performInitialSetup: the request, its answer and its checks.  The connection
\* may fail, or be closed, once the answer has been read.
SetUp ==
  /\ manager = "setup"
  /\ setup_done' = TRUE
  /\ manager' = "start"
  /\ UNCHANGED <<protocolVars, conn, breaks, loopVars, queueVars, callVars, panicked>>

\* It fails.  Its own stop channel is closed by nobody else, and no call passes
\* its check while setup_done is false: handleReadWriteError is one step here.
SetUpFails ==
  /\ manager = "setup" /\ conn # "open"
  /\ manager' = "dial"
  /\ conn' = "closed" /\ setup_done' = FALSE
  /\ chan' = [k \in Calls |-> CASE k \in pendingWrites -> Offer(chan[k], 1, nil)
                                [] k \in pendingReads  -> Offer(chan[k], ReadCap, nil)
                                [] OTHER               -> chan[k]]
  /\ pendingWrites' = {} /\ pendingReads' = {}
  /\ UNCHANGED <<protocolVars, breaks, loopVars, queueVars, closed, call, result, data, given,
                 panicked>>

StartLoops ==
  /\ manager = "start"
  /\ stop' = FALSE
  /\ loop' = [l \in Loops |-> IF l \in {"read", "write"} THEN "begin" ELSE "run"]
  /\ manager' = "wait"
  /\ UNCHANGED <<protocolVars, connVars, got, msg, queueVars, callVars, panicked>>

\* connActivityWG.Wait()
LoopsEnded ==
  /\ manager = "wait"
  /\ \A l \in Loops : loop[l] = "done"
  /\ manager' = "dial"
  /\ UNCHANGED <<protocolVars, connVars, loopVars, queueVars, callVars, panicked>>

\* The peer closes the connection, or the network does.
Break ==
  /\ conn = "open"
  /\ breaks < MaxBreaks
  /\ conn' = "broken" /\ breaks' = breaks + 1
  /\ UNCHANGED <<protocolVars, setup_done, manager, loopVars, queueVars, callVars, panicked>>

\* multiClient's Close, and its monitor when it replaces this client.
closeConnectionInternal ==
  /\ connected
  /\ breaks < MaxBreaks
  /\ conn' = "closed" /\ setup_done' = FALSE /\ breaks' = breaks + 1
  /\ UNCHANGED <<protocolVars, manager, loopVars, queueVars, callVars, panicked>>

-----------------------------------------------------------------------------
(* The loops of a connection                                                *)

To(l, where) == loop' = [loop EXCEPT ![l] = where]
Holds(l, m) == msg' = [msg EXCEPT ![l] = m]

\* Each loop looks at stopConnectionLoops wherever it waits for a channel.
Stopped(l) ==
  /\ stop
  /\ loop[l] = "run" \/ (l = "read" /\ loop[l] = "push")
  /\ To(l, "done") /\ Holds(l, NoMsg)
  /\ UNCHANGED <<protocolVars, connVars, manager, stop, got, queueVars, callVars, panicked>>

\* readLoop and writeLoop take c.conn, which may be nil by now.
Begin(l) ==
  /\ loop[l] = "begin"
  /\ To(l, IF connected THEN "run" ELSE "error")
  /\ UNCHANGED <<protocolVars, connVars, manager, stop, got, msg, queueVars, callVars, panicked>>

\* readMessageWithTimeout: a message, or an error.  What the peer sent before
\* the connection broke may still be read.
ReadMessage ==
  /\ loop["read"] = "run"
  /\ \/ /\ connected /\ got < Len(line[epoch])
        /\ got' = got + 1
        /\ Holds("read", line[epoch][got + 1]) /\ To("read", "push")
     \/ /\ conn # "open"
        /\ To("read", "error")
        /\ UNCHANGED <<got, msg>>
  /\ UNCHANGED <<protocolVars, connVars, manager, stop, queueVars, callVars, panicked>>

\* Mutant of PushMessage: a response is dropped when s2c is full.
PushMessage_Drops ==
  /\ loop["read"] = "push"
  /\ s2c' = Offer(s2c, S2CCap, msg["read"])
  /\ To("read", "run") /\ Holds("read", NoMsg)
  /\ UNCHANGED <<protocolVars, connVars, manager, stop, got, c2s, callVars, panicked>>

PushMessage ==
  /\ loop["read"] = "push"
  /\ Len(s2c) < S2CCap
  /\ s2c' = Append(s2c, msg["read"])
  /\ To("read", "run") /\ Holds("read", NoMsg)
  /\ UNCHANGED <<protocolVars, connVars, manager, stop, got, c2s, callVars, panicked>>

TakeRequest ==
  /\ loop["write"] = "run" /\ c2s # <<>>
  /\ Holds("write", Head(c2s)) /\ To("write", "send")
  /\ c2s' = Tail(c2s)
  /\ UNCHANGED <<protocolVars, connVars, manager, stop, got, s2c, callVars, panicked>>

\* sendMessageInternal.  On a broken connection the request may get to the
\* server, may vanish, or the call fails; on one we closed it fails.
SendMessage ==
  /\ loop["write"] = "send" /\ Holds("write", NoMsg)
  /\ \/ conn # "closed" /\ Ask(msg["write"]) /\ To("write", "run")
     \/ conn = "broken" /\ To("write", "run") /\ UNCHANGED protocolVars
     \/ conn # "open" /\ To("write", "error") /\ UNCHANGED protocolVars
  /\ UNCHANGED <<connVars, manager, stop, got, queueVars, callVars, panicked>>

\* processResponses looks the call up and releases the lock of the map ...
TakeResponse ==
  /\ loop["process"] = "run" /\ s2c # <<>>
  /\ s2c' = Tail(s2c)
  /\ IF Head(s2c).re \in pendingWrites \cup pendingReads
     THEN Holds("process", Head(s2c)) /\ To("process", "dispatch")
     ELSE UNCHANGED <<msg, loop>>
  /\ UNCHANGED <<protocolVars, connVars, manager, stop, got, c2s, callVars, panicked>>

\* ... and then sends: to a write what fits, to a read once there is room.
Dispatch ==
  LET m == msg["process"]  k == m.re IN
  /\ loop["process"] = "dispatch"
  /\ \/ k \in closed /\ panicked' = TRUE /\ UNCHANGED chan
     \/ /\ k \notin closed
        /\ k \in Reads => Len(chan[k]) < ReadCap
        /\ chan' = [chan EXCEPT ![k] = Offer(@, IF k \in Writes THEN 1 ELSE ReadCap, m)]
        /\ UNCHANGED panicked
  /\ To("process", "run") /\ Holds("process", NoMsg)
  /\ UNCHANGED <<protocolVars, connVars, manager, stop, got, queueVars,
                 pendingWrites, pendingReads, closed, call, result, data, given>>

LoopStep(l) ==
  \/ Stopped(l)
  \/ l \in {"read", "write"} /\ (Begin(l) \/ HandleError(l))
  \/ l = "read" /\ (ReadMessage \/ PushMessage)
  \/ l = "write" /\ (TakeRequest \/ SendMessage)
  \/ l = "process" /\ (TakeResponse \/ Dispatch)

-----------------------------------------------------------------------------
(* Enqueue, EnqueuePack and read                                            *)

At(k, where) == call' = [call EXCEPT ![k] = where]
Returns(k, r) == result' = [result EXCEPT ![k] = r]

\* The check under c.mu; the call goes on after it has released the lock.
Check(k) ==
  /\ call[k] = "idle"
  /\ IF connected /\ setup_done THEN At(k, "register") /\ UNCHANGED result
     ELSE At(k, "returned") /\ Returns(k, "not connected")
  /\ UNCHANGED <<protocolVars, connVars, manager, loopVars, queueVars,
                 pendingWrites, pendingReads, chan, closed, data, given, panicked>>

Register(k) ==
  /\ call[k] = "register"
  /\ At(k, "ask")
  /\ IF k \in Writes THEN pendingWrites' = pendingWrites \cup {k} /\ UNCHANGED pendingReads
     ELSE pendingReads' = pendingReads \cup {k} /\ UNCHANGED pendingWrites
  /\ UNCHANGED <<protocolVars, connVars, manager, loopVars, queueVars,
                 chan, closed, result, data, given, panicked>>

\* Mutant of Request: a full c2s is reported after the request has been queued.
Request_Late(k) ==
  /\ call[k] = "ask"
  /\ c2s' = Append(c2s, k)
  /\ IF Len(c2s) < C2SCap THEN At(k, "wait") /\ UNCHANGED result
     ELSE At(k, "leave") /\ Returns(k, "full")
  /\ UNCHANGED <<protocolVars, connVars, manager, loopVars, s2c,
                 pendingWrites, pendingReads, chan, closed, data, given, panicked>>

Request(k) ==
  /\ call[k] = "ask"
  /\ c2s' = Offer(c2s, C2SCap, k)
  /\ IF Len(c2s) < C2SCap THEN At(k, "wait") /\ UNCHANGED result
     ELSE At(k, "leave") /\ Returns(k, "full")
  /\ UNCHANGED <<protocolVars, connVars, manager, loopVars, s2c,
                 pendingWrites, pendingReads, chan, closed, data, given, panicked>>

\* What a call makes of a response.
Outcome(m) == IF m = nil THEN "connection closed" ELSE m.what

\* The response of a write, the first one of a read, and its entries.
Receive(k) ==
  /\ call[k] \in {"wait", "stream"} /\ chan[k] # <<>>
  /\ k \in Reads => Len(data[k]) <= BufSize
  /\ LET m == Head(chan[k]) IN
     CASE call[k] = "wait" /\ m.what = "start" -> At(k, "stream") /\ UNCHANGED <<result, data>>
       [] call[k] = "stream" /\ m.what = "entry" ->
            /\ data' = [data EXCEPT ![k] = Append(@, m.n)]
            /\ UNCHANGED <<call, result>>
       [] OTHER -> At(k, "leave") /\ Returns(k, Outcome(m)) /\ UNCHANGED data
  /\ chan' = [chan EXCEPT ![k] = Tail(@)]
  /\ UNCHANGED <<protocolVars, connVars, manager, loopVars, queueVars,
                 pendingWrites, pendingReads, closed, given, panicked>>

\* The deferred function: out of the map, then the channel is closed.
Leave(k) ==
  /\ call[k] = "leave"
  /\ At(k, "close")
  /\ pendingWrites' = pendingWrites \ {k}
  /\ pendingReads' = pendingReads \ {k}
  /\ UNCHANGED <<protocolVars, connVars, manager, loopVars, queueVars,
                 chan, closed, result, data, given, panicked>>

CloseChannel(k) ==
  /\ call[k] = "close"
  /\ At(k, "returned")
  /\ closed' = closed \cup {k}
  /\ UNCHANGED <<protocolVars, connVars, manager, loopVars, queueVars,
                 pendingWrites, pendingReads, chan, result, data, given, panicked>>

CallStep(k) == Register(k) \/ Request(k) \/ Receive(k) \/ Leave(k) \/ CloseChannel(k)

\* The program that reads from qr.Data.
Consume(r) ==
  /\ data[r] # <<>>
  /\ given' = [given EXCEPT ![r] = Append(@, Head(data[r]))]
  /\ data' = [data EXCEPT ![r] = Tail(@)]
  /\ UNCHANGED <<protocolVars, connVars, manager, loopVars, queueVars,
                 pendingWrites, pendingReads, chan, closed, call, result, panicked>>

\* The server, until it notices that the connection is gone.
ServerStep ==
  /\ Serve
  /\ conn = "open" \/ UNCHANGED line
  /\ UNCHANGED <<connVars, manager, loopVars, queueVars, callVars, panicked>>

-----------------------------------------------------------------------------
ClientInit ==
  /\ ProtocolInit
  /\ conn = "open" /\ setup_done = TRUE /\ breaks = 0
  /\ manager = "start"
  /\ stop = FALSE /\ loop = [l \in Loops |-> "done"]
  /\ got = 0 /\ msg = [l \in Loops |-> NoMsg]
  /\ c2s = <<>> /\ s2c = <<>>
  /\ pendingWrites = {} /\ pendingReads = {}
  /\ chan = [k \in Calls |-> <<>>] /\ closed = {}
  /\ call = [k \in Calls |-> "idle"]
  /\ result = [k \in Calls |-> "none"]
  /\ data = [r \in Reads |-> <<>>] /\ given = [r \in Reads |-> <<>>]
  /\ panicked = FALSE

ManagerStep == Dial \/ SetUp \/ SetUpFails \/ StartLoops \/ LoopsEnded

\* What happens without a new call or a failure.
Progress ==
  \/ ManagerStep
  \/ \E l \in Loops : LoopStep(l)
  \/ \E k \in Calls : CallStep(k)
  \/ \E r \in Reads : Consume(r)
  \/ ServerStep

ClientNext ==
  /\ ~panicked
  /\ Progress \/ Break \/ closeConnectionInternal \/ \E k \in Calls : Check(k)

ClientSpec == ClientInit /\ [][ClientNext]_vars

-----------------------------------------------------------------------------
\* What Enqueue returns is true of the server: a write is performed at most
\* once, also when connections fail and requests are left over in c2s; an id
\* means that it was, and ErrNotConnected, ErrBufferFull and ErrServerSide mean
\* that it was not and will not be.
OutcomeIsTrue ==
  \A w \in Writes :
    LET times == Cardinality({e \in 1..epoch : <<w, e>> \in acted}) IN
    /\ times <= 1
    /\ result[w] = "done" => times = 1
    /\ result[w] \in {"not connected", "full", "error"} => times = 0

Received(r) == given[r] \o data[r]

\* A consumer receives the entries of its read in the order the server sent
\* them and without a hole, and a read that ends without an error has all of
\* them, whatever connection they came on.
StreamIsWhole ==
  \A r \in Reads :
    /\ \A i \in 1..Len(Received(r)) : Received(r)[i] = i
    /\ result[r] = "end" =>
         \E e \in 1..epoch : Len(Received(r)) = Cardinality(Entries(r, e)) /\ IsOver(r, e)

\* Nobody waits for ever: when the goroutines have come to rest, every Enqueue
\* has returned and the client is connected and set up.  A call is answered or
\* is told of the end of its connection, whenever it registers; no goroutine
\* waits for another one that waits for it; the client gets to its next
\* connection.
RestIsIdle ==
  ~panicked /\ ~ENABLED Progress =>
    /\ \A w \in Writes : call[w] \in {"idle", "returned"}
    /\ connected /\ setup_done
=============================================================================
