-------------------------- MODULE ServerConnection --------------------------
(***************************************************************************)
(* A connection of the server (normfs/src/server/client_handler.rs) and    *)
(* the handlers of its requests (command_processor.rs): the read loop, the *)
(* process loop and the write loop, the channels between them, and a task  *)
(* for each request.  NormFS behind them is external here: enqueue         *)
(* succeeds or fails, and reader_fsm.read feeds the channel of a read.     *)
(*                                                                         *)
(* A write without packets, which is answered at once, setup and pings are *)
(* left out: they are tasks that send one response and change nothing.     *)
(***************************************************************************)
EXTENDS Naturals, Sequences

CONSTANTS
  Writes, Reads,   \* the requests that a client may send on the connection
  MaxEntries,      \* bound: entries a read finds
  REQUEST_CHANNEL_BUFFER, RESPONSE_CHANNEL_BUFFER,
  RxCap            \* capacity of the channel between a read and its handler

ASSUME ServerAssumption ==
  /\ {REQUEST_CHANNEL_BUFFER, RESPONSE_CHANNEL_BUFFER, RxCap} \subseteq Nat \ {0}
  /\ MaxEntries \in Nat
  /\ Writes \cap Reads = {}

VARIABLES
  peer,            \* "open", "gone"
  sent,            \* requests the client has sent
  wire,            \* those that the read loop has not read
  reader,          \* where read_loop is
  request,         \* the request it has read
  requests,        \* incoming_requests
  done,            \* signals in the done channel, whose capacity is 1
  processor,       \* where process_loop is
  handler,         \* where the task of each request is
  response,        \* the response it is sending
  source,          \* where the reader_fsm.read of a read is
  found,           \* how many entries it has found
  rx,              \* the entries on their way to the handler
  responses,       \* outgoing_responses
  writer,          \* where write_loop is
  writing,         \* the response it has taken
  line,            \* what the client receives
  acted            \* writes whose entries are in their queue

clientVars  == <<peer, sent>>
readerVars  == <<reader, request>>
sourceVars  == <<source, found>>
handlerVars == <<handler, response, rx, acted>>
writerVars  == <<writer, writing, line>>
vars == <<clientVars, wire, readerVars, requests, done, processor, handlerVars,
          sourceVars, responses, writerVars>>

Requests == Writes \cup Reads
None == "none"
Response(q, what, n) == [re |-> q, what |-> what, n |-> n]

-----------------------------------------------------------------------------
(* The client                                                               *)

ClientSends(q) ==
  /\ peer = "open" /\ q \notin sent
  /\ sent' = sent \cup {q}
  /\ wire' = Append(wire, q)
  /\ UNCHANGED <<peer, readerVars, requests, done, processor, handlerVars, sourceVars,
                 responses, writerVars>>

ClientLeaves ==
  /\ peer = "open"
  /\ peer' = "gone"
  /\ UNCHANGED <<sent, wire, readerVars, requests, done, processor, handlerVars, sourceVars,
                 responses, writerVars>>

-----------------------------------------------------------------------------
(* read_loop                                                                *)

ReadRequest ==
  /\ reader = "read" /\ wire # <<>>
  /\ request' = Head(wire) /\ wire' = Tail(wire)
  /\ reader' = "push"
  /\ UNCHANGED <<clientVars, requests, done, processor, handlerVars, sourceVars, responses,
                 writerVars>>

\* incoming_tx.send.  handle_connection owns the receiver, so it cannot fail.
PushRequest ==
  /\ reader = "push" /\ Len(requests) < REQUEST_CHANNEL_BUFFER
  /\ requests' = Append(requests, request)
  /\ request' = None
  /\ reader' = "read"
  /\ UNCHANGED <<clientVars, wire, done, processor, handlerVars, sourceVars, responses,
                 writerVars>>

\* The end of the stream, a read error, or IDLE_TIMEOUT without a request.
StopReading ==
  /\ reader = "read"
  /\ peer = "gone" \/ wire = <<>>
  /\ reader' = "done"
  /\ UNCHANGED <<clientVars, wire, request, requests, done, processor, handlerVars, sourceVars,
                 responses, writerVars>>

SignalFromReader ==
  /\ reader = "done" /\ done = 0
  /\ done' = 1
  /\ reader' = "end"
  /\ UNCHANGED <<clientVars, wire, request, requests, processor, handlerVars, sourceVars,
                 responses, writerVars>>

-----------------------------------------------------------------------------
(* process_loop                                                             *)

\* Mutant of Process: a request is shed when outgoing_responses is full.
Process_Sheds ==
  /\ processor = "run" /\ requests # <<>>
  /\ requests' = Tail(requests)
  /\ handler' = IF Len(responses) = RESPONSE_CHANNEL_BUFFER THEN handler
                ELSE [handler EXCEPT ![Head(requests)] = "run"]
  /\ UNCHANGED <<clientVars, wire, readerVars, done, processor, response, rx, acted,
                 sourceVars, responses, writerVars>>

\* handle_request spawns a task.
Process ==
  /\ processor = "run" /\ requests # <<>>
  /\ requests' = Tail(requests)
  /\ handler' = [handler EXCEPT ![Head(requests)] = "run"]
  /\ UNCHANGED <<clientVars, wire, readerVars, done, processor, response, rx, acted,
                 sourceVars, responses, writerVars>>

\* The other branch of the select, whatever is left in incoming_requests.
ProcessDone ==
  /\ processor = "run" /\ done = 1
  /\ done' = 0
  /\ processor' = "end"
  /\ UNCHANGED <<clientVars, wire, readerVars, requests, handlerVars, sourceVars, responses,
                 writerVars>>

-----------------------------------------------------------------------------
(* The handlers                                                             *)

Sends(q, what, n) ==
  /\ handler' = [handler EXCEPT ![q] = "send"]
  /\ response' = [response EXCEPT ![q] = Response(q, what, n)]

\* Mutant of handle_write: the error of the last step is answered although the
\* entries were enqueued.
handle_write_Denies(w) ==
  /\ handler[w] = "run"
  /\ \/ acted' = acted \cup {w} /\ \E what \in {"done", "error"} : Sends(w, what, 0)
     \/ Sends(w, "error", 0) /\ UNCHANGED acted
  /\ UNCHANGED <<clientVars, wire, readerVars, requests, done, processor, rx, sourceVars,
                 responses, writerVars>>

\* The queue cannot be created or written, or the entries are enqueued.
handle_write(w) ==
  /\ handler[w] = "run"
  /\ \/ acted' = acted \cup {w} /\ Sends(w, "done", 0)
     \/ Sends(w, "error", 0) /\ UNCHANGED acted
  /\ UNCHANGED <<clientVars, wire, readerVars, requests, done, processor, rx, sourceVars,
                 responses, writerVars>>

\* handle_read up to its first response.
handle_read(r) ==
  /\ handler[r] = "run"
  /\ \E what \in {"start", "failed"} : Sends(r, what, 0)
  /\ UNCHANGED <<clientVars, wire, readerVars, requests, done, processor, rx, acted, sourceVars,
                 responses, writerVars>>

\* sender.send_response: the response is taken, or the write loop is gone.
\* After RR_START the read is spawned.
SendResponse(q) ==
  /\ handler[q] = "send"
  /\ \/ /\ Len(responses) < RESPONSE_CHANNEL_BUFFER /\ writer # "end"
        /\ responses' = Append(responses, response[q])
        /\ handler' = [handler EXCEPT ![q] =
                         IF response[q].what \in {"start", "entry"} THEN "stream" ELSE "ended"]
        /\ source' = IF response[q].what = "start" THEN [source EXCEPT ![q] = "reading"]
                     ELSE source
     \/ /\ writer = "end"
        /\ handler' = [handler EXCEPT ![q] = "ended"]
        /\ UNCHANGED <<responses, source>>
  /\ response' = [response EXCEPT ![q] = Response(q, "none", 0)]
  /\ UNCHANGED <<clientVars, wire, readerVars, requests, done, processor, rx, acted, found,
                 writerVars>>

\* An entry from the read.
SendEntry(r) ==
  /\ handler[r] = "stream" /\ rx[r] # <<>>
  /\ rx' = [rx EXCEPT ![r] = Tail(@)]
  /\ Sends(r, "entry", Head(rx[r]))
  /\ UNCHANGED <<clientVars, wire, readerVars, requests, done, processor, acted, sourceVars,
                 responses, writerVars>>

Over == {"completed", "failed", "unsubscribed"}

\* What read_handle.await gives: the end, an error, or nothing to say when the
\* read had become a subscription.
Conclude(r) ==
  /\ CASE source[r] = "completed" -> Sends(r, "end", 0)
       [] source[r] = "failed"    -> Sends(r, "failed", 0)
       [] OTHER -> handler' = [handler EXCEPT ![r] = "ended"] /\ UNCHANGED response
  /\ UNCHANGED <<clientVars, wire, readerVars, requests, done, processor, rx, acted, sourceVars,
                 responses, writerVars>>

\* rx.recv() is None: every sender is gone and the channel is empty.
EndStream(r) ==
  /\ handler[r] = "stream" /\ source[r] \in Over /\ rx[r] = <<>>
  /\ Conclude(r)

HandlerStep(q) ==
  \/ SendResponse(q)
  \/ q \in Writes /\ handle_write(q)
  \/ q \in Reads /\ (handle_read(q) \/ SendEntry(q) \/ EndStream(q))

-----------------------------------------------------------------------------
(* reader_fsm.read and the subscription it may leave behind: entries, then  *)
(* one of its results.  Once the handler is gone nobody hears of it.        *)

Find(r) ==
  /\ source[r] \in {"reading", "subscribed"} /\ handler[r] # "ended"
  /\ found[r] < MaxEntries /\ Len(rx[r]) < RxCap
  /\ found' = [found EXCEPT ![r] = @ + 1]
  /\ rx' = [rx EXCEPT ![r] = Append(@, found'[r])]
  /\ UNCHANGED <<clientVars, wire, readerVars, requests, done, processor, handler, response,
                 acted, source, responses, writerVars>>

Results(s) == CASE s = "reading"    -> {"completed", "failed", "subscribed"}
                [] s = "subscribed" -> {"unsubscribed"}
                [] OTHER            -> {}

Result(r) ==
  /\ handler[r] # "ended"
  /\ \E s \in Results(source[r]) : source' = [source EXCEPT ![r] = s]
  /\ UNCHANGED <<clientVars, wire, readerVars, requests, done, processor, handlerVars, found,
                 responses, writerVars>>

-----------------------------------------------------------------------------
(* write_loop.  handle_connection keeps a sender, so recv() is never None.  *)

TakeResponse ==
  /\ writer = "recv" /\ responses # <<>>
  /\ writing' = Head(responses) /\ responses' = Tail(responses)
  /\ writer' = "write"
  /\ UNCHANGED <<clientVars, wire, readerVars, requests, done, processor, handlerVars, sourceVars,
                 line>>

\* Mutant of WriteResponse: a write that fails is tried again.
WriteResponse_Retries ==
  /\ writer = "write" /\ peer = "open"
  /\ writer' = "recv" /\ line' = Append(line, writing)
  /\ writing' = Response(None, "none", 0)
  /\ UNCHANGED <<clientVars, wire, readerVars, requests, done, processor, handlerVars, sourceVars,
                 responses>>

\* What is written to a client that is gone may vanish before the first error.
WriteResponse ==
  /\ writer = "write"
  /\ \/ peer = "open" /\ writer' = "recv" /\ line' = Append(line, writing)
     \/ peer = "gone" /\ writer' \in {"recv", "done"} /\ UNCHANGED line
  /\ writing' = Response(None, "none", 0)
  /\ UNCHANGED <<clientVars, wire, readerVars, requests, done, processor, handlerVars, sourceVars,
                 responses>>

\* The receiver, and what is left in it, goes with the loop.
SignalFromWriter ==
  /\ writer = "done" /\ done = 0
  /\ done' = 1
  /\ writer' = "end" /\ responses' = <<>>
  /\ UNCHANGED <<clientVars, wire, readerVars, requests, processor, handlerVars, sourceVars,
                 writing, line>>

-----------------------------------------------------------------------------
ServerInit ==
  /\ peer = "open" /\ sent = {} /\ wire = <<>>
  /\ reader = "read" /\ request = None /\ requests = <<>> /\ done = 0
  /\ processor = "run"
  /\ handler = [q \in Requests |-> "none"]
  /\ response = [q \in Requests |-> Response(q, "none", 0)]
  /\ source = [r \in Reads |-> "none"] /\ found = [r \in Reads |-> 0]
  /\ rx = [r \in Reads |-> <<>>]
  /\ responses = <<>> /\ writer = "recv" /\ writing = Response(None, "none", 0)
  /\ line = <<>> /\ acted = {}

ReaderStep == ReadRequest \/ PushRequest \/ SignalFromReader
WriterStep == TakeResponse \/ WriteResponse \/ SignalFromWriter

ServerNext ==
  \/ ClientLeaves \/ StopReading
  \/ ReaderStep \/ Process \/ ProcessDone \/ WriterStep
  \/ \E q \in Requests : ClientSends(q) \/ HandlerStep(q)
  \/ \E r \in Reads : Find(r) \/ Result(r)

ServerSpec == ServerInit /\ [][ServerNext]_vars

\* The runtime polls every task that can go on.
FairServerSpec ==
  /\ ServerSpec
  /\ WF_vars(ReaderStep) /\ WF_vars(Process \/ ProcessDone) /\ WF_vars(WriterStep)
  /\ \A q \in Requests : WF_vars(HandlerStep(q))

-----------------------------------------------------------------------------
Says(q, what) == \E i \in DOMAIN line : line[i].re = q /\ line[i].what = what

\* One connection of the protocol; a refused write is no longer asked for.
Promise == INSTANCE Protocol WITH
  asked <- {<<q, 1>> : q \in {s \in sent : ~Says(s, "error")}},
  acted <- {<<w, 1>> : w \in acted},
  line  <- <<line>>

\* The server keeps its promise to clients: a write is performed at most once
\* and before it is answered, a refused one never; each request has its
\* responses in order, whatever the tasks of the others do meanwhile.
KeepsPromise == Promise!ProtocolSpec

\* Every write that a connected client has sent is answered, as long as the
\* read loop has not stopped because the client was idle.
WritesAreAnswered ==
  \A w \in Writes :
    w \in sent ~> Says(w, "done") \/ Says(w, "error") \/ peer = "gone" \/ reader \in {"done", "end"}

\* No task waits for ever to hand over a response: the write loop takes it, or
\* it goes away and the task with it.
NoSendHangs ==
  \A q \in Requests : handler[q] = "send" ~> handler[q] # "send"
=============================================================================
