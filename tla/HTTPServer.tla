------------------------------ MODULE HTTPServer ------------------------------
(***************************************************************************)
(* The HTTP front end around the coordinator (HTTPServer.swift): the event *)
(* loop that reads requests and writes responses, one task per completion, *)
(* the registry of connections and tasks, heartbeats, and shutdown.        *)
(*                                                                         *)
(* A task runs beside the event loop and hands it writes; the loop runs    *)
(* them in order.  A request stands for one exchange on a fixed connection.*)
(***************************************************************************)
EXTENDS ServerCoordinator

CONSTANTS
  Conns,      \* connections
  ConnOf,     \* the connection a request arrives on
  Streaming,  \* requests with "stream": true
  MaxEvents,  \* content and tool-call events of one generation
  NoRequest

ASSUME ConnsAssumption ==
  ConnOf \in [Requests -> Conns] /\ Streaming \subseteq Requests
ASSUME MaxEventsAssumption == MaxEvents \in Nat
ASSUME NoRequestAssumption == NoRequest \notin Requests

VARIABLES
  conn,        \* per connection: "new", "open" or "closed"
  serving,     \* per connection: the request whose response has not ended
  activeTask,  \* per connection: the task channelInactive will cancel
  outbox,      \* per connection: writes handed to the event loop
  sent,        \* per request: what reached the wire, "nothing", "open", "ended"
  reply,       \* per request: its task, "none", "pending", "written", "ended"
  stream,      \* per request: StreamState, "off", "on", "stopped"
  emitted,     \* per request: events of the generation so far
  late,        \* requests with a ping on the wire after their last part
  listed,      \* ChildChannelRegistry.channels
  registryDown,\* ChildChannelRegistry.shuttingDown
  stage,       \* where shutdown is
  closing,     \* connections closeAll has still to close
  awaiting     \* tasks closeAll waits for

registry  == <<listed, registryDown>>
shutdown  == <<stage, closing, awaiting>>
exchanges == <<conn, serving, activeTask, sent, late>>
tasks     == <<reply, stream, emitted>>
httpVars  == <<exchanges, outbox, tasks, registry, shutdown>>
vars      == <<coordinatorVars, httpVars>>

Part == [request : Requests,
         kind : {"head", "chunk", "done", "json", "close"}]
Stages == {"up", "drained", "closing", "awaiting", "done"}

HTTPInit ==
  /\ CoordinatorInit
  /\ conn = [c \in Conns |-> "new"]
  /\ serving = [c \in Conns |-> NoRequest]
  /\ activeTask = [c \in Conns |-> NoRequest]
  /\ outbox = [c \in Conns |-> <<>>]
  /\ sent = [r \in Requests |-> "nothing"]
  /\ reply = [r \in Requests |-> "none"]
  /\ stream = [r \in Requests |-> "off"]
  /\ emitted = [r \in Requests |-> 0]
  /\ late = {} /\ listed = {} /\ registryDown = FALSE
  /\ stage = "up" /\ closing = {} /\ awaiting = {}

Registered == {r \in Requests : reply[r] \in {"pending", "written"}}

\* eventLoop.execute; what is written to a closed channel is dropped.
Write(r, kinds) ==
  LET c == ConnOf[r]
      parts == [i \in DOMAIN kinds |-> [request |-> r, kind |-> kinds[i]]]
  IN  outbox' = IF conn[c] = "open"
                THEN [outbox EXCEPT ![c] = @ \o parts] ELSE outbox

-----------------------------------------------------------------------------
(* The event loop.                                                         *)

\* childChannelInitializer.  A connection taken from the listener before it was
\* closed may be initialized at any point of the shutdown.
Accept(c) ==
  /\ conn[c] = "new" /\ stage # "done"
  /\ \/ registryDown /\ conn' = [conn EXCEPT ![c] = "closed"] /\ UNCHANGED listed
     \/ /\ ~registryDown
        /\ conn' = [conn EXCEPT ![c] = "open"]
        /\ listed' = listed \cup {c}
  /\ UNCHANGED <<coordinatorVars, serving, activeTask, sent, late, outbox,
                 tasks, registryDown, shutdown>>

\* Mutant: a request is delivered while the previous one is being answered.
DeliveredAtOnce(r) ==
  /\ conn[ConnOf[r]] = "open"
  /\ reply[r] = "none"
  /\ serving' = [serving EXCEPT ![ConnOf[r]] = r]

\* A request is complete.  The pipeline handler delivers it once the response
\* before it on the connection has ended.
Delivered(r) ==
  /\ conn[ConnOf[r]] = "open" /\ serving[ConnOf[r]] = NoRequest
  /\ reply[r] = "none"
  /\ serving' = [serving EXCEPT ![ConnOf[r]] = r]

\* Mutant: the new task is not remembered on the connection.
ReadForgetting(r) ==
  /\ Delivered(r)
  /\ StartCall(r, registryDown)
  /\ reply' = [reply EXCEPT ![r] = "pending"]
  /\ UNCHANGED <<conn, activeTask, sent, late, outbox, stream, emitted,
                 registry, shutdown>>

\* A valid completion request: its task is registered and started.
ReadCompletion(r) ==
  /\ Delivered(r)
  /\ StartCall(r, registryDown)
  /\ activeTask' = [activeTask EXCEPT ![ConnOf[r]] = r]
  /\ reply' = [reply EXCEPT ![r] = "pending"]
  /\ UNCHANGED <<conn, sent, late, outbox, stream, emitted, registry, shutdown>>

\* Every other request is answered where it is read.
ReadOther(r) ==
  /\ Delivered(r)
  /\ Write(r, <<"json">>)
  /\ reply' = [reply EXCEPT ![r] = "ended"]
  /\ UNCHANGED <<coordinatorVars, conn, activeTask, sent, late, stream,
                 emitted, registry, shutdown>>

\* close and channelInactive: the task of the connection is cancelled.
CloseConnection(c) ==
  /\ conn' = [conn EXCEPT ![c] = "closed"]
  /\ Cancel({activeTask[c]} \ {NoRequest})
  /\ activeTask' = [activeTask EXCEPT ![c] = NoRequest]
  /\ listed' = listed \ {c}
  /\ outbox' = [outbox EXCEPT ![c] = <<>>]
  /\ UNCHANGED <<serving, sent, late, tasks, registryDown>>

ClientCloses(c) ==
  /\ conn[c] = "open"
  /\ CloseConnection(c)
  /\ UNCHANGED shutdown

\* The loop runs the next write of a connection.
RunWrite(c) ==
  /\ outbox[c] # <<>>
  /\ LET part == Head(outbox[c])
     IN  \/ /\ part.kind = "close"
            /\ CloseConnection(c)
         \/ /\ part.kind # "close"
            /\ sent' = [sent EXCEPT ![part.request] =
                 IF part.kind \in {"done", "json"} THEN "ended" ELSE "open"]
            /\ serving' = IF part.kind \in {"done", "json"}
                          THEN [serving EXCEPT ![c] = NoRequest] ELSE serving
            /\ outbox' = [outbox EXCEPT ![c] = Tail(@)]
            /\ UNCHANGED <<coordinatorVars, conn, activeTask, late, tasks, registry>>
  /\ UNCHANGED shutdown

\* The repeated heartbeat task, its first run later than the stream's head.
Ping(r) ==
  /\ stream[r] = "on" /\ conn[ConnOf[r]] = "open"
  /\ sent[r] # "nothing"
  /\ late' = IF sent[r] = "ended" THEN late \cup {r} ELSE late
  /\ UNCHANGED <<coordinatorVars, conn, serving, activeTask, sent, outbox,
                 tasks, registry, shutdown>>

-----------------------------------------------------------------------------
(* The task of a completion request.                                       *)

\* startStream: headers, the role chunk and the heartbeat, once.
StartStream(r) ==
  IF r \in Streaming /\ stream[r] = "off"
  THEN Write(r, <<"head">>) /\ stream' = [stream EXCEPT ![r] = "on"]
  ELSE UNCHANGED <<outbox, stream>>

\* A streaming request that has to wait gets its headers from onQueued.
AcquireModel(r) ==
  /\ Acquire(r)
  /\ IF CanQueue(r) THEN StartStream(r) ELSE UNCHANGED <<outbox, stream>>
  /\ UNCHANGED <<exchanges, reply, emitted, registry, shutdown>>

BeginOperation(r) ==
  /\ call[r] = "operating" /\ r \in Streaming /\ stream[r] = "off"
  /\ StartStream(r)
  /\ UNCHANGED <<coordinatorVars, exchanges, reply, emitted, registry, shutdown>>

Begun(r) == r \in Streaming => stream[r] = "on"

EmitEvent(r) ==
  /\ call[r] = "operating" /\ r \in Streaming /\ Begun(r)
  /\ emitted[r] < MaxEvents
  /\ emitted' = [emitted EXCEPT ![r] = @ + 1]
  /\ Write(r, <<"chunk">>)
  /\ UNCHANGED <<coordinatorVars, exchanges, reply, stream, registry, shutdown>>

EndOperation(r) ==
  /\ Begun(r)
  /\ FinishOperation(r)
  /\ UNCHANGED httpVars

ReturnFromRun(r) ==
  /\ Resume(r) \/ LeaveRun(r)
  /\ UNCHANGED httpVars

LeaveLine(r) ==
  /\ CancelWaiter(r)
  /\ UNCHANGED httpVars

\* Mutants: an error after the stream's head is answered by nothing, or by a
\* JSON envelope.
AnswerSilently(r) ==
  IF outcome[r] = "completed"
  THEN IF r \in Streaming THEN <<"chunk", "done">> ELSE <<"json">>
  ELSE IF stream[r] = "on" THEN <<>> ELSE <<"json">>
AnswerErrorWithJSON(r) ==
  IF outcome[r] = "completed" /\ r \in Streaming
  THEN <<"chunk", "done">> ELSE <<"json">>

\* finishStream, writeCompletion or handleAsyncError.
Answer(r) ==
  IF outcome[r] = "completed"
  THEN IF r \in Streaming THEN <<"chunk", "done">> ELSE <<"json">>
  ELSE IF stream[r] = "on" THEN <<"close">> ELSE <<"json">>

Respond(r) ==
  /\ call[r] = "returned" /\ reply[r] = "pending"
  /\ Write(r, Answer(r))
  /\ reply' = [reply EXCEPT ![r] = "written"]
  /\ UNCHANGED <<coordinatorVars, exchanges, stream, emitted, registry, shutdown>>

\* Mutant: only a completed call leaves the registry.
EndCompletedTask(r) ==
  /\ reply[r] = "written" /\ outcome[r] = "completed"
  /\ reply' = [reply EXCEPT ![r] = "ended"]
  /\ stream' = [stream EXCEPT ![r] = "stopped"]
  /\ UNCHANGED <<coordinatorVars, exchanges, outbox, emitted, registry, shutdown>>

\* The task's defer stops the heartbeat; the task leaves the registry.
EndTask(r) ==
  /\ reply[r] = "written"
  /\ reply' = [reply EXCEPT ![r] = "ended"]
  /\ stream' = [stream EXCEPT ![r] = "stopped"]
  /\ UNCHANGED <<coordinatorVars, exchanges, outbox, emitted, registry, shutdown>>

-----------------------------------------------------------------------------
(* shutdown(): the coordinator, the listener, closeAll.                    *)

DrainCoordinator ==
  /\ stage = "up"
  /\ ShutdownCoordinator
  /\ stage' = "drained"
  /\ UNCHANGED <<exchanges, outbox, tasks, registry, closing, awaiting>>

\* Mutant: closeAll does not mark the registry.
BeginCloseAllUnmarked ==
  /\ stage = "drained"
  /\ stage' = "closing"
  /\ closing' = listed
  /\ UNCHANGED <<coordinatorVars, exchanges, outbox, tasks, registry, awaiting>>

BeginCloseAll ==
  /\ stage = "drained"
  /\ stage' = "closing"
  /\ registryDown' = TRUE
  /\ closing' = listed
  /\ UNCHANGED <<coordinatorVars, exchanges, outbox, tasks, listed, awaiting>>

CloseNext(c) ==
  /\ stage = "closing" /\ c \in closing
  /\ closing' = closing \ {c}
  /\ IF conn[c] = "open" THEN CloseConnection(c)
     ELSE UNCHANGED <<coordinatorVars, exchanges, outbox, tasks, registry>>
  /\ UNCHANGED <<stage, awaiting>>

CancelTasks ==
  /\ stage = "closing" /\ closing = {}
  /\ awaiting' = Registered
  /\ Cancel(Registered)
  /\ stage' = "awaiting"
  /\ UNCHANGED <<exchanges, outbox, tasks, registry, closing>>

FinishShutdown ==
  /\ stage = "awaiting"
  /\ awaiting \cap Registered = {}
  /\ stage' = "done"
  /\ UNCHANGED <<coordinatorVars, exchanges, outbox, tasks, registry, closing,
                 awaiting>>

ShutdownStep ==
  \/ BeginCloseAll \/ CancelTasks \/ FinishShutdown
  \/ \E c \in Conns : CloseNext(c)

TaskStep(r) ==
  \/ AcquireModel(r) \/ BeginOperation(r) \/ EndOperation(r)
  \/ ReturnFromRun(r) \/ Respond(r) \/ EndTask(r)

HTTPNext ==
  \/ \E c \in Conns : Accept(c) \/ ClientCloses(c) \/ RunWrite(c)
  \/ \E r \in Requests :
       \/ ReadCompletion(r) \/ ReadOther(r) \/ Ping(r)
       \/ TaskStep(r) \/ EmitEvent(r) \/ LeaveLine(r)
  \/ DrainCoordinator
  \/ ShutdownStep

HTTPSpec == HTTPInit /\ [][HTTPNext]_vars

\* Tasks and the event loop run; a generation ends, for it has a token limit
\* and checks for cancellation; a shutdown that began goes on.
HTTPFairness ==
  /\ \A r \in Requests : WF_vars(TaskStep(r)) /\ WF_vars(LeaveLine(r))
  /\ \A c \in Conns : WF_vars(RunWrite(c))
  /\ WF_vars(ShutdownStep)

FairHTTPSpec == HTTPSpec /\ HTTPFairness

-----------------------------------------------------------------------------
(* Properties.                                                             *)

HTTPTypeOK ==
  /\ conn \in [Conns -> {"new", "open", "closed"}]
  /\ serving \in [Conns -> Requests \cup {NoRequest}]
  /\ activeTask \in [Conns -> Requests \cup {NoRequest}]
  /\ outbox \in [Conns -> Seq(Part)]
  /\ sent \in [Requests -> {"nothing", "open", "ended"}]
  /\ reply \in [Requests -> {"none", "pending", "written", "ended"}]
  /\ stream \in [Requests -> {"off", "on", "stopped"}]
  /\ emitted \in [Requests -> 0..MaxEvents]
  /\ late \subseteq Requests
  /\ listed \subseteq Conns /\ registryDown \in BOOLEAN
  /\ stage \in Stages /\ closing \subseteq Conns /\ awaiting \subseteq Requests

\* Pipelined exchanges take turns: on an open connection one request at most is
\* unanswered, and it is the one whose response the connection is in.
ExchangesInTurn ==
  /\ \A r \in Requests :
       /\ reply[r] # "none" /\ sent[r] # "ended" /\ conn[ConnOf[r]] = "open"
            => serving[ConnOf[r]] = r
       /\ reply[r] = "none" =>
            sent[r] = "nothing" /\ call[r] = "none" /\ stream[r] = "off"
       /\ reply[r] # "none" => conn[ConnOf[r]] # "new"
  /\ \A c \in Conns :
       /\ conn[c] # "open" => outbox[c] = <<>>
       /\ serving[c] # NoRequest => ConnOf[serving[c]] = c /\ reply[serving[c]] # "none"

\* A stream's head is written before the task ends, and the task of a request
\* that is not answered has ended nothing on its connection.
StreamsAgree ==
  \A r \in Requests :
    /\ outcome[r] = "completed" /\ r \in Streaming => stream[r] # "off"
    /\ reply[r] = "pending" => stream[r] # "stopped" /\ (stream[r] = "on" => r \in Streaming)
    /\ reply[r] = "pending" /\ conn[ConnOf[r]] = "open" =>
         LET s == outbox[ConnOf[r]]
         IN  /\ \A i \in DOMAIN s : s[i].kind \in {"head", "chunk"}
             /\ stream[r] = "off" => sent[r] = "nothing" /\ s = <<>>
             /\ stream[r] = "on" =>
                  sent[r] = "open" \/ (sent[r] = "nothing" /\ s # <<>> /\ s[1].kind = "head")

\* A call of run belongs to a task that has not answered; the connection can
\* cancel that task, or has.
TasksAgree ==
  /\ \A r \in Requests :
       /\ call[r] \notin {"none", "returned"} => reply[r] = "pending"
       /\ reply[r] \in {"pending", "written"} => call[r] # "none"
       /\ reply[r] = "pending" /\ conn[ConnOf[r]] = "open" => activeTask[ConnOf[r]] = r
       /\ reply[r] = "pending" /\ conn[ConnOf[r]] = "closed" => r \in cancelled
  /\ \A c \in Conns : activeTask[c] # NoRequest => call[activeTask[c]] # "none"

\* The registry lists the open connections, and shutdown has accounted for each
\* of them, and then for each task.
RegistryAgrees ==
  /\ listed = {c \in Conns : conn[c] = "open"}
  /\ registryDown <=> stage \in {"closing", "awaiting", "done"}
  /\ stage = "closing" => listed \subseteq closing
  /\ stage \in {"awaiting", "done"} => listed = {}
  /\ stage = "awaiting" => Registered \subseteq awaiting
  /\ stage = "done" => Registered = {}

\* The event loop, the tasks, the coordinator and shutdown agree at every step.
HTTPInv ==
  /\ HTTPTypeOK /\ CoordinatorInv
  /\ ExchangesInTurn /\ StreamsAgree /\ TasksAgree /\ RegistryAgrees

\* What a connection's queued writes add to the wire is a response: one head
\* before the chunks, one end, or a JSON document alone, and no part of any
\* other exchange beside it.
ResponsesAreFramed ==
  \A c \in Conns : LET s == outbox[c] IN \A i \in DOMAIN s :
    /\ s[i].request = serving[c]
    /\ s[i].kind = "head" => sent[s[i].request] = "nothing" /\ i = 1
    /\ s[i].kind \in {"chunk", "done"} => sent[s[i].request] = "open" \/ s[1].kind = "head"
    /\ s[i].kind = "json" => sent[s[i].request] = "nothing" /\ i = 1
    /\ s[i].kind \in {"done", "json", "close"} => i = Len(s)

\* No generation runs, and no call waits, for a client that is gone: its task
\* is cancelled, whichever of the two requests of the connection it belongs to
\* and however close and shutdown interleave.
NoOrphans ==
  \A r \in Requests :
    reply[r] = "pending" /\ call[r] # "returned" /\ conn[ConnOf[r]] = "closed"
      => r \in cancelled

\* When shutdown returns, no connection is open and no task is left, also none
\* whose request was read while closeAll ran.
ShutdownQuiesces ==
  stage = "done" => /\ Registered = {} /\ ~active
                    /\ \A c \in Conns : conn[c] # "open"

\* Every completion request gets a complete response or its connection closes.
AnsweredOrClosed ==
  \A r \in Requests :
    reply[r] = "pending" ~> sent[r] = "ended" \/ conn[ConnOf[r]] = "closed"

\* A shutdown that began returns.
ShutdownEnds == stage # "up" ~> stage = "done"

\* "text.hasSuffix("data: [DONE]")": nothing follows a stream's last part.
DoneEndsStream == late = {}
=============================================================================
