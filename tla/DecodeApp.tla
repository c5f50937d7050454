------------------------------ MODULE DecodeApp ------------------------------
(***************************************************************************)
(* The Mac application over the decode service: AppModel, which the user   *)
(* drives, and DecodeServiceInferenceClient, whose calls write a command   *)
(* and read frames from one connection.  Every call is a task of its own,  *)
(* and two calls may read at once.                                         *)
(*                                                                         *)
(* The service runs and the connection stands; the user acts when the      *)
(* application has done what it can do without an answer (Settled).        *)
(* A generation counter of AppModel is the number of the last call that    *)
(* raised it.                                                              *)
(***************************************************************************)
EXTENDS DecodeService

VARIABLES
  app,        \* AppModel's state
  calls,      \* the client's calls
  torn,       \* two readers have torn a frame: no reader finds one any more
  reading,    \* generate: the next sequence number and the terminal event
  transcript  \* GenerationTranscriptMailbox

appVars == <<app, calls, torn, reading, transcript>>
vars == <<serviceVars, appVars>>

NoCall == [op |-> "none", pc |-> "none", key |-> NoKey, after |-> NoId,
           cancelled |-> FALSE]

Init ==
  /\ ServiceInit
  /\ app \in [loadState : {"notLoaded"}, key : Keys, load : {NoId},
              unload : {NoId}, run : {NoId}, runState : {"idle"},
              cancelPending : {FALSE}]
  /\ calls = [i \in Ids |-> NoCall]
  /\ torn = FALSE
  /\ reading = [expected |-> 1, outcome |-> NoTerminal]
  /\ transcript = <<>>

Running == app.runState = "running"
Finished(i) == i \in {NoId} \cup {j \in Ids : calls[j].pc = "done"}

Blocked(i) ==
  \/ calls[i].pc \in {"none", "read", "done"}
  \/ calls[i].pc = "wait" /\ ~Finished(calls[i].after)

Settled == \A i \in Ids : Blocked(i)

\* The next call, when the bound leaves one.
Fresh(i) ==
  /\ calls[i].pc = "none"
  /\ \A j \in 1..(i - 1) : calls[j].pc # "none"

Call(op, pc, key, after) ==
  [op |-> op, pc |-> pc, key |-> key, after |-> after, cancelled |-> FALSE]

WithoutLoad(c) == [j \in Ids |-> IF j = app.load THEN [c[j] EXCEPT !.cancelled = TRUE] ELSE c[j]]

Write(command) == commands' = Append(commands, command)

quietService == <<frames, queue, service, directory, session, registry, task,
                  stream, made, outbox, writer>>

-----------------------------------------------------------------------------
(* The user, through AppModel.                                             *)

\* beginLoad: the load waits for the unload that is under way.
BeginLoad(i, key) ==
  /\ Fresh(i)
  /\ calls' = [calls EXCEPT ![i] = Call("load", "wait", key, app.unload)]
  /\ app' = [app EXCEPT !.key = key, !.load = i, !.loadState = "loading"]
  /\ UNCHANGED <<serviceVars, torn, reading, transcript>>

Load ==
  /\ Settled /\ ~Running
  /\ app.loadState \in {"notLoaded", "failed"}
  /\ \E i \in Ids : BeginLoad(i, app.key)

\* The options changed since the model was loaded.
Reload ==
  /\ Settled /\ ~Running /\ app.loadState = "ready"
  /\ \E i \in Ids, key \in Keys \ {app.key} : BeginLoad(i, key)

CancelLoad ==
  /\ Settled /\ app.loadState = "loading"
  /\ \E i \in Ids :
       /\ Fresh(i)
       /\ calls' = [WithoutLoad(calls) EXCEPT ![i] = Call("unload", "send", NoKey, NoId)]
       /\ app' = [app EXCEPT !.loadState = "cancelling", !.load = NoId, !.unload = i]
  /\ UNCHANGED <<serviceVars, torn, reading, transcript>>

Unload ==
  /\ Settled /\ ~Running /\ app.loadState = "ready"
  /\ \E i \in Ids :
       /\ Fresh(i)
       /\ calls' = [calls EXCEPT ![i] = Call("unload", "send", NoKey, NoId)]
       /\ app' = [app EXCEPT !.loadState = "unloading", !.unload = i]
  /\ UNCHANGED <<serviceVars, torn, reading, transcript>>

\* Another model is chosen: whatever is loaded or loading is dropped, and the
\* unload runs behind the scenes.
SetModelURL ==
  /\ Settled /\ ~Running
  /\ \E i \in Ids, key \in Keys \ {app.key} :
       /\ Fresh(i)
       /\ calls' = [WithoutLoad(calls) EXCEPT ![i] = Call("forget", "send", NoKey, NoId)]
       /\ app' = [app EXCEPT !.key = key, !.load = NoId, !.unload = i,
                             !.loadState = "notLoaded"]
  /\ UNCHANGED <<serviceVars, torn, reading, transcript>>

Run ==
  /\ Settled /\ ~Running /\ app.loadState = "ready"
  /\ \E i \in Ids :
       /\ Fresh(i)
       /\ calls' = [calls EXCEPT ![i] = Call("generate", "send", NoKey, NoId)]
       /\ app' = [app EXCEPT !.run = i, !.runState = "running", !.cancelPending = FALSE]
  /\ reading' = [expected |-> 1, outcome |-> NoTerminal]
  /\ transcript' = <<>>
  /\ UNCHANGED <<serviceVars, torn>>

Cancel ==
  /\ Settled /\ Running /\ ~app.cancelPending
  /\ app' = [app EXCEPT !.cancelPending = TRUE]
  /\ Write(CancelCommand)
  /\ UNCHANGED <<quietService, calls, torn, reading, transcript>>

UserStep ==
  Load \/ Reload \/ CancelLoad \/ Unload \/ SetModelURL \/ Run \/ Cancel

-----------------------------------------------------------------------------
(* The client's calls.                                                     *)

Move(i, pc) == calls' = [calls EXCEPT ![i].pc = pc]

SendLoad(i) ==
  /\ calls[i].pc = "wait" /\ Finished(calls[i].after)
  /\ IF calls[i].cancelled
     THEN Move(i, "done") /\ UNCHANGED commands
     ELSE Move(i, "read") /\ Write(LoadCommand(i, calls[i].key))
  /\ UNCHANGED <<quietService, app, torn, reading, transcript>>

Send(i) ==
  /\ calls[i].pc = "send"
  /\ Write(IF calls[i].op = "generate" THEN GenerateCommand(i) ELSE UnloadCommand(i))
  /\ Move(i, "read")
  /\ UNCHANGED <<quietService, app, torn, reading, transcript>>

Reader(i) == calls[i].pc = "read" /\ frames # <<>>

TakeFrame ==
  /\ frames' = Tail(frames)
  /\ UNCHANGED <<commands, queue, service, directory, session, registry, task,
                 stream, made, outbox, writer>>

\* Mutant: any event that says ready is the answer.
ReadLoadAnswerOfAny(i) ==
  /\ calls[i].op = "load" /\ Reader(i) /\ ~torn
  /\ Move(i, IF Head(frames).kind = "ready" THEN "ready" ELSE "failed")
  /\ TakeFrame
  /\ UNCHANGED <<app, torn, reading, transcript>>

\* The event that comes next is the answer; it must be the load's own.
ReadLoadAnswer(i) ==
  /\ calls[i].op = "load" /\ Reader(i) /\ ~torn
  /\ Move(i, IF Head(frames) = Event("ready", i) THEN "ready" ELSE "failed")
  /\ TakeFrame
  /\ UNCHANGED <<app, torn, reading, transcript>>

\* Whatever comes next ends an unload.
ReadUnloadAnswer(i) ==
  /\ calls[i].op \in {"unload", "forget"} /\ Reader(i) /\ ~torn
  /\ Move(i, "unloaded")
  /\ TakeFrame
  /\ UNCHANGED <<app, torn, reading, transcript>>

SkipForeignEvent(i) ==
  /\ calls[i].op = "generate" /\ Reader(i) /\ ~torn
  /\ Head(frames).id # i
  /\ TakeFrame
  /\ UNCHANGED appVars

ReadSnapshot(i) ==
  /\ calls[i].op = "generate" /\ Reader(i) /\ ~torn
  /\ Head(frames).id = i /\ Head(frames).kind = "snapshot"
  /\ IF Head(frames).sequence = reading.expected
     THEN /\ reading' = [reading EXCEPT !.expected = @ + 1]
          /\ transcript' = transcript \o Head(frames).text
          /\ UNCHANGED calls
     ELSE /\ reading' = [reading EXCEPT !.outcome = "failed"]
          /\ Move(i, "ended")
          /\ UNCHANGED transcript
  /\ TakeFrame
  /\ UNCHANGED <<app, torn>>

ReadTerminal(i) ==
  /\ calls[i].op = "generate" /\ Reader(i) /\ ~torn
  /\ Head(frames).id = i /\ Head(frames).kind \in Terminals
  /\ reading' = [reading EXCEPT !.outcome = Head(frames).kind]
  /\ Move(i, "ended")
  /\ TakeFrame
  /\ UNCHANGED <<app, torn, transcript>>

\* Two readers each get a part of a frame: the one that has the wrong bytes
\* for a header fails, and the stream stays out of step.
Tear(i, j) ==
  /\ i # j /\ Reader(i) /\ Reader(j) /\ ~torn
  /\ torn' = TRUE
  /\ UNCHANGED <<serviceVars, app, calls, reading, transcript>>

ReadTorn(i) ==
  /\ Reader(i) /\ torn
  /\ CASE calls[i].op = "load"     -> Move(i, "failed") /\ UNCHANGED reading
       [] calls[i].op = "generate" -> /\ Move(i, "ended")
                                      /\ reading' = [reading EXCEPT !.outcome = "failed"]
       [] OTHER                    -> Move(i, "unloaded") /\ UNCHANGED reading
  /\ UNCHANGED <<serviceVars, app, torn, transcript>>

-----------------------------------------------------------------------------
(* The answers, back in AppModel.                                          *)

ApplyLoad(i) ==
  /\ calls[i].op = "load" /\ calls[i].pc \in {"ready", "failed"}
  /\ Move(i, "done")
  /\ app' = IF app.load = i THEN [app EXCEPT !.loadState = calls[i].pc] ELSE app
  /\ UNCHANGED <<serviceVars, torn, reading, transcript>>

\* The unload of another model's choice only clears its task.
ApplyUnload(i) ==
  /\ calls[i].pc = "unloaded"
  /\ Move(i, "done")
  /\ app' = IF calls[i].op = "unload" /\ app.unload = i
            THEN [app EXCEPT !.loadState = "notLoaded"] ELSE app
  /\ UNCHANGED <<serviceVars, torn, reading, transcript>>

\* The stream ends: its onTermination cancels, and the event is applied.
EndStream(i) ==
  /\ calls[i].pc = "ended"
  /\ Move(i, "done")
  /\ Write(CancelCommand)
  /\ app' = [app EXCEPT !.runState = "idle", !.cancelPending = FALSE]
  /\ UNCHANGED <<quietService, torn, reading, transcript>>

ReadEvent(i) == SkipForeignEvent(i) \/ ReadSnapshot(i) \/ ReadTerminal(i)

CallStep(i) ==
  \/ SendLoad(i) \/ Send(i)
  \/ ReadLoadAnswer(i) \/ ReadUnloadAnswer(i) \/ ReadEvent(i) \/ ReadTorn(i)
  \/ ApplyLoad(i) \/ ApplyUnload(i) \/ EndStream(i)

-----------------------------------------------------------------------------

Next ==
  \/ UserStep
  \/ \E i \in Ids : CallStep(i)
  \/ \E i, j \in Ids : Tear(i, j)
  \/ ServiceStep /\ UNCHANGED appVars

Spec == Init /\ [][Next]_vars

\* Threads and tasks are scheduled, loads return and generations end: they
\* have a token limit.  Nothing is asked of the user.
Fairness ==
  /\ \A i \in Ids : WF_vars(CallStep(i))
  /\ WF_vars(ReadCommand /\ UNCHANGED appVars)
  /\ WF_vars(MainLoop /\ UNCHANGED appVars)
  /\ WF_vars(TaskStep /\ UNCHANGED appVars)
  /\ WF_vars(WriterStep /\ UNCHANGED appVars)

FairSpec == Spec /\ Fairness

-----------------------------------------------------------------------------

AppTypeOK ==
  /\ ServiceTypeOK
  /\ app \in [loadState : {"notLoaded", "loading", "cancelling", "unloading",
                           "ready", "failed"},
              key : Keys, load : Ids \cup {NoId}, unload : Ids \cup {NoId},
              run : Ids \cup {NoId}, runState : {"idle", "running"},
              cancelPending : BOOLEAN]
  /\ calls \in [Ids -> [op : {"none", "load", "unload", "forget", "generate"},
                        pc : {"none", "wait", "send", "read", "ready", "failed",
                              "unloaded", "ended", "done"},
                        key : Keys \cup {NoKey}, after : Ids \cup {NoId},
                        cancelled : BOOLEAN]]
  /\ torn \in BOOLEAN
  /\ reading \in [expected : 1..(MaxText + 1), outcome : Terminals \cup {NoTerminal}]
  /\ transcript \in Seq(1..MaxText)

\* Types, and: an application that says ready talks to a service that has loaded
\* this very model, and no command is on its way that would take it out again:
\* late answers of loads and unloads that were given up do not count.
ReadyIsLoaded ==
  /\ AppTypeOK
  /\ app.loadState = "ready" =>
       /\ session = app.key /\ directory = app.key
       /\ \A i \in DOMAIN commands : commands[i].op \notin {"load", "unload"}
       /\ \A i \in DOMAIN queue : queue[i].op \notin {"load", "unload"}
       /\ service.pc # "loading"

\* A generation that was cancelled knows: a task that runs has its entry in
\* the registry, is about to be attached to it, or is cancelled.
CancelReachesTask ==
  task.state = "running" =>
    \/ registry.id = task.id
    \/ service.pc = "attach" /\ service.cmd.id = task.id
    \/ task.cancelled

\* The text on the screen is what the model produced, and all of it once the
\* generation is reported as finished or cancelled.
ES == INSTANCE EventStream WITH
  text <- IF ~Running THEN transcript
          ELSE IF service.cmd.id = app.run THEN made ELSE <<>>,
  shown <- transcript,
  status <- IF Running THEN "running" ELSE reading.outcome

ImplementsEventStream == ES!Spec

\* Whatever was given up before it, a generation ends, and the user can act.
RunEnds == Running ~> ~Running
=============================================================================
