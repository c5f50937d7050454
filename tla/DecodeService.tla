---------------------------- MODULE DecodeService ----------------------------
(***************************************************************************)
(* TurboFieldfareDecodeService: the helper process of the application that *)
(* owns the model.  An input thread reads commands and handles cancels at  *)
(* once; the main loop takes the commands in order; a generation runs in a *)
(* task of its own, and a writer thread sends what it produced.            *)
(*                                                                         *)
(* The socket is two sequences: the commands the client wrote and the      *)
(* frames the service wrote.  Text is the sequence of the generation's     *)
(* token numbers.  Prefill progress, which may be dropped, and diagnostics *)
(* are left out, and so is the end of the process.                         *)
(***************************************************************************)
EXTENDS SequencesExt, Integers

CONSTANTS
  Keys,      \* what can be loaded: model directories with their options
  NoKey,     \* no model
  MaxText,   \* bound: tokens a generation produces
  MaxCalls   \* bound: calls of the client

ASSUME ServiceAssumption ==
  NoKey \notin Keys /\ MaxText \in Nat \ {0} /\ MaxCalls \in Nat \ {0}

VARIABLES
  commands,  \* written by the client, not yet read by the input thread
  frames,    \* written by the service, not yet read by the client
  queue,     \* DecodeCommandQueue.commands
  service,   \* the main loop: its place and the command in hand
  directory, \* the main loop's modelDirectory
  session,   \* RealInferenceSession.loadedKey
  registry,  \* GenerationTaskRegistry: whose entry, and has it its task?
  task,      \* the generation's Task
  stream,    \* what session.run yielded and the main loop has not consumed
  made,      \* all tokens of the generation so far
  outbox,    \* DecodeServiceOutbox.state
  writer     \* the writer thread and what it took from the outbox

serviceVars == <<commands, frames, queue, service, directory, session, registry,
                 task, stream, made, outbox, writer>>

Ids == 1..MaxCalls
NoId == 0
NoTerminal == "none"
Terminals == {"finished", "cancelled", "failed"}

LoadCommand(id, key) == [op |-> "load", id |-> id, key |-> key]
GenerateCommand(id)  == [op |-> "generate", id |-> id, key |-> NoKey]
UnloadCommand(id)    == [op |-> "unload", id |-> id, key |-> NoKey]
CancelCommand        == [op |-> "cancel", id |-> NoId, key |-> NoKey]

Commands ==
  {LoadCommand(i, k) : i \in Ids, k \in Keys} \cup {CancelCommand}
    \cup {GenerateCommand(i) : i \in Ids} \cup {UnloadCommand(i) : i \in Ids}

Frame(kind, id, sequence, text) ==
  [kind |-> kind, id |-> id, sequence |-> sequence, text |-> text]
Event(kind, id) == Frame(kind, id, 0, <<>>)

EmptyEntry  == [id |-> NoId, attached |-> FALSE]
NoTask      == [id |-> NoId, state |-> "none", cancelled |-> FALSE]
EmptyStream == [tokens |-> <<>>, outcome |-> NoTerminal, throws |-> FALSE]
EmptyOutbox == [text |-> <<>>, terminal |-> NoTerminal, finished |-> FALSE,
                sequence |-> 0]
Writer(state) == [state |-> state, text |-> <<>>, terminal |-> NoTerminal,
                  done |-> FALSE]

ServiceInit ==
  /\ commands = <<>> /\ frames = <<>> /\ queue = <<>>
  /\ service = [pc |-> "next", cmd |-> CancelCommand, failed |-> FALSE]
  /\ directory = NoKey /\ session = NoKey
  /\ registry = EmptyEntry /\ task = NoTask
  /\ stream = EmptyStream /\ made = <<>>
  /\ outbox = EmptyOutbox /\ writer = Writer("none")

Reply(event) == frames' = Append(frames, event)

At(pc) == service.pc = pc
Goto(pc) == service' = [service EXCEPT !.pc = pc]

generationVars == <<registry, task, stream, made, outbox, writer>>

-----------------------------------------------------------------------------
(* The input thread.                                                       *)

\* RealInferenceClient.cancel takes the entry out of the registry; a task that
\* is not attached to it yet is cancelled when it is.
CancelCurrent ==
  /\ registry' = EmptyEntry
  /\ task' = [task EXCEPT !.cancelled = @ \/ registry.attached]

ReadCommand ==
  /\ commands # <<>>
  /\ commands' = Tail(commands)
  /\ queue' = Append(queue, Head(commands))
  /\ IF Head(commands).op = "cancel" THEN CancelCurrent
                                     ELSE UNCHANGED <<registry, task>>
  /\ UNCHANGED <<frames, service, directory, session, stream, made, outbox, writer>>

-----------------------------------------------------------------------------
(* The main loop.                                                          *)

TakeCommand(op) ==
  /\ At("next")
  /\ queue # <<>> /\ Head(queue).op = op
  /\ queue' = Tail(queue)

SkipCancel ==
  /\ TakeCommand("cancel")
  /\ UNCHANGED <<commands, frames, service, directory, session, generationVars>>

\* ensureLoaded drops a model with another key before it loads.
StartLoad ==
  /\ TakeCommand("load")
  /\ service' = [pc |-> "loading", cmd |-> Head(queue), failed |-> FALSE]
  /\ session' = IF session = Head(queue).key THEN session ELSE NoKey
  /\ UNCHANGED <<commands, frames, directory, generationVars>>

\* A model that is loaded with the key already is answered at once.
FinishLoad ==
  /\ At("loading")
  /\ \/ /\ session' = service.cmd.key
        /\ directory' = service.cmd.key
        /\ Reply(Event("ready", service.cmd.id))
     \/ /\ session = NoKey
        /\ Reply(Event("failed", service.cmd.id))
        /\ UNCHANGED <<session, directory>>
  /\ Goto("next")
  /\ UNCHANGED <<commands, queue, generationVars>>

HandleUnload ==
  /\ TakeCommand("unload")
  /\ session' = NoKey /\ directory' = NoKey
  /\ Reply(Event("unloaded", Head(queue).id))
  /\ UNCHANGED <<commands, service, generationVars>>

RefuseGenerate ==
  /\ TakeCommand("generate") /\ directory = NoKey
  /\ Reply(Event("failed", Head(queue).id))
  /\ UNCHANGED <<commands, service, directory, session, generationVars>>

StartGenerate ==
  /\ TakeCommand("generate") /\ directory # NoKey
  /\ service' = [pc |-> "reserve", cmd |-> Head(queue), failed |-> FALSE]
  /\ outbox' = EmptyOutbox
  /\ writer' = Writer("waiting")
  /\ made' = <<>>
  /\ UNCHANGED <<commands, frames, directory, session, registry, task, stream>>

\* An entry that has not been cleared yet refuses the generation.
Reserve ==
  /\ At("reserve")
  /\ IF registry = EmptyEntry
     THEN /\ registry' = [id |-> service.cmd.id, attached |-> FALSE]
          /\ task' = [id |-> service.cmd.id, state |-> "running", cancelled |-> FALSE]
          /\ stream' = EmptyStream
          /\ Goto("attach")
     ELSE /\ stream' = [tokens |-> <<>>, outcome |-> "failed", throws |-> TRUE]
          /\ Goto("publishing")
          /\ UNCHANGED <<registry, task>>
  /\ UNCHANGED <<commands, frames, queue, directory, session, made, outbox, writer>>

\* Mutant: a task whose entry was taken meanwhile is left alone.
AttachAlways ==
  /\ At("attach")
  /\ registry' = [registry EXCEPT !.attached = registry.id = service.cmd.id]
  /\ Goto("publishing")
  /\ UNCHANGED <<commands, frames, queue, directory, session, task, stream, made,
                 outbox, writer>>

\* attach, and onTermination from now on: an entry that is gone means that
\* the generation was cancelled before its task was known.
Attach ==
  /\ At("attach")
  /\ IF registry.id = service.cmd.id
     THEN /\ registry' = [registry EXCEPT !.attached = TRUE]
          /\ UNCHANGED task
     ELSE /\ task' = [task EXCEPT !.cancelled = TRUE]
          /\ UNCHANGED registry
  /\ Goto("publishing")
  /\ UNCHANGED <<commands, frames, queue, directory, session, stream, made, outbox, writer>>

\* for try await: an event is published, the terminal one after all tokens.
PublishToken ==
  /\ At("publishing") /\ stream.tokens # <<>>
  /\ outbox' = [outbox EXCEPT !.text = Append(@, Head(stream.tokens))]
  /\ stream' = [stream EXCEPT !.tokens = Tail(@)]
  /\ UNCHANGED <<commands, frames, queue, service, directory, session, registry,
                 task, made, writer>>

PublishTerminal ==
  /\ At("publishing")
  /\ stream.tokens = <<>> /\ stream.outcome # NoTerminal
  /\ outbox' = [outbox EXCEPT !.terminal = stream.outcome]
  /\ service' = [service EXCEPT !.pc = "finish", !.failed = stream.throws]
  /\ stream' = EmptyStream
  /\ UNCHANGED <<commands, frames, queue, directory, session, registry, task, made, writer>>

\* finish(error:) stores a failure when it finds no terminal event, also when
\* the writer has taken the one that was published.
FinishOutbox ==
  /\ At("finish")
  /\ outbox' = [outbox EXCEPT
       !.terminal = IF service.failed /\ @ = NoTerminal THEN "failed" ELSE @,
       !.finished = TRUE]
  /\ Goto("joining")
  /\ UNCHANGED <<commands, frames, queue, directory, session, registry, task,
                 stream, made, writer>>

\* Mutant: the main loop does not wait for the writer.
LeaveWriter ==
  /\ At("joining")
  /\ Goto("next")
  /\ UNCHANGED <<commands, frames, queue, directory, session, generationVars>>

JoinWriter ==
  /\ At("joining") /\ writer.state = "done"
  /\ Goto("next")
  /\ UNCHANGED <<commands, frames, queue, directory, session, generationVars>>

-----------------------------------------------------------------------------
(* The generation's task: RealInferenceSession.run, then the registry.     *)

Yield ==
  /\ task.state = "running" /\ ~task.cancelled
  /\ session # NoKey /\ Len(made) < MaxText
  /\ made' = Append(made, Len(made) + 1)
  /\ stream' = [stream EXCEPT !.tokens = Append(@, Len(made) + 1)]
  /\ UNCHANGED <<commands, frames, queue, service, directory, session, registry,
                 task, outbox, writer>>

\* The last event; all but a success throw as well.  Once it is set,
\* onTermination takes the entry.
EndRun(outcome) ==
  /\ task.state = "running"
  /\ outcome = "finished" => ~task.cancelled /\ session # NoKey
  /\ outcome = "cancelled" => task.cancelled
  /\ stream' = [stream EXCEPT !.outcome = outcome, !.throws = outcome # "finished"]
  /\ task' = [task EXCEPT !.state = "clearing"]
  /\ registry' = IF ~At("attach") /\ registry.id = task.id
                 THEN EmptyEntry ELSE registry
  /\ UNCHANGED <<commands, frames, queue, service, directory, session, made, outbox, writer>>

ClearTask ==
  /\ task.state = "clearing"
  /\ task' = NoTask
  /\ registry' = IF registry.id = task.id THEN EmptyEntry ELSE registry
  /\ UNCHANGED <<commands, frames, queue, service, directory, session, stream,
                 made, outbox, writer>>

-----------------------------------------------------------------------------
(* The writer thread.                                                      *)

Numbered(text) == IF text = <<>> THEN outbox.sequence ELSE outbox.sequence + 1

\* Mutant: the text stays in the outbox.
WriterTakeKeeping ==
  /\ writer.state = "waiting"
  /\ outbox.text # <<>> \/ outbox.terminal # NoTerminal \/ outbox.finished
  /\ writer' = [state |-> "writing", text |-> outbox.text,
                terminal |-> outbox.terminal, done |-> outbox.finished]
  /\ outbox' = [outbox EXCEPT !.terminal = NoTerminal, !.sequence = Numbered(outbox.text)]
  /\ UNCHANGED <<commands, frames, queue, service, directory, session, registry,
                 task, stream, made>>

\* Under the lock the writer takes all there is, after a signal or a timeout.
WriterTake ==
  /\ writer.state = "waiting"
  /\ outbox.text # <<>> \/ outbox.terminal # NoTerminal \/ outbox.finished
  /\ writer' = [state |-> "writing", text |-> outbox.text,
                terminal |-> outbox.terminal, done |-> outbox.finished]
  /\ outbox' = [outbox EXCEPT !.text = <<>>, !.terminal = NoTerminal,
                              !.sequence = Numbered(outbox.text)]
  /\ UNCHANGED <<commands, frames, queue, service, directory, session, registry,
                 task, stream, made>>

Snapshot ==
  IF writer.text = <<>> THEN <<>>
  ELSE <<Frame("snapshot", service.cmd.id, outbox.sequence, writer.text)>>

Ending ==
  IF writer.terminal = NoTerminal THEN <<>>
  ELSE <<Event(writer.terminal, service.cmd.id)>>

\* Mutant: a finished writer leaves without its terminal event.
WriteSnapshotOnly ==
  /\ writer.state = "writing"
  /\ frames' = frames \o Snapshot \o (IF writer.done THEN <<>> ELSE Ending)
  /\ writer' = Writer(IF writer.done THEN "done" ELSE "waiting")
  /\ UNCHANGED <<commands, queue, service, directory, session, registry, task,
                 stream, made, outbox>>

WriterWrite ==
  /\ writer.state = "writing"
  /\ frames' = frames \o Snapshot \o Ending
  /\ writer' = Writer(IF writer.done THEN "done" ELSE "waiting")
  /\ UNCHANGED <<commands, queue, service, directory, session, registry, task,
                 stream, made, outbox>>

-----------------------------------------------------------------------------

MainLoop ==
  \/ SkipCancel \/ StartLoad \/ FinishLoad \/ HandleUnload
  \/ RefuseGenerate \/ StartGenerate \/ Reserve \/ Attach
  \/ PublishToken \/ PublishTerminal \/ FinishOutbox \/ JoinWriter

TaskStep == Yield \/ (\E o \in Terminals : EndRun(o)) \/ ClearTask


WriterStep == WriterTake \/ WriterWrite

ServiceTypeOK ==
  /\ commands \in Seq(Commands) /\ queue \in Seq(Commands)
  /\ frames \in Seq([kind : Terminals \cup {"ready", "unloaded", "snapshot"},
                     id : Ids, sequence : 0..(MaxText + 1), text : Seq(1..MaxText)])
  /\ service \in [pc : {"next", "loading", "reserve", "attach", "publishing", "finish",
                       "joining"}, cmd : Commands, failed : BOOLEAN]
  /\ directory \in Keys \cup {NoKey} /\ session \in Keys \cup {NoKey}
  /\ registry \in [id : Ids \cup {NoId}, attached : BOOLEAN]
  /\ task \in [id : Ids \cup {NoId}, state : {"none", "running", "clearing"}, cancelled : BOOLEAN]
  /\ stream \in [tokens : Seq(1..MaxText), outcome : Terminals \cup {NoTerminal},
                 throws : BOOLEAN]
  /\ made \in Seq(1..MaxText)
  /\ outbox \in [text : Seq(1..MaxText), terminal : Terminals \cup {NoTerminal},
                 finished : BOOLEAN, sequence : 0..(MaxText + 1)]
  /\ writer \in [state : {"none", "waiting", "writing", "done"},
                 text : Seq(1..MaxText), terminal : Terminals \cup {NoTerminal},
                 done : BOOLEAN]

ServiceStep == ReadCommand \/ MainLoop \/ TaskStep \/ WriterStep

\* The wire carries the answers in the order of the commands: nothing of an
\* earlier command is written after an answer to a later one.
AnswersInOrder ==
  \A i, j \in DOMAIN frames : i < j => frames[i].id <= frames[j].id
=============================================================================
