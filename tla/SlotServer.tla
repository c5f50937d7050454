------------------------------ MODULE SlotServer ------------------------------
(***************************************************************************)
(* The main loop of the vendored llama.cpp server (server_queue::start_loop*)
(* with server_context's handlers): it takes tasks, launches them on slots,*)
(* and decodes all busy slots together, between the steps of the HTTP      *)
(* threads of TaskQueue.                                                   *)
(*                                                                         *)
(* A slot's prompt is a number of chunks and its text a number of tokens;  *)
(* a decode that is retried with a smaller batch is one step.  Slots are   *)
(* the loop's own: answering a task and releasing its slot, which pops a   *)
(* deferred task, is one step, though send and pop lock two mutexes.       *)
(***************************************************************************)
EXTENDS TaskQueue

CONSTANTS
  NoTask,
  MaxChunks,  \* bound: batches a prompt takes
  MaxTokens,  \* n_predict
  Empty       \* tasks with an empty prompt

ASSUME ServerAssumption ==
  /\ NoTask \notin Tasks /\ Empty \subseteq Tasks /\ MaxChunks \in Nat \ {0} /\ MaxTokens \in Nat \ {0}

VARIABLES
  main,  \* place of the main loop, the slot an iteration is at, job in hand
  slot   \* per slot: task, state, prompt chunks to do, tokens sampled

mainVars == <<main, slot>>
vars == <<queueVars, mainVars>>

IdleSlot == [task |-> NoTask, state |-> "idle", left |-> 0, tokens |-> 0]
Launched(t, state) == [task |-> t, state |-> state, left |-> MaxChunks, tokens |-> 0]

Init ==
  /\ QueueInit
  /\ main = [pc |-> "drain", at |-> 1, job |-> NextResponse]
  /\ slot = [s \in Slots |-> IdleSlot]

At(pc) == main.pc = pc
Goto(pc) == main' = [main EXCEPT !.pc = pc, !.at = 1, !.job = NextResponse]

Idle == {s \in Slots : slot[s].state = "idle"}
Busy == Slots \ Idle

\* callback_on_release of slots that are released one after the other.
Pops(q, released) ==
  LET popped[n \in 0..Len(released)] ==
        IF n = 0 THEN q ELSE PopDeferred(popped[n - 1], released[n])
  IN  popped[Len(released)]

-----------------------------------------------------------------------------
(* Taking tasks: process_single_task.                                      *)

TakeTask ==
  /\ At("drain") /\ tasks.queue # <<>>
  /\ main' = [main EXCEPT !.pc = "handle", !.job = Head(tasks.queue)]
  /\ tasks' = [tasks EXCEPT !.queue = Tail(@)]
  /\ UNCHANGED <<waiting, results, sleep, reader, slot>>

Drained ==
  /\ At("drain") /\ tasks.queue = <<>>
  /\ Goto("update")
  /\ UNCHANGED <<queueVars, slot>>

HandleNext ==
  /\ At("handle") /\ main.job.type = "next"
  /\ Goto("drain")
  /\ UNCHANGED <<queueVars, slot>>

HandleCancel ==
  /\ At("handle") /\ main.job.type = "cancel"
  /\ LET held == {s \in Slots : slot[s].task = main.job.task}
     IN  IF held = {} THEN UNCHANGED <<tasks, slot>>
         ELSE /\ slot' = [slot EXCEPT ![Min(held)] = IdleSlot]
              /\ tasks' = PopDeferred(tasks, Min(held))
  /\ Goto("drain")
  /\ UNCHANGED <<waiting, results, sleep, reader>>

\* The slots a task can be launched on now: the one it asks for, or one that
\* get_available_slot chooses, with free slots for its children.
Fits(t) ==
  {s \in Idle : /\ Pin[t] \in {s, AnySlot}
                /\ Cardinality(Idle \ {s}) >= Len(Children[t])}

HandlesTask(t) == At("handle") /\ main.job = RunJob(t)

\* Mutant: a task that does not fit is dropped.
DropTask(t) ==
  /\ HandlesTask(t) /\ Fits(t) = {}
  /\ Goto("drain")
  /\ UNCHANGED <<queueVars, slot>>

DeferTask(t) ==
  /\ HandlesTask(t) /\ Fits(t) = {}
  /\ tasks' = Defer(tasks, t)
  /\ Goto("drain")
  /\ UNCHANGED <<waiting, results, sleep, reader, slot>>

ChildSlots(t, s) == SubSeq(InOrder(Idle \ {s}), 1, Len(Children[t]))

Launch(t, s) ==
  /\ HandlesTask(t) /\ s \in Fits(t)
  /\ LET free == ChildSlots(t, s)
     IN  slot' = [x \in Slots |->
           IF x = s THEN Launched(t, "prompt")
           ELSE IF \E k \in DOMAIN free : free[k] = x
                THEN Launched(Children[t][CHOOSE k \in DOMAIN free : free[k] = x], "wait")
                ELSE slot[x]]
  /\ Goto("drain")
  /\ UNCHANGED queueVars

\* A sampler, prompt or adapter is refused, after k children were launched:
\* they are released, and the task is dropped with an error.
LaunchFails(t, s, k) ==
  /\ HandlesTask(t) /\ s \in Fits(t)
  /\ results' = Send(results, IF k < Len(Children[t]) THEN Children[t][k + 1] ELSE t, "error")
  /\ tasks' = Pops(tasks, SubSeq(ChildSlots(t, s), 1, k))
  /\ Goto("drain")
  /\ UNCHANGED <<waiting, sleep, reader, slot>>

HandleStep ==
  \/ HandleNext \/ HandleCancel
  \/ \E t \in Tasks :
       \/ DeferTask(t)
       \/ \E s \in Slots : \/ Launch(t, s)
                           \/ \E k \in 0..Len(Children[t]) : LaunchFails(t, s, k)

-----------------------------------------------------------------------------
(* update_slots.                                                           *)

AllIdle ==
  /\ At("update") /\ Busy = {}
  /\ Goto("wait")
  /\ UNCHANGED <<queueVars, slot>>

\* Mutant: the loop is not asked to come back.
StartUpdateOnce ==
  /\ At("update") /\ Busy # {}
  /\ Goto("prepare")
  /\ UNCHANGED <<queueVars, slot>>

StartUpdate ==
  /\ At("update") /\ Busy # {}
  /\ tasks' = PostBack(tasks, <<NextResponse>>)
  /\ Goto("prepare")
  /\ UNCHANGED <<waiting, results, sleep, reader, slot>>

\* iterate goes on with the next slot, and at the end with the next phase.
Advance(next) ==
  main' = IF main.at + 1 \in Slots THEN [main EXCEPT !.at = @ + 1]
          ELSE [main EXCEPT !.pc = next, !.at = 1]

Here == slot[main.at]
SlotBecomes(x) == slot' = [slot EXCEPT ![main.at] = x]

\* The task of the slot is answered and the slot released.
AnswerHere(kind) ==
  /\ results' = Send(results, Here.task, kind)
  /\ SlotBecomes(IdleSlot)
  /\ tasks' = PopDeferred(tasks, main.at)
  /\ UNCHANGED <<waiting, sleep, reader>>

\* pre_decode: children wait for the parent's prompt; a slot that generates
\* has its token in the batch...
PrepareNothing ==
  /\ At("prepare") /\ Here.state \in {"idle", "wait", "generating"}
  /\ Advance("decode")
  /\ UNCHANGED <<queueVars, slot>>

\* ...unless it does not go together with the first one that generates.
LeaveOut ==
  /\ At("prepare") /\ Here.state = "generating"
  /\ \E s \in Slots : s < main.at /\ slot[s].state = "generating"
  /\ SlotBecomes([Here EXCEPT !.state = "skipped"])
  /\ Advance("decode")
  /\ UNCHANGED queueVars

PreparePrompt ==
  /\ At("prepare") /\ Here.state = "prompt" /\ Here.task \notin Empty
  /\ SlotBecomes([Here EXCEPT !.left = @ - 1,
                              !.state = IF Here.left = 1 THEN "done" ELSE @])
  /\ Advance("decode")
  /\ UNCHANGED queueVars

\* The batch is full, or its slots do not go together with this one.
PutOff ==
  /\ At("prepare") /\ Here.state = "prompt"
  /\ \E s \in Slots : \/ slot[s].state = "generating"
                      \/ s < main.at /\ slot[s].state \in {"prompt", "done"}
  /\ Advance("decode")
  /\ UNCHANGED <<queueVars, slot>>

\* An empty prompt is answered, one that is too long refused; a slot whose
\* context is full fails.
PrepareEnds(kind) ==
  /\ At("prepare") /\ Here.state \in {"prompt", "generating"}
  /\ kind = IF Here.state = "prompt" /\ Here.task \in Empty THEN "final" ELSE "error"
  /\ AnswerHere(kind)
  /\ Advance("decode")

NothingToDecode ==
  /\ At("decode") /\ \A s \in Slots : slot[s].state \in {"idle", "wait"}
  /\ Goto("wait")
  /\ UNCHANGED <<queueVars, slot>>

\* Mutant: children are looked for once the parent generates.
ParentIsGenerating(s) ==
  \E p \in Slots : /\ slot[p].state = "generating"
                   /\ slot[s].task \in Range(Children[slot[p].task])

ParentIsDone(s) ==
  \E p \in Slots : /\ slot[p].state = "done"
                   /\ slot[s].task \in Range(Children[slot[p].task])

\* The children of a prompt that is done get its state.
Decode ==
  /\ At("decode") /\ \E s \in Slots : slot[s].state \notin {"idle", "wait"}
  /\ slot' = [s \in Slots |-> IF slot[s].state = "wait" /\ ParentIsDone(s)
                              THEN [slot[s] EXCEPT !.state = "done"] ELSE slot[s]]
  /\ Goto("finish")
  /\ UNCHANGED queueVars

\* post_decode: a token is sampled for each slot whose prompt is done.
Sample ==
  /\ At("finish") /\ Here.state \in {"done", "generating"}
  /\ Here.tokens + 1 < MaxTokens
  /\ SlotBecomes([Here EXCEPT !.state = "generating", !.tokens = @ + 1])
  /\ Advance("wait")
  /\ UNCHANGED queueVars

\* A stop condition or an exception.
FinishEnds(kind) ==
  /\ At("finish") /\ Here.state \in {"done", "generating"}
  /\ AnswerHere(kind)
  /\ Advance("wait")

\* It was not in the batch: nothing is sampled for it.
Skip ==
  /\ At("finish") /\ Here.state = "skipped"
  /\ SlotBecomes([Here EXCEPT !.state = "generating"])
  /\ Advance("wait")
  /\ UNCHANGED queueVars

FinishNothing ==
  /\ At("finish") /\ Here.state \in {"idle", "wait", "prompt"}
  /\ Advance("wait")
  /\ UNCHANGED <<queueVars, slot>>

\* abort_all_slots, and a decode that fails for good.
Abort ==
  /\ main.pc \in {"prepare", "decode", "finish"}
  /\ LET asked == InOrder({s \in Busy : slot[s].task \in waiting})
     IN  results' = results \o [k \in DOMAIN asked |-> Result(slot[asked[k]].task, "error")]
  /\ tasks' = Pops(tasks, InOrder(Busy))
  /\ slot' = [s \in Slots |-> IdleSlot]
  /\ Goto("wait")
  /\ UNCHANGED <<waiting, sleep, reader>>

UpdateStep ==
  \/ AllIdle \/ StartUpdate
  \/ PrepareNothing \/ LeaveOut \/ PreparePrompt \/ PutOff
  \/ NothingToDecode \/ Decode \/ Sample \/ Skip \/ FinishNothing \/ Abort
  \/ \E kind \in {"final", "error"} : PrepareEnds(kind) \/ FinishEnds(kind)

-----------------------------------------------------------------------------
(* Waiting and sleeping.                                                   *)

StopWait ==
  /\ At("wait") /\ tasks.queue # <<>>
  /\ Goto("drain")
  /\ UNCHANGED <<queueVars, slot>>

\* No task for the idle time: the model is unloaded.
FallAsleep ==
  /\ At("wait") /\ tasks.queue = <<>>
  /\ sleep' = [sleeping |-> TRUE, wake |-> FALSE]
  /\ Goto("sleep")
  /\ UNCHANGED <<tasks, waiting, results, reader, slot>>

WakeUp ==
  /\ At("sleep") /\ sleep.wake
  /\ sleep' = [sleeping |-> FALSE, wake |-> FALSE]
  /\ Goto("drain")
  /\ UNCHANGED <<tasks, waiting, results, reader, slot>>

MainStep == TakeTask \/ Drained \/ HandleStep \/ UpdateStep \/ StopWait \/ WakeUp

Next ==
  \/ MainStep \/ FallAsleep
  \/ \E r \in Requests : (Arrive(r) \/ GiveUp(r) \/ ReaderStep(r)) /\ UNCHANGED mainVars

Spec == Init /\ [][Next]_vars

\* The main loop and, one after the other, the HTTP threads run: a request has
\* few steps, so none is left out for ever.  Clients come and go as they like,
\* and the server need not fall asleep.
FairSpec ==
  /\ Spec /\ WF_vars(MainStep)
  /\ WF_vars(\E r \in Requests : ReaderStep(r) /\ UNCHANGED mainVars)

-----------------------------------------------------------------------------

ServerTypeOK ==
  /\ QueueTypeOK
  /\ main \in [pc : {"drain", "handle", "update", "prepare", "decode", "finish",
                     "wait", "sleep"}, at : Slots, job : Jobs]
  /\ slot \in [Slots -> [task : Tasks \cup {NoTask},
                         state : {"idle", "wait", "prompt", "done", "generating", "skipped"},
                         left : 0..MaxChunks, tokens : 0..MaxTokens]]
  /\ \A s \in Slots : slot[s].state = "idle" <=> slot[s].task = NoTask

RootOf == [t \in Tasks |->
  CHOOSE p \in Tasks : t \in Family(p) /\ \E r \in Requests : p \in Range(Roots[r])]

\* Where a task is: in a queue or in hand, with its root, or on a slot.
Places(t) ==
  {<<"queue", i>> : i \in {j \in DOMAIN tasks.queue : tasks.queue[j] = RunJob(RootOf[t])}}
  \cup {<<"deferred", i>> : i \in {j \in DOMAIN tasks.deferred : tasks.deferred[j] = RootOf[t]}}
  \cup (IF HandlesTask(RootOf[t]) THEN {<<"hand", 1>>} ELSE {})
  \cup {<<"slot", s>> : s \in {x \in Slots : slot[x].task = t}}

Answers(t) == {i \in DOMAIN results : results[i].task = t}

\* Types, and: no task is lost or run twice.  As long as a client waits for
\* it, it is in just one place or has its one answer, unless the request has
\* already failed.
EveryTaskHasOnePlace ==
  ServerTypeOK /\
  \A r \in Requests : \A t \in IdsOf[r] :
    /\ Cardinality(Places(t)) <= 1
    /\ Cardinality(Answers(t)) <= 1
    /\ t \in reader[r].received => Answers(t) = {} /\ Places(t) = {}
    /\ ReaderAt(r, "reading") /\ t \notin reader[r].received =>
         \/ Cardinality(Places(t)) + Cardinality(Answers(t)) = 1
         \/ \E i \in DOMAIN results : /\ results[i].task \in IdsOf[r]
                                      /\ results[i].kind = "error"

\* Results do not pile up: each has a reader that will take or clean it.
ResultsAreAwaited ==
  \A i \in DOMAIN results : \E r \in Requests :
    /\ results[i].task \in IdsOf[r]
    /\ reader[r].pc \in {"reading", "stopping", "cleaning"}

\* The loop waits, and unloads the model, only when no slot has work.
WaitsWhenIdle ==
  At("sleep") \/ (At("wait") /\ tasks.queue = <<>>) => Busy = {}

\* "If tasks is not finished yet, cancel them" (server-queue.cpp:444): when a
\* client has gone, each of its tasks that is still somewhere has its cancel
\* before it.
CancelsAreNotLost ==
  \A r \in Requests : ReaderAt(r, "done") =>
    \A t \in IdsOf[r] : Places(t) # {} =>
      CancelJob(t) \in Range(tasks.queue) \/ (At("handle") /\ main.job = CancelJob(t))

\* A parent with an empty prompt is answered before it is decoded, and its
\* children wait on.
WaitsForEmpty(s) == slot[s].state = "wait" /\ RootOf[slot[s].task] \in Empty

\* A slot comes free again, whatever fails, is aborted, put off, left out of
\* batches or cancelled, as long as no cancel is lost; a child of a parent with
\* an empty prompt may keep its slot.
SlotsComeFree ==
  []CancelsAreNotLost =>
    \A s \in Slots : []<>(slot[s].state = "idle" \/ WaitsForEmpty(s))

\* "Make sure the slot is free" (test_completion.py:622): without those two
\* conditions, also when a client leaves at any time.
EverySlotComesFree == \A s \in Slots : []<>(slot[s].state = "idle")

\* A deferred task waits for a slot, never next to idle ones.
DeferredForASlot ==
  At("wait") /\ tasks.queue = <<>> /\ Busy = {} => tasks.deferred = <<>>
=============================================================================
