------------------------------ MODULE TaskQueue ------------------------------
(***************************************************************************)
(* server_queue, server_response and server_response_reader of the vendored*)
(* llama.cpp server: how HTTP threads hand their tasks to the main loop and*)
(* get the results back.  Each queue has a mutex of its own; a step of an  *)
(* HTTP thread is one critical section.                                    *)
(*                                                                         *)
(* A request posts its root tasks; a root may carry children, which share  *)
(* its prompt and are answered on their own.  Partial results, which change*)
(* nothing for the reader, are left out: a result is the last one of its   *)
(* task.                                                                   *)
(***************************************************************************)
EXTENDS SequencesExt, Integers

CONSTANTS
  Requests,  \* HTTP requests
  Tasks,     \* task ids
  Roots,     \* Roots[r]: the tasks that request r posts
  Children,  \* Children[t]: server_task.child_tasks
  SlotCount, \* slots of the server
  Pin,       \* Pin[t]: server_task.id_slot
  Impatient  \* bound: requests whose client may go away

ASSUME QueueAssumption ==
  /\ Roots \in [Requests -> Seq(Tasks)] /\ Children \in [Tasks -> Seq(Tasks)]
  /\ SlotCount \in Nat \ {0} /\ Pin \in [Tasks -> 0..SlotCount]
  /\ Impatient \subseteq Requests

Family(t) == {t} \cup Range(Children[t])

\* get_new_id: no two tasks have the same id, children included.
ASSUME IdsAssumption ==
  /\ \A r \in Requests : IsInjective(Roots[r])
  /\ \A r, p \in Requests : \A t \in Range(Roots[r]), u \in Range(Roots[p]) :
       Family(t) \cap Family(u) # {} => r = p /\ t = u
  /\ \A r \in Requests : \A t \in Range(Roots[r]) :
       IsInjective(Children[t]) /\ t \notin Range(Children[t])

VARIABLES
  tasks,    \* queue_tasks and queue_tasks_deferred
  waiting,  \* waiting_task_ids
  results,  \* queue_results
  sleep,    \* sleeping and req_stop_sleeping
  reader    \* per request: place of its thread, tasks it has the answers of

queueVars == <<tasks, waiting, results, sleep, reader>>

Slots == 1..SlotCount
AnySlot == 0  \* the task asks for no slot

IdsOf == [r \in Requests |-> UNION {Family(t) : t \in Range(Roots[r])}]

RunJob(t) == [type |-> "run", task |-> t]
CancelJob(t) == [type |-> "cancel", task |-> t]
NextResponse == [type |-> "next"]
Jobs == {RunJob(t) : t \in Tasks} \cup {CancelJob(t) : t \in Tasks} \cup {NextResponse}

QueueInit ==
  /\ tasks = [queue |-> <<>>, deferred |-> <<>>]
  /\ waiting = {} /\ results = <<>>
  /\ sleep = [sleeping |-> FALSE, wake |-> FALSE]
  /\ reader = [r \in Requests |-> [pc |-> "none", received |-> {}]]

\* The numbers of I in increasing order, and the elements of s at these places:
\* SetToSortSeq and SelectSeq without their recursion, which proofs cannot use.
InOrder(I) ==
  [k \in 1..Cardinality(I) |-> CHOOSE i \in I : Cardinality({j \in I : j < i}) = k - 1]
Keep(s, I) == [k \in 1..Cardinality(I) |-> s[InOrder(I)[k]]]

-----------------------------------------------------------------------------
(* server_queue: operations on q = tasks.                                  *)

CleanupPending(q, targets) ==
  [queue    |-> Keep(q.queue, {i \in DOMAIN q.queue :
                                 \A t \in targets : q.queue[i] # RunJob(t)}),
   deferred |-> Keep(q.deferred, {i \in DOMAIN q.deferred : q.deferred[i] \notin targets})]

PostBack(q, jobs) == [q EXCEPT !.queue = @ \o jobs]

\* Cancels go to the front, each before the last one, and their pending targets
\* are taken out.
PostFront(q, targets) ==
  LET clean == CleanupPending(q, Range(targets))
  IN  [clean EXCEPT !.queue = [k \in DOMAIN targets |-> CancelJob(Reverse(targets)[k])] \o @]

Defer(q, t) == [q EXCEPT !.deferred = Append(@, t)]

\* A task that asked for the slot comes first, else the oldest; one at a time.
PopDeferred(q, s) ==
  IF q.deferred = <<>> THEN q
  ELSE LET asked == {i \in DOMAIN q.deferred : Pin[q.deferred[i]] = s}
           i     == IF asked = {} THEN 1 ELSE Min(asked)
       IN  [queue    |-> <<RunJob(q.deferred[i])>> \o q.queue,
            deferred |-> RemoveAt(q.deferred, i)]

-----------------------------------------------------------------------------
(* server_response.                                                        *)

Result(t, kind) == [task |-> t, kind |-> kind]

\* send: a result nobody waits for is dropped.
Send(rs, t, kind) == IF t \in waiting THEN Append(rs, Result(t, kind)) ELSE rs

-----------------------------------------------------------------------------
(* The HTTP threads.                                                       *)

ReaderAt(r, pc) == reader[r].pc = pc
ReaderGoto(r, pc) == reader' = [reader EXCEPT ![r].pc = pc]

\* wait_until_no_sleep, when the response object is made.
Arrive(r) ==
  /\ ReaderAt(r, "none")
  /\ IF sleep.sleeping
     THEN ReaderGoto(r, "waking") /\ sleep' = [sleep EXCEPT !.wake = TRUE]
     ELSE ReaderGoto(r, "ready") /\ UNCHANGED sleep
  /\ UNCHANGED <<tasks, waiting, results>>

WokenUp(r) ==
  /\ ReaderAt(r, "waking") /\ ~sleep.sleeping
  /\ ReaderGoto(r, "ready")
  /\ UNCHANGED <<tasks, waiting, results, sleep>>

\* post_tasks: the ids wait for results before the tasks are queued.
Register(r) ==
  /\ ReaderAt(r, "ready")
  /\ waiting' = waiting \cup IdsOf[r]
  /\ ReaderGoto(r, "posting")
  /\ UNCHANGED <<tasks, results, sleep>>

PostTasks(r) ==
  /\ ReaderAt(r, "posting")
  /\ tasks' = PostBack(tasks, [k \in DOMAIN Roots[r] |-> RunJob(Roots[r][k])])
  /\ ReaderGoto(r, "reading")
  /\ UNCHANGED <<waiting, results, sleep>>

\* next: the first result of the request; an error ends it.
Receive(r) ==
  LET own   == {i \in DOMAIN results : results[i].task \in IdsOf[r]}
      first == results[Min(own)]
      got   == reader[r].received \cup {first.task}
  IN  /\ ReaderAt(r, "reading") /\ own # {}
      /\ results' = RemoveAt(results, Min(own))
      /\ IF first.kind = "error" THEN ReaderGoto(r, "stopping")
         ELSE reader' = [reader EXCEPT ![r] =
                [pc |-> IF got = IdsOf[r] THEN "closing" ELSE "reading",
                 received |-> got]]
      /\ UNCHANGED <<tasks, waiting, sleep>>

\* The client is gone: should_stop.
GiveUp(r) ==
  /\ r \in Impatient
  /\ ReaderAt(r, "reading")
  /\ ReaderGoto(r, "stopping")
  /\ UNCHANGED <<tasks, waiting, results, sleep>>

\* Mutant: results are cleaned while the tasks may still send some.
StopWaitingLast(r) ==
  /\ reader[r].pc \in {"stopping", "closing"}
  /\ ReaderGoto(r, IF ReaderAt(r, "closing") THEN "done" ELSE "cleaning")
  /\ UNCHANGED <<tasks, waiting, results, sleep>>

\* stop: nothing is sent any more; a reader that has all is finished.
StopWaiting(r) ==
  /\ reader[r].pc \in {"stopping", "closing"}
  /\ waiting' = waiting \ IdsOf[r]
  /\ ReaderGoto(r, IF ReaderAt(r, "closing") THEN "done" ELSE "cleaning")
  /\ UNCHANGED <<tasks, results, sleep>>

CleanResults(r) ==
  /\ ReaderAt(r, "cleaning")
  /\ results' = Keep(results, {i \in DOMAIN results : results[i].task \notin IdsOf[r]})
  /\ ReaderGoto(r, "cancelling")
  /\ UNCHANGED <<tasks, waiting, sleep>>

\* The ids are in a set: they are cancelled in any order.
PostCancels(r) ==
  /\ ReaderAt(r, "cancelling")
  /\ \E order \in SetToSeqs(IdsOf[r]) : tasks' = PostFront(tasks, order)
  /\ ReaderGoto(r, "done")
  /\ UNCHANGED <<waiting, results, sleep>>

\* What a thread does by itself; arriving and giving up are the client's.
ReaderStep(r) ==
  \/ WokenUp(r) \/ Register(r) \/ PostTasks(r) \/ Receive(r)
  \/ StopWaiting(r) \/ CleanResults(r) \/ PostCancels(r)

QueueTypeOK ==
  /\ tasks \in [queue : Seq(Jobs), deferred : Seq(Tasks)]
  /\ waiting \subseteq Tasks
  /\ results \in Seq([task : Tasks, kind : {"final", "error"}])
  /\ sleep \in [sleeping : BOOLEAN, wake : BOOLEAN]
  /\ reader \in [Requests -> [pc : {"none", "waking", "ready", "posting", "reading",
                                    "stopping", "closing", "cleaning", "cancelling",
                                    "done"},
                              received : SUBSET Tasks]]
=============================================================================
