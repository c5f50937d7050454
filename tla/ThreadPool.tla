----------------------------- MODULE ThreadPool -----------------------------
(***************************************************************************)
(* The thread pool of ggml's CPU backend, in the build without OpenMP: the *)
(* threads poll or sleep until the main thread starts a graph, compute its *)
(* nodes together with a barrier after each, and share the chunks of a     *)
(* matrix product by a counter.                                            *)
(*                                                                         *)
(* An action is a step on the shared atomics, or a section under the mutex.*)
(* Thread 0 is the thread that calls ggml_graph_compute.  Fused nodes are  *)
(* one node; what a chunk's numbers are is left out.                       *)
(***************************************************************************)
EXTENDS Integers, FiniteSets

CONSTANTS
  NumThreads,  \* threadpool.n_threads
  NumNodes,    \* cgraph.n_nodes
  Kind,        \* of a node: "empty", "rows" (split by thread), "product"
  Chunks,      \* nchunk0 * nchunk1 of a product
  MaxGraphs    \* bound: graphs computed in the life of the pool

Threads == 0..(NumThreads - 1)
Nodes   == 0..(NumNodes - 1)

ASSUME PoolAssumption ==
  /\ NumThreads \in Nat \ {0} /\ NumNodes \in Nat \ {0}
  /\ Kind \in [Nodes -> {"empty", "rows", "product"}]
  /\ Chunks \in Nat /\ MaxGraphs \in Nat

VARIABLES
  n_graph,  \* graphs started and the threads of the last one
  gate,     \* n_barrier and n_barrier_passed
  chunk,    \* current_chunk
  flags,    \* stop and pause
  abort,    \* node before which the graph is left, or -1
  output,   \* per node: chunks of the current graph's result that are there
  pc,       \* place of each thread
  at,       \* per thread: node_n, params.nth and its chunk
  bar,      \* per thread in ggml_barrier: n_threads, n_passed, where it returns
  work      \* per thread: last_graph and pending

vars == <<n_graph, gate, chunk, flags, abort, output, pc, at, bar, work>>

Graph   == <<chunk, abort, output>>
Nowhere == [node |-> 0, nth |-> 0, mine |-> 0]
Outside == [width |-> 0, passed |-> 0, ret |-> "top"]

Init ==
  /\ n_graph = [count |-> 0, threads |-> 0]
  /\ gate = [count |-> 0, passed |-> 0]
  /\ chunk = 0 /\ abort = -1
  /\ \E paused \in BOOLEAN : flags = [stop |-> FALSE, pause |-> paused]
  /\ output = [n \in Nodes |-> {}]
  /\ pc = [t \in Threads |-> IF t = 0 THEN "idle" ELSE "top"]
  /\ at = [t \in Threads |-> Nowhere]
  /\ bar = [t \in Threads |-> Outside]
  /\ work = [t \in Threads |-> [last |-> n_graph, pending |-> FALSE]]

At(t, place) == pc[t] = place
Goto(t, place) == pc' = [pc EXCEPT ![t] = place]

\* Threads that wait on cond are waiting for work, or paused.
Woken(p) == CASE p = "waiting" -> "lock" [] p = "paused" -> "top" [] OTHER -> p
Broadcast(place) == pc' = [t \in Threads |-> IF t = 0 THEN place ELSE Woken(pc[t])]

-----------------------------------------------------------------------------
(* ggml_barrier.                                                           *)

\* A call of the barrier, with what the thread does afterwards.
Barrier(t, ret) ==
  /\ Goto(t, "arrive")
  /\ bar' = [bar EXCEPT ![t].ret = ret]

Leave(t) ==
  /\ Goto(t, bar[t].ret)
  /\ bar' = [bar EXCEPT ![t] = Outside]

Arrive(t) ==
  /\ At(t, "arrive")
  /\ IF n_graph.threads = 1 THEN Leave(t)
     ELSE /\ bar' = [bar EXCEPT ![t].width = n_graph.threads, ![t].passed = gate.passed]
          /\ Goto(t, "count")
  /\ UNCHANGED <<n_graph, gate, flags, Graph, at, work>>

Count(t) ==
  /\ At(t, "count")
  /\ gate' = [gate EXCEPT !.count = @ + 1]
  /\ Goto(t, IF gate.count = bar[t].width - 1 THEN "reset" ELSE "spin")
  /\ UNCHANGED <<n_graph, flags, Graph, at, bar, work>>

\* Mutant: the last thread leaves the count as it is.
ResetNothing(t) ==
  /\ At(t, "reset")
  /\ Goto(t, "open")
  /\ UNCHANGED <<n_graph, gate, flags, Graph, at, bar, work>>

ResetBarrier(t) ==
  /\ At(t, "reset")
  /\ gate' = [gate EXCEPT !.count = 0]
  /\ Goto(t, "open")
  /\ UNCHANGED <<n_graph, flags, Graph, at, bar, work>>

Open(t) ==
  /\ At(t, "open")
  /\ gate' = [gate EXCEPT !.passed = @ + 1]
  /\ Leave(t)
  /\ UNCHANGED <<n_graph, flags, Graph, at, work>>

Spin(t) ==
  /\ At(t, "spin") /\ gate.passed # bar[t].passed
  /\ Leave(t)
  /\ UNCHANGED <<n_graph, gate, flags, Graph, at, work>>

-----------------------------------------------------------------------------
(* ggml_graph_compute_thread.                                              *)

\* A product has at least four chunks for each thread, or one.
NumChunks(nth, n) == IF Kind[n] = "rows" \/ Chunks < 4 * nth THEN nth ELSE Chunks

Start(t) ==
  /\ At(t, "start")
  /\ at' = [at EXCEPT ![t] = [Nowhere EXCEPT !.nth = n_graph.threads]]
  /\ Goto(t, "loop")
  /\ UNCHANGED <<n_graph, gate, flags, Graph, bar, work>>

Returned(t) == IF t = 0 THEN "idle" ELSE "top"

\* Mutant: a thread that is done does not wait for the others.
LeaveLoopAtOnce(t) ==
  /\ At(t, "loop") /\ (at[t].node \notin Nodes \/ abort = at[t].node)
  /\ Goto(t, Returned(t))
  /\ at' = [at EXCEPT ![t] = Nowhere]
  /\ UNCHANGED <<n_graph, gate, flags, Graph, bar, work>>

LeaveLoop(t) ==
  /\ At(t, "loop") /\ (at[t].node \notin Nodes \/ abort = at[t].node)
  /\ Barrier(t, Returned(t))
  /\ at' = [at EXCEPT ![t] = Nowhere]
  /\ UNCHANGED <<n_graph, gate, flags, Graph, work>>

SkipEmpty(t) ==
  /\ At(t, "loop") /\ at[t].node \in Nodes /\ abort # at[t].node
  /\ Kind[at[t].node] = "empty"
  /\ at' = [at EXCEPT ![t].node = @ + 1]
  /\ UNCHANGED <<n_graph, gate, flags, Graph, pc, bar, work>>

StartRows(t) ==
  /\ At(t, "loop") /\ at[t].node \in Nodes /\ abort # at[t].node
  /\ Kind[at[t].node] = "rows"
  /\ at' = [at EXCEPT ![t].mine = t]
  /\ Goto(t, "compute")
  /\ UNCHANGED <<n_graph, gate, flags, Graph, bar, work>>

\* Mutant: nobody waits for the counter to be set.
StartProductAtOnce(t) ==
  /\ At(t, "loop") /\ at[t].node \in Nodes /\ abort # at[t].node
  /\ Kind[at[t].node] = "product"
  /\ chunk' = IF t = 0 THEN at[t].nth ELSE chunk
  /\ Goto(t, "first")
  /\ UNCHANGED <<n_graph, gate, flags, abort, output, at, bar, work>>

\* Thread 0 sets the counter: each thread starts with the chunk of its number.
StartProduct(t) ==
  /\ At(t, "loop") /\ at[t].node \in Nodes /\ abort # at[t].node
  /\ Kind[at[t].node] = "product"
  /\ chunk' = IF t = 0 THEN at[t].nth ELSE chunk
  /\ Barrier(t, "first")
  /\ UNCHANGED <<n_graph, gate, flags, abort, output, at, work>>

TakesChunk(t, c) ==
  /\ at' = [at EXCEPT ![t].mine = c]
  /\ Goto(t, IF c < NumChunks(at[t].nth, at[t].node) THEN "compute" ELSE "after")

FirstChunk(t) ==
  /\ At(t, "first")
  /\ TakesChunk(t, t)
  /\ UNCHANGED <<n_graph, gate, flags, Graph, bar, work>>

ComputeChunk(t) ==
  LET n == at[t].node
  IN  /\ At(t, "compute")
      /\ output' = [output EXCEPT ![n] = @ \cup {at[t].mine}]
      /\ Goto(t, IF at[t].nth >= NumChunks(at[t].nth, n) THEN "after" ELSE "next")
      /\ UNCHANGED <<n_graph, gate, flags, chunk, abort, at, bar, work>>

NextChunk(t) ==
  /\ At(t, "next")
  /\ TakesChunk(t, chunk)
  /\ chunk' = chunk + 1
  /\ UNCHANGED <<n_graph, gate, flags, abort, output, bar, work>>

\* Thread 0 asks abort_callback; the barrier is left out after the last node.
EndNode(t) ==
  /\ At(t, "after")
  /\ abort' \in IF t = 0 THEN {abort, at[t].node + 1} ELSE {abort}
  /\ at' = [at EXCEPT ![t].node = @ + 1]
  /\ IF at[t].node + 1 \in Nodes THEN Barrier(t, "loop")
     ELSE Goto(t, "loop") /\ UNCHANGED bar
  /\ UNCHANGED <<n_graph, gate, flags, chunk, output, work>>

ComputeStep(t) ==
  \/ Arrive(t) \/ Count(t) \/ ResetBarrier(t) \/ Open(t) \/ Spin(t)
  \/ Start(t) \/ LeaveLoop(t) \/ SkipEmpty(t) \/ StartRows(t) \/ StartProduct(t)
  \/ FirstChunk(t) \/ ComputeChunk(t) \/ NextChunk(t) \/ EndNode(t)

-----------------------------------------------------------------------------
(* ggml_graph_compute_secondary_thread.                                    *)

Unchanged == UNCHANGED <<n_graph, gate, flags, Graph, at, bar>>

TestPause(t) ==
  /\ At(t, "top")
  /\ Goto(t, IF flags.pause THEN "pauseLock" ELSE "stopTest")
  /\ Unchanged /\ UNCHANGED work

WaitWhilePaused(t) ==
  /\ At(t, "pauseLock")
  /\ Goto(t, IF flags.pause THEN "paused" ELSE "top")
  /\ Unchanged /\ UNCHANGED work

TestStop(t) ==
  /\ At(t, "stopTest")
  /\ Goto(t, IF flags.stop THEN "exited" ELSE "poll")
  /\ Unchanged /\ UNCHANGED work

\* ggml_graph_compute_thread_ready, when it finds a new graph.
SeesGraph(t) ==
  /\ n_graph # work[t].last
  /\ work' = [work EXCEPT ![t] = [last |-> n_graph, pending |-> t < n_graph.threads]]

PollFlags(t) ==
  /\ At(t, "poll")
  /\ Goto(t, IF flags.stop \/ flags.pause THEN "lock" ELSE "pollGraph")
  /\ Unchanged /\ UNCHANGED work

PollGraph(t) ==
  /\ At(t, "pollGraph")
  /\ \/ SeesGraph(t) /\ Goto(t, IF t < n_graph.threads THEN "run" ELSE "lock")
     \/ /\ n_graph = work[t].last /\ UNCHANGED work
        /\ Goto(t, "poll") \/ Goto(t, "lock")
  /\ Unchanged

\* Mutant: a thread that stops polling sleeps without looking again.
SleepAtOnce(t) ==
  /\ At(t, "lock")
  /\ Goto(t, IF flags.stop \/ flags.pause THEN "run" ELSE "waiting")
  /\ Unchanged /\ UNCHANGED work

\* Under the mutex: look again, or sleep.
WaitForWork(t) ==
  /\ At(t, "lock")
  /\ \/ /\ flags.stop \/ flags.pause
        /\ Goto(t, "run") /\ UNCHANGED work
     \/ /\ ~flags.stop /\ ~flags.pause
        /\ \/ SeesGraph(t) /\ Goto(t, "run")
           \/ n_graph = work[t].last /\ Goto(t, "waiting") /\ UNCHANGED work
  /\ Unchanged

RunPending(t) ==
  /\ At(t, "run")
  /\ Goto(t, IF work[t].pending THEN "start" ELSE "top")
  /\ work' = [work EXCEPT ![t].pending = FALSE]
  /\ Unchanged

WorkerStep(t) ==
  \/ TestPause(t) \/ WaitWhilePaused(t) \/ TestStop(t)
  \/ PollFlags(t) \/ PollGraph(t) \/ WaitForWork(t) \/ RunPending(t)

\* cond_wait may return by itself.
SpuriousWakeup(t) ==
  /\ pc[t] \in {"waiting", "paused"}
  /\ Goto(t, Woken(pc[t]))
  /\ Unchanged /\ UNCHANGED work

-----------------------------------------------------------------------------
(* The calling thread.                                                     *)

\* ggml_graph_compute: the parameters are reset before anybody is told.
Compute ==
  /\ At(0, "idle") /\ n_graph.count < MaxGraphs
  /\ chunk' = 0 /\ abort' = -1 /\ output' = [n \in Nodes |-> {}]
  /\ Goto(0, "kickoff")
  /\ UNCHANGED <<n_graph, gate, flags, at, bar, work>>

Kickoff(nth) ==
  /\ At(0, "kickoff")
  /\ n_graph' = [count |-> n_graph.count + 1, threads |-> nth]
  /\ flags' = [flags EXCEPT !.pause = FALSE]
  /\ Broadcast("start")
  /\ UNCHANGED <<gate, Graph, at, bar, work>>

\* ggml_threadpool_pause and ggml_threadpool_resume.
SetPause(paused) ==
  /\ At(0, "idle") /\ flags.pause # paused
  /\ flags' = [flags EXCEPT !.pause = paused]
  /\ Broadcast("idle")
  /\ UNCHANGED <<n_graph, gate, Graph, at, bar, work>>

Free ==
  /\ At(0, "idle")
  /\ flags' = [stop |-> TRUE, pause |-> FALSE]
  /\ Broadcast("join")
  /\ UNCHANGED <<n_graph, gate, Graph, at, bar, work>>

Join ==
  /\ At(0, "join") /\ \A t \in Threads \ {0} : At(t, "exited")
  /\ Goto(0, "freed")
  /\ Unchanged /\ UNCHANGED work

Call == Compute \/ Free \/ \E paused \in BOOLEAN : SetPause(paused)

Step(t) ==
  \/ ComputeStep(t)
  \/ t # 0 /\ WorkerStep(t)
  \/ t = 0 /\ (Join \/ \E nth \in 1..NumThreads : Kickoff(nth))

Next == Call \/ \E t \in Threads : Step(t) \/ SpuriousWakeup(t)

Spec == Init /\ [][Next]_vars

\* Every thread gets its turn; the caller calls when it likes.
FairSpec == Spec /\ \A t \in Threads : WF_vars(Step(t))

-----------------------------------------------------------------------------

Places == {"idle", "kickoff", "join", "freed", "top", "pauseLock", "paused",
           "stopTest", "poll", "pollGraph", "lock", "waiting", "run", "exited",
           "start", "loop", "first", "compute", "next", "after",
           "arrive", "count", "reset", "open", "spin"}

GraphIds == [count : 0..MaxGraphs, threads : 0..NumThreads]

TypeOK ==
  /\ n_graph \in GraphIds /\ gate \in [count : Nat, passed : Nat]
  /\ chunk \in Nat /\ abort \in Nodes \cup {-1, NumNodes}
  /\ flags \in [stop : BOOLEAN, pause : BOOLEAN]
  /\ output \in [Nodes -> SUBSET Nat]
  /\ pc \in [Threads -> Places]
  /\ at \in [Threads -> [node : 0..NumNodes, nth : 0..NumThreads, mine : Nat]]
  /\ bar \in [Threads -> [width : 0..NumThreads, passed : Nat,
                          ret : {"idle", "top", "first", "loop"}]]
  /\ work \in [Threads -> [last : GraphIds, pending : BOOLEAN]]

\* Threads in ggml_graph_compute_thread that may still read the graph or the
\* parameters of the pool.
Reading == {"start", "loop", "first", "compute", "next", "after", "arrive", "count"}
Spinning == {t \in Threads : At(t, "spin") /\ bar[t].passed = gate.passed}
Active == 0..(n_graph.threads - 1)

\* The barrier counts the threads that spin for it, and its last thread; it is
\* opened when all threads of the graph are there, each with the right width.
GateCounts ==
  /\ \A t \in Threads : pc[t] \in {"count", "reset"} => bar[t].width = n_graph.threads
  /\ \/ \E t \in Threads :
          /\ pc[t] \in {"reset", "open"}
          /\ gate.count = IF At(t, "reset") THEN n_graph.threads ELSE 0
          /\ Spinning = Active \ {t}
     \/ /\ \A t \in Threads : pc[t] \notin {"reset", "open"}
        /\ gate.count = Cardinality(Spinning)

\* The types, and the barrier's count is the number of threads in it.
PoolInv == TypeOK /\ GateCounts

\* The chunks of a node, and whether its result is there.
Whole(n) ==
  output[n] = IF Kind[n] = "empty" THEN {} ELSE 0..(NumChunks(n_graph.threads, n) - 1)

\* A chunk is computed by one thread and once, from inputs that are complete.
\* A graph that has returned is whole up to the node at which it was left, the
\* same for all threads, and untouched from there.
NodesInOrder ==
  /\ \A t \in Threads : At(t, "compute") =>
       /\ at[t].mine \notin output[at[t].node]
       /\ \A u \in Threads \ {t} : At(u, "compute") => at[u] # at[t]
       /\ \A n \in Nodes : n < at[t].node => Whole(n)
  /\ At(0, "idle") /\ n_graph.count > 0 => \A n \in Nodes :
       IF abort = -1 \/ n < abort THEN Whole(n) ELSE output[n] = {}

\* "No worker threads should be accessing the parameters below at this stage":
\* when a call has returned, and until the next graph is announced.
ParametersAreQuiet ==
  pc[0] \in {"idle", "kickoff", "join", "freed"} =>
    \A t \in Threads \ {0} : pc[t] \notin Reading \cup {"reset", "open"}

\* A graph that is started is computed, and a pool that is freed goes: no
\* thread sleeps through its work or waits for one that does.
CallsReturn == pc[0] \notin {"idle", "freed"} ~> pc[0] \in {"idle", "freed"}
=============================================================================
