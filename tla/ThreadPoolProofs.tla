-------------------------- MODULE ThreadPoolProofs --------------------------
(***************************************************************************)
(* The threads of a graph go through it in segments, each ended by a       *)
(* barrier that all of them reach with the same place to go on from.  A    *)
(* thread that still spins in a barrier that was opened is where it will   *)
(* go on (Place), so that opening it takes all threads over at once.       *)
(***************************************************************************)
EXTENDS ThreadPool, FiniteSetTheorems, TLAPS

N == n_graph.threads

WorkerPlaces == {"top", "pauseLock", "paused", "stopTest", "poll", "pollGraph",
                 "lock", "waiting", "run", "exited"}
BarrierPlaces == {"arrive", "count", "spin", "reset", "open"}
CallerPlaces  == {"idle", "kickoff", "join", "freed"}

Place(t) == IF At(t, "spin") /\ bar[t].passed # gate.passed THEN bar[t].ret ELSE pc[t]

InBarrier(t) == Place(t) \in BarrierPlaces

\* A worker that has not started on the graph it takes part in.
ToStart(t) == Place(t) \in WorkerPlaces /\ (work[t].last = n_graph => work[t].pending)

-----------------------------------------------------------------------------
(* The segments of a graph.                                                *)

\* A segment starts at a node, or behind the barrier of a product, and goes to
\* the next barrier; until a thread has found the node it works on, it is early.
Segments == [first : 0..NumNodes, node : 0..NumNodes,
             part : {"early", "enter", "rows", "product", "leave"}]

EmptyTo(first, n) == \A i \in Nodes : first <= i /\ i < n => Kind[i] = "empty"

SegmentOK(s) ==
  /\ s.first <= s.node /\ EmptyTo(s.first, s.node)
  /\ s.part = "early" => s.node = s.first /\ abort \in {-1, s.first}
  /\ s.part = "enter" => s.node \in Nodes /\ Kind[s.node] = "product" /\ abort = -1
  /\ s.part \in {"rows", "product"} =>
       s.node \in Nodes /\ Kind[s.node] = s.part /\ abort \in {-1, s.node + 1}
  /\ s.part = "leave" => \/ s.node = NumNodes /\ abort = -1
                         \/ s.node = s.first /\ abort = s.first

\* Before the node of the segment's work: empty nodes have been skipped.
Early(t, s) ==
  /\ s.part # "product"
  /\ \/ s.first = 0 /\ t # 0 /\ ToStart(t)
     \/ s.first = 0 /\ Place(t) = "start"
     \/ /\ Place(t) = "loop" /\ at[t].nth = N
        /\ at[t].node >= s.first /\ EmptyTo(s.first, at[t].node)
        /\ abort = s.first => at[t].node = s.first

\* At work on the node.
Working(t, s) ==
  /\ at[t].nth = N /\ at[t].node = s.node
  /\ \/ s.part = "rows" /\ Place(t) = "compute" /\ at[t].mine = t
     \/ s.part = "rows" /\ Place(t) = "after"
     \/ s.part = "product" /\ Place(t) \in {"first", "compute", "next", "after"}

\* Where a thread goes on after the barrier, and with which node.
Continues(t, s) ==
  IF s.part = "enter" THEN "first"
  ELSE IF s.part # "leave" /\ s.node + 1 \in Nodes THEN "loop" ELSE Returned(t)

\* Behind the last node, or in the barrier.
Past(t, s) ==
  /\ s.part # "early"
  /\ \/ /\ s.part \in {"rows", "product"} /\ s.node + 1 = NumNodes
        /\ Place(t) = "loop" /\ at[t].node = NumNodes
     \/ /\ InBarrier(t) /\ bar[t].ret = Continues(t, s)
        /\ bar[t].ret = "first" => at[t].node = s.node /\ at[t].nth = N
        /\ bar[t].ret = "loop" => at[t].node = s.node + 1 /\ at[t].nth = N

InSegment(t, s) == Early(t, s) \/ Working(t, s) \/ Past(t, s)

-----------------------------------------------------------------------------
(* The results.                                                            *)

\* Nodes before n are whole, nodes from m on untouched.
OutputTo(n, m) == \A i \in Nodes : (i < n => Whole(i)) /\ (i >= m => output[i] = {})

\* Chunks a thread of a product has taken and not finished.
Claims(t) == CASE Place(t) = "first" -> {t}
               [] Place(t) = "compute" -> {at[t].mine}
               [] OTHER -> {}

ProductOK(n) ==
  LET all == NumChunks(N, n)
  IN  /\ chunk >= N
      /\ \A c \in output[n] : c < chunk /\ c < all
      /\ \A t \in Active : \A c \in Claims(t) : c < chunk /\ c < all /\ c \notin output[n]
      /\ \A t, u \in Active : t # u => Claims(t) \cap Claims(u) = {}
      /\ \A c \in 0..(all - 1) :
           c < chunk => c \in output[n] \/ \E t \in Active : c \in Claims(t)
      /\ \A t \in Active : Place(t) \notin {"first", "compute", "next"} => chunk >= all

OutputOK(s) ==
  /\ s.part \in {"early", "enter", "leave"} => OutputTo(s.node, s.node)
  /\ s.part \in {"rows", "product"} => OutputTo(s.node, s.node + 1)
  /\ s.part = "enter" /\ Past(0, s) => chunk = N
  /\ s.part = "rows" =>
       output[s.node] = {t \in Active : Place(t) = "after" \/ Past(t, s)}
  /\ s.part = "product" => ProductOK(s.node)

-----------------------------------------------------------------------------
(* The invariant.                                                          *)

\* What a call has left when it has returned.
Result ==
  \A n \in Nodes : IF abort = -1 \/ n < abort THEN Whole(n) ELSE output[n] = {}

\* No graph is computed: all threads have left the one before.
Quiet ==
  /\ Place(0) \in CallerPlaces
  /\ \A t \in Threads \ {0} :
       /\ Place(t) \in WorkerPlaces /\ ~work[t].pending
       /\ t \in Active => work[t].last = n_graph
  /\ Place(0) = "idle" /\ n_graph.count > 0 => Result
  /\ At(0, "kickoff") =>
       /\ n_graph.count < MaxGraphs
       /\ chunk = 0 /\ abort = -1 /\ \A n \in Nodes : output[n] = {}

\* A graph is computed by its threads, the others have no part in it.
Computing(s) ==
  /\ N > 0
  /\ SegmentOK(s) /\ OutputOK(s)
  /\ \A t \in Active : InSegment(t, s)
  /\ \A t \in Threads \ Active : Place(t) \in WorkerPlaces
  /\ \A t \in Active \ {0} : Place(t) \notin WorkerPlaces => work[t].last = n_graph

\* Barriers: a thread in one has read the current passage.
PassagesOK ==
  \A t \in Threads :
    /\ bar[t].passed <= gate.passed
    /\ pc[t] \in {"count", "reset", "open"} =>
         bar[t].passed = gate.passed /\ bar[t].width = N

\* A worker has seen no graph but those that were started, and goes straight
\* to one it has part in.
PendingOK ==
  \A t \in Threads :
    /\ work[t].last.count <= n_graph.count
    /\ work[t].pending => pc[t] = "run" /\ t \in Active /\ work[t].last = n_graph

ThreadsInv ==
  /\ TypeOK /\ GateCounts /\ PassagesOK /\ PendingOK
  /\ Quiet \/ \E s \in Segments : Computing(s)

-----------------------------------------------------------------------------
(* Types, and what a step of one thread leaves alone.                      *)

LEMMA Sizes ==
  /\ NumThreads \in Nat /\ NumThreads > 0 /\ NumNodes \in Nat /\ NumNodes > 0
  /\ \A n \in Nodes : Kind[n] \in {"empty", "rows", "product"}
  /\ Chunks \in Nat /\ MaxGraphs \in Nat /\ 0 \in Threads /\ 0 \in Nodes
  /\ Threads \subseteq Nat /\ Nodes \subseteq Nat
BY PoolAssumption DEF Threads, Nodes

LEMMA Typed ==
  ASSUME TypeOK
  PROVE  /\ n_graph.count \in 0..MaxGraphs /\ N \in 0..NumThreads /\ N \in Nat
         /\ n_graph = [count |-> n_graph.count, threads |-> n_graph.threads]
         /\ gate.count \in Nat /\ gate.passed \in Nat
         /\ gate = [count |-> gate.count, passed |-> gate.passed]
         /\ Active \subseteq Threads /\ \A t \in Threads : t \in Active <=> t < N
<1>1. n_graph \in [count : 0..MaxGraphs, threads : 0..NumThreads]
  BY DEF TypeOK, GraphIds
<1>2. gate \in [count : Nat, passed : Nat]
  BY DEF TypeOK
<1>3. N \in 0..NumThreads
  BY <1>1 DEF N
<1>4. Active \subseteq Threads /\ \A t \in Threads : t \in Active <=> t < N
  BY <1>3, Sizes DEF Active, N, Threads
<1> QED BY <1>1, <1>2, <1>3, <1>4, Sizes

LEMMA ThreadTyped ==
  ASSUME TypeOK, NEW t \in Threads
  PROVE  /\ pc[t] \in Places
         /\ at[t] \in [node : 0..NumNodes, nth : 0..NumThreads, mine : Nat]
         /\ at[t].node \in 0..NumNodes /\ at[t].nth \in 0..NumThreads /\ at[t].mine \in Nat
         /\ bar[t] \in [width : 0..NumThreads, passed : Nat, ret : {"idle", "top", "first", "loop"}]
         /\ bar[t].passed \in Nat /\ bar[t].width \in 0..NumThreads
         /\ bar[t].ret \in {"idle", "top", "first", "loop"}
         /\ work[t].last \in GraphIds /\ work[t].pending \in BOOLEAN
BY DEF TypeOK

\* Everything the invariant says of the other threads is as it was.
OnlyMoves(t) ==
  /\ n_graph' = n_graph /\ gate' = gate
  /\ \A u \in Threads \ {t} :
       pc'[u] = pc[u] /\ at'[u] = at[u] /\ bar'[u] = bar[u] /\ work'[u] = work[u]

LEMMA OthersStay ==
  ASSUME NEW t \in Threads, OnlyMoves(t), NEW u \in Threads \ {t}, NEW s \in Segments
  PROVE  /\ Place(u)' = Place(u) /\ Claims(u)' = Claims(u)
         /\ N' = N /\ Active' = Active
         /\ Working(u, s)' <=> Working(u, s)
         /\ Past(u, s)' <=> Past(u, s)
         /\ abort' = abort => (Early(u, s)' <=> Early(u, s))
         /\ abort' = abort => (InSegment(u, s)' <=> InSegment(u, s))
<1> USE DEF OnlyMoves
<1>1. Place(u)' = Place(u) /\ N' = N /\ Active' = Active
  BY DEF Place, At, N, Active
<1>2. Claims(u)' = Claims(u)
  BY <1>1 DEF Claims
<1>3. Working(u, s)' <=> Working(u, s)
  BY <1>1 DEF Working
<1>4. Past(u, s)' <=> Past(u, s)
  BY <1>1 DEF Past, InBarrier, Continues, Returned
<1>5. abort' = abort => (Early(u, s)' <=> Early(u, s))
  BY <1>1 DEF Early, ToStart
<1> QED BY <1>1, <1>2, <1>3, <1>4, <1>5 DEF InSegment

\* A thread at a place of the computation takes part in it.
LEMMA InGraph ==
  ASSUME ThreadsInv, NEW t \in Threads, Place(t) \notin WorkerPlaces \cup CallerPlaces
  PROVE  t \in Active /\ \E s \in Segments : Computing(s) /\ InSegment(t, s)
<1>1. ~Quiet
  BY Sizes DEF Quiet, CallerPlaces, WorkerPlaces
<1>2. PICK s \in Segments : Computing(s)
  BY <1>1 DEF ThreadsInv
<1>3. t \in Active
  BY <1>2 DEF Computing
<1> QED BY <1>2, <1>3 DEF Computing

\* The caller is never at a worker's place, nor a worker at the caller's.
LEMMA CallerApart ==
  ASSUME ThreadsInv
  PROVE  /\ Place(0) \notin WorkerPlaces
         /\ \A t \in Threads \ {0} : Place(t) \notin CallerPlaces
         /\ Place(0) \in CallerPlaces => Quiet
<1>1. ASSUME Quiet
      PROVE  /\ Place(0) \notin WorkerPlaces
             /\ \A t \in Threads \ {0} : Place(t) \notin CallerPlaces
  BY <1>1 DEF Quiet, CallerPlaces, WorkerPlaces
<1>2. ASSUME NEW s \in Segments, Computing(s)
      PROVE  /\ Place(0) \notin WorkerPlaces \cup CallerPlaces
             /\ \A t \in Threads \ {0} : Place(t) \notin CallerPlaces
  <2>1. \A t \in Active : InSegment(t, s) => (t # 0 /\ Place(t) \in WorkerPlaces)
                                              \/ Place(t) \notin WorkerPlaces \cup CallerPlaces
    BY DEF InSegment, Early, Working, Past, ToStart, InBarrier, BarrierPlaces,
           WorkerPlaces, CallerPlaces
  <2>2. 0 \in Active
    BY <1>2, Typed, Sizes DEF Computing, ThreadsInv
  <2>3. \A t \in Threads \ Active : Place(t) \notin CallerPlaces
    BY <1>2 DEF Computing, WorkerPlaces, CallerPlaces
  <2>4. \A t \in Active : Place(t) \notin CallerPlaces
    BY <1>2, <2>1 DEF Computing, WorkerPlaces, CallerPlaces
  <2> QED BY <1>2, <2>1, <2>2, <2>3, <2>4 DEF Computing
<1> QED BY <1>1, <1>2 DEF ThreadsInv

-----------------------------------------------------------------------------
(* The barrier's counter.                                                  *)

Counted == {"count", "spin", "reset", "open"}

LEMMA SpinningFacts ==
  ASSUME TypeOK
  PROVE  /\ IsFiniteSet(Threads) /\ IsFiniteSet(Spinning) /\ Spinning \subseteq Threads
         /\ IsFiniteSet(Active) /\ Cardinality(Active) = N
         /\ Cardinality(Spinning) \in Nat
<1>1. NumThreads \in Nat /\ N \in Nat
  BY Sizes, Typed
<1>2. IsFiniteSet(0..(NumThreads - 1)) /\ IsFiniteSet(0..(N - 1))
  BY <1>1, FS_Interval
<1>3. Cardinality(0..(N - 1)) = N
  <2>1. Cardinality(0..(N - 1)) = IF 0 > N - 1 THEN 0 ELSE (N - 1) - 0 + 1
    BY <1>1, FS_Interval
  <2> QED BY <1>1, <2>1
<1>4. IsFiniteSet(Spinning) /\ Spinning \subseteq Threads
  BY <1>2, FS_Subset DEF Spinning, Threads
<1> QED BY <1>2, <1>3, <1>4, FS_CardinalityType DEF Threads, Active, N

\* Threads that enter or leave no barrier leave its counter right; one that
\* still spins in an opened barrier is counted no more.
LEMMA BarriersStay ==
  ASSUME TypeOK, GateCounts, PassagesOK, gate' = gate, N' = N,
         \A t \in Threads :
           /\ pc'[t] \in Counted => pc[t] = pc'[t] /\ bar'[t] = bar[t]
           /\ pc[t] \in Counted =>
                pc'[t] = pc[t] \/ (pc[t] = "spin" /\ bar[t].passed # gate.passed)
           /\ bar'[t].passed \in {bar[t].passed, 0}
  PROVE  GateCounts' /\ PassagesOK'
<1>1. Spinning' = Spinning
  BY DEF Spinning, At, Counted
<1>2. /\ n_graph.threads' = n_graph.threads /\ Active' = Active
  BY DEF N, Active
<1>3. \A t \in Threads : pc'[t] \in {"count", "reset", "open"} <=> pc[t] \in {"count", "reset", "open"}
  BY DEF Counted
<1>4. \A t \in Threads : pc[t] \in {"count", "reset", "open"} => pc'[t] = pc[t] /\ bar'[t] = bar[t]
  BY DEF Counted
<1>5. GateCounts'
  BY <1>1, <1>2, <1>3, <1>4 DEF GateCounts, At
<1>6. PassagesOK'
  <2>1. ASSUME NEW t \in Threads PROVE bar'[t].passed <= gate.passed
    BY Typed, ThreadTyped DEF PassagesOK
  <2> QED BY <1>3, <1>4, <2>1 DEF PassagesOK
<1> QED BY <1>5, <1>6

\* In a graph, the threads at the barrier take part in it.
LEMMA CountedTakePart ==
  ASSUME ThreadsInv, NEW t \in Threads, pc[t] \in Counted \cup {"arrive"},
         pc[t] = "spin" => bar[t].passed = gate.passed
  PROVE  /\ Place(t) = pc[t] /\ InBarrier(t) /\ t \in Active
         /\ \E s \in Segments : Computing(s) /\ Past(t, s)
<1>1. Place(t) = pc[t] /\ InBarrier(t)
  BY DEF Place, At, InBarrier, BarrierPlaces, Counted
<1>2. Place(t) \notin WorkerPlaces \cup CallerPlaces
  BY <1>1 DEF Counted, WorkerPlaces, CallerPlaces
<1>3. PICK s \in Segments : Computing(s) /\ InSegment(t, s) /\ t \in Active
  BY <1>2, InGraph
<1>4. ~Early(t, s) /\ ~Working(t, s)
  BY <1>1, <1>2 DEF Early, Working, ToStart, Counted
<1> QED BY <1>1, <1>3, <1>4 DEF InSegment

-----------------------------------------------------------------------------
(* From one segment to the next.                                           *)

LEMMA NumChunksFacts ==
  ASSUME TypeOK, NEW n \in Nodes
  PROVE  /\ NumChunks(N, n) \in Nat /\ NumChunks(N, n) >= N
         /\ Kind[n] = "rows" => NumChunks(N, n) = N
BY Typed, Sizes DEF NumChunks

LEMMA SegmentTyped ==
  ASSUME NEW s \in Segments
  PROVE  /\ s.first \in 0..NumNodes /\ s.node \in 0..NumNodes
         /\ s.first \in Nat /\ s.node \in Nat
         /\ s.part \in {"early", "enter", "rows", "product", "leave"}
         /\ s.node \in Nodes <=> s.node < NumNodes
BY Sizes DEF Segments, Nodes

\* What a thread in the barrier at the end of a segment has to say.
LEMMA AtTheBarrier ==
  ASSUME NEW s \in Segments, NEW t \in Threads, InBarrier(t), InSegment(t, s)
  PROVE  /\ Past(t, s) /\ s.part # "early" /\ bar[t].ret = Continues(t, s)
         /\ bar[t].ret = "first" => at[t].node = s.node /\ at[t].nth = N
         /\ bar[t].ret = "loop" => at[t].node = s.node + 1 /\ at[t].nth = N
         /\ Place(t) \notin {"first", "compute", "next", "loop", "start", "after"}
         /\ Claims(t) = {}
<1>1. Place(t) \notin WorkerPlaces \cup {"first", "compute", "next", "loop", "start", "after"}
  BY DEF InBarrier, BarrierPlaces, WorkerPlaces
<1>2. ~Early(t, s) /\ ~Working(t, s)
  BY <1>1 DEF Early, Working, ToStart
<1>3. Claims(t) = {}
  BY <1>1 DEF Claims
<1> QED BY <1>1, <1>2, <1>3 DEF InSegment, Past

\* When all threads have come to the barrier behind a node, it is whole.
LEMMA NodeIsWhole ==
  ASSUME TypeOK, NEW s \in Segments, Computing(s), s.part \in {"rows", "product"},
         \A t \in Active : InBarrier(t)
  PROVE  Whole(s.node)
<1> DEFINE n == s.node
           all == NumChunks(N, n)
<1>1. /\ n \in Nodes /\ Kind[n] = s.part /\ N > 0 /\ N \in Nat /\ all \in Nat /\ all >= N
      /\ Active = 0..(N - 1) /\ 0 \in Active
  BY NumChunksFacts, Typed DEF Computing, SegmentOK, N, Active
<1>2. \A t \in Active : t \in Threads /\ Past(t, s) /\ Claims(t) = {}
                        /\ Place(t) \notin {"first", "compute", "next"}
  BY AtTheBarrier, Typed DEF Computing
<1>3. SUFFICES output[n] = 0..(all - 1)
  BY <1>1 DEF Whole, N
<1>4. CASE s.part = "rows"
  <2>1. output[n] = Active
    BY <1>2, <1>4 DEF Computing, OutputOK
  <2> QED BY <1>1, <1>4, <2>1, NumChunksFacts
<1>5. CASE s.part = "product"
  <2>1. ProductOK(n)
    BY <1>5 DEF Computing, OutputOK
  <2>2. chunk >= all
    BY <1>1, <1>2, <2>1 DEF ProductOK
  <2>3. chunk \in Nat /\ output[n] \subseteq Nat
    BY <1>1 DEF TypeOK
  <2>4. \A c \in 0..(all - 1) : c < chunk
    BY <1>1, <2>2, <2>3
  <2>5. \A c \in 0..(all - 1) : c \in output[n]
    BY <1>2, <2>1, <2>4 DEF ProductOK
  <2>6. \A c \in output[n] : c \in 0..(all - 1)
    BY <1>1, <2>1, <2>3 DEF ProductOK
  <2> QED BY <2>5, <2>6
<1> QED BY <1>4, <1>5

\* All threads go on at once when the barrier is opened.
Crosses ==
  /\ n_graph' = n_graph /\ abort' = abort /\ output' = output /\ chunk' = chunk
  /\ work' = work
  /\ \A t \in Active : Place(t)' = bar[t].ret /\ at'[t] = at[t]
  /\ \A t \in Threads \ Active : Place(t)' = Place(t)

LEMMA CrossingProduct ==
  ASSUME TypeOK, NEW s \in Segments, Computing(s), Crosses, \A t \in Active : InBarrier(t),
         s.part = "enter"
  PROVE  \E r \in Segments : Computing(r)'
<1> DEFINE n == s.node
           r == [first |-> n, node |-> n, part |-> "product"]
<1>1. r \in Segments /\ n \in Nodes /\ Kind[n] = "product" /\ abort = -1
  BY DEF Segments, Computing, SegmentOK
<1>2. /\ N' = N /\ Active' = Active /\ N \in Nat /\ N > 0 /\ Active = 0..(N - 1)
      /\ Active \subseteq Threads /\ 0 \in Active
  BY Typed DEF Crosses, N, Active, Computing
<1>3. \A t \in Active : /\ Past(t, s) /\ bar[t].ret = "first"
                        /\ at[t].node = n /\ at[t].nth = N
  BY <1>2, AtTheBarrier DEF Computing, Continues
<1>4. SegmentOK(r)'
  BY <1>1 DEF SegmentOK, EmptyTo, Crosses, Nodes
<1>5. \A t \in Active : Place(t)' = "first" /\ at'[t].node = n /\ at'[t].nth = N
  BY <1>3 DEF Crosses
<1>6. \A t \in Active : InSegment(t, r)'
  BY <1>2, <1>5 DEF InSegment, Working
<1>7. \A t \in Active : Claims(t)' = {t}
  BY <1>5 DEF Claims
<1>8. output[n] = {} /\ OutputTo(n, n) /\ chunk = N
  BY <1>1, <1>2, <1>3 DEF Computing, OutputOK, OutputTo, Nodes
<1>9. NumChunks(N, n) \in Nat /\ NumChunks(N, n) >= N
  BY <1>1, NumChunksFacts
<1>10. ProductOK(n)'
  <2> DEFINE all == NumChunks(N, n)
  <2>1. all' = all
    BY <1>2 DEF NumChunks
  <2> HIDE DEF all
  <2>2. all \in Nat /\ all >= N
    BY <1>9 DEF all
  <2>3. /\ chunk' = N /\ output'[n] = {}
    BY <1>8 DEF Crosses
  <2>4. \A t \in Active : \A c \in Claims(t)' : c < N /\ c < all
    BY <1>2, <1>7, <2>2
  <2>5. \A t, u \in Active : t # u => Claims(t)' \cap Claims(u)' = {}
    BY <1>7
  <2>6. \A c \in 0..(all - 1) : c < N => \E t \in Active : c \in Claims(t)'
    <3> SUFFICES ASSUME NEW c \in 0..(all - 1), c < N PROVE \E t \in Active : c \in Claims(t)'
      OBVIOUS
    <3>1. c \in Active
      BY <1>2, <2>2
    <3> QED BY <1>7, <3>1
  <2>7. \A t \in Active : Place(t)' \in {"first", "compute", "next"}
    BY <1>5
  <2>8. N \in Nat
    BY <1>2
  <2> QED BY <1>2, <2>1, <2>3, <2>4, <2>5, <2>6, <2>7, <2>8 DEF ProductOK, all
<1>11. OutputTo(n, n + 1)'
  <2>1. \A i \in Nodes : Whole(i)' <=> Whole(i)
    BY DEF Whole, NumChunks, Crosses
  <2>2. \A i \in Nodes : i >= n + 1 => i >= n
    BY <1>1, Sizes
  <2> QED BY <1>8, <2>1, <2>2 DEF OutputTo, Crosses
<1>12. OutputOK(r)'
  BY <1>10, <1>11 DEF OutputOK
<1>13. /\ \A t \in Threads \ Active : Place(t)' \in WorkerPlaces
       /\ \A t \in Active \ {0} : work'[t].last = n_graph'
  <2>1. \A t \in Active : Place(t) \notin WorkerPlaces
    BY DEF InBarrier, BarrierPlaces, WorkerPlaces
  <2> QED BY <2>1 DEF Computing, Crosses
<1> QED BY <1>1, <1>2, <1>4, <1>6, <1>12, <1>13 DEF Computing

LEMMA CrossingNode ==
  ASSUME TypeOK, NEW s \in Segments, Computing(s), Crosses, \A t \in Active : InBarrier(t),
         s.part \in {"rows", "product"}, s.node + 1 \in Nodes
  PROVE  \E r \in Segments : Computing(r)'
<1> DEFINE n == s.node + 1
           r == [first |-> n, node |-> n, part |-> "early"]
<1>1. r \in Segments /\ n \in Nodes /\ abort \in {-1, n} /\ s.node \in Nat
  BY SegmentTyped, Sizes DEF Segments, Computing, SegmentOK, Nodes
<1>2. N' = N /\ Active' = Active /\ N > 0 /\ Active \subseteq Threads
  BY Typed DEF Crosses, N, Active, Computing
<1>3. \A t \in Active : /\ Past(t, s) /\ bar[t].ret = "loop"
                        /\ at[t].node = n /\ at[t].nth = N
  BY <1>2, AtTheBarrier DEF Computing, Continues
<1>4. EmptyTo(n, n)
  BY <1>1, Sizes DEF EmptyTo
<1>5. SegmentOK(r)'
  BY <1>1, <1>4 DEF SegmentOK, Crosses
<1>6. \A t \in Active : Place(t)' = "loop" /\ at'[t].node = n /\ at'[t].nth = N
  BY <1>3 DEF Crosses
<1>7. \A t \in Active : InSegment(t, r)'
  BY <1>1, <1>2, <1>4, <1>6 DEF InSegment, Early
<1>8. OutputTo(n, n)'
  <2>1. \A i \in Nodes : Whole(i)' <=> Whole(i)
    BY DEF Whole, NumChunks, Crosses
  <2>2. OutputTo(s.node, s.node + 1) /\ Whole(s.node)
    BY NodeIsWhole DEF Computing, OutputOK
  <2>3. \A i \in Nodes : i < n => i < s.node \/ i = s.node
    BY <1>1, Sizes
  <2> QED BY <2>1, <2>2, <2>3 DEF OutputTo, Crosses
<1>9. OutputOK(r)'
  BY <1>8 DEF OutputOK
<1>10. /\ \A t \in Threads \ Active : Place(t)' \in WorkerPlaces
       /\ \A t \in Active \ {0} : work'[t].last = n_graph'
  <2>1. \A t \in Active : Place(t) \notin WorkerPlaces
    BY DEF InBarrier, BarrierPlaces, WorkerPlaces
  <2> QED BY <2>1 DEF Computing, Crosses
<1> QED BY <1>1, <1>2, <1>5, <1>7, <1>9, <1>10 DEF Computing

LEMMA CrossingOut ==
  ASSUME TypeOK, PendingOK, NEW s \in Segments, Computing(s), Crosses,
         \A t \in Active : InBarrier(t),
         s.part \notin {"early", "enter"}, s.part = "leave" \/ s.node + 1 \notin Nodes,
         ~At(0, "kickoff"), ~At(0, "kickoff")'
  PROVE  Quiet'
<1>1. /\ N' = N /\ Active' = Active /\ N > 0 /\ Active \subseteq Threads /\ 0 \in Active
      /\ n_graph' = n_graph /\ work' = work
  BY Typed, Sizes DEF Crosses, N, Active, Computing
<1>2. \A t \in Active : Place(t)' = Returned(t)
  BY <1>1, AtTheBarrier DEF Computing, Continues, Crosses
<1>3. \A t \in Active : Place(t) \notin WorkerPlaces
  BY DEF InBarrier, BarrierPlaces, WorkerPlaces
<1>4. \A t \in Threads \ {0} :
        Place(t)' \in WorkerPlaces /\ (t \in Active => work[t].last = n_graph)
  BY <1>2, <1>3 DEF Computing, Crosses, Returned, WorkerPlaces
<1>5. \A t \in Threads : ~work[t].pending
  <2>1. ASSUME NEW t \in Threads, work[t].pending PROVE FALSE
    <3>1. pc[t] = "run" /\ t \in Active
      BY <2>1 DEF PendingOK
    <3> QED BY <1>3, <3>1 DEF Place, At, WorkerPlaces
  <2> QED BY <2>1
<1>6. Place(0)' = "idle"
  BY <1>1, <1>2 DEF Returned
<1>7. Result'
  <2>1. \A i \in Nodes : Whole(i)' <=> Whole(i)
    BY DEF Whole, NumChunks, Crosses
  <2>2. s.node \in Nat /\ NumNodes \in Nat /\ \A i \in Nodes : i \in Nat /\ i < NumNodes
    BY SegmentTyped, Sizes DEF Nodes
  <2>3. CASE s.part = "leave"
    <3>1. OutputTo(s.node, s.node) /\ ((s.node = NumNodes /\ abort = -1) \/ abort = s.node)
      BY <2>3 DEF Computing, OutputOK, SegmentOK
    <3>2. Result
      BY <2>2, <3>1 DEF Result, OutputTo
    <3> QED BY <2>1, <3>2 DEF Result, Crosses
  <2>4. CASE s.part \in {"rows", "product"}
    <3>1. OutputTo(s.node, s.node + 1) /\ abort \in {-1, s.node + 1} /\ s.node \in Nodes
      BY <2>4 DEF Computing, OutputOK, SegmentOK
    <3>2. s.node + 1 = NumNodes
      BY <2>2, <2>4, <3>1, Sizes DEF Nodes
    <3>3. Whole(s.node)
      BY <2>4, NodeIsWhole
    <3>4. \A i \in Nodes : i < s.node \/ i = s.node
      BY <2>2, <3>2
    <3>5. \A i \in Nodes : Whole(i) /\ i < NumNodes
      BY <2>2, <3>1, <3>3, <3>4 DEF OutputTo
    <3>6. Result
      BY <3>1, <3>2, <3>5 DEF Result
    <3> QED BY <2>1, <3>6 DEF Result, Crosses
  <2>5. s.part \in {"rows", "product", "leave"}
    BY SegmentTyped
  <2> QED BY <2>3, <2>4, <2>5
<1> QED BY <1>1, <1>4, <1>5, <1>6, <1>7 DEF Quiet, CallerPlaces

LEMMA Crossing ==
  ASSUME TypeOK, PendingOK, NEW s \in Segments, Computing(s), Crosses,
         \A t \in Active : InBarrier(t), ~At(0, "kickoff"), ~At(0, "kickoff")'
  PROVE  Quiet' \/ \E r \in Segments : Computing(r)'
<1>1. 0 \in Active /\ Active \subseteq Threads
  BY Typed, Sizes DEF Computing
<1>2. s.part # "early"
  BY <1>1, AtTheBarrier DEF Computing
<1>3. CASE s.part = "enter"
  BY <1>3, CrossingProduct
<1>4. CASE s.part \in {"rows", "product"} /\ s.node + 1 \in Nodes
  BY <1>4, CrossingNode
<1>5. CASE s.part \notin {"early", "enter"} /\ (s.part = "leave" \/ s.node + 1 \notin Nodes)
  BY <1>5, CrossingOut
<1> QED BY <1>2, <1>3, <1>4, <1>5, SegmentTyped

-----------------------------------------------------------------------------
(* The steps of the barrier.                                               *)

\* A step between two places in the barrier, or out of one that was opened, is
\* no step of the computation.
SamePlaces ==
  /\ n_graph' = n_graph /\ abort' = abort /\ output' = output /\ chunk' = chunk
  /\ work' = work /\ at' = at
  /\ At(0, "kickoff")' <=> At(0, "kickoff")
  /\ \A t \in Threads :
       /\ Place(t)' = Place(t) \/ (InBarrier(t) /\ InBarrier(t)')
       /\ InBarrier(t) => bar'[t].ret = bar[t].ret

LEMMA SamePlacesStay ==
  ASSUME TypeOK, SamePlaces, Quiet \/ \E s \in Segments : Computing(s)
  PROVE  Quiet' \/ \E s \in Segments : Computing(s)'
<1>1. /\ N' = N /\ Active' = Active /\ Active \subseteq Threads /\ 0 \in Threads
      /\ n_graph' = n_graph
  BY Typed, Sizes DEF SamePlaces, N, Active
<1>2. \A i \in Nodes : Whole(i)' <=> Whole(i)
  BY DEF Whole, NumChunks, SamePlaces
<1>3. ASSUME NEW t \in Threads
      PROVE  /\ InBarrier(t)' <=> InBarrier(t)
             /\ ~InBarrier(t) => Place(t)' = Place(t)
             /\ \A p \in WorkerPlaces \cup CallerPlaces
                         \cup {"start", "loop", "first", "compute", "next", "after"} :
                  Place(t)' = p <=> Place(t) = p
  BY DEF SamePlaces, InBarrier, BarrierPlaces, WorkerPlaces, CallerPlaces
<1>4. CASE Quiet
  <2>1. Place(0)' = Place(0)
    BY <1>1, <1>3, <1>4 DEF Quiet, CallerPlaces, InBarrier, BarrierPlaces
  <2>2. \A t \in Threads \ {0} : Place(t)' = Place(t)
    BY <1>3, <1>4 DEF Quiet, WorkerPlaces, InBarrier, BarrierPlaces
  <2>3. Result' <=> Result
    BY <1>2 DEF Result, SamePlaces
  <2> QED BY <1>1, <1>4, <2>1, <2>2, <2>3 DEF Quiet, SamePlaces
<1>5. ASSUME NEW s \in Segments, Computing(s)
      PROVE  Computing(s)'
  <2>1. SegmentOK(s)'
    BY <1>5 DEF Computing, SegmentOK, SamePlaces, EmptyTo
  <2>2. ASSUME NEW t \in Threads
        PROVE  /\ Early(t, s)' <=> Early(t, s)
               /\ Working(t, s)' <=> Working(t, s)
               /\ Past(t, s)' <=> Past(t, s)
               /\ Claims(t)' = Claims(t)
    <3>1. Early(t, s)' <=> Early(t, s)
      BY <1>1, <1>3 DEF Early, ToStart, SamePlaces, WorkerPlaces
    <3>2. Working(t, s)' <=> Working(t, s)
      BY <1>1, <1>3 DEF Working, SamePlaces
    <3>3. Past(t, s)' <=> Past(t, s)
      BY <1>1, <1>3 DEF Past, SamePlaces, Continues, Returned
    <3>4. Claims(t)' = Claims(t)
      BY <1>3 DEF Claims, SamePlaces
    <3> QED BY <3>1, <3>2, <3>3, <3>4
  <2>3. ASSUME ProductOK(s.node) PROVE ProductOK(s.node)'
    <3>1. NumChunks(N, s.node)' = NumChunks(N, s.node)
      BY <1>1 DEF NumChunks
    <3>2. \A t \in Active : Place(t)' \in {"first", "compute", "next"}
                              <=> Place(t) \in {"first", "compute", "next"}
      BY <1>1, <1>3
    <3>3. \A t \in Active : Claims(t)' = Claims(t)
      BY <1>1, <2>2
    <3>4. chunk' = chunk /\ output' = output /\ N' = N /\ Active' = Active
      BY <1>1 DEF SamePlaces
    <3> QED BY <2>3, <3>1, <3>2, <3>3, <3>4 DEF ProductOK
  <2>4. OutputOK(s)'
    <3>1. \A n, m \in Nat : OutputTo(n, m)' <=> OutputTo(n, m)
      BY <1>2 DEF OutputTo, SamePlaces
    <3>2. s.node \in Nat /\ s.node + 1 \in Nat
      BY SegmentTyped
    <3>3. \A t \in Active : (Place(t)' = "after" \/ Past(t, s)') <=> (Place(t) = "after" \/ Past(t, s))
      BY <1>1, <1>3, <2>2
    <3> QED BY <1>1, <1>5, <2>2, <2>3, <3>1, <3>2, <3>3 DEF Computing, OutputOK, SamePlaces
  <2>5. \A t \in Active : InSegment(t, s)'
    BY <1>1, <1>5, <2>2 DEF Computing, InSegment
  <2>6. /\ \A t \in Threads \ Active : Place(t)' \in WorkerPlaces
        /\ \A t \in Active \ {0} : Place(t)' \notin WorkerPlaces => work'[t].last = n_graph'
    BY <1>1, <1>3, <1>5 DEF Computing, SamePlaces
  <2> QED BY <1>1, <1>5, <2>1, <2>4, <2>5, <2>6 DEF Computing
<1> QED BY <1>4, <1>5

LEMMA SpinInv ==
  ASSUME ThreadsInv, NEW t \in Threads, Spin(t)
  PROVE  ThreadsInv'
<1>1. /\ pc[t] = "spin" /\ bar[t].passed # gate.passed /\ TypeOK
      /\ bar[t].ret \in {"idle", "top", "first", "loop"} /\ bar[t].ret \in Places
      /\ Outside \in [width : 0..NumThreads, passed : Nat, ret : {"idle", "top", "first", "loop"}]
  BY ThreadTyped, Sizes DEF ThreadsInv, Places, Outside, Spin, At
<1>2. /\ pc' = [pc EXCEPT ![t] = bar[t].ret] /\ bar' = [bar EXCEPT ![t] = Outside]
      /\ UNCHANGED <<n_graph, gate, flags, chunk, abort, output, at, work>>
  BY DEF Spin, Leave, Goto, Graph
<1>3. TypeOK'
  BY <1>1, <1>2 DEF TypeOK
<1>4. ASSUME NEW u \in Threads
      PROVE  /\ u # t => pc'[u] = pc[u] /\ bar'[u] = bar[u]
             /\ u = t => pc'[u] = bar[t].ret /\ bar'[u] = Outside
             /\ Outside.passed = 0
  BY <1>1, <1>2 DEF TypeOK, Outside
<1>5. ASSUME NEW u \in Threads PROVE Place(u)' = Place(u)
  BY <1>1, <1>2, <1>4 DEF Place, At
<1>6. ~InBarrier(t)
  BY <1>1 DEF InBarrier, Place, BarrierPlaces, At
<1>7. SamePlaces
  <2>1. pc'[0] = "kickoff" <=> pc[0] = "kickoff"
    BY <1>1, <1>4, Sizes
  <2>2. ASSUME NEW u \in Threads, InBarrier(u) PROVE bar'[u].ret = bar[u].ret
    BY <1>4, <1>6, <2>2
  <2> QED BY <1>2, <1>5, <2>1, <2>2 DEF SamePlaces, At
<1>8. GateCounts' /\ PassagesOK'
  <2>1. gate' = gate /\ N' = N
    BY <1>2 DEF N
  <2>2. ASSUME NEW u \in Threads
        PROVE  /\ pc'[u] \in Counted => pc[u] = pc'[u] /\ bar'[u] = bar[u]
               /\ pc[u] \in Counted =>
                    pc'[u] = pc[u] \/ (pc[u] = "spin" /\ bar[u].passed # gate.passed)
               /\ bar'[u].passed \in {bar[u].passed, 0}
    <3>1. CASE u = t
      BY <1>1, <1>4, <3>1 DEF Counted
    <3>2. CASE u # t
      BY <1>4, <3>2
    <3> QED BY <3>1, <3>2
  <2> QED BY <1>1, <2>1, <2>2, BarriersStay DEF ThreadsInv
<1>9. PendingOK'
  BY <1>1, <1>2, <1>4 DEF ThreadsInv, PendingOK, Active
<1> QED BY <1>1, <1>3, <1>7, <1>8, <1>9, SamePlacesStay DEF ThreadsInv

\* Between two places in the barrier, with the same place to go on from.
LEMMA WithinBarrier ==
  ASSUME ThreadsInv, NEW t \in Threads, InBarrier(t), InBarrier(t)', gate'.passed = gate.passed,
         UNCHANGED <<n_graph, chunk, abort, output, at, work>>,
         pc' = [pc EXCEPT ![t] = pc'[t]], bar' = [bar EXCEPT ![t] = bar'[t]],
         bar'[t].ret = bar[t].ret
  PROVE  PendingOK' /\ (Quiet' \/ \E s \in Segments : Computing(s)')
<1>1. \A u \in Threads \ {t} : pc'[u] = pc[u] /\ bar'[u] = bar[u]
  BY DEF ThreadsInv, TypeOK
<1>2. \A u \in Threads \ {t} : Place(u)' = Place(u)
  BY <1>1 DEF Place, At
<1>3. pc[t] \in BarrierPlaces /\ pc'[t] \in BarrierPlaces
  <2>1. pc[t] = "spin" \/ pc[t] = Place(t)
    BY DEF Place, At
  <2>2. pc'[t] = "spin" \/ pc'[t] = Place(t)'
    BY DEF Place, At
  <2> QED BY <2>1, <2>2 DEF InBarrier, BarrierPlaces
<1>4. pc'[0] = "kickoff" <=> pc[0] = "kickoff"
  BY <1>1, <1>3, Sizes DEF BarrierPlaces
<1>5. SamePlaces
  BY <1>1, <1>2, <1>4 DEF SamePlaces, At
<1>6. PendingOK'
  BY <1>1, <1>3 DEF ThreadsInv, PendingOK, Active, BarrierPlaces
<1> QED BY <1>5, <1>6, SamePlacesStay DEF ThreadsInv

\* A graph of one thread has no barrier to wait in.
LEMMA ArriveAlone ==
  ASSUME ThreadsInv, NEW t \in Threads, Arrive(t), n_graph.threads = 1
  PROVE  ThreadsInv'
<1>1. /\ pc[t] = "arrive" /\ TypeOK /\ GateCounts /\ PassagesOK /\ PendingOK
      /\ bar[t].ret \in {"idle", "top", "first", "loop"} /\ bar[t].ret \in Places
      /\ Outside \in [width : 0..NumThreads, passed : Nat, ret : {"idle", "top", "first", "loop"}]
      /\ Outside.passed = 0
  BY ThreadTyped, Sizes DEF ThreadsInv, Places, Outside, Arrive, At
<1>2. /\ pc' = [pc EXCEPT ![t] = bar[t].ret] /\ bar' = [bar EXCEPT ![t] = Outside]
      /\ UNCHANGED <<n_graph, gate, flags, chunk, abort, output, at, work>>
  BY DEF Arrive, Leave, Goto, Graph
<1>3. TypeOK'
  BY <1>1, <1>2 DEF TypeOK
<1>4. ASSUME NEW u \in Threads
      PROVE  /\ u # t => pc'[u] = pc[u] /\ bar'[u] = bar[u]
             /\ u = t => pc'[u] = bar[t].ret /\ bar'[u] = Outside
  BY <1>1, <1>2 DEF TypeOK
<1>5. t \in Active /\ InBarrier(t) /\ \E s \in Segments : Computing(s) /\ Past(t, s)
  BY <1>1, CountedTakePart
<1>6. PICK s \in Segments : Computing(s)
  BY <1>5
<1>7. Active = {0} /\ t = 0
  BY <1>5 DEF Active
<1>8. ASSUME NEW u \in Threads \ {t} PROVE Place(u)' = Place(u)
  BY <1>2, <1>4 DEF Place, At
<1>9. Place(t)' = bar[t].ret
  BY <1>1, <1>4 DEF Place, At
<1>10. Crosses
  BY <1>2, <1>7, <1>8, <1>9 DEF Crosses
<1>11. ~At(0, "kickoff") /\ ~At(0, "kickoff")'
  BY <1>1, <1>4, <1>7 DEF At
<1>12. Quiet' \/ \E r \in Segments : Computing(r)'
  BY <1>1, <1>5, <1>6, <1>7, <1>10, <1>11, Crossing
<1>13. GateCounts' /\ PassagesOK'
  <2>1. gate' = gate /\ N' = N
    BY <1>2 DEF N
  <2>2. ASSUME NEW u \in Threads
        PROVE  /\ pc'[u] \in Counted => pc[u] = pc'[u] /\ bar'[u] = bar[u]
               /\ pc[u] \in Counted =>
                    pc'[u] = pc[u] \/ (pc[u] = "spin" /\ bar[u].passed # gate.passed)
               /\ bar'[u].passed \in {bar[u].passed, 0}
    <3>1. CASE u = t
      BY <1>1, <1>4, <3>1 DEF Counted
    <3>2. CASE u # t
      BY <1>4, <3>2
    <3> QED BY <3>1, <3>2
  <2> QED BY <1>1, <2>1, <2>2, BarriersStay
<1>14. PendingOK'
  BY <1>1, <1>2, <1>4 DEF PendingOK, Active
<1> QED BY <1>3, <1>12, <1>13, <1>14 DEF ThreadsInv

LEMMA ArriveInv ==
  ASSUME ThreadsInv, NEW t \in Threads, Arrive(t)
  PROVE  ThreadsInv'
<1>1. CASE n_graph.threads = 1
  BY <1>1, ArriveAlone
<1>2. CASE n_graph.threads # 1
  <2> DEFINE new == [bar[t] EXCEPT !.width = n_graph.threads, !.passed = gate.passed]
  <2>1. /\ pc[t] = "arrive" /\ TypeOK /\ GateCounts /\ PassagesOK
        /\ InBarrier(t) /\ N \in 0..NumThreads /\ gate.passed \in Nat
        /\ bar[t] \in [width : 0..NumThreads, passed : Nat, ret : {"idle", "top", "first", "loop"}]
    BY CountedTakePart, ThreadTyped, Typed DEF ThreadsInv, Arrive, At
  <2>2. /\ pc' = [pc EXCEPT ![t] = "count"] /\ bar' = [bar EXCEPT ![t] = new]
        /\ UNCHANGED <<n_graph, gate, flags, chunk, abort, output, at, work>>
    <3>1. bar' = [bar EXCEPT ![t].width = n_graph.threads, ![t].passed = gate.passed]
      BY <1>2 DEF Arrive
    <3>2. bar' = [bar EXCEPT ![t] = new]
      BY <2>1, <3>1 DEF TypeOK
    <3> QED BY <1>2, <3>2 DEF Arrive, Goto, Graph
  <2>3. /\ new \in [width : 0..NumThreads, passed : Nat, ret : {"idle", "top", "first", "loop"}]
        /\ new.ret = bar[t].ret /\ new.width = N /\ new.passed = gate.passed
    BY <2>1 DEF N
  <2> HIDE DEF new
  <2>4. TypeOK'
    BY <2>1, <2>2, <2>3 DEF TypeOK, Places
  <2>5. ASSUME NEW u \in Threads
        PROVE  /\ u # t => pc'[u] = pc[u] /\ bar'[u] = bar[u]
               /\ u = t => pc'[u] = "count" /\ bar'[u] = new
    BY <2>1, <2>2 DEF TypeOK
  <2>6. InBarrier(t)'
    BY <2>5 DEF InBarrier, Place, At, BarrierPlaces
  <2>7. PendingOK' /\ (Quiet' \/ \E s \in Segments : Computing(s)')
    BY <2>1, <2>2, <2>3, <2>5, <2>6, WithinBarrier
  <2>8. Spinning' = Spinning
    BY <2>1, <2>2, <2>5 DEF Spinning, At
  <2>9. GateCounts'
    <3>1. \A u \in Threads : pc'[u] \in {"count", "reset"} => bar'[u].width = N
      BY <2>1, <2>3, <2>5 DEF GateCounts, N
    <3>2. \A u \in Threads : pc'[u] \in {"reset", "open"} <=> pc[u] \in {"reset", "open"}
      BY <2>1, <2>5
    <3>3. \A u \in Threads : pc[u] \in {"reset", "open"} => pc'[u] = pc[u]
      BY <2>1, <2>5
    <3>4. Active' = Active /\ gate' = gate /\ n_graph' = n_graph
      BY <2>2 DEF Active
    <3> QED BY <2>1, <2>8, <3>1, <3>2, <3>3, <3>4 DEF GateCounts, At, N
  <2>10. PassagesOK'
    BY <2>1, <2>2, <2>3, <2>5 DEF PassagesOK, N
  <2> QED BY <2>4, <2>7, <2>9, <2>10 DEF ThreadsInv
<1> QED BY <1>1, <1>2

\* Somebody about to open the barrier: all others spin for it.
LEMMA LastOne ==
  ASSUME ThreadsInv, NEW t \in Threads, pc[t] \in {"reset", "open"}
  PROVE  /\ Spinning = Active \ {t} /\ t \in Active
         /\ gate.count = IF pc[t] = "reset" THEN N ELSE 0
         /\ \A u \in Threads \ {t} : pc[u] \notin {"count", "reset", "open"}
<1>1. ASSUME NEW u \in Threads, pc[u] \in {"count", "reset", "open"}
      PROVE  u \in Active /\ u \notin Spinning
  BY <1>1, CountedTakePart DEF Counted, Spinning, At
<1>2. PICK w \in Threads :
        /\ pc[w] \in {"reset", "open"}
        /\ gate.count = IF pc[w] = "reset" THEN N ELSE 0
        /\ Spinning = Active \ {w}
  BY DEF ThreadsInv, GateCounts, At, N
<1>3. \A u \in Threads : pc[u] \in {"count", "reset", "open"} => u = w
  BY <1>1, <1>2
<1> QED BY <1>1, <1>2, <1>3

LEMMA CountInv ==
  ASSUME ThreadsInv, NEW t \in Threads, Count(t)
  PROVE  ThreadsInv'
<1> DEFINE to == IF gate.count = bar[t].width - 1 THEN "reset" ELSE "spin"
<1>1. /\ pc[t] = "count" /\ TypeOK /\ GateCounts /\ PassagesOK /\ t \in Active /\ InBarrier(t)
      /\ bar[t].width = N /\ bar[t].passed = gate.passed
      /\ gate.count \in Nat /\ gate.passed \in Nat /\ N \in Nat
      /\ gate \in [count : Nat, passed : Nat]
  BY CountedTakePart, Typed DEF ThreadsInv, PassagesOK, Count, At, Counted, TypeOK
<1>2. /\ pc' = [pc EXCEPT ![t] = to] /\ gate' = [gate EXCEPT !.count = gate.count + 1]
      /\ UNCHANGED <<n_graph, flags, chunk, abort, output, at, bar, work>>
  BY DEF Count, Goto, Graph
<1>3. to \in {"reset", "spin"}
  OBVIOUS
<1>4. gate' \in [count : Nat, passed : Nat] /\ gate'.count = gate.count + 1
      /\ gate'.passed = gate.passed
  BY <1>1, <1>2
<1> HIDE DEF to
<1>5. TypeOK'
  BY <1>1, <1>2, <1>3, <1>4 DEF TypeOK, Places
<1>6. ASSUME NEW u \in Threads
      PROVE  /\ u # t => pc'[u] = pc[u]
             /\ u = t => pc'[u] = to
  BY <1>1, <1>2 DEF TypeOK
<1>7. InBarrier(t)'
  BY <1>1, <1>2, <1>3, <1>4, <1>6 DEF InBarrier, Place, At, BarrierPlaces
<1>8. PendingOK' /\ (Quiet' \/ \E s \in Segments : Computing(s)')
  <2>1. /\ pc' = [pc EXCEPT ![t] = pc'[t]] /\ bar' = [bar EXCEPT ![t] = bar'[t]]
        /\ bar'[t].ret = bar[t].ret
    BY <1>1, <1>2, <1>6 DEF TypeOK
  <2> QED BY <1>1, <1>2, <1>4, <1>7, <2>1, WithinBarrier
<1>9. \A u \in Threads : pc[u] \notin {"reset", "open"}
  BY <1>1, LastOne
<1>10. gate.count = Cardinality(Spinning)
  BY <1>1, <1>9 DEF GateCounts
<1>11. t \notin Spinning /\ Spinning \subseteq Active \ {t}
  <2>1. \A u \in Spinning : u \in Active
    BY CountedTakePart DEF Spinning, At, Counted
  <2> QED BY <1>1, <2>1 DEF Spinning, At
<1>12. IsFiniteSet(Spinning) /\ IsFiniteSet(Active) /\ Cardinality(Active) = N
  BY <1>1, SpinningFacts
<1>13. Active' = Active /\ N' = N /\ n_graph' = n_graph
  BY <1>2 DEF Active, N
<1>14. PassagesOK'
  BY <1>1, <1>2, <1>3, <1>4, <1>6, <1>13 DEF ThreadsInv, PassagesOK
<1>15. CASE gate.count = N - 1
  <2>1. to = "reset"
    BY <1>1, <1>15 DEF to
  <2>2. Spinning' = Spinning
    BY <1>1, <1>2, <1>4, <1>6, <2>1 DEF Spinning, At
  <2>3. IsFiniteSet(Active \ {t}) /\ Cardinality(Active \ {t}) = N - 1
    BY <1>1, <1>12, FS_RemoveElement
  <2>4. Spinning = Active \ {t}
    BY <1>10, <1>11, <1>15, <2>3, FS_Subset
  <2>5. gate'.count = N
    BY <1>1, <1>4, <1>15
  <2>6. \A u \in Threads : pc'[u] \in {"count", "reset"} => bar'[u].width = N
    BY <1>1, <1>2, <1>6 DEF GateCounts, N
  <2>7. GateCounts'
    <3>1. pc'[t] = "reset"
      BY <1>6, <2>1
    <3> QED BY <1>13, <2>2, <2>4, <2>5, <2>6, <3>1 DEF GateCounts, At, N
  <2> QED BY <1>5, <1>8, <1>14, <2>7 DEF ThreadsInv
<1>16. CASE gate.count # N - 1
  <2>1. to = "spin"
    BY <1>1, <1>16 DEF to
  <2>2. Spinning' = Spinning \cup {t}
    BY <1>1, <1>2, <1>4, <1>6, <2>1 DEF Spinning, At
  <2>3. Cardinality(Spinning') = gate.count + 1
    BY <1>10, <1>11, <1>12, <2>2, FS_AddElement
  <2>4. \A u \in Threads : pc'[u] \in {"count", "reset"} => bar'[u].width = N
    BY <1>1, <1>2, <1>6, <2>1 DEF GateCounts, N
  <2>5. \A u \in Threads : pc'[u] \notin {"reset", "open"}
    BY <1>6, <1>9, <2>1
  <2>6. GateCounts'
    BY <1>4, <1>13, <2>3, <2>4, <2>5 DEF GateCounts, N
  <2> QED BY <1>5, <1>8, <1>14, <2>6 DEF ThreadsInv
<1> QED BY <1>15, <1>16

LEMMA ResetInv ==
  ASSUME ThreadsInv, NEW t \in Threads, ResetBarrier(t)
  PROVE  ThreadsInv'
<1>1. /\ pc[t] = "reset" /\ TypeOK /\ GateCounts /\ PassagesOK /\ t \in Active /\ InBarrier(t)
      /\ gate.passed \in Nat /\ gate \in [count : Nat, passed : Nat]
      /\ bar[t].passed = gate.passed /\ bar[t].width = N
  BY CountedTakePart, Typed DEF ThreadsInv, PassagesOK, ResetBarrier, At, Counted, TypeOK
<1>2. /\ pc' = [pc EXCEPT ![t] = "open"] /\ gate' = [gate EXCEPT !.count = 0]
      /\ UNCHANGED <<n_graph, flags, chunk, abort, output, at, bar, work>>
  BY DEF ResetBarrier, Goto, Graph
<1>3. gate' \in [count : Nat, passed : Nat] /\ gate'.count = 0 /\ gate'.passed = gate.passed
  BY <1>1, <1>2
<1>4. TypeOK'
  BY <1>1, <1>2, <1>3 DEF TypeOK, Places
<1>5. ASSUME NEW u \in Threads
      PROVE  /\ u # t => pc'[u] = pc[u]
             /\ u = t => pc'[u] = "open"
  BY <1>1, <1>2 DEF TypeOK
<1>6. InBarrier(t)'
  BY <1>5 DEF InBarrier, Place, At, BarrierPlaces
<1>7. PendingOK' /\ (Quiet' \/ \E s \in Segments : Computing(s)')
  <2>1. /\ pc' = [pc EXCEPT ![t] = pc'[t]] /\ bar' = [bar EXCEPT ![t] = bar'[t]]
        /\ bar'[t].ret = bar[t].ret
    BY <1>1, <1>2, <1>5 DEF TypeOK
  <2> QED BY <1>1, <1>2, <1>3, <1>6, <2>1, WithinBarrier
<1>8. Active' = Active /\ N' = N /\ n_graph' = n_graph
  BY <1>2 DEF Active, N
<1>9. Spinning' = Spinning
  BY <1>1, <1>2, <1>3, <1>5 DEF Spinning, At
<1>10. GateCounts'
  <2>1. \A u \in Threads : pc'[u] \in {"count", "reset"} => bar'[u].width = N
    BY <1>1, <1>2, <1>5 DEF GateCounts, N
  <2>2. pc'[t] = "open" /\ Spinning = Active \ {t}
    BY <1>1, <1>5, LastOne
  <2> QED BY <1>3, <1>8, <1>9, <2>1, <2>2 DEF GateCounts, At, N
<1>11. PassagesOK'
  BY <1>1, <1>2, <1>3, <1>5, <1>8 DEF PassagesOK
<1> QED BY <1>4, <1>7, <1>10, <1>11 DEF ThreadsInv

LEMMA OpenInv ==
  ASSUME ThreadsInv, NEW t \in Threads, Open(t)
  PROVE  ThreadsInv'
<1>1. /\ pc[t] = "open" /\ TypeOK /\ PassagesOK /\ PendingOK /\ t \in Active /\ InBarrier(t)
      /\ gate.passed \in Nat /\ gate \in [count : Nat, passed : Nat]
      /\ bar[t].ret \in {"idle", "top", "first", "loop"} /\ bar[t].ret \in Places
      /\ Outside \in [width : 0..NumThreads, passed : Nat, ret : {"idle", "top", "first", "loop"}]
      /\ Outside.passed = 0
  BY CountedTakePart, Typed, ThreadTyped, Sizes
     DEF ThreadsInv, Open, At, Counted, TypeOK, Places, Outside
<1>2. /\ pc' = [pc EXCEPT ![t] = bar[t].ret] /\ bar' = [bar EXCEPT ![t] = Outside]
      /\ gate' = [gate EXCEPT !.passed = gate.passed + 1]
      /\ UNCHANGED <<n_graph, flags, chunk, abort, output, at, work>>
  BY DEF Open, Leave, Goto, Graph
<1>3. /\ gate' \in [count : Nat, passed : Nat] /\ gate'.count = gate.count
      /\ gate'.passed = gate.passed + 1
  BY <1>1, <1>2
<1>4. TypeOK'
  BY <1>1, <1>2, <1>3 DEF TypeOK
<1>5. ASSUME NEW u \in Threads
      PROVE  /\ u # t => pc'[u] = pc[u] /\ bar'[u] = bar[u]
             /\ u = t => pc'[u] = bar[t].ret /\ bar'[u] = Outside
  BY <1>1, <1>2 DEF TypeOK
<1>6. /\ Spinning = Active \ {t} /\ gate.count = 0
      /\ \A u \in Threads \ {t} : pc[u] \notin {"count", "reset", "open"}
  BY <1>1, LastOne
<1>7. PICK s \in Segments : Computing(s)
  BY <1>1, CountedTakePart DEF Counted
<1>8. ASSUME NEW u \in Threads
      PROVE  /\ u \in Active => InBarrier(u) /\ Place(u)' = bar[u].ret
             /\ u \notin Active => Place(u)' = Place(u)
  <2>1. bar[u].passed \in Nat /\ bar[u].passed <= gate.passed
    BY <1>1, ThreadTyped DEF PassagesOK
  <2>2. CASE u = t
    BY <1>1, <1>5, <2>2 DEF Place, At
  <2>3. CASE u \in Active \ {t}
    <3>1. pc[u] = "spin" /\ bar[u].passed = gate.passed
      BY <1>6, <2>3 DEF Spinning, At
    <3>2. InBarrier(u)
      BY <3>1 DEF InBarrier, Place, At, BarrierPlaces
    <3>3. pc'[u] = "spin" /\ bar'[u] = bar[u] /\ bar[u].passed # gate'.passed
      BY <1>1, <1>3, <1>5, <2>3, <3>1
    <3> QED BY <2>3, <3>2, <3>3 DEF Place, At
  <2>4. CASE u \notin Active
    <3>1. pc[u] = "spin" => bar[u].passed # gate.passed
      BY <1>6, <2>4 DEF Spinning, At
    <3>2. pc'[u] = pc[u] /\ bar'[u] = bar[u] /\ bar[u].passed # gate'.passed
      BY <1>1, <1>3, <1>5, <2>1, <2>4
    <3> QED BY <2>4, <3>1, <3>2 DEF Place, At
  <2> QED BY <2>2, <2>3, <2>4
<1>9. Active \subseteq Threads
  BY <1>1, Typed
<1>10. Crosses
  BY <1>2, <1>8, <1>9 DEF Crosses
<1>11. ~At(0, "kickoff") /\ ~At(0, "kickoff")'
  <2>1. 0 \in Active /\ 0 \in Threads
    BY <1>1, <1>7, Typed, Sizes DEF Computing
  <2>2. pc[0] # "kickoff"
    BY <1>8, <2>1 DEF InBarrier, Place, At, BarrierPlaces
  <2> QED BY <1>1, <1>5, <2>1, <2>2 DEF At
<1>12. Quiet' \/ \E r \in Segments : Computing(r)'
  BY <1>1, <1>7, <1>8, <1>9, <1>10, <1>11, Crossing
<1>13. \A u \in Threads : pc'[u] \notin {"count", "reset", "open"}
  BY <1>1, <1>5, <1>6
<1>14. GateCounts'
  <2>1. Spinning' = {}
    <3> SUFFICES ASSUME NEW u \in Threads, pc'[u] = "spin", bar'[u].passed = gate'.passed
                 PROVE  FALSE
      BY DEF Spinning, At
    <3>1. u # t
      BY <1>1, <1>5
    <3>2. bar[u].passed \in Nat /\ bar[u].passed <= gate.passed
      BY <1>1, ThreadTyped DEF PassagesOK
    <3> QED BY <1>1, <1>3, <1>5, <3>1, <3>2
  <2>2. Cardinality({}) = 0
    BY FS_EmptySet
  <2> QED BY <1>3, <1>6, <1>13, <2>1, <2>2 DEF GateCounts
<1>15. PassagesOK'
  <2>1. ASSUME NEW u \in Threads PROVE bar'[u].passed <= gate'.passed
    BY <1>1, <1>3, <1>5, ThreadTyped DEF PassagesOK
  <2> QED BY <1>13, <2>1 DEF PassagesOK
<1>16. PendingOK'
  BY <1>1, <1>2, <1>5 DEF PendingOK, Active
<1> QED BY <1>4, <1>12, <1>14, <1>15, <1>16 DEF ThreadsInv

-----------------------------------------------------------------------------
(* The steps of the computation.                                           *)

\* A step of one thread in a segment that touches no barrier's counter.
Steps(t) ==
  /\ OnlyMoves(t) /\ work' = work
  /\ pc[t] \notin Counted /\ pc'[t] \notin Counted
  /\ bar'[t].passed = bar[t].passed

\* What is left to show of such a step.
LEMMA StepInv ==
  ASSUME ThreadsInv, NEW t \in Threads, Steps(t), TypeOK', t \in Active,
         Place(t) \notin WorkerPlaces, Place(t)' \notin WorkerPlaces,
         NEW s \in Segments, Computing(s), NEW r \in Segments,
         SegmentOK(r)', OutputOK(r)', InSegment(t, r)',
         \A u \in Active \ {t} : InSegment(u, r)'
  PROVE  ThreadsInv'
<1>1. /\ N' = N /\ Active' = Active /\ n_graph' = n_graph /\ gate' = gate /\ work' = work
      /\ Active \subseteq Threads
  BY Typed DEF Steps, OnlyMoves, N, Active, ThreadsInv
<1>2. \A u \in Threads \ {t} : Place(u)' = Place(u)
  BY DEF Steps, OnlyMoves, Place, At
<1>3. \A u \in Threads \ {t} : pc'[u] = pc[u] /\ bar'[u] = bar[u]
  BY DEF Steps, OnlyMoves
<1>4. Computing(r)'
  <2>1. \A u \in Threads \ Active : Place(u)' \in WorkerPlaces
    BY <1>2 DEF Computing
  <2>2. \A u \in Active \ {0} : Place(u)' \notin WorkerPlaces => work[u].last = n_graph
    BY <1>1, <1>2 DEF Computing
  <2> QED BY <1>1, <2>1, <2>2 DEF Computing
<1>5. GateCounts' /\ PassagesOK'
  <2>1. ASSUME NEW u \in Threads
        PROVE  /\ pc'[u] \in Counted => pc[u] = pc'[u] /\ bar'[u] = bar[u]
               /\ pc[u] \in Counted =>
                    pc'[u] = pc[u] \/ (pc[u] = "spin" /\ bar[u].passed # gate.passed)
               /\ bar'[u].passed \in {bar[u].passed, 0}
    <3>1. CASE u = t
      BY <3>1 DEF Steps
    <3>2. CASE u # t
      BY <1>3, <3>2
    <3> QED BY <3>1, <3>2
  <2> QED BY <1>1, <2>1, BarriersStay DEF ThreadsInv
<1>6. PendingOK'
  <2>1. pc[t] # "run"
    BY DEF Place, At, WorkerPlaces
  <2> QED BY <1>1, <1>3, <2>1 DEF ThreadsInv, PendingOK
<1> QED BY <1>4, <1>5, <1>6 DEF ThreadsInv

Passages == [width : 0..NumThreads, passed : Nat, ret : {"idle", "top", "first", "loop"}]
Counters == [node : 0..NumNodes, nth : 0..NumThreads, mine : Nat]

\* A step of one thread, by what it assigns.
LEMMA Move ==
  ASSUME TypeOK, NEW t \in Threads, NEW place \in Places,
         NEW a \in Counters, NEW b \in Passages,
         pc' = [pc EXCEPT ![t] = place], at' = [at EXCEPT ![t] = a],
         bar' = [bar EXCEPT ![t] = b], b.passed = bar[t].passed,
         n_graph' = n_graph, gate' = gate, flags' = flags, work' = work,
         chunk' \in Nat, abort' \in Nodes \cup {-1, NumNodes},
         output' \in [Nodes -> SUBSET Nat],
         pc[t] \notin Counted, place \notin Counted
  PROVE  /\ TypeOK' /\ Steps(t) /\ N' = N /\ Active' = Active
         /\ pc'[t] = place /\ Place(t)' = place /\ at'[t] = a /\ bar'[t] = b
<1>1. TypeOK'
  BY DEF TypeOK, Passages, Counters
<1>2. /\ pc'[t] = place /\ at'[t] = a /\ bar'[t] = b
      /\ \A u \in Threads \ {t} : pc'[u] = pc[u] /\ at'[u] = at[u] /\ bar'[u] = bar[u]
  BY DEF TypeOK
<1>3. Steps(t)
  BY <1>2 DEF Steps, OnlyMoves
<1>4. Place(t)' = place
  BY <1>2 DEF Place, At, Counted
<1> QED BY <1>1, <1>2, <1>3, <1>4 DEF N, Active

\* What a call of the barrier, and a step without one, do to bar.
LEMMA CallFacts ==
  ASSUME TypeOK, NEW t \in Threads
  PROVE  /\ bar[t] \in Passages /\ bar = [bar EXCEPT ![t] = bar[t]]
         /\ pc = [pc EXCEPT ![t] = pc[t]] /\ at = [at EXCEPT ![t] = at[t]]
         /\ \A ret \in {"idle", "top", "first", "loop"} : \E b \in Passages :
              /\ b.ret = ret /\ b.passed = bar[t].passed
              /\ [bar EXCEPT ![t].ret = ret] = [bar EXCEPT ![t] = b]
<1>1. bar[t] \in Passages
  BY ThreadTyped DEF Passages
<1>2. ASSUME NEW ret \in {"idle", "top", "first", "loop"}
      PROVE  \E b \in Passages : /\ b.ret = ret /\ b.passed = bar[t].passed
                                 /\ [bar EXCEPT ![t].ret = ret] = [bar EXCEPT ![t] = b]
  <2> DEFINE c == [bar[t] EXCEPT !.ret = ret]
  <2>1. c \in Passages /\ c.ret = ret /\ c.passed = bar[t].passed
    BY <1>1 DEF Passages
  <2>2. [bar EXCEPT ![t].ret = ret] = [bar EXCEPT ![t] = c]
    BY DEF TypeOK
  <2> HIDE DEF c
  <2> QED BY <2>1, <2>2
<1> QED BY <1>1, <1>2 DEF TypeOK

\* A thread in the part of the computation between two barriers.
Computes == {"start", "loop", "first", "compute", "next", "after"}

LEMMA ComputesFacts ==
  ASSUME ThreadsInv, NEW t \in Threads, pc[t] \in Computes
  PROVE  /\ TypeOK /\ Place(t) = pc[t] /\ pc[t] \notin Counted
         /\ Place(t) \notin WorkerPlaces \cup CallerPlaces \cup BarrierPlaces
         /\ t \in Active /\ ~ToStart(t) /\ ~InBarrier(t)
         /\ at[t] \in Counters
         /\ bar[t].ret \in {"idle", "top", "first", "loop"}
         /\ N \in Nat /\ N \in 0..NumThreads /\ N > 0 /\ Active = 0..(N - 1)
         /\ Active \subseteq Threads /\ t \in Nat /\ t < N
         /\ \E s \in Segments : Computing(s) /\ InSegment(t, s)
<1>1. Place(t) = pc[t] /\ pc[t] \notin Counted
  BY DEF Place, At, Computes, Counted
<1>2. Place(t) \notin WorkerPlaces \cup CallerPlaces \cup BarrierPlaces
  BY <1>1 DEF WorkerPlaces, CallerPlaces, BarrierPlaces, Computes
<1>3. TypeOK
  BY DEF ThreadsInv
<1>4. PICK s \in Segments : t \in Active /\ Computing(s) /\ InSegment(t, s)
  BY <1>2, InGraph
<1>5. N > 0 /\ Active = 0..(N - 1)
  BY <1>4 DEF Computing, N, Active
<1> QED BY <1>1, <1>2, <1>3, <1>4, <1>5, Typed, ThreadTyped, Sizes
       DEF ToStart, InBarrier, Counters

\* The results of a segment, after a step that computes nothing.
LEMMA OutputStays ==
  ASSUME NEW t \in Active, OnlyMoves(t), Active \subseteq Threads,
         output' = output, chunk' = chunk,
         NEW s \in Segments, OutputOK(s),
         Claims(t)' = Claims(t),
         (Place(t) = "after" \/ Past(t, s))' <=> (Place(t) = "after" \/ Past(t, s)),
         s.part = "enter" /\ t = 0 => ~Past(t, s)',
         Place(t)' \in {"first", "compute", "next"} <=> Place(t) \in {"first", "compute", "next"}
  PROVE  OutputOK(s)'
<1>1. N' = N /\ Active' = Active
  BY DEF OnlyMoves, N, Active
<1>2. \A u \in Threads \ {t} : Place(u)' = Place(u) /\ Claims(u)' = Claims(u)
                               /\ (Past(u, s)' <=> Past(u, s))
  BY OthersStay
<1>3. \A u \in Active : Claims(u)' = Claims(u)
  BY <1>2
<1>4. \A u \in Active : (Place(u) = "after" \/ Past(u, s))' <=> (Place(u) = "after" \/ Past(u, s))
  BY <1>2
<1>5. \A u \in Active : Place(u)' \in {"first", "compute", "next"}
                          <=> Place(u) \in {"first", "compute", "next"}
  BY <1>2
<1>6. \A n, m : OutputTo(n, m)' <=> OutputTo(n, m)
  BY <1>1 DEF OutputTo, Whole, NumChunks, N
<1>7. s.part = "enter" /\ Past(0, s)' => chunk = N
  BY <1>2, Sizes DEF OutputOK
<1>8. ASSUME s.part = "rows"
      PROVE  output[s.node] = {u \in Active : (Place(u) = "after" \/ Past(u, s))'}
  BY <1>4, <1>8 DEF OutputOK
<1>9. ASSUME s.part = "product"
      PROVE  ProductOK(s.node)'
  <2>1. ProductOK(s.node)
    BY <1>9 DEF OutputOK
  <2>2. NumChunks(N, s.node)' = NumChunks(N, s.node)
    BY <1>1 DEF NumChunks
  <2> QED BY <1>1, <1>3, <1>5, <2>1, <2>2 DEF ProductOK
<1> QED BY <1>1, <1>6, <1>7, <1>8, <1>9 DEF OutputOK

\* A thread that has found its node stands at that of the segment.
LEMMA LoopNode ==
  ASSUME TypeOK, NEW t \in Threads, NEW s \in Segments, SegmentOK(s), InSegment(t, s),
         Place(t) = "loop", at[t].node \in Nodes, abort # at[t].node
  PROVE  /\ Early(t, s) /\ at[t].nth = N /\ s.part # "product"
         /\ at[t].node >= s.first /\ EmptyTo(s.first, at[t].node)
         /\ s.part = "early" => abort = -1
         /\ Kind[at[t].node] # "empty" =>
              s.part = "early" \/ (s.part \in {"enter", "rows"} /\ at[t].node = s.node)
<1> DEFINE n == at[t].node
<1>1. /\ n \in Nat /\ n < NumNodes /\ n \in Nodes /\ s.first \in Nat /\ s.node \in Nat
      /\ s.part \in {"early", "enter", "rows", "product", "leave"}
  BY Sizes, SegmentTyped DEF Nodes
<1>2. Early(t, s) /\ n >= s.first /\ EmptyTo(s.first, n) /\ at[t].nth = N /\ s.part # "product"
      /\ (abort = s.first => n = s.first)
  <2>1. ~Working(t, s)
    BY DEF Working
  <2>2. ~Past(t, s)
    BY <1>1 DEF Past, InBarrier, BarrierPlaces
  <2>3. Early(t, s)
    BY <2>1, <2>2 DEF InSegment
  <2> QED BY <2>3 DEF Early, ToStart, WorkerPlaces
<1>3. ASSUME s.part = "early" PROVE abort = -1
  BY <1>2, <1>3 DEF SegmentOK
<1>4. ASSUME Kind[n] # "empty"
      PROVE  s.part = "early" \/ (s.part \in {"enter", "rows"} /\ n = s.node)
  <2>1. s.node \in Nodes => (n <= s.node /\ s.node <= n) \/ Kind[s.node] = "empty"
    BY <1>1, <1>2, <1>4 DEF SegmentOK, EmptyTo
  <2>2. s.part = "leave" => FALSE
    BY <1>1, <1>2, <1>4 DEF SegmentOK, EmptyTo
  <2>3. s.part \in {"enter", "rows"} => n = s.node
    BY <1>1, <2>1 DEF SegmentOK
  <2> QED BY <1>1, <1>2, <2>2, <2>3
<1> QED BY <1>1, <1>2, <1>3, <1>4

\* Empty nodes have their results.
LEMMA EmptyOutput ==
  ASSUME NEW first \in Nat, NEW n \in Nat, first <= n, EmptyTo(first, n),
         OutputTo(first, first)
  PROVE  OutputTo(n, n)
<1> SUFFICES ASSUME NEW i \in Nodes
             PROVE  (i < n => Whole(i)) /\ (i >= n => output[i] = {})
  BY DEF OutputTo
<1>1. i \in Nat /\ (i < first => Whole(i)) /\ (i >= first => output[i] = {})
  BY Sizes DEF OutputTo
<1>2. first <= i /\ i < n => Whole(i)
  BY <1>1 DEF EmptyTo, Whole
<1> QED BY <1>1, <1>2

\* A thread that is early is not through with any node.
LEMMA EarlyFacts ==
  ASSUME NEW u \in Threads, NEW s \in Segments, SegmentOK(s), s.part = "early", InSegment(u, s)
  PROVE  /\ Early(u, s) /\ ~InBarrier(u) /\ Place(u) # "after"
         /\ \A r \in Segments : r.first = s.first /\ r.part # "product" => Early(u, r)
         /\ Claims(u) = {}
<1>1. Early(u, s)
  BY DEF InSegment, Working, Past
<1>2. Place(u) \in WorkerPlaces \cup {"start", "loop"}
  BY <1>1 DEF Early, ToStart
<1>3. ~InBarrier(u) /\ Place(u) # "after" /\ Claims(u) = {}
  BY <1>2 DEF InBarrier, BarrierPlaces, WorkerPlaces, Claims
<1>4. \A r \in Segments : r.first = s.first /\ r.part # "product" => Early(u, r)
  BY <1>1 DEF Early
<1> QED BY <1>1, <1>3, <1>4

LEMMA StartInv ==
  ASSUME ThreadsInv, NEW t \in Threads, Start(t)
  PROVE  ThreadsInv'
<1> DEFINE a == [Nowhere EXCEPT !.nth = n_graph.threads]
<1>1. pc[t] = "start" /\ pc[t] \in Computes
  BY DEF Start, At, Computes
<1>2. PICK s \in Segments : Computing(s) /\ InSegment(t, s)
  BY <1>1, ComputesFacts
<1>3. a \in Counters /\ a.node = 0 /\ a.nth = N
  BY <1>1, ComputesFacts, Sizes DEF Nowhere, N, Counters
<1>4. /\ at' = [at EXCEPT ![t] = a] /\ pc' = [pc EXCEPT ![t] = "loop"]
      /\ UNCHANGED <<n_graph, gate, flags, chunk, abort, output, bar, work>>
  BY DEF Start, Goto, Graph
<1> HIDE DEF a
<1>5. /\ TypeOK' /\ Steps(t) /\ N' = N /\ Active' = Active
      /\ Place(t)' = "loop" /\ at'[t] = a
  <2>1. TypeOK
    BY DEF ThreadsInv
  <2>2. /\ chunk' \in Nat /\ abort' \in Nodes \cup {-1, NumNodes}
        /\ output' \in [Nodes -> SUBSET Nat]
        /\ bar[t] \in Passages /\ bar' = [bar EXCEPT ![t] = bar[t]]
    BY <1>4, <2>1, CallFacts DEF TypeOK
  <2>3. "loop" \in Places /\ "loop" \notin Counted /\ pc[t] \notin Counted
    BY <1>1 DEF Places, Counted
  <2> QED BY <1>3, <1>4, <2>1, <2>2, <2>3, Move, ZenonT(30)
<1>6. Early(t, s) /\ s.first = 0 /\ s.part # "product"
  BY <1>1, <1>2, ComputesFacts DEF InSegment, Early, Working, Past
<1>7. SegmentOK(s)'
  BY <1>2, <1>4 DEF Computing, SegmentOK, EmptyTo
<1>8. InSegment(t, s)'
  BY <1>3, <1>5, <1>6, Sizes DEF InSegment, Early, EmptyTo, Nodes
<1>9. \A u \in Active \ {t} : InSegment(u, s)'
  BY <1>1, <1>2, <1>4, <1>5, ComputesFacts, OthersStay DEF Computing, Steps
<1>10. OutputOK(s)'
  <2>1. ~Past(t, s) /\ ~Past(t, s)'
    BY <1>1, <1>3, <1>5, ComputesFacts, Sizes DEF Past, InBarrier, BarrierPlaces
  <2>2. Claims(t)' = Claims(t)
    BY <1>1, <1>5, ComputesFacts DEF Claims
  <2> QED BY <1>1, <1>2, <1>4, <1>5, <2>1, <2>2, ComputesFacts, OutputStays DEF Computing, Steps
<1> QED BY <1>1, <1>2, <1>5, <1>7, <1>8, <1>9, <1>10, ComputesFacts, StepInv DEF WorkerPlaces

LEMMA SkipEmptyInv ==
  ASSUME ThreadsInv, NEW t \in Threads, SkipEmpty(t)
  PROVE  ThreadsInv'
<1> DEFINE n == at[t].node
           a == [at[t] EXCEPT !.node = n + 1]
<1>1. /\ pc[t] = "loop" /\ pc[t] \in Computes /\ n \in Nodes /\ abort # n
      /\ Kind[n] = "empty"
  BY DEF SkipEmpty, At, Computes
<1>2. PICK s \in Segments : Computing(s) /\ InSegment(t, s)
  BY <1>1, ComputesFacts
<1>3. /\ Early(t, s) /\ at[t].nth = N /\ n >= s.first /\ EmptyTo(s.first, n)
      /\ s.part # "product"
  BY <1>1, <1>2, ComputesFacts, LoopNode DEF Computing
<1>4. a \in Counters /\ a.node = n + 1 /\ a.nth = N /\ n \in Nat /\ n < NumNodes
  <2>1. n \in Nat /\ n < NumNodes /\ n + 1 \in 0..NumNodes
    BY <1>1, Sizes DEF Nodes
  <2>2. at[t] \in Counters
    BY <1>1, ComputesFacts
  <2> QED BY <1>3, <2>1, <2>2 DEF Counters
<1>5. /\ at' = [at EXCEPT ![t] = a]
      /\ UNCHANGED <<n_graph, gate, flags, chunk, abort, output, pc, bar, work>>
  <2>1. at' = [at EXCEPT ![t].node = at[t].node + 1]
    BY DEF SkipEmpty
  <2>2. at' = [at EXCEPT ![t] = a]
    BY <1>1, <2>1, ComputesFacts DEF TypeOK
  <2> QED BY <2>2 DEF SkipEmpty, Graph
<1> HIDE DEF a
<1>6. /\ TypeOK' /\ Steps(t) /\ N' = N /\ Active' = Active
      /\ Place(t)' = "loop" /\ at'[t] = a
  <2>1. TypeOK
    BY DEF ThreadsInv
  <2>2. /\ chunk' \in Nat /\ abort' \in Nodes \cup {-1, NumNodes}
        /\ output' \in [Nodes -> SUBSET Nat]
        /\ bar[t] \in Passages /\ bar' = [bar EXCEPT ![t] = bar[t]]
        /\ pc' = [pc EXCEPT ![t] = "loop"]
    <3>1. /\ bar[t] \in Passages /\ bar' = [bar EXCEPT ![t] = bar[t]]
          /\ pc' = [pc EXCEPT ![t] = "loop"]
      BY <1>1, <1>5, <2>1, CallFacts
    <3> QED BY <1>5, <2>1, <3>1 DEF TypeOK
  <2>3. "loop" \in Places /\ "loop" \notin Counted /\ pc[t] \notin Counted
    BY <1>1 DEF Places, Counted
  <2>4. /\ at' = [at EXCEPT ![t] = a] /\ a \in Counters
        /\ n_graph' = n_graph /\ gate' = gate /\ flags' = flags /\ work' = work
    BY <1>4, <1>5
  <2> QED BY <2>1, <2>2, <2>3, <2>4, Move, ZenonT(30)
<1>7. SegmentOK(s)'
  BY <1>2, <1>5 DEF Computing, SegmentOK, EmptyTo
<1>8. InSegment(t, s)'
  <2>1. EmptyTo(s.first, n + 1)
    <3>1. \A i \in Nodes : i < n + 1 => i < n \/ i = n
      BY <1>4, Sizes
    <3> HIDE DEF n
    <3> QED BY <1>1, <1>3, <3>1 DEF EmptyTo
  <2>2. abort # s.first
    BY <1>1, <1>3, ComputesFacts DEF Early, ToStart, WorkerPlaces
  <2>3. n + 1 >= s.first
    BY <1>3, <1>4, SegmentTyped
  <2> QED BY <1>3, <1>4, <1>5, <1>6, <2>1, <2>2, <2>3 DEF InSegment, Early, EmptyTo
<1>9. \A u \in Active \ {t} : InSegment(u, s)'
  BY <1>1, <1>2, <1>5, <1>6, ComputesFacts, OthersStay DEF Computing, Steps
<1>10. OutputOK(s)'
  <2>1. ~Past(t, s)
    BY <1>1, <1>4, ComputesFacts DEF Past
  <2>2. ~Past(t, s)'
    <3>1. ASSUME s.part = "rows", s.node + 1 = NumNodes
          PROVE  n # s.node
      BY <1>1, <1>2, <3>1 DEF Computing, SegmentOK
    <3>2. n + 1 = NumNodes /\ s.node + 1 = NumNodes => n = s.node
      BY <1>4, SegmentTyped
    <3> QED BY <1>3, <1>4, <1>6, <3>1, <3>2 DEF Past, InBarrier, BarrierPlaces
  <2>3. Claims(t)' = Claims(t)
    BY <1>1, <1>6, ComputesFacts DEF Claims
  <2> QED BY <1>1, <1>2, <1>5, <1>6, <2>1, <2>2, <2>3, ComputesFacts, OutputStays
          DEF Computing, Steps
<1> QED BY <1>1, <1>2, <1>6, <1>7, <1>8, <1>9, <1>10, ComputesFacts, StepInv DEF WorkerPlaces

LEMMA SegmentExists ==
  ASSUME NEW first \in 0..NumNodes, NEW n \in 0..NumNodes,
         NEW part \in {"early", "enter", "rows", "product", "leave"}
  PROVE  \E r \in Segments : r.first = first /\ r.node = n /\ r.part = part
<1> DEFINE r == [first |-> first, node |-> n, part |-> part]
<1>1. r \in Segments /\ r.first = first /\ r.node = n /\ r.part = part
  BY DEF Segments
<1> QED BY <1>1

LEMMA LeaveLoopInv ==
  ASSUME ThreadsInv, NEW t \in Threads, LeaveLoop(t)
  PROVE  ThreadsInv'
<1> PICK n : n = at[t].node
  OBVIOUS
<1>1. /\ pc' = [pc EXCEPT ![t] = "arrive"] /\ at' = [at EXCEPT ![t] = Nowhere]
      /\ bar' = [bar EXCEPT ![t].ret = Returned(t)]
      /\ n_graph' = n_graph /\ gate' = gate /\ flags' = flags /\ work' = work
      /\ chunk' = chunk /\ abort' = abort /\ output' = output
  BY DEF LeaveLoop, Barrier, At, Goto, Computes, Graph
<1>2. TypeOK /\ pc[t] = "loop" /\ pc[t] \in Computes /\ (n \notin Nodes \/ abort = n)
  BY DEF ThreadsInv, LeaveLoop, At, Computes
<1>3. PICK s \in Segments : Computing(s) /\ InSegment(t, s)
  BY <1>2, ComputesFacts
<1>4. PICK b \in Passages : /\ b.ret = Returned(t) /\ b.passed = bar[t].passed
                            /\ bar' = [bar EXCEPT ![t] = b]
  BY <1>1, <1>2, CallFacts DEF Returned
<1>5. /\ TypeOK' /\ Steps(t) /\ N' = N /\ Active' = Active
      /\ Place(t)' = "arrive" /\ bar'[t].ret = Returned(t)
  <2>1. /\ chunk' \in Nat /\ abort' \in Nodes \cup {-1, NumNodes}
        /\ output' \in [Nodes -> SUBSET Nat] /\ Nowhere \in Counters
    BY <1>1, <1>2, Sizes DEF TypeOK, Nowhere, Counters
  <2>2. "arrive" \in Places /\ "arrive" \notin Counted /\ pc[t] \notin Counted
    BY <1>2 DEF Places, Counted
  <2>3. /\ at' = [at EXCEPT ![t] = Nowhere] /\ pc' = [pc EXCEPT ![t] = "arrive"]
        /\ n_graph' = n_graph /\ gate' = gate /\ flags' = flags /\ work' = work
    BY <1>1
  <2>4. TypeOK /\ b.passed = bar[t].passed /\ bar' = [bar EXCEPT ![t] = b]
    BY <1>2, <1>4
  <2>5. /\ TypeOK' /\ Steps(t) /\ N' = N /\ Active' = Active
        /\ Place(t)' = "arrive" /\ bar'[t] = b
    BY <2>1, <2>2, <2>3, <2>4, Move, ZenonT(30)
  <2> QED BY <1>4, <2>5
<1>6. /\ InBarrier(t)' /\ Returned(t)' = Returned(t) /\ Returned(t) \notin {"first", "loop"}
      /\ ~InBarrier(t) /\ Claims(t) = {} /\ Claims(t)' = {}
  BY <1>2, <1>5, ComputesFacts DEF InBarrier, BarrierPlaces, Returned, Claims
<1>7. n \in Nat /\ n <= NumNodes /\ (n = NumNodes \/ abort = n)
  BY <1>2, ComputesFacts, Sizes DEF Counters, Nodes
<1>8. CASE s.part = "early"
  <2>1. /\ Early(t, s) /\ n >= s.first /\ EmptyTo(s.first, n) /\ s.first \in Nat
        /\ s.node = s.first /\ abort \in {-1, s.first} /\ (abort = s.first => n = s.first)
    BY <1>2, <1>3, <1>8, ComputesFacts, EarlyFacts, SegmentTyped
       DEF Early, Computing, SegmentOK
  <2>2. PICK r \in Segments : r.first = s.first /\ r.node = n /\ r.part = "leave"
    <3>1. s.first \in 0..NumNodes /\ n \in 0..NumNodes
      BY <1>7, SegmentTyped, Sizes
    <3>2. "leave" \in {"early", "enter", "rows", "product", "leave"}
      OBVIOUS
    <3> QED BY <3>1, <3>2, SegmentExists
  <2>3. abort = -1 => n = NumNodes
    BY <1>7
  <2>4. SegmentOK(r)'
    BY <1>1, <1>7, <2>1, <2>2, <2>3 DEF SegmentOK, EmptyTo
  <2>5. InSegment(t, r)'
    BY <1>4, <1>5, <1>6, <2>2 DEF InSegment, Past, Continues
  <2>6. \A u \in Active \ {t} : InSegment(u, r)'
    <3>1. \A u \in Active \ {t} : InSegment(u, r)
      BY <1>2, <1>3, <1>8, <2>2, ComputesFacts, EarlyFacts DEF Computing, InSegment
    <3> QED BY <1>1, <1>2, <1>5, <2>2, <3>1, ComputesFacts, OthersStay DEF Steps
  <2>7. OutputOK(r)'
    <3>1. OutputTo(n, n)
      BY <1>3, <1>7, <1>8, <2>1, EmptyOutput DEF Computing, OutputOK
    <3>2. OutputTo(n, n)'
      BY <1>1, <1>5, <3>1 DEF OutputTo, Whole, NumChunks, N
    <3> QED BY <2>2, <3>2 DEF OutputOK
  <2> QED BY <1>2, <1>3, <1>5, <2>2, <2>4, <2>5, <2>6, <2>7, ComputesFacts, StepInv
          DEF WorkerPlaces
<1>9. CASE s.part # "early"
  <2>1. /\ s.node \in Nat /\ s.first \in Nat /\ (s.node \in Nodes <=> s.node < NumNodes)
        /\ s.part \in {"enter", "rows", "product", "leave"}
    BY <1>9, SegmentTyped
  <2>2. Early(t, s) => s.part = "leave"
    <3> SUFFICES ASSUME Early(t, s), s.part \in {"enter", "rows"} PROVE FALSE
      BY <2>1 DEF Early
    <3>1. n >= s.first /\ EmptyTo(s.first, n)
      BY <1>2, ComputesFacts DEF Early
    <3>2. s.node \in Nodes /\ Kind[s.node] # "empty" /\ abort \in {-1, s.node + 1}
      BY <1>3 DEF Computing, SegmentOK
    <3>3. n <= s.node
      BY <1>3, <1>7, <2>1, <3>1, <3>2 DEF EmptyTo, Computing, SegmentOK
    <3> QED BY <1>7, <2>1, <3>2, <3>3
  <2>3. s.part = "leave" \/ (s.part \in {"rows", "product"} /\ s.node + 1 = NumNodes /\ Past(t, s))
    <3>1. ~Working(t, s)
      BY <1>2, ComputesFacts DEF Working
    <3>2. Past(t, s) => s.part \in {"rows", "product"} /\ s.node + 1 = NumNodes
      BY <1>6 DEF Past
    <3> QED BY <1>3, <2>2, <3>1, <3>2 DEF InSegment
  <2>4. Continues(t, s) = Returned(t) /\ Continues(t, s)' = Returned(t)
    BY <1>6, <2>1, <2>3, Sizes DEF Continues, Nodes, Returned
  <2>5. Past(t, s)'
    BY <1>5, <1>6, <1>9, <2>4 DEF Past
  <2>6. SegmentOK(s)'
    BY <1>1, <1>3 DEF Computing, SegmentOK, EmptyTo
  <2>7. \A u \in Active \ {t} : InSegment(u, s)'
    BY <1>1, <1>2, <1>3, <1>5, ComputesFacts, OthersStay DEF Computing, Steps
  <2>8. OutputOK(s)'
    <3>1. s.part = "leave" => OutputTo(s.node, s.node)'
      BY <1>1, <1>3, <1>5 DEF Computing, OutputOK, OutputTo, Whole, NumChunks, N
    <3>2. CASE s.part = "leave"
      BY <3>1, <3>2 DEF OutputOK
    <3>3. CASE s.part # "leave"
      <4>1. /\ t \in Active /\ Active \subseteq Threads /\ OnlyMoves(t) /\ OutputOK(s)
            /\ Claims(t)' = Claims(t) /\ Past(t, s) /\ Past(t, s)' /\ s.part # "enter"
            /\ Place(t)' \notin {"first", "compute", "next"}
            /\ Place(t) \notin {"first", "compute", "next"}
        BY <1>2, <1>3, <1>5, <1>6, <2>3, <2>5, <3>3, ComputesFacts DEF Computing, Steps
      <4> QED BY <1>1, <4>1, OutputStays
    <3> QED BY <3>2, <3>3
  <2> QED BY <1>2, <1>3, <1>5, <2>5, <2>6, <2>7, <2>8, ComputesFacts, StepInv
          DEF WorkerPlaces, InSegment
<1> QED BY <1>8, <1>9

LEMMA StartRowsInv ==
  ASSUME ThreadsInv, NEW t \in Threads, StartRows(t)
  PROVE  ThreadsInv'
<1> PICK n : n = at[t].node
  OBVIOUS
<1> PICK a : a = [at[t] EXCEPT !.mine = t]
  OBVIOUS
<1>1. /\ TypeOK /\ pc[t] = "loop" /\ pc[t] \in Computes /\ n \in Nodes /\ abort # n
      /\ Kind[n] = "rows"
  BY DEF ThreadsInv, StartRows, At, Computes
<1>2. PICK s \in Segments : Computing(s) /\ InSegment(t, s)
  BY <1>1, ComputesFacts
<1>3. /\ Early(t, s) /\ at[t].nth = N /\ n >= s.first /\ EmptyTo(s.first, n)
      /\ s.part = "early" => abort = -1
      /\ s.part = "early" \/ (s.part \in {"enter", "rows"} /\ n = s.node)
      /\ SegmentOK(s) /\ OutputOK(s)
  BY <1>1, <1>2, ComputesFacts, LoopNode DEF Computing
<1>4. /\ a \in Counters /\ a.node = n /\ a.nth = N /\ a.mine = t
      /\ n \in 0..NumNodes /\ n \in Nat /\ n < NumNodes
  BY <1>1, <1>3, ComputesFacts, Sizes DEF Nodes, Counters
<1>5. /\ at' = [at EXCEPT ![t] = a] /\ pc' = [pc EXCEPT ![t] = "compute"] /\ bar' = bar
      /\ n_graph' = n_graph /\ gate' = gate /\ flags' = flags /\ work' = work
      /\ chunk' = chunk /\ abort' = abort /\ output' = output
  <2>1. at' = [at EXCEPT ![t].mine = t]
    BY DEF StartRows
  <2>2. at' = [at EXCEPT ![t] = a]
    BY <1>1, <2>1 DEF TypeOK
  <2> QED BY <2>2 DEF StartRows, Goto, Graph
<1>6. /\ TypeOK' /\ Steps(t) /\ N' = N /\ Active' = Active
      /\ Place(t)' = "compute" /\ at'[t] = a
  <2>1. /\ chunk' \in Nat /\ abort' \in Nodes \cup {-1, NumNodes}
        /\ output' \in [Nodes -> SUBSET Nat]
        /\ bar[t] \in Passages /\ bar' = [bar EXCEPT ![t] = bar[t]]
    BY <1>1, <1>5, CallFacts DEF TypeOK
  <2>2. /\ "compute" \in Places /\ "compute" \notin Counted /\ pc[t] \notin Counted
        /\ TypeOK /\ a \in Counters
        /\ at' = [at EXCEPT ![t] = a] /\ pc' = [pc EXCEPT ![t] = "compute"]
        /\ n_graph' = n_graph /\ gate' = gate /\ flags' = flags /\ work' = work
    BY <1>1, <1>4, <1>5 DEF Places, Counted
  <2> QED BY <2>1, <2>2, Move, ZenonT(30)
<1>7. /\ t \in Active /\ Active \subseteq Threads /\ OnlyMoves(t)
      /\ Place(t) \notin WorkerPlaces /\ Place(t)' \notin WorkerPlaces
      /\ Place(t) = "loop" /\ N \in Nat /\ N > 0 /\ t < N /\ t \in Nat
  BY <1>1, <1>6, ComputesFacts DEF Steps, WorkerPlaces
<1>8. CASE s.part = "rows"
  <2>1. s.node = n
    BY <1>3, <1>8
  <2>2. SegmentOK(s)'
    BY <1>3, <1>5 DEF SegmentOK, EmptyTo
  <2>3. InSegment(t, s)'
    BY <1>4, <1>6, <1>8, <2>1 DEF InSegment, Working
  <2>4. \A u \in Active \ {t} : InSegment(u, s)'
    BY <1>2, <1>5, <1>7, OthersStay DEF Computing
  <2>5. output'[s.node] = {u \in Active : (Place(u) = "after" \/ Past(u, s))'}
    <3>1. ~Past(t, s) /\ ~Past(t, s)'
      BY <1>1, <1>4, <1>6, <1>7 DEF Past, InBarrier, BarrierPlaces
    <3>2. output[s.node] = {u \in Active : Place(u) = "after" \/ Past(u, s)}
      BY <1>3, <1>8 DEF OutputOK
    <3>3. \A u \in Active \ {t} : Place(u)' = Place(u) /\ (Past(u, s)' <=> Past(u, s))
      BY <1>7, OthersStay
    <3>4. Place(t) # "after" /\ Place(t)' # "after"
      BY <1>6, <1>7
    <3> QED BY <1>5, <3>1, <3>2, <3>3, <3>4
  <2>6. OutputTo(s.node, s.node + 1)'
    BY <1>3, <1>5, <1>6, <1>8 DEF OutputOK, OutputTo, Whole, NumChunks, N
  <2>7. OutputOK(s)'
    BY <1>6, <1>8, <2>5, <2>6 DEF OutputOK
  <2> QED BY <1>2, <1>6, <1>7, <2>2, <2>3, <2>4, <2>7, StepInv
<1>9. CASE s.part = "early"
  <2>1. PICK r \in Segments : r.first = s.first /\ r.node = n /\ r.part = "rows"
    <3>1. s.first \in 0..NumNodes /\ "rows" \in {"early", "enter", "rows", "product", "leave"}
      BY SegmentTyped
    <3> QED BY <1>4, <3>1, SegmentExists
  <2>2. SegmentOK(r)'
    BY <1>1, <1>3, <1>5, <1>9, <2>1 DEF SegmentOK, EmptyTo
  <2>3. InSegment(t, r)'
    BY <1>4, <1>6, <2>1 DEF InSegment, Working
  <2>4. \A u \in Active \ {t} : /\ Early(u, r) /\ ~InBarrier(u) /\ Place(u) # "after"
    BY <1>2, <1>3, <1>7, <1>9, <2>1, EarlyFacts DEF Computing
  <2>5. \A u \in Active \ {t} : InSegment(u, r)'
    BY <1>5, <1>7, <2>4, OthersStay DEF InSegment
  <2>6. OutputTo(n, n)
    <3>1. s.first \in Nat /\ OutputTo(s.first, s.first)
      BY <1>3, <1>9, SegmentTyped DEF OutputOK, SegmentOK
    <3> QED BY <1>3, <1>4, <3>1, EmptyOutput
  <2>7. OutputTo(n, n + 1)' /\ output'[n] = {}
    <3>1. \A i \in Nodes : i >= n + 1 => i >= n
      BY <1>4, Sizes
    <3> QED BY <1>1, <1>4, <1>5, <1>6, <2>6, <3>1 DEF OutputTo, Whole, NumChunks, N
  <2>8. ASSUME NEW u \in Active
        PROVE  Place(u)' # "after" /\ ~Past(u, r)'
    <3>1. CASE u = t
      BY <1>6, <3>1 DEF Past, InBarrier, BarrierPlaces
    <3>2. CASE u # t
      <4>1. Early(u, r) /\ ~InBarrier(u) /\ Place(u) # "after"
        BY <2>4, <3>2
      <4>2. ~Past(u, r)
        <5> SUFFICES ASSUME Place(u) = "loop", at[u].node = NumNodes PROVE FALSE
          BY <4>1 DEF Past
        <5>1. EmptyTo(r.first, NumNodes)
          BY <4>1, <2>1 DEF Early, ToStart, WorkerPlaces
        <5> QED BY <1>1, <1>3, <1>4, <2>1, <5>1 DEF EmptyTo
      <4> QED BY <1>7, <3>2, <4>1, <4>2, OthersStay
    <3> QED BY <3>1, <3>2
  <2>9. OutputOK(r)'
    BY <1>6, <2>1, <2>7, <2>8 DEF OutputOK
  <2> QED BY <1>2, <1>6, <1>7, <2>2, <2>3, <2>5, <2>9, StepInv
<1>10. s.part # "enter"
  BY <1>1, <1>3 DEF SegmentOK
<1> QED BY <1>3, <1>8, <1>9, <1>10

LEMMA StartProductInv ==
  ASSUME ThreadsInv, NEW t \in Threads, StartProduct(t)
  PROVE  ThreadsInv'
<1> PICK n : n = at[t].node
  OBVIOUS
<1>1. /\ TypeOK /\ pc[t] = "loop" /\ pc[t] \in Computes /\ n \in Nodes /\ abort # n
      /\ Kind[n] = "product"
  BY DEF ThreadsInv, StartProduct, At, Computes
<1>2. PICK s \in Segments : Computing(s) /\ InSegment(t, s)
  BY <1>1, ComputesFacts
<1>3. /\ Early(t, s) /\ at[t].nth = N /\ n >= s.first /\ EmptyTo(s.first, n)
      /\ s.part = "early" => abort = -1
      /\ s.part = "early" \/ (s.part \in {"enter", "rows"} /\ n = s.node)
      /\ SegmentOK(s) /\ OutputOK(s)
  BY <1>1, <1>2, ComputesFacts, LoopNode DEF Computing
<1>4. n \in 0..NumNodes /\ n \in Nat /\ n < NumNodes
  BY <1>1, Sizes DEF Nodes
<1>5. /\ pc' = [pc EXCEPT ![t] = "arrive"] /\ at' = at
      /\ chunk' = (IF t = 0 THEN N ELSE chunk)
      /\ bar' = [bar EXCEPT ![t].ret = "first"]
      /\ n_graph' = n_graph /\ gate' = gate /\ flags' = flags /\ work' = work
      /\ abort' = abort /\ output' = output
  BY <1>3 DEF StartProduct, Barrier, Goto
<1>6. PICK b \in Passages : /\ b.ret = "first" /\ b.passed = bar[t].passed
                            /\ bar' = [bar EXCEPT ![t] = b]
  BY <1>1, <1>5, CallFacts
<1>7. /\ TypeOK' /\ Steps(t) /\ N' = N /\ Active' = Active
      /\ Place(t)' = "arrive" /\ at'[t] = at[t] /\ bar'[t].ret = "first"
  <2>1. /\ chunk' \in Nat /\ abort' \in Nodes \cup {-1, NumNodes}
        /\ output' \in [Nodes -> SUBSET Nat]
        /\ at[t] \in Counters /\ at' = [at EXCEPT ![t] = at[t]]
    BY <1>1, <1>5, CallFacts, ComputesFacts DEF TypeOK
  <2>2. /\ "arrive" \in Places /\ "arrive" \notin Counted /\ pc[t] \notin Counted
        /\ TypeOK /\ pc' = [pc EXCEPT ![t] = "arrive"]
        /\ n_graph' = n_graph /\ gate' = gate /\ flags' = flags /\ work' = work
    BY <1>1, <1>5 DEF Places, Counted
  <2>3. /\ TypeOK' /\ Steps(t) /\ N' = N /\ Active' = Active
        /\ Place(t)' = "arrive" /\ at'[t] = at[t] /\ bar'[t] = b
    BY <1>6, <2>1, <2>2, Move, ZenonT(30)
  <2> QED BY <1>6, <2>3
<1>8. /\ t \in Active /\ Active \subseteq Threads /\ OnlyMoves(t)
      /\ Place(t) \notin WorkerPlaces /\ Place(t)' \notin WorkerPlaces
      /\ Place(t) = "loop" /\ N \in Nat /\ N > 0 /\ t < N /\ t \in Nat /\ InBarrier(t)'
  BY <1>1, <1>7, ComputesFacts DEF Steps, WorkerPlaces, InBarrier, BarrierPlaces
<1>9. ASSUME NEW r \in Segments, r.part = "enter", r.node = n
      PROVE  InSegment(t, r)'
  BY <1>3, <1>7, <1>8, <1>9 DEF InSegment, Past, Continues
<1>10. CASE s.part = "enter"
  <2>1. SegmentOK(s)'
    BY <1>3, <1>5 DEF SegmentOK, EmptyTo
  <2>2. \A u \in Active \ {t} : InSegment(u, s)'
    BY <1>2, <1>5, <1>8, OthersStay DEF Computing
  <2>3. OutputTo(s.node, s.node)'
    BY <1>3, <1>5, <1>7, <1>10 DEF OutputOK, OutputTo, Whole, NumChunks, N
  <2>4. Past(0, s)' => chunk' = N
    <3>1. t # 0 => (Past(0, s)' <=> Past(0, s))
      BY <1>8, OthersStay, Sizes
    <3> QED BY <1>3, <1>5, <1>10, <3>1 DEF OutputOK
  <2>5. OutputOK(s)'
    BY <1>7, <1>10, <2>3, <2>4 DEF OutputOK
  <2> QED BY <1>2, <1>3, <1>7, <1>8, <1>9, <1>10, <2>1, <2>2, <2>5, StepInv
<1>11. CASE s.part = "early"
  <2>1. PICK r \in Segments : r.first = s.first /\ r.node = n /\ r.part = "enter"
    <3>1. s.first \in 0..NumNodes /\ "enter" \in {"early", "enter", "rows", "product", "leave"}
      BY SegmentTyped
    <3> QED BY <1>4, <3>1, SegmentExists
  <2>2. SegmentOK(r)'
    BY <1>1, <1>3, <1>5, <1>11, <2>1 DEF SegmentOK, EmptyTo
  <2>3. \A u \in Active \ {t} : Early(u, r) /\ ~InBarrier(u)
    BY <1>2, <1>3, <1>8, <1>11, <2>1, EarlyFacts DEF Computing
  <2>4. \A u \in Active \ {t} : InSegment(u, r)'
    BY <1>5, <1>8, <2>3, OthersStay DEF InSegment
  <2>5. OutputTo(n, n)'
    <3>1. s.first \in Nat /\ OutputTo(s.first, s.first)
      BY <1>3, <1>11, SegmentTyped DEF OutputOK, SegmentOK
    <3>2. OutputTo(n, n)
      BY <1>3, <1>4, <3>1, EmptyOutput
    <3> QED BY <1>5, <1>7, <3>2 DEF OutputTo, Whole, NumChunks, N
  <2>6. Past(0, r)' => chunk' = N
    <3>1. CASE t = 0
      BY <1>5, <3>1
    <3>2. CASE t # 0
      <4>1. 0 \in Active /\ 0 \in Threads
        BY <1>8, Sizes DEF Active, N
      <4>2. ~InBarrier(0) /\ (Past(0, r)' <=> Past(0, r))
        BY <1>8, <2>3, <3>2, <4>1, OthersStay
      <4> QED BY <2>1, <4>2 DEF Past
    <3> QED BY <3>1, <3>2
  <2>7. OutputOK(r)'
    BY <1>7, <2>1, <2>5, <2>6 DEF OutputOK
  <2> QED BY <1>2, <1>7, <1>8, <1>9, <2>1, <2>2, <2>4, <2>7, StepInv
<1>12. s.part # "rows"
  BY <1>1, <1>3 DEF SegmentOK
<1> QED BY <1>3, <1>10, <1>11, <1>12

LEMMA FirstChunkInv ==
  ASSUME ThreadsInv, NEW t \in Threads, FirstChunk(t)
  PROVE  ThreadsInv'
<1> PICK n : n = at[t].node
  OBVIOUS
<1> PICK a : a = [at[t] EXCEPT !.mine = t]
  OBVIOUS
<1>1. TypeOK /\ pc[t] = "first" /\ pc[t] \in Computes
  BY DEF ThreadsInv, FirstChunk, At, Computes
<1>2. PICK s \in Segments : Computing(s) /\ InSegment(t, s)
  BY <1>1, ComputesFacts
<1>3. s.part = "product" /\ n = s.node /\ at[t].nth = N /\ n \in Nodes
  <2>1. Working(t, s)
    BY <1>1, <1>2, ComputesFacts DEF InSegment, Early, Past
  <2> QED BY <1>1, <1>2, <2>1, ComputesFacts DEF Working, Computing, SegmentOK
<1>4. /\ a \in Counters /\ a.node = n /\ a.nth = N /\ a.mine = t
  BY <1>1, <1>3, ComputesFacts, Sizes DEF Counters
<1>5. /\ at' = [at EXCEPT ![t] = a] /\ pc' = [pc EXCEPT ![t] = "compute"] /\ bar' = bar
      /\ n_graph' = n_graph /\ gate' = gate /\ flags' = flags /\ work' = work
      /\ chunk' = chunk /\ abort' = abort /\ output' = output
  <2>1. /\ at' = [at EXCEPT ![t].mine = t]
        /\ pc' = [pc EXCEPT ![t] = IF t < NumChunks(N, n) THEN "compute" ELSE "after"]
    BY <1>3 DEF FirstChunk, TakesChunk, Goto
  <2>2. at' = [at EXCEPT ![t] = a]
    BY <1>1, <2>1 DEF TypeOK
  <2>3. t < NumChunks(N, n)
    <3>1. NumChunks(N, n) \in Nat /\ NumChunks(N, n) >= N
      BY <1>1, <1>3, NumChunksFacts
    <3> QED BY <1>1, <3>1, ComputesFacts
  <2> QED BY <2>1, <2>2, <2>3 DEF FirstChunk, Graph
<1>6. /\ TypeOK' /\ Steps(t) /\ N' = N /\ Active' = Active
      /\ Place(t)' = "compute" /\ at'[t] = a
  <2>1. /\ chunk' \in Nat /\ abort' \in Nodes \cup {-1, NumNodes}
        /\ output' \in [Nodes -> SUBSET Nat]
        /\ bar[t] \in Passages /\ bar' = [bar EXCEPT ![t] = bar[t]]
    BY <1>1, <1>5, CallFacts DEF TypeOK
  <2>2. /\ "compute" \in Places /\ "compute" \notin Counted /\ pc[t] \notin Counted
        /\ TypeOK /\ a \in Counters
        /\ at' = [at EXCEPT ![t] = a] /\ pc' = [pc EXCEPT ![t] = "compute"]
        /\ n_graph' = n_graph /\ gate' = gate /\ flags' = flags /\ work' = work
    BY <1>1, <1>4, <1>5 DEF Places, Counted
  <2> QED BY <2>1, <2>2, Move, ZenonT(30)
<1>7. /\ t \in Active /\ Active \subseteq Threads /\ OnlyMoves(t)
      /\ Place(t) \notin WorkerPlaces /\ Place(t)' \notin WorkerPlaces
      /\ Place(t) = "first"
  BY <1>1, <1>6, ComputesFacts DEF Steps, WorkerPlaces
<1>8. SegmentOK(s)'
  BY <1>2, <1>5 DEF Computing, SegmentOK, EmptyTo
<1>9. InSegment(t, s)'
  BY <1>3, <1>4, <1>6 DEF InSegment, Working
<1>10. \A u \in Active \ {t} : InSegment(u, s)'
  BY <1>2, <1>5, <1>7, OthersStay DEF Computing
<1>11. OutputOK(s)'
  <2>1. ~Past(t, s) /\ ~Past(t, s)'
    BY <1>6, <1>7 DEF Past, InBarrier, BarrierPlaces
  <2>2. Claims(t) = {t} /\ Claims(t)' = {t}
    BY <1>4, <1>6, <1>7 DEF Claims
  <2> QED BY <1>2, <1>5, <1>6, <1>7, <2>1, <2>2, OutputStays DEF Computing
<1> QED BY <1>2, <1>6, <1>7, <1>8, <1>9, <1>10, <1>11, StepInv

\* A thread at work on a node, and what it may assume of the segment.
LEMMA AtWork ==
  ASSUME ThreadsInv, NEW t \in Threads, pc[t] \in {"first", "compute", "next", "after"}
  PROVE  \E s \in Segments :
           /\ Computing(s) /\ Working(t, s) /\ s.part \in {"rows", "product"}
           /\ at[t].node = s.node /\ at[t].nth = N /\ s.node \in Nodes
           /\ Kind[s.node] = s.part
           /\ s.part = "rows" => pc[t] \in {"compute", "after"}
           /\ s.part = "rows" /\ pc[t] = "compute" => at[t].mine = t
<1>1. pc[t] \in Computes /\ Place(t) = pc[t] /\ ~InBarrier(t)
  <2>1. pc[t] \in Computes
    BY DEF Computes
  <2> QED BY <2>1, ComputesFacts
<1>2. PICK s \in Segments : Computing(s) /\ InSegment(t, s)
  BY <1>1, ComputesFacts
<1>3. Working(t, s)
  BY <1>1, <1>2, ComputesFacts DEF InSegment, Early, Past
<1> QED BY <1>1, <1>2, <1>3 DEF Working, Computing, SegmentOK

LEMMA ComputeChunkInv ==
  ASSUME ThreadsInv, NEW t \in Threads, ComputeChunk(t)
  PROVE  ThreadsInv'
<1> PICK n : n = at[t].node
  OBVIOUS
<1> PICK c : c = at[t].mine
  OBVIOUS
<1> PICK to : to = IF N >= NumChunks(N, n) THEN "after" ELSE "next"
  OBVIOUS
<1>1. TypeOK /\ pc[t] = "compute" /\ pc[t] \in Computes
  BY DEF ThreadsInv, ComputeChunk, At, Computes
<1>2. PICK s \in Segments :
        /\ Computing(s) /\ s.part \in {"rows", "product"}
        /\ n = s.node /\ at[t].nth = N /\ n \in Nodes /\ Kind[n] = s.part
        /\ s.part = "rows" => c = t
  BY <1>1, AtWork
<1>3. /\ NumChunks(N, n) \in Nat /\ NumChunks(N, n) >= N /\ c \in Nat
      /\ s.part = "rows" => NumChunks(N, n) = N
  BY <1>1, <1>2, NumChunksFacts, ThreadTyped
<1>4. /\ output' = [output EXCEPT ![n] = output[n] \cup {c}]
      /\ pc' = [pc EXCEPT ![t] = to] /\ at' = at /\ bar' = bar
      /\ n_graph' = n_graph /\ gate' = gate /\ flags' = flags /\ work' = work
      /\ chunk' = chunk /\ abort' = abort
  BY <1>2 DEF ComputeChunk, Goto
<1>5. /\ output' \in [Nodes -> SUBSET Nat] /\ output'[n] = output[n] \cup {c}
      /\ \A i \in Nodes \ {n} : output'[i] = output[i]
  BY <1>1, <1>2, <1>3, <1>4 DEF TypeOK
<1>6. /\ TypeOK' /\ Steps(t) /\ N' = N /\ Active' = Active
      /\ Place(t)' = to /\ at'[t] = at[t]
  <2>1. /\ chunk' \in Nat /\ abort' \in Nodes \cup {-1, NumNodes}
        /\ bar[t] \in Passages /\ bar' = [bar EXCEPT ![t] = bar[t]]
        /\ at[t] \in Counters /\ at' = [at EXCEPT ![t] = at[t]]
    BY <1>1, <1>4, CallFacts, ComputesFacts DEF TypeOK
  <2>2. /\ to \in Places /\ to \notin Counted /\ pc[t] \notin Counted
        /\ TypeOK /\ pc' = [pc EXCEPT ![t] = to]
        /\ n_graph' = n_graph /\ gate' = gate /\ flags' = flags /\ work' = work
    BY <1>1, <1>4 DEF Places, Counted
  <2> QED BY <1>5, <2>1, <2>2, Move, ZenonT(30)
<1>7. /\ t \in Active /\ Active \subseteq Threads /\ OnlyMoves(t) /\ to \in {"after", "next"}
      /\ Place(t) \notin WorkerPlaces /\ Place(t)' \notin WorkerPlaces
      /\ Place(t) = "compute"
  BY <1>1, <1>6, ComputesFacts DEF Steps, WorkerPlaces
<1>8. SegmentOK(s)'
  BY <1>2, <1>4 DEF Computing, SegmentOK, EmptyTo
<1>9. InSegment(t, s)'
  <2>1. s.part = "rows" => to = "after"
    BY <1>1, <1>3, ComputesFacts
  <2> QED BY <1>2, <1>6, <1>7, <2>1 DEF InSegment, Working
<1>10. \A u \in Active \ {t} : InSegment(u, s)'
  BY <1>2, <1>4, <1>7, OthersStay DEF Computing
<1>11. OutputTo(n, n + 1)'
  <2>1. OutputTo(n, n + 1)
    BY <1>2 DEF Computing, OutputOK
  <2>2. \A i \in Nodes : (i < n => i # n) /\ (i >= n + 1 => i # n)
    BY <1>2, Sizes
  <2> QED BY <1>5, <1>6, <2>1, <2>2 DEF OutputTo, Whole, NumChunks, N
<1>12. \A u \in Active \ {t} : /\ Place(u)' = Place(u) /\ Claims(u)' = Claims(u)
                               /\ (Past(u, s)' <=> Past(u, s))
  BY <1>7, OthersStay
<1>13. CASE s.part = "rows"
  <2>1. output[n] = {u \in Active : Place(u) = "after" \/ Past(u, s)}
    BY <1>2, <1>13 DEF Computing, OutputOK
  <2>2. to = "after" /\ c = t
    BY <1>1, <1>2, <1>3, <1>13, ComputesFacts
  <2>3. output'[n] = {u \in Active : (Place(u) = "after" \/ Past(u, s))'}
    BY <1>5, <1>6, <1>7, <1>12, <2>1, <2>2
  <2>4. OutputOK(s)'
    BY <1>2, <1>6, <1>11, <1>13, <2>3 DEF OutputOK
  <2> QED BY <1>2, <1>6, <1>7, <1>8, <1>9, <1>10, <2>4, StepInv
<1>14. CASE s.part = "product"
  <2> PICK all : all = NumChunks(N, n)
    OBVIOUS
  <2>1. ProductOK(n) /\ all \in Nat /\ all >= N /\ N \in Nat /\ chunk \in Nat
    BY <1>1, <1>2, <1>3, <1>14, ComputesFacts DEF Computing, OutputOK, TypeOK
  <2>2. Claims(t) = {c} /\ Claims(t)' = {}
    BY <1>6, <1>7 DEF Claims
  <2>3. NumChunks(N, n)' = all
    BY <1>6 DEF NumChunks
  <2>4. c < chunk /\ c < all
    BY <1>7, <2>1, <2>2 DEF ProductOK
  <2>5. \A d \in output'[n] : d < chunk /\ d < all
    BY <1>5, <2>1, <2>4 DEF ProductOK
  <2>6. \A u \in Active : \A d \in Claims(u)' : d < chunk /\ d < all /\ d \notin output'[n]
    <3> TAKE u \in Active
    <3>1. CASE u = t
      BY <2>2, <3>1
    <3>2. CASE u # t
      <4>1. Claims(u)' = Claims(u) /\ Claims(u) \cap {c} = {}
        BY <1>7, <1>12, <2>1, <2>2, <3>2 DEF ProductOK
      <4> QED BY <1>5, <2>1, <4>1 DEF ProductOK
    <3> QED BY <3>1, <3>2
  <2>7. \A u, v \in Active : u # v => Claims(u)' \cap Claims(v)' = {}
    BY <1>12, <2>1, <2>2 DEF ProductOK
  <2>8. \A d \in 0..(all - 1) :
          d < chunk => d \in output'[n] \/ \E u \in Active : d \in Claims(u)'
    <3> SUFFICES ASSUME NEW d \in 0..(all - 1), d < chunk
                 PROVE  d \in output'[n] \/ \E u \in Active : d \in Claims(u)'
      OBVIOUS
    <3>1. d \in output[n] \/ \E u \in Active : d \in Claims(u)
      BY <2>1 DEF ProductOK
    <3> QED BY <1>5, <1>12, <2>2, <3>1
  <2>9. \A u \in Active : Place(u)' \notin {"first", "compute", "next"} => chunk >= all
    <3>1. Place(t)' \notin {"first", "compute", "next"} => chunk >= all
      BY <1>6, <2>1 DEF ProductOK
    <3> QED BY <1>12, <2>1, <3>1 DEF ProductOK
  <2>10. ProductOK(n)'
    BY <1>4, <1>6, <2>1, <2>3, <2>5, <2>6, <2>7, <2>8, <2>9 DEF ProductOK
  <2>11. OutputOK(s)'
    BY <1>2, <1>11, <1>14, <2>10 DEF OutputOK
  <2> QED BY <1>2, <1>6, <1>7, <1>8, <1>9, <1>10, <2>11, StepInv
<1> QED BY <1>2, <1>13, <1>14

LEMMA NextChunkInv ==
  ASSUME ThreadsInv, NEW t \in Threads, NextChunk(t)
  PROVE  ThreadsInv'
<1> PICK n : n = at[t].node
  OBVIOUS
<1> PICK all : all = NumChunks(N, n)
  OBVIOUS
<1> PICK to : to = IF chunk < all THEN "compute" ELSE "after"
  OBVIOUS
<1> PICK a : a = [at[t] EXCEPT !.mine = chunk]
  OBVIOUS
<1>1. TypeOK /\ pc[t] = "next" /\ pc[t] \in Computes
  BY DEF ThreadsInv, NextChunk, At, Computes
<1>2. PICK s \in Segments :
        /\ Computing(s) /\ s.part = "product"
        /\ n = s.node /\ at[t].nth = N /\ n \in Nodes
  BY <1>1, AtWork
<1>3. all \in Nat /\ all >= N /\ chunk \in Nat /\ N \in Nat
  BY <1>1, <1>2, NumChunksFacts, ComputesFacts DEF TypeOK
<1>4. a \in Counters /\ a.node = n /\ a.nth = N /\ a.mine = chunk
  BY <1>1, <1>2, <1>3, ComputesFacts DEF Counters
<1>5. /\ at' = [at EXCEPT ![t] = a] /\ pc' = [pc EXCEPT ![t] = to] /\ bar' = bar
      /\ n_graph' = n_graph /\ gate' = gate /\ flags' = flags /\ work' = work
      /\ chunk' = chunk + 1 /\ abort' = abort /\ output' = output
  <2>1. at' = [at EXCEPT ![t].mine = chunk] /\ pc' = [pc EXCEPT ![t] = to]
    BY <1>2 DEF NextChunk, TakesChunk, Goto
  <2>2. at' = [at EXCEPT ![t] = a]
    BY <1>1, <2>1 DEF TypeOK
  <2> QED BY <2>1, <2>2 DEF NextChunk
<1>6. /\ TypeOK' /\ Steps(t) /\ N' = N /\ Active' = Active
      /\ Place(t)' = to /\ at'[t] = a
  <2>1. /\ chunk' \in Nat /\ abort' \in Nodes \cup {-1, NumNodes}
        /\ output' \in [Nodes -> SUBSET Nat]
        /\ bar[t] \in Passages /\ bar' = [bar EXCEPT ![t] = bar[t]]
    <3>1. chunk + 1 \in Nat
      BY <1>3
    <3>2. bar[t] \in Passages /\ bar' = [bar EXCEPT ![t] = bar[t]]
      BY <1>1, <1>5, CallFacts
    <3> QED BY <1>1, <1>5, <3>1, <3>2 DEF TypeOK
  <2>2. /\ to \in Places /\ to \notin Counted /\ pc[t] \notin Counted
        /\ TypeOK /\ a \in Counters
        /\ at' = [at EXCEPT ![t] = a] /\ pc' = [pc EXCEPT ![t] = to]
        /\ n_graph' = n_graph /\ gate' = gate /\ flags' = flags /\ work' = work
    BY <1>1, <1>4, <1>5 DEF Places, Counted
  <2> QED BY <2>1, <2>2, Move, ZenonT(30)
<1>7. /\ t \in Active /\ Active \subseteq Threads /\ OnlyMoves(t) /\ to \in {"after", "compute"}
      /\ Place(t) \notin WorkerPlaces /\ Place(t)' \notin WorkerPlaces
      /\ Place(t) = "next"
  BY <1>1, <1>6, ComputesFacts DEF Steps, WorkerPlaces
<1>8. SegmentOK(s)'
  BY <1>2, <1>5 DEF Computing, SegmentOK, EmptyTo
<1>9. InSegment(t, s)'
  BY <1>2, <1>4, <1>6, <1>7 DEF InSegment, Working
<1>10. \A u \in Active \ {t} : InSegment(u, s)'
  BY <1>2, <1>5, <1>7, OthersStay DEF Computing
<1>11. \A u \in Active \ {t} : Place(u)' = Place(u) /\ Claims(u)' = Claims(u)
  BY <1>7, OthersStay
<1>12. /\ ProductOK(n) /\ OutputTo(n, n + 1)
  BY <1>2 DEF Computing, OutputOK
<1>13. Claims(t)' = (IF chunk < all THEN {chunk} ELSE {}) /\ Claims(t) = {}
  BY <1>4, <1>6, <1>7 DEF Claims
<1>14. NumChunks(N, n)' = all
  BY <1>6 DEF NumChunks
<1>15. \A d \in output[n] : d < chunk /\ d < all /\ d \in Nat
  BY <1>1, <1>2, <1>12 DEF ProductOK, TypeOK
<1>16. \A u \in Active : \A d \in Claims(u) :
         d < chunk /\ d < all /\ d \notin output[n] /\ d \in Nat
  <2>1. \A u \in Active : Claims(u) \subseteq Nat
    BY <1>1, <1>7, ThreadTyped, Sizes DEF Claims
  <2> QED BY <1>12, <2>1 DEF ProductOK
<1>17. \A u \in Active : \A d \in Claims(u)' : d < chunk + 1 /\ d < all /\ d \notin output[n]
  <2> TAKE u \in Active
  <2>1. CASE u = t
    BY <1>3, <1>13, <1>15, <2>1
  <2>2. CASE u # t
    BY <1>3, <1>11, <1>16, <2>2
  <2> QED BY <2>1, <2>2
<1>18. \A u, v \in Active : u # v => Claims(u)' \cap Claims(v)' = {}
  <2>1. \A u \in Active \ {t} : Claims(u)' \cap Claims(t)' = {}
    BY <1>3, <1>11, <1>13, <1>16
  <2> QED BY <1>11, <1>12, <2>1 DEF ProductOK
<1>19. \A d \in 0..(all - 1) :
         d < chunk + 1 => d \in output[n] \/ \E u \in Active : d \in Claims(u)'
  <2> SUFFICES ASSUME NEW d \in 0..(all - 1), d < chunk + 1
               PROVE  d \in output[n] \/ \E u \in Active : d \in Claims(u)'
    OBVIOUS
  <2>1. CASE d = chunk
    BY <1>3, <1>7, <1>13, <2>1
  <2>2. CASE d < chunk
    <3>1. d \in output[n] \/ \E u \in Active : d \in Claims(u)
      BY <1>12, <2>2 DEF ProductOK
    <3> QED BY <1>11, <1>13, <3>1
  <2> QED BY <1>3, <2>1, <2>2
<1>20. \A u \in Active : Place(u)' \notin {"first", "compute", "next"} => chunk + 1 >= all
  <2>1. Place(t)' \notin {"first", "compute", "next"} => chunk >= all
    BY <1>3, <1>6
  <2>2. \A u \in Active : Place(u)' \notin {"first", "compute", "next"} => chunk >= all
    BY <1>11, <1>12, <2>1 DEF ProductOK
  <2> QED BY <1>3, <2>2
<1>21. ProductOK(n)'
  <2>1. chunk + 1 >= N /\ \A d \in output[n] : d < chunk + 1 /\ d < all
    BY <1>3, <1>12, <1>15 DEF ProductOK
  <2> QED BY <1>5, <1>6, <1>14, <1>17, <1>18, <1>19, <1>20, <2>1 DEF ProductOK
<1>22. OutputTo(n, n + 1)'
  BY <1>5, <1>6, <1>12 DEF OutputTo, Whole, NumChunks, N
<1>23. OutputOK(s)'
  BY <1>2, <1>21, <1>22 DEF OutputOK
<1> QED BY <1>2, <1>6, <1>7, <1>8, <1>9, <1>10, <1>23, StepInv

LEMMA EndNodeInv ==
  ASSUME ThreadsInv, NEW t \in Threads, EndNode(t)
  PROVE  ThreadsInv'
<1> PICK n : n = at[t].node
  OBVIOUS
<1> DEFINE more == n + 1 \in Nodes
<1> HIDE DEF more
<1> DEFINE to == IF more THEN "arrive" ELSE "loop"
<1> HIDE DEF to
<1> PICK a : a = [at[t] EXCEPT !.node = n + 1]
  OBVIOUS
<1>1. TypeOK /\ pc[t] = "after" /\ pc[t] \in Computes
  BY DEF ThreadsInv, EndNode, At, Computes
<1>2. PICK s \in Segments :
        /\ Computing(s) /\ s.part \in {"rows", "product"}
        /\ n = s.node /\ at[t].nth = N /\ n \in Nodes
  BY <1>1, AtWork
<1>3. /\ n \in Nat /\ n < NumNodes /\ n + 1 \in 0..NumNodes
      /\ more <=> n + 1 # NumNodes
      /\ a \in Counters /\ a.node = n + 1 /\ a.nth = N
  <2>1. n \in Nat /\ n < NumNodes /\ n + 1 \in 0..NumNodes /\ (n + 1 \in Nodes <=> n + 1 # NumNodes)
    BY <1>2, Sizes DEF Nodes
  <2>2. at[t] \in Counters
    BY <1>1, ComputesFacts
  <2> QED BY <1>2, <2>1, <2>2 DEF Counters, more
<1>4. /\ abort' \in {abort, n + 1}
      /\ at' = [at EXCEPT ![t] = a] /\ pc' = [pc EXCEPT ![t] = to]
      /\ n_graph' = n_graph /\ gate' = gate /\ flags' = flags /\ work' = work
      /\ chunk' = chunk /\ output' = output
  <2>1. at' = [at EXCEPT ![t].node = n + 1]
    BY DEF EndNode
  <2>2. at' = [at EXCEPT ![t] = a]
    BY <1>1, <2>1 DEF TypeOK
  <2>3. pc' = [pc EXCEPT ![t] = to]
    BY DEF EndNode, Barrier, Goto, more, to
  <2>4. abort' \in {abort, n + 1}
    BY DEF EndNode
  <2> QED BY <2>2, <2>3, <2>4 DEF EndNode
<1>5. PICK b \in Passages : /\ more => b.ret = "loop"
                            /\ b.passed = bar[t].passed /\ bar' = [bar EXCEPT ![t] = b]
  <2>1. CASE more
    <3>1. bar' = [bar EXCEPT ![t].ret = "loop"]
      BY <2>1 DEF EndNode, Barrier, more
    <3> QED BY <1>1, <3>1, CallFacts
  <2>2. CASE ~more
    <3>1. bar' = bar
      BY <2>2 DEF EndNode, more
    <3> QED BY <1>1, <2>2, <3>1, CallFacts
  <2> QED BY <2>1, <2>2
<1>6. /\ TypeOK' /\ Steps(t) /\ N' = N /\ Active' = Active
      /\ Place(t)' = to /\ at'[t] = a /\ bar'[t] = b
  <2>1. /\ chunk' \in Nat /\ output' \in [Nodes -> SUBSET Nat]
    BY <1>1, <1>4 DEF TypeOK
  <2>2. abort' \in Nodes \cup {-1, NumNodes}
    <3>1. n + 1 \in Nodes \cup {NumNodes}
      BY <1>3, Sizes DEF Nodes
    <3>2. abort \in Nodes \cup {-1, NumNodes}
      BY <1>1 DEF TypeOK
    <3> QED BY <1>4, <3>1, <3>2
  <2>3. /\ to \in Places /\ to \notin Counted /\ pc[t] \notin Counted
        /\ TypeOK /\ a \in Counters
        /\ at' = [at EXCEPT ![t] = a] /\ pc' = [pc EXCEPT ![t] = to]
        /\ n_graph' = n_graph /\ gate' = gate /\ flags' = flags /\ work' = work
    BY <1>1, <1>3, <1>4 DEF Places, Counted, to
  <2>4. b.passed = bar[t].passed /\ bar' = [bar EXCEPT ![t] = b]
    BY <1>5
  <2> QED BY <2>1, <2>2, <2>3, <2>4, Move, ZenonT(30)
<1>7. /\ t \in Active /\ Active \subseteq Threads /\ OnlyMoves(t)
      /\ Place(t) \notin WorkerPlaces /\ Place(t)' \notin WorkerPlaces
      /\ Place(t) = "after"
  BY <1>1, <1>6, ComputesFacts DEF Steps, WorkerPlaces, to
<1>8. SegmentOK(s)'
  BY <1>2, <1>4 DEF Computing, SegmentOK, EmptyTo
<1>9. Past(t, s)'
  <2>1. CASE more
    <3>1. /\ InBarrier(t)' /\ bar'[t].ret = "loop" /\ Continues(t, s)' = "loop"
          /\ at'[t].node = s.node + 1 /\ at'[t].nth = N'
      <4>1. InBarrier(t)'
        BY <1>6, <2>1 DEF InBarrier, BarrierPlaces, to
      <4>2. Continues(t, s)' = "loop"
        BY <1>2, <2>1 DEF Continues, more
      <4> QED BY <1>2, <1>3, <1>5, <1>6, <2>1, <4>1, <4>2
    <3> QED BY <1>2, <3>1 DEF Past
  <2>2. CASE ~more
    <3>1. s.node + 1 = NumNodes /\ Place(t)' = "loop" /\ at'[t].node = NumNodes
      BY <1>2, <1>3, <1>6, <2>2 DEF to
    <3> QED BY <1>2, <3>1 DEF Past
  <2> QED BY <2>1, <2>2
<1>10. \A u \in Active \ {t} : InSegment(u, s)'
  <2> TAKE u \in Active \ {t}
  <2>1. InSegment(u, s) /\ u \in Threads \ {t}
    BY <1>2, <1>7 DEF Computing
  <2>2. (Working(u, s)' <=> Working(u, s)) /\ (Past(u, s)' <=> Past(u, s)) /\ Place(u)' = Place(u)
    BY <1>7, <2>1, OthersStay
  <2>3. ASSUME Early(u, s) PROVE Early(u, s)'
    <3>1. n + 1 # s.first
      BY <1>2, <1>3, SegmentTyped DEF Computing, SegmentOK
    <3>2. /\ n_graph' = n_graph /\ N' = N /\ at'[u] = at[u] /\ work'[u] = work[u]
      BY <1>4, <1>6, <1>7, <2>1 DEF OnlyMoves
    <3>3. ToStart(u)' <=> ToStart(u)
      BY <2>2, <3>2 DEF ToStart
    <3> QED BY <1>4, <2>2, <2>3, <3>1, <3>2, <3>3 DEF Early, EmptyTo
  <2> QED BY <2>1, <2>2, <2>3 DEF InSegment
<1>11. OutputOK(s)'
  <2>1. Claims(t)' = {} /\ Claims(t) = {}
    BY <1>6, <1>7 DEF Claims, to
  <2>2. /\ Place(t)' \notin {"first", "compute", "next"}
        /\ Place(t) \notin {"first", "compute", "next"} /\ s.part # "enter" /\ OutputOK(s)
    BY <1>2, <1>6, <1>7 DEF Computing, to
  <2> QED BY <1>4, <1>7, <1>9, <2>1, <2>2, OutputStays
<1> QED BY <1>2, <1>6, <1>7, <1>8, <1>9, <1>10, <1>11, StepInv DEF InSegment

-----------------------------------------------------------------------------
(* The steps of the workers.                                               *)

Orders == [last : GraphIds, pending : BOOLEAN]

\* A worker that looks for work, and may see that there is some.
LEMMA WorkerMove ==
  ASSUME ThreadsInv, NEW t \in Threads, t # 0, pc[t] \in WorkerPlaces,
         NEW place \in WorkerPlaces, NEW w \in Orders,
         pc' = [pc EXCEPT ![t] = place], work' = [work EXCEPT ![t] = w],
         n_graph' = n_graph, gate' = gate, flags' = flags, at' = at, bar' = bar,
         chunk' = chunk, abort' = abort, output' = output,
         \/ w = work[t] /\ ~w.pending
         \/ /\ w.last = n_graph /\ work[t].last # n_graph /\ (w.pending <=> t < N)
            /\ w.pending => place = "run"
  PROVE  ThreadsInv'
<1>1. TypeOK /\ GateCounts /\ PassagesOK /\ PendingOK /\ Active \subseteq Threads
      /\ (t \in Active <=> t < N)
  BY Typed DEF ThreadsInv
<1>2. TypeOK'
  BY <1>1 DEF TypeOK, WorkerPlaces, Places, Orders
<1>3. /\ pc'[t] = place /\ work'[t] = w
      /\ \A u \in Threads \ {t} : pc'[u] = pc[u] /\ work'[u] = work[u]
  BY <1>1 DEF TypeOK
<1>4. OnlyMoves(t) /\ N' = N /\ Active' = Active
  BY <1>3 DEF OnlyMoves, N, Active
<1>5. /\ Place(t) \in WorkerPlaces /\ Place(t)' \in WorkerPlaces
      /\ pc[t] \notin Counted /\ pc'[t] \notin Counted
  BY <1>3 DEF Place, At, WorkerPlaces, Counted
<1>6. GateCounts' /\ PassagesOK'
  <2>1. ASSUME NEW u \in Threads
        PROVE  /\ pc'[u] \in Counted => pc[u] = pc'[u] /\ bar'[u] = bar[u]
               /\ pc[u] \in Counted =>
                    pc'[u] = pc[u] \/ (pc[u] = "spin" /\ bar[u].passed # gate.passed)
               /\ bar'[u].passed \in {bar[u].passed, 0}
    BY <1>3, <1>5
  <2> QED BY <1>1, <1>4, <2>1, BarriersStay
<1>7. PendingOK'
  <2>1. n_graph.count <= n_graph.count
    BY <1>1, Typed
  <2> QED BY <1>1, <1>3, <1>4, <2>1 DEF PendingOK
<1>8. \A u \in Threads \ {t} : Place(u)' = Place(u)
  BY <1>4, OthersStay DEF OnlyMoves, Place, At
<1>9. ASSUME Quiet PROVE Quiet'
  <2>1. /\ Place(0)' = Place(0) /\ pc'[0] = pc[0]
    BY <1>3, <1>8, Sizes
  <2>2. \A u \in Threads \ {0} : /\ Place(u)' \in WorkerPlaces /\ ~work'[u].pending
                                 /\ u \in Active => work'[u].last = n_graph
    <3> TAKE u \in Threads \ {0}
    <3>1. CASE u = t
      BY <1>1, <1>3, <1>5, <1>9, <3>1 DEF Quiet
    <3>2. CASE u # t
      BY <1>3, <1>8, <1>9, <3>2 DEF Quiet
    <3> QED BY <3>1, <3>2
  <2>3. Result' <=> Result
    BY <1>4 DEF Result, Whole, NumChunks, N
  <2> QED BY <1>4, <1>9, <2>1, <2>2, <2>3 DEF Quiet, At
<1>10. ASSUME NEW s \in Segments, Computing(s) PROVE Computing(s)'
  <2>1. SegmentOK(s)'
    BY <1>10 DEF Computing, SegmentOK, EmptyTo
  <2>2. \A u \in Active \ {t} : InSegment(u, s)'
    BY <1>1, <1>4, <1>10, OthersStay DEF Computing
  <2>3. t \in Active => InSegment(t, s)'
    <3> SUFFICES ASSUME t \in Active PROVE Early(t, s)'
      BY DEF InSegment
    <3>1. Early(t, s)
      BY <1>5, <1>10 DEF Computing, InSegment, Working, Past, InBarrier, BarrierPlaces,
                         WorkerPlaces
    <3>2. s.first = 0 /\ s.part # "product" /\ ToStart(t)
      BY <1>5, <3>1 DEF Early, WorkerPlaces
    <3>3. ToStart(t)'
      BY <1>1, <1>3, <1>5, <3>2 DEF ToStart
    <3> QED BY <3>2, <3>3 DEF Early
  <2>4. \A u \in Threads \ Active : Place(u)' \in WorkerPlaces
    BY <1>5, <1>8, <1>10 DEF Computing
  <2>5. \A u \in Active \ {0} : Place(u)' \notin WorkerPlaces => work'[u].last = n_graph
    BY <1>1, <1>3, <1>5, <1>8, <1>10 DEF Computing
  <2>6. OutputOK(s)'
    <3>1. CASE t \in Active
      <4>1. ~Past(t, s) /\ ~Past(t, s)'
        BY <1>5 DEF Past, InBarrier, BarrierPlaces, WorkerPlaces
      <4>2. Claims(t) = {} /\ Claims(t)' = {}
        BY <1>5 DEF Claims, WorkerPlaces
      <4>3. /\ Place(t) \notin {"first", "compute", "next", "after"}
            /\ Place(t)' \notin {"first", "compute", "next", "after"} /\ OutputOK(s)
        BY <1>5, <1>10 DEF WorkerPlaces, Computing
      <4> QED BY <1>1, <1>4, <3>1, <4>1, <4>2, <4>3, OutputStays
    <3>2. CASE t \notin Active
      <4>1. 0 \in Active /\ 0 # t
        BY <1>1, <1>10, Typed, Sizes DEF Computing
      <4>2. \A u \in Active : /\ Place(u)' = Place(u) /\ Claims(u)' = Claims(u)
                              /\ (Past(u, s)' <=> Past(u, s))
        BY <1>1, <1>4, <3>2, OthersStay
      <4>3. \A n, m : OutputTo(n, m)' <=> OutputTo(n, m)
        BY <1>4 DEF OutputTo, Whole, NumChunks, N
      <4>4. ProductOK(s.node)' <=> ProductOK(s.node)
        BY <1>4, <4>2 DEF ProductOK, NumChunks
      <4> QED BY <1>4, <1>10, <4>1, <4>2, <4>3, <4>4 DEF OutputOK, Computing
    <3> QED BY <3>1, <3>2
  <2> QED BY <1>1, <1>4, <1>10, <2>1, <2>2, <2>3, <2>4, <2>5, <2>6 DEF Computing
<1> QED BY <1>2, <1>6, <1>7, <1>9, <1>10 DEF ThreadsInv

LEMMA GraphTyped == TypeOK => n_graph \in GraphIds
BY DEF TypeOK

\* The worker's step, when it leaves its orders as they are.
LEMMA WorkerStays ==
  ASSUME ThreadsInv, NEW t \in Threads, t # 0, pc[t] \in WorkerPlaces, ~work[t].pending,
         NEW place \in WorkerPlaces, pc' = [pc EXCEPT ![t] = place], Unchanged, work' = work
  PROVE  ThreadsInv'
<1>1. work[t] \in Orders /\ work' = [work EXCEPT ![t] = work[t]]
  BY DEF ThreadsInv, TypeOK, Orders
<1> QED BY <1>1, WorkerMove DEF Unchanged, Graph

\* A worker that has seen the graph.
LEMMA SeesGraphInv ==
  ASSUME ThreadsInv, NEW t \in Threads, t # 0, pc[t] \in WorkerPlaces, SeesGraph(t),
         NEW place \in WorkerPlaces, t < n_graph.threads => place = "run",
         pc' = [pc EXCEPT ![t] = place], Unchanged
  PROVE  ThreadsInv'
<1>1. n_graph \in GraphIds
  BY GraphTyped DEF ThreadsInv
<1> DEFINE w == [last |-> n_graph, pending |-> t < n_graph.threads]
<1>2. w \in Orders /\ w.last = n_graph /\ (w.pending <=> t < n_graph.threads)
  <2>1. CASE t < n_graph.threads
    <3>1. w = [last |-> n_graph, pending |-> TRUE]
      BY <2>1
    <3> HIDE DEF w
    <3> QED BY <1>1, <2>1, <3>1 DEF Orders
  <2>2. CASE ~(t < n_graph.threads)
    <3>1. w = [last |-> n_graph, pending |-> FALSE]
      <4>1. (t < n_graph.threads) = FALSE
        BY <2>2
      <4> QED BY <4>1, Zenon
    <3> HIDE DEF w
    <3> QED BY <1>1, <2>2, <3>1 DEF Orders
  <2> QED BY <2>1, <2>2
<1>3. work' = [work EXCEPT ![t] = w] /\ work[t].last # n_graph
  BY DEF SeesGraph
<1> HIDE DEF w
<1> QED BY <1>2, <1>3, WorkerMove DEF Unchanged, Graph, N

LEMMA RunPendingInv ==
  ASSUME ThreadsInv, NEW t \in Threads, t # 0, RunPending(t)
  PROVE  ThreadsInv'
<1>1. TypeOK /\ PendingOK /\ GateCounts /\ PassagesOK /\ pc[t] = "run" /\ pc[t] \in WorkerPlaces
  BY DEF ThreadsInv, RunPending, At, WorkerPlaces
<1>2. CASE ~work[t].pending
  <2>1. /\ work' = [work EXCEPT ![t].pending = FALSE] /\ Unchanged
        /\ pc' = [pc EXCEPT ![t] = "top"] /\ work[t].pending \in BOOLEAN
    BY <1>1, <1>2, ThreadTyped DEF RunPending, Goto
  <2>2. work' = work
    BY <1>1, <1>2, <2>1 DEF TypeOK
  <2> QED BY <1>1, <1>2, <2>1, <2>2, WorkerStays DEF WorkerPlaces
<1>3. CASE work[t].pending
  <2> PICK w : w = [work[t] EXCEPT !.pending = FALSE]
    OBVIOUS
  <2>1. /\ work[t] \in Orders /\ w \in Orders /\ w.last = work[t].last /\ ~w.pending
    BY <1>1 DEF TypeOK, Orders
  <2>2. /\ work' = [work EXCEPT ![t] = w] /\ pc' = [pc EXCEPT ![t] = "start"]
        /\ n_graph' = n_graph /\ gate' = gate /\ flags' = flags /\ at' = at /\ bar' = bar
        /\ chunk' = chunk /\ abort' = abort /\ output' = output
    BY <1>1, <1>3 DEF RunPending, Goto, Unchanged, Graph, TypeOK
  <2>3. TypeOK'
    BY <1>1, <2>1, <2>2 DEF TypeOK, Places, Orders
  <2>4. /\ pc'[t] = "start" /\ work'[t] = w
        /\ \A u \in Threads \ {t} : pc'[u] = pc[u] /\ work'[u] = work[u]
    BY <1>1, <2>2 DEF TypeOK
  <2>5. OnlyMoves(t) /\ N' = N /\ Active' = Active /\ Active \subseteq Threads
    BY <1>1, <2>2, <2>4, Typed DEF OnlyMoves, N, Active
  <2>6. /\ Place(t) = "run" /\ Place(t)' = "start"
        /\ pc[t] \notin Counted /\ pc'[t] \notin Counted
    BY <1>1, <2>4 DEF Place, At, Counted
  <2>7. GateCounts' /\ PassagesOK'
    <3>1. ASSUME NEW u \in Threads
          PROVE  /\ pc'[u] \in Counted => pc[u] = pc'[u] /\ bar'[u] = bar[u]
                 /\ pc[u] \in Counted =>
                      pc'[u] = pc[u] \/ (pc[u] = "spin" /\ bar[u].passed # gate.passed)
                 /\ bar'[u].passed \in {bar[u].passed, 0}
      BY <2>2, <2>4, <2>6
    <3> QED BY <1>1, <2>2, <2>5, <3>1, BarriersStay
  <2>8. PendingOK'
    <3> SUFFICES ASSUME NEW u \in Threads
                 PROVE  /\ work'[u].last.count <= n_graph'.count
                        /\ work'[u].pending =>
                             pc'[u] = "run" /\ u \in Active' /\ work'[u].last = n_graph'
      BY DEF PendingOK
    <3>1. CASE u = t
      BY <1>1, <2>1, <2>2, <2>4, <3>1 DEF PendingOK
    <3>2. CASE u # t
      BY <1>1, <2>2, <2>4, <2>5, <3>2 DEF PendingOK
    <3> QED BY <3>1, <3>2
  <2>9. t \in Active /\ work[t].last = n_graph
    BY <1>1, <1>3 DEF PendingOK
  <2>10. ~Quiet
    BY <1>3 DEF Quiet
  <2>11. PICK s \in Segments : Computing(s)
    BY <2>10 DEF ThreadsInv
  <2>12. \A u \in Threads \ {t} : Place(u)' = Place(u)
    BY <2>5 DEF OnlyMoves, Place, At
  <2>13. s.first = 0 /\ s.part # "product"
    BY <2>6, <2>9, <2>11 DEF Computing, InSegment, Early, Working, Past, InBarrier, BarrierPlaces
  <2>14. InSegment(t, s)'
    BY <2>6, <2>13 DEF InSegment, Early
  <2>15. \A u \in Active \ {t} : InSegment(u, s)'
    BY <2>2, <2>5, <2>11, OthersStay DEF Computing
  <2>16. SegmentOK(s)'
    BY <2>2, <2>11 DEF Computing, SegmentOK, EmptyTo
  <2>17. OutputOK(s)'
    <3>1. ~Past(t, s) /\ ~Past(t, s)' /\ Claims(t) = {} /\ Claims(t)' = {}
      BY <2>6 DEF Past, InBarrier, BarrierPlaces, Claims
    <3> QED BY <2>2, <2>5, <2>6, <2>9, <2>11, <3>1, OutputStays DEF Computing
  <2>18. \A u \in Threads \ Active : Place(u)' \in WorkerPlaces
    BY <2>9, <2>11, <2>12 DEF Computing
  <2>19. \A u \in Active \ {0} : Place(u)' \notin WorkerPlaces => work'[u].last = n_graph
    <3>1. work'[t].last = n_graph
      BY <2>1, <2>4, <2>9
    <3>2. \A u \in Active \ {0, t} : Place(u)' \notin WorkerPlaces => work'[u].last = n_graph
      BY <2>4, <2>5, <2>11, <2>12 DEF Computing
    <3> QED BY <3>1, <3>2
  <2>20. Computing(s)'
    BY <2>2, <2>5, <2>11, <2>14, <2>15, <2>16, <2>17, <2>18, <2>19 DEF Computing
  <2> QED BY <2>3, <2>7, <2>8, <2>20 DEF ThreadsInv
<1> QED BY <1>2, <1>3

LEMMA WorkerInv ==
  ASSUME ThreadsInv, NEW t \in Threads, t # 0, WorkerStep(t)
  PROVE  ThreadsInv'
<1>1. \A p : At(t, p) /\ p # "run" => pc[t] = p /\ ~work[t].pending
  BY DEF At, ThreadsInv, PendingOK
<1>2. CASE TestPause(t)
  <2>1. /\ pc[t] \in WorkerPlaces /\ ~work[t].pending /\ Unchanged /\ work' = work
        /\ \E p \in WorkerPlaces : pc' = [pc EXCEPT ![t] = p]
    BY <1>1, <1>2 DEF TestPause, WorkerPlaces, Goto
  <2> QED BY <2>1, WorkerStays
<1>3. CASE WaitWhilePaused(t)
  <2>1. /\ pc[t] \in WorkerPlaces /\ ~work[t].pending /\ Unchanged /\ work' = work
        /\ \E p \in WorkerPlaces : pc' = [pc EXCEPT ![t] = p]
    BY <1>1, <1>3 DEF WaitWhilePaused, WorkerPlaces, Goto
  <2> QED BY <2>1, WorkerStays
<1>4. CASE TestStop(t)
  <2>1. /\ pc[t] \in WorkerPlaces /\ ~work[t].pending /\ Unchanged /\ work' = work
        /\ \E p \in WorkerPlaces : pc' = [pc EXCEPT ![t] = p]
    BY <1>1, <1>4 DEF TestStop, WorkerPlaces, Goto
  <2> QED BY <2>1, WorkerStays
<1>5. CASE PollFlags(t)
  <2>1. /\ pc[t] \in WorkerPlaces /\ ~work[t].pending /\ Unchanged /\ work' = work
        /\ \E p \in WorkerPlaces : pc' = [pc EXCEPT ![t] = p]
    BY <1>1, <1>5 DEF PollFlags, WorkerPlaces, Goto
  <2> QED BY <2>1, WorkerStays
<1>6. CASE PollGraph(t)
  <2>1. pc[t] \in WorkerPlaces /\ ~work[t].pending /\ Unchanged
    BY <1>1, <1>6 DEF PollGraph, WorkerPlaces
  <2>2. \/ /\ SeesGraph(t)
           /\ \E p \in WorkerPlaces : /\ pc' = [pc EXCEPT ![t] = p]
                                      /\ t < n_graph.threads => p = "run"
        \/ work' = work /\ \E p \in WorkerPlaces : pc' = [pc EXCEPT ![t] = p]
    BY <1>6 DEF PollGraph, WorkerPlaces, Goto
  <2> QED BY <2>1, <2>2, WorkerStays, SeesGraphInv
<1>7. CASE WaitForWork(t)
  <2>1. pc[t] \in WorkerPlaces /\ ~work[t].pending /\ Unchanged
    BY <1>1, <1>7 DEF WaitForWork, WorkerPlaces
  <2>2. \/ /\ SeesGraph(t)
           /\ \E p \in WorkerPlaces : /\ pc' = [pc EXCEPT ![t] = p]
                                      /\ t < n_graph.threads => p = "run"
        \/ work' = work /\ \E p \in WorkerPlaces : pc' = [pc EXCEPT ![t] = p]
    BY <1>7 DEF WaitForWork, WorkerPlaces, Goto
  <2> QED BY <2>1, <2>2, WorkerStays, SeesGraphInv
<1>8. CASE RunPending(t)
  BY <1>8, RunPendingInv
<1> QED BY <1>2, <1>3, <1>4, <1>5, <1>6, <1>7, <1>8 DEF WorkerStep

LEMMA SpuriousWakeupInv ==
  ASSUME ThreadsInv, NEW t \in Threads, SpuriousWakeup(t)
  PROVE  ThreadsInv'
<1>1. pc[t] \in {"waiting", "paused"} /\ Unchanged /\ work' = work
      /\ pc' = [pc EXCEPT ![t] = Woken(pc[t])]
  BY DEF SpuriousWakeup, Goto
<1>2. pc[t] \in WorkerPlaces /\ Place(t) = pc[t] /\ Woken(pc[t]) \in WorkerPlaces
  BY <1>1 DEF WorkerPlaces, Place, At, Woken
<1>3. t # 0
  BY <1>2, CallerApart
<1>4. ~work[t].pending
  BY <1>1 DEF ThreadsInv, PendingOK
<1> QED BY <1>1, <1>2, <1>3, <1>4, WorkerStays

-----------------------------------------------------------------------------
(* The calls.                                                              *)

LEMMA WokenFacts ==
  /\ \A p \in WorkerPlaces : Woken(p) \in WorkerPlaces
  /\ \A p : p \notin {"waiting", "paused"} => Woken(p) = p
  /\ \A p : p # "waiting" /\ p # "paused" => Woken(p) # "waiting"
BY DEF Woken, WorkerPlaces

\* Between the graphs nobody is in a barrier, and it counts nobody.
LEMMA QuietFacts ==
  ASSUME ThreadsInv, pc[0] \in CallerPlaces
  PROVE  /\ Quiet /\ Place(0) = pc[0] /\ TypeOK
         /\ \A t \in Threads : pc[t] \notin {"count", "reset", "open"} /\ ~work[t].pending
         /\ \A t \in Threads : pc[t] = "spin" => bar[t].passed # gate.passed
         /\ Spinning = {} /\ gate.count = 0
<1>1. Place(0) = pc[0] /\ 0 \in Threads /\ TypeOK
  BY Sizes DEF Place, At, CallerPlaces, ThreadsInv
<1>2. Quiet
  BY <1>1, CallerApart
<1>3. ASSUME NEW t \in Threads
      PROVE  /\ pc[t] \notin {"count", "reset", "open"} /\ ~work[t].pending
             /\ pc[t] = "spin" => bar[t].passed # gate.passed
  <2>1. Place(t) \in WorkerPlaces \cup CallerPlaces
    BY <1>2 DEF Quiet
  <2>2. ~work[t].pending
    BY <1>1, <1>2 DEF Quiet, ThreadsInv, PendingOK, CallerPlaces
  <2> QED BY <2>1, <2>2 DEF Place, At, WorkerPlaces, CallerPlaces
<1>4. Spinning = {}
  BY <1>3 DEF Spinning, At
<1>5. gate.count = 0
  BY <1>3, <1>4, FS_EmptySet DEF ThreadsInv, GateCounts
<1> QED BY <1>1, <1>2, <1>3, <1>4, <1>5

\* A step of the caller may wake workers.
Calls ==
  /\ gate' = gate /\ bar' = bar /\ at' = at /\ work' = work
  /\ \A u \in Threads \ {0} : pc'[u] \in {pc[u], Woken(pc[u])}

LEMMA WakingStays ==
  ASSUME ThreadsInv, pc[0] \in CallerPlaces, Calls, pc'[0] \in CallerPlaces \cup {"start"}
  PROVE  /\ Place(0)' = pc'[0]
         /\ \A u \in Threads \ {0} : Place(u)' \in WorkerPlaces
         /\ \A u \in Threads : pc'[u] \notin {"count", "reset", "open"} /\ ~work'[u].pending
         /\ Spinning' = {}
<1>1. \A u \in Threads \ {0} :
        /\ pc[u] = "spin" => pc'[u] = "spin"
        /\ pc[u] # "spin" => pc'[u] # "spin" /\ pc[u] \in WorkerPlaces /\ pc'[u] \in WorkerPlaces
  <2> TAKE u \in Threads \ {0}
  <2>1. CASE pc[u] = "spin"
    BY <2>1, WokenFacts DEF Calls
  <2>2. CASE pc[u] # "spin"
    <3>1. pc[u] \in WorkerPlaces
      BY <2>2, QuietFacts DEF Quiet, Place, At
    <3>2. pc'[u] \in WorkerPlaces
      BY <3>1, WokenFacts DEF Calls
    <3> QED BY <2>2, <3>1, <3>2 DEF WorkerPlaces
  <2> QED BY <2>1, <2>2
<1>2. Place(0)' = pc'[0]
  BY DEF Place, At, CallerPlaces
<1>3. \A u \in Threads \ {0} : Place(u)' \in WorkerPlaces
  <2> TAKE u \in Threads \ {0}
  <2>1. CASE pc[u] = "spin"
    BY <1>1, <2>1, QuietFacts DEF Calls, Quiet, Place, At
  <2>2. CASE pc[u] # "spin"
    BY <1>1, <2>2 DEF Place, At
  <2> QED BY <2>1, <2>2
<1>4. \A u \in Threads : pc'[u] \notin {"count", "reset", "open"} /\ ~work'[u].pending
  BY <1>1, QuietFacts DEF Calls, WorkerPlaces, CallerPlaces
<1>5. Spinning' = {}
  <2> SUFFICES ASSUME NEW u \in Threads, pc'[u] = "spin", bar'[u].passed = gate'.passed
               PROVE  FALSE
    BY DEF Spinning, At
  <2>1. u # 0
    BY DEF CallerPlaces
  <2> QED BY <1>1, <2>1, QuietFacts DEF Calls
<1> QED BY <1>2, <1>3, <1>4, <1>5

\* A call that leaves the pool without a graph.
LEMMA CallsInv ==
  ASSUME ThreadsInv, pc[0] \in CallerPlaces, Calls, TypeOK', n_graph' = n_graph,
         pc'[0] \in CallerPlaces,
         pc'[0] = "idle" => pc[0] = "idle" /\ abort' = abort /\ output' = output,
         pc'[0] = "kickoff" =>
           /\ n_graph.count < MaxGraphs
           /\ chunk' = 0 /\ abort' = -1 /\ \A n \in Nodes : output'[n] = {}
  PROVE  ThreadsInv'
<1>1. /\ Place(0)' = pc'[0]
      /\ \A u \in Threads \ {0} : Place(u)' \in WorkerPlaces
      /\ \A u \in Threads : pc'[u] \notin {"count", "reset", "open"} /\ ~work'[u].pending
      /\ Spinning' = {}
  BY WakingStays
<1>2. /\ Quiet /\ gate'.count = 0 /\ gate' = gate /\ work' = work /\ bar' = bar
      /\ N' = N /\ Active' = Active /\ Place(0) = pc[0]
  BY QuietFacts DEF Calls, N, Active
<1>3. GateCounts' /\ PassagesOK' /\ PendingOK'
  <2>1. GateCounts'
    BY <1>1, <1>2, FS_EmptySet DEF GateCounts
  <2>2. PassagesOK'
    BY <1>1, <1>2 DEF ThreadsInv, PassagesOK
  <2>3. PendingOK'
    BY <1>1, <1>2 DEF ThreadsInv, PendingOK
  <2> QED BY <2>1, <2>2, <2>3
<1>4. Quiet'
  <2>1. \A u \in Threads \ {0} : u \in Active => work'[u].last = n_graph
    BY <1>2 DEF Quiet
  <2>2. pc'[0] = "idle" => (Result' <=> Result)
    BY <1>2 DEF Result, Whole, NumChunks, N
  <2> QED BY <1>1, <1>2, <2>1, <2>2 DEF Quiet, At
<1> QED BY <1>3, <1>4 DEF ThreadsInv

LEMMA BroadcastFacts ==
  ASSUME TypeOK, NEW place \in Places, Broadcast(place)
  PROVE  /\ pc' \in [Threads -> Places] /\ pc'[0] = place
         /\ \A u \in Threads \ {0} : pc'[u] = Woken(pc[u])
<1>1. \A u \in Threads : Woken(pc[u]) \in Places
  BY DEF TypeOK, Woken, Places
<1> QED BY <1>1, Sizes DEF Broadcast

LEMMA CallInv ==
  ASSUME ThreadsInv, Call \/ Join
  PROVE  ThreadsInv'
<1>1. TypeOK
  BY DEF ThreadsInv
<1>2. CASE Compute
  <2>1. /\ pc[0] = "idle" /\ n_graph.count < MaxGraphs
        /\ chunk' = 0 /\ abort' = -1 /\ output' = [n \in Nodes |-> {}]
        /\ pc' = [pc EXCEPT ![0] = "kickoff"]
        /\ n_graph' = n_graph /\ gate' = gate /\ flags' = flags
        /\ at' = at /\ bar' = bar /\ work' = work
    BY <1>2 DEF Compute, At, Goto
  <2>2. TypeOK'
    BY <1>1, <2>1, Sizes DEF TypeOK, Places
  <2>3. pc'[0] = "kickoff" /\ \A u \in Threads \ {0} : pc'[u] = pc[u]
    BY <1>1, <2>1, Sizes DEF TypeOK
  <2> QED BY <2>1, <2>2, <2>3, CallsInv DEF Calls, CallerPlaces
<1>3. ASSUME NEW paused \in BOOLEAN, SetPause(paused) PROVE ThreadsInv'
  <2>1. /\ pc[0] = "idle" /\ flags' = [flags EXCEPT !.pause = paused] /\ Broadcast("idle")
        /\ n_graph' = n_graph /\ gate' = gate /\ chunk' = chunk /\ abort' = abort
        /\ output' = output /\ at' = at /\ bar' = bar /\ work' = work
    BY <1>3 DEF SetPause, At, Graph
  <2>2. /\ pc' \in [Threads -> Places] /\ pc'[0] = "idle"
        /\ \A u \in Threads \ {0} : pc'[u] = Woken(pc[u])
    BY <1>1, <2>1, BroadcastFacts DEF Places
  <2>3. TypeOK'
    BY <1>1, <2>1, <2>2 DEF TypeOK
  <2> QED BY <2>1, <2>2, <2>3, CallsInv DEF Calls, CallerPlaces
<1>4. CASE Free
  <2>1. /\ pc[0] = "idle" /\ flags' = [stop |-> TRUE, pause |-> FALSE] /\ Broadcast("join")
        /\ n_graph' = n_graph /\ gate' = gate /\ chunk' = chunk /\ abort' = abort
        /\ output' = output /\ at' = at /\ bar' = bar /\ work' = work
    BY <1>4 DEF Free, At, Graph
  <2>2. /\ pc' \in [Threads -> Places] /\ pc'[0] = "join"
        /\ \A u \in Threads \ {0} : pc'[u] = Woken(pc[u])
    BY <1>1, <2>1, BroadcastFacts DEF Places
  <2>3. TypeOK'
    BY <1>1, <2>1, <2>2 DEF TypeOK
  <2> QED BY <2>1, <2>2, <2>3, CallsInv DEF Calls, CallerPlaces
<1>5. CASE Join
  <2>1. /\ pc[0] = "join" /\ pc' = [pc EXCEPT ![0] = "freed"]
        /\ n_graph' = n_graph /\ gate' = gate /\ flags' = flags /\ chunk' = chunk
        /\ abort' = abort /\ output' = output /\ at' = at /\ bar' = bar /\ work' = work
    BY <1>5 DEF Join, At, Goto, Unchanged, Graph
  <2>2. TypeOK'
    BY <1>1, <2>1 DEF TypeOK, Places
  <2>3. pc'[0] = "freed" /\ \A u \in Threads \ {0} : pc'[u] = pc[u]
    BY <1>1, <2>1, Sizes DEF TypeOK
  <2> QED BY <2>1, <2>2, <2>3, CallsInv DEF Calls, CallerPlaces
<1> QED BY <1>2, <1>3, <1>4, <1>5 DEF Call

\* The threads of a graph that is announced have not seen it.
LEMMA KickoffInv ==
  ASSUME ThreadsInv, NEW nth \in 1..NumThreads, Kickoff(nth)
  PROVE  ThreadsInv'
<1>1. /\ TypeOK /\ pc[0] = "kickoff" /\ n_graph' = [count |-> n_graph.count + 1, threads |-> nth]
      /\ flags' = [flags EXCEPT !.pause = FALSE] /\ Broadcast("start")
      /\ gate' = gate /\ chunk' = chunk /\ abort' = abort /\ output' = output
      /\ at' = at /\ bar' = bar /\ work' = work
  BY DEF ThreadsInv, Kickoff, At, Graph
<1>2. /\ pc' \in [Threads -> Places] /\ pc'[0] = "start"
      /\ \A u \in Threads \ {0} : pc'[u] = Woken(pc[u])
  BY <1>1, BroadcastFacts DEF Places
<1>3. /\ Quiet /\ gate.count = 0 /\ n_graph.count < MaxGraphs
      /\ abort = -1 /\ \A n \in Nodes : output[n] = {}
  <2>1. Quiet /\ gate.count = 0
    BY <1>1, QuietFacts DEF CallerPlaces
  <2> QED BY <1>1, <2>1 DEF Quiet, At
<1>4. /\ N' = nth /\ nth \in 1..NumThreads /\ Active' = 0..(nth - 1) /\ 0 \in Active'
      /\ n_graph'.count = n_graph.count + 1
      /\ n_graph.count \in 0..MaxGraphs
  BY <1>1, Typed, Sizes DEF N, Active
<1>5. n_graph' \in GraphIds
  BY <1>1, <1>3, <1>4, Sizes DEF GraphIds
<1>6. TypeOK'
  BY <1>1, <1>2, <1>5 DEF TypeOK
<1>7. /\ Place(0)' = "start"
      /\ \A u \in Threads \ {0} : Place(u)' \in WorkerPlaces
      /\ \A u \in Threads : pc'[u] \notin {"count", "reset", "open"} /\ ~work'[u].pending
      /\ Spinning' = {}
  BY <1>1, <1>2, WakingStays DEF Calls, CallerPlaces
<1>8. GateCounts' /\ PassagesOK'
  <2>1. GateCounts'
    BY <1>1, <1>3, <1>7, FS_EmptySet DEF GateCounts
  <2>2. PassagesOK'
    BY <1>1, <1>7 DEF ThreadsInv, PassagesOK
  <2> QED BY <2>1, <2>2
<1>9. \A u \in Threads : work[u].last.count \in Nat /\ work[u].last.count <= n_graph.count
  <2>1. \A u \in Threads : work[u].last \in GraphIds
    BY <1>1, ThreadTyped
  <2> QED BY <2>1, Sizes DEF GraphIds, ThreadsInv, PendingOK
<1>10. PendingOK'
  BY <1>1, <1>4, <1>7, <1>9 DEF PendingOK
<1>11. PICK r \in Segments : r.first = 0 /\ r.node = 0 /\ r.part = "early"
  <2>1. 0 \in 0..NumNodes /\ "early" \in {"early", "enter", "rows", "product", "leave"}
    BY Sizes
  <2> QED BY <2>1, SegmentExists
<1>12. SegmentOK(r)'
  BY <1>1, <1>3, <1>11, Sizes DEF SegmentOK, EmptyTo
<1>13. OutputOK(r)'
  BY <1>1, <1>3, <1>11, Sizes DEF OutputOK, OutputTo
<1>14. \A u \in Threads : InSegment(u, r)'
  <2>1. InSegment(0, r)'
    BY <1>7, <1>11 DEF InSegment, Early
  <2>2. ASSUME NEW u \in Threads \ {0} PROVE InSegment(u, r)'
    <3>1. work'[u].last # n_graph'
      BY <1>1, <1>4, <1>9
    <3> QED BY <1>7, <1>11, <3>1 DEF InSegment, Early, ToStart
  <2> QED BY <2>1, <2>2
<1>15. Computing(r)'
  <2>1. Active' \subseteq Threads
    BY <1>4, Sizes DEF Threads
  <2> QED BY <1>4, <1>7, <1>12, <1>13, <1>14, <2>1 DEF Computing
<1> QED BY <1>6, <1>8, <1>10, <1>15 DEF ThreadsInv

-----------------------------------------------------------------------------
(* The specification.                                                      *)

LEMMA InitInv == Init => ThreadsInv
<1> SUFFICES ASSUME Init PROVE ThreadsInv
  OBVIOUS
<1>1. /\ n_graph = [count |-> 0, threads |-> 0] /\ gate = [count |-> 0, passed |-> 0]
      /\ chunk = 0 /\ abort = -1 /\ flags \in [stop : BOOLEAN, pause : BOOLEAN]
      /\ output = [n \in Nodes |-> {}]
      /\ pc = [t \in Threads |-> IF t = 0 THEN "idle" ELSE "top"]
      /\ at = [t \in Threads |-> Nowhere] /\ bar = [t \in Threads |-> Outside]
      /\ work = [t \in Threads |-> [last |-> n_graph, pending |-> FALSE]]
  BY DEF Init
<1>2. n_graph \in GraphIds /\ n_graph.count = 0 /\ n_graph.threads = 0
  BY <1>1, Sizes DEF GraphIds
<1>3. /\ Nowhere \in Counters /\ Outside \in Passages /\ Outside.passed = 0
  BY Sizes DEF Nowhere, Outside, Counters, Passages
<1>4. \A t \in Threads : /\ pc[t] = (IF t = 0 THEN "idle" ELSE "top")
                         /\ bar[t].passed = 0 /\ work[t].last = n_graph /\ ~work[t].pending
  BY <1>1, <1>3
<1>5. TypeOK
  <2>1. pc \in [Threads -> Places]
    BY <1>1 DEF Places
  <2>2. at \in [Threads -> Counters] /\ bar \in [Threads -> Passages]
    BY <1>1, <1>3
  <2>3. work \in [Threads -> [last : GraphIds, pending : BOOLEAN]]
    BY <1>1, <1>2
  <2>4. chunk \in Nat /\ abort \in Nodes \cup {-1, NumNodes} /\ output \in [Nodes -> SUBSET Nat]
        /\ gate \in [count : Nat, passed : Nat]
    BY <1>1
  <2> QED BY <1>1, <1>2, <2>1, <2>2, <2>3, <2>4 DEF TypeOK, Counters, Passages
<1>6. Spinning = {} /\ Active = {}
  BY <1>2, <1>4 DEF Spinning, At, Active
<1>7. GateCounts
  BY <1>1, <1>4, <1>6, FS_EmptySet DEF GateCounts
<1>8. PassagesOK /\ PendingOK
  BY <1>1, <1>2, <1>4 DEF PassagesOK, PendingOK
<1>9. Quiet
  <2>1. \A t \in Threads : Place(t) = pc[t]
    BY <1>4 DEF Place, At
  <2> QED BY <1>2, <1>4, <1>6, <2>1, Sizes DEF Quiet, At, WorkerPlaces, CallerPlaces
<1> QED BY <1>5, <1>7, <1>8, <1>9 DEF ThreadsInv

LEMMA ComputeStepInv ==
  ASSUME ThreadsInv, NEW t \in Threads, ComputeStep(t)
  PROVE  ThreadsInv'
<1>1. CASE Arrive(t)        BY <1>1, ArriveInv
<1>2. CASE Count(t)         BY <1>2, CountInv
<1>3. CASE ResetBarrier(t)  BY <1>3, ResetInv
<1>4. CASE Open(t)          BY <1>4, OpenInv
<1>5. CASE Spin(t)          BY <1>5, SpinInv
<1>6. CASE Start(t)         BY <1>6, StartInv
<1>7. CASE LeaveLoop(t)     BY <1>7, LeaveLoopInv
<1>8. CASE SkipEmpty(t)     BY <1>8, SkipEmptyInv
<1>9. CASE StartRows(t)     BY <1>9, StartRowsInv
<1>10. CASE StartProduct(t) BY <1>10, StartProductInv
<1>11. CASE FirstChunk(t)   BY <1>11, FirstChunkInv
<1>12. CASE ComputeChunk(t) BY <1>12, ComputeChunkInv
<1>13. CASE NextChunk(t)    BY <1>13, NextChunkInv
<1>14. CASE EndNode(t)      BY <1>14, EndNodeInv
<1> QED BY <1>1, <1>2, <1>3, <1>4, <1>5, <1>6, <1>7, <1>8, <1>9, <1>10, <1>11, <1>12,
           <1>13, <1>14 DEF ComputeStep

LEMMA NextInv == ThreadsInv /\ [Next]_vars => ThreadsInv'
<1> SUFFICES ASSUME ThreadsInv, [Next]_vars PROVE ThreadsInv'
  OBVIOUS
<1>1. CASE Call
  BY <1>1, CallInv
<1>2. ASSUME NEW t \in Threads, Step(t) PROVE ThreadsInv'
  BY <1>2, ComputeStepInv, WorkerInv, CallInv, KickoffInv DEF Step
<1>3. ASSUME NEW t \in Threads, SpuriousWakeup(t) PROVE ThreadsInv'
  BY <1>3, SpuriousWakeupInv
<1>4. CASE UNCHANGED vars
  <2>1. TypeOK' /\ GateCounts' /\ PassagesOK' /\ PendingOK'
    BY <1>4 DEF vars, ThreadsInv, TypeOK, GateCounts, PassagesOK, PendingOK, Spinning,
                Active, At, N
  <2>2. /\ N' = N /\ Active' = Active /\ \A t \in Threads : OnlyMoves(t) /\ Place(t)' = Place(t)
    BY <1>4 DEF vars, OnlyMoves, Place, At, N, Active
  <2>3. Quiet' <=> Quiet
    BY <1>4, <2>2, Sizes DEF vars, Quiet, Result, Whole, NumChunks, N, At
  <2>4. ASSUME NEW s \in Segments, Computing(s) PROVE Computing(s)'
    <3>1. SegmentOK(s)'
      BY <1>4, <2>4 DEF vars, Computing, SegmentOK, EmptyTo
    <3>2. Active \subseteq Threads /\ 0 \in Active
      BY <2>4, Typed, Sizes DEF Computing, ThreadsInv
    <3>3. ASSUME NEW t \in Threads
          PROVE  /\ InSegment(t, s)' <=> InSegment(t, s)
                 /\ Claims(t)' = Claims(t) /\ (Past(t, s)' <=> Past(t, s))
      <4>1. /\ Place(t)' = Place(t) /\ at' = at /\ bar' = bar /\ work' = work
            /\ N' = N /\ abort' = abort /\ n_graph' = n_graph
        BY <1>4, <2>2 DEF vars
      <4>2. Early(t, s)' <=> Early(t, s)
        BY <4>1 DEF Early, ToStart, EmptyTo
      <4>3. Working(t, s)' <=> Working(t, s)
        BY <4>1 DEF Working
      <4>4. Past(t, s)' <=> Past(t, s)
        BY <4>1 DEF Past, InBarrier, Continues, Returned
      <4>5. Claims(t)' = Claims(t)
        BY <4>1 DEF Claims
      <4> QED BY <4>2, <4>3, <4>4, <4>5 DEF InSegment
    <3>4. OutputOK(s)'
      <4>1. /\ OutputOK(s) /\ output' = output /\ chunk' = chunk /\ OnlyMoves(0)
            /\ Place(0)' = Place(0) /\ Claims(0)' = Claims(0) /\ (Past(0, s)' <=> Past(0, s))
        BY <1>4, <2>2, <2>4, <3>2, <3>3 DEF vars, Computing
      <4>2. \A n, m : OutputTo(n, m)' <=> OutputTo(n, m)
        BY <2>2, <4>1 DEF OutputTo, Whole, NumChunks, N
      <4>3. ProductOK(s.node)' <=> ProductOK(s.node)
        BY <2>2, <3>2, <3>3, <4>1 DEF ProductOK, NumChunks
      <4> QED BY <2>2, <3>2, <3>3, <4>1, <4>2, <4>3 DEF OutputOK
    <3>5. \A u \in Active : InSegment(u, s)'
      BY <2>4, <3>2, <3>3 DEF Computing
    <3>6. /\ \A u \in Threads \ Active : Place(u)' \in WorkerPlaces
          /\ \A u \in Active \ {0} : Place(u)' \notin WorkerPlaces => work'[u].last = n_graph'
      BY <1>4, <2>2, <2>4, <3>2 DEF vars, Computing
    <3>7. N' > 0
      BY <2>2, <2>4 DEF Computing
    <3> QED BY <2>2, <3>1, <3>4, <3>5, <3>6, <3>7 DEF Computing
  <2> QED BY <2>1, <2>3, <2>4 DEF ThreadsInv
<1> QED BY <1>1, <1>2, <1>3, <1>4 DEF Next

\* The threads of a pool go through a graph together: each is quiet, or in the
\* segment between two barriers in which all of its threads are.
THEOREM ThreadsInvariant == Spec => []ThreadsInv
BY InitInv, NextInv, PTL DEF Spec

\* ggml_barrier counts the threads that are in it, whatever passes it late.
THEOREM BarrierCounts == Spec => []PoolInv
<1>1. ThreadsInv => PoolInv
  BY DEF ThreadsInv, PoolInv
<1> QED BY <1>1, ThreadsInvariant, PTL

\* "No worker threads should be accessing the parameters below at this stage".
THEOREM ParametersAreFree == Spec => []ParametersAreQuiet
<1>1. ThreadsInv => ParametersAreQuiet
  <2> SUFFICES ASSUME ThreadsInv, pc[0] \in CallerPlaces, NEW t \in Threads \ {0}
               PROVE  pc[t] \notin Reading \cup {"reset", "open"}
    BY DEF ParametersAreQuiet, CallerPlaces
  <2>1. Place(t) \in WorkerPlaces
    BY QuietFacts DEF Quiet
  <2> QED BY <2>1 DEF Place, At, WorkerPlaces, Reading
<1> QED BY <1>1, ThreadsInvariant, PTL

LEMMA ComputedOnce ==
  ASSUME ThreadsInv, NEW t \in Threads, pc[t] = "compute"
  PROVE  /\ at[t].mine \notin output[at[t].node]
         /\ \A u \in Threads \ {t} : pc[u] = "compute" => at[u] # at[t]
         /\ \A n \in Nodes : n < at[t].node => Whole(n)
<1>1. TypeOK /\ Place(t) = "compute" /\ t \in Active
  BY ComputesFacts DEF Computes
<1>2. PICK s \in Segments :
        /\ Computing(s) /\ s.part \in {"rows", "product"} /\ at[t].node = s.node
        /\ s.part = "rows" => at[t].mine = t
  BY AtWork
<1>3. \A n \in Nodes : n < at[t].node => Whole(n)
  BY <1>2 DEF Computing, OutputOK, OutputTo
<1>4. ASSUME NEW u \in Threads \ {t}, pc[u] = "compute"
      PROVE  Place(u) = "compute" /\ u \in Active /\ InSegment(u, s)
  <2>1. Place(u) = "compute" /\ u \in Active
    BY <1>4, ComputesFacts DEF Computes
  <2> QED BY <1>2, <2>1 DEF Computing
<1>5. CASE s.part = "rows"
  <2>1. output[s.node] = {u \in Active : Place(u) = "after" \/ Past(u, s)}
    BY <1>2, <1>5 DEF Computing, OutputOK
  <2>2. ~Past(t, s)
    BY <1>1 DEF Past, InBarrier, BarrierPlaces
  <2>3. at[t].mine \notin output[at[t].node]
    BY <1>1, <1>2, <1>5, <2>1, <2>2
  <2>4. ASSUME NEW u \in Threads \ {t}, pc[u] = "compute" PROVE at[u].mine = u
    BY <1>4, <1>5, <2>4 DEF InSegment, Early, Working, Past, ToStart, InBarrier, BarrierPlaces,
                           WorkerPlaces
  <2> QED BY <1>2, <1>3, <1>5, <2>3, <2>4
<1>6. CASE s.part = "product"
  <2>1. ProductOK(s.node)
    BY <1>2, <1>6 DEF Computing, OutputOK
  <2>2. Claims(t) = {at[t].mine}
    BY <1>1 DEF Claims
  <2>3. at[t].mine \notin output[at[t].node]
    BY <1>1, <1>2, <2>1, <2>2 DEF ProductOK
  <2>4. ASSUME NEW u \in Threads \ {t}, pc[u] = "compute" PROVE at[u].mine # at[t].mine
    <3>1. Claims(u) = {at[u].mine} /\ u \in Active
      BY <1>4, <2>4 DEF Claims
    <3> QED BY <1>1, <2>1, <2>2, <3>1 DEF ProductOK
  <2> QED BY <1>3, <2>3, <2>4
<1> QED BY <1>2, <1>5, <1>6

\* A chunk is computed once and from whole inputs, and a graph that has
\* returned is whole up to where all of its threads left it.
THEOREM ChunksOnceInOrder == Spec => []NodesInOrder
<1>1. ThreadsInv => NodesInOrder
  <2> SUFFICES ASSUME ThreadsInv PROVE NodesInOrder
    OBVIOUS
  <2>1. At(0, "idle") /\ n_graph.count > 0 =>
          \A n \in Nodes : IF abort = -1 \/ n < abort THEN Whole(n) ELSE output[n] = {}
    BY QuietFacts DEF Quiet, Result, At, CallerPlaces
  <2> QED BY <2>1, ComputedOnce DEF NodesInOrder, At
<1> QED BY <1>1, ThreadsInvariant, PTL
=============================================================================
