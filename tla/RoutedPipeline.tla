---------------------------- MODULE RoutedPipeline ----------------------------
(***************************************************************************)
(* The routed-expert path of one model: the per-layer slot caches of       *)
(* PreadExpertStreamer, the Metal command queue, and the runner that plans,*)
(* reads and queues GPU work against the slots, for decode (produceToken)  *)
(* and for chunked prefill (executePrefillChunk with its tile pipeline).   *)
(*                                                                         *)
(* A slot is a buffer the CPU fills with pread and the GPU reads later.    *)
(* The eviction order (LRU or LFU) is left open: any evictable slot may be *)
(* the victim.                                                             *)
(***************************************************************************)
EXTENDS Integers, Sequences, FiniteSets, Functions

CONSTANTS
  NumLayers,        \* transformer layers, each with its own streamer
  Experts,          \* routed experts of a layer
  Slots,            \* slots of a layer's streamer
  TopK,             \* experts the router picks for one token
  TileExperts,      \* experts in a prefill tile
  MaxPendingDepth,  \* prefill tiles whose command buffer may stay pending
  MaxQueued,        \* uncompleted buffers at which makeCommandBuffer blocks
  NoExpert          \* slotExpert's -1; also the bytes of a torn slot

SlotCount == Cardinality(Slots)

ASSUME LayersAssumption == NumLayers \in Nat \ {0}
ASSUME NoExpertAssumption == NoExpert \notin Experts
ASSUME SlotsAssumption == IsFiniteSet(Slots) /\ IsFiniteSet(Experts)
ASSUME TopKAssumption == TopK \in 1..SlotCount
ASSUME QueueAssumption == MaxQueued \in Nat \ {0, 1}
ASSUME TileAssumption ==
  TileExperts \in Nat \ {0} /\ MaxPendingDepth \in Nat \ {0}

VARIABLES
  slotExpert,  \* per layer and slot: the expert the cache records, or NoExpert
  bytes,       \* per layer and slot: the expert whose blob the buffer holds
  reading,     \* preads under way: bindings of the current layer
  failed,      \* executeExpertCachePlan's firstError is set
  queue,       \* committed command buffers, oldest first
  pc,          \* where the runner is
  mode,        \* which of the two paths runs
  layer,       \* the layer loop's L
  assigned,    \* the plan in hand: experts bound to slots
  missing,     \* the bindings of the plan that are misses
  tile,        \* prefill: experts of the current tile
  remaining,   \* prefill: routed experts of the chunk not yet in a tile
  tileIndex,   \* prefill: index of the current tile
  pending,     \* prefill: pendingTiles, oldest first
  lifetime     \* prefill: PrefillStreamedTileSlotLifetime

cache == <<slotExpert, bytes, reading, failed>>
tiles == <<tile, remaining, tileIndex, pending, lifetime>>
plan  == <<assigned, missing>>
vars  == <<slotExpert, bytes, reading, failed, queue, pc, mode, layer,
           assigned, missing, tile, remaining, tileIndex, pending, lifetime>>

Layers  == 1..NumLayers
Binding == [slot : Slots, expert : Experts]

SlotsOf(B)   == {b.slot : b \in B}
ExpertsOf(B) == {b.expert : b \in B}

(***************************************************************************)
(* A command buffer as far as slots go: the layer and the bindings its     *)
(* kernels read, and the tile it belongs to (NoTile outside the tile loop).*)
(***************************************************************************)
NoTile == -1
CommandBuffer ==
  [layer : Layers, tile : Nat \cup {NoTile}, uses : SUBSET Binding]
PendingTile ==
  [tile : Nat, slots : SUBSET Slots, missSlots : SUBSET Slots]

Buffer(t, B) == [layer |-> layer, tile |-> t, uses |-> B]
Room(n)      == Len(queue) + n <= MaxQueued
Commit(cb)   == Room(1) /\ queue' = Append(queue, cb)

\* waitUntilCompleted on the buffer committed last: the queue is in order.
Drained == queue = <<>>

DecodePCs == {"embed", "layer", "cb1", "issueHits", "fetch", "reading",
              "routed", "finish"}
PrefillPCs == {"pLayer", "pWait", "tile", "drainBeforeIssue", "plan", "fetch",
               "reading", "issueTile", "afterIssue", "tail"}
PCs == DecodePCs \cup PrefillPCs \cup {"idle", "crashed"}

Init ==
  /\ slotExpert = [l \in Layers |-> [s \in Slots |-> NoExpert]]
  /\ bytes = [l \in Layers |-> [s \in Slots |-> NoExpert]]
  /\ reading = {} /\ failed = FALSE
  /\ queue = <<>>
  /\ pc = "idle" /\ mode = "decode" /\ layer = 1
  /\ assigned = {} /\ missing = {}
  /\ tile = {} /\ remaining = {} /\ tileIndex = 0
  /\ pending = <<>> /\ lifetime = {}

-----------------------------------------------------------------------------
(* The expert cache of the current layer.                                  *)

Hits(E) ==
  {b \in Binding : b.expert \in E /\ slotExpert[layer][b.slot] = b.expert}
\* Mutants: a plan may evict its own hits, or a slot of a pending tile.
EvictableHits(E, avoid) == Slots \ avoid
EvictablePending(E, avoid) == Slots \ SlotsOf(Hits(E))

Evictable(E, avoid) == Slots \ (avoid \cup SlotsOf(Hits(E)))
Misses(E) == E \ ExpertsOf(Hits(E))
Placeable(E, avoid) ==
  Cardinality(Misses(E)) <= Cardinality(Evictable(E, avoid))

\* A plan that is returned: hits keep their slots, each miss takes an
\* evictable slot of its own, whose record is erased at once.
MakePlan(E, avoid) ==
  \E victim \in Injection(Misses(E), Evictable(E, avoid)) :
    /\ missing' = {[slot |-> victim[e], expert |-> e] : e \in Misses(E)}
    /\ assigned' = Hits(E) \cup missing'
    /\ slotExpert' = [slotExpert EXCEPT ![layer] =
         [s \in Slots |-> IF s \in SlotsOf(missing') THEN NoExpert ELSE @[s]]]

\* planExpertsCached: preconditionFailure when the misses cannot be placed.
PlanOrCrash(E, avoid, next) ==
  /\ UNCHANGED <<bytes, reading, failed>>
  /\ \/ Placeable(E, avoid) /\ MakePlan(E, avoid) /\ pc' = next
     \/ ~Placeable(E, avoid) /\ pc' = "crashed" /\ UNCHANGED <<plan, slotExpert>>

\* executeExpertCachePlan: every miss is read concurrently into its slot.
StartReads ==
  /\ pc = "fetch"
  /\ reading' = missing
  /\ failed' = FALSE
  /\ bytes' = [bytes EXCEPT ![layer] =
       [s \in Slots |-> IF s \in SlotsOf(missing) THEN NoExpert ELSE @[s]]]
  /\ pc' = "reading"
  /\ UNCHANGED <<slotExpert, queue, mode, layer, plan, tiles>>

FinishRead(b) ==
  /\ pc = "reading" /\ b \in reading
  /\ reading' = reading \ {b}
  /\ bytes' = [bytes EXCEPT ![layer][b.slot] = b.expert]
  /\ UNCHANGED <<slotExpert, failed, queue, pc, mode, layer, plan, tiles>>

FailRead(b) ==
  /\ pc = "reading" /\ b \in reading
  /\ reading' = reading \ {b}
  /\ failed' = TRUE
  /\ UNCHANGED <<slotExpert, bytes, queue, pc, mode, layer, plan, tiles>>

\* All reads returned and none failed: the misses are recorded.
PublishReads ==
  /\ pc = "reading" /\ reading = {} /\ ~failed
  /\ slotExpert' = [slotExpert EXCEPT ![layer] =
       [s \in Slots |-> IF \E b \in missing : b.slot = s
                        THEN (CHOOSE b \in missing : b.slot = s).expert
                        ELSE @[s]]]
  /\ pc' = IF mode = "decode" THEN "routed" ELSE "issueTile"
  /\ UNCHANGED <<bytes, reading, failed, queue, mode, layer, plan, tiles>>

\* The step throws out of the runner.  Its locals go; what it committed stays.
Throw ==
  /\ pc' = "idle"
  /\ layer' = 1
  /\ assigned' = {} /\ missing' = {} /\ failed' = FALSE
  /\ tile' = {} /\ remaining' = {} /\ tileIndex' = 0
  /\ pending' = <<>> /\ lifetime' = {}
  /\ UNCHANGED <<slotExpert, bytes, reading, queue, mode>>

\* Mutant: the error is never handed to the awaiting step.
LoseReadError ==
  /\ pc = "reading" /\ reading = {} /\ failed
  /\ UNCHANGED vars

ThrowReadError ==
  /\ pc = "reading" /\ reading = {} /\ failed
  /\ Throw

-----------------------------------------------------------------------------
(* Decode: one token through all layers.                                   *)

BeginToken ==
  /\ pc = "idle"
  /\ pc' = "embed" /\ mode' = "decode" /\ layer' = 1
  /\ Commit([layer |-> 1, tile |-> NoTile, uses |-> {}])
  /\ UNCHANGED <<cache, plan, tiles>>

EmbedDone ==
  /\ pc = "embed" /\ Drained
  /\ pc' = "layer"
  /\ UNCHANGED <<cache, queue, mode, layer, plan, tiles>>

CommitCb1 ==
  /\ pc = "layer"
  /\ Commit(Buffer(NoTile, {}))
  /\ pc' = "cb1"
  /\ UNCHANGED <<cache, mode, layer, plan, tiles>>

\* cb1 is waited for; the router's experts are read back and planned.
PlanToken ==
  /\ pc = "cb1" /\ Drained
  /\ \E E \in SUBSET Experts :
       Cardinality(E) = TopK /\ PlanOrCrash(E, {}, "issueHits")
  /\ UNCHANGED <<queue, mode, layer, tiles>>

\* The layer's streamer cannot be opened: planRoutedExperts throws.
ThrowFromPlan ==
  /\ pc = "cb1" /\ Drained
  /\ Throw

\* The shared expert, then the hits when the plan has both hits and misses.
CommitSharedAndHits ==
  /\ pc = "issueHits" /\ Room(2)
  /\ LET shared == Append(queue, Buffer(NoTile, {}))
         hits   == assigned \ missing
     IN  queue' = IF hits # {} /\ missing # {}
                  THEN Append(shared, Buffer(NoTile, hits)) ELSE shared
  /\ pc' = "fetch"
  /\ UNCHANGED <<cache, mode, layer, plan, tiles>>

\* The routed buffer is not waited for before the next layer starts.
CommitRouted ==
  /\ pc = "routed"
  /\ Commit(Buffer(NoTile, assigned))
  /\ IF layer < NumLayers
     THEN pc' = "layer" /\ layer' = layer + 1
     ELSE pc' = "finish" /\ layer' = layer
  /\ assigned' = {} /\ missing' = {}
  /\ UNCHANGED <<cache, mode, tiles>>

FinishToken ==
  /\ pc = "finish" /\ Drained
  /\ pc' = "idle" /\ layer' = 1
  /\ UNCHANGED <<cache, queue, mode, plan, tiles>>

-----------------------------------------------------------------------------
(* Chunked prefill: one chunk through all layers, in tiles of experts.     *)

BeginChunk ==
  /\ pc = "idle"
  /\ pc' = "pLayer" /\ mode' = "prefill" /\ layer' = 1
  /\ UNCHANGED <<cache, queue, plan, tiles>>

\* Attention and router, then the shared expert: each committed and waited
\* for, neither touching a slot.
CommitLayer ==
  /\ pc = "pLayer"
  /\ Commit(Buffer(NoTile, {}))
  /\ pc' = "pWait"
  /\ UNCHANGED <<cache, mode, layer, plan, tiles>>

FitsSlotBudget == (MaxPendingDepth + 1) * TileExperts <= SlotCount

BeginTiles ==
  /\ pc = "pWait" /\ Drained
  /\ FitsSlotBudget
  /\ \E R \in SUBSET Experts : R # {} /\ remaining' = R
  /\ pc' = "tile"
  /\ tile' = {} /\ tileIndex' = 0 /\ pending' = <<>> /\ lifetime' = {}
  /\ UNCHANGED <<cache, queue, mode, layer, plan>>

PendingSlots == UNION {p.slots : p \in Range(pending)}

\* PrefillRoutedTileScheduler.decide
Decide(planAvailable) ==
  IF pending = <<>> THEN "issueWithoutPending"
  ELSE IF /\ Len(pending) <= MaxPendingDepth
          /\ PendingSlots # {}
          /\ planAvailable
       THEN "prefetchNext" ELSE "drainBeforeIssue"

\* The next tile: at most TileExperts of the chunk's experts.  A plan that
\* avoids the pending tiles' slots is made first, then the scheduler decides.
NextTile ==
  /\ pc = "tile" /\ remaining # {}
  /\ \E E \in SUBSET remaining :
       /\ E # {} /\ Cardinality(E) <= TileExperts
       /\ Cardinality(E) < TileExperts => E = remaining
       /\ LET available == PendingSlots # {} /\ Placeable(E, PendingSlots)
              decision  == Decide(available)
          IN  /\ IF available THEN MakePlan(E, PendingSlots)
                              ELSE UNCHANGED <<plan, slotExpert>>
              /\ \/ decision = "issueWithoutPending" /\ pc' = "plan"
                 \/ decision = "prefetchNext" /\ pc' = "fetch"
                 \/ decision = "drainBeforeIssue" /\ pc' = "drainBeforeIssue"
       /\ tile' = E
       /\ remaining' = remaining \ E
  /\ UNCHANGED <<bytes, reading, failed, queue, mode, layer,
                 tileIndex, pending, lifetime>>

\* drainOldestPendingTile: wait for the oldest tile's buffer, give its slots
\* back.  A buffer that ended in error throws (ThrowFromPrefill).
OldestDone ==
  /\ pending # <<>>
  /\ \A cb \in Range(queue) : cb.tile # Head(pending).tile

\* Mutant: a drained tile keeps its slots.
DrainKeepingLifetime ==
  /\ OldestDone
  /\ pending' = Tail(pending)
  /\ UNCHANGED lifetime

DrainOldest ==
  /\ OldestDone
  /\ pending' = Tail(pending)
  /\ lifetime' = {u \in lifetime : u[1] # Head(pending).tile}

\* The two drains that are not bound to a depth: before a tile that has no
\* plan beside the pending ones, and after the last tile.
DrainPending ==
  /\ \/ pc = "drainBeforeIssue" /\ pc' = "plan"
     \/ pc = "tile" /\ remaining = {} /\ pc' = pc
  /\ DrainOldest
  /\ UNCHANGED <<cache, queue, mode, layer, plan, tile, remaining, tileIndex>>

\* fetchBindingForTile without a preplanned fetch.
PlanTile ==
  /\ pc = "plan"
  /\ PlanOrCrash(tile, PendingSlots, "fetch")
  /\ UNCHANGED <<queue, mode, layer, tiles>>

\* lifetime.begin refuses a slot that a tile in flight was read into.
LifetimeAllows == \A u \in lifetime : u[2] \notin SlotsOf(missing)

IssueTile ==
  /\ pc = "issueTile"
  /\ LifetimeAllows
  /\ lifetime' = lifetime \cup {<<tileIndex, s>> : s \in SlotsOf(missing)}
  /\ Commit(Buffer(tileIndex, assigned))
  /\ pending' = Append(pending, [tile |-> tileIndex, slots |-> SlotsOf(assigned),
                                 missSlots |-> SlotsOf(missing)])
  /\ tileIndex' = tileIndex + 1
  /\ tile' = {} /\ assigned' = {} /\ missing' = {}
  /\ pc' = "afterIssue"
  /\ UNCHANGED <<cache, mode, layer, remaining>>

\* Mutant: nothing is drained after an issue.
DrainNever ==
  /\ pc = "afterIssue" /\ pc' = "tile"
  /\ UNCHANGED <<cache, queue, mode, layer, plan, tiles>>

DrainToDepth ==
  /\ pc = "afterIssue"
  /\ \/ Len(pending) > MaxPendingDepth /\ DrainOldest /\ pc' = pc
     \/ /\ Len(pending) <= MaxPendingDepth
        /\ pc' = "tile" /\ UNCHANGED <<pending, lifetime>>
  /\ UNCHANGED <<cache, queue, mode, layer, plan, tile, remaining, tileIndex>>

CommitTail ==
  /\ pc = "tile" /\ remaining = {} /\ pending = <<>>
  /\ Commit(Buffer(NoTile, {}))
  /\ pc' = "tail"
  /\ UNCHANGED <<cache, mode, layer, plan, tiles>>

EndLayer ==
  /\ pc = "tail" /\ Drained
  /\ IF layer < NumLayers
     THEN pc' = "pLayer" /\ layer' = layer + 1
     ELSE pc' = "idle" /\ layer' = 1
  /\ UNCHANGED <<cache, queue, mode, plan, tiles>>

\* A command buffer that cannot be made, or that was waited for and ended in
\* error; a streamer that cannot be opened; a slot budget that does not fit; a
\* lifetime error.
ThrowFromPrefill ==
  /\ pc \in {"pLayer", "pWait", "tile", "drainBeforeIssue", "plan",
             "issueTile", "afterIssue", "tail"}
  /\ mode = "prefill"
  /\ pc \in {"pWait", "tail"} => Drained
  /\ pc \in {"drainBeforeIssue", "afterIssue"} => OldestDone
  /\ Throw

-----------------------------------------------------------------------------
(* The GPU completes command buffers in the order of their commits.        *)
GpuComplete ==
  /\ queue # <<>>
  /\ queue' = Tail(queue)
  /\ UNCHANGED <<cache, pc, mode, layer, plan, tiles>>

EndRead == \E b \in reading : FinishRead(b) \/ FailRead(b)

Decode == \/ EmbedDone \/ CommitCb1 \/ PlanToken \/ ThrowFromPlan
          \/ CommitSharedAndHits \/ CommitRouted \/ FinishToken
Prefill == \/ CommitLayer \/ BeginTiles \/ NextTile \/ DrainPending
           \/ PlanTile \/ IssueTile \/ DrainToDepth \/ CommitTail \/ EndLayer
           \/ ThrowFromPrefill
Fetch == StartReads \/ PublishReads \/ ThrowReadError
Step == Decode \/ Prefill \/ Fetch

Next == BeginToken \/ BeginChunk \/ Step \/ EndRead \/ GpuComplete

Spec == Init /\ [][Next]_vars

\* The awaited step goes on, preads return, the GPU runs what is committed.
Fairness == WF_vars(Step) /\ WF_vars(EndRead) /\ WF_vars(GpuComplete)
FairSpec == Spec /\ Fairness

-----------------------------------------------------------------------------
(* Properties.                                                             *)

TypeOK ==
  /\ slotExpert \in [Layers -> [Slots -> Experts \cup {NoExpert}]]
  /\ bytes \in [Layers -> [Slots -> Experts \cup {NoExpert}]]
  /\ reading \subseteq Binding /\ failed \in BOOLEAN
  /\ queue \in Seq(CommandBuffer)
  /\ pc \in PCs /\ mode \in {"decode", "prefill"} /\ layer \in Layers
  /\ missing \subseteq assigned /\ assigned \subseteq Binding
  /\ tile \subseteq Experts /\ remaining \subseteq Experts
  /\ tileIndex \in Nat
  /\ pending \in Seq(PendingTile)
  /\ lifetime \subseteq Nat \X Slots

\* "Every queued GPU consumer owns its slot until completion": the slot of a
\* binding that queued work reads holds the expert the work was encoded for.
QueuedWorkReadsItsExperts ==
  \A cb \in Range(queue) : \A b \in cb.uses :
    bytes[cb.layer][b.slot] = b.expert

\* "CPU reuse cannot race an earlier command buffer": no pread goes into a
\* slot that committed, uncompleted work of the same layer reads.
ReadsAvoidQueuedSlots ==
  \A cb \in Range(queue) : cb.layer = layer =>
    \A u \in cb.uses, b \in reading : u.slot # b.slot

\* The routed argument buffer and the active-slot lists are written by the CPU
\* once per layer: by then no queued work reads the previous contents, only the
\* plan's own hits, whose argument buffer is a fresh one, may be queued.
ArgumentsAreIdle ==
  /\ pc = "issueHits" => Drained
  /\ mode = "decode" /\ pc \in {"fetch", "reading", "routed"} =>
       \A cb \in Range(queue) :
         cb.layer = layer /\ cb.uses \subseteq assigned \ missing

\* "No two reads may write the same slot concurrently."
OneReadPerSlot ==
  \A a, b \in reading : a.slot = b.slot => a = b

\* "The expert cache records which expert occupies each slot": a record is
\* never ahead of the bytes, also after failed and thrown-away steps.
RecordsAreTrue ==
  \A l \in Layers : \A s \in Slots :
    slotExpert[l][s] # NoExpert => bytes[l][s] = slotExpert[l][s]

\* An expert is recorded in one slot of a layer at most, so a hit is unique.
OneSlotPerExpert ==
  \A l \in Layers : \A s, t \in Slots :
    slotExpert[l][s] = slotExpert[l][t] /\ slotExpert[l][s] # NoExpert => s = t

\* With the slot budget checked, there is room for every tile beside the pending
\* ones: "expert cache cannot place requested misses" is never reached, and no
\* tile waits for an earlier one first, so prefill keeps its overlap.
BudgetSuffices == pc \notin {"crashed", "drainBeforeIssue"}

\* slotReuseBeforeCompletion, the runtime's own guard, is never thrown.
LifetimeNeverRefuses == pc = "issueTile" => LifetimeAllows

\* A step that began ends, with its reads and the GPU work it waits for.
StepsEnd == pc # "idle" ~> pc = "idle"

\* The triples that queued command buffers read, for the promise OwnedSlots.
Held == UNION {{[layer |-> cb.layer, slot |-> b.slot, expert |-> b.expert] :
                  b \in cb.uses} : cb \in Range(queue)}

Owned == INSTANCE OwnedSlots WITH held <- Held

\* Every step of the pipeline keeps the slot-ownership promise: reads start
\* only into slots no queued work holds, and work is queued only on slots that
\* already have its experts.
ImplementsOwnedSlots == Owned!Spec

-----------------------------------------------------------------------------
(* The inductive strengthening of the safety properties.                   *)

Planned == pc \in {"issueHits", "fetch", "reading"}
InTiles == mode = "prefill" /\ pc \in
  {"tile", "drainBeforeIssue", "plan", "fetch", "reading", "issueTile",
   "afterIssue"}

\* The runner is on the path its mode names.
ModeMatchesPC ==
  /\ pc \in PrefillPCs \ DecodePCs => mode = "prefill"
  /\ pc \in DecodePCs \ PrefillPCs => mode = "decode"

\* The plan in hand binds each slot once; its hits are recorded, its misses
\* are recorded nowhere until the reads are published.
PlanIsSound ==
  /\ \A a, b \in assigned : a.slot = b.slot => a = b
  /\ \A a, b \in missing : a.expert = b.expert => a = b
  /\ Planned => /\ \A b \in missing : /\ slotExpert[layer][b.slot] = NoExpert
                                      /\ \A s \in Slots : slotExpert[layer][s] # b.expert
                /\ \A b \in assigned \ missing : slotExpert[layer][b.slot] = b.expert
  /\ pc \in {"routed", "issueTile"} =>
       \A b \in assigned : slotExpert[layer][b.slot] = b.expert

\* Only misses are read, a slot being read is torn, and a miss whose read
\* ended without an error has its bytes.
ReadsAreSound ==
  /\ pc # "reading" => reading = {}
  /\ pc = "reading" => /\ reading \subseteq missing
                       /\ \A b \in reading : bytes[layer][b.slot] = NoExpert
                       /\ ~failed => \A b \in missing \ reading :
                                        bytes[layer][b.slot] = b.expert

\* Queued work of the layer does not read a slot the plan is about to fill.
QueueAvoidsMisses ==
  Planned => \A cb \in Range(queue) : cb.layer = layer =>
    \A u \in cb.uses, b \in missing : u.slot # b.slot

\* In the tile loop, queued work and slot lifetimes belong to pending tiles.
QueueIsPending ==
  InTiles =>
    /\ \A cb \in Range(queue) : \E p \in Range(pending) :
         cb.tile = p.tile /\ SlotsOf(cb.uses) \subseteq p.slots
    /\ \A u \in lifetime : \E p \in Range(pending) :
         u[1] = p.tile /\ u[2] \in p.slots

\* The tile about to be issued fills no slot of a pending tile.
TileAvoidsPending ==
  mode = "prefill" /\ pc \in {"fetch", "reading", "issueTile"} =>
    SlotsOf(missing) \cap PendingSlots = {}

PipelineInv ==
  /\ TypeOK /\ ModeMatchesPC /\ PlanIsSound /\ ReadsAreSound
  /\ QueueAvoidsMisses /\ QueueIsPending /\ TileAvoidsPending
  /\ QueuedWorkReadsItsExperts /\ RecordsAreTrue /\ OneSlotPerExpert
  /\ ArgumentsAreIdle
=============================================================================
