------------------------ MODULE RoutedPipelineProofs ------------------------
(***************************************************************************)
(* PipelineInv is an inductive invariant of RoutedPipeline, and with it    *)
(* the slot-safety properties hold for every number of layers, experts,    *)
(* slots, tile sizes, pending depths and queue bounds.                     *)
(***************************************************************************)
EXTENDS RoutedPipeline, SequenceLemmas, FiniteSetTheorems

-----------------------------------------------------------------------------
(* What a plan that was returned looks like.                               *)

\* What a plan that was returned leaves behind.
PlanMade(avoid) ==
  /\ missing' \subseteq assigned' /\ assigned' \subseteq Binding
  /\ slotExpert' \in [Layers -> [Slots -> Experts \cup {NoExpert}]]
  /\ \A b \in missing' : b.slot \notin avoid
  /\ \A a, b \in assigned' : a.slot = b.slot => a = b
  /\ \A a, b \in missing' : a.expert = b.expert => a = b
  /\ \A b \in missing' : /\ slotExpert'[layer][b.slot] = NoExpert
                         /\ \A s \in Slots : slotExpert'[layer][s] # b.expert
  /\ \A b \in assigned' \ missing' : slotExpert'[layer][b.slot] = b.expert
  /\ \A l \in Layers, s \in Slots :
       slotExpert'[l][s] \in {slotExpert[l][s], NoExpert}

\* makeExpertCachePlan: hits are recorded where they are bound, misses have
\* unrecorded slots of their own outside the avoided ones.
LEMMA PlanFacts ==
  ASSUME TypeOK, NEW E \in SUBSET Experts, NEW avoid, MakePlan(E, avoid)
  PROVE  PlanMade(avoid)
<1> USE NoExpertAssumption
<1>1. PICK victim \in Injection(Misses(E), Evictable(E, avoid)) :
        /\ missing' = {[slot |-> victim[e], expert |-> e] : e \in Misses(E)}
        /\ assigned' = Hits(E) \cup missing'
        /\ slotExpert' = [slotExpert EXCEPT ![layer] =
             [s \in Slots |-> IF s \in SlotsOf(missing') THEN NoExpert
                              ELSE slotExpert[layer][s]]]
  BY DEF MakePlan
<1>2. /\ victim \in [Misses(E) -> Evictable(E, avoid)]
      /\ \A d, e \in Misses(E) : victim[d] = victim[e] => d = e
  BY <1>1 DEF Injection, IsInjective
<1>3. Misses(E) \subseteq Experts /\ Evictable(E, avoid) \subseteq Slots
  BY DEF Misses, Evictable
<1>4. Hits(E) \subseteq Binding
  BY DEF Hits
<1>5. missing' \subseteq Binding
  BY <1>1, <1>2, <1>3 DEF Binding
<1>6. missing' \subseteq assigned' /\ assigned' \subseteq Binding
  BY <1>1, <1>4, <1>5
<1>7. slotExpert' \in [Layers -> [Slots -> Experts \cup {NoExpert}]]
  BY <1>1 DEF TypeOK
<1>8. \A b \in missing' : b.slot \in Evictable(E, avoid) /\ b.expert \in Misses(E)
  BY <1>1, <1>2
<1>9. \A b \in missing' : b.slot \notin avoid /\ b.slot \notin SlotsOf(Hits(E))
  BY <1>8 DEF Evictable
<1>10. \A a, b \in missing' : a.slot = b.slot => a = b
  BY <1>1, <1>2
<1>11. \A a, b \in Hits(E) : a.slot = b.slot => a = b
  BY DEF Hits, Binding
<1>12. \A a, b \in assigned' : a.slot = b.slot => a = b
  BY <1>1, <1>9, <1>10, <1>11 DEF SlotsOf
<1>13. \A a, b \in missing' : a.expert = b.expert => a = b
  BY <1>1
<1>14. \A s \in Slots : slotExpert'[layer][s] =
         IF s \in SlotsOf(missing') THEN NoExpert ELSE slotExpert[layer][s]
  BY <1>1 DEF TypeOK
<1>15. ASSUME NEW b \in missing'
       PROVE  /\ slotExpert'[layer][b.slot] = NoExpert
              /\ \A s \in Slots : slotExpert'[layer][s] # b.expert
  <2>1. b.slot \in Slots /\ b.slot \in SlotsOf(missing')
    BY <1>5 DEF SlotsOf, Binding
  <2>2. b.expert \in Experts /\ b.expert \in E /\ b.expert \notin ExpertsOf(Hits(E))
    BY <1>3, <1>8 DEF Misses
  <2>3. ASSUME NEW s \in Slots, slotExpert[layer][s] = b.expert
        PROVE  FALSE
    <3>1. [slot |-> s, expert |-> b.expert] \in Hits(E)
      BY <2>2, <2>3 DEF Hits, Binding
    <3> QED BY <3>1, <2>2 DEF ExpertsOf
  <2> QED BY <2>1, <2>2, <2>3, <1>14
<1>16. ASSUME NEW b \in assigned' \ missing'
       PROVE  slotExpert'[layer][b.slot] = b.expert
  <2>1. b \in Hits(E) /\ b.slot \in Slots
    BY <1>1, <1>6 DEF Binding
  <2>2. b.slot \notin SlotsOf(missing')
    BY <2>1, <1>9 DEF SlotsOf
  <2> QED BY <2>1, <2>2, <1>14 DEF Hits
<1>17. \A l \in Layers, s \in Slots :
         slotExpert'[l][s] \in {slotExpert[l][s], NoExpert}
  BY <1>1 DEF TypeOK
<1> QED BY <1>6, <1>7, <1>9, <1>12, <1>13, <1>15, <1>16, <1>17 DEF PlanMade

-----------------------------------------------------------------------------
(* Type correctness.                                                       *)

\* Every step keeps the types.
LEMMA TypeInductive == TypeOK /\ [Next]_vars => TypeOK'
<1> SUFFICES ASSUME TypeOK, [Next]_vars PROVE TypeOK'
  OBVIOUS
<1> USE LayersAssumption DEF TypeOK, cache, tiles, plan, PCs, DecodePCs, PrefillPCs
<1>a. \A cb \in CommandBuffer : Append(queue, cb) \in Seq(CommandBuffer)
  OBVIOUS
<1>b. \A t \in Nat \cup {NoTile}, B \in SUBSET Binding : Buffer(t, B) \in CommandBuffer
  BY DEF Buffer, CommandBuffer
<1>c. NoTile \in Nat \cup {NoTile} /\ {} \in SUBSET Binding
  OBVIOUS
<1>d. <<>> \in Seq(PendingTile) /\ 1 \in Layers
  BY DEF Layers
<1>1. CASE BeginToken
  BY <1>1, <1>a, <1>b, <1>c DEF BeginToken, Commit, Layers, Buffer, CommandBuffer
<1>2. CASE BeginChunk
  BY <1>2 DEF BeginChunk, Layers
<1>3. CASE EmbedDone
  BY <1>3 DEF EmbedDone
<1>4. CASE CommitCb1
  BY <1>4, <1>a, <1>b, <1>c DEF CommitCb1, Commit
<1>5. CASE PlanToken
  <2>1. PICK E \in SUBSET Experts : PlanOrCrash(E, {}, "issueHits")
    BY <1>5 DEF PlanToken
  <2>2. UNCHANGED <<bytes, reading, failed, queue, mode, layer, tile, remaining,
                    tileIndex, pending, lifetime>>
    BY <1>5, <2>1 DEF PlanToken, PlanOrCrash
  <2>3. CASE MakePlan(E, {})
    <3> HIDE DEF TypeOK
    <3>1. /\ missing' \subseteq assigned' /\ assigned' \subseteq Binding
          /\ slotExpert' \in [Layers -> [Slots -> Experts \cup {NoExpert}]]
      BY <2>1, <2>3, PlanFacts DEF PlanMade
    <3> QED BY <2>1, <2>2, <3>1 DEF TypeOK, PlanOrCrash
  <2> QED BY <2>1, <2>2, <2>3 DEF PlanOrCrash
<1>6. CASE ThrowFromPlan
  BY <1>6, <1>d DEF ThrowFromPlan, Throw
<1>7. CASE CommitSharedAndHits
  <2> DEFINE shared == Append(queue, Buffer(NoTile, {}))
             hits   == assigned \ missing
  <2>1. Buffer(NoTile, {}) \in CommandBuffer /\ Buffer(NoTile, hits) \in CommandBuffer
    BY <1>b, <1>c
  <2>2. /\ shared \in Seq(CommandBuffer)
        /\ Append(shared, Buffer(NoTile, hits)) \in Seq(CommandBuffer)
    BY <2>1
  <2>3. queue' \in Seq(CommandBuffer)
    BY <1>7, <2>2 DEF CommitSharedAndHits
  <2> QED BY <1>7, <2>3 DEF CommitSharedAndHits
<1>8. CASE CommitRouted
  <2>1. queue' \in Seq(CommandBuffer)
    BY <1>8, <1>a, <1>b, <1>c DEF CommitRouted, Commit
  <2>2. layer' \in Layers /\ pc' \in PCs
    BY <1>8 DEF CommitRouted, Layers
  <2> QED BY <1>8, <2>1, <2>2 DEF CommitRouted
<1>9. CASE FinishToken
  BY <1>9 DEF FinishToken, Layers
<1>10. CASE CommitLayer
  BY <1>10, <1>a, <1>b, <1>c DEF CommitLayer, Commit
<1>11. CASE BeginTiles
  BY <1>11, <1>d DEF BeginTiles
<1>12. CASE NextTile
  <2>1. PICK E \in SUBSET remaining :
          /\ tile' = E /\ remaining' = remaining \ E
          /\ MakePlan(E, PendingSlots) \/ UNCHANGED <<plan, slotExpert>>
          /\ pc' \in {"plan", "fetch", "drainBeforeIssue"}
    BY <1>12 DEF NextTile
  <2>2. E \in SUBSET Experts
    OBVIOUS
  <2>3. UNCHANGED <<bytes, reading, failed, queue, mode, layer,
                    tileIndex, pending, lifetime>>
    BY <1>12 DEF NextTile
  <2>4. CASE MakePlan(E, PendingSlots)
    <3> HIDE DEF TypeOK
    <3>1. /\ missing' \subseteq assigned' /\ assigned' \subseteq Binding
          /\ slotExpert' \in [Layers -> [Slots -> Experts \cup {NoExpert}]]
      BY <2>2, <2>4, PlanFacts DEF PlanMade
    <3> QED BY <2>1, <2>2, <2>3, <3>1 DEF TypeOK
  <2> QED BY <2>1, <2>2, <2>3, <2>4
<1>13. CASE DrainPending
  BY <1>13, TailRange DEF DrainPending, DrainOldest, OldestDone
<1>14. CASE PlanTile
  <2>1. PICK E \in SUBSET Experts : PlanOrCrash(E, PendingSlots, "fetch")
    BY <1>14 DEF PlanTile
  <2>2. UNCHANGED <<bytes, reading, failed, queue, mode, layer, tile, remaining,
                    tileIndex, pending, lifetime>>
    BY <1>14, <2>1 DEF PlanTile, PlanOrCrash
  <2>3. CASE MakePlan(E, PendingSlots)
    <3> HIDE DEF TypeOK
    <3>1. /\ missing' \subseteq assigned' /\ assigned' \subseteq Binding
          /\ slotExpert' \in [Layers -> [Slots -> Experts \cup {NoExpert}]]
      BY <2>1, <2>3, PlanFacts DEF PlanMade
    <3> QED BY <2>1, <2>2, <3>1 DEF TypeOK, PlanOrCrash
  <2> QED BY <2>1, <2>2, <2>3 DEF PlanOrCrash
<1>15. CASE IssueTile
  <2>1. Buffer(tileIndex, assigned) \in CommandBuffer
    BY <1>b
  <2>2. queue' \in Seq(CommandBuffer)
    BY <1>15, <1>a, <2>1 DEF IssueTile, Commit
  <2>3. SlotsOf(assigned) \in SUBSET Slots /\ SlotsOf(missing) \in SUBSET Slots
    BY DEF SlotsOf, Binding
  <2> DEFINE issued == [tile |-> tileIndex, slots |-> SlotsOf(assigned),
                        missSlots |-> SlotsOf(missing)]
  <2>4. issued \in PendingTile
    BY <2>3 DEF PendingTile
  <2>5. pending' = Append(pending, issued)
    BY <1>15 DEF IssueTile
  <2> HIDE DEF issued
  <2>6. pending' \in Seq(PendingTile)
    BY <2>4, <2>5
  <2>7. lifetime' \subseteq Nat \X Slots
    BY <1>15, <2>3 DEF IssueTile
  <2> QED BY <1>15, <2>2, <2>6, <2>7 DEF IssueTile
<1>16. CASE DrainToDepth
  <2>1. CASE DrainOldest
    BY <1>16, <2>1, TailRange DEF DrainToDepth, DrainOldest, OldestDone
  <2>2. CASE UNCHANGED <<pending, lifetime>> /\ pc' = "tile"
    BY <1>16, <2>2 DEF DrainToDepth
  <2> QED BY <1>16, <2>1, <2>2 DEF DrainToDepth
<1>18. CASE CommitTail
  BY <1>18, <1>a, <1>b, <1>c DEF CommitTail, Commit
<1>19. CASE EndLayer
  BY <1>19 DEF EndLayer, Layers
<1>20. CASE ThrowFromPrefill
  BY <1>20, <1>d DEF ThrowFromPrefill, Throw
<1>21. CASE StartReads
  BY <1>21 DEF StartReads
<1>22. CASE PublishReads
  <2>1. ASSUME NEW s \in Slots, \E b \in missing : b.slot = s
        PROVE  (CHOOSE b \in missing : b.slot = s).expert \in Experts
    <3>1. (CHOOSE b \in missing : b.slot = s) \in missing
      BY <2>1
    <3> QED BY <3>1 DEF Binding
  <2>2. slotExpert' \in [Layers -> [Slots -> Experts \cup {NoExpert}]]
    BY <1>22, <2>1 DEF PublishReads
  <2>3. pc' \in PCs
    BY <1>22 DEF PublishReads
  <2> QED BY <1>22, <2>2, <2>3 DEF PublishReads
<1>23. CASE ThrowReadError
  BY <1>23, <1>d DEF ThrowReadError, Throw
<1>24. ASSUME NEW b \in reading, FinishRead(b) PROVE TypeOK'
  BY <1>24 DEF FinishRead, Binding
<1>25. ASSUME NEW b \in reading, FailRead(b) PROVE TypeOK'
  BY <1>25 DEF FailRead, Binding
<1>26. CASE GpuComplete
  BY <1>26, TailRange DEF GpuComplete
<1>27. CASE UNCHANGED vars
  BY <1>27 DEF vars
<1> QED BY <1>1, <1>2, <1>3, <1>4, <1>5, <1>6, <1>7, <1>8, <1>9, <1>10, <1>11,
    <1>12, <1>13, <1>14, <1>15, <1>16, <1>18, <1>19, <1>20, <1>21, <1>22,
    <1>23, <1>24, <1>25, <1>26, <1>27
     DEF Next, Step, Decode, Prefill, Fetch, EndRead

\* The initial state is well typed.
LEMMA InitType == Init => TypeOK
<1>1. <<>> \in Seq(CommandBuffer) /\ <<>> \in Seq(PendingTile) /\ 1 \in Layers
  BY LayersAssumption DEF Layers
<1>2. ASSUME Init
      PROVE  /\ slotExpert \in [Layers -> [Slots -> Experts \cup {NoExpert}]]
             /\ bytes \in [Layers -> [Slots -> Experts \cup {NoExpert}]]
  BY <1>2 DEF Init
<1>3. Init => reading \subseteq Binding /\ failed \in BOOLEAN
  BY DEF Init
<1>4. Init => /\ pc \in PCs /\ mode \in {"decode", "prefill"} /\ layer \in Layers
              /\ queue \in Seq(CommandBuffer) /\ pending \in Seq(PendingTile)
  BY <1>1 DEF Init, PCs
<1>5. Init => /\ missing \subseteq assigned /\ assigned \subseteq Binding
              /\ tile \subseteq Experts /\ remaining \subseteq Experts
              /\ tileIndex \in Nat /\ lifetime \subseteq Nat \X Slots
  BY DEF Init
<1> QED BY <1>2, <1>3, <1>4, <1>5 DEF TypeOK

\* Every variable keeps its type in every reachable state.
THEOREM TypeCorrect == Spec => []TypeOK
<1> QED BY InitType, TypeInductive, PTL DEF Spec

-----------------------------------------------------------------------------
(* The inductive invariant.                                                *)

\* A commit adds its buffer to the queued work.
LEMMA CommitRange ==
  ASSUME TypeOK, NEW t \in Nat \cup {NoTile}, NEW B \in SUBSET Binding,
         Commit(Buffer(t, B))
  PROVE  Range(queue') = Range(queue) \cup {Buffer(t, B)}
<1>1. Buffer(t, B) \in CommandBuffer
  BY DEF Buffer, CommandBuffer, TypeOK
<1> QED BY <1>1, AppendRange DEF Commit, TypeOK

\* Draining drops the oldest pending tile, none of whose work is queued.
LEMMA DrainRange ==
  ASSUME TypeOK, DrainOldest
  PROVE  /\ Range(pending) = {Head(pending)} \cup Range(pending')
         /\ \A cb \in Range(queue) : cb.tile # Head(pending).tile
BY TailRange DEF DrainOldest, OldestDone, TypeOK

\* What is queued is command buffers.
LEMMA QueueTypes == ASSUME TypeOK PROVE Range(queue) \subseteq CommandBuffer
BY DEF TypeOK, Range

\* After a wait for the last buffer nothing is queued.
LEMMA DrainedRange == ASSUME Drained PROVE Range(queue) = {}
BY EmptyRange DEF Drained

\* Every step preserves PipelineInv.  Queued work is safe because the plan
\* avoids its slots: in decode the queue was drained when the plan was made and
\* only the plan's own hits were queued since; in the tile loop queued work
\* belongs to pending tiles, whose slots the plan avoids.
LEMMA InvInductive == PipelineInv /\ [Next]_vars => PipelineInv'
<1> SUFFICES ASSUME PipelineInv, [Next]_vars PROVE PipelineInv'
  OBVIOUS
<1>a. TypeOK /\ TypeOK'
  BY TypeInductive DEF PipelineInv
<1>b. /\ ModeMatchesPC /\ PlanIsSound /\ ReadsAreSound /\ QueueAvoidsMisses
      /\ QueueIsPending /\ TileAvoidsPending /\ QueuedWorkReadsItsExperts
      /\ RecordsAreTrue /\ OneSlotPerExpert /\ ArgumentsAreIdle
  BY DEF PipelineInv
<1> USE NoExpertAssumption DEF cache, tiles, plan, Planned, InTiles, DecodePCs,
   PrefillPCs
<1>1. CASE BeginToken
  <2> DEFINE embed == [layer |-> 1, tile |-> NoTile, uses |-> {}]
  <2>p. embed \in CommandBuffer
    BY LayersAssumption DEF CommandBuffer, Layers
  <2>q. Range(queue') = Range(queue) \cup {embed}
    <3>1. queue' = Append(queue, embed)
      BY <1>1 DEF BeginToken, Commit
    <3>2. queue \in Seq(CommandBuffer)
      BY <1>a DEF TypeOK
    <3> HIDE DEF embed
    <3> QED BY <2>p, <3>1, <3>2, AppendRange
  <2>1. ModeMatchesPC' /\ PlanIsSound' /\ ReadsAreSound' /\ QueueAvoidsMisses'
        /\ QueueIsPending' /\ TileAvoidsPending' /\ QueuedWorkReadsItsExperts'
        /\ RecordsAreTrue' /\ OneSlotPerExpert' /\ ArgumentsAreIdle'
    <3>1. ModeMatchesPC' /\ PlanIsSound' /\ ReadsAreSound' /\ QueueAvoidsMisses'
      BY <1>1, <1>b DEF BeginToken, ModeMatchesPC, PlanIsSound, ReadsAreSound,
         QueueAvoidsMisses
    <3>2. QueueIsPending' /\ TileAvoidsPending' /\ ArgumentsAreIdle'
      BY <1>1 DEF BeginToken, QueueIsPending, TileAvoidsPending, ArgumentsAreIdle
    <3>3. QueuedWorkReadsItsExperts' /\ RecordsAreTrue' /\ OneSlotPerExpert'
      BY <1>1, <1>b, <2>q DEF BeginToken, QueuedWorkReadsItsExperts, RecordsAreTrue,
         OneSlotPerExpert
    <3> QED BY <3>1, <3>2, <3>3
  <2> QED BY <1>a, <2>1 DEF PipelineInv
<1>2. CASE BeginChunk
  <2>1. ModeMatchesPC' /\ PlanIsSound' /\ ReadsAreSound' /\ QueueAvoidsMisses'
        /\ QueueIsPending' /\ TileAvoidsPending' /\ QueuedWorkReadsItsExperts'
        /\ RecordsAreTrue' /\ OneSlotPerExpert' /\ ArgumentsAreIdle'
    BY <1>2, <1>b
       DEF BeginChunk, ModeMatchesPC, PlanIsSound, ReadsAreSound,
           QueueAvoidsMisses, QueueIsPending, TileAvoidsPending,
           QueuedWorkReadsItsExperts, RecordsAreTrue, OneSlotPerExpert,
           ArgumentsAreIdle, PendingSlots
  <2> QED BY <1>a, <2>1 DEF PipelineInv
<1>3. CASE EmbedDone
  <2>1. ModeMatchesPC' /\ PlanIsSound' /\ ReadsAreSound' /\ QueueAvoidsMisses'
        /\ QueueIsPending' /\ TileAvoidsPending' /\ QueuedWorkReadsItsExperts'
        /\ RecordsAreTrue' /\ OneSlotPerExpert' /\ ArgumentsAreIdle'
    BY <1>3, <1>b, DrainedRange
       DEF EmbedDone, ModeMatchesPC, PlanIsSound, ReadsAreSound,
           QueueAvoidsMisses, QueueIsPending, TileAvoidsPending,
           QueuedWorkReadsItsExperts, RecordsAreTrue, OneSlotPerExpert,
           ArgumentsAreIdle, PendingSlots
  <2> QED BY <1>a, <2>1 DEF PipelineInv
<1>4. CASE CommitCb1
  <2>q. Range(queue') = Range(queue) \cup {Buffer(NoTile, {})}
    BY <1>4, <1>a, CommitRange DEF CommitCb1, TypeOK
  <2>1. ModeMatchesPC' /\ PlanIsSound' /\ ReadsAreSound' /\ QueueAvoidsMisses'
        /\ QueueIsPending' /\ TileAvoidsPending' /\ QueuedWorkReadsItsExperts'
        /\ RecordsAreTrue' /\ OneSlotPerExpert' /\ ArgumentsAreIdle'
    BY <1>4, <1>b, <2>q
       DEF CommitCb1, Buffer, ModeMatchesPC, PlanIsSound, ReadsAreSound,
           QueueAvoidsMisses, QueueIsPending, TileAvoidsPending,
           QueuedWorkReadsItsExperts, RecordsAreTrue, OneSlotPerExpert,
           ArgumentsAreIdle, PendingSlots
  <2> QED BY <1>a, <2>1 DEF PipelineInv
<1>5. CASE PlanToken
  <2>p. /\ UNCHANGED <<bytes, reading, queue, mode, layer, pending, lifetime>>
        /\ \/ pc' = "crashed" /\ UNCHANGED <<assigned, missing, slotExpert>>
           \/ pc' = "issueHits" /\ PlanMade({})
    BY <1>5, <1>a, PlanFacts DEF PlanToken, PlanOrCrash
  <2>1. ModeMatchesPC' /\ PlanIsSound' /\ ReadsAreSound' /\ QueueIsPending' /\
        TileAvoidsPending' /\ QueuedWorkReadsItsExperts' /\ RecordsAreTrue' /\
        OneSlotPerExpert'
    BY <1>5, <1>b, <2>p
       DEF PlanToken, PlanMade, ModeMatchesPC, PlanIsSound, ReadsAreSound,
           QueueIsPending, TileAvoidsPending, QueuedWorkReadsItsExperts,
           RecordsAreTrue, OneSlotPerExpert, PendingSlots
  <2>2. QueueAvoidsMisses'
    BY <1>5, <1>b, <2>p, DrainedRange DEF PlanToken, PlanMade, QueueAvoidsMisses
  <2>3. ArgumentsAreIdle'
    BY <1>5, <2>p DEF PlanToken, ArgumentsAreIdle, Drained
  <2> QED BY <1>a, <2>1, <2>2, <2>3 DEF PipelineInv
<1>6. CASE ThrowFromPlan
  <2>1. ModeMatchesPC' /\ PlanIsSound' /\ ReadsAreSound' /\ QueueAvoidsMisses'
        /\ QueueIsPending' /\ TileAvoidsPending' /\ QueuedWorkReadsItsExperts'
        /\ RecordsAreTrue' /\ OneSlotPerExpert' /\ ArgumentsAreIdle'
    BY <1>6, <1>b, EmptyRange
       DEF ThrowFromPlan, Throw, ModeMatchesPC, PlanIsSound, ReadsAreSound,
           QueueAvoidsMisses, QueueIsPending, TileAvoidsPending,
           QueuedWorkReadsItsExperts, RecordsAreTrue, OneSlotPerExpert,
           ArgumentsAreIdle, PendingSlots
  <2> QED BY <1>a, <2>1 DEF PipelineInv
<1>7. CASE CommitSharedAndHits
  <2>p. /\ UNCHANGED <<slotExpert, bytes, reading, mode>>
        /\ UNCHANGED <<layer, assigned, missing, pending>>
        /\ mode = "decode" /\ pc = "issueHits" /\ pc' = "fetch"
    BY <1>7, <1>b DEF CommitSharedAndHits, ModeMatchesPC
  <2> DEFINE hits == Buffer(NoTile, assigned \ missing)
             shared == Buffer(NoTile, {})
  <2>q. Range(queue') \subseteq Range(queue) \cup {shared, hits}
    <3>1. shared \in CommandBuffer /\ hits \in CommandBuffer
      BY <1>a DEF TypeOK, CommandBuffer, Buffer
    <3> HIDE DEF shared, hits
    <3>2. /\ Append(queue, shared) \in Seq(CommandBuffer)
          /\ Range(Append(queue, shared)) = Range(queue) \cup {shared}
      BY <1>a, <3>1, AppendRange DEF TypeOK
    <3> DEFINE both == Append(queue, shared)
    <3>3. Range(Append(both, hits)) = Range(both) \cup {hits}
      <4> both \in Seq(CommandBuffer)
        BY <3>2
      <4> HIDE DEF both
      <4> QED BY <3>1, AppendRange
    <3>4. queue' \in {Append(queue, shared), Append(Append(queue, shared),
          hits)}
      BY <1>7 DEF CommitSharedAndHits, shared, hits
    <3> QED BY <3>2, <3>3, <3>4
  <2>r. /\ shared.uses = {} /\ shared.layer = layer
        /\ hits.uses = assigned \ missing /\ hits.layer = layer
    BY DEF Buffer
  <2> HIDE DEF hits, shared
  <2>1. ModeMatchesPC' /\ PlanIsSound' /\ ReadsAreSound' /\ QueueIsPending' /\
        TileAvoidsPending' /\ RecordsAreTrue' /\ OneSlotPerExpert'
    BY <1>7, <1>b, <2>p, <2>q, <2>r
       DEF CommitSharedAndHits, ModeMatchesPC, PlanIsSound, ReadsAreSound,
           QueueIsPending, TileAvoidsPending, RecordsAreTrue, OneSlotPerExpert,
           PendingSlots
  <2>2. QueueAvoidsMisses'
    BY <1>a, <1>b, <2>p, <2>q, <2>r DEF TypeOK, PlanIsSound, QueueAvoidsMisses
  <2>3. QueuedWorkReadsItsExperts'
    <3>1. \A b \in assigned \ missing : bytes[layer][b.slot] = b.expert
      BY <1>a, <1>b, <2>p DEF TypeOK, Binding, PlanIsSound, RecordsAreTrue
    <3> QED BY <1>b, <2>p, <2>q, <2>r, <3>1 DEF QueuedWorkReadsItsExperts
  <2>4. ArgumentsAreIdle'
    BY <1>b, <2>p, <2>q, <2>r, DrainedRange DEF ArgumentsAreIdle
  <2> QED BY <1>a, <2>1, <2>2, <2>3, <2>4 DEF PipelineInv
<1>8. CASE CommitRouted
  <2>q. Range(queue') = Range(queue) \cup {Buffer(NoTile, assigned)}
    BY <1>8, <1>a, CommitRange DEF CommitRouted, TypeOK
  <2>1. ModeMatchesPC' /\ PlanIsSound' /\ ReadsAreSound' /\ QueueAvoidsMisses'
        /\ QueueIsPending' /\ TileAvoidsPending' /\ RecordsAreTrue' /\
        OneSlotPerExpert' /\ ArgumentsAreIdle'
    BY <1>8, <1>b, <2>q
       DEF CommitRouted, Buffer, ModeMatchesPC, PlanIsSound, ReadsAreSound,
           QueueAvoidsMisses, QueueIsPending, TileAvoidsPending,
           RecordsAreTrue, OneSlotPerExpert, ArgumentsAreIdle, PendingSlots
  <2>2. QueuedWorkReadsItsExperts'
    <3>1. \A b \in assigned : bytes[layer][b.slot] = b.expert
      BY <1>8, <1>a, <1>b DEF CommitRouted, TypeOK, Binding, PlanIsSound,
         RecordsAreTrue
    <3> QED BY <1>8, <1>b, <2>q, <3>1 DEF CommitRouted, Buffer,
        QueuedWorkReadsItsExperts
  <2> QED BY <1>a, <2>1, <2>2 DEF PipelineInv
<1>9. CASE FinishToken
  <2>1. ModeMatchesPC' /\ PlanIsSound' /\ ReadsAreSound' /\ QueueAvoidsMisses'
        /\ QueueIsPending' /\ TileAvoidsPending' /\ QueuedWorkReadsItsExperts'
        /\ RecordsAreTrue' /\ OneSlotPerExpert' /\ ArgumentsAreIdle'
    BY <1>9, <1>b, DrainedRange
       DEF FinishToken, ModeMatchesPC, PlanIsSound, ReadsAreSound,
           QueueAvoidsMisses, QueueIsPending, TileAvoidsPending,
           QueuedWorkReadsItsExperts, RecordsAreTrue, OneSlotPerExpert,
           ArgumentsAreIdle, PendingSlots
  <2> QED BY <1>a, <2>1 DEF PipelineInv
<1>10. CASE CommitLayer
  <2>q. Range(queue') = Range(queue) \cup {Buffer(NoTile, {})}
    BY <1>10, <1>a, CommitRange DEF CommitLayer, TypeOK
  <2>1. ModeMatchesPC' /\ PlanIsSound' /\ ReadsAreSound' /\ QueueAvoidsMisses'
        /\ QueueIsPending' /\ TileAvoidsPending' /\ QueuedWorkReadsItsExperts'
        /\ RecordsAreTrue' /\ OneSlotPerExpert' /\ ArgumentsAreIdle'
    BY <1>10, <1>b, <2>q
       DEF CommitLayer, Buffer, ModeMatchesPC, PlanIsSound, ReadsAreSound,
           QueueAvoidsMisses, QueueIsPending, TileAvoidsPending,
           QueuedWorkReadsItsExperts, RecordsAreTrue, OneSlotPerExpert,
           ArgumentsAreIdle, PendingSlots
  <2> QED BY <1>a, <2>1 DEF PipelineInv
<1>11. CASE BeginTiles
  <2>1. ModeMatchesPC' /\ PlanIsSound' /\ ReadsAreSound' /\ QueueAvoidsMisses'
        /\ QueueIsPending' /\ TileAvoidsPending' /\ QueuedWorkReadsItsExperts'
        /\ RecordsAreTrue' /\ OneSlotPerExpert' /\ ArgumentsAreIdle'
    BY <1>11, <1>b, DrainedRange
       DEF BeginTiles, ModeMatchesPC, PlanIsSound, ReadsAreSound,
           QueueAvoidsMisses, QueueIsPending, TileAvoidsPending,
           QueuedWorkReadsItsExperts, RecordsAreTrue, OneSlotPerExpert,
           ArgumentsAreIdle, PendingSlots
  <2> QED BY <1>a, <2>1 DEF PipelineInv
<1>12. CASE NextTile
  <2>p. /\ UNCHANGED <<bytes, reading, queue, mode, layer, pending, lifetime>>
        /\ PlanMade(PendingSlots) \/ UNCHANGED <<assigned, missing, slotExpert>>
        /\ \/ pc' \in {"plan", "drainBeforeIssue"}
           \/ pc' = "fetch" /\ PlanMade(PendingSlots)
    <3>1. remaining \subseteq Experts
      BY <1>a DEF TypeOK
    <3>2. PICK E \in SUBSET remaining :
            LET available == PendingSlots # {} /\ Placeable(E, PendingSlots)
                decision  == Decide(available)
            IN  /\ IF available THEN MakePlan(E, PendingSlots)
                                ELSE UNCHANGED <<plan, slotExpert>>
                /\ \/ decision = "issueWithoutPending" /\ pc' = "plan"
                   \/ decision = "prefetchNext" /\ pc' = "fetch"
                   \/ decision = "drainBeforeIssue" /\ pc' = "drainBeforeIssue"
      BY <1>12 DEF NextTile
    <3>3. E \in SUBSET Experts
      BY <3>1
    <3>4. MakePlan(E, PendingSlots) => PlanMade(PendingSlots)
      BY <1>a, <3>3, PlanFacts
    <3> QED BY <1>12, <3>2, <3>4 DEF NextTile, Decide
  <2>r. InTiles => \A cb \in Range(queue) : \A u \in cb.uses : u.slot \in
        PendingSlots
    BY <1>b DEF QueueIsPending, PendingSlots, SlotsOf
  <2>1. ModeMatchesPC' /\ PlanIsSound' /\ ReadsAreSound'
    BY <1>12, <1>b, <2>p
       DEF NextTile, PlanMade, ModeMatchesPC, PlanIsSound, ReadsAreSound
  <2>2. QueueIsPending'
    BY <1>12, <1>b, <2>p
       DEF NextTile, PlanMade, QueueIsPending
  <2>3. QueueAvoidsMisses'
    BY <1>12, <1>b, <2>p, <2>r DEF NextTile, PlanMade, QueueAvoidsMisses,
       ModeMatchesPC
  <2>4. TileAvoidsPending'
    <3>1. PendingSlots' = PendingSlots
      BY <2>p DEF PendingSlots
    <3> QED BY <1>12, <2>p, <3>1 DEF NextTile, PlanMade, TileAvoidsPending,
        SlotsOf
  <2>5. QueuedWorkReadsItsExperts' /\ RecordsAreTrue' /\ OneSlotPerExpert'
    BY <1>12, <1>b, <2>p
       DEF NextTile, PlanMade, QueuedWorkReadsItsExperts, RecordsAreTrue,
           OneSlotPerExpert
  <2>6. ArgumentsAreIdle'
    BY <1>12, <1>b, <2>p DEF NextTile, ModeMatchesPC, ArgumentsAreIdle
  <2> QED BY <1>a, <2>1, <2>2, <2>3, <2>4, <2>5, <2>6 DEF PipelineInv
<1>13. CASE DrainPending
  <2>q. /\ Range(pending) = {Head(pending)} \cup Range(pending')
        /\ \A cb \in Range(queue) : cb.tile # Head(pending).tile
    BY <1>13, <1>a, DrainRange DEF DrainPending
  <2>1. ModeMatchesPC' /\ PlanIsSound' /\ ReadsAreSound'
    BY <1>13, <1>b, <2>q
       DEF DrainPending, DrainOldest, ModeMatchesPC, PlanIsSound, ReadsAreSound
  <2>2. QueueAvoidsMisses' /\ QueueIsPending' /\ TileAvoidsPending'
    BY <1>13, <1>b, <2>q
       DEF DrainPending, DrainOldest, QueueAvoidsMisses, QueueIsPending,
           TileAvoidsPending, PendingSlots
  <2>3. QueuedWorkReadsItsExperts' /\ RecordsAreTrue' /\ OneSlotPerExpert' /\
        ArgumentsAreIdle'
    BY <1>13, <1>b, <2>q
       DEF DrainPending, DrainOldest, QueuedWorkReadsItsExperts,
           RecordsAreTrue, OneSlotPerExpert, ArgumentsAreIdle
  <2> QED BY <1>a, <2>1, <2>2, <2>3 DEF PipelineInv
<1>14. CASE PlanTile
  <2>p. /\ UNCHANGED <<bytes, reading, queue, mode, layer, pending, lifetime>>
        /\ \/ pc' = "crashed" /\ UNCHANGED <<assigned, missing, slotExpert>>
           \/ pc' = "fetch" /\ PlanMade(PendingSlots)
    <3>1. tile \in SUBSET Experts
      BY <1>a DEF TypeOK
    <3> QED BY <1>14, <1>a, <3>1, PlanFacts DEF PlanTile, PlanOrCrash
  <2>r. InTiles => \A cb \in Range(queue) : \A u \in cb.uses : u.slot \in
        PendingSlots
    BY <1>b DEF QueueIsPending, PendingSlots, SlotsOf
  <2>1. ModeMatchesPC' /\ PlanIsSound' /\ ReadsAreSound'
    BY <1>14, <1>b, <2>p
       DEF PlanTile, PlanMade, ModeMatchesPC, PlanIsSound, ReadsAreSound
  <2>2. QueueIsPending'
    BY <1>14, <1>b, <2>p
       DEF PlanTile, PlanMade, QueueIsPending
  <2>3. QueueAvoidsMisses'
    BY <1>14, <1>b, <2>p, <2>r DEF PlanTile, PlanMade, QueueAvoidsMisses,
       ModeMatchesPC
  <2>4. TileAvoidsPending'
    <3>1. PendingSlots' = PendingSlots
      BY <2>p DEF PendingSlots
    <3> QED BY <1>14, <2>p, <3>1 DEF PlanTile, PlanMade, TileAvoidsPending,
        SlotsOf
  <2>5. QueuedWorkReadsItsExperts' /\ RecordsAreTrue' /\ OneSlotPerExpert'
    BY <1>14, <1>b, <2>p
       DEF PlanTile, PlanMade, QueuedWorkReadsItsExperts, RecordsAreTrue,
           OneSlotPerExpert
  <2>6. ArgumentsAreIdle'
    BY <1>14, <1>b, <2>p DEF PlanTile, ModeMatchesPC, ArgumentsAreIdle
  <2> QED BY <1>a, <2>1, <2>2, <2>3, <2>4, <2>5, <2>6 DEF PipelineInv
<1>15. CASE IssueTile
  <2> DEFINE issued == [tile |-> tileIndex, slots |-> SlotsOf(assigned),
                        missSlots |-> SlotsOf(missing)]
  <2>p. issued \in PendingTile
    BY <1>a DEF PendingTile, TypeOK, SlotsOf, Binding
  <2>q. Range(queue') = Range(queue) \cup {Buffer(tileIndex, assigned)}
    BY <1>15, <1>a, CommitRange DEF IssueTile, TypeOK
  <2>r. Range(pending') = Range(pending) \cup {issued}
    BY <1>15, <1>a, <2>p, AppendRange DEF IssueTile, TypeOK
  <2>1. ModeMatchesPC' /\ PlanIsSound' /\ ReadsAreSound' /\ QueueAvoidsMisses'
        /\ TileAvoidsPending' /\ RecordsAreTrue' /\ OneSlotPerExpert' /\
        ArgumentsAreIdle'
    BY <1>15, <1>b, <2>q, <2>r
       DEF IssueTile, Buffer, ModeMatchesPC, PlanIsSound, ReadsAreSound,
           QueueAvoidsMisses, TileAvoidsPending, RecordsAreTrue,
           OneSlotPerExpert, ArgumentsAreIdle, PendingSlots
  <2>2. QueueIsPending'
    <3>p. /\ issued \in Range(pending')
          /\ issued.tile = tileIndex /\ issued.slots = SlotsOf(assigned)
      BY <2>r
    <3>q. \A cb \in Range(queue') :
            \/ cb \in Range(queue)
            \/ cb.tile = tileIndex /\ cb.uses = assigned
      BY <2>q DEF Buffer
    <3> HIDE DEF issued
    <3>1. ASSUME NEW cb \in Range(queue'), InTiles
          PROVE  \E p \in Range(pending') :
                   cb.tile = p.tile /\ SlotsOf(cb.uses) \subseteq p.slots
      BY <1>b, <2>r, <3>1, <3>p, <3>q DEF QueueIsPending
    <3>2. ASSUME NEW u \in lifetime', InTiles
          PROVE  \E p \in Range(pending') : u[1] = p.tile /\ u[2] \in p.slots
      <4>1. CASE u \in lifetime
        BY <1>b, <2>r, <3>2, <4>1 DEF QueueIsPending
      <4>2. CASE u \in {<<tileIndex, s>> : s \in SlotsOf(missing)}
        <5>1. u[1] = tileIndex /\ u[2] \in SlotsOf(assigned)
          BY <1>a, <4>2 DEF TypeOK, SlotsOf
        <5> QED BY <3>p, <5>1
      <4> QED BY <1>15, <4>1, <4>2 DEF IssueTile
    <3>3. InTiles' => InTiles
      BY <1>15 DEF IssueTile
    <3> QED BY <3>1, <3>2, <3>3 DEF QueueIsPending
  <2>3. QueuedWorkReadsItsExperts'
    <3>r. \A b \in assigned : /\ b.slot \in Slots /\ b.expert # NoExpert
                              /\ slotExpert[layer][b.slot] = b.expert
      BY <1>15, <1>a, <1>b DEF IssueTile, TypeOK, Binding, PlanIsSound
    <3>1. \A b \in assigned : bytes[layer][b.slot] = b.expert
      BY <1>a, <1>b, <3>r DEF TypeOK, RecordsAreTrue
    <3> QED BY <1>15, <1>b, <2>q, <3>1 DEF IssueTile, Buffer,
        QueuedWorkReadsItsExperts
  <2> QED BY <1>a, <2>1, <2>2, <2>3 DEF PipelineInv
<1>16. CASE DrainToDepth
  <2>1. ModeMatchesPC' /\ PlanIsSound' /\ ReadsAreSound' /\ QueueAvoidsMisses'
        /\ TileAvoidsPending' /\ QueuedWorkReadsItsExperts' /\ RecordsAreTrue'
        /\ OneSlotPerExpert' /\ ArgumentsAreIdle'
    BY <1>16, <1>b
       DEF DrainToDepth, ModeMatchesPC, PlanIsSound, ReadsAreSound,
           QueueAvoidsMisses, TileAvoidsPending, QueuedWorkReadsItsExperts,
           RecordsAreTrue, OneSlotPerExpert, ArgumentsAreIdle, PendingSlots
  <2>2. QueueIsPending'
    <3>1. CASE DrainOldest
      <4>1. /\ Range(pending) = {Head(pending)} \cup Range(pending')
            /\ \A cb \in Range(queue) : cb.tile # Head(pending).tile
        BY <1>a, <3>1, DrainRange
      <4> QED BY <1>16, <1>b, <3>1, <4>1 DEF DrainToDepth, DrainOldest,
          QueueIsPending
    <3>2. CASE UNCHANGED <<pending, lifetime>>
      BY <1>16, <1>b, <3>2 DEF DrainToDepth, QueueIsPending
    <3> QED BY <1>16, <3>1, <3>2 DEF DrainToDepth
  <2> QED BY <1>a, <2>1, <2>2 DEF PipelineInv
<1>17. CASE CommitTail
  <2>q. Range(queue') = Range(queue) \cup {Buffer(NoTile, {})}
    BY <1>17, <1>a, CommitRange DEF CommitTail, TypeOK
  <2>1. ModeMatchesPC' /\ PlanIsSound' /\ ReadsAreSound' /\ QueueAvoidsMisses'
        /\ QueueIsPending' /\ TileAvoidsPending' /\ QueuedWorkReadsItsExperts'
        /\ RecordsAreTrue' /\ OneSlotPerExpert' /\ ArgumentsAreIdle'
    BY <1>17, <1>b, <2>q
       DEF CommitTail, Buffer, ModeMatchesPC, PlanIsSound, ReadsAreSound,
           QueueAvoidsMisses, QueueIsPending, TileAvoidsPending,
           QueuedWorkReadsItsExperts, RecordsAreTrue, OneSlotPerExpert,
           ArgumentsAreIdle, PendingSlots
  <2> QED BY <1>a, <2>1 DEF PipelineInv
<1>18. CASE EndLayer
  <2>1. ModeMatchesPC' /\ PlanIsSound' /\ ReadsAreSound' /\ QueueAvoidsMisses'
        /\ QueueIsPending' /\ TileAvoidsPending' /\ QueuedWorkReadsItsExperts'
        /\ RecordsAreTrue' /\ OneSlotPerExpert' /\ ArgumentsAreIdle'
    BY <1>18, <1>b, DrainedRange
       DEF EndLayer, ModeMatchesPC, PlanIsSound, ReadsAreSound,
           QueueAvoidsMisses, QueueIsPending, TileAvoidsPending,
           QueuedWorkReadsItsExperts, RecordsAreTrue, OneSlotPerExpert,
           ArgumentsAreIdle, PendingSlots
  <2> QED BY <1>a, <2>1 DEF PipelineInv
<1>19. CASE ThrowFromPrefill
  <2>1. ModeMatchesPC' /\ PlanIsSound' /\ ReadsAreSound' /\ QueueAvoidsMisses'
        /\ QueueIsPending' /\ TileAvoidsPending' /\ QueuedWorkReadsItsExperts'
        /\ RecordsAreTrue' /\ OneSlotPerExpert' /\ ArgumentsAreIdle'
    BY <1>19, <1>b, EmptyRange
       DEF ThrowFromPrefill, Throw, ModeMatchesPC, PlanIsSound, ReadsAreSound,
           QueueAvoidsMisses, QueueIsPending, TileAvoidsPending,
           QueuedWorkReadsItsExperts, RecordsAreTrue, OneSlotPerExpert,
           ArgumentsAreIdle, PendingSlots
  <2> QED BY <1>a, <2>1 DEF PipelineInv
<1>20. CASE StartReads
  <2>p. \A l \in Layers, s \in Slots :
          bytes'[l][s] = IF l = layer /\ s \in SlotsOf(missing) THEN NoExpert
                         ELSE bytes[l][s]
    BY <1>20, <1>a DEF StartReads, TypeOK
  <2>t. \A cb \in Range(queue) : cb.layer \in Layers /\ cb.uses \subseteq
        Binding
    BY <1>a, QueueTypes DEF CommandBuffer
  <2>1. ModeMatchesPC' /\ PlanIsSound' /\ QueueAvoidsMisses' /\ QueueIsPending'
        /\ TileAvoidsPending' /\ OneSlotPerExpert' /\ ArgumentsAreIdle'
    BY <1>20, <1>b
       DEF StartReads, ModeMatchesPC, PlanIsSound, QueueAvoidsMisses,
           QueueIsPending, TileAvoidsPending, OneSlotPerExpert,
           ArgumentsAreIdle, PendingSlots
  <2>2. ReadsAreSound'
    BY <1>20, <1>a, <1>b, <2>p DEF StartReads, TypeOK, Binding, SlotsOf,
       ReadsAreSound
  <2>3. QueuedWorkReadsItsExperts'
    BY <1>20, <1>b, <2>p, <2>t DEF StartReads, Binding, SlotsOf,
       QueueAvoidsMisses, QueuedWorkReadsItsExperts
  <2>4. RecordsAreTrue'
    BY <1>20, <1>b, <2>p DEF StartReads, SlotsOf, PlanIsSound, RecordsAreTrue
  <2> QED BY <1>a, <2>1, <2>2, <2>3, <2>4 DEF PipelineInv
<1>21. CASE PublishReads
  <2>m. missing \subseteq Binding /\ missing \subseteq assigned /\ layer \in
        Layers
        /\ assigned \subseteq Binding
    BY <1>a DEF TypeOK
  <2>o. \A a, b \in missing : a.slot = b.slot => a = b
    BY <1>b, <2>m DEF PlanIsSound
  <2>p. \A b \in missing : slotExpert'[layer][b.slot] = b.expert
    <3>1. ASSUME NEW b \in missing
          PROVE  (CHOOSE a \in missing : a.slot = b.slot) = b
      BY <2>o
    <3> QED BY <1>21, <1>a, <2>m, <3>1 DEF PublishReads, TypeOK, Binding
  <2>q. \A l \in Layers, s \in Slots :
          \/ slotExpert'[l][s] = slotExpert[l][s]
             /\ (l = layer => \A b \in missing : b.slot # s)
          \/ l = layer /\ \E b \in missing : b.slot = s
    BY <1>21, <1>a DEF PublishReads, TypeOK
  <2>r. /\ UNCHANGED <<bytes, reading, layer, mode, queue, assigned, missing>>
        /\ pc = "reading" /\ reading = {} /\ ~failed
        /\ \/ mode = "decode" /\ pc' = "routed"
           \/ mode = "prefill" /\ pc' = "issueTile"
    BY <1>21, <1>a DEF PublishReads, TypeOK
  <2>1. ReadsAreSound' /\ QueueAvoidsMisses' /\ QueueIsPending' /\
        TileAvoidsPending' /\ QueuedWorkReadsItsExperts' /\ ArgumentsAreIdle'
    BY <1>21, <1>b
       DEF PublishReads, ReadsAreSound, QueueAvoidsMisses, QueueIsPending,
           TileAvoidsPending, QueuedWorkReadsItsExperts, ArgumentsAreIdle,
           PendingSlots
  <2>2. ModeMatchesPC'
    BY <2>r DEF ModeMatchesPC
  <2>3. PlanIsSound'
    BY <1>b, <2>m, <2>p, <2>q, <2>r DEF PlanIsSound, Binding
  <2>4. RecordsAreTrue'
    BY <1>b, <2>m, <2>p, <2>q, <2>r DEF ReadsAreSound, RecordsAreTrue
  <2>5. OneSlotPerExpert'
    BY <1>b, <2>m, <2>p, <2>q, <2>r DEF Binding, PlanIsSound, OneSlotPerExpert
  <2> QED BY <1>a, <2>1, <2>2, <2>3, <2>4, <2>5 DEF PipelineInv
<1>22. CASE ThrowReadError
  <2>1. ModeMatchesPC' /\ PlanIsSound' /\ ReadsAreSound' /\ QueueAvoidsMisses'
        /\ QueueIsPending' /\ TileAvoidsPending' /\ QueuedWorkReadsItsExperts'
        /\ RecordsAreTrue' /\ OneSlotPerExpert' /\ ArgumentsAreIdle'
    BY <1>22, <1>b, EmptyRange
       DEF ThrowReadError, Throw, ModeMatchesPC, PlanIsSound, ReadsAreSound,
           QueueAvoidsMisses, QueueIsPending, TileAvoidsPending,
           QueuedWorkReadsItsExperts, RecordsAreTrue, OneSlotPerExpert,
           ArgumentsAreIdle, PendingSlots
  <2> QED BY <1>a, <2>1 DEF PipelineInv
<1>23. ASSUME NEW b \in reading, FinishRead(b) PROVE PipelineInv'
  <2>p. \A l \in Layers, s \in Slots :
          bytes'[l][s] = IF l = layer /\ s = b.slot THEN b.expert ELSE
             bytes[l][s]
    BY <1>23, <1>a DEF FinishRead, TypeOK
  <2>r. b \in missing /\ b \in Binding /\ missing \subseteq assigned
        /\ missing \subseteq Binding
    BY <1>23, <1>a, <1>b DEF FinishRead, TypeOK, ReadsAreSound
  <2>t. \A cb \in Range(queue) : cb.layer \in Layers /\ cb.uses \subseteq
        Binding
    BY <1>a, QueueTypes DEF CommandBuffer
  <2>u. UNCHANGED <<slotExpert, queue, pc, mode, layer, assigned, missing,
                    pending, lifetime>>
    BY <1>23 DEF FinishRead
  <2>v. ModeMatchesPC' /\ PlanIsSound' /\ QueueAvoidsMisses' /\ OneSlotPerExpert'
    BY <1>b, <2>u DEF ModeMatchesPC, PlanIsSound, QueueAvoidsMisses, OneSlotPerExpert
  <2>w. QueueIsPending' /\ TileAvoidsPending' /\ ArgumentsAreIdle'
    BY <1>b, <2>u DEF QueueIsPending, TileAvoidsPending, ArgumentsAreIdle,
       PendingSlots, Drained
  <2>1. ModeMatchesPC' /\ PlanIsSound' /\ QueueAvoidsMisses' /\ QueueIsPending'
        /\ TileAvoidsPending' /\ OneSlotPerExpert' /\ ArgumentsAreIdle'
    BY <2>v, <2>w
  <2>2. ReadsAreSound'
    BY <1>23, <1>a, <1>b, <2>p, <2>r DEF FinishRead, TypeOK, Binding,
       PlanIsSound, ReadsAreSound
  <2>3. QueuedWorkReadsItsExperts'
    BY <1>23, <1>b, <2>p, <2>r, <2>t DEF FinishRead, Binding,
       QueueAvoidsMisses, QueuedWorkReadsItsExperts
  <2>4. RecordsAreTrue'
    BY <1>23, <1>b, <2>p, <2>r DEF FinishRead, PlanIsSound, RecordsAreTrue
  <2> QED BY <1>a, <2>1, <2>2, <2>3, <2>4 DEF PipelineInv
<1>24. ASSUME NEW b \in reading, FailRead(b) PROVE PipelineInv'
  <2>1. ModeMatchesPC' /\ PlanIsSound' /\ ReadsAreSound' /\ QueueAvoidsMisses'
        /\ QueueIsPending' /\ TileAvoidsPending' /\ QueuedWorkReadsItsExperts'
        /\ RecordsAreTrue' /\ OneSlotPerExpert' /\ ArgumentsAreIdle'
    BY <1>24, <1>b
       DEF FailRead, ModeMatchesPC, PlanIsSound, ReadsAreSound,
           QueueAvoidsMisses, QueueIsPending, TileAvoidsPending,
           QueuedWorkReadsItsExperts, RecordsAreTrue, OneSlotPerExpert,
           ArgumentsAreIdle, PendingSlots
  <2> QED BY <1>a, <2>1 DEF PipelineInv
<1>25. CASE GpuComplete
  <2>q. Range(queue') \subseteq Range(queue)
    BY <1>25, <1>a, TailRange DEF GpuComplete, TypeOK
  <2>1. ModeMatchesPC' /\ PlanIsSound' /\ ReadsAreSound'
    BY <1>25, <1>b, <2>q
       DEF GpuComplete, ModeMatchesPC, PlanIsSound, ReadsAreSound
  <2>2. QueueAvoidsMisses' /\ QueueIsPending' /\ TileAvoidsPending'
    BY <1>25, <1>b, <2>q
       DEF GpuComplete, QueueAvoidsMisses, QueueIsPending, TileAvoidsPending,
           PendingSlots
  <2>3. QueuedWorkReadsItsExperts' /\ RecordsAreTrue' /\ OneSlotPerExpert'
    BY <1>25, <1>b, <2>q
       DEF GpuComplete, QueuedWorkReadsItsExperts, RecordsAreTrue,
           OneSlotPerExpert
  <2>4. ArgumentsAreIdle'
    BY <1>25, <1>b, <2>q DEF GpuComplete, Drained, ArgumentsAreIdle
  <2> QED BY <1>a, <2>1, <2>2, <2>3, <2>4 DEF PipelineInv
<1>26. CASE UNCHANGED vars
  BY <1>26, <1>a, <1>b DEF vars, PipelineInv, ModeMatchesPC, PlanIsSound,
     ReadsAreSound, QueueAvoidsMisses, QueueIsPending, TileAvoidsPending,
     QueuedWorkReadsItsExperts, RecordsAreTrue, OneSlotPerExpert,
        ArgumentsAreIdle, PendingSlots, Drained
<1> QED BY <1>1, <1>2, <1>3, <1>4, <1>5, <1>6, <1>7, <1>8, <1>9, <1>10, <1>11,
    <1>12, <1>13, <1>14, <1>15, <1>16, <1>17, <1>18, <1>19, <1>20, <1>21,
    <1>22, <1>23, <1>24, <1>25, <1>26
     DEF Next, Step, Decode, Prefill, Fetch, EndRead

\* The initial state satisfies the inductive invariant.
LEMMA InitInv == Init => PipelineInv
<1> SUFFICES ASSUME Init PROVE PipelineInv
  OBVIOUS
<1>1. TypeOK
  BY InitType
<1>2. Range(queue) = {}
  BY EmptyRange DEF Init
<1>3. \A l \in Layers, s \in Slots : slotExpert[l][s] = NoExpert
  BY DEF Init
<1>4. /\ ModeMatchesPC /\ PlanIsSound /\ ReadsAreSound
      /\ QueueAvoidsMisses /\ QueueIsPending /\ TileAvoidsPending
  BY DEF Init, ModeMatchesPC, PlanIsSound, ReadsAreSound, QueueAvoidsMisses,
         QueueIsPending, TileAvoidsPending, Planned, InTiles, DecodePCs, PrefillPCs
<1>5. /\ QueuedWorkReadsItsExperts /\ RecordsAreTrue /\ OneSlotPerExpert
      /\ ArgumentsAreIdle
  BY <1>2, <1>3 DEF QueuedWorkReadsItsExperts, RecordsAreTrue, OneSlotPerExpert,
                    ArgumentsAreIdle, Init, Drained
<1> QED BY <1>1, <1>4, <1>5 DEF PipelineInv

\* The inductive invariant holds in every reachable state.
THEOREM PipelineInvariant == Spec => []PipelineInv
<1>1. QED BY InitInv, InvInductive, PTL DEF Spec

-----------------------------------------------------------------------------
(* The safety properties, for every value of the constants.                *)

\* Committed GPU work reads the experts it was encoded for, whatever the
\* runner plans, reads, or abandons on an error while the work is queued.
THEOREM QueuedWorkIsSafe == Spec => []QueuedWorkReadsItsExperts
<1>1. PipelineInv => QueuedWorkReadsItsExperts
  BY DEF PipelineInv
<1> QED BY <1>1, PipelineInvariant, PTL

\* No pread under way goes into a slot that uncompleted GPU work reads: the
\* reads are the misses of the plan, and the plan avoids the queued slots.
THEOREM ReadsAreSafe == Spec => []ReadsAvoidQueuedSlots
<1>1. PipelineInv => ReadsAvoidQueuedSlots
  BY DEF PipelineInv, ReadsAreSound, QueueAvoidsMisses, Planned, ReadsAvoidQueuedSlots
<1> QED BY <1>1, PipelineInvariant, PTL

\* The concurrent reads of a plan go into different slots.
THEOREM ReadsAreExclusive == Spec => []OneReadPerSlot
<1>1. PipelineInv => OneReadPerSlot
  BY DEF PipelineInv, TypeOK, PlanIsSound, ReadsAreSound, OneReadPerSlot
<1> QED BY <1>1, PipelineInvariant, PTL

\* The cache's records are never ahead of the bytes in the slots, through
\* failed reads and steps that were thrown away.
THEOREM CacheIsTrue == Spec => []RecordsAreTrue
<1>1. PipelineInv => RecordsAreTrue
  BY DEF PipelineInv
<1> QED BY <1>1, PipelineInvariant, PTL

\* An expert is recorded in at most one slot of a layer.
THEOREM CacheIsInjective == Spec => []OneSlotPerExpert
<1>1. PipelineInv => OneSlotPerExpert
  BY DEF PipelineInv
<1> QED BY <1>1, PipelineInvariant, PTL

\* When the CPU rewrites the routed argument buffer or an active-slot list, the
\* work of earlier layers that reads the previous contents has completed.
THEOREM ArgumentsAreStable == Spec => []ArgumentsAreIdle
<1>1. PipelineInv => ArgumentsAreIdle
  BY DEF PipelineInv
<1> QED BY <1>1, PipelineInvariant, PTL

\* slotReuseBeforeCompletion, the runtime's own guard, is unreachable.
THEOREM LifetimeGuardIsRedundant == Spec => []LifetimeNeverRefuses
<1>1. PipelineInv => LifetimeNeverRefuses
  <2> SUFFICES ASSUME PipelineInv, pc = "issueTile",
                      NEW u \in lifetime, u[2] \in SlotsOf(missing)
               PROVE  FALSE
    BY DEF LifetimeNeverRefuses, LifetimeAllows
  <2>1. mode = "prefill"
    BY DEF PipelineInv, ModeMatchesPC, PrefillPCs, DecodePCs
  <2>2. u[2] \in PendingSlots
    BY <2>1 DEF PipelineInv, QueueIsPending, InTiles, PendingSlots
  <2> QED BY <2>1, <2>2 DEF PipelineInv, TileAvoidsPending
<1> QED BY <1>1, PipelineInvariant, PTL

-----------------------------------------------------------------------------
(* The pipeline implements OwnedSlots.                                     *)

\* A step that leaves the bytes alone and only adds or only removes queued
\* work is a Hold or a Release.
LEMMA QueueStep ==
  ASSUME UNCHANGED bytes, QueuedWorkReadsItsExperts',
         \/ Range(queue) \subseteq Range(queue')
         \/ Range(queue') \subseteq Range(queue)
  PROVE  Owned!Next
<1>1. CASE Range(queue) \subseteq Range(queue')
  <2>1. Held \subseteq Held'
    BY <1>1 DEF Held
  <2>2. \A h \in Held' : bytes[h.layer][h.slot] = h.expert
    BY DEF Held, QueuedWorkReadsItsExperts
  <2> QED BY <2>1, <2>2 DEF Owned!Next, Owned!Hold
<1>2. CASE Range(queue') \subseteq Range(queue)
  <2>1. Held' \subseteq Held
    BY <1>2 DEF Held
  <2> QED BY <2>1 DEF Owned!Next, Owned!Release
<1> QED BY <1>1, <1>2

\* Every step changes the queue's range in one direction and, but for the
\* start and the end of a read, leaves the bytes alone.
LEMMA OneDirection ==
  ASSUME TypeOK, [Next]_vars,
         ~ StartReads, ~ \E b \in reading : FinishRead(b)
  PROVE  /\ UNCHANGED bytes
         /\ \/ Range(queue) \subseteq Range(queue')
            \/ Range(queue') \subseteq Range(queue)
<1> USE DEF cache, tiles, plan
<1>1. CASE UNCHANGED <<bytes, queue>>
  BY <1>1
<1>2. ASSUME UNCHANGED bytes, NEW x \in CommandBuffer, queue' = Append(queue, x)
      PROVE  Range(queue) \subseteq Range(queue')
  BY <1>2, AppendRange DEF TypeOK
<1>3. CASE BeginToken
  <2>1. [layer |-> 1, tile |-> NoTile, uses |-> {}] \in CommandBuffer
    BY LayersAssumption DEF CommandBuffer, Layers
  <2> QED BY <1>2, <1>3, <2>1 DEF BeginToken, Commit
<1>4. CASE CommitCb1 \/ CommitLayer \/ CommitTail
  <2>1. Buffer(NoTile, {}) \in CommandBuffer
    BY DEF TypeOK, Buffer, CommandBuffer
  <2> QED BY <1>2, <1>4, <2>1 DEF CommitCb1, CommitLayer, CommitTail, Commit
<1>5. CASE CommitRouted \/ IssueTile
  <2>1. Buffer(NoTile, assigned) \in CommandBuffer
    BY DEF TypeOK, Buffer, CommandBuffer
  <2>2. Buffer(tileIndex, assigned) \in CommandBuffer
    BY DEF TypeOK, Buffer, CommandBuffer
  <2> QED BY <1>2, <1>5, <2>1, <2>2 DEF CommitRouted, IssueTile, Commit
<1>6. CASE CommitSharedAndHits
  <2> DEFINE shared == Append(queue, Buffer(NoTile, {}))
             hits == Buffer(NoTile, assigned \ missing)
  <2>1. Buffer(NoTile, {}) \in CommandBuffer /\ hits \in CommandBuffer
    BY DEF TypeOK, Buffer, CommandBuffer
  <2>2. shared \in Seq(CommandBuffer) /\ Range(queue) \subseteq Range(shared)
    BY <2>1, AppendRange DEF TypeOK
  <2>3. queue' \in {shared, Append(shared, hits)} /\ UNCHANGED bytes
    BY <1>6 DEF CommitSharedAndHits
  <2> HIDE DEF shared, hits
  <2>4. Range(shared) \subseteq Range(Append(shared, hits))
    BY <2>1, <2>2, AppendRange
  <2> QED BY <2>2, <2>3, <2>4
<1>7. CASE GpuComplete
  BY <1>7, TailRange DEF GpuComplete, TypeOK
<1>8. CASE UNCHANGED vars
  BY <1>8, <1>1 DEF vars
<1>9. CASE BeginChunk \/ EmbedDone \/ PlanToken \/ ThrowFromPlan \/ FinishToken
  BY <1>1, <1>9
     DEF BeginChunk, EmbedDone, PlanToken, ThrowFromPlan, FinishToken,
         PlanOrCrash, Throw
<1>10. CASE BeginTiles \/ NextTile \/ DrainPending \/ PlanTile \/ DrainToDepth
            \/ EndLayer \/ ThrowFromPrefill
  BY <1>1, <1>10
     DEF BeginTiles, NextTile, DrainPending, PlanTile, DrainToDepth,
         EndLayer, ThrowFromPrefill, PlanOrCrash, Throw
<1>11. CASE PublishReads \/ ThrowReadError \/ \E b \in reading : FailRead(b)
  BY <1>1, <1>11 DEF PublishReads, ThrowReadError, FailRead, Throw
<1> QED BY <1>3, <1>4, <1>5, <1>6, <1>7, <1>8, <1>9, <1>10, <1>11
     DEF Next, Step, Decode, Prefill, Fetch, EndRead

\* A pipeline step is a step of OwnedSlots: the start of the reads is
\* Overwrite, the end of one is Fill, every other one is Hold or Release.
LEMMA RefinesStep ==
  PipelineInv /\ PipelineInv' /\ [Next]_vars => [Owned!Next]_(Owned!vars)
<1> SUFFICES ASSUME PipelineInv, PipelineInv', [Next]_vars PROVE Owned!Next
  BY DEF Owned!vars
<1>1. TypeOK
  BY DEF PipelineInv
<1>2. CASE StartReads
  <2>1. Held' = Held
    BY <1>2 DEF StartReads, Held
  <2>2. \A h \in Held : h.layer = layer => h.slot \notin SlotsOf(missing)
    BY <1>2 DEF PipelineInv, QueueAvoidsMisses, Planned, StartReads, Held, SlotsOf
  <2>3. layer \in Layers /\ SlotsOf(missing) \in SUBSET Slots
    BY <1>1 DEF TypeOK, SlotsOf, Binding
  <2>4. Owned!Overwrite(layer, SlotsOf(missing))
    BY <1>2, <2>1, <2>2 DEF StartReads, Owned!Overwrite
  <2> QED BY <2>3, <2>4 DEF Owned!Next
<1>3. ASSUME NEW b \in reading, FinishRead(b) PROVE Owned!Next
  <2>1. Held' = Held
    BY <1>3 DEF FinishRead, Held
  <2>2. layer \in Layers /\ b.slot \in Slots /\ b.expert \in Experts
    BY <1>1 DEF TypeOK, Binding
  <2>3. bytes[layer][b.slot] = NoExpert
    BY <1>3 DEF PipelineInv, ReadsAreSound, FinishRead
  <2>4. Owned!Fill(layer, b.slot, b.expert)
    BY <1>3, <2>1, <2>3 DEF FinishRead, Owned!Fill
  <2> QED BY <2>2, <2>4 DEF Owned!Next
<1>4. CASE ~StartReads /\ ~ \E b \in reading : FinishRead(b)
  <2>1. QueuedWorkReadsItsExperts'
    BY DEF PipelineInv
  <2> QED BY <1>1, <1>4, <2>1, OneDirection, QueueStep
<1> QED BY <1>2, <1>3, <1>4

\* The pipeline keeps the promise of OwnedSlots: no read starts into a slot
\* that queued work holds, and none is queued before its experts are there.
THEOREM PipelineOwnsItsSlots == Spec => ImplementsOwnedSlots
<1>1. Init => Owned!Init
  BY EmptyRange DEF Init, Owned!Init, Held
<1> QED BY <1>1, PipelineInvariant, RefinesStep, PTL
     DEF Spec, Owned!Spec, ImplementsOwnedSlots

-----------------------------------------------------------------------------
(* The slot budget.  A prefill plan can be placed when the slots of the     *)
(* pending tiles and the tile's experts fit into the layer's slots.  That   *)
(* n pending tiles hold n * TileExperts slots at most is a sum over a       *)
(* sequence; it is kept for every suffix, which a drained head leaves as    *)
(* they are and an issued tile extends by one.                              *)

\* The slots of the k-th pending tile and those after it.
SlotsFrom(q, k) == UNION {q[i].slots : i \in k..Len(q)}

WithinTiles(q) ==
  \A k \in 1..(Len(q) + 1) :
    Cardinality(SlotsFrom(q, k)) <= ((Len(q) + 1) - k) * TileExperts

\* In the tile loop the budget fits, the pending tiles keep to it, and no
\* pending tile is without slots, so the scheduler never waits for want of one.
PendingFits ==
  InTiles =>
    /\ FitsSlotBudget
    /\ Len(pending) <= MaxPendingDepth + (IF pc = "afterIssue" THEN 1 ELSE 0)
    /\ \A i \in 1..Len(pending) : pending[i].slots # {}
    /\ WithinTiles(pending)

\* The tile in hand keeps to its share; without a plan it has no tile before it.
TileFits ==
  /\ pc = "plan" => /\ pending = <<>>
                    /\ tile # {} /\ Cardinality(tile) <= TileExperts
  /\ mode = "prefill" /\ pc \in {"fetch", "reading", "issueTile"} =>
       /\ SlotsOf(assigned) # {}
       /\ Cardinality(SlotsOf(assigned)) <= TileExperts

BudgetInv == BudgetSuffices /\ PendingFits /\ TileFits

\* The products of the argument.
LEMMA Products ==
  ASSUME NEW m \in Nat, NEW n \in Nat
  PROVE  /\ m * TileExperts \in Nat
         /\ (m + 1) * TileExperts = m * TileExperts + TileExperts
         /\ m <= n => m * TileExperts <= n * TileExperts
<1> TileExperts \in Nat
  BY TileAssumption
<1>1. m * TileExperts \in Nat /\ n * TileExperts \in Nat
  OBVIOUS
<1>2. (m + 1) * TileExperts = m * TileExperts + TileExperts
  OBVIOUS
<1>3. ASSUME m <= n PROVE m * TileExperts <= n * TileExperts
  <2>1. PICK d \in Nat : n = m + d
    <3>1. n - m \in Nat /\ n = m + (n - m)
      BY <1>3
    <3> QED BY <3>1
  <2>2. d * TileExperts \in Nat
    OBVIOUS
  <2>3. (m + d) * TileExperts = m * TileExperts + d * TileExperts
    OBVIOUS
  <2> QED BY <1>1, <2>1, <2>2, <2>3
<1> QED BY <1>1, <1>2, <1>3

\* Slots that pending tiles hold are slots, and finitely many.
LEMMA SuffixTypes ==
  ASSUME NEW q \in Seq(PendingTile), NEW k \in Nat \ {0}
  PROVE  /\ SlotsFrom(q, k) \in SUBSET Slots
         /\ IsFiniteSet(SlotsFrom(q, k))
         /\ Cardinality(SlotsFrom(q, k)) \in Nat
<1>1. \A i \in k..Len(q) : q[i] \in PendingTile
  OBVIOUS
<1>2. SlotsFrom(q, k) \in SUBSET Slots
  BY <1>1 DEF SlotsFrom, PendingTile
<1> QED BY <1>2, SlotsAssumption, FS_Subset, FS_CardinalityType

\* The slots of all pending tiles are those from the first on.
LEMMA AllSlots ==
  ASSUME NEW q \in Seq(PendingTile)
  PROVE  UNION {p.slots : p \in Range(q)} = SlotsFrom(q, 1)
<1>1. DOMAIN q = 1..Len(q)
  OBVIOUS
<1> QED BY <1>1 DEF SlotsFrom, Range

\* Draining the oldest tile leaves the bounds of the others.
LEMMA TailWithin ==
  ASSUME NEW q \in Seq(PendingTile), q # <<>>, WithinTiles(q)
  PROVE  WithinTiles(Tail(q))
<1>1. /\ Len(q) \in Nat \ {0} /\ Len(Tail(q)) = Len(q) - 1
      /\ \A i \in 1..(Len(q) - 1) : Tail(q)[i] = q[i + 1]
  OBVIOUS
<1>2. SUFFICES ASSUME NEW k \in 1..Len(q)
               PROVE  Cardinality(SlotsFrom(Tail(q), k)) <= (Len(q) - k) * TileExperts
  BY <1>1 DEF WithinTiles
<1>3. SlotsFrom(Tail(q), k) = SlotsFrom(q, k + 1)
  <2>1. ASSUME NEW s \in SlotsFrom(Tail(q), k) PROVE s \in SlotsFrom(q, k + 1)
    <3>1. PICK i \in k..(Len(q) - 1) : s \in Tail(q)[i].slots
      BY <1>1, <2>1 DEF SlotsFrom
    <3>2. i + 1 \in (k + 1)..Len(q) /\ Tail(q)[i] = q[i + 1]
      BY <1>1, <3>1
    <3> QED BY <3>1, <3>2 DEF SlotsFrom
  <2>2. ASSUME NEW s \in SlotsFrom(q, k + 1) PROVE s \in SlotsFrom(Tail(q), k)
    <3>1. PICK j \in (k + 1)..Len(q) : s \in q[j].slots
      BY <2>2 DEF SlotsFrom
    <3>2. PICK i \in k..(Len(q) - 1) : j = i + 1
      <4>1. j - 1 \in k..(Len(q) - 1) /\ j = (j - 1) + 1
        BY <1>1, <3>1
      <4> QED BY <4>1
    <3>3. Tail(q)[i] = q[j]
      BY <1>1, <3>2
    <3> QED BY <1>1, <3>1, <3>2, <3>3 DEF SlotsFrom
  <2> QED BY <2>1, <2>2
<1>4. k + 1 \in 1..(Len(q) + 1) /\ (Len(q) + 1) - (k + 1) = Len(q) - k
  BY <1>1
<1>5. Cardinality(SlotsFrom(q, k + 1)) <= ((Len(q) + 1) - (k + 1)) * TileExperts
  BY <1>4 DEF WithinTiles
<1> QED BY <1>3, <1>4, <1>5

\* Issuing a tile that keeps to its share keeps the bounds.
LEMMA AppendWithin ==
  ASSUME NEW q \in Seq(PendingTile), NEW p \in PendingTile, WithinTiles(q),
         Cardinality(p.slots) <= TileExperts
  PROVE  WithinTiles(Append(q, p))
<1> DEFINE more == Append(q, p)
<1>1. /\ Len(q) \in Nat /\ Len(more) = Len(q) + 1 /\ TileExperts \in Nat
      /\ \A i \in 1..Len(q) : more[i] = q[i]
      /\ more[Len(q) + 1] = p
  BY TileAssumption
<1> HIDE DEF more
<1>2. IsFiniteSet(p.slots) /\ Cardinality(p.slots) \in Nat
  BY SlotsAssumption, FS_Subset, FS_CardinalityType DEF PendingTile
<1>3. ASSUME NEW k \in 1..(Len(q) + 1)
      PROVE  Cardinality(SlotsFrom(more, k)) <= ((Len(q) + 2) - k) * TileExperts
  <2>1. SlotsFrom(more, k) = SlotsFrom(q, k) \cup p.slots
    <3>1. ASSUME NEW s \in SlotsFrom(more, k) PROVE s \in SlotsFrom(q, k) \cup p.slots
      <4>1. PICK i \in k..(Len(q) + 1) : s \in more[i].slots
        BY <1>1, <3>1 DEF SlotsFrom
      <4>2. CASE i = Len(q) + 1
        BY <1>1, <4>1, <4>2
      <4>3. CASE i # Len(q) + 1
        <5>1. i \in k..Len(q) /\ more[i] = q[i]
          BY <1>1, <4>1, <4>3
        <5> QED BY <4>1, <5>1 DEF SlotsFrom
      <4> QED BY <4>2, <4>3
    <3>2. ASSUME NEW s \in SlotsFrom(q, k) PROVE s \in SlotsFrom(more, k)
      <4>1. PICK i \in k..Len(q) : s \in q[i].slots
        BY <3>2 DEF SlotsFrom
      <4>2. i \in k..Len(more) /\ more[i] = q[i]
        BY <1>1, <4>1
      <4> QED BY <4>1, <4>2 DEF SlotsFrom
    <3>3. p.slots \subseteq SlotsFrom(more, k)
      <4>1. Len(more) \in k..Len(more)
        BY <1>1
      <4> QED BY <1>1, <4>1 DEF SlotsFrom
    <3> QED BY <3>1, <3>2, <3>3
  <2>2. IsFiniteSet(SlotsFrom(q, k)) /\ Cardinality(SlotsFrom(q, k)) \in Nat
    BY <1>1, SuffixTypes
  <2>3. Cardinality(SlotsFrom(more, k))
          <= Cardinality(SlotsFrom(q, k)) + Cardinality(p.slots)
    <3>1. IsFiniteSet(SlotsFrom(q, k) \cap p.slots)
      BY <2>2, FS_Intersection
    <3>2. Cardinality(SlotsFrom(q, k) \cap p.slots) \in Nat
      BY <3>1, FS_CardinalityType
    <3>3. Cardinality(SlotsFrom(more, k)) = Cardinality(SlotsFrom(q, k))
            + Cardinality(p.slots) - Cardinality(SlotsFrom(q, k) \cap p.slots)
      BY <1>2, <2>1, <2>2, FS_Union
    <3> QED BY <1>2, <2>2, <3>2, <3>3
  <2> DEFINE n == (Len(q) + 1) - k
  <2>4. n \in Nat /\ (Len(q) + 2) - k = n + 1
    BY <1>1
  <2>5. Cardinality(SlotsFrom(q, k)) <= n * TileExperts
    BY DEF WithinTiles
  <2> HIDE DEF n
  <2>6. n * TileExperts \in Nat /\ (n + 1) * TileExperts = n * TileExperts + TileExperts
    BY <2>4, Products
  <2>7. Cardinality(SlotsFrom(more, k)) \in Nat
    BY <1>2, <2>1, <2>2, FS_Union, FS_CardinalityType
  <2>8. Cardinality(SlotsFrom(more, k)) <= (n + 1) * TileExperts
    BY <1>1, <1>2, <2>2, <2>3, <2>5, <2>6, <2>7
  <2> QED BY <2>4, <2>8
<1>4. Cardinality(SlotsFrom(more, Len(q) + 2)) <= ((Len(q) + 2) - (Len(q) + 2)) * TileExperts
  <2>1. SlotsFrom(more, Len(q) + 2) = {}
    BY <1>1 DEF SlotsFrom
  <2>2. Cardinality(SlotsFrom(more, Len(q) + 2)) = 0
    BY <2>1, FS_EmptySet
  <2>3. (Len(q) + 2) - (Len(q) + 2) = 0 /\ 0 * TileExperts = 0
    BY <1>1
  <2> QED BY <2>2, <2>3
<1>5. WithinTiles(more)
  <2> SUFFICES ASSUME NEW k \in 1..(Len(q) + 2)
               PROVE  Cardinality(SlotsFrom(more, k)) <= ((Len(q) + 2) - k) * TileExperts
    BY <1>1 DEF WithinTiles
  <2>1. k \in 1..(Len(q) + 1) \/ k = Len(q) + 2
    BY <1>1
  <2> QED BY <1>3, <1>4, <2>1
<1> QED BY <1>5 DEF more

\* Nothing is pending, nothing is held.
LEMMA EmptyWithin == WithinTiles(<<>>)
<1>1. Len(<<>>) = 0 /\ SlotsFrom(<<>>, 1) = {}
  BY DEF SlotsFrom
<1>2. Cardinality(SlotsFrom(<<>>, 1)) = 0
  BY <1>1, FS_EmptySet
<1>3. 0 * TileExperts = 0 /\ ((0 + 1) - 1) = 0
  BY TileAssumption
<1> SUFFICES ASSUME NEW k \in 1..1
             PROVE  Cardinality(SlotsFrom(<<>>, k)) <= ((0 + 1) - k) * TileExperts
  BY <1>1 DEF WithinTiles
<1> QED BY <1>2, <1>3

\* The hits of a plan are as many slots as experts.
LEMMA HitsOneToOne ==
  ASSUME TypeOK, OneSlotPerExpert, NEW E \in SUBSET Experts
  PROVE  /\ SlotsOf(Hits(E)) \in SUBSET Slots /\ ExpertsOf(Hits(E)) \in SUBSET E
         /\ Cardinality(SlotsOf(Hits(E))) = Cardinality(ExpertsOf(Hits(E)))
<1>1. \A b \in Hits(E) : /\ b.slot \in Slots /\ b.expert \in E
                         /\ slotExpert[layer][b.slot] = b.expert
  BY DEF Hits, Binding
<1>2. SlotsOf(Hits(E)) \in SUBSET Slots /\ ExpertsOf(Hits(E)) \in SUBSET E
  BY <1>1 DEF SlotsOf, ExpertsOf
<1> DEFINE f == [s \in SlotsOf(Hits(E)) |-> slotExpert[layer][s]]
<1>3. \A s \in SlotsOf(Hits(E)) : f[s] \in ExpertsOf(Hits(E)) /\ f[s] # NoExpert
  BY <1>1, <1>2, NoExpertAssumption DEF SlotsOf, ExpertsOf
<1>4. f \in [SlotsOf(Hits(E)) -> ExpertsOf(Hits(E))]
  BY <1>3
<1>5. \A s, t \in SlotsOf(Hits(E)) : f[s] = f[t] => s = t
  BY <1>2, <1>3 DEF OneSlotPerExpert, TypeOK
<1>6. \A e \in ExpertsOf(Hits(E)) : \E s \in SlotsOf(Hits(E)) : f[s] = e
  BY <1>1 DEF SlotsOf, ExpertsOf
<1> HIDE DEF f
<1>7. f \in Bijection(SlotsOf(Hits(E)), ExpertsOf(Hits(E)))
  BY <1>4, <1>5, <1>6 DEF Bijection, Injection, Surjection, IsInjective
<1>8. IsFiniteSet(SlotsOf(Hits(E)))
  BY <1>2, SlotsAssumption, FS_Subset
<1> QED BY <1>2, <1>7, <1>8, FS_Bijection DEF ExistsBijection

\* A plan can be placed when its experts and the avoided slots fit the layer.
LEMMA PlaceableFacts ==
  ASSUME TypeOK, OneSlotPerExpert, NEW E \in SUBSET Experts,
         NEW avoid \in SUBSET Slots,
         Cardinality(E) + Cardinality(avoid) <= SlotCount
  PROVE  Placeable(E, avoid)
<1> DEFINE hitSlots == SlotsOf(Hits(E))
           hitExperts == ExpertsOf(Hits(E))
           taken == avoid \cup hitSlots
<1>1. /\ hitSlots \in SUBSET Slots /\ hitExperts \in SUBSET E
      /\ Cardinality(hitSlots) = Cardinality(hitExperts)
  BY HitsOneToOne
<1>2. Misses(E) = E \ hitExperts /\ Evictable(E, avoid) = Slots \ taken
  BY DEF Misses, Evictable
<1> HIDE DEF hitSlots, hitExperts
<1>3. /\ IsFiniteSet(E) /\ IsFiniteSet(avoid) /\ IsFiniteSet(hitSlots)
      /\ IsFiniteSet(hitExperts) /\ IsFiniteSet(Slots)
  BY <1>1, SlotsAssumption, FS_Subset
<1>4. Cardinality(Misses(E)) = Cardinality(E) - Cardinality(hitExperts)
  <2>1. E \cap hitExperts = hitExperts
    BY <1>1
  <2>2. Cardinality(E \ hitExperts) = Cardinality(E) - Cardinality(E \cap hitExperts)
    BY <1>3, FS_Difference
  <2> QED BY <1>2, <2>1, <2>2
<1>5. Cardinality(taken) <= Cardinality(avoid) + Cardinality(hitSlots)
  <2>1. IsFiniteSet(avoid \cap hitSlots)
    BY <1>3, FS_Intersection
  <2>2. /\ Cardinality(avoid \cap hitSlots) \in Nat
        /\ Cardinality(avoid) \in Nat /\ Cardinality(hitSlots) \in Nat
    BY <1>3, <2>1, FS_CardinalityType
  <2>3. Cardinality(taken) = Cardinality(avoid) + Cardinality(hitSlots)
                               - Cardinality(avoid \cap hitSlots)
    BY <1>3, FS_Union
  <2> QED BY <2>2, <2>3
<1>6. Cardinality(Evictable(E, avoid)) = SlotCount - Cardinality(taken)
  <2>1. Slots \cap taken = taken
    BY <1>1
  <2>2. Cardinality(Slots \ taken) = Cardinality(Slots) - Cardinality(Slots \cap taken)
    BY <1>3, FS_Difference
  <2> QED BY <1>2, <2>1, <2>2 DEF SlotCount
<1>7. /\ Cardinality(E) \in Nat /\ Cardinality(avoid) \in Nat
      /\ Cardinality(hitSlots) \in Nat /\ SlotCount \in Nat
      /\ Cardinality(taken) \in Nat
  <2>1. IsFiniteSet(taken)
    BY <1>3, FS_Union
  <2> QED BY <1>3, <2>1, FS_CardinalityType DEF SlotCount
<1> QED BY <1>1, <1>4, <1>5, <1>6, <1>7 DEF Placeable

\* A plan binds one slot for each of its experts.
LEMMA PlanSize ==
  ASSUME TypeOK, OneSlotPerExpert, NEW E \in SUBSET Experts, NEW avoid,
         MakePlan(E, avoid)
  PROVE  /\ Cardinality(SlotsOf(assigned')) <= Cardinality(E)
         /\ E # {} => SlotsOf(assigned') # {}
<1>1. PICK victim \in Injection(Misses(E), Evictable(E, avoid)) :
        /\ missing' = {[slot |-> victim[e], expert |-> e] : e \in Misses(E)}
        /\ assigned' = Hits(E) \cup missing'
  BY DEF MakePlan
<1>2. \A e \in ExpertsOf(Hits(E)) : e \in E /\ \E b \in Hits(E) : b.expert = e
  BY DEF ExpertsOf, Hits
<1> DEFINE slotOf(e) == CHOOSE s \in SlotsOf(assigned') :
                          \E b \in assigned' : b.expert = e /\ b.slot = s
           f == [e \in E |-> slotOf(e)]
<1>m. /\ \A e \in Misses(E) : \E b \in missing' : b.expert = e
      /\ \A b \in missing' : b.expert \in Misses(E)
  <2>1. ASSUME NEW e \in Misses(E) PROVE \E b \in missing' : b.expert = e
    <3>1. [slot |-> victim[e], expert |-> e] \in missing'
      BY <1>1
    <3> QED BY <3>1
  <2>2. ASSUME NEW b \in missing' PROVE b.expert \in Misses(E)
    <3>1. PICK e \in Misses(E) : b = [slot |-> victim[e], expert |-> e]
      BY <1>1
    <3> QED BY <3>1
  <2> QED BY <2>1, <2>2
<1>3. \A e \in E : \E b \in assigned' : b.expert = e
  <2> SUFFICES ASSUME NEW e \in E PROVE \E b \in assigned' : b.expert = e
    OBVIOUS
  <2>1. e \in ExpertsOf(Hits(E)) \/ e \in Misses(E)
    BY DEF Misses
  <2> QED BY <1>1, <1>2, <1>m, <2>1
<1>4. \A b \in assigned' : b.expert \in E
  <2>1. \A b \in Hits(E) : b.expert \in E
    BY DEF Hits
  <2>2. Misses(E) \subseteq E
    BY DEF Misses
  <2> QED BY <1>1, <1>m, <2>1, <2>2
<1>5. ASSUME NEW a \in assigned', NEW b \in assigned', a.expert = b.expert
      PROVE  a.slot = b.slot
  <2>1. CASE a \in Hits(E) /\ b \in Hits(E)
    <3>1. /\ a.slot \in Slots /\ b.slot \in Slots /\ a.expert # NoExpert
          /\ slotExpert[layer][a.slot] = a.expert
          /\ slotExpert[layer][b.slot] = b.expert
      BY <2>1, NoExpertAssumption DEF Hits, Binding
    <3> QED BY <1>5, <3>1 DEF OneSlotPerExpert, TypeOK
  <2>2. CASE a \in missing' /\ b \in missing'
    BY <1>1, <1>5, <2>2
  <2>3. \A h \in Hits(E), c \in missing' : h.expert # c.expert
    BY <1>1 DEF Misses, ExpertsOf
  <2> QED BY <1>1, <1>5, <2>1, <2>2, <2>3
<1>6. \A e \in E : /\ slotOf(e) \in SlotsOf(assigned')
                   /\ \E b \in assigned' : b.expert = e /\ b.slot = slotOf(e)
  <2> SUFFICES ASSUME NEW e \in E
               PROVE  \E s \in SlotsOf(assigned') :
                        \E b \in assigned' : b.expert = e /\ b.slot = s
    OBVIOUS
  <2> QED BY <1>3 DEF SlotsOf
<1>7. f \in [E -> SlotsOf(assigned')]
  BY <1>6
<1>8. \A s \in SlotsOf(assigned') : \E e \in E : f[e] = s
  <2> SUFFICES ASSUME NEW b \in assigned' PROVE f[b.expert] = b.slot /\ b.expert \in E
    BY DEF SlotsOf
  <2>1. b.expert \in E
    BY <1>4
  <2>2. PICK c \in assigned' : c.expert = b.expert /\ c.slot = slotOf(b.expert)
    BY <1>6, <2>1
  <2>3. c.slot = b.slot
    BY <1>5, <2>2
  <2> QED BY <2>1, <2>2, <2>3
<1> HIDE DEF f, slotOf
<1>9. f \in Surjection(E, SlotsOf(assigned'))
  BY <1>7, <1>8 DEF Surjection
<1>10. IsFiniteSet(E)
  BY SlotsAssumption, FS_Subset
<1> QED BY <1>3, <1>9, <1>10, FS_Surjection DEF SlotsOf

\* A tile of its size finds room beside the pending ones.
LEMMA RoomForTile ==
  ASSUME PipelineInv, PendingFits, InTiles, Len(pending) <= MaxPendingDepth,
         NEW E \in SUBSET Experts, Cardinality(E) <= TileExperts
  PROVE  Placeable(E, PendingSlots)
<1>1. TypeOK /\ OneSlotPerExpert
  BY DEF PipelineInv
<1>2. /\ FitsSlotBudget /\ WithinTiles(pending)
      /\ pending \in Seq(PendingTile) /\ Len(pending) \in Nat
      /\ TileExperts \in Nat /\ MaxPendingDepth \in Nat
  BY <1>1, TileAssumption DEF PendingFits, TypeOK
<1>3. PendingSlots = SlotsFrom(pending, 1)
  BY <1>2, AllSlots DEF PendingSlots
<1>4. Cardinality(PendingSlots) <= Len(pending) * TileExperts
  <2>1. 1 \in 1..(Len(pending) + 1) /\ (Len(pending) + 1) - 1 = Len(pending)
    BY <1>2
  <2>2. Cardinality(SlotsFrom(pending, 1)) <= ((Len(pending) + 1) - 1) * TileExperts
    BY <1>2, <2>1 DEF WithinTiles
  <2> QED BY <1>3, <2>1, <2>2
<1>5. /\ PendingSlots \in SUBSET Slots
      /\ Cardinality(PendingSlots) \in Nat
  BY <1>2, <1>3, SuffixTypes
<1>6. Cardinality(E) \in Nat /\ SlotCount \in Nat
  BY SlotsAssumption, FS_Subset, FS_CardinalityType DEF SlotCount
<1>7. /\ Len(pending) * TileExperts <= MaxPendingDepth * TileExperts
      /\ (MaxPendingDepth + 1) * TileExperts = MaxPendingDepth * TileExperts + TileExperts
      /\ Len(pending) * TileExperts \in Nat /\ MaxPendingDepth * TileExperts \in Nat
  BY <1>2, Products
<1>8. MaxPendingDepth * TileExperts + TileExperts <= SlotCount
  BY <1>2, <1>7 DEF FitsSlotBudget
<1>9. Cardinality(E) + Cardinality(PendingSlots) <= SlotCount
  BY <1>2, <1>4, <1>5, <1>6, <1>7, <1>8
<1> QED BY <1>1, <1>5, <1>9, PlaceableFacts

\* A drain of the oldest tile keeps the pending tiles within their bounds.
LEMMA DrainFits ==
  ASSUME TypeOK, PendingFits, InTiles, DrainOldest, UNCHANGED <<pc, mode>>
  PROVE  PendingFits'
<1>1. /\ pending \in Seq(PendingTile) /\ pending # <<>>
      /\ pending' = Tail(pending) /\ MaxPendingDepth \in Nat
  BY TileAssumption DEF TypeOK, DrainOldest, OldestDone
<1>2. /\ Len(pending) \in Nat \ {0} /\ Len(pending') = Len(pending) - 1
      /\ \A i \in 1..Len(pending') : pending'[i] = pending[i + 1] /\ i + 1 \in 1..Len(pending)
  BY <1>1
<1>3. WithinTiles(pending')
  BY <1>1, TailWithin DEF PendingFits
<1>4. /\ FitsSlotBudget
      /\ Len(pending) <= MaxPendingDepth + (IF pc = "afterIssue" THEN 1 ELSE 0)
      /\ \A i \in 1..Len(pending) : pending[i].slots # {}
  BY DEF PendingFits
<1>5. Len(pending') <= MaxPendingDepth + (IF pc' = "afterIssue" THEN 1 ELSE 0)
  BY <1>1, <1>2, <1>4
<1>6. \A i \in 1..Len(pending') : pending'[i].slots # {}
  BY <1>2, <1>4
<1> QED BY <1>3, <1>4, <1>5, <1>6 DEF PendingFits, FitsSlotBudget

\* Every step keeps the bounds, and no plan fails for want of room.
LEMMA BudgetInductive ==
  PipelineInv /\ BudgetInv /\ [Next]_vars => BudgetInv'
<1> SUFFICES ASSUME PipelineInv, BudgetInv, [Next]_vars PROVE BudgetInv'
  OBVIOUS
<1>a. TypeOK /\ TypeOK' /\ ModeMatchesPC /\ OneSlotPerExpert
  BY TypeInductive DEF PipelineInv
<1>b. BudgetSuffices /\ PendingFits /\ TileFits
  BY DEF BudgetInv
<1>c. /\ TileExperts \in Nat \ {0} /\ MaxPendingDepth \in Nat \ {0}
      /\ SlotCount \in Nat
  BY TileAssumption, SlotsAssumption, FS_CardinalityType DEF SlotCount
<1> USE DEF cache, tiles, plan
<1>1. ASSUME pc' \notin {"tile", "drainBeforeIssue", "plan", "fetch", "reading",
                         "issueTile", "afterIssue", "crashed"}
      PROVE  BudgetInv'
  BY <1>1 DEF BudgetInv, BudgetSuffices, PendingFits, TileFits, InTiles
<1>2. ASSUME UNCHANGED <<pc, mode, pending, tile, assigned>>
      PROVE  BudgetInv'
  BY <1>2, <1>b DEF BudgetInv, BudgetSuffices, PendingFits, TileFits, InTiles,
     FitsSlotBudget, WithinTiles, SlotsFrom
<1>3. CASE BeginToken \/ EmbedDone \/ CommitCb1 \/ ThrowFromPlan \/ CommitRouted
           \/ FinishToken \/ BeginChunk \/ CommitLayer \/ CommitTail \/ EndLayer
           \/ ThrowFromPrefill \/ ThrowReadError
  BY <1>1, <1>3
     DEF BeginToken, EmbedDone, CommitCb1, ThrowFromPlan, CommitRouted,
         FinishToken, BeginChunk, CommitLayer, CommitTail, EndLayer,
         ThrowFromPrefill, ThrowReadError, Throw
<1>4. CASE GpuComplete \/ UNCHANGED vars
  BY <1>2, <1>4 DEF GpuComplete, vars
<1>5. CASE EndRead
  BY <1>2, <1>5 DEF EndRead, FinishRead, FailRead
<1>6. CASE PlanToken
  <2>1. PICK E \in SUBSET Experts :
          Cardinality(E) = TopK /\ PlanOrCrash(E, {}, "issueHits")
    BY <1>6 DEF PlanToken
  <2>2. Cardinality(E) + Cardinality({}) <= SlotCount
    BY <1>c, <2>1, TopKAssumption, FS_EmptySet
  <2>3. Placeable(E, {})
    BY <1>a, <2>2, PlaceableFacts
  <2>4. pc' = "issueHits"
    BY <2>1, <2>3 DEF PlanOrCrash
  <2> QED BY <1>1, <2>4
<1>7. CASE CommitSharedAndHits
  <2>1. mode' = "decode" /\ pc' = "fetch"
    BY <1>7, <1>a DEF CommitSharedAndHits, ModeMatchesPC, DecodePCs, PrefillPCs
  <2> QED BY <2>1 DEF BudgetInv, BudgetSuffices, PendingFits, TileFits, InTiles
<1>8. CASE StartReads
  <2>1. /\ pc = "fetch" /\ pc' = "reading"
        /\ UNCHANGED <<mode, pending, tile, assigned>>
    BY <1>8 DEF StartReads
  <2> QED BY <1>b, <2>1 DEF BudgetInv, BudgetSuffices, PendingFits, TileFits,
             InTiles, FitsSlotBudget, WithinTiles, SlotsFrom
<1>9. CASE PublishReads
  <2>1. /\ pc = "reading" /\ pc' = IF mode = "decode" THEN "routed" ELSE "issueTile"
        /\ UNCHANGED <<mode, pending, tile, assigned>>
    BY <1>9 DEF PublishReads
  <2>2. CASE mode = "decode"
    BY <1>1, <2>1, <2>2
  <2>3. CASE mode # "decode"
    BY <1>b, <2>1, <2>3 DEF BudgetInv, BudgetSuffices, PendingFits, TileFits,
       InTiles, FitsSlotBudget, WithinTiles, SlotsFrom
  <2> QED BY <2>2, <2>3
<1>10. CASE BeginTiles
  <2>1. pc' = "tile" /\ pending' = <<>> /\ FitsSlotBudget
    BY <1>10 DEF BeginTiles
  <2>2. Len(pending') = 0 /\ WithinTiles(pending')
    BY <2>1, EmptyWithin
  <2> QED BY <1>c, <2>1, <2>2 DEF BudgetInv, BudgetSuffices, PendingFits,
             TileFits, FitsSlotBudget
<1>11. CASE NextTile
  <2>1. /\ pc = "tile" /\ mode = "prefill" /\ InTiles
        /\ Len(pending) <= MaxPendingDepth
        /\ \A i \in 1..Len(pending) : pending[i].slots # {}
    BY <1>11, <1>a, <1>b, <1>c DEF NextTile, ModeMatchesPC, PrefillPCs, DecodePCs,
       InTiles, PendingFits
  <2> DEFINE available(E) == PendingSlots # {} /\ Placeable(E, PendingSlots)
  <2>2. PICK E \in SUBSET remaining :
          /\ E # {} /\ Cardinality(E) <= TileExperts /\ tile' = E
          /\ IF available(E) THEN MakePlan(E, PendingSlots)
                             ELSE UNCHANGED <<plan, slotExpert>>
          /\ \/ Decide(available(E)) = "issueWithoutPending" /\ pc' = "plan"
             \/ Decide(available(E)) = "prefetchNext" /\ pc' = "fetch"
             \/ Decide(available(E)) = "drainBeforeIssue" /\ pc' = "drainBeforeIssue"
    BY <1>11 DEF NextTile
  <2>3. UNCHANGED <<mode, pending>>
    BY <1>11 DEF NextTile
  <2>4. E \in SUBSET Experts
    BY <1>a DEF TypeOK
  <2>5. CASE pending = <<>>
    <3>1. pc' = "plan"
      BY <2>2, <2>5 DEF Decide
    <3>2. PendingFits'
      BY <1>b, <2>1, <2>3, <3>1 DEF PendingFits, InTiles, FitsSlotBudget,
         WithinTiles, SlotsFrom
    <3> QED BY <2>2, <2>3, <2>5, <3>1, <3>2 DEF BudgetInv, BudgetSuffices, TileFits
  <2>6. CASE pending # <<>>
    <3>1. Placeable(E, PendingSlots)
      BY <1>b, <2>1, <2>2, <2>4, RoomForTile
    <3>2. PendingSlots # {}
      <4>1. 1 \in DOMAIN pending /\ 1 \in 1..Len(pending)
        BY <1>a, <2>6 DEF TypeOK
      <4>2. pending[1] \in Range(pending) /\ pending[1].slots # {}
        BY <2>1, <4>1 DEF Range
      <4> QED BY <4>2 DEF PendingSlots
    <3>3. Decide(available(E)) = "prefetchNext"
      BY <2>1, <2>6, <3>1, <3>2 DEF Decide
    <3>4. pc' = "fetch" /\ MakePlan(E, PendingSlots)
      BY <2>2, <3>1, <3>2, <3>3
    <3>5. /\ Cardinality(SlotsOf(assigned')) <= Cardinality(E)
          /\ SlotsOf(assigned') # {}
      BY <1>a, <2>2, <2>4, <3>4, PlanSize
    <3>6. /\ Cardinality(SlotsOf(assigned')) \in Nat
          /\ Cardinality(E) \in Nat
      <4>1. SlotsOf(assigned') \in SUBSET Slots
        BY <1>a DEF TypeOK, SlotsOf, Binding
      <4> QED BY <2>4, <4>1, SlotsAssumption, FS_Subset, FS_CardinalityType
    <3>7. PendingFits'
      BY <1>b, <2>1, <2>3, <3>4 DEF PendingFits, InTiles, FitsSlotBudget,
         WithinTiles, SlotsFrom
    <3> QED BY <1>c, <2>2, <3>4, <3>5, <3>6, <3>7 DEF BudgetInv, BudgetSuffices,
               TileFits
  <2> QED BY <2>5, <2>6
<1>12. CASE DrainPending
  <2>1. pc = "tile" /\ pc' = "tile" /\ DrainOldest /\ UNCHANGED mode
    BY <1>12, <1>b DEF DrainPending, BudgetSuffices
  <2>2. CASE InTiles
    BY <1>a, <1>b, <2>1, <2>2, DrainFits DEF BudgetInv, BudgetSuffices, TileFits
  <2>3. CASE ~InTiles
    BY <2>1, <2>3 DEF BudgetInv, BudgetSuffices, TileFits, PendingFits, InTiles
  <2> QED BY <2>2, <2>3
<1>13. CASE PlanTile
  <2>1. /\ pc = "plan" /\ PlanOrCrash(tile, PendingSlots, "fetch")
        /\ UNCHANGED <<mode, pending>>
    BY <1>13 DEF PlanTile
  <2>2. /\ pending = <<>> /\ tile # {} /\ Cardinality(tile) <= TileExperts
        /\ tile \in SUBSET Experts
    BY <1>a, <1>b, <2>1 DEF TileFits, TypeOK
  <2>3. InTiles /\ Len(pending) <= MaxPendingDepth
    BY <1>a, <1>c, <2>1, <2>2 DEF ModeMatchesPC, PrefillPCs, DecodePCs, InTiles
  <2>4. Placeable(tile, PendingSlots)
    BY <1>b, <2>2, <2>3, RoomForTile
  <2>5. pc' = "fetch" /\ MakePlan(tile, PendingSlots)
    BY <2>1, <2>4 DEF PlanOrCrash
  <2>6. /\ Cardinality(SlotsOf(assigned')) <= Cardinality(tile)
        /\ SlotsOf(assigned') # {}
    BY <1>a, <2>2, <2>5, PlanSize
  <2>7. /\ Cardinality(SlotsOf(assigned')) \in Nat
        /\ Cardinality(tile) \in Nat
    <3>1. SlotsOf(assigned') \in SUBSET Slots
      BY <1>a DEF TypeOK, SlotsOf, Binding
    <3> QED BY <2>2, <3>1, SlotsAssumption, FS_Subset, FS_CardinalityType
  <2>8. PendingFits'
    BY <1>b, <2>1, <2>3, <2>5 DEF PendingFits, InTiles, FitsSlotBudget,
       WithinTiles, SlotsFrom
  <2> QED BY <1>c, <2>2, <2>5, <2>6, <2>7, <2>8 DEF BudgetInv, BudgetSuffices,
             TileFits
<1>14. CASE IssueTile
  <2> DEFINE p == [tile |-> tileIndex, slots |-> SlotsOf(assigned),
                   missSlots |-> SlotsOf(missing)]
  <2>1. /\ pc = "issueTile" /\ pc' = "afterIssue" /\ UNCHANGED mode
        /\ pending' = Append(pending, p)
    BY <1>14 DEF IssueTile
  <2>2. p \in PendingTile
    BY <1>a DEF TypeOK, PendingTile, SlotsOf, Binding
  <2>3. InTiles /\ mode = "prefill"
    BY <1>a, <2>1 DEF ModeMatchesPC, PrefillPCs, DecodePCs, InTiles
  <2>4. p.slots # {} /\ Cardinality(p.slots) <= TileExperts
    BY <1>b, <2>1, <2>3 DEF TileFits
  <2>5. /\ FitsSlotBudget /\ WithinTiles(pending)
        /\ Len(pending) <= MaxPendingDepth
        /\ \A i \in 1..Len(pending) : pending[i].slots # {}
    BY <1>b, <1>c, <2>1, <2>3 DEF PendingFits
  <2> HIDE DEF p
  <2>6. pending \in Seq(PendingTile)
    BY <1>a DEF TypeOK
  <2>7. /\ Len(pending') = Len(pending) + 1 /\ Len(pending) \in Nat
        /\ \A i \in 1..Len(pending) : pending'[i] = pending[i]
        /\ pending'[Len(pending) + 1] = p
    BY <2>1, <2>6
  <2>8. WithinTiles(pending')
    BY <2>1, <2>2, <2>4, <2>5, <2>6, AppendWithin
  <2>9. \A i \in 1..Len(pending') : pending'[i].slots # {}
    <3> SUFFICES ASSUME NEW i \in 1..Len(pending') PROVE pending'[i].slots # {}
      OBVIOUS
    <3>1. i \in 1..Len(pending) \/ i = Len(pending) + 1
      BY <2>7
    <3> QED BY <2>4, <2>5, <2>7, <3>1
  <2>10. Len(pending') <= MaxPendingDepth + 1
    BY <1>c, <2>5, <2>7
  <2>11. PendingFits'
    BY <2>1, <2>5, <2>8, <2>9, <2>10 DEF PendingFits, FitsSlotBudget
  <2> QED BY <2>1, <2>11 DEF BudgetInv, BudgetSuffices, TileFits
<1>15. CASE DrainToDepth
  <2>1. pc = "afterIssue" /\ UNCHANGED <<mode, tile>> /\ InTiles
    BY <1>15, <1>a DEF DrainToDepth, ModeMatchesPC, PrefillPCs, DecodePCs, InTiles
  <2>2. CASE DrainOldest /\ pc' = pc
    BY <1>a, <1>b, <2>1, <2>2, DrainFits DEF BudgetInv, BudgetSuffices, TileFits
  <2>3. CASE /\ Len(pending) <= MaxPendingDepth
             /\ pc' = "tile" /\ UNCHANGED <<pending, lifetime>>
    <3>1. PendingFits'
      BY <1>b, <1>c, <2>1, <2>3 DEF PendingFits, FitsSlotBudget, WithinTiles, SlotsFrom
    <3> QED BY <2>3, <3>1 DEF BudgetInv, BudgetSuffices, TileFits
  <2> QED BY <1>15, <2>2, <2>3 DEF DrainToDepth
<1> QED BY <1>3, <1>4, <1>5, <1>6, <1>7, <1>8, <1>9, <1>10, <1>11, <1>12, <1>13,
    <1>14, <1>15
     DEF Next, Step, Decode, Prefill, Fetch

\* When (MaxPendingDepth + 1) * TileExperts fits the slots, as the runner checks
\* before the tile loop, no plan fails and no tile waits for an earlier one.
THEOREM BudgetIsEnough == Spec => []BudgetSuffices
<1>1. Init => BudgetInv
  BY DEF Init, BudgetInv, BudgetSuffices, PendingFits, TileFits, InTiles
<1>2. BudgetInv => BudgetSuffices
  BY DEF BudgetInv
<1> QED BY <1>1, <1>2, PipelineInvariant, BudgetInductive, PTL DEF Spec
=============================================================================
