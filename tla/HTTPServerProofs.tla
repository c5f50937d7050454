--------------------------- MODULE HTTPServerProofs ---------------------------
(***************************************************************************)
(* First the coordinator by itself: CoordinatorInv is inductive, and the   *)
(* coordinator implements SerialQueue, for every set of requests and every *)
(* bound on the line.  Then the front end around it: HTTPInv and           *)
(* ResponsesAreFramed are inductive together, and the front end drives the *)
(* coordinator as ServerCoordinator lets anybody drive it, so what is      *)
(* proved of the coordinator holds inside the server.                      *)
(***************************************************************************)
EXTENDS HTTPServer, SequenceLemmas

-----------------------------------------------------------------------------
(* Ownership through the state of the calls.                               *)

\* Nobody holds the model, or one call does.
LEMMA HoldersFacts ==
  ASSUME CoordinatorTypeOK, OneOwner
  PROVE  /\ ~active => Holders = {}
         /\ \A r \in Requests : call[r] \in Holding => active /\ Holders = {r}
  BY DEF OneOwner, Holders, CoordinatorTypeOK

\* The call at the head of the line is suspended and owns nothing.
LEMMA HeadWaits ==
  ASSUME CoordinatorTypeOK, WaitersAreSuspended, waiters # <<>>
  PROVE  /\ Head(waiters) \in Requests /\ call[Head(waiters)] = "waiting"
         /\ Tail(waiters) \in Seq(Requests) /\ Len(Tail(waiters)) = Len(waiters) - 1
         /\ IsInjective(Tail(waiters))
         /\ Range(Tail(waiters)) = Range(waiters) \ {Head(waiters)}
<1>1. waiters \in Seq(Requests) /\ IsInjective(waiters)
  BY DEF CoordinatorTypeOK, WaitersAreSuspended
<1>2. /\ Tail(waiters) \in Seq(Requests) /\ Head(waiters) \in Requests
      /\ Range(waiters) = {Head(waiters)} \cup Range(Tail(waiters))
  BY <1>1, TailRange
<1>3. Len(Tail(waiters)) = Len(waiters) - 1
  BY <1>1
<1>4. IsInjective(Tail(waiters)) /\ Range(Tail(waiters)) = Range(waiters) \ {Head(waiters)}
  BY <1>1, TailInjective
<1>5. call[Head(waiters)] = "waiting"
  BY <1>2 DEF WaitersAreSuspended
<1> QED BY <1>2, <1>3, <1>4, <1>5

-----------------------------------------------------------------------------
(* The hand-over.                                                          *)

\* What release leaves behind when the owner r gives the model back.
LEMMA ReleaseFacts ==
  ASSUME CoordinatorInv, NEW r \in Requests, call[r] \in Holding, Release(r)
  PROVE  /\ active' \in BOOLEAN /\ waiters' \in Seq(Requests)
         /\ call' \in [Requests -> Calls]
         /\ OneOwner' /\ WaitersAreSuspended'
         /\ Len(waiters') <= Len(waiters)
         /\ waiters = <<>> => waiters' = <<>>
         /\ \/ waiters = <<>> /\ Holders' = {} /\ waiters' = <<>>
            \/ /\ waiters # <<>> /\ Holders' = {Head(waiters)}
               /\ waiters' = Tail(waiters)
<1> USE DEF CoordinatorInv
<1>1. active /\ Holders = {r}
  BY HoldersFacts
<1>2. \A q \in Requests : q # r => call[q] \notin Holding
  BY <1>1 DEF Holders
<1>3. call[r] # "waiting"
  BY DEF Holding
<1>4. waiters \in Seq(Requests) /\ call \in [Requests -> Calls] /\ active \in BOOLEAN
  BY DEF CoordinatorTypeOK
<1>5. CASE waiters = <<>>
  <2>1. active' = FALSE /\ waiters' = <<>> /\ call' = [call EXCEPT ![r] = "returned"]
    BY <1>5 DEF Release
  <2>2. \A q \in Requests : call'[q] = IF q = r THEN "returned" ELSE call[q]
    BY <1>4, <2>1
  <2>3. Holders' = {}
    BY <1>2, <2>2 DEF Holders, Holding
  <2>4. {q \in Requests : call'[q] = "waiting"} = {q \in Requests : call[q] = "waiting"}
    BY <1>3, <2>2
  <2>5. WaitersAreSuspended'
    BY <1>5, <2>1, <2>4 DEF WaitersAreSuspended
  <2>6. call' \in [Requests -> Calls]
    BY <1>4, <2>1 DEF Calls
  <2>7. OneOwner'
    BY <2>1, <2>3 DEF OneOwner
  <2>8. active' \in BOOLEAN /\ waiters' \in Seq(Requests)
    BY <1>4, <1>5, <2>1
  <2>9. Len(waiters') <= Len(waiters)
    <3>1. waiters' = waiters /\ Len(waiters) \in Nat
      BY <1>4, <1>5, <2>1
    <3> QED BY <3>1
  <2> QED BY <1>5, <2>1, <2>3, <2>5, <2>6, <2>7, <2>8, <2>9
<1>6. CASE waiters # <<>>
  <2> DEFINE h == Head(waiters)
  <2>1. /\ waiters' = Tail(waiters) /\ active' = active
        /\ call' = [call EXCEPT ![r] = "returned", ![h] = "resumed"]
    BY <1>6 DEF Release
  <2>2. /\ h \in Requests /\ call[h] = "waiting" /\ h # r
        /\ Tail(waiters) \in Seq(Requests) /\ Len(Tail(waiters)) = Len(waiters) - 1
        /\ IsInjective(Tail(waiters)) /\ Range(Tail(waiters)) = Range(waiters) \ {h}
    BY <1>3, <1>6, HeadWaits
  <2>3. \A q \in Requests : call'[q] = IF q = h THEN "resumed"
                                       ELSE IF q = r THEN "returned" ELSE call[q]
    BY <1>4, <2>1
  <2>4. Holders' = {h}
    BY <1>2, <2>2, <2>3 DEF Holders, Holding
  <2>5. Range(waiters) = {q \in Requests : call[q] = "waiting"}
    BY DEF WaitersAreSuspended
  <2>6. Range(waiters') = {q \in Requests : call'[q] = "waiting"}
    <3>1. \A q \in Requests : call'[q] = "waiting" <=> call[q] = "waiting" /\ q # h
      BY <1>3, <2>2, <2>3
    <3>2. {q \in Requests : call'[q] = "waiting"}
            = {q \in Requests : call[q] = "waiting"} \ {h}
      BY <3>1
    <3> QED BY <2>1, <2>2, <2>5, <3>2
  <2>7. WaitersAreSuspended'
    BY <1>1, <2>1, <2>2, <2>6 DEF WaitersAreSuspended
  <2>8. OneOwner'
    BY <1>1, <2>1, <2>4 DEF OneOwner
  <2>9. call' \in [Requests -> Calls]
    BY <1>4, <2>1 DEF Calls
  <2>10. Len(waiters') <= Len(waiters)
    BY <1>4, <2>1, <2>2
  <2> QED BY <1>4, <1>6, <2>1, <2>2, <2>4, <2>7, <2>8, <2>9, <2>10
<1> QED BY <1>5, <1>6

\* A step that lets a call change state without touching the line or the owner.
LEMMA QuietStep ==
  ASSUME CoordinatorInv, UNCHANGED <<active, waiters, shuttingDown>>,
         CoordinatorTypeOK',
         \A r \in Requests : call'[r] = "waiting" <=> call[r] = "waiting",
         Holders' = Holders
  PROVE  CoordinatorInv'
<1>1. OneOwner'
  BY DEF CoordinatorInv, OneOwner
<1>2. {r \in Requests : call'[r] = "waiting"} = {r \in Requests : call[r] = "waiting"}
  OBVIOUS
<1>3. WaitersAreSuspended'
  BY <1>2 DEF CoordinatorInv, WaitersAreSuspended
<1> QED BY <1>1, <1>3 DEF CoordinatorInv

-----------------------------------------------------------------------------
(* Each step preserves the invariant.                                      *)

\* Initially the model is free and nobody waits.
LEMMA InitInv == CoordinatorInit => CoordinatorInv
<1> SUFFICES ASSUME CoordinatorInit PROVE CoordinatorInv
  OBVIOUS
<1>1. CoordinatorTypeOK
  <2>1. waiters \in Seq(Requests) /\ active \in BOOLEAN /\ shuttingDown \in BOOLEAN
    <3>1. waiters = <<>> /\ active = FALSE /\ shuttingDown = FALSE
      BY DEF CoordinatorInit
    <3>2. waiters \in Seq(Requests)
      BY <3>1
    <3> QED BY <3>1, <3>2
  <2>2. call \in [Requests -> Calls] /\ outcome \in [Requests -> Outcomes]
    BY DEF CoordinatorInit, Calls, Outcomes
  <2>3. cancelled \subseteq Requests /\ cancelJobs \subseteq Requests
    BY DEF CoordinatorInit
  <2> QED BY <2>1, <2>2, <2>3 DEF CoordinatorTypeOK
<1>2. Holders = {}
  BY DEF CoordinatorInit, Holders, Holding
<1>3. OneOwner
  BY <1>2 DEF CoordinatorInit, OneOwner
<1>4. {r \in Requests : call[r] = "waiting"} = {}
  BY DEF CoordinatorInit
<1>5. Range(waiters) = {} /\ IsInjective(waiters)
  BY EmptyRange DEF CoordinatorInit, IsInjective
<1>6. WaitersAreSuspended
  BY <1>4, <1>5 DEF CoordinatorInit, WaitersAreSuspended
<1>7. Len(waiters) <= QueueLimit
  <2>1. Len(waiters) = 0
    BY DEF CoordinatorInit
  <2> QED BY <2>1, QueueLimitAssumption
<1>8. shuttingDown => waiters = <<>>
  BY DEF CoordinatorInit
<1> QED BY <1>1, <1>3, <1>6, <1>7, <1>8 DEF CoordinatorInv

\* A call is started; a call is refused; an operation ends; a task is cancelled.
LEMMA QuietActions ==
  ASSUME CoordinatorInv, NEW r \in Requests,
         \/ StartCall(r, FALSE) \/ StartCall(r, TRUE)
         \/ FinishOperation(r)
         \/ \E R \in SUBSET Called : Cancel(R)
         \/ /\ call[r] = "acquiring" /\ UNCHANGED <<shuttingDown, cancelled>>
            /\ Refuse(r, "cancelled") \/ Refuse(r, "queueFull")
  PROVE  CoordinatorInv' /\ Holders' = Holders /\ waiters' = waiters
<1>1. CoordinatorTypeOK
  BY DEF CoordinatorInv
<1>2. ASSUME NEW from \in Calls, NEW to \in Calls, call[r] = from,
             call' = [call EXCEPT ![r] = to],
             from # "waiting", to # "waiting", from \in Holding <=> to \in Holding
      PROVE  /\ \A q \in Requests : call'[q] = "waiting" <=> call[q] = "waiting"
             /\ Holders' = Holders
  <2>1. \A q \in Requests : call'[q] = IF q = r THEN to ELSE call[q]
    BY <1>1, <1>2 DEF CoordinatorTypeOK
  <2> QED BY <1>2, <2>1 DEF Holders
<1>3. CASE StartCall(r, FALSE) \/ StartCall(r, TRUE)
  <2>1. CoordinatorTypeOK'
    BY <1>1, <1>3 DEF StartCall, CoordinatorTypeOK, Calls
  <2>2. /\ \A q \in Requests : call'[q] = "waiting" <=> call[q] = "waiting"
        /\ Holders' = Holders
    BY <1>2, <1>3 DEF StartCall, Calls, Holding
  <2> QED BY <1>3, <2>1, <2>2, QuietStep DEF StartCall
<1>4. CASE FinishOperation(r)
  <2>1. CoordinatorTypeOK'
    BY <1>1, <1>4 DEF FinishOperation, CoordinatorTypeOK, Calls, Outcomes
  <2>2. /\ \A q \in Requests : call'[q] = "waiting" <=> call[q] = "waiting"
        /\ Holders' = Holders
    BY <1>2, <1>4 DEF FinishOperation, Calls, Holding
  <2> QED BY <1>4, <2>1, <2>2, QuietStep DEF FinishOperation
<1>5. CASE \E R \in SUBSET Called : Cancel(R)
  <2>1. UNCHANGED <<active, waiters, shuttingDown, call, outcome>>
    BY <1>5 DEF Cancel
  <2>2. cancelled' \subseteq Requests /\ cancelJobs' \subseteq Requests
    BY <1>1, <1>5 DEF Cancel, Called, CoordinatorTypeOK
  <2>3. CoordinatorTypeOK'
    BY <1>1, <2>1, <2>2 DEF CoordinatorTypeOK
  <2>4. Holders' = Holders
    BY <2>1 DEF Holders
  <2> QED BY <2>1, <2>3, <2>4, QuietStep
<1>6. CASE /\ call[r] = "acquiring" /\ UNCHANGED <<shuttingDown, cancelled>>
           /\ Refuse(r, "cancelled") \/ Refuse(r, "queueFull")
  <2>1. CoordinatorTypeOK'
    BY <1>1, <1>6 DEF Refuse, CoordinatorTypeOK, Calls, Outcomes
  <2>2. /\ \A q \in Requests : call'[q] = "waiting" <=> call[q] = "waiting"
        /\ Holders' = Holders
    BY <1>2, <1>6 DEF Refuse, Calls, Holding
  <2> QED BY <1>6, <2>1, <2>2, QuietStep DEF Refuse
<1> QED BY <1>3, <1>4, <1>5, <1>6

\* A call that finds the model free takes it.
TakesModel(r) ==
  /\ ~active /\ active' = TRUE
  /\ call' = [call EXCEPT ![r] = "operating"]
  /\ UNCHANGED <<waiters, shuttingDown, outcome, cancelled, cancelJobs>>

LEMMA TakeInv ==
  ASSUME CoordinatorInv, NEW r \in Requests, call[r] = "acquiring", TakesModel(r)
  PROVE  /\ CoordinatorInv'
         /\ Holders = {} /\ Holders' = {r} /\ waiters = <<>> /\ waiters' = <<>>
<1>1. CoordinatorTypeOK /\ OneOwner /\ WaitersAreSuspended
  BY DEF CoordinatorInv
<1>2. \A q \in Requests : call'[q] = IF q = r THEN "operating" ELSE call[q]
  BY <1>1 DEF TakesModel, CoordinatorTypeOK
<1>3. Holders = {}
  BY <1>1 DEF TakesModel, OneOwner
<1>4. Holders' = {r}
  BY <1>2, <1>3 DEF Holders, Holding
<1>5. waiters = <<>> /\ waiters' = <<>>
  BY <1>1 DEF TakesModel, WaitersAreSuspended
<1>6. CoordinatorTypeOK'
  BY <1>1 DEF TakesModel, CoordinatorTypeOK, Calls
<1>7. OneOwner'
  BY <1>4 DEF TakesModel, OneOwner
<1>8. {q \in Requests : call'[q] = "waiting"} = {q \in Requests : call[q] = "waiting"}
  BY <1>2
<1>9. WaitersAreSuspended'
  BY <1>1, <1>8 DEF TakesModel, WaitersAreSuspended
<1>10. Len(waiters') <= QueueLimit
  BY DEF TakesModel, CoordinatorInv
<1> QED BY <1>3, <1>4, <1>5, <1>6, <1>7, <1>9, <1>10 DEF CoordinatorInv

\* A call that finds the model taken, and room in the line, is suspended.
JoinsLine(r) ==
  /\ CanQueue(r)
  /\ waiters' = Append(waiters, r)
  /\ call' = [call EXCEPT ![r] = "waiting"]
  /\ UNCHANGED <<active, shuttingDown, outcome, cancelled, cancelJobs>>

LEMMA JoinInv ==
  ASSUME CoordinatorInv, NEW r \in Requests, call[r] = "acquiring", JoinsLine(r)
  PROVE  CoordinatorInv' /\ Holders' = Holders /\ Holders # {}
<1>1. CoordinatorTypeOK /\ OneOwner /\ WaitersAreSuspended /\ waiters \in Seq(Requests)
  BY DEF CoordinatorInv, CoordinatorTypeOK
<1>2. \A q \in Requests : call'[q] = IF q = r THEN "waiting" ELSE call[q]
  BY <1>1 DEF JoinsLine, CoordinatorTypeOK
<1>3. Holders' = Holders
  BY <1>2 DEF Holders, Holding
<1>4. active /\ Holders # {}
  BY <1>1 DEF JoinsLine, CanQueue, OneOwner
<1>5. r \notin Range(waiters)
  BY <1>1 DEF WaitersAreSuspended
<1>6. /\ waiters' \in Seq(Requests) /\ Range(waiters') = Range(waiters) \cup {r}
      /\ IsInjective(waiters')
  BY <1>1, <1>5, AppendRange, AppendNew DEF JoinsLine, WaitersAreSuspended
<1>7. CoordinatorTypeOK'
  <2>1. call' \in [Requests -> Calls]
    BY <1>1 DEF JoinsLine, CoordinatorTypeOK, Calls
  <2> QED BY <1>1, <1>6, <2>1 DEF JoinsLine, CoordinatorTypeOK
<1>8. OneOwner'
  BY <1>1, <1>3 DEF JoinsLine, OneOwner
<1>9. {q \in Requests : call'[q] = "waiting"}
        = {q \in Requests : call[q] = "waiting"} \cup {r}
  BY <1>2
<1>10. WaitersAreSuspended'
  BY <1>1, <1>4, <1>6, <1>9 DEF JoinsLine, WaitersAreSuspended
<1>11. Len(waiters') <= QueueLimit
  <2>1. Len(waiters') = Len(waiters) + 1 /\ Len(waiters) \in Nat
    BY <1>1 DEF JoinsLine
  <2>2. Len(waiters) < QueueLimit
    BY DEF JoinsLine, CanQueue
  <2> QED BY <2>1, <2>2, QueueLimitAssumption
<1>12. ~shuttingDown'
  BY DEF JoinsLine, CanQueue
<1> QED BY <1>3, <1>4, <1>7, <1>8, <1>10, <1>11, <1>12 DEF CoordinatorInv

\* A call that is granted the model and finds itself not cancelled goes on.
LEMMA ResumeInv ==
  ASSUME CoordinatorInv, NEW r \in Requests, call[r] = "resumed",
         call' = [call EXCEPT ![r] = "operating"],
         UNCHANGED <<active, waiters, shuttingDown, outcome, cancelled, cancelJobs>>
  PROVE  CoordinatorInv' /\ Holders' = Holders
<1>1. CoordinatorTypeOK
  BY DEF CoordinatorInv
<1>2. \A q \in Requests : call'[q] = IF q = r THEN "operating" ELSE call[q]
  BY <1>1 DEF CoordinatorTypeOK
<1>3. Holders' = Holders
  BY <1>2 DEF Holders, Holding
<1>4. CoordinatorTypeOK'
  BY <1>1 DEF CoordinatorTypeOK, Calls
<1> QED BY <1>2, <1>3, <1>4, QuietStep

\* The model is given back, by the operation's end or by a cancelled grant.
LEMMA ReleaseInv ==
  ASSUME CoordinatorInv, NEW r \in Requests, call[r] \in Holding, Release(r),
         UNCHANGED <<shuttingDown, cancelled, cancelJobs>>,
         outcome' \in [Requests -> Outcomes]
  PROVE  CoordinatorInv'
<1>1. /\ active' \in BOOLEAN /\ waiters' \in Seq(Requests)
      /\ call' \in [Requests -> Calls]
      /\ OneOwner' /\ WaitersAreSuspended' /\ Len(waiters') <= Len(waiters)
      /\ waiters = <<>> => waiters' = <<>>
  BY ReleaseFacts
<1>2. CoordinatorTypeOK'
  BY <1>1 DEF CoordinatorInv, CoordinatorTypeOK
<1>3. Len(waiters') <= QueueLimit
  <2>1. Len(waiters') \in Nat /\ Len(waiters) \in Nat /\ Len(waiters) <= QueueLimit
    BY <1>1 DEF CoordinatorInv, CoordinatorTypeOK
  <2> QED BY <1>1, <2>1, QueueLimitAssumption
<1> QED BY <1>1, <1>2, <1>3 DEF CoordinatorInv

\* The cancelWaiter task takes a call out of the line, or does nothing.
LEMMA CancelWaiterInv ==
  ASSUME CoordinatorInv, NEW r \in Requests, CancelWaiter(r)
  PROVE  /\ CoordinatorInv' /\ Holders' = Holders
         /\ \/ waiters' = waiters
            \/ \E i \in DOMAIN waiters : waiters' = RemoveAt(waiters, i)
<1>1. /\ CoordinatorTypeOK /\ OneOwner /\ WaitersAreSuspended
      /\ waiters \in Seq(Requests) /\ IsInjective(waiters)
  BY DEF CoordinatorInv, CoordinatorTypeOK, WaitersAreSuspended
<1>2. CASE UNCHANGED <<waiters, call, outcome>>
  <2>1. CoordinatorTypeOK'
    <3>1. cancelJobs' \subseteq Requests /\ UNCHANGED <<active, shuttingDown, cancelled>>
      BY <1>1 DEF CancelWaiter, CoordinatorTypeOK
    <3> QED BY <1>1, <1>2, <3>1 DEF CoordinatorTypeOK
  <2>2. Holders' = Holders
    BY <1>2 DEF Holders
  <2> QED BY <1>2, <2>1, <2>2, QuietStep DEF CancelWaiter
<1>3. ASSUME NEW i \in DOMAIN waiters, waiters[i] = r,
             waiters' = RemoveAt(waiters, i),
             call' = [call EXCEPT ![r] = "returned"],
             outcome' = [outcome EXCEPT ![r] = "cancelled"]
      PROVE  CoordinatorInv' /\ Holders' = Holders
  <2>1. /\ waiters' \in Seq(Requests) /\ Len(waiters') = Len(waiters) - 1
        /\ IsInjective(waiters') /\ Range(waiters') = Range(waiters) \ {r}
    BY <1>1, <1>3, RemoveAtInjective
  <2>2. call[r] = "waiting"
    BY <1>1, <1>3 DEF WaitersAreSuspended, Range
  <2>3. \A q \in Requests : call'[q] = IF q = r THEN "returned" ELSE call[q]
    BY <1>1, <1>3 DEF CoordinatorTypeOK
  <2>4. Holders' = Holders
    BY <2>2, <2>3 DEF Holders, Holding
  <2>5. CoordinatorTypeOK'
    <3>1. call' \in [Requests -> Calls] /\ outcome' \in [Requests -> Outcomes]
      BY <1>1, <1>3 DEF CoordinatorTypeOK, Calls, Outcomes
    <3>2. cancelJobs' \subseteq Requests /\ UNCHANGED <<active, shuttingDown, cancelled>>
      BY <1>1 DEF CancelWaiter, CoordinatorTypeOK
    <3> QED BY <1>1, <2>1, <3>1, <3>2 DEF CoordinatorTypeOK
  <2>6. OneOwner'
    BY <1>1, <2>4 DEF CancelWaiter, OneOwner
  <2>7. {q \in Requests : call'[q] = "waiting"}
          = {q \in Requests : call[q] = "waiting"} \ {r}
    BY <2>2, <2>3
  <2>8. waiters # <<>> /\ active
    <3>1. waiters # <<>>
      BY <1>3
    <3> QED BY <1>1, <3>1 DEF WaitersAreSuspended
  <2>9. WaitersAreSuspended'
    BY <1>1, <2>1, <2>7, <2>8 DEF CancelWaiter, WaitersAreSuspended
  <2>10. Len(waiters') <= QueueLimit
    <3>1. Len(waiters) \in Nat /\ Len(waiters) <= QueueLimit
      BY <1>1 DEF CoordinatorInv
    <3> QED BY <2>1, <3>1, QueueLimitAssumption
  <2>11. ~shuttingDown'
    BY <2>8 DEF CancelWaiter, CoordinatorInv
  <2> QED BY <2>4, <2>5, <2>6, <2>9, <2>10, <2>11 DEF CoordinatorInv
<1> QED BY <1>2, <1>3 DEF CancelWaiter

\* Shutdown resumes every waiter and leaves the owner alone.
LEMMA ShutdownInv ==
  ASSUME CoordinatorInv, ShutdownCoordinator
  PROVE  CoordinatorInv' /\ Holders' = Holders /\ waiters' = <<>>
<1>1. CoordinatorTypeOK /\ OneOwner /\ WaitersAreSuspended
  BY DEF CoordinatorInv
<1>2. /\ waiters' = <<>> /\ shuttingDown' = TRUE
      /\ UNCHANGED <<active, cancelled, cancelJobs>>
  BY DEF ShutdownCoordinator
<1>3. \A q \in Requests :
        call'[q] = IF call[q] = "waiting" THEN "returned" ELSE call[q]
  BY <1>1 DEF ShutdownCoordinator, WaitersAreSuspended
<1>4. Holders' = Holders
  BY <1>3 DEF Holders, Holding
<1>5. CoordinatorTypeOK'
  <2>1. call' \in [Requests -> Calls]
    BY <1>1 DEF ShutdownCoordinator, CoordinatorTypeOK, Calls
  <2>2. outcome' \in [Requests -> Outcomes]
    BY <1>1 DEF ShutdownCoordinator, CoordinatorTypeOK, Outcomes
  <2>3. waiters' \in Seq(Requests)
    BY <1>2
  <2> QED BY <1>1, <1>2, <2>1, <2>2, <2>3 DEF CoordinatorTypeOK
<1>6. OneOwner'
  BY <1>1, <1>2, <1>4 DEF OneOwner
<1>7. {q \in Requests : call'[q] = "waiting"} = {}
  BY <1>3
<1>8. WaitersAreSuspended'
  <2>1. Range(waiters') = {} /\ IsInjective(waiters')
    BY <1>2, EmptyRange DEF IsInjective
  <2> QED BY <1>2, <1>7, <2>1 DEF WaitersAreSuspended
<1>9. Len(waiters') <= QueueLimit
  <2>1. Len(waiters') = 0
    BY <1>2
  <2> QED BY <2>1, QueueLimitAssumption
<1> QED BY <1>2, <1>4, <1>5, <1>6, <1>8, <1>9 DEF CoordinatorInv

-----------------------------------------------------------------------------
(* The steps together.                                                     *)

\* Whatever the coordinator does keeps the invariant, and is one of the four
\* steps of the serial queue or none of its business.
LEMMA StepFacts ==
  ASSUME CoordinatorInv, [CoordinatorNext]_coordinatorVars
  PROVE  CoordinatorInv' /\ [Queue!Next]_Queue!vars
<1> USE DEF Queue!Next, Queue!vars
<1>1. CASE UNCHANGED coordinatorVars
  <2>1. CoordinatorTypeOK' /\ Holders' = Holders
    BY <1>1 DEF coordinatorVars, CoordinatorInv, CoordinatorTypeOK, Holders
  <2> QED BY <1>1, <2>1, QuietStep DEF coordinatorVars
<1>2. ASSUME NEW r \in Requests,
             \/ StartCall(r, FALSE) \/ StartCall(r, TRUE) \/ FinishOperation(r)
      PROVE  CoordinatorInv' /\ [Queue!Next]_Queue!vars
  BY <1>2, QuietActions
<1>3. ASSUME NEW R \in SUBSET Called, Cancel(R)
      PROVE  CoordinatorInv' /\ [Queue!Next]_Queue!vars
  <2>1. CASE Called = {}
    <3>1. UNCHANGED coordinatorVars
      BY <1>3, <2>1 DEF Cancel, coordinatorVars
    <3> QED BY <1>1, <3>1
  <2>2. ASSUME NEW r \in Called PROVE CoordinatorInv' /\ [Queue!Next]_Queue!vars
    <3>1. r \in Requests
      BY DEF Called
    <3> QED BY <1>3, <3>1, QuietActions
  <2> QED BY <2>1, <2>2
<1>4. ASSUME NEW r \in Requests, Acquire(r)
      PROVE  CoordinatorInv' /\ [Queue!Next]_Queue!vars
  <2>0. call[r] = "acquiring" /\ UNCHANGED <<shuttingDown, cancelled>>
    BY <1>4 DEF Acquire
  <2>1. CASE Refuse(r, "cancelled") \/ Refuse(r, "queueFull")
    BY <2>0, <2>1, QuietActions
  <2>2. CASE TakesModel(r)
    BY <2>0, <2>2, TakeInv DEF Queue!Enter
  <2>3. CASE JoinsLine(r)
    <3>1. CoordinatorInv' /\ Holders' = Holders /\ Holders # {}
      BY <2>0, <2>3, JoinInv
    <3>2. Queue!Enqueue(r)
      BY <2>3, <3>1 DEF JoinsLine, CanQueue, Queue!Enqueue
    <3> QED BY <3>1, <3>2
  <2>4. \/ Refuse(r, "cancelled") \/ Refuse(r, "queueFull")
        \/ TakesModel(r) \/ JoinsLine(r)
    BY <1>4 DEF Acquire, TakesModel, JoinsLine
  <2> QED BY <2>1, <2>2, <2>3, <2>4
<1>5. ASSUME NEW r \in Requests, CancelWaiter(r)
      PROVE  CoordinatorInv' /\ [Queue!Next]_Queue!vars
  <2>1. /\ CoordinatorInv' /\ Holders' = Holders
        /\ \/ waiters' = waiters
           \/ \E i \in DOMAIN waiters : waiters' = RemoveAt(waiters, i)
    BY <1>5, CancelWaiterInv
  <2>2. CASE waiters' = waiters
    BY <2>1, <2>2
  <2>3. CASE \E i \in DOMAIN waiters : waiters' = RemoveAt(waiters, i)
    <3>1. Queue!Abandon
      BY <2>1, <2>3 DEF Queue!Abandon, RemoveAt, Queue!RemoveAt
    <3> QED BY <2>1, <3>1
  <2> QED BY <2>1, <2>2, <2>3
<1>6. ASSUME NEW r \in Requests, call[r] \in Holding, Release(r),
             UNCHANGED <<shuttingDown, cancelled, cancelJobs>>,
             outcome' \in [Requests -> Outcomes]
      PROVE  CoordinatorInv' /\ [Queue!Next]_Queue!vars
  <2>1. CoordinatorInv'
    BY <1>6, ReleaseInv
  <2>2. Holders # {}
    BY <1>6 DEF Holders
  <2>3. \/ waiters = <<>> /\ Holders' = {} /\ waiters' = <<>>
        \/ waiters # <<>> /\ Holders' = {Head(waiters)} /\ waiters' = Tail(waiters)
    BY <1>6, ReleaseFacts
  <2>4. Queue!Leave
    BY <2>2, <2>3 DEF Queue!Leave
  <2> QED BY <2>1, <2>4
<1>7. ASSUME NEW r \in Requests, Resume(r)
      PROVE  CoordinatorInv' /\ [Queue!Next]_Queue!vars
  <2>1. CASE Release(r) /\ outcome' = [outcome EXCEPT ![r] = "cancelled"]
    <3>1. outcome' \in [Requests -> Outcomes]
      BY <2>1 DEF CoordinatorInv, CoordinatorTypeOK, Outcomes
    <3> QED BY <1>6, <1>7, <2>1, <3>1 DEF Resume, Holding
  <2>2. CASE /\ call' = [call EXCEPT ![r] = "operating"]
             /\ UNCHANGED <<active, waiters, outcome>>
    <3>1. CoordinatorInv' /\ Holders' = Holders
      BY <1>7, <2>2, ResumeInv DEF Resume
    <3> QED BY <2>2, <3>1
  <2> QED BY <1>7, <2>1, <2>2 DEF Resume
<1>8. ASSUME NEW r \in Requests, LeaveRun(r)
      PROVE  CoordinatorInv' /\ [Queue!Next]_Queue!vars
  <2>1. outcome' \in [Requests -> Outcomes]
    BY <1>8 DEF LeaveRun, CoordinatorInv, CoordinatorTypeOK
  <2> QED BY <1>6, <1>8, <2>1 DEF LeaveRun, Holding
<1>9. CASE ShutdownCoordinator
  BY <1>9, ShutdownInv DEF Queue!Abandon
<1> QED
  BY <1>1, <1>2, <1>3, <1>4, <1>5, <1>7, <1>8, <1>9
  DEF CoordinatorNext, CoordinatorStep

-----------------------------------------------------------------------------
(* Theorems.                                                               *)

\* The coordinator's invariant holds in every reachable state.
THEOREM CoordinatorInvariant == CoordinatorSpec => []CoordinatorInv
<1>1. CoordinatorInv /\ [CoordinatorNext]_coordinatorVars => CoordinatorInv'
  BY StepFacts
<1> QED BY InitInv, <1>1, PTL DEF CoordinatorSpec

\* The model has at most one owner and is marked taken exactly while it has one,
\* through cancellations, refusals, failures and shutdown.
THEOREM ModelHasOneOwner == CoordinatorSpec => []OneOwner
<1>1. CoordinatorInv => OneOwner
  BY DEF CoordinatorInv
<1> QED BY CoordinatorInvariant, <1>1, PTL

\* The stored continuations are those of the suspended calls, each once, and a
\* call is suspended only while the model is taken.
THEOREM NoContinuationIsLost == CoordinatorSpec => []WaitersAreSuspended
<1>1. CoordinatorInv => WaitersAreSuspended
  BY DEF CoordinatorInv
<1> QED BY CoordinatorInvariant, <1>1, PTL

\* The actor with its cancellation tasks implements the plain bounded queue:
\* one at a time, in order, nobody overtakes, the line never exceeds its bound.
THEOREM CoordinatorIsSerialQueue == CoordinatorSpec => ImplementsSerialQueue
<1>1. CoordinatorInit => Queue!Init
  BY DEF CoordinatorInit, Queue!Init, Holders, Holding
<1>2. CoordinatorInv /\ [CoordinatorNext]_coordinatorVars => [Queue!Next]_Queue!vars
  BY StepFacts
<1> QED
  BY CoordinatorInvariant, <1>1, <1>2, PTL
  DEF CoordinatorSpec, ImplementsSerialQueue, Queue!Spec

-----------------------------------------------------------------------------
(* What the front end needs to know of a coordinator step.                 *)

Running(state) == state \notin {"none", "returned"}

\* Nobody is called, no call that returned runs again, no task loses its
\* cancellation, and the outcome of no call but of those in done is "completed".
CallsGoOn(done) ==
  /\ CoordinatorInv' /\ [CoordinatorNext]_coordinatorVars
  /\ cancelled \subseteq cancelled'
  /\ \A q \in Requests :
       /\ call'[q] = "none" <=> call[q] = "none"
       /\ Running(call'[q]) => Running(call[q])
       /\ outcome'[q] = "completed" => outcome[q] = "completed" \/ q \in done

\* The coordinator's own steps, beginning or giving up a call, complete none.
LEMMA CoordinatorGoesOn ==
  ASSUME CoordinatorInv, NEW r \in Requests,
         Acquire(r) \/ CancelWaiter(r) \/ Resume(r) \/ LeaveRun(r)
  PROVE  CallsGoOn({})
<1>1. /\ call \in [Requests -> Calls] /\ outcome \in [Requests -> Outcomes]
      /\ waiters \in Seq(Requests)
      /\ Range(waiters) = {q \in Requests : call[q] = "waiting"}
  BY DEF CoordinatorInv, CoordinatorTypeOK, WaitersAreSuspended
<1>2. CoordinatorNext
  BY DEF CoordinatorNext, CoordinatorStep
<1>3. CoordinatorInv'
  BY <1>2, StepFacts
<1>4. cancelled' = cancelled
  BY DEF Acquire, CancelWaiter, Resume, LeaveRun
<1>5. ASSUME NEW to \in {"returned", "operating", "waiting"}, Running(call[r]),
             call' = [call EXCEPT ![r] = to]
      PROVE  \A q \in Requests : /\ call'[q] = "none" <=> call[q] = "none"
                                 /\ Running(call'[q]) => Running(call[q])
  BY <1>1, <1>5 DEF Running
<1>6. ASSUME Running(call[r]), Release(r)
      PROVE  \A q \in Requests : /\ call'[q] = "none" <=> call[q] = "none"
                                 /\ Running(call'[q]) => Running(call[q])
  <2>1. CASE waiters = <<>>
    BY <1>5, <1>6, <2>1 DEF Release
  <2>2. CASE waiters # <<>>
    <3>1. /\ Head(waiters) \in Requests /\ call[Head(waiters)] = "waiting"
          /\ call' = [call EXCEPT ![r] = "returned", ![Head(waiters)] = "resumed"]
      BY <1>6, <2>2, HeadWaits DEF Release, CoordinatorInv
    <3> QED BY <1>1, <1>6, <3>1 DEF Running
  <2> QED BY <2>1, <2>2
<1>7. \A q \in Requests : /\ call'[q] = "none" <=> call[q] = "none"
                          /\ Running(call'[q]) => Running(call[q])
  <2>1. CASE Acquire(r)
    BY <1>5, <2>1 DEF Acquire, Refuse, Running
  <2>2. CASE CancelWaiter(r)
    <3>1. CASE call' = call
      BY <3>1
    <3>2. ASSUME NEW i \in DOMAIN waiters, waiters[i] = r,
                 call' = [call EXCEPT ![r] = "returned"]
          PROVE  \A q \in Requests : /\ call'[q] = "none" <=> call[q] = "none"
                                     /\ Running(call'[q]) => Running(call[q])
      <4>1. call[r] = "waiting"
        BY <1>1, <3>2 DEF Range
      <4> QED BY <1>5, <3>2, <4>1 DEF Running
    <3> QED BY <2>2, <3>1, <3>2 DEF CancelWaiter
  <2>3. CASE Resume(r)
    BY <1>5, <1>6, <2>3 DEF Resume, Running
  <2>4. CASE LeaveRun(r)
    BY <1>6, <2>4 DEF LeaveRun, Running
  <2> QED BY <2>1, <2>2, <2>3, <2>4
<1>8. \A q \in Requests : outcome'[q] = "completed" => outcome[q] = "completed"
  BY <1>1 DEF Acquire, Refuse, CancelWaiter, Resume, LeaveRun, Outcomes
<1> QED BY <1>2, <1>3, <1>4, <1>7, <1>8 DEF CallsGoOn

\* An operation's end may complete its own call.
LEMMA OperationGoesOn ==
  ASSUME CoordinatorInv, NEW r \in Requests, FinishOperation(r)
  PROVE  CallsGoOn({r})
<1>1. call \in [Requests -> Calls] /\ outcome \in [Requests -> Outcomes]
  BY DEF CoordinatorInv, CoordinatorTypeOK
<1>2. CoordinatorNext
  BY DEF CoordinatorNext
<1>3. CoordinatorInv'
  BY <1>2, StepFacts
<1>4. \A q \in Requests : /\ call'[q] = "none" <=> call[q] = "none"
                          /\ Running(call'[q]) => Running(call[q])
                          /\ q # r => outcome'[q] = outcome[q]
  BY <1>1 DEF FinishOperation, Running
<1> QED BY <1>2, <1>3, <1>4 DEF CallsGoOn, FinishOperation

\* Shutdown ends the calls in line and completes none.
LEMMA ShutdownGoesOn ==
  ASSUME CoordinatorInv, ShutdownCoordinator
  PROVE  CallsGoOn({})
<1>1. /\ call \in [Requests -> Calls] /\ outcome \in [Requests -> Outcomes]
      /\ Range(waiters) = {q \in Requests : call[q] = "waiting"}
  BY DEF CoordinatorInv, CoordinatorTypeOK, WaitersAreSuspended
<1>2. CoordinatorNext
  BY DEF CoordinatorNext
<1>3. CoordinatorInv'
  BY <1>2, StepFacts
<1>4. \A q \in Requests : /\ call'[q] = "none" <=> call[q] = "none"
                          /\ Running(call'[q]) => Running(call[q])
                          /\ outcome'[q] = "completed" => outcome[q] = "completed"
  BY <1>1 DEF ShutdownCoordinator, Running
<1> QED BY <1>2, <1>3, <1>4 DEF CallsGoOn, ShutdownCoordinator

\* Cancelling tasks that called run moves no call.
LEMMA CancelGoesOn ==
  ASSUME CoordinatorInv, NEW R \in SUBSET Called, Cancel(R)
  PROVE  CallsGoOn({}) /\ cancelled' = cancelled \cup R
<1>1. CoordinatorNext
  BY DEF CoordinatorNext
<1>2. CoordinatorInv'
  BY <1>1, StepFacts
<1>3. /\ call' = call /\ outcome' = outcome /\ cancelled' = cancelled \cup R
  BY DEF Cancel
<1> QED BY <1>1, <1>2, <1>3 DEF CallsGoOn

\* Nothing happens in the coordinator.
LEMMA NothingGoesOn ==
  ASSUME CoordinatorInv, UNCHANGED coordinatorVars
  PROVE  CallsGoOn({})
<1>1. CoordinatorInv'
  BY StepFacts
<1> QED BY <1>1 DEF CallsGoOn, coordinatorVars
-----------------------------------------------------------------------------
(* Writes handed to the event loop.                                        *)

Kinds == {"head", "chunk", "done", "json", "close"}

ServerInv == HTTPInv /\ ResponsesAreFramed

\* What Write appends, and where.
LEMMA WriteFacts ==
  ASSUME HTTPTypeOK, NEW r \in Requests, NEW kinds \in Seq(Kinds), Write(r, kinds)
  PROVE  /\ outbox' \in [Conns -> Seq(Part)]
         /\ \A c \in Conns : c # ConnOf[r] \/ conn[c] # "open" => outbox'[c] = outbox[c]
         /\ conn[ConnOf[r]] = "open" =>
              /\ Len(outbox'[ConnOf[r]]) = Len(outbox[ConnOf[r]]) + Len(kinds)
              /\ \A i \in 1..Len(outbox[ConnOf[r]]) :
                   outbox'[ConnOf[r]][i] = outbox[ConnOf[r]][i]
              /\ \A j \in 1..Len(kinds) :
                   outbox'[ConnOf[r]][Len(outbox[ConnOf[r]]) + j]
                     = [request |-> r, kind |-> kinds[j]]
<1> DEFINE c == ConnOf[r]
           parts == [i \in DOMAIN kinds |-> [request |-> r, kind |-> kinds[i]]]
<1>1. c \in Conns /\ outbox \in [Conns -> Seq(Part)] /\ outbox[c] \in Seq(Part)
  BY ConnsAssumption DEF HTTPTypeOK
<1>2. parts \in Seq(Part) /\ Len(parts) = Len(kinds)
  <2>1. DOMAIN kinds = 1..Len(kinds) /\ Len(kinds) \in Nat
    OBVIOUS
  <2>2. \A i \in DOMAIN kinds : [request |-> r, kind |-> kinds[i]] \in Part
    BY DEF Part, Kinds
  <2>3. parts \in [1..Len(kinds) -> Part]
    BY <2>1, <2>2
  <2> QED BY <2>1, <2>3
<1> HIDE DEF parts
<1>3. outbox' = IF conn[c] = "open" THEN [outbox EXCEPT ![c] = outbox[c] \o parts] ELSE outbox
  BY DEF Write, parts
<1>4. /\ outbox[c] \o parts \in Seq(Part)
      /\ Len(outbox[c] \o parts) = Len(outbox[c]) + Len(kinds)
      /\ \A i \in 1..Len(outbox[c]) : (outbox[c] \o parts)[i] = outbox[c][i]
      /\ \A j \in 1..Len(kinds) : (outbox[c] \o parts)[Len(outbox[c]) + j] = parts[j]
  <2> DEFINE s == outbox[c]
  <2>1. s \in Seq(Part) /\ parts \in Seq(Part) /\ Len(parts) = Len(kinds)
    BY <1>1, <1>2
  <2> HIDE DEF s
  <2>2. /\ s \o parts \in Seq(Part)
        /\ Len(s \o parts) = Len(s) + Len(parts)
    BY <2>1
  <2>3. \A i \in 1..Len(s) : (s \o parts)[i] = s[i]
    BY <2>1
  <2>4. \A j \in 1..Len(parts) : (s \o parts)[Len(s) + j] = parts[j]
    BY <2>1, ConcatFacts
  <2> QED BY <2>1, <2>2, <2>3, <2>4 DEF s
<1>5. \A j \in 1..Len(kinds) : parts[j] = [request |-> r, kind |-> kinds[j]]
  BY DEF parts
<1>6. CASE conn[c] = "open"
  <2>1. outbox' = [outbox EXCEPT ![c] = outbox[c] \o parts]
    BY <1>3, <1>6
  <2>2. outbox'[c] = outbox[c] \o parts /\ outbox' \in [Conns -> Seq(Part)]
    BY <1>1, <1>4, <2>1
  <2>3. \A d \in Conns : d # c => outbox'[d] = outbox[d]
    BY <1>1, <2>1
  <2> HIDE DEF c
  <2>4. /\ Len(outbox'[c]) = Len(outbox[c]) + Len(kinds)
        /\ \A i \in 1..Len(outbox[c]) : outbox'[c][i] = outbox[c][i]
        /\ \A j \in 1..Len(kinds) :
             outbox'[c][Len(outbox[c]) + j] = [request |-> r, kind |-> kinds[j]]
    BY <1>4, <1>5, <2>2
  <2> QED BY <1>6, <2>2, <2>3, <2>4 DEF c
<1>7. CASE conn[c] # "open"
  BY <1>1, <1>3, <1>7
<1> QED BY <1>6, <1>7

\* What ResponsesAreFramed says of one connection.
FramedAt(c) ==
  \A i \in DOMAIN outbox[c] :
    /\ outbox[c][i].request = serving[c]
    /\ outbox[c][i].kind = "head" => sent[outbox[c][i].request] = "nothing" /\ i = 1
    /\ outbox[c][i].kind \in {"chunk", "done"} =>
         sent[outbox[c][i].request] = "open" \/ outbox[c][1].kind = "head"
    /\ outbox[c][i].kind = "json" => sent[outbox[c][i].request] = "nothing" /\ i = 1
    /\ outbox[c][i].kind \in {"done", "json", "close"} => i = Len(outbox[c])

LEMMA FramedEverywhere == ResponsesAreFramed <=> \A c \in Conns : FramedAt(c)
BY DEF ResponsesAreFramed, FramedAt

\* A connection whose writes and exchange stay is framed as before.
LEMMA FramedStays ==
  ASSUME NEW c \in Conns, FramedAt(c), UNCHANGED <<outbox[c], serving[c], sent>>
  PROVE  FramedAt(c)'
BY DEF FramedAt

\* What a write may add on an open connection, in the words of the writer: a
\* head or a document first, the rest behind a head, an end last.
MayFollow(r, kinds) ==
  \A j \in 1..Len(kinds) :
    /\ kinds[j] \in {"head", "json"} =>
         sent[r] = "nothing" /\ j = 1 /\ outbox[ConnOf[r]] = <<>>
    /\ kinds[j] \in {"chunk", "done"} =>
         \/ sent[r] = "open"
         \/ outbox[ConnOf[r]] # <<>> /\ outbox[ConnOf[r]][1].kind = "head"
    /\ kinds[j] \in {"done", "json", "close"} => j = Len(kinds)

LEMMA FramedWrite ==
  ASSUME HTTPTypeOK, NEW r \in Requests, NEW kinds \in Seq(Kinds), Write(r, kinds),
         conn[ConnOf[r]] = "open", FramedAt(ConnOf[r]), MayFollow(r, kinds),
         \A i \in DOMAIN outbox[ConnOf[r]] :
           /\ outbox[ConnOf[r]][i].request = r
           /\ outbox[ConnOf[r]][i].kind \in {"head", "chunk"},
         serving'[ConnOf[r]] = r, sent' = sent
  PROVE  FramedAt(ConnOf[r])'
<1> DEFINE c == ConnOf[r]
           s == outbox[c]
           t == outbox'[c]
           n == Len(s)
<1>1. /\ c \in Conns /\ s \in Seq(Part) /\ t \in Seq(Part)
      /\ n \in Nat /\ Len(kinds) \in Nat /\ Len(t) = n + Len(kinds)
      /\ \A i \in 1..n : t[i] = s[i]
      /\ \A j \in 1..Len(kinds) : t[n + j] = [request |-> r, kind |-> kinds[j]]
  BY WriteFacts, ConnsAssumption DEF HTTPTypeOK
<1>2. DOMAIN t = 1..(n + Len(kinds)) /\ DOMAIN s = 1..n
  BY <1>1
<1>3. \A i \in 1..n :
        /\ s[i].request = r /\ s[i].kind \in {"head", "chunk"}
        /\ s[i].kind = "head" => sent[r] = "nothing" /\ i = 1
        /\ s[i].kind = "chunk" => sent[r] = "open" \/ s[1].kind = "head"
  BY <1>2 DEF FramedAt
<1>4. \A j \in 1..Len(kinds) :
        /\ kinds[j] \in {"head", "json"} => sent[r] = "nothing" /\ j = 1 /\ n = 0
        /\ kinds[j] \in {"chunk", "done"} => sent[r] = "open" \/ (n > 0 /\ s[1].kind = "head")
        /\ kinds[j] \in {"done", "json", "close"} => j = Len(kinds)
  <2>1. s = <<>> => n = 0
    OBVIOUS
  <2>2. s # <<>> => n > 0
    BY <1>1
  <2> QED BY <2>1, <2>2 DEF MayFollow
<1> SUFFICES ASSUME NEW i \in DOMAIN t
             PROVE  /\ t[i].request = r
                    /\ t[i].kind = "head" => sent[r] = "nothing" /\ i = 1
                    /\ t[i].kind \in {"chunk", "done"} => sent[r] = "open" \/ t[1].kind = "head"
                    /\ t[i].kind = "json" => sent[r] = "nothing" /\ i = 1
                    /\ t[i].kind \in {"done", "json", "close"} => i = Len(t)
  BY DEF FramedAt
<1> HIDE DEF c, s, t, n
<1>5. CASE i \in 1..n
  <2>1. t[i] = s[i] /\ t[1] = s[1]
    BY <1>1, <1>5
  <2> QED BY <1>3, <1>5, <2>1
<1>6. CASE i \notin 1..n
  <2>1. PICK j \in 1..Len(kinds) : i = n + j
    <3>1. i - n \in 1..Len(kinds) /\ i = n + (i - n)
      BY <1>1, <1>2, <1>6
    <3> QED BY <3>1
  <2>2. t[i].request = r /\ t[i].kind = kinds[j]
    <3>1. t[i] = [request |-> r, kind |-> kinds[j]]
      BY <1>1, <2>1
    <3> QED BY <3>1
  <2>3. n > 0 => t[1] = s[1]
    BY <1>1
  <2>4. t[i].kind \in {"head", "json"} => sent[r] = "nothing" /\ i = 1
    BY <1>4, <2>1, <2>2
  <2>5. t[i].kind \in {"done", "json", "close"} => i = Len(t)
    BY <1>1, <1>4, <2>1, <2>2
  <2>6. t[i].kind \in {"chunk", "done"} => sent[r] = "open" \/ t[1].kind = "head"
    BY <1>4, <2>2, <2>3
  <2> QED BY <2>2, <2>4, <2>5, <2>6
<1> QED BY <1>5, <1>6

-----------------------------------------------------------------------------
(* The task of a request that is not answered.                             *)

\* On an open connection it is the one being served, alone, and has ended nothing.
LEMMA PendingIsServed ==
  ASSUME HTTPInv, NEW r \in Requests, reply[r] = "pending", conn[ConnOf[r]] = "open"
  PROVE  /\ serving[ConnOf[r]] = r /\ sent[r] # "ended"
         /\ \A i \in DOMAIN outbox[ConnOf[r]] :
              outbox[ConnOf[r]][i].kind \in {"head", "chunk"}
         /\ \A q \in Requests : reply[q] = "pending" /\ ConnOf[q] = ConnOf[r] => q = r
<1>1. ASSUME NEW q \in Requests, reply[q] = "pending", conn[ConnOf[q]] = "open"
      PROVE  sent[q] # "ended" /\ serving[ConnOf[q]] = q
  <2>1. stream[q] \in {"off", "on"}
    BY <1>1 DEF HTTPInv, HTTPTypeOK, StreamsAgree
  <2>2. sent[q] \in {"nothing", "open"}
    BY <1>1, <2>1 DEF HTTPInv, StreamsAgree
  <2> QED BY <1>1, <2>2 DEF HTTPInv, ExchangesInTurn
<1>2. \A i \in DOMAIN outbox[ConnOf[r]] : outbox[ConnOf[r]][i].kind \in {"head", "chunk"}
  BY DEF HTTPInv, StreamsAgree
<1> QED BY <1>1, <1>2

\* What a task writes stays framed, and touches no other exchange.
LEMMA TaskWrites ==
  ASSUME ServerInv, NEW r \in Requests, reply[r] = "pending",
         NEW kinds \in Seq(Kinds), Write(r, kinds), UNCHANGED <<conn, serving, sent>>,
         conn[ConnOf[r]] = "open" => MayFollow(r, kinds)
  PROVE  /\ outbox' \in [Conns -> Seq(Part)]
         /\ ResponsesAreFramed'
         /\ \A c \in Conns : conn[c] # "open" => outbox'[c] = <<>>
         /\ \A q \in Requests : q # r /\ reply[q] = "pending" /\ conn[ConnOf[q]] = "open" =>
              outbox'[ConnOf[q]] = outbox[ConnOf[q]]
<1>1. /\ HTTPInv /\ HTTPTypeOK /\ ConnOf[r] \in Conns
      /\ \A c \in Conns : FramedAt(c)
  BY FramedEverywhere, ConnsAssumption DEF ServerInv, HTTPInv
<1>2. /\ outbox' \in [Conns -> Seq(Part)]
      /\ \A c \in Conns : c # ConnOf[r] \/ conn[c] # "open" => outbox'[c] = outbox[c]
  BY <1>1, WriteFacts
<1>3. \A c \in Conns : conn[c] # "open" => outbox'[c] = <<>>
  BY <1>1, <1>2 DEF HTTPInv, ExchangesInTurn
<1>4. ASSUME NEW q \in Requests, q # r, reply[q] = "pending", conn[ConnOf[q]] = "open"
      PROVE  outbox'[ConnOf[q]] = outbox[ConnOf[q]]
  <2>1. ConnOf[q] # ConnOf[r] /\ ConnOf[q] \in Conns
    BY <1>1, <1>4, PendingIsServed, ConnsAssumption
  <2> QED BY <1>2, <2>1
<1>5. ASSUME NEW c \in Conns PROVE FramedAt(c)'
  <2>1. CASE c # ConnOf[r] \/ conn[c] # "open"
    BY <1>1, <1>2, <2>1, FramedStays
  <2>2. CASE c = ConnOf[r] /\ conn[c] = "open"
    <3>1. /\ serving[c] = r
          /\ \A i \in DOMAIN outbox[c] : outbox[c][i].kind \in {"head", "chunk"}
      BY <1>1, <2>2, PendingIsServed
    <3>2. \A i \in DOMAIN outbox[c] : outbox[c][i].request = r
      BY <1>1, <3>1 DEF FramedAt
    <3> QED BY <1>1, <2>2, <3>1, <3>2, FramedWrite
  <2> QED BY <2>1, <2>2
<1>6. ResponsesAreFramed'
  BY <1>5 DEF ResponsesAreFramed, FramedAt
<1> QED BY <1>2, <1>3, <1>4, <1>6

-----------------------------------------------------------------------------
(* Parts of the invariant that a step leaves alone.                        *)

LEMMA TasksStay ==
  ASSUME HTTPInv, NEW done, CallsGoOn(done), UNCHANGED <<conn, activeTask, reply>>
  PROVE  TasksAgree'
<1>1. \A c \in Conns : activeTask[c] # NoRequest => activeTask[c] \in Requests
  BY DEF HTTPInv, HTTPTypeOK
<1> QED BY <1>1 DEF HTTPInv, TasksAgree, CallsGoOn, Running

LEMMA RegistryStays ==
  ASSUME HTTPInv, UNCHANGED <<conn, reply, registry, shutdown>>
  PROVE  RegistryAgrees'
BY DEF HTTPInv, RegistryAgrees, Registered, registry, shutdown

LEMMA ExchangesStay ==
  ASSUME HTTPInv, NEW done, CallsGoOn(done), UNCHANGED <<conn, serving, sent, reply>>,
         \A c \in Conns : conn[c] # "open" => outbox'[c] = <<>>,
         \A r \in Requests : reply[r] = "none" => stream'[r] = stream[r]
  PROVE  ExchangesInTurn'
BY DEF HTTPInv, ExchangesInTurn, CallsGoOn

\* The coordinator moves; the front end, but for the place of shutdown, does not.
LEMMA CoordinatorAlone ==
  ASSUME ServerInv, NEW done, CallsGoOn(done),
         UNCHANGED <<exchanges, outbox, tasks>>,
         \A r \in done : r \in Streaming => stream[r] # "off",
         HTTPTypeOK', RegistryAgrees'
  PROVE  ServerInv'
<1>1. HTTPInv /\ UNCHANGED <<conn, serving, activeTask, sent, late, outbox, reply, stream, emitted>>
  BY DEF ServerInv, exchanges, tasks
<1>2. \A c \in Conns : conn[c] # "open" => outbox'[c] = <<>>
  BY <1>1 DEF HTTPInv, ExchangesInTurn
<1>3. ExchangesInTurn' /\ TasksAgree'
  BY <1>1, <1>2, ExchangesStay, TasksStay
<1>4. StreamsAgree'
  BY <1>1 DEF HTTPInv, StreamsAgree, CallsGoOn
<1>5. ResponsesAreFramed'
  BY <1>1 DEF ServerInv, ResponsesAreFramed
<1>6. CoordinatorInv'
  BY DEF CallsGoOn
<1> QED BY <1>3, <1>4, <1>5, <1>6 DEF ServerInv, HTTPInv

\* The steps of run that the front end only waits for.
LEMMA RunStepInv ==
  ASSUME ServerInv, NEW r \in Requests, EndOperation(r) \/ ReturnFromRun(r) \/ LeaveLine(r)
  PROVE  ServerInv'
<1>1. /\ CoordinatorInv /\ HTTPInv /\ HTTPTypeOK
      /\ UNCHANGED <<exchanges, outbox, tasks, registry, shutdown>>
  BY DEF ServerInv, HTTPInv, EndOperation, ReturnFromRun, LeaveLine, httpVars
<1>2. HTTPTypeOK'
  BY <1>1 DEF HTTPTypeOK, exchanges, tasks, registry, shutdown
<1>3. RegistryAgrees'
  BY <1>1, RegistryStays DEF exchanges, tasks
<1>4. CASE EndOperation(r)
  <2>1. CallsGoOn({r}) /\ (r \in Streaming => stream[r] # "off")
    BY <1>1, <1>4, OperationGoesOn DEF EndOperation, Begun
  <2> QED BY <1>1, <1>2, <1>3, <2>1, CoordinatorAlone
<1>5. CASE ReturnFromRun(r) \/ LeaveLine(r)
  <2>1. CallsGoOn({})
    BY <1>1, <1>5, CoordinatorGoesOn DEF ReturnFromRun, LeaveLine
  <2> QED BY <1>1, <1>2, <1>3, <2>1, CoordinatorAlone
<1> QED BY <1>4, <1>5

LEMMA DrainInv ==
  ASSUME ServerInv, DrainCoordinator
  PROVE  ServerInv'
<1>1. /\ CoordinatorInv /\ HTTPInv /\ HTTPTypeOK /\ RegistryAgrees /\ stage = "up"
      /\ stage' = "drained" /\ UNCHANGED <<exchanges, outbox, tasks, registry, closing, awaiting>>
  BY DEF ServerInv, HTTPInv, DrainCoordinator
<1>2. CallsGoOn({})
  BY <1>1, ShutdownGoesOn DEF DrainCoordinator
<1>3. HTTPTypeOK'
  BY <1>1 DEF HTTPTypeOK, Stages, exchanges, tasks, registry
<1>4. RegistryAgrees'
  BY <1>1 DEF RegistryAgrees, registry, exchanges
<1> QED BY <1>1, <1>2, <1>3, <1>4, CoordinatorAlone

\* Steps of shutdown that close nothing: marking the registry, the end.
LEMMA ShutdownMarksInv ==
  ASSUME ServerInv, BeginCloseAll \/ FinishShutdown
  PROVE  ServerInv'
<1>1. /\ CoordinatorInv /\ HTTPInv /\ HTTPTypeOK /\ RegistryAgrees
      /\ UNCHANGED <<coordinatorVars, exchanges, outbox, tasks, listed, awaiting>>
  BY DEF ServerInv, HTTPInv, BeginCloseAll, FinishShutdown, registry
<1>2. CallsGoOn({})
  BY <1>1, NothingGoesOn
<1>3. HTTPTypeOK'
  BY <1>1 DEF HTTPTypeOK, Stages, exchanges, tasks, registry, BeginCloseAll, FinishShutdown
<1>4. RegistryAgrees'
  BY <1>1 DEF RegistryAgrees, Registered, registry, exchanges, tasks, BeginCloseAll,
     FinishShutdown
<1> QED BY <1>1, <1>2, <1>3, <1>4, CoordinatorAlone

LEMMA CancelTasksInv ==
  ASSUME ServerInv, CancelTasks
  PROVE  ServerInv' /\ [CoordinatorNext]_coordinatorVars
<1>1. /\ CoordinatorInv /\ HTTPInv /\ HTTPTypeOK /\ RegistryAgrees /\ TasksAgree
      /\ UNCHANGED <<exchanges, outbox, tasks, registry, closing>>
      /\ stage = "closing" /\ closing = {} /\ stage' = "awaiting" /\ awaiting' = Registered
  BY DEF ServerInv, HTTPInv, CancelTasks
<1>2. Registered \in SUBSET Called
  BY <1>1 DEF Registered, Called, TasksAgree
<1>3. CallsGoOn({})
  BY <1>1, <1>2, CancelGoesOn DEF CancelTasks
<1>4. HTTPTypeOK'
  BY <1>1 DEF HTTPTypeOK, Stages, exchanges, tasks, registry, Registered
<1>5. RegistryAgrees'
  BY <1>1 DEF RegistryAgrees, Registered, registry, exchanges, tasks
<1>6. ServerInv'
  BY <1>1, <1>3, <1>4, <1>5, CoordinatorAlone
<1> QED BY <1>3, <1>6 DEF CallsGoOn

\* The heartbeat writes to the wire only.
LEMMA PingInv ==
  ASSUME ServerInv, NEW r \in Requests, Ping(r)
  PROVE  ServerInv'
<1>1. /\ CoordinatorInv /\ HTTPInv /\ HTTPTypeOK
      /\ UNCHANGED <<coordinatorVars, conn, serving, activeTask, sent, outbox, tasks,
                     registry, shutdown>>
      /\ late' \subseteq late \cup {r}
  BY DEF ServerInv, HTTPInv, Ping
<1>2. HTTPTypeOK'
  BY <1>1 DEF HTTPTypeOK, tasks, registry, shutdown
<1>3. CallsGoOn({}) /\ RegistryAgrees'
  BY <1>1, NothingGoesOn, RegistryStays DEF tasks
<1>4. \A c \in Conns : conn[c] # "open" => outbox'[c] = <<>>
  BY <1>1 DEF HTTPInv, ExchangesInTurn
<1>5. ExchangesInTurn' /\ TasksAgree'
  BY <1>1, <1>3, <1>4, ExchangesStay, TasksStay DEF tasks
<1>6. StreamsAgree' /\ ResponsesAreFramed'
  BY <1>1 DEF ServerInv, HTTPInv, StreamsAgree, ResponsesAreFramed, tasks, coordinatorVars
<1> QED BY <1>2, <1>3, <1>5, <1>6 DEF ServerInv, HTTPInv, CallsGoOn

-----------------------------------------------------------------------------
(* What a running task writes.                                             *)

\* A stream that writes its head, or chunks behind it, is on.
LEMMA StreamingWrites ==
  ASSUME ServerInv, CallsGoOn({}), NEW r \in Streaming, reply[r] = "pending",
         NEW kind \in {"head", "chunk"}, Write(r, <<kind>>),
         conn[ConnOf[r]] = "open" => MayFollow(r, <<kind>>),
         stream' = [stream EXCEPT ![r] = "on"],
         emitted' \in [Requests -> 0..MaxEvents],
         UNCHANGED <<exchanges, reply, registry, shutdown>>
  PROVE  ServerInv'
<1>1. /\ HTTPInv /\ HTTPTypeOK /\ r \in Requests /\ <<kind>> \in Seq(Kinds)
      /\ UNCHANGED <<conn, serving, activeTask, sent, late>>
  BY ConnsAssumption DEF ServerInv, HTTPInv, exchanges, Kinds
<1>2. /\ outbox' \in [Conns -> Seq(Part)]
      /\ ResponsesAreFramed'
      /\ \A c \in Conns : conn[c] # "open" => outbox'[c] = <<>>
      /\ \A q \in Requests : q # r /\ reply[q] = "pending" /\ conn[ConnOf[q]] = "open" =>
           outbox'[ConnOf[q]] = outbox[ConnOf[q]]
  BY <1>1, TaskWrites
<1>3. \A q \in Requests : stream'[q] = IF q = r THEN "on" ELSE stream[q]
  BY <1>1 DEF HTTPTypeOK
<1>4. HTTPTypeOK'
  BY <1>1, <1>2 DEF HTTPTypeOK, registry, shutdown
<1>5. ExchangesInTurn' /\ TasksAgree' /\ RegistryAgrees'
  BY <1>1, <1>2, <1>3, ExchangesStay, TasksStay, RegistryStays
<1>6. ASSUME conn[ConnOf[r]] = "open"
      PROVE  /\ \A i \in DOMAIN outbox'[ConnOf[r]] : outbox'[ConnOf[r]][i].kind \in {"head", "chunk"}
             /\ \/ sent[r] = "open"
                \/ /\ sent[r] = "nothing" /\ outbox'[ConnOf[r]] # <<>>
                   /\ outbox'[ConnOf[r]][1].kind = "head"
  <2> DEFINE s == outbox[ConnOf[r]]
             t == outbox'[ConnOf[r]]
  <2>1. /\ s \in Seq(Part) /\ t \in Seq(Part) /\ Len(s) \in Nat
        /\ Len(t) = Len(s) + 1
        /\ \A i \in 1..Len(s) : t[i] = s[i]
        /\ t[Len(s) + 1] = [request |-> r, kind |-> kind]
    <3>1. Len(<<kind>>) = 1 /\ <<kind>>[1] = kind /\ 1 \in 1..1 /\ ConnOf[r] \in Conns
      BY <1>1, ConnsAssumption
    <3>2. /\ Len(t) = Len(s) + Len(<<kind>>)
          /\ \A i \in 1..Len(s) : t[i] = s[i]
          /\ \A j \in 1..Len(<<kind>>) : t[Len(s) + j] = [request |-> r, kind |-> <<kind>>[j]]
      BY <1>1, <1>6, WriteFacts
    <3>3. s \in Seq(Part) /\ t \in Seq(Part)
      BY <1>1, <1>2, <3>1 DEF HTTPTypeOK
    <3> HIDE DEF s, t
    <3>4. t[Len(s) + 1] = [request |-> r, kind |-> kind]
      BY <3>1, <3>2
    <3> QED BY <3>1, <3>2, <3>3, <3>4
  <2>2. /\ \A i \in DOMAIN s : s[i].kind \in {"head", "chunk"}
        /\ sent[r] \in {"nothing", "open"}
    BY <1>1, <1>6, PendingIsServed DEF HTTPTypeOK
  <2>3. /\ kind = "head" => s = <<>>
        /\ kind = "chunk" => sent[r] = "open" \/ (s # <<>> /\ s[1].kind = "head")
    <3>1. MayFollow(r, <<kind>>) /\ Len(<<kind>>) = 1 /\ <<kind>>[1] = kind /\ 1 \in 1..1
      BY <1>6
    <3> QED BY <3>1 DEF MayFollow
  <2> HIDE DEF s, t
  <2>4. t[Len(s) + 1].kind = kind
    BY <2>1
  <2>5. \A i \in DOMAIN t : i \in DOMAIN s \/ i = Len(s) + 1
    BY <2>1
  <2>6. \A i \in DOMAIN t : t[i].kind \in {"head", "chunk"}
    BY <2>1, <2>2, <2>4, <2>5
  <2>7. t # <<>>
    BY <2>1
  <2>8. kind = "head" => t[1].kind = "head"
    <3>1. s = <<>> => Len(s) = 0
      BY <2>1
    <3> QED BY <2>1, <2>3, <2>4, <3>1
  <2>9. s # <<>> => t[1] = s[1]
    BY <2>1
  <2> QED BY <2>2, <2>3, <2>6, <2>7, <2>8, <2>9 DEF s, t
<1>7. StreamsAgree'
  <2>1. ASSUME NEW q \in Requests, q # r
        PROVE  /\ outcome'[q] = "completed" /\ q \in Streaming => stream'[q] # "off"
               /\ reply[q] = "pending" =>
                    stream'[q] # "stopped" /\ (stream'[q] = "on" => q \in Streaming)
    BY <1>1, <1>3, <2>1 DEF HTTPInv, StreamsAgree, CallsGoOn
  <2>2. ASSUME NEW q \in Requests, q # r, reply[q] = "pending", conn[ConnOf[q]] = "open"
        PROVE  LET s == outbox'[ConnOf[q]]
               IN  /\ \A i \in DOMAIN s : s[i].kind \in {"head", "chunk"}
                   /\ stream'[q] = "off" => sent[q] = "nothing" /\ s = <<>>
                   /\ stream'[q] = "on" =>
                        sent[q] = "open" \/ (sent[q] = "nothing" /\ s # <<>> /\ s[1].kind = "head")
    <3>1. outbox'[ConnOf[q]] = outbox[ConnOf[q]] /\ stream'[q] = stream[q]
      BY <1>2, <1>3, <2>2
    <3> QED BY <1>1, <2>2, <3>1 DEF HTTPInv, StreamsAgree
  <2> QED BY <1>1, <1>3, <1>6, <2>1, <2>2 DEF StreamsAgree
<1>8. CoordinatorInv'
  BY DEF CallsGoOn
<1> QED BY <1>2, <1>4, <1>5, <1>7, <1>8 DEF ServerInv, HTTPInv

\* A stream that has not begun may write its head.
LEMMA HeadMayFollow ==
  ASSUME HTTPInv, NEW r \in Requests, reply[r] = "pending", stream[r] = "off",
         conn[ConnOf[r]] = "open"
  PROVE  MayFollow(r, <<"head">>) /\ MayFollow(r, <<"json">>)
<1>1. sent[r] = "nothing" /\ outbox[ConnOf[r]] = <<>>
  BY DEF HTTPInv, StreamsAgree
<1>2. /\ Len(<<"head">>) = 1 /\ <<"head">>[1] = "head"
      /\ Len(<<"json">>) = 1 /\ <<"json">>[1] = "json"
  OBVIOUS
<1>3. \A j \in 1..1 : j = 1
  OBVIOUS
<1> QED BY <1>1, <1>2, <1>3 DEF MayFollow

\* A stream that has begun may write chunks, end, or close its connection.
LEMMA ChunkMayFollow ==
  ASSUME HTTPInv, NEW r \in Requests, reply[r] = "pending", stream[r] = "on",
         conn[ConnOf[r]] = "open"
  PROVE  /\ MayFollow(r, <<"chunk">>)
         /\ MayFollow(r, <<"chunk", "done">>)
         /\ MayFollow(r, <<"close">>)
<1>1. \/ sent[r] = "open"
      \/ outbox[ConnOf[r]] # <<>> /\ outbox[ConnOf[r]][1].kind = "head"
  BY DEF HTTPInv, StreamsAgree
<1>2. /\ Len(<<"chunk">>) = 1 /\ <<"chunk">>[1] = "chunk"
      /\ Len(<<"close">>) = 1 /\ <<"close">>[1] = "close"
  OBVIOUS
<1>3. /\ Len(<<"chunk", "done">>) = 2
      /\ <<"chunk", "done">>[1] = "chunk" /\ <<"chunk", "done">>[2] = "done"
  OBVIOUS
<1>4. (\A j \in 1..1 : j = 1) /\ (\A j \in 1..2 : j = 1 \/ j = 2)
  OBVIOUS
<1> QED BY <1>1, <1>2, <1>3, <1>4 DEF MayFollow

\* StartStream writes the head of a stream that is off, or does nothing.
LEMMA StartStreamInv ==
  ASSUME ServerInv, CallsGoOn({}), NEW r \in Requests, reply[r] = "pending",
         StartStream(r) \/ UNCHANGED <<outbox, stream>>,
         UNCHANGED <<exchanges, reply, emitted, registry, shutdown>>
  PROVE  ServerInv'
<1>1. /\ HTTPInv /\ HTTPTypeOK /\ emitted' \in [Requests -> 0..MaxEvents]
  BY DEF ServerInv, HTTPInv, HTTPTypeOK
<1>2. CASE r \in Streaming /\ stream[r] = "off" /\ StartStream(r)
  <2>1. Write(r, <<"head">>) /\ stream' = [stream EXCEPT ![r] = "on"]
    BY <1>2 DEF StartStream
  <2>2. conn[ConnOf[r]] = "open" => MayFollow(r, <<"head">>)
    BY <1>1, <1>2, HeadMayFollow
  <2> QED BY <1>1, <1>2, <2>1, <2>2, StreamingWrites
<1>3. CASE UNCHANGED <<outbox, stream>>
  <2>1. HTTPTypeOK' /\ RegistryAgrees'
    <3>1. RegistryAgrees'
      BY <1>1, RegistryStays DEF exchanges
    <3> QED BY <1>1, <1>3, <3>1 DEF HTTPTypeOK, exchanges, registry, shutdown
  <2> QED BY <1>3, <2>1, CoordinatorAlone DEF tasks
<1> QED BY <1>2, <1>3 DEF StartStream

LEMMA AcquireModelInv ==
  ASSUME ServerInv, NEW r \in Requests, AcquireModel(r) \/ BeginOperation(r)
  PROVE  ServerInv'
<1>1. CoordinatorInv /\ TasksAgree
  BY DEF ServerInv, HTTPInv
<1>2. CASE AcquireModel(r)
  <2>1. CallsGoOn({})
    BY <1>1, <1>2, CoordinatorGoesOn DEF AcquireModel
  <2>2. reply[r] = "pending"
    BY <1>1, <1>2 DEF AcquireModel, Acquire, TasksAgree
  <2> QED BY <1>2, <2>1, <2>2, StartStreamInv DEF AcquireModel
<1>3. CASE BeginOperation(r)
  <2>1. CallsGoOn({})
    BY <1>1, <1>3, NothingGoesOn DEF BeginOperation
  <2>2. reply[r] = "pending"
    BY <1>1, <1>3 DEF BeginOperation, TasksAgree
  <2> QED BY <1>3, <2>1, <2>2, StartStreamInv DEF BeginOperation
<1> QED BY <1>2, <1>3

LEMMA EmitEventInv ==
  ASSUME ServerInv, NEW r \in Requests, EmitEvent(r)
  PROVE  ServerInv'
<1>1. /\ CoordinatorInv /\ HTTPInv /\ HTTPTypeOK /\ TasksAgree
  BY DEF ServerInv, HTTPInv
<1>2. /\ r \in Streaming /\ stream[r] = "on" /\ reply[r] = "pending" /\ emitted[r] < MaxEvents
      /\ Write(r, <<"chunk">>) /\ emitted' = [emitted EXCEPT ![r] = @ + 1]
      /\ UNCHANGED <<coordinatorVars, exchanges, reply, stream, registry, shutdown>>
  BY <1>1 DEF EmitEvent, Begun, TasksAgree
<1>3. CallsGoOn({})
  BY <1>1, <1>2, NothingGoesOn
<1>4. stream' = [stream EXCEPT ![r] = "on"]
  BY <1>1, <1>2 DEF HTTPTypeOK
<1>5. emitted' \in [Requests -> 0..MaxEvents]
  <2>1. emitted \in [Requests -> 0..MaxEvents] /\ emitted[r] + 1 \in 0..MaxEvents
    BY <1>1, <1>2, MaxEventsAssumption DEF HTTPTypeOK
  <2> QED BY <1>2, <2>1
<1>6. conn[ConnOf[r]] = "open" => MayFollow(r, <<"chunk">>)
  BY <1>1, <1>2, ChunkMayFollow
<1> QED BY <1>2, <1>3, <1>4, <1>5, <1>6, StreamingWrites

\* The answer of a task ends the exchange or closes the connection.
LEMMA RespondInv ==
  ASSUME ServerInv, NEW r \in Requests, Respond(r)
  PROVE  ServerInv'
<1>1. /\ CoordinatorInv /\ HTTPInv /\ HTTPTypeOK /\ TasksAgree /\ StreamsAgree /\ RegistryAgrees
  BY DEF ServerInv, HTTPInv
<1>2. /\ call[r] = "returned" /\ reply[r] = "pending" /\ Write(r, Answer(r))
      /\ reply' = [reply EXCEPT ![r] = "written"]
      /\ UNCHANGED <<coordinatorVars, conn, serving, activeTask, sent, late, stream, emitted,
                     registry, shutdown>>
  BY DEF Respond, exchanges
<1>3. CallsGoOn({})
  BY <1>1, <1>2, NothingGoesOn
<1>4. Answer(r) \in {<<"chunk", "done">>, <<"json">>, <<"close">>}
  BY DEF Answer
<1>5. Answer(r) \in Seq(Kinds)
  <2>1. "chunk" \in Kinds /\ "done" \in Kinds /\ "json" \in Kinds /\ "close" \in Kinds
    BY DEF Kinds
  <2>2. /\ <<"chunk", "done">> \in Seq(Kinds) /\ <<"json">> \in Seq(Kinds)
        /\ <<"close">> \in Seq(Kinds)
    BY <2>1
  <2> QED BY <1>4, <2>2
<1>6. conn[ConnOf[r]] = "open" => MayFollow(r, Answer(r))
  <2>1. /\ stream[r] \in {"on", "off"}
        /\ stream[r] = "on" => r \in Streaming
        /\ outcome[r] = "completed" /\ r \in Streaming => stream[r] # "off"
    BY <1>1, <1>2 DEF StreamsAgree, HTTPTypeOK
  <2>2. CASE stream[r] = "on"
    BY <1>1, <1>2, <2>1, <2>2, ChunkMayFollow DEF Answer
  <2>3. CASE stream[r] = "off"
    <3>1. Answer(r) = <<"json">>
      BY <2>1, <2>3 DEF Answer
    <3> QED BY <1>1, <1>2, <2>3, <3>1, HeadMayFollow
  <2> QED BY <2>1, <2>2, <2>3
<1>7. /\ outbox' \in [Conns -> Seq(Part)]
      /\ ResponsesAreFramed'
      /\ \A c \in Conns : conn[c] # "open" => outbox'[c] = <<>>
      /\ \A q \in Requests : q # r /\ reply[q] = "pending" /\ conn[ConnOf[q]] = "open" =>
           outbox'[ConnOf[q]] = outbox[ConnOf[q]]
  BY <1>2, <1>5, <1>6, TaskWrites
<1>8. \A q \in Requests : reply'[q] = IF q = r THEN "written" ELSE reply[q]
  BY <1>1, <1>2 DEF HTTPTypeOK
<1>9. HTTPTypeOK'
  BY <1>1, <1>2, <1>7 DEF HTTPTypeOK, registry, shutdown
<1>10. ExchangesInTurn'
  BY <1>1, <1>2, <1>7, <1>8 DEF HTTPInv, HTTPTypeOK, ExchangesInTurn, coordinatorVars
<1>11. TasksAgree'
  BY <1>1, <1>2, <1>8 DEF HTTPTypeOK, TasksAgree, coordinatorVars
<1>12. RegistryAgrees'
  <2>1. Registered' = Registered
    BY <1>2, <1>8 DEF Registered
  <2> QED BY <1>1, <1>2, <2>1 DEF RegistryAgrees, registry, shutdown
<1>13. StreamsAgree'
  <2>1. ASSUME NEW q \in Requests, reply'[q] = "pending", conn[ConnOf[q]] = "open"
        PROVE  LET s == outbox'[ConnOf[q]]
               IN  /\ \A i \in DOMAIN s : s[i].kind \in {"head", "chunk"}
                   /\ stream[q] = "off" => sent[q] = "nothing" /\ s = <<>>
                   /\ stream[q] = "on" =>
                        sent[q] = "open" \/ (sent[q] = "nothing" /\ s # <<>> /\ s[1].kind = "head")
    <3>1. q # r /\ reply[q] = "pending" /\ outbox'[ConnOf[q]] = outbox[ConnOf[q]]
      BY <1>7, <1>8, <2>1
    <3> QED BY <1>1, <2>1, <3>1 DEF StreamsAgree
  <2>2. \A q \in Requests :
          /\ outcome'[q] = "completed" /\ q \in Streaming => stream'[q] # "off"
          /\ reply'[q] = "pending" => stream'[q] # "stopped" /\ (stream'[q] = "on" => q \in Streaming)
    BY <1>1, <1>2, <1>8 DEF StreamsAgree, coordinatorVars
  <2> QED BY <1>2, <2>1, <2>2 DEF StreamsAgree
<1> QED BY <1>3, <1>7, <1>9, <1>10, <1>11, <1>12, <1>13 DEF ServerInv, HTTPInv, CallsGoOn

LEMMA EndTaskInv ==
  ASSUME ServerInv, NEW r \in Requests, EndTask(r)
  PROVE  ServerInv'
<1>1. /\ CoordinatorInv /\ HTTPInv /\ HTTPTypeOK /\ TasksAgree /\ StreamsAgree
      /\ RegistryAgrees /\ ExchangesInTurn
  BY DEF ServerInv, HTTPInv
<1>2. /\ reply[r] = "written"
      /\ UNCHANGED <<coordinatorVars, conn, serving, activeTask, sent, late, outbox, emitted,
                     registry, shutdown>>
  BY DEF EndTask, exchanges
<1>3. CallsGoOn({})
  BY <1>1, <1>2, NothingGoesOn
<1>4. \A q \in Requests : /\ reply'[q] = IF q = r THEN "ended" ELSE reply[q]
                          /\ stream'[q] = IF q = r THEN "stopped" ELSE stream[q]
  BY <1>1 DEF EndTask, HTTPTypeOK
<1>5. HTTPTypeOK'
  BY <1>1, <1>2 DEF EndTask, HTTPTypeOK, registry, shutdown
<1>6. ExchangesInTurn'
  BY <1>1, <1>2, <1>4 DEF HTTPTypeOK, ExchangesInTurn, coordinatorVars
<1>7. TasksAgree'
  BY <1>1, <1>2, <1>4 DEF HTTPTypeOK, TasksAgree, coordinatorVars
<1>8. RegistryAgrees'
  <2>1. Registered' \subseteq Registered
    BY <1>2, <1>4 DEF Registered
  <2> QED BY <1>1, <1>2, <2>1 DEF RegistryAgrees, registry, shutdown
<1>9. StreamsAgree'
  BY <1>1, <1>2, <1>4 DEF StreamsAgree, coordinatorVars
<1>10. ResponsesAreFramed'
  BY <1>2 DEF ServerInv, ResponsesAreFramed
<1> QED BY <1>3, <1>5, <1>6, <1>7, <1>8, <1>9, <1>10 DEF ServerInv, HTTPInv, CallsGoOn

-----------------------------------------------------------------------------
(* Connections.                                                            *)

\* Closing an open connection cancels the task it remembers, the only one that
\* may be unanswered there.
LEMMA CloseInv ==
  ASSUME ServerInv, NEW c \in Conns, conn[c] = "open", CloseConnection(c),
         UNCHANGED <<stage, awaiting>>, closing' \in {closing, closing \ {c}}
  PROVE  ServerInv' /\ [CoordinatorNext]_coordinatorVars
<1>1. /\ CoordinatorInv /\ HTTPInv /\ HTTPTypeOK /\ TasksAgree /\ StreamsAgree
      /\ RegistryAgrees /\ ExchangesInTurn
  BY DEF ServerInv, HTTPInv
<1>2. /\ UNCHANGED <<serving, sent, late, reply, stream, emitted, registryDown>>
      /\ listed' = listed \ {c}
      /\ Cancel({activeTask[c]} \ {NoRequest})
  BY DEF CloseConnection, tasks
<1>3. /\ \A d \in Conns : /\ conn'[d] = IF d = c THEN "closed" ELSE conn[d]
                          /\ activeTask'[d] = IF d = c THEN NoRequest ELSE activeTask[d]
                          /\ outbox'[d] = IF d = c THEN <<>> ELSE outbox[d]
  BY <1>1 DEF CloseConnection, HTTPTypeOK
<1>4. CallsGoOn({}) /\ (activeTask[c] # NoRequest => activeTask[c] \in cancelled')
  <2>1. {activeTask[c]} \ {NoRequest} \in SUBSET Called
    BY <1>1 DEF HTTPTypeOK, TasksAgree, Called
  <2> QED BY <1>1, <1>2, <2>1, CancelGoesOn
<1>5. /\ call' = call /\ outcome' = outcome
  BY <1>2 DEF Cancel
<1>6. HTTPTypeOK'
  <2>1. <<>> \in Seq(Part)
    OBVIOUS
  <2>2. /\ conn' \in [Conns -> {"new", "open", "closed"}]
        /\ activeTask' \in [Conns -> Requests \cup {NoRequest}]
        /\ outbox' \in [Conns -> Seq(Part)]
    BY <1>1, <2>1 DEF CloseConnection, HTTPTypeOK
  <2> QED BY <1>1, <1>2, <2>2 DEF HTTPTypeOK
<1>7. \A q \in Requests : ConnOf[q] \in Conns
  BY ConnsAssumption
<1>8. ExchangesInTurn'
  BY <1>1, <1>2, <1>3, <1>5, <1>7 DEF HTTPTypeOK, ExchangesInTurn
<1>9. TasksAgree'
  <2>1. ASSUME NEW q \in Requests, reply[q] = "pending", conn'[ConnOf[q]] = "closed"
        PROVE  q \in cancelled'
    <3>1. CASE ConnOf[q] = c
      <4>1. activeTask[c] = q
        BY <1>1, <2>1, <3>1 DEF TasksAgree
      <4> QED BY <1>4, <4>1, NoRequestAssumption
    <3>2. CASE ConnOf[q] # c
      BY <1>1, <1>3, <1>4, <1>7, <2>1, <3>2 DEF TasksAgree, CallsGoOn
    <3> QED BY <3>1, <3>2
  <2> QED BY <1>1, <1>2, <1>3, <1>5, <1>7, <2>1 DEF HTTPTypeOK, TasksAgree
<1>10. RegistryAgrees'
  <2>1. listed' = {d \in Conns : conn'[d] = "open"}
    BY <1>1, <1>2, <1>3 DEF RegistryAgrees
  <2>2. Registered' = Registered
    BY <1>2 DEF Registered
  <2> QED BY <1>1, <1>2, <2>1, <2>2 DEF RegistryAgrees
<1>11. StreamsAgree'
  BY <1>1, <1>2, <1>3, <1>5, <1>7 DEF StreamsAgree
<1>12. ResponsesAreFramed'
  BY <1>2, <1>3 DEF ServerInv, ResponsesAreFramed
<1> QED BY <1>4, <1>6, <1>8, <1>9, <1>10, <1>11, <1>12 DEF ServerInv, HTTPInv, CallsGoOn

LEMMA CloseNextInv ==
  ASSUME ServerInv, NEW c \in Conns, CloseNext(c)
  PROVE  ServerInv' /\ [CoordinatorNext]_coordinatorVars
<1>1. /\ CoordinatorInv /\ HTTPInv /\ HTTPTypeOK /\ RegistryAgrees
      /\ stage = "closing" /\ closing' = closing \ {c} /\ UNCHANGED <<stage, awaiting>>
  BY DEF ServerInv, HTTPInv, CloseNext
<1>2. CASE conn[c] = "open"
  BY <1>1, <1>2, CloseInv DEF CloseNext
<1>3. CASE conn[c] # "open"
  <2>1. UNCHANGED <<coordinatorVars, exchanges, outbox, tasks, registry>>
    BY <1>3 DEF CloseNext
  <2>2. CallsGoOn({})
    BY <1>1, <2>1, NothingGoesOn
  <2>3. HTTPTypeOK'
    BY <1>1, <2>1 DEF HTTPTypeOK, exchanges, tasks, registry
  <2>4. RegistryAgrees'
    BY <1>1, <1>3, <2>1 DEF RegistryAgrees, registry, exchanges
  <2>5. ServerInv'
    BY <1>1, <2>1, <2>2, <2>3, <2>4, CoordinatorAlone
  <2> QED BY <2>2, <2>5 DEF CallsGoOn
<1> QED BY <1>2, <1>3

LEMMA AcceptInv ==
  ASSUME ServerInv, NEW c \in Conns, Accept(c)
  PROVE  ServerInv'
<1>1. /\ CoordinatorInv /\ HTTPInv /\ HTTPTypeOK /\ TasksAgree /\ StreamsAgree
      /\ RegistryAgrees /\ ExchangesInTurn
  BY DEF ServerInv, HTTPInv
<1>2. /\ conn[c] = "new"
      /\ UNCHANGED <<coordinatorVars, serving, activeTask, sent, late, outbox, reply, stream,
                     emitted, registryDown, stage, closing, awaiting>>
  BY DEF Accept, tasks, shutdown
<1>3. CallsGoOn({}) /\ call' = call /\ outcome' = outcome /\ cancelled' = cancelled
  BY <1>1, <1>2, NothingGoesOn DEF coordinatorVars
<1>4. /\ conn' \in [Conns -> {"new", "open", "closed"}]
      /\ \A d \in Conns : d # c => conn'[d] = conn[d]
      /\ \/ conn'[c] = "closed" /\ listed' = listed
         \/ conn'[c] = "open" /\ listed' = listed \cup {c} /\ ~registryDown
  BY <1>1 DEF Accept, HTTPTypeOK
<1>5. HTTPTypeOK'
  BY <1>1, <1>2, <1>4 DEF HTTPTypeOK
<1>6. /\ \A q \in Requests : ConnOf[q] \in Conns
      /\ \A q \in Requests : reply[q] # "none" => ConnOf[q] # c
  BY <1>1, <1>2, ConnsAssumption DEF ExchangesInTurn
<1>7. \A d \in Conns : conn'[d] # "open" => outbox'[d] = <<>>
  BY <1>1, <1>2, <1>4 DEF ExchangesInTurn
<1>8. ExchangesInTurn'
  BY <1>1, <1>2, <1>3, <1>4, <1>6, <1>7 DEF ExchangesInTurn
<1>9. TasksAgree'
  BY <1>1, <1>2, <1>3, <1>4, <1>6 DEF TasksAgree
<1>10. RegistryAgrees'
  <2>1. listed' = {d \in Conns : conn'[d] = "open"}
    BY <1>1, <1>2, <1>4 DEF RegistryAgrees
  <2>2. Registered' = Registered
    BY <1>2 DEF Registered
  <2> QED BY <1>1, <1>2, <1>4, <2>1, <2>2 DEF RegistryAgrees
<1>11. StreamsAgree'
  BY <1>1, <1>2, <1>3, <1>4, <1>6 DEF StreamsAgree
<1>12. ResponsesAreFramed'
  BY <1>2 DEF ServerInv, ResponsesAreFramed
<1> QED BY <1>3, <1>5, <1>8, <1>9, <1>10, <1>11, <1>12 DEF ServerInv, HTTPInv, CallsGoOn

\* Where a request may be delivered, nothing is unanswered or waits to be written.
LEMMA DeliveredFacts ==
  ASSUME ServerInv, NEW r \in Requests, Delivered(r)
  PROVE  /\ ConnOf[r] \in Conns /\ conn[ConnOf[r]] = "open" /\ reply[r] = "none"
         /\ sent[r] = "nothing" /\ call[r] = "none" /\ stream[r] = "off"
         /\ outbox[ConnOf[r]] = <<>>
         /\ \A d \in Conns : serving'[d] = IF d = ConnOf[r] THEN r ELSE serving[d]
         /\ serving' \in [Conns -> Requests \cup {NoRequest}]
         /\ \A q \in Requests : reply[q] # "none" /\ ConnOf[q] = ConnOf[r] =>
              sent[q] = "ended" /\ reply[q] # "pending"
<1>1. /\ HTTPInv /\ HTTPTypeOK /\ ExchangesInTurn /\ ResponsesAreFramed
      /\ ConnOf[r] \in Conns
  BY ConnsAssumption DEF ServerInv, HTTPInv
<1>2. /\ conn[ConnOf[r]] = "open" /\ serving[ConnOf[r]] = NoRequest /\ reply[r] = "none"
      /\ serving' = [serving EXCEPT ![ConnOf[r]] = r]
  BY DEF Delivered
<1>3. sent[r] = "nothing" /\ call[r] = "none" /\ stream[r] = "off"
  BY <1>1, <1>2 DEF ExchangesInTurn
<1>4. outbox[ConnOf[r]] = <<>>
  <2> DEFINE s == outbox[ConnOf[r]]
  <2>1. s \in Seq(Part)
    BY <1>1 DEF HTTPTypeOK
  <2>2. ASSUME s # <<>> PROVE FALSE
    <3>1. 1 \in DOMAIN s /\ s[1] \in Part
      BY <2>1, <2>2
    <3>2. s[1].request \in Requests
      BY <3>1 DEF Part
    <3>3. s[1].request = serving[ConnOf[r]]
      BY <1>1, <3>1 DEF ResponsesAreFramed
    <3> QED BY <1>2, <3>2, <3>3, NoRequestAssumption
  <2> QED BY <2>2
<1>5. \A q \in Requests : reply[q] # "none" /\ ConnOf[q] = ConnOf[r] =>
        sent[q] = "ended" /\ reply[q] # "pending"
  <2>1. ASSUME NEW q \in Requests, reply[q] # "none", ConnOf[q] = ConnOf[r]
        PROVE  sent[q] = "ended"
    BY <1>1, <1>2, <2>1, NoRequestAssumption DEF ExchangesInTurn
  <2> QED BY <1>1, <1>2, <2>1, PendingIsServed
<1> QED BY <1>1, <1>2, <1>3, <1>4, <1>5 DEF HTTPTypeOK

\* A completion request is read: its task is the connection's.
LEMMA ReadCompletionInv ==
  ASSUME ServerInv, NEW r \in Requests, ReadCompletion(r)
  PROVE  ServerInv' /\ [CoordinatorNext]_coordinatorVars
<1> DEFINE c == ConnOf[r]
<1>1. /\ CoordinatorInv /\ HTTPInv /\ HTTPTypeOK /\ TasksAgree /\ StreamsAgree
      /\ RegistryAgrees /\ ExchangesInTurn
  BY DEF ServerInv, HTTPInv
<1>2. /\ StartCall(r, registryDown)
      /\ UNCHANGED <<conn, sent, late, outbox, stream, emitted, registry, shutdown>>
  BY DEF ReadCompletion
<1>3. /\ c \in Conns /\ conn[c] = "open" /\ reply[r] = "none"
      /\ sent[r] = "nothing" /\ call[r] = "none" /\ stream[r] = "off"
      /\ outbox[c] = <<>>
      /\ \A d \in Conns : serving'[d] = IF d = c THEN r ELSE serving[d]
      /\ serving' \in [Conns -> Requests \cup {NoRequest}]
      /\ \A q \in Requests : reply[q] # "none" /\ ConnOf[q] = c =>
           sent[q] = "ended" /\ reply[q] # "pending"
  BY DeliveredFacts DEF ReadCompletion
<1>4. registryDown \in BOOLEAN
  BY <1>1 DEF HTTPTypeOK
<1>5. CoordinatorNext
  <2>1. StartCall(r, FALSE) \/ StartCall(r, TRUE)
    BY <1>2, <1>4
  <2> QED BY <2>1 DEF CoordinatorNext
<1>6. CoordinatorInv'
  BY <1>1, <1>5, StepFacts
<1>7. /\ \A q \in Requests : /\ call'[q] = IF q = r THEN "acquiring" ELSE call[q]
                             /\ reply'[q] = IF q = r THEN "pending" ELSE reply[q]
      /\ outcome' = outcome /\ cancelled \subseteq cancelled'
      /\ \A d \in Conns : activeTask'[d] = IF d = c THEN r ELSE activeTask[d]
  BY <1>1, <1>2 DEF ReadCompletion, StartCall, HTTPTypeOK, CoordinatorInv, CoordinatorTypeOK
<1>8. HTTPTypeOK'
  <2>1. /\ activeTask' \in [Conns -> Requests \cup {NoRequest}]
        /\ reply' \in [Requests -> {"none", "pending", "written", "ended"}]
    BY <1>1 DEF ReadCompletion, HTTPTypeOK
  <2> QED BY <1>1, <1>2, <1>3, <2>1 DEF HTTPTypeOK, registry, shutdown
<1>9. \A q \in Requests : ConnOf[q] \in Conns
  BY ConnsAssumption
<1> HIDE DEF c
<1>10. c = ConnOf[r]
  BY DEF c
<1>11. ExchangesInTurn'
  BY <1>1, <1>2, <1>3, <1>7, <1>9, <1>10, NoRequestAssumption DEF HTTPTypeOK, ExchangesInTurn
<1>12. TasksAgree'
  <2>1. ASSUME NEW q \in Requests, q # r, reply[q] = "pending" PROVE ConnOf[q] # c
    BY <1>3, <2>1
  <2>2. ASSUME NEW q \in Requests
        PROVE  /\ call'[q] \notin {"none", "returned"} => reply'[q] = "pending"
               /\ reply'[q] \in {"pending", "written"} => call'[q] # "none"
    BY <1>1, <1>7 DEF TasksAgree
  <2>3. ASSUME NEW q \in Requests, reply'[q] = "pending"
        PROVE  /\ conn'[ConnOf[q]] = "open" => activeTask'[ConnOf[q]] = q
               /\ conn'[ConnOf[q]] = "closed" => q \in cancelled'
    <3>1. CASE q = r
      BY <1>2, <1>3, <1>7, <1>10, <3>1
    <3>2. CASE q # r
      BY <1>1, <1>2, <1>7, <1>9, <2>1, <2>3, <3>2 DEF TasksAgree
    <3> QED BY <3>1, <3>2
  <2>4. ASSUME NEW d \in Conns, activeTask'[d] # NoRequest
        PROVE  call'[activeTask'[d]] # "none"
    <3>1. activeTask'[d] = IF d = c THEN r ELSE activeTask[d]
      BY <1>7
    <3>2. \A q \in Requests : call'[q] # "none" \/ (q # r /\ call[q] = "none")
      BY <1>7
    <3> QED BY <1>1, <2>4, <3>1, <3>2 DEF HTTPTypeOK, TasksAgree
  <2> QED BY <2>2, <2>3, <2>4 DEF TasksAgree
<1>13. RegistryAgrees'
  <2>1. listed # {}
    BY <1>1, <1>3 DEF RegistryAgrees
  <2> QED BY <1>1, <1>2, <2>1 DEF RegistryAgrees, registry, shutdown
<1>14. StreamsAgree'
  <2>1. ASSUME NEW q \in Requests, q # r, reply[q] = "pending" PROVE ConnOf[q] # c
    BY <1>3, <2>1
  <2> QED BY <1>1, <1>2, <1>3, <1>7, <1>10, <2>1 DEF StreamsAgree
<1>15. ResponsesAreFramed'
  BY <1>2, <1>3 DEF ServerInv, ResponsesAreFramed
<1> QED BY <1>5, <1>6, <1>8, <1>11, <1>12, <1>13, <1>14, <1>15 DEF ServerInv, HTTPInv

\* Any other request is answered at once.
LEMMA ReadOtherInv ==
  ASSUME ServerInv, NEW r \in Requests, ReadOther(r)
  PROVE  ServerInv'
<1> DEFINE c == ConnOf[r]
<1>1. /\ CoordinatorInv /\ HTTPInv /\ HTTPTypeOK /\ TasksAgree /\ StreamsAgree
      /\ RegistryAgrees /\ ExchangesInTurn /\ \A d \in Conns : FramedAt(d)
  BY FramedEverywhere DEF ServerInv, HTTPInv
<1>2. /\ Write(r, <<"json">>)
      /\ UNCHANGED <<coordinatorVars, conn, activeTask, sent, late, stream, emitted,
                     registry, shutdown>>
      /\ UNCHANGED <<call, outcome, cancelled>>
  BY DEF ReadOther, coordinatorVars
<1>3. /\ c \in Conns /\ conn[c] = "open" /\ reply[r] = "none"
      /\ sent[r] = "nothing" /\ call[r] = "none" /\ stream[r] = "off"
      /\ outbox[c] = <<>>
      /\ \A d \in Conns : serving'[d] = IF d = c THEN r ELSE serving[d]
      /\ serving' \in [Conns -> Requests \cup {NoRequest}]
      /\ \A q \in Requests : reply[q] # "none" /\ ConnOf[q] = c =>
           sent[q] = "ended" /\ reply[q] # "pending"
  BY DeliveredFacts DEF ReadOther
<1>4. CallsGoOn({})
  BY <1>1, <1>2, NothingGoesOn
<1>5. \A q \in Requests : reply'[q] = IF q = r THEN "ended" ELSE reply[q]
  BY <1>1 DEF ReadOther, HTTPTypeOK
<1>6. <<"json">> \in Seq(Kinds)
  BY DEF Kinds
<1>7. /\ outbox' \in [Conns -> Seq(Part)]
      /\ \A d \in Conns : d # c \/ conn[d] # "open" => outbox'[d] = outbox[d]
  BY <1>1, <1>2, <1>6, WriteFacts
<1>8. HTTPTypeOK'
  <2>1. reply' \in [Requests -> {"none", "pending", "written", "ended"}]
    BY <1>1 DEF ReadOther, HTTPTypeOK
  <2> QED BY <1>1, <1>2, <1>3, <1>7, <2>1 DEF HTTPTypeOK, registry, shutdown
<1>9. FramedAt(c)'
  <2>1. Len(<<"json">>) = 1 /\ <<"json">>[1] = "json" /\ \A j \in 1..1 : j = 1
    OBVIOUS
  <2>2. MayFollow(r, <<"json">>)
    BY <1>3, <2>1 DEF MayFollow
  <2>3. DOMAIN outbox[c] = {}
    BY <1>3
  <2> QED BY <1>1, <1>2, <1>3, <1>6, <2>2, <2>3, FramedWrite
<1>10. \A q \in Requests : ConnOf[q] \in Conns
  BY ConnsAssumption
<1> HIDE DEF c
<1>11. c = ConnOf[r]
  BY DEF c
<1>12. ResponsesAreFramed'
  <2>1. ASSUME NEW d \in Conns PROVE FramedAt(d)'
    <3>1. CASE d = c
      BY <1>9, <3>1
    <3>2. CASE d # c
      BY <1>1, <1>2, <1>3, <1>7, <3>2, FramedStays
    <3> QED BY <3>1, <3>2
  <2> QED BY <2>1 DEF ResponsesAreFramed, FramedAt
<1>13. ExchangesInTurn'
  <2>1. \A d \in Conns : conn[d] # "open" => outbox'[d] = <<>>
    BY <1>1, <1>7 DEF ExchangesInTurn
  <2>2. ASSUME NEW q \in Requests
        PROVE  /\ reply'[q] # "none" /\ sent'[q] # "ended" /\ conn'[ConnOf[q]] = "open"
                    => serving'[ConnOf[q]] = q
               /\ reply'[q] = "none" =>
                    sent'[q] = "nothing" /\ call'[q] = "none" /\ stream'[q] = "off"
               /\ reply'[q] # "none" => conn'[ConnOf[q]] # "new"
    <3>1. CASE q = r
      BY <1>2, <1>3, <1>5, <1>11, <3>1
    <3>2. CASE q # r
      BY <1>1, <1>2, <1>3, <1>5, <1>10, <3>2 DEF ExchangesInTurn
    <3> QED BY <3>1, <3>2
  <2>3. ASSUME NEW d \in Conns
        PROVE  serving'[d] # NoRequest =>
                 ConnOf[serving'[d]] = d /\ reply'[serving'[d]] # "none"
    <3>1. CASE d = c
      BY <1>3, <1>5, <1>11, <3>1
    <3>2. CASE d # c
      BY <1>1, <1>3, <1>5, <3>2 DEF HTTPTypeOK, ExchangesInTurn
    <3> QED BY <3>1, <3>2
  <2> QED BY <1>2, <2>1, <2>2, <2>3 DEF ExchangesInTurn
<1>14. TasksAgree'
  BY <1>1, <1>2, <1>3, <1>5 DEF HTTPTypeOK, TasksAgree
<1>15. RegistryAgrees'
  <2>1. Registered' = Registered
    BY <1>3, <1>5 DEF Registered
  <2> QED BY <1>1, <1>2, <2>1 DEF RegistryAgrees, registry, shutdown
<1>16. StreamsAgree'
  <2>1. ASSUME NEW q \in Requests, reply'[q] = "pending"
        PROVE  reply[q] = "pending" /\ outbox'[ConnOf[q]] = outbox[ConnOf[q]]
    <3>1. reply[q] = "pending" /\ q # r
      BY <1>5, <2>1
    <3>2. ConnOf[q] # c
      BY <1>3, <3>1
    <3> QED BY <1>7, <1>10, <3>1, <3>2
  <2> QED BY <1>1, <1>2, <2>1 DEF StreamsAgree
<1> QED BY <1>4, <1>8, <1>12, <1>13, <1>14, <1>15, <1>16 DEF ServerInv, HTTPInv, CallsGoOn

-----------------------------------------------------------------------------
(* The loop runs a write.                                                  *)

\* A part that goes on the wire is the served request's; it opens or ends the
\* response, and what stays in the outbox follows it.
LEMMA RunWriteInv ==
  ASSUME ServerInv, NEW c \in Conns, RunWrite(c), Head(outbox[c]).kind # "close"
  PROVE  ServerInv'
<1> DEFINE s == outbox[c]
           r == s[1].request
           last == s[1].kind \in {"done", "json"}
<1>1. /\ CoordinatorInv /\ HTTPInv /\ HTTPTypeOK /\ TasksAgree /\ StreamsAgree
      /\ RegistryAgrees /\ ExchangesInTurn /\ \A d \in Conns : FramedAt(d)
  BY FramedEverywhere DEF ServerInv, HTTPInv
<1>2. /\ s # <<>> /\ s \in Seq(Part) /\ Head(s) = s[1] /\ Len(s) \in Nat /\ Len(s) >= 1
      /\ DOMAIN s = 1..Len(s) /\ 1 \in DOMAIN s /\ s[1] \in Part
  BY <1>1 DEF RunWrite, HTTPTypeOK
<1>3. /\ sent' = [sent EXCEPT ![r] = IF last THEN "ended" ELSE "open"]
      /\ serving' = IF last THEN [serving EXCEPT ![c] = NoRequest] ELSE serving
      /\ outbox' = [outbox EXCEPT ![c] = Tail(s)]
      /\ UNCHANGED <<coordinatorVars, conn, activeTask, late, tasks, registry, shutdown>>
      /\ UNCHANGED <<call, outcome, cancelled, reply, stream>>
  BY <1>2 DEF RunWrite, coordinatorVars, tasks
<1>4. r \in Requests /\ s[1].kind \in {"head", "chunk", "done", "json", "close"}
  BY <1>2 DEF Part
<1>5. /\ serving[c] = r /\ ConnOf[r] = c /\ reply[r] # "none" /\ conn[c] = "open"
      /\ last => Len(s) = 1
      /\ \A i \in DOMAIN s : s[i].request = r
  <2>1. s[1].request = serving[c] /\ (last => 1 = Len(s))
    BY <1>1, <1>2 DEF FramedAt
  <2>2. \A i \in DOMAIN s : s[i].request = serving[c]
    BY <1>1 DEF FramedAt
  <2> QED BY <1>1, <1>2, <1>4, <2>1, <2>2, NoRequestAssumption DEF ExchangesInTurn
<1>6. /\ Tail(s) \in Seq(Part) /\ Len(Tail(s)) = Len(s) - 1
      /\ \A i \in 1..(Len(s) - 1) : Tail(s)[i] = s[i + 1] /\ i + 1 \in DOMAIN s
  BY <1>2
<1>7. /\ \A q \in Requests :
           sent'[q] = IF q = r THEN IF last THEN "ended" ELSE "open" ELSE sent[q]
      /\ \A d \in Conns : outbox'[d] = IF d = c THEN Tail(s) ELSE outbox[d]
      /\ \A d \in Conns : serving'[d] = IF d = c /\ last THEN NoRequest ELSE serving[d]
  BY <1>1, <1>3 DEF HTTPTypeOK
<1>8. HTTPTypeOK'
  <2>1. /\ sent' \in [Requests -> {"nothing", "open", "ended"}]
        /\ serving' \in [Conns -> Requests \cup {NoRequest}]
        /\ outbox' \in [Conns -> Seq(Part)]
    BY <1>1, <1>3, <1>6 DEF HTTPTypeOK
  <2> QED BY <1>1, <1>3, <2>1 DEF HTTPTypeOK, tasks, registry, shutdown
<1>9. CallsGoOn({})
  BY <1>1, <1>3, NothingGoesOn
<1>10. TasksAgree' /\ RegistryAgrees'
  BY <1>1, <1>3, <1>9, TasksStay, RegistryStays
<1> HIDE DEF s, r, last
<1>11. \A q \in Requests : ConnOf[q] \in Conns
  BY ConnsAssumption
<1>12. ExchangesInTurn'
  <2>1. ASSUME NEW q \in Requests, reply'[q] # "none", sent'[q] # "ended",
               conn'[ConnOf[q]] = "open"
        PROVE  serving'[ConnOf[q]] = q
    <3>1. CASE q = r
      BY <1>3, <1>5, <1>7, <2>1, <3>1
    <3>2. CASE q # r
      <4>1. serving[ConnOf[q]] = q
        BY <1>1, <1>3, <1>7, <2>1, <3>2 DEF ExchangesInTurn
      <4>2. ConnOf[q] # c
        BY <1>5, <3>2, <4>1
      <4> QED BY <1>7, <1>11, <4>1, <4>2
    <3> QED BY <3>1, <3>2
  <2>2. ASSUME NEW q \in Requests, reply'[q] = "none"
        PROVE  sent'[q] = "nothing" /\ call'[q] = "none" /\ stream'[q] = "off"
    BY <1>1, <1>3, <1>5, <1>7, <2>2 DEF ExchangesInTurn
  <2>3. ASSUME NEW d \in Conns
        PROVE  /\ conn'[d] # "open" => outbox'[d] = <<>>
               /\ serving'[d] # NoRequest => ConnOf[serving'[d]] = d /\ reply'[serving'[d]] # "none"
    BY <1>1, <1>3, <1>5, <1>7 DEF ExchangesInTurn
  <2>4. \A q \in Requests : reply'[q] # "none" => conn'[ConnOf[q]] # "new"
    BY <1>1, <1>3 DEF ExchangesInTurn
  <2> QED BY <2>1, <2>2, <2>3, <2>4 DEF ExchangesInTurn
<1>13. StreamsAgree'
  <2>1. ASSUME NEW q \in Requests, reply[q] = "pending", conn[ConnOf[q]] = "open"
        PROVE  LET t == outbox'[ConnOf[q]]
               IN  /\ \A i \in DOMAIN t : t[i].kind \in {"head", "chunk"}
                   /\ stream[q] = "off" => sent'[q] = "nothing" /\ t = <<>>
                   /\ stream[q] = "on" =>
                        sent'[q] = "open" \/ (sent'[q] = "nothing" /\ t # <<>> /\ t[1].kind = "head")
    <3>1. CASE ConnOf[q] = c
      <4>1. q = r /\ \A i \in DOMAIN s : s[i].kind \in {"head", "chunk"}
        BY <1>1, <1>5, <2>1, <3>1, PendingIsServed DEF s
      <4>2. ~last
        BY <1>2, <4>1 DEF last
      <4>3. sent'[q] = "open" /\ outbox'[ConnOf[q]] = Tail(s)
        BY <1>7, <1>11, <3>1, <4>1, <4>2
      <4>4. \A i \in DOMAIN Tail(s) : i \in 1..(Len(s) - 1)
        BY <1>6
      <4>5. \A i \in DOMAIN Tail(s) : Tail(s)[i].kind \in {"head", "chunk"}
        BY <1>6, <4>1, <4>4
      <4>6. stream[q] # "off"
        BY <1>1, <1>2, <2>1, <3>1 DEF StreamsAgree, s
      <4> QED BY <4>3, <4>5, <4>6
    <3>2. CASE ConnOf[q] # c
      <4>1. q # r /\ sent'[q] = sent[q] /\ outbox'[ConnOf[q]] = outbox[ConnOf[q]]
        BY <1>5, <1>7, <1>11, <3>2
      <4> QED BY <1>1, <2>1, <4>1 DEF StreamsAgree
    <3> QED BY <3>1, <3>2
  <2>2. \A q \in Requests :
          /\ outcome[q] = "completed" /\ q \in Streaming => stream[q] # "off"
          /\ reply[q] = "pending" => stream[q] # "stopped" /\ (stream[q] = "on" => q \in Streaming)
    BY <1>1 DEF StreamsAgree
  <2> QED BY <1>3, <2>1, <2>2 DEF StreamsAgree
<1>14. ASSUME NEW d \in Conns, d # c PROVE FramedAt(d)'
  <2>1. outbox'[d] = outbox[d] /\ serving'[d] = serving[d]
    BY <1>7, <1>14
  <2>2. ASSUME NEW i \in DOMAIN outbox[d]
        PROVE  sent'[outbox[d][i].request] = sent[outbox[d][i].request]
    <3>1. outbox[d] \in Seq(Part)
      BY <1>1 DEF HTTPTypeOK
    <3>2. outbox[d][i] \in Part
      BY <2>2, <3>1
    <3>3. outbox[d][i].request \in Requests
      BY <3>2 DEF Part
    <3>4. outbox[d][i].request = serving[d]
      BY <1>1, <2>2 DEF FramedAt
    <3>5. ConnOf[serving[d]] = d
      BY <1>1, <3>3, <3>4, NoRequestAssumption DEF ExchangesInTurn
    <3> QED BY <1>5, <1>7, <1>14, <3>3, <3>4, <3>5
  <2>3. FramedAt(d)
    BY <1>1
  <2> QED BY <2>1, <2>2, <2>3 DEF FramedAt
<1>15. FramedAt(c)'
  <2> DEFINE t == Tail(s)
  <2>1. outbox'[c] = t
    BY <1>7
  <2>2. CASE last
    <3>1. DOMAIN t = {}
      BY <1>2, <1>5, <1>6, <2>2
    <3> QED BY <2>1, <3>1 DEF FramedAt
  <2>3. CASE ~last
    <3>1. serving'[c] = r /\ sent'[r] = "open"
      BY <1>4, <1>5, <1>7, <2>3
    <3>2. ASSUME NEW i \in DOMAIN t
          PROVE  /\ t[i].request = r
                 /\ t[i].kind \notin {"head", "json"}
                 /\ t[i].kind \in {"done", "json", "close"} => i = Len(t)
      <4>1. i \in 1..(Len(s) - 1)
        BY <1>6, <3>2
      <4>2. t[i] = s[i + 1] /\ i + 1 \in DOMAIN s /\ i + 1 # 1 /\ Len(t) = Len(s) - 1
        BY <1>6, <4>1
      <4>3. /\ s[i + 1].request = r
            /\ s[i + 1].kind \in {"head", "json"} => i + 1 = 1
            /\ s[i + 1].kind \in {"done", "json", "close"} => i + 1 = Len(s)
        BY <1>1, <1>5, <4>2 DEF FramedAt, s
      <4> QED BY <1>2, <4>1, <4>2, <4>3
    <3> HIDE DEF t
    <3> QED BY <2>1, <3>1, <3>2 DEF FramedAt
  <2> QED BY <2>2, <2>3
<1>16. ResponsesAreFramed'
  BY <1>14, <1>15 DEF ResponsesAreFramed, FramedAt
<1> QED BY <1>8, <1>9, <1>10, <1>12, <1>13, <1>16 DEF ServerInv, HTTPInv, CallsGoOn

LEMMA ConnectionClosesInv ==
  ASSUME ServerInv, NEW c \in Conns,
         ClientCloses(c) \/ (RunWrite(c) /\ Head(outbox[c]).kind = "close")
  PROVE  ServerInv' /\ [CoordinatorNext]_coordinatorVars
<1>1. CloseConnection(c) /\ UNCHANGED <<stage, closing, awaiting>>
  BY DEF ClientCloses, RunWrite, shutdown
<1>2. conn[c] = "open"
  BY DEF ClientCloses, RunWrite, ServerInv, HTTPInv, ExchangesInTurn
<1> QED BY <1>1, <1>2, CloseInv

-----------------------------------------------------------------------------
(* The steps together.                                                     *)

\* At the start nothing is accepted, asked or registered.
LEMMA ServerInitInv == HTTPInit => ServerInv
<1> SUFFICES ASSUME HTTPInit PROVE ServerInv
  OBVIOUS
<1>1. CoordinatorInv
  BY InitInv DEF HTTPInit
<1>2. HTTPTypeOK
  <2>1. <<>> \in Seq(Part) /\ 0 \in 0..MaxEvents
    BY MaxEventsAssumption
  <2> QED BY <2>1 DEF HTTPInit, HTTPTypeOK, Stages
<1>3. \A r \in Requests : ConnOf[r] \in Conns
  BY ConnsAssumption
<1>4. ExchangesInTurn /\ StreamsAgree /\ TasksAgree
  <2>1. ExchangesInTurn
    BY <1>3 DEF HTTPInit, CoordinatorInit, ExchangesInTurn
  <2>2. StreamsAgree
    BY DEF HTTPInit, CoordinatorInit, StreamsAgree
  <2>3. TasksAgree
    BY DEF HTTPInit, CoordinatorInit, TasksAgree
  <2> QED BY <2>1, <2>2, <2>3
<1>5. RegistryAgrees
  BY DEF HTTPInit, RegistryAgrees
<1>6. ResponsesAreFramed
  BY DEF HTTPInit, ResponsesAreFramed
<1> QED BY <1>1, <1>2, <1>4, <1>5, <1>6 DEF ServerInv, HTTPInv

LEMMA ServerNextInv ==
  ASSUME ServerInv, [HTTPNext]_vars
  PROVE  ServerInv'
<1>1. CASE UNCHANGED vars
  <2>1. /\ CoordinatorInv /\ HTTPInv /\ HTTPTypeOK
        /\ UNCHANGED <<coordinatorVars, exchanges, outbox, tasks, registry, shutdown>>
    BY <1>1 DEF vars, httpVars, ServerInv, HTTPInv
  <2>2. CallsGoOn({})
    BY <2>1, NothingGoesOn
  <2>3. HTTPTypeOK'
    BY <2>1 DEF HTTPTypeOK, exchanges, tasks, registry, shutdown
  <2>4. RegistryAgrees'
    BY <2>1, RegistryStays DEF exchanges, tasks
  <2> QED BY <2>1, <2>2, <2>3, <2>4, CoordinatorAlone
<1>2. ASSUME NEW c \in Conns, Accept(c) \/ ClientCloses(c) \/ RunWrite(c) PROVE ServerInv'
  BY <1>2, AcceptInv, ConnectionClosesInv, RunWriteInv
<1>3. ASSUME NEW r \in Requests, ReadCompletion(r) \/ ReadOther(r) \/ Ping(r) PROVE ServerInv'
  BY <1>3, ReadCompletionInv, ReadOtherInv, PingInv
<1>4. ASSUME NEW r \in Requests, TaskStep(r) \/ EmitEvent(r) \/ LeaveLine(r) PROVE ServerInv'
  BY <1>4, AcquireModelInv, RunStepInv, RespondInv, EndTaskInv, EmitEventInv DEF TaskStep
<1>5. CASE DrainCoordinator \/ ShutdownStep
  BY <1>5, DrainInv, ShutdownMarksInv, CancelTasksInv, CloseNextInv DEF ShutdownStep
<1> QED BY <1>1, <1>2, <1>3, <1>4, <1>5 DEF HTTPNext

\* Whatever the front end does to the coordinator is one of the coordinator's
\* own steps: it cancels only calls that were made, and calls run once.
LEMMA DrivesCoordinator ==
  ASSUME ServerInv, [HTTPNext]_vars
  PROVE  [CoordinatorNext]_coordinatorVars
<1>1. CASE UNCHANGED vars
  BY <1>1 DEF vars
<1>2. ASSUME NEW c \in Conns, Accept(c) \/ ClientCloses(c) \/ RunWrite(c)
      PROVE  [CoordinatorNext]_coordinatorVars
  <2>1. CASE Accept(c)
    BY <2>1 DEF Accept
  <2>2. CASE ClientCloses(c) \/ (RunWrite(c) /\ Head(outbox[c]).kind = "close")
    BY <2>2, ConnectionClosesInv
  <2>3. CASE RunWrite(c) /\ Head(outbox[c]).kind # "close"
    <3>1. UNCHANGED coordinatorVars
      BY <2>3 DEF RunWrite
    <3> QED BY <3>1
  <2> QED BY <1>2, <2>1, <2>2, <2>3
<1>3. ASSUME NEW r \in Requests, ReadCompletion(r) \/ ReadOther(r) \/ Ping(r)
      PROVE  [CoordinatorNext]_coordinatorVars
  BY <1>3, ReadCompletionInv DEF ReadOther, Ping
<1>4. ASSUME NEW r \in Requests, TaskStep(r) \/ EmitEvent(r) \/ LeaveLine(r)
      PROVE  [CoordinatorNext]_coordinatorVars
  <2>1. CASE AcquireModel(r) \/ EndOperation(r) \/ ReturnFromRun(r) \/ LeaveLine(r)
    <3>1. CoordinatorNext
      BY <2>1 DEF AcquireModel, EndOperation, ReturnFromRun, LeaveLine, CoordinatorNext,
         CoordinatorStep
    <3> QED BY <3>1
  <2>2. CASE BeginOperation(r) \/ Respond(r) \/ EndTask(r) \/ EmitEvent(r)
    <3>1. UNCHANGED coordinatorVars
      BY <2>2 DEF BeginOperation, Respond, EndTask, EmitEvent
    <3> QED BY <3>1
  <2> QED BY <1>4, <2>1, <2>2 DEF TaskStep
<1>5. CASE DrainCoordinator
  BY <1>5 DEF DrainCoordinator, CoordinatorNext
<1>6. CASE ShutdownStep
  <2>1. CASE BeginCloseAll \/ FinishShutdown
    BY <2>1 DEF BeginCloseAll, FinishShutdown
  <2> QED BY <1>6, <2>1, CancelTasksInv, CloseNextInv DEF ShutdownStep
<1> QED BY <1>1, <1>2, <1>3, <1>4, <1>5, <1>6 DEF HTTPNext

-----------------------------------------------------------------------------
(* Theorems.                                                               *)

\* The event loop, the tasks, the registry and shutdown agree in every
\* reachable state, and so do the coordinator's own parts.
THEOREM ServerInvariant == HTTPSpec => []ServerInv
BY ServerInitInv, ServerNextInv, PTL DEF HTTPSpec

\* What HTTPInv collects: exchanges take turns on a connection, streams begin
\* before they end, every running task can be cancelled by its connection, and
\* shutdown has accounted for whatever is still open.
THEOREM FrontEndAgrees == HTTPSpec => []HTTPInv
<1>1. ServerInv => HTTPInv
  BY DEF ServerInv
<1> QED BY <1>1, ServerInvariant, PTL

\* What is queued for a connection is one response, with one head, one end and
\* nothing of another exchange (startStream, finishStream, handleAsyncError).
THEOREM QueuedPartsAreOneResponse == HTTPSpec => []ResponsesAreFramed
<1>1. ServerInv => ResponsesAreFramed
  BY DEF ServerInv
<1> QED BY <1>1, ServerInvariant, PTL

\* A generation whose client is gone is cancelled (channelInactive, closeAll,
\* and run's own start when the registry is already down).
THEOREM NoGenerationIsOrphaned == HTTPSpec => []NoOrphans
<1>1. ServerInv => NoOrphans
  BY DEF ServerInv, HTTPInv, TasksAgree, NoOrphans
<1> QED BY <1>1, ServerInvariant, PTL

\* When shutdown returns, the server is at rest: no connection is open, no task
\* is left, and the model is free.
THEOREM ServerIsAtRest == HTTPSpec => []ShutdownQuiesces
<1>1. ServerInv => ShutdownQuiesces
  <2> SUFFICES ASSUME ServerInv, stage = "done"
               PROVE  Registered = {} /\ ~active /\ \A c \in Conns : conn[c] # "open"
    BY DEF ShutdownQuiesces
  <2>1. Registered = {} /\ listed = {} /\ listed = {c \in Conns : conn[c] = "open"}
    BY DEF ServerInv, HTTPInv, RegistryAgrees
  <2>2. ASSUME NEW r \in Requests PROVE r \notin Holders
    <3>1. reply[r] # "pending"
      BY <2>1 DEF Registered
    <3> QED BY <3>1 DEF ServerInv, HTTPInv, TasksAgree, Holders, Holding
  <2>3. ~active
    BY <2>2 DEF ServerInv, HTTPInv, CoordinatorInv, OneOwner, Holders
  <2> QED BY <2>1, <2>3
<1> QED BY <1>1, ServerInvariant, PTL

\* The coordinator inside the server behaves as ServerCoordinator describes it,
\* so its theorems hold there: the front end starts each call once and cancels
\* only calls that were started.
THEOREM ServerRunsCoordinator == HTTPSpec => CoordinatorSpec
<1>1. HTTPInit => CoordinatorInit
  BY DEF HTTPInit
<1>2. ServerInv /\ [HTTPNext]_vars => [CoordinatorNext]_coordinatorVars
  BY DrivesCoordinator
<1> QED BY <1>1, <1>2, ServerInvariant, PTL DEF HTTPSpec, CoordinatorSpec

\* Behind HTTP too, requests are served as by the plain bounded queue: one at a
\* time and in order, through closed connections, heartbeats and shutdown.
THEOREM ServerIsSerialQueue == HTTPSpec => ImplementsSerialQueue
BY ServerRunsCoordinator, CoordinatorIsSerialQueue, PTL
=============================================================================
