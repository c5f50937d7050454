-------------------------- MODULE ServerCoordinator --------------------------
(***************************************************************************)
(* The actor that serializes generations (ServerInference.swift).  Each    *)
(* request makes one call of run; a call may be cancelled at any time.     *)
(* A step is what runs on the actor between two suspensions, so a resumed  *)
(* continuation and the cancellation handler's own task take their turn    *)
(* later than the step that caused them.                                   *)
(***************************************************************************)
EXTENDS SequencesExt

CONSTANTS
  Requests,   \* calls of run
  QueueLimit  \* waiters the coordinator accepts

ASSUME RequestsAssumption == IsFiniteSet(Requests)
ASSUME QueueLimitAssumption == QueueLimit \in Nat

VARIABLES
  active,        \* a generation owns the model
  waiters,       \* suspended calls in line
  shuttingDown,
  call,          \* per request: where its call of run is
  outcome,       \* per request: what run will return or throw
  cancelled,     \* requests whose task is cancelled
  cancelJobs     \* requests with a "cancelWaiter" task that has not run

coordinatorVars ==
  <<active, waiters, shuttingDown, call, outcome, cancelled, cancelJobs>>

Calls == {"none", "acquiring", "waiting", "resumed", "operating", "releasing",
          "returned"}
Outcomes == {"none", "completed", "failed", "cancelled", "queueFull"}

\* Calls that own the model: granted, generating, or about to release.
Holding == {"resumed", "operating", "releasing"}
Holders == {r \in Requests : call[r] \in Holding}

CoordinatorInit ==
  /\ active = FALSE /\ waiters = <<>> /\ shuttingDown = FALSE
  /\ call = [r \in Requests |-> "none"]
  /\ outcome = [r \in Requests |-> "none"]
  /\ cancelled = {} /\ cancelJobs = {}

-----------------------------------------------------------------------------

\* A task that calls run is started, in some cases already cancelled.
StartCall(r, alreadyCancelled) ==
  /\ call[r] = "none"
  /\ call' = [call EXCEPT ![r] = "acquiring"]
  /\ cancelled' = IF alreadyCancelled THEN cancelled \cup {r} ELSE cancelled
  /\ UNCHANGED <<active, waiters, shuttingDown, outcome, cancelJobs>>

\* Task.cancel.  A suspended call has a handler, which starts a task of its own.
HasHandler(r) == call[r] \in {"waiting", "resumed"}

\* Mutant: cancelling starts no task.
CancelQuietly(R) ==
  /\ cancelled' = cancelled \cup R
  /\ UNCHANGED <<active, waiters, shuttingDown, call, outcome, cancelJobs>>

Cancel(R) ==
  /\ cancelled' = cancelled \cup R
  /\ cancelJobs' = cancelJobs \cup {r \in R \ cancelled : HasHandler(r)}
  /\ UNCHANGED <<active, waiters, shuttingDown, call, outcome>>

Refuse(r, o) ==
  /\ call' = [call EXCEPT ![r] = "returned"]
  /\ outcome' = [outcome EXCEPT ![r] = o]
  /\ UNCHANGED <<active, waiters, cancelJobs>>

\* A request that would wait; the caller's onQueued runs in the same step.
CanQueue(r) ==
  /\ r \notin cancelled /\ ~shuttingDown
  /\ active /\ Len(waiters) < QueueLimit

\* Mutant: a new waiter goes to the front of the line.
AcquireInFront(r) ==
  /\ call[r] = "acquiring"
  /\ \/ (r \in cancelled \/ shuttingDown) /\ Refuse(r, "cancelled")
     \/ /\ r \notin cancelled /\ ~shuttingDown /\ ~active
        /\ active' = TRUE
        /\ call' = [call EXCEPT ![r] = "operating"]
        /\ UNCHANGED <<waiters, outcome, cancelJobs>>
     \/ /\ CanQueue(r)
        /\ waiters' = <<r>> \o waiters
        /\ call' = [call EXCEPT ![r] = "waiting"]
        /\ UNCHANGED <<active, outcome, cancelJobs>>
  /\ UNCHANGED <<shuttingDown, cancelled>>

Acquire(r) ==
  /\ call[r] = "acquiring"
  /\ \/ (r \in cancelled \/ shuttingDown) /\ Refuse(r, "cancelled")
     \/ /\ r \notin cancelled /\ ~shuttingDown /\ ~active
        /\ active' = TRUE
        /\ call' = [call EXCEPT ![r] = "operating"]
        /\ UNCHANGED <<waiters, outcome, cancelJobs>>
     \/ /\ CanQueue(r)
        /\ waiters' = Append(waiters, r)
        /\ call' = [call EXCEPT ![r] = "waiting"]
        /\ UNCHANGED <<active, outcome, cancelJobs>>
     \/ /\ r \notin cancelled /\ ~shuttingDown /\ active
        /\ Len(waiters) >= QueueLimit
        /\ Refuse(r, "queueFull")
  /\ UNCHANGED <<shuttingDown, cancelled>>

\* Mutant: the waiter is resumed and stays in line.
CancelWaiterInPlace(r) ==
  /\ r \in cancelJobs
  /\ cancelJobs' = cancelJobs \ {r}
  /\ IF r \in Range(waiters)
     THEN /\ call' = [call EXCEPT ![r] = "returned"]
          /\ outcome' = [outcome EXCEPT ![r] = "cancelled"]
     ELSE UNCHANGED <<call, outcome>>
  /\ UNCHANGED <<active, waiters, shuttingDown, cancelled>>

\* The cancelWaiter task: a waiter that is still in line is resumed with an
\* error, one that was granted in the meantime is left alone.
CancelWaiter(r) ==
  /\ r \in cancelJobs
  /\ cancelJobs' = cancelJobs \ {r}
  /\ \/ /\ r \notin Range(waiters)
        /\ UNCHANGED <<waiters, call, outcome>>
     \/ \E i \in DOMAIN waiters :
          /\ waiters[i] = r
          /\ waiters' = RemoveAt(waiters, i)
          /\ call' = [call EXCEPT ![r] = "returned"]
          /\ outcome' = [outcome EXCEPT ![r] = "cancelled"]
  /\ UNCHANGED <<active, shuttingDown, cancelled>>

\* release() and the return of the call that releases: the model passes to
\* the first waiter without becoming free.
Release(r) ==
  \/ /\ waiters = <<>>
     /\ active' = FALSE
     /\ call' = [call EXCEPT ![r] = "returned"]
     /\ UNCHANGED waiters
  \/ /\ waiters # <<>>
     /\ call' = [call EXCEPT ![r] = "returned", ![Head(waiters)] = "resumed"]
     /\ waiters' = Tail(waiters)
     /\ UNCHANGED active

\* Mutant: a cancelled one throws without giving the model back.
ResumeLosingSlot(r) ==
  /\ call[r] = "resumed"
  /\ \/ /\ r \in cancelled
        /\ outcome' = [outcome EXCEPT ![r] = "cancelled"]
        /\ call' = [call EXCEPT ![r] = "returned"]
        /\ UNCHANGED <<active, waiters>>
     \/ /\ r \notin cancelled
        /\ call' = [call EXCEPT ![r] = "operating"]
        /\ UNCHANGED <<active, waiters, outcome>>
  /\ UNCHANGED <<shuttingDown, cancelled, cancelJobs>>

\* A granted waiter continues in acquire: cancelled in the meantime, it gives
\* the model back.
Resume(r) ==
  /\ call[r] = "resumed"
  /\ \/ /\ r \in cancelled
        /\ outcome' = [outcome EXCEPT ![r] = "cancelled"]
        /\ Release(r)
     \/ /\ r \notin cancelled
        /\ call' = [call EXCEPT ![r] = "operating"]
        /\ UNCHANGED <<active, waiters, outcome>>
  /\ UNCHANGED <<shuttingDown, cancelled, cancelJobs>>

\* The operation returns or throws, cancelled or not.
FinishOperation(r) ==
  /\ call[r] = "operating"
  /\ \E o \in {"completed", "failed"} : outcome' = [outcome EXCEPT ![r] = o]
  /\ call' = [call EXCEPT ![r] = "releasing"]
  /\ UNCHANGED <<active, waiters, shuttingDown, cancelled, cancelJobs>>

\* run's defer, back on the actor.
LeaveRun(r) ==
  /\ call[r] = "releasing"
  /\ Release(r)
  /\ UNCHANGED <<shuttingDown, outcome, cancelled, cancelJobs>>

ShutdownCoordinator ==
  /\ shuttingDown' = TRUE
  /\ call' = [r \in Requests |->
       IF r \in Range(waiters) THEN "returned" ELSE call[r]]
  /\ outcome' = [r \in Requests |->
       IF r \in Range(waiters) THEN "cancelled" ELSE outcome[r]]
  /\ waiters' = <<>>
  /\ UNCHANGED <<active, cancelled, cancelJobs>>

CoordinatorStep(r) ==
  Acquire(r) \/ CancelWaiter(r) \/ Resume(r) \/ LeaveRun(r)

Called == {r \in Requests : call[r] # "none"}

CoordinatorNext ==
  \/ \E r \in Requests :
       \/ StartCall(r, FALSE) \/ StartCall(r, TRUE)
       \/ CoordinatorStep(r)
       \/ FinishOperation(r)
  \/ \E R \in SUBSET Called : Cancel(R)
  \/ ShutdownCoordinator

CoordinatorSpec == CoordinatorInit /\ [][CoordinatorNext]_coordinatorVars

\* The actor runs every job that is enqueued on it.  Nothing is assumed of the
\* operations.
ActorFairness ==
  \A r \in Requests :
    /\ WF_coordinatorVars(Acquire(r) \/ Resume(r) \/ LeaveRun(r))
    /\ WF_coordinatorVars(CancelWaiter(r))

FairCoordinatorSpec == CoordinatorSpec /\ ActorFairness

-----------------------------------------------------------------------------
(* Properties.                                                             *)

CoordinatorTypeOK ==
  /\ active \in BOOLEAN /\ shuttingDown \in BOOLEAN
  /\ waiters \in Seq(Requests)
  /\ call \in [Requests -> Calls]
  /\ outcome \in [Requests -> Outcomes]
  /\ cancelled \subseteq Requests /\ cancelJobs \subseteq Requests

\* "runs one generation": the model has at most one owner, and active says
\* exactly whether it has one, so it is never lost by an owner that is gone.
OneOwner ==
  /\ \A r, q \in Holders : r = q
  /\ active <=> Holders # {}

\* The continuations in line are those of the suspended calls, each once: none
\* is resumed twice, none is forgotten, and none waits for a free model.
WaitersAreSuspended ==
  /\ Range(waiters) = {r \in Requests : call[r] = "waiting"}
  /\ IsInjective(waiters)
  /\ waiters # <<>> => active

\* What the coordinator's proofs carry along: the above, types, the bound on
\* the line, and that nobody waits after shutdown.
CoordinatorInv ==
  /\ CoordinatorTypeOK /\ OneOwner /\ WaitersAreSuspended
  /\ Len(waiters) <= QueueLimit
  /\ shuttingDown => waiters = <<>>

Queue == INSTANCE SerialQueue WITH holders <- Holders, queue <- waiters

\* The actor, with its cancellation jobs and its hand-over between two steps,
\* serves as the plain bounded queue does: in order, nobody overtaking.
ImplementsSerialQueue == Queue!Spec

\* A cancelled call in line returns, also behind a generation that never ends.
CancelledWaiterReturns ==
  \A r \in Requests :
    call[r] = "waiting" /\ r \in cancelled ~> call[r] = "returned"

\* If operations end, every call of run returns: no grant is lost between
\* release, cancellation and shutdown.
EveryCallReturns ==
  (\A r \in Requests : []<>(call[r] # "operating"))
    => \A r \in Requests : call[r] = "acquiring" ~> call[r] = "returned"
=============================================================================
