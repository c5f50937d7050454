----------------------------- MODULE SerialQueue -----------------------------
(***************************************************************************)
(* What the server promises about generations: one at a time, in the order *)
(* in which the calls were queued, with a bounded queue that a call may    *)
(* leave early.  Nobody overtakes a queued call.                           *)
(***************************************************************************)
EXTENDS SequencesExt

CONSTANTS Requests, QueueLimit

VARIABLES
  holders,  \* the calls that own the model: at most one
  queue     \* the calls that wait for it, in order

vars == <<holders, queue>>

Init == holders = {} /\ queue = <<>>

Enter(r) ==
  /\ holders = {} /\ queue = <<>>
  /\ holders' = {r}
  /\ UNCHANGED queue

Enqueue(r) ==
  /\ holders # {} /\ Len(queue) < QueueLimit
  /\ queue' = Append(queue, r)
  /\ UNCHANGED holders

\* The holder leaves and the next call in line holds the model at once.
Leave ==
  /\ holders # {}
  /\ \/ queue = <<>> /\ holders' = {} /\ UNCHANGED queue
     \/ queue # <<>> /\ holders' = {Head(queue)} /\ queue' = Tail(queue)

\* One call gives up waiting, the others keep their order; or all are sent away.
Abandon ==
  /\ UNCHANGED holders
  /\ \/ \E i \in DOMAIN queue : queue' = RemoveAt(queue, i)
     \/ queue' = <<>>

Next ==
  \/ \E r \in Requests : Enter(r) \/ Enqueue(r)
  \/ Leave
  \/ Abandon

Spec == Init /\ [][Next]_vars
=============================================================================
