----------------------------- MODULE RangeDownload -----------------------------
(***************************************************************************)
(* The download of a range, which InstallTransaction takes in one step:    *)
(* the retry loop (withRemoteRetries), the transfer with its delegate      *)
(* (RemoteRangeTransfer), and its cancellation from another thread, inside *)
(* the installation.                                                       *)
(*                                                                         *)
(* A range is a number of data callbacks.  URLSession and the server are   *)
(* external: any response, error or end, and callbacks one at a time.      *)
(* Redirects end in a response or a rejection.  Errors are retryable or    *)
(* fatal, as RemoteRetryPolicy.isRetryable says.                           *)
(***************************************************************************)
EXTENDS InstallTransaction

CONSTANTS
  Attempts,  \* RemoteRetryPolicy.attempts
  Parts      \* data callbacks that make a range

ASSUME DownloadAssumption == Attempts \in Nat \ {0} /\ Parts \in Nat \ {0}

VARIABLES
  call,       \* copyBatch's call of the download: place, attempt, cancelled?
  transfer,   \* RemoteRangeTransferDelegate and the session's task
  cancelling, \* place of the thread that runs onCancel
  temp        \* <partial>/.range.tmp: the parts it holds, or Absent

downloadVars == <<call, transfer, cancelling, temp>>
allVars == <<vars, downloadVars>>

Absent == -1

NoCall == [pc |-> "none", attempt |-> 0, cancelled |-> FALSE]

\* rejection, the session's error and the result are "none" or:
Errors == {"cancelled", "retryable", "fatal"}

NoTransfer == [task |-> "none", rejection |-> "none", error |-> "none",
               accepted |-> FALSE, received |-> 0, result |-> "none"]

DownloadInit ==
  /\ Init
  /\ call = NoCall /\ transfer = NoTransfer /\ cancelling = "none"
  /\ temp = Absent

Downloads(p) == run[p].pc = "copy" /\ Missing(p) # {}

At(pc) == call.pc = pc
Goto(pc) == call' = [call EXCEPT !.pc = pc]

-----------------------------------------------------------------------------
(* The caller: copyBatch and withRemoteRetries.                            *)

\* A file left by an earlier run, or by an earlier range, goes first.
BeginDownload(p) ==
  /\ Downloads(p) /\ At("none")
  /\ call' = [NoCall EXCEPT !.pc = "attempt", !.attempt = 1]
  /\ temp' = Absent
  /\ UNCHANGED <<vars, transfer, cancelling>>

\* Task.checkCancellation before each attempt.
BeginAttempt ==
  /\ At("attempt")
  /\ Goto(IF call.cancelled THEN "threw" ELSE "open")
  /\ UNCHANGED <<vars, transfer, cancelling, temp>>

\* The delegate opens the file exclusively.
OpenFile ==
  /\ At("open")
  /\ IF temp = Absent THEN temp' = 0 /\ Goto("handler")
                      ELSE temp' = temp /\ Goto("threw")
  /\ transfer' = NoTransfer
  /\ UNCHANGED <<vars, cancelling>>

\* withTaskCancellationHandler: of a task that is cancelled, at once.
InstallHandler ==
  /\ At("handler")
  /\ Goto("start")
  /\ cancelling' = IF call.cancelled THEN "lock" ELSE "none"
  /\ UNCHANGED <<vars, transfer, temp>>

\* Mutant: whether the transfer is rejected already is not looked at.
StartAlways ==
  /\ At("start")
  /\ transfer' = [transfer EXCEPT !.task = "suspended"]
  /\ Goto("resume")
  /\ UNCHANGED <<vars, cancelling, temp>>

\* start, under the lock: the task is made, and cancelled if it is too late.
Start ==
  /\ At("start")
  /\ transfer' = [transfer EXCEPT !.task = "suspended"]
  /\ Goto(IF transfer.rejection # "none" THEN "drop" ELSE "resume")
  /\ UNCHANGED <<vars, cancelling, temp>>

\* URLSessionTask.cancel and resume; a cancelled task does not run again.
Cancelled(t) ==
  IF t.task \in {"suspended", "running"}
  THEN [t EXCEPT !.task = "ending", !.error = "cancelled"] ELSE t
Resumed(t) == IF t.task = "suspended" THEN [t EXCEPT !.task = "running"] ELSE t

ResumeTask ==
  /\ call.pc \in {"resume", "drop"}
  /\ transfer' = IF At("resume") THEN Resumed(transfer) ELSE Cancelled(transfer)
  /\ Goto("waiting")
  /\ UNCHANGED <<vars, cancelling, temp>>

\* An attempt failed: the last one, a fatal error, or a server that asks for
\* too long a delay ends the download.
EndAttempt ==
  /\ At("returned") /\ transfer.result # "success"
  /\ \/ call.attempt < Attempts /\ transfer.result = "retryable" /\ Goto("backoff")
     \/ Goto("threw")
  /\ UNCHANGED <<vars, transfer, cancelling, temp>>

\* The sleep, which throws when it is cancelled; a delay of zero is none.
Backoff ==
  /\ At("backoff")
  /\ \/ call.cancelled /\ Goto("threw")
     \/ call' = [call EXCEPT !.pc = "attempt", !.attempt = @ + 1]
  /\ UNCHANGED <<vars, transfer, cancelling, temp>>

\* The range is there; copyBytes checks for cancellation before it writes.
EndDownload ==
  /\ At("returned") /\ transfer.result = "success"
  /\ Goto(IF call.cancelled THEN "threw" ELSE "got")
  /\ UNCHANGED <<vars, transfer, cancelling, temp>>

-----------------------------------------------------------------------------
(* Cancellation, by another thread: the task, then its handler.            *)

HandlerIsInstalled == call.pc \in {"start", "resume", "drop", "waiting"}

CancelInstall ==
  /\ call.pc \notin {"none", "got", "threw"} /\ ~call.cancelled
  /\ call' = [call EXCEPT !.cancelled = TRUE]
  /\ cancelling' = IF HandlerIsInstalled THEN "lock" ELSE "none"
  /\ UNCHANGED <<vars, transfer, temp>>

RejectAs(t, error) == [t EXCEPT !.rejection = IF @ = "none" THEN error ELSE @]

\* cancel, under the lock; the task is cancelled after it.
OnCancel ==
  /\ cancelling = "lock"
  /\ transfer' = RejectAs(transfer, "cancelled")
  /\ cancelling' = IF transfer.task \in {"none", "over"} THEN "none" ELSE "task"
  /\ UNCHANGED <<vars, call, temp>>

CancelTask ==
  /\ cancelling = "task"
  /\ transfer' = Cancelled(transfer)
  /\ cancelling' = "none"
  /\ UNCHANGED <<vars, call, temp>>

-----------------------------------------------------------------------------
(* The delegate's callbacks, in the order of its queue.                    *)

DelegateStep == UNCHANGED <<vars, call, cancelling>>

\* A response is accepted, or refused by its status or its headers.
ReceiveResponse ==
  /\ transfer.task = "running" /\ ~transfer.accepted
  /\ \/ /\ transfer.rejection = "none"
        /\ transfer' = [transfer EXCEPT !.accepted = TRUE]
     \/ \E error \in {"retryable", "fatal"} :
          transfer' = Cancelled(RejectAs(transfer, error))
  /\ UNCHANGED temp
  /\ DelegateStep

ReceiveData ==
  /\ transfer.task = "running" /\ transfer.accepted
  /\ transfer.rejection = "none" /\ transfer.received < Parts
  /\ transfer' = [transfer EXCEPT !.received = @ + 1]
  /\ temp' = transfer.received + 1
  /\ DelegateStep

\* More than was asked for, or a part that cannot be written.
RefuseData ==
  /\ transfer.task = "running" /\ transfer.accepted
  /\ transfer.rejection = "none"
  /\ transfer' = Cancelled(RejectAs(transfer, "fatal"))
  /\ UNCHANGED temp
  /\ DelegateStep

\* The connection ends, is lost, times out or fails.
ConnectionEnds ==
  /\ transfer.task = "running"
  /\ \E error \in {"none", "retryable", "fatal"} :
       transfer' = [transfer EXCEPT !.task = "ending", !.error = error]
  /\ UNCHANGED temp
  /\ DelegateStep

\* Mutant: a body that ends early is taken for the whole.
OutcomeOfAny(t) ==
  IF t.rejection # "none" THEN t.rejection
  ELSE IF t.error # "none" THEN t.error
  ELSE IF ~t.accepted THEN "fatal" ELSE "success"

\* A body that ends early is a retryable error.
Outcome(t) ==
  IF t.rejection # "none" THEN t.rejection
  ELSE IF t.error # "none" THEN t.error
  ELSE IF ~t.accepted THEN "fatal"
  ELSE IF t.received # Parts THEN "retryable" ELSE "success"

Complete ==
  /\ transfer.task = "ending"
  /\ transfer' = [transfer EXCEPT !.task = "closing", !.result = Outcome(transfer)]
  /\ UNCHANGED temp
  /\ DelegateStep

\* finish: close and remove the file (the removal of a file of its own does not
\* fail), then resume the caller, which leaves the cancellation handler when
\* that has run, and drops the delegate.
CloseFile ==
  /\ transfer.task = "closing"
  /\ transfer' = [transfer EXCEPT !.task = "over"]
  /\ temp' = IF transfer.result = "success" THEN temp ELSE Absent
  /\ DelegateStep

ResumeCaller ==
  /\ At("waiting") /\ transfer.task = "over" /\ cancelling = "none"
  /\ Goto("returned")
  /\ transfer' = [NoTransfer EXCEPT !.result = transfer.result]
  /\ UNCHANGED <<vars, cancelling, temp>>

DownloadStep ==
  \/ \E p \in Installers : BeginDownload(p)
  \/ BeginAttempt \/ OpenFile \/ InstallHandler \/ Start \/ ResumeTask
  \/ EndAttempt \/ Backoff \/ EndDownload
  \/ CancelInstall \/ OnCancel \/ CancelTask
  \/ ReceiveResponse \/ ReceiveData \/ RefuseData \/ ConnectionEnds
  \/ Complete \/ CloseFile \/ ResumeCaller

-----------------------------------------------------------------------------
(* The installation around it.                                             *)

\* The temporary file goes with its directory.  It is removed after its range is
\* recorded and before the manifest is written; a removal that fails, or that the
\* process does not live to make, leaves it.
FileAfter(p) ==
  IF partial' = None \/ Promote(p) THEN {Absent}
  ELSE IF run[p].pc \in {"commit", "finish"} THEN {Absent, temp} ELSE {temp}

EndsTheDownload ==
  /\ call' = NoCall /\ transfer' = NoTransfer /\ cancelling' = "none"

\* A download that is there is copied; one that threw, or did not begin, ends
\* the installation; a process may die at any step of it.
InstallerMoves(p) ==
  /\ InstallStep(p)
  /\ Downloads(p) => Crash(p) \/ At("got") \/ (call.pc \in {"none", "threw"} /\ Abandon(p))
  /\ temp' \in FileAfter(p)
  /\ EndsTheDownload

PowerIsLost ==
  /\ PowerLoss
  /\ temp' \in {Absent, temp}
  /\ EndsTheDownload

DownloadNext ==
  \/ \E p \in Installers : InstallerMoves(p)
  \/ DownloadStep
  \/ PowerIsLost
  \/ \E r \in Ranges : Damage(r) /\ UNCHANGED downloadVars
  \/ LoseOutputs /\ UNCHANGED downloadVars

DownloadSpec == DownloadInit /\ [][DownloadNext]_allVars

-----------------------------------------------------------------------------
(* Properties.                                                             *)

DownloadTypeOK ==
  /\ call \in [
       pc : {"none", "attempt", "open", "handler", "start", "resume", "drop", "waiting",
             "returned", "backoff", "got", "threw"},
       attempt : 0..Attempts, cancelled : BOOLEAN]
  /\ transfer \in [
       task : {"none", "suspended", "running", "ending", "closing", "over"},
       rejection : {"none"} \cup Errors, error : {"none"} \cup Errors,
       accepted : BOOLEAN, received : 0..Parts,
       result : {"none", "success"} \cup Errors]
  /\ cancelling \in {"none", "lock", "task"}
  /\ temp \in {Absent} \cup 0..Parts

\* What is copied into a model is all of its range, whatever was refused, cut
\* short, retried, cancelled or left by an earlier run; the file holds what the
\* transfer has written to it, and is gone before the caller can try again, as
\* an attempt opens a file of its own (O_EXCL).
RangesArriveWhole ==
  /\ DownloadTypeOK
  /\ At("open") => temp = Absent
  /\ HandlerIsInstalled /\ transfer.task # "over" => temp = transfer.received
  /\ At("got") \/ (\E p \in Installers : run[p].pc = "write") => temp = Parts

\* A cancelled installation does not wait for the network: whether cancel comes
\* before, in or after start, by the time both are through the transfer is
\* ending.
CancelReachesTransfer ==
  call.cancelled /\ At("waiting") /\ cancelling = "none" =>
    transfer.task \in {"ending", "closing", "over"}
=============================================================================
