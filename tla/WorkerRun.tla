-------------------------------- MODULE WorkerRun --------------------------------
(***************************************************************************)
(* One WorkerRun from admission to its end: the durable run record with    *)
(* its execution lease, fence and checkpoint chain; the worker.run jobs    *)
(* that carry its execution; the executions themselves (claimNextJob,      *)
(* job handler, supervisor, job outcome); operator commands; the approval  *)
(* request of one gated operation; and the recovery of expired work.       *)
(*                                                                         *)
(* Each action is one store transaction (mutateStoreAsync is atomic) with  *)
(* the code around it up to the next await.  Time is abstracted: a lease   *)
(* is live until it expires, a queued job may be due at any moment, and    *)
(* a running job may or may not be older than the stale-job threshold.     *)
(* An executor is one job execution in some server process; a crash of a   *)
(* process is the crash of each of its executors.  Leadership is not       *)
(* assumed: any executor may claim, as a fail-open coordinator allows.     *)
(***************************************************************************)
EXTENDS Naturals, Sequences, FiniteSets

CONSTANTS
    Executors,          \* job execution slots, over all server processes
    MaxAttempts,        \* JobRecord.maxAttempts of the worker.run jobs
    ApprovalRequired,   \* the plan has one operation with approval = "always"
    MaxJobs,            \* bound: worker.run jobs ever created for the run
    MaxCheckpoints,     \* bound: checkpoints the run's budgets leave room for
    MaxCommands,        \* bound: commands operators issue
    MaxFaults,          \* bound: crashes, shutdowns, stalls, store failures
    MaxEvents           \* bound: commands and faults together

ASSUME ExecutorsAssumption == Executors # {}
ASSUME BoundsAssumption ==
    /\ MaxAttempts \in Nat \ {0} /\ MaxJobs \in Nat \ {0}
    /\ MaxCheckpoints \in Nat /\ MaxCommands \in Nat /\ MaxFaults \in Nat
    /\ MaxEvents \in Nat
ASSUME PolicyAssumption == ApprovalRequired \in BOOLEAN

VARIABLES
    \* the WorkerRun record and its checkpoints
    status, revision, runtimeFence,
    leaseFence,         \* runtimeLease.fencingToken, 0 when there is no lease
    leaseLive,          \* runtimeLease.expiresAt is in the future
    checkpoints,        \* the chain, each entry the fence it was written under
    pendingApproval,    \* the newest checkpoint lists the attention request
    \* the attention request (with its grant) and its expire job
    attention, deadlineArmed,
    disposition,        \* the operation's expirationDisposition, which stays
    \* the worker.run jobs; job n is the n-th created
    jobCount, jobStatus, attempts, cancelRequested,
    \* one job execution: the state of runJob, handle and runWorkerSupervisor
    pc, exJob, exAttempts, exResult, signal, exFence, exRev, exSeq, exOwes,
    adrift,             \* saves nobody waits for any more, not yet executed
    \* bounds
    commands, faults

runVars == <<status, revision, runtimeFence, leaseFence, leaseLive>>
chainVars == <<checkpoints, pendingApproval>>
approvalVars == <<attention, deadlineArmed, disposition>>
jobVars == <<jobCount, jobStatus, attempts, cancelRequested>>
claimVars == <<exJob, exAttempts, signal>>
leaseVars == <<exFence, exRev, exSeq, exOwes>>
exVars == <<pc, exResult, claimVars, leaseVars>>
boundVars == <<commands, faults>>
vars == <<runVars, chainVars, approvalVars, jobVars, exVars, adrift, boundVars>>

Lifecycle == INSTANCE RunLifecycle WITH fence <- runtimeFence

Terminal == Lifecycle!Terminal
Jobs == 1 .. MaxJobs
JobStatus == {"absent", "queued", "running", "success", "failed", "canceled"}

(* "lapsed" is an approved request whose grant has expired. *)
Attention == {"none", "open", "approved", "lapsed", "rejected", "expired"}

(* The outcome the reducer selects, and how the handler ended. *)
Verdicts == {"completed", "failed", "budget_exhausted", "quarantined", "cancelled"}
Outcomes == {"returned", "aborted", "deferred", "released", "threw"}

(* settling: the job outcome is not written yet.                           *)
PC == {"idle", "claimed", "control", "working", "saving", "finalizing",
       "releasing", "settling"}

Init ==
    /\ status = "queued" /\ revision = 1 /\ runtimeFence = 0
    /\ leaseFence = 0 /\ leaseLive = FALSE
    /\ checkpoints = <<>> /\ pendingApproval = FALSE
    /\ attention = "none" /\ deadlineArmed = FALSE
    /\ disposition \in IF ApprovalRequired THEN {"pause", "reject"} ELSE {"pause"}
    /\ jobCount = 1
    /\ jobStatus = [j \in Jobs |-> IF j = 1 THEN "queued" ELSE "absent"]
    /\ attempts = [j \in Jobs |-> 0]
    /\ cancelRequested = [j \in Jobs |-> FALSE]
    /\ pc = [e \in Executors |-> "idle"]
    /\ exJob = [e \in Executors |-> 1]
    /\ exAttempts = [e \in Executors |-> 0]
    /\ exFence = [e \in Executors |-> 0]
    /\ exRev = [e \in Executors |-> 0]
    /\ exSeq = [e \in Executors |-> 0]
    /\ exOwes = [e \in Executors |-> FALSE]
    /\ exResult = [e \in Executors |-> "none"]
    /\ signal = [e \in Executors |-> "none"]
    /\ adrift = {}
    /\ commands = 0 /\ faults = 0

(***************************************************************************)
(* Helpers                                                                 *)
(***************************************************************************)
(* The lease test of requireFencedRun and of renew.                        *)
Holds(e) == leaseLive /\ leaseFence = exFence[e]

(* requireFencedRun with an expected revision.                             *)
FencedRun(e) == Holds(e) /\ revision = exRev[e]

DropLease == leaseFence' = 0 /\ leaseLive' = FALSE

(* A run update: one new revision, the fence as it was.                    *)
MoveRun(to) ==
    /\ status' = to
    /\ revision' = revision + 1
    /\ UNCHANGED runtimeFence

Goto(e, at) == pc' = [pc EXCEPT ![e] = at] /\ UNCHANGED <<exResult, claimVars>>

GotoWith(e, at, result) ==
    /\ pc' = [pc EXCEPT ![e] = at]
    /\ exResult' = [exResult EXCEPT ![e] = result]
    /\ UNCHANGED claimVars

(* The supervisor's own state ends with it.                                *)
ForgetLease(e) ==
    /\ exFence' = [exFence EXCEPT ![e] = 0]
    /\ exRev' = [exRev EXCEPT ![e] = 0]
    /\ exSeq' = [exSeq EXCEPT ![e] = 0]
    /\ exOwes' = [exOwes EXCEPT ![e] = FALSE]

(* What runJob makes of the signal as it stands when the handler returns   *)
(* or throws: a shutdown releases the job, an abort outlives a return.     *)
HandledAs(e, result) ==
    CASE signal[e] = "shutdown" /\ result # "deferred"    -> "released"
      [] signal[e] = "operator" /\ result = "returned"    -> "aborted"
      [] OTHER -> result

(* The handler has returned or thrown; the job outcome is still to write.  *)
EndHandler(e, result) == GotoWith(e, "settling", HandledAs(e, result)) /\ ForgetLease(e)

(* The execution is over, one way or the other.                            *)
EndExecution(e) ==
    /\ pc' = [pc EXCEPT ![e] = "idle"]
    /\ exResult' = [exResult EXCEPT ![e] = "none"]
    /\ exJob' = [exJob EXCEPT ![e] = 1]
    /\ exAttempts' = [exAttempts EXCEPT ![e] = 0]
    /\ signal' = [signal EXCEPT ![e] = "none"]
    /\ ForgetLease(e)

(* Mutated: the pending approvals are not part of what is saved.           *)
SaveOf_NoApprovals(e) ==
    [fence |-> exFence[e], rev |-> exRev[e], seq |-> exSeq[e], owes |-> FALSE]

(* The save of an execution that is waiting for one.                       *)
SaveOf(e) == [fence |-> exFence[e], rev |-> exRev[e], seq |-> exSeq[e], owes |-> exOwes[e]]

(* Nothing recalls a save the execution stops waiting for.                 *)
SetAdrift(e) == adrift' = IF pc[e] = "saving" THEN adrift \union {SaveOf(e)} ELSE adrift

(* cancelExecutionJobs: queued jobs are canceled; on request the running   *)
(* ones are flagged for their cancel watcher.                              *)
CancelExecutionJobs(requestRunningCancellation) ==
    /\ jobStatus' = [j \in Jobs |-> IF jobStatus[j] = "queued" THEN "canceled" ELSE jobStatus[j]]
    /\ cancelRequested' = [j \in Jobs |->
           \/ cancelRequested[j]
           \/ jobStatus[j] = "queued"
           \/ requestRunningCancellation /\ jobStatus[j] = "running"]
    /\ UNCHANGED <<jobCount, attempts>>

(* Give a claim back: an attempt that did not count.                       *)
Refund(n) == IF n = 0 THEN 0 ELSE n - 1

(***************************************************************************)
(* Claim and acquire                                                       *)
(***************************************************************************)
Claim(e, j) ==
    /\ pc[e] = "idle"
    /\ jobStatus[j] = "queued"
    /\ jobStatus' = [jobStatus EXCEPT ![j] = "running"]
    /\ attempts' = [attempts EXCEPT ![j] = @ + 1]
    /\ exJob' = [exJob EXCEPT ![e] = j]
    /\ exAttempts' = [exAttempts EXCEPT ![e] = attempts[j] + 1]
    /\ pc' = [pc EXCEPT ![e] = "claimed"]
    /\ UNCHANGED <<runVars, chainVars, approvalVars, jobCount, cancelRequested,
                   exResult, signal, leaseVars, adrift, boundVars>>

NextFence == (IF leaseFence > runtimeFence THEN leaseFence ELSE runtimeFence) + 1

AcquireLease(e) ==
    /\ pc[e] = "claimed"
    /\ status \in {"queued", "running"}
    /\ ~leaseLive
    /\ status' = "running"
    /\ revision' = revision + 1
    /\ runtimeFence' = NextFence
    /\ leaseFence' = NextFence /\ leaseLive' = TRUE
    /\ exFence' = [exFence EXCEPT ![e] = NextFence]
    /\ exRev' = [exRev EXCEPT ![e] = revision + 1]
    /\ exSeq' = [exSeq EXCEPT ![e] = Len(checkpoints)]
    /\ exOwes' = [exOwes EXCEPT ![e] = pendingApproval]
    /\ Goto(e, "control")
    /\ UNCHANGED <<chainVars, approvalVars, jobVars, adrift, boundVars>>

(* Mutated: the lease test comes first and takes an ended run for busy.    *)
AcquireRefused_EndedIsBusy(e) ==
    /\ pc[e] = "claimed"
    /\ \/ status = "paused" /\ EndHandler(e, "returned")
       \/ status = "waiting_for_approval" /\ EndHandler(e, "threw")
       \/ /\ status \in Terminal \/ leaseLive
          /\ EndHandler(e, "deferred")
    /\ UNCHANGED <<runVars, chainVars, approvalVars, jobVars, adrift, boundVars>>

(* Dispositions terminal and paused (the handler returns) and busy         *)
(* (JobDeferredError), and the conflict for any other status (it throws).  *)
AcquireRefused(e) ==
    /\ pc[e] = "claimed"
    /\ \/ status \in Terminal \union {"paused"} /\ EndHandler(e, "returned")
       \/ status = "waiting_for_approval" /\ EndHandler(e, "threw")
       \/ status \in {"queued", "running"} /\ leaseLive /\ EndHandler(e, "deferred")
    /\ UNCHANGED <<runVars, chainVars, approvalVars, jobVars, adrift, boundVars>>

(***************************************************************************)
(* The supervisor                                                          *)
(***************************************************************************)
(* inspectSignal on a shutdown abort: WorkerRuntimeReleasedError.          *)
ObserveShutdown(e) ==
    /\ pc[e] \in {"control", "working", "saving"}
    /\ signal[e] = "shutdown"
    /\ GotoWith(e, "releasing", "released") /\ SetAdrift(e)
    /\ UNCHANGED <<runVars, chainVars, approvalVars, jobVars, leaseVars, boundVars>>

(* inspectSignal on an operator abort, or inspect finding the run          *)
(* cancelled: the reducer selects the terminal state cancelled.            *)
ObserveCancel(e) ==
    /\ \/ pc[e] \in {"control", "working", "saving"} /\ signal[e] = "operator"
       \/ pc[e] = "control" /\ status = "cancelled"
    /\ GotoWith(e, "finalizing", "cancelled") /\ SetAdrift(e)
    /\ UNCHANGED <<runVars, chainVars, approvalVars, jobVars, leaseVars, boundVars>>

(* A heartbeat or refreshControl whose renew returns null; a paused run    *)
(* has no lease, so inspect reporting "paused" ends the same way.          *)
ObserveLeaseLost(e) ==
    /\ pc[e] \in {"control", "working", "saving"}
    /\ ~Holds(e)
    /\ GotoWith(e, "releasing", "released") /\ SetAdrift(e)
    /\ UNCHANGED <<runVars, chainVars, approvalVars, jobVars, leaseVars, boundVars>>

(* refreshControl with an active run and a renewed lease.                  *)
ControlRenewed(e) ==
    /\ pc[e] = "control" /\ signal[e] = "none"
    /\ Holds(e)
    /\ Goto(e, "working")
    /\ UNCHANGED <<runVars, chainVars, approvalVars, jobVars, leaseVars, adrift, boundVars>>

(* A phase ends in persistState: the save is handed to the store.          *)
IssueSave(e) ==
    /\ pc[e] = "working" /\ signal[e] = "none"
    /\ exSeq[e] < MaxCheckpoints
    /\ Goto(e, "saving")
    /\ UNCHANGED <<runVars, chainVars, approvalVars, jobVars, leaseVars, adrift, boundVars>>

(* Mutated: some lease is live, whosever it is.                            *)
SaveAccepted_AnyLease(w) == leaseLive

(* Mutated: the expiry of the lease is not compared with the clock.        *)
SaveAccepted_NoExpiry(w) ==
    leaseFence = w.fence /\ revision = w.rev /\ Len(checkpoints) = w.seq

(* save: the fence, the revision and the sequence must all still be those  *)
(* the supervisor had when it issued it.                                   *)
SaveAccepted(w) ==
    /\ leaseLive /\ leaseFence = w.fence
    /\ revision = w.rev
    /\ Len(checkpoints) = w.seq

AppendCheckpoint(w) ==
    /\ checkpoints' = Append(checkpoints, w.fence)
    /\ pendingApproval' = w.owes

StoreSave(e) ==
    /\ pc[e] = "saving"
    /\ SaveAccepted(SaveOf(e))
    /\ AppendCheckpoint(SaveOf(e))
    /\ MoveRun(status) /\ UNCHANGED <<leaseFence, leaseLive>>
    /\ exRev' = [exRev EXCEPT ![e] = revision + 1]
    /\ exSeq' = [exSeq EXCEPT ![e] = @ + 1]
    /\ Goto(e, "control")
    /\ UNCHANGED <<approvalVars, jobVars, exFence, exOwes, adrift, boundVars>>

(* The save conflicts: persistState inspects the run and throws released   *)
(* when it is paused or cancelled, WorkerCheckpointPersistenceError else.  *)
SaveConflict(e) ==
    /\ pc[e] = "saving"
    /\ ~SaveAccepted(SaveOf(e))
    /\ GotoWith(e, "releasing", IF status \in {"paused", "cancelled"} THEN "released" ELSE "threw")
    /\ UNCHANGED <<runVars, chainVars, approvalVars, jobVars, leaseVars, adrift, boundVars>>

(* A save whose awaitBounded ended early (abort, deadline, lost lease, a   *)
(* crash after it was sent) is executed after all.                         *)
LateSave(w) ==
    /\ adrift' = adrift \ {w}
    /\ SaveAccepted(w)
    /\ AppendCheckpoint(w)
    /\ MoveRun(status) /\ UNCHANGED <<leaseFence, leaseLive>>
    /\ UNCHANGED <<approvalVars, jobVars, exVars, boundVars>>

(* The reducer selects an outcome by itself: an exit condition matched, a  *)
(* limit reached (in the middle of a save too), failures exhausted, or a   *)
(* replay it cannot make safe.  A planned gated operation comes before     *)
(* completion, so a run that owes an approval cannot complete.             *)
SelectTerminal(e, v) ==
    /\ \/ pc[e] = "working"
       \/ pc[e] = "saving" /\ v = "budget_exhausted"
    /\ v # "cancelled"
    /\ v = "completed" => ~exOwes[e]
    /\ GotoWith(e, "finalizing", v) /\ SetAdrift(e)
    /\ UNCHANGED <<runVars, chainVars, approvalVars, jobVars, leaseVars, boundVars>>

(* finalize.  Terminal already: the existing run is the answer.  Fenced:   *)
(* the outcome is written.  Otherwise a conflict, turned into released.    *)
Finalize(e) ==
    /\ pc[e] = "finalizing"
    /\ \/ /\ status \in Terminal
          /\ EndHandler(e, "returned")
          /\ UNCHANGED runVars
       \/ /\ status \notin Terminal /\ FencedRun(e)
          /\ MoveRun(exResult[e]) /\ DropLease
          /\ EndHandler(e, "returned")
       \/ /\ status \notin Terminal /\ ~FencedRun(e)
          /\ GotoWith(e, "releasing", "released")
          /\ UNCHANGED <<runVars, leaseVars>>
    /\ UNCHANGED <<chainVars, approvalVars, jobVars, adrift, boundVars>>

(* release in the handler's catch: the lease of this owner and fence goes, *)
(* expired or not.                                                         *)
ReleaseLease(e) ==
    /\ pc[e] = "releasing"
    /\ IF leaseFence # 0 /\ leaseFence = exFence[e]
          THEN MoveRun(status) /\ DropLease
          ELSE UNCHANGED runVars
    /\ EndHandler(e, exResult[e])
    /\ UNCHANGED <<chainVars, approvalVars, jobVars, adrift, boundVars>>

(***************************************************************************)
(* Approval of the gated operation (attention-service)                     *)
(***************************************************************************)
(* resolve with no request yet: the request, its expire job, a checkpoint  *)
(* that lists it and the waiting run are one transaction; the handler      *)
(* returns.                                                                *)
RequestApproval(e) ==
    /\ pc[e] = "working" /\ ApprovalRequired /\ attention = "none"
    /\ exSeq[e] < MaxCheckpoints
    /\ status = "running" /\ SaveAccepted(SaveOf(e))
    /\ attention' = "open" /\ deadlineArmed' = TRUE /\ UNCHANGED disposition
    /\ AppendCheckpoint([SaveOf(e) EXCEPT !.owes = TRUE])
    /\ MoveRun("waiting_for_approval") /\ DropLease
    /\ EndHandler(e, "returned")
    /\ UNCHANGED <<jobVars, adrift, boundVars>>

(* resolve claims the approved grant and the tool succeeds; a failed tool  *)
(* leaves the request in the supervisor's pending list, as it was.         *)
UseApproval(e) ==
    /\ pc[e] = "working" /\ exOwes[e] /\ attention = "approved"
    /\ status = "running" /\ FencedRun(e)
    /\ exOwes' = [exOwes EXCEPT ![e] = FALSE]
    /\ UNCHANGED <<runVars, chainVars, approvalVars, jobVars, pc, exResult, claimVars,
                   exFence, exRev, exSeq, adrift, boundVars>>

(* expireWaitingRun and the cancelExecutionJobs next to it.                *)
RunAfterExpiry == IF disposition = "pause" THEN "paused" ELSE "failed"

ExpireRun ==
    /\ MoveRun(RunAfterExpiry)
    /\ DropLease
    /\ CancelExecutionJobs(TRUE)

(* resolve finds the request expired, or its grant past an expiry the      *)
(* operator set earlier than the deadline: the run halts and the handler   *)
(* returns.                                                                *)
HaltForAttention(e) ==
    /\ pc[e] = "working" /\ exOwes[e] /\ attention \in {"approved", "lapsed", "expired"}
    /\ status = "running" /\ FencedRun(e)
    /\ attention' = IF attention = "approved" THEN "lapsed" ELSE attention
    /\ ExpireRun
    /\ EndHandler(e, "returned")
    /\ UNCHANGED <<chainVars, deadlineArmed, disposition, adrift, boundVars>>

(* processDeadline("expire").  assertWorkerRunUpdate aborts the whole      *)
(* transaction when the disposition is not a legal move (a queued run      *)
(* cannot fail): the deadline job is then retried.                         *)
DeadlinePasses ==
    /\ deadlineArmed
    /\ deadlineArmed' = FALSE
    /\ attention' = CASE attention = "open" -> "expired"
                      [] attention = "approved" -> "lapsed"
                      [] OTHER -> attention
    /\ IF status \notin Terminal /\ pendingApproval
          THEN ExpireRun /\ Lifecycle!LegalMove(status, RunAfterExpiry)
          ELSE UNCHANGED <<runVars, jobVars>>
    /\ UNCHANGED <<chainVars, disposition, exVars, adrift, boundVars>>

(***************************************************************************)
(* The job outcome (runJob).  The update is by id and unconditional.       *)
(***************************************************************************)
Settled(e, outcome) ==
    /\ jobStatus' = [jobStatus EXCEPT ![exJob[e]] = outcome]
    /\ EndExecution(e)
    /\ UNCHANGED <<runVars, chainVars, approvalVars, jobCount, adrift, boundVars>>

(* Released and deferred jobs go back to the queue with the attempts they  *)
(* were claimed with, less one.                                            *)
ReleaseJob(e) ==
    /\ pc[e] = "settling" /\ exResult[e] \in {"deferred", "released"}
    /\ Settled(e, "queued")
    /\ attempts' = [attempts EXCEPT ![exJob[e]] = Refund(exAttempts[e])]
    /\ UNCHANGED cancelRequested

SettleReturned(e) ==
    /\ pc[e] = "settling"
    /\ \/ /\ exResult[e] = "returned"
          /\ Settled(e, "success")
          /\ UNCHANGED cancelRequested
       \/ /\ exResult[e] = "aborted"
          /\ Settled(e, "canceled")
          /\ cancelRequested' = [cancelRequested EXCEPT ![exJob[e]] = TRUE]
    /\ UNCHANGED attempts

(* The job is read again, and the signal once more: a shutdown that comes  *)
(* only now cancels the job.                                               *)
SettleThrew(e) ==
    /\ pc[e] = "settling" /\ exResult[e] = "threw"
    /\ \/ /\ signal[e] # "none" \/ cancelRequested[exJob[e]]
          /\ Settled(e, "canceled")
       \/ /\ signal[e] = "none" /\ ~cancelRequested[exJob[e]]
          /\ Settled(e, IF exAttempts[e] < MaxAttempts THEN "queued" ELSE "failed")
    /\ UNCHANGED <<attempts, cancelRequested>>

(* The cancel watcher reads cancelRequested and aborts the controller.     *)
WatchCancel(e) ==
    /\ pc[e] # "idle" /\ signal[e] = "none"
    /\ cancelRequested[exJob[e]]
    /\ signal' = [signal EXCEPT ![e] = "operator"]
    /\ UNCHANGED <<runVars, chainVars, approvalVars, jobVars, pc, exResult, exJob, exAttempts,
                   leaseVars, adrift, boundVars>>

(***************************************************************************)
(* Failures                                                                *)
(***************************************************************************)
Fault ==
    /\ faults < MaxFaults /\ commands + faults < MaxEvents
    /\ faults' = faults + 1
    /\ UNCHANGED commands

(* The process dies: nothing of the execution is left but what it sent.    *)
Crash(e) ==
    /\ Fault
    /\ pc[e] # "idle"
    /\ EndExecution(e) /\ SetAdrift(e)
    /\ UNCHANGED <<runVars, chainVars, approvalVars, jobVars>>

(* JobScheduler.stop aborts the execution.                                 *)
Shutdown(e) ==
    /\ Fault
    /\ pc[e] # "idle" /\ signal[e] = "none"
    /\ signal' = [signal EXCEPT ![e] = "shutdown"]
    /\ UNCHANGED <<runVars, chainVars, approvalVars, jobVars, pc, exResult, exJob, exAttempts,
                   leaseVars, adrift>>

(* A store transaction of the execution fails.  Up to the lease the        *)
(* handler throws; release swallows it and the lease stays; a lost success *)
(* write falls into the failure path; a lost failure write is only logged. *)
StoreFails(e) ==
    /\ Fault
    /\ \/ pc[e] = "claimed" /\ EndHandler(e, "threw")
       \/ /\ pc[e] \in {"saving", "finalizing"} /\ GotoWith(e, "releasing", "threw")
          /\ UNCHANGED leaseVars
       \/ pc[e] = "releasing" /\ EndHandler(e, exResult[e])
       \/ pc[e] = "settling" /\ exResult[e] \in {"returned", "aborted"} /\ EndHandler(e, "threw")
       \/ pc[e] = "settling" /\ exResult[e] \notin {"returned", "aborted"} /\ EndExecution(e)
    /\ UNCHANGED <<runVars, chainVars, approvalVars, jobVars, adrift>>

(* The lease's time runs out: its holder is gone, ...                      *)
ExpireAbandoned ==
    /\ leaseLive
    /\ \A e \in Executors : exFence[e] # leaseFence
    /\ leaseLive' = FALSE
    /\ UNCHANGED <<status, revision, runtimeFence, leaseFence, chainVars, approvalVars, jobVars,
                   exVars, adrift, boundVars>>

(* ... or is stalled for longer than the time to live.                     *)
ExpireHeld ==
    /\ Fault
    /\ leaseLive
    /\ \E e \in Executors : exFence[e] = leaseFence
    /\ leaseLive' = FALSE
    /\ UNCHANGED <<status, revision, runtimeFence, leaseFence, chainVars, approvalVars, jobVars,
                   exVars, adrift>>

(***************************************************************************)
(* Recovery                                                                *)
(***************************************************************************)
(* sweepStaleRunningJobs, run by JobScheduler.start only: the jobs claimed *)
(* more than five minutes ago, whoever still runs them.                    *)
Sweep(stale) ==
    /\ Fault
    /\ stale # {} /\ \A j \in stale : jobStatus[j] = "running"
    /\ jobStatus' = [j \in Jobs |-> IF j \in stale THEN "queued" ELSE jobStatus[j]]
    /\ UNCHANGED <<runVars, chainVars, approvalVars, jobCount, attempts, cancelRequested, exVars, adrift>>

(* Mutated: a job that still says running is trusted to be.                *)
Recoverable_TrustsRunning ==
    /\ status = "running" /\ ~leaseLive
    /\ \A j \in Jobs : jobStatus[j] \notin {"queued", "running"}

(* The candidates recoverExpired acts on.                                  *)
Recoverable ==
    /\ status = "running" /\ ~leaseLive
    /\ leaseFence = 0 => \A j \in Jobs : jobStatus[j] # "queued"

(* requeueExecutionJob's choice: the oldest running job, else the newest.  *)
JobToRequeue ==
    LET running == {j \in Jobs : jobStatus[j] = "running"}
    IN  IF running = {} THEN jobCount
        ELSE CHOOSE j \in running : \A k \in running : j <= k

RecoverRequeue ==
    /\ Recoverable
    /\ IF leaseFence # 0 THEN MoveRun(status) /\ DropLease ELSE UNCHANGED runVars
    /\ jobStatus' = [jobStatus EXCEPT ![JobToRequeue] = "queued"]
    /\ attempts' = [attempts EXCEPT ![JobToRequeue] = Refund(@)]
    /\ UNCHANGED <<chainVars, approvalVars, jobCount, cancelRequested, exVars, adrift, boundVars>>

(* recoverySafetyIssue found a reason (a corrupt chain, an effect with an  *)
(* uncertain outcome): which runs those are is EffectReceipts' subject.    *)
RecoverQuarantine ==
    /\ Recoverable
    /\ MoveRun("quarantined") /\ DropLease
    /\ jobStatus' = [j \in Jobs |-> IF jobStatus[j] \in {"queued", "running"}
                                     THEN "failed" ELSE jobStatus[j]]
    /\ UNCHANGED <<chainVars, approvalVars, jobCount, attempts, cancelRequested, exVars, adrift, boundVars>>

(***************************************************************************)
(* Operators (control-service and the jobs API)                            *)
(***************************************************************************)
(* A command carries the revision it was decided on; a stale one is        *)
(* rejected and changes nothing, so each action is one that applies.       *)
Command ==
    /\ commands < MaxCommands /\ commands + faults < MaxEvents
    /\ commands' = commands + 1
    /\ UNCHANGED faults

Pause ==
    /\ Command
    /\ status \in {"queued", "running", "waiting_for_approval"}
    /\ MoveRun("paused") /\ DropLease
    /\ CancelExecutionJobs(FALSE)
    /\ UNCHANGED <<chainVars, approvalVars, exVars, adrift>>

(* From waiting_for_approval the newest checkpoint must list a request     *)
(* with a grant that still holds (hasResumableApproval).                   *)
Resume ==
    /\ Command
    /\ status \in {"paused", "waiting_for_approval"}
    /\ attention # "open"
    /\ status = "waiting_for_approval" => pendingApproval /\ attention = "approved"
    /\ MoveRun("queued") /\ UNCHANGED <<leaseFence, leaseLive>>
    /\ jobCount < MaxJobs
    /\ jobCount' = jobCount + 1
    /\ jobStatus' = [jobStatus EXCEPT ![jobCount + 1] = "queued"]
    /\ UNCHANGED <<attempts, cancelRequested, chainVars, approvalVars, exVars, adrift>>

(* stop_run, and revoke_deployment for this run of the deployment.         *)
Stop ==
    /\ Command
    /\ status \notin Terminal
    /\ MoveRun("cancelled") /\ DropLease
    /\ CancelExecutionJobs(TRUE)
    /\ UNCHANGED <<chainVars, approvalVars, exVars, adrift>>

(* POST /api/app/jobs/:id/cancel on one of the run's jobs (cancelJob).     *)
CancelJob(j) ==
    /\ Command
    /\ jobStatus[j] # "absent"
    /\ cancelRequested' = [cancelRequested EXCEPT ![j] = TRUE]
    /\ jobStatus' = [jobStatus EXCEPT ![j] = IF @ = "queued" THEN "canceled" ELSE @]
    /\ UNCHANGED <<runVars, chainVars, approvalVars, jobCount, attempts, exVars, adrift>>

(* approve_once and approve_for_run; the run stays where it is.            *)
Approve ==
    /\ Command
    /\ attention = "open" /\ status \in {"waiting_for_approval", "paused"}
    /\ attention' = "approved"
    /\ UNCHANGED <<runVars, chainVars, deadlineArmed, disposition, jobVars, exVars, adrift>>

Reject ==
    /\ Command
    /\ attention = "open" /\ status \in {"waiting_for_approval", "paused"}
    /\ attention' = "rejected"
    /\ MoveRun("failed") /\ DropLease
    /\ CancelExecutionJobs(TRUE)
    /\ UNCHANGED <<chainVars, deadlineArmed, disposition, exVars, adrift>>

(***************************************************************************)
(* The specification                                                       *)
(***************************************************************************)
Supervise(e) ==
    \/ ControlRenewed(e) \/ IssueSave(e) \/ StoreSave(e) \/ SaveConflict(e)
    \/ ObserveShutdown(e) \/ ObserveCancel(e) \/ ObserveLeaseLost(e)
    \/ RequestApproval(e) \/ UseApproval(e) \/ HaltForAttention(e)
    \/ \E v \in Verdicts : SelectTerminal(e, v)
    \/ Finalize(e) \/ ReleaseLease(e)

(* What an execution does by itself once its job is claimed.               *)
Execute(e) ==
    \/ AcquireLease(e) \/ AcquireRefused(e)
    \/ Supervise(e)
    \/ ReleaseJob(e) \/ SettleReturned(e) \/ SettleThrew(e) \/ WatchCancel(e)

Recover == RecoverRequeue \/ RecoverQuarantine

Operate ==
    \/ Pause \/ Resume \/ Stop \/ Approve \/ Reject
    \/ \E j \in Jobs : CancelJob(j)

Fail ==
    \/ \E e \in Executors : Crash(e) \/ Shutdown(e) \/ StoreFails(e)
    \/ ExpireHeld
    \/ \E stale \in SUBSET Jobs : Sweep(stale)

Next ==
    \/ \E e \in Executors, j \in Jobs : Claim(e, j)
    \/ \E e \in Executors : Execute(e)
    \/ \E w \in adrift : LateSave(w)
    \/ Recover \/ ExpireAbandoned \/ DeadlinePasses
    \/ Operate \/ Fail

Spec == Init /\ [][Next]_vars

(* Executions advance (the event loop runs, phases are bounded by the      *)
(* elapsed-time limit), a leader keeps polling for due jobs and running    *)
(* the worker-recovery reconciler, and an unrenewed lease runs out.        *)
Fairness ==
    /\ \A e \in Executors : WF_vars(Execute(e))
    /\ WF_vars(\E e \in Executors, j \in Jobs : Claim(e, j))
    /\ WF_vars(Recover)
    /\ WF_vars(ExpireAbandoned)

FairSpec == Spec /\ Fairness

(***************************************************************************)
(* Properties                                                              *)
(***************************************************************************)
Save == [fence : Nat, rev : Nat, seq : Nat, owes : BOOLEAN]

RunTyped == Lifecycle!TypeOK /\ leaseFence \in Nat /\ leaseLive \in BOOLEAN

ApprovalTyped ==
    /\ checkpoints \in Seq(Nat) /\ pendingApproval \in BOOLEAN
    /\ attention \in Attention /\ deadlineArmed \in BOOLEAN
    /\ disposition \in {"pause", "reject"}

JobsTyped ==
    /\ jobCount \in Jobs
    /\ jobStatus \in [Jobs -> JobStatus]
    /\ attempts \in [Jobs -> Nat]
    /\ cancelRequested \in [Jobs -> BOOLEAN]

ClaimsTyped ==
    /\ pc \in [Executors -> PC]
    /\ exResult \in [Executors -> Verdicts \union Outcomes \union {"none"}]
    /\ exJob \in [Executors -> Jobs]
    /\ exAttempts \in [Executors -> Nat]
    /\ signal \in [Executors -> {"none", "operator", "shutdown"}]

LeasesTyped ==
    /\ exFence \in [Executors -> Nat]
    /\ exRev \in [Executors -> Nat]
    /\ exSeq \in [Executors -> Nat]
    /\ exOwes \in [Executors -> BOOLEAN]

AdriftTyped == adrift \subseteq Save

BoundsTyped == commands \in Nat /\ faults \in Nat

(* Every variable keeps its type; run statuses are those of the lifecycle. *)
TypeOK ==
    /\ RunTyped /\ ApprovalTyped /\ JobsTyped
    /\ ClaimsTyped /\ LeasesTyped /\ AdriftTyped /\ BoundsTyped

(* A lease exists only on a running run and always carries the newest      *)
(* fence.  save, append, prepare and complete test the lease and not the   *)
(* status: this is what keeps them off a paused, waiting or ended run.     *)
LeaseOnlyWhileRunning ==
    /\ leaseFence # 0 => status = "running" /\ leaseFence = runtimeFence
    /\ leaseLive => leaseFence # 0

(* The chain never goes back to an older supervisor: whatever was paused,  *)
(* expired, recovered or delayed in between, once a takeover has written a *)
(* checkpoint no write of a superseded execution lands, not even a save    *)
(* its own supervisor had stopped waiting for.                             *)
CheckpointsFenced ==
    /\ \A m, n \in 1 .. Len(checkpoints) : m <= n => checkpoints[m] <= checkpoints[n]
    /\ \A n \in 1 .. Len(checkpoints) : checkpoints[n] <= runtimeFence

(* Two executions never have the same fence, and none is ahead of the run. *)
FencesExclusive ==
    /\ \A e \in Executors : exFence[e] <= runtimeFence
    /\ \A d, e \in Executors : exFence[d] = exFence[e] /\ exFence[e] # 0 => d = e

(* A run that asked for approval completes only after it was given.        *)
CompletedOnlyApproved ==
    status = "completed" => attention \in {"none", "approved", "lapsed"}

(* Progress is made only under a live lease of a running run: a pause, a   *)
(* stop or a lost lease fences the execution before its next checkpoint.   *)
ProgressOnlyUnderLease ==
    [][checkpoints' # checkpoints => status = "running" /\ leaseLive]_vars

(* Each update of the run is one that assertWorkerRunUpdate would accept.  *)
FollowsLifecycle == Lifecycle!Spec

Leasing == INSTANCE RunLease
    WITH fence <- runtimeFence, live <- leaseLive, ended <- (status \in Terminal)

(* What other modules take a run for is what it is to them.                *)
KeepsLease == Leasing!Spec

(* Recovery: a running run is not abandoned, whoever crashed.              *)
RunningMovesOn == status = "running" ~> status # "running"

(* Once the run has ended, executions stop and its queued jobs are used up. *)
EndedRunsDrain ==
    status \in Terminal ~>
        /\ \A e \in Executors : pc[e] = "idle"
        /\ \A j \in Jobs : jobStatus[j] # "queued"
=================================================================================
