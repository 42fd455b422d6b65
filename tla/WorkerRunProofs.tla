----------------------------- MODULE WorkerRunProofs -----------------------------
(***************************************************************************)
(* What holds of a WorkerRun for every set of executors, every policy, and *)
(* every bound on jobs, checkpoints, commands and faults.                  *)
(*                                                                         *)
(* The inductive invariant Inv has one part for each group of variables,   *)
(* so that an action has to be looked at only in the parts it disturbs;    *)
(* the helpers of WorkerRun get a lemma each, the actions a step each.     *)
(***************************************************************************)
EXTENDS WorkerRun, TLAPS

(* An execution about to finalize has selected an outcome.                 *)
VerdictSelected == \A e \in Executors : pc[e] = "finalizing" => exResult[e] \in Verdicts

RunInv == RunTyped /\ LeaseOnlyWhileRunning
ChainInv == ApprovalTyped /\ CheckpointsFenced
ClaimInv == ClaimsTyped /\ VerdictSelected
FenceInv == LeasesTyped /\ FencesExclusive

Inv == RunInv /\ ChainInv /\ JobsTyped /\ ClaimInv /\ FenceInv /\ AdriftTyped /\ BoundsTyped

Results == Verdicts \union Outcomes \union {"none"}

---------------------------------------------------------------------------
(* Parts an action leaves alone.                                           *)
LEMMA Kept ==
  ASSUME Inv
  PROVE  /\ UNCHANGED runVars => RunInv'
         /\ UNCHANGED runVars /\ UNCHANGED chainVars /\ UNCHANGED approvalVars => ChainInv'
         /\ UNCHANGED jobVars => JobsTyped'
         /\ UNCHANGED pc /\ UNCHANGED exResult /\ UNCHANGED claimVars => ClaimInv'
         /\ UNCHANGED leaseVars /\ UNCHANGED runVars => FenceInv'
         /\ UNCHANGED adrift => AdriftTyped'
         /\ UNCHANGED boundVars => BoundsTyped'
<1>1. UNCHANGED runVars => RunInv'
  BY DEF Inv, RunInv, RunTyped, Lifecycle!TypeOK, LeaseOnlyWhileRunning, runVars
<1>2. UNCHANGED runVars /\ UNCHANGED chainVars /\ UNCHANGED approvalVars => ChainInv'
  BY DEF Inv, ChainInv, ApprovalTyped, CheckpointsFenced, runVars, chainVars, approvalVars
<1>3. UNCHANGED jobVars => JobsTyped'
  BY DEF Inv, JobsTyped, jobVars
<1>4. UNCHANGED pc /\ UNCHANGED exResult /\ UNCHANGED claimVars => ClaimInv'
  BY DEF Inv, ClaimInv, ClaimsTyped, VerdictSelected, claimVars
<1>5. UNCHANGED leaseVars /\ UNCHANGED runVars => FenceInv'
  BY DEF Inv, FenceInv, LeasesTyped, FencesExclusive, leaseVars, runVars
<1>6. (UNCHANGED adrift => AdriftTyped') /\ (UNCHANGED boundVars => BoundsTyped')
  BY DEF Inv, AdriftTyped, BoundsTyped, boundVars
<1> QED
  BY <1>1, <1>2, <1>3, <1>4, <1>5, <1>6

(* An update that takes the lease away may set any status, ...             *)
LEMMA UnleasedMove ==
  ASSUME RunInv, NEW to \in Lifecycle!Status, MoveRun(to), DropLease
  PROVE  RunInv'
<1>1. status' \in Lifecycle!Status /\ revision' \in Nat /\ runtimeFence' \in Nat
  BY DEF RunInv, RunTyped, Lifecycle!TypeOK, MoveRun
<1>2. leaseFence' = 0 /\ leaseLive' = FALSE
  BY DEF DropLease
<1> QED
  BY <1>1, <1>2 DEF RunInv, RunTyped, Lifecycle!TypeOK, LeaseOnlyWhileRunning

(* ... one that leaves the lease keeps it, when there is one.              *)
LEMMA LeasedMove ==
  ASSUME RunInv, NEW to \in Lifecycle!Status, leaseFence # 0 => to = status,
         MoveRun(to), UNCHANGED <<leaseFence, leaseLive>>
  PROVE  RunInv'
  BY DEF RunInv, RunTyped, Lifecycle!TypeOK, LeaseOnlyWhileRunning, MoveRun

LEMMA FenceKept ==
  ASSUME Inv, UNCHANGED runtimeFence
  PROVE  /\ UNCHANGED chainVars /\ UNCHANGED approvalVars => ChainInv'
         /\ UNCHANGED leaseVars => FenceInv'
  BY DEF Inv, ChainInv, ApprovalTyped, CheckpointsFenced, FenceInv, LeasesTyped, FencesExclusive,
     chainVars, approvalVars, leaseVars

LEMMA ForgetLeaseSafe ==
  ASSUME RunInv, FenceInv, NEW e \in Executors, ForgetLease(e), UNCHANGED runtimeFence
  PROVE  FenceInv'
<1>1. LeasesTyped'
  BY DEF FenceInv, LeasesTyped, ForgetLease
<1>2. \A d \in Executors : exFence'[d] = IF d = e THEN 0 ELSE exFence[d]
  BY DEF FenceInv, LeasesTyped, ForgetLease
<1>3. runtimeFence \in Nat
  BY DEF RunInv, RunTyped, Lifecycle!TypeOK
<1>4. FencesExclusive'
  BY <1>2, <1>3 DEF FenceInv, FencesExclusive
<1> QED
  BY <1>1, <1>4 DEF FenceInv

LEMMA GotoSafe ==
  ASSUME ClaimInv, NEW e \in Executors, NEW at \in PC \ {"finalizing"}, Goto(e, at)
  PROVE  ClaimInv'
  BY DEF ClaimInv, ClaimsTyped, VerdictSelected, Goto, claimVars

LEMMA GotoWithSafe ==
  ASSUME ClaimInv, NEW e \in Executors, NEW at \in PC, NEW result \in Results,
         at = "finalizing" => result \in Verdicts, GotoWith(e, at, result)
  PROVE  ClaimInv'
  BY DEF ClaimInv, ClaimsTyped, VerdictSelected, Results, GotoWith, claimVars

LEMMA EndHandlerSafe ==
  ASSUME RunInv, ClaimInv, FenceInv, NEW e \in Executors, NEW result \in Results,
         EndHandler(e, result), UNCHANGED runtimeFence
  PROVE  ClaimInv' /\ FenceInv'
<1>1. "settling" \in PC
  BY DEF PC
<1>2. HandledAs(e, result) \in Results
  BY DEF HandledAs, Results, Outcomes
<1> QED
  BY <1>1, <1>2, ForgetLeaseSafe, GotoWithSafe DEF EndHandler

LEMMA EndExecutionSafe ==
  ASSUME RunInv, ClaimInv, FenceInv, NEW e \in Executors, EndExecution(e), UNCHANGED runtimeFence
  PROVE  ClaimInv' /\ FenceInv'
<1>1. FenceInv'
  BY ForgetLeaseSafe DEF EndExecution
<1>2. 1 \in Jobs /\ "idle" \in PC /\ "idle" # "finalizing"
  BY BoundsAssumption DEF Jobs, PC
<1>3. ClaimsTyped'
  BY <1>2 DEF ClaimInv, ClaimsTyped, EndExecution
<1>4. VerdictSelected'
  BY <1>2 DEF ClaimInv, ClaimsTyped, VerdictSelected, EndExecution
<1> QED
  BY <1>1, <1>3, <1>4 DEF ClaimInv

LEMMA SaveOfTyped ==
  ASSUME FenceInv, NEW e \in Executors PROVE SaveOf(e) \in Save
  BY DEF FenceInv, LeasesTyped, SaveOf, Save

LEMMA SetAdriftSafe ==
  ASSUME FenceInv, AdriftTyped, NEW e \in Executors, SetAdrift(e) PROVE AdriftTyped'
  BY SaveOfTyped DEF AdriftTyped, SetAdrift

(* A save is accepted only under the newest fence: the chain stays sorted. *)
LEMMA AppendSafe ==
  ASSUME RunInv, ChainInv, NEW w \in Save, NEW x \in Save, x.fence = w.fence,
         SaveAccepted(w), AppendCheckpoint(x), UNCHANGED runtimeFence,
         attention' \in Attention, deadlineArmed' \in BOOLEAN, UNCHANGED disposition
  PROVE  ChainInv'
<1>1. w.fence = runtimeFence /\ runtimeFence \in Nat /\ x.owes \in BOOLEAN
  BY DEF RunInv, RunTyped, Lifecycle!TypeOK, LeaseOnlyWhileRunning, SaveAccepted, Save
<1>2. checkpoints \in Seq(Nat) /\ checkpoints' = Append(checkpoints, runtimeFence)
  BY <1>1 DEF ChainInv, ApprovalTyped, AppendCheckpoint
<1>3. ApprovalTyped'
  BY <1>1, <1>2 DEF ChainInv, ApprovalTyped, AppendCheckpoint
<1>4. /\ Len(checkpoints') = Len(checkpoints) + 1
      /\ \A n \in 1 .. Len(checkpoints) : checkpoints'[n] = checkpoints[n]
      /\ checkpoints'[Len(checkpoints) + 1] = runtimeFence
      /\ \A n \in 1 .. Len(checkpoints) : checkpoints[n] \in Nat
      /\ Len(checkpoints) \in Nat
  BY <1>1, <1>2
<1>5. CheckpointsFenced'
  BY <1>1, <1>4 DEF ChainInv, CheckpointsFenced
<1> QED
  BY <1>3, <1>5 DEF ChainInv

LEMMA CancelJobsSafe ==
  ASSUME JobsTyped, NEW r, CancelExecutionJobs(r) PROVE JobsTyped'
  BY DEF JobsTyped, JobStatus, CancelExecutionJobs

---------------------------------------------------------------------------
LEMMA InitInv == Init => Inv
<1> SUFFICES ASSUME Init PROVE Inv
  OBVIOUS
<1>1. 1 \in Jobs
  BY BoundsAssumption DEF Jobs
<1>2. RunInv
  BY DEF Init, RunInv, RunTyped, Lifecycle!TypeOK, Lifecycle!Status, LeaseOnlyWhileRunning
<1>3. ChainInv
  <2>1. checkpoints = <<>> /\ checkpoints \in Seq(Nat)
    BY DEF Init
  <2>2. CheckpointsFenced
    BY <2>1 DEF CheckpointsFenced
  <2> QED
    BY <2>1, <2>2 DEF Init, ChainInv, ApprovalTyped, Attention
<1>4. JobsTyped
  BY <1>1 DEF Init, JobsTyped, JobStatus
<1>5. ClaimInv
  BY <1>1 DEF Init, ClaimInv, ClaimsTyped, VerdictSelected, PC
<1>6. FenceInv
  BY DEF Init, FenceInv, LeasesTyped, FencesExclusive
<1>7. AdriftTyped /\ BoundsTyped
  BY DEF Init, AdriftTyped, BoundsTyped
<1> QED
  BY <1>2, <1>3, <1>4, <1>5, <1>6, <1>7 DEF Inv

---------------------------------------------------------------------------
(* Claiming a job and acquiring the lease.                                 *)
LEMMA ClaimSafe ==
  ASSUME Inv, NEW e \in Executors, NEW j \in Jobs, Claim(e, j) PROVE Inv'
<1>1. JobsTyped'
  BY DEF Inv, JobsTyped, JobStatus, Claim
<1>2. ClaimsTyped'
  BY DEF Inv, JobsTyped, ClaimInv, ClaimsTyped, PC, Claim
<1>3. VerdictSelected'
  BY DEF Inv, ClaimInv, ClaimsTyped, VerdictSelected, PC, Claim
<1> QED
  BY Kept, <1>1, <1>2, <1>3 DEF Inv, ClaimInv, Claim

(* The new fence is greater than any lease, checkpoint or execution has.   *)
LEMMA AcquireSafe ==
  ASSUME Inv, NEW e \in Executors, AcquireLease(e) PROVE Inv'
<1>1. runtimeFence \in Nat /\ runtimeFence' = runtimeFence + 1 /\ NextFence = runtimeFence + 1
  BY DEF Inv, RunInv, RunTyped, Lifecycle!TypeOK, LeaseOnlyWhileRunning, AcquireLease, NextFence
<1>2. RunInv'
  BY <1>1 DEF Inv, RunInv, RunTyped, Lifecycle!TypeOK, Lifecycle!Status, LeaseOnlyWhileRunning,
     AcquireLease
<1>3. ChainInv'
  BY <1>1 DEF Inv, ChainInv, ApprovalTyped, CheckpointsFenced, AcquireLease, chainVars, approvalVars
<1>4. LeasesTyped'
  BY <1>1 DEF Inv, RunInv, RunTyped, Lifecycle!TypeOK, ChainInv, ApprovalTyped, FenceInv,
     LeasesTyped, AcquireLease
<1>5. FencesExclusive'
  <2>1. /\ exFence \in [Executors -> Nat]
        /\ \A x \in Executors : exFence[x] <= runtimeFence
        /\ exFence' = [exFence EXCEPT ![e] = runtimeFence + 1]
    BY <1>1 DEF Inv, FenceInv, LeasesTyped, FencesExclusive, AcquireLease
  <2>2. \A x \in Executors : x # e => exFence'[x] = exFence[x] /\ exFence'[x] # exFence'[e]
    BY <1>1, <2>1
  <2>3. \A x \in Executors : exFence'[x] <= runtimeFence'
    BY <1>1, <2>1
  <2>4. ASSUME NEW d \in Executors, NEW x \in Executors, exFence'[d] = exFence'[x],
               exFence'[x] # 0
        PROVE  d = x
    BY <2>2, <2>4 DEF Inv, FenceInv, FencesExclusive
  <2> QED
    BY <2>3, <2>4 DEF FencesExclusive
<1>6. ClaimInv'
  BY GotoSafe DEF Inv, PC, AcquireLease
<1> QED
  BY Kept, <1>2, <1>3, <1>4, <1>5, <1>6 DEF Inv, FenceInv, AcquireLease

LEMMA AcquireRefusedSafe ==
  ASSUME Inv, NEW e \in Executors, AcquireRefused(e) PROVE Inv'
<1>1. ClaimInv' /\ FenceInv'
  BY EndHandlerSafe DEF Inv, AcquireRefused, Results, Outcomes, runVars
<1> QED
  BY Kept, <1>1 DEF Inv, AcquireRefused

---------------------------------------------------------------------------
(* The supervisor's steps.                                                 *)
LEMMA SuperviseSafe ==
  ASSUME Inv, NEW e \in Executors, Supervise(e) PROVE Inv'
<1>1. CASE ControlRenewed(e)
  <2>1. ClaimInv'
    BY <1>1, GotoSafe DEF Inv, PC, ControlRenewed
  <2> QED
    BY <1>1, <2>1, Kept DEF Inv, ControlRenewed
<1>2. CASE IssueSave(e)
  <2>1. ClaimInv'
    BY <1>2, GotoSafe DEF Inv, PC, IssueSave
  <2> QED
    BY <1>2, <2>1, Kept DEF Inv, IssueSave
<1>3. CASE StoreSave(e)
  <2>1. SaveOf(e) \in Save /\ runtimeFence' = runtimeFence /\ status \in Lifecycle!Status
    BY <1>3, SaveOfTyped DEF Inv, RunInv, RunTyped, Lifecycle!TypeOK, StoreSave, MoveRun
  <2>2. RunInv'
    BY <1>3, <2>1, LeasedMove DEF Inv, StoreSave
  <2>3. ChainInv'
    BY <1>3, <2>1, AppendSafe DEF Inv, ChainInv, ApprovalTyped, StoreSave, approvalVars
  <2>4. ClaimInv'
    BY <1>3, GotoSafe DEF Inv, PC, StoreSave
  <2>5. FenceInv'
    BY <1>3, <2>1 DEF Inv, RunInv, RunTyped, Lifecycle!TypeOK, FenceInv, LeasesTyped,
       FencesExclusive, StoreSave
  <2> QED
    BY <1>3, <2>2, <2>3, <2>4, <2>5, Kept DEF Inv, StoreSave
<1>4. CASE SaveConflict(e)
  <2>1. ClaimInv'
    BY <1>4, GotoWithSafe DEF Inv, PC, Results, Outcomes, SaveConflict
  <2> QED
    BY <1>4, <2>1, Kept DEF Inv, SaveConflict
<1>5. CASE ObserveShutdown(e) \/ ObserveLeaseLost(e)
  <2>1. ClaimInv' /\ AdriftTyped'
    BY <1>5, GotoWithSafe, SetAdriftSafe
    DEF Inv, PC, Results, Outcomes, ObserveShutdown, ObserveLeaseLost
  <2> QED
    BY <1>5, <2>1, Kept DEF Inv, ObserveShutdown, ObserveLeaseLost
<1>6. CASE ObserveCancel(e)
  <2>1. ClaimInv' /\ AdriftTyped'
    BY <1>6, GotoWithSafe, SetAdriftSafe DEF Inv, PC, Results, Verdicts, ObserveCancel
  <2> QED
    BY <1>6, <2>1, Kept DEF Inv, ObserveCancel
<1>7. CASE RequestApproval(e)
  <2> DEFINE asked == [SaveOf(e) EXCEPT !.owes = TRUE]
  <2>1. SaveOf(e) \in Save /\ asked \in Save /\ asked.fence = SaveOf(e).fence
    BY SaveOfTyped DEF Inv, Save
  <2>2. "waiting_for_approval" \in Lifecycle!Status /\ runtimeFence' = runtimeFence
    BY <1>7 DEF RequestApproval, MoveRun, Lifecycle!Status
  <2>3. RunInv'
    BY <1>7, <2>2, UnleasedMove DEF Inv, RequestApproval
  <2>4. attention' \in Attention /\ deadlineArmed' \in BOOLEAN
    BY <1>7 DEF RequestApproval, Attention
  <2>5. ChainInv'
    BY <1>7, <2>1, <2>2, <2>4, AppendSafe DEF Inv, RequestApproval
  <2>6. ClaimInv' /\ FenceInv'
    BY <1>7, <2>2, EndHandlerSafe DEF Inv, Results, Outcomes, RequestApproval
  <2> QED
    BY <1>7, <2>3, <2>5, <2>6, Kept DEF Inv, RequestApproval
<1>8. CASE UseApproval(e)
  <2>1. FenceInv'
    BY <1>8 DEF Inv, FenceInv, LeasesTyped, FencesExclusive, UseApproval, runVars
  <2> QED
    BY <1>8, <2>1, Kept DEF Inv, UseApproval
<1>9. CASE HaltForAttention(e)
  <2>1. RunAfterExpiry \in Lifecycle!Status /\ runtimeFence' = runtimeFence
    BY <1>9 DEF HaltForAttention, ExpireRun, RunAfterExpiry, MoveRun, Lifecycle!Status,
       Lifecycle!Terminal
  <2>2. RunInv' /\ JobsTyped'
    BY <1>9, <2>1, UnleasedMove, CancelJobsSafe DEF Inv, HaltForAttention, ExpireRun
  <2>3. ChainInv'
    BY <1>9, <2>1 DEF Inv, ChainInv, ApprovalTyped, CheckpointsFenced, Attention,
       HaltForAttention, chainVars
  <2>4. ClaimInv' /\ FenceInv'
    BY <1>9, <2>1, EndHandlerSafe DEF Inv, Results, Outcomes, HaltForAttention
  <2> QED
    BY <1>9, <2>2, <2>3, <2>4, Kept DEF Inv, HaltForAttention
<1>10. CASE \E v \in Verdicts : SelectTerminal(e, v)
  <2>1. PICK v \in Verdicts : SelectTerminal(e, v)
    BY <1>10
  <2>2. ClaimInv' /\ AdriftTyped'
    BY <2>1, GotoWithSafe, SetAdriftSafe DEF Inv, PC, Results, SelectTerminal
  <2> QED
    BY <2>1, <2>2, Kept DEF Inv, SelectTerminal
<1>11. CASE Finalize(e)
  <2>1. CASE EndHandler(e, "returned") /\ UNCHANGED runVars
    <3>1. ClaimInv' /\ FenceInv'
      BY <2>1, EndHandlerSafe DEF Inv, Results, Outcomes, runVars
    <3> QED
      BY <1>11, <2>1, <3>1, Kept DEF Inv, Finalize
  <2>2. CASE pc[e] = "finalizing" /\ MoveRun(exResult[e]) /\ DropLease /\ EndHandler(e, "returned")
    <3>1. exResult[e] \in Lifecycle!Status /\ runtimeFence' = runtimeFence
      BY <2>2 DEF Inv, ClaimInv, VerdictSelected, Verdicts, Lifecycle!Status, Lifecycle!Terminal,
         MoveRun
    <3>2. RunInv'
      BY <2>2, <3>1, UnleasedMove DEF Inv
    <3>3. ClaimInv' /\ FenceInv'
      BY <2>2, <3>1, EndHandlerSafe DEF Inv, Results, Outcomes
    <3>4. ChainInv'
      BY <1>11, <3>1, FenceKept DEF Finalize
    <3> QED
      BY <1>11, <3>2, <3>3, <3>4, Kept DEF Inv, Finalize
  <2>3. CASE GotoWith(e, "releasing", "released") /\ UNCHANGED <<runVars, leaseVars>>
    <3>1. ClaimInv'
      BY <2>3, GotoWithSafe DEF Inv, PC, Results, Outcomes
    <3> QED
      BY <1>11, <2>3, <3>1, Kept DEF Inv, Finalize
  <2> QED
    BY <1>11, <2>1, <2>2, <2>3 DEF Finalize
<1>12. CASE ReleaseLease(e)
  <2>1. exResult[e] \in Results /\ status \in Lifecycle!Status /\ runtimeFence' = runtimeFence
    BY <1>12 DEF Inv, ClaimInv, ClaimsTyped, Results, RunInv, RunTyped, Lifecycle!TypeOK,
       ReleaseLease, MoveRun, runVars
  <2>2. RunInv'
    BY <1>12, <2>1, UnleasedMove, Kept DEF Inv, ReleaseLease
  <2>3. ClaimInv' /\ FenceInv'
    BY <1>12, <2>1, EndHandlerSafe DEF Inv, ReleaseLease
  <2>4. ChainInv'
    BY <1>12, <2>1, FenceKept DEF ReleaseLease
  <2> QED
    BY <1>12, <2>2, <2>3, <2>4, Kept DEF Inv, ReleaseLease
<1> QED
  BY <1>1, <1>2, <1>3, <1>4, <1>5, <1>6, <1>7, <1>8, <1>9, <1>10, <1>11, <1>12 DEF Supervise

---------------------------------------------------------------------------
(* The job outcome, written by id.                                         *)
LEMMA SettleSafe ==
  ASSUME Inv, NEW e \in Executors, ReleaseJob(e) \/ SettleReturned(e) \/ SettleThrew(e)
  PROVE  Inv'
<1>1. PICK outcome \in JobStatus : Settled(e, outcome)
  BY DEF ReleaseJob, SettleReturned, SettleThrew, JobStatus
<1>2. ClaimInv' /\ FenceInv'
  BY <1>1, EndExecutionSafe DEF Inv, Settled, runVars
<1>3. attempts' \in [Jobs -> Nat]
  <2>1. exAttempts[e] \in Nat /\ Refund(exAttempts[e]) \in Nat
    BY DEF Inv, ClaimInv, ClaimsTyped, Refund
  <2> QED
    BY <2>1 DEF Inv, JobsTyped, ReleaseJob, SettleReturned, SettleThrew
<1>4. cancelRequested' \in [Jobs -> BOOLEAN]
  BY DEF Inv, JobsTyped, ReleaseJob, SettleReturned, SettleThrew
<1>5. JobsTyped'
  BY <1>1, <1>3, <1>4 DEF Inv, JobsTyped, Settled
<1> QED
  BY <1>1, <1>2, <1>5, Kept DEF Inv, Settled

LEMMA WatchCancelSafe ==
  ASSUME Inv, NEW e \in Executors, WatchCancel(e) PROVE Inv'
<1>1. ClaimInv'
  BY DEF Inv, ClaimInv, ClaimsTyped, VerdictSelected, WatchCancel
<1> QED
  BY <1>1, Kept DEF Inv, WatchCancel

---------------------------------------------------------------------------
(* Failures.                                                               *)
LEMMA FaultSafe ==
  ASSUME BoundsTyped, Fault PROVE BoundsTyped'
  BY DEF BoundsTyped, Fault

LEMMA FailSafe ==
  ASSUME Inv, Fail PROVE Inv'
<1>1. ASSUME NEW e \in Executors, Crash(e) PROVE Inv'
  <2>1. ClaimInv' /\ FenceInv' /\ AdriftTyped'
    BY <1>1, EndExecutionSafe, SetAdriftSafe DEF Inv, Crash, runVars
  <2> QED
    BY <1>1, <2>1, Kept, FaultSafe DEF Inv, Crash
<1>2. ASSUME NEW e \in Executors, Shutdown(e) PROVE Inv'
  <2>1. ClaimInv'
    BY <1>2 DEF Inv, ClaimInv, ClaimsTyped, VerdictSelected, Shutdown
  <2> QED
    BY <1>2, <2>1, Kept, FaultSafe DEF Inv, Shutdown
<1>3. ASSUME NEW e \in Executors, StoreFails(e) PROVE Inv'
  <2>1. "threw" \in Results /\ exResult[e] \in Results /\ UNCHANGED runtimeFence
    BY <1>3 DEF Inv, ClaimInv, ClaimsTyped, Results, Outcomes, StoreFails, runVars
  <2>2. ClaimInv' /\ FenceInv'
    <3>1. CASE \E r \in Results : EndHandler(e, r)
      BY <2>1, <3>1, EndHandlerSafe DEF Inv
    <3>2. CASE GotoWith(e, "releasing", "threw") /\ UNCHANGED leaseVars
      BY <2>1, <3>2, GotoWithSafe, FenceKept DEF Inv, PC
    <3>3. CASE EndExecution(e)
      BY <2>1, <3>3, EndExecutionSafe DEF Inv
    <3> QED
      BY <1>3, <2>1, <3>1, <3>2, <3>3 DEF StoreFails
  <2> QED
    BY <1>3, <2>2, Kept, FaultSafe DEF Inv, StoreFails
<1>4. CASE ExpireHeld
  <2>1. RunInv' /\ runtimeFence' = runtimeFence
    BY <1>4 DEF Inv, RunInv, RunTyped, Lifecycle!TypeOK, LeaseOnlyWhileRunning, ExpireHeld
  <2> QED
    BY <1>4, <2>1, Kept, FenceKept, FaultSafe DEF Inv, ExpireHeld, exVars
<1>5. ASSUME NEW stale \in SUBSET Jobs, Sweep(stale) PROVE Inv'
  <2>1. JobsTyped'
    BY <1>5 DEF Inv, JobsTyped, JobStatus, Sweep
  <2> QED
    BY <1>5, <2>1, Kept, FaultSafe DEF Inv, Sweep, exVars
<1> QED
  BY <1>1, <1>2, <1>3, <1>4, <1>5 DEF Fail

---------------------------------------------------------------------------
(* Time, recovery and late saves.                                          *)
LEMMA ExpireAbandonedSafe ==
  ASSUME Inv, ExpireAbandoned PROVE Inv'
<1>1. RunInv' /\ runtimeFence' = runtimeFence
  BY DEF Inv, RunInv, RunTyped, Lifecycle!TypeOK, LeaseOnlyWhileRunning, ExpireAbandoned
<1> QED
  BY <1>1, Kept, FenceKept DEF Inv, ExpireAbandoned, exVars

LEMMA DeadlineSafe ==
  ASSUME Inv, DeadlinePasses PROVE Inv'
<1>1. attention' \in Attention /\ deadlineArmed' \in BOOLEAN
  BY DEF Inv, ChainInv, ApprovalTyped, Attention, DeadlinePasses
<1>2. RunAfterExpiry \in Lifecycle!Status
  BY DEF RunAfterExpiry, Lifecycle!Status, Lifecycle!Terminal
<1>3. RunInv' /\ JobsTyped' /\ runtimeFence' = runtimeFence
  <2>1. CASE ExpireRun
    BY <1>2, <2>1, UnleasedMove, CancelJobsSafe DEF Inv, ExpireRun, MoveRun
  <2>2. CASE UNCHANGED <<runVars, jobVars>>
    BY <2>2, Kept DEF Inv, runVars
  <2> QED
    BY <2>1, <2>2 DEF DeadlinePasses
<1>4. ChainInv'
  BY <1>1, <1>3 DEF Inv, ChainInv, ApprovalTyped, CheckpointsFenced, DeadlinePasses, chainVars
<1> QED
  BY <1>3, <1>4, Kept, FenceKept DEF Inv, DeadlinePasses, exVars

LEMMA LateSaveSafe ==
  ASSUME Inv, NEW w \in adrift, LateSave(w) PROVE Inv'
<1>1. w \in Save /\ status \in Lifecycle!Status /\ runtimeFence' = runtimeFence
  BY DEF Inv, AdriftTyped, RunInv, RunTyped, Lifecycle!TypeOK, LateSave, MoveRun
<1>2. RunInv'
  BY <1>1, LeasedMove DEF Inv, LateSave
<1>3. ChainInv'
  BY <1>1, AppendSafe DEF Inv, ChainInv, ApprovalTyped, LateSave, approvalVars
<1>4. AdriftTyped'
  BY DEF Inv, AdriftTyped, LateSave
<1> QED
  BY <1>1, <1>2, <1>3, <1>4, Kept, FenceKept DEF Inv, LateSave, exVars

LEMMA RecoverSafe ==
  ASSUME Inv, Recover PROVE Inv'
<1>1. CASE RecoverRequeue
  <2>1. status \in Lifecycle!Status /\ runtimeFence' = runtimeFence
    BY <1>1 DEF Inv, RunInv, RunTyped, Lifecycle!TypeOK, RecoverRequeue, MoveRun, runVars
  <2>2. RunInv'
    BY <1>1, <2>1, UnleasedMove, Kept DEF Inv, RecoverRequeue
  <2>3. attempts' \in [Jobs -> Nat]
    <3>1. \A n \in Nat : Refund(n) \in Nat
      BY DEF Refund
    <3> QED
      BY <1>1, <3>1 DEF Inv, JobsTyped, RecoverRequeue
  <2>4. JobsTyped'
    BY <1>1, <2>3 DEF Inv, JobsTyped, JobStatus, RecoverRequeue
  <2> QED
    BY <1>1, <2>1, <2>2, <2>4, Kept, FenceKept DEF Inv, RecoverRequeue, exVars
<1>2. CASE RecoverQuarantine
  <2>1. "quarantined" \in Lifecycle!Status /\ runtimeFence' = runtimeFence
    BY <1>2 DEF Lifecycle!Status, Lifecycle!Terminal, RecoverQuarantine, MoveRun
  <2>2. RunInv'
    BY <1>2, <2>1, UnleasedMove DEF Inv, RecoverQuarantine
  <2>3. JobsTyped'
    BY <1>2 DEF Inv, JobsTyped, JobStatus, RecoverQuarantine
  <2> QED
    BY <1>2, <2>1, <2>2, <2>3, Kept, FenceKept DEF Inv, RecoverQuarantine, exVars
<1> QED
  BY <1>1, <1>2 DEF Recover

---------------------------------------------------------------------------
(* Operators.                                                              *)
LEMMA OperateSafe ==
  ASSUME Inv, Operate PROVE Inv'
<1>1. /\ BoundsTyped' /\ ClaimInv' /\ AdriftTyped'
      /\ UNCHANGED leaseVars /\ UNCHANGED chainVars
      /\ UNCHANGED <<deadlineArmed, disposition>>
  <2>1. /\ Command
        /\ UNCHANGED <<exVars, adrift, chainVars, deadlineArmed, disposition>>
    BY DEF Inv, BoundsTyped, Operate, Pause, Resume, Stop, Approve, Reject, CancelJob, approvalVars
  <2>2. BoundsTyped'
    BY <2>1 DEF Inv, BoundsTyped, Command
  <2> QED
    BY <2>1, <2>2, Kept DEF exVars
<1>2. runtimeFence' = runtimeFence
  BY DEF Operate, Pause, Resume, Stop, Approve, Reject, CancelJob, MoveRun, runVars
<1>3. RunInv' /\ JobsTyped'
  <2> DEFINE Taken(to) == MoveRun(to) /\ DropLease
  <2>1. CASE Pause \/ Stop \/ Reject
    <3>1. {"paused", "cancelled", "failed"} \subseteq Lifecycle!Status
      BY DEF Lifecycle!Status, Lifecycle!Terminal
    <3>2. \E to \in Lifecycle!Status : Taken(to)
      BY <2>1, <3>1 DEF Pause, Stop, Reject
    <3>3. \E r \in BOOLEAN : CancelExecutionJobs(r)
      BY <2>1 DEF Pause, Stop, Reject
    <3> QED
      BY <3>2, <3>3, UnleasedMove, CancelJobsSafe DEF Inv
  <2>2. CASE Resume
    <3>1. "queued" \in Lifecycle!Status /\ leaseFence = 0
      BY <2>2 DEF Inv, RunInv, LeaseOnlyWhileRunning, Resume, Lifecycle!Status
    <3>2. RunInv'
      BY <2>2, <3>1, LeasedMove DEF Inv, Resume
    <3>3. JobsTyped'
      BY <2>2, BoundsAssumption DEF Inv, JobsTyped, Jobs, JobStatus, Resume
    <3> QED
      BY <3>2, <3>3
  <2>3. CASE \E j \in Jobs : CancelJob(j)
    <3>1. JobsTyped'
      BY <2>3 DEF Inv, JobsTyped, JobStatus, CancelJob
    <3> QED
      BY <2>3, <3>1, Kept DEF CancelJob
  <2>4. CASE Approve
    BY <2>4, Kept DEF Approve
  <2> QED
    BY <2>1, <2>2, <2>3, <2>4 DEF Operate
<1>4. attention' \in Attention
  BY DEF Inv, ChainInv, ApprovalTyped, Attention, Operate, Pause, Resume, Stop, Approve, Reject,
     CancelJob, approvalVars
<1>5. ChainInv'
  BY <1>1, <1>2, <1>4 DEF Inv, ChainInv, ApprovalTyped, CheckpointsFenced, chainVars
<1> QED
  BY <1>1, <1>2, <1>3, <1>5, FenceKept DEF Inv

---------------------------------------------------------------------------
LEMMA StepInv == Inv /\ [Next]_vars => Inv'
<1> SUFFICES ASSUME Inv, [Next]_vars PROVE Inv'
  OBVIOUS
<1>1. CASE \E e \in Executors, j \in Jobs : Claim(e, j)
  BY <1>1, ClaimSafe
<1>2. ASSUME NEW e \in Executors, Execute(e) PROVE Inv'
  BY <1>2, AcquireSafe, AcquireRefusedSafe, SuperviseSafe, SettleSafe, WatchCancelSafe DEF Execute
<1>3. CASE \E w \in adrift : LateSave(w)
  BY <1>3, LateSaveSafe
<1>4. CASE Recover \/ ExpireAbandoned \/ DeadlinePasses
  BY <1>4, RecoverSafe, ExpireAbandonedSafe, DeadlineSafe
<1>5. CASE Operate \/ Fail
  BY <1>5, OperateSafe, FailSafe
<1>6. CASE UNCHANGED vars
  BY <1>6, Kept DEF Inv, vars, exVars
<1> QED
  BY <1>1, <1>2, <1>3, <1>4, <1>5, <1>6 DEF Next

(* The invariant the other theorems rest on.                               *)
THEOREM Invariance == Spec => []Inv
<1> QED
  BY InitInv, StepInv, PTL DEF Spec

(* Every variable keeps its type, in every run of any size.                *)
THEOREM TypeCorrect == Spec => []TypeOK
<1>1. Inv => TypeOK
  BY DEF Inv, RunInv, ChainInv, ClaimInv, FenceInv, TypeOK
<1> QED
  BY <1>1, Invariance, PTL

(* No lease outlives the running state of its run: the fact that lets the  *)
(* writers of checkpoints and receipts test the lease alone.               *)
THEOREM LeaseSafety == Spec => []LeaseOnlyWhileRunning
<1>1. Inv => LeaseOnlyWhileRunning
  BY DEF Inv, RunInv
<1> QED
  BY <1>1, Invariance, PTL

(* Fencing: two executions never share a fence, and the checkpoint chain   *)
(* never takes a write of an execution that has been superseded.           *)
THEOREM Fencing == Spec => [](FencesExclusive /\ CheckpointsFenced)
<1>1. Inv => FencesExclusive /\ CheckpointsFenced
  BY DEF Inv, FenceInv, ChainInv
<1> QED
  BY <1>1, Invariance, PTL

---------------------------------------------------------------------------
(* Checkpoints are appended by three actions only, each under the lease.   *)
LEMMA AppendersFenced ==
  ASSUME Inv, Next, checkpoints' # checkpoints PROVE status = "running" /\ leaseLive
<1>1. \/ \E e \in Executors : StoreSave(e) \/ RequestApproval(e)
      \/ \E w \in adrift : LateSave(w)
  <2>1. CASE \E e \in Executors, j \in Jobs : Claim(e, j)
    BY <2>1 DEF Claim, chainVars
  <2>2. ASSUME NEW e \in Executors, Execute(e), ~StoreSave(e), ~RequestApproval(e)
        PROVE  UNCHANGED checkpoints
    <3>1. CASE AcquireLease(e) \/ AcquireRefused(e)
      BY <3>1 DEF AcquireLease, AcquireRefused, chainVars
    <3>2. CASE Supervise(e)
      BY <2>2, <3>2 DEF Supervise, ControlRenewed, IssueSave, SaveConflict, ObserveShutdown,
         ObserveCancel, ObserveLeaseLost, UseApproval, HaltForAttention, SelectTerminal, Finalize,
         ReleaseLease, chainVars
    <3>3. CASE ReleaseJob(e) \/ SettleReturned(e) \/ SettleThrew(e) \/ WatchCancel(e)
      BY <3>3 DEF ReleaseJob, SettleReturned, SettleThrew, Settled, WatchCancel, chainVars
    <3> QED
      BY <2>2, <3>1, <3>2, <3>3 DEF Execute
  <2>3. CASE Recover \/ ExpireAbandoned \/ DeadlinePasses
    BY <2>3 DEF Recover, RecoverRequeue, RecoverQuarantine, ExpireAbandoned, DeadlinePasses, chainVars
  <2>4. CASE Operate
    BY <2>4 DEF Operate, Pause, Resume, Stop, Approve, Reject, CancelJob, chainVars
  <2>5. CASE Fail
    BY <2>5 DEF Fail, Crash, Shutdown, StoreFails, ExpireHeld, Sweep, chainVars
  <2> QED
    BY <2>1, <2>2, <2>3, <2>4, <2>5 DEF Next
<1>2. leaseLive
  BY <1>1 DEF StoreSave, RequestApproval, LateSave, SaveAccepted
<1> QED
  BY <1>2 DEF Inv, RunInv, LeaseOnlyWhileRunning

(* No checkpoint is written for a run that is not running under a live     *)
(* lease, whoever wrote it and however late.                               *)
THEOREM ProgressFenced == Spec => ProgressOnlyUnderLease
<1>1. Inv /\ [Next]_vars
      => [checkpoints' # checkpoints => status = "running" /\ leaseLive]_vars
  BY AppendersFenced
<1> QED
  BY <1>1, Invariance, PTL DEF Spec, ProgressOnlyUnderLease

---------------------------------------------------------------------------
(* Refinement: the record, under all of its writers, follows RunLifecycle. *)
LEMMA Transitions ==
  /\ Lifecycle!RunTransitions["queued"] = {"running", "paused", "cancelled"}
  /\ Lifecycle!RunTransitions["running"] = {"waiting_for_approval", "paused"} \union Terminal
  /\ Lifecycle!RunTransitions["waiting_for_approval"] =
         {"queued", "running", "paused", "failed", "cancelled", "quarantined"}
  /\ Lifecycle!RunTransitions["paused"] =
         {"queued", "running", "failed", "cancelled", "quarantined"}
  BY DEF Lifecycle!RunTransitions, Lifecycle!Status, Lifecycle!Terminal, Terminal

(* An update to another status is a Move, one to the same status a Touch.  *)
LEMMA MoveRefines ==
  ASSUME NEW to \in Lifecycle!RunTransitions[status] \ {"running"}, MoveRun(to)
  PROVE  Lifecycle!Move
  BY DEF MoveRun, Lifecycle!Move

LEMMA TouchRefines ==
  ASSUME status \in {"running", "paused"}, MoveRun(status)
  PROVE  Lifecycle!Touch
  BY DEF MoveRun, Lifecycle!Touch

LEMMA SuperviseRefines ==
  ASSUME Inv, NEW e \in Executors, Supervise(e)
  PROVE  [Lifecycle!Next]_(Lifecycle!vars)
<1>1. CASE StoreSave(e)
  BY <1>1, TouchRefines
  DEF Inv, RunInv, LeaseOnlyWhileRunning, StoreSave, SaveAccepted, Lifecycle!Next
<1>2. CASE RequestApproval(e)
  BY <1>2, Transitions, MoveRefines DEF RequestApproval, Lifecycle!Next
<1>3. CASE HaltForAttention(e)
  <2>1. RunAfterExpiry \in Lifecycle!RunTransitions[status] \ {"running"}
    BY <1>3, Transitions DEF HaltForAttention, RunAfterExpiry, Terminal, Lifecycle!Terminal
  <2> QED
    BY <1>3, <2>1, MoveRefines DEF HaltForAttention, ExpireRun, Lifecycle!Next
<1>4. CASE Finalize(e)
  <2>1. CASE pc[e] = "finalizing" /\ FencedRun(e) /\ MoveRun(exResult[e])
    <3>1. status = "running"
      BY <2>1 DEF Inv, RunInv, LeaseOnlyWhileRunning, FencedRun, Holds
    <3>2. exResult[e] \in Terminal /\ "running" \notin Terminal
      BY <2>1 DEF Inv, ClaimInv, VerdictSelected, Verdicts, Terminal, Lifecycle!Terminal
    <3> QED
      BY <2>1, <3>1, <3>2, Transitions, MoveRefines DEF Lifecycle!Next
  <2> QED
    BY <1>4, <2>1 DEF Finalize, runVars, Lifecycle!vars
<1>5. CASE ReleaseLease(e)
  BY <1>5, TouchRefines
  DEF Inv, RunInv, LeaseOnlyWhileRunning, ReleaseLease, runVars, Lifecycle!Next, Lifecycle!vars
<1>6. CASE UNCHANGED runVars
  BY <1>6 DEF runVars, Lifecycle!vars
<1> QED
  BY <1>1, <1>2, <1>3, <1>4, <1>5, <1>6
  DEF Supervise, ControlRenewed, IssueSave, SaveConflict, ObserveShutdown, ObserveCancel,
      ObserveLeaseLost, UseApproval, SelectTerminal

LEMMA DeadlineRefines ==
  ASSUME Inv, DeadlinePasses PROVE [Lifecycle!Next]_(Lifecycle!vars)
<1>1. CASE UNCHANGED runVars
  BY <1>1 DEF runVars, Lifecycle!vars
<1>2. CASE status \notin Terminal /\ MoveRun(RunAfterExpiry) /\ Lifecycle!LegalMove(status, RunAfterExpiry)
  <2>1. RunAfterExpiry \in {"paused", "failed"} /\ "failed" \in Terminal
    BY DEF RunAfterExpiry, Terminal, Lifecycle!Terminal
  <2>2. CASE status = RunAfterExpiry
    BY <1>2, <2>1, <2>2, TouchRefines DEF Lifecycle!Next
  <2>3. CASE RunAfterExpiry \in Lifecycle!RunTransitions[status]
    BY <1>2, <2>1, <2>3, MoveRefines DEF Lifecycle!Next
  <2> QED
    BY <1>2, <2>2, <2>3 DEF Lifecycle!LegalMove
<1> QED
  BY <1>1, <1>2 DEF DeadlinePasses, ExpireRun

LEMMA RecoverRefines ==
  ASSUME Inv, Recover PROVE [Lifecycle!Next]_(Lifecycle!vars)
<1>1. CASE RecoverRequeue
  BY <1>1, TouchRefines DEF RecoverRequeue, Recoverable, runVars, Lifecycle!Next, Lifecycle!vars
<1>2. CASE RecoverQuarantine
  BY <1>2, Transitions, MoveRefines
  DEF RecoverQuarantine, Recoverable, Terminal, Lifecycle!Terminal, Lifecycle!Next
<1> QED
  BY <1>1, <1>2 DEF Recover

LEMMA OperateRefines ==
  ASSUME Inv, Operate PROVE [Lifecycle!Next]_(Lifecycle!vars)
<1>1. CASE Pause
  BY <1>1, Transitions, MoveRefines DEF Pause, Lifecycle!Next
<1>2. CASE Resume
  BY <1>2, Transitions, MoveRefines DEF Resume, Lifecycle!Next
<1>3. CASE Stop
  <2>1. status \in {"queued", "running", "waiting_for_approval", "paused"}
    BY <1>3 DEF Inv, RunInv, RunTyped, Lifecycle!TypeOK, Lifecycle!Status, Terminal, Stop
  <2>2. "cancelled" \in Lifecycle!RunTransitions[status]
    BY <2>1, Transitions DEF Terminal, Lifecycle!Terminal
  <2> QED
    BY <1>3, <2>2, MoveRefines DEF Stop, Lifecycle!Next
<1>4. CASE Reject
  BY <1>4, Transitions, MoveRefines DEF Reject, Lifecycle!Next
<1>5. CASE Approve \/ \E j \in Jobs : CancelJob(j)
  BY <1>5 DEF Approve, CancelJob, runVars, Lifecycle!vars
<1> QED
  BY <1>1, <1>2, <1>3, <1>4, <1>5 DEF Operate

LEMMA StepRefines ==
  ASSUME Inv, [Next]_vars PROVE [Lifecycle!Next]_(Lifecycle!vars)
<1>1. CASE \E e \in Executors, j \in Jobs : Claim(e, j)
  BY <1>1 DEF Claim, runVars, Lifecycle!vars
<1>2. ASSUME NEW e \in Executors, Execute(e) PROVE [Lifecycle!Next]_(Lifecycle!vars)
  <2>1. CASE AcquireLease(e)
    <3>1. NextFence = runtimeFence + 1
      BY DEF Inv, RunInv, RunTyped, Lifecycle!TypeOK, LeaseOnlyWhileRunning, NextFence
    <3> QED
      BY <2>1, <3>1 DEF AcquireLease, Lifecycle!TakeOver, Lifecycle!Next
  <2>2. CASE AcquireRefused(e)
    BY <2>2 DEF AcquireRefused, runVars, Lifecycle!vars
  <2>3. CASE Supervise(e)
    BY <2>3, SuperviseRefines
  <2>4. CASE ReleaseJob(e) \/ SettleReturned(e) \/ SettleThrew(e) \/ WatchCancel(e)
    BY <2>4 DEF ReleaseJob, SettleReturned, SettleThrew, Settled, WatchCancel, runVars,
       Lifecycle!vars
  <2> QED
    BY <1>2, <2>1, <2>2, <2>3, <2>4 DEF Execute
<1>3. CASE \E w \in adrift : LateSave(w)
  BY <1>3, TouchRefines
  DEF Inv, RunInv, LeaseOnlyWhileRunning, LateSave, SaveAccepted, Lifecycle!Next
<1>4. CASE Recover
  BY <1>4, RecoverRefines
<1>5. CASE DeadlinePasses
  BY <1>5, DeadlineRefines
<1>6. CASE Operate
  BY <1>6, OperateRefines
<1>7. CASE ExpireAbandoned \/ Fail
  BY <1>7 DEF ExpireAbandoned, Fail, Crash, Shutdown, StoreFails, ExpireHeld, Sweep, runVars,
     Lifecycle!vars
<1>8. CASE UNCHANGED vars
  BY <1>8 DEF vars, runVars, Lifecycle!vars
<1> QED
  BY <1>1, <1>2, <1>3, <1>4, <1>5, <1>6, <1>7, <1>8 DEF Next

(* The run record implements RunLifecycle: only RUN_TRANSITIONS are taken, *)
(* terminal runs are frozen, and the fence grows by takeovers alone.       *)
THEOREM Refinement == Spec => FollowsLifecycle
<1>1. Init => Lifecycle!Init
  BY DEF Init, Lifecycle!Init
<1>2. Inv /\ [Next]_vars => [Lifecycle!Next]_(Lifecycle!vars)
  BY StepRefines
<1> QED
  BY <1>1, <1>2, Invariance, PTL DEF Spec, FollowsLifecycle, Lifecycle!Spec
---------------------------------------------------------------------------
(* Approval.  A request that was not granted withholds the completion: the *)
(* run does not execute while the request is open; it never comes back     *)
(* from a rejection; and after an expiry the checkpoint, the execution     *)
(* under the lease and its late saves still list the request.              *)
Owing == attention \in {"open", "expired"}

StatusWithheld ==
    /\ attention = "open" => status \notin {"queued", "running"}
    /\ attention = "rejected" => status \in Terminal
    /\ attention \in {"open", "expired", "rejected"} => status # "completed"
    /\ Owing /\ status \notin Terminal => pendingApproval

Withholds(e) ==
    exFence[e] = leaseFence =>
        exOwes[e] /\ ~(pc[e] = "finalizing" /\ exResult[e] = "completed")

LeaseWithheld ==
    Owing /\ leaseFence # 0 =>
        /\ \A e \in Executors : Withholds(e)
        /\ \A w \in adrift : w.fence = leaseFence => w.owes

SavesFenced == \A w \in adrift : w.fence <= runtimeFence

Withheld == StatusWithheld /\ LeaseWithheld /\ SavesFenced

(* The run ends or halts otherwise, or stays as it is, ...                 *)
LEMMA StatusKept ==
  ASSUME StatusWithheld, UNCHANGED <<attention, pendingApproval>>,
         \/ status' = status
         \/ status \notin Terminal /\ status' \in {"paused", "failed", "cancelled", "quarantined"}
  PROVE  StatusWithheld'
  BY DEF StatusWithheld, Owing, Terminal, Lifecycle!Terminal

(* ... and an execution under the lease forgets nothing.                   *)
Forgets(d) == exFence'[d] = 0

Recalls(d) ==
    /\ exFence'[d] = exFence[d] /\ exOwes'[d] = exOwes[d]
    /\ pc'[d] = "finalizing" /\ exResult'[d] = "completed" =>
          ~exOwes[d] \/ (pc[d] = "finalizing" /\ exResult[d] = "completed")

LEMMA LeaseKept ==
  ASSUME LeaseWithheld, UNCHANGED attention, leaseFence' \in {0, leaseFence},
         \A d \in Executors : Forgets(d) \/ Recalls(d),
         \A w \in adrift' : w \in adrift \/ \E d \in Executors : w = SaveOf(d)
  PROVE  LeaseWithheld'
<1> SUFFICES ASSUME Owing, leaseFence # 0, leaseFence' = leaseFence
             PROVE  /\ \A d \in Executors : Withholds(d)'
                    /\ \A w \in adrift' : w.fence = leaseFence => w.owes
  BY DEF LeaseWithheld, Owing
<1>1. \A d \in Executors : Withholds(d)
  BY DEF LeaseWithheld
<1>2. ASSUME NEW d \in Executors PROVE Withholds(d)'
  BY <1>1 DEF Withholds, Forgets, Recalls
<1>3. ASSUME NEW w \in adrift', w.fence = leaseFence PROVE w.owes
  <2>1. CASE w \in adrift
    BY <1>3, <2>1 DEF LeaseWithheld
  <2>2. CASE \E d \in Executors : w = SaveOf(d)
    BY <1>1, <1>3, <2>2 DEF SaveOf, Withholds
  <2> QED
    BY <1>3, <2>1, <2>2
<1> QED
  BY <1>2, <1>3

LEMMA SavesKept ==
  ASSUME Inv, SavesFenced, UNCHANGED runtimeFence,
         \A w \in adrift' : w \in adrift \/ \E d \in Executors : w = SaveOf(d)
  PROVE  SavesFenced'
  BY DEF Inv, FenceInv, FencesExclusive, SavesFenced, SaveOf

LEMMA WithheldKept ==
  ASSUME Inv, Withheld, UNCHANGED <<attention, pendingApproval, runtimeFence>>,
         \/ status' = status
         \/ status \notin Terminal /\ status' \in {"paused", "failed", "cancelled", "quarantined"},
         leaseFence' \in {0, leaseFence},
         \A d \in Executors : Forgets(d) \/ Recalls(d),
         \A w \in adrift' : w \in adrift \/ \E d \in Executors : w = SaveOf(d)
  PROVE  Withheld'
  BY StatusKept, LeaseKept, SavesKept DEF Withheld

(* What the steps of an execution do to what executions recall.            *)
LEMMA MovesRecall ==
  ASSUME Inv, NEW e \in Executors
  PROVE  /\ UNCHANGED exVars => \A d \in Executors : Recalls(d)
         /\ UNCHANGED <<pc, exResult>> /\ UNCHANGED leaseVars => \A d \in Executors : Recalls(d)
         /\ \A at : Goto(e, at) /\ at # "finalizing" /\ UNCHANGED leaseVars =>
               \A d \in Executors : Recalls(d)
         /\ \A at, result :
               /\ GotoWith(e, at, result) /\ UNCHANGED leaseVars
               /\ (at = "finalizing" /\ result = "completed") => ~exOwes[e]
               => \A d \in Executors : Recalls(d)
         /\ \A result : EndHandler(e, result) => \A d \in Executors : Forgets(d) \/ Recalls(d)
         /\ EndExecution(e) => \A d \in Executors : Forgets(d) \/ Recalls(d)
<1>1. /\ pc \in [Executors -> PC] /\ exFence \in [Executors -> Nat]
      /\ exOwes \in [Executors -> BOOLEAN]
      /\ exResult \in [Executors -> Results]
  BY DEF Inv, ClaimInv, ClaimsTyped, FenceInv, LeasesTyped, Results
<1>2. /\ UNCHANGED exVars => \A d \in Executors : Recalls(d)
      /\ UNCHANGED <<pc, exResult>> /\ UNCHANGED leaseVars => \A d \in Executors : Recalls(d)
  BY DEF Recalls, exVars, leaseVars
<1>3. ASSUME NEW at, Goto(e, at), at # "finalizing", UNCHANGED leaseVars, NEW d \in Executors
      PROVE  Recalls(d)
  BY <1>1, <1>3 DEF Goto, Recalls, leaseVars
<1>4. ASSUME NEW at, NEW result, GotoWith(e, at, result), UNCHANGED leaseVars, NEW d \in Executors,
             at = "finalizing" /\ result = "completed" => ~exOwes[e]
      PROVE  Recalls(d)
  BY <1>1, <1>4 DEF GotoWith, Recalls, leaseVars
<1>5. ASSUME NEW result, EndHandler(e, result), NEW d \in Executors
      PROVE  Forgets(d) \/ Recalls(d)
  BY <1>1, <1>5 DEF EndHandler, GotoWith, ForgetLease, Forgets, Recalls
<1>6. ASSUME EndExecution(e), NEW d \in Executors PROVE Forgets(d) \/ Recalls(d)
  BY <1>1, <1>6 DEF EndExecution, ForgetLease, Forgets, Recalls
<1> QED
  BY <1>2, <1>3, <1>4, <1>5, <1>6
LEMMA WithheldInit == Init => Withheld
  BY DEF Init, Withheld, StatusWithheld, LeaseWithheld, SavesFenced, Owing

(* A request that is not pending withholds nothing.                        *)
LEMMA NothingWithheld ==
  ASSUME SavesFenced', attention' \in {"none", "approved", "lapsed"} PROVE Withheld'
  BY DEF Withheld, StatusWithheld, LeaseWithheld, Owing

(* A save under the lease lists the request.                               *)
LEMMA WithheldSave ==
  ASSUME Inv, Withheld, NEW w, leaseLive, leaseFence = w.fence, AppendCheckpoint(w),
         Owing => w.owes, UNCHANGED <<attention, status, runtimeFence, leaseFence>>,
         \A d \in Executors : Forgets(d) \/ Recalls(d), adrift' \subseteq adrift
  PROVE  Withheld'
<1>1. StatusWithheld'
  <2>1. pendingApproval' = w.owes
    BY DEF AppendCheckpoint
  <2> QED
    BY <2>1 DEF Withheld, StatusWithheld, Owing
<1>2. LeaseWithheld'
  BY LeaseKept DEF Withheld
<1>3. SavesFenced'
  BY SavesKept DEF Withheld
<1> QED
  BY <1>1, <1>2, <1>3 DEF Withheld

LEMMA WithheldAcquire ==
  ASSUME Inv, Withheld, NEW e \in Executors, AcquireLease(e) PROVE Withheld'
<1>1. /\ runtimeFence \in Nat /\ runtimeFence' = runtimeFence + 1
      /\ leaseFence' = runtimeFence + 1 /\ status \in {"queued", "running"} /\ status' = "running"
      /\ UNCHANGED <<attention, pendingApproval, adrift>>
  BY DEF Inv, RunInv, RunTyped, Lifecycle!TypeOK, LeaseOnlyWhileRunning, AcquireLease, NextFence,
     chainVars, approvalVars
<1>2. status \notin Terminal /\ status' \notin Terminal /\ status' # "completed"
  BY <1>1 DEF Terminal, Lifecycle!Terminal
<1>3. StatusWithheld'
  BY <1>1, <1>2 DEF Withheld, StatusWithheld, Owing
<1>4. SavesFenced'
  BY <1>1 DEF Inv, AdriftTyped, Save, Withheld, SavesFenced
<1>5. LeaseWithheld'
  <2> SUFFICES ASSUME Owing
               PROVE  /\ \A d \in Executors : Withholds(d)'
                      /\ \A w \in adrift : w.fence = runtimeFence + 1 => w.owes
    BY <1>1 DEF LeaseWithheld, Owing
  <2>1. pendingApproval
    BY <1>2 DEF Withheld, StatusWithheld
  <2>2. /\ exFence \in [Executors -> Nat] /\ exOwes \in [Executors -> BOOLEAN]
        /\ pc \in [Executors -> PC] /\ \A d \in Executors : exFence[d] <= runtimeFence
    BY DEF Inv, ClaimInv, ClaimsTyped, FenceInv, LeasesTyped, FencesExclusive
  <2>3. /\ exFence' = [exFence EXCEPT ![e] = NextFence]
        /\ exOwes' = [exOwes EXCEPT ![e] = pendingApproval] /\ pc' = [pc EXCEPT ![e] = "control"]
    BY DEF AcquireLease, Goto
  <2>4. ASSUME NEW d \in Executors PROVE Withholds(d)'
    <3>1. CASE d = e
      BY <2>1, <2>2, <2>3, <3>1 DEF Withholds
    <3>2. CASE d # e
      <4>1. exFence'[d] = exFence[d] /\ exFence[d] \in Nat /\ exFence[d] <= runtimeFence
        BY <2>2, <2>3, <3>2
      <4>2. exFence'[d] # runtimeFence + 1
        BY <1>1, <4>1
      <4> QED
        BY <1>1, <4>2 DEF Withholds
    <3> QED
      BY <3>1, <3>2
  <2>5. ASSUME NEW w \in adrift PROVE w.fence # runtimeFence + 1
    BY <1>1 DEF Inv, AdriftTyped, Save, Withheld, SavesFenced
  <2> QED
    BY <2>4, <2>5
<1> QED
  BY <1>3, <1>4, <1>5 DEF Withheld

LEMMA WithheldSupervise ==
  ASSUME Inv, Withheld, NEW e \in Executors, Supervise(e) PROVE Withheld'
<1> DEFINE Same == UNCHANGED <<attention, pendingApproval, status, runtimeFence, leaseFence>>
<1>1. CASE ControlRenewed(e) \/ IssueSave(e)
  <2>1. Same /\ UNCHANGED adrift
    BY <1>1 DEF ControlRenewed, IssueSave, runVars, chainVars, approvalVars
  <2>2. \A d \in Executors : Recalls(d)
    BY <1>1, MovesRecall DEF ControlRenewed, IssueSave
  <2> QED
    BY <2>1, <2>2, WithheldKept
<1>2. CASE StoreSave(e)
  <2>1. /\ Goto(e, "control") /\ UNCHANGED <<exFence, exOwes, adrift>>
        /\ leaseLive /\ leaseFence = SaveOf(e).fence /\ AppendCheckpoint(SaveOf(e))
        /\ UNCHANGED <<attention, status, runtimeFence, leaseFence>>
    BY <1>2 DEF StoreSave, SaveAccepted, MoveRun, approvalVars
  <2>2. leaseFence # 0 /\ leaseFence = exFence[e] /\ SaveOf(e).owes = exOwes[e]
    BY <2>1 DEF Inv, RunInv, LeaseOnlyWhileRunning, SaveOf
  <2>3. Owing => SaveOf(e).owes
    BY <2>2 DEF Withheld, LeaseWithheld, Withholds
  <2>4. \A d \in Executors : Recalls(d)
    BY <2>1 DEF Inv, ClaimInv, ClaimsTyped, Goto, Recalls
  <2> QED
    BY <2>1, <2>3, <2>4, WithheldSave
<1>3. CASE SaveConflict(e)
  <2>1. Same /\ UNCHANGED adrift
    BY <1>3 DEF SaveConflict, runVars, chainVars, approvalVars
  <2>2. \A d \in Executors : Recalls(d)
    BY <1>3, MovesRecall DEF SaveConflict
  <2> QED
    BY <2>1, <2>2, WithheldKept
<1>4. CASE \/ ObserveShutdown(e) \/ ObserveCancel(e) \/ ObserveLeaseLost(e)
           \/ \E v \in Verdicts : SelectTerminal(e, v)
  <2>1. Same /\ SetAdrift(e)
    BY <1>4 DEF ObserveShutdown, ObserveCancel, ObserveLeaseLost, SelectTerminal, runVars,
       chainVars, approvalVars
  <2>2. \A d \in Executors : Recalls(d)
    BY <1>4, MovesRecall DEF ObserveShutdown, ObserveCancel, ObserveLeaseLost, SelectTerminal
  <2>3. \A w \in adrift' : w \in adrift \/ \E d \in Executors : w = SaveOf(d)
    BY <2>1 DEF SetAdrift
  <2> QED
    BY <2>1, <2>2, <2>3, WithheldKept
<1>5. CASE RequestApproval(e)
  <2>1. /\ attention' = "open" /\ status' = "waiting_for_approval" /\ leaseFence' = 0
        /\ pendingApproval' = TRUE /\ UNCHANGED <<runtimeFence, adrift>>
    BY <1>5 DEF RequestApproval, AppendCheckpoint, SaveOf, MoveRun, DropLease
  <2>2. SavesFenced'
    BY <2>1 DEF Withheld, SavesFenced
  <2> QED
    BY <2>1, <2>2 DEF Withheld, StatusWithheld, LeaseWithheld, Owing
<1>6. CASE UseApproval(e)
  <2>1. attention' = "approved" /\ UNCHANGED <<runtimeFence, adrift>>
    BY <1>6 DEF UseApproval, approvalVars, runVars
  <2>2. SavesFenced'
    BY <2>1 DEF Withheld, SavesFenced
  <2> QED
    BY <2>1, <2>2, NothingWithheld
<1>7. CASE HaltForAttention(e)
  <2>1. /\ attention' \in {"lapsed", attention} /\ EndHandler(e, "returned") /\ leaseFence' = 0
        /\ status = "running" /\ status' \in {"paused", "failed"}
        /\ UNCHANGED <<pendingApproval, runtimeFence, adrift>>
    BY <1>7 DEF HaltForAttention, ExpireRun, RunAfterExpiry, MoveRun, DropLease, chainVars
  <2>2. SavesFenced'
    BY <2>1 DEF Withheld, SavesFenced
  <2>3. CASE attention' = "lapsed"
    BY <2>2, <2>3, NothingWithheld
  <2>4. CASE attention' = attention
    <3>1. status \notin Terminal
      BY <2>1 DEF Terminal, Lifecycle!Terminal
    <3> QED
      BY <2>1, <2>4, <3>1, MovesRecall, WithheldKept
  <2> QED
    BY <2>1, <2>3, <2>4
<1>8. CASE Finalize(e)
  <2>1. UNCHANGED <<attention, pendingApproval, adrift>>
    BY <1>8 DEF Finalize, chainVars, approvalVars
  <2>2. CASE UNCHANGED runVars
    <3>1. \A d \in Executors : Forgets(d) \/ Recalls(d)
      BY <1>8, <2>2, MovesRecall DEF Finalize, MoveRun, DropLease
    <3> QED
      BY <2>1, <2>2, <3>1, WithheldKept DEF runVars
  <2>3. CASE pc[e] = "finalizing" /\ FencedRun(e) /\ MoveRun(exResult[e]) /\ DropLease
    <3>1. /\ leaseFence # 0 /\ leaseFence = exFence[e] /\ status = "running"
          /\ status' = exResult[e] /\ leaseFence' = 0 /\ runtimeFence' = runtimeFence
      BY <2>3 DEF Inv, RunInv, LeaseOnlyWhileRunning, FencedRun, Holds, MoveRun, DropLease
    <3>2. exResult[e] \in Terminal /\ status \notin Terminal
      BY <2>3, <3>1 DEF Inv, ClaimInv, VerdictSelected, Verdicts, Terminal, Lifecycle!Terminal
    <3>3. Owing => exResult[e] # "completed"
      BY <2>3, <3>1 DEF Withheld, LeaseWithheld, Withholds
    <3>4. StatusWithheld'
      BY <2>1, <3>1, <3>2, <3>3 DEF Withheld, StatusWithheld, Owing
    <3>5. LeaseWithheld' /\ SavesFenced'
      BY <2>1, <3>1 DEF Withheld, LeaseWithheld, SavesFenced
    <3> QED
      BY <3>4, <3>5 DEF Withheld
  <2> QED
    BY <1>8, <2>2, <2>3 DEF Finalize
<1>9. CASE ReleaseLease(e)
  <2>1. /\ EndHandler(e, exResult[e]) /\ leaseFence' \in {0, leaseFence}
        /\ UNCHANGED <<attention, pendingApproval, adrift, status, runtimeFence>>
    BY <1>9 DEF ReleaseLease, MoveRun, DropLease, runVars, chainVars, approvalVars
  <2> QED
    BY <2>1, MovesRecall, WithheldKept
<1> QED
  BY <1>1, <1>2, <1>3, <1>4, <1>5, <1>6, <1>7, <1>8, <1>9 DEF Supervise

LEMMA WithheldExecute ==
  ASSUME Inv, Withheld, NEW e \in Executors, Execute(e) PROVE Withheld'
<1>1. CASE AcquireRefused(e)
  <2>1. /\ \E result : EndHandler(e, result)
        /\ UNCHANGED <<runVars, chainVars, approvalVars, adrift>>
    BY <1>1 DEF AcquireRefused
  <2> QED
    BY <2>1, MovesRecall, WithheldKept DEF runVars, chainVars, approvalVars
<1>2. CASE ReleaseJob(e) \/ SettleReturned(e) \/ SettleThrew(e)
  <2>1. EndExecution(e) /\ UNCHANGED <<runVars, chainVars, approvalVars, adrift>>
    BY <1>2 DEF ReleaseJob, SettleReturned, SettleThrew, Settled
  <2> QED
    BY <2>1, MovesRecall, WithheldKept DEF runVars, chainVars, approvalVars
<1>3. CASE WatchCancel(e)
  BY <1>3, MovesRecall, WithheldKept DEF WatchCancel, runVars, chainVars, approvalVars
<1> QED
  BY <1>1, <1>2, <1>3, WithheldAcquire, WithheldSupervise DEF Execute

LEMMA WithheldElse ==
  ASSUME Inv, Withheld,
         \/ \E e \in Executors, j \in Jobs : Claim(e, j)
         \/ \E w \in adrift : LateSave(w)
         \/ Recover \/ ExpireAbandoned \/ DeadlinePasses
  PROVE  Withheld'
<1>1. ASSUME NEW e \in Executors, NEW j \in Jobs, Claim(e, j) PROVE Withheld'
  <2>1. /\ pc' = [pc EXCEPT ![e] = "claimed"]
        /\ UNCHANGED <<exResult, leaseVars, runVars, chainVars, approvalVars, adrift>>
    BY <1>1 DEF Claim
  <2>2. \A d \in Executors : Recalls(d)
    BY <2>1 DEF Inv, ClaimInv, ClaimsTyped, Recalls, leaseVars
  <2> QED
    BY <2>1, <2>2, WithheldKept DEF runVars, chainVars, approvalVars
<1>2. ASSUME NEW w \in adrift, LateSave(w) PROVE Withheld'
  <2>1. /\ leaseLive /\ leaseFence = w.fence /\ AppendCheckpoint(w) /\ UNCHANGED exVars
        /\ UNCHANGED <<attention, status, runtimeFence, leaseFence>> /\ adrift' \subseteq adrift
    BY <1>2 DEF LateSave, SaveAccepted, MoveRun, approvalVars
  <2>2. Owing => w.owes
    BY <2>1 DEF Inv, RunInv, LeaseOnlyWhileRunning, Withheld, LeaseWithheld
  <2> QED
    BY <2>1, <2>2, MovesRecall, WithheldSave
<1>3. CASE Recover
  <2>1. /\ status = "running" /\ status' \in {"running", "quarantined"}
        /\ leaseFence' \in {0, leaseFence} /\ runtimeFence' = runtimeFence
        /\ UNCHANGED <<chainVars, approvalVars, exVars, adrift>>
    BY <1>3 DEF Recover, RecoverRequeue, RecoverQuarantine, Recoverable, MoveRun, DropLease, runVars
  <2>2. status \notin Terminal
    BY <2>1 DEF Terminal, Lifecycle!Terminal
  <2> QED
    BY <2>1, <2>2, MovesRecall, WithheldKept DEF chainVars, approvalVars
<1>4. CASE ExpireAbandoned
  BY <1>4, MovesRecall, WithheldKept DEF ExpireAbandoned, chainVars, approvalVars
<1>5. CASE DeadlinePasses
  <2>1. /\ attention' = CASE attention = "open" -> "expired"
                          [] attention = "approved" -> "lapsed"
                          [] OTHER -> attention
        /\ UNCHANGED <<chainVars, exVars, adrift>>
        /\ \/ status \notin Terminal /\ pendingApproval /\ ExpireRun
           \/ ~(status \notin Terminal /\ pendingApproval) /\ UNCHANGED runVars
    BY <1>5 DEF DeadlinePasses
  <2>2. /\ runtimeFence' = runtimeFence /\ leaseFence' \in {0, leaseFence}
        /\ \/ status' = status
           \/ status \notin Terminal /\ status' \in {"paused", "failed"}
    BY <2>1 DEF ExpireRun, RunAfterExpiry, MoveRun, DropLease, runVars
  <2>3. SavesFenced'
    BY <2>1, <2>2 DEF Withheld, SavesFenced
  <2>4. CASE attention = "open"
    <3>1. attention' = "expired" /\ status # "completed"
      BY <2>1, <2>4 DEF Withheld, StatusWithheld
    <3>2. leaseFence = 0
      BY <2>4 DEF Inv, RunInv, LeaseOnlyWhileRunning, Withheld, StatusWithheld
    <3>3. status \notin Terminal => pendingApproval
      BY <2>4 DEF Withheld, StatusWithheld, Owing
    <3>4. StatusWithheld'
      BY <2>1, <2>2, <3>1, <3>3 DEF StatusWithheld, Owing, chainVars
    <3>5. LeaseWithheld'
      BY <2>2, <3>2 DEF LeaseWithheld
    <3> QED
      BY <2>3, <3>4, <3>5 DEF Withheld
  <2>5. CASE attention = "approved"
    BY <2>1, <2>3, <2>5, NothingWithheld
  <2>6. CASE attention \notin {"open", "approved"}
    BY <2>1, <2>2, <2>6, MovesRecall, WithheldKept DEF chainVars
  <2> QED
    BY <2>4, <2>5, <2>6
<1> QED
  BY <1>1, <1>2, <1>3, <1>4, <1>5

LEMMA WithheldOperate ==
  ASSUME Inv, Withheld, Operate PROVE Withheld'
<1>1. /\ UNCHANGED <<chainVars, exVars, adrift>> /\ runtimeFence' = runtimeFence
      /\ leaseFence' \in {0, leaseFence}
  BY DEF Operate, Pause, Resume, Stop, Approve, Reject, CancelJob, MoveRun, DropLease, runVars
<1>2. SavesFenced'
  BY <1>1 DEF Withheld, SavesFenced
<1>3. CASE Pause \/ Stop \/ \E j \in Jobs : CancelJob(j)
  <2>1. /\ attention' = attention
        /\ status' = status \/ (status \notin Terminal /\ status' \in {"paused", "cancelled"})
    BY <1>3 DEF Pause, Stop, CancelJob, MoveRun, runVars, approvalVars, Terminal,
       Lifecycle!Terminal
  <2> QED
    BY <1>1, <2>1, MovesRecall, WithheldKept DEF chainVars
<1>4. CASE Resume
  <2>1. /\ status \in {"paused", "waiting_for_approval"} /\ status' = "queued"
        /\ attention # "open" /\ attention' = attention
    BY <1>4 DEF Resume, MoveRun, approvalVars
  <2>2. status \notin Terminal /\ status' # "completed"
    BY <2>1 DEF Terminal, Lifecycle!Terminal
  <2>3. StatusWithheld'
    BY <1>1, <2>1, <2>2 DEF Withheld, StatusWithheld, Owing, chainVars
  <2>4. LeaseWithheld'
    BY <1>1, <2>1, MovesRecall, LeaseKept DEF Withheld
  <2> QED
    BY <1>2, <2>3, <2>4 DEF Withheld
<1>5. CASE Approve
  BY <1>2, <1>5, NothingWithheld DEF Approve
<1>6. CASE Reject
  BY <1>2, <1>6 DEF Reject, MoveRun, DropLease, Withheld, StatusWithheld, LeaseWithheld, Owing,
     Terminal, Lifecycle!Terminal
<1> QED
  BY <1>3, <1>4, <1>5, <1>6 DEF Operate

LEMMA WithheldFail ==
  ASSUME Inv, Withheld, Fail PROVE Withheld'
<1>1. /\ UNCHANGED <<status, runtimeFence, leaseFence, chainVars, approvalVars>>
  BY DEF Fail, Crash, Shutdown, StoreFails, ExpireHeld, Sweep, runVars
<1>2. \A d \in Executors : Forgets(d) \/ Recalls(d)
  <2>1. ASSUME NEW e \in Executors, Crash(e) PROVE \A d \in Executors : Forgets(d) \/ Recalls(d)
    BY <2>1, MovesRecall DEF Crash
  <2>2. ASSUME NEW e \in Executors, Shutdown(e) PROVE \A d \in Executors : Recalls(d)
    BY <2>2, MovesRecall DEF Shutdown
  <2>3. ASSUME NEW e \in Executors, StoreFails(e)
        PROVE  \A d \in Executors : Forgets(d) \/ Recalls(d)
    BY <2>3, MovesRecall DEF StoreFails
  <2>4. CASE ExpireHeld \/ \E stale \in SUBSET Jobs : Sweep(stale)
    BY <2>4, MovesRecall DEF ExpireHeld, Sweep
  <2> QED
    BY <2>1, <2>2, <2>3, <2>4 DEF Fail
<1>3. \A w \in adrift' : w \in adrift \/ \E d \in Executors : w = SaveOf(d)
  BY DEF Fail, Crash, Shutdown, StoreFails, ExpireHeld, Sweep, SetAdrift
<1> QED
  BY <1>1, <1>2, <1>3, WithheldKept DEF chainVars, approvalVars

LEMMA WithheldStep == Inv /\ Withheld /\ [Next]_vars => Withheld'
<1> SUFFICES ASSUME Inv, Withheld, [Next]_vars PROVE Withheld'
  OBVIOUS
<1>1. CASE UNCHANGED vars
  BY <1>1, MovesRecall, WithheldKept DEF vars, runVars, chainVars, approvalVars
<1>2. CASE Next
  BY <1>2, WithheldExecute, WithheldElse, WithheldOperate, WithheldFail DEF Next
<1> QED
  BY <1>1, <1>2

(* A run that asked for approval completes only after it was given: its    *)
(* expiry, a rejection, resumes, recoveries and late saves notwithstanding *)
(* (attention-service.ts, control-service.ts).                             *)
THEOREM CompletionApproved == Spec => []CompletedOnlyApproved
<1>1. Inv /\ Withheld => CompletedOnlyApproved
  BY DEF Inv, ChainInv, ApprovalTyped, Attention, Withheld, StatusWithheld, CompletedOnlyApproved
<1> QED
  BY <1>1, WithheldInit, WithheldStep, Invariance, PTL DEF Spec

---------------------------------------------------------------------------
(* The lease.  Nothing but an acquisition makes a lease live or grows the  *)
(* fence: nobody renews a lease that was lost.                             *)
LEMMA OnlyAcquired ==
  ASSUME Next, \A e \in Executors : ~AcquireLease(e)
  PROVE  runtimeFence' = runtimeFence /\ (leaseLive' => leaseLive)
<1>1. CASE UNCHANGED runVars
  BY <1>1 DEF runVars
<1>2. CASE /\ \E to : MoveRun(to)
           /\ DropLease \/ UNCHANGED <<leaseFence, leaseLive>>
  BY <1>2 DEF MoveRun, DropLease
<1>3. ASSUME NEW e \in Executors, Supervise(e)
      PROVE  runtimeFence' = runtimeFence /\ (leaseLive' => leaseLive)
  BY <1>1, <1>2, <1>3 DEF Supervise, ControlRenewed, IssueSave, StoreSave, SaveConflict,
     ObserveShutdown, ObserveCancel, ObserveLeaseLost, RequestApproval, UseApproval,
     HaltForAttention, ExpireRun, SelectTerminal, Finalize, ReleaseLease
<1>4. ASSUME NEW e \in Executors, Execute(e)
      PROVE  runtimeFence' = runtimeFence /\ (leaseLive' => leaseLive)
  BY <1>1, <1>3, <1>4 DEF Execute, AcquireRefused, ReleaseJob, SettleReturned, SettleThrew,
     Settled, WatchCancel
<1>5. CASE \/ \E e \in Executors, j \in Jobs : Claim(e, j)
           \/ \E w \in adrift : LateSave(w)
           \/ Recover \/ DeadlinePasses
  BY <1>1, <1>2, <1>5 DEF Claim, LateSave, Recover, RecoverRequeue, RecoverQuarantine,
     DeadlinePasses, ExpireRun
<1>6. CASE Operate
  BY <1>1, <1>2, <1>6 DEF Operate, Pause, Resume, Stop, Approve, Reject, CancelJob
<1>7. CASE ExpireAbandoned \/ ExpireHeld
  BY <1>7 DEF ExpireAbandoned, ExpireHeld
<1>8. CASE Fail
  BY <1>1, <1>7, <1>8 DEF Fail, Crash, Shutdown, StoreFails, Sweep
<1> QED
  BY <1>4, <1>5, <1>6, <1>7, <1>8 DEF Next

LEMMA LeasingStep ==
  ASSUME Inv, [Next]_vars PROVE [Leasing!Next]_(Leasing!vars)
<1>1. runtimeFence \in Nat /\ leaseLive \in BOOLEAN /\ status \in Lifecycle!Status
  BY DEF Inv, RunInv, RunTyped, Lifecycle!TypeOK
<1>2. leaseLive' \in BOOLEAN /\ (status' \in Terminal => ~leaseLive')
  BY StepInv DEF Inv, RunInv, RunTyped, LeaseOnlyWhileRunning, Terminal, Lifecycle!Terminal
<1>3. ASSUME NEW e \in Executors, AcquireLease(e) PROVE Leasing!Acquire
  <2>1. NextFence = runtimeFence + 1
    BY DEF Inv, RunInv, RunTyped, Lifecycle!TypeOK, LeaseOnlyWhileRunning, NextFence
  <2> QED
    BY <1>3, <2>1 DEF AcquireLease, Leasing!Acquire, Terminal, Lifecycle!Terminal
<1>4. CASE Next /\ \A e \in Executors : ~AcquireLease(e)
  <2>1. runtimeFence' = runtimeFence /\ (leaseLive' => leaseLive)
    BY <1>4, OnlyAcquired
  <2>2. ASSUME status \in Terminal PROVE status' = status
    <3>1. Lifecycle!RunTransitions[status] = {} /\ status \notin {"queued", "running", "paused"}
      BY <2>2 DEF Terminal, Lifecycle!Terminal, Lifecycle!Status, Lifecycle!RunTransitions
    <3>2. ~Lifecycle!Next
      BY <3>1 DEF Lifecycle!Next, Lifecycle!TakeOver, Lifecycle!Touch, Lifecycle!Move
    <3> QED
      BY <3>2, StepRefines DEF Lifecycle!vars
  <2>3. CASE status \notin Terminal /\ status' \in Terminal
    BY <1>2, <2>1, <2>3 DEF Leasing!Next, Leasing!End
  <2>4. CASE (status' \in Terminal) <=> (status \in Terminal)
    <3>1. CASE leaseLive' = leaseLive
      BY <2>1, <2>4, <3>1 DEF Leasing!vars
    <3>2. CASE leaseLive /\ ~leaseLive'
      BY <1>2, <2>1, <2>4, <3>2 DEF Leasing!Next, Leasing!Lose
    <3> QED
      BY <1>1, <1>2, <2>1, <3>1, <3>2
  <2> QED
    BY <2>2, <2>3, <2>4
<1>5. CASE UNCHANGED vars
  BY <1>5 DEF vars, runVars, Leasing!vars
<1> QED
  BY <1>3, <1>4, <1>5 DEF Leasing!Next

(* The run record, under all of its writers, is a lease as RunLease has    *)
(* it: what the fences of effects and budgets assume.                      *)
THEOREM LeaseRefinement == Spec => KeepsLease
<1>1. Init => Leasing!Init
  BY DEF Init, Leasing!Init, Terminal, Lifecycle!Terminal
<1> QED
  BY <1>1, LeasingStep, Invariance, PTL DEF Spec, KeepsLease, Leasing!Spec

(* An execution that lost its lease never holds it again, whatever is      *)
(* resumed, recovered, claimed or released after it.                       *)
THEOREM NeverRegained == Spec => Leasing!LostForGood
<1>1. Inv /\ [Next]_vars =>
        [\A f \in 1 .. runtimeFence : ~(leaseLive /\ runtimeFence = f)
             => ~(leaseLive' /\ runtimeFence' = f)]_(Leasing!vars)
  <2> SUFFICES ASSUME Inv, [Next]_vars, NEW f \in 1 .. runtimeFence,
                      ~(leaseLive /\ runtimeFence = f), leaseLive', runtimeFence' = f
               PROVE  UNCHANGED Leasing!vars
    OBVIOUS
  <2>1. f <= runtimeFence /\ runtimeFence \in Nat /\ f \in Nat
    BY DEF Inv, RunInv, RunTyped, Lifecycle!TypeOK
  <2>2. ~Leasing!Acquire
    BY <2>1 DEF Leasing!Acquire
  <2>3. ~Leasing!Lose /\ ~Leasing!End
    BY DEF Leasing!Lose, Leasing!End
  <2> QED
    BY <2>2, <2>3, LeasingStep DEF Leasing!Next
<1> QED
  BY <1>1, Invariance, PTL DEF Spec, Leasing!LostForGood
==================================================================================
