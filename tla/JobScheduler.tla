------------------------------ MODULE JobScheduler ------------------------------
(***************************************************************************)
(* The persistent job queue and the schedulers that poll it (jobs/         *)
(* scheduler.ts, jobs/store.ts): server processes start, tick behind the   *)
(* leader gate, claim due jobs, run their handlers, write the outcomes,    *)
(* stop and die.  Jobs 1 .. OneOffs are one-off jobs; the others are the   *)
(* occurrences of one cron trigger (worker.activate.cron), created by the  *)
(* recurrence of their predecessor or by the cron projector.               *)
(*                                                                         *)
(* A handler is any: it returns, defers, releases or throws.  One store    *)
(* transaction is one step.  A queued job may be due at any moment; the    *)
(* age of a running job is left open to the sweep.                         *)
(***************************************************************************)
EXTENDS Naturals, FiniteSets

CONSTANTS
    Processes, Modes,   \* see LeaderLock
    Executions,     \* slots for job executions, over all processes
    MaxAttempts,    \* JobRecord.maxAttempts
    OneOffs,        \* how many one-off jobs are queued at first
    MaxJobs,        \* bound: jobs ever created
    MaxCommands,    \* bound: cancellations and (de)activations
    MaxFaults       \* bound: crashes, stops, outages, lost writes, sweeps of live jobs

ASSUME ProcessesAssumption == "none" \notin Processes /\ "none" \notin Executions
ASSUME ModeAssumption == Modes \subseteq {"off", "file", "fail_closed", "fail_open"}
ASSUME CountsAssumption ==
    /\ MaxAttempts \in Nat \ {0} /\ MaxJobs \in Nat /\ OneOffs \in 0 .. MaxJobs
    /\ MaxCommands \in Nat /\ MaxFaults \in Nat

VARIABLES
    \* the leader gate
    mode, holder, unexpired, held, seen,
    \* a process: whether it polls, its tick, its start-up sweep, its stop
    polling, tick, sweepDue, releasing,
    inFlight,       \* a process's map from job id to the execution it aborts
    \* the jobs; the trigger they recur for is enabled in an active deployment
    created, status, attempts, cancelRequested, active,
    \* one execution of a job (runJob)
    pc, proc, job, claimed, signal,
    \* history: failures counted against a job; jobs requeued by a sweep
    failures, swept,
    commands, faults

gateVars == <<mode, holder, unexpired, held, seen>>
procVars == <<polling, tick, sweepDue, releasing, inFlight>>
jobVars == <<created, status, attempts, cancelRequested, active>>
exVars == <<pc, proc, job, claimed, signal>>
historyVars == <<failures, swept>>
boundVars == <<commands, faults>>
vars == <<gateVars, procVars, jobVars, exVars, historyVars, boundVars>>

Gate == INSTANCE LeaderLock

Jobs == 1 .. MaxJobs
Cron == OneOffs + 1 .. MaxJobs
Live == {"queued", "running"}
Ended == {"success", "failed", "canceled"}

(* "down" is no process; past "gate" the tick holds the lock.              *)
Tick == {"down", "off", "timer", "gate", "leading"}

(* The awaits of runJob: the handler, then the write that is under way.    *)
PC == {"idle", "handling", "succeed", "recur", "cancel",
       "defer", "release", "reread", "canceled", "retry", "fail"}

Init ==
    /\ Gate!LockInit
    /\ polling = [p \in Processes |-> FALSE]
    /\ tick = [p \in Processes |-> "down"]
    /\ sweepDue = [p \in Processes |-> FALSE]
    /\ releasing = [p \in Processes |-> FALSE]
    /\ inFlight = [p \in Processes |-> [j \in Jobs |-> "none"]]
    /\ created = OneOffs
    /\ status = [j \in Jobs |-> IF j <= OneOffs THEN "queued" ELSE "absent"]
    /\ attempts = [j \in Jobs |-> 0]
    /\ cancelRequested = [j \in Jobs |-> FALSE]
    /\ active = TRUE
    /\ pc = [x \in Executions |-> "idle"]
    /\ proc = [x \in Executions |-> "none"]
    /\ job = [x \in Executions |-> 0]
    /\ claimed = [x \in Executions |-> 0]
    /\ signal = [x \in Executions |-> "none"]
    /\ failures = [j \in Jobs |-> 0] /\ swept = {}
    /\ commands = 0 /\ faults = 0

(***************************************************************************)
(* Helpers                                                                 *)
(***************************************************************************)
Fault == faults < MaxFaults /\ faults' = faults + 1 /\ UNCHANGED commands
Command == commands < MaxCommands /\ commands' = commands + 1 /\ UNCHANGED faults

(* scheduleNext: nothing, once polling is over.                            *)
Reschedule(p) == tick' = [tick EXCEPT ![p] = IF polling[p] THEN "timer" ELSE "off"]

Await(x, at) == pc' = [pc EXCEPT ![x] = at] /\ UNCHANGED <<proc, job, claimed, signal, inFlight>>

(* The execution is gone; runJob's finally forgets the job, not the run.   *)
Forget(gone) ==
    /\ pc' = [x \in Executions |-> IF x \in gone THEN "idle" ELSE pc[x]]
    /\ proc' = [x \in Executions |-> IF x \in gone THEN "none" ELSE proc[x]]
    /\ job' = [x \in Executions |-> IF x \in gone THEN 0 ELSE job[x]]
    /\ claimed' = [x \in Executions |-> IF x \in gone THEN 0 ELSE claimed[x]]
    /\ signal' = [x \in Executions |-> IF x \in gone THEN "none" ELSE signal[x]]

Finish(x) == Forget({x}) /\ inFlight' = [inFlight EXCEPT ![proc[x]][job[x]] = "none"]

(* updateJob: by id, whatever the job has become meanwhile.                *)
Write(x, outcome) == status' = [status EXCEPT ![job[x]] = outcome]

Refund(n) == IF n = 0 THEN 0 ELSE n - 1

Executing(j) == {x \in Executions : pc[x] # "idle" /\ job[x] = j}

(***************************************************************************)
(* The life of a process                                                   *)
(***************************************************************************)
(* start.  The sweep is started, not awaited.                              *)
Start(p) ==
    /\ tick[p] = "down"
    /\ polling' = [polling EXCEPT ![p] = TRUE]
    /\ tick' = [tick EXCEPT ![p] = "timer"]
    /\ sweepDue' = [sweepDue EXCEPT ![p] = TRUE]
    /\ UNCHANGED <<gateVars, releasing, inFlight, jobVars, exVars, historyVars, boundVars>>

(* sweepStaleRunningJobs: the jobs claimed more than five minutes ago.     *)
(* That long a live execution may take too: it counts as a fault.          *)
Sweep(p, stale) ==
    /\ sweepDue[p]
    /\ sweepDue' = [sweepDue EXCEPT ![p] = FALSE]
    /\ \A j \in stale : status[j] = "running"
    /\ status' = [j \in Jobs |-> IF j \in stale THEN "queued" ELSE status[j]]
    /\ swept' = swept \union stale
    /\ IF \E j \in stale : Executing(j) # {} THEN Fault ELSE UNCHANGED boundVars
    /\ UNCHANGED <<gateVars, polling, tick, releasing, inFlight, created, attempts,
                   cancelRequested, active, exVars, failures>>

(* stop: no more ticks are scheduled (one under way goes on), the          *)
(* executions in the map are aborted, and the lock goes if it is held.     *)
(* (A process reads and writes the lock file in one go.)                   *)
Stop(p) ==
    /\ polling[p] /\ seen[p] = "nothing" /\ Fault
    /\ polling' = [polling EXCEPT ![p] = FALSE]
    /\ tick' = [tick EXCEPT ![p] = IF @ = "timer" THEN "off" ELSE @]
    /\ signal' = [x \in Executions |->
           IF signal[x] = "none" /\ \E j \in Jobs : inFlight[p][j] = x THEN "shutdown" ELSE signal[x]]
    /\ releasing' = [releasing EXCEPT ![p] = held[p]]
    /\ UNCHANGED <<gateVars, sweepDue, inFlight, jobVars, pc, proc, job, claimed, historyVars>>

Released(p) ==
    /\ releasing[p]
    /\ \/ Gate!ReadOwn(p) /\ UNCHANGED releasing
       \/ Gate!Unlink(p) /\ releasing' = [releasing EXCEPT ![p] = FALSE]
       \/ Gate!GiveUp(p) /\ releasing' = [releasing EXCEPT ![p] = FALSE]
    /\ UNCHANGED <<polling, tick, sweepDue, inFlight, jobVars, exVars, historyVars, boundVars>>

(* The process is gone, with all its executions and its timers.            *)
Down(p) ==
    /\ polling' = [polling EXCEPT ![p] = FALSE]
    /\ tick' = [tick EXCEPT ![p] = "down"]
    /\ sweepDue' = [sweepDue EXCEPT ![p] = FALSE]
    /\ releasing' = [releasing EXCEPT ![p] = FALSE]
    /\ inFlight' = [inFlight EXCEPT ![p] = [j \in Jobs |-> "none"]]
    /\ Forget({x \in Executions : proc[x] = p})
    /\ Gate!LockForgotten(p)
    /\ UNCHANGED <<jobVars, historyVars>>

(* The end of the server's shutdown: the map is empty, or half a minute    *)
(* has passed.  Whatever else the process was doing dies with it.          *)
Exit(p) ==
    /\ tick[p] # "down" /\ ~polling[p] /\ ~releasing[p]
    /\ IF \A j \in Jobs : inFlight[p][j] = "none" THEN UNCHANGED boundVars ELSE Fault
    /\ Down(p)

Crash(p) == tick[p] # "down" /\ Fault /\ Down(p)

(***************************************************************************)
(* The tick                                                                *)
(***************************************************************************)
(* The timer fires; file mode reads the lock file, the others have asked.  *)
TickStarts(p) ==
    /\ tick[p] = "timer"
    /\ tick' = [tick EXCEPT ![p] = "gate"]
    /\ IF mode = "file" THEN Gate!ReadFile(p) ELSE UNCHANGED gateVars
    /\ UNCHANGED <<polling, sweepDue, releasing, inFlight, jobVars, exVars, historyVars, boundVars>>

(* leaderLock.acquire answers: reconcile and claim, or wait for the next.  *)
Acquired(p) ==
    /\ tick[p] = "gate"
    /\ \E leads \in BOOLEAN :
          /\ \/ /\ Gate!WriteFile(p, leads) \/ Gate!Ask(p, leads) \/ Gate!Ungated(p, leads)
                /\ UNCHANGED boundVars
             \/ /\ Gate!AskUnanswered(p, leads) \/ Gate!AskRejected(p, leads)
                /\ Fault
          /\ IF leads THEN tick' = [tick EXCEPT ![p] = "leading"] ELSE Reschedule(p)
    /\ UNCHANGED <<polling, sweepDue, releasing, inFlight, jobVars, exVars, historyVars>>

(* Mutated: any live job that is due is claimed.                           *)
Claimable_Running(j) == status[j] \in Live

Claimable(j) == status[j] = "queued"

(* claimNextJob and the start of runJob.  The record runJob holds on to is *)
(* the one just claimed.                                                   *)
Claim(p, x, j) ==
    /\ tick[p] = "leading" /\ pc[x] = "idle"
    /\ Claimable(j)
    /\ status' = [status EXCEPT ![j] = "running"]
    /\ attempts' = [attempts EXCEPT ![j] = @ + 1]
    /\ pc' = [pc EXCEPT ![x] = "handling"]
    /\ proc' = [proc EXCEPT ![x] = p]
    /\ job' = [job EXCEPT ![x] = j]
    /\ claimed' = [claimed EXCEPT ![x] = attempts[j] + 1]
    /\ inFlight' = [inFlight EXCEPT ![p][j] = x]
    /\ Reschedule(p)
    /\ UNCHANGED <<gateVars, polling, sweepDue, releasing, created, cancelRequested, active,
                   signal, historyVars, boundVars>>

(* No job is due, or the store is out of reach.                            *)
NothingClaimed(p) ==
    /\ tick[p] = "leading"
    /\ Reschedule(p)
    /\ UNCHANGED <<gateVars, polling, sweepDue, releasing, inFlight, jobVars, exVars,
                   historyVars, boundVars>>

(***************************************************************************)
(* An execution (runJob)                                                   *)
(***************************************************************************)
(* What is not changed by a step of an execution.                          *)
OnlyExecution ==
    UNCHANGED <<gateVars, polling, tick, sweepDue, releasing, created, active, swept>>

(* The handler returns; an aborted signal is looked at there and then.     *)
Returned(x) ==
    /\ pc[x] = "handling"
    /\ Await(x, CASE signal[x] = "shutdown" -> "release"
                  [] signal[x] = "operator" -> "cancel"
                  [] OTHER                  -> "succeed")
    /\ OnlyExecution /\ UNCHANGED <<jobVars, failures, boundVars>>

(* Into the catch: JobDeferredError, JobReleasedError or a shutdown, or    *)
(* any other error, for which the job is read again.                       *)
Catch(x, kind) ==
    Await(x, CASE kind = "deferred" -> "defer"
               [] kind = "released" \/ signal[x] = "shutdown" -> "release"
               [] OTHER -> "reread")

Threw(x) ==
    /\ pc[x] = "handling"
    /\ \E kind \in {"deferred", "released", "error"} : Catch(x, kind)
    /\ OnlyExecution /\ UNCHANGED <<jobVars, failures, boundVars>>

WriteSuccess(x) ==
    /\ pc[x] = "succeed"
    /\ Write(x, "success")
    /\ IF job[x] \in Cron THEN Await(x, "recur") ELSE Finish(x)
    /\ OnlyExecution /\ UNCHANGED <<attempts, cancelRequested, failures, boundVars>>

(* cancelJob and the update after it.                                      *)
WriteCancel(x) ==
    /\ pc[x] = "cancel"
    /\ Write(x, "canceled")
    /\ cancelRequested' = [cancelRequested EXCEPT ![job[x]] = TRUE]
    /\ Finish(x)
    /\ OnlyExecution /\ UNCHANGED <<attempts, failures, boundVars>>

(* Mutated: the claim stays on the job's account.                          *)
Returnable_Charged(x) == claimed[x]

Returnable(x) == Refund(claimed[x])

(* A deferred or released job goes back as if it had not been claimed.     *)
PutBack(x) ==
    /\ pc[x] \in {"defer", "release"}
    /\ Write(x, "queued")
    /\ attempts' = [attempts EXCEPT ![job[x]] = Returnable(x)]
    /\ Finish(x)
    /\ OnlyExecution /\ UNCHANGED <<cancelRequested, failures, boundVars>>

(* findJob: a cancellation, or an abort, of whatever kind, by now.         *)
Reread(x) ==
    /\ pc[x] = "reread"
    /\ Await(x, IF cancelRequested[job[x]] \/ signal[x] # "none" THEN "canceled"
                ELSE IF claimed[x] < MaxAttempts THEN "retry" ELSE "fail")
    /\ OnlyExecution /\ UNCHANGED <<jobVars, failures, boundVars>>

Outcome(at) ==
    CASE at = "canceled" -> "canceled" [] at = "retry" -> "queued" [] at = "fail" -> "failed"

WriteFailure(x) ==
    /\ pc[x] \in {"canceled", "retry", "fail"}
    /\ Write(x, Outcome(pc[x]))
    /\ failures' = [failures EXCEPT ![job[x]] = IF pc[x] = "canceled" THEN @ ELSE @ + 1]
    /\ Finish(x)
    /\ OnlyExecution /\ UNCHANGED <<attempts, cancelRequested, boundVars>>

(* Mutated: the live occurrence is not looked for.                         *)
Recurs_Always == active

(* The trigger is still there and has no occurrence.                       *)
Recurs == active /\ \A j \in Cron : status[j] \notin Live

(* A new occurrence of the trigger.                                        *)
Enqueue(was) ==
    /\ created < MaxJobs
    /\ created' = created + 1
    /\ status' = [was EXCEPT ![created + 1] = "queued"]

EnqueueRecurring(x) ==
    /\ pc[x] = "recur"
    /\ IF Recurs THEN Enqueue(status) ELSE UNCHANGED <<created, status>>
    /\ Finish(x)
    /\ UNCHANGED <<gateVars, polling, tick, sweepDue, releasing, attempts, cancelRequested,
                   active, historyVars, boundVars>>

(* The write under way is lost.  Outside the catch that is one more error; *)
(* in it the outcome is only logged; a lost recurrence ends the schedule.  *)
WriteLost(x) ==
    /\ Fault
    /\ \/ pc[x] \in {"succeed", "cancel"} /\ Catch(x, "error")
       \/ pc[x] \in {"recur", "defer", "release", "reread", "canceled", "retry", "fail"} /\ Finish(x)
    /\ OnlyExecution /\ UNCHANGED <<jobVars, failures>>

(* The cancel watcher polls the job's flag; an abort is final.             *)
WatchCancel(x) ==
    /\ pc[x] # "idle" /\ signal[x] = "none" /\ cancelRequested[job[x]]
    /\ signal' = [signal EXCEPT ![x] = "operator"]
    /\ OnlyExecution /\ UNCHANGED <<inFlight, jobVars, pc, proc, job, claimed, failures, boundVars>>

(***************************************************************************)
(* Operators and the cron projector                                        *)
(***************************************************************************)
(* Mutated: a running job is canceled at once.                             *)
Canceled_AtOnce(was) == IF was \in Live THEN "canceled" ELSE was

(* cancelJob: a queued job ends, a running one is left to its watcher.     *)
Canceled(was) == IF was = "queued" THEN "canceled" ELSE was

CancelJob(j) ==
    /\ Command
    /\ status[j] # "absent"
    /\ cancelRequested' = [cancelRequested EXCEPT ![j] = TRUE]
    /\ status' = [status EXCEPT ![j] = Canceled(@)]
    /\ UNCHANGED <<gateVars, procVars, created, attempts, active, exVars, historyVars>>

(* A deployment is paused, or activated again.                             *)
ToggleTrigger ==
    /\ Command
    /\ active' = ~active
    /\ UNCHANGED <<gateVars, procVars, created, status, attempts, cancelRequested, exVars, historyVars>>

(* projectWorkerCronTriggers, run at start-up and every minute: it keeps   *)
(* the first live occurrence of an active trigger, creates a missing one   *)
(* and cancels what is left over.                                          *)
Project ==
    LET live == {j \in Cron : status[j] \in Live}
        kept == IF active THEN {j \in live : \A k \in live : j <= k} ELSE {}
        left == live \ kept
        pruned == [j \in Jobs |-> IF j \in left /\ status[j] = "queued" THEN "canceled" ELSE status[j]]
    IN  /\ \E p \in Processes : polling[p]
        /\ cancelRequested' = [j \in Jobs |-> cancelRequested[j] \/ j \in left]
        /\ IF active /\ kept = {} THEN Enqueue(pruned) ELSE status' = pruned /\ UNCHANGED created
        /\ UNCHANGED <<gateVars, procVars, attempts, active, exVars, historyVars, boundVars>>

(***************************************************************************)
(* The specification                                                       *)
(***************************************************************************)
(* The time to live exceeds the longest tick, as operations.md demands.    *)
LockExpires ==
    /\ Gate!Expire
    /\ holder # "none" => tick[holder] # "leading"
    /\ UNCHANGED <<procVars, jobVars, exVars, historyVars, boundVars>>

Poll(p) == TickStarts(p) \/ Acquired(p) \/ NothingClaimed(p)

Run(x) ==
    \/ Returned(x) \/ Threw(x) \/ WatchCancel(x)
    \/ WriteSuccess(x) \/ EnqueueRecurring(x) \/ WriteCancel(x)
    \/ PutBack(x) \/ Reread(x) \/ WriteFailure(x)

Serve(p) == Released(p) \/ \E stale \in SUBSET Jobs : Sweep(p, stale)

Next ==
    \/ \E p \in Processes : Start(p) \/ Serve(p) \/ Poll(p) \/ Stop(p) \/ Exit(p) \/ Crash(p)
    \/ \E p \in Processes, x \in Executions, j \in Jobs : Claim(p, x, j)
    \/ \E x \in Executions : Run(x) \/ WriteLost(x)
    \/ LockExpires \/ Project \/ ToggleTrigger
    \/ \E j \in Jobs : CancelJob(j)

Spec == Init /\ [][Next]_vars

(* Timers fire and awaits come back; a lock that nobody renews expires;    *)
(* the oldest due job is claimed first, so no due job is passed over for   *)
(* ever.                                                                   *)
Fairness ==
    /\ \A p \in Processes : WF_vars(Serve(p)) /\ WF_vars(Exit(p))
    /\ \A p \in Processes :
          WF_vars(Poll(p) \/ \E x \in Executions, j \in Jobs : Claim(p, x, j))
    /\ \A x \in Executions : WF_vars(Run(x))
    /\ \A j \in Jobs : SF_vars(\E p \in Processes, x \in Executions : Claim(p, x, j))
    /\ WF_vars(LockExpires)

FairSpec == Spec /\ Fairness

(***************************************************************************)
(* Properties                                                              *)
(***************************************************************************)
(* Every variable keeps its type.                                          *)
TypeOK ==
    /\ Gate!LockTyped
    /\ polling \in [Processes -> BOOLEAN]
    /\ tick \in [Processes -> Tick]
    /\ sweepDue \in [Processes -> BOOLEAN]
    /\ releasing \in [Processes -> BOOLEAN]
    /\ inFlight \in [Processes -> [Jobs -> Executions \union {"none"}]]
    /\ created \in 0 .. MaxJobs
    /\ status \in [Jobs -> Live \union Ended \union {"absent"}]
    /\ attempts \in [Jobs -> Nat]
    /\ cancelRequested \in [Jobs -> BOOLEAN]
    /\ active \in BOOLEAN
    /\ pc \in [Executions -> PC]
    /\ proc \in [Executions -> Processes \union {"none"}]
    /\ job \in [Executions -> 0 .. MaxJobs]
    /\ claimed \in [Executions -> Nat]
    /\ signal \in [Executions -> {"none", "operator", "shutdown"}]
    /\ failures \in [Jobs -> Nat] /\ swept \subseteq Jobs
    /\ commands \in Nat /\ faults \in Nat

(* Whoever leads, crashes or stops, a job no sweep has taken for lost is   *)
(* executed by one execution at a time, which its process can abort, and   *)
(* nobody else moves the job while it runs.                                *)
OneExecution ==
    \A x \in Executions : pc[x] # "idle" /\ job[x] \notin swept =>
        /\ Executing(job[x]) = {x}
        /\ inFlight[proc[x]][job[x]] = x
        /\ status[job[x]] = IF pc[x] = "recur" THEN "success" ELSE "running"

(* What has ended stays as it ended, unless a sweep took it for lost: no   *)
(* late outcome, retry or release overwrites it.                           *)
EndedStays ==
    [][\A j \in Jobs \ swept : status[j] \in Ended => status'[j] = status[j]]_vars

(* A job is charged for failures only, not for deferrals, releases and     *)
(* shutdowns, and is given up after exactly MaxAttempts of them.           *)
OnlyFailuresCount ==
    \A j \in Jobs \ swept :
        /\ status[j] = "queued" => attempts[j] = failures[j]
        /\ status[j] \in {"running", "success"} => attempts[j] = failures[j] + 1
        /\ status[j] = "failed" => failures[j] = MaxAttempts

(* A trigger never has two live occurrences: recurrence, projector, retry, *)
(* cancellation and activation in any order.                               *)
OneOccurrence == Cardinality({j \in Cron \ swept : status[j] \in Live}) <= 1

(* dev/deployment/operations.md:160: with the gate only one process at a   *)
(* time dequeues, as long as the coordinator's answer decides.  (One that  *)
(* was stopped in its last tick may finish it.)                            *)
OneDequeuer ==
    mode = "fail_closed" => \A p, q \in Processes :
        tick[p] = "leading" /\ tick[q] = "leading" /\ polling[p] /\ polling[q] => p = q

(* A queued job is claimed, also when the leader dies or stops, as long as *)
(* some process polls.                                                     *)
QueuedClaimed ==
    \A j \in Jobs :
        status[j] = "queued" ~> status[j] # "queued" \/ \A p \in Processes : ~polling[p]
=================================================================================
