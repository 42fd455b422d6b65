--------------------------------- MODULE Outbox --------------------------------
(***************************************************************************)
(* The notification outbox (workers/notifications.ts): an item that is     *)
(* written with the event it announces, the jobs that deliver it through   *)
(* an external transport, attempts with a lease, retries, expiry, dead     *)
(* letters and their redrive, over the journal (Journal.tla), whose        *)
(* retention must leave the events of pending items alone.                 *)
(*                                                                         *)
(* The job queue is as in JobScheduler.tla: a job is claimed, its handler  *)
(* runs, its outcome is written without looking at the job; a job whose    *)
(* process died is put back by a sweep, if there ever is one.              *)
(***************************************************************************)
EXTENDS Journal

CONSTANTS
    Executions,     \* slots for executions of delivery jobs
    RedriveKeys,    \* idempotency keys of redrives
    MaxAttempts,    \* of the item in each of its cycles, and of each job
    MaxItemEvents,  \* bound: events ever appended where there is a route
    MaxCycles,      \* bound: the first delivery cycle and its redrives
    MaxFaults       \* bound: crashes, failed transactions, sweeps of live jobs, slow made

ASSUME AttemptsAssumption == MaxAttempts \in Nat \ {0}
ASSUME ExecutionsAssumption == Executions \subseteq Nat
ASSUME KeysAssumption == "none" \notin RedriveKeys
ASSUME BoundsAssumption ==
    MaxItemEvents \in Nat /\ MaxCycles \in Nat \ {0} /\ MaxFaults \in Nat

VARIABLES
    routed,                 \* whether the Worker has a route for its events
    status, attemptCount,   \* of the item
    waiting,                \* now < scheduledAt: a lease or a backoff
    outdated,               \* now >= expiresAt
    source,                 \* the event it announces
    cycle,                  \* jobs of the item, the last of them of this cycle
    keyOf,                  \* [Events -> the key of a redriven event]
    jobStatus, jobAttempts, \* [Cycles -> ...]
    pc, job,                \* an execution: what it does, and its job
    claimed, attempt,       \* the attempts of the job and of the item it claimed
    made,                  \* history: [Cycles -> Nat] attempts that were made
    slow,                   \* history: leases that lapsed on a live sender
    faults

itemVars == <<status, attemptCount, waiting, outdated, source, cycle>>
jobVars == <<jobStatus, jobAttempts>>
exVars == <<pc, job, claimed, attempt>>
historyVars == <<made, slow>>
outboxVars == <<routed, itemVars, keyOf, jobVars, exVars, historyVars, faults>>
vars == <<journalVars, outboxVars>>

Cycles == 1 .. MaxCycles
Pending == {"queued", "sending", "failed"}
Settled == {"delivered", "dead_letter", "expired"}

(* What a delivery waits for: its transport, the transaction that records  *)
(* a failure, or the write of the job's outcome.                           *)
Delivering == {"sending", "failing"}
PC == {"idle", "claiming", "succeed", "defer", "error"} \union Delivering

TypeOK ==
    /\ JournalTypeOK /\ routed \in BOOLEAN
    /\ status \in {"none"} \union Pending \union Settled
    /\ attemptCount \in Nat
    /\ waiting \in BOOLEAN /\ outdated \in BOOLEAN
    /\ source \in 0 .. MaxEvents /\ cycle \in 0 .. MaxCycles
    /\ keyOf \in [Events -> RedriveKeys \union {"none"}]
    /\ jobStatus \in [Cycles -> {"none", "queued", "running", "success", "failed"}]
    /\ jobAttempts \in [Cycles -> Nat]
    /\ pc \in [Executions -> PC] /\ job \in [Executions -> 0 .. MaxCycles]
    /\ claimed \in [Executions -> Nat]
    /\ attempt \in [Executions -> Nat]
    /\ made \in [Cycles -> Nat] /\ slow \in Nat /\ faults \in 0 .. MaxFaults

Init ==
    /\ JournalInit /\ routed \in BOOLEAN
    /\ status = "none" /\ attemptCount = 0 /\ source = 0 /\ cycle = 0
    /\ waiting = FALSE /\ outdated = FALSE
    /\ keyOf = [i \in Events |-> "none"]
    /\ jobStatus = [j \in Cycles |-> "none"]
    /\ jobAttempts = [j \in Cycles |-> 0]
    /\ pc = [x \in Executions |-> "idle"] /\ job = [x \in Executions |-> 0]
    /\ claimed = [x \in Executions |-> 0] /\ attempt = [x \in Executions |-> 0]
    /\ made = [j \in Cycles |-> 0] /\ slow = 0 /\ faults = 0

Room == routed => appended < MaxItemEvents

Fault == faults < MaxFaults /\ faults' = faults + 1

Await(x, at) == pc' = [pc EXCEPT ![x] = at] /\ UNCHANGED <<job, claimed, attempt>>

(***************************************************************************)
(* The journal                                                             *)
(***************************************************************************)
(* appendWorkerEventWithNotifications: event, item and job in one step; a  *)
(* delivery key that has an item keeps it, and without a route there is    *)
(* none.                                                                   *)
Notify ==
    /\ Append("entry") /\ Room
    /\ IF routed /\ status = "none"
       THEN /\ status' = "queued" /\ source' = appended + 1 /\ cycle' = 1
            /\ jobStatus' = [jobStatus EXCEPT ![1] = "queued"]
       ELSE UNCHANGED <<status, source, cycle, jobStatus>>
    /\ UNCHANGED <<readerVars, ackVars, routed, attemptCount, waiting, outdated, keyOf, jobAttempts,
                   exVars, historyVars, faults>>

(* Mutated: an item that waits for its next attempt does not count.        *)
PinnedEvents_NotFailed == IF status \in {"queued", "sending"} THEN {source} ELSE {}

(* The events that a retention pass skips                                  *)
PinnedEvents == IF status \in Pending THEN {source} ELSE {}

Retention(i) == Room /\ Compact(i, PinnedEvents) /\ UNCHANGED outboxVars

(***************************************************************************)
(* The delivery job                                                        *)
(***************************************************************************)
(* Slots are all the same: a job gets the first that is free.              *)
Free(x) == pc[x] = "idle" /\ \A y \in Executions : y < x => pc[y] # "idle"

ClaimJob(x, j) ==
    /\ Free(x) /\ jobStatus[j] = "queued"
    /\ jobStatus' = [jobStatus EXCEPT ![j] = "running"]
    /\ jobAttempts' = [jobAttempts EXCEPT ![j] = @ + 1]
    /\ pc' = [pc EXCEPT ![x] = "claiming"]
    /\ job' = [job EXCEPT ![x] = j]
    /\ claimed' = [claimed EXCEPT ![x] = jobAttempts[j] + 1]
    /\ UNCHANGED <<journalVars, routed, itemVars, keyOf, attempt, historyVars, faults>>

Forget(x) ==
    /\ pc' = [pc EXCEPT ![x] = "idle"] /\ job' = [job EXCEPT ![x] = 0]
    /\ claimed' = [claimed EXCEPT ![x] = 0] /\ attempt' = [attempt EXCEPT ![x] = 0]

(* The job's outcome: done; deferred, with its attempt refunded; or failed *)
WriteJob(x) ==
    /\ pc[x] \in {"succeed", "defer", "error"}
    /\ jobStatus' = [jobStatus EXCEPT ![job[x]] =
           IF pc[x] = "succeed" THEN "success"
           ELSE IF pc[x] = "defer" \/ claimed[x] < MaxAttempts THEN "queued" ELSE "failed"]
    /\ jobAttempts' = [jobAttempts EXCEPT ![job[x]] = IF pc[x] = "defer" THEN claimed[x] - 1 ELSE @]
    /\ Forget(x)
    /\ UNCHANGED <<journalVars, routed, itemVars, keyOf, historyVars, faults>>

Crash(x) ==
    /\ pc[x] # "idle" /\ Fault
    /\ Forget(x)
    /\ UNCHANGED <<journalVars, routed, itemVars, keyOf, jobVars, historyVars>>

(* sweepStaleRunningJobs, of a job that may have a slow execution          *)
Sweep(j) ==
    /\ jobStatus[j] = "running"
    /\ IF \E x \in Executions : job[x] = j THEN Fault ELSE UNCHANGED faults
    /\ jobStatus' = [jobStatus EXCEPT ![j] = "queued"]
    /\ UNCHANGED <<journalVars, routed, itemVars, keyOf, jobAttempts, exVars, historyVars>>

(***************************************************************************)
(* deliver                                                                 *)
(***************************************************************************)
Exhausted == attemptCount >= MaxAttempts

(* Mutated: the lease of a sender is not looked at.                        *)
Deferred_FailedOnly == waiting /\ status = "failed"

Deferred == waiting

(* The first transaction: an attempt is claimed, or there is none to make. *)
ClaimAttempt(x) ==
    /\ pc[x] = "claiming"
    /\ IF status \in Settled THEN
            /\ Await(x, "succeed") /\ UNCHANGED <<status, attemptCount, waiting>>
       ELSE IF outdated THEN
            /\ status' = "expired"
            /\ Await(x, "succeed") /\ UNCHANGED <<attemptCount, waiting>>
       ELSE IF Deferred THEN
            /\ Await(x, "defer") /\ UNCHANGED <<status, attemptCount, waiting>>
       ELSE IF Exhausted THEN
            /\ status' = "dead_letter"
            /\ Await(x, "succeed") /\ UNCHANGED <<attemptCount, waiting>>
       ELSE /\ status' = "sending" /\ attemptCount' = attemptCount + 1 /\ waiting' = TRUE
            /\ pc' = [pc EXCEPT ![x] = "sending"]
            /\ attempt' = [attempt EXCEPT ![x] = attemptCount + 1]
            /\ UNCHANGED <<job, claimed>>
    /\ made' = IF pc'[x] = "sending" THEN [made EXCEPT ![cycle] = @ + 1] ELSE made
    /\ UNCHANGED <<journalVars, routed, outdated, source, cycle, keyOf, jobVars, slow, faults>>

(* Mutated: only the number of the attempt is compared.                    *)
Matching_AttemptOnly(x) == attemptCount = attempt[x]

(* requireMatchingAttempt                                                  *)
Matching(x) == status = "sending" /\ attemptCount = attempt[x]

(* The transport has accepted it.  An error of this transaction is caught  *)
(* like one of the transport.                                              *)
RecordSuccess(x) ==
    /\ pc[x] = "sending"
    /\ IF Matching(x) THEN status' = "delivered" /\ Await(x, "succeed")
                      ELSE UNCHANGED status /\ Await(x, "failing")
    /\ UNCHANGED <<journalVars, routed, attemptCount, waiting, outdated, source, cycle, keyOf, jobVars,
                   historyVars, faults>>


(* A retry is the job's JobDeferredError.                                  *)
AfterFailure(outcome) == IF outcome = "failed" THEN "defer" ELSE "succeed"

FailureOutcome(refused) ==
    IF outdated THEN "expired" ELSE IF refused \/ Exhausted THEN "dead_letter" ELSE "failed"

(* The transport has refused it for good, or failed in a way that may pass *)
RecordFailure(x) ==
    /\ pc[x] \in Delivering
    /\ IF Matching(x)
       THEN /\ \E refused \in IF pc[x] = "sending" THEN BOOLEAN ELSE {FALSE} :
                 status' = FailureOutcome(refused)
            /\ waiting' = (waiting \/ status' = "failed")
            /\ Await(x, AfterFailure(status'))
       ELSE UNCHANGED <<status, waiting>> /\ Await(x, "error")
    /\ UNCHANGED <<journalVars, routed, attemptCount, outdated, source, cycle, keyOf, jobVars,
                   historyVars, faults>>

(* A transaction of the delivery that fails                                *)
TransactionFails(x) ==
    /\ pc[x] \in {"claiming"} \union Delivering /\ Fault
    /\ \/ pc[x] = "sending" /\ Await(x, "failing")
       \/ Await(x, "error")
    /\ UNCHANGED <<journalVars, routed, itemVars, keyOf, jobVars, historyVars>>

(* Time: scheduledAt and expiresAt pass.                                   *)
Holder(x) == pc[x] \in Delivering /\ Matching(x)

Lapse ==
    /\ waiting /\ waiting' = FALSE
    /\ IF \E x \in Executions : Holder(x)
       THEN Fault /\ slow' = slow + 1 ELSE UNCHANGED <<faults, slow>>
    /\ UNCHANGED <<journalVars, routed, status, attemptCount, outdated, source, cycle, keyOf, jobVars,
                   exVars, made>>

Outdate ==
    /\ status \in Pending /\ ~outdated /\ outdated' = TRUE
    /\ UNCHANGED <<journalVars, routed, status, attemptCount, waiting, source, cycle, keyOf, jobVars,
                   exVars, historyVars, faults>>

(***************************************************************************)
(* redrive                                                                 *)
(***************************************************************************)
FirstRedrive(k) == ~ \E i \in present : keyOf[i] = k

(* Mutated: the evidence is not looked for.                                *)
Redrivable_WithoutSource == status = "dead_letter"

(* requireRetainedSourceForRedrive                                         *)
Redrivable == status = "dead_letter" /\ source \in present

Redrive(k) ==
    /\ FirstRedrive(k) /\ Redrivable
    /\ cycle < MaxCycles
    /\ Append("redriven") /\ Room
    /\ keyOf' = [keyOf EXCEPT ![appended + 1] = k]
    /\ status' = "queued" /\ attemptCount' = 0 /\ waiting' = FALSE /\ outdated' = FALSE
    /\ cycle' = cycle + 1
    /\ jobStatus' = [jobStatus EXCEPT ![cycle + 1] = "queued"]
    /\ UNCHANGED <<readerVars, ackVars, routed, source, jobAttempts, exVars, historyVars, faults>>

Delivery(x) ==
    \/ WriteJob(x) \/ ClaimAttempt(x) \/ RecordSuccess(x) \/ RecordFailure(x)

(* Readers and deliveries share nothing but the events: readers are looked *)
(* at where there is no route.  This keeps the product of the two out.     *)
ReadersApart == ~routed

Next ==
    \/ ReadersApart /\ Reading /\ UNCHANGED outboxVars
    \/ Notify \/ \E i \in Events : Retention(i)
    \/ \E x \in Executions :
          \/ \E j \in Cycles : ClaimJob(x, j)
          \/ Delivery(x) \/ Crash(x) \/ TransactionFails(x)
    \/ \E j \in Cycles : Sweep(j)
    \/ Lapse \/ Outdate
    \/ \E k \in RedriveKeys : Redrive(k)

Spec == Init /\ [][Next]_vars

(* Jobs are claimed, handlers and transports end, the clock goes on.  No   *)
(* sweep can be counted on: there is one when a process starts, of jobs    *)
(* that have been running for five minutes by then.                        *)
Fairness ==
    /\ WF_vars(\E x \in Executions, j \in Cycles : ClaimJob(x, j))
    /\ \A x \in Executions : WF_vars(Delivery(x))
    /\ WF_vars(Lapse /\ UNCHANGED faults)

FairSpec == Spec /\ Fairness

(***************************************************************************)
(* Properties                                                              *)
(***************************************************************************)
(* Whatever crashes, lapses and sweeps there are, the transport is called  *)
(* at most maxAttempts times for a cycle.                                  *)
BoundedAttempts == \A j \in Cycles : made[j] <= MaxAttempts

(* Two executions, of one job that was swept or of two jobs, try one item  *)
(* at the same time only when the lease of the first has lapsed.           *)
OneSender == Cardinality({x \in Executions : pc[x] \in Delivering}) <= 1 + slow

(* While an item may still be sent, the event it announces is not deleted, *)
(* and an item whose event is gone never becomes pending again.            *)
SourceRetained == status \in Pending => source \in present

(* A redrive that is sent again is not applied again, as long as its event *)
(* is retained.                                                            *)
RedrivesOnce == \A i, j \in present :
    keyOf[i] \in RedriveKeys /\ keyOf[i] = keyOf[j] => i = j

(* No late answer changes an item that is delivered or expired; a dead     *)
(* letter is left by a redrive only.                                       *)
FinalStays == [][(status \in Settled /\ status' # status) =>
                    (status = "dead_letter" /\ cycle' = cycle + 1)]_vars

(* Nobody delivers the item any more: the job of its cycle died while it   *)
(* ran, or used up its attempts, and no job of the item is left to claim.  *)
Stranded ==
    /\ \A x \in Executions : pc[x] = "idle"
    /\ \A j \in Cycles : jobStatus[j] # "queued"
    /\ cycle > 0 /\ jobStatus[cycle] \in {"running", "failed"}

================================================================================
