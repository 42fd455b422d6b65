------------------------------- MODULE Supervisor -------------------------------
(***************************************************************************)
(* The supervisor of one run (workers/runtime/supervisor.ts) with its      *)
(* reducer (reducer.ts), its checkpoints (checkpoint.ts) and the budget    *)
(* ledger in the run record (repository.ts): plan, act, evaluate,          *)
(* checkpoint, decide, over interruptions after which another execution    *)
(* goes on from the newest checkpoint and the ledger.                      *)
(*                                                                         *)
(* Executions follow each other: what a superseded one may still do is in  *)
(* WorkerRun.tla, and what becomes of the effect of an action in           *)
(* EffectReceipts.tla.  Elapsed time is the moment at which it runs out.   *)
(***************************************************************************)
EXTENDS Integers, FiniteSets

CONSTANTS
    Plans, Size,        \* what the provider may plan, with the number of tools
    Redacted,           \* a plan as a checkpoint keeps it, without secrets
    Costs,              \* of a provider call
    MaxIterations, MaxCost, MaxFailures, MaxToolCalls,  \* the limits of the policy
    MaxCuts, MaxFaults  \* bounds: interruptions, failing store calls

ASSUME PlanAssumption ==
    /\ Size \in [Plans -> Nat] /\ Costs \subseteq Nat /\ "no plan" \notin Plans
    /\ Redacted \in [Plans -> Plans]
    /\ \A p \in Plans : Size[Redacted[p]] = Size[p] /\ Redacted[Redacted[p]] = Redacted[p]
ASSUME LimitAssumption ==
    /\ MaxIterations \in Nat \ {0} /\ MaxCost \in Nat \ {0}
    /\ MaxFailures \in Nat \ {0} /\ MaxToolCalls \in Nat
    /\ MaxCuts \in Nat /\ MaxFaults \in Nat

VARIABLES
    \* the run record: how it ended, its budget usage, its newest checkpoint
    outcome, ledger, checkpoint,
    \* the supervisor: where it waits, its state, the outcome it selected
    pc, state, reason,
    after,              \* where it goes on after a save
    guarded,            \* failPhase was called inside the try of its phase
    stale,              \* a save nobody waited for has changed the revision
    beat,               \* the usage a heartbeat carries to the store, if one is under way
    \* history: charges of provider results, tools started, plans acted on, actions
    \* that succeeded and the newest evaluation, each with its iteration
    spent, started, acted, done, verdict,
    cuts, faults

recordVars == <<outcome, ledger, checkpoint>>
controlVars == <<pc, reason, after, guarded, stale>>
historyVars == <<spent, started, acted, done, verdict>>
boundVars == <<cuts, faults>>
vars == <<recordVars, controlVars, state, beat, historyVars, boundVars>>

Usage == [iterations : Nat, cost : Nat, toolCalls : Nat, failures : Nat]
Phases == {"plan", "act", "evaluate", "checkpoint", "decide"}
Evaluations == {"none", "matched", "unmatched"}
NoPlan == "no plan"
State == [phase : Phases, open : BOOLEAN, iteration : Nat, action : Nat,
          plan : Plans \union {NoPlan}, evaluation : Evaluations, usage : Usage]
Outcomes == {"completed", "failed", "iteration_limit", "provider_cost", "tool_call_limit",
             "rolling_budget", "elapsed_time", "cancelled", "quarantined"}

(* planning: about to call the provider; emitting: an event is appended.   *)
PC == {"idle", "top", "planning", "calling", "executing", "saving", "emitting",
       "failing", "backoff", "finalizing"}
Labels == PC \union {"decided"}

TypeOK ==
    /\ outcome \in Outcomes \union {"none"} /\ reason \in Outcomes \union {"none"}
    /\ ledger \in Usage /\ beat \in SUBSET Usage
    /\ checkpoint \in State /\ state \in State
    /\ pc \in PC /\ after \in Labels /\ guarded \in BOOLEAN /\ stale \in BOOLEAN
    /\ spent \in Nat /\ started \in Nat /\ acted \subseteq Nat \X Plans
    /\ done \subseteq Nat \X Nat /\ verdict \in Nat \X Evaluations
    /\ cuts \in Nat /\ faults \in Nat

NoUsage == [iterations |-> 0, cost |-> 0, toolCalls |-> 0, failures |-> 0]

(* initialWorkerSupervisorState: "checkpoint" is this state before the     *)
(* first checkpoint is saved; iteration.begin overwrites its cursor.       *)
InitialState ==
    [phase |-> "plan", open |-> FALSE, iteration |-> 0, action |-> 0,
     plan |-> NoPlan, evaluation |-> "none", usage |-> NoUsage]

Init ==
    /\ outcome = "none" /\ ledger = NoUsage /\ checkpoint = InitialState
    /\ pc = "idle" /\ state = InitialState /\ reason = "none"
    /\ after = "top" /\ guarded = FALSE /\ stale = FALSE /\ beat = {}
    /\ spent = 0 /\ started = 0 /\ acted = {} /\ done = {} /\ verdict = <<0, "none">>
    /\ cuts = 0 /\ faults = 0

Greater(m, n) == IF m >= n THEN m ELSE n

(***************************************************************************)
(* The budgets                                                             *)
(***************************************************************************)
(* Mutated: the ledger takes what the heartbeat carries.                   *)
Advance_Latest(current, observed) == observed

(* advanceBudgetUsage: a heartbeat never moves the ledger backwards.       *)
Advance(current, observed) ==
    [iterations |-> Greater(current.iterations, observed.iterations),
     cost |-> Greater(current.cost, observed.cost),
     toolCalls |-> Greater(current.toolCalls, observed.toolCalls),
     failures |-> Greater(current.failures, observed.failures)]

Limits == [iterations |-> MaxIterations, cost |-> MaxCost,
           toolCalls |-> MaxToolCalls, failures |-> MaxFailures]

(* remainingWorkerBudget                                                   *)
Remaining(usage) == [k \in DOMAIN Limits |-> Greater(0, Limits[k] - usage[k])]

(* assertRemainingBudgetDidNotIncrease                                     *)
SaveAccepted(usage) ==
    \A k \in DOMAIN Limits \ {"failures"} :
        Remaining(usage)[k] <= Remaining(checkpoint.usage)[k]

(* The tests of assertCheckpointBudget and restoreWorkerSupervisorState; a *)
(* run that fails them is quarantined by the next recovery.                *)
Restorable ==
    /\ \A k \in DOMAIN Limits : Remaining(ledger)[k] <= Remaining(checkpoint.usage)[k]
    /\ checkpoint.phase \in {"act", "evaluate", "checkpoint", "decide"} =>
           checkpoint.plan # NoPlan
    /\ checkpoint.phase = "act" => checkpoint.action < Size[checkpoint.plan]
    /\ checkpoint.phase \in {"evaluate", "checkpoint", "decide"} =>
           checkpoint.action <= Size[checkpoint.plan]
    /\ checkpoint.phase = "decide" => checkpoint.evaluation # "none"

(* Mutated: what heartbeats have added since the checkpoint is forgotten.  *)
Restored_FromCheckpoint == checkpoint

(* The cursor comes from the checkpoint, the usage from the ledger.        *)
Restored == [checkpoint EXCEPT !.usage = ledger]

(* A lease renewal carries the usage: heartbeats, and refreshControl.      *)
Renewed == ledger' = Advance(ledger, state.usage)

(***************************************************************************)
(* The reducer: what each event makes of a state                           *)
(***************************************************************************)
(* iteration.begin                                                         *)
Begun(s) == [s EXCEPT !.open = TRUE, !.plan = NoPlan, !.evaluation = "none", !.action = 0,
                      !.iteration = s.usage.iterations + 1,
                      !.usage.iterations = s.usage.iterations + 1]

(* chargeProvider                                                          *)
Charged(s, c) == [s EXCEPT !.usage.cost = s.usage.cost + c]
Exceeded(s) == s.usage.cost >= MaxCost

(* provider.plan_succeeded, within the budget                              *)
Planned(s, p) == [s EXCEPT !.phase = IF Size[p] > 0 THEN "act" ELSE "evaluate",
                           !.action = 0, !.plan = p, !.usage.failures = 0]

(* Mutated: an attempt is not charged before it starts.                    *)
Reserved_Late(s) == s

(* tool.reserve: the attempt is charged before it starts                   *)
Reserved(s) == [s EXCEPT !.usage.toolCalls = s.usage.toolCalls + 1]

(* Mutated: the plan counts as done before its last action.                *)
MoreTools_SkipsLast(s) == s.action + 2 < Size[s.plan]

MoreTools(s) == s.action + 1 < Size[s.plan]

(* tool.succeeded                                                          *)
Succeeded(s) ==
    IF MoreTools(s) THEN [s EXCEPT !.action = s.action + 1]
    ELSE [s EXCEPT !.action = s.action + 1, !.phase = "evaluate", !.usage.failures = 0]

(* evaluation.accepted                                                     *)
Evaluated(s, e) == [s EXCEPT !.phase = "checkpoint", !.evaluation = e, !.usage.failures = 0]

(* checkpoint.saved                                                        *)
Decided(s) == [s EXCEPT !.phase = "decide", !.usage.failures = 0]

(* decide, when there is another iteration                                 *)
Reopened(s) == [s EXCEPT !.phase = "plan", !.open = FALSE, !.action = 0]

(* Mutated: a failure is not counted.                                      *)
Failed_Not(s) == s

(* phase.failed                                                            *)
Failed(s) == [s EXCEPT !.usage.failures = s.usage.failures + 1]

(***************************************************************************)
(* Moves of the supervisor                                                 *)
(***************************************************************************)
Goto(label) == pc' = label /\ UNCHANGED <<after, guarded, reason, stale>>
Select(r) == pc' = "finalizing" /\ reason' = r /\ UNCHANGED <<after, guarded, stale>>
SaveThen(label) == pc' = "saving" /\ after' = label /\ UNCHANGED <<guarded, reason, stale>>
FailWithin(try) == pc' = "failing" /\ guarded' = try /\ UNCHANGED <<after, reason, stale>>

Quiet == UNCHANGED <<beat, historyVars, boundVars>>
StepOnly == UNCHANGED <<outcome, checkpoint, beat, boundVars>>

(* acquire, and the start of runWorkerSupervisor                           *)
Acquire ==
    /\ pc = "idle" /\ outcome = "none"
    /\ IF Restorable THEN pc' = "top" /\ outcome' = outcome
                     ELSE pc' = "idle" /\ outcome' = "quarantined"
    /\ state' = Restored /\ reason' = "none" /\ stale' = FALSE
    /\ UNCHANGED <<ledger, checkpoint, after, guarded, beat, historyVars, boundVars>>

(* iteration.begin                                                         *)
BeginIteration ==
    /\ pc = "top" /\ state.phase = "plan" /\ ~state.open
    /\ Renewed
    /\ IF state.usage.iterations >= MaxIterations
       THEN Select("iteration_limit") /\ UNCHANGED state
       ELSE /\ SaveThen("planning")
            /\ state' = Begun(state)
    /\ StepOnly /\ UNCHANGED historyVars

(* callProvider: the rest of the run's budget is reserved, unless there is *)
(* none or the rolling budget denies it.                                   *)
CallProvider ==
    /\ \/ pc = "planning" /\ UNCHANGED ledger
       \/ pc = "top" /\ state.phase = "plan" /\ state.open /\ Renewed
       \/ pc = "top" /\ state.phase = "evaluate" /\ Renewed
    /\ IF state.usage.cost >= MaxCost THEN Select("provider_cost")
       ELSE Goto("calling") \/ Select("rolling_budget")
    /\ UNCHANGED state /\ StepOnly /\ UNCHANGED historyVars

(* A provider call ended by an error, an abort or a timeout of its own.    *)
CallFails ==
    /\ pc = "calling"
    /\ FailWithin(FALSE)
    /\ UNCHANGED <<state, ledger, historyVars>> /\ StepOnly

(* Mutated: the plan is acted on before it is saved.                       *)
SavePlan_Unsaved == Goto("emitting")

(* The plan is saved before anything is done about it.                     *)
SavePlan == SaveThen("emitting")

PlanAnswered(p, c) ==
    /\ pc = "calling" /\ state.phase = "plan"
    /\ IF Exceeded(Charged(state, c))
       THEN Select("provider_cost") /\ state' = Charged(state, c)
       ELSE SavePlan /\ state' = Planned(Charged(state, c), p)
    /\ spent' = spent + c
    /\ UNCHANGED <<ledger, started, acted, done, verdict>> /\ StepOnly

(* WorkerProviderPhaseError: an unusable plan is charged, an unusable      *)
(* evaluation is not, and is not part of "spent" either.                   *)
Unusable(c) ==
    /\ pc = "calling"
    /\ IF state.phase = "plan"
       THEN /\ state' = Charged(state, c) /\ spent' = spent + c
            /\ IF Exceeded(Charged(state, c)) THEN Select("provider_cost") ELSE FailWithin(FALSE)
       ELSE FailWithin(FALSE) /\ UNCHANGED <<state, spent>>
    /\ UNCHANGED <<ledger, started, acted, done, verdict>> /\ StepOnly

(* The answer names a declared predicate, or is no evaluation at all.      *)
EvaluationAnswered(e, c) ==
    /\ pc = "calling" /\ state.phase = "evaluate"
    /\ IF Exceeded(Charged(state, c))
       THEN Select("provider_cost") /\ state' = Charged(state, c)
       ELSE IF e = "none" THEN FailWithin(TRUE) /\ state' = Charged(state, c)
       ELSE SaveThen("emitting") /\ state' = Evaluated(Charged(state, c), e)
    /\ spent' = spent + c
    /\ verdict' = <<state.iteration, e>>
    /\ UNCHANGED <<ledger, started, acted, done>> /\ StepOnly

(***************************************************************************)
(* act                                                                     *)
(***************************************************************************)
StartTool ==
    /\ pc = "top" /\ state.phase = "act" /\ Renewed
    /\ IF state.usage.toolCalls >= MaxToolCalls
       THEN Select("tool_call_limit") /\ UNCHANGED <<state, started, acted>>
       ELSE /\ Goto("executing") /\ state' = Reserved(state)
            /\ started' = started + 1
            /\ acted' = acted \union {<<state.iteration, state.plan>>}
    /\ UNCHANGED <<spent, done, verdict>> /\ StepOnly

(* The policy denies the tool (approvals are in WorkerRun.tla).            *)
ToolDenied ==
    /\ pc = "top" /\ state.phase = "act" /\ Renewed
    /\ FailWithin(TRUE)
    /\ UNCHANGED <<state, historyVars>> /\ StepOnly

ToolSucceeds ==
    /\ pc = "executing" /\ Renewed
    /\ SaveThen("emitting")
    /\ state' = Succeeded(state)
    /\ done' = done \union {<<state.iteration, state.action>>}
    /\ UNCHANGED <<spent, started, acted, verdict>> /\ StepOnly

(* It answers with an error, or throws.                                    *)
ToolFails ==
    /\ pc = "executing"
    /\ \/ Renewed /\ FailWithin(TRUE)
       \/ UNCHANGED ledger /\ FailWithin(FALSE)
    /\ UNCHANGED <<state, historyVars>> /\ StepOnly

(* An effect that must not be replayed, or a billable action denied        *)
ToolRefused ==
    /\ pc = "executing"
    /\ Select("quarantined") \/ Select("rolling_budget")
    /\ UNCHANGED <<ledger, state, historyVars>> /\ StepOnly

(***************************************************************************)
(* checkpoint and decide                                                   *)
(***************************************************************************)
SaveEvaluation ==
    /\ pc = "top" /\ state.phase = "checkpoint" /\ Renewed
    /\ SaveThen("decided")
    /\ UNCHANGED <<state, historyVars>> /\ StepOnly

Decide ==
    /\ pc = "top" /\ state.phase = "decide" /\ Renewed
    /\ IF state.evaluation = "matched" THEN Select("completed") /\ UNCHANGED state
       ELSE IF state.usage.iterations >= MaxIterations
       THEN Select("iteration_limit") /\ UNCHANGED state
       ELSE SaveThen("top") /\ state' = Reopened(state)
    /\ UNCHANGED historyVars /\ StepOnly

(* snapshotWorkerSupervisorState; an evaluation is saved as about to be    *)
(* decided.                                                                *)
Snapshot ==
    [state EXCEPT !.phase = IF state.phase = "checkpoint" /\ after # "backoff" THEN "decide"
                            ELSE state.phase,
                  !.plan = IF state.plan = NoPlan THEN NoPlan ELSE Redacted[state.plan]]

(* save: checkpoint and ledger in one transaction                          *)
Persist == checkpoint' = Snapshot /\ ledger' = state.usage

SaveLands ==
    /\ pc = "saving" /\ SaveAccepted(state.usage)
    /\ Persist
    /\ IF after = "decided" THEN Goto("emitting") /\ state' = Decided(state)
                            ELSE Goto(after) /\ UNCHANGED state
    /\ UNCHANGED outcome /\ Quiet

(* Between the events of a saved evaluation it becomes decided.            *)
Emitted ==
    /\ pc = "emitting" /\ Renewed
    /\ IF state.phase = "checkpoint"
       THEN Goto("emitting") /\ state' = Decided(state)
       ELSE Goto("top") /\ UNCHANGED state
    /\ UNCHANGED historyVars /\ StepOnly

(***************************************************************************)
(* failPhase                                                               *)
(***************************************************************************)
FailPhase ==
    /\ pc = "failing" /\ Renewed
    /\ state' = Failed(state)
    /\ IF Failed(state).usage.failures >= MaxFailures THEN Select("failed") ELSE SaveThen("backoff")
    /\ UNCHANGED historyVars /\ StepOnly

BackoffEnds ==
    /\ pc = "backoff" /\ Renewed
    /\ Goto("top")
    /\ UNCHANGED <<state, historyVars>> /\ StepOnly

(***************************************************************************)
(* Faults and interruptions                                                *)
(***************************************************************************)
Fault == faults < MaxFaults /\ faults' = faults + 1 /\ UNCHANGED cuts

(* The store fails while an event is appended or a lease renewed.  Inside  *)
(* a phase that is a failure of the phase; outside, the outer catch counts *)
(* failures up to the limit.                                               *)
StoreFails ==
    /\ pc \in {"top", "emitting", "failing", "backoff"} /\ Fault
    /\ IF pc = "emitting" \/ (pc # "top" /\ guarded)
       THEN FailWithin(FALSE) /\ UNCHANGED state
       ELSE /\ Select("failed")
            /\ state' = [state EXCEPT !.usage.failures = Greater(state.usage.failures, MaxFailures)]
    /\ UNCHANGED <<recordVars, beat, historyVars>>

(* The execution is gone: a crash, a shutdown, a pause, a lost lease, or a *)
(* save that failed.  One that was under way may be executed all the same. *)
Cut == cuts < MaxCuts /\ cuts' = cuts + 1 /\ UNCHANGED faults

Interrupted ==
    /\ pc # "idle" /\ Cut
    /\ pc' = "idle" /\ beat' = {}
    /\ \/ pc = "saving" /\ SaveAccepted(state.usage) /\ Persist
       \/ UNCHANGED <<ledger, checkpoint>>
    /\ UNCHANGED <<outcome, state, reason, after, guarded, stale, historyVars>>

(* awaitBounded is left because the time is up or somebody stopped the run *)
BoundReached ==
    /\ pc \notin {"idle", "finalizing"} /\ Cut
    /\ pc' = "finalizing" /\ reason' \in {"elapsed_time", "cancelled"}
    /\ \/ pc = "saving" /\ SaveAccepted(state.usage) /\ Persist /\ stale' = TRUE
       \/ UNCHANGED <<ledger, checkpoint, stale>>
    /\ UNCHANGED <<outcome, state, after, guarded, beat, historyVars>>

(* keepLeaseAlive, while the supervisor waits                              *)
Heartbeat ==
    /\ pc \in {"saving", "calling", "executing", "backoff"} /\ beat = {}
    /\ beat' = {state.usage}
    /\ UNCHANGED <<recordVars, controlVars, state, historyVars, boundVars>>

(* renew; the supervisor may be past its wait                              *)
HeartbeatLands ==
    /\ \E usage \in beat : ledger' = Advance(ledger, usage)
    /\ beat' = {}
    /\ UNCHANGED <<outcome, checkpoint, controlVars, state, historyVars, boundVars>>

(* finalize: a conflict of revisions releases the run for another attempt. *)
Finalize ==
    /\ pc = "finalizing"
    /\ pc' = "idle" /\ beat' = {}
    /\ IF stale THEN UNCHANGED <<outcome, ledger>>
       ELSE outcome' = reason /\ ledger' = state.usage
    /\ UNCHANGED <<checkpoint, state, reason, after, guarded, stale, historyVars, boundVars>>

(***************************************************************************)
(* The specification                                                       *)
(***************************************************************************)
Answered ==
    \/ CallFails
    \/ \E c \in Costs : Unusable(c) \/ (\E p \in Plans : PlanAnswered(p, c))
                                    \/ (\E e \in Evaluations : EvaluationAnswered(e, c))

Step ==
    \/ BeginIteration \/ CallProvider \/ Answered
    \/ StartTool \/ ToolDenied \/ ToolSucceeds \/ ToolFails \/ ToolRefused
    \/ SaveEvaluation \/ Decide \/ SaveLands \/ Emitted \/ FailPhase \/ BackoffEnds
    \/ Finalize

Next == Acquire \/ Step \/ StoreFails \/ Interrupted \/ BoundReached
            \/ Heartbeat \/ HeartbeatLands

Spec == Init /\ [][Next]_vars

(* The event loop runs, every wait has a deadline, and recovery and the    *)
(* job queue give the run to another execution (WorkerRun.tla).            *)
FairSpec == Spec /\ WF_vars(Acquire) /\ WF_vars(Step)

(***************************************************************************)
(* Properties                                                              *)
(***************************************************************************)
(* No interleaving of saves, late heartbeats and interruptions leaves a    *)
(* record that the next recovery refuses ("never more remaining budget     *)
(* than the checkpoint it resumes from", "impossible action cursor"), nor  *)
(* a state whose save the repository refuses.                              *)
RestoreAccepted ==
    /\ outcome = "none" => Restorable
    /\ outcome # "quarantined" \/ reason = "quarantined"
    /\ pc = "saving" => SaveAccepted(state.usage)

(* What a run has used is never given back: neither by a restart from an   *)
(* older checkpoint nor by a heartbeat that lands after a save.            *)
LedgerMonotone ==
    [][\A k \in {"iterations", "cost", "toolCalls"} : ledger'[k] >= ledger[k]]_vars

(* An iteration acts on one plan, over all executions, but for what was    *)
(* redacted: effect receipts are looked up by iteration and action         *)
(* (effects.ts), and another plan under the same number would make its     *)
(* effects unsafe replays.                                                 *)
OnePlanPerIteration ==
    \A one, other \in acted : one[1] = other[1] => Redacted[one[2]] = Redacted[other[2]]

(* The limits of a run hold over its executions: each interruption loses   *)
(* at most one attempt and one charge that no save or heartbeat recorded.  *)
BudgetsBoundWork ==
    /\ started <= MaxToolCalls + cuts
    /\ \A most \in Costs : (\A c \in Costs : c <= most) =>
           spent <= MaxCost - 1 + most * (1 + cuts)

(* A run completes after an evaluation of its last iteration that matched, *)
(* which is in its checkpoint, and after every action of that iteration's  *)
(* plan has succeeded, in whichever execution.                             *)
CompletedOnMatch == outcome = "completed" =>
    /\ verdict = <<state.iteration, "matched">>
    /\ checkpoint.phase = "decide" /\ checkpoint.iteration = state.iteration
    /\ \A i \in 0 .. Size[state.plan] - 1 : <<state.iteration, i>> \in done

(* How far a run is from its end, most significant first: interruptions it *)
(* may still meet; between two executions, or in one; failing store calls; *)
(* iterations; phases of this one; actions of its plan; failures in a row; *)
(* awaits of the attempt.                                                  *)
Left(limit, used) == Greater(0, limit - used)

Stage == CASE pc = "finalizing" /\ stale     -> 3
           [] pc = "idle" /\ outcome = "none" -> 2
           [] pc = "idle" /\ outcome # "none" -> 0
           [] OTHER                           -> 1

PhasesLeft == IF state.phase = "plan" THEN IF state.open THEN 6 ELSE 1
              ELSE [act |-> 5, evaluate |-> 4, checkpoint |-> 3, decide |-> 2][state.phase]

ActionsLeft == IF state.phase = "act" THEN Size[state.plan] - state.action ELSE 0

AwaitsLeft ==
    IF pc = "saving" /\ after = "decided" THEN 3
    ELSE [saving |-> 6, planning |-> 5, emitting |-> 5, backoff |-> 5, top |-> 4,
          calling |-> 3, executing |-> 3, failing |-> 2, finalizing |-> 1, idle |-> 0][pc]

Rank == <<Left(MaxCuts, cuts), Stage, Left(MaxFaults, faults),
          Left(MaxIterations, state.usage.iterations), PhasesLeft, ActionsLeft,
          Left(MaxFailures, state.usage.failures), AwaitsLeft>>

Below(r, s) == \E i \in DOMAIN s : r[i] < s[i] /\ \A j \in 1 .. i - 1 : r[j] = s[j]

(* Eight natural numbers, which cannot go down forever.                    *)
Ranked == Rank \in [1 .. 8 -> Nat]

(* No step but a heartbeat leaves a run as far from its end as it was:     *)
(* whatever fails, is retried, interrupted or repeated by another          *)
(* execution, it is never back where it has been.                          *)
ComesToEnd == [][IF Heartbeat \/ HeartbeatLands THEN Rank' = Rank ELSE Below(Rank', Rank)]_vars

(* Every run ends: failures, iterations and tool calls run out.            *)
Ends == <>(outcome # "none")
=================================================================================
