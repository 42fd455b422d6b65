----------------------------- MODULE RollingBudget -----------------------------
(***************************************************************************)
(* The rolling budget shared by the runs of a workspace (workers/rolling-  *)
(* budget.ts) and its two users: the provider calls of the supervisor      *)
(* (runtime/supervisor.ts callProvider) and the billable tools (runtime/   *)
(* adapters.ts).  A call is reserved before it is made, settled with what  *)
(* it cost or released when it brought no result; a reservation whose      *)
(* owner lost its run is released by the next reserve or recovery pass.    *)
(* What a provider call costs is only known when it is over: it may be     *)
(* more than was reserved.  The transaction that settles or releases may   *)
(* fail, and then its owner goes on under another key.                     *)
(*                                                                         *)
(* An owner is one execution <<run, fence>>; a call is <<run, fence, n>>,  *)
(* which stands for its reservation key.  A superseded owner may still be  *)
(* waiting for a call.  One store transaction is one step (Store.tla).     *)
(***************************************************************************)
EXTENDS Naturals, Functions

CONSTANTS
    Runs,
    Deployments, DeploymentOf,      \* the deployment of a run
    Kinds,          \* which of the two kinds of reservation to consider
    Policy,         \* the rolling budget policy of each kind and deployment
    Amounts,        \* what a provider call may reserve
    Costs,          \* what a provider call of a run may turn out to cost
    Window,         \* windowMs, in ticks
    MaxTime,        \* bound: ticks of the clock
    MaxFence,       \* bound: executions of each run
    MaxCalls        \* bound: calls of an execution, [Owners -> Nat]

ASSUME DeploymentsAssumption ==
    /\ Deployments # {} /\ DeploymentOf \in [Runs -> Deployments]
    /\ Policy \in [Kinds -> [Deployments -> [workspace : Nat, deployment : Nat]]]
ASSUME AmountsAssumption == Amounts \subseteq Nat \ {0} /\ Costs \in [Runs -> SUBSET Nat]
ASSUME KindsAssumption == Kinds \subseteq {"provider_cost_usd", "billable_action"}
ASSUME BoundsAssumption ==
    /\ Window \in Nat /\ MaxTime \in Nat /\ MaxFence \in [Runs -> Nat]

Owners == UNION {{r} \X (1 .. MaxFence[r]) : r \in Runs}
ASSUME CallsAssumption == MaxCalls \in [Owners -> Nat]
Calls == UNION {{o} \X (1 .. MaxCalls[o]) : o \in Owners}

VARIABLES
    kind,       \* the kind considered: the records of the other do not count
    now,
    ended,      \* [Runs -> BOOLEAN] the run is terminal
    fence,      \* [Runs -> Nat] runtimeFence
    live,       \* [Runs -> BOOLEAN] it has a runtimeLease that is not expired
    pc, calls,  \* [Owners -> ...] what an execution does; calls it has made
    status,     \* [Calls -> {"none", "reserved", "settled", "released"}]
    reservedAmount, settledAmount, settledAt,   \* [Calls -> Nat]
    spent, spentAt  \* history: what the outside charged for a call, and when

runVars == <<ended, fence, live>>
ownerVars == <<pc, calls>>
amountVars == <<reservedAmount, settledAmount, settledAt>>
recordVars == <<status, amountVars>>
historyVars == <<spent, spentAt>>
vars == <<kind, now, runVars, ownerVars, recordVars, historyVars>>

PCs == {"idle", "calling", "performed", "failing", "denied", "stopped"}

TypeOK ==
    /\ kind \in Kinds /\ now \in Nat
    /\ ended \in [Runs -> BOOLEAN] /\ fence \in [Runs -> Nat]
    /\ live \in [Runs -> BOOLEAN]
    /\ pc \in [Owners -> PCs]
    /\ calls \in [Owners -> Nat] /\ \A o \in Owners : calls[o] <= MaxCalls[o]
    /\ status \in [Calls -> {"none", "reserved", "settled", "released"}]
    /\ reservedAmount \in [Calls -> Nat] /\ settledAmount \in [Calls -> Nat]
    /\ settledAt \in [Calls -> Nat]
    /\ spent \in [Calls -> Nat] /\ spentAt \in [Calls -> Nat]

Init ==
    /\ kind \in Kinds /\ now = 0
    /\ ended = [r \in Runs |-> FALSE]
    /\ fence = [r \in Runs |-> 0]
    /\ live = [r \in Runs |-> FALSE]
    /\ pc = [o \in Owners |-> "stopped"] /\ calls = [o \in Owners |-> 0]
    /\ status = [k \in Calls |-> "none"]
    /\ reservedAmount = [k \in Calls |-> 0] /\ settledAmount = [k \in Calls |-> 0]
    /\ settledAt = [k \in Calls |-> 0]
    /\ spent = [k \in Calls |-> 0] /\ spentAt = [k \in Calls |-> 0]

Goto(o, l) == pc' = [pc EXCEPT ![o] = l]

(* The reservation an owner works under, and the one it would make next    *)
Current(o) == <<o, calls[o]>>
Following(o) == <<o, calls[o] + 1>>

(***************************************************************************)
(* reconcileAbandonedReservations                                          *)
(***************************************************************************)
(* Mutated: the reservation of a superseded execution is kept.             *)
Abandoned_AnyFence(o) == ended[o[1]] \/ ~live[o[1]]

(* abandonmentReason: the run is terminal, its lease is gone or expired,   *)
(* or another execution holds it.                                          *)
Abandoned(o) == ended[o[1]] \/ ~live[o[1]] \/ fence[o[1]] # o[2]

(* releaseReservation of every reservation that is abandoned               *)
Reconciled == [k \in Calls |->
    IF status[k] = "reserved" /\ Abandoned(k[1]) THEN "released" ELSE status[k]]

(***************************************************************************)
(* reserve                                                                 *)
(***************************************************************************)
(* chargedInWindow, of a call k with the statuses st                       *)
ChargedInWindow(st, k) ==
    \/ st[k] = "reserved"
    \/ st[k] = "settled" /\ settledAt[k] + Window >= now

CallsOf(d) == {k \in Calls : DeploymentOf[k[1][1]] = d}

(* What a record counts for                                                *)
charge == [k \in Calls |-> IF status[k] = "settled" THEN settledAmount[k] ELSE reservedAmount[k]]

(* sumCharges *)
Charges(st, S) == SumFunctionOnSet(charge, {k \in S : ChargedInWindow(st, k)})

(* workerRollingBudgetLimitForKind *)
Limit(d) == Policy[kind][d]

(* Mutated: only the reservations of the caller's deployment are counted.  *)
WithinLimits_OwnOnly(d, amount) ==
    /\ Charges(Reconciled, CallsOf(d)) + amount <= Limit(d).workspace
    /\ Charges(Reconciled, CallsOf(d)) + amount <= Limit(d).deployment

(* evaluateLimits, with the limits the caller's own policy names           *)
WithinLimits(d, amount) ==
    /\ Charges(Reconciled, Calls) + amount <= Limit(d).workspace
    /\ Charges(Reconciled, CallsOf(d)) + amount <= Limit(d).deployment

(* What is reserved: one billable action, or what the run has left         *)
ReservableAmounts == IF kind = "billable_action" THEN {1} ELSE Amounts

MayCall(o) ==
    /\ pc[o] = "idle" /\ calls[o] < MaxCalls[o]

(* requireLiveFencedRun *)
LiveFenced(o) == ~ended[o[1]] /\ live[o[1]] /\ fence[o[1]] = o[2]

(* The key holds the fence, the iteration and the count of consecutive     *)
(* failures, so each reservation of an execution has a key of its own.     *)
Reserve(o) ==
    /\ MayCall(o) /\ LiveFenced(o)
    /\ \E amount \in ReservableAmounts :
         /\ WithinLimits(DeploymentOf[o[1]], amount)
         /\ status' = [Reconciled EXCEPT ![Following(o)] = "reserved"]
         /\ reservedAmount' = [reservedAmount EXCEPT ![Following(o)] = amount]
    /\ calls' = [calls EXCEPT ![o] = @ + 1]
    /\ Goto(o, "calling")
    /\ UNCHANGED <<kind, now, runVars, settledAmount, settledAt, historyVars>>

(* A denial is an answer, not an error: what was reconciled stays.         *)
Denied(o) ==
    /\ MayCall(o) /\ LiveFenced(o)
    /\ \E amount \in ReservableAmounts : ~WithinLimits(DeploymentOf[o[1]], amount)
    /\ status' = Reconciled
    /\ Goto(o, "denied")
    /\ UNCHANGED <<kind, now, runVars, calls, amountVars, historyVars>>

(* stale_fence is thrown: the transaction, reconciliation included, is     *)
(* rolled back and the execution stops.                                    *)
StaleFence(o) ==
    /\ pc[o] = "idle" /\ ~LiveFenced(o)
    /\ Goto(o, "stopped")
    /\ UNCHANGED <<kind, now, runVars, calls, recordVars, historyVars>>

(* The denied run ends as budget_exhausted, if its lease still allows it.  *)
Exhaust(o) ==
    /\ pc[o] = "denied"
    /\ Goto(o, "stopped")
    /\ IF LiveFenced(o)
         THEN /\ ended' = [ended EXCEPT ![o[1]] = TRUE]
              /\ live' = [live EXCEPT ![o[1]] = FALSE]
         ELSE UNCHANGED <<ended, live>>
    /\ UNCHANGED <<kind, now, fence, calls, recordVars, historyVars>>

(***************************************************************************)
(* The call.                                                               *)
(***************************************************************************)
(* The provider or the tool does the work.  Nothing holds a provider to    *)
(* what was reserved.                                                      *)
Perform(o) ==
    /\ pc[o] = "calling"
    /\ \E cost \in IF kind = "billable_action" THEN {1} ELSE Costs[o[1]] :
         spent' = [spent EXCEPT ![Current(o)] = cost]
    /\ spentAt' = [spentAt EXCEPT ![Current(o)] = now]
    /\ Goto(o, "performed")
    /\ UNCHANGED <<kind, now, runVars, calls, recordVars>>

(* settle: a released reservation is a conflict and stays released.        *)
SettleRecord(o) ==
    IF status[Current(o)] = "reserved"
      THEN /\ status' = [status EXCEPT ![Current(o)] = "settled"]
           /\ settledAmount' = [settledAmount EXCEPT ![Current(o)] = spent[Current(o)]]
           /\ settledAt' = [settledAt EXCEPT ![Current(o)] = now]
           /\ UNCHANGED reservedAmount
      ELSE UNCHANGED recordVars

(* The result arrives, or a billable tool ends either way.                 *)
Settle(o) ==
    /\ pc[o] = "performed"
    /\ SettleRecord(o)
    /\ Goto(o, IF status[Current(o)] = "reserved" THEN "idle" ELSE "stopped")
    /\ UNCHANGED <<kind, now, runVars, calls, historyVars>>

(* Mutated: the release of a billable action does not look whether it was  *)
(* attempted.                                                              *)
MayFail_Attempted(o) == pc[o] \in {"calling", "performed"}

(* A provider call that throws or is aborted, performed or not; a tool     *)
(* that was not attempted.                                                 *)
MayFail(o) ==
    \/ pc[o] = "calling"
    \/ pc[o] = "performed" /\ kind = "provider_cost_usd"

CallFails(o) ==
    /\ MayFail(o)
    /\ Goto(o, "failing")
    /\ UNCHANGED <<kind, now, runVars, calls, recordVars, historyVars>>

(* release: already released is answered, settled is refused.              *)
Release(o) ==
    /\ pc[o] = "failing"
    /\ status' = [status EXCEPT ![Current(o)] = IF @ = "reserved" THEN "released" ELSE @]
    /\ Goto(o, "idle")
    /\ UNCHANGED <<kind, now, runVars, calls, amountVars, historyVars>>

(* The transaction of a settle or a release fails: the phase fails with    *)
(* it, and the next reservation has another key.                           *)
OutcomeUnwritten(o) ==
    /\ pc[o] \in {"performed", "failing"}
    /\ Goto(o, "idle")
    /\ UNCHANGED <<kind, now, runVars, calls, recordVars, historyVars>>

(***************************************************************************)
(* The run, its lease and the clock (WorkerRun.tla in short).              *)
(***************************************************************************)
Acquire(r) ==
    /\ ~ended[r] /\ ~live[r] /\ fence[r] < MaxFence[r]
    /\ fence' = [fence EXCEPT ![r] = @ + 1]
    /\ live' = [live EXCEPT ![r] = TRUE]
    /\ Goto(<<r, fence[r] + 1>>, "idle")
    /\ UNCHANGED <<kind, now, ended, calls, recordVars, historyVars>>

(* Nobody renewed the lease in time (its owner may be dead or only slow),  *)
(* or an operator paused the run, or it waits for something.               *)
ExpireLease(r) ==
    /\ live[r]
    /\ live' = [live EXCEPT ![r] = FALSE]
    /\ UNCHANGED <<kind, now, ended, fence, ownerVars, recordVars, historyVars>>

(* Between two calls the run ends by itself, at any moment by an operator. *)
EndRun(r) ==
    /\ ~ended[r]
    /\ live' = [live EXCEPT ![r] = FALSE]
    /\ ended' = [ended EXCEPT ![r] = TRUE]
    /\ UNCHANGED <<kind, now, fence, ownerVars, recordVars, historyVars>>

(* The process of an execution dies; one that holds no reservation only    *)
(* leaves its lease to expire.                                             *)
Crash(o) ==
    /\ pc[o] \in {"calling", "performed", "failing"}
    /\ Goto(o, "stopped")
    /\ UNCHANGED <<kind, now, runVars, calls, recordVars, historyVars>>

(* Time matters once there is something to date.                           *)
Tick ==
    /\ now < MaxTime /\ \E k \in Calls : spent[k] > 0
    /\ now' = now + 1
    /\ UNCHANGED <<kind, runVars, ownerVars, recordVars, historyVars>>

(* The last step of a recovery pass (recoverExpired)                       *)
Reconcile ==
    /\ Reconciled # status
    /\ status' = Reconciled
    /\ UNCHANGED <<kind, now, runVars, ownerVars, amountVars, historyVars>>

CallStep(o) == Perform(o) \/ Settle(o) \/ CallFails(o) \/ Release(o) \/ OutcomeUnwritten(o)

OwnerStep(o) == Reserve(o) \/ Denied(o) \/ StaleFence(o) \/ Exhaust(o) \/ CallStep(o) \/ Crash(o)

Next ==
    \/ \E o \in Owners : OwnerStep(o)
    \/ \E r \in Runs : Acquire(r) \/ ExpireLease(r) \/ EndRun(r)
    \/ Tick \/ Reconcile

Spec == Init /\ [][Next]_vars

(* A call ends or is aborted (every wait of the supervisor has a deadline) *)
(* and its outcome is written or cannot be; the lease of a dead owner      *)
(* expires; the recovery reconciler runs again and again.                  *)
DeadOwnerExpires(r) == live[r] /\ pc[<<r, fence[r]>>] = "stopped" /\ ExpireLease(r)
Fairness ==
    /\ \A o \in Owners : WF_vars(CallStep(o))
    /\ \A r \in Runs : WF_vars(DeadOwnerExpires(r))
    /\ WF_vars(Reconcile)

FairSpec == Spec /\ Fairness

(***************************************************************************)
(* Properties                                                              *)
(***************************************************************************)
(* What calls of S really cost within the window, leaving out the calls    *)
(* whose reservation was released (their result never came back, or their  *)
(* owner lost its run first) and what a call cost beyond its reservation.  *)
foreseen == [k \in Calls |->
    IF spent[k] <= reservedAmount[k] THEN spent[k] ELSE reservedAmount[k]]
Spending(S) == SumFunctionOnSet(foreseen,
    {k \in S : spent[k] > 0 /\ spentAt[k] + Window >= now /\ status[k] # "released"})

(* What is known of the cost of S: what settled calls of the window really *)
(* cost, and what is reserved.                                             *)
known == [k \in Calls |-> IF status[k] = "settled" THEN spent[k] ELSE reservedAmount[k]]
Known(S) == SumFunctionOnSet(known,
    {k \in S : \/ status[k] = "reserved"
               \/ status[k] = "settled" /\ spentAt[k] + Window >= now})

(* The workspace's limit is the one that the policy of some deployment     *)
(* names.                                                                  *)
ForeseenWithinLimits ==
    /\ \E d \in Deployments : Spending(Calls) <= Limit(d).workspace
    /\ \A d \in Deployments : Spending(CallsOf(d)) <= Limit(d).deployment

(* What is granted fits under what is known by then, all that the settled  *)
(* calls cost beyond their reservations included.                          *)
GrantsFit == \A k \in Calls :
    status[k] # "reserved" /\ status'[k] = "reserved" =>
        /\ Known(Calls)' <= Limit(DeploymentOf[k[1][1]]).workspace
        /\ Known(CallsOf(DeploymentOf[k[1][1]]))' <= Limit(DeploymentOf[k[1][1]]).deployment

(* However the calls of several runs interleave, expire and are settled,   *)
(* the limits are exceeded only by what calls in progress turn out to cost *)
(* beyond their reservations, and then nothing is granted until there is   *)
(* room again.  What is spent for billable actions, one each, stays within *)
(* the limits.                                                             *)
OnlyOvershootExceeds == []ForeseenWithinLimits /\ [][GrantsFit]_vars

(* A billable action that was performed is never given back to the budget, *)
(* whatever becomes of its answer, unless its owner lost the run first.    *)
OnlyLosersUncounted == \A k \in Calls :
    status[k] = "released" /\ kind = "billable_action" /\ spent[k] > 0 => ~LiveFenced(k[1])

(* What was settled or released is final: it is not charged twice, nor     *)
(* charged again after the budget was given to another call.               *)
FinalStays == [][\A k \in Calls :
    status[k] \in {"settled", "released"} =>
        /\ status'[k] = status[k] /\ reservedAmount'[k] = reservedAmount[k]
        /\ settledAmount'[k] = settledAmount[k] /\ settledAt'[k] = settledAt[k]]_vars

Leasing(r) == INSTANCE RunLease
    WITH fence <- fence[r], live <- live[r], ended <- ended[r]

(* The runs that budgets are fenced by are runs as WorkerRun.tla has them. *)
KeepLeases == \A r \in Runs : Leasing(r)!Spec

(* Budget held for a call comes back, whether its process died, its run    *)
(* ended or another execution took it over.  Only an execution that lives  *)
(* and goes on can keep some, that of a call whose outcome it could not    *)
(* write, and it keeps that no longer than its lease and its run.          *)
GoingOn(o) == LiveFenced(o) /\ pc[o] \in {"idle", "denied"}
HoldsEnd == <>[](\A k \in Calls : status[k] = "reserved" => GoingOn(k[1]))
================================================================================
