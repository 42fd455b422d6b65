------------------------------- MODULE EffectReceipts -------------------------------
(***************************************************************************)
(* The external effects of one iteration of a WorkerRun: the plan the      *)
(* provider returns, the tool calls it asks for, the receipt of each, and  *)
(* the checkpoints between them, across crashes, takeovers, shutdowns,     *)
(* pauses and recovery (effects.ts with the act phase of supervisor.ts and *)
(* recoverySafetyIssue of recovery.ts).                                    *)
(*                                                                         *)
(* The run's lease is WorkerRun's, reduced to what prepare, complete and   *)
(* save test of it; which job carries the next execution is left open: any *)
(* execution may acquire a run that is queued or running without a live    *)
(* lease.  A call is one coordinator.execute; it goes on as a stray when   *)
(* its supervisor stops waiting, and its request may outlive its process.  *)
(***************************************************************************)
EXTENDS Naturals, Sequences, FiniteSets

CONSTANTS
    Supervisors,        \* executions of the run's jobs
    Class,              \* the classification of each planned action, in order
    Plans,              \* what the provider may answer: the inputs of the actions
    MaxFence,           \* bound: takeovers
    MaxCheckpoints,     \* bound: checkpoints
    MaxFaults           \* bound: crashes, aborts, expiries, failed transactions, pauses

Classes == {"idempotent_mutation", "reconcilable_mutation", "non_replayable_mutation"}

ASSUME ClassAssumption == Class \in Seq(Classes)
ASSUME PlansAssumption == Plans # {} /\ "none" \notin Plans
ASSUME BoundsAssumption == MaxFence \in Nat /\ MaxCheckpoints \in Nat /\ MaxFaults \in Nat

VARIABLES
    status,         \* WorkerRun.status
    fence, lease,   \* runtimeFence; the lease under it: "none", "live" or "expired"
    chain,          \* the newest checkpoint: its number, plan and action cursor
    receipt,        \* the receipt of each action
    performed,      \* external: how often each action's effect was done
    pc, mine,       \* a supervisor's control state, and the state it works with
    verdict,        \* its reducer's outcome
    call,           \* the call it awaits
    strays,         \* calls and saves nobody awaits
    faults

vars == <<status, fence, lease, chain, receipt, performed, pc, mine, verdict, call, strays, faults>>

Actions == 1 .. Len(Class)

Ended == {"completed", "failed", "budget_exhausted", "quarantined", "cancelled"}

(* "aborted" is the error or timeout of a tool whose signal was aborted.   *)
Results == {"none", "ok", "error", "aborted"}

Steps == {"none", "prepare", "perform", "reconcile", "complete", "save",
          "sent", "answered", "unsafe", "threw"}

NoCall == [step |-> "none", fence |-> 0, seq |-> 0, plan |-> "none", action |-> 1,
           result |-> "none", aborted |-> FALSE]

NoReceipt == [state |-> "none", plan |-> "none", result |-> "none"]

(* A fresh run has no checkpoint; the first action is the one to plan for. *)
Init ==
    /\ status = "queued" /\ fence = 0 /\ lease = "none"
    /\ chain = [seq |-> 0, plan |-> "none", action |-> 1]
    /\ receipt = [a \in Actions |-> NoReceipt]
    /\ performed = [a \in Actions |-> 0]
    /\ pc = [s \in Supervisors |-> "idle"]
    /\ mine = [s \in Supervisors |-> [fence |-> 0, seq |-> 0, plan |-> "none", action |-> 1]]
    /\ verdict = [s \in Supervisors |-> "none"]
    /\ call = [s \in Supervisors |-> NoCall]
    /\ strays = {}
    /\ faults = 0

(***************************************************************************)
(* Helpers                                                                 *)
(***************************************************************************)
(* Mutated: the fence counts whether or not there still is a lease.        *)
Fenced_Unleased(f) == fence = f

(* requireFencedRun: the lease and its fence, not the status.              *)
Fenced(f) == lease = "live" /\ fence = f

Goto(s, at) == pc' = [pc EXCEPT ![s] = at]

Select(s, v) == Goto(s, "finalizing") /\ verdict' = [verdict EXCEPT ![s] = v]

(* What a supervisor hands to the store or to the coordinator.             *)
CallOf(s, step) ==
    [step |-> step, fence |-> mine[s].fence, seq |-> mine[s].seq, plan |-> mine[s].plan,
     action |-> mine[s].action, result |-> "none", aborted |-> FALSE]

(* What a supervisor stops waiting for goes on without it.                 *)
Abandon(s) ==
    /\ call' = [call EXCEPT ![s] = NoCall]
    /\ strays' = IF call[s].step \in {"none", "answered", "unsafe", "threw"} THEN strays
                 ELSE strays \union {[call[s] EXCEPT !.aborted = TRUE]}

(* A process that dies leaves only the requests it has sent.               *)
Outlives(c) ==
    CASE c.step = "perform" -> {[c EXCEPT !.step = "sent"]}
      [] c.step = "save"    -> {c}
      [] OTHER              -> {}

Fault == faults < MaxFaults /\ faults' = faults + 1

(***************************************************************************)
(* The coordinator (effects.ts).  Each operator takes a call to the call   *)
(* it becomes.                                                             *)
(***************************************************************************)
(* Mutated: an effect that may have happened is performed again.           *)
AfterPrepared_Replay(class) == "perform"

(* Where a receipt found prepared leads, by its classification.            *)
AfterPrepared(class) ==
    CASE class = "non_replayable_mutation" -> "unsafe"
      [] class = "reconcilable_mutation"   -> "reconcile"
      [] OTHER                             -> "perform"

Becomes(c, step) == [c EXCEPT !.step = step]

Answers(c, result) == [c EXCEPT !.step = "answered", !.result = result]

(* A store transaction that fails, or whose success is not reported.       *)
Fails(c, next) == Fault /\ next = Becomes(c, "threw")

(* requireFencedRun, or assertMatchingEffect, throws.                      *)
Refused(c, next) ==
    /\ ~Fenced(c.fence) \/ receipt[c.action].plan \notin {"none", c.plan}
    /\ next = Becomes(c, "threw")
    /\ UNCHANGED <<receipt, faults>>

(* prepare.                                                                *)
Prepare(c, next) ==
    /\ c.step = "prepare"
    /\ \/ Refused(c, next)
       \/ Fails(c, next) /\ UNCHANGED receipt
       \/ /\ Fenced(c.fence)
          /\ receipt[c.action].state = "none"
          /\ receipt' = [receipt EXCEPT ![c.action] =
                            [state |-> "prepared", plan |-> c.plan, result |-> "none"]]
          /\ \/ next = Becomes(c, "perform") /\ UNCHANGED faults
             \/ Fails(c, next)
       \/ /\ Fenced(c.fence)
          /\ receipt[c.action].state # "none" /\ receipt[c.action].plan = c.plan
          /\ next = IF receipt[c.action].state = "completed"
                    THEN Answers(c, receipt[c.action].result)
                    ELSE Becomes(c, AfterPrepared(Class[c.action]))
          /\ UNCHANGED <<receipt, faults>>
    /\ UNCHANGED performed

(* executeTool: the effect takes place or not; an error says nothing about *)
(* which.  It returns and does not throw.                                  *)
Perform(c, next) ==
    /\ c.step = "perform"
    /\ \/ /\ performed' = [performed EXCEPT ![c.action] = @ + 1]
          /\ \E r \in {"ok", IF c.aborted THEN "aborted" ELSE "error"} :
                 next = [c EXCEPT !.step = "complete", !.result = r]
       \/ /\ UNCHANGED performed
          /\ next = [c EXCEPT !.step = "complete",
                              !.result = IF c.aborted THEN "aborted" ELSE "error"]
    /\ UNCHANGED <<receipt, faults>>

(* Mutated: a prepared effect is taken for done without asking the tool.   *)
Reconcile_Assumed(c, next) ==
    /\ c.step = "reconcile"
    /\ next = [c EXCEPT !.step = "complete", !.result = "ok"]
    /\ UNCHANGED <<receipt, performed, faults>>

(* The tool's reconcile hook, when it has one, tells the truth.            *)
Reconcile(c, next) ==
    /\ c.step = "reconcile"
    /\ \/ performed[c.action] = 0 /\ next = Becomes(c, "perform")
       \/ performed[c.action] > 0 /\ next = [c EXCEPT !.step = "complete", !.result = "ok"]
       \/ next = Becomes(c, "unsafe")
    /\ UNCHANGED <<receipt, performed, faults>>

(* complete: a completed receipt is returned as it is.                     *)
Complete(c, next) ==
    /\ c.step = "complete"
    /\ \/ Refused(c, next)
       \/ Fails(c, next) /\ UNCHANGED receipt
       \/ /\ Fenced(c.fence)
          /\ receipt[c.action].state = "prepared"
          /\ receipt' = [receipt EXCEPT ![c.action].state = "completed",
                                        ![c.action].result = c.result]
          /\ \/ next = Answers(c, c.result) /\ UNCHANGED faults
             \/ Fails(c, next)
       \/ /\ Fenced(c.fence)
          /\ receipt[c.action].state = "completed"
          /\ next = Answers(c, receipt[c.action].result)
          /\ UNCHANGED <<receipt, faults>>
    /\ UNCHANGED performed

CallStep(c, next) ==
    \/ Prepare(c, next) \/ Perform(c, next) \/ Reconcile(c, next) \/ Complete(c, next)

(* save: the fence and the sequence are still the supervisor's.            *)
SaveAccepted(c) == Fenced(c.fence) /\ chain.seq = c.seq

Checkpoint(c) == [seq |-> c.seq + 1, plan |-> c.plan, action |-> c.action]

(***************************************************************************)
(* The supervisor                                                          *)
(***************************************************************************)
(* acquire, with the state restored from the newest checkpoint.            *)
Acquire(s) ==
    /\ pc[s] = "idle" /\ fence < MaxFence
    /\ status \in {"queued", "running"} /\ lease # "live"
    /\ status' = "running" /\ fence' = fence + 1 /\ lease' = "live"
    /\ mine' = [mine EXCEPT ![s] = [fence |-> fence + 1, seq |-> chain.seq,
                                    plan |-> chain.plan, action |-> chain.action]]
    /\ Goto(s, "working")
    /\ UNCHANGED <<chain, receipt, performed, verdict, call, strays, faults>>

(* Mutated: the plan is acted upon without a checkpoint of it.             *)
PlanNext_Unsaved == "working"

PlanNext == "saving"

(* provider.plan_succeeded, then persistState before anything acts on it.  *)
PlanArrives(s, p) ==
    /\ pc[s] = "working" /\ mine[s].plan = "none"
    /\ mine' = [mine EXCEPT ![s].plan = p]
    /\ Goto(s, PlanNext)
    /\ UNCHANGED <<status, fence, lease, chain, receipt, performed, verdict, call, strays, faults>>

IssueSave(s) ==
    /\ pc[s] = "saving" /\ call[s] = NoCall
    /\ mine[s].seq < MaxCheckpoints
    /\ call' = [call EXCEPT ![s] = CallOf(s, "save")]
    /\ UNCHANGED <<status, fence, lease, chain, receipt, performed, pc, mine, verdict, strays, faults>>

StoreSave(s) ==
    /\ pc[s] = "saving" /\ call[s].step = "save"
    /\ call' = [call EXCEPT ![s] = NoCall]
    /\ IF SaveAccepted(call[s])
          THEN /\ chain' = Checkpoint(call[s])
               /\ mine' = [mine EXCEPT ![s].seq = @ + 1]
               /\ Goto(s, "working")
          ELSE Goto(s, "releasing") /\ UNCHANGED <<chain, mine>>
    /\ UNCHANGED <<status, fence, lease, receipt, performed, verdict, strays, faults>>

(* The next planned action goes to the coordinator; refreshControl has     *)
(* just found the lease still held.                                        *)
StartCall(s) ==
    /\ pc[s] = "working" /\ Fenced(mine[s].fence)
    /\ mine[s].plan # "none" /\ mine[s].action \in Actions
    /\ call' = [call EXCEPT ![s] = CallOf(s, "prepare")]
    /\ Goto(s, "waiting")
    /\ UNCHANGED <<status, fence, lease, chain, receipt, performed, mine, verdict, strays, faults>>

Advance(s) ==
    /\ pc[s] = "waiting"
    /\ \E step \in Steps, result \in Results :
           LET next == [call[s] EXCEPT !.step = step, !.result = result]
           IN  CallStep(call[s], next) /\ call' = [call EXCEPT ![s] = next]
    /\ UNCHANGED <<status, fence, lease, chain, pc, mine, verdict, strays>>

Succeeded(c) == c.step = "answered" /\ c.result = "ok"

(* refreshControl, then tool.succeeded and the save, the quarantine of an  *)
(* unsafe replay, or failPhase: a save and another attempt unless this was *)
(* the last failure allowed.                                               *)
UseAnswer(s) ==
    /\ pc[s] = "waiting"
    /\ call[s].step \in {"answered", "unsafe", "threw"}
    /\ call' = [call EXCEPT ![s] = NoCall]
    /\ IF call[s].step = "unsafe"
          THEN Select(s, "quarantined") /\ UNCHANGED mine
       ELSE IF ~Fenced(mine[s].fence)
          THEN Goto(s, "releasing") /\ UNCHANGED <<mine, verdict>>
       ELSE IF Succeeded(call[s])
          THEN /\ mine' = [mine EXCEPT ![s].action = @ + 1]
               /\ Goto(s, "saving") /\ UNCHANGED verdict
       ELSE \/ Goto(s, "saving") /\ UNCHANGED <<mine, verdict>>
            \/ Select(s, "failed") /\ UNCHANGED mine
    /\ UNCHANGED <<status, fence, lease, chain, receipt, performed, strays, faults>>

(* All actions done and saved: evaluate and decide complete the run.       *)
Decide(s) ==
    /\ pc[s] = "working" /\ mine[s].plan # "none" /\ mine[s].action \notin Actions
    /\ Select(s, "completed")
    /\ UNCHANGED <<status, fence, lease, chain, receipt, performed, mine, call, strays, faults>>

Finalize(s) ==
    /\ pc[s] = "finalizing"
    /\ IF status \notin Ended /\ Fenced(mine[s].fence)
          THEN status' = verdict[s] /\ lease' = "none"
          ELSE UNCHANGED <<status, lease>>
    /\ Goto(s, "releasing")
    /\ UNCHANGED <<fence, chain, receipt, performed, mine, verdict, call, strays, faults>>

(* release, expired or not, and the end of the execution.                  *)
Release(s) ==
    /\ pc[s] = "releasing"
    /\ lease' = IF fence = mine[s].fence THEN "none" ELSE lease
    /\ Goto(s, "idle")
    /\ verdict' = [verdict EXCEPT ![s] = "none"]
    /\ mine' = [mine EXCEPT ![s] = [fence |-> 0, seq |-> 0, plan |-> "none", action |-> 1]]
    /\ UNCHANGED <<status, fence, chain, receipt, performed, call, strays, faults>>

(* awaitBounded ends early: the scheduler shuts down or the lease is gone  *)
(* (released), or the operator cancels or the time is up (terminal).       *)
Interrupt(s) ==
    /\ pc[s] \in {"working", "saving", "waiting"}
    /\ \/ ~Fenced(mine[s].fence) /\ Goto(s, "releasing") /\ UNCHANGED <<verdict, faults>>
       \/ Fault /\ Goto(s, "releasing") /\ UNCHANGED verdict
       \/ Fault /\ \E v \in {"cancelled", "budget_exhausted"} : Select(s, v)
    /\ Abandon(s)
    /\ UNCHANGED <<status, fence, lease, chain, receipt, performed, mine>>

(***************************************************************************)
(* What nobody waits for                                                   *)
(***************************************************************************)
StrayCall(c) ==
    /\ \E step \in Steps, result \in Results :
           LET next == [c EXCEPT !.step = step, !.result = result]
           IN  /\ CallStep(c, next)
               /\ strays' = (strays \ {c}) \union
                      (IF step \in {"answered", "unsafe", "threw"} THEN {} ELSE {next})
    /\ UNCHANGED <<status, fence, lease, chain, pc, mine, verdict, call>>

StraySave(c) ==
    /\ c.step = "save" /\ SaveAccepted(c)
    /\ chain' = Checkpoint(c)
    /\ strays' = strays \ {c}
    /\ UNCHANGED <<status, fence, lease, receipt, performed, pc, mine, verdict, call, faults>>

(* The request of a process that died takes effect.                        *)
Delivered(c) ==
    /\ c.step = "sent"
    /\ performed' = [performed EXCEPT ![c.action] = @ + 1]
    /\ strays' = strays \ {c}
    /\ UNCHANGED <<status, fence, lease, chain, receipt, pc, mine, verdict, call, faults>>

(***************************************************************************)
(* Failures, recovery, operators                                           *)
(***************************************************************************)
(* A request on its way is still delivered, its answer to nobody.          *)
Crash(s) ==
    /\ Fault
    /\ pc[s] # "idle"
    /\ Goto(s, "idle")
    /\ verdict' = [verdict EXCEPT ![s] = "none"]
    /\ mine' = [mine EXCEPT ![s] = [fence |-> 0, seq |-> 0, plan |-> "none", action |-> 1]]
    /\ call' = [call EXCEPT ![s] = NoCall]
    /\ strays' = strays \union Outlives(call[s])
    /\ UNCHANGED <<status, fence, lease, chain, receipt, performed>>

LeaseExpires ==
    /\ Fault
    /\ lease = "live"
    /\ lease' = "expired"
    /\ UNCHANGED <<status, fence, chain, receipt, performed, pc, mine, verdict, call, strays>>

Unresolved == {a \in Actions : receipt[a].state = "prepared"}

(* Mutated: a prepared effect of any class is taken for uncertain.         *)
RecoverySafetyIssue_AnyPrepared == Unresolved # {}

(* Effects the newest checkpoint counts as done are completed; at most one *)
(* is unresolved, replayable, and the one the cursor stands at.            *)
RecoverySafetyIssue ==
    \/ \E a \in Actions : a < chain.action /\ receipt[a].state # "completed"
    \/ Cardinality(Unresolved) > 1
    \/ \E a \in Unresolved :
           \/ Class[a] = "non_replayable_mutation"
           \/ chain.plan = "none" \/ chain.action # a

Recover ==
    /\ status = "running" /\ lease # "live"
    /\ status' = IF RecoverySafetyIssue THEN "quarantined" ELSE status
    /\ lease' = "none"
    /\ UNCHANGED <<fence, chain, receipt, performed, pc, mine, verdict, call, strays, faults>>

Pause ==
    /\ Fault
    /\ status \in {"queued", "running"}
    /\ status' = "paused" /\ lease' = "none"
    /\ UNCHANGED <<fence, chain, receipt, performed, pc, mine, verdict, call, strays>>

Resume ==
    /\ status = "paused"
    /\ status' = "queued"
    /\ UNCHANGED <<fence, lease, chain, receipt, performed, pc, mine, verdict, call, strays, faults>>

Supervise(s) ==
    \/ Acquire(s) \/ IssueSave(s) \/ StoreSave(s) \/ StartCall(s) \/ Advance(s) \/ UseAnswer(s)
    \/ Decide(s) \/ Finalize(s) \/ Release(s) \/ Interrupt(s)
    \/ \E p \in Plans : PlanArrives(s, p)

Next ==
    \/ \E s \in Supervisors : Supervise(s) \/ Crash(s)
    \/ \E c \in strays : StrayCall(c) \/ StraySave(c) \/ Delivered(c)
    \/ LeaseExpires \/ Recover \/ Pause \/ Resume

Spec == Init /\ [][Next]_vars

(***************************************************************************)
(* Properties                                                              *)
(***************************************************************************)
Call == [step : Steps, fence : Nat, seq : Nat, plan : Plans \union {"none"},
         action : 1 .. Len(Class) + 1, result : Results, aborted : BOOLEAN]

(* Every variable keeps its type.                                          *)
TypeOK ==
    /\ status \in {"queued", "running", "paused"} \union Ended
    /\ fence \in Nat /\ lease \in {"none", "live", "expired"}
    /\ chain \in [seq : Nat, plan : Plans \union {"none"}, action : 1 .. Len(Class) + 1]
    /\ receipt \in [Actions -> [state : {"none", "prepared", "completed"},
                                plan : Plans \union {"none"}, result : Results]]
    /\ performed \in [Actions -> Nat]
    /\ pc \in [Supervisors -> {"idle", "working", "saving", "waiting", "finalizing", "releasing"}]
    /\ mine \in [Supervisors -> [fence : Nat, seq : Nat, plan : Plans \union {"none"},
                                 action : 1 .. Len(Class) + 1]]
    /\ verdict \in [Supervisors -> Ended \union {"none"}]
    /\ call \in [Supervisors -> Call]
    /\ strays \subseteq Call
    /\ faults \in Nat

(* The effect of a non-replayable action takes place at most once, however *)
(* often the run is taken over, retried, paused and resumed or recovered,  *)
(* and even when a request outlives the process that sent it.              *)
NonReplayableOnce ==
    \A a \in Actions : Class[a] = "non_replayable_mutation" => performed[a] <= 1

(* The store always looks to recovery as a supervisor that stopped here    *)
(* would leave it: what the checkpoint counts as done is completed, and    *)
(* the one unresolved effect is that of the planned action it stands at.   *)
ReceiptsMatchChain ==
    /\ \A a \in Actions : a < chain.action => receipt[a].state = "completed"
    /\ \A a \in Unresolved : chain.action = a /\ chain.plan = receipt[a].plan

(* A run is quarantined only over an effect whose outcome is not known and *)
(* that cannot simply be repeated.                                         *)
QuarantinedOnlyUncertain ==
    status = "quarantined" =>
        \E a \in Unresolved : Class[a] # "idempotent_mutation"

(* A completed run has done each planned action, and says so.              *)
CompletedRunPerformed ==
    status = "completed" =>
        \A a \in Actions : performed[a] > 0 /\ receipt[a].result = "ok"

(* What the completed receipts answer                                      *)
Outcomes == [a \in Actions |->
    IF receipt[a].state = "completed" THEN receipt[a].result ELSE "none"]

RunIs == CASE status = "completed" -> "completed"
           [] status \in Ended \ {"completed"} -> "stopped"
           [] OTHER -> "open"

Log == INSTANCE EffectLog WITH outcome <- Outcomes, run <- RunIs

Leasing == INSTANCE RunLease WITH live <- (lease = "live"), ended <- (status \in Ended)

(* The run that effects are fenced by is one as WorkerRun.tla has it.      *)
KeepsLease == Leasing!Spec

(* The receipts are a log of the plan: an effect takes place only after    *)
(* all earlier actions have succeeded, what is recorded is final and true, *)
(* and it is recorded before the run ends, whichever execution or stray    *)
(* call does it.                                                           *)
KeepsLog == Log!Spec
=====================================================================================
