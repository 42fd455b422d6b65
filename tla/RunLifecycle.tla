------------------------------ MODULE RunLifecycle ------------------------------
(***************************************************************************)
(* What the rest of PacketAgent is promised about one WorkerRun record:    *)
(* it moves only along RUN_TRANSITIONS, each update of the record is       *)
(* numbered, the execution fence only grows, and a terminal run is frozen. *)
(* src/workers/transitions.ts checks this with assertWorkerRunUpdate each  *)
(* time a writer replaces the record; WorkerRun.tla has none of those      *)
(* checks on its writers (one excepted) and is shown to implement this.    *)
(***************************************************************************)
EXTENDS Naturals

VARIABLES
    status,      \* WorkerRun.status
    revision,    \* WorkerRun.revision
    fence        \* WorkerRun.runtimeFence

vars == <<status, revision, fence>>

(* TERMINAL_WORKER_RUN_STATUSES *)
Terminal == {"completed", "failed", "budget_exhausted", "cancelled", "quarantined"}

Status == {"queued", "running", "waiting_for_approval", "paused"} \union Terminal

(* RUN_TRANSITIONS *)
RunTransitions ==
    [s \in Status |->
        CASE s = "queued"  -> {"running", "paused", "cancelled"}
          [] s = "running" -> {"waiting_for_approval", "paused"} \union Terminal
          [] s = "waiting_for_approval" ->
                 {"queued", "running", "paused", "failed", "cancelled", "quarantined"}
          [] s = "paused"  -> {"queued", "running", "failed", "cancelled", "quarantined"}
          [] OTHER         -> {}]

(* Mutated: the transition is not looked up.                               *)
LegalMove_Unchecked(from, to) == TRUE

(* assertWorkerRunTransition with the same-status case of its caller *)
LegalMove(from, to) == from = to \/ to \in RunTransitions[from]

TypeOK == status \in Status /\ revision \in Nat /\ fence \in Nat

(* A run is admitted queued, at revision 1, never executed. *)
Init == status = "queued" /\ revision = 1 /\ fence = 0

(* A supervisor takes the run over: the only step that grows the fence. *)
TakeOver ==
    /\ status \in {"queued", "running"}
    /\ status' = "running"
    /\ fence' = fence + 1
    /\ revision' = revision + 1

(* Checkpoints, released leases and repeated pauses: a new revision only. *)
Touch ==
    /\ status \in {"running", "paused"}
    /\ revision' = revision + 1
    /\ UNCHANGED <<status, fence>>

Move ==
    /\ status' \in RunTransitions[status] \ {"running"}
    /\ revision' = revision + 1
    /\ UNCHANGED fence

Next == TakeOver \/ Touch \/ Move

Spec == Init /\ [][Next]_vars
=================================================================================
