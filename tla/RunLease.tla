-------------------------------- MODULE RunLease --------------------------------
(***************************************************************************)
(* The execution lease of one run, as the other parts of the runtime rely  *)
(* on it (requireFencedRun of effects.ts, requireLiveFencedRun of rolling- *)
(* budget.ts, save and renew of runtime/repository.ts): who holds it is    *)
(* told by a fence that grows with each acquisition, and an ended run has  *)
(* no lease.  WorkerRun.tla is shown to implement this, and so are the     *)
(* shortened runs of EffectReceipts.tla and RollingBudget.tla, whose lease *)
(* actions are these.                                                      *)
(***************************************************************************)
EXTENDS Naturals

VARIABLES
    fence,      \* runtimeFence: the fence of the newest execution
    live,       \* there is a runtimeLease, and it has not expired
    ended       \* the run is terminal

vars == <<fence, live, ended>>

Init == fence = 0 /\ live = FALSE /\ ended = FALSE

Acquire ==
    /\ ~ended /\ ~live
    /\ fence' = fence + 1 /\ live' = TRUE
    /\ UNCHANGED ended

(* It expires or is released, or the run is paused or waits for approval.  *)
Lose ==
    /\ live
    /\ live' = FALSE
    /\ UNCHANGED <<fence, ended>>

End ==
    /\ ~ended
    /\ ended' = TRUE /\ live' = FALSE
    /\ UNCHANGED fence

Next == Acquire \/ Lose \/ End

Spec == Init /\ [][Next]_vars

(* An execution that lost its lease, to time, an operator or another       *)
(* execution, never holds it again: once refused, it is refused for good.  *)
LostForGood == [][\A f \in 1 .. fence :
    ~(live /\ fence = f) => ~(live' /\ fence' = f)]_vars
================================================================================
