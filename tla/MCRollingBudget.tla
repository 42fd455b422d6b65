---------------------------- MODULE MCRollingBudget ----------------------------
(* Two runs of two deployments whose policies name different limits.       *)
EXTENDS RollingBudget

MCDeploymentOf == [r \in {"r1", "r2"} |-> IF r = "r1" THEN "d1" ELSE "d2"]
MCMaxFence == [r \in {"r1", "r2"} |-> IF r = "r1" THEN 2 ELSE 1]
MCMaxCalls == [o \in Owners |-> IF o = <<"r1", 1>> THEN 2 ELSE 1]
MCCosts == [r \in {"r1", "r2"} |-> IF r = "r1" THEN {3} ELSE {1}]
MCPolicy == [k \in {"provider_cost_usd", "billable_action"} |->
    [d \in {"d1", "d2"} |->
        IF k = "billable_action" THEN [workspace |-> IF d = "d1" THEN 1 ELSE 2, deployment |-> 1]
        ELSE [workspace |-> IF d = "d1" THEN 3 ELSE 4, deployment |-> 3]]]
================================================================================
