----------------------------- MODULE MCEffectReceipts -----------------------------
EXTENDS EffectReceipts, TLC

(* The classes of the planned actions, in the order of the plan.           *)
EachOnce == <<"reconcilable_mutation", "non_replayable_mutation", "idempotent_mutation">>
Once == <<"non_replayable_mutation">>

Symmetry == Permutations(Supervisors) \union Permutations(Plans)
===================================================================================
