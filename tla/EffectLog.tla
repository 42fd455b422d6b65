------------------------------- MODULE EffectLog -------------------------------
(***************************************************************************)
(* What the receipts of an iteration promise its readers (effects.ts): a   *)
(* log with one entry for each planned action, in which success is entered *)
(* in the order of the plan, an entry is final, and success is never       *)
(* claimed for an effect that did not take place.  EffectReceipts.tla,     *)
(* with its executions, crashes, calls that outlive their execution and    *)
(* recovery, is shown to implement this.                                   *)
(***************************************************************************)
EXTENDS Naturals, Sequences

CONSTANT Class          \* the classification of each planned action, in order

VARIABLES
    performed,  \* how often the effect of each action took place
    outcome,    \* the entry of each action; "none" while it has none
    run         \* "open", "completed" or "stopped"

vars == <<performed, outcome, run>>

Actions == 1 .. Len(Class)

Init ==
    /\ performed = [a \in Actions |-> 0]
    /\ outcome = [a \in Actions |-> "none"]
    /\ run = "open"

InOrder(a) == \A b \in Actions : b < a => outcome[b] = "ok"

(* An effect takes place only after all earlier actions have succeeded; it *)
(* may do so again, and after its run was stopped, if it is one to repeat. *)
Perform(a) ==
    /\ InOrder(a)
    /\ Class[a] = "non_replayable_mutation" => performed[a] = 0
    /\ performed' = [performed EXCEPT ![a] = @ + 1]
    /\ UNCHANGED <<outcome, run>>

Record(a) ==
    /\ run = "open"
    /\ InOrder(a) /\ outcome[a] = "none"
    /\ \E r \in {"ok", "error", "aborted"} :
         /\ r = "ok" => performed[a] > 0
         /\ outcome' = [outcome EXCEPT ![a] = r]
    /\ UNCHANGED <<performed, run>>

Complete ==
    /\ run = "open"
    /\ \A a \in Actions : outcome[a] = "ok"
    /\ run' = "completed"
    /\ UNCHANGED <<performed, outcome>>

Stop ==
    /\ run = "open"
    /\ run' = "stopped"
    /\ UNCHANGED <<performed, outcome>>

Next ==
    \/ \E a \in Actions : Perform(a) \/ Record(a)
    \/ Complete \/ Stop

Spec == Init /\ [][Next]_vars
================================================================================
