----------------------------- MODULE SupervisorProofs -----------------------------
(***************************************************************************)
(* What holds of the supervisor of a run for every plan and cost, every    *)
(* limit, and any number of interruptions and failing store calls.         *)
(***************************************************************************)
EXTENDS Supervisor, TLAPS

NoMore(u, v) == u.iterations <= v.iterations /\ u.cost <= v.cost /\ u.toolCalls <= v.toolCalls

Running == pc # "idle"

(* The ledger is never behind the checkpoint nor, while an execution runs, *)
(* ahead of it.                                                            *)
Ledger ==
    /\ outcome = "none" =>
           NoMore(checkpoint.usage, ledger) /\ checkpoint.usage.failures <= ledger.failures
    /\ Running => NoMore(ledger, state.usage) /\ \A u \in beat : NoMore(u, state.usage)

Outcome ==
    /\ Running => outcome = "none"
    /\ outcome # "none" => outcome = reason
    /\ pc = "finalizing" => reason # "none"
    /\ ~Running => beat = {}
    /\ stale => pc \in {"idle", "finalizing"}

(* Of a state or a checkpoint: its cursor is within its plan, and what the *)
(* cursor has passed was done.                                             *)
WellFormed(s) ==
    /\ s.iteration <= s.usage.iterations
    /\ s.phase = "plan" /\ s.open => s.plan = NoPlan
    /\ s.phase # "plan" => s.plan # NoPlan
    /\ s.phase = "act" => s.action < Size[s.plan]
    /\ s.phase \in {"evaluate", "checkpoint", "decide"} => s.action = Size[s.plan]
    /\ s.phase \in {"checkpoint", "decide"} =>
           s.evaluation # "none" /\ verdict = <<s.iteration, s.evaluation>>
    /\ s.phase # "plan" => \A i \in 0 .. s.action - 1 : <<s.iteration, i>> \in done

(* The checkpoint is of an earlier iteration, or of this one and of no     *)
(* other plan.                                                             *)
Follows ==
    Running =>
        \/ checkpoint.iteration < state.iteration
        \/ /\ checkpoint.iteration = state.iteration
           /\ checkpoint.plan # NoPlan =>
                  state.plan # NoPlan /\ Redacted[checkpoint.plan] = Redacted[state.plan]

(* Unless a save is under way the checkpoint has the phase of the state.   *)
Saved ==
    /\ pc \notin {"idle", "saving", "finalizing"} =>
        /\ state.phase # "plan" \/ state.open =>
               /\ checkpoint.iteration = state.iteration
               /\ state.plan # NoPlan => checkpoint.plan # NoPlan
               /\ state.plan = NoPlan => checkpoint.plan = NoPlan
        /\ state.phase # "checkpoint" => checkpoint.phase = state.phase
        /\ state.phase = "checkpoint" => checkpoint.phase \in {"checkpoint", "decide"}
        /\ state.phase = "checkpoint" /\ pc = "emitting" => checkpoint.phase = "decide"
    /\ pc = "planning" \/ (pc = "saving" /\ after = "planning") =>
           state.phase = "plan" /\ state.open
    /\ pc = "calling" => state.phase = "evaluate" \/ (state.phase = "plan" /\ state.open)
    /\ pc = "executing" => state.phase = "act"
    /\ pc = "emitting" \/ (pc = "saving" /\ after = "emitting") => state.phase # "plan"
    /\ pc = "saving" => after \in {"planning", "emitting", "decided", "backoff", "top"}
    /\ pc = "saving" /\ after = "decided" => state.phase = "checkpoint"
    /\ pc = "saving" /\ after \in {"top", "backoff", "planning"}
       /\ state.phase = "checkpoint" =>
           after = "backoff"

(* What was acted on in the newest iteration is its plan.                  *)
Acted == \A one \in acted :
    /\ one[1] <= checkpoint.iteration
    /\ one[1] = checkpoint.iteration =>
           checkpoint.plan # NoPlan /\ Redacted[one[2]] = Redacted[checkpoint.plan]

Recorded == pc = "idle" \/ (pc = "finalizing" /\ stale)

Attempts ==
    /\ state.usage.toolCalls <= MaxToolCalls /\ ledger.toolCalls <= MaxToolCalls
    /\ Running => /\ started <= state.usage.toolCalls + cuts
                  /\ state.usage.toolCalls <= ledger.toolCalls + 1
    /\ Recorded => started <= ledger.toolCalls + cuts

(* "lost" stands for the greatest cost times the number of interruptions.  *)
ChargesOf(most, lost) ==
    /\ state.usage.cost <= MaxCost - 1 + most /\ ledger.cost <= MaxCost - 1 + most
    /\ Running => /\ spent <= state.usage.cost + lost
                  /\ state.usage.cost <= ledger.cost + most
    /\ pc \in {"planning", "calling"} => state.usage.cost <= ledger.cost
    /\ pc = "calling" => state.usage.cost < MaxCost
    /\ Recorded => spent <= ledger.cost + lost

Greatest(most) == \A c \in Costs : c <= most

Charges == \A most \in Costs : Greatest(most) => ChargesOf(most, most * cuts)

Completed ==
    outcome = "completed" \/ (pc = "finalizing" /\ reason = "completed") =>
        /\ state.phase = "decide" /\ state.evaluation = "matched"
        /\ checkpoint.phase = "decide" /\ checkpoint.iteration = state.iteration

Inv ==
    /\ TypeOK /\ Ledger /\ Outcome /\ WellFormed(state) /\ WellFormed(checkpoint)
    /\ Follows /\ Saved /\ Acted /\ OnePlanPerIteration /\ Attempts /\ Charges /\ Completed

---------------------------------------------------------------------------
(* The fields of what the reducer returns                                  *)
LEMMA UsageFields ==
  ASSUME NEW u \in Usage
  PROVE  u.iterations \in Nat /\ u.cost \in Nat /\ u.toolCalls \in Nat /\ u.failures \in Nat
BY DEF Usage

LEMMA StateFields ==
  ASSUME NEW s \in State
  PROVE  /\ s.phase \in {"plan", "act", "evaluate", "checkpoint", "decide"}
         /\ s.iteration \in Nat /\ s.action \in Nat /\ s.plan \in Plans \union {NoPlan}
         /\ s.usage \in Usage /\ s.evaluation \in Evaluations /\ s.open \in BOOLEAN
BY DEF State, Phases

LEMMA AdvanceIs ==
  ASSUME NEW a \in Usage, NEW b \in Usage
  PROVE  /\ Advance(a, b) \in Usage
         /\ NoMore(a, Advance(a, b)) /\ a.failures <= Advance(a, b).failures
         /\ NoMore(b, Advance(a, b)) /\ b.failures <= Advance(a, b).failures
         /\ NoMore(a, b) => NoMore(Advance(a, b), b)
         /\ Advance(a, b).iterations \in {a.iterations, b.iterations}
         /\ Advance(a, b).cost \in {a.cost, b.cost}
         /\ Advance(a, b).toolCalls \in {a.toolCalls, b.toolCalls}
<1> DEFINE v == Advance(a, b)
<1>1. /\ v.iterations = Greater(a.iterations, b.iterations) /\ v.cost = Greater(a.cost, b.cost)
      /\ v.toolCalls = Greater(a.toolCalls, b.toolCalls)
      /\ v.failures = Greater(a.failures, b.failures)
  BY DEF Advance
<1>2. \A m, n \in Nat : Greater(m, n) \in Nat /\ Greater(m, n) \in {m, n}
                         /\ m <= Greater(m, n) /\ n <= Greater(m, n)
  BY DEF Greater
<1>3. v \in Usage
  BY <1>2, UsageFields DEF Advance, Usage
<1>4. NoMore(a, v) /\ a.failures <= v.failures
  <2>1. a.iterations <= v.iterations
    BY <1>1, UsageFields DEF Greater
  <2>2. a.cost <= v.cost
    BY <1>1, UsageFields DEF Greater
  <2>3. a.toolCalls <= v.toolCalls
    BY <1>1, UsageFields DEF Greater
  <2>4. a.failures <= v.failures
    BY <1>1, UsageFields DEF Greater
  <2> QED
    BY <2>1, <2>2, <2>3, <2>4 DEF NoMore
<1>5. NoMore(b, v) /\ b.failures <= v.failures
  <2>1. b.iterations <= v.iterations
    BY <1>1, UsageFields DEF Greater
  <2>2. b.cost <= v.cost
    BY <1>1, UsageFields DEF Greater
  <2>3. b.toolCalls <= v.toolCalls
    BY <1>1, UsageFields DEF Greater
  <2>4. b.failures <= v.failures
    BY <1>1, UsageFields DEF Greater
  <2> QED
    BY <2>1, <2>2, <2>3, <2>4 DEF NoMore
<1>6. v.iterations \in {a.iterations, b.iterations} /\ v.cost \in {a.cost, b.cost}
      /\ v.toolCalls \in {a.toolCalls, b.toolCalls}
  BY <1>1, <1>2, UsageFields
<1>7. ASSUME NoMore(a, b) PROVE NoMore(v, b)
  <2>1. v.iterations <= b.iterations
    BY <1>1, <1>7, UsageFields DEF NoMore, Greater
  <2>2. v.cost <= b.cost
    BY <1>1, <1>7, UsageFields DEF NoMore, Greater
  <2>3. v.toolCalls <= b.toolCalls
    BY <1>1, <1>7, UsageFields DEF NoMore, Greater
  <2> QED
    BY <2>1, <2>2, <2>3 DEF NoMore
<1> QED
  BY <1>3, <1>4, <1>5, <1>6, <1>7

LEMMA BegunIs ==
  ASSUME NEW s \in State
  PROVE  /\ Begun(s) \in State
         /\ Begun(s).phase = s.phase
         /\ Begun(s).open = TRUE
         /\ Begun(s).iteration = s.usage.iterations + 1
         /\ Begun(s).action = 0
         /\ Begun(s).plan = NoPlan
         /\ Begun(s).evaluation = "none"
         /\ Begun(s).usage.iterations = s.usage.iterations + 1
         /\ Begun(s).usage.cost = s.usage.cost
         /\ Begun(s).usage.toolCalls = s.usage.toolCalls
         /\ Begun(s).usage.failures = s.usage.failures
<1> DEFINE v == [s.usage EXCEPT !.iterations = s.usage.iterations + 1]
<1>1. s.usage.iterations + 1 \in Nat
  BY UsageFields, StateFields
<1>2. v \in Usage
  BY <1>1, StateFields DEF Usage
<1>3. v.iterations = s.usage.iterations + 1 /\ v.cost = s.usage.cost
      /\ v.toolCalls = s.usage.toolCalls /\ v.failures = s.usage.failures
  BY StateFields DEF Usage
<1>4. Begun(s) = [s EXCEPT !.open = TRUE, !.iteration = s.usage.iterations + 1,
          !.action = 0, !.plan = NoPlan, !.evaluation = "none", !.usage = v]
  BY DEF Begun, State, Usage
<1> DEFINE n == s.usage.iterations + 1
<1>5. n \in Nat
  BY <1>1
<1>6. Begun(s) = [s EXCEPT !.open = TRUE, !.iteration = n, !.action = 0, !.plan = NoPlan,
                           !.evaluation = "none", !.usage = v]
  BY <1>4
<1> HIDE DEF v, n
<1> DEFINE r == [s EXCEPT !.open = TRUE, !.iteration = n, !.action = 0]
<1>9. r \in State
  BY <1>5 DEF State
<1>10. Begun(s) = [r EXCEPT !.plan = NoPlan, !.evaluation = "none", !.usage = v]
  BY <1>6
<1> HIDE DEF r
<1>7. Begun(s) \in State
  BY <1>2, <1>9, <1>10 DEF State, Evaluations
<1>8. /\ Begun(s).phase = s.phase /\ Begun(s).open = TRUE /\ Begun(s).iteration = n
      /\ Begun(s).action = 0 /\ Begun(s).plan = NoPlan /\ Begun(s).evaluation = "none"
      /\ Begun(s).usage = v
  BY <1>6 DEF State
<1> QED
  BY <1>3, <1>7, <1>8 DEF n

LEMMA ChargedIs ==
  ASSUME NEW s \in State, NEW c \in Nat
  PROVE  /\ Charged(s, c) \in State
         /\ Charged(s, c).phase = s.phase
         /\ Charged(s, c).open = s.open
         /\ Charged(s, c).iteration = s.iteration
         /\ Charged(s, c).action = s.action
         /\ Charged(s, c).plan = s.plan
         /\ Charged(s, c).evaluation = s.evaluation
         /\ Charged(s, c).usage.iterations = s.usage.iterations
         /\ Charged(s, c).usage.cost = s.usage.cost + c
         /\ Charged(s, c).usage.toolCalls = s.usage.toolCalls
         /\ Charged(s, c).usage.failures = s.usage.failures
<1> DEFINE v == [s.usage EXCEPT !.cost = s.usage.cost + c]
<1>1. s.usage.cost + c \in Nat
  BY UsageFields, StateFields
<1>2. v \in Usage
  BY <1>1, StateFields DEF Usage
<1>3. v.iterations = s.usage.iterations /\ v.cost = s.usage.cost + c
      /\ v.toolCalls = s.usage.toolCalls /\ v.failures = s.usage.failures
  BY StateFields DEF Usage
<1>4. Charged(s, c) = [s EXCEPT !.usage = v]
  BY DEF Charged, State, Usage
<1> HIDE DEF v
<1> QED
  BY <1>1, <1>2, <1>3, <1>4 DEF State, Phases, Evaluations

LEMMA PlannedIs ==
  ASSUME NEW s \in State, NEW p \in Plans
  PROVE  /\ Planned(s, p) \in State
         /\ Planned(s, p).phase = (IF Size[p] > 0 THEN "act" ELSE "evaluate")
         /\ Planned(s, p).open = s.open
         /\ Planned(s, p).iteration = s.iteration
         /\ Planned(s, p).action = 0
         /\ Planned(s, p).plan = p
         /\ Planned(s, p).evaluation = s.evaluation
         /\ Planned(s, p).usage.iterations = s.usage.iterations
         /\ Planned(s, p).usage.cost = s.usage.cost
         /\ Planned(s, p).usage.toolCalls = s.usage.toolCalls
         /\ Planned(s, p).usage.failures = 0
BY DEF Planned, State, Usage, Phases, Evaluations

LEMMA ReservedIs ==
  ASSUME NEW s \in State
  PROVE  /\ Reserved(s) \in State
         /\ Reserved(s).phase = s.phase
         /\ Reserved(s).open = s.open
         /\ Reserved(s).iteration = s.iteration
         /\ Reserved(s).action = s.action
         /\ Reserved(s).plan = s.plan
         /\ Reserved(s).evaluation = s.evaluation
         /\ Reserved(s).usage.iterations = s.usage.iterations
         /\ Reserved(s).usage.cost = s.usage.cost
         /\ Reserved(s).usage.toolCalls = s.usage.toolCalls + 1
         /\ Reserved(s).usage.failures = s.usage.failures
<1> DEFINE v == [s.usage EXCEPT !.toolCalls = s.usage.toolCalls + 1]
<1>1. s.usage.toolCalls + 1 \in Nat
  BY UsageFields, StateFields
<1>2. v \in Usage
  BY <1>1, StateFields DEF Usage
<1>3. v.iterations = s.usage.iterations /\ v.cost = s.usage.cost
      /\ v.toolCalls = s.usage.toolCalls + 1 /\ v.failures = s.usage.failures
  BY StateFields DEF Usage
<1>4. Reserved(s) = [s EXCEPT !.usage = v]
  BY DEF Reserved, State, Usage
<1> HIDE DEF v
<1> QED
  BY <1>1, <1>2, <1>3, <1>4 DEF State, Phases, Evaluations

LEMMA SucceededIs ==
  ASSUME NEW s \in State
  PROVE  /\ Succeeded(s) \in State
         /\ Succeeded(s).phase = IF MoreTools(s) THEN s.phase ELSE "evaluate"
         /\ Succeeded(s).open = s.open /\ Succeeded(s).iteration = s.iteration
         /\ Succeeded(s).action = s.action + 1 /\ Succeeded(s).plan = s.plan
         /\ Succeeded(s).evaluation = s.evaluation
         /\ Succeeded(s).usage.iterations = s.usage.iterations
         /\ Succeeded(s).usage.cost = s.usage.cost
         /\ Succeeded(s).usage.toolCalls = s.usage.toolCalls
         /\ Succeeded(s).usage.failures = IF MoreTools(s) THEN s.usage.failures ELSE 0
<1> DEFINE n == s.action + 1
<1>1. n \in Nat
  BY StateFields
<1> HIDE DEF n
<1>2. Succeeded(s) = IF MoreTools(s) THEN [s EXCEPT !.action = n]
                     ELSE [s EXCEPT !.action = n, !.phase = "evaluate", !.usage.failures = 0]
  BY DEF Succeeded, n
<1>3. CASE MoreTools(s)
  <2>1. Succeeded(s) = [s EXCEPT !.action = n]
    BY <1>2, <1>3
  <2> QED
    BY <1>1, <1>3, <2>1 DEF State, n
<1>4. CASE ~MoreTools(s)
  <2>1. Succeeded(s) = [s EXCEPT !.action = n, !.phase = "evaluate", !.usage.failures = 0]
    BY <1>2, <1>4
  <2> DEFINE r == [s EXCEPT !.action = n]
  <2>4. r \in State
    BY <1>1 DEF State
  <2> DEFINE u == [r.usage EXCEPT !.failures = 0]
  <2>5. Succeeded(s) = [r EXCEPT !.phase = "evaluate", !.usage = u]
    BY <2>1, <2>4 DEF State
  <2>6. u \in Usage
    BY <2>4, StateFields DEF Usage
  <2> HIDE DEF r, u
  <2>2. Succeeded(s) \in State
    BY <2>4, <2>5, <2>6 DEF State, Phases
  <2>3. Succeeded(s).action = n
    BY <1>1, <2>1 DEF State
  <2> QED
    BY <1>4, <2>1, <2>2, <2>3 DEF State, Usage, n
<1> QED
  BY <1>3, <1>4

LEMMA EvaluatedIs ==
  ASSUME NEW s \in State, NEW e \in Evaluations
  PROVE  /\ Evaluated(s, e) \in State
         /\ Evaluated(s, e).phase = "checkpoint"
         /\ Evaluated(s, e).open = s.open
         /\ Evaluated(s, e).iteration = s.iteration
         /\ Evaluated(s, e).action = s.action
         /\ Evaluated(s, e).plan = s.plan
         /\ Evaluated(s, e).evaluation = e
         /\ Evaluated(s, e).usage.iterations = s.usage.iterations
         /\ Evaluated(s, e).usage.cost = s.usage.cost
         /\ Evaluated(s, e).usage.toolCalls = s.usage.toolCalls
         /\ Evaluated(s, e).usage.failures = 0
BY DEF Evaluated, State, Usage, Phases, Evaluations

LEMMA DecidedIs ==
  ASSUME NEW s \in State
  PROVE  /\ Decided(s) \in State
         /\ Decided(s).phase = "decide"
         /\ Decided(s).open = s.open
         /\ Decided(s).iteration = s.iteration
         /\ Decided(s).action = s.action
         /\ Decided(s).plan = s.plan
         /\ Decided(s).evaluation = s.evaluation
         /\ Decided(s).usage.iterations = s.usage.iterations
         /\ Decided(s).usage.cost = s.usage.cost
         /\ Decided(s).usage.toolCalls = s.usage.toolCalls
         /\ Decided(s).usage.failures = 0
BY DEF Decided, State, Usage, Phases, Evaluations

LEMMA ReopenedIs ==
  ASSUME NEW s \in State
  PROVE  /\ Reopened(s) \in State
         /\ Reopened(s).phase = "plan"
         /\ Reopened(s).open = FALSE
         /\ Reopened(s).iteration = s.iteration
         /\ Reopened(s).action = 0
         /\ Reopened(s).plan = s.plan
         /\ Reopened(s).evaluation = s.evaluation
         /\ Reopened(s).usage.iterations = s.usage.iterations
         /\ Reopened(s).usage.cost = s.usage.cost
         /\ Reopened(s).usage.toolCalls = s.usage.toolCalls
         /\ Reopened(s).usage.failures = s.usage.failures
BY DEF Reopened, State, Usage, Phases, Evaluations

LEMMA FailedIs ==
  ASSUME NEW s \in State
  PROVE  /\ Failed(s) \in State
         /\ Failed(s).phase = s.phase
         /\ Failed(s).open = s.open
         /\ Failed(s).iteration = s.iteration
         /\ Failed(s).action = s.action
         /\ Failed(s).plan = s.plan
         /\ Failed(s).evaluation = s.evaluation
         /\ Failed(s).usage.iterations = s.usage.iterations
         /\ Failed(s).usage.cost = s.usage.cost
         /\ Failed(s).usage.toolCalls = s.usage.toolCalls
         /\ Failed(s).usage.failures = s.usage.failures + 1
<1> DEFINE v == [s.usage EXCEPT !.failures = s.usage.failures + 1]
<1>1. s.usage.failures + 1 \in Nat
  BY UsageFields, StateFields
<1>2. v \in Usage
  BY <1>1, StateFields DEF Usage
<1>3. v.iterations = s.usage.iterations /\ v.cost = s.usage.cost
      /\ v.toolCalls = s.usage.toolCalls /\ v.failures = s.usage.failures + 1
  BY StateFields DEF Usage
<1>4. Failed(s) = [s EXCEPT !.usage = v]
  BY DEF Failed, State, Usage
<1> HIDE DEF v
<1> QED
  BY <1>1, <1>2, <1>3, <1>4 DEF State, Phases, Evaluations

LEMMA FailuresAre ==
  ASSUME NEW s \in State, NEW n \in Nat
  PROVE  /\ [s EXCEPT !.usage.failures = n] \in State
         /\ [s EXCEPT !.usage.failures = n].phase = s.phase
         /\ [s EXCEPT !.usage.failures = n].open = s.open
         /\ [s EXCEPT !.usage.failures = n].iteration = s.iteration
         /\ [s EXCEPT !.usage.failures = n].action = s.action
         /\ [s EXCEPT !.usage.failures = n].plan = s.plan
         /\ [s EXCEPT !.usage.failures = n].evaluation = s.evaluation
         /\ [s EXCEPT !.usage.failures = n].usage.iterations = s.usage.iterations
         /\ [s EXCEPT !.usage.failures = n].usage.cost = s.usage.cost
         /\ [s EXCEPT !.usage.failures = n].usage.toolCalls = s.usage.toolCalls
         /\ [s EXCEPT !.usage.failures = n].usage.failures = n
BY StateFields DEF State, Usage

---------------------------------------------------------------------------
LEMMA Fields ==
  ASSUME TypeOK
  PROVE  /\ state \in State /\ checkpoint \in State /\ ledger \in Usage
         /\ state.usage \in Usage /\ checkpoint.usage \in Usage
         /\ state.iteration \in Nat /\ state.action \in Nat
         /\ state.plan \in Plans \union {NoPlan} /\ checkpoint.plan \in Plans \union {NoPlan}
         /\ checkpoint.iteration \in Nat /\ checkpoint.action \in Nat
         /\ state.usage.iterations \in Nat /\ state.usage.cost \in Nat
         /\ state.usage.toolCalls \in Nat /\ state.usage.failures \in Nat
         /\ checkpoint.usage.iterations \in Nat /\ checkpoint.usage.cost \in Nat
         /\ checkpoint.usage.toolCalls \in Nat /\ checkpoint.usage.failures \in Nat
         /\ ledger.iterations \in Nat /\ ledger.cost \in Nat
         /\ ledger.toolCalls \in Nat /\ ledger.failures \in Nat
<1>1. state \in State /\ checkpoint \in State /\ ledger \in Usage
  BY DEF TypeOK
<1> QED
  BY <1>1, StateFields, UsageFields

(* A renewal brings the ledger up to the usage of the execution.           *)
LEMMA RenewedIs ==
  ASSUME TypeOK, NoMore(ledger, state.usage), Renewed
  PROVE  /\ ledger' \in Usage
         /\ ledger'.iterations = state.usage.iterations
         /\ ledger'.cost = state.usage.cost
         /\ ledger'.toolCalls = state.usage.toolCalls
         /\ ledger.failures <= ledger'.failures /\ state.usage.failures <= ledger'.failures
<1>1. ledger' = Advance(ledger, state.usage)
  BY DEF Renewed
<1>2. ledger' \in Usage /\ NoMore(state.usage, ledger') /\ NoMore(ledger', state.usage)
      /\ ledger.failures <= ledger'.failures /\ state.usage.failures <= ledger'.failures
  BY <1>1, AdvanceIs, Fields
<1> QED
  BY <1>2, UsageFields, Fields DEF NoMore

---------------------------------------------------------------------------
(* What a step keeps by leaving alone what matters                         *)
LEMMA LedgerKept ==
  ASSUME TypeOK, TypeOK', Ledger, Outcome, Running,
         outcome' = outcome, checkpoint' = checkpoint, beat' = beat,
         NoMore(ledger, ledger'), ledger.failures <= ledger'.failures,
         NoMore(ledger', state'.usage), NoMore(state.usage, state'.usage)
  PROVE  Ledger'
<1>1. /\ ledger' \in Usage /\ state'.usage \in Usage /\ beat \subseteq Usage
      /\ ledger \in Usage /\ state.usage \in Usage /\ checkpoint.usage \in Usage
  BY StateFields, Fields DEF TypeOK
<1>2. \A u, v, w \in Usage : NoMore(u, v) /\ NoMore(v, w) => NoMore(u, w)
  BY UsageFields DEF NoMore
<1>3. NoMore(checkpoint.usage, ledger) /\ checkpoint.usage.failures <= ledger.failures
  BY DEF Ledger, Outcome
<1>4. NoMore(checkpoint.usage, ledger')
  BY <1>1, <1>2, <1>3
<1>5. checkpoint.usage.failures <= ledger'.failures
  BY <1>1, <1>3, UsageFields
<1>6. \A u \in beat : NoMore(u, state'.usage)
  BY <1>1, <1>2 DEF Ledger
<1> QED
  BY <1>4, <1>5, <1>6 DEF Ledger

LEMMA AttemptsKept ==
  ASSUME TypeOK, TypeOK', Attempts, Outcome, Running, pc # "finalizing", pc' # "idle",
         stale' = stale, started' = started, cuts' = cuts,
         state'.usage.toolCalls = state.usage.toolCalls,
         ledger'.toolCalls \in {ledger.toolCalls, state.usage.toolCalls}
  PROVE  Attempts'
<1>1. ~Recorded' /\ Running'
  BY DEF Recorded, Running, Outcome
<1>2. MaxToolCalls \in Nat /\ ledger'.toolCalls \in Nat /\ ledger.toolCalls \in Nat
      /\ state.usage.toolCalls \in Nat /\ started \in Nat /\ cuts \in Nat
  BY LimitAssumption, UsageFields, Fields DEF TypeOK
<1>3. ledger'.toolCalls <= MaxToolCalls
  BY DEF Attempts
<1>4. state.usage.toolCalls <= ledger'.toolCalls + 1
  BY <1>2 DEF Attempts
<1> QED
  BY <1>1, <1>3, <1>4 DEF Attempts

LEMMA ChargesFrom ==
  ASSUME Charges, cuts \in Nat, cuts' = cuts,
         \A most \in Costs, lost \in Nat :
             Greatest(most) /\ ChargesOf(most, lost) => ChargesOf(most, lost)'
  PROVE  Charges'
<1> SUFFICES ASSUME NEW most \in Costs, Greatest(most)
             PROVE  ChargesOf(most, most * cuts)'
  BY DEF Charges, Greatest
<1>1. most \in Nat
  BY PlanAssumption
<1>2. PICK lost \in Nat : lost = most * cuts
  BY <1>1
<1>3. ChargesOf(most, lost)'
  BY <1>2 DEF Charges
<1>4. lost = most * cuts'
  BY <1>2
<1> QED
  BY <1>3, <1>4 DEF ChargesOf

LEMMA ChargesKept ==
  ASSUME TypeOK, TypeOK', Charges, Outcome, Running, pc # "finalizing", pc' # "idle",
         stale' = stale, spent' = spent, cuts' = cuts,
         state'.usage.cost = state.usage.cost,
         ledger'.cost \in {ledger.cost, state.usage.cost},
         pc' \in {"planning", "calling"} =>
             state.usage.cost <= ledger'.cost \/ (pc = "planning" /\ ledger' = ledger),
         pc' = "calling" => state.usage.cost < MaxCost
  PROVE  Charges'
<1> SUFFICES ASSUME NEW most \in Costs, NEW lost \in Nat, Greatest(most), ChargesOf(most, lost)
             PROVE  ChargesOf(most, lost)'
  BY ChargesFrom DEF TypeOK
<1>1. ~Recorded' /\ Running'
  BY DEF Recorded, Running, Outcome
<1>2. most \in Nat /\ ledger'.cost \in Nat /\ ledger.cost \in Nat
      /\ state.usage.cost \in Nat /\ spent \in Nat
  BY PlanAssumption, UsageFields, Fields DEF TypeOK
<1>3. ledger'.cost <= MaxCost - 1 + most
  BY DEF ChargesOf
<1>4. state.usage.cost <= ledger'.cost + most
  BY <1>2 DEF ChargesOf
<1>5. pc' \in {"planning", "calling"} => state.usage.cost <= ledger'.cost
  BY DEF ChargesOf
<1> QED
  BY <1>1, <1>3, <1>4, <1>5 DEF ChargesOf

LEMMA ChargesGrow ==
  ASSUME TypeOK, TypeOK', Charges, Outcome, NEW c \in Costs, pc = "calling",
         pc' \notin {"idle", "planning", "calling"},
         stale' = stale, spent' = spent + c, cuts' = cuts,
         state'.usage.cost = state.usage.cost + c, ledger' = ledger
  PROVE  Charges'
<1> SUFFICES ASSUME NEW most \in Costs, NEW lost \in Nat, Greatest(most), ChargesOf(most, lost)
             PROVE  ChargesOf(most, lost)'
  BY ChargesFrom DEF TypeOK
<1>1. ~Recorded' /\ Running /\ Running'
  BY DEF Recorded, Running, Outcome
<1>2. most \in Nat /\ c \in Nat /\ c <= most /\ ledger.cost \in Nat
      /\ state.usage.cost \in Nat /\ spent \in Nat /\ MaxCost \in Nat
  BY PlanAssumption, LimitAssumption, UsageFields, Fields DEF TypeOK, Greatest
<1>3. state.usage.cost < MaxCost /\ state.usage.cost <= ledger.cost
  BY DEF ChargesOf
<1>4. state.usage.cost + c <= MaxCost - 1 + most
  BY <1>2, <1>3
<1>5. state.usage.cost + c <= ledger.cost + most
  BY <1>2, <1>3
<1>6. spent + c <= state.usage.cost + c + lost
  BY <1>1, <1>2 DEF ChargesOf
<1> QED
  BY <1>1, <1>4, <1>5, <1>6 DEF ChargesOf

LEMMA LedgerMoves ==
  ASSUME TypeOK, Ledger, Running, Renewed \/ ledger' = ledger
  PROVE  /\ ledger' \in Usage /\ NoMore(ledger, ledger') /\ NoMore(ledger', state.usage)
         /\ ledger.failures <= ledger'.failures
         /\ ledger'.cost \in {ledger.cost, state.usage.cost}
         /\ ledger'.toolCalls \in {ledger.toolCalls, state.usage.toolCalls}
<1>1. NoMore(ledger, state.usage)
  BY DEF Ledger
<1>2. CASE Renewed
  BY <1>1, <1>2, AdvanceIs, Fields DEF Renewed
<1>3. CASE ledger' = ledger
  BY <1>1, <1>3, Fields DEF NoMore
<1> QED
  BY <1>2, <1>3

LEMMA ChargedNow ==
  ASSUME TypeOK, NEW c \in Costs
  PROVE  /\ c \in Nat /\ Charged(state, c) \in State
         /\ Charged(state, c).phase = state.phase
         /\ Charged(state, c).open = state.open
         /\ Charged(state, c).iteration = state.iteration
         /\ Charged(state, c).action = state.action
         /\ Charged(state, c).plan = state.plan
         /\ Charged(state, c).evaluation = state.evaluation
         /\ Charged(state, c).usage.iterations = state.usage.iterations
         /\ Charged(state, c).usage.cost = state.usage.cost + c
         /\ Charged(state, c).usage.toolCalls = state.usage.toolCalls
         /\ Charged(state, c).usage.failures = state.usage.failures
<1>1. c \in Nat /\ state \in State
  BY PlanAssumption, Fields
<1> QED
  BY <1>1, ChargedIs

---------------------------------------------------------------------------
(* A save, in whichever step it lands                                      *)
LEMMA PersistIs ==
  ASSUME TypeOK, Persist
  PROVE  /\ checkpoint' \in State /\ ledger' = state.usage /\ ledger' \in Usage
         /\ checkpoint'.phase = (IF state.phase = "checkpoint"
            /\ after # "backoff" THEN "decide"
                                 ELSE state.phase)
         /\ checkpoint'.plan = (IF state.plan = NoPlan THEN NoPlan ELSE Redacted[state.plan])
         /\ checkpoint'.open = state.open /\ checkpoint'.iteration = state.iteration
         /\ checkpoint'.action = state.action /\ checkpoint'.evaluation = state.evaluation
         /\ checkpoint'.usage = state.usage
<1> DEFINE h == IF state.phase = "checkpoint"
    /\ after # "backoff" THEN "decide" ELSE state.phase
           l == IF state.plan = NoPlan THEN NoPlan ELSE Redacted[state.plan]
<1>1. state \in State /\ state.usage \in Usage /\ state.plan \in Plans \union {NoPlan}
  BY Fields
<1>2. h \in Phases
  BY <1>1 DEF State, Phases
<1>3. l \in Plans \union {NoPlan}
  BY <1>1, PlanAssumption
<1>4. checkpoint' = [state EXCEPT !.phase = h, !.plan = l] /\ ledger' = state.usage
  BY DEF Persist, Snapshot
<1> HIDE DEF h, l
<1>5. checkpoint' \in State
  BY <1>1, <1>2, <1>3, <1>4 DEF State
<1>6. /\ checkpoint'.phase = h /\ checkpoint'.plan = l /\ checkpoint'.open = state.open
      /\ checkpoint'.iteration = state.iteration /\ checkpoint'.action = state.action
      /\ checkpoint'.evaluation = state.evaluation /\ checkpoint'.usage = state.usage
  BY <1>1, <1>4 DEF State
<1> QED
  BY <1>1, <1>4, <1>5, <1>6 DEF h, l

LEMMA LandedIs ==
  ASSUME Inv, pc = "saving", Persist, done' = done, verdict' = verdict, acted' = acted
  PROVE  WellFormed(checkpoint)' /\ Acted'
<1>1. TypeOK /\ WellFormed(state) /\ Follows /\ Acted
  BY DEF Inv
<1>2. state.plan # NoPlan =>
          /\ state.plan \in Plans /\ Redacted[state.plan] # NoPlan
          /\ Redacted[Redacted[state.plan]] = Redacted[state.plan]
          /\ Size[Redacted[state.plan]] = Size[state.plan]
  <2>1. state.plan \in Plans \union {NoPlan}
    BY <1>1, Fields
  <2>2. \A p \in Plans : /\ Redacted[p] # NoPlan /\ Redacted[Redacted[p]] = Redacted[p]
                         /\ Size[Redacted[p]] = Size[p]
    BY PlanAssumption DEF NoPlan
  <2> QED
    BY <2>1, <2>2
<1>3. WellFormed(checkpoint)'
  BY <1>1, <1>2, PersistIs, Fields DEF WellFormed
<1>4. ASSUME NEW one \in acted'
      PROVE  /\ one[1] <= checkpoint'.iteration
             /\ one[1] = checkpoint'.iteration =>
                    checkpoint'.plan # NoPlan /\ Redacted[one[2]] = Redacted[checkpoint'.plan]
  <2>1. one \in acted /\ one[1] \in Nat
    BY <1>1, <1>4 DEF TypeOK
  <2>2. /\ one[1] <= checkpoint.iteration
        /\ one[1] = checkpoint.iteration =>
               checkpoint.plan # NoPlan /\ Redacted[one[2]] = Redacted[checkpoint.plan]
    BY <1>1, <2>1 DEF Acted
  <2>3. checkpoint'.iteration = state.iteration
    BY <1>1, PersistIs
  <2>4. CASE checkpoint.iteration < state.iteration
    BY <1>1, <2>1, <2>2, <2>3, <2>4, Fields
  <2>5. CASE /\ checkpoint.iteration = state.iteration
             /\ checkpoint.plan # NoPlan =>
                    state.plan # NoPlan /\ Redacted[checkpoint.plan] = Redacted[state.plan]
    <3>1. checkpoint'.plan = IF state.plan = NoPlan THEN NoPlan ELSE Redacted[state.plan]
      BY <1>1, PersistIs
    <3> QED
      BY <1>2, <2>2, <2>3, <2>5, <3>1
  <2> QED
    BY <1>1, <2>4, <2>5 DEF Follows, Running
<1> QED
  BY <1>3, <1>4 DEF Acted

(* An interruption counts for an attempt and a charge nobody has recorded. *)
LEMMA CutIs ==
  ASSUME Inv, Running, TypeOK', cuts' = cuts + 1, pc' \in {"idle", "finalizing"},
         state' = state, spent' = spent, started' = started,
         ledger' = ledger \/ ledger' = state.usage,
         stale' /\ pc' = "finalizing" => ledger' = state.usage
  PROVE  Attempts' /\ Charges'
<1>1. TypeOK /\ Attempts /\ Charges
  BY DEF Inv
<1>2. Attempts'
  <2>1. started \in Nat /\ cuts \in Nat /\ MaxToolCalls \in Nat
    BY <1>1, LimitAssumption DEF TypeOK
  <2>2. started <= state.usage.toolCalls + cuts /\ state.usage.toolCalls <= ledger.toolCalls + 1
        /\ state.usage.toolCalls <= MaxToolCalls /\ ledger.toolCalls <= MaxToolCalls
    BY <1>1 DEF Attempts
  <2>3. state'.usage.toolCalls <= MaxToolCalls /\ ledger'.toolCalls <= MaxToolCalls
    BY <2>2
  <2>4. started' <= state'.usage.toolCalls + cuts'
        /\ state'.usage.toolCalls <= ledger'.toolCalls + 1
    BY <1>1, <2>1, <2>2, Fields
  <2>5. ledger' = state.usage => started' <= ledger'.toolCalls + cuts'
    BY <1>1, <2>1, <2>2, Fields
  <2>6. ledger' = ledger => started' <= ledger'.toolCalls + cuts'
    BY <1>1, <2>1, <2>2, Fields
  <2> QED
    BY <2>3, <2>4, <2>5, <2>6 DEF Attempts
<1>3. Charges'
  <2> SUFFICES ASSUME NEW most \in Costs, Greatest(most)
               PROVE  ChargesOf(most, most * cuts)'
    BY DEF Charges, Greatest
  <2>1. most \in Nat /\ cuts \in Nat
    BY <1>1, PlanAssumption DEF TypeOK
  <2>2. PICK lost \in Nat : lost = most * cuts
    BY <2>1
  <2>3. most * cuts' = lost + most
    BY <2>1, <2>2
  <2>4. ChargesOf(most, lost)
    BY <1>1, <2>2 DEF Charges
  <2>5. ChargesOf(most, lost + most)'
    <3>1. spent \in Nat /\ MaxCost \in Nat
      BY <1>1, LimitAssumption DEF TypeOK
    <3>2. spent <= state.usage.cost + lost /\ state.usage.cost <= ledger.cost + most
          /\ state.usage.cost <= MaxCost - 1 + most /\ ledger.cost <= MaxCost - 1 + most
      BY <2>4 DEF ChargesOf
    <3>3. state'.usage.cost <= MaxCost - 1 + most /\ ledger'.cost <= MaxCost - 1 + most
      BY <3>2
    <3>4. spent' <= state'.usage.cost + (lost + most)
      BY <1>1, <2>1, <3>1, <3>2, Fields
    <3>5. state'.usage.cost <= ledger'.cost + most
      BY <1>1, <2>1, <3>2, Fields
    <3>6. ledger' = state.usage => spent' <= ledger'.cost + (lost + most)
      BY <1>1, <2>1, <3>1, <3>2, Fields
    <3>7. ledger' = ledger => spent' <= ledger'.cost + (lost + most)
      BY <1>1, <2>1, <3>1, <3>2, Fields
    <3> QED
      BY <3>3, <3>4, <3>5, <3>6, <3>7 DEF ChargesOf
  <2> QED
    BY <2>3, <2>5 DEF ChargesOf
<1> QED
  BY <1>2, <1>3

(* A heartbeat that lands only raises the ledger.                          *)
LEMMA RaisedIs ==
  ASSUME Inv, Running, TypeOK', pc' = pc, stale' = stale, state' = state, spent' = spent,
         started' = started, cuts' = cuts, NoMore(ledger, ledger'), NoMore(ledger', state.usage)
  PROVE  Attempts' /\ Charges'
<1>1. TypeOK /\ Attempts /\ Charges
  BY DEF Inv
<1>2. ledger' \in Usage /\ ledger'.toolCalls \in Nat /\ ledger'.cost \in Nat
      /\ ledger.toolCalls <= ledger'.toolCalls /\ ledger'.toolCalls <= state.usage.toolCalls
      /\ ledger.cost <= ledger'.cost /\ ledger'.cost <= state.usage.cost
  BY UsageFields DEF TypeOK, NoMore
<1>3. started \in Nat /\ cuts \in Nat /\ spent \in Nat /\ MaxToolCalls \in Nat
      /\ MaxCost \in Nat
  BY <1>1, LimitAssumption DEF TypeOK
<1>4. Attempts'
  <2>1. ledger'.toolCalls <= MaxToolCalls
    BY <1>1, <1>2, <1>3, Fields DEF Attempts
  <2>2. state'.usage.toolCalls <= ledger'.toolCalls + 1
    BY <1>1, <1>2, <1>3, Fields DEF Attempts
  <2>3. Recorded' => started' <= ledger'.toolCalls + cuts'
    <3>1. Recorded' => started <= ledger.toolCalls + cuts
      BY <1>1 DEF Attempts, Recorded
    <3> QED
      BY <1>1, <1>2, <1>3, <3>1, Fields
  <2> QED
    BY <1>1, <2>1, <2>2, <2>3 DEF Attempts, Running
<1>5. Charges'
  <2> SUFFICES ASSUME NEW most \in Costs, NEW lost \in Nat, Greatest(most), ChargesOf(most,
                      lost)
               PROVE  ChargesOf(most, lost)'
    BY <1>1, <1>3, ChargesFrom
  <2>1. most \in Nat
    BY PlanAssumption
  <2>2. ledger'.cost <= MaxCost - 1 + most
    <3>1. state.usage.cost <= MaxCost - 1 + most
      BY DEF ChargesOf
    <3> QED
      BY <1>1, <1>2, <1>3, <2>1, <3>1, Fields
  <2>3. state'.usage.cost <= ledger'.cost + most
    <3>1. state.usage.cost <= ledger.cost + most
      BY DEF ChargesOf
    <3> QED
      BY <1>1, <1>2, <2>1, <3>1, Fields
  <2>4. pc \in {"planning", "calling"} => state'.usage.cost <= ledger'.cost
    <3>1. pc \in {"planning", "calling"} => state.usage.cost <= ledger.cost
      BY DEF ChargesOf
    <3> QED
      BY <1>1, <1>2, <3>1, Fields
  <2>5. Recorded' => spent' <= ledger'.cost + lost
    <3>1. Recorded' => spent <= ledger.cost + lost
      BY DEF ChargesOf, Recorded
    <3> QED
      BY <1>1, <1>2, <1>3, <3>1, Fields
  <2> QED
    BY <2>2, <2>3, <2>4, <2>5 DEF ChargesOf, Running
<1> QED
  BY <1>4, <1>5

---------------------------------------------------------------------------
(* What recovery and the repository compute from two usages                *)
LEMMA RemainingIs ==
  ASSUME NEW u \in Usage, NEW v \in Usage, NoMore(u, v)
  PROVE  \A k \in {"iterations", "cost", "toolCalls"} : Remaining(v)[k] <= Remaining(u)[k]
<1>1. DOMAIN Limits = {"iterations", "cost", "toolCalls", "failures"}
  BY DEF Limits
<1>2. \A w \in Usage : /\ Remaining(w)["iterations"] = Greater(0, MaxIterations - w.iterations)
                        /\ Remaining(w)["cost"] = Greater(0, MaxCost - w.cost)
                        /\ Remaining(w)["toolCalls"] = Greater(0, MaxToolCalls - w.toolCalls)
  BY <1>1 DEF Remaining, Limits
<1>3. \A m, i, j \in Nat : i <= j => Greater(0, m - j) <= Greater(0, m - i)
  BY DEF Greater
<1>4. MaxIterations \in Nat /\ MaxCost \in Nat /\ MaxToolCalls \in Nat
  BY LimitAssumption
<1>5. /\ u.iterations \in Nat /\ v.iterations \in Nat /\ u.iterations <= v.iterations
      /\ u.cost \in Nat /\ v.cost \in Nat /\ u.cost <= v.cost
      /\ u.toolCalls \in Nat /\ v.toolCalls \in Nat /\ u.toolCalls <= v.toolCalls
  BY UsageFields DEF NoMore
<1>6. Remaining(v)["iterations"] <= Remaining(u)["iterations"]
  BY <1>2, <1>3, <1>4, <1>5
<1>7. Remaining(v)["cost"] <= Remaining(u)["cost"]
  BY <1>2, <1>3, <1>4, <1>5
<1>8. Remaining(v)["toolCalls"] <= Remaining(u)["toolCalls"]
  BY <1>2, <1>3, <1>4, <1>5
<1> QED
  BY <1>6, <1>7, <1>8

LEMMA FailuresRemain ==
  ASSUME NEW u \in Usage, NEW v \in Usage, u.failures <= v.failures
  PROVE  Remaining(v)["failures"] <= Remaining(u)["failures"]
<1>1. \A w \in Usage : Remaining(w)["failures"] = Greater(0, MaxFailures - w.failures)
  BY DEF Remaining, Limits
<1>2. u.failures \in Nat /\ v.failures \in Nat /\ MaxFailures \in Nat
  BY UsageFields, LimitAssumption
<1> QED
  BY <1>1, <1>2 DEF Greater

LEMMA LimitNames ==
  DOMAIN Limits = {"iterations", "cost", "toolCalls", "failures"}
BY DEF Limits

LEMMA InvRestorable ==
  ASSUME Inv, outcome = "none"
  PROVE  Restorable
<1>1. TypeOK /\ Ledger /\ WellFormed(checkpoint)
  BY DEF Inv
<1>2. \A k \in DOMAIN Limits : Remaining(ledger)[k] <= Remaining(checkpoint.usage)[k]
  <2>1. NoMore(checkpoint.usage, ledger) /\ checkpoint.usage.failures <= ledger.failures
    BY <1>1 DEF Ledger
  <2> QED
    BY <1>1, <2>1, RemainingIs, FailuresRemain, LimitNames, Fields
<1>3. checkpoint.plan # NoPlan => Size[checkpoint.plan] \in Nat
  BY <1>1, Fields, PlanAssumption
<1> QED
  BY <1>1, <1>2, <1>3, Fields DEF Restorable, WellFormed

LEMMA InvSaveAccepted ==
  ASSUME Inv, Running
  PROVE  SaveAccepted(state.usage)
<1>1. TypeOK /\ Ledger /\ Outcome
  BY DEF Inv
<1>2. NoMore(checkpoint.usage, ledger) /\ NoMore(ledger, state.usage)
  BY <1>1 DEF Ledger, Outcome
<1>3. NoMore(checkpoint.usage, state.usage)
  BY <1>1, <1>2, Fields DEF NoMore
<1> QED
  BY <1>1, <1>3, RemainingIs, LimitNames, Fields DEF SaveAccepted

---------------------------------------------------------------------------
(* One lemma for each action                                               *)
LEMMA AcquireInv ==
  ASSUME Inv, Acquire
  PROVE  Inv'
<1>1. TypeOK /\ Ledger /\ Outcome /\ WellFormed(state) /\ WellFormed(checkpoint)
      /\ Follows /\ Saved /\ Acted /\ OnePlanPerIteration /\ Attempts /\ Charges /\ Completed
  BY DEF Inv
<1>2. /\ ~Running /\ Running' /\ pc' = "top" /\ outcome' = "none" /\ outcome = "none"
      /\ state' = Restored /\ reason' = "none" /\ stale' = FALSE
      /\ ledger' = ledger /\ checkpoint' = checkpoint /\ after' = after /\ guarded' = guarded
      /\ beat' = beat /\ spent' = spent /\ started' = started /\ acted' = acted
         /\ done' = done /\ verdict' = verdict
      /\ cuts' = cuts /\ faults' = faults
  BY InvRestorable DEF Acquire, Running, historyVars, boundVars
<1>3. /\ state' \in State /\ state'.usage = ledger /\ state'.phase = checkpoint.phase
      /\ state'.open = checkpoint.open /\ state'.iteration = checkpoint.iteration
      /\ state'.action = checkpoint.action /\ state'.plan = checkpoint.plan
      /\ state'.evaluation = checkpoint.evaluation
  BY <1>1, <1>2, Fields DEF Restored, State
<1>4. NoMore(checkpoint.usage, ledger) /\ beat = {}
  BY <1>1, <1>2 DEF Ledger, Outcome
<1>5. TypeOK'
  BY <1>1, <1>2, <1>3 DEF TypeOK, PC, Outcomes
<1>6. Ledger'
  BY <1>1, <1>2, <1>3, <1>4, Fields DEF Ledger, NoMore
<1>7. Outcome'
  BY <1>2 DEF Outcome
<1>8. WellFormed(checkpoint)'
  BY <1>1, <1>2 DEF WellFormed
<1>9. WellFormed(state)'
  <2>1. checkpoint.iteration <= ledger.iterations
    BY <1>1, <1>4, Fields DEF WellFormed, NoMore
  <2> QED
    BY <1>1, <1>2, <1>3, <2>1 DEF WellFormed
<1>10. Follows' /\ Acted' /\ OnePlanPerIteration'
  BY <1>1, <1>2, <1>3 DEF Follows, Acted, OnePlanPerIteration
<1>11. Saved'
  BY <1>1, <1>2, <1>3 DEF Saved
<1>12. Attempts'
  <2>1. started <= ledger.toolCalls + cuts /\ ledger.toolCalls <= MaxToolCalls
    BY <1>1, <1>2 DEF Attempts, Recorded, Running
  <2>2. ~Recorded'
    BY <1>2 DEF Recorded
  <2>3. ledger.toolCalls <= ledger.toolCalls + 1
    BY <1>1, Fields
  <2> QED
    BY <1>2, <1>3, <2>1, <2>2, <2>3 DEF Attempts
<1>13. Charges'
  <2> SUFFICES ASSUME NEW most \in Costs, NEW lost \in Nat, Greatest(most), ChargesOf(most,
                      lost)
               PROVE  ChargesOf(most, lost)'
    BY <1>1, <1>2, ChargesFrom DEF TypeOK
  <2>1. spent <= ledger.cost + lost /\ ledger.cost <= MaxCost - 1 + most
    BY <1>2 DEF ChargesOf, Recorded, Running
  <2>2. ~Recorded'
    BY <1>2 DEF Recorded
  <2>4. most \in Nat /\ ledger.cost \in Nat
    BY <1>1, Fields, PlanAssumption
  <2>3. ledger.cost <= ledger.cost + most /\ ledger.cost <= ledger.cost
    BY <2>4
  <2> QED
    BY <1>2, <1>3, <2>1, <2>2, <2>3 DEF ChargesOf
<1>14. Completed'
  BY <1>2 DEF Completed
<1> QED
  BY <1>5, <1>6, <1>7, <1>8, <1>9, <1>10, <1>11, <1>12, <1>13, <1>14 DEF Inv

LEMMA BeginIterationInv ==
  ASSUME Inv, BeginIteration
  PROVE  Inv'
<1>1. TypeOK /\ Ledger /\ Outcome /\ WellFormed(state) /\ WellFormed(checkpoint)
      /\ Follows /\ Saved /\ Acted /\ OnePlanPerIteration /\ Attempts /\ Charges /\ Completed
  BY DEF Inv
<1>2. /\ Running /\ pc # "finalizing" /\ pc = "top" /\ state.phase = "plan" /\ ~state.open
      /\ outcome' = outcome /\ checkpoint' = checkpoint /\ beat' = beat /\ cuts' = cuts
         /\ faults' = faults
  BY DEF BeginIteration, StepOnly, boundVars, Running
<1>3. /\ ledger' \in Usage /\ NoMore(ledger, ledger') /\ NoMore(ledger', state.usage)
      /\ ledger.failures <= ledger'.failures
      /\ ledger'.cost \in {ledger.cost, state.usage.cost}
      /\ ledger'.toolCalls \in {ledger.toolCalls, state.usage.toolCalls}
  BY <1>1, <1>2, LedgerMoves DEF BeginIteration
<1>4. CASE state.usage.iterations >= MaxIterations
  <2>1. /\ pc' = "finalizing" /\ reason' = "iteration_limit" /\ after' = after
           /\ guarded' = guarded /\ stale' = stale
        /\ state' = state
        /\ spent' = spent /\ started' = started /\ acted' = acted /\ done' = done
           /\ verdict' = verdict
    BY <1>1, <1>2, <1>3, <1>4 DEF BeginIteration, Goto, Select, SaveThen, FailWithin,
       historyVars
  <2>2. NoMore(state.usage, state'.usage)
    BY <1>1, <2>1, Fields DEF NoMore
  <2>3. NoMore(ledger', state'.usage)
    BY <1>1, <1>3, <2>1, <2>2, Fields, UsageFields DEF NoMore
  <2>4. TypeOK'
    BY <1>1, <1>2, <1>3, <1>4, <2>1, Fields DEF TypeOK, PC, Labels, Outcomes
  <2>5. Ledger'
    BY <1>1, <1>2, <1>3, <1>4, <2>1, <2>2, <2>3, <2>4, LedgerKept
  <2>6. WellFormed(state)'
    BY <1>1, <1>2, <1>3, <1>4, <2>1, Fields DEF WellFormed
  <2>7. Outcome' /\ Follows' /\ Saved'
    BY <1>1, <1>2, <1>3, <1>4, <2>1, Fields DEF Outcome, Running, Follows, Saved
  <2>8. Attempts'
    BY <1>1, <1>2, <1>3, <1>4, <2>1, <2>4, AttemptsKept
  <2>9. Charges'
    BY <1>1, <1>2, <1>3, <1>4, <2>1, <2>4, ChargesKept
  <2>10. WellFormed(checkpoint)' /\ Acted' /\ OnePlanPerIteration' /\ Completed'
    BY <1>1, <1>2, <1>3, <1>4, <2>1, Fields DEF WellFormed, Acted, OnePlanPerIteration,
       Completed
  <2> QED
    BY <2>4, <2>5, <2>6, <2>7, <2>8, <2>9, <2>10 DEF Inv
<1>5. CASE ~(state.usage.iterations >= MaxIterations)
  <2>1. /\ pc' = "saving" /\ after' = "planning" /\ reason' = reason
           /\ guarded' = guarded /\ stale' = stale
        /\ state' = Begun(state)
        /\ spent' = spent /\ started' = started /\ acted' = acted /\ done' = done
           /\ verdict' = verdict
    BY <1>1, <1>2, <1>3, <1>5 DEF BeginIteration, Goto, Select, SaveThen, FailWithin,
       historyVars
  <2>2. /\ state' \in State
        /\ state'.phase = state.phase /\ state'.open = TRUE
           /\ state'.iteration = state.usage.iterations + 1
        /\ state'.action = 0 /\ state'.plan = NoPlan /\ state'.evaluation = "none"
        /\ state'.usage.iterations = state.usage.iterations + 1
           /\ state'.usage.cost = state.usage.cost
        /\ state'.usage.toolCalls = state.usage.toolCalls
           /\ state'.usage.failures = state.usage.failures
    BY <1>1, <2>1, Fields, BegunIs
  <2>3. NoMore(state.usage, state'.usage)
    BY <1>1, <2>1, <2>2, Fields DEF NoMore
  <2>4. NoMore(ledger', state'.usage)
    BY <1>1, <1>3, <2>1, <2>2, <2>3, Fields, UsageFields DEF NoMore
  <2>5. TypeOK'
    BY <1>1, <1>2, <1>3, <1>5, <2>2, <2>1, Fields DEF TypeOK, PC, Labels, Outcomes
  <2>6. Ledger'
    BY <1>1, <1>2, <1>3, <1>5, <2>2, <2>1, <2>3, <2>4, <2>5, LedgerKept
  <2>7. WellFormed(state)'
    BY <1>1, <1>2, <1>3, <1>5, <2>2, <2>1, Fields DEF WellFormed
  <2>8. Follows'
    <3>1. checkpoint.iteration <= state.iteration /\ state.iteration <= state.usage.iterations
      BY <1>1, <1>2, Fields DEF Follows, WellFormed
    <3>2. checkpoint'.iteration < state'.iteration
      BY <1>1, <1>2, <1>3, <1>5, <2>2, <3>1, Fields
    <3> QED
      BY <3>2 DEF Follows
  <2>9. Outcome' /\ Saved'
    BY <1>1, <1>2, <1>3, <1>5, <2>2, <2>1, Fields DEF Outcome, Running, Saved
  <2>10. Attempts'
    BY <1>1, <1>2, <1>3, <1>5, <2>2, <2>1, <2>5, AttemptsKept
  <2>11. Charges'
    BY <1>1, <1>2, <1>3, <1>5, <2>2, <2>1, <2>5, ChargesKept
  <2>12. WellFormed(checkpoint)' /\ Acted' /\ OnePlanPerIteration' /\ Completed'
    BY <1>1, <1>2, <1>3, <1>5, <2>2, <2>1, Fields DEF WellFormed, Acted,
       OnePlanPerIteration, Completed
  <2> QED
    BY <2>5, <2>6, <2>7, <2>8, <2>9, <2>10, <2>11, <2>12 DEF Inv
<1> QED
  BY <1>4, <1>5

LEMMA CallProviderInv ==
  ASSUME Inv, CallProvider
  PROVE  Inv'
<1>1. TypeOK /\ Ledger /\ Outcome /\ WellFormed(state) /\ WellFormed(checkpoint)
      /\ Follows /\ Saved /\ Acted /\ OnePlanPerIteration /\ Attempts /\ Charges /\ Completed
  BY DEF Inv
<1>2. /\ Running /\ pc # "finalizing" /\ pc \in {"planning", "top"}
      /\ outcome' = outcome /\ checkpoint' = checkpoint /\ beat' = beat /\ cuts' = cuts
         /\ faults' = faults
  BY DEF CallProvider, StepOnly, boundVars, Running
<1>3. /\ ledger' \in Usage /\ NoMore(ledger, ledger') /\ NoMore(ledger', state.usage)
      /\ ledger.failures <= ledger'.failures
      /\ ledger'.cost \in {ledger.cost, state.usage.cost}
      /\ ledger'.toolCalls \in {ledger.toolCalls, state.usage.toolCalls}
  BY <1>1, <1>2, LedgerMoves DEF CallProvider
<1>4. \/ pc = "planning" /\ ledger' = ledger
      \/ pc = "top" /\ state.phase = "plan" /\ state.open /\ Renewed
      \/ pc = "top" /\ state.phase = "evaluate" /\ Renewed
  BY DEF CallProvider
<1>5. state.usage.cost <= ledger'.cost \/ (pc = "planning" /\ ledger' = ledger)
  BY <1>1, <1>2, <1>4, RenewedIs, Fields DEF Ledger
<1>6. CASE pc' = "calling"
  <2>1. /\ pc' = "calling" /\ after' = after /\ reason' = reason /\ guarded' = guarded
           /\ stale' = stale
        /\ state.usage.cost < MaxCost
        /\ state' = state
        /\ spent' = spent /\ started' = started /\ acted' = acted /\ done' = done
           /\ verdict' = verdict
    BY <1>1, <1>2, <1>3, <1>4, <1>5, <1>6, LimitAssumption, Fields DEF CallProvider, Goto,
       Select, SaveThen, FailWithin, historyVars
  <2>2. NoMore(state.usage, state'.usage)
    BY <1>1, <2>1, Fields DEF NoMore
  <2>3. NoMore(ledger', state'.usage)
    BY <1>1, <1>3, <2>1, <2>2, Fields, UsageFields DEF NoMore
  <2>4. TypeOK'
    BY <1>1, <1>2, <1>3, <1>4, <1>5, <1>6, <2>1, Fields DEF TypeOK, PC, Labels, Outcomes
  <2>5. Ledger'
    BY <1>1, <1>2, <1>3, <1>4, <1>5, <1>6, <2>1, <2>2, <2>3, <2>4, LedgerKept
  <2>6. WellFormed(state)'
    BY <1>1, <1>2, <1>3, <1>4, <1>5, <1>6, <2>1, Fields DEF WellFormed
  <2>7. Outcome' /\ Follows' /\ Saved'
    BY <1>1, <1>2, <1>3, <1>4, <1>5, <1>6, <2>1, Fields DEF Outcome, Running, Follows, Saved
  <2>8. Attempts'
    BY <1>1, <1>2, <1>3, <1>4, <1>5, <1>6, <2>1, <2>4, AttemptsKept
  <2>9. Charges'
    BY <1>1, <1>2, <1>3, <1>4, <1>5, <1>6, <2>1, <2>4, ChargesKept
  <2>10. WellFormed(checkpoint)' /\ Acted' /\ OnePlanPerIteration' /\ Completed'
    BY <1>1, <1>2, <1>3, <1>4, <1>5, <1>6, <2>1, Fields DEF WellFormed, Acted,
       OnePlanPerIteration, Completed
  <2> QED
    BY <2>4, <2>5, <2>6, <2>7, <2>8, <2>9, <2>10 DEF Inv
<1>7. CASE pc' = "finalizing"
  <2>1. /\ pc' = "finalizing" /\ reason' \in {"provider_cost", "rolling_budget"}
           /\ after' = after
           /\ guarded' = guarded /\ stale' = stale
        /\ state' = state
        /\ spent' = spent /\ started' = started /\ acted' = acted /\ done' = done
           /\ verdict' = verdict
    BY <1>1, <1>2, <1>3, <1>4, <1>5, <1>7 DEF CallProvider, Goto, Select, SaveThen,
       FailWithin, historyVars
  <2>2. NoMore(state.usage, state'.usage)
    BY <1>1, <2>1, Fields DEF NoMore
  <2>3. NoMore(ledger', state'.usage)
    BY <1>1, <1>3, <2>1, <2>2, Fields, UsageFields DEF NoMore
  <2>4. TypeOK'
    BY <1>1, <1>2, <1>3, <1>4, <1>5, <1>7, <2>1, Fields DEF TypeOK, PC, Labels, Outcomes
  <2>5. Ledger'
    BY <1>1, <1>2, <1>3, <1>4, <1>5, <1>7, <2>1, <2>2, <2>3, <2>4, LedgerKept
  <2>6. WellFormed(state)'
    BY <1>1, <1>2, <1>3, <1>4, <1>5, <1>7, <2>1, Fields DEF WellFormed
  <2>7. Outcome' /\ Follows' /\ Saved'
    BY <1>1, <1>2, <1>3, <1>4, <1>5, <1>7, <2>1, Fields DEF Outcome, Running, Follows, Saved
  <2>8. Attempts'
    BY <1>1, <1>2, <1>3, <1>4, <1>5, <1>7, <2>1, <2>4, AttemptsKept
  <2>9. Charges'
    BY <1>1, <1>2, <1>3, <1>4, <1>5, <1>7, <2>1, <2>4, ChargesKept
  <2>10. WellFormed(checkpoint)' /\ Acted' /\ OnePlanPerIteration' /\ Completed'
    BY <1>1, <1>2, <1>3, <1>4, <1>5, <1>7, <2>1, Fields DEF WellFormed, Acted,
       OnePlanPerIteration, Completed
  <2> QED
    BY <2>4, <2>5, <2>6, <2>7, <2>8, <2>9, <2>10 DEF Inv
<1> QED
  BY <1>6, <1>7 DEF CallProvider, Goto, Select

LEMMA CallFailsInv ==
  ASSUME Inv, CallFails
  PROVE  Inv'
<1>1. TypeOK /\ Ledger /\ Outcome /\ WellFormed(state) /\ WellFormed(checkpoint)
      /\ Follows /\ Saved /\ Acted /\ OnePlanPerIteration /\ Attempts /\ Charges /\ Completed
  BY DEF Inv
<1>2. /\ Running /\ pc # "finalizing" /\ pc = "calling"
      /\ outcome' = outcome /\ checkpoint' = checkpoint /\ beat' = beat /\ cuts' = cuts
         /\ faults' = faults
  BY DEF CallFails, StepOnly, boundVars, Running
<1>3. /\ ledger' \in Usage /\ NoMore(ledger, ledger') /\ NoMore(ledger', state.usage)
      /\ ledger.failures <= ledger'.failures
      /\ ledger'.cost \in {ledger.cost, state.usage.cost}
      /\ ledger'.toolCalls \in {ledger.toolCalls, state.usage.toolCalls}
  BY <1>1, <1>2, LedgerMoves DEF CallFails
<1>4. /\ pc' = "failing" /\ guarded' = FALSE /\ after' = after /\ reason' = reason
         /\ stale' = stale
      /\ state' = state
      /\ spent' = spent /\ started' = started /\ acted' = acted /\ done' = done
         /\ verdict' = verdict
  BY <1>1, <1>2, <1>3 DEF CallFails, Goto, Select, SaveThen, FailWithin, historyVars
<1>5. NoMore(state.usage, state'.usage)
  BY <1>1, <1>4, Fields DEF NoMore
<1>6. NoMore(ledger', state'.usage)
  BY <1>1, <1>3, <1>4, <1>5, Fields, UsageFields DEF NoMore
<1>7. TypeOK'
  <2>1. pc' \in PC /\ guarded' \in BOOLEAN
    BY <1>4 DEF PC
  <2> QED
    BY <1>1, <1>2, <1>3, <1>4, <2>1 DEF TypeOK
<1>8. Ledger'
  BY <1>1, <1>2, <1>3, <1>4, <1>5, <1>6, <1>7, LedgerKept
<1>9. WellFormed(state)'
  BY <1>1, <1>2, <1>3, <1>4, Fields DEF WellFormed
<1>10. Outcome' /\ Follows' /\ Saved'
  BY <1>1, <1>2, <1>3, <1>4, Fields DEF Outcome, Running, Follows, Saved
<1>11. Attempts'
  BY <1>1, <1>2, <1>3, <1>4, <1>7, AttemptsKept
<1>12. Charges'
  BY <1>1, <1>2, <1>3, <1>4, <1>7, ChargesKept
<1>13. WellFormed(checkpoint)' /\ Acted' /\ OnePlanPerIteration' /\ Completed'
  BY <1>1, <1>2, <1>3, <1>4, Fields DEF WellFormed, Acted, OnePlanPerIteration, Completed
<1> QED
  BY <1>7, <1>8, <1>9, <1>10, <1>11, <1>12, <1>13 DEF Inv

LEMMA PlanAnsweredInv ==
  ASSUME Inv, NEW p \in Plans, NEW c \in Costs, PlanAnswered(p, c)
  PROVE  Inv'
<1>1. TypeOK /\ Ledger /\ Outcome /\ WellFormed(state) /\ WellFormed(checkpoint)
      /\ Follows /\ Saved /\ Acted /\ OnePlanPerIteration /\ Attempts /\ Charges /\ Completed
  BY DEF Inv
<1>2. /\ Running /\ pc # "finalizing" /\ pc = "calling" /\ state.phase = "plan"
      /\ outcome' = outcome /\ checkpoint' = checkpoint /\ beat' = beat /\ cuts' = cuts
         /\ faults' = faults
  BY DEF PlanAnswered, StepOnly, boundVars, Running
<1>3. /\ ledger' \in Usage /\ NoMore(ledger, ledger') /\ NoMore(ledger', state.usage)
      /\ ledger.failures <= ledger'.failures
      /\ ledger'.cost \in {ledger.cost, state.usage.cost}
      /\ ledger'.toolCalls \in {ledger.toolCalls, state.usage.toolCalls}
  BY <1>1, <1>2, LedgerMoves DEF PlanAnswered
<1>4. c \in Nat /\ spent' = spent + c
  BY PlanAssumption DEF PlanAnswered
<1>5. state.open /\ state.plan = NoPlan /\ checkpoint.plan = NoPlan /\ p # NoPlan
      /\ Size[p] \in Nat
  BY <1>1, <1>2, PlanAssumption DEF Saved, WellFormed, NoPlan
<1>6. CASE Exceeded(Charged(state, c))
  <2>1. /\ pc' = "finalizing" /\ reason' = "provider_cost" /\ after' = after
           /\ guarded' = guarded /\ stale' = stale
        /\ state' = Charged(state, c) /\ ledger' = ledger
        /\ started' = started /\ acted' = acted /\ done' = done /\ verdict' = verdict
    BY <1>1, <1>2, <1>3, <1>4, <1>5, <1>6 DEF PlanAnswered, Goto, Select, SaveThen,
       FailWithin, historyVars
  <2>2. /\ state' \in State
        /\ state'.phase = state.phase /\ state'.open = state.open
           /\ state'.iteration = state.iteration
        /\ state'.action = state.action /\ state'.plan = state.plan
           /\ state'.evaluation = state.evaluation
        /\ state'.usage.iterations = state.usage.iterations
           /\ state'.usage.cost = state.usage.cost + c
        /\ state'.usage.toolCalls = state.usage.toolCalls
           /\ state'.usage.failures = state.usage.failures
    BY <1>1, <2>1, <1>4, Fields, ChargedNow
  <2>3. NoMore(state.usage, state'.usage)
    BY <1>1, <2>1, <2>2, <1>4, Fields DEF NoMore
  <2>4. NoMore(ledger', state'.usage)
    BY <1>1, <1>3, <2>1, <2>2, <1>4, <2>3, Fields, UsageFields DEF NoMore
  <2>5. TypeOK'
    BY <1>1, <1>2, <1>3, <1>4, <1>5, <1>6, <2>2, <2>1, Fields DEF TypeOK, PC, Labels, Outcomes
  <2>6. Ledger'
    BY <1>1, <1>2, <1>3, <1>4, <1>5, <1>6, <2>2, <2>1, <2>3, <2>4, <2>5, LedgerKept
  <2>7. WellFormed(state)'
    BY <1>1, <1>2, <1>3, <1>4, <1>5, <1>6, <2>2, <2>1, Fields DEF WellFormed
  <2>8. Outcome' /\ Follows' /\ Saved'
    BY <1>1, <1>2, <1>3, <1>4, <1>5, <1>6, <2>2, <2>1, Fields DEF Outcome, Running,
       Follows, Saved
  <2>9. Attempts'
    BY <1>1, <1>2, <1>3, <1>4, <1>5, <1>6, <2>2, <2>1, <2>5, AttemptsKept
  <2>10. Charges'
    BY <1>1, <1>2, <1>3, <1>4, <1>5, <1>6, <2>2, <2>1, <2>5, ChargesGrow
  <2>11. WellFormed(checkpoint)' /\ Acted' /\ OnePlanPerIteration' /\ Completed'
    BY <1>1, <1>2, <1>3, <1>4, <1>5, <1>6, <2>2, <2>1, Fields DEF WellFormed, Acted,
       OnePlanPerIteration, Completed
  <2> QED
    BY <2>5, <2>6, <2>7, <2>8, <2>9, <2>10, <2>11 DEF Inv
<1>7. CASE ~Exceeded(Charged(state, c))
  <2>1. /\ pc' = "saving" /\ after' = "emitting" /\ reason' = reason
           /\ guarded' = guarded /\ stale' = stale
        /\ state' = Planned(Charged(state, c), p) /\ ledger' = ledger
        /\ started' = started /\ acted' = acted /\ done' = done /\ verdict' = verdict
    BY <1>1, <1>2, <1>3, <1>4, <1>5, <1>7 DEF PlanAnswered, Goto, Select, SaveThen,
       SavePlan, FailWithin, historyVars
  <2>2. /\ state' \in State
        /\ state'.phase = (IF Size[p] > 0 THEN "act" ELSE "evaluate")
           /\ state'.open = state.open /\ state'.iteration = state.iteration
        /\ state'.action = 0 /\ state'.plan = p /\ state'.evaluation = state.evaluation
        /\ state'.usage.iterations = state.usage.iterations
           /\ state'.usage.cost = state.usage.cost + c
        /\ state'.usage.toolCalls = state.usage.toolCalls /\ state'.usage.failures = 0
    <3> DEFINE r == Charged(state, c)
    <3>1. state' = Planned(r, p) /\ r \in State
      BY <1>1, <2>1, ChargedNow
    <3>2. /\ r.iteration = state.iteration /\ r.open = state.open
             /\ r.evaluation = state.evaluation
          /\ r.usage.iterations = state.usage.iterations
          /\ r.usage.cost = state.usage.cost + c
          /\ r.usage.toolCalls = state.usage.toolCalls
      BY <1>1, ChargedNow
    <3> HIDE DEF r
    <3> QED
      BY <3>1, <3>2, PlannedIs
  <2>3. NoMore(state.usage, state'.usage)
    BY <1>1, <2>1, <2>2, <1>4, Fields DEF NoMore
  <2>4. NoMore(ledger', state'.usage)
    BY <1>1, <1>3, <2>1, <2>2, <1>4, <2>3, Fields, UsageFields DEF NoMore
  <2>5. TypeOK'
    BY <1>1, <1>2, <1>3, <1>4, <1>5, <1>7, <2>2, <2>1, Fields DEF TypeOK, PC, Labels, Outcomes
  <2>6. Ledger'
    BY <1>1, <1>2, <1>3, <1>4, <1>5, <1>7, <2>2, <2>1, <2>3, <2>4, <2>5, LedgerKept
  <2>7. WellFormed(state)'
    BY <1>1, <1>2, <1>3, <1>4, <1>5, <1>7, <2>2, <2>1, Fields DEF WellFormed
  <2>8. Outcome' /\ Follows' /\ Saved'
    BY <1>1, <1>2, <1>3, <1>4, <1>5, <1>7, <2>2, <2>1, Fields DEF Outcome, Running,
       Follows, Saved
  <2>9. Attempts'
    BY <1>1, <1>2, <1>3, <1>4, <1>5, <1>7, <2>2, <2>1, <2>5, AttemptsKept
  <2>10. Charges'
    BY <1>1, <1>2, <1>3, <1>4, <1>5, <1>7, <2>2, <2>1, <2>5, ChargesGrow
  <2>11. WellFormed(checkpoint)' /\ Acted' /\ OnePlanPerIteration' /\ Completed'
    BY <1>1, <1>2, <1>3, <1>4, <1>5, <1>7, <2>2, <2>1, Fields DEF WellFormed, Acted,
       OnePlanPerIteration, Completed
  <2> QED
    BY <2>5, <2>6, <2>7, <2>8, <2>9, <2>10, <2>11 DEF Inv
<1> QED
  BY <1>6, <1>7

LEMMA UnusableInv ==
  ASSUME Inv, NEW c \in Costs, Unusable(c)
  PROVE  Inv'
<1>1. TypeOK /\ Ledger /\ Outcome /\ WellFormed(state) /\ WellFormed(checkpoint)
      /\ Follows /\ Saved /\ Acted /\ OnePlanPerIteration /\ Attempts /\ Charges /\ Completed
  BY DEF Inv
<1>2. /\ Running /\ pc # "finalizing" /\ pc = "calling"
      /\ outcome' = outcome /\ checkpoint' = checkpoint /\ beat' = beat /\ cuts' = cuts
         /\ faults' = faults
  BY DEF Unusable, StepOnly, boundVars, Running
<1>3. /\ ledger' \in Usage /\ NoMore(ledger, ledger') /\ NoMore(ledger', state.usage)
      /\ ledger.failures <= ledger'.failures
      /\ ledger'.cost \in {ledger.cost, state.usage.cost}
      /\ ledger'.toolCalls \in {ledger.toolCalls, state.usage.toolCalls}
  BY <1>1, <1>2, LedgerMoves DEF Unusable
<1>4. c \in Nat
  BY PlanAssumption
<1>5. spent + c \in Nat
  BY <1>1, <1>4 DEF TypeOK
<1>6. CASE state.phase = "plan" /\ Exceeded(Charged(state, c))
  <2>1. /\ pc' = "finalizing" /\ reason' = "provider_cost" /\ after' = after
           /\ guarded' = guarded /\ stale' = stale
        /\ state' = Charged(state, c) /\ ledger' = ledger
        /\ started' = started /\ acted' = acted /\ done' = done /\ verdict' = verdict
        /\ spent' = spent + c
    BY <1>1, <1>2, <1>3, <1>4, <1>5, <1>6 DEF Unusable, Goto, Select, SaveThen, FailWithin,
       historyVars
  <2>2. /\ state' \in State
        /\ state'.phase = state.phase /\ state'.open = state.open
           /\ state'.iteration = state.iteration
        /\ state'.action = state.action /\ state'.plan = state.plan
           /\ state'.evaluation = state.evaluation
        /\ state'.usage.iterations = state.usage.iterations
           /\ state'.usage.cost = state.usage.cost + c
        /\ state'.usage.toolCalls = state.usage.toolCalls
           /\ state'.usage.failures = state.usage.failures
    BY <1>1, <2>1, <1>4, Fields, ChargedNow
  <2>3. NoMore(state.usage, state'.usage)
    BY <1>1, <2>1, <2>2, <1>4, Fields DEF NoMore
  <2>4. NoMore(ledger', state'.usage)
    BY <1>1, <1>3, <2>1, <2>2, <1>4, <2>3, Fields, UsageFields DEF NoMore
  <2>5. TypeOK'
    BY <1>1, <1>2, <1>3, <1>4, <1>5, <1>6, <2>2, <2>1, Fields DEF TypeOK, PC, Labels, Outcomes
  <2>6. Ledger'
    BY <1>1, <1>2, <1>3, <1>4, <1>5, <1>6, <2>2, <2>1, <2>3, <2>4, <2>5, LedgerKept
  <2>7. WellFormed(state)'
    BY <1>1, <1>2, <1>3, <1>4, <1>5, <1>6, <2>2, <2>1, Fields DEF WellFormed
  <2>8. Outcome' /\ Follows' /\ Saved'
    BY <1>1, <1>2, <1>3, <1>4, <1>5, <1>6, <2>2, <2>1, Fields DEF Outcome, Running,
       Follows, Saved
  <2>9. Attempts'
    BY <1>1, <1>2, <1>3, <1>4, <1>5, <1>6, <2>2, <2>1, <2>5, AttemptsKept
  <2>10. Charges'
    BY <1>1, <1>2, <1>3, <1>4, <1>5, <1>6, <2>2, <2>1, <2>5, ChargesGrow
  <2>11. WellFormed(checkpoint)' /\ Acted' /\ OnePlanPerIteration' /\ Completed'
    BY <1>1, <1>2, <1>3, <1>4, <1>5, <1>6, <2>2, <2>1, Fields DEF WellFormed, Acted,
       OnePlanPerIteration, Completed
  <2> QED
    BY <2>5, <2>6, <2>7, <2>8, <2>9, <2>10, <2>11 DEF Inv
<1>7. CASE state.phase = "plan" /\ ~Exceeded(Charged(state, c))
  <2>1. /\ pc' = "failing" /\ guarded' = FALSE /\ after' = after /\ reason' = reason
           /\ stale' = stale
        /\ state' = Charged(state, c) /\ ledger' = ledger
        /\ started' = started /\ acted' = acted /\ done' = done /\ verdict' = verdict
        /\ spent' = spent + c
    BY <1>1, <1>2, <1>3, <1>4, <1>5, <1>7 DEF Unusable, Goto, Select, SaveThen, FailWithin,
       historyVars
  <2>2. /\ state' \in State
        /\ state'.phase = state.phase /\ state'.open = state.open
           /\ state'.iteration = state.iteration
        /\ state'.action = state.action /\ state'.plan = state.plan
           /\ state'.evaluation = state.evaluation
        /\ state'.usage.iterations = state.usage.iterations
           /\ state'.usage.cost = state.usage.cost + c
        /\ state'.usage.toolCalls = state.usage.toolCalls
           /\ state'.usage.failures = state.usage.failures
    BY <1>1, <2>1, <1>4, Fields, ChargedNow
  <2>3. NoMore(state.usage, state'.usage)
    BY <1>1, <2>1, <2>2, <1>4, Fields DEF NoMore
  <2>4. NoMore(ledger', state'.usage)
    BY <1>1, <1>3, <2>1, <2>2, <1>4, <2>3, Fields, UsageFields DEF NoMore
  <2>5. TypeOK'
    <3>1. pc' \in PC /\ guarded' \in BOOLEAN
      BY <2>1 DEF PC
    <3> QED
      BY <1>1, <1>2, <1>3, <1>4, <1>5, <2>1, <2>2, <3>1 DEF TypeOK
  <2>6. Ledger'
    BY <1>1, <1>2, <1>3, <1>4, <1>5, <1>7, <2>2, <2>1, <2>3, <2>4, <2>5, LedgerKept
  <2>7. WellFormed(state)'
    BY <1>1, <1>2, <1>3, <1>4, <1>5, <1>7, <2>2, <2>1, Fields DEF WellFormed
  <2>8. Outcome' /\ Follows' /\ Saved'
    BY <1>1, <1>2, <1>3, <1>4, <1>5, <1>7, <2>2, <2>1, Fields DEF Outcome, Running,
       Follows, Saved
  <2>9. Attempts'
    BY <1>1, <1>2, <1>3, <1>4, <1>5, <1>7, <2>2, <2>1, <2>5, AttemptsKept
  <2>10. Charges'
    BY <1>1, <1>2, <1>3, <1>4, <1>5, <1>7, <2>2, <2>1, <2>5, ChargesGrow
  <2>11. WellFormed(checkpoint)' /\ Acted' /\ OnePlanPerIteration' /\ Completed'
    BY <1>1, <1>2, <1>3, <1>4, <1>5, <1>7, <2>2, <2>1, Fields DEF WellFormed, Acted,
       OnePlanPerIteration, Completed
  <2> QED
    BY <2>5, <2>6, <2>7, <2>8, <2>9, <2>10, <2>11 DEF Inv
<1>8. CASE state.phase # "plan"
  <2>1. /\ pc' = "failing" /\ guarded' = FALSE /\ after' = after /\ reason' = reason
           /\ stale' = stale
        /\ state' = state
        /\ spent' = spent /\ started' = started /\ acted' = acted /\ done' = done
           /\ verdict' = verdict
    BY <1>1, <1>2, <1>3, <1>4, <1>5, <1>8 DEF Unusable, Goto, Select, SaveThen, FailWithin,
       historyVars
  <2>2. NoMore(state.usage, state'.usage)
    BY <1>1, <2>1, <1>4, Fields DEF NoMore
  <2>3. NoMore(ledger', state'.usage)
    BY <1>1, <1>3, <2>1, <1>4, <2>2, Fields, UsageFields DEF NoMore
  <2>4. TypeOK'
    <3>1. pc' \in PC /\ guarded' \in BOOLEAN
      BY <2>1 DEF PC
    <3> QED
      BY <1>1, <1>2, <1>3, <1>4, <1>5, <2>1, <3>1 DEF TypeOK
  <2>5. Ledger'
    BY <1>1, <1>2, <1>3, <1>4, <1>5, <1>8, <2>1, <2>2, <2>3, <2>4, LedgerKept
  <2>6. WellFormed(state)'
    BY <1>1, <1>2, <1>3, <1>4, <1>5, <1>8, <2>1, Fields DEF WellFormed
  <2>7. Outcome' /\ Follows' /\ Saved'
    BY <1>1, <1>2, <1>3, <1>4, <1>5, <1>8, <2>1, Fields DEF Outcome, Running, Follows, Saved
  <2>8. Attempts'
    BY <1>1, <1>2, <1>3, <1>4, <1>5, <1>8, <2>1, <2>4, AttemptsKept
  <2>9. Charges'
    BY <1>1, <1>2, <1>3, <1>4, <1>5, <1>8, <2>1, <2>4, ChargesKept
  <2>10. WellFormed(checkpoint)' /\ Acted' /\ OnePlanPerIteration' /\ Completed'
    BY <1>1, <1>2, <1>3, <1>4, <1>5, <1>8, <2>1, Fields DEF WellFormed, Acted,
       OnePlanPerIteration, Completed
  <2> QED
    BY <2>4, <2>5, <2>6, <2>7, <2>8, <2>9, <2>10 DEF Inv
<1> QED
  BY <1>6, <1>7, <1>8

LEMMA EvaluationAnsweredInv ==
  ASSUME Inv, NEW e \in Evaluations, NEW c \in Costs, EvaluationAnswered(e, c)
  PROVE  Inv'
<1>1. TypeOK /\ Ledger /\ Outcome /\ WellFormed(state) /\ WellFormed(checkpoint)
      /\ Follows /\ Saved /\ Acted /\ OnePlanPerIteration /\ Attempts /\ Charges /\ Completed
  BY DEF Inv
<1>2. /\ Running /\ pc # "finalizing" /\ pc = "calling" /\ state.phase = "evaluate"
      /\ outcome' = outcome /\ checkpoint' = checkpoint /\ beat' = beat /\ cuts' = cuts
         /\ faults' = faults
  BY DEF EvaluationAnswered, StepOnly, boundVars, Running
<1>3. /\ ledger' \in Usage /\ NoMore(ledger, ledger') /\ NoMore(ledger', state.usage)
      /\ ledger.failures <= ledger'.failures
      /\ ledger'.cost \in {ledger.cost, state.usage.cost}
      /\ ledger'.toolCalls \in {ledger.toolCalls, state.usage.toolCalls}
  BY <1>1, <1>2, LedgerMoves DEF EvaluationAnswered
<1>4. c \in Nat /\ spent' = spent + c
  BY PlanAssumption DEF EvaluationAnswered
<1>5. checkpoint.phase = "evaluate"
  BY <1>1, <1>2 DEF Saved
<1>6. CASE Exceeded(Charged(state, c))
  <2>1. /\ pc' = "finalizing" /\ reason' = "provider_cost" /\ after' = after
           /\ guarded' = guarded /\ stale' = stale
        /\ state' = Charged(state, c) /\ ledger' = ledger
        /\ started' = started /\ acted' = acted /\ done' = done
           /\ verdict' = <<state.iteration, e>>
    BY <1>1, <1>2, <1>3, <1>4, <1>5, <1>6 DEF EvaluationAnswered, Goto, Select, SaveThen,
       FailWithin, historyVars
  <2>2. /\ state' \in State
        /\ state'.phase = state.phase /\ state'.open = state.open
           /\ state'.iteration = state.iteration
        /\ state'.action = state.action /\ state'.plan = state.plan
           /\ state'.evaluation = state.evaluation
        /\ state'.usage.iterations = state.usage.iterations
           /\ state'.usage.cost = state.usage.cost + c
        /\ state'.usage.toolCalls = state.usage.toolCalls
           /\ state'.usage.failures = state.usage.failures
    BY <1>1, <2>1, <1>4, Fields, ChargedNow
  <2>3. NoMore(state.usage, state'.usage)
    BY <1>1, <2>1, <2>2, <1>4, Fields DEF NoMore
  <2>4. NoMore(ledger', state'.usage)
    BY <1>1, <1>3, <2>1, <2>2, <1>4, <2>3, Fields, UsageFields DEF NoMore
  <2>5. TypeOK'
    BY <1>1, <1>2, <1>3, <1>4, <1>5, <1>6, <2>2, <2>1, Fields DEF TypeOK, PC, Labels, Outcomes
  <2>6. Ledger'
    BY <1>1, <1>2, <1>3, <1>4, <1>5, <1>6, <2>2, <2>1, <2>3, <2>4, <2>5, LedgerKept
  <2>7. WellFormed(state)'
    BY <1>1, <1>2, <1>3, <1>4, <1>5, <1>6, <2>2, <2>1, Fields DEF WellFormed
  <2>8. Outcome' /\ Follows' /\ Saved'
    BY <1>1, <1>2, <1>3, <1>4, <1>5, <1>6, <2>2, <2>1, Fields DEF Outcome, Running,
       Follows, Saved
  <2>9. Attempts'
    BY <1>1, <1>2, <1>3, <1>4, <1>5, <1>6, <2>2, <2>1, <2>5, AttemptsKept
  <2>10. Charges'
    BY <1>1, <1>2, <1>3, <1>4, <1>5, <1>6, <2>2, <2>1, <2>5, ChargesGrow
  <2>11. WellFormed(checkpoint)' /\ Acted' /\ OnePlanPerIteration' /\ Completed'
    BY <1>1, <1>2, <1>3, <1>4, <1>5, <1>6, <2>2, <2>1, Fields DEF WellFormed, Acted,
       OnePlanPerIteration, Completed
  <2> QED
    BY <2>5, <2>6, <2>7, <2>8, <2>9, <2>10, <2>11 DEF Inv
<1>7. CASE ~Exceeded(Charged(state, c)) /\ e = "none"
  <2>1. /\ pc' = "failing" /\ guarded' = TRUE /\ after' = after /\ reason' = reason
           /\ stale' = stale
        /\ state' = Charged(state, c) /\ ledger' = ledger
        /\ started' = started /\ acted' = acted /\ done' = done
           /\ verdict' = <<state.iteration, e>>
    BY <1>1, <1>2, <1>3, <1>4, <1>5, <1>7 DEF EvaluationAnswered, Goto, Select, SaveThen,
       FailWithin, historyVars
  <2>2. /\ state' \in State
        /\ state'.phase = state.phase /\ state'.open = state.open
           /\ state'.iteration = state.iteration
        /\ state'.action = state.action /\ state'.plan = state.plan
           /\ state'.evaluation = state.evaluation
        /\ state'.usage.iterations = state.usage.iterations
           /\ state'.usage.cost = state.usage.cost + c
        /\ state'.usage.toolCalls = state.usage.toolCalls
           /\ state'.usage.failures = state.usage.failures
    BY <1>1, <2>1, <1>4, Fields, ChargedNow
  <2>3. NoMore(state.usage, state'.usage)
    BY <1>1, <2>1, <2>2, <1>4, Fields DEF NoMore
  <2>4. NoMore(ledger', state'.usage)
    BY <1>1, <1>3, <2>1, <2>2, <1>4, <2>3, Fields, UsageFields DEF NoMore
  <2>5. TypeOK'
    BY <1>1, <1>2, <1>3, <1>4, <1>5, <1>7, <2>2, <2>1, Fields DEF TypeOK, PC, Labels, Outcomes
  <2>6. Ledger'
    BY <1>1, <1>2, <1>3, <1>4, <1>5, <1>7, <2>2, <2>1, <2>3, <2>4, <2>5, LedgerKept
  <2>7. WellFormed(state)'
    BY <1>1, <1>2, <1>3, <1>4, <1>5, <1>7, <2>2, <2>1, Fields DEF WellFormed
  <2>8. Outcome' /\ Follows' /\ Saved'
    BY <1>1, <1>2, <1>3, <1>4, <1>5, <1>7, <2>2, <2>1, Fields DEF Outcome, Running,
       Follows, Saved
  <2>9. Attempts'
    BY <1>1, <1>2, <1>3, <1>4, <1>5, <1>7, <2>2, <2>1, <2>5, AttemptsKept
  <2>10. Charges'
    BY <1>1, <1>2, <1>3, <1>4, <1>5, <1>7, <2>2, <2>1, <2>5, ChargesGrow
  <2>11. WellFormed(checkpoint)' /\ Acted' /\ OnePlanPerIteration' /\ Completed'
    BY <1>1, <1>2, <1>3, <1>4, <1>5, <1>7, <2>2, <2>1, Fields DEF WellFormed, Acted,
       OnePlanPerIteration, Completed
  <2> QED
    BY <2>5, <2>6, <2>7, <2>8, <2>9, <2>10, <2>11 DEF Inv
<1>8. CASE ~Exceeded(Charged(state, c)) /\ e # "none"
  <2>1. /\ pc' = "saving" /\ after' = "emitting" /\ reason' = reason
           /\ guarded' = guarded /\ stale' = stale
        /\ state' = Evaluated(Charged(state, c), e) /\ ledger' = ledger
        /\ started' = started /\ acted' = acted /\ done' = done
           /\ verdict' = <<state.iteration, e>>
    BY <1>1, <1>2, <1>3, <1>4, <1>5, <1>8 DEF EvaluationAnswered, Goto, Select, SaveThen,
       FailWithin, historyVars
  <2>2. /\ state' \in State
        /\ state'.phase = "checkpoint" /\ state'.open = state.open
           /\ state'.iteration = state.iteration
        /\ state'.action = state.action /\ state'.plan = state.plan /\ state'.evaluation = e
        /\ state'.usage.iterations = state.usage.iterations
           /\ state'.usage.cost = state.usage.cost + c
        /\ state'.usage.toolCalls = state.usage.toolCalls /\ state'.usage.failures = 0
    BY <1>1, <2>1, <1>4, Fields, ChargedNow, EvaluatedIs
  <2>3. NoMore(state.usage, state'.usage)
    BY <1>1, <2>1, <2>2, <1>4, Fields DEF NoMore
  <2>4. NoMore(ledger', state'.usage)
    BY <1>1, <1>3, <2>1, <2>2, <1>4, <2>3, Fields, UsageFields DEF NoMore
  <2>5. TypeOK'
    BY <1>1, <1>2, <1>3, <1>4, <1>5, <1>8, <2>2, <2>1, Fields DEF TypeOK, PC, Labels, Outcomes
  <2>6. Ledger'
    BY <1>1, <1>2, <1>3, <1>4, <1>5, <1>8, <2>2, <2>1, <2>3, <2>4, <2>5, LedgerKept
  <2>7. WellFormed(state)'
    BY <1>1, <1>2, <1>3, <1>4, <1>5, <1>8, <2>2, <2>1, Fields DEF WellFormed
  <2>8. Outcome' /\ Follows' /\ Saved'
    BY <1>1, <1>2, <1>3, <1>4, <1>5, <1>8, <2>2, <2>1, Fields DEF Outcome, Running,
       Follows, Saved
  <2>9. Attempts'
    BY <1>1, <1>2, <1>3, <1>4, <1>5, <1>8, <2>2, <2>1, <2>5, AttemptsKept
  <2>10. Charges'
    BY <1>1, <1>2, <1>3, <1>4, <1>5, <1>8, <2>2, <2>1, <2>5, ChargesGrow
  <2>11. WellFormed(checkpoint)' /\ Acted' /\ OnePlanPerIteration' /\ Completed'
    BY <1>1, <1>2, <1>3, <1>4, <1>5, <1>8, <2>2, <2>1, Fields DEF WellFormed, Acted,
       OnePlanPerIteration, Completed
  <2> QED
    BY <2>5, <2>6, <2>7, <2>8, <2>9, <2>10, <2>11 DEF Inv
<1> QED
  BY <1>6, <1>7, <1>8

LEMMA StartToolInv ==
  ASSUME Inv, StartTool
  PROVE  Inv'
<1>1. TypeOK /\ Ledger /\ Outcome /\ WellFormed(state) /\ WellFormed(checkpoint)
      /\ Follows /\ Saved /\ Acted /\ OnePlanPerIteration /\ Attempts /\ Charges /\ Completed
  BY DEF Inv
<1>2. /\ Running /\ pc # "finalizing" /\ pc = "top" /\ state.phase = "act" /\ Renewed
      /\ outcome' = outcome /\ checkpoint' = checkpoint /\ beat' = beat /\ cuts' = cuts
         /\ faults' = faults
  BY DEF StartTool, StepOnly, boundVars, Running
<1>3. /\ ledger' \in Usage /\ NoMore(ledger, ledger') /\ NoMore(ledger', state.usage)
      /\ ledger.failures <= ledger'.failures
      /\ ledger'.cost \in {ledger.cost, state.usage.cost}
      /\ ledger'.toolCalls \in {ledger.toolCalls, state.usage.toolCalls}
  BY <1>1, <1>2, LedgerMoves DEF StartTool
<1>4. CASE state.usage.toolCalls >= MaxToolCalls
  <2>1. /\ pc' = "finalizing" /\ reason' = "tool_call_limit" /\ after' = after
           /\ guarded' = guarded /\ stale' = stale
        /\ state' = state
        /\ spent' = spent /\ started' = started /\ acted' = acted /\ done' = done
           /\ verdict' = verdict
    BY <1>1, <1>2, <1>3, <1>4 DEF StartTool, Goto, Select, SaveThen, FailWithin, historyVars
  <2>2. NoMore(state.usage, state'.usage)
    BY <1>1, <2>1, Fields DEF NoMore
  <2>3. NoMore(ledger', state'.usage)
    BY <1>1, <1>3, <2>1, <2>2, Fields, UsageFields DEF NoMore
  <2>4. TypeOK'
    BY <1>1, <1>2, <1>3, <1>4, <2>1, Fields DEF TypeOK, PC, Labels, Outcomes
  <2>5. Ledger'
    BY <1>1, <1>2, <1>3, <1>4, <2>1, <2>2, <2>3, <2>4, LedgerKept
  <2>6. WellFormed(state)'
    BY <1>1, <1>2, <1>3, <1>4, <2>1, Fields DEF WellFormed
  <2>7. Outcome' /\ Follows' /\ Saved'
    BY <1>1, <1>2, <1>3, <1>4, <2>1, Fields DEF Outcome, Running, Follows, Saved
  <2>8. Attempts'
    BY <1>1, <1>2, <1>3, <1>4, <2>1, <2>4, AttemptsKept
  <2>9. Charges'
    BY <1>1, <1>2, <1>3, <1>4, <2>1, <2>4, ChargesKept
  <2>10. WellFormed(checkpoint)' /\ Acted' /\ OnePlanPerIteration' /\ Completed'
    BY <1>1, <1>2, <1>3, <1>4, <2>1, Fields DEF WellFormed, Acted, OnePlanPerIteration,
       Completed
  <2> QED
    BY <2>4, <2>5, <2>6, <2>7, <2>8, <2>9, <2>10 DEF Inv
<1>5. CASE ~(state.usage.toolCalls >= MaxToolCalls)
  <2>1. /\ pc' = "executing" /\ after' = after /\ reason' = reason /\ guarded' = guarded
           /\ stale' = stale
        /\ state' = Reserved(state)
        /\ spent' = spent /\ started' = started + 1 /\ done' = done /\ verdict' = verdict
        /\ acted' = acted \union {<<state.iteration, state.plan>>}
    BY <1>1, <1>2, <1>3, <1>5 DEF StartTool, Goto, Select, SaveThen, FailWithin, historyVars
  <2>2. /\ state' \in State
        /\ state'.phase = state.phase /\ state'.open = state.open
           /\ state'.iteration = state.iteration
        /\ state'.action = state.action /\ state'.plan = state.plan
           /\ state'.evaluation = state.evaluation
        /\ state'.usage.iterations = state.usage.iterations
           /\ state'.usage.cost = state.usage.cost
        /\ state'.usage.toolCalls = state.usage.toolCalls + 1
           /\ state'.usage.failures = state.usage.failures
    BY <1>1, <2>1, Fields, ReservedIs
  <2>3. /\ checkpoint.iteration = state.iteration /\ state.plan \in Plans
        /\ checkpoint.plan # NoPlan /\ Redacted[state.plan] = Redacted[checkpoint.plan]
    BY <1>1, <1>2, <1>3, <1>5, <2>2, <2>1, Fields DEF Saved, Follows, WellFormed
  <2>4. NoMore(state.usage, state'.usage)
    BY <1>1, <2>1, <2>2, Fields DEF NoMore
  <2>5. NoMore(ledger', state'.usage)
    BY <1>1, <1>3, <2>1, <2>2, <2>4, Fields, UsageFields DEF NoMore
  <2>6. TypeOK'
    BY <1>1, <1>2, <1>3, <1>5, <2>2, <2>3, <2>1, Fields DEF TypeOK, PC, Labels, Outcomes
  <2>7. Ledger'
    BY <1>1, <1>2, <1>3, <1>5, <2>2, <2>3, <2>1, <2>4, <2>5, <2>6, LedgerKept
  <2>8. WellFormed(state)'
    BY <1>1, <1>2, <1>3, <1>5, <2>2, <2>3, <2>1, Fields DEF WellFormed
  <2>9. Outcome' /\ Follows' /\ Saved'
    BY <1>1, <1>2, <1>3, <1>5, <2>2, <2>3, <2>1, Fields DEF Outcome, Running, Follows, Saved
  <2>10. Acted'
    <3>1. checkpoint' = checkpoint /\ acted' = acted \union {<<state.iteration, state.plan>>}
      BY <1>2, <2>1
    <3> QED
      BY <1>1, <2>3, <3>1, Fields DEF Acted
  <2>11. OnePlanPerIteration'
    <3>1. \A one \in acted : one[1] = state.iteration => Redacted[one[2]] = Redacted[state.plan]
      BY <1>1, <2>3 DEF Acted
    <3> QED
      BY <1>1, <2>1, <3>1 DEF OnePlanPerIteration
  <2>12. Attempts'
    <3>1. ledger'.toolCalls = state.usage.toolCalls
      BY <1>1, <1>2, RenewedIs DEF Ledger
    <3>2. ~Recorded' /\ started <= state.usage.toolCalls + cuts
      BY <1>1, <1>2, <2>1 DEF Recorded, Attempts
    <3>3. started + 1 <= state.usage.toolCalls + 1 + cuts
      BY <1>1, <3>2, Fields DEF TypeOK
    <3>4. state.usage.toolCalls + 1 <= MaxToolCalls
      BY <1>1, <1>5, Fields, LimitAssumption
    <3> QED
      BY <1>1, <1>2, <2>1, <2>2, <3>1, <3>2, <3>3, <3>4, Fields DEF Attempts
  <2>13. Charges'
    BY <1>1, <1>2, <1>3, <1>5, <2>2, <2>3, <2>1, <2>6, ChargesKept
  <2>14. WellFormed(checkpoint)' /\ Completed'
    BY <1>1, <1>2, <1>3, <1>5, <2>2, <2>3, <2>1, Fields DEF WellFormed, Completed
  <2> QED
    BY <2>6, <2>7, <2>8, <2>9, <2>10, <2>11, <2>12, <2>13, <2>14 DEF Inv
<1> QED
  BY <1>4, <1>5

LEMMA ToolDeniedInv ==
  ASSUME Inv, ToolDenied
  PROVE  Inv'
<1>1. TypeOK /\ Ledger /\ Outcome /\ WellFormed(state) /\ WellFormed(checkpoint)
      /\ Follows /\ Saved /\ Acted /\ OnePlanPerIteration /\ Attempts /\ Charges /\ Completed
  BY DEF Inv
<1>2. /\ Running /\ pc # "finalizing" /\ pc = "top" /\ state.phase = "act"
      /\ outcome' = outcome /\ checkpoint' = checkpoint /\ beat' = beat /\ cuts' = cuts
         /\ faults' = faults
  BY DEF ToolDenied, StepOnly, boundVars, Running
<1>3. /\ ledger' \in Usage /\ NoMore(ledger, ledger') /\ NoMore(ledger', state.usage)
      /\ ledger.failures <= ledger'.failures
      /\ ledger'.cost \in {ledger.cost, state.usage.cost}
      /\ ledger'.toolCalls \in {ledger.toolCalls, state.usage.toolCalls}
  BY <1>1, <1>2, LedgerMoves DEF ToolDenied
<1>4. /\ pc' = "failing" /\ guarded' = TRUE /\ after' = after /\ reason' = reason
         /\ stale' = stale
      /\ state' = state
      /\ spent' = spent /\ started' = started /\ acted' = acted /\ done' = done
         /\ verdict' = verdict
  BY <1>1, <1>2, <1>3 DEF ToolDenied, Goto, Select, SaveThen, FailWithin, historyVars
<1>5. NoMore(state.usage, state'.usage)
  BY <1>1, <1>4, Fields DEF NoMore
<1>6. NoMore(ledger', state'.usage)
  BY <1>1, <1>3, <1>4, <1>5, Fields, UsageFields DEF NoMore
<1>7. TypeOK'
  BY <1>1, <1>2, <1>3, <1>4, Fields DEF TypeOK, PC, Labels, Outcomes
<1>8. Ledger'
  BY <1>1, <1>2, <1>3, <1>4, <1>5, <1>6, <1>7, LedgerKept
<1>9. WellFormed(state)'
  BY <1>1, <1>2, <1>3, <1>4, Fields DEF WellFormed
<1>10. Outcome' /\ Follows' /\ Saved'
  BY <1>1, <1>2, <1>3, <1>4, Fields DEF Outcome, Running, Follows, Saved
<1>11. Attempts'
  BY <1>1, <1>2, <1>3, <1>4, <1>7, AttemptsKept
<1>12. Charges'
  BY <1>1, <1>2, <1>3, <1>4, <1>7, ChargesKept
<1>13. WellFormed(checkpoint)' /\ Acted' /\ OnePlanPerIteration' /\ Completed'
  BY <1>1, <1>2, <1>3, <1>4, Fields DEF WellFormed, Acted, OnePlanPerIteration, Completed
<1> QED
  BY <1>7, <1>8, <1>9, <1>10, <1>11, <1>12, <1>13 DEF Inv

LEMMA ToolSucceedsInv ==
  ASSUME Inv, ToolSucceeds
  PROVE  Inv'
<1>1. TypeOK /\ Ledger /\ Outcome /\ WellFormed(state) /\ WellFormed(checkpoint)
      /\ Follows /\ Saved /\ Acted /\ OnePlanPerIteration /\ Attempts /\ Charges /\ Completed
  BY DEF Inv
<1>2. /\ Running /\ pc # "finalizing" /\ pc = "executing"
      /\ outcome' = outcome /\ checkpoint' = checkpoint /\ beat' = beat /\ cuts' = cuts
         /\ faults' = faults
  BY DEF ToolSucceeds, StepOnly, boundVars, Running
<1>3. /\ ledger' \in Usage /\ NoMore(ledger, ledger') /\ NoMore(ledger', state.usage)
      /\ ledger.failures <= ledger'.failures
      /\ ledger'.cost \in {ledger.cost, state.usage.cost}
      /\ ledger'.toolCalls \in {ledger.toolCalls, state.usage.toolCalls}
  BY <1>1, <1>2, LedgerMoves DEF ToolSucceeds
<1>4. state.phase = "act" /\ state.plan \in Plans /\ Size[state.plan] \in Nat
  BY <1>1, <1>2, Fields, PlanAssumption DEF Saved, WellFormed
<1>5. /\ pc' = "saving" /\ after' = "emitting" /\ reason' = reason /\ guarded' = guarded
         /\ stale' = stale
      /\ state' = Succeeded(state)
      /\ spent' = spent /\ started' = started /\ acted' = acted /\ verdict' = verdict
      /\ done' = done \union {<<state.iteration, state.action>>}
  BY <1>1, <1>2, <1>3, <1>4 DEF ToolSucceeds, Goto, Select, SaveThen, FailWithin, historyVars
<1>6. /\ state' \in State
      /\ state'.phase = (IF MoreTools(state) THEN state.phase ELSE "evaluate")
         /\ state'.open = state.open /\ state'.iteration = state.iteration
      /\ state'.action = state.action + 1 /\ state'.plan = state.plan
         /\ state'.evaluation = state.evaluation
      /\ state'.usage.iterations = state.usage.iterations
         /\ state'.usage.cost = state.usage.cost
      /\ state'.usage.toolCalls = state.usage.toolCalls
         /\ state'.usage.failures = (IF MoreTools(state) THEN state.usage.failures ELSE 0)
  BY <1>1, <1>5, Fields, SucceededIs
<1>7. NoMore(state.usage, state'.usage)
  BY <1>1, <1>5, <1>6, Fields DEF NoMore
<1>8. NoMore(ledger', state'.usage)
  BY <1>1, <1>3, <1>5, <1>6, <1>7, Fields, UsageFields DEF NoMore
<1>9. TypeOK'
  BY <1>1, <1>2, <1>3, <1>4, <1>6, <1>5, Fields DEF TypeOK, PC, Labels, Outcomes
<1>10. Ledger'
  BY <1>1, <1>2, <1>3, <1>4, <1>6, <1>5, <1>7, <1>8, <1>9, LedgerKept
<1>11. WellFormed(state)'
  <2>1. \A i \in 0 .. state.action : <<state.iteration, i>> \in done'
    <3>1. \A i \in 0 .. state.action : i \in 0 .. state.action - 1 \/ i = state.action
      BY <1>1, Fields
    <3> QED
      BY <1>1, <1>4, <1>5, <3>1 DEF WellFormed
  <2>2. state.action < Size[state.plan] /\ state.iteration <= state.usage.iterations
    BY <1>1, <1>4 DEF WellFormed
  <2>3. state'.action - 1 = state.action
    BY <1>1, <1>6, Fields
  <2>4. IF MoreTools(state) THEN state'.action < Size[state'.plan] ELSE state'.action = Size[state'.plan]
    BY <1>1, <1>4, <1>6, <2>2, Fields DEF MoreTools
  <2> QED
    BY <1>1, <1>4, <1>6, <1>5, <2>1, <2>2, <2>3, <2>4 DEF WellFormed
<1>12. Outcome' /\ Follows' /\ Saved'
  BY <1>1, <1>2, <1>3, <1>4, <1>6, <1>5, Fields DEF Outcome, Running, Follows, Saved
<1>13. Attempts'
  BY <1>1, <1>2, <1>3, <1>4, <1>6, <1>5, <1>9, AttemptsKept
<1>14. Charges'
  BY <1>1, <1>2, <1>3, <1>4, <1>6, <1>5, <1>9, ChargesKept
<1>15. WellFormed(checkpoint)' /\ Acted' /\ OnePlanPerIteration' /\ Completed'
  BY <1>1, <1>2, <1>3, <1>4, <1>6, <1>5, Fields DEF WellFormed, Acted, OnePlanPerIteration,
     Completed
<1> QED
  BY <1>9, <1>10, <1>11, <1>12, <1>13, <1>14, <1>15 DEF Inv

LEMMA ToolFailsInv ==
  ASSUME Inv, ToolFails
  PROVE  Inv'
<1>1. TypeOK /\ Ledger /\ Outcome /\ WellFormed(state) /\ WellFormed(checkpoint)
      /\ Follows /\ Saved /\ Acted /\ OnePlanPerIteration /\ Attempts /\ Charges /\ Completed
  BY DEF Inv
<1>2. /\ Running /\ pc # "finalizing" /\ pc = "executing"
      /\ outcome' = outcome /\ checkpoint' = checkpoint /\ beat' = beat /\ cuts' = cuts
         /\ faults' = faults
  BY DEF ToolFails, StepOnly, boundVars, Running
<1>3. /\ ledger' \in Usage /\ NoMore(ledger, ledger') /\ NoMore(ledger', state.usage)
      /\ ledger.failures <= ledger'.failures
      /\ ledger'.cost \in {ledger.cost, state.usage.cost}
      /\ ledger'.toolCalls \in {ledger.toolCalls, state.usage.toolCalls}
  BY <1>1, <1>2, LedgerMoves DEF ToolFails
<1>4. /\ pc' = "failing" /\ guarded' \in BOOLEAN /\ after' = after /\ reason' = reason
         /\ stale' = stale
      /\ state' = state
      /\ spent' = spent /\ started' = started /\ acted' = acted /\ done' = done
         /\ verdict' = verdict
  BY <1>1, <1>2, <1>3 DEF ToolFails, Goto, Select, SaveThen, FailWithin, historyVars
<1>5. NoMore(state.usage, state'.usage)
  BY <1>1, <1>4, Fields DEF NoMore
<1>6. NoMore(ledger', state'.usage)
  BY <1>1, <1>3, <1>4, <1>5, Fields, UsageFields DEF NoMore
<1>7. TypeOK'
  BY <1>1, <1>2, <1>3, <1>4, Fields DEF TypeOK, PC, Labels, Outcomes
<1>8. Ledger'
  BY <1>1, <1>2, <1>3, <1>4, <1>5, <1>6, <1>7, LedgerKept
<1>9. WellFormed(state)'
  BY <1>1, <1>2, <1>3, <1>4, Fields DEF WellFormed
<1>10. Outcome' /\ Follows' /\ Saved'
  BY <1>1, <1>2, <1>3, <1>4, Fields DEF Outcome, Running, Follows, Saved
<1>11. Attempts'
  BY <1>1, <1>2, <1>3, <1>4, <1>7, AttemptsKept
<1>12. Charges'
  BY <1>1, <1>2, <1>3, <1>4, <1>7, ChargesKept
<1>13. WellFormed(checkpoint)' /\ Acted' /\ OnePlanPerIteration' /\ Completed'
  BY <1>1, <1>2, <1>3, <1>4, Fields DEF WellFormed, Acted, OnePlanPerIteration, Completed
<1> QED
  BY <1>7, <1>8, <1>9, <1>10, <1>11, <1>12, <1>13 DEF Inv

LEMMA ToolRefusedInv ==
  ASSUME Inv, ToolRefused
  PROVE  Inv'
<1>1. TypeOK /\ Ledger /\ Outcome /\ WellFormed(state) /\ WellFormed(checkpoint)
      /\ Follows /\ Saved /\ Acted /\ OnePlanPerIteration /\ Attempts /\ Charges /\ Completed
  BY DEF Inv
<1>2. /\ Running /\ pc # "finalizing" /\ pc = "executing"
      /\ outcome' = outcome /\ checkpoint' = checkpoint /\ beat' = beat /\ cuts' = cuts
         /\ faults' = faults
  BY DEF ToolRefused, StepOnly, boundVars, Running
<1>3. /\ ledger' \in Usage /\ NoMore(ledger, ledger') /\ NoMore(ledger', state.usage)
      /\ ledger.failures <= ledger'.failures
      /\ ledger'.cost \in {ledger.cost, state.usage.cost}
      /\ ledger'.toolCalls \in {ledger.toolCalls, state.usage.toolCalls}
  BY <1>1, <1>2, LedgerMoves DEF ToolRefused
<1>4. /\ pc' = "finalizing" /\ reason' \in {"quarantined", "rolling_budget"} /\ after' = after
         /\ guarded' = guarded /\ stale' = stale
      /\ state' = state
      /\ spent' = spent /\ started' = started /\ acted' = acted /\ done' = done
         /\ verdict' = verdict
  BY <1>1, <1>2, <1>3 DEF ToolRefused, Goto, Select, SaveThen, FailWithin, historyVars
<1>5. NoMore(state.usage, state'.usage)
  BY <1>1, <1>4, Fields DEF NoMore
<1>6. NoMore(ledger', state'.usage)
  BY <1>1, <1>3, <1>4, <1>5, Fields, UsageFields DEF NoMore
<1>7. TypeOK'
  BY <1>1, <1>2, <1>3, <1>4, Fields DEF TypeOK, PC, Labels, Outcomes
<1>8. Ledger'
  BY <1>1, <1>2, <1>3, <1>4, <1>5, <1>6, <1>7, LedgerKept
<1>9. WellFormed(state)'
  BY <1>1, <1>2, <1>3, <1>4, Fields DEF WellFormed
<1>10. Outcome' /\ Follows' /\ Saved'
  BY <1>1, <1>2, <1>3, <1>4, Fields DEF Outcome, Running, Follows, Saved
<1>11. Attempts'
  BY <1>1, <1>2, <1>3, <1>4, <1>7, AttemptsKept
<1>12. Charges'
  BY <1>1, <1>2, <1>3, <1>4, <1>7, ChargesKept
<1>13. WellFormed(checkpoint)' /\ Acted' /\ OnePlanPerIteration' /\ Completed'
  BY <1>1, <1>2, <1>3, <1>4, Fields DEF WellFormed, Acted, OnePlanPerIteration, Completed
<1> QED
  BY <1>7, <1>8, <1>9, <1>10, <1>11, <1>12, <1>13 DEF Inv

LEMMA SaveEvaluationInv ==
  ASSUME Inv, SaveEvaluation
  PROVE  Inv'
<1>1. TypeOK /\ Ledger /\ Outcome /\ WellFormed(state) /\ WellFormed(checkpoint)
      /\ Follows /\ Saved /\ Acted /\ OnePlanPerIteration /\ Attempts /\ Charges /\ Completed
  BY DEF Inv
<1>2. /\ Running /\ pc # "finalizing" /\ pc = "top" /\ state.phase = "checkpoint"
      /\ outcome' = outcome /\ checkpoint' = checkpoint /\ beat' = beat /\ cuts' = cuts
         /\ faults' = faults
  BY DEF SaveEvaluation, StepOnly, boundVars, Running
<1>3. /\ ledger' \in Usage /\ NoMore(ledger, ledger') /\ NoMore(ledger', state.usage)
      /\ ledger.failures <= ledger'.failures
      /\ ledger'.cost \in {ledger.cost, state.usage.cost}
      /\ ledger'.toolCalls \in {ledger.toolCalls, state.usage.toolCalls}
  BY <1>1, <1>2, LedgerMoves DEF SaveEvaluation
<1>4. /\ pc' = "saving" /\ after' = "decided" /\ reason' = reason /\ guarded' = guarded
         /\ stale' = stale
      /\ state' = state
      /\ spent' = spent /\ started' = started /\ acted' = acted /\ done' = done
         /\ verdict' = verdict
  BY <1>1, <1>2, <1>3 DEF SaveEvaluation, Goto, Select, SaveThen, FailWithin, historyVars
<1>5. NoMore(state.usage, state'.usage)
  BY <1>1, <1>4, Fields DEF NoMore
<1>6. NoMore(ledger', state'.usage)
  BY <1>1, <1>3, <1>4, <1>5, Fields, UsageFields DEF NoMore
<1>7. TypeOK'
  BY <1>1, <1>2, <1>3, <1>4, Fields DEF TypeOK, PC, Labels, Outcomes
<1>8. Ledger'
  BY <1>1, <1>2, <1>3, <1>4, <1>5, <1>6, <1>7, LedgerKept
<1>9. WellFormed(state)'
  BY <1>1, <1>2, <1>3, <1>4, Fields DEF WellFormed
<1>10. Outcome' /\ Follows' /\ Saved'
  BY <1>1, <1>2, <1>3, <1>4, Fields DEF Outcome, Running, Follows, Saved
<1>11. Attempts'
  BY <1>1, <1>2, <1>3, <1>4, <1>7, AttemptsKept
<1>12. Charges'
  BY <1>1, <1>2, <1>3, <1>4, <1>7, ChargesKept
<1>13. WellFormed(checkpoint)' /\ Acted' /\ OnePlanPerIteration' /\ Completed'
  BY <1>1, <1>2, <1>3, <1>4, Fields DEF WellFormed, Acted, OnePlanPerIteration, Completed
<1> QED
  BY <1>7, <1>8, <1>9, <1>10, <1>11, <1>12, <1>13 DEF Inv

LEMMA DecideInv ==
  ASSUME Inv, Decide
  PROVE  Inv'
<1>1. TypeOK /\ Ledger /\ Outcome /\ WellFormed(state) /\ WellFormed(checkpoint)
      /\ Follows /\ Saved /\ Acted /\ OnePlanPerIteration /\ Attempts /\ Charges /\ Completed
  BY DEF Inv
<1>2. /\ Running /\ pc # "finalizing" /\ pc = "top" /\ state.phase = "decide"
      /\ outcome' = outcome /\ checkpoint' = checkpoint /\ beat' = beat /\ cuts' = cuts
         /\ faults' = faults
  BY DEF Decide, StepOnly, boundVars, Running
<1>3. /\ ledger' \in Usage /\ NoMore(ledger, ledger') /\ NoMore(ledger', state.usage)
      /\ ledger.failures <= ledger'.failures
      /\ ledger'.cost \in {ledger.cost, state.usage.cost}
      /\ ledger'.toolCalls \in {ledger.toolCalls, state.usage.toolCalls}
  BY <1>1, <1>2, LedgerMoves DEF Decide
<1>4. CASE state.evaluation = "matched"
  <2>1. /\ pc' = "finalizing" /\ reason' = "completed" /\ after' = after
           /\ guarded' = guarded /\ stale' = stale
        /\ state' = state
        /\ spent' = spent /\ started' = started /\ acted' = acted /\ done' = done
           /\ verdict' = verdict
    BY <1>1, <1>2, <1>3, <1>4 DEF Decide, Goto, Select, SaveThen, FailWithin, historyVars
  <2>2. NoMore(state.usage, state'.usage)
    BY <1>1, <2>1, Fields DEF NoMore
  <2>3. NoMore(ledger', state'.usage)
    BY <1>1, <1>3, <2>1, <2>2, Fields, UsageFields DEF NoMore
  <2>4. TypeOK'
    BY <1>1, <1>2, <1>3, <1>4, <2>1, Fields DEF TypeOK, PC, Labels, Outcomes
  <2>5. Ledger'
    BY <1>1, <1>2, <1>3, <1>4, <2>1, <2>2, <2>3, <2>4, LedgerKept
  <2>6. WellFormed(state)'
    BY <1>1, <1>2, <1>3, <1>4, <2>1, Fields DEF WellFormed
  <2>7. Outcome' /\ Follows' /\ Saved'
    BY <1>1, <1>2, <1>3, <1>4, <2>1, Fields DEF Outcome, Running, Follows, Saved
  <2>8. WellFormed(checkpoint)' /\ Acted' /\ OnePlanPerIteration'
    BY <1>1, <1>2, <1>3, <1>4, <2>1, Fields DEF WellFormed, Acted, OnePlanPerIteration
  <2>9. Attempts'
    BY <1>1, <1>2, <1>3, <1>4, <2>1, <2>4, AttemptsKept
  <2>10. Charges'
    BY <1>1, <1>2, <1>3, <1>4, <2>1, <2>4, ChargesKept
  <2>11. Completed'
    BY <1>1, <1>2, <1>3, <1>4, <2>1 DEF Completed, Saved
  <2> QED
    BY <2>4, <2>5, <2>6, <2>7, <2>8, <2>9, <2>10, <2>11 DEF Inv
<1>5. CASE state.evaluation # "matched" /\ state.usage.iterations >= MaxIterations
  <2>1. /\ pc' = "finalizing" /\ reason' = "iteration_limit" /\ after' = after
           /\ guarded' = guarded /\ stale' = stale
        /\ state' = state
        /\ spent' = spent /\ started' = started /\ acted' = acted /\ done' = done
           /\ verdict' = verdict
    BY <1>1, <1>2, <1>3, <1>5 DEF Decide, Goto, Select, SaveThen, FailWithin, historyVars
  <2>2. NoMore(state.usage, state'.usage)
    BY <1>1, <2>1, Fields DEF NoMore
  <2>3. NoMore(ledger', state'.usage)
    BY <1>1, <1>3, <2>1, <2>2, Fields, UsageFields DEF NoMore
  <2>4. TypeOK'
    BY <1>1, <1>2, <1>3, <1>5, <2>1, Fields DEF TypeOK, PC, Labels, Outcomes
  <2>5. Ledger'
    BY <1>1, <1>2, <1>3, <1>5, <2>1, <2>2, <2>3, <2>4, LedgerKept
  <2>6. WellFormed(state)'
    BY <1>1, <1>2, <1>3, <1>5, <2>1, Fields DEF WellFormed
  <2>7. Outcome' /\ Follows' /\ Saved'
    BY <1>1, <1>2, <1>3, <1>5, <2>1, Fields DEF Outcome, Running, Follows, Saved
  <2>8. Attempts'
    BY <1>1, <1>2, <1>3, <1>5, <2>1, <2>4, AttemptsKept
  <2>9. Charges'
    BY <1>1, <1>2, <1>3, <1>5, <2>1, <2>4, ChargesKept
  <2>10. WellFormed(checkpoint)' /\ Acted' /\ OnePlanPerIteration' /\ Completed'
    BY <1>1, <1>2, <1>3, <1>5, <2>1, Fields DEF WellFormed, Acted, OnePlanPerIteration,
       Completed
  <2> QED
    BY <2>4, <2>5, <2>6, <2>7, <2>8, <2>9, <2>10 DEF Inv
<1>6. CASE state.evaluation # "matched" /\ ~(state.usage.iterations >= MaxIterations)
  <2>1. /\ pc' = "saving" /\ after' = "top" /\ reason' = reason /\ guarded' = guarded
           /\ stale' = stale
        /\ state' = Reopened(state)
        /\ spent' = spent /\ started' = started /\ acted' = acted /\ done' = done
           /\ verdict' = verdict
    BY <1>1, <1>2, <1>3, <1>6 DEF Decide, Goto, Select, SaveThen, FailWithin, historyVars
  <2>2. /\ state' \in State
        /\ state'.phase = "plan" /\ state'.open = FALSE /\ state'.iteration = state.iteration
        /\ state'.action = 0 /\ state'.plan = state.plan /\ state'.evaluation = state.evaluation
        /\ state'.usage.iterations = state.usage.iterations
           /\ state'.usage.cost = state.usage.cost
        /\ state'.usage.toolCalls = state.usage.toolCalls
           /\ state'.usage.failures = state.usage.failures
    BY <1>1, <2>1, Fields, ReopenedIs
  <2>3. NoMore(state.usage, state'.usage)
    BY <1>1, <2>1, <2>2, Fields DEF NoMore
  <2>4. NoMore(ledger', state'.usage)
    BY <1>1, <1>3, <2>1, <2>2, <2>3, Fields, UsageFields DEF NoMore
  <2>5. TypeOK'
    BY <1>1, <1>2, <1>3, <1>6, <2>2, <2>1, Fields DEF TypeOK, PC, Labels, Outcomes
  <2>6. Ledger'
    BY <1>1, <1>2, <1>3, <1>6, <2>2, <2>1, <2>3, <2>4, <2>5, LedgerKept
  <2>7. WellFormed(state)'
    BY <1>1, <1>2, <1>3, <1>6, <2>2, <2>1, Fields DEF WellFormed
  <2>8. Outcome' /\ Follows' /\ Saved'
    BY <1>1, <1>2, <1>3, <1>6, <2>2, <2>1, Fields DEF Outcome, Running, Follows, Saved
  <2>9. Attempts'
    BY <1>1, <1>2, <1>3, <1>6, <2>2, <2>1, <2>5, AttemptsKept
  <2>10. Charges'
    BY <1>1, <1>2, <1>3, <1>6, <2>2, <2>1, <2>5, ChargesKept
  <2>11. WellFormed(checkpoint)' /\ Acted' /\ OnePlanPerIteration' /\ Completed'
    BY <1>1, <1>2, <1>3, <1>6, <2>2, <2>1, Fields DEF WellFormed, Acted,
       OnePlanPerIteration, Completed
  <2> QED
    BY <2>5, <2>6, <2>7, <2>8, <2>9, <2>10, <2>11 DEF Inv
<1> QED
  BY <1>4, <1>5, <1>6

LEMMA SaveLandsInv ==
  ASSUME Inv, SaveLands
  PROVE  Inv'
<1>1. TypeOK /\ Ledger /\ Outcome /\ WellFormed(state) /\ WellFormed(checkpoint)
      /\ Follows /\ Saved /\ Acted /\ OnePlanPerIteration /\ Attempts /\ Charges /\ Completed
  BY DEF Inv
<1>2. /\ Running /\ pc = "saving" /\ Persist /\ outcome' = outcome /\ beat' = beat
      /\ cuts' = cuts /\ faults' = faults /\ after' = after /\ guarded' = guarded
      /\ reason' = reason /\ stale' = stale
      /\ spent' = spent /\ started' = started /\ acted' = acted /\ done' = done
         /\ verdict' = verdict
  BY DEF SaveLands, Goto, Quiet, historyVars, boundVars, Running
<1>3. /\ pc' \in {"planning", "emitting", "backoff", "top"}
      /\ \/ state' = state /\ pc' = after /\ after # "decided"
         \/ state' = Decided(state) /\ pc' = "emitting" /\ after = "decided"
  <2>1. after \in {"planning", "emitting", "decided", "backoff", "top"}
    BY <1>1, <1>2 DEF Saved
  <2>2. CASE after = "decided"
    BY <2>2 DEF SaveLands, Goto
  <2>3. CASE after # "decided"
    BY <2>1, <2>3 DEF SaveLands, Goto
  <2> QED
    BY <2>2, <2>3
<1>4. /\ state' \in State /\ state'.open = state.open /\ state'.iteration = state.iteration
      /\ state'.action = state.action /\ state'.plan = state.plan
      /\ state'.evaluation = state.evaluation
      /\ state'.usage.iterations = state.usage.iterations
      /\ state'.usage.cost = state.usage.cost
      /\ state'.usage.toolCalls = state.usage.toolCalls
      /\ after = "decided" => state.phase = "checkpoint" /\ state'.phase = "decide"
      /\ after # "decided" => state' = state
  BY <1>1, <1>2, <1>3, Fields, DecidedIs DEF Saved
<1>5. /\ checkpoint' \in State /\ ledger' = state.usage /\ checkpoint'.usage = state.usage
      /\ ledger' \in Usage /\ checkpoint'.iteration = state.iteration
      /\ checkpoint'.plan = IF state.plan = NoPlan THEN NoPlan ELSE Redacted[state.plan]
      /\ checkpoint'.phase = IF state.phase = "checkpoint" /\ after # "backoff" THEN "decide"
                             ELSE state.phase
  BY <1>1, <1>2, PersistIs
<1>6. state.plan # NoPlan => /\ state.plan \in Plans /\ Redacted[state.plan] # NoPlan
                             /\ Redacted[Redacted[state.plan]] = Redacted[state.plan]
  <2>1. state.plan \in Plans \union {NoPlan}
    BY <1>1, Fields
  <2>2. ASSUME NEW p \in Plans
        PROVE  Redacted[p] # NoPlan /\ Redacted[Redacted[p]] = Redacted[p]
    BY PlanAssumption DEF NoPlan
  <2> QED
    BY <2>1, <2>2
<1>7. TypeOK'
  BY <1>1, <1>2, <1>3, <1>4, <1>5 DEF TypeOK, PC
<1>8. Ledger'
  BY <1>1, <1>2, <1>3, <1>4, <1>5, Fields DEF Ledger, NoMore
<1>9. Outcome'
  BY <1>1, <1>2, <1>3 DEF Outcome, Running
<1>10. WellFormed(state)'
  BY <1>1, <1>2, <1>3, <1>4, Fields DEF WellFormed
<1>11. WellFormed(checkpoint)' /\ Acted'
  BY <1>2, LandedIs
<1>12. Follows'
  BY <1>4, <1>5, <1>6 DEF Follows
<1>13. Saved'
  <2>1. CASE after = "decided"
    BY <1>1, <1>2, <1>3, <1>4, <1>5, <1>6, <2>1 DEF Saved
  <2>2. CASE after # "decided"
    BY <1>1, <1>2, <1>3, <1>4, <1>5, <1>6, <2>2 DEF Saved
  <2> QED
    BY <2>1, <2>2
<1>14. OnePlanPerIteration'
  BY <1>1, <1>2 DEF OnePlanPerIteration
<1>15. Attempts'
  BY <1>1, <1>2, <1>3, <1>4, <1>5, <1>7, AttemptsKept
<1>16. Charges'
  <2>1. state.usage.cost <= ledger'.cost
    BY <1>1, <1>5, Fields
  <2> QED
    BY <1>1, <1>2, <1>3, <1>4, <1>5, <1>7, <2>1, ChargesKept
<1>17. Completed'
  BY <1>1, <1>2, <1>3 DEF Completed, Outcome
<1> QED
  BY <1>7, <1>8, <1>9, <1>10, <1>11, <1>12, <1>13, <1>14, <1>15, <1>16, <1>17 DEF Inv

LEMMA EmittedInv ==
  ASSUME Inv, Emitted
  PROVE  Inv'
<1>1. TypeOK /\ Ledger /\ Outcome /\ WellFormed(state) /\ WellFormed(checkpoint)
      /\ Follows /\ Saved /\ Acted /\ OnePlanPerIteration /\ Attempts /\ Charges /\ Completed
  BY DEF Inv
<1>2. /\ Running /\ pc # "finalizing" /\ pc = "emitting"
      /\ outcome' = outcome /\ checkpoint' = checkpoint /\ beat' = beat /\ cuts' = cuts
         /\ faults' = faults
  BY DEF Emitted, StepOnly, boundVars, Running
<1>3. /\ ledger' \in Usage /\ NoMore(ledger, ledger') /\ NoMore(ledger', state.usage)
      /\ ledger.failures <= ledger'.failures
      /\ ledger'.cost \in {ledger.cost, state.usage.cost}
      /\ ledger'.toolCalls \in {ledger.toolCalls, state.usage.toolCalls}
  BY <1>1, <1>2, LedgerMoves DEF Emitted
<1>4. CASE state.phase = "checkpoint"
  <2>1. /\ pc' = "emitting" /\ after' = after /\ reason' = reason /\ guarded' = guarded
           /\ stale' = stale
        /\ state' = Decided(state)
        /\ spent' = spent /\ started' = started /\ acted' = acted /\ done' = done
           /\ verdict' = verdict
    BY <1>1, <1>2, <1>3, <1>4 DEF Emitted, Goto, Select, SaveThen, FailWithin, historyVars
  <2>2. /\ state' \in State
        /\ state'.phase = "decide" /\ state'.open = state.open
           /\ state'.iteration = state.iteration
        /\ state'.action = state.action /\ state'.plan = state.plan
           /\ state'.evaluation = state.evaluation
        /\ state'.usage.iterations = state.usage.iterations
           /\ state'.usage.cost = state.usage.cost
        /\ state'.usage.toolCalls = state.usage.toolCalls /\ state'.usage.failures = 0
    BY <1>1, <2>1, Fields, DecidedIs
  <2>3. NoMore(state.usage, state'.usage)
    BY <1>1, <2>1, <2>2, Fields DEF NoMore
  <2>4. NoMore(ledger', state'.usage)
    BY <1>1, <1>3, <2>1, <2>2, <2>3, Fields, UsageFields DEF NoMore
  <2>5. TypeOK'
    BY <1>1, <1>2, <1>3, <1>4, <2>2, <2>1, Fields DEF TypeOK, PC, Labels, Outcomes
  <2>6. Ledger'
    BY <1>1, <1>2, <1>3, <1>4, <2>2, <2>1, <2>3, <2>4, <2>5, LedgerKept
  <2>7. WellFormed(state)'
    BY <1>1, <1>2, <1>3, <1>4, <2>2, <2>1, Fields DEF WellFormed
  <2>8. Outcome' /\ Follows' /\ Saved'
    BY <1>1, <1>2, <1>3, <1>4, <2>2, <2>1, Fields DEF Outcome, Running, Follows, Saved
  <2>9. Attempts'
    BY <1>1, <1>2, <1>3, <1>4, <2>2, <2>1, <2>5, AttemptsKept
  <2>10. Charges'
    BY <1>1, <1>2, <1>3, <1>4, <2>2, <2>1, <2>5, ChargesKept
  <2>11. WellFormed(checkpoint)' /\ Acted' /\ OnePlanPerIteration' /\ Completed'
    BY <1>1, <1>2, <1>3, <1>4, <2>2, <2>1, Fields DEF WellFormed, Acted,
       OnePlanPerIteration, Completed
  <2> QED
    BY <2>5, <2>6, <2>7, <2>8, <2>9, <2>10, <2>11 DEF Inv
<1>5. CASE state.phase # "checkpoint"
  <2>1. /\ pc' = "top" /\ after' = after /\ reason' = reason /\ guarded' = guarded
           /\ stale' = stale
        /\ state' = state
        /\ spent' = spent /\ started' = started /\ acted' = acted /\ done' = done
           /\ verdict' = verdict
    BY <1>1, <1>2, <1>3, <1>5 DEF Emitted, Goto, Select, SaveThen, FailWithin, historyVars
  <2>2. NoMore(state.usage, state'.usage)
    BY <1>1, <2>1, Fields DEF NoMore
  <2>3. NoMore(ledger', state'.usage)
    BY <1>1, <1>3, <2>1, <2>2, Fields, UsageFields DEF NoMore
  <2>4. TypeOK'
    BY <1>1, <1>2, <1>3, <1>5, <2>1, Fields DEF TypeOK, PC, Labels, Outcomes
  <2>5. Ledger'
    BY <1>1, <1>2, <1>3, <1>5, <2>1, <2>2, <2>3, <2>4, LedgerKept
  <2>6. WellFormed(state)'
    BY <1>1, <1>2, <1>3, <1>5, <2>1, Fields DEF WellFormed
  <2>7. Outcome' /\ Follows' /\ Saved'
    BY <1>1, <1>2, <1>3, <1>5, <2>1, Fields DEF Outcome, Running, Follows, Saved
  <2>8. Attempts'
    BY <1>1, <1>2, <1>3, <1>5, <2>1, <2>4, AttemptsKept
  <2>9. Charges'
    BY <1>1, <1>2, <1>3, <1>5, <2>1, <2>4, ChargesKept
  <2>10. WellFormed(checkpoint)' /\ Acted' /\ OnePlanPerIteration' /\ Completed'
    BY <1>1, <1>2, <1>3, <1>5, <2>1, Fields DEF WellFormed, Acted, OnePlanPerIteration,
       Completed
  <2> QED
    BY <2>4, <2>5, <2>6, <2>7, <2>8, <2>9, <2>10 DEF Inv
<1> QED
  BY <1>4, <1>5

LEMMA FailPhaseInv ==
  ASSUME Inv, FailPhase
  PROVE  Inv'
<1>1. TypeOK /\ Ledger /\ Outcome /\ WellFormed(state) /\ WellFormed(checkpoint)
      /\ Follows /\ Saved /\ Acted /\ OnePlanPerIteration /\ Attempts /\ Charges /\ Completed
  BY DEF Inv
<1>2. /\ Running /\ pc # "finalizing" /\ pc = "failing"
      /\ outcome' = outcome /\ checkpoint' = checkpoint /\ beat' = beat /\ cuts' = cuts
         /\ faults' = faults
  BY DEF FailPhase, StepOnly, boundVars, Running
<1>3. /\ ledger' \in Usage /\ NoMore(ledger, ledger') /\ NoMore(ledger', state.usage)
      /\ ledger.failures <= ledger'.failures
      /\ ledger'.cost \in {ledger.cost, state.usage.cost}
      /\ ledger'.toolCalls \in {ledger.toolCalls, state.usage.toolCalls}
  BY <1>1, <1>2, LedgerMoves DEF FailPhase
<1>4. CASE Failed(state).usage.failures >= MaxFailures
  <2>1. /\ pc' = "finalizing" /\ reason' = "failed" /\ after' = after
           /\ guarded' = guarded /\ stale' = stale
        /\ state' = Failed(state)
        /\ spent' = spent /\ started' = started /\ acted' = acted /\ done' = done
           /\ verdict' = verdict
    BY <1>1, <1>2, <1>3, <1>4 DEF FailPhase, Goto, Select, SaveThen, FailWithin, historyVars
  <2>2. /\ state' \in State
        /\ state'.phase = state.phase /\ state'.open = state.open
           /\ state'.iteration = state.iteration
        /\ state'.action = state.action /\ state'.plan = state.plan
           /\ state'.evaluation = state.evaluation
        /\ state'.usage.iterations = state.usage.iterations
           /\ state'.usage.cost = state.usage.cost
        /\ state'.usage.toolCalls = state.usage.toolCalls
           /\ state'.usage.failures = state.usage.failures + 1
    BY <1>1, <2>1, Fields, FailedIs
  <2>3. NoMore(state.usage, state'.usage)
    BY <1>1, <2>1, <2>2, Fields DEF NoMore
  <2>4. NoMore(ledger', state'.usage)
    BY <1>1, <1>3, <2>1, <2>2, <2>3, Fields, UsageFields DEF NoMore
  <2>5. TypeOK'
    BY <1>1, <1>2, <1>3, <1>4, <2>2, <2>1, Fields DEF TypeOK, PC, Labels, Outcomes
  <2>6. Ledger'
    BY <1>1, <1>2, <1>3, <1>4, <2>2, <2>1, <2>3, <2>4, <2>5, LedgerKept
  <2>7. WellFormed(state)'
    BY <1>1, <1>2, <1>3, <1>4, <2>2, <2>1, Fields DEF WellFormed
  <2>8. Outcome' /\ Follows' /\ Saved'
    BY <1>1, <1>2, <1>3, <1>4, <2>2, <2>1, Fields DEF Outcome, Running, Follows, Saved
  <2>9. Attempts'
    BY <1>1, <1>2, <1>3, <1>4, <2>2, <2>1, <2>5, AttemptsKept
  <2>10. Charges'
    BY <1>1, <1>2, <1>3, <1>4, <2>2, <2>1, <2>5, ChargesKept
  <2>11. WellFormed(checkpoint)' /\ Acted' /\ OnePlanPerIteration' /\ Completed'
    BY <1>1, <1>2, <1>3, <1>4, <2>2, <2>1, Fields DEF WellFormed, Acted,
       OnePlanPerIteration, Completed
  <2> QED
    BY <2>5, <2>6, <2>7, <2>8, <2>9, <2>10, <2>11 DEF Inv
<1>5. CASE ~(Failed(state).usage.failures >= MaxFailures)
  <2>1. /\ pc' = "saving" /\ after' = "backoff" /\ reason' = reason
           /\ guarded' = guarded /\ stale' = stale
        /\ state' = Failed(state)
        /\ spent' = spent /\ started' = started /\ acted' = acted /\ done' = done
           /\ verdict' = verdict
    BY <1>1, <1>2, <1>3, <1>5 DEF FailPhase, Goto, Select, SaveThen, FailWithin, historyVars
  <2>2. /\ state' \in State
        /\ state'.phase = state.phase /\ state'.open = state.open
           /\ state'.iteration = state.iteration
        /\ state'.action = state.action /\ state'.plan = state.plan
           /\ state'.evaluation = state.evaluation
        /\ state'.usage.iterations = state.usage.iterations
           /\ state'.usage.cost = state.usage.cost
        /\ state'.usage.toolCalls = state.usage.toolCalls
           /\ state'.usage.failures = state.usage.failures + 1
    BY <1>1, <2>1, Fields, FailedIs
  <2>3. NoMore(state.usage, state'.usage)
    BY <1>1, <2>1, <2>2, Fields DEF NoMore
  <2>4. NoMore(ledger', state'.usage)
    BY <1>1, <1>3, <2>1, <2>2, <2>3, Fields, UsageFields DEF NoMore
  <2>5. TypeOK'
    BY <1>1, <1>2, <1>3, <1>5, <2>2, <2>1, Fields DEF TypeOK, PC, Labels, Outcomes
  <2>6. Ledger'
    BY <1>1, <1>2, <1>3, <1>5, <2>2, <2>1, <2>3, <2>4, <2>5, LedgerKept
  <2>7. WellFormed(state)'
    BY <1>1, <1>2, <1>3, <1>5, <2>2, <2>1, Fields DEF WellFormed
  <2>8. Outcome' /\ Follows' /\ Saved'
    BY <1>1, <1>2, <1>3, <1>5, <2>2, <2>1, Fields DEF Outcome, Running, Follows, Saved
  <2>9. Attempts'
    BY <1>1, <1>2, <1>3, <1>5, <2>2, <2>1, <2>5, AttemptsKept
  <2>10. Charges'
    BY <1>1, <1>2, <1>3, <1>5, <2>2, <2>1, <2>5, ChargesKept
  <2>11. WellFormed(checkpoint)' /\ Acted' /\ OnePlanPerIteration' /\ Completed'
    BY <1>1, <1>2, <1>3, <1>5, <2>2, <2>1, Fields DEF WellFormed, Acted,
       OnePlanPerIteration, Completed
  <2> QED
    BY <2>5, <2>6, <2>7, <2>8, <2>9, <2>10, <2>11 DEF Inv
<1> QED
  BY <1>4, <1>5

LEMMA BackoffEndsInv ==
  ASSUME Inv, BackoffEnds
  PROVE  Inv'
<1>1. TypeOK /\ Ledger /\ Outcome /\ WellFormed(state) /\ WellFormed(checkpoint)
      /\ Follows /\ Saved /\ Acted /\ OnePlanPerIteration /\ Attempts /\ Charges /\ Completed
  BY DEF Inv
<1>2. /\ Running /\ pc # "finalizing" /\ pc = "backoff"
      /\ outcome' = outcome /\ checkpoint' = checkpoint /\ beat' = beat /\ cuts' = cuts
         /\ faults' = faults
  BY DEF BackoffEnds, StepOnly, boundVars, Running
<1>3. /\ ledger' \in Usage /\ NoMore(ledger, ledger') /\ NoMore(ledger', state.usage)
      /\ ledger.failures <= ledger'.failures
      /\ ledger'.cost \in {ledger.cost, state.usage.cost}
      /\ ledger'.toolCalls \in {ledger.toolCalls, state.usage.toolCalls}
  BY <1>1, <1>2, LedgerMoves DEF BackoffEnds
<1>4. /\ pc' = "top" /\ after' = after /\ reason' = reason /\ guarded' = guarded
         /\ stale' = stale
      /\ state' = state
      /\ spent' = spent /\ started' = started /\ acted' = acted /\ done' = done
         /\ verdict' = verdict
  BY <1>1, <1>2, <1>3 DEF BackoffEnds, Goto, Select, SaveThen, FailWithin, historyVars
<1>5. NoMore(state.usage, state'.usage)
  BY <1>1, <1>4, Fields DEF NoMore
<1>6. NoMore(ledger', state'.usage)
  BY <1>1, <1>3, <1>4, <1>5, Fields, UsageFields DEF NoMore
<1>7. TypeOK'
  BY <1>1, <1>2, <1>3, <1>4, Fields DEF TypeOK, PC, Labels, Outcomes
<1>8. Ledger'
  BY <1>1, <1>2, <1>3, <1>4, <1>5, <1>6, <1>7, LedgerKept
<1>9. WellFormed(state)'
  BY <1>1, <1>2, <1>3, <1>4, Fields DEF WellFormed
<1>10. Outcome' /\ Follows' /\ Saved'
  BY <1>1, <1>2, <1>3, <1>4, Fields DEF Outcome, Running, Follows, Saved
<1>11. Attempts'
  BY <1>1, <1>2, <1>3, <1>4, <1>7, AttemptsKept
<1>12. Charges'
  BY <1>1, <1>2, <1>3, <1>4, <1>7, ChargesKept
<1>13. WellFormed(checkpoint)' /\ Acted' /\ OnePlanPerIteration' /\ Completed'
  BY <1>1, <1>2, <1>3, <1>4, Fields DEF WellFormed, Acted, OnePlanPerIteration, Completed
<1> QED
  BY <1>7, <1>8, <1>9, <1>10, <1>11, <1>12, <1>13 DEF Inv

LEMMA StoreFailsInv ==
  ASSUME Inv, StoreFails
  PROVE  Inv'
<1>1. TypeOK /\ Ledger /\ Outcome /\ WellFormed(state) /\ WellFormed(checkpoint)
      /\ Follows /\ Saved /\ Acted /\ OnePlanPerIteration /\ Attempts /\ Charges /\ Completed
  BY DEF Inv
<1>2. /\ Running /\ pc # "finalizing" /\ pc \in {"top", "emitting", "failing", "backoff"}
      /\ outcome' = outcome /\ checkpoint' = checkpoint /\ beat' = beat /\ cuts' = cuts
         /\ faults' = faults + 1
  BY DEF StoreFails, Fault, recordVars, boundVars, Running
<1>3. /\ ledger' \in Usage /\ NoMore(ledger, ledger') /\ NoMore(ledger', state.usage)
      /\ ledger.failures <= ledger'.failures
      /\ ledger'.cost \in {ledger.cost, state.usage.cost}
      /\ ledger'.toolCalls \in {ledger.toolCalls, state.usage.toolCalls}
  BY <1>1, <1>2, LedgerMoves DEF StoreFails, recordVars
<1>4. Greater(state.usage.failures, MaxFailures) \in Nat
  BY <1>1, Fields, LimitAssumption DEF Greater
<1>5. faults' \in Nat
  BY <1>1, <1>2 DEF TypeOK
<1>6. CASE pc = "emitting" \/ (pc # "top" /\ guarded)
  <2>1. /\ pc' = "failing" /\ guarded' = FALSE /\ after' = after /\ reason' = reason
           /\ stale' = stale
        /\ state' = state
        /\ spent' = spent /\ started' = started /\ acted' = acted /\ done' = done
           /\ verdict' = verdict
    BY <1>1, <1>2, <1>3, <1>4, <1>5, <1>6 DEF StoreFails, Goto, Select, SaveThen,
       FailWithin, historyVars
  <2>2. NoMore(state.usage, state'.usage)
    BY <1>1, <2>1, Fields DEF NoMore
  <2>3. NoMore(ledger', state'.usage)
    BY <1>1, <1>3, <2>1, <2>2, Fields, UsageFields DEF NoMore
  <2>4. TypeOK'
    <3>1. pc' \in PC /\ guarded' \in BOOLEAN
      BY <2>1 DEF PC
    <3> QED
      BY <1>1, <1>2, <1>3, <1>5, <2>1, <3>1 DEF TypeOK
  <2>5. Ledger'
    BY <1>1, <1>2, <1>3, <1>4, <1>5, <1>6, <2>1, <2>2, <2>3, <2>4, LedgerKept
  <2>6. WellFormed(state)'
    BY <1>1, <1>2, <1>3, <1>4, <1>5, <1>6, <2>1, Fields DEF WellFormed
  <2>7. Outcome' /\ Follows' /\ Saved'
    BY <1>1, <1>2, <1>3, <1>4, <1>5, <1>6, <2>1, Fields DEF Outcome, Running, Follows, Saved
  <2>8. Attempts'
    BY <1>1, <1>2, <1>3, <1>4, <1>5, <1>6, <2>1, <2>4, AttemptsKept
  <2>9. Charges'
    BY <1>1, <1>2, <1>3, <1>4, <1>5, <1>6, <2>1, <2>4, ChargesKept
  <2>10. WellFormed(checkpoint)' /\ Acted' /\ OnePlanPerIteration' /\ Completed'
    BY <1>1, <1>2, <1>3, <1>4, <1>5, <1>6, <2>1, Fields DEF WellFormed, Acted,
       OnePlanPerIteration, Completed
  <2> QED
    BY <2>4, <2>5, <2>6, <2>7, <2>8, <2>9, <2>10 DEF Inv
<1>7. CASE ~(pc = "emitting" \/ (pc # "top" /\ guarded))
  <2>1. /\ pc' = "finalizing" /\ reason' = "failed" /\ after' = after
           /\ guarded' = guarded /\ stale' = stale
        /\ state' = [state EXCEPT !.usage.failures = Greater(state.usage.failures, MaxFailures)]
        /\ spent' = spent /\ started' = started /\ acted' = acted /\ done' = done
           /\ verdict' = verdict
    BY <1>1, <1>2, <1>3, <1>4, <1>5, <1>7 DEF StoreFails, Goto, Select, SaveThen,
       FailWithin, historyVars
  <2>2. /\ state' \in State
        /\ state'.phase = state.phase /\ state'.open = state.open
           /\ state'.iteration = state.iteration
        /\ state'.action = state.action /\ state'.plan = state.plan
           /\ state'.evaluation = state.evaluation
        /\ state'.usage.iterations = state.usage.iterations
           /\ state'.usage.cost = state.usage.cost
        /\ state'.usage.toolCalls = state.usage.toolCalls
           /\ state'.usage.failures = Greater(state.usage.failures, MaxFailures)
    <3>1. /\ state' = [state EXCEPT !.usage.failures = Greater(state.usage.failures, MaxFailures)]
          /\ state \in State /\ Greater(state.usage.failures, MaxFailures) \in Nat
      BY <1>1, <1>4, <2>1, Fields
    <3> QED
      BY <3>1, FailuresAre
  <2>3. NoMore(state.usage, state'.usage)
    BY <1>1, <2>1, <2>2, Fields DEF NoMore
  <2>4. NoMore(ledger', state'.usage)
    BY <1>1, <1>3, <2>1, <2>2, <2>3, Fields, UsageFields DEF NoMore
  <2>5. TypeOK'
    BY <1>1, <1>2, <1>3, <1>4, <1>5, <1>7, <2>2, <2>1, Fields DEF TypeOK, PC, Labels, Outcomes
  <2>6. Ledger'
    BY <1>1, <1>2, <1>3, <1>4, <1>5, <1>7, <2>2, <2>1, <2>3, <2>4, <2>5, LedgerKept
  <2>7. WellFormed(state)'
    BY <1>1, <1>2, <1>3, <1>4, <1>5, <1>7, <2>2, <2>1, Fields DEF WellFormed
  <2>8. Outcome' /\ Follows' /\ Saved'
    BY <1>1, <1>2, <1>3, <1>4, <1>5, <1>7, <2>2, <2>1, Fields DEF Outcome, Running,
       Follows, Saved
  <2>9. Attempts'
    BY <1>1, <1>2, <1>3, <1>4, <1>5, <1>7, <2>2, <2>1, <2>5, AttemptsKept
  <2>10. Charges'
    BY <1>1, <1>2, <1>3, <1>4, <1>5, <1>7, <2>2, <2>1, <2>5, ChargesKept
  <2>11. WellFormed(checkpoint)' /\ Acted' /\ OnePlanPerIteration' /\ Completed'
    BY <1>1, <1>2, <1>3, <1>4, <1>5, <1>7, <2>2, <2>1, Fields DEF WellFormed, Acted,
       OnePlanPerIteration, Completed
  <2> QED
    BY <2>5, <2>6, <2>7, <2>8, <2>9, <2>10, <2>11 DEF Inv
<1> QED
  BY <1>6, <1>7

LEMMA InterruptedInv ==
  ASSUME Inv, Interrupted
  PROVE  Inv'
<1>1. TypeOK /\ Ledger /\ Outcome /\ WellFormed(state) /\ WellFormed(checkpoint)
      /\ Follows /\ Saved /\ Acted /\ OnePlanPerIteration /\ Attempts /\ Charges /\ Completed
  BY DEF Inv
<1>2. /\ Running /\ pc' = "idle" /\ beat' = {} /\ cuts' = cuts + 1 /\ faults' = faults
      /\ outcome' = outcome /\ state' = state /\ reason' = reason /\ after' = after
      /\ guarded' = guarded /\ stale' = stale
      /\ spent' = spent /\ started' = started /\ acted' = acted /\ done' = done
         /\ verdict' = verdict
  BY DEF Interrupted, Cut, historyVars, Running
<1>3. \/ pc = "saving" /\ Persist
      \/ ledger' = ledger /\ checkpoint' = checkpoint
  BY DEF Interrupted
<1>4. /\ checkpoint' \in State /\ ledger' \in Usage
      /\ ledger' = ledger \/ ledger' = state.usage
  BY <1>1, <1>3, PersistIs, Fields
<1>5. TypeOK'
  BY <1>1, <1>2, <1>4 DEF TypeOK, PC
<1>6. Ledger'
  <2>1. CASE pc = "saving" /\ Persist
    BY <1>1, <1>2, <2>1, PersistIs, Fields DEF Ledger, NoMore, Running
  <2>2. CASE ledger' = ledger /\ checkpoint' = checkpoint
    BY <1>1, <1>2, <2>2 DEF Ledger, Running
  <2> QED
    BY <1>3, <2>1, <2>2
<1>7. Outcome'
  BY <1>1, <1>2 DEF Outcome, Running
<1>8. WellFormed(state)'
  BY <1>1, <1>2 DEF WellFormed
<1>9. WellFormed(checkpoint)' /\ Acted'
  <2>1. CASE pc = "saving" /\ Persist
    BY <1>2, <2>1, LandedIs
  <2>2. CASE ledger' = ledger /\ checkpoint' = checkpoint
    BY <1>1, <1>2, <2>2 DEF WellFormed, Acted
  <2> QED
    BY <1>3, <2>1, <2>2
<1>10. Follows' /\ Saved'
  BY <1>2 DEF Follows, Saved, Running
<1>11. OnePlanPerIteration'
  BY <1>1, <1>2 DEF OnePlanPerIteration
<1>12. Attempts' /\ Charges'
  BY <1>2, <1>4, <1>5, CutIs
<1>13. Completed'
  BY <1>1, <1>2 DEF Completed, Outcome
<1> QED
  BY <1>5, <1>6, <1>7, <1>8, <1>9, <1>10, <1>11, <1>12, <1>13 DEF Inv

LEMMA BoundReachedInv ==
  ASSUME Inv, BoundReached
  PROVE  Inv'
<1>1. TypeOK /\ Ledger /\ Outcome /\ WellFormed(state) /\ WellFormed(checkpoint)
      /\ Follows /\ Saved /\ Acted /\ OnePlanPerIteration /\ Attempts /\ Charges /\ Completed
  BY DEF Inv
<1>2. /\ Running /\ Running' /\ pc # "finalizing" /\ pc' = "finalizing"
      /\ reason' \in {"elapsed_time", "cancelled"} /\ cuts' = cuts + 1 /\ faults' = faults
      /\ outcome' = outcome /\ state' = state /\ beat' = beat /\ after' = after
      /\ guarded' = guarded
      /\ spent' = spent /\ started' = started /\ acted' = acted /\ done' = done
         /\ verdict' = verdict
  BY DEF BoundReached, Cut, historyVars, Running
<1>3. \/ pc = "saving" /\ Persist /\ stale' = TRUE
      \/ ledger' = ledger /\ checkpoint' = checkpoint /\ stale' = FALSE
  BY <1>1, <1>2 DEF BoundReached, Outcome, TypeOK, Running
<1>4. /\ checkpoint' \in State /\ ledger' \in Usage /\ stale' \in BOOLEAN
      /\ ledger' = ledger \/ ledger' = state.usage
      /\ stale' => ledger' = state.usage
  BY <1>1, <1>3, PersistIs, Fields
<1>5. TypeOK'
  BY <1>1, <1>2, <1>4 DEF TypeOK, PC, Outcomes
<1>6. Ledger'
  <2>1. CASE pc = "saving" /\ Persist
    BY <1>1, <1>2, <2>1, PersistIs, Fields DEF Ledger, NoMore
  <2>2. CASE ledger' = ledger /\ checkpoint' = checkpoint
    BY <1>1, <1>2, <2>2 DEF Ledger
  <2> QED
    BY <1>3, <2>1, <2>2
<1>7. Outcome'
  BY <1>1, <1>2 DEF Outcome, Running
<1>8. WellFormed(state)'
  BY <1>1, <1>2 DEF WellFormed
<1>9. WellFormed(checkpoint)' /\ Acted'
  <2>1. CASE pc = "saving" /\ Persist
    BY <1>2, <2>1, LandedIs
  <2>2. CASE ledger' = ledger /\ checkpoint' = checkpoint
    BY <1>1, <1>2, <2>2 DEF WellFormed, Acted
  <2> QED
    BY <1>3, <2>1, <2>2
<1>10. Follows'
  <2>1. CASE pc = "saving" /\ Persist
    <3>1. state.plan # NoPlan =>
              /\ state.plan \in Plans /\ Redacted[Redacted[state.plan]] = Redacted[state.plan]
      BY <1>1, Fields, PlanAssumption
    <3> QED
      BY <1>1, <1>2, <2>1, <3>1, PersistIs DEF Follows
  <2>2. CASE ledger' = ledger /\ checkpoint' = checkpoint
    BY <1>1, <1>2, <2>2 DEF Follows
  <2> QED
    BY <1>3, <2>1, <2>2
<1>11. Saved' /\ OnePlanPerIteration'
  BY <1>1, <1>2 DEF Saved, OnePlanPerIteration
<1>12. Attempts' /\ Charges'
  BY <1>2, <1>4, <1>5, CutIs
<1>13. Completed'
  BY <1>1, <1>2 DEF Completed, Outcome
<1> QED
  BY <1>5, <1>6, <1>7, <1>8, <1>9, <1>10, <1>11, <1>12, <1>13 DEF Inv

LEMMA HeartbeatInv ==
  ASSUME Inv, Heartbeat
  PROVE  Inv'
<1>1. TypeOK /\ Ledger /\ Outcome /\ WellFormed(state) /\ WellFormed(checkpoint)
      /\ Follows /\ Saved /\ Acted /\ OnePlanPerIteration /\ Attempts /\ Charges /\ Completed
  BY DEF Inv
<1>2. /\ Running /\ beat' = {state.usage} /\ outcome' = outcome
         /\ checkpoint' = checkpoint /\ ledger' = ledger
      /\ pc' = pc /\ reason' = reason /\ after' = after /\ guarded' = guarded /\ stale' = stale
      /\ state' = state /\ spent' = spent /\ started' = started /\ acted' = acted
         /\ done' = done /\ verdict' = verdict
      /\ cuts' = cuts /\ faults' = faults
  BY DEF Heartbeat, recordVars, controlVars, historyVars, boundVars, Running
<1>3. TypeOK'
  BY <1>1, <1>2, Fields DEF TypeOK
<1>4. Ledger'
  BY <1>1, <1>2, Fields DEF Ledger, NoMore, Running
<1>5. Outcome'
  BY <1>1, <1>2 DEF Outcome, Running
<1>6. WellFormed(state)' /\ WellFormed(checkpoint)'
  BY <1>1, <1>2 DEF WellFormed
<1>7. Follows' /\ Saved' /\ Acted' /\ OnePlanPerIteration'
  BY <1>1, <1>2 DEF Follows, Saved, Acted, OnePlanPerIteration, Running
<1>8. Attempts' /\ Completed'
  BY <1>1, <1>2 DEF Attempts, Recorded, Completed, Running
<1>9. Charges'
  BY <1>1, <1>2 DEF Charges, ChargesOf, Greatest, Recorded, Running
<1> QED
  BY <1>3, <1>4, <1>5, <1>6, <1>7, <1>8, <1>9 DEF Inv

LEMMA HeartbeatLandsInv ==
  ASSUME Inv, HeartbeatLands
  PROVE  Inv'
<1>1. TypeOK /\ Ledger /\ Outcome /\ WellFormed(state) /\ WellFormed(checkpoint)
      /\ Follows /\ Saved /\ Acted /\ OnePlanPerIteration /\ Attempts /\ Charges /\ Completed
  BY DEF Inv
<1>2. /\ beat # {} /\ beat' = {} /\ outcome' = outcome /\ checkpoint' = checkpoint
      /\ pc' = pc /\ reason' = reason /\ after' = after /\ guarded' = guarded /\ stale' = stale
      /\ state' = state /\ spent' = spent /\ started' = started /\ acted' = acted
         /\ done' = done /\ verdict' = verdict
      /\ cuts' = cuts /\ faults' = faults
  BY DEF HeartbeatLands, controlVars, historyVars, boundVars
<1>3. Running /\ outcome = "none"
  BY <1>1, <1>2 DEF Outcome
<1>4. PICK usage \in beat : ledger' = Advance(ledger, usage)
  BY DEF HeartbeatLands
<1>5. usage \in Usage /\ NoMore(usage, state.usage) /\ NoMore(ledger, state.usage)
  BY <1>1, <1>3 DEF Ledger, TypeOK
<1>6. /\ ledger' \in Usage /\ NoMore(ledger, ledger') /\ ledger.failures <= ledger'.failures
      /\ ledger'.iterations \in {ledger.iterations, usage.iterations}
      /\ ledger'.cost \in {ledger.cost, usage.cost}
      /\ ledger'.toolCalls \in {ledger.toolCalls, usage.toolCalls}
  BY <1>1, <1>4, <1>5, AdvanceIs, Fields
<1>7. NoMore(ledger', state.usage)
  BY <1>5, <1>6 DEF NoMore
<1>8. TypeOK'
  BY <1>1, <1>2, <1>6 DEF TypeOK
<1>9. Ledger'
  <2>1. NoMore(checkpoint.usage, ledger) /\ checkpoint.usage.failures <= ledger.failures
    BY <1>1, <1>3 DEF Ledger
  <2>2. NoMore(checkpoint.usage, ledger')
    BY <1>1, <1>6, <2>1, Fields, UsageFields DEF NoMore
  <2>3. checkpoint.usage.failures <= ledger'.failures
    BY <1>1, <1>6, <2>1, Fields, UsageFields
  <2> QED
    BY <1>2, <1>7, <2>2, <2>3 DEF Ledger
<1>10. Outcome'
  BY <1>1, <1>2 DEF Outcome, Running
<1>11. WellFormed(state)' /\ WellFormed(checkpoint)'
  BY <1>1, <1>2 DEF WellFormed
<1>12. Follows' /\ Saved' /\ Acted' /\ OnePlanPerIteration' /\ Completed'
  BY <1>1, <1>2 DEF Follows, Saved, Acted, OnePlanPerIteration, Completed, Running
<1>13. Attempts' /\ Charges'
  BY <1>2, <1>3, <1>6, <1>7, <1>8, RaisedIs
<1> QED
  BY <1>8, <1>9, <1>10, <1>11, <1>12, <1>13 DEF Inv

LEMMA FinalizeInv ==
  ASSUME Inv, Finalize
  PROVE  Inv'
<1>1. TypeOK /\ Ledger /\ Outcome /\ WellFormed(state) /\ WellFormed(checkpoint)
      /\ Follows /\ Saved /\ Acted /\ OnePlanPerIteration /\ Attempts /\ Charges /\ Completed
  BY DEF Inv
<1>2. /\ Running /\ ~Running' /\ pc = "finalizing" /\ pc' = "idle" /\ beat' = {}
      /\ checkpoint' = checkpoint /\ state' = state /\ reason' = reason /\ after' = after
      /\ guarded' = guarded /\ stale' = stale
      /\ spent' = spent /\ started' = started /\ acted' = acted /\ done' = done
         /\ verdict' = verdict
      /\ cuts' = cuts /\ faults' = faults
      /\ reason # "none"
  BY <1>1 DEF Finalize, historyVars, boundVars, Running, Outcome
<1>3. \/ stale /\ outcome' = outcome /\ ledger' = ledger
      \/ outcome' = reason /\ ledger' = state.usage
  BY DEF Finalize
<1>4. TypeOK'
  BY <1>1, <1>2, <1>3, Fields DEF TypeOK, PC
<1>5. Ledger'
  BY <1>1, <1>2, <1>3 DEF Ledger
<1>6. Outcome'
  BY <1>1, <1>2, <1>3 DEF Outcome, Running
<1>7. WellFormed(state)' /\ WellFormed(checkpoint)'
  BY <1>1, <1>2 DEF WellFormed
<1>8. Follows' /\ Saved' /\ Acted' /\ OnePlanPerIteration'
  BY <1>1, <1>2 DEF Follows, Saved, Acted, OnePlanPerIteration, Running
<1>9. Attempts'
  BY <1>1, <1>2, <1>3 DEF Attempts, Recorded
<1>10. Charges'
  <2> SUFFICES ASSUME NEW most \in Costs, NEW lost \in Nat, Greatest(most), ChargesOf(most,
                      lost)
               PROVE  ChargesOf(most, lost)'
    BY <1>1, <1>2, ChargesFrom DEF TypeOK
  <2> QED
    BY <1>1, <1>2, <1>3 DEF ChargesOf, Recorded
<1>11. Completed'
  BY <1>1, <1>2, <1>3 DEF Completed, Outcome
<1> QED
  BY <1>4, <1>5, <1>6, <1>7, <1>8, <1>9, <1>10, <1>11 DEF Inv

---------------------------------------------------------------------------
LEMMA InitInv ==
  Init => Inv
<1> SUFFICES ASSUME Init
             PROVE  Inv
  OBVIOUS
<1> USE DEF Init, InitialState, NoUsage
<1>1. InitialState \in State /\ NoUsage \in Usage /\ Costs \subseteq Nat
      /\ MaxCost \in Nat \ {0}
      /\ MaxToolCalls \in Nat
  BY PlanAssumption, LimitAssumption DEF State, Usage, Phases, Evaluations
<1>2. TypeOK
  BY <1>1 DEF TypeOK, PC, Labels, Evaluations
<1>3. Ledger /\ Outcome /\ WellFormed(state) /\ WellFormed(checkpoint) /\ Follows
  BY DEF Ledger, Outcome, WellFormed, Follows, NoMore, Running
<1>4. Saved /\ Acted /\ OnePlanPerIteration /\ Completed
  BY DEF Saved, Acted, OnePlanPerIteration, Completed
<1>5. Attempts
  BY <1>1 DEF Attempts, Recorded, Running
<1>6. Charges
  <2> SUFFICES ASSUME NEW most \in Costs
               PROVE  ChargesOf(most, most * cuts)
    BY DEF Charges
  <2>1. most \in Nat /\ most * cuts = 0
    BY <1>1
  <2>2. 0 <= MaxCost - 1 + most
    BY <1>1, <2>1
  <2> QED
    BY <2>1, <2>2 DEF ChargesOf, Recorded, Running
<1> QED
  BY <1>2, <1>3, <1>4, <1>5, <1>6 DEF Inv

LEMMA NextInv ==
  ASSUME Inv, [Next]_vars
  PROVE  Inv'
<1>1. CASE Acquire
  BY <1>1, AcquireInv
<1>2. CASE BeginIteration
  BY <1>2, BeginIterationInv
<1>3. CASE CallProvider
  BY <1>3, CallProviderInv
<1>4. CASE CallFails
  BY <1>4, CallFailsInv
<1>5. CASE StartTool
  BY <1>5, StartToolInv
<1>6. CASE ToolDenied
  BY <1>6, ToolDeniedInv
<1>7. CASE ToolSucceeds
  BY <1>7, ToolSucceedsInv
<1>8. CASE ToolFails
  BY <1>8, ToolFailsInv
<1>9. CASE ToolRefused
  BY <1>9, ToolRefusedInv
<1>10. CASE SaveEvaluation
  BY <1>10, SaveEvaluationInv
<1>11. CASE Decide
  BY <1>11, DecideInv
<1>12. CASE SaveLands
  BY <1>12, SaveLandsInv
<1>13. CASE Emitted
  BY <1>13, EmittedInv
<1>14. CASE FailPhase
  BY <1>14, FailPhaseInv
<1>15. CASE BackoffEnds
  BY <1>15, BackoffEndsInv
<1>16. CASE StoreFails
  BY <1>16, StoreFailsInv
<1>17. CASE Interrupted
  BY <1>17, InterruptedInv
<1>18. CASE BoundReached
  BY <1>18, BoundReachedInv
<1>19. CASE Heartbeat
  BY <1>19, HeartbeatInv
<1>20. CASE HeartbeatLands
  BY <1>20, HeartbeatLandsInv
<1>21. CASE Finalize
  BY <1>21, FinalizeInv
<1>22. ASSUME NEW c \in Costs, Unusable(c) PROVE Inv'
  BY <1>22, UnusableInv
<1>23. ASSUME NEW c \in Costs, NEW p \in Plans, PlanAnswered(p, c) PROVE Inv'
  BY <1>23, PlanAnsweredInv
<1>24. ASSUME NEW c \in Costs, NEW e \in Evaluations, EvaluationAnswered(e, c) PROVE Inv'
  BY <1>24, EvaluationAnsweredInv
<1>25. CASE UNCHANGED vars
  <2>1. UNCHANGED recordVars /\ UNCHANGED controlVars /\ state' = state /\ beat' = beat
        /\ UNCHANGED historyVars /\ UNCHANGED boundVars
    BY <1>25 DEF vars
  <2> USE <2>1 DEF Inv, recordVars, controlVars, historyVars, boundVars
  <2>2. TypeOK' /\ Ledger' /\ Outcome' /\ WellFormed(state)' /\ WellFormed(checkpoint)'
        /\ Follows'
    BY DEF TypeOK, Ledger, Outcome, WellFormed, Follows, Running
  <2>3. Saved' /\ Acted' /\ OnePlanPerIteration' /\ Attempts' /\ Charges' /\ Completed'
    BY DEF Saved, Acted, OnePlanPerIteration, Attempts, Charges, ChargesOf, Greatest, Completed,
           Recorded, Running
  <2> QED
    BY <2>2, <2>3
<1> QED
  BY <1>1, <1>2, <1>3, <1>4, <1>5, <1>6, <1>7, <1>8, <1>9, <1>10, <1>11, <1>12, <1>13,
     <1>14, <1>15, <1>16, <1>17, <1>18, <1>19, <1>20, <1>21, <1>22, <1>23, <1>24,
              <1>25 DEF Next, Step, Answered

(* What the ledger shows is what the execution has used, or less of it.    *)
LEMMA LedgerGrows ==
  ASSUME Inv, [Next]_vars
  PROVE  NoMore(ledger, ledger')
<1>1. TypeOK /\ Ledger /\ Outcome
  BY DEF Inv
<1>2. NoMore(ledger, ledger)
  BY <1>1, Fields DEF NoMore
<1>3. ASSUME Running, Renewed \/ ledger' = ledger PROVE NoMore(ledger, ledger')
  BY <1>1, <1>3, LedgerMoves
<1>4. ASSUME Running, ledger' = state.usage PROVE NoMore(ledger, ledger')
  BY <1>1, <1>4 DEF Ledger
<1>5. CASE Acquire \/ StoreFails \/ Heartbeat \/ UNCHANGED vars
  BY <1>2, <1>5 DEF Acquire, StoreFails, Heartbeat, recordVars, vars
<1>6. CASE BeginIteration \/ CallProvider \/ CallFails \/ StartTool \/ ToolDenied \/ ToolSucceeds
  BY <1>3, <1>6 DEF BeginIteration, CallProvider, CallFails, StartTool, ToolDenied,
     ToolSucceeds,
                    Running
<1>7. CASE ToolFails \/ ToolRefused \/ SaveEvaluation \/ Decide \/ Emitted \/ FailPhase \/ BackoffEnds
  BY <1>3, <1>7 DEF ToolFails, ToolRefused, SaveEvaluation, Decide, Emitted, FailPhase,
     BackoffEnds,
                    Running
<1>8. CASE Answered
  BY <1>2, <1>8 DEF Answered, CallFails, Unusable, PlanAnswered, EvaluationAnswered
<1>9. CASE SaveLands \/ Interrupted \/ BoundReached \/ Finalize
  BY <1>2, <1>4, <1>9 DEF SaveLands, Interrupted, BoundReached, Finalize, Persist, Running
<1>10. CASE HeartbeatLands
  <2>1. PICK usage \in beat : ledger' = Advance(ledger, usage)
    BY <1>10 DEF HeartbeatLands
  <2>2. usage \in Usage
    BY <1>1 DEF TypeOK
  <2> QED
    BY <1>1, <2>1, <2>2, AdvanceIs, Fields
<1> QED
  BY <1>5, <1>6, <1>7, <1>8, <1>9, <1>10 DEF Next, Step

---------------------------------------------------------------------------
(* The inductive invariant holds of every execution of the run.            *)
THEOREM Invariance == Spec => []Inv
<1>1. Init => Inv
  BY InitInv
<1>2. Inv /\ [Next]_vars => Inv'
  BY NextInv
<1> QED
  BY <1>1, <1>2, PTL DEF Spec

(* Every variable keeps its type: the record, the state of the supervisor  *)
(* and its cursor, whatever is planned, answered, saved or interrupted.    *)
THEOREM TypeCorrect == Spec => []TypeOK
<1>1. Inv => TypeOK
  BY DEF Inv
<1> QED
  BY <1>1, Invariance, PTL

(* Recovery accepts the record any interruption leaves, and the repository *)
(* every save: restoreWorkerSupervisorState, assertCheckpointBudget and    *)
(* assertRemainingBudgetDidNotIncrease find nothing to refuse.             *)
THEOREM RestoreIsAccepted == Spec => []RestoreAccepted
<1>1. Inv => RestoreAccepted
  BY InvRestorable, InvSaveAccepted DEF Inv, Outcome, RestoreAccepted, Running
<1> QED
  BY <1>1, Invariance, PTL

(* The iterations, the cost and the tool calls in the run record only      *)
(* grow, over saves, late heartbeats, finalize and restarts.               *)
THEOREM LedgerIsMonotone == Spec => LedgerMonotone
<1>1. ASSUME Inv, [Next]_vars
      PROVE  [\A k \in {"iterations", "cost", "toolCalls"} : ledger'[k] >= ledger[k]]_vars
  <2>1. NoMore(ledger, ledger')
    BY <1>1, LedgerGrows
  <2>2. ledger \in Usage /\ ledger' \in Usage
    BY <1>1, NextInv DEF Inv, TypeOK
  <2>3. /\ ledger'["iterations"] >= ledger["iterations"]
        /\ ledger'["cost"] >= ledger["cost"]
        /\ ledger'["toolCalls"] >= ledger["toolCalls"]
    BY <2>1, <2>2, UsageFields DEF NoMore
  <2> QED
    BY <2>3
<1> QED
  BY <1>1, Invariance, PTL DEF Spec, LedgerMonotone

(* An iteration acts on one plan over all executions, but for what its     *)
(* checkpoint redacted: the keys of effect receipts stay unambiguous.      *)
THEOREM IterationHasOnePlan == Spec => []OnePlanPerIteration
<1>1. Inv => OnePlanPerIteration
  BY DEF Inv
<1> QED
  BY <1>1, Invariance, PTL

(* The limits on tool calls and cost hold over all executions of a run, up *)
(* to one attempt and one provider charge for each interruption.           *)
THEOREM BudgetsAreBounds == Spec => []BudgetsBoundWork
<1>1. ASSUME Inv PROVE BudgetsBoundWork
  <2>1. TypeOK /\ Attempts /\ Charges
    BY <1>1 DEF Inv
  <2>2. started <= MaxToolCalls + cuts
    <3>1. started \in Nat /\ cuts \in Nat /\ MaxToolCalls \in Nat
      BY <2>1, LimitAssumption DEF TypeOK
    <3>2. CASE Running
      BY <2>1, <3>1, <3>2, Fields DEF Attempts
    <3>3. CASE ~Running
      BY <2>1, <3>1, <3>3, Fields DEF Attempts, Recorded, Running
    <3> QED
      BY <3>2, <3>3
  <2>3. ASSUME NEW most \in Costs, Greatest(most)
        PROVE  spent <= MaxCost - 1 + most * (1 + cuts)
    <3>1. most \in Nat /\ cuts \in Nat /\ spent \in Nat /\ MaxCost \in Nat
      BY <2>1, PlanAssumption, LimitAssumption DEF TypeOK
    <3>2. PICK lost \in Nat : lost = most * cuts
      BY <3>1
    <3>3. most * (1 + cuts) = most + lost
      BY <3>1, <3>2
    <3>4. ChargesOf(most, lost)
      BY <2>1, <2>3, <3>2 DEF Charges
    <3>5. CASE Running
      <4>1. spent <= state.usage.cost + lost /\ state.usage.cost <= MaxCost - 1 + most
        BY <3>4, <3>5 DEF ChargesOf
      <4> QED
        BY <2>1, <3>1, <3>3, <4>1, Fields
    <3>6. CASE ~Running
      <4>1. spent <= ledger.cost + lost /\ ledger.cost <= MaxCost - 1 + most
        BY <3>4, <3>6 DEF ChargesOf, Recorded, Running
      <4> QED
        BY <2>1, <3>1, <3>3, <4>1, Fields
    <3> QED
      BY <3>5, <3>6
  <2> QED
    BY <2>2, <2>3 DEF BudgetsBoundWork, Greatest
<1> QED
  BY <1>1, Invariance, PTL

(* A run completes only after its newest iteration was evaluated as        *)
(* matched, its checkpoint shows the decision, and every action of its     *)
(* plan has succeeded, in whichever execution.                             *)
THEOREM CompletesOnMatch == Spec => []CompletedOnMatch
<1>1. Inv => CompletedOnMatch
  <2> SUFFICES ASSUME Inv, outcome = "completed"
               PROVE  /\ verdict = <<state.iteration, "matched">>
                      /\ checkpoint.phase = "decide" /\ checkpoint.iteration = state.iteration
                      /\ \A i \in 0 .. Size[state.plan] - 1 : <<state.iteration, i>> \in done
    BY DEF CompletedOnMatch
  <2> QED
    BY DEF Inv, Completed, WellFormed
<1> QED
  BY <1>1, Invariance, PTL
---------------------------------------------------------------------------
(* The rank of a run                                                       *)
LEMMA LeftIs ==
  ASSUME NEW limit \in Nat, NEW n \in Nat, NEW m \in Nat, n < limit, n < m
  PROVE  Left(limit, m) < Left(limit, n)
BY DEF Left, Greater

LEMMA Lexicographic ==
  ASSUME NEW a1, NEW a2, NEW a3, NEW a4, NEW a5, NEW a6, NEW a7, NEW a8,
         NEW b1, NEW b2, NEW b3, NEW b4, NEW b5, NEW b6, NEW b7, NEW b8,
         \/ a1 < b1
         \/ a1 = b1 /\ a2 < b2
         \/ a1 = b1 /\ a2 = b2 /\ a3 < b3
         \/ a1 = b1 /\ a2 = b2 /\ a3 = b3 /\ a4 < b4
         \/ a1 = b1 /\ a2 = b2 /\ a3 = b3 /\ a4 = b4 /\ a5 < b5
         \/ a1 = b1 /\ a2 = b2 /\ a3 = b3 /\ a4 = b4 /\ a5 = b5 /\ a6 < b6
         \/ a1 = b1 /\ a2 = b2 /\ a3 = b3 /\ a4 = b4 /\ a5 = b5 /\ a6 = b6 /\ a7 < b7
         \/ /\ a1 = b1 /\ a2 = b2 /\ a3 = b3 /\ a4 = b4 /\ a5 = b5 /\ a6 = b6 /\ a7 = b7
            /\ a8 < b8
  PROVE  Below(<<a1, a2, a3, a4, a5, a6, a7, a8>>, <<b1, b2, b3, b4, b5, b6, b7, b8>>)
<1> DEFINE a == <<a1, a2, a3, a4, a5, a6, a7, a8>>
           b == <<b1, b2, b3, b4, b5, b6, b7, b8>>
<1>1. /\ a[1] = a1 /\ a[2] = a2 /\ a[3] = a3 /\ a[4] = a4
      /\ a[5] = a5 /\ a[6] = a6 /\ a[7] = a7 /\ a[8] = a8
      /\ b[1] = b1 /\ b[2] = b2 /\ b[3] = b3 /\ b[4] = b4
      /\ b[5] = b5 /\ b[6] = b6 /\ b[7] = b7 /\ b[8] = b8
      /\ DOMAIN b = 1 .. 8
  OBVIOUS
<1> HIDE DEF a, b
<1>2. PICK i \in 1 .. 8 : a[i] < b[i] /\ \A j \in 1 .. 8 : j < i => a[j] = b[j]
  BY <1>1
<1>3. \A j \in 1 .. i - 1 : a[j] = b[j]
  BY <1>2
<1> QED
  BY <1>1, <1>2, <1>3 DEF Below, a, b

LEMMA CutRank == ASSUME TypeOK, Cut PROVE Below(Rank', Rank)
<1>1. Left(MaxCuts, cuts)' < Left(MaxCuts, cuts)
  BY LeftIs, LimitAssumption DEF Cut, TypeOK
<1> QED
  BY <1>1, Lexicographic DEF Rank

LEMMA StageRank == ASSUME cuts' = cuts, Stage' < Stage PROVE Below(Rank', Rank)
<1>1. Left(MaxCuts, cuts)' = Left(MaxCuts, cuts)
  OBVIOUS
<1> QED
  BY <1>1, Lexicographic DEF Rank

LEMMA FaultRank == ASSUME TypeOK, Fault, Stage' = Stage PROVE Below(Rank', Rank)
<1>1. Left(MaxCuts, cuts)' = Left(MaxCuts, cuts)
  BY DEF Fault
<1>2. Left(MaxFaults, faults)' < Left(MaxFaults, faults)
  BY LeftIs, LimitAssumption DEF Fault, TypeOK
<1> QED
  BY <1>1, <1>2, Lexicographic DEF Rank

(* A step inside an execution, without a fault                             *)
Within ==
    /\ Running /\ pc # "finalizing" /\ pc' \in PC \ {"idle"}
    /\ stale' = stale /\ cuts' = cuts /\ faults' = faults

SameUsage ==
    /\ state'.usage.iterations = state.usage.iterations
    /\ state'.usage.failures = state.usage.failures

SameCursor ==
    /\ state'.phase = state.phase /\ state'.open = state.open
    /\ state'.action = state.action /\ state'.plan = state.plan

LEMMA StepRank ==
  ASSUME Inv, Within,
         \/ /\ state.usage.iterations < state'.usage.iterations
            /\ state.usage.iterations < MaxIterations /\ state' \in State
         \/ /\ state'.usage.iterations = state.usage.iterations
            /\ \/ PhasesLeft' < PhasesLeft
               \/ PhasesLeft' = PhasesLeft /\ ActionsLeft' < ActionsLeft
               \/ /\ PhasesLeft' = PhasesLeft /\ ActionsLeft' = ActionsLeft
                  /\ \/ Left(MaxFailures, state.usage.failures)'
                          < Left(MaxFailures, state.usage.failures)
                     \/ /\ Left(MaxFailures, state.usage.failures)'
                             = Left(MaxFailures, state.usage.failures)
                        /\ AwaitsLeft' < AwaitsLeft
  PROVE  Below(Rank', Rank)
<1>1. /\ Left(MaxCuts, cuts)' = Left(MaxCuts, cuts)
      /\ Left(MaxFaults, faults)' = Left(MaxFaults, faults)
  BY DEF Within
<1>2. Stage' = Stage
  BY DEF Within, Running, Inv, Outcome, Stage
<1>3. CASE /\ state.usage.iterations < state'.usage.iterations
           /\ state.usage.iterations < MaxIterations /\ state' \in State
  <2>1. state.usage.iterations \in Nat /\ state'.usage.iterations \in Nat
    BY <1>3, Fields, StateFields, UsageFields DEF Inv
  <2>2. Left(MaxIterations, state.usage.iterations)' < Left(MaxIterations, state.usage.iterations)
    BY <1>3, <2>1, LeftIs, LimitAssumption
  <2> QED
    BY <1>1, <1>2, <2>2, Lexicographic DEF Rank
<1>4. CASE state'.usage.iterations = state.usage.iterations
  <2>1. Left(MaxIterations, state.usage.iterations)' = Left(MaxIterations, state.usage.iterations)
    BY <1>4
  <2>2. ~(state.usage.iterations < state'.usage.iterations)
    BY <1>4, Fields DEF Inv
  <2> QED
    BY <1>1, <1>2, <2>1, <2>2, Lexicographic DEF Rank
<1> QED
  BY <1>3, <1>4

(* The next await of the same attempt                                      *)
LEMMA AwaitRank ==
  ASSUME Inv, Within, SameUsage, SameCursor, AwaitsLeft' < AwaitsLeft
  PROVE  Below(Rank', Rank)
<1>1. PhasesLeft' = PhasesLeft /\ ActionsLeft' = ActionsLeft
  BY DEF SameCursor, PhasesLeft, ActionsLeft
<1>2. Left(MaxFailures, state.usage.failures)' = Left(MaxFailures, state.usage.failures)
  BY DEF SameUsage
<1> QED
  BY <1>1, <1>2, StepRank DEF SameUsage

(* The next phase                                                          *)
LEMMA PhaseRank ==
  ASSUME Inv, Within, state'.usage.iterations = state.usage.iterations, PhasesLeft' < PhasesLeft
  PROVE  Below(Rank', Rank)
BY StepRank

(* One more failure                                                        *)
LEMMA FailureRank ==
  ASSUME Inv, Within, SameCursor, state' \in State,
         state'.usage.iterations = state.usage.iterations,
         state'.usage.failures = state.usage.failures + 1,
         state.usage.failures < MaxFailures \/ AwaitsLeft' < AwaitsLeft
  PROVE  Below(Rank', Rank)
<1>1. PhasesLeft' = PhasesLeft /\ ActionsLeft' = ActionsLeft
  BY DEF SameCursor, PhasesLeft, ActionsLeft
<1>2. state.usage.failures \in Nat /\ MaxFailures \in Nat
  BY Fields, LimitAssumption DEF Inv
<1>3. CASE state.usage.failures < MaxFailures
  <2>1. Left(MaxFailures, state.usage.failures)' < Left(MaxFailures, state.usage.failures)
    BY <1>2, <1>3, LeftIs
  <2> QED
    BY <1>1, <2>1, StepRank
<1>4. CASE ~(state.usage.failures < MaxFailures)
  <2>1. Left(MaxFailures, state.usage.failures)' = Left(MaxFailures, state.usage.failures)
    BY <1>2, <1>4 DEF Left, Greater
  <2> QED
    BY <1>1, <1>4, <2>1, StepRank
<1> QED
  BY <1>3, <1>4

LEMMA BeginIterationRank == ASSUME Inv, BeginIteration PROVE Below(Rank', Rank)
<1>1. Within
  BY DEF BeginIteration, Select, SaveThen, StepOnly, boundVars, Within, Running, PC
<1>2. CASE state.usage.iterations >= MaxIterations
  <2>1. state' = state /\ pc' = "finalizing" /\ pc = "top"
    BY <1>2 DEF BeginIteration, Select
  <2> QED
    BY <1>1, <2>1, AwaitRank DEF SameUsage, SameCursor, AwaitsLeft
<1>3. CASE ~(state.usage.iterations >= MaxIterations)
  <2>1. state' = Begun(state)
    BY <1>3 DEF BeginIteration
  <2>2. /\ state' \in State /\ state.usage.iterations \in Nat
        /\ state'.usage.iterations = state.usage.iterations + 1
    BY <2>1, BegunIs, Fields DEF Inv
  <2> QED
    BY <1>1, <1>3, <2>2, StepRank, LimitAssumption
<1> QED
  BY <1>2, <1>3

(* The supervisor goes on to the next await, with the state it has.        *)
LEMMA SameStateRank ==
  ASSUME Inv,
         \/ CallProvider \/ CallFails \/ ToolDenied \/ ToolFails \/ ToolRefused
         \/ SaveEvaluation \/ BackoffEnds
  PROVE  Below(Rank', Rank)
<1>1. state' = state /\ Within
  BY DEF CallProvider, CallFails, ToolDenied, ToolFails, ToolRefused, SaveEvaluation, BackoffEnds,
     Goto, Select, SaveThen, FailWithin, StepOnly, boundVars, Within, Running, PC
<1>2. AwaitsLeft' < AwaitsLeft
  BY DEF CallProvider, CallFails, ToolDenied, ToolFails, ToolRefused, SaveEvaluation, BackoffEnds,
     Goto, Select, SaveThen, FailWithin, AwaitsLeft
<1> QED
  BY <1>1, <1>2, AwaitRank DEF SameUsage, SameCursor

LEMMA PlanAnsweredRank ==
  ASSUME Inv, NEW c \in Costs, NEW p \in Plans, PlanAnswered(p, c)
  PROVE  Below(Rank', Rank)
<1> DEFINE s == Charged(state, c)
<1>1. c \in Nat /\ state \in State
  BY Fields, PlanAssumption DEF Inv
<1>2. /\ s \in State /\ s.phase = state.phase /\ s.open = state.open /\ s.action = state.action
      /\ s.plan = state.plan /\ s.usage.iterations = state.usage.iterations
      /\ s.usage.failures = state.usage.failures
  BY <1>1, ChargedIs
<1>3. Within /\ pc = "calling" /\ state.phase = "plan"
  BY DEF PlanAnswered, Select, SavePlan, SaveThen, StepOnly, boundVars, Within, Running, PC
<1>4. CASE Exceeded(s)
  <2>1. state' = s /\ pc' = "finalizing"
    BY <1>4 DEF PlanAnswered, Select
  <2>2. SameUsage /\ SameCursor
    BY <1>2, <2>1 DEF SameUsage, SameCursor
  <2> QED
    BY <1>3, <2>1, <2>2, AwaitRank DEF AwaitsLeft
<1>5. CASE ~Exceeded(s)
  <2>1. state' = Planned(s, p)
    BY <1>5 DEF PlanAnswered
  <2>2. /\ state'.phase \in {"act", "evaluate"}
        /\ state'.usage.iterations = state.usage.iterations
    BY <1>2, <2>1, PlannedIs
  <2>3. state.open
    BY <1>3 DEF Inv, Saved
  <2> QED
    BY <1>3, <2>2, <2>3, PhaseRank DEF PhasesLeft
<1> QED
  BY <1>4, <1>5

LEMMA UnusableRank == ASSUME Inv, NEW c \in Costs, Unusable(c) PROVE Below(Rank', Rank)
<1>1. c \in Nat /\ state \in State
  BY Fields, PlanAssumption DEF Inv
<1>2. state' = state \/ state' = Charged(state, c)
  BY DEF Unusable
<1>3. SameUsage /\ SameCursor
  BY <1>1, <1>2, ChargedIs DEF SameUsage, SameCursor
<1>4. Within /\ pc = "calling" /\ pc' \in {"failing", "finalizing"}
  BY DEF Unusable, Select, FailWithin, StepOnly, boundVars, Within, Running, PC
<1> QED
  BY <1>3, <1>4, AwaitRank DEF AwaitsLeft

LEMMA EvaluationAnsweredRank ==
  ASSUME Inv, NEW c \in Costs, NEW e \in Evaluations, EvaluationAnswered(e, c)
  PROVE  Below(Rank', Rank)
<1> DEFINE s == Charged(state, c)
<1>1. c \in Nat /\ state \in State
  BY Fields, PlanAssumption DEF Inv
<1>2. /\ s \in State /\ s.phase = state.phase /\ s.open = state.open /\ s.action = state.action
      /\ s.plan = state.plan /\ s.usage.iterations = state.usage.iterations
      /\ s.usage.failures = state.usage.failures
  BY <1>1, ChargedIs
<1>3. Within /\ pc = "calling" /\ state.phase = "evaluate"
  BY DEF EvaluationAnswered, Select, FailWithin, SaveThen, StepOnly, boundVars, Within, Running, PC
<1>4. CASE Exceeded(s) \/ e = "none"
  <2>1. state' = s /\ pc' \in {"finalizing", "failing"}
    BY <1>4 DEF EvaluationAnswered, Select, FailWithin
  <2>2. SameUsage /\ SameCursor
    BY <1>2, <2>1 DEF SameUsage, SameCursor
  <2> QED
    BY <1>3, <2>1, <2>2, AwaitRank DEF AwaitsLeft
<1>5. CASE ~Exceeded(s) /\ e # "none"
  <2>1. state' = Evaluated(s, e)
    BY <1>5 DEF EvaluationAnswered
  <2>2. state'.phase = "checkpoint" /\ state'.usage.iterations = state.usage.iterations
    BY <1>2, <2>1, EvaluatedIs
  <2> QED
    BY <1>3, <2>2, PhaseRank DEF PhasesLeft
<1> QED
  BY <1>4, <1>5

LEMMA StartToolRank == ASSUME Inv, StartTool PROVE Below(Rank', Rank)
<1>1. Within /\ pc = "top" /\ pc' \in {"executing", "finalizing"}
  BY DEF StartTool, Select, Goto, StepOnly, boundVars, Within, Running, PC
<1>2. state' = state \/ state' = Reserved(state)
  BY DEF StartTool
<1>3. SameUsage /\ SameCursor
  BY <1>2, ReservedIs, Fields DEF Inv, SameUsage, SameCursor
<1> QED
  BY <1>1, <1>3, AwaitRank DEF AwaitsLeft

LEMMA ToolSucceedsRank == ASSUME Inv, ToolSucceeds PROVE Below(Rank', Rank)
<1>1. Within /\ pc = "executing" /\ state' = Succeeded(state)
  BY DEF ToolSucceeds, SaveThen, StepOnly, boundVars, Within, Running, PC
<1>2. /\ state \in State /\ state.phase = "act" /\ state.action \in Nat /\ state.plan \in Plans
      /\ Size[state.plan] \in Nat
  <2>1. state.phase = "act" /\ state.plan # NoPlan
    BY <1>1 DEF Inv, Saved, WellFormed
  <2> QED
    BY <2>1, Fields, PlanAssumption DEF Inv
<1>3. /\ state'.phase = IF MoreTools(state) THEN "act" ELSE "evaluate"
      /\ state'.action = state.action + 1 /\ state'.plan = state.plan
      /\ state'.usage.iterations = state.usage.iterations
  BY <1>1, <1>2, SucceededIs
<1>4. CASE MoreTools(state)
  <2>1. PhasesLeft' = PhasesLeft
    BY <1>2, <1>3, <1>4 DEF PhasesLeft
  <2>2. ActionsLeft' < ActionsLeft
    BY <1>2, <1>3, <1>4 DEF ActionsLeft
  <2> QED
    BY <1>1, <1>3, <2>1, <2>2, StepRank
<1>5. CASE ~MoreTools(state)
  BY <1>1, <1>2, <1>3, <1>5, PhaseRank DEF PhasesLeft
<1> QED
  BY <1>4, <1>5

LEMMA DecideRank == ASSUME Inv, Decide PROVE Below(Rank', Rank)
<1>1. Within /\ pc = "top" /\ state.phase = "decide"
  BY DEF Decide, Select, SaveThen, StepOnly, boundVars, Within, Running, PC
<1>2. CASE state' = state /\ pc' = "finalizing"
  BY <1>1, <1>2, AwaitRank DEF SameUsage, SameCursor, AwaitsLeft
<1>3. CASE state' = Reopened(state)
  <2>1. /\ state'.phase = "plan" /\ state'.open = FALSE
        /\ state'.usage.iterations = state.usage.iterations
    BY <1>3, ReopenedIs, Fields DEF Inv
  <2> QED
    BY <1>1, <2>1, PhaseRank DEF PhasesLeft
<1> QED
  BY <1>2, <1>3 DEF Decide, Select

(* An evaluation is decided, or the supervisor goes on with what it has.   *)
LEMMA SavedRank == ASSUME Inv, SaveLands \/ Emitted PROVE Below(Rank', Rank)
<1>1. Within
  BY DEF Inv, Saved, SaveLands, Emitted, Goto, StepOnly, Quiet, boundVars, Within, Running, PC
<1>2. CASE state' = Decided(state) /\ state.phase = "checkpoint"
  <2>1. state'.phase = "decide" /\ state'.usage.iterations = state.usage.iterations
    BY <1>2, DecidedIs, Fields DEF Inv
  <2> QED
    BY <1>1, <1>2, <2>1, PhaseRank DEF PhasesLeft
<1>3. CASE state' = state /\ pc = "saving" /\ after # "decided" /\ pc' = after
  <2>1. pc' \in {"planning", "emitting", "backoff", "top"}
    BY <1>3 DEF Inv, Saved
  <2> QED
    BY <1>1, <1>3, <2>1, AwaitRank DEF SameUsage, SameCursor, AwaitsLeft
<1>4. CASE state' = state /\ pc = "emitting" /\ pc' = "top"
  BY <1>1, <1>4, AwaitRank DEF SameUsage, SameCursor, AwaitsLeft
<1> QED
  BY <1>2, <1>3, <1>4 DEF Inv, Saved, SaveLands, Emitted, Goto

LEMMA FailPhaseRank == ASSUME Inv, FailPhase PROVE Below(Rank', Rank)
<1>1. Within /\ pc = "failing" /\ state' = Failed(state)
  BY DEF FailPhase, Select, SaveThen, StepOnly, boundVars, Within, Running, PC
<1>2. /\ state' \in State /\ SameCursor /\ state.usage.failures \in Nat
      /\ state'.usage.iterations = state.usage.iterations
      /\ state'.usage.failures = state.usage.failures + 1
  BY <1>1, FailedIs, Fields DEF Inv, SameCursor
<1>3. CASE state'.usage.failures >= MaxFailures
  <2>1. pc' = "finalizing"
    BY <1>1, <1>3 DEF FailPhase, Select
  <2> QED
    BY <1>1, <1>2, <2>1, FailureRank DEF AwaitsLeft
<1>4. CASE ~(state'.usage.failures >= MaxFailures)
  BY <1>1, <1>2, <1>4, FailureRank, LimitAssumption
<1> QED
  BY <1>3, <1>4

LEMMA StoreFailsRank == ASSUME Inv, StoreFails PROVE Below(Rank', Rank)
<1>1. Stage' = Stage /\ Fault /\ TypeOK
  BY DEF Inv, Outcome, Running, StoreFails, FailWithin, Select, recordVars, Stage
<1> QED
  BY <1>1, FaultRank

(* The ends of an execution, and the next one                              *)
LEMMA AcquireRank == ASSUME Inv, Acquire PROVE Below(Rank', Rank)
<1>1. cuts' = cuts /\ Stage' < Stage
  BY DEF Acquire, boundVars, Stage
<1> QED
  BY <1>1, StageRank

LEMMA FinalizeRank == ASSUME Inv, Finalize PROVE Below(Rank', Rank)
<1>1. cuts' = cuts /\ Stage' < Stage
  BY DEF Inv, Outcome, Running, Finalize, boundVars, Stage
<1> QED
  BY <1>1, StageRank

LEMMA HeartbeatRank == ASSUME Heartbeat \/ HeartbeatLands PROVE Rank' = Rank
<1>1. /\ outcome' = outcome /\ state' = state /\ pc' = pc /\ after' = after /\ stale' = stale
      /\ cuts' = cuts /\ faults' = faults
  BY DEF Heartbeat, HeartbeatLands, recordVars, controlVars, boundVars
<1> QED
  BY <1>1 DEF Rank, Stage, PhasesLeft, ActionsLeft, AwaitsLeft

(* The rank is one of eight natural numbers, so it cannot go down forever. *)
LEMMA RankIs == ASSUME Inv PROVE Ranked
<1>1. /\ state \in State /\ state.usage.iterations \in Nat /\ state.usage.failures \in Nat
      /\ cuts \in Nat /\ faults \in Nat /\ pc \in PC /\ outcome \in Outcomes \union {"none"}
  BY Fields DEF Inv, TypeOK
<1>2. \A limit, n \in Nat : Left(limit, n) \in Nat
  BY DEF Left, Greater
<1>3. /\ Left(MaxCuts, cuts) \in Nat /\ Left(MaxFaults, faults) \in Nat
      /\ Left(MaxIterations, state.usage.iterations) \in Nat
      /\ Left(MaxFailures, state.usage.failures) \in Nat
  BY <1>1, <1>2, LimitAssumption
<1>4. Stage \in Nat
  BY DEF Stage
<1>5. PhasesLeft \in Nat
  BY <1>1, StateFields DEF PhasesLeft
<1>6. ActionsLeft \in Nat
  <2>1. CASE state.phase = "act"
    <3>1. state.plan \in Plans /\ state.action \in Nat /\ state.action < Size[state.plan]
      BY <1>1, <2>1, StateFields DEF Inv, WellFormed
    <3>2. Size[state.plan] \in Nat
      BY <3>1, PlanAssumption
    <3> QED
      BY <2>1, <3>1, <3>2 DEF ActionsLeft
  <2>2. CASE state.phase # "act"
    BY <2>2 DEF ActionsLeft
  <2> QED
    BY <2>1, <2>2
<1>7. AwaitsLeft \in Nat
  BY <1>1 DEF AwaitsLeft, PC
<1> QED
  BY <1>3, <1>4, <1>5, <1>6, <1>7 DEF Ranked, Rank

(* Whatever the limits, plans and costs, and however many interruptions    *)
(* and failing store calls there may be: no step but a heartbeat leaves a  *)
(* run as far from its end as it was.                                      *)
THEOREM EndComesNearer == Spec => []Ranked /\ ComesToEnd
<1>1. ASSUME Inv, [Next]_vars
      PROVE  [IF Heartbeat \/ HeartbeatLands THEN Rank' = Rank ELSE Below(Rank', Rank)]_vars
  <2> SUFFICES ASSUME Next, ~(Heartbeat \/ HeartbeatLands) PROVE Below(Rank', Rank)
    BY <1>1, HeartbeatRank
  <2>1. CASE Interrupted \/ BoundReached
    BY <1>1, <2>1, CutRank DEF Inv, Interrupted, BoundReached
  <2>2. CASE Step
    BY <1>1, <2>2, BeginIterationRank, SameStateRank, PlanAnsweredRank, UnusableRank,
       EvaluationAnsweredRank, StartToolRank, ToolSucceedsRank, DecideRank, SavedRank,
       FailPhaseRank, FinalizeRank DEF Step, Answered
  <2> QED
    BY <1>1, <2>1, <2>2, AcquireRank, StoreFailsRank DEF Next
<1>2. Inv => Ranked
  BY RankIs
<1> QED
  BY <1>1, <1>2, Invariance, PTL DEF Spec, ComesToEnd
===================================================================================
