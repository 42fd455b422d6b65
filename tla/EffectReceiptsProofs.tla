------------------------- MODULE EffectReceiptsProofs -------------------------
(***************************************************************************)
(* That no effect is repeated that must not be, that the store always      *)
(* looks to recovery as it should, and what a run's status says of its     *)
(* effects, for any plans, classifications, executions and faults.         *)
(***************************************************************************)
EXTENDS EffectReceipts, FiniteSetTheorems, TLAPS

Requests == {"prepare", "perform", "reconcile", "complete"}
Replies == {"answered", "unsafe", "threw"}

Done(a) == receipt[a].state = "completed" /\ receipt[a].result = "ok"
DoneBelow(n) == \A a \in Actions : a < n => Done(a)

(* A call is about the action the newest checkpoint stands at; a save      *)
(* brings the checkpoint a plan, or past that action, or neither.          *)
At(c) == c.plan = chain.plan /\ c.action = chain.action
Extends(c) ==
    /\ c.plan = chain.plan \/ chain.plan = "none"
    /\ c.action \in {chain.action, chain.action + 1}

---------------------------------------------------------------------------
(* Of an execution: an execution has a fence.                              *)
Numbered(s) == mine[s].fence <= fence /\ (pc[s] = "idle" <=> mine[s].fence = 0)

(* What it waits for, where it waits.                                      *)
Waits(s) ==
    /\ pc[s] \notin {"saving", "waiting"} => call[s] = NoCall
    /\ pc[s] = "saving" => call[s] = NoCall \/ call[s] = CallOf(s, "save")
    /\ pc[s] = "waiting" =>
          /\ call[s].step \in Requests \union Replies
          /\ call[s].fence = mine[s].fence
          /\ call[s].plan = mine[s].plan /\ call[s].plan # "none"
          /\ call[s].action = mine[s].action /\ call[s].action \in Actions

(* The newest one works at the newest checkpoint.                          *)
Works(s) == mine[s].fence = fence =>
    /\ pc[s] \in {"working", "waiting", "saving"} => mine[s].seq = chain.seq
    /\ pc[s] \in {"working", "waiting"} => At(mine[s])
    /\ pc[s] = "saving" => Extends(mine[s])

(* It ends the run as its effects allow.                                   *)
Judges(s) ==
    /\ pc[s] \notin {"finalizing", "releasing"} => verdict[s] = "none"
    /\ pc[s] = "finalizing" =>
          /\ verdict[s] # "none"
          /\ verdict[s] = "completed" => mine[s].action \notin Actions
          /\ verdict[s] = "quarantined" =>
                /\ mine[s].action \in Actions /\ Class[mine[s].action] # "idempotent_mutation"
                /\ mine[s].fence = fence => receipt[mine[s].action].state = "prepared"

(* What it left behind is the last of it.                                  *)
Leaves(s, c) == mine[s].fence = c.fence =>
    pc[s] \in {"finalizing", "releasing"} /\ verdict[s] # "quarantined"

(* What a call has learnt is true.                                         *)
Truthful(c) ==
    /\ c.step = "answered" =>
          receipt[c.action].state = "completed" /\ receipt[c.action].result = c.result
    /\ c.step = "complete" /\ c.result = "ok" => performed[c.action] > 0
    /\ c.step = "reconcile" => Class[c.action] = "reconcilable_mutation"
    /\ c.step \in {"reconcile", "unsafe"} =>
          /\ Class[c.action] # "idempotent_mutation"
          /\ c.fence = fence => receipt[c.action].state = "prepared"

Sound(s) ==
    /\ Numbered(s) /\ Waits(s) /\ Works(s) /\ Judges(s)
    /\ DoneBelow(mine[s].action) /\ Truthful(call[s])
    /\ \A c \in strays : Leaves(s, c)

(* Of what an execution left behind.                                       *)
Stray(c) ==
    /\ c.step \in Requests \union {"save", "sent"} /\ c.fence \in 1 .. fence
    /\ c.step # "save" => c.plan # "none" /\ c.action \in Actions
    /\ c.fence = fence =>
          /\ c.step = "save" /\ c.seq = chain.seq => Extends(c)
          /\ c.step \in Requests => At(c)
    /\ DoneBelow(c.action) /\ Truthful(c)

(* No two executions have one fence, and each leaves one call at most.     *)
Distinct ==
    /\ \A s, t \in Supervisors : mine[s].fence = mine[t].fence /\ mine[s].fence # 0 => s = t
    /\ \A c, d \in strays : c.fence = d.fence => c = d

(* A receipt that is open is that of the newest checkpoint's action.       *)
Receipted(a) ==
    /\ receipt[a].state # "none" => receipt[a].plan # "none"
    /\ receipt[a].state = "prepared" => chain.action = a /\ chain.plan = receipt[a].plan
    /\ Done(a) => performed[a] > 0

(* A non-replayable effect was done, is being done, or was never started.  *)
Performing(c, a) == c.step \in {"perform", "sent"} /\ c.action = a
Begun(a) == receipt[a].state # "none" /\ performed[a] = 0

NotRepeated(a) == Class[a] = "non_replayable_mutation" =>
    /\ performed[a] \in {0, 1} /\ (receipt[a].state = "none" => performed[a] = 0)
    /\ \A s \in Supervisors : Performing(call[s], a) =>
          /\ Begun(a) /\ \A c \in strays : ~Performing(c, a)
          /\ \A t \in Supervisors : Performing(call[t], a) => t = s
    /\ \A c \in strays : Performing(c, a) =>
          Begun(a) /\ \A d \in strays : Performing(d, a) => d = c

(* What a run's status says of its effects.                                *)
Endings ==
    /\ lease = "live" => status = "running"
    /\ status = "completed" => DoneBelow(Len(Class) + 1)
    /\ QuarantinedOnlyUncertain

Inv ==
    /\ TypeOK /\ (\A s \in Supervisors : Sound(s)) /\ (\A c \in strays : Stray(c)) /\ Distinct
    /\ DoneBelow(chain.action) /\ (\A a \in Actions : Receipted(a) /\ NotRepeated(a))
    /\ Endings

---------------------------------------------------------------------------
LEMMA ActionsAre ==
  /\ Len(Class) \in Nat /\ \A a \in Actions : a \in Nat /\ Class[a] \in Classes
  /\ \A n \in 1 .. Len(Class) + 1 : n \notin Actions => n = Len(Class) + 1
  /\ \A a \in Actions : a \in 1 .. Len(Class) + 1 /\ a + 1 \in 1 .. Len(Class) + 1
BY ClassAssumption DEF Actions

LEMMA NoCallIs ==
  /\ NoCall \in Call /\ NoCall.step = "none" /\ Truthful(NoCall)
  /\ \A a \in Actions : ~Performing(NoCall, a)
<1>1. 1 \in 1 .. Len(Class) + 1
  BY ActionsAre
<1> QED
  BY <1>1 DEF NoCall, Call, Steps, Results, Truthful, Performing

LEMMA CallFields ==
  ASSUME NEW c \in Call
  PROVE  /\ c.step \in Steps /\ c.fence \in Nat /\ c.seq \in Nat /\ c.plan \in Plans \union {"none"}
         /\ c.action \in 1 .. Len(Class) + 1 /\ c.result \in Results /\ c.aborted \in BOOLEAN
BY DEF Call

(* A call that goes on stays the same call.                                *)
LEMMA NextCall ==
  ASSUME NEW c \in Call, NEW step \in Steps, NEW result \in Results
  PROVE  LET next == [c EXCEPT !.step = step, !.result = result]
         IN  /\ next \in Call /\ next.step = step /\ next.result = result
             /\ next.fence = c.fence /\ next.seq = c.seq /\ next.plan = c.plan
             /\ next.action = c.action /\ next.aborted = c.aborted
BY DEF Call

LEMMA CallOfIs ==
  ASSUME TypeOK, NEW s \in Supervisors, NEW step \in Steps
  PROVE  /\ CallOf(s, step) \in Call /\ CallOf(s, step).step = step
         /\ CallOf(s, step).fence = mine[s].fence /\ CallOf(s, step).seq = mine[s].seq
         /\ CallOf(s, step).plan = mine[s].plan /\ CallOf(s, step).action = mine[s].action
         /\ CallOf(s, step).result = "none"
BY DEF TypeOK, CallOf, Call, Results

Work == [fence : Nat, seq : Nat, plan : Plans \union {"none"}, action : 1 .. Len(Class) + 1]

LEMMA MineFields ==
  ASSUME TypeOK, NEW s \in Supervisors
  PROVE  /\ mine[s].fence \in Nat /\ mine[s].seq \in Nat /\ mine[s].plan \in Plans \union {"none"}
         /\ mine[s].action \in 1 .. Len(Class) + 1 /\ call[s] \in Call
         /\ mine[s] \in Work /\ mine \in [Supervisors -> Work]
BY DEF TypeOK, Work

LEMMA MineSet ==
  ASSUME TypeOK, NEW s \in Supervisors, NEW m \in Work, mine' = [mine EXCEPT ![s] = m]
  PROVE  mine' \in [Supervisors -> Work]
BY MineFields

LEMMA InitInv == Init => Inv
<1> SUFFICES ASSUME Init PROVE Inv
  OBVIOUS
<1>1. /\ status = "queued" /\ fence = 0 /\ lease = "none" /\ strays = {} /\ faults = 0
      /\ chain = [seq |-> 0, plan |-> "none", action |-> 1]
      /\ receipt = [a \in Actions |-> NoReceipt] /\ performed = [a \in Actions |-> 0]
      /\ pc = [s \in Supervisors |-> "idle"] /\ verdict = [s \in Supervisors |-> "none"]
      /\ mine = [s \in Supervisors |-> [fence |-> 0, seq |-> 0, plan |-> "none", action |-> 1]]
      /\ call = [s \in Supervisors |-> NoCall]
  BY DEF Init
<1>2. 1 \in 1 .. Len(Class) + 1 /\ \A a \in Actions : ~(a < 1)
  BY ActionsAre DEF Actions
<1>3. TypeOK
  BY <1>1, <1>2, NoCallIs DEF TypeOK, NoReceipt, Results
<1>4. \A s \in Supervisors : Sound(s)
  BY <1>1, <1>2, NoCallIs DEF Sound, Numbered, Waits, Works, Judges, DoneBelow
<1>5. /\ (\A c \in strays : Stray(c)) /\ Distinct /\ DoneBelow(chain.action) /\ Endings
  BY <1>1, <1>2 DEF Distinct, DoneBelow, Endings, QuarantinedOnlyUncertain
<1>6. \A a \in Actions : Receipted(a) /\ NotRepeated(a)
  BY <1>1, NoCallIs DEF Receipted, NotRepeated, NoReceipt, Done
<1> QED
  BY <1>3, <1>4, <1>5, <1>6 DEF Inv

(* Only what is said of the run changes.                                   *)
LEMMA GlobalInv ==
  ASSUME Inv, UNCHANGED <<fence, chain, receipt, performed, pc, mine, verdict, call, strays>>,
         status' \in {"queued", "running", "paused"} \union Ended,
         lease' \in {"none", "live", "expired"}, faults' \in Nat, Endings'
  PROVE  Inv'
<1>1. TypeOK'
  BY DEF Inv, TypeOK, Call
<1>2. \A s \in Supervisors : Sound(s)'
  BY DEF Inv, Sound, Numbered, Waits, Works, Judges, DoneBelow, Done, Truthful, Leaves, At,
     Extends, CallOf
<1>3. \A c \in strays' : Stray(c)'
  BY DEF Inv, Stray, DoneBelow, Done, Truthful, At, Extends
<1>4. Distinct' /\ DoneBelow(chain.action)'
  BY DEF Inv, Distinct, DoneBelow, Done
<1>5. \A a \in Actions : (Receipted(a) /\ NotRepeated(a))'
  BY DEF Inv, Receipted, NotRepeated, Performing, Begun, Done
<1> QED
  BY <1>1, <1>2, <1>3, <1>4, <1>5 DEF Inv

(* One execution moves, and nothing it shares with others does.            *)
LEMMA LocalInv ==
  ASSUME Inv, NEW s \in Supervisors, TypeOK', Endings',
         UNCHANGED <<fence, chain, receipt, performed, strays>>,
         \A t \in Supervisors : t # s => /\ pc'[t] = pc[t] /\ mine'[t] = mine[t]
                                         /\ verdict'[t] = verdict[t] /\ call'[t] = call[t],
         mine'[s].fence \in {0, mine[s].fence}, call'[s].step \notin {"perform", "sent"},
         Sound(s)'
  PROVE  Inv'
<1>1. ASSUME NEW t \in Supervisors PROVE Sound(t)'
  <2>1. CASE t # s
    BY <2>1 DEF Inv, Sound, Numbered, Waits, Works, Judges, DoneBelow, Done, Truthful, Leaves, At,
       Extends, CallOf
  <2> QED
    BY <2>1
<1>2. \A c \in strays' : Stray(c)'
  BY DEF Inv, Stray, DoneBelow, Done, Truthful, At, Extends
<1>3. Distinct' /\ DoneBelow(chain.action)'
  BY DEF Inv, Distinct, DoneBelow, Done
<1>4. \A a \in Actions : Receipted(a)'
  BY DEF Inv, Receipted, Done
<1>5. ASSUME NEW a \in Actions PROVE NotRepeated(a)'
  <2>1. \A t \in Supervisors : Performing(call'[t], a) => Performing(call[t], a)
    BY DEF Performing
  <2>2. NotRepeated(a)
    BY DEF Inv
  <2> QED
    BY <2>1, <2>2 DEF NotRepeated, Begun, Performing
<1> QED
  BY <1>1, <1>2, <1>3, <1>4, <1>5 DEF Inv

---------------------------------------------------------------------------
(* The invariant, as the steps use it.                                     *)
LEMMA InvIs ==
  ASSUME Inv, NEW s \in Supervisors
  PROVE  /\ TypeOK /\ Numbered(s) /\ Waits(s) /\ Works(s) /\ Judges(s)
         /\ DoneBelow(mine[s].action) /\ Truthful(call[s]) /\ \A c \in strays : Leaves(s, c)
BY DEF Inv, Sound

LEMMA PlanArrivesInv ==
  ASSUME Inv, NEW s \in Supervisors, NEW p \in Plans, PlanArrives(s, p) PROVE Inv'
<1>1. /\ pc[s] = "working" /\ mine[s].plan = "none"
      /\ mine' = [mine EXCEPT ![s].plan = p] /\ pc' = [pc EXCEPT ![s] = "saving"]
      /\ status' = status /\ fence' = fence /\ lease' = lease /\ chain' = chain
      /\ receipt' = receipt /\ performed' = performed /\ verdict' = verdict /\ call' = call
      /\ strays' = strays /\ faults' = faults
  BY DEF PlanArrives, Goto, PlanNext
<1>2. TypeOK
  BY DEF Inv
<1>3. /\ mine'[s].fence = mine[s].fence /\ mine'[s].seq = mine[s].seq
      /\ mine'[s].plan = p /\ mine'[s].action = mine[s].action /\ pc'[s] = "saving"
      /\ \A t \in Supervisors : t # s => pc'[t] = pc[t] /\ mine'[t] = mine[t]
  BY <1>1, <1>2, MineFields DEF TypeOK
<1>4. call[s] = NoCall /\ verdict[s] = "none"
  BY <1>1, InvIs DEF Waits, Judges
<1>5. TypeOK'
  <2>1. [mine[s] EXCEPT !.plan = p] \in Work
    BY <1>2, MineFields DEF Work
  <2>2. mine' \in [Supervisors -> Work]
    BY <1>1, <1>2, <2>1, MineSet
  <2> QED
    BY <1>1, <1>2, <2>2 DEF TypeOK, Call, Work
<1>6. Numbered(s)' /\ Judges(s)' /\ DoneBelow(mine[s].action)'
  BY <1>1, <1>3, <1>4, InvIs DEF Numbered, Judges, DoneBelow, Done
<1>7. Waits(s)' /\ Truthful(call[s])'
  BY <1>1, <1>3, <1>4, NoCallIs DEF Waits, Truthful
<1>8. Works(s)'
  BY <1>1, <1>3, InvIs DEF Works, At, Extends
<1>9. \A c \in strays : Leaves(s, c)'
  BY <1>1, <1>3, InvIs DEF Leaves
<1>10. Endings'
  BY <1>1 DEF Inv, Endings, DoneBelow, Done, QuarantinedOnlyUncertain, Unresolved
<1>11. Sound(s)'
  BY <1>1, <1>6, <1>7, <1>8, <1>9 DEF Sound
<1> QED
  BY <1>1, <1>3, <1>4, <1>5, <1>10, <1>11, NoCallIs, LocalInv

LEMMA IssueSaveInv ==
  ASSUME Inv, NEW s \in Supervisors, IssueSave(s) PROVE Inv'
<1>1. /\ pc[s] = "saving" /\ call' = [call EXCEPT ![s] = CallOf(s, "save")]
      /\ status' = status /\ fence' = fence /\ lease' = lease /\ chain' = chain
      /\ receipt' = receipt /\ performed' = performed /\ verdict' = verdict /\ pc' = pc
      /\ mine' = mine /\ strays' = strays /\ faults' = faults
  BY DEF IssueSave
<1>2. TypeOK
  BY DEF Inv
<1>3. /\ CallOf(s, "save") \in Call /\ CallOf(s, "save").step = "save"
  BY <1>2, CallOfIs DEF Steps
<1>4. call'[s] = CallOf(s, "save") /\ \A t \in Supervisors : t # s => call'[t] = call[t]
  BY <1>1, <1>2 DEF TypeOK
<1>5. TypeOK'
  <2>1. call' \in [Supervisors -> Call]
    BY <1>1, <1>2, <1>3 DEF TypeOK
  <2> QED
    BY <1>1, <1>2, <2>1 DEF TypeOK, Call
<1>6. /\ Numbered(s)' /\ Judges(s)' /\ DoneBelow(mine[s].action)' /\ Works(s)'
      /\ \A c \in strays : Leaves(s, c)'
  BY <1>1, InvIs DEF Numbered, Judges, DoneBelow, Done, Works, At, Extends, Leaves
<1>7. Waits(s)' /\ Truthful(call[s])'
  BY <1>1, <1>3, <1>4 DEF Waits, Truthful, CallOf
<1>8. Endings'
  BY <1>1 DEF Inv, Endings, DoneBelow, Done, QuarantinedOnlyUncertain, Unresolved
<1>9. Sound(s)'
  BY <1>1, <1>6, <1>7 DEF Sound
<1> QED
  BY <1>1, <1>3, <1>4, <1>5, <1>8, <1>9, LocalInv

LEMMA StartCallInv ==
  ASSUME Inv, NEW s \in Supervisors, StartCall(s) PROVE Inv'
<1>1. /\ pc[s] = "working" /\ mine[s].plan # "none" /\ mine[s].action \in Actions
      /\ call' = [call EXCEPT ![s] = CallOf(s, "prepare")] /\ pc' = [pc EXCEPT ![s] = "waiting"]
      /\ status' = status /\ fence' = fence /\ lease' = lease /\ chain' = chain
      /\ receipt' = receipt /\ performed' = performed /\ verdict' = verdict
      /\ mine' = mine /\ strays' = strays /\ faults' = faults
  BY DEF StartCall, Goto
<1>2. TypeOK
  BY DEF Inv
<1>3. /\ CallOf(s, "prepare") \in Call /\ CallOf(s, "prepare").step = "prepare"
      /\ CallOf(s, "prepare").fence = mine[s].fence /\ CallOf(s, "prepare").plan = mine[s].plan
      /\ CallOf(s, "prepare").action = mine[s].action
  BY <1>2, CallOfIs DEF Steps
<1>4. /\ call'[s] = CallOf(s, "prepare") /\ pc'[s] = "waiting"
      /\ \A t \in Supervisors : t # s => call'[t] = call[t] /\ pc'[t] = pc[t]
  BY <1>1, <1>2 DEF TypeOK
<1>5. TypeOK'
  <2>1. call' \in [Supervisors -> Call]
    BY <1>1, <1>2, <1>3 DEF TypeOK
  <2> QED
    BY <1>1, <1>2, <2>1 DEF TypeOK, Call
<1>6. /\ Numbered(s)' /\ Judges(s)' /\ DoneBelow(mine[s].action)' /\ Works(s)'
      /\ \A c \in strays : Leaves(s, c)'
  BY <1>1, <1>4, InvIs DEF Numbered, Judges, DoneBelow, Done, Works, At, Extends, Leaves
<1>7. Waits(s)' /\ Truthful(call[s])'
  BY <1>1, <1>3, <1>4 DEF Waits, Truthful, Requests
<1>8. Endings'
  BY <1>1 DEF Inv, Endings, DoneBelow, Done, QuarantinedOnlyUncertain, Unresolved
<1>9. Sound(s)'
  BY <1>1, <1>6, <1>7 DEF Sound
<1> QED
  BY <1>1, <1>3, <1>4, <1>5, <1>8, <1>9, LocalInv

(* The execution uses what its call has learnt.                            *)
LEMMA UseAnswerInv ==
  ASSUME Inv, NEW s \in Supervisors, UseAnswer(s) PROVE Inv'
<1>1. /\ pc[s] = "waiting" /\ call[s].step \in {"answered", "unsafe", "threw"}
      /\ call' = [call EXCEPT ![s] = NoCall]
      /\ status' = status /\ fence' = fence /\ lease' = lease /\ chain' = chain
      /\ receipt' = receipt /\ performed' = performed
      /\ strays' = strays /\ faults' = faults
  BY DEF UseAnswer
<1>2. TypeOK /\ verdict[s] = "none"
  BY <1>1, InvIs DEF Judges
<1>3. /\ call[s].fence = mine[s].fence /\ call[s].plan = mine[s].plan
      /\ call[s].action = mine[s].action /\ mine[s].action \in Actions
      /\ mine[s].action + 1 \in 1 .. Len(Class) + 1 /\ mine[s].fence \in Nat
  BY <1>1, <1>2, InvIs, ActionsAre, MineFields DEF Waits
<1>4. call'[s] = NoCall /\ \A t \in Supervisors : t # s => call'[t] = call[t]
  BY <1>1, <1>2 DEF TypeOK
<1>5. call' \in [Supervisors -> Call]
  BY <1>1, <1>2, NoCallIs DEF TypeOK
<1>6. /\ mine' = mine \/ (Succeeded(call[s]) /\ mine' = [mine EXCEPT ![s].action = @ + 1])
      /\ \/ pc' = [pc EXCEPT ![s] = "saving"] /\ verdict' = verdict
         \/ /\ pc' = [pc EXCEPT ![s] = "releasing"] /\ verdict' = verdict /\ mine' = mine
         \/ /\ pc' = [pc EXCEPT ![s] = "finalizing"] /\ mine' = mine
            /\ \/ call[s].step = "unsafe" /\ verdict' = [verdict EXCEPT ![s] = "quarantined"]
               \/ verdict' = [verdict EXCEPT ![s] = "failed"]
  BY DEF UseAnswer, Goto, Select
<1>7. /\ mine'[s].fence = mine[s].fence /\ mine'[s].seq = mine[s].seq
      /\ mine'[s].plan = mine[s].plan
      /\ \/ mine'[s].action = mine[s].action
         \/ mine'[s].action = mine[s].action + 1 /\ Succeeded(call[s]) /\ pc'[s] = "saving"
      /\ \A t \in Supervisors : t # s =>
            mine'[t] = mine[t] /\ pc'[t] = pc[t] /\ verdict'[t] = verdict[t]
  <2>1. CASE mine' = mine
    BY <1>2, <1>6, <2>1 DEF TypeOK
  <2>2. CASE Succeeded(call[s]) /\ mine' = [mine EXCEPT ![s].action = @ + 1] /\ mine' # mine
    <3>1. pc' = [pc EXCEPT ![s] = "saving"] /\ verdict' = verdict
      BY <1>6, <2>2
    <3> QED
      BY <1>2, <2>2, <3>1, MineFields DEF TypeOK
  <2> QED
    BY <1>6, <2>1, <2>2
<1>8. \/ pc'[s] = "saving" /\ verdict'[s] = "none"
      \/ pc'[s] = "releasing" /\ verdict'[s] = "none"
      \/ pc'[s] = "finalizing" /\ verdict'[s] = "failed"
      \/ pc'[s] = "finalizing" /\ verdict'[s] = "quarantined" /\ call[s].step = "unsafe"
         /\ mine'[s].action = mine[s].action
  BY <1>2, <1>6 DEF TypeOK
<1>9. TypeOK'
  <2>1. mine' \in [Supervisors -> Work]
    <3>1. [mine[s] EXCEPT !.action = mine[s].action + 1] \in Work
      BY <1>2, <1>3, MineFields DEF Work
    <3>2. mine' = mine \/ mine' = [mine EXCEPT ![s] = [mine[s] EXCEPT !.action = mine[s].action + 1]]
      BY <1>6
    <3> QED
      BY <1>2, <3>1, <3>2, MineFields, MineSet
  <2>2. pc' \in [Supervisors -> {"idle", "working", "saving", "waiting", "finalizing", "releasing"}]
        /\ verdict' \in [Supervisors -> Ended \union {"none"}]
    BY <1>2, <1>6 DEF TypeOK, Ended
  <2> QED
    BY <1>1, <1>2, <1>5, <2>1, <2>2 DEF TypeOK, Call, Work
<1>10. Numbered(s)'
  BY <1>1, <1>7, <1>8, InvIs DEF Numbered
<1>11. Waits(s)' /\ Truthful(call[s])'
  BY <1>4, <1>8, NoCallIs DEF Waits, Truthful
<1>12. Works(s)'
  BY <1>1, <1>7, <1>8, InvIs DEF Works, At, Extends
<1>13. Judges(s)'
  BY <1>1, <1>3, <1>7, <1>8, InvIs DEF Judges, Truthful
<1>14. DoneBelow(mine[s].action)'
  <2>1. CASE mine'[s].action = mine[s].action
    BY <1>1, <2>1, InvIs DEF DoneBelow, Done
  <2>2. CASE mine'[s].action = mine[s].action + 1 /\ Succeeded(call[s])
    <3>1. Done(mine[s].action)
      BY <1>3, <2>2, InvIs DEF Truthful, Succeeded, Done
    <3>2. ASSUME NEW a \in Actions, a < mine'[s].action PROVE Done(a)
      <4>1. a < mine[s].action \/ a = mine[s].action
        BY <1>3, <2>2, <3>2, ActionsAre
      <4> QED
        BY <3>1, <4>1, InvIs DEF DoneBelow
    <3> QED
      BY <1>1, <3>2 DEF DoneBelow, Done
  <2> QED
    BY <1>7, <2>1, <2>2
<1>15. \A c \in strays : Leaves(s, c)'
  <2>1. \A c \in strays : mine[s].fence # c.fence
    BY <1>1, InvIs DEF Leaves
  <2> QED
    BY <1>7, <2>1 DEF Leaves
<1>16. Endings'
  BY <1>1 DEF Inv, Endings, DoneBelow, Done, QuarantinedOnlyUncertain, Unresolved
<1>17. Sound(s)'
  BY <1>1, <1>10, <1>11, <1>12, <1>13, <1>14, <1>15 DEF Sound
<1> QED
  BY <1>1, <1>4, <1>7, <1>9, <1>16, <1>17, NoCallIs, LocalInv

LEMMA DecideInv ==
  ASSUME Inv, NEW s \in Supervisors, Decide(s) PROVE Inv'
<1>1. /\ pc[s] = "working" /\ mine[s].action \notin Actions
      /\ pc' = [pc EXCEPT ![s] = "finalizing"] /\ verdict' = [verdict EXCEPT ![s] = "completed"]
      /\ status' = status /\ fence' = fence /\ lease' = lease /\ chain' = chain
      /\ receipt' = receipt /\ performed' = performed /\ mine' = mine /\ call' = call
      /\ strays' = strays /\ faults' = faults
  BY DEF Decide, Select, Goto
<1>2. TypeOK /\ call[s] = NoCall
  BY <1>1, InvIs DEF Waits
<1>3. /\ pc'[s] = "finalizing" /\ verdict'[s] = "completed"
      /\ \A t \in Supervisors : t # s => pc'[t] = pc[t] /\ verdict'[t] = verdict[t]
  BY <1>1, <1>2 DEF TypeOK
<1>4. TypeOK'
  BY <1>1, <1>2 DEF TypeOK, Call, Ended
<1>5. /\ Numbered(s)' /\ Judges(s)' /\ DoneBelow(mine[s].action)' /\ Works(s)'
      /\ \A c \in strays : Leaves(s, c)'
  BY <1>1, <1>3, InvIs DEF Numbered, Judges, DoneBelow, Done, Works, Leaves
<1>6. Waits(s)' /\ Truthful(call[s])'
  BY <1>1, <1>2, <1>3, NoCallIs DEF Waits, Truthful
<1>7. Endings'
  BY <1>1 DEF Inv, Endings, DoneBelow, Done, QuarantinedOnlyUncertain, Unresolved
<1>8. Sound(s)'
  BY <1>1, <1>5, <1>6 DEF Sound
<1> QED
  BY <1>1, <1>2, <1>3, <1>4, <1>7, <1>8, NoCallIs, LocalInv

(* A run is completed or quarantined as its effects allow.                 *)
LEMMA FinalizeInv ==
  ASSUME Inv, NEW s \in Supervisors, Finalize(s) PROVE Inv'
<1>1. /\ pc[s] = "finalizing" /\ pc' = [pc EXCEPT ![s] = "releasing"]
      /\ \/ /\ Fenced(mine[s].fence) /\ status' = verdict[s] /\ lease' = "none"
         \/ status' = status /\ lease' = lease
      /\ fence' = fence /\ chain' = chain /\ verdict' = verdict
      /\ receipt' = receipt /\ performed' = performed /\ mine' = mine /\ call' = call
      /\ strays' = strays /\ faults' = faults
  BY DEF Finalize, Goto
<1>2. /\ TypeOK /\ call[s] = NoCall /\ verdict[s] # "none"
      /\ verdict[s] \in Ended \union {"none"}
  BY <1>1, InvIs DEF Waits, Judges, TypeOK
<1>3. pc'[s] = "releasing" /\ \A t \in Supervisors : t # s => pc'[t] = pc[t]
  BY <1>1, <1>2 DEF TypeOK
<1>4. TypeOK'
  BY <1>1, <1>2 DEF TypeOK, Call
<1>5. /\ Numbered(s)' /\ Judges(s)' /\ DoneBelow(mine[s].action)' /\ Works(s)'
      /\ \A c \in strays : Leaves(s, c)'
  BY <1>1, <1>3, InvIs DEF Numbered, Judges, DoneBelow, Done, Works, Leaves
<1>6. Waits(s)' /\ Truthful(call[s])'
  BY <1>1, <1>2, <1>3, NoCallIs DEF Waits, Truthful
<1>7. Endings'
  <2>1. CASE Fenced(mine[s].fence) /\ status' = verdict[s] /\ lease' = "none"
    <3>1. status' = "completed" => DoneBelow(Len(Class) + 1)'
      <4> SUFFICES ASSUME status' = "completed" PROVE DoneBelow(Len(Class) + 1)'
        OBVIOUS
      <4>1. mine[s].action = Len(Class) + 1
        BY <1>1, <1>2, <2>1, InvIs, ActionsAre, MineFields DEF Judges
      <4> QED
        BY <1>1, <4>1, InvIs DEF DoneBelow, Done
    <3>2. QuarantinedOnlyUncertain'
      <4> SUFFICES ASSUME status' = "quarantined"
                   PROVE  \E a \in Unresolved' : Class[a] # "idempotent_mutation"
        BY DEF QuarantinedOnlyUncertain
      <4>1. /\ mine[s].action \in Actions /\ Class[mine[s].action] # "idempotent_mutation"
            /\ receipt[mine[s].action].state = "prepared"
        BY <1>1, <2>1, InvIs DEF Judges, Fenced
      <4>2. mine[s].action \in Unresolved'
        BY <1>1, <4>1 DEF Unresolved
      <4> QED
        BY <4>1, <4>2
    <3> QED
      BY <2>1, <3>1, <3>2 DEF Endings
  <2>2. CASE status' = status /\ lease' = lease
    BY <1>1, <2>2 DEF Inv, Endings, DoneBelow, Done, QuarantinedOnlyUncertain, Unresolved
  <2> QED
    BY <1>1, <2>1, <2>2
<1>8. Sound(s)'
  BY <1>1, <1>5, <1>6 DEF Sound
<1> QED
  BY <1>1, <1>2, <1>3, <1>4, <1>7, <1>8, NoCallIs, LocalInv

LEMMA ReleaseInv ==
  ASSUME Inv, NEW s \in Supervisors, Release(s) PROVE Inv'
<1> DEFINE none == [fence |-> 0, seq |-> 0, plan |-> "none", action |-> 1]
<1>1. /\ pc[s] = "releasing" /\ pc' = [pc EXCEPT ![s] = "idle"]
      /\ verdict' = [verdict EXCEPT ![s] = "none"] /\ mine' = [mine EXCEPT ![s] = none]
      /\ lease' \in {"none", lease} /\ status' = status /\ fence' = fence /\ chain' = chain
      /\ receipt' = receipt /\ performed' = performed /\ call' = call
      /\ strays' = strays /\ faults' = faults
  BY DEF Release, Goto
<1>2. TypeOK /\ call[s] = NoCall
  BY <1>1, InvIs DEF Waits
<1>3. none \in Work
  BY ActionsAre DEF Work
<1>4. /\ pc'[s] = "idle" /\ verdict'[s] = "none" /\ mine'[s] = none
      /\ \A t \in Supervisors : t # s =>
            pc'[t] = pc[t] /\ verdict'[t] = verdict[t] /\ mine'[t] = mine[t]
  BY <1>1, <1>2, MineFields DEF TypeOK
<1>5. TypeOK'
  <2>1. mine' \in [Supervisors -> Work]
    BY <1>1, <1>2, <1>3, MineSet
  <2>2. lease' \in {"none", "live", "expired"}
    BY <1>1, <1>2 DEF TypeOK
  <2> QED
    BY <1>1, <1>2, <2>1, <2>2 DEF TypeOK, Call, Work
<1>6. Numbered(s)' /\ Judges(s)' /\ Works(s)'
  BY <1>1, <1>2, <1>4 DEF Numbered, Judges, Works, TypeOK
<1>7. Waits(s)' /\ Truthful(call[s])'
  BY <1>1, <1>2, <1>4, NoCallIs DEF Waits, Truthful
<1>8. DoneBelow(mine[s].action)'
  BY <1>4, ActionsAre DEF DoneBelow, Actions
<1>9. \A c \in strays : Leaves(s, c)'
  <2>1. \A c \in strays : c.fence # 0
    BY <1>2 DEF Inv, Stray, TypeOK
  <2> QED
    BY <1>4, <2>1 DEF Leaves
<1>10. Endings'
  BY <1>1 DEF Inv, Endings, DoneBelow, Done, QuarantinedOnlyUncertain, Unresolved
<1>11. Sound(s)'
  BY <1>1, <1>6, <1>7, <1>8, <1>9 DEF Sound
<1> QED
  BY <1>1, <1>2, <1>4, <1>5, <1>10, <1>11, NoCallIs, LocalInv

(* A new execution restores the newest checkpoint under a new fence, and   *)
(* whatever the others do is old.                                          *)
LEMMA AcquireInv ==
  ASSUME Inv, NEW s \in Supervisors, Acquire(s) PROVE Inv'
<1> DEFINE m == [fence |-> fence + 1, seq |-> chain.seq, plan |-> chain.plan,
                 action |-> chain.action]
<1>1. /\ pc[s] = "idle" /\ status' = "running" /\ fence' = fence + 1 /\ lease' = "live"
      /\ mine' = [mine EXCEPT ![s] = m] /\ pc' = [pc EXCEPT ![s] = "working"]
      /\ chain' = chain /\ receipt' = receipt /\ performed' = performed
      /\ verdict' = verdict /\ call' = call /\ strays' = strays /\ faults' = faults
  BY DEF Acquire, Goto
<1>2. TypeOK /\ call[s] = NoCall /\ verdict[s] = "none" /\ fence \in Nat
  BY <1>1, InvIs DEF Waits, Judges, TypeOK
<1>3. m \in Work
  BY <1>2 DEF Work, TypeOK
<1>4. /\ pc'[s] = "working" /\ mine'[s] = m
      /\ \A t \in Supervisors : t # s => pc'[t] = pc[t] /\ mine'[t] = mine[t]
  BY <1>1, <1>2, MineFields DEF TypeOK
<1>5. TypeOK'
  <2>1. mine' \in [Supervisors -> Work]
    BY <1>1, <1>2, <1>3, MineSet
  <2> QED
    BY <1>1, <1>2, <2>1 DEF TypeOK, Call, Work
<1>6. ASSUME NEW t \in Supervisors, t # s PROVE Sound(t)'
  <2>1. mine[t].fence \in Nat /\ mine[t].fence <= fence /\ mine[t].fence # fence + 1
    BY <1>2, InvIs, MineFields DEF Numbered
  <2>2. Numbered(t)' /\ Works(t)'
    <3>1. mine[t].fence <= fence + 1
      BY <1>2, <2>1
    <3> QED
      BY <1>1, <1>4, <1>6, <2>1, <3>1, InvIs DEF Numbered, Works
  <2>6. DoneBelow(mine[t].action)'
    BY <1>1, <1>4, <1>6, InvIs DEF DoneBelow, Done
  <2>7. \A c \in strays : Leaves(t, c)'
    BY <1>1, <1>4, <1>6, InvIs DEF Leaves
  <2>3. Waits(t)'
    BY <1>1, <1>4, <1>6, InvIs DEF Waits, CallOf
  <2>4. Judges(t)'
    BY <1>1, <1>4, <1>6, <2>1, InvIs DEF Judges
  <2>5. Truthful(call[t])'
    <3>1. call[t].step \in {"reconcile", "unsafe"} => call[t].fence = mine[t].fence
      <4>1. CASE pc[t] = "waiting"
        BY <4>1, InvIs DEF Waits
      <4>2. CASE pc[t] # "waiting"
        <5>1. call[t] = NoCall \/ call[t] = CallOf(t, "save")
          BY <4>2, InvIs DEF Waits
        <5> QED
          BY <1>2, <5>1, NoCallIs, CallOfIs DEF Steps
      <4> QED
        BY <4>1, <4>2
    <3> QED
      BY <1>1, <2>1, <3>1, InvIs DEF Truthful
  <2> QED
    BY <1>1, <2>2, <2>3, <2>4, <2>5, <2>6, <2>7 DEF Sound
<1>7. Sound(s)'
  <2>1. Numbered(s)' /\ Works(s)' /\ Judges(s)'
    BY <1>1, <1>2, <1>4 DEF Numbered, Works, At, Judges
  <2>2. Waits(s)' /\ Truthful(call[s])'
    BY <1>1, <1>2, <1>4, NoCallIs DEF Waits, Truthful
  <2>3. DoneBelow(mine[s].action)'
    BY <1>1, <1>4 DEF Inv, DoneBelow, Done
  <2>4. \A c \in strays : Leaves(s, c)'
    <3>1. \A c \in strays : c.fence # fence + 1
      BY <1>2 DEF Inv, Stray
    <3> QED
      BY <1>4, <3>1 DEF Leaves
  <2> QED
    BY <1>1, <2>1, <2>2, <2>3, <2>4 DEF Sound
<1>8. ASSUME NEW c \in strays PROVE Stray(c)'
  <2>1. Stray(c) /\ c.fence \in 1 .. fence + 1 /\ c.fence # fence + 1
    BY <1>2 DEF Inv, Stray
  <2> QED
    BY <1>1, <2>1 DEF Stray, DoneBelow, Done, Truthful
<1>9. Distinct'
  <2>1. \A t \in Supervisors : mine[t].fence # fence + 1
    BY <1>2, InvIs, MineFields DEF Numbered
  <2> QED
    BY <1>1, <1>4, <2>1 DEF Inv, Distinct
<1>10. /\ DoneBelow(chain.action)' /\ Endings'
       /\ \A a \in Actions : Receipted(a)' /\ NotRepeated(a)'
  BY <1>1 DEF Inv, DoneBelow, Done, Endings, QuarantinedOnlyUncertain, Receipted, NotRepeated,
     Performing, Begun
<1> QED
  BY <1>1, <1>5, <1>6, <1>7, <1>8, <1>9, <1>10 DEF Inv

---------------------------------------------------------------------------
LEMMA LeaseExpiresInv ==
  ASSUME Inv, LeaseExpires PROVE Inv'
<1>1. /\ lease' = "expired" /\ status' = status /\ faults' \in Nat
      /\ UNCHANGED <<fence, chain, receipt, performed, pc, mine, verdict, call, strays>>
  BY DEF LeaseExpires, Fault, Inv, TypeOK
<1>2. Endings' /\ status \in {"queued", "running", "paused"} \union Ended
  BY <1>1 DEF Inv, TypeOK, Endings, DoneBelow, Done, QuarantinedOnlyUncertain, Unresolved
<1> QED
  BY <1>1, <1>2, GlobalInv

LEMMA PauseResumeInv ==
  ASSUME Inv, Pause \/ Resume PROVE Inv'
<1>1. /\ status' \in {"queued", "paused"} /\ lease' \in {"none", lease} /\ faults' \in Nat
      /\ lease' = "none" \/ status # "running"
      /\ UNCHANGED <<fence, chain, receipt, performed, pc, mine, verdict, call, strays>>
  BY DEF Pause, Resume, Fault, Inv, TypeOK
<1>2. /\ Endings' /\ lease' \in {"none", "live", "expired"}
      /\ status' \in {"queued", "running", "paused"} \union Ended
  BY <1>1 DEF Inv, TypeOK, Endings, QuarantinedOnlyUncertain
<1> QED
  BY <1>1, <1>2, GlobalInv

(* Recovery finds nothing the invariant would not let it find.             *)
LEMMA IssueIsUncertain ==
  ASSUME Inv, RecoverySafetyIssue
  PROVE  \E a \in Unresolved : Class[a] # "idempotent_mutation"
<1>1. /\ \A a \in Actions : a < chain.action => receipt[a].state = "completed"
      /\ \A a \in Unresolved : chain.action = a /\ chain.plan = receipt[a].plan
                               /\ chain.plan # "none"
  BY DEF Inv, DoneBelow, Done, Receipted, Unresolved
<1>2. ~(Cardinality(Unresolved) > 1)
  <2>1. CASE Unresolved = {}
    BY <2>1, FS_EmptySet
  <2>2. CASE Unresolved # {}
    <3>1. Unresolved = {chain.action}
      BY <1>1, <2>2, Zenon
    <3>2. Cardinality({chain.action}) = 1
      BY FS_Singleton
    <3> QED
      BY <3>1, <3>2
  <2> QED
    BY <2>1, <2>2
<1>3. PICK a \in Unresolved : Class[a] = "non_replayable_mutation"
  BY <1>1, <1>2 DEF RecoverySafetyIssue
<1> QED
  BY <1>3

LEMMA RecoverInv ==
  ASSUME Inv, Recover PROVE Inv'
<1>1. /\ lease' = "none" /\ status = "running"
      /\ status' = IF RecoverySafetyIssue THEN "quarantined" ELSE status
      /\ faults' = faults
      /\ UNCHANGED <<fence, chain, receipt, performed, pc, mine, verdict, call, strays>>
  BY DEF Recover
<1>2. Endings'
  <2>1. CASE RecoverySafetyIssue
    BY <1>1, <2>1, IssueIsUncertain DEF Endings, QuarantinedOnlyUncertain, Unresolved
  <2>2. CASE ~RecoverySafetyIssue
    BY <1>1, <2>2 DEF Endings, QuarantinedOnlyUncertain
  <2> QED
    BY <2>1, <2>2
<1>3. faults' \in Nat /\ status' \in {"queued", "running", "paused"} \union Ended
  BY <1>1 DEF Inv, TypeOK, Ended
<1> QED
  BY <1>1, <1>2, <1>3, GlobalInv
---------------------------------------------------------------------------
(* A save brings the newest checkpoint on as far as what is done.          *)
LEMMA ChainInv ==
  ASSUME Inv, NEW c \in Call, c.seq = chain.seq, Extends(c), DoneBelow(c.action),
         chain' = Checkpoint(c), UNCHANGED <<status, fence, lease, receipt, performed>>
  PROVE  /\ chain'.seq = c.seq + 1 /\ chain'.plan = c.plan /\ chain'.action = c.action
         /\ chain' \in [seq : Nat, plan : Plans \union {"none"}, action : 1 .. Len(Class) + 1]
         /\ DoneBelow(chain.action)' /\ Endings' /\ \A a \in Actions : Receipted(a)'
<1>1. /\ chain'.seq = c.seq + 1 /\ chain'.plan = c.plan /\ chain'.action = c.action
  BY DEF Checkpoint
<1>2. chain' \in [seq : Nat, plan : Plans \union {"none"}, action : 1 .. Len(Class) + 1]
  BY CallFields DEF Checkpoint
<1>3. DoneBelow(chain.action)'
  BY <1>1 DEF DoneBelow, Done
<1>4. Endings'
  BY DEF Inv, Endings, DoneBelow, Done, QuarantinedOnlyUncertain, Unresolved
<1>5. ASSUME NEW a \in Actions PROVE Receipted(a)'
  <2>1. Receipted(a)
    BY DEF Inv
  <2>2. ASSUME receipt[a].state = "prepared" PROVE chain'.action = a /\ chain'.plan = receipt[a].plan
    <3>1. chain.action = a /\ chain.plan = receipt[a].plan /\ chain.plan # "none"
      BY <2>1, <2>2 DEF Receipted
    <3>2. ~Done(a)
      BY <2>2 DEF Done
    <3>3. ~(a < c.action)
      BY <3>2 DEF DoneBelow
    <3>4. c.action # chain.action + 1
      BY <3>1, <3>3, ActionsAre
    <3> QED
      BY <1>1, <3>1, <3>4 DEF Extends
  <2> QED
    BY <2>1, <2>2 DEF Receipted, Done
<1> QED
  BY <1>1, <1>2, <1>3, <1>4, <1>5

LEMMA StoreSaveInv ==
  ASSUME Inv, NEW s \in Supervisors, StoreSave(s) PROVE Inv'
<1>1. /\ pc[s] = "saving" /\ call[s].step = "save" /\ call' = [call EXCEPT ![s] = NoCall]
      /\ status' = status /\ fence' = fence /\ lease' = lease /\ receipt' = receipt
      /\ performed' = performed /\ verdict' = verdict /\ strays' = strays /\ faults' = faults
  BY DEF StoreSave
<1>2. TypeOK /\ verdict[s] = "none" /\ call[s] = CallOf(s, "save") /\ call[s] \in Call
  BY <1>1, InvIs, NoCallIs, MineFields DEF Judges, Waits
<1>3. /\ call[s].fence = mine[s].fence /\ call[s].seq = mine[s].seq
      /\ call[s].plan = mine[s].plan /\ call[s].action = mine[s].action
  BY <1>2, CallOfIs DEF Steps
<1>4. /\ call'[s] = NoCall /\ call' \in [Supervisors -> Call]
      /\ \A t \in Supervisors : t # s => call'[t] = call[t]
  BY <1>1, <1>2, NoCallIs DEF TypeOK
<1>5. \A c \in strays : mine[s].fence # c.fence
  BY <1>1, InvIs DEF Leaves
<1>6. CASE SaveAccepted(call[s])
  <2>1. /\ chain' = Checkpoint(call[s]) /\ pc' = [pc EXCEPT ![s] = "working"]
        /\ mine' = [mine EXCEPT ![s] = [mine[s] EXCEPT !.seq = mine[s].seq + 1]]
        /\ fence = mine[s].fence /\ mine[s].seq = chain.seq
    BY <1>1, <1>3, <1>6 DEF StoreSave, Goto, SaveAccepted, Fenced
  <2>2. [mine[s] EXCEPT !.seq = mine[s].seq + 1] \in Work
    BY <1>2, MineFields DEF Work
  <2>3. /\ pc'[s] = "working" /\ mine'[s].seq = mine[s].seq + 1 /\ mine'[s].fence = mine[s].fence
        /\ mine'[s].plan = mine[s].plan /\ mine'[s].action = mine[s].action
        /\ \A t \in Supervisors : t # s => pc'[t] = pc[t] /\ mine'[t] = mine[t]
    BY <1>2, <2>1, MineFields DEF TypeOK, Work
  <2>4. Extends(call[s]) /\ DoneBelow(call[s].action)
    BY <1>1, <1>3, <2>1, InvIs DEF Works, Extends
  <2>5. /\ chain'.seq = call[s].seq + 1 /\ chain'.plan = call[s].plan
        /\ chain'.action = call[s].action
        /\ chain' \in [seq : Nat, plan : Plans \union {"none"}, action : 1 .. Len(Class) + 1]
        /\ DoneBelow(chain.action)' /\ Endings' /\ \A a \in Actions : Receipted(a)'
    BY <1>1, <1>2, <1>3, <2>1, <2>4, ChainInv
  <2>6. TypeOK'
    <3>1. mine' \in [Supervisors -> Work]
      BY <1>2, <2>1, <2>2, MineSet
    <3> QED
      BY <1>1, <1>2, <1>4, <2>1, <2>5, <3>1 DEF TypeOK, Call, Work
  <2>7. Sound(s)'
    <3>1. Numbered(s)' /\ Judges(s)' /\ Works(s)'
      BY <1>1, <1>2, <1>3, <2>3, <2>5, InvIs DEF Numbered, Judges, Works, At
    <3>2. Waits(s)' /\ Truthful(call[s])'
      BY <1>4, <2>3, NoCallIs DEF Waits, Truthful
    <3>3. DoneBelow(mine[s].action)' /\ \A c \in strays : Leaves(s, c)'
      BY <1>1, <1>5, <2>3, InvIs DEF DoneBelow, Done, Leaves
    <3> QED
      BY <1>1, <3>1, <3>2, <3>3 DEF Sound
  <2>8. ASSUME NEW t \in Supervisors, t # s PROVE Sound(t)'
    <3>1. mine[t].fence # fence
      BY <1>1, <2>1, <2>8, InvIs DEF Inv, Distinct, Numbered
    <3>2. Numbered(t)' /\ Works(t)' /\ \A c \in strays : Leaves(t, c)'
      BY <1>1, <2>3, <2>8, <3>1, InvIs DEF Numbered, Works, Leaves
    <3>3. Waits(t)' /\ Judges(t)' /\ DoneBelow(mine[t].action)' /\ Truthful(call[t])'
      BY <1>1, <1>4, <2>3, <2>8, InvIs DEF Waits, CallOf, Judges, DoneBelow, Done, Truthful
    <3> QED
      BY <1>1, <3>2, <3>3 DEF Sound
  <2>9. ASSUME NEW c \in strays PROVE Stray(c)'
    <3>1. c.fence # fence /\ Stray(c)
      BY <1>5, <2>1 DEF Inv
    <3> QED
      BY <1>1, <3>1 DEF Stray, DoneBelow, Done, Truthful
  <2>10. Distinct'
    BY <1>1, <2>3 DEF Inv, Distinct
  <2>11. ASSUME NEW a \in Actions PROVE NotRepeated(a)'
    <3>1. \A t \in Supervisors : Performing(call'[t], a) => Performing(call[t], a)
      BY <1>4, NoCallIs DEF Performing
    <3>2. NotRepeated(a)
      BY DEF Inv
    <3> QED
      BY <1>1, <3>1, <3>2 DEF NotRepeated, Begun, Performing
  <2> QED
    BY <1>1, <2>5, <2>6, <2>7, <2>8, <2>9, <2>10, <2>11 DEF Inv
<1>7. CASE ~SaveAccepted(call[s])
  <2>1. pc' = [pc EXCEPT ![s] = "releasing"] /\ chain' = chain /\ mine' = mine
    BY <1>7 DEF StoreSave, Goto
  <2>2. pc'[s] = "releasing" /\ \A t \in Supervisors : t # s => pc'[t] = pc[t]
    BY <1>2, <2>1 DEF TypeOK
  <2>3. TypeOK'
    BY <1>1, <1>2, <1>4, <2>1 DEF TypeOK, Call
  <2>4. /\ Numbered(s)' /\ Judges(s)' /\ DoneBelow(mine[s].action)' /\ Works(s)'
        /\ \A c \in strays : Leaves(s, c)'
    BY <1>1, <1>2, <1>5, <2>1, <2>2, InvIs DEF Numbered, Judges, DoneBelow, Done, Works, Leaves
  <2>5. Waits(s)' /\ Truthful(call[s])'
    BY <1>4, <2>2, NoCallIs DEF Waits, Truthful
  <2>6. Endings'
    BY <1>1 DEF Inv, Endings, DoneBelow, Done, QuarantinedOnlyUncertain, Unresolved
  <2>7. Sound(s)'
    BY <1>1, <2>4, <2>5 DEF Sound
  <2> QED
    BY <1>1, <1>4, <2>1, <2>2, <2>3, <2>6, <2>7, NoCallIs, LocalInv
<1> QED
  BY <1>6, <1>7

LEMMA StraySaveInv ==
  ASSUME Inv, NEW c \in strays, StraySave(c) PROVE Inv'
<1>1. /\ c.step = "save" /\ fence = c.fence /\ chain.seq = c.seq /\ chain' = Checkpoint(c)
      /\ strays' = strays \ {c}
      /\ status' = status /\ fence' = fence /\ lease' = lease /\ receipt' = receipt
      /\ performed' = performed /\ pc' = pc /\ mine' = mine /\ verdict' = verdict
      /\ call' = call /\ faults' = faults
  BY DEF StraySave, SaveAccepted, Fenced
<1>2. TypeOK /\ c \in Call /\ Stray(c) /\ Extends(c) /\ DoneBelow(c.action)
  BY <1>1 DEF Inv, TypeOK, Stray
<1>3. /\ chain' \in [seq : Nat, plan : Plans \union {"none"}, action : 1 .. Len(Class) + 1]
      /\ DoneBelow(chain.action)' /\ Endings' /\ \A a \in Actions : Receipted(a)'
  BY <1>1, <1>2, ChainInv
<1>4. TypeOK'
  BY <1>1, <1>2, <1>3 DEF TypeOK, Call
<1>5. ASSUME NEW t \in Supervisors PROVE Sound(t)'
  <2>1. mine[t].fence = fence => pc[t] \in {"finalizing", "releasing"}
    BY <1>1, InvIs DEF Leaves
  <2>2. Numbered(t)' /\ Works(t)' /\ \A d \in strays' : Leaves(t, d)'
    BY <1>1, <2>1, InvIs DEF Numbered, Works, Leaves
  <2>3. Waits(t)' /\ Judges(t)' /\ DoneBelow(mine[t].action)' /\ Truthful(call[t])'
    BY <1>1, InvIs DEF Waits, CallOf, Judges, DoneBelow, Done, Truthful
  <2> QED
    BY <1>1, <2>2, <2>3 DEF Sound
<1>6. ASSUME NEW d \in strays' PROVE Stray(d)'
  <2>1. d.fence # fence /\ Stray(d)
    BY <1>1 DEF Inv, Distinct
  <2> QED
    BY <1>1, <2>1 DEF Stray, DoneBelow, Done, Truthful
<1>7. Distinct' /\ \A a \in Actions : NotRepeated(a)'
  BY <1>1 DEF Inv, Distinct, NotRepeated, Performing, Begun
<1> QED
  BY <1>1, <1>3, <1>4, <1>5, <1>6, <1>7 DEF Inv
---------------------------------------------------------------------------
(* What one step of a call does to its receipt, to the world, to itself.   *)
Opened(c) == [state |-> "prepared", plan |-> c.plan, result |-> "none"]
Closed(c) == [state |-> "completed", plan |-> receipt[c.action].plan, result |-> c.result]

ReceiptMoves(c) ==
    \/ receipt' = receipt
    \/ /\ Fenced(c.fence) /\ c.step = "prepare" /\ receipt[c.action].state = "none"
       /\ receipt' = [receipt EXCEPT ![c.action] = Opened(c)]
    \/ /\ Fenced(c.fence) /\ c.step = "complete" /\ receipt[c.action].state = "prepared"
       /\ receipt' = [receipt EXCEPT ![c.action] = Closed(c)]

WorldMoves(c, next) ==
    \/ performed' = performed /\ c.step # "perform"
    \/ /\ c.step = "perform" /\ next.step = "complete" /\ receipt' = receipt
       /\ \/ performed' = performed
          \/ performed' = [performed EXCEPT ![c.action] = @ + 1]

Same(c, next) ==
    next \in Call /\ next.fence = c.fence /\ next.plan = c.plan /\ next.action = c.action

Changed(c, step, result) == [c EXCEPT !.step = step, !.result = result]

CallMoves(c, next) ==
    /\ Same(c, next)
    /\ c.step \in Requests /\ next.step \in Requests \union Replies
    /\ next.step = "perform" => c.step \in {"prepare", "reconcile"}
    /\ next.step = "perform" /\ receipt' = receipt => Class[c.action] # "non_replayable_mutation"

LEMMA BecomesIs ==
  ASSUME NEW c \in Call, NEW step \in Steps
  PROVE  Same(c, Becomes(c, step)) /\ Becomes(c, step).step = step
BY DEF Call, Becomes, Same

LEMMA AnswersIs ==
  ASSUME NEW c \in Call, NEW result \in Results
  PROVE  /\ Same(c, Answers(c, result)) /\ Answers(c, result).step = "answered"
         /\ Answers(c, result).result = result
BY DEF Call, Answers, Same, Steps

LEMMA ChangedIs ==
  ASSUME NEW c \in Call, NEW step \in Steps, NEW result \in Results
  PROVE  /\ Same(c, Changed(c, step, result)) /\ Changed(c, step, result).step = step
         /\ Changed(c, step, result).result = result
BY NextCall DEF Same, Changed

LEMMA ReceiptIs ==
  ASSUME TypeOK, NEW a \in Actions
  PROVE  /\ receipt[a] \in [state : {"none", "prepared", "completed"},
                            plan : Plans \union {"none"}, result : Results]
         /\ receipt[a].state \in {"none", "prepared", "completed"}
         /\ receipt[a].plan \in Plans \union {"none"} /\ receipt[a].result \in Results
         /\ performed[a] \in Nat
BY DEF TypeOK

LEMMA PrepareMoves ==
  ASSUME TypeOK, NEW c \in Call, c.action \in Actions, NEW next, Prepare(c, next), fence' = fence
  PROVE  /\ ReceiptMoves(c) /\ WorldMoves(c, next) /\ CallMoves(c, next) /\ Truthful(next)'
         /\ faults' \in Nat
<1> DEFINE a == c.action
<1>1. c.step = "prepare" /\ performed' = performed /\ c.result \in Results
  BY CallFields DEF Prepare
<1>2. a \in Actions /\ Class[a] \in Classes
  BY ActionsAre
<1>3. CASE next = Becomes(c, "threw") /\ faults' \in Nat /\ ReceiptMoves(c)
  <2>1. Same(c, next) /\ next.step = "threw"
    BY <1>3, BecomesIs DEF Steps
  <2> QED
    BY <1>1, <1>3, <2>1 DEF WorldMoves, CallMoves, Same, Truthful, Requests, Replies
<1>4. CASE /\ Fenced(c.fence) /\ receipt[a].state = "none" /\ next = Becomes(c, "perform")
           /\ receipt' = [receipt EXCEPT ![a] = Opened(c)] /\ faults' = faults
  <2>1. Same(c, next) /\ next.step = "perform"
    BY <1>4, BecomesIs DEF Steps
  <2>2. receipt' # receipt
    <3>1. receipt'[a].state = "prepared"
      BY <1>2, <1>4 DEF TypeOK, Opened
    <3> QED
      BY <1>4, <3>1
  <2>3. ReceiptMoves(c) /\ faults' \in Nat
    BY <1>1, <1>4 DEF ReceiptMoves, TypeOK
  <2> QED
    BY <1>1, <2>1, <2>2, <2>3 DEF WorldMoves, CallMoves, Same, Truthful, Requests, Replies
<1>5. CASE /\ receipt[a].state # "none" /\ receipt' = receipt /\ faults' = faults
           /\ next = IF receipt[a].state = "completed"
                     THEN Answers(c, receipt[a].result)
                     ELSE Becomes(c, AfterPrepared(Class[a]))
  <2>1. ReceiptMoves(c) /\ WorldMoves(c, next) /\ faults' \in Nat
    BY <1>1, <1>5 DEF ReceiptMoves, WorldMoves, TypeOK
  <2>2. CASE receipt[a].state = "completed"
    <3>1. Same(c, next) /\ next.step = "answered" /\ next.result = receipt[a].result
      BY <1>5, <2>2, AnswersIs, ReceiptIs
    <3> QED
      BY <1>1, <1>5, <2>1, <2>2, <3>1 DEF CallMoves, Same, Truthful, Requests, Replies
  <2>3. CASE receipt[a].state # "completed"
    <3>1. receipt[a].state = "prepared"
      BY <1>5, <2>3, ReceiptIs
    <3>2. PICK step \in {"unsafe", "reconcile", "perform"} :
             /\ step = AfterPrepared(Class[a])
             /\ step = "reconcile" => Class[a] = "reconcilable_mutation"
             /\ step \in {"unsafe", "reconcile"} => Class[a] # "idempotent_mutation"
             /\ step = "perform" => Class[a] # "non_replayable_mutation"
      BY <1>2 DEF AfterPrepared, Classes
    <3>3. step \in Steps
      BY <3>2 DEF Steps
    <3>4. Same(c, next) /\ next.step = step
      BY <1>5, <2>3, <3>2, <3>3, BecomesIs
    <3> QED
      BY <1>1, <1>5, <2>1, <3>1, <3>2, <3>4 DEF CallMoves, Same, Truthful, Requests, Replies
  <2> QED
    BY <2>2, <2>3
<1> QED
  BY <1>1, <1>3, <1>4, <1>5
     DEF Prepare, Refused, Fails, Fault, ReceiptMoves, Opened, TypeOK

LEMMA PerformMoves ==
  ASSUME TypeOK, NEW c \in Call, c.action \in Actions, NEW next, Perform(c, next), fence' = fence
  PROVE  /\ ReceiptMoves(c) /\ WorldMoves(c, next) /\ CallMoves(c, next) /\ Truthful(next)'
         /\ faults' \in Nat
<1>1. /\ c.step = "perform" /\ receipt' = receipt /\ faults' = faults /\ performed[c.action] \in Nat
  BY ReceiptIs DEF Perform
<1>2. PICK r \in {"ok", "error", "aborted"} :
         /\ next = [c EXCEPT !.step = "complete", !.result = r]
         /\ \/ performed' = [performed EXCEPT ![c.action] = @ + 1]
            \/ performed' = performed /\ r # "ok"
  BY DEF Perform
<1>3. Same(c, next) /\ next.step = "complete" /\ next.result = r
  <2>1. "complete" \in Steps /\ r \in Results
    BY DEF Steps, Results
  <2>2. next = Changed(c, "complete", r)
    BY <1>2 DEF Changed
  <2> QED
    BY <1>2, <2>1, <2>2, ChangedIs
<1>4. r = "ok" => performed'[c.action] > 0
  BY <1>1, <1>2 DEF TypeOK
<1> QED
  BY <1>1, <1>2, <1>3, <1>4
     DEF ReceiptMoves, WorldMoves, CallMoves, Same, Truthful, Requests, Replies, TypeOK

LEMMA ReconcileMoves ==
  ASSUME TypeOK, NEW c \in Call, c.action \in Actions, NEW next, Reconcile(c, next), fence' = fence,
         Truthful(c)
  PROVE  /\ ReceiptMoves(c) /\ WorldMoves(c, next) /\ CallMoves(c, next) /\ Truthful(next)'
         /\ faults' \in Nat
<1>1. /\ c.step = "reconcile" /\ receipt' = receipt /\ performed' = performed /\ faults' = faults
      /\ c.result \in Results
  BY CallFields DEF Reconcile
<1>2. /\ Class[c.action] = "reconcilable_mutation"
      /\ c.fence = fence => receipt[c.action].state = "prepared"
  BY <1>1 DEF Truthful
<1>3. PICK step \in {"perform", "complete", "unsafe"}, result \in Results :
         /\ \/ next = Becomes(c, step) /\ result = c.result
            \/ next = [c EXCEPT !.step = step, !.result = result]
         /\ step = "complete" => performed[c.action] > 0
  BY <1>1 DEF Reconcile, Results
<1>4. Same(c, next) /\ next.step = step
  <2>1. step \in Steps
    BY DEF Steps
  <2>2. CASE next = Becomes(c, step)
    BY <2>1, <2>2, BecomesIs
  <2>3. CASE next = Changed(c, step, result)
    BY <2>1, <2>3, ChangedIs
  <2> QED
    BY <1>3, <2>2, <2>3 DEF Changed
<1> QED
  BY <1>1, <1>2, <1>3, <1>4
     DEF ReceiptMoves, WorldMoves, CallMoves, Same, Truthful, Requests, Replies, TypeOK

LEMMA ClosedIs ==
  ASSUME TypeOK, NEW c \in Call, c.action \in Actions
  PROVE  [receipt EXCEPT ![c.action].state = "completed", ![c.action].result = c.result]
           = [receipt EXCEPT ![c.action] = Closed(c)]
<1> DEFINE open == receipt[c.action]
           one == [open EXCEPT !.state = "completed"]
<1>1. open \in [state : {"none", "prepared", "completed"}, plan : Plans \union {"none"},
                result : Results]
  BY ReceiptIs
<1>2. one = [state |-> "completed", plan |-> open.plan, result |-> open.result]
  BY <1>1
<1>3. [[state |-> "completed", plan |-> open.plan, result |-> open.result]
          EXCEPT !.result = c.result] = Closed(c)
  BY DEF Closed
<1>4. [receipt EXCEPT ![c.action] = one] \in [Actions -> {one} \union
         [state : {"none", "prepared", "completed"}, plan : Plans \union {"none"}, result : Results]]
  BY DEF TypeOK
<1>5. [receipt EXCEPT ![c.action].state = "completed", ![c.action].result = c.result]
        = [[receipt EXCEPT ![c.action] = one] EXCEPT ![c.action].result = c.result]
  BY DEF TypeOK
<1> HIDE DEF one
<1>6. [one EXCEPT !.result = c.result] = Closed(c)
  BY <1>2, <1>3, Zenon
<1> QED
  BY <1>6, <1>4, <1>5 DEF TypeOK

LEMMA CompleteMoves ==
  ASSUME TypeOK, NEW c \in Call, c.action \in Actions, NEW next, Complete(c, next), fence' = fence
  PROVE  /\ ReceiptMoves(c) /\ WorldMoves(c, next) /\ CallMoves(c, next) /\ Truthful(next)'
         /\ faults' \in Nat
<1> DEFINE a == c.action
<1>1. c.step = "complete" /\ performed' = performed /\ c.result \in Results
  BY CallFields DEF Complete
<1>2. [receipt EXCEPT ![a].state = "completed", ![a].result = c.result]
        = [receipt EXCEPT ![a] = Closed(c)]
  BY ClosedIs
<1>3. CASE next = Becomes(c, "threw") /\ faults' \in Nat /\ ReceiptMoves(c)
  <2>1. Same(c, next) /\ next.step = "threw"
    BY <1>3, BecomesIs DEF Steps
  <2> QED
    BY <1>1, <1>3, <2>1 DEF WorldMoves, CallMoves, Same, Truthful, Requests, Replies
<1>4. CASE /\ receipt'[a].state = "completed" /\ faults' = faults /\ ReceiptMoves(c)
           /\ next = Answers(c, receipt'[a].result) /\ receipt'[a].result \in Results
  <2>1. Same(c, next) /\ next.step = "answered" /\ next.result = receipt'[a].result
    BY <1>4, AnswersIs
  <2> QED
    BY <1>1, <1>4, <2>1 DEF WorldMoves, CallMoves, Same, Truthful, Requests, Replies, TypeOK
<1>5. CASE Refused(c, next)
  BY <1>3, <1>5 DEF Refused, ReceiptMoves, TypeOK
<1>6. CASE Fails(c, next) /\ UNCHANGED receipt
  BY <1>3, <1>6 DEF Fails, Fault, ReceiptMoves, TypeOK
<1>7. CASE /\ Fenced(c.fence) /\ receipt[a].state = "prepared"
           /\ receipt' = [receipt EXCEPT ![a] = Closed(c)]
           /\ \/ next = Answers(c, c.result) /\ UNCHANGED faults
              \/ Fails(c, next)
  <2>1. ReceiptMoves(c)
    BY <1>1, <1>7 DEF ReceiptMoves
  <2>2. receipt'[a].state = "completed" /\ receipt'[a].result = c.result
    BY <1>7 DEF TypeOK, Closed
  <2> QED
    BY <1>1, <1>3, <1>4, <1>7, <2>1, <2>2 DEF Fails, Fault, TypeOK
<1>8. CASE /\ receipt[a].state = "completed" /\ next = Answers(c, receipt[a].result)
           /\ UNCHANGED <<receipt, faults>>
  BY <1>4, <1>8, ReceiptIs DEF ReceiptMoves
<1> QED
  BY <1>2, <1>5, <1>6, <1>7, <1>8 DEF Complete

(* The steps a call can take.                                              *)
LEMMA StepMoves ==
  ASSUME TypeOK, NEW c \in Call, c.action \in Actions, NEW next, CallStep(c, next), fence' = fence,
         Truthful(c)
  PROVE  /\ ReceiptMoves(c) /\ WorldMoves(c, next) /\ CallMoves(c, next) /\ Truthful(next)'
         /\ faults' \in Nat
BY PrepareMoves, PerformMoves, ReconcileMoves, CompleteMoves DEF CallStep
---------------------------------------------------------------------------
(* A call that may move: it is about a planned action, and the execution   *)
(* that made it has not ended it as uncertain.                             *)
Acting(c) ==
    /\ c \in Call /\ c.action \in Actions /\ c.plan # "none" /\ Truthful(c)
    /\ c.fence = fence => At(c)
    /\ \A t \in Supervisors : mine[t].fence = c.fence => verdict[t] # "quarantined"

Moves(c, next) ==
    /\ Acting(c) /\ ReceiptMoves(c) /\ WorldMoves(c, next) /\ CallMoves(c, next)
    /\ Truthful(next)' /\ faults' \in Nat
    /\ UNCHANGED <<status, fence, lease, chain, pc, mine, verdict>>

LEMMA MovesAt ==
  ASSUME TypeOK, NEW c, NEW next, Moves(c, next), NEW a \in Actions
  PROVE  /\ \/ receipt'[a] = receipt[a]
            \/ /\ a = c.action /\ Fenced(c.fence) /\ c.step = "prepare"
               /\ receipt[a].state = "none" /\ receipt'[a].state = "prepared"
               /\ receipt'[a].plan = c.plan /\ receipt'[a].result = "none"
            \/ /\ a = c.action /\ Fenced(c.fence) /\ c.step = "complete"
               /\ receipt[a].state = "prepared" /\ receipt'[a].state = "completed"
               /\ receipt'[a].plan = receipt[a].plan /\ receipt'[a].result = c.result
         /\ \/ performed'[a] = performed[a]
            \/ a = c.action /\ c.step = "perform" /\ performed'[a] = performed[a] + 1
         /\ performed[a] \in Nat /\ performed'[a] >= performed[a]
<1>1. /\ \/ receipt' = receipt
         \/ /\ Fenced(c.fence) /\ c.step = "prepare" /\ receipt[c.action].state = "none"
            /\ receipt' = [receipt EXCEPT ![c.action] = Opened(c)]
         \/ /\ Fenced(c.fence) /\ c.step = "complete" /\ receipt[c.action].state = "prepared"
            /\ receipt' = [receipt EXCEPT ![c.action] = Closed(c)]
      /\ \/ performed' = performed
         \/ c.step = "perform" /\ performed' = [performed EXCEPT ![c.action] = @ + 1]
      /\ c.action \in Actions
  BY DEF Moves, ReceiptMoves, WorldMoves, Acting
<1>2. \/ receipt'[a] = receipt[a]
      \/ /\ a = c.action /\ Fenced(c.fence) /\ c.step = "prepare"
         /\ receipt[a].state = "none" /\ receipt'[a] = Opened(c)
      \/ /\ a = c.action /\ Fenced(c.fence) /\ c.step = "complete"
         /\ receipt[a].state = "prepared" /\ receipt'[a] = Closed(c)
  BY <1>1 DEF TypeOK
<1>3. /\ \/ performed'[a] = performed[a]
         \/ a = c.action /\ c.step = "perform" /\ performed'[a] = performed[a] + 1
      /\ performed[a] \in Nat
  BY <1>1 DEF TypeOK
<1> QED
  BY <1>2, <1>3 DEF Opened, Closed

LEMMA MovesType ==
  ASSUME TypeOK, NEW c, NEW next, Moves(c, next)
  PROVE  /\ receipt' \in [Actions -> [state : {"none", "prepared", "completed"},
                                      plan : Plans \union {"none"}, result : Results]]
         /\ performed' \in [Actions -> Nat]
<1> DEFINE T == [state : {"none", "prepared", "completed"}, plan : Plans \union {"none"},
                 result : Results]
<1>1. c \in Call /\ c.action \in Actions
  BY DEF Moves, Acting
<1>2. Opened(c) \in T /\ Closed(c) \in T
  BY <1>1, CallFields, ReceiptIs DEF Opened, Closed, Results
<1>3. performed' \in [Actions -> Nat]
  <2>1. performed[c.action] + 1 \in Nat
    BY <1>1, ReceiptIs
  <2>2. performed' = performed \/ performed' = [performed EXCEPT ![c.action] = @ + 1]
    BY DEF Moves, WorldMoves
  <2> QED
    BY <2>1, <2>2 DEF TypeOK
<1>4. \/ receipt' = receipt
      \/ receipt' = [receipt EXCEPT ![c.action] = Opened(c)]
      \/ receipt' = [receipt EXCEPT ![c.action] = Closed(c)]
  BY DEF Moves, ReceiptMoves
<1>5. receipt \in [Actions -> T]
  BY DEF TypeOK
<1> HIDE DEF T
<1>6. receipt' \in [Actions -> T]
  BY <1>2, <1>4, <1>5
<1> QED
  BY <1>3, <1>6 DEF T

(* What it changes for everyone keeps what is said of receipts and runs.   *)
LEMMA MovesShared ==
  ASSUME Inv, NEW c, NEW next, Moves(c, next)
  PROVE  /\ \A a \in Actions : (Done(a) => Done(a)') /\ Receipted(a)'
         /\ Endings' /\ \A t \in Supervisors : Judges(t)'
<1>1. /\ TypeOK /\ c.plan # "none" /\ Truthful(c) /\ (c.fence = fence => At(c))
      /\ \A t \in Supervisors : mine[t].fence = c.fence => verdict[t] # "quarantined"
      /\ status' = status /\ fence' = fence /\ lease' = lease /\ chain' = chain
      /\ pc' = pc /\ mine' = mine /\ verdict' = verdict
  BY DEF Moves, Acting, Inv
<1>2. ASSUME NEW a \in Actions, Done(a) PROVE Done(a)'
  BY <1>1, <1>2, MovesAt DEF Done
<1>3. ASSUME NEW a \in Actions PROVE Receipted(a)'
  <2>1. Receipted(a)
    BY DEF Inv
  <2>2. CASE receipt'[a] = receipt[a]
    BY <1>1, <2>1, <2>2, MovesAt DEF Receipted, Done
  <2>3. CASE /\ a = c.action /\ Fenced(c.fence) /\ receipt'[a].state = "prepared"
             /\ receipt'[a].plan = c.plan
    BY <1>1, <2>3 DEF Receipted, Done, At, Fenced
  <2>4. CASE /\ a = c.action /\ c.step = "complete" /\ receipt[a].state = "prepared"
             /\ receipt'[a].state = "completed"
             /\ receipt'[a].plan = receipt[a].plan /\ receipt'[a].result = c.result
    <3>1. c.result = "ok" => performed[a] > 0
      BY <1>1, <2>4 DEF Truthful
    <3>2. c.result = "ok" => performed'[a] > 0
      BY <1>1, <3>1, MovesAt
    <3> QED
      BY <2>1, <2>4, <3>2 DEF Receipted, Done
  <2> QED
    BY <1>1, <2>2, <2>3, <2>4, MovesAt
<1>4. ASSUME NEW t \in Supervisors PROVE Judges(t)'
  <2>1. ASSUME pc[t] = "finalizing", verdict[t] = "quarantined", mine[t].fence = fence,
               mine[t].action \in Actions
        PROVE  receipt'[mine[t].action] = receipt[mine[t].action]
    BY <1>1, <2>1, MovesAt DEF Fenced
  <2> QED
    BY <1>1, <2>1, InvIs DEF Judges
<1>5. Endings'
  <2>1. status = "completed" => DoneBelow(Len(Class) + 1)'
    BY <1>2 DEF Inv, Endings, DoneBelow
  <2>2. QuarantinedOnlyUncertain'
    <3> SUFFICES ASSUME status = "quarantined"
                 PROVE  \E a \in Unresolved' : Class[a] # "idempotent_mutation"
      BY <1>1 DEF QuarantinedOnlyUncertain
    <3>1. PICK a \in Unresolved : Class[a] # "idempotent_mutation"
      BY DEF Inv, Endings, QuarantinedOnlyUncertain
    <3>2. ~Fenced(c.fence)
      BY DEF Inv, Endings, Fenced
    <3>3. receipt'[a] = receipt[a] /\ a \in Actions
      BY <1>1, <3>1, <3>2, MovesAt DEF Unresolved
    <3> QED
      BY <3>1, <3>3 DEF Unresolved
  <2> QED
    BY <1>1, <2>1, <2>2 DEF Inv, Endings
<1> QED
  BY <1>2, <1>3, <1>4, <1>5

(* And what every other call has learnt.                                   *)
LEMMA MovesOthers ==
  ASSUME Inv, NEW c, NEW next, Moves(c, next), NEW d \in Call, Truthful(d),
         d.step \in {"answered", "complete", "reconcile", "unsafe"} => d.action \in Actions,
         d.step \in {"reconcile", "unsafe"} => d.fence # c.fence
  PROVE  Truthful(d)'
<1>1. TypeOK /\ fence' = fence
  BY DEF Inv, Moves
<1>2. d.step = "answered" => receipt'[d.action] = receipt[d.action]
  BY <1>1, MovesAt DEF Truthful
<1>3. d.step = "complete" /\ d.result = "ok" => performed'[d.action] > 0
  <2> SUFFICES ASSUME d.step = "complete", d.result = "ok" PROVE performed'[d.action] > 0
    OBVIOUS
  <2>1. performed[d.action] > 0 /\ d.action \in Actions
    BY DEF Truthful
  <2>2. performed[d.action] \in Nat /\ performed'[d.action] \in Nat
    BY <1>1, <2>1, ReceiptIs, MovesType
  <2>3. performed'[d.action] >= performed[d.action]
    BY <1>1, <2>1, MovesAt
  <2> QED
    BY <2>1, <2>2, <2>3
<1>4. d.step \in {"reconcile", "unsafe"} /\ d.fence = fence =>
         receipt'[d.action] = receipt[d.action]
  BY <1>1, MovesAt DEF Fenced
<1> QED
  BY <1>1, <1>2, <1>3, <1>4 DEF Truthful

(* How it bears on an effect that must not be repeated: it goes on with    *)
(* something else, performs it, prepares it, or had prepared it.           *)
LEMMA MovesOnce ==
  ASSUME Inv, NEW c, NEW next, Moves(c, next), NEW a \in Actions,
         Class[a] = "non_replayable_mutation"
  PROVE  \/ /\ ~Performing(next, a) /\ performed'[a] = performed[a]
            /\ (receipt'[a].state = "none") = (receipt[a].state = "none")
         \/ /\ ~Performing(next, a) /\ performed'[a] = performed[a] + 1
            /\ Performing(c, a) /\ receipt'[a] = receipt[a]
         \/ /\ performed'[a] = performed[a]
            /\ receipt[a].state = "none" /\ receipt'[a].state = "prepared"
<1>1. /\ TypeOK /\ next.action = c.action /\ c.action \in Actions
      /\ c.step \in Requests /\ next.step \in Requests \union Replies
  BY DEF Inv, Moves, Acting, CallMoves, Same
<1>2. CASE a # c.action
  BY <1>1, <1>2, MovesAt DEF Performing
<1>3. CASE a = c.action /\ c.step = "perform"
  <2>1. next.step = "complete" /\ receipt' = receipt
    BY <1>3 DEF Moves, WorldMoves
  <2> QED
    BY <1>1, <1>3, <2>1, MovesAt DEF Performing
<1>4. CASE a = c.action /\ c.step # "perform"
  <2>1. performed'[a] = performed[a]
    BY <1>1, <1>4, MovesAt
  <2>2. next.step # "sent"
    BY <1>1 DEF Requests, Replies
  <2>3. CASE receipt[a].state = "none" /\ receipt'[a].state = "prepared"
    BY <2>1, <2>3
  <2>4. CASE receipt'[a].state = "completed" /\ receipt[a].state = "prepared" /\ c.step = "complete"
    <3>1. next.step # "perform"
      BY <1>1, <1>4, <2>4 DEF Moves, WorldMoves, CallMoves
    <3> QED
      BY <1>4, <2>1, <2>2, <2>4, <3>1 DEF Performing
  <2>5. CASE receipt' = receipt
    <3>1. next.step # "perform"
      BY <1>4, <2>5 DEF Moves, CallMoves
    <3> QED
      BY <1>4, <2>1, <2>2, <2>5, <3>1 DEF Performing
  <2> QED
    BY <1>1, <1>4, <2>3, <2>4, <2>5 DEF Moves, ReceiptMoves, Opened, Closed, TypeOK
<1> QED
  BY <1>2, <1>3, <1>4
---------------------------------------------------------------------------
(* An execution that waits for its call, and a stray, may move.            *)
LEMMA WaitingActs ==
  ASSUME Inv, NEW s \in Supervisors, pc[s] = "waiting"
  PROVE  Acting(call[s]) /\ call[s].fence = mine[s].fence /\ mine[s].fence # 0
<1>1. /\ call[s] \in Call /\ call[s].action \in Actions /\ call[s].plan # "none"
      /\ Truthful(call[s]) /\ call[s].fence = mine[s].fence /\ call[s].plan = mine[s].plan
      /\ call[s].action = mine[s].action /\ mine[s].fence # 0 /\ verdict[s] = "none"
  BY InvIs, MineFields DEF Waits, Numbered, Judges
<1>2. call[s].fence = fence => At(call[s])
  BY <1>1, InvIs DEF Works, At
<1>3. \A t \in Supervisors : mine[t].fence = mine[s].fence => t = s
  BY <1>1 DEF Inv, Distinct
<1> QED
  BY <1>1, <1>2, <1>3 DEF Acting

LEMMA AdvanceInv ==
  ASSUME Inv, NEW s \in Supervisors, Advance(s) PROVE Inv'
<1>1. /\ pc[s] = "waiting" /\ status' = status /\ fence' = fence /\ lease' = lease
      /\ chain' = chain /\ pc' = pc /\ mine' = mine /\ verdict' = verdict /\ strays' = strays
  BY DEF Advance
<1>2. PICK next : CallStep(call[s], next) /\ call' = [call EXCEPT ![s] = next]
  BY DEF Advance
<1>3. /\ TypeOK /\ Acting(call[s]) /\ call[s].fence = mine[s].fence /\ mine[s].fence # 0
      /\ call[s] \in Call /\ call[s].plan = mine[s].plan /\ call[s].action = mine[s].action
  BY <1>1, WaitingActs, InvIs, MineFields DEF Waits
<1>4. Moves(call[s], next)
  BY <1>1, <1>2, <1>3, StepMoves DEF Acting, Moves
<1>5. /\ next \in Call /\ next.fence = mine[s].fence /\ next.plan = mine[s].plan
      /\ next.action = mine[s].action /\ next.step \in Requests \union Replies
      /\ Truthful(next)' /\ faults' \in Nat
  BY <1>3, <1>4 DEF Moves, CallMoves, Same
<1>6. call'[s] = next /\ \A t \in Supervisors : t # s => call'[t] = call[t]
  BY <1>2, <1>3 DEF TypeOK
<1>7. /\ \A a \in Actions : (Done(a) => Done(a)') /\ Receipted(a)'
      /\ Endings' /\ \A t \in Supervisors : Judges(t)'
  BY <1>4, MovesShared
<1>8. \A n : DoneBelow(n) => DoneBelow(n)'
  BY <1>7 DEF DoneBelow
<1>9. TypeOK'
  <2>1. call' \in [Supervisors -> Call]
    BY <1>2, <1>3, <1>5 DEF TypeOK
  <2> QED
    BY <1>1, <1>3, <1>4, <1>5, <2>1, MovesType DEF TypeOK, Call
<1>10. ASSUME NEW t \in Supervisors PROVE Sound(t)'
  <2>1. Numbered(t)' /\ Works(t)' /\ \A c \in strays : Leaves(t, c)'
    BY <1>1, InvIs DEF Numbered, Works, At, Extends, Leaves
  <2>2. DoneBelow(mine[t].action)'
    BY <1>1, <1>8, InvIs
  <2>3. CASE t = s
    <3>1. Waits(s)'
      BY <1>1, <1>3, <1>5, <1>6, InvIs DEF Waits, Acting
    <3>2. Truthful(call[s])'
      BY <1>5, <1>6 DEF Truthful
    <3> QED
      BY <1>1, <1>7, <2>1, <2>2, <2>3, <3>1, <3>2 DEF Sound
  <2>4. CASE t # s
    <3>1. Waits(t)'
      BY <1>1, <1>6, <2>4, InvIs DEF Waits, CallOf
    <3>2. call[t].step \in {"answered", "complete", "reconcile", "unsafe"} =>
             call[t].action \in Actions /\ call[t].fence = mine[t].fence
      <4>1. CASE pc[t] = "waiting"
        BY <4>1, InvIs DEF Waits
      <4>2. CASE pc[t] # "waiting"
        <5>1. call[t] = NoCall \/ call[t] = CallOf(t, "save")
          BY <4>2, InvIs DEF Waits
        <5> QED
          BY <1>3, <5>1, NoCallIs, CallOfIs DEF Steps
      <4> QED
        BY <4>1, <4>2
    <3>3. mine[t].fence # mine[s].fence
      BY <1>3, <2>4 DEF Inv, Distinct
    <3>4. Truthful(call[t])'
      <4>1. Truthful(call[t]) /\ call[t] \in Call
        BY <1>3, InvIs, MineFields
      <4>2. ASSUME NEW d, d = call[t] PROVE Truthful(d)'
        BY <1>3, <1>4, <3>2, <3>3, <4>1, <4>2, MovesOthers
      <4> QED
        BY <1>6, <2>4, <4>2 DEF Truthful
    <3> QED
      BY <1>1, <1>7, <2>1, <2>2, <3>1, <3>4 DEF Sound
  <2> QED
    BY <2>3, <2>4
<1>11. ASSUME NEW d \in strays PROVE Stray(d)'
  <2>1. Stray(d) /\ d \in Call /\ d.fence # mine[s].fence
    BY <1>1, <1>3, InvIs DEF Inv, TypeOK, Leaves
  <2>2. Truthful(d)'
    BY <1>3, <1>4, <2>1, MovesOthers DEF Stray
  <2> QED
    BY <1>1, <1>8, <2>1, <2>2 DEF Stray, At, Extends
<1>12. Distinct' /\ DoneBelow(chain.action)'
  BY <1>1, <1>8 DEF Inv, Distinct
<1>13. ASSUME NEW a \in Actions PROVE NotRepeated(a)'
  <2> SUFFICES ASSUME Class[a] = "non_replayable_mutation" PROVE NotRepeated(a)'
    BY DEF NotRepeated
  <2>1. /\ performed[a] \in {0, 1} /\ (receipt[a].state = "none" => performed[a] = 0)
        /\ \A t \in Supervisors : Performing(call[t], a) =>
              /\ Begun(a) /\ \A c \in strays : ~Performing(c, a)
              /\ \A u \in Supervisors : Performing(call[u], a) => u = t
        /\ \A c \in strays : Performing(c, a) =>
              Begun(a) /\ \A d \in strays : Performing(d, a) => d = c
    BY DEF Inv, NotRepeated
  <2>2. CASE /\ ~Performing(next, a) /\ performed'[a] = performed[a]
             /\ (receipt'[a].state = "none") = (receipt[a].state = "none")
    BY <1>1, <1>6, <2>1, <2>2 DEF NotRepeated, Begun, Performing
  <2>3. CASE /\ ~Performing(next, a) /\ performed'[a] = performed[a] + 1
             /\ Performing(call[s], a) /\ receipt'[a] = receipt[a]
    <3>1. /\ performed'[a] = 1 /\ receipt'[a].state # "none"
          /\ \A c \in strays : ~Performing(c, a)
          /\ \A t \in Supervisors : ~Performing(call'[t], a)
      BY <1>6, <2>1, <2>3 DEF Begun
    <3> QED
      BY <1>1, <3>1 DEF NotRepeated, Performing
  <2>4. CASE /\ performed'[a] = performed[a]
             /\ receipt[a].state = "none" /\ receipt'[a].state = "prepared"
    <3>1. /\ performed'[a] = 0 /\ \A c \in strays : ~Performing(c, a)
          /\ \A t \in Supervisors : t # s => ~Performing(call'[t], a)
      BY <1>6, <2>1, <2>4 DEF Begun
    <3> QED
      BY <1>1, <2>4, <3>1 DEF NotRepeated, Begun, Performing
  <2> QED
    BY <1>4, <2>2, <2>3, <2>4, MovesOnce
<1> QED
  BY <1>1, <1>7, <1>9, <1>10, <1>11, <1>12, <1>13 DEF Inv
LEMMA StrayActs ==
  ASSUME Inv, NEW c \in strays, c.step \in Requests
  PROVE  Acting(c)
<1>1. Stray(c) /\ c \in Call
  BY DEF Inv, TypeOK
<1>2. c.action \in Actions /\ c.plan # "none" /\ Truthful(c) /\ (c.fence = fence => At(c))
  BY <1>1 DEF Stray, Requests
<1>3. \A t \in Supervisors : mine[t].fence = c.fence => verdict[t] # "quarantined"
  BY InvIs DEF Leaves
<1> QED
  BY <1>1, <1>2, <1>3 DEF Acting

LEMMA StrayCallInv ==
  ASSUME Inv, NEW c \in strays, StrayCall(c) PROVE Inv'
<1>1. /\ status' = status /\ fence' = fence /\ lease' = lease /\ chain' = chain
      /\ pc' = pc /\ mine' = mine /\ verdict' = verdict /\ call' = call
  BY DEF StrayCall
<1>2. TypeOK /\ c \in Call /\ Stray(c)
  BY DEF Inv, TypeOK
<1>3. PICK next : /\ CallStep(c, next)
                  /\ \/ strays' = strays \ {c}
                     \/ /\ next.step \notin {"answered", "unsafe", "threw"}
                        /\ strays' = (strays \ {c}) \union {next}
  <2>1. PICK step \in Steps, result \in Results :
           /\ CallStep(c, Changed(c, step, result))
           /\ strays' = (strays \ {c}) \union (IF step \in {"answered", "unsafe", "threw"} THEN {}
                                              ELSE {Changed(c, step, result)})
    BY DEF StrayCall, Changed
  <2>2. Changed(c, step, result).step = step
    BY <1>2, ChangedIs
  <2>3. CASE step \in {"answered", "unsafe", "threw"}
    BY <2>1, <2>3
  <2>4. CASE step \notin {"answered", "unsafe", "threw"}
    BY <2>1, <2>2, <2>4
  <2> QED
    BY <2>3, <2>4
<1>4. c.step \in Requests
  BY <1>3 DEF CallStep, Prepare, Perform, Reconcile, Complete, Requests
<1>5. Acting(c)
  BY <1>4, StrayActs
<1>6. Moves(c, next)
  BY <1>1, <1>2, <1>3, <1>5, StepMoves DEF Acting, Moves
<1>7. /\ next \in Call /\ next.fence = c.fence /\ next.plan = c.plan /\ next.action = c.action
      /\ next.step \in Requests \union Replies /\ Truthful(next)' /\ faults' \in Nat
  BY <1>6 DEF Moves, CallMoves, Same
<1>8. /\ \A a \in Actions : (Done(a) => Done(a)') /\ Receipted(a)'
      /\ Endings' /\ \A t \in Supervisors : Judges(t)'
  BY <1>6, MovesShared
<1>9. \A n : DoneBelow(n) => DoneBelow(n)'
  BY <1>8 DEF DoneBelow
<1>10. TypeOK'
  <2>1. strays' \subseteq Call
    BY <1>2, <1>3, <1>7 DEF TypeOK
  <2> QED
    BY <1>1, <1>2, <1>6, <1>7, <2>1, MovesType DEF TypeOK, Call
<1>11. ASSUME NEW t \in Supervisors PROVE Sound(t)'
  <2>1. Numbered(t)' /\ Works(t)' /\ Waits(t)'
    BY <1>1, InvIs DEF Numbered, Works, At, Extends, Waits, CallOf
  <2>2. DoneBelow(mine[t].action)' /\ \A d \in strays' : Leaves(t, d)'
    BY <1>1, <1>3, <1>7, <1>9, InvIs DEF Leaves
  <2>3. Truthful(call[t])'
    <3>1. /\ call[t] \in Call /\ Truthful(call[t])
          /\ call[t].step \in {"answered", "complete", "reconcile", "unsafe"} =>
                call[t].action \in Actions
          /\ call[t].step \in {"reconcile", "unsafe"} => call[t].fence # c.fence
      <4>1. CASE pc[t] = "waiting"
        BY <1>2, <4>1, InvIs, MineFields DEF Waits, Leaves
      <4>2. CASE pc[t] # "waiting"
        <5>1. call[t] = NoCall \/ call[t] = CallOf(t, "save")
          BY <4>2, InvIs DEF Waits
        <5> QED
          BY <1>2, <5>1, NoCallIs, CallOfIs, InvIs, MineFields DEF Steps
      <4> QED
        BY <4>1, <4>2
    <3>2. ASSUME NEW d, d = call[t] PROVE Truthful(d)'
      BY <1>6, <3>1, <3>2, MovesOthers
    <3> QED
      BY <1>1, <3>2 DEF Truthful
  <2> QED
    BY <1>1, <1>8, <2>1, <2>2, <2>3 DEF Sound
<1>12. ASSUME NEW d \in strays' PROVE Stray(d)'
  <2>1. CASE d \in strays /\ d # c
    <3>1. Stray(d) /\ d \in Call /\ d.fence # c.fence
      BY <2>1 DEF Inv, TypeOK, Distinct
    <3>2. Truthful(d)'
      BY <1>6, <3>1, MovesOthers DEF Stray
    <3> QED
      BY <1>1, <1>9, <3>1, <3>2 DEF Stray, At, Extends
  <2>2. CASE d = next /\ next.step \notin {"answered", "unsafe", "threw"}
    <3>1. next.step \in Requests /\ next.step \notin {"save", "sent"}
      BY <1>7, <2>2 DEF Requests, Replies
    <3>2. c.plan # "none" /\ c.action \in Actions /\ (c.fence = fence => At(c))
          /\ c.fence \in 1 .. fence /\ DoneBelow(c.action)
      BY <1>2, <1>5 DEF Acting, Stray
    <3> QED
      BY <1>1, <1>7, <1>9, <2>2, <3>1, <3>2 DEF Stray, At
  <2> QED
    BY <1>3, <2>1, <2>2
<1>13. Distinct' /\ DoneBelow(chain.action)'
  <2>1. \A d, e \in strays' : d.fence = e.fence => d = e
    BY <1>3, <1>7 DEF Inv, Distinct
  <2> QED
    BY <1>1, <1>9, <2>1 DEF Inv, Distinct
<1>14. ASSUME NEW a \in Actions PROVE NotRepeated(a)'
  <2> SUFFICES ASSUME Class[a] = "non_replayable_mutation" PROVE NotRepeated(a)'
    BY DEF NotRepeated
  <2>1. /\ performed[a] \in {0, 1} /\ (receipt[a].state = "none" => performed[a] = 0)
        /\ \A t \in Supervisors : Performing(call[t], a) =>
              /\ Begun(a) /\ \A d \in strays : ~Performing(d, a)
              /\ \A u \in Supervisors : Performing(call[u], a) => u = t
        /\ \A d \in strays : Performing(d, a) =>
              Begun(a) /\ \A e \in strays : Performing(e, a) => e = d
    BY DEF Inv, NotRepeated
  <2>2. CASE /\ ~Performing(next, a) /\ performed'[a] = performed[a]
             /\ (receipt'[a].state = "none") = (receipt[a].state = "none")
    <3>1. \A d \in strays' : Performing(d, a) => d \in strays
      BY <1>3, <2>2
    <3> QED
      BY <1>1, <2>1, <2>2, <3>1 DEF NotRepeated, Begun, Performing
  <2>3. CASE /\ ~Performing(next, a) /\ performed'[a] = performed[a] + 1
             /\ Performing(c, a) /\ receipt'[a] = receipt[a]
    <3>1. performed'[a] = 1 /\ receipt'[a].state # "none"
      BY <2>1, <2>3 DEF Begun
    <3>2. \A d \in strays' : ~Performing(d, a)
      BY <1>3, <2>1, <2>3
    <3>3. \A t \in Supervisors : ~Performing(call[t], a)
      BY <2>1, <2>3
    <3> QED
      BY <1>1, <3>1, <3>2, <3>3 DEF NotRepeated, Performing
  <2>4. CASE /\ performed'[a] = performed[a]
             /\ receipt[a].state = "none" /\ receipt'[a].state = "prepared"
    <3>1. performed'[a] = 0 /\ \A d \in strays' : Performing(d, a) => d = next
      BY <1>3, <2>1, <2>4 DEF Begun
    <3>2. \A t \in Supervisors : ~Performing(call[t], a)
      BY <2>1, <2>4 DEF Begun
    <3> QED
      BY <1>1, <2>4, <3>1, <3>2 DEF NotRepeated, Begun, Performing
  <2> QED
    BY <1>6, <2>2, <2>3, <2>4, MovesOnce
<1> QED
  BY <1>1, <1>8, <1>10, <1>11, <1>12, <1>13, <1>14 DEF Inv

(* The request of a process that died takes effect.                        *)
LEMMA DeliveredInv ==
  ASSUME Inv, NEW c \in strays, Delivered(c) PROVE Inv'
<1>1. /\ c.step = "sent" /\ performed' = [performed EXCEPT ![c.action] = @ + 1]
      /\ strays' = strays \ {c}
      /\ status' = status /\ fence' = fence /\ lease' = lease /\ chain' = chain
      /\ receipt' = receipt /\ pc' = pc /\ mine' = mine /\ verdict' = verdict
      /\ call' = call /\ faults' = faults
  BY DEF Delivered
<1>2. TypeOK /\ c.action \in Actions
  BY <1>1 DEF Inv, Stray
<1>3. \A a \in Actions : /\ performed[a] \in Nat /\ performed'[a] \in Nat
                         /\ \/ performed'[a] = performed[a]
                            \/ a = c.action /\ performed'[a] = performed[a] + 1
  BY <1>1, <1>2 DEF TypeOK
<1>4. TypeOK'
  <2>1. performed' \in [Actions -> Nat]
    BY <1>1, <1>2, <1>3 DEF TypeOK
  <2>2. strays' \subseteq Call
    BY <1>1, <1>2 DEF TypeOK
  <2> QED
    BY <1>1, <1>2, <2>1, <2>2 DEF TypeOK
<1>5. \A a \in Actions : performed[a] > 0 => performed'[a] > 0
  BY <1>3
<1>6. ASSUME NEW d, Truthful(d), d.step = "complete" => d.action \in Actions PROVE Truthful(d)'
  BY <1>1, <1>5, <1>6 DEF Truthful
<1>7. ASSUME NEW t \in Supervisors PROVE Sound(t)'
  <2>1. Numbered(t)' /\ Works(t)' /\ Waits(t)' /\ Judges(t)'
    BY <1>1, InvIs DEF Numbered, Works, At, Extends, Waits, CallOf, Judges
  <2>2. DoneBelow(mine[t].action)' /\ \A d \in strays' : Leaves(t, d)'
    BY <1>1, InvIs DEF Leaves, DoneBelow, Done
  <2>3. call[t].step = "complete" => call[t].action \in Actions
    <3>1. CASE pc[t] = "waiting"
      BY <3>1, InvIs DEF Waits
    <3>2. CASE pc[t] # "waiting"
      <4>1. call[t] = NoCall \/ call[t] = CallOf(t, "save")
        BY <3>2, InvIs DEF Waits
      <4> QED
        BY <1>2, <4>1, NoCallIs, CallOfIs DEF Steps
    <3> QED
      BY <3>1, <3>2
  <2>4. Truthful(call[t])'
    BY <1>1, <1>5, <2>3, InvIs DEF Truthful
  <2> QED
    BY <1>1, <2>1, <2>2, <2>4 DEF Sound
<1>8. ASSUME NEW d \in strays' PROVE Stray(d)'
  <2>1. Stray(d)
    BY <1>1 DEF Inv
  <2>2. Truthful(d)'
    BY <1>6, <2>1 DEF Stray
  <2> QED
    BY <1>1, <2>1, <2>2 DEF Stray, At, Extends, DoneBelow, Done
<1>9. Distinct' /\ DoneBelow(chain.action)' /\ Endings'
  BY <1>1 DEF Inv, Distinct, DoneBelow, Done, Endings, QuarantinedOnlyUncertain, Unresolved
<1>10. ASSUME NEW a \in Actions PROVE Receipted(a)'
  BY <1>1, <1>5 DEF Inv, Receipted, Done
<1>11. ASSUME NEW a \in Actions PROVE NotRepeated(a)'
  <2>1. NotRepeated(a)
    BY DEF Inv
  <2>2. CASE a # c.action
    <3>1. performed'[a] = performed[a]
      BY <1>3, <2>2
    <3> QED
      BY <1>1, <2>1, <3>1 DEF NotRepeated, Performing, Begun
  <2>3. CASE a = c.action /\ Class[a] = "non_replayable_mutation"
    <3>1. Performing(c, a)
      BY <1>1, <2>3 DEF Performing
    <3>2. Begun(a) /\ \A d \in strays : Performing(d, a) => d = c
      BY <2>1, <2>3, <3>1 DEF NotRepeated
    <3>3. \A t \in Supervisors : ~Performing(call[t], a)
      BY <2>1, <2>3, <3>1 DEF NotRepeated
    <3>4. performed'[a] \in {0, 1} /\ receipt'[a].state # "none"
      BY <1>1, <1>3, <3>2 DEF Begun
    <3> QED
      BY <1>1, <3>2, <3>3, <3>4 DEF NotRepeated, Performing
  <2> QED
    BY <2>2, <2>3 DEF NotRepeated
<1> QED
  BY <1>1, <1>4, <1>7, <1>8, <1>9, <1>10, <1>11 DEF Inv
---------------------------------------------------------------------------
(* What an execution leaves behind is its last call, or the request of it. *)
Left(s, d) ==
    /\ d \in Call /\ d.fence = call[s].fence /\ d.seq = call[s].seq /\ d.plan = call[s].plan
    /\ d.action = call[s].action /\ d.result = call[s].result
    /\ \/ d.step = call[s].step /\ d.step \in Requests \union {"save"}
       \/ d.step = "sent" /\ call[s].step = "perform"

LEMMA LeftIs ==
  ASSUME Inv, NEW s \in Supervisors, NEW d, Left(s, d)
  PROVE  /\ pc[s] \in {"saving", "waiting"} /\ d.fence = mine[s].fence /\ Stray(d)
         /\ \A a \in Actions : Performing(d, a) => Performing(call[s], a)
<1>1. /\ TypeOK /\ call[s].step \in Requests \union {"save"} /\ call[s].step # "none"
      /\ mine[s].fence \in Nat /\ mine[s].fence <= fence /\ fence \in Nat
  BY InvIs, MineFields DEF Left, Requests, Numbered, TypeOK
<1>2. pc[s] \in {"saving", "waiting"}
  BY <1>1, InvIs, NoCallIs DEF Waits
<1>3. mine[s].fence \in 1 .. fence
  BY <1>1, <1>2, InvIs DEF Numbered
<1>4. \A a \in Actions : Performing(d, a) => Performing(call[s], a)
  BY DEF Left, Performing
<1>5. CASE pc[s] = "saving"
  <2>1. call[s] = CallOf(s, "save")
    BY <1>1, <1>5, InvIs, NoCallIs DEF Waits
  <2>2. /\ call[s].step = "save" /\ call[s].fence = mine[s].fence /\ call[s].seq = mine[s].seq
        /\ call[s].plan = mine[s].plan /\ call[s].action = mine[s].action
    BY <1>1, <2>1, CallOfIs DEF Steps
  <2>3. d.step = "save" /\ Truthful(d)
    BY <2>2 DEF Left, Truthful
  <2>4. d.fence = fence => Extends(d)
    BY <1>5, <2>2, InvIs DEF Left, Works, Extends
  <2>5. DoneBelow(d.action)
    BY <2>2, InvIs DEF Left
  <2> QED
    BY <1>2, <1>3, <1>4, <2>2, <2>3, <2>4, <2>5 DEF Left, Stray, Requests
<1>6. CASE pc[s] = "waiting"
  <2>1. /\ call[s].fence = mine[s].fence /\ call[s].action \in Actions /\ call[s].plan # "none"
        /\ call[s].step \in Requests /\ call[s].action = mine[s].action
        /\ (call[s].fence = fence => At(call[s]))
    BY <1>1, <1>6, WaitingActs, InvIs DEF Waits, Acting, Requests, Replies
  <2>2. DoneBelow(d.action) /\ Truthful(call[s])
    BY <2>1, InvIs DEF Left
  <2>3. Truthful(d)
    BY <2>2 DEF Left, Truthful
  <2>4. d.fence = fence => At(d)
    BY <2>1 DEF Left, At
  <2> QED
    BY <1>2, <1>3, <1>4, <2>1, <2>2, <2>3, <2>4 DEF Left, Stray, Requests
<1> QED
  BY <1>2, <1>5, <1>6

LEMMA DepartInv ==
  ASSUME Inv, NEW s \in Supervisors, NEW left, TypeOK',
         UNCHANGED <<status, fence, lease, chain, receipt, performed>>,
         \A d \in left : Left(s, d), \A d, e \in left : d = e, strays' = strays \union left,
         \A t \in Supervisors : t # s => /\ pc'[t] = pc[t] /\ mine'[t] = mine[t]
                                         /\ verdict'[t] = verdict[t] /\ call'[t] = call[t],
         pc[s] # "idle", call'[s] = NoCall, pc'[s] \in {"idle", "finalizing", "releasing"},
         mine'[s].fence \in {0, mine[s].fence},
         mine'[s].fence # 0 => pc'[s] # "idle" /\ verdict'[s] # "quarantined",
         Numbered(s)', Judges(s)', DoneBelow(mine[s].action)'
  PROVE  Inv'
<1>1. mine[s].fence # 0 /\ \A d \in left : d.fence = mine[s].fence
  BY InvIs, LeftIs DEF Numbered
<1>2. \A c \in strays : c.fence # 0
  BY DEF Inv, Stray, TypeOK
<1>3. ASSUME left # {} PROVE \A c \in strays : c.fence # mine[s].fence
  BY <1>3, LeftIs, InvIs DEF Leaves
<1>4. ASSUME NEW t \in Supervisors PROVE Sound(t)'
  <2>1. CASE t = s
    <3>1. Works(s)' /\ Waits(s)' /\ Truthful(call[s])'
      BY NoCallIs DEF Works, Waits, Truthful
    <3>2. \A c \in strays' : Leaves(s, c)'
      BY <1>1, <1>2 DEF Leaves
    <3> QED
      BY <2>1, <3>1, <3>2 DEF Sound
  <2>2. CASE t # s
    <3>1. mine[t].fence # mine[s].fence
      BY <1>1, <2>2 DEF Inv, Distinct
    <3>2. \A c \in strays' : Leaves(t, c)'
      BY <1>1, <2>2, <3>1, InvIs DEF Leaves
    <3>3. Numbered(t)' /\ Works(t)' /\ Waits(t)' /\ Judges(t)'
      BY <2>2, InvIs DEF Numbered, Works, At, Extends, Waits, CallOf, Judges
    <3>4. DoneBelow(mine[t].action)' /\ Truthful(call[t])'
      BY <2>2, InvIs DEF DoneBelow, Done, Truthful
    <3> QED
      BY <3>2, <3>3, <3>4 DEF Sound
  <2> QED
    BY <2>1, <2>2
<1>5. ASSUME NEW d \in strays' PROVE Stray(d)'
  <2>1. Stray(d)
    BY LeftIs DEF Inv
  <2> QED
    BY <2>1 DEF Stray, Truthful, At, Extends, DoneBelow, Done
<1>6. Distinct'
  <2>1. \A c, d \in strays' : c.fence = d.fence => c = d
    BY <1>1, <1>3 DEF Inv, Distinct
  <2>2. \A t, u \in Supervisors : mine'[t].fence = mine'[u].fence /\ mine'[t].fence # 0 => t = u
    BY DEF Inv, Distinct
  <2> QED
    BY <2>1, <2>2 DEF Distinct
<1>7. DoneBelow(chain.action)' /\ Endings' /\ \A a \in Actions : Receipted(a)'
  BY DEF Inv, DoneBelow, Done, Endings, QuarantinedOnlyUncertain, Unresolved, Receipted
<1>8. ASSUME NEW a \in Actions PROVE NotRepeated(a)'
  <2> SUFFICES ASSUME Class[a] = "non_replayable_mutation" PROVE NotRepeated(a)'
    BY DEF NotRepeated
  <2>1. /\ performed[a] \in {0, 1} /\ (receipt[a].state = "none" => performed[a] = 0)
        /\ \A t \in Supervisors : Performing(call[t], a) =>
              /\ Begun(a) /\ \A d \in strays : ~Performing(d, a)
              /\ \A u \in Supervisors : Performing(call[u], a) => u = t
        /\ \A d \in strays : Performing(d, a) =>
              Begun(a) /\ \A e \in strays : Performing(e, a) => e = d
    BY DEF Inv, NotRepeated
  <2>2. \A d \in left : Performing(d, a) => Performing(call[s], a)
    BY LeftIs
  <2>3. ~Performing(call'[s], a)
    BY NoCallIs
  <2>4. ASSUME NEW t \in Supervisors, Performing(call'[t], a)
        PROVE  /\ Begun(a) /\ \A d \in strays' : ~Performing(d, a)
               /\ \A u \in Supervisors : Performing(call'[u], a) => u = t
    <3>1. t # s /\ Performing(call[t], a)
      BY <2>3, <2>4
    <3> QED
      BY <2>1, <2>2, <2>3, <3>1
  <2>5. ASSUME NEW d \in strays', Performing(d, a)
        PROVE  Begun(a) /\ \A e \in strays' : Performing(e, a) => e = d
    <3>1. CASE d \in strays
      BY <2>1, <2>2, <2>5, <3>1
    <3>2. CASE d \in left
      BY <2>1, <2>2, <2>5, <3>2
    <3> QED
      BY <3>1, <3>2
  <2> QED
    BY <2>1, <2>4, <2>5 DEF NotRepeated, Begun, Performing
<1> QED
  BY <1>4, <1>5, <1>6, <1>7, <1>8 DEF Inv

LEMMA InterruptInv ==
  ASSUME Inv, NEW s \in Supervisors, Interrupt(s) PROVE Inv'
<1>1. /\ pc[s] \in {"working", "saving", "waiting"} /\ call' = [call EXCEPT ![s] = NoCall]
      /\ status' = status /\ fence' = fence /\ lease' = lease /\ chain' = chain
      /\ receipt' = receipt /\ performed' = performed /\ mine' = mine
  BY DEF Interrupt, Abandon
<1>2. TypeOK /\ verdict[s] = "none" /\ call[s] \in Call /\ mine[s].fence # 0
  BY <1>1, InvIs, MineFields DEF Judges, Numbered
<1>3. /\ faults' \in Nat
      /\ \/ pc' = [pc EXCEPT ![s] = "releasing"] /\ verdict' = verdict
         \/ \E v \in {"cancelled", "budget_exhausted"} :
               pc' = [pc EXCEPT ![s] = "finalizing"] /\ verdict' = [verdict EXCEPT ![s] = v]
  BY <1>2 DEF Interrupt, Fault, Goto, Select, TypeOK
<1>4. /\ call'[s] = NoCall /\ call' \in [Supervisors -> Call]
      /\ \A t \in Supervisors : t # s => call'[t] = call[t]
  BY <1>1, <1>2, NoCallIs DEF TypeOK
<1>5. /\ \/ pc'[s] = "releasing" /\ verdict'[s] = "none"
         \/ pc'[s] = "finalizing" /\ verdict'[s] \in {"cancelled", "budget_exhausted"}
      /\ \A t \in Supervisors : t # s => pc'[t] = pc[t] /\ verdict'[t] = verdict[t]
  BY <1>2, <1>3 DEF TypeOK
<1>6. PICK left : /\ \A d \in left : Left(s, d)
                  /\ \A d, e \in left : d = e
                  /\ strays' = strays \union left
  <2>1. CASE call[s].step \in {"none", "answered", "unsafe", "threw"}
    <3>1. strays' = strays \union {}
      BY <2>1 DEF Interrupt, Abandon
    <3> QED
      BY <3>1
  <2>2. CASE call[s].step \notin {"none", "answered", "unsafe", "threw"}
    <3> DEFINE d == [call[s] EXCEPT !.aborted = TRUE]
    <3>1. strays' = strays \union {d}
      BY <2>2 DEF Interrupt, Abandon
    <3>2. /\ d \in Call /\ d.fence = call[s].fence /\ d.seq = call[s].seq /\ d.plan = call[s].plan
          /\ d.action = call[s].action /\ d.result = call[s].result /\ d.step = call[s].step
      BY <1>2 DEF Call
    <3>3. call[s].step \in Requests \union {"save"}
      <4>1. CASE pc[s] = "waiting"
        BY <2>2, <4>1, InvIs DEF Waits, Replies
      <4>2. CASE pc[s] # "waiting"
        <5>1. call[s] = CallOf(s, "save")
          BY <1>1, <2>2, <4>2, InvIs, NoCallIs DEF Waits
        <5> QED
          BY <1>2, <5>1, CallOfIs DEF Steps
      <4> QED
        BY <4>1, <4>2
    <3>4. Left(s, d)
      BY <3>2, <3>3 DEF Left
    <3> HIDE DEF d
    <3> QED
      BY <3>1, <3>4
  <2> QED
    BY <2>1, <2>2
<1>7. TypeOK'
  <2>1. strays' \subseteq Call
    BY <1>2, <1>6 DEF TypeOK, Left
  <2>2. pc' \in [Supervisors -> {"idle", "working", "saving", "waiting", "finalizing", "releasing"}]
    BY <1>2, <1>3 DEF TypeOK
  <2>3. verdict' \in [Supervisors -> Ended \union {"none"}]
    BY <1>2, <1>3 DEF TypeOK, Ended
  <2> QED
    BY <1>1, <1>2, <1>3, <1>4, <2>1, <2>2, <2>3 DEF TypeOK, Call
<1>8. Numbered(s)' /\ Judges(s)' /\ DoneBelow(mine[s].action)'
  BY <1>1, <1>2, <1>5, InvIs DEF Numbered, Judges, DoneBelow, Done
<1> QED
  BY <1>1, <1>2, <1>4, <1>5, <1>6, <1>7, <1>8, DepartInv

LEMMA CrashInv ==
  ASSUME Inv, NEW s \in Supervisors, Crash(s) PROVE Inv'
<1> DEFINE none == [fence |-> 0, seq |-> 0, plan |-> "none", action |-> 1]
<1>1. /\ pc[s] # "idle" /\ pc' = [pc EXCEPT ![s] = "idle"]
      /\ verdict' = [verdict EXCEPT ![s] = "none"] /\ mine' = [mine EXCEPT ![s] = none]
      /\ call' = [call EXCEPT ![s] = NoCall] /\ strays' = strays \union Outlives(call[s])
      /\ status' = status /\ fence' = fence /\ lease' = lease /\ chain' = chain
      /\ receipt' = receipt /\ performed' = performed
  BY DEF Crash, Goto
<1>2. TypeOK /\ call[s] \in Call /\ faults' \in Nat
  <2>1. TypeOK /\ call[s] \in Call
    BY InvIs, MineFields
  <2> QED
    BY <2>1 DEF Crash, Fault, TypeOK
<1>3. none \in Work
  BY ActionsAre DEF Work
<1>4. /\ call'[s] = NoCall /\ call' \in [Supervisors -> Call]
      /\ pc'[s] = "idle" /\ verdict'[s] = "none" /\ mine'[s] = none
      /\ \A t \in Supervisors : t # s =>
            call'[t] = call[t] /\ pc'[t] = pc[t] /\ verdict'[t] = verdict[t] /\ mine'[t] = mine[t]
  BY <1>1, <1>2, NoCallIs, MineFields DEF TypeOK
<1>5. /\ \A d \in Outlives(call[s]) : Left(s, d)
      /\ \A d, e \in Outlives(call[s]) : d = e
  <2>1. [call[s] EXCEPT !.step = "sent"] = Becomes(call[s], "sent")
    BY DEF Becomes
  <2>2. CASE call[s].step = "perform"
    <3>1. Outlives(call[s]) = {Becomes(call[s], "sent")}
      BY <2>1, <2>2 DEF Outlives
    <3>2. Left(s, Becomes(call[s], "sent"))
      BY <1>2, <2>2 DEF Left, Becomes, Call, Steps
    <3> QED
      BY <3>1, <3>2
  <2>3. CASE call[s].step = "save"
    BY <1>2, <2>3 DEF Outlives, Left
  <2>4. CASE call[s].step \notin {"perform", "save"}
    BY <2>4 DEF Outlives
  <2> QED
    BY <2>2, <2>3, <2>4
<1>6. TypeOK'
  <2>1. mine' \in [Supervisors -> Work]
    BY <1>1, <1>2, <1>3, MineSet
  <2>2. strays' \subseteq Call
    BY <1>1, <1>2, <1>5 DEF TypeOK, Left
  <2> QED
    BY <1>1, <1>2, <1>4, <2>1, <2>2 DEF TypeOK, Call, Work
<1>7. Numbered(s)' /\ Judges(s)' /\ DoneBelow(mine[s].action)'
  <2>1. DoneBelow(mine[s].action)'
    BY <1>4, ActionsAre DEF DoneBelow, Actions
  <2> QED
    BY <1>1, <1>2, <1>4, <2>1 DEF Numbered, Judges, TypeOK
<1> QED
  BY <1>1, <1>4, <1>5, <1>6, <1>7, DepartInv

---------------------------------------------------------------------------
LEMMA StepInv == Inv /\ [Next]_vars => Inv'
<1> SUFFICES ASSUME Inv, [Next]_vars PROVE Inv'
  OBVIOUS
<1>1. ASSUME NEW s \in Supervisors, Supervise(s) \/ Crash(s) PROVE Inv'
  BY <1>1, AcquireInv, PlanArrivesInv, IssueSaveInv, StoreSaveInv, StartCallInv, AdvanceInv,
     UseAnswerInv, DecideInv, FinalizeInv, ReleaseInv, InterruptInv, CrashInv DEF Supervise
<1>2. ASSUME NEW c \in strays, StrayCall(c) \/ StraySave(c) \/ Delivered(c) PROVE Inv'
  BY <1>2, StrayCallInv, StraySaveInv, DeliveredInv
<1>3. CASE LeaseExpires \/ Recover \/ Pause \/ Resume
  BY <1>3, LeaseExpiresInv, RecoverInv, PauseResumeInv
<1>4. CASE UNCHANGED vars
  <2>1. Endings' /\ status' = status /\ lease' = lease /\ faults' = faults
    BY <1>4 DEF vars, Inv, Endings, DoneBelow, Done, QuarantinedOnlyUncertain, Unresolved
  <2> QED
    BY <1>4, <2>1, GlobalInv DEF vars, Inv, TypeOK
<1> QED
  BY <1>1, <1>2, <1>3, <1>4 DEF Next

(* The invariant holds in every state the effects of a run reach.          *)
THEOREM Invariance == Spec => []Inv
<1> QED
  BY InitInv, StepInv, PTL DEF Spec

(* Every variable keeps its type.                                          *)
THEOREM TypeCorrect == Spec => []TypeOK
<1>1. Inv => TypeOK
  BY DEF Inv
<1> QED
  BY <1>1, Invariance, PTL

(* The effect of a non-replayable action takes place at most once.         *)
THEOREM NoRepeat == Spec => []NonReplayableOnce
<1>1. Inv => NonReplayableOnce
  BY DEF Inv, NotRepeated, NonReplayableOnce
<1> QED
  BY <1>1, Invariance, PTL

(* The store looks to recovery as a supervisor that stopped leaves it.     *)
THEOREM ReceiptsMatch == Spec => []ReceiptsMatchChain
<1>1. Inv => ReceiptsMatchChain
  BY DEF Inv, DoneBelow, Done, Receipted, ReceiptsMatchChain, Unresolved
<1> QED
  BY <1>1, Invariance, PTL

(* A run is quarantined only over an effect that cannot just be repeated.  *)
THEOREM OnlyUncertain == Spec => []QuarantinedOnlyUncertain
<1>1. Inv => QuarantinedOnlyUncertain
  BY DEF Inv, Endings
<1> QED
  BY <1>1, Invariance, PTL

(* A completed run has done each planned action, and says so.              *)
THEOREM CompletedPerformed == Spec => []CompletedRunPerformed
<1>1. Inv => CompletedRunPerformed
  <2> SUFFICES ASSUME Inv, status = "completed", NEW a \in Actions
               PROVE  performed[a] > 0 /\ receipt[a].result = "ok"
    BY DEF CompletedRunPerformed
  <2>1. a < Len(Class) + 1
    BY ActionsAre DEF Actions
  <2>2. Done(a)
    BY <2>1 DEF Inv, Endings, DoneBelow
  <2> QED
    BY <2>2 DEF Inv, Receipted, Done
<1> QED
  BY <1>1, Invariance, PTL

---------------------------------------------------------------------------
(***************************************************************************)
(* EffectReceipts implements EffectLog.                                    *)
(***************************************************************************)
LEMMA OutcomesAre ==
  /\ Log!Actions = Actions
  /\ \A a \in Actions : Outcomes[a] = "ok" <=> Done(a)
  /\ \A n \in Nat : DoneBelow(n) => \A b \in Actions : b < n => Outcomes[b] = "ok"
BY DEF Log!Actions, Actions, Outcomes, Done, DoneBelow

(* Steps that concern neither effects nor receipts, and the run's going on *)
LEMMA LogQuiet ==
  ASSUME receipt' = receipt, performed' = performed, RunIs' = RunIs
  PROVE  UNCHANGED Log!vars
BY DEF Log!vars, Outcomes

LEMMA RunGoesOn ==
  ASSUME status \in {"queued", "running", "paused"}, status' \in {"queued", "running", "paused"}
  PROVE  RunIs = "open" /\ RunIs' = "open"
BY DEF RunIs, Ended

LEMMA LogPerform ==
  ASSUME TypeOK, NEW a \in Actions, DoneBelow(a),
         Class[a] = "non_replayable_mutation" => performed[a] = 0,
         performed' = [performed EXCEPT ![a] = @ + 1], receipt' = receipt, status' = status
  PROVE  Log!Next
<1>1. Log!InOrder(a)
  <2>1. a \in Nat
    BY ActionsAre
  <2> QED
    BY <2>1, OutcomesAre DEF Log!InOrder
<1>2. Outcomes' = Outcomes /\ RunIs' = RunIs
  BY DEF Outcomes, RunIs
<1>3. Log!Perform(a)
  BY <1>1, <1>2 DEF Log!Perform
<1> QED
  BY <1>3, OutcomesAre DEF Log!Next

(* A receipt that is completed under a live lease is an entry of the log.  *)
LEMMA LogRecord ==
  ASSUME TypeOK, Endings, NEW a \in Actions, DoneBelow(a), NEW r \in Results,
         lease = "live", receipt[a].state = "prepared", r = "ok" => performed[a] > 0,
         receipt' = [receipt EXCEPT ![a] =
             [state |-> "completed", plan |-> receipt[a].plan, result |-> r]],
         performed' = performed, status' = status
  PROVE  Log!Next \/ UNCHANGED Log!vars
<1>1. Outcomes[a] = "none" /\ Outcomes' = [Outcomes EXCEPT ![a] = r]
  <2>1. Outcomes[a] = "none" /\ Outcomes'[a] = r
    BY DEF Outcomes, TypeOK
  <2>2. \A b \in Actions : b # a => Outcomes'[b] = Outcomes[b]
    BY DEF Outcomes, TypeOK
  <2>3. Outcomes' = [b \in Actions |-> Outcomes'[b]] /\ Outcomes = [b \in Actions |-> Outcomes[b]]
    BY DEF Outcomes
  <2> HIDE DEF Outcomes
  <2> QED
    BY <2>1, <2>2, <2>3
<1>2. RunIs = "open" /\ RunIs' = RunIs
  BY DEF Endings, RunIs, Ended
<1>3. CASE r = "none"
  <2>1. Outcomes' = Outcomes
    BY <1>1, <1>3 DEF Outcomes
  <2> QED
    BY <1>2, <2>1 DEF Log!vars
<1>4. CASE r # "none"
  <2>1. r \in {"ok", "error", "aborted"}
    BY <1>4 DEF Results
  <2>2. Log!InOrder(a)
    <3>1. a \in Nat
      BY ActionsAre
    <3> QED
      BY <3>1, OutcomesAre DEF Log!InOrder
  <2>3. Log!Record(a)
    BY <1>1, <1>2, <2>1, <2>2 DEF Log!Record
  <2> QED
    BY <2>3, OutcomesAre DEF Log!Next
<1> QED
  BY <1>3, <1>4

(* A call, awaited or stray, that is at what has been done before it       *)
LEMMA LogMoves ==
  ASSUME Inv, NEW c, NEW next, Moves(c, next), DoneBelow(c.action),
         \A a \in Actions : Class[a] = "non_replayable_mutation" /\ Performing(c, a) => Begun(a)
  PROVE  Log!Next \/ UNCHANGED Log!vars
<1> DEFINE a == c.action
<1>1. TypeOK /\ Endings /\ a \in Actions /\ Truthful(c) /\ status' = status /\ lease' = lease
  BY DEF Inv, Moves, Acting
<1>2. \/ receipt' = receipt
      \/ /\ c.step = "prepare" /\ receipt[a].state = "none"
         /\ receipt' = [receipt EXCEPT ![a] = Opened(c)]
      \/ /\ Fenced(c.fence) /\ c.step = "complete" /\ receipt[a].state = "prepared"
         /\ receipt' = [receipt EXCEPT ![a] = Closed(c)]
  BY DEF Moves, ReceiptMoves
<1>3. \/ performed' = performed
      \/ c.step = "perform" /\ performed' = [performed EXCEPT ![a] = @ + 1]
  BY DEF Moves, WorldMoves
<1>4. CASE c.step = "perform" /\ performed' = [performed EXCEPT ![a] = @ + 1]
  <2>1. Class[a] = "non_replayable_mutation" => performed[a] = 0
    BY <1>1, <1>4 DEF Performing, Begun
  <2>2. receipt' = receipt
    BY <1>2, <1>4
  <2> QED
    BY <1>1, <1>4, <2>1, <2>2, LogPerform
<1>5. CASE performed' = performed /\ receipt' = receipt
  <2>1. RunIs' = RunIs
    BY <1>1 DEF RunIs
  <2> QED
    BY <1>5, <2>1, LogQuiet
<1>6. CASE /\ performed' = performed /\ receipt[a].state = "none"
           /\ receipt' = [receipt EXCEPT ![a] = Opened(c)]
  <2>1. \A b \in Actions : Outcomes'[b] = Outcomes[b]
    BY <1>1, <1>6 DEF Outcomes, Opened, TypeOK
  <2>2. Outcomes' = Outcomes /\ RunIs' = RunIs
    BY <1>1, <2>1 DEF Outcomes, RunIs
  <2> QED
    BY <1>6, <2>2 DEF Log!vars
<1>7. CASE /\ performed' = performed /\ Fenced(c.fence) /\ c.step = "complete"
           /\ receipt[a].state = "prepared" /\ receipt' = [receipt EXCEPT ![a] = Closed(c)]
  <2>1. c.result \in Results /\ lease = "live" /\ (c.result = "ok" => performed[a] > 0)
    BY <1>1, <1>7, CallFields DEF Moves, Acting, Truthful, Fenced
  <2> QED
    BY <1>1, <1>7, <2>1, LogRecord DEF Closed
<1> QED
  BY <1>2, <1>3, <1>4, <1>5, <1>6, <1>7

(* The run ends: completed when all its actions were done, or stopped.     *)
LEMMA LogEnds ==
  ASSUME Inv, status \in {"queued", "running", "paused"}, status' \in Ended,
         status' = "completed" => DoneBelow(Len(Class) + 1),
         receipt' = receipt, performed' = performed
  PROVE  Log!Next
<1>1. RunIs = "open" /\ Outcomes' = Outcomes
  BY DEF RunIs, Ended, Outcomes
<1>2. CASE status' = "completed"
  <2>1. \A a \in Actions : Outcomes[a] = "ok"
    BY <1>2, OutcomesAre, ActionsAre DEF Actions
  <2>2. Log!Complete
    BY <1>1, <1>2, <2>1, OutcomesAre DEF Log!Complete, RunIs
  <2> QED
    BY <2>2 DEF Log!Next
<1>3. CASE status' # "completed"
  <2>1. Log!Stop
    BY <1>1, <1>3 DEF Log!Stop, RunIs
  <2> QED
    BY <2>1 DEF Log!Next
<1> QED
  BY <1>2, <1>3

LEMMA LogFinalize ==
  ASSUME Inv, NEW s \in Supervisors, Finalize(s) PROVE Log!Next \/ UNCHANGED Log!vars
<1>1. /\ pc[s] = "finalizing" /\ receipt' = receipt /\ performed' = performed
      /\ \/ status' = status
         \/ status \notin Ended /\ status' = verdict[s]
  BY DEF Finalize
<1>2. CASE status' = status
  BY <1>1, <1>2, LogQuiet DEF RunIs
<1>3. CASE status \notin Ended /\ status' = verdict[s]
  <2>1. /\ status \in {"queued", "running", "paused"} /\ verdict[s] \in Ended
        /\ verdict[s] = "completed" => mine[s].action \notin Actions
        /\ DoneBelow(mine[s].action) /\ mine[s].action \in 1 .. Len(Class) + 1
    <3>1. TypeOK /\ Sound(s)
      BY DEF Inv
    <3> QED
      BY <1>1, <1>3, <3>1 DEF TypeOK, Sound, Judges
  <2>2. verdict[s] = "completed" => DoneBelow(Len(Class) + 1)
    BY <2>1, ActionsAre
  <2> QED
    BY <1>1, <1>3, <2>1, <2>2, LogEnds
<1> QED
  BY <1>1, <1>2, <1>3

LEMMA LogAdvance ==
  ASSUME Inv, NEW s \in Supervisors, Advance(s) PROVE Log!Next \/ UNCHANGED Log!vars
<1>1. /\ pc[s] = "waiting"
      /\ UNCHANGED <<status, fence, lease, chain, pc, mine, verdict>>
  BY DEF Advance
<1>2. TypeOK /\ Sound(s) /\ Acting(call[s]) /\ call[s].action = mine[s].action
  BY <1>1, WaitingActs DEF Inv, Sound, Waits
<1>3. PICK next : CallStep(call[s], next)
  BY DEF Advance
<1>4. Moves(call[s], next)
  BY <1>1, <1>2, <1>3, StepMoves DEF Moves, Acting
<1>5. DoneBelow(call[s].action)
  BY <1>2 DEF Sound
<1>6. \A a \in Actions : Class[a] = "non_replayable_mutation" /\ Performing(call[s], a) => Begun(a)
  BY DEF Inv, NotRepeated
<1> QED
  BY <1>4, <1>5, <1>6, LogMoves

LEMMA LogStrayCall ==
  ASSUME Inv, NEW c \in strays, StrayCall(c) PROVE Log!Next \/ UNCHANGED Log!vars
<1>1. UNCHANGED <<status, fence, lease, chain, pc, mine, verdict>>
  BY DEF StrayCall
<1>2. PICK next : CallStep(c, next)
  BY DEF StrayCall
<1>3. TypeOK /\ Stray(c) /\ c.step \in Requests
  BY <1>2 DEF Inv, CallStep, Prepare, Perform, Reconcile, Complete, Requests
<1>4. Acting(c)
  BY <1>3, StrayActs
<1>5. Moves(c, next)
  BY <1>1, <1>2, <1>3, <1>4, StepMoves DEF Moves, Acting
<1>6. DoneBelow(c.action)
  BY <1>3 DEF Stray
<1>7. \A a \in Actions : Class[a] = "non_replayable_mutation" /\ Performing(c, a) => Begun(a)
  BY DEF Inv, NotRepeated
<1> QED
  BY <1>5, <1>6, <1>7, LogMoves

LEMMA LogDelivered ==
  ASSUME Inv, NEW c \in strays, Delivered(c) PROVE Log!Next
<1>1. /\ c.step = "sent" /\ performed' = [performed EXCEPT ![c.action] = @ + 1]
      /\ receipt' = receipt /\ status' = status
  BY DEF Delivered
<1>2. TypeOK /\ c.action \in Actions /\ DoneBelow(c.action)
  BY <1>1 DEF Inv, Stray
<1>3. Class[c.action] = "non_replayable_mutation" => performed[c.action] = 0
  BY <1>1, <1>2 DEF Inv, NotRepeated, Performing, Begun
<1> QED
  BY <1>1, <1>2, <1>3, LogPerform

(* Every step of the receipts is a step of the log, or none of it.         *)
LEMMA LogStep == Inv /\ [Next]_vars => [Log!Next]_(Log!vars)
<1> SUFFICES ASSUME Inv, [Next]_vars PROVE Log!Next \/ UNCHANGED Log!vars
  OBVIOUS
<1>1. ASSUME receipt' = receipt, performed' = performed, status' = status
      PROVE  UNCHANGED Log!vars
  BY <1>1, LogQuiet DEF RunIs
<1>2. ASSUME NEW s \in Supervisors, Supervise(s) \/ Crash(s)
      PROVE  Log!Next \/ UNCHANGED Log!vars
  <2>1. CASE Acquire(s)
    BY <2>1, RunGoesOn, LogQuiet DEF Acquire
  <2>2. CASE Finalize(s)
    BY <2>2, LogFinalize
  <2>3. CASE Advance(s)
    BY <2>3, LogAdvance
  <2>4. CASE \/ IssueSave(s) \/ StoreSave(s) \/ StartCall(s) \/ UseAnswer(s) \/ Decide(s)
             \/ Release(s) \/ Interrupt(s) \/ Crash(s) \/ \E p \in Plans : PlanArrives(s, p)
    BY <1>1, <2>4 DEF IssueSave, StoreSave, StartCall, UseAnswer, Decide, Release, Interrupt, Crash,
       PlanArrives
  <2> QED
    BY <1>2, <2>1, <2>2, <2>3, <2>4 DEF Supervise
<1>3. ASSUME NEW c \in strays, StrayCall(c) \/ StraySave(c) \/ Delivered(c)
      PROVE  Log!Next \/ UNCHANGED Log!vars
  <2>1. CASE StraySave(c)
    BY <1>1, <2>1 DEF StraySave
  <2> QED
    BY <1>3, <2>1, LogStrayCall, LogDelivered
<1>4. CASE LeaseExpires
  BY <1>1, <1>4 DEF LeaseExpires
<1>5. CASE Pause \/ Resume
  BY <1>5, RunGoesOn, LogQuiet DEF Pause, Resume
<1>6. CASE Recover
  <2>1. CASE status' = "quarantined"
    BY <1>6, <2>1, LogEnds DEF Recover, Ended
  <2>2. CASE status' = status
    BY <1>1, <1>6, <2>2 DEF Recover
  <2> QED
    BY <1>6, <2>1, <2>2 DEF Recover
<1>7. CASE UNCHANGED vars
  BY <1>1, <1>7 DEF vars
<1> QED
  BY <1>2, <1>3, <1>4, <1>5, <1>6, <1>7 DEF Next

(* The receipts are a log of the plan, whatever fails, is taken over or    *)
(* outlives its execution.                                                 *)
THEOREM Refinement == Spec => KeepsLog
<1>1. Init => Log!Init
  BY OutcomesAre DEF Init, Log!Init, Outcomes, RunIs, Ended, NoReceipt
<1>2. Spec => []Inv
  BY Invariance
<1> QED
  BY <1>1, <1>2, LogStep, PTL DEF Spec, KeepsLog, Log!Spec

---------------------------------------------------------------------------
(* The lease that effects are fenced by is one as RunLease has it.         *)
LEMMA LeasingStep == Inv /\ [Next]_vars => [Leasing!Next]_(Leasing!vars)
<1> SUFFICES ASSUME Inv, [Next]_vars PROVE Leasing!Next \/ UNCHANGED Leasing!vars
  OBVIOUS
<1>1. /\ fence \in Nat /\ lease \in {"none", "live", "expired"}
      /\ status \in {"queued", "running", "paused"} \union Ended
      /\ lease = "live" => status = "running"
      /\ {"queued", "running", "paused"} \intersect Ended = {}
  BY DEF Inv, TypeOK, Endings, Ended
<1>2. ASSUME fence' = fence, status' = status, lease' = lease \/ lease' # "live"
      PROVE  Leasing!Next \/ UNCHANGED Leasing!vars
  BY <1>2 DEF Leasing!vars, Leasing!Next, Leasing!Lose
<1>3. ASSUME fence' = fence, status \notin Ended, status' \in Ended, lease' # "live"
      PROVE  Leasing!Next \/ UNCHANGED Leasing!vars
  BY <1>3 DEF Leasing!Next, Leasing!End
<1>4. ASSUME fence' = fence, status \notin Ended, status' \notin Ended,
             lease' = lease \/ lease' # "live"
      PROVE  Leasing!Next \/ UNCHANGED Leasing!vars
  BY <1>4 DEF Leasing!vars, Leasing!Next, Leasing!Lose
<1>5. ASSUME NEW s \in Supervisors, Supervise(s) \/ Crash(s)
      PROVE  Leasing!Next \/ UNCHANGED Leasing!vars
  <2>1. CASE Acquire(s)
    BY <1>1, <2>1 DEF Acquire, Leasing!Next, Leasing!Acquire
  <2>2. CASE Finalize(s)
    <3>1. pc[s] = "finalizing" => verdict[s] \in Ended
      BY DEF Inv, TypeOK, Sound, Judges
    <3> QED
      BY <1>2, <1>3, <2>2, <3>1 DEF Finalize
  <2>3. CASE Release(s)
    BY <1>2, <2>3 DEF Release
  <2>4. CASE \/ IssueSave(s) \/ StoreSave(s) \/ StartCall(s) \/ Advance(s) \/ UseAnswer(s)
             \/ Decide(s) \/ Interrupt(s) \/ Crash(s) \/ \E p \in Plans : PlanArrives(s, p)
    BY <1>2, <2>4 DEF IssueSave, StoreSave, StartCall, Advance, UseAnswer, Decide, Interrupt, Crash,
       PlanArrives
  <2> QED
    BY <1>5, <2>1, <2>2, <2>3, <2>4 DEF Supervise
<1>6. ASSUME NEW c \in strays, StrayCall(c) \/ StraySave(c) \/ Delivered(c)
      PROVE  Leasing!Next \/ UNCHANGED Leasing!vars
  BY <1>2, <1>6 DEF StrayCall, StraySave, Delivered
<1>7. CASE LeaseExpires
  BY <1>2, <1>7 DEF LeaseExpires
<1>8. CASE Pause \/ Resume
  BY <1>1, <1>4, <1>8 DEF Pause, Resume
<1>9. CASE Recover
  BY <1>1, <1>2, <1>3, <1>9 DEF Recover, Ended
<1>10. CASE UNCHANGED vars
  BY <1>2, <1>10 DEF vars
<1> QED
  BY <1>5, <1>6, <1>7, <1>8, <1>9, <1>10 DEF Next

(* The run that effects are fenced by is one as WorkerRun has it.          *)
THEOREM LeaseRefinement == Spec => KeepsLease
<1>1. Init => Leasing!Init
  BY DEF Init, Leasing!Init, Ended
<1> QED
  BY <1>1, LeasingStep, Invariance, PTL DEF Spec, KeepsLease, Leasing!Spec
===============================================================================
