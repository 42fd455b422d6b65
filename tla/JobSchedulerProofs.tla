-------------------------- MODULE JobSchedulerProofs --------------------------
(***************************************************************************)
(* That a job is executed once at a time, is charged for its failures and  *)
(* stays as it ended, that a trigger has one occurrence, and that one      *)
(* process dequeues, for any processes, jobs, commands and faults.         *)
(***************************************************************************)
EXTENDS JobScheduler, FiniteSetTheorems, WellFoundedInduction, TLAPS

(* An execution has a process and a job; unless a sweep took the job for   *)
(* lost it is the only one, and its copy of the record is right.           *)
Own(x) == pc[x] # "idle" =>
    /\ proc[x] \in Processes /\ job[x] \in Jobs /\ ~(job[x] > created)
    /\ pc[x] = "recur" => job[x] \in Cron
    /\ job[x] \notin swept =>
          /\ \A y \in Executions : pc[y] # "idle" /\ job[y] = job[x] => y = x
          /\ inFlight[proc[x]][job[x]] = x
          /\ status[job[x]] = IF pc[x] = "recur" THEN "success" ELSE "running"
          /\ claimed[x] = attempts[job[x]]
          /\ pc[x] = "retry" => claimed[x] < MaxAttempts
          /\ pc[x] = "fail" => ~(claimed[x] < MaxAttempts)

(* A job's attempts are its failures and the claim that is under way.      *)
Counted(j) ==
    /\ status[j] = "absent" <=> j > created
    /\ j \notin swept =>
          /\ status[j] \in {"queued", "absent"} => attempts[j] = failures[j]
          /\ status[j] \in {"running", "success"} => attempts[j] = failures[j] + 1
          /\ status[j] = "failed" => failures[j] = MaxAttempts
          /\ status[j] \in Live \union {"absent"} => failures[j] < MaxAttempts

Single ==
    \A j, k \in Cron \ swept : status[j] \in Live /\ status[k] \in Live => j = k

(* A process that leads holds the coordinator's lock; one that gives its   *)
(* lock back no longer polls.                                              *)
Leads(p) ==
    /\ mode = "fail_closed" /\ tick[p] = "leading" /\ polling[p] => holder = p /\ unexpired
    /\ releasing[p] => ~polling[p] /\ tick[p] # "down"
    /\ polling[p] => tick[p] # "down"
    /\ seen[p] = "mine" => mode = "file"

Inv ==
    /\ TypeOK
    /\ \A x \in Executions : Own(x)
    /\ \A j \in Jobs : Counted(j)
    /\ Single
    /\ \A p \in Processes : Leads(p)

(* What has ended stays as it ended, in one step.                          *)
Keeps == \A j \in Jobs \ swept : status[j] \in Ended => status'[j] = status[j]

---------------------------------------------------------------------------
(* The type invariant in parts.                                            *)
ProcsTyped ==
    /\ polling \in [Processes -> BOOLEAN] /\ tick \in [Processes -> Tick]
    /\ sweepDue \in [Processes -> BOOLEAN] /\ releasing \in [Processes -> BOOLEAN]

MapTyped == inFlight \in [Processes -> [Jobs -> Executions \union {"none"}]]

JobsTyped ==
    /\ created \in 0 .. MaxJobs
    /\ status \in [Jobs -> Live \union Ended \union {"absent"}]
    /\ attempts \in [Jobs -> Nat] /\ cancelRequested \in [Jobs -> BOOLEAN]
    /\ active \in BOOLEAN /\ failures \in [Jobs -> Nat] /\ swept \subseteq Jobs

ExTyped ==
    /\ pc \in [Executions -> PC] /\ proc \in [Executions -> Processes \union {"none"}]
    /\ job \in [Executions -> 0 .. MaxJobs] /\ claimed \in [Executions -> Nat]
    /\ signal \in [Executions -> {"none", "operator", "shutdown"}]

BoundsTyped == commands \in Nat /\ faults \in Nat

LEMMA TypeIs ==
  TypeOK <=> Gate!LockTyped /\ ProcsTyped /\ MapTyped /\ JobsTyped /\ ExTyped /\ BoundsTyped
BY DEF TypeOK, ProcsTyped, MapTyped, JobsTyped, ExTyped, BoundsTyped

LEMMA TypeIsNext ==
  TypeOK' <=> Gate!LockTyped' /\ ProcsTyped' /\ MapTyped' /\ JobsTyped' /\ ExTyped' /\ BoundsTyped'
BY DEF TypeOK, ProcsTyped, MapTyped, JobsTyped, ExTyped, BoundsTyped

(* Parts of the state that do not move.                                    *)
LEMMA StillTyped ==
  ASSUME TypeOK
  PROVE  /\ UNCHANGED gateVars => Gate!LockTyped'
         /\ UNCHANGED <<polling, tick, sweepDue, releasing>> => ProcsTyped'
         /\ UNCHANGED inFlight => MapTyped'
         /\ UNCHANGED <<created, status, attempts, cancelRequested, active, failures, swept>> =>
               JobsTyped'
         /\ UNCHANGED exVars => ExTyped'
         /\ UNCHANGED boundVars => BoundsTyped'
BY TypeIs DEF gateVars, exVars, boundVars, Gate!LockTyped, ProcsTyped, MapTyped, JobsTyped, ExTyped,
   BoundsTyped

LEMMA BoundsStep ==
  ASSUME TypeOK, Fault \/ Command \/ UNCHANGED boundVars
  PROVE  BoundsTyped'
BY TypeIs DEF BoundsTyped, Fault, Command, boundVars

LEMMA JobsAre ==
  /\ MaxAttempts \in Nat /\ 0 < MaxAttempts /\ MaxJobs \in Nat /\ OneOffs \in Nat
  /\ OneOffs <= MaxJobs /\ Cron \subseteq Jobs
  /\ \A j \in Jobs : j \in Nat /\ j \in 0 .. MaxJobs /\ j # 0
BY CountsAssumption DEF Jobs, Cron

LEMMA JobIs ==
  ASSUME TypeOK, NEW j \in Jobs
  PROVE  /\ status[j] \in Live \union Ended \union {"absent"} /\ created \in Nat
         /\ attempts[j] \in Nat /\ failures[j] \in Nat
BY JobsAre DEF TypeOK

LEMMA ExIs ==
  ASSUME TypeOK, NEW x \in Executions
  PROVE  /\ pc[x] \in PC /\ claimed[x] \in Nat
         /\ signal[x] \in {"none", "operator", "shutdown"}
BY DEF TypeOK

LEMMA LeastOf ==
  ASSUME NEW S \in SUBSET Nat, S # {}
  PROVE  \E n \in S : \A m \in S : n <= m
<1> DEFINE R == OpToRel(<, Nat)
<1>1. IsWellFoundedOn(R, Nat)
  BY NatLessThanWellFounded, Zenon
<1> HIDE DEF R
<1>2. PICK n \in S : \A m \in S : ~(<<m, n>> \in R)
  BY <1>1, WFMin
<1>3. ASSUME NEW m \in S PROVE n <= m
  <2>1. ~(<<m, n>> \in R)
    BY <1>2
  <2>2. ~(m < n)
    BY <2>1 DEF R, OpToRel
  <2> QED
    BY <2>2
<1> QED
  BY <1>3

---------------------------------------------------------------------------
(* Executions that remain are as they were.                                *)
Fewer == \A y \in Executions : pc'[y] # "idle" =>
    /\ pc'[y] = pc[y] /\ proc'[y] = proc[y] /\ job'[y] = job[y] /\ claimed'[y] = claimed[y]
    /\ job[y] \notin swept => inFlight'[proc[y]][job[y]] = inFlight[proc[y]][job[y]]

LEMMA FewerSame ==
  ASSUME UNCHANGED <<pc, proc, job, claimed, inFlight>> PROVE Fewer
BY DEF Fewer

(* A step that starts no execution.                                        *)
LEMMA ShrinkInv ==
  ASSUME Inv, TypeOK', Fewer, \A p \in Processes : Leads(p)',
         swept \subseteq swept', created' = created \/ created' = created + 1,
         \A y \in Executions : pc'[y] # "idle" /\ job[y] \notin swept' =>
             status'[job[y]] = status[job[y]] /\ attempts'[job[y]] = attempts[job[y]],
         \A j \in Jobs : Counted(j)', Single'
  PROVE  Inv'
<1>1. ASSUME NEW x \in Executions PROVE Own(x)'
  <2> SUFFICES ASSUME pc'[x] # "idle" PROVE Own(x)'
    BY DEF Own
  <2>1. /\ pc'[x] = pc[x] /\ proc'[x] = proc[x] /\ job'[x] = job[x] /\ claimed'[x] = claimed[x]
        /\ job[x] \notin swept => inFlight'[proc[x]][job[x]] = inFlight[proc[x]][job[x]]
    BY DEF Fewer
  <2>2. Own(x) /\ TypeOK
    BY DEF Inv
  <2>3. proc[x] \in Processes /\ job[x] \in Jobs /\ ~(job[x] > created)
    BY <2>1, <2>2 DEF Own
  <2>4. ~(job[x] > created')
    BY <2>2, <2>3, JobIs, JobsAre
  <2>5. ASSUME job[x] \notin swept'
        PROVE  \A y \in Executions : pc'[y] # "idle" /\ job'[y] = job'[x] => y = x
    BY <2>1, <2>2, <2>5 DEF Own, Fewer
  <2>6. job[x] \notin swept' => job[x] \notin swept
    OBVIOUS
  <2> QED
    BY <2>1, <2>2, <2>3, <2>4, <2>5, <2>6 DEF Own
<1> QED
  BY <1>1 DEF Inv

(* A step of processes and gate alone.                                     *)
LEMMA GateInv ==
  ASSUME Inv, TypeOK', \A p \in Processes : Leads(p)',
         UNCHANGED <<inFlight, created, status, attempts, pc, proc, job, claimed, failures, swept>>
  PROVE  Inv' /\ Keeps
<1>1. \A j \in Jobs : Counted(j)'
  BY DEF Inv, Counted
<1>2. Single'
  BY DEF Inv, Single
<1>3. Keeps
  BY DEF Keeps
<1> QED
  BY <1>1, <1>2, <1>3, FewerSame, ShrinkInv

(* A step that leaves the gate and the ticks alone.                        *)
LEMMA LeadsStill ==
  ASSUME Inv, UNCHANGED <<gateVars, polling, tick, releasing>>
  PROVE  \A p \in Processes : Leads(p)'
BY DEF Inv, Leads, gateVars

---------------------------------------------------------------------------
(* The gate grants a free lock, and nobody loses one that is held.         *)
Holds(q) == holder = q /\ unexpired

LEMMA AcquireGate ==
  ASSUME Gate!LockTyped, NEW p \in Processes, NEW leads \in BOOLEAN,
         \/ Gate!WriteFile(p, leads) \/ Gate!Ask(p, leads) \/ Gate!Ungated(p, leads)
         \/ Gate!AskUnanswered(p, leads) \/ Gate!AskRejected(p, leads)
  PROVE  /\ Gate!LockTyped' /\ mode' = mode
         /\ \A q \in Processes : seen'[q] = "mine" => seen[q] = "mine"
         /\ mode = "fail_closed" =>
               /\ leads => Holds(p)'
               /\ \A q \in Processes : q # p /\ Holds(q) => Holds(q)'
<1>0. \A q \in Processes : q # p /\ Holds(q) => ~Gate!Free(p)
  BY ProcessesAssumption DEF Holds, Gate!Free
<1>1. CASE Gate!WriteFile(p, leads)
  BY <1>1 DEF Gate!WriteFile, Gate!Grant, Gate!Believe, Gate!LockTyped, Gate!Seen
<1>2. CASE Gate!Ask(p, leads)
  <2>1. Gate!LockTyped' /\ mode' = mode /\ seen' = seen
    BY <1>2 DEF Gate!Ask, Gate!Grant, Gate!Believe, Gate!LockTyped
  <2>2. CASE Gate!Free(p) /\ holder' = p /\ unexpired' = TRUE
    BY <1>0, <2>1, <2>2 DEF Holds
  <2>3. CASE ~leads /\ holder' = holder /\ unexpired' = unexpired
    BY <2>1, <2>3 DEF Holds
  <2> QED
    BY <1>2, <2>2, <2>3 DEF Gate!Ask, Gate!Grant
<1>3. CASE Gate!Ungated(p, leads)
  BY <1>3 DEF Gate!Ungated, Gate!lockVars, Gate!LockTyped
<1>4. CASE Gate!AskUnanswered(p, leads)
  <2>1. Gate!LockTyped' /\ mode' = mode /\ seen' = seen
    BY <1>4 DEF Gate!AskUnanswered, Gate!Grant, Gate!Believe, Gate!LockTyped
  <2>2. mode = "fail_closed" => ~leads
    BY <1>4 DEF Gate!AskUnanswered, Gate!Unanswered
  <2>3. CASE Gate!Free(p) /\ holder' = p /\ unexpired' = TRUE
    BY <1>0, <2>1, <2>2, <2>3 DEF Holds
  <2>4. CASE holder' = holder /\ unexpired' = unexpired
    BY <2>1, <2>2, <2>4 DEF Holds
  <2> QED
    BY <1>4, <2>3, <2>4 DEF Gate!AskUnanswered, Gate!Grant
<1>5. CASE Gate!AskRejected(p, leads)
  BY <1>5 DEF Gate!AskRejected, Gate!lockVars, Gate!LockTyped, Holds
<1> QED
  BY <1>1, <1>2, <1>3, <1>4, <1>5

LEMMA ReleaseGate ==
  ASSUME Gate!LockTyped, NEW p \in Processes, seen[p] = "mine" => mode = "file",
         Gate!ReadOwn(p) \/ Gate!Unlink(p) \/ Gate!GiveUp(p)
  PROVE  /\ Gate!LockTyped' /\ mode' = mode
         /\ \A q \in Processes : seen'[q] = "mine" => seen[q] = "mine" \/ mode = "file"
         /\ mode = "fail_closed" => \A q \in Processes : q # p /\ Holds(q) => Holds(q)'
<1>1. CASE Gate!ReadOwn(p)
  BY <1>1 DEF Gate!ReadOwn, Gate!LockTyped, Gate!Seen, Holds
<1>2. CASE Gate!Unlink(p)
  BY <1>2 DEF Gate!Unlink, Gate!Believe, Gate!LockTyped, Gate!Seen
<1>3. CASE Gate!GiveUp(p)
  BY <1>3 DEF Gate!GiveUp, Gate!Believe, Gate!LockTyped, Holds
<1> QED
  BY <1>1, <1>2, <1>3
---------------------------------------------------------------------------
(* Processes and the gate.                                                 *)
LEMMA RescheduleIs ==
  ASSUME TypeOK, NEW p \in Processes, Reschedule(p)
  PROVE  /\ tick' \in [Processes -> Tick] /\ tick'[p] \in {"timer", "off"}
         /\ \A q \in Processes : q # p => tick'[q] = tick[q]
BY DEF TypeOK, Reschedule, Tick

LEMMA StartInv ==
  ASSUME Inv, NEW p \in Processes, Start(p) PROVE Inv' /\ Keeps
<1>1. /\ tick[p] = "down" /\ polling' = [polling EXCEPT ![p] = TRUE]
      /\ tick' = [tick EXCEPT ![p] = "timer"] /\ sweepDue' = [sweepDue EXCEPT ![p] = TRUE]
      /\ UNCHANGED <<gateVars, releasing, inFlight, jobVars, exVars, historyVars, boundVars>>
  BY DEF Start
<1>2. TypeOK
  BY DEF Inv
<1>3. TypeOK'
  <2>1. ProcsTyped'
    BY <1>1, <1>2 DEF TypeOK, ProcsTyped, Tick
  <2> QED
    BY <1>1, <1>2, <2>1, StillTyped, TypeIsNext DEF jobVars, historyVars
<1>4. ASSUME NEW q \in Processes PROVE Leads(q)'
  <2>1. Leads(q)
    BY DEF Inv
  <2>2. mode' = mode /\ holder' = holder /\ unexpired' = unexpired /\ seen' = seen
        /\ releasing' = releasing
    BY <1>1 DEF gateVars
  <2>3. CASE q = p
    BY <1>1, <1>2, <2>1, <2>2, <2>3 DEF TypeOK, Leads
  <2>4. CASE q # p
    BY <1>1, <1>2, <2>1, <2>2, <2>4 DEF TypeOK, Leads
  <2> QED
    BY <2>3, <2>4
<1> QED
  BY <1>1, <1>3, <1>4, GateInv DEF jobVars, exVars, historyVars

LEMMA StopInv ==
  ASSUME Inv, NEW p \in Processes, Stop(p) PROVE Inv' /\ Keeps
<1>1. /\ polling[p] /\ polling' = [polling EXCEPT ![p] = FALSE]
      /\ tick' = [tick EXCEPT ![p] = IF @ = "timer" THEN "off" ELSE @]
      /\ signal' = [x \in Executions |->
             IF signal[x] = "none" /\ \E j \in Jobs : inFlight[p][j] = x THEN "shutdown"
             ELSE signal[x]]
      /\ releasing' = [releasing EXCEPT ![p] = held[p]] /\ Fault
      /\ UNCHANGED <<gateVars, sweepDue, inFlight, jobVars, pc, proc, job, claimed, historyVars>>
  BY DEF Stop
<1>2. TypeOK /\ held[p] \in BOOLEAN /\ tick[p] \in Tick
  BY DEF Inv, TypeOK, Gate!LockTyped
<1>3. TypeOK'
  <2>1. ProcsTyped'
    BY <1>1, <1>2 DEF TypeOK, ProcsTyped, Tick
  <2>2. ExTyped'
    <3>1. \A x \in Executions : signal'[x] \in {"none", "operator", "shutdown"}
      BY <1>1, <1>2, ExIs
    <3>2. signal' \in [Executions -> {"none", "operator", "shutdown"}]
      BY <1>1, <3>1
    <3> QED
      BY <1>1, <1>2, <3>2 DEF TypeOK, ExTyped
  <2> QED
    BY <1>1, <1>2, <2>1, <2>2, BoundsStep, StillTyped, TypeIsNext DEF jobVars, historyVars
<1>4. ASSUME NEW q \in Processes PROVE Leads(q)'
  <2>1. Leads(q)
    BY DEF Inv
  <2>2. mode' = mode /\ holder' = holder /\ unexpired' = unexpired /\ seen' = seen
    BY <1>1 DEF gateVars
  <2>3. CASE q = p
    <3>1. polling'[p] = FALSE /\ tick'[p] # "down"
      BY <1>1, <1>2, <2>1, <2>3 DEF TypeOK, Leads
    <3> QED
      BY <2>1, <2>2, <2>3, <3>1 DEF Leads
  <2>4. CASE q # p
    <3>1. polling'[q] = polling[q] /\ tick'[q] = tick[q] /\ releasing'[q] = releasing[q]
      BY <1>1, <1>2, <2>4 DEF TypeOK
    <3> QED
      BY <2>1, <2>2, <3>1 DEF Leads
  <2> QED
    BY <2>3, <2>4
<1> QED
  BY <1>1, <1>3, <1>4, GateInv DEF jobVars, historyVars

LEMMA ReleasedInv ==
  ASSUME Inv, NEW p \in Processes, Released(p) PROVE Inv' /\ Keeps
<1>1. /\ releasing[p] /\ (Gate!ReadOwn(p) \/ Gate!Unlink(p) \/ Gate!GiveUp(p))
      /\ releasing' = releasing \/ releasing' = [releasing EXCEPT ![p] = FALSE]
      /\ UNCHANGED <<polling, tick, sweepDue, inFlight, jobVars, exVars, historyVars, boundVars>>
  BY DEF Released
<1>2. TypeOK /\ Gate!LockTyped /\ Leads(p)
  BY TypeIs DEF Inv
<1>3. /\ Gate!LockTyped' /\ mode' = mode
      /\ \A q \in Processes : seen'[q] = "mine" => seen[q] = "mine" \/ mode = "file"
      /\ mode = "fail_closed" => \A q \in Processes : q # p /\ Holds(q) => Holds(q)'
  BY <1>1, <1>2, ReleaseGate DEF Leads
<1>4. TypeOK'
  <2>1. ProcsTyped'
    BY <1>1, <1>2 DEF TypeOK, ProcsTyped
  <2> QED
    BY <1>1, <1>2, <1>3, <2>1, StillTyped, TypeIsNext DEF jobVars, historyVars
<1>5. ASSUME NEW q \in Processes PROVE Leads(q)'
  <2>1. Leads(q) /\ (releasing'[q] => releasing[q])
    BY <1>1, <1>2 DEF Inv, TypeOK
  <2>2. q = p => ~polling[q]
    BY <1>1, <1>2 DEF Leads
  <2> QED
    BY <1>1, <1>3, <2>1, <2>2 DEF Leads, Holds
<1> QED
  BY <1>1, <1>4, <1>5, GateInv DEF jobVars, exVars, historyVars

LEMMA TickStartsInv ==
  ASSUME Inv, NEW p \in Processes, TickStarts(p) PROVE Inv' /\ Keeps
<1>1. /\ tick[p] = "timer" /\ tick' = [tick EXCEPT ![p] = "gate"]
      /\ (Gate!ReadFile(p) /\ mode = "file") \/ UNCHANGED gateVars
      /\ UNCHANGED <<polling, sweepDue, releasing, inFlight, jobVars, exVars, historyVars,
                     boundVars>>
  BY DEF TickStarts
<1>2. TypeOK /\ Gate!LockTyped
  BY TypeIs DEF Inv
<1>3. /\ Gate!LockTyped' /\ mode' = mode /\ holder' = holder /\ unexpired' = unexpired
      /\ \A q \in Processes : seen'[q] = "mine" => seen[q] = "mine"
  <2>1. CASE Gate!ReadFile(p)
    BY <1>2, <2>1 DEF Gate!ReadFile, Gate!LockTyped, Gate!Seen
  <2>2. CASE UNCHANGED gateVars
    BY <1>2, <2>2, StillTyped DEF gateVars
  <2> QED
    BY <1>1, <2>1, <2>2
<1>4. TypeOK'
  <2>1. ProcsTyped'
    BY <1>1, <1>2 DEF TypeOK, ProcsTyped, Tick
  <2> QED
    BY <1>1, <1>2, <1>3, <2>1, StillTyped, TypeIsNext DEF jobVars, historyVars
<1>5. ASSUME NEW q \in Processes PROVE Leads(q)'
  <2>1. Leads(q) /\ (tick'[q] = tick[q] \/ (q = p /\ tick'[q] = "gate"))
    BY <1>1, <1>2 DEF Inv, TypeOK
  <2> QED
    BY <1>1, <1>3, <2>1 DEF Leads
<1> QED
  BY <1>1, <1>4, <1>5, GateInv DEF jobVars, exVars, historyVars

LEMMA AcquiredInv ==
  ASSUME Inv, NEW p \in Processes, Acquired(p) PROVE Inv' /\ Keeps
<1>1. PICK leads \in BOOLEAN :
         /\ \/ Gate!WriteFile(p, leads) \/ Gate!Ask(p, leads) \/ Gate!Ungated(p, leads)
            \/ Gate!AskUnanswered(p, leads) \/ Gate!AskRejected(p, leads)
         /\ Fault \/ UNCHANGED boundVars
         /\ IF leads THEN tick' = [tick EXCEPT ![p] = "leading"] ELSE Reschedule(p)
  BY DEF Acquired
<1>2. /\ tick[p] = "gate"
      /\ UNCHANGED <<polling, sweepDue, releasing, inFlight, jobVars, exVars, historyVars>>
  BY DEF Acquired
<1>3. TypeOK /\ Gate!LockTyped
  BY TypeIs DEF Inv
<1>4. /\ Gate!LockTyped' /\ mode' = mode
      /\ \A q \in Processes : seen'[q] = "mine" => seen[q] = "mine"
      /\ mode = "fail_closed" =>
            /\ leads => Holds(p)'
            /\ \A q \in Processes : q # p /\ Holds(q) => Holds(q)'
  BY <1>1, <1>3, AcquireGate
<1>5. /\ tick' \in [Processes -> Tick] /\ tick'[p] # "down" /\ (tick'[p] = "leading" => leads)
      /\ \A q \in Processes : q # p => tick'[q] = tick[q]
  <2>1. CASE leads
    BY <1>1, <1>3, <2>1 DEF TypeOK, Tick
  <2>2. CASE ~leads
    BY <1>1, <1>3, <2>2, RescheduleIs
  <2> QED
    BY <2>1, <2>2
<1>6. TypeOK'
  <2>1. ProcsTyped'
    BY <1>2, <1>3, <1>5 DEF TypeOK, ProcsTyped
  <2> QED
    BY <1>1, <1>2, <1>3, <1>4, <2>1, BoundsStep, StillTyped, TypeIsNext DEF jobVars, historyVars
<1>7. ASSUME NEW q \in Processes PROVE Leads(q)'
  <2>1. Leads(q)
    BY DEF Inv
  <2>2. CASE q = p
    BY <1>2, <1>4, <1>5, <2>1, <2>2 DEF Leads, Holds
  <2>3. CASE q # p
    BY <1>2, <1>4, <1>5, <2>1, <2>3 DEF Leads, Holds
  <2> QED
    BY <2>2, <2>3
<1> QED
  BY <1>2, <1>6, <1>7, GateInv DEF jobVars, exVars, historyVars

LEMMA NothingClaimedInv ==
  ASSUME Inv, NEW p \in Processes, NothingClaimed(p) PROVE Inv' /\ Keeps
<1>1. /\ Reschedule(p) /\ tick[p] = "leading"
      /\ UNCHANGED <<gateVars, polling, sweepDue, releasing, inFlight, jobVars, exVars,
                     historyVars, boundVars>>
  BY DEF NothingClaimed
<1>2. TypeOK
  BY DEF Inv
<1>3. TypeOK'
  <2>1. ProcsTyped'
    BY <1>1, <1>2, RescheduleIs DEF TypeOK, ProcsTyped
  <2> QED
    BY <1>1, <1>2, <2>1, StillTyped, TypeIsNext DEF jobVars, historyVars
<1>4. ASSUME NEW q \in Processes PROVE Leads(q)'
  <2>1. Leads(q) /\ (tick'[q] = tick[q] \/ tick'[q] \in {"timer", "off"})
    BY <1>1, <1>2, RescheduleIs DEF Inv
  <2> QED
    BY <1>1, <2>1 DEF Leads, gateVars
<1> QED
  BY <1>1, <1>3, <1>4, GateInv DEF jobVars, exVars, historyVars

LEMMA LockExpiresInv ==
  ASSUME Inv, LockExpires PROVE Inv' /\ Keeps
<1>1. /\ unexpired' = FALSE /\ (holder # "none" => tick[holder] # "leading")
      /\ mode' = mode /\ holder' = holder /\ held' = held /\ seen' = seen
      /\ UNCHANGED <<procVars, jobVars, exVars, historyVars, boundVars>>
  BY DEF LockExpires, Gate!Expire
<1>2. TypeOK /\ Gate!LockTyped
  BY TypeIs DEF Inv
<1>3. TypeOK'
  <2>1. Gate!LockTyped'
    BY <1>1, <1>2 DEF Gate!LockTyped
  <2> QED
    BY <1>1, <1>2, <2>1, StillTyped, TypeIsNext DEF procVars, jobVars, historyVars
<1>4. ASSUME NEW q \in Processes PROVE Leads(q)'
  <2>1. Leads(q) /\ q # "none"
    BY ProcessesAssumption DEF Inv
  <2> QED
    BY <1>1, <2>1 DEF Leads, procVars
<1> QED
  BY <1>1, <1>3, <1>4, GateInv DEF procVars, jobVars, exVars, historyVars

LEMMA ToggleTriggerInv ==
  ASSUME Inv, ToggleTrigger PROVE Inv' /\ Keeps
<1>1. /\ Command /\ active' = ~active
      /\ UNCHANGED <<gateVars, procVars, created, status, attempts, cancelRequested, exVars,
                     historyVars>>
  BY DEF ToggleTrigger
<1>2. TypeOK
  BY DEF Inv
<1>3. TypeOK'
  <2>1. JobsTyped'
    BY <1>1, <1>2 DEF TypeOK, JobsTyped, historyVars
  <2> QED
    BY <1>1, <1>2, <2>1, BoundsStep, StillTyped, TypeIsNext DEF procVars
<1>4. \A p \in Processes : Leads(p)'
  BY <1>1, LeadsStill DEF procVars
<1> QED
  BY <1>1, <1>3, <1>4, GateInv DEF procVars, exVars, historyVars

LEMMA WatchCancelInv ==
  ASSUME Inv, NEW x \in Executions, WatchCancel(x) PROVE Inv' /\ Keeps
<1>1. /\ signal' = [signal EXCEPT ![x] = "operator"]
      /\ UNCHANGED <<gateVars, polling, tick, sweepDue, releasing, created, active, swept>>
      /\ UNCHANGED <<inFlight, jobVars, pc, proc, job, claimed, failures, boundVars>>
  BY DEF WatchCancel, OnlyExecution
<1>2. TypeOK
  BY DEF Inv
<1>3. TypeOK'
  <2>1. ExTyped'
    BY <1>1, <1>2 DEF TypeOK, ExTyped
  <2> QED
    BY <1>1, <1>2, <2>1, StillTyped, TypeIsNext DEF jobVars
<1>4. \A p \in Processes : Leads(p)'
  BY <1>1, LeadsStill
<1> QED
  BY <1>1, <1>3, <1>4, GateInv DEF jobVars
---------------------------------------------------------------------------
(* The beginning, the sweep, the end of a process, and a claim.            *)
LEMMA InitInv ==
  ASSUME Init PROVE Inv
<1>1. /\ Gate!LockInit /\ swept = {}
      /\ polling = [p \in Processes |-> FALSE] /\ tick = [p \in Processes |-> "down"]
      /\ releasing = [p \in Processes |-> FALSE] /\ created = OneOffs
      /\ status = [j \in Jobs |-> IF j <= OneOffs THEN "queued" ELSE "absent"]
      /\ attempts = [j \in Jobs |-> 0] /\ failures = [j \in Jobs |-> 0]
      /\ pc = [x \in Executions |-> "idle"]
  BY DEF Init
<1>2. TypeOK
  <2>1. Gate!LockTyped
    BY <1>1, ModeAssumption DEF Gate!LockInit, Gate!LockTyped, Gate!Mode, Gate!Seen
  <2>2. ProcsTyped
    BY DEF Init, ProcsTyped, Tick
  <2>3. MapTyped
    BY DEF Init, MapTyped
  <2>4. JobsTyped
    BY CountsAssumption DEF Init, JobsTyped, Live, Ended
  <2>5. ExTyped
    BY CountsAssumption DEF Init, ExTyped, PC
  <2>6. BoundsTyped
    BY DEF Init, BoundsTyped
  <2> QED
    BY <2>1, <2>2, <2>3, <2>4, <2>5, <2>6, TypeIs
<1>3. \A x \in Executions : Own(x)
  BY <1>1 DEF Own
<1>4. ASSUME NEW j \in Jobs PROVE Counted(j)
  <2>1. j \in Nat /\ OneOffs \in Nat /\ (j <= OneOffs <=> ~(j > OneOffs))
    BY JobsAre
  <2> QED
    BY <1>1, <2>1, JobsAre DEF Counted, Live
<1>5. Single
  <2>1. \A j \in Cron : ~(j <= OneOffs) /\ j \in Jobs
    BY JobsAre DEF Cron
  <2> QED
    BY <1>1, <2>1 DEF Single, Live
<1>6. \A p \in Processes : Leads(p)
  BY <1>1 DEF Leads, Gate!LockInit
<1> QED
  BY <1>2, <1>3, <1>4, <1>5, <1>6 DEF Inv

LEMMA SweepInv ==
  ASSUME Inv, NEW p \in Processes, NEW stale \in SUBSET Jobs, Sweep(p, stale)
  PROVE  Inv' /\ Keeps
<1>1. /\ sweepDue' = [sweepDue EXCEPT ![p] = FALSE]
      /\ \A j \in stale : status[j] = "running"
      /\ status' = [j \in Jobs |-> IF j \in stale THEN "queued" ELSE status[j]]
      /\ swept' = swept \union stale
      /\ Fault \/ UNCHANGED boundVars
      /\ UNCHANGED <<gateVars, polling, tick, releasing, inFlight, created, attempts,
                     cancelRequested, active, exVars, failures>>
  BY DEF Sweep
<1>2. TypeOK
  BY DEF Inv
<1>3. TypeOK'
  <2>1. ProcsTyped'
    BY <1>1, <1>2 DEF TypeOK, ProcsTyped
  <2>2. JobsTyped'
    <3>1. \A j \in Jobs : status'[j] \in Live \union Ended \union {"absent"}
      BY <1>1, <1>2, JobIs DEF Live
    <3>2. status' \in [Jobs -> Live \union Ended \union {"absent"}]
      BY <1>1, <3>1
    <3> QED
      BY <1>1, <1>2, <3>2 DEF TypeOK, JobsTyped
  <2> QED
    BY <1>1, <1>2, <2>1, <2>2, BoundsStep, StillTyped, TypeIsNext
<1>4. \A q \in Processes : Leads(q)'
  BY <1>1, LeadsStill
<1>5. ASSUME NEW j \in Jobs PROVE Counted(j)'
  <2>1. Counted(j)
    BY DEF Inv
  <2>2. CASE j \in stale
    BY <1>1, <2>1, <2>2 DEF Counted
  <2>3. CASE j \notin stale
    BY <1>1, <2>1, <2>3 DEF Counted
  <2> QED
    BY <2>2, <2>3
<1>6. Single'
  BY <1>1, JobsAre DEF Inv, Single
<1>7. Keeps
  BY <1>1 DEF Keeps, Ended
<1>8. \A y \in Executions : pc'[y] # "idle" /\ job[y] \notin swept' =>
          status'[job[y]] = status[job[y]] /\ attempts'[job[y]] = attempts[job[y]]
  BY <1>1 DEF Inv, Own, exVars
<1>9. Fewer
  BY <1>1, FewerSame DEF exVars
<1> QED
  BY <1>1, <1>3, <1>4, <1>5, <1>6, <1>7, <1>8, <1>9, ShrinkInv

LEMMA DownInv ==
  ASSUME Inv, NEW p \in Processes, Down(p), Fault \/ UNCHANGED boundVars
  PROVE  Inv' /\ Keeps
<1>1. /\ polling' = [polling EXCEPT ![p] = FALSE] /\ tick' = [tick EXCEPT ![p] = "down"]
      /\ sweepDue' = [sweepDue EXCEPT ![p] = FALSE]
      /\ releasing' = [releasing EXCEPT ![p] = FALSE]
      /\ inFlight' = [inFlight EXCEPT ![p] = [j \in Jobs |-> "none"]]
      /\ Forget({x \in Executions : proc[x] = p}) /\ Gate!LockForgotten(p)
      /\ UNCHANGED <<jobVars, historyVars>>
  BY DEF Down
<1>2. TypeOK /\ Gate!LockTyped
  BY TypeIs DEF Inv
<1>3. TypeOK'
  <2>1. ProcsTyped'
    BY <1>1, <1>2 DEF TypeOK, ProcsTyped, Tick
  <2>2. MapTyped'
    <3>1. [j \in Jobs |-> "none"] \in [Jobs -> Executions \union {"none"}]
      OBVIOUS
    <3> QED
      BY <1>1, <1>2, <3>1 DEF TypeOK, MapTyped
  <2>3. ExTyped'
    BY <1>1, <1>2, JobsAre DEF TypeOK, ExTyped, Forget, PC
  <2>4. Gate!LockTyped'
    BY <1>1, <1>2 DEF Gate!LockForgotten, Gate!Believe, Gate!LockTyped, Gate!Seen
  <2> QED
    BY <1>1, <1>2, <2>1, <2>2, <2>3, <2>4, BoundsStep, StillTyped, TypeIsNext
    DEF jobVars, historyVars
<1>4. ASSUME NEW q \in Processes PROVE Leads(q)'
  <2>1. Leads(q)
    BY DEF Inv
  <2>2. mode' = mode /\ holder' = holder /\ unexpired' = unexpired
        /\ seen' = [seen EXCEPT ![p] = "nothing"]
    BY <1>1 DEF Gate!LockForgotten
  <2>3. CASE q = p
    <3>1. tick'[q] = "down" /\ polling'[q] = FALSE /\ releasing'[q] = FALSE
          /\ seen'[q] = "nothing"
      BY <1>1, <1>2, <2>2, <2>3 DEF TypeOK, Gate!LockTyped
    <3> QED
      BY <3>1 DEF Leads
  <2>4. CASE q # p
    <3>1. tick'[q] = tick[q] /\ polling'[q] = polling[q] /\ releasing'[q] = releasing[q]
          /\ seen'[q] = seen[q]
      BY <1>1, <1>2, <2>2, <2>4 DEF TypeOK, Gate!LockTyped
    <3> QED
      BY <2>1, <2>2, <3>1 DEF Leads
  <2> QED
    BY <2>3, <2>4
<1>5. Fewer
  <2> SUFFICES ASSUME NEW y \in Executions, pc'[y] # "idle"
               PROVE  /\ pc'[y] = pc[y] /\ proc'[y] = proc[y] /\ job'[y] = job[y]
                      /\ claimed'[y] = claimed[y]
                      /\ inFlight'[proc[y]][job[y]] = inFlight[proc[y]][job[y]]
    BY DEF Fewer
  <2>1. /\ proc[y] # p /\ pc'[y] = pc[y] /\ proc'[y] = proc[y] /\ job'[y] = job[y]
        /\ claimed'[y] = claimed[y]
    BY <1>1 DEF Forget
  <2>2. proc[y] \in Processes
    BY <2>1 DEF Inv, Own
  <2> QED
    BY <1>1, <1>2, <2>1, <2>2 DEF TypeOK
<1>6. (\A j \in Jobs : Counted(j)') /\ Single' /\ Keeps
  BY <1>1 DEF Inv, Counted, Single, Keeps, jobVars, historyVars
<1> QED
  BY <1>1, <1>3, <1>4, <1>5, <1>6, ShrinkInv DEF jobVars, historyVars

LEMMA ClaimInv ==
  ASSUME Inv, NEW p \in Processes, NEW x \in Executions, NEW j \in Jobs, Claim(p, x, j)
  PROVE  Inv' /\ Keeps
<1>1. /\ pc[x] = "idle" /\ status[j] = "queued" /\ tick[p] = "leading"
      /\ status' = [status EXCEPT ![j] = "running"]
      /\ attempts' = [attempts EXCEPT ![j] = @ + 1]
      /\ pc' = [pc EXCEPT ![x] = "handling"] /\ proc' = [proc EXCEPT ![x] = p]
      /\ job' = [job EXCEPT ![x] = j] /\ claimed' = [claimed EXCEPT ![x] = attempts[j] + 1]
      /\ inFlight' = [inFlight EXCEPT ![p][j] = x] /\ Reschedule(p)
      /\ UNCHANGED <<gateVars, polling, sweepDue, releasing, created, cancelRequested, active,
                     signal, historyVars, boundVars>>
  BY DEF Claim, Claimable
<1>2. TypeOK
  BY DEF Inv
<1>3. Counted(j) /\ ~(j > created) /\ created \in Nat /\ attempts[j] \in Nat
  BY <1>1, JobIs DEF Inv, Counted
<1>4. TypeOK'
  <2>1. ProcsTyped'
    BY <1>1, <1>2, RescheduleIs DEF TypeOK, ProcsTyped
  <2>2. MapTyped'
    BY <1>1, <1>2 DEF TypeOK, MapTyped
  <2>3. JobsTyped'
    <3>1. status' \in [Jobs -> Live \union Ended \union {"absent"}]
      BY <1>1, <1>2 DEF TypeOK, Live
    <3>2. attempts' \in [Jobs -> Nat]
      BY <1>1, <1>2, <1>3 DEF TypeOK
    <3> QED
      BY <1>1, <1>2, <3>1, <3>2 DEF TypeOK, JobsTyped, historyVars
  <2>4. ExTyped'
    <3>1. attempts[j] + 1 \in Nat /\ j \in 0 .. MaxJobs
      BY <1>3, JobsAre
    <3> QED
      BY <1>1, <1>2, <3>1 DEF TypeOK, ExTyped, PC
  <2> QED
    BY <1>1, <1>2, <2>1, <2>2, <2>3, <2>4, StillTyped, TypeIsNext
<1>5. ASSUME NEW q \in Processes PROVE Leads(q)'
  <2>1. Leads(q) /\ (tick'[q] = tick[q] \/ tick'[q] \in {"timer", "off"})
    BY <1>1, <1>2, RescheduleIs DEF Inv
  <2> QED
    BY <1>1, <2>1 DEF Leads, gateVars
<1>6. /\ pc'[x] = "handling" /\ proc'[x] = p /\ job'[x] = j /\ claimed'[x] = attempts[j] + 1
      /\ status'[j] = "running" /\ attempts'[j] = attempts[j] + 1 /\ inFlight'[p][j] = x
      /\ \A y \in Executions : y # x => pc'[y] = pc[y] /\ proc'[y] = proc[y] /\ job'[y] = job[y]
                                        /\ claimed'[y] = claimed[y]
      /\ \A k \in Jobs : k # j => status'[k] = status[k] /\ attempts'[k] = attempts[k]
      /\ \A q \in Processes, k \in Jobs : k # j => inFlight'[q][k] = inFlight[q][k]
      /\ swept' = swept /\ created' = created /\ failures' = failures
  BY <1>1, <1>2 DEF TypeOK, historyVars
<1>7. ASSUME NEW y \in Executions, y # x, pc[y] # "idle", j \notin swept PROVE job[y] # j
  BY <1>1, <1>7 DEF Inv, Own
<1>8. ASSUME NEW y \in Executions PROVE Own(y)'
  <2>1. CASE y = x
    <3>1. j \notin swept' => \A z \in Executions : pc'[z] # "idle" /\ job'[z] = j => z = x
      BY <1>6, <1>7
    <3> QED
      BY <1>3, <1>6, <2>1, <3>1 DEF Own
  <2>2. CASE y # x
    <3> SUFFICES ASSUME pc'[y] # "idle" PROVE Own(y)'
      BY DEF Own
    <3>1. /\ Own(y) /\ pc[y] # "idle" /\ pc'[y] = pc[y] /\ proc'[y] = proc[y]
          /\ job'[y] = job[y] /\ claimed'[y] = claimed[y]
      BY <1>6, <2>2 DEF Inv
    <3>2. proc[y] \in Processes /\ job[y] \in Jobs /\ ~(job[y] > created)
          /\ (pc[y] = "recur" => job[y] \in Cron)
      BY <3>1 DEF Own
    <3>3. CASE job[y] \in swept
      BY <1>6, <3>1, <3>2, <3>3 DEF Own
    <3>4. CASE job[y] \notin swept
      <4>1. job[y] # j
        BY <1>7, <2>2, <3>1, <3>4
      <4>2. \A z \in Executions : pc'[z] # "idle" /\ job'[z] = job[y] => z = y
        BY <1>6, <3>1, <3>4, <4>1 DEF Own
      <4> QED
        BY <1>6, <3>1, <3>2, <3>4, <4>1, <4>2 DEF Own
    <3> QED
      BY <3>3, <3>4
  <2> QED
    BY <2>1, <2>2
<1>9. ASSUME NEW k \in Jobs PROVE Counted(k)'
  <2>1. CASE k = j
    BY <1>1, <1>3, <1>6, <2>1 DEF Counted, Live
  <2>2. CASE k # j
    BY <1>6, <2>2 DEF Inv, Counted
  <2> QED
    BY <2>1, <2>2
<1>10. Single'
  <2>1. \A k \in Cron : k \in Jobs /\ (status'[k] \in Live => status[k] \in Live)
    BY <1>1, <1>6, JobsAre DEF Live
  <2> QED
    BY <1>6, <2>1 DEF Inv, Single
<1>11. Keeps
  BY <1>1, <1>6 DEF Keeps, Ended
<1> QED
  BY <1>4, <1>5, <1>8, <1>9, <1>10, <1>11 DEF Inv
---------------------------------------------------------------------------
(* One execution.                                                          *)
LEMMA FinishIs ==
  ASSUME Inv, NEW x \in Executions, pc[x] # "idle", Finish(x)
  PROVE  Fewer /\ pc'[x] = "idle" /\ ExTyped' /\ MapTyped'
<1>1. /\ Forget({x}) /\ inFlight' = [inFlight EXCEPT ![proc[x]][job[x]] = "none"]
  BY DEF Finish
<1>2. TypeOK /\ Own(x)
  BY DEF Inv
<1>3. ExTyped'
  BY <1>1, <1>2, JobsAre DEF TypeOK, ExTyped, Forget, PC
<1>4. MapTyped'
  <2>1. proc[x] \in Processes /\ job[x] \in Jobs
    BY <1>2 DEF Own
  <2> QED
    BY <1>1, <1>2, <2>1 DEF TypeOK, MapTyped
<1>5. pc'[x] = "idle"
  BY <1>1 DEF Forget
<1>6. ASSUME NEW y \in Executions, pc'[y] # "idle"
      PROVE  /\ pc'[y] = pc[y] /\ proc'[y] = proc[y] /\ job'[y] = job[y]
             /\ claimed'[y] = claimed[y]
             /\ job[y] \notin swept => inFlight'[proc[y]][job[y]] = inFlight[proc[y]][job[y]]
  <2>1. /\ y # x /\ pc'[y] = pc[y] /\ proc'[y] = proc[y] /\ job'[y] = job[y]
        /\ claimed'[y] = claimed[y]
    BY <1>1, <1>5, <1>6 DEF Forget
  <2>2. Own(y) /\ pc[y] # "idle"
    BY <1>6, <2>1 DEF Inv
  <2>3. ASSUME job[y] \notin swept
        PROVE  inFlight'[proc[y]][job[y]] = inFlight[proc[y]][job[y]]
    <3>1. job[x] # job[y] /\ proc[y] \in Processes /\ job[y] \in Jobs
      BY <2>1, <2>2, <2>3 DEF Own
    <3> QED
      BY <1>1, <1>2, <3>1 DEF TypeOK, Own
  <2> QED
    BY <2>1, <2>3
<1> QED
  BY <1>3, <1>4, <1>5, <1>6 DEF Fewer

(* An execution writes its outcome and ends.                               *)
LEMMA OutcomeInv ==
  ASSUME Inv, NEW x \in Executions, pc[x] \notin {"idle", "recur"}, Finish(x),
         UNCHANGED <<gateVars, polling, tick, sweepDue, releasing, created, active, swept>>,
         UNCHANGED boundVars,
         NEW outcome \in {"success", "canceled", "queued", "failed"},
         status' = [status EXCEPT ![job[x]] = outcome],
         attempts' \in [Jobs -> Nat], failures' \in [Jobs -> Nat],
         cancelRequested' \in [Jobs -> BOOLEAN],
         \A k \in Jobs : k # job[x] => attempts'[k] = attempts[k] /\ failures'[k] = failures[k],
         job[x] \notin swept =>
             /\ outcome = "queued" => /\ attempts'[job[x]] = failures'[job[x]]
                                      /\ failures'[job[x]] < MaxAttempts
             /\ outcome = "success" => attempts'[job[x]] = failures'[job[x]] + 1
             /\ outcome = "failed" => failures'[job[x]] = MaxAttempts
  PROVE  Inv' /\ Keeps
<1>1. TypeOK /\ Own(x)
  BY DEF Inv
<1>2. /\ job[x] \in Jobs /\ ~(job[x] > created)
      /\ job[x] \notin swept => status[job[x]] = "running"
  BY <1>1 DEF Own
<1>3. /\ status'[job[x]] = outcome /\ \A k \in Jobs : k # job[x] => status'[k] = status[k]
      /\ status' \in [Jobs -> Live \union Ended \union {"absent"}]
  BY <1>1, <1>2 DEF TypeOK, Live, Ended
<1>4. Fewer /\ pc'[x] = "idle" /\ ExTyped' /\ MapTyped'
  BY FinishIs
<1>5. TypeOK'
  <2>1. JobsTyped'
    BY <1>1, <1>3 DEF TypeOK, JobsTyped
  <2> QED
    BY <1>1, <1>4, <2>1, StillTyped, TypeIsNext
<1>6. \A p \in Processes : Leads(p)'
  BY LeadsStill
<1>7. ASSUME NEW j \in Jobs PROVE Counted(j)'
  <2>1. Counted(j)
    BY DEF Inv
  <2>2. CASE j = job[x]
    BY <1>2, <1>3, <2>1, <2>2 DEF Counted, Live
  <2>3. CASE j # job[x]
    BY <1>3, <2>1, <2>3 DEF Counted
  <2> QED
    BY <2>2, <2>3
<1>8. Single'
  <2>1. \A k \in Cron \ swept : k \in Jobs /\ (status'[k] \in Live => status[k] \in Live)
    BY <1>2, <1>3, JobsAre DEF Live
  <2> QED
    BY <2>1 DEF Inv, Single
<1>9. Keeps
  BY <1>2, <1>3 DEF Keeps, Ended
<1>10. \A y \in Executions : pc'[y] # "idle" /\ job[y] \notin swept' =>
           status'[job[y]] = status[job[y]] /\ attempts'[job[y]] = attempts[job[y]]
  <2> SUFFICES ASSUME NEW y \in Executions, pc'[y] # "idle", job[y] \notin swept
               PROVE  status'[job[y]] = status[job[y]] /\ attempts'[job[y]] = attempts[job[y]]
    OBVIOUS
  <2>1. y # x /\ pc[y] # "idle" /\ Own(y)
    BY <1>4 DEF Fewer, Inv
  <2>2. job[y] # job[x] /\ job[y] \in Jobs
    BY <2>1 DEF Own
  <2> QED
    BY <1>3, <2>2
<1> QED
  BY <1>4, <1>5, <1>6, <1>7, <1>8, <1>9, <1>10, ShrinkInv

(* An execution ends and writes nothing.                                   *)
LEMMA FinishInv ==
  ASSUME Inv, NEW x \in Executions, pc[x] # "idle", Finish(x),
         UNCHANGED <<gateVars, polling, tick, sweepDue, releasing, jobVars, historyVars>>,
         Fault \/ UNCHANGED boundVars
  PROVE  Inv' /\ Keeps
<1>1. Fewer /\ ExTyped' /\ MapTyped'
  BY FinishIs
<1>2. TypeOK'
  BY <1>1, BoundsStep, StillTyped, TypeIsNext DEF Inv, jobVars, historyVars
<1>3. \A p \in Processes : Leads(p)'
  BY LeadsStill
<1>4. (\A j \in Jobs : Counted(j)') /\ Single' /\ Keeps
  BY DEF Inv, Counted, Single, Keeps, jobVars, historyVars
<1> QED
  BY <1>1, <1>2, <1>3, <1>4, ShrinkInv DEF jobVars, historyVars

(* An execution goes on to its next await.                                 *)
LEMMA AwaitInv ==
  ASSUME Inv, NEW x \in Executions, pc[x] \notin {"idle", "recur"},
         NEW at \in PC \ {"idle", "recur"}, Await(x, at),
         at = "retry" => claimed[x] < MaxAttempts,
         at = "fail" => ~(claimed[x] < MaxAttempts),
         UNCHANGED <<gateVars, polling, tick, sweepDue, releasing, jobVars, historyVars>>,
         Fault \/ UNCHANGED boundVars
  PROVE  Inv' /\ Keeps
<1>1. pc' = [pc EXCEPT ![x] = at] /\ UNCHANGED <<proc, job, claimed, signal, inFlight>>
  BY DEF Await
<1>2. TypeOK
  BY DEF Inv
<1>3. TypeOK'
  <2>1. ExTyped'
    BY <1>1, <1>2 DEF TypeOK, ExTyped
  <2> QED
    BY <1>1, <1>2, <2>1, BoundsStep, StillTyped, TypeIsNext DEF jobVars, historyVars
<1>4. /\ pc'[x] = at /\ \A y \in Executions : y # x => pc'[y] = pc[y]
      /\ \A y \in Executions : pc'[y] # "idle" => pc[y] # "idle"
  BY <1>1, <1>2 DEF TypeOK
<1>5. ASSUME NEW y \in Executions PROVE Own(y)'
  <2>1. Own(y)
    BY DEF Inv
  <2>2. CASE y = x
    BY <1>1, <1>4, <2>1, <2>2 DEF Own, jobVars, historyVars
  <2>3. CASE y # x
    BY <1>1, <1>4, <2>1, <2>3 DEF Own, jobVars, historyVars
  <2> QED
    BY <2>2, <2>3
<1>6. (\A j \in Jobs : Counted(j)') /\ Single' /\ Keeps
  BY DEF Inv, Counted, Single, Keeps, jobVars, historyVars
<1>7. \A p \in Processes : Leads(p)'
  BY LeadsStill
<1> QED
  BY <1>3, <1>5, <1>6, <1>7 DEF Inv

LEMMA ReturnedInv ==
  ASSUME Inv, NEW x \in Executions, Returned(x) PROVE Inv' /\ Keeps
<1>1. PICK at \in {"release", "cancel", "succeed"} : Await(x, at)
  BY DEF Returned
<1>2. at \in PC \ {"idle", "recur"} /\ at \notin {"retry", "fail"}
  BY DEF PC
<1> QED
  BY <1>1, <1>2, AwaitInv DEF Returned, OnlyExecution, historyVars

LEMMA CatchInv ==
  ASSUME Inv, NEW x \in Executions, pc[x] \notin {"idle", "recur"}, NEW kind, Catch(x, kind),
         UNCHANGED <<gateVars, polling, tick, sweepDue, releasing, jobVars, historyVars>>,
         Fault \/ UNCHANGED boundVars
  PROVE  Inv' /\ Keeps
<1>1. PICK at \in {"defer", "release", "reread"} : Await(x, at)
  BY DEF Catch
<1>2. at \in PC \ {"idle", "recur"} /\ at \notin {"retry", "fail"}
  BY DEF PC
<1> QED
  BY <1>1, <1>2, AwaitInv

LEMMA ThrewInv ==
  ASSUME Inv, NEW x \in Executions, Threw(x) PROVE Inv' /\ Keeps
<1>1. PICK kind : Catch(x, kind)
  BY DEF Threw
<1> QED
  BY <1>1, CatchInv DEF Threw, OnlyExecution, historyVars

LEMMA RereadInv ==
  ASSUME Inv, NEW x \in Executions, Reread(x) PROVE Inv' /\ Keeps
<1>1. PICK at \in {"canceled", "retry", "fail"} :
         /\ Await(x, at)
         /\ at = "retry" => claimed[x] < MaxAttempts
         /\ at = "fail" => ~(claimed[x] < MaxAttempts)
  BY DEF Reread
<1>2. at \in PC \ {"idle", "recur"}
  BY DEF PC
<1> QED
  BY <1>1, <1>2, AwaitInv DEF Reread, OnlyExecution, historyVars

LEMMA WriteLostInv ==
  ASSUME Inv, NEW x \in Executions, WriteLost(x) PROVE Inv' /\ Keeps
<1>1. /\ Fault
      /\ UNCHANGED <<gateVars, polling, tick, sweepDue, releasing, jobVars, historyVars>>
  BY DEF WriteLost, OnlyExecution, historyVars
<1>2. CASE pc[x] \in {"succeed", "cancel"} /\ Catch(x, "error")
  BY <1>1, <1>2, CatchInv
<1>3. CASE pc[x] # "idle" /\ Finish(x)
  BY <1>1, <1>3, FinishInv
<1> QED
  BY <1>2, <1>3 DEF WriteLost
---------------------------------------------------------------------------
(* The outcomes of an execution, and the jobs that are made and dropped.   *)
LEMMA JobOf ==
  ASSUME Inv, NEW x \in Executions, pc[x] \notin {"idle", "recur"}
  PROVE  /\ job[x] \in Jobs /\ ~(job[x] > created) /\ TypeOK
         /\ attempts[job[x]] \in Nat /\ failures[job[x]] \in Nat /\ claimed[x] \in Nat
         /\ job[x] \notin swept =>
               /\ status[job[x]] = "running" /\ claimed[x] = attempts[job[x]]
               /\ attempts[job[x]] = failures[job[x]] + 1 /\ failures[job[x]] < MaxAttempts
               /\ pc[x] = "retry" => claimed[x] < MaxAttempts
               /\ pc[x] = "fail" => ~(claimed[x] < MaxAttempts)
<1>1. Own(x) /\ TypeOK
  BY DEF Inv
<1>2. job[x] \in Jobs
  BY <1>1 DEF Own
<1>3. Counted(job[x]) /\ attempts[job[x]] \in Nat /\ failures[job[x]] \in Nat /\ claimed[x] \in Nat
  BY <1>1, <1>2, JobIs, ExIs DEF Inv
<1> QED
  BY <1>1, <1>2, <1>3 DEF Own, Counted, Live

LEMMA WriteSuccessInv ==
  ASSUME Inv, NEW x \in Executions, WriteSuccess(x) PROVE Inv' /\ Keeps
<1>1. /\ pc[x] = "succeed" /\ status' = [status EXCEPT ![job[x]] = "success"]
      /\ UNCHANGED <<gateVars, polling, tick, sweepDue, releasing, created, active, swept>>
      /\ UNCHANGED <<attempts, cancelRequested, failures, boundVars>>
  BY DEF WriteSuccess, Write, OnlyExecution
<1>2. /\ job[x] \in Jobs /\ ~(job[x] > created) /\ TypeOK
      /\ job[x] \notin swept =>
            status[job[x]] = "running" /\ attempts[job[x]] = failures[job[x]] + 1
  BY <1>1, JobOf
<1>3. CASE Finish(x)
  BY <1>1, <1>2, <1>3, OutcomeInv DEF TypeOK
<1>4. CASE job[x] \in Cron /\ Await(x, "recur")
  <2>1. pc' = [pc EXCEPT ![x] = "recur"] /\ UNCHANGED <<proc, job, claimed, signal, inFlight>>
    BY <1>4 DEF Await
  <2>2. /\ status'[job[x]] = "success" /\ \A k \in Jobs : k # job[x] => status'[k] = status[k]
        /\ status' \in [Jobs -> Live \union Ended \union {"absent"}]
    BY <1>1, <1>2 DEF TypeOK, Ended
  <2>3. TypeOK'
    <3>1. ExTyped'
      BY <1>2, <2>1 DEF TypeOK, ExTyped, PC
    <3>2. JobsTyped'
      BY <1>1, <1>2, <2>2 DEF TypeOK, JobsTyped
    <3> QED
      BY <1>1, <1>2, <2>1, <3>1, <3>2, StillTyped, TypeIsNext
  <2>4. /\ pc'[x] = "recur" /\ \A y \in Executions : y # x => pc'[y] = pc[y]
        /\ \A y \in Executions : pc'[y] # "idle" => pc[y] # "idle"
    BY <1>1, <1>2, <2>1 DEF TypeOK
  <2>5. ASSUME NEW y \in Executions PROVE Own(y)'
    <3>1. Own(y)
      BY DEF Inv
    <3>2. CASE y = x
      BY <1>1, <1>4, <2>1, <2>2, <2>4, <3>1, <3>2 DEF Own
    <3>3. CASE y # x
      <4> SUFFICES ASSUME pc'[y] # "idle" PROVE Own(y)'
        BY DEF Own
      <4>1. job[y] \in Jobs /\ (job[y] \notin swept => job[y] # job[x])
        BY <1>1, <2>4, <3>1, <3>3 DEF Own
      <4> QED
        BY <1>1, <2>1, <2>2, <2>4, <3>1, <3>3, <4>1 DEF Own
    <3> QED
      BY <3>2, <3>3
  <2>6. ASSUME NEW j \in Jobs PROVE Counted(j)'
    <3>1. Counted(j)
      BY DEF Inv
    <3>2. CASE j = job[x]
      BY <1>1, <1>2, <2>2, <3>1, <3>2 DEF Counted, Live
    <3>3. CASE j # job[x]
      BY <1>1, <2>2, <3>1, <3>3 DEF Counted
    <3> QED
      BY <3>2, <3>3
  <2>7. Single'
    <3>1. \A k \in Cron \ swept : k \in Jobs /\ (status'[k] \in Live => status[k] \in Live)
      BY <2>2, JobsAre DEF Live
    <3> QED
      BY <1>1, <3>1 DEF Inv, Single
  <2>8. Keeps
    BY <1>2, <2>2 DEF Keeps, Ended
  <2>9. \A p \in Processes : Leads(p)'
    BY <1>1, LeadsStill
  <2> QED
    BY <2>3, <2>5, <2>6, <2>7, <2>8, <2>9 DEF Inv
<1> QED
  BY <1>3, <1>4 DEF WriteSuccess

LEMMA WriteCancelInv ==
  ASSUME Inv, NEW x \in Executions, WriteCancel(x) PROVE Inv' /\ Keeps
<1>1. /\ pc[x] = "cancel" /\ status' = [status EXCEPT ![job[x]] = "canceled"] /\ Finish(x)
      /\ cancelRequested' = [cancelRequested EXCEPT ![job[x]] = TRUE]
      /\ UNCHANGED <<gateVars, polling, tick, sweepDue, releasing, created, active, swept>>
      /\ UNCHANGED <<attempts, failures, boundVars>>
  BY DEF WriteCancel, Write, OnlyExecution
<1>2. TypeOK
  BY DEF Inv
<1>3. /\ attempts' \in [Jobs -> Nat] /\ failures' \in [Jobs -> Nat]
      /\ cancelRequested' \in [Jobs -> BOOLEAN]
  BY <1>1, <1>2 DEF TypeOK
<1> QED
  BY <1>1, <1>3, OutcomeInv

LEMMA PutBackInv ==
  ASSUME Inv, NEW x \in Executions, PutBack(x) PROVE Inv' /\ Keeps
<1>1. /\ pc[x] \in {"defer", "release"} /\ status' = [status EXCEPT ![job[x]] = "queued"]
      /\ attempts' = [attempts EXCEPT ![job[x]] = Refund(claimed[x])] /\ Finish(x)
      /\ UNCHANGED <<gateVars, polling, tick, sweepDue, releasing, created, active, swept>>
      /\ UNCHANGED <<cancelRequested, failures, boundVars>>
  BY DEF PutBack, Write, Returnable, OnlyExecution
<1>2. /\ job[x] \in Jobs /\ TypeOK /\ claimed[x] \in Nat /\ failures[job[x]] \in Nat
      /\ job[x] \notin swept =>
            claimed[x] = failures[job[x]] + 1 /\ failures[job[x]] < MaxAttempts
  BY <1>1, JobOf
<1>3. Refund(claimed[x]) \in Nat /\ (job[x] \notin swept => Refund(claimed[x]) = failures[job[x]])
  BY <1>2 DEF Refund
<1>4. /\ attempts' \in [Jobs -> Nat] /\ failures' \in [Jobs -> Nat]
      /\ cancelRequested' \in [Jobs -> BOOLEAN]
      /\ attempts'[job[x]] = Refund(claimed[x])
      /\ \A k \in Jobs : k # job[x] => attempts'[k] = attempts[k] /\ failures'[k] = failures[k]
  BY <1>1, <1>2, <1>3 DEF TypeOK
<1> QED
  BY <1>1, <1>2, <1>3, <1>4, OutcomeInv

LEMMA WriteFailureInv ==
  ASSUME Inv, NEW x \in Executions, WriteFailure(x) PROVE Inv' /\ Keeps
<1>1. /\ pc[x] \in {"canceled", "retry", "fail"}
      /\ status' = [status EXCEPT ![job[x]] = Outcome(pc[x])] /\ Finish(x)
      /\ failures' = [failures EXCEPT ![job[x]] = IF pc[x] = "canceled" THEN @ ELSE @ + 1]
      /\ UNCHANGED <<gateVars, polling, tick, sweepDue, releasing, created, active, swept>>
      /\ UNCHANGED <<attempts, cancelRequested, boundVars>>
  BY DEF WriteFailure, Write, OnlyExecution
<1>2. /\ job[x] \in Jobs /\ TypeOK
      /\ attempts[job[x]] \in Nat /\ failures[job[x]] \in Nat /\ claimed[x] \in Nat
      /\ job[x] \notin swept =>
            /\ claimed[x] = attempts[job[x]] /\ attempts[job[x]] = failures[job[x]] + 1
            /\ failures[job[x]] < MaxAttempts
            /\ pc[x] = "retry" => claimed[x] < MaxAttempts
            /\ pc[x] = "fail" => ~(claimed[x] < MaxAttempts)
  BY <1>1, JobOf
<1>3. /\ failures' \in [Jobs -> Nat] /\ attempts' \in [Jobs -> Nat]
      /\ cancelRequested' \in [Jobs -> BOOLEAN]
      /\ pc[x] # "canceled" => failures'[job[x]] = failures[job[x]] + 1
      /\ \A k \in Jobs : k # job[x] => attempts'[k] = attempts[k] /\ failures'[k] = failures[k]
  BY <1>1, <1>2 DEF TypeOK
<1>4. /\ Outcome(pc[x]) \in {"success", "canceled", "queued", "failed"}
      /\ Outcome(pc[x]) # "success"
      /\ Outcome(pc[x]) = "queued" => pc[x] = "retry"
      /\ Outcome(pc[x]) = "failed" => pc[x] = "fail"
  BY <1>1 DEF Outcome
<1>5. job[x] \notin swept =>
         /\ pc[x] = "retry" => /\ attempts'[job[x]] = failures'[job[x]]
                               /\ failures'[job[x]] < MaxAttempts
         /\ pc[x] = "fail" => failures'[job[x]] = MaxAttempts
  BY <1>1, <1>2, <1>3, JobsAre
<1> QED
  BY <1>1, <1>3, <1>4, <1>5, OutcomeInv

(* A trigger without a live occurrence gets one.                           *)
LEMMA EnqueueInv ==
  ASSUME Inv, Fewer, MapTyped', ExTyped', Enqueue(status),
         UNCHANGED <<gateVars, polling, tick, sweepDue, releasing, active, attempts, historyVars>>,
         UNCHANGED boundVars, cancelRequested' \in [Jobs -> BOOLEAN],
         \A j \in Cron : status[j] \notin Live
  PROVE  Inv' /\ Keeps
<1>1. /\ created < MaxJobs /\ created' = created + 1
      /\ status' = [status EXCEPT ![created + 1] = "queued"]
  BY DEF Enqueue
<1>2. TypeOK /\ created \in Nat /\ created + 1 \in Jobs /\ created + 1 \in 0 .. MaxJobs
  BY <1>1, CountsAssumption DEF Inv, TypeOK, Jobs
<1>3. /\ status'[created + 1] = "queued"
      /\ \A k \in Jobs : k # created + 1 => status'[k] = status[k]
      /\ status' \in [Jobs -> Live \union Ended \union {"absent"}]
  BY <1>1, <1>2 DEF TypeOK, Live
<1>4. status[created + 1] = "absent"
  BY <1>2 DEF Inv, Counted
<1>5. TypeOK'
  <2>1. JobsTyped'
    BY <1>1, <1>2, <1>3 DEF TypeOK, JobsTyped, historyVars
  <2> QED
    BY <1>2, <2>1, StillTyped, TypeIsNext
<1>6. ASSUME NEW j \in Jobs PROVE Counted(j)'
  <2>1. Counted(j) /\ j \in Nat
    BY JobsAre DEF Inv
  <2>2. CASE j = created + 1
    BY <1>1, <1>2, <1>3, <1>4, <2>1, <2>2 DEF Counted, Live, historyVars
  <2>3. CASE j # created + 1
    <3>1. j > created <=> j > created + 1
      BY <1>2, <2>1, <2>3
    <3> QED
      BY <1>1, <1>3, <2>1, <2>3, <3>1 DEF Counted, historyVars
  <2> QED
    BY <2>2, <2>3
<1>7. Single'
  <2>1. \A k \in Cron : status'[k] \in Live => k = created + 1
    BY <1>3, JobsAre
  <2> QED
    BY <2>1 DEF Single
<1>8. Keeps
  BY <1>3, <1>4 DEF Keeps, Ended
<1>9. ASSUME NEW y \in Executions, pc'[y] # "idle"
      PROVE  status'[job[y]] = status[job[y]] /\ attempts'[job[y]] = attempts[job[y]]
  <2>1. job[y] \in Jobs /\ ~(job[y] > created)
    BY <1>9 DEF Fewer, Inv, Own
  <2>2. job[y] # created + 1
    BY <1>2, <2>1
  <2> QED
    BY <1>3, <2>1, <2>2
<1>10. \A p \in Processes : Leads(p)'
  BY LeadsStill
<1> QED
  BY <1>1, <1>5, <1>6, <1>7, <1>8, <1>9, <1>10, ShrinkInv DEF historyVars

LEMMA EnqueueRecurringInv ==
  ASSUME Inv, NEW x \in Executions, EnqueueRecurring(x) PROVE Inv' /\ Keeps
<1>1. /\ pc[x] # "idle" /\ Finish(x)
      /\ UNCHANGED <<gateVars, polling, tick, sweepDue, releasing, attempts, cancelRequested,
                     active, historyVars, boundVars>>
  BY DEF EnqueueRecurring
<1>2. Fewer /\ ExTyped' /\ MapTyped' /\ cancelRequested' \in [Jobs -> BOOLEAN]
  BY <1>1, FinishIs DEF Inv, TypeOK
<1>3. CASE Recurs /\ Enqueue(status)
  BY <1>1, <1>2, <1>3, EnqueueInv DEF Recurs
<1>4. CASE UNCHANGED <<created, status>>
  BY <1>1, <1>4, FinishInv DEF jobVars
<1> QED
  BY <1>3, <1>4 DEF EnqueueRecurring

(* Queued jobs are canceled.                                               *)
LEMMA PruneInv ==
  ASSUME Inv,
         \A j \in Jobs :
             status'[j] = status[j] \/ (status[j] = "queued" /\ status'[j] = "canceled"),
         status' \in [Jobs -> Live \union Ended \union {"absent"}],
         cancelRequested' \in [Jobs -> BOOLEAN], Command \/ UNCHANGED boundVars,
         UNCHANGED <<gateVars, procVars, created, attempts, active, exVars, historyVars>>
  PROVE  Inv' /\ Keeps
<1>1. TypeOK
  BY DEF Inv
<1>2. TypeOK'
  <2>1. JobsTyped'
    BY <1>1 DEF TypeOK, JobsTyped, historyVars
  <2> QED
    BY <1>1, <2>1, BoundsStep, StillTyped, TypeIsNext DEF procVars
<1>3. ASSUME NEW j \in Jobs PROVE Counted(j)'
  BY DEF Inv, Counted, Live, historyVars
<1>4. Single'
  <2>1. \A k \in Cron : status'[k] \in Live => status[k] \in Live
    BY JobsAre DEF Live
  <2> QED
    BY <2>1 DEF Inv, Single, historyVars
<1>5. Keeps
  BY DEF Keeps, Ended
<1>6. ASSUME NEW y \in Executions, pc'[y] # "idle", job[y] \notin swept'
      PROVE  status'[job[y]] = status[job[y]] /\ attempts'[job[y]] = attempts[job[y]]
  <2>1. job[y] \in Jobs /\ status[job[y]] # "queued"
    BY <1>6 DEF Inv, Own, exVars, historyVars
  <2> QED
    BY <2>1
<1>7. Fewer /\ \A p \in Processes : Leads(p)'
  BY FewerSame, LeadsStill DEF procVars, exVars
<1> QED
  BY <1>2, <1>3, <1>4, <1>5, <1>6, <1>7, ShrinkInv DEF historyVars

LEMMA CancelJobInv ==
  ASSUME Inv, NEW j \in Jobs, CancelJob(j) PROVE Inv' /\ Keeps
<1>1. /\ cancelRequested' = [cancelRequested EXCEPT ![j] = TRUE] /\ Command
      /\ status' = [status EXCEPT ![j] = Canceled(@)]
      /\ UNCHANGED <<gateVars, procVars, created, attempts, active, exVars, historyVars>>
  BY DEF CancelJob
<1>2. TypeOK
  BY DEF Inv
<1>3. Canceled(status[j]) = status[j] \/ (status[j] = "queued" /\ Canceled(status[j]) = "canceled")
  BY DEF Canceled
<1>4. Canceled(status[j]) \in Live \union Ended \union {"absent"}
  BY <1>2, <1>3, JobIs DEF Ended
<1>5. /\ status' \in [Jobs -> Live \union Ended \union {"absent"}]
      /\ cancelRequested' \in [Jobs -> BOOLEAN]
      /\ \A k \in Jobs : status'[k] = IF k = j THEN Canceled(status[j]) ELSE status[k]
  BY <1>1, <1>2, <1>4 DEF TypeOK
<1> QED
  BY <1>1, <1>3, <1>5, PruneInv

LEMMA ProjectInv ==
  ASSUME Inv, Project PROVE Inv' /\ Keeps
<1> DEFINE live == {j \in Cron : status[j] \in Live}
           kept == IF active THEN {j \in live : \A k \in live : j <= k} ELSE {}
           left == live \ kept
           pruned == [j \in Jobs |-> IF j \in left /\ status[j] = "queued" THEN "canceled"
                                     ELSE status[j]]
<1>1. /\ cancelRequested' = [j \in Jobs |-> cancelRequested[j] \/ j \in left]
      /\ IF active /\ kept = {} THEN Enqueue(pruned) ELSE status' = pruned /\ UNCHANGED created
      /\ UNCHANGED <<gateVars, procVars, attempts, active, exVars, historyVars, boundVars>>
  BY DEF Project
<1>2. TypeOK /\ live \subseteq Nat
  BY JobsAre DEF Inv
<1>3. active /\ kept = {} => live = {}
  <2> SUFFICES ASSUME active, kept = {}, live # {} PROVE FALSE
    OBVIOUS
  <2> HIDE DEF live
  <2>1. \E n \in live : \A m \in live : n <= m
    BY <1>2, LeastOf
  <2> QED
    BY <2>1
<1>4. cancelRequested' \in [Jobs -> BOOLEAN]
  <2>1. \A j \in Jobs : (cancelRequested[j] \/ j \in left) \in BOOLEAN
    OBVIOUS
  <2> HIDE DEF left
  <2> QED
    BY <1>1, <2>1
<1>5. CASE active /\ kept = {}
  <2>1. pruned = status
    BY <1>2, <1>3, <1>5 DEF TypeOK
  <2>2. Fewer /\ MapTyped' /\ ExTyped' /\ \A j \in Cron : status[j] \notin Live
    BY <1>1, <1>2, <1>3, <1>5, FewerSame, StillTyped DEF procVars, exVars
  <2>3. Enqueue(status)
    BY <1>1, <1>5, <2>1
  <2> QED
    BY <1>1, <1>4, <2>2, <2>3, EnqueueInv DEF procVars
<1>6. CASE ~(active /\ kept = {})
  <2>1. status' = pruned /\ UNCHANGED created
    BY <1>1, <1>6
  <2>2. \A j \in Jobs : status'[j] = status[j] \/ (status[j] = "queued" /\ status'[j] = "canceled")
    BY <2>1
  <2>3. \A j \in Jobs : status'[j] \in Live \union Ended \union {"absent"}
    BY <1>2, <2>2, JobIs DEF Ended
  <2>4. status' \in [Jobs -> Live \union Ended \union {"absent"}]
    BY <2>1, <2>3
  <2> HIDE DEF pruned, kept, left, live
  <2> QED
    BY <1>1, <1>4, <2>1, <2>2, <2>4, PruneInv
<1> QED
  BY <1>5, <1>6
---------------------------------------------------------------------------
(* All steps, and the theorems.                                            *)
LEMMA RunInv ==
  ASSUME Inv, NEW x \in Executions, Run(x) PROVE Inv' /\ Keeps
BY ReturnedInv, ThrewInv, WatchCancelInv, WriteSuccessInv, EnqueueRecurringInv, WriteCancelInv,
   PutBackInv, RereadInv, WriteFailureInv DEF Run

LEMMA EndInv ==
  ASSUME Inv, NEW p \in Processes, Exit(p) \/ Crash(p) PROVE Inv' /\ Keeps
BY DownInv DEF Exit, Crash

LEMMA StepInv ==
  ASSUME Inv, Next PROVE Inv' /\ Keeps
<1>1. CASE \E p \in Processes :
              Start(p) \/ Serve(p) \/ Poll(p) \/ Stop(p) \/ Exit(p) \/ Crash(p)
  <2>1. PICK p \in Processes :
            Start(p) \/ Serve(p) \/ Poll(p) \/ Stop(p) \/ Exit(p) \/ Crash(p)
    BY <1>1
  <2>2. CASE Start(p)
    BY <2>2, StartInv
  <2>3. CASE Serve(p)
    BY <2>3, ReleasedInv, SweepInv DEF Serve
  <2>4. CASE Poll(p)
    BY <2>4, TickStartsInv, AcquiredInv, NothingClaimedInv DEF Poll
  <2>5. CASE Stop(p)
    BY <2>5, StopInv
  <2>6. CASE Exit(p) \/ Crash(p)
    BY <2>6, EndInv
  <2> QED
    BY <2>1, <2>2, <2>3, <2>4, <2>5, <2>6
<1>2. CASE \E p \in Processes, x \in Executions, j \in Jobs : Claim(p, x, j)
  BY <1>2, ClaimInv
<1>3. CASE \E x \in Executions : Run(x) \/ WriteLost(x)
  BY <1>3, RunInv, WriteLostInv
<1>4. CASE LockExpires \/ Project \/ ToggleTrigger
  BY <1>4, LockExpiresInv, ProjectInv, ToggleTriggerInv
<1>5. CASE \E j \in Jobs : CancelJob(j)
  BY <1>5, CancelJobInv
<1> QED
  BY <1>1, <1>2, <1>3, <1>4, <1>5 DEF Next

LEMMA StutterInv ==
  ASSUME Inv, UNCHANGED vars PROVE Inv' /\ Keeps
<1>1. /\ UNCHANGED <<gateVars, procVars, jobVars, exVars, historyVars, boundVars>>
  BY DEF vars
<1>2. TypeOK'
  BY <1>1, StillTyped, TypeIsNext DEF Inv, procVars, jobVars, historyVars
<1>3. \A p \in Processes : Leads(p)'
  BY <1>1, LeadsStill DEF procVars
<1> QED
  BY <1>1, <1>2, <1>3, GateInv DEF procVars, jobVars, exVars, historyVars

(* Whatever processes, operators and faults do, executions own their jobs, *)
(* jobs are charged by the claim, and a leader holds the lock.             *)
THEOREM Invariance == Spec => []Inv
<1>1. Inv /\ [Next]_vars => Inv'
  BY StepInv, StutterInv
<1> QED
  BY InitInv, <1>1, PTL DEF Spec

(* Every variable keeps its type.                                          *)
THEOREM TypeCorrect == Spec => []TypeOK
<1>1. Inv => TypeOK
  BY DEF Inv
<1> QED
  BY <1>1, Invariance, PTL

(* A job no sweep took for lost is executed by one execution at a time,    *)
(* which its process can abort (claimNextJob, runJob, in-flight map).      *)
THEOREM OneAtATime == Spec => []OneExecution
<1>1. ASSUME Inv PROVE OneExecution
  <2> SUFFICES ASSUME NEW x \in Executions, pc[x] # "idle", job[x] \notin swept
               PROVE  /\ Executing(job[x]) = {x}
                      /\ inFlight[proc[x]][job[x]] = x
                      /\ status[job[x]] = IF pc[x] = "recur" THEN "success" ELSE "running"
    BY DEF OneExecution
  <2>1. Own(x)
    BY <1>1 DEF Inv
  <2> QED
    BY <2>1 DEF Own, Executing
<1> QED
  BY <1>1, Invariance, PTL

(* No late outcome, retry or release overwrites how a job ended (updateJob *)
(* writes by id), unless a sweep took the job for lost.                    *)
THEOREM EndedFinal == Spec => EndedStays
<1>1. Inv /\ [Next]_vars => [Keeps]_vars
  BY StepInv
<1>2. Keeps <=> \A j \in Jobs \ swept : status[j] \in Ended => status'[j] = status[j]
  BY DEF Keeps
<1>3. Inv /\ [Next]_vars =>
         [\A j \in Jobs \ swept : status[j] \in Ended => status'[j] = status[j]]_vars
  BY <1>1, <1>2
<1> QED
  BY <1>3, Invariance, PTL DEF Spec, EndedStays

(* Deferrals, releases and shutdowns are refunded: a job is given up after *)
(* exactly MaxAttempts failures.                                           *)
THEOREM FailuresCounted == Spec => []OnlyFailuresCount
<1>1. Inv => OnlyFailuresCount
  BY DEF Inv, Counted, OnlyFailuresCount
<1> QED
  BY <1>1, Invariance, PTL

(* With the coordinator's gate, failing closed, one process dequeues.      *)
THEOREM Dequeuer == Spec => []OneDequeuer
<1>1. Inv => OneDequeuer
  BY DEF Inv, Leads, OneDequeuer
<1> QED
  BY <1>1, Invariance, PTL

(* Recurrence, projector, retries and cancellations, in any order, leave a *)
(* trigger at most one live occurrence.                                    *)
THEOREM Occurrence == Spec => []OneOccurrence
<1>1. ASSUME Inv PROVE OneOccurrence
  <2> DEFINE S == {j \in Cron \ swept : status[j] \in Live}
  <2>1. \A j, k \in S : j = k
    BY <1>1 DEF Inv, Single
  <2>2. CASE S = {}
    <3>1. Cardinality(S) = 0
      BY <2>2, FS_EmptySet
    <3> QED
      BY <3>1 DEF OneOccurrence
  <2>3. CASE S # {}
    <3>1. PICK j : S = {j}
      BY <2>1, <2>3
    <3>2. Cardinality(S) = 1
      BY <3>1, FS_Singleton
    <3> QED
      BY <3>2 DEF OneOccurrence
  <2> QED
    BY <2>2, <2>3
<1> QED
  BY <1>1, Invariance, PTL
===============================================================================
