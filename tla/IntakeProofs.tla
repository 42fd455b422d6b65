------------------------------ MODULE IntakeProofs ------------------------------
(***************************************************************************)
(* What holds of the deployments and the admissions of a Worker for every  *)
(* number of deployments, runs, producers and commands.                    *)
(*                                                                         *)
(* The inductive invariant has three parts: what the deployments say of    *)
(* each other, where requests and commands are addressed, and what the     *)
(* runs say of each other and of their deployments.  An action disturbs    *)
(* one or two of them.                                                     *)
(***************************************************************************)
EXTENDS Intake, TLAPS

DeploymentsTyped ==
    /\ created \in 0 .. MaxDeployments
    /\ depStatus \in [Deployments -> DepStatus]
    /\ depVersion \in [Deployments -> Versions \union {0}]
    /\ depRevision \in [Deployments -> Nat]

(* The deployments are those that were created.                            *)
Created == \A d \in Deployments : depStatus[d] = "absent" <=> d > created

DeploymentInv == DeploymentsTyped /\ Created /\ OneActive /\ OneDeploymentPerVersion

(* Requests and commands are addressed to deployments that were created.   *)
Addressed ==
    /\ request \in [Requests ->
           [to : 1 .. created, id : DeliveryIds, digest : Digests] \union {NoRequest}]
    /\ command \in [Commands ->
              [op : Transitions, on : 1 .. created, revision : Nat, version : {0}]
       \union [op : Rollouts, on : 1 .. created, revision : Nat, version : Versions]
       \union [op : {"create"}, on : {0}, revision : {0}, version : Versions]
       \union {NoCommand}]
    /\ receipt \in [Commands -> BOOLEAN]

RunsTyped ==
    /\ admitted \in 0 .. MaxRuns
    /\ inbox \in [Runs -> [key : Keys, digest : Digests] \union {NoInbox}]
    /\ runStatus \in [Runs -> {"none", "queued", "running", "completed", "cancelled"}]
    /\ jobStatus \in [Runs -> JobStatus]
    /\ answers \in [Keys \X Digests -> SUBSET Runs]

(* The runs are those that were admitted, for deployments that were.       *)
Admitted ==
    /\ \A i \in 1 .. admitted :
         /\ inbox[i] \in [key : (1 .. created) \X DeliveryIds, digest : Digests]
         /\ runStatus[i] # "none" /\ (jobStatus[i] = "queued" => runStatus[i] = "queued")
    /\ \A i \in Runs : i > admitted => runStatus[i] = "none" /\ jobStatus[i] = "none"

(* A delivery has one inbox record, and is answered with the run of it.    *)
KeysOnce == \A i, j \in 1 .. admitted : inbox[i].key = inbox[j].key => i = j
Answered == \A k \in Keys, g \in Digests : \A i \in answers[<<k, g>>] :
    i \in 1 .. admitted /\ inbox[i].key = k

RunInv == RunsTyped /\ Admitted /\ KeysOnce /\ Answered /\ RevokedDrains

Inv == DeploymentInv /\ Addressed /\ RunInv

USE VersionsAssumption, BoundsAssumption

---------------------------------------------------------------------------
LEMMA InitInv == Init => Inv
<1> SUFFICES ASSUME Init PROVE Inv
  OBVIOUS
<1>1. DeploymentInv
  <2>1. PICK v \in Versions, w \in Versions, second \in {"deployed", "paused"} :
          /\ v # w
          /\ depStatus = [d \in Deployments |->
                 IF d = 1 THEN "active" ELSE IF d <= created THEN second ELSE "absent"]
          /\ depVersion = [d \in Deployments |->
                 IF d = 1 THEN v ELSE IF d <= created THEN w ELSE 0]
          /\ depRevision = [d \in Deployments |-> IF d = 1 THEN 4
                 ELSE IF d <= created THEN IF second = "deployed" THEN 3 ELSE 5 ELSE 0]
    BY DEF Init
  <2>2. created \in {1, 2} /\ created <= MaxDeployments
    BY DEF Init
  <2>3. DeploymentsTyped /\ Created
    BY <2>1, <2>2 DEF DeploymentsTyped, Created, Deployments, DepStatus, Ended
  <2>4. OneActive /\ OneDeploymentPerVersion
    BY <2>1, <2>2 DEF OneActive, OneDeploymentPerVersion, Deployments, Ended
  <2> QED
    BY <2>3, <2>4 DEF DeploymentInv
<1>2. Addressed
  BY DEF Init, Addressed, NoRequest, NoCommand
<1>3. RunInv
  BY DEF Init, RunInv, RunsTyped, Admitted, KeysOnce, Answered, RevokedDrains, Runs, JobStatus,
     NoInbox
<1> QED
  BY <1>1, <1>2, <1>3 DEF Inv

---------------------------------------------------------------------------
(* Parts that an action leaves alone.                                      *)
LEMMA DeploymentsKept ==
  ASSUME DeploymentInv, UNCHANGED deploymentVars PROVE DeploymentInv'
BY DEF DeploymentInv, DeploymentsTyped, Created, OneActive, OneDeploymentPerVersion,
   deploymentVars

(* Deployments may be added to what requests and commands are addressed to *)
LEMMA AddressedKept ==
  ASSUME DeploymentsTyped, Addressed, created' \in created .. MaxDeployments,
         UNCHANGED request, UNCHANGED command, receipt' \in [Commands -> BOOLEAN]
  PROVE  Addressed'
<1>1. created \in Nat /\ created' \in Nat /\ 1 .. created \subseteq 1 .. created'
  BY DEF DeploymentsTyped
<1> QED
  BY <1>1 DEF Addressed

(* ..., and to what runs belong to, as long as none is revoked.            *)
LEMMA RunsKept ==
  ASSUME DeploymentsTyped, RunInv, created' \in created .. MaxDeployments,
         UNCHANGED runVars, UNCHANGED answers,
         \A d \in 1 .. created : depStatus'[d] = "revoked" => depStatus[d] = "revoked"
  PROVE  RunInv'
<1>1. created \in Nat /\ created' \in Nat /\ 1 .. created \subseteq 1 .. created'
  BY DEF DeploymentsTyped
<1>2. RunsTyped' /\ KeysOnce' /\ Answered'
  BY DEF RunInv, RunsTyped, KeysOnce, Answered, runVars
<1>3. Admitted'
  BY <1>1 DEF RunInv, Admitted, runVars
<1>4. \A i \in 1 .. admitted : inbox[i].key[1] \in 1 .. created
  BY DEF RunInv, Admitted
<1>5. RevokedDrains'
  BY <1>4 DEF RunInv, RevokedDrains, runVars
<1> QED
  BY <1>2, <1>3, <1>5 DEF RunInv

---------------------------------------------------------------------------
(* Admission                                                               *)
LEMMA ReceiveInv == ASSUME Inv, NEW r \in Requests, Receive(r) PROVE Inv'
<1>1. DeploymentInv'
  BY DeploymentsKept DEF Inv, Receive
<1>2. Addressed'
  BY DEF Inv, Addressed, Receive, deploymentVars, commandVars
<1>3. RunInv'
  BY RunsKept DEF Inv, DeploymentInv, DeploymentsTyped, Receive, deploymentVars
<1> QED
  BY <1>1, <1>2, <1>3 DEF Inv

LEMMA DoneAddressed ==
  ASSUME Addressed, NEW r \in Requests, Done(r), UNCHANGED deploymentVars, UNCHANGED commandVars
  PROVE  Addressed'
BY DEF Addressed, Done, deploymentVars, commandVars

LEMMA RefuseInv == ASSUME Inv, NEW r \in Requests, Refuse(r) PROVE Inv'
<1>1. DeploymentInv' /\ Addressed'
  BY DeploymentsKept, DoneAddressed DEF Inv, Refuse
<1>2. RunInv'
  BY RunsKept DEF Inv, DeploymentInv, DeploymentsTyped, Refuse, deploymentVars
<1> QED
  BY <1>1, <1>2 DEF Inv

LEMMA AdmitDuplicateInv == ASSUME Inv, NEW r \in Requests, AdmitDuplicate(r) PROVE Inv'
<1>1. DeploymentInv' /\ Addressed'
  BY DeploymentsKept, DoneAddressed DEF Inv, AdmitDuplicate
<1> DEFINE q == request[r]
<1>2. PICK i \in Duplicates(q) : inbox[i].digest = q.digest /\ Answer(q, i)
  BY DEF AdmitDuplicate
<1>3. /\ i \in 1 .. admitted /\ i \in Runs /\ inbox[i].key = KeyOf(q)
      /\ inbox[i].key \in Keys /\ q.digest \in Digests
  BY <1>2 DEF Inv, RunInv, RunsTyped, Admitted, Duplicates, Runs, Keys, DeploymentInv,
     DeploymentsTyped, Deployments
<1>4. RunsTyped'
  BY <1>2, <1>3 DEF Inv, RunInv, RunsTyped, Answer, AdmitDuplicate, runVars
<1>6. ASSUME NEW k \in Keys, NEW g \in Digests, NEW j \in answers'[<<k, g>>]
      PROVE  j \in 1 .. admitted /\ inbox[j].key = k
  <2>1. CASE <<k, g>> = <<KeyOf(q), q.digest>>
    <3>1. j \in answers[<<k, g>>] \union {i}
      BY <1>2, <1>3, <1>6, <2>1 DEF Inv, RunInv, RunsTyped, Answer
    <3> QED
      BY <1>3, <2>1, <3>1 DEF Inv, RunInv, Answered
  <2>2. CASE <<k, g>> # <<KeyOf(q), q.digest>>
    <3>1. j \in answers[<<k, g>>]
      BY <1>2, <1>3, <1>6, <2>2 DEF Inv, RunInv, RunsTyped, Answer
    <3> QED
      BY <3>1 DEF Inv, RunInv, Answered
  <2> QED
    BY <2>1, <2>2
<1>7. Answered'
  BY <1>6 DEF Answered, AdmitDuplicate, runVars
<1>5. Admitted' /\ KeysOnce' /\ RevokedDrains'
  BY DEF Inv, RunInv, Admitted, KeysOnce, RevokedDrains, AdmitDuplicate, runVars, deploymentVars
<1> QED
  BY <1>1, <1>4, <1>5, <1>7 DEF Inv, RunInv

LEMMA AdmitInv == ASSUME Inv, NEW r \in Requests, Admit(r) PROVE Inv'
<1> DEFINE q == request[r]
           i == admitted + 1
<1>1. DeploymentInv' /\ Addressed'
  BY DeploymentsKept, DoneAddressed DEF Inv, Admit
<1>2. /\ q.to \in 1 .. created /\ q.id \in DeliveryIds /\ q.digest \in Digests
      /\ KeyOf(q) \in (1 .. created) \X DeliveryIds /\ KeyOf(q)[1] = q.to
      /\ depStatus[q.to] = "active"
      /\ \A j \in 1 .. admitted : inbox[j].key # KeyOf(q)
  BY DEF Inv, Addressed, Admit, Admissible, Duplicates, KeyOf, NoRequest
<1>3. /\ i \in Runs /\ admitted \in Nat /\ admitted' = i
      /\ inbox'[i] = [key |-> KeyOf(q), digest |-> q.digest]
      /\ runStatus'[i] = "queued" /\ jobStatus'[i] = "queued"
      /\ \A j \in Runs : j # i => inbox'[j] = inbox[j] /\ runStatus'[j] = runStatus[j]
                                    /\ jobStatus'[j] = jobStatus[j]
      /\ 1 .. i = (1 .. admitted) \union {i} /\ 1 .. admitted \subseteq Runs
  BY DEF Inv, RunInv, RunsTyped, Admit, InsertJob, Runs
<1>4. KeyOf(q) \in Keys /\ (1 .. created) \subseteq Deployments
  BY <1>2 DEF Inv, DeploymentInv, DeploymentsTyped, Keys, Deployments
<1>5. RunsTyped'
  BY <1>2, <1>3, <1>4 DEF Inv, RunInv, RunsTyped, Admit, InsertJob, Answer, JobStatus
<1>6. Admitted'
  <2>1. created' = created
    BY DEF Admit, deploymentVars
  <2>2. inbox'[i] \in [key : (1 .. created) \X DeliveryIds, digest : Digests]
    BY <1>2, <1>3
  <2>3. \A j \in 1 .. i :
          /\ inbox'[j] \in [key : (1 .. created) \X DeliveryIds, digest : Digests]
          /\ runStatus'[j] # "none" /\ (jobStatus'[j] = "queued" => runStatus'[j] = "queued")
    BY <1>3, <2>2 DEF Inv, RunInv, Admitted
  <2>4. \A j \in Runs : j > i => runStatus'[j] = "none" /\ jobStatus'[j] = "none"
    BY <1>3 DEF Inv, RunInv, Admitted, Runs
  <2> QED
    BY <1>3, <2>1, <2>3, <2>4 DEF Admitted
<1>7. KeysOnce'
  BY <1>2, <1>3 DEF Inv, RunInv, KeysOnce
<1>8. Answered'
  BY <1>2, <1>3, <1>4 DEF Inv, RunInv, RunsTyped, Answered, Answer, Admit
<1>9. RevokedDrains'
  BY <1>2, <1>3 DEF Inv, RunInv, RevokedDrains, Admit, deploymentVars
<1> QED
  BY <1>1, <1>5, <1>6, <1>7, <1>8, <1>9 DEF Inv, RunInv

---------------------------------------------------------------------------
(* Runs and their jobs                                                     *)
LEMMA RunStepInv ==
  ASSUME Inv, NEW i \in Runs, StartRun(i) \/ EndRun(i) \/ DropJob(i) PROVE Inv'
<1>1. DeploymentInv' /\ Addressed'
  BY DeploymentsKept DEF Inv, StartRun, EndRun, DropJob, Addressed, deploymentVars, commandVars
<1>2. i \in 1 .. admitted
  BY DEF Inv, RunInv, RunsTyped, Admitted, Runs, StartRun, EndRun, DropJob
<1>3. RunsTyped' /\ KeysOnce' /\ Answered'
  BY DEF Inv, RunInv, RunsTyped, KeysOnce, Answered, StartRun, EndRun, DropJob, Outcomes,
     JobStatus
<1>4. /\ \A j \in Runs : j # i =>
           runStatus'[j] = runStatus[j] /\ jobStatus'[j] = jobStatus[j]
      /\ jobStatus'[i] # "queued" /\ runStatus'[i] # "none"
      /\ runStatus[i] \in {"completed", "cancelled"} => runStatus'[i] = runStatus[i]
      /\ admitted' = admitted /\ inbox' = inbox /\ created' = created /\ depStatus' = depStatus
      /\ 1 .. admitted \subseteq Runs
  BY <1>2 DEF Inv, RunInv, RunsTyped, Admitted, StartRun, EndRun, DropJob, Outcomes,
     deploymentVars, Runs
<1>5. Admitted'
  BY <1>2, <1>4 DEF Inv, RunInv, Admitted
<1>6. RevokedDrains'
  BY <1>4 DEF Inv, RunInv, RevokedDrains
<1> QED
  BY <1>1, <1>3, <1>5, <1>6 DEF Inv, RunInv

---------------------------------------------------------------------------
(* Commands                                                                *)
LEMMA SendInv == ASSUME Inv, NEW c \in Commands, Send(c) PROVE Inv'
<1>1. DeploymentInv'
  BY DeploymentsKept DEF Inv, Send
<1>2. RunInv'
  BY RunsKept DEF Inv, DeploymentInv, DeploymentsTyped, Send, deploymentVars
<1>3. 1 .. created \subseteq Deployments
  BY DEF Inv, DeploymentInv, DeploymentsTyped, Deployments
<1>4. Addressed'
  <2>1. CASE \E op \in Transitions, d \in 1 .. created :
               command' = [command EXCEPT ![c] =
                   [op |-> op, on |-> d, revision |-> depRevision[d], version |-> 0]]
    BY <1>3, <2>1 DEF Inv, DeploymentInv, DeploymentsTyped, Addressed, Send, deploymentVars
  <2>2. CASE \E op \in Rollouts, d \in 1 .. created, v \in Versions :
               command' = [command EXCEPT ![c] =
                   [op |-> op, on |-> d, revision |-> depRevision[d], version |-> v]]
    BY <1>3, <2>2 DEF Inv, DeploymentInv, DeploymentsTyped, Addressed, Send, deploymentVars
  <2>3. CASE \E v \in Versions : command' = [command EXCEPT ![c] =
                   [op |-> "create", on |-> 0, revision |-> 0, version |-> v]]
    BY <2>3 DEF Inv, Addressed, Send, deploymentVars
  <2> QED
    BY <2>1, <2>2, <2>3 DEF Send
<1> QED
  BY <1>1, <1>2, <1>4 DEF Inv

(* A command with a receipt leaves what is addressed as it was.            *)
LEMMA CommitAddressed ==
  ASSUME Inv, NEW c \in Commands, Commit(c), created' \in created .. MaxDeployments
  PROVE  Addressed'
BY AddressedKept DEF Inv, DeploymentInv, Addressed, Commit

LEMMA CreateDraftInv == ASSUME Inv, NEW c \in Commands, CreateDraft(c) PROVE Inv'
<1> DEFINE n == created + 1
           v == command[c].version
<1>1. /\ created \in Nat /\ n \in Deployments /\ created' = n
      /\ n \in created .. MaxDeployments
      /\ 1 .. n = (1 .. created) \union {n} /\ 1 .. created \subseteq Deployments
  BY DEF Inv, DeploymentInv, DeploymentsTyped, Deployments, CreateDraft
<1>2. v \in Versions
  BY DEF Inv, Addressed, CreateDraft, FirstTime, Transitions, Rollouts
<1>3. /\ depStatus'[n] = "draft" /\ depVersion'[n] = v
      /\ \A d \in Deployments : d # n =>
           depStatus'[d] = depStatus[d] /\ depVersion'[d] = depVersion[d]
  BY <1>1 DEF Inv, DeploymentInv, DeploymentsTyped, CreateDraft
<1>4. DeploymentsTyped'
  BY <1>1, <1>2 DEF Inv, DeploymentInv, DeploymentsTyped, CreateDraft, DepStatus
<1>5. Created'
  BY <1>1, <1>3 DEF Inv, DeploymentInv, DeploymentsTyped, Created, Deployments
<1>6. OneActive'
  BY <1>1, <1>3 DEF Inv, DeploymentInv, OneActive
<1>7. OneDeploymentPerVersion'
  <2>1. \A e \in 1 .. created : depVersion[e] = v => depStatus[e] \in Ended
    BY DEF CreateDraft, VersionFree
  <2> QED
    BY <1>1, <1>3, <2>1 DEF Inv, DeploymentInv, OneDeploymentPerVersion
<1>8. Addressed'
  BY <1>1, CommitAddressed DEF CreateDraft
<1>9. RunInv'
  <2>1. \A d \in 1 .. created : depStatus'[d] = depStatus[d]
    BY <1>1, <1>3
  <2>2. UNCHANGED runVars /\ UNCHANGED answers
    BY DEF CreateDraft, Commit
  <2> QED
    BY <1>1, <2>1, <2>2, RunsKept DEF Inv, DeploymentInv
<1> QED
  BY <1>4, <1>5, <1>6, <1>7, <1>8, <1>9 DEF Inv, DeploymentInv

(* What has ended stays ended, and no transition leads to revoked.         *)
LEMMA Targets ==
  ASSUME NEW d \in Deployments, depStatus[d] \in DepStatus, depStatus[d] # "absent",
         NEW op \in Transitions, MayBecome(d, op)
  PROVE  /\ TargetOf[op] \in DepStatus \ {"absent", "revoked"}
         /\ depStatus[d] \in Ended => TargetOf[op] \in Ended
BY DEF MayBecome, TargetOf, DeploymentTransitions, DepStatus, Ended, Transitions

LEMMA TransitionInv == ASSUME Inv, NEW c \in Commands, Transition(c) PROVE Inv'
<1> DEFINE d == command[c].on
           t == TargetOf[command[c].op]
<1>1. d \in 1 .. created /\ command[c].op \in Transitions
  BY DEF Inv, Addressed, Transition, FirstTime, Transitions, Rollouts
<1>2. /\ created \in Nat /\ d \in Deployments /\ 1 .. created \subseteq Deployments
      /\ created \in created .. MaxDeployments /\ created' = created
      /\ depStatus[d] \in DepStatus /\ depStatus[d] # "absent"
  BY <1>1 DEF Inv, DeploymentInv, DeploymentsTyped, Created, Deployments, Transition
<1>3. /\ t \in DepStatus \ {"absent", "revoked"}
      /\ depStatus[d] \in Ended => t \in Ended
  BY <1>1, <1>2, Targets DEF Transition
<1>4. /\ depStatus'[d] = t /\ depVersion' = depVersion
      /\ \A e \in Deployments : e # d => depStatus'[e] = depStatus[e]
  BY <1>2 DEF Inv, DeploymentInv, DeploymentsTyped, Transition
<1>5. DeploymentsTyped'
  BY <1>2, <1>3 DEF Inv, DeploymentInv, DeploymentsTyped, Transition
<1>6. Created'
  BY <1>1, <1>2, <1>3, <1>4 DEF Inv, DeploymentInv, Created
<1>7. OneActive'
  BY <1>2, <1>4 DEF Inv, DeploymentInv, OneActive, Transition, NoOtherActive
<1>8. OneDeploymentPerVersion'
  BY <1>1, <1>2, <1>3, <1>4 DEF Inv, DeploymentInv, OneDeploymentPerVersion
<1>9. Addressed'
  BY <1>2, CommitAddressed DEF Transition
<1>10. RunInv'
  <2>1. \A e \in 1 .. created : depStatus'[e] = "revoked" => depStatus[e] = "revoked"
    BY <1>2, <1>3, <1>4
  <2>2. UNCHANGED runVars /\ UNCHANGED answers
    BY DEF Transition, Commit
  <2> QED
    BY <1>2, <2>1, <2>2, RunsKept DEF Inv, DeploymentInv
<1> QED
  BY <1>5, <1>6, <1>7, <1>8, <1>9, <1>10 DEF Inv, DeploymentInv

LEMMA RolloutInv == ASSUME Inv, NEW c \in Commands, Rollout(c) PROVE Inv'
<1> DEFINE d == command[c].on
           v == command[c].version
           n == created + 1
<1>1. d \in 1 .. created /\ v \in Versions
  BY DEF Inv, Addressed, Rollout, FirstTime, Transitions, Rollouts
<1>2. /\ created \in Nat /\ n \in Deployments /\ created' = n /\ d # n /\ d \in Deployments
      /\ n \in created .. MaxDeployments
      /\ 1 .. n = (1 .. created) \union {n} /\ 1 .. created \subseteq Deployments
  BY <1>1 DEF Inv, DeploymentInv, DeploymentsTyped, Deployments, Rollout
<1>3. depStatus[d] \in {"deployed", "active", "paused"}
  BY DEF Rollout, MayReplace
<1>4. /\ depStatus'[d] = "retired" /\ depStatus'[n] = depStatus[d]
      /\ depVersion'[d] = depVersion[d] /\ depVersion'[n] = v
      /\ \A e \in Deployments : e # d /\ e # n =>
           depStatus'[e] = depStatus[e] /\ depVersion'[e] = depVersion[e]
  BY <1>2 DEF Inv, DeploymentInv, DeploymentsTyped, Rollout, Replacement
<1>5. DeploymentsTyped'
  BY <1>1, <1>2, <1>3 DEF Inv, DeploymentInv, DeploymentsTyped, Rollout, Replacement, DepStatus,
     Ended
<1>6. Created'
  BY <1>1, <1>2, <1>3, <1>4 DEF Inv, DeploymentInv, Created, Deployments
<1>7. OneActive'
  BY <1>2, <1>4 DEF Inv, DeploymentInv, OneActive
<1>8. OneDeploymentPerVersion'
  <2>1. \A e \in (1 .. created) \ {d} : depVersion[e] = v => depStatus[e] \in Ended
    BY DEF Rollout, VersionFree
  <2>2. "retired" \in Ended
    BY DEF Ended
  <2> QED
    BY <1>1, <1>2, <1>4, <2>1, <2>2 DEF Inv, DeploymentInv, OneDeploymentPerVersion
<1>9. Addressed'
  BY <1>2, CommitAddressed DEF Rollout
<1>10. RunInv'
  <2>1. \A e \in 1 .. created : depStatus'[e] = "revoked" => depStatus[e] = "revoked"
    BY <1>2, <1>4
  <2>2. UNCHANGED runVars /\ UNCHANGED answers
    BY DEF Rollout, Commit
  <2> QED
    BY <1>2, <2>1, <2>2, RunsKept DEF Inv, DeploymentInv
<1> QED
  BY <1>5, <1>6, <1>7, <1>8, <1>9, <1>10 DEF Inv, DeploymentInv

LEMMA RevokeInv == ASSUME Inv, NEW d \in Deployments, Revoke(d) PROVE Inv'
<1>1. /\ depStatus'[d] = "revoked" /\ depVersion' = depVersion /\ created' = created
      /\ depStatus[d] \in {"deployed", "active", "paused"}
      /\ \A e \in Deployments : e # d => depStatus'[e] = depStatus[e]
      /\ 1 .. created \subseteq Deployments /\ created \in Nat
  BY DEF Inv, DeploymentInv, DeploymentsTyped, Deployments, Revoke
<1>2. DeploymentInv'
  <2>1. DeploymentsTyped'
    BY DEF Inv, DeploymentInv, DeploymentsTyped, Revoke, DepStatus, Ended
  <2>2. Created' /\ OneActive'
    BY <1>1 DEF Inv, DeploymentInv, Created, OneActive
  <2>3. OneDeploymentPerVersion'
    <3>1. "revoked" \in Ended
      BY DEF Ended
    <3> QED
      BY <1>1, <3>1 DEF Inv, DeploymentInv, OneDeploymentPerVersion
  <2> QED
    BY <2>1, <2>2, <2>3 DEF DeploymentInv
<1>3. Addressed'
  BY <1>1 DEF Inv, Addressed, Revoke, commandVars
<1>4. \A i \in Runs :
        /\ runStatus'[i] = IF Affected(d, i) THEN "cancelled" ELSE runStatus[i]
        /\ jobStatus'[i] = IF Affected(d, i) /\ jobStatus[i] = "queued"
                           THEN "canceled" ELSE jobStatus[i]
  BY DEF Revoke
<1>5. RunsTyped' /\ KeysOnce' /\ Answered'
  BY DEF Inv, RunInv, RunsTyped, KeysOnce, Answered, Revoke, JobStatus
<1>6. admitted' = admitted /\ inbox' = inbox /\ admitted \in Nat /\ 1 .. admitted \subseteq Runs
  BY DEF Inv, RunInv, RunsTyped, Runs, Revoke
<1>7. Admitted'
  BY <1>1, <1>4, <1>6 DEF Inv, RunInv, Admitted, Affected
<1>8. RevokedDrains'
  <2> SUFFICES ASSUME NEW i \in 1 .. admitted, depStatus'[inbox[i].key[1]] = "revoked"
               PROVE  runStatus'[i] \in {"completed", "cancelled"} /\ jobStatus'[i] # "queued"
    BY <1>6 DEF RevokedDrains
  <2>1. inbox[i].key[1] \in Deployments
    BY <1>1 DEF Inv, RunInv, Admitted
  <2>2. i \in Runs /\ runStatus[i] \in {"none", "queued", "running", "completed", "cancelled"}
    BY <1>6 DEF Inv, RunInv, RunsTyped
  <2>3. CASE inbox[i].key[1] # d
    BY <1>1, <1>4, <2>1, <2>2, <2>3 DEF Inv, RunInv, RevokedDrains, Affected
  <2>4. CASE inbox[i].key[1] = d
    BY <1>4, <2>2, <2>4 DEF Inv, RunInv, Admitted, Affected
  <2> QED
    BY <2>3, <2>4
<1> QED
  BY <1>2, <1>3, <1>5, <1>7, <1>8 DEF Inv, RunInv

---------------------------------------------------------------------------
LEMMA StutterInv == ASSUME Inv, UNCHANGED vars PROVE Inv'
BY DeploymentsKept, RunsKept DEF Inv, DeploymentInv, DeploymentsTyped, Addressed, vars,
   deploymentVars, commandVars

LEMMA NextInv == Inv /\ [Next]_vars => Inv'
<1> SUFFICES ASSUME Inv, [Next]_vars PROVE Inv'
  OBVIOUS
<1>1. ASSUME NEW r \in Requests, Receive(r) \/ AdmitDuplicate(r) \/ Admit(r) \/ Refuse(r)
      PROVE  Inv'
  BY <1>1, ReceiveInv, AdmitDuplicateInv, AdmitInv, RefuseInv
<1>2. ASSUME NEW i \in Runs, StartRun(i) \/ EndRun(i) \/ DropJob(i) PROVE Inv'
  BY <1>2, RunStepInv
<1>3. ASSUME NEW c \in Commands, Send(c) \/ CreateDraft(c) \/ Transition(c) \/ Rollout(c)
      PROVE  Inv'
  BY <1>3, SendInv, CreateDraftInv, TransitionInv, RolloutInv
<1>4. ASSUME NEW d \in Deployments, Revoke(d) PROVE Inv'
  BY <1>4, RevokeInv
<1>5. CASE UNCHANGED vars
  BY <1>5, StutterInv
<1> QED
  BY <1>1, <1>2, <1>3, <1>4, <1>5 DEF Next

(* The inductive invariant holds in every reachable state.                 *)
THEOREM Invariance == Spec => []Inv
BY InitInv, NextInv, PTL DEF Spec

LEMMA InvImplies ==
  Inv => TypeOK /\ OneActive /\ OneDeploymentPerVersion /\ OneRunPerDelivery /\ RevokedDrains
<1> SUFFICES ASSUME Inv
             PROVE  TypeOK /\ OneActive /\ OneDeploymentPerVersion /\ OneRunPerDelivery
                    /\ RevokedDrains
  OBVIOUS
<1>1. created \in Nat /\ created <= MaxDeployments /\ 1 .. created \subseteq Deployments
  BY DEF Inv, DeploymentInv, DeploymentsTyped, Deployments
<1>2. /\ request \in [Requests ->
             [to : Deployments, id : DeliveryIds, digest : Digests] \union {NoRequest}]
      /\ command \in [Commands ->
             [op : Operations, on : 0 .. MaxDeployments, revision : Nat,
              version : Versions \union {0}] \union {NoCommand}]
  BY <1>1 DEF Inv, Addressed, Operations, Transitions, Rollouts
<1>3. TypeOK
  BY <1>2 DEF TypeOK, Inv, DeploymentInv, DeploymentsTyped, RunInv, RunsTyped, Addressed
<1>4. OneRunPerDelivery
  <2> SUFFICES ASSUME NEW k \in Keys, NEW g \in Digests,
                      NEW i \in answers[<<k, g>>], NEW j \in answers[<<k, g>>]
               PROVE  i = j
    BY DEF OneRunPerDelivery
  <2>1. i \in 1 .. admitted /\ j \in 1 .. admitted /\ inbox[i].key = inbox[j].key
    BY DEF Inv, RunInv, Answered
  <2> QED
    BY <2>1 DEF Inv, RunInv, KeysOnce
<1> QED
  BY <1>3, <1>4 DEF Inv, DeploymentInv, RunInv

(* Type correctness                                                        *)
THEOREM TypeCorrect == Spec => []TypeOK
BY Invariance, InvImplies, PTL

(* A definition has one active deployment, and a version one that has not  *)
(* ended, however the commands of any number of clients are ordered.       *)
THEOREM Deployed == Spec => [](OneActive /\ OneDeploymentPerVersion)
BY Invariance, InvImplies, PTL

(* A delivery is answered with one run however often it is sent.           *)
THEOREM Delivered == Spec => []OneRunPerDelivery
BY Invariance, InvImplies, PTL

(* Nothing of a revoked deployment is left to be executed.                 *)
THEOREM Revoked == Spec => []RevokedDrains
BY Invariance, InvImplies, PTL

(* A rollout leaves an active deployment where there was one.              *)
LEMMA RolloutKeepsActive ==
  ASSUME Inv, Next, created' > created, \E e \in Deployments : depStatus[e] = "active"
  PROVE  \E e \in Deployments : depStatus'[e] = "active"
<1>1. created \in Nat /\ created' # created
  BY DEF Inv, DeploymentInv, DeploymentsTyped
<1>2. PICK c \in Commands : CreateDraft(c) \/ Rollout(c)
  BY <1>1 DEF Next, Receive, AdmitDuplicate, Admit, Refuse, StartRun, EndRun, DropJob, Send,
     Transition, Revoke, deploymentVars
<1>3. PICK e \in Deployments : depStatus[e] = "active"
  OBVIOUS
<1>4. e # created + 1
  BY <1>1, <1>3 DEF Inv, DeploymentInv, Created
<1>5. CASE CreateDraft(c)
  <2>1. depStatus'[e] = "active"
    BY <1>3, <1>4, <1>5 DEF CreateDraft, Inv, DeploymentInv, DeploymentsTyped
  <2> QED
    BY <2>1
<1>6. CASE Rollout(c)
  <2>1. created + 1 \in Deployments
    BY <1>1, <1>6 DEF Rollout, Deployments
  <2>2. CASE e = command[c].on
    <3>1. depStatus'[created + 1] = "active"
      BY <1>3, <1>6, <2>1, <2>2 DEF Rollout, Replacement, Inv, DeploymentInv, DeploymentsTyped
    <3> QED
      BY <2>1, <3>1
  <2>3. CASE e # command[c].on
    <3>1. depStatus'[e] = "active"
      BY <1>3, <1>4, <1>6, <2>3 DEF Rollout, Inv, DeploymentInv, DeploymentsTyped
    <3> QED
      BY <3>1
  <2> QED
    BY <2>2, <2>3
<1> QED
  BY <1>2, <1>5, <1>6

(* There is no moment without an active deployment in an update.           *)
THEOREM Replaced == Spec => NoGap
<1>1. Inv /\ [Next]_vars =>
        [created' > created /\ (\E d \in Deployments : depStatus[d] = "active")
             => \E d \in Deployments : depStatus'[d] = "active"]_vars
  BY RolloutKeepsActive
<1> QED
  BY <1>1, Invariance, PTL DEF Spec, NoGap

---------------------------------------------------------------------------
(* pruneTerminalJobs drops the job of some activation.                     *)
Housekeeping == \E i \in Runs : DropJob(i)

(* What an action makes of the inboxes: only the housekeeping makes them   *)
(* inconsistent, and nothing makes them consistent again.                  *)
LEMMA InboxesStep ==
  ASSUME Inv, Next
  PROVE  /\ InboxesConsistent /\ ~Housekeeping => InboxesConsistent'
         /\ ~InboxesConsistent =>
               ~InboxesConsistent' /\ admitted' = admitted /\ answers' = answers
<1>1. /\ admitted \in 0 .. MaxRuns /\ 1 .. admitted \subseteq Runs
      /\ jobStatus \in [Runs -> JobStatus] /\ MaxRuns \in Nat
      /\ DOMAIN runStatus = Runs
  BY BoundsAssumption DEF Inv, RunInv, RunsTyped, Runs
<1>2. \A i \in 1 .. admitted : runStatus[i] # "none"
  BY DEF Inv, RunInv, Admitted
<1>3. InboxesConsistent <=> \A i \in 1 .. admitted : jobStatus[i] \notin {"none", "dropped"}
  BY <1>2 DEF InboxesConsistent
<1>4. \A i \in 1 .. admitted' : runStatus'[i] # "none"
  BY NextInv DEF Inv, RunInv, Admitted
<1>5. InboxesConsistent' <=> \A i \in 1 .. admitted' : jobStatus'[i] \notin {"none", "dropped"}
  BY <1>4 DEF InboxesConsistent
<1>6. CASE \E r \in Requests : Admit(r)
  <2>1. InboxesConsistent
    BY <1>6 DEF Admit, Admissible
  <2>2. admitted' = admitted + 1 /\ admitted + 1 \in Runs
        /\ jobStatus' = [jobStatus EXCEPT ![admitted + 1] = "queued"]
    BY <1>1, <1>6 DEF Admit, InsertJob, Runs
  <2>3. ASSUME NEW i \in 1 .. admitted' PROVE jobStatus'[i] \notin {"none", "dropped"}
    <3>1. CASE i = admitted + 1
      BY <1>1, <2>2, <3>1
    <3>2. CASE i \in 1 .. admitted
      BY <1>1, <1>3, <2>1, <2>2, <3>2
    <3> QED
      BY <1>1, <2>2, <3>1, <3>2
  <2> QED
    BY <1>5, <2>1, <2>3
<1>7. CASE \E r \in Requests : AdmitDuplicate(r)
  BY <1>3, <1>5, <1>7 DEF AdmitDuplicate, runVars
<1>8. CASE \E i \in Runs : StartRun(i) \/ EndRun(i)
  <2>1. PICK i \in Runs : StartRun(i) \/ EndRun(i)
    BY <1>8
  <2>2. admitted' = admitted /\ answers' = answers
    BY <2>1 DEF StartRun, EndRun
  <2>3. \A j \in Runs :
          jobStatus'[j] \in {"none", "dropped"} <=> jobStatus[j] \in {"none", "dropped"}
    BY <1>1, <2>1 DEF StartRun, EndRun
  <2> QED
    BY <1>1, <1>3, <1>5, <2>2, <2>3
<1>9. CASE \E i \in Runs : DropJob(i)
  <2>1. PICK i \in Runs : DropJob(i)
    BY <1>9
  <2>2. admitted' = admitted /\ answers' = answers
        /\ jobStatus' = [jobStatus EXCEPT ![i] = "dropped"]
    BY <2>1 DEF DropJob
  <2>3. \A j \in Runs :
          jobStatus[j] \in {"none", "dropped"} => jobStatus'[j] \in {"none", "dropped"}
    BY <1>1, <2>2
  <2> QED
    BY <1>1, <1>3, <1>5, <1>9, <2>2, <2>3 DEF Housekeeping
<1>10. CASE \E d \in Deployments : Revoke(d)
  <2>1. PICK d \in Deployments : Revoke(d)
    BY <1>10
  <2>2. admitted' = admitted /\ answers' = answers
    BY <2>1 DEF Revoke
  <2>3. \A j \in Runs :
          jobStatus'[j] \in {"none", "dropped"} <=> jobStatus[j] \in {"none", "dropped"}
    BY <1>1, <2>1 DEF Revoke
  <2> QED
    BY <1>1, <1>3, <1>5, <2>2, <2>3
<1>11. CASE \/ \E r \in Requests : Receive(r) \/ Refuse(r)
            \/ \E c \in Commands : Send(c) \/ CreateDraft(c) \/ Transition(c) \/ Rollout(c)
  <2>1. admitted' = admitted /\ answers' = answers /\ jobStatus' = jobStatus
    BY <1>11 DEF Receive, Refuse, Send, CreateDraft, Transition, Rollout, Commit, runVars
  <2> QED
    BY <1>3, <1>5, <2>1
<1> QED
  BY <1>6, <1>7, <1>8, <1>9, <1>10, <1>11 DEF Next

(* The housekeeping alone breaks the inboxes: were it to spare the jobs    *)
(* that an inbox refers to, validateInbox would never fail.                *)
THEOREM OnlyHousekeeping == Spec /\ [][~Housekeeping]_vars => []InboxesConsistent
<1>1. Init => InboxesConsistent
  BY DEF Init, InboxesConsistent
<1>2. Inv /\ InboxesConsistent /\ [Next]_vars /\ [~Housekeeping]_vars => InboxesConsistent'
  <2>1. CASE UNCHANGED vars
    BY <2>1 DEF vars, runVars, InboxesConsistent
  <2> QED
    BY <2>1, InboxesStep
<1> QED
  BY <1>1, <1>2, Invariance, PTL DEF Spec

(* And it is for good: from then on no delivery is admitted, and none that *)
(* was admitted before is answered.                                        *)
THEOREM Stopped ==
  Spec => [][~InboxesConsistent =>
                 ~InboxesConsistent' /\ admitted' = admitted /\ answers' = answers]_vars
<1>1. Inv /\ [Next]_vars =>
        [~InboxesConsistent =>
             ~InboxesConsistent' /\ admitted' = admitted /\ answers' = answers]_vars
  BY InboxesStep
<1> QED
  BY <1>1, Invariance, PTL DEF Spec
================================================================================
