--------------------------------- MODULE Intake --------------------------------
(***************************************************************************)
(* The deployments of one Worker definition and the admission of its       *)
(* activations: lifecycle commands with receipts and expected revisions    *)
(* (workers/service.ts), the operator's revocation (control-service.ts),   *)
(* deliveries that producers repeat (workers/activation.ts, adapters.ts),  *)
(* the runs and jobs they create, and the job housekeeping that drops old  *)
(* jobs (jobs/retention.ts).                                               *)
(*                                                                         *)
(* One store transaction is one step (Store.tla).  A request or a command  *)
(* may be lost before or after it was served, and sent again.              *)
(***************************************************************************)
EXTENDS Naturals

CONSTANTS
    Requests,       \* requests of producers under way at one time
    DeliveryIds,    \* what identifies a delivery to its producer
    Digests,        \* the contents a delivery may have
    Commands,       \* lifecycle commands, each with its idempotency key
    Versions,       \* the validated versions of the definition
    MaxDeployments, \* bound: deployments ever created
    MaxRuns         \* bound: activations ever admitted

ASSUME VersionsAssumption == Versions \subseteq Nat
ASSUME BoundsAssumption == MaxDeployments \in Nat \ {0} /\ MaxRuns \in Nat

Deployments == 1 .. MaxDeployments
Runs == 1 .. MaxRuns

VARIABLES
    \* the deployments, numbered as they are created
    created, depStatus, depVersion, depRevision,
    \* the activations, numbered as they are admitted: the inbox record with
    \* its delivery key and request digest, the run and the execution job
    admitted, inbox, runStatus, jobStatus,
    \* a producer's request: nothing, or the deployment it was routed to
    request,
    \* a lifecycle command as its client sends it, and the receipt of it
    command, receipt,
    \* history: the runs a delivery was answered with
    answers

deploymentVars == <<created, depStatus, depVersion, depRevision>>
runVars == <<admitted, inbox, runStatus, jobStatus>>
commandVars == <<command, receipt>>
vars == <<deploymentVars, runVars, request, commandVars, answers>>

Ended == {"retired", "rejected", "revoked"}
DepStatus == {"absent", "draft", "validated", "deployed", "active", "paused"} \union Ended
JobStatus == {"none", "queued", "running", "success", "canceled", "dropped"}

(* workerActivationDeliveryKey: the delivery, for one deployment           *)
Keys == Deployments \X DeliveryIds
NoInbox == [key |-> <<0, "none">>, digest |-> "none"]
NoRequest == [to |-> 0, id |-> "none", digest |-> "none"]

Transitions == {"validate", "deploy", "activate", "pause", "resume", "retire"}
Rollouts == {"update", "rollback"}
Operations == Transitions \union Rollouts \union {"create"}
NoCommand == [op |-> "none", on |-> 0, revision |-> 0, version |-> 0]

TypeOK ==
    /\ created \in 0 .. MaxDeployments
    /\ depStatus \in [Deployments -> DepStatus]
    /\ depVersion \in [Deployments -> Versions \union {0}]
    /\ depRevision \in [Deployments -> Nat]
    /\ admitted \in 0 .. MaxRuns
    /\ inbox \in [Runs -> [key : Keys, digest : Digests] \union {NoInbox}]
    /\ runStatus \in [Runs -> {"none", "queued", "running", "completed", "cancelled"}]
    /\ jobStatus \in [Runs -> JobStatus]
    /\ request \in [Requests ->
           [to : Deployments, id : DeliveryIds, digest : Digests] \union {NoRequest}]
    /\ command \in [Commands ->
           [op : Operations, on : 0 .. MaxDeployments, revision : Nat,
            version : Versions \union {0}] \union {NoCommand}]
    /\ receipt \in [Commands -> BOOLEAN]
    /\ answers \in [Keys \X Digests -> SUBSET Runs]

(* A first deployment is active; there may be a second one.                *)
Init ==
    /\ created \in {1, 2} /\ created <= MaxDeployments
    /\ \E v, w \in Versions, second \in {"deployed", "paused"} :
         v # w /\
         LET pick(one, two, none) ==
                 [d \in Deployments |->
                     IF d = 1 THEN one ELSE IF d <= created THEN two ELSE none] IN
         /\ depStatus = pick("active", second, "absent")
         /\ depVersion = pick(v, w, 0)
         /\ depRevision = pick(4, IF second = "deployed" THEN 3 ELSE 5, 0)
    /\ admitted = 0
    /\ inbox = [i \in Runs |-> NoInbox]
    /\ runStatus = [i \in Runs |-> "none"]
    /\ jobStatus = [i \in Runs |-> "none"]
    /\ request = [r \in Requests |-> NoRequest]
    /\ command = [c \in Commands |-> NoCommand]
    /\ receipt = [c \in Commands |-> FALSE]
    /\ answers = [k \in Keys \X Digests |-> {}]

(***************************************************************************)
(* Admission                                                               *)
(***************************************************************************)
(* A webhook is routed to the active deployment that is found now (adapters *)
(* activateWorkerWebhookDelivery); cron and queue deliveries, and manual   *)
(* ones, name theirs.  The delivery may be one that was sent before.       *)
Receive(r) ==
    /\ request[r] = NoRequest
    /\ \E d \in 1 .. created, id \in DeliveryIds, digest \in Digests :
         request' = [request EXCEPT ![r] = [to |-> d, id |-> id, digest |-> digest]]
    /\ UNCHANGED <<deploymentVars, runVars, commandVars, answers>>

Done(r) == request' = [request EXCEPT ![r] = NoRequest]

KeyOf(q) == <<q.to, q.id>>

(* findInbox *)
Duplicates(q) == {i \in 1 .. admitted : inbox[i].key = KeyOf(q)}

Answer(q, i) == answers' = [answers EXCEPT ![<<KeyOf(q), q.digest>>] = @ \union {i}]

(* validateInbox, for every inbox there is, before each transaction of the *)
(* repository: its run and its execution job are still there.              *)
InboxesConsistent == \A i \in 1 .. admitted :
    runStatus[i] # "none" /\ jobStatus[i] \notin {"none", "dropped"}

(* A repeated delivery is answered with its run, whatever has become of    *)
(* the deployment since.                                                   *)
AdmitDuplicate(r) ==
    LET q == request[r] IN
    /\ q # NoRequest /\ InboxesConsistent
    /\ \E i \in Duplicates(q) : inbox[i].digest = q.digest /\ Answer(q, i)
    /\ Done(r)
    /\ UNCHANGED <<deploymentVars, runVars, commandVars>>

(* Mutated: neither findInbox nor insertInbox looks for the delivery.      *)
Admissible_NoInboxLookup(q) ==
    depStatus[q.to] = "active" /\ InboxesConsistent

Admissible(q) ==
    Duplicates(q) = {} /\ depStatus[q.to] = "active" /\ InboxesConsistent

InsertJob(i) == jobStatus' = [jobStatus EXCEPT ![i] = "queued"]

(* Inbox, run and job are inserted together.                               *)
Admit(r) ==
    LET q == request[r]  i == admitted + 1 IN
    /\ q # NoRequest /\ Admissible(q)
    /\ i <= MaxRuns
    /\ admitted' = i
    /\ inbox' = [inbox EXCEPT ![i] = [key |-> KeyOf(q), digest |-> q.digest]]
    /\ runStatus' = [runStatus EXCEPT ![i] = "queued"]
    /\ InsertJob(i)
    /\ Answer(q, i)
    /\ Done(r)
    /\ UNCHANGED <<deploymentVars, commandVars>>

(* A delivery id with other content, a deployment that is not active (any  *)
(* more), an integrity error; or the request is lost on its way.           *)
Refuse(r) ==
    /\ request[r] # NoRequest
    /\ Done(r)
    /\ UNCHANGED <<deploymentVars, runVars, commandVars, answers>>

(***************************************************************************)
(* The runs (WorkerRun.tla in short) and the housekeeping of their jobs    *)
(***************************************************************************)
StartRun(i) ==
    /\ jobStatus[i] = "queued"
    /\ jobStatus' = [jobStatus EXCEPT ![i] = "running"]
    /\ runStatus' = [runStatus EXCEPT ![i] = IF @ = "queued" THEN "running" ELSE @]
    /\ UNCHANGED <<deploymentVars, admitted, inbox, request, commandVars, answers>>

(* The supervisor ends a run early when it sees that its deployment is     *)
(* retired or revoked (inspect in runtime/repository.ts).                  *)
Outcomes(i) == {"completed"} \union
    IF depStatus[inbox[i].key[1]] \in {"retired", "revoked"} THEN {"cancelled"} ELSE {}

EndRun(i) ==
    /\ jobStatus[i] = "running"
    /\ jobStatus' = [jobStatus EXCEPT ![i] = "success"]
    /\ \E s \in Outcomes(i) :
         runStatus' = [runStatus EXCEPT ![i] = IF @ = "running" THEN s ELSE @]
    /\ UNCHANGED <<deploymentVars, admitted, inbox, request, commandVars, answers>>

(* pruneTerminalJobs: a job that ended longer ago than the window          *)
DropJob(i) ==
    /\ jobStatus[i] \in {"success", "canceled"}
    /\ jobStatus' = [jobStatus EXCEPT ![i] = "dropped"]
    /\ UNCHANGED <<deploymentVars, admitted, inbox, runStatus, request, commandVars, answers>>

(***************************************************************************)
(* The lifecycle of a deployment                                           *)
(***************************************************************************)
TargetOf == [validate |-> "validated", deploy |-> "deployed", activate |-> "active",
             pause |-> "paused", resume |-> "active", retire |-> "retired"]

(* DEPLOYMENT_TRANSITIONS, without "attention", which nothing sets         *)
DeploymentTransitions == [s \in DepStatus |->
    CASE s = "draft"     -> {"validated", "rejected"}
      [] s = "validated" -> {"deployed", "rejected"}
      [] s = "deployed"  -> {"active", "retired", "revoked"}
      [] s = "active"    -> {"paused", "retired", "revoked"}
      [] s = "paused"    -> {"active", "retired", "revoked"}
      [] OTHER           -> {}]

(* A status may be "changed" to itself: only its revision moves.           *)
MayBecome(d, op) ==
    TargetOf[op] \in DeploymentTransitions[depStatus[d]] \union {depStatus[d]}

(* An update selects a newer version, a rollback an older one.             *)
MayReplace(d, op, v) ==
    /\ depStatus[d] \in {"deployed", "active", "paused"}
    /\ IF op = "update" THEN v > depVersion[d] ELSE v < depVersion[d]

(* A client reads a deployment and sends a command about what it saw.  The *)
(* revision stands for that: a command that was impossible then is refused *)
(* whenever it arrives, and is left out.                                   *)
Send(c) ==
    /\ command[c] = NoCommand
    /\ \/ \E op \in Transitions, d \in 1 .. created :
            /\ MayBecome(d, op)
            /\ command' = [command EXCEPT ![c] =
                   [op |-> op, on |-> d, revision |-> depRevision[d], version |-> 0]]
       \/ \E op \in Rollouts, d \in 1 .. created, v \in Versions :
            /\ MayReplace(d, op, v)
            /\ command' = [command EXCEPT ![c] =
                   [op |-> op, on |-> d, revision |-> depRevision[d], version |-> v]]
       \/ \E v \in Versions :
            command' = [command EXCEPT ![c] =
                [op |-> "create", on |-> 0, revision |-> 0, version |-> v]]
    /\ UNCHANGED <<deploymentVars, runVars, request, receipt, answers>>

(* executeCommand: a key that has a receipt is answered from it            *)
FirstTime(c) == command[c] # NoCommand /\ ~receipt[c]

Commit(c) ==
    /\ receipt' = [receipt EXCEPT ![c] = TRUE]
    /\ UNCHANGED <<runVars, request, command, answers>>

(* A version has one deployment that has not ended.                        *)
VersionFree(v, others) ==
    \A e \in others : depVersion[e] = v => depStatus[e] \in Ended

(* createDeployment: a draft of a validated version                        *)
CreateDraft(c) ==
    /\ FirstTime(c) /\ command[c].op = "create" /\ created < MaxDeployments
    /\ VersionFree(command[c].version, 1 .. created)
    /\ created' = created + 1
    /\ depStatus' = [depStatus EXCEPT ![created + 1] = "draft"]
    /\ depVersion' = [depVersion EXCEPT ![created + 1] = command[c].version]
    /\ depRevision' = [depRevision EXCEPT ![created + 1] = 1]
    /\ Commit(c)

(* Mutated: only activate looks for another active deployment.             *)
NoOtherActive_OnActivateOnly(c) ==
    command[c].op = "activate" =>
        \A d \in Deployments \ {command[c].on} : depStatus[d] # "active"

(* transitionDeployment: one active deployment of a definition             *)
NoOtherActive(c) ==
    TargetOf[command[c].op] = "active" =>
        \A d \in Deployments \ {command[c].on} : depStatus[d] # "active"

Transition(c) ==
    LET d == command[c].on IN
    /\ FirstTime(c) /\ command[c].op \in Transitions
    /\ command[c].revision = depRevision[d]
    /\ NoOtherActive(c)
    /\ MayBecome(d, command[c].op)
    /\ depStatus' = [depStatus EXCEPT ![d] = TargetOf[command[c].op]]
    /\ depRevision' = [depRevision EXCEPT ![d] = @ + 1]
    /\ UNCHANGED <<created, depVersion>>
    /\ Commit(c)

(* Mutated: the replacement of a deployment starts out deployed.           *)
Replacement_Deployed(d) == "deployed"

(* The replacement takes the status over.                                  *)
Replacement(d) == depStatus[d]

(* rolloutDeployment: the old deployment is retired and its replacement,   *)
(* of a newer (update) or an older (rollback) version, takes its place.    *)
Rollout(c) ==
    LET d == command[c].on  v == command[c].version  n == created + 1 IN
    /\ FirstTime(c) /\ command[c].op \in Rollouts
    /\ created < MaxDeployments
    /\ command[c].revision = depRevision[d]
    /\ MayReplace(d, command[c].op, v)
    /\ VersionFree(v, (1 .. created) \ {d})
    /\ created' = n
    /\ depStatus' = [depStatus EXCEPT ![d] = "retired", ![n] = Replacement(d)]
    /\ depVersion' = [depVersion EXCEPT ![n] = v]
    /\ depRevision' = [depRevision EXCEPT ![d] = @ + 1, ![n] = 1]
    /\ Commit(c)

(* Mutated: only the runs that are running are ended.                      *)
Affected_Running(d, i) == inbox[i].key[1] = d /\ runStatus[i] = "running"

(* The runs of the deployment that are not terminal                        *)
Affected(d, i) == inbox[i].key[1] = d /\ runStatus[i] \in {"queued", "running"}

(* applyRevoke of the control service: with the deployment end its runs,   *)
(* their queued jobs are canceled and their running ones asked to stop.    *)
Revoke(d) ==
    /\ depStatus[d] \in {"deployed", "active", "paused"}
    /\ depStatus' = [depStatus EXCEPT ![d] = "revoked"]
    /\ depRevision' = [depRevision EXCEPT ![d] = @ + 1]
    /\ runStatus' = [i \in Runs |-> IF Affected(d, i) THEN "cancelled" ELSE runStatus[i]]
    /\ jobStatus' = [i \in Runs |->
           IF Affected(d, i) /\ jobStatus[i] = "queued" THEN "canceled" ELSE jobStatus[i]]
    /\ UNCHANGED <<created, depVersion, admitted, inbox, request, commandVars, answers>>

Next ==
    \/ \E r \in Requests : Receive(r) \/ AdmitDuplicate(r) \/ Admit(r) \/ Refuse(r)
    \/ \E i \in Runs : StartRun(i) \/ EndRun(i) \/ DropJob(i)
    \/ \E c \in Commands : Send(c) \/ CreateDraft(c) \/ Transition(c) \/ Rollout(c)
    \/ \E d \in Deployments : Revoke(d)

Spec == Init /\ [][Next]_vars

(***************************************************************************)
(* Properties                                                              *)
(***************************************************************************)
(* However often a delivery is sent to a deployment, at the same time or   *)
(* after the deployment was paused, replaced or revoked, its producer is   *)
(* told of one run.                                                        *)
OneRunPerDelivery == \A k \in Keys \X Digests : \A i, j \in answers[k] : i = j

(* Clients that activate, resume and roll out deployments of one           *)
(* definition at the same time never leave two of them active.             *)
OneActive == \A d, e \in Deployments :
    depStatus[d] = "active" /\ depStatus[e] = "active" => d = e

(* However creations, updates and rollbacks are ordered, a version never   *)
(* has two deployments that have not ended.                                *)
OneDeploymentPerVersion == \A d, e \in 1 .. created :
    depVersion[d] = depVersion[e] /\ {depStatus[d], depStatus[e]} \intersect Ended = {}
        => d = e

(* Once a deployment is revoked none of its runs is left to be executed,   *)
(* and an admission that was under way cannot add one.                     *)
RevokedDrains == \A i \in 1 .. admitted :
    depStatus[inbox[i].key[1]] = "revoked" =>
        runStatus[i] \in {"completed", "cancelled"} /\ jobStatus[i] # "queued"

(* While an update or a rollback replaces an active deployment, there is   *)
(* no moment without one.                                                  *)
NoGap == [][created' > created /\ (\E d \in Deployments : depStatus[d] = "active")
                => \E d \in Deployments : depStatus'[d] = "active"]_vars
================================================================================
