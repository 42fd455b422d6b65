------------------------------- MODULE LeaderLock -------------------------------
(***************************************************************************)
(* The gate in front of a scheduler's tick (jobs/scheduler-lock.ts,        *)
(* scheduler-http-coordinator.ts): none, a lock file with an expiry, or an *)
(* external coordinator.  JobScheduler.tla drives it.                      *)
(***************************************************************************)
CONSTANTS
    Processes,
    Modes           \* the modes a deployment may be started in

VARIABLES
    mode,           \* PACKETAGENT_SCHEDULER_LEADER_MODE; "http" is two modes here,
                    \* by PACKETAGENT_SCHEDULER_LEADER_HTTP_FAIL_OPEN
    holder,         \* the process the file or the coordinator names, or "none"
    unexpired,      \* its expiresAt is in the future
    held,           \* what each process believes (isHeld)
    seen            \* what a process read from the file and has not acted on

lockVars == <<mode, holder, unexpired, held, seen>>

Mode == {"off", "file", "fail_closed", "fail_open"}
Http == mode \in {"fail_closed", "fail_open"}

Seen == {"nothing", "free", "taken", "mine"}

LockTyped ==
    /\ mode \in Mode
    /\ holder \in Processes \union {"none"} /\ unexpired \in BOOLEAN
    /\ held \in [Processes -> BOOLEAN] /\ seen \in [Processes -> Seen]

LockInit ==
    /\ mode \in Modes
    /\ holder = "none" /\ unexpired = FALSE
    /\ held = [p \in Processes |-> mode = "off"]
    /\ seen = [p \in Processes |-> "nothing"]

(* Mutated: the record is not compared with the clock.                     *)
Free_Forever(p) == holder \in {"none", p}

(* No holder, our own record, or one that has expired.                     *)
Free(p) == holder \in {"none", p} \/ ~unexpired

Believe(p, belief) == held' = [held EXCEPT ![p] = belief]

Grant(p) == holder' = p /\ unexpired' = TRUE

(* The lock file is read, ...                                              *)
ReadFile(p) ==
    /\ mode = "file" /\ seen[p] = "nothing"
    /\ seen' = [seen EXCEPT ![p] = IF Free(p) THEN "free" ELSE "taken"]
    /\ UNCHANGED <<mode, holder, unexpired, held>>

(* ... and, by what was read, replaced (a rename) or left.                 *)
WriteFile(p, leads) ==
    /\ mode = "file"
    /\ \/ seen[p] = "free" /\ leads /\ Grant(p)
       \/ seen[p] = "taken" /\ ~leads /\ UNCHANGED <<holder, unexpired>>
    /\ seen' = [seen EXCEPT ![p] = "nothing"]
    /\ Believe(p, leads) /\ UNCHANGED mode

(* Mutated: without an answer the last belief stands, whatever is set.     *)
Unanswered_Open(p) == held[p]

(* What acquire makes of an outage or a malformed answer.                  *)
Unanswered(p) == mode = "fail_open" /\ held[p]

(* POST /acquire.  The coordinator is external: it grants a free lock and  *)
(* refuses (409) a taken one.  The answer may get lost either way, and a   *)
(* rejected secret (401, 403) throws and leaves the belief as it was.      *)
Ask(p, leads) ==
    /\ Http
    /\ \/ Free(p) /\ Grant(p) /\ leads /\ Believe(p, TRUE)
       \/ ~Free(p) /\ ~leads /\ Believe(p, FALSE) /\ UNCHANGED <<holder, unexpired>>
    /\ UNCHANGED <<mode, seen>>

AskUnanswered(p, leads) ==
    /\ Http
    /\ leads = Unanswered(p) /\ Believe(p, leads)
    /\ (Free(p) /\ Grant(p)) \/ UNCHANGED <<holder, unexpired>>
    /\ UNCHANGED <<mode, seen>>

AskRejected(p, leads) ==
    /\ Http /\ ~leads
    /\ UNCHANGED lockVars

(* noopLeaderLock                                                          *)
Ungated(p, leads) == mode = "off" /\ leads /\ UNCHANGED lockVars

(* release: the file is read, and unlinked if it was ours.                 *)
ReadOwn(p) ==
    /\ mode = "file" /\ holder = p /\ seen[p] = "nothing"
    /\ seen' = [seen EXCEPT ![p] = "mine"]
    /\ UNCHANGED <<mode, holder, unexpired, held>>

Unlink(p) ==
    /\ seen[p] = "mine"
    /\ holder' = "none" /\ unexpired' = FALSE
    /\ Believe(p, FALSE) /\ UNCHANGED mode
    /\ seen' = [seen EXCEPT ![p] = "nothing"]

(* The file is not ours; POST /release, which may not arrive; or no lock.  *)
GiveUp(p) ==
    /\ \/ mode = "file" /\ holder # p /\ seen[p] = "nothing" /\ UNCHANGED <<holder, unexpired>>
       \/ Http /\ holder = p /\ holder' = "none" /\ unexpired' = FALSE
       \/ (Http \/ mode = "off") /\ UNCHANGED <<holder, unexpired>>
    /\ Believe(p, mode = "off")
    /\ UNCHANGED <<mode, seen>>

Expire ==
    /\ unexpired
    /\ unexpired' = FALSE
    /\ UNCHANGED <<mode, holder, held, seen>>

(* The process dies; its record stays until it expires.                    *)
LockForgotten(p) ==
    /\ Believe(p, mode = "off")
    /\ seen' = [seen EXCEPT ![p] = "nothing"]
    /\ UNCHANGED <<mode, holder, unexpired>>
=================================================================================
