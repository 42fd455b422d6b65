------------------------------ MODULE AtomicStore ------------------------------
(***************************************************************************)
(* What every other module of this project assumes of the store            *)
(* (packetagent-store.ts mutateStore, mutateStoreAsync): a mutation is one *)
(* atomic step on one document.  A document is the sequence of the         *)
(* mutations it carries, so a mutation that was lost, that was applied     *)
(* twice or that did not see its predecessor shows.  Store.tla, with its   *)
(* three backends, caches and processes, is shown to implement this.       *)
(***************************************************************************)
EXTENDS Naturals, Sequences

CONSTANT Clients        \* the callers of the store

VARIABLES
    disk,       \* the committed document, as its sequence of mutations
    phase,      \* [Clients -> {"idle", "open", "applied"}]
    called,     \* [Clients -> Nat] mutations a client asked for
    acked       \* [Clients -> Nat] mutations a client was told to be done

vars == <<disk, phase, called, acked>>

Init ==
    /\ disk = <<>>
    /\ phase = [c \in Clients |-> "idle"]
    /\ called = [c \in Clients |-> 0]
    /\ acked = [c \in Clients |-> 0]

Call(c) ==
    /\ phase[c] = "idle"
    /\ phase' = [phase EXCEPT ![c] = "open"]
    /\ called' = [called EXCEPT ![c] = @ + 1]
    /\ UNCHANGED <<disk, acked>>

(* The step that counts: it extends the document every earlier one left.   *)
Apply(c) ==
    /\ phase[c] = "open"
    /\ phase' = [phase EXCEPT ![c] = "applied"]
    /\ disk' = Append(disk, c)
    /\ UNCHANGED <<called, acked>>

Return(c) ==
    /\ phase[c] = "applied"
    /\ phase' = [phase EXCEPT ![c] = "idle"]
    /\ acked' = [acked EXCEPT ![c] = @ + 1]
    /\ UNCHANGED <<disk, called>>

(* The call is reported as failed; "applied" is a commit without an answer. *)
Fail(c) ==
    /\ phase[c] \in {"open", "applied"}
    /\ phase' = [phase EXCEPT ![c] = "idle"]
    /\ UNCHANGED <<disk, called, acked>>

(* The clients of a process are gone: what they applied stays.             *)
Vanish(S) ==
    /\ phase' = [c \in Clients |-> IF c \in S THEN "idle" ELSE phase[c]]
    /\ UNCHANGED <<disk, called, acked>>

Next ==
    \/ \E c \in Clients : Call(c) \/ Apply(c) \/ Return(c) \/ Fail(c)
    \/ \E S \in SUBSET Clients : Vanish(S)

Spec == Init /\ [][Next]_vars
================================================================================
