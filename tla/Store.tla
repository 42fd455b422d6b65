--------------------------------- MODULE Store ---------------------------------
(***************************************************************************)
(* The store and its three backends (packetagent-store.ts, store/): a JSON *)
(* file behind a promise chain, SQLite behind BEGIN IMMEDIATE, and one     *)
(* Postgres document behind an advisory lock, each with the process-wide   *)
(* cache of the last document.  One step is what JavaScript runs between   *)
(* two awaits, or one statement of the database server.                    *)
(*                                                                         *)
(* A mutator is any: it may throw, and it may await.  A document is the    *)
(* sequence of the mutations it carries.  JSON and SQLite have one process *)
(* (docs/deployment/persistence.md); only Postgres has several.            *)
(***************************************************************************)
EXTENDS Naturals, Sequences, FiniteSets

CONSTANTS
    Processes, Main,    \* server processes; the only one under JSON and SQLite
    Clients, Host,      \* callers of the store and, under Postgres, their process
    Modes,              \* the backends to consider
    SyncOverlap,        \* whether a synchronous JSON mutation may run while an
                        \* asynchronous one, or a load, is waiting
    MaxAttempts,        \* withManagedPostgresMutationRetry's maxAttempts (3)
    MaxCalls,           \* bound: mutations and loads asked for
    MaxCrashes          \* bound: crashes of a process

None == "none"
Uncached == <<None>>    \* an empty cache: no document is equal to it

ASSUME ClientsAssumption ==
    /\ Main \in Processes /\ Host \in [Clients -> Processes] /\ None \notin Clients
ASSUME ModesAssumption == Modes \subseteq {"json", "sqlite", "postgres"}
ASSUME BoundsAssumption ==
    /\ SyncOverlap \in BOOLEAN /\ MaxAttempts \in Nat \ {0}
    /\ MaxCalls \in Nat /\ MaxCrashes \in Nat

VARIABLES
    mode,       \* PACKETAGENT_STORE, fixed for a deployment
    disk,       \* the committed document
    cache,      \* [Processes -> document or Uncached] cache.ts
    lock,       \* the client that holds the database's write lock, or None
    chain,      \* jsonMutateChain: the clients queued on it, the running one first
    pc,         \* [Clients -> PCs]
    snap,       \* [Clients -> document] what a client loaded and works on
    attempt,    \* [Clients -> Nat] attempts of a Postgres mutation
    called, acked,      \* history: mutations asked for and acknowledged
    calls, crashes      \* bounds

docVars == <<disk, cache, lock, chain>>
clientVars == <<pc, snap, attempt>>
historyVars == <<called, acked>>
boundVars == <<calls, crashes>>
vars == <<mode, docVars, clientVars, historyVars, boundVars>>

PCs == {"idle", "called", "chained", "mutating", "committing", "applied",
        "claimed", "loading", "filling"}
Documents == Seq(Clients)

Home(c) == IF mode = "postgres" THEN Host[c] ELSE Main
ClientsOf(p) == {c \in Clients : Home(c) = p}

TypeOK ==
    /\ mode \in Modes
    /\ disk \in Documents
    /\ cache \in [Processes -> Documents \union {Uncached}]
    /\ lock \in Clients \union {None}
    /\ chain \in Seq(Clients)
    /\ pc \in [Clients -> PCs]
    /\ snap \in [Clients -> Documents]
    /\ attempt \in [Clients -> Nat]
    /\ called \in [Clients -> Nat] /\ acked \in [Clients -> Nat]
    /\ calls \in Nat /\ crashes \in Nat

Init ==
    /\ mode \in Modes
    /\ disk = <<>>
    /\ cache = [p \in Processes |-> Uncached]
    /\ lock = None
    /\ chain = <<>>
    /\ pc = [c \in Clients |-> "idle"]
    /\ snap = [c \in Clients |-> <<>>]
    /\ attempt = [c \in Clients |-> 0]
    /\ called = [c \in Clients |-> 0] /\ acked = [c \in Clients |-> 0]
    /\ calls = 0 /\ crashes = 0

Goto(c, l) == pc' = [pc EXCEPT ![c] = l]
SetCache(c, doc) == cache' = [cache EXCEPT ![Home(c)] = doc]

(* loadStoreFromBackend: the cached document, else the committed one       *)
Cached(c) == IF cache[Home(c)] = Uncached THEN disk ELSE cache[Home(c)]

(***************************************************************************)
(* The caller.                                                             *)
(***************************************************************************)
Call(c) ==
    /\ pc[c] = "idle" /\ calls < MaxCalls
    /\ calls' = calls + 1
    /\ called' = [called EXCEPT ![c] = @ + 1]
    /\ attempt' = [attempt EXCEPT ![c] = 1]
    /\ \/ mode = "json" /\ Goto(c, "chained") /\ chain' = Append(chain, c)
       \/ Goto(c, "called") /\ UNCHANGED chain
    /\ UNCHANGED <<mode, disk, cache, lock, snap, acked, crashes>>

(* The promise of a mutation resolves and the caller goes on.              *)
Return(c) ==
    /\ pc[c] = "applied"
    /\ Goto(c, "idle")
    /\ acked' = [acked EXCEPT ![c] = @ + 1]
    /\ UNCHANGED <<mode, docVars, snap, attempt, called, boundVars>>

(***************************************************************************)
(* JSON: mutations wait for each other on jsonMutateChain; each clones the *)
(* cached document, awaits its mutator and writes the whole document.      *)
(***************************************************************************)
JsonStart(c) ==
    /\ mode = "json" /\ pc[c] = "chained" /\ Head(chain) = c
    /\ snap' = [snap EXCEPT ![c] = Cached(c)]
    /\ SetCache(c, Cached(c))
    /\ Goto(c, "mutating")
    /\ UNCHANGED <<mode, disk, lock, chain, attempt, historyVars, boundVars>>

(* Loads that wait for their continuation.  One that found no cache began  *)
(* before the mutation that is running now, and its continuation was       *)
(* queued before that of the mutator: microtasks run first in, first out.  *)
LoadsPending == \E c \in Clients : pc[c] = "filling"

(* The chain goes on, whether the mutation resolved or was rejected.       *)
Unchain == chain' = Tail(chain)

(* Mutated: the new document is not cached.                                *)
JsonPersist_UncachedWrite(c) ==
    /\ mode = "json" /\ pc[c] = "mutating" /\ ~LoadsPending
    /\ disk' = Append(snap[c], c)
    /\ Unchain
    /\ Goto(c, "applied")
    /\ UNCHANGED <<mode, lock, cache, snap, attempt, historyVars, boundVars>>

JsonPersist(c) ==
    /\ mode = "json" /\ pc[c] = "mutating" /\ ~LoadsPending
    /\ disk' = Append(snap[c], c)
    /\ SetCache(c, disk')
    /\ Unchain
    /\ Goto(c, "applied")
    /\ UNCHANGED <<mode, lock, snap, attempt, historyVars, boundVars>>

(* Mutated: only a mutation that resolves lets the chain go on.            *)
JsonFail_Stuck(c) ==
    /\ mode = "json" /\ pc[c] = "mutating"
    /\ Goto(c, "idle")
    /\ UNCHANGED <<mode, docVars, snap, attempt, historyVars, boundVars>>

(* The mutator, or the write of the temporary file, throws.                *)
JsonFail(c) ==
    /\ mode = "json" /\ pc[c] = "mutating"
    /\ Unchain
    /\ Goto(c, "idle")
    /\ UNCHANGED <<mode, disk, cache, lock, snap, attempt, historyVars, boundVars>>

(* mutateStore of a JSON store: clone, mutate and write in one go, without *)
(* a look at the chain.                                                    *)
JsonSync(c) ==
    /\ mode = "json" /\ pc[c] = "called"
    /\ SyncOverlap \/ \A d \in Clients : pc[d] \notin {"mutating", "filling"}
    /\ disk' = Append(Cached(c), c)
    /\ SetCache(c, disk')
    /\ Goto(c, "applied")
    /\ UNCHANGED <<mode, lock, chain, snap, attempt, historyVars, boundVars>>

(***************************************************************************)
(* SQLite: BEGIN IMMEDIATE takes the write lock, the document is read from *)
(* the tables, never from the cache.                                       *)
(***************************************************************************)
(* Mutated: the transaction works on the cached document.                  *)
SqliteMutate_FromCache(c) ==
    /\ mode = "sqlite" /\ pc[c] = "called" /\ lock = None
    /\ disk' = Append(Cached(c), c)
    /\ SetCache(c, disk')
    /\ Goto(c, "applied")
    /\ UNCHANGED <<mode, lock, chain, snap, attempt, historyVars, boundVars>>

(* A mutator that returns no promise: from BEGIN to COMMIT without a pause. *)
SqliteMutate(c) ==
    /\ mode = "sqlite" /\ pc[c] = "called" /\ lock = None
    /\ disk' = Append(disk, c)
    /\ SetCache(c, disk')
    /\ Goto(c, "applied")
    /\ UNCHANGED <<mode, lock, chain, snap, attempt, historyVars, boundVars>>

(* A mutator that awaits keeps the transaction open meanwhile.             *)
SqliteBegin(c) ==
    /\ mode = "sqlite" /\ pc[c] = "called" /\ lock = None
    /\ lock' = c
    /\ snap' = [snap EXCEPT ![c] = disk]
    /\ Goto(c, "mutating")
    /\ UNCHANGED <<mode, disk, cache, chain, attempt, historyVars, boundVars>>

SqliteCommit(c) ==
    /\ mode = "sqlite" /\ pc[c] = "mutating"
    /\ disk' = Append(snap[c], c)
    /\ SetCache(c, disk')
    /\ lock' = None
    /\ Goto(c, "applied")
    /\ UNCHANGED <<mode, chain, snap, attempt, historyVars, boundVars>>

(* Mutated: the mutator works on the cached document itself.               *)
SqliteRollback_Leak(c) ==
    /\ mode = "sqlite" /\ pc[c] = "mutating"
    /\ lock' = None
    /\ SetCache(c, Append(snap[c], c))
    /\ Goto(c, "idle")
    /\ UNCHANGED <<mode, disk, chain, snap, attempt, historyVars, boundVars>>

(* The mutator throws, or the rows cannot be written: ROLLBACK.            *)
SqliteRollback(c) ==
    /\ mode = "sqlite" /\ pc[c] = "mutating"
    /\ lock' = None
    /\ Goto(c, "idle")
    /\ UNCHANGED <<mode, disk, cache, chain, snap, attempt, historyVars, boundVars>>

(* A mutator that throws at once, or BEGIN IMMEDIATE that waits for the    *)
(* lock of a mutation of the same process: it blocks the event loop the    *)
(* holder needs to go on, and gives up after busy_timeout.                 *)
SqliteFail(c) ==
    /\ mode = "sqlite" /\ pc[c] = "called"
    /\ Goto(c, "idle")
    /\ UNCHANGED <<mode, docVars, snap, attempt, historyVars, boundVars>>

(* A repository writes its own table (claimNextJob, sweepStaleRunningJobs) *)
(* and drops the cached document one await later.                          *)
SqliteClaim(c) ==
    /\ mode = "sqlite" /\ pc[c] = "called" /\ lock = None
    /\ disk' = Append(disk, c)
    /\ Goto(c, "claimed")
    /\ UNCHANGED <<mode, cache, lock, chain, snap, attempt, historyVars, boundVars>>

SqliteClearCache(c) ==
    /\ pc[c] = "claimed"
    /\ SetCache(c, Uncached)
    /\ Goto(c, "applied")
    /\ UNCHANGED <<mode, disk, lock, chain, snap, attempt, historyVars, boundVars>>

(***************************************************************************)
(* Postgres: an advisory lock and SELECT ... FOR UPDATE for the length of  *)
(* the transaction, and another attempt after an error the server calls    *)
(* transient.                                                              *)
(***************************************************************************)
PostgresBegin(c) ==
    /\ mode = "postgres" /\ pc[c] = "called" /\ lock = None
    /\ lock' = c
    /\ snap' = [snap EXCEPT ![c] = disk]
    /\ Goto(c, "mutating")
    /\ UNCHANGED <<mode, disk, cache, chain, attempt, historyVars, boundVars>>

(* The document is written and, before COMMIT is even sent, cached.        *)
PostgresPersist(c) ==
    /\ mode = "postgres" /\ pc[c] = "mutating"
    /\ SetCache(c, Append(snap[c], c))
    /\ Goto(c, "committing")
    /\ UNCHANGED <<mode, disk, lock, chain, snap, attempt, historyVars, boundVars>>

PostgresCommit(c) ==
    /\ pc[c] = "committing"
    /\ disk' = Append(snap[c], c)
    /\ lock' = None
    /\ Goto(c, "applied")
    /\ UNCHANGED <<mode, cache, chain, snap, attempt, historyVars, boundVars>>

(* The transaction ends without a commit: a retryable error, before the    *)
(* last attempt, runs the whole mutation again.                            *)
PostgresRetry(c) ==
    /\ mode = "postgres" /\ pc[c] \in {"mutating", "committing"}
    /\ attempt[c] < MaxAttempts
    /\ attempt' = [attempt EXCEPT ![c] = @ + 1]
    /\ lock' = None
    /\ Goto(c, "called")
    /\ UNCHANGED <<mode, disk, cache, chain, snap, historyVars, boundVars>>

PostgresFail(c) ==
    /\ mode = "postgres" /\ pc[c] \in {"mutating", "committing"}
    /\ lock' = None
    /\ Goto(c, "idle")
    /\ UNCHANGED <<mode, disk, cache, chain, snap, attempt, historyVars, boundVars>>

(* Mutated: a lost connection is retried as well.                          *)
PostgresLostReply_Retried(c) ==
    /\ mode = "postgres" /\ pc[c] = "applied" /\ attempt[c] < MaxAttempts
    /\ attempt' = [attempt EXCEPT ![c] = @ + 1]
    /\ Goto(c, "called")
    /\ UNCHANGED <<mode, docVars, snap, historyVars, boundVars>>

(* The commit is done, the connection is gone: not an error the retry      *)
(* knows, so the caller is told that the mutation failed.                  *)
PostgresLostReply(c) ==
    /\ mode = "postgres" /\ pc[c] = "applied"
    /\ Goto(c, "idle")
    /\ UNCHANGED <<mode, docVars, snap, attempt, historyVars, boundVars>>

(***************************************************************************)
(* Reads: loadStoreAsync fills an empty cache with what backend.load()     *)
(* gave it, one await later; a cached document is returned as it is.       *)
(***************************************************************************)
LoadStart(c) ==
    /\ pc[c] = "idle" /\ calls < MaxCalls /\ cache[Home(c)] = Uncached
    /\ calls' = calls + 1
    /\ IF mode = "postgres"
         THEN Goto(c, "loading") /\ UNCHANGED snap
         ELSE Goto(c, "filling") /\ snap' = [snap EXCEPT ![c] = disk]
    /\ UNCHANGED <<mode, docVars, attempt, historyVars, crashes>>

PostgresRead(c) ==
    /\ pc[c] = "loading"
    /\ snap' = [snap EXCEPT ![c] = disk]
    /\ Goto(c, "filling")
    /\ UNCHANGED <<mode, docVars, attempt, historyVars, boundVars>>

LoadFill(c) ==
    /\ pc[c] = "filling"
    /\ SetCache(c, snap[c])
    /\ Goto(c, "idle")
    /\ UNCHANGED <<mode, disk, lock, chain, snap, attempt, historyVars, boundVars>>

LoadFail(c) ==
    /\ pc[c] = "loading"
    /\ Goto(c, "idle")
    /\ UNCHANGED <<mode, docVars, snap, attempt, historyVars, boundVars>>

(* loadStore *)
LoadSync(c) ==
    /\ mode # "postgres" /\ pc[c] = "idle" /\ cache[Home(c)] = Uncached
    /\ SetCache(c, disk)
    /\ UNCHANGED <<mode, disk, lock, chain, clientVars, historyVars, boundVars>>

(***************************************************************************)
(* A process dies with its cache and its callers, and is started again;    *)
(* the database ends its transactions.  The JSON file is replaced by an    *)
(* atomic rename, so it is one document or the next.                       *)
(***************************************************************************)
Crash(p) ==
    /\ crashes < MaxCrashes
    /\ crashes' = crashes + 1
    /\ cache' = [cache EXCEPT ![p] = Uncached]
    /\ pc' = [c \in Clients |-> IF Home(c) = p THEN "idle" ELSE pc[c]]
    /\ lock' = IF lock \in ClientsOf(p) THEN None ELSE lock
    /\ chain' = IF p = Main THEN <<>> ELSE chain
    /\ UNCHANGED <<mode, disk, snap, attempt, historyVars, calls>>

JsonStep(c) == JsonSync(c) \/ JsonStart(c) \/ JsonPersist(c) \/ JsonFail(c)
SqliteStep(c) ==
    \/ SqliteMutate(c) \/ SqliteBegin(c) \/ SqliteCommit(c) \/ SqliteRollback(c)
    \/ SqliteFail(c) \/ SqliteClaim(c) \/ SqliteClearCache(c)
PostgresStep(c) ==
    \/ PostgresBegin(c) \/ PostgresPersist(c) \/ PostgresCommit(c) \/ PostgresRetry(c)
    \/ PostgresFail(c) \/ PostgresLostReply(c)
LoadStep(c) == PostgresRead(c) \/ LoadFill(c) \/ LoadFail(c)

Progress(c) == JsonStep(c) \/ SqliteStep(c) \/ PostgresStep(c) \/ LoadStep(c) \/ Return(c)

Next ==
    \/ \E c \in Clients :
         Call(c) \/ LoadStart(c) \/ LoadSync(c) \/ Progress(c)
    \/ \E p \in Processes : Crash(p)

(* The event loop and the database go on with every call, and a mutator    *)
(* that awaits settles; no order between the callers is assumed.           *)
Fairness == \A c \in Clients : WF_vars(Progress(c))

Spec == Init /\ [][Next]_vars
FairSpec == Spec /\ Fairness

(***************************************************************************)
(* Properties                                                              *)
(***************************************************************************)
Phase(c) ==
    CASE pc[c] \in {"called", "chained", "mutating", "committing"} -> "open"
      [] pc[c] \in {"applied", "claimed"} -> "applied"
      [] OTHER -> "idle"

Abstract == INSTANCE AtomicStore WITH phase <- [c \in Clients |-> Phase(c)]

(* Every mutation extends the document all the earlier ones left, once,    *)
(* whatever the backend: none is lost to a cache, to a reader that fills   *)
(* it late, to the await of another mutation, to another process or to a   *)
(* retry, and one that rolls back leaves nothing.                          *)
IsAtomic == Abstract!Spec

(* What that means to a caller: the document carries every mutation it was *)
(* told to be done, and no more than it has called for.                    *)
Places(c) == {i \in 1 .. Len(disk) : disk[i] = c}
Applied(c) == Cardinality(Places(c))

NothingLost == \A c \in Clients : acked[c] <= Applied(c) /\ Applied(c) <= called[c]

IsPrefixOf(s, t) == Len(s) <= Len(t) /\ \A i \in 1 .. Len(s) : s[i] = t[i]

(* Under JSON, where a mutation bases itself on the cache, the cache is    *)
(* the committed document: a load cannot put an older one back.            *)
JsonCacheCurrent == mode = "json" => cache[Main] \in {Uncached, disk}

(* Under JSON and SQLite a process never reads what was rolled back: its   *)
(* cache was once the committed document.                                  *)
CacheWasCommitted == mode # "postgres" =>
    \A p \in Processes : cache[p] # Uncached => IsPrefixOf(cache[p], disk)

(* Every call of the store ends: the chain goes on after a rejection, a    *)
(* lock is always given back, retries end.                                 *)
CallsEnd == \A c \in Clients : pc[c] # "idle" ~> pc[c] = "idle"
================================================================================
