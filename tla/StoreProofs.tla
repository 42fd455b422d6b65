------------------------------- MODULE StoreProofs -------------------------------
(***************************************************************************)
(* Store implements AtomicStore, for any callers, processes, attempts and  *)
(* crashes, as long as no synchronous JSON mutation overlaps an            *)
(* asynchronous one (~SyncOverlap).                                        *)
(***************************************************************************)
EXTENDS Store, FiniteSetTheorems, TLAPS

(* Which control states belong to which backend.                           *)
Modal ==
    /\ \A c \in Clients : pc[c] = "chained" => mode = "json"
    /\ \A c \in Clients : pc[c] = "claimed" => mode = "sqlite"
    /\ \A c \in Clients : pc[c] \in {"committing", "loading"} => mode = "postgres"

(* The running mutation is the first on the chain, and based on what is    *)
(* committed; a load that is under way has read what is committed.         *)
JsonCurrent == mode = "json" =>
    /\ JsonCacheCurrent
    /\ \A c \in Clients : pc[c] \in {"mutating", "filling"} => snap[c] = disk
    /\ \A c \in Clients : pc[c] = "mutating" => chain # <<>> /\ chain[1] = c
    /\ \A c \in Clients : pc[c] = "chained" => \E i \in 1 .. Len(chain) : chain[i] = c

(* A database transaction works under the lock, on what is committed.      *)
Locked == mode # "json" =>
    \A c \in Clients : pc[c] \in {"mutating", "committing"} => lock = c /\ snap[c] = disk

(* A load of SQLite carries a document that was committed.                 *)
LoadsCommitted == mode # "postgres" =>
    \A c \in Clients : pc[c] = "filling" => IsPrefixOf(snap[c], disk)

Inv ==
    /\ TypeOK /\ Modal /\ JsonCurrent /\ Locked
    /\ CacheWasCommitted /\ LoadsCommitted

---------------------------------------------------------------------------
LEMMA UncachedIsNoDocument == Uncached \notin Documents
<1> SUFFICES ASSUME Uncached \in Documents PROVE FALSE
  OBVIOUS
<1>1. Uncached[1] \in Clients
  BY DEF Documents, Uncached
<1> QED
  BY <1>1, ClientsAssumption DEF Uncached

LEMMA PrefixOfItself == \A d \in Documents : IsPrefixOf(d, d)
BY DEF Documents, IsPrefixOf

LEMMA PrefixGrows ==
  ASSUME NEW d \in Documents, NEW e \in Documents, NEW c \in Clients, IsPrefixOf(d, e)
  PROVE  Append(e, c) \in Documents /\ IsPrefixOf(d, Append(e, c))
BY DEF Documents, IsPrefixOf

LEMMA HomeIsProcess == \A c \in Clients : Home(c) \in Processes
BY ClientsAssumption DEF Home

LEMMA CachedIsDocument ==
  ASSUME TypeOK, NEW c \in Clients PROVE Cached(c) \in Documents
BY HomeIsProcess, UncachedIsNoDocument DEF TypeOK, Cached

LEMMA CachedIsCurrent ==
  ASSUME Inv, mode = "json", NEW c \in Clients PROVE Cached(c) = disk /\ Home(c) = Main
BY DEF Inv, JsonCurrent, JsonCacheCurrent, Cached, Home

---------------------------------------------------------------------------
(* What is the same for all the actions that neither commit nor base       *)
(* themselves on anything.                                                 *)
LEMMA InitInv == Init => Inv
<1> SUFFICES ASSUME Init PROVE Inv
  OBVIOUS
<1>1. <<>> \in Documents /\ <<>> \in Seq(Clients)
  BY DEF Documents
<1>2. TypeOK
  BY <1>1 DEF Init, TypeOK, PCs
<1>3. Modal /\ JsonCurrent /\ Locked /\ CacheWasCommitted /\ LoadsCommitted
  BY ClientsAssumption DEF Init, Modal, JsonCurrent, JsonCacheCurrent, Locked, CacheWasCommitted,
     LoadsCommitted
<1> QED
  BY <1>2, <1>3 DEF Inv

LEMMA StutterInv ==
  ASSUME Inv, UNCHANGED vars PROVE Inv'
BY DEF Inv, TypeOK, Modal, JsonCurrent, JsonCacheCurrent, Locked, CacheWasCommitted,
   LoadsCommitted, vars, docVars, clientVars, historyVars, boundVars, IsPrefixOf

(* A client moves to a state of which the invariant says nothing.          *)
LEMMA QuietInv ==
  ASSUME Inv, NEW c \in Clients, NEW l \in {"idle", "called", "applied"}, Goto(c, l),
         attempt' \in [Clients -> Nat], called' \in [Clients -> Nat],
         acked' \in [Clients -> Nat], calls' \in Nat, crashes' \in Nat,
         pc[c] \notin {"chained", "mutating", "committing"},
         UNCHANGED <<mode, docVars, snap>>
  PROVE  Inv'
<1>1. pc' \in [Clients -> PCs] /\ pc'[c] = l /\ \A d \in Clients : d # c => pc'[d] = pc[d]
  BY DEF Inv, TypeOK, Goto, PCs
<1>2. disk' = disk /\ cache' = cache /\ lock' = lock /\ chain' = chain /\ snap' = snap
      /\ mode' = mode
  BY DEF docVars
<1>3. TypeOK'
  BY <1>1, <1>2 DEF Inv, TypeOK
<1>4. Modal'
  BY <1>1, <1>2 DEF Inv, Modal
<1>5. JsonCurrent'
  <2>1. \A d \in Clients : pc'[d] \in {"mutating", "filling", "chained"} => pc'[d] = pc[d]
    BY <1>1
  <2> QED
    BY <1>2, <2>1 DEF Inv, JsonCurrent, JsonCacheCurrent
<1>6. Locked'
  BY <1>1, <1>2 DEF Inv, Locked
<1>7. CacheWasCommitted'
  BY <1>2 DEF Inv, CacheWasCommitted, IsPrefixOf
<1>8. LoadsCommitted'
  <2>1. LoadsCommitted
    BY DEF Inv
  <2> QED
    BY <1>1, <1>2, <2>1 DEF LoadsCommitted, IsPrefixOf
<1> QED
  BY <1>3, <1>4, <1>5, <1>6, <1>7, <1>8 DEF Inv

LEMMA CallInv ==
  ASSUME Inv, NEW c \in Clients, Call(c) PROVE Inv'
<1>1. /\ attempt' \in [Clients -> Nat] /\ called' \in [Clients -> Nat]
      /\ calls' \in Nat /\ acked' \in [Clients -> Nat] /\ crashes' \in Nat
  BY DEF Inv, TypeOK, Call
<1>2. CASE Goto(c, "called") /\ UNCHANGED chain
  BY <1>1, <1>2, QuietInv DEF Call, docVars
<1>3. CASE mode = "json" /\ Goto(c, "chained") /\ chain' = Append(chain, c)
  <2>1. /\ pc' \in [Clients -> PCs] /\ pc'[c] = "chained"
        /\ \A d \in Clients : d # c => pc'[d] = pc[d]
    BY <1>3 DEF Inv, TypeOK, Goto, PCs
  <2>2. disk' = disk /\ cache' = cache /\ lock' = lock /\ snap' = snap /\ mode' = mode
    BY DEF Call
  <2>3. /\ chain \in Seq(Clients) /\ chain' \in Seq(Clients) /\ Len(chain') = Len(chain) + 1
        /\ chain'[Len(chain) + 1] = c /\ \A i \in 1 .. Len(chain) : chain'[i] = chain[i]
    BY <1>3 DEF Inv, TypeOK
  <2>4. TypeOK'
    BY <1>1, <2>1, <2>2, <2>3 DEF Inv, TypeOK
  <2>5. Modal'
    BY <1>3, <2>1, <2>2 DEF Inv, Modal
  <2>6. JsonCurrent'
    <3>1. ASSUME NEW d \in Clients, pc'[d] = "mutating"
          PROVE  chain' # <<>> /\ chain'[1] = d
      BY <1>3, <2>1, <2>3, <3>1 DEF Inv, JsonCurrent
    <3>2. ASSUME NEW d \in Clients, pc'[d] = "chained"
          PROVE  \E i \in 1 .. Len(chain') : chain'[i] = d
      <4>1. CASE d = c
        BY <2>3, <4>1
      <4>2. CASE d # c
        BY <1>3, <2>1, <2>3, <3>2, <4>2 DEF Inv, JsonCurrent
      <4> QED
        BY <4>1, <4>2
    <3> QED
      BY <1>3, <2>1, <2>2, <3>1, <3>2 DEF Inv, JsonCurrent, JsonCacheCurrent
  <2>7. Locked' /\ CacheWasCommitted' /\ LoadsCommitted'
    BY <1>3, <2>1, <2>2 DEF Inv, Locked, CacheWasCommitted, LoadsCommitted, IsPrefixOf
  <2> QED
    BY <2>4, <2>5, <2>6, <2>7 DEF Inv
<1> QED
  BY <1>2, <1>3 DEF Call

(* The first of the chain is done and leaves it.                           *)
LEMMA UnchainIs ==
  ASSUME Inv, mode = "json", NEW c \in Clients, pc[c] = "mutating", Unchain
  PROVE  /\ chain' \in Seq(Clients)
         /\ \A d \in Clients : d # c => pc[d] # "mutating"
         /\ \A d \in Clients : pc[d] = "chained" => \E i \in 1 .. Len(chain') : chain'[i] = d
<1>1. chain \in Seq(Clients) /\ chain # <<>> /\ chain[1] = c
  BY DEF Inv, TypeOK, JsonCurrent
<1>2. /\ chain' \in Seq(Clients) /\ Len(chain') = Len(chain) - 1
      /\ \A i \in 1 .. Len(chain') : chain'[i] = chain[i + 1]
  BY <1>1 DEF Unchain
<1>3. ASSUME NEW d \in Clients, d # c PROVE pc[d] # "mutating"
  BY <1>1, <1>3 DEF Inv, JsonCurrent
<1>4. ASSUME NEW d \in Clients, pc[d] = "chained"
      PROVE  \E i \in 1 .. Len(chain') : chain'[i] = d
  <2>1. PICK i \in 1 .. Len(chain) : chain[i] = d
    BY <1>4 DEF Inv, JsonCurrent
  <2>2. i # 1
    BY <1>1, <1>4, <2>1
  <2>3. i - 1 \in 1 .. Len(chain') /\ chain'[i - 1] = chain[(i - 1) + 1]
    BY <1>1, <1>2, <2>2
  <2>4. (i - 1) + 1 = i
    OBVIOUS
  <2> QED
    BY <2>1, <2>3, <2>4
<1> QED
  BY <1>2, <1>3, <1>4

LEMMA GotoIs ==
  ASSUME TypeOK, NEW c \in Clients, NEW l \in PCs, Goto(c, l)
  PROVE  /\ pc' \in [Clients -> PCs] /\ pc'[c] = l
         /\ \A d \in Clients : d # c => pc'[d] = pc[d]
BY DEF TypeOK, Goto

LEMMA SetCacheIs ==
  ASSUME TypeOK, NEW c \in Clients, NEW doc \in Documents \union {Uncached}, SetCache(c, doc)
  PROVE  /\ cache' \in [Processes -> Documents \union {Uncached}] /\ cache'[Home(c)] = doc
         /\ \A p \in Processes : p # Home(c) => cache'[p] = cache[p]
BY HomeIsProcess DEF TypeOK, SetCache

(* Whatever was committed, stays so when another mutation is.              *)
LEMMA CommittedGrows ==
  ASSUME Inv, NEW c \in Clients, disk' = Append(disk, c), mode' = mode
  PROVE  /\ disk' \in Documents /\ IsPrefixOf(disk', disk')
         /\ \A d \in Documents : IsPrefixOf(d, disk) => IsPrefixOf(d, disk')
BY PrefixGrows, PrefixOfItself DEF Inv, TypeOK

LEMMA JsonStartInv ==
  ASSUME Inv, NEW c \in Clients, JsonStart(c) PROVE Inv'
<1>1. mode = "json" /\ pc[c] = "chained" /\ Cached(c) = disk /\ Home(c) = Main
      /\ chain \in Seq(Clients) /\ disk \in Documents
  BY CachedIsCurrent DEF Inv, TypeOK, JsonStart
<1>2. /\ mode' = mode /\ disk' = disk /\ lock' = lock /\ chain' = chain /\ attempt' = attempt
      /\ called' = called /\ acked' = acked /\ calls' = calls /\ crashes' = crashes
      /\ Goto(c, "mutating") /\ SetCache(c, disk) /\ snap' = [snap EXCEPT ![c] = disk]
  BY <1>1 DEF JsonStart, historyVars, boundVars
<1>3. /\ pc' \in [Clients -> PCs] /\ pc'[c] = "mutating"
      /\ \A d \in Clients : d # c => pc'[d] = pc[d]
  BY <1>2, GotoIs DEF Inv, PCs
<1>4. /\ cache' \in [Processes -> Documents \union {Uncached}] /\ cache'[Main] = disk
      /\ \A p \in Processes : p # Main => cache'[p] = cache[p]
  BY <1>1, <1>2, SetCacheIs DEF Inv
<1>5. chain # <<>> /\ chain[1] = c
  <2>1. \E i \in 1 .. Len(chain) : chain[i] = c
    BY <1>1 DEF Inv, JsonCurrent
  <2>2. chain # <<>> /\ Head(chain) = c
    BY <2>1, <1>1 DEF JsonStart
  <2> QED
    BY <1>1, <2>2
<1>6. snap' \in [Clients -> Documents] /\ snap'[c] = disk
      /\ \A d \in Clients : d # c => snap'[d] = snap[d]
  BY <1>1, <1>2 DEF Inv, TypeOK
<1>7. TypeOK'
  BY <1>2, <1>3, <1>4, <1>6 DEF Inv, TypeOK
<1>8. Modal'
  BY <1>1, <1>2, <1>3 DEF Inv, Modal
<1>9. JsonCurrent'
  <2>1. JsonCacheCurrent'
    BY <1>2, <1>4 DEF JsonCacheCurrent
  <2>2. ASSUME NEW d \in Clients, pc'[d] \in {"mutating", "filling"} PROVE snap'[d] = disk
    BY <1>1, <1>3, <1>6, <2>2 DEF Inv, JsonCurrent
  <2>3. ASSUME NEW d \in Clients, pc'[d] = "mutating" PROVE chain[1] = d
    BY <1>1, <1>3, <1>5, <2>3 DEF Inv, JsonCurrent
  <2>4. ASSUME NEW d \in Clients, pc'[d] = "chained"
        PROVE  \E i \in 1 .. Len(chain) : chain[i] = d
    BY <1>1, <1>3, <2>4 DEF Inv, JsonCurrent
  <2> QED
    BY <1>2, <1>5, <2>1, <2>2, <2>3, <2>4 DEF JsonCurrent
<1>10. Locked'
  BY <1>1, <1>2 DEF Locked
<1>11. CacheWasCommitted'
  BY <1>1, <1>2, <1>4, PrefixOfItself DEF Inv, CacheWasCommitted
<1>12. LoadsCommitted'
  BY <1>1, <1>2, <1>3, <1>6 DEF Inv, LoadsCommitted
<1> QED
  BY <1>7, <1>8, <1>9, <1>10, <1>11, <1>12 DEF Inv

(* A mutation of the JSON file is written: the running one of the chain,   *)
(* or a synchronous one between two others.                                *)
LEMMA JsonWriteInv ==
  ASSUME Inv, mode = "json", NEW c \in Clients, Goto(c, "applied"),
         disk' = Append(disk, c), SetCache(c, disk'), chain' \in Seq(Clients),
         UNCHANGED <<mode, lock, snap, attempt, historyVars, boundVars>>,
         \A d \in Clients : d # c => pc[d] \notin {"mutating", "filling"},
         \A d \in Clients : d # c /\ pc[d] = "chained" =>
             \E i \in 1 .. Len(chain') : chain'[i] = d
  PROVE  Inv'
<1>1. /\ mode' = mode /\ lock' = lock /\ snap' = snap /\ attempt' = attempt
      /\ called' = called /\ acked' = acked /\ calls' = calls /\ crashes' = crashes
  BY DEF historyVars, boundVars
<1>2. /\ disk' \in Documents /\ IsPrefixOf(disk', disk')
      /\ \A d \in Documents : IsPrefixOf(d, disk) => IsPrefixOf(d, disk')
  BY <1>1, CommittedGrows
<1>3. /\ pc' \in [Clients -> PCs] /\ pc'[c] = "applied"
      /\ \A d \in Clients : d # c => pc'[d] = pc[d]
  BY GotoIs DEF Inv, PCs
<1>4. /\ cache' \in [Processes -> Documents \union {Uncached}] /\ cache'[Main] = disk'
      /\ \A p \in Processes : p # Main => cache'[p] = cache[p]
  <2>1. Home(c) = Main
    BY CachedIsCurrent
  <2>2. cache' = [cache EXCEPT ![Main] = disk'] /\ Main \in Processes
    BY <2>1, HomeIsProcess DEF SetCache
  <2> QED
    BY <1>2, <2>2 DEF Inv, TypeOK
<1>5. TypeOK'
  BY <1>1, <1>2, <1>3, <1>4 DEF Inv, TypeOK
<1>6. Modal'
  BY <1>1, <1>3 DEF Inv, Modal
<1>7. JsonCurrent'
  <2>1. JsonCacheCurrent'
    BY <1>4 DEF JsonCacheCurrent
  <2>2. \A d \in Clients : pc'[d] \notin {"mutating", "filling"}
    BY <1>3
  <2>3. \A d \in Clients : pc'[d] = "chained" => \E i \in 1 .. Len(chain') : chain'[i] = d
    BY <1>3
  <2> QED
    BY <2>1, <2>2, <2>3 DEF JsonCurrent
<1>8. Locked'
  BY <1>1 DEF Locked
<1>9. CacheWasCommitted'
  <2> SUFFICES ASSUME NEW p \in Processes, cache'[p] # Uncached
               PROVE  IsPrefixOf(cache'[p], disk')
    BY DEF CacheWasCommitted
  <2>1. CASE p = Main
    BY <1>2, <1>4, <2>1
  <2>2. CASE p # Main
    <3>1. cache[p] \in Documents /\ IsPrefixOf(cache[p], disk) /\ cache'[p] = cache[p]
      BY <1>4, <2>2 DEF Inv, TypeOK, CacheWasCommitted
    <3> QED
      BY <1>2, <3>1
  <2> QED
    BY <2>1, <2>2
<1>10. LoadsCommitted'
  <2>1. \A d \in Clients : pc'[d] # "filling"
    BY <1>3
  <2> QED
    BY <2>1 DEF LoadsCommitted
<1> QED
  BY <1>5, <1>6, <1>7, <1>8, <1>9, <1>10 DEF Inv

LEMMA JsonPersistInv ==
  ASSUME Inv, NEW c \in Clients, JsonPersist(c) PROVE Inv'
<1>1. mode = "json" /\ pc[c] = "mutating" /\ snap[c] = disk /\ \A d \in Clients : pc[d] # "filling"
  BY DEF Inv, JsonCurrent, JsonPersist, LoadsPending
<1>2. /\ Goto(c, "applied") /\ disk' = Append(disk, c) /\ SetCache(c, disk')
      /\ UNCHANGED <<mode, lock, snap, attempt, historyVars, boundVars>> /\ Unchain
  BY <1>1 DEF JsonPersist
<1>3. /\ chain' \in Seq(Clients)
      /\ \A d \in Clients : d # c => pc[d] # "mutating"
      /\ \A d \in Clients : pc[d] = "chained" => \E i \in 1 .. Len(chain') : chain'[i] = d
  BY <1>1, <1>2, UnchainIs
<1> QED
  BY <1>1, <1>2, <1>3, JsonWriteInv

LEMMA JsonSyncInv ==
  ASSUME ~SyncOverlap, Inv, NEW c \in Clients, JsonSync(c) PROVE Inv'
<1>1. mode = "json" /\ Cached(c) = disk
      /\ \A d \in Clients : pc[d] \notin {"mutating", "filling"}
  BY CachedIsCurrent DEF JsonSync
<1>2. /\ Goto(c, "applied") /\ disk' = Append(disk, c) /\ SetCache(c, disk')
      /\ UNCHANGED <<mode, lock, snap, attempt, historyVars, boundVars>> /\ chain' = chain
  BY <1>1 DEF JsonSync
<1>3. /\ chain' \in Seq(Clients)
      /\ \A d \in Clients : pc[d] = "chained" => \E i \in 1 .. Len(chain') : chain'[i] = d
  BY <1>1, <1>2 DEF Inv, TypeOK, JsonCurrent
<1> QED
  BY <1>1, <1>2, <1>3, JsonWriteInv

LEMMA JsonFailInv ==
  ASSUME Inv, NEW c \in Clients, JsonFail(c) PROVE Inv'
<1>1. mode = "json" /\ pc[c] = "mutating" /\ Unchain /\ Goto(c, "idle")
  BY DEF JsonFail
<1>2. /\ mode' = mode /\ disk' = disk /\ cache' = cache /\ lock' = lock /\ snap' = snap
      /\ attempt' = attempt /\ called' = called /\ acked' = acked /\ calls' = calls
      /\ crashes' = crashes
  BY DEF JsonFail, historyVars, boundVars
<1>3. /\ chain' \in Seq(Clients)
      /\ \A d \in Clients : d # c => pc[d] # "mutating"
      /\ \A d \in Clients : pc[d] = "chained" => \E i \in 1 .. Len(chain') : chain'[i] = d
  BY <1>1, UnchainIs
<1>4. /\ pc' \in [Clients -> PCs] /\ pc'[c] = "idle"
      /\ \A d \in Clients : d # c => pc'[d] = pc[d]
  BY <1>1, GotoIs DEF Inv, PCs
<1>5. TypeOK'
  BY <1>2, <1>3, <1>4 DEF Inv, TypeOK
<1>6. Modal'
  BY <1>2, <1>4 DEF Inv, Modal
<1>7. JsonCurrent'
  <2>1. \A d \in Clients : pc'[d] # "mutating"
    BY <1>3, <1>4
  <2>2. \A d \in Clients : pc'[d] = "filling" => snap'[d] = disk'
    BY <1>1, <1>2, <1>4 DEF Inv, JsonCurrent
  <2>3. \A d \in Clients : pc'[d] = "chained" => \E i \in 1 .. Len(chain') : chain'[i] = d
    BY <1>3, <1>4
  <2> QED
    BY <1>1, <1>2, <2>1, <2>2, <2>3 DEF Inv, JsonCurrent, JsonCacheCurrent
<1>8. Locked'
  BY <1>1, <1>2 DEF Locked
<1>9. CacheWasCommitted'
  BY <1>1, <1>2 DEF Inv, CacheWasCommitted
<1>10. LoadsCommitted'
  BY <1>1, <1>2, <1>4 DEF Inv, LoadsCommitted
<1> QED
  BY <1>5, <1>6, <1>7, <1>8, <1>9, <1>10 DEF Inv

---------------------------------------------------------------------------
(* A commit of SQLite: the new document extends the committed one while    *)
(* nobody else works on it; the cache is that document or what it was.     *)
LEMMA SqliteWriteInv ==
  ASSUME Inv, mode = "sqlite", NEW c \in Clients, NEW l \in {"applied", "claimed"}, Goto(c, l),
         disk' = Append(disk, c), SetCache(c, disk') \/ cache' = cache,
         lock' = None, lock \in {None, c},
         UNCHANGED <<mode, chain, snap, attempt, historyVars, boundVars>>
  PROVE  Inv'
<1>1. /\ mode' = mode /\ chain' = chain /\ snap' = snap /\ attempt' = attempt
      /\ called' = called /\ acked' = acked /\ calls' = calls /\ crashes' = crashes
  BY DEF historyVars, boundVars
<1>2. /\ disk' \in Documents /\ IsPrefixOf(disk', disk')
      /\ \A d \in Documents : IsPrefixOf(d, disk) => IsPrefixOf(d, disk')
  BY <1>1, CommittedGrows
<1>3. /\ pc' \in [Clients -> PCs] /\ pc'[c] = l
      /\ \A d \in Clients : d # c => pc'[d] = pc[d]
  BY GotoIs DEF Inv, PCs
<1>4. /\ cache' \in [Processes -> Documents \union {Uncached}]
      /\ \A p \in Processes : cache'[p] \in {cache[p], disk'}
  BY <1>2, HomeIsProcess DEF Inv, TypeOK, SetCache
<1>5. TypeOK'
  BY <1>1, <1>2, <1>3, <1>4 DEF Inv, TypeOK
<1>6. Modal'
  BY <1>1, <1>3 DEF Inv, Modal
<1>7. JsonCurrent'
  BY <1>1 DEF JsonCurrent
<1>8. Locked'
  <2>1. ASSUME NEW d \in Clients, d # c PROVE pc[d] \notin {"mutating", "committing"}
    BY <2>1, ClientsAssumption DEF Inv, Locked
  <2> QED
    BY <1>3, <2>1 DEF Locked
<1>9. CacheWasCommitted'
  <2> SUFFICES ASSUME NEW p \in Processes, cache'[p] # Uncached
               PROVE  IsPrefixOf(cache'[p], disk')
    BY DEF CacheWasCommitted
  <2>1. CASE cache'[p] = disk'
    BY <1>2, <2>1
  <2>2. CASE cache'[p] = cache[p]
    <3>1. cache[p] \in Documents /\ IsPrefixOf(cache[p], disk)
      BY <2>2 DEF Inv, TypeOK, CacheWasCommitted
    <3> QED
      BY <1>2, <2>2, <3>1
  <2> QED
    BY <1>4, <2>1, <2>2
<1>10. LoadsCommitted'
  <2> SUFFICES ASSUME NEW d \in Clients, pc'[d] = "filling" PROVE IsPrefixOf(snap'[d], disk')
    BY DEF LoadsCommitted
  <2>1. snap[d] \in Documents /\ IsPrefixOf(snap[d], disk)
    BY <1>3 DEF Inv, TypeOK, LoadsCommitted
  <2> QED
    BY <1>1, <1>2, <2>1
<1> QED
  BY <1>5, <1>6, <1>7, <1>8, <1>9, <1>10 DEF Inv

LEMMA SqliteCommitsInv ==
  ASSUME Inv, NEW c \in Clients, SqliteMutate(c) \/ SqliteCommit(c) \/ SqliteClaim(c)
  PROVE  Inv'
<1>1. CASE SqliteMutate(c)
  BY <1>1, SqliteWriteInv DEF SqliteMutate
<1>2. CASE SqliteCommit(c)
  <2>1. snap[c] = disk /\ lock = c
    BY <1>2 DEF SqliteCommit, Inv, Locked
  <2> QED
    BY <1>2, <2>1, SqliteWriteInv DEF SqliteCommit
<1>3. CASE SqliteClaim(c)
  BY <1>3, SqliteWriteInv DEF SqliteClaim
<1> QED
  BY <1>1, <1>2, <1>3

(* BEGIN, on either database, takes the lock and reads what is committed.  *)
LEMMA BeginInv ==
  ASSUME Inv, NEW c \in Clients, SqliteBegin(c) \/ PostgresBegin(c)
  PROVE  Inv'
<1>1. /\ mode # "json" /\ pc[c] = "called" /\ lock = None /\ lock' = c
      /\ snap' = [snap EXCEPT ![c] = disk] /\ Goto(c, "mutating")
  BY DEF SqliteBegin, PostgresBegin
<1>2. /\ mode' = mode /\ disk' = disk /\ cache' = cache /\ chain' = chain
      /\ attempt' = attempt /\ called' = called /\ acked' = acked /\ calls' = calls
      /\ crashes' = crashes
  BY DEF SqliteBegin, PostgresBegin, historyVars, boundVars
<1>3. /\ pc' \in [Clients -> PCs] /\ pc'[c] = "mutating"
      /\ \A d \in Clients : d # c => pc'[d] = pc[d]
  BY <1>1, GotoIs DEF Inv, PCs
<1>4. snap' \in [Clients -> Documents] /\ snap'[c] = disk
      /\ \A d \in Clients : d # c => snap'[d] = snap[d]
  BY <1>1 DEF Inv, TypeOK
<1>5. TypeOK'
  BY <1>1, <1>2, <1>3, <1>4 DEF Inv, TypeOK
<1>6. Modal'
  BY <1>2, <1>3 DEF Inv, Modal
<1>7. JsonCurrent'
  BY <1>1, <1>2 DEF JsonCurrent
<1>8. Locked'
  <2>1. ASSUME NEW d \in Clients PROVE pc[d] \notin {"mutating", "committing"}
    BY <1>1, ClientsAssumption DEF Inv, Locked
  <2> QED
    BY <1>1, <1>2, <1>3, <1>4, <2>1 DEF Locked
<1>9. CacheWasCommitted'
  BY <1>2 DEF Inv, CacheWasCommitted
<1>10. LoadsCommitted'
  BY <1>2, <1>3, <1>4 DEF Inv, LoadsCommitted
<1> QED
  BY <1>5, <1>6, <1>7, <1>8, <1>9, <1>10 DEF Inv

(* A transaction that ends without a commit leaves nothing but its cache,  *)
(* and that only under Postgres.                                           *)
LEMMA AbandonInv ==
  ASSUME Inv, NEW c \in Clients, SqliteRollback(c) \/ PostgresRetry(c) \/ PostgresFail(c)
  PROVE  Inv'
<1>1. /\ mode # "json" /\ lock' = None /\ pc[c] \in {"mutating", "committing"}
  BY DEF SqliteRollback, PostgresRetry, PostgresFail
<1>2. attempt' \in [Clients -> Nat]
  <2>1. attempt \in [Clients -> Nat]
    BY DEF Inv, TypeOK
  <2>2. attempt' = attempt \/ attempt' = [attempt EXCEPT ![c] = attempt[c] + 1]
    BY DEF SqliteRollback, PostgresRetry, PostgresFail
  <2> QED
    BY <2>1, <2>2
<1>3. /\ mode' = mode /\ disk' = disk /\ cache' = cache /\ chain' = chain /\ snap' = snap
      /\ called' = called /\ acked' = acked /\ calls' = calls /\ crashes' = crashes
  BY DEF SqliteRollback, PostgresRetry, PostgresFail, historyVars, boundVars
<1>4. PICK l \in {"idle", "called"} : Goto(c, l)
  BY DEF SqliteRollback, PostgresRetry, PostgresFail
<1>5. /\ pc' \in [Clients -> PCs] /\ pc'[c] = l
      /\ \A d \in Clients : d # c => pc'[d] = pc[d]
  BY <1>4, GotoIs DEF Inv, PCs
<1>6. TypeOK'
  BY <1>1, <1>3, <1>5, <1>2 DEF Inv, TypeOK
<1>7. Modal'
  BY <1>3, <1>5 DEF Inv, Modal
<1>8. JsonCurrent'
  BY <1>1, <1>3 DEF JsonCurrent
<1>9. Locked'
  <2>1. ASSUME NEW d \in Clients, d # c PROVE pc[d] \notin {"mutating", "committing"}
    BY <1>1, <2>1 DEF Inv, Locked
  <2> QED
    BY <1>5, <2>1 DEF Locked
<1>10. CacheWasCommitted'
  BY <1>3 DEF Inv, CacheWasCommitted
<1>11. LoadsCommitted'
  BY <1>3, <1>5 DEF Inv, LoadsCommitted
<1> QED
  BY <1>6, <1>7, <1>8, <1>9, <1>10, <1>11 DEF Inv

LEMMA PostgresPersistInv ==
  ASSUME Inv, NEW c \in Clients, PostgresPersist(c) PROVE Inv'
<1>1. /\ mode = "postgres" /\ pc[c] = "mutating" /\ Goto(c, "committing")
      /\ snap[c] = disk /\ lock = c /\ SetCache(c, Append(disk, c))
  BY DEF PostgresPersist, Inv, Locked
<1>2. /\ mode' = mode /\ disk' = disk /\ lock' = lock /\ chain' = chain /\ snap' = snap
      /\ attempt' = attempt /\ called' = called /\ acked' = acked /\ calls' = calls
      /\ crashes' = crashes
  BY DEF PostgresPersist, historyVars, boundVars
<1>3. /\ pc' \in [Clients -> PCs] /\ pc'[c] = "committing"
      /\ \A d \in Clients : d # c => pc'[d] = pc[d]
  BY <1>1, GotoIs DEF Inv, PCs
<1>4. cache' \in [Processes -> Documents \union {Uncached}]
  <2>1. Append(disk, c) \in Documents
    BY DEF Inv, TypeOK, Documents
  <2> QED
    BY <1>1, <2>1, SetCacheIs DEF Inv
<1>5. TypeOK'
  BY <1>2, <1>3, <1>4 DEF Inv, TypeOK
<1>6. Modal'
  BY <1>1, <1>2, <1>3 DEF Inv, Modal
<1>7. JsonCurrent' /\ CacheWasCommitted' /\ LoadsCommitted'
  BY <1>1, <1>2 DEF JsonCurrent, CacheWasCommitted, LoadsCommitted
<1>8. Locked'
  BY <1>1, <1>2, <1>3 DEF Inv, Locked
<1> QED
  BY <1>5, <1>6, <1>7, <1>8 DEF Inv

LEMMA PostgresCommitInv ==
  ASSUME Inv, NEW c \in Clients, PostgresCommit(c) PROVE Inv'
<1>1. /\ mode = "postgres" /\ Goto(c, "applied") /\ lock' = None
      /\ snap[c] = disk /\ lock = c /\ disk' = Append(disk, c)
  BY DEF PostgresCommit, Inv, Modal, Locked
<1>2. /\ mode' = mode /\ cache' = cache /\ chain' = chain /\ snap' = snap
      /\ attempt' = attempt /\ called' = called /\ acked' = acked /\ calls' = calls
      /\ crashes' = crashes
  BY DEF PostgresCommit, historyVars, boundVars
<1>3. /\ pc' \in [Clients -> PCs] /\ pc'[c] = "applied"
      /\ \A d \in Clients : d # c => pc'[d] = pc[d]
  BY <1>1, GotoIs DEF Inv, PCs
<1>4. disk' \in Documents
  BY <1>1 DEF Inv, TypeOK, Documents
<1>5. TypeOK'
  BY <1>1, <1>2, <1>3, <1>4 DEF Inv, TypeOK
<1>6. Modal'
  BY <1>2, <1>3 DEF Inv, Modal
<1>7. JsonCurrent' /\ CacheWasCommitted' /\ LoadsCommitted'
  BY <1>1, <1>2 DEF JsonCurrent, CacheWasCommitted, LoadsCommitted
<1>8. Locked'
  <2>1. ASSUME NEW d \in Clients, d # c PROVE pc[d] \notin {"mutating", "committing"}
    BY <1>1, <2>1 DEF Inv, Locked
  <2> QED
    BY <1>3, <2>1 DEF Locked
<1> QED
  BY <1>5, <1>6, <1>7, <1>8 DEF Inv

---------------------------------------------------------------------------
(* A cache is dropped, or filled with something that was committed; under  *)
(* JSON, with what is committed.                                           *)
LEMMA FillInv ==
  ASSUME Inv, NEW c \in Clients, NEW doc \in Documents \union {Uncached}, SetCache(c, doc),
         Goto(c, "idle") \/ Goto(c, "applied") \/ pc' = pc,
         pc[c] \notin {"chained", "mutating", "committing"},
         mode = "json" => doc \in {disk, Uncached},
         mode = "sqlite" /\ doc # Uncached => IsPrefixOf(doc, disk),
         UNCHANGED <<mode, disk, lock, chain, snap, attempt, historyVars, boundVars>>
  PROVE  Inv'
<1>1. /\ mode' = mode /\ disk' = disk /\ lock' = lock /\ chain' = chain /\ snap' = snap
      /\ attempt' = attempt /\ called' = called /\ acked' = acked /\ calls' = calls
      /\ crashes' = crashes
  BY DEF historyVars, boundVars
<1>2. /\ pc' \in [Clients -> PCs]
      /\ \A d \in Clients : pc'[d] = pc[d] \/ (d = c /\ pc'[d] \in {"idle", "applied"})
  BY GotoIs DEF Inv, TypeOK, PCs
<1>3. /\ cache' \in [Processes -> Documents \union {Uncached}] /\ cache'[Home(c)] = doc
      /\ \A p \in Processes : p # Home(c) => cache'[p] = cache[p]
  BY SetCacheIs DEF Inv
<1>4. TypeOK'
  BY <1>1, <1>2, <1>3 DEF Inv, TypeOK
<1>5. Modal'
  BY <1>1, <1>2 DEF Inv, Modal
<1>6. JsonCurrent'
  <2> SUFFICES ASSUME mode = "json" PROVE JsonCurrent'
    BY <1>1 DEF JsonCurrent
  <2>1. JsonCacheCurrent'
    BY <1>1, <1>3, CachedIsCurrent DEF JsonCacheCurrent
  <2>2. \A d \in Clients : pc'[d] \in {"mutating", "filling", "chained"} => pc'[d] = pc[d]
    BY <1>2
  <2> QED
    BY <1>1, <2>1, <2>2 DEF Inv, JsonCurrent
<1>7. Locked'
  BY <1>1, <1>2 DEF Inv, Locked
<1>8. CacheWasCommitted'
  <2> SUFFICES ASSUME mode # "postgres", NEW p \in Processes, cache'[p] # Uncached
               PROVE  IsPrefixOf(cache'[p], disk)
    BY <1>1 DEF CacheWasCommitted
  <2>1. mode \in {"json", "sqlite"} /\ disk \in Documents
    BY ModesAssumption DEF Inv, TypeOK
  <2>2. CASE p = Home(c)
    BY <1>3, <2>1, <2>2, PrefixOfItself
  <2>3. CASE p # Home(c)
    BY <1>3, <2>3 DEF Inv, CacheWasCommitted
  <2> QED
    BY <2>2, <2>3
<1>9. LoadsCommitted'
  BY <1>1, <1>2 DEF Inv, LoadsCommitted
<1> QED
  BY <1>4, <1>5, <1>6, <1>7, <1>8, <1>9 DEF Inv

LEMMA CacheInv ==
  ASSUME Inv, NEW c \in Clients, SqliteClearCache(c) \/ LoadFill(c) \/ LoadSync(c)
  PROVE  Inv'
<1>1. disk \in Documents /\ snap[c] \in Documents /\ IsPrefixOf(disk, disk)
  BY PrefixOfItself DEF Inv, TypeOK
<1>2. CASE SqliteClearCache(c)
  <2>1. SetCache(c, Uncached) /\ Goto(c, "applied") /\ pc[c] = "claimed" /\ mode = "sqlite"
    BY <1>2 DEF SqliteClearCache, Inv, Modal
  <2>2. UNCHANGED <<mode, disk, lock, chain, snap, attempt, historyVars, boundVars>>
    BY <1>2 DEF SqliteClearCache
  <2> QED
    BY <2>1, <2>2, FillInv
<1>3. CASE LoadFill(c)
  <2>1. SetCache(c, snap[c]) /\ Goto(c, "idle") /\ pc[c] = "filling"
    BY <1>3 DEF LoadFill
  <2>2. UNCHANGED <<mode, disk, lock, chain, snap, attempt, historyVars, boundVars>>
    BY <1>3 DEF LoadFill
  <2>3. mode = "json" => snap[c] = disk
    BY <2>1 DEF Inv, JsonCurrent
  <2>4. mode = "sqlite" => IsPrefixOf(snap[c], disk)
    BY <2>1 DEF Inv, LoadsCommitted
  <2> QED
    BY <1>1, <2>1, <2>2, <2>3, <2>4, FillInv
<1>4. CASE LoadSync(c)
  <2>1. SetCache(c, disk) /\ pc' = pc /\ pc[c] = "idle"
    BY <1>4 DEF LoadSync, clientVars
  <2>2. UNCHANGED <<mode, disk, lock, chain, snap, attempt, historyVars, boundVars>>
    BY <1>4 DEF LoadSync, clientVars
  <2> QED
    BY <1>1, <2>1, <2>2, FillInv
<1> QED
  BY <1>2, <1>3, <1>4

(* A load reads what is committed.                                         *)
LEMMA ReadInv ==
  ASSUME Inv, NEW c \in Clients, LoadStart(c) \/ PostgresRead(c)
  PROVE  Inv'
<1>1. CASE LoadStart(c) /\ mode = "postgres"
  <2>1. /\ pc' \in [Clients -> PCs] /\ pc'[c] = "loading"
        /\ \A d \in Clients : d # c => pc'[d] = pc[d]
    BY <1>1, GotoIs DEF Inv, PCs, LoadStart
  <2>2. /\ mode' = mode /\ disk' = disk /\ cache' = cache /\ lock' = lock /\ chain' = chain
        /\ snap' = snap /\ attempt' = attempt /\ called' = called /\ acked' = acked
        /\ calls' \in Nat /\ crashes' = crashes
    BY <1>1 DEF LoadStart, docVars, historyVars, Inv, TypeOK
  <2>3. TypeOK'
    BY <2>1, <2>2 DEF Inv, TypeOK
  <2>4. Modal' /\ JsonCurrent' /\ CacheWasCommitted' /\ LoadsCommitted'
    BY <1>1, <2>1, <2>2 DEF Inv, Modal, JsonCurrent, CacheWasCommitted, LoadsCommitted
  <2>5. Locked'
    BY <2>1, <2>2 DEF Inv, Locked
  <2> QED
    BY <2>3, <2>4, <2>5 DEF Inv
<1>2. CASE ~(LoadStart(c) /\ mode = "postgres")
  <2>1. /\ Goto(c, "filling") /\ snap' = [snap EXCEPT ![c] = disk]
        /\ pc[c] \in {"idle", "loading"} /\ calls' \in Nat
        /\ mode' = mode /\ disk' = disk /\ cache' = cache /\ lock' = lock /\ chain' = chain
        /\ attempt' = attempt /\ called' = called /\ acked' = acked /\ crashes' = crashes
    BY <1>2 DEF LoadStart, PostgresRead, docVars, historyVars, boundVars, Inv, TypeOK
  <2>2. /\ pc' \in [Clients -> PCs] /\ pc'[c] = "filling"
        /\ \A d \in Clients : d # c => pc'[d] = pc[d]
    BY <2>1, GotoIs DEF Inv, PCs
  <2>3. /\ snap' \in [Clients -> Documents] /\ snap'[c] = disk /\ disk \in Documents
        /\ \A d \in Clients : d # c => snap'[d] = snap[d]
    BY <2>1 DEF Inv, TypeOK
  <2>4. TypeOK'
    BY <2>1, <2>2, <2>3 DEF Inv, TypeOK
  <2>5. Modal'
    BY <2>1, <2>2 DEF Inv, Modal
  <2>6. JsonCurrent'
    <3> SUFFICES ASSUME mode = "json" PROVE JsonCurrent'
      BY <2>1 DEF JsonCurrent
    <3>1. JsonCacheCurrent'
      BY <2>1 DEF Inv, JsonCurrent, JsonCacheCurrent
    <3>2. ASSUME NEW d \in Clients, pc'[d] \in {"mutating", "filling"} PROVE snap'[d] = disk
      BY <2>2, <2>3, <3>2 DEF Inv, JsonCurrent
    <3> QED
      BY <2>1, <2>2, <3>1, <3>2 DEF Inv, JsonCurrent
  <2>7. Locked'
    BY <2>1, <2>2, <2>3 DEF Inv, Locked
  <2>8. CacheWasCommitted'
    BY <2>1 DEF Inv, CacheWasCommitted
  <2>9. LoadsCommitted'
    BY <2>1, <2>2, <2>3, PrefixOfItself DEF Inv, LoadsCommitted
  <2> QED
    BY <2>4, <2>5, <2>6, <2>7, <2>8, <2>9 DEF Inv
<1> QED
  BY <1>1, <1>2

(* What a crash leaves of the lock and of the chain.                       *)
LEMMA CrashInv ==
  ASSUME Inv, NEW p \in Processes, Crash(p) PROVE Inv'
<1>1. /\ mode' = mode /\ disk' = disk /\ snap' = snap /\ attempt' = attempt
      /\ called' = called /\ acked' = acked /\ calls' = calls /\ crashes' = crashes + 1
      /\ cache' = [cache EXCEPT ![p] = Uncached]
      /\ pc' = [c \in Clients |-> IF Home(c) = p THEN "idle" ELSE pc[c]]
      /\ lock' = IF lock \in ClientsOf(p) THEN None ELSE lock
      /\ chain' = IF p = Main THEN <<>> ELSE chain
  BY DEF Crash, historyVars
<1>2. /\ pc' \in [Clients -> PCs]
      /\ \A c \in Clients : pc'[c] = "idle" \/ (pc'[c] = pc[c] /\ Home(c) # p)
  BY <1>1 DEF Inv, TypeOK, PCs
<1>3. /\ cache' \in [Processes -> Documents \union {Uncached}]
      /\ \A q \in Processes : cache'[q] \in {cache[q], Uncached}
  BY <1>1 DEF Inv, TypeOK
<1>4. TypeOK'
  BY <1>1, <1>2, <1>3 DEF Inv, TypeOK
<1>5. Modal'
  BY <1>1, <1>2 DEF Inv, Modal
<1>6. JsonCurrent'
  <2> SUFFICES ASSUME mode = "json" PROVE JsonCurrent'
    BY <1>1 DEF JsonCurrent
  <2>1. JsonCacheCurrent'
    BY <1>1, <1>3, ClientsAssumption DEF Inv, JsonCurrent, JsonCacheCurrent
  <2>2. CASE p = Main
    <3>1. \A c \in Clients : pc'[c] = "idle"
      BY <1>2, <2>2 DEF Home
    <3> QED
      BY <2>1, <3>1 DEF JsonCurrent
  <2>3. CASE p # Main
    BY <1>1, <1>2, <2>1, <2>3 DEF Inv, JsonCurrent
  <2> QED
    BY <2>2, <2>3
<1>7. Locked'
  BY <1>1, <1>2 DEF Inv, Locked, ClientsOf
<1>8. CacheWasCommitted' /\ LoadsCommitted'
  BY <1>1, <1>2, <1>3 DEF Inv, CacheWasCommitted, LoadsCommitted
<1> QED
  BY <1>4, <1>5, <1>6, <1>7, <1>8 DEF Inv

LEMMA QuietStepsInv ==
  ASSUME Inv, NEW c \in Clients,
         Return(c) \/ SqliteFail(c) \/ PostgresLostReply(c) \/ LoadFail(c)
  PROVE  Inv'
<1>1. /\ pc[c] \notin {"chained", "mutating", "committing"} /\ attempt' = attempt
      /\ called' = called /\ calls' = calls /\ crashes' = crashes
      /\ UNCHANGED <<mode, docVars, snap>>
  BY DEF Return, SqliteFail, PostgresLostReply, LoadFail, historyVars, boundVars
<1>2. Goto(c, "idle")
  BY DEF Return, SqliteFail, PostgresLostReply, LoadFail
<1>3. acked' \in [Clients -> Nat]
  <2>1. acked \in [Clients -> Nat]
    BY DEF Inv, TypeOK
  <2>2. acked' = acked \/ acked' = [acked EXCEPT ![c] = acked[c] + 1]
    BY DEF Return, SqliteFail, PostgresLostReply, LoadFail, historyVars
  <2> QED
    BY <2>1, <2>2
<1>4. /\ attempt \in [Clients -> Nat] /\ called \in [Clients -> Nat]
      /\ calls \in Nat /\ crashes \in Nat
  BY DEF Inv, TypeOK
<1> QED
  BY <1>1, <1>2, <1>3, <1>4, QuietInv

LEMMA StepInv ==
  ASSUME ~SyncOverlap, Inv, [Next]_vars PROVE Inv'
<1>1. CASE UNCHANGED vars
  BY <1>1, StutterInv
<1>2. ASSUME NEW c \in Clients, Call(c) \/ LoadStart(c) \/ LoadSync(c) \/ Progress(c)
      PROVE  Inv'
  <2>1. CASE JsonStep(c)
    BY <2>1, JsonSyncInv, JsonStartInv, JsonPersistInv, JsonFailInv DEF JsonStep
  <2>2. CASE SqliteStep(c)
    BY <2>2, SqliteCommitsInv, BeginInv, AbandonInv, QuietStepsInv, CacheInv DEF SqliteStep
  <2>3. CASE PostgresStep(c)
    BY <2>3, BeginInv, PostgresPersistInv, PostgresCommitInv, AbandonInv, QuietStepsInv
       DEF PostgresStep
  <2>4. CASE LoadStep(c)
    BY <2>4, ReadInv, CacheInv, QuietStepsInv DEF LoadStep
  <2>5. CASE Call(c) \/ LoadStart(c) \/ LoadSync(c) \/ Return(c)
    BY <2>5, CallInv, ReadInv, CacheInv, QuietStepsInv
  <2> QED
    BY <1>2, <2>1, <2>2, <2>3, <2>4, <2>5 DEF Progress
<1>3. ASSUME NEW p \in Processes, Crash(p) PROVE Inv'
  BY <1>3, CrashInv
<1> QED
  BY <1>1, <1>2, <1>3 DEF Next

(* The invariant holds in every behaviour.                                 *)
THEOREM Invariance == ASSUME ~SyncOverlap PROVE Spec => []Inv
<1>1. Init => Inv
  BY InitInv
<1>2. Inv /\ [Next]_vars => Inv'
  BY StepInv
<1> QED
  BY <1>1, <1>2, PTL DEF Spec

(* Every variable keeps its type, for any callers and processes.           *)
THEOREM TypeCorrect == ASSUME ~SyncOverlap PROVE Spec => []TypeOK
<1>1. Inv => TypeOK
  BY DEF Inv
<1> QED
  BY <1>1, Invariance, PTL

(* Under JSON the cache is never an older document than the committed one. *)
THEOREM JsonCache == ASSUME ~SyncOverlap PROVE Spec => []JsonCacheCurrent
<1>1. Inv => JsonCacheCurrent
  BY DEF Inv, JsonCurrent, JsonCacheCurrent
<1> QED
  BY <1>1, Invariance, PTL

(* Under JSON and SQLite what a process reads was once committed.          *)
THEOREM CacheCommitted == ASSUME ~SyncOverlap PROVE Spec => []CacheWasCommitted
<1>1. Inv => CacheWasCommitted
  BY DEF Inv
<1> QED
  BY <1>1, Invariance, PTL

---------------------------------------------------------------------------
(* The refinement: what a step of a client is to the caller.               *)
---------------------------------------------------------------------------
Phases == [c \in Clients |-> Phase(c)]

PhaseAt(l) ==
    CASE l \in {"called", "chained", "mutating", "committing"} -> "open"
      [] l \in {"applied", "claimed"} -> "applied"
      [] OTHER -> "idle"

LEMMA PhaseMoves ==
  ASSUME TypeOK, NEW c \in Clients, NEW l \in PCs, Goto(c, l)
  PROVE  Phases' = [Phases EXCEPT ![c] = PhaseAt(l)] /\ Phases[c] = PhaseAt(pc[c])
<1>1. /\ pc' \in [Clients -> PCs] /\ pc'[c] = l
      /\ \A d \in Clients : d # c => pc'[d] = pc[d]
  BY GotoIs
<1>2. ASSUME NEW d \in Clients PROVE Phases'[d] = [Phases EXCEPT ![c] = PhaseAt(l)][d]
  BY <1>1 DEF Phases, Phase, PhaseAt
<1> QED
  BY <1>2 DEF Phases, Phase, PhaseAt

LEMMA PhasesAre ==
  /\ PhaseAt("idle") = "idle" /\ PhaseAt("called") = "open" /\ PhaseAt("chained") = "open"
  /\ PhaseAt("mutating") = "open" /\ PhaseAt("committing") = "open"
  /\ PhaseAt("applied") = "applied" /\ PhaseAt("claimed") = "applied"
  /\ PhaseAt("loading") = "idle" /\ PhaseAt("filling") = "idle"
BY DEF PhaseAt

LEMMA MapApply ==
  ASSUME TypeOK, NEW c \in Clients, NEW l \in {"applied", "claimed"}, Goto(c, l),
         pc[c] \in {"called", "mutating", "committing"}, disk' = Append(disk, c),
         UNCHANGED historyVars
  PROVE  Abstract!Apply(c)
<1>1. Phases' = [Phases EXCEPT ![c] = "applied"] /\ Phases[c] = "open"
  <2>1. l \in PCs /\ PhaseAt(l) = "applied" /\ PhaseAt(pc[c]) = "open"
    BY PhasesAre DEF PCs
  <2> QED
    BY <2>1, PhaseMoves
<1> QED
  BY <1>1 DEF Abstract!Apply, Phases, historyVars

LEMMA MapFail ==
  ASSUME TypeOK, NEW c \in Clients, Goto(c, "idle"),
         pc[c] \in {"called", "mutating", "committing", "applied"}, disk' = disk,
         UNCHANGED historyVars
  PROVE  Abstract!Fail(c)
<1>1. Phases' = [Phases EXCEPT ![c] = "idle"] /\ Phases[c] \in {"open", "applied"}
  <2>1. "idle" \in PCs /\ PhaseAt("idle") = "idle" /\ PhaseAt(pc[c]) \in {"open", "applied"}
    BY PhasesAre DEF PCs
  <2> QED
    BY <2>1, PhaseMoves
<1> QED
  BY <1>1 DEF Abstract!Fail, Phases, historyVars

LEMMA MapStutter ==
  ASSUME TypeOK, NEW c \in Clients, NEW l \in PCs, Goto(c, l), PhaseAt(l) = PhaseAt(pc[c]),
         disk' = disk, UNCHANGED historyVars
  PROVE  UNCHANGED Abstract!vars
<1>1. Phases' = Phases
  <2>1. Phases' = [Phases EXCEPT ![c] = PhaseAt(l)] /\ Phases[c] = PhaseAt(l)
    BY PhaseMoves
  <2> QED
    BY <2>1 DEF Phases
<1> QED
  BY <1>1 DEF Abstract!vars, Phases, historyVars

LEMMA MapQuiet ==
  ASSUME disk' = disk, pc' = pc, UNCHANGED historyVars PROVE UNCHANGED Abstract!vars
BY DEF Abstract!vars, Phase, historyVars

LEMMA MapCall ==
  ASSUME TypeOK, NEW c \in Clients, Call(c) PROVE Abstract!Call(c)
<1>1. PICK l \in {"called", "chained"} : Goto(c, l)
  BY DEF Call
<1>2. Phases' = [Phases EXCEPT ![c] = "open"] /\ Phases[c] = "idle"
  <2>1. l \in PCs /\ PhaseAt(l) = "open" /\ PhaseAt(pc[c]) = "idle"
    BY PhasesAre DEF PCs, Call
  <2> QED
    BY <1>1, <2>1, PhaseMoves
<1>3. called' = [called EXCEPT ![c] = @ + 1] /\ disk' = disk /\ acked' = acked
  BY DEF Call
<1> QED
  BY <1>2, <1>3 DEF Abstract!Call, Phases

LEMMA MapReturn ==
  ASSUME TypeOK, NEW c \in Clients, Return(c) PROVE Abstract!Return(c)
<1>1. Phases' = [Phases EXCEPT ![c] = "idle"] /\ Phases[c] = "applied"
  <2>1. "idle" \in PCs /\ PhaseAt("idle") = "idle" /\ PhaseAt(pc[c]) = "applied" /\ Goto(c, "idle")
    BY PhasesAre DEF PCs, Return
  <2> QED
    BY <2>1, PhaseMoves
<1>2. acked' = [acked EXCEPT ![c] = @ + 1] /\ disk' = disk /\ called' = called
  BY DEF Return, docVars
<1> QED
  BY <1>1, <1>2 DEF Abstract!Return, Phases

LEMMA MapCrash ==
  ASSUME TypeOK, NEW p \in Processes, Crash(p) PROVE Abstract!Vanish(ClientsOf(p))
<1>1. Phases' = [c \in Clients |-> IF c \in ClientsOf(p) THEN "idle" ELSE Phases[c]]
  <2>1. mode' = mode /\ pc' = [c \in Clients |-> IF Home(c) = p THEN "idle" ELSE pc[c]]
    BY DEF Crash
  <2>2. ASSUME NEW c \in Clients
        PROVE  Phases'[c] = IF c \in ClientsOf(p) THEN "idle" ELSE Phases[c]
    BY <2>1 DEF Phases, Phase, ClientsOf
  <2> QED
    BY <2>2 DEF Phases
<1>2. disk' = disk /\ called' = called /\ acked' = acked
  BY DEF Crash, historyVars
<1> QED
  BY <1>1, <1>2 DEF Abstract!Vanish, Phases

(* What a mutation is based on is what is committed.                       *)
LEMMA BasedOnCommitted ==
  ASSUME Inv, NEW c \in Clients, pc[c] \in {"mutating", "committing"} PROVE snap[c] = disk
BY DEF Inv, Modal, JsonCurrent, Locked

LEMMA MapProgress ==
  ASSUME ~SyncOverlap, Inv, NEW c \in Clients, Progress(c)
  PROVE  Abstract!Next \/ UNCHANGED Abstract!vars
<1>1. TypeOK
  BY DEF Inv
<1>2. CASE \/ JsonSync(c) \/ JsonPersist(c) \/ SqliteMutate(c) \/ SqliteCommit(c) \/ SqliteClaim(c)
           \/ PostgresCommit(c)
  <2>1. pc[c] \in {"called", "mutating", "committing"} /\ UNCHANGED historyVars
    BY <1>2 DEF JsonSync, JsonPersist, SqliteMutate, SqliteCommit, SqliteClaim, PostgresCommit
  <2>2. disk' = Append(disk, c)
    BY <1>2, BasedOnCommitted, CachedIsCurrent
       DEF JsonSync, JsonPersist, SqliteMutate, SqliteCommit, SqliteClaim, PostgresCommit
  <2>3. PICK l \in {"applied", "claimed"} : Goto(c, l)
    BY <1>2 DEF JsonSync, JsonPersist, SqliteMutate, SqliteCommit, SqliteClaim, PostgresCommit
  <2>4. Abstract!Apply(c)
    BY <1>1, <2>1, <2>2, <2>3, MapApply
  <2> QED
    BY <2>4 DEF Abstract!Next
<1>3. CASE \/ JsonFail(c) \/ SqliteRollback(c) \/ SqliteFail(c) \/ PostgresFail(c)
           \/ PostgresLostReply(c)
  <2>1. /\ pc[c] \in {"called", "mutating", "committing", "applied"} /\ Goto(c, "idle")
        /\ disk' = disk /\ UNCHANGED historyVars
    BY <1>3 DEF JsonFail, SqliteRollback, SqliteFail, PostgresFail, PostgresLostReply, docVars
  <2>2. Abstract!Fail(c)
    BY <1>1, <2>1, MapFail
  <2> QED
    BY <2>2 DEF Abstract!Next
<1>4. CASE \/ JsonStart(c) \/ SqliteBegin(c) \/ PostgresBegin(c) \/ PostgresPersist(c)
           \/ PostgresRetry(c)
  <2>1. disk' = disk /\ UNCHANGED historyVars /\ PhaseAt(pc[c]) = "open"
    BY <1>4, PhasesAre DEF JsonStart, SqliteBegin, PostgresBegin, PostgresPersist, PostgresRetry
  <2>2. PICK l \in {"mutating", "committing", "called"} : Goto(c, l)
    BY <1>4 DEF JsonStart, SqliteBegin, PostgresBegin, PostgresPersist, PostgresRetry
  <2>3. l \in PCs /\ PhaseAt(l) = "open"
    BY PhasesAre DEF PCs
  <2> QED
    BY <1>1, <2>1, <2>2, <2>3, MapStutter
<1>5. CASE SqliteClearCache(c)
  <2>1. disk' = disk /\ UNCHANGED historyVars /\ PhaseAt(pc[c]) = PhaseAt("applied")
        /\ Goto(c, "applied") /\ "applied" \in PCs
    BY <1>5, PhasesAre DEF SqliteClearCache, PCs
  <2> QED
    BY <1>1, <2>1, MapStutter
<1>6. CASE LoadStep(c)
  <2>1. disk' = disk /\ UNCHANGED historyVars /\ PhaseAt(pc[c]) = "idle"
    BY <1>6, PhasesAre DEF LoadStep, PostgresRead, LoadFill, LoadFail, docVars
  <2>2. PICK l \in {"filling", "idle"} : Goto(c, l)
    BY <1>6 DEF LoadStep, PostgresRead, LoadFill, LoadFail
  <2>3. l \in PCs /\ PhaseAt(l) = "idle"
    BY PhasesAre DEF PCs
  <2> QED
    BY <1>1, <2>1, <2>2, <2>3, MapStutter
<1>7. CASE Return(c)
  BY <1>1, <1>7, MapReturn DEF Abstract!Next
<1> QED
  BY <1>2, <1>3, <1>4, <1>5, <1>6, <1>7 DEF Progress, JsonStep, SqliteStep, PostgresStep

LEMMA MapStep ==
  ASSUME ~SyncOverlap, Inv, [Next]_vars
  PROVE  [Abstract!Next]_(Abstract!vars)
<1>1. TypeOK
  BY DEF Inv
<1>2. CASE UNCHANGED vars
  BY <1>2, MapQuiet DEF vars, docVars, clientVars, historyVars
<1>3. ASSUME NEW c \in Clients, Call(c) \/ LoadStart(c) \/ LoadSync(c) \/ Progress(c)
      PROVE  Abstract!Next \/ UNCHANGED Abstract!vars
  <2>1. CASE Call(c)
    BY <1>1, <2>1, MapCall DEF Abstract!Next
  <2>2. CASE LoadStart(c)
    <3>1. disk' = disk /\ UNCHANGED historyVars /\ PhaseAt(pc[c]) = "idle"
      BY <2>2, PhasesAre DEF LoadStart, docVars
    <3>2. PICK l \in {"filling", "loading"} : Goto(c, l)
      BY <2>2 DEF LoadStart
    <3>3. l \in PCs /\ PhaseAt(l) = "idle"
      BY PhasesAre DEF PCs
    <3> QED
      BY <1>1, <3>1, <3>2, <3>3, MapStutter
  <2>3. CASE LoadSync(c)
    BY <2>3, MapQuiet DEF LoadSync, clientVars
  <2>4. CASE Progress(c)
    BY <2>4, MapProgress
  <2> QED
    BY <1>3, <2>1, <2>2, <2>3, <2>4
<1>4. ASSUME NEW p \in Processes, Crash(p) PROVE Abstract!Next
  <2>1. ClientsOf(p) \in SUBSET Clients
    BY DEF ClientsOf
  <2> QED
    BY <1>1, <1>4, <2>1, MapCrash DEF Abstract!Next
<1> QED
  BY <1>2, <1>3, <1>4 DEF Next

(* Store implements AtomicStore: on every backend, through caches, awaits, *)
(* retries, lost replies and crashes, a mutation is one step on the newest *)
(* document.                                                               *)
THEOREM Refinement == ASSUME ~SyncOverlap PROVE Spec => IsAtomic
<1>1. Init => Abstract!Init
  BY DEF Init, Abstract!Init, Phase
<1>2. Inv /\ [Next]_vars => [Abstract!Next]_(Abstract!vars)
  BY MapStep
<1>3. Spec => []Inv
  BY Invariance
<1> QED
  BY <1>1, <1>2, <1>3, PTL DEF Spec, IsAtomic, Abstract!Spec

---------------------------------------------------------------------------
(* What an atomic store means to its callers.  A call that is open has     *)
(* been called for and is not in the document; one that is applied is in   *)
(* it and not acknowledged.                                                *)
Tally(c) ==
    /\ acked[c] <= Applied(c) /\ Applied(c) <= called[c]
    /\ Phase(c) = "applied" => acked[c] < Applied(c)
    /\ Phase(c) = "open" => Applied(c) < called[c]

LEMMA AppliedFinite ==
  ASSUME NEW c \in Clients, disk \in Seq(Clients)
  PROVE  IsFiniteSet(Places(c)) /\ Applied(c) \in Nat
<1>1. Len(disk) \in Nat
  OBVIOUS
<1>2. IsFiniteSet(1 .. Len(disk))
  BY <1>1, FS_Interval
<1>3. Places(c) \subseteq 1 .. Len(disk)
  BY DEF Places
<1>4. IsFiniteSet(Places(c))
  BY <1>2, <1>3, FS_Subset
<1> QED
  BY <1>4, FS_CardinalityType DEF Applied

(* A mutation appended to the document is one more of its caller's.        *)
LEMMA AppendApplied ==
  ASSUME NEW c \in Clients, NEW d \in Clients, disk \in Seq(Clients), disk' = Append(disk, c)
  PROVE  Applied(d)' = Applied(d) + (IF d = c THEN 1 ELSE 0)
<1>1. /\ Len(disk) \in Nat /\ Len(disk') = Len(disk) + 1 /\ disk'[Len(disk) + 1] = c
      /\ \A i \in 1 .. Len(disk) : disk'[i] = disk[i]
  OBVIOUS
<1>2. CASE d = c
  <2>1. Places(d)' = Places(d) \union {Len(disk) + 1}
    BY <1>1, <1>2 DEF Places
  <2>2. Len(disk) + 1 \notin Places(d)
    BY <1>1 DEF Places
  <2> QED
    BY <1>2, <2>1, <2>2, AppliedFinite, FS_AddElement DEF Applied
<1>3. CASE d # c
  <2>1. Places(d)' = Places(d)
    BY <1>1, <1>3 DEF Places
  <2> QED
    BY <1>3, <2>1, AppliedFinite DEF Applied
<1> QED
  BY <1>2, <1>3

LEMMA TallyStep ==
  ASSUME TypeOK, \A c \in Clients : Tally(c), [Abstract!Next]_(Abstract!vars), NEW d \in Clients
  PROVE  Tally(d)'
<1>1. /\ disk \in Seq(Clients) /\ acked \in [Clients -> Nat] /\ called \in [Clients -> Nat]
      /\ Applied(d) \in Nat /\ Tally(d)
  BY AppliedFinite DEF TypeOK, Documents
<1>2. /\ [c \in Clients |-> Phase(c)][d] = Phase(d)
      /\ [c \in Clients |-> Phase(c)]'[d] = Phase(d)'
  OBVIOUS
<1>3. ASSUME disk' = disk PROVE Applied(d)' = Applied(d)
  BY <1>3 DEF Applied, Places
<1>4. ASSUME NEW c \in Clients, Abstract!Call(c) \/ Abstract!Return(c) \/ Abstract!Fail(c)
      PROVE  Tally(d)'
  <2>1. CASE d # c
    <3>1. Phase(d)' = Phase(d) /\ called'[d] = called[d] /\ acked'[d] = acked[d] /\ disk' = disk
      BY <1>1, <1>2, <1>4, <2>1 DEF Abstract!Call, Abstract!Return, Abstract!Fail
    <3> QED
      BY <1>1, <1>3, <3>1 DEF Tally
  <2>2. CASE d = c
    <3>1. CASE Abstract!Call(c)
      <4>1. /\ Phase(d)' = "open" /\ disk' = disk /\ acked'[d] = acked[d]
            /\ called'[d] = called[d] + 1
        BY <1>1, <1>2, <2>2, <3>1 DEF Abstract!Call
      <4> QED
        BY <1>1, <1>3, <4>1 DEF Tally
    <3>2. CASE Abstract!Return(c)
      <4>1. /\ Phase(d) = "applied" /\ Phase(d)' = "idle" /\ disk' = disk
            /\ acked'[d] = acked[d] + 1 /\ called'[d] = called[d]
        BY <1>1, <1>2, <2>2, <3>2 DEF Abstract!Return
      <4> QED
        BY <1>1, <1>3, <4>1 DEF Tally
    <3>3. CASE Abstract!Fail(c)
      <4>1. Phase(d)' = "idle" /\ disk' = disk /\ acked'[d] = acked[d] /\ called'[d] = called[d]
        BY <1>1, <1>2, <2>2, <3>3 DEF Abstract!Fail
      <4> QED
        BY <1>1, <1>3, <4>1 DEF Tally
    <3> QED
      BY <1>4, <3>1, <3>2, <3>3
  <2> QED
    BY <2>1, <2>2
<1>5. ASSUME NEW c \in Clients, Abstract!Apply(c) PROVE Tally(d)'
  <2>1. Applied(d)' = Applied(d) + (IF d = c THEN 1 ELSE 0)
    BY <1>1, <1>5, AppendApplied DEF Abstract!Apply
  <2>2. /\ acked'[d] = acked[d] /\ called'[d] = called[d]
        /\ IF d = c THEN Phase(d) = "open" /\ Phase(d)' = "applied" ELSE Phase(d)' = Phase(d)
    BY <1>1, <1>2, <1>5 DEF Abstract!Apply
  <2> QED
    BY <1>1, <2>1, <2>2 DEF Tally
<1>6. ASSUME NEW S \in SUBSET Clients, Abstract!Vanish(S) PROVE Tally(d)'
  BY <1>1, <1>2, <1>3, <1>6 DEF Abstract!Vanish, Tally
<1>7. CASE UNCHANGED Abstract!vars
  BY <1>1, <1>2, <1>3, <1>7 DEF Abstract!vars, Tally
<1> QED
  BY <1>4, <1>5, <1>6, <1>7 DEF Abstract!Next

(* No backend loses a mutation it has acknowledged: not to a cache, an     *)
(* overlapping mutation, another process, a lost reply or a crash.         *)
THEOREM NothingIsLost == ASSUME ~SyncOverlap PROVE Spec => []NothingLost
<1> DEFINE Tallied == \A c \in Clients : Tally(c)
<1>1. Init => Tallied
  <2> SUFFICES ASSUME Init, NEW c \in Clients PROVE Tally(c)
    OBVIOUS
  <2>1. Places(c) = {}
    BY DEF Init, Places
  <2>2. Applied(c) = 0
    BY <2>1, FS_EmptySet DEF Applied
  <2> QED
    BY <2>2 DEF Init, Tally, Phase
<1>2. Inv /\ Tallied /\ [Next]_vars => Tallied'
  BY MapStep, TallyStep DEF Inv
<1>3. Tallied => NothingLost
  BY DEF Tally, NothingLost
<1> QED
  BY <1>1, <1>2, <1>3, Invariance, PTL DEF Spec
==================================================================================
