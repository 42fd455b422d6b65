------------------------------ MODULE OutboxProofs ------------------------------
(***************************************************************************)
(* What holds of the journal and of the notification outbox for every      *)
(* number of events, readers, executions, attempts and faults.             *)
(*                                                                         *)
(* The invariant of the journal rests on one observation: whatever deletes *)
(* an event appends its tombstone in the same transaction, so the newest   *)
(* event is always retained, and the numbers of the events have no gaps.   *)
(***************************************************************************)
EXTENDS Outbox, FiniteSetTheorems, TLAPS

(* The newest event is retained, and events are numbered without gaps.     *)
Newest == appended > 0 => appended \in present
Numbered == \A i \in 1 .. appended : sequence[i] = i

(* Only tombstones are of another event.                                   *)
Traced == \A i \in 1 .. appended : kind[i] \notin Tombstones => of[i] = 0

(* A reader asks for what follows its cursor, an event it has received.    *)
Positioned == \A s \in Sessions :
    /\ received[s] \subseteq 1 .. appended
    /\ cursor[s] \in 0 .. appended
    /\ after[s] \in {NotListing, cursor[s]}

JournalInv ==
    /\ JournalTypeOK /\ Newest /\ Numbered /\ Traced /\ Positioned
    /\ NothingMissed /\ Accounted

ItemTyped ==
    /\ routed \in BOOLEAN
    /\ status \in {"none"} \union Pending \union Settled
    /\ attemptCount \in 0 .. MaxAttempts
    /\ waiting \in BOOLEAN /\ outdated \in BOOLEAN
    /\ source \in 0 .. MaxEvents /\ cycle \in 0 .. MaxCycles
    /\ keyOf \in [Events -> RedriveKeys \union {"none"}]

JobsTyped ==
    /\ jobStatus \in [Cycles -> {"none", "queued", "running", "success", "failed"}]
    /\ jobAttempts \in [Cycles -> Nat]

ExecutionsTyped ==
    /\ pc \in [Executions -> PC] /\ job \in [Executions -> 0 .. MaxCycles]
    /\ claimed \in [Executions -> Nat]
    /\ attempt \in [Executions -> Nat]

HistoryTyped ==
    /\ made \in [Cycles -> Nat] /\ slow \in Nat /\ faults \in 0 .. MaxFaults

OutboxTyped == ItemTyped /\ JobsTyped /\ ExecutionsTyped /\ HistoryTyped

(* There is an item from the first cycle on, and jobs for its cycles only. *)
Started ==
    /\ status = "none" <=> cycle = 0
    /\ \A j \in Cycles : jobStatus[j] # "none" => j <= cycle
    /\ \A x \in Executions : pc[x] # "idle" => job[x] \in 1 .. cycle /\ claimed[x] > 0

(* The attempts of the item are those made in its cycle.                   *)
Counted ==
    /\ cycle = 0 => attemptCount = 0
    /\ \A j \in Cycles : /\ j = cycle => made[j] = attemptCount
                         /\ j > cycle => made[j] = 0
                         /\ made[j] <= MaxAttempts

Keyed == /\ RedrivesOnce
         /\ \A i \in Events : i > appended => keyOf[i] = "none"

OutboxInv == OutboxTyped /\ Started /\ Counted /\ Keyed /\ SourceRetained

Inv == JournalInv /\ OutboxInv

USE EventsAssumption, AttemptsAssumption, KeysAssumption, BoundsAssumption

---------------------------------------------------------------------------
(* The journal                                                             *)

(* The next number is that of the newest event and one.                    *)
LEMMA NextSequenceIs == ASSUME JournalInv PROVE NextSequence(present) = appended + 1
<1> DEFINE S == {sequence[i] : i \in present} \union {0}
<1>1. appended \in Nat /\ present \subseteq 1 .. appended
  BY DEF JournalInv, JournalTypeOK
<1>2. appended \in S /\ \A y \in S : y \in Nat /\ appended >= y
  BY <1>1 DEF JournalInv, Numbered, Newest
<1> HIDE DEF S
<1>3. \E x \in S : \A y \in S : x >= y
  BY <1>2
<1>4. Max(S) = appended
  <2>1. PICK m : m = Max(S)
    OBVIOUS
  <2>2. m \in S /\ \A y \in S : m >= y
    BY <1>3, <2>1 DEF Max
  <2>3. m \in Nat /\ m >= appended /\ appended >= m
    BY <1>2, <2>2
  <2> QED
    BY <1>1, <2>1, <2>3
<1> QED
  BY <1>4 DEF NextSequence, S

LEMMA Appended ==
  ASSUME JournalInv, NEW k \in Kinds, NEW o \in 0 .. appended, NEW left \in SUBSET present,
         AppendLeaving(k, o, left), k \in Tombstones \/ o = 0,
         UNCHANGED readerVars, UNCHANGED ackVars
  PROVE  /\ (JournalTypeOK /\ Newest /\ Numbered /\ Traced /\ Positioned /\ NothingMissed)'
         /\ \A i \in 1 .. appended : of'[i] = of[i] /\ kind'[i] = kind[i]
         /\ of'[appended + 1] = o /\ kind'[appended + 1] = k
         /\ 1 .. appended + 1 = (1 .. appended) \union {appended + 1}
<1> DEFINE n == appended + 1
<1>1. /\ appended \in Nat /\ n \in Events /\ present \subseteq 1 .. appended
      /\ 1 .. n = (1 .. appended) \union {n} /\ 1 .. appended \subseteq Events
  <2>1. appended \in Nat /\ appended + 1 <= MaxEvents /\ present \subseteq 1 .. appended
    BY DEF JournalInv, JournalTypeOK, AppendLeaving
  <2>2. MaxEvents \in Nat
    BY EventsAssumption
  <2>3. n \in Events /\ 1 .. appended \subseteq Events
    BY <2>1, <2>2 DEF Events
  <2>4. 1 .. n = (1 .. appended) \union {n}
    BY <2>1
  <2> QED
    BY <2>1, <2>3, <2>4
<1>2. /\ appended' = n /\ present' = left \union {n}
      /\ sequence' = [sequence EXCEPT ![n] = n]
      /\ kind' = [kind EXCEPT ![n] = k] /\ of' = [of EXCEPT ![n] = o]
  BY NextSequenceIs DEF AppendLeaving
<1>3. /\ sequence'[n] = n /\ kind'[n] = k /\ of'[n] = o
      /\ \A i \in 1 .. appended :
           sequence'[i] = sequence[i] /\ kind'[i] = kind[i] /\ of'[i] = of[i]
  BY <1>1, <1>2 DEF JournalInv, JournalTypeOK
<1>4. /\ cursor' = cursor /\ after' = after /\ received' = received
      /\ ack' = ack /\ ackRecords' = ackRecords /\ acked' = acked
  BY DEF readerVars, ackVars
<1>5. JournalTypeOK'
  <2>1. /\ appended' \in 0 .. MaxEvents /\ present' \subseteq 1 .. appended'
        /\ o \in 0 .. MaxEvents /\ n \in 0 .. MaxEvents
    BY <1>1, <1>2 DEF Events
  <2>2. /\ sequence' \in [Events -> 0 .. MaxEvents]
        /\ kind' \in [Events -> Kinds] /\ of' \in [Events -> 0 .. MaxEvents]
    BY <1>2, <2>1 DEF JournalInv, JournalTypeOK
  <2> QED
    BY <1>4, <2>1, <2>2 DEF JournalInv, JournalTypeOK
<1>6. (Newest /\ Numbered /\ Traced)'
  BY <1>1, <1>2, <1>3 DEF JournalInv, Newest, Numbered, Traced
<1>7. Positioned'
  BY <1>1, <1>2, <1>4 DEF JournalInv, Positioned, NotListing
<1>8. NothingMissed'
  <2> SUFFICES ASSUME NEW s \in Sessions, NEW i \in present',
                      cursor[s] # 0, sequence'[i] <= sequence'[cursor[s]]
               PROVE  i \in received[s]
    BY <1>4 DEF NothingMissed
  <2>1. cursor[s] \in 1 .. appended
    BY <1>1 DEF JournalInv, Positioned
  <2>2. sequence'[cursor[s]] = cursor[s] /\ sequence[cursor[s]] = cursor[s]
    BY <1>3, <2>1 DEF JournalInv, Numbered
  <2>3. i # n
    BY <1>1, <1>3, <2>1, <2>2
  <2>4. i \in present /\ sequence'[i] = sequence[i]
    BY <1>1, <1>2, <1>3, <2>3
  <2> QED
    BY <2>2, <2>4 DEF JournalInv, NothingMissed
<1> QED
  BY <1>1, <1>3, <1>5, <1>6, <1>7, <1>8

LEMMA AppendInv ==
  ASSUME JournalInv, NEW k \in Kinds \ Tombstones, Append(k),
         UNCHANGED readerVars, UNCHANGED ackVars
  PROVE  JournalInv'
<1>1. appended \in Nat /\ AppendLeaving(k, 0, present)
  BY DEF JournalInv, JournalTypeOK, Append
<1>2. /\ (JournalTypeOK /\ Newest /\ Numbered /\ Traced /\ Positioned /\ NothingMissed)'
      /\ \A i \in 1 .. appended : of'[i] = of[i] /\ kind'[i] = kind[i]
      /\ 1 .. appended + 1 = (1 .. appended) \union {appended + 1}
  BY <1>1, Appended
<1>3. Accounted'
  <2>1. /\ appended' = appended + 1 /\ present' = present \union {appended + 1}
        /\ present \subseteq 1 .. appended
    BY <1>1 DEF AppendLeaving, JournalInv, JournalTypeOK
  <2> SUFFICES ASSUME NEW i \in 1 .. appended, i \notin present
               PROVE  \E t \in i + 1 .. appended + 1 :
                        /\ of'[t] = i
                        /\ t \in present' \/ \E u \in present' :
                                               of'[u] = t /\ kind'[u] = "metadata_deleted"
    BY <1>2, <2>1 DEF Accounted
  <2>2. PICK t \in i + 1 .. appended :
          /\ of[t] = i
          /\ t \in present \/ \E u \in present : of[u] = t /\ kind[u] = "metadata_deleted"
    BY DEF JournalInv, Accounted
  <2>3. t \in 1 .. appended /\ t \in i + 1 .. appended + 1
    BY <1>1, <2>2
  <2> QED
    BY <1>2, <2>1, <2>2, <2>3
<1> QED
  BY <1>2, <1>3 DEF JournalInv

LEMMA CompactInv ==
  ASSUME JournalInv, NEW pinned, NEW i \in Events, Compact(i, pinned) PROVE JournalInv'
<1> DEFINE n == appended + 1
<1>1. PICK category \in Tombstones :
        Category(i, category) /\ AppendLeaving(category, i, present \ {i})
  BY DEF Compact
<1>2. /\ i \in present /\ i \in 1 .. appended /\ kind[i] # "metadata_deleted"
      /\ appended \in Nat /\ present \subseteq 1 .. appended
  BY DEF Compact, Deletable, JournalInv, JournalTypeOK
<1>3. category \in Kinds /\ i \in 0 .. appended /\ present \ {i} \in SUBSET present
  BY <1>2 DEF Tombstones, Kinds
<1>4. /\ (JournalTypeOK /\ Newest /\ Numbered /\ Traced /\ Positioned /\ NothingMissed)'
      /\ \A j \in 1 .. appended : of'[j] = of[j] /\ kind'[j] = kind[j]
      /\ of'[n] = i /\ kind'[n] = category
      /\ 1 .. n = (1 .. appended) \union {n}
  BY <1>1, <1>3, Appended DEF Compact
<1>5. appended' = n /\ present' = (present \ {i}) \union {n}
  BY <1>1 DEF AppendLeaving
<1>6. Accounted'
  <2> SUFFICES ASSUME NEW j \in 1 .. appended, j \notin present'
               PROVE  \E t \in j + 1 .. n :
                        /\ of'[t] = j
                        /\ t \in present' \/ \E u \in present' :
                                               of'[u] = t /\ kind'[u] = "metadata_deleted"
    BY <1>4, <1>5 DEF Accounted
  <2>1. CASE j = i
    BY <1>2, <1>4, <1>5, <2>1
  <2>2. CASE j # i
    <3>1. PICK t \in j + 1 .. appended :
            /\ of[t] = j
            /\ t \in present \/ \E u \in present : of[u] = t /\ kind[u] = "metadata_deleted"
      BY <1>5, <2>2 DEF JournalInv, Accounted
    <3>2. t \in 1 .. appended /\ t \in j + 1 .. n /\ of'[t] = j
      BY <1>2, <1>4, <3>1
    <3>3. CASE t = i
      <4>1. kind[i] \in Tombstones
        BY <1>2, <3>1, <3>3 DEF JournalInv, Traced
      <4>2. kind[i] = "summary_deleted"
        BY <1>2, <4>1 DEF Tombstones
      <4>3. kind'[n] = "metadata_deleted" /\ of'[n] = t /\ n \in present'
        BY <1>1, <1>4, <1>5, <3>3, <4>2 DEF Category
      <4> QED
        BY <3>2, <4>3
    <3>4. CASE t # i /\ t \in present
      BY <1>5, <3>2, <3>4
    <3>5. CASE \E u \in present : of[u] = t /\ kind[u] = "metadata_deleted"
      <4>1. PICK u \in present : of[u] = t /\ kind[u] = "metadata_deleted"
        BY <3>5
      <4>2. u # i /\ u \in 1 .. appended /\ u \in present'
        BY <1>2, <1>5, <4>1
      <4> QED
        BY <1>4, <3>2, <4>1, <4>2
    <3> QED
      BY <3>1, <3>3, <3>4, <3>5
  <2> QED
    BY <2>1, <2>2
<1> QED
  BY <1>4, <1>6 DEF JournalInv

LEMMA ReadingInv == ASSUME JournalInv, Reading PROVE JournalInv'
<1>1. UNCHANGED eventVars
  BY DEF Reading, List, CursorExpired, Page, SendAck, Acknowledge
<1>2. /\ appended' = appended /\ sequence' = sequence /\ kind' = kind /\ of' = of
      /\ present' = present /\ appended \in Nat /\ appended <= MaxEvents
      /\ present \subseteq 1 .. appended
      /\ \A i \in present : sequence[i] = i
  BY <1>1 DEF eventVars, JournalInv, JournalTypeOK, Numbered
<1>3. (Newest /\ Numbered /\ Traced /\ Accounted)'
  BY <1>2 DEF JournalInv, Newest, Numbered, Traced, Accounted
<1>4. ASSUME NEW s \in Sessions, List(s) PROVE (JournalTypeOK /\ Positioned /\ NothingMissed)'
  <2>1. after' = [after EXCEPT ![s] = cursor[s]]
    <3>1. cursor[s] # 0 => cursor[s] \in present
      BY <1>4 DEF List
    <3> QED
      BY <1>2, <1>4, <3>1 DEF List
  <2>2. UNCHANGED <<cursor, received, ack, ackRecords, acked>>
    BY <1>4 DEF List, ackVars
  <2> QED
    BY <1>2, <2>1, <2>2 DEF JournalInv, JournalTypeOK, Positioned, NothingMissed, NotListing
<1>5. ASSUME NEW s \in Sessions, CursorExpired(s)
      PROVE  (JournalTypeOK /\ Positioned /\ NothingMissed)'
  <2>1. cursor' = [cursor EXCEPT ![s] = 0] /\ after[s] = NotListing
    BY <1>5 DEF CursorExpired
  <2>2. UNCHANGED <<after, received, ack, ackRecords, acked>>
    BY <1>5 DEF CursorExpired, ackVars
  <2> QED
    BY <1>2, <2>1, <2>2 DEF JournalInv, JournalTypeOK, Positioned, NothingMissed
<1>6. ASSUME NEW s \in Sessions, Page(s) PROVE (JournalTypeOK /\ Positioned /\ NothingMissed)'
  <2>1. /\ UNCHANGED <<ack, ackRecords, acked>> /\ after[s] # NotListing
        /\ after' = [after EXCEPT ![s] = NotListing]
    BY <1>6 DEF Page, ackVars
  <2>2. CASE After(after[s]) = {}
    <3>1. UNCHANGED <<cursor, received>>
      BY <1>6, <2>2 DEF Page
    <3> QED
      BY <1>2, <2>1, <3>1 DEF JournalInv, JournalTypeOK, Positioned, NothingMissed, NotListing
  <2>3. CASE After(after[s]) # {}
    <3> DEFINE new(last) == {i \in After(after[s]) : sequence[i] <= sequence[last]}
    <3>1. PICK last \in After(after[s]) :
            /\ cursor' = [cursor EXCEPT ![s] = last]
            /\ received' = [received EXCEPT ![s] = @ \union new(last)]
      BY <1>6, <2>3 DEF Page
    <3>2. last \in present /\ new(last) \subseteq present /\ present \subseteq Events
      BY <1>2 DEF After, Events
    <3> HIDE DEF new
    <3>3. JournalTypeOK'
      <4>1. cursor' \in [Sessions -> 0 .. MaxEvents]
        BY <1>2, <3>1, <3>2 DEF JournalInv, JournalTypeOK, Events
      <4>2. after' \in [Sessions -> 0 .. NotListing]
        BY <2>1 DEF JournalInv, JournalTypeOK, NotListing
      <4>3. received' \in [Sessions -> SUBSET Events]
        BY <3>1, <3>2 DEF JournalInv, JournalTypeOK
      <4> QED
        BY <1>2, <2>1, <4>1, <4>2, <4>3 DEF JournalInv, JournalTypeOK
    <3>4. Positioned'
      <4> SUFFICES ASSUME NEW z \in Sessions
                   PROVE  /\ received'[z] \subseteq 1 .. appended
                          /\ cursor'[z] \in 0 .. appended
                          /\ after'[z] \in {NotListing, cursor'[z]}
        BY <1>2 DEF Positioned
      <4>1. CASE z # s
        BY <2>1, <3>1, <4>1 DEF JournalInv, JournalTypeOK, Positioned
      <4>2. CASE z = s
        <5>1. received'[s] = received[s] \union new(last) /\ cursor'[s] = last
          BY <3>1 DEF JournalInv, JournalTypeOK
        <5>2. after'[s] = NotListing
          BY <2>1 DEF JournalInv, JournalTypeOK
        <5>3. received[s] \subseteq 1 .. appended /\ last \in 1 .. appended
          BY <1>2, <3>2 DEF JournalInv, Positioned
        <5>4. new(last) \subseteq 1 .. appended
          BY <1>2, <3>2
        <5>5. received'[s] \subseteq 1 .. appended
          BY <5>1, <5>3, <5>4
        <5>6. cursor'[s] \in 0 .. appended
          BY <5>1, <5>3
        <5> QED
          BY <4>2, <5>2, <5>5, <5>6
      <4> QED
        BY <4>1, <4>2
    <3>5. NothingMissed'
      <4> SUFFICES ASSUME NEW z \in Sessions, NEW i \in present,
                          cursor'[z] # 0, sequence[i] <= sequence[cursor'[z]]
                   PROVE  i \in received'[z]
        BY <1>2 DEF NothingMissed
      <4>1. CASE z # s
        <5>1. cursor'[z] = cursor[z] /\ received'[z] = received[z]
          BY <3>1, <4>1 DEF JournalInv, JournalTypeOK
        <5> QED
          BY <5>1 DEF JournalInv, NothingMissed
      <4>2. CASE z = s
        <5>1. cursor'[s] = last /\ received'[s] = received[s] \union new(last)
          BY <3>1 DEF JournalInv, JournalTypeOK
        <5>2. after[s] = cursor[s] /\ cursor[s] \in 0 .. appended
          BY <2>1 DEF JournalInv, Positioned
        <5>3. CASE sequence[i] > after[s]
          BY <4>2, <5>1, <5>3 DEF After, new
        <5>4. CASE ~(sequence[i] > after[s])
          <6>1. cursor[s] \in 1 .. appended /\ sequence[cursor[s]] = cursor[s]
            BY <1>2, <5>2, <5>4 DEF JournalInv, Numbered
          <6>2. i \in received[s]
            BY <1>2, <5>2, <5>4, <6>1 DEF JournalInv, NothingMissed
          <6> QED
            BY <4>2, <5>1, <6>2
        <5> QED
          BY <5>3, <5>4
      <4> QED
        BY <4>1, <4>2
    <3> QED
      BY <3>3, <3>4, <3>5
  <2> QED
    BY <2>2, <2>3
<1>7. ASSUME NEW k \in AckKeys, SendAck(k) \/ Acknowledge(k)
      PROVE  (JournalTypeOK /\ Positioned /\ NothingMissed)'
  <2>1. UNCHANGED <<cursor, after, received>>
    BY <1>7 DEF SendAck, Acknowledge, readerVars
  <2>2. (Positioned /\ NothingMissed)'
    BY <1>2, <2>1 DEF JournalInv, Positioned, NothingMissed
  <2>3. CASE SendAck(k)
    <3>1. PICK i \in Events : ack' = [ack EXCEPT ![k] = [event |-> i, expected |-> acked.revision]]
      BY <2>3 DEF SendAck, JournalInv, JournalTypeOK
    <3>2. UNCHANGED <<ackRecords, acked>>
      BY <2>3 DEF SendAck
    <3>3. i \in 0 .. MaxEvents /\ acked.revision \in Nat
      BY DEF JournalInv, JournalTypeOK, Events
    <3>4. ack' \in [AckKeys -> [event : 0 .. MaxEvents, expected : Nat]]
      BY <3>1, <3>3 DEF JournalInv, JournalTypeOK
    <3> QED
      BY <1>2, <2>1, <2>2, <3>2, <3>4 DEF JournalInv, JournalTypeOK
  <2>4. CASE Acknowledge(k)
    <3>1. /\ ackRecords' = ackRecords \union {k} /\ ack' = ack
          /\ ack[k].event \in present
      BY <2>4 DEF Acknowledge
    <3>2. ack[k].event \in 0 .. MaxEvents /\ sequence[ack[k].event] \in 0 .. MaxEvents
      <4>1. ack[k].event \in 1 .. appended
        BY <1>2, <3>1
      <4> QED
        BY <1>2, <3>1, <4>1
    <3>3. acked' \in [event : 0 .. MaxEvents, sequence : 0 .. MaxEvents, revision : Nat]
      BY <2>4, <3>2 DEF Acknowledge, JournalInv, JournalTypeOK
    <3> QED
      BY <1>2, <2>1, <2>2, <3>1, <3>3 DEF JournalInv, JournalTypeOK
  <2> QED
    BY <1>7, <2>3, <2>4
<1> QED
  BY <1>3, <1>4, <1>5, <1>6, <1>7 DEF JournalInv, Reading

LEMMA JournalKept == ASSUME JournalInv, UNCHANGED journalVars PROVE JournalInv'
BY DEF JournalInv, JournalTypeOK, Newest, Numbered, Traced, Positioned, NothingMissed,
   Accounted, journalVars, eventVars, readerVars, ackVars, After

---------------------------------------------------------------------------
(* The outbox                                                              *)

(* A step of a delivery leaves the journal and the items' keys alone.      *)
LEMMA DeliveryStep ==
  ASSUME Inv, UNCHANGED <<journalVars, keyOf, source>>, OutboxTyped', Started', Counted',
         status' \in Pending => status \in Pending
  PROVE  Inv'
<1>1. UNCHANGED <<appended, present>>
  BY DEF journalVars, eventVars
<1>2. Keyed' /\ SourceRetained'
  BY <1>1 DEF Inv, OutboxInv, Keyed, RedrivesOnce, SourceRetained
<1> QED
  BY <1>2, JournalKept DEF Inv, OutboxInv

LEMMA NotifyInv == ASSUME Inv, Notify PROVE Inv'
<1> DEFINE n == appended + 1
<1>1. JournalInv'
  <2>1. "entry" \in Kinds \ Tombstones
    BY DEF Kinds, Tombstones
  <2> QED
    BY <2>1, AppendInv DEF Inv, Notify
<1>2. /\ appended' = n /\ present' = present \union {n} /\ n \in Events /\ appended \in Nat
      /\ keyOf' = keyOf /\ keyOf[n] = "none" /\ n \in 0 .. MaxEvents
  BY DEF Inv, JournalInv, JournalTypeOK, OutboxInv, Keyed, Notify, Append, AppendLeaving,
     Events
<1>3. Keyed'
  <2>1. RedrivesOnce'
    BY <1>2 DEF Inv, OutboxInv, Keyed, RedrivesOnce
  <2>2. \A i \in Events : i > n => keyOf'[i] = "none"
    BY <1>2 DEF Inv, OutboxInv, Keyed, Events
  <2> QED
    BY <1>2, <2>1, <2>2 DEF Keyed
<1>4. CASE routed /\ status = "none"
  <2>1. /\ status' = "queued" /\ source' = n /\ cycle' = 1 /\ cycle = 0
        /\ jobStatus' = [jobStatus EXCEPT ![1] = "queued"] /\ attemptCount = 0
        /\ UNCHANGED <<routed, attemptCount, waiting, outdated, keyOf, jobAttempts, pc, job,
                       claimed, attempt, made, slow, faults>>
    BY <1>4 DEF Notify, Inv, OutboxInv, Started, Counted, exVars, historyVars
  <2>2. OutboxTyped'
    <3>1. ItemTyped'
      BY <1>2, <2>1 DEF Inv, OutboxInv, OutboxTyped, ItemTyped, Pending
    <3>2. JobsTyped'
      BY <2>1 DEF Inv, OutboxInv, OutboxTyped, JobsTyped
    <3>3. ExecutionsTyped' /\ HistoryTyped'
      BY <2>1 DEF Inv, OutboxInv, OutboxTyped, ExecutionsTyped, HistoryTyped
    <3> QED
      BY <3>1, <3>2, <3>3 DEF OutboxTyped
  <2>3. Started'
    <3>1. \A j \in Cycles : jobStatus[j] = "none" /\ (jobStatus'[j] # "none" => j = 1)
      BY <2>1 DEF Inv, OutboxInv, OutboxTyped, JobsTyped, Started, Cycles
    <3>2. \A x \in Executions : pc[x] = "idle"
      BY <2>1 DEF Inv, OutboxInv, Started
    <3> QED
      BY <2>1, <3>1, <3>2 DEF Started, Cycles
  <2>4. Counted'
    BY <2>1 DEF Inv, OutboxInv, OutboxTyped, HistoryTyped, Counted, Cycles
  <2>5. SourceRetained'
    BY <1>2, <2>1 DEF SourceRetained
  <2> QED
    BY <1>1, <1>3, <2>2, <2>3, <2>4, <2>5 DEF Inv, OutboxInv
<1>5. CASE ~(routed /\ status = "none")
  <2>1. UNCHANGED <<routed, status, source, cycle, jobStatus, attemptCount, waiting, outdated,
                    keyOf, jobAttempts, pc, job, claimed, attempt, made, slow, faults>>
    BY <1>5 DEF Notify, exVars, historyVars
  <2> QED
    BY <1>1, <1>2, <1>3, <2>1 DEF Inv, OutboxInv, OutboxTyped, ItemTyped, JobsTyped,
       ExecutionsTyped, HistoryTyped, Started, Counted, SourceRetained
<1> QED
  BY <1>4, <1>5

LEMMA RetentionInv == ASSUME Inv, NEW i \in Events, Retention(i) PROVE Inv'
<1> DEFINE n == appended + 1
<1>1. JournalInv'
  BY CompactInv DEF Inv, Retention
<1>2. /\ appended' = n /\ present' = (present \ {i}) \union {n} /\ n \in Events
      /\ i \notin PinnedEvents /\ keyOf[n] = "none" /\ appended \in Nat
  BY DEF Inv, JournalInv, JournalTypeOK, OutboxInv, Keyed, Retention, Compact, Deletable,
     AppendLeaving, Events
<1>3. UNCHANGED <<routed, status, source, cycle, jobStatus, attemptCount, waiting, outdated,
                  keyOf, jobAttempts, pc, job, claimed, attempt, made, slow, faults>>
  BY DEF Retention, outboxVars, itemVars, jobVars, exVars, historyVars
<1>4. Keyed'
  <2>1. RedrivesOnce'
    BY <1>2, <1>3 DEF Inv, OutboxInv, Keyed, RedrivesOnce
  <2>2. \A j \in Events : j > n => keyOf'[j] = "none"
    BY <1>2, <1>3 DEF Inv, OutboxInv, Keyed, Events
  <2> QED
    BY <1>2, <2>1, <2>2 DEF Keyed
<1>5. SourceRetained'
  BY <1>2, <1>3 DEF Inv, OutboxInv, SourceRetained, PinnedEvents
<1> QED
  BY <1>1, <1>3, <1>4, <1>5 DEF Inv, OutboxInv, OutboxTyped, ItemTyped, JobsTyped,
     ExecutionsTyped, HistoryTyped, Started, Counted

LEMMA ReadingOutboxInv == ASSUME Inv, Reading, UNCHANGED outboxVars PROVE Inv'
<1>1. UNCHANGED <<appended, present>>
  BY DEF Reading, List, CursorExpired, Page, SendAck, Acknowledge, eventVars
<1>2. UNCHANGED <<routed, status, source, cycle, jobStatus, attemptCount, waiting, outdated,
                  keyOf, jobAttempts, pc, job, claimed, attempt, made, slow, faults>>
  BY DEF outboxVars, itemVars, jobVars, exVars, historyVars
<1> QED
  BY <1>1, <1>2, ReadingInv DEF Inv, OutboxInv, OutboxTyped, ItemTyped, JobsTyped,
     ExecutionsTyped, HistoryTyped, Started, Counted, Keyed, RedrivesOnce, SourceRetained

LEMMA ClaimJobInv == ASSUME Inv, NEW x \in Executions, NEW j \in Cycles, ClaimJob(x, j) PROVE Inv'
<1>1. /\ jobStatus' = [jobStatus EXCEPT ![j] = "running"]
      /\ jobAttempts' = [jobAttempts EXCEPT ![j] = @ + 1]
      /\ pc' = [pc EXCEPT ![x] = "claiming"] /\ job' = [job EXCEPT ![x] = j]
      /\ claimed' = [claimed EXCEPT ![x] = jobAttempts[j] + 1]
      /\ UNCHANGED <<routed, status, attemptCount, waiting, outdated, source, cycle, keyOf,
                     attempt, made, slow, faults>>
      /\ jobStatus[j] = "queued"
  BY DEF ClaimJob, itemVars, historyVars
<1>2. j \in 1 .. cycle /\ j \in 0 .. MaxCycles /\ jobAttempts[j] + 1 \in Nat
      /\ jobAttempts[j] + 1 > 0
  BY <1>1 DEF Inv, OutboxInv, OutboxTyped, JobsTyped, Started, Cycles
<1>3. OutboxTyped'
  BY <1>1, <1>2 DEF Inv, OutboxInv, OutboxTyped, ItemTyped, JobsTyped, ExecutionsTyped,
     HistoryTyped, PC
<1>4. Started'
  BY <1>1, <1>2 DEF Inv, OutboxInv, OutboxTyped, ExecutionsTyped, HistoryTyped, Started
<1>5. Counted'
  BY <1>1 DEF Inv, OutboxInv, Counted
<1> QED
  BY <1>1, <1>3, <1>4, <1>5, DeliveryStep DEF ClaimJob

LEMMA WriteJobInv == ASSUME Inv, NEW x \in Executions, WriteJob(x) PROVE Inv'
<1>1. PICK to \in {"success", "queued", "failed"} :
        jobStatus' = [jobStatus EXCEPT ![job[x]] = to]
  BY DEF WriteJob
<1>2. /\ jobAttempts' = [jobAttempts EXCEPT ![job[x]] =
             IF pc[x] = "defer" THEN claimed[x] - 1 ELSE @]
      /\ pc' = [pc EXCEPT ![x] = "idle"] /\ job' = [job EXCEPT ![x] = 0]
      /\ claimed' = [claimed EXCEPT ![x] = 0] /\ attempt' = [attempt EXCEPT ![x] = 0]
      /\ UNCHANGED <<routed, status, attemptCount, waiting, outdated, source, cycle, keyOf,
                     made, slow, faults>>
      /\ pc[x] # "idle"
  BY DEF WriteJob, Forget, itemVars, historyVars
<1>3. job[x] \in 1 .. cycle /\ claimed[x] - 1 \in Nat
  BY <1>2 DEF Inv, OutboxInv, OutboxTyped, ExecutionsTyped, Started
<1>4. OutboxTyped'
  <2>1. JobsTyped'
    BY <1>1, <1>2, <1>3 DEF Inv, OutboxInv, OutboxTyped, JobsTyped
  <2>2. ExecutionsTyped'
    BY <1>2 DEF Inv, OutboxInv, OutboxTyped, ExecutionsTyped, PC
  <2>3. ItemTyped' /\ HistoryTyped'
    BY <1>2 DEF Inv, OutboxInv, OutboxTyped, ItemTyped, HistoryTyped
  <2> QED
    BY <2>1, <2>2, <2>3 DEF OutboxTyped
<1>5. Started'
  BY <1>1, <1>2, <1>3 DEF Inv, OutboxInv, OutboxTyped, ExecutionsTyped, HistoryTyped, Started
<1>6. Counted'
  BY <1>2 DEF Inv, OutboxInv, Counted
<1> QED
  BY <1>2, <1>4, <1>5, <1>6, DeliveryStep DEF WriteJob

LEMMA CrashInv == ASSUME Inv, NEW x \in Executions, Crash(x) PROVE Inv'
<1>1. /\ pc' = [pc EXCEPT ![x] = "idle"] /\ job' = [job EXCEPT ![x] = 0]
      /\ claimed' = [claimed EXCEPT ![x] = 0] /\ attempt' = [attempt EXCEPT ![x] = 0]
      /\ UNCHANGED <<routed, status, attemptCount, waiting, outdated, source, cycle, keyOf,
                     jobStatus, jobAttempts, made, slow>>
      /\ faults < MaxFaults /\ faults' = faults + 1
  BY DEF Crash, Forget, Fault, itemVars, jobVars, historyVars
<1>2. OutboxTyped'
  BY <1>1 DEF Inv, OutboxInv, OutboxTyped, ItemTyped, JobsTyped, ExecutionsTyped, HistoryTyped,
     PC
<1>3. Started'
  BY <1>1 DEF Inv, OutboxInv, OutboxTyped, ExecutionsTyped, Started
<1>4. Counted'
  BY <1>1 DEF Inv, OutboxInv, Counted
<1> QED
  BY <1>1, <1>2, <1>3, <1>4, DeliveryStep DEF Crash

LEMMA SweepInv == ASSUME Inv, NEW j \in Cycles, Sweep(j) PROVE Inv'
<1>1. /\ jobStatus' = [jobStatus EXCEPT ![j] = "queued"] /\ jobStatus[j] = "running"
      /\ UNCHANGED <<routed, status, attemptCount, waiting, outdated, source, cycle, keyOf,
                     jobAttempts, pc, job, claimed, attempt, made, slow>>
  BY DEF Sweep, itemVars, exVars, historyVars
<1>2. faults' = faults \/ (faults < MaxFaults /\ faults' = faults + 1)
  <2>1. CASE \E x \in Executions : job[x] = j
    BY <2>1 DEF Sweep, Fault
  <2>2. CASE ~ \E x \in Executions : job[x] = j
    BY <2>2 DEF Sweep
  <2> QED
    BY <2>1, <2>2
<1>3. OutboxTyped'
  BY <1>1, <1>2 DEF Inv, OutboxInv, OutboxTyped, ItemTyped, JobsTyped, ExecutionsTyped,
     HistoryTyped
<1>4. Started'
  BY <1>1 DEF Inv, OutboxInv, OutboxTyped, Started
<1>5. Counted'
  BY <1>1 DEF Inv, OutboxInv, Counted
<1> QED
  BY <1>1, <1>3, <1>4, <1>5, DeliveryStep DEF Sweep

(* Where an execution waits next                                           *)
LEMMA AwaitStarted ==
  ASSUME Inv, NEW x \in Executions, pc[x] # "idle", NEW at \in PC \ {"idle"},
         pc' = [pc EXCEPT ![x] = at], UNCHANGED <<job, claimed, cycle, jobStatus>>,
         status' = "none" <=> status = "none"
  PROVE  Started'
BY DEF Inv, OutboxInv, OutboxTyped, Started

LEMMA ClaimAttemptInv == ASSUME Inv, NEW x \in Executions, ClaimAttempt(x) PROVE Inv'
<1>1. /\ UNCHANGED <<routed, outdated, source, cycle, keyOf, jobStatus, jobAttempts, job,
                     claimed, slow, faults>>
      /\ pc[x] = "claiming"
  BY DEF ClaimAttempt, Await, jobVars
<1>2. cycle \in Cycles /\ status # "none"
  <2>1. job[x] \in 1 .. cycle /\ cycle \in 0 .. MaxCycles
    BY <1>1 DEF Inv, OutboxInv, OutboxTyped, ItemTyped, Started
  <2>2. cycle \in Cycles /\ cycle # 0
    BY <2>1 DEF Cycles
  <2> QED
    BY <2>2 DEF Inv, OutboxInv, Started
<1>3. CASE /\ status' = "sending" /\ attemptCount' = attemptCount + 1 /\ waiting' = TRUE
           /\ pc' = [pc EXCEPT ![x] = "sending"]
           /\ attempt' = [attempt EXCEPT ![x] = attemptCount + 1]
           /\ ~Exhausted /\ status \notin Settled
  <2>1. /\ pc'[x] = "sending" /\ made' = [made EXCEPT ![cycle] = @ + 1]
        /\ attemptCount + 1 \in 0 .. MaxAttempts
    BY <1>3 DEF ClaimAttempt, Inv, OutboxInv, OutboxTyped, ItemTyped, ExecutionsTyped,
       HistoryTyped, Exhausted
  <2>2. OutboxTyped'
    <3>1. ItemTyped'
      BY <1>1, <1>3, <2>1 DEF Inv, OutboxInv, OutboxTyped, ItemTyped, Pending
    <3>2. ExecutionsTyped'
      BY <1>1, <1>3, <2>1 DEF Inv, OutboxInv, OutboxTyped, ExecutionsTyped, PC, Delivering
    <3>3. JobsTyped' /\ HistoryTyped'
      BY <1>1, <1>2, <2>1 DEF Inv, OutboxInv, OutboxTyped, JobsTyped, HistoryTyped
    <3> QED
      BY <3>1, <3>2, <3>3 DEF OutboxTyped
  <2>3. Started'
    BY <1>1, <1>2, <1>3, AwaitStarted DEF PC, Delivering
  <2>4. Counted'
    <3>1. /\ made'[cycle] = made[cycle] + 1
          /\ \A j \in Cycles : j # cycle => made'[j] = made[j]
      BY <1>2, <2>1 DEF Inv, OutboxInv, OutboxTyped, HistoryTyped
    <3>2. cycle # 0 /\ made[cycle] = attemptCount
      BY <1>2 DEF Inv, OutboxInv, Counted, Cycles
    <3> QED
      BY <1>1, <1>2, <1>3, <2>1, <3>1, <3>2 DEF Inv, OutboxInv, Counted, Cycles
  <2>5. status \in Pending
    BY <1>2, <1>3 DEF Inv, OutboxInv, OutboxTyped, ItemTyped, HistoryTyped
  <2> QED
    BY <1>1, <2>2, <2>3, <2>4, <2>5, DeliveryStep DEF ClaimAttempt
<1>4. CASE /\ status' \in {status, "expired", "dead_letter"} /\ UNCHANGED <<attemptCount, waiting>>
           /\ \E at \in {"succeed", "defer"} : Await(x, at)
  <2>1. PICK at \in {"succeed", "defer"} : pc' = [pc EXCEPT ![x] = at] /\ attempt' = attempt
    BY <1>4 DEF Await
  <2>2. pc'[x] # "sending" /\ made' = made
    BY <2>1 DEF ClaimAttempt, Inv, OutboxInv, OutboxTyped, ExecutionsTyped, HistoryTyped
  <2>3. OutboxTyped'
    BY <1>1, <1>4, <2>1, <2>2 DEF Inv, OutboxInv, OutboxTyped, ItemTyped, JobsTyped,
       ExecutionsTyped, HistoryTyped, Settled, PC
  <2>4. Started'
    BY <1>1, <1>2, <1>4, <2>1, AwaitStarted DEF PC
  <2>5. Counted'
    BY <1>1, <1>4, <2>2 DEF Inv, OutboxInv, Counted
  <2> QED
    BY <1>1, <1>4, <2>3, <2>4, <2>5, DeliveryStep DEF ClaimAttempt, Pending
<1> QED
  BY <1>3, <1>4 DEF ClaimAttempt

LEMMA RecordInv ==
  ASSUME Inv, NEW x \in Executions, RecordSuccess(x) \/ RecordFailure(x) PROVE Inv'
<1>1. /\ UNCHANGED <<routed, attemptCount, outdated, source, cycle, keyOf, jobStatus,
                     jobAttempts, job, claimed, attempt, made, slow, faults>>
      /\ pc[x] \in Delivering
  BY DEF RecordSuccess, RecordFailure, Await, jobVars, historyVars, Delivering
<1>7. /\ waiting' \in BOOLEAN
      /\ status' = status \/ (Matching(x) /\ status' \in Settled \union {"failed"})
  <2>1. waiting \in BOOLEAN
    BY DEF Inv, OutboxInv, OutboxTyped, ItemTyped
  <2>2. CASE RecordSuccess(x)
    BY <2>1, <2>2 DEF RecordSuccess, Settled
  <2>3. CASE RecordFailure(x)
    <3>1. CASE ~Matching(x)
      BY <2>1, <2>3, <3>1 DEF RecordFailure
    <3>2. CASE Matching(x)
      BY <2>1, <2>3, <3>2 DEF RecordFailure, FailureOutcome, Settled
    <3> QED
      BY <3>1, <3>2
  <2> QED
    BY <2>2, <2>3
<1>2. PICK at \in PC \ {"idle"} : pc' = [pc EXCEPT ![x] = at]
  BY DEF RecordSuccess, RecordFailure, Await, AfterFailure, PC, Delivering
<1>3. OutboxTyped'
  BY <1>1, <1>2, <1>7 DEF Inv, OutboxInv, OutboxTyped, ItemTyped, JobsTyped, ExecutionsTyped,
     HistoryTyped, Pending
<1>4. (status' = "none" <=> status = "none") /\ (status' \in Pending => status \in Pending)
  BY <1>7 DEF Matching, Settled, Pending
<1>5. Started'
  BY <1>1, <1>2, <1>4, AwaitStarted DEF Delivering
<1>6. Counted'
  BY <1>1 DEF Inv, OutboxInv, Counted
<1> QED
  BY <1>1, <1>3, <1>4, <1>5, <1>6, DeliveryStep DEF RecordSuccess, RecordFailure

LEMMA TransactionFailsInv == ASSUME Inv, NEW x \in Executions, TransactionFails(x) PROVE Inv'
<1>1. /\ UNCHANGED <<routed, status, attemptCount, waiting, outdated, source, cycle, keyOf,
                     jobStatus, jobAttempts, job, claimed, attempt, made, slow>>
      /\ pc[x] # "idle" /\ faults < MaxFaults /\ faults' = faults + 1
  BY DEF TransactionFails, Fault, Await, itemVars, jobVars, historyVars, Delivering
<1>2. PICK at \in PC \ {"idle"} : pc' = [pc EXCEPT ![x] = at]
  BY DEF TransactionFails, Await, PC, Delivering
<1>3. OutboxTyped'
  BY <1>1, <1>2 DEF Inv, OutboxInv, OutboxTyped, ItemTyped, JobsTyped, ExecutionsTyped,
     HistoryTyped
<1>4. Started'
  BY <1>1, <1>2, AwaitStarted
<1>5. Counted'
  BY <1>1 DEF Inv, OutboxInv, Counted
<1> QED
  BY <1>1, <1>3, <1>4, <1>5, DeliveryStep DEF TransactionFails

LEMMA TimeInv == ASSUME Inv, Lapse \/ Outdate PROVE Inv'
<1>1. /\ UNCHANGED <<routed, status, attemptCount, source, cycle, keyOf, jobStatus, jobAttempts,
                     pc, job, claimed, attempt, made>>
      /\ waiting' \in BOOLEAN /\ outdated' \in BOOLEAN
  BY DEF Lapse, Outdate, jobVars, exVars, historyVars, Inv, OutboxInv, OutboxTyped, ItemTyped
<1>4. /\ faults' = faults \/ (faults < MaxFaults /\ faults' = faults + 1)
      /\ slow' \in {slow, slow + 1}
  <2>1. CASE Outdate
    BY <2>1 DEF Outdate, historyVars
  <2>2. CASE Lapse /\ \E x \in Executions : Holder(x)
    BY <2>2 DEF Lapse, Fault
  <2>3. CASE Lapse /\ ~ \E x \in Executions : Holder(x)
    BY <2>3 DEF Lapse
  <2> QED
    BY <2>1, <2>2, <2>3
<1>2. OutboxTyped'
  BY <1>1, <1>4 DEF Inv, OutboxInv, OutboxTyped, ItemTyped, JobsTyped, ExecutionsTyped,
     HistoryTyped
<1>3. Started' /\ Counted'
  BY <1>1 DEF Inv, OutboxInv, Started, Counted
<1> QED
  BY <1>1, <1>2, <1>3, DeliveryStep DEF Lapse, Outdate

LEMMA RedriveInv == ASSUME Inv, NEW k \in RedriveKeys, Redrive(k) PROVE Inv'
<1> DEFINE n == appended + 1
           z == cycle + 1
<1>1. JournalInv'
  <2>1. "redriven" \in Kinds \ Tombstones
    BY DEF Kinds, Tombstones
  <2> QED
    BY <2>1, AppendInv DEF Inv, Redrive
<1>2. /\ appended' = n /\ present' = present \union {n} /\ n \in Events /\ appended \in Nat
      /\ n \notin present /\ present \subseteq Events
      /\ keyOf' = [keyOf EXCEPT ![n] = k]
  BY DEF Inv, JournalInv, JournalTypeOK, Redrive, Append, AppendLeaving, Events
<1>3. Keyed'
  <2>1. /\ keyOf'[n] = k /\ \A i \in Events : i # n => keyOf'[i] = keyOf[i]
    BY <1>2 DEF Inv, OutboxInv, OutboxTyped, ItemTyped, HistoryTyped
  <2>2. \A i \in present : keyOf[i] # k
    BY DEF Redrive, FirstRedrive
  <2>3. RedrivesOnce'
    BY <1>2, <2>1, <2>2 DEF Inv, OutboxInv, Keyed, RedrivesOnce
  <2>4. \A i \in Events : i > n => keyOf'[i] = "none"
    BY <1>2, <2>1 DEF Inv, OutboxInv, Keyed, Events
  <2> QED
    BY <1>2, <2>3, <2>4 DEF Keyed
<1>4. /\ status' = "queued" /\ attemptCount' = 0 /\ waiting' = FALSE /\ outdated' = FALSE
      /\ cycle' = z /\ z \in Cycles /\ jobStatus' = [jobStatus EXCEPT ![z] = "queued"]
      /\ UNCHANGED <<routed, source, jobAttempts, pc, job, claimed, attempt, made, slow, faults>>
      /\ status = "dead_letter" /\ source \in present /\ cycle \in Nat /\ z \in 0 .. MaxCycles
  BY DEF Redrive, Redrivable, exVars, historyVars, Inv, OutboxInv, OutboxTyped, ItemTyped,
     JobsTyped, ExecutionsTyped, HistoryTyped, Cycles
<1>5. OutboxTyped'
  <2>1. ItemTyped'
    <3>1. keyOf' \in [Events -> RedriveKeys \union {"none"}]
      BY <1>2 DEF Inv, OutboxInv, OutboxTyped, ItemTyped
    <3>2. attemptCount' \in 0 .. MaxAttempts
      BY <1>4
    <3> QED
      BY <1>4, <3>1, <3>2 DEF Inv, OutboxInv, OutboxTyped, ItemTyped, Pending
  <2>2. JobsTyped'
    BY <1>4 DEF Inv, OutboxInv, OutboxTyped, JobsTyped
  <2>3. ExecutionsTyped' /\ HistoryTyped'
    BY <1>4 DEF Inv, OutboxInv, OutboxTyped, ExecutionsTyped, HistoryTyped
  <2> QED
    BY <2>1, <2>2, <2>3 DEF OutboxTyped
<1>6. Started'
  BY <1>4 DEF Inv, OutboxInv, OutboxTyped, Started, Cycles
<1>7. Counted'
  BY <1>4 DEF Inv, OutboxInv, OutboxTyped, Counted, Cycles
<1>8. SourceRetained'
  BY <1>2, <1>4 DEF SourceRetained
<1> QED
  BY <1>1, <1>3, <1>5, <1>6, <1>7, <1>8 DEF Inv, OutboxInv

---------------------------------------------------------------------------
LEMMA InitInv == Init => Inv
<1> SUFFICES ASSUME Init PROVE Inv
  OBVIOUS
<1>1. JournalInv
  BY DEF Init, JournalInit, JournalInv, JournalTypeOK, Newest, Numbered, Traced, Positioned,
     NothingMissed, Accounted, NoAck, NotListing, Kinds
<1>2. OutboxTyped
  <2>1. ItemTyped /\ JobsTyped
    <3>1. 0 \in 0 .. MaxAttempts /\ 0 \in 0 .. MaxEvents /\ 0 \in 0 .. MaxCycles
      OBVIOUS
    <3> QED
      BY <3>1 DEF Init, ItemTyped, JobsTyped
  <2>2. ExecutionsTyped /\ HistoryTyped
    BY DEF Init, ExecutionsTyped, HistoryTyped, PC
  <2> QED
    BY <2>1, <2>2 DEF OutboxTyped
<1>3. Started /\ Counted
  BY DEF Init, Started, Counted, Cycles
<1>4. Keyed /\ SourceRetained
  BY DEF Init, JournalInit, Keyed, RedrivesOnce, SourceRetained, Pending
<1> QED
  BY <1>1, <1>2, <1>3, <1>4 DEF Inv, OutboxInv

LEMMA StutterInv == ASSUME Inv, UNCHANGED vars PROVE Inv'
<1>1. UNCHANGED <<routed, status, source, cycle, jobStatus, attemptCount, waiting, outdated,
                  keyOf, jobAttempts, pc, job, claimed, attempt, made, slow, faults, journalVars>>
  BY DEF vars, outboxVars, itemVars, jobVars, exVars, historyVars
<1>2. OutboxTyped' /\ Started' /\ Counted'
  BY <1>1 DEF Inv, OutboxInv, OutboxTyped, ItemTyped, JobsTyped, ExecutionsTyped, HistoryTyped,
     Started, Counted
<1> QED
  BY <1>1, <1>2, DeliveryStep

LEMMA NextInv == Inv /\ [Next]_vars => Inv'
<1> SUFFICES ASSUME Inv, [Next]_vars PROVE Inv'
  OBVIOUS
<1>1. CASE Reading /\ UNCHANGED outboxVars
  BY <1>1, ReadingOutboxInv
<1>2. CASE Notify
  BY <1>2, NotifyInv
<1>3. ASSUME NEW i \in Events, Retention(i) PROVE Inv'
  BY <1>3, RetentionInv
<1>4. ASSUME NEW x \in Executions, NEW j \in Cycles, ClaimJob(x, j) PROVE Inv'
  BY <1>4, ClaimJobInv
<1>5. ASSUME NEW x \in Executions, Delivery(x) PROVE Inv'
  BY <1>5, WriteJobInv, ClaimAttemptInv, RecordInv DEF Delivery
<1>6. ASSUME NEW x \in Executions, Crash(x) \/ TransactionFails(x) PROVE Inv'
  BY <1>6, CrashInv, TransactionFailsInv
<1>7. ASSUME NEW j \in Cycles, Sweep(j) PROVE Inv'
  BY <1>7, SweepInv
<1>8. CASE Lapse \/ Outdate
  BY <1>8, TimeInv
<1>9. ASSUME NEW k \in RedriveKeys, Redrive(k) PROVE Inv'
  BY <1>9, RedriveInv
<1>10. CASE UNCHANGED vars
  BY <1>10, StutterInv
<1> QED
  BY <1>1, <1>2, <1>3, <1>4, <1>5, <1>6, <1>7, <1>8, <1>9, <1>10 DEF Next

(* The inductive invariant holds in every reachable state.                 *)
THEOREM Invariance == Spec => []Inv
BY InitInv, NextInv, PTL DEF Spec

LEMMA InvImplies ==
  Inv => /\ TypeOK /\ SequencesGrow /\ NothingMissed /\ Accounted
         /\ SourceRetained /\ RedrivesOnce /\ BoundedAttempts
<1> SUFFICES ASSUME Inv
             PROVE  /\ TypeOK /\ SequencesGrow /\ NothingMissed /\ Accounted
                    /\ SourceRetained /\ RedrivesOnce /\ BoundedAttempts
  OBVIOUS
<1>1. TypeOK
  BY DEF Inv, JournalInv, OutboxInv, OutboxTyped, ItemTyped, JobsTyped, ExecutionsTyped,
     HistoryTyped, TypeOK
<1>2. SequencesGrow
  BY DEF Inv, JournalInv, JournalTypeOK, Numbered, SequencesGrow
<1>3. BoundedAttempts
  BY DEF Inv, OutboxInv, Counted, BoundedAttempts
<1> QED
  BY <1>1, <1>2, <1>3 DEF Inv, JournalInv, OutboxInv, Keyed

(* Type correctness                                                        *)
THEOREM TypeCorrect == Spec => []TypeOK
BY Invariance, InvImplies, PTL

(* Events are numbered in the order in which they are appended.            *)
THEOREM Sequenced == Spec => []SequencesGrow
BY Invariance, InvImplies, PTL

(* A reader has received every retained event that its cursor has passed.  *)
THEOREM Received == Spec => []NothingMissed
BY Invariance, InvImplies, PTL

(* A deleted event has a tombstone, or a deleted one that has one itself.  *)
THEOREM Traceable == Spec => []Accounted
BY Invariance, InvImplies, PTL

(* The event of a pending item is retained, and a retained redrive has its *)
(* idempotency key for itself.                                             *)
THEOREM Retained == Spec => [](SourceRetained /\ RedrivesOnce)
BY Invariance, InvImplies, PTL

(* The transport is called at most MaxAttempts times in a cycle.           *)
THEOREM Bounded == Spec => []BoundedAttempts
BY Invariance, InvImplies, PTL

(* A settled item is left by a redrive of a dead letter only.              *)
THEOREM Final == Spec => FinalStays
<1>1. ASSUME Next, status \in Settled, status' # status
      PROVE  status = "dead_letter" /\ cycle' = cycle + 1
  <2>1. CASE Notify
    BY <1>1, <2>1 DEF Notify, Settled
  <2>2. ASSUME NEW x \in Executions, ClaimAttempt(x) PROVE FALSE
    BY <1>1, <2>2 DEF ClaimAttempt
  <2>3. ASSUME NEW x \in Executions, RecordSuccess(x) \/ RecordFailure(x) PROVE FALSE
    BY <1>1, <2>3 DEF RecordSuccess, RecordFailure, Matching, Settled
  <2>4. ASSUME NEW k \in RedriveKeys, Redrive(k)
        PROVE  status = "dead_letter" /\ cycle' = cycle + 1
    BY <2>4 DEF Redrive, Redrivable
  <2>5. ASSUME Reading /\ UNCHANGED outboxVars PROVE FALSE
    BY <1>1, <2>5 DEF outboxVars, itemVars
  <2>6. ASSUME NEW i \in Events, Retention(i) PROVE FALSE
    BY <1>1, <2>6 DEF Retention, outboxVars, itemVars
  <2>7. ASSUME NEW x \in Executions, NEW j \in Cycles, ClaimJob(x, j) PROVE FALSE
    BY <1>1, <2>7 DEF ClaimJob, itemVars
  <2>8. ASSUME NEW x \in Executions, WriteJob(x) \/ Crash(x) \/ TransactionFails(x) PROVE FALSE
    BY <1>1, <2>8 DEF WriteJob, Crash, TransactionFails, itemVars
  <2>9. ASSUME NEW j \in Cycles, Sweep(j) PROVE FALSE
    BY <1>1, <2>9 DEF Sweep, itemVars
  <2>10. ASSUME Lapse \/ Outdate PROVE FALSE
    BY <1>1, <2>10 DEF Lapse, Outdate
  <2> QED
    BY <1>1, <2>1, <2>2, <2>3, <2>4, <2>5, <2>6, <2>7, <2>8, <2>9, <2>10 DEF Next, Delivery
<1>2. [Next]_vars => [(status \in Settled /\ status' # status) =>
                         (status = "dead_letter" /\ cycle' = cycle + 1)]_vars
  BY <1>1
<1> QED
  BY <1>2, PTL DEF Spec, FinalStays

(* The acknowledged cursor never moves back.                               *)
THEOREM Monotone == Spec => AckMonotone
<1> DEFINE Moves == /\ acked'.sequence >= acked.sequence
                    /\ acked'.revision = acked.revision +
                           IF acked'.sequence > acked.sequence THEN 1 ELSE 0
<1>1. ASSUME Inv, [Next]_vars PROVE Moves
  <2>1. acked.sequence \in Nat /\ acked.revision \in Nat
    BY <1>1 DEF Inv, JournalInv, JournalTypeOK
  <2>2. CASE acked' = acked
    BY <2>1, <2>2
  <2>3. ASSUME NEW k \in AckKeys, Acknowledge(k), acked' # acked PROVE Moves
    <3>1. /\ sequence[ack[k].event] > acked.sequence
          /\ acked'.sequence = sequence[ack[k].event]
          /\ acked'.revision = acked.revision + 1
      BY <2>3 DEF Acknowledge, Advanced
    <3>2. ack[k].event \in present /\ present \subseteq 1 .. appended /\ appended \in 0 .. MaxEvents
      BY <1>1, <2>3 DEF Acknowledge, Inv, JournalInv, JournalTypeOK
    <3>3. sequence[ack[k].event] \in Nat
      BY <1>1, <3>2 DEF Inv, JournalInv, JournalTypeOK, Numbered
    <3> QED
      BY <2>1, <3>1, <3>3
  <2>4. acked' = acked \/ \E k \in AckKeys : Acknowledge(k)
    BY <1>1 DEF Next, Reading, List, CursorExpired, Page, SendAck, Notify, Retention, Compact,
       ClaimJob, Delivery, WriteJob, ClaimAttempt, RecordSuccess, RecordFailure, Crash,
       TransactionFails, Sweep, Lapse, Outdate, Redrive, journalVars, ackVars, vars
  <2> QED
    BY <2>2, <2>3, <2>4
<1>2. Inv /\ [Next]_vars => [Moves]_journalVars
  BY <1>1
<1> QED
  BY <1>2, Invariance, PTL DEF Spec, AckMonotone
---------------------------------------------------------------------------
(* Senders: at most one more than leases have lapsed on, and none more     *)
(* once nobody holds the lease of an item that may still be sent.          *)
Senders == {x \in Executions : pc[x] \in Delivering}

Held == \E x \in Executions : Holder(x)

FewSenders ==
    /\ IsFiniteSet(Senders) /\ slow \in Nat /\ Cardinality(Senders) <= 1 + slow
    /\ status \notin {"delivered", "expired"} /\ (~waiting \/ ~Held) => Cardinality(Senders) <= slow

LEMMA SameSenders ==
  ASSUME FewSenders, Senders' = Senders, slow' = slow,
         \/ status' \in {"delivered", "expired"}
         \/ /\ status \notin {"delivered", "expired"}
            /\ ~waiting' \/ ~Held' => ~waiting \/ ~Held
  PROVE  FewSenders'
  BY DEF FewSenders

LEMMA OneSenderLess ==
  ASSUME FewSenders, NEW x \in Senders, Senders' = Senders \ {x}, slow' = slow
  PROVE  FewSenders'
<1>1. IsFiniteSet(Senders') /\ Cardinality(Senders') = Cardinality(Senders) - 1
  BY FS_RemoveElement DEF FewSenders
<1>2. Cardinality(Senders) \in Nat
  BY FS_CardinalityType DEF FewSenders
<1> QED
  BY <1>1, <1>2 DEF FewSenders

(* An execution goes elsewhere than to a delivery, or goes on with it; the *)
(* item is as it was.                                                      *)
LEMMA OneMoves ==
  ASSUME Inv, FewSenders, NEW x \in Executions, NEW at, pc' = [pc EXCEPT ![x] = at],
         \A y \in Executions : y # x \/ at \in Delivering => attempt'[y] = attempt[y],
         at \in Delivering => pc[x] \in Delivering,
         UNCHANGED <<status, attemptCount, waiting, slow>>
  PROVE  FewSenders'
<1>1. pc'[x] = at /\ \A y \in Executions : y # x => pc'[y] = pc[y]
  BY DEF Inv, OutboxInv, OutboxTyped, ExecutionsTyped
<1>2. CASE pc[x] \in Delivering /\ at \notin Delivering
  <2>1. x \in Senders /\ Senders' = Senders \ {x}
    BY <1>1, <1>2 DEF Senders
  <2> QED
    BY <2>1, OneSenderLess
<1>3. CASE pc[x] \notin Delivering \/ at \in Delivering
  <2>1. Senders' = Senders
    BY <1>1, <1>3 DEF Senders
  <2>2. ASSUME NEW y \in Executions, Holder(y) PROVE Holder(y)'
    BY <1>1, <1>3, <2>2 DEF Holder, Matching
  <2>3. Held => Held'
    BY <2>2 DEF Held
  <2>4. CASE status \in {"delivered", "expired"}
    BY <2>1, <2>4, SameSenders
  <2>5. CASE status \notin {"delivered", "expired"}
    BY <2>1, <2>3, <2>5, SameSenders
  <2> QED
    BY <2>4, <2>5
<1> QED
  BY <1>2, <1>3

(* The first transaction: a sender more only where no lease is held.       *)
LEMMA ClaimAttemptSenders ==
  ASSUME Inv, FewSenders, NEW x \in Executions, ClaimAttempt(x) PROVE FewSenders'
<1>1. pc[x] = "claiming" /\ slow' = slow
  BY DEF ClaimAttempt
<1>2. x \notin Senders /\ Cardinality(Senders) \in Nat
  BY <1>1, FS_CardinalityType DEF Senders, Delivering, FewSenders
<1>3. CASE /\ status \notin Settled /\ ~waiting /\ status' = "sending" /\ waiting' = TRUE
           /\ attemptCount' = attemptCount + 1 /\ pc' = [pc EXCEPT ![x] = "sending"]
           /\ attempt' = [attempt EXCEPT ![x] = attemptCount + 1]
  <2>1. pc'[x] = "sending" /\ attempt'[x] = attemptCount + 1
        /\ \A y \in Executions : y # x => pc'[y] = pc[y]
    BY <1>3 DEF Inv, OutboxInv, OutboxTyped, ExecutionsTyped
  <2>2. Senders' = Senders \union {x}
    BY <2>1 DEF Senders, Delivering
  <2>3. IsFiniteSet(Senders') /\ Cardinality(Senders') = Cardinality(Senders) + 1
    BY <1>2, <2>2, FS_AddElement DEF FewSenders
  <2>4. Cardinality(Senders) <= slow
    BY <1>3 DEF FewSenders, Settled
  <2>5. Held'
    <3>1. Holder(x)'
      BY <1>3, <2>1 DEF Holder, Matching, Delivering
    <3> QED
      BY <3>1 DEF Held
  <2> QED
    BY <1>1, <1>2, <1>3, <2>3, <2>4, <2>5 DEF FewSenders
<1>4. CASE /\ \E at \in {"succeed", "defer"} : Await(x, at)
           /\ UNCHANGED <<attemptCount, waiting>>
           /\ \/ status' = status \/ status' = "expired"
              \/ status \notin Settled /\ ~waiting /\ status' = "dead_letter"
  <2>1. PICK at \in {"succeed", "defer"} : pc' = [pc EXCEPT ![x] = at] /\ attempt' = attempt
    BY <1>4 DEF Await
  <2>2. at \notin Delivering
    BY DEF Delivering
  <2>3. CASE status' = status
    BY <1>1, <1>4, <2>1, <2>2, <2>3, OneMoves
  <2>4. CASE status' # status
    <3>1. Senders' = Senders
      BY <1>1, <2>1, <2>2 DEF Inv, OutboxInv, OutboxTyped, ExecutionsTyped, Senders, Delivering
    <3> QED
      BY <1>1, <1>4, <2>4, <3>1, SameSenders DEF Settled
  <2> QED
    BY <2>3, <2>4
<1> QED
  BY <1>3, <1>4 DEF ClaimAttempt, Deferred

(* The second: whoever settles an attempt, or hears of it too late.        *)
LEMMA RecordSenders ==
  ASSUME Inv, FewSenders, NEW x \in Executions, RecordSuccess(x) \/ RecordFailure(x)
  PROVE  FewSenders'
<1>1. slow' = slow /\ attemptCount' = attemptCount /\ attempt' = attempt
  BY DEF RecordSuccess, RecordFailure, Await, historyVars
<1>2. pc[x] \in Delivering
  BY DEF RecordSuccess, RecordFailure, Delivering
<1>3. PICK at : pc' = [pc EXCEPT ![x] = at]
  BY DEF RecordSuccess, RecordFailure, Await
<1>4. CASE at \notin Delivering
  <2>1. x \in Senders /\ Senders' = Senders \ {x}
    BY <1>2, <1>3, <1>4 DEF Inv, OutboxInv, OutboxTyped, ExecutionsTyped, Senders
  <2> QED
    BY <1>1, <2>1, OneSenderLess
<1>5. CASE at \in Delivering
  <2>1. pc'[x] \in Delivering
    BY <1>3, <1>5 DEF Inv, OutboxInv, OutboxTyped, ExecutionsTyped
  <2>2. UNCHANGED <<status, waiting>>
    <3>1. CASE RecordSuccess(x)
      <4>1. pc' # [pc EXCEPT ![x] = "succeed"]
        BY <2>1 DEF Inv, OutboxInv, OutboxTyped, ExecutionsTyped, Delivering
      <4> QED
        BY <3>1, <4>1 DEF RecordSuccess, Await
    <3>2. CASE RecordFailure(x)
      <4>1. \A to \in {"succeed", "defer", "error"} : pc' # [pc EXCEPT ![x] = to]
        BY <2>1 DEF Inv, OutboxInv, OutboxTyped, ExecutionsTyped, Delivering
      <4> QED
        BY <3>2, <4>1 DEF RecordFailure, Await, AfterFailure
    <3> QED
      BY <3>1, <3>2
  <2> QED
    BY <1>1, <1>2, <1>3, <2>2, OneMoves
<1> QED
  BY <1>4, <1>5

LEMMA LapseSenders ==
  ASSUME Inv, FewSenders, Lapse PROVE FewSenders'
<1>1. /\ waiting /\ waiting' = FALSE /\ UNCHANGED <<status, pc>>
      /\ (Held /\ slow' = slow + 1) \/ (~Held /\ slow' = slow)
  BY DEF Lapse, Held, exVars
<1>2. Senders' = Senders
  BY <1>1 DEF Senders
<1>3. CASE Held /\ slow' = slow + 1
  <2>1. Cardinality(Senders) \in Nat
    BY FS_CardinalityType DEF FewSenders
  <2> QED
    BY <1>2, <1>3, <2>1 DEF FewSenders
<1>4. CASE ~Held /\ slow' = slow
  BY <1>1, <1>2, <1>4 DEF FewSenders
<1> QED
  BY <1>1, <1>3, <1>4

LEMMA QuietSenders ==
  ASSUME FewSenders, UNCHANGED <<status, attemptCount, waiting, slow, pc, attempt>>
  PROVE  FewSenders'
  BY DEF FewSenders, Senders, Held, Holder, Matching

LEMMA OtherSenders ==
  ASSUME Inv, FewSenders, NEW x \in Executions,
         (\E j \in Cycles : ClaimJob(x, j)) \/ WriteJob(x) \/ Crash(x) \/ TransactionFails(x)
  PROVE  FewSenders'
<1>1. UNCHANGED <<status, attemptCount, waiting, slow>>
  BY DEF ClaimJob, WriteJob, Crash, TransactionFails, itemVars, historyVars
<1>2. CASE \E j \in Cycles : ClaimJob(x, j)
  <2>1. pc' = [pc EXCEPT ![x] = "claiming"] /\ attempt' = attempt /\ "claiming" \notin Delivering
    BY <1>2 DEF ClaimJob, Delivering
  <2> QED
    BY <1>1, <2>1, OneMoves
<1>3. CASE WriteJob(x) \/ Crash(x)
  <2>1. /\ pc' = [pc EXCEPT ![x] = "idle"] /\ "idle" \notin Delivering
        /\ attempt' = [attempt EXCEPT ![x] = 0]
    BY <1>3 DEF WriteJob, Crash, Forget, Delivering
  <2>2. \A y \in Executions : y # x => attempt'[y] = attempt[y]
    BY <2>1 DEF Inv, OutboxInv, OutboxTyped, ExecutionsTyped
  <2> QED
    BY <1>1, <2>1, <2>2, OneMoves
<1>4. CASE TransactionFails(x)
  <2>1. PICK at : /\ pc' = [pc EXCEPT ![x] = at] /\ attempt' = attempt
                  /\ pc[x] \in Delivering \/ at = "error"
    BY <1>4 DEF TransactionFails, Await, Delivering
  <2>2. at \in Delivering => pc[x] \in Delivering
    BY <2>1 DEF Delivering
  <2> QED
    BY <1>1, <2>1, <2>2, OneMoves
<1> QED
  BY <1>2, <1>3, <1>4

LEMMA ItemSenders ==
  ASSUME Inv, FewSenders, Notify \/ \E k \in RedriveKeys : Redrive(k)
  PROVE  FewSenders'
<1>1. /\ UNCHANGED <<slow, pc, attempt>>
      /\ \/ UNCHANGED <<status, attemptCount, waiting>>
         \/ status \in {"none", "dead_letter"}
  BY DEF Notify, Redrive, Redrivable, exVars, historyVars
<1>2. CASE UNCHANGED <<status, attemptCount, waiting>>
  BY <1>1, <1>2, QuietSenders
<1>3. CASE status \in {"none", "dead_letter"}
  <2>1. ~Held /\ Senders' = Senders
    BY <1>1, <1>3 DEF Held, Holder, Matching, Senders
  <2> QED
    BY <1>1, <1>3, <2>1, SameSenders
<1> QED
  BY <1>1, <1>2, <1>3

LEMMA SendersStep == Inv /\ FewSenders /\ [Next]_vars => FewSenders'
<1> SUFFICES ASSUME Inv, FewSenders, [Next]_vars PROVE FewSenders'
  OBVIOUS
<1>1. CASE \/ Reading /\ UNCHANGED outboxVars
           \/ \E i \in Events : Retention(i)
           \/ \E j \in Cycles : Sweep(j)
           \/ Outdate \/ UNCHANGED vars
  <2>1. UNCHANGED <<status, attemptCount, waiting, slow, pc, attempt>>
    BY <1>1 DEF Retention, Sweep, Outdate, vars, outboxVars, itemVars, exVars, historyVars
  <2> QED
    BY <2>1, QuietSenders
<1>2. ASSUME NEW x \in Executions,
             (\E j \in Cycles : ClaimJob(x, j)) \/ Delivery(x) \/ Crash(x) \/ TransactionFails(x)
      PROVE  FewSenders'
  BY <1>2, OtherSenders, ClaimAttemptSenders, RecordSenders DEF Delivery
<1> QED
  BY <1>1, <1>2, LapseSenders, ItemSenders DEF Next

(* However jobs are swept, retried and redriven, an item has one sender    *)
(* more than leases have lapsed on a live one (claimAttempt's scheduledAt).*)
THEOREM Exclusive == Spec => []OneSender
<1>1. Init => FewSenders
  <2> SUFFICES ASSUME Init PROVE FewSenders
    OBVIOUS
  <2>1. Senders = {} /\ slow = 0
    BY DEF Init, Senders, Delivering
  <2> QED
    BY <2>1, FS_EmptySet DEF FewSenders
<1>2. FewSenders => OneSender
  BY DEF FewSenders, Senders, OneSender
<1> QED
  BY <1>1, <1>2, SendersStep, Invariance, PTL DEF Spec
================================================================================
