--------------------------------- MODULE Journal -------------------------------
(***************************************************************************)
(* The event journal of one Worker deployment: events with workspace       *)
(* sequence numbers (workers/observability/journal.ts), the retention that *)
(* replaces old ones by tombstones (observability/retention.ts), and the   *)
(* Packet product that reads the stream by cursor and acknowledges it      *)
(* (workers/package/events.ts).                                            *)
(*                                                                         *)
(* One store transaction is one step.  An event is numbered as it is       *)
(* appended; its number stands for its id, and for its age.                *)
(***************************************************************************)
EXTENDS Naturals, FiniteSetsExt

CONSTANTS
    Sessions,   \* readers of the stream, all with the same credential
    AckKeys,    \* idempotency keys of acknowledgements
    MaxEvents   \* bound: events ever appended

ASSUME EventsAssumption == MaxEvents \in Nat

VARIABLES
    appended,               \* how many events were appended
    sequence, kind, of,     \* [Events -> ...] a tombstone is of another event
    present,                \* the events that are retained
    cursor, after,          \* a session's cursor; the page it is asking for
    received,               \* [Sessions -> SUBSET Events]
    ack, ackRecords,        \* acknowledgements as sent; the keys recorded
    acked                   \* the acknowledged cursor: event, sequence, revision

eventVars == <<appended, sequence, kind, of, present>>
readerVars == <<cursor, after, received>>
ackVars == <<ack, ackRecords, acked>>
journalVars == <<eventVars, readerVars, ackVars>>

Events == 1 .. MaxEvents
Kinds == {"entry", "redriven", "summary_deleted", "metadata_deleted"}
NoAck == [event |-> 0, expected |-> 0]
NotListing == MaxEvents + 1

JournalTypeOK ==
    /\ appended \in 0 .. MaxEvents
    /\ sequence \in [Events -> 0 .. MaxEvents]
    /\ kind \in [Events -> Kinds] /\ of \in [Events -> 0 .. MaxEvents]
    /\ present \subseteq 1 .. appended
    /\ cursor \in [Sessions -> 0 .. MaxEvents]
    /\ after \in [Sessions -> 0 .. NotListing]
    /\ received \in [Sessions -> SUBSET Events]
    /\ ack \in [AckKeys -> [event : 0 .. MaxEvents, expected : Nat]]
    /\ ackRecords \subseteq AckKeys
    /\ acked \in [event : 0 .. MaxEvents, sequence : 0 .. MaxEvents, revision : Nat]

JournalInit ==
    /\ appended = 0 /\ present = {}
    /\ sequence = [i \in Events |-> 0]
    /\ kind = [i \in Events |-> "entry"] /\ of = [i \in Events |-> 0]
    /\ cursor = [s \in Sessions |-> 0]
    /\ after = [s \in Sessions |-> NotListing]
    /\ received = [s \in Sessions |-> {}]
    /\ ack = [k \in AckKeys |-> NoAck] /\ ackRecords = {}
    /\ acked = [event |-> 0, sequence |-> 0, revision |-> 0]

(***************************************************************************)
(* Appending and compacting                                                *)
(***************************************************************************)
(* nextWorkspaceSequence                                                   *)
NextSequence(there) == Max({sequence[i] : i \in there} \union {0}) + 1

(* appendWorkerJournalEntry, with what is retained once it is there        *)
AppendLeaving(k, o, left) ==
    LET i == appended + 1 IN
    /\ i <= MaxEvents
    /\ appended' = i
    /\ sequence' = [sequence EXCEPT ![i] = NextSequence(present)]
    /\ kind' = [kind EXCEPT ![i] = k]
    /\ of' = [of EXCEPT ![i] = o]
    /\ present' = left \union {i}

Append(k) == AppendLeaving(k, 0, present)

Tombstones == {"summary_deleted", "metadata_deleted"}

(* What the retention would delete.  The older events come first, but any  *)
(* of them may be skipped: one whose evidence has artifacts, or a pinned   *)
(* one.                                                                    *)
Deletable(pinned) == {i \in present \ pinned : kind[i] # "metadata_deleted"}

(* Mutated: a tombstone is deleted as if it had been its own event.        *)
Category_Same(i, category) == category = "summary_deleted"

(* The policy of the pass says which window an event has left first; what  *)
(* a summary tombstone leaves is a metadata tombstone.                     *)
Category(i, category) == kind[i] = "summary_deleted" => category = "metadata_deleted"

(* eventCandidate of a retention pass: the tombstone first                 *)
Compact(i, pinned) ==
    /\ i \in Deletable(pinned)
    /\ \E category \in Tombstones :
         /\ Category(i, category)
         /\ AppendLeaving(category, i, present \ {i})
    /\ UNCHANGED <<readerVars, ackVars>>

(***************************************************************************)
(* Reading                                                                 *)
(***************************************************************************)
(* The first half of listEvents: the cursor is resolved.                   *)
List(s) ==
    /\ after[s] = NotListing
    /\ cursor[s] = 0 \/ cursor[s] \in present
    /\ after' = [after EXCEPT ![s] = IF cursor[s] = 0 THEN 0 ELSE sequence[cursor[s]]]
    /\ UNCHANGED <<eventVars, cursor, received, ackVars>>

(* cursorExpired: the event of the cursor is gone, and the reader begins   *)
(* again (external).                                                       *)
CursorExpired(s) ==
    /\ after[s] = NotListing
    /\ cursor[s] \notin present \union {0}
    /\ cursor' = [cursor EXCEPT ![s] = 0]
    /\ UNCHANGED <<eventVars, after, received, ackVars>>

(* Mutated: the page leaves the tombstones out.                            *)
After_NoTombstones(n) == {i \in present : sequence[i] > n /\ kind[i] \notin Tombstones}

After(n) == {i \in present : sequence[i] > n}

(* The second half: the first events after it, and a cursor to the last.   *)
Page(s) ==
    /\ after[s] # NotListing
    /\ IF After(after[s]) = {} THEN UNCHANGED <<cursor, received>>
       ELSE \E last \in After(after[s]) :
              /\ cursor' = [cursor EXCEPT ![s] = last]
              /\ received' = [received EXCEPT ![s] = @ \union
                     {i \in After(after[s]) : sequence[i] <= sequence[last]}]
    /\ after' = [after EXCEPT ![s] = NotListing]
    /\ UNCHANGED <<eventVars, ackVars>>

(***************************************************************************)
(* Acknowledging                                                           *)
(***************************************************************************)
(* A session acknowledges an event it received, against the revision it    *)
(* has just read.  The request may be delivered late, twice or never.      *)
SendAck(k) ==
    /\ ack[k] = NoAck
    /\ \E s \in Sessions : \E i \in received[s] :
         ack' = [ack EXCEPT ![k] = [event |-> i, expected |-> acked.revision]]
    /\ UNCHANGED <<eventVars, readerVars, ackRecords, acked>>

Advanced(i) == sequence[i] > acked.sequence

(* acknowledge: the event is still there, the key is new and the revision  *)
(* is the expected one.                                                    *)
Acknowledge(k) ==
    LET i == ack[k].event IN
    /\ ack[k] # NoAck /\ k \notin ackRecords
    /\ i \in present
    /\ ack[k].expected = acked.revision
    /\ ackRecords' = ackRecords \union {k}
    /\ acked' = IF Advanced(i)
                THEN [event |-> i, sequence |-> sequence[i], revision |-> acked.revision + 1]
                ELSE acked
    /\ UNCHANGED <<eventVars, readerVars, ack>>

Reading ==
    \/ \E s \in Sessions : List(s) \/ CursorExpired(s) \/ Page(s)
    \/ \E k \in AckKeys : SendAck(k) \/ Acknowledge(k)

(***************************************************************************)
(* Properties                                                              *)
(***************************************************************************)
(* Events are numbered in the order they are appended, and no number is    *)
(* given twice, whatever the retention has deleted meanwhile: a reader may *)
(* rely on the numbers it has seen.                                        *)
SequencesGrow == \A i, j \in 1 .. appended : i < j => sequence[i] < sequence[j]

(* However pages, new events and compactions follow each other, a reader   *)
(* has received every retained event that its cursor has passed: the       *)
(* tombstones of the events it missed among them.                          *)
NothingMissed == \A s \in Sessions : \A i \in present :
    cursor[s] # 0 /\ sequence[i] <= sequence[cursor[s]] => i \in received[s]

(* Nothing disappears without a trace: a deleted event has a retained      *)
(* tombstone, or a deleted tombstone that has one itself.                  *)
Accounted == \A i \in 1 .. appended \ present :
    \E t \in i + 1 .. appended :
        /\ of[t] = i
        /\ t \in present \/ \E u \in present : of[u] = t /\ kind[u] = "metadata_deleted"

(* Sessions that acknowledge at the same time, and repeat themselves,      *)
(* never move the acknowledged cursor back, and each move is one revision. *)
AckMonotone == [][
    /\ acked'.sequence >= acked.sequence
    /\ acked'.revision = acked.revision +
           IF acked'.sequence > acked.sequence THEN 1 ELSE 0]_journalVars
================================================================================
