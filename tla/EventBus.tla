------------------------------ MODULE EventBus ------------------------------
(***************************************************************************)
(* The file-backed event bus: a topic is an append-only file of records, a  *)
(* consumer group is one offset file per topic, and every process that      *)
(* consumes for the group polls through it.                                 *)
(*                                                                         *)
(* poll reads the offset file, reads up to max_records records behind it,   *)
(* writes the offset file and only then hands the batch to its caller.      *)
(* Other processes of the group, and crashes, come between these steps.     *)
(* write_text truncates the file before it writes, and a reader takes an    *)
(* empty offset file for offset 0.                                          *)
(***************************************************************************)
EXTENDS Integers, Sequences, FiniteSets

CONSTANTS
  Topics,      \* the topic files
  Groups,      \* the consumer groups that run
  Subscribes,  \* the topic of each group
  Workers,     \* the processes (replicas) that consume
  Member,      \* the group of each worker
  Records,     \* what a record can carry
  MaxRecords,  \* poll's max_records
  Capacity     \* bound: records a topic file has room for, then writes fail

ASSUME BusAssumption ==
  /\ Subscribes \in [Groups -> Topics]
  /\ Member \in [Workers -> Groups]
  /\ MaxRecords \in Nat \ {0}
  /\ Capacity \in Nat

VARIABLES
  topics,     \* the records of each topic, oldest first
  offsets,    \* what a reader makes of each group's offset file
  poller,     \* each worker: where it is, records it starts after, end of batch
  delivered,  \* history: the positions handed to some worker of the group
  again       \* history: the positions handed out more than once

busVars == <<topics, offsets, poller, delivered, again>>
logs == <<delivered, again>>

Positions == 1..Capacity
Idle == [at |-> "idle", from |-> 0, upto |-> 0]

Lesser(m, n) == IF m <= n THEN m ELSE n
Published(w) == Len(topics[Subscribes[Member[w]]])
Batch(w) == (poller[w].from + 1)..poller[w].upto

BusInit ==
  /\ topics = [t \in Topics |-> << >>]
  /\ offsets = [g \in Groups |-> 0]
  /\ poller = [w \in Workers |-> Idle]
  /\ delivered = [g \in Groups |-> {}]
  /\ again = [g \in Groups |-> {}]

-----------------------------------------------------------------------------
HasRoom(t) == Len(topics[t]) < Capacity
Publish(t, record) ==
  /\ HasRoom(t)
  /\ topics' = [topics EXCEPT ![t] = Append(@, record)]

(* poll: no topic file, no records; else offset = _read_offset              *)
ReadOffset(w) ==
  /\ poller[w].at = "idle"
  /\ Published(w) > 0
  /\ poller' = [poller EXCEPT ![w] = [at |-> "reading", from |-> offsets[Member[w]], upto |-> 0]]
  /\ UNCHANGED <<topics, offsets, logs>>

(* the scan of the topic file, up to max_records behind the offset          *)
ReadRecords(w) ==
  /\ poller[w].at = "reading"
  /\ LET upto == Lesser(poller[w].from + MaxRecords, Published(w))
     IN poller' = [poller EXCEPT ![w] =
                     IF @.from < upto
                     THEN [at |-> "read", from |-> @.from, upto |-> upto] ELSE Idle]
  /\ UNCHANGED <<topics, offsets, logs>>

(* _write_offset: open(..., "w") empties the file ...                       *)
TruncateOffset(w) ==
  /\ poller[w].at = "read"
  /\ poller' = [poller EXCEPT ![w].at = "writing"]
  /\ offsets' = [offsets EXCEPT ![Member[w]] = 0]
  /\ UNCHANGED <<topics, logs>>

HandOut(w) ==
  LET g == Member[w]
  IN /\ poller' = [poller EXCEPT ![w].at = "handling"]
     /\ delivered' = [delivered EXCEPT ![g] = @ \cup Batch(w)]
     /\ again' = [again EXCEPT ![g] = @ \cup (Batch(w) \cap delivered[g])]

(* Mutants of WriteOffset: the offset of the last record read, not of the   *)
(* next one; and the end of the topic, whatever max_records left unread.    *)
WriteOffsetOfLast(w) ==
  /\ poller[w].at = "writing"
  /\ offsets' = [offsets EXCEPT ![Member[w]] = poller[w].upto - 1]
  /\ HandOut(w)
  /\ UNCHANGED topics
WriteOffsetOfEnd(w) ==
  /\ poller[w].at = "writing"
  /\ offsets' = [offsets EXCEPT ![Member[w]] = Published(w)]
  /\ HandOut(w)
  /\ UNCHANGED topics

(* ... and writes str(new_offset); then poll returns its records.           *)
WriteOffset(w) ==
  /\ poller[w].at = "writing"
  /\ offsets' = [offsets EXCEPT ![Member[w]] = poller[w].upto]
  /\ HandOut(w)
  /\ UNCHANGED topics

(* The process dies, or its caller drops the rest of the batch.             *)
Drop(w) == poller' = [poller EXCEPT ![w] = Idle]

Crash(w) ==
  /\ poller[w].at # "idle"
  /\ Drop(w)
  /\ UNCHANGED <<topics, offsets, logs>>

Poll(w) == ReadOffset(w) \/ ReadRecords(w) \/ TruncateOffset(w) \/ WriteOffset(w)

(* What the caller handles next, and the step to the record after it.       *)
Current(w) == topics[Subscribes[Member[w]]][poller[w].from + 1]
Advance(w) ==
  poller' = [poller EXCEPT ![w] =
               IF @.from + 1 < @.upto
               THEN [at |-> "handling", from |-> @.from + 1, upto |-> @.upto] ELSE Idle]

-----------------------------------------------------------------------------
BusTypeOK ==
  /\ topics \in [Topics -> Seq(Records)]
  /\ \A t \in Topics : Len(topics[t]) <= Capacity
  /\ offsets \in [Groups -> 0..Capacity]
  /\ poller \in [Workers -> [at: {"idle", "reading", "read", "writing", "handling"},
                             from: 0..Capacity, upto: 0..Capacity]]
  /\ delivered \in [Groups -> SUBSET Positions]
  /\ again \in [Groups -> SUBSET Positions]

(* A group's offset never passes a record that was not handed to one of its *)
(* workers, whatever offset files its workers overwrite and wherever they   *)
(* crash: poll loses nothing between the topic and its caller.              *)
NothingSkipped == \A g \in Groups : 1..offsets[g] \subseteq delivered[g]

SoleReader(g) == \A v, w \in Workers : Member[v] = g /\ Member[w] = g => v = w
=============================================================================
