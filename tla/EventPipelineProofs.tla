------------------------- MODULE EventPipelineProofs -------------------------
(***************************************************************************)
(* Proofs about EventPipeline, for any services, replicas, requests, batch  *)
(* size, topic capacity and number of faults.                               *)
(*                                                                         *)
(* NothingSkipped needs to know where the batches of the workers lie        *)
(* (BatchesInTopic) and that a worker on its way to an offset write starts  *)
(* behind records already handed out (StartsBehindDelivered).  IngestedOnce *)
(* needs to know who may still send an event (OneClaimer, ClaimedUnsent).   *)
(*                                                                         *)
(* The last section is about EventGraph, what one event becomes: the edges  *)
(* of any event, of any parser and with any fields, follow its fields.      *)
(***************************************************************************)
EXTENDS EventPipeline, EventGraph, TLAPS

BatchesInTopic ==
  \A w \in Workers :
    poller[w].at \in {"read", "writing", "handling"} =>
      /\ poller[w].from < poller[w].upto
      /\ poller[w].upto <= Published(w)

StartsBehindDelivered ==
  \A w \in Workers :
    poller[w].at \in {"reading", "read", "writing"} =>
      1..poller[w].from \subseteq delivered[Member[w]]

DeliveryInv == BatchesInTopic /\ NothingSkipped /\ StartsBehindDelivered

(* Of the requests for one event, one at most is about to send it.          *)
OneClaimer ==
  \A q, r \in Requests :
    /\ request[q].at = "claimed" /\ request[r].at = "claimed"
    /\ request[q].event = request[r].event
    => q = r

(* What is claimed is known and not yet sent; what is sent is known.        *)
ClaimedUnsent ==
  /\ \A r \in Requests : request[r].at = "claimed" => request[r].event \in seen
  /\ \A e \in Records : Ingested(e) # {} =>
       /\ e \in seen
       /\ \A r \in Requests : request[r].at = "claimed" => request[r].event # e

IngestionInv == IngestedOnce /\ OneClaimer /\ ClaimedUnsent

IInv == TypeOK /\ DeliveryInv /\ IngestionInv

-----------------------------------------------------------------------------
Consumer(w) ==
  ReadOffset(w) \/ ReadRecords(w) \/ TruncateOffset(w) \/ WriteOffset(w) \/ Crash(w)

(* A publish into a topic with room keeps the topics' types and what they   *)
(* hold.                                                                    *)
TopicsGrow ==
  /\ topics' \in [Topics -> Seq(Records)]
  /\ \A u \in Topics : Len(topics'[u]) <= Capacity /\ Len(topics[u]) <= Len(topics'[u])

LEMMA PublishType ==
  ASSUME BusTypeOK, NEW t \in Topics, NEW e \in Records, Publish(t, e)
  PROVE  /\ TopicsGrow
         /\ \A u \in Topics : \A p \in DOMAIN topics[u] :
              p \in DOMAIN topics'[u] /\ topics'[u][p] = topics[u][p]
         /\ \A u \in Topics \ {t} : topics'[u] = topics[u]
         /\ Len(topics'[t]) = Len(topics[t]) + 1
         /\ topics'[t][Len(topics[t]) + 1] = e
<1>1. /\ topics \in [Topics -> Seq(Records)]
      /\ \A u \in Topics : Len(topics[u]) <= Capacity
      /\ Len(topics[t]) < Capacity
      /\ topics' = [topics EXCEPT ![t] = Append(topics[t], e)]
      /\ Capacity \in Nat
  BY BusAssumption DEF BusTypeOK, Publish, HasRoom
<1>2. topics[t] \in Seq(Records) /\ Append(topics[t], e) \in Seq(Records)
  BY <1>1
<1>3. /\ topics'[t] = Append(topics[t], e)
      /\ \A u \in Topics \ {t} : topics'[u] = topics[u]
      /\ topics' \in [Topics -> Seq(Records)]
  BY <1>1, <1>2
<1>4. /\ Len(topics'[t]) = Len(topics[t]) + 1
      /\ topics'[t][Len(topics[t]) + 1] = e
      /\ \A p \in DOMAIN topics[t] : p \in DOMAIN topics'[t] /\ topics'[t][p] = topics[t][p]
  BY <1>2, <1>3
<1>5. \A u \in Topics : Len(topics[u]) \in Nat
  BY <1>1
<1>6. QED
  BY <1>1, <1>3, <1>4, <1>5 DEF TopicsGrow

(* The topic a handler publishes to is not raw, and is dlq for unparsable   *)
(* records only.                                                            *)
LEMMA PublishesTo ==
  ASSUME NEW g \in Groups, NEW e \in Records, NEW t \in Publishes(g, e)
  PROVE  /\ t # "none" => t \in Topics
         /\ t # "raw"
         /\ t = "dlq" => e \notin Malformed
BY PipelineAssumption DEF Publishes, Normalize, Services

(* The record a worker handles is one of its topic.                         *)
LEMMA CurrentType ==
  ASSUME TypeOK, BatchesInTopic, NEW w \in Workers, poller[w].at = "handling"
  PROVE  Current(w) \in Records
<1>1. /\ Subscribes[Member[w]] \in Topics
      /\ topics[Subscribes[Member[w]]] \in Seq(Records)
      /\ poller[w].from \in Nat /\ poller[w].upto \in Nat
      /\ poller[w].from < poller[w].upto
      /\ poller[w].upto <= Len(topics[Subscribes[Member[w]]])
  BY BusAssumption DEF TypeOK, BusTypeOK, BatchesInTopic, Published
<1>2. QED
  BY <1>1 DEF Current

-----------------------------------------------------------------------------
(* The type invariant.                                                      *)
LEMMA InitType == Init => TypeOK
BY BusAssumption, PipelineAssumption DEF Init, BusInit, TypeOK, BusTypeOK, Idle

LEMMA ConsumerType ==
  ASSUME TypeOK, BatchesInTopic, NEW w \in Workers, Consumer(w)
  PROVE  BusTypeOK'
<1>1. /\ Member[w] \in Groups /\ Subscribes[Member[w]] \in Topics
      /\ MaxRecords \in Nat /\ Capacity \in Nat
  BY BusAssumption
<1>2. BusTypeOK
  BY DEF TypeOK
<1>3. /\ Published(w) \in 0..Capacity
      /\ offsets[Member[w]] \in 0..Capacity
      /\ poller[w].from \in 0..Capacity
      /\ poller[w].upto \in 0..Capacity
  BY <1>1, <1>2 DEF BusTypeOK, Published
<1>4. CASE ReadOffset(w)
  BY <1>1, <1>2, <1>3, <1>4 DEF ReadOffset, BusTypeOK, logs
<1>5. CASE ReadRecords(w)
  <2>1. Lesser(poller[w].from + MaxRecords, Published(w)) \in 0..Capacity
    BY <1>1, <1>3 DEF Lesser
  <2>2. QED
    BY <2>1, <1>1, <1>2, <1>3, <1>5 DEF ReadRecords, BusTypeOK, Idle, logs
<1>6. CASE TruncateOffset(w)
  BY <1>1, <1>2, <1>3, <1>6 DEF TruncateOffset, BusTypeOK, logs
<1>7. CASE WriteOffset(w)
  <2>1. Batch(w) \subseteq Positions
    BY <1>1, <1>3 DEF Batch, Positions
  <2>2. QED
    BY <2>1, <1>1, <1>2, <1>3, <1>7 DEF WriteOffset, HandOut, BusTypeOK
<1>8. CASE Crash(w)
  BY <1>1, <1>2, <1>8 DEF Crash, Drop, BusTypeOK, Idle, logs
<1>9. QED
  BY <1>4, <1>5, <1>6, <1>7, <1>8 DEF Consumer

(* A step of a worker on the bus keeps what NothingSkipped rests on: the    *)
(* offset is written after the batch behind it, and with it.                *)
LEMMA ConsumerDelivery ==
  ASSUME TypeOK, DeliveryInv, NEW w \in Workers, Consumer(w)
  PROVE  BatchesInTopic' /\ NothingSkipped' /\ StartsBehindDelivered'
<1>1. /\ Member \in [Workers -> Groups]
      /\ Member[w] \in Groups
      /\ \A v \in Workers : Subscribes[Member[v]] \in Topics
      /\ MaxRecords \in Nat \ {0} /\ Capacity \in Nat
  BY BusAssumption
<1>2. BusTypeOK /\ BatchesInTopic /\ NothingSkipped /\ StartsBehindDelivered
  BY DEF DeliveryInv, TypeOK
<1>3. /\ \A v \in Workers : Published(v) \in 0..Capacity
      /\ \A v \in Workers : poller[v].from \in 0..Capacity /\ poller[v].upto \in 0..Capacity
      /\ \A g \in Groups : offsets[g] \in 0..Capacity
      /\ DOMAIN poller = Workers /\ DOMAIN offsets = Groups /\ DOMAIN delivered = Groups
  BY <1>1, <1>2 DEF BusTypeOK, Published
<1>4. topics' = topics
  BY DEF Consumer, ReadOffset, ReadRecords, TruncateOffset, WriteOffset, Crash
<1>5. \A v \in Workers \ {w} : poller'[v] = poller[v]
  BY <1>3 DEF Consumer, ReadOffset, ReadRecords, TruncateOffset, WriteOffset, HandOut, Crash, Drop
<1>6. CASE ReadOffset(w)
  <2>1. poller'[w] = [at |-> "reading", from |-> offsets[Member[w]], upto |-> 0]
    BY <1>3, <1>6 DEF ReadOffset
  <2>2. offsets' = offsets /\ delivered' = delivered
    BY <1>6 DEF ReadOffset, logs
  <2>3. 1..offsets[Member[w]] \subseteq delivered[Member[w]]
    BY <1>1, <1>2 DEF NothingSkipped
  <2>4. QED
    BY <2>1, <2>2, <2>3, <1>2, <1>4, <1>5
       DEF BatchesInTopic, NothingSkipped, StartsBehindDelivered, Published
<1>7. CASE ReadRecords(w)
  <2> DEFINE upto == Lesser(poller[w].from + MaxRecords, Published(w))
  <2>1. upto <= Published(w)
    BY <1>1, <1>3 DEF Lesser
  <2>2. /\ poller[w].at = "reading"
        /\ \/ poller[w].from < upto
              /\ poller'[w] = [at |-> "read", from |-> poller[w].from, upto |-> upto]
           \/ poller'[w] = Idle
    BY <1>3, <1>7 DEF ReadRecords
  <2>3. offsets' = offsets /\ delivered' = delivered
    BY <1>7 DEF ReadRecords, logs
  <2>4. BatchesInTopic'
    BY <2>1, <2>2, <1>2, <1>4, <1>5 DEF BatchesInTopic, Published, Idle
  <2>5. NothingSkipped' /\ StartsBehindDelivered'
    BY <2>2, <2>3, <1>2, <1>5 DEF NothingSkipped, StartsBehindDelivered, Idle
  <2>6. QED
    BY <2>4, <2>5
<1>8. CASE TruncateOffset(w)
  <2>1. /\ poller[w].at = "read"
        /\ poller'[w] = [poller[w] EXCEPT !.at = "writing"]
        /\ delivered' = delivered
        /\ offsets' = [offsets EXCEPT ![Member[w]] = 0]
    BY <1>3, <1>8 DEF TruncateOffset, logs
  <2>2. /\ poller'[w].at = "writing"
        /\ poller'[w].from = poller[w].from /\ poller'[w].upto = poller[w].upto
    BY <2>1, <1>2 DEF BusTypeOK
  <2>3. BatchesInTopic' /\ StartsBehindDelivered'
    BY <2>1, <2>2, <1>2, <1>4, <1>5 DEF BatchesInTopic, StartsBehindDelivered, Published
  <2>4. NothingSkipped'
    BY <2>1, <1>2, <1>3 DEF NothingSkipped
  <2>5. QED
    BY <2>3, <2>4
<1>9. CASE WriteOffset(w)
  <2>1. /\ poller[w].at = "writing"
        /\ poller'[w] = [poller[w] EXCEPT !.at = "handling"]
        /\ delivered' = [delivered EXCEPT ![Member[w]] = delivered[Member[w]] \cup Batch(w)]
        /\ offsets' = [offsets EXCEPT ![Member[w]] = poller[w].upto]
    BY <1>3, <1>9 DEF WriteOffset, HandOut
  <2>2. /\ poller'[w].at = "handling"
        /\ poller'[w].from = poller[w].from /\ poller'[w].upto = poller[w].upto
    BY <2>1, <1>2 DEF BusTypeOK
  <2>3. BatchesInTopic'
    BY <2>1, <2>2, <1>2, <1>4, <1>5 DEF BatchesInTopic, Published
  <2>4. \A g \in Groups : delivered[g] \subseteq delivered'[g]
    BY <2>1, <1>3
  <2>5. StartsBehindDelivered'
    BY <2>2, <2>4, <1>1, <1>2, <1>5 DEF StartsBehindDelivered
  <2>6. 1..poller[w].upto \subseteq delivered'[Member[w]]
    <3>1. 1..poller[w].from \subseteq delivered[Member[w]]
      BY <2>1, <1>2 DEF StartsBehindDelivered
    <3>2. 1..poller[w].upto \subseteq (1..poller[w].from) \cup Batch(w)
      BY <1>3 DEF Batch
    <3>3. QED
      BY <3>1, <3>2, <2>1, <1>1, <1>3
  <2>7. NothingSkipped'
    BY <2>1, <2>4, <2>6, <1>1, <1>2, <1>3 DEF NothingSkipped
  <2>8. QED
    BY <2>3, <2>5, <2>7
<1>10. CASE Crash(w)
  <2>1. poller'[w].at = "idle" /\ offsets' = offsets /\ delivered' = delivered
    BY <1>3, <1>10 DEF Crash, Drop, Idle, logs
  <2>2. QED
    BY <2>1, <1>2, <1>4, <1>5
       DEF BatchesInTopic, NothingSkipped, StartsBehindDelivered, Published
<1>11. QED
  BY <1>6, <1>7, <1>8, <1>9, <1>10 DEF Consumer

(* What a handler leaves behind: a longer topic, and its worker one record  *)
(* further or idle.                                                         *)
LEMMA HandleStep ==
  ASSUME TypeOK, BatchesInTopic, NEW w \in Workers, Handle(w)
  PROVE  /\ TopicsGrow
         /\ BusTypeOK'
         /\ BatchesInTopic'
         /\ poller'[w].at \in {"handling", "idle"}
         /\ \A v \in Workers \ {w} : poller'[v] = poller[v]
<1>1. /\ poller[w].at = "handling"
      /\ Current(w) \in Records
      /\ Member[w] \in Groups
      /\ Capacity \in Nat
      /\ \A v \in Workers : Subscribes[Member[v]] \in Topics
      /\ UNCHANGED <<offsets, delivered, again>>
  BY BusAssumption, CurrentType DEF Handle, logs
<1>2. BusTypeOK /\ \A t \in Topics : Len(topics[t]) \in Nat
  BY DEF TypeOK, BusTypeOK
<1>3. TopicsGrow
  <2>1. PICK t \in Publishes(Member[w], Current(w)) :
          IF t = "none" THEN UNCHANGED topics ELSE Publish(t, Current(w))
    BY DEF Handle
  <2>2. CASE t = "none"
    BY <2>1, <2>2, <1>2 DEF TopicsGrow, BusTypeOK
  <2>3. CASE t # "none"
    BY <2>1, <2>3, <1>1, <1>2, PublishesTo, PublishType
  <2>4. QED
    BY <2>2, <2>3
<1>4. /\ \A v \in Workers : poller[v].from \in 0..Capacity /\ poller[v].upto \in 0..Capacity
      /\ DOMAIN poller = Workers
  BY <1>2 DEF BusTypeOK
<1>5. /\ \A v \in Workers \ {w} : poller'[v] = poller[v]
      /\ \/ /\ poller[w].from + 1 < poller[w].upto
            /\ poller'[w] = [at |-> "handling", from |-> poller[w].from + 1, upto |-> poller[w].upto]
         \/ poller'[w] = Idle
  <2>1. poller' = [poller EXCEPT ![w] =
                     IF poller[w].from + 1 < poller[w].upto
                     THEN [at |-> "handling", from |-> poller[w].from + 1, upto |-> poller[w].upto]
                     ELSE Idle]
    BY DEF Handle, Advance
  <2>2. QED
    BY <2>1, <1>4
<1>6. \/ /\ poller'[w].at = "handling"
         /\ poller'[w].from = poller[w].from + 1
         /\ poller'[w].upto = poller[w].upto
         /\ poller[w].from + 1 < poller[w].upto
      \/ poller'[w] = Idle /\ poller'[w].at = "idle"
  BY <1>1, <1>2, <1>5 DEF BusTypeOK, Idle
<1>7. BatchesInTopic'
  <2>1. ASSUME NEW v \in Workers, poller'[v].at \in {"read", "writing", "handling"}
        PROVE  /\ poller'[v].from < poller'[v].upto
               /\ poller'[v].upto <= Len(topics'[Subscribes[Member[v]]])
    <3>1. Len(topics[Subscribes[Member[v]]]) <= Len(topics'[Subscribes[Member[v]]])
      BY <1>1, <1>3 DEF TopicsGrow
    <3>2. /\ poller'[v].from < poller'[v].upto
          /\ poller'[v].upto <= Len(topics[Subscribes[Member[v]]])
      <4>1. CASE v = w
        BY <2>1, <4>1, <1>1, <1>6 DEF BatchesInTopic, Published
      <4>2. CASE v # w
        BY <2>1, <4>2, <1>5 DEF BatchesInTopic, Published
      <4>3. QED
        BY <4>1, <4>2
    <3>3. /\ poller'[v].upto \in Nat
          /\ Len(topics[Subscribes[Member[v]]]) \in Nat
          /\ Len(topics'[Subscribes[Member[v]]]) \in Nat
      <4>1. topics'[Subscribes[Member[v]]] \in Seq(Records)
        BY <1>1, <1>3 DEF TopicsGrow
      <4>2. poller'[v].upto \in Nat
        BY <1>1, <1>4, <1>5, <1>6 DEF Idle
      <4>3. QED
        BY <4>1, <4>2, <1>1, <1>2
    <3>4. QED
      BY <3>1, <3>2, <3>3
  <2>2. QED
    BY <2>1 DEF BatchesInTopic, Published
<1>8. BusTypeOK'
  <2>1. poller' \in [Workers -> [at: {"idle", "reading", "read", "writing", "handling"},
                                 from: 0..Capacity, upto: 0..Capacity]]
    <3>1. poller'[w] \in [at: {"idle", "reading", "read", "writing", "handling"},
                          from: 0..Capacity, upto: 0..Capacity]
      BY <1>1, <1>4, <1>5 DEF Idle
    <3>2. poller' = [poller EXCEPT ![w] = poller'[w]]
      BY <1>5 DEF Handle, Advance
    <3>3. QED
      BY <3>1, <3>2, <1>2 DEF BusTypeOK
  <2>2. QED
    BY <2>1, <1>1, <1>2, <1>3 DEF BusTypeOK, TopicsGrow
<1>9. QED
  BY <1>3, <1>5, <1>6, <1>7, <1>8

-----------------------------------------------------------------------------
(* Types and deliveries: the steps of a request.                            *)
LEMMA RequestDelivery ==
  ASSUME IInv, NEW r \in Requests, Claim(r) \/ Send(r) \/ SendFails(r)
  PROVE  TypeOK' /\ DeliveryInv'
<1>1. TypeOK /\ BusTypeOK /\ DeliveryInv /\ IngestionInv
  BY DEF IInv, TypeOK
<1>2. UNCHANGED <<offsets, poller, delivered, again>>
  BY DEF Claim, Send, SendFails, busVars, logs
<1>3. TopicsGrow
  <2>1. \A t \in Topics : Len(topics[t]) \in Nat /\ Len(topics[t]) <= Capacity
    BY <1>1 DEF BusTypeOK
  <2>2. CASE topics' = topics
    BY <2>1, <2>2, <1>1 DEF TopicsGrow, BusTypeOK
  <2>3. CASE Send(r)
    <3>1. request[r].event \in Records
      BY <2>3, <1>1 DEF Send, IngestionInv, ClaimedUnsent, TypeOK
    <3>2. PICK t \in {"raw", "dlq"} : Publish(t, request[r].event)
      BY <2>3 DEF Send
    <3>3. t \in Topics
      BY PipelineAssumption
    <3>4. QED
      BY <3>1, <3>2, <3>3, <1>1, PublishType
  <2>4. QED
    BY <2>2, <2>3 DEF Claim, SendFails, busVars
<1>4. BusTypeOK'
  BY <1>1, <1>2, <1>3 DEF BusTypeOK, TopicsGrow
<1>5. DeliveryInv'
  <2>1. ASSUME NEW w \in Workers, poller[w].at \in {"read", "writing", "handling"}
        PROVE  poller[w].upto <= Published(w)'
    <3>1. Subscribes[Member[w]] \in Topics
      BY BusAssumption
    <3>2. poller[w].upto <= Published(w) /\ Published(w) <= Published(w)'
      BY <2>1, <3>1, <1>1, <1>3 DEF DeliveryInv, BatchesInTopic, TopicsGrow, Published
    <3>3. /\ Published(w) \in Nat /\ Published(w)' \in Nat
          /\ poller[w].upto \in 0..Capacity /\ Capacity \in Nat
      BY <3>1, <1>1, <1>3, BusAssumption DEF BusTypeOK, TopicsGrow, Published
    <3>4. QED
      BY <3>2, <3>3
  <2>2. BatchesInTopic'
    BY <2>1, <1>1, <1>2 DEF DeliveryInv, BatchesInTopic
  <2>3. QED
    BY <2>2, <1>1, <1>2 DEF DeliveryInv, NothingSkipped, StartsBehindDelivered
<1>6. /\ seen' \subseteq Records
      /\ faults' \in 0..MaxFaults
      /\ request' \in [Requests ->
           [at: {"idle", "claimed", "duplicate", "dead_lettered", "accepted", "failed"},
            event: Records \cup {"none"}]]
  <2>1. PICK at \in {"claimed", "duplicate", "dead_lettered", "accepted", "failed"},
             e \in Records \cup {"none"} : Move(r, at, e)
    BY <1>1 DEF Claim, Send, SendFails, TypeOK
  <2>2. request' = [request EXCEPT ![r] = [at |-> at, event |-> e]]
    BY <2>1 DEF Move
  <2>3. seen' \subseteq Records /\ faults' \in 0..MaxFaults
    BY <1>1, PipelineAssumption DEF Claim, SeenBefore, Send, SendFails, Fault, TypeOK
  <2>4. QED
    BY <2>2, <2>3, <1>1 DEF TypeOK
<1>7. QED
  BY <1>4, <1>5, <1>6 DEF TypeOK

(* Types and deliveries: the steps of a worker.                             *)
LEMMA WorkerDelivery ==
  ASSUME IInv, NEW w \in Workers, Consume(w) \/ Raises(w) \/ Crashes(w)
  PROVE  TypeOK' /\ DeliveryInv'
<1>1. TypeOK /\ DeliveryInv /\ BatchesInTopic /\ BusTypeOK
  BY DEF IInv, DeliveryInv, TypeOK
<1>2. /\ UNCHANGED ingestion
      /\ faults' \in 0..MaxFaults
  BY <1>1, PipelineAssumption
     DEF Consume, Polls, Handle, RaisesOnFull, Raises, Crashes, Fault, TypeOK
<1>3. BusTypeOK' /\ DeliveryInv'
  <2>1. CASE Handle(w)
    <3>1. /\ BusTypeOK' /\ BatchesInTopic'
          /\ poller'[w].at \in {"handling", "idle"}
          /\ \A v \in Workers \ {w} : poller'[v] = poller[v]
      BY <2>1, <1>1, HandleStep
    <3>2. UNCHANGED <<offsets, delivered>>
      BY <2>1 DEF Handle, logs
    <3>3. QED
      BY <3>1, <3>2, <1>1 DEF DeliveryInv, NothingSkipped, StartsBehindDelivered
  <2>2. CASE Raises(w) \/ RaisesOnFull(w)
    <3>1. Crash(w)
      BY <2>2 DEF Raises, RaisesOnFull, Crash
    <3>2. QED
      BY <3>1, <1>1, ConsumerType, ConsumerDelivery DEF Consumer, DeliveryInv
  <2>3. CASE Polls(w) \/ Crashes(w)
    <3>1. Consumer(w)
      BY <2>3 DEF Polls, Poll, Crashes, Consumer
    <3>2. QED
      BY <3>1, <1>1, ConsumerType, ConsumerDelivery DEF DeliveryInv
  <2>4. QED
    BY <2>1, <2>2, <2>3 DEF Consume
<1>4. QED
  BY <1>1, <1>2, <1>3 DEF TypeOK, ingestion

-----------------------------------------------------------------------------
(* Where an event is after a publish: where it was, and at the new position *)
(* if it is what was published, to a topic that counts for it.              *)
LEMMA PlacesAfterPublish ==
  ASSUME BusTypeOK, NEW t \in {"raw", "dlq", "normalized", "enriched", "graph", "alerts"},
         NEW x \in Records, Publish(t, x), NEW e \in Records
  PROVE  /\ Ingested(e) \subseteq Ingested(e)'
         /\ \A place \in Ingested(e)' \ Ingested(e) :
              x = e /\ t \in IngestedTo(e) /\ place = <<t, Len(topics[t]) + 1>>
<1>1. t \in Topics /\ {"raw", "dlq"} \subseteq Topics
  BY PipelineAssumption
<1>2. /\ \A u \in Topics : \A p \in DOMAIN topics[u] :
           p \in DOMAIN topics'[u] /\ topics'[u][p] = topics[u][p]
      /\ \A u \in Topics \ {t} : topics'[u] = topics[u]
      /\ topics'[t][Len(topics[t]) + 1] = x
  BY <1>1, PublishType
<1>3. \A p \in DOMAIN topics'[t] : p \in DOMAIN topics[t] \/ p = Len(topics[t]) + 1
  <2>1. topics[t] \in Seq(Records) /\ topics' \in [Topics -> Seq(Records)]
    BY <1>1, PublishType DEF BusTypeOK, TopicsGrow
  <2>2. topics'[t] = Append(topics[t], x)
    BY <1>1, <2>1 DEF Publish, BusTypeOK
  <2>3. QED
    BY <2>1, <2>2
<1>4. IngestedTo(e) \subseteq {"raw", "dlq"}
  BY DEF IngestedTo
<1>5. Ingested(e) \subseteq Ingested(e)'
  BY <1>1, <1>2, <1>4 DEF Ingested
<1>6. ASSUME NEW place \in Ingested(e)', place \notin Ingested(e)
      PROVE  x = e /\ t \in IngestedTo(e) /\ place = <<t, Len(topics[t]) + 1>>
  <2>1. /\ place \in IngestedTo(e) \X Positions
        /\ place = <<place[1], place[2]>>
        /\ place[1] \in IngestedTo(e)
        /\ place[2] \in DOMAIN topics'[place[1]]
        /\ topics'[place[1]][place[2]] = e
    BY <1>6 DEF Ingested
  <2>2. ~ (place[2] \in DOMAIN topics[place[1]] /\ topics[place[1]][place[2]] = e)
    BY <2>1, <1>6 DEF Ingested
  <2>3. place[1] = t
    BY <2>1, <2>2, <1>1, <1>2, <1>4
  <2>4. place[2] = Len(topics[t]) + 1
    BY <2>1, <2>2, <2>3, <1>1, <1>2, <1>3
  <2>5. QED
    BY <2>1, <2>3, <2>4, <1>2
<1>7. QED
  BY <1>5, <1>6

(* No worker publishes where an ingested event could be counted.            *)
LEMMA WorkerIngestion ==
  ASSUME IInv, NEW w \in Workers, Consume(w) \/ Raises(w) \/ Crashes(w)
  PROVE  IngestionInv'
<1>1. TypeOK /\ BusTypeOK /\ BatchesInTopic /\ IngestionInv
  BY DEF IInv, DeliveryInv, TypeOK
<1>2. UNCHANGED <<seen, request>>
  BY DEF Consume, Polls, Handle, RaisesOnFull, Raises, Crashes, ingestion
<1>3. ASSUME NEW e \in Records PROVE Ingested(e)' = Ingested(e)
  <2>1. CASE topics' = topics
    BY <2>1 DEF Ingested
  <2>2. CASE Handle(w)
    <3>1. Current(w) \in Records /\ Member[w] \in Groups
      BY <2>2, <1>1, CurrentType, BusAssumption DEF Handle
    <3>2. PICK t \in Publishes(Member[w], Current(w)) :
            IF t = "none" THEN UNCHANGED topics ELSE Publish(t, Current(w))
      BY <2>2 DEF Handle
    <3>3. CASE t = "none"
      BY <3>2, <3>3, <2>1
    <3>4. CASE t # "none"
      <4>1. Publish(t, Current(w))
        BY <3>2, <3>4
      <4>2. /\ t \in {"dlq", "normalized", "enriched", "graph", "alerts"}
            /\ t = "dlq" => Current(w) \notin Malformed
        BY <3>1, <3>4, PipelineAssumption DEF Publishes, Normalize, Services
      <4>3. ~ (Current(w) = e /\ t \in IngestedTo(e))
        BY <4>2 DEF IngestedTo
      <4>4. QED
        BY <4>1, <4>2, <4>3, <3>1, <1>1, PlacesAfterPublish
    <3>5. QED
      BY <3>3, <3>4
  <2>3. QED
    BY <2>1, <2>2
       DEF Consume, Polls, Poll, ReadOffset, ReadRecords, TruncateOffset, WriteOffset,
           RaisesOnFull, Raises, Crashes, Crash
<1>4. seen \subseteq Records
  BY <1>1 DEF TypeOK
<1>5. IngestedOnce'
  BY <1>1, <1>3 DEF IngestionInv, IngestedOnce
<1>6. OneClaimer'
  BY <1>1, <1>2 DEF IngestionInv, OneClaimer
<1>7. ClaimedUnsent'
  BY <1>1, <1>2, <1>3, <1>4 DEF IngestionInv, ClaimedUnsent
<1>8. QED
  BY <1>5, <1>6, <1>7 DEF IngestionInv

(* A claim is the first of its event; a send is the claimer's.              *)
LEMMA RequestIngestion ==
  ASSUME IInv, NEW r \in Requests, Claim(r) \/ Send(r) \/ SendFails(r)
  PROVE  IngestionInv'
<1>1. /\ TypeOK /\ BusTypeOK
      /\ IngestedOnce /\ OneClaimer /\ ClaimedUnsent
      /\ DOMAIN request = Requests
  BY DEF IInv, IngestionInv, TypeOK
<1>2. CASE Claim(r)
  <2>1. PICK e \in Records :
          /\ seen' = seen \cup {e}
          /\ request' = [request EXCEPT ![r] =
               [at |-> IF e \in seen THEN "duplicate" ELSE "claimed", event |-> e]]
    BY <1>2 DEF Claim, SeenBefore, Move
  <2>2. /\ request'[r].event = e
        /\ request'[r].at = "claimed" => e \notin seen
        /\ \A q \in Requests \ {r} : request'[q] = request[q]
    BY <2>1, <1>1
  <2>3. \A x \in Records : Ingested(x)' = Ingested(x)
    BY <1>2 DEF Claim, busVars, Ingested
  <2>4. IngestedOnce'
    BY <2>3, <1>1 DEF IngestedOnce
  <2>5. OneClaimer'
    BY <2>2, <1>1 DEF OneClaimer, ClaimedUnsent
  <2>6. ClaimedUnsent'
    <3>1. \A q \in Requests : request'[q].at = "claimed" => request'[q].event \in seen'
      BY <2>1, <2>2, <1>1 DEF ClaimedUnsent
    <3>2. ASSUME NEW x \in Records, Ingested(x)' # {}
          PROVE  /\ x \in seen'
                 /\ \A q \in Requests : request'[q].at = "claimed" => request'[q].event # x
      <4>1. Ingested(x) # {}
        BY <3>2, <2>3
      <4>2. QED
        BY <4>1, <2>1, <2>2, <1>1 DEF ClaimedUnsent
    <3>3. QED
      BY <3>1, <3>2 DEF ClaimedUnsent
  <2>7. QED
    BY <2>4, <2>5, <2>6 DEF IngestionInv
<1>3. CASE Send(r)
  <2> DEFINE e == request[r].event
  <2>1. /\ request[r].at = "claimed"
        /\ e \in seen /\ e \in Records
        /\ seen' = seen
    BY <1>3, <1>1 DEF Send, ClaimedUnsent, TypeOK
  <2>2. PICK t \in {"raw", "dlq"} : Publish(t, e)
    BY <1>3 DEF Send
  <2>3. /\ request'[r].at # "claimed"
        /\ \A q \in Requests \ {r} : request'[q] = request[q]
    BY <1>3, <1>1 DEF Send, Move
  <2>4. ASSUME NEW x \in Records, x # e PROVE Ingested(x)' = Ingested(x)
    <3>1. /\ Ingested(x) \subseteq Ingested(x)'
          /\ \A place \in Ingested(x)' \ Ingested(x) : e = x
      BY <2>1, <2>2, <1>1, PlacesAfterPublish
    <3>2. QED
      BY <3>1, <2>4
  <2>5. ASSUME NEW x \in Records, x = e,
               NEW p \in Ingested(x)', NEW q \in Ingested(x)'
        PROVE  p = q
    <3>1. Ingested(x) = {}
      BY <2>1, <2>5, <1>1 DEF ClaimedUnsent
    <3>2. \A place \in Ingested(x)' \ Ingested(x) : place = <<t, Len(topics[t]) + 1>>
      BY <2>1, <2>2, <1>1, PlacesAfterPublish
    <3>3. QED
      BY <3>1, <3>2
  <2>6. IngestedOnce'
    <3> SUFFICES ASSUME NEW x \in Records, NEW p \in Ingested(x)', NEW q \in Ingested(x)'
                 PROVE  p = q
      BY DEF IngestedOnce
    <3>1. CASE x = e
      BY <3>1, <2>5
    <3>2. CASE x # e
      <4>1. p \in Ingested(x) /\ q \in Ingested(x)
        BY <3>2, <2>4
      <4>2. QED
        BY <4>1, <1>1 DEF IngestedOnce
    <3>3. QED
      BY <3>1, <3>2
  <2>7. OneClaimer'
    BY <2>3, <1>1 DEF OneClaimer
  <2>8. ClaimedUnsent'
    <3>1. \A q \in Requests : request'[q].at = "claimed" =>
            request'[q].event \in seen' /\ request'[q].event # e
      BY <2>1, <2>3, <1>1 DEF ClaimedUnsent, OneClaimer
    <3>2. ASSUME NEW x \in Records, Ingested(x)' # {}
          PROVE  /\ x \in seen'
                 /\ \A q \in Requests : request'[q].at = "claimed" => request'[q].event # x
      <4>1. CASE x = e
        BY <4>1, <3>1, <2>1
      <4>2. CASE x # e
        <5>1. Ingested(x) # {}
          BY <3>2, <4>2, <2>4
        <5>2. QED
          BY <5>1, <2>1, <2>3, <1>1 DEF ClaimedUnsent
      <4>3. QED
        BY <4>1, <4>2
    <3>3. QED
      BY <3>1, <3>2 DEF ClaimedUnsent
  <2>9. QED
    BY <2>6, <2>7, <2>8 DEF IngestionInv
<1>4. CASE SendFails(r)
  <2>1. /\ topics' = topics /\ seen' = seen
        /\ request'[r].at = "failed"
        /\ \A q \in Requests \ {r} : request'[q] = request[q]
    BY <1>4, <1>1 DEF SendFails, Move, busVars
  <2>2. \A x \in Records : Ingested(x)' = Ingested(x)
    BY <2>1 DEF Ingested
  <2>3. IngestedOnce'
    BY <2>2, <1>1 DEF IngestedOnce
  <2>4. OneClaimer'
    BY <2>1, <1>1 DEF OneClaimer
  <2>5. ClaimedUnsent'
    BY <2>1, <2>2, <1>1 DEF ClaimedUnsent
  <2>6. QED
    BY <2>3, <2>4, <2>5 DEF IngestionInv
<1>5. QED
  BY <1>2, <1>3, <1>4

-----------------------------------------------------------------------------
LEMMA InitIInv == Init => IInv
<1> SUFFICES ASSUME Init PROVE IInv
  OBVIOUS
<1>1. TypeOK
  BY InitType
<1>2. DeliveryInv
  BY BusAssumption
     DEF Init, BusInit, Idle, DeliveryInv, BatchesInTopic, NothingSkipped, StartsBehindDelivered
<1>3. \A e \in Records : Ingested(e) = {}
  BY PipelineAssumption DEF Init, BusInit, Ingested, IngestedTo
<1>4. \A r \in Requests : request[r].at # "claimed"
  BY DEF Init
<1>5. IngestionInv
  BY <1>3, <1>4 DEF IngestionInv, IngestedOnce, OneClaimer, ClaimedUnsent
<1>6. QED
  BY <1>1, <1>2, <1>5 DEF IInv

LEMMA NextIInv == IInv /\ [Next]_vars => IInv'
<1> SUFFICES ASSUME IInv, [Next]_vars PROVE IInv'
  OBVIOUS
<1>1. CASE \E r \in Requests : Claim(r) \/ Send(r) \/ SendFails(r)
  BY <1>1, RequestDelivery, RequestIngestion DEF IInv
<1>2. CASE \E w \in Workers : Consume(w) \/ Raises(w) \/ Crashes(w)
  BY <1>2, WorkerDelivery, WorkerIngestion DEF IInv
<1>3. CASE UNCHANGED vars
  BY <1>3 DEF vars, busVars, IInv, TypeOK, BusTypeOK, DeliveryInv, BatchesInTopic,
              NothingSkipped, StartsBehindDelivered, Published, IngestionInv, IngestedOnce,
              OneClaimer, ClaimedUnsent, Ingested
<1>4. QED
  BY <1>1, <1>2, <1>3 DEF Next

LEMMA Invariance == Spec => []IInv
<1>1. QED
  BY InitIInv, NextIInv, PTL DEF Spec

(* Bus and ingestion keep their types (EventBus, process_envelope).         *)
THEOREM TypeCorrect == Spec => []TypeOK
<1>1. IInv => TypeOK
  BY DEF IInv
<1>2. QED
  BY <1>1, Invariance, PTL

(* Whatever overwrites and truncates a group's offset file, and whoever     *)
(* crashes, the offset never passes a record that was not handed out.       *)
THEOREM NothingEverSkipped == Spec => []NothingSkipped
<1>1. IInv => NothingSkipped
  BY DEF IInv, DeliveryInv
<1>2. QED
  BY <1>1, Invariance, PTL

(* However many requests carry an event, and whichever of them fail,        *)
(* process_envelope publishes it once.                                      *)
THEOREM AlwaysIngestedOnce == Spec => []IngestedOnce
<1>1. IInv => IngestedOnce
  BY DEF IInv, IngestionInv
<1>2. QED
  BY <1>1, Invariance, PTL

-----------------------------------------------------------------------------
(* What a worker publishes or reads takes no event out of a topic.          *)
LEMMA WorkerKeepsIngested ==
  ASSUME IInv, NEW w \in Workers, Consume(w) \/ Raises(w) \/ Crashes(w), NEW e \in Records
  PROVE  Ingested(e) \subseteq Ingested(e)'
<1>1. TypeOK /\ BusTypeOK /\ BatchesInTopic
  BY DEF IInv, DeliveryInv, TypeOK
<1>2. CASE topics' = topics
  BY <1>2 DEF Ingested
<1>3. CASE Handle(w)
  <2>1. Current(w) \in Records /\ Member[w] \in Groups
    BY <1>1, <1>3, CurrentType, BusAssumption DEF Handle
  <2>2. PICK t \in Publishes(Member[w], Current(w)) :
          IF t = "none" THEN UNCHANGED topics ELSE Publish(t, Current(w))
    BY <1>3 DEF Handle
  <2>3. CASE t # "none"
    <3>1. t \in {"raw", "dlq", "normalized", "enriched", "graph", "alerts"}
      BY <2>1, <2>3, PipelineAssumption DEF Publishes, Normalize, Services
    <3> QED  BY <2>1, <2>2, <2>3, <3>1, <1>1, PlacesAfterPublish
  <2> QED  BY <2>2, <2>3, <1>2
<1> QED  BY <1>2, <1>3
         DEF Consume, Polls, Poll, ReadOffset, ReadRecords, TruncateOffset, WriteOffset,
             RaisesOnFull, Raises, Crashes, Crash

(* An event about to be sent is in its topic once it is sent.               *)
LEMMA SentIsIngested ==
  ASSUME IInv, NEW r \in Requests, Send(r)
  PROVE  \A e \in Records :
           /\ Ingested(e) \subseteq Ingested(e)'
           /\ e = request[r].event => Ingested(e)' # {}
<1>0. BusTypeOK /\ request[r].event \in Records
  BY DEF IInv, TypeOK, IngestionInv, ClaimedUnsent, Send
<1>1. PICK x \in Records : x = request[r].event /\ BusTypeOK
  BY <1>0
<1>2. PICK t \in {"raw", "dlq"} : Publish(t, x) /\ t \in IngestedTo(x)
  BY <1>1 DEF Send, IngestedTo
<1>3. t \in Topics
  BY PipelineAssumption
<1>4. /\ Len(topics'[t]) = Len(topics[t]) + 1
      /\ topics'[t][Len(topics[t]) + 1] = x
      /\ topics' \in [Topics -> Seq(Records)] /\ Len(topics'[t]) <= Capacity
  BY <1>1, <1>2, <1>3, PublishType DEF TopicsGrow
<1>5. /\ Len(topics[t]) + 1 \in DOMAIN topics'[t]
      /\ Len(topics[t]) + 1 \in Positions
  BY <1>1, <1>3, <1>4, BusAssumption DEF BusTypeOK, Positions
<1>6. Ingested(x)' # {}
  <2>1. PICK p \in Positions : p = Len(topics[t]) + 1
    BY <1>5
  <2>2. p \in DOMAIN topics'[t] /\ topics'[t][p] = x
    BY <2>1, <1>4, <1>5
  <2>3. <<t, p>> \in IngestedTo(x) \X Positions /\ <<t, p>>[1] = t /\ <<t, p>>[2] = p
    BY <1>2
  <2>4. <<t, p>> \in Ingested(x)'
    BY <2>2, <2>3 DEF Ingested
  <2> QED  BY <2>4
<1>7. \A e \in Records : Ingested(e) \subseteq Ingested(e)'
  BY <1>1, <1>2, PlacesAfterPublish
<1> QED  BY <1>1, <1>6, <1>7

(* Who claims an event publishes it, or is the one still to answer for it.  *)
LEMMA ClaimsStayPublished == IInv /\ ClaimedIsPublished /\ [Next]_vars => ClaimedIsPublished'
<1> SUFFICES ASSUME IInv, ClaimedIsPublished, [Next]_vars PROVE ClaimedIsPublished'
  OBVIOUS
<1>0. seen \subseteq Records /\ DOMAIN request = Requests
  BY DEF IInv, TypeOK
<1>1. ASSUME NEW r \in Requests, Claim(r) PROVE ClaimedIsPublished'
  <2>1. PICK e \in Records :
          /\ seen' = seen \cup {e}
          /\ request' = [request EXCEPT ![r] =
               [at |-> IF e \in seen THEN "duplicate" ELSE "claimed", event |-> e]]
    BY <1>1 DEF Claim, SeenBefore, Move
  <2>2. /\ request[r].at = "idle" /\ request'[r].event = e
        /\ e \notin seen => request'[r].at = "claimed"
        /\ \A q \in Requests \ {r} : request'[q] = request[q]
    BY <2>1, <1>0, <1>1 DEF Claim
  <2>3. \A x \in Records : Ingested(x)' = Ingested(x)
    BY <1>1 DEF Claim, busVars, Ingested
  <2>4. ASSUME NEW x \in seen, Ingested(x)' = {}
        PROVE  \E q \in Requests : request'[q].event = x /\ request'[q].at \in {"claimed", "failed"}
    <3>1. PICK q \in Requests : request[q].event = x /\ request[q].at \in {"claimed", "failed"}
      BY <2>3, <2>4, <1>0 DEF ClaimedIsPublished
    <3> QED  BY <3>1, <2>2
  <2>5. ASSUME e \notin seen
        PROVE  \E q \in Requests : request'[q].event = e /\ request'[q].at \in {"claimed", "failed"}
    BY <2>2, <2>5
  <2> QED  BY <2>1, <2>4, <2>5 DEF ClaimedIsPublished
<1>2. ASSUME NEW r \in Requests, Send(r) PROVE ClaimedIsPublished'
  <2>1. \A e \in Records :
          /\ Ingested(e) \subseteq Ingested(e)'
          /\ e = request[r].event => Ingested(e)' # {}
    BY <1>2, SentIsIngested
  <2>2. seen' = seen /\ \A q \in Requests \ {r} : request'[q] = request[q]
    BY <1>0, <1>2 DEF Send, Move
  <2>3. ASSUME NEW x \in seen, Ingested(x)' = {}
        PROVE  \E q \in Requests : request'[q].event = x /\ request'[q].at \in {"claimed", "failed"}
    <3>1. Ingested(x) = {}
      BY <2>1, <2>3, <1>0
    <3>2. PICK q \in Requests : request[q].event = x /\ request[q].at \in {"claimed", "failed"}
      BY <3>1 DEF ClaimedIsPublished
    <3>3. q # r
      BY <3>2, <2>1, <2>3, <1>0
    <3> QED  BY <3>2, <3>3, <2>2
  <2> QED  BY <2>2, <2>3 DEF ClaimedIsPublished
<1>3. ASSUME NEW r \in Requests, SendFails(r) PROVE ClaimedIsPublished'
  <2>1. /\ seen' = seen
        /\ request'[r].at = "failed" /\ request'[r].event = request[r].event
        /\ \A q \in Requests \ {r} : request'[q] = request[q]
    BY <1>0, <1>3 DEF SendFails, Move
  <2>2. \A x \in Records : Ingested(x)' = Ingested(x)
    BY <1>3 DEF SendFails, busVars, Ingested
  <2> QED  BY <2>1, <2>2, <1>0 DEF ClaimedIsPublished
<1>4. ASSUME NEW w \in Workers, Consume(w) \/ Raises(w) \/ Crashes(w) PROVE ClaimedIsPublished'
  <2>1. UNCHANGED <<seen, request>>
    BY <1>4 DEF Consume, Polls, Handle, RaisesOnFull, Raises, Crashes, ingestion
  <2>2. \A x \in Records : Ingested(x) \subseteq Ingested(x)'
    BY <1>4, WorkerKeepsIngested
  <2> QED  BY <2>1, <2>2, <1>0 DEF ClaimedIsPublished
<1>5. CASE UNCHANGED vars
  BY <1>5 DEF vars, busVars, ClaimedIsPublished, Ingested
<1> QED  BY <1>1, <1>2, <1>3, <1>4, <1>5 DEF Next

(* Ingestion drops nothing behind a 200 that was the first answer: an event *)
(* the idempotency store knows is in a topic, or a client that sent it      *)
(* waits or has its error (process_envelope).                               *)
THEOREM ClaimedAlwaysPublished == Spec => []ClaimedIsPublished
<1>1. Init => ClaimedIsPublished
  BY DEF Init, ClaimedIsPublished
<1> QED  BY <1>1, Invariance, ClaimsStayPublished, PTL DEF Spec

-----------------------------------------------------------------------------
(* While nothing fails, the one worker of a group is in step with what its  *)
(* offset file says: that was handed out, and nothing else.                 *)
InStep ==
  faults = 0 =>
    \A g \in Groups : SoleReader(g) =>
      /\ again[g] = {}
      /\ \A w \in Workers : Member[w] = g =>
           /\ poller[w].at \in {"reading", "read"} => poller[w].from = offsets[g]
           /\ poller[w].at = "writing" => delivered[g] = 1..poller[w].from
           /\ poller[w].at # "writing" => delivered[g] = 1..offsets[g]

(* A step that is no fault keeps the worker in step.                        *)
LEMMA WorkerInStep ==
  ASSUME IInv, InStep, faults = 0, NEW w \in Workers, Consume(w)
  PROVE  InStep'
<1> SUFFICES ASSUME NEW g \in Groups, SoleReader(g)
             PROVE  /\ again'[g] = {}
                    /\ \A v \in Workers : Member[v] = g =>
                         /\ poller'[v].at \in {"reading", "read"} => poller'[v].from = offsets'[g]
                         /\ poller'[v].at = "writing" => delivered'[g] = 1..poller'[v].from
                         /\ poller'[v].at # "writing" => delivered'[g] = 1..offsets'[g]
  BY DEF InStep, SoleReader
<1>1. /\ BusTypeOK /\ BatchesInTopic
      /\ DOMAIN poller = Workers /\ DOMAIN offsets = Groups
      /\ DOMAIN delivered = Groups /\ DOMAIN again = Groups
  BY DEF IInv, TypeOK, BusTypeOK, DeliveryInv
<1>2. /\ again[g] = {}
      /\ \A v \in Workers : Member[v] = g =>
           /\ poller[v].at \in {"reading", "read"} => poller[v].from = offsets[g]
           /\ poller[v].at = "writing" => delivered[g] = 1..poller[v].from
           /\ poller[v].at # "writing" => delivered[g] = 1..offsets[g]
  BY DEF InStep
<1>3. \A v \in Workers \ {w} : poller'[v] = poller[v]
  BY <1>1 DEF Consume, Polls, Poll, ReadOffset, ReadRecords, TruncateOffset, WriteOffset, HandOut,
              Handle, Advance, RaisesOnFull, Drop
<1>4. CASE Member[w] # g
  <2>1. offsets'[g] = offsets[g] /\ delivered'[g] = delivered[g] /\ again'[g] = again[g]
    BY <1>1, <1>4 DEF Consume, Polls, Poll, ReadOffset, ReadRecords, TruncateOffset, WriteOffset,
                      HandOut, Handle, RaisesOnFull, logs
  <2> QED  BY <2>1, <1>2, <1>3, <1>4
<1>5. CASE Member[w] = g
  <2> SUFFICES /\ again'[g] = {}
               /\ poller'[w].at \in {"reading", "read"} => poller'[w].from = offsets'[g]
               /\ poller'[w].at = "writing" => delivered'[g] = 1..poller'[w].from
               /\ poller'[w].at # "writing" => delivered'[g] = 1..offsets'[g]
    BY <1>5 DEF SoleReader
  <2>0. /\ again[g] = {}
        /\ poller[w].at \in {"reading", "read"} => poller[w].from = offsets[g]
        /\ poller[w].at = "writing" => delivered[g] = 1..poller[w].from
        /\ poller[w].at # "writing" => delivered[g] = 1..offsets[g]
    BY <1>2, <1>5
  <2>1. CASE ReadOffset(w)
    <3>1. /\ poller'[w] = [at |-> "reading", from |-> offsets[g], upto |-> 0]
          /\ UNCHANGED <<offsets, delivered, again>> /\ poller[w].at = "idle"
      BY <2>1, <1>1, <1>5 DEF ReadOffset, logs
    <3> QED  BY <3>1, <2>0
  <2>2. CASE ReadRecords(w)
    <3>1. /\ poller[w].at = "reading" /\ UNCHANGED <<offsets, delivered, again>>
          /\ poller'[w].at \in {"read", "idle"}
          /\ poller'[w].at = "read" => poller'[w].from = poller[w].from
      BY <2>2, <1>1 DEF ReadRecords, Idle, logs
    <3> QED  BY <3>1, <2>0
  <2>3. CASE TruncateOffset(w)
    <3>1. /\ poller[w].at = "read" /\ UNCHANGED <<delivered, again>>
          /\ poller' = [poller EXCEPT ![w].at = "writing"] /\ poller[w] \in
               [at: {"idle", "reading", "read", "writing", "handling"}, from: 0..Capacity, upto: 0..Capacity]
      BY <2>3, <1>1 DEF TruncateOffset, logs, BusTypeOK
    <3>2. poller'[w].at = "writing" /\ poller'[w].from = poller[w].from
      BY <3>1, <1>1
    <3> QED  BY <3>1, <3>2, <2>0
  <2>4. CASE WriteOffset(w)
    <3>1. PICK from \in Nat, upto \in Nat :
            from = poller[w].from /\ upto = poller[w].upto /\ from < upto
      BY <2>4, <1>1, BusAssumption DEF WriteOffset, BusTypeOK, BatchesInTopic
    <3>2. /\ poller'[w].at = "handling"
          /\ offsets'[g] = upto
          /\ delivered'[g] = delivered[g] \cup Batch(w)
          /\ again'[g] = again[g] \cup (Batch(w) \cap delivered[g])
          /\ poller[w].at = "writing"
      BY <2>4, <3>1, <1>1, <1>5 DEF WriteOffset, HandOut, BusTypeOK
    <3>3. Batch(w) = (from + 1)..upto /\ delivered[g] = 1..from
      BY <3>1, <3>2, <2>0 DEF Batch
    <3>4. (1..from) \cup ((from + 1)..upto) = 1..upto /\ ((from + 1)..upto) \cap (1..from) = {}
      BY <3>1
    <3> QED  BY <3>2, <3>3, <3>4, <2>0
  <2>5. CASE Handle(w) \/ RaisesOnFull(w)
    <3>1. /\ poller[w].at = "handling" /\ UNCHANGED <<offsets, delivered, again>>
          /\ poller'[w].at \in {"handling", "idle"}
      BY <2>5, <1>1 DEF Handle, Advance, RaisesOnFull, Drop, Idle, logs
    <3> QED  BY <3>1, <2>0
  <2> QED  BY <2>1, <2>2, <2>3, <2>4, <2>5 DEF Consume, Polls, Poll
<1> QED  BY <1>4, <1>5

(* A fault ends the promise; nothing else touches it.                       *)
LEMMA StaysInStep == IInv /\ InStep /\ [Next]_vars => InStep'
<1> SUFFICES ASSUME IInv, InStep, [Next]_vars, faults' = 0 PROVE InStep'
  BY DEF InStep
<1>1. faults \in Nat
  BY PipelineAssumption DEF IInv, TypeOK
<1>2. ASSUME NEW r \in Requests, Claim(r) \/ Send(r) PROVE InStep'
  <2>1. UNCHANGED <<offsets, poller, delivered, again, faults>>
    BY <1>2 DEF Claim, Send, busVars, logs
  <2> QED  BY <2>1 DEF InStep, SoleReader
<1>3. ASSUME NEW w \in Workers, Consume(w) PROVE InStep'
  <2>1. faults' = faults
    BY <1>3 DEF Consume, Polls, Handle, RaisesOnFull
  <2> QED  BY <2>1, <1>3, WorkerInStep
<1>4. ASSUME \/ \E r \in Requests : SendFails(r)
             \/ \E w \in Workers : Raises(w) \/ Crashes(w)
      PROVE  FALSE
  <2>1. faults' = faults + 1
    BY <1>4 DEF SendFails, Raises, Crashes, Fault
  <2> QED  BY <2>1, <1>1
<1>5. CASE UNCHANGED vars
  BY <1>5 DEF vars, busVars, InStep, SoleReader
<1> QED  BY <1>2, <1>3, <1>4, <1>5 DEF Next

(* While nothing crashes or fails, a group with one worker is handed each   *)
(* record once, for any batch size and however publishes and polls          *)
(* interleave (FileBus.poll).                                               *)
THEOREM OnceAsLongAsNothingFails == Spec => []OnceWithoutFaults
<1>1. Init => InStep
  BY DEF Init, BusInit, Idle, InStep
<1>2. InStep => OnceWithoutFaults
  BY DEF InStep, OnceWithoutFaults
<1> QED  BY <1>1, <1>2, Invariance, StaysInStep, PTL DEF Spec

-----------------------------------------------------------------------------
(* EventGraph: the entities of an event are known by their place in the    *)
(* list of extract_entities, and the graph builder's edges by their places. *)

(* What an entry of the list is: the field it comes from is known by its    *)
(* place, and there is no entry from a field the event does not have.       *)
LEMMA ListedFields ==
  ASSUME NEW r, NEW e \in extract_entities(r)
  PROVE  \/ \E i \in 1..14 :
              /\ EntityFields[i][2] \in DOMAIN normalize_raw_message(r)
              /\ e = Listed(i, EntityFields[i][1], normalize_raw_message(r)[EntityFields[i][2]])
         \/ \E t \in r.techniques : e = Listed(15, "AttackTechnique", t)
<1>1. Len(EntityFields) = 14 /\ DOMAIN EntityFields = 1..14
  BY DEF EntityFields
<1> QED
  BY <1>1 DEF extract_entities, TechniquesIn

LEMMA EntryOfType ==
  ASSUME NEW r, NEW e \in extract_entities(r)
  PROVE  e.entity[1] = e.type
BY ListedFields DEF Listed, Entity

(* The two processes of an event: its own comes before its parent.          *)
LEMMA ProcessEntry ==
  ASSUME NEW r, NEW e \in extract_entities(r), e.type = "Process"
  PROVE  \/ /\ e.at = 3
            /\ "process" \in DOMAIN normalize_raw_message(r)
            /\ e.entity = Entity("Process", normalize_raw_message(r)["process"])
         \/ /\ e.at = 4
            /\ "parent_process" \in DOMAIN normalize_raw_message(r)
            /\ e.entity = Entity("Process", normalize_raw_message(r)["parent_process"])
<1>1. PICK i \in 1..14 :
        /\ EntityFields[i][2] \in DOMAIN normalize_raw_message(r)
        /\ e = Listed(i, EntityFields[i][1], normalize_raw_message(r)[EntityFields[i][2]])
  BY ListedFields DEF Listed
<1>2. e.at = i /\ EntityFields[i][1] = "Process"
      /\ e.entity = Entity("Process", normalize_raw_message(r)[EntityFields[i][2]])
  BY <1>1 DEF Listed
<1>3. i = 3 \/ i = 4
  BY <1>2 DEF EntityFields
<1>4. EntityFields[3][2] = "process" /\ EntityFields[4][2] = "parent_process"
  BY DEF EntityFields
<1> QED
  BY <1>1, <1>2, <1>3, <1>4

LEMMA AddressEntry ==
  ASSUME NEW r, NEW e \in extract_entities(r), e.type = "IP"
  PROVE  \/ /\ e.at = 7
            /\ "src_ip" \in DOMAIN normalize_raw_message(r)
            /\ e.entity = Entity("IP", normalize_raw_message(r)["src_ip"])
         \/ /\ e.at = 8
            /\ "dst_ip" \in DOMAIN normalize_raw_message(r)
            /\ e.entity = Entity("IP", normalize_raw_message(r)["dst_ip"])
<1>1. PICK i \in 1..14 :
        /\ EntityFields[i][2] \in DOMAIN normalize_raw_message(r)
        /\ e = Listed(i, EntityFields[i][1], normalize_raw_message(r)[EntityFields[i][2]])
  BY ListedFields DEF Listed
<1>2. e.at = i /\ EntityFields[i][1] = "IP"
      /\ e.entity = Entity("IP", normalize_raw_message(r)[EntityFields[i][2]])
  BY <1>1 DEF Listed
<1>3. i = 7 \/ i = 8
  BY <1>2 DEF EntityFields
<1>4. EntityFields[7][2] = "src_ip" /\ EntityFields[8][2] = "dst_ip"
  BY DEF EntityFields
<1> QED
  BY <1>1, <1>2, <1>3, <1>4

(* The fields that are there are listed.                                    *)
LEMMA FieldListed ==
  ASSUME NEW r, NEW i \in 1..14, EntityFields[i][2] \in DOMAIN normalize_raw_message(r)
  PROVE  Listed(i, EntityFields[i][1], normalize_raw_message(r)[EntityFields[i][2]])
           \in extract_entities(r)
<1>1. DOMAIN EntityFields = 1..14
  BY DEF EntityFields
<1> QED
  BY <1>1 DEF extract_entities

(* The set of all the entries of a type, as the graph builder filters them. *)
OfType(r, type) == {e \in extract_entities(r) : e.type = type}

LEMMA ParentSpawns ==
  ASSUME NEW r, NEW s \in First(Later(OfType(r, "Process"))), NEW d \in First(OfType(r, "Process"))
  PROVE  /\ "process" \in DOMAIN normalize_raw_message(r)
         /\ "parent_process" \in DOMAIN normalize_raw_message(r)
         /\ s.entity = Entity("Process", normalize_raw_message(r)["parent_process"])
         /\ d.entity = Entity("Process", normalize_raw_message(r)["process"])
<1>1. /\ s \in extract_entities(r) /\ s.type = "Process"
      /\ d \in extract_entities(r) /\ d.type = "Process"
      /\ s \in OfType(r, "Process") \ First(OfType(r, "Process"))
  BY DEF First, Later, OfType
<1>2. PICK o \in OfType(r, "Process") : ~ (s.at <= o.at)
  BY <1>1 DEF First
<1>3. o \in extract_entities(r) /\ o.type = "Process"
  BY DEF OfType
<1>4. d.at <= o.at
  BY DEF First
<1>5. s.at = 4 /\ d.at = 3
  BY <1>1, <1>2, <1>3, <1>4, ProcessEntry
<1> QED
  BY <1>1, <1>5, ProcessEntry

LEMMA OwnProcess ==
  ASSUME NEW r, "process" \in DOMAIN normalize_raw_message(r)
  PROVE  /\ First(OfType(r, "Process")) # {}
         /\ \A s \in First(OfType(r, "Process")) :
              s.entity = Entity("Process", normalize_raw_message(r)["process"])
<1> DEFINE own == Listed(3, "Process", normalize_raw_message(r)["process"])
<1>1. EntityFields[3][1] = "Process" /\ EntityFields[3][2] = "process"
  BY DEF EntityFields
<1>2. own \in extract_entities(r)
  BY <1>1, FieldListed
<1>3. own.at = 3 /\ own.type = "Process"
  BY DEF Listed
<1>4. own \in OfType(r, "Process")
  BY <1>2, <1>3 DEF OfType
<1> HIDE DEF own
<1>5. \A o \in OfType(r, "Process") : own.at <= o.at
  BY <1>3, ProcessEntry DEF OfType
<1>6. own \in First(OfType(r, "Process"))
  BY <1>4, <1>5 DEF First
<1>7. ASSUME NEW s \in First(OfType(r, "Process"))
      PROVE  s.entity = Entity("Process", normalize_raw_message(r)["process"])
  <2>1. s \in extract_entities(r) /\ s.type = "Process" /\ s.at <= own.at
    BY <1>4 DEF First, OfType
  <2> QED
    BY <2>1, <1>3, ProcessEntry
<1> QED
  BY <1>6, <1>7

LEMMA SourceConnects ==
  ASSUME NEW r, NEW s \in First(OfType(r, "IP")), NEW d \in Later(OfType(r, "IP"))
  PROVE  /\ s.entity = Entity("IP", normalize_raw_message(r)["src_ip"])
         /\ d.entity = Entity("IP", normalize_raw_message(r)["dst_ip"])
<1>1. /\ s \in extract_entities(r) /\ s.type = "IP"
      /\ d \in extract_entities(r) /\ d.type = "IP"
      /\ d \in OfType(r, "IP") \ First(OfType(r, "IP"))
  BY DEF First, Later, OfType
<1>2. PICK o \in OfType(r, "IP") : ~ (d.at <= o.at)
  BY <1>1 DEF First
<1>3. o \in extract_entities(r) /\ o.type = "IP"
  BY DEF OfType
<1>4. s.at <= o.at
  BY DEF First
<1>5. s.at = 7 /\ d.at = 8
  BY <1>1, <1>2, <1>3, <1>4, AddressEntry
<1> QED
  BY <1>1, <1>5, AddressEntry

LEMMA ResolvesToDestination ==
  ASSUME NEW r, "dst_ip" \in DOMAIN normalize_raw_message(r), NEW d \in LastOf(OfType(r, "IP"))
  PROVE  d.entity = Entity("IP", normalize_raw_message(r)["dst_ip"])
<1> DEFINE destination == Listed(8, "IP", normalize_raw_message(r)["dst_ip"])
<1>1. EntityFields[8][1] = "IP" /\ EntityFields[8][2] = "dst_ip"
  BY DEF EntityFields
<1>2. destination \in extract_entities(r)
  BY <1>1, FieldListed
<1>3. destination.at = 8 /\ destination.type = "IP"
  BY DEF Listed
<1>4. destination \in OfType(r, "IP")
  BY <1>2, <1>3 DEF OfType
<1>5. d \in extract_entities(r) /\ d.type = "IP" /\ d.at >= destination.at
  BY <1>4 DEF LastOf, OfType
<1> HIDE DEF destination
<1> QED
  BY <1>3, <1>5, AddressEntry

-----------------------------------------------------------------------------
(* The claim about one edge e of the event r.                               *)
Follows(r, e) ==
  LET event == normalize_raw_message(r)
      Has(f) == f \in DOMAIN event
  IN /\ e.type = "spawned" =>
            /\ Has("process") /\ Has("parent_process")
            /\ e.src = Entity("Process", event.parent_process)
            /\ e.dst = Entity("Process", event.process)
     /\ e.type = "connected_to" /\ e.src[1] = "IP" =>
            e.src = Entity("IP", event.src_ip) /\ e.dst = Entity("IP", event.dst_ip)
     /\ e.type = "mapped_to_technique" /\ Has("process") =>
            e.src = Entity("Process", event.process)
     /\ e.type = "resolved_to" /\ Has("dst_ip") => e.dst = Entity("IP", event.dst_ip)

(* An edge of the other types claims nothing.                               *)
LEMMA OtherEdge ==
  ASSUME NEW r, NEW S, NEW type, NEW D, NEW e \in Edges(S, type, D),
         type \notin {"spawned", "connected_to", "mapped_to_technique", "resolved_to"}
  PROVE  Follows(r, e)
BY DEF Edges, Edge, Follows

LEMMA SpawnedEdge ==
  ASSUME NEW r, NEW e \in Edges(First(Later(OfType(r, "Process"))), "spawned", First(OfType(r, "Process")))
  PROVE  Follows(r, e)
<1>1. PICK s \in First(Later(OfType(r, "Process"))), d \in First(OfType(r, "Process")) :
        e = Edge(s.entity, "spawned", d.entity)
  BY DEF Edges
<1>2. e.type = "spawned" /\ e.src = s.entity /\ e.dst = d.entity
  BY <1>1 DEF Edge
<1> QED
  BY <1>2, ParentSpawns DEF Follows

LEMMA ConnectedEdge ==
  ASSUME NEW r, NEW e \in Edges(First(OfType(r, "IP")), "connected_to", Later(OfType(r, "IP")))
  PROVE  Follows(r, e)
<1>1. PICK s \in First(OfType(r, "IP")), d \in Later(OfType(r, "IP")) :
        e = Edge(s.entity, "connected_to", d.entity)
  BY DEF Edges
<1>2. e.type = "connected_to" /\ e.src = s.entity /\ e.dst = d.entity
  BY <1>1 DEF Edge
<1> QED
  BY <1>2, SourceConnects DEF Follows

LEMMA HostConnectedEdge ==
  ASSUME NEW r, NEW D, NEW e \in Edges(First(OfType(r, "Host")), "connected_to", D)
  PROVE  Follows(r, e)
<1>1. PICK s \in First(OfType(r, "Host")), d \in D : e = Edge(s.entity, "connected_to", d.entity)
  BY DEF Edges
<1>2. e.type = "connected_to" /\ e.src = s.entity
  BY <1>1 DEF Edge
<1>3. s \in extract_entities(r) /\ s.type = "Host"
  BY DEF First, OfType
<1>4. e.src[1] # "IP"
  BY <1>2, <1>3, EntryOfType
<1> QED
  BY <1>2, <1>4 DEF Follows

LEMMA ResolvedEdge ==
  ASSUME NEW r, NEW S, NEW e \in Edges(S, "resolved_to", LastOf(OfType(r, "IP")))
  PROVE  Follows(r, e)
<1>1. PICK s \in S, d \in LastOf(OfType(r, "IP")) : e = Edge(s.entity, "resolved_to", d.entity)
  BY DEF Edges
<1>2. e.type = "resolved_to" /\ e.dst = d.entity
  BY <1>1 DEF Edge
<1> QED
  BY <1>2, ResolvesToDestination DEF Follows

LEMMA MappedEdge ==
  ASSUME NEW r, NEW H, NEW U, NEW D,
         NEW e \in Edges(FirstOf(FirstOf(First(OfType(r, "Process")), H), U), "mapped_to_technique", D)
  PROVE  Follows(r, e)
<1>1. PICK s \in FirstOf(FirstOf(First(OfType(r, "Process")), H), U), d \in D :
        e = Edge(s.entity, "mapped_to_technique", d.entity)
  BY DEF Edges
<1>2. e.type = "mapped_to_technique" /\ e.src = s.entity
  BY <1>1 DEF Edge
<1>3. CASE "process" \in DOMAIN normalize_raw_message(r)
  <2>1. s \in First(OfType(r, "Process"))
    BY <1>3, OwnProcess DEF FirstOf
  <2> QED
    BY <1>2, <1>3, <2>1, OwnProcess DEF Follows
<1>4. CASE "process" \notin DOMAIN normalize_raw_message(r)
  BY <1>2, <1>4 DEF Follows
<1> QED
  BY <1>3, <1>4

(* Every edge of every event follows the event's fields.                    *)
LEMMA EveryEdgeFollows ==
  ASSUME NEW r, NEW e \in derive_graph_updates(r)
  PROVE  Follows(r, e)
<1> DEFINE All(type) == OfType(r, type)
           Find(type) == First(All(type))
           user == Find("User")
           host == Find("Host")
           process == Find("Process")
           ips == All("IP")
           actor == FirstOf(process, host)
<1>1. \/ e \in Edges(user, "authenticated_to", host)
      \/ e \in Edges(user, "logged_in_to", host)
      \/ e \in Edges(First(Later(All("Process"))), "spawned", process)
      \/ e \in Edges(host, "executed", process)
      \/ e \in Edges(process, "accessed", All("File"))
      \/ e \in Edges(actor, "created", All("File"))
      \/ e \in Edges(actor, "modified", All("File"))
      \/ e \in Edges(First(ips), "connected_to", Later(ips))
      \/ e \in Edges(host, "connected_to", ips)
      \/ e \in Edges(Find("Domain"), "resolved_to", LastOf(ips))
      \/ e \in Edges(process, "downloaded", Find("URL"))
      \/ e \in Edges(FirstOf(user, host), "accessed", Find("URL"))
      \/ e \in Edges(process, "modified", Find("RegistryKey"))
      \/ e \in Edges(Find("Email"), "emailed", user)
      \/ e \in Edges(process, "created", Find("Hash"))
      \/ e \in Edges(FirstOf(actor, user), "mapped_to_technique", All("AttackTechnique"))
  BY DEF derive_graph_updates, OfType
<1>2. CASE e \in Edges(First(Later(All("Process"))), "spawned", process)
  BY <1>2, SpawnedEdge
<1>3. CASE e \in Edges(First(ips), "connected_to", Later(ips))
  BY <1>3, ConnectedEdge
<1>4. CASE e \in Edges(host, "connected_to", ips)
  BY <1>4, HostConnectedEdge
<1>5. CASE e \in Edges(Find("Domain"), "resolved_to", LastOf(ips))
  BY <1>5, ResolvedEdge
<1>6. CASE e \in Edges(FirstOf(actor, user), "mapped_to_technique", All("AttackTechnique"))
  BY <1>6, MappedEdge
<1> HIDE DEF All, Find, user, host, process, ips, actor
<1> QED
  BY <1>1, <1>2, <1>3, <1>4, <1>5, <1>6, OtherEdge

(* Whatever event the graph builder looks at, and whatever techniques there *)
(* are, its edges run from the one that acts to the one acted upon.         *)
THEOREM EdgesAlwaysFollowFields == EventInit => EdgesFollowFields
BY EveryEdgeFollows DEF EdgesFollowFields, Follows
=============================================================================
