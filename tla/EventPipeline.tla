--------------------------- MODULE EventPipeline ---------------------------
(***************************************************************************)
(* The event-driven data path over the file bus: the ingestion service      *)
(* publishes raw events, and each later service is a consumer loop that     *)
(* polls its topic, handles the batch record by record and publishes what   *)
(* comes out.  The loops share one body; they differ in _handle_message.    *)
(*                                                                         *)
(* An exception leaves the loop over the batch: the records behind it are   *)
(* dropped, the loop logs it and polls again.  Services crash and restart.  *)
(***************************************************************************)
EXTENDS EventBus

Services == {"normalization", "enrichment", "graph_builder", "detection", "case_management"}

CONSTANTS
  Requests,    \* ingest requests, retries and duplicates included
  Malformed,   \* events validate_envelope refuses
  Unparsable,  \* events whose parser raises
  MaxFaults    \* bound: crashes and failed writes

ASSUME PipelineAssumption ==
  /\ {"raw", "dlq", "normalized", "enriched", "graph", "alerts"} \subseteq Topics
  /\ Groups \subseteq Services
  /\ Malformed \subseteq Records
  /\ Unparsable \subseteq Records \ Malformed
  /\ MaxFaults \in Nat

VARIABLES
  seen,     \* the ingestion service's idempotency store
  request,  \* each ingest request: where it is and its event
  faults    \* crashes and failed writes so far

vars == <<busVars, seen, request, faults>>
ingestion == <<seen, request>>

-----------------------------------------------------------------------------
(* The topic a handler publishes a record to; "none" for no record.         *)
Normalize(e) == IF e \in Unparsable THEN "dlq" ELSE "normalized"
Publishes(group, e) ==
  CASE group = "normalization"   -> {Normalize(e)}
    [] group = "enrichment"      -> {"enriched"}
    [] group = "graph_builder"   -> {"graph"}
    [] group = "detection"       -> {"alerts", "none"}
    [] group = "case_management" -> {"none"}

Init ==
  /\ BusInit
  /\ seen = {}
  /\ request = [r \in Requests |-> [at |-> "idle", event |-> "none"]]
  /\ faults = 0

Fault == faults < MaxFaults /\ faults' = faults + 1

-----------------------------------------------------------------------------
(* Mutant of SeenBefore: the key is looked up and not recorded.             *)
LookedUp(e) == seen' = seen

SeenBefore(e) == seen' = seen \cup {e}

Move(r, at, e) == request' = [request EXCEPT ![r] = [at |-> at, event |-> e]]

(* process_envelope up to the idempotency check, which records the event.   *)
Claim(r) ==
  /\ request[r].at = "idle"
  /\ \E e \in Records :
       /\ SeenBefore(e)
       /\ Move(r, IF e \in seen THEN "duplicate" ELSE "claimed", e)
  /\ UNCHANGED <<busVars, faults>>

(* Mutant of Send: a malformed record is refused without a dead letter.     *)
SendValidOnly(r) ==
  /\ request[r].at = "claimed"
  /\ LET e == request[r].event
     IN IF e \in Malformed
        THEN Move(r, "dead_lettered", e) /\ UNCHANGED topics
        ELSE Move(r, "accepted", e) /\ Publish("raw", e)
  /\ UNCHANGED <<offsets, poller, logs, seen, faults>>

(* validate_envelope, then producer.send or send_dlq                        *)
Send(r) ==
  /\ request[r].at = "claimed"
  /\ LET e == request[r].event
     IN IF e \in Malformed
        THEN Move(r, "dead_lettered", e) /\ Publish("dlq", e)
        ELSE Move(r, "accepted", e) /\ Publish("raw", e)
  /\ UNCHANGED <<offsets, poller, logs, seen, faults>>

(* The write fails or the service stops: the client has its 500, the event  *)
(* stays in the idempotency store.                                          *)
SendFails(r) ==
  /\ request[r].at = "claimed"
  /\ Fault
  /\ Move(r, "failed", request[r].event)
  /\ UNCHANGED <<busVars, seen>>

-----------------------------------------------------------------------------
(* _handle_message, ended by its producer.send                              *)
Handle(w) ==
  /\ poller[w].at = "handling"
  /\ \E t \in Publishes(Member[w], Current(w)) :
       IF t = "none" THEN UNCHANGED topics ELSE Publish(t, Current(w))
  /\ Advance(w)
  /\ UNCHANGED <<offsets, logs, ingestion, faults>>

(* The handler raises, as its write fails; the loop drops the batch.        *)
Raises(w) ==
  /\ poller[w].at = "handling"
  /\ Drop(w)
  /\ Fault
  /\ UNCHANGED <<topics, offsets, logs, ingestion>>

(* The same with a topic file that is full, which is no passing fault.      *)
RaisesOnFull(w) ==
  /\ poller[w].at = "handling"
  /\ \E t \in Publishes(Member[w], Current(w)) : t # "none" /\ ~HasRoom(t)
  /\ Drop(w)
  /\ UNCHANGED <<topics, offsets, logs, ingestion, faults>>

Polls(w) == Poll(w) /\ UNCHANGED <<ingestion, faults>>
Crashes(w) == Crash(w) /\ Fault /\ UNCHANGED ingestion

Consume(w) == Polls(w) \/ Handle(w) \/ RaisesOnFull(w)

Next ==
  \/ \E r \in Requests : Claim(r) \/ Send(r) \/ SendFails(r)
  \/ \E w \in Workers : Consume(w) \/ Raises(w) \/ Crashes(w)

Spec == Init /\ [][Next]_vars

(* A worker that is up keeps polling and handling.                          *)
FairSpec == Spec /\ \A w \in Workers : WF_vars(Consume(w))

-----------------------------------------------------------------------------
(* Bus and ingestion keep their types.                                      *)
TypeOK ==
  /\ BusTypeOK
  /\ seen \subseteq Records
  /\ request \in [Requests ->
       [at: {"idle", "claimed", "duplicate", "dead_lettered", "accepted", "failed"},
        event: Records \cup {"none"}]]
  /\ faults \in 0..MaxFaults

(* However often a client sends an event, concurrently or again after a     *)
(* failure, ingestion publishes it once: one raw record or, if malformed,   *)
(* one dead letter (process_envelope behind seen_before).                   *)
IngestedTo(e) == IF e \in Malformed THEN {"raw", "dlq"} ELSE {"raw"}
Ingested(e) ==
  {place \in IngestedTo(e) \X Positions :
     /\ place[2] \in DOMAIN topics[place[1]]
     /\ topics[place[1]][place[2]] = e}
IngestedOnce == \A e \in Records : \A p, q \in Ingested(e) : p = q

(* An event the idempotency store knows is in a topic, unless a client that *)
(* sent it is still waiting or was answered with an error: ingestion drops  *)
(* nothing behind a 200 that was the first answer.                          *)
ClaimedIsPublished ==
  \A e \in seen :
    Ingested(e) = {} =>
      \E r \in Requests : request[r].event = e /\ request[r].at \in {"claimed", "failed"}

(* While nothing crashes or fails, a group with one worker is handed each   *)
(* record once, however polls and publishes interleave.                     *)
OnceWithoutFaults ==
  faults = 0 => \A g \in Groups : SoleReader(g) => again[g] = {}

(* A group with one worker is handed every record of its topic in the end,  *)
(* through crashes that leave its offset file empty and batches cut short   *)
(* by max_records.                                                          *)
EveryRecordDelivered ==
  \A g \in Groups : SoleReader(g) =>
    \A p \in Positions :
      p <= Len(topics[Subscribes[g]]) ~> p \in delivered[g]

(* The bus's "at-least-once processing": an event ingestion accepted is in  *)
(* the end normalized or dead-lettered.                                     *)
In(t, e) == \E p \in DOMAIN topics[t] : topics[t][p] = e
AtLeastOnce ==
  \A e \in Records : In("raw", e) ~> In("normalized", e) \/ In("dlq", e)
=============================================================================
