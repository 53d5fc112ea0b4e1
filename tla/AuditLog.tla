------------------------------ MODULE AuditLog ------------------------------
(***************************************************************************)
(* The audit service's hash-chained log: concurrent POST /api/v1/audit      *)
(* requests (and the gateway's in-process callbacks) run append_event in a  *)
(* transaction each, over one audit_events table.                           *)
(*                                                                         *)
(* append_event reads max(sequence), then reads the last record_hash, then  *)
(* inserts: three awaits between which other requests' transactions commit. *)
(* The database is PostgreSQL at its default READ COMMITTED: a read sees    *)
(* committed rows only, and the unique index on `sequence` makes an insert  *)
(* wait for an uncommitted row of the same sequence and fail with an        *)
(* integrity error if that row is committed.  Nothing catches that error    *)
(* and nothing retries: the request is answered 500 and the sink that sent  *)
(* it only logs.                                                            *)
(***************************************************************************)
EXTENDS Integers, Sequences, FiniteSets

CONSTANT Requests   \* audit requests; each carries one event, named after it

VARIABLES
  rows,       \* the committed rows of audit_events
  pc,         \* where each request's transaction is
  sequence,   \* the local `sequence` of append_event
  prev_hash   \* the local `prev_hash` of append_event

vars == <<rows, pc, sequence, prev_hash>>

-----------------------------------------------------------------------------
(* SHA-256 over the canonical fields is taken to be collision-free, so a    *)
(* hash is the list of what went into it: its predecessor's hash extended   *)
(* by this record's sequence and event.                                     *)
Hashes == Seq(Nat \X Requests)
GENESIS_HASH == << >>
ComputeRecordHash(seq, prev, event) == Append(prev, <<seq, event>>)

Row == [sequence: Nat, event: Requests, prev_hash: Hashes, record_hash: Hashes]

IsLast(R, r) == r \in R /\ \A s \in R : s.sequence <= r.sequence
LastRow(R) == CHOOSE r \in R : IsLast(R, r)

MaxSequence(R) == IF R = {} THEN 0 ELSE LastRow(R).sequence
LastHash(R) == IF R = {} THEN GENESIS_HASH ELSE LastRow(R).record_hash

(* The row request w has built from what it read.                           *)
RowOf(w) ==
  [sequence    |-> sequence[w],
   event       |-> w,
   prev_hash   |-> prev_hash[w],
   record_hash |-> ComputeRecordHash(sequence[w], prev_hash[w], w)]

-----------------------------------------------------------------------------
(* verify_chain reads every row in sequence order and stops at the first    *)
(* one that is not linked to the row before it or whose hash differs.       *)
Before(R, r) == {s \in R : s.sequence < r.sequence}
Linked(R, r) == r.prev_hash = LastHash(Before(R, r))

(* Mutant of Authentic: the stored hash is trusted, never recomputed.       *)
AuthenticAsStored(r) == r.record_hash # GENESIS_HASH

Authentic(r) == r.record_hash = ComputeRecordHash(r.sequence, r.prev_hash, r.event)
Broken(R) == {r \in R : ~Linked(R, r) \/ ~Authentic(r)}

(* Mutant of VerifyChain: the number of good rows reported as the sequence. *)
VerifyChainFromZero(R) ==
  IF Broken(R) = {}
  THEN [valid |-> TRUE, events_checked |-> Cardinality(R), first_broken |-> 0]
  ELSE LET first == CHOOSE r \in Broken(R) : Before(Broken(R), r) = {}
           good  == Cardinality(Before(R, first))
       IN  [valid |-> FALSE, events_checked |-> good, first_broken |-> good]

VerifyChain(R) ==
  IF Broken(R) = {}
  THEN [valid |-> TRUE, events_checked |-> Cardinality(R), first_broken |-> 0]
  ELSE LET first == CHOOSE r \in Broken(R) : Before(Broken(R), r) = {}
       IN  [valid          |-> FALSE,
            events_checked |-> Cardinality(Before(R, first)),
            first_broken   |-> first.sequence]

-----------------------------------------------------------------------------
Init ==
  /\ rows = {}
  /\ pc = [w \in Requests |-> "received"]
  /\ sequence = [w \in Requests |-> 0]
  /\ prev_hash = [w \in Requests |-> GENESIS_HASH]

Goto(w, from, to) == pc[w] = from /\ pc' = [pc EXCEPT ![w] = to]

(* sequence = await _next_sequence(session)                                 *)
ReadSequence(w) ==
  /\ Goto(w, "received", "sequenced")
  /\ sequence' = [sequence EXCEPT ![w] = MaxSequence(rows) + 1]
  /\ UNCHANGED <<rows, prev_hash>>

(* prev_hash = await _last_hash(session): a second, later read              *)
ReadLastHash(w) ==
  /\ Goto(w, "sequenced", "hashed")
  /\ prev_hash' = [prev_hash EXCEPT ![w] = LastHash(rows)]
  /\ UNCHANGED <<rows, sequence>>

(* Mutant of Taken: no unique index on `sequence`.                           *)
TakenWithoutIndex(seq) == seq \notin Nat
(* Mutant of Contended: the index entry of a committed row blocks for ever.  *)
ContendedWithCommitted(w) ==
  \E v \in Requests \ {w} :
    pc[v] \in {"inserted", "recorded"} /\ sequence[v] = sequence[w]

Taken(seq) == \E r \in rows : r.sequence = seq
Contended(w) == \E v \in Requests \ {w} : pc[v] = "inserted" /\ sequence[v] = sequence[w]

(* session.add(record); await session.flush(): the unique index lets the    *)
(* insert through, or fails it, once no transaction holds the same key.     *)
Insert(w) ==
  /\ ~Contended(w)
  /\ ~Taken(sequence[w])
  /\ Goto(w, "hashed", "inserted")
  /\ UNCHANGED <<rows, sequence, prev_hash>>

(* Mutant of Conflict: the insert fails on an uncommitted key without waiting.*)
ConflictWithoutWaiting(w) ==
  /\ Contended(w) \/ Taken(sequence[w])
  /\ Goto(w, "hashed", "conflict")
  /\ UNCHANGED <<rows, sequence, prev_hash>>

Conflict(w) ==
  /\ ~Contended(w)
  /\ Taken(sequence[w])
  /\ Goto(w, "hashed", "conflict")
  /\ UNCHANGED <<rows, sequence, prev_hash>>

(* leaving `async with session.begin()` normally                            *)
Commit(w) ==
  /\ Goto(w, "inserted", "recorded")
  /\ rows' = rows \cup {RowOf(w)}
  /\ UNCHANGED <<sequence, prev_hash>>

InFlight == {"received", "sequenced", "hashed", "inserted"}
Answered == {"recorded", "conflict", "aborted"}

(* The service stops, or the connection is lost, before the commit: the     *)
(* transaction rolls back and the sender's exception handler drops the event.*)
Abort(w) ==
  /\ pc[w] \in InFlight
  /\ pc' = [pc EXCEPT ![w] = "aborted"]
  /\ UNCHANGED <<rows, sequence, prev_hash>>

Proceed(w) ==
  \/ ReadSequence(w)
  \/ ReadLastHash(w)
  \/ Insert(w)
  \/ Conflict(w)
  \/ Commit(w)

Next == \E w \in Requests : Proceed(w) \/ Abort(w)

Spec == Init /\ [][Next]_vars

(* The event loop and the database serve every request that can go on.      *)
Fairness == \A w \in Requests : WF_vars(Proceed(w))
FairSpec == Spec /\ Fairness

-----------------------------------------------------------------------------
(* Every variable keeps its type (append_event's locals and the table).     *)
TypeOK ==
  /\ rows \in SUBSET Row
  /\ pc \in [Requests -> InFlight \cup Answered]
  /\ sequence \in [Requests -> Nat]
  /\ prev_hash \in [Requests -> Hashes]

(* The sequences of the table are 1, 2, ..., n with one row each: the two   *)
(* reads of append_event, racing with other requests, leave no gap.         *)
UniqueSequences == \A r, s \in rows : r.sequence = s.sequence => r = s
NoGaps ==
  \A r \in rows : r.sequence > 1 => \E s \in rows : s.sequence = r.sequence - 1
Contiguous ==
  /\ UniqueSequences
  /\ NoGaps
  /\ \A r \in rows : r.sequence >= 1

(* verify_chain never reports a log that only append_event wrote as broken, *)
(* whatever the interleaving of the two reads and the insert.               *)
HonestLogVerifies == VerifyChain(rows).valid

(* An event refused for its sequence was overtaken by another event that    *)
(* holds that sequence: contention never loses every contender's event.     *)
LostOnlyToAnother ==
  \A w \in Requests :
    pc[w] = "conflict" =>
      \E r \in rows : r.sequence = sequence[w] /\ pc[r.event] = "recorded"

(* A request is answered 200 exactly when the table holds its event, and no *)
(* event is there twice.                                                    *)
RecordedIffStored ==
  /\ \A w \in Requests : pc[w] = "recorded" <=> \E r \in rows : r.event = w
  /\ \A r, s \in rows : r.event = s.event => r = s

(* "No function here ever issues an UPDATE or DELETE": a step keeps every   *)
(* row and adds at most one, after all the others.                          *)
AppendsAtTail ==
  /\ rows \subseteq rows'
  /\ \A r \in rows' \ rows : \A s \in rows' \ {r} : s.sequence < r.sequence
AppendOnly == [][AppendsAtTail]_vars

(* Waiting on the unique index never leaves requests waiting on each other: *)
(* every request is answered.                                               *)
EveryRequestAnswered == \A w \in Requests : <>(pc[w] \in Answered)

(* What the comment above _next_sequence promises: a sequence collision is  *)
(* retried by the caller, so an event is lost only if the service stops.    *)
CollisionsAreRetried == \A w \in Requests : <>(pc[w] \in {"recorded", "aborted"})

-----------------------------------------------------------------------------
(* What the log promises its readers: a list that only grows at its end.    *)
EventAt(i) == (CHOOSE r \in rows : r.sequence = i).event
LogView == [i \in 1..MaxSequence(rows) |-> EventAt(i)]

Log == INSTANCE AppendOnlyLog WITH Events <- Requests, log <- LogView

(* append_event over the table implements the append-only list.             *)
ImplementsLog == Log!Spec
=============================================================================
