# AegisSOC in TLA+

Specifications of AegisSOC: the stateful core (audit log, human approval of responses,
event bus and ingestion, detection, case management), the parts around it (the graph in a file and
in a database, scoring, rules, response policy, triage, demo runs, the gateway's listings and rate
limiter) and the analyst's console, model-checked with TLC on small instances; and proofs with TLAPS
for every instance. `PROJECT.json` lists the components, the runs, the mutants that show each property can
fail, the source lines behind every definition, the hazards and the theorems.

    tlc -config AuditLog.cfg AuditLog          # a run: the module and .cfg of PROJECT.json
    tlapm AuditLogProofs.tla                   # a proof

## 1. The system

AegisSOC is a set of FastAPI services around an event bus.

    clients -> ingestion -> [raw] -> normalization -> [normalized] -> enrichment -> [enriched]
                   |                     |                                   |          |
                   +----> [dlq] <--------+                             graph builder  detection
                                                                             |          |
                                                                          [graph]   [alerts]
                                                                                        |
    analyst -> gateway -> approval service -> audit service                     case management
                  +-----> policy store (recommendation registry)

In production each service is a set of replicas over PostgreSQL and Kafka. In *sync mode* one
gateway process runs the services' functions in process over SQLite and the file-backed bus.
Handlers are `asyncio` coroutines: another handler of the same process runs at each `await`,
another replica at any moment.

### Inventory

| Component | State | Operations | Talks to | What is hard | What makes it correct |
|---|---|---|---|---|---|
| audit service (`audit_core`) | table `audit_events`: sequence (unique), previous hash, hash | `append_event`, `verify_chain`, list | called by the approval service's and gateway's audit sinks, best effort | two reads, then an insert, in concurrent transactions; collisions; tampering | gap-free sequences, an honest log verifies, append-only, damage is evident |
| approval service (`approval_core`) | `approval_requests`, `execution_records`, `rollback_records` | create, decide, execute, rollback | dry-run adapters, audit sink inside the transaction | status checked on a row read without a lock; crash between effects | nothing runs unapproved; lifecycle; roles |
| gateway approvals (`reads.submit_approval`) | none of its own; `policy_core.store` | find, create, decide and mark in one call | approval repository, registry | check-then-create; registry updated after the commit | registry and decisions agree |
| event bus (`kafka/bus.py`, `consumer.py`, `producer.py`) | topic files, offset files | publish, poll | every streaming service | crash between offset and handling; truncated offset file; replicas sharing a file | no record is skipped; what is delivered again, and when |
| ingestion | SQLite idempotency store | `process_envelope` | bus | key recorded before the send; client retries | an event is published once |
| normalization, enrichment, graph builder | none (stateless transformations) | consumer loop, `_handle_message`, parsers, `extract_entities`, `derive_graph_updates` | bus, graph store | exception in the middle of a batch; which of two entities of a type an edge runs from | every accepted record comes out or is dead-lettered; edges follow the fields of the event |
| detection (`detection_core`) | correlation windows, temporal profiles, alert clusters, loaded rules | `process_event`: Sigma rules, five scores, clustering | graph store, bus | awaits between reads and updates; out-of-order events; window bounds; interplay of scores, caps and discounts | windows hold what they claim, open alerts differ, worse evidence never lowers a risk |
| case management (`case_core`) | `cases`, `alerts_landed` | upsert from alert, create, status, assign, feedback | consumer loop and HTTP | lost updates of list columns; two cases of one cluster; lock order; cases created with a client's list of alerts | an alert is in the case of its cluster; risk never falls |
| graph store (`graphstore/memory.py`) | nodes and edges in one JSON file, rewritten by every upsert | upsert, path and neighbourhood searches | graph builder, detection, gateway | crash while writing; two processes; bounds of a search | nothing written is forgotten; searches are exact |
| graph store (`graphstore/neo4j_backend.py`) | nodes and relationships of a database | upsert in two statements, the same searches as queries | the same | upserts of one entry that overlap between the statements; an edge whose ends are missing | entries add up their upserts; distances are those of the file's searches |
| gateway reads (`gateway_core/reads.py`) | none | list alerts, cases, audit events by page | every store, in async mode the services | rows move between two pages; filters before or after the cut | a page misses no row that did not move |
| response policy (`policy_core`) | recommendation registry, bandit and its file, feedback log | recommend, feedback, start, stop | gateway, approvals | file written in place, torn by a crash; warm start | what is recommended is allowed; experience counts once |
| LLM triage | none | evidence, draft by a model or the template, validation | cases, graph, policy | caps, sentence splitting and bracketed tokens in the texts against citations | the template's report is grounded; the rest is reported |
| gateway edge (`rate_limit.py`, middleware) | per client a window of request times | `allow`, `retry_after` | every HTTP call | the edge of the window, two readings of the clock | no more than the rate in any window |
| demo pipeline | process-wide default state, registry, graph | `run_scenario` | all in-process services, SQLite | concurrent runs reset each other's stores and race for audit sequences | a run's trail is whole, a listing is of one run |
| frontend | session, page, `useAsync`'s nonce and answers | sign in, list, filter, review, submit | gateway | answers out of order, expired sessions, handlers of old renders | no decided action is offered again |
| db, auth, observability, scripts, infrastructure | connections, tokens, metrics, fixtures | - | - | - | environment of the above |

The properties and hazards are those of `PROJECT.json`; each hazard names the line where it
bites and the properties that would show it going wrong.

## 2. The modules

| Module | What it is |
|---|---|
| `AppendOnlyLog` | abstract: a list of events that only grows at its end |
| `AuditLog` | concurrent `append_event` transactions; implements `AppendOnlyLog` |
| `AuditDamage` | `AuditLog` and one change made to the table behind the service; `verify_chain` |
| `AuditLogProofs` | the theorems about these two |
| `ApprovalLifecycle` | abstract: request, decide, execute, roll back, each once, in this order |
| `ApprovalWorkflow` | approval service, gateway submission and registry; implements `ApprovalLifecycle` when requests do not overlap |
| `EventBus` | topic and offset files, polls, crashes |
| `EventPipeline` | ingestion, and the consumer loops composed over `EventBus` |
| `CaseManagement` | upserts and analysts' edits over `cases` and `alerts_landed` |
| `ApprovalWorkflowProofs`, `CaseManagementProofs` | the theorems about these two |
| `Detection` | sliding windows, alert clusters and alert records of one detection process |
| `DetectionProofs` | the theorems about `Detection` and `RiskScoring` |
| `SigmaRules` | fields of a rule looked up in an event, and when a rule fires |
| `RiskScoring` | the five scores of an event, their ensemble, calibration, severity and alert |
| `EventGraph` | from a raw event through parser and entity extraction to the edges of the graph |
| `EventPipelineProofs` | the theorems about `EventPipeline` and `EventGraph` |
| `GraphUpdates` | what both backends of the graph store are given to write |
| `GraphStore` | the graph's file, rewritten by every upsert of possibly two processes |
| `Neo4jStore` | the graph's database, and the tasks that upsert into it |
| `GraphQueries` | attack path, distance to a bad node, neighbourhood, case graph, over the stored edges |
| `GraphStoreProofs` | the theorems about these three |
| `RateLimiter` | the sliding-window limiter behind its middleware |
| `GatewayReads` | alerts, cases and audit events, read page by page while they change |
| `ResponsePolicy` | objectives, arms, the registry, the bandit's experience and its file |
| `TriageGrounding` | evidence, draft, template and validation of a triage report |
| `DemoPipeline` | concurrent scenario runs over the stores of one process |
| `GatewayProofs` | the theorems about `RateLimiter`, `GatewayReads` and `DemoPipeline` |
| `Console` | one browser tab: session, response page, modal, calls in flight, and the gateway's answers |
| `MCPlatform` | twelve components composed side by side, one explored in each behaviour |
| `PlatformProofs` | the theorems about `Console`, `ResponsePolicy`, `TriageGrounding` and `MCPlatform` |
| `MC...` | instances for TLC: functions a `.cfg` cannot write, and symmetry |

**Database.** PostgreSQL at READ COMMITTED, the default no engine option of `db/base.py`
changes. A read sees committed rows and takes no lock; a flushed INSERT or UPDATE holds its row
(or unique key) until the transaction ends; the second writer waits, then writes its columns
to whatever the row has become. An ORM session computes new values from the rows it loaded
and writes changed columns only. A request is therefore split at each `await` that reads,
flushes or commits, and `Abort` may end it before the commit.

**AuditLog.** A request's `pc` goes received - sequenced (`_next_sequence`) - hashed
(`_last_hash`) - inserted (flush) - recorded (commit), or ends in conflict (the unique index
refused it; answered 500) or aborted. A hash is modelled by the list of what went into it, so
SHA-256 is taken to be collision-free and nothing else of it is used.

**AuditDamage** edits a column, deletes a row or exchanges two, once, at any moment;
appends go on before and after. The change is one of the table's, so the unique index holds for it
too: a sequence that an insert not yet committed holds cannot be given to another row.

**ApprovalWorkflow.** `tx[r]` is one request: its operation, where its transaction is, its
arguments and the status it read. Status checks are guards of the step that *reads*
(`Submit`, `Execute`, `Rollback`), not of the one that writes, as in the code. `Decide` is
the `/decide` endpoint as written: `get_approval` begins the session's transaction, so the
`session.begin()` after it raises. An approval's action id, case, class and flag are independent:
`Create` takes any of `Filings` (`POST /api/v1/approvals` stores what it is sent), while `Submit` files the
recommendation's class and flag (`Recommended`), yet decides whatever approval of that action id and case it
finds. The role is checked against the recommendation, the class executed or rolled back is the row's. `Restart` is the gateway's: the registry lives in memory.
`overlapped` is a history variable: TRUE once two transactions were open at the same time. What
the code promises only of requests that take turns is stated under `~overlapped`, so that one
run explores both. `CaseManagement` has one too, for two requests about one cluster or case.

**EventBus.** A poll is four steps: read the offset file, scan the topic, empty the offset file
(`open(..., "w")`), write it. The batch is the caller's only after the last. `_read_offset`
takes an empty file for 0, hence `TruncateOffset` sets 0. `delivered` and `again` are history
variables.

**EventPipeline** adds ingestion (`Claim` is `seen_before`, which records the key; `Send` comes
after it and may fail) and the body the five consumer loops share; they differ in `Publishes`.
An exception leaves the loop over the batch, so the rest of the batch is dropped (`Raises`).

**CaseManagement.** An upsert reads the alert's row, then (the SELECT by cluster flushes the
alert first) finds the case, then merges or inserts, then commits; edits load a case, change a
column and the timeline, commit. `Column` is the unit of work: an unchanged column is not
written. A case an analyst creates has no cluster and lists whatever alerts the client gave
(`AlertLists`), landed or not; upserts find their case by cluster and never add to it. Severity moves exactly as risk does and is left out, as are titles, tags and
assignees. `Cluster` is injective because `AlertClusterStore.assign` creates alert and cluster
together (`Created` in `Detection`); were two alerts to share a cluster, nothing would keep them
from opening two cases.

**Detection.** `Observe` is `process_event` up to its first await, `Assign` what follows the last:
the graph store is awaited in between, so calls of the loop (`Streamed`) and of
`POST /api/v1/detect` interleave there; the loop sends its alert later still (`PublishAlert`),
as it has become. `Fail` is an exception of the graph store or the producer, `Restart` loses the
state. Entities and techniques are `Traits`: matching compares their union. A score is any of
`Scores`, since graph, intelligence and model leave it open. One group of each rule and one host
stand for all, which never mix; `threshold` stands for `distinct_count`, which reads the same
window. The overlap is compared without division, in per cent, against any `OVERLAP_THRESHOLD` in 1..100
(the code has 15); that of the instance is larger because its sets are small. A threshold of 0 would
make clusters of disjoint traits candidates, of which none is closer. Reloading the rules and a second call for one event are left out.

**SigmaRules** has the selection of each rule file of `data/sigma` and every record that gives
its fields the expected value, another one or none, parsed or raw. **RiskScoring** enumerates the
evidence and computes as the code does, in thousandths and without its roundings; the logistic
calibration and the model's sigmoid are monotone, and stand as steps where an outcome changes.
`Worse` is one signal more or one quantity higher.

**EventGraph.** Each parser is a table from canonical fields to the payload keys it reads, in
order; a payload is a set of keys, so that an edge's ends say from which field they came. The list of
entities is the set of its entries with their places, of which the graph builder takes the first, those
after it, or the last.

**GraphStore.** An upsert is read, open (truncates `state.tmp`), write, replace; a process may
crash between any two, or find the replacement refused. **Neo4jStore** is one read and one merge for
each upsert, autocommitted; other tasks of the event loop run between them (`raced` remembers the
entries two tasks were at once), and a statement may fail. `MAX_OBSERVATIONS` is 25 in the code and 1
in the instance. **GraphQueries** translates the breadth-first searches of the file's backend, step by step, and the
path queries of the database's (trails), and compares both with balls and distances by definition (walks). A hop of the file's adjacency is an edge
with the ends it is met by, in its own direction or exchanged; a neighbourhood keeps the first of each
source, type and target (`EdgeKey`), and the graph of a case a dict of edges by their identifier, in which
the last hop of an edge stays (`Overwrite`). A database asked for a shortest path between equal ends
raises (`Raised`).

**RateLimiter.** `Arrive` reads the clock, `Forget` is one turn of the `while`, `Admit` and
`Refuse` its ends; time passes between `allow` and `retry_after`, but no other request does.
`rate_limit.py:3` says keys are user ids; the middleware takes the token's last 24 characters.

**GatewayReads.** A row has the time of its last change, which orders the listing; `Write` adds or
changes one, moving it to the top and possibly out of the filter. Alerts are filtered by the gateway,
cases by a query, audit events asked for by the newest `offset + limit` and searched only then, so
that a text further down is not found on an early page (`Searched`). In async mode `fetch_json` sends no
identity: cases and audit events are refused and their listings empty.

**ResponsePolicy.** The bandit is how often it has learnt from each episode, of which LinUCB's
matrices are sums; which allowed arm scores best is left open. The file is opened, written and
may be found torn; a start from no state learns from `feedback_log.json`.

**TriageGrounding.** A sanitized text is the number of its full stops, since the validator splits there,
and the places (before the first stop, after it, ...) of bracketed tokens, which the validator's pattern takes for
citations: `sanitize_text` puts `[REDACTED_EMAIL]` and `[REDACTED_SUSPECTED_INSTRUCTION]` there, and a title may
have brackets of its own;
a list of evidence is the set of its items, whose kinds and places say which precedes which (`Precedes`), so
that the cap keeps those that fewer than `max_items` precede. A sentence is the set of its citations; that
of a text is in the sentence its last stop, or the last before it, begins (`SentenceOf`), each token in that of its place
(`TokenSentences`). The external
model may answer any of `Drafts`. **DemoPipeline** cuts `run_scenario` where it
really waits: at the sessions of SQLite. **Console** delivers answers in any order, also after
the page or the session is gone; a handler keeps the filter and refetch of the render it was
created in. A list call whose page has gone or refetched is aborted and dropped (`Kept`): were its answer to
arrive still, the nonce would ignore it.

**MCPlatform.** `part` is chosen at the start and never changes: each behaviour explores one
component and leaves the variables of the others alone. Nothing is claimed about their joint
behaviour; the states of the parts add up.

## 3. The runs

| Run | Question | Bounds | Result |
|---|---|---|---|
| `audit_log` | do racing appends keep the log gap-free, verifiable, append-only, and answer everyone? | 4 requests | holds; refines `AppendOnlyLog` |
| `audit_retry` | is a collision retried by the caller, as the comment says? | 2 requests | violated |
| `approvals` | with overlapping requests, does nothing run unapproved, is nothing reopened, is everything announced; and until they overlap, is it the documented lifecycle, each execution once, and does the registry follow? | 4 requests, 2 open at once, 2 approvals, 2 actions and classes, filings of either class under either action and with a disruptive class not flagged as one | holds; refines `ApprovalLifecycle` |
| `approvals_final` | are decisions immutable? | 3 requests, 2 open at once | violated |
| `approvals_decide` | does `/decide` decide? | 2 requests | violated |
| `event_pipeline` | is no record skipped, every event ingested once, every record delivered in the end? | 2 normalizers on one offset file and 1 enricher, 2 requests, topics of 2, batches of 1, 1 fault | holds |
| `event_delivery` | is processing at least once? | 5 services, 1 event, 1 fault | violated |
| `cases` | do overlapping upserts, edits and creations keep cases and alerts consistent, and answer everyone? | 3 requests, 2 clusters, 3 cases, created with no alert or one of a cluster | holds |
| `detection` | do windows hold the burst, do open alerts stay apart and sum up their events, do alert records only grow? | 4 events of 3 kinds, 3 streamed; 1 rule, 3 traits, 2 scores, clock 0..1 | holds |
| `platform` | twelve questions, one for each part: see below | see below | holds |
| `console_stale` | does the page show the list of its filter? | 2 sessions, 2 pages, 3 fetches, 2 calls in flight | violated |
| `sigma_event_id` | does a rule fire on a record that has what it asks for? | every rule of `data/sigma`, every value of its fields | violated |

| Part of `platform` | Question (properties) | Bounds |
|---|---|---|
| `events` | do edges between entities of one type follow the event's fields? (`EdgesFollowFields`) | every parser, payloads of its keys, 1 technique |
| `store` | does the graph file keep everything through crashes? (`NothingForgotten`) | 2 processes, an edge with its ends and one node again, 2 updates of an entry, histories cut at 1 |
| `neo4j` | does the database add up the upserts of overlapping tasks, through failing statements? (`UpsertsAddUp`) | 2 tasks, the same 2 events, 2 upserts of an entry |
| `queries` | do the searches find what there is, in each backend? (`SearchesAreExact`) | graphs over a cycle of 3, with one edge each way between two of its nodes, and a tail, in every order of insertion, depths 1 to 3, limits of 2, 3 and 9 |
| `limiter` | is no client over its rate, and does Retry-After suffice? (`NeverOverRate`, `RetryAfterSuffices`) | 2 clients, 2 requests in 2 ticks, 2 ticks a second, clock 0..4 |
| `reads` | does paging miss no more rows than have left the listing? (`PagesMissOnlyWhatMovedUp`) | 3 rows, pages of 1, 3 changes, 2 pages; both modes, with and without a text |
| `console` | is no decided action offered again? (`NoStaleOffer`) | 1 action, 2 sessions, 2 pages, 3 fetches, 2 calls in flight |
| `policy` | does experience count once across crashes? (`ExperienceCountedOnce`) | 1 logged episode, 2 feedbacks, one of an unknown class |
| `triage` | is the template's report grounded? (`MockGroundsItself`) | a case and 2 alerts of 0..2 stops, without a token or with one before or after a stop, caps of 1, 3, 40 items |
| `demo` | is a completed run's trail whole, and a listing of one run? (`RunsAreAudited`, `ListingIsOneRun`) | 2 concurrent runs, of 2 events and 1 |
| `scoring` | does worse evidence never lower a risk or withdraw an alert? (`RiskIsMonotone`) | every rule level and hint, two values of each quantity on both sides of its threshold |
| `damage` | does `verify_chain` report every single change, at its place, even after more appends? (`DamageEvident`, `DamageLocated`) | 3 requests, 1 change |

*Why the bounds are enough.* A collision needs two appends and shows its effect on a third;
four leave one more to chain behind it. An approval race needs two overlapping requests and one
each to set it up and to read it: four requests, of which two are open. Two clusters and three
transactions give an upsert that overlaps a second of its alert and an edit of the case. Two
positions and batches of one cut a batch at `max_records`; two replicas on one offset file give
every overwriting order. Four events are the fewest with which a cluster could grow into another
(two to create them, two to let the older one catch up): a first-fit `_find_match` does so. In
`platform`, an upsert interrupted and repeated, or one that overtakes another, needs two updates of an
entry; a row missed needs one shown, one that leaves and one behind it; a window that slides
needs one request more than it admits and a clock that leaves it; a stale list needs a fetch, a decision
and a fetch that overtakes it; two runs race for one audit
sequence; a cycle is where a search that counts wrong goes on too long. The counters bounded for TLC are `MaxApprovals`, `MaxCases`, `Capacity`,
`MaxFaults`, `MaxInFlight`, `MaxClock`, `MaxTime`, `MaxUpdates`, `MaxMerges`, `MaxChanges`,
`MaxOffset`, `MaxSessions`, `MaxPages`, `MaxRuns`, `MaxCalls`; each is a guard on creation, and where it stops a model the code
would go on, deadlock checking is off. `Capacity` is also a behaviour: a full disk makes a publish raise.

*Fairness.* Weak fairness for each request's own steps (`Proceed`) and each worker's (`Consume`):
the event loop resumes a coroutine whose await is over, the database grants a free lock, a
worker's loop is `while True`. No fairness is assumed of arrivals, crashes, faults, or
aborts. In `event_pipeline` a crashed worker polls again, which is what the deployment's restart
policy does.

*Limits that are stated, not hidden.* `ExecutedOnce`, `FollowsLifecycle` and
`RegistryShowsLastDecision` are claimed until two requests overlap: with two open, two
executions of one approval both read `approved`, and two submissions can file contradictory
approvals. `NothingLost` claims timelines until two requests are open on one case: both
write the list they loaded. `OnceWithoutFaults` and `EveryRecordDelivered` are claimed of groups
with one worker: replicas on one offset file are handed records twice, and a slower one may
move the offset back. `WindowsExact` is claimed of windows whose events arrive in the order of
their timestamps: pruning from the left leaves others in. `NothingForgotten` is claimed of one
writing process: two put their own copies in each other's place. Deleting the last audit row is
not detected: nothing later links to it. `UpsertsAddUp` claims sources of entries no two tasks merged at
once: the later of two may forget the source the earlier added. `PagesMissOnlyWhatMovedUp` allows a row
missed for each row that left the listing meanwhile. `ExperienceCountedOnce` excepts feedback given before the
file was last found torn. `MockGroundsItself` excepts sentences split off inside a text, as rule
descriptions have them, and takes a token never to be the identifier of an item (a hash).
`Accountable` holds the role to the recommendation and the class to the filing, and does not say that the
two agree. `EvidenceKept` says nothing of the lists of cases analysts created. `SearchesAreExact` claims
no direction of an arrow in the graph of a case, and of two opposite edges of one type only that one of them
is shown; that graph is modelled over the file's backend only.

### Findings

1. `audit_retry`: a sequence collision loses an audit event; the comment promises a retry at the
   caller and no caller has one.
2. `approvals_final`: a second submission that read `pending` overwrites a committed
   decision; the threat model calls decided approvals immutable.
3. `approvals_decide`: `/decide` cannot decide, for the reason given above.
4. `event_delivery`: the bus is at-most-once towards handlers; its module comment and
   `SCALABILITY.md` say at-least-once.
5. `console_stale`: after a submission the page refetches with the filter of the render it was
   submitted in; that answer is the newest and replaces the list of the filter set meanwhile.
6. `sigma_event_id`: `event_id` of a rule meets the event's generated identifier, never the
   record's `EventID`; three rules cannot fire.

Noticed while modelling, without a run: validation leaves a draft's summary as it is, where
`llm_triage/app/main.py:1-8` and the threat model speak of stripping claims; the comment at
`ensemble.py:54-55` names graph corroboration that the code does not look at;
`demo_pipeline.py:53-55` promises isolation from prior runs, but the graph file persists; feedback
marks a recommendation approved or rejected without an approval (`response_policy/app/main.py:123`);
a submission answered with somebody else's earlier decision is shown as one's own
(`ResponsePage.tsx:39`); a DNS event without an answer resolves its domain to the client
(`writer.py:121`); the asynchronous demo route answers "started" and starts nothing; `total` of a listing of cases is
the length of its page; the database has no uniqueness constraint on `node_id`, so that two merges of a
new node may create it twice.

Also without a run, but part of the models:

- *What is approved and what is executed.* The gateway checks the role for the recommendation registered
  under an action id (`reads.py:350-355`), then decides the pending approval of that id and case
  (`reads.py:375-395`); execution runs that row's class (`approval_core/repository.py:116`). The two agree
  if the gateway filed the row. `POST /api/v1/approvals` stores class and flag as they are sent
  (`approval/app/main.py:67-77`), and nothing compares them with the recommendation, so the senior review of
  disruptive actions in `docs/threat-model/THREAT_MODEL.md` rests on approvals being filed by the gateway.
- *Arrows of a case's graph.* The file's adjacency returns an edge met from its target with its ends exchanged,
  under the same identifier (`memory.py:104-107`); the gateway keeps the last copy by identifier
  (`reads.py:39-42`, `212-213`). The arrow an analyst sees follows the order of a case's entities, and may
  differ from the database's, which keeps an edge's own ends (`neo4j_backend.py:50-63`). Of two opposite edges of a
  type, whose keys meet when one is reversed, the file's neighbourhood shows one.
- *The distance of an entity from itself.* The file answers 0 (`memory.py:211-212`), the database's
  `shortestPath` raises by default (`neo4j_backend.py:270`); `graph_features.py:48` asks it for entities that may
  be known bad themselves, and that exception fails the event.
- *Redactions read as citations.* What `sanitize_text` inserts (`security.py:42`, `helpers.py:51`) matches
  `CITATION_RE` (`validation.py:16`), so a title with an address before a stop makes the template's own report
  list an "unresolvable citation" (`validation.py:38-39`).

## 4. The proofs

The theorems hold for every value of the constants, from the assumptions named in the modules
(`BusAssumption`, `PipelineAssumption`, `WorkflowAssumption`, `CaseAssumption`,
`DetectionAssumption`, `ScoringAssumption`, `GraphUpdatesAssumption`, `GraphStoreAssumption`,
`Neo4jAssumption`, `RateLimiterAssumption`, `ReadsAssumption`, `DemoAssumption`, `PolicyAssumption`,
`ConsoleAssumption`, `QueriesAssumption`, `TriageAssumption`; `AuditLog` and `AuditDamage` need none). Each is what the code gives its
constants: limits are numbers, an edge's ends are written before it, the threshold of an overlap is
positive, no entity is named like the markers of the models. Two hold sets to be finite, the
traits of an event and the rows of a listing.

**AuditLogProofs.** `Contiguous` is not inductive: a commit keeps it only if what the request
read is still the end of the table. `IInv` adds: rows are exactly 1..n for some n (`UpTo`); they are
authentic and linked (`Chained`); and of a table of n rows a request can hold a sequence of at
most n+1, and one holding n+1 after its second read holds the hash of row n (`ReadersOK`), of which
one at most has inserted. `CommitStep` is the heart: it takes n to n+1. From `IInv`
follow types, contiguity, that `verify_chain` accepts, that a refused event was overtaken,
`RecordedIffStored`, `AppendOnly` and the refinement of `AppendOnlyLog`.

A damaged table is no longer 1..n, and appends go on; so `DamageInv` says of it that the rows before
the change are intact, complete and closed to inserts still under way (`PrefixKept`), and that it has a
`Scar` that no append heals: a row that is not what its hash was made of, or one whose predecessor's
hash no row has, nor will ever have again, since a hash ends with an event that is recorded and gone.
`verify_chain` visits rows in the order of their sequences; that it stops at the first bad one uses
that a set of natural numbers has a least one (`LeastNumber`, from the library's well-founded order),
and that the rows before it are all accepted (`AllLinked`). From this, `DamageEvident` and
`DamageLocated`.

**EventPipelineProofs.** `NothingSkipped` needs two facts about workers in the middle of a poll:
a batch lies within its topic (`BatchesInTopic`), and a worker starts behind records its group was
handed (`StartsBehindDelivered`). The second is what makes any offset a slow replica writes safe,
and what a truncation to 0 satisfies trivially. `IngestedOnce` needs that one request at most is
between claim and send (`OneClaimer`) and that a claimed event is known and in no topic
(`ClaimedUnsent`). `ClaimedIsPublished` is inductive beside them: no step takes an event out of a topic.
`OnceWithoutFaults` needs, of a group's one worker and until a fault, that what its group was handed is
what lies before the offset, in the file or in the worker's hands (`InStep`).

**ApprovalWorkflowProofs.** The gate is not inductive because a request acts on a status it read
earlier: `IInv` says that whoever has read `approved` refers to an approval that *some* committed
decision approved (`Backed`; statuses may change since, history does not), that it is where its
operation can be (`WellFormed`), that numbers of uncommitted rows are nobody else's (`Numbered`), and
that records rest on decisions and announcements (`Recorded`). From it: `TypeOK`, `Accountable`,
`NeverReopened`. A second invariant, `Alone`, adds what holds until two transactions overlap: the one
in flight still reads what it read (`StillReads`), the newest decision is the registry's or about to be
(`RegistryWaits`); from both follow `ExecutedOnce`, `RegistryShowsLastDecision` and that the tables
implement `ApprovalLifecycle`. A filing is never changed after its row is flushed, so the class an
execution ran is the one filed, whoever filed it.

**CaseManagementProofs.** That a cluster has one case rests on a lock taken for another reason: who has
flushed the row of an alert is alone with it (`OneHolder`), what it then read of the alert's cluster
stays so until it commits (`Backed`), and clusters are told apart by their alert
(`CaseAssumption`). With `Numbered` (as above) this gives `OneCasePerCluster` and
`EvidenceKept` in every interleaving (a case a client listed alerts for has no cluster, so no upsert finds
it), and that no commit lowers a risk or shortens a list. `Alone` (until two requests are about one
case, those in flight are apart and have loaded the committed timeline) gives the rest of
`NothingLost`.

**DetectionProofs.** *Windows:* each is a suffix of all its arrivals, and while these come in order
the suffix that is fresh at the last of them (`WindowsAreSuffixes`, with `PruneStops`).
*Clusters:* why merging into the closest cluster cannot make two alike is `MergeKeepsApart`: a cluster
whose traits are those the merge yields contains the event's, so it shares as many of them as any other
and overlaps with the event strictly more than the merged cluster, which then was not the match. That
overlaps have a greatest is that of fractions compared by cross products (`FractionsOrdered`,
`FirstOf`). *Records:* what was published for an alert, its cluster still has, and more
(`ClustersKeepRecords`), whatever is assigned between an event and its record; a restart takes the
clusters away, never the names already given.
*Scores:* `RiskAlwaysMonotone` is proved score by score: the evidence after a change is `AtLeastAsBad`,
and each of the five scores, its caps and the two step curves follow it (`HeuristicIsMonotone`, ...,
`ModelScoreIsMonotone`). In `EnsembleIsMonotone`, worse evidence may lose the discount for
administrative work and never gain it, and the discounted score is below any undiscounted one it can turn
into. The run has two values of each quantity, the theorem all.

**GraphStoreProofs.** *The file:* between two steps of a save the truth is in the file, the copy, or
both: `IInv` says that for a sole writer the file is exactly the history, cut to its limit
(`FileIsLatest`), that the copy is the file with the one pending entry (`CopyIsNext`), and that the upserts
left name an edge's ends before it (`LeftInOrder`). *The database:* `Neo4jInv` says that it is the sum of
what was upserted (`DatabaseIsSum`), that the ends of the edges a task has left are in it or left before
them (`TasksInOrder`), and that an entry which is not `raced` has at most one task between its two
statements, whose sources are still those it read and its own (`OneMerges`).

**GatewayProofs.** *The limiter:* the window is a suffix of all requests admitted (`Suffix`), these are in
order (`Ordered`), and those forgotten are out of every window yet to come (`OutOfWindow`). That
Retry-After suffices needs that rounding up to whole seconds covers the rest (`RetryAfterCovers`).
*Listings:* `ReadsInv` adds to the property that no two rows changed at the same time
(`TimesDiffer`), so that their places are distinct. A page shows every row it should (`PageShows`); a row
that has stayed keeps its place or falls when others move up, and rises by one at most for each that
leaves (`RankGrows`, `RanksDiffer`).
*Demo runs:* `DemoInv` says that a run works on the state it made, whose alerts are its own
(`OwnState`, `OwnAlerts`), and that what it has put into the trail is what its place in the code says,
but for at most one recommendation whose row is still to be written or collided (`Recorded`). A row
appended by another run changes neither (`OthersRows`).

**PlatformProofs.** *The policy:* a bandit is `Sound` when it has learnt the log once, every feedback at most
once and none it was not sent. The one that serves is sound (`ServesSound`), and so is the file when it
is whole (`OnDisk`). A start that finds no file, or a torn one, learns the log into a fresh bandit;
a file is missing only before anything was recorded, and what a torn one loses is `forgotten`.
*The console:* that the latest answer wins is not enough, since decisions are told by other calls
than lists: `CurrentCall` says of every call in flight that its number does not exceed its page's
latest, that a list with the latest number offers nothing the page was told, and that a recorded
submission is decided; a fetch after a decision takes the number from all lists before it.
*What is recommended:* `Catalogued` says that the registered action is one its objective allows, or none at a
low risk. Two lists of the code are searched for their first match, the aliases and the priorities of
objectives; what is found is in the catalog because a match has a least place (`LeastOfSome`).
*The platform:* `PlatformIsTyped` goes part by part: the part that was chosen takes the steps of its own
specification, so its types are those proved of it.
*Triage:* of any two items of the evidence one precedes the other, and the case precedes all
(`CollectedIsRanked`, `CaseComesFirst`); so it survives every cap, and an alert does where there is room for
two (`EvidenceKept`). That no sentence is left without a citation, where the case's text has no stop and no
alert's has two, is `EverySentenceCited`: from text to text the number of the sentence rises by one at most,
from the first to the last. A token behind a text's last stop is in that text's cited sentence
(`StopsOfOneMore`), so that none is taken for an unresolvable citation (`TemplateReport`). `MappingIsWhole`
maps each technique to the first item that carries it.

**Edges of events** (`EdgesAlwaysFollowFields`, in EventPipelineProofs). For each type of edge: which places the tables
give to a process, its parent and the two addresses (`ProcessEntry`, `AddressEntry`), and that an edge
between two of a type joins the first and one after it. It holds for every parser, payload and set of
techniques.

**Searches** (`SearchesStayExact`, in GraphStoreProofs). A search in breadth (`InBreadth`) has in its queue
entries whose paths are chains of edges, as long as their ends are far from the start (`Reaches`), of two
lengths at most and in order (`QueueLevels`), and a visited node is queued, too far, or done with (`Closed`).
A neighbourhood (`Expanded`) misses nothing within its radius until its limit cuts it; the graph of a case adds
those up (`CaseKept`), while the stored graph may grow between two of them. Neo4j matches trails, which use no edge
twice: a shortest walk is one (`ShortestWalkIsTrail`), so the database finds the distances by definition, as the file does, except of an entity from itself, where it raises. Where a walk
has to be found or shortened, the proof takes a shortest one (`LeastNumber`) in place of an induction.

**Proved, but in no run:** the type invariants of `AuditLog`, `EventPipeline`, `CaseManagement` and
`Detection` (part of `DetectionInv`), `AuditLog`'s `RecordedIffStored` and `AppendOnly`, which say little
that `ImplementsLog` does not. Those of the parts of `platform` run together as `PlatformTypeOK`.

**Model-checked only.** Everything under fairness (`EveryRequestAnswered`, `EveryRecordDelivered`), since
the prover has no liveness under fairness. Every other property of a passing run, invariant, action property
or refinement, is a theorem. Findings are counterexamples, and need no proof.

## 5. Not modelled

Kafka, Redis and OpenSearch are external, and Neo4j is taken to run a statement as one transaction.
Of the gateway, the asynchronous paths are left out but for the listings:
`submit_approval` there creates an approval without a token and is then refused the decision (each
submission leaves one more pending approval; the steps are `Create` and `Decide`); proxying and token
checks keep no state. Formats of fields, technique tagging, intelligence and criticality look-ups,
rare-edge scores, the text of prompts and reports, the other pages of the console, metrics, database
engine factories, report generators, manifests and fixtures are left out as pure input, output or
display. Which of Kafka and the file bus a process chooses at its start is outside the bus model.

What could come next: an abstract specification of the graph as a set of summed entries, implemented by
the file and by the database; the asynchronous path of `submit_approval`.
