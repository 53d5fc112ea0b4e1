--------------------------- MODULE CaseManagement ---------------------------
(***************************************************************************)
(* The case store: alerts of the detection service are landed in            *)
(* alerts_landed and merged into the case of their cluster                  *)
(* (upsert_case_from_alert), while analysts create cases, change their      *)
(* status, assign them and leave feedback.  The consumer loop and the HTTP  *)
(* handlers run these concurrently, a transaction each.                     *)
(*                                                                         *)
(* The database is at READ COMMITTED.  A session keeps the rows it loaded,  *)
(* computes new column values from them and writes only the columns that    *)
(* changed, after waiting for the lock of the row.  The lists of a case     *)
(* (alert_ids, timeline) are columns: a write replaces the whole list.      *)
(* Nothing but the primary keys is unique: not the cluster of a case.  What *)
(* serializes two upserts of a cluster is the row of its one alert.         *)
(***************************************************************************)
EXTENDS Integers, FiniteSets

CONSTANTS
  Requests,     \* upserts of the consumer loop and requests of analysts
  Alerts,       \* the alert ids
  Cluster,      \* the cluster of each alert: detection makes one for each alert
  Scores,       \* calibrated scores, severities alike
  AlertLists,   \* the lists of alert ids clients give with POST /api/v1/cases
  MaxCases,     \* bound: cases ever created
  MaxInFlight   \* bound: transactions open at the same time

ASSUME CaseAssumption ==
  /\ DOMAIN Cluster = Alerts
  /\ \A a, b \in Alerts : Cluster[a] = Cluster[b] => a = b
  /\ \A a \in Alerts : Cluster[a] # "none"
  /\ Scores \subseteq Nat \ {0}
  /\ AlertLists \subseteq SUBSET Alerts
  /\ MaxCases \in Nat
  /\ MaxInFlight \in Nat \ {0}

CaseIds == 1..MaxCases
Clusters == {Cluster[a] : a \in Alerts} \cup {"none"}
Statuses == {"new", "contained", "false_positive"}   \* of VALID_STATUSES
Edits == {"status", "assign", "feedback"}

VARIABLES
  cases,       \* the committed rows of cases
  landed,      \* the committed rows of alerts_landed: case and score, or NoAlert
  issued,      \* how many cases were inserted, committed or not
  tx,          \* each request: operation, place, arguments, rows loaded
  overlapped   \* history: two requests were open for one cluster or case at once

vars == <<cases, landed, issued, tx, overlapped>>
tables == <<cases, landed, issued>>

-----------------------------------------------------------------------------
(* timeline holds the requests whose entries it lists; given is the list of *)
(* alert ids a client sent.                                                 *)
NoCase == [cluster |-> "none", alerts |-> {}, risk |-> 0, status |-> "absent", timeline |-> {}]
NoAlert == [case |-> 0, score |-> 0]
Idle == [op |-> "none", at |-> "idle", cluster |-> "none", alert |-> "none", score |-> 0,
         status |-> "none", known |-> FALSE, given |-> {}, case |-> 0, loaded |-> NoCase]

Waiting == {"landing", "merging", "editing", "creating"}
Answers == {"ok", "failed"}

Exists(id) == cases[id].status # "absent"
CasesOf(k) == {id \in CaseIds : Exists(id) /\ cases[id].cluster = k}

InFlight == {r \in Requests : tx[r].at \in Waiting \cup {"flushed"}}
Arrives(r) == tx[r].at = "idle" /\ Cardinality(InFlight) < MaxInFlight
SameCase(q, k, id) == (k # "none" /\ tx[q].cluster = k) \/ (id # 0 /\ tx[q].case = id)
Overlap(k, id) == overlapped' = (overlapped \/ \E q \in InFlight : SameCase(q, k, id))

Init ==
  /\ cases = [id \in CaseIds |-> NoCase]
  /\ landed = [a \in Alerts |-> NoAlert]
  /\ issued = 0
  /\ tx = [r \in Requests |-> Idle]
  /\ overlapped = FALSE

(* Mutants: the alert's row is not flushed before the case is looked up; a  *)
(* session that failed keeps the locks of its rows.                         *)
HoldsAlertUnflushed(r, a) == tx[r].at = "flushed" /\ tx[r].alert = a
HoldsCaseForever(r, id) == tx[r].at \in {"flushed", "failed"} /\ id \in CaseIds

(* Rows a transaction has flushed and not yet committed.                    *)
HoldsAlert(r, a) == tx[r].at \in {"merging", "flushed"} /\ tx[r].alert = a
HoldsCase(r, id) == tx[r].at = "flushed" /\ tx[r].case = id

Answer(r, answer) ==
  /\ tx' = [tx EXCEPT ![r] = [Idle EXCEPT !.op = tx[r].op, !.at = answer]]
  /\ UNCHANGED <<tables, overlapped>>

-----------------------------------------------------------------------------
(* upsert_case_from_alert: landed = await session.get(AlertRecordORM, ...)  *)
Upsert(r) ==
  /\ Arrives(r)
  /\ \E a \in Alerts, s \in Scores :
       /\ tx' = [tx EXCEPT ![r] = [Idle EXCEPT !.op = "upsert", !.at = "landing", !.alert = a,
                   !.score = s, !.cluster = Cluster[a], !.known = landed[a] # NoAlert]]
       /\ Overlap(Cluster[a], 0)
  /\ UNCHANGED tables

(* Mutant of Found: cases of every cluster are candidates.                  *)
FoundAnywhere(k) == {id \in CaseIds : Exists(id)}

Found(k) == CasesOf(k)

(* The SELECT of get_case_by_cluster flushes the alert's row first: an      *)
(* INSERT waits for another of the same key and fails once that one is      *)
(* committed.  scalar_one_or_none raises when the cluster has two cases.    *)
LandAndFindCase(r) ==
  /\ tx[r].at = "landing"
  /\ \A q \in Requests \ {r} : ~HoldsAlert(q, tx[r].alert)
  /\ LET duplicate == ~tx[r].known /\ landed[tx[r].alert] # NoAlert
         found == Found(tx[r].cluster)
     IN IF duplicate \/ Cardinality(found) > 1
        THEN Answer(r, "failed")
        ELSE /\ \/ found = {} /\ tx' = [tx EXCEPT ![r].at = "merging"]
                \/ \E id \in found :
                     tx' = [tx EXCEPT ![r].at = "merging", ![r].case = id, ![r].loaded = cases[id]]
             /\ UNCHANGED <<tables, overlapped>>

InsertCase(r) ==
  /\ tx[r].at = "creating" \/ (tx[r].at = "merging" /\ tx[r].case = 0)
  /\ issued < MaxCases
  /\ issued' = issued + 1
  /\ tx' = [tx EXCEPT ![r].at = "flushed", ![r].case = issued + 1]
  /\ UNCHANGED <<cases, landed, overlapped>>

(* The UPDATE of a case found by cluster or by id                           *)
FlushCase(r) ==
  /\ tx[r].at = "editing" \/ (tx[r].at = "merging" /\ tx[r].case # 0)
  /\ \A q \in Requests \ {r} : ~HoldsCase(q, tx[r].case)
  /\ tx' = [tx EXCEPT ![r].at = "flushed"]
  /\ UNCHANGED <<tables, overlapped>>

-----------------------------------------------------------------------------
(* POST /api/v1/cases: a case without a cluster, with the list of alert ids *)
(* the client gives, landed or not, and of whatever cluster                 *)
CreateCase(r) ==
  /\ Arrives(r)
  /\ \E list \in AlertLists :
       tx' = [tx EXCEPT ![r] = [Idle EXCEPT !.op = "create", !.at = "creating", !.given = list]]
  /\ Overlap("none", 0)
  /\ UNCHANGED tables

(* update_status, assign_case, record_feedback: case = session.get(...)     *)
Edit(r) ==
  /\ Arrives(r)
  /\ \E id \in CaseIds, op \in Edits, s \in Statuses :
       /\ op = "assign" => s = "new"
       /\ op = "feedback" => s # "contained"
       /\ IF Exists(id)
          THEN /\ tx' = [tx EXCEPT ![r] = [Idle EXCEPT !.op = op, !.at = "editing",
                   !.cluster = cases[id].cluster, !.case = id, !.loaded = cases[id], !.status = s]]
               /\ Overlap(cases[id].cluster, id)
          ELSE tx' = [tx EXCEPT ![r] = [Idle EXCEPT !.op = op, !.at = "failed"]]
               /\ UNCHANGED overlapped
  /\ UNCHANGED tables

-----------------------------------------------------------------------------
(* A column the session leaves as it loaded it is not in the UPDATE.        *)
Column(loaded, new, current) == IF new = loaded THEN current ELSE new

HigherRisk(r) == IF tx[r].score > tx[r].loaded.risk THEN tx[r].score ELSE tx[r].loaded.risk

(* The status an edit sets: feedback sets one for a false positive only.    *)
EditedStatus(r) ==
  CASE tx[r].op = "status"   -> tx[r].status
    [] tx[r].op = "feedback" -> IF tx[r].status = "false_positive"
                                THEN "false_positive" ELSE tx[r].loaded.status
    [] OTHER                 -> tx[r].loaded.status

Merged(r, row) ==
  [row EXCEPT !.alerts   = Column(tx[r].loaded.alerts, tx[r].loaded.alerts \cup {tx[r].alert}, @),
              !.risk     = Column(tx[r].loaded.risk, HigherRisk(r), @),
              !.timeline = tx[r].loaded.timeline \cup {r}]

(* Mutant of Edited: every column of the loaded object is written back.     *)
EditedWholeRow(r, row) ==
  [tx[r].loaded EXCEPT !.status = EditedStatus(r), !.timeline = @ \cup {r}]

Edited(r, row) ==
  [row EXCEPT !.status   = Column(tx[r].loaded.status, EditedStatus(r), @),
              !.timeline = tx[r].loaded.timeline \cup {r}]

(* The new row of a case that was inserted; loaded is NoCase.               *)
Created(r) ==
  [(IF tx[r].op = "upsert" THEN Merged(r, NoCase)
    ELSE [NoCase EXCEPT !.alerts = tx[r].given, !.timeline = {r}])
     EXCEPT !.cluster = tx[r].cluster, !.status = "new"]

Written(r) ==
  IF tx[r].loaded = NoCase THEN Created(r)
  ELSE IF tx[r].op = "upsert" THEN Merged(r, cases[tx[r].case])
  ELSE Edited(r, cases[tx[r].case])

Ends(r) == tx' = [tx EXCEPT ![r] = [Idle EXCEPT !.op = tx[r].op, !.at = "ok"]]

CommitUpsert(r) ==
  /\ tx[r].at = "flushed" /\ tx[r].op = "upsert"
  /\ cases' = [cases EXCEPT ![tx[r].case] = Written(r)]
  /\ landed' = [landed EXCEPT ![tx[r].alert] = [case |-> tx[r].case, score |-> tx[r].score]]
  /\ Ends(r)
  /\ UNCHANGED <<issued, overlapped>>

Commit(r) ==
  /\ tx[r].at = "flushed" /\ tx[r].op # "upsert"
  /\ cases' = [cases EXCEPT ![tx[r].case] = Written(r)]
  /\ Ends(r)
  /\ UNCHANGED <<issued, landed, overlapped>>

(* The connection or the service goes away: the transaction is rolled back. *)
Abort(r) == r \in InFlight /\ Answer(r, "failed")

Proceed(r) ==
  \/ LandAndFindCase(r)
  \/ InsertCase(r)
  \/ FlushCase(r)
  \/ CommitUpsert(r)
  \/ Commit(r)

Next ==
  \E r \in Requests :
    \/ Upsert(r)
    \/ CreateCase(r)
    \/ Edit(r)
    \/ Proceed(r)
    \/ Abort(r)

Spec == Init /\ [][Next]_vars

(* The event loop and the database serve every transaction that can go on.  *)
FairSpec == Spec /\ \A r \in Requests : WF_vars(Proceed(r))

-----------------------------------------------------------------------------
CaseRow ==
  [cluster: Clusters, alerts: SUBSET Alerts, risk: Scores \cup {0},
   status: Statuses \cup {"absent"}, timeline: SUBSET Requests]

TxType ==
  [op: Edits \cup {"none", "upsert", "create"},
   at: {"idle", "flushed"} \cup Waiting \cup Answers,
   cluster: Clusters, alert: Alerts \cup {"none"}, score: Scores \cup {0},
   status: Statuses \cup {"none"}, known: BOOLEAN, given: SUBSET Alerts,
   case: {0} \cup CaseIds, loaded: CaseRow]

(* Tables and transactions keep their types; a row has a status.            *)
TypeOK ==
  /\ cases \in [CaseIds -> CaseRow]
  /\ \A id \in CaseIds : Exists(id) \/ cases[id] = NoCase
  /\ landed \in [Alerts -> [case: {0} \cup CaseIds, score: Scores \cup {0}]]
  /\ issued \in 0..MaxCases
  /\ overlapped \in BOOLEAN
  /\ tx \in [Requests -> TxType]

LandedInOwnCase ==
  /\ \A a \in Alerts : landed[a] # NoAlert =>
       /\ landed[a].case \in CaseIds
       /\ Exists(landed[a].case) /\ cases[landed[a].case].cluster = Cluster[a]
  /\ \A id \in CaseIds : cases[id].cluster # "none" =>
       cases[id].alerts = {a \in Alerts : landed[a].case = id}

RiskCoversAlerts ==
  \A a \in Alerts : landed[a] # NoAlert => cases[landed[a].case].risk >= landed[a].score

(* Whatever overlaps, a landed alert points at a committed case of its own  *)
(* cluster whose risk is not below its score, and the case of a cluster     *)
(* lists exactly the alerts landed in it (by which get_alerts_for_case      *)
(* finds the evidence): the two tables are never seen half updated.  Of a   *)
(* case an analyst created this is not claimed: it lists what the client    *)
(* gave, alerts that never landed or that are landed in another case too.   *)
EvidenceKept == LandedInOwnCase /\ RiskCoversAlerts

(* "Auto case creation/merge from an incoming Alert (cluster_id keyed)":    *)
(* however upserts of one alert overlap, its cluster never has two cases    *)
(* (with two, get_case_by_cluster would raise for ever after).              *)
OneCasePerCluster == \A k \in Clusters \ {"none"} : Cardinality(CasesOf(k)) <= 1

(* The risk of a case never falls: an analyst's edit beside an upsert does  *)
(* not undo it.  And as long as no two requests are open for one case at    *)
(* once, its timeline never loses an entry (each writes the list it loaded, *)
(* one entry longer).  No request takes an alert off a case's list, and an  *)
(* upsert, which merges by cluster, never adds one to the list a client     *)
(* gave, even when it lands an alert that list names.                       *)
RiskKept == \A id \in CaseIds : cases'[id].risk >= cases[id].risk
TimelineKept == \A id \in CaseIds : cases[id].timeline \subseteq cases'[id].timeline
ListsKept ==
  \A id \in CaseIds : Exists(id) =>
    /\ cases[id].alerts \subseteq cases'[id].alerts
    /\ cases[id].cluster = "none" => cases'[id].alerts = cases[id].alerts
NothingLost == [][RiskKept /\ ListsKept /\ (~overlapped => TimelineKept)]_vars

(* The row locks of alert and case are never taken in orders that wait for  *)
(* each other: every request that starts is answered.                       *)
EveryRequestAnswered == \A r \in Requests : r \in InFlight ~> tx[r].at \in Answers
=============================================================================
