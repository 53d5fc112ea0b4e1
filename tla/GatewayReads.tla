---------------------------- MODULE GatewayReads ----------------------------
(***************************************************************************)
(* The listings of the gateway, read page by page while they change: alerts *)
(* and cases are shown latest update first, audit events last recorded      *)
(* first.  Alerts are filtered and cut by the gateway, cases by a query;    *)
(* of the audit events the gateway asks for the newest offset + limit, and  *)
(* searches their text only then.                                           *)
(*                                                                         *)
(* A row is an alert, a case or an audit event.  The clock gives every      *)
(* change its time, and every audit event its sequence.                     *)
(***************************************************************************)
EXTENDS Integers, FiniteSets

CONSTANTS
  Rows,        \* the alerts, cases or audit events there can be
  PageSize,    \* the limit of every request of a client
  MaxChanges,  \* bound: rows added and changed
  MaxOffset    \* bound: how far a client reads

ASSUME ReadsAssumption ==
  /\ IsFiniteSet(Rows)
  /\ PageSize \in Nat \ {0}
  /\ MaxChanges \in Nat
  /\ MaxOffset \in Nat

VARIABLES
  listing,   \* the listing read, the same throughout a behaviour
  sync,      \* AEGIS_SYNC_MODE, as well
  query,     \* a text is searched for, as well
  updated,   \* when each row was changed last, 0 for one that is not there
  fitting,   \* the rows that pass the filters of the client
  worded,    \* the rows that hold the text
  changes,   \* the clock
  since,     \* when the client asked for its first page
  offset,    \* the offset it asks for next
  seen,      \* the rows it was shown
  left       \* history: how many rows have left the listing since

listed == <<updated, fitting, worded, changes>>
client == <<since, offset, seen>>
readVars == <<listing, sync, query, listed, client, left>>

-----------------------------------------------------------------------------
(* Newest first: the place of a row among others, and the rows of a page.   *)
Ahead(i, rows) == {j \in rows : updated[j] >= updated[i]}
Rank(i, rows) == Cardinality(Ahead(i, rows))

Page(rows, from, limit) ==
  {i \in rows : Rank(i, rows) > from /\ Rank(i, rows) <= from + limit}

Search(rows) == IF query THEN rows \cap worded ELSE rows
Found == Search(fitting)

(* fetch_json sends no identity and takes a refusal for an empty list; the  *)
(* listing of alerts asks for none, those of cases and audit events for an  *)
(* analyst's.                                                               *)
Fetched(rows) == IF sync \/ listing = "alerts" THEN rows ELSE {}

-----------------------------------------------------------------------------
list_alerts(from, limit) == Page(Search(Fetched(fitting)), from, limit)
list_cases(from, limit) == Fetched(Page(Search(fitting), from, limit))

(* The newest events that pass the filters.                                 *)
query_events(limit) == Page(fitting, 0, limit)

(* Mutant of list_audit: only as many events as fit on a page are asked for.*)
list_audit_one_page(from, limit) == Page(Search(Fetched(query_events(limit))), from, limit)

list_audit(from, limit) == Page(Search(Fetched(query_events(limit + from))), from, limit)

Shown(from, limit) ==
  CASE listing = "alerts" -> list_alerts(from, limit)
    [] listing = "cases" -> list_cases(from, limit)
    [] listing = "audit" -> list_audit(from, limit)

-----------------------------------------------------------------------------
ReadsInit ==
  /\ listing \in {"alerts", "cases", "audit"}
  /\ sync \in BOOLEAN
  /\ query \in BOOLEAN
  /\ updated = [i \in Rows |-> 0]
  /\ fitting = {}
  /\ worded = {}
  /\ changes = 0
  /\ since = 0
  /\ offset = 0
  /\ seen = {}
  /\ left = 0

(* A row is written, with any status, severity, actor and text (which text  *)
(* only matters to a search).                                               *)
Write(i) ==
  /\ changes < MaxChanges
  /\ changes' = changes + 1
  /\ updated' = [updated EXCEPT ![i] = changes + 1]
  /\ fitting' \in {fitting \cup {i}, fitting \ {i}}
  /\ worded' \in IF query THEN {worded \cup {i}, worded \ {i}} ELSE {worded}
  /\ UNCHANGED <<listing, sync, query, client>>
  /\ left' = IF i \in Found /\ i \notin Found' THEN left + 1 ELSE left

(* An alert is raised, a case created, an audit event recorded.             *)
Add(i) == updated[i] = 0 /\ Write(i)

(* An alert is merged into its cluster, a case edited.  Audit events stay.  *)
Change(i) == listing # "audit" /\ updated[i] # 0 /\ Write(i)

(* A client asks for the first page, or for the one after the last.         *)
FirstPage ==
  /\ since' = changes
  /\ offset' = PageSize
  /\ seen' = Shown(0, PageSize)
  /\ left' = 0
  /\ UNCHANGED <<listing, sync, query, listed>>

NextPage ==
  /\ offset > 0
  /\ offset + PageSize <= MaxOffset
  /\ offset' = offset + PageSize
  /\ seen' = seen \cup Shown(offset, PageSize)
  /\ UNCHANGED <<listing, sync, query, listed, since, left>>

ReadsNext ==
  \/ \E i \in Rows : Add(i) \/ Change(i)
  \/ FirstPage
  \/ NextPage

ReadsSpec == ReadsInit /\ [][ReadsNext]_readVars

-----------------------------------------------------------------------------
(* Rows and client keep their types; no two rows changed at the same time.  *)
ReadsTypeOK ==
  /\ listing \in {"alerts", "cases", "audit"}
  /\ sync \in BOOLEAN /\ query \in BOOLEAN
  /\ updated \in [Rows -> 0..changes]
  /\ fitting \in SUBSET Rows /\ worded \in SUBSET Rows
  /\ changes \in Nat /\ since \in 0..changes
  /\ offset \in Nat /\ left \in Nat
  /\ seen \in SUBSET Rows

(* The rows a client should have been shown and was not: those that have    *)
(* stayed since it began and are no farther down than it has read.  A text  *)
(* is only searched for in as many of the newest audit events as the page   *)
(* asks for, so of those only the ones on the first page count.             *)
Searched(i) == listing = "audit" /\ query => Rank(i, fitting) <= PageSize
Missed ==
  {i \in Found : updated[i] <= since /\ Rank(i, Found) <= offset /\ Searched(i) /\ i \notin seen}

(* Reading page by page while alerts are merged and cases change: for each  *)
(* row that has left the listing meanwhile a client may miss one that has   *)
(* stayed, and never more.  The audit trail, which no row leaves, is read   *)
(* without gaps.  (Nothing is claimed of the listings an async gateway is   *)
(* refused.)                                                                *)
PagesMissOnlyWhatMovedUp ==
  sync \/ listing = "alerts" => Cardinality(Missed) <= left
=============================================================================
