-------------------------- MODULE ApprovalWorkflow --------------------------
(***************************************************************************)
(* The human-approval workflow: the approval service's create, decide,      *)
(* execute and rollback endpoints and the gateway's in-process              *)
(* submit_approval, all over one approvals database, and the gateway's      *)
(* in-memory recommendation registry.                                       *)
(*                                                                         *)
(* Each request is one transaction: it reads (and checks the status it      *)
(* read), flushes its INSERTs and UPDATEs, calls the audit sink, commits.   *)
(* The database is at READ COMMITTED: reads see committed rows and take no  *)
(* lock, a flushed UPDATE locks its row until the commit, and it writes the *)
(* changed columns of whatever the row has become by then.  No handler      *)
(* re-checks the status after it has the lock.  A flush and the audit call  *)
(* behind it are one step: a crash between the two looks like one before.   *)
(***************************************************************************)
EXTENDS Integers, FiniteSets, Sequences

CONSTANTS
  Requests,      \* the HTTP requests served
  Actions,       \* the action ids a request may name
  Classes,       \* the action classes
  ClassOf,       \* the class of the recommendation with an action id
  Disruptive,    \* the classes in DISRUPTIVE_CLASSES
  Reversible,    \* the classes whose adapter returns a rollback token
  Filings,       \* what clients of the create endpoint give as class and flag
  Cases,         \* the case ids a submitter may name
  MaxApprovals,  \* bound: approval rows ever inserted
  MaxInFlight    \* bound: requests served at the same time

(* The columns action_class and disruptive of an approval                   *)
Filing == [class: Classes, disruptive: BOOLEAN]

ASSUME WorkflowAssumption ==
  /\ Disruptive \subseteq Reversible
  /\ Reversible \subseteq Classes
  /\ ClassOf \in [Actions -> Classes]
  /\ Filings \subseteq Filing
  /\ MaxApprovals \in Nat
  /\ MaxInFlight \in Nat \ {0}

ApprovalIds == 1..MaxApprovals
Decisions == {"approved", "rejected"}
Roles == {"analyst", "senior_analyst"}   \* admin satisfies what senior_analyst does
Statuses == {"absent", "pending", "executed", "rolled_back"} \cup Decisions

VARIABLES
  approvals,    \* the committed rows of approval_requests, in creation order
  issued,       \* how many of them were inserted, committed or not
  executions,   \* the committed execution_records: the request and its approval
  rollbacks,    \* the committed rollback_records, with their status
  decided,      \* history: the committed decisions, oldest first
  announced,    \* what the audit sink has been called with
  registry,     \* policy_core.store: the status shown for each recommendation
  tx,           \* each request: operation, where it is, arguments, status read
  overlapped    \* history: a request arrived while another was served

vars ==
  <<approvals, issued, executions, rollbacks, decided, announced, registry, tx, overlapped>>
tables == <<approvals, issued, executions, rollbacks, decided>>

-----------------------------------------------------------------------------
Events == {"approval_requested", "action_executed_dry_run", "action_rolled_back"} \cup Decisions
Operations == {"none", "submit", "create", "decide", "execute", "rollback"}
Waiting == {"creating", "deciding", "executing", "finding", "reversing"}
(* 200; a 4xx or a transaction that was rolled back; the 500 of .../decide. *)
Answers == {"ok", "failed", "error"}
Places == {"idle", "flushed", "marking"} \cup Waiting \cup Answers

(* A client of the create endpoint files what it likes, whatever action id  *)
(* it names; the gateway files what its registry holds for the id.          *)
NoFiling == [class |-> "none", disruptive |-> FALSE]
Recommended(a) == [class |-> ClassOf[a], disruptive |-> ClassOf[a] \in Disruptive]

Idle == [op |-> "none", at |-> "idle", action |-> "none", case |-> "none", filing |-> NoFiling,
         decision |-> "none", role |-> "none", approval |-> 0, seen |-> "absent"]

AbsentRow == [status |-> "absent", action |-> "none", case |-> "none", filing |-> NoFiling,
              decision |-> "none"]

role_satisfies(role) == role = "senior_analyst"

(* The role rule: the gateway applies it to the flag in its registry, the   *)
(* decide endpoint to the flag in the row.                                  *)
Forbidden(disruptive, d, role) == d = "approved" /\ disruptive /\ ~role_satisfies(role)

Exists(id) == approvals[id].status # "absent"
Executed(id) == \E e \in executions : e.approval = id

(* list_approvals by case, newest first, then the first of this action id,  *)
(* of whatever class.                                                       *)
Matches(a, c) ==
  {id \in ApprovalIds : Exists(id) /\ approvals[id].action = a /\ approvals[id].case = c}
IsNewest(id, ids) == id \in ids /\ \A other \in ids : other <= id

InFlight == {r \in Requests : tx[r].at \in Waiting \cup {"flushed", "marking"}}
Arrives(r) == tx[r].at = "idle" /\ Cardinality(InFlight) < MaxInFlight

(* rollback_action: an execution has a rollback token if the class that was *)
(* run, which is the class of the row, is a reversible one.                 *)
Undo(id) == IF approvals[id].filing.class \in Reversible THEN "success" ELSE "unsupported"

(* The row a request's UPDATE locks.  A rollback the adapter does not       *)
(* support changes no column of the approval, so it updates no row.         *)
Updates(r) ==
  \/ tx[r].op \in {"submit", "execute"}
  \/ tx[r].op = "rollback" /\ Undo(tx[r].approval) = "success"

Locks(r, id) == tx[r].at = "flushed" /\ tx[r].approval = id /\ Updates(r)

Unlocked(r) ==
  Updates(r) => \A q \in Requests \ {r} : ~Locks(q, tx[r].approval)

Announce(r, events) == announced' = announced \cup {<<r, e>> : e \in events}

-----------------------------------------------------------------------------
(* The gateway registers a disruptive recommendation as pending and another *)
(* as applied; not every action a client may name is registered.            *)
Registered(a) == IF Recommended(a).disruptive THEN "pending" ELSE "auto_applied_dry_run"

Init ==
  /\ approvals = [id \in ApprovalIds |-> AbsentRow]
  /\ issued = 0
  /\ executions = {}
  /\ rollbacks = {}
  /\ decided = << >>
  /\ announced = {}
  /\ \E known \in SUBSET Actions :
       registry = [a \in Actions |-> IF a \in known THEN Registered(a) ELSE "unknown"]
  /\ tx = [r \in Requests |-> Idle]
  /\ overlapped = FALSE

Done(answer) == [Idle EXCEPT !.at = answer]

Answer(r, answer) ==
  /\ tx' = [tx EXCEPT ![r] = Done(answer)]
  /\ UNCHANGED <<tables, announced, registry>>

-----------------------------------------------------------------------------
(* Gateway, sync mode: submit_approval up to its first read of the table.   *)
SubmitRefused(r) ==
  /\ Arrives(r)
  /\ \E a \in Actions, d \in Decisions, role \in Roles :
       /\ registry[a] = "unknown" \/ Forbidden(Recommended(a).disruptive, d, role)
       /\ Answer(r, "failed")

(* A row the gateway finds keeps what it was filed with.                    *)
Filed(a, c, d, role, filing) ==
  [Idle EXCEPT !.op = "submit", !.action = a, !.case = c, !.filing = filing,
               !.decision = d, !.role = role]

Submit(r) ==
  /\ Arrives(r)
  /\ \E a \in Actions, c \in Cases, d \in Decisions, role \in Roles :
       /\ registry[a] # "unknown"
       /\ ~Forbidden(Recommended(a).disruptive, d, role)
       /\ \/ /\ Matches(a, c) = {}
             /\ tx' = [tx EXCEPT ![r] =
                         [Filed(a, c, d, role, Recommended(a)) EXCEPT !.at = "creating"]]
          \/ \E id \in ApprovalIds :
               /\ IsNewest(id, Matches(a, c))
               /\ tx' = [tx EXCEPT ![r] =
                           IF approvals[id].status = "pending"
                           THEN [Filed(a, c, d, role, approvals[id].filing) EXCEPT
                                   !.at = "deciding", !.approval = id]
                           ELSE Done("ok")]
  /\ UNCHANGED <<tables, announced, registry>>

(* POST /api/v1/approvals: action id, case, class and flag are stored as   *)
(* the client gives them, none checked against another.                     *)
Create(r) ==
  /\ Arrives(r)
  /\ \E a \in Actions, c \in Cases, filing \in Filings :
       tx' = [tx EXCEPT ![r] = [Idle EXCEPT !.op = "create", !.at = "creating",
                                            !.action = a, !.case = c, !.filing = filing]]
  /\ UNCHANGED <<tables, announced, registry>>

(* create_approval: the row is inserted, invisible until the commit.        *)
InsertPending(r) ==
  /\ tx[r].at = "creating"
  /\ issued < MaxApprovals
  /\ issued' = issued + 1
  /\ tx' = [tx EXCEPT ![r].approval = issued + 1,
                      ![r].at = IF tx[r].op = "submit" THEN "deciding" ELSE "flushed"]
  /\ Announce(r, {"approval_requested"})
  /\ UNCHANGED <<approvals, executions, rollbacks, decided, registry>>

(* decide_approval: the status it checks is the one already loaded.         *)
FlushDecision(r) ==
  /\ tx[r].at = "deciding"
  /\ Unlocked(r)
  /\ tx' = [tx EXCEPT ![r].at = "flushed"]
  /\ Announce(r, {tx[r].decision})
  /\ UNCHANGED <<tables, registry>>

-----------------------------------------------------------------------------
(* POST .../decide.  get_approval has begun the session's transaction, and  *)
(* SQLAlchemy refuses session.begin() on a session that is in one: past     *)
(* the 404 and 403 checks the handler always raises, and nothing is written.*)
Decide(r) ==
  /\ Arrives(r)
  /\ \E id \in ApprovalIds, d \in Decisions, role \in Roles :
       tx' = [tx EXCEPT ![r] =
                IF ~Exists(id) \/ Forbidden(approvals[id].filing.disruptive, d, role)
                THEN Done("failed")
                ELSE [Done("error") EXCEPT !.op = "decide", !.approval = id]]
  /\ UNCHANGED <<tables, announced, registry>>

-----------------------------------------------------------------------------
(* Mutants of Executable: the status check dropped, or a retry admitted.    *)
ExecutableAnyway(status) == status # "absent"
ExecutableAgain(status) == status \in {"approved", "executed"}
Executable(status) == status = "approved"

(* POST .../execute                                                         *)
Execute(r) ==
  /\ Arrives(r)
  /\ \E id \in ApprovalIds :
       tx' = [tx EXCEPT ![r] =
                IF Exists(id) /\ Executable(approvals[id].status)
                THEN [Idle EXCEPT !.op = "execute", !.at = "executing", !.approval = id]
                ELSE Done("failed")]
  /\ UNCHANGED <<tables, announced, registry>>

(* run_adapter for the class in the row, the execution record with it, and  *)
(* status = "executed"; a class without an adapter is recorded as failed.   *)
FlushExecution(r) ==
  /\ tx[r].at = "executing"
  /\ Unlocked(r)
  /\ tx' = [tx EXCEPT ![r].at = "flushed"]
  /\ Announce(r, {"action_executed_dry_run"})
  /\ UNCHANGED <<tables, registry>>

-----------------------------------------------------------------------------
(* POST .../rollback, as senior_analyst or admin: no status is checked, an  *)
(* execution record is looked for in a second read.                         *)
Rollback(r) ==
  /\ Arrives(r)
  /\ \E id \in ApprovalIds :
       tx' = [tx EXCEPT ![r] =
                IF Exists(id)
                THEN [Idle EXCEPT !.op = "rollback", !.at = "finding", !.approval = id,
                                  !.seen = approvals[id].status]
                ELSE Done("failed")]
  /\ UNCHANGED <<tables, announced, registry>>

Reversing(r) ==
  /\ tx' = [tx EXCEPT ![r].at = "reversing"]
  /\ UNCHANGED <<tables, announced, registry>>

FindExecution(r) ==
  /\ tx[r].at = "finding"
  /\ IF Executed(tx[r].approval) THEN Reversing(r) ELSE Answer(r, "failed")

FlushRollback(r) ==
  /\ tx[r].at = "reversing"
  /\ Unlocked(r)
  /\ tx' = [tx EXCEPT ![r].at = "flushed"]
  /\ Announce(r, {"action_rolled_back"})
  /\ UNCHANGED <<tables, registry>>

-----------------------------------------------------------------------------
(* Mutant of RolledBackStatus: a rollback reopens the approval.             *)
RolledBackToPending(r, id) ==
  IF Undo(id) = "success" THEN "pending" ELSE approvals[id].status

(* The status column after a rollback: left alone when the adapter cannot   *)
(* undo, or when the object loaded already said rolled_back.                *)
RolledBackStatus(r, id) ==
  IF Undo(id) = "success" /\ tx[r].seen # "rolled_back"
  THEN "rolled_back" ELSE approvals[id].status

Ends(r, op) == tx[r].at = "flushed" /\ tx[r].op = op
AnswersOk(r) == tx' = [tx EXCEPT ![r] = Done("ok")]

CommitCreate(r) ==
  /\ Ends(r, "create")
  /\ AnswersOk(r)
  /\ approvals' = [approvals EXCEPT ![tx[r].approval] =
                     [AbsentRow EXCEPT !.status = "pending", !.action = tx[r].action,
                                       !.case = tx[r].case, !.filing = tx[r].filing]]
  /\ UNCHANGED <<issued, executions, rollbacks, decided, announced, registry>>

CommitDecision(r) ==
  /\ Ends(r, "submit")
  /\ tx' = [tx EXCEPT ![r].at = "marking"]
  /\ approvals' = [approvals EXCEPT ![tx[r].approval] =
                     [status |-> tx[r].decision, decision |-> tx[r].decision,
                      action |-> tx[r].action, case |-> tx[r].case, filing |-> tx[r].filing]]
  /\ decided' = Append(decided, [approval |-> tx[r].approval, action |-> tx[r].action,
                                 decision |-> tx[r].decision, role |-> tx[r].role])
  /\ UNCHANGED <<issued, executions, rollbacks, announced, registry>>

CommitExecution(r) ==
  /\ Ends(r, "execute")
  /\ AnswersOk(r)
  /\ approvals' = [approvals EXCEPT ![tx[r].approval].status = "executed"]
  /\ executions' = executions \cup
       {[request |-> r, approval |-> tx[r].approval,
         class |-> approvals[tx[r].approval].filing.class]}
  /\ UNCHANGED <<issued, rollbacks, decided, announced, registry>>

CommitRollback(r) ==
  /\ Ends(r, "rollback")
  /\ AnswersOk(r)
  /\ LET id == tx[r].approval
     IN /\ approvals' = [approvals EXCEPT ![id].status = RolledBackStatus(r, id)]
        /\ rollbacks' = rollbacks \cup
             {[request |-> r, approval |-> id, status |-> Undo(id)]}
  /\ UNCHANGED <<issued, executions, decided, announced, registry>>

(* Mutant of MarkStatus: a rejection is not shown in the registry.          *)
MarkApprovedOnly(r) ==
  /\ tx[r].at = "marking"
  /\ AnswersOk(r)
  /\ registry' = IF tx[r].decision = "approved"
                 THEN [registry EXCEPT ![tx[r].action] = "approved"] ELSE registry
  /\ UNCHANGED <<tables, announced>>

(* Mutant of MarkStatus: the decision is read after the request is cleared.  *)
MarkCleared(r) ==
  /\ tx[r].at = "marking"
  /\ AnswersOk(r)
  /\ registry' = [registry EXCEPT ![tx[r].action] = Idle.decision]
  /\ UNCHANGED <<tables, announced>>

(* policy_store.mark_status, after the commit                               *)
MarkStatus(r) ==
  /\ tx[r].at = "marking"
  /\ AnswersOk(r)
  /\ registry' = [registry EXCEPT ![tx[r].action] = tx[r].decision]
  /\ UNCHANGED <<tables, announced>>

(* The database or the service goes away before the commit.                 *)
Abort(r) ==
  /\ tx[r].at \in Waiting \cup {"flushed"}
  /\ Answer(r, "failed")

(* The gateway stops and starts again: its submissions end, committed or    *)
(* not, and its registry is empty.                                          *)
Restart ==
  /\ registry' = [a \in Actions |-> "unknown"]
  /\ tx' = [r \in Requests |->
             IF tx[r].op = "submit" /\ r \in InFlight THEN Done("failed") ELSE tx[r]]
  /\ UNCHANGED <<tables, announced>>

Proceed(r) ==
  \/ InsertPending(r)
  \/ FlushDecision(r)
  \/ FlushExecution(r)
  \/ FindExecution(r)
  \/ FlushRollback(r)
  \/ CommitCreate(r)
  \/ CommitDecision(r)
  \/ CommitExecution(r)
  \/ CommitRollback(r)
  \/ MarkStatus(r)

Arrive(r) ==
  \/ SubmitRefused(r)
  \/ Submit(r)
  \/ Create(r)
  \/ Decide(r)
  \/ Execute(r)
  \/ Rollback(r)

Next ==
  \/ /\ \E r \in Requests : Arrive(r)
     /\ overlapped' = (overlapped \/ InFlight # {})
  \/ /\ \/ \E r \in Requests : Proceed(r) \/ Abort(r)
        \/ Restart
     /\ UNCHANGED overlapped

Spec == Init /\ [][Next]_vars

-----------------------------------------------------------------------------
Ids == 0..MaxApprovals
FilingType == Filing \cup {NoFiling}
TxType ==
  [op: Operations, at: Places, action: Actions \cup {"none"}, case: Cases \cup {"none"},
   filing: FilingType,
   decision: Decisions \cup {"none"}, role: Roles \cup {"none"}, approval: Ids, seen: Statuses]

(* Tables, registry and transactions keep their types.                      *)
TypeOK ==
  /\ approvals \in [ApprovalIds -> [status: Statuses, action: Actions \cup {"none"},
                      case: Cases \cup {"none"}, filing: FilingType,
                      decision: Decisions \cup {"none"}]]
  /\ issued \in Ids
  /\ executions \in SUBSET [request: Requests, approval: ApprovalIds, class: Classes]
  /\ rollbacks \in SUBSET [request: Requests, approval: ApprovalIds,
                           status: {"success", "unsupported"}]
  /\ decided \in Seq([approval: ApprovalIds, action: Actions, decision: Decisions, role: Roles])
  /\ announced \in SUBSET (Requests \X Events)
  /\ registry \in [Actions -> Decisions \cup {"unknown", "pending", "auto_applied_dry_run"}]
  /\ tx \in [Requests -> TxType]
  /\ overlapped \in BOOLEAN

Approves(d, id) ==
  /\ d.approval = id
  /\ d.decision = "approved"
  /\ Recommended(d.action).disruptive => role_satisfies(d.role)
ExecutedOnlyIfApproved ==
  \A e \in executions :
    /\ e.class = approvals[e.approval].filing.class
    /\ \E i \in DOMAIN decided :
         /\ decided[i].action = approvals[e.approval].action
         /\ Approves(decided[i], e.approval)

RolledBackOnlyIfExecuted ==
  /\ \A b \in rollbacks : Executed(b.approval)
  /\ \A id \in ApprovalIds : approvals[id].status = "rolled_back" =>
       /\ approvals[id].filing.class \in Reversible
       /\ \E b \in rollbacks : b.approval = id /\ b.status = "success"

AnnouncedByFlush ==
  /\ \A r \in Requests :
       tx[r].at \in {"flushed", "marking"} => \E e \in Events : <<r, e>> \in announced
  /\ \A e \in executions : <<e.request, "action_executed_dry_run">> \in announced
  /\ \A b \in rollbacks : <<b.request, "action_rolled_back">> \in announced
  /\ \A i \in DOMAIN decided : \E r \in Requests : <<r, decided[i].decision>> \in announced

(* Approval gate, whatever requests overlap and whatever was filed: an      *)
(* adapter only ever ran the class its approval was filed with, after a     *)
(* committed decision that approved it, taken by a senior analyst if the    *)
(* recommendation with the approval's action id is disruptive (so a         *)
(* disruptive class was approved by a senior analyst if the approval was    *)
(* filed with the class recommended, as the gateway files; for what else a  *)
(* client files the code promises no such thing).  A rollback record has an *)
(* execution to reverse, and rolled_back is only shown after a successful   *)
(* rollback of a reversible class.  And, as the repository's docstring says,*)
(* every transition is mirrored to the audit sink by its request, no later  *)
(* than its commit.                                                         *)
Accountable == ExecutedOnlyIfApproved /\ RolledBackOnlyIfExecuted /\ AnnouncedByFlush

(* A decided approval may be overwritten but never reverts to undecided, and*)
(* no row disappears or is moved to another action id, case, class or flag. *)
NeverReopened == [][
  \A id \in ApprovalIds : Exists(id) =>
    /\ approvals'[id].action = approvals[id].action
    /\ approvals'[id].case = approvals[id].case
    /\ approvals'[id].filing = approvals[id].filing
    /\ approvals'[id].status # "absent"
    /\ approvals[id].status # "pending" => approvals'[id].status # "pending" ]_vars

(* Until two requests overlap, an approval goes through the documented      *)
(* lifecycle: every step of the tables is a step of it.                     *)
Shown == [id \in ApprovalIds |-> approvals[id].status]
Lifecycle == INSTANCE ApprovalLifecycle WITH Ids <- ApprovalIds, status <- Shown
FollowsLifecycle ==
  /\ Lifecycle!Init
  /\ [][~overlapped => Lifecycle!Next]_Shown

(* Until two requests overlap, an approved action is run once, whatever is  *)
(* retried after a crash.                                                   *)
ExecutedOnce ==
  ~overlapped => \A e, f \in executions : e.approval = f.approval => e = f

(* Until two requests overlap, what the gateway shows for a recommendation  *)
(* it has not forgotten is the last decision committed for it, through      *)
(* whichever approval.                                                      *)
DecisionsOn(a) == {i \in DOMAIN decided : decided[i].action = a}
RegistryShowsLastDecision ==
  \A a \in Actions : \A i \in DOMAIN decided :
    ~overlapped /\ InFlight = {} /\ IsNewest(i, DecisionsOn(a)) /\ registry[a] # "unknown" =>
      registry[a] = decided[i].decision

(* "Approval records should be immutable once decided": no step changes the *)
(* decision of a decided approval.                                          *)
DecisionsAreFinal == [][
  \A id \in ApprovalIds :
    approvals[id].decision # "none" => approvals'[id].decision = approvals[id].decision ]_vars

(* "Any analyst may reject or approve a non-disruptive action": a request   *)
(* on .../decide that its role allows leaves the approval decided.          *)
DecideDecides ==
  \A r \in Requests : tx[r].op = "decide" /\ tx[r].at \in Answers =>
    approvals[tx[r].approval].status # "pending"
=============================================================================
