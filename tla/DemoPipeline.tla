---------------------------- MODULE DemoPipeline ----------------------------
(***************************************************************************)
(* run_scenario: a scenario's events through every stage of the pipeline,   *)
(* in the gateway's process, while it serves other requests for a run.      *)
(* What else appends to the audit log, the approvals, does it as a run does.*)
(*                                                                         *)
(* Everything up to the detection of an event is done between two awaits    *)
(* that wait for something; the sessions of the case store and of the audit *)
(* store do wait, and SQLite lets one transaction write at a time.  An      *)
(* alert is named by its run and its number; it has its cluster and so its  *)
(* case to itself, named like it.                                           *)
(***************************************************************************)
EXTENDS Integers, Sequences, FiniteSets, SequencesExt

CONSTANTS
  DemoRuns,        \* calls of POST /api/demo/run-scenario
  NoState,         \* _default_state is None
  EventsOf(_)      \* how many events the scenario of a run has

ASSUME DemoAssumption ==
  /\ NoState \notin DemoRuns
  /\ \A r \in DemoRuns : EventsOf(r) \in Nat

VARIABLES
  demo,           \* each run: where it is and its local variables
  defaultState,   \* _default_state: the run that created it
  stateAlerts,    \* for each run's DetectionState its alerts, by which run, with a case_id or not
  demoCases,      \* the committed cases, by the alert each holds
  recommended,    \* cases with a recommendation in the registry
  trail           \* audit_events: run, action and resource of each row

demoVars == <<demo, defaultState, stateAlerts, demoCases, recommended, trail>>

-----------------------------------------------------------------------------
DemoAlert(r, n) == <<r, n>>
NoAlertYet == << >>
NotStarted ==
  [at |-> "idle", replayed |-> 0, state |-> NoState, alert |-> NoAlertYet, touched |-> << >>,
   row |-> << >>, sequence |-> 0, written |-> 0]
Ended(local, answer) == [NotStarted EXCEPT !.at = answer, !.written = local.written]

DemoInit ==
  /\ demo = [r \in DemoRuns |-> NotStarted]
  /\ defaultState = NoState
  /\ stateAlerts = [r \in DemoRuns |-> {}]
  /\ demoCases = {} /\ recommended = {} /\ trail = << >>

Go(r, local) == demo' = [demo EXCEPT ![r] = local]

(* reset_store_for_tests, reset_default_state, get_default_state; a name    *)
(* without a scenario is answered 404 before them.                          *)
StartRun(r) ==
  /\ demo[r].at = "idle"
  /\ \/ Go(r, [demo[r] EXCEPT !.at = "replaying", !.state = r]) /\ defaultState' = r
     \/ Go(r, Ended(demo[r], "not_found")) /\ UNCHANGED defaultState
  /\ UNCHANGED <<stateAlerts, demoCases, recommended, trail>>

(* Mutant of DetectionStateOf: the state is looked up anew for every event. *)
DetectionStateOfProcess(r) == defaultState
DetectionStateOf(r) == demo[r].state

(* One event: refused at a stage or without an alert; one that is merged    *)
(* into an alert there is; one that makes a new alert.                      *)
ReplayEvent(r) ==
  /\ demo[r].at = "replaying" /\ demo[r].replayed < EventsOf(r)
  /\ LET s == DetectionStateOf(r)
         seen == [demo[r] EXCEPT !.replayed = @ + 1]
         Alerted(a) == Go(r, [seen EXCEPT !.at = "landing", !.alert = a])
         new == DemoAlert(s, Cardinality(stateAlerts[s]) + 1)
     IN \/ Go(r, seen) /\ UNCHANGED stateAlerts
        \/ \E a \in stateAlerts[s] : Alerted(a.alert) /\ UNCHANGED stateAlerts
        \/ /\ Alerted(new)
           /\ stateAlerts' = [stateAlerts EXCEPT ![s] = @ \cup {[alert |-> new, by |-> r, linked |-> FALSE]}]
  /\ UNCHANGED <<defaultState, demoCases, recommended, trail>>

(* upsert_case_from_alert in a session of its own; alert.case_id = case_id  *)
LandAlert(r) ==
  /\ demo[r].at = "landing"
  /\ LET a == demo[r].alert
         s == DetectionStateOf(r)
     IN /\ demoCases' = demoCases \cup {a}
        /\ stateAlerts' = [stateAlerts EXCEPT ![s] =
                             {IF b.alert = a THEN [b EXCEPT !.linked = TRUE] ELSE b : b \in @}]
        /\ Go(r, [demo[r] EXCEPT !.at = "replaying", !.alert = NoAlertYet,
                    !.touched = IF Contains(@, a) THEN @ ELSE Append(@, a)])
  /\ UNCHANGED <<defaultState, recommended, trail>>

-----------------------------------------------------------------------------
(* _append_audit: append_event reads the last sequence; its INSERT fails    *)
(* where another transaction has committed the next one meanwhile.          *)
AuditRow(r, action, resource) == <<r, action, resource>>
Audit(r, local, action, resource) ==
  Go(r, [local EXCEPT !.at = "auditing", !.row = AuditRow(r, action, resource)])

EndReplay(r) ==
  /\ demo[r].at = "replaying" /\ demo[r].replayed = EventsOf(r)
  /\ Audit(r, demo[r], "scenario_run_started", r)
  /\ UNCHANGED <<defaultState, stateAlerts, demoCases, recommended, trail>>

ReadTrail(r) ==
  /\ demo[r].at = "auditing"
  /\ Go(r, [demo[r] EXCEPT !.at = "inserting", !.sequence = Len(trail) + 1])
  /\ UNCHANGED <<defaultState, stateAlerts, demoCases, recommended, trail>>

(* The loop over the cases goes on behind the one just recommended for.     *)
NextCase(local) == [local EXCEPT !.at = "triaging", !.touched = Tail(@)]
Written(local) ==
  LET counted == [local EXCEPT !.written = @ + 1]
      action == local.row[2]
  IN CASE action = "scenario_run_started" -> [counted EXCEPT !.at = "triaging"]
       [] action = "triage_report_generated" -> [counted EXCEPT !.at = "recommending"]
       [] action = "recommendation_created" -> NextCase(counted)
       [] action = "scenario_run_completed" -> Ended(counted, "completed")

(* Mutant of Collided: the audit log is best effort, as in the other sinks. *)
CollidedIgnored(r) == Written(demo[r])
(* The IntegrityError ends the run: 500, demo_pipeline_failed.              *)
Collided(r) == Ended(demo[r], "failed")

InsertRow(r) ==
  /\ demo[r].at = "inserting"
  /\ IF Len(trail) + 1 = demo[r].sequence
     THEN trail' = Append(trail, demo[r].row) /\ Go(r, Written(demo[r]))
     ELSE Go(r, Collided(r)) /\ UNCHANGED trail
  /\ UNCHANGED <<defaultState, stateAlerts, demoCases, recommended>>

-----------------------------------------------------------------------------
(* generate_triage_report for the next case, or `continue` when it raises.  *)
TriageCase(r) ==
  /\ demo[r].at = "triaging" /\ demo[r].touched # << >>
  /\ \/ Audit(r, demo[r], "triage_report_generated", Head(demo[r].touched))
     \/ Go(r, NextCase(demo[r]))
  /\ UNCHANGED <<defaultState, stateAlerts, demoCases, recommended, trail>>

(* recommend_action puts what it recommends into the registry.              *)
RecommendForCase(r) ==
  /\ demo[r].at = "recommending"
  /\ LET case == Head(demo[r].touched)
     IN \/ /\ recommended' = recommended \cup {case}
           /\ Audit(r, demo[r], "recommendation_created", case)
        \/ Go(r, NextCase(demo[r])) /\ UNCHANGED recommended
  /\ UNCHANGED <<defaultState, stateAlerts, demoCases, trail>>

CompleteRun(r) ==
  /\ demo[r].at = "triaging" /\ demo[r].touched = << >>
  /\ Audit(r, demo[r], "scenario_run_completed", r)
  /\ UNCHANGED <<defaultState, stateAlerts, demoCases, recommended, trail>>

(* A stage of the replay raises, or a session: its database is locked or    *)
(* gone.                                                                    *)
DemoFails(r) ==
  /\ demo[r].at \in {"replaying", "landing", "auditing", "triaging"}
  /\ Go(r, Ended(demo[r], "failed"))
  /\ UNCHANGED <<defaultState, stateAlerts, demoCases, recommended, trail>>

DemoNext ==
  \E r \in DemoRuns :
    \/ StartRun(r) \/ ReplayEvent(r) \/ LandAlert(r) \/ EndReplay(r)
    \/ ReadTrail(r) \/ InsertRow(r)
    \/ TriageCase(r) \/ RecommendForCase(r) \/ CompleteRun(r) \/ DemoFails(r)

DemoSpec == DemoInit /\ [][DemoNext]_demoVars

-----------------------------------------------------------------------------
(* list_alerts: the alerts of the default state, with the case the process  *)
(* or, for want of one, the case store gives.                               *)
Listing ==
  IF defaultState = NoState THEN {}
  ELSE {[alert |-> a.alert, by |-> a.by, linked |-> a.linked \/ a.alert \in demoCases] :
          a \in stateAlerts[defaultState]}

(* Runs and stores keep their types.                                        *)
DemoTypeOK ==
  /\ \A r \in DemoRuns :
       /\ demo[r].at \in {"idle", "replaying", "landing", "auditing", "inserting", "triaging",
                          "recommending", "completed", "failed", "not_found"}
       /\ demo[r].replayed \in 0..EventsOf(r)
       /\ demo[r].state \in DemoRuns \cup {NoState}
       /\ ToSet(demo[r].touched) \subseteq demoCases
  /\ defaultState \in DemoRuns \cup {NoState}
  /\ demoCases \subseteq {a.alert : a \in UNION {stateAlerts[r] : r \in DemoRuns}}
  /\ recommended \subseteq demoCases

(* Where in the trail the rows of a run are.                                *)
RowsOf(r) == {i \in DOMAIN trail : trail[i][1] = r}
(* j is the row of the run before its row i.                                *)
JustBefore(r, j, i) == j < i /\ \A k \in RowsOf(r) : k <= j \/ i <= k
Unaudited(r) ==
  {c \in recommended :
     c[1] = r /\ \A i \in RowsOf(r) : trail[i] # AuditRow(r, "recommendation_created", c)}

StartsWith(r, row) == \E i \in RowsOf(r) : trail[i] = row /\ \A j \in RowsOf(r) : i <= j
EndsWith(r, row) == \E i \in RowsOf(r) : trail[i] = row /\ \A j \in RowsOf(r) : j <= i

(* Whatever else is appended meanwhile, the trail of a run tells of each    *)
(* recommendation right after the report it rests on and has as many rows   *)
(* as the run counts; that of a completed run is whole, from its start to   *)
(* its completion; and no run leaves more than the recommendation it        *)
(* stopped at out of the trail.                                             *)
RunsAreAudited ==
  \A r \in DemoRuns :
    /\ Cardinality(RowsOf(r)) = demo[r].written
    /\ \A i \in RowsOf(r) : trail[i][2] = "recommendation_created" =>
         \E j \in RowsOf(r) :
           JustBefore(r, j, i) /\ trail[j] = AuditRow(r, "triage_report_generated", trail[i][3])
    /\ \A c, d \in Unaudited(r) : c = d
    /\ demo[r].at = "completed" =>
         /\ Unaudited(r) = {}
         /\ StartsWith(r, AuditRow(r, "scenario_run_started", r))
         /\ EndsWith(r, AuditRow(r, "scenario_run_completed", r))

(* Although runs overlap in one process and each resets the stores, what a  *)
(* reader lists are the alerts of one run, and the case of an alert that    *)
(* names one has been committed.                                            *)
ListingIsOneRun ==
  /\ \A a, b \in Listing : a.by = b.by
  /\ \A a \in Listing : a.linked => a.alert \in demoCases
=============================================================================
