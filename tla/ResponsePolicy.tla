---------------------------- MODULE ResponsePolicy ----------------------------
(***************************************************************************)
(* The response policy: from a likely objective and a risk to one           *)
(* recommendation, and the bandit's experience in bandit_state.json, which  *)
(* is written in place after every feedback and may be torn by a crash.     *)
(*                                                                         *)
(* A bandit is the number of times it has learnt from each episode: its     *)
(* matrices are sums over these, its scores are left open, so that any      *)
(* allowed arm may come out best.                                           *)
(***************************************************************************)
EXTENDS Integers, Sequences, FiniteSetsExt

CONSTANTS
  LoggedEpisodes,     \* feedback_log.json, those of a known action class
  Feedbacks,          \* calls of POST /api/v1/feedback
  UnknownClass,       \* those of them whose action class is no arm
  NoBandit,           \* _bandit is None
  Missing, TornState, \* no bandit_state.json, one cut short
  NoRecommendation

Episodes == LoggedEpisodes \cup Feedbacks
Bandits == [Episodes -> Nat]

ASSUME PolicyAssumption ==
  /\ LoggedEpisodes \cap Feedbacks = {}
  /\ UnknownClass \subseteq Feedbacks
  /\ {"start", "stop"} \cap Feedbacks = {}
  /\ NoBandit \notin Bandits
  /\ Missing # TornState /\ {Missing, TornState} \cap Bandits = {}

VARIABLES
  policyAt,      \* "down", "up", or "saving" and "writing" the file
  savedFor,      \* what it is saved for: "start", "stop" or a feedback
  bandit,        \* _bandit
  stateFile,     \* bandit_state.json
  registered,    \* the recommendation of the case, in the process's registry
  received,      \* history: the feedback calls made,
  recorded,      \*   those answered "recorded",
  forgotten      \*   those answered before the file was last found torn

policyVars == <<policyAt, savedFor, bandit, stateFile, registered, received, recorded, forgotten>>

-----------------------------------------------------------------------------
(* The catalog: PLAYBOOKS' action classes and ALLOWED_ACTIONS_BY_OBJECTIVE. *)
Disruptive == {"quarantine", "disable_account", "isolate_host", "block_ioc"}
Primary ==
  [ransomware |-> "isolate_host", credential_access |-> "isolate_host",
   lateral_movement |-> "isolate_host", phishing |-> "disable_account", c2_beacon |-> "block_ioc",
   recon |-> "collect_data", benign |-> "ignore"]
Allowed ==
  [ransomware |-> {"isolate_host", "quarantine", "escalate"},
   credential_access |-> {"isolate_host", "disable_account", "escalate"},
   lateral_movement |-> {"isolate_host", "collect_data"},
   phishing |-> {"disable_account", "create_ticket", "notify"},
   c2_beacon |-> {"block_ioc", "collect_data"},
   recon |-> {"collect_data", "enrich", "notify"},
   benign |-> {"ignore", "notify"}]
Objectives == DOMAIN Primary

(* _OBJECTIVE_ALIASES, in the order they are tried.                         *)
Aliases ==
  << <<"ransomware", "ransomware">>, <<"phishing", "phishing">>, <<"initial_access", "phishing">>,
     <<"credential", "credential_access">>, <<"lateral", "lateral_movement">>,
     <<"command_and_control", "c2_beacon">>, <<"c2", "c2_beacon">>, <<"beacon", "c2_beacon">>,
     <<"benign", "benign">>, <<"recon", "recon">>, <<"infrastructure", "c2_beacon">> >>

(* The objectives a triage report names, by the aliases their names contain.*)
Contained ==
  [ransomware_deployment |-> {"ransomware"},
   impact_service_disruption |-> {},
   credential_access_and_lateral_movement |-> {"credential", "lateral"},
   initial_access_phishing |-> {"initial_access", "phishing"},
   command_and_control |-> {"command_and_control"},
   infrastructure_reconnaissance |-> {"infrastructure", "recon"},
   suspicious_scripting_or_execution |-> {},
   defense_evasion |-> {},
   suspicious_activity_requires_review |-> {},
   insufficient_evidence |-> {},
   likely_benign_activity |-> {"benign"}]

(* A report may also call an activity likely benign and resembling one.     *)
Phrases ==
  {[of |-> name, benign |-> b] : name \in DOMAIN Contained, b \in BOOLEAN} \cup
  {[of |-> name, benign |-> FALSE] : name \in Objectives}
Needles(phrase) ==
  (IF phrase.of \in DOMAIN Contained THEN Contained[phrase.of] ELSE {}) \cup
  (IF phrase.benign THEN {"benign"} ELSE {})

(* resolve_objective; `risky` is a risk score of 0.3 or more.               *)
resolve_objective(phrase, risky) ==
  LET hits == {i \in DOMAIN Aliases : Aliases[i][1] \in Needles(phrase)}
  IN CASE phrase.of \in Objectives -> phrase.of
       [] phrase.of \notin Objectives /\ hits # {} -> Aliases[Min(hits)][2]
       [] OTHER -> IF risky THEN "recon" ELSE "benign"

(* infer_objective, where a request names no objective: by the tactics of   *)
(* its techniques, in OBJECTIVE_PRIORITY.                                   *)
ObjectiveOfTactic ==
  [impact |-> "ransomware", credential_access |-> "credential_access", persistence |-> "credential_access",
   privilege_escalation |-> "credential_access", lateral_movement |-> "lateral_movement",
   command_and_control |-> "c2_beacon", initial_access |-> "phishing", discovery |-> "recon",
   collection |-> "recon", defense_evasion |-> "recon", execution |-> "recon", unknown |-> "recon"]
ObjectivePriority ==
  <<"ransomware", "credential_access", "lateral_movement", "c2_beacon", "phishing", "recon", "benign">>
infer_objective(tactics, risky) ==
  IF tactics = {} THEN (IF risky THEN "recon" ELSE "benign")
  ELSE ObjectivePriority[Min({i \in DOMAIN ObjectivePriority :
                                \E t \in tactics : ObjectiveOfTactic[t] = ObjectivePriority[i]})]

(* recommend_action's bands of the risk score, cut at 0.25, 0.3 and 0.55.   *)
Risks == {"low", "guarded", "mid", "high"}
Risky(risk) == risk \in {"mid", "high"}

(* Mutant of ActionClasses: the bandit chooses among all of its arms.       *)
ActionClassesOfAllArms(objective, risk) ==
  IF risk = "low" THEN {"ignore"} ELSE UNION {Allowed[o] : o \in Objectives}
ActionClasses(objective, risk) ==
  CASE risk = "low" -> {"ignore"}
    [] risk = "high" -> {Primary[objective]}
    [] OTHER -> Allowed[objective]

Recommendation(objective, class) ==
  [objective |-> objective, class |-> class,
   status |-> IF class \in Disruptive THEN "pending" ELSE "auto_applied_dry_run"]

-----------------------------------------------------------------------------
Fresh == [e \in Episodes |-> 0]
Unused(b) == \A e \in Episodes : b[e] = 0
Learnt(b, es) == [e \in Episodes |-> b[e] + (IF e \in es THEN 1 ELSE 0)]

(* load_or_new: what cannot be parsed is started afresh.                    *)
Loaded == IF stateFile \in {Missing, TornState} THEN Fresh ELSE stateFile

(* Mutant of WarmStarted: the log is learnt at every start.                 *)
WarmStartedAlways(b) == Learnt(b, LoggedEpisodes)
WarmStarted(b) == IF Unused(b) THEN Learnt(b, LoggedEpisodes) ELSE b

-----------------------------------------------------------------------------
PolicyInit ==
  /\ policyAt = "down" /\ savedFor = "stop" /\ bandit = NoBandit /\ stateFile = Missing
  /\ registered = NoRecommendation
  /\ received = {} /\ recorded = {} /\ forgotten = {}

(* lifespan: get_bandit saves what it has warm-started.                     *)
PolicyStart ==
  /\ policyAt = "down"
  /\ bandit' = WarmStarted(Loaded)
  /\ policyAt' = IF Unused(Loaded) THEN "saving" ELSE "up"
  /\ savedFor' = "start"
  /\ forgotten' = IF stateFile = TornState THEN recorded ELSE forgotten
  /\ UNCHANGED <<stateFile, registered, received, recorded>>

(* recommend_action, for a request or, in sync mode, for a triage report.   *)
Recommend(objective, risk) ==
  /\ policyAt = "up"
  /\ \E class \in ActionClasses(objective, risk) :
       registered' = Recommendation(objective, class)
  /\ UNCHANGED <<policyAt, savedFor, bandit, stateFile, received, recorded, forgotten>>

RecommendReported(phrase, risk) == Recommend(resolve_objective(phrase, Risky(risk)), risk)
RecommendInferred(tactics, risk) == Recommend(infer_objective(tactics, Risky(risk)), risk)

(* A feedback may name a recommendation: it is marked without an approval.  *)
Marked(status) ==
  IF registered = NoRecommendation THEN NoRecommendation ELSE [registered EXCEPT !.status = status]
MarkNamed == registered' \in {registered, Marked("approved"), Marked("rejected")}

(* submit_feedback: the bandit learns what it has an arm for and is saved;  *)
(* whatever the class, a recommendation named by action_id is marked.       *)
Feedback(f) ==
  /\ policyAt = "up" /\ f \notin received
  /\ received' = received \cup {f}
  /\ IF f \in UnknownClass
     THEN /\ recorded' = recorded \cup {f}
          /\ MarkNamed
          /\ UNCHANGED <<policyAt, savedFor, bandit>>
     ELSE /\ bandit' = Learnt(bandit, {f})
          /\ policyAt' = "saving" /\ savedFor' = f
          /\ UNCHANGED <<recorded, registered>>
  /\ UNCHANGED <<stateFile, forgotten>>

PolicyStop ==
  /\ policyAt = "up"
  /\ policyAt' = "saving" /\ savedFor' = "stop"
  /\ UNCHANGED <<bandit, stateFile, registered, received, recorded, forgotten>>

(* save: write_text empties the file first.                                 *)
OpenState ==
  /\ policyAt = "saving"
  /\ stateFile' = TornState
  /\ policyAt' = "writing"
  /\ UNCHANGED <<savedFor, bandit, registered, received, recorded, forgotten>>

WriteState ==
  /\ policyAt = "writing"
  /\ stateFile' = bandit
  /\ CASE savedFor = "start" ->
            policyAt' = "up" /\ UNCHANGED <<bandit, registered, recorded>>
       [] savedFor = "stop" ->
            policyAt' = "down" /\ bandit' = NoBandit /\ registered' = NoRecommendation /\ UNCHANGED recorded
       [] savedFor \in Feedbacks ->
            /\ policyAt' = "up"
            /\ recorded' = recorded \cup {savedFor}
            /\ MarkNamed
            /\ UNCHANGED bandit
  /\ UNCHANGED <<savedFor, received, forgotten>>

PolicyCrash ==
  /\ policyAt # "down"
  /\ policyAt' = "down" /\ bandit' = NoBandit /\ registered' = NoRecommendation
  /\ UNCHANGED <<savedFor, stateFile, received, recorded, forgotten>>

(* Bound: a request's techniques are of at most two tactics.                *)
TacticSets == {{}} \cup {{s, t} : s, t \in DOMAIN ObjectiveOfTactic}

PolicyNext ==
  \/ PolicyStart \/ PolicyStop \/ OpenState \/ WriteState \/ PolicyCrash
  \/ \E risk \in Risks :
       \/ \E phrase \in Phrases : RecommendReported(phrase, risk)
       \/ \E tactics \in TacticSets : RecommendInferred(tactics, risk)
  \/ \E f \in Feedbacks : Feedback(f)

PolicySpec == PolicyInit /\ [][PolicyNext]_policyVars

-----------------------------------------------------------------------------
(* The registry holds what the catalog allows.                              *)
Recommendations ==
  {r \in [objective: Objectives, class: UNION {Allowed[o] : o \in Objectives},
          status: {"pending", "auto_applied_dry_run", "approved", "rejected"}] :
     r.class \in Allowed[r.objective] \cup {"ignore"}}

PolicyTypeOK ==
  /\ policyAt \in {"down", "up", "saving", "writing"}
  /\ savedFor \in {"start", "stop"} \cup Feedbacks
  /\ bandit \in Bandits \cup {NoBandit}
  /\ stateFile \in Bandits \cup {Missing, TornState}
  /\ registered \in Recommendations \cup {NoRecommendation}
  /\ received \subseteq Feedbacks /\ recorded \subseteq received /\ forgotten \subseteq recorded

(* Across crashes, torn files and restarts, a bandit that serves requests   *)
(* has learnt from the log exactly once and from no feedback twice; every   *)
(* feedback answered "recorded" is in it, unless a file torn since then     *)
(* made it start afresh.                                                    *)
ExperienceCountedOnce ==
  policyAt = "up" =>
    /\ \A e \in LoggedEpisodes : bandit[e] = 1
    /\ \A f \in Feedbacks : bandit[f] <= 1
    /\ \A f \in recorded \ (forgotten \cup UnknownClass) : bandit[f] = 1
=============================================================================
