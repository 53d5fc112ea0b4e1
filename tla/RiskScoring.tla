---------------------------- MODULE RiskScoring -----------------------------
(***************************************************************************)
(* The risk score of an event and what it decides (detection_core/          *)
(* heuristics.py, graph_features.py, ml_scorer.py, ensemble.py,             *)
(* pipeline.py): five scores of the evidence about one event, their         *)
(* weighted sum, its calibration, the severity and whether an alert is      *)
(* raised.                                                                  *)
(*                                                                          *)
(* Scores are integers in thousandths; the roundings of the code, to three  *)
(* and four digits, are left out. The two logistic curves are step          *)
(* functions at the values where the outcome changes.                       *)
(***************************************************************************)
EXTENDS Integers, FiniteSetsExt

CONSTANTS
  Confidences,    \* of a threat intelligence hit, in thousandths
  Criticalities,  \* of the asset, in thousandths
  Degrees,        \* of the primary entity in the graph
  Rarities,       \* of the edges around it, in thousandths
  PathLengths,    \* from it to a known bad node
  Rates           \* techniques and events of the entity's last window

VARIABLE evidence    \* what is known about one event when it is scored

Thousandths == 0..1000    \* a score between 0 and 1

ASSUME ScoringAssumption ==
  /\ Confidences \cup Criticalities \cup Rarities \subseteq Thousandths
  /\ PathLengths \subseteq 0..4
  /\ Degrees \cup Rates \subseteq Nat

NoHit == -1
NotReached == 5    \* path_length_to_known_bad None: the search stops at max_depth = 4

-----------------------------------------------------------------------------
SEVERITY_WEIGHT(level) ==
  CASE level = "informational" -> 100 [] level = "low" -> 300 [] level = "medium" -> 550
    [] level = "high" -> 800 [] level = "critical" -> 1000

rule_score_from_hits(e) == IF e.rule = "none" THEN 0 ELSE SEVERITY_WEIGHT(e.rule)

Upto(bound, v) == Min({bound, v})
Atleast(bound, v) == Max({bound, v})
If(condition, v) == IF condition THEN v ELSE 0

HasIntel(e) == e.hits > 0

(* The reason benign_admin_context is given only without intel.             *)
BenignContext(e) == e.admin_hint /\ ~HasIntel(e)

heuristic_score(e) ==
  LET signals == If(e.off_hours, 150) + If(e.suspicious_hint, 350)
                 + If(e.criticality >= 800, 200) + If(e.native_severity, 250) + 50 * e.hits
  IN  Upto(1000, IF BenignContext(e) THEN Atleast(0, signals - 450) ELSE signals)

degree_norm(e) == Upto(1000, e.degree * 50)

(* Mutant: a length of 0, the entity itself known bad, is taken for None.    *)
PathNormFalsy(e) == IF e.path \in {NotReached, 0} THEN 0 ELSE Atleast(0, 1000 - e.path * 250)

path_to_bad_norm(e) == IF e.path = NotReached THEN 0 ELSE Atleast(0, 1000 - e.path * 250)

(* graph_score_from_features                                                *)
graph_score(e) == (4 * degree_norm(e) + 3 * e.rarity + 3 * path_to_bad_norm(e)) \div 10

intel_score_from_matches(e) ==
  IF HasIntel(e) THEN Upto(1000, e.confidence + 50 * (e.hits - 1)) ELSE 0

(* score: the self features and the neighbours', which are the self         *)
(* features times 0.6, so each feature counts _W_SELF + 0.6 * _W_NEIGHBOR.  *)
Weighted(e) ==
  (120 * e.criticality + 84 * degree_norm(e) + 100 * e.rarity + 116 * path_to_bad_norm(e)
   + 142 * Upto(1000, e.hits * 333) + 68 * Upto(1000, e.techniques * 200)
   + 52 * Upto(1000, e.events * 50)) \div 100 - 1200

(* _sigmoid at -1.2, -1, 0, 1, 2, 3 and 4                                   *)
_sigmoid == {<<-1200, 231>>, <<-1000, 269>>, <<0, 500>>, <<1000, 731>>, <<2000, 881>>, <<3000, 953>>, <<4000, 982>>}

Step(curve, x) == Max({0} \cup {p[2] : p \in {q \in curve : q[1] <= x}})

ml_score(e) == Step(_sigmoid, Weighted(e))

(* combine: the ensemble score, in hundred-thousandths                      *)
Ensemble(e) ==
  LET sum == 35 * rule_score_from_hits(e) + 15 * heuristic_score(e) + 20 * graph_score(e)
             + 15 * intel_score_from_matches(e) + 15 * ml_score(e)
  IN  Upto(100000, IF BenignContext(e) /\ intel_score_from_matches(e) < 100
                   THEN Upto(35000, (sum * 45) \div 100) ELSE sum)

(* The ensemble scores at which the calibrated one, 1 / (1 + exp(-6(x-.5))),*)
(* reaches a threshold of severity_from_score or MIN_ALERT_SCORE (300)      *)
Calibration == {<<26890, 200>>, <<35880, 300>>, <<43240, 400>>, <<60320, 650>>, <<78910, 850>>}

calibrated_score(e) == Step(Calibration, Ensemble(e))

MinAlertScore == 300    \* MIN_ALERT_SCORE

severity_from_score(score) ==
  IF score >= 850 THEN "critical"
  ELSE IF score >= 650 THEN "high"
  ELSE IF score >= 400 THEN "medium"
  ELSE IF score >= 200 THEN "low" ELSE "informational"

(* process_event: whether the event raises an alert                         *)
Alerts(e) == e.rule # "none" \/ calibrated_score(e) >= MinAlertScore

Levels == {"none", "informational", "low", "medium", "high", "critical"}

(* compute_graph_features looks for a path only to the intel matches.       *)
Evidence ==
  {e \in [rule : Levels, off_hours : BOOLEAN, suspicious_hint : BOOLEAN, admin_hint : BOOLEAN,
          native_severity : BOOLEAN, criticality : Criticalities, hits : 0..2,
          confidence : Confidences \cup {NoHit}, degree : Degrees, rarity : Rarities,
          path : PathLengths \cup {NotReached}, techniques : Rates, events : Rates] :
     /\ (e.hits = 0) = (e.confidence = NoHit)
     /\ e.hits = 0 => e.path = NotReached}

NoEvidence == [hits |-> 0]

ScoringInit == evidence \in Evidence

-----------------------------------------------------------------------------
(* Evidence with one signal more, or one that is worse                      *)
Worse(e) ==
  {[e EXCEPT !.rule = l] : l \in {k \in Levels \ {"none"} :
                                  rule_score_from_hits(e) <= SEVERITY_WEIGHT(k)}}
  \cup {[e EXCEPT !.off_hours = TRUE], [e EXCEPT !.suspicious_hint = TRUE],
        [e EXCEPT !.native_severity = TRUE], [e EXCEPT !.admin_hint = FALSE]}
  \cup {[e EXCEPT !.criticality = Atleast(@, c)] : c \in Criticalities}
  \cup {[e EXCEPT !.degree = Atleast(@, d)] : d \in Degrees}
  \cup {[e EXCEPT !.rarity = Atleast(@, r)] : r \in Rarities}
  \cup {[e EXCEPT !.techniques = Atleast(@, n), !.events = Atleast(@, n)] : n \in Rates}
  \cup {[e EXCEPT !.hits = @ + 1, !.confidence = Atleast(@, c)] : c \in Confidences}
  \cup {[e EXCEPT !.path = Upto(@, n)] : n \in IF HasIntel(e) THEN PathLengths ELSE {}}

(* "monotonic-by-design": worse evidence never lowers the risk score, nor   *)
(* withdraws an alert, through every interplay of the five scores, the      *)
(* caps, the calibration and the discount for administrative work; and      *)
(* administrative work without intelligence "should not look like           *)
(* multi-stage attacks": at most low, and no alert unless a rule fired.     *)
RiskIsMonotone ==
  evidence # NoEvidence =>
    /\ \A w \in Worse(evidence) :
         Ensemble(w) >= Ensemble(evidence) /\ (Alerts(evidence) => Alerts(w))
    /\ BenignContext(evidence) =>
         /\ severity_from_score(calibrated_score(evidence)) \in {"informational", "low"}
         /\ evidence.rule = "none" => ~Alerts(evidence)
=============================================================================
