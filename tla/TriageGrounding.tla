--------------------------- MODULE TriageGrounding ---------------------------
(***************************************************************************)
(* LLM triage of a case, as pure operators: the evidence retrieved, ranked  *)
(* and capped, the report drafted from it by a model or, where there is no  *)
(* key or the call fails, by the template, and the validation of the draft. *)
(*                                                                         *)
(* A text is what sanitize_text makes of it: its stops, at which the        *)
(* validator splits it, and which of the pieces between them hold a token   *)
(* in brackets, like the [REDACTED_EMAIL] put for an address or one typed   *)
(* into a title.  The validator reads such a token as a citation, of nothing*)
(* that was retrieved: that it is the hash of another item is not modelled. *)
(*                                                                         *)
(* What a model drafts is open.  A piece of evidence is its kind and place, *)
(* a list of them the set of what is in it: its order is that of the places.*)
(***************************************************************************)
EXTENDS Integers, Sequences, SequencesExt

CONSTANTS
  CaseTexts,          \* the cases
  AlertTexts,         \*   and the alerts there can be, see AlertText
  MaxAlerts,          \* bound: alerts of a case
  Timelines,          \* bound: for each entity of a case, its events and whether it has edges
  EventsShown,        \* an entity's latest events that become evidence
  ItemLimits,         \* values of llm_max_evidence_items
  Drafts              \* what a model may answer, see Draft

ASSUME TriageAssumption ==
  /\ MaxAlerts \in Nat /\ EventsShown \in Nat
  /\ ItemLimits \subseteq Nat \ {0}
  /\ \A text \in CaseTexts \cup AlertTexts : text.stops \in Nat /\ text.tokens \subseteq 0..text.stops
  /\ \A entities \in Timelines : entities \in Seq([events: Nat, edges: BOOLEAN])

VARIABLE retrieved    \* what the retrieval tools returned, the limit, the model's answer

-----------------------------------------------------------------------------
AlertText(stops, tokens, techniques, likely) ==
  [stops |-> stops, tokens |-> tokens, techniques |-> techniques,
   likely |-> likely]   \* scored 0.45 or more
NoDraft == [sentences |-> << >>, mapping |-> {}, objective |-> <<"none", FALSE>>]
Retrievals ==
  [case: CaseTexts, alerts: SeqOf(AlertTexts, MaxAlerts), entities: Timelines,
   max_items: ItemLimits, draft: Drafts \cup {NoDraft}]
NothingRetrieved ==
  [case |-> AlertText(0, {}, {}, FALSE), alerts |-> << >>, entities |-> << >>, max_items |-> 1,
   draft |-> [NoDraft EXCEPT !.objective = <<"unknown", FALSE>>]]

(* Entities and edges are named by identifiers with colons: no token.       *)
Plain == AlertText(0, {}, {}, FALSE)
Item(kind, i, j, text) == [id |-> <<kind, i, j>>, text |-> text]

(* The list is sorted by kind, and within a kind as it was built.           *)
kind_priority == [case |-> 0, alert |-> 1, event |-> 2, node |-> 3]
Precedes(a, b) ==
  LET first == kind_priority[a.id[1]]
      second == kind_priority[b.id[1]]
  IN \/ first < second
     \/ first = second /\ a.id[2] < b.id[2]
     \/ first = second /\ a.id[2] = b.id[2] /\ a.id[3] < b.id[3]
Preceding(items, item) == {other \in items : Precedes(other, item)}
Capped(items, n) == {item \in items : Cardinality(Preceding(items, item)) < n}
OfKind(items, kind) == {item \in items : item.id[1] = kind}

CaseItem == Item("case", 0, 0, retrieved.case)
AlertItems == {Item("alert", i, 0, retrieved.alerts[i]) : i \in DOMAIN retrieved.alerts}
MostRecent(i) == {j \in 1..retrieved.entities[i].events : j > retrieved.entities[i].events - EventsShown}
EventItems == UNION {{Item("event", i, j, Plain) : j \in MostRecent(i)} : i \in DOMAIN retrieved.entities}
WithEdges == {i \in DOMAIN retrieved.entities : retrieved.entities[i].edges}
NodeItems == {Item("node", i, 0, Plain) : i \in WithEdges}

Collected == {CaseItem} \cup AlertItems \cup EventItems \cup NodeItems
build_evidence == Capped(Collected, retrieved.max_items)

-----------------------------------------------------------------------------
(* mock_grounded_summary: the case, three alerts and three events, each the *)
(* text and then its citation.  A sentence is the set of its citations, as  *)
(* the validator finds them (CITATION_RE).                                  *)
Parts(items) ==
  OfKind(items, "case") \cup Capped(OfKind(items, "alert"), 3) \cup Capped(OfKind(items, "event"), 3)
Stops(parts) == UNION {{part} \X (1..part.text.stops) : part \in parts}

(* Mutant of SentenceOf: the citation is put before the text.               *)
SentenceOfCitedFirst(parts, part) == 1 + Cardinality(Stops(Preceding(parts, part)))
SentenceOf(parts, part) == 1 + Cardinality(Stops(Preceding(parts, part) \cup {part}))

Token == <<"token", 0, 0>>
TokenSentences(parts, part) ==
  {1 + Cardinality(Stops(Preceding(parts, part))) + i : i \in part.text.tokens}

Sentences(parts) ==
  [k \in 1..(1 + Cardinality(Stops(parts))) |->
     {part.id : part \in {p \in parts : SentenceOf(parts, p) = k}} \cup
     {Token : part \in {p \in parts : k \in TokenSentences(parts, p)}}]

(* Each technique is mapped to the first item that carries it.              *)
TechniquesOf(items) == UNION {item.text.techniques : item \in items}
Mapping(items) ==
  UNION {{<<t, item.id>> : t \in item.text.techniques \ TechniquesOf(Preceding(items, item))} : item \in items}

(* _TECHNIQUE_OBJECTIVES, the most advanced stage first.                    *)
Stages ==
  << <<{"T1486", "T1490"}, "ransomware_deployment">>, <<{"T1489"}, "impact_service_disruption">>,
     <<{"T1021", "T1570", "T1003", "T1078", "T1110"}, "credential_access_and_lateral_movement">>,
     <<{"T1566", "T1204"}, "initial_access_phishing">>, <<{"T1071", "T1573"}, "command_and_control">>,
     <<{"T1583"}, "infrastructure_reconnaissance">>, <<{"T1059"}, "suspicious_scripting_or_execution">>,
     <<{"T1027", "T1055"}, "defense_evasion">> >>

(* The objective, and whether it is called likely benign.                   *)
_infer_likely_objective(techniques, alerts) ==
  LET reached == {i \in DOMAIN Stages : Stages[i][1] \cap techniques # {}}
      benign == \A alert \in alerts : ~alert.text.likely
  IN CASE alerts = {} -> <<"insufficient_evidence", FALSE>>
       [] alerts # {} /\ reached # {} -> <<Stages[Min(reached)][2], benign>>
       [] OTHER -> <<IF benign THEN "likely_benign_activity" ELSE "suspicious_activity_requires_review", benign>>

(* A report is asked for an existing case, so there is something to cite.   *)
mock_grounded_summary(items) ==
  [sentences |-> Sentences(Parts(items)), mapping |-> Mapping(items),
   objective |-> _infer_likely_objective(TechniquesOf(items), OfKind(items, "alert"))]

(* generate: what the model answers, or the template's where it does not.   *)
UsesMock == retrieved.draft = NoDraft
generate(items) == IF UsesMock THEN mock_grounded_summary(items) ELSE retrieved.draft

-----------------------------------------------------------------------------
(* validate_and_ground: a sentence counts as grounded by one citation that  *)
(* was retrieved; the others are listed, the text stays as it is.           *)
validate_and_ground(raw, items) ==
  LET valid == {item.id : item \in items}
      grounded == {k \in DOMAIN raw.sentences : raw.sentences[k] \cap valid # {}}
      kept == {m \in raw.mapping : m[2] \in valid}
  IN [sentences |-> raw.sentences, objective |-> raw.objective, mapping |-> kept,
      grounded |-> Cardinality(grounded),
      unsupported |->
        {<<IF raw.sentences[k] = {} THEN "uncited" ELSE "unresolvable", k>> :
           k \in DOMAIN raw.sentences \ grounded} \cup
        {<<"unmapped", m[1]>> : m \in raw.mapping \ kept},
      cited |-> ((UNION ToSet(raw.sentences)) \cap valid) \cup {m[2] : m \in kept}]

generate_triage_report(items) == validate_and_ground(generate(items), items)

TriageInit == retrieved \in Retrievals

-----------------------------------------------------------------------------
(* However the cap cuts the evidence, a report of the template maps every   *)
(* technique it saw and cites every text it shows.  It flags a sentence of  *)
(* its own only inside a text of two stops or more, or where the case's text*)
(* stops before its citation; and takes it for an unresolvable citation only*)
(* if a text has a bracketed token before its last stop, since a token in   *)
(* the sentence of a citation does no harm.  It judges by an alert if there *)
(* is one and room for it.                                                  *)
MockGroundsItself ==
  UsesMock =>
    LET items == build_evidence
        report == generate_triage_report(items)
        texts == {retrieved.alerts[i].stops : i \in DOMAIN retrieved.alerts}
    IN /\ \A u \in report.unsupported : u[1] \in {"uncited", "unresolvable"}
       /\ (\A part \in Parts(items) : part.text.tokens \subseteq {part.text.stops}) =>
            \A u \in report.unsupported : u[1] = "uncited"
       /\ retrieved.case.stops = 0 /\ texts \subseteq {0, 1} => report.unsupported = {}
       /\ {m[1] : m \in report.mapping} = TechniquesOf(items)
       /\ {part.id : part \in Parts(items)} \subseteq report.cited
       /\ retrieved.alerts # << >> /\ retrieved.max_items > 1 =>
            report.objective[1] # "insufficient_evidence"
=============================================================================
