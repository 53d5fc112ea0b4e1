------------------------------ MODULE Detection ------------------------------
(***************************************************************************)
(* One detection process: the consumer loop and POST /api/v1/detect run     *)
(* process_event concurrently over one DetectionState, which holds sliding  *)
(* windows (the correlation engine's, one for each rule and group, and the  *)
(* temporal tracker's) and the alert clusters.                              *)
(*                                                                         *)
(* process_event awaits the graph store between the windows and the         *)
(* clusters, and the loop awaits its producer between the clustering and    *)
(* the publication of the alert; the alert is an object other events merge  *)
(* into meanwhile.  A restart loses the state, not what was published.      *)
(*                                                                         *)
(* Entities and techniques are "traits"; a calibrated score is a number,    *)
(* whatever rules, heuristics, graph, intel and model make of the event.    *)
(***************************************************************************)
EXTENDS Integers, Sequences, FiniteSets

CONSTANTS
  Requests,           \* the events processed, each by one call of process_event
  Streamed,           \* those the consumer loop processes, the others come by HTTP
  Events,             \* what an event can be: time, traits, the rules whose gate it passes,
                      \* and whether a rule without correlation matches it
  Rules,              \* the correlation rules, each with one group
  Traits,             \* entity and technique ids
  Technique,          \* technique_ids of each rule
  Span,               \* window_seconds of each rule and of the temporal tracker
  MinCount,           \* min_count of each rule
  Scores,             \* calibrated scores
  MIN_ALERT_SCORE,
  CLUSTER_WINDOW,
  OVERLAP_THRESHOLD,  \* in percent
  MaxClock            \* bound: the clock's readings

Windows == Rules \cup {"temporal"}

ASSUME DetectionAssumption ==
  /\ Streamed \subseteq Requests
  /\ Events \subseteq [time: Nat, traits: SUBSET Traits, rules: SUBSET Rules, single: BOOLEAN]
  /\ IsFiniteSet(Traits)
  /\ Technique \in [Rules -> SUBSET Traits]
  /\ Span \in [Windows -> Nat]
  /\ MinCount \in [Rules -> Nat]
  /\ Scores \subseteq Nat
  /\ CLUSTER_WINDOW \in Nat
  /\ OVERLAP_THRESHOLD \in 1..100
  /\ MaxClock \in Nat

VARIABLES
  windows,    \* the entries of each sliding window, in order of arrival
  clusters,   \* the clusters in order of creation, each with its alert
  clock,      \* utcnow()
  call,       \* each event: where its call is, whether a rule hit, its traits and score
  published,  \* the alert records of the alerts topic, oldest first
  arrivals    \* history: what each window was given since the process started

vars == <<windows, clusters, clock, call, published, arrivals>>

-----------------------------------------------------------------------------
Entry(r, e) == [time |-> e.time, event |-> r]
Fresh(entry, now, span) == now - entry.time <= span

(* Mutant of Prune: one stale entry is removed, not all of them.            *)
PruneOne(window, now, span) ==
  IF Fresh(window[1], now, span) THEN window ELSE Tail(window)

(* Stale entries are removed from the left, up to the first fresh one; the  *)
(* entry just appended is fresh.                                            *)
Prune(window, now, span) ==
  LET first == CHOOSE i \in DOMAIN window :
                 /\ Fresh(window[i], now, span)
                 /\ \A j \in 1..(i - 1) : ~Fresh(window[j], now, span)
  IN SubSeq(window, first, Len(window))

(* CorrelationEngine.evaluate and TemporalFeatureTracker.observe            *)
Entered(e) == e.rules \cup {"temporal"}
Observed(r, e) ==
  [k \in Windows |->
     IF k \in Entered(e) THEN Prune(Append(windows[k], Entry(r, e)), e.time, Span[k])
                         ELSE windows[k]]
Matched(e, after) == {k \in e.rules : Len(after[k]) >= MinCount[k]}
TraitsOf(e, after) == e.traits \cup UNION {Technique[k] : k \in Matched(e, after)}

-----------------------------------------------------------------------------
(* AlertClusterStore                                                        *)
Open(c) == clock - c.updated <= CLUSTER_WINDOW
Shared(c, traits) == Cardinality(c.traits \cap traits)
Joint(c, traits) == Cardinality(c.traits \cup traits)

Overlaps(c, traits) ==
  /\ Open(c)
  /\ c.traits # {} /\ traits # {}
  /\ 100 * Shared(c, traits) >= OVERLAP_THRESHOLD * Joint(c, traits)

Candidates(traits) == {i \in DOMAIN clusters : Overlaps(clusters[i], traits)}

(* overlap of i > overlap of j                                              *)
Closer(i, j, traits) ==
  Shared(clusters[i], traits) * Joint(clusters[j], traits) >
  Shared(clusters[j], traits) * Joint(clusters[i], traits)

(* Mutant of FindMatch: the first cluster that overlaps enough.             *)
FindFirst(traits) == CHOOSE i \in Candidates(traits) : \A j \in Candidates(traits) : i <= j

(* The candidate of greatest overlap, the oldest of them on a tie.          *)
FindMatch(traits) ==
  CHOOSE i \in Candidates(traits) :
    \A j \in Candidates(traits) \ {i} :
      Closer(i, j, traits) \/ (~Closer(j, i, traits) /\ i < j)

(* Mutant of Merged: the latest score wins.                                 *)
MergedLatestRisk(c, r, traits, score) ==
  [c EXCEPT !.traits = @ \cup traits, !.events = @ \cup {r}, !.score = score, !.updated = clock]

Merged(c, r, traits, score) ==
  [c EXCEPT !.traits = @ \cup traits,
            !.events = @ \cup {r},
            !.score = IF score > @ THEN score ELSE @,
            !.updated = clock]

Created(r, traits, score) ==
  [alert |-> r, traits |-> traits, events |-> {r}, score |-> score, updated |-> clock]

-----------------------------------------------------------------------------
Idle == [at |-> "idle", hits |-> FALSE, traits |-> {}, score |-> 0]
Over == [Idle EXCEPT !.at = "done"]

InFlight == {r \in Requests : call[r].at \in {"scoring", "publishing"}}

Init ==
  /\ windows = [k \in Windows |-> << >>]
  /\ clusters = << >>
  /\ clock = 0
  /\ call = [r \in Requests |-> Idle]
  /\ published = << >>
  /\ arrivals = [k \in Windows |-> << >>]

(* process_event up to its first await: rules, correlation, temporal        *)
(* features.  The loop has one event in hand at a time.                     *)
Observe(r) ==
  /\ call[r].at = "idle"
  /\ r \in Streamed => InFlight \cap Streamed = {}
  /\ \E e \in Events :
       /\ windows' = Observed(r, e)
       /\ arrivals' = [k \in Windows |->
            IF k \in Entered(e) THEN Append(arrivals[k], Entry(r, e)) ELSE arrivals[k]]
       /\ call' = [call EXCEPT ![r] =
            [at |-> "scoring", hits |-> e.single \/ Matched(e, Observed(r, e)) # {},
             traits |-> TraitsOf(e, Observed(r, e)), score |-> 0]]
  /\ UNCHANGED <<clusters, clock, published>>

(* The graph features are in: no hit, and the score is too low for an alert.*)
Dismiss(r) ==
  /\ call[r].at = "scoring"
  /\ ~call[r].hits
  /\ \E score \in Scores : score < MIN_ALERT_SCORE
  /\ call' = [call EXCEPT ![r] = Over]
  /\ UNCHANGED <<windows, clusters, clock, published, arrivals>>

(* AlertClusterStore.assign; POST /api/v1/detect answers with the alert.    *)
Assign(r) ==
  /\ call[r].at = "scoring"
  /\ \E score \in Scores :
       LET traits == call[r].traits
       IN /\ call[r].hits \/ score >= MIN_ALERT_SCORE
          /\ clusters' = IF Candidates(traits) = {}
                         THEN Append(clusters, Created(r, traits, score))
                         ELSE [clusters EXCEPT ![FindMatch(traits)] = Merged(@, r, traits, score)]
          /\ call' = [call EXCEPT ![r].score = score,
                        ![r].at = IF r \in Streamed THEN "publishing" ELSE "done"]
  /\ UNCHANGED <<windows, clock, published, arrivals>>

(* The loop has sent the hits and sends the alert, as it is by now.         *)
ClusterOf(r) == CHOOSE i \in DOMAIN clusters : r \in clusters[i].events

(* Mutant of Record: the record tells of its own event only.                *)
RecordOwn(r, c) == [by |-> r, alert |-> c.alert, events |-> {r}, score |-> c.score]

Record(r, c) == [by |-> r, alert |-> c.alert, events |-> c.events, score |-> c.score]

PublishAlert(r) ==
  /\ call[r].at = "publishing"
  /\ published' = Append(published, Record(r, clusters[ClusterOf(r)]))
  /\ call' = [call EXCEPT ![r].at = "done"]
  /\ UNCHANGED <<windows, clusters, clock, arrivals>>

(* The graph store or the producer raises: the event's windows stay, and so  *)
(* does its cluster, but the caller gets no alert.                          *)
Fail(r) ==
  /\ r \in InFlight
  /\ call' = [call EXCEPT ![r].at = "done"]
  /\ UNCHANGED <<windows, clusters, clock, published, arrivals>>

Tick ==
  /\ clock < MaxClock
  /\ clock' = clock + 1
  /\ UNCHANGED <<windows, clusters, call, published, arrivals>>

(* The process stops and starts again with a new DetectionState; the events *)
(* in hand are dropped.                                                     *)
Restart ==
  /\ windows' = [k \in Windows |-> << >>]
  /\ arrivals' = [k \in Windows |-> << >>]
  /\ clusters' = << >>
  /\ call' = [r \in Requests |->
               IF call[r].at = "idle" THEN Idle ELSE Over]
  /\ UNCHANGED <<clock, published>>

Next ==
  \/ \E r \in Requests : Observe(r) \/ Dismiss(r) \/ Assign(r) \/ PublishAlert(r) \/ Fail(r)
  \/ Tick
  \/ Restart

Spec == Init /\ [][Next]_vars

-----------------------------------------------------------------------------
(* As long as the events of a window arrive in the order of their           *)
(* timestamps, it holds exactly those of the last window_seconds, so        *)
(* threshold and distinct_count see the whole burst and nothing else.       *)
InOrder(s) == \A i, j \in DOMAIN s : i < j => s[i].time <= s[j].time
WindowsExact ==
  \A k \in Windows :
    LET all == arrivals[k]
        last == all[Len(all)].time
    IN  all # << >> /\ InOrder(all) =>
          \E n \in 0..Len(all) :
            /\ windows[k] = SubSeq(all, n + 1, Len(all))
            /\ \A i \in DOMAIN all : Fresh(all[i], last, Span[k]) <=> i > n

(* "This keeps a multi-stage attack chain as a single evolving alert": two  *)
(* clusters that are both open never come to have the same entities and     *)
(* techniques, however they grow (_find_match takes the closest one).       *)
OpenClustersDiffer ==
  \A i, j \in DOMAIN clusters :
    /\ Open(clusters[i]) /\ Open(clusters[j])
    /\ clusters[i].traits = clusters[j].traits /\ clusters[i].traits # {}
    => i = j

(* An alert carries the highest risk and all the traits of its events, and  *)
(* no two alerts of the process share an event.                             *)
AlertSumsUp ==
  /\ \A i \in DOMAIN clusters :
       LET c == clusters[i]
       IN /\ \A r \in c.events : call[r].score <= c.score
          /\ \E r \in c.events : call[r].score = c.score
          /\ c.traits = UNION {call[r].traits : r \in c.events}
  /\ \A i, j \in DOMAIN clusters : clusters[i].events \cap clusters[j].events # {} => i = j

(* Each alert record tells of the event it was published for and of all     *)
(* that earlier records of its alert told, at no lower a score, whatever    *)
(* merged in between: the case store may let the last record stand.         *)
PublishedGrow ==
  /\ \A i \in DOMAIN published : published[i].by \in published[i].events
  /\ \A i, j \in DOMAIN published :
       i < j /\ published[i].alert = published[j].alert =>
         /\ published[i].events \subseteq published[j].events
         /\ published[i].score <= published[j].score
=============================================================================
