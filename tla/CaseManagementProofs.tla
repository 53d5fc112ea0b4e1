------------------------ MODULE CaseManagementProofs ------------------------
(***************************************************************************)
(* The case store, for every set of alerts and requests, however many       *)
(* transactions are open at the same time.                                  *)
(***************************************************************************)
EXTENDS CaseManagement, FiniteSetTheorems, TLAPS

Active(t) == t.at \in Waiting \cup {"flushed"}
HasLoaded(t) == t.loaded # NoCase

(* An upsert that has flushed its alert's row                               *)
Holding(t) == t.op = "upsert" /\ t.at \in {"merging", "flushed"}

-----------------------------------------------------------------------------
(* The inductive invariant.  A request is where its operation takes it.     *)
WellFormed(t) ==
  /\ t.at \in {"landing", "merging"} => t.op = "upsert"
  /\ t.at = "creating" => t.op = "create"
  /\ t.at = "editing" => t.op \in Edits
  /\ t.at = "flushed" => t.op # "none" /\ t.case # 0
  /\ t.at \in {"landing", "creating"} => t.case = 0 /\ ~HasLoaded(t)
  /\ HasLoaded(t) => t.case # 0 /\ t.loaded.status # "absent"
  /\ Active(t) =>
       /\ t.op = "upsert" => t.alert \in Alerts /\ t.cluster = Cluster[t.alert] /\ t.score \in Scores
       /\ t.op = "create" => t.cluster = "none" /\ ~HasLoaded(t)
       /\ t.op \in Edits => HasLoaded(t) /\ t.status \in Statuses
       /\ t.at = "merging" /\ t.case # 0 => HasLoaded(t)
  /\ ~Active(t) => t.case = 0

(* What an upsert read of its cluster stays so while it holds the alert.    *)
Backed(t) ==
  /\ HasLoaded(t) => Exists(t.case) /\ cases[t.case].cluster = t.cluster
  /\ t.at = "flushed" /\ ~HasLoaded(t) => ~Exists(t.case)
  /\ Holding(t) /\ ~HasLoaded(t) => CasesOf(t.cluster) = {}
  /\ Holding(t) /\ HasLoaded(t) =>
       t.loaded.alerts = cases[t.case].alerts /\ t.loaded.risk = cases[t.case].risk

Grounded == \A r \in Requests : WellFormed(tx[r]) /\ Backed(tx[r])

OneHolder ==
  \A q, r \in Requests :
    Holding(tx[q]) /\ Holding(tx[r]) /\ tx[q].alert = tx[r].alert => q = r

(* A row that is not committed is known to the request that inserted it only*)
Numbered ==
  /\ \A id \in CaseIds : Exists(id) => id <= issued
  /\ \A r \in Requests : tx[r].case <= issued
  /\ \A q, r \in Requests :
       tx[q].case = tx[r].case /\ tx[r].case # 0 /\ ~Exists(tx[r].case) => q = r

OneEach ==
  \A i, j \in CaseIds :
    Exists(i) /\ Exists(j) /\ cases[i].cluster = cases[j].cluster /\ cases[i].cluster # "none" =>
      i = j

IInv == TypeOK /\ Grounded /\ OneHolder /\ Numbered /\ OneEach /\ EvidenceKept

-----------------------------------------------------------------------------
(* Until two requests overlap: those in flight are about different clusters *)
(* and cases, and the timeline each has loaded is the committed one.        *)
Apart ==
  \A q, r \in Requests : q # r /\ Active(tx[q]) /\ Active(tx[r]) =>
    /\ tx[q].cluster = tx[r].cluster => tx[r].cluster = "none"
    /\ tx[q].case = tx[r].case => tx[r].case = 0

TimelinesLoaded ==
  \A r \in Requests :
    HasLoaded(tx[r]) => tx[r].loaded.timeline = cases[tx[r].case].timeline

Alone == ~overlapped => Apart /\ TimelinesLoaded

-----------------------------------------------------------------------------
(* What holds of a request, whatever it does                                *)
LEMMA RequestFacts ==
  ASSUME IInv, NEW r \in Requests
  PROVE  /\ tx[r] \in TxType /\ WellFormed(tx[r]) /\ Backed(tx[r])
         /\ tx[r].case \in {0} \cup CaseIds /\ tx[r].case <= issued
         /\ tx[r].case # 0 => tx[r].case \in CaseIds
BY DEF IInv, TypeOK, Grounded, Numbered, TxType

(* The absent row has no cluster, no alerts and no entries.                *)
LEMMA NoCaseIsRow ==
  /\ NoCase \in CaseRow /\ NoCase.status = "absent" /\ NoCase.alerts = {} /\ NoCase.risk = 0
  /\ NoCase.timeline = {} /\ NoCase.cluster = "none"
BY DEF NoCase, CaseRow, Clusters

(* Requests that have not begun, that are answered, that begin.             *)
LEMMA RestIsTyped ==
  /\ Idle \in TxType /\ Idle.case = 0 /\ Idle.at = "idle" /\ Idle.loaded = NoCase
  /\ Idle.op = "none"
BY NoCaseIsRow DEF Idle, TxType, Clusters

(* An answered request has loaded nothing and holds nothing.               *)
LEMMA AnsweredIsFree ==
  ASSUME NEW op \in Edits \cup {"none", "upsert", "create"}, NEW answer \in Answers
  PROVE  \E t \in TxType :
           /\ t = [Idle EXCEPT !.op = op, !.at = answer]
           /\ t.op = op /\ t.at = answer /\ t.case = 0 /\ t.loaded = NoCase
           /\ ~Active(t) /\ WellFormed(t) /\ Backed(t) /\ Backed(t)' /\ ~Holding(t)
<1>1. PICK t : t = [Idle EXCEPT !.op = op, !.at = answer]
  OBVIOUS
<1>2. t \in TxType /\ t.op = op /\ t.at = answer /\ t.case = 0 /\ t.loaded = NoCase
  BY <1>1, RestIsTyped DEF TxType
<1>3. ~Active(t) /\ ~Holding(t) /\ t.at # "flushed"
  BY <1>2 DEF Active, Holding, Answers, Waiting
<1>4. WellFormed(t) /\ Backed(t) /\ Backed(t)'
  BY <1>2, <1>3 DEF WellFormed, Backed, HasLoaded, Answers, Active, Waiting
<1> QED  BY <1>1, <1>2, <1>3, <1>4

(* A request that moves on while the tables stay as they are                *)
LEMMA MoveInv ==
  ASSUME IInv, NEW r \in Requests, NEW t \in TxType,
         tx' = [tx EXCEPT ![r] = t], UNCHANGED tables, overlapped' \in BOOLEAN,
         WellFormed(t), Backed(t),
         Holding(t) => \/ Holding(tx[r]) /\ t.alert = tx[r].alert
                       \/ \A q \in Requests \ {r} : Holding(tx[q]) => tx[q].alert # t.alert,
         t.case = tx[r].case \/ t.case = 0 \/ (t.case \in CaseIds /\ Exists(t.case))
  PROVE  IInv'
<1>1. TypeOK'
  BY DEF IInv, TypeOK, tables, Exists
<1>2. \A q \in Requests : tx'[q] = IF q = r THEN t ELSE tx[q]
  BY DEF IInv, TypeOK
<1>3. Grounded'
  <2>1. \A q \in Requests : WellFormed(tx'[q]) /\ Backed(tx'[q])
    BY <1>2 DEF IInv, Grounded
  <2>2. \A q \in Requests : Backed(tx'[q]) => Backed(tx[q])'
    BY DEF Backed, tables, Exists, CasesOf
  <2> QED  BY <2>1, <2>2 DEF Grounded
<1>4. OneHolder'
  BY <1>2 DEF IInv, OneHolder
<1>5. Numbered'
  BY <1>2, RequestFacts DEF IInv, TypeOK, Numbered, Exists, tables, CaseIds
<1>6. OneEach' /\ EvidenceKept'
  BY DEF IInv, OneEach, EvidenceKept, LandedInOwnCase, RiskCoversAlerts, Exists, tables
<1> QED  BY <1>1, <1>3, <1>4, <1>5, <1>6 DEF IInv

(* A request that fails writes nothing.                                    *)
LEMMA AnswerInv ==
  ASSUME IInv, NEW r \in Requests, NEW answer \in Answers, Answer(r, answer)
  PROVE  IInv'
<1>1. tx[r].op \in Edits \cup {"none", "upsert", "create"}
  BY RequestFacts DEF TxType
<1>2. PICK t \in TxType :
        /\ t = [Idle EXCEPT !.op = tx[r].op, !.at = answer]
        /\ t.case = 0 /\ WellFormed(t) /\ Backed(t) /\ ~Holding(t)
  BY <1>1, AnsweredIsFree
<1>3. tx' = [tx EXCEPT ![r] = t] /\ UNCHANGED tables /\ overlapped' \in BOOLEAN
  BY <1>2 DEF Answer, IInv, TypeOK
<1> QED  BY <1>2, <1>3, MoveInv

-----------------------------------------------------------------------------
(* Requests that arrive                                                     *)
LEMMA OverlapIsTyped ==
  ASSUME IInv, NEW k, NEW id, Overlap(k, id)
  PROVE  overlapped' \in BOOLEAN
BY DEF Overlap

(* An upsert reads the landed row of its alert.                            *)
LEMMA UpsertInv ==
  ASSUME IInv, NEW r \in Requests, Upsert(r)
  PROVE  IInv'
<1>1. PICK a \in Alerts, s \in Scores :
        /\ tx' = [tx EXCEPT ![r] = [Idle EXCEPT !.op = "upsert", !.at = "landing", !.alert = a,
                    !.score = s, !.cluster = Cluster[a], !.known = landed[a] # NoAlert]]
        /\ Overlap(Cluster[a], 0)
  BY DEF Upsert
<1>2. PICK t : t = [Idle EXCEPT !.op = "upsert", !.at = "landing", !.alert = a,
                      !.score = s, !.cluster = Cluster[a], !.known = landed[a] # NoAlert]
  OBVIOUS
<1>3. /\ t \in TxType /\ t.op = "upsert" /\ t.at = "landing" /\ t.alert = a /\ t.score = s
      /\ t.cluster = Cluster[a] /\ t.case = 0 /\ t.loaded = NoCase
  <2>1. Cluster[a] \in Clusters
    BY DEF Clusters
  <2>2. "landing" \in Waiting
    BY DEF Waiting
  <2>3. PICK known : known = (landed[a] # NoAlert)
    OBVIOUS
  <2>4. known \in BOOLEAN
    BY <2>3
  <2>5. t = [Idle EXCEPT !.op = "upsert", !.at = "landing", !.alert = a,
               !.score = s, !.cluster = Cluster[a], !.known = known]
    BY <1>2, <2>3
  <2> QED  BY <2>1, <2>2, <2>4, <2>5, RestIsTyped DEF TxType
<1>4. WellFormed(t)
  BY <1>3 DEF WellFormed, HasLoaded, Active, Waiting, Edits
<1>5. Backed(t) /\ ~Holding(t)
  BY <1>3 DEF Backed, HasLoaded, Holding
<1>6. UNCHANGED tables /\ overlapped' \in BOOLEAN
  BY <1>1 DEF Upsert, Overlap
<1> QED  BY <1>1, <1>2, <1>3, <1>4, <1>5, <1>6, MoveInv

(* POST /api/v1/cases begins.                                              *)
LEMMA CreateCaseInv ==
  ASSUME IInv, NEW r \in Requests, CreateCase(r)
  PROVE  IInv'
<1>0. PICK list \in AlertLists :
        tx' = [tx EXCEPT ![r] = [Idle EXCEPT !.op = "create", !.at = "creating", !.given = list]]
  BY DEF CreateCase
<1>1. PICK t : t = [Idle EXCEPT !.op = "create", !.at = "creating", !.given = list]
  OBVIOUS
<1>2. /\ t \in TxType /\ t.op = "create" /\ t.at = "creating" /\ t.case = 0 /\ t.loaded = NoCase
      /\ t.cluster = "none"
  <2>1. "creating" \in Waiting
    BY DEF Waiting
  <2>2. Idle.cluster = "none"
    BY DEF Idle
  <2>3. list \in SUBSET Alerts
    BY CaseAssumption
  <2> QED  BY <1>1, <2>1, <2>2, <2>3, RestIsTyped DEF TxType
<1>3. WellFormed(t) /\ Backed(t) /\ ~Holding(t)
  BY <1>2 DEF WellFormed, Backed, HasLoaded, Holding, Edits
<1>4. tx' = [tx EXCEPT ![r] = t] /\ UNCHANGED tables /\ overlapped' \in BOOLEAN
  BY <1>0, <1>1 DEF CreateCase, Overlap
<1> QED  BY <1>2, <1>3, <1>4, MoveInv

(* An edit loads its case, or fails when there is none.                    *)
LEMMA EditInv ==
  ASSUME IInv, NEW r \in Requests, Edit(r)
  PROVE  IInv'
<1>1. PICK id \in CaseIds, op \in Edits, s \in Statuses :
        IF Exists(id)
        THEN /\ tx' = [tx EXCEPT ![r] = [Idle EXCEPT !.op = op, !.at = "editing",
                 !.cluster = cases[id].cluster, !.case = id, !.loaded = cases[id], !.status = s]]
             /\ Overlap(cases[id].cluster, id)
        ELSE tx' = [tx EXCEPT ![r] = [Idle EXCEPT !.op = op, !.at = "failed"]]
             /\ UNCHANGED overlapped
  BY DEF Edit
<1>2. UNCHANGED tables
  BY DEF Edit
<1>3. CASE ~Exists(id)
  <2>1. "failed" \in Answers /\ op \in Edits \cup {"none", "upsert", "create"}
    BY DEF Answers
  <2>2. PICK t \in TxType :
          /\ t = [Idle EXCEPT !.op = op, !.at = "failed"]
          /\ t.case = 0 /\ WellFormed(t) /\ Backed(t) /\ ~Holding(t)
    BY <2>1, AnsweredIsFree
  <2>3. tx' = [tx EXCEPT ![r] = t] /\ overlapped' \in BOOLEAN
    BY <1>1, <1>3, <2>2 DEF IInv, TypeOK
  <2> QED  BY <1>2, <2>2, <2>3, MoveInv
<1>4. CASE Exists(id)
  <2>1. PICK t : t = [Idle EXCEPT !.op = op, !.at = "editing",
                 !.cluster = cases[id].cluster, !.case = id, !.loaded = cases[id], !.status = s]
    OBVIOUS
  <2>2. /\ t \in TxType /\ t.op = op /\ t.at = "editing" /\ t.case = id /\ t.loaded = cases[id]
        /\ t.cluster = cases[id].cluster /\ t.status = s
    <3>1. cases[id] \in CaseRow /\ cases[id].cluster \in Clusters
      BY DEF IInv, TypeOK, CaseRow
    <3>2. "editing" \in Waiting
      BY DEF Waiting
    <3> QED  BY <2>1, <3>1, <3>2, RestIsTyped DEF TxType
  <2>3. id # 0 /\ HasLoaded(t) /\ t.op \notin {"upsert", "create", "none"}
    BY <1>4, <2>2, NoCaseIsRow DEF CaseIds, Exists, HasLoaded, Edits
  <2>4. WellFormed(t)
    BY <1>4, <2>2, <2>3 DEF WellFormed, Exists, Active, Waiting
  <2>5. Backed(t) /\ ~Holding(t)
    BY <1>4, <2>2, <2>3 DEF Backed, Holding
  <2>6. tx' = [tx EXCEPT ![r] = t] /\ overlapped' \in BOOLEAN
    BY <1>1, <1>4, <2>1 DEF Overlap
  <2> QED  BY <1>2, <1>4, <2>2, <2>4, <2>5, <2>6, MoveInv
<1> QED  BY <1>3, <1>4

-----------------------------------------------------------------------------
(* Requests that go on                                                      *)
LEMMA LandAndFindCaseInv ==
  ASSUME IInv, NEW r \in Requests, LandAndFindCase(r)
  PROVE  IInv'
<1>1. CASE Answer(r, "failed")
  BY <1>1, AnswerInv DEF Answers
<1>2. CASE /\ CasesOf(tx[r].cluster) = {}
           /\ tx' = [tx EXCEPT ![r].at = "merging"]
           /\ UNCHANGED <<tables, overlapped>>
  <2>1. PICK t : t = [tx[r] EXCEPT !.at = "merging"]
    OBVIOUS
  <2>2. tx[r].at = "landing" /\ \A q \in Requests \ {r} : ~HoldsAlert(q, tx[r].alert)
    BY DEF LandAndFindCase
  <2>3. /\ t \in TxType /\ t.at = "merging" /\ t.op = "upsert" /\ t.case = 0 /\ t.loaded = NoCase
        /\ t.alert = tx[r].alert /\ t.cluster = tx[r].cluster /\ t.score = tx[r].score
    <3>1. "merging" \in Waiting
      BY DEF Waiting
    <3> QED  BY <2>1, <2>2, <3>1, RequestFacts DEF TxType, WellFormed, HasLoaded
  <2>4. WellFormed(t)
    BY <2>2, <2>3, RequestFacts DEF WellFormed, HasLoaded, Active, Waiting, Edits
  <2>5. Backed(t)
    BY <1>2, <2>3 DEF Backed, HasLoaded
  <2>6. \A q \in Requests \ {r} : Holding(tx[q]) => tx[q].alert # t.alert
    BY <2>2, <2>3 DEF Holding, HoldsAlert
  <2>7. tx' = [tx EXCEPT ![r] = t] /\ UNCHANGED tables /\ overlapped' \in BOOLEAN
    BY <1>2, <2>1 DEF IInv, TypeOK
  <2> QED  BY <2>3, <2>4, <2>5, <2>6, <2>7, MoveInv
<1>3. ASSUME NEW id \in CasesOf(tx[r].cluster),
             tx' = [tx EXCEPT ![r].at = "merging", ![r].case = id, ![r].loaded = cases[id]],
             UNCHANGED <<tables, overlapped>>
      PROVE  IInv'
  <2>1. PICK t : t = [tx[r] EXCEPT !.at = "merging", !.case = id, !.loaded = cases[id]]
    OBVIOUS
  <2>2. tx[r].at = "landing" /\ \A q \in Requests \ {r} : ~HoldsAlert(q, tx[r].alert)
    BY DEF LandAndFindCase
  <2>3. id \in CaseIds /\ id # 0 /\ Exists(id) /\ cases[id] \in CaseRow
        /\ cases[id].cluster = tx[r].cluster
    BY DEF CasesOf, CaseIds, IInv, TypeOK
  <2>4. /\ t \in TxType /\ t.at = "merging" /\ t.op = "upsert" /\ t.case = id
        /\ t.loaded = cases[id]
        /\ t.alert = tx[r].alert /\ t.cluster = tx[r].cluster /\ t.score = tx[r].score
    <3>1. "merging" \in Waiting
      BY DEF Waiting
    <3> QED  BY <2>1, <2>2, <2>3, <3>1, RequestFacts DEF TxType, WellFormed
  <2>5. HasLoaded(t)
    BY <2>3, <2>4, NoCaseIsRow DEF HasLoaded, Exists
  <2>6. WellFormed(t)
    BY <2>2, <2>3, <2>4, <2>5, RequestFacts DEF WellFormed, Active, Waiting, Edits, Exists
  <2>7. Backed(t)
    BY <2>3, <2>4, <2>5 DEF Backed
  <2>8. \A q \in Requests \ {r} : Holding(tx[q]) => tx[q].alert # t.alert
    BY <2>2, <2>4 DEF Holding, HoldsAlert
  <2>9. tx' = [tx EXCEPT ![r] = t] /\ UNCHANGED tables /\ overlapped' \in BOOLEAN
    BY <1>3, <2>1 DEF IInv, TypeOK
  <2> QED  BY <2>3, <2>4, <2>6, <2>7, <2>8, <2>9, MoveInv
<1> QED  BY <1>1, <1>2, <1>3 DEF LandAndFindCase, Found

(* The UPDATE locks a row that exists.                                     *)
LEMMA FlushCaseInv ==
  ASSUME IInv, NEW r \in Requests, FlushCase(r)
  PROVE  IInv'
<1>1. PICK t : t = [tx[r] EXCEPT !.at = "flushed"]
  OBVIOUS
<1>2. tx' = [tx EXCEPT ![r] = t] /\ UNCHANGED tables /\ overlapped' \in BOOLEAN
  BY <1>1 DEF FlushCase, IInv, TypeOK
<1>3. /\ t \in TxType /\ t.at = "flushed" /\ t.op = tx[r].op /\ t.case = tx[r].case
      /\ t.loaded = tx[r].loaded /\ t.alert = tx[r].alert /\ t.cluster = tx[r].cluster
      /\ t.score = tx[r].score /\ t.status = tx[r].status
  BY <1>1, RequestFacts DEF TxType
<1>4. \/ tx[r].at = "editing" /\ tx[r].op \in Edits
      \/ tx[r].at = "merging" /\ tx[r].op = "upsert" /\ tx[r].case # 0
  BY RequestFacts DEF FlushCase, WellFormed
<1>5. HasLoaded(tx[r]) /\ HasLoaded(t) /\ t.case # 0
  BY <1>3, <1>4, RequestFacts DEF WellFormed, Active, Waiting, HasLoaded
<1>6. WellFormed(t)
  BY <1>3, <1>4, <1>5, RequestFacts DEF WellFormed, Active, Waiting, Edits, HasLoaded
<1>7. Holding(t) => Holding(tx[r])
  BY <1>3, <1>4 DEF Holding, Edits
<1>8. Backed(t)
  BY <1>3, <1>5, <1>7, RequestFacts DEF Backed
<1> QED  BY <1>2, <1>3, <1>6, <1>7, <1>8, MoveInv

(* The number of an inserted case is nobody else's.                        *)
LEMMA InsertCaseInv ==
  ASSUME IInv, NEW r \in Requests, InsertCase(r)
  PROVE  IInv'
<1>0. MaxCases \in Nat
  BY CaseAssumption
<1>1. PICK n : n = issued + 1
  OBVIOUS
<1>2. issued \in Nat /\ n \in CaseIds /\ n # 0 /\ issued' = n /\ n \in 0..MaxCases
  BY <1>0, <1>1 DEF InsertCase, IInv, TypeOK, CaseIds
<1>3. ~Exists(n) /\ \A q \in Requests : tx[q].case # n
  BY <1>1, <1>2, RequestFacts DEF IInv, Numbered
<1>4. PICK t : t = [tx[r] EXCEPT !.at = "flushed", !.case = n]
  OBVIOUS
<1>5. /\ tx' = [tx EXCEPT ![r] = t] /\ UNCHANGED <<cases, landed, overlapped>>
  BY <1>1, <1>4 DEF InsertCase
<1>6. /\ t \in TxType /\ t.at = "flushed" /\ t.op = tx[r].op /\ t.case = n
      /\ t.loaded = tx[r].loaded /\ t.alert = tx[r].alert /\ t.cluster = tx[r].cluster
      /\ t.score = tx[r].score /\ t.status = tx[r].status
  BY <1>2, <1>4, RequestFacts DEF TxType
<1>7. \/ tx[r].at = "creating" /\ tx[r].op = "create"
      \/ tx[r].at = "merging" /\ tx[r].op = "upsert"
  BY RequestFacts DEF InsertCase, WellFormed
<1>8. ~HasLoaded(tx[r]) /\ ~HasLoaded(t)
  BY <1>6, RequestFacts DEF InsertCase, WellFormed, HasLoaded
<1>9. \A q \in Requests : tx'[q] = IF q = r THEN t ELSE tx[q]
  BY <1>5 DEF IInv, TypeOK
<1>10. TypeOK'
  BY <1>2, <1>5, <1>6 DEF IInv, TypeOK, Exists
<1>11. Grounded'
  <2>1. WellFormed(t)
    BY <1>2, <1>6, <1>7, <1>8, RequestFacts DEF WellFormed, Active, Waiting, Edits
  <2>2. Backed(t)
    BY <1>3, <1>6, <1>7, <1>8, RequestFacts DEF Backed, Holding
  <2>3. \A q \in Requests : WellFormed(tx'[q]) /\ Backed(tx'[q])
    BY <1>9, <2>1, <2>2 DEF IInv, Grounded
  <2>4. \A q \in Requests : Backed(tx'[q]) => Backed(tx[q])'
    BY <1>5 DEF Backed, Exists, CasesOf
  <2> QED  BY <2>3, <2>4 DEF Grounded
<1>12. OneHolder'
  <2>1. Holding(t) => Holding(tx[r])
    BY <1>6, <1>7 DEF Holding
  <2> QED  BY <1>6, <1>9, <2>1 DEF IInv, OneHolder
<1>13. Numbered'
  <2>1. \A id \in CaseIds : Exists(id)' => id <= n
    BY <1>1, <1>2, <1>5 DEF IInv, Numbered, CaseIds, Exists
  <2>2. \A q \in Requests : tx'[q].case <= n
    <3> TAKE q \in Requests
    <3>1. tx[q].case \in Nat /\ tx[q].case <= issued
      BY <1>0, RequestFacts DEF CaseIds
    <3> QED  BY <1>1, <1>2, <1>6, <1>9, <3>1
  <2>3. ASSUME NEW p \in Requests, NEW q \in Requests, tx'[p].case = tx'[q].case,
               tx'[q].case # 0, cases'[tx'[q].case].status = "absent"
        PROVE  p = q
    BY <1>3, <1>5, <1>6, <1>9, <2>3 DEF IInv, Numbered, Exists
  <2>4. (\A id \in CaseIds : Exists(id) => id <= issued)'
    BY <1>2, <2>1
  <2> QED  BY <1>2, <2>2, <2>3, <2>4 DEF Numbered, Exists
<1>14. OneEach' /\ EvidenceKept'
  BY <1>5 DEF IInv, OneEach, EvidenceKept, LandedInOwnCase, RiskCoversAlerts, Exists
<1> QED  BY <1>10, <1>11, <1>12, <1>13, <1>14 DEF IInv

-----------------------------------------------------------------------------
(* The row a request writes: a new one, or the current one with its cluster;*)
(* only an upsert changes the alerts and the risk of a case that exists.    *)
LEMMA WrittenIsRow ==
  ASSUME IInv, NEW r \in Requests, tx[r].at = "flushed"
  PROVE  \E id \in CaseIds, row \in CaseRow :
           /\ id = tx[r].case /\ row = Written(r) /\ id # 0
           /\ row.status # "absent" /\ row.cluster = tx[r].cluster
           /\ row.timeline = tx[r].loaded.timeline \cup {r}
           /\ Exists(id) <=> HasLoaded(tx[r])
           /\ Exists(id) => cases[id].cluster = tx[r].cluster
           /\ ~Exists(id) => cases[id] = NoCase
           /\ tx[r].op # "upsert" =>
                /\ row.risk = cases[id].risk
                /\ Exists(id) => row.alerts = cases[id].alerts
                /\ ~Exists(id) => row.cluster = "none"
           /\ tx[r].op = "upsert" =>
                /\ row.alerts = cases[id].alerts \cup {tx[r].alert}
                /\ row.risk >= tx[r].score /\ row.risk >= cases[id].risk
<1>1. PICK id, row, t : id = tx[r].case /\ row = Written(r) /\ t = tx[r]
  OBVIOUS
<1>2. /\ t \in TxType /\ t.at = "flushed" /\ WellFormed(t) /\ Backed(t) /\ id = t.case
      /\ id \in CaseIds /\ id # 0 /\ Active(t)
  BY <1>1, RequestFacts DEF WellFormed, Active
<1>3. /\ t.loaded \in CaseRow /\ t.loaded.alerts \in SUBSET Alerts
      /\ t.loaded.risk \in Scores \cup {0} /\ t.loaded.timeline \in SUBSET Requests
      /\ t.loaded.status \in Statuses \cup {"absent"} /\ t.cluster \in Clusters
      /\ t.op \in Edits \cup {"upsert", "create"}
  BY <1>2 DEF TxType, CaseRow, WellFormed
<1>4. /\ cases[id] \in CaseRow /\ cases[id].alerts \in SUBSET Alerts
      /\ cases[id].risk \in Scores \cup {0}
      /\ cases[id].status \in Statuses \cup {"absent"}
      /\ Exists(id) \/ cases[id] = NoCase
  BY <1>2 DEF IInv, TypeOK, CaseRow
<1>5. Scores \cup {0} \subseteq Nat
  BY CaseAssumption
<1>6. Exists(id) <=> HasLoaded(t)
  BY <1>2 DEF Backed
<1>7. Exists(id) => cases[id].cluster = t.cluster
  BY <1>2, <1>6 DEF Backed
<1>8. CASE t.op = "upsert" /\ ~HasLoaded(t)
  <2>1. t.loaded = NoCase /\ t.alert \in Alerts /\ t.score \in Scores
    BY <1>2, <1>8 DEF HasLoaded, WellFormed
  <2>2. t.score \in Nat /\ t.score > 0 /\ HigherRisk(r) = t.score
    <3>1. t.score \in Nat /\ t.score > 0
      <4>1. Scores \subseteq Nat \ {0}
        BY CaseAssumption
      <4>2. \A n \in Nat \ {0} : n > 0
        OBVIOUS
      <4>3. t.score \in Nat \ {0}
        BY <2>1, <4>1
      <4> QED  BY <4>2, <4>3
    <3>2. HigherRisk(r) = t.score
      BY <1>1, <2>1, <3>1, NoCaseIsRow DEF HigherRisk
    <3> QED  BY <3>1, <3>2
  <2>3. PICK alerts, risk, timeline :
          /\ alerts = Column(t.loaded.alerts, t.loaded.alerts \cup {t.alert}, NoCase.alerts)
          /\ risk = Column(t.loaded.risk, HigherRisk(r), NoCase.risk)
          /\ timeline = t.loaded.timeline \cup {r}
    OBVIOUS
  <2>4. alerts = {t.alert} /\ risk = t.score /\ timeline = {r}
    BY <2>1, <2>2, <2>3, NoCaseIsRow DEF Column
  <2>5. row = [[NoCase EXCEPT !.alerts = alerts, !.risk = risk, !.timeline = timeline]
                 EXCEPT !.cluster = t.cluster, !.status = "new"]
    <3>1. Merged(r, NoCase) = [NoCase EXCEPT !.alerts = alerts, !.risk = risk, !.timeline = timeline]
      BY <1>1, <2>3, Zenon DEF Merged
    <3>2. Created(r) = [Merged(r, NoCase) EXCEPT !.cluster = t.cluster, !.status = "new"]
      BY <1>1, <1>8 DEF Created
    <3>3. row = Created(r)
      <4>1. tx[r].loaded = NoCase
        BY <1>1, <2>1
      <4>2. Written(r) = Created(r)
        BY <4>1 DEF Written
      <4> QED  BY <1>1, <4>2
    <3> QED  BY <3>1, <3>2, <3>3
  <2>6. /\ row \in CaseRow /\ row.status = "new" /\ row.cluster = t.cluster
        /\ row.alerts = alerts /\ row.risk = risk /\ row.timeline = timeline
    <3>1. "new" \in Statuses
      BY DEF Statuses
    <3> QED  BY <1>3, <2>1, <2>4, <2>5, <3>1, NoCaseIsRow DEF CaseRow
  <2> QED
    BY <1>1, <1>2, <1>4, <1>6, <1>7, <1>8, <2>1, <2>2, <2>4, <2>6, NoCaseIsRow
<1>9. CASE t.op = "create"
  <2>1. t.loaded = NoCase /\ ~HasLoaded(t)
    BY <1>2, <1>9 DEF HasLoaded, WellFormed
  <2>2. row = [[NoCase EXCEPT !.alerts = t.given, !.timeline = {r}]
                 EXCEPT !.cluster = t.cluster, !.status = "new"]
    BY <1>1, <1>9, <2>1 DEF Written, Created
  <2>3. t.given \in SUBSET Alerts /\ t.cluster = "none"
    BY <1>2, <1>9 DEF TxType, WellFormed
  <2>4. /\ row \in CaseRow /\ row.status = "new" /\ row.cluster = t.cluster
        /\ row.risk = 0 /\ row.timeline = {r}
    <3>1. "new" \in Statuses
      BY DEF Statuses
    <3> QED  BY <1>3, <2>2, <2>3, <3>1, NoCaseIsRow DEF CaseRow
  <2> QED  BY <1>1, <1>2, <1>4, <1>6, <1>7, <1>9, <2>1, <2>3, <2>4, NoCaseIsRow
<1>10. CASE t.op = "upsert" /\ HasLoaded(t)
  <2>1. /\ t.loaded # NoCase /\ t.alert \in Alerts /\ t.score \in Scores
        /\ t.loaded.alerts = cases[id].alerts /\ t.loaded.risk = cases[id].risk
    BY <1>2, <1>10 DEF HasLoaded, WellFormed, Backed, Holding
  <2>2. /\ HigherRisk(r) \in Scores \cup {0} /\ HigherRisk(r) >= t.score
        /\ HigherRisk(r) >= cases[id].risk
    BY <1>1, <1>3, <1>5, <2>1 DEF HigherRisk
  <2>3. PICK alerts, risk, timeline :
          /\ alerts = Column(t.loaded.alerts, t.loaded.alerts \cup {t.alert}, cases[id].alerts)
          /\ risk = Column(t.loaded.risk, HigherRisk(r), cases[id].risk)
          /\ timeline = t.loaded.timeline \cup {r}
    OBVIOUS
  <2>4. /\ alerts = cases[id].alerts \cup {t.alert} /\ risk = HigherRisk(r)
        /\ timeline \in SUBSET Requests
    BY <1>3, <2>1, <2>3 DEF Column
  <2>5. row = [cases[id] EXCEPT !.alerts = alerts, !.risk = risk, !.timeline = timeline]
    BY <1>1, <1>10, <2>1, <2>3 DEF Written, Merged
  <2>6. /\ row \in CaseRow /\ row.status = cases[id].status /\ row.cluster = cases[id].cluster
        /\ row.alerts = alerts /\ row.risk = risk /\ row.timeline = timeline
    BY <1>4, <2>1, <2>2, <2>4, <2>5 DEF CaseRow
  <2> QED
    BY <1>1, <1>2, <1>4, <1>6, <1>7, <1>10, <2>1, <2>2, <2>3, <2>4, <2>6 DEF Exists
<1>11. CASE t.op \in Edits
  <2>1. t.loaded # NoCase /\ HasLoaded(t) /\ t.op # "upsert" /\ t.status \in Statuses
        /\ t.loaded.status # "absent"
    BY <1>2, <1>11 DEF HasLoaded, WellFormed, Edits
  <2>2. EditedStatus(r) \in Statuses
    <3>1. "false_positive" \in Statuses
      BY DEF Statuses
    <3> QED  BY <1>1, <1>3, <2>1, <3>1 DEF EditedStatus
  <2>3. PICK status, timeline :
          /\ status = Column(t.loaded.status, EditedStatus(r), cases[id].status)
          /\ timeline = t.loaded.timeline \cup {r}
    OBVIOUS
  <2>4. status \in Statuses /\ status # "absent" /\ timeline \in SUBSET Requests
    BY <1>3, <1>4, <1>6, <2>1, <2>2, <2>3 DEF Column, Exists, Statuses
  <2>5. row = [cases[id] EXCEPT !.status = status, !.timeline = timeline]
    BY <1>1, <2>1, <2>3 DEF Written, Edited
  <2>6. /\ row \in CaseRow /\ row.status = status /\ row.cluster = cases[id].cluster
        /\ row.alerts = cases[id].alerts /\ row.risk = cases[id].risk
        /\ row.timeline = timeline
    BY <1>4, <2>4, <2>5 DEF CaseRow
  <2> QED  BY <1>1, <1>2, <1>4, <1>6, <1>7, <2>1, <2>3, <2>4, <2>6
<1> QED  BY <1>3, <1>8, <1>9, <1>10, <1>11

(* A commit writes its row and ends its request.                            *)
LEMMA CommitInv ==
  ASSUME IInv, NEW r \in Requests, tx[r].at = "flushed",
         NEW id \in CaseIds, NEW row \in CaseRow, id = tx[r].case, row = Written(r),
         cases' = [cases EXCEPT ![id] = row], Ends(r), UNCHANGED <<issued, overlapped>>,
         landed' \in [Alerts -> [case: {0} \cup CaseIds, score: Scores \cup {0}]],
         EvidenceKept'
  PROVE  IInv'
<1>0. /\ MaxCases \in Nat
      /\ \A a, b \in Alerts : Cluster[a] = Cluster[b] => a = b
      /\ \A a \in Alerts : Cluster[a] # "none"
  BY CaseAssumption
<1>1. /\ row.status # "absent" /\ row.cluster = tx[r].cluster
      /\ Exists(id) <=> HasLoaded(tx[r])
      /\ Exists(id) => cases[id].cluster = tx[r].cluster
      /\ tx[r].op # "upsert" => row.risk = cases[id].risk
      /\ tx[r].op # "upsert" /\ Exists(id) => row.alerts = cases[id].alerts
  BY WrittenIsRow
<1>2. tx[r].op \in Edits \cup {"none", "upsert", "create"} /\ "ok" \in Answers
  BY RequestFacts DEF TxType, Answers
<1>14. PICK op \in Edits \cup {"none", "upsert", "create"} : op = tx[r].op
  BY <1>2
<1>15. PICK t \in TxType :
         /\ t = [Idle EXCEPT !.op = op, !.at = "ok"]
         /\ t.op = op /\ t.at = "ok" /\ t.case = 0 /\ t.loaded = NoCase
         /\ ~Active(t) /\ WellFormed(t) /\ Backed(t) /\ Backed(t)' /\ ~Holding(t)
  BY <1>2, AnsweredIsFree, Zenon
<1>3. /\ t = [Idle EXCEPT !.op = tx[r].op, !.at = "ok"]
      /\ t.case = 0 /\ WellFormed(t) /\ Backed(t)' /\ ~Holding(t)
  BY <1>14, <1>15
<1>4. /\ \A q \in Requests : tx'[q] = IF q = r THEN t ELSE tx[q]
      /\ \A k \in CaseIds : cases'[k] = IF k = id THEN row ELSE cases[k]
  BY <1>3 DEF IInv, TypeOK, Ends
<1>5. \A k \in CaseIds : Exists(k)' <=> (k = id \/ Exists(k))
  BY <1>1, <1>4 DEF Exists
<1>6. TypeOK'
  <2>1. cases' \in [CaseIds -> CaseRow] /\ tx' \in [Requests -> TxType]
    BY <1>3 DEF IInv, TypeOK, Ends
  <2>2. \A k \in CaseIds : cases'[k].status # "absent" \/ cases'[k] = NoCase
    BY <1>1, <1>4 DEF IInv, TypeOK, Exists
  <2> QED  BY <2>1, <2>2 DEF IInv, TypeOK, Exists
<1>7. tx[r].op = "upsert" => tx[r].alert \in Alerts /\ tx[r].cluster = Cluster[tx[r].alert] /\ Holding(tx[r])
  BY RequestFacts DEF WellFormed, Active, Holding
<1>8. tx[r].op # "upsert" /\ ~Exists(id) => tx[r].cluster = "none"
  <2>1. tx[r].op \in Edits => HasLoaded(tx[r])
    BY RequestFacts DEF WellFormed, Active
  <2>2. tx[r].op = "create" => tx[r].cluster = "none"
    BY RequestFacts DEF WellFormed, Active
  <2>3. tx[r].op # "none"
    BY RequestFacts DEF WellFormed
  <2> QED  BY <1>1, <1>2, <2>1, <2>2, <2>3
<1>9. ASSUME NEW q \in Requests, q # r PROVE Backed(tx[q])'
  <2>1. PICK u : u = tx[q]
    OBVIOUS
  <2>2. /\ WellFormed(u) /\ Backed(u) /\ tx'[q] = u /\ (u.case # 0 => u.case \in CaseIds)
    BY <1>4, <1>9, <2>1, RequestFacts
  <2>3. Holding(u) => u.alert \in Alerts /\ u.cluster = Cluster[u.alert] /\ u.op = "upsert"
    BY <2>2 DEF WellFormed, Holding, Active, Waiting
  <2>4. HasLoaded(u) => u.case \in CaseIds /\ Exists(u.case)
    BY <2>2 DEF WellFormed, Backed
  <2>5. HasLoaded(u) => cases'[u.case].status # "absent" /\ cases'[u.case].cluster = u.cluster
    BY <1>1, <1>4, <2>2, <2>4 DEF Backed, Exists
  <2>6. u.at = "flushed" /\ ~HasLoaded(u) => cases'[u.case].status = "absent"
    <3>1. SUFFICES ASSUME u.at = "flushed", ~HasLoaded(u) PROVE ~Exists(u.case)'
      BY DEF Exists
    <3>2. u.case \in CaseIds /\ u.case # 0 /\ ~Exists(u.case)
      BY <2>2, <3>1 DEF WellFormed, Backed
    <3>3. u.case # id
      BY <1>9, <2>1, <3>2 DEF IInv, Numbered
    <3> QED  BY <1>5, <3>2, <3>3
  <2>7. Holding(u) /\ Holding(tx[r]) => u.cluster # tx[r].cluster
    <3>1. Holding(u) /\ Holding(tx[r]) => u.alert # tx[r].alert
      BY <1>9, <2>1 DEF IInv, OneHolder
    <3>2. Holding(tx[r]) => tx[r].op = "upsert"
      BY DEF Holding
    <3> QED  BY <1>0, <1>7, <2>3, <3>1, <3>2
  <2>8. Holding(u) /\ ~HasLoaded(u) => \A k \in CaseIds : ~(Exists(k)' /\ cases'[k].cluster = u.cluster)
    <3>1. SUFFICES ASSUME Holding(u), ~HasLoaded(u), NEW k \in CaseIds, Exists(k)',
                          cases'[k].cluster = u.cluster
                   PROVE  FALSE
      OBVIOUS
    <3>2. \A j \in CaseIds : ~(Exists(j) /\ cases[j].cluster = u.cluster)
      BY <2>2, <3>1 DEF Backed, CasesOf
    <3>3. k = id /\ ~Exists(id) /\ tx[r].cluster = u.cluster
      BY <1>1, <1>4, <1>5, <3>1, <3>2
    <3>4. tx[r].op = "upsert"
      BY <1>0, <1>8, <2>3, <3>1, <3>3
    <3> QED  BY <1>7, <2>7, <3>1, <3>3, <3>4
  <2>9. Holding(u) /\ HasLoaded(u) =>
          u.loaded.alerts = cases'[u.case].alerts /\ u.loaded.risk = cases'[u.case].risk
    <3>1. SUFFICES ASSUME Holding(u), HasLoaded(u)
                   PROVE  /\ u.loaded.alerts = cases'[u.case].alerts
                          /\ u.loaded.risk = cases'[u.case].risk
      OBVIOUS
    <3>2. u.loaded.alerts = cases[u.case].alerts /\ u.loaded.risk = cases[u.case].risk
      BY <2>2, <3>1 DEF Backed
    <3>3. CASE u.case # id
      BY <1>4, <2>4, <3>1, <3>2, <3>3
    <3>4. CASE u.case = id
      <4>1. u.cluster = tx[r].cluster
        BY <1>1, <2>2, <2>4, <3>1, <3>4 DEF Backed
      <4>2. tx[r].op # "upsert"
        BY <1>7, <2>7, <3>1, <4>1
      <4> QED  BY <1>1, <1>4, <2>4, <3>1, <3>2, <3>4, <4>2
    <3> QED  BY <3>3, <3>4
  <2>10. Backed(u)'
    BY <2>5, <2>6, <2>8, <2>9 DEF Backed, Exists, CasesOf
  <2> QED  BY <2>2, <2>10 DEF Backed, Exists, CasesOf
<1>10. Grounded'
  <2>1. ASSUME NEW q \in Requests PROVE WellFormed(tx'[q])
    BY <1>3, <1>4 DEF IInv, Grounded
  <2>2. Backed(tx[r])'
    BY <1>3, <1>4 DEF Backed, Exists, CasesOf
  <2> QED  BY <1>9, <2>1, <2>2 DEF Grounded
<1>11. OneHolder'
  BY <1>3, <1>4 DEF IInv, OneHolder
<1>12. Numbered'
  <2>1. \A k \in CaseIds : Exists(k)' => k <= issued
    BY <1>5, RequestFacts DEF IInv, Numbered
  <2>2. \A q \in Requests : tx'[q].case = tx[q].case \/ (q = r /\ tx'[q].case = 0)
    BY <1>3, <1>4
  <2>3. issued \in Nat
    BY <1>0 DEF IInv, TypeOK
  <2>4. \A q \in Requests : tx'[q].case <= issued
    BY <2>2, <2>3, RequestFacts
  <2>5. ASSUME NEW p \in Requests, NEW q \in Requests, tx'[p].case = tx'[q].case,
               tx'[q].case # 0, cases'[tx'[q].case].status = "absent"
        PROVE  p = q
    <3>1. tx[p].case = tx[q].case /\ tx[q].case # 0 /\ tx[q].case \in CaseIds
          /\ tx'[q].case = tx[q].case
      BY <2>2, <2>5, RequestFacts
    <3>2. ~Exists(tx[q].case)
      BY <1>5, <2>5, <3>1 DEF Exists
    <3> QED  BY <3>1, <3>2 DEF IInv, Numbered
  <2>6. (\A k \in CaseIds : Exists(k) => k <= issued)'
    BY <2>1
  <2> QED  BY <2>4, <2>5, <2>6 DEF Numbered, Exists
<1>13. OneEach'
  <2>1. ~Exists(id) /\ tx[r].cluster # "none" =>
          \A k \in CaseIds : ~(Exists(k) /\ cases[k].cluster = tx[r].cluster)
    <3>1. SUFFICES ASSUME ~Exists(id), tx[r].cluster # "none" PROVE CasesOf(tx[r].cluster) = {}
      BY DEF CasesOf
    <3>2. Holding(tx[r]) /\ ~HasLoaded(tx[r])
      BY <1>1, <1>7, <1>8, <3>1
    <3> QED  BY <3>2, RequestFacts DEF Backed
  <2>2. ASSUME NEW i \in CaseIds, NEW j \in CaseIds, Exists(i)', Exists(j)',
               cases'[i].cluster = cases'[j].cluster, cases'[i].cluster # "none"
        PROVE  i = j
    BY <1>1, <1>4, <1>5, <2>1, <2>2 DEF IInv, OneEach
  <2> QED  BY <2>2 DEF OneEach, Exists
<1> QED  BY <1>6, <1>10, <1>11, <1>12, <1>13 DEF IInv

(* The commit of an upsert lands its alert in the case it writes.           *)
LEMMA CommitUpsertInv ==
  ASSUME IInv, NEW r \in Requests, CommitUpsert(r)
  PROVE  IInv'
<1>0. /\ \A a, b \in Alerts : Cluster[a] = Cluster[b] => a = b
      /\ \A a \in Alerts : Cluster[a] # "none"
      /\ Scores \subseteq Nat \ {0}
  BY CaseAssumption
<1>1. tx[r].at = "flushed" /\ tx[r].op = "upsert"
  BY DEF CommitUpsert
<1>2. PICK id \in CaseIds, row \in CaseRow :
        /\ id = tx[r].case /\ row = Written(r) /\ id # 0
        /\ row.status # "absent" /\ row.cluster = tx[r].cluster
        /\ Exists(id) <=> HasLoaded(tx[r])
        /\ Exists(id) => cases[id].cluster = tx[r].cluster
        /\ ~Exists(id) => cases[id] = NoCase
        /\ row.alerts = cases[id].alerts \cup {tx[r].alert}
        /\ row.risk >= tx[r].score /\ row.risk >= cases[id].risk
  BY <1>1, WrittenIsRow
<1>3. PICK a \in Alerts : a = tx[r].alert
  BY <1>1, RequestFacts DEF WellFormed, Active
<1>15. PICK l : l = [case |-> tx[r].case, score |-> tx[r].score]
  OBVIOUS
<1>4. tx[r].cluster = Cluster[a] /\ tx[r].score \in Scores
      /\ l \in [case: {0} \cup CaseIds, score: Scores \cup {0}]
      /\ l.case = id /\ l.score = tx[r].score /\ l # NoAlert
  BY <1>1, <1>2, <1>3, <1>15, RequestFacts DEF WellFormed, Active, NoAlert
<1>5. /\ cases' = [cases EXCEPT ![id] = row] /\ landed' = [landed EXCEPT ![a] = l]
      /\ Ends(r) /\ UNCHANGED <<issued, overlapped>>
  BY <1>2, <1>3, <1>15 DEF CommitUpsert
<1>6. landed' \in [Alerts -> [case: {0} \cup CaseIds, score: Scores \cup {0}]]
  BY <1>4, <1>5 DEF IInv, TypeOK
<1>7. /\ \A k \in CaseIds : cases'[k] = IF k = id THEN row ELSE cases[k]
      /\ \A b \in Alerts : landed'[b] = IF b = a THEN l ELSE landed[b]
  BY <1>5 DEF IInv, TypeOK
<1>8. \A b \in Alerts : landed[b] # NoAlert =>
        /\ landed[b].case \in CaseIds /\ Exists(landed[b].case)
        /\ cases[landed[b].case].cluster = Cluster[b]
        /\ cases[landed[b].case].risk >= landed[b].score
  BY DEF IInv, EvidenceKept, LandedInOwnCase, RiskCoversAlerts
<1>9. \A b \in Alerts : landed[b].case = id /\ landed[b] # NoAlert => b = a
  <2>1. ASSUME NEW b \in Alerts, landed[b].case = id, landed[b] # NoAlert
        PROVE  Cluster[b] = Cluster[a]
    BY <1>2, <1>4, <1>8, <2>1
  <2> QED  BY <1>0, <2>1
<1>10. landed[a] # NoAlert => landed[a].case = id
  <2>1. SUFFICES ASSUME landed[a] # NoAlert PROVE landed[a].case = id
    OBVIOUS
  <2>2. landed[a].case \in CasesOf(tx[r].cluster)
    BY <1>4, <1>8, <2>1 DEF CasesOf
  <2>3. Exists(id)
    <3>1. Holding(tx[r])
      BY <1>1 DEF Holding
    <3> QED  BY <1>2, <2>2, <3>1, RequestFacts DEF Backed
  <2> QED  BY <1>0, <1>2, <1>4, <1>8, <2>1, <2>3 DEF IInv, OneEach
<1>11. NoAlert.case = 0 /\ 0 \notin CaseIds
  BY CaseAssumption DEF NoAlert, CaseIds
<1>12. LandedInOwnCase'
  <2>1. ASSUME NEW b \in Alerts, landed'[b] # NoAlert
        PROVE  /\ landed'[b].case \in CaseIds /\ cases'[landed'[b].case].status # "absent"
               /\ cases'[landed'[b].case].cluster = Cluster[b]
    <3>1. CASE b = a
      BY <1>2, <1>4, <1>7, <3>1
    <3>2. CASE b # a
      BY <1>2, <1>7, <1>8, <1>9, <2>1, <3>2 DEF Exists
    <3> QED  BY <3>1, <3>2
  <2>2. ASSUME NEW k \in CaseIds, cases'[k].cluster # "none"
        PROVE  cases'[k].alerts = {b \in Alerts : landed'[b].case = k}
    <3>1. cases[k].cluster # "none" => cases[k].alerts = {b \in Alerts : landed[b].case = k}
      BY DEF IInv, EvidenceKept, LandedInOwnCase
    <3>2. CASE k = id
      <4>1. cases[id].alerts = {b \in Alerts : landed[b].case = id}
        <5>1. CASE Exists(id)
          BY <1>0, <1>2, <1>4, <3>1, <3>2, <5>1
        <5>2. CASE ~Exists(id)
          <6>1. \A b \in Alerts : landed[b].case # id
            BY <1>8, <1>11, <5>2
          <6> QED  BY <1>2, <5>2, <6>1, NoCaseIsRow
        <5> QED  BY <5>1, <5>2
      <4> QED  BY <1>2, <1>3, <1>4, <1>7, <3>2, <4>1
    <3>3. CASE k # id
      <4>1. landed[a].case # k
        BY <1>10, <1>11, <3>3
      <4> QED  BY <1>4, <1>7, <2>2, <3>1, <3>3, <4>1
    <3> QED  BY <3>2, <3>3
  <2> QED  BY <2>1, <2>2 DEF LandedInOwnCase, Exists
<1>13. RiskCoversAlerts'
  <2>1. ASSUME NEW b \in Alerts, landed'[b] # NoAlert
        PROVE  cases'[landed'[b].case].risk >= landed'[b].score
    <3>1. CASE b = a
      BY <1>2, <1>4, <1>7, <3>1
    <3>2. CASE b # a
      BY <1>7, <1>8, <1>9, <2>1, <3>2
    <3> QED  BY <3>1, <3>2
  <2> QED  BY <2>1 DEF RiskCoversAlerts
<1>14. EvidenceKept'
  BY <1>12, <1>13 DEF EvidenceKept
<1> QED  BY <1>1, <1>2, <1>5, <1>6, <1>14, CommitInv

(* Other commits leave alerts and risk of existing cases as they are.       *)
LEMMA CommitOtherInv ==
  ASSUME IInv, NEW r \in Requests, Commit(r)
  PROVE  IInv'
<1>1. tx[r].at = "flushed" /\ tx[r].op # "upsert" /\ UNCHANGED landed
  BY DEF Commit
<1>2. PICK id \in CaseIds, row \in CaseRow :
        /\ id = tx[r].case /\ row = Written(r)
        /\ row.status # "absent" /\ row.cluster = tx[r].cluster
        /\ Exists(id) => cases[id].cluster = tx[r].cluster
        /\ row.risk = cases[id].risk
        /\ Exists(id) => row.alerts = cases[id].alerts
        /\ ~Exists(id) => row.cluster = "none"
  BY <1>1, WrittenIsRow
<1>3. cases' = [cases EXCEPT ![id] = row] /\ Ends(r) /\ UNCHANGED <<issued, overlapped>>
  BY <1>2 DEF Commit
<1>4. \A k \in CaseIds :
        /\ cases'[k].risk = cases[k].risk
        /\ Exists(k) =>
             /\ cases'[k].alerts = cases[k].alerts /\ cases'[k].cluster = cases[k].cluster
             /\ cases'[k].status # "absent"
        /\ ~Exists(k) => cases'[k].cluster = "none"
  BY <1>2, <1>3, NoCaseIsRow DEF IInv, TypeOK, Exists
<1>5. EvidenceKept'
  BY <1>1, <1>4 DEF IInv, EvidenceKept, LandedInOwnCase, RiskCoversAlerts, Exists
<1>6. landed' \in [Alerts -> [case: {0} \cup CaseIds, score: Scores \cup {0}]]
  BY <1>1 DEF IInv, TypeOK
<1> QED  BY <1>1, <1>2, <1>3, <1>5, <1>6, CommitInv

-----------------------------------------------------------------------------
(* The empty tables satisfy the invariant.                                  *)
LEMMA InitInv == Init => IInv
<1> SUFFICES ASSUME Init PROVE IInv
  OBVIOUS
<1>1. MaxCases \in Nat
  BY CaseAssumption
<1>2. /\ \A id \in CaseIds : cases[id] = NoCase
      /\ \A a \in Alerts : landed[a] = NoAlert
      /\ \A r \in Requests : tx[r] = Idle
  BY DEF Init
<1>3. TypeOK
  <2>1. NoAlert \in [case: {0} \cup CaseIds, score: Scores \cup {0}]
    BY DEF NoAlert
  <2>2. landed \in [Alerts -> [case: {0} \cup CaseIds, score: Scores \cup {0}]]
    BY <2>1 DEF Init
  <2>3. cases \in [CaseIds -> CaseRow] /\ tx \in [Requests -> TxType]
    BY NoCaseIsRow, RestIsTyped DEF Init
  <2>4. issued \in 0..MaxCases
    BY <1>1 DEF Init
  <2>5. overlapped \in BOOLEAN
    BY DEF Init
  <2> QED  BY <1>2, <2>2, <2>3, <2>4, <2>5 DEF TypeOK
<1>4. Grounded
  BY <1>2, RestIsTyped DEF Grounded, WellFormed, Backed, HasLoaded, Holding, Active, Waiting
<1>5. OneHolder
  BY <1>2, RestIsTyped DEF OneHolder, Holding
<1>6. Numbered
  BY <1>1, <1>2, RestIsTyped, NoCaseIsRow DEF Numbered, Exists, Init
<1>7. OneEach
  BY <1>2, NoCaseIsRow DEF OneEach, Exists
<1>8. EvidenceKept
  <2>1. NoAlert.case = 0 /\ 0 \notin CaseIds
    BY <1>1 DEF NoAlert, CaseIds
  <2> QED  BY <1>2, <2>1, NoCaseIsRow DEF EvidenceKept, LandedInOwnCase, RiskCoversAlerts
<1> QED  BY <1>3, <1>4, <1>5, <1>6, <1>7, <1>8 DEF IInv

(* Every step keeps it, one lemma per operation.                            *)
LEMMA Inductive == IInv /\ [Next]_vars => IInv'
<1> SUFFICES ASSUME IInv, [Next]_vars PROVE IInv'
  OBVIOUS
<1>1. ASSUME NEW r \in Requests, Proceed(r) PROVE IInv'
  BY <1>1, LandAndFindCaseInv, InsertCaseInv, FlushCaseInv, CommitUpsertInv, CommitOtherInv
     DEF Proceed
<1>2. ASSUME NEW r \in Requests, Abort(r) PROVE IInv'
  <2>1. "failed" \in Answers /\ Answer(r, "failed")
    BY <1>2 DEF Abort, Answers
  <2> QED  BY <2>1, AnswerInv
<1>3. CASE UNCHANGED vars
  BY <1>3 DEF vars, IInv, TypeOK, Grounded, Backed, OneHolder, Numbered, OneEach, EvidenceKept,
              LandedInOwnCase, RiskCoversAlerts, Exists, CasesOf
<1> QED  BY <1>1, <1>2, <1>3, UpsertInv, CreateCaseInv, EditInv DEF Next

-----------------------------------------------------------------------------
(* Tables and open transactions keep their types, however requests overlap. *)
THEOREM TypeCorrect == Spec => []TypeOK
<1>1. IInv => TypeOK
  BY DEF IInv
<1> QED  BY <1>1, InitInv, Inductive, PTL DEF Spec

(* upsert_case_from_alert: alerts and cases point at each other, a case is  *)
(* at least as risky as its alerts, in every interleaving.                  *)
THEOREM EvidenceAlwaysKept == Spec => []EvidenceKept
<1>1. IInv => EvidenceKept
  BY DEF IInv
<1> QED  BY <1>1, InitInv, Inductive, PTL DEF Spec

(* Although nothing in the schema says so, a cluster never has two cases:   *)
(* the row of its alert keeps upserts of it apart.                          *)
THEOREM AlwaysOneCase == Spec => []OneCasePerCluster
<1>1. ASSUME IInv PROVE OneCasePerCluster
  <2> SUFFICES ASSUME NEW k \in Clusters \ {"none"} PROVE Cardinality(CasesOf(k)) <= 1
    BY DEF OneCasePerCluster
  <2>1. CASE CasesOf(k) = {}
    BY <2>1, FS_EmptySet
  <2>2. CASE CasesOf(k) # {}
    <3>1. PICK id : id \in CasesOf(k)
      BY <2>2
    <3>2. CasesOf(k) = {id}
      BY <1>1, <3>1 DEF CasesOf, IInv, OneEach
    <3>3. Cardinality(CasesOf(k)) = 1
      BY <3>2, FS_Singleton
    <3> QED  BY <3>3
  <2> QED  BY <2>1, <2>2
<1> QED  BY <1>1, InitInv, Inductive, PTL DEF Spec

-----------------------------------------------------------------------------
(* A request that arrives, and one that looks its case up, write no row.    *)
LEMMA ArrivalsWriteNothing ==
  ASSUME NEW r \in Requests, Upsert(r) \/ CreateCase(r) \/ Edit(r)
  PROVE  UNCHANGED cases
<1>1. ASSUME Upsert(r) PROVE UNCHANGED tables
  BY <1>1, Zenon DEF Upsert
<1>2. ASSUME CreateCase(r) PROVE UNCHANGED tables
  BY <1>2 DEF CreateCase
<1>3. ASSUME Edit(r) PROVE UNCHANGED tables
  BY <1>3, Zenon DEF Edit
<1> QED  BY <1>1, <1>2, <1>3 DEF tables

(* Looking the case up leaves the history variable alone, too.             *)
LEMMA ReadsWriteNothing ==
  ASSUME NEW r \in Requests, LandAndFindCase(r)
  PROVE  UNCHANGED cases /\ overlapped' = overlapped /\ tx[r].at = "landing"
<1>1. tx[r].at = "landing" /\ UNCHANGED <<tables, overlapped>>
  BY Zenon DEF LandAndFindCase, Answer
<1> QED  BY <1>1 DEF tables

(* Rows are written by commits only.                                        *)
LEMMA OnlyCommitsWrite ==
  ASSUME Next
  PROVE  \/ UNCHANGED cases
         \/ \E r \in Requests : /\ tx[r].at = "flushed"
                                /\ cases' = [cases EXCEPT ![tx[r].case] = Written(r)]
<1>1. ASSUME NEW r \in Requests, Upsert(r) \/ CreateCase(r) \/ Edit(r) PROVE UNCHANGED cases
  BY <1>1, ArrivalsWriteNothing
<1>2. ASSUME NEW r \in Requests, LandAndFindCase(r) PROVE UNCHANGED cases
  BY <1>2, ReadsWriteNothing
<1>3. ASSUME NEW r \in Requests, InsertCase(r) \/ FlushCase(r) PROVE UNCHANGED cases
  BY <1>3 DEF InsertCase, FlushCase, tables
<1>4. ASSUME NEW r \in Requests, CommitUpsert(r) \/ Commit(r)
      PROVE  tx[r].at = "flushed" /\ cases' = [cases EXCEPT ![tx[r].case] = Written(r)]
  BY <1>4 DEF CommitUpsert, Commit
<1>5. ASSUME NEW r \in Requests, Abort(r) PROVE UNCHANGED cases
  BY <1>5 DEF Abort, Answer, tables
<1> QED  BY <1>1, <1>2, <1>3, <1>4, <1>5 DEF Next, Proceed

(* Whoever has loaded a case is active, and about a committed one.          *)
LEMMA LoadedIsActive ==
  ASSUME IInv, NEW r \in Requests
  PROVE  /\ HasLoaded(tx[r]) => Active(tx[r]) /\ tx[r].case \in CaseIds /\ Exists(tx[r].case)
         /\ Active(tx[r]) /\ tx[r].case # 0 /\ Exists(tx[r].case) => HasLoaded(tx[r])
<1>1. WellFormed(tx[r]) /\ Backed(tx[r]) /\ (tx[r].case # 0 => tx[r].case \in CaseIds)
  BY RequestFacts
<1>2. HasLoaded(tx[r]) => Active(tx[r]) /\ tx[r].case \in CaseIds /\ Exists(tx[r].case)
  BY <1>1 DEF WellFormed, Backed
<1>3. tx[r].at = "editing" => HasLoaded(tx[r])
  BY <1>1 DEF WellFormed, Active, Waiting
<1>4. Active(tx[r]) /\ tx[r].case # 0 /\ Exists(tx[r].case) => HasLoaded(tx[r])
  BY <1>1, <1>3 DEF WellFormed, Backed, Active, Waiting
<1> QED  BY <1>2, <1>4

(* A request that stays apart from the others and writes no row             *)
LEMMA MoveAlone ==
  ASSUME IInv, Apart, TimelinesLoaded, NEW r \in Requests, NEW t \in TxType,
         tx' = [tx EXCEPT ![r] = t], UNCHANGED cases,
         Active(t) => \A q \in Requests \ {r} : Active(tx[q]) =>
                        /\ tx[q].cluster = t.cluster => t.cluster = "none"
                        /\ tx[q].case = t.case => t.case = 0,
         HasLoaded(t) => t.loaded.timeline = cases[t.case].timeline
  PROVE  Apart' /\ TimelinesLoaded'
<1>1. \A q \in Requests : tx'[q] = IF q = r THEN t ELSE tx[q]
  BY DEF IInv, TypeOK
<1>2. Apart'
  BY <1>1 DEF Apart, Active
<1>3. TimelinesLoaded'
  BY <1>1 DEF TimelinesLoaded, HasLoaded
<1> QED  BY <1>2, <1>3

(* One that goes on with its cluster and its case                           *)
LEMMA StayAlone ==
  ASSUME IInv, Apart, TimelinesLoaded, NEW r \in Requests, NEW t \in TxType,
         tx' = [tx EXCEPT ![r] = t], UNCHANGED cases, Active(tx[r]),
         t.cluster = tx[r].cluster, t.case = tx[r].case, t.loaded = tx[r].loaded
  PROVE  Apart' /\ TimelinesLoaded'
<1>1. \A q \in Requests \ {r} : Active(tx[q]) =>
        /\ tx[q].cluster = t.cluster => t.cluster = "none"
        /\ tx[q].case = t.case => t.case = 0
  BY DEF Apart
<1>2. HasLoaded(t) => t.loaded.timeline = cases[t.case].timeline
  BY DEF TimelinesLoaded, HasLoaded
<1> QED  BY <1>1, <1>2, MoveAlone

(* A request that ends leaves the others apart.                            *)
LEMMA AnswerAlone ==
  ASSUME IInv, Apart, TimelinesLoaded, NEW r \in Requests, NEW answer \in Answers,
         tx' = [tx EXCEPT ![r] = [Idle EXCEPT !.op = tx[r].op, !.at = answer]], UNCHANGED cases
  PROVE  Apart' /\ TimelinesLoaded'
<1>1. PICK op : op = tx[r].op
  OBVIOUS
<1>2. op \in Edits \cup {"none", "upsert", "create"}
  BY <1>1, RequestFacts DEF TxType
<1>3. PICK t : t = [Idle EXCEPT !.op = op, !.at = answer]
  OBVIOUS
<1>4. t \in TxType /\ t.at = answer /\ t.loaded = NoCase
  BY <1>2, <1>3, RestIsTyped DEF TxType
<1>5. ~Active(t) /\ ~HasLoaded(t)
  BY <1>4 DEF Active, HasLoaded, Answers, Waiting
<1> QED  BY <1>1, <1>3, <1>4, <1>5, MoveAlone

(* Until requests overlap, one that arrives shares no case with another.   *)
LEMMA ArriveAlone ==
  ASSUME IInv, Apart, TimelinesLoaded, NEW r \in Requests,
         Upsert(r) \/ CreateCase(r) \/ Edit(r), ~overlapped'
  PROVE  Apart' /\ TimelinesLoaded'
<1>1. UNCHANGED cases
  BY ArrivalsWriteNothing
<1>2. ASSUME NEW k, NEW id, Overlap(k, id), NEW t \in TxType, t.cluster = k,
             t.case = id, tx' = [tx EXCEPT ![r] = t],
             HasLoaded(t) => t.loaded.timeline = cases[t.case].timeline
      PROVE  Apart' /\ TimelinesLoaded'
  <2>1. \A q \in Requests : Active(tx[q]) => ~SameCase(q, k, id)
    BY <1>2 DEF Overlap, InFlight, Active
  <2>2. \A q \in Requests \ {r} : Active(tx[q]) =>
          /\ tx[q].cluster = t.cluster => t.cluster = "none"
          /\ tx[q].case = t.case => t.case = 0
    BY <1>2, <2>1 DEF SameCase
  <2> QED  BY <1>1, <1>2, <2>2, MoveAlone
<1>3. CASE Upsert(r)
  <2>1. PICK a \in Alerts, s \in Scores :
          /\ tx' = [tx EXCEPT ![r] = [Idle EXCEPT !.op = "upsert", !.at = "landing", !.alert = a,
                      !.score = s, !.cluster = Cluster[a], !.known = landed[a] # NoAlert]]
          /\ Overlap(Cluster[a], 0)
    BY <1>3, Zenon DEF Upsert
  <2>2. PICK k, known : k = Cluster[a] /\ known = (landed[a] # NoAlert)
    OBVIOUS
  <2>3. PICK t : t = [Idle EXCEPT !.op = "upsert", !.at = "landing", !.alert = a,
                        !.score = s, !.cluster = k, !.known = known]
    OBVIOUS
  <2>4. k \in Clusters /\ known \in BOOLEAN /\ "landing" \in Waiting
    BY <2>2 DEF Clusters, Waiting
  <2>5. t \in TxType /\ t.cluster = k /\ t.case = 0 /\ t.loaded = NoCase
    BY <2>3, <2>4, RestIsTyped DEF TxType
  <2>6. tx' = [tx EXCEPT ![r] = t] /\ Overlap(k, 0) /\ ~HasLoaded(t)
    BY <2>1, <2>2, <2>3, <2>5 DEF HasLoaded
  <2> QED  BY <1>2, <2>5, <2>6
<1>4. CASE CreateCase(r)
  <2>0. PICK list \in AlertLists :
          tx' = [tx EXCEPT ![r] = [Idle EXCEPT !.op = "create", !.at = "creating", !.given = list]]
    BY <1>4 DEF CreateCase
  <2>1. PICK t : t = [Idle EXCEPT !.op = "create", !.at = "creating", !.given = list]
    OBVIOUS
  <2>2. t \in TxType /\ t.cluster = "none" /\ t.case = 0 /\ t.loaded = NoCase
    <3>1. "creating" \in Waiting /\ Idle.cluster = "none"
      BY DEF Waiting, Idle
    <3>2. list \in SUBSET Alerts
      BY CaseAssumption
    <3> QED  BY <2>1, <3>1, <3>2, RestIsTyped DEF TxType
  <2>3. tx' = [tx EXCEPT ![r] = t] /\ Overlap("none", 0) /\ ~HasLoaded(t)
    BY <1>4, <2>0, <2>1, <2>2 DEF CreateCase, HasLoaded
  <2> QED  BY <1>2, <2>2, <2>3
<1>5. CASE Edit(r)
  <2>1. PICK id \in CaseIds, op \in Edits, s \in Statuses :
          IF Exists(id)
          THEN /\ tx' = [tx EXCEPT ![r] = [Idle EXCEPT !.op = op, !.at = "editing",
                   !.cluster = cases[id].cluster, !.case = id, !.loaded = cases[id], !.status = s]]
               /\ Overlap(cases[id].cluster, id)
          ELSE tx' = [tx EXCEPT ![r] = [Idle EXCEPT !.op = op, !.at = "failed"]]
               /\ UNCHANGED overlapped
    BY <1>5, Zenon DEF Edit
  <2>2. CASE ~Exists(id)
    <3>1. PICK t : t = [Idle EXCEPT !.op = op, !.at = "failed"]
      OBVIOUS
    <3>2. t \in TxType /\ t.at = "failed" /\ t.loaded = NoCase
      <4>1. "failed" \in Answers
        BY DEF Answers
      <4> QED  BY <3>1, <4>1, RestIsTyped DEF TxType
    <3>3. ~Active(t) /\ ~HasLoaded(t) /\ tx' = [tx EXCEPT ![r] = t]
      BY <2>1, <2>2, <3>1, <3>2 DEF Active, HasLoaded, Waiting
    <3> QED  BY <1>1, <3>2, <3>3, MoveAlone
  <2>3. CASE Exists(id)
    <3>1. PICK k, row : k = cases[id].cluster /\ row = cases[id]
      OBVIOUS
    <3>2. PICK t : t = [Idle EXCEPT !.op = op, !.at = "editing",
                          !.cluster = k, !.case = id, !.loaded = row, !.status = s]
      OBVIOUS
    <3>3. row \in CaseRow /\ k \in Clusters /\ "editing" \in Waiting
      BY <3>1 DEF IInv, TypeOK, CaseRow, Waiting
    <3>4. t \in TxType /\ t.cluster = k /\ t.case = id /\ t.loaded = row
      BY <3>2, <3>3, RestIsTyped DEF TxType
    <3>5. tx' = [tx EXCEPT ![r] = t] /\ Overlap(k, id)
      BY <2>1, <2>3, <3>1, <3>2
    <3>6. t.loaded.timeline = cases[t.case].timeline
      BY <3>1, <3>4
    <3> QED  BY <1>2, <3>4, <3>5, <3>6
  <2> QED  BY <2>2, <2>3
<1> QED  BY <1>3, <1>4, <1>5

(* An upsert loads the case of its cluster: nobody else is about that one. *)
LEMMA LandAndFindCaseAlone ==
  ASSUME IInv, Apart, TimelinesLoaded, NEW r \in Requests, LandAndFindCase(r)
  PROVE  Apart' /\ TimelinesLoaded'
<1>1. tx[r].at = "landing" /\ Active(tx[r])
  BY Zenon DEF LandAndFindCase, Active, Waiting
<1>2. CASE Answer(r, "failed")
  <2>1. tx' = [tx EXCEPT ![r] = [Idle EXCEPT !.op = tx[r].op, !.at = "failed"]]
    BY <1>2, Zenon DEF Answer
  <2>2. "failed" \in Answers /\ UNCHANGED cases
    BY ReadsWriteNothing DEF Answers
  <2> QED  BY <2>1, <2>2, AnswerAlone, Zenon
<1>3. CASE tx' = [tx EXCEPT ![r].at = "merging"] /\ UNCHANGED <<tables, overlapped>>
  <2>1. PICK t : t = [tx[r] EXCEPT !.at = "merging"]
    OBVIOUS
  <2>2. t \in TxType /\ t.cluster = tx[r].cluster /\ t.case = tx[r].case /\ t.loaded = tx[r].loaded
    <3>1. "merging" \in Waiting
      BY DEF Waiting
    <3> QED  BY <2>1, <3>1, RequestFacts DEF TxType
  <2> QED  BY <1>1, <1>3, <2>1, <2>2, StayAlone DEF tables
<1>4. ASSUME NEW id \in CasesOf(tx[r].cluster),
             tx' = [tx EXCEPT ![r].at = "merging", ![r].case = id, ![r].loaded = cases[id]],
             UNCHANGED <<tables, overlapped>>
      PROVE  Apart' /\ TimelinesLoaded'
  <2>0. PICK row : row = cases[id]
    OBVIOUS
  <2>1. PICK t : t = [tx[r] EXCEPT !.at = "merging", !.case = id, !.loaded = row]
    OBVIOUS
  <2>2. id \in CaseIds /\ id # 0 /\ Exists(id) /\ cases[id] \in CaseRow
        /\ cases[id].cluster = tx[r].cluster
    BY DEF CasesOf, CaseIds, IInv, TypeOK
  <2>3. t \in TxType /\ t.cluster = tx[r].cluster /\ t.case = id /\ t.loaded = row
    <3>1. "merging" \in Waiting
      BY DEF Waiting
    <3> QED  BY <2>0, <2>1, <2>2, <3>1, RequestFacts DEF TxType
  <2>4. tx[r].cluster # "none"
    <3>1. tx[r].alert \in Alerts /\ tx[r].cluster = Cluster[tx[r].alert]
      BY <1>1, RequestFacts DEF WellFormed
    <3> QED  BY <3>1, CaseAssumption
  <2>5. ASSUME NEW q \in Requests \ {r}, Active(tx[q])
        PROVE  tx[q].cluster # tx[r].cluster /\ tx[q].case # id
    <3>1. tx[q].cluster # tx[r].cluster
      BY <1>1, <2>4, <2>5 DEF Apart
    <3>2. tx[q].case = id => tx[q].cluster = cases[id].cluster
      BY <2>2, <2>5, LoadedIsActive, RequestFacts DEF Backed
    <3> QED  BY <2>2, <3>1, <3>2
  <2>6. tx' = [tx EXCEPT ![r] = t] /\ t.loaded.timeline = cases[t.case].timeline
    BY <1>4, <2>0, <2>1, <2>3
  <2>7. \A q \in Requests \ {r} : Active(tx[q]) =>
          /\ tx[q].cluster = t.cluster => t.cluster = "none"
          /\ tx[q].case = t.case => t.case = 0
    BY <2>3, <2>5
  <2>8. UNCHANGED cases
    BY ReadsWriteNothing
  <2> QED  BY <2>3, <2>6, <2>7, <2>8, MoveAlone
<1> QED  BY <1>2, <1>3, <1>4, Zenon DEF LandAndFindCase, Found

(* An inserted case is new, a flushed one is the one loaded.               *)
LEMMA InsertAndFlushAlone ==
  ASSUME IInv, Apart, TimelinesLoaded, NEW r \in Requests, InsertCase(r) \/ FlushCase(r)
  PROVE  Apart' /\ TimelinesLoaded'
<1>1. Active(tx[r]) /\ UNCHANGED cases
  BY DEF InsertCase, FlushCase, Active, Waiting, tables
<1>2. CASE FlushCase(r)
  <2>1. PICK t : t = [tx[r] EXCEPT !.at = "flushed"]
    OBVIOUS
  <2>2. /\ tx' = [tx EXCEPT ![r] = t] /\ t \in TxType /\ t.cluster = tx[r].cluster
        /\ t.case = tx[r].case /\ t.loaded = tx[r].loaded
    BY <1>2, <2>1, RequestFacts DEF FlushCase, TxType
  <2> QED  BY <1>1, <2>2, StayAlone
<1>3. CASE InsertCase(r)
  <2>1. PICK n : n = issued + 1
    OBVIOUS
  <2>2. n \in CaseIds /\ \A q \in Requests : tx[q].case # n
    BY <1>3, <2>1, CaseAssumption, RequestFacts DEF InsertCase, IInv, TypeOK, CaseIds
  <2>3. PICK t : t = [tx[r] EXCEPT !.at = "flushed", !.case = n]
    OBVIOUS
  <2>4. /\ tx' = [tx EXCEPT ![r] = t] /\ t \in TxType /\ t.cluster = tx[r].cluster /\ t.case = n
        /\ t.loaded = tx[r].loaded
    BY <1>3, <2>1, <2>2, <2>3, RequestFacts DEF InsertCase, TxType
  <2>5. ~HasLoaded(t)
    BY <1>3, <2>4, RequestFacts DEF InsertCase, WellFormed, HasLoaded
  <2>6. \A q \in Requests \ {r} : Active(tx[q]) =>
          (tx[q].cluster = t.cluster => t.cluster = "none")
    BY <1>1, <2>4 DEF Apart
  <2> QED  BY <1>1, <2>2, <2>4, <2>5, <2>6, MoveAlone
<1> QED  BY <1>2, <1>3

(* A commit changes the one row that no other request has loaded.          *)
LEMMA CommitAlone ==
  ASSUME IInv, Apart, TimelinesLoaded, NEW r \in Requests, CommitUpsert(r) \/ Commit(r)
  PROVE  Apart' /\ TimelinesLoaded'
<1>1. tx[r].at = "flushed" /\ Active(tx[r]) /\ Ends(r)
      /\ cases' = [cases EXCEPT ![tx[r].case] = Written(r)]
  BY DEF CommitUpsert, Commit, Active
<1>0. PICK op : op = tx[r].op
  OBVIOUS
<1>2. PICK t : t = [Idle EXCEPT !.op = op, !.at = "ok"]
  OBVIOUS
<1>3. t.at = "ok" /\ t.loaded = NoCase /\ tx' = [tx EXCEPT ![r] = t]
  BY <1>0, <1>1, <1>2, RestIsTyped DEF Ends, TxType
<1>4. ~Active(t) /\ ~HasLoaded(t)
  BY <1>3 DEF Active, HasLoaded, Waiting
<1>5. \A q \in Requests : tx'[q] = IF q = r THEN t ELSE tx[q]
  BY <1>3 DEF IInv, TypeOK
<1>6. Apart'
  BY <1>4, <1>5 DEF Apart, Active
<1>7. ASSUME NEW q \in Requests, HasLoaded(tx'[q])
      PROVE  tx'[q].loaded.timeline = cases'[tx'[q].case].timeline
  <2>1. q # r /\ tx'[q] = tx[q] /\ HasLoaded(tx[q])
    BY <1>4, <1>5, <1>7
  <2>2. Active(tx[q]) /\ tx[q].case \in CaseIds /\ tx[q].case # 0
    BY <2>1, LoadedIsActive, RequestFacts DEF WellFormed
  <2>3. tx[q].case # tx[r].case
    BY <1>1, <2>1, <2>2 DEF Apart
  <2>4. cases'[tx[q].case] = cases[tx[q].case]
    BY <1>1, <2>2, <2>3 DEF IInv, TypeOK
  <2> QED  BY <2>1, <2>4 DEF TimelinesLoaded
<1>8. TimelinesLoaded'
  BY <1>7 DEF TimelinesLoaded, HasLoaded
<1> QED  BY <1>6, <1>8

(* overlapped is never reset.                                               *)
LEMMA OverlapStays ==
  ASSUME [Next]_vars, ~overlapped'
  PROVE  ~overlapped
<1>1. ASSUME NEW r \in Requests, Upsert(r) PROVE ~overlapped
  BY <1>1, Zenon DEF Upsert, Overlap
<1>2. ASSUME NEW r \in Requests, CreateCase(r) PROVE ~overlapped
  BY <1>2, Zenon DEF CreateCase, Overlap
<1>3. ASSUME NEW r \in Requests, Edit(r) PROVE ~overlapped
  BY <1>3, Zenon DEF Edit, Overlap
<1>4. ASSUME NEW r \in Requests, LandAndFindCase(r) PROVE ~overlapped
  BY <1>4, ReadsWriteNothing
<1>5. ASSUME NEW r \in Requests, InsertCase(r) \/ FlushCase(r) \/ CommitUpsert(r) \/ Commit(r)
      PROVE  ~overlapped
  BY <1>5, Zenon DEF InsertCase, FlushCase, CommitUpsert, Commit
<1>6. ASSUME NEW r \in Requests, Abort(r) PROVE ~overlapped
  BY <1>6, Zenon DEF Abort, Answer
<1>7. CASE UNCHANGED vars
  BY <1>7 DEF vars
<1> QED  BY <1>1, <1>2, <1>3, <1>4, <1>5, <1>6, <1>7, Zenon DEF Next, Proceed

(* Nobody is active at the start.                                          *)
LEMMA InitAlone == Init => Alone
BY RestIsTyped DEF Init, Alone, Apart, TimelinesLoaded, HasLoaded, Active, Waiting

(* Every step keeps Alone, given the invariant above.                      *)
LEMMA AloneIsKept == IInv /\ Alone /\ [Next]_vars => Alone'
<1> SUFFICES ASSUME IInv, Alone, [Next]_vars, ~overlapped' PROVE Apart' /\ TimelinesLoaded'
  BY DEF Alone
<1>1. ~overlapped
  BY OverlapStays
<1>2. Apart /\ TimelinesLoaded
  BY <1>1 DEF Alone
<1>3. ASSUME NEW r \in Requests, Abort(r) PROVE Apart' /\ TimelinesLoaded'
  <2>1. tx' = [tx EXCEPT ![r] = [Idle EXCEPT !.op = tx[r].op, !.at = "failed"]]
    BY <1>3, Zenon DEF Abort, Answer
  <2>2. "failed" \in Answers /\ UNCHANGED cases
    BY <1>3 DEF Abort, Answer, Answers, tables
  <2> QED  BY <1>2, <2>1, <2>2, AnswerAlone, Zenon
<1>4. CASE UNCHANGED vars
  BY <1>2, <1>4 DEF vars, Apart, TimelinesLoaded
<1> QED
  BY <1>2, <1>3, <1>4, ArriveAlone, LandAndFindCaseAlone, InsertAndFlushAlone, CommitAlone
     DEF Next, Proceed

(* No commit lowers the risk of a case, takes an alert off its list or adds *)
(* one to a list a client gave; and until two requests are open for one     *)
(* case at once, none drops an entry of its timeline.                       *)
THEOREM NothingEverLost == Spec => NothingLost
<1>1. ASSUME IInv, Alone, Next PROVE RiskKept /\ ListsKept /\ (~overlapped => TimelineKept)
  <2>1. \A id \in CaseIds : cases[id].risk \in Nat
    <3>1. Scores \cup {0} \subseteq Nat /\ \A id \in CaseIds : cases[id].risk \in Scores \cup {0}
      BY <1>1, CaseAssumption DEF IInv, TypeOK, CaseRow
    <3> QED  BY <3>1
  <2>2. CASE UNCHANGED cases
    BY <2>1, <2>2 DEF RiskKept, ListsKept, TimelineKept
  <2>3. ASSUME NEW r \in Requests, tx[r].at = "flushed",
               cases' = [cases EXCEPT ![tx[r].case] = Written(r)]
        PROVE  RiskKept /\ ListsKept /\ (~overlapped => TimelineKept)
    <3>1. PICK id \in CaseIds, row \in CaseRow :
            /\ id = tx[r].case /\ row = Written(r)
            /\ row.timeline = tx[r].loaded.timeline \cup {r}
            /\ Exists(id) <=> HasLoaded(tx[r])
            /\ ~Exists(id) => cases[id] = NoCase
            /\ Exists(id) => cases[id].cluster = tx[r].cluster
            /\ tx[r].op # "upsert" =>
                 row.risk = cases[id].risk /\ (Exists(id) => row.alerts = cases[id].alerts)
            /\ tx[r].op = "upsert" =>
                 row.risk >= cases[id].risk /\ cases[id].alerts \subseteq row.alerts
      BY <1>1, <2>3, WrittenIsRow
    <3>2. \A k \in CaseIds : cases'[k] = IF k = id THEN row ELSE cases[k]
      BY <1>1, <2>3, <3>1 DEF IInv, TypeOK
    <3>3. RiskKept
      BY <2>1, <3>1, <3>2 DEF RiskKept
    <3>4. ~overlapped => cases[id].timeline \subseteq row.timeline
      BY <1>1, <3>1, NoCaseIsRow DEF Alone, TimelinesLoaded
    <3>5. ~overlapped => TimelineKept
      BY <3>2, <3>4 DEF TimelineKept
    <3>6. tx[r].op = "upsert" => tx[r].cluster # "none"
      <4>1. tx[r].op = "upsert" => tx[r].alert \in Alerts /\ tx[r].cluster = Cluster[tx[r].alert]
        BY <1>1, <2>3, RequestFacts DEF WellFormed, Active
      <4> QED  BY <4>1, CaseAssumption
    <3>7. ListsKept
      BY <3>1, <3>2, <3>6 DEF ListsKept
    <3> QED  BY <3>3, <3>5, <3>7
  <2> QED  BY <1>1, <2>2, <2>3, OnlyCommitsWrite
<1>2. ASSUME IInv, Alone, [Next]_vars PROVE [RiskKept /\ ListsKept /\ (~overlapped => TimelineKept)]_vars
  BY <1>1, <1>2
<1> QED
  BY <1>2, InitInv, Inductive, InitAlone, AloneIsKept, PTL DEF Spec, NothingLost
=============================================================================
