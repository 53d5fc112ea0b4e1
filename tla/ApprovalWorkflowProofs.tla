----------------------- MODULE ApprovalWorkflowProofs -----------------------
(***************************************************************************)
(* The approval gate, for every set of requests, actions and cases, however *)
(* many are served at the same time.                                        *)
(***************************************************************************)
EXTENDS ApprovalWorkflow, TLAPS

Approved(id) == \E i \in DOMAIN decided : Approves(decided[i], id)

(* What a request writes to the audit sink when it flushes                  *)
Mirror(t) ==
  CASE t.op = "submit"   -> t.decision
    [] t.op = "create"   -> "approval_requested"
    [] t.op = "execute"  -> "action_executed_dry_run"
    [] t.op = "rollback" -> "action_rolled_back"

-----------------------------------------------------------------------------
(* The inductive invariant.  A request is where its operation takes it, with*)
(* arguments the gate let through.                                          *)
WellFormed(t) ==
  /\ t.at = "creating" => t.op \in {"submit", "create"} /\ t.approval = 0
  /\ t.at \in {"deciding", "marking"} => t.op = "submit"
  /\ t.at = "executing" => t.op = "execute"
  /\ t.at \in {"finding", "reversing"} => t.op = "rollback"
  /\ t.at = "flushed" => t.op \in {"submit", "create", "execute", "rollback"}
  /\ t.at \in {"deciding", "executing", "finding", "reversing", "flushed", "marking"} =>
       t.approval # 0
  /\ t.op \in {"submit", "create"} =>
       t.action \in Actions /\ t.case \in Cases /\ t.filing \in Filing
  /\ t.op = "submit" =>
       /\ t.decision \in Decisions /\ t.role \in Roles
       /\ ~Forbidden(Recommended(t.action).disruptive, t.decision, t.role)

(* What it read still holds, as far as it depends on it.                    *)
Backed(r, t) ==
  /\ t.op \in {"execute", "rollback"} => t.approval # 0 /\ Exists(t.approval)
  /\ t.op = "execute" => Approved(t.approval)
  /\ t.op = "rollback" /\ t.at # "finding" => Executed(t.approval)
  /\ t.op \in {"submit", "create"} /\ t.approval # 0 /\ Exists(t.approval) =>
       /\ approvals[t.approval].action = t.action /\ approvals[t.approval].case = t.case
       /\ approvals[t.approval].filing = t.filing
  /\ t.op = "create" /\ t.at = "flushed" => ~Exists(t.approval)
  /\ t.at \in {"flushed", "marking"} => <<r, Mirror(t)>> \in announced

Grounded == \A r \in Requests : WellFormed(tx[r]) /\ Backed(r, tx[r])

(* A row that is not committed is known to the request that inserted it only*)
Numbered ==
  /\ \A id \in ApprovalIds : Exists(id) => id <= issued
  /\ \A r \in Requests : tx[r].approval <= issued
  /\ \A q, r \in Requests :
       tx[q].approval = tx[r].approval /\ tx[r].approval # 0 /\ ~Exists(tx[r].approval) => q = r

Recorded ==
  /\ \A id \in ApprovalIds : approvals[id].status = "approved" => Approved(id)
  /\ \A e \in executions :
       Approved(e.approval) /\ <<e.request, "action_executed_dry_run">> \in announced
  /\ \A b \in rollbacks :
       Executed(b.approval) /\ <<b.request, "action_rolled_back">> \in announced
  /\ \A id \in ApprovalIds : approvals[id].status = "rolled_back" =>
       /\ approvals[id].filing.class \in Reversible
       /\ \E b \in rollbacks : b.approval = id /\ b.status = "success"
  /\ \A i \in DOMAIN decided : \E r \in Requests : <<r, decided[i].decision>> \in announced

(* What was decided and what was run is what the row was filed with.        *)
AsFiled ==
  /\ \A id \in ApprovalIds : Exists(id) => approvals[id].filing \in Filing
  /\ \A i \in DOMAIN decided :
       /\ Exists(decided[i].approval)
       /\ decided[i].action = approvals[decided[i].approval].action
  /\ \A e \in executions :
       Exists(e.approval) /\ e.class = approvals[e.approval].filing.class

IInv == TypeOK /\ Grounded /\ Numbered /\ Recorded /\ AsFiled

-----------------------------------------------------------------------------
RegistryType == [Actions -> Decisions \cup {"unknown", "pending", "auto_applied_dry_run"}]

(* An answered request has nothing left to read or write.                  *)
LEMMA DoneIsWellFormed ==
  ASSUME NEW answer \in Answers
  PROVE  /\ Done(answer) \in TxType /\ WellFormed(Done(answer))
         /\ Done(answer).approval = 0 /\ Done(answer).op = "none" /\ Done(answer).at = answer
<1>1. MaxApprovals \in Nat
  BY WorkflowAssumption
<1>2. 0 \in Ids
  BY <1>1 DEF Ids
<1> QED
  BY <1>2 DEF Done, Idle, NoFiling, TxType, FilingType, Operations, Places, Answers, Waiting, Statuses, Decisions, Roles,
              WellFormed

(* A request that moves on while the tables stay as they are                *)
LEMMA MoveInv ==
  ASSUME IInv, NEW r \in Requests, NEW t \in TxType,
         tx' = [tx EXCEPT ![r] = t], UNCHANGED tables,
         announced \subseteq announced', announced' \in SUBSET (Requests \X Events),
         registry' \in RegistryType, overlapped' \in BOOLEAN,
         WellFormed(t), Backed(r, t)',
         t.approval = tx[r].approval \/ t.approval = 0 \/ Exists(t.approval)
  PROVE  IInv'
<1>1. TypeOK'
  BY DEF IInv, TypeOK, tables, RegistryType
<1>2. \A q \in Requests : tx'[q] = IF q = r THEN t ELSE tx[q]
  BY DEF IInv, TypeOK
<1>3. Grounded'
  <2>1. ASSUME NEW q \in Requests, q # r PROVE WellFormed(tx'[q])
    BY <1>2, <2>1 DEF IInv, Grounded
  <2>2. ASSUME NEW q \in Requests, q # r PROVE Backed(q, tx[q])'
    BY <1>2, <2>2 DEF IInv, Grounded, Backed, tables, Exists, Approved, Executed
  <2>3. WellFormed(tx'[r]) /\ Backed(r, tx[r])'
    BY <1>2 DEF Backed, Exists, Approved, Executed
  <2> QED  BY <2>1, <2>2, <2>3 DEF Grounded
<1>4. Numbered'
  BY <1>2 DEF IInv, TypeOK, Numbered, Exists, tables, ApprovalIds, TxType, Ids
<1>5. Recorded'
  BY DEF IInv, Recorded, Approved, Executed, tables
<1>6. AsFiled'
  BY DEF IInv, AsFiled, Exists, tables
<1> QED  BY <1>1, <1>3, <1>4, <1>5, <1>6 DEF IInv

(* Answering ends the request and touches no table.                        *)
LEMMA AnswerInv ==
  ASSUME IInv, NEW r \in Requests, NEW answer \in Answers, Answer(r, answer),
         overlapped' \in BOOLEAN
  PROVE  IInv'
<1>1. PICK t : t = Done(answer)
  OBVIOUS
<1>2. /\ tx' = [tx EXCEPT ![r] = t] /\ UNCHANGED <<tables, announced, registry>>
      /\ t \in TxType /\ WellFormed(t) /\ t.approval = 0 /\ t.op = "none" /\ t.at \in Answers
  BY <1>1, DoneIsWellFormed DEF Answer
<1>3. Backed(r, t)'
  BY <1>2 DEF Backed, Answers
<1>4. announced' \in SUBSET (Requests \X Events) /\ registry' \in RegistryType
  BY <1>2 DEF IInv, TypeOK, RegistryType
<1> QED  BY <1>2, <1>3, <1>4, MoveInv

-----------------------------------------------------------------------------
(* Requests that arrive: the records they start from keep their types.      *)
LEMMA IdleIsWellFormed ==
  /\ Idle \in TxType /\ Idle.op = "none" /\ Idle.at = "idle" /\ Idle.approval = 0
<1>1. MaxApprovals \in Nat
  BY WorkflowAssumption
<1>2. 0 \in Ids
  BY <1>1 DEF Ids
<1> QED  BY <1>2 DEF Idle, NoFiling, TxType, FilingType, Operations, Places, Answers, Waiting, Statuses,
              Decisions, Roles

(* What an arriving request has read is so while no other step is taken.    *)
JustRead(t) ==
  /\ t.at = "deciding" => approvals[t.approval].status = "pending"
  /\ t.op = "execute" => approvals[t.approval].status = "approved"
  /\ t.op = "rollback" => t.seen = approvals[t.approval].status
  /\ t.at \notin {"flushed", "marking"}

Begins(r) ==
  \E t \in TxType :
    /\ tx' = [tx EXCEPT ![r] = t]
    /\ WellFormed(t) /\ Backed(r, t)' /\ JustRead(t)
    /\ t.approval = 0 \/ Exists(t.approval)
    /\ UNCHANGED <<tables, announced, registry>>

(* Whatever the operation, an arriving request starts from what it read.   *)
LEMMA Arrival ==
  ASSUME IInv, NEW r \in Requests, Arrive(r)
  PROVE  Begins(r)
<1>0. MaxApprovals \in Nat
  BY WorkflowAssumption
<1>1. UNCHANGED <<tables, announced, registry>>
  BY DEF Arrive, SubmitRefused, Submit, Create, Decide, Execute, Rollback, Answer
<1>2. ASSUME NEW t \in TxType, WellFormed(t), Backed(r, t)', JustRead(t),
             t.approval = 0 \/ Exists(t.approval), tx' = [tx EXCEPT ![r] = t]
      PROVE  Begins(r)
  BY <1>1, <1>2 DEF Begins
<1>3. ASSUME NEW answer \in Answers, tx' = [tx EXCEPT ![r] = Done(answer)] PROVE Begins(r)
  <2>1. PICK t : t = Done(answer)
    OBVIOUS
  <2>2. t \in TxType /\ WellFormed(t) /\ t.approval = 0 /\ t.op = "none" /\ t.at \in Answers
    BY <2>1, DoneIsWellFormed
  <2>3. Backed(r, t)' /\ JustRead(t)
    BY <2>2 DEF Backed, JustRead, Answers
  <2> QED  BY <1>2, <1>3, <2>1, <2>2, <2>3
<1>4. CASE SubmitRefused(r)
  BY <1>4, <1>3 DEF SubmitRefused, Answer, Answers
<1>5. CASE Submit(r)
  <2>0. PICK a \in Actions, c \in Cases, d \in Decisions, role \in Roles :
          /\ registry[a] # "unknown"
          /\ ~Forbidden(Recommended(a).disruptive, d, role)
          /\ \/ /\ Matches(a, c) = {}
                /\ tx' = [tx EXCEPT ![r] =
                            [Filed(a, c, d, role, Recommended(a)) EXCEPT !.at = "creating"]]
             \/ \E id \in ApprovalIds :
                  /\ IsNewest(id, Matches(a, c))
                  /\ tx' = [tx EXCEPT ![r] =
                              IF approvals[id].status = "pending"
                              THEN [Filed(a, c, d, role, approvals[id].filing) EXCEPT
                                      !.at = "deciding", !.approval = id]
                              ELSE Done("ok")]
    BY <1>5 DEF Submit
  <2>1. \/ tx' = [tx EXCEPT ![r] =
                    [Filed(a, c, d, role, Recommended(a)) EXCEPT !.at = "creating"]]
        \/ \E id \in Matches(a, c) :
             tx' = [tx EXCEPT ![r] = IF approvals[id].status = "pending"
                                     THEN [Filed(a, c, d, role, approvals[id].filing) EXCEPT
                                             !.at = "deciding", !.approval = id]
                                     ELSE Done("ok")]
    BY <2>0 DEF IsNewest
  <2>2. ASSUME NEW filing \in Filing, NEW new, new = Filed(a, c, d, role, filing)
        PROVE  /\ new \in TxType /\ new.op = "submit" /\ new.approval = 0
               /\ new.action = a /\ new.case = c /\ new.decision = d /\ new.role = role
               /\ new.filing = filing
    <3>1. "submit" \in Operations /\ filing \in FilingType
      BY DEF Operations, FilingType
    <3> QED  BY <2>2, <3>1, IdleIsWellFormed DEF TxType, Filed
  <2>3. CASE tx' = [tx EXCEPT ![r] = Done("ok")]
    BY <2>3, <1>3 DEF Answers
  <2>4. CASE tx' = [tx EXCEPT ![r] =
                     [Filed(a, c, d, role, Recommended(a)) EXCEPT !.at = "creating"]]
    <3>0. PICK new, filing : new = Filed(a, c, d, role, filing) /\ filing = Recommended(a)
      OBVIOUS
    <3>1. PICK t : t = [new EXCEPT !.at = "creating"]
      OBVIOUS
    <3>5. filing \in Filing
      BY <3>0, WorkflowAssumption DEF Recommended, Filing
    <3>2. /\ t \in TxType /\ t.op = "submit" /\ t.at = "creating" /\ t.approval = 0
          /\ t.action = a /\ t.case = c /\ t.decision = d /\ t.role = role
          /\ t.filing \in Filing
      <4>1. "creating" \in Places
        BY DEF Places, Waiting
      <4> QED  BY <2>2, <3>0, <3>1, <3>5, <4>1 DEF TxType
    <3>3. WellFormed(t)
      BY <2>0, <3>2 DEF WellFormed
    <3>4. Backed(r, t)' /\ JustRead(t)
      BY <3>2 DEF Backed, JustRead
    <3> QED  BY <1>2, <2>4, <3>0, <3>1, <3>2, <3>3, <3>4
  <2>5. ASSUME NEW id \in Matches(a, c), approvals[id].status = "pending",
               tx' = [tx EXCEPT ![r] = [Filed(a, c, d, role, approvals[id].filing) EXCEPT
                                          !.at = "deciding", !.approval = id]]
        PROVE  Begins(r)
    <3>0. PICK new, filing : new = Filed(a, c, d, role, filing) /\ filing = approvals[id].filing
      OBVIOUS
    <3>1. id \in ApprovalIds /\ id \in Ids /\ id # 0 /\ Exists(id)
          /\ approvals[id].action = a /\ approvals[id].case = c
      BY <1>0 DEF Matches, ApprovalIds, Ids
    <3>2. PICK t : t = [new EXCEPT !.at = "deciding", !.approval = id]
      OBVIOUS
    <3>6. filing \in Filing
      BY <3>0, <3>1 DEF IInv, AsFiled
    <3>3. /\ t \in TxType /\ t.op = "submit" /\ t.at = "deciding" /\ t.approval = id
          /\ t.action = a /\ t.case = c /\ t.decision = d /\ t.role = role
          /\ t.filing = filing
      <4>1. "deciding" \in Places
        BY DEF Places, Waiting
      <4>2. /\ new \in TxType /\ new.op = "submit" /\ new.filing = filing
            /\ new.action = a /\ new.case = c /\ new.decision = d /\ new.role = role
        BY <2>2, <3>0, <3>6
      <4> QED  BY <3>1, <3>2, <4>1, <4>2 DEF TxType
    <3>4. WellFormed(t)
      BY <2>0, <3>1, <3>3, <3>6 DEF WellFormed
    <3>5. Backed(r, t)' /\ JustRead(t)
      BY <1>1, <2>5, <3>0, <3>1, <3>3 DEF Backed, tables, Exists, JustRead
    <3> QED  BY <1>2, <2>5, <3>0, <3>1, <3>2, <3>3, <3>4, <3>5
  <2> QED  BY <2>1, <2>3, <2>4, <2>5
<1>6. CASE Create(r)
  <2>0. PICK a \in Actions, c \in Cases, filing \in Filings :
          tx' = [tx EXCEPT ![r] = [Idle EXCEPT !.op = "create", !.at = "creating",
                                               !.action = a, !.case = c, !.filing = filing]]
    BY <1>6 DEF Create
  <2>1. PICK t :
          /\ t = [Idle EXCEPT !.op = "create", !.at = "creating", !.action = a, !.case = c,
                               !.filing = filing]
          /\ tx' = [tx EXCEPT ![r] = t]
    BY <2>0
  <2>2. /\ t \in TxType /\ t.op = "create" /\ t.at = "creating" /\ t.approval = 0
        /\ t.action = a /\ t.case = c /\ t.filing \in Filing
    <3>1. "create" \in Operations /\ "creating" \in Places
      BY DEF Operations, Places, Waiting
    <3>2. filing \in Filing /\ filing \in FilingType
      BY WorkflowAssumption DEF FilingType
    <3> QED  BY <2>1, <3>1, <3>2, IdleIsWellFormed DEF TxType
  <2>3. WellFormed(t)
    BY <2>2 DEF WellFormed
  <2>4. Backed(r, t)' /\ JustRead(t)
    BY <2>2 DEF Backed, JustRead
  <2> QED  BY <1>2, <2>1, <2>2, <2>3, <2>4
<1>7. ASSUME NEW id \in ApprovalIds, NEW seen \in Statuses, NEW t, Exists(id),
             \/ t = [Done("error") EXCEPT !.op = "decide", !.approval = id]
             \/ /\ t = [Idle EXCEPT !.op = "execute", !.at = "executing", !.approval = id]
                /\ approvals[id].status = "approved"
             \/ t = [Idle EXCEPT !.op = "rollback", !.at = "finding", !.approval = id, !.seen = seen]
                /\ seen = approvals[id].status,
             tx' = [tx EXCEPT ![r] = t]
      PROVE  Begins(r)
  <2>1. id \in Ids /\ id # 0
    BY <1>0 DEF Ids, ApprovalIds
  <2>2. /\ t \in TxType /\ t.approval = id
        /\ \/ t.op = "decide" /\ t.at = "error"
           \/ t.op = "execute" /\ t.at = "executing" /\ approvals[id].status = "approved"
           \/ t.op = "rollback" /\ t.at = "finding" /\ t.seen = approvals[id].status
    <3>2. CASE /\ t = [Idle EXCEPT !.op = "execute", !.at = "executing", !.approval = id]
               /\ approvals[id].status = "approved"
      <4>1. "execute" \in Operations /\ "executing" \in Places
        BY DEF Operations, Places, Waiting
      <4> QED  BY <2>1, <3>2, <4>1, IdleIsWellFormed DEF TxType
    <3>3. CASE t = [Done("error") EXCEPT !.op = "decide", !.approval = id]
      <4>1. Done("error") \in TxType /\ Done("error").at = "error" /\ "decide" \in Operations
        BY DoneIsWellFormed DEF Answers, Operations
      <4> QED  BY <2>1, <3>3, <4>1 DEF TxType
    <3>4. CASE /\ t = [Idle EXCEPT !.op = "rollback", !.at = "finding", !.approval = id, !.seen = seen]
               /\ seen = approvals[id].status
      <4>1. "rollback" \in Operations /\ "finding" \in Places
        BY DEF Operations, Places, Waiting
      <4> QED  BY <2>1, <3>4, <4>1, IdleIsWellFormed DEF TxType
    <3> QED  BY <1>7, <3>2, <3>3, <3>4
  <2>3. WellFormed(t)
    BY <2>1, <2>2 DEF WellFormed
  <2>4. approvals[id].status = "approved" => Approved(id)
    BY DEF IInv, Recorded
  <2>5. Backed(r, t)' /\ JustRead(t)
    BY <1>1, <1>7, <2>1, <2>2, <2>4 DEF Backed, tables, Exists, Approved, JustRead
  <2> QED  BY <1>2, <1>7, <2>2, <2>3, <2>5
<1>8. CASE Decide(r)
  <2>1. PICK id \in ApprovalIds, d \in Decisions, role \in Roles :
          tx' = [tx EXCEPT ![r] =
                   IF ~Exists(id) \/ Forbidden(approvals[id].filing.disruptive, d, role)
                   THEN Done("failed")
                   ELSE [Done("error") EXCEPT !.op = "decide", !.approval = id]]
    BY <1>8 DEF Decide
  <2>2. CASE tx' = [tx EXCEPT ![r] = Done("failed")]
    BY <2>2, <1>3 DEF Answers
  <2>3. CASE Exists(id) /\ tx' = [tx EXCEPT ![r] = [Done("error") EXCEPT !.op = "decide", !.approval = id]]
    <3>1. PICK t : t = [Done("error") EXCEPT !.op = "decide", !.approval = id]
      OBVIOUS
    <3>2. PICK seen \in Statuses : TRUE
      BY DEF Statuses
    <3> QED  BY <1>7, <2>3, <3>1, <3>2
  <2> QED  BY <2>1, <2>2, <2>3
<1>9. CASE Execute(r)
  <2>1. PICK id \in ApprovalIds :
          tx' = [tx EXCEPT ![r] =
                   IF Exists(id) /\ approvals[id].status = "approved"
                   THEN [Idle EXCEPT !.op = "execute", !.at = "executing", !.approval = id]
                   ELSE Done("failed")]
    BY <1>9 DEF Execute, Executable
  <2>2. CASE tx' = [tx EXCEPT ![r] = Done("failed")]
    BY <2>2, <1>3 DEF Answers
  <2>3. CASE /\ Exists(id) /\ approvals[id].status = "approved"
             /\ tx' = [tx EXCEPT ![r] = [Idle EXCEPT !.op = "execute", !.at = "executing", !.approval = id]]
    <3>1. PICK t :
            t = [Idle EXCEPT !.op = "execute", !.at = "executing", !.approval = id]
      OBVIOUS
    <3>2. PICK seen \in Statuses : TRUE
      BY DEF Statuses
    <3> QED  BY <1>7, <2>3, <3>1, <3>2
  <2> QED  BY <2>1, <2>2, <2>3
<1>10. CASE Rollback(r)
  <2>0. PICK id \in ApprovalIds :
          tx' = [tx EXCEPT ![r] =
                   IF Exists(id)
                   THEN [Idle EXCEPT !.op = "rollback", !.at = "finding", !.approval = id,
                                     !.seen = approvals[id].status]
                   ELSE Done("failed")]
    BY <1>10 DEF Rollback
  <2>1. PICK seen :
          /\ seen = approvals[id].status
          /\ tx' = [tx EXCEPT ![r] =
                      IF Exists(id)
                      THEN [Idle EXCEPT !.op = "rollback", !.at = "finding", !.approval = id,
                                        !.seen = seen]
                      ELSE Done("failed")]
    BY <2>0
  <2>2. CASE tx' = [tx EXCEPT ![r] = Done("failed")]
    BY <2>2, <1>3 DEF Answers
  <2>3. CASE /\ Exists(id)
             /\ tx' = [tx EXCEPT ![r] = [Idle EXCEPT !.op = "rollback", !.at = "finding",
                                           !.approval = id, !.seen = seen]]
    <3>1. seen \in Statuses
      BY <2>1 DEF IInv, TypeOK
    <3>2. PICK t : t = [Idle EXCEPT !.op = "rollback", !.at = "finding", !.approval = id, !.seen = seen]
      OBVIOUS
    <3> QED  BY <1>7, <2>1, <2>3, <3>1, <3>2
  <2> QED  BY <2>1, <2>2, <2>3
<1> QED  BY <1>4, <1>5, <1>6, <1>8, <1>9, <1>10 DEF Arrive

(* Arrivals write nothing.                                                 *)
LEMMA ArriveInv ==
  ASSUME IInv, NEW r \in Requests, Arrive(r), overlapped' \in BOOLEAN
  PROVE  IInv'
<1>1. PICK t \in TxType :
        /\ tx' = [tx EXCEPT ![r] = t]
        /\ WellFormed(t) /\ Backed(r, t)'
        /\ t.approval = 0 \/ Exists(t.approval)
        /\ UNCHANGED <<tables, announced, registry>>
  BY Arrival DEF Begins
<1>2. announced' \in SUBSET (Requests \X Events) /\ registry' \in RegistryType
  BY <1>1 DEF IInv, TypeOK, RegistryType
<1> QED  BY <1>1, <1>2, MoveInv

-----------------------------------------------------------------------------
(* Requests that go on.  What holds of one in flight:                       *)
LEMMA InFlightFacts ==
  ASSUME IInv, NEW r \in Requests
  PROVE  /\ tx[r] \in TxType /\ WellFormed(tx[r]) /\ Backed(r, tx[r])
         /\ tx[r].approval \in Ids /\ tx[r].approval <= issued
         /\ tx[r].approval # 0 => tx[r].approval \in ApprovalIds
<1>1. MaxApprovals \in Nat
  BY WorkflowAssumption
<1> QED  BY <1>1 DEF IInv, TypeOK, Grounded, Numbered, TxType, Ids, ApprovalIds

(* A flush mirrors the transition it is about to commit.                   *)
LEMMA FlushInv ==
  ASSUME IInv, NEW r \in Requests, FlushDecision(r) \/ FlushExecution(r) \/ FlushRollback(r),
         overlapped' \in BOOLEAN
  PROVE  IInv'
<1>1. PICK t : t = [tx[r] EXCEPT !.at = "flushed"]
  OBVIOUS
<1>2. tx' = [tx EXCEPT ![r] = t] /\ UNCHANGED <<tables, registry>>
  BY <1>1 DEF FlushDecision, FlushExecution, FlushRollback
<1>3. /\ t \in TxType /\ t.at = "flushed" /\ t.op = tx[r].op /\ t.approval = tx[r].approval
      /\ t.action = tx[r].action /\ t.case = tx[r].case
      /\ t.decision = tx[r].decision /\ t.role = tx[r].role /\ t.filing = tx[r].filing
  <2>1. "flushed" \in Places
    BY DEF Places
  <2> QED  BY <1>1, <2>1, InFlightFacts DEF TxType
<1>4. /\ tx[r].at \in {"deciding", "executing", "reversing"}
      /\ t.op \in {"submit", "execute", "rollback"}
      /\ announced' = announced \cup {<<r, Mirror(t)>>} /\ Mirror(t) \in Events
  <2>1. CASE FlushDecision(r)
    <3>1. tx[r].at = "deciding" /\ announced' = announced \cup {<<r, tx[r].decision>>}
      BY <2>1 DEF FlushDecision, Announce
    <3>2. tx[r].op = "submit" /\ tx[r].decision \in Decisions
      BY <3>1, InFlightFacts DEF WellFormed
    <3> QED  BY <1>3, <3>1, <3>2 DEF Mirror, Events
  <2>2. CASE FlushExecution(r)
    <3>1. tx[r].at = "executing" /\ announced' = announced \cup {<<r, "action_executed_dry_run">>}
      BY <2>2 DEF FlushExecution, Announce
    <3>2. tx[r].op = "execute"
      BY <3>1, InFlightFacts DEF WellFormed
    <3> QED  BY <1>3, <3>1, <3>2 DEF Mirror, Events
  <2>3. CASE FlushRollback(r)
    <3>1. tx[r].at = "reversing" /\ announced' = announced \cup {<<r, "action_rolled_back">>}
      BY <2>3 DEF FlushRollback, Announce
    <3>2. tx[r].op = "rollback"
      BY <3>1, InFlightFacts DEF WellFormed
    <3> QED  BY <1>3, <3>1, <3>2 DEF Mirror, Events
  <2> QED  BY <2>1, <2>2, <2>3
<1>5. WellFormed(t)
  BY <1>3, <1>4, InFlightFacts DEF WellFormed
<1>6. Backed(r, t)'
  <2>1. <<r, Mirror(t)>> \in announced'
    BY <1>4
  <2> QED  BY <1>2, <1>3, <1>4, <2>1, InFlightFacts DEF Backed, tables, Exists, Approved, Executed
<1>7. announced' \in SUBSET (Requests \X Events) /\ registry' \in RegistryType
  BY <1>2, <1>4 DEF IInv, TypeOK, RegistryType
<1> QED  BY <1>2, <1>3, <1>4, <1>5, <1>6, <1>7, MoveInv

(* rollback_execution: an execution is found, or the request fails.        *)
LEMMA FindExecutionInv ==
  ASSUME IInv, NEW r \in Requests, FindExecution(r), overlapped' \in BOOLEAN
  PROVE  IInv'
<1>1. CASE Answer(r, "failed")
  BY <1>1, AnswerInv DEF Answers
<1>2. CASE Executed(tx[r].approval) /\ Reversing(r)
  <2>1. PICK t : t = [tx[r] EXCEPT !.at = "reversing"]
    OBVIOUS
  <2>2. tx' = [tx EXCEPT ![r] = t] /\ UNCHANGED <<tables, announced, registry>>
    BY <1>2, <2>1 DEF Reversing
  <2>3. /\ t \in TxType /\ t.at = "reversing" /\ t.op = tx[r].op /\ t.approval = tx[r].approval
        /\ t.action = tx[r].action /\ t.case = tx[r].case
        /\ t.decision = tx[r].decision /\ t.role = tx[r].role /\ t.filing = tx[r].filing
    <3>1. "reversing" \in Places
      BY DEF Places, Waiting
    <3> QED  BY <2>1, <3>1, InFlightFacts DEF TxType
  <2>4. tx[r].at = "finding" /\ t.op = "rollback"
    BY <2>3, InFlightFacts DEF FindExecution, WellFormed
  <2>5. WellFormed(t)
    BY <2>3, <2>4, InFlightFacts DEF WellFormed
  <2>6. Backed(r, t)'
    BY <1>2, <2>2, <2>3, <2>4, InFlightFacts DEF Backed, tables, Exists, Executed
  <2>7. announced' \in SUBSET (Requests \X Events) /\ registry' \in RegistryType
    BY <2>2 DEF IInv, TypeOK, RegistryType
  <2> QED  BY <2>2, <2>3, <2>5, <2>6, <2>7, MoveInv
<1> QED  BY <1>1, <1>2 DEF FindExecution

(* policy_store.mark_status, after the commit.                             *)
LEMMA MarkStatusInv ==
  ASSUME IInv, NEW r \in Requests, MarkStatus(r), overlapped' \in BOOLEAN
  PROVE  IInv'
<1>1. PICK t : t = Done("ok")
  OBVIOUS
<1>2. /\ tx' = [tx EXCEPT ![r] = t] /\ UNCHANGED <<tables, announced>>
      /\ t \in TxType /\ WellFormed(t) /\ t.approval = 0 /\ t.op = "none" /\ t.at = "ok"
  BY <1>1, DoneIsWellFormed DEF MarkStatus, AnswersOk, Answers
<1>3. Backed(r, t)'
  BY <1>2 DEF Backed
<1>4. tx[r].action \in Actions /\ tx[r].decision \in Decisions
  BY InFlightFacts DEF MarkStatus, WellFormed
<1>5. announced' \in SUBSET (Requests \X Events) /\ registry' \in RegistryType
  BY <1>2, <1>4 DEF IInv, TypeOK, RegistryType, MarkStatus
<1> QED  BY <1>2, <1>3, <1>5, MoveInv

(* create_approval: the number of the new row is nobody else's.            *)
LEMMA InsertPendingInv ==
  ASSUME IInv, NEW r \in Requests, InsertPending(r), overlapped' \in BOOLEAN
  PROVE  IInv'
<1>0. MaxApprovals \in Nat
  BY WorkflowAssumption
<1>1. PICK n : n = issued + 1
  OBVIOUS
<1>2. issued \in Nat /\ n \in Ids /\ n # 0 /\ n \in ApprovalIds /\ issued' = n
  BY <1>0, <1>1 DEF InsertPending, IInv, TypeOK, Ids, ApprovalIds
<1>3. ~Exists(n) /\ \A q \in Requests : tx[q].approval # n
  BY <1>1, <1>2 DEF IInv, Numbered
<1>4. PICK at \in {"deciding", "flushed"} :
        /\ at = IF tx[r].op = "submit" THEN "deciding" ELSE "flushed"
        /\ tx' = [tx EXCEPT ![r] = [tx[r] EXCEPT !.approval = n, !.at = at]]
  BY <1>1 DEF InsertPending
<1>5. PICK t : t = [tx[r] EXCEPT !.approval = n, !.at = at]
  OBVIOUS
<1>6. /\ t \in TxType /\ t.at = at /\ t.op = tx[r].op /\ t.approval = n
      /\ t.action = tx[r].action /\ t.case = tx[r].case
      /\ t.decision = tx[r].decision /\ t.role = tx[r].role /\ t.filing = tx[r].filing
  <2>1. at \in Places
    BY DEF Places, Waiting
  <2> QED  BY <1>2, <1>5, <2>1, InFlightFacts DEF TxType
<1>7. tx[r].at = "creating" /\ tx[r].op \in {"submit", "create"}
  BY InFlightFacts DEF InsertPending, WellFormed
<1>8. /\ announced' = announced \cup {<<r, "approval_requested">>}
      /\ UNCHANGED <<approvals, executions, rollbacks, decided, registry>>
  BY DEF InsertPending, Announce
<1>9. \A q \in Requests : tx'[q] = IF q = r THEN t ELSE tx[q]
  BY <1>4, <1>5 DEF IInv, TypeOK
<1>10. TypeOK'
  <2>1. tx' \in [Requests -> TxType]
    BY <1>4, <1>5, <1>6 DEF IInv, TypeOK
  <2>2. issued' \in Ids
    BY <1>2
  <2>3. "approval_requested" \in Events
    BY DEF Events
  <2> QED  BY <1>8, <2>1, <2>2, <2>3 DEF IInv, TypeOK
<1>11. Grounded'
  <2>1. ASSUME NEW q \in Requests, q # r PROVE WellFormed(tx'[q])
    BY <1>9, <2>1 DEF IInv, Grounded
  <2>2. ASSUME NEW q \in Requests, q # r PROVE Backed(q, tx[q])'
    BY <1>8, <1>9, <2>2 DEF IInv, Grounded, Backed, Exists, Approved, Executed
  <2>3. WellFormed(t)
    BY <1>2, <1>4, <1>6, <1>7, InFlightFacts DEF WellFormed
  <2>4. Backed(r, t)'
    <3>1. ~Exists(n)'
      BY <1>3, <1>8 DEF Exists
    <3>2. at = "flushed" => Mirror(t) = "approval_requested"
      BY <1>4, <1>6, <1>7 DEF Mirror
    <3>3. at = "flushed" => <<r, Mirror(t)>> \in announced'
      BY <1>8, <3>2
    <3> QED  BY <1>6, <1>7, <3>1, <3>3 DEF Backed
  <2>5. WellFormed(tx'[r]) /\ Backed(r, tx[r])'
    BY <1>9, <2>3, <2>4 DEF Backed, Exists, Approved, Executed
  <2> QED  BY <2>1, <2>2, <2>5 DEF Grounded
<1>12. Numbered'
  <2>1. \A id \in ApprovalIds : Exists(id)' <=> Exists(id)
    BY <1>8 DEF Exists
  <2>2. \A id \in ApprovalIds : Exists(id)' => id <= n
    BY <1>1, <1>2, <2>1 DEF IInv, Numbered, ApprovalIds
  <2>3. \A q \in Requests : tx'[q].approval <= n
    <3> TAKE q \in Requests
    <3>1. tx[q].approval \in Nat /\ tx[q].approval <= issued
      BY <1>0, InFlightFacts DEF Ids
    <3> QED  BY <1>1, <1>2, <1>6, <1>9, <3>1
  <2>4. ASSUME NEW p \in Requests, NEW q \in Requests, tx'[p].approval = tx'[q].approval,
               tx'[q].approval # 0, approvals'[tx'[q].approval].status = "absent"
        PROVE  p = q
    <3>1. CASE p = r \/ q = r
      BY <1>3, <1>6, <1>9, <2>4, <3>1
    <3>2. CASE p # r /\ q # r
      <4>1. tx[p].approval = tx[q].approval /\ tx[q].approval # 0 /\ tx[q].approval \in ApprovalIds
        BY <1>9, <2>4, <3>2, InFlightFacts
      <4>2. ~Exists(tx[q].approval)
        BY <1>8, <1>9, <2>4, <3>2, <4>1 DEF Exists
      <4> QED  BY <4>1, <4>2 DEF IInv, Numbered
    <3> QED  BY <3>1, <3>2
  <2>5. (\A id \in ApprovalIds : Exists(id) => id <= issued)'
    BY <1>2, <2>2
  <2> QED  BY <1>2, <2>3, <2>4, <2>5 DEF Numbered, Exists
<1>13. Recorded'
  BY <1>8 DEF IInv, Recorded, Approved, Executed
<1>14. AsFiled'
  BY <1>8 DEF IInv, AsFiled, Exists
<1> QED  BY <1>10, <1>11, <1>12, <1>13, <1>14 DEF IInv

-----------------------------------------------------------------------------
RowType == [status: Statuses, action: Actions \cup {"none"},
            case: Cases \cup {"none"}, filing: FilingType, decision: Decisions \cup {"none"}]
ExecutionType == [request: Requests, approval: ApprovalIds, class: Classes]

DecisionType == [approval: ApprovalIds, action: Actions, decision: Decisions, role: Roles]

(* What was decided keeps its type, one decision at a time.                 *)
LEMMA DecisionsAreTyped ==
  ASSUME IInv, NEW i \in DOMAIN decided
  PROVE  decided[i] \in DecisionType
<1>1. decided \in Seq(DecisionType)
  BY DEF IInv, TypeOK, DecisionType
<1> QED  BY <1>1

(* What a commit decides or runs is what its row was filed with.            *)
OnlyThisRow(id, row) ==
  /\ \A i \in DOMAIN decided' :
       \/ i \in DOMAIN decided /\ decided'[i] = decided[i]
       \/ decided'[i].approval = id /\ decided'[i].action = row.action
  /\ \A e \in executions' :
       e \in executions \/ (e.approval = id /\ e.class = row.filing.class)

(* A commit writes one row and ends its request or takes it on.             *)
LEMMA CommitInv ==
  ASSUME IInv, NEW r \in Requests, NEW t \in TxType, NEW id \in ApprovalIds, NEW row \in RowType,
         id = tx[r].approval, t.approval = 0 \/ t.approval = id, WellFormed(t), Backed(r, t)',
         row.status # "absent", row.filing \in Filing,
         Exists(id) => /\ row.action = approvals[id].action /\ row.case = approvals[id].case
                       /\ row.filing = approvals[id].filing,
         tx' = [tx EXCEPT ![r] = t], approvals' = [approvals EXCEPT ![id] = row],
         UNCHANGED <<issued, announced, registry>>, overlapped' \in BOOLEAN,
         executions \subseteq executions',
         executions' \in SUBSET ExecutionType,
         rollbacks' \in SUBSET [request: Requests, approval: ApprovalIds,
                                status: {"success", "unsupported"}],
         decided' \in Seq([approval: ApprovalIds, action: Actions, decision: Decisions, role: Roles]),
         \A k \in ApprovalIds : Approved(k) => Approved(k)',
         OnlyThisRow(id, row), Recorded'
  PROVE  IInv'
<1>0. MaxApprovals \in Nat
  BY WorkflowAssumption
<1>1. /\ \A q \in Requests : tx'[q] = IF q = r THEN t ELSE tx[q]
      /\ \A k \in ApprovalIds : approvals'[k] = IF k = id THEN row ELSE approvals[k]
  BY DEF IInv, TypeOK
<1>2. TypeOK'
  BY DEF IInv, TypeOK, RowType, ExecutionType
<1>3. \A k \in ApprovalIds : Exists(k)' <=> (k = id \/ Exists(k))
  BY <1>1 DEF Exists
<1>4. \A q \in Requests : tx[q].approval = id /\ q # r => Exists(id)
  BY <1>0 DEF IInv, Numbered, ApprovalIds
<1>5. Grounded'
  <2>1. ASSUME NEW q \in Requests, q # r PROVE WellFormed(tx'[q])
    BY <1>1, <2>1 DEF IInv, Grounded
  <2>2. ASSUME NEW q \in Requests, q # r PROVE Backed(q, tx[q])'
    <3>1. PICK u : u = tx[q]
      OBVIOUS
    <3>2. /\ WellFormed(u) /\ Backed(q, u) /\ (u.approval # 0 => u.approval \in ApprovalIds)
          /\ (u.approval = id => Exists(id)) /\ tx'[q] = u
      BY <1>1, <1>4, <2>2, <3>1, InFlightFacts
    <3>3. u.approval # 0 => (Exists(u.approval)' <=> Exists(u.approval))
      BY <1>3, <3>2
    <3>4. u.approval # 0 /\ Exists(u.approval) =>
            /\ approvals'[u.approval].action = approvals[u.approval].action
            /\ approvals'[u.approval].case = approvals[u.approval].case
            /\ approvals'[u.approval].filing = approvals[u.approval].filing
      BY <1>1, <3>2
    <3>5. u.approval # 0 => (Approved(u.approval) => Approved(u.approval)')
      BY <3>2
    <3>6. Executed(u.approval) => Executed(u.approval)'
      BY DEF Executed
    <3>7. u.op \in {"submit", "create"} /\ u.approval # 0 /\ Exists(u.approval)' =>
            /\ approvals'[u.approval].action = u.action /\ approvals'[u.approval].case = u.case
            /\ approvals'[u.approval].filing = u.filing
      BY <3>2, <3>3, <3>4 DEF Backed
    <3>8. u.op \in {"execute", "rollback"} => u.approval # 0 /\ Exists(u.approval)'
      BY <3>2, <3>3 DEF Backed
    <3>9. u.op = "create" /\ u.at = "flushed" => u.approval # 0 /\ ~Exists(u.approval)'
      BY <3>2, <3>3 DEF Backed, WellFormed
    <3>10. u.op = "execute" => Approved(u.approval)'
      BY <3>2, <3>5 DEF Backed
    <3>11. u.op = "rollback" /\ u.at # "finding" => Executed(u.approval)'
      BY <3>2, <3>6 DEF Backed
    <3>12. u.at \in {"flushed", "marking"} => <<q, Mirror(u)>> \in announced'
      BY <3>2 DEF Backed
    <3>13. Backed(q, u)'
      BY <3>7, <3>8, <3>9, <3>10, <3>11, <3>12 DEF Backed
    <3> QED  BY <3>2, <3>13 DEF Backed, Exists, Approved, Executed
  <2>3. WellFormed(tx'[r]) /\ Backed(r, tx[r])'
    BY <1>1 DEF Backed, Exists, Approved, Executed
  <2> QED  BY <2>1, <2>2, <2>3 DEF Grounded
<1>6. Numbered'
  <2>1. \A k \in ApprovalIds : Exists(k)' => k <= issued
    BY <1>3, InFlightFacts DEF IInv, Numbered
  <2>2. \A q \in Requests : tx'[q].approval = tx[q].approval \/ (q = r /\ tx'[q].approval = 0)
    BY <1>1
  <2>3. issued \in Nat
    BY <1>0 DEF IInv, TypeOK, Ids
  <2>4. \A q \in Requests : tx'[q].approval <= issued
    BY <2>2, <2>3, InFlightFacts
  <2>5. ASSUME NEW p \in Requests, NEW q \in Requests, tx'[p].approval = tx'[q].approval,
               tx'[q].approval # 0, approvals'[tx'[q].approval].status = "absent"
        PROVE  p = q
    <3>1. tx[p].approval = tx[q].approval /\ tx[q].approval # 0 /\ tx[q].approval \in ApprovalIds
          /\ tx'[q].approval = tx[q].approval
      BY <2>2, <2>5, InFlightFacts
    <3>2. ~Exists(tx[q].approval)
      BY <1>3, <2>5, <3>1 DEF Exists
    <3> QED  BY <3>1, <3>2 DEF IInv, Numbered
  <2>6. (\A k \in ApprovalIds : Exists(k) => k <= issued)'
    BY <2>1
  <2> QED  BY <2>4, <2>5, <2>6 DEF Numbered, Exists
<1>7. AsFiled'
  <2>1. \A k \in ApprovalIds : Exists(k)' => approvals'[k].filing \in Filing
    BY <1>1, <1>3 DEF IInv, AsFiled
  <2>2. ASSUME NEW i \in DOMAIN decided'
        PROVE  /\ approvals'[decided'[i].approval].status # "absent"
               /\ decided'[i].action = approvals'[decided'[i].approval].action
    <3>1. CASE decided'[i].approval = id /\ decided'[i].action = row.action
      BY <1>1, <3>1
    <3>2. CASE i \in DOMAIN decided /\ decided'[i] = decided[i]
      <4>0. decided[i] \in DecisionType
        BY <3>2, DecisionsAreTyped
      <4>1. PICK k \in ApprovalIds : k = decided[i].approval
        BY <4>0 DEF DecisionType
      <4>2. Exists(k) /\ decided[i].action = approvals[k].action
        BY <3>2, <4>1 DEF IInv, AsFiled
      <4>3. approvals'[k].status # "absent" /\ approvals'[k].action = approvals[k].action
        BY <1>1, <4>2 DEF Exists
      <4> QED  BY <3>2, <4>1, <4>2, <4>3
    <3> QED  BY <3>1, <3>2 DEF OnlyThisRow
  <2>3. ASSUME NEW e \in executions'
        PROVE  /\ approvals'[e.approval].status # "absent"
               /\ e.class = approvals'[e.approval].filing.class
    <3>1. CASE e.approval = id /\ e.class = row.filing.class
      BY <1>1, <3>1
    <3>2. CASE e \in executions
      <4>1. PICK k \in ApprovalIds : k = e.approval
        BY <3>2 DEF IInv, TypeOK
      <4>2. Exists(k) /\ e.class = approvals[k].filing.class
        BY <3>2, <4>1 DEF IInv, AsFiled
      <4>3. approvals'[k].status # "absent" /\ approvals'[k].filing = approvals[k].filing
        BY <1>1, <4>2 DEF Exists
      <4> QED  BY <4>1, <4>2, <4>3
    <3> QED  BY <3>1, <3>2 DEF OnlyThisRow
  <2> QED  BY <2>1, <2>2, <2>3 DEF AsFiled, Exists
<1> QED  BY <1>2, <1>5, <1>6, <1>7 DEF IInv

(* A commit that ends its request leaves nothing to back.                  *)
LEMMA EndedIsBacked ==
  ASSUME IInv, NEW r \in Requests
  PROVE  \E t \in TxType :
           /\ t = Done("ok") /\ WellFormed(t) /\ Backed(r, t)' /\ t.approval = 0
<1>1. PICK t : t = Done("ok")
  OBVIOUS
<1>2. t \in TxType /\ WellFormed(t) /\ t.approval = 0 /\ t.op = "none" /\ t.at = "ok"
  BY <1>1, DoneIsWellFormed DEF Answers
<1>3. Backed(r, t)'
  BY <1>2 DEF Backed
<1> QED  BY <1>1, <1>2, <1>3

(* The rows keep their type, the absent one included.                      *)
LEMMA RowsAreTyped ==
  ASSUME IInv
  PROVE  /\ approvals \in [ApprovalIds -> RowType]
         /\ AbsentRow \in RowType
BY DEF IInv, TypeOK, RowType, AbsentRow, NoFiling, FilingType, Statuses

(* The commit of POST /api/v1/approvals.                                   *)
LEMMA CommitCreateInv ==
  ASSUME IInv, NEW r \in Requests, CommitCreate(r), overlapped' \in BOOLEAN
  PROVE  IInv'
<1>0. PICK t \in TxType : t = Done("ok") /\ WellFormed(t) /\ Backed(r, t)' /\ t.approval = 0
  BY EndedIsBacked
<1>1. PICK id, row :
        /\ id = tx[r].approval
        /\ row = [AbsentRow EXCEPT !.status = "pending", !.action = tx[r].action,
                                    !.case = tx[r].case, !.filing = tx[r].filing]
  OBVIOUS
<1>2. /\ tx' = [tx EXCEPT ![r] = t] /\ approvals' = [approvals EXCEPT ![id] = row]
      /\ UNCHANGED <<issued, executions, rollbacks, decided, announced, registry>>
      /\ tx[r].at = "flushed" /\ tx[r].op = "create"
  BY <1>0, <1>1 DEF CommitCreate, AnswersOk, Ends
<1>3. /\ id \in ApprovalIds /\ ~Exists(id) /\ tx[r].action \in Actions /\ tx[r].case \in Cases
      /\ tx[r].filing \in Filing
  BY <1>1, <1>2, InFlightFacts DEF WellFormed, Backed
<1>4. row \in RowType /\ row.status = "pending" /\ row.filing \in Filing
  <2>1. "pending" \in Statuses /\ tx[r].filing \in FilingType
    BY <1>3 DEF Statuses, FilingType
  <2> QED  BY <1>1, <1>3, <2>1, RowsAreTyped DEF RowType
<1>5. \A k \in ApprovalIds : approvals'[k] = IF k = id THEN row ELSE approvals[k]
  BY <1>2, RowsAreTyped
<1>6. Recorded'
  BY <1>2, <1>4, <1>5 DEF IInv, Recorded, Approved, Executed
<1>7. \A k \in ApprovalIds : Approved(k) => Approved(k)'
  BY <1>2 DEF Approved
<1>8. /\ executions' \in SUBSET ExecutionType
      /\ rollbacks' \in SUBSET [request: Requests, approval: ApprovalIds,
                                status: {"success", "unsupported"}]
      /\ decided' \in Seq([approval: ApprovalIds, action: Actions, decision: Decisions, role: Roles])
  BY <1>2 DEF IInv, TypeOK, ExecutionType
<1>9. OnlyThisRow(id, row) /\ executions \subseteq executions' /\ row.status # "absent"
  BY <1>2, <1>4 DEF OnlyThisRow
<1> QED  BY <1>0, <1>1, <1>2, <1>3, <1>4, <1>6, <1>7, <1>8, <1>9, CommitInv

(* The commit of submit_approval.                                          *)
LEMMA CommitDecisionInv ==
  ASSUME IInv, NEW r \in Requests, CommitDecision(r), overlapped' \in BOOLEAN
  PROVE  IInv'
<1> DEFINE Decided == [approval: ApprovalIds, action: Actions, decision: Decisions, role: Roles]
<1>1. PICK id, t, row, d :
        /\ id = tx[r].approval
        /\ t = [tx[r] EXCEPT !.at = "marking"]
        /\ row = [status |-> tx[r].decision, decision |-> tx[r].decision,
                  action |-> tx[r].action, case |-> tx[r].case, filing |-> tx[r].filing]
        /\ d = [approval |-> tx[r].approval, action |-> tx[r].action,
                decision |-> tx[r].decision, role |-> tx[r].role]
  OBVIOUS
<1>2. /\ tx' = [tx EXCEPT ![r] = t] /\ approvals' = [approvals EXCEPT ![id] = row]
      /\ decided' = Append(decided, d)
      /\ UNCHANGED <<issued, executions, rollbacks, announced, registry>>
      /\ tx[r].at = "flushed" /\ tx[r].op = "submit"
  BY <1>1 DEF CommitDecision, Ends
<1>3. /\ id \in ApprovalIds /\ tx[r].action \in Actions /\ tx[r].case \in Cases
      /\ tx[r].decision \in Decisions /\ tx[r].role \in Roles
      /\ tx[r].filing \in Filing
      /\ ~Forbidden(Recommended(tx[r].action).disruptive, tx[r].decision, tx[r].role)
      /\ Exists(id) => /\ approvals[id].action = tx[r].action /\ approvals[id].case = tx[r].case
                       /\ approvals[id].filing = tx[r].filing
      /\ <<r, tx[r].decision>> \in announced
  BY <1>1, <1>2, InFlightFacts DEF WellFormed, Backed, Mirror
<1>4. /\ row \in RowType /\ row.status \in Decisions /\ row.status = tx[r].decision
      /\ row.action = tx[r].action /\ row.case = tx[r].case /\ row.filing = tx[r].filing
  BY <1>1, <1>3 DEF RowType, Statuses, FilingType
<1>5. /\ d \in Decided /\ d.approval = id /\ d.decision = tx[r].decision /\ d.action = row.action
      /\ (d.decision = "approved" => Approves(d, id))
  BY <1>1, <1>3 DEF Approves, Forbidden
<1>6. /\ decided \in Seq(Decided) /\ decided' \in Seq(Decided)
      /\ \A i \in DOMAIN decided : i \in DOMAIN decided' /\ decided'[i] = decided[i]
      /\ \A i \in DOMAIN decided' : i \in DOMAIN decided \/ decided'[i] = d
      /\ \E i \in DOMAIN decided' : decided'[i] = d
  <2>1. decided \in Seq(Decided)
    BY DEF IInv, TypeOK
  <2> HIDE DEF Decided
  <2> QED  BY <1>2, <1>5, <2>1
<1>7. \A k \in ApprovalIds : Approved(k) => Approved(k)'
  <2> HIDE DEF Decided
  <2> QED  BY <1>6 DEF Approved
<1>8. d.decision = "approved" => Approved(id)'
  <2> HIDE DEF Decided
  <2> QED  BY <1>5, <1>6 DEF Approved
<1>9. /\ t \in TxType /\ t.at = "marking" /\ t.op = "submit" /\ t.approval = id
      /\ t.action = tx[r].action /\ t.case = tx[r].case
      /\ t.decision = tx[r].decision /\ t.role = tx[r].role /\ t.filing = tx[r].filing
  <2>1. "marking" \in Places
    BY DEF Places
  <2> QED  BY <1>1, <1>2, <2>1, InFlightFacts DEF TxType
<1>10. WellFormed(t)
  <2>1. id # 0
    BY <1>3 DEF ApprovalIds
  <2> QED  BY <1>3, <1>9, <2>1 DEF WellFormed
<1>11. \A k \in ApprovalIds : approvals'[k] = IF k = id THEN row ELSE approvals[k]
  BY <1>2, RowsAreTyped
<1>12. Backed(r, t)'
  <2>1. approvals'[id] = row /\ Mirror(t) = tx[r].decision /\ announced' = announced
    BY <1>2, <1>3, <1>9, <1>11 DEF Mirror
  <2> QED  BY <1>3, <1>4, <1>9, <2>1 DEF Backed
<1>13. Recorded'
  <2>1. \A k \in ApprovalIds : approvals'[k].status = "approved" => Approved(k)'
    BY <1>4, <1>5, <1>7, <1>8, <1>11 DEF IInv, Recorded
  <2>2. \A e \in executions' :
          Approved(e.approval)' /\ <<e.request, "action_executed_dry_run">> \in announced'
    BY <1>2, <1>7 DEF IInv, Recorded, TypeOK
  <2>3. \A b \in rollbacks' :
          Executed(b.approval)' /\ <<b.request, "action_rolled_back">> \in announced'
    BY <1>2 DEF IInv, Recorded, Executed
  <2>4. \A k \in ApprovalIds : approvals'[k].status = "rolled_back" =>
          /\ approvals'[k].filing.class \in Reversible
          /\ \E b \in rollbacks' : b.approval = k /\ b.status = "success"
    BY <1>2, <1>4, <1>11 DEF IInv, Recorded, Decisions
  <2>5. \A i \in DOMAIN decided' : \E q \in Requests : <<q, decided'[i].decision>> \in announced'
    <3> HIDE DEF Decided
    <3> QED  BY <1>2, <1>3, <1>5, <1>6 DEF IInv, Recorded
  <2>6. (\A e \in executions :
           Approved(e.approval) /\ <<e.request, "action_executed_dry_run">> \in announced)'
    BY <2>2 DEF Approved
  <2>7. (\A b \in rollbacks :
           Executed(b.approval) /\ <<b.request, "action_rolled_back">> \in announced)'
    BY <2>3 DEF Executed
  <2>8. (\A k \in ApprovalIds : approvals[k].status = "approved" => Approved(k))'
    BY <2>1
  <2> QED  BY <2>4, <2>5, <2>6, <2>7, <2>8 DEF Recorded
<1>14. /\ executions' \in SUBSET ExecutionType
       /\ rollbacks' \in SUBSET [request: Requests, approval: ApprovalIds,
                                 status: {"success", "unsupported"}]
  BY <1>2 DEF IInv, TypeOK, ExecutionType
<1>15. OnlyThisRow(id, row) /\ executions \subseteq executions'
  <2> HIDE DEF Decided
  <2> QED  BY <1>2, <1>5, <1>6 DEF OnlyThisRow
<1>16. row.status # "absent" /\ row.filing \in Filing
  BY <1>3, <1>4 DEF Decisions
<1> QED
  BY <1>1, <1>2, <1>3, <1>4, <1>6, <1>7, <1>9, <1>10, <1>12, <1>13, <1>14, <1>15, <1>16, CommitInv

(* The commit of POST .../execute.                                         *)
LEMMA CommitExecutionInv ==
  ASSUME IInv, NEW r \in Requests, CommitExecution(r), overlapped' \in BOOLEAN
  PROVE  IInv'
<1>0. PICK t \in TxType : t = Done("ok") /\ WellFormed(t) /\ Backed(r, t)' /\ t.approval = 0
  BY EndedIsBacked
<1>1. PICK id, row, e :
        /\ id = tx[r].approval
        /\ row = [approvals[id] EXCEPT !.status = "executed"]
        /\ e = [request |-> r, approval |-> id, class |-> approvals[id].filing.class]
  OBVIOUS
<1>2. /\ tx' = [tx EXCEPT ![r] = t] /\ approvals' = [approvals EXCEPT ![id] = row]
      /\ executions' = executions \cup {e}
      /\ UNCHANGED <<issued, rollbacks, decided, announced, registry>>
      /\ tx[r].at = "flushed" /\ tx[r].op = "execute"
  BY <1>0, <1>1 DEF CommitExecution, AnswersOk, Ends
<1>3. /\ id \in ApprovalIds /\ Exists(id) /\ Approved(id)
      /\ <<r, "action_executed_dry_run">> \in announced
  BY <1>1, <1>2, InFlightFacts DEF Backed, Mirror
<1>4. row \in RowType /\ row.status = "executed" /\ row.filing = approvals[id].filing
      /\ row.action = approvals[id].action /\ row.case = approvals[id].case
  <2>1. "executed" \in Statuses
    BY DEF Statuses
  <2> QED  BY <1>1, <1>3, <2>1, RowsAreTyped DEF RowType
<1>5. \A k \in ApprovalIds : approvals'[k] = IF k = id THEN row ELSE approvals[k]
  BY <1>2, RowsAreTyped
<1>6. /\ e \in ExecutionType /\ e.approval = id /\ e.request = r
      /\ row.filing \in Filing /\ e.class = row.filing.class
  <2>1. approvals[id].filing \in Filing
    BY <1>3 DEF IInv, AsFiled
  <2>2. approvals[id].filing.class \in Classes
    BY <2>1 DEF Filing
  <2> QED  BY <1>1, <1>3, <1>4, <2>1, <2>2 DEF ExecutionType
<1>7. Recorded'
  <2>1. \A k \in ApprovalIds : Executed(k) => Executed(k)'
    BY <1>2 DEF Executed
  <2>2. \A f \in executions' :
          Approved(f.approval) /\ <<f.request, "action_executed_dry_run">> \in announced
    BY <1>2, <1>3, <1>6 DEF IInv, Recorded
  <2>3. (\A f \in executions :
           Approved(f.approval) /\ <<f.request, "action_executed_dry_run">> \in announced)'
    BY <1>2, <2>2 DEF Approved
  <2>4. (\A b \in rollbacks :
           Executed(b.approval) /\ <<b.request, "action_rolled_back">> \in announced)'
    BY <1>2 DEF IInv, Recorded, Executed
  <2>5. (\A k \in ApprovalIds : approvals[k].status = "approved" => Approved(k))'
    BY <1>2, <1>4, <1>5 DEF IInv, Recorded, Approved
  <2>6. (\A k \in ApprovalIds : approvals[k].status = "rolled_back" =>
           /\ approvals[k].filing.class \in Reversible
           /\ \E b \in rollbacks : b.approval = k /\ b.status = "success")'
    BY <1>2, <1>4, <1>5 DEF IInv, Recorded
  <2>7. (\A i \in DOMAIN decided : \E q \in Requests : <<q, decided[i].decision>> \in announced)'
    BY <1>2 DEF IInv, Recorded
  <2> QED  BY <2>3, <2>4, <2>5, <2>6, <2>7 DEF Recorded
<1>8. \A k \in ApprovalIds : Approved(k) => Approved(k)'
  BY <1>2 DEF Approved
<1>9. /\ executions' \in SUBSET ExecutionType
      /\ rollbacks' \in SUBSET [request: Requests, approval: ApprovalIds,
                                status: {"success", "unsupported"}]
      /\ decided' \in Seq([approval: ApprovalIds, action: Actions, decision: Decisions, role: Roles])
  BY <1>2, <1>6 DEF IInv, TypeOK, ExecutionType
<1>10. OnlyThisRow(id, row) /\ executions \subseteq executions' /\ row.status # "absent"
  BY <1>2, <1>4, <1>6 DEF OnlyThisRow
<1> QED  BY <1>0, <1>1, <1>2, <1>3, <1>4, <1>6, <1>7, <1>8, <1>9, <1>10, CommitInv

(* The commit of POST .../rollback.                                        *)
LEMMA CommitRollbackInv ==
  ASSUME IInv, NEW r \in Requests, CommitRollback(r), overlapped' \in BOOLEAN
  PROVE  IInv'
<1>0. PICK t \in TxType : t = Done("ok") /\ WellFormed(t) /\ Backed(r, t)' /\ t.approval = 0
  BY EndedIsBacked
<1>1. PICK id, row, b, status, undo :
        /\ id = tx[r].approval
        /\ status = RolledBackStatus(r, id)
        /\ undo = Undo(id)
        /\ row = [approvals[id] EXCEPT !.status = status]
        /\ b = [request |-> r, approval |-> id, status |-> undo]
  OBVIOUS
<1>2. /\ tx' = [tx EXCEPT ![r] = t] /\ approvals' = [approvals EXCEPT ![id] = row]
      /\ rollbacks' = rollbacks \cup {b}
      /\ UNCHANGED <<issued, executions, decided, announced, registry>>
      /\ tx[r].at = "flushed" /\ tx[r].op = "rollback"
  BY <1>0, <1>1 DEF CommitRollback, AnswersOk, Ends
<1>3. /\ id \in ApprovalIds /\ Exists(id) /\ Executed(id)
      /\ <<r, "action_rolled_back">> \in announced
  BY <1>1, <1>2, InFlightFacts DEF Backed, Mirror
<1>4. \/ status = approvals[id].status
      \/ status = "rolled_back" /\ approvals[id].filing.class \in Reversible /\ undo = "success"
  BY <1>1 DEF RolledBackStatus, Undo
<1>5. /\ row \in RowType /\ row.status = status /\ status # "absent"
      /\ row.action = approvals[id].action /\ row.case = approvals[id].case
      /\ row.filing = approvals[id].filing /\ row.filing \in Filing
  <2>1. status \in Statuses /\ status # "absent"
    BY <1>3, <1>4, RowsAreTyped DEF Statuses, RowType, Exists
  <2>2. approvals[id].filing \in Filing
    BY <1>3 DEF IInv, AsFiled
  <2> QED  BY <1>1, <1>3, <2>1, <2>2, RowsAreTyped DEF RowType
<1>6. \A k \in ApprovalIds : approvals'[k] = IF k = id THEN row ELSE approvals[k]
  BY <1>2, RowsAreTyped
<1>7. /\ b \in [request: Requests, approval: ApprovalIds, status: {"success", "unsupported"}]
      /\ b.approval = id /\ b.request = r /\ b.status = undo
  BY <1>1, <1>3 DEF Undo
<1>8. Recorded'
  <2>1. (\A f \in executions :
           Approved(f.approval) /\ <<f.request, "action_executed_dry_run">> \in announced)'
    BY <1>2 DEF IInv, Recorded, Approved
  <2>2. \A c \in rollbacks' : Executed(c.approval) /\ <<c.request, "action_rolled_back">> \in announced
    BY <1>2, <1>3, <1>7 DEF IInv, Recorded
  <2>3. (\A c \in rollbacks :
           Executed(c.approval) /\ <<c.request, "action_rolled_back">> \in announced)'
    BY <1>2, <2>2 DEF Executed
  <2>4. (\A k \in ApprovalIds : approvals[k].status = "approved" => Approved(k))'
    BY <1>2, <1>4, <1>5, <1>6 DEF IInv, Recorded, Approved
  <2>5. ASSUME NEW k \in ApprovalIds, approvals'[k].status = "rolled_back"
        PROVE  /\ approvals'[k].filing.class \in Reversible
               /\ \E c \in rollbacks' : c.approval = k /\ c.status = "success"
    <3>1. CASE approvals[k].status = "rolled_back"
      BY <1>2, <1>5, <1>6, <3>1 DEF IInv, Recorded
    <3>2. CASE approvals[k].status # "rolled_back"
      BY <1>2, <1>4, <1>5, <1>6, <1>7, <2>5, <3>2
    <3> QED  BY <3>1, <3>2
  <2>6. (\A k \in ApprovalIds : approvals[k].status = "rolled_back" =>
           /\ approvals[k].filing.class \in Reversible
           /\ \E c \in rollbacks : c.approval = k /\ c.status = "success")'
    BY <2>5
  <2>7. (\A i \in DOMAIN decided : \E q \in Requests : <<q, decided[i].decision>> \in announced)'
    BY <1>2 DEF IInv, Recorded
  <2> QED  BY <2>1, <2>3, <2>4, <2>6, <2>7 DEF Recorded
<1>9. \A k \in ApprovalIds : Approved(k) => Approved(k)'
  BY <1>2 DEF Approved
<1>10. /\ executions' \in SUBSET ExecutionType
       /\ rollbacks' \in SUBSET [request: Requests, approval: ApprovalIds,
                                 status: {"success", "unsupported"}]
       /\ decided' \in Seq([approval: ApprovalIds, action: Actions, decision: Decisions, role: Roles])
  BY <1>2, <1>7 DEF IInv, TypeOK, ExecutionType
<1>11. OnlyThisRow(id, row) /\ executions \subseteq executions'
  BY <1>2 DEF OnlyThisRow
<1> QED  BY <1>0, <1>1, <1>2, <1>3, <1>5, <1>8, <1>9, <1>10, <1>11, CommitInv

(* The gateway starts again: its submissions end, its registry is empty.   *)
LEMMA RestartInv ==
  ASSUME IInv, Restart, overlapped' \in BOOLEAN
  PROVE  IInv'
<1>1. PICK done : done = Done("failed")
  OBVIOUS
<1>2. /\ done \in TxType /\ WellFormed(done) /\ done.approval = 0
      /\ done.op = "none" /\ done.at = "failed"
  BY <1>1, DoneIsWellFormed DEF Answers
<1>3. /\ tx' \in [Requests -> TxType]
      /\ \A q \in Requests : tx'[q] = tx[q] \/ tx'[q] = done
      /\ UNCHANGED <<tables, announced>> /\ registry' \in RegistryType
  BY <1>1, <1>2 DEF Restart, IInv, TypeOK, RegistryType
<1>4. TypeOK'
  BY <1>3 DEF IInv, TypeOK, tables, RegistryType
<1>5. Grounded'
  <2>1. ASSUME NEW q \in Requests PROVE WellFormed(tx'[q]) /\ Backed(q, tx[q])'
    <3>1. CASE tx'[q] = tx[q]
      BY <1>3, <3>1 DEF IInv, Grounded, Backed, tables, Exists, Approved, Executed
    <3>2. CASE tx'[q] = done
      BY <1>2, <3>2 DEF Backed
    <3> QED  BY <1>3, <3>1, <3>2
  <2> QED  BY <2>1 DEF Grounded
<1>6. Numbered'
  <2>1. \A q \in Requests : tx'[q].approval \in {0, tx[q].approval}
    BY <1>2, <1>3
  <2>2. 0 <= issued
    BY WorkflowAssumption DEF IInv, TypeOK, Ids
  <2> QED  BY <1>3, <2>1, <2>2 DEF IInv, Numbered, tables, Exists
<1>7. Recorded'
  BY <1>3 DEF IInv, Recorded, tables, Approved, Executed
<1>8. AsFiled'
  BY <1>3 DEF IInv, AsFiled, tables, Exists
<1> QED  BY <1>4, <1>5, <1>6, <1>7, <1>8 DEF IInv

-----------------------------------------------------------------------------
(* Rows are written by commits only.                                        *)
LEMMA OnlyCommitsWrite ==
  ASSUME Next
  PROVE  \/ UNCHANGED <<approvals, executions>>
         \/ \E r \in Requests : CommitCreate(r) \/ CommitDecision(r)
         \/ \E r \in Requests : CommitExecution(r) \/ CommitRollback(r)
<1>1. ASSUME NEW r \in Requests, Arrive(r) PROVE UNCHANGED tables
  BY <1>1 DEF Arrive, SubmitRefused, Submit, Create, Decide, Execute, Rollback, Answer
<1>2. ASSUME NEW r \in Requests,
             FlushDecision(r) \/ FlushExecution(r) \/ FindExecution(r) \/ FlushRollback(r)
               \/ MarkStatus(r) \/ Abort(r)
      PROVE  UNCHANGED tables
  BY <1>2 DEF FlushDecision, FlushExecution, FindExecution, FlushRollback, MarkStatus, Abort,
              Answer, Reversing
<1>3. ASSUME NEW r \in Requests, InsertPending(r) PROVE UNCHANGED <<approvals, executions>>
  BY <1>3 DEF InsertPending
<1>4. Restart => UNCHANGED tables
  BY DEF Restart
<1> QED  BY <1>1, <1>2, <1>3, <1>4 DEF Next, Proceed, tables

(* The empty tables satisfy the invariant.                                 *)
LEMMA InitInv == Init => IInv
<1> SUFFICES ASSUME Init PROVE IInv
  OBVIOUS
<1>1. MaxApprovals \in Nat
  BY WorkflowAssumption
<1>2. TypeOK
  <2>1. approvals \in [ApprovalIds -> RowType] /\ tx \in [Requests -> TxType]
    BY IdleIsWellFormed DEF Init, AbsentRow, NoFiling, FilingType, RowType, Statuses
  <2>2. registry \in RegistryType
    BY DEF Init, Registered, RegistryType
  <2>3. issued \in Ids
    BY <1>1 DEF Init, Ids
  <2>4. decided \in Seq([approval: ApprovalIds, action: Actions, decision: Decisions, role: Roles])
    BY DEF Init
  <2>5. /\ executions \in SUBSET ExecutionType
        /\ rollbacks \in SUBSET [request: Requests, approval: ApprovalIds,
                                 status: {"success", "unsupported"}]
        /\ announced \in SUBSET (Requests \X Events)
        /\ overlapped \in BOOLEAN
    BY DEF Init
  <2> QED  BY <2>1, <2>2, <2>3, <2>4, <2>5 DEF TypeOK, RowType, RegistryType, ExecutionType
<1>3. \A r \in Requests : tx[r] = Idle
  BY DEF Init
<1>4. Grounded
  BY <1>3, IdleIsWellFormed DEF Grounded, WellFormed, Backed
<1>5. \A id \in ApprovalIds : approvals[id].status = "absent"
  BY DEF Init, AbsentRow
<1>6. Numbered
  BY <1>3, <1>5, IdleIsWellFormed DEF Numbered, Exists, Init
<1>7. Recorded
  BY <1>5 DEF Recorded, Init
<1>8. AsFiled
  BY <1>5 DEF AsFiled, Exists, Init
<1> QED  BY <1>2, <1>4, <1>6, <1>7, <1>8 DEF IInv

(* Every step keeps it, one lemma per operation.                           *)
LEMMA Inductive == IInv /\ [Next]_vars => IInv'
<1> SUFFICES ASSUME IInv, [Next]_vars PROVE IInv'
  OBVIOUS
<1>1. ASSUME NEW r \in Requests, Arrive(r), overlapped' = (overlapped \/ InFlight # {})
      PROVE  IInv'
  <2>1. overlapped' \in BOOLEAN
    BY <1>1
  <2> QED  BY <1>1, <2>1, ArriveInv
<1>2. ASSUME UNCHANGED overlapped PROVE overlapped' \in BOOLEAN
  BY <1>2 DEF IInv, TypeOK
<1>3. ASSUME NEW r \in Requests, Proceed(r), UNCHANGED overlapped PROVE IInv'
  BY <1>2, <1>3, InsertPendingInv, FlushInv, FindExecutionInv, CommitCreateInv, CommitDecisionInv,
     CommitExecutionInv, CommitRollbackInv, MarkStatusInv DEF Proceed
<1>4. ASSUME NEW r \in Requests, Abort(r), UNCHANGED overlapped PROVE IInv'
  <2>1. "failed" \in Answers /\ Answer(r, "failed")
    BY <1>4 DEF Answers, Abort
  <2> QED  BY <1>2, <1>4, <2>1, AnswerInv
<1>5. CASE Restart /\ UNCHANGED overlapped
  BY <1>2, <1>5, RestartInv
<1>6. CASE UNCHANGED vars
  <2>1. TypeOK'
    BY <1>6 DEF vars, IInv, TypeOK
  <2>2. Grounded' /\ Numbered'
    BY <1>6 DEF vars, IInv, Grounded, Backed, Numbered, Exists, Approved, Executed
  <2>3. Recorded' /\ AsFiled'
    BY <1>6 DEF vars, IInv, Recorded, AsFiled, Exists, Approved, Executed
  <2> QED  BY <2>1, <2>2, <2>3 DEF IInv
<1> QED  BY <1>1, <1>3, <1>4, <1>5, <1>6 DEF Next

-----------------------------------------------------------------------------
(* Tables, registry and transactions keep their types, whatever requests    *)
(* overlap, fail or are cut short by a restart.                             *)
THEOREM TypeCorrect == Spec => []TypeOK
<1>1. IInv => TypeOK
  BY DEF IInv
<1> QED  BY <1>1, InitInv, Inductive, PTL DEF Spec

(* The approval gate, whatever class and flag the approvals were filed with:*)
(* no adapter runs a class but the one filed, or without a committed        *)
(* decision that the role rule allowed for the recommendation with the      *)
(* approval's action id; no rollback is recorded without an execution, and  *)
(* everything committed has been mirrored to the audit sink.                *)
THEOREM GateHolds == Spec => []Accountable
<1>1. ASSUME IInv PROVE Accountable
  <2>1. ExecutedOnlyIfApproved
    <3> SUFFICES ASSUME NEW e \in executions
                 PROVE  /\ e.class = approvals[e.approval].filing.class
                        /\ \E i \in DOMAIN decided :
                             /\ decided[i].action = approvals[e.approval].action
                             /\ Approves(decided[i], e.approval)
      BY DEF ExecutedOnlyIfApproved
    <3>1. PICK i \in DOMAIN decided : Approves(decided[i], e.approval)
      BY <1>1 DEF IInv, Recorded, Approved
    <3>2. decided[i].approval = e.approval
      BY <3>1 DEF Approves
    <3> QED  BY <1>1, <3>1, <3>2 DEF IInv, AsFiled
  <2>2. RolledBackOnlyIfExecuted
    BY <1>1 DEF IInv, Recorded, RolledBackOnlyIfExecuted
  <2>3. AnnouncedByFlush
    <3>1. ASSUME NEW r \in Requests, tx[r].at \in {"flushed", "marking"}
          PROVE  \E e \in Events : <<r, e>> \in announced
      <4>1. <<r, Mirror(tx[r])>> \in announced
        BY <1>1, <3>1, InFlightFacts DEF Backed
      <4>2. Mirror(tx[r]) \in Events
        BY <1>1, <4>1 DEF IInv, TypeOK
      <4> QED  BY <4>1, <4>2
    <3> QED  BY <1>1, <3>1 DEF IInv, Recorded, AnnouncedByFlush
  <2> QED  BY <2>1, <2>2, <2>3 DEF Accountable
<1> QED  BY <1>1, InitInv, Inductive, PTL DEF Spec

(* What was decided stays decided, and no row is lost or changes the action *)
(* id, case, class and flag it was filed with.                              *)
THEOREM NothingReopens == Spec => NeverReopened
<1>1. ASSUME IInv, Next, NEW id \in ApprovalIds, Exists(id)
      PROVE  /\ approvals'[id].action = approvals[id].action
             /\ approvals'[id].case = approvals[id].case
             /\ approvals'[id].filing = approvals[id].filing
             /\ approvals'[id].status # "absent"
             /\ approvals[id].status # "pending" => approvals'[id].status # "pending"
  <2>1. CASE approvals' = approvals
    BY <1>1, <2>1 DEF Exists
  <2>2. ASSUME NEW r \in Requests, CommitCreate(r) PROVE id # tx[r].approval
    BY <1>1, <2>2, InFlightFacts DEF CommitCreate, Ends, Backed
  <2>3. ASSUME NEW r \in Requests, CommitCreate(r) PROVE approvals'[id] = approvals[id]
    BY <1>1, <2>2, <2>3, RowsAreTyped DEF CommitCreate
  <2>4. ASSUME NEW r \in Requests, CommitDecision(r), id = tx[r].approval
        PROVE  /\ approvals'[id].action = approvals[id].action
               /\ approvals'[id].case = approvals[id].case
               /\ approvals'[id].filing = approvals[id].filing
               /\ approvals'[id].status \in Decisions
    BY <1>1, <2>4, InFlightFacts, RowsAreTyped DEF CommitDecision, Ends, Backed, WellFormed
  <2>5. ASSUME NEW r \in Requests, CommitExecution(r), id = tx[r].approval
        PROVE  /\ approvals'[id].action = approvals[id].action
               /\ approvals'[id].case = approvals[id].case
               /\ approvals'[id].filing = approvals[id].filing
               /\ approvals'[id].status = "executed"
    BY <1>1, <2>5, RowsAreTyped DEF CommitExecution, RowType
  <2>6. ASSUME NEW r \in Requests, CommitRollback(r), id = tx[r].approval
        PROVE  /\ approvals'[id].action = approvals[id].action
               /\ approvals'[id].case = approvals[id].case
               /\ approvals'[id].filing = approvals[id].filing
               /\ approvals'[id].status \in {approvals[id].status, "rolled_back"}
    BY <1>1, <2>6, RowsAreTyped DEF CommitRollback, RowType, RolledBackStatus
  <2>7. ASSUME NEW r \in Requests, CommitDecision(r) \/ CommitExecution(r) \/ CommitRollback(r),
               id # tx[r].approval
        PROVE  approvals'[id] = approvals[id]
    BY <1>1, <2>7, RowsAreTyped DEF CommitDecision, CommitExecution, CommitRollback
  <2>8. \/ approvals' = approvals
        \/ \E r \in Requests : \/ CommitCreate(r) \/ CommitDecision(r)
                               \/ CommitExecution(r) \/ CommitRollback(r)
    BY <1>1, OnlyCommitsWrite
  <2> QED  BY <1>1, <2>1, <2>3, <2>4, <2>5, <2>6, <2>7, <2>8 DEF Exists, Decisions
<1>2. ASSUME IInv, [Next]_vars
      PROVE  [\A id \in ApprovalIds : Exists(id) =>
                /\ approvals'[id].action = approvals[id].action
                /\ approvals'[id].case = approvals[id].case
                /\ approvals'[id].filing = approvals[id].filing
                /\ approvals'[id].status # "absent"
                /\ approvals[id].status # "pending" => approvals'[id].status # "pending"]_vars
  BY <1>1, <1>2
<1> QED  BY <1>2, InitInv, Inductive, PTL DEF Spec, NeverReopened

-----------------------------------------------------------------------------
(* Until two requests overlap: at most one is in flight, what it read is so,*)
(* and the registry waits for it only.                                      *)
StillReads(t) ==
  /\ t.op = "submit" /\ t.at \in {"deciding", "flushed"} =>
       approvals[t.approval].status \in {"absent", "pending"}
  /\ t.op = "execute" => approvals[t.approval].status = "approved"
  /\ t.op = "rollback" => t.seen = approvals[t.approval].status

ExecutedShown ==
  \A id \in ApprovalIds : Executed(id) => approvals[id].status \in {"executed", "rolled_back"}

RunOnce == \A e, f \in executions : e.approval = f.approval => e = f

Marks(r, a) == tx[r].at = "marking" /\ tx[r].action = a

RegistryWaits ==
  \A a \in Actions : \A i \in DOMAIN decided : IsNewest(i, DecisionsOn(a)) =>
    /\ \A r \in Requests : Marks(r, a) => tx[r].decision = decided[i].decision
    /\ \/ registry[a] \in {"unknown", decided[i].decision}
       \/ \E r \in Requests : Marks(r, a)

Serial ==
  /\ \A q, r \in InFlight : q = r
  /\ \A r \in InFlight : StillReads(tx[r])
  /\ ExecutedShown
  /\ RunOnce
  /\ RegistryWaits

Alone == ~overlapped => Serial

(* A step of the only request in flight that commits nothing.               *)
LEMMA StepSerial ==
  ASSUME IInv, Serial, NEW r \in Requests, InFlight \subseteq {r}, NEW t \in TxType,
         tx' = [tx EXCEPT ![r] = t], UNCHANGED <<approvals, executions, decided, registry>>,
         tx[r].at # "marking", t.at # "marking", StillReads(t)
  PROVE  Serial'
<1>1. \A q \in Requests : tx'[q] = IF q = r THEN t ELSE tx[q]
  BY DEF IInv, TypeOK
<1>2. InFlight' \subseteq {r}
  BY <1>1 DEF InFlight
<1>3. (\A q \in InFlight : StillReads(tx[q]))'
  BY <1>1, <1>2 DEF StillReads, InFlight
<1>4. ExecutedShown' /\ RunOnce'
  BY DEF Serial, ExecutedShown, RunOnce, Executed
<1>5. \A a \in Actions, q \in Requests : ~Marks(q, a)
  BY DEF Marks, InFlight
<1>6. \A a \in Actions, q \in Requests : ~Marks(q, a)'
  BY <1>1, <1>5 DEF Marks
<1>7. RegistryWaits'
  BY <1>5, <1>6 DEF Serial, RegistryWaits, DecisionsOn, Marks
<1> QED  BY <1>2, <1>3, <1>4, <1>7 DEF Serial

(* A request that is answered has nothing left to keep.                     *)
LEMMA AnswerSerial ==
  ASSUME IInv, Serial, NEW r \in InFlight, NEW answer \in Answers, Answer(r, answer),
         tx[r].at # "marking"
  PROVE  Serial'
<1>1. PICK t : t = Done(answer)
  OBVIOUS
<1>2. t \in TxType /\ t.op = "none" /\ t.at \in Answers /\ tx' = [tx EXCEPT ![r] = t]
  BY <1>1, DoneIsWellFormed DEF Answer
<1>3. r \in Requests /\ InFlight \subseteq {r}
  BY DEF Serial, InFlight
<1> QED  BY <1>2, <1>3, StepSerial DEF StillReads, Answers, Answer, tables

(* A request that arrives alone is the only one in flight.                 *)
LEMMA ArriveSerial ==
  ASSUME IInv, Serial, NEW r \in Requests, Arrive(r), InFlight = {}
  PROVE  Serial'
<1>1. PICK t \in TxType :
        /\ tx' = [tx EXCEPT ![r] = t]
        /\ WellFormed(t) /\ JustRead(t)
        /\ UNCHANGED <<tables, announced, registry>>
  BY Arrival DEF Begins
<1>2. StillReads(t)
  BY <1>1 DEF JustRead, StillReads
<1>3. tx[r].at # "marking" /\ t.at # "marking"
  BY <1>1 DEF InFlight, JustRead
<1> QED  BY <1>1, <1>2, <1>3, StepSerial DEF tables

(* The row it inserts is not committed.                                    *)
LEMMA InsertPendingSerial ==
  ASSUME IInv, Serial, NEW r \in InFlight, InsertPending(r)
  PROVE  Serial'
<1>0. r \in Requests /\ InFlight \subseteq {r} /\ MaxApprovals \in Nat
  BY WorkflowAssumption DEF Serial, InFlight
<1>1. PICK t : t = [tx[r] EXCEPT !.approval = issued + 1,
                                 !.at = IF tx[r].op = "submit" THEN "deciding" ELSE "flushed"]
  OBVIOUS
<1>2. /\ tx' = [tx EXCEPT ![r] = t] /\ tx[r].at = "creating"
      /\ UNCHANGED <<approvals, executions, decided, registry>>
  BY <1>1 DEF InsertPending
<1>3. tx[r].op \in {"submit", "create"}
  BY <1>0, <1>2, InFlightFacts DEF WellFormed
<1>4. issued + 1 \in ApprovalIds /\ issued + 1 \in Ids /\ ~Exists(issued + 1)
  BY <1>0 DEF InsertPending, IInv, TypeOK, Numbered, Ids, ApprovalIds
<1>5. /\ t \in TxType /\ t.approval = issued + 1 /\ t.op = tx[r].op
      /\ t.at \in {"deciding", "flushed"}
  <2>1. "deciding" \in Places /\ "flushed" \in Places
    BY DEF Places, Waiting
  <2> QED  BY <1>0, <1>1, <1>4, <2>1, InFlightFacts DEF TxType
<1>6. StillReads(t)
  BY <1>3, <1>4, <1>5 DEF StillReads, Exists
<1> QED  BY <1>0, <1>2, <1>5, <1>6, StepSerial

(* It goes on to its next step: what it read is still so.                  *)
LEMMA GoOnSerial ==
  ASSUME IInv, Serial, NEW r \in InFlight, NEW at \in {"flushed", "reversing"},
         tx[r].at \in {"deciding", "executing", "finding", "reversing"},
         tx' = [tx EXCEPT ![r].at = at], UNCHANGED <<tables, registry>>
  PROVE  Serial'
<1>0. r \in Requests /\ InFlight \subseteq {r}
  BY DEF Serial, InFlight
<1>1. PICK t : t = [tx[r] EXCEPT !.at = at]
  OBVIOUS
<1>2. /\ t \in TxType /\ t.at = at /\ t.op = tx[r].op /\ t.approval = tx[r].approval
      /\ t.seen = tx[r].seen
  <2>1. at \in Places
    BY DEF Places, Waiting
  <2> QED  BY <1>0, <1>1, <2>1, InFlightFacts DEF TxType
<1>3. tx[r].op = "submit" => tx[r].at = "deciding"
  BY <1>0, InFlightFacts DEF WellFormed
<1>4. StillReads(t)
  BY <1>2, <1>3 DEF Serial, StillReads
<1> QED  BY <1>0, <1>1, <1>2, <1>4, StepSerial DEF tables

(* After a commit that decides nothing, nobody is in flight.                *)
LEMMA EndSerial ==
  ASSUME IInv, Serial, NEW r \in InFlight, tx[r].at # "marking", AnswersOk(r),
         ExecutedShown', RunOnce', UNCHANGED <<decided, registry>>
  PROVE  Serial'
<1>1. Done("ok") \in TxType /\ Done("ok").at = "ok"
  BY DoneIsWellFormed DEF Answers
<1>2. \A q \in Requests : tx'[q].at = IF q = r THEN "ok" ELSE tx[q].at
  BY <1>1 DEF IInv, TypeOK, AnswersOk
<1>3. InFlight' = {}
  BY <1>2 DEF Serial, InFlight, Waiting
<1>4. \A a \in Actions, q \in Requests : ~Marks(q, a)
  BY DEF Serial, Marks, InFlight
<1>5. \A a \in Actions, q \in Requests : ~Marks(q, a)'
  BY <1>3 DEF Marks, InFlight
<1>6. RegistryWaits'
  BY <1>4, <1>5 DEF Serial, RegistryWaits, DecisionsOn, Marks
<1> QED  BY <1>3, <1>6 DEF Serial

(* A committed request is pending, and was never executed.                 *)
LEMMA CommitCreateSerial ==
  ASSUME IInv, Serial, NEW r \in InFlight, CommitCreate(r)
  PROVE  Serial'
<1>1. PICK id : id = tx[r].approval
  OBVIOUS
<1>2. r \in Requests
  BY DEF InFlight
<1>3. id \in ApprovalIds /\ ~Exists(id)
  BY <1>1, <1>2, InFlightFacts DEF CommitCreate, Ends, WellFormed, Backed
<1>4. \A k \in ApprovalIds : k # id => approvals'[k] = approvals[k]
  BY <1>1, RowsAreTyped DEF CommitCreate
<1>5. ~Executed(id)
  BY <1>3 DEF Serial, ExecutedShown, Exists
<1>6. ExecutedShown'
  BY <1>4, <1>5 DEF Serial, ExecutedShown, Executed, CommitCreate
<1>7. RunOnce'
  BY DEF Serial, RunOnce, CommitCreate
<1> QED  BY <1>6, <1>7, EndSerial DEF CommitCreate, Ends

(* The approval was approved when it was read, so not executed yet.        *)
LEMMA CommitExecutionSerial ==
  ASSUME IInv, Serial, NEW r \in InFlight, CommitExecution(r)
  PROVE  Serial'
<1>1. PICK id, e : id = tx[r].approval /\ e = [request |-> r, approval |-> id, class |-> approvals[id].filing.class]
  OBVIOUS
<1>2. r \in Requests /\ tx[r].at = "flushed" /\ tx[r].op = "execute"
      /\ executions' = executions \cup {e} /\ e.approval = id
  BY <1>1 DEF InFlight, CommitExecution, Ends
<1>3. id \in ApprovalIds /\ approvals[id].status = "approved"
  BY <1>1, <1>2, InFlightFacts DEF Backed, Serial, StillReads
<1>4. \A f \in executions : f.approval # id
  BY <1>3 DEF Serial, ExecutedShown, Executed
<1>5. \A k \in ApprovalIds :
        approvals'[k].status = IF k = id THEN "executed" ELSE approvals[k].status
  BY <1>1, RowsAreTyped DEF CommitExecution, RowType
<1>6. ExecutedShown'
  BY <1>2, <1>5 DEF Serial, ExecutedShown, Executed
<1>7. RunOnce'
  BY <1>2, <1>4 DEF Serial, RunOnce
<1> QED  BY <1>2, <1>6, <1>7, EndSerial DEF CommitExecution

(* A rollback leaves the approval executed or rolled back.                 *)
LEMMA CommitRollbackSerial ==
  ASSUME IInv, Serial, NEW r \in InFlight, CommitRollback(r)
  PROVE  Serial'
<1>1. PICK id, status : id = tx[r].approval /\ status = RolledBackStatus(r, id)
  OBVIOUS
<1>2. status = approvals[id].status \/ status = "rolled_back"
  BY <1>1 DEF RolledBackStatus
<1>3. \A k \in ApprovalIds :
        approvals'[k].status = IF k = id THEN status ELSE approvals[k].status
  BY <1>1, RowsAreTyped DEF CommitRollback, RowType
<1>4. ExecutedShown'
  BY <1>2, <1>3 DEF Serial, ExecutedShown, Executed, CommitRollback
<1>5. RunOnce'
  BY DEF Serial, RunOnce, CommitRollback
<1> QED  BY <1>4, <1>5, EndSerial DEF CommitRollback, Ends

(* The newest decision on an action after one more was committed            *)
LEMMA NewestDecision ==
  ASSUME IInv, NEW d, decided' = Append(decided, d), NEW a \in Actions,
         NEW i \in DOMAIN decided', IsNewest(i, DecisionsOn(a)')
  PROVE  /\ a = d.action => decided'[i] = d
         /\ a # d.action => /\ i \in DOMAIN decided /\ IsNewest(i, DecisionsOn(a))
                            /\ decided'[i] = decided[i]
<1>1. PICK n \in Nat : n = Len(decided)
  BY DEF IInv, TypeOK
<1>2. DOMAIN decided = 1..n
  BY <1>1 DEF IInv, TypeOK
<1>3. /\ DOMAIN decided' = 1..(n + 1) /\ decided'[n + 1] = d
      /\ \A k \in 1..n : decided'[k] = decided[k]
  BY <1>1, <1>2 DEF IInv, TypeOK
<1>4. i \in 1..(n + 1) /\ decided'[i].action = a
  BY <1>3 DEF IsNewest, DecisionsOn
<1>5. \A k \in 1..(n + 1) : decided'[k].action = a => k <= i
  BY <1>3 DEF IsNewest, DecisionsOn
<1>6. CASE a = d.action
  <2>1. n + 1 <= i
    BY <1>1, <1>3, <1>5, <1>6
  <2>2. i = n + 1
    BY <1>4, <2>1
  <2> QED  BY <1>3, <1>6, <2>2
<1>7. CASE a # d.action
  <2>1. i \in 1..n
    BY <1>3, <1>4, <1>7
  <2>2. \A k \in 1..n : decided[k].action = a => k <= i
    BY <1>3, <1>5
  <2> QED  BY <1>2, <1>3, <1>4, <1>7, <2>1, <2>2 DEF IsNewest, DecisionsOn
<1> QED  BY <1>6, <1>7

(* The decision becomes the newest; the registry waits for its request.    *)
LEMMA CommitDecisionSerial ==
  ASSUME IInv, Serial, NEW r \in InFlight, CommitDecision(r)
  PROVE  Serial'
<1>1. PICK id, t, d :
        /\ id = tx[r].approval
        /\ t = [tx[r] EXCEPT !.at = "marking"]
        /\ d = [approval |-> tx[r].approval, action |-> tx[r].action,
                decision |-> tx[r].decision, role |-> tx[r].role]
  OBVIOUS
<1>2. /\ r \in Requests /\ tx[r].at = "flushed" /\ tx[r].op = "submit"
      /\ tx' = [tx EXCEPT ![r] = t] /\ decided' = Append(decided, d)
      /\ UNCHANGED <<executions, registry>>
  BY <1>1 DEF InFlight, CommitDecision, Ends
<1>3. /\ t.at = "marking" /\ t.op = "submit" /\ t.action = tx[r].action
      /\ t.decision = tx[r].decision
  BY <1>1, <1>2, InFlightFacts DEF TxType
<1>4. \A q \in Requests : tx'[q] = IF q = r THEN t ELSE tx[q]
  BY <1>2 DEF IInv, TypeOK
<1>5. InFlight' \subseteq {r}
  BY <1>2, <1>4 DEF Serial, InFlight
<1>6. (\A q \in InFlight : StillReads(tx[q]))'
  BY <1>3, <1>4, <1>5 DEF StillReads, InFlight
<1>7. id \in ApprovalIds /\ approvals[id].status \in {"absent", "pending"}
  BY <1>1, <1>2, InFlightFacts DEF Serial, StillReads, WellFormed
<1>8. \A k \in ApprovalIds : k # id => approvals'[k] = approvals[k]
  BY <1>1, RowsAreTyped DEF CommitDecision
<1>9. ExecutedShown' /\ RunOnce'
  BY <1>2, <1>7, <1>8 DEF Serial, ExecutedShown, RunOnce, Executed
<1>10. \A a \in Actions, q \in Requests : ~Marks(q, a)
  BY <1>2 DEF Serial, Marks, InFlight
<1>11. \A a \in Actions, q \in Requests : Marks(q, a)' => q = r /\ a = d.action
  BY <1>1, <1>3, <1>4, <1>10 DEF Marks
<1>12. \A a \in Actions : a = d.action => Marks(r, a)'
  BY <1>1, <1>2, <1>3, <1>4 DEF Marks
<1>13. tx'[r].decision = d.decision
  BY <1>1, <1>2, <1>3, <1>4
<1>14. ASSUME NEW a \in Actions, NEW i \in DOMAIN decided', IsNewest(i, DecisionsOn(a)')
       PROVE  /\ \A q \in Requests : Marks(q, a)' => tx'[q].decision = decided'[i].decision
              /\ \/ registry'[a] \in {"unknown", decided'[i].decision}
                 \/ \E q \in Requests : Marks(q, a)'
  <2>1. CASE a = d.action
    BY <1>2, <1>11, <1>12, <1>13, <1>14, <2>1, NewestDecision
  <2>2. CASE a # d.action
    <3>1. /\ i \in DOMAIN decided /\ IsNewest(i, DecisionsOn(a)) /\ decided'[i] = decided[i]
      BY <1>2, <1>14, <2>2, NewestDecision
    <3> QED  BY <1>2, <1>10, <1>11, <2>2, <3>1 DEF Serial, RegistryWaits
  <2> QED  BY <2>1, <2>2
<1>15. RegistryWaits'
  BY <1>14 DEF RegistryWaits, IsNewest, Marks
<1> QED  BY <1>5, <1>6, <1>9, <1>15 DEF Serial

(* The registry catches up with the decision just committed.               *)
LEMMA MarkStatusSerial ==
  ASSUME IInv, Serial, NEW r \in InFlight, MarkStatus(r)
  PROVE  Serial'
<1>1. r \in Requests /\ tx[r].at = "marking" /\ UNCHANGED tables
  BY DEF InFlight, MarkStatus
<1>2. tx[r].action \in Actions
  BY <1>1, InFlightFacts DEF WellFormed
<1>3. Done("ok") \in TxType /\ Done("ok").at = "ok"
  BY DoneIsWellFormed DEF Answers
<1>4. \A q \in Requests : tx'[q].at = IF q = r THEN "ok" ELSE tx[q].at
  BY <1>3 DEF IInv, TypeOK, MarkStatus, AnswersOk
<1>5. InFlight' = {}
  BY <1>4 DEF Serial, InFlight, Waiting
<1>6. ExecutedShown' /\ RunOnce'
  BY <1>1 DEF Serial, ExecutedShown, RunOnce, Executed, tables
<1>7. \A a \in Actions :
        registry'[a] = IF a = tx[r].action THEN tx[r].decision ELSE registry[a]
  BY <1>2 DEF MarkStatus, IInv, TypeOK
<1>8. \A a \in Actions, q \in Requests : Marks(q, a) => q = r /\ a = tx[r].action
  BY DEF Serial, Marks, InFlight
<1>9. \A a \in Actions, q \in Requests : ~Marks(q, a)'
  BY <1>5 DEF Marks, InFlight
<1>10. ASSUME NEW a \in Actions, NEW i \in DOMAIN decided, IsNewest(i, DecisionsOn(a))
       PROVE  registry'[a] \in {"unknown", decided[i].decision}
  <2>1. CASE a = tx[r].action
    BY <1>1, <1>7, <1>10, <2>1 DEF Serial, RegistryWaits, Marks
  <2>2. CASE a # tx[r].action
    BY <1>7, <1>8, <1>10, <2>2 DEF Serial, RegistryWaits
  <2> QED  BY <2>1, <2>2
<1>11. RegistryWaits'
  BY <1>1, <1>9, <1>10 DEF RegistryWaits, DecisionsOn, IsNewest, Marks, tables
<1> QED  BY <1>5, <1>6, <1>11 DEF Serial

(* An empty registry waits for nobody.                                     *)
LEMMA RestartSerial ==
  ASSUME IInv, Serial, Restart
  PROVE  Serial'
<1>1. PICK done : done = Done("failed")
  OBVIOUS
<1>2. done \in TxType /\ done.at = "failed"
  BY <1>1, DoneIsWellFormed DEF Answers
<1>3. \A q \in Requests : tx'[q] = tx[q] \/ tx'[q] = done
  BY <1>1 DEF Restart
<1>4. \A q \in InFlight' : q \in InFlight /\ tx'[q] = tx[q]
  BY <1>2, <1>3 DEF InFlight, Waiting
<1>5. (\A q \in InFlight : StillReads(tx[q]))'
  BY <1>4 DEF Serial, StillReads, Restart, tables
<1>6. ExecutedShown' /\ RunOnce'
  BY DEF Serial, ExecutedShown, RunOnce, Executed, Restart, tables
<1>7. \A a \in Actions, q \in Requests : Marks(q, a)' => Marks(q, a) /\ tx'[q] = tx[q]
  BY <1>2, <1>3 DEF Marks
<1>8. \A a \in Actions : registry'[a] = "unknown"
  BY DEF Restart
<1>9. RegistryWaits'
  BY <1>7, <1>8 DEF Serial, RegistryWaits, DecisionsOn, Marks, Restart, tables
<1> QED  BY <1>4, <1>5, <1>6, <1>9 DEF Serial

(* The steps of the request in flight, put together.                       *)
LEMMA ProceedSerial ==
  ASSUME IInv, Serial, NEW r \in Requests, Proceed(r) \/ Abort(r)
  PROVE  Serial'
<1>1. r \in InFlight
  BY DEF Proceed, Abort, InFlight, Waiting, InsertPending, FlushDecision, FlushExecution,
         FindExecution, FlushRollback, CommitCreate, CommitDecision, CommitExecution,
         CommitRollback, MarkStatus, Ends
<1>2. CASE FlushDecision(r) \/ FlushExecution(r) \/ FlushRollback(r)
  BY <1>1, <1>2, GoOnSerial DEF FlushDecision, FlushExecution, FlushRollback
<1>3. CASE FindExecution(r)
  <2>1. CASE Answer(r, "failed")
    <3>1. "failed" \in Answers /\ tx[r].at # "marking"
      BY <1>3 DEF Answers, FindExecution
    <3> QED  BY <1>1, <2>1, <3>1, AnswerSerial
  <2>2. CASE Reversing(r)
    BY <1>1, <1>3, <2>2, GoOnSerial DEF FindExecution, Reversing
  <2> QED  BY <1>3, <2>1, <2>2 DEF FindExecution
<1>4. CASE Abort(r)
  <2>1. "failed" \in Answers /\ tx[r].at # "marking" /\ Answer(r, "failed")
    BY <1>4 DEF Answers, Abort, Waiting
  <2> QED  BY <1>1, <2>1, AnswerSerial
<1> QED
  BY <1>1, <1>2, <1>3, <1>4, InsertPendingSerial, CommitCreateSerial, CommitDecisionSerial,
     CommitExecutionSerial, CommitRollbackSerial, MarkStatusSerial DEF Proceed

(* Nobody is in flight at the start.                                       *)
LEMMA InitAlone == Init => Alone
<1> SUFFICES ASSUME Init PROVE Serial
  BY DEF Alone
<1>1. InFlight = {}
  BY IdleIsWellFormed DEF Init, InFlight, Waiting
<1>2. DOMAIN decided = {} /\ executions = {}
  BY DEF Init
<1> QED  BY <1>1, <1>2 DEF Serial, ExecutedShown, RunOnce, RegistryWaits, Executed

(* Every step keeps Alone, given the invariant above.                      *)
LEMMA AloneIsKept == IInv /\ Alone /\ [Next]_vars => Alone'
<1> SUFFICES ASSUME IInv, Alone, [Next]_vars, ~overlapped' PROVE Serial'
  BY DEF Alone
<1>1. ASSUME NEW r \in Requests, Arrive(r), overlapped' = (overlapped \/ InFlight # {})
      PROVE  Serial'
  <2>1. ~overlapped /\ InFlight = {}
    BY <1>1
  <2> QED  BY <1>1, <2>1, ArriveSerial DEF Alone
<1>2. ASSUME NEW r \in Requests, Proceed(r) \/ Abort(r), UNCHANGED overlapped PROVE Serial'
  BY <1>2, ProceedSerial DEF Alone
<1>3. CASE Restart /\ UNCHANGED overlapped
  BY <1>3, RestartSerial DEF Alone
<1>4. CASE UNCHANGED vars
  BY <1>4 DEF vars, Alone, Serial, InFlight, StillReads, ExecutedShown, RunOnce, RegistryWaits,
              Executed, DecisionsOn, Marks
<1> QED  BY <1>1, <1>2, <1>3, <1>4 DEF Next

-----------------------------------------------------------------------------
(* Until two requests overlap, an approved action is run once, however often*)
(* execute is called for it.                                                *)
THEOREM RunsOnce == Spec => []ExecutedOnce
<1>1. Alone => ExecutedOnce
  BY DEF Alone, Serial, RunOnce, ExecutedOnce
<1> QED  BY <1>1, InitInv, Inductive, InitAlone, AloneIsKept, PTL DEF Spec

(* Until two requests overlap, the status the gateway shows for an action   *)
(* is the last decision committed on it, unless a restart emptied it.       *)
THEOREM RegistryAgrees == Spec => []RegistryShowsLastDecision
<1>1. ASSUME Alone PROVE RegistryShowsLastDecision
  <2> SUFFICES ASSUME NEW a \in Actions, NEW i \in DOMAIN decided, ~overlapped, InFlight = {},
                      IsNewest(i, DecisionsOn(a)), registry[a] # "unknown"
               PROVE  registry[a] = decided[i].decision
    BY DEF RegistryShowsLastDecision
  <2>1. \A r \in Requests : ~Marks(r, a)
    BY DEF Marks, InFlight
  <2> QED  BY <1>1, <2>1 DEF Alone, Serial, RegistryWaits
<1> QED  BY <1>1, InitInv, Inductive, InitAlone, AloneIsKept, PTL DEF Spec

(* Until two requests overlap, what happens to the approvals is the         *)
(* documented lifecycle: request, decide, execute, roll back, each once.    *)
THEOREM ImplementsLifecycle == Spec => FollowsLifecycle
<1>1. Init => Lifecycle!Init
  BY DEF Init, Lifecycle!Init, Shown, AbsentRow
<1>2. ASSUME IInv, Alone, [Next]_vars, ~overlapped
      PROVE  Lifecycle!Next \/ UNCHANGED Shown
  <2>0. Serial
    BY <1>2 DEF Alone
  <2>1. ASSUME NEW id \in ApprovalIds, NEW from, NEW to, Shown[id] \in from,
               \A k \in ApprovalIds :
                 approvals'[k].status = IF k = id THEN to ELSE approvals[k].status
        PROVE  Lifecycle!Moves(id, from, to)
    <3>1. Shown' = [Shown EXCEPT ![id] = to]
      BY <2>1 DEF Shown
    <3> QED  BY <2>1, <3>1 DEF Lifecycle!Moves
  <2>2. ASSUME NEW r \in Requests, CommitCreate(r) PROVE Lifecycle!Next
    <3>1. PICK id : id = tx[r].approval
      OBVIOUS
    <3>2. id \in ApprovalIds /\ Shown[id] \in {"absent"}
      BY <1>2, <2>2, <3>1, InFlightFacts
         DEF CommitCreate, Ends, WellFormed, Backed, Shown, Exists
    <3>3. \A k \in ApprovalIds :
            approvals'[k].status = IF k = id THEN "pending" ELSE approvals[k].status
      BY <1>2, <2>2, <3>1, RowsAreTyped DEF CommitCreate, RowType
    <3>4. Lifecycle!Request(id)
      BY <2>1, <3>2, <3>3 DEF Lifecycle!Request
    <3> QED  BY <3>2, <3>4 DEF Lifecycle!Next
  <2>3. ASSUME NEW r \in Requests, CommitDecision(r) PROVE Lifecycle!Next
    <3>1. PICK id, to : id = tx[r].approval /\ to = tx[r].decision
      OBVIOUS
    <3>2. r \in InFlight /\ tx[r].op = "submit" /\ tx[r].at = "flushed"
      BY <2>3 DEF InFlight, CommitDecision, Ends
    <3>3. id \in ApprovalIds /\ to \in {"approved", "rejected"}
      BY <1>2, <3>1, <3>2, InFlightFacts DEF WellFormed, Decisions
    <3>4. Shown[id] \in {"absent", "pending"}
      BY <2>0, <3>1, <3>2, <3>3 DEF Serial, StillReads, Shown
    <3>5. \A k \in ApprovalIds :
            approvals'[k].status = IF k = id THEN to ELSE approvals[k].status
      BY <1>2, <2>3, <3>1, RowsAreTyped DEF CommitDecision
    <3>6. Lifecycle!Decide(id)
      BY <2>1, <3>3, <3>4, <3>5 DEF Lifecycle!Decide
    <3> QED  BY <3>3, <3>6 DEF Lifecycle!Next
  <2>4. ASSUME NEW r \in Requests, CommitExecution(r) PROVE Lifecycle!Next
    <3>1. PICK id : id = tx[r].approval
      OBVIOUS
    <3>2. r \in InFlight /\ tx[r].op = "execute" /\ tx[r].at = "flushed"
      BY <2>4 DEF InFlight, CommitExecution, Ends
    <3>3. id \in ApprovalIds
      BY <1>2, <2>4, <3>1, <3>2, InFlightFacts DEF Backed
    <3>4. Shown[id] \in {"approved"}
      BY <2>0, <3>1, <3>2, <3>3 DEF Serial, StillReads, Shown
    <3>5. \A k \in ApprovalIds :
            approvals'[k].status = IF k = id THEN "executed" ELSE approvals[k].status
      BY <1>2, <2>4, <3>1, RowsAreTyped DEF CommitExecution, RowType
    <3>6. Lifecycle!Execute(id)
      BY <2>1, <3>3, <3>4, <3>5 DEF Lifecycle!Execute
    <3> QED  BY <3>3, <3>6 DEF Lifecycle!Next
  <2>5. ASSUME NEW r \in Requests, CommitRollback(r) PROVE Lifecycle!Next \/ UNCHANGED Shown
    <3>1. PICK id, status : id = tx[r].approval /\ status = RolledBackStatus(r, id)
      OBVIOUS
    <3>2. r \in InFlight /\ tx[r].op = "rollback" /\ tx[r].at = "flushed"
      BY <2>5 DEF InFlight, CommitRollback, Ends
    <3>3. id \in ApprovalIds /\ Executed(id)
      BY <1>2, <2>5, <3>1, <3>2, InFlightFacts DEF Backed
    <3>4. tx[r].seen = approvals[id].status /\ approvals[id].status \in {"executed", "rolled_back"}
      BY <2>0, <3>1, <3>2, <3>3 DEF Serial, StillReads, ExecutedShown
    <3>5. \A k \in ApprovalIds :
            approvals'[k].status = IF k = id THEN status ELSE approvals[k].status
      BY <1>2, <2>5, <3>1, RowsAreTyped DEF CommitRollback, RowType
    <3>6. CASE status = approvals[id].status
      BY <3>5, <3>6 DEF Shown
    <3>7. CASE status # approvals[id].status
      <4>1. status = "rolled_back" /\ Shown[id] \in {"executed"}
        BY <3>1, <3>3, <3>4, <3>7 DEF RolledBackStatus, Shown
      <4>2. Lifecycle!RollBack(id)
        BY <2>1, <3>3, <3>5, <4>1 DEF Lifecycle!RollBack
      <4> QED  BY <3>3, <4>2 DEF Lifecycle!Next
    <3> QED  BY <3>6, <3>7
  <2>6. CASE UNCHANGED approvals
    BY <2>6 DEF Shown
  <2> QED  BY <1>2, <2>2, <2>3, <2>4, <2>5, <2>6, OnlyCommitsWrite DEF vars
<1>3. ASSUME IInv, Alone, [Next]_vars PROVE [~overlapped => Lifecycle!Next]_Shown
  BY <1>2, <1>3
<1> QED
  BY <1>1, <1>3, InitInv, Inductive, InitAlone, AloneIsKept, PTL DEF Spec, FollowsLifecycle
=============================================================================
