-------------------------- MODULE ApprovalLifecycle -------------------------
(***************************************************************************)
(* What approval_core.repository promises of one approval: "request ->      *)
(* decide -> execute (dry-run SOAR adapter) -> optional rollback", each     *)
(* step once and in this order.                                             *)
(***************************************************************************)
CONSTANT Ids        \* the approvals

VARIABLE status     \* the status of each, "absent" before it is requested

Init == status = [id \in Ids |-> "absent"]

Moves(id, from, to) ==
  /\ status[id] \in from
  /\ status' = [status EXCEPT ![id] = to]

Request(id) == Moves(id, {"absent"}, "pending")

(* A request may be filed and decided in one transaction.                   *)
Decide(id) == \E d \in {"approved", "rejected"} : Moves(id, {"absent", "pending"}, d)

Execute(id) == Moves(id, {"approved"}, "executed")

RollBack(id) == Moves(id, {"executed"}, "rolled_back")

Next == \E id \in Ids : Request(id) \/ Decide(id) \/ Execute(id) \/ RollBack(id)

Spec == Init /\ [][Next]_status
=============================================================================
