------------------------- MODULE MCApprovalWorkflow -------------------------
(* TLC instance of ApprovalWorkflow.                                        *)
EXTENDS ApprovalWorkflow, TLC

(* An action id is named for its recommendation's class.                    *)
OwnClass == [a \in Actions |-> a]

(* Clients file what the gateway would for either action, under any action  *)
(* id, and a disruptive class that is not flagged as one.                   *)
MixedFilings ==
  {filing \in Filing : filing.disruptive => filing.class \in Disruptive}

(* Requests differ in nothing but their name, and every operation quantifies*)
(* over them.                                                               *)
RequestSymmetry == Permutations(Requests)
=============================================================================
