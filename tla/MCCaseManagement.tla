-------------------------- MODULE MCCaseManagement --------------------------
(* TLC instance of CaseManagement: the first alerts of two clusters.        *)
EXTENDS CaseManagement

ClusterOf == [a1 |-> "k1", a2 |-> "k2"]
=============================================================================
