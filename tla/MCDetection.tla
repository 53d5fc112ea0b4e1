---------------------------- MODULE MCDetection -----------------------------
(* TLC instance of Detection: one correlation rule, three traits.           *)
EXTENDS Detection, TLC

Event(time, traits, rules, single) ==
  [time |-> time, traits |-> traits, rules |-> rules, single |-> single]

(* A correlated event, one that comes too late for its window, and one that *)
(* a rule without correlation matches.                                      *)
AFewEvents ==
  {Event(0, {"x"}, {"burst"}, FALSE), Event(2, {"x", "y"}, {"burst"}, FALSE),
   Event(3, {"x", "y", "z"}, {}, TRUE)}

WindowSpans == [burst |-> 1, temporal |-> 2]
BurstOfTwo == [burst |-> 2]
BurstTechnique == [burst |-> {"z"}]

RequestSymmetry == Permutations(Streamed)
=============================================================================
