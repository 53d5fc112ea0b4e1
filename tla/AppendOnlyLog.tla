--------------------------- MODULE AppendOnlyLog ----------------------------
(***************************************************************************)
(* What audit_core.repository promises ("Append-only repository for the     *)
(* audit log"): one list of events, each at most once, that is only ever    *)
(* extended at its end.                                                     *)
(***************************************************************************)
EXTENDS Naturals, Sequences

CONSTANT Events   \* the events that may be recorded

VARIABLE log      \* the recorded events, oldest first

Init == log = << >>

Record(e) ==
  /\ \A i \in 1..Len(log) : log[i] # e
  /\ log' = Append(log, e)

Next == \E e \in Events : Record(e)

Spec == Init /\ [][Next]_log
=============================================================================
