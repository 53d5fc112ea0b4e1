----------------------------- MODULE AuditDamage ----------------------------
(***************************************************************************)
(* What verify_chain reports once somebody has changed audit_events outside *)
(* the service: one UPDATE or DELETE of the table (an edited column, a      *)
(* deleted row, two rows exchanged), at any moment, while append_event goes *)
(* on appending before and after it.                                        *)
(***************************************************************************)
EXTENDS AuditLog

VARIABLES
  damage,   \* what was done to the table
  where     \* the lowest sequence it touched

damageVars == <<vars, damage, where>>

Kinds == {"none", "edited", "deleted", "deleted_last", "exchanged"}

Damaged(kind, seq, table) ==
  /\ damage = "none"
  /\ damage' = kind
  /\ where' = seq
  /\ rows' = table
  /\ UNCHANGED <<pc, sequence, prev_hash>>

Substitute(r, new) == (rows \ {r}) \cup {new}

(* UPDATE of one column of one row to another value; a sequence has to be   *)
(* one that the unique index has no entry of, an uncommitted one included.  *)
EditRow ==
  \E r \in rows :
    \/ \E e \in Requests \ {r.event} :
         Damaged("edited", r.sequence, Substitute(r, [r EXCEPT !.event = e]))
    \/ \E s \in rows : s.record_hash # r.record_hash /\
         \/ Damaged("edited", r.sequence, Substitute(r, [r EXCEPT !.record_hash = s.record_hash]))
         \/ s.record_hash # r.prev_hash /\
            Damaged("edited", r.sequence, Substitute(r, [r EXCEPT !.prev_hash = s.record_hash]))
    \/ /\ \A w \in Requests : pc[w] = "inserted" => sequence[w] # MaxSequence(rows) + 1
       /\ Damaged("edited", r.sequence,
                  Substitute(r, [r EXCEPT !.sequence = MaxSequence(rows) + 1]))

DeleteRow ==
  \E r \in rows :
    Damaged(IF IsLast(rows, r) THEN "deleted_last" ELSE "deleted", r.sequence, rows \ {r})

(* Two rows take each other's place in the sequence.                        *)
ExchangeRows ==
  \E r, s \in rows :
    /\ r.sequence < s.sequence
    /\ Damaged("exchanged", r.sequence,
               (rows \ {r, s}) \cup {[r EXCEPT !.sequence = s.sequence],
                                     [s EXCEPT !.sequence = r.sequence]})

DamageInit == Init /\ damage = "none" /\ where = 0

DamageNext ==
  \/ Next /\ UNCHANGED <<damage, where>>
  \/ EditRow
  \/ DeleteRow
  \/ ExchangeRows

DamageSpec == DamageInit /\ [][DamageNext]_damageVars

-----------------------------------------------------------------------------
Evident == damage \in {"edited", "deleted", "exchanged"}

(* "any single edited/deleted/reordered row breaks the chain": every such   *)
(* change but the deletion of the last row is reported by verify_chain, and *)
(* still is after more events have been appended.                           *)
DamageEvident == Evident => ~VerifyChain(rows).valid

(* "from that point forward": the rows before the change are all vouched    *)
(* for, and the row reported is at the change or after it (an append that   *)
(* was in flight may have filled the sequence the change freed).            *)
DamageLocated ==
  Evident =>
    LET report == VerifyChain(rows)
    IN  /\ report.events_checked >= Cardinality({r \in rows : r.sequence < where})
        /\ report.first_broken >= where
=============================================================================
