--------------------------- MODULE AuditLogProofs ---------------------------
(***************************************************************************)
(* Proofs about AuditLog, for any set of concurrent requests.  The argument *)
(* is one inductive invariant, IInv: the table holds sequences 1..n for     *)
(* some n, linked and authentic, and a request whose sequence is still free *)
(* has read exactly the table it will extend.                               *)
(***************************************************************************)
EXTENDS AuditDamage, FiniteSetTheorems, NaturalsInduction,
        WellFoundedInduction, SequenceTheorems, TLAPS

(* R holds one row for each sequence 1..n and no other.                     *)
UpTo(R, n) ==
  /\ \A r \in R : r.sequence \in 1..n
  /\ \A i \in 1..n : \E r \in R : r.sequence = i
  /\ \A r, s \in R : r.sequence = s.sequence => r = s

(* The rows are what compute_record_hash makes of them, each linked to its  *)
(* predecessor.                                                             *)
Chained ==
  /\ \A r \in rows : Authentic(r)
  /\ \A r \in rows : r.sequence = 1 => r.prev_hash = GENESIS_HASH
  /\ \A r, s \in rows : r.sequence = s.sequence + 1 => r.prev_hash = s.record_hash

(* What a request may have read, given a table of n rows.                   *)
ReadersOK(n) ==
  \A w \in Requests :
    /\ pc[w] \in {"sequenced", "hashed", "inserted"} => sequence[w] \in 1..(n + 1)
    /\ pc[w] \in {"hashed", "inserted"} /\ sequence[w] = n + 1 =>
         prev_hash[w] = LastHash(rows)
    /\ pc[w] = "inserted" => sequence[w] = n + 1
    /\ pc[w] = "conflict" => sequence[w] \in 1..n
    /\ \A v \in Requests : pc[w] = "inserted" /\ pc[v] = "inserted" => w = v

IInv ==
  /\ TypeOK
  /\ RecordedIffStored
  /\ Chained
  /\ \E n \in Nat : UpTo(rows, n) /\ ReadersOK(n)

-----------------------------------------------------------------------------
(* The last row of a table of n rows is row n.                              *)
LEMMA LastOfUpTo ==
  ASSUME NEW R \in SUBSET Row, NEW n \in Nat, UpTo(R, n)
  PROVE  /\ MaxSequence(R) = n
         /\ R = {} <=> n = 0
         /\ n > 0 => LastRow(R) \in R /\ LastRow(R).sequence = n
<1>1. R = {} <=> n = 0
  BY DEF UpTo
<1>2. CASE n = 0
  BY <1>1, <1>2 DEF MaxSequence
<1>3. CASE n > 0
  <2>1. PICK r \in R : r.sequence = n
    BY <1>3 DEF UpTo
  <2>2. IsLast(R, r)
    BY <2>1 DEF IsLast, UpTo
  <2>3. IsLast(R, LastRow(R))
    BY <2>2 DEF LastRow
  <2>4. LastRow(R) \in R /\ LastRow(R).sequence \in Nat /\ r.sequence <= LastRow(R).sequence
    BY <2>3, <2>1 DEF IsLast, Row
  <2>5. LastRow(R).sequence = n
    BY <2>4, <2>1 DEF UpTo
  <2>6. QED
    BY <2>4, <2>5, <1>1, <1>3 DEF MaxSequence
<1>4. QED
  BY <1>2, <1>3

(* The hash a request reads from a table of n rows.                         *)
LEMMA LastHashOfUpTo ==
  ASSUME NEW R \in SUBSET Row, NEW n \in Nat, UpTo(R, n)
  PROVE  /\ n = 0 => LastHash(R) = GENESIS_HASH
         /\ \A r \in R : r.sequence = n => LastHash(R) = r.record_hash
         /\ LastHash(R) \in Hashes
<1>1. /\ R = {} <=> n = 0
      /\ n > 0 => LastRow(R) \in R /\ LastRow(R).sequence = n
  BY LastOfUpTo
<1>2. \A r \in R : r.sequence = n => n > 0 /\ r = LastRow(R)
  BY <1>1 DEF UpTo
<1>3. GENESIS_HASH \in Hashes
  BY DEF GENESIS_HASH, Hashes
<1>4. \A r \in R : r.record_hash \in Hashes
  BY DEF Row
<1>5. QED
  BY <1>1, <1>2, <1>3, <1>4 DEF LastHash

LEMMA HashType ==
  ASSUME NEW s \in Nat, NEW p \in Hashes, NEW w \in Requests
  PROVE  ComputeRecordHash(s, p, w) \in Hashes
BY DEF ComputeRecordHash, Hashes

-----------------------------------------------------------------------------
(* The inductive invariant holds initially and is kept by every step.       *)
LEMMA InitIInv == Init => IInv
<1> SUFFICES ASSUME Init PROVE IInv
  OBVIOUS
<1>1. GENESIS_HASH \in Hashes
  BY DEF GENESIS_HASH, Hashes
<1>2. TypeOK
  BY <1>1 DEF Init, TypeOK, InFlight, Answered
<1>3. RecordedIffStored /\ Chained
  BY DEF Init, RecordedIffStored, Chained
<1>4. UpTo(rows, 0) /\ ReadersOK(0)
  BY DEF Init, UpTo, ReadersOK
<1>5. QED
  BY <1>2, <1>3, <1>4 DEF IInv

(* Committing keeps the table contiguous, chained and what readers know.    *)
LEMMA CommitStep ==
  ASSUME IInv, NEW w \in Requests, Commit(w), NEW n \in Nat, UpTo(rows, n), ReadersOK(n)
  PROVE  /\ rows' = rows \cup {RowOf(w)}
         /\ RowOf(w) \in Row
         /\ RowOf(w).sequence = n + 1
         /\ Chained'
         /\ UpTo(rows', n + 1)
         /\ ReadersOK(n + 1)'
         /\ RecordedIffStored'
<1>1. /\ pc[w] = "inserted"
      /\ pc' = [pc EXCEPT ![w] = "recorded"]
      /\ rows' = rows \cup {RowOf(w)}
      /\ sequence' = sequence /\ prev_hash' = prev_hash
  BY DEF Commit, Goto
<1>2. TypeOK /\ rows \in SUBSET Row
  BY DEF IInv, TypeOK
<1>3. sequence[w] = n + 1 /\ prev_hash[w] = LastHash(rows)
  BY <1>1 DEF ReadersOK
<1>4. /\ RowOf(w) \in Row
      /\ RowOf(w).sequence = n + 1
      /\ RowOf(w).event = w
      /\ RowOf(w).prev_hash = LastHash(rows)
      /\ Authentic(RowOf(w))
  <2>1. sequence[w] \in Nat /\ prev_hash[w] \in Hashes
    BY <1>2 DEF TypeOK
  <2>2. ComputeRecordHash(sequence[w], prev_hash[w], w) \in Hashes
    BY <2>1, HashType
  <2>3. QED
    BY <2>1, <2>2, <1>3 DEF RowOf, Row, Authentic
<1>5. UpTo(rows', n + 1)
  BY <1>1, <1>4 DEF UpTo
<1>6. Chained'
  <2>1. \A r \in rows' : Authentic(r)
    BY <1>1, <1>4 DEF IInv, Chained
  <2>2. \A r \in rows' : r.sequence = 1 => r.prev_hash = GENESIS_HASH
    <3>1. n = 0 => LastHash(rows) = GENESIS_HASH
      BY <1>2, LastHashOfUpTo
    <3>2. QED
      BY <3>1, <1>1, <1>4 DEF IInv, Chained
  <2>3. ASSUME NEW r \in rows', NEW s \in rows', r.sequence = s.sequence + 1
        PROVE  r.prev_hash = s.record_hash
    <3>1. s \in rows
      BY <2>3, <1>1, <1>4, <1>5 DEF UpTo
    <3>2. CASE r \in rows
      BY <3>1, <3>2, <2>3 DEF IInv, Chained
    <3>3. CASE r = RowOf(w)
      <4>1. s.sequence = n
        BY <3>1, <3>3, <2>3, <1>4 DEF UpTo
      <4>2. QED
        BY <4>1, <3>1, <3>3, <1>2, <1>4, LastHashOfUpTo
    <3>4. QED
      BY <3>2, <3>3, <1>1
  <2>4. QED
    BY <2>1, <2>2, <2>3 DEF Chained, Authentic
<1>7. ReadersOK(n + 1)'
  <2> SUFFICES ASSUME NEW v \in Requests
               PROVE  /\ pc'[v] \in {"sequenced", "hashed", "inserted"} => sequence[v] \in 1..(n + 2)
                      /\ pc'[v] \in {"hashed", "inserted"} => sequence[v] # n + 2
                      /\ pc'[v] # "inserted"
                      /\ pc'[v] = "conflict" => sequence[v] \in 1..(n + 1)
    BY <1>1 DEF ReadersOK
  <2>1. pc \in [Requests -> InFlight \cup Answered]
    BY <1>2 DEF TypeOK
  <2>2. CASE v = w
    BY <2>1, <2>2, <1>1
  <2>3. CASE v # w
    <3>1. pc'[v] = pc[v]
      BY <2>1, <2>3, <1>1
    <3>2. pc[v] # "inserted"
      BY <2>3, <1>1 DEF ReadersOK
    <3>3. QED
      BY <3>1, <3>2 DEF ReadersOK
  <2>4. QED
    BY <2>2, <2>3
<1>8. RecordedIffStored'
  <2>1. pc \in [Requests -> InFlight \cup Answered]
    BY <1>2 DEF TypeOK
  <2>2. ~ \E r \in rows : r.event = w
    BY <1>1 DEF IInv, RecordedIffStored
  <2>3. QED
    BY <2>1, <2>2, <1>1, <1>4 DEF IInv, RecordedIffStored
<1>9. QED
  BY <1>1, <1>4, <1>5, <1>6, <1>7, <1>8

(* A step of a transaction that has not committed leaves the table alone.   *)
LEMMA QuietStep ==
  ASSUME NEW w \in Requests,
         \/ ReadSequence(w) \/ ReadLastHash(w) \/ Insert(w) \/ Conflict(w) \/ Abort(w)
  PROVE  rows' = rows
BY DEF ReadSequence, ReadLastHash, Insert, Conflict, Abort

LEMMA NextIInv == IInv /\ [Next]_vars => IInv'
<1> SUFFICES ASSUME IInv, [Next]_vars PROVE IInv'
  OBVIOUS
<1>1. PICK n \in Nat : UpTo(rows, n) /\ ReadersOK(n)
  BY DEF IInv
<1>2. TypeOK /\ RecordedIffStored /\ Chained
  BY DEF IInv
<1>3. MaxSequence(rows) = n /\ LastHash(rows) \in Hashes
  BY <1>1, <1>2, LastOfUpTo, LastHashOfUpTo DEF TypeOK
<1>4. ASSUME NEW w \in Requests, ReadSequence(w) PROVE IInv'
  <2>1. /\ rows' = rows /\ prev_hash' = prev_hash
        /\ pc[w] = "received" /\ pc' = [pc EXCEPT ![w] = "sequenced"]
        /\ sequence' = [sequence EXCEPT ![w] = n + 1]
    BY <1>3, <1>4 DEF ReadSequence, Goto
  <2>2. TypeOK'
    BY <1>2, <2>1 DEF TypeOK, InFlight, Answered
  <2>3. RecordedIffStored' /\ Chained' /\ UpTo(rows', n)
    BY <1>1, <1>2, <2>1 DEF TypeOK, RecordedIffStored, Chained, UpTo, Authentic
  <2>4. ReadersOK(n)'
    BY <1>1, <1>2, <2>1 DEF TypeOK, ReadersOK, LastHash, LastRow, IsLast
  <2>5. QED
    BY <2>2, <2>3, <2>4 DEF IInv
<1>5. ASSUME NEW w \in Requests, ReadLastHash(w) PROVE IInv'
  <2>1. /\ rows' = rows /\ sequence' = sequence
        /\ pc[w] = "sequenced" /\ pc' = [pc EXCEPT ![w] = "hashed"]
        /\ prev_hash' = [prev_hash EXCEPT ![w] = LastHash(rows)]
    BY <1>5 DEF ReadLastHash, Goto
  <2>2. TypeOK'
    BY <1>2, <1>3, <2>1 DEF TypeOK, InFlight, Answered
  <2>3. RecordedIffStored' /\ Chained' /\ UpTo(rows', n)
    BY <1>1, <1>2, <2>1 DEF TypeOK, RecordedIffStored, Chained, UpTo, Authentic
  <2>4. LastHash(rows') = LastHash(rows)
    BY <2>1
  <2>5. ReadersOK(n)'
    BY <1>1, <1>2, <2>1, <2>4 DEF TypeOK, ReadersOK
  <2>6. QED
    BY <2>2, <2>3, <2>5 DEF IInv
<1>6. ASSUME NEW w \in Requests, Insert(w) PROVE IInv'
  <2>1. /\ rows' = rows /\ sequence' = sequence /\ prev_hash' = prev_hash
        /\ pc[w] = "hashed" /\ pc' = [pc EXCEPT ![w] = "inserted"]
    BY <1>6 DEF Insert, Goto
  <2>2. TypeOK'
    BY <1>2, <2>1 DEF TypeOK, InFlight, Answered
  <2>3. RecordedIffStored' /\ Chained' /\ UpTo(rows', n)
    BY <1>1, <1>2, <2>1 DEF TypeOK, RecordedIffStored, Chained, UpTo, Authentic
  <2>4. sequence[w] = n + 1
    <3>1. sequence[w] \in 1..(n + 1) /\ ~Taken(sequence[w])
      BY <1>1, <1>6, <2>1 DEF ReadersOK, Insert
    <3>2. QED
      BY <1>1, <3>1 DEF UpTo, Taken
  <2>5. \A v \in Requests : pc[v] = "inserted" => v = w
    BY <1>1, <1>6, <2>4 DEF ReadersOK, Insert, Contended
  <2>6. LastHash(rows') = LastHash(rows)
    BY <2>1
  <2>7. ReadersOK(n)'
    BY <1>1, <1>2, <2>1, <2>4, <2>5, <2>6 DEF TypeOK, ReadersOK
  <2>8. QED
    BY <2>2, <2>3, <2>7 DEF IInv
<1>7. ASSUME NEW w \in Requests, Conflict(w) PROVE IInv'
  <2>1. /\ rows' = rows /\ sequence' = sequence /\ prev_hash' = prev_hash
        /\ pc[w] = "hashed" /\ pc' = [pc EXCEPT ![w] = "conflict"]
    BY <1>7 DEF Conflict, Goto
  <2>2. TypeOK'
    BY <1>2, <2>1 DEF TypeOK, InFlight, Answered
  <2>3. RecordedIffStored' /\ Chained' /\ UpTo(rows', n)
    BY <1>1, <1>2, <2>1 DEF TypeOK, RecordedIffStored, Chained, UpTo, Authentic
  <2>4. sequence[w] \in 1..n
    BY <1>1, <1>7 DEF Conflict, Taken, UpTo
  <2>5. LastHash(rows') = LastHash(rows)
    BY <2>1
  <2>6. ReadersOK(n)'
    BY <1>1, <1>2, <2>1, <2>4, <2>5 DEF TypeOK, ReadersOK
  <2>7. QED
    BY <2>2, <2>3, <2>6 DEF IInv
<1>8. ASSUME NEW w \in Requests, Commit(w) PROVE IInv'
  <2>1. /\ rows' = rows \cup {RowOf(w)} /\ RowOf(w) \in Row
        /\ Chained' /\ UpTo(rows', n + 1) /\ ReadersOK(n + 1)' /\ RecordedIffStored'
    BY <1>1, <1>8, CommitStep
  <2>2. TypeOK'
    BY <1>2, <1>8, <2>1 DEF Commit, Goto, TypeOK, InFlight, Answered
  <2>3. n + 1 \in Nat
    OBVIOUS
  <2>4. QED
    BY <2>1, <2>2, <2>3 DEF IInv
<1>9. ASSUME NEW w \in Requests, Abort(w) PROVE IInv'
  <2>1. /\ rows' = rows /\ sequence' = sequence /\ prev_hash' = prev_hash
        /\ pc[w] \in InFlight /\ pc' = [pc EXCEPT ![w] = "aborted"]
    BY <1>9 DEF Abort
  <2>2. TypeOK'
    BY <1>2, <2>1 DEF TypeOK, InFlight, Answered
  <2>3. RecordedIffStored' /\ Chained' /\ UpTo(rows', n)
    BY <1>1, <1>2, <2>1 DEF TypeOK, RecordedIffStored, Chained, UpTo, Authentic, InFlight
  <2>4. LastHash(rows') = LastHash(rows)
    BY <2>1
  <2>5. ReadersOK(n)'
    BY <1>1, <1>2, <2>1, <2>4 DEF TypeOK, ReadersOK
  <2>6. QED
    BY <2>2, <2>3, <2>5 DEF IInv
<1>10. CASE UNCHANGED vars
  <2>1. /\ rows' = rows /\ sequence' = sequence /\ prev_hash' = prev_hash /\ pc' = pc
        /\ LastHash(rows') = LastHash(rows)
    BY <1>10 DEF vars
  <2>2. TypeOK'
    BY <1>2, <1>10 DEF vars, TypeOK
  <2>3. RecordedIffStored' /\ Chained' /\ UpTo(rows', n)
    BY <1>1, <1>2, <1>10 DEF vars, RecordedIffStored, Chained, UpTo, Authentic
  <2>4. ReadersOK(n)'
    BY <1>1, <2>1 DEF ReadersOK
  <2>5. QED
    BY <2>2, <2>3, <2>4 DEF IInv
<1>11. QED
  BY <1>4, <1>5, <1>6, <1>7, <1>8, <1>9, <1>10 DEF Next, Proceed

LEMMA InductiveInvariant == Spec => []IInv
<1>1. Init => IInv
  BY InitIInv
<1>2. IInv /\ [Next]_vars => IInv'
  BY NextIInv
<1>3. QED
  BY <1>1, <1>2, PTL DEF Spec

-----------------------------------------------------------------------------
(* Type correctness of the table and of append_event's locals.              *)
THEOREM TypeCorrect == Spec => []TypeOK
<1>1. IInv => TypeOK
  BY DEF IInv
<1>2. QED
  BY <1>1, InductiveInvariant, PTL

(* The sequences of the table are 1..n without gap or repetition, however   *)
(* many requests race in append_event.                                      *)
THEOREM AlwaysContiguous == Spec => []Contiguous
<1>1. IInv => Contiguous
  <2> SUFFICES ASSUME IInv PROVE Contiguous
    OBVIOUS
  <2>1. PICK n \in Nat : UpTo(rows, n)
    BY DEF IInv
  <2>2. UniqueSequences /\ \A r \in rows : r.sequence >= 1
    BY <2>1 DEF UpTo, UniqueSequences
  <2>3. NoGaps
    <3> SUFFICES ASSUME NEW r \in rows, r.sequence > 1
                 PROVE  \E s \in rows : s.sequence = r.sequence - 1
      BY DEF NoGaps
    <3>1. r.sequence \in 1..n
      BY <2>1 DEF UpTo
    <3>2. r.sequence - 1 \in 1..n
      BY <3>1
    <3>3. QED
      BY <3>2, <2>1 DEF UpTo
  <2>4. QED
    BY <2>2, <2>3 DEF Contiguous
<1>2. QED
  BY <1>1, InductiveInvariant, PTL

(* Every row of a log that only append_event has written is linked.         *)
LEMMA AllLinked == ASSUME IInv, NEW r \in rows PROVE Linked(rows, r) /\ Authentic(r)
<1>1. PICK n \in Nat : UpTo(rows, n)
  BY DEF IInv
<1>2. rows \in SUBSET Row /\ Chained
  BY DEF IInv, TypeOK
<1> DEFINE m == r.sequence - 1
           B == Before(rows, r)
<1>3. r.sequence \in 1..n /\ m \in Nat
  BY <1>1 DEF UpTo
<1>4. B \in SUBSET Row
  BY <1>2 DEF Before
<1>5. UpTo(B, m)
  BY <1>1, <1>3 DEF UpTo, Before
<1>6. /\ m = 0 => LastHash(B) = GENESIS_HASH
      /\ \A s \in B : s.sequence = m => LastHash(B) = s.record_hash
  <2> HIDE DEF m, B
  <2> QED
    BY <1>3, <1>4, <1>5, LastHashOfUpTo
<1>7. CASE m = 0
  BY <1>3, <1>6, <1>7, <1>2 DEF Linked, Chained
<1>8. CASE m > 0
  <2>1. PICK s \in B : s.sequence = m
    BY <1>3, <1>5, <1>8 DEF UpTo
  <2>2. s \in rows /\ r.sequence = s.sequence + 1
    BY <2>1, <1>3 DEF Before
  <2>3. r.prev_hash = s.record_hash
    BY <2>2, <1>2 DEF Chained
  <2>4. QED
    BY <2>1, <2>3, <1>6, <1>2 DEF Linked, Chained
<1>9. QED
  BY <1>3, <1>7, <1>8

(* verify_chain accepts every log that only append_event has written.       *)
THEOREM HonestLogAlwaysVerifies == Spec => []HonestLogVerifies
<1>1. IInv => HonestLogVerifies
  <2>1. IInv => Broken(rows) = {}
    BY AllLinked DEF Broken
  <2>2. QED
    BY <2>1 DEF HonestLogVerifies, VerifyChain
<1>2. QED
  BY <1>1, InductiveInvariant, PTL

(* A request whose insert fails on its sequence was overtaken by one whose  *)
(* event is in the log under that sequence.                                 *)
THEOREM AlwaysLostOnlyToAnother == Spec => []LostOnlyToAnother
<1>1. IInv => LostOnlyToAnother
  <2> SUFFICES ASSUME IInv, NEW w \in Requests, pc[w] = "conflict"
               PROVE  \E r \in rows : r.sequence = sequence[w] /\ pc[r.event] = "recorded"
    BY DEF LostOnlyToAnother
  <2>1. PICK n \in Nat : UpTo(rows, n) /\ ReadersOK(n)
    BY DEF IInv
  <2>2. PICK r \in rows : r.sequence = sequence[w]
    BY <2>1 DEF ReadersOK, UpTo
  <2>3. r.event \in Requests
    BY DEF IInv, TypeOK, Row
  <2>4. QED
    BY <2>2, <2>3 DEF IInv, RecordedIffStored
<1>2. QED
  BY <1>1, InductiveInvariant, PTL

(* The log holds exactly the events of the requests answered 200, once each.*)
THEOREM AlwaysRecordedIffStored == Spec => []RecordedIffStored
<1>1. IInv => RecordedIffStored
  BY DEF IInv
<1>2. QED
  BY <1>1, InductiveInvariant, PTL

(* Only a commit changes the table.                                         *)
LEMMA StepKinds == [Next]_vars => rows' = rows \/ \E w \in Requests : Commit(w)
BY QuietStep DEF Next, Proceed, vars

(* No step changes or removes a recorded event, or records one before another.*)
THEOREM AlwaysAppendOnly == Spec => AppendOnly
<1>1. IInv /\ [Next]_vars => [AppendsAtTail]_vars
  <2> SUFFICES ASSUME IInv, [Next]_vars PROVE AppendsAtTail
    OBVIOUS
  <2>1. CASE rows' = rows
    BY <2>1 DEF AppendsAtTail
  <2>2. ASSUME NEW w \in Requests, Commit(w) PROVE AppendsAtTail
    <3>1. PICK n \in Nat : UpTo(rows, n) /\ ReadersOK(n)
      BY DEF IInv
    <3>2. rows' = rows \cup {RowOf(w)} /\ RowOf(w).sequence = n + 1
      BY <2>2, <3>1, CommitStep
    <3>3. QED
      BY <3>1, <3>2 DEF AppendsAtTail, UpTo
  <2>3. QED
    BY <2>1, <2>2, StepKinds
<1>2. QED
  BY <1>1, InductiveInvariant, PTL DEF Spec, AppendOnly

(* append_event implements the append-only list: the table, read in         *)
(* sequence order, starts empty and every step appends one new event to it  *)
(* or leaves it as it is.                                                   *)
THEOREM Refinement == Spec => ImplementsLog
<1>1. Init => Log!Init
  <2> SUFFICES ASSUME Init PROVE LogView = << >>
    BY DEF Log!Init
  <2>1. MaxSequence(rows) = 0
    BY DEF Init, MaxSequence
  <2>2. QED
    BY <2>1 DEF LogView
<1>2. IInv /\ [Next]_vars => [Log!Next]_LogView
  <2> SUFFICES ASSUME IInv, [Next]_vars PROVE [Log!Next]_LogView
    OBVIOUS
  <2>1. CASE rows' = rows
    BY <2>1 DEF LogView, EventAt, MaxSequence, LastRow, IsLast
  <2>2. ASSUME NEW w \in Requests, Commit(w) PROVE Log!Record(w)
    <3>1. PICK n \in Nat : UpTo(rows, n) /\ ReadersOK(n)
      BY DEF IInv
    <3>2. rows \in SUBSET Row
      BY DEF IInv, TypeOK
    <3>3. /\ rows' = rows \cup {RowOf(w)} /\ RowOf(w) \in Row
          /\ RowOf(w).sequence = n + 1 /\ RowOf(w).event = w
          /\ UpTo(rows', n + 1)
      BY <2>2, <3>1, CommitStep DEF RowOf
    <3>4. MaxSequence(rows) = n /\ MaxSequence(rows') = n + 1
      BY <3>1, <3>2, <3>3, LastOfUpTo
    <3>5. \A r \in rows : EventAt(r.sequence) = r.event
      BY <3>1 DEF EventAt, UpTo
    <3>6. \A r \in rows' : EventAt(r.sequence)' = r.event
      BY <3>3 DEF EventAt, UpTo
    <3>7. \A i \in 1..n : EventAt(i) \in Requests /\ EventAt(i)' = EventAt(i)
      BY <3>1, <3>2, <3>3, <3>5, <3>6 DEF UpTo, Row
    <3>8. EventAt(n + 1)' = w
      BY <3>3, <3>6
    <3>9. LogView = [i \in 1..n |-> EventAt(i)] /\ LogView \in Seq(Requests) /\ Len(LogView) = n
      BY <3>4, <3>7 DEF LogView
    <3>10. LogView' = [i \in 1..(n + 1) |-> EventAt(i)']
      BY <3>4 DEF LogView
    <3>11. LogView' = Append(LogView, w)
      BY <3>7, <3>8, <3>9, <3>10
    <3>12. \A i \in 1..n : LogView[i] # w
      <4>1. pc[w] = "inserted"
        BY <2>2 DEF Commit, Goto
      <4>2. \A r \in rows : r.event # w
        BY <4>1 DEF IInv, RecordedIffStored
      <4>3. QED
        BY <4>2, <3>1, <3>5, <3>9 DEF UpTo
    <3>13. QED
      BY <3>9, <3>11, <3>12 DEF Log!Record
  <2>3. QED
    BY <2>1, <2>2, StepKinds DEF Log!Next
<1>3. QED
  BY <1>1, <1>2, InductiveInvariant, PTL DEF Spec, ImplementsLog, Log!Spec

-----------------------------------------------------------------------------
(* A changed table.  The inductive invariant: the rows before the change    *)
(* are as append_event left them and nothing comes between them any more;   *)
(* and a row is left that no longer is what its hash was made of, or whose  *)
(* predecessor's hash no row has or will ever have again.                   *)
Earlier(R, m) == {s \in R : s.sequence < m}

PrefixKept ==
  /\ where \in Nat \ {0}
  /\ UpTo(Earlier(rows, where), where - 1)
  /\ \A r \in Earlier(rows, where) : Authentic(r) /\ Linked(rows, r)
  /\ \A w \in Requests : pc[w] = "inserted" => sequence[w] >= where

(* Its last record is of an event that is in the table no more.             *)
Gone(hash) ==
  /\ hash # GENESIS_HASH /\ pc[hash[Len(hash)][2]] = "recorded"
  /\ \A s \in rows : s.record_hash # hash

Scar == \E r \in rows : ~Authentic(r) \/ Gone(r.prev_hash)

Bounded(R) == \E k \in Nat : \A r \in R : r.sequence <= k

DamageInv ==
  /\ TypeOK /\ damage \in Kinds
  /\ IsFiniteSet(rows) /\ Bounded(rows)
  /\ \A w \in Requests : pc[w] \in {"sequenced", "hashed", "inserted"} => sequence[w] >= 1
  /\ damage = "none" => IInv
  /\ Evident => PrefixKept /\ Scar

(* A set of numbers has a least one.                                        *)
LEMMA LeastNumber ==
  ASSUME NEW T \in SUBSET Nat, T # {}
  PROVE  \E m \in T : \A n \in T : m <= n
<1> DEFINE R == OpToRel(<, Nat)
<1>1. \A m, n \in Nat : m < n => <<m, n>> \in R
  BY DEF OpToRel
<1>2. IsWellFoundedOn(R, Nat)
  BY NatLessThanWellFounded DEF OpToRel, IsWellFoundedOn
<1> HIDE DEF R
<1>3. PICK m \in T : \A n \in T : ~ (<<n, m>> \in R)
  BY <1>2, WFMin
<1>4. \A n \in T : ~ (n < m)
  BY <1>1, <1>3
<1> QED  BY <1>3, <1>4

(* Rows whose sequences have a bound have a last one, with its hash.        *)
LEMMA LastOfBounded ==
  ASSUME NEW R \in SUBSET Row, Bounded(R)
  PROVE  /\ R # {} => LastRow(R) \in R /\ \A r \in R : r.sequence <= LastRow(R).sequence
         /\ MaxSequence(R) \in Nat /\ LastHash(R) \in Hashes
<1>1. \A r \in R : r.sequence \in Nat /\ r.record_hash \in Hashes
  BY DEF Row
<1>2. ASSUME R # {} PROVE \E r \in R : IsLast(R, r)
  <2> DEFINE K == {k \in Nat : \A r \in R : r.sequence <= k}
  <2>1. PICK m \in K : \A k \in K : m <= k
    BY LeastNumber DEF Bounded
  <2>2. CASE \E r \in R : r.sequence = m
    BY <2>2 DEF IsLast
  <2>3. CASE \A r \in R : r.sequence # m
    <3>1. \A r \in R : r.sequence \in Nat /\ r.sequence < m
      BY <1>1, <2>3
    <3>2. m - 1 \in Nat /\ \A r \in R : r.sequence <= m - 1
      BY <3>1, <1>2
    <3> QED  BY <2>1, <3>2
  <2> QED  BY <2>2, <2>3
<1>3. R # {} => IsLast(R, LastRow(R))
  BY <1>2 DEF LastRow
<1>4. GENESIS_HASH \in Hashes
  BY DEF GENESIS_HASH, Hashes
<1> QED  BY <1>1, <1>3, <1>4 DEF IsLast, MaxSequence, LastHash

(* An empty table has no row out of place.                                  *)
LEMMA DamageInitInv == DamageInit => DamageInv
<1> SUFFICES ASSUME DamageInit PROVE DamageInv
  OBVIOUS
<1>1. IInv
  BY InitIInv DEF DamageInit
<1>2. IsFiniteSet(rows) /\ Bounded(rows) /\ \A w \in Requests : pc[w] = "received"
  BY FS_EmptySet DEF DamageInit, Init, Bounded
<1> QED  BY <1>1, <1>2 DEF DamageInit, DamageInv, IInv, Kinds, Evident

-----------------------------------------------------------------------------
(* Where the rows before m are the same, so are their links.                *)
LEMMA SamePrefix ==
  ASSUME NEW R, NEW T, R \in SUBSET Row, NEW m \in Nat, Earlier(T, m) = Earlier(R, m),
         NEW r \in Earlier(R, m), T \in SUBSET Row
  PROVE  r \in R /\ r \in T /\ (Linked(T, r) <=> Linked(R, r))
<1>1. r \in R /\ r \in T /\ r.sequence \in Nat /\ r.sequence < m
  BY DEF Earlier, Row
<1>2. Before(T, r) = Before(R, r)
  <2>1. ASSUME NEW s PROVE s \in Before(T, r) <=> s \in Before(R, r)
    <3>1. s \in Before(T, r) => s \in Earlier(T, m)
      BY <1>1 DEF Before, Earlier, Row
    <3>2. s \in Before(R, r) => s \in Earlier(R, m)
      BY <1>1 DEF Before, Earlier, Row
    <3> QED  BY <3>1, <3>2 DEF Before, Earlier
  <2> QED  BY <2>1
<1> QED  BY <1>1, <1>2 DEF Linked

(* The types a step of append_event keeps, also on a changed table.         *)
LEMMA StepTypes ==
  ASSUME TypeOK, Bounded(rows), IsFiniteSet(rows),
         \A w \in Requests : pc[w] \in {"sequenced", "hashed", "inserted"} => sequence[w] >= 1,
         Next
  PROVE  /\ TypeOK' /\ Bounded(rows') /\ IsFiniteSet(rows')
         /\ \A w \in Requests :
              pc'[w] \in {"sequenced", "hashed", "inserted"} => sequence'[w] >= 1
<1>1. MaxSequence(rows) \in Nat /\ LastHash(rows) \in Hashes
  BY LastOfBounded DEF TypeOK
<1>2. /\ rows \in SUBSET Row /\ pc \in [Requests -> InFlight \cup Answered]
      /\ sequence \in [Requests -> Nat] /\ prev_hash \in [Requests -> Hashes]
  BY DEF TypeOK
<1>3. ASSUME NEW w \in Requests, ReadSequence(w)
      PROVE  /\ TypeOK' /\ rows' = rows
             /\ \A v \in Requests :
                  pc'[v] \in {"sequenced", "hashed", "inserted"} => sequence'[v] >= 1
  <2>1. /\ rows' = rows /\ prev_hash' = prev_hash /\ pc' = [pc EXCEPT ![w] = "sequenced"]
        /\ sequence' = [sequence EXCEPT ![w] = MaxSequence(rows) + 1]
    BY <1>3 DEF ReadSequence, Goto
  <2>2. PICK next \in Nat : next = MaxSequence(rows) + 1 /\ next >= 1
    BY <1>1
  <2> QED  BY <1>2, <2>1, <2>2 DEF TypeOK, InFlight, Answered
<1>4. ASSUME NEW w \in Requests, ReadLastHash(w)
      PROVE  /\ TypeOK' /\ rows' = rows
             /\ \A v \in Requests :
                  pc'[v] \in {"sequenced", "hashed", "inserted"} => sequence'[v] >= 1
  <2>1. /\ rows' = rows /\ sequence' = sequence /\ pc' = [pc EXCEPT ![w] = "hashed"]
        /\ pc[w] = "sequenced" /\ prev_hash' = [prev_hash EXCEPT ![w] = LastHash(rows)]
    BY <1>4 DEF ReadLastHash, Goto
  <2> QED  BY <1>1, <1>2, <2>1 DEF TypeOK, InFlight, Answered
<1>5. ASSUME NEW w \in Requests, Insert(w) \/ Conflict(w) \/ Abort(w)
      PROVE  /\ TypeOK' /\ rows' = rows
             /\ \A v \in Requests :
                  pc'[v] \in {"sequenced", "hashed", "inserted"} => sequence'[v] >= 1
  <2>1. /\ rows' = rows /\ sequence' = sequence /\ prev_hash' = prev_hash
        /\ \/ pc[w] = "hashed" /\ pc' = [pc EXCEPT ![w] = "inserted"]
           \/ pc' = [pc EXCEPT ![w] = "conflict"]
           \/ pc' = [pc EXCEPT ![w] = "aborted"]
    BY <1>5 DEF Insert, Conflict, Abort, Goto
  <2> QED  BY <1>2, <2>1 DEF TypeOK, InFlight, Answered
<1>6. ASSUME NEW w \in Requests, Commit(w)
      PROVE  /\ TypeOK' /\ rows' = rows \cup {RowOf(w)} /\ RowOf(w) \in Row
             /\ \A v \in Requests :
                  pc'[v] \in {"sequenced", "hashed", "inserted"} => sequence'[v] >= 1
  <2>1. /\ rows' = rows \cup {RowOf(w)} /\ sequence' = sequence /\ prev_hash' = prev_hash
        /\ pc' = [pc EXCEPT ![w] = "recorded"]
    BY <1>6 DEF Commit, Goto
  <2>2. sequence[w] \in Nat /\ prev_hash[w] \in Hashes
    BY <1>2
  <2>3. RowOf(w) \in Row
    BY <2>2, HashType DEF RowOf, Row
  <2> QED  BY <1>2, <2>1, <2>3 DEF TypeOK, InFlight, Answered
<1>7. ASSUME NEW row \in Row, rows' = rows \cup {row}
      PROVE  Bounded(rows') /\ IsFiniteSet(rows')
  <2>1. PICK k \in Nat : \A r \in rows : r.sequence <= k
    BY DEF Bounded
  <2>2. row.sequence \in Nat /\ \A r \in rows : r.sequence \in Nat
    BY <1>2 DEF Row
  <2>3. k + row.sequence \in Nat /\ \A r \in rows' : r.sequence <= k + row.sequence
    BY <1>7, <2>1, <2>2
  <2> QED  BY <1>7, <2>3, FS_AddElement DEF Bounded
<1> QED  BY <1>3, <1>4, <1>5, <1>6, <1>7 DEF Next, Proceed

(* Once the table is changed, append_event comes after the change, and      *)
(* heals nothing.                                                           *)
LEMMA AppendKeeps ==
  ASSUME DamageInv, Evident, Next, UNCHANGED <<damage, where>>
  PROVE  PrefixKept' /\ Scar'
<1>1. /\ TypeOK /\ rows \in SUBSET Row /\ pc \in [Requests -> InFlight \cup Answered]
      /\ TypeOK' /\ rows' \in SUBSET Row
      /\ PrefixKept /\ Scar
      /\ \A w \in Requests : pc[w] \in {"sequenced", "hashed", "inserted"} => sequence[w] >= 1
      /\ sequence \in [Requests -> Nat]
  BY StepTypes DEF DamageInv, TypeOK
<1>2. PICK m \in Nat : m = where /\ m # 0
  BY <1>1 DEF PrefixKept
<1>3. /\ UpTo(Earlier(rows, m), m - 1) /\ where' = m
      /\ \A r \in Earlier(rows, m) : Authentic(r) /\ Linked(rows, r)
      /\ \A w \in Requests : pc[w] = "inserted" => sequence[w] >= m
  BY <1>1, <1>2 DEF PrefixKept
<1>4. PICK w \in Requests : Proceed(w) \/ Abort(w)
  BY DEF Next
<1>5. /\ pc'[w] # "recorded" => pc[w] # "recorded"
      /\ \A v \in Requests \ {w} : pc'[v] = pc[v] /\ sequence'[v] = sequence[v]
      /\ pc[w] # "recorded"
      /\ pc'[w] = "inserted" => Insert(w)
  BY <1>1, <1>4 DEF Proceed, Abort, ReadSequence, ReadLastHash, Insert, Conflict, Commit, Goto, InFlight
<1>6. \A v \in Requests : pc'[v] = "inserted" => sequence'[v] >= m
  <2>1. ASSUME Insert(w) PROVE sequence'[w] >= m
    <3>1. sequence'[w] = sequence[w] /\ sequence[w] >= 1 /\ ~Taken(sequence[w]) /\ sequence[w] \in Nat
      BY <1>1, <2>1 DEF Insert, Goto
    <3>2. \A i \in 1..(m - 1) : \E r \in rows : r.sequence = i
      BY <1>3 DEF UpTo, Earlier
    <3>3. sequence[w] \notin 1..(m - 1)
      BY <3>1, <3>2 DEF Taken
    <3> QED  BY <1>2, <3>1, <3>3
  <2> QED  BY <1>3, <1>5, <2>1
<1>7. CASE Commit(w)
  <2>1. PICK row : row = RowOf(w)
    OBVIOUS
  <2>2. /\ rows' = rows \cup {row} /\ pc[w] = "inserted"
        /\ row.sequence = sequence[w] /\ row.sequence >= m /\ row.sequence \in Nat
        /\ row.record_hash = Append(prev_hash[w], <<sequence[w], w>>)
        /\ prev_hash[w] \in Hashes /\ prev_hash[w] \in Seq(Nat \X Requests)
    BY <1>1, <1>3, <1>7, <2>1
       DEF Commit, Goto, RowOf, ComputeRecordHash, TypeOK, Hashes
  <2>3. Earlier(rows', m) = Earlier(rows, m)
    <3>1. ~(row.sequence < m)
      BY <2>2
    <3> QED  BY <2>2, <3>1 DEF Earlier
  <2>4. PrefixKept'
    <3>1. \A r \in Earlier(rows', m) : Authentic(r) /\ Linked(rows', r)
      BY <1>1, <1>3, <2>3, SamePrefix
    <3> QED  BY <1>2, <1>3, <1>6, <2>3, <3>1 DEF PrefixKept, Authentic
  <2>5. ASSUME NEW r \in rows, Gone(r.prev_hash) PROVE Gone(r.prev_hash)'
    <3>1. PICK hash : hash = r.prev_hash
      OBVIOUS
    <3>2. /\ hash # GENESIS_HASH /\ pc[hash[Len(hash)][2]] = "recorded"
          /\ \A s \in rows : s.record_hash # hash
      BY <2>5, <3>1 DEF Gone
    <3>3. row.record_hash # hash
      <4>1. /\ Len(row.record_hash) = Len(prev_hash[w]) + 1
            /\ row.record_hash[Len(prev_hash[w]) + 1] = <<sequence[w], w>>
        BY <2>2
      <4>2. row.record_hash[Len(row.record_hash)][2] = w
        BY <4>1
      <4> QED  BY <2>2, <3>2, <4>2
    <3>4. hash \in Seq(Nat \X Requests) /\ Len(hash) \in DOMAIN hash
      <4>1. hash \in Seq(Nat \X Requests)
        BY <1>1, <3>1 DEF Row, Hashes
      <4> QED  BY <3>2, <4>1 DEF GENESIS_HASH
    <3>5. PICK e \in Requests : e = hash[Len(hash)][2]
      BY <3>4
    <3>6. pc'[e] = "recorded"
      BY <1>5, <3>2, <3>5
    <3> QED  BY <2>2, <3>1, <3>2, <3>3, <3>5, <3>6 DEF Gone, GENESIS_HASH
  <2>6. Scar'
    BY <1>1, <2>2, <2>5 DEF Scar, Authentic
  <2> QED  BY <2>4, <2>6
<1>8. CASE ~Commit(w)
  <2>1. rows' = rows
    BY <1>4, <1>8, QuietStep DEF Proceed
  <2>2. PrefixKept'
    BY <1>2, <1>3, <1>6, <2>1 DEF PrefixKept, Authentic
  <2>3. ASSUME NEW r \in rows, Gone(r.prev_hash) PROVE Gone(r.prev_hash)'
    <3>1. PICK hash : hash = r.prev_hash
      OBVIOUS
    <3>2. /\ hash # GENESIS_HASH /\ pc[hash[Len(hash)][2]] = "recorded"
          /\ \A s \in rows : s.record_hash # hash
      BY <2>3, <3>1 DEF Gone
    <3>3. hash \in Seq(Nat \X Requests) /\ Len(hash) \in DOMAIN hash
      <4>1. hash \in Seq(Nat \X Requests)
        BY <1>1, <3>1 DEF Row, Hashes
      <4> QED  BY <3>2, <4>1 DEF GENESIS_HASH
    <3>4. PICK e \in Requests : e = hash[Len(hash)][2]
      BY <3>3
    <3>5. pc'[e] = "recorded"
      BY <1>5, <3>2, <3>4
    <3> QED  BY <2>1, <3>1, <3>2, <3>4, <3>5 DEF Gone, GENESIS_HASH
  <2>4. Scar'
    BY <1>1, <2>1, <2>3 DEF Scar, Authentic
  <2> QED  BY <2>2, <2>4
<1> QED  BY <1>7, <1>8
(* A change at row m of a sound table leaves what comes before as it is.    *)
LEMMA ChangeKeepsPrefix ==
  ASSUME IInv, IsFiniteSet(rows), NEW r \in rows, NEW table \in SUBSET Row,
         NEW kind \in Kinds \ {"none"},
         IsFiniteSet(table), Damaged(kind, r.sequence, table),
         Earlier(table, r.sequence) = Earlier(rows, r.sequence),
         \A t \in table : \E s \in rows : t.sequence <= s.sequence + 1,
         Evident' => Scar'
  PROVE  DamageInv'
<1>1. PICK n \in Nat : UpTo(rows, n) /\ ReadersOK(n)
  BY DEF IInv
<1>2. PICK m \in Nat : m = r.sequence /\ m \in 1..n
  BY <1>1 DEF UpTo
<1>3. /\ damage' = kind /\ where' = m /\ rows' = table /\ damage = "none"
      /\ pc' = pc /\ sequence' = sequence /\ prev_hash' = prev_hash
  BY <1>2 DEF Damaged
<1>4. TypeOK'
  BY <1>3 DEF IInv, TypeOK
<1>5. Bounded(rows')
  <2>1. \A t \in table : t.sequence \in Nat /\ t.sequence <= n + 1
    BY <1>1 DEF UpTo, Row
  <2> QED  BY <1>3, <2>1 DEF Bounded
<1>6. \A w \in Requests : /\ pc[w] \in {"sequenced", "hashed", "inserted"} => sequence[w] >= 1
                          /\ pc[w] = "inserted" => sequence[w] >= m
  BY <1>1, <1>2 DEF ReadersOK
<1>7. Earlier(rows, m) = Earlier(rows', m)
  BY <1>2, <1>3
<1>8. UpTo(Earlier(rows, m), m - 1)
  BY <1>1, <1>2 DEF UpTo, Earlier
<1>9. \A s \in Earlier(rows, m) : Authentic(s) /\ Linked(rows', s)
  <2>1. rows \in SUBSET Row
    BY DEF IInv, TypeOK
  <2> QED  BY <1>3, <1>7, <2>1, AllLinked, SamePrefix DEF Earlier
<1>10. PrefixKept'
  BY <1>2, <1>3, <1>6, <1>7, <1>8, <1>9 DEF PrefixKept, Authentic
<1> QED  BY <1>3, <1>4, <1>5, <1>6, <1>10 DEF DamageInv

(* What a hash was made of can be read from it.                             *)
LEMMA HashesDiffer ==
  ASSUME NEW p \in Hashes, NEW q \in Hashes, NEW i \in Nat, NEW j \in Nat,
         NEW e \in Requests, NEW f \in Requests,
         ComputeRecordHash(i, p, e) = ComputeRecordHash(j, q, f)
  PROVE  i = j /\ p = q /\ e = f
<1>1. /\ p \in Seq(Nat \X Requests) /\ q \in Seq(Nat \X Requests)
      /\ Append(p, <<i, e>>) = Append(q, <<j, f>>)
  BY DEF Hashes, ComputeRecordHash
<1>2. PICK x \in Nat \X Requests, y \in Nat \X Requests : x = <<i, e>> /\ y = <<j, f>>
  OBVIOUS
<1>3. p = q /\ x = y
  BY <1>1, <1>2, AppendInjective
<1> QED  BY <1>2, <1>3

(* One column of a row is changed.                                          *)
LEMMA EditKeeps ==
  ASSUME IInv, IsFiniteSet(rows), NEW r \in rows, NEW new \in Row,
         new.sequence \in {r.sequence, MaxSequence(rows) + 1}, ~Authentic(new),
         Damaged("edited", r.sequence, Substitute(r, new))
  PROVE  DamageInv'
<1>1. PICK n \in Nat : UpTo(rows, n)
  BY DEF IInv
<1>2. rows \in SUBSET Row /\ MaxSequence(rows) = n
  BY <1>1, LastOfUpTo DEF IInv, TypeOK
<1>3. r.sequence \in 1..n /\ r.sequence \in Nat /\ new.sequence \in Nat /\ new.sequence >= r.sequence
  BY <1>1, <1>2 DEF UpTo
<1>4. PICK table : table = Substitute(r, new)
  OBVIOUS
<1>5. table \in SUBSET Row /\ IsFiniteSet(table)
  <2>1. IsFiniteSet(rows \ {r})
    BY FS_RemoveElement
  <2> QED  BY <2>1, <1>2, <1>4, FS_AddElement DEF Substitute
<1>6. Earlier(table, r.sequence) = Earlier(rows, r.sequence)
  BY <1>2, <1>3, <1>4 DEF Substitute, Earlier
<1>7. \A t \in table : \E s \in rows : t.sequence <= s.sequence + 1
  <2>1. \E s \in rows : s.sequence = n
    BY <1>1, <1>3 DEF UpTo
  <2>2. \E s \in rows : new.sequence <= s.sequence + 1
    BY <2>1, <1>2, <1>3
  <2>3. \A t \in rows : t.sequence <= t.sequence + 1
    BY <1>1 DEF UpTo
  <2> QED  BY <2>2, <2>3, <1>4 DEF Substitute
<1>8. Scar'
  <2>1. new \in rows'
    BY DEF Damaged, Substitute
  <2> QED  BY <2>1 DEF Scar, Authentic
<1>9. PICK kind \in Kinds \ {"none"} : kind = "edited"
  BY DEF Kinds
<1>10. Damaged(kind, r.sequence, table)
  BY <1>4, <1>9
<1> QED  BY <1>5, <1>6, <1>7, <1>8, <1>10, ChangeKeepsPrefix

(* An edited row is not what its hash was made of, whatever its column.     *)
LEMMA EditRowInv ==
  ASSUME IInv, IsFiniteSet(rows), EditRow PROVE DamageInv'
<1>1. PICK n \in Nat : UpTo(rows, n)
  BY DEF IInv
<1>2. rows \in SUBSET Row /\ MaxSequence(rows) = n /\ \A s \in rows : Authentic(s)
  BY <1>1, LastOfUpTo, AllLinked DEF IInv, TypeOK
<1>3. PICK r \in rows :
        \/ \E e \in Requests \ {r.event} :
             Damaged("edited", r.sequence, Substitute(r, [r EXCEPT !.event = e]))
        \/ \E s \in rows : s.record_hash # r.record_hash /\
             Damaged("edited", r.sequence, Substitute(r, [r EXCEPT !.record_hash = s.record_hash]))
        \/ \E s \in rows : s.record_hash # r.prev_hash /\
             Damaged("edited", r.sequence, Substitute(r, [r EXCEPT !.prev_hash = s.record_hash]))
        \/ Damaged("edited", r.sequence, Substitute(r, [r EXCEPT !.sequence = MaxSequence(rows) + 1]))
  BY DEF EditRow
<1>4. /\ r.sequence \in Nat /\ r.event \in Requests /\ r.prev_hash \in Hashes
      /\ r.record_hash \in Hashes /\ r.sequence <= n
      /\ r.record_hash = ComputeRecordHash(r.sequence, r.prev_hash, r.event)
      /\ r = [sequence |-> r.sequence, event |-> r.event, prev_hash |-> r.prev_hash,
              record_hash |-> r.record_hash]
  BY <1>1, <1>2 DEF Row, Authentic, UpTo
<1>5. PICK i \in Nat, e \in Requests, p \in Hashes, h \in Hashes :
        i = r.sequence /\ e = r.event /\ p = r.prev_hash /\ h = r.record_hash
  BY <1>4
<1>6. /\ \A f \in Requests \ {e} : h # ComputeRecordHash(i, p, f)
      /\ \A q \in Hashes \ {p} : h # ComputeRecordHash(i, q, e)
      /\ h # ComputeRecordHash(n + 1, p, e)
  <2>1. PICK j \in Nat : j = n + 1 /\ j # i
    BY <1>4, <1>5
  <2> QED  BY <1>4, <1>5, <2>1, HashesDiffer
<1>7. CASE \E f \in Requests \ {r.event} :
             Damaged("edited", r.sequence, Substitute(r, [r EXCEPT !.event = f]))
  <2>1. PICK f \in Requests \ {r.event} :
               Damaged("edited", r.sequence, Substitute(r, [r EXCEPT !.event = f]))
    BY <1>7
  <2>2. PICK new : new = [r EXCEPT !.event = f]
    OBVIOUS
  <2>3. new \in Row /\ new.sequence = r.sequence /\ ~Authentic(new)
    BY <1>4, <1>5, <1>6, <2>2 DEF Row, Authentic
  <2> QED  BY <2>1, <2>2, <2>3, EditKeeps
<1>8. CASE \E s \in rows : s.record_hash # r.record_hash /\
             Damaged("edited", r.sequence, Substitute(r, [r EXCEPT !.record_hash = s.record_hash]))
  <2>1. PICK s \in rows : s.record_hash # r.record_hash /\
               Damaged("edited", r.sequence, Substitute(r, [r EXCEPT !.record_hash = s.record_hash]))
    BY <1>8
  <2>2. PICK new : new = [r EXCEPT !.record_hash = s.record_hash]
    OBVIOUS
  <2>3. new \in Row /\ new.sequence = r.sequence /\ ~Authentic(new)
    BY <1>2, <1>4, <2>1, <2>2 DEF Row, Authentic
  <2> QED  BY <2>1, <2>2, <2>3, EditKeeps
<1>9. CASE \E s \in rows : s.record_hash # r.prev_hash /\
             Damaged("edited", r.sequence, Substitute(r, [r EXCEPT !.prev_hash = s.record_hash]))
  <2>1. PICK s \in rows : s.record_hash # r.prev_hash /\
               Damaged("edited", r.sequence, Substitute(r, [r EXCEPT !.prev_hash = s.record_hash]))
    BY <1>9
  <2>2. PICK new : new = [r EXCEPT !.prev_hash = s.record_hash]
    OBVIOUS
  <2>3. new \in Row /\ new.sequence = r.sequence /\ ~Authentic(new)
    BY <1>2, <1>4, <1>5, <1>6, <2>1, <2>2 DEF Row, Authentic
  <2> QED  BY <2>1, <2>2, <2>3, EditKeeps
<1>10. CASE Damaged("edited", r.sequence, Substitute(r, [r EXCEPT !.sequence = MaxSequence(rows) + 1]))
  <2>1. PICK new : new = [r EXCEPT !.sequence = MaxSequence(rows) + 1]
    OBVIOUS
  <2>2. new \in Row /\ new.sequence = MaxSequence(rows) + 1 /\ ~Authentic(new)
    BY <1>2, <1>4, <1>5, <1>6, <2>1 DEF Row, Authentic
  <2> QED  BY <1>10, <2>1, <2>2, EditKeeps
<1> QED  BY <1>3, <1>7, <1>8, <1>9, <1>10
(* The row after a deleted one is linked to a hash no row has.              *)
LEMMA DeleteRowInv ==
  ASSUME IInv, IsFiniteSet(rows), DeleteRow PROVE DamageInv'
<1>1. PICK n \in Nat : UpTo(rows, n)
  BY DEF IInv
<1>2. /\ rows \in SUBSET Row /\ MaxSequence(rows) = n /\ \A s \in rows : Authentic(s)
      /\ pc \in [Requests -> InFlight \cup Answered]
  BY <1>1, LastOfUpTo, AllLinked DEF IInv, TypeOK
<1>3. PICK r \in rows :
        Damaged(IF IsLast(rows, r) THEN "deleted_last" ELSE "deleted", r.sequence, rows \ {r})
  BY DEF DeleteRow
<1>4. r.sequence \in 1..n
  BY <1>1 DEF UpTo
<1>5. PICK kind \in Kinds \ {"none"} :
        kind = IF IsLast(rows, r) THEN "deleted_last" ELSE "deleted"
  BY DEF Kinds
<1>6. PICK table : table = rows \ {r}
  OBVIOUS
<1>7. /\ damage' = kind /\ rows' = table /\ pc' = pc
  BY <1>3, <1>5, <1>6 DEF Damaged
<1>8. table \in SUBSET Row /\ IsFiniteSet(table)
  BY <1>2, <1>6, FS_RemoveElement
<1>9. Earlier(table, r.sequence) = Earlier(rows, r.sequence)
  BY <1>4, <1>6 DEF Earlier
<1>10. \A t \in table : \E s \in rows : t.sequence <= s.sequence + 1
  BY <1>1, <1>6 DEF UpTo
<1>11. ASSUME Evident' PROVE Scar'
  <2>1. ~IsLast(rows, r)
    BY <1>5, <1>7, <1>11 DEF Evident
  <2>2. r.sequence + 1 \in 1..n
    BY <2>1, <1>1, <1>4 DEF IsLast, UpTo
  <2>3. PICK t \in rows : t.sequence = r.sequence + 1
    BY <2>2, <1>1 DEF UpTo
  <2>4. t \in rows' /\ t.prev_hash = r.record_hash
    BY <2>3, <1>4, <1>6, <1>7 DEF IInv, Chained
  <2>5. PICK hash : hash = r.record_hash
    OBVIOUS
  <2>6. hash # GENESIS_HASH /\ hash[Len(hash)][2] = r.event
    <3>1. /\ r.prev_hash \in Seq(Nat \X Requests) /\ r.sequence \in Nat /\ r.event \in Requests
          /\ hash = Append(r.prev_hash, <<r.sequence, r.event>>)
      BY <1>2, <2>5 DEF Row, Hashes, Authentic, ComputeRecordHash
    <3>2. /\ Len(hash) = Len(r.prev_hash) + 1
          /\ hash[Len(r.prev_hash) + 1] = <<r.sequence, r.event>>
      BY <3>1
    <3>3. Len(r.prev_hash) \in Nat /\ Len(<< >>) = 0
      BY <3>1
    <3> QED  BY <3>2, <3>3 DEF GENESIS_HASH
  <2>7. pc'[r.event] = "recorded"
    BY <1>2, <1>7 DEF IInv, RecordedIffStored, Row
  <2>8. ASSUME NEW s \in rows' PROVE s.record_hash # hash
    <3>1. s \in rows /\ s # r
      BY <1>6, <1>7
    <3>2. s.sequence # r.sequence
      BY <3>1, <1>1 DEF UpTo
    <3>3. PICK i \in Nat, p \in Hashes, e \in Requests :
            i = r.sequence /\ p = r.prev_hash /\ e = r.event
      BY <1>2 DEF Row
    <3>4. PICK j \in Nat, q \in Hashes, f \in Requests :
            j = s.sequence /\ q = s.prev_hash /\ f = s.event
      BY <3>1, <1>2 DEF Row
    <3>5. hash = ComputeRecordHash(i, p, e) /\ s.record_hash = ComputeRecordHash(j, q, f)
      BY <3>1, <3>3, <3>4, <2>5, <1>2 DEF Authentic
    <3>6. i # j
      BY <3>2, <3>3, <3>4
    <3>7. ComputeRecordHash(i, p, e) # ComputeRecordHash(j, q, f)
      BY <3>6, HashesDiffer
    <3> QED  BY <3>5, <3>7
  <2>9. Gone(t.prev_hash)'
    BY <2>4, <2>5, <2>6, <2>7, <2>8 DEF Gone, GENESIS_HASH
  <2> QED  BY <2>4, <2>9 DEF Scar
<1>12. Damaged(kind, r.sequence, table)
  BY <1>3, <1>5, <1>6
<1> QED  BY <1>8, <1>9, <1>10, <1>11, <1>12, ChangeKeepsPrefix

(* Two rows that were exchanged are not what their hashes were made of.     *)
LEMMA ExchangeRowsInv ==
  ASSUME IInv, IsFiniteSet(rows), ExchangeRows PROVE DamageInv'
<1>1. PICK n \in Nat : UpTo(rows, n)
  BY DEF IInv
<1>2. rows \in SUBSET Row /\ \A s \in rows : Authentic(s)
  BY AllLinked DEF IInv, TypeOK
<1>3. PICK r \in rows, s \in rows :
        /\ r.sequence < s.sequence
        /\ Damaged("exchanged", r.sequence,
                   (rows \ {r, s}) \cup {[r EXCEPT !.sequence = s.sequence],
                                         [s EXCEPT !.sequence = r.sequence]})
  BY DEF ExchangeRows
<1>4. /\ r \in Row /\ s \in Row /\ r.sequence \in 1..n /\ s.sequence \in 1..n
      /\ r.sequence \in Nat /\ s.sequence \in Nat
  BY <1>1, <1>2 DEF UpTo, Row
<1>5. PICK first, second : /\ first = [s EXCEPT !.sequence = r.sequence]
                           /\ second = [r EXCEPT !.sequence = s.sequence]
  OBVIOUS
<1>6. /\ first \in Row /\ second \in Row
      /\ first.sequence = r.sequence /\ second.sequence = s.sequence
      /\ second.prev_hash = r.prev_hash /\ second.event = r.event
      /\ second.record_hash = r.record_hash
  BY <1>4, <1>5 DEF Row
<1>7. ~Authentic(second)
  <2>1. PICK i \in Nat, j \in Nat, p \in Hashes, e \in Requests :
          i = r.sequence /\ j = s.sequence /\ p = r.prev_hash /\ e = r.event
    BY <1>4 DEF Row
  <2>2. ComputeRecordHash(i, p, e) # ComputeRecordHash(j, p, e)
    <3>1. i # j
      BY <1>3, <1>4, <2>1
    <3> QED  BY <3>1, HashesDiffer
  <2> QED  BY <1>2, <1>6, <2>1, <2>2 DEF Authentic
<1>8. PICK table : table = (rows \ {r, s}) \cup {first, second}
  OBVIOUS
<1>9. table \in SUBSET Row /\ IsFiniteSet(table)
  <2>1. (rows \ {r, s}) \in SUBSET rows
    OBVIOUS
  <2>2. IsFiniteSet(rows \ {r, s})
    BY <2>1, FS_Subset
  <2>3. IsFiniteSet((rows \ {r, s}) \cup {first})
    BY <2>2, FS_AddElement
  <2>4. IsFiniteSet(((rows \ {r, s}) \cup {first}) \cup {second})
    BY <2>3, FS_AddElement
  <2>5. table = ((rows \ {r, s}) \cup {first}) \cup {second}
    BY <1>8
  <2> QED  BY <1>2, <1>6, <1>8, <2>4, <2>5
<1>10. Earlier(table, r.sequence) = Earlier(rows, r.sequence)
  BY <1>3, <1>4, <1>6, <1>8 DEF Earlier
<1>11. \A t \in table : \E u \in rows : t.sequence <= u.sequence + 1
  <2>1. \A t \in rows : t.sequence <= t.sequence + 1
    BY <1>1 DEF UpTo
  <2> QED  BY <2>1, <1>4, <1>6, <1>8
<1>12. PICK kind \in Kinds \ {"none"} : kind = "exchanged"
  BY DEF Kinds
<1>13. Damaged(kind, r.sequence, table)
  BY <1>3, <1>5, <1>8, <1>12
<1>14. Scar'
  <2>1. second \in rows'
    BY <1>8, <1>13 DEF Damaged
  <2> QED  BY <1>7, <2>1 DEF Scar, Authentic
<1> QED  BY <1>9, <1>10, <1>11, <1>13, <1>14, ChangeKeepsPrefix

(* No append and no change breaks the invariant.                            *)
LEMMA DamageInductive == DamageInv /\ [DamageNext]_damageVars => DamageInv'
<1> SUFFICES ASSUME DamageInv, [DamageNext]_damageVars PROVE DamageInv'
  OBVIOUS
<1>1. CASE UNCHANGED damageVars
  <2>1. /\ rows' = rows /\ pc' = pc /\ sequence' = sequence /\ prev_hash' = prev_hash
        /\ damage' = damage /\ where' = where
    BY <1>1 DEF damageVars, vars
  <2>2. damage = "none" => IInv'
    BY <2>1, NextIInv DEF DamageInv, vars
  <2>3. Evident => PrefixKept' /\ Scar'
    BY <2>1 DEF DamageInv, PrefixKept, UpTo, Earlier, Authentic, Linked, Before, LastHash, LastRow,
                IsLast, Scar, Gone
  <2> QED  BY <2>1, <2>2, <2>3 DEF DamageInv, TypeOK, Evident
<1>2. CASE Next /\ UNCHANGED <<damage, where>>
  <2>1. damage = "none" => IInv'
    BY <1>2, NextIInv DEF DamageInv
  <2>2. Evident => PrefixKept' /\ Scar'
    BY <1>2, AppendKeeps
  <2>3. /\ TypeOK' /\ Bounded(rows') /\ IsFiniteSet(rows')
        /\ \A w \in Requests :
             pc'[w] \in {"sequenced", "hashed", "inserted"} => sequence'[w] >= 1
    BY <1>2, StepTypes DEF DamageInv
  <2> QED  BY <1>2, <2>1, <2>2, <2>3 DEF DamageInv, Evident
<1>3. CASE EditRow \/ DeleteRow \/ ExchangeRows
  <2>1. IInv /\ IsFiniteSet(rows)
    BY <1>3 DEF EditRow, DeleteRow, ExchangeRows, Damaged, DamageInv
  <2> QED  BY <1>3, <2>1, EditRowInv, DeleteRowInv, ExchangeRowsInv
<1> QED  BY <1>1, <1>2, <1>3 DEF DamageNext

(* A scar is a row that verify_chain does not vouch for.                    *)
LEMMA ScarIsBroken ==
  ASSUME DamageInv, Evident
  PROVE  /\ Broken(rows) # {}
         /\ \A r \in Broken(rows) : r.sequence \in Nat /\ r.sequence >= where
<1>1. rows \in SUBSET Row /\ PrefixKept /\ Scar
  BY DEF DamageInv, TypeOK
<1>2. Broken(rows) # {}
  <2>1. PICK r \in rows : ~Authentic(r) \/ Gone(r.prev_hash)
    BY <1>1 DEF Scar
  <2>2. ASSUME Gone(r.prev_hash) PROVE ~Linked(rows, r)
    <3>1. PICK B : B = Before(rows, r)
      OBVIOUS
    <3>2. B \in SUBSET Row /\ B \in SUBSET rows
      BY <1>1, <3>1 DEF Before
    <3>3. Bounded(B)
      BY <3>2 DEF DamageInv, Bounded
    <3>4. B # {} => LastRow(B) \in B
      BY <3>2, <3>3, LastOfBounded
    <3> QED  BY <2>2, <3>1, <3>2, <3>4 DEF Linked, LastHash, Gone
  <2> QED  BY <2>1, <2>2 DEF Broken
<1>3. ASSUME NEW r \in Broken(rows) PROVE r.sequence \in Nat /\ r.sequence >= where
  <2>1. r \in rows /\ r.sequence \in Nat /\ where \in Nat
    BY <1>1 DEF Broken, PrefixKept, Row
  <2>2. r \notin Earlier(rows, where)
    BY <1>1 DEF PrefixKept, Broken
  <2> QED  BY <2>1, <2>2 DEF Earlier
<1> QED  BY <1>2, <1>3

(* Whoever edits, deletes or exchanges rows of audit_events outside the     *)
(* service, before, between or after appends of any number of requests:     *)
(* verify_chain reports it, unless it was the deletion of the last row.     *)
THEOREM DamageAlwaysEvident == DamageSpec => []DamageEvident
<1>1. DamageInv => DamageEvident
  BY ScarIsBroken DEF DamageEvident, VerifyChain
<1> QED  BY <1>1, DamageInitInv, DamageInductive, PTL DEF DamageSpec

(* verify_chain vouches for all the rows before the change, and what it     *)
(* reports is at the change or after it.                                    *)
THEOREM DamageAlwaysLocated == DamageSpec => []DamageLocated
<1>1. ASSUME DamageInv PROVE DamageLocated
  <2> SUFFICES ASSUME Evident
               PROVE  /\ VerifyChain(rows).events_checked >= Cardinality(Earlier(rows, where))
                      /\ VerifyChain(rows).first_broken >= where
    BY DEF DamageLocated, Earlier
  <2>1. PICK B : B = Broken(rows)
    OBVIOUS
  <2>2. /\ B # {} /\ \A r \in B : r.sequence \in Nat /\ r.sequence >= where
        /\ where \in Nat
    BY <1>1, <2>1, ScarIsBroken DEF DamageInv, PrefixKept
  <2>3. PICK first : first = CHOOSE r \in B : Before(B, r) = {}
    OBVIOUS
  <2>4. first \in B
    <3> DEFINE T == {r.sequence : r \in B}
    <3>1. T \in SUBSET Nat /\ T # {}
      BY <2>2
    <3>2. PICK m \in T : \A k \in T : m <= k
      BY <3>1, LeastNumber
    <3>3. PICK r \in B : r.sequence = m
      OBVIOUS
    <3>4. Before(B, r) = {}
      BY <2>2, <3>2, <3>3 DEF Before
    <3> QED  BY <2>3, <3>4
  <2>5. /\ VerifyChain(rows).events_checked = Cardinality(Before(rows, first))
        /\ VerifyChain(rows).first_broken = first.sequence
    BY <2>1, <2>2, <2>3 DEF VerifyChain
  <2>6. Cardinality(Earlier(rows, where)) <= Cardinality(Before(rows, first))
    <3>1. \A r \in rows : r.sequence \in Nat
      BY <1>1 DEF DamageInv, TypeOK, Row
    <3>2. Earlier(rows, where) \in SUBSET Before(rows, first) /\ Before(rows, first) \in SUBSET rows
      BY <2>2, <2>4, <3>1 DEF Earlier, Before
    <3>3. PICK S, T : S = Earlier(rows, where) /\ T = Before(rows, first)
      OBVIOUS
    <3>4. IsFiniteSet(T) /\ S \in SUBSET T
      BY <1>1, <3>2, <3>3, FS_Subset DEF DamageInv
    <3> QED  BY <3>3, <3>4, FS_Subset
  <2>7. Cardinality(Earlier(rows, where)) \in Nat /\ Cardinality(Before(rows, first)) \in Nat
    <3>1. PICK S, T : S = Earlier(rows, where) /\ T = Before(rows, first)
      OBVIOUS
    <3>2. S \in SUBSET rows /\ T \in SUBSET rows
      BY <3>1 DEF Earlier, Before
    <3>3. IsFiniteSet(S) /\ IsFiniteSet(T)
      BY <1>1, <3>2, FS_Subset DEF DamageInv
    <3> QED  BY <3>1, <3>3, FS_CardinalityType
  <2> QED  BY <2>2, <2>4, <2>5, <2>6, <2>7
<1> QED  BY <1>1, DamageInitInv, DamageInductive, PTL DEF DamageSpec
=============================================================================
