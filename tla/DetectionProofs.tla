--------------------------- MODULE DetectionProofs ---------------------------
(***************************************************************************)
(* The windows, the clusters and the alert records of a detection process,  *)
(* for any events, rules, scores and thresholds and however the calls of    *)
(* process_event interleave; and the risk scores, for any evidence.         *)
(***************************************************************************)
EXTENDS Detection, RiskScoring, FiniteSetTheorems, SequenceTheorems, WellFoundedInduction, TLAPS

-----------------------------------------------------------------------------
(* A set of natural numbers has a least one.                                *)
LEMMA LeastNumber ==
  ASSUME NEW T \in SUBSET Nat, T # {}
  PROVE  \E m \in T : \A n \in T : m <= n
<1> DEFINE R == OpToRel(<, Nat)
<1>1. \A m, n \in Nat : m < n => <<m, n>> \in R
  BY DEF OpToRel
<1>2. IsWellFoundedOn(R, Nat)
  BY NatLessThanWellFounded DEF OpToRel, IsWellFoundedOn
<1> HIDE DEF R
<1>3. PICK m \in T : \A n \in T : ~ (<<n, m>> \in R)
  BY <1>2, WFMin
<1>4. \A n \in T : ~ (n < m)
  BY <1>1, <1>3
<1> QED  BY <1>3, <1>4

(* A finite set with a strict total order has an element before all others. *)
LEMMA FirstOf ==
  ASSUME NEW S, IsFiniteSet(S), S # {}, NEW R,
         \A i \in S : <<i, i>> \notin R,
         \A i, j \in S : i # j => <<i, j>> \in R \/ <<j, i>> \in R,
         \A i, j, k \in S : <<i, j>> \in R /\ <<j, k>> \in R => <<i, k>> \in R
  PROVE  \E i \in S : \A j \in S \ {i} : <<i, j>> \in R
<1> DEFINE Before(i) == {j \in S : <<j, i>> \in R}
           Sizes == {Cardinality(Before(i)) : i \in S}
<1>1. \A i \in S : IsFiniteSet(Before(i)) /\ Cardinality(Before(i)) \in Nat
  <2> TAKE i \in S
  <2>1. Before(i) \in SUBSET S
    OBVIOUS
  <2>2. IsFiniteSet(Before(i))
    BY <2>1, FS_Subset
  <2> QED  BY <2>2, FS_CardinalityType
<1>2. Sizes \in SUBSET Nat /\ Sizes # {}
  <2> HIDE DEF Before
  <2> QED  BY <1>1
<1>3. PICK m \in Sizes : \A n \in Sizes : m <= n
  BY <1>2, LeastNumber
<1>4. PICK i \in S : m = Cardinality(Before(i))
  OBVIOUS
<1>5. ASSUME NEW j \in Before(i) PROVE FALSE
  <2>1. j \in S /\ <<j, i>> \in R
    OBVIOUS
  <2>2. Before(j) \subseteq Before(i) /\ j \notin Before(j)
    BY <2>1
  <2>3. Cardinality(Before(j)) < Cardinality(Before(i))
    <3>1. Before(j) # Before(i)
      BY <2>2
    <3>2. IsFiniteSet(Before(i)) /\ IsFiniteSet(Before(j))
      BY <2>1, <1>1
    <3> HIDE DEF Before
    <3>3. /\ Cardinality(Before(j)) <= Cardinality(Before(i))
          /\ Cardinality(Before(i)) # Cardinality(Before(j))
      BY <3>1, <3>2, <2>2, FS_Subset
    <3>4. Cardinality(Before(j)) \in Nat /\ Cardinality(Before(i)) \in Nat
      BY <2>1, <1>1
    <3> QED  BY <3>3, <3>4
  <2>4. Cardinality(Before(j)) \in Sizes
    BY <2>1
  <2>5. m <= Cardinality(Before(j)) /\ m \in Nat /\ Cardinality(Before(j)) \in Nat
    BY <2>1, <2>4, <1>1, <1>2, <1>3
  <2> HIDE DEF Before, Sizes
  <2> QED  BY <2>3, <2>5, <1>4
<1> QED  BY <1>5

(* Fractions are ordered transitively, compared by cross products.          *)
LEMMA FractionsOrdered ==
  ASSUME NEW a \in Nat, NEW b \in Nat, NEW c \in Nat, NEW d \in Nat, NEW e \in Nat, NEW f \in Nat,
         b > 0, d > 0, f > 0, a * d >= c * b, c * f >= e * d
  PROVE  /\ a * f >= e * b
         /\ a * d > c * b \/ c * f > e * d => a * f > e * b
<1> DEFINE x == a * f
           y == e * b
<1>1. d * x >= d * y
  <2>1. (a * d) * f >= (c * b) * f
    OBVIOUS
  <2>2. (c * f) * b >= (e * d) * b
    OBVIOUS
  <2> QED  BY <2>1, <2>2
<1>2. ASSUME a * d > c * b \/ c * f > e * d PROVE d * x > d * y
  <2>1. (a * d) * f >= (c * b) * f /\ (a * d > c * b => (a * d) * f > (c * b) * f)
    OBVIOUS
  <2>2. (c * f) * b >= (e * d) * b /\ (c * f > e * d => (c * f) * b > (e * d) * b)
    OBVIOUS
  <2> QED  BY <2>1, <2>2, <1>2
<1>3. x \in Nat /\ y \in Nat
  OBVIOUS
<1> HIDE DEF x, y
<1>4. x >= y
  BY <1>1, <1>3
<1>5. ASSUME d * x > d * y PROVE x > y
  BY <1>5, <1>3
<1> USE DEF x, y
<1> QED  BY <1>2, <1>4, <1>5

-----------------------------------------------------------------------------
EntryType == [time : Nat, event : Requests]
ClusterType ==
  [alert : Requests, traits : SUBSET Traits, events : SUBSET Requests, score : Nat, updated : Nat]
RecordType == [by : Requests, alert : Requests, events : SUBSET Requests, score : Nat]
CallType ==
  [at : {"idle", "scoring", "publishing", "done"}, hits : BOOLEAN, traits : SUBSET Traits, score : Nat]

DetectionTyped ==
  /\ windows \in [Windows -> Seq(EntryType)]
  /\ arrivals \in [Windows -> Seq(EntryType)]
  /\ clusters \in Seq(ClusterType)
  /\ clock \in Nat
  /\ call \in [Requests -> CallType]
  /\ published \in Seq(RecordType)

(* The elements of the sequences have their types.                          *)
LEMMA ElementTypes ==
  ASSUME DetectionTyped
  PROVE  /\ \A i \in DOMAIN clusters :
              /\ clusters[i] \in ClusterType
              /\ clusters[i].events \in SUBSET Requests
              /\ clusters[i].score \in Nat /\ clusters[i].updated \in Nat
         /\ \A p \in DOMAIN published :
              /\ published[p] \in RecordType
              /\ published[p].alert \in Requests /\ published[p].score \in Nat
<1>1. \A i \in DOMAIN clusters : clusters[i] \in ClusterType
  BY DEF DetectionTyped
<1>2. \A p \in DOMAIN published : published[p] \in RecordType
  BY DEF DetectionTyped
<1>3. \A c \in ClusterType : c.events \in SUBSET Requests /\ c.score \in Nat /\ c.updated \in Nat
  BY DEF ClusterType
<1>4. \A x \in RecordType : x.alert \in Requests /\ x.score \in Nat
  BY DEF RecordType
<1> QED  BY <1>1, <1>2, <1>3, <1>4

(* What a cluster shares with an event's traits, and what they have joined, *)
(* are finite.                                                              *)
LEMMA OverlapTypes ==
  ASSUME NEW c \in ClusterType, NEW traits \in SUBSET Traits
  PROVE  /\ Shared(c, traits) \in Nat /\ Joint(c, traits) \in Nat
         /\ traits # {} => Joint(c, traits) > 0
         /\ Shared(c, traits) <= Joint(c, traits)
<1>1. IsFiniteSet(Traits)
  BY DetectionAssumption DEF DetectionAssumption
<1>2. c.traits \in SUBSET Traits
  BY DEF ClusterType
<1>3. IsFiniteSet(c.traits \cap traits) /\ IsFiniteSet(c.traits \cup traits)
  <2>1. (c.traits \cap traits) \in SUBSET Traits /\ (c.traits \cup traits) \in SUBSET Traits
    BY <1>2
  <2> QED  BY <2>1, <1>1, FS_Subset
<1>4. Shared(c, traits) \in Nat /\ Joint(c, traits) \in Nat
  BY <1>3, FS_CardinalityType DEF Shared, Joint
<1>5. traits # {} => Joint(c, traits) # 0
  BY <1>3, FS_EmptySet DEF Joint
<1>6. Shared(c, traits) <= Joint(c, traits)
  <2>1. (c.traits \cap traits) \in SUBSET (c.traits \cup traits)
    OBVIOUS
  <2> QED  BY <2>1, <1>3, FS_Subset DEF Shared, Joint
<1> QED  BY <1>4, <1>5, <1>6

(* Of the clusters that overlap enough, _find_match has one than which none *)
(* is closer.                                                               *)
LEMMA FindMatchIsClosest ==
  ASSUME clusters \in Seq(ClusterType), NEW traits \in SUBSET Traits, Candidates(traits) # {}
  PROVE  /\ FindMatch(traits) \in Candidates(traits)
         /\ \A j \in Candidates(traits) : ~Closer(j, FindMatch(traits), traits)
<1> DEFINE C == Candidates(traits)
           Beats(i, j) == Closer(i, j, traits) \/ (~Closer(j, i, traits) /\ i < j)
           R == {p \in C \X C : Beats(p[1], p[2])}
           S(i) == Shared(clusters[i], traits)
           J(i) == Joint(clusters[i], traits)
<1>1. C \subseteq 1..Len(clusters) /\ traits # {}
  BY DEF Candidates, Overlaps
<1>2. IsFiniteSet(C)
  <2>1. IsFiniteSet(1..Len(clusters))
    BY FS_Interval
  <2> QED  BY <2>1, <1>1, FS_Subset
<1>3. \A i \in C : S(i) \in Nat /\ J(i) \in Nat /\ J(i) > 0 /\ i \in Nat
  <2> TAKE i \in C
  <2>1. clusters[i] \in ClusterType /\ i \in Nat
    BY <1>1
  <2> QED  BY <2>1, <1>1, OverlapTypes
<1> HIDE DEF C, S, J
<1>4. \A i, j \in C : Closer(i, j, traits) <=> S(i) * J(j) > S(j) * J(i)
  BY DEF Closer, S, J
<1>5. \A i, j \in C : <<i, j>> \in R <=>
         \/ S(i) * J(j) > S(j) * J(i)
         \/ ~ (S(j) * J(i) > S(i) * J(j)) /\ i < j
  BY <1>4
<1> HIDE DEF R
<1>6. \A i \in C : <<i, i>> \notin R
  BY <1>3, <1>5
<1>7. \A i, j \in C : i # j => <<i, j>> \in R \/ <<j, i>> \in R
  <2> SUFFICES ASSUME NEW i \in C, NEW j \in C, i # j PROVE <<i, j>> \in R \/ <<j, i>> \in R
    OBVIOUS
  <2>1. PICK m \in Nat, n \in Nat : m = S(i) * J(j) /\ n = S(j) * J(i)
    BY <1>3
  <2>2. m > n \/ n > m \/ (~ (m > n) /\ ~ (n > m))
    BY <2>1
  <2>3. i < j \/ j < i
    BY <1>3
  <2> QED  BY <2>1, <2>2, <2>3, <1>5
<1>8. \A i, j, k \in C : <<i, j>> \in R /\ <<j, k>> \in R => <<i, k>> \in R
  <2> SUFFICES ASSUME NEW i \in C, NEW j \in C, NEW k \in C, <<i, j>> \in R, <<j, k>> \in R
               PROVE  <<i, k>> \in R
    OBVIOUS
  <2>1. PICK a \in Nat, b \in Nat, c \in Nat, d \in Nat, e \in Nat, f \in Nat :
          a = S(i) /\ b = J(i) /\ c = S(j) /\ d = J(j) /\ e = S(k) /\ f = J(k)
    BY <1>3
  <2>2. b > 0 /\ d > 0 /\ f > 0
    BY <2>1, <1>3
  <2>3. a * d > c * b \/ (~ (c * b > a * d) /\ i < j)
    BY <2>1, <1>5
  <2>4. c * f > e * d \/ (~ (e * d > c * f) /\ j < k)
    BY <2>1, <1>5
  <2>5. a * d >= c * b /\ c * f >= e * d
    <3>1. a * d \in Nat /\ c * b \in Nat /\ c * f \in Nat /\ e * d \in Nat
      OBVIOUS
    <3> QED  BY <3>1, <2>3, <2>4
  <2>6. a * f >= e * b /\ (a * d > c * b \/ c * f > e * d => a * f > e * b)
    BY <2>2, <2>5, FractionsOrdered
  <2>7. a * f > e * b \/ (~ (e * b > a * f) /\ i < k)
    <3>1. PICK m \in Nat, n \in Nat : m = a * f /\ n = e * b
      OBVIOUS
    <3>2. m > n \/ (m >= n /\ i < j /\ j < k)
      BY <3>1, <2>3, <2>4, <2>6
    <3>3. m > n \/ (~ (n > m) /\ i < k)
      BY <3>2, <1>3
    <3> QED  BY <3>1, <3>3
  <2> QED  BY <2>1, <2>7, <1>5
<1>9. \E i \in C : \A j \in C \ {i} : <<i, j>> \in R
  <2>1. C # {}
    BY DEF C
  <2> QED  BY <2>1, <1>2, <1>6, <1>7, <1>8, FirstOf
<1>10. \E i \in C : \A j \in C \ {i} : Beats(i, j)
  BY <1>9 DEF R
<1>11. /\ FindMatch(traits) \in C
       /\ \A j \in C \ {FindMatch(traits)} : Beats(FindMatch(traits), j)
  BY <1>10 DEF C, FindMatch
<1>12. ASSUME NEW j \in C, Closer(j, FindMatch(traits), traits) PROVE FALSE
  <2>1. PICK i \in C : i = FindMatch(traits)
    BY <1>11
  <2>2. PICK m \in Nat, n \in Nat : m = S(i) * J(j) /\ n = S(j) * J(i)
    BY <1>3
  <2>3. n > m
    BY <2>1, <2>2, <1>4, <1>12
  <2>4. i # j
    BY <2>2, <2>3
  <2>5. m > n \/ ~ (n > m)
    BY <2>1, <2>2, <2>4, <1>4, <1>11
  <2> QED  BY <2>3, <2>5
<1> QED  BY <1>11, <1>12 DEF C

-----------------------------------------------------------------------------
(* The sliding windows: each is what it was given but the first few; if     *)
(* that came in order, these are the stale ones.                            *)
EndOf(all, n, window) ==
  /\ n \in 0..Len(all) /\ window \in Seq(EntryType) /\ Len(window) = Len(all) - n
  /\ \A j \in 1..Len(window) : window[j] = all[n + j]

Left(all, window, span, n) ==
  /\ EndOf(all, n, window)
  /\ InOrder(all) => \A i \in 1..Len(all) : Fresh(all[i], all[Len(all)].time, span) <=> i > n

WindowsAreSuffixes ==
  \A k \in Windows : \E n \in Nat : Left(arrivals[k], windows[k], Span[k], n)

(* Pruning stops at the first fresh entry.                                  *)
LEMMA PruneStops ==
  ASSUME NEW window \in Seq(EntryType), window # << >>, NEW now \in Nat, NEW span \in Nat,
         Fresh(window[Len(window)], now, span)
  PROVE  \E m \in 1..Len(window) :
           /\ Prune(window, now, span) = SubSeq(window, m, Len(window))
           /\ Fresh(window[m], now, span)
           /\ \A j \in 1..(m - 1) : ~Fresh(window[j], now, span)
<1> DEFINE T == {i \in 1..Len(window) : Fresh(window[i], now, span)}
           First(i) == /\ Fresh(window[i], now, span)
                       /\ \A j \in 1..(i - 1) : ~Fresh(window[j], now, span)
<1>1. Len(window) \in Nat /\ Len(window) > 0 /\ DOMAIN window = 1..Len(window)
  OBVIOUS
<1>2. T \in SUBSET Nat /\ T # {}
  BY <1>1
<1>3. PICK least \in T : \A n \in T : least <= n
  BY <1>2, LeastNumber
<1>4. least \in DOMAIN window /\ First(least)
  <2>1. least \in 1..Len(window) /\ Fresh(window[least], now, span)
    OBVIOUS
  <2>2. \A j \in 1..(least - 1) : j \in 1..Len(window) /\ ~ (least <= j)
    BY <2>1, <1>1
  <2> QED  BY <2>1, <2>2, <1>1, <1>3
<1> DEFINE m == CHOOSE i \in DOMAIN window : First(i)
<1>5. m \in DOMAIN window /\ First(m)
  <2> HIDE DEF First
  <2> QED  BY <1>4
<1>6. Prune(window, now, span) = SubSeq(window, m, Len(window))
  BY DEF Prune
<1> HIDE DEF m
<1> QED  BY <1>1, <1>5, <1>6

(* An end of a sequence, as a sub-sequence.                                 *)
LEMMA EndIsSubSeq ==
  ASSUME NEW all \in Seq(EntryType), NEW n \in Nat, NEW window, EndOf(all, n, window)
  PROVE  window = SubSeq(all, n + 1, Len(all))
<1>1. /\ n <= Len(all) /\ window \in Seq(EntryType) /\ Len(window) = Len(all) - n
      /\ \A j \in 1..Len(window) : window[j] = all[n + j]
      /\ Len(all) \in Nat
  BY DEF EndOf
<1> HIDE DEF EntryType
<1> DEFINE t == SubSeq(all, n + 1, Len(all))
<1>2. /\ t \in Seq(EntryType) /\ Len(t) = Len(all) - n
      /\ \A j \in 1..Len(t) : t[j] = all[n + j]
  BY <1>1
<1> HIDE DEF t
<1>3. Len(window) = Len(t) /\ \A j \in 1..Len(window) : window[j] = t[j]
  BY <1>1, <1>2
<1>4. window = t
  BY <1>1, <1>2, <1>3, SeqEqual
<1> QED  BY <1>4 DEF t

(* The end of a sequence's end is an end of it.                             *)
LEMMA EndOfEnd ==
  ASSUME NEW all \in Seq(EntryType), NEW n \in Nat, NEW window, EndOf(all, n, window),
         NEW m \in 1..Len(window)
  PROVE  EndOf(all, n + m - 1, SubSeq(window, m, Len(window)))
<1>1. /\ n <= Len(all) /\ window \in Seq(EntryType) /\ Len(window) = Len(all) - n
      /\ \A j \in 1..Len(window) : window[j] = all[n + j]
      /\ Len(all) \in Nat /\ Len(window) \in Nat
  BY DEF EndOf
<1> DEFINE t == SubSeq(window, m, Len(window))
<1>2. /\ t \in Seq(EntryType) /\ Len(t) = Len(window) - m + 1
      /\ \A j \in 1..Len(t) : t[j] = window[m + j - 1]
  BY <1>1
<1> HIDE DEF t
<1>3. n + m - 1 \in 0..Len(all) /\ Len(t) = Len(all) - (n + m - 1)
  BY <1>1, <1>2
<1>4. ASSUME NEW j \in 1..Len(t) PROVE t[j] = all[(n + m - 1) + j]
  <2>1. m + j - 1 \in 1..Len(window) /\ n + (m + j - 1) = (n + m - 1) + j
    BY <1>1, <1>2
  <2> QED  BY <2>1, <1>1, <1>2
<1>5. EndOf(all, n + m - 1, t)
  BY <1>2, <1>3, <1>4 DEF EndOf
<1> QED  BY <1>5 DEF t

(* Appending to a sequence appends to its end.                              *)
LEMMA EndAppends ==
  ASSUME NEW all \in Seq(EntryType), NEW n \in Nat, NEW window, EndOf(all, n, window),
         NEW x \in EntryType
  PROVE  EndOf(Append(all, x), n, Append(window, x))
<1>1. /\ n <= Len(all) /\ window \in Seq(EntryType) /\ Len(window) = Len(all) - n
      /\ \A j \in 1..Len(window) : window[j] = all[n + j]
      /\ Len(all) \in Nat /\ Len(window) \in Nat
  BY DEF EndOf
<1> HIDE DEF EntryType
<1> DEFINE s == Append(window, x)
           a == Append(all, x)
<1>2. /\ a \in Seq(EntryType) /\ Len(a) = Len(all) + 1 /\ a[Len(all) + 1] = x
      /\ \A i \in 1..Len(all) : a[i] = all[i]
  OBVIOUS
<1>3. /\ s \in Seq(EntryType) /\ Len(s) = Len(window) + 1 /\ s[Len(window) + 1] = x
      /\ \A j \in 1..Len(window) : s[j] = window[j]
  BY <1>1, AppendProperties
<1> HIDE DEF a, s
<1>4. ASSUME NEW j \in 1..Len(s) PROVE s[j] = a[n + j]
  <2>1. CASE j = Len(window) + 1
    <3>1. n + j = Len(all) + 1
      BY <2>1, <1>1
    <3> QED  BY <3>1, <2>1, <1>2, <1>3
  <2>2. CASE j # Len(window) + 1
    <3>1. j \in Nat /\ j >= 1 /\ j <= Len(window) + 1
      BY <1>3
    <3>2. j \in 1..Len(window)
      <4>1. \A l \in Nat : j <= l + 1 /\ j # l + 1 => j <= l
        BY <3>1
      <4>2. j <= Len(window)
        BY <4>1, <3>1, <2>2, <1>1
      <4> QED  BY <4>2, <3>1, <1>1
    <3>3. n + j \in 1..Len(all)
      BY <3>2, <1>1
    <3> QED  BY <3>2, <3>3, <1>1, <1>2, <1>3
  <2> QED  BY <2>1, <2>2
<1>5. n \in 0..Len(a) /\ Len(s) = Len(a) - n
  BY <1>1, <1>2, <1>3
<1>6. EndOf(a, n, s)
  BY <1>3, <1>4, <1>5 DEF EndOf
<1> QED  BY <1>6 DEF s, a

(* One more entry, then the stale ones are pruned.                          *)
LEMMA ObservedLeft ==
  ASSUME NEW all \in Seq(EntryType), NEW window, NEW span \in Nat, NEW n \in Nat,
         Left(all, window, span, n), NEW x \in EntryType
  PROVE  /\ Prune(Append(window, x), x.time, span) \in Seq(EntryType)
         /\ \E m \in Nat : Left(Append(all, x), Prune(Append(window, x), x.time, span), span, m)
<1> DEFINE w == Append(window, x)
           a == Append(all, x)
           pruned == Prune(w, x.time, span)
<1>1. EndOf(all, n, window) /\ n \in 0..Len(all) /\ x.time \in Nat /\ Len(all) \in Nat
  BY DEF Left, EndOf, EntryType
<1>2. EndOf(a, n, w)
  BY <1>1, EndAppends
<1>3. /\ a \in Seq(EntryType) /\ Len(a) = Len(all) + 1 /\ a[Len(all) + 1] = x
      /\ \A i \in 1..Len(all) : a[i] = all[i]
  BY AppendProperties
<1> HIDE DEF w, a
<1>3a. /\ w \in Seq(EntryType) /\ Len(w) = Len(a) - n /\ w # << >>
       /\ \A j \in 1..Len(w) : w[j] = a[n + j]
  BY <1>1, <1>2, <1>3 DEF EndOf
<1>4. Fresh(w[Len(w)], x.time, span)
  <2>1. Len(w) \in 1..Len(w) /\ n + Len(w) = Len(all) + 1
    BY <1>1, <1>3, <1>3a
  <2> QED  BY <2>1, <1>1, <1>3, <1>3a DEF Fresh
<1>5. PICK m \in 1..Len(w) :
        /\ pruned = SubSeq(w, m, Len(w))
        /\ Fresh(w[m], x.time, span)
        /\ \A j \in 1..(m - 1) : ~Fresh(w[j], x.time, span)
  BY <1>1, <1>3a, <1>4, PruneStops
<1>6. EndOf(a, n + m - 1, SubSeq(w, m, Len(w)))
  BY <1>2, <1>3, EndOfEnd
<1>7. \A i \in 1..Len(a) : a[i] \in EntryType /\ a[i].time \in Nat
  <2>1. \A i \in 1..Len(a) : a[i] \in EntryType
    BY <1>3
  <2> QED  BY <2>1 DEF EntryType
<1>8. ASSUME InOrder(a), NEW i \in 1..Len(a)
      PROVE  Fresh(a[i], x.time, span) <=> i > n + m - 1
  <2>1. /\ a[i].time \in Nat /\ x.time \in Nat /\ DOMAIN a = 1..Len(a)
        /\ Len(all) \in Nat /\ n \in Nat /\ m \in Nat /\ i \in Nat /\ DOMAIN all = 1..Len(all)
    BY <1>1, <1>3, <1>7
  <2>2. CASE i <= n
    <3>1. InOrder(all)
      <4> SUFFICES ASSUME NEW p \in 1..Len(all), NEW q \in 1..Len(all), p < q
                   PROVE  all[p].time <= all[q].time
        BY <2>1 DEF InOrder
      <4>1. p \in DOMAIN a /\ q \in DOMAIN a
        BY <2>1, <1>3
      <4> QED  BY <4>1, <1>3, <1>8 DEF InOrder
    <3>2. i \in 1..Len(all) /\ Len(all) \in 1..Len(all)
      BY <2>1, <2>2, <1>1
    <3>3. ~Fresh(all[i], all[Len(all)].time, span)
      BY <2>1, <2>2, <3>1, <3>2 DEF Left
    <3>4. a[i] = all[i] /\ a[Len(all)] = all[Len(all)]
      BY <3>2, <1>3
    <3>5. all[Len(all)].time <= x.time
      <4>1. Len(all) \in DOMAIN a /\ Len(all) + 1 \in DOMAIN a /\ Len(all) < Len(all) + 1
        BY <2>1, <3>2, <1>3
      <4> QED  BY <4>1, <3>4, <1>3, <1>8 DEF InOrder
    <3>6. all[i].time \in Nat /\ all[Len(all)].time \in Nat
      BY <3>2, <3>4, <1>3, <1>7, <2>1
    <3>7. ~Fresh(a[i], x.time, span)
      BY <3>3, <3>4, <3>5, <3>6, <2>1 DEF Fresh
    <3> QED  BY <3>7, <2>1, <2>2
  <2>3. CASE n < i /\ i < n + m
    <3>1. i - n \in 1..(m - 1) /\ i - n \in 1..Len(w) /\ n + (i - n) = i
      BY <2>1, <2>3
    <3>2. w[i - n] = a[i]
      BY <3>1, <1>3a
    <3> QED  BY <3>1, <3>2, <2>1, <2>3, <1>5
  <2>4. CASE i >= n + m
    <3>1. w[m] = a[n + m] /\ n + m \in 1..Len(a)
      BY <2>1, <2>4, <1>3a
    <3>2. a[n + m].time <= a[i].time
      <4>1. CASE i = n + m
        BY <4>1, <2>1
      <4>2. CASE n + m < i
        BY <4>2, <3>1, <2>1, <1>8 DEF InOrder
      <4> QED  BY <4>1, <4>2, <2>1, <2>4
    <3>3. a[n + m].time \in Nat
      BY <3>1, <1>7
    <3>4. Fresh(a[i], x.time, span)
      BY <3>1, <3>2, <3>3, <2>1, <1>5 DEF Fresh
    <3> QED  BY <3>4, <2>1, <2>4
  <2> QED  BY <2>1, <2>2, <2>3, <2>4
<1>9. n + m - 1 \in Nat
  BY <1>1
<1>10. Left(a, pruned, span, n + m - 1)
  <2>1. a[Len(a)] = x
    BY <1>3
  <2> QED  BY <2>1, <1>5, <1>6, <1>8 DEF Left
<1>11. pruned \in Seq(EntryType)
  BY <1>5, <1>6 DEF EndOf
<1> HIDE DEF pruned
<1> QED  BY <1>9, <1>10, <1>11 DEF w, a, pruned

-----------------------------------------------------------------------------
(* The clusters and the records.  Only events past scoring are in a cluster *)
(* or name an alert, and one about to be published is in a cluster; what a  *)
(* record told, the cluster of its alert still has.                         *)
Clustered(r) == call[r].at \in {"publishing", "done"}

ClustersHoldClustered ==
  \A i \in DOMAIN clusters :
    /\ clusters[i].alert \in clusters[i].events
    /\ \A r \in clusters[i].events : Clustered(r)

PublishingIsClustered ==
  \A r \in Requests :
    call[r].at = "publishing" => \E i \in DOMAIN clusters : r \in clusters[i].events

ClustersKeepRecords ==
  \A p \in DOMAIN published :
    /\ Clustered(published[p].alert)
    /\ \A i \in DOMAIN clusters : clusters[i].alert = published[p].alert =>
         /\ published[p].events \subseteq clusters[i].events
         /\ published[p].score <= clusters[i].score

ClusterInv ==
  /\ ClustersHoldClustered
  /\ PublishingIsClustered
  /\ ClustersKeepRecords
  /\ AlertSumsUp
  /\ OpenClustersDiffer
  /\ PublishedGrow

DetectionInv == DetectionTyped /\ WindowsAreSuffixes /\ ClusterInv

(* The process starts with empty windows and no cluster.                    *)
LEMMA DetectionInitInv == Init => DetectionInv
<1> SUFFICES ASSUME Init PROVE DetectionInv
  OBVIOUS
<1>1. DetectionTyped
  BY DEF Init, DetectionTyped, Idle, CallType
<1>2. WindowsAreSuffixes
  <2> SUFFICES ASSUME NEW k \in Windows PROVE Left(<< >>, << >>, Span[k], 0)
    BY DEF Init, WindowsAreSuffixes
  <2> QED  BY DEF Left, EndOf
<1>3. ClusterInv
  BY DEF Init, Idle, ClusterInv, ClustersHoldClustered, PublishingIsClustered,
         ClustersKeepRecords, AlertSumsUp, OpenClustersDiffer, PublishedGrow
<1> QED  BY <1>1, <1>2, <1>3 DEF DetectionInv

(* Before the first await: the windows move on, the event is scored.        *)
LEMMA ObserveInv ==
  ASSUME NEW r \in Requests PROVE DetectionInv /\ Observe(r) => DetectionInv'
<1> SUFFICES ASSUME DetectionInv, Observe(r) PROVE DetectionInv'
  OBVIOUS
<1>1. DetectionTyped /\ WindowsAreSuffixes /\ ClusterInv
  BY DEF DetectionInv
<1>2. PICK e \in Events :
        /\ windows' = Observed(r, e)
        /\ arrivals' = [k \in Windows |->
             IF k \in Entered(e) THEN Append(arrivals[k], Entry(r, e)) ELSE arrivals[k]]
        /\ call' = [call EXCEPT ![r] =
             [at |-> "scoring", hits |-> e.single \/ Matched(e, Observed(r, e)) # {},
              traits |-> TraitsOf(e, Observed(r, e)), score |-> 0]]
  BY DEF Observe
<1>3. /\ e.time \in Nat /\ e.traits \in SUBSET Traits /\ e.rules \in SUBSET Rules
      /\ e.single \in BOOLEAN
  BY DetectionAssumption DEF DetectionAssumption
<1>4. Entry(r, e) \in EntryType /\ Entry(r, e).time = e.time
  BY <1>3 DEF Entry, EntryType
<1>5. ASSUME NEW k \in Windows
      PROVE  /\ windows'[k] \in Seq(EntryType) /\ arrivals'[k] \in Seq(EntryType)
             /\ \E n \in Nat : Left(arrivals'[k], windows'[k], Span[k], n)
  <2>1. arrivals[k] \in Seq(EntryType) /\ windows[k] \in Seq(EntryType) /\ Span[k] \in Nat
    BY <1>1, DetectionAssumption DEF DetectionTyped, DetectionAssumption
  <2>2. PICK n \in Nat : Left(arrivals[k], windows[k], Span[k], n)
    BY <1>1 DEF WindowsAreSuffixes
  <2>3. CASE k \in Entered(e)
    <3>1. /\ windows'[k] = Prune(Append(windows[k], Entry(r, e)), e.time, Span[k])
          /\ arrivals'[k] = Append(arrivals[k], Entry(r, e))
      BY <2>3, <1>2 DEF Observed
    <3>2. PICK x \in EntryType : x = Entry(r, e) /\ x.time = e.time
      BY <1>4
    <3>3. PICK span \in Nat : span = Span[k]
      BY <2>1
    <3>4. Left(arrivals[k], windows[k], span, n)
      BY <2>2, <3>3
    <3>5. /\ Prune(Append(windows[k], x), x.time, span) \in Seq(EntryType)
          /\ \E m \in Nat :
               Left(Append(arrivals[k], x), Prune(Append(windows[k], x), x.time, span), span, m)
      BY <3>4, <2>1, ObservedLeft
    <3>6. Append(arrivals[k], x) \in Seq(EntryType)
      BY <2>1
    <3> QED  BY <3>1, <3>2, <3>3, <3>5, <3>6
  <2>4. CASE k \notin Entered(e)
    <3>1. windows'[k] = windows[k] /\ arrivals'[k] = arrivals[k]
      BY <2>4, <1>2 DEF Observed
    <3> QED  BY <3>1, <2>1, <2>2
  <2> QED  BY <2>3, <2>4
<1>6. windows' \in [Windows -> Seq(EntryType)] /\ arrivals' \in [Windows -> Seq(EntryType)]
  BY <1>2, <1>5 DEF Observed
<1>7. WindowsAreSuffixes'
  BY <1>5 DEF WindowsAreSuffixes
<1>8. TraitsOf(e, Observed(r, e)) \in SUBSET Traits
  BY <1>3, DetectionAssumption DEF TraitsOf, Matched, DetectionAssumption
<1>9. PICK new \in CallType : call' = [call EXCEPT ![r] = new] /\ new.at = "scoring"
  <2> DEFINE n == [at |-> "scoring", hits |-> e.single \/ Matched(e, Observed(r, e)) # {},
                   traits |-> TraitsOf(e, Observed(r, e)), score |-> 0]
  <2>1. (e.single \/ Matched(e, Observed(r, e)) # {}) \in BOOLEAN
    BY Zenon
  <2>2. n \in CallType
    BY <2>1, <1>8, Zenon DEF CallType
  <2>3. call' = [call EXCEPT ![r] = n] /\ n.at = "scoring"
    BY <1>2
  <2> HIDE DEF n
  <2> QED  BY <2>2, <2>3
<1>10. UNCHANGED <<clusters, clock, published>> /\ call[r].at = "idle"
  BY DEF Observe
<1>11. DetectionTyped'
  BY <1>1, <1>6, <1>9, <1>10 DEF DetectionTyped
<1>12. ClusterInv'
  <2>1. \A q \in Requests : Clustered(q) => q # r /\ call'[q] = call[q]
    BY <1>1, <1>9, <1>10 DEF Clustered, DetectionTyped
  <2>2. \A i \in DOMAIN clusters : clusters[i] \in ClusterType
    BY <1>1 DEF DetectionTyped
  <2>3. \A i \in DOMAIN clusters : \A q \in clusters[i].events : q \in Requests /\ call'[q] = call[q]
    BY <2>1, <2>2, <1>1 DEF ClusterInv, ClustersHoldClustered, ClusterType
  <2>4. \A p \in DOMAIN published : published[p].alert \in Requests
    BY <1>1, ElementTypes
  <2>5. ClustersHoldClustered' /\ ClustersKeepRecords'
    BY <2>1, <2>3, <2>4, <1>1, <1>10
       DEF ClusterInv, ClustersHoldClustered, ClustersKeepRecords, Clustered
  <2>6. PublishingIsClustered'
    BY <1>1, <1>9, <1>10 DEF ClusterInv, PublishingIsClustered, DetectionTyped
  <2>7. AlertSumsUp'
    <3>1. ASSUME NEW i \in DOMAIN clusters
          PROVE  UNION {call'[q].traits : q \in clusters[i].events} =
                 UNION {call[q].traits : q \in clusters[i].events}
      BY <2>3
    <3> QED  BY <3>1, <2>3, <1>1, <1>10 DEF ClusterInv, AlertSumsUp
  <2>8. OpenClustersDiffer' /\ PublishedGrow'
    BY <1>1, <1>10 DEF ClusterInv, OpenClustersDiffer, Open, PublishedGrow
  <2> QED  BY <2>5, <2>6, <2>7, <2>8 DEF ClusterInv
<1> QED  BY <1>7, <1>11, <1>12 DEF DetectionInv

(* A call ends: what its event did to its cluster, if anything, stays.      *)
LEMMA CallEnds ==
  ASSUME DetectionInv, NEW r \in Requests, NEW new \in CallType,
         call' = [call EXCEPT ![r] = new], new.at = "done",
         call[r].at = "scoring" \/ (new.score = call[r].score /\ new.traits = call[r].traits),
         UNCHANGED <<windows, clusters, clock, arrivals>>
  PROVE  /\ call' \in [Requests -> CallType]
         /\ WindowsAreSuffixes' /\ ClustersHoldClustered' /\ PublishingIsClustered'
         /\ AlertSumsUp' /\ OpenClustersDiffer'
         /\ \A q \in Requests : Clustered(q) => Clustered(q)'
<1>1. DetectionTyped /\ WindowsAreSuffixes /\ ClusterInv
  BY DEF DetectionInv
<1>2. call'[r] = new /\ \A q \in Requests \ {r} : call'[q] = call[q]
  BY <1>1 DEF DetectionTyped
<1>3. \A q \in Requests : Clustered(q) => Clustered(q)'
  BY <1>2 DEF Clustered
<1>4. \A i \in DOMAIN clusters : clusters[i] \in ClusterType
  BY <1>1 DEF DetectionTyped
<1>5. ASSUME NEW i \in DOMAIN clusters, NEW q \in clusters[i].events
      PROVE  /\ q \in Requests /\ Clustered(q)
             /\ call'[q].score = call[q].score /\ call'[q].traits = call[q].traits
  <2>1. q \in Requests /\ Clustered(q)
    BY <1>1, <1>4 DEF ClusterInv, ClustersHoldClustered, ClusterType
  <2> QED  BY <2>1, <1>2 DEF Clustered
<1>6. call' \in [Requests -> CallType] /\ WindowsAreSuffixes'
  BY <1>1 DEF DetectionTyped, WindowsAreSuffixes
<1>7. ClustersHoldClustered'
  BY <1>1, <1>3, <1>5 DEF ClusterInv, ClustersHoldClustered
<1>8. PublishingIsClustered'
  BY <1>1, <1>2 DEF ClusterInv, PublishingIsClustered
<1>9. AlertSumsUp'
  <2>1. ASSUME NEW i \in DOMAIN clusters
        PROVE  UNION {call'[q].traits : q \in clusters[i].events} =
               UNION {call[q].traits : q \in clusters[i].events}
    BY <1>5
  <2> QED  BY <2>1, <1>1, <1>5 DEF ClusterInv, AlertSumsUp
<1>10. OpenClustersDiffer'
  BY <1>1 DEF ClusterInv, OpenClustersDiffer, Open
<1> QED  BY <1>3, <1>6, <1>7, <1>8, <1>9, <1>10

(* Neither a dismissed event nor a failed call tells of an alert.           *)
LEMMA DismissOrFailInv ==
  ASSUME NEW r \in Requests PROVE DetectionInv /\ (Dismiss(r) \/ Fail(r)) => DetectionInv'
<1> SUFFICES ASSUME DetectionInv, Dismiss(r) \/ Fail(r) PROVE DetectionInv'
  OBVIOUS
<1>1. DetectionTyped /\ ClusterInv /\ call \in [Requests -> CallType] /\ call[r] \in CallType
  BY DEF DetectionInv, DetectionTyped
<1>2. UNCHANGED <<windows, clusters, clock, arrivals>> /\ published' = published
  BY DEF Dismiss, Fail
<1>3. PICK new \in CallType :
        /\ call' = [call EXCEPT ![r] = new] /\ new.at = "done"
        /\ call[r].at = "scoring" \/ (new.score = call[r].score /\ new.traits = call[r].traits)
  <2>1. CASE Dismiss(r)
    <3>1. Over \in CallType /\ Over.at = "done"
      BY DEF Over, Idle, CallType
    <3> QED  BY <2>1, <3>1 DEF Dismiss
  <2>2. CASE Fail(r)
    <3>1. /\ [call[r] EXCEPT !.at = "done"] \in CallType
          /\ [call[r] EXCEPT !.at = "done"].at = "done"
          /\ [call[r] EXCEPT !.at = "done"].score = call[r].score
          /\ [call[r] EXCEPT !.at = "done"].traits = call[r].traits
      BY <1>1 DEF CallType
    <3>2. call' = [call EXCEPT ![r] = [call[r] EXCEPT !.at = "done"]]
      BY <2>2, <1>1 DEF Fail
    <3> QED  BY <3>1, <3>2
  <2> QED  BY <2>1, <2>2
<1>4. /\ call' \in [Requests -> CallType]
      /\ WindowsAreSuffixes' /\ ClustersHoldClustered' /\ PublishingIsClustered'
      /\ AlertSumsUp' /\ OpenClustersDiffer'
      /\ \A q \in Requests : Clustered(q) => Clustered(q)'
  BY <1>2, <1>3, CallEnds
<1>5. DetectionTyped'
  BY <1>1, <1>2, <1>4 DEF DetectionTyped
<1>6. ClustersKeepRecords'
  <2>1. \A p \in DOMAIN published : published[p].alert \in Requests
    BY <1>1, ElementTypes
  <2> QED  BY <2>1, <1>1, <1>2, <1>4 DEF ClusterInv, ClustersKeepRecords
<1>7. PublishedGrow'
  BY <1>1, <1>2 DEF ClusterInv, PublishedGrow
<1> QED  BY <1>4, <1>5, <1>6, <1>7 DEF DetectionInv, ClusterInv

(* The record published tells all its cluster has.                          *)
LEMMA PublishAlertInv ==
  ASSUME NEW r \in Requests PROVE DetectionInv /\ PublishAlert(r) => DetectionInv'
<1> SUFFICES ASSUME DetectionInv, PublishAlert(r) PROVE DetectionInv'
  OBVIOUS
<1>1. DetectionTyped /\ ClusterInv /\ call \in [Requests -> CallType] /\ call[r] \in CallType
  BY DEF DetectionInv, DetectionTyped
<1>2. /\ UNCHANGED <<windows, clusters, clock, arrivals>> /\ call[r].at = "publishing"
      /\ call' = [call EXCEPT ![r].at = "done"]
  BY DEF PublishAlert
<1>3. PICK new \in CallType :
        /\ call' = [call EXCEPT ![r] = new] /\ new.at = "done"
        /\ new.score = call[r].score /\ new.traits = call[r].traits
  <2>1. /\ [call[r] EXCEPT !.at = "done"] \in CallType
        /\ [call[r] EXCEPT !.at = "done"].at = "done"
        /\ [call[r] EXCEPT !.at = "done"].score = call[r].score
        /\ [call[r] EXCEPT !.at = "done"].traits = call[r].traits
    BY <1>1 DEF CallType
  <2>2. call' = [call EXCEPT ![r] = [call[r] EXCEPT !.at = "done"]]
    BY <1>1, <1>2
  <2> QED  BY <2>1, <2>2
<1>4. /\ call' \in [Requests -> CallType]
      /\ WindowsAreSuffixes' /\ ClustersHoldClustered' /\ PublishingIsClustered'
      /\ AlertSumsUp' /\ OpenClustersDiffer'
      /\ \A q \in Requests : Clustered(q) => Clustered(q)'
  BY <1>2, <1>3, CallEnds
<1>5. PICK i \in DOMAIN clusters : i = ClusterOf(r) /\ r \in clusters[i].events
  <2>1. \E i \in DOMAIN clusters : r \in clusters[i].events
    BY <1>1, <1>2 DEF ClusterInv, PublishingIsClustered
  <2> QED  BY <2>1 DEF ClusterOf
<1>6. clusters[i] \in ClusterType
  BY <1>1 DEF DetectionTyped
<1>7. PICK record \in RecordType :
        /\ published' = Append(published, record)
        /\ record.by = r /\ record.alert = clusters[i].alert
        /\ record.events = clusters[i].events /\ record.score = clusters[i].score
  <2>1. Record(r, clusters[i]) \in RecordType
    BY <1>6 DEF Record, RecordType, ClusterType
  <2> QED  BY <2>1, <1>5 DEF PublishAlert, Record
<1>8. /\ published \in Seq(RecordType) /\ published' \in Seq(RecordType)
      /\ \A p \in DOMAIN published' : p \in DOMAIN published \/ p = Len(published) + 1
      /\ \A p \in DOMAIN published : published'[p] = published[p]
      /\ published'[Len(published) + 1] = record
      /\ Len(published) \in Nat
  BY <1>1, <1>7 DEF DetectionTyped
<1>9. DetectionTyped'
  BY <1>1, <1>2, <1>4, <1>8 DEF DetectionTyped
<1>10. \A j \in DOMAIN clusters : clusters[j].alert = clusters[i].alert => j = i
  BY <1>1 DEF ClusterInv, ClustersHoldClustered, AlertSumsUp
<1>11. ClustersKeepRecords'
  <2> SUFFICES ASSUME NEW p \in DOMAIN published'
               PROVE  /\ call'[published'[p].alert].at \in {"publishing", "done"}
                      /\ \A j \in DOMAIN clusters : clusters[j].alert = published'[p].alert =>
                           /\ published'[p].events \subseteq clusters[j].events
                           /\ published'[p].score <= clusters[j].score
    BY <1>2 DEF ClustersKeepRecords, Clustered
  <2>1. CASE p \in DOMAIN published
    <3>1. published[p].alert \in Requests
      BY <2>1, <1>1, ElementTypes
    <3> QED  BY <2>1, <3>1, <1>1, <1>4, <1>8
                DEF ClusterInv, ClustersKeepRecords, Clustered
  <2>2. CASE p = Len(published) + 1
    <3>1. Clustered(clusters[i].alert) /\ clusters[i].alert \in Requests
      BY <1>1, <1>6 DEF ClusterInv, ClustersHoldClustered, ClusterType
    <3>2. clusters[i].score <= clusters[i].score
      BY <1>6 DEF ClusterType
    <3> QED  BY <2>2, <3>1, <3>2, <1>4, <1>7, <1>8, <1>10 DEF Clustered
  <2> QED  BY <2>1, <2>2, <1>8
<1>12. PublishedGrow'
  <2>1. \A p \in DOMAIN published' : published'[p].by \in published'[p].events
    BY <1>1, <1>5, <1>7, <1>8 DEF ClusterInv, PublishedGrow
  <2>2. ASSUME NEW p \in DOMAIN published', NEW q \in DOMAIN published', p < q,
               published'[p].alert = published'[q].alert
        PROVE  /\ published'[p].events \subseteq published'[q].events
               /\ published'[p].score <= published'[q].score
    <3>1. p \in DOMAIN published
      <4>1. p \in Nat /\ q \in Nat /\ q <= Len(published) + 1
        BY <1>8
      <4> QED  BY <4>1, <2>2, <1>8
    <3>2. CASE q \in DOMAIN published
      BY <2>2, <3>1, <3>2, <1>1, <1>8 DEF ClusterInv, PublishedGrow
    <3>3. CASE q = Len(published) + 1
      BY <2>2, <3>1, <3>3, <1>1, <1>7, <1>8 DEF ClusterInv, ClustersKeepRecords
    <3> QED  BY <3>2, <3>3, <1>8
  <2> QED  BY <2>1, <2>2 DEF PublishedGrow
<1> QED  BY <1>4, <1>9, <1>11, <1>12 DEF DetectionInv, ClusterInv

(* Time passes: what was open may close.                                    *)
LEMMA DetectionTickInv == DetectionInv /\ Tick => DetectionInv'
<1> SUFFICES ASSUME DetectionInv, Tick PROVE DetectionInv'
  OBVIOUS
<1>1. DetectionTyped /\ WindowsAreSuffixes /\ ClusterInv
  BY DEF DetectionInv
<1>2. UNCHANGED <<windows, clusters, call, published, arrivals>> /\ clock' = clock + 1
  BY DEF Tick
<1>3. DetectionTyped'
  BY <1>1, <1>2 DEF DetectionTyped
<1>4. WindowsAreSuffixes'
  BY <1>1, <1>2 DEF WindowsAreSuffixes
<1>5. ASSUME NEW i \in DOMAIN clusters, Open(clusters[i])' PROVE Open(clusters[i])
  <2>1. clusters[i].updated \in Nat /\ CLUSTER_WINDOW \in Nat /\ clock \in Nat
    BY <1>1, DetectionAssumption, ElementTypes DEF DetectionTyped, DetectionAssumption
  <2> QED  BY <2>1, <1>2, <1>5 DEF Open
<1>6. OpenClustersDiffer'
  BY <1>1, <1>2, <1>5 DEF ClusterInv, OpenClustersDiffer
<1>7. /\ ClustersHoldClustered' /\ PublishingIsClustered' /\ ClustersKeepRecords'
      /\ AlertSumsUp' /\ PublishedGrow'
  BY <1>1, <1>2 DEF ClusterInv, ClustersHoldClustered, PublishingIsClustered, ClustersKeepRecords,
                    AlertSumsUp, PublishedGrow, Clustered
<1> QED  BY <1>3, <1>4, <1>6, <1>7 DEF DetectionInv, ClusterInv

(* A new process knows no window and no cluster; the events it might name   *)
(* an alert by are not those of alerts published.                           *)
LEMMA RestartInv == DetectionInv /\ Restart => DetectionInv'
<1> SUFFICES ASSUME DetectionInv, Restart PROVE DetectionInv'
  OBVIOUS
<1>1. DetectionTyped /\ ClusterInv
  BY DEF DetectionInv
<1>2. /\ UNCHANGED <<clock, published>> /\ clusters' = << >>
      /\ windows' = [k \in Windows |-> << >>] /\ arrivals' = [k \in Windows |-> << >>]
      /\ call' = [r \in Requests |-> IF call[r].at = "idle" THEN Idle ELSE Over]
  BY DEF Restart
<1>3. Idle \in CallType /\ Over \in CallType /\ Idle.at = "idle" /\ Over.at = "done"
  BY DEF Idle, Over, CallType
<1>4. DetectionTyped'
  BY <1>1, <1>2, <1>3 DEF DetectionTyped
<1>5. WindowsAreSuffixes'
  <2> SUFFICES ASSUME NEW k \in Windows PROVE Left(<< >>, << >>, Span[k], 0)
    BY <1>2 DEF WindowsAreSuffixes
  <2> QED  BY DEF Left, EndOf
<1>6. \A r \in Requests : Clustered(r) => Clustered(r)'
  BY <1>2, <1>3 DEF Clustered
<1>7. ClustersKeepRecords'
  <2>1. \A p \in DOMAIN published : published[p].alert \in Requests
    BY <1>1, ElementTypes
  <2> QED  BY <2>1, <1>1, <1>2, <1>6 DEF ClusterInv, ClustersKeepRecords
<1>8. ClustersHoldClustered' /\ PublishingIsClustered' /\ AlertSumsUp' /\ OpenClustersDiffer'
  BY <1>2, <1>3 DEF ClustersHoldClustered, PublishingIsClustered, AlertSumsUp, OpenClustersDiffer
<1>9. PublishedGrow'
  BY <1>1, <1>2 DEF ClusterInv, PublishedGrow
<1> QED  BY <1>4, <1>5, <1>7, <1>8, <1>9 DEF DetectionInv, ClusterInv

-----------------------------------------------------------------------------
(* A cluster that has just the traits of an event is a candidate for it.    *)
LEMMA SameTraitsOverlap ==
  ASSUME NEW c \in ClusterType, Open(c), c.traits # {}
  PROVE  Overlaps(c, c.traits)
<1>1. c.traits \in SUBSET Traits /\ OVERLAP_THRESHOLD \in 1..100
  BY DetectionAssumption DEF ClusterType, DetectionAssumption
<1>2. PICK n \in Nat : n = Shared(c, c.traits)
  BY <1>1, OverlapTypes
<1>3. Joint(c, c.traits) = n
  <2>1. c.traits \cap c.traits = c.traits /\ c.traits \cup c.traits = c.traits
    OBVIOUS
  <2> QED  BY <2>1, <1>2 DEF Shared, Joint
<1>4. 100 * n >= OVERLAP_THRESHOLD * n
  BY <1>1, <1>2
<1> QED  BY <1>2, <1>3, <1>4 DEF Overlaps

(* If the closest candidate i came to equal another open cluster j by       *)
(* taking the event's traits in, j would have been as close, and closer     *)
(* unless i equalled it already.                                            *)
LEMMA MergeKeepsApart ==
  ASSUME NEW c \in ClusterType, NEW d \in ClusterType, NEW traits \in SUBSET Traits,
         Overlaps(c, traits), Open(d), d.traits = c.traits \cup traits,
         ~ (Overlaps(d, traits) /\
            Shared(d, traits) * Joint(c, traits) > Shared(c, traits) * Joint(d, traits))
  PROVE  c.traits = d.traits
<1>1. PICK s \in Nat, j \in Nat, t \in Nat :
        /\ s = Shared(c, traits) /\ j = Joint(c, traits) /\ t = Cardinality(traits)
        /\ j > 0 /\ s <= t /\ (s = t => traits \subseteq c.traits)
  <2>1. /\ Shared(c, traits) \in Nat /\ Joint(c, traits) \in Nat /\ Joint(c, traits) > 0
    BY OverlapTypes DEF Overlaps
  <2>2. IsFiniteSet(traits)
    <3>1. IsFiniteSet(Traits)
      BY DetectionAssumption DEF DetectionAssumption
    <3> QED  BY <3>1, FS_Subset
  <2>3. Cardinality(traits) \in Nat
    BY <2>2, FS_CardinalityType
  <2>4. /\ Cardinality(c.traits \cap traits) <= Cardinality(traits)
        /\ Cardinality(c.traits \cap traits) = Cardinality(traits) => c.traits \cap traits = traits
    <3>1. (c.traits \cap traits) \in SUBSET traits
      OBVIOUS
    <3>2. /\ IsFiniteSet(c.traits \cap traits)
          /\ Cardinality(c.traits \cap traits) <= Cardinality(traits)
          /\ Cardinality(c.traits \cap traits) = Cardinality(traits) => c.traits \cap traits = traits
      BY <3>1, <2>2, FS_Subset
    <3>3. Cardinality(c.traits \cap traits) \in Nat
      BY <3>2, FS_CardinalityType
    <3> QED  BY <3>2, <3>3, <2>3
  <2> QED  BY <2>1, <2>3, <2>4 DEF Shared
<1>2. Shared(d, traits) = t /\ Joint(d, traits) = j
  <2>1. d.traits \cap traits = traits /\ d.traits \cup traits = c.traits \cup traits
    OBVIOUS
  <2> QED  BY <2>1, <1>1 DEF Shared, Joint
<1>3. Overlaps(d, traits)
  <2>1. 100 * s >= OVERLAP_THRESHOLD * j /\ traits # {} /\ d.traits # {}
    BY <1>1 DEF Overlaps
  <2>2. 100 * t >= OVERLAP_THRESHOLD * j
    <3>1. OVERLAP_THRESHOLD \in Nat
      BY DetectionAssumption DEF DetectionAssumption
    <3>2. PICK x \in Nat : x = OVERLAP_THRESHOLD * j
      BY <3>1
    <3> QED  BY <3>2, <2>1, <1>1
  <2> QED  BY <2>1, <2>2, <1>2 DEF Overlaps
<1>4. ~ (t * j > s * j)
  BY <1>1, <1>2, <1>3
<1>5. s = t
  <2>1. ASSUME s < t PROVE FALSE
    <3>1. PICK m \in Nat : t = s + 1 + m
      <4>1. t - s - 1 \in Nat /\ t = s + 1 + (t - s - 1)
        BY <2>1
      <4> QED  BY <4>1
    <3>2. t * j = s * j + j + m * j
      BY <3>1
    <3>3. s * j \in Nat /\ m * j \in Nat /\ j > 0
      BY <1>1
    <3> QED  BY <3>2, <3>3, <1>4
  <2> QED  BY <2>1, <1>1
<1> QED  BY <1>1, <1>5

(* What an event's call is after it was put into a cluster.                 *)
Assigned(r, score) ==
  /\ call[r].at = "scoring"
  /\ call' \in [Requests -> CallType]
  /\ call'[r].at \in {"publishing", "done"}
  /\ call'[r].score = score /\ call'[r].traits = call[r].traits
  /\ \A q \in Requests \ {r} : call'[q] = call[q]
  /\ UNCHANGED <<windows, clock, published, arrivals>>

(* Nothing open has the traits of an event that starts a cluster, and no    *)
(* alert is named by it.                                                    *)
LEMMA CreateInv ==
  ASSUME ClusterInv, DetectionTyped, NEW r \in Requests, NEW score \in Nat, Assigned(r, score),
         Candidates(call[r].traits) = {},
         clusters' = Append(clusters, Created(r, call[r].traits, score))
  PROVE  ClusterInv' /\ clusters' \in Seq(ClusterType)
<1> DEFINE T == call[r].traits
           new == Created(r, T, score)
<1>0. /\ call[r].at = "scoring" /\ call'[r].at \in {"publishing", "done"}
      /\ call'[r].score = score /\ call'[r].traits = T
      /\ \A q \in Requests \ {r} : call'[q] = call[q]
      /\ UNCHANGED <<clock, published>>
  BY DEF Assigned
<1>1. T \in SUBSET Traits /\ clusters \in Seq(ClusterType) /\ Len(clusters) \in Nat
  BY DEF DetectionTyped, CallType
<1>2. /\ new \in ClusterType
      /\ new.alert = r /\ new.traits = T /\ new.events = {r} /\ new.score = score
  BY <1>1 DEF Created, ClusterType, DetectionTyped
<1> HIDE DEF new
<1>3. /\ clusters' \in Seq(ClusterType)
      /\ \A i \in DOMAIN clusters' : i \in DOMAIN clusters \/ i = Len(clusters) + 1
      /\ \A i \in DOMAIN clusters : i \in DOMAIN clusters' /\ clusters'[i] = clusters[i]
      /\ Len(clusters) + 1 \in DOMAIN clusters' /\ clusters'[Len(clusters) + 1] = new
      /\ \A i \in DOMAIN clusters : clusters[i] \in ClusterType
  BY <1>1, <1>2 DEF new
<1>4. ~Clustered(r)
  BY <1>0 DEF Clustered
<1>5. ASSUME NEW i \in DOMAIN clusters, NEW q \in clusters[i].events
      PROVE  q \in Requests /\ q # r /\ Clustered(q) /\ call'[q] = call[q]
  <2>1. q \in Requests /\ Clustered(q)
    BY <1>3 DEF ClusterInv, ClustersHoldClustered, ClusterType
  <2> QED  BY <2>1, <1>0, <1>4
<1>6. \A q \in Requests : Clustered(q) => call'[q].at \in {"publishing", "done"}
  BY <1>0 DEF Clustered
<1>7. ClustersHoldClustered'
  <2> SUFFICES ASSUME NEW i \in DOMAIN clusters'
               PROVE  /\ clusters'[i].alert \in clusters'[i].events
                      /\ \A q \in clusters'[i].events : call'[q].at \in {"publishing", "done"}
    BY DEF ClustersHoldClustered, Clustered
  <2>1. CASE i \in DOMAIN clusters
    BY <2>1, <1>3, <1>5, <1>6 DEF ClusterInv, ClustersHoldClustered
  <2>2. CASE i = Len(clusters) + 1
    BY <2>2, <1>0, <1>2, <1>3
  <2> QED  BY <2>1, <2>2, <1>3
<1>8. PublishingIsClustered'
  <2> SUFFICES ASSUME NEW q \in Requests, call'[q].at = "publishing"
               PROVE  \E i \in DOMAIN clusters' : q \in clusters'[i].events
    BY DEF PublishingIsClustered
  <2>1. CASE q = r
    BY <2>1, <1>2, <1>3
  <2>2. CASE q # r
    BY <2>2, <1>0, <1>3 DEF ClusterInv, PublishingIsClustered
  <2> QED  BY <2>1, <2>2
<1>9. ClustersKeepRecords'
  <2> SUFFICES ASSUME NEW p \in DOMAIN published
               PROVE  /\ call'[published[p].alert].at \in {"publishing", "done"}
                      /\ \A i \in DOMAIN clusters' : clusters'[i].alert = published[p].alert =>
                           /\ published[p].events \subseteq clusters'[i].events
                           /\ published[p].score <= clusters'[i].score
    BY <1>0 DEF ClustersKeepRecords, Clustered
  <2>1. published[p].alert \in Requests /\ Clustered(published[p].alert)
    BY ElementTypes DEF ClusterInv, ClustersKeepRecords
  <2>2. published[p].alert # r
    BY <2>1, <1>4
  <2> QED  BY <2>1, <2>2, <1>2, <1>3, <1>6 DEF ClusterInv, ClustersKeepRecords
<1>10. AlertSumsUp'
  <2>1. ASSUME NEW i \in DOMAIN clusters'
        PROVE  /\ \A q \in clusters'[i].events : call'[q].score <= clusters'[i].score
               /\ \E q \in clusters'[i].events : call'[q].score = clusters'[i].score
               /\ clusters'[i].traits = UNION {call'[q].traits : q \in clusters'[i].events}
    <3>1. CASE i \in DOMAIN clusters
      <4>1. UNION {call'[q].traits : q \in clusters[i].events} =
            UNION {call[q].traits : q \in clusters[i].events}
        BY <3>1, <1>5
      <4> QED  BY <4>1, <3>1, <1>3, <1>5 DEF ClusterInv, AlertSumsUp
    <3>2. CASE i = Len(clusters) + 1
      <4>1. score <= score
        OBVIOUS
      <4> QED  BY <4>1, <3>2, <1>0, <1>2, <1>3
    <3> QED  BY <3>1, <3>2, <1>3
  <2>2. ASSUME NEW i \in DOMAIN clusters', NEW j \in DOMAIN clusters',
               clusters'[i].events \cap clusters'[j].events # {}
        PROVE  i = j
    BY <2>2, <1>2, <1>3, <1>5 DEF ClusterInv, AlertSumsUp
  <2> QED  BY <2>1, <2>2 DEF AlertSumsUp
<1>11. OpenClustersDiffer'
  <2>1. \A c \in ClusterType : Open(c)' <=> Open(c)
    BY <1>0 DEF Open
  <2>2. ASSUME NEW i \in DOMAIN clusters, Open(clusters[i]), clusters[i].traits = T, T # {}
        PROVE  FALSE
    <3>1. Overlaps(clusters[i], T)
      BY <2>2, <1>3, SameTraitsOverlap
    <3> QED  BY <3>1 DEF Candidates
  <2> SUFFICES ASSUME NEW i \in DOMAIN clusters', NEW j \in DOMAIN clusters',
                      clock - clusters'[i].updated <= CLUSTER_WINDOW,
                      clock - clusters'[j].updated <= CLUSTER_WINDOW,
                      clusters'[i].traits = clusters'[j].traits, clusters'[i].traits # {}
               PROVE  i = j
    BY <1>0 DEF OpenClustersDiffer, Open
  <2>3. CASE i \in DOMAIN clusters /\ j \in DOMAIN clusters
    BY <2>3, <1>3 DEF ClusterInv, OpenClustersDiffer, Open
  <2>4. CASE i \in DOMAIN clusters /\ j = Len(clusters) + 1
    BY <2>2, <2>4, <1>2, <1>3 DEF Open
  <2>5. CASE i = Len(clusters) + 1 /\ j \in DOMAIN clusters
    BY <2>2, <2>5, <1>2, <1>3 DEF Open
  <2> QED  BY <2>3, <2>4, <2>5, <1>3
<1>12. PublishedGrow'
  BY <1>0 DEF ClusterInv, PublishedGrow
<1> QED  BY <1>3, <1>7, <1>8, <1>9, <1>10, <1>11, <1>12 DEF ClusterInv

(* The cluster an event merges into gathers it; no other open cluster has   *)
(* the traits it has now.                                                   *)
LEMMA MergeInv ==
  ASSUME ClusterInv, DetectionTyped, NEW r \in Requests, NEW score \in Nat, Assigned(r, score),
         NEW i \in DOMAIN clusters, Overlaps(clusters[i], call[r].traits),
         \A j \in Candidates(call[r].traits) : ~Closer(j, i, call[r].traits),
         clusters' = [clusters EXCEPT ![i] = Merged(clusters[i], r, call[r].traits, score)]
  PROVE  ClusterInv' /\ clusters' \in Seq(ClusterType)
<1> DEFINE T == call[r].traits
           c == clusters[i]
           new == Merged(c, r, T, score)
<1>0. /\ call[r].at = "scoring" /\ call'[r].at \in {"publishing", "done"}
      /\ call'[r].score = score /\ call'[r].traits = T
      /\ \A q \in Requests \ {r} : call'[q] = call[q]
      /\ UNCHANGED <<clock, published>>
  BY DEF Assigned
<1>1. T \in SUBSET Traits /\ clusters \in Seq(ClusterType) /\ c \in ClusterType
  BY DEF DetectionTyped, CallType
<1>2. /\ new \in ClusterType
      /\ new.alert = c.alert /\ new.traits = c.traits \cup T /\ new.events = c.events \cup {r}
      /\ new.score = (IF score > c.score THEN score ELSE c.score)
  BY <1>1 DEF Merged, ClusterType, DetectionTyped
<1>2a. /\ score <= new.score /\ c.score <= new.score
       /\ new.score = score \/ new.score = c.score
       /\ c.score \in Nat /\ new.score \in Nat
  BY <1>1, <1>2 DEF ClusterType
<1> HIDE DEF new
<1>3. /\ clusters' \in Seq(ClusterType)
      /\ DOMAIN clusters' = DOMAIN clusters
      /\ clusters'[i] = new
      /\ \A j \in DOMAIN clusters : j # i => clusters'[j] = clusters[j]
      /\ \A j \in DOMAIN clusters : clusters[j] \in ClusterType /\ clusters'[j] \in ClusterType
  BY <1>1, <1>2 DEF new
<1>4. ~Clustered(r)
  BY <1>0 DEF Clustered
<1>5. ASSUME NEW j \in DOMAIN clusters, NEW q \in clusters[j].events
      PROVE  q \in Requests /\ q # r /\ Clustered(q) /\ call'[q] = call[q]
  <2>1. q \in Requests /\ Clustered(q)
    BY <1>3 DEF ClusterInv, ClustersHoldClustered, ClusterType
  <2> QED  BY <2>1, <1>0, <1>4
<1>6. \A q \in Requests : Clustered(q) => call'[q].at \in {"publishing", "done"}
  BY <1>0 DEF Clustered
<1>7. ClustersHoldClustered'
  <2> SUFFICES ASSUME NEW j \in DOMAIN clusters
               PROVE  /\ clusters'[j].alert \in clusters'[j].events
                      /\ \A q \in clusters'[j].events : call'[q].at \in {"publishing", "done"}
    BY <1>3 DEF ClustersHoldClustered, Clustered
  <2>1. clusters[j].alert \in clusters[j].events
    BY DEF ClusterInv, ClustersHoldClustered
  <2>2. \A q \in clusters[j].events : call'[q].at \in {"publishing", "done"}
    BY <1>5, <1>6
  <2>3. CASE j # i
    BY <2>1, <2>2, <2>3, <1>3
  <2>4. CASE j = i
    BY <2>1, <2>2, <2>4, <1>0, <1>2, <1>3
  <2> QED  BY <2>3, <2>4
<1>8. PublishingIsClustered'
  <2> SUFFICES ASSUME NEW q \in Requests, call'[q].at = "publishing"
               PROVE  \E j \in DOMAIN clusters : q \in clusters'[j].events
    BY <1>3 DEF PublishingIsClustered
  <2>1. CASE q = r
    BY <2>1, <1>2, <1>3
  <2>2. CASE q # r
    <3>1. PICK j \in DOMAIN clusters : q \in clusters[j].events
      BY <2>2, <1>0 DEF ClusterInv, PublishingIsClustered
    <3> QED  BY <3>1, <1>2, <1>3
  <2> QED  BY <2>1, <2>2
<1>9. ClustersKeepRecords'
  <2> SUFFICES ASSUME NEW p \in DOMAIN published
               PROVE  /\ call'[published[p].alert].at \in {"publishing", "done"}
                      /\ \A j \in DOMAIN clusters : clusters'[j].alert = published[p].alert =>
                           /\ published[p].events \subseteq clusters'[j].events
                           /\ published[p].score <= clusters'[j].score
    BY <1>0, <1>3 DEF ClustersKeepRecords, Clustered
  <2>1. /\ published[p].alert \in Requests /\ Clustered(published[p].alert)
        /\ published[p].score \in Nat
    BY ElementTypes DEF ClusterInv, ClustersKeepRecords
  <2>2. ASSUME NEW j \in DOMAIN clusters, clusters'[j].alert = published[p].alert
        PROVE  /\ published[p].events \subseteq clusters'[j].events
               /\ published[p].score <= clusters'[j].score
    <3>1. clusters[j].alert = published[p].alert
      BY <2>2, <1>2, <1>3
    <3>2. /\ published[p].events \subseteq clusters[j].events
          /\ published[p].score <= clusters[j].score
      BY <3>1 DEF ClusterInv, ClustersKeepRecords
    <3>3. CASE j # i
      BY <3>2, <3>3, <1>3
    <3>4. CASE j = i
      <4>1. published[p].score <= new.score
        BY <3>2, <3>4, <2>1, <1>2a
      <4> QED  BY <4>1, <3>2, <3>4, <1>2, <1>3
    <3> QED  BY <3>3, <3>4
  <2> QED  BY <2>1, <2>2, <1>6
<1>10. AlertSumsUp'
  <2>1. ASSUME NEW j \in DOMAIN clusters
        PROVE  /\ \A q \in clusters'[j].events : call'[q].score <= clusters'[j].score
               /\ \E q \in clusters'[j].events : call'[q].score = clusters'[j].score
               /\ clusters'[j].traits = UNION {call'[q].traits : q \in clusters'[j].events}
    <3>1. /\ \A q \in clusters[j].events : call'[q].score <= clusters[j].score
          /\ \E q \in clusters[j].events : call'[q].score = clusters[j].score
          /\ clusters[j].traits = UNION {call'[q].traits : q \in clusters[j].events}
      <4>1. UNION {call'[q].traits : q \in clusters[j].events} =
            UNION {call[q].traits : q \in clusters[j].events}
        BY <1>5
      <4> QED  BY <4>1, <1>5 DEF ClusterInv, AlertSumsUp
    <3>2. CASE j # i
      BY <3>1, <3>2, <1>3
    <3>3. CASE j = i
      <4>1. \A q \in new.events : call'[q].score <= new.score
        <5>1. ASSUME NEW q \in c.events PROVE call'[q].score <= new.score
          <6>1. call'[q].score \in Nat
            BY <1>5 DEF Assigned, CallType
          <6> QED  BY <6>1, <3>1, <3>3, <1>2a
        <5> QED  BY <5>1, <1>0, <1>2, <1>2a
      <4>2. \E q \in new.events : call'[q].score = new.score
        BY <3>1, <3>3, <1>0, <1>2, <1>2a
      <4>3. new.traits = UNION {call'[q].traits : q \in new.events}
        BY <3>1, <3>3, <1>0, <1>2
      <4> QED  BY <4>1, <4>2, <4>3, <3>3, <1>3
    <3> QED  BY <3>2, <3>3
  <2>2. ASSUME NEW j \in DOMAIN clusters, NEW k \in DOMAIN clusters,
               clusters'[j].events \cap clusters'[k].events # {}
        PROVE  j = k
    <3>1. \A m \in DOMAIN clusters :
             clusters'[m].events \subseteq clusters[m].events \cup (IF m = i THEN {r} ELSE {})
      BY <1>2, <1>3
    <3>2. CASE clusters[j].events \cap clusters[k].events # {}
      BY <3>2 DEF ClusterInv, AlertSumsUp
    <3>3. CASE clusters[j].events \cap clusters[k].events = {}
      BY <3>1, <3>3, <2>2, <1>5
    <3> QED  BY <3>2, <3>3
  <2> QED  BY <2>1, <2>2, <1>3 DEF AlertSumsUp
<1>11. OpenClustersDiffer'
  <2>1. Open(c)
    BY DEF Overlaps
  <2>2. ASSUME NEW j \in DOMAIN clusters, Open(clusters[j]), clusters[j].traits = c.traits \cup T
        PROVE  i = j
    <3>1. PICK d \in ClusterType : d = clusters[j]
      BY <1>3
    <3>2. ~ (Overlaps(d, T) /\ Shared(d, T) * Joint(c, T) > Shared(c, T) * Joint(d, T))
      BY <3>1 DEF Candidates, Closer
    <3>3. Open(d) /\ d.traits = c.traits \cup T /\ Overlaps(c, T)
      BY <3>1, <2>2
    <3> HIDE DEF c
    <3>4. c.traits = d.traits
      BY <3>2, <3>3, <1>1, MergeKeepsApart
    <3> USE DEF c
    <3>5. c.traits # {}
      BY DEF Overlaps
    <3> QED  BY <3>1, <3>4, <3>5, <2>1, <2>2 DEF ClusterInv, OpenClustersDiffer
  <2> SUFFICES ASSUME NEW j \in DOMAIN clusters, NEW k \in DOMAIN clusters,
                      clock - clusters'[j].updated <= CLUSTER_WINDOW,
                      clock - clusters'[k].updated <= CLUSTER_WINDOW,
                      clusters'[j].traits = clusters'[k].traits, clusters'[j].traits # {}
               PROVE  j = k
    BY <1>0, <1>3 DEF OpenClustersDiffer, Open
  <2>3. CASE j # i /\ k # i
    BY <2>3, <1>3 DEF ClusterInv, OpenClustersDiffer, Open
  <2>4. CASE j = i /\ k # i
    BY <2>2, <2>4, <1>2, <1>3 DEF Open
  <2>5. CASE j # i /\ k = i
    BY <2>2, <2>5, <1>2, <1>3 DEF Open
  <2> QED  BY <2>3, <2>4, <2>5
<1>12. PublishedGrow'
  BY <1>0 DEF ClusterInv, PublishedGrow
<1> QED  BY <1>3, <1>7, <1>8, <1>9, <1>10, <1>11, <1>12 DEF ClusterInv

(* An event starts a cluster or merges into the closest one.                *)
LEMMA AssignInv ==
  ASSUME NEW r \in Requests PROVE DetectionInv /\ Assign(r) => DetectionInv'
<1> SUFFICES ASSUME DetectionInv, Assign(r) PROVE DetectionInv'
  OBVIOUS
<1> DEFINE T == call[r].traits
<1>1. DetectionTyped /\ WindowsAreSuffixes /\ ClusterInv
  BY DEF DetectionInv
<1>2. PICK score \in Scores :
        /\ clusters' = IF Candidates(T) = {}
                       THEN Append(clusters, Created(r, T, score))
                       ELSE [clusters EXCEPT ![FindMatch(T)] = Merged(@, r, T, score)]
        /\ call' = [call EXCEPT ![r].score = score,
                      ![r].at = IF r \in Streamed THEN "publishing" ELSE "done"]
  BY DEF Assign
<1>3. score \in Nat
  BY DetectionAssumption DEF DetectionAssumption
<1>4. Assigned(r, score)
  <2>1. call[r] \in CallType /\ call \in [Requests -> CallType]
    BY <1>1 DEF DetectionTyped
  <2>2. PICK new \in CallType :
          /\ call' = [call EXCEPT ![r] = new]
          /\ new.at \in {"publishing", "done"} /\ new.score = score /\ new.traits = T
    <3> DEFINE n == [call[r] EXCEPT !.score = score,
                                    !.at = IF r \in Streamed THEN "publishing" ELSE "done"]
    <3>1. n \in CallType /\ n.at \in {"publishing", "done"} /\ n.score = score /\ n.traits = T
      BY <2>1, <1>3 DEF CallType
    <3>2. call' = [call EXCEPT ![r] = n]
      BY <2>1, <1>2
    <3> QED  BY <3>1, <3>2
  <2>3. call[r].at = "scoring" /\ UNCHANGED <<windows, clock, published, arrivals>>
    BY DEF Assign
  <2> QED  BY <2>1, <2>2, <2>3 DEF Assigned
<1>5. T \in SUBSET Traits /\ clusters \in Seq(ClusterType)
  BY <1>1 DEF DetectionTyped, CallType
<1>6. ClusterInv' /\ clusters' \in Seq(ClusterType)
  <2>1. CASE Candidates(T) = {}
    BY <2>1, <1>1, <1>2, <1>3, <1>4, CreateInv
  <2>2. CASE Candidates(T) # {}
    <3>1. /\ FindMatch(T) \in Candidates(T)
          /\ \A j \in Candidates(T) : ~Closer(j, FindMatch(T), T)
      BY <2>2, <1>5, FindMatchIsClosest
    <3>2. PICK i \in DOMAIN clusters : i = FindMatch(T) /\ Overlaps(clusters[i], T)
      BY <3>1 DEF Candidates
    <3>3. clusters' = [clusters EXCEPT ![i] = Merged(clusters[i], r, T, score)]
      BY <2>2, <3>2, <1>2
    <3>4. \A j \in Candidates(T) : ~Closer(j, i, T)
      BY <3>1, <3>2
    <3> QED  BY <3>2, <3>3, <3>4, <1>1, <1>3, <1>4, MergeInv
  <2> QED  BY <2>1, <2>2
<1>7. DetectionTyped'
  BY <1>1, <1>4, <1>6 DEF DetectionTyped, Assigned
<1>8. WindowsAreSuffixes'
  BY <1>1, <1>4 DEF WindowsAreSuffixes, Assigned
<1> QED  BY <1>6, <1>7, <1>8 DEF DetectionInv

-----------------------------------------------------------------------------
(* The invariant is inductive.                                              *)
LEMMA DetectionInductive == DetectionInv /\ [Next]_vars => DetectionInv'
<1> SUFFICES ASSUME DetectionInv, [Next]_vars PROVE DetectionInv'
  OBVIOUS
<1>1. ASSUME NEW r \in Requests, Observe(r) PROVE DetectionInv'
  BY <1>1, ObserveInv
<1>2. ASSUME NEW r \in Requests, Dismiss(r) \/ Fail(r) PROVE DetectionInv'
  BY <1>2, DismissOrFailInv
<1>3. ASSUME NEW r \in Requests, Assign(r) PROVE DetectionInv'
  BY <1>3, AssignInv
<1>4. ASSUME NEW r \in Requests, PublishAlert(r) PROVE DetectionInv'
  BY <1>4, PublishAlertInv
<1>5. CASE Tick
  BY <1>5, DetectionTickInv
<1>6. CASE Restart
  BY <1>6, RestartInv
<1>7. CASE UNCHANGED vars
  BY <1>7 DEF vars, DetectionInv, DetectionTyped, WindowsAreSuffixes, ClusterInv,
              ClustersHoldClustered, PublishingIsClustered, ClustersKeepRecords, Clustered,
              AlertSumsUp, OpenClustersDiffer, Open, PublishedGrow
<1> QED  BY <1>1, <1>2, <1>3, <1>4, <1>5, <1>6, <1>7 DEF Next

(* Every reachable state of a detection process satisfies it.               *)
LEMMA DetectionInvariance == Spec => []DetectionInv
<1> QED  BY DetectionInitInv, DetectionInductive, PTL DEF Spec

(* CorrelationEngine and TemporalFeatureTracker: while the events of a      *)
(* window come in the order of their timestamps, it holds exactly those of  *)
(* the last window_seconds, for every number of events and every span.      *)
THEOREM WindowsAlwaysExact == Spec => []WindowsExact
<1>1. DetectionInv => WindowsExact
  <2> SUFFICES ASSUME DetectionInv, NEW k \in Windows, InOrder(arrivals[k])
               PROVE  \E n \in 0..Len(arrivals[k]) :
                        /\ windows[k] = SubSeq(arrivals[k], n + 1, Len(arrivals[k]))
                        /\ \A i \in DOMAIN arrivals[k] :
                             Fresh(arrivals[k][i], arrivals[k][Len(arrivals[k])].time, Span[k])
                               <=> i > n
    BY DEF WindowsExact
  <2>1. arrivals[k] \in Seq(EntryType) /\ DOMAIN arrivals[k] = 1..Len(arrivals[k])
    BY DEF DetectionInv, DetectionTyped
  <2>2. PICK n \in Nat : Left(arrivals[k], windows[k], Span[k], n)
    BY DEF DetectionInv, WindowsAreSuffixes
  <2>3. EndOf(arrivals[k], n, windows[k]) /\ n \in 0..Len(arrivals[k])
    BY <2>2 DEF Left, EndOf
  <2>4. windows[k] = SubSeq(arrivals[k], n + 1, Len(arrivals[k]))
    BY <2>1, <2>3, EndIsSubSeq
  <2> QED  BY <2>1, <2>2, <2>3, <2>4 DEF Left
<1> QED  BY <1>1, DetectionInvariance, PTL

(* AlertClusterStore: two open clusters never come to have the same         *)
(* entities and techniques, for any traits and any threshold, as            *)
(* _find_match takes the closest one.                                       *)
THEOREM OpenClustersAlwaysDiffer == Spec => []OpenClustersDiffer
<1>1. DetectionInv => OpenClustersDiffer
  BY DEF DetectionInv, ClusterInv
<1> QED  BY <1>1, DetectionInvariance, PTL

(* An alert carries the highest risk and all the traits of its events, each *)
(* of which is in one alert of the process.                                 *)
THEOREM AlertsAlwaysSumUp == Spec => []AlertSumsUp
<1>1. DetectionInv => AlertSumsUp
  BY DEF DetectionInv, ClusterInv
<1> QED  BY <1>1, DetectionInvariance, PTL

(* The records published for an alert only ever tell more, also when the    *)
(* process has been restarted between them.                                 *)
THEOREM PublishedAlwaysGrow == Spec => []PublishedGrow
<1>1. DetectionInv => PublishedGrow
  BY DEF DetectionInv, ClusterInv
<1> QED  BY <1>1, DetectionInvariance, PTL

-----------------------------------------------------------------------------
(* Risk scores.  Max and Min choose, so what they choose has to be shown    *)
(* to exist: of two integers, and of the bounded values of a step function. *)
LEMMA MaxMinOfTwo ==
  ASSUME NEW a \in Int, NEW b \in Int
  PROVE  /\ Max({a, b}) = IF a >= b THEN a ELSE b
         /\ Min({a, b}) = IF a <= b THEN a ELSE b
<1>1. Max({a, b}) \in {a, b} /\ \A y \in {a, b} : Max({a, b}) >= y
  <2>1. \E x \in {a, b} : \A y \in {a, b} : x >= y
    OBVIOUS
  <2> QED  BY <2>1 DEF Max
<1>2. Min({a, b}) \in {a, b} /\ \A y \in {a, b} : Min({a, b}) <= y
  <2>1. \E x \in {a, b} : \A y \in {a, b} : x <= y
    OBVIOUS
  <2> QED  BY <2>1 DEF Min
<1> QED  BY <1>1, <1>2

LEMMA CapsAndFloors ==
  /\ \A bound, v \in Int : Upto(bound, v) = IF bound <= v THEN bound ELSE v
  /\ \A bound, v \in Int : Atleast(bound, v) = IF bound >= v THEN bound ELSE v
BY MaxMinOfTwo DEF Upto, Atleast

LEMMA ScoresAreNumbers ==
  /\ \A x \in Thousandths : x \in Int /\ 0 <= x /\ x <= 1000
  /\ \A x \in Int : 0 <= x /\ x <= 1000 => x \in Thousandths
BY DEF Thousandths

(* A score that is raised to another stays one, also from none at all.      *)
LEMMA RaisedIsScore ==
  \A a \in {NoHit} \cup Thousandths, b \in Thousandths :
    Atleast(a, b) \in Thousandths /\ Atleast(a, b) >= a
<1> SUFFICES ASSUME NEW a \in {NoHit} \cup Thousandths, NEW b \in Thousandths
             PROVE  Atleast(a, b) \in Thousandths /\ Atleast(a, b) >= a
  OBVIOUS
<1>1. a \in Int /\ a <= 1000 /\ b \in Int /\ b >= 0 /\ b <= 1000
  BY DEF Thousandths, NoHit
<1>2. Atleast(a, b) = IF a >= b THEN a ELSE b
  BY <1>1, CapsAndFloors
<1> QED  BY <1>1, <1>2 DEF Thousandths

LEMMA GreatestOfBounded ==
  ASSUME NEW T, T \subseteq Thousandths, T # {}
  PROVE  Max(T) \in T /\ \A y \in T : Max(T) >= y
<1> USE DEF Thousandths
<1> DEFINE Below == {n \in Nat : 1000 - n \in T}
<1>1. \A y \in T : 1000 - y \in Below
  OBVIOUS
<1>2. Below \in SUBSET Nat /\ Below # {}
  <2>1. PICK y \in T : TRUE
    OBVIOUS
  <2>2. 1000 - y \in Below
    BY <1>1
  <2> QED  BY <2>2
<1> HIDE DEF Below
<1>3. PICK m \in Below : \A n \in Below : m <= n
  BY <1>2, LeastNumber
<1>4. m \in Nat /\ 1000 - m \in T
  BY <1>3 DEF Below
<1>5. ASSUME NEW y \in T PROVE 1000 - m >= y
  <2>1. m <= 1000 - y
    BY <1>1, <1>3
  <2> QED  BY <2>1, <1>4
<1>6. \E g \in T : \A y \in T : g >= y
  BY <1>4, <1>5
<1> QED  BY <1>6 DEF Max

(* A curve of steps: places and the values from there on.                   *)
Curve(c) == \A q \in c : q[1] \in Int /\ q[2] \in Thousandths
Reached(c, x) == {0} \cup {p[2] : p \in {q \in c : q[1] <= x}}

LEMMA StepIsReached ==
  ASSUME NEW c, Curve(c), NEW x \in Int
  PROVE  /\ Step(c, x) \in Thousandths
         /\ Step(c, x) \in Reached(c, x)
         /\ \A v \in Reached(c, x) : Step(c, x) >= v
<1>1. Reached(c, x) \subseteq Thousandths /\ Reached(c, x) # {}
  BY DEF Reached, Curve, Thousandths
<1>2. Step(c, x) = Max(Reached(c, x))
  BY DEF Step, Reached
<1> QED  BY <1>1, <1>2, GreatestOfBounded

LEMMA StepIsMonotone ==
  ASSUME NEW c, Curve(c), NEW x \in Int, NEW y \in Int, x <= y
  PROVE  Step(c, x) \in Thousandths /\ Step(c, y) \in Thousandths /\ Step(c, x) <= Step(c, y)
<1>1. Reached(c, x) \subseteq Reached(c, y)
  BY DEF Reached, Curve
<1>2. Step(c, x) \in Thousandths /\ Step(c, x) \in Reached(c, x) /\ Step(c, y) \in Thousandths
  <2>1. Step(c, x) \in Thousandths /\ Step(c, x) \in Reached(c, x)
    BY StepIsReached
  <2>2. Step(c, y) \in Thousandths
    BY StepIsReached
  <2> QED  BY <2>1, <2>2
<1>3. Step(c, x) \in Reached(c, y)
  BY <1>1, <1>2
<1>4. Step(c, y) >= Step(c, x)
  BY <1>3, StepIsReached
<1> QED  BY <1>2, <1>4 DEF Thousandths

LEMMA CurvesAreCurves == Curve(_sigmoid) /\ Curve(Calibration)
BY DEF Curve, _sigmoid, Calibration, Thousandths

-----------------------------------------------------------------------------
(* Evidence of any values, and when one is at least as bad as another.      *)
Paths == 0..5
EvidenceRecords ==
  [rule : Levels, off_hours : BOOLEAN, suspicious_hint : BOOLEAN, admin_hint : BOOLEAN,
   native_severity : BOOLEAN, criticality : Thousandths, hits : Nat,
   confidence : {NoHit} \cup Thousandths, degree : Nat, rarity : Thousandths, path : Paths,
   techniques : Nat, events : Nat]
EvidenceTyped(e) == e \in EvidenceRecords /\ (e.hits > 0 => e.confidence \in Thousandths)

AtLeastAsBad(w, e) ==
  /\ rule_score_from_hits(e) <= rule_score_from_hits(w)
  /\ e.off_hours => w.off_hours
  /\ e.suspicious_hint => w.suspicious_hint
  /\ e.native_severity => w.native_severity
  /\ w.admin_hint => e.admin_hint
  /\ e.criticality <= w.criticality /\ e.rarity <= w.rarity /\ e.degree <= w.degree
  /\ e.hits <= w.hits /\ (e.hits > 0 => e.confidence <= w.confidence)
  /\ e.techniques <= w.techniques /\ e.events <= w.events
  /\ w.path <= e.path

LEMMA RuleScores ==
  ASSUME NEW e, e.rule \in Levels
  PROVE  rule_score_from_hits(e) \in Thousandths /\ (rule_score_from_hits(e) = 0 <=> e.rule = "none")
BY DEF rule_score_from_hits, SEVERITY_WEIGHT, Levels, Thousandths

LEMMA WorseIsAtLeastAsBad ==
  ASSUME NEW e \in Evidence, NEW w \in Worse(e)
  PROVE  EvidenceTyped(e) /\ EvidenceTyped(w) /\ AtLeastAsBad(w, e)
<1>1. /\ e \in [rule : Levels, off_hours : BOOLEAN, suspicious_hint : BOOLEAN,
                admin_hint : BOOLEAN, native_severity : BOOLEAN, criticality : Criticalities,
                hits : 0..2, confidence : Confidences \cup {NoHit}, degree : Degrees,
                rarity : Rarities, path : PathLengths \cup {NotReached}, techniques : Rates,
                events : Rates]
      /\ e.hits > 0 => e.confidence # NoHit
  BY DEF Evidence
<1>2. /\ Confidences \subseteq Thousandths /\ Criticalities \subseteq Thousandths
      /\ Rarities \subseteq Thousandths
  BY ScoringAssumption, Zenon
<1>3. PathLengths \cup {NotReached} \subseteq Paths /\ Degrees \subseteq Nat /\ Rates \subseteq Nat
  <2>1. ASSUME NEW n \in PathLengths PROVE n \in Paths
    <3>1. n \in 0..4
      BY ScoringAssumption, Zenon
    <3> QED  BY <3>1 DEF Paths
  <2>2. NotReached \in Paths
    BY DEF NotReached, Paths
  <2> QED  BY <2>1, <2>2, ScoringAssumption
<1>4. e \in EvidenceRecords /\ (e.hits > 0 => e.confidence \in Thousandths)
  <2>1. e \in EvidenceRecords
    <3>1. Confidences \cup {NoHit} \subseteq {NoHit} \cup Thousandths
      BY <1>2
    <3>2. 0..2 \subseteq Nat
      OBVIOUS
    <3> QED  BY <1>1, <1>2, <1>3, <3>1, <3>2 DEF EvidenceRecords
  <2>2. e.confidence \in Confidences \cup {NoHit} /\ (e.hits > 0 => e.confidence # NoHit)
    BY <1>1
  <2> QED  BY <2>1, <2>2, <1>2
<1>5. /\ rule_score_from_hits(e) \in Int /\ e.criticality \in Int /\ e.rarity \in Int
      /\ e.hits \in Int /\ e.confidence \in Int /\ e.degree \in Int /\ e.techniques \in Int
      /\ e.events \in Int /\ e.path \in Int
  <2>1. rule_score_from_hits(e) \in Thousandths
    BY <1>1, RuleScores
  <2>2. e.criticality \in Thousandths /\ e.rarity \in Thousandths /\ e.path \in Paths
    BY <1>4 DEF EvidenceRecords
  <2>3. e.confidence \in {NoHit} \cup Thousandths
    BY <1>4 DEF EvidenceRecords
  <2>4. e.confidence \in Int /\ e.criticality \in Int /\ e.rarity \in Int /\ e.path \in Int
    <3>1. Thousandths \subseteq Int /\ Paths \subseteq Int /\ NoHit \in Int
      BY DEF Thousandths, Paths, NoHit
    <3> QED  BY <2>2, <2>3, <3>1
  <2>5. e.hits \in Nat /\ e.degree \in Nat /\ e.techniques \in Nat /\ e.events \in Nat
    BY <1>4 DEF EvidenceRecords
  <2> QED  BY <2>1, <2>4, <2>5 DEF Thousandths
<1> DEFINE Good == EvidenceTyped(w) /\ AtLeastAsBad(w, e)
<1>6. CASE w \in {[e EXCEPT !.rule = l] : l \in {k \in Levels \ {"none"} :
                                  rule_score_from_hits(e) <= SEVERITY_WEIGHT(k)}}
  <2>1. PICK l \in Levels \ {"none"} :
           w = [e EXCEPT !.rule = l] /\ rule_score_from_hits(e) <= SEVERITY_WEIGHT(l)
    BY <1>6
  <2>2. w.rule = l /\ rule_score_from_hits(w) = SEVERITY_WEIGHT(l)
    BY <2>1, <1>1 DEF rule_score_from_hits
  <2> QED  BY <2>1, <2>2, <1>4, <1>5 DEF EvidenceTyped, EvidenceRecords, AtLeastAsBad
<1>7. CASE w \in {[e EXCEPT !.off_hours = TRUE], [e EXCEPT !.suspicious_hint = TRUE],
                  [e EXCEPT !.native_severity = TRUE], [e EXCEPT !.admin_hint = FALSE]}
  <2>1. w.rule = e.rule
    BY <1>7, <1>4 DEF EvidenceRecords
  <2>2. w \in EvidenceRecords
    BY <1>7, <1>4 DEF EvidenceRecords
  <2>3. /\ w.criticality = e.criticality /\ w.rarity = e.rarity /\ w.degree = e.degree
        /\ w.hits = e.hits /\ w.confidence = e.confidence /\ w.path = e.path
        /\ w.techniques = e.techniques /\ w.events = e.events
    BY <1>7, <1>4 DEF EvidenceRecords
  <2>4. /\ (e.off_hours => w.off_hours) /\ (e.suspicious_hint => w.suspicious_hint)
        /\ (e.native_severity => w.native_severity) /\ (w.admin_hint => e.admin_hint)
    BY <1>7, <1>4 DEF EvidenceRecords
  <2>5. rule_score_from_hits(w) = rule_score_from_hits(e)
    BY <2>1 DEF rule_score_from_hits
  <2> QED  BY <2>2, <2>3, <2>4, <2>5, <1>4, <1>5 DEF EvidenceTyped, AtLeastAsBad
<1>8. CASE w \in {[e EXCEPT !.criticality = Atleast(@, c)] : c \in Criticalities}
  <2>1. PICK c \in Criticalities : w = [e EXCEPT !.criticality = Atleast(e.criticality, c)]
    BY <1>8
  <2>2. Atleast(e.criticality, c) \in Thousandths /\ Atleast(e.criticality, c) >= e.criticality
    <3>1. e.criticality \in {NoHit} \cup Thousandths /\ c \in Thousandths
      BY <1>2, <1>4 DEF EvidenceRecords
    <3> QED  BY <3>1, RaisedIsScore
  <2> QED  BY <2>1, <2>2, <1>4, <1>5 DEF EvidenceTyped, EvidenceRecords, AtLeastAsBad, rule_score_from_hits
<1>9. CASE w \in {[e EXCEPT !.degree = Atleast(@, d)] : d \in Degrees}
  <2>1. PICK d \in Degrees : w = [e EXCEPT !.degree = Atleast(e.degree, d)]
    BY <1>9
  <2>2. Atleast(e.degree, d) \in Nat /\ Atleast(e.degree, d) >= e.degree
    BY <1>2, <1>3, <1>4, <1>5, CapsAndFloors DEF EvidenceRecords, Thousandths, Paths
  <2> QED  BY <2>1, <2>2, <1>4, <1>5 DEF EvidenceTyped, EvidenceRecords, AtLeastAsBad, rule_score_from_hits
<1>10. CASE w \in {[e EXCEPT !.rarity = Atleast(@, r)] : r \in Rarities}
  <2>1. PICK r \in Rarities : w = [e EXCEPT !.rarity = Atleast(e.rarity, r)]
    BY <1>10
  <2>2. Atleast(e.rarity, r) \in Thousandths /\ Atleast(e.rarity, r) >= e.rarity
    <3>1. e.rarity \in {NoHit} \cup Thousandths /\ r \in Thousandths
      BY <1>2, <1>4 DEF EvidenceRecords
    <3> QED  BY <3>1, RaisedIsScore
  <2> QED  BY <2>1, <2>2, <1>4, <1>5 DEF EvidenceTyped, EvidenceRecords, AtLeastAsBad, rule_score_from_hits
<1>11. CASE w \in {[e EXCEPT !.techniques = Atleast(@, n), !.events = Atleast(@, n)] : n \in Rates}
  <2>1. PICK n \in Rates : w = [e EXCEPT !.techniques = Atleast(e.techniques, n),
                                         !.events = Atleast(e.events, n)]
    BY <1>11
  <2>2. /\ Atleast(e.techniques, n) \in Nat /\ Atleast(e.techniques, n) >= e.techniques
        /\ Atleast(e.events, n) \in Nat /\ Atleast(e.events, n) >= e.events
    BY <1>2, <1>3, <1>4, <1>5, CapsAndFloors DEF EvidenceRecords, Thousandths, Paths
  <2>3. w \in EvidenceRecords
    BY <2>1, <2>2, <1>4, <1>5 DEF EvidenceRecords
  <2>4. /\ w.techniques = Atleast(e.techniques, n) /\ w.events = Atleast(e.events, n)
        /\ w.off_hours = e.off_hours /\ w.suspicious_hint = e.suspicious_hint /\ w.native_severity = e.native_severity
        /\ w.admin_hint = e.admin_hint /\ w.criticality = e.criticality /\ w.rarity = e.rarity
        /\ w.degree = e.degree /\ w.hits = e.hits /\ w.confidence = e.confidence
        /\ w.path = e.path
    BY <2>1, <1>4 DEF EvidenceRecords
  <2>5. rule_score_from_hits(w) = rule_score_from_hits(e)
    <3>1. w.rule = e.rule
      BY <2>1, <1>4 DEF EvidenceRecords
    <3> QED  BY <3>1 DEF rule_score_from_hits
  <2> QED  BY <2>2, <2>3, <2>4, <2>5, <1>4, <1>5 DEF EvidenceTyped, AtLeastAsBad
<1>12. CASE w \in {[e EXCEPT !.hits = @ + 1, !.confidence = Atleast(@, c)] : c \in Confidences}
  <2>1. PICK c \in Confidences : w = [e EXCEPT !.hits = e.hits + 1,
                                               !.confidence = Atleast(e.confidence, c)]
    BY <1>12
  <2>2. Atleast(e.confidence, c) \in Thousandths /\ Atleast(e.confidence, c) >= e.confidence
    <3>1. e.confidence \in {NoHit} \cup Thousandths /\ c \in Thousandths
      BY <1>2, <1>4 DEF EvidenceRecords
    <3> QED  BY <3>1, RaisedIsScore
  <2>3. w \in EvidenceRecords
    <3>1. e.hits + 1 \in Nat /\ Atleast(e.confidence, c) \in {NoHit} \cup Thousandths
      BY <2>2, <1>4 DEF EvidenceRecords
    <3> QED  BY <2>1, <3>1, <1>4 DEF EvidenceRecords
  <2>4. /\ w.hits = e.hits + 1 /\ w.confidence = Atleast(e.confidence, c)
        /\ w.off_hours = e.off_hours /\ w.suspicious_hint = e.suspicious_hint /\ w.native_severity = e.native_severity
        /\ w.admin_hint = e.admin_hint /\ w.criticality = e.criticality /\ w.rarity = e.rarity
        /\ w.degree = e.degree /\ w.path = e.path /\ w.techniques = e.techniques
        /\ w.events = e.events
    BY <2>1, <1>4 DEF EvidenceRecords
  <2>5. rule_score_from_hits(w) = rule_score_from_hits(e)
    <3>1. w.rule = e.rule
      BY <2>1, <1>4 DEF EvidenceRecords
    <3> QED  BY <3>1 DEF rule_score_from_hits
  <2> QED  BY <2>2, <2>3, <2>4, <2>5, <1>4, <1>5 DEF EvidenceTyped, AtLeastAsBad
<1>13. CASE w \in {[e EXCEPT !.path = Upto(@, n)] :
                     n \in IF HasIntel(e) THEN PathLengths ELSE {}}
  <2>1. PICK n \in PathLengths : w = [e EXCEPT !.path = Upto(e.path, n)]
    BY <1>13
  <2>2. Upto(e.path, n) \in Paths /\ Upto(e.path, n) <= e.path
    BY <1>2, <1>3, <1>4, <1>5, CapsAndFloors DEF EvidenceRecords, Thousandths, Paths
  <2> QED  BY <2>1, <2>2, <1>4, <1>5 DEF EvidenceTyped, EvidenceRecords, AtLeastAsBad, rule_score_from_hits
<1> QED  BY <1>4, <1>6, <1>7, <1>8, <1>9, <1>10, <1>11, <1>12, <1>13 DEF Worse, EvidenceTyped

(* The quantities of evidence are numbers.                                  *)
LEMMA EvidenceNumbers ==
  ASSUME NEW e, EvidenceTyped(e)
  PROVE  /\ e.criticality \in Thousandths /\ e.rarity \in Thousandths
         /\ e.degree \in Nat /\ e.hits \in Nat /\ e.techniques \in Nat /\ e.events \in Nat
         /\ e.path \in Paths /\ e.confidence \in {NoHit} \cup Thousandths
         /\ e.off_hours \in BOOLEAN /\ e.suspicious_hint \in BOOLEAN
         /\ e.native_severity \in BOOLEAN /\ e.admin_hint \in BOOLEAN
         /\ e.rule \in Levels
BY DEF EvidenceTyped, EvidenceRecords

Signals(e) ==
  If(e.off_hours, 150) + If(e.suspicious_hint, 350) + If(e.criticality >= 800, 200)
  + If(e.native_severity, 250) + 50 * e.hits

LEMMA HeuristicIsMonotone ==
  ASSUME NEW e, NEW w, EvidenceTyped(e), EvidenceTyped(w), AtLeastAsBad(w, e)
  PROVE  /\ heuristic_score(e) \in Thousandths /\ heuristic_score(w) \in Thousandths
         /\ heuristic_score(e) <= heuristic_score(w)
         /\ BenignContext(w) => BenignContext(e)
<1>1. /\ e.criticality \in Int /\ w.criticality \in Int /\ e.hits \in Nat /\ w.hits \in Nat
      /\ e.criticality <= w.criticality /\ e.hits <= w.hits
  <2>1. e.criticality \in Thousandths /\ w.criticality \in Thousandths
    BY EvidenceNumbers
  <2>2. e.hits \in Nat /\ w.hits \in Nat
    BY EvidenceNumbers
  <2>3. e.criticality <= w.criticality /\ e.hits <= w.hits
    BY DEF AtLeastAsBad
  <2> QED  BY <2>1, <2>2, <2>3, ScoresAreNumbers
<1>2. /\ If(e.off_hours, 150) \in Nat /\ If(w.off_hours, 150) \in Nat
      /\ If(e.off_hours, 150) <= If(w.off_hours, 150)
  <2>1. (e.off_hours => w.off_hours)
    BY DEF AtLeastAsBad
  <2> QED  BY <2>1 DEF If
<1>3. /\ If(e.suspicious_hint, 350) \in Nat /\ If(w.suspicious_hint, 350) \in Nat
      /\ If(e.suspicious_hint, 350) <= If(w.suspicious_hint, 350)
  <2>1. (e.suspicious_hint => w.suspicious_hint)
    BY DEF AtLeastAsBad
  <2> QED  BY <2>1 DEF If
<1>4. /\ If(e.native_severity, 250) \in Nat /\ If(w.native_severity, 250) \in Nat
      /\ If(e.native_severity, 250) <= If(w.native_severity, 250)
  <2>1. (e.native_severity => w.native_severity)
    BY DEF AtLeastAsBad
  <2> QED  BY <2>1 DEF If
<1>5. /\ If(e.criticality >= 800, 200) \in Nat /\ If(w.criticality >= 800, 200) \in Nat
      /\ If(e.criticality >= 800, 200) <= If(w.criticality >= 800, 200)
  BY <1>1 DEF If
<1>6. Signals(e) \in Nat /\ Signals(w) \in Nat /\ Signals(e) <= Signals(w)
  BY <1>1, <1>2, <1>3, <1>4, <1>5 DEF Signals
<1>7. BenignContext(w) => BenignContext(e)
  <2>1. w.admin_hint => e.admin_hint
    BY DEF AtLeastAsBad
  <2>2. w.hits <= 0 => e.hits <= 0
    BY <1>1
  <2>3. ~HasIntel(w) => ~HasIntel(e)
    BY <2>2, <1>1 DEF HasIntel
  <2> QED  BY <2>1, <2>3 DEF BenignContext
<1> DEFINE Discounted(x) == IF BenignContext(x) THEN Atleast(0, Signals(x) - 450) ELSE Signals(x)
<1>8. heuristic_score(e) = Upto(1000, Discounted(e)) /\ heuristic_score(w) = Upto(1000, Discounted(w))
  BY DEF heuristic_score, Signals
<1>9. Discounted(e) \in Nat /\ Discounted(w) \in Nat /\ Discounted(e) <= Discounted(w)
  <2>1. Signals(e) - 450 \in Int /\ Signals(w) - 450 \in Int
    BY <1>6
  <2>2. Atleast(0, Signals(e) - 450) = IF 0 >= Signals(e) - 450 THEN 0 ELSE Signals(e) - 450
    BY <2>1, CapsAndFloors
  <2>3. Atleast(0, Signals(w) - 450) = IF 0 >= Signals(w) - 450 THEN 0 ELSE Signals(w) - 450
    BY <2>1, CapsAndFloors
  <2> QED  BY <2>2, <2>3, <1>6, <1>7
<1> HIDE DEF Discounted
<1>10. /\ Upto(1000, Discounted(e)) = IF 1000 <= Discounted(e) THEN 1000 ELSE Discounted(e)
       /\ Upto(1000, Discounted(w)) = IF 1000 <= Discounted(w) THEN 1000 ELSE Discounted(w)
  BY <1>9, CapsAndFloors
<1> QED  BY <1>7, <1>8, <1>9, <1>10 DEF Thousandths

LEMMA NormsAreMonotone ==
  ASSUME NEW e, NEW w, EvidenceTyped(e), EvidenceTyped(w), AtLeastAsBad(w, e)
  PROVE  /\ degree_norm(e) \in Thousandths /\ degree_norm(w) \in Thousandths
         /\ degree_norm(e) <= degree_norm(w)
         /\ path_to_bad_norm(e) \in Thousandths /\ path_to_bad_norm(w) \in Thousandths
         /\ path_to_bad_norm(e) <= path_to_bad_norm(w)
<1>1. e.degree \in Nat /\ w.degree \in Nat /\ e.degree <= w.degree
  <2>1. e.degree \in Nat /\ w.degree \in Nat
    BY EvidenceNumbers
  <2> QED  BY <2>1 DEF AtLeastAsBad
<1>2. e.path \in 0..5 /\ w.path \in 0..5 /\ w.path <= e.path
  <2>1. e.path \in Paths /\ w.path \in Paths
    BY EvidenceNumbers
  <2> QED  BY <2>1 DEF AtLeastAsBad, Paths
<1>3. /\ degree_norm(e) = IF 1000 <= e.degree * 50 THEN 1000 ELSE e.degree * 50
      /\ degree_norm(w) = IF 1000 <= w.degree * 50 THEN 1000 ELSE w.degree * 50
  <2>1. e.degree * 50 \in Int /\ w.degree * 50 \in Int
    BY <1>1
  <2> HIDE <1>1
  <2> QED  BY <2>1, CapsAndFloors DEF degree_norm
<1>4. /\ path_to_bad_norm(e) = IF e.path >= 4 THEN 0 ELSE 1000 - e.path * 250
      /\ path_to_bad_norm(w) = IF w.path >= 4 THEN 0 ELSE 1000 - w.path * 250
  <2>1. 1000 - e.path * 250 \in Int /\ 1000 - w.path * 250 \in Int
    BY <1>2
  <2>2. Atleast(0, 1000 - e.path * 250) = IF 0 >= 1000 - e.path * 250 THEN 0 ELSE 1000 - e.path * 250
    BY <2>1, CapsAndFloors
  <2>3. Atleast(0, 1000 - w.path * 250) = IF 0 >= 1000 - w.path * 250 THEN 0 ELSE 1000 - w.path * 250
    BY <2>1, CapsAndFloors
  <2> QED  BY <1>2, <2>2, <2>3 DEF path_to_bad_norm, NotReached
<1>5. /\ degree_norm(e) \in Thousandths /\ degree_norm(w) \in Thousandths
      /\ degree_norm(e) <= degree_norm(w)
  BY <1>1, <1>3 DEF Thousandths
<1>6. /\ path_to_bad_norm(e) \in Thousandths /\ path_to_bad_norm(w) \in Thousandths
      /\ path_to_bad_norm(e) <= path_to_bad_norm(w)
  BY <1>2, <1>4 DEF Thousandths
<1> QED  BY <1>5, <1>6

LEMMA GraphScoreIsMonotone ==
  ASSUME NEW e, NEW w, EvidenceTyped(e), EvidenceTyped(w), AtLeastAsBad(w, e)
  PROVE  /\ graph_score(e) \in Thousandths /\ graph_score(w) \in Thousandths
         /\ graph_score(e) <= graph_score(w)
<1>1. /\ e.rarity \in Thousandths /\ w.rarity \in Thousandths /\ e.rarity <= w.rarity
  <2>1. e.rarity \in Thousandths /\ w.rarity \in Thousandths
    BY EvidenceNumbers
  <2> QED  BY <2>1 DEF AtLeastAsBad
<1> DEFINE g(x) == 4 * degree_norm(x) + 3 * x.rarity + 3 * path_to_bad_norm(x)
<1>2. /\ degree_norm(e) \in Thousandths /\ degree_norm(w) \in Thousandths
      /\ degree_norm(e) <= degree_norm(w)
      /\ path_to_bad_norm(e) \in Thousandths /\ path_to_bad_norm(w) \in Thousandths
      /\ path_to_bad_norm(e) <= path_to_bad_norm(w)
  BY NormsAreMonotone
<1>3. g(e) \in Nat /\ g(w) \in Nat /\ g(e) <= 10000 /\ g(w) <= 10000 /\ g(e) <= g(w)
  BY <1>1, <1>2, ScoresAreNumbers
<1>4. graph_score(e) = g(e) \div 10 /\ graph_score(w) = g(w) \div 10
  BY DEF graph_score
<1> HIDE DEF g
<1>5. /\ g(e) \div 10 \in Int /\ 0 <= g(e) \div 10 /\ g(e) \div 10 <= 1000
      /\ g(w) \div 10 \in Int /\ 0 <= g(w) \div 10 /\ g(w) \div 10 <= 1000
      /\ g(e) \div 10 <= g(w) \div 10
  BY <1>3
<1> QED  BY <1>4, <1>5, ScoresAreNumbers

LEMMA IntelScoreIsMonotone ==
  ASSUME NEW e, NEW w, EvidenceTyped(e), EvidenceTyped(w), AtLeastAsBad(w, e)
  PROVE  /\ intel_score_from_matches(e) \in Thousandths /\ intel_score_from_matches(w) \in Thousandths
         /\ intel_score_from_matches(e) <= intel_score_from_matches(w)
         /\ BenignContext(e) => intel_score_from_matches(e) = 0
<1>1. e.hits \in Nat /\ w.hits \in Nat /\ e.hits <= w.hits
  <2>1. e.hits \in Nat /\ w.hits \in Nat
    BY EvidenceNumbers
  <2> QED  BY <2>1 DEF AtLeastAsBad
<1>2. /\ e.hits > 0 => e.confidence \in Thousandths
      /\ w.hits > 0 => w.confidence \in Thousandths
      /\ e.hits > 0 => e.confidence <= w.confidence
  BY DEF EvidenceTyped, AtLeastAsBad
<1>3. CASE ~HasIntel(e) /\ ~HasIntel(w)
  BY <1>3 DEF intel_score_from_matches, Thousandths
<1> DEFINE raised(x) == x.confidence + 50 * (x.hits - 1)
<1>4. CASE HasIntel(e)
  <2>1. HasIntel(w) /\ e.hits > 0 /\ w.hits > 0
    BY <1>1, <1>4 DEF HasIntel
  <2>2. raised(e) \in Nat /\ raised(w) \in Nat /\ raised(e) <= raised(w)
    <3>1. /\ e.confidence \in Nat /\ w.confidence \in Nat /\ e.confidence <= w.confidence
      BY <1>2, <2>1, ScoresAreNumbers
    <3> QED  BY <1>1, <2>1, <3>1
  <2>3. /\ intel_score_from_matches(e) = Upto(1000, raised(e))
        /\ intel_score_from_matches(w) = Upto(1000, raised(w))
    BY <1>4, <2>1 DEF intel_score_from_matches
  <2> HIDE DEF raised
  <2>4. /\ Upto(1000, raised(e)) = IF 1000 <= raised(e) THEN 1000 ELSE raised(e)
        /\ Upto(1000, raised(w)) = IF 1000 <= raised(w) THEN 1000 ELSE raised(w)
    BY <2>2, CapsAndFloors
  <2> QED  BY <1>4, <2>2, <2>3, <2>4 DEF BenignContext, Thousandths
<1>5. CASE ~HasIntel(e) /\ HasIntel(w)
  <2>1. w.hits > 0 /\ raised(w) \in Nat
    <3>1. w.hits > 0
      BY <1>1, <1>5 DEF HasIntel
    <3>2. w.confidence \in Nat
      BY <1>2, <3>1, ScoresAreNumbers
    <3> QED  BY <1>1, <3>1, <3>2
  <2>2. /\ intel_score_from_matches(e) = 0
        /\ intel_score_from_matches(w) = Upto(1000, raised(w))
    BY <1>5 DEF intel_score_from_matches
  <2> HIDE DEF raised
  <2>3. Upto(1000, raised(w)) = IF 1000 <= raised(w) THEN 1000 ELSE raised(w)
    BY <2>1, CapsAndFloors
  <2> QED  BY <2>1, <2>2, <2>3 DEF Thousandths
<1> QED  BY <1>3, <1>4, <1>5

LEMMA ModelScoreIsMonotone ==
  ASSUME NEW e, NEW w, EvidenceTyped(e), EvidenceTyped(w), AtLeastAsBad(w, e)
  PROVE  ml_score(e) \in Thousandths /\ ml_score(w) \in Thousandths /\ ml_score(e) <= ml_score(w)
<1> DEFINE I(x) == Upto(1000, x.hits * 333)
           T(x) == Upto(1000, x.techniques * 200)
           E(x) == Upto(1000, x.events * 50)
<1>1. /\ e.hits \in Nat /\ w.hits \in Nat /\ e.hits <= w.hits
      /\ e.techniques \in Nat /\ w.techniques \in Nat /\ e.techniques <= w.techniques
      /\ e.events \in Nat /\ w.events \in Nat /\ e.events <= w.events
  <2>1. e.hits \in Nat /\ e.techniques \in Nat /\ e.events \in Nat
    BY EvidenceNumbers
  <2>2. w.hits \in Nat /\ w.techniques \in Nat /\ w.events \in Nat
    BY EvidenceNumbers
  <2> QED  BY <2>1, <2>2 DEF AtLeastAsBad
<1>2. /\ e.criticality \in Thousandths /\ w.criticality \in Thousandths
      /\ e.criticality <= w.criticality
      /\ e.rarity \in Thousandths /\ w.rarity \in Thousandths /\ e.rarity <= w.rarity
  <2>1. e.criticality \in Thousandths /\ e.rarity \in Thousandths
    BY EvidenceNumbers
  <2>2. w.criticality \in Thousandths /\ w.rarity \in Thousandths
    BY EvidenceNumbers
  <2> QED  BY <2>1, <2>2 DEF AtLeastAsBad
<1>3. I(e) \in Thousandths /\ I(w) \in Thousandths /\ I(e) <= I(w)
  <2>1. e.hits * 333 \in Nat /\ w.hits * 333 \in Nat /\ e.hits * 333 <= w.hits * 333
    BY <1>1
  <2>2. /\ I(e) = IF 1000 <= e.hits * 333 THEN 1000 ELSE e.hits * 333
        /\ I(w) = IF 1000 <= w.hits * 333 THEN 1000 ELSE w.hits * 333
    BY <2>1, CapsAndFloors
  <2> HIDE DEF I
  <2> QED  BY <2>1, <2>2, ScoresAreNumbers
<1>4. T(e) \in Thousandths /\ T(w) \in Thousandths /\ T(e) <= T(w)
  <2>1. /\ e.techniques * 200 \in Nat /\ w.techniques * 200 \in Nat
        /\ e.techniques * 200 <= w.techniques * 200
    BY <1>1
  <2>2. /\ T(e) = IF 1000 <= e.techniques * 200 THEN 1000 ELSE e.techniques * 200
        /\ T(w) = IF 1000 <= w.techniques * 200 THEN 1000 ELSE w.techniques * 200
    BY <2>1, CapsAndFloors
  <2> HIDE DEF T
  <2> QED  BY <2>1, <2>2, ScoresAreNumbers
<1>5. E(e) \in Thousandths /\ E(w) \in Thousandths /\ E(e) <= E(w)
  <2>1. e.events * 50 \in Nat /\ w.events * 50 \in Nat /\ e.events * 50 <= w.events * 50
    BY <1>1
  <2>2. /\ E(e) = IF 1000 <= e.events * 50 THEN 1000 ELSE e.events * 50
        /\ E(w) = IF 1000 <= w.events * 50 THEN 1000 ELSE w.events * 50
    BY <2>1, CapsAndFloors
  <2> HIDE DEF E
  <2> QED  BY <2>1, <2>2, ScoresAreNumbers
<1> DEFINE sum(x) == 120 * x.criticality + 84 * degree_norm(x) + 100 * x.rarity
                     + 116 * path_to_bad_norm(x) + 142 * I(x) + 68 * T(x) + 52 * E(x)
<1>6. Weighted(e) = sum(e) \div 100 - 1200 /\ Weighted(w) = sum(w) \div 100 - 1200
  BY DEF Weighted
<1> HIDE DEF I, T, E
<1>7. Weighted(e) \in Int /\ Weighted(w) \in Int /\ Weighted(e) <= Weighted(w)
  <2>1. /\ degree_norm(e) \in Thousandths /\ degree_norm(w) \in Thousandths
        /\ degree_norm(e) <= degree_norm(w)
        /\ path_to_bad_norm(e) \in Thousandths /\ path_to_bad_norm(w) \in Thousandths
        /\ path_to_bad_norm(e) <= path_to_bad_norm(w)
    BY NormsAreMonotone
  <2> HIDE DEF Weighted
  <2>2. /\ sum(e) \in Nat /\ sum(w) \in Nat /\ sum(e) <= sum(w)
    <3>1. \A x \in {e, w} :
            /\ x.criticality \in Nat /\ x.rarity \in Nat /\ degree_norm(x) \in Nat
            /\ path_to_bad_norm(x) \in Nat /\ I(x) \in Nat /\ T(x) \in Nat /\ E(x) \in Nat
      BY <1>2, <1>3, <1>4, <1>5, <2>1, ScoresAreNumbers
    <3>2. sum(e) \in Nat /\ sum(w) \in Nat
      BY <3>1
    <3>3. sum(e) <= sum(w)
      BY <3>1, <1>2, <1>3, <1>4, <1>5, <2>1
    <3> QED  BY <3>2, <3>3
  <2> HIDE DEF sum
  <2>3. sum(e) \div 100 \in Int /\ sum(w) \div 100 \in Int /\ sum(e) \div 100 <= sum(w) \div 100
    BY <2>2
  <2> QED  BY <1>6, <2>3
<1>8. Curve(_sigmoid)
  BY CurvesAreCurves
<1> HIDE DEF Weighted
<1> QED  BY <1>7, <1>8, StepIsMonotone DEF ml_score

(* The heart of it: a sum of scores that are all monotone, discounted only  *)
(* where the evidence that follows may lose the discount but not gain it.   *)
LEMMA EnsembleIsMonotone ==
  ASSUME NEW e, NEW w, EvidenceTyped(e), EvidenceTyped(w), AtLeastAsBad(w, e)
  PROVE  /\ Ensemble(e) \in Int /\ Ensemble(w) \in Int /\ Ensemble(e) <= Ensemble(w)
         /\ BenignContext(e) => Ensemble(e) <= 35000
<1> DEFINE sum(x) == 35 * rule_score_from_hits(x) + 15 * heuristic_score(x) + 20 * graph_score(x)
                     + 15 * intel_score_from_matches(x) + 15 * ml_score(x)
<1>1. /\ rule_score_from_hits(e) \in Thousandths /\ rule_score_from_hits(w) \in Thousandths
      /\ rule_score_from_hits(e) <= rule_score_from_hits(w)
  <2>1. e.rule \in Levels /\ w.rule \in Levels
    BY EvidenceNumbers
  <2> QED  BY <2>1, RuleScores DEF AtLeastAsBad
<1>2. /\ heuristic_score(e) \in Thousandths /\ heuristic_score(w) \in Thousandths
      /\ heuristic_score(e) <= heuristic_score(w)
      /\ BenignContext(w) => BenignContext(e)
  BY HeuristicIsMonotone
<1>3. /\ graph_score(e) \in Thousandths /\ graph_score(w) \in Thousandths
      /\ graph_score(e) <= graph_score(w)
  BY GraphScoreIsMonotone
<1>4. /\ intel_score_from_matches(e) \in Thousandths /\ intel_score_from_matches(w) \in Thousandths
      /\ intel_score_from_matches(e) <= intel_score_from_matches(w)
      /\ BenignContext(e) => intel_score_from_matches(e) = 0
  BY IntelScoreIsMonotone
<1>5. BenignContext(w) => intel_score_from_matches(w) = 0
  BY DEF BenignContext, intel_score_from_matches
<1>6. ml_score(e) \in Thousandths /\ ml_score(w) \in Thousandths /\ ml_score(e) <= ml_score(w)
  BY ModelScoreIsMonotone
<1>7. sum(e) \in Nat /\ sum(w) \in Nat /\ sum(e) <= sum(w)
  BY <1>1, <1>2, <1>3, <1>4, <1>6, ScoresAreNumbers
<1> DEFINE discounted(x) == Upto(35000, (sum(x) * 45) \div 100)
<1>8. /\ Ensemble(e) = Upto(100000, IF BenignContext(e) THEN discounted(e) ELSE sum(e))
      /\ Ensemble(w) = Upto(100000, IF BenignContext(w) THEN discounted(w) ELSE sum(w))
  <2>1. /\ BenignContext(e) => intel_score_from_matches(e) < 100
        /\ BenignContext(w) => intel_score_from_matches(w) < 100
    BY <1>4, <1>5
  <2> QED  BY <2>1 DEF Ensemble
<1> HIDE DEF sum
<1>9. /\ discounted(e) \in Nat /\ discounted(w) \in Nat /\ discounted(e) <= discounted(w)
      /\ discounted(e) <= 35000 /\ discounted(w) <= 35000
      /\ discounted(e) <= sum(w)
  <2>1. /\ (sum(e) * 45) \div 100 \in Nat /\ (sum(w) * 45) \div 100 \in Nat
        /\ (sum(e) * 45) \div 100 <= (sum(w) * 45) \div 100
        /\ (sum(e) * 45) \div 100 <= sum(w)
    BY <1>7
  <2>2. discounted(e) = IF 35000 <= (sum(e) * 45) \div 100 THEN 35000 ELSE (sum(e) * 45) \div 100
    BY <2>1, CapsAndFloors
  <2>3. discounted(w) = IF 35000 <= (sum(w) * 45) \div 100 THEN 35000 ELSE (sum(w) * 45) \div 100
    BY <2>1, CapsAndFloors
  <2> HIDE DEF discounted
  <2> QED  BY <2>1, <2>2, <2>3, <1>7
<1> DEFINE total(x) == IF BenignContext(x) THEN discounted(x) ELSE sum(x)
<1> HIDE DEF discounted
<1>10. /\ total(e) \in Nat /\ total(w) \in Nat /\ total(e) <= total(w)
       /\ BenignContext(e) => total(e) <= 35000
  BY <1>2, <1>7, <1>9
<1>11. Ensemble(e) = Upto(100000, total(e)) /\ Ensemble(w) = Upto(100000, total(w))
  BY <1>8
<1> HIDE DEF total
<1>12. /\ Upto(100000, total(e)) = IF 100000 <= total(e) THEN 100000 ELSE total(e)
       /\ Upto(100000, total(w)) = IF 100000 <= total(w) THEN 100000 ELSE total(w)
  BY <1>10, CapsAndFloors
<1> QED  BY <1>10, <1>11, <1>12

LEMMA AlertsAreMonotone ==
  ASSUME NEW e, NEW w, EvidenceTyped(e), EvidenceTyped(w), AtLeastAsBad(w, e), Alerts(e)
  PROVE  Alerts(w)
<1>1. Ensemble(e) \in Int /\ Ensemble(w) \in Int /\ Ensemble(e) <= Ensemble(w)
  BY EnsembleIsMonotone
<1>2. Curve(Calibration)
  BY CurvesAreCurves
<1>3. /\ calibrated_score(e) \in Thousandths /\ calibrated_score(w) \in Thousandths
      /\ calibrated_score(e) <= calibrated_score(w)
  BY <1>1, <1>2, StepIsMonotone DEF calibrated_score
<1>4. e.rule # "none" => w.rule # "none"
  <2>1. e.rule \in Levels /\ w.rule \in Levels
    BY EvidenceNumbers
  <2>2. /\ rule_score_from_hits(e) \in Thousandths /\ rule_score_from_hits(w) \in Thousandths
        /\ rule_score_from_hits(e) = 0 <=> e.rule = "none"
        /\ rule_score_from_hits(w) = 0 <=> w.rule = "none"
    BY <2>1, RuleScores
  <2>3. rule_score_from_hits(e) <= rule_score_from_hits(w)
    BY DEF AtLeastAsBad
  <2> QED  BY <2>2, <2>3, ScoresAreNumbers
<1> QED  BY <1>3, <1>4, ScoresAreNumbers DEF Alerts, MinAlertScore

LEMMA BenignIsLow ==
  ASSUME NEW e, EvidenceTyped(e), BenignContext(e)
  PROVE  /\ severity_from_score(calibrated_score(e)) \in {"informational", "low"}
         /\ e.rule = "none" => ~Alerts(e)
<1>1. AtLeastAsBad(e, e)
  <2>1. /\ e.criticality \in Int /\ e.rarity \in Int /\ e.confidence \in Int /\ e.path \in Int
    <3>1. /\ e.criticality \in Thousandths /\ e.rarity \in Thousandths /\ e.path \in Paths
          /\ e.confidence \in {NoHit} \cup Thousandths
      BY EvidenceNumbers
    <3>2. Paths \subseteq Int /\ NoHit \in Int /\ Thousandths \subseteq Int
      BY DEF Paths, NoHit, Thousandths
    <3> QED  BY <3>1, <3>2
  <2>2. e.degree \in Nat /\ e.hits \in Nat /\ e.techniques \in Nat /\ e.events \in Nat
    BY EvidenceNumbers
  <2>3. rule_score_from_hits(e) \in Int
    <3>1. e.rule \in Levels
      BY EvidenceNumbers
    <3> QED  BY <3>1, RuleScores, ScoresAreNumbers
  <2> QED  BY <2>1, <2>2, <2>3 DEF AtLeastAsBad
<1>2. Ensemble(e) \in Int /\ Ensemble(e) <= 35000
  BY <1>1, EnsembleIsMonotone
<1>3. calibrated_score(e) \in Reached(Calibration, Ensemble(e))
  <2>1. Curve(Calibration)
    BY CurvesAreCurves
  <2> QED  BY <2>1, <1>2, StepIsReached DEF calibrated_score
<1>4. calibrated_score(e) \in {0, 200}
  BY <1>2, <1>3 DEF Reached, Calibration
<1> QED  BY <1>4 DEF severity_from_score, Alerts, MinAlertScore

(* "monotonic-by-design": worse evidence never lowers the risk of an event, *)
(* nor withdraws its alert, and administrative work without intelligence    *)
(* scores low, for every confidence, criticality, degree, rarity, distance  *)
(* and rate (ensemble.py, heuristics.py, ml_scorer.py).                     *)
THEOREM RiskAlwaysMonotone == ScoringInit => RiskIsMonotone
<1> SUFFICES ASSUME evidence \in Evidence PROVE RiskIsMonotone
  BY DEF ScoringInit
<1> PICK e \in Evidence : e = evidence
  OBVIOUS
<1>1. ASSUME NEW w \in Worse(e)
      PROVE  Ensemble(w) >= Ensemble(e) /\ (Alerts(e) => Alerts(w))
  <2>1. EvidenceTyped(e) /\ EvidenceTyped(w) /\ AtLeastAsBad(w, e)
    BY WorseIsAtLeastAsBad
  <2>2. Ensemble(e) \in Int /\ Ensemble(w) \in Int /\ Ensemble(e) <= Ensemble(w)
    BY <2>1, EnsembleIsMonotone
  <2> QED  BY <2>1, <2>2, AlertsAreMonotone
<1>2. ASSUME BenignContext(e)
      PROVE  /\ severity_from_score(calibrated_score(e)) \in {"informational", "low"}
             /\ e.rule = "none" => ~Alerts(e)
  <2>1. [e EXCEPT !.off_hours = TRUE] \in Worse(e)
    BY DEF Worse
  <2>2. PICK w \in Worse(e) : TRUE
    BY <2>1
  <2>3. EvidenceTyped(e)
    BY WorseIsAtLeastAsBad
  <2> QED  BY <2>3, <1>2, BenignIsLow
<1> QED  BY <1>1, <1>2 DEF RiskIsMonotone
=============================================================================
