-------------------------- MODULE GraphStoreProofs --------------------------
(***************************************************************************)
(* The graph file forgets nothing a sole writer has written, and the graph  *)
(* database adds every upsert up that did not overlap with another, for     *)
(* every set of entries and events, every number of crashes and failures    *)
(* and every limit on the observations kept.  Whatever the graph, what is   *)
(* asked of it is answered exactly.                                         *)
(***************************************************************************)
EXTENDS GraphStore, Neo4jStore, GraphQueries, FiniteSetTheorems, SequenceTheorems,
        WellFoundedInduction, TLAPS

EverWritten == {e \in Entries : observed[e] # << >>}
Upsert == [entry : Entries, sighting : Sightings]

(* Each edge among the upserts has its ends written, or before it.          *)
InOrder(upserts, written) ==
  \A i \in 1..Len(upserts) :
    Ends(upserts[i].entry) \subseteq written \cup {upserts[j].entry : j \in 1..(i - 1)}

-----------------------------------------------------------------------------
(* The inductive invariant.  A process in the middle of an event has upserts*)
(* left; each edge among them has its ends in the file or before it.        *)
Busy == \A w \in Writers : writer[w].at # "idle" => writer[w].left # << >>

FileIsLatest ==
  /\ graphFile \in Graphs
  /\ \A e \in Entries : graphFile[e] = Recent(observed[e])
  /\ \A e \in EverWritten : Ends(e) \subseteq EverWritten

LeftInOrder == \A w \in running : InOrder(writer[w].left, EverWritten)

CopyIsNext ==
  \A w \in running :
    /\ writer[w].at \in {"opening", "writing", "replacing"} =>
         writer[w].graph = Upserted(graphFile, Current(w).entry, Current(w).sighting)
    /\ writer[w].at = "replacing" => graphTmp = writer[w].graph

IInv ==
  /\ StoreTypeOK
  /\ Busy
  /\ SoleWriter => FileIsLatest /\ LeftInOrder /\ CopyIsNext

-----------------------------------------------------------------------------
(* The length of what is kept of a history of n observations                *)
KeptOf(n) == IF n <= MAX_OBSERVATIONS THEN n ELSE MAX_OBSERVATIONS

(* Recent keeps the end of a sequence.                                      *)
LEMMA RecentIsSuffix ==
  ASSUME GraphUpdatesAssumption, NEW s \in Seq(Sightings), NEW n \in Nat, n = Len(s)
  PROVE  /\ Recent(s) \in Seq(Sightings)
         /\ Len(Recent(s)) = KeptOf(n)
         /\ KeptOf(n) \in Nat /\ KeptOf(n) <= n /\ (n > 0 => KeptOf(n) > 0)
         /\ \A i \in 1..KeptOf(n) : Recent(s)[i] = s[n - KeptOf(n) + i]
<1> DEFINE M == MAX_OBSERVATIONS
<1>1. M \in Nat \ {0}
  BY DEF GraphUpdatesAssumption
<1>2. CASE n <= M
  BY <1>1, <1>2 DEF Recent, KeptOf
<1>3. CASE n > M
  <2>1. n - M + 1 \in Int /\ n - M + 1 <= n /\ n - M + 1 >= 1
    BY <1>1, <1>3
  <2>2. \A i \in (n - M + 1)..n : s[i] \in Sightings
    BY <1>1, <2>1, ElementOfSeq
  <2>3. /\ SubSeq(s, n - M + 1, n) \in Seq(Sightings)
        /\ Len(SubSeq(s, n - M + 1, n)) = IF n - M + 1 <= n THEN n - (n - M + 1) + 1 ELSE 0
        /\ \A i \in 1..(n - (n - M + 1) + 1) : SubSeq(s, n - M + 1, n)[i] = s[n - M + 1 + i - 1]
    BY ONLY <2>1, <2>2, n \in Nat, SubSeqProperties
  <2>4. n - (n - M + 1) + 1 = M /\ \A i \in 1..M : n - M + 1 + i - 1 = n - M + i
    BY <1>1
  <2>5. Recent(s) = SubSeq(s, n - M + 1, n) /\ KeptOf(n) = M
    BY <1>1, <1>3 DEF Recent, KeptOf
  <2> QED  BY <1>1, <1>3, <2>1, <2>3, <2>4, <2>5
<1> QED  BY <1>1, <1>2, <1>3

(* What is kept after another observation depends on what was kept before:  *)
(* truncating at every upsert loses nothing that truncating once would not. *)
LEMMA RecentAppend ==
  ASSUME GraphUpdatesAssumption, NEW s \in Seq(Sightings), NEW x \in Sightings
  PROVE  /\ Recent(Append(Recent(s), x)) = Recent(Append(s, x))
         /\ Recent(Append(s, x)) \in Seq(Sightings)
<1>0. MAX_OBSERVATIONS \in Nat \ {0}
  BY DEF GraphUpdatesAssumption
<1>1. PICK n \in Nat, m \in Nat : n = Len(s) /\ m = n + 1
  BY LenProperties
<1> DEFINE r == Recent(s)
           a == Append(s, x)
           b == Append(r, x)
<1>2. PICK k \in Nat, l \in Nat :
        /\ k = KeptOf(n) /\ k <= n /\ l = k + 1
        /\ r \in Seq(Sightings) /\ Len(r) = k
        /\ \A i \in 1..k : r[i] = s[n - k + i]
  <2>1. /\ Recent(s) \in Seq(Sightings) /\ Len(Recent(s)) = KeptOf(n)
        /\ KeptOf(n) \in Nat /\ KeptOf(n) <= n
        /\ \A i \in 1..KeptOf(n) : Recent(s)[i] = s[n - KeptOf(n) + i]
    BY <1>1, RecentIsSuffix
  <2>2. KeptOf(n) + 1 \in Nat
    BY <2>1
  <2> HIDE DEF KeptOf
  <2> QED  BY <2>1, <2>2
<1>3. /\ a \in Seq(Sightings) /\ Len(a) = m /\ a[m] = x
      /\ \A i \in 1..n : a[i] = s[i]
  BY <1>1, AppendProperties
<1>4. /\ b \in Seq(Sightings) /\ Len(b) = l /\ b[l] = x
      /\ \A i \in 1..k : b[i] = r[i]
  BY <1>2, AppendProperties
<1>5. PICK p \in Nat : p = KeptOf(m) /\ p = KeptOf(l) /\ p <= l
  BY <1>0, <1>1, <1>2 DEF KeptOf
<1>6. /\ Recent(a) \in Seq(Sightings) /\ Len(Recent(a)) = p
      /\ \A i \in 1..p : Recent(a)[i] = a[m - p + i]
  <2> HIDE DEF a
  <2>1. /\ Recent(a) \in Seq(Sightings) /\ Len(Recent(a)) = KeptOf(m)
        /\ \A i \in 1..KeptOf(m) : Recent(a)[i] = a[m - KeptOf(m) + i]
    BY <1>3, RecentIsSuffix
  <2> QED  BY <2>1, <1>5
<1>7. /\ Recent(b) \in Seq(Sightings) /\ Len(Recent(b)) = p
      /\ \A i \in 1..p : Recent(b)[i] = b[l - p + i]
  <2> HIDE DEF b
  <2> QED  BY <1>4, <1>5, RecentIsSuffix
<1>8. ASSUME NEW i \in 1..p PROVE Recent(b)[i] = Recent(a)[i]
  <2> HIDE DEF a, b, r
  <2>0. k <= n /\ l = k + 1 /\ m = n + 1 /\ p <= l
    BY <1>1, <1>2, <1>5
  <2>1. l - p + i \in 1..l /\ m - p + i = n - k + (l - p + i)
    BY <2>0
  <2>2. CASE l - p + i = l
    <3>0. i \in Int /\ i = p
      BY <2>2
    <3>1. m - p + i = m
      BY <3>0
    <3>2. Recent(b)[i] = b[l] /\ Recent(a)[i] = a[m]
      BY <2>2, <3>1, <1>6, <1>7
    <3> QED  BY <3>2, <1>3, <1>4
  <2>3. CASE l - p + i \in 1..k
    <3>1. b[l - p + i] = s[n - k + (l - p + i)]
      BY <2>3, <1>2, <1>4
    <3>2. n - k + (l - p + i) \in 1..n
      BY <2>3, <2>0
    <3> QED  BY <2>1, <3>1, <3>2, <1>3, <1>6, <1>7
  <2>4. l - p + i = l \/ l - p + i \in 1..k
    BY <2>0, <2>1
  <2> QED  BY <2>2, <2>3, <2>4
<1> QED  BY <1>6, <1>7, <1>8, SeqEqual

(* What is kept of a history is empty only if the history is.              *)
LEMMA RecentEmpty ==
  ASSUME GraphUpdatesAssumption, NEW s \in Seq(Sightings)
  PROVE  (Recent(s) = << >>) <=> (s = << >>)
<1>1. PICK n \in Nat : n = Len(s)
  BY LenProperties
<1>2. Recent(s) \in Seq(Sightings) /\ Len(Recent(s)) = KeptOf(n) /\ (n > 0 => KeptOf(n) > 0)
      /\ KeptOf(n) \in Nat /\ KeptOf(n) <= n
  BY <1>1, RecentIsSuffix
<1>3. (s = << >>) <=> (n = 0)
  BY <1>1, EmptySeq
<1>4. (Recent(s) = << >>) <=> (KeptOf(n) = 0)
  BY <1>2, EmptySeq
<1> QED  BY <1>2, <1>3, <1>4

-----------------------------------------------------------------------------
(* What is kept of a history is one.                                       *)
LEMMA RecentOf ==
  ASSUME GraphUpdatesAssumption, NEW s \in Seq(Sightings)
  PROVE  Recent(s) \in Seq(Sightings)
<1>1. PICK n \in Nat : n = Len(s)
  BY LenProperties
<1> QED  BY <1>1, RecentIsSuffix

(* The upserts of an event come in order, whatever is written before.       *)
LEMMA PendingInOrder ==
  ASSUME GraphUpdatesAssumption, NEW s \in Sightings, Updates(s) # << >>
  PROVE  /\ Pending(s) \in Seq(Upsert) /\ Pending(s) # << >>
         /\ \A written : InOrder(Pending(s), written)
<1> DEFINE l == Pending(s)
<1>1. Updates(s) \in Seq(Entries)
  BY DEF GraphUpdatesAssumption
<1>2. PICK n \in Nat : n = Len(Updates(s)) /\ DOMAIN Updates(s) = 1..n
        /\ \A i \in 1..n : Updates(s)[i] \in Entries
  BY <1>1, LenProperties, ElementOfSeq
<1>3. l = [i \in 1..n |-> [entry |-> Updates(s)[i], sighting |-> s]]
  BY <1>2 DEF Pending
<1>4. l \in Seq(Upsert) /\ Len(l) = n
  BY <1>2, <1>3 DEF Upsert
<1>5. n # 0
  BY <1>1, <1>2, EmptySeq
<1>6. l # << >>
  BY <1>4, <1>5, EmptySeq
<1>7. ASSUME NEW written PROVE InOrder(l, written)
  <2>1. ASSUME NEW i \in 1..n
        PROVE  Ends(l[i].entry) \subseteq {l[j].entry : j \in 1..(i - 1)}
    <3>1. Ends(Updates(s)[i]) \subseteq {Updates(s)[j] : j \in 1..(i - 1)}
      BY <1>2 DEF GraphUpdatesAssumption
    <3>2. \A j \in 1..(i - 1) : j \in 1..n
      BY <1>2
    <3>3. l[i].entry = Updates(s)[i] /\ \A j \in 1..(i - 1) : l[j].entry = Updates(s)[j]
      BY <1>3, <3>2
    <3> HIDE DEF l
    <3> QED  BY <3>1, <3>3
  <2> HIDE DEF l
  <2> QED  BY <1>4, <2>1 DEF InOrder
<1> QED  BY <1>4, <1>6, <1>7

(* The first upsert has its ends written; once it is, the others remain in  *)
(* order.                                                                   *)
LEMMA RestInOrder ==
  ASSUME NEW l \in Seq(Upsert), l # << >>, NEW written, InOrder(l, written)
  PROVE  /\ Head(l) \in Upsert
         /\ Ends(Head(l).entry) \subseteq written
         /\ Len(l) # 1 => /\ Tail(l) \in Seq(Upsert) /\ Tail(l) # << >>
                          /\ InOrder(Tail(l), written \cup {Head(l).entry})
<1>1. PICK n \in Nat : n = Len(l) /\ n > 0
  BY LenProperties, EmptySeq
<1>2. PICK h, t : h = Head(l) /\ t = Tail(l)
  OBVIOUS
<1>3. /\ h \in Upsert /\ h = l[1] /\ t \in Seq(Upsert) /\ Len(t) = n - 1
      /\ \A i \in 1..(n - 1) : t[i] = l[i + 1]
  BY <1>1, <1>2, HeadTailProperties
<1>4. Ends(h.entry) \subseteq written
  <2>1. 1 \in 1..n /\ 1..(1 - 1) = {}
    BY <1>1
  <2>2. Ends(l[1].entry) \subseteq written \cup {l[j].entry : j \in 1..(1 - 1)}
    BY <1>1, <2>1 DEF InOrder
  <2> QED  BY <1>3, <2>1, <2>2
<1>5. ASSUME n # 1 PROVE t # << >> /\ InOrder(t, written \cup {h.entry})
  <2>1. t # << >>
    BY <1>1, <1>3, <1>5, EmptySeq
  <2>2. ASSUME NEW i \in 1..(n - 1)
        PROVE  Ends(t[i].entry) \subseteq written \cup {h.entry} \cup {t[j].entry : j \in 1..(i - 1)}
    <3>1. i + 1 \in 1..n /\ (i + 1) - 1 = i
      BY <1>1
    <3>2. Ends(l[i + 1].entry) \subseteq written \cup {l[j].entry : j \in 1..i}
      BY <1>1, <3>1 DEF InOrder
    <3>3. t[i] = l[i + 1]
      BY <1>3
    <3>4. ASSUME NEW j \in 1..i
          PROVE  l[j].entry \in {h.entry} \cup {t[k].entry : k \in 1..(i - 1)}
      <4>1. CASE j = 1
        BY <4>1, <1>3
      <4>2. CASE j # 1
        <5>1. j - 1 \in 1..(i - 1) /\ j - 1 \in 1..(n - 1) /\ (j - 1) + 1 = j
          BY <1>1, <4>2
        <5>2. t[j - 1] = l[j]
          BY <1>3, <5>1
        <5> QED  BY <5>1, <5>2
      <4> QED  BY <4>1, <4>2
    <3> QED  BY <3>2, <3>3, <3>4
  <2> QED  BY <1>3, <2>1, <2>2 DEF InOrder
<1> QED  BY <1>1, <1>2, <1>3, <1>4, <1>5

(* What is written besides does not disturb the order.                     *)
LEMMA InOrderStays ==
  ASSUME NEW l, NEW written, NEW later, written \subseteq later, InOrder(l, written)
  PROVE  InOrder(l, later)
BY DEF InOrder

(* An upsert changes one entry.                                            *)
LEMMA UpsertedIsGraph ==
  ASSUME GraphStoreAssumption, NEW g \in Graphs, NEW e \in Entries, NEW s \in Sightings
  PROVE  /\ Upserted(g, e, s) \in Graphs
         /\ \A d \in Entries : Upserted(g, e, s)[d] = IF d = e THEN Recent(Append(g[e], s)) ELSE g[d]
<1>1. g[e] \in Seq(Sightings)
  BY DEF Graphs
<1>2. Append(g[e], s) \in Seq(Sightings)
  BY <1>1, AppendProperties
<1>3. Recent(Append(g[e], s)) \in Seq(Sightings)
  BY <1>2, RecentOf DEF GraphStoreAssumption
<1> QED  BY <1>3 DEF Upserted, Graphs

(* The empty graph and the process at rest.                                *)
LEMMA EmptyIsGraph ==
  /\ EmptyGraph \in Graphs
  /\ AtRest.at = "idle" /\ AtRest.left = << >> /\ AtRest.graph \in Graphs
<1>1. << >> \in Seq(Sightings)
  OBVIOUS
<1> QED  BY <1>1 DEF EmptyGraph, Graphs, AtRest

(* A process at work has an upsert to do.                                   *)
LEMMA CurrentIsUpsert ==
  ASSUME StoreTypeOK, Busy, NEW w \in running, writer[w].at # "idle"
  PROVE  /\ w \in Writers
         /\ writer[w].left \in Seq(Upsert) /\ writer[w].left # << >>
         /\ Current(w) \in Upsert /\ Current(w) = writer[w].left[1]
<1>1. w \in Writers /\ writer[w].left \in Seq(Upsert) /\ writer[w].left # << >>
  BY DEF StoreTypeOK, Busy, Upsert
<1>2. Head(writer[w].left) \in Upsert /\ Head(writer[w].left) = writer[w].left[1]
  BY <1>1, HeadTailProperties
<1> QED  BY <1>1, <1>2 DEF Current

Processes ==
  [at: {"idle", "reading", "opening", "writing", "replacing"}, left: Seq(Upsert), graph: Graphs]

(* The processes keep their type.                                          *)
LEMMA TypesOfStore ==
  ASSUME StoreTypeOK
  PROVE  writer \in [Writers -> Processes] /\ running \subseteq Writers
BY DEF StoreTypeOK, Processes, Upsert

(* A process at rest has no upserts left.                                  *)
LEMMA RestIsIdle ==
  /\ AtRest \in Processes
  /\ \A written : InOrder(AtRest.left, written)
<1>1. << >> \in Seq(Upsert)
  OBVIOUS
<1>2. AtRest \in Processes
  BY <1>1, EmptyIsGraph DEF AtRest, Processes
<1>3. \A written : InOrder(<< >>, written)
  BY DEF InOrder
<1> QED  BY <1>2, <1>3, EmptyIsGraph

(* The file the constructor writes satisfies the invariant.                *)
LEMMA InitInv == GraphStoreAssumption /\ StoreInit => IInv
<1> SUFFICES ASSUME GraphStoreAssumption, StoreInit PROVE IInv
  OBVIOUS
<1>1. << >> \in Seq(Sightings) /\ << >> \in Seq(Upsert)
  OBVIOUS
<1>2. StoreTypeOK
  BY <1>1, EmptyIsGraph DEF StoreInit, StoreTypeOK, AtRest, Upsert
<1>3. Busy
  BY DEF StoreInit, StoreTypeOK, Busy, AtRest
<1>4. FileIsLatest
  <2>1. \A e \in Entries : graphFile[e] = << >> /\ observed[e] = << >>
    BY DEF StoreInit, EmptyGraph
  <2>2. Recent(<< >>) = << >>
    BY <1>1, RecentEmpty DEF GraphStoreAssumption
  <2> QED  BY <2>1, <2>2, EmptyIsGraph DEF FileIsLatest, StoreInit, EverWritten
<1>5. LeftInOrder /\ CopyIsNext
  <2>1. \A w \in running : writer[w] = AtRest
    BY DEF StoreInit
  <2> QED  BY <2>1, RestIsIdle, EmptyIsGraph DEF LeftInOrder, CopyIsNext
<1> QED  BY <1>2, <1>3, <1>4, <1>5 DEF IInv

(* An event begins: its upserts name the ends of an edge before it.        *)
LEMMA ApplyInv ==
  ASSUME GraphStoreAssumption, IInv, NEW w \in running, NEW s \in Sightings,
         Apply(w, s), UNCHANGED running
  PROVE  IInv'
<1> DEFINE l == Pending(s)
<1>1. w \in Writers /\ writer' = [writer EXCEPT ![w] = [AtRest EXCEPT !.at = "reading", !.left = l]]
  BY DEF Apply, IInv, StoreTypeOK
<1>3. l \in Seq(Upsert) /\ l # << >> /\ \A written : InOrder(l, written)
  BY PendingInOrder DEF Apply, GraphStoreAssumption
<1> HIDE DEF l
<1>4. StoreTypeOK'
  <2>1. [AtRest EXCEPT !.at = "reading", !.left = l] \in Processes
    BY <1>3, RestIsIdle DEF Processes
  <2>2. writer' \in [Writers -> Processes]
    BY <1>1, <2>1, TypesOfStore DEF IInv
  <2>3. UNCHANGED <<running, graphFile, graphTmp, observed>>
    BY DEF Apply
  <2> QED  BY <2>2, <2>3 DEF IInv, StoreTypeOK, Processes, Upsert
<1>5. Busy'
  BY <1>1, <1>3 DEF Apply, IInv, StoreTypeOK, Busy, AtRest
<1>6. ASSUME SoleWriter' PROVE FileIsLatest' /\ LeftInOrder' /\ CopyIsNext'
  <2>1. SoleWriter /\ FileIsLatest /\ running' = {w}
    BY <1>6 DEF SoleWriter, IInv
  <2>2. FileIsLatest'
    BY <2>1 DEF FileIsLatest, Apply, EverWritten
  <2>3. writer'[w].left = l /\ writer'[w].at = "reading"
    BY <1>1 DEF IInv, StoreTypeOK, AtRest
  <2>4. LeftInOrder'
    BY <2>1, <2>3, <1>3 DEF LeftInOrder
  <2>5. CopyIsNext'
    BY <2>1, <2>3 DEF CopyIsNext
  <2> QED  BY <2>2, <2>4, <2>5
<1> QED  BY <1>4, <1>5, <1>6 DEF IInv

(* The copy is read from the latest file.                                  *)
LEMMA ReadGraphInv ==
  ASSUME GraphStoreAssumption, IInv, NEW w \in running, ReadGraph(w), UNCHANGED running
  PROVE  IInv'
<1> DEFINE g == Upserted(Read(graphFile), Current(w).entry, Current(w).sighting)
<1>1. writer[w].at # "idle"
  BY DEF ReadGraph
<1>2. w \in Writers /\ Current(w) \in Upsert
  BY <1>1, CurrentIsUpsert DEF IInv
<1>3. Read(graphFile) \in Graphs
  BY EmptyIsGraph DEF Read, IInv, StoreTypeOK
<1>4. g \in Graphs
  BY <1>2, <1>3, UpsertedIsGraph DEF Upsert
<1>5. writer' = [writer EXCEPT ![w].at = "opening", ![w].graph = g]
  BY DEF ReadGraph
<1> HIDE DEF g
<1>6. StoreTypeOK'
  <2>1. [writer[w] EXCEPT !.at = "opening", !.graph = g] \in Processes
    BY <1>2, <1>4, TypesOfStore DEF IInv, Processes
  <2>2. writer' \in [Writers -> Processes]
    BY <1>2, <1>5, <2>1, TypesOfStore DEF IInv
  <2>3. UNCHANGED <<running, graphFile, graphTmp, observed>>
    BY DEF ReadGraph
  <2> QED  BY <2>2, <2>3 DEF IInv, StoreTypeOK, Processes, Upsert
<1>7. Busy'
  BY <1>1, <1>2, <1>5 DEF IInv, StoreTypeOK, Busy
<1>8. ASSUME SoleWriter' PROVE FileIsLatest' /\ LeftInOrder' /\ CopyIsNext'
  <2>1. SoleWriter /\ FileIsLatest /\ LeftInOrder /\ running' = {w} /\ running = {w}
    BY <1>8 DEF SoleWriter, IInv
  <2>2. FileIsLatest'
    BY <2>1 DEF FileIsLatest, ReadGraph, EverWritten
  <2>3. /\ writer'[w].left = writer[w].left /\ writer'[w].at = "opening" /\ writer'[w].graph = g
        /\ Current(w)' = Current(w) /\ EverWritten' = EverWritten
    BY <1>2, <1>5 DEF IInv, StoreTypeOK, Current, EverWritten, ReadGraph
  <2>4. LeftInOrder'
    BY <2>1, <2>3 DEF LeftInOrder
  <2>5. Read(graphFile) = graphFile /\ graphFile' = graphFile
    BY <2>1 DEF Read, FileIsLatest, GraphStoreAssumption, GraphUpdatesAssumption, ReadGraph
  <2>6. CopyIsNext'
    BY <2>1, <2>3, <2>5 DEF CopyIsNext, g
  <2> QED  BY <2>2, <2>4, <2>6
<1> QED  BY <1>6, <1>7, <1>8 DEF IInv

(* Opening state.tmp leaves state.json alone.                              *)
LEMMA OpenTmpInv ==
  ASSUME GraphStoreAssumption, IInv, NEW w \in running, OpenTmp(w), UNCHANGED running
  PROVE  IInv'
<1>1. w \in Writers /\ writer' = [writer EXCEPT ![w].at = "writing"]
  BY DEF OpenTmp, IInv, StoreTypeOK
<1>2. StoreTypeOK' /\ Busy'
  <2>1. [writer[w] EXCEPT !.at = "writing"] \in Processes
    BY <1>1, TypesOfStore DEF IInv, Processes
  <2>2. writer' \in [Writers -> Processes]
    BY <1>1, <2>1, TypesOfStore DEF IInv
  <2>3. graphTmp' \in Graphs \cup {Torn, Absent} /\ UNCHANGED <<running, graphFile, observed>>
    BY <1>1, TypesOfStore DEF OpenTmp, IInv, Processes
  <2>4. StoreTypeOK'
    BY <2>2, <2>3 DEF IInv, StoreTypeOK, Processes, Upsert
  <2>5. Busy'
    BY <1>1 DEF OpenTmp, IInv, StoreTypeOK, Busy
  <2> QED  BY <2>4, <2>5
<1>3. ASSUME SoleWriter' PROVE FileIsLatest' /\ LeftInOrder' /\ CopyIsNext'
  <2>1. /\ FileIsLatest /\ LeftInOrder /\ CopyIsNext /\ running' = {w} /\ running = {w}
    BY <1>3 DEF SoleWriter, IInv
  <2>2. /\ writer'[w].left = writer[w].left /\ writer'[w].at = "writing"
        /\ writer'[w].graph = writer[w].graph
        /\ Current(w)' = Current(w) /\ EverWritten' = EverWritten /\ graphFile' = graphFile
    BY <1>1 DEF IInv, StoreTypeOK, Current, EverWritten, OpenTmp
  <2>3. FileIsLatest'
    BY <2>1 DEF FileIsLatest, OpenTmp, EverWritten
  <2>4. LeftInOrder'
    BY <2>1, <2>2 DEF LeftInOrder
  <2>5. CopyIsNext'
    BY <2>1, <2>2 DEF CopyIsNext, OpenTmp
  <2> QED  BY <2>3, <2>4, <2>5
<1> QED  BY <1>2, <1>3 DEF IInv

(* The copy is whole in state.tmp before it replaces state.json.           *)
LEMMA WriteTmpInv ==
  ASSUME GraphStoreAssumption, IInv, NEW w \in running, WriteTmp(w), UNCHANGED running
  PROVE  IInv'
<1>1. w \in Writers /\ writer' = [writer EXCEPT ![w].at = "replacing"]
  BY DEF WriteTmp, IInv, StoreTypeOK
<1>2. StoreTypeOK' /\ Busy'
  <2>1. [writer[w] EXCEPT !.at = "replacing"] \in Processes
    BY <1>1, TypesOfStore DEF IInv, Processes
  <2>2. writer' \in [Writers -> Processes]
    BY <1>1, <2>1, TypesOfStore DEF IInv
  <2>3. graphTmp' \in Graphs \cup {Torn, Absent} /\ UNCHANGED <<running, graphFile, observed>>
    BY <1>1, TypesOfStore DEF WriteTmp, IInv, Processes
  <2>4. StoreTypeOK'
    BY <2>2, <2>3 DEF IInv, StoreTypeOK, Processes, Upsert
  <2>5. Busy'
    BY <1>1 DEF WriteTmp, IInv, StoreTypeOK, Busy
  <2> QED  BY <2>4, <2>5
<1>3. ASSUME SoleWriter' PROVE FileIsLatest' /\ LeftInOrder' /\ CopyIsNext'
  <2>1. /\ FileIsLatest /\ LeftInOrder /\ CopyIsNext /\ running' = {w} /\ running = {w}
    BY <1>3 DEF SoleWriter, IInv
  <2>2. /\ writer'[w].left = writer[w].left /\ writer'[w].at = "replacing"
        /\ writer'[w].graph = writer[w].graph /\ graphTmp' = writer[w].graph
        /\ Current(w)' = Current(w) /\ EverWritten' = EverWritten /\ graphFile' = graphFile
    BY <1>1 DEF IInv, StoreTypeOK, Current, EverWritten, WriteTmp
  <2>3. FileIsLatest'
    BY <2>1 DEF FileIsLatest, WriteTmp, EverWritten
  <2>4. LeftInOrder'
    BY <2>1, <2>2 DEF LeftInOrder
  <2>5. CopyIsNext'
    BY <2>1, <2>2 DEF CopyIsNext, WriteTmp
  <2> QED  BY <2>3, <2>4, <2>5
<1> QED  BY <1>2, <1>3 DEF IInv

(* A process that fails or dies leaves both files as they are.              *)
LEMMA StoppedInv ==
  ASSUME GraphStoreAssumption, IInv, NEW w \in running,
         writer' = [writer EXCEPT ![w] = AtRest],
         UNCHANGED <<graphFile, graphTmp, observed, running>>
  PROVE  IInv'
<1>1. w \in Writers
  BY DEF IInv, StoreTypeOK
<1>2. StoreTypeOK'
  <2>1. writer' \in [Writers -> Processes]
    BY <1>1, RestIsIdle, TypesOfStore DEF IInv
  <2> QED  BY <2>1 DEF IInv, StoreTypeOK, Processes, Upsert
<1>3. writer'[w].at = "idle" /\ writer'[w].left = << >>
  BY <1>1, EmptyIsGraph DEF IInv, StoreTypeOK
<1>4. Busy'
  BY <1>3 DEF IInv, StoreTypeOK, Busy
<1>5. ASSUME SoleWriter' PROVE FileIsLatest' /\ LeftInOrder' /\ CopyIsNext'
  <2>1. FileIsLatest /\ running' = {w}
    BY <1>5 DEF SoleWriter, IInv
  <2>2. FileIsLatest'
    BY <2>1 DEF FileIsLatest, EverWritten
  <2>3. LeftInOrder' /\ CopyIsNext'
    BY <2>1, <1>3, RestIsIdle, EmptyIsGraph DEF LeftInOrder, CopyIsNext
  <2> QED  BY <2>2, <2>3
<1> QED  BY <1>2, <1>4, <1>5 DEF IInv

(* The move makes the copy the file, and the upsert one of its history.    *)
LEMMA ReplaceInv ==
  ASSUME GraphStoreAssumption, IInv, NEW w \in running, Replace(w), UNCHANGED running
  PROVE  IInv'
<1> DEFINE c == Current(w)
           e == c.entry
           s == c.sighting
           l == writer[w].left
<1>1. /\ w \in Writers /\ l \in Seq(Upsert) /\ l # << >>
      /\ c \in Upsert /\ c = l[1] /\ e \in Entries /\ s \in Sightings
  BY CurrentIsUpsert DEF Replace, IInv, Upsert
<1>2. /\ observed \in Graphs /\ observed' = [observed EXCEPT ![e] = Append(@, s)]
      /\ observed[e] \in Seq(Sightings) /\ Append(observed[e], s) \in Seq(Sightings)
      /\ Append(observed[e], s) # << >>
  <2>1. observed \in Graphs /\ observed' = [observed EXCEPT ![e] = Append(@, s)]
    BY DEF Replace, IInv, StoreTypeOK
  <2>2. observed[e] \in Seq(Sightings)
    BY <1>1, <2>1 DEF Graphs
  <2> HIDE DEF e, s
  <2> QED  BY <1>1, <2>1, <2>2, AppendProperties
<1>3. observed' \in Graphs /\ EverWritten' = EverWritten \cup {e}
  <2> HIDE DEF e, s
  <2> QED  BY <1>1, <1>2 DEF Graphs, EverWritten
<1>4. PICK n \in Nat : n = Len(l)
  BY <1>1, LenProperties
<1>5. PICK t : t = Tail(l)
  OBVIOUS
<1>6. n # 1 => t \in Seq(Upsert) /\ t # << >>
  <2>1. t \in Seq(Upsert) /\ Len(t) = n - 1
    <3> HIDE DEF l
    <3> QED  BY <1>1, <1>4, <1>5, HeadTailProperties
  <2>2. n # 1 => n - 1 # 0
    BY <1>4
  <2> HIDE DEF l
  <2> QED  BY <2>1, <2>2, EmptySeq
<1>7. /\ writer' = [writer EXCEPT ![w] = Rest(w)]
      /\ n = 1 => Rest(w) = AtRest
      /\ n # 1 => Rest(w) = [at |-> "reading", left |-> t, graph |-> EmptyGraph]
  BY <1>4, <1>5 DEF Replace, Rest, AtRest
<1>8. Rest(w) \in Processes
  <2> HIDE DEF l
  <2>1. CASE n = 1
    BY <2>1, <1>7, RestIsIdle
  <2>2. CASE n # 1
    <3>1. t \in Seq(Upsert) /\ EmptyGraph \in Graphs
      BY <2>2, <1>6, EmptyIsGraph
    <3> QED  BY <2>2, <3>1, <1>7 DEF Processes
  <2> QED  BY <2>1, <2>2
<1>9. StoreTypeOK'
  <2>1. graphFile' \in Graphs \cup {Torn} /\ graphTmp' \in Graphs \cup {Torn, Absent}
    BY DEF Replace, IInv, StoreTypeOK
  <2>2. writer' \in [Writers -> Processes] /\ UNCHANGED running
    BY <1>1, <1>7, <1>8, TypesOfStore DEF IInv
  <2> QED  BY <1>3, <2>1, <2>2 DEF IInv, StoreTypeOK, Processes, Upsert
<1>10. writer'[w] = Rest(w)
  BY <1>1, <1>7 DEF IInv, StoreTypeOK
<1>11. Busy'
  <2> SUFFICES ASSUME NEW v \in Writers, writer'[v].at # "idle" PROVE writer'[v].left # << >>
    BY DEF Busy
  <2> HIDE DEF l
  <2>1. CASE v = w
    BY <2>1, <1>6, <1>7, <1>10, EmptyIsGraph
  <2>2. CASE v # w
    BY <2>2, <1>7 DEF IInv, StoreTypeOK, Busy
  <2> QED  BY <2>1, <2>2
<1>12. ASSUME SoleWriter' PROVE FileIsLatest' /\ LeftInOrder' /\ CopyIsNext'
  <2>1. FileIsLatest /\ LeftInOrder /\ CopyIsNext /\ running' = {w} /\ running = {w}
    BY <1>12 DEF SoleWriter, IInv
  <2>2. graphFile' = Upserted(graphFile, e, s)
    BY <2>1 DEF CopyIsNext, Replace
  <2>3. Ends(e) \subseteq EverWritten
    <3>1. InOrder(l, EverWritten)
      BY <2>1 DEF LeftInOrder
    <3>2. e = Head(l).entry
      BY DEF Current
    <3> HIDE DEF l, e
    <3> QED  BY <1>1, <3>1, <3>2, RestInOrder
  <2>4. FileIsLatest'
    <3> HIDE DEF c, e, s, l
    <3>1. /\ graphFile' \in Graphs
          /\ \A d \in Entries :
               graphFile'[d] = IF d = e THEN Recent(Append(graphFile[e], s)) ELSE graphFile[d]
      BY <1>1, <2>1, <2>2, UpsertedIsGraph DEF FileIsLatest
    <3>2. graphFile'[e] = Recent(Append(observed[e], s))
      <4>1. graphFile'[e] = Recent(Append(Recent(observed[e]), s))
        BY <1>1, <2>1, <3>1 DEF FileIsLatest
      <4> QED  BY <1>1, <1>2, <4>1, RecentAppend DEF GraphStoreAssumption
    <3>3. \A d \in Entries : observed'[d] = IF d = e THEN Append(observed[e], s) ELSE observed[d]
      BY <1>1, <1>2 DEF Graphs
    <3>4. \A d \in Entries : graphFile'[d] = Recent(observed'[d])
      <4> TAKE d \in Entries
      <4>1. CASE d = e
        BY <4>1, <3>2, <3>3
      <4>2. CASE d # e
        BY <4>2, <2>1, <3>1, <3>3 DEF FileIsLatest
      <4> QED  BY <4>1, <4>2
    <3>5. \A d \in EverWritten' : Ends(d) \subseteq EverWritten'
      BY <1>3, <2>1, <2>3 DEF FileIsLatest
    <3>6. (\A d \in Entries : graphFile[d] = Recent(observed[d]))'
      BY <3>4
    <3>7. (\A d \in EverWritten : Ends(d) \subseteq EverWritten)'
      BY <3>5
    <3> QED  BY <3>1, <3>6, <3>7 DEF FileIsLatest
  <2>5. LeftInOrder'
    <3>1. CASE n = 1
      <4>1. writer'[w] = AtRest
        BY <3>1, <1>7, <1>10
      <4> QED  BY <2>1, <4>1, RestIsIdle DEF LeftInOrder
    <3>2. CASE n # 1
      <4>1. writer'[w].left = t
        <5> HIDE DEF l
        <5> QED  BY <3>2, <1>7, <1>10
      <4>3. InOrder(t, EverWritten')
        <5>1. InOrder(l, EverWritten)
          BY <2>1 DEF LeftInOrder
        <5>2. e = Head(l).entry
          BY DEF Current
        <5> HIDE DEF l, e
        <5> QED  BY <3>2, <1>1, <1>3, <1>4, <1>5, <5>1, <5>2, RestInOrder
      <4> QED  BY <2>1, <4>1, <4>3 DEF LeftInOrder
    <3> QED  BY <3>1, <3>2
  <2>6. CopyIsNext'
    <3>1. writer'[w].at \in {"idle", "reading"}
      BY <1>7, <1>10, EmptyIsGraph
    <3> QED  BY <2>1, <3>1 DEF CopyIsNext
  <2> QED  BY <2>4, <2>5, <2>6
<1> QED  BY <1>9, <1>11, <1>12 DEF IInv

-----------------------------------------------------------------------------
(* Every step keeps the invariant, one lemma per step of an upsert.        *)
LEMMA Inductive == GraphStoreAssumption /\ IInv /\ [StoreNext]_storeVars => IInv'
<1> SUFFICES ASSUME GraphStoreAssumption, IInv, [StoreNext]_storeVars PROVE IInv'
  OBVIOUS
<1>1. CASE StoreNext
  <2>1. PICK w \in running :
          \/ \E s \in Sightings : Apply(w, s)
          \/ ReadGraph(w) \/ OpenTmp(w) \/ WriteTmp(w) \/ Replace(w) \/ ReplaceFails(w)
          \/ StoreCrash(w)
    BY <1>1 DEF StoreNext
  <2>2. UNCHANGED running
    BY <1>1 DEF StoreNext
  <2>3. ASSUME NEW s \in Sightings, Apply(w, s) PROVE IInv'
    BY <2>2, <2>3, ApplyInv
  <2>4. CASE ReadGraph(w)
    BY <2>2, <2>4, ReadGraphInv
  <2>5. CASE OpenTmp(w)
    BY <2>2, <2>5, OpenTmpInv
  <2>6. CASE WriteTmp(w)
    BY <2>2, <2>6, WriteTmpInv
  <2>7. CASE Replace(w)
    BY <2>2, <2>7, ReplaceInv
  <2>8. CASE ReplaceFails(w) \/ StoreCrash(w)
    <3>1. /\ writer' = [writer EXCEPT ![w] = AtRest]
          /\ UNCHANGED <<graphFile, graphTmp, observed, running>>
      BY <2>2, <2>8 DEF ReplaceFails, StoreCrash
    <3> QED  BY <3>1, StoppedInv
  <2> QED  BY <2>1, <2>3, <2>4, <2>5, <2>6, <2>7, <2>8
<1>2. CASE UNCHANGED storeVars
  <2> USE <1>2 DEF storeVars
  <2>1. StoreTypeOK' /\ Busy'
    BY DEF IInv, StoreTypeOK, Busy
  <2>2. SoleWriter' => SoleWriter
    BY DEF SoleWriter
  <2>3. EverWritten' = EverWritten /\ \A w : Current(w)' = Current(w)
    BY DEF EverWritten, Current
  <2>4. FileIsLatest => FileIsLatest'
    BY <2>3 DEF FileIsLatest
  <2>5. LeftInOrder => LeftInOrder'
    BY <2>3 DEF LeftInOrder
  <2>6. CopyIsNext => CopyIsNext'
    BY <2>3 DEF CopyIsNext
  <2> QED  BY <2>1, <2>2, <2>4, <2>5, <2>6 DEF IInv
<1> QED  BY <1>1, <1>2

(* Files, copies and pending upserts keep their types (_read and _write of  *)
(* memory.py), also where several processes write and crash.                *)
THEOREM StoreTypes == StoreSpec => []StoreTypeOK
<1>1. IInv => StoreTypeOK
  BY DEF IInv
<1> QED  BY <1>1, InitInv, Inductive, GraphStoreAssumption, PTL DEF StoreSpec

(* Whatever upsert a crash of the only writer cuts short, state.json holds  *)
(* every entry that was ever written, with its latest observations, and     *)
(* each edge between two nodes it holds.                                    *)
THEOREM NeverForgotten == StoreSpec => []NothingForgotten
<1>1. ASSUME GraphStoreAssumption, IInv PROVE NothingForgotten
  <2> SUFFICES ASSUME SoleWriter, NEW e \in Entries
               PROVE  /\ Read(graphFile)[e] = Recent(observed[e])
                      /\ e \in Stored(Read(graphFile)) => Ends(e) \subseteq Stored(Read(graphFile))
    BY DEF NothingForgotten
  <2>1. FileIsLatest /\ observed \in Graphs
    BY <1>1 DEF IInv, StoreTypeOK
  <2>2. Read(graphFile) = graphFile
    BY <1>1, <2>1 DEF FileIsLatest, Read, GraphStoreAssumption, GraphUpdatesAssumption
  <2>3. \A d \in Entries : observed[d] \in Seq(Sightings)
    BY <2>1 DEF Graphs
  <2>4. \A d \in Entries : (graphFile[d] = << >>) <=> (observed[d] = << >>)
    BY <1>1, <2>1, <2>3, RecentEmpty DEF FileIsLatest, GraphStoreAssumption
  <2>5. Stored(graphFile) = EverWritten
    BY <2>4 DEF Stored, EverWritten
  <2> QED  BY <2>1, <2>2, <2>5 DEF FileIsLatest, Stored
<1> QED  BY <1>1, InitInv, Inductive, GraphStoreAssumption, PTL DEF StoreSpec

-----------------------------------------------------------------------------
(* The events of a history.                                                *)
Members(history) == {history[i] : i \in DOMAIN history}

(* Neo4j.  The inductive invariant: a task at work has upserts left, in     *)
(* order; what is in the database is what was upserted; and an entry that   *)
(* two tasks never merged at once is merged with the sources it has.        *)
TasksInOrder ==
  \A w \in Writers :
    /\ task[w].at # "idle" => task[w].left # << >>
    /\ InOrder(task[w].left, InDatabase)

DatabaseIsSum ==
  /\ \A e \in Entries :
       /\ database[e].count = Len(given[e])
       /\ database[e].observations = Recent(given[e])
       /\ e \notin raced => database[e].sources = Members(given[e])
  /\ \A e \in InDatabase : Ends(e) \subseteq InDatabase

OneMerges ==
  \A e \in Entries \ raced, w \in Writers :
    Merging(w, e) =>
      /\ task[w].sources = database[e].sources \cup {Upserting(w).sighting}
      /\ \A v \in Writers : Merging(v, e) => v = w

Neo4jInv == Neo4jTypeOK /\ TasksInOrder /\ DatabaseIsSum /\ OneMerges

Properties == [count : Nat, sources : SUBSET Sightings, observations : Seq(Sightings)]
Tasks == [at : {"idle", "reading", "merging"}, left : Seq(Upsert), sources : SUBSET Sightings]

(* Database and tasks by the names of their types.                         *)
LEMMA Neo4jTypes ==
  Neo4jTypeOK <=> /\ database \in [Entries -> Properties] /\ task \in [Writers -> Tasks]
                  /\ given \in [Entries -> Seq(Sightings)] /\ raced \in SUBSET Entries
BY DEF Neo4jTypeOK, Properties, Tasks, Upsert

(* A task without an event has no upserts, which are in order.             *)
LEMMA NoTaskIsTask ==
  /\ NoTask \in Tasks /\ NoTask.at = "idle" /\ NoTask.left = << >>
  /\ \A written : InOrder(NoTask.left, written)
<1>1. << >> \in Seq(Upsert)
  OBVIOUS
<1> QED  BY <1>1 DEF NoTask, Tasks, InOrder

(* The empty database satisfies the invariant.                             *)
LEMMA Neo4jInitInv == Neo4jAssumption /\ Neo4jInit => Neo4jInv
<1> SUFFICES ASSUME Neo4jAssumption, Neo4jInit PROVE Neo4jInv
  OBVIOUS
<1>1. << >> \in Seq(Sightings)
  OBVIOUS
<1>2. Neo4jTypeOK
  BY <1>1, NoTaskIsTask, Neo4jTypes DEF Neo4jInit, NotInDatabase, Properties
<1>3. TasksInOrder
  BY NoTaskIsTask DEF TasksInOrder, Neo4jInit
<1>4. DatabaseIsSum
  <2>0. Recent(<< >>) = << >>
    BY <1>1, RecentEmpty DEF Neo4jAssumption
  <2>1. Len(<< >>) = 0 /\ DOMAIN << >> = {}
    OBVIOUS
  <2>2. \A e \in Entries : database[e] = NotInDatabase /\ given[e] = << >>
    BY DEF Neo4jInit
  <2>3. InDatabase = {}
    BY <2>2 DEF InDatabase, NotInDatabase
  <2> QED  BY <2>0, <2>1, <2>2, <2>3 DEF DatabaseIsSum, NotInDatabase, Members
<1>5. OneMerges
  BY NoTaskIsTask DEF OneMerges, Merging, Neo4jInit
<1> QED  BY <1>2, <1>3, <1>4, <1>5 DEF Neo4jInv

(* A task that is given upserts in order, or none, and merges nothing yet.  *)
LEMMA TaskChanged ==
  ASSUME Neo4jAssumption, Neo4jInv, NEW w \in Writers, NEW t \in Tasks,
         t.at \in {"idle", "reading"}, t.at # "idle" => t.left # << >>,
         InOrder(t.left, InDatabase),
         task' = [task EXCEPT ![w] = t], UNCHANGED <<database, given, raced>>
  PROVE  Neo4jInv'
<1>1. task \in [Writers -> Tasks]
  BY Neo4jTypes DEF Neo4jInv
<1>2. \A v \in Writers : task'[v] = IF v = w THEN t ELSE task[v]
  BY <1>1
<1>3. Neo4jTypeOK'
  <2>1. task' \in [Writers -> Tasks]
    BY <1>1
  <2> QED  BY <2>1 DEF Neo4jInv, Neo4jTypeOK, Tasks, Upsert
<1>4. InDatabase' = InDatabase
  BY DEF InDatabase
<1>5. TasksInOrder'
  BY <1>2, <1>4 DEF Neo4jInv, TasksInOrder
<1>6. DatabaseIsSum'
  BY <1>4 DEF Neo4jInv, DatabaseIsSum
<1>7. \A v \in Writers : \A e : Merging(v, e)' => v # w /\ Merging(v, e) /\ task'[v] = task[v]
  BY <1>2 DEF Merging, Upserting
<1>8. OneMerges'
  BY <1>7 DEF Neo4jInv, OneMerges, Upserting
<1> QED  BY <1>3, <1>5, <1>6, <1>8 DEF Neo4jInv

(* An event begins.                                                        *)
LEMMA IngestInv ==
  ASSUME Neo4jAssumption, Neo4jInv, NEW w \in Writers, NEW s \in Sightings, Ingest(w, s)
  PROVE  Neo4jInv'
<1>1. PICK t : t = [NoTask EXCEPT !.at = "reading", !.left = Pending(s)]
  OBVIOUS
<1>2. /\ Pending(s) \in Seq(Upsert) /\ Pending(s) # << >>
      /\ InOrder(Pending(s), InDatabase)
  BY PendingInOrder DEF Ingest, Neo4jAssumption
<1>3. t \in Tasks /\ t.at = "reading" /\ t.left = Pending(s)
  BY <1>1, <1>2 DEF NoTask, Tasks
<1>4. task' = [task EXCEPT ![w] = t] /\ UNCHANGED <<database, given, raced>>
  BY <1>1 DEF Ingest
<1> QED  BY <1>2, <1>3, <1>4, TaskChanged

(* The sources are read and, in memory, added to; whoever reads while       *)
(* another task merges the entry has raced with it.                         *)
LEMMA ReadSourcesInv ==
  ASSUME Neo4jAssumption, Neo4jInv, NEW w \in Writers, ReadSources(w)
  PROVE  Neo4jInv'
<1> DEFINE u == Upserting(w)
           e == u.entry
           sources == database[e].sources \cup {u.sighting}
<1>1. task \in [Writers -> Tasks] /\ database \in [Entries -> Properties]
  BY Neo4jTypes DEF Neo4jInv
<1>2. u \in Upsert
  <2>1. task[w].left \in Seq(Upsert) /\ task[w].left # << >>
    BY <1>1 DEF Tasks, Neo4jInv, TasksInOrder, ReadSources
  <2> QED  BY <2>1, HeadTailProperties DEF Upserting
<1>3. e \in Entries /\ sources \in SUBSET Sightings
  BY <1>1, <1>2 DEF Upsert, Properties
<1>4. /\ task[w].at = "reading"
      /\ task' = [task EXCEPT ![w].at = "merging", ![w].sources = sources]
      /\ raced' = IF \E v \in Writers \ {w} : Merging(v, e) THEN raced \cup {e} ELSE raced
      /\ UNCHANGED <<database, given>>
  BY DEF ReadSources
<1>5. /\ task'[w].at = "merging" /\ task'[w].sources = sources /\ task'[w].left = task[w].left
      /\ \A v \in Writers \ {w} : task'[v] = task[v]
  <2> HIDE DEF sources
  <2> QED  BY <1>1, <1>4 DEF Tasks
<1>6. raced \subseteq raced' /\ raced' \in SUBSET Entries
  <2>1. raced \in SUBSET Entries
    BY Neo4jTypes DEF Neo4jInv
  <2> HIDE DEF e
  <2> QED  BY <1>3, <1>4, <2>1
<1>7. Neo4jTypeOK'
  <2>1. [task[w] EXCEPT !.at = "merging", !.sources = sources] \in Tasks
    <3> HIDE DEF sources
    <3> QED  BY <1>1, <1>3 DEF Tasks
  <2>2. task' \in [Writers -> Tasks]
    <3> HIDE DEF sources
    <3> QED  BY <1>1, <1>4, <2>1
  <2> QED  BY <1>4, <1>6, <2>2 DEF Neo4jInv, Neo4jTypeOK, Tasks, Upsert
<1>8. InDatabase' = InDatabase
  BY <1>4 DEF InDatabase
<1>9. TasksInOrder'
  <2> SUFFICES ASSUME NEW v \in Writers
               PROVE  (task'[v].at # "idle" => task'[v].left # << >>)
                      /\ InOrder(task'[v].left, InDatabase)
    BY <1>8 DEF TasksInOrder
  <2>1. task'[v].left = task[v].left /\ (task'[v].at # "idle" => task[v].at # "idle")
    BY <1>4, <1>5
  <2> QED  BY <2>1 DEF Neo4jInv, TasksInOrder
<1>10. DatabaseIsSum'
  BY <1>4, <1>6, <1>8 DEF Neo4jInv, DatabaseIsSum
<1>11. OneMerges'
  <2> SUFFICES ASSUME NEW d \in Entries \ raced', NEW v \in Writers, Merging(v, d)'
               PROVE  /\ task'[v].sources = database[d].sources \cup {Upserting(v)'.sighting}
                      /\ \A x \in Writers : Merging(x, d)' => x = v
    BY <1>4 DEF OneMerges
  <2>1. \A x \in Writers : Upserting(x)' = Upserting(x)
    BY <1>5 DEF Upserting
  <2>2. \A x \in Writers \ {w} : Merging(x, d)' => Merging(x, d)
    BY <1>5, <2>1 DEF Merging
  <2>3. Merging(w, d)' => d = e
    BY <1>5, <2>1 DEF Merging
  <2>4. d = e => ~ \E x \in Writers \ {w} : Merging(x, d)
    <3> HIDE DEF e
    <3> QED  BY <1>4
  <2>5. d \notin raced
    BY <1>6
  <2>6. CASE v = w
    <3>1. d = e /\ Upserting(v)'.sighting = u.sighting
      BY <2>1, <2>3, <2>6
    <3>2. task'[v].sources = database[d].sources \cup {u.sighting}
      BY <1>5, <2>6, <3>1
    <3> QED  BY <2>2, <2>4, <2>6, <3>1, <3>2
  <2>7. CASE v # w
    <3>1. Merging(v, d) /\ d # e
      BY <2>2, <2>4, <2>7
    <3>2. \A x \in Writers : Merging(x, d)' => Merging(x, d)
      BY <2>2, <2>3, <3>1
    <3>3. /\ task[v].sources = database[d].sources \cup {Upserting(v).sighting}
          /\ \A x \in Writers : Merging(x, d) => x = v
      BY <2>5, <3>1 DEF Neo4jInv, OneMerges
    <3> QED  BY <1>5, <2>1, <2>7, <3>2, <3>3
  <2> QED  BY <2>6, <2>7
<1> QED  BY <1>7, <1>9, <1>10, <1>11 DEF Neo4jInv

(* One observation more.                                                    *)
LEMMA OneMore ==
  ASSUME NEW g \in Seq(Sightings), NEW s \in Sightings, NEW h, h = Append(g, s)
  PROVE  /\ h \in Seq(Sightings) /\ h # << >>
         /\ Len(h) = Len(g) + 1 /\ Len(g) \in Nat
         /\ Members(h) = Members(g) \cup {s}
<1>1. PICK n \in Nat, m \in Nat : n = Len(g) /\ m = n + 1
  BY LenProperties
<1>2. h \in Seq(Sightings) /\ Len(h) = m /\ h[m] = s
  BY <1>1, AppendProperties
<1>3. \A i \in 1..n : h[i] = g[i]
  BY <1>1, AppendProperties
<1>4. h # << >>
  BY <1>1, <1>2, EmptySeq
<1>5. DOMAIN h = 1..m /\ DOMAIN g = 1..n
  BY <1>1, <1>2, LenProperties
<1>6. 1..m = 1..n \cup {m}
  BY <1>1
<1>7. Members(h) = Members(g) \cup {s}
  BY <1>2, <1>3, <1>5, <1>6 DEF Members
<1> QED  BY <1>1, <1>2, <1>4, <1>5, <1>7

(* The merge adds what the task was given to what the database has.         *)
LEMMA MergeInv ==
  ASSUME Neo4jAssumption, Neo4jInv, NEW w \in Writers, Merge(w)
  PROVE  Neo4jInv'
<1>1. /\ task \in [Writers -> Tasks] /\ database \in [Entries -> Properties]
      /\ given \in [Entries -> Seq(Sightings)]
  BY Neo4jTypes DEF Neo4jInv
<1>2. PICK l \in Seq(Upsert) : l = task[w].left /\ l # << >> /\ InOrder(l, InDatabase)
  BY <1>1 DEF Tasks, Neo4jInv, TasksInOrder, Merge
<1>3. PICK u \in Upsert : u = Head(l) /\ u = Upserting(w)
  BY <1>2, RestInOrder DEF Upserting
<1>4. PICK e \in Entries, s \in Sightings : e = u.entry /\ s = u.sighting
  BY DEF Upsert
<1>5. Ends(e) \subseteq InDatabase
  BY <1>2, <1>3, <1>4, RestInOrder
<1>6. PICK p, h : p = Merged(database[e], task[w].sources, s) /\ h = Append(given[e], s)
  OBVIOUS
<1>7. /\ database' = [database EXCEPT ![e] = p] /\ given' = [given EXCEPT ![e] = h]
      /\ task' = [task EXCEPT ![w] = NextUpsert(w)] /\ UNCHANGED raced
      /\ task[w].at = "merging"
  BY <1>3, <1>4, <1>5, <1>6 DEF Merge
<1>8. /\ h \in Seq(Sightings) /\ h # << >> /\ Len(h) = Len(given[e]) + 1 /\ Len(given[e]) \in Nat
      /\ Members(h) = Members(given[e]) \cup {s}
  <2>1. PICK g \in Seq(Sightings) : g = given[e]
    BY <1>1
  <2>2. h = Append(g, s)
    BY <1>6, <2>1
  <2>3. /\ h \in Seq(Sightings) /\ h # << >> /\ Len(h) = Len(g) + 1 /\ Len(g) \in Nat
        /\ Members(h) = Members(g) \cup {s}
    BY <2>2, OneMore
  <2> QED  BY <2>1, <2>3
<1>9. /\ p \in Properties
      /\ p.count = Len(h) /\ p.sources = task[w].sources /\ p.observations = Recent(h)
  <2>1. /\ database[e] \in Properties /\ task[w].sources \in SUBSET Sightings
        /\ given[e] \in Seq(Sightings)
    BY <1>1 DEF Tasks
  <2>2. database[e].count = Len(given[e]) /\ database[e].observations = Recent(given[e])
    BY DEF Neo4jInv, DatabaseIsSum
  <2>3. Recent(Append(database[e].observations, s)) = Recent(h)
    BY <1>6, <2>1, <2>2, RecentAppend DEF Neo4jAssumption
  <2>4. Recent(h) \in Seq(Sightings)
    BY <1>8, RecentOf DEF Neo4jAssumption
  <2>5. p = [count |-> database[e].count + 1, sources |-> task[w].sources,
             observations |-> Recent(Append(database[e].observations, s))]
    BY <1>6 DEF Merged
  <2>6. p = [count |-> Len(h), sources |-> task[w].sources, observations |-> Recent(h)]
    BY <2>2, <2>3, <2>5, <1>8
  <2>7. Len(h) \in Nat
    BY <1>8
  <2> QED  BY <2>1, <2>4, <2>6, <2>7 DEF Properties
<1>10. /\ NextUpsert(w) \in Tasks /\ NextUpsert(w).at \in {"idle", "reading"}
       /\ NextUpsert(w).at # "idle" => NextUpsert(w).left # << >>
       /\ InOrder(NextUpsert(w).left, InDatabase \cup {e})
  <2>1. CASE Len(l) = 1
    BY <1>2, <2>1, NoTaskIsTask DEF NextUpsert
  <2>2. CASE Len(l) # 1
    <3>1. PICK t \in Seq(Upsert) : t = Tail(l) /\ t # << >> /\ InOrder(t, InDatabase \cup {e})
      BY <1>2, <1>3, <1>4, <2>2, RestInOrder
    <3>2. NextUpsert(w) = [at |-> "reading", left |-> t, sources |-> {}]
      BY <1>2, <2>2, <3>1 DEF NextUpsert, NoTask
    <3> QED  BY <3>1, <3>2 DEF Tasks
  <2> QED  BY <2>1, <2>2
<1>11. /\ \A d \in Entries : /\ database'[d] = IF d = e THEN p ELSE database[d]
                             /\ given'[d] = IF d = e THEN h ELSE given[d]
       /\ \A v \in Writers : task'[v] = IF v = w THEN NextUpsert(w) ELSE task[v]
  BY <1>1, <1>7
<1>12. Neo4jTypeOK'
  <2>1. database' \in [Entries -> Properties] /\ given' \in [Entries -> Seq(Sightings)]
    BY <1>1, <1>7, <1>8, <1>9
  <2>2. task' \in [Writers -> Tasks]
    BY <1>1, <1>7, <1>10
  <2> QED  BY <1>7, <2>1, <2>2 DEF Neo4jInv, Neo4jTypeOK, Tasks, Upsert, Properties
<1>13. InDatabase' = InDatabase \cup {e}
  <2>1. p.count > 0
    BY <1>8, <1>9
  <2> QED  BY <1>11, <2>1 DEF InDatabase
<1>14. TasksInOrder'
  <2> SUFFICES ASSUME NEW v \in Writers
               PROVE  (task'[v].at # "idle" => task'[v].left # << >>)
                      /\ InOrder(task'[v].left, InDatabase')
    BY DEF TasksInOrder
  <2>1. CASE v = w
    BY <2>1, <1>10, <1>11, <1>13
  <2>2. CASE v # w
    <3>1. InOrder(task[v].left, InDatabase) /\ (task[v].at # "idle" => task[v].left # << >>)
      BY DEF Neo4jInv, TasksInOrder
    <3>2. InOrder(task[v].left, InDatabase')
      BY <1>13, <3>1, InOrderStays
    <3> QED  BY <2>2, <3>1, <3>2, <1>11
  <2> QED  BY <2>1, <2>2
<1>15. e \notin raced =>
         /\ task[w].sources = Members(given[e]) \cup {s}
         /\ \A v \in Writers : Merging(v, e) => v = w
  <2>1. Merging(w, e)
    BY <1>3, <1>4, <1>7 DEF Merging
  <2> QED  BY <2>1, <1>3, <1>4 DEF Neo4jInv, OneMerges, DatabaseIsSum
<1>16. DatabaseIsSum'
  <2>1. ASSUME NEW d \in Entries
        PROVE  /\ database'[d].count = Len(given'[d])
               /\ database'[d].observations = Recent(given'[d])
               /\ d \notin raced => database'[d].sources = Members(given'[d])
    <3>1. CASE d = e
      <4>1. database'[d] = p /\ given'[d] = h
        BY <3>1, <1>11
      <4>2. e \notin raced => p.sources = Members(h)
        BY <1>8, <1>9, <1>15
      <4> QED  BY <3>1, <4>1, <4>2, <1>9
    <3>2. CASE d # e
      BY <3>2, <1>11 DEF Neo4jInv, DatabaseIsSum
    <3> QED  BY <3>1, <3>2
  <2>2. \A d \in InDatabase' : Ends(d) \subseteq InDatabase'
    BY <1>5, <1>13 DEF Neo4jInv, DatabaseIsSum
  <2>3. raced' = raced
    BY <1>7
  <2> QED  BY <2>1, <2>2, <2>3 DEF DatabaseIsSum
<1>17. OneMerges'
  <2> SUFFICES ASSUME NEW d \in Entries \ raced', NEW v \in Writers, Merging(v, d)'
               PROVE  /\ task'[v].sources = database'[d].sources \cup {Upserting(v)'.sighting}
                      /\ \A x \in Writers : Merging(x, d)' => x = v
    BY DEF OneMerges
  <2>1. \A x \in Writers : Merging(x, d)' => x # w /\ Merging(x, d) /\ task'[x] = task[x]
    BY <1>10, <1>11 DEF Merging, Upserting
  <2>2. d \in Entries \ raced
    BY <1>7
  <2>3. d # e
    BY <1>15, <2>1, <2>2
  <2>4. Upserting(v)' = Upserting(v)
    BY <2>1 DEF Upserting
  <2>5. /\ task[v].sources = database[d].sources \cup {Upserting(v).sighting}
        /\ \A x \in Writers : Merging(x, d) => x = v
    BY <2>1, <2>2 DEF Neo4jInv, OneMerges
  <2>6. database'[d] = database[d]
    BY <1>11, <2>2, <2>3
  <2> QED  BY <2>1, <2>4, <2>5, <2>6
<1> QED  BY <1>12, <1>14, <1>16, <1>17 DEF Neo4jInv

(* Every step of a task keeps the invariant.                               *)
LEMMA Neo4jInductive == Neo4jAssumption /\ Neo4jInv /\ [Neo4jNext]_neo4jVars => Neo4jInv'
<1> SUFFICES ASSUME Neo4jAssumption, Neo4jInv, [Neo4jNext]_neo4jVars PROVE Neo4jInv'
  OBVIOUS
<1>1. CASE Neo4jNext
  <2>1. PICK w \in Writers :
          \/ \E s \in Sightings : Ingest(w, s)
          \/ ReadSources(w) \/ Merge(w) \/ StatementFails(w)
    BY <1>1 DEF Neo4jNext
  <2>2. ASSUME NEW s \in Sightings, Ingest(w, s) PROVE Neo4jInv'
    BY <2>2, IngestInv
  <2>3. CASE ReadSources(w)
    BY <2>3, ReadSourcesInv
  <2>4. CASE Merge(w)
    BY <2>4, MergeInv
  <2>5. CASE StatementFails(w)
    <3>1. task' = [task EXCEPT ![w] = NoTask] /\ UNCHANGED <<database, given, raced>>
      BY <2>5 DEF StatementFails
    <3> QED  BY <3>1, NoTaskIsTask, TaskChanged
  <2> QED  BY <2>1, <2>2, <2>3, <2>4, <2>5
<1>2. CASE UNCHANGED neo4jVars
  <2> USE <1>2 DEF neo4jVars
  <2>1. InDatabase' = InDatabase /\ \A w : Upserting(w)' = Upserting(w)
    BY DEF InDatabase, Upserting
  <2>2. \A w, e : Merging(w, e)' <=> Merging(w, e)
    BY <2>1 DEF Merging
  <2>3. Neo4jTypeOK'
    BY DEF Neo4jInv, Neo4jTypeOK
  <2>4. TasksInOrder'
    BY <2>1 DEF Neo4jInv, TasksInOrder
  <2>5. DatabaseIsSum'
    BY <2>1 DEF Neo4jInv, DatabaseIsSum
  <2>6. OneMerges'
    BY <2>1, <2>2 DEF Neo4jInv, OneMerges
  <2> QED  BY <2>3, <2>4, <2>5, <2>6 DEF Neo4jInv
<1> QED  BY <1>1, <1>2

(* Database and tasks of neo4j_backend.py keep their types.                 *)
THEOREM Neo4jIsTyped == Neo4jSpec => []Neo4jTypeOK
<1>1. Neo4jInv => Neo4jTypeOK
  BY DEF Neo4jInv
<1> QED  BY <1>1, Neo4jInitInv, Neo4jInductive, Neo4jAssumption, PTL DEF Neo4jSpec

(* However the statements of concurrent upserts interleave and fail, the    *)
(* database holds every one that returned, every edge with its ends, and    *)
(* of entries never merged by two tasks at once all the sources.            *)
THEOREM UpsertsAlwaysAddUp == Neo4jSpec => []UpsertsAddUp
<1>1. ASSUME Neo4jInv PROVE UpsertsAddUp
  <2>1. /\ database \in [Entries -> Properties] /\ given \in [Entries -> Seq(Sightings)]
        /\ DatabaseIsSum
    BY <1>1, Neo4jTypes DEF Neo4jInv
  <2>2. ASSUME NEW e \in Entries \ raced PROVE database[e] = Summary(given[e])
    <3>1. /\ database[e] \in Properties
          /\ database[e].count = Len(given[e])
          /\ database[e].observations = Recent(given[e])
          /\ database[e].sources = Members(given[e])
      BY <2>1 DEF DatabaseIsSum
    <3>2. database[e] = [count |-> database[e].count, sources |-> database[e].sources,
                         observations |-> database[e].observations]
      BY <3>1 DEF Properties
    <3> QED  BY <3>1, <3>2 DEF Summary, Members
  <2>3. ASSUME NEW e \in Entries PROVE e \in InDatabase <=> given[e] # << >>
    <3>1. database[e].count = Len(given[e]) /\ given[e] \in Seq(Sightings)
      BY <2>1 DEF DatabaseIsSum
    <3>2. Len(given[e]) \in Nat /\ (Len(given[e]) = 0 <=> given[e] = << >>)
      BY <3>1, LenProperties, EmptySeq
    <3> QED  BY <3>1, <3>2 DEF InDatabase
  <2> QED  BY <2>1, <2>2, <2>3 DEF UpsertsAddUp, DatabaseIsSum
<1> QED  BY <1>1, Neo4jInitInv, Neo4jInductive, Neo4jAssumption, PTL DEF Neo4jSpec

-----------------------------------------------------------------------------
(* What an edge is, and what _adjacency makes of it: a hop from a node leads*)
(* to one it is adjacent to, and one leads to each of those.                *)
Graphed(edges) == edges \subseteq LinkChoices

LEMMA HopsLeadToNeighbours ==
  ASSUME NEW edges, Graphed(edges), NEW n \in Nodes
  PROVE  /\ \A hop \in Adjacency(edges, n) :
              hop.from = n /\ hop.to \in Nodes /\ Adjacent(edges, n, hop.to)
         /\ \A m \in Nodes : Adjacent(edges, n, m) => \E hop \in Adjacency(edges, n) : hop.to = m
<1>1. \A link \in edges : link.src \in Nodes /\ link.dst \in Nodes
  BY QueriesAssumption DEF Graphed
<1>2. ASSUME NEW hop \in Adjacency(edges, n)
      PROVE  hop.from = n /\ hop.to \in Nodes /\ Adjacent(edges, n, hop.to)
  <2>1. CASE \E link \in edges : link.src = n /\ hop = Hop(link, n, link.dst)
    BY <1>1, <2>1 DEF Hop, Adjacent
  <2>2. CASE \E link \in edges : link.dst = n /\ hop = Hop(link, n, link.src)
    BY <1>1, <2>2 DEF Hop, Adjacent
  <2> QED  BY <2>1, <2>2 DEF Adjacency
<1>3. ASSUME NEW m \in Nodes, Adjacent(edges, n, m)
      PROVE  \E hop \in Adjacency(edges, n) : hop.to = m
  <2>1. PICK link \in edges : (link.src = n /\ link.dst = m) \/ (link.src = m /\ link.dst = n)
    BY <1>3 DEF Adjacent
  <2>2. CASE link.src = n /\ link.dst = m
    <3>1. Hop(link, n, link.dst) \in Adjacency(edges, n)
      BY <2>2 DEF Adjacency
    <3> QED  BY <2>2, <3>1 DEF Hop
  <2>3. CASE link.src = m /\ link.dst = n
    <3>1. Hop(link, n, link.src) \in Adjacency(edges, n)
      BY <2>3 DEF Adjacency
    <3> QED  BY <2>3, <3>1 DEF Hop
  <2> QED  BY <2>1, <2>2, <2>3
<1> QED  BY <1>2, <1>3

-----------------------------------------------------------------------------
(* Walks of one step more: the nodes within a radius, and those around them.*)
LEMMA WalkGrows ==
  ASSUME NEW edges, NEW n \in Nodes, NEW k \in Nat, NEW a, NEW w \in Walks(edges, n, a, k),
         NEW b \in Nodes, Adjacent(edges, a, b)
  PROVE  Walks(edges, n, b, k + 1) # {}
<1>1. PICK v : v = [i \in 0..(k + 1) |-> IF i = k + 1 THEN b ELSE w[i]]
  OBVIOUS
<1>2. w \in [0..k -> Nodes] /\ w[0] = n /\ w[k] = a
  BY DEF Walks
<1>3. v \in [0..(k + 1) -> Nodes] /\ v[0] = n /\ v[k + 1] = b /\ v[k] = a
  BY <1>1, <1>2
<1>4. ASSUME NEW i \in 1..(k + 1) PROVE Adjacent(edges, v[i - 1], v[i])
  <2>1. CASE i = k + 1
    BY <1>3, <2>1
  <2>2. CASE i # k + 1
    <3>1. i \in 1..k /\ v[i] = w[i] /\ v[i - 1] = w[i - 1]
      BY <1>1, <2>2
    <3> QED  BY <3>1 DEF Walks
  <2> QED  BY <2>1, <2>2
<1>5. v \in Walks(edges, n, b, k + 1)
  BY <1>3, <1>4 DEF Walks
<1> QED  BY <1>5

LEMMA WalkShrinks ==
  ASSUME NEW edges, NEW n \in Nodes, NEW k \in Nat, NEW b, NEW w \in Walks(edges, n, b, k + 1)
  PROVE  w[k] \in Nodes /\ Adjacent(edges, w[k], b) /\ Walks(edges, n, w[k], k) # {}
<1>1. /\ w \in [0..(k + 1) -> Nodes] /\ w[0] = n /\ w[k + 1] = b
      /\ \A i \in 1..(k + 1) : Adjacent(edges, w[i - 1], w[i])
  BY DEF Walks
<1>2. PICK v : v = [i \in 0..k |-> w[i]]
  OBVIOUS
<1>3. v \in [0..k -> Nodes] /\ v[0] = n /\ v[k] = w[k]
  BY <1>1, <1>2
<1>4. \A i \in 1..k : Adjacent(edges, v[i - 1], v[i])
  BY <1>1, <1>2
<1>5. v \in Walks(edges, n, w[k], k)
  BY <1>3, <1>4 DEF Walks
<1>6. Adjacent(edges, w[k], b)
  BY <1>1
<1> QED  BY <1>1, <1>5, <1>6

LEMMA BallZero ==
  ASSUME NEW edges, NEW n \in Nodes
  PROVE  Ball(edges, n, 0) = {n}
<1>1. PICK w : w = [i \in 0..0 |-> n]
  OBVIOUS
<1>2. w \in Walks(edges, n, n, 0)
  BY <1>1 DEF Walks
<1>3. \A b \in Nodes : \A i \in 0..0 : Walks(edges, n, b, i) # {} => b = n
  BY DEF Walks
<1> QED  BY <1>2, <1>3 DEF Ball

LEMMA BallMonotone ==
  ASSUME NEW edges, NEW n, NEW i \in Nat, NEW j \in Nat, i <= j
  PROVE  Ball(edges, n, i) \subseteq Ball(edges, n, j)
BY DEF Ball

LEMMA BallGrows ==
  ASSUME NEW edges, NEW n \in Nodes, NEW k \in Nat
  PROVE  Ball(edges, n, k + 1) =
           Ball(edges, n, k) \cup {b \in Nodes : \E a \in Ball(edges, n, k) : Adjacent(edges, a, b)}
<1>1. ASSUME NEW b \in Ball(edges, n, k + 1)
      PROVE  b \in Ball(edges, n, k) \/ \E a \in Ball(edges, n, k) : Adjacent(edges, a, b)
  <2>1. PICK i \in 0..(k + 1) : Walks(edges, n, b, i) # {}
    BY DEF Ball
  <2>2. CASE i \in 0..k
    BY <2>1, <2>2 DEF Ball
  <2>3. CASE i = k + 1
    <3>1. PICK w : w \in Walks(edges, n, b, k + 1)
      BY <2>1, <2>3
    <3>2. w[k] \in Nodes /\ Adjacent(edges, w[k], b) /\ Walks(edges, n, w[k], k) # {}
      BY <3>1, WalkShrinks
    <3> QED  BY <3>2 DEF Ball
  <2> QED  BY <2>1, <2>2, <2>3
<1>2. ASSUME NEW b \in Nodes, NEW a \in Ball(edges, n, k), Adjacent(edges, a, b)
      PROVE  b \in Ball(edges, n, k + 1)
  <2>1. PICK i \in 0..k : Walks(edges, n, a, i) # {}
    BY DEF Ball
  <2>2. PICK w : w \in Walks(edges, n, a, i)
    BY <2>1
  <2>3. Walks(edges, n, b, i + 1) # {}
    BY <1>2, <2>2, WalkGrows
  <2>4. i + 1 \in 0..(k + 1)
    OBVIOUS
  <2> QED  BY <2>3, <2>4 DEF Ball
<1>3. Ball(edges, n, k) \subseteq Ball(edges, n, k + 1)
  BY BallMonotone
<1>4. Ball(edges, n, k + 1) \subseteq Nodes
  BY DEF Ball
<1> QED  BY <1>1, <1>2, <1>3, <1>4

(* A graph that grows brings nodes nearer, never further.                   *)
LEMMA BallOfMore ==
  ASSUME NEW edges, NEW more, edges \subseteq more, NEW n, NEW k
  PROVE  Ball(edges, n, k) \subseteq Ball(more, n, k)
<1>1. \A a, b : Adjacent(edges, a, b) => Adjacent(more, a, b)
  BY DEF Adjacent
<1>2. \A b, i : Walks(edges, n, b, i) \subseteq Walks(more, n, b, i)
  BY <1>1 DEF Walks
<1> QED  BY <1>2 DEF Ball

-----------------------------------------------------------------------------
(* A set of natural numbers has a least one.                                *)
LEMMA LeastNumber ==
  ASSUME NEW T \in SUBSET Nat, T # {}
  PROVE  \E m \in T : \A n \in T : m <= n
<1> DEFINE R == OpToRel(<, Nat)
<1>1. \A m, n \in Nat : m < n => <<m, n>> \in R
  BY DEF OpToRel
<1>2. IsWellFoundedOn(R, Nat)
  BY NatLessThanWellFounded DEF OpToRel, IsWellFoundedOn
<1> HIDE DEF R
<1>3. PICK m \in T : \A n \in T : ~ (<<n, m>> \in R)
  BY <1>2, WFMin
<1>4. \A n \in T : ~ (n < m)
  BY <1>1, <1>3
<1> QED  BY <1>3, <1>4

-----------------------------------------------------------------------------
(* The inductive invariant.  A search in breadth: an entry of the queue is  *)
(* as many hops from the start as its path has, and no fewer.               *)
Hops(edges) == UNION {Adjacency(edges, n) : n \in Nodes}
QueueEntries(edges) == [node : Nodes, path : Seq(Hops(edges))]

Nearest(edges, n, e) ==
  /\ e.node \in Ball(edges, n, Len(e.path))
  /\ \A j \in 0..(Len(e.path) - 1) : e.node \notin Ball(edges, n, j)
Chain(edges, n, e) ==
  Len(e.path) > 0 =>
    /\ e.path[1].from = n /\ e.path[Len(e.path)].to = e.node
    /\ \A i \in 1..Len(e.path) : e.path[i] \in Adjacency(edges, e.path[i].from)
    /\ \A i \in 2..Len(e.path) : e.path[i].from = e.path[i - 1].to
Reaches(edges, n, e) == e \in QueueEntries(edges) /\ Nearest(edges, n, e) /\ Chain(edges, n, e)

(* What is queued is of two levels at most, in order, and the nodes of the  *)
(* level before are all visited.                                            *)
QueueLevels(m) ==
  /\ Ball(links, asked.from, m) \subseteq visited
  /\ \A i \in 1..Len(queue) : Len(queue[i].path) \in {m, m + 1}
  /\ \A i, j \in 1..Len(queue) : i <= j => Len(queue[i].path) <= Len(queue[j].path)
  /\ hopsLeft # {} => Len(current.path) = m

(* A node that is visited is queued, too far away, or its neighbours are    *)
(* visited but for those that are still to come.                            *)
Queued(v) == \E i \in 1..Len(queue) : queue[i].node = v
Closed ==
  \A v \in visited :
    \/ Queued(v)
    \/ v \notin Ball(links, asked.from, asked.depth - 1)
    \/ \A hop \in Adjacency(links, v) : hop.to \in visited \/ (v = current.node /\ hop \in hopsLeft)

TargetsAhead ==
  \/ asked.kind = "path" /\ \A v \in visited \cap asked.targets : Queued(v)
  \/ asked.kind = "bad" /\ visited \cap asked.targets = {}

InMemory ==
  asked \in [backend : {"memory"}, kind : {"path", "bad", "around", "case"}, from : Nodes \cup {"none"},
             targets : SUBSET Nodes, depth : Nat \ {0}, limit : Nat \ {0}]

InBreadth ==
  /\ InMemory /\ asked.kind \in {"path", "bad"} /\ asked.from \in Nodes
  /\ visited \subseteq Nodes
  /\ queue \in Seq(QueueEntries(links))
  /\ \A i \in 1..Len(queue) : Reaches(links, asked.from, queue[i]) /\ Len(queue[i].path) <= asked.depth
  /\ hopsLeft # {} => /\ Reaches(links, asked.from, current) /\ Len(current.path) < asked.depth
                      /\ hopsLeft \subseteq Adjacency(links, current.node)
  /\ \E m \in 0..asked.depth : QueueLevels(m)
  /\ Closed /\ TargetsAhead

(* A neighbourhood: what was seen is near enough; unless the limit is       *)
(* reached, nothing near is missing.                                        *)
Near(k) == Ball(links, asked.from, k)
NothingMissing ==
  /\ shown = collected
  /\ Near(rounds) \subseteq visited \cup frontier
  /\ \A v \in visited : \A hop \in Adjacency(links, v) :
       \/ v = current.node /\ hop \in hopsLeft
       \/ Known(hop) /\ hop.to \in visited \cup frontier \cup nextFrontier

OncePerKey(hops) == \A g, h \in hops : EdgeKey(g) = EdgeKey(h) => g = h
OncePerEdge(hops) == \A g, h \in hops : g.link = h.link => g = h

Expanded ==
    /\ InMemory /\ asked.kind \in {"around", "case"} /\ asked.from \in Nodes
    /\ rounds \in 0..(asked.depth - 1)
    /\ visited \subseteq Near(rounds) /\ frontier \subseteq Near(rounds)
    /\ nextFrontier \subseteq Near(rounds + 1)
    /\ IsFiniteSet(collected) /\ shown \subseteq collected
    /\ collected \subseteq UNION {Adjacency(links, n) : n \in visited}
    /\ OncePerKey(collected) /\ latest \subseteq shown /\ OncePerEdge(latest)
    /\ hopsLeft # {} => current.node \in visited /\ hopsLeft \subseteq Adjacency(links, current.node)
    /\ ~LimitReached => NothingMissing
    /\ LimitReached => Cardinality(shown) = asked.limit

(* The graph of a case, of the entities gone through so far.                *)
CaseStages == stage = "between" \/ (stage = "expanding" /\ asked.kind = "case")
CaseKept ==
    /\ InMemory /\ asked.kind = "case"
    /\ entitiesLeft \in Seq(Nodes) /\ ToSet(entitiesLeft) \subseteq asked.targets
    /\ asked.targets \subseteq
         merged.nodes \cup ToSet(entitiesLeft) \cup (IF stage = "expanding" THEN {asked.from} ELSE {})
    /\ stage = "expanding" => asked.from \in asked.targets
    /\ \A m \in merged.nodes : \E n \in asked.targets : m \in Ball(links, n, asked.depth)
    /\ \A hop \in merged.edges : hop \in Adjacency(links, hop.from)
    /\ OncePerEdge(merged.edges)
    /\ ~merged.cut => \A hop \in merged.edges : hop.from \in merged.nodes /\ hop.to \in merged.nodes

QueriesInv ==
  /\ Graphed(links)
  /\ stage \in {"idle", "searching", "expanding", "between", "answered"}
  /\ stage \in {"idle", "between"} => hopsLeft = {}
  /\ stage = "searching" => InBreadth
  /\ stage = "expanding" => Expanded
  /\ CaseStages => CaseKept
  /\ SearchesAreExact

-----------------------------------------------------------------------------
(* Of a search in breadth: where an entry of its queue ends is within a     *)
(* radius exactly when its path is not longer.                              *)
LEMMA ReachedExactly ==
  ASSUME NEW edges, NEW n \in Nodes, NEW e, Reaches(edges, n, e)
  PROVE  /\ e.node \in Nodes /\ e.path \in Seq(Hops(edges)) /\ Len(e.path) \in Nat
         /\ \A j \in Nat : e.node \in Ball(edges, n, j) <=> Len(e.path) <= j
<1>1. e.node \in Nodes /\ e.path \in Seq(Hops(edges)) /\ Len(e.path) \in Nat
  BY DEF Reaches, QueueEntries
<1>2. /\ e.node \in Ball(edges, n, Len(e.path))
      /\ \A j \in 0..(Len(e.path) - 1) : e.node \notin Ball(edges, n, j)
  BY DEF Reaches, Nearest
<1>3. ASSUME NEW j \in Nat
      PROVE  e.node \in Ball(edges, n, j) <=> Len(e.path) <= j
  <2>1. CASE Len(e.path) <= j
    BY <1>1, <1>2, <2>1, BallMonotone
  <2>2. CASE ~ Len(e.path) <= j
    <3>1. j \in 0..(Len(e.path) - 1)
      BY <1>1, <2>2
    <3> QED  BY <1>2, <2>2, <3>1
  <2> QED  BY <2>1, <2>2
<1> QED  BY <1>1, <1>3

(* A search begins at its start, and goes on over a hop to a node that is   *)
(* not as near.                                                             *)
LEMMA ReachesItself ==
  ASSUME NEW edges, NEW n \in Nodes
  PROVE  Reaches(edges, n, Entry(n, << >>))
<1>1. Entry(n, << >>) \in QueueEntries(edges)
  BY DEF Entry, QueueEntries
<1>2. Nearest(edges, n, Entry(n, << >>))
  BY BallZero DEF Entry, Nearest
<1>3. Chain(edges, n, Entry(n, << >>))
  BY DEF Entry, Chain
<1> QED  BY <1>1, <1>2, <1>3 DEF Reaches

LEMMA ReachesFurther ==
  ASSUME NEW edges, Graphed(edges), NEW n \in Nodes, NEW e, Reaches(edges, n, e),
         NEW hop \in Adjacency(edges, e.node), hop.to \notin Ball(edges, n, Len(e.path))
  PROVE  Reaches(edges, n, Entry(hop.to, Append(e.path, hop)))
<1> DEFINE further == Entry(hop.to, Append(e.path, hop))
           l == Len(e.path)
           path == Append(e.path, hop)
<1>1. /\ e.node \in Nodes /\ e.path \in Seq(Hops(edges)) /\ l \in Nat
      /\ \A j \in Nat : e.node \in Ball(edges, n, j) <=> l <= j
  BY ReachedExactly
<1>2. hop.from = e.node /\ hop.to \in Nodes /\ Adjacent(edges, e.node, hop.to)
  BY <1>1, HopsLeadToNeighbours
<1>3. hop \in Hops(edges)
  BY <1>1 DEF Hops
<1>4. /\ path \in Seq(Hops(edges)) /\ Len(path) = l + 1 /\ path[l + 1] = hop
      /\ \A i \in 1..l : path[i] = e.path[i]
  BY <1>1, <1>3
<1>5. further.node = hop.to /\ further.path = path
  BY DEF Entry
<1>6. further \in QueueEntries(edges)
  BY <1>2, <1>4 DEF Entry, QueueEntries
<1> HIDE DEF further, l, path
<1>7. hop.to \in Ball(edges, n, l + 1)
  <2>1. e.node \in Ball(edges, n, l)
    BY <1>1
  <2> QED  BY <1>1, <1>2, <2>1, BallGrows
<1>8. ASSUME NEW j \in 0..l PROVE hop.to \notin Ball(edges, n, j)
  <2>1. Ball(edges, n, j) \subseteq Ball(edges, n, l)
    BY <1>1, BallMonotone
  <2> QED  BY <2>1 DEF l
<1>9. Nearest(edges, n, further)
  BY <1>1, <1>4, <1>5, <1>7, <1>8 DEF Nearest
<1>10. Chain(edges, n, further)
  <2>1. Chain(edges, n, e)
    BY DEF Reaches
  <2>2. l > 0 => /\ e.path[1].from = n /\ e.path[l].to = e.node
                 /\ \A i \in 1..l : e.path[i] \in Adjacency(edges, e.path[i].from)
                 /\ \A i \in 2..l : e.path[i].from = e.path[i - 1].to
    BY <2>1 DEF Chain, l
  <2>3. l = 0 => e.node = n
    BY <1>1, BallZero
  <2>4. path[1].from = n
    <3>1. CASE l = 0
      BY <1>2, <1>4, <2>3, <3>1
    <3>2. CASE l > 0
      BY <1>1, <1>4, <2>2, <3>2
    <3> QED  BY <1>1, <3>1, <3>2
  <2>5. ASSUME NEW i \in 1..(l + 1) PROVE path[i] \in Adjacency(edges, path[i].from)
    <3>1. CASE i = l + 1
      BY <1>2, <1>4, <3>1
    <3>2. CASE i # l + 1
      <4>1. i \in 1..l /\ l > 0
        BY <1>1, <3>2
      <4> QED  BY <1>4, <2>2, <4>1
    <3> QED  BY <3>1, <3>2
  <2>6. ASSUME NEW i \in 2..(l + 1) PROVE path[i].from = path[i - 1].to
    <3>1. CASE i = l + 1
      <4>1. l > 0 /\ i - 1 = l /\ l \in 1..l
        BY <1>1, <3>1
      <4> QED  BY <1>2, <1>4, <2>2, <3>1, <4>1
    <3>2. CASE i # l + 1
      <4>1. i \in 2..l /\ i \in 1..l /\ i - 1 \in 1..l /\ l > 0
        BY <1>1, <3>2
      <4> QED  BY <1>4, <2>2, <4>1
    <3> QED  BY <3>1, <3>2
  <2> QED  BY <1>2, <1>4, <1>5, <2>4, <2>5, <2>6 DEF Chain
<1> QED  BY <1>6, <1>9, <1>10 DEF Reaches, further, path

-----------------------------------------------------------------------------
(* The next entry of the queue: everything nearer is visited, and what is   *)
(* queued is at most a level further.                                       *)
LEMMA NextOfQueue ==
  ASSUME Graphed(links), InBreadth, hopsLeft = {}, queue # << >>
  PROVE  /\ Head(queue) = queue[1] /\ 1 \in 1..Len(queue) /\ Len(queue) \in Nat
         /\ Reaches(links, asked.from, Head(queue))
         /\ Len(Head(queue).path) \in 0..asked.depth /\ QueueLevels(Len(Head(queue).path))
<1> DEFINE l == Len(queue[1].path)
           near(k) == Ball(links, asked.from, k)
<1>1. /\ asked.from \in Nodes /\ asked.depth \in Nat /\ queue \in Seq(QueueEntries(links))
      /\ \A i \in 1..Len(queue) : Reaches(links, asked.from, queue[i]) /\ Len(queue[i].path) <= asked.depth
  BY DEF InBreadth, InMemory
<1>2. Head(queue) = queue[1] /\ 1 \in 1..Len(queue) /\ Len(queue) \in Nat
  BY <1>1
<1>3. PICK m \in 0..asked.depth : QueueLevels(m)
  BY DEF InBreadth
<1>4. /\ near(m) \subseteq visited
      /\ \A i \in 1..Len(queue) : Len(queue[i].path) \in {m, m + 1}
      /\ \A i, j \in 1..Len(queue) : i <= j => Len(queue[i].path) <= Len(queue[j].path)
  BY <1>3 DEF QueueLevels
<1>5. \A i \in 1..Len(queue) : /\ queue[i].node \in Nodes /\ Len(queue[i].path) \in Nat
                               /\ \A j \in Nat : queue[i].node \in near(j) <=> Len(queue[i].path) <= j
  BY <1>1, ReachedExactly
<1>6. l \in 0..asked.depth
  BY <1>1, <1>2, <1>5
<1>7. \A i \in 1..Len(queue) : l <= Len(queue[i].path)
  <2>1. ASSUME NEW i \in 1..Len(queue) PROVE l <= Len(queue[i].path)
    <3>1. 1 <= i
      OBVIOUS
    <3> QED  BY <1>2, <1>4, <3>1
  <2> QED  BY <2>1
<1> HIDE DEF l, near
<1>8. CASE l = m
  BY <1>1, <1>2, <1>3, <1>6, <1>8 DEF l
<1>9. CASE l = m + 1
  <2>1. \A i \in 1..Len(queue) : Len(queue[i].path) = m + 1
    BY <1>3, <1>4, <1>5, <1>7, <1>9
  <2>2. m \in Nat /\ m + 1 \in 0..asked.depth /\ asked.depth - 1 \in Nat /\ m <= asked.depth - 1
    BY <1>1, <1>3, <1>6, <1>9
  <2>3. near(m) \subseteq near(asked.depth - 1)
    BY <2>2, BallMonotone DEF near
  <2>4. ASSUME NEW v \in near(m)
        PROVE  \A hop \in Adjacency(links, v) : hop.to \in visited
    <3>1. ~ Queued(v)
      <4>1. \A i \in 1..Len(queue) : queue[i].node \notin near(m)
        BY <1>5, <2>1, <2>2
      <4> QED  BY <2>4, <4>1 DEF Queued
    <3>2. v \in visited /\ v \in Ball(links, asked.from, asked.depth - 1)
      BY <1>4, <2>3, <2>4 DEF near
    <3>3. Closed
      BY DEF InBreadth
    <3> QED  BY <3>1, <3>2, <3>3 DEF Closed
  <2>5. near(m + 1) \subseteq visited
    <3>1. ASSUME NEW b \in near(m + 1) PROVE b \in visited
      <4>1. b \in near(m) \/ (b \in Nodes /\ \E a \in near(m) : Adjacent(links, a, b))
        BY <1>1, <2>2, <3>1, BallGrows DEF near
      <4>2. CASE b \in Nodes /\ \E a \in near(m) : Adjacent(links, a, b)
        <5>1. PICK a \in near(m) : Adjacent(links, a, b)
          BY <4>2
        <5>2. a \in Nodes
          BY DEF near, Ball
        <5>3. PICK hop \in Adjacency(links, a) : hop.to = b
          BY <4>2, <5>1, <5>2, HopsLeadToNeighbours
        <5> QED  BY <2>4, <5>3
      <4> QED  BY <1>4, <4>1, <4>2
    <3> QED  BY <3>1
  <2>6. QueueLevels(l)
    BY <1>4, <1>9, <2>1, <2>5 DEF QueueLevels, near
  <2> QED  BY <1>1, <1>2, <1>6, <2>6 DEF l
<1>10. l \in {m, m + 1}
  BY <1>2, <1>4 DEF l
<1> QED  BY <1>8, <1>9, <1>10

(* When the queue is exhausted, all that is near enough is visited.         *)
LEMMA AllFound ==
  ASSUME Graphed(links), InBreadth, hopsLeft = {}, queue = << >>
  PROVE  Ball(links, asked.from, asked.depth) \subseteq visited
<1> DEFINE near(k) == Ball(links, asked.from, k)
           beyond == {k \in Nat : k <= asked.depth /\ ~ near(k) \subseteq visited}
<1>1. asked.from \in Nodes /\ asked.depth \in Nat
  BY DEF InBreadth, InMemory
<1>2. PICK m \in 0..asked.depth : near(m) \subseteq visited
  BY DEF InBreadth, QueueLevels
<1>3. near(0) \subseteq visited
  <2>1. near(0) \subseteq near(m)
    BY <1>1, <1>2, BallMonotone
  <2> QED  BY <1>2, <2>1
<1>4. ASSUME beyond # {} PROVE FALSE
  <2>1. PICK k \in beyond : \A j \in beyond : k <= j
    <3> HIDE DEF near
    <3>1. beyond \in SUBSET Nat
      OBVIOUS
    <3> HIDE DEF beyond
    <3> QED  BY <1>4, <3>1, LeastNumber
  <2>2. k \in Nat /\ k <= asked.depth /\ ~ near(k) \subseteq visited
    OBVIOUS
  <2> HIDE DEF near
  <2>3. k # 0
    BY <1>3, <2>2
  <2>4. k - 1 \in Nat /\ k - 1 <= asked.depth /\ ~ k <= k - 1
    BY <1>1, <2>2, <2>3
  <2>5. near(k - 1) \subseteq visited
    BY <2>1, <2>4
  <2>6. near(k - 1) \subseteq near(asked.depth - 1)
    <3>1. asked.depth - 1 \in Nat /\ k - 1 <= asked.depth - 1
      BY <1>1, <2>2, <2>3
    <3> QED  BY <1>1, <2>4, <3>1, BallMonotone DEF near
  <2>7. ASSUME NEW a \in near(k - 1), NEW hop \in Adjacency(links, a) PROVE hop.to \in visited
    <3>1. ~ Queued(a)
      BY DEF Queued
    <3>2. a \in visited /\ a \in Ball(links, asked.from, asked.depth - 1)
      BY <2>5, <2>6, <2>7 DEF near
    <3>3. Closed
      BY DEF InBreadth
    <3> QED  BY <3>1, <3>2, <3>3 DEF Closed
  <2>8. ASSUME NEW b \in near(k) PROVE b \in visited
    <3>1. near(k) = near(k - 1) \cup {c \in Nodes : \E a \in near(k - 1) : Adjacent(links, a, c)}
      <4> DEFINE i == k - 1
      <4>1. i \in Nat /\ i + 1 = k
        BY <2>2, <2>4
      <4> HIDE DEF i
      <4>2. near(i + 1) = near(i) \cup {c \in Nodes : \E a \in near(i) : Adjacent(links, a, c)}
        BY <1>1, <4>1, BallGrows DEF near
      <4> QED  BY <4>1, <4>2 DEF i
    <3>2. CASE b \in Nodes /\ \E a \in near(k - 1) : Adjacent(links, a, b)
      <4>1. PICK a \in near(k - 1) : Adjacent(links, a, b)
        BY <3>2
      <4>2. a \in Nodes
        BY DEF near, Ball
      <4>3. PICK hop \in Adjacency(links, a) : hop.to = b
        BY <3>2, <4>1, <4>2, HopsLeadToNeighbours
      <4> QED  BY <2>7, <4>3
    <3> QED  BY <2>5, <2>8, <3>1, <3>2
  <2> QED  BY <2>2, <2>8
<1> QED  BY <1>1, <1>4

-----------------------------------------------------------------------------
(* The steps of a search: it begins, takes the next of its queue, and       *)
(* visits a node over a hop.                                                *)
LEMMA SearchBegins ==
  ASSUME Graphed(links), links' = links, InMemory', asked'.kind \in {"path", "bad"},
         NEW n \in Nodes, asked'.from = n,
         asked'.kind = "bad" => n \notin asked'.targets,
         queue' = <<Entry(n, << >>)>>, visited' = {n}, hopsLeft' = {}
  PROVE  InBreadth'
<1> DEFINE start == Entry(n, << >>)
<1>1. start.node = n /\ start.path = << >> /\ Len(start.path) = 0
  BY DEF Entry
<1>2. Reaches(links', asked'.from, start) /\ start \in QueueEntries(links')
  BY ReachesItself DEF Reaches
<1> HIDE DEF start
<1>3. queue' = <<start>>
  BY DEF start
<1>4. queue' \in Seq(QueueEntries(links')) /\ Len(queue') = 1 /\ queue'[1] = start
  BY <1>2, <1>3
<1>5. \A i \in 1..Len(queue') : i = 1
  BY <1>4
<1>6. asked'.depth \in Nat \ {0}
  BY DEF InMemory
<1>7. \A i \in 1..Len(queue') : Reaches(links', asked'.from, queue'[i]) /\ Len(queue'[i].path) <= asked'.depth
  BY <1>1, <1>2, <1>4, <1>5, <1>6
<1>8. QueueLevels(0)'
  <2>1. Ball(links', asked'.from, 0) \subseteq visited'
    BY BallZero
  <2>2. \A i \in 1..Len(queue') : Len(queue'[i].path) = 0
    BY <1>1, <1>4, <1>5
  <2> QED  BY <2>1, <2>2 DEF QueueLevels
<1>9. 0 \in 0..asked'.depth
  BY <1>6
<1>10. Queued(n)'
  BY <1>1, <1>4 DEF Queued
<1>11. Closed' /\ TargetsAhead'
  BY <1>10 DEF Closed, TargetsAhead
<1> QED  BY <1>4, <1>7, <1>8, <1>9, <1>11 DEF InBreadth

LEMMA NextOfQueueKeeps ==
  ASSUME Graphed(links), InBreadth, hopsLeft = {}, queue # << >>,
         links' = links, asked' = asked, visited' = visited, queue' = Tail(queue), Explore(Head(queue)),
         asked.kind = "path" => Head(queue).node \notin asked.targets
  PROVE  InBreadth'
<1> DEFINE head == Head(queue)
<1>0. PICK l : l = Len(head.path)
  OBVIOUS
<1>1. /\ head = queue[1] /\ 1 \in 1..Len(queue) /\ Len(queue) \in Nat
      /\ Reaches(links, asked.from, head) /\ l \in 0..asked.depth /\ QueueLevels(l)
  BY <1>0, NextOfQueue
<1>2. /\ InMemory /\ asked.kind \in {"path", "bad"} /\ asked.from \in Nodes /\ visited \subseteq Nodes
      /\ queue \in Seq(QueueEntries(links)) /\ Closed /\ TargetsAhead
      /\ \A i \in 1..Len(queue) : Reaches(links, asked.from, queue[i]) /\ Len(queue[i].path) <= asked.depth
  BY DEF InBreadth
<1>3. asked.depth \in Nat
  BY <1>2 DEF InMemory
<1>4. head.node \in Nodes /\ \A j \in Nat : head.node \in Ball(links, asked.from, j) <=> l <= j
  BY <1>0, <1>1, <1>2, ReachedExactly
<1> HIDE DEF head
<1>5. /\ queue' \in Seq(QueueEntries(links)) /\ Len(queue') = Len(queue) - 1
      /\ \A i \in 1..Len(queue') : queue'[i] = queue[i + 1] /\ i + 1 \in 1..Len(queue)
  BY <1>1, <1>2
<1>6. \A v : Queued(v) => Queued(v)' \/ v = head.node
  <2>1. ASSUME NEW v, NEW i \in 1..Len(queue), queue[i].node = v, i # 1 PROVE Queued(v)'
    <3>1. i - 1 \in 1..Len(queue') /\ queue'[i - 1] = queue[i]
      BY <1>1, <1>5, <2>1
    <3> QED  BY <2>1, <3>1 DEF Queued
  <2> QED  BY <1>1, <2>1 DEF Queued
<1>7. \/ l >= asked.depth /\ current' = current /\ hopsLeft' = {}
      \/ ~ l >= asked.depth /\ current' = head /\ hopsLeft' = Adjacency(links, head.node)
  BY <1>0 DEF Explore, head
<1>8. hopsLeft' # {} => /\ Reaches(links, asked.from, current') /\ Len(current'.path) < asked.depth
                        /\ hopsLeft' \subseteq Adjacency(links, current'.node)
  BY <1>0, <1>1, <1>3, <1>7
<1>9. QueueLevels(l)'
  <2>1. /\ Ball(links, asked.from, l) \subseteq visited
        /\ \A i \in 1..Len(queue) : Len(queue[i].path) \in {l, l + 1}
        /\ \A i, j \in 1..Len(queue) : i <= j => Len(queue[i].path) <= Len(queue[j].path)
    BY <1>1 DEF QueueLevels
  <2>2. \A i \in 1..Len(queue') : Len(queue'[i].path) \in {l, l + 1}
    BY <1>5, <2>1
  <2>3. ASSUME NEW i \in 1..Len(queue'), NEW j \in 1..Len(queue'), i <= j
        PROVE  Len(queue'[i].path) <= Len(queue'[j].path)
    <3>1. i + 1 \in 1..Len(queue) /\ j + 1 \in 1..Len(queue) /\ i + 1 <= j + 1
      BY <1>5, <2>3
    <3> QED  BY <1>5, <2>1, <3>1
  <2>4. hopsLeft' # {} => Len(current'.path) = l
    BY <1>0, <1>7
  <2> QED  BY <2>1, <2>2, <2>3, <2>4 DEF QueueLevels
<1>10. Closed'
  <2>1. ASSUME NEW v \in visited
        PROVE  \/ Queued(v)' \/ v \notin Ball(links, asked.from, asked.depth - 1)
               \/ \A hop \in Adjacency(links, v) : hop.to \in visited \/ (v = current'.node /\ hop \in hopsLeft')
    <3>1. CASE v = head.node
      <4>1. CASE l >= asked.depth
        <5>1. asked.depth - 1 \in Nat /\ ~ l <= asked.depth - 1
          BY <1>1, <1>2, <1>3, <4>1 DEF InMemory
        <5> QED  BY <1>4, <3>1, <5>1
      <4>2. CASE ~ l >= asked.depth
        BY <1>7, <3>1, <4>2
      <4> QED  BY <4>1, <4>2
    <3>2. CASE v # head.node
      BY <1>2, <1>6, <3>2 DEF Closed
    <3> QED  BY <3>1, <3>2
  <2> QED  BY <2>1 DEF Closed
<1>11. TargetsAhead'
  BY <1>2, <1>6 DEF TargetsAhead, head
<1>12. \A i \in 1..Len(queue') : Reaches(links, asked.from, queue'[i]) /\ Len(queue'[i].path) <= asked.depth
  BY <1>2, <1>5
<1>13. InMemory'
  BY <1>2 DEF InMemory
<1> QED  BY <1>1, <1>2, <1>5, <1>8, <1>9, <1>10, <1>11, <1>12, <1>13 DEF InBreadth

LEMMA VisitKeeps ==
  ASSUME Graphed(links), InBreadth, NEW hop \in hopsLeft, Visit(hop),
         links' = links, asked' = asked, current' = current,
         asked.kind = "bad" => hop.to \notin asked.targets
  PROVE  InBreadth'
<1> DEFINE l == Len(current.path)
           further == Entry(hop.to, Append(current.path, hop))
<1>1. /\ InMemory /\ asked.kind \in {"path", "bad"} /\ asked.from \in Nodes /\ visited \subseteq Nodes
      /\ queue \in Seq(QueueEntries(links)) /\ Closed /\ TargetsAhead
      /\ \A i \in 1..Len(queue) : Reaches(links, asked.from, queue[i]) /\ Len(queue[i].path) <= asked.depth
      /\ Reaches(links, asked.from, current) /\ l < asked.depth
      /\ hopsLeft \subseteq Adjacency(links, current.node)
  BY DEF InBreadth
<1>2. asked.depth \in Nat /\ l \in Nat /\ current.node \in Nodes /\ current.path \in Seq(Hops(links))
  BY <1>1, ReachedExactly DEF InMemory
<1>3. hop \in Adjacency(links, current.node) /\ hop.to \in Nodes
  BY <1>1, <1>2, HopsLeadToNeighbours
<1>4. PICK m \in 0..asked.depth : QueueLevels(m)
  BY DEF InBreadth
<1>5. /\ l = m /\ Ball(links, asked.from, m) \subseteq visited
      /\ \A i \in 1..Len(queue) : Len(queue[i].path) \in {m, m + 1}
      /\ \A i, j \in 1..Len(queue) : i <= j => Len(queue[i].path) <= Len(queue[j].path)
  BY <1>4 DEF QueueLevels
<1>6. /\ hopsLeft' = hopsLeft \ {hop} /\ visited' = visited \cup {hop.to}
      /\ queue' = IF hop.to \in visited THEN queue ELSE Append(queue, further)
  BY DEF Visit
<1>7. further.node = hop.to /\ further.path = Append(current.path, hop)
  BY DEF Entry
<1>8. hop \in Hops(links)
  BY <1>2, <1>3 DEF Hops
<1>9. Len(further.path) = m + 1
  BY <1>2, <1>5, <1>7, <1>8
<1>10. hop.to \notin visited => Reaches(links, asked.from, further) /\ further \in QueueEntries(links)
  <2>1. ASSUME hop.to \notin visited PROVE hop.to \notin Ball(links, asked.from, l)
    BY <1>5, <2>1
  <2> QED  BY <1>1, <1>3, <2>1, ReachesFurther DEF Reaches
<1> HIDE DEF l, further
<1>11. /\ queue' \in Seq(QueueEntries(links)) /\ Len(queue) \in Nat /\ Len(queue') \in Nat
       /\ \A i \in 1..Len(queue) : queue'[i] = queue[i] /\ i \in 1..Len(queue')
       /\ \A i \in 1..Len(queue') :
            \/ i \in 1..Len(queue) /\ queue'[i] = queue[i]
            \/ i = Len(queue) + 1 /\ queue'[i] = further /\ hop.to \notin visited
  <2>1. CASE hop.to \in visited
    <3>1. queue' = queue /\ Len(queue) \in Nat
      BY <1>1, <1>6, <2>1
    <3> QED  BY <1>1, <3>1
  <2>2. CASE hop.to \notin visited
    <3>1. queue' = Append(queue, further) /\ further \in QueueEntries(links)
      BY <1>6, <1>10, <2>2
    <3>2. /\ queue' \in Seq(QueueEntries(links)) /\ Len(queue) \in Nat /\ Len(queue') = Len(queue) + 1
          /\ \A i \in 1..Len(queue) : queue'[i] = queue[i]
          /\ queue'[Len(queue) + 1] = further
      BY <1>1, <3>1
    <3> QED  BY <2>2, <3>2
  <2> QED  BY <2>1, <2>2
<1>12. hop.to \notin visited => Queued(hop.to)'
  <2>1. ASSUME hop.to \notin visited PROVE Queued(hop.to)'
    <3>1. queue' = Append(queue, further) /\ further \in QueueEntries(links)
      BY <1>6, <1>10, <2>1
    <3>2. Len(queue) + 1 \in 1..Len(queue') /\ queue'[Len(queue) + 1] = further
      BY <1>1, <3>1
    <3> QED  BY <1>7, <3>2 DEF Queued
  <2> QED  BY <2>1
<1>13. \A v : Queued(v) => Queued(v)'
  BY <1>11 DEF Queued
<1>14. \A i \in 1..Len(queue') : Reaches(links, asked.from, queue'[i]) /\ Len(queue'[i].path) <= asked.depth
  <2>1. m + 1 <= asked.depth
    BY <1>1, <1>2, <1>5
  <2> QED  BY <1>1, <1>9, <1>10, <1>11, <2>1
<1>15. QueueLevels(m)'
  <2>1. Ball(links, asked.from, m) \subseteq visited'
    BY <1>5, <1>6
  <2>2. \A i \in 1..Len(queue') : Len(queue'[i].path) \in {m, m + 1}
    BY <1>5, <1>9, <1>11
  <2>3. ASSUME NEW i \in 1..Len(queue'), NEW j \in 1..Len(queue'), i <= j
        PROVE  Len(queue'[i].path) <= Len(queue'[j].path)
    <3>1. CASE j \in 1..Len(queue) /\ queue'[j] = queue[j]
      <4>1. i \in 1..Len(queue)
        BY <1>11, <2>3, <3>1
      <4> QED  BY <1>5, <1>11, <2>3, <3>1, <4>1
    <3>2. CASE queue'[j] = further
      BY <1>4, <1>9, <2>2, <3>2
    <3> QED  BY <1>11, <3>1, <3>2
  <2>4. hopsLeft' # {} => Len(current'.path) = m
    BY <1>5 DEF l
  <2> QED  BY <2>1, <2>2, <2>3, <2>4 DEF QueueLevels
<1>16. Closed'
  <2>1. ASSUME NEW v \in visited'
        PROVE  \/ Queued(v)' \/ v \notin Ball(links, asked.from, asked.depth - 1)
               \/ \A h \in Adjacency(links, v) : h.to \in visited' \/ (v = current.node /\ h \in hopsLeft')
    <3>1. CASE v \in visited
      BY <1>1, <1>6, <1>13, <3>1 DEF Closed
    <3>2. CASE v \notin visited
      BY <1>6, <1>12, <3>2
    <3> QED  BY <3>1, <3>2
  <2> QED  BY <2>1 DEF Closed
<1>17. TargetsAhead'
  BY <1>1, <1>6, <1>12, <1>13 DEF TargetsAhead
<1>18. InMemory' /\ visited' \subseteq Nodes
  BY <1>1, <1>3, <1>6 DEF InMemory
<1>19. hopsLeft' # {} => /\ Reaches(links, asked.from, current') /\ Len(current'.path) < asked.depth
                         /\ hopsLeft' \subseteq Adjacency(links, current'.node)
  BY <1>1, <1>6 DEF l
<1> QED  BY <1>1, <1>4, <1>11, <1>14, <1>15, <1>16, <1>17, <1>18, <1>19 DEF InBreadth

(* What a search answers: a path to the target, the number of hops to a bad *)
(* entity, or that there is none near enough.                               *)
LEMMA PathFound ==
  ASSUME Graphed(links), InBreadth, hopsLeft = {}, queue # << >>,
         asked.kind = "path", Head(queue).node \in asked.targets
  PROVE  LET path == Head(queue).path
         IN /\ Len(path) \in Nat /\ IsDistance(links, Len(path), asked.from, asked.targets, asked.depth)
            /\ Len(path) > 0 => Leads(links, path, asked.from, asked.targets)
<1> DEFINE head == Head(queue)
           l == Len(head.path)
<1>1. /\ head = queue[1] /\ 1 \in 1..Len(queue) /\ Len(queue) \in Nat
      /\ Reaches(links, asked.from, head) /\ l \in 0..asked.depth /\ QueueLevels(l)
  BY NextOfQueue
<1>2. /\ asked.depth \in Nat /\ asked.from \in Nodes
      /\ \A i \in 1..Len(queue) : Reaches(links, asked.from, queue[i])
      /\ \A v \in visited \cap asked.targets : Queued(v)
  BY DEF InBreadth, InMemory, TargetsAhead
<1>3. head.node \in Nodes /\ \A j \in Nat : head.node \in Ball(links, asked.from, j) <=> l <= j
  BY <1>1, <1>2, ReachedExactly
<1> HIDE DEF head, l
<1>4. ASSUME NEW j \in 0..(l - 1), NEW v \in Ball(links, asked.from, j), v \in asked.targets
      PROVE  FALSE
  <2>1. Ball(links, asked.from, j) \subseteq Ball(links, asked.from, l)
    BY <1>1, BallMonotone
  <2>2. Ball(links, asked.from, l) \subseteq visited
    BY <1>1 DEF QueueLevels
  <2>3. Queued(v)
    BY <1>2, <1>4, <2>1, <2>2
  <2>4. PICK i \in 1..Len(queue) : queue[i].node = v
    BY <2>3 DEF Queued
  <2>5. l <= Len(queue[i].path)
    <3>1. l \in Nat /\ Len(queue[i].path) \in {l, l + 1}
      BY <1>1, <2>4 DEF QueueLevels
    <3> QED  BY <3>1
  <2>6. /\ Len(queue[i].path) \in Nat
        /\ \A k \in Nat : queue[i].node \in Ball(links, asked.from, k) <=> Len(queue[i].path) <= k
    BY <1>2, <2>4, ReachedExactly
  <2>7. j \in Nat /\ Len(queue[i].path) <= j
    BY <1>1, <1>4, <2>4, <2>6
  <2> QED  BY <1>1, <1>4, <2>5, <2>6, <2>7
<1>5. IsDistance(links, l, asked.from, asked.targets, asked.depth)
  <2>1. head.node \in Ball(links, asked.from, l) \cap asked.targets
    BY <1>1, <1>3 DEF head
  <2> QED  BY <1>1, <1>4, <2>1 DEF IsDistance, NoPath
<1>6. l > 0 => Leads(links, head.path, asked.from, asked.targets)
  BY <1>1 DEF Reaches, Chain, Leads, head, l
<1> QED  BY <1>1, <1>5, <1>6 DEF head, l

LEMMA BadFound ==
  ASSUME Graphed(links), InBreadth, asked.kind = "bad", NEW hop \in hopsLeft, hop.to \in asked.targets
  PROVE  /\ Len(current.path) + 1 \in Nat
         /\ IsDistance(links, Len(current.path) + 1, asked.from, asked.targets, asked.depth)
<1> DEFINE l == Len(current.path)
<1>1. /\ asked.depth \in Nat /\ asked.from \in Nodes /\ visited \cap asked.targets = {}
      /\ Reaches(links, asked.from, current) /\ l < asked.depth /\ hop \in Adjacency(links, current.node)
  BY DEF InBreadth, InMemory, TargetsAhead
<1>2. /\ current.node \in Nodes /\ l \in Nat
      /\ \A j \in Nat : current.node \in Ball(links, asked.from, j) <=> l <= j
  BY <1>1, ReachedExactly
<1>3. Ball(links, asked.from, l) \subseteq visited
  <2>1. PICK m \in 0..asked.depth : QueueLevels(m)
    BY DEF InBreadth
  <2> QED  BY <2>1 DEF QueueLevels
<1> HIDE DEF l
<1>4. hop.to \in Ball(links, asked.from, l + 1)
  <2>1. hop.to \in Nodes /\ Adjacent(links, current.node, hop.to)
    BY <1>1, <1>2, HopsLeadToNeighbours
  <2>2. current.node \in Ball(links, asked.from, l)
    BY <1>2
  <2> QED  BY <1>1, <1>2, <2>1, <2>2, BallGrows
<1>5. ASSUME NEW j \in 0..l PROVE Ball(links, asked.from, j) \cap asked.targets = {}
  <2>1. Ball(links, asked.from, j) \subseteq Ball(links, asked.from, l)
    BY <1>2, BallMonotone
  <2> QED  BY <1>1, <1>3, <2>1
<1>6. l + 1 \in 0..asked.depth /\ l + 1 # -1 /\ (l + 1) - 1 = l
  BY <1>1, <1>2
<1>7. Ball(links, asked.from, l + 1) \cap asked.targets # {}
  BY <1>4
<1>8. \A j \in 0..((l + 1) - 1) : Ball(links, asked.from, j) \cap asked.targets = {}
  BY <1>5, <1>6
<1> QED  BY <1>6, <1>7, <1>8 DEF IsDistance, NoPath, l

LEMMA NoneFound ==
  ASSUME Graphed(links), InBreadth, hopsLeft = {}, queue = << >>
  PROVE  IsDistance(links, NoPath, asked.from, asked.targets, asked.depth)
<1>1. Ball(links, asked.from, asked.depth) \subseteq visited
  BY AllFound
<1>2. \A v : ~ Queued(v)
  BY DEF Queued
<1>3. visited \cap asked.targets = {}
  BY <1>2 DEF InBreadth, TargetsAhead
<1> QED  BY <1>1, <1>3 DEF IsDistance

-----------------------------------------------------------------------------
(* The steps of a neighbourhood.                                            *)
LEMMA ExpandBegins ==
  ASSUME Graphed(links), NEW n \in Nodes, hopsLeft = {}, ExpandFrom(n),
         InMemory', asked'.kind \in {"around", "case"}, asked'.from = n
  PROVE  Expanded'
<1>1. /\ links' = links /\ rounds' = 0 /\ frontier' = {n} /\ visited' = {} /\ nextFrontier' = {}
      /\ collected' = {} /\ shown' = {} /\ latest' = {} /\ hopsLeft' = {}
  BY DEF ExpandFrom
<1>2. asked'.depth \in Nat \ {0} /\ asked'.limit \in Nat \ {0}
  BY DEF InMemory
<1>3. Near(rounds)' = {n}
  BY <1>1, BallZero DEF Near
<1>4. IsFiniteSet(collected') /\ Cardinality(collected') = 0
  BY <1>1, FS_EmptySet
<1>5. ~ LimitReached'
  BY <1>2, <1>4 DEF LimitReached
<1>6. NothingMissing'
  BY <1>1, <1>3 DEF NothingMissing
<1> QED  BY <1>1, <1>2, <1>3, <1>4, <1>5, <1>6 DEF Expanded, OncePerKey, OncePerEdge

LEMMA NearlyNodes ==
  ASSUME Expanded
  PROVE  /\ asked.from \in Nodes /\ asked.depth \in Nat \ {0} /\ asked.limit \in Nat \ {0} /\ rounds \in Nat
         /\ visited \subseteq Nodes /\ frontier \subseteq Nodes /\ nextFrontier \subseteq Nodes
         /\ Cardinality(collected) \in Nat
<1>1. asked.depth \in Nat \ {0} /\ asked.limit \in Nat \ {0}
  BY DEF Expanded, InMemory
<1>2. Cardinality(collected) \in Nat
  BY FS_CardinalityType DEF Expanded
<1> QED  BY <1>1, <1>2 DEF Expanded, Near, Ball

LEMMA TakeNodeKeeps ==
  ASSUME Expanded, TakeNode
  PROVE  Expanded'
<1>1. PICK nid \in frontier :
        /\ frontier' = frontier \ {nid} /\ visited' = visited \cup {nid}
        /\ hopsLeft' = Adjacency(links, nid) /\ current' = Entry(nid, << >>)
  BY DEF TakeNode
<1>2. /\ links' = links /\ asked' = asked /\ rounds' = rounds /\ nextFrontier' = nextFrontier
      /\ collected' = collected /\ shown' = shown /\ latest' = latest /\ hopsLeft = {}
  BY DEF TakeNode
<1>3. current'.node = nid
  BY <1>1 DEF Entry
<1>4. visited' \subseteq Near(rounds) /\ frontier' \subseteq Near(rounds)
  BY <1>1 DEF Expanded
<1>5. LimitReached' = LimitReached
  BY <1>2 DEF LimitReached
<1>6. ASSUME ~ LimitReached PROVE NothingMissing'
  <2>1. /\ shown = collected /\ Near(rounds) \subseteq visited \cup frontier
        /\ \A v \in visited : \A hop \in Adjacency(links, v) :
             Known(hop) /\ hop.to \in visited \cup frontier \cup nextFrontier
    BY <1>2, <1>6 DEF Expanded, NothingMissing
  <2>2. Near(rounds)' \subseteq visited' \cup frontier'
    BY <1>1, <1>2, <2>1 DEF Near
  <2>3. ASSUME NEW v \in visited', NEW hop \in Adjacency(links, v)
        PROVE  \/ v = current'.node /\ hop \in hopsLeft'
               \/ Known(hop) /\ hop.to \in visited' \cup frontier' \cup nextFrontier
    <3>1. CASE v = nid
      BY <1>1, <1>3, <2>3, <3>1
    <3>2. CASE v \in visited
      BY <1>1, <2>1, <2>3, <3>2
    <3> QED  BY <1>1, <3>1, <3>2
  <2>4. \A hop : Known(hop)' <=> Known(hop)
    BY <1>2 DEF Known
  <2> QED  BY <1>2, <2>1, <2>2, <2>3, <2>4 DEF NothingMissing
<1>7. /\ InMemory' /\ asked.kind \in {"around", "case"} /\ asked.from \in Nodes
      /\ rounds \in 0..(asked.depth - 1) /\ nextFrontier \subseteq Near(rounds + 1)
      /\ IsFiniteSet(collected) /\ shown \subseteq collected
      /\ OncePerKey(collected) /\ latest \subseteq shown /\ OncePerEdge(latest)
      /\ LimitReached => Cardinality(shown) = asked.limit
  BY <1>2 DEF Expanded, InMemory
<1>8. collected \subseteq UNION {Adjacency(links, n) : n \in visited'}
  BY <1>1 DEF Expanded
<1>9. Near(rounds)' = Near(rounds) /\ Near(rounds + 1)' = Near(rounds + 1)
  BY <1>2 DEF Near
<1>10. hopsLeft' # {} => current'.node \in visited' /\ hopsLeft' \subseteq Adjacency(links', current'.node)
  BY <1>1, <1>2, <1>3
<1>11. OncePerKey(collected)' /\ OncePerEdge(latest)'
  BY <1>2, <1>7 DEF OncePerKey, OncePerEdge
<1> QED  BY <1>2, <1>4, <1>5, <1>6, <1>7, <1>8, <1>9, <1>10, <1>11 DEF Expanded

LEMMA CollectHopKeeps ==
  ASSUME Graphed(links), Expanded, CollectHop
  PROVE  Expanded'
<1>0. PICK hop \in hopsLeft :
        LET now == IF Known(hop) THEN collected ELSE collected \cup {hop}
        IN /\ collected' = now
           /\ IF ~ Known(hop) /\ Cardinality(now) <= asked.limit
              THEN shown' = now /\ latest' = Overwrite(latest, {hop})
              ELSE UNCHANGED <<shown, latest>>
           /\ IF ~ Known(hop) /\ Cardinality(now) >= asked.limit
              THEN hopsLeft' = {} /\ UNCHANGED nextFrontier
              ELSE hopsLeft' = hopsLeft \ {hop} /\ nextFrontier' = nextFrontier \cup {hop.to}
  BY DEF CollectHop
<1> DEFINE c == Cardinality(collected)
           now == IF Known(hop) THEN collected ELSE collected \cup {hop}
<1>1. /\ collected' = now
      /\ IF ~ Known(hop) /\ Cardinality(now) <= asked.limit
         THEN shown' = now /\ latest' = Overwrite(latest, {hop})
         ELSE shown' = shown /\ latest' = latest
      /\ IF ~ Known(hop) /\ Cardinality(now) >= asked.limit
         THEN hopsLeft' = {} /\ nextFrontier' = nextFrontier
         ELSE hopsLeft' = hopsLeft \ {hop} /\ nextFrontier' = nextFrontier \cup {hop.to}
  BY <1>0
<1>2. /\ links' = links /\ asked' = asked /\ rounds' = rounds /\ frontier' = frontier
      /\ visited' = visited /\ current' = current
  BY DEF CollectHop
<1>3. /\ asked.from \in Nodes /\ asked.depth \in Nat \ {0} /\ asked.limit \in Nat \ {0} /\ rounds \in Nat
      /\ visited \subseteq Nodes /\ c \in Nat
  BY NearlyNodes
<1>4. /\ InMemory' /\ asked.kind \in {"around", "case"} /\ rounds \in 0..(asked.depth - 1)
      /\ visited \subseteq Near(rounds) /\ frontier \subseteq Near(rounds)
      /\ nextFrontier \subseteq Near(rounds + 1)
      /\ IsFiniteSet(collected) /\ shown \subseteq collected
      /\ collected \subseteq UNION {Adjacency(links, n) : n \in visited}
      /\ OncePerKey(collected) /\ latest \subseteq shown /\ OncePerEdge(latest)
      /\ current.node \in visited /\ hopsLeft \subseteq Adjacency(links, current.node)
      /\ ~ LimitReached => NothingMissing
      /\ LimitReached => Cardinality(shown) = asked.limit
  BY <1>0, <1>2 DEF Expanded, InMemory
<1>5. hop \in Adjacency(links, current.node) /\ hop.to \in Nodes /\ Adjacent(links, current.node, hop.to)
  BY <1>3, <1>4, HopsLeadToNeighbours
<1>6. hop.to \in Near(rounds + 1)
  BY <1>3, <1>4, <1>5, BallGrows DEF Near
<1>7. nextFrontier' \subseteq Near(rounds + 1)
  BY <1>1, <1>4, <1>6
<1>8. /\ IsFiniteSet(now) /\ Cardinality(now) = IF Known(hop) THEN c ELSE c + 1
  <2>1. ~ Known(hop) => hop \notin collected
    BY DEF Known
  <2> QED  BY <1>4, <2>1, FS_AddElement
<1>9. LimitReached <=> c >= asked.limit
  BY DEF LimitReached
<1>10. LimitReached' <=> Cardinality(now) >= asked.limit
  BY <1>1, <1>2 DEF LimitReached
<1>11. shown' \subseteq collected'
  BY <1>1, <1>4
<1>12. collected' \subseteq UNION {Adjacency(links, n) : n \in visited}
  BY <1>1, <1>4, <1>5
<1>13. hopsLeft' # {} => current.node \in visited /\ hopsLeft' \subseteq Adjacency(links, current.node)
  BY <1>1, <1>4
<1>14. ASSUME LimitReached' PROVE Cardinality(shown') = asked.limit
  <2>1. CASE ~ Known(hop) /\ Cardinality(now) <= asked.limit
    <3>1. shown' = now
      BY <1>1, <2>1
    <3> HIDE DEF now
    <3>2. Cardinality(now) \in Nat
      BY <1>8, FS_CardinalityType
    <3> QED  BY <1>3, <1>10, <1>14, <2>1, <3>1, <3>2
  <2>2. CASE Known(hop) \/ ~ Cardinality(now) <= asked.limit
    <3>1. shown' = shown
      BY <1>1, <2>2
    <3>2. c >= asked.limit
      <4> HIDE DEF now, c
      <4> QED  BY <1>3, <1>8, <1>10, <1>14, <2>2
    <3> QED  BY <1>4, <1>9, <3>1, <3>2
  <2> QED  BY <2>1, <2>2
<1>15. ASSUME ~ LimitReached' PROVE NothingMissing'
  <2>1. ~ Cardinality(now) >= asked.limit /\ ~ LimitReached
    <3> HIDE DEF now, c
    <3> QED  BY <1>3, <1>8, <1>9, <1>10, <1>15
  <2>2. /\ shown = collected /\ Near(rounds) \subseteq visited \cup frontier
        /\ \A v \in visited : \A h \in Adjacency(links, v) :
             \/ v = current.node /\ h \in hopsLeft
             \/ Known(h) /\ h.to \in visited \cup frontier \cup nextFrontier
    BY <1>4, <2>1 DEF NothingMissing
  <2>3. hopsLeft' = hopsLeft \ {hop} /\ nextFrontier' = nextFrontier \cup {hop.to}
    BY <1>1, <2>1
  <2>4. Cardinality(now) <= asked.limit
    <3> HIDE DEF now
    <3>1. Cardinality(now) \in Nat
      BY <1>8, FS_CardinalityType
    <3> QED  BY <1>3, <2>1, <3>1
  <2>5. shown' = collected'
    BY <1>1, <2>2, <2>4
  <2>6. Near(rounds)' \subseteq visited' \cup frontier'
    BY <1>2, <2>2 DEF Near
  <2>7. Known(hop)' /\ \A h : Known(h) => Known(h)'
    BY <1>1 DEF Known
  <2>8. ASSUME NEW v \in visited, NEW h \in Adjacency(links, v)
        PROVE  \/ v = current.node /\ h \in hopsLeft'
               \/ Known(h)' /\ h.to \in visited \cup frontier \cup nextFrontier'
    BY <2>2, <2>3, <2>7
  <2> QED  BY <1>2, <2>5, <2>6, <2>8 DEF NothingMissing
<1>16. Near(rounds)' = Near(rounds) /\ Near(rounds + 1)' = Near(rounds + 1)
  BY <1>2 DEF Near
<1>17. IsFiniteSet(collected')
  BY <1>1, <1>8
<1>18. OncePerKey(collected')
  BY <1>1, <1>4 DEF OncePerKey, Known
<1>19. latest' \subseteq shown' /\ OncePerEdge(latest')
  <2>1. CASE ~ Known(hop) /\ Cardinality(now) <= asked.limit
    <3>1. shown' = collected \cup {hop} /\ latest' = Overwrite(latest, {hop})
      BY <1>1, <2>1
    <3> QED  BY <1>4, <3>1 DEF Overwrite, OncePerEdge
  <2>2. CASE ~ (~ Known(hop) /\ Cardinality(now) <= asked.limit)
    <3>1. shown' = shown /\ latest' = latest
      BY <1>1, <2>2
    <3> QED  BY <1>4, <3>1 DEF OncePerEdge
  <2> QED  BY <2>1, <2>2
<1>20. OncePerKey(collected)' /\ OncePerEdge(latest)'
  BY <1>18, <1>19 DEF OncePerKey, OncePerEdge
<1> HIDE DEF now, c
<1> QED
  BY <1>2, <1>3, <1>4, <1>7, <1>11, <1>12, <1>13, <1>14, <1>15, <1>16, <1>17, <1>19, <1>20 DEF Expanded

(* After a round that has not reached the limit, what is near is seen.      *)
LEMMA RoundIsBall ==
  ASSUME Graphed(links), Expanded, RoundOver, ~ LimitReached
  PROVE  /\ visited = Near(rounds) /\ visited \cup nextFrontier = Near(rounds + 1)
         /\ shown = collected /\ collected \subseteq UNION {Adjacency(links, n) : n \in visited}
         /\ \A v \in visited : \A hop \in Adjacency(links, v) :
              Known(hop) /\ hop.to \in visited \cup nextFrontier
         /\ \A hop \in collected : hop.from \in visited /\ hop.to \in visited \cup nextFrontier
<1>1. /\ asked.from \in Nodes /\ rounds \in Nat /\ visited \subseteq Nodes /\ hopsLeft = {} /\ frontier = {}
  BY NearlyNodes DEF RoundOver
<1>2. /\ visited \subseteq Near(rounds) /\ nextFrontier \subseteq Near(rounds + 1)
      /\ collected \subseteq UNION {Adjacency(links, n) : n \in visited}
      /\ shown = collected /\ Near(rounds) \subseteq visited
      /\ \A v \in visited : \A hop \in Adjacency(links, v) :
           Known(hop) /\ hop.to \in visited \cup nextFrontier
  BY <1>1 DEF Expanded, NothingMissing
<1>3. visited = Near(rounds)
  BY <1>2
<1>4. Near(rounds) \subseteq Near(rounds + 1)
  BY <1>1, BallMonotone DEF Near
<1>5. ASSUME NEW b \in Near(rounds + 1) PROVE b \in visited \cup nextFrontier
  <2>1. b \in Near(rounds) \/ (b \in Nodes /\ \E a \in Near(rounds) : Adjacent(links, a, b))
    BY <1>1, <1>5, BallGrows DEF Near
  <2>2. CASE b \in Nodes /\ \E a \in Near(rounds) : Adjacent(links, a, b)
    <3>1. PICK a \in visited : Adjacent(links, a, b)
      BY <1>3, <2>2
    <3>2. PICK hop \in Adjacency(links, a) : hop.to = b
      BY <1>1, <2>2, <3>1, HopsLeadToNeighbours
    <3> QED  BY <1>2, <3>1, <3>2
  <2> QED  BY <1>3, <2>1, <2>2
<1>7. ASSUME NEW hop \in collected
      PROVE  hop.from \in visited /\ hop.to \in visited \cup nextFrontier
  <2>1. PICK v \in visited : hop \in Adjacency(links, v)
    BY <1>2
  <2>2. hop.from = v
    BY <1>1, <2>1, HopsLeadToNeighbours
  <2> QED  BY <1>2, <2>1, <2>2
<1> QED  BY <1>2, <1>3, <1>4, <1>5, <1>7

LEMMA NextRoundKeeps ==
  ASSUME Graphed(links), Expanded, NextRound
  PROVE  Expanded'
<1>1. /\ RoundOver /\ ~ LimitReached /\ rounds + 1 < asked.depth
      /\ rounds' = rounds + 1 /\ frontier' = nextFrontier \ visited /\ nextFrontier' = {}
      /\ links' = links /\ asked' = asked /\ visited' = visited /\ hopsLeft' = hopsLeft
      /\ collected' = collected /\ shown' = shown /\ latest' = latest
  BY DEF NextRound, searchVars
<1>2. /\ asked.from \in Nodes /\ asked.depth \in Nat \ {0} /\ rounds \in Nat /\ hopsLeft = {}
  BY <1>1, NearlyNodes DEF RoundOver
<1>3. /\ visited = Near(rounds) /\ visited \cup nextFrontier = Near(rounds + 1)
      /\ shown = collected /\ collected \subseteq UNION {Adjacency(links, n) : n \in visited}
      /\ \A v \in visited : \A hop \in Adjacency(links, v) :
           Known(hop) /\ hop.to \in visited \cup nextFrontier
  BY <1>1, RoundIsBall
<1>4. Near(rounds)' = Near(rounds + 1)
  BY <1>1 DEF Near
<1>5. rounds' \in 0..(asked'.depth - 1)
  BY <1>1, <1>2
<1>6. ~ LimitReached'
  BY <1>1 DEF LimitReached
<1>7. NothingMissing'
  <2>1. \A v \in visited : \A hop \in Adjacency(links, v) :
          Known(hop)' /\ hop.to \in visited \cup frontier'
    BY <1>1, <1>3 DEF Known
  <2>2. Near(rounds)' \subseteq visited \cup frontier'
    BY <1>1, <1>3, <1>4
  <2> QED  BY <1>1, <1>3, <2>1, <2>2 DEF NothingMissing
<1>8. InMemory' /\ asked.kind \in {"around", "case"} /\ IsFiniteSet(collected)
      /\ OncePerKey(collected)' /\ latest \subseteq shown /\ OncePerEdge(latest)'
  BY <1>1 DEF Expanded, InMemory, OncePerKey, OncePerEdge
<1>9. visited' \subseteq Near(rounds)' /\ frontier' \subseteq Near(rounds)'
  BY <1>1, <1>3, <1>4
<1> QED  BY <1>1, <1>2, <1>3, <1>5, <1>6, <1>7, <1>8, <1>9 DEF Expanded

(* What a neighbourhood answers.                                            *)
LEMMA FoundIsBall ==
  ASSUME Graphed(links), Expanded, Finished
  PROVE  /\ Neighborhood.edges = shown /\ Neighborhood.cut = LimitReached
         /\ Neighborhood.nodes \subseteq Near(asked.depth) /\ asked.from \in Neighborhood.nodes
         /\ shown \subseteq UNION {Adjacency(links, n) : n \in Near(asked.depth - 1)}
         /\ ~ LimitReached =>
              /\ Neighborhood.nodes = Near(asked.depth)
              /\ \A n \in Near(asked.depth - 1) : \A hop \in Adjacency(links, n) :
                   \E g \in shown : EdgeKey(g) = EdgeKey(hop)
              /\ \A h \in shown : h.from \in Neighborhood.nodes /\ h.to \in Neighborhood.nodes
         /\ LimitReached => Cardinality(shown) = asked.limit
         /\ OncePerKey(shown) /\ latest \subseteq shown /\ OncePerEdge(latest)
<1>1. /\ asked.from \in Nodes /\ asked.depth \in Nat \ {0} /\ rounds \in 0..(asked.depth - 1)
      /\ rounds \in Nat
      /\ visited \subseteq Near(rounds) /\ nextFrontier \subseteq Near(rounds + 1)
      /\ shown \subseteq UNION {Adjacency(links, n) : n \in visited}
      /\ LimitReached => Cardinality(shown) = asked.limit
      /\ OncePerKey(shown) /\ latest \subseteq shown /\ OncePerEdge(latest)
  BY NearlyNodes DEF Expanded, OncePerKey
<1>2. /\ Neighborhood.nodes = visited \cup nextFrontier \cup {asked.from}
      /\ Neighborhood.edges = shown /\ Neighborhood.cut = LimitReached
  BY DEF Neighborhood, Graph
<1>3. /\ Near(rounds) \subseteq Near(asked.depth - 1) /\ Near(rounds) \subseteq Near(asked.depth)
      /\ Near(rounds + 1) \subseteq Near(asked.depth)
  <2>1. asked.depth - 1 \in Nat /\ rounds <= asked.depth - 1 /\ rounds <= asked.depth
        /\ rounds + 1 \in Nat /\ rounds + 1 <= asked.depth
    BY <1>1
  <2> QED  BY <1>1, <2>1, BallMonotone DEF Near
<1>4. asked.from \in Near(asked.depth)
  <2>1. Near(0) \subseteq Near(asked.depth) /\ Near(0) = {asked.from}
    BY <1>1, BallMonotone, BallZero DEF Near
  <2> QED  BY <2>1
<1>5. ASSUME ~ LimitReached
      PROVE  /\ Neighborhood.nodes = Near(asked.depth)
             /\ \A n \in Near(asked.depth - 1) : \A hop \in Adjacency(links, n) :
                  \E g \in shown : EdgeKey(g) = EdgeKey(hop)
             /\ \A h \in shown : h.from \in Neighborhood.nodes /\ h.to \in Neighborhood.nodes
  <2>1. rounds + 1 >= asked.depth /\ RoundOver
    BY <1>5 DEF Finished
  <2>2. rounds = asked.depth - 1 /\ rounds + 1 = asked.depth
    BY <1>1, <2>1
  <2>3. /\ visited = Near(rounds) /\ visited \cup nextFrontier = Near(rounds + 1)
        /\ shown = collected /\ \A v \in visited : \A hop \in Adjacency(links, v) : Known(hop)
        /\ \A hop \in collected : hop.from \in visited /\ hop.to \in visited \cup nextFrontier
    BY <1>5, <2>1, RoundIsBall
  <2> QED  BY <1>2, <1>4, <2>2, <2>3 DEF Known
<1> QED  BY <1>1, <1>2, <1>3, <1>4, <1>5

-----------------------------------------------------------------------------
(* Of trails.  A stride goes over its link in one of its directions.        *)
LEMMA StridesGoOverLinks ==
  ASSUME NEW edges, NEW s \in Strides(edges)
  PROVE  /\ s.link \in edges
         /\ \/ s.from = s.link.src /\ s.to = s.link.dst
            \/ s.from = s.link.dst /\ s.to = s.link.src
BY DEF Strides, Hop

LEMMA StridesOfLinks ==
  ASSUME NEW edges, NEW link \in edges, NEW a, NEW b,
         (a = link.src /\ b = link.dst) \/ (a = link.dst /\ b = link.src)
  PROVE  \E s \in Strides(edges) : s.link = link /\ s.from = a /\ s.to = b
<1>1. CASE a = link.src /\ b = link.dst
  <2>1. Hop(link, link.src, link.dst) \in Strides(edges)
    BY DEF Strides
  <2> QED  BY <1>1, <2>1 DEF Hop
<1>2. CASE a = link.dst /\ b = link.src
  <2>1. Hop(link, link.dst, link.src) \in Strides(edges)
    BY DEF Strides
  <2> QED  BY <1>2, <2>1 DEF Hop
<1> QED  BY <1>1, <1>2

(* Each step of a trail is at the end of a walk.                            *)
LEMMA TrailsAreWalks ==
  ASSUME NEW edges, Graphed(edges), NEW n \in Nodes, NEW k \in Nat \ {0}, NEW t \in Trails(edges, n, k),
         NEW i \in 1..k
  PROVE  /\ t[i].to \in Ball(edges, n, i) /\ t[i].from \in Ball(edges, n, i - 1)
         /\ t[i].link \in edges
         /\ \/ t[i].from = t[i].link.src /\ t[i].to = t[i].link.dst
            \/ t[i].from = t[i].link.dst /\ t[i].to = t[i].link.src
<1>1. /\ t \in [1..k -> Strides(edges)] /\ t[1].from = n
      /\ \A j \in 1..(k - 1) : t[j].to = t[j + 1].from
  BY DEF Trails
<1>2. \A link \in edges : link.src \in Nodes /\ link.dst \in Nodes
  BY QueriesAssumption DEF Graphed
<1>3. ASSUME NEW j \in 1..k
      PROVE  /\ t[j].link \in edges /\ t[j].from \in Nodes /\ t[j].to \in Nodes
             /\ \/ t[j].from = t[j].link.src /\ t[j].to = t[j].link.dst
                \/ t[j].from = t[j].link.dst /\ t[j].to = t[j].link.src
             /\ Adjacent(edges, t[j].from, t[j].to)
  <2>1. t[j] \in Strides(edges)
    BY <1>1
  <2>2. /\ t[j].link \in edges
        /\ \/ t[j].from = t[j].link.src /\ t[j].to = t[j].link.dst
           \/ t[j].from = t[j].link.dst /\ t[j].to = t[j].link.src
    BY <2>1, StridesGoOverLinks
  <2> QED  BY <1>2, <2>2 DEF Adjacent
<1>4. ASSUME NEW m \in 1..k PROVE t[m].to \in Ball(edges, n, m)
  <2>1. PICK w : w = [j \in 0..m |-> IF j = 0 THEN n ELSE t[j].to]
    OBVIOUS
  <2>2. w \in [0..m -> Nodes]
    <3>1. ASSUME NEW j \in 0..m PROVE (IF j = 0 THEN n ELSE t[j].to) \in Nodes
      <4>1. j # 0 => j \in 1..k
        OBVIOUS
      <4> QED  BY <1>3, <4>1
    <3> QED  BY <2>1, <3>1
  <2>3. w[0] = n /\ w[m] = t[m].to
    BY <2>1
  <2>4. ASSUME NEW j \in 1..m PROVE Adjacent(edges, w[j - 1], w[j])
    <3>1. j \in 1..k /\ w[j] = t[j].to
      BY <2>1
    <3>2. w[j - 1] = t[j].from
      <4>1. CASE j = 1
        BY <1>1, <2>3, <4>1
      <4>2. CASE j # 1
        <5>1. j - 1 \in 1..(k - 1) /\ (j - 1) + 1 = j /\ j - 1 \in 0..m /\ j - 1 # 0
          BY <4>2
        <5>2. w[j - 1] = t[j - 1].to
          BY <2>1, <5>1
        <5>3. t[j - 1].to = t[(j - 1) + 1].from
          BY <1>1, <5>1
        <5> QED  BY <5>1, <5>2, <5>3
      <4> QED  BY <4>1, <4>2
    <3> QED  BY <1>3, <3>1, <3>2
  <2>5. w \in Walks(edges, n, t[m].to, m)
    BY <2>2, <2>3, <2>4 DEF Walks
  <2>6. t[m].to \in Nodes /\ m \in 0..m
    BY <1>3
  <2> QED  BY <2>5, <2>6 DEF Ball
<1>5. t[i].from \in Ball(edges, n, i - 1)
  <2>1. CASE i = 1
    <3>1. i - 1 = 0
      BY <2>1
    <3> QED  BY <1>1, <2>1, <3>1, BallZero
  <2>2. CASE i # 1
    <3>1. i - 1 \in 1..(k - 1) /\ (i - 1) + 1 = i /\ i - 1 \in 1..k
      BY <2>2
    <3>2. t[i - 1].to = t[(i - 1) + 1].from
      BY <1>1, <3>1
    <3>3. t[i - 1].to \in Ball(edges, n, i - 1)
      BY <1>4, <3>1
    <3> QED  BY <3>1, <3>2, <3>3
  <2> QED  BY <2>1, <2>2
<1> QED  BY <1>3, <1>4, <1>5

(* A walk that comes back to where it was can be shortened, so that a       *)
(* shortest walk takes no edge twice.                                       *)
LEMMA WalkShortened ==
  ASSUME NEW edges, NEW n, NEW b, NEW k \in Nat, NEW w \in Walks(edges, n, b, k),
         NEW p \in 0..k, NEW q \in 0..k, p < q, w[p] = w[q]
  PROVE  \E j \in 0..(k - 1) : Walks(edges, n, b, j) # {}
<1> DEFINE less == q - p
           v == [i \in 0..(k - less) |-> IF i <= p THEN w[i] ELSE w[i + less]]
<1>1. /\ w \in [0..k -> Nodes] /\ w[0] = n /\ w[k] = b
      /\ \A i \in 1..k : Adjacent(edges, w[i - 1], w[i])
  BY DEF Walks
<1>2. less \in 1..k /\ k - less \in 0..(k - 1) /\ p + less = q /\ p <= k - less
  OBVIOUS
<1>3. PICK d : d = less
  OBVIOUS
<1>4. \A i \in 0..(k - d) : i \in 0..k /\ i + d \in 0..k
  BY <1>2, <1>3
<1>5. v \in [0..(k - d) -> Nodes]
  BY <1>1, <1>3, <1>4
<1>6. \A i \in 0..(k - d) : v[i] = IF i <= p THEN w[i] ELSE w[i + d]
  BY <1>3
<1> HIDE DEF v, less
<1>7. v[0] = n
  BY <1>1, <1>2, <1>3, <1>6
<1>8. v[k - d] = b
  <2>1. k - d \in 0..(k - d) /\ (k - d) + d = k
    BY <1>2, <1>3
  <2>2. CASE k - d <= p
    <3>1. k - d = p /\ q = k
      BY <1>2, <1>3, <2>2
    <3> QED  BY <1>1, <1>6, <2>1, <3>1
  <2>3. CASE ~ k - d <= p
    BY <1>1, <1>6, <2>1, <2>3
  <2> QED  BY <2>2, <2>3
<1>9. ASSUME NEW i \in 1..(k - d) PROVE Adjacent(edges, v[i - 1], v[i])
  <2>1. i \in 0..(k - d) /\ i - 1 \in 0..(k - d) /\ i \in 1..k /\ i + d \in 1..k /\ (i + d) - 1 = (i - 1) + d
    BY <1>2, <1>3
  <2>2. Adjacent(edges, w[i - 1], w[i]) /\ Adjacent(edges, w[(i + d) - 1], w[i + d])
    BY <1>1, <2>1
  <2>3. CASE i <= p
    BY <1>6, <2>1, <2>2, <2>3
  <2>4. CASE i = p + 1
    <3>1. v[i - 1] = w[p] /\ v[i] = w[i + d] /\ (i + d) - 1 = q
      BY <1>2, <1>3, <1>6, <2>1, <2>4
    <3> QED  BY <2>2, <3>1
  <2>5. CASE i > p + 1
    <3>1. v[i - 1] = w[(i - 1) + d] /\ v[i] = w[i + d]
      BY <1>6, <2>1, <2>5
    <3> QED  BY <2>1, <2>2, <3>1
  <2> QED  BY <2>3, <2>4, <2>5
<1>10. v \in Walks(edges, n, b, k - d)
  BY <1>5, <1>7, <1>8, <1>9 DEF Walks
<1> QED  BY <1>2, <1>3, <1>10

LEMMA ShortestWalkIsTrail ==
  ASSUME NEW edges, NEW n, NEW b, NEW k \in Nat \ {0}, Walks(edges, n, b, k) # {},
         \A j \in 0..(k - 1) : Walks(edges, n, b, j) = {}
  PROVE  \E t \in Trails(edges, n, k) : t[k].to = b
<1>1. PICK w : w \in Walks(edges, n, b, k)
  OBVIOUS
<1>2. /\ w \in [0..k -> Nodes] /\ w[0] = n /\ w[k] = b
      /\ \A i \in 1..k : Adjacent(edges, w[i - 1], w[i])
  BY <1>1 DEF Walks
<1>3. ASSUME NEW i \in 1..k
      PROVE  \E s \in Strides(edges) : s.from = w[i - 1] /\ s.to = w[i]
  <2>1. PICK link \in edges : \/ w[i - 1] = link.src /\ w[i] = link.dst
                              \/ w[i - 1] = link.dst /\ w[i] = link.src
    BY <1>2 DEF Adjacent
  <2> QED  BY <2>1, StridesOfLinks
<1> DEFINE t == [i \in 1..k |-> CHOOSE s \in Strides(edges) : s.from = w[i - 1] /\ s.to = w[i]]
<1>4. \A i \in 1..k : t[i] \in Strides(edges) /\ t[i].from = w[i - 1] /\ t[i].to = w[i]
  BY <1>3
<1>5. t \in [1..k -> Strides(edges)]
  BY <1>3
<1> HIDE DEF t
<1>6. \A p, q \in 0..k : p < q => w[p] # w[q]
  BY <1>1, WalkShortened
<1>7. ASSUME NEW i \in 1..k, NEW j \in 1..k, t[i].link = t[j].link, i < j PROVE FALSE
  <2>1. /\ \/ t[i].from = t[i].link.src /\ t[i].to = t[i].link.dst
           \/ t[i].from = t[i].link.dst /\ t[i].to = t[i].link.src
        /\ \/ t[j].from = t[j].link.src /\ t[j].to = t[j].link.dst
           \/ t[j].from = t[j].link.dst /\ t[j].to = t[j].link.src
    BY <1>4, StridesGoOverLinks
  <2>2. w[i - 1] = w[j - 1] \/ w[i - 1] = w[j]
    BY <1>4, <1>7, <2>1
  <2>3. i - 1 \in 0..k /\ j - 1 \in 0..k /\ j \in 0..k /\ i - 1 < j - 1 /\ i - 1 < j
    BY <1>7
  <2> QED  BY <1>6, <2>2, <2>3
<1>8. \A i, j \in 1..k : t[i].link = t[j].link => i = j
  <2>1. ASSUME NEW i \in 1..k, NEW j \in 1..k, t[i].link = t[j].link, i # j PROVE FALSE
    <3>1. i < j \/ j < i
      BY <2>1
    <3> QED  BY <1>7, <2>1, <3>1
  <2> QED  BY <2>1
<1>9. \A i \in 1..(k - 1) : t[i].to = t[i + 1].from
  <2>1. ASSUME NEW i \in 1..(k - 1) PROVE t[i].to = t[i + 1].from
    <3>1. i \in 1..k /\ i + 1 \in 1..k /\ (i + 1) - 1 = i
      OBVIOUS
    <3> QED  BY <1>4, <3>1
  <2> QED  BY <2>1
<1>10. t[1].from = n /\ t[k].to = b
  BY <1>2, <1>4
<1>11. t \in Trails(edges, n, k)
  BY <1>5, <1>8, <1>9, <1>10 DEF Trails
<1> QED  BY <1>10, <1>11

(* A trail leads to each node that is near, and over each edge that touches *)
(* one that is nearer.                                                      *)
LEMMA NearestWalk ==
  ASSUME NEW edges, NEW n, NEW d \in Nat, NEW b \in Ball(edges, n, d)
  PROVE  \E l \in 0..d : Walks(edges, n, b, l) # {} /\ \A j \in 0..(l - 1) : Walks(edges, n, b, j) = {}
<1> DEFINE lengths == {l \in Nat : Walks(edges, n, b, l) # {}}
<1>1. PICK i \in 0..d : Walks(edges, n, b, i) # {}
  BY DEF Ball
<1>2. PICK l \in lengths : \A j \in lengths : l <= j
  <2>1. i \in lengths /\ lengths \in SUBSET Nat
    BY <1>1
  <2> HIDE DEF lengths
  <2> QED  BY <2>1, LeastNumber
<1>3. l \in 0..d
  BY <1>1, <1>2
<1> QED  BY <1>2, <1>3

LEMMA TrailTo ==
  ASSUME NEW edges, NEW n \in Nodes, NEW d \in Nat, NEW b \in Ball(edges, n, d), b # n
  PROVE  \E k \in 1..d : \E t \in Trails(edges, n, k) : t[k].to = b
<1>1. PICK l \in 0..d : Walks(edges, n, b, l) # {} /\ \A j \in 0..(l - 1) : Walks(edges, n, b, j) = {}
  BY NearestWalk
<1>2. l # 0
  BY <1>1 DEF Walks
<1>3. l \in Nat \ {0} /\ l \in 1..d
  BY <1>2
<1> QED  BY <1>1, <1>3, ShortestWalkIsTrail

LEMMA TrailOver ==
  ASSUME NEW edges, NEW n \in Nodes, NEW d \in Nat \ {0}, NEW link \in edges,
         link.src \in Ball(edges, n, d - 1) \/ link.dst \in Ball(edges, n, d - 1)
  PROVE  \E k \in 1..d : \E t \in Trails(edges, n, k) : \E i \in 1..k : t[i].link = link
<1>0. PICK a \in Ball(edges, n, d - 1) :
        \E c : (a = link.src /\ c = link.dst) \/ (a = link.dst /\ c = link.src)
  OBVIOUS
<1>1. PICK s \in Strides(edges) : s.link = link /\ s.from = a
  BY <1>0, StridesOfLinks
<1>2. CASE a = n
  <2>1. PICK t : t = [i \in 1..1 |-> s]
    OBVIOUS
  <2>2. t \in [1..1 -> Strides(edges)] /\ t[1] = s
    BY <2>1
  <2>3. t \in Trails(edges, n, 1)
    BY <1>1, <1>2, <2>2 DEF Trails
  <2>4. 1 \in 1..d /\ 1 \in 1..1
    OBVIOUS
  <2> QED  BY <1>1, <2>2, <2>3, <2>4
<1>3. CASE a # n
  <2>1. d - 1 \in Nat
    OBVIOUS
  <2>2. PICK k \in 1..(d - 1) : \E t \in Trails(edges, n, k) : t[k].to = a
    BY <1>3, <2>1, TrailTo
  <2>3. PICK t \in Trails(edges, n, k) : t[k].to = a
    BY <2>2
  <2>4. /\ t \in [1..k -> Strides(edges)] /\ t[1].from = n
        /\ \A i \in 1..(k - 1) : t[i].to = t[i + 1].from
        /\ \A i, j \in 1..k : t[i].link = t[j].link => i = j
    BY <2>3 DEF Trails
  <2>5. k \in 1..d /\ k + 1 \in 1..d /\ k \in Nat /\ k >= 1
    BY <2>2
  <2>6. CASE \E i \in 1..k : t[i].link = link
    BY <2>5, <2>6
  <2>7. CASE \A i \in 1..k : t[i].link # link
    <3>1. PICK u : u = [i \in 1..(k + 1) |-> IF i = k + 1 THEN s ELSE t[i]]
      OBVIOUS
    <3>2. /\ u[k + 1] = s /\ \A i \in 1..k : u[i] = t[i]
          /\ \A i \in 1..(k + 1) : i = k + 1 \/ i \in 1..k
      BY <2>5, <3>1
    <3>3. u \in [1..(k + 1) -> Strides(edges)]
      BY <2>4, <2>5, <3>1
    <3>4. u[1].from = n
      BY <2>4, <2>5, <3>2
    <3>5. ASSUME NEW i \in 1..((k + 1) - 1) PROVE u[i].to = u[i + 1].from
      <4>1. CASE i = k
        BY <1>1, <2>3, <2>5, <3>2, <4>1
      <4>2. CASE i # k
        <5>1. i \in 1..(k - 1) /\ i \in 1..k /\ i + 1 \in 1..k
          BY <2>5, <4>2
        <5> QED  BY <2>4, <3>2, <5>1
      <4> QED  BY <4>1, <4>2
    <3>6. ASSUME NEW i \in 1..(k + 1), NEW j \in 1..(k + 1), u[i].link = u[j].link PROVE i = j
      <4>1. CASE i \in 1..k /\ j \in 1..k
        BY <2>4, <3>2, <3>6, <4>1
      <4>2. CASE i = k + 1 /\ j \in 1..k
        BY <1>1, <2>7, <3>2, <3>6, <4>2
      <4>3. CASE i \in 1..k /\ j = k + 1
        BY <1>1, <2>7, <3>2, <3>6, <4>3
      <4> QED  BY <3>2, <4>1, <4>2, <4>3
    <3>7. u \in Trails(edges, n, k + 1)
      BY <3>3, <3>4, <3>5, <3>6 DEF Trails
    <3>8. k + 1 \in 1..(k + 1)
      BY <2>5
    <3> QED  BY <1>1, <2>5, <3>2, <3>7, <3>8
  <2> QED  BY <2>6, <2>7
<1> QED  BY <1>2, <1>3

-----------------------------------------------------------------------------
(* What Neo4j answers: over trails the same as over walks.                  *)
LEMMA ShortestIsDistance ==
  ASSUME NEW edges, Graphed(edges), NEW n \in Nodes, NEW targets, n \notin targets, NEW d \in Nat \ {0}
  PROVE  /\ \A k \in Shortest(edges, n, targets, d) : IsDistance(edges, k, n, targets, d)
         /\ Shortest(edges, n, targets, d) = {} => IsDistance(edges, NoPath, n, targets, d)
<1>1. ASSUME NEW k \in 1..d, NEW t \in Trails(edges, n, k), t[k].to \in targets
      PROVE  Ball(edges, n, k) \cap targets # {}
  <2>1. k \in Nat \ {0} /\ k \in 1..k
    OBVIOUS
  <2>2. t[k].to \in Ball(edges, n, k)
    BY <2>1, TrailsAreWalks
  <2> QED  BY <1>1, <2>2
<1>2. ASSUME NEW k \in Shortest(edges, n, targets, d)
      PROVE  IsDistance(edges, k, n, targets, d)
  <2>1. /\ k \in 1..d /\ \E t \in Trails(edges, n, k) : t[k].to \in targets
        /\ \A j \in 1..(k - 1) : \A t \in Trails(edges, n, j) : t[j].to \notin targets
    BY DEF Shortest
  <2>2. ASSUME NEW j \in 0..(k - 1), NEW b \in Ball(edges, n, j), b \in targets PROVE FALSE
    <3>1. j \in Nat /\ b # n
      BY <2>2
    <3>2. PICK i \in 1..j : \E t \in Trails(edges, n, i) : t[i].to = b
      BY <3>1, TrailTo
    <3>3. i \in 1..(k - 1)
      BY <2>1
    <3> QED  BY <2>1, <2>2, <3>2, <3>3
  <2>3. Ball(edges, n, k) \cap targets # {} /\ k \in 0..d /\ k # -1
    BY <1>1, <2>1
  <2>4. \A j \in 0..(k - 1) : Ball(edges, n, j) \cap targets = {}
    BY <2>2
  <2> QED  BY <2>3, <2>4 DEF IsDistance, NoPath
<1>3. ASSUME Shortest(edges, n, targets, d) = {}, NEW b \in Ball(edges, n, d), b \in targets PROVE FALSE
  <2> DEFINE lengths == {k \in 1..d : \E t \in Trails(edges, n, k) : t[k].to \in targets}
  <2>1. PICK l \in 1..d : \E t \in Trails(edges, n, l) : t[l].to = b
    BY <1>3, TrailTo
  <2>2. PICK k \in lengths : \A j \in lengths : k <= j
    <3>1. l \in lengths /\ lengths \in SUBSET Nat
      BY <1>3, <2>1
    <3> HIDE DEF lengths
    <3> QED  BY <3>1, LeastNumber
  <2>3. ASSUME NEW j \in 1..(k - 1), NEW t \in Trails(edges, n, j), t[j].to \in targets PROVE FALSE
    <3>1. j \in 1..d /\ ~ k <= j
      BY <2>2
    <3>2. j \in lengths
      BY <2>3, <3>1
    <3> QED  BY <2>2, <3>1, <3>2
  <2>4. k \in Shortest(edges, n, targets, d)
    BY <2>2, <2>3 DEF Shortest
  <2> QED  BY <1>3, <2>4
<1>4. Shortest(edges, n, targets, d) = {} => IsDistance(edges, NoPath, n, targets, d)
  BY <1>3 DEF IsDistance
<1> QED  BY <1>2, <1>4

LEMMA TrailsAreBall ==
  ASSUME NEW edges, Graphed(edges), NEW n \in Nodes, NEW d \in Nat \ {0}
  PROVE  LET ends == UNION {{t[k].to : t \in Trails(edges, n, k)} : k \in 1..d}
             used == UNION {UNION {{t[i].link : i \in 1..k} : t \in Trails(edges, n, k)} : k \in 1..d}
             inner == Ball(edges, n, d - 1)
         IN /\ {n} \cup ends = Ball(edges, n, d)
            /\ used = {link \in edges : link.src \in inner \/ link.dst \in inner}
<1> DEFINE ends == UNION {{t[k].to : t \in Trails(edges, n, k)} : k \in 1..d}
           used == UNION {UNION {{t[i].link : i \in 1..k} : t \in Trails(edges, n, k)} : k \in 1..d}
           inner == Ball(edges, n, d - 1)
<1>1. ASSUME NEW b \in ends PROVE b \in Ball(edges, n, d)
  <2>1. PICK k \in 1..d : \E t \in Trails(edges, n, k) : b = t[k].to
    OBVIOUS
  <2>2. PICK t \in Trails(edges, n, k) : b = t[k].to
    BY <2>1
  <2>3. k \in Nat \ {0} /\ k \in 1..k /\ k \in Nat /\ d \in Nat /\ k <= d
    OBVIOUS
  <2>4. b \in Ball(edges, n, k)
    BY <2>2, <2>3, TrailsAreWalks
  <2> QED  BY <2>3, <2>4, BallMonotone
<1>2. n \in Ball(edges, n, d)
  <2>1. Ball(edges, n, 0) \subseteq Ball(edges, n, d)
    BY BallMonotone
  <2> QED  BY <2>1, BallZero
<1>3. ASSUME NEW b \in Ball(edges, n, d), b # n PROVE b \in ends
  BY <1>3, TrailTo
<1>4. ASSUME NEW link \in used
      PROVE  link \in edges /\ (link.src \in inner \/ link.dst \in inner)
  <2>1. PICK k \in 1..d : \E t \in Trails(edges, n, k) : \E i \in 1..k : link = t[i].link
    OBVIOUS
  <2>2. PICK t \in Trails(edges, n, k), i \in 1..k : link = t[i].link
    BY <2>1
  <2>3. k \in Nat \ {0} /\ i - 1 \in Nat /\ d - 1 \in Nat /\ i - 1 <= d - 1
    OBVIOUS
  <2>4. /\ t[i].from \in Ball(edges, n, i - 1) /\ link \in edges
        /\ t[i].from = link.src \/ t[i].from = link.dst
    BY <2>2, <2>3, TrailsAreWalks
  <2>5. Ball(edges, n, i - 1) \subseteq inner
    BY <2>3, BallMonotone
  <2> QED  BY <2>4, <2>5
<1>5. ASSUME NEW link \in edges, link.src \in inner \/ link.dst \in inner PROVE link \in used
  <2>1. \E k \in 1..d : \E t \in Trails(edges, n, k) : \E i \in 1..k : t[i].link = link
    BY <1>5, TrailOver
  <2> QED  BY <2>1
<1> QED  BY <1>1, <1>2, <1>3, <1>4, <1>5

-----------------------------------------------------------------------------
(* Questions are what the invariant says of them.                           *)
LEMMA AnEndedSearch ==
  ASSUME Graphed(links'), stage' = "answered", SearchesAreExact'
  PROVE  QueriesInv'
BY DEF QueriesInv, CaseStages

LEMMA LinksInitInv ==
  ASSUME LinksInit
  PROVE  QueriesInv
BY DEF LinksInit, QueriesInv, Graphed, CaseStages, SearchesAreExact

LEMMA QueriesStutter ==
  ASSUME QueriesInv, UNCHANGED queryVars
  PROVE  QueriesInv'
<1> USE DEF queryVars, searchVars, roundVars, caseVars
<1>1. Graphed(links)' /\ (stage \in {"idle", "searching", "expanding", "between", "answered"})'
  BY DEF QueriesInv
<1>2. (stage \in {"idle", "between"} => hopsLeft = {})'
  BY DEF QueriesInv
<1>3. (stage = "searching" => InBreadth)'
  <2>1. InBreadth' <=> InBreadth
    BY DEF InBreadth, InMemory, QueueLevels, Closed, Queued, TargetsAhead
  <2> QED  BY <2>1 DEF QueriesInv
<1>4. (stage = "expanding" => Expanded)'
  <2>1. Expanded' <=> Expanded
    BY DEF Expanded, InMemory, NothingMissing, Near, LimitReached, Known, OncePerKey, OncePerEdge
  <2> QED  BY <2>1 DEF QueriesInv
<1>5. (CaseStages => CaseKept)'
  BY DEF QueriesInv, CaseStages, CaseKept, InMemory, OncePerEdge
<1>6. SearchesAreExact'
  <2>1. PathIsShortest' <=> PathIsShortest
    BY DEF PathIsShortest
  <2>2. NeighborhoodIsBall' <=> NeighborhoodIsBall
    BY DEF NeighborhoodIsBall
  <2>3. CaseGraphIsClosed' <=> CaseGraphIsClosed
    BY DEF CaseGraphIsClosed
  <2> QED  BY <2>1, <2>2, <2>3 DEF QueriesInv, SearchesAreExact
<1> QED  BY <1>1, <1>2, <1>3, <1>4, <1>5, <1>6 DEF QueriesInv

(* A graph that grows keeps its hops.                                      *)
LEMMA MoreHops ==
  ASSUME NEW edges, NEW more, edges \subseteq more, NEW n
  PROVE  Adjacency(edges, n) \subseteq Adjacency(more, n)
BY DEF Adjacency

LEMMA AddLinkInv ==
  ASSUME QueriesInv, AddLink
  PROVE  QueriesInv'
<1>1. /\ stage \in {"idle", "between"} /\ stage' = stage /\ asked' = asked /\ hopsLeft' = hopsLeft
      /\ entitiesLeft' = entitiesLeft /\ merged' = merged /\ links \subseteq links'
      /\ links' \subseteq LinkChoices
  BY DEF AddLink, searchVars, caseVars, QueriesInv, Graphed
<1>2. CASE stage = "idle"
  BY <1>1, <1>2 DEF QueriesInv, Graphed, CaseStages, SearchesAreExact
<1>3. CASE stage = "between"
  <2>1. CaseKept
    BY <1>3 DEF QueriesInv, CaseStages
  <2>2. \A n : Ball(links, n, asked.depth) \subseteq Ball(links', n, asked.depth)
    BY <1>1, BallOfMore
  <2>3. \A hop \in merged.edges : hop \in Adjacency(links', hop.from)
    BY <1>1, <2>1, MoreHops DEF CaseKept
  <2>4. CaseKept'
    BY <1>1, <1>3, <2>1, <2>2, <2>3 DEF CaseKept, InMemory, OncePerEdge
  <2> QED  BY <1>1, <1>3, <2>4 DEF QueriesInv, Graphed, SearchesAreExact
<1> QED  BY <1>1, <1>2, <1>3

(* The searches over the file.                                              *)
LEMMA AskPathInv ==
  ASSUME QueriesInv, NEW src \in Nodes, NEW dst \in Nodes, NEW depth \in Depths, AskPath(src, dst, depth)
  PROVE  QueriesInv'
<1>1. /\ stage = "idle" /\ asked' = Question("memory", "path", src, {dst}, depth, 1) /\ links' = links
      /\ stage' = "searching" /\ queue' = <<Entry(src, << >>)>> /\ visited' = {src} /\ hopsLeft' = hopsLeft
  BY DEF AskPath, Ask, StartSearch
<1>2. hopsLeft' = {} /\ Graphed(links) /\ depth \in Nat \ {0}
  BY <1>1, QueriesAssumption DEF QueriesInv
<1>3. InMemory' /\ asked'.kind = "path" /\ asked'.from = src
  BY <1>1, <1>2 DEF InMemory, Question
<1>4. InBreadth'
  BY <1>1, <1>2, <1>3, SearchBegins
<1> QED  BY <1>1, <1>2, <1>4 DEF QueriesInv, CaseStages, SearchesAreExact

LEMMA AskBadInv ==
  ASSUME QueriesInv, NEW n \in Nodes, NEW bad \in BadSets, NEW depth \in Depths, AskBad(n, bad, depth)
  PROVE  QueriesInv'
<1>1. /\ stage = "idle" /\ asked' = Question("memory", "bad", n, bad, depth, 1) /\ links' = links
  BY DEF AskBad, Ask
<1>2. hopsLeft = {} /\ Graphed(links) /\ depth \in Nat \ {0} /\ bad \subseteq Nodes
  BY <1>1, QueriesAssumption DEF QueriesInv
<1>3. /\ InMemory' /\ asked'.kind = "bad" /\ asked'.from = n /\ asked'.targets = bad /\ asked'.depth = depth
  BY <1>1, <1>2 DEF InMemory, Question
<1>4. CASE bad = {} \/ n \in bad
  <2>1. stage' = "answered" /\ answer' = Length(IF bad = {} THEN NoPath ELSE 0, << >>)
    BY <1>4 DEF AskBad, Answer
  <2>2. answer'.length = IF bad = {} THEN NoPath ELSE 0
    BY <2>1 DEF Length
  <2>3. IsDistance(links', answer'.length, asked'.from, asked'.targets, asked'.depth)
    <3>1. CASE bad = {}
      BY <1>3, <2>2, <3>1 DEF IsDistance
    <3>2. CASE bad # {} /\ n \in bad
      <4>1. Ball(links', n, 0) = {n} /\ 0 # -1 /\ 0 \in 0..depth
        BY <1>2, BallZero
      <4> QED  BY <1>3, <2>2, <3>2, <4>1 DEF IsDistance, NoPath
    <3> QED  BY <1>4, <3>1, <3>2
  <2>4. SearchesAreExact'
    BY <1>3, <2>1, <2>3 DEF SearchesAreExact, PathIsShortest, InMemory
  <2> QED  BY <1>1, <1>2, <2>1, <2>4, AnEndedSearch
<1>5. CASE ~ (bad = {} \/ n \in bad)
  <2>1. stage' = "searching" /\ queue' = <<Entry(n, << >>)>> /\ visited' = {n} /\ hopsLeft' = hopsLeft
    BY <1>5 DEF AskBad, StartSearch
  <2>2. InBreadth'
    BY <1>1, <1>2, <1>3, <1>5, <2>1, SearchBegins
  <2> QED  BY <1>1, <1>2, <2>1, <2>2 DEF QueriesInv, CaseStages, SearchesAreExact
<1> QED  BY <1>4, <1>5

LEMMA DequeueForPathInv ==
  ASSUME QueriesInv, DequeueForPath
  PROVE  QueriesInv'
<1>1. /\ stage = "searching" /\ asked.kind = "path" /\ hopsLeft = {} /\ queue # << >>
      /\ queue' = Tail(queue) /\ links' = links /\ asked' = asked /\ visited' = visited
  BY DEF DequeueForPath, Dequeuing
<1>2. Graphed(links) /\ InBreadth
  BY <1>1 DEF QueriesInv
<1>3. CASE Head(queue).node \in asked.targets
  <2>1. stage' = "answered" /\ answer' = Length(Len(Head(queue).path), Head(queue).path)
    BY <1>3 DEF DequeueForPath, Answer
  <2>2. answer'.length = Len(Head(queue).path) /\ answer'.path = Head(queue).path
    BY <2>1 DEF Length
  <2>3. SearchesAreExact'
    BY <1>1, <1>2, <1>3, <2>2, PathFound DEF SearchesAreExact, PathIsShortest, InBreadth, InMemory
  <2> QED  BY <1>1, <1>2, <2>1, <2>3, AnEndedSearch
<1>4. CASE Head(queue).node \notin asked.targets
  <2>1. stage' = "searching" /\ Explore(Head(queue))
    BY <1>1, <1>4 DEF DequeueForPath
  <2>2. InBreadth'
    BY <1>1, <1>2, <1>4, <2>1, NextOfQueueKeeps
  <2> QED  BY <1>1, <1>2, <2>1, <2>2 DEF QueriesInv, CaseStages, SearchesAreExact
<1> QED  BY <1>3, <1>4

LEMMA DequeueForBadInv ==
  ASSUME QueriesInv, DequeueForBad
  PROVE  QueriesInv'
<1>1. /\ stage = "searching" /\ asked.kind = "bad" /\ hopsLeft = {} /\ queue # << >> /\ stage' = stage
      /\ queue' = Tail(queue) /\ links' = links /\ asked' = asked /\ visited' = visited
      /\ Explore(Head(queue))
  BY DEF DequeueForBad, Dequeuing
<1>2. Graphed(links) /\ InBreadth
  BY <1>1 DEF QueriesInv
<1>3. InBreadth'
  BY <1>1, <1>2, NextOfQueueKeeps
<1> QED  BY <1>1, <1>2, <1>3 DEF QueriesInv, CaseStages, SearchesAreExact

LEMMA VisitForPathInv ==
  ASSUME QueriesInv, VisitForPath
  PROVE  QueriesInv'
<1>1. /\ stage = "searching" /\ asked.kind = "path" /\ stage' = stage
      /\ links' = links /\ asked' = asked /\ current' = current /\ \E hop \in hopsLeft : Visit(hop)
  BY DEF VisitForPath, Searching
<1>2. Graphed(links) /\ InBreadth
  BY <1>1 DEF QueriesInv
<1>3. InBreadth'
  BY <1>1, <1>2, VisitKeeps
<1> QED  BY <1>1, <1>2, <1>3 DEF QueriesInv, CaseStages, SearchesAreExact

LEMMA VisitForBadInv ==
  ASSUME QueriesInv, VisitForBad
  PROVE  QueriesInv'
<1>1. /\ stage = "searching" /\ asked.kind = "bad"
      /\ links' = links /\ asked' = asked /\ current' = current
  BY DEF VisitForBad, Searching
<1>2. Graphed(links) /\ InBreadth
  BY <1>1 DEF QueriesInv
<1>3. PICK hop \in hopsLeft :
        IF hop.to \in asked.targets
        THEN Answer(Length(Len(current.path) + 1, << >>)) /\ UNCHANGED <<queue, visited, hopsLeft>>
        ELSE Visit(hop) /\ UNCHANGED <<stage, answer>>
  BY DEF VisitForBad
<1>4. CASE hop.to \in asked.targets
  <2>1. stage' = "answered" /\ answer' = Length(Len(current.path) + 1, << >>)
    BY <1>3, <1>4 DEF Answer
  <2>2. answer'.length = Len(current.path) + 1
    BY <2>1 DEF Length
  <2>3. SearchesAreExact'
    BY <1>1, <1>2, <1>4, <2>2, BadFound DEF SearchesAreExact, PathIsShortest, InBreadth, InMemory
  <2> QED  BY <1>1, <1>2, <2>1, <2>3, AnEndedSearch
<1>5. CASE hop.to \notin asked.targets
  <2>1. stage' = "searching" /\ Visit(hop)
    BY <1>1, <1>3, <1>5
  <2>2. InBreadth'
    BY <1>1, <1>2, <1>5, <2>1, VisitKeeps
  <2> QED  BY <1>1, <1>2, <2>1, <2>2 DEF QueriesInv, CaseStages, SearchesAreExact
<1> QED  BY <1>4, <1>5

LEMMA ExhaustedInv ==
  ASSUME QueriesInv, Exhausted
  PROVE  QueriesInv'
<1>1. /\ stage = "searching" /\ hopsLeft = {} /\ queue = << >> /\ links' = links /\ asked' = asked
      /\ stage' = "answered" /\ answer' = Length(NoPath, << >>)
  BY DEF Exhausted, Answer
<1>2. Graphed(links) /\ InBreadth
  BY <1>1 DEF QueriesInv
<1>3. answer'.length = NoPath /\ ~ NoPath > 0
  BY <1>1 DEF Length, NoPath
<1>4. IsDistance(links', answer'.length, asked'.from, asked'.targets, asked'.depth)
  BY <1>1, <1>2, <1>3, NoneFound
<1>5. asked'.kind \in {"path", "bad"} /\ asked'.backend = "memory"
  BY <1>1, <1>2 DEF InBreadth, InMemory
<1>6. SearchesAreExact'
  BY <1>3, <1>4, <1>5 DEF SearchesAreExact, PathIsShortest
<1> QED  BY <1>1, <1>2, <1>6, AnEndedSearch

(* The neighbourhoods, and the graph of a case.                             *)
LEMMA AskNeighborhoodInv ==
  ASSUME QueriesInv, NEW n \in Nodes, NEW depth \in Depths, NEW limit \in Limits,
         AskNeighborhood(n, depth, limit)
  PROVE  QueriesInv'
<1>1. /\ stage = "idle" /\ asked' = Question("memory", "around", n, {n}, depth, limit) /\ ExpandFrom(n)
      /\ stage' = "expanding" /\ links' = links /\ hopsLeft' = hopsLeft
  BY DEF AskNeighborhood, ExpandFrom
<1>2. hopsLeft = {} /\ Graphed(links) /\ depth \in Nat \ {0} /\ limit \in Nat \ {0}
  BY <1>1, QueriesAssumption DEF QueriesInv
<1>3. InMemory' /\ asked'.kind = "around" /\ asked'.from = n
  BY <1>1, <1>2 DEF InMemory, Question
<1>4. Expanded'
  BY <1>1, <1>2, <1>3, ExpandBegins
<1> QED  BY <1>1, <1>2, <1>3, <1>4 DEF QueriesInv, CaseStages, SearchesAreExact

(* What a step within a neighbourhood leaves of the rest.                   *)
LEMMA ExpandingInv ==
  ASSUME QueriesInv, stage = "expanding", stage' = "expanding", Expanded',
         links' = links, asked' = asked, UNCHANGED caseVars
  PROVE  QueriesInv'
<1>1. (CaseStages => CaseKept)'
  BY DEF QueriesInv, CaseStages, CaseKept, InMemory, OncePerEdge, caseVars
<1> QED  BY <1>1 DEF QueriesInv, Graphed, SearchesAreExact

LEMMA TakeNodeInv ==
  ASSUME QueriesInv, TakeNode
  PROVE  QueriesInv'
<1>1. stage = "expanding" /\ stage' = stage /\ links' = links /\ asked' = asked /\ UNCHANGED caseVars
  BY DEF TakeNode
<1>2. Expanded'
  BY <1>1, TakeNodeKeeps DEF QueriesInv
<1> QED  BY <1>1, <1>2, ExpandingInv

LEMMA CollectHopInv ==
  ASSUME QueriesInv, CollectHop
  PROVE  QueriesInv'
<1>1. stage = "expanding" /\ stage' = stage /\ links' = links /\ asked' = asked /\ UNCHANGED caseVars
  BY DEF CollectHop
<1>2. Expanded'
  BY <1>1, CollectHopKeeps DEF QueriesInv
<1> QED  BY <1>1, <1>2, ExpandingInv

LEMMA NextRoundInv ==
  ASSUME QueriesInv, NextRound
  PROVE  QueriesInv'
<1>1. stage = "expanding" /\ stage' = stage /\ links' = links /\ asked' = asked /\ UNCHANGED caseVars
  BY DEF NextRound, RoundOver
<1>2. Expanded'
  BY <1>1, NextRoundKeeps DEF QueriesInv
<1> QED  BY <1>1, <1>2, ExpandingInv

LEMMA AnswerNeighborhoodInv ==
  ASSUME QueriesInv, AnswerNeighborhood
  PROVE  QueriesInv'
<1>1. /\ stage = "expanding" /\ Finished /\ asked.kind = "around" /\ links' = links /\ asked' = asked
      /\ stage' = "answered" /\ answer' = Neighborhood
  BY DEF AnswerNeighborhood, Answer, Finished, RoundOver
<1>2. Graphed(links) /\ Expanded
  BY <1>1 DEF QueriesInv
<1>3. asked.backend = "memory"
  BY <1>2 DEF Expanded, InMemory
<1>4. /\ Neighborhood.edges = shown /\ Neighborhood.cut = LimitReached
      /\ Neighborhood.nodes \subseteq Near(asked.depth)
      /\ shown \subseteq UNION {Adjacency(links, n) : n \in Near(asked.depth - 1)}
      /\ ~ LimitReached => /\ Neighborhood.nodes = Near(asked.depth)
                   /\ \A n \in Near(asked.depth - 1) : \A hop \in Adjacency(links, n) :
                        \E g \in shown : EdgeKey(g) = EdgeKey(hop)
      /\ LimitReached => Cardinality(shown) = asked.limit
      /\ OncePerKey(shown)
  BY <1>1, <1>2, FoundIsBall
<1>5. NeighborhoodIsBall'
  BY <1>1, <1>3, <1>4 DEF NeighborhoodIsBall, Near, OncePerKey
<1>6. SearchesAreExact'
  BY <1>1, <1>5 DEF SearchesAreExact
<1> QED  BY <1>1, <1>2, <1>6, AnEndedSearch

LEMMA AskCaseGraphInv ==
  ASSUME QueriesInv, NEW entities \in EntityLists, NEW depth \in Depths, AskCaseGraph(entities, depth)
  PROVE  QueriesInv'
<1> DEFINE n == IF Len(entities) < EntitiesShown THEN Len(entities) ELSE EntitiesShown
           entity_ids == SubSeq(entities, 1, n)
<1>1. /\ stage = "idle" /\ stage' = "between" /\ merged' = NoGraph /\ entitiesLeft' = entity_ids
      /\ asked' = Question("memory", "case", "none", ToSet(entity_ids), depth, NeighborhoodLimit)
      /\ links' = links /\ hopsLeft' = hopsLeft
  BY DEF AskCaseGraph, searchVars
<1>2. hopsLeft = {} /\ Graphed(links) /\ depth \in Nat \ {0} /\ entities \in Seq(Nodes)
  BY <1>1, QueriesAssumption DEF QueriesInv
<1>3. entity_ids \in Seq(Nodes)
  <2>1. n \in Nat /\ n <= Len(entities)
    BY <1>2 DEF EntitiesShown
  <2> HIDE DEF n
  <2> QED  BY <1>2, <2>1
<1> HIDE DEF entity_ids, n
<1>4. ToSet(entity_ids) \subseteq Nodes
  BY <1>3 DEF ToSet
<1>5. NeighborhoodLimit \in Nat \ {0}
  BY DEF NeighborhoodLimit
<1>6. InMemory' /\ asked'.kind = "case" /\ asked'.targets = ToSet(entity_ids)
  BY <1>1, <1>2, <1>4, <1>5 DEF InMemory, Question
<1>7. merged'.nodes = {} /\ merged'.edges = {}
  BY <1>1 DEF NoGraph, Graph
<1>8. CaseKept'
  BY <1>1, <1>3, <1>6, <1>7 DEF CaseKept, OncePerEdge
<1> QED  BY <1>1, <1>2, <1>8 DEF QueriesInv, SearchesAreExact

LEMMA NextEntityInv ==
  ASSUME QueriesInv, NextEntity
  PROVE  QueriesInv'
<1> DEFINE n == Head(entitiesLeft)
<1>1. /\ stage = "between" /\ entitiesLeft # << >> /\ asked' = [asked EXCEPT !.from = n]
      /\ entitiesLeft' = Tail(entitiesLeft) /\ merged' = merged /\ ExpandFrom(n)
      /\ stage' = "expanding" /\ links' = links /\ hopsLeft' = hopsLeft
  BY DEF NextEntity, ExpandFrom
<1>2. hopsLeft = {} /\ Graphed(links) /\ CaseKept
  BY <1>1 DEF QueriesInv, CaseStages
<1>3. /\ InMemory /\ asked.kind = "case" /\ entitiesLeft \in Seq(Nodes)
      /\ ToSet(entitiesLeft) \subseteq asked.targets
      /\ asked.targets \subseteq merged.nodes \cup ToSet(entitiesLeft)
      /\ \A m \in merged.nodes : \E b \in asked.targets : m \in Ball(links, b, asked.depth)
      /\ \A hop \in merged.edges : hop \in Adjacency(links, hop.from)
      /\ OncePerEdge(merged.edges)
      /\ ~ merged.cut => \A hop \in merged.edges : hop.from \in merged.nodes /\ hop.to \in merged.nodes
  BY <1>1, <1>2 DEF CaseKept
<1>4. /\ n \in Nodes /\ entitiesLeft' \in Seq(Nodes) /\ n = entitiesLeft[1] /\ 1 \in DOMAIN entitiesLeft
      /\ Len(entitiesLeft') = Len(entitiesLeft) - 1
      /\ \A i \in 1..Len(entitiesLeft') : entitiesLeft'[i] = entitiesLeft[i + 1] /\ i + 1 \in 1..Len(entitiesLeft)
  BY <1>1, <1>3
<1>5. ToSet(entitiesLeft) = {n} \cup ToSet(entitiesLeft')
  <2>1. ASSUME NEW i \in 1..Len(entitiesLeft), i # 1 PROVE entitiesLeft[i] \in ToSet(entitiesLeft')
    <3>1. i - 1 \in 1..Len(entitiesLeft') /\ (i - 1) + 1 = i
      BY <1>3, <1>4, <2>1
    <3>2. entitiesLeft'[i - 1] = entitiesLeft[i]
      BY <1>4, <3>1
    <3> QED  BY <1>4, <3>1, <3>2 DEF ToSet
  <2>2. \A i \in 1..Len(entitiesLeft') : entitiesLeft'[i] \in ToSet(entitiesLeft)
    BY <1>3, <1>4 DEF ToSet
  <2>3. n \in ToSet(entitiesLeft)
    BY <1>4 DEF ToSet
  <2>4. ToSet(entitiesLeft) \subseteq {n} \cup ToSet(entitiesLeft')
    <3>1. ASSUME NEW m \in ToSet(entitiesLeft) PROVE m = n \/ m \in ToSet(entitiesLeft')
      <4>1. PICK i \in 1..Len(entitiesLeft) : m = entitiesLeft[i]
        BY <1>3 DEF ToSet
      <4> QED  BY <1>4, <2>1, <4>1
    <3> QED  BY <3>1
  <2>5. ToSet(entitiesLeft') \subseteq ToSet(entitiesLeft)
    BY <1>4, <2>2 DEF ToSet
  <2> QED  BY <2>3, <2>4, <2>5
<1> HIDE DEF n
<1>6. /\ InMemory' /\ asked'.kind = "case" /\ asked'.from = n /\ asked'.targets = asked.targets
      /\ asked'.depth = asked.depth
  BY <1>1, <1>3, <1>4 DEF InMemory
<1>7. Expanded'
  BY <1>1, <1>2, <1>4, <1>6, ExpandBegins
<1>8. CaseKept'
  BY <1>1, <1>3, <1>4, <1>5, <1>6 DEF CaseKept, OncePerEdge
<1> QED  BY <1>1, <1>2, <1>7, <1>8 DEF QueriesInv, SearchesAreExact

LEMMA MergeNeighborhoodInv ==
  ASSUME QueriesInv, MergeNeighborhood
  PROVE  QueriesInv'
<1>1. /\ Finished /\ stage = "expanding" /\ hopsLeft = {} /\ asked.kind = "case" /\ stage' = "between"
      /\ merged' = Graph(merged.nodes \cup Neighborhood.nodes, Overwrite(merged.edges, latest),
                        merged.cut \/ Neighborhood.cut)
      /\ links' = links /\ asked' = asked /\ hopsLeft' = hopsLeft /\ entitiesLeft' = entitiesLeft
  BY DEF MergeNeighborhood, Finished, RoundOver, searchVars
<1>2. Graphed(links) /\ Expanded /\ CaseKept
  BY <1>1 DEF QueriesInv, CaseStages
<1>3. /\ InMemory /\ entitiesLeft \in Seq(Nodes) /\ ToSet(entitiesLeft) \subseteq asked.targets
      /\ asked.targets \subseteq merged.nodes \cup ToSet(entitiesLeft) \cup {asked.from}
      /\ asked.from \in asked.targets
      /\ \A m \in merged.nodes : \E b \in asked.targets : m \in Ball(links, b, asked.depth)
      /\ \A hop \in merged.edges : hop \in Adjacency(links, hop.from)
      /\ OncePerEdge(merged.edges)
      /\ ~ merged.cut => \A hop \in merged.edges : hop.from \in merged.nodes /\ hop.to \in merged.nodes
  BY <1>1, <1>2 DEF CaseKept
<1>4. /\ Neighborhood.edges = shown /\ Neighborhood.cut = LimitReached
      /\ Neighborhood.nodes \subseteq Ball(links, asked.from, asked.depth)
      /\ asked.from \in Neighborhood.nodes
      /\ ~ LimitReached => \A hop \in shown : hop.from \in Neighborhood.nodes /\ hop.to \in Neighborhood.nodes
      /\ shown \subseteq UNION {Adjacency(links, n) : n \in Near(asked.depth - 1)}
      /\ latest \subseteq shown /\ OncePerEdge(latest)
  BY <1>1, <1>2, FoundIsBall DEF Near
<1>5. /\ merged'.nodes = merged.nodes \cup Neighborhood.nodes
      /\ merged'.edges = Overwrite(merged.edges, latest)
      /\ merged'.cut = (merged.cut \/ Neighborhood.cut)
  BY <1>1 DEF Graph
<1>6. ~ merged'.cut => \A hop \in merged'.edges : hop.from \in merged'.nodes /\ hop.to \in merged'.nodes
  BY <1>3, <1>4, <1>5 DEF Overwrite
<1>11. \A hop \in merged'.edges : hop \in Adjacency(links, hop.from)
  <2>1. ASSUME NEW hop \in latest PROVE hop \in Adjacency(links, hop.from)
    <3>1. PICK n \in Near(asked.depth - 1) : hop \in Adjacency(links, n)
      BY <1>4
    <3>2. n \in Nodes
      BY DEF Near, Ball
    <3> QED  BY <1>2, <3>1, <3>2, HopsLeadToNeighbours
  <2> QED  BY <1>3, <1>5, <2>1 DEF Overwrite
<1>12. OncePerEdge(merged'.edges)
  BY <1>3, <1>4, <1>5 DEF Overwrite, OncePerEdge
<1>13. OncePerEdge(merged.edges)'
  BY <1>12 DEF OncePerEdge
<1>7. \A m \in merged'.nodes : \E b \in asked.targets : m \in Ball(links, b, asked.depth)
  BY <1>3, <1>4, <1>5
<1>8. asked.targets \subseteq merged'.nodes \cup ToSet(entitiesLeft)
  BY <1>3, <1>4, <1>5
<1>9. InMemory'
  BY <1>1, <1>3 DEF InMemory
<1>10. CaseKept'
  BY <1>1, <1>3, <1>6, <1>7, <1>8, <1>9, <1>11, <1>13 DEF CaseKept
<1> QED  BY <1>1, <1>2, <1>10 DEF QueriesInv, SearchesAreExact

LEMMA AnswerCaseGraphInv ==
  ASSUME QueriesInv, AnswerCaseGraph
  PROVE  QueriesInv'
<1>1. /\ stage = "between" /\ entitiesLeft = << >> /\ stage' = "answered" /\ answer' = merged
      /\ links' = links /\ asked' = asked
  BY DEF AnswerCaseGraph, Answer
<1>2. Graphed(links) /\ CaseKept
  BY <1>1 DEF QueriesInv, CaseStages
<1>3. ToSet(entitiesLeft) = {}
  BY <1>1 DEF ToSet
<1>4. CaseGraphIsClosed' /\ asked.kind = "case"
  BY <1>1, <1>2, <1>3 DEF CaseKept, CaseGraphIsClosed, OncePerEdge
<1>5. SearchesAreExact'
  BY <1>1, <1>4 DEF SearchesAreExact
<1> QED  BY <1>1, <1>2, <1>5, AnEndedSearch

LEMMA Neo4jNeighborhoodInv ==
  ASSUME QueriesInv, NEW n \in Nodes, NEW depth \in Depths, Neo4jNeighborhood(n, depth)
  PROVE  QueriesInv'
<1> DEFINE ends == UNION {{t[k].to : t \in Trails(links, n, k)} : k \in 1..depth}
           used == UNION {UNION {{t[i].link : i \in 1..k} : t \in Trails(links, n, k)} : k \in 1..depth}
           inner == Ball(links, n, depth - 1)
<1>1. /\ asked' = Question("neo4j", "around", n, {n}, depth, 1) /\ links' = links
      /\ stage' = "answered" /\ answer' = Graph({n} \cup ends, used, FALSE)
  BY DEF Neo4jNeighborhood, Ask, Neo4jAnswers, Answer
<1>2. Graphed(links) /\ depth \in Nat \ {0}
  BY QueriesAssumption DEF QueriesInv
<1>3. /\ {n} \cup ends = Ball(links, n, depth)
      /\ used = {link \in links : link.src \in inner \/ link.dst \in inner}
  BY <1>2, TrailsAreBall
<1> HIDE DEF ends, used
<1>4. /\ asked'.backend = "neo4j" /\ asked'.kind = "around" /\ asked'.from = n /\ asked'.depth = depth
      /\ answer'.nodes = {n} \cup ends /\ answer'.edges = used /\ answer'.cut = FALSE
  BY <1>1 DEF Question, Graph
<1>5. NeighborhoodIsBall'
  BY <1>1, <1>3, <1>4 DEF NeighborhoodIsBall
<1>6. SearchesAreExact'
  BY <1>4, <1>5 DEF SearchesAreExact
<1> QED  BY <1>1, <1>2, <1>6, AnEndedSearch

LEMMA Neo4jLengthInv ==
  ASSUME QueriesInv, NEW kind \in {"path", "bad"}, NEW n \in Nodes, NEW targets, NEW depth \in Depths,
         Neo4jLength(kind, n, targets, depth)
  PROVE  QueriesInv'
<1> DEFINE found == Shortest(links, n, targets, depth)
<1>1. asked' = Question("neo4j", kind, n, targets, depth, 1) /\ links' = links
  BY DEF Neo4jLength, Ask
<1>2. PICK length \in IF n \in targets THEN {Raised} ELSE IF found = {} THEN {NoPath} ELSE found :
        stage' = "answered" /\ answer' = Length(length, << >>)
  BY DEF Neo4jLength, Neo4jAnswers, Answer
<1>3. Graphed(links) /\ depth \in Nat \ {0}
  BY QueriesAssumption DEF QueriesInv
<1>4. IF n \in targets THEN length = Raised ELSE IsDistance(links, length, n, targets, depth)
  BY <1>2, <1>3, ShortestIsDistance
<1>5. /\ asked'.backend = "neo4j" /\ asked'.kind = kind /\ asked'.from = n /\ asked'.targets = targets
      /\ asked'.depth = depth /\ answer'.length = length
  BY <1>1, <1>2 DEF Question, Length
<1>6. SearchesAreExact'
  BY <1>1, <1>2, <1>4, <1>5 DEF SearchesAreExact, PathIsShortest
<1> QED  BY <1>1, <1>2, <1>3, <1>6, AnEndedSearch

LEMMA CloseInv ==
  ASSUME QueriesInv, Close
  PROVE  QueriesInv'
BY DEF QueriesInv, Close, Graphed, CaseStages, SearchesAreExact

(* SearchesAreExact, of every graph, question and order of edges: a path is *)
(* found exactly when there is one, and is a shortest one, in either backend*)
(* but for a node and itself, where Neo4j raises; a neighbourhood below its *)
(* limit is exact; no edge leads out of the graph of a case, and none is in *)
(* it twice.                                                                *)
THEOREM SearchesStayExact == QueriesSpec => []SearchesAreExact
<1>1. LinksInit => QueriesInv
  BY LinksInitInv
<1>2. QueriesInv /\ [QueriesNext]_queryVars => QueriesInv'
  <2> SUFFICES ASSUME QueriesInv, [QueriesNext]_queryVars
               PROVE  QueriesInv'
    OBVIOUS
  <2>1. CASE AddLink
    BY <2>1, AddLinkInv
  <2>2. CASE \E n \in Nodes, depth \in Depths, dst \in Nodes : AskPath(n, dst, depth)
    BY <2>2, AskPathInv
  <2>3. CASE \E n \in Nodes, depth \in Depths, dst \in Nodes : Neo4jLength("path", n, {dst}, depth)
    BY <2>3, Neo4jLengthInv
  <2>4. CASE \E n \in Nodes, depth \in Depths, bad \in BadSets : AskBad(n, bad, depth)
    BY <2>4, AskBadInv
  <2>5. CASE \E n \in Nodes, depth \in Depths, bad \in BadSets : Neo4jLength("bad", n, bad, depth)
    BY <2>5, Neo4jLengthInv
  <2>6. CASE \E n \in Nodes, depth \in Depths, limit \in Limits : AskNeighborhood(n, depth, limit)
    BY <2>6, AskNeighborhoodInv
  <2>7. CASE \E n \in Nodes, depth \in Depths : Neo4jNeighborhood(n, depth)
    BY <2>7, Neo4jNeighborhoodInv
  <2>8. CASE \E entities \in EntityLists, depth \in Depths : AskCaseGraph(entities, depth)
    BY <2>8, AskCaseGraphInv
  <2>9. CASE DequeueForPath \/ VisitForPath \/ DequeueForBad \/ VisitForBad \/ Exhausted
    BY <2>9, DequeueForPathInv, VisitForPathInv, DequeueForBadInv, VisitForBadInv, ExhaustedInv
  <2>10. CASE TakeNode \/ CollectHop \/ NextRound \/ AnswerNeighborhood
    BY <2>10, TakeNodeInv, CollectHopInv, NextRoundInv, AnswerNeighborhoodInv
  <2>11. CASE NextEntity \/ MergeNeighborhood \/ AnswerCaseGraph
    BY <2>11, NextEntityInv, MergeNeighborhoodInv, AnswerCaseGraphInv
  <2>12. CASE Close
    BY <2>12, CloseInv
  <2>13. CASE UNCHANGED queryVars
    BY <2>13, QueriesStutter
  <2> QED
    BY <2>1, <2>2, <2>3, <2>4, <2>5, <2>6, <2>7, <2>8, <2>9, <2>10, <2>11, <2>12, <2>13 DEF QueriesNext
<1>3. QueriesInv => SearchesAreExact
  BY DEF QueriesInv
<1> QED  BY <1>1, <1>2, <1>3, PTL DEF QueriesSpec
=============================================================================
