---------------------------- MODULE GatewayProofs ----------------------------
(***************************************************************************)
(* The gateway: its listings, for any rows and page size, its rate limiter, *)
(* for any clients, limit, window and clock resolution, and its scenario    *)
(* runs, for any number of them and of events.                              *)
(***************************************************************************)
EXTENDS GatewayReads, RateLimiter, DemoPipeline, FiniteSetTheorems, TLAPS

-----------------------------------------------------------------------------
(* Listings.  The inductive invariant: no two rows changed at the same      *)
(* time, only rows that are there fit, and the client has missed no more    *)
(* rows than have left.                                                     *)
TimesDiffer ==
  \A i, j \in Rows : updated[i] = updated[j] /\ updated[i] # 0 => i = j

FittingIsThere == \A i \in fitting : updated[i] # 0

ReadsInv ==
  /\ ReadsTypeOK
  /\ TimesDiffer
  /\ FittingIsThere
  /\ PagesMissOnlyWhatMovedUp

(* The rows ahead of one are finitely many, itself among them.              *)
LEMMA RankIsCount ==
  ASSUME ReadsAssumption, ReadsTypeOK, NEW rows \in SUBSET Rows, NEW i \in Rows
  PROVE  /\ Ahead(i, rows) \in SUBSET rows /\ IsFiniteSet(Ahead(i, rows))
         /\ Rank(i, rows) \in Nat
         /\ i \in rows => i \in Ahead(i, rows) /\ Rank(i, rows) >= 1
<1>1. Ahead(i, rows) \in SUBSET rows /\ Ahead(i, rows) \in SUBSET Rows
  BY DEF Ahead
<1>2. IsFiniteSet(Ahead(i, rows))
  BY <1>1, FS_Subset DEF ReadsAssumption
<1>3. Rank(i, rows) \in Nat
  BY <1>2, FS_CardinalityType DEF Rank
<1>4. ASSUME i \in rows PROVE i \in Ahead(i, rows) /\ Rank(i, rows) >= 1
  <2>1. i \in Ahead(i, rows)
    BY <1>4 DEF Ahead, ReadsTypeOK
  <2>2. Cardinality(Ahead(i, rows)) # 0
    BY <1>2, <2>1, FS_EmptySet
  <2> QED  BY <1>3, <2>1, <2>2 DEF Rank
<1> QED  BY <1>1, <1>2, <1>3, <1>4

(* Fewer rows ahead, a lower rank.                                          *)
LEMMA RankGrows ==
  ASSUME NEW small, NEW big, IsFiniteSet(big), small \subseteq big
  PROVE  /\ Cardinality(small) \in Nat /\ Cardinality(big) \in Nat
         /\ Cardinality(small) <= Cardinality(big)
         /\ Cardinality(small) = Cardinality(big) => small = big
BY FS_Subset, FS_CardinalityType

(* No two rows of a listing have the same rank.                             *)
LEMMA RanksDiffer ==
  ASSUME ReadsAssumption, ReadsTypeOK, TimesDiffer, NEW rows \in SUBSET Rows,
         \A i \in rows : updated[i] # 0,
         NEW i \in rows, NEW j \in rows, Rank(i, rows) = Rank(j, rows)
  PROVE  i = j
<1>1. updated[i] \in Int /\ updated[j] \in Int
  BY DEF ReadsTypeOK
<1>2. \A k \in rows : updated[k] \in Int
  BY DEF ReadsTypeOK
<1>3. i \in Ahead(i, rows) /\ j \in Ahead(j, rows)
  BY RankIsCount
<1>4. IsFiniteSet(Ahead(i, rows)) /\ IsFiniteSet(Ahead(j, rows))
  BY RankIsCount
<1>5. CASE updated[i] >= updated[j]
  <2>1. Ahead(i, rows) \subseteq Ahead(j, rows)
    BY <1>1, <1>2, <1>5 DEF Ahead
  <2>2. Ahead(i, rows) = Ahead(j, rows)
    BY <2>1, <1>4, RankGrows DEF Rank
  <2>3. updated[j] >= updated[i]
    BY <2>2, <1>3 DEF Ahead
  <2> QED  BY <1>1, <1>5, <2>3 DEF TimesDiffer
<1>6. CASE updated[j] >= updated[i]
  <2>1. Ahead(j, rows) \subseteq Ahead(i, rows)
    BY <1>1, <1>2, <1>6 DEF Ahead
  <2>2. Ahead(i, rows) = Ahead(j, rows)
    BY <2>1, <1>4, RankGrows DEF Rank
  <2>3. updated[i] >= updated[j]
    BY <2>2, <1>3 DEF Ahead
  <2> QED  BY <1>1, <1>6, <2>3 DEF TimesDiffer
<1> QED  BY <1>1, <1>5, <1>6

(* A cut of the newest rows of a listing leaves the ranks of its rows as    *)
(* they are in what a search finds.                                         *)
LEMMA NewestKeepsRank ==
  ASSUME ReadsAssumption, ReadsTypeOK, NEW m \in Nat, NEW i \in Found, Rank(i, fitting) <= m
  PROVE  /\ i \in Search(query_events(m))
         /\ Rank(i, Search(query_events(m))) = Rank(i, Found)
<1>1. fitting \in SUBSET Rows /\ Found \in SUBSET fitting
  BY DEF ReadsTypeOK, Found, Search
<1>2. \A k \in Rows : updated[k] \in Int
  BY DEF ReadsTypeOK
<1>3. ASSUME NEW k \in fitting, updated[k] >= updated[i] PROVE k \in query_events(m)
  <2>1. Ahead(k, fitting) \subseteq Ahead(i, fitting)
    BY <1>1, <1>2, <1>3 DEF Ahead
  <2>2. Rank(k, fitting) <= Rank(i, fitting)
    <3>1. IsFiniteSet(Ahead(i, fitting))
      BY <1>1, RankIsCount
    <3> QED  BY <2>1, <3>1, RankGrows DEF Rank
  <2>3. Rank(k, fitting) \in Nat /\ Rank(k, fitting) >= 1 /\ Rank(i, fitting) \in Nat
    BY <1>1, RankIsCount
  <2> QED  BY <2>2, <2>3 DEF query_events, Page
<1>4. i \in query_events(m)
  BY <1>1, <1>2, <1>3
<1>5. query_events(m) \in SUBSET fitting
  BY DEF query_events, Page
<1>6. \A k \in fitting : k \in Found <=> (query => k \in worded)
  BY DEF Found, Search
<1>7. \A k \in query_events(m) : k \in Search(query_events(m)) <=> (query => k \in worded)
  BY DEF Search
<1>8. Search(query_events(m)) \in SUBSET query_events(m)
  BY DEF Search
<1>9. Ahead(i, Search(query_events(m))) = Ahead(i, Found)
  BY <1>1, <1>3, <1>5, <1>6, <1>7, <1>8 DEF Ahead
<1> QED  BY <1>1, <1>4, <1>6, <1>7, <1>9 DEF Rank

(* What a request shows: the rows found whose rank is on its page, of audit *)
(* events those among as many of the newest as it asks for.                 *)
LEMMA PageShows ==
  ASSUME ReadsAssumption, ReadsTypeOK, sync \/ listing = "alerts", NEW from \in Nat,
         NEW i \in Found, Searched(i), Rank(i, Found) > from, Rank(i, Found) <= from + PageSize
  PROVE  i \in Shown(from, PageSize)
<1>0. PageSize \in Nat
  BY DEF ReadsAssumption
<1>1. Fetched(fitting) = fitting /\ \A rows : Fetched(rows) = rows
  BY DEF Fetched
<1>2. CASE listing = "alerts"
  BY <1>1, <1>2 DEF Shown, list_alerts, Page, Found
<1>3. CASE listing = "cases"
  BY <1>1, <1>3 DEF Shown, list_cases, Page, Found
<1>4. CASE listing = "audit"
  <2>1. Rank(i, fitting) <= PageSize + from
    <3>1. CASE query
      <4>1. i \in Rows /\ fitting \in SUBSET Rows
        BY DEF Found, Search, ReadsTypeOK
      <4>2. Rank(i, fitting) <= PageSize /\ Rank(i, fitting) \in Nat
        BY <1>4, <3>1, <4>1, RankIsCount DEF Searched
      <4> QED  BY <1>0, <4>2
    <3>2. CASE ~query
      <4>1. Found = fitting
        BY <3>2 DEF Found, Search
      <4> QED  BY <1>0, <4>1
    <3> QED  BY <3>1, <3>2
  <2>2. PageSize + from \in Nat
    BY <1>0
  <2>3. /\ i \in Search(query_events(PageSize + from))
        /\ Rank(i, Search(query_events(PageSize + from))) = Rank(i, Found)
    BY <2>1, <2>2, NewestKeepsRank
  <2>4. list_audit(from, PageSize) =
          Page(Search(query_events(PageSize + from)), from, PageSize)
    BY <1>1 DEF list_audit
  <2>5. i \in list_audit(from, PageSize)
    BY <2>3, <2>4 DEF Page
  <2> QED  BY <1>4, <2>5 DEF Shown
<1> QED  BY <1>2, <1>3, <1>4 DEF ReadsTypeOK

-----------------------------------------------------------------------------
(* Nothing has been asked for.                                             *)
LEMMA ReadsInitInv == ReadsAssumption /\ ReadsInit => ReadsInv
<1> SUFFICES ASSUME ReadsAssumption, ReadsInit PROVE ReadsInv
  OBVIOUS
<1>1. ReadsTypeOK /\ TimesDiffer /\ FittingIsThere
  BY DEF ReadsInit, ReadsTypeOK, TimesDiffer, FittingIsThere
<1>2. Missed = {}
  BY DEF ReadsInit, Missed, Found, Search
<1>3. Cardinality(Missed) = 0
  BY <1>2, FS_EmptySet
<1> QED  BY <1>1, <1>3 DEF ReadsInit, ReadsInv, PagesMissOnlyWhatMovedUp

(* The row written is the newest; the others keep their times.             *)
LEMMA WriteKeepsTimes ==
  ASSUME ReadsAssumption, ReadsInv, NEW i \in Rows, Write(i)
  PROVE  ReadsTypeOK' /\ TimesDiffer' /\ FittingIsThere'
<1> USE DEF ReadsInv, ReadsTypeOK
<1>1. /\ changes' = changes + 1 /\ updated' = [updated EXCEPT ![i] = changes + 1]
      /\ fitting' \in {fitting \cup {i}, fitting \ {i}} /\ worded' \in SUBSET Rows
      /\ left' \in {left, left + 1}
      /\ UNCHANGED <<listing, sync, query, since, offset, seen>>
  BY DEF Write, client
<1>2. changes \in Nat /\ updated \in [Rows -> 0..changes]
  OBVIOUS
<1>3. \A j \in Rows : updated'[j] = IF j = i THEN changes + 1 ELSE updated[j]
  BY <1>1, <1>2
<1>4. updated' \in [Rows -> 0..changes']
  BY <1>1, <1>2
<1>5. since \in 0..changes'
  BY <1>1, <1>2
<1>6. left' \in Nat
  BY <1>1
<1>7. ReadsTypeOK'
  BY <1>1, <1>2, <1>4, <1>5, <1>6
<1>8. TimesDiffer'
  BY <1>2, <1>3 DEF TimesDiffer
<1>9. FittingIsThere'
  BY <1>1, <1>2, <1>3 DEF FittingIsThere
<1> QED  BY <1>7, <1>8, <1>9

(* A row is written: what the client missed before, and, where the row has  *)
(* left the listing, the one that slips onto the last page read.            *)
LEMMA WriteInv ==
  ASSUME ReadsAssumption, ReadsInv, NEW i \in Rows, Write(i), Add(i) \/ Change(i)
  PROVE  ReadsInv'
<1>1. ReadsTypeOK' /\ TimesDiffer' /\ FittingIsThere'
  BY WriteKeepsTimes
<1>2. /\ changes' = changes + 1 /\ updated' = [updated EXCEPT ![i] = changes + 1]
      /\ fitting' \in {fitting \cup {i}, fitting \ {i}}
      /\ worded' \in {worded \cup {i}, worded \ {i}, worded}
      /\ left' = IF i \in Found /\ i \notin Found' THEN left + 1 ELSE left
      /\ UNCHANGED <<listing, sync, query, since, offset, seen>>
  BY DEF Write, client
<1>3. /\ changes \in Nat /\ updated \in [Rows -> 0..changes] /\ since \in 0..changes
      /\ left \in Nat /\ offset \in Nat /\ fitting \in SUBSET Rows
  BY DEF ReadsInv, ReadsTypeOK
<1>4. \A j \in Rows : updated'[j] = IF j = i THEN changes + 1 ELSE updated[j]
  BY <1>2, <1>3
<1>5. \A j : j # i => (j \in Found' <=> j \in Found) /\ (j \in fitting' <=> j \in fitting)
  BY <1>2 DEF Found, Search
<1>6. Found \in SUBSET Rows /\ Found' \in SUBSET Rows /\ fitting' \in SUBSET Rows
  BY <1>1, <1>3 DEF Found, Search, ReadsTypeOK
<1>7. listing = "audit" => i \notin fitting /\ i \notin Found
  BY <1>2 DEF Add, Change, ReadsInv, FittingIsThere, Found, Search
<1>8. ASSUME NEW j \in Missed'
      PROVE  /\ j # i /\ j \in Found /\ updated[j] <= since /\ j \notin seen
             /\ Rank(j, Found)' <= offset
  <2>1. j \in Found' /\ updated'[j] <= since /\ j \notin seen /\ Rank(j, Found)' <= offset
    BY <1>2, <1>8 DEF Missed
  <2>2. j # i
    BY <2>1, <1>3, <1>4, <1>6
  <2> QED  BY <2>1, <2>2, <1>4, <1>5, <1>6
<1>9. ASSUME NEW j \in Rows \ {i}, NEW rows \in SUBSET Rows, NEW after \in SUBSET Rows,
             \A k : k # i => (k \in after <=> k \in rows)
      PROVE  /\ {k \in after : updated'[k] >= updated'[j]} \ {i} = Ahead(j, rows) \ {i}
             /\ i \in after => i \in {k \in after : updated'[k] >= updated'[j]}
  BY <1>3, <1>4, <1>9 DEF Ahead
<1>10. ASSUME NEW j \in Missed' PROVE Searched(j)
  <2>1. CASE ~(listing = "audit" /\ query)
    BY <2>1 DEF Searched
  <2>2. CASE listing = "audit" /\ query
    <3>1. j \in Rows \ {i} /\ Rank(j, fitting)' <= PageSize
      BY <1>2, <1>6, <1>8, <1>10, <2>2 DEF Missed, Searched
    <3>2. Ahead(j, fitting) \subseteq Ahead(j, fitting)'
      <4>1. i \notin Ahead(j, fitting)
        BY <1>7, <2>2 DEF Ahead
      <4> QED  BY <1>3, <1>5, <1>6, <1>9, <3>1, <4>1 DEF Ahead
    <3>3. IsFiniteSet(Ahead(j, fitting)')
      <4>1. Ahead(j, fitting)' \in SUBSET Rows
        BY <1>6 DEF Ahead
      <4> QED  BY <4>1, FS_Subset DEF ReadsAssumption
    <3>4. Rank(j, fitting) <= Rank(j, fitting)' /\ Rank(j, fitting) \in Int /\ Rank(j, fitting)' \in Int
      BY <3>2, <3>3, RankGrows DEF Rank
    <3>5. PageSize \in Int
      BY DEF ReadsAssumption
    <3> QED  BY <3>1, <3>4, <3>5 DEF Searched
  <2> QED  BY <2>1, <2>2
<1>11. ASSUME NEW j \in Missed'
       PROVE  IsFiniteSet(Ahead(j, Found)') /\ Rank(j, Found)' \in Nat /\ Rank(j, Found) \in Nat
  <2>1. Ahead(j, Found)' \in SUBSET Rows
    BY <1>6 DEF Ahead
  <2>2. IsFiniteSet(Ahead(j, Found)')
    BY <2>1, FS_Subset DEF ReadsAssumption
  <2>3. Rank(j, Found)' \in Nat
    BY <2>2, FS_CardinalityType DEF Rank
  <2>4. Rank(j, Found) \in Nat
    BY <1>6, <1>8, RankIsCount DEF ReadsInv
  <2> QED  BY <2>2, <2>3, <2>4
<1>12. CASE i \in Found => i \in Found'
  <2>1. ASSUME NEW j \in Missed' PROVE j \in Missed
    <3>1. j \in Rows \ {i}
      BY <1>6, <1>8
    <3>2. Ahead(j, Found) \subseteq Ahead(j, Found)'
      <4>1. i \in Ahead(j, Found) => i \in Found
        BY DEF Ahead
      <4> QED  BY <1>5, <1>6, <1>9, <1>12, <3>1, <4>1 DEF Ahead
    <3>3. Rank(j, Found) <= Rank(j, Found)'
      BY <1>11, <3>2, RankGrows DEF Rank
    <3>4. Rank(j, Found) <= offset
      BY <1>3, <1>8, <1>11, <3>3
    <3> QED  BY <1>8, <1>10, <3>4 DEF Missed
  <2>2. left' = left
    BY <1>2, <1>12
  <2>3. Missed' \subseteq Missed
    BY <2>1
  <2>4. IsFiniteSet(Missed)
    <3>1. Missed \in SUBSET Rows
      BY <1>6 DEF Missed
    <3> QED  BY <3>1, FS_Subset DEF ReadsAssumption
  <2>5. Cardinality(Missed') <= Cardinality(Missed) /\ Cardinality(Missed') \in Int
        /\ Cardinality(Missed) \in Int
    BY <2>3, <2>4, RankGrows
  <2>6. PagesMissOnlyWhatMovedUp'
    <3> SUFFICES ASSUME sync \/ listing = "alerts" PROVE Cardinality(Missed') <= left'
      BY <1>2 DEF PagesMissOnlyWhatMovedUp
    <3>1. Cardinality(Missed) <= left
      BY DEF ReadsInv, PagesMissOnlyWhatMovedUp
    <3> QED  BY <2>2, <2>5, <3>1, <1>3
  <2> QED  BY <1>1, <2>6 DEF ReadsInv
<1>13. CASE i \in Found /\ i \notin Found'
  <2>0. left' = left + 1 /\ listing # "audit"
    BY <1>2, <1>7, <1>13
  <2> DEFINE next == {j \in Found : Rank(j, Found) = offset + 1}
  <2>1. ASSUME NEW j \in Missed' PROVE j \in Missed \cup next
    <3>1. j \in Rows \ {i}
      BY <1>6, <1>8
    <3>2. Ahead(j, Found) \ {i} \subseteq Ahead(j, Found)'
      BY <1>5, <1>6, <1>9, <3>1 DEF Ahead
    <3>3. IsFiniteSet(Ahead(j, Found))
      BY <1>6, <3>1, RankIsCount DEF ReadsInv
    <3>4. Cardinality(Ahead(j, Found) \ {i}) >= Rank(j, Found) - 1
          /\ Cardinality(Ahead(j, Found) \ {i}) \in Int
      <4>1. /\ IsFiniteSet(Ahead(j, Found) \ {i})
            /\ Cardinality(Ahead(j, Found) \ {i}) =
                 IF i \in Ahead(j, Found) THEN Cardinality(Ahead(j, Found)) - 1
                 ELSE Cardinality(Ahead(j, Found))
        BY <3>3, FS_RemoveElement
      <4>2. Cardinality(Ahead(j, Found)) \in Int
        BY <3>3, FS_CardinalityType
      <4> QED  BY <4>1, <4>2 DEF Rank
    <3>5. Cardinality(Ahead(j, Found) \ {i}) <= Rank(j, Found)'
      BY <1>11, <3>2, RankGrows DEF Rank
    <3>6. Rank(j, Found) <= offset + 1
      BY <1>3, <1>8, <1>11, <3>4, <3>5
    <3>7. Rank(j, Found) <= offset \/ Rank(j, Found) = offset + 1
      BY <1>3, <1>11, <3>6
    <3> QED  BY <1>8, <1>10, <3>7 DEF Missed
  <2>2. \A j, k \in next : j = k
    <3>1. \A j \in Found : updated[j] # 0
      BY DEF ReadsInv, FittingIsThere, Found, Search
    <3> QED  BY <1>6, <3>1, RanksDiffer DEF ReadsInv
  <2>3. PICK x : next \subseteq {x}
    BY <2>2
  <2>4. IsFiniteSet(Missed)
    <3>1. Missed \in SUBSET Rows
      BY <1>6 DEF Missed
    <3> QED  BY <3>1, FS_Subset DEF ReadsAssumption
  <2>5. /\ IsFiniteSet(Missed \cup {x}) /\ Cardinality(Missed) \in Int
        /\ Cardinality(Missed \cup {x}) <= Cardinality(Missed) + 1
    <3>1. /\ IsFiniteSet(Missed \cup {x})
          /\ Cardinality(Missed \cup {x}) =
               IF x \in Missed THEN Cardinality(Missed) ELSE Cardinality(Missed) + 1
      BY <2>4, FS_AddElement
    <3>2. Cardinality(Missed) \in Int
      BY <2>4, FS_CardinalityType
    <3> QED  BY <3>1, <3>2
  <2>6. Cardinality(Missed') <= Cardinality(Missed \cup {x}) /\ Cardinality(Missed') \in Int
        /\ Cardinality(Missed \cup {x}) \in Int
    <3>1. Missed' \subseteq Missed \cup {x}
      BY <2>1, <2>3
    <3> QED  BY <2>5, <3>1, RankGrows
  <2>7. PagesMissOnlyWhatMovedUp'
    <3> SUFFICES ASSUME sync \/ listing = "alerts" PROVE Cardinality(Missed') <= left'
      BY <1>2 DEF PagesMissOnlyWhatMovedUp
    <3>1. Cardinality(Missed) <= left
      BY DEF ReadsInv, PagesMissOnlyWhatMovedUp
    <3> QED  BY <2>0, <2>5, <2>6, <3>1, <1>3
  <2> QED  BY <1>1, <2>7 DEF ReadsInv
<1> QED  BY <1>12, <1>13

(* What is asked for without a change: the rows stay as they are.           *)
LEMMA AskingKeepsTimes ==
  ASSUME ReadsAssumption, ReadsInv, UNCHANGED <<listing, sync, query, listed>>,
         since' \in 0..changes, offset' \in Nat, left' \in Nat, seen' \in SUBSET Rows
  PROVE  /\ ReadsTypeOK' /\ TimesDiffer' /\ FittingIsThere'
         /\ Found' = Found /\ \A i, rows : Rank(i, rows)' = Rank(i, rows)
         /\ \A i : Searched(i)' <=> Searched(i)
<1>1. UNCHANGED <<listing, sync, query, updated, fitting, worded, changes>>
  BY DEF listed
<1>2. ReadsTypeOK' /\ TimesDiffer' /\ FittingIsThere'
  BY <1>1 DEF ReadsInv, ReadsTypeOK, TimesDiffer, FittingIsThere
<1>3. Found' = Found /\ \A i, rows : Rank(i, rows)' = Rank(i, rows)
  BY <1>1 DEF Found, Search, Rank, Ahead
<1>4. \A i : Searched(i)' <=> Searched(i)
  BY <1>1 DEF Searched, Rank, Ahead
<1> QED  BY <1>2, <1>3, <1>4

(* A page holds rows.                                                      *)
LEMMA ShownIsRows ==
  ASSUME ReadsTypeOK, NEW from, NEW limit PROVE Shown(from, limit) \in SUBSET Rows
<1>1. fitting \in SUBSET Rows
  BY DEF ReadsTypeOK
<1>2. ASSUME NEW rows \in SUBSET Rows
      PROVE  /\ Page(rows, from, limit) \in SUBSET Rows /\ Search(rows) \in SUBSET Rows
             /\ Fetched(rows) \in SUBSET Rows
  BY DEF Page, Search, Fetched
<1>3. query_events(limit + from) \in SUBSET Rows
  BY <1>1 DEF query_events, Page
<1>4. list_alerts(from, limit) \in SUBSET Rows
  BY <1>1, <1>2 DEF list_alerts
<1>5. list_cases(from, limit) \in SUBSET Rows
  BY <1>1, <1>2 DEF list_cases
<1>6. list_audit(from, limit) \in SUBSET Rows
  BY <1>2, <1>3 DEF list_audit
<1> QED  BY <1>4, <1>5, <1>6 DEF Shown, ReadsTypeOK

(* The first page misses nothing.                                          *)
LEMMA FirstPageInv == ASSUME ReadsAssumption, ReadsInv, FirstPage PROVE ReadsInv'
<1>1. /\ since' = changes /\ offset' = PageSize /\ seen' = Shown(0, PageSize) /\ left' = 0
      /\ UNCHANGED <<listing, sync, query, listed>>
  BY DEF FirstPage
<1>2. changes \in Nat /\ PageSize \in Nat /\ ReadsTypeOK
  BY DEF ReadsInv, ReadsTypeOK, ReadsAssumption
<1>3. since' \in 0..changes /\ offset' \in Nat /\ left' \in Nat /\ seen' \in SUBSET Rows
  BY <1>1, <1>2, ShownIsRows
<1>4. /\ ReadsTypeOK' /\ TimesDiffer' /\ FittingIsThere'
      /\ Found' = Found /\ \A i, rows : Rank(i, rows)' = Rank(i, rows)
      /\ \A i : Searched(i)' <=> Searched(i)
  BY <1>1, <1>3, AskingKeepsTimes
<1>5. ASSUME sync \/ listing = "alerts", NEW i \in Missed' PROVE FALSE
  <2>1. i \in Found /\ Rank(i, Found) <= PageSize /\ Searched(i) /\ i \notin Shown(0, PageSize)
    BY <1>1, <1>4, <1>5 DEF Missed
  <2>2. Rank(i, Found) \in Nat /\ Rank(i, Found) >= 1
    <3>1. Found \in SUBSET Rows
      BY <1>2 DEF Found, Search, ReadsTypeOK
    <3> QED  BY <1>2, <2>1, <3>1, RankIsCount
  <2>3. Rank(i, Found) > 0 /\ Rank(i, Found) <= 0 + PageSize /\ 0 \in Nat
    BY <1>2, <2>1, <2>2
  <2>4. PICK from \in Nat : from = 0
    OBVIOUS
  <2>5. i \in Shown(from, PageSize)
    BY <1>2, <1>5, <2>1, <2>3, <2>4, PageShows
  <2> QED  BY <2>1, <2>4, <2>5
<1>6. PagesMissOnlyWhatMovedUp'
  <2> SUFFICES ASSUME sync \/ listing = "alerts" PROVE Cardinality(Missed') <= left'
    BY <1>1 DEF PagesMissOnlyWhatMovedUp
  <2>1. Missed' = {}
    BY <1>5
  <2>2. Cardinality(Missed') = 0
    BY <2>1, FS_EmptySet
  <2> QED  BY <1>1, <2>2
<1> QED  BY <1>4, <1>6 DEF ReadsInv

(* The next page begins where the last one ended.                          *)
LEMMA NextPageInv == ASSUME ReadsAssumption, ReadsInv, NextPage PROVE ReadsInv'
<1>1. /\ offset' = offset + PageSize /\ seen' = seen \cup Shown(offset, PageSize)
      /\ UNCHANGED <<listing, sync, query, listed, since, left>>
  BY DEF NextPage
<1>2. /\ changes \in Nat /\ PageSize \in Nat /\ ReadsTypeOK /\ offset \in Nat /\ left \in Nat
      /\ since \in 0..changes /\ seen \in SUBSET Rows
  BY DEF ReadsInv, ReadsTypeOK, ReadsAssumption
<1>3. since' \in 0..changes /\ offset' \in Nat /\ left' \in Nat /\ seen' \in SUBSET Rows
  BY <1>1, <1>2, ShownIsRows
<1>4. /\ ReadsTypeOK' /\ TimesDiffer' /\ FittingIsThere'
      /\ Found' = Found /\ \A i, rows : Rank(i, rows)' = Rank(i, rows)
      /\ \A i : Searched(i)' <=> Searched(i)
  BY <1>1, <1>3, AskingKeepsTimes
<1>5. Found \in SUBSET Rows
  BY <1>2 DEF Found, Search, ReadsTypeOK
<1>6. ASSUME sync \/ listing = "alerts", NEW i \in Missed' PROVE i \in Missed
  <2>1. /\ i \in Found /\ Rank(i, Found) <= offset + PageSize /\ Searched(i)
        /\ i \notin seen /\ i \notin Shown(offset, PageSize) /\ updated[i] <= since
    BY <1>1, <1>4, <1>6 DEF Missed, listed
  <2>2. Rank(i, Found) \in Nat
    BY <1>2, <1>5, <2>1, RankIsCount
  <2>3. ~(Rank(i, Found) > offset)
    BY <1>2, <1>6, <2>1, PageShows
  <2>4. Rank(i, Found) <= offset
    BY <1>2, <2>2, <2>3
  <2> QED  BY <2>1, <2>4 DEF Missed
<1>7. PagesMissOnlyWhatMovedUp'
  <2> SUFFICES ASSUME sync \/ listing = "alerts" PROVE Cardinality(Missed') <= left'
    BY <1>1 DEF PagesMissOnlyWhatMovedUp
  <2>1. Missed' \subseteq Missed
    BY <1>6
  <2>2. IsFiniteSet(Missed)
    <3>1. Missed \in SUBSET Rows
      BY <1>5 DEF Missed
    <3> QED  BY <3>1, FS_Subset DEF ReadsAssumption
  <2>3. Cardinality(Missed') <= Cardinality(Missed) /\ Cardinality(Missed') \in Int
        /\ Cardinality(Missed) \in Int
    BY <2>1, <2>2, RankGrows
  <2>4. Cardinality(Missed) <= left
    BY DEF ReadsInv, PagesMissOnlyWhatMovedUp
  <2> QED  BY <1>1, <1>2, <2>3, <2>4
<1> QED  BY <1>4, <1>7 DEF ReadsInv

(* Every step of rows and client keeps the invariant.                      *)
LEMMA ReadsInductive == ReadsAssumption /\ ReadsInv /\ [ReadsNext]_readVars => ReadsInv'
<1> SUFFICES ASSUME ReadsAssumption, ReadsInv, [ReadsNext]_readVars PROVE ReadsInv'
  OBVIOUS
<1>1. ASSUME NEW i \in Rows, Add(i) \/ Change(i) PROVE ReadsInv'
  <2>1. Write(i)
    BY <1>1 DEF Add, Change
  <2> QED  BY <1>1, <2>1, WriteInv
<1>2. CASE FirstPage
  BY <1>2, FirstPageInv
<1>3. CASE NextPage
  BY <1>3, NextPageInv
<1>4. CASE UNCHANGED readVars
  <2> USE <1>4 DEF readVars, listed, client
  <2>1. ReadsTypeOK' /\ TimesDiffer' /\ FittingIsThere'
    BY DEF ReadsInv, ReadsTypeOK, TimesDiffer, FittingIsThere
  <2>2. Missed' = Missed
    BY DEF Missed, Found, Search, Rank, Ahead, Searched
  <2>3. PagesMissOnlyWhatMovedUp'
    BY <2>2 DEF ReadsInv, PagesMissOnlyWhatMovedUp
  <2> QED  BY <2>1, <2>3 DEF ReadsInv
<1> QED  BY <1>1, <1>2, <1>3, <1>4 DEF ReadsNext

(* Rows and client of reads.py keep their types, and no two rows the same   *)
(* time of change.                                                          *)
THEOREM ReadsAreTyped == ReadsSpec => []ReadsTypeOK
<1>1. ReadsInv => ReadsTypeOK
  BY DEF ReadsInv
<1> QED  BY <1>1, ReadsInitInv, ReadsInductive, ReadsAssumption, PTL DEF ReadsSpec

(* Whatever is raised, merged and edited between two pages of list_alerts,  *)
(* list_cases and list_audit, a client misses no more of the rows that have *)
(* stayed than have left the listing.                                       *)
THEOREM PagesNeverMissMore == ReadsSpec => []PagesMissOnlyWhatMovedUp
<1>1. ReadsInv => PagesMissOnlyWhatMovedUp
  BY DEF ReadsInv
<1> QED  BY <1>1, ReadsInitInv, ReadsInductive, ReadsAssumption, PTL DEF ReadsSpec

-----------------------------------------------------------------------------
(* The rate limiter.                                                       *)
USE DEF None, Never

Forgotten(k) == Len(admitted[k]) - Len(hits[k])

-----------------------------------------------------------------------------
(* The inductive invariant: a window holds the last requests admitted, in   *)
(* the order of the clock; the others are out of every window that contains *)
(* the time of a request being checked, or of one yet to come.              *)
Suffix ==
  \A k \in Keys :
    /\ Len(hits[k]) <= Len(admitted[k]) /\ Len(hits[k]) <= MaxRequests
    /\ \A i \in 1..Len(hits[k]) : hits[k][i] = admitted[k][Forgotten(k) + i]

Ordered ==
  \A k \in Keys : \A i \in 1..Len(admitted[k]) :
    /\ admitted[k][i] <= clock
    /\ checked # None => admitted[k][i] <= Now

OutOfWindow ==
  \A k \in Keys : \A i \in 1..Forgotten(k) :
    /\ admitted[k][i] + Window < clock
    /\ checked # None => admitted[k][i] + Window < Now

CheckedInPast == checked # None => Now <= clock

ComesBackLate ==
  \A k \in Keys :
    comeBack[k] # Never =>
      Len(hits[k]) < MaxRequests \/ Head(hits[k]) + Window < comeBack[k]

LimiterInv ==
  /\ LimiterTypeOK
  /\ Suffix
  /\ Ordered
  /\ OutOfWindow
  /\ CheckedInPast
  /\ ComesBackLate
  /\ NeverOverRate

-----------------------------------------------------------------------------
(* The whole seconds of Retry-After cover what is left of the window.       *)
LEMMA WholeSeconds ==
  ASSUME NEW wait \in Nat, NEW s \in Nat \ {0}
  PROVE  (wait \div s + 1) * s \in Nat /\ (wait \div s + 1) * s > wait
  OBVIOUS

(* A refused client is told a time after its oldest request has expired.    *)
LEMMA RetryAfterCovers ==
  ASSUME RateLimiterAssumption, clock \in Nat,
         NEW window \in Seq(Nat), window # << >>
  PROVE  /\ RetryAfter(window) \in Nat
         /\ Head(window) + Window < clock + RetryAfter(window)
<1> DEFINE wait == Window - (clock - Head(window))
<1>1. Head(window) \in Nat /\ wait \in Int /\ Second \in Nat \ {0} /\ Window \in Nat
  BY DEF RateLimiterAssumption
<1>2. CASE wait <= 0
  BY <1>1, <1>2 DEF RetryAfter
<1>3. CASE wait > 0
  <2>1. wait \in Nat
    BY <1>1, <1>3
  <2>2. RetryAfter(window) = (wait \div Second + 1) * Second
    BY <1>3 DEF RetryAfter
  <2> HIDE DEF wait
  <2>3. RetryAfter(window) \in Nat /\ RetryAfter(window) > wait
    BY <2>1, <2>2, <1>1, WholeSeconds
  <2> USE DEF wait
  <2> QED  BY <2>3, <1>1
<1> QED  BY <1>1, <1>2, <1>3

(* No request has been let in yet.                                         *)
LEMMA LimiterInitInv == LimiterInit => LimiterInv
  BY RateLimiterAssumption
  DEF LimiterInit, LimiterInv, LimiterTypeOK, Suffix, Ordered, OutOfWindow, CheckedInPast,
      ComesBackLate, NeverOverRate, Forgotten, RateLimiterAssumption

-----------------------------------------------------------------------------
(* Time passes: nothing comes back into a window.                          *)
LEMMA TickInv == LimiterInv /\ LimiterTick => LimiterInv'
<1> SUFFICES ASSUME LimiterInv, LimiterTick PROVE LimiterInv'
  OBVIOUS
<1> USE RateLimiterAssumption DEF RateLimiterAssumption
<1>1. LimiterTypeOK'
  BY DEF LimiterInv, LimiterTypeOK, LimiterTick
<1>2. Suffix' /\ ComesBackLate' /\ NeverOverRate'
  BY DEF LimiterInv, Suffix, ComesBackLate, NeverOverRate, Forgotten, LimiterTick
<1>3. Ordered'
  BY DEF LimiterInv, LimiterTypeOK, Ordered, LimiterTick, Now
<1>4. OutOfWindow'
  BY DEF LimiterInv, LimiterTypeOK, OutOfWindow, Forgotten, LimiterTick, Now
<1>5. CheckedInPast'
  BY DEF LimiterInv, LimiterTypeOK, CheckedInPast, LimiterTick, Now
<1> QED  BY <1>1, <1>2, <1>3, <1>4, <1>5 DEF LimiterInv

(* A request reads the clock.                                              *)
LEMMA ArriveInv == ASSUME NEW k \in Keys PROVE LimiterInv /\ Arrive(k) => LimiterInv'
<1> SUFFICES ASSUME LimiterInv, Arrive(k) PROVE LimiterInv'
  OBVIOUS
<1> USE RateLimiterAssumption DEF RateLimiterAssumption
<1>0. Now' = clock
  BY DEF Arrive, Now
<1>1. LimiterTypeOK'
  BY DEF LimiterInv, LimiterTypeOK, Arrive
<1>2. Suffix' /\ ComesBackLate' /\ NeverOverRate'
  BY DEF LimiterInv, Suffix, ComesBackLate, NeverOverRate, Forgotten, Arrive
<1>3. Ordered'
  BY <1>0 DEF LimiterInv, Ordered, Arrive
<1>4. OutOfWindow'
  BY <1>0 DEF LimiterInv, OutOfWindow, Forgotten, Arrive
<1>5. CheckedInPast'
  BY <1>0 DEF LimiterInv, LimiterTypeOK, CheckedInPast, Arrive
<1> QED  BY <1>1, <1>2, <1>3, <1>4, <1>5 DEF LimiterInv

(* The entry forgotten was the window's first: it joins the forgotten ones, *)
(* and is out of the window of the time it was checked against.             *)
LEMMA ForgetInv == LimiterInv /\ Forget => LimiterInv'
<1> SUFFICES ASSUME LimiterInv, Forget PROVE LimiterInv'
  OBVIOUS
<1> USE RateLimiterAssumption DEF RateLimiterAssumption
<1>0. PICK k \in Keys : k = Key
  BY DEF LimiterInv, LimiterTypeOK, Forget, Key
<1> DEFINE H == hits[k]
           A == admitted[k]
<1>1. /\ Now \in Nat /\ clock \in Nat /\ Now <= clock
      /\ H \in Seq(Nat) /\ A \in Seq(Nat) /\ hits \in [Keys -> Seq(Nat)]
  BY DEF LimiterInv, LimiterTypeOK, CheckedInPast, Forget, Key, Now
<1>2. H # << >> /\ Head(H) + Window < Now
  BY <1>0, <1>1 DEF Forget, Expired
<1>3. /\ Len(Tail(H)) = Len(H) - 1 /\ Len(H) > 0 /\ Tail(H) \in Seq(Nat)
      /\ \A i \in 1..Len(Tail(H)) : Tail(H)[i] = H[i + 1]
  BY <1>1, <1>2
<1>4. /\ hits' = [hits EXCEPT ![k] = Tail(H)]
      /\ UNCHANGED <<clock, checked, admitted, comeBack, Now>>
  BY <1>0 DEF Forget, Now
<1>5. /\ hits'[k] = Tail(H)
      /\ \A j \in Keys \ {k} : hits'[j] = hits[j] /\ Forgotten(j)' = Forgotten(j)
  BY <1>1, <1>4 DEF Forgotten
<1>6. Forgotten(k) \in Nat /\ Forgotten(k)' = Forgotten(k) + 1 /\ A[Forgotten(k) + 1] = Head(H)
  <2>1. Len(H) <= Len(A) /\ H[1] = A[Forgotten(k) + 1]
    BY <1>1, <1>3 DEF LimiterInv, Suffix
  <2> QED  BY <2>1, <1>1, <1>2, <1>3, <1>4, <1>5 DEF Forgotten
<1>7. LimiterTypeOK'
  BY <1>1, <1>3, <1>4 DEF LimiterInv, LimiterTypeOK
<1>8. Suffix'
  <2> SUFFICES ASSUME NEW j \in Keys
               PROVE  /\ Len(hits'[j]) <= Len(admitted[j]) /\ Len(hits'[j]) <= MaxRequests
                      /\ \A i \in 1..Len(hits'[j]) : hits'[j][i] = admitted[j][Forgotten(j)' + i]
    BY <1>4 DEF Suffix
  <2>1. CASE j # k
    BY <2>1, <1>5 DEF LimiterInv, Suffix
  <2>2. CASE j = k
    <3>1. Len(Tail(H)) <= Len(A) /\ Len(Tail(H)) <= MaxRequests
      BY <1>1, <1>3 DEF LimiterInv, Suffix
    <3>2. ASSUME NEW i \in 1..Len(Tail(H)) PROVE Tail(H)[i] = A[Forgotten(k)' + i]
      <4>1. i + 1 \in 1..Len(H) /\ Tail(H)[i] = H[i + 1]
        BY <1>1, <1>3
      <4>2. H[i + 1] = A[Forgotten(k) + (i + 1)]
        BY <4>1, <1>1 DEF LimiterInv, Suffix
      <4>3. Forgotten(k) + (i + 1) = Forgotten(k)' + i
        BY <1>6
      <4> QED  BY <4>1, <4>2, <4>3
    <3> QED  BY <2>2, <3>1, <3>2, <1>5
  <2> QED  BY <2>1, <2>2
<1>9. Ordered' /\ CheckedInPast' /\ NeverOverRate'
  BY <1>4 DEF LimiterInv, Ordered, CheckedInPast, NeverOverRate
<1>10. OutOfWindow'
  <2> SUFFICES ASSUME NEW j \in Keys, NEW i \in 1..Forgotten(j)'
               PROVE  /\ admitted[j][i] + Window < clock
                      /\ checked # None => admitted[j][i] + Window < Now
    BY <1>4 DEF OutOfWindow
  <2>1. CASE j # k \/ i # Forgotten(k) + 1
    <3>1. i \in 1..Forgotten(j)
      BY <2>1, <1>5, <1>6
    <3> QED  BY <3>1 DEF LimiterInv, OutOfWindow
  <2>2. CASE j = k /\ i = Forgotten(k) + 1
    BY <2>2, <1>1, <1>2, <1>6
  <2> QED  BY <2>1, <2>2
<1>11. ComesBackLate'
  <2> SUFFICES ASSUME NEW j \in Keys, comeBack[j] # Never
               PROVE  Len(hits'[j]) < MaxRequests \/ Head(hits'[j]) + Window < comeBack[j]
    BY <1>4 DEF ComesBackLate
  <2>1. CASE j # k
    BY <2>1, <1>5 DEF LimiterInv, ComesBackLate
  <2>2. CASE j = k
    <3>1. Len(H) <= MaxRequests /\ Len(H) \in Nat
      BY <1>1 DEF LimiterInv, Suffix
    <3> QED  BY <3>1, <2>2, <1>3, <1>5
  <2> QED  BY <2>1, <2>2
<1> QED  BY <1>7, <1>8, <1>9, <1>10, <1>11 DEF LimiterInv

(* The request admitted is at Now: the one MaxRequests before it has been   *)
(* forgotten, so it is out of the window that ends now.                     *)
LEMMA AdmitInv == LimiterInv /\ Admit => LimiterInv'
<1> SUFFICES ASSUME LimiterInv, Admit PROVE LimiterInv'
  OBVIOUS
<1> USE RateLimiterAssumption DEF RateLimiterAssumption
<1>0. PICK k \in Keys, t \in Nat : k = Key /\ t = Now
  BY DEF LimiterInv, LimiterTypeOK, Admit, Key, Now
<1> DEFINE H == hits[k]
           A == admitted[k]
<1>1. /\ clock \in Nat /\ t <= clock /\ checked # None
      /\ H \in Seq(Nat) /\ A \in Seq(Nat) /\ hits \in [Keys -> Seq(Nat)]
      /\ admitted \in [Keys -> Seq(Nat)] /\ comeBack \in [Keys -> Nat \cup {Never}]
  BY <1>0 DEF LimiterInv, LimiterTypeOK, CheckedInPast, Admit
<1>2. PICK h \in Nat, a \in Nat : h = Len(H) /\ a = Len(A) /\ h < MaxRequests /\ h <= a
  BY <1>0, <1>1 DEF Admit, Full, LimiterInv, Suffix
<1>2a. h < MaxRequests /\ h <= a
  BY <1>2
<1>3. /\ hits' = [hits EXCEPT ![k] = Append(H, t)]
      /\ admitted' = [admitted EXCEPT ![k] = Append(A, t)]
      /\ comeBack' = [comeBack EXCEPT ![k] = Never]
      /\ checked' = None /\ clock' = clock
  BY <1>0 DEF Admit
<1>4. /\ hits'[k] = Append(H, t) /\ admitted'[k] = Append(A, t) /\ comeBack'[k] = Never
      /\ \A j \in Keys \ {k} :
           hits'[j] = hits[j] /\ admitted'[j] = admitted[j] /\ comeBack'[j] = comeBack[j]
  BY <1>1, <1>3
<1>5. /\ Len(hits'[k]) = h + 1 /\ Len(admitted'[k]) = a + 1
      /\ \A i \in 1..h : hits'[k][i] = H[i]
      /\ \A i \in 1..a : admitted'[k][i] = A[i]
      /\ hits'[k][h + 1] = t /\ admitted'[k][a + 1] = t
  BY <1>1, <1>2, <1>4
<1>6. Forgotten(k) = a - h
  BY <1>2 DEF Forgotten
<1>6a. \A j \in Keys : Forgotten(j)' = Forgotten(j)
  <2>1. ASSUME NEW j \in Keys, j # k PROVE Forgotten(j)' = Forgotten(j)
    BY <2>1, <1>4 DEF Forgotten
  <2>2. Forgotten(k)' = Len(admitted'[k]) - Len(hits'[k])
    BY DEF Forgotten
  <2>3. Forgotten(k)' = Forgotten(k)
    BY <2>2, <1>2, <1>5, <1>6
  <2> QED  BY <2>1, <2>3
<1>7. LimiterTypeOK'
  BY <1>1, <1>3 DEF LimiterInv, LimiterTypeOK
<1>8. Suffix'
  <2> SUFFICES ASSUME NEW j \in Keys
               PROVE  /\ Len(hits'[j]) <= Len(admitted'[j]) /\ Len(hits'[j]) <= MaxRequests
                      /\ \A i \in 1..Len(hits'[j]) : hits'[j][i] = admitted'[j][Forgotten(j) + i]
    BY <1>6a DEF Suffix
  <2>1. CASE j # k
    BY <2>1, <1>4 DEF LimiterInv, Suffix
  <2>2. CASE j = k
    <3>1. Len(hits'[k]) <= Len(admitted'[k]) /\ Len(hits'[k]) <= MaxRequests
      BY <1>2, <1>5
    <3>2. ASSUME NEW i \in 1..(h + 1) PROVE hits'[k][i] = admitted'[k][Forgotten(k) + i]
      <4>1. CASE i <= h
        <5>1. i \in 1..h /\ H[i] = A[Forgotten(k) + i]
          <6>1. i \in 1..h
            BY <4>1
          <6> QED  BY <6>1, <1>2 DEF LimiterInv, Suffix
        <5>2. Forgotten(k) + i \in 1..a
          BY <4>1, <1>2a, <1>6
        <5> QED  BY <5>1, <5>2, <1>5
      <4>2. CASE i = h + 1
        <5>1. Forgotten(k) + i = a + 1
          BY <4>2, <1>2a, <1>6
        <5> QED  BY <5>1, <4>2, <1>5
      <4> QED  BY <4>1, <4>2, <1>2
    <3> QED  BY <2>2, <3>1, <3>2, <1>5
  <2> QED  BY <2>1, <2>2
<1>9. Ordered' /\ CheckedInPast'
  <2>1. ASSUME NEW j \in Keys, j # k, NEW i \in 1..Len(admitted'[j])
        PROVE  admitted'[j][i] <= clock
    BY <2>1, <1>4 DEF LimiterInv, Ordered
  <2>2. ASSUME NEW i \in 1..a PROVE admitted'[k][i] <= clock
    BY <1>2, <1>5 DEF LimiterInv, Ordered
  <2>3. admitted'[k][a + 1] <= clock
    BY <1>1, <1>5
  <2>4. ASSUME NEW i \in 1..(a + 1) PROVE admitted'[k][i] <= clock
    BY <2>2, <2>3
  <2> QED  BY <2>1, <2>4, <1>3, <1>5 DEF Ordered, CheckedInPast
<1>10. OutOfWindow'
  <2> SUFFICES ASSUME NEW j \in Keys, NEW i \in 1..Forgotten(j)
               PROVE  admitted'[j][i] + Window < clock
    BY <1>3, <1>6a DEF OutOfWindow
  <2>1. admitted[j][i] + Window < clock
    BY DEF LimiterInv, OutOfWindow
  <2>2. CASE j # k
    BY <2>1, <2>2, <1>4
  <2>3. CASE j = k
    <3>1. i \in 1..a
      BY <2>3, <1>2, <1>6
    <3> QED  BY <2>1, <2>3, <3>1, <1>5
  <2> QED  BY <2>2, <2>3
<1>11. ComesBackLate'
  BY <1>4 DEF LimiterInv, ComesBackLate
<1>12. NeverOverRate'
  <2>1. ASSUME NEW j \in Keys, j # k, NEW i \in DOMAIN admitted'[j],
               i + MaxRequests \in DOMAIN admitted'[j]
        PROVE  admitted'[j][i + MaxRequests] > admitted'[j][i] + Window
    BY <2>1, <1>4 DEF LimiterInv, NeverOverRate
  <2>2. ASSUME NEW i \in 1..(a + 1), i + MaxRequests \in 1..(a + 1)
        PROVE  admitted'[k][i + MaxRequests] > admitted'[k][i] + Window
    <3>1. i \in 1..a /\ admitted'[k][i] = A[i]
      BY <2>2, <1>5
    <3>2. CASE i + MaxRequests \in 1..a
      <4>1. i \in DOMAIN A /\ i + MaxRequests \in DOMAIN A
        BY <3>1, <3>2, <1>1, <1>2
      <4>2. A[i + MaxRequests] > A[i] + Window
        BY <4>1 DEF LimiterInv, NeverOverRate
      <4> QED  BY <4>2, <3>1, <3>2, <1>5
    <3>3. CASE i + MaxRequests = a + 1
      <4>1. i \in 1..Forgotten(k)
        BY <3>1, <3>3, <1>2a, <1>6
      <4>2. A[i] + Window < t
        BY <4>1, <1>0, <1>1 DEF LimiterInv, OutOfWindow
      <4>3. A[i] \in Nat /\ admitted'[k][i + MaxRequests] = t
        BY <3>1, <3>3, <1>1, <1>2, <1>5
      <4> QED  BY <4>2, <4>3, <3>1
    <3> QED  BY <2>2, <3>2, <3>3
  <2>3. DOMAIN admitted'[k] = 1..(a + 1)
    BY <1>1, <1>4, <1>5
  <2> QED  BY <2>1, <2>2, <2>3 DEF NeverOverRate
<1> QED  BY <1>7, <1>8, <1>9, <1>10, <1>11, <1>12 DEF LimiterInv

(* A refused request leaves the window as it is.                           *)
LEMMA RefuseInv == LimiterInv /\ Refuse => LimiterInv'
<1> SUFFICES ASSUME LimiterInv, Refuse PROVE LimiterInv'
  OBVIOUS
<1> USE RateLimiterAssumption DEF RateLimiterAssumption
<1> DEFINE k == Key
           wait == RetryAfter(hits[k])
<1>1. /\ k \in Keys /\ clock \in Nat /\ hits[k] \in Seq(Nat)
      /\ comeBack \in [Keys -> Nat \cup {Never}]
  BY DEF LimiterInv, LimiterTypeOK, Refuse, Key
<1>2. hits[k] # << >>
  BY <1>1 DEF Refuse, Full
<1>3. wait \in Nat /\ Head(hits[k]) + Window < clock + wait
  BY <1>1, <1>2, RetryAfterCovers
<1>4. /\ comeBack' = [comeBack EXCEPT ![k] = clock + wait]
      /\ checked' = None /\ UNCHANGED <<clock, hits, admitted>>
  BY DEF Refuse
<1> HIDE DEF wait
<1>5. LimiterTypeOK'
  BY <1>1, <1>3, <1>4 DEF LimiterInv, LimiterTypeOK
<1>6. Suffix' /\ Ordered' /\ OutOfWindow' /\ CheckedInPast' /\ NeverOverRate'
  BY <1>4 DEF LimiterInv, Suffix, Ordered, OutOfWindow, CheckedInPast, NeverOverRate, Forgotten
<1>7. ComesBackLate'
  BY <1>1, <1>3, <1>4 DEF LimiterInv, ComesBackLate
<1> QED  BY <1>5, <1>6, <1>7 DEF LimiterInv

-----------------------------------------------------------------------------
(* Every reachable state of the limiter satisfies the inductive invariant.  *)
THEOREM LimiterInductive == LimiterSpec => []LimiterInv
<1>1. LimiterInit => LimiterInv
  BY LimiterInitInv
<1>2. LimiterInv /\ [LimiterNext]_limiterVars => LimiterInv'
  <2> SUFFICES ASSUME LimiterInv, [LimiterNext]_limiterVars PROVE LimiterInv'
    OBVIOUS
  <2>1. CASE LimiterTick
    BY <2>1, TickInv
  <2>2. ASSUME NEW k \in Keys, Arrive(k) PROVE LimiterInv'
    BY <2>2, ArriveInv
  <2>3. CASE Forget
    BY <2>3, ForgetInv
  <2>4. CASE Admit
    BY <2>4, AdmitInv
  <2>5. CASE Refuse
    BY <2>5, RefuseInv
  <2>6. CASE UNCHANGED limiterVars
    BY <2>6 DEF limiterVars, LimiterInv, LimiterTypeOK, Suffix, Ordered, OutOfWindow, CheckedInPast,
                ComesBackLate, NeverOverRate, Forgotten, Now
  <2> QED  BY <2>1, <2>2, <2>3, <2>4, <2>5, <2>6 DEF LimiterNext
<1> QED  BY <1>1, <1>2, PTL DEF LimiterSpec

(* Clock, window and what a client was told keep their types.              *)
THEOREM LimiterIsTyped == LimiterSpec => []LimiterTypeOK
<1>1. LimiterInv => LimiterTypeOK
  BY DEF LimiterInv
<1> QED  BY <1>1, LimiterInductive, PTL

(* No window of any client ever sees more than MaxRequests requests, for    *)
(* every limit and window length and however the clock runs between the     *)
(* steps of allow().                                                        *)
THEOREM AlwaysWithinRate == LimiterSpec => []NeverOverRate
<1>1. LimiterInv => NeverOverRate
  BY DEF LimiterInv
<1> QED  BY <1>1, LimiterInductive, PTL

(* A client that waits as long as the Retry-After header says is let in:    *)
(* the whole seconds, computed from a later reading of the clock, always    *)
(* reach past the expiry of the oldest request.                             *)
THEOREM RetryAfterAlwaysSuffices == LimiterSpec => []RetryAfterSuffices
<1>1. LimiterInv => RetryAfterSuffices
  <2> SUFFICES ASSUME LimiterInv, NEW k \in Keys, comeBack[k] # Never, clock >= comeBack[k],
                      ~(Len(hits[k]) < MaxRequests)
               PROVE  Expired(hits[k], clock)
    BY DEF RetryAfterSuffices
  <2>1. hits[k] \in Seq(Nat) /\ clock \in Nat /\ comeBack[k] \in Nat
    BY DEF LimiterInv, LimiterTypeOK
  <2>2. hits[k] # << >> /\ Head(hits[k]) \in Nat
    BY <2>1, RateLimiterAssumption DEF RateLimiterAssumption
  <2>3. Head(hits[k]) + Window < comeBack[k]
    BY DEF LimiterInv, ComesBackLate
  <2> QED  BY <2>1, <2>2, <2>3, RateLimiterAssumption DEF Expired, RateLimiterAssumption
<1> QED  BY <1>1, LimiterInductive, PTL

-----------------------------------------------------------------------------
(* run_scenario.  The inductive invariant: each run works on the state it   *)
(* made, whose alerts are its own; and what it has put into the trail is    *)
(* what its place in the code says, of which a recommendation may lag.      *)
DemoAlerts == DemoRuns \X Nat
AlertsInState == [alert : DemoAlerts, by : DemoRuns, linked : BOOLEAN]
AuditActions ==
  {"scenario_run_started", "triage_report_generated", "recommendation_created",
   "scenario_run_completed"}
TrailRows == DemoRuns \X AuditActions \X (DemoRuns \cup DemoAlerts)
Places ==
  {"idle", "replaying", "landing", "auditing", "inserting", "triaging", "recommending",
   "completed", "failed", "not_found"}
Locals ==
  [at : Places, replayed : Nat, state : DemoRuns \cup {NoState}, alert : DemoAlerts \cup {NoAlertYet},
   touched : Seq(DemoAlerts), row : TrailRows \cup {<< >>}, sequence : Nat, written : Nat]

DemoValues ==
  /\ demo \in [DemoRuns -> Locals]
  /\ defaultState \in DemoRuns \cup {NoState}
  /\ stateAlerts \in [DemoRuns -> SUBSET AlertsInState]
  /\ demoCases \in SUBSET DemoAlerts
  /\ recommended \in SUBSET demoCases
  /\ trail \in Seq(TrailRows)

Active(r) == demo[r].at \notin {"idle", "completed", "failed", "not_found"}

OwnAlerts ==
  /\ \A s \in DemoRuns :
       /\ IsFiniteSet(stateAlerts[s])
       /\ \A a \in stateAlerts[s] :
            a.alert[1] = s /\ a.by = s /\ (a.linked => a.alert \in demoCases)
  /\ \A c \in demoCases : \E a \in stateAlerts[c[1]] : a.alert = c

OwnState(r) ==
  /\ demo[r].replayed <= EventsOf(r)
  /\ Active(r) => demo[r].state = r
  /\ demo[r].at = "landing" => \E a \in stateAlerts[r] : a.alert = demo[r].alert
  /\ demo[r].at \in {"auditing", "inserting"} => demo[r].row \in TrailRows
  /\ \A i \in DOMAIN demo[r].touched :
       demo[r].touched[i] \in demoCases /\ demo[r].touched[i][1] = r

Doing(r, actions) == demo[r].at \in {"auditing", "inserting"} /\ demo[r].row[2] \in actions
Reported(r) ==
  \A i \in RowsOf(r) : trail[i][2] = "recommendation_created" =>
    \E j \in RowsOf(r) :
      JustBefore(r, j, i) /\ trail[j] = AuditRow(r, "triage_report_generated", trail[i][3])
Started(r) == StartsWith(r, AuditRow(r, "scenario_run_started", r))

Recorded(r) ==
  /\ Cardinality(RowsOf(r)) = demo[r].written /\ Reported(r)
  /\ \A c, d \in Unaudited(r) : c = d
  /\ Unaudited(r) # {} =>
       \/ demo[r].at = "failed"
       \/ Doing(r, {"recommendation_created"}) /\ demo[r].row[3] \in Unaudited(r)
  /\ Doing(r, {"scenario_run_started", "scenario_run_completed"}) =>
       demo[r].row[1] = r /\ demo[r].row[3] = r
  /\ Doing(r, {"triage_report_generated", "recommendation_created"}) =>
       demo[r].touched # << >> /\ demo[r].row[1] = r /\ demo[r].row[3] = Head(demo[r].touched)
  /\ demo[r].at \in {"idle", "replaying", "landing"} \/ Doing(r, {"scenario_run_started"}) =>
       RowsOf(r) = {}
  /\ \/ demo[r].at \in {"triaging", "recommending", "completed"}
     \/ Doing(r, AuditActions \ {"scenario_run_started"})
     => Started(r)
  /\ demo[r].at = "recommending" \/ Doing(r, {"recommendation_created"}) =>
       /\ demo[r].touched # << >>
       /\ EndsWith(r, AuditRow(r, "triage_report_generated", Head(demo[r].touched)))
  /\ demo[r].at = "completed" => EndsWith(r, AuditRow(r, "scenario_run_completed", r))

DemoInv ==
  /\ DemoValues
  /\ OwnAlerts
  /\ \A r \in DemoRuns : OwnState(r) /\ Recorded(r)

-----------------------------------------------------------------------------
(* A row at the end of the trail adds its place to those of its run.        *)
LEMMA RowAppended ==
  ASSUME trail \in Seq(TrailRows), NEW row \in TrailRows, trail' = Append(trail, row)
  PROVE  /\ trail' \in Seq(TrailRows)
         /\ \A i \in 1..Len(trail) : trail'[i] = trail[i]
         /\ trail'[Len(trail) + 1] = row
         /\ Len(trail) \in Nat
         /\ \A q \in DemoRuns : RowsOf(q) \subseteq 1..Len(trail)
         /\ \A q \in DemoRuns : q # row[1] => RowsOf(q)' = RowsOf(q)
         /\ \A q \in DemoRuns : q = row[1] => RowsOf(q)' = RowsOf(q) \cup {Len(trail) + 1}
<1>1. /\ trail' \in Seq(TrailRows) /\ DOMAIN trail = 1..Len(trail) /\ Len(trail) \in Nat
      /\ DOMAIN trail' = 1..(Len(trail) + 1)
      /\ \A i \in 1..Len(trail) : trail'[i] = trail[i]
      /\ trail'[Len(trail) + 1] = row
  OBVIOUS
<1>2. \A q \in DemoRuns : RowsOf(q) \subseteq 1..Len(trail)
  BY <1>1 DEF RowsOf
<1>3. ASSUME NEW q \in DemoRuns, q # row[1] PROVE RowsOf(q)' = RowsOf(q)
  <2>1. ASSUME NEW i PROVE i \in RowsOf(q)' <=> i \in RowsOf(q)
    BY <1>1, <1>3 DEF RowsOf
  <2> QED  BY <2>1
<1>4. ASSUME NEW q \in DemoRuns, q = row[1]
      PROVE  RowsOf(q)' = RowsOf(q) \cup {Len(trail) + 1}
  <2>1. ASSUME NEW i PROVE i \in RowsOf(q)' <=> i \in RowsOf(q) \/ i = Len(trail) + 1
    BY <1>1, <1>4 DEF RowsOf
  <2> QED  BY <2>1
<1> QED  BY <1>1, <1>2, <1>3, <1>4

(* The other runs' part of the trail is as it was.                          *)
LEMMA OthersRows ==
  ASSUME trail \in Seq(TrailRows), NEW row \in TrailRows, trail' = Append(trail, row),
         UNCHANGED recommended, NEW q \in DemoRuns, q # row[1]
  PROVE  /\ RowsOf(q)' = RowsOf(q) /\ (Reported(q)' <=> Reported(q))
         /\ Unaudited(q)' = Unaudited(q) /\ (Started(q)' <=> Started(q))
         /\ \A x : EndsWith(q, x)' <=> EndsWith(q, x)
<1>1. RowsOf(q)' = RowsOf(q) /\ \A i \in RowsOf(q) : trail'[i] = trail[i]
  BY RowAppended
<1>2. Reported(q)' <=> Reported(q)
  BY <1>1 DEF Reported, JustBefore
<1>3. Unaudited(q)' = Unaudited(q)
  <2>1. ASSUME NEW c PROVE c \in Unaudited(q)' <=> c \in Unaudited(q)
    BY <1>1 DEF Unaudited, AuditRow
  <2> QED  BY <2>1
<1>4. (Started(q)' <=> Started(q)) /\ \A x : EndsWith(q, x)' <=> EndsWith(q, x)
  BY <1>1 DEF Started, StartsWith, EndsWith
<1> QED  BY <1>1, <1>2, <1>3, <1>4

(* What a row at the end of the trail does to the trail of its run.         *)
LEMMA OwnRow ==
  ASSUME trail \in Seq(TrailRows), NEW row \in TrailRows, trail' = Append(trail, row),
         UNCHANGED recommended, NEW r \in DemoRuns, r = row[1]
  PROVE  /\ Cardinality(RowsOf(r)') = Cardinality(RowsOf(r)) + 1
         /\ Reported(r) /\ (row[2] = "recommendation_created" =>
                              EndsWith(r, AuditRow(r, "triage_report_generated", row[3])))
              => Reported(r)'
         /\ Unaudited(r)' \subseteq Unaudited(r)
         /\ row[2] = "recommendation_created" => row[3] \notin Unaudited(r)'
         /\ Started(r) => Started(r)'
         /\ RowsOf(r) = {} /\ row = AuditRow(r, "scenario_run_started", r) => Started(r)'
         /\ EndsWith(r, row)'
<1> DEFINE n == Len(trail)
<1>1. /\ trail' \in Seq(TrailRows) /\ n \in Nat /\ RowsOf(r)' = RowsOf(r) \cup {n + 1}
      /\ RowsOf(r) \subseteq 1..n
      /\ \A i \in RowsOf(r) : trail'[i] = trail[i]
      /\ trail'[n + 1] = row
  BY RowAppended
<1>0. \A i \in RowsOf(r) : i \in Nat /\ i < n + 1
  BY <1>1
<1> HIDE DEF n
<1>2. Cardinality(RowsOf(r)') = Cardinality(RowsOf(r)) + 1
  <2>1. IsFiniteSet(1..n)
    BY <1>1, FS_Interval
  <2>2. IsFiniteSet(RowsOf(r)) /\ n + 1 \notin RowsOf(r)
    BY <2>1, <1>1, <1>0, FS_Subset
  <2> QED  BY <2>2, <1>1, FS_AddElement
<1>3. ASSUME Reported(r), row[2] = "recommendation_created" =>
                            EndsWith(r, AuditRow(r, "triage_report_generated", row[3]))
      PROVE  Reported(r)'
  <2> SUFFICES ASSUME NEW i \in RowsOf(r)', trail'[i][2] = "recommendation_created"
               PROVE  \E j \in RowsOf(r)' :
                        /\ j < i /\ \A k \in RowsOf(r)' : k <= j \/ i <= k
                        /\ trail'[j] = AuditRow(r, "triage_report_generated", trail'[i][3])
    BY DEF Reported, JustBefore, AuditRow
  <2>1. CASE i \in RowsOf(r)
    <3>1. PICK j \in RowsOf(r) : /\ j < i /\ \A k \in RowsOf(r) : k <= j \/ i <= k
                                 /\ trail[j] = AuditRow(r, "triage_report_generated", trail[i][3])
      BY <2>1, <1>1, <1>3 DEF Reported, JustBefore
    <3>2. \A k \in RowsOf(r)' : k <= j \/ i <= k
      BY <3>1, <1>1, <1>0, <2>1
    <3>3. trail'[j] = trail[j] /\ trail'[i] = trail[i] /\ j \in RowsOf(r)'
      BY <3>1, <2>1, <1>1
    <3> QED  BY <3>1, <3>2, <3>3
  <2>2. CASE i = n + 1
    <3>1. EndsWith(r, AuditRow(r, "triage_report_generated", row[3]))
      BY <2>2, <1>1, <1>3
    <3>2. PICK j \in RowsOf(r) : /\ trail[j] = AuditRow(r, "triage_report_generated", row[3])
                                 /\ \A k \in RowsOf(r) : k <= j
      BY <3>1 DEF EndsWith
    <3>3. trail'[j] = trail[j] /\ trail'[i] = row /\ j \in RowsOf(r)' /\ j < i
      BY <3>2, <2>2, <1>1, <1>0
    <3>4. \A k \in RowsOf(r)' : k <= j \/ i <= k
      BY <3>2, <2>2, <1>1, <1>0
    <3> QED  BY <3>2, <3>3, <3>4
  <2> QED  BY <2>1, <2>2, <1>1
<1>4. Unaudited(r)' \subseteq Unaudited(r)
  BY <1>1 DEF Unaudited
<1>5. row[2] = "recommendation_created" => row[3] \notin Unaudited(r)'
  <2>1. row = <<row[1], row[2], row[3]>>
    BY DEF TrailRows
  <2> QED  BY <1>1, <2>1 DEF Unaudited, AuditRow
<1>6. Started(r) => Started(r)'
  <2>1. ASSUME NEW i \in RowsOf(r), \A j \in RowsOf(r) : i <= j
        PROVE  i \in RowsOf(r)' /\ (\A j \in RowsOf(r)' : i <= j) /\ trail'[i] = trail[i]
    <3>1. i \in RowsOf(r)' /\ trail'[i] = trail[i]
      BY <1>1
    <3>2. i \in Nat /\ i < n + 1 /\ i <= n + 1
      BY <1>0, <1>1
    <3> QED  BY <3>1, <3>2, <2>1, <1>1
  <2> QED  BY <2>1 DEF Started, StartsWith, AuditRow
<1>7. ASSUME RowsOf(r) = {}, row = AuditRow(r, "scenario_run_started", r) PROVE Started(r)'
  <2>1. RowsOf(r)' = {n + 1} /\ n + 1 <= n + 1
    BY <1>1, <1>7
  <2> QED  BY <2>1, <1>1, <1>7 DEF Started, StartsWith, AuditRow
<1>8. EndsWith(r, row)'
  <2>1. n + 1 \in RowsOf(r)' /\ \A j \in RowsOf(r)' : j <= n + 1
    BY <1>1, <1>0
  <2> QED  BY <2>1, <1>1 DEF EndsWith
<1> QED  BY <1>2, <1>3, <1>4, <1>5, <1>6, <1>7, <1>8

(* A run's part of the trail, while nothing is appended or recommended.     *)
LEMMA TrailStays ==
  ASSUME UNCHANGED <<trail, recommended>>, NEW q \in DemoRuns
  PROVE  /\ RowsOf(q)' = RowsOf(q) /\ (Reported(q)' <=> Reported(q))
         /\ Unaudited(q)' = Unaudited(q) /\ (Started(q)' <=> Started(q))
         /\ \A x : EndsWith(q, x)' <=> EndsWith(q, x)
BY DEF RowsOf, Reported, JustBefore, Unaudited, Started, StartsWith, EndsWith

-----------------------------------------------------------------------------
(* No run has started.                                                      *)
LEMMA NotStartedIsLocal ==
  /\ NotStarted \in Locals /\ NotStarted.at = "idle" /\ NotStarted.replayed = 0
  /\ NotStarted.touched = << >> /\ NotStarted.written = 0
<1>1. << >> \in Seq(DemoAlerts) /\ NoAlertYet \in DemoAlerts \cup {NoAlertYet}
  OBVIOUS
<1> QED  BY <1>1 DEF NotStarted, Locals, Places

(* Initially nothing has been recorded, and nothing was to be.              *)
LEMMA DemoInitInv == DemoAssumption /\ DemoInit => DemoInv
<1> SUFFICES ASSUME DemoAssumption, DemoInit PROVE DemoInv
  OBVIOUS
<1>1. trail = << >> /\ << >> \in Seq(TrailRows)
  BY DEF DemoInit
<1>2. DemoValues
  BY <1>1, NotStartedIsLocal DEF DemoValues, DemoInit
<1>3. OwnAlerts
  BY FS_EmptySet DEF OwnAlerts, DemoInit
<1>4. ASSUME NEW r \in DemoRuns PROVE OwnState(r) /\ Recorded(r)
  <2>1. demo[r] = NotStarted /\ recommended = {} /\ EventsOf(r) \in Nat
    BY <1>4 DEF DemoInit, DemoAssumption
  <2>2. RowsOf(r) = {} /\ Unaudited(r) = {}
    BY <1>1, <2>1 DEF RowsOf, Unaudited
  <2>3. Cardinality(RowsOf(r)) = 0
    BY <2>2, FS_EmptySet
  <2>4. ~Doing(r, AuditActions) /\ \A a : ~Doing(r, a)
    BY <2>1, NotStartedIsLocal DEF Doing
  <2>5. OwnState(r)
    BY <2>1, NotStartedIsLocal DEF OwnState, Active
  <2> QED  BY <2>1, <2>2, <2>3, <2>4, <2>5, NotStartedIsLocal DEF Recorded, Reported
<1> QED  BY <1>2, <1>3, <1>4 DEF DemoInv

(* The locals of one run change, those of the others do not.                *)
LEMMA GoFacts ==
  ASSUME demo \in [DemoRuns -> Locals], NEW r \in DemoRuns, NEW local \in Locals, Go(r, local)
  PROVE  /\ demo' \in [DemoRuns -> Locals] /\ demo'[r] = local
         /\ \A q \in DemoRuns \ {r} : demo'[q] = demo[q]
BY DEF Go

(* A run ends.                                                              *)
LEMMA EndedFields ==
  ASSUME NEW local \in Locals, NEW answer \in Places
  PROVE  /\ Ended(local, answer) \in Locals
         /\ Ended(local, answer).at = answer /\ Ended(local, answer).replayed = 0
         /\ Ended(local, answer).touched = << >>
         /\ Ended(local, answer).written = local.written
BY NotStartedIsLocal DEF Ended, Locals

(* What a run has to do with stays while others move.                       *)
LEMMA BystanderStays ==
  ASSUME NEW q \in DemoRuns, demo'[q] = demo[q], OwnState(q), Recorded(q),
         demoCases \subseteq demoCases',
         \A a \in stateAlerts[q] : \E b \in stateAlerts'[q] : b.alert = a.alert,
         RowsOf(q)' = RowsOf(q), Reported(q)' <=> Reported(q),
         Unaudited(q)' = Unaudited(q), Started(q)' <=> Started(q),
         \A x : EndsWith(q, x)' <=> EndsWith(q, x)
  PROVE  OwnState(q)' /\ Recorded(q)'
<1>1. OwnState(q)'
  BY DEF OwnState, Active
<1>2. Recorded(q)'
  BY DEF Recorded, Doing, AuditRow
<1> QED  BY <1>1, <1>2

(* A run moves on without doing anything to what is shared.                 *)
LEMMA OneRunMoves ==
  ASSUME DemoInv, NEW r \in DemoRuns, NEW local \in Locals, Go(r, local),
         UNCHANGED <<defaultState, stateAlerts, demoCases, recommended, trail>>,
         OwnState(r)', Recorded(r)'
  PROVE  DemoInv'
<1>1. /\ demo' \in [DemoRuns -> Locals]
      /\ \A q \in DemoRuns \ {r} : demo'[q] = demo[q]
  BY GoFacts DEF DemoInv, DemoValues
<1>2. ASSUME NEW q \in DemoRuns \ {r} PROVE OwnState(q)' /\ Recorded(q)'
  BY <1>1, BystanderStays, TrailStays DEF DemoInv
<1>3. DemoValues' /\ OwnAlerts'
  BY <1>1 DEF DemoInv, DemoValues, OwnAlerts
<1> QED  BY <1>2, <1>3 DEF DemoInv

(* What DemoInv says of one run.                                            *)
LEMMA RunFacts ==
  ASSUME DemoInv, NEW r \in DemoRuns
  PROVE  /\ demo \in [DemoRuns -> Locals] /\ demo[r] \in Locals /\ OwnState(r) /\ Recorded(r)
         /\ demo[r].at \in Places /\ demo[r].replayed \in Nat /\ demo[r].touched \in Seq(DemoAlerts)
         /\ demo[r].written \in Nat /\ demo[r].row \in TrailRows \cup {<< >>}
         /\ demo[r].state \in DemoRuns \cup {NoState}
<1>1. demo \in [DemoRuns -> Locals] /\ demo[r] \in Locals /\ OwnState(r) /\ Recorded(r)
  BY DEF DemoInv, DemoValues
<1> QED  BY <1>1 DEF Locals

(* A run that ends early leaves behind what it has recorded.                *)
LEMMA EndsEarly ==
  ASSUME DemoAssumption, DemoInv, NEW r \in DemoRuns, NEW answer \in {"failed", "not_found"},
         answer = "not_found" => demo[r].at = "idle",
         Go(r, Ended(demo[r], answer)),
         UNCHANGED <<defaultState, stateAlerts, demoCases, recommended, trail>>
  PROVE  DemoInv'
<1> DEFINE local == Ended(demo[r], answer)
<1>1. /\ local \in Locals /\ local.at = answer /\ local.replayed = 0 /\ local.touched = << >>
      /\ local.written = demo[r].written
  BY EndedFields, RunFacts DEF Places
<1>2. demo'[r] = local
  BY <1>1, GoFacts, RunFacts
<1> HIDE DEF local
<1>3. OwnState(r)'
  BY <1>1, <1>2 DEF OwnState, Active, DemoAssumption
<1>4. \A a : ~Doing(r, a)'
  BY <1>1, <1>2 DEF Doing
<1>5. Recorded(r)'
  <2>1. /\ RowsOf(r)' = RowsOf(r) /\ (Reported(r)' <=> Reported(r))
        /\ Unaudited(r)' = Unaudited(r) /\ (Started(r)' <=> Started(r))
    BY TrailStays
  <2>2. Recorded(r)
    BY RunFacts
  <2>3. Unaudited(r) # {} => answer = "failed"
    BY <2>2 DEF Recorded, Doing
  <2> QED  BY <2>1, <2>2, <2>3, <1>1, <1>2, <1>4 DEF Recorded, Doing
<1> QED  BY <1>1, <1>3, <1>5, OneRunMoves DEF local

(* A run of a name there is makes its own state the default.                *)
LEMMA StartRunInv ==
  ASSUME DemoAssumption, DemoInv, NEW r \in DemoRuns, StartRun(r) PROVE DemoInv'
<1>1. CASE Go(r, Ended(demo[r], "not_found")) /\ UNCHANGED defaultState
  BY <1>1, EndsEarly DEF StartRun
<1>2. CASE Go(r, [demo[r] EXCEPT !.at = "replaying", !.state = r]) /\ defaultState' = r
  <2> DEFINE local == [demo[r] EXCEPT !.at = "replaying", !.state = r]
  <2>1. /\ local \in Locals /\ local.at = "replaying" /\ local.state = r
        /\ local.replayed = demo[r].replayed /\ local.touched = demo[r].touched
        /\ local.written = demo[r].written
    BY RunFacts DEF Locals, Places
  <2>2. /\ demo' \in [DemoRuns -> Locals] /\ demo'[r] = local
        /\ \A q \in DemoRuns \ {r} : demo'[q] = demo[q]
    BY <1>2, <2>1, GoFacts, RunFacts
  <2> HIDE DEF local
  <2>3. /\ UNCHANGED <<stateAlerts, demoCases, recommended, trail>> /\ demo[r].at = "idle"
        /\ defaultState' \in DemoRuns
    BY <1>2 DEF StartRun
  <2>4. DemoValues' /\ OwnAlerts'
    BY <2>2, <2>3 DEF DemoInv, DemoValues, OwnAlerts
  <2>5. ASSUME NEW q \in DemoRuns \ {r} PROVE OwnState(q)' /\ Recorded(q)'
    BY <2>2, <2>3, BystanderStays, TrailStays DEF DemoInv
  <2>6. OwnState(r)'
    BY <2>1, <2>2, <2>3, RunFacts DEF OwnState, Active
  <2>7. Recorded(r)'
    <3>1. /\ RowsOf(r)' = RowsOf(r) /\ (Reported(r)' <=> Reported(r))
          /\ Unaudited(r)' = Unaudited(r)
      BY <2>3, TrailStays
    <3>2. Recorded(r)
      BY RunFacts
    <3>3. Unaudited(r) = {} /\ RowsOf(r) = {}
      BY <3>2, <2>3 DEF Recorded, Doing
    <3> QED  BY <3>1, <3>2, <3>3, <2>1, <2>2 DEF Recorded, Doing
  <2> QED  BY <2>4, <2>5, <2>6, <2>7 DEF DemoInv
<1> QED  BY <1>1, <1>2 DEF StartRun

(* The alerts of a state with one that is new.                              *)
LEMMA NewAlert ==
  ASSUME DemoInv, NEW r \in DemoRuns, demo[r].state = r,
         NEW n, n = Cardinality(stateAlerts[r]) + 1
  PROVE  /\ DemoAlert(r, n) \in DemoAlerts /\ DemoAlert(r, n)[1] = r
         /\ [alert |-> DemoAlert(r, n), by |-> r, linked |-> FALSE] \in AlertsInState
<1>1. IsFiniteSet(stateAlerts[r])
  BY DEF DemoInv, OwnAlerts
<1>2. n \in Nat
  BY <1>1, FS_CardinalityType
<1> QED  BY <1>2 DEF DemoAlert, DemoAlerts, AlertsInState

(* An event of the scenario is replayed.                                    *)
LEMMA ReplayEventInv ==
  ASSUME DemoAssumption, DemoInv, NEW r \in DemoRuns, ReplayEvent(r) PROVE DemoInv'
<1>1. /\ demo[r].at = "replaying" /\ demo[r].replayed < EventsOf(r) /\ EventsOf(r) \in Nat
      /\ UNCHANGED <<defaultState, demoCases, recommended, trail>>
  BY DEF ReplayEvent, DemoAssumption
<1>2. DetectionStateOf(r) = r /\ demo[r].state = r
  BY <1>1, RunFacts DEF OwnState, Active, DetectionStateOf
<1> DEFINE replayed == [demo[r] EXCEPT !.replayed = @ + 1]
           Alerted(a) == [replayed EXCEPT !.at = "landing", !.alert = a]
           new == DemoAlert(r, Cardinality(stateAlerts[r]) + 1)
           newAlert == [alert |-> new, by |-> r, linked |-> FALSE]
<1>3. PICK n : n = Cardinality(stateAlerts[r]) + 1
  OBVIOUS
<1>4. new \in DemoAlerts /\ new[1] = r /\ newAlert \in AlertsInState
  BY <1>2, <1>3, NewAlert
<1>5. /\ replayed \in Locals /\ replayed.at = "replaying" /\ replayed.replayed = demo[r].replayed + 1
      /\ replayed.state = r /\ replayed.touched = demo[r].touched /\ replayed.written = demo[r].written
  <2>1. demo[r] \in Locals /\ demo[r].replayed + 1 \in Nat
    BY RunFacts
  <2> QED  BY <1>1, <1>2, <2>1 DEF Locals
<1>6. \A a \in DemoAlerts :
        /\ Alerted(a) \in Locals /\ Alerted(a).at = "landing" /\ Alerted(a).alert = a
        /\ Alerted(a).replayed = demo[r].replayed + 1
        /\ Alerted(a).state = r /\ Alerted(a).touched = demo[r].touched
        /\ Alerted(a).written = demo[r].written
  BY <1>5 DEF Locals, Places
<1>7. \/ Go(r, replayed) /\ UNCHANGED stateAlerts
      \/ \E a \in stateAlerts[r] : Go(r, Alerted(a.alert)) /\ UNCHANGED stateAlerts
      \/ /\ Go(r, Alerted(new))
         /\ stateAlerts' = [stateAlerts EXCEPT ![r] = @ \cup {newAlert}]
  BY <1>2 DEF ReplayEvent
<1> HIDE DEF replayed, Alerted, new
<1>8. PICK local \in Locals :
        /\ Go(r, local) /\ local.at \in {"replaying", "landing"}
        /\ local.replayed = demo[r].replayed + 1 /\ local.state = r
        /\ local.touched = demo[r].touched /\ local.written = demo[r].written
        /\ \/ /\ UNCHANGED stateAlerts
              /\ local.at = "landing" => \E a \in stateAlerts[r] : a.alert = local.alert
           \/ local.alert = new /\ stateAlerts' = [stateAlerts EXCEPT ![r] = @ \cup {newAlert}]
  <2>1. \A a \in stateAlerts[r] : a.alert \in DemoAlerts
    BY DEF DemoInv, DemoValues, AlertsInState
  <2> QED  BY <1>4, <1>5, <1>6, <1>7, <2>1
<1>9. /\ demo' \in [DemoRuns -> Locals] /\ demo'[r] = local
      /\ \A q \in DemoRuns \ {r} : demo'[q] = demo[q]
  BY <1>8, GoFacts, RunFacts
<1>10. /\ stateAlerts \in [DemoRuns -> SUBSET AlertsInState]
       /\ stateAlerts' \in [DemoRuns -> SUBSET AlertsInState]
       /\ \A s \in DemoRuns : stateAlerts[s] \subseteq stateAlerts'[s]
       /\ \A s \in DemoRuns :
            \/ stateAlerts'[s] = stateAlerts[s]
            \/ s = r /\ stateAlerts'[s] = stateAlerts[s] \cup {newAlert}
       /\ demo'[r].at = "landing" => \E a \in stateAlerts'[r] : a.alert = demo'[r].alert
  <2>1. stateAlerts \in [DemoRuns -> SUBSET AlertsInState]
    BY DEF DemoInv, DemoValues
  <2>2. CASE UNCHANGED stateAlerts
    <3>1. local.at = "landing" => \E a \in stateAlerts[r] : a.alert = local.alert
      <4>1. newAlert \in stateAlerts'[r] \/ (local.at = "landing" => \E a \in stateAlerts[r] : a.alert = local.alert)
        BY <1>8, <2>1
      <4> QED  BY <4>1, <1>8, <2>2 DEF newAlert
    <3> QED  BY <2>1, <2>2, <3>1, <1>9
  <2>3. CASE local.alert = new /\ stateAlerts' = [stateAlerts EXCEPT ![r] = @ \cup {newAlert}]
    <3>1. newAlert.alert = new
      OBVIOUS
    <3> HIDE DEF newAlert
    <3> QED  BY <2>1, <2>3, <1>4, <1>9, <3>1
  <2> QED  BY <2>2, <2>3, <1>8
<1>11. DemoValues'
  BY <1>1, <1>9, <1>10 DEF DemoInv, DemoValues
<1>12. OwnAlerts'
  <2>1. newAlert.alert[1] = r /\ newAlert.by = r /\ ~newAlert.linked
    BY <1>4
  <2> HIDE DEF newAlert
  <2>2. ASSUME NEW s \in DemoRuns PROVE IsFiniteSet(stateAlerts'[s])
    <3>1. IsFiniteSet(stateAlerts[s])
      BY DEF DemoInv, OwnAlerts
    <3> QED  BY <3>1, <1>10, FS_AddElement
  <2>3. ASSUME NEW s \in DemoRuns, NEW a \in stateAlerts'[s]
        PROVE  a.alert[1] = s /\ a.by = s /\ (a.linked => a.alert \in demoCases')
    BY <2>1, <1>1, <1>10 DEF DemoInv, OwnAlerts
  <2>4. \A c \in demoCases : c[1] \in DemoRuns
    BY DEF DemoInv, DemoValues, DemoAlerts
  <2>5. \A c \in demoCases' : \E a \in stateAlerts'[c[1]] : a.alert = c
    BY <2>4, <1>1, <1>10 DEF DemoInv, OwnAlerts
  <2> QED  BY <2>2, <2>3, <2>5 DEF OwnAlerts
<1>13. ASSUME NEW q \in DemoRuns \ {r} PROVE OwnState(q)' /\ Recorded(q)'
  <2>1. \A a \in stateAlerts[q] : \E b \in stateAlerts'[q] : b.alert = a.alert
    BY <1>10
  <2> QED  BY <2>1, <1>1, <1>9, BystanderStays, TrailStays DEF DemoInv
<1>14. OwnState(r)'
  BY <1>1, <1>8, <1>9, <1>10, RunFacts DEF OwnState, Active
<1>15. Recorded(r)'
  <2>1. /\ RowsOf(r)' = RowsOf(r) /\ (Reported(r)' <=> Reported(r))
        /\ Unaudited(r)' = Unaudited(r)
    BY <1>1, TrailStays
  <2>2. Recorded(r)
    BY RunFacts
  <2>3. Unaudited(r) = {} /\ RowsOf(r) = {}
    BY <2>2, <1>1 DEF Recorded, Doing
  <2> QED  BY <2>1, <2>2, <2>3, <1>8, <1>9 DEF Recorded, Doing
<1> QED  BY <1>11, <1>12, <1>13, <1>14, <1>15 DEF DemoInv

(* Alerts of a state, those of one name linked to its case.                 *)
LinkedTo(S, a) == {IF b.alert = a THEN [b EXCEPT !.linked = TRUE] ELSE b : b \in S}

(* Alerts that come to name their case stay as many, and otherwise the same. *)
LEMMA LinkedAlerts ==
  ASSUME NEW S \in SUBSET AlertsInState, IsFiniteSet(S), NEW a, NEW T,
         T = LinkedTo(S, a)
  PROVE  /\ IsFiniteSet(T) /\ T \in SUBSET AlertsInState
         /\ \A t \in T : \E b \in S : /\ t.alert = b.alert /\ t.by = b.by
                                      /\ t.linked => b.linked \/ t.alert = a
         /\ \A b \in S : \E t \in T : t.alert = b.alert
<1> DEFINE Link(b) == IF b.alert = a THEN [b EXCEPT !.linked = TRUE] ELSE b
           f == [b \in S |-> Link(b)]
<1>1. \A b \in S : /\ Link(b) \in AlertsInState /\ Link(b).alert = b.alert /\ Link(b).by = b.by
                   /\ Link(b).linked => b.linked \/ b.alert = a
  BY DEF AlertsInState
<1>2. T = {Link(b) : b \in S}
  BY DEF LinkedTo
<1> HIDE DEF Link
<1>3. f \in Surjection(S, T)
  <2>1. f \in [S -> T] /\ \A t \in T : \E b \in S : f[b] = t
    BY <1>2
  <2> QED  BY <2>1 DEF Surjection
<1>4. IsFiniteSet(T)
  BY <1>3, FS_Surjection
<1> QED  BY <1>1, <1>2, <1>4

(* The case of an alert is committed, and the alert names it.               *)
LEMMA LandAlertInv ==
  ASSUME DemoAssumption, DemoInv, NEW r \in DemoRuns, LandAlert(r) PROVE DemoInv'
<1>1. /\ demo[r].at = "landing" /\ UNCHANGED <<defaultState, recommended, trail>>
      /\ demoCases' = demoCases \cup {demo[r].alert}
  BY DEF LandAlert
<1>2. /\ DetectionStateOf(r) = r /\ demo[r].state = r
      /\ \E b \in stateAlerts[r] : b.alert = demo[r].alert
  BY <1>1, RunFacts DEF OwnState, Active, DetectionStateOf
<1>3. PICK a : a = demo[r].alert
  OBVIOUS
<1>4. PICK touched : touched = IF Contains(demo[r].touched, a) THEN demo[r].touched
                               ELSE Append(demo[r].touched, a)
  OBVIOUS
<1>5. /\ stateAlerts \in [DemoRuns -> SUBSET AlertsInState] /\ demo[r].touched \in Seq(DemoAlerts)
      /\ \A s \in DemoRuns : IsFiniteSet(stateAlerts[s])
      /\ demoCases \in SUBSET DemoAlerts
  BY RunFacts DEF DemoInv, DemoValues, OwnAlerts
<1>6. a \in DemoAlerts /\ a[1] = r /\ \E b \in stateAlerts[r] : b.alert = a
  <2>1. PICK b \in stateAlerts[r] : b.alert = a
    BY <1>2, <1>3
  <2>2. b \in AlertsInState /\ b.alert[1] = r
    BY <2>1, <1>5 DEF DemoInv, OwnAlerts
  <2> QED  BY <2>1, <2>2 DEF AlertsInState
<1>7. /\ touched \in Seq(DemoAlerts)
      /\ \A i \in DOMAIN touched : touched[i] \in demoCases' /\ touched[i][1] = r
  <2>1. \A i \in DOMAIN demo[r].touched :
          demo[r].touched[i] \in demoCases /\ demo[r].touched[i][1] = r
    BY RunFacts DEF OwnState
  <2>2. CASE Contains(demo[r].touched, a)
    BY <2>1, <2>2, <1>1, <1>4, <1>5
  <2>3. CASE ~Contains(demo[r].touched, a)
    <3>1. touched = Append(demo[r].touched, a)
      BY <2>3, <1>4
    <3> QED  BY <2>1, <3>1, <1>1, <1>3, <1>5, <1>6
  <2> QED  BY <2>2, <2>3
<1> DEFINE local == [demo[r] EXCEPT !.at = "replaying", !.alert = NoAlertYet, !.touched = touched]
<1>8. /\ local \in Locals /\ local.at = "replaying" /\ local.touched = touched
      /\ local.replayed = demo[r].replayed /\ local.state = r /\ local.written = demo[r].written
  <2>1. demo[r] \in Locals
    BY RunFacts
  <2> QED  BY <2>1, <1>2, <1>7 DEF Locals, Places
<1>9. Go(r, local)
  BY <1>3, <1>4 DEF LandAlert
<1> HIDE DEF local
<1>10. /\ demo' \in [DemoRuns -> Locals] /\ demo'[r] = local
       /\ \A q \in DemoRuns \ {r} : demo'[q] = demo[q]
  BY <1>8, <1>9, GoFacts, RunFacts
<1>11. PICK T : T = LinkedTo(stateAlerts[r], a)
  OBVIOUS
<1>12. stateAlerts' = [stateAlerts EXCEPT ![r] = T]
  BY <1>2, <1>3, <1>11 DEF LandAlert, LinkedTo
<1>13. /\ IsFiniteSet(T) /\ T \in SUBSET AlertsInState
       /\ \A t \in T : \E b \in stateAlerts[r] : /\ t.alert = b.alert /\ t.by = b.by
                                                 /\ t.linked => b.linked \/ t.alert = a
       /\ \A b \in stateAlerts[r] : \E t \in T : t.alert = b.alert
  <2>1. PICK S : S = stateAlerts[r]
    OBVIOUS
  <2>2. /\ S \in SUBSET AlertsInState /\ IsFiniteSet(S)
        /\ T = LinkedTo(S, a)
    BY <2>1, <1>5, <1>11
  <2>3. /\ IsFiniteSet(T) /\ T \in SUBSET AlertsInState
        /\ \A t \in T : \E b \in S : /\ t.alert = b.alert /\ t.by = b.by
                                     /\ t.linked => b.linked \/ t.alert = a
        /\ \A b \in S : \E t \in T : t.alert = b.alert
    BY <2>2, LinkedAlerts
  <2> QED  BY <2>1, <2>3
<1>14. /\ stateAlerts' \in [DemoRuns -> SUBSET AlertsInState] /\ stateAlerts'[r] = T
       /\ \A s \in DemoRuns \ {r} : stateAlerts'[s] = stateAlerts[s]
  BY <1>5, <1>12, <1>13
<1>15. DemoValues'
  <2>1. demoCases' \in SUBSET DemoAlerts /\ recommended' \in SUBSET demoCases'
    BY <1>1, <1>3, <1>5, <1>6 DEF DemoInv, DemoValues
  <2> QED  BY <2>1, <1>1, <1>10, <1>14 DEF DemoInv, DemoValues
<1>16. OwnAlerts'
  <2>1. ASSUME NEW s \in DemoRuns PROVE IsFiniteSet(stateAlerts'[s])
    BY <1>5, <1>13, <1>14
  <2>2. ASSUME NEW s \in DemoRuns, NEW t \in stateAlerts'[s]
        PROVE  t.alert[1] = s /\ t.by = s /\ (t.linked => t.alert \in demoCases')
    <3>1. CASE s = r
      <4>1. PICK b \in stateAlerts[r] : /\ t.alert = b.alert /\ t.by = b.by
                                        /\ t.linked => b.linked \/ t.alert = a
        BY <2>2, <3>1, <1>13, <1>14
      <4> QED  BY <3>1, <4>1, <1>1, <1>3 DEF DemoInv, OwnAlerts
    <3>2. CASE s # r
      BY <2>2, <3>2, <1>1, <1>14 DEF DemoInv, OwnAlerts
    <3> QED  BY <3>1, <3>2
  <2>3. ASSUME NEW c \in demoCases' PROVE \E t \in stateAlerts'[c[1]] : t.alert = c
    <3>1. c[1] \in DemoRuns /\ \E b \in stateAlerts[c[1]] : b.alert = c
      BY <1>1, <1>3, <1>5, <1>6 DEF DemoInv, OwnAlerts, DemoAlerts
    <3> QED  BY <3>1, <1>13, <1>14
  <2> QED  BY <2>1, <2>2, <2>3 DEF OwnAlerts
<1>17. ASSUME NEW q \in DemoRuns \ {r} PROVE OwnState(q)' /\ Recorded(q)'
  <2>1. \A b \in stateAlerts[q] : \E t \in stateAlerts'[q] : t.alert = b.alert
    BY <1>14
  <2> QED  BY <2>1, <1>1, <1>10, BystanderStays, TrailStays DEF DemoInv
<1>18. OwnState(r)'
  <2>1. demo[r].replayed <= EventsOf(r)
    BY RunFacts DEF OwnState
  <2> QED  BY <2>1, <1>7, <1>8, <1>10 DEF OwnState, Active
<1>19. Recorded(r)'
  <2>1. /\ RowsOf(r)' = RowsOf(r) /\ (Reported(r)' <=> Reported(r))
        /\ Unaudited(r)' = Unaudited(r)
    BY <1>1, TrailStays
  <2>2. Recorded(r)
    BY RunFacts
  <2>3. Unaudited(r) = {} /\ RowsOf(r) = {}
    BY <2>2, <1>1 DEF Recorded, Doing
  <2> QED  BY <2>1, <2>2, <2>3, <1>8, <1>10 DEF Recorded, Doing
<1> QED  BY <1>15, <1>16, <1>17, <1>18, <1>19 DEF DemoInv

(* A row is put together from where the run is.                             *)
LEMMA AuditFacts ==
  ASSUME DemoInv, NEW r \in DemoRuns, NEW action \in AuditActions,
         NEW resource \in DemoRuns \cup DemoAlerts, Audit(r, demo[r], action, resource)
  PROVE  \E local \in Locals :
           /\ Go(r, local) /\ local.at = "auditing" /\ local.row = AuditRow(r, action, resource)
           /\ local.replayed = demo[r].replayed /\ local.state = demo[r].state
           /\ local.touched = demo[r].touched /\ local.written = demo[r].written
<1> DEFINE local == [demo[r] EXCEPT !.at = "auditing", !.row = AuditRow(r, action, resource)]
<1>1. AuditRow(r, action, resource) \in TrailRows
  BY DEF AuditRow, TrailRows
<1>2. demo[r] \in Locals
  BY RunFacts
<1>3. /\ local \in Locals /\ local.at = "auditing" /\ local.row = AuditRow(r, action, resource)
      /\ local.replayed = demo[r].replayed /\ local.state = demo[r].state
      /\ local.touched = demo[r].touched /\ local.written = demo[r].written
  BY <1>1, <1>2 DEF Locals, Places
<1>4. Go(r, local)
  BY DEF Audit
<1> QED  BY <1>3, <1>4

(* A row that only starts or ends a run is put together.                    *)
LEMMA RunRowInv ==
  ASSUME DemoAssumption, DemoInv, NEW r \in DemoRuns,
         NEW action \in {"scenario_run_started", "scenario_run_completed"},
         Audit(r, demo[r], action, r),
         action = "scenario_run_started" => demo[r].at = "replaying",
         action = "scenario_run_completed" => demo[r].at = "triaging",
         UNCHANGED <<defaultState, stateAlerts, demoCases, recommended, trail>>
  PROVE  DemoInv'
<1>0. AuditRow(r, action, r) \in TrailRows
  BY DEF AuditRow, TrailRows, AuditActions
<1>1. PICK local \in Locals :
        /\ Go(r, local) /\ local.at = "auditing" /\ local.row = AuditRow(r, action, r)
        /\ local.replayed = demo[r].replayed /\ local.state = demo[r].state
        /\ local.touched = demo[r].touched /\ local.written = demo[r].written
  BY AuditFacts DEF AuditActions
<1>2. demo'[r] = local
  BY <1>1, GoFacts, RunFacts
<1>3. OwnState(r)'
  BY <1>0, <1>1, <1>2, RunFacts DEF OwnState, Active
<1>4. /\ RowsOf(r)' = RowsOf(r) /\ (Reported(r)' <=> Reported(r))
      /\ Unaudited(r)' = Unaudited(r) /\ (Started(r)' <=> Started(r))
  BY TrailStays
<1>5. Recorded(r) /\ Unaudited(r) = {}
  BY RunFacts DEF Recorded, Doing
<1>6. \A as : Doing(r, as)' <=> action \in as
  <2>1. demo'[r].at = "auditing" /\ demo'[r].row[2] = action
    BY <1>1, <1>2 DEF AuditRow
  <2> QED  BY <2>1 DEF Doing
<1>7. local.row[1] = r /\ local.row[3] = r
  BY <1>1 DEF AuditRow
<1>8. Recorded(r)'
  BY <1>1, <1>2, <1>4, <1>5, <1>6, <1>7 DEF Recorded, Doing
<1> QED  BY <1>1, <1>3, <1>8, OneRunMoves

(* The run reads where the trail ends, or fails there.                      *)
LEMMA ReadTrailInv ==
  ASSUME DemoAssumption, DemoInv, NEW r \in DemoRuns, ReadTrail(r) PROVE DemoInv'
<1> DEFINE local == [demo[r] EXCEPT !.at = "inserting", !.sequence = Len(trail) + 1]
<1>1. /\ demo[r].at = "auditing" /\ Go(r, local)
      /\ UNCHANGED <<defaultState, stateAlerts, demoCases, recommended, trail>>
  BY DEF ReadTrail
<1>2. demo[r] \in Locals /\ Len(trail) + 1 \in Nat
  BY RunFacts DEF DemoInv, DemoValues
<1>3. /\ local \in Locals /\ local.at = "inserting" /\ local.row = demo[r].row
      /\ local.replayed = demo[r].replayed /\ local.state = demo[r].state
      /\ local.touched = demo[r].touched /\ local.written = demo[r].written
  BY <1>2 DEF Locals, Places
<1> HIDE DEF local
<1>4. demo'[r] = local
  BY <1>1, <1>3, GoFacts, RunFacts
<1>5. OwnState(r)'
  BY <1>1, <1>3, <1>4, RunFacts DEF OwnState, Active
<1>6. /\ RowsOf(r)' = RowsOf(r) /\ (Reported(r)' <=> Reported(r))
      /\ Unaudited(r)' = Unaudited(r) /\ (Started(r)' <=> Started(r))
      /\ \A x : EndsWith(r, x)' <=> EndsWith(r, x)
  BY <1>1, TrailStays
<1>7. \A as : Doing(r, as)' <=> Doing(r, as)
  BY <1>1, <1>3, <1>4 DEF Doing
<1>8. Recorded(r)
  BY RunFacts
<1>9. Recorded(r)'
  BY <1>1, <1>3, <1>4, <1>6, <1>7, <1>8 DEF Recorded, AuditRow
<1> QED  BY <1>1, <1>3, <1>5, <1>9, OneRunMoves

(* The loop over the cases goes on.                                         *)
LEMMA NextCaseFields ==
  ASSUME NEW local \in Locals, local.touched # << >>
  PROVE  /\ NextCase(local) \in Locals /\ NextCase(local).at = "triaging"
         /\ NextCase(local).touched = Tail(local.touched)
         /\ NextCase(local).replayed = local.replayed /\ NextCase(local).state = local.state
         /\ NextCase(local).written = local.written
<1>1. Tail(local.touched) \in Seq(DemoAlerts)
  BY DEF Locals
<1> QED  BY <1>1 DEF NextCase, Locals, Places

(* What can be said of all the cases can be said of those left.             *)
LEMMA TailHolds ==
  ASSUME NEW s \in Seq(DemoAlerts), s # << >>
  PROVE  \A i \in DOMAIN Tail(s) : \E j \in DOMAIN s : Tail(s)[i] = s[j]
<1> SUFFICES ASSUME NEW i \in DOMAIN Tail(s) PROVE i + 1 \in DOMAIN s /\ Tail(s)[i] = s[i + 1]
  OBVIOUS
<1> QED  OBVIOUS

(* A case without a report or a recommendation is skipped.                  *)
LEMMA SkipInv ==
  ASSUME DemoAssumption, DemoInv, NEW r \in DemoRuns, Go(r, NextCase(demo[r])),
         demo[r].at \in {"triaging", "recommending"}, demo[r].touched # << >>,
         UNCHANGED <<defaultState, stateAlerts, demoCases, recommended, trail>>
  PROVE  DemoInv'
<1> DEFINE local == NextCase(demo[r])
<1>1. demo[r] \in Locals /\ demo[r].touched \in Seq(DemoAlerts)
  BY RunFacts
<1>2. /\ local \in Locals /\ local.at = "triaging" /\ local.touched = Tail(demo[r].touched)
      /\ local.replayed = demo[r].replayed /\ local.state = demo[r].state
      /\ local.written = demo[r].written
  BY <1>1, NextCaseFields
<1> HIDE DEF local
<1>3. demo'[r] = local
  BY <1>2, GoFacts, RunFacts DEF local
<1>4. \A i \in DOMAIN local.touched : local.touched[i] \in demoCases /\ local.touched[i][1] = r
  <2>1. PICK s \in Seq(DemoAlerts) : s = demo[r].touched
    BY <1>1
  <2>2. \A i \in DOMAIN Tail(s) : \E j \in DOMAIN s : Tail(s)[i] = s[j]
    BY <2>1, TailHolds
  <2> QED  BY <2>1, <2>2, <1>2, RunFacts DEF OwnState
<1>5. OwnState(r)'
  BY <1>2, <1>3, <1>4, RunFacts DEF OwnState, Active
<1>6. /\ RowsOf(r)' = RowsOf(r) /\ (Reported(r)' <=> Reported(r))
      /\ Unaudited(r)' = Unaudited(r) /\ (Started(r)' <=> Started(r))
  BY TrailStays
<1>7. Recorded(r) /\ \A as : ~Doing(r, as)'
  BY <1>2, <1>3, RunFacts DEF Doing
<1>8. Unaudited(r) = {} /\ Started(r)
  BY <1>7 DEF Recorded, Doing
<1>9. Recorded(r)'
  BY <1>2, <1>3, <1>6, <1>7, <1>8 DEF Recorded
<1> QED  BY <1>2, <1>5, <1>9, OneRunMoves DEF local

(* Where a run goes on once its row is written.                             *)
LEMMA WrittenFields ==
  ASSUME NEW local \in Locals, local.row \in TrailRows,
         local.row[2] = "recommendation_created" => local.touched # << >>
  PROVE  /\ Written(local) \in Locals /\ Written(local).written = local.written + 1
         /\ local.row[2] # "scenario_run_completed" =>
              Written(local).replayed = local.replayed /\ Written(local).state = local.state
         /\ local.row[2] = "scenario_run_started" =>
              Written(local).at = "triaging" /\ Written(local).touched = local.touched
         /\ local.row[2] = "triage_report_generated" =>
              Written(local).at = "recommending" /\ Written(local).touched = local.touched
         /\ local.row[2] = "recommendation_created" =>
              Written(local).at = "triaging" /\ Written(local).touched = Tail(local.touched)
         /\ local.row[2] = "scenario_run_completed" =>
              /\ Written(local).at = "completed" /\ Written(local).touched = << >>
              /\ Written(local).replayed = 0
<1> DEFINE counted == [local EXCEPT !.written = @ + 1]
<1>1. /\ counted \in Locals /\ counted.written = local.written + 1
      /\ counted.replayed = local.replayed /\ counted.state = local.state
      /\ counted.touched = local.touched
  BY DEF Locals
<1>2. Written(local) =
        CASE local.row[2] = "scenario_run_started" -> [counted EXCEPT !.at = "triaging"]
          [] local.row[2] = "triage_report_generated" -> [counted EXCEPT !.at = "recommending"]
          [] local.row[2] = "recommendation_created" -> NextCase(counted)
          [] local.row[2] = "scenario_run_completed" -> Ended(counted, "completed")
  BY DEF Written
<1> HIDE DEF counted
<1>3. CASE local.row[2] = "scenario_run_started"
  <2>1. Written(local) = [counted EXCEPT !.at = "triaging"]
    BY <1>2, <1>3
  <2> QED  BY <1>1, <1>3, <2>1 DEF Locals, Places
<1>4. CASE local.row[2] = "triage_report_generated"
  <2>1. Written(local) = [counted EXCEPT !.at = "recommending"]
    BY <1>2, <1>4
  <2> QED  BY <1>1, <1>4, <2>1 DEF Locals, Places
<1>5. CASE local.row[2] = "recommendation_created"
  <2>1. Written(local) = NextCase(counted)
    BY <1>2, <1>5
  <2> QED  BY <1>1, <1>5, <2>1, NextCaseFields
<1>6. CASE local.row[2] = "scenario_run_completed"
  <2>1. Written(local) = Ended(counted, "completed") /\ "completed" \in Places
    BY <1>2, <1>6 DEF Places
  <2> QED  BY <1>1, <1>6, <2>1, EndedFields
<1>7. local.row[2] \in AuditActions
  BY DEF TrailRows
<1> QED  BY <1>3, <1>4, <1>5, <1>6, <1>7 DEF AuditActions

(* The row is written, and the run goes on, or it has lost the race.        *)
LEMMA InsertRowInv ==
  ASSUME DemoAssumption, DemoInv, NEW r \in DemoRuns, InsertRow(r) PROVE DemoInv'
<1>1. demo[r].at = "inserting" /\ UNCHANGED <<defaultState, stateAlerts, demoCases, recommended>>
  BY DEF InsertRow
<1>2. CASE Go(r, Collided(r)) /\ UNCHANGED trail
  BY <1>1, <1>2, EndsEarly DEF Collided
<1>3. CASE trail' = Append(trail, demo[r].row) /\ Go(r, Written(demo[r]))
  <2>1. PICK row \in TrailRows, old \in Locals : row = demo[r].row /\ old = demo[r]
    BY <1>1, RunFacts DEF OwnState
  <2>2. PICK local : local = Written(old)
    OBVIOUS
  <2>3. OwnState(r) /\ Recorded(r) /\ row[2] \in AuditActions
    BY RunFacts DEF TrailRows
  <2>4. /\ row[1] = r /\ Doing(r, {row[2]})
        /\ row[2] \in {"scenario_run_started", "scenario_run_completed"} => row[3] = r
        /\ row[2] \in {"triage_report_generated", "recommendation_created"} =>
             old.touched # << >> /\ row[3] = Head(old.touched)
        /\ row[2] = "scenario_run_started" => RowsOf(r) = {}
        /\ row[2] # "scenario_run_started" => Started(r)
        /\ row[2] = "recommendation_created" =>
             EndsWith(r, AuditRow(r, "triage_report_generated", row[3]))
    BY <1>1, <2>1, <2>3 DEF Recorded, Doing, AuditActions
  <2>5. /\ local \in Locals /\ local.written = old.written + 1
        /\ row[2] # "scenario_run_completed" =>
             local.replayed = old.replayed /\ local.state = old.state
        /\ row[2] = "scenario_run_started" =>
             local.at = "triaging" /\ local.touched = old.touched
        /\ row[2] = "triage_report_generated" =>
             local.at = "recommending" /\ local.touched = old.touched
        /\ row[2] = "recommendation_created" =>
             local.at = "triaging" /\ local.touched = Tail(old.touched)
        /\ row[2] = "scenario_run_completed" =>
             local.at = "completed" /\ local.touched = << >> /\ local.replayed = 0
    BY <2>1, <2>2, <2>4, WrittenFields
  <2>6. /\ demo' \in [DemoRuns -> Locals] /\ demo'[r] = local
        /\ \A q \in DemoRuns \ {r} : demo'[q] = demo[q]
    BY <1>3, <2>1, <2>2, <2>5, GoFacts, RunFacts
  <2>7. trail \in Seq(TrailRows) /\ trail' = Append(trail, row)
    BY <1>3, <2>1 DEF DemoInv, DemoValues
  <2>8. DemoValues' /\ OwnAlerts'
    <3>1. trail' \in Seq(TrailRows)
      BY <2>7
    <3> QED  BY <1>1, <2>6, <3>1 DEF DemoInv, DemoValues, OwnAlerts
  <2>9. ASSUME NEW q \in DemoRuns \ {r} PROVE OwnState(q)' /\ Recorded(q)'
    <3>1. /\ RowsOf(q)' = RowsOf(q) /\ (Reported(q)' <=> Reported(q))
          /\ Unaudited(q)' = Unaudited(q) /\ (Started(q)' <=> Started(q))
          /\ \A x : EndsWith(q, x)' <=> EndsWith(q, x)
      BY <1>1, <2>4, <2>7, OthersRows
    <3> QED  BY <1>1, <2>6, <3>1, BystanderStays DEF DemoInv
  <2>10. OwnState(r)'
    <3>1. PICK s \in Seq(DemoAlerts) : s = old.touched
      BY <2>1, RunFacts
    <3>2. s # << >> => \A i \in DOMAIN Tail(s) : \E j \in DOMAIN s : Tail(s)[i] = s[j]
      BY TailHolds
    <3>3. \A i \in DOMAIN s : s[i] \in demoCases /\ s[i][1] = r
      BY <2>1, <2>3, <3>1 DEF OwnState
    <3>4. \A i \in DOMAIN local.touched : local.touched[i] \in demoCases /\ local.touched[i][1] = r
      <4>1. \/ local.touched = s
            \/ local.touched = << >>
            \/ s # << >> /\ local.touched = Tail(s)
        BY <2>3, <2>4, <2>5, <3>1 DEF AuditActions
      <4>2. CASE s # << >> /\ local.touched = Tail(s)
        BY <4>2, <3>2, <3>3
      <4>3. CASE local.touched = s
        BY <4>3, <3>3
      <4>4. CASE local.touched = << >>
        BY <4>4
      <4> QED  BY <4>1, <4>2, <4>3, <4>4
    <3>5. EventsOf(r) \in Nat /\ demo[r].replayed <= EventsOf(r) /\ demo[r].state = r
      BY <1>1, <2>3 DEF OwnState, Active, DemoAssumption
    <3>6. local.replayed <= EventsOf(r) /\ (local.at # "completed" => local.state = r)
      BY <2>1, <2>3, <2>5, <3>5 DEF AuditActions
    <3>7. local.at \in {"triaging", "recommending", "completed"}
      BY <2>3, <2>5 DEF AuditActions
    <3> QED  BY <1>1, <2>6, <3>4, <3>6, <3>7 DEF OwnState, Active
  <2>11. /\ Cardinality(RowsOf(r)') = Cardinality(RowsOf(r)) + 1
         /\ Reported(r)'
         /\ Unaudited(r)' \subseteq Unaudited(r)
         /\ row[2] = "recommendation_created" => row[3] \notin Unaudited(r)'
         /\ Started(r)'
         /\ EndsWith(r, row)'
    <3>1. row = AuditRow(r, row[2], row[3])
      BY <2>4 DEF TrailRows, AuditRow
    <3>2. /\ Reported(r)
          /\ \/ Started(r)
             \/ RowsOf(r) = {} /\ row = AuditRow(r, "scenario_run_started", r)
      BY <2>3, <2>4, <3>1 DEF Recorded
    <3> QED  BY <1>1, <2>4, <2>7, <3>2, OwnRow
  <2>12. Unaudited(r)' = {}
    <3>1. CASE row[2] = "recommendation_created"
      <4>1. \A c, d \in Unaudited(r) : c = d
        BY <2>3 DEF Recorded
      <4>2. Unaudited(r) # {} => row[3] \in Unaudited(r)
        BY <1>1, <2>1, <2>3 DEF Recorded
      <4> QED  BY <3>1, <4>1, <4>2, <2>11
    <3>2. CASE row[2] # "recommendation_created"
      <4>1. Unaudited(r) = {}
        BY <1>1, <2>1, <2>3, <3>2 DEF Recorded, Doing
      <4> QED  BY <4>1, <2>11
    <3> QED  BY <3>1, <3>2
  <2>13. Recorded(r)'
    <3>1. local.at \in {"triaging", "recommending", "completed"}
      BY <2>3, <2>5 DEF AuditActions
    <3>2. \A as : ~Doing(r, as)'
      BY <2>6, <3>1 DEF Doing
    <3>3. Cardinality(RowsOf(r)') = demo'[r].written
      BY <2>1, <2>3, <2>5, <2>6, <2>11 DEF Recorded
    <3>4. local.at = "recommending" =>
            local.touched # << >> /\ row = AuditRow(r, "triage_report_generated", Head(local.touched))
      BY <2>3, <2>4, <2>5 DEF AuditActions, TrailRows, AuditRow
    <3>5. local.at = "completed" => row = AuditRow(r, "scenario_run_completed", r)
      BY <2>3, <2>4, <2>5 DEF AuditActions, TrailRows, AuditRow
    <3>6. \A x : x = row => EndsWith(r, x)'
      BY <2>11
    <3> QED  BY <3>1, <3>2, <3>3, <3>4, <3>5, <3>6, <2>6, <2>11, <2>12 DEF Recorded, AuditRow
  <2> QED  BY <2>8, <2>9, <2>10, <2>13 DEF DemoInv
<1> QED  BY <1>2, <1>3 DEF InsertRow

(* A report is put together for the next case, or there is none.            *)
LEMMA TriageCaseInv ==
  ASSUME DemoAssumption, DemoInv, NEW r \in DemoRuns, TriageCase(r) PROVE DemoInv'
<1>1. /\ demo[r].at = "triaging" /\ demo[r].touched # << >>
      /\ UNCHANGED <<defaultState, stateAlerts, demoCases, recommended, trail>>
  BY DEF TriageCase
<1>2. CASE Go(r, NextCase(demo[r]))
  BY <1>1, <1>2, SkipInv
<1>3. CASE Audit(r, demo[r], "triage_report_generated", Head(demo[r].touched))
  <2>1. PICK case : case = Head(demo[r].touched)
    OBVIOUS
  <2>2. case \in DemoAlerts
    BY <1>1, <2>1, RunFacts
  <2>3. PICK action \in AuditActions : action = "triage_report_generated"
    BY DEF AuditActions
  <2>4. PICK local \in Locals :
          /\ Go(r, local) /\ local.at = "auditing" /\ local.row = AuditRow(r, action, case)
          /\ local.replayed = demo[r].replayed /\ local.state = demo[r].state
          /\ local.touched = demo[r].touched /\ local.written = demo[r].written
    BY <1>3, <2>1, <2>2, <2>3, AuditFacts
  <2>5. demo'[r] = local /\ local.row \in TrailRows
    BY <2>2, <2>4, GoFacts, RunFacts DEF AuditRow, TrailRows
  <2>6. OwnState(r)'
    BY <1>1, <2>4, <2>5, RunFacts DEF OwnState, Active
  <2>7. /\ RowsOf(r)' = RowsOf(r) /\ (Reported(r)' <=> Reported(r))
        /\ Unaudited(r)' = Unaudited(r) /\ (Started(r)' <=> Started(r))
    BY <1>1, TrailStays
  <2>8. Recorded(r) /\ Unaudited(r) = {}
    BY <1>1, RunFacts DEF Recorded, Doing
  <2>9. \A as : Doing(r, as)' <=> "triage_report_generated" \in as
    <3>1. demo'[r].at = "auditing" /\ demo'[r].row[2] = "triage_report_generated"
      BY <2>3, <2>4, <2>5 DEF AuditRow
    <3> QED  BY <3>1 DEF Doing
  <2>10. local.row[1] = r /\ local.row[3] = case
    BY <2>4 DEF AuditRow
  <2>11. Recorded(r)'
    BY <1>1, <2>1, <2>4, <2>5, <2>7, <2>8, <2>9, <2>10 DEF Recorded
  <2> QED  BY <1>1, <2>4, <2>6, <2>11, OneRunMoves
<1> QED  BY <1>2, <1>3 DEF TriageCase

(* A recommendation is in the registry before its row is in the trail.      *)
LEMMA RecommendForCaseInv ==
  ASSUME DemoAssumption, DemoInv, NEW r \in DemoRuns, RecommendForCase(r) PROVE DemoInv'
<1>1. /\ demo[r].at = "recommending" /\ demo[r].touched # << >>
      /\ UNCHANGED <<defaultState, stateAlerts, demoCases, trail>>
  BY RunFacts DEF RecommendForCase, Recorded
<1>2. CASE Go(r, NextCase(demo[r])) /\ UNCHANGED recommended
  BY <1>1, <1>2, SkipInv
<1>3. PICK case : case = Head(demo[r].touched)
  OBVIOUS
<1>4. CASE /\ recommended' = recommended \cup {case}
           /\ Audit(r, demo[r], "recommendation_created", case)
  <2>1. case \in DemoAlerts /\ case \in demoCases /\ case[1] = r
    <3>1. demo[r].touched \in Seq(DemoAlerts) /\ 1 \in DOMAIN demo[r].touched /\ case = demo[r].touched[1]
      BY <1>1, <1>3, RunFacts
    <3> QED  BY <3>1, RunFacts DEF OwnState
  <2>2. PICK action \in AuditActions : action = "recommendation_created"
    BY DEF AuditActions
  <2>3. PICK local \in Locals :
          /\ Go(r, local) /\ local.at = "auditing" /\ local.row = AuditRow(r, action, case)
          /\ local.replayed = demo[r].replayed /\ local.state = demo[r].state
          /\ local.touched = demo[r].touched /\ local.written = demo[r].written
    BY <1>4, <2>1, <2>2, AuditFacts
  <2>4. /\ demo' \in [DemoRuns -> Locals] /\ demo'[r] = local /\ local.row \in TrailRows
        /\ \A q \in DemoRuns \ {r} : demo'[q] = demo[q]
    BY <2>1, <2>3, GoFacts, RunFacts DEF AuditRow, TrailRows
  <2>5. \A q \in DemoRuns :
          /\ RowsOf(q)' = RowsOf(q) /\ (Reported(q)' <=> Reported(q))
          /\ (Started(q)' <=> Started(q)) /\ \A x : EndsWith(q, x)' <=> EndsWith(q, x)
    BY <1>1 DEF RowsOf, Reported, JustBefore, Started, StartsWith, EndsWith
  <2>6. /\ \A q \in DemoRuns \ {r} : Unaudited(q)' = Unaudited(q)
        /\ Unaudited(r)' \subseteq Unaudited(r) \cup {case}
    <3>1. ASSUME NEW q \in DemoRuns, NEW c
          PROVE  c \in Unaudited(q)' => c \in Unaudited(q) \/ (c = case /\ q = r)
      <4>1. CASE c = case
        BY <4>1, <2>1 DEF Unaudited
      <4>2. CASE c # case
        <5>1. c \in recommended' => c \in recommended
          BY <1>4, <4>2
        <5>2. trail' = trail /\ RowsOf(q)' = RowsOf(q)
          BY <1>1, <2>5
        <5> QED  BY <5>1, <5>2 DEF Unaudited, AuditRow
      <4> QED  BY <4>1, <4>2
    <3>2. ASSUME NEW q \in DemoRuns, NEW c PROVE c \in Unaudited(q) => c \in Unaudited(q)'
      BY <1>1, <1>4, <2>5, <3>2 DEF Unaudited, AuditRow
    <3> QED  BY <3>1, <3>2
  <2>7. DemoValues' /\ OwnAlerts'
    BY <1>1, <1>4, <2>1, <2>4 DEF DemoInv, DemoValues, OwnAlerts
  <2>8. ASSUME NEW q \in DemoRuns \ {r} PROVE OwnState(q)' /\ Recorded(q)'
    BY <1>1, <2>4, <2>5, <2>6, BystanderStays DEF DemoInv
  <2>9. OwnState(r)'
    BY <1>1, <2>3, <2>4, RunFacts DEF OwnState, Active
  <2>10. Recorded(r) /\ Unaudited(r) = {} /\ Unaudited(r)' \subseteq {case}
    BY <1>1, <2>6, RunFacts DEF Recorded, Doing
  <2>11. \A as : Doing(r, as)' <=> "recommendation_created" \in as
    <3>1. demo'[r].at = "auditing" /\ demo'[r].row[2] = "recommendation_created"
      BY <2>2, <2>3, <2>4 DEF AuditRow
    <3> QED  BY <3>1 DEF Doing
  <2>12. local.row[1] = r /\ local.row[3] = case
    BY <2>3 DEF AuditRow
  <2>13. Recorded(r)'
    <3>1. /\ Started(r)
          /\ EndsWith(r, AuditRow(r, "triage_report_generated", case))
          /\ Cardinality(RowsOf(r)) = demo[r].written /\ Reported(r)
      BY <1>1, <1>3, <2>10 DEF Recorded
    <3>2. /\ Started(r)' /\ EndsWith(r, AuditRow(r, "triage_report_generated", case))'
          /\ Cardinality(RowsOf(r)') = demo'[r].written /\ Reported(r)'
      BY <3>1, <2>3, <2>4, <2>5
    <3> QED  BY <1>1, <1>3, <2>3, <2>4, <2>10, <2>11, <2>12, <3>2 DEF Recorded, AuditRow
  <2> QED  BY <2>7, <2>8, <2>9, <2>13 DEF DemoInv
<1> QED  BY <1>2, <1>3, <1>4 DEF RecommendForCase

(* No step of a run breaks the invariant.                                   *)
LEMMA DemoInductive == DemoAssumption /\ DemoInv /\ [DemoNext]_demoVars => DemoInv'
<1> SUFFICES ASSUME DemoAssumption, DemoInv, [DemoNext]_demoVars PROVE DemoInv'
  OBVIOUS
<1>1. CASE UNCHANGED demoVars
  <2>1. DemoValues' /\ OwnAlerts'
    BY <1>1 DEF demoVars, DemoInv, DemoValues, OwnAlerts
  <2>2. ASSUME NEW r \in DemoRuns PROVE OwnState(r)' /\ Recorded(r)'
    <3>1. /\ UNCHANGED <<trail, recommended>> /\ demo'[r] = demo[r] /\ demoCases' = demoCases
          /\ stateAlerts'[r] = stateAlerts[r]
      BY <1>1 DEF demoVars
    <3> QED  BY <3>1, BystanderStays, TrailStays DEF DemoInv
  <2> QED  BY <2>1, <2>2 DEF DemoInv
<1>2. ASSUME NEW r \in DemoRuns, EndReplay(r) PROVE DemoInv'
  <2>1. PICK action : action = "scenario_run_started"
    OBVIOUS
  <2> QED  BY <1>2, <2>1, RunRowInv DEF EndReplay
<1>3. ASSUME NEW r \in DemoRuns, CompleteRun(r) PROVE DemoInv'
  <2>1. PICK action : action = "scenario_run_completed"
    OBVIOUS
  <2> QED  BY <1>3, <2>1, RunRowInv DEF CompleteRun
<1>4. ASSUME NEW r \in DemoRuns, DemoFails(r) PROVE DemoInv'
  <2>1. PICK answer : answer = "failed"
    OBVIOUS
  <2> QED  BY <1>4, <2>1, EndsEarly DEF DemoFails
<1> QED
  BY <1>1, <1>2, <1>3, <1>4, StartRunInv, ReplayEventInv, LandAlertInv, ReadTrailInv, InsertRowInv,
     TriageCaseInv, RecommendForCaseInv DEF DemoNext

(* Runs and stores keep their types (run_scenario).                         *)
THEOREM DemoIsTyped == DemoSpec => []DemoTypeOK
<1>1. ASSUME DemoAssumption, DemoInv PROVE DemoTypeOK
  <2>1. ASSUME NEW r \in DemoRuns
        PROVE  /\ demo[r].at \in Places /\ demo[r].replayed \in 0..EventsOf(r)
               /\ demo[r].state \in DemoRuns \cup {NoState}
               /\ ToSet(demo[r].touched) \subseteq demoCases
    BY <1>1, RunFacts DEF OwnState, DemoAssumption, ToSet
  <2>2. ASSUME NEW c \in demoCases
        PROVE  c \in {a.alert : a \in UNION {stateAlerts[r] : r \in DemoRuns}}
    <3>1. c[1] \in DemoRuns
      BY <1>1 DEF DemoInv, DemoValues, DemoAlerts
    <3>2. PICK a \in stateAlerts[c[1]] : a.alert = c
      BY <1>1 DEF DemoInv, OwnAlerts
    <3>3. a \in UNION {stateAlerts[r] : r \in DemoRuns}
      BY <3>1, <3>2
    <3> QED  BY <3>2, <3>3
  <2> QED  BY <1>1, <2>1, <2>2 DEF DemoTypeOK, Places, DemoInv, DemoValues
<1> QED  BY <1>1, DemoInitInv, DemoInductive, DemoAssumption, PTL DEF DemoSpec

(* However runs overlap, collide on the audit sequence and fail, the trail  *)
(* of each tells what it did, one recommendation at most excepted           *)
(* (run_scenario, _append_audit).                                           *)
THEOREM RunsAlwaysAudited == DemoSpec => []RunsAreAudited
<1>1. ASSUME DemoInv PROVE RunsAreAudited
  <2> SUFFICES ASSUME NEW r \in DemoRuns, Recorded(r)
               PROVE  /\ Cardinality(RowsOf(r)) = demo[r].written
                      /\ Reported(r)
                      /\ \A c, d \in Unaudited(r) : c = d
                      /\ demo[r].at = "completed" =>
                           /\ Unaudited(r) = {}
                           /\ Started(r)
                           /\ EndsWith(r, AuditRow(r, "scenario_run_completed", r))
    BY <1>1, RunFacts DEF RunsAreAudited, Reported, Started
  <2> QED  BY DEF Recorded, Doing
<1> QED  BY <1>1, DemoInitInv, DemoInductive, DemoAssumption, PTL DEF DemoSpec

(* Whatever runs reset and replay at once, the alerts listed are those of   *)
(* one run, and a case they name has been committed (list_alerts).          *)
THEOREM ListingAlwaysOneRun == DemoSpec => []ListingIsOneRun
<1>1. ASSUME DemoInv PROVE ListingIsOneRun
  <2>1. ASSUME NEW a \in Listing
        PROVE  a.by = defaultState /\ (a.linked => a.alert \in demoCases)
    <3>1. defaultState \in DemoRuns
      BY <1>1 DEF Listing, DemoInv, DemoValues
    <3>2. PICK b \in stateAlerts[defaultState] :
            a = [alert |-> b.alert, by |-> b.by, linked |-> b.linked \/ b.alert \in demoCases]
      BY <3>1 DEF Listing, DemoAssumption
    <3>3. b.by = defaultState /\ (b.linked => b.alert \in demoCases)
      BY <1>1, <3>1 DEF DemoInv, OwnAlerts
    <3> QED  BY <3>2, <3>3
  <2> QED  BY <2>1 DEF ListingIsOneRun
<1> QED  BY <1>1, DemoInitInv, DemoInductive, DemoAssumption, PTL DEF DemoSpec
=============================================================================
