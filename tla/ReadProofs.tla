----------------------------- MODULE ReadProofs -----------------------------
(***************************************************************************)
(* Proofs about what the HTTP server reads while the registries and tables *)
(* change: the pages of a node's history, for any nodes, batches, page     *)
(* sizes and table; searches, for any nodes, networks and queries; and the *)
(* kept link graph, for any links, requests, costs and search.             *)
(***************************************************************************)
EXTENDS AdvertPages, Search, RouteCache, FoldLemmas

-----------------------------------------------------------------------------
(* Pages of a history.                                                     *)

\* Rows left out of a page have a newest one (db.go, AdvertsForNode).
LEMMA GreatestExists ==
    ASSUME NEW n \in Nat, NEW T \in SUBSET (1..n), T # {}
    PROVE  \E x \in T : \A y \in T : y <= x
<1> DEFINE D == {n - t : t \in T}
<1>1. D \subseteq Nat /\ D # {}
  <2>1. ASSUME NEW t \in T PROVE n - t \in Nat
    <3>1. t \in 1..n
      OBVIOUS
    <3>2. QED BY <3>1
  <2>2. QED BY <2>1
<1>2. PICK d \in D : \A e \in D : d <= e
  BY <1>1, LeastNat
<1>3. PICK x \in T : d = n - x
  OBVIOUS
<1>4. ASSUME NEW y \in T PROVE y <= x
  <2>1. n - y \in D
    OBVIOUS
  <2>2. n - x <= n - y
    BY <2>1, <1>2, <1>3
  <2>3. QED BY <2>2
<1>5. QED BY <1>4

\* The rows newer than a row are finitely many (db.go, AdvertsForNode).
LEMMA NewerFinite ==
    ASSUME NEW n \in Nat, NEW S \in SUBSET (1..n)
    PROVE  /\ \A T \in SUBSET S : IsFiniteSet(T) /\ Cardinality(T) \in Nat
           /\ \A T \in SUBSET S : \A U \in SUBSET T : Cardinality(U) <= Cardinality(T)
<1>1. IsFiniteSet(1..n)
  BY FS_Interval
<1>2. IsFiniteSet(S)
  BY <1>1, FS_Subset
<1>3. ASSUME NEW T \in SUBSET S
      PROVE  /\ IsFiniteSet(T) /\ Cardinality(T) \in Nat
             /\ \A U \in SUBSET T : Cardinality(U) <= Cardinality(T)
  <2>1. IsFiniteSet(T)
    BY <1>2, FS_Subset
  <2>2. Cardinality(T) \in Nat
    BY <2>1, FS_CardinalityType
  <2>3. ASSUME NEW U \in SUBSET T PROVE Cardinality(U) <= Cardinality(T)
    BY <2>1, FS_Subset
  <2>4. QED BY <2>1, <2>2, <2>3
<1>4. QED BY <1>3

\* A page leaves no row out that is newer than one it shows: ORDER BY id DESC
\* LIMIT n (db.go, AdvertsForNode).
LEMMA NewestIsUpper ==
    ASSUME NEW n \in Nat, NEW S \in SUBSET (1..n), NEW k \in Nat,
           NEW i \in Newest(S, k), NEW j \in S, j > i
    PROVE  j \in Newest(S, k)
<1> DEFINE Newer(x) == {y \in S : y > x}
<1>1. i \in S /\ Cardinality(Newer(i)) < k
  BY DEF Newest
<1>2. ASSUME NEW y \in Newer(j) PROVE y \in Newer(i)
  <2>1. i \in 1..n /\ j \in 1..n /\ y \in 1..n
    BY <1>1
  <2>2. QED BY <2>1
<1>3. Newer(j) \in SUBSET Newer(i) /\ Newer(i) \in SUBSET S /\ Newer(j) \in SUBSET S
  BY <1>2
<1> HIDE DEF Newer
<1>4. /\ Cardinality(Newer(j)) <= Cardinality(Newer(i))
      /\ Cardinality(Newer(j)) \in Nat /\ Cardinality(Newer(i)) \in Nat
  BY <1>3, NewerFinite
<1>5. Cardinality(Newer(j)) < k
  BY <1>1, <1>4
<1>6. QED BY <1>5 DEF Newest, Newer

\* A page that is not full shows all the rows there are: what handleNodeAdverts
\* concludes from the length of the page (server.go).
LEMMA ShortPageIsAll ==
    ASSUME NEW n \in Nat, NEW S \in SUBSET (1..n), NEW k \in Nat \ {0},
           Cardinality(Newest(S, k)) # k
    PROVE  Newest(S, k) = S
<1> DEFINE N == Newest(S, k)
           Newer(x) == {y \in S : y > x}
<1> SUFFICES ASSUME N # S PROVE FALSE
  OBVIOUS
<1>1. N \subseteq S
  BY DEF Newest
<1>2. PICK i \in S \ N : \A y \in S \ N : y <= i
  <2>1. S \ N # {} /\ S \ N \in SUBSET (1..n)
    BY <1>1
  <2>2. QED BY <2>1, GreatestExists
<1>3. N = Newer(i)
  <2>1. ASSUME NEW y \in N PROVE y > i
    <3>1. y # i /\ y \in 1..n /\ i \in 1..n
      BY <1>1
    <3>2. ~(i > y)
      BY <1>2, NewestIsUpper
    <3>3. QED BY <3>1, <3>2
  <2>2. ASSUME NEW y \in S, y > i PROVE y \in N
    <3>1. ~(y <= i)
      BY <2>2
    <3>2. QED BY <3>1, <1>2
  <2>3. QED BY <1>1, <2>1, <2>2
<1>4. Cardinality(N) >= k
  <2>1. ~(Cardinality(Newer(i)) < k)
    BY <1>2 DEF Newest
  <2>2. Cardinality(Newer(i)) \in Nat
    BY NewerFinite
  <2>3. QED BY <2>1, <2>2, <1>3
<1>5. N # {}
  BY <1>4, FS_EmptySet
<1>6. PICK m \in N : \A y \in N : m <= y
  <2>1. ASSUME NEW y \in N PROVE y \in Nat
    <3>1. y \in 1..n
      BY <1>1
    <3>2. QED BY <3>1
  <2>2. QED BY <2>1, <1>5, LeastNat
<1>7. N = Newer(m) \cup {m} /\ m \notin Newer(m)
  <2>1. m \in S /\ m \in 1..n
    BY <1>1
  <2>2. ASSUME NEW y \in N, y # m PROVE y \in Newer(m)
    <3>1. m <= y /\ y \in 1..n /\ y \in S
      BY <1>1, <1>6
    <3>2. QED BY <3>1, <2>1, <2>2
  <2>3. ASSUME NEW y \in Newer(m) PROVE y \in N
    BY NewestIsUpper
  <2>4. m \notin Newer(m)
    BY <2>1
  <2> HIDE DEF N, Newer
  <2>5. QED BY <2>2, <2>3, <2>4
<1>8. Cardinality(N) <= k
  <2>1. Cardinality(Newer(m)) < k
    BY DEF Newest
  <2>2. IsFiniteSet(Newer(m)) /\ Cardinality(Newer(m)) \in Nat
    BY NewerFinite
  <2>3. Cardinality(N) = Cardinality(Newer(m)) + 1
    BY <1>7, <2>2, FS_AddElement
  <2>4. QED BY <2>1, <2>2, <2>3
<1>9. Cardinality(N) \in Nat
  BY <1>1, NewerFinite
<1>10. QED BY <1>4, <1>8, <1>9

-----------------------------------------------------------------------------
\* A client that has not reached the end has a cursor, or has read nothing
\* (server.go, handleNodeAdverts).
CursorInv ==
    /\ hasMore /\ before = 0 => shown = {} /\ horizon = 0
    /\ before > 0 => before <= horizon

\* The inductive invariant.
PInv == PagesTypeOK /\ CursorInv /\ ShownIsNewest

\* Appending leaves what is shown the newest part up to the horizon: new ids are
\* larger (db.go, AppendAdverts).
LEMMA AppendStep == PInv /\ AppendBatch => PInv'
<1> SUFFICES ASSUME PInv, AppendBatch PROVE PInv'
  OBVIOUS
<1>1. PICK b \in Batch : history' = history \o b
  BY DEF AppendBatch
<1>2. b \in Seq(PubKey) /\ history \in Seq(PubKey)
  BY BatchAssumption DEF PInv, PagesTypeOK
<1>3. /\ history' \in Seq(PubKey)
      /\ Len(history') = Len(history) + Len(b) /\ Len(b) \in Nat /\ Len(history) \in Nat
      /\ \A i \in 1..Len(history) : history'[i] = history[i]
  BY <1>1, <1>2
<1>4. Ids = 1..Len(history) /\ Ids' = 1..Len(history')
  BY <1>2, <1>3 DEF Ids
<1>5. Ids \subseteq Ids'
  BY <1>3, <1>4
<1>6. UNCHANGED <<asking, page, before, hasMore, shown, horizon>>
  BY DEF AppendBatch
<1>7. PagesTypeOK'
  BY <1>3, <1>5, <1>6 DEF PInv, PagesTypeOK
<1>8. CursorInv'
  BY <1>6 DEF PInv, CursorInv
<1>9. ShownIsNewest'
  <2>1. \A i \in Ids' : i <= horizon => i \in Ids
    BY <1>3, <1>4 DEF PInv, PagesTypeOK
  <2>2. \A i \in Ids : history'[i] = history[i]
    BY <1>3, <1>4
  <2>3. {i \in RowsOf(asking)' : i <= horizon /\ (hasMore => i >= before)}
          = {i \in RowsOf(asking) : i <= horizon /\ (hasMore => i >= before)}
    BY <2>1, <2>2, <1>5, <1>6 DEF RowsOf
  <2>4. QED BY <2>3, <1>6 DEF PInv, ShownIsNewest, RowsOf
<1>10. QED BY <1>7, <1>8, <1>9 DEF PInv

\* The next page holds the newest rows not shown yet, and none that was shown
\* (server.go, handleNodeAdverts).
LEMMA PageStep == PInv /\ handleNodeAdverts => PInv' /\ page' \cap shown = {}
<1> SUFFICES ASSUME PInv, handleNodeAdverts PROVE PInv' /\ page' \cap shown = {}
  OBVIOUS
<1>1. PICK k \in Limit :
        LET rows == AdvertsForNode(asking, k, before) IN
        /\ page' = rows
        /\ hasMore' = (Cardinality(rows) = k)
        /\ before' = IF Cardinality(rows) = k THEN LastScanned(rows) ELSE before
        /\ shown' = shown \cup rows
  BY DEF handleNodeAdverts
<1> DEFINE S == {i \in Ids : history[i] = asking /\ (before > 0 => i < before)}
           rows == Newest(S, k)
           n == Len(history)
<1>2. /\ hasMore /\ k \in Nat \ {0} /\ UNCHANGED <<history, asking>>
      /\ horizon' = IF before = 0 THEN n ELSE horizon
  BY LimitAssumption DEF handleNodeAdverts
<1>3. /\ page' = rows /\ hasMore' = (Cardinality(rows) = k)
      /\ before' = IF Cardinality(rows) = k THEN LastScanned(rows) ELSE before
      /\ shown' = shown \cup rows
  BY <1>1 DEF AdvertsForNode
<1>4. n \in Nat /\ Ids = 1..n /\ before \in 0..n /\ horizon \in 0..n
  BY DEF PInv, PagesTypeOK, Ids
<1>5. S \subseteq 1..n /\ rows \subseteq S
  BY <1>4 DEF Newest
<1>6. Cardinality(rows) # k => rows = S
  BY <1>2, <1>4, <1>5, ShortPageIsAll
<1>7. \A i \in rows : \A j \in S : j > i => j \in rows
  BY <1>2, <1>4, <1>5, NewestIsUpper
<1>8. Cardinality(rows) = k => before' \in rows /\ \A j \in rows : before' <= j
  <2> SUFFICES ASSUME Cardinality(rows) = k
               PROVE  before' \in rows /\ \A j \in rows : before' <= j
    OBVIOUS
  <2>1. rows # {}
    BY <1>2, FS_EmptySet
  <2>2. \A i \in rows : i \in Nat
    BY <1>5
  <2>3. \E i \in rows : \A j \in rows : i <= j
    BY <2>1, <2>2, LeastNat
  <2>4. before' = LastScanned(rows)
    BY <1>3
  <2> HIDE DEF rows
  <2>5. QED BY <2>3, <2>4 DEF LastScanned
<1>9. shown = IF before = 0 THEN {}
              ELSE {i \in Ids : history[i] = asking /\ i <= horizon /\ i >= before}
  BY <1>2 DEF PInv, ShownIsNewest, CursorInv, RowsOf
<1>10. before > 0 => before <= horizon
  BY DEF PInv, CursorInv
<1>11. Cardinality(rows) = k => before' \in 1..n
  BY <1>5, <1>8
<1> HIDE DEF rows, n, S
<1>12. page' \cap shown = {}
  BY <1>3, <1>4, <1>5, <1>9 DEF S
<1>13. PagesTypeOK'
  <2>1. Ids' = Ids
    BY <1>2 DEF Ids
  <2>2. before' \in {0} \cup Ids
    <3>1. Cardinality(rows) = k => before' \in Ids
      BY <1>4, <1>11
    <3>2. Cardinality(rows) # k => before' = before
      BY <1>3
    <3>3. QED BY <3>1, <3>2 DEF PInv, PagesTypeOK
  <2>3. horizon' \in {0} \cup Ids
    BY <1>2, <1>4
  <2>4. page' \subseteq Ids /\ shown' \subseteq Ids /\ hasMore' \in BOOLEAN
    <3>1. shown \subseteq Ids
      BY DEF PInv, PagesTypeOK
    <3>2. rows \subseteq Ids
      BY <1>4, <1>5
    <3>3. hasMore' \in BOOLEAN
      BY <1>3
    <3>4. QED BY <3>1, <3>2, <3>3, <1>3
  <2>5. QED BY <1>2, <2>1, <2>2, <2>3, <2>4 DEF PInv, PagesTypeOK
<1>14. before' > 0 => before' <= horizon'
  <2>1. CASE Cardinality(rows) = k
    <3>1. before' \in S
      BY <2>1, <1>5, <1>8
    <3>2. before' \in 1..n
      BY <3>1, <1>5
    <3>3. QED BY <3>1, <3>2, <1>2, <1>4, <1>10 DEF S
  <2>2. CASE Cardinality(rows) # k
    BY <2>2, <1>2, <1>3, <1>4, <1>10
  <2>3. QED BY <2>1, <2>2
<1>15. CursorInv'
  <2>1. hasMore' => before' > 0
    <3>1. hasMore' => Cardinality(rows) = k
      BY <1>3
    <3>2. ASSUME NEW m \in 1..n PROVE m > 0
      BY <1>4
    <3>3. QED BY <3>1, <3>2, <1>11
  <2>2. QED BY <2>1, <1>14 DEF CursorInv
<1>16. ShownIsNewest'
  <2>1. ASSUME NEW i \in Ids
        PROVE  i \in shown' <=> /\ history[i] = asking /\ i <= horizon'
                                /\ hasMore' => i >= before'
    <3>1. i \in 1..n
      BY <1>4
    <3>2. i \in S <=> history[i] = asking /\ (before > 0 => i < before)
      BY DEF S
    <3>3. i \in shown <=> before # 0 /\ history[i] = asking /\ i <= horizon /\ i >= before
      BY <1>9
    <3>4. i \in rows <=> i \in S /\ (hasMore' => i >= before')
      <4>1. CASE Cardinality(rows) = k
        <5>1. before' \in rows /\ before' \in 1..n
          BY <4>1, <1>5, <1>8
        <5>2. i \in rows => i >= before'
          BY <4>1, <1>8
        <5>3. i \in S /\ i >= before' => i \in rows
          BY <3>1, <5>1, <1>7
        <5>4. hasMore'
          BY <4>1, <1>3
        <5>5. QED BY <5>2, <5>3, <5>4, <1>5
      <4>2. CASE Cardinality(rows) # k
        BY <4>2, <1>3, <1>6
      <4>3. QED BY <4>1, <4>2
    <3>5. i \in shown => (hasMore' => i >= before')
      <4>1. hasMore' => before' \in S
        BY <1>3, <1>5, <1>8
      <4>2. before' \in S /\ before > 0 => before' < before /\ before' \in 1..n
        BY <1>5 DEF S
      <4>3. QED BY <3>1, <3>3, <4>1, <4>2, <1>4
    <3>6. i \in shown' <=> i \in shown \/ i \in rows
      BY <1>3
    <3>7. QED BY <3>1, <3>2, <3>3, <3>4, <3>5, <3>6, <1>2, <1>4, <1>10
  <2>2. shown' \subseteq Ids /\ Ids' = Ids
    BY <1>13, <1>2 DEF PagesTypeOK, Ids
  <2>3. QED BY <2>1, <2>2, <1>2 DEF ShownIsNewest, RowsOf
<1>17. QED BY <1>12, <1>13, <1>15, <1>16 DEF PInv

\* The inductive invariant of paged reading (server.go, handleNodeAdverts).
THEOREM PagesInvariance == PagesSpec => []PInv
<1>1. PagesInit => PInv
  BY DEF PagesInit, PInv, PagesTypeOK, CursorInv, ShownIsNewest, RowsOf, Ids
<1>2. PInv /\ [PagesNext]_pagesVars => PInv'
  <2>1. PInv /\ UNCHANGED pagesVars => PInv'
    BY DEF PInv, PagesTypeOK, CursorInv, ShownIsNewest, RowsOf, Ids, pagesVars
  <2>2. QED BY <2>1, AppendStep, PageStep DEF PagesNext
<1>3. QED BY <1>1, <1>2, PTL DEF PagesSpec

\* Following the cursors reads the history as it was at the first page, without
\* a gap or a repetition (db.go:861-866).
THEOREM PagesReadHistory == PagesSpec => PagesAreHistory
<1> DEFINE A == ShownIsNewest' /\ (handleNodeAdverts => page' \cap shown = {})
<1>1. PInv => ShownIsNewest
  BY DEF PInv
<1>2. PInv /\ PInv' /\ [PagesNext]_pagesVars => [A]_pagesVars
  BY PageStep DEF PInv
<1>3. PagesSpec => ShownIsNewest /\ [][A]_pagesVars
  BY PagesInvariance, <1>1, <1>2, PTL DEF PagesSpec
<1>4. QED BY <1>3 DEF PagesAreHistory

-----------------------------------------------------------------------------
(* Searches.                                                               *)

\* A set of hits with one hit of each key (server.go, mergedSearch: seen).
Hits(S) ==
    /\ \A h \in S : h.key \in Nat /\ h.last \in Nat
    /\ \A g, h \in S : g.key = h.key => g = h

\* The order of the results: of two hits one is before the other, and no hit is
\* before one that is before it (server.go:1194, the comparison of the sort).
LEMMA Ordered ==
    ASSUME NEW S, Hits(S)
    PROVE  /\ \A g, h \in S : g # h => Before(g, h) \/ Before(h, g)
           /\ \A g, h \in S : ~(Before(g, h) /\ Before(h, g))
           /\ \A f, g, h \in S : Before(f, g) /\ Before(g, h) => Before(f, h)
<1>1. \A h \in S : h.key \in Nat /\ h.last \in Nat
  BY DEF Hits
<1>2. \A g, h \in S : g # h => Before(g, h) \/ Before(h, g)
  BY <1>1 DEF Before, Hits
<1>3. \A g, h \in S : ~(Before(g, h) /\ Before(h, g))
  BY <1>1 DEF Before
<1>4. \A f, g, h \in S : Before(f, g) /\ Before(g, h) => Before(f, h)
  BY <1>1 DEF Before
<1>5. QED BY <1>2, <1>3, <1>4

\* The sort lists every hit once, and each before those it is before
\* (server.go:1177, sort.Slice over the copies).
LEMMA RankedSorts ==
    ASSUME NEW S, IsFiniteSet(S), Hits(S)
    PROVE  /\ Cardinality(S) \in Nat
           /\ Ranked(S) \in [1..Cardinality(S) -> S]
           /\ \A i, j \in 1..Cardinality(S) : i < j => Before(Ranked(S)[i], Ranked(S)[j])
           /\ \A h \in S : \E i \in 1..Cardinality(S) : Ranked(S)[i] = h
<1> DEFINE N == Cardinality(S)
           Ahead(h) == {g \in S : Before(g, h)}
           place == [h \in S |-> Cardinality(Ahead(h)) + 1]
           R == Ranked(S)
<1>1. N \in Nat
  BY FS_CardinalityType
<1>2. ASSUME NEW T \in SUBSET S PROVE IsFiniteSet(T) /\ Cardinality(T) \in Nat
  BY FS_Subset, FS_CardinalityType
<1>3. ASSUME NEW T \in SUBSET S, NEW U \in SUBSET T, NEW h \in T, h \notin U
      PROVE  Cardinality(U) < Cardinality(T)
  <2>1. IsFiniteSet(T) /\ Cardinality(T) \in Nat /\ Cardinality(U) \in Nat
    BY <1>2
  <2>2. Cardinality(U) <= Cardinality(T) /\ (Cardinality(T) = Cardinality(U) => T = U)
    BY <2>1, FS_Subset
  <2>3. T # U
    BY <1>3
  <2>4. QED BY <2>1, <2>2, <2>3
<1>4. place \in [S -> 1..N]
  <2>1. ASSUME NEW h \in S PROVE Cardinality(Ahead(h)) + 1 \in 1..N
    <3>1. h \notin Ahead(h) /\ Ahead(h) \in SUBSET S
      BY Ordered
    <3>2. Cardinality(Ahead(h)) < N
      BY <3>1, <1>3
    <3>3. Cardinality(Ahead(h)) \in Nat
      BY <3>1, <1>2
    <3> HIDE DEF Ahead, N
    <3>4. QED BY <3>2, <3>3, <1>1
  <2>2. QED BY <2>1
<1>5. ASSUME NEW g \in S, NEW h \in S, Before(g, h) PROVE place[g] < place[h]
  <2>1. Ahead(g) \in SUBSET Ahead(h) /\ Ahead(h) \in SUBSET S
    BY <1>5, Ordered
  <2>2. g \in Ahead(h) /\ g \notin Ahead(g)
    BY <1>5, Ordered
  <2>3. Cardinality(Ahead(g)) < Cardinality(Ahead(h))
    BY <2>1, <2>2, <1>3
  <2>4. Cardinality(Ahead(g)) \in Nat /\ Cardinality(Ahead(h)) \in Nat
    BY <2>1, <1>2
  <2>5. place[g] = Cardinality(Ahead(g)) + 1 /\ place[h] = Cardinality(Ahead(h)) + 1
    OBVIOUS
  <2> HIDE DEF Ahead, place
  <2>6. QED BY <2>3, <2>4, <2>5
<1>6. \A i \in 1..N : R[i] = CHOOSE h \in S : place[h] = i
  BY DEF Ranked
<1>7. R \in [1..N -> {R[i] : i \in 1..N}]
  BY DEF Ranked
<1> HIDE DEF place, R, N
<1>8. \A g, h \in S : place[g] = place[h] => g = h
  <2>1. SUFFICES ASSUME NEW g \in S, NEW h \in S, place[g] = place[h], g # h
                 PROVE  FALSE
    OBVIOUS
  <2>2. place[g] < place[h] \/ place[h] < place[g]
    BY <2>1, <1>5, Ordered
  <2>3. place[g] \in Nat /\ place[h] \in Nat
    BY <1>1, <1>4
  <2>4. QED BY <2>1, <2>2, <2>3
<1>9. ASSUME NEW i \in 1..N PROVE \E h \in S : place[h] = i
  <2>1. place \in Injection(S, 1..N)
    BY <1>4, <1>8 DEF Injection, IsInjective
  <2>2. IsFiniteSet(1..N) /\ Cardinality(1..N) = N
    BY <1>1, FS_Interval
  <2>3. place \in Surjection(S, 1..N)
    BY <2>1, <2>2, FS_Injection DEF N
  <2>4. QED BY <2>3 DEF Surjection
<1>10. \A i \in 1..N : R[i] \in S /\ place[R[i]] = i
  BY <1>6, <1>9
<1>11. R \in [1..N -> S]
  BY <1>7, <1>10
<1>12. ASSUME NEW i \in 1..N, NEW j \in 1..N, i < j PROVE Before(R[i], R[j])
  <2>1. R[i] \in S /\ R[j] \in S /\ place[R[i]] = i /\ place[R[j]] = j
    BY <1>10
  <2>2. R[i] # R[j] /\ ~(place[R[j]] < place[R[i]])
    BY <2>1, <1>1, <1>12
  <2>3. QED BY <2>1, <2>2, <1>5, Ordered
<1>13. ASSUME NEW h \in S PROVE \E i \in 1..N : R[i] = h
  <2>1. place[h] \in 1..N
    BY <1>4
  <2>2. R[place[h]] \in S /\ place[R[place[h]]] = place[h]
    BY <2>1, <1>10
  <2>3. QED BY <2>1, <2>2, <1>8
<1>14. QED BY <1>1, <1>11, <1>12, <1>13 DEF R, N

\* A search begins with nothing read and nothing listed.
LEMMA SearchStarts == SearchInit => SearchInv
<1> SUFFICES ASSUME SearchInit PROVE SearchInv
  OBVIOUS
<1>1. /\ \A n \in SearchNet : {n} \in SUBSET SearchNet
      /\ 0 \in Nat /\ 1 \in Nat /\ 2 \in Nat
  OBVIOUS
<1>2. nodes \in [SearchKey -> LiveRecord \cup {NoRecord}]
  <2>1. [located : BOOLEAN, nets : {{n} : n \in SearchNet}, last : {1}] \subseteq LiveRecord
    BY <1>1 DEF LiveRecord
  <2>2. QED BY <2>1 DEF SearchInit
<1>3. mapped \in [SearchKey -> MapRecord \cup {NoRecord}]
  BY <1>1 DEF SearchInit, MapRecord
<1>4. clock \in 1..(MaxSightings + 1)
  BY SearchBoundsAssumption DEF SearchInit
<1>5. QED
  BY <1>2, <1>3, <1>4 DEF SearchInit, SearchInv, SearchTypeOK, NothingRead

\* Every step keeps the types, and a node that matched stays in the registry.
LEMMA SearchStep == SearchInv /\ [SearchNext]_searchVars => SearchInv'
<1> SUFFICES ASSUME SearchInv, [SearchNext]_searchVars PROVE SearchInv'
  OBVIOUS
<1> USE DEF SearchInv, SearchTypeOK
<1>1. CASE Match
  BY <1>1 DEF Match
<1>2. CASE AllRead
  BY <1>2 DEF AllRead
<1>3. CASE mergedSearch
  <2>1. Listed' = Listed
    BY <1>3 DEF mergedSearch, Listed, LiveHits, MapHits, matchesImported,
                expandNetworkMetadata, MetaNetworks, AsksMeta
  <2>2. QED BY <1>3, <2>1 DEF mergedSearch
<1>4. ASSUME NEW k \in SearchKey, ReadHit(k) PROVE SearchInv'
  <2>1. nodes[k] \in LiveRecord
    BY <1>4 DEF ReadHit
  <2>2. nodes[k].last \in Nat
    BY <2>1 DEF LiveRecord
  <2>3. QED BY <1>4, <2>2 DEF ReadHit
<1>5. ASSUME NEW k \in SearchKey, Unlist(k) PROVE SearchInv'
  BY <1>5 DEF Unlist
<1>6. ASSUME NEW k \in SearchKey, NEW n \in SearchNet, NEW b \in BOOLEAN, Sighting(k, n, b)
      PROVE  SearchInv'
  <2> DEFINE old == nodes[k]
             new == [located |-> b \/ (old # NoRecord /\ old.located),
                     nets    |-> {n} \cup (IF old = NoRecord THEN {} ELSE old.nets),
                     last    |-> clock + 1]
  <2>1. old \in LiveRecord \/ old = NoRecord
    OBVIOUS
  <2>2. clock + 1 \in Nat /\ clock + 1 \in 1..(MaxSightings + 1)
    BY <1>6, SearchBoundsAssumption DEF Sighting
  <2>3. new \in LiveRecord
    <3>1. new.located \in BOOLEAN
      BY <2>1 DEF LiveRecord
    <3>2. new.nets \in SUBSET SearchNet
      BY <2>1 DEF LiveRecord
    <3>3. QED BY <3>1, <3>2, <2>2 DEF LiveRecord
  <2>4. nodes' = [nodes EXCEPT ![k] = new]
    BY <1>6 DEF Sighting
  <2>5. new # NoRecord
    BY <2>3, NoRecordAssumption
  <2> HIDE DEF new, old
  <2>6. /\ nodes' \in [SearchKey -> LiveRecord \cup {NoRecord}]
        /\ \A j \in hits : nodes'[j] # NoRecord
    BY <2>3, <2>4, <2>5
  <2>7. QED BY <1>6, <2>2, <2>6 DEF Sighting
<1>7. CASE UNCHANGED searchVars
  <2>1. Listed' = Listed
    BY <1>7 DEF searchVars, Listed, LiveHits, MapHits, matchesImported,
                expandNetworkMetadata, MetaNetworks, AsksMeta
  <2>2. QED BY <1>7, <2>1 DEF searchVars
<1>8. QED BY <1>1, <1>2, <1>3, <1>4, <1>5, <1>6, <1>7 DEF SearchNext

\* The hits are finitely many, one of each key: the live ones by their keys, the
\* directory's among the keys that are not live (server.go:1139-1175).
LEMMA MergedHits ==
    ASSUME SearchTypeOK
    PROVE  IsFiniteSet(LiveHits \cup MapHits) /\ Hits(LiveHits \cup MapHits)
<1> DEFINE S == LiveHits \cup MapHits
           hit(k) == IF copied[k] # NoRecord
                     THEN [key |-> k, last |-> copied[k], source |-> "live"]
                     ELSE [key |-> k, last |-> mapped[k].last, source |-> "map"]
           keyOf == [h \in S |-> h.key]
<1>1. ASSUME NEW h \in S PROVE h.key \in SearchKey /\ h = hit(h.key) /\ h.last \in Nat
  <2>1. CASE h \in LiveHits
    <3>1. PICK k \in SearchKey : /\ copied[k] # NoRecord
                                  /\ h = [key |-> k, last |-> copied[k], source |-> "live"]
      BY <2>1 DEF LiveHits
    <3>2. copied[k] \in Nat
      BY <3>1 DEF SearchTypeOK
    <3>3. QED BY <3>1, <3>2
  <2>2. CASE h \in MapHits
    <3>1. PICK k \in SearchKey : /\ copied[k] = NoRecord /\ mapped[k] # NoRecord
                                  /\ h = [key |-> k, last |-> mapped[k].last, source |-> "map"]
      BY <2>2 DEF MapHits
    <3>2. mapped[k].last \in Nat
      BY <3>1 DEF SearchTypeOK, MapRecord
    <3>3. QED BY <3>1, <3>2
  <2>3. QED BY <2>1, <2>2
<1>2. \A g, h \in S : g.key = h.key => g = h
  <2>1. SUFFICES ASSUME NEW g \in S, NEW h \in S, g.key = h.key PROVE g = h
    OBVIOUS
  <2>2. g = hit(g.key) /\ h = hit(h.key)
    BY <1>1
  <2> HIDE DEF hit, S
  <2>3. QED BY <2>1, <2>2
<1>3. Hits(S)
  <2>1. \A h \in S : h.key \in Nat /\ h.last \in Nat
    BY <1>1, SearchKeyAssumption
  <2> HIDE DEF S
  <2>2. QED BY <2>1, <1>2 DEF Hits
<1>4. IsFiniteSet(S)
  <2>1. keyOf \in Injection(S, SearchKey)
    <3>1. keyOf \in [S -> SearchKey]
      BY <1>1
    <3> HIDE DEF S
    <3>2. QED BY <3>1, <1>2 DEF Injection, IsInjective
  <2> HIDE DEF S, keyOf
  <2>2. QED BY <2>1, SearchKeyAssumption, FS_Injection
<1>5. QED BY <1>3, <1>4

\* A list of the best hits of a ranking, as many as the limit allows, is ranked
\* itself, and what it leaves out ranks behind all of it.
LEMMA BestAreRanked ==
    ASSUME SearchTypeOK, results = Listed
    PROVE  LET all == LiveHits \cup MapHits
           IN  /\ \A i, j \in 1..Len(results) : i < j =>
                      /\ Before(results[i], results[j])
                      /\ results[i].key # results[j].key
               /\ \A h \in all :
                      (\A i \in 1..Len(results) : results[i] # h) =>
                          /\ Len(results) = limit
                          /\ \A i \in 1..Len(results) : Before(results[i], h)
<1> DEFINE all == LiveHits \cup MapHits
           N == Cardinality(all)
           R == Ranked(all)
           m == Least(limit, N)
<1>1. IsFiniteSet(all) /\ Hits(all)
  BY MergedHits
<1>2. limit \in Nat
  BY SearchLimitAssumption DEF SearchTypeOK
<1> HIDE DEF all
<1>3. /\ N \in Nat
      /\ R \in [1..N -> all]
      /\ \A i, j \in 1..N : i < j => Before(R[i], R[j])
      /\ \A h \in all : \E i \in 1..N : R[i] = h
  BY <1>1, RankedSorts
<1>4. results = SubSeq(R, 1, Least(limit, Len(R)))
  BY DEF Listed, all
<1> HIDE DEF N, R
<1>5. Len(R) = N
  BY <1>3
<1>6. m \in Nat /\ m <= N /\ m <= limit /\ (m = limit \/ m = N)
  BY <1>2, <1>3 DEF Least
<1>7. results = SubSeq(R, 1, m)
  BY <1>4, <1>5
<1> HIDE DEF m
<1>8. Len(results) = m /\ \A i \in 1..m : results[i] = R[i]
  BY <1>3, <1>6, <1>7
<1>9. ASSUME NEW i \in 1..Len(results), NEW j \in 1..Len(results), i < j
      PROVE  Before(results[i], results[j]) /\ results[i].key # results[j].key
  <2>1. i \in 1..N /\ j \in 1..N /\ results[i] = R[i] /\ results[j] = R[j]
    BY <1>3, <1>6, <1>8
  <2>2. Before(R[i], R[j]) /\ R[i] \in all /\ R[j] \in all
    BY <2>1, <1>3, <1>9
  <2>3. R[i] # R[j]
    BY <2>2, <1>1, Ordered
  <2>4. QED BY <2>1, <2>2, <2>3, <1>1 DEF Hits
<1>10. ASSUME NEW h \in all, \A i \in 1..Len(results) : results[i] # h
       PROVE  Len(results) = limit /\ \A i \in 1..Len(results) : Before(results[i], h)
  <2>1. PICK p \in 1..N : R[p] = h
    BY <1>3
  <2>2. ~(p <= m)
    <3>1. SUFFICES ASSUME p <= m PROVE FALSE
      OBVIOUS
    <3>2. p \in 1..m
      BY <3>1, <1>3, <1>6
    <3>3. QED BY <3>2, <2>1, <1>8, <1>10
  <2>3. m = limit /\ m < p
    BY <2>2, <1>3, <1>6
  <2>4. ASSUME NEW i \in 1..m PROVE Before(results[i], h)
    <3>1. i \in 1..N /\ i < p
      BY <2>3, <1>3, <1>6
    <3>2. QED BY <3>1, <2>1, <1>3, <1>8
  <2>5. QED BY <2>3, <2>4, <1>8
<1>11. QED BY <1>9, <1>10 DEF all

\* The inductive invariant of a search: types, the nodes that matched are still
\* there when they are read, and the list of what was read (nodes.go, Search).
THEOREM SearchInvariance == SearchSpec => []SearchInv
BY SearchStarts, SearchStep, PTL DEF SearchSpec

\* Although adverts change records between the match, the reads and the sort,
\* results are ordered by the times they show, name a key once, and what the limit
\* cut off ranks behind them (nodes.go:530-582, server.go:1132-1213).
THEOREM ResultsAreRanked == SearchSpec => []SearchIsRanked
<1>1. SearchInv => SearchIsRanked
  BY BestAreRanked DEF SearchInv, SearchIsRanked
<1>2. QED BY <1>1, SearchInvariance, PTL

-----------------------------------------------------------------------------
(* The kept link graph.                                                    *)

\* The edges of a node after another one was added (route.go:108, append).
LEMMA OneMoreEdge ==
    ASSUME NEW s \in Seq(Edge), NEW e \in Edge, NEW t, t = Append(s, e)
    PROVE  /\ t \in Seq(Edge)
           /\ Range(t) = Range(s) \cup {e}
<1>1. /\ Append(s, e) \in Seq(Edge)
      /\ Len(s) \in Nat
      /\ DOMAIN s = 1..Len(s)
      /\ DOMAIN Append(s, e) = 1..(Len(s) + 1)
      /\ \A i \in 1..Len(s) : Append(s, e)[i] = s[i]
      /\ Append(s, e)[Len(s) + 1] = e
  OBVIOUS
<1>2. \A i \in DOMAIN s : i \in DOMAIN t /\ t[i] = s[i]
  BY <1>1
<1>3. Len(s) + 1 \in DOMAIN t /\ t[Len(s) + 1] = e
  BY <1>1
<1>4. \A i \in DOMAIN t : i \in DOMAIN s \/ i = Len(s) + 1
  BY <1>1
<1>5. {t[i] : i \in DOMAIN t} = {s[i] : i \in DOMAIN s} \cup {e}
  BY <1>2, <1>3, <1>4
<1>6. QED BY <1>1, <1>5 DEF Range

\* A link's two edges are in the graph once it was come to, and the edges of no
\* other link are touched (route.go, buildAdjacency).
LEMMA LinkAdded ==
    ASSUME NEW g \in [RNode -> Seq(Edge)], NEW l \in RLink, NEW stat \in Stat,
           NEW at \in RouteTime, EdgesOf(g, l) = {}
    PROVE  /\ WithLink(g, l, stat, at) \in [RNode -> Seq(Edge)]
           /\ Held(WithLink(g, l, stat, at), l) = stat
           /\ \A m \in RLink : m # l =>
                  EdgesOf(WithLink(g, l, stat, at), m) = EdgesOf(g, m)
<1> DEFINE cost == EdgeCost(stat.activity, Age(stat, at))
           there == [from |-> l[1], to |-> l[2], stat |-> stat, cost |-> cost]
           back  == [from |-> l[2], to |-> l[1], stat |-> stat, cost |-> cost]
           w == WithLink(g, l, stat, at)
<1>1. l[1] \in RNode /\ l[2] \in RNode /\ l[1] # l[2]
  BY RLinkAssumption
<1>2. cost \in Nat
  <2>1. stat.activity \in 1..MaxActivity /\ stat.lastSeen \in RouteTime
    BY DEF Stat
  <2>2. Age(stat, at) \in RouteTime
    BY <2>1, RouteBoundsAssumption DEF Age, RouteTime
  <2>3. QED BY <2>1, <2>2, EdgeCostAssumption
<1> HIDE DEF cost
<1>3. there \in Edge /\ back \in Edge /\ there.to = l[2] /\ back.to = l[1] /\ there.stat = stat
  BY <1>1, <1>2 DEF Edge
<1>4. w = [g EXCEPT ![l[1]] = Append(@, there), ![l[2]] = Append(@, back)]
  BY DEF WithLink, cost
<1> HIDE DEF there, back, w
<1>5. /\ w[l[1]] = Append(g[l[1]], there)
      /\ w[l[2]] = Append(g[l[2]], back)
      /\ \A n \in RNode : n # l[1] /\ n # l[2] => w[n] = g[n]
      /\ w \in [RNode -> {w[n] : n \in RNode}]
  BY <1>1, <1>4
<1>6. \A n \in RNode : g[n] \in Seq(Edge)
  OBVIOUS
<1>7. w \in [RNode -> Seq(Edge)]
  <2>1. w[l[1]] \in Seq(Edge) /\ w[l[2]] \in Seq(Edge)
    BY <1>1, <1>3, <1>5, <1>6, OneMoreEdge
  <2>2. \A n \in RNode : w[n] \in Seq(Edge)
    BY <2>1, <1>5, <1>6
  <2>3. QED BY <2>2, <1>5
<1>8. /\ Range(w[l[1]]) = Range(g[l[1]]) \cup {there}
      /\ Range(w[l[2]]) = Range(g[l[2]]) \cup {back}
  <2>1. g[l[1]] \in Seq(Edge) /\ g[l[2]] \in Seq(Edge)
    BY <1>1, <1>6
  <2>2. Range(w[l[1]]) = Range(g[l[1]]) \cup {there}
    BY <2>1, <1>3, <1>5, OneMoreEdge
  <2>3. Range(w[l[2]]) = Range(g[l[2]]) \cup {back}
    BY <2>1, <1>3, <1>5, OneMoreEdge
  <2>4. QED BY <2>2, <2>3
<1>9. \A f, m : EdgesOf(f, m) = {e \in Range(f[m[1]]) : e.to = m[2]}
  BY DEF EdgesOf
<1>10. EdgesOf(w, l) = {there}
  BY <1>3, <1>8, <1>9
<1>11. Held(w, l) = stat
  BY <1>3, <1>10 DEF Held
<1>12. ASSUME NEW m \in RLink, m # l PROVE EdgesOf(w, m) = EdgesOf(g, m)
  <2>1. /\ m[1] \in RNode /\ m[2] \in RNode
        /\ m = <<m[1], m[2]>> /\ l = <<l[1], l[2]>>
        /\ m # <<l[2], l[1]>>
    BY RLinkAssumption
  <2>2. CASE m[1] = l[1]
    <3>1. there.to # m[2]
      BY <2>1, <2>2, <1>3, <1>12
    <3>2. QED BY <3>1, <2>2, <1>8, <1>9
  <2>3. CASE m[1] = l[2]
    <3>1. back.to # m[2]
      BY <2>1, <2>3, <1>3
    <3>2. QED BY <3>1, <2>3, <1>8, <1>9
  <2>4. CASE m[1] # l[1] /\ m[1] # l[2]
    BY <2>1, <2>4, <1>5, <1>9
  <2>5. QED BY <2>2, <2>3, <2>4
<1>13. QED BY <1>7, <1>11, <1>12 DEF w

\* What a graph holds of a link is a matter of that link's edges.
LEMMA SameEdges ==
    ASSUME NEW f, NEW g, NEW m, EdgesOf(f, m) = EdgesOf(g, m)
    PROVE  Held(f, m) = Held(g, m)
<1> DEFINE held(es) == IF es = {} THEN NoStat ELSE (CHOOSE e \in es : TRUE).stat
<1>1. Held(f, m) = held(EdgesOf(f, m)) /\ Held(g, m) = held(EdgesOf(g, m))
  BY DEF Held
<1> HIDE DEF held
<1>2. QED BY <1>1

\* Nothing is kept and nobody builds at first.
LEMMA RouteStarts == RouteInit => RouteInv
<1> SUFFICES ASSUME RouteInit PROVE RouteInv
  OBVIOUS
<1>1. routeNow \in RouteTime /\ 0 \in 0..routeNow
  BY RouteBoundsAssumption DEF RouteInit, RouteTime
<1>2. linkStats \in [RLink -> Stat \cup {NoStat}]
  BY DEF RouteInit
<1>3. graph \in [RNode -> Seq(Edge)]
  BY DEF RouteInit, NoGraph
<1>4. asked \in [Request -> [query : Query, at : 0..routeNow]]
  BY <1>1 DEF RouteInit
<1>5. QED
  BY <1>1, <1>2, <1>3, <1>4 DEF RouteInit, RouteInv, RouteTypeOK, BuildInv, CacheInv

\* A link is heard: graphs that held it as it was are older than that (links.go).
LEMMA HearKeeps ==
    ASSUME RouteInv, NEW l \in RLink, NEW net \in RNet, HearLink(l, net)
    PROVE  RouteInv'
<1> USE DEF RouteInv
<1> DEFINE old == linkStats[l]
           new == IF old = NoStat
                  THEN [activity |-> 1, lastSeen |-> routeNow, networks |-> {net}]
                  ELSE [activity |-> IF old.activity < MaxActivity THEN old.activity + 1
                                     ELSE MaxActivity,
                        lastSeen |-> routeNow, networks |-> old.networks \cup {net}]
<1>1. new \in Stat
  <2>1. CASE old = NoStat
    BY <2>1, RouteBoundsAssumption DEF RouteTypeOK, Stat
  <2>2. CASE old # NoStat
    <3>1. old \in Stat
      BY <2>2 DEF RouteTypeOK
    <3>2. old.activity \in 1..MaxActivity /\ old.networks \in SUBSET RNet
      BY <3>1 DEF Stat
    <3>3. (IF old.activity < MaxActivity THEN old.activity + 1 ELSE MaxActivity) \in 1..MaxActivity
      BY <3>2, RouteBoundsAssumption
    <3>4. QED BY <2>2, <3>2, <3>3 DEF RouteTypeOK, Stat
  <2>3. QED BY <2>1, <2>2
<1>2. linkStats' = [linkStats EXCEPT ![l] = new]
  BY DEF HearLink
<1> HIDE DEF new, old
<1>3. /\ changedAt' = [changedAt EXCEPT ![l] = routeNow]
      /\ UNCHANGED <<routeNow, routeAdj, builder, graph, uncopied, asked, phase, answer>>
  BY DEF HearLink
<1>4. routeNow \in Nat /\ routeNow \in 0..routeNow
  BY RouteBoundsAssumption DEF RouteTypeOK, RouteTime
<1>5. RouteTypeOK'
  BY <1>1, <1>2, <1>3, <1>4 DEF RouteTypeOK
<1>6. ASSUME NEW g, NEW m \in RLink, NEW t \in 0..routeNow, Reflects(g, m, t)
      PROVE  Held(g, m) # linkStats'[m] => changedAt'[m] >= t
  BY <1>2, <1>3, <1>4, <1>6 DEF Reflects, RouteTypeOK
<1>7. BuildInv'
  <2>1. SUFFICES ASSUME builder # NoCache PROVE BuildInv'
    BY <1>3 DEF BuildInv
  <2>2. builder \in Request /\ asked[builder].at \in 0..routeNow
    BY <2>1 DEF BuildInv, RouteTypeOK
  <2>3. ASSUME NEW m \in RLink \ uncopied PROVE Reflects(graph, m, asked[builder].at)'
    <3>1. Reflects(graph, m, asked[builder].at)
      BY <2>1 DEF BuildInv
    <3>2. Held(graph, m) # linkStats'[m] => changedAt'[m] >= asked[builder].at
      BY <3>1, <2>2, <1>6
    <3>3. QED BY <3>2, <1>3 DEF Reflects
  <2>4. \A m \in uncopied : EdgesOf(graph, m)' = {}
    BY <2>1, <1>3 DEF BuildInv, EdgesOf
  <2>5. QED BY <2>1, <2>3, <2>4, <1>3 DEF BuildInv
<1>8. CacheInv'
  <2>1. SUFFICES ASSUME routeAdj # NoCache PROVE CacheInv'
    BY <1>3 DEF CacheInv
  <2>2. routeAdj.builtAt \in 0..routeNow
    BY <2>1 DEF CacheInv
  <2>3. ASSUME NEW m \in RLink PROVE Reflects(routeAdj.graph, m, routeAdj.builtAt)'
    <3>1. Reflects(routeAdj.graph, m, routeAdj.builtAt)
      BY <2>1 DEF CacheInv
    <3>2. Held(routeAdj.graph, m) # linkStats'[m] => changedAt'[m] >= routeAdj.builtAt
      BY <3>1, <2>2, <1>6
    <3>3. QED BY <3>2, <1>3 DEF Reflects
  <2>4. QED BY <2>2, <2>3, <1>3 DEF CacheInv
<1>9. QED BY <1>5, <1>7, <1>8

\* The builder comes to a link (route.go, buildAdjacency).
LEMMA CopyKeeps ==
    ASSUME RouteInv, NEW l \in RLink, CopyLink(l)
    PROVE  RouteInv'
<1> USE DEF RouteInv
<1>1. /\ builder # NoCache /\ l \in uncopied
      /\ uncopied' = uncopied \ {l}
      /\ UNCHANGED <<routeNow, linkStats, routeAdj, builder, asked, phase, answer, changedAt>>
  BY DEF CopyLink
<1>2. /\ builder \in Request
      /\ graph \in [RNode -> Seq(Edge)]
      /\ EdgesOf(graph, l) = {}
      /\ uncopied \subseteq RLink
  BY <1>1 DEF BuildInv, RouteTypeOK
<1>3. asked[builder].at \in RouteTime
  <2>1. asked[builder].at \in 0..routeNow /\ routeNow \in 0..RouteMaxTime
    BY <1>2 DEF RouteTypeOK, RouteTime
  <2>2. QED BY <2>1, RouteBoundsAssumption DEF RouteTime
<1>4. /\ graph' \in [RNode -> Seq(Edge)]
      /\ Held(graph', l) = linkStats[l]
      /\ \A m \in RLink : m # l => EdgesOf(graph', m) = EdgesOf(graph, m)
  <2>1. CASE linkStats[l] = NoStat
    BY <2>1, <1>2 DEF CopyLink, Held
  <2>2. CASE linkStats[l] # NoStat
    <3>1. linkStats[l] \in Stat
      BY <2>2 DEF RouteTypeOK
    <3>2. graph' = WithLink(graph, l, linkStats[l], asked[builder].at)
      BY <2>2 DEF CopyLink
    <3>3. QED BY <3>1, <3>2, <1>2, <1>3, LinkAdded
  <2>3. QED BY <2>1, <2>2
<1>5. RouteTypeOK'
  BY <1>1, <1>4 DEF RouteTypeOK
<1>6. ASSUME NEW m \in RLink \ uncopied' PROVE Reflects(graph, m, asked[builder].at)'
  <2>1. CASE m = l
    BY <2>1, <1>1, <1>4 DEF Reflects
  <2>2. CASE m # l
    <3>1. m \in RLink \ uncopied
      BY <2>2, <1>1
    <3>2. Reflects(graph, m, asked[builder].at)
      BY <3>1, <1>1 DEF BuildInv
    <3>3. EdgesOf(graph', m) = EdgesOf(graph, m)
      BY <3>1, <2>2, <1>4
    <3>4. Held(graph', m) = Held(graph, m)
      BY <3>3, SameEdges
    <3>5. QED BY <3>2, <3>4, <1>1 DEF Reflects
  <2>3. QED BY <2>1, <2>2
<1>7. \A m \in uncopied' : EdgesOf(graph', m) = {}
  BY <1>1, <1>2, <1>4 DEF BuildInv
<1>8. BuildInv'
  BY <1>1, <1>2, <1>6, <1>7 DEF BuildInv
<1>9. CacheInv'
  BY <1>1 DEF CacheInv, Reflects
<1>10. QED BY <1>5, <1>8, <1>9

\* Every step of a request, the builder, the reader and the clock keeps it.
LEMMA RouteStep == RouteInv /\ [RouteNext]_routeVars => RouteInv'
<1> SUFFICES ASSUME RouteInv, [RouteNext]_routeVars PROVE RouteInv'
  OBVIOUS
<1> USE DEF RouteInv
<1>1. ASSUME NEW r \in Request, NEW q \in Query, handleRoute(r, q) PROVE RouteInv'
  <2>1. /\ phase[r] # "waiting"
        /\ asked' = [asked EXCEPT ![r] = [query |-> q, at |-> routeNow]]
        /\ phase' = [phase EXCEPT ![r] = phase'[r]] /\ phase'[r] \in {"waiting", "answered"}
        /\ UNCHANGED <<routeNow, linkStats, routeAdj, builder, graph, uncopied, changedAt>>
    BY <1>1 DEF handleRoute, RouteTypeOK
  <2>2. routeNow \in 0..routeNow
    BY RouteBoundsAssumption DEF RouteTypeOK, RouteTime
  <2>3. RouteTypeOK'
    BY <2>1, <2>2 DEF RouteTypeOK
  <2>4. BuildInv'
    <3>1. builder # NoCache => builder # r
      BY <2>1 DEF BuildInv
    <3>2. builder # NoCache => asked'[builder] = asked[builder] /\ phase'[builder] = phase[builder]
      BY <3>1, <2>1 DEF BuildInv, RouteTypeOK
    <3>3. QED BY <2>1, <3>2 DEF BuildInv, Reflects
  <2>5. CacheInv'
    BY <2>1 DEF CacheInv, Reflects
  <2>6. QED BY <2>3, <2>4, <2>5
<1>2. ASSUME NEW r \in Request, UseCache(r) PROVE RouteInv'
  BY <1>2 DEF UseCache, Answer, RouteTypeOK, BuildInv, CacheInv, Reflects
<1>3. ASSUME NEW r \in Request, StartBuild(r) PROVE RouteInv'
  <2>1. /\ phase[r] = "waiting" /\ builder' = r /\ graph' = NoGraph /\ uncopied' = RLink
        /\ UNCHANGED <<routeNow, linkStats, routeAdj, asked, phase, answer, changedAt>>
    BY <1>3 DEF StartBuild
  <2>2. RouteTypeOK'
    BY <2>1 DEF RouteTypeOK, NoGraph
  <2>3. \A l \in RLink : EdgesOf(NoGraph, l) = {}
    BY RLinkAssumption DEF EdgesOf, NoGraph, Range
  <2>4. BuildInv'
    BY <2>1, <2>3 DEF BuildInv
  <2>5. CacheInv'
    BY <2>1 DEF CacheInv, Reflects
  <2>6. QED BY <2>2, <2>4, <2>5
<1>4. ASSUME NEW l \in RLink, CopyLink(l) PROVE RouteInv'
  BY <1>4, CopyKeeps
<1>5. CASE EndBuild
  <2>1. /\ builder # NoCache /\ uncopied = {} /\ builder' = NoCache
        /\ routeAdj' = [builtAt |-> asked[builder].at, graph |-> graph]
        /\ phase' = [phase EXCEPT ![builder] = "answered"]
        /\ UNCHANGED <<routeNow, linkStats, graph, uncopied, asked, changedAt>>
    BY <1>5 DEF EndBuild, Answer
  <2>2. RouteTypeOK' /\ BuildInv'
    BY <2>1 DEF RouteTypeOK, BuildInv
  <2>3. asked[builder].at \in 0..routeNow
    BY <2>1 DEF RouteTypeOK, BuildInv
  <2>4. \A l \in RLink : Reflects(graph, l, asked[builder].at)
    BY <2>1 DEF BuildInv
  <2>5. QED BY <2>1, <2>2, <2>3, <2>4 DEF CacheInv, Reflects
<1>6. ASSUME NEW l \in RLink, NEW net \in RNet, HearLink(l, net) PROVE RouteInv'
  BY <1>6, HearKeeps
<1>7. CASE RouteTick
  <2>1. /\ routeNow < RouteMaxTime /\ routeNow' = routeNow + 1
        /\ UNCHANGED <<linkStats, routeAdj, builder, graph, uncopied, asked, phase, answer, changedAt>>
    BY <1>7 DEF RouteTick
  <2>2. routeNow \in Nat /\ routeNow' \in RouteTime /\ 0..routeNow \subseteq 0..routeNow'
    BY <2>1, RouteBoundsAssumption DEF RouteTypeOK, RouteTime
  <2>3. RouteTypeOK'
    <3>1. asked' \in [Request -> [query : Query, at : 0..routeNow']]
      BY <2>1, <2>2 DEF RouteTypeOK
    <3>2. changedAt' \in [RLink -> 0..routeNow']
      BY <2>1, <2>2 DEF RouteTypeOK
    <3>3. QED BY <2>1, <2>2, <3>1, <3>2 DEF RouteTypeOK
  <2>4. BuildInv' /\ CacheInv'
    BY <2>1, <2>2 DEF BuildInv, CacheInv, Reflects
  <2>5. QED BY <2>3, <2>4
<1>8. CASE UNCHANGED routeVars
  BY <1>8 DEF routeVars, RouteTypeOK, BuildInv, CacheInv, Reflects
<1>9. QED BY <1>1, <1>2, <1>3, <1>4, <1>5, <1>6, <1>7, <1>8 DEF RouteNext

\* The inductive invariant of the kept graph: types, what a builder has come to,
\* and what the kept graph may miss (route.go, adjacency).
THEOREM RouteInvariance == RouteSpec => []RouteInv
BY RouteStarts, RouteStep, PTL DEF RouteSpec

\* An answer comes from a graph that misses no change of a link that is older than
\* the time to live, whoever built it and whatever was heard meanwhile, for every
\* search over it (route.go:51-55, route.go:86-98).
THEOREM GraphsAreFresh == RouteSpec => RouteMissesOnlyNews
<1> DEFINE Misses(r) == \A l \in RLink : Held(routeAdj'.graph, l) # linkStats[l]
                                             => changedAt[l] > asked[r].at - RouteTTL
<1>1. ASSUME RouteInv, [RouteNext]_routeVars
      PROVE  [\A r \in Request : Answering(r) => Misses(r)]_routeVars
  <2>1. SUFFICES ASSUME RouteNext, NEW r \in Request, Answering(r), NEW l \in RLink,
                        Held(routeAdj'.graph, l) # linkStats[l]
                 PROVE  changedAt[l] > asked[r].at - RouteTTL
    BY <1>1
  <2>2. /\ asked[r].at \in Nat /\ changedAt[l] \in Nat /\ RouteTTL \in Nat /\ RouteTTL > 0
    BY <1>1, RouteBoundsAssumption, RouteTTLAssumption DEF RouteInv, RouteTypeOK, RouteTime
  <2>3. CASE UseCache(r)
    <3>1. routeAdj # NoCache /\ asked[r].at - routeAdj.builtAt < RouteTTL /\ routeAdj' = routeAdj
      BY <2>3 DEF UseCache, Fresh
    <3>2. routeAdj.builtAt \in Nat /\ changedAt[l] >= routeAdj.builtAt
      BY <3>1, <2>1, <1>1, RouteBoundsAssumption
         DEF RouteInv, CacheInv, Reflects, RouteTypeOK, RouteTime
    <3>3. QED BY <2>2, <3>1, <3>2
  <2>4. CASE EndBuild
    <3>1. builder # NoCache /\ builder \in Request /\ uncopied = {} /\ routeAdj'.graph = graph
      BY <2>4, <1>1 DEF EndBuild, RouteInv, BuildInv
    <3>2. phase' = [phase EXCEPT ![builder] = "answered"]
      BY <2>4 DEF EndBuild, Answer
    <3>3. r = builder
      BY <3>1, <3>2, <2>1, <1>1 DEF Answering, RouteInv, RouteTypeOK
    <3>4. changedAt[l] >= asked[r].at
      BY <3>1, <3>3, <2>1, <1>1 DEF RouteInv, BuildInv, Reflects
    <3>5. QED BY <2>2, <3>4
  <2>5. UseCache(r) \/ EndBuild
    <3>1. ASSUME NEW p \in Request, NEW q \in Query, handleRoute(p, q) PROVE FALSE
      BY <3>1, <2>1, <1>1 DEF handleRoute, Answering, RouteInv, RouteTypeOK
    <3>2. ASSUME NEW p \in Request, UseCache(p) PROVE p = r
      BY <3>2, <2>1, <1>1 DEF UseCache, Answer, Answering, RouteInv, RouteTypeOK
    <3>3. ASSUME NEW p \in Request, StartBuild(p) PROVE FALSE
      BY <3>3, <2>1 DEF StartBuild, Answering
    <3>4. ASSUME NEW m \in RLink, CopyLink(m) PROVE FALSE
      BY <3>4, <2>1 DEF CopyLink, Answering
    <3>5. ASSUME NEW m \in RLink, NEW net \in RNet, HearLink(m, net) PROVE FALSE
      BY <3>5, <2>1 DEF HearLink, Answering
    <3>6. CASE RouteTick
      BY <3>6, <2>1 DEF RouteTick, Answering
    <3>7. QED BY <3>1, <3>2, <3>3, <3>4, <3>5, <3>6, <2>1 DEF RouteNext
  <2>6. QED BY <2>3, <2>4, <2>5
<1>2. QED BY RouteInvariance, <1>1, PTL DEF RouteSpec, RouteMissesOnlyNews
=============================================================================
