------------------------- MODULE WriteBehindProofs -------------------------
(***************************************************************************)
(* Proofs about the write-behind protocol, for every set of keys and rows, *)
(* and about the observer registry, which implements it and counts every   *)
(* report once as long as no row of an older version is merged.            *)
(***************************************************************************)
EXTENDS ObserverRegistry, TLAPS

-----------------------------------------------------------------------------
(* The protocol.                                                           *)

\* The inductive invariant holds when the process starts for the first time.
LEMMA InitProtocolInv == Init => ProtocolInv
BY DEF Init, ProtocolInv, TypeOK, NoLostUpdate, BatchIsCurrent, HeldRows, NoRows, Rows

\* Every step of the registry, the flush loop, a crash or a start keeps it.
LEMMA StepProtocolInv == ProtocolInv /\ [Next]_vars => ProtocolInv'
<1> SUFFICES ASSUME ProtocolInv, [Next]_vars PROVE ProtocolInv'
  OBVIOUS
<1> USE AbsentAssumption
<1>1. CASE Write
  <2>1. TypeOK'
    BY <1>1 DEF ProtocolInv, TypeOK, Write
  <2>2. NoLostUpdate' /\ BatchIsCurrent'
    BY <1>1 DEF ProtocolInv, TypeOK, NoLostUpdate, BatchIsCurrent, HeldRows, Write, Rows, NoRows
  <2>3. HeldRows'
    BY <1>1 DEF ProtocolInv, TypeOK, HeldRows, Write, Rows, NoRows
  <2>4. QED BY <2>1, <2>2, <2>3 DEF ProtocolInv
<1>2. CASE TakeDirty
  BY <1>2 DEF ProtocolInv, TypeOK, NoLostUpdate, BatchIsCurrent, HeldRows, TakeDirty, Rows, NoRows
<1>3. CASE SaveCommits
  BY <1>3 DEF ProtocolInv, TypeOK, NoLostUpdate, BatchIsCurrent, HeldRows, SaveCommits, Rows, NoRows
<1>4. CASE SaveFails
  BY <1>4 DEF ProtocolInv, TypeOK, NoLostUpdate, BatchIsCurrent, HeldRows, SaveFails, Rows, NoRows
<1>5. CASE Requeue
  BY <1>5 DEF ProtocolInv, TypeOK, NoLostUpdate, BatchIsCurrent, HeldRows, Requeue, Rows, NoRows
<1>6. CASE Crash
  BY <1>6 DEF ProtocolInv, TypeOK, NoLostUpdate, BatchIsCurrent, HeldRows, Crash, Rows, NoRows
<1>7. CASE Start
  BY <1>7 DEF ProtocolInv, TypeOK, NoLostUpdate, BatchIsCurrent, HeldRows, Start, Rows, NoRows
<1>8. CASE UNCHANGED vars
  BY <1>8 DEF ProtocolInv, TypeOK, NoLostUpdate, BatchIsCurrent, HeldRows, vars
<1>9. QED
  BY <1>1, <1>2, <1>3, <1>4, <1>5, <1>6, <1>7, <1>8 DEF Next

\* Type correctness and the strengthening, for every reachable state.
THEOREM Invariance == Spec => []ProtocolInv
BY InitProtocolInv, StepProtocolInv, PTL DEF Spec

\* No change of a row is ever forgotten: it is durable, dirty or in the batch
\* of the flush in progress (nodes.go, observers.go, links.go: TakeDirty/Requeue).
THEOREM UpdatesAreKept == Spec => []NoLostUpdate
<1>1. ProtocolInv => NoLostUpdate
  BY DEF ProtocolInv
<1>2. QED BY Invariance, <1>1, PTL

-----------------------------------------------------------------------------
(* The observer registry.                                                  *)

\* A report makes a row of the registry's rows, and changes it alone (Observe).
LEMMA ObserveWrites ==
    ASSUME ObserverRows, ObserverInv, NEW k \in Key, NEW n \in NetworkID, Observe(k, n)
    PROVE  Write /\ ObserverInv'
<1> USE AbsentAssumption, MaxReportsAssumption
<1> DEFINE row == [observations |-> Observations(cache[k]) + 1,
                   networks     |-> Networks(cache[k]) \cup {n}]
<1>1. cache \in Rows /\ dirty \in SUBSET Key /\ reports \in [Key -> 0..MaxReports] /\ HeldRows
  BY DEF ObserverInv, ProtocolInv, TypeOK
<1>2. Observations(cache[k]) \in Nat /\ Networks(cache[k]) \in SUBSET NetworkID
  BY <1>1 DEF ObserverRows, Rows, Observations, Networks
<1>3. Observations(cache[k]) <= reports[k] /\ reports[k] < MaxReports
  BY DEF ObserverInv, Observe
<1>4. row \in Value
  <2>1. row.observations \in 1..MaxReports
    BY <1>1, <1>2, <1>3
  <2>2. row \in [observations : 1..MaxReports, networks : SUBSET NetworkID]
    BY <2>1, <1>2
  <2>3. QED BY <2>2 DEF ObserverRows
<1>5. /\ cache' = [cache EXCEPT ![k] = row]
      /\ dirty' = dirty \cup {k}
      /\ reports' = [reports EXCEPT ![k] = @ + 1]
      /\ UNCHANGED <<up, flush, batch, table>>
      /\ up
  BY DEF Observe
<1>6. Observations(row) = Observations(cache[k]) + 1
  BY <1>4 DEF Observations
<1> HIDE DEF row
<1>7. Write
  <2>1. cache' \in Rows
    BY <1>1, <1>4, <1>5 DEF Rows
  <2>2. \A q \in Key : q # k => cache'[q] = cache[q]
    BY <1>1, <1>5 DEF Rows
  <2>3. cache'[k] # Absent
    BY <1>1, <1>4, <1>5 DEF Rows
  <2>4. \A q \in dirty' : cache'[q] # Absent
    BY <1>1, <1>5, <2>2, <2>3 DEF HeldRows
  <2>5. QED BY <1>1, <1>5, <2>1, <2>2, <2>3, <2>4 DEF Write
<1>8. ProtocolInv'
  BY <1>7, StepProtocolInv DEF ObserverInv, Next
<1>9. reports' \in [Key -> 0..MaxReports]
  BY <1>1, <1>3, <1>5
<1>10. ASSUME NEW q \in Key, NEW old \in {cache'[q], batch'[q], table'[q]}
       PROVE  Observations(old) <= reports'[q]
  <2>1. reports[q] \in Nat /\ reports'[q] \in Nat /\ reports[q] <= reports'[q]
    BY <1>1, <1>5
  <2>2. Observations(batch[q]) \in Nat /\ Observations(table[q]) \in Nat
             /\ Observations(cache[q]) \in Nat
    BY DEF ObserverInv, ProtocolInv, TypeOK, Rows, ObserverRows, Observations
  <2>3. /\ Observations(batch[q]) <= reports[q]
        /\ Observations(table[q]) <= reports[q]
        /\ Observations(cache[q]) <= reports[q]
    BY DEF ObserverInv
  <2>4. CASE old = cache'[q]
    <3>1. CASE q = k
      BY <1>1, <1>2, <1>3, <1>5, <1>6, <2>4, <3>1 DEF Rows
    <3>2. CASE q # k
      BY <1>1, <1>5, <2>1, <2>2, <2>3, <2>4, <3>2 DEF Rows
    <3>3. QED BY <3>1, <3>2
  <2>5. CASE old = batch[q] \/ old = table[q]
    BY <2>1, <2>2, <2>3, <2>5
  <2>6. QED BY <2>4, <2>5, <1>5
<1>11. QED BY <1>7, <1>8, <1>9, <1>10 DEF ObserverInv

\* Without rows of an older version a restore reloads the table as it is.
LEMMA RestoreStarts ==
    ASSUME Legacy = NoRows, TypeOK, Restore
    PROVE  Start
<1>1. ASSUME NEW k \in Key PROVE mergeObserver(Legacy[k], table[k]) = table[k]
  BY DEF mergeObserver, NoRows
<1>2. [k \in Key |-> mergeObserver(Legacy[k], table[k])] = table
  BY <1>1 DEF TypeOK, Rows
<1>3. QED BY <1>2 DEF Restore, Start

\* What a step of the flush loop, a crash or a start leaves in memory, in the
\* batch and in the table was there before: no row counts more than it did.
LEMMA RowsMove ==
    ASSUME ObserverRows, ObserverInv, UNCHANGED reports,
           TakeDirty \/ SaveCommits \/ SaveFails \/ Requeue \/ Crash \/ Start \/ UNCHANGED vars
    PROVE  ObserverInv'
<1>1. ProtocolInv'
  BY StepProtocolInv DEF ObserverInv, Next
<1>2. reports' \in [Key -> 0..MaxReports]
  BY DEF ObserverInv
<1>3. ASSUME NEW k \in Key, NEW row \in {cache'[k], batch'[k], table'[k]}
      PROVE  Observations(row) <= reports'[k]
  <2>1. row \in {cache[k], batch[k], table[k], Absent}
    BY DEF TakeDirty, SaveCommits, SaveFails, Requeue, Crash, Start, vars, NoRows
  <2>2. reports'[k] = reports[k] /\ reports[k] \in Nat
    BY MaxReportsAssumption DEF ObserverInv
  <2>3. CASE row = Absent
    BY <2>2, <2>3 DEF Observations
  <2>4. CASE row \in {cache[k], batch[k], table[k]}
    BY <2>2, <2>4 DEF ObserverInv
  <2>5. QED BY <2>1, <2>3, <2>4
<1>4. QED BY <1>1, <1>2, <1>3 DEF ObserverInv

\* Every step of the observer registry is a step of the protocol.
LEMMA ObserverStep ==
    ASSUME ObserverRows, Legacy = NoRows, ObserverInv, [ObserverNext]_observerVars
    PROVE  [Next]_vars /\ ObserverInv'
<1>1. CASE \E k \in Key, n \in NetworkID : Observe(k, n)
  BY <1>1, ObserveWrites DEF Next
<1>2. CASE FlushLoop
  BY <1>2, RowsMove DEF FlushLoop, SaveObservers, SaveObserversFails, Next
<1>3. CASE Restore
  <2>1. Start /\ UNCHANGED reports
    BY <1>3, RestoreStarts DEF ObserverInv, ProtocolInv, Restore
  <2>2. QED BY <2>1, RowsMove DEF Next
<1>4. CASE Crash /\ UNCHANGED reports
  BY <1>4, RowsMove DEF Next
<1>5. CASE UNCHANGED observerVars
  <2>1. UNCHANGED vars /\ UNCHANGED reports
    BY <1>5 DEF observerVars
  <2>2. QED BY <2>1, RowsMove
<1>6. QED BY <1>1, <1>2, <1>3, <1>4, <1>5 DEF ObserverNext

\* The registry starts with nothing counted.
LEMMA ObserverStarts ==
    ASSUME Legacy = NoRows, ObserverInit
    PROVE  Init /\ ObserverInv
<1>1. Init /\ ProtocolInv
  BY InitProtocolInv DEF ObserverInit
<1>2. \A k \in Key : reports[k] = 0
  BY DEF ObserverInit, Observations, NoRows
<1>3. reports \in [Key -> 0..MaxReports]
  BY <1>2, MaxReportsAssumption DEF ObserverInit
<1>4. \A k \in Key : cache[k] = Absent /\ batch[k] = Absent /\ table[k] = Absent
  BY <1>1 DEF Init, NoRows
<1>5. QED BY <1>1, <1>2, <1>3, <1>4 DEF ObserverInv, Observations

\* Without rows of an older version, memory, batch and table count no report
\* twice (observers.go: Observe, TakeDirty, Requeue, Restore; db.go: SaveObservers).
THEOREM ObserverInvariance ==
    ASSUME ObserverRows, Legacy = NoRows
    PROVE  ObserverSpec => []ObserverInv
<1>1. ObserverInit => ObserverInv
  BY ObserverStarts
<1>2. ObserverInv /\ [ObserverNext]_observerVars => ObserverInv'
  BY ObserverStep
<1>3. QED BY <1>1, <1>2, PTL DEF ObserverSpec

\* No report of an observer is counted twice, whatever is flushed, requeued and
\* restored, unless a row of an older version is merged (observers.go:209).
THEOREM ReportsCountOnce ==
    ASSUME ObserverRows, Legacy = NoRows
    PROVE  ObserverSpec => []CountsReportsOnce
<1>1. ObserverInv => CountsReportsOnce
  BY DEF ObserverInv, CountsReportsOnce
<1>2. QED BY <1>1, ObserverInvariance, PTL

\* The observer registry, its table and its restore implement the write-behind
\* protocol (observers.go, db.go: LoadObservers, SaveObservers).
THEOREM ObserversAreWriteBehind ==
    ASSUME ObserverRows, Legacy = NoRows
    PROVE  ObserverSpec => Spec
<1>1. ObserverInit => Init
  BY ObserverStarts
<1>2. ObserverInv /\ [ObserverNext]_observerVars => [Next]_vars
  BY ObserverStep
<1>3. QED BY <1>1, <1>2, ObserverInvariance, PTL DEF ObserverSpec, Spec
=============================================================================
