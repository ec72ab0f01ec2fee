-------------------------- MODULE ObserverRegistry --------------------------
(***************************************************************************)
(* The registry of analyzer observers (observers.go) and its SQLite table  *)
(* (db.go): the write-behind protocol with reports as its only writes, and *)
(* a restore that folds the rows older versions wrote under ids that are   *)
(* not canonical (upper case) into the canonical ones.                     *)
(***************************************************************************)
EXTENDS WriteBehind

CONSTANTS
    NetworkID,
    Legacy,      \* the persisted row of the non-canonical id of a key, or Absent
    MaxReports   \* bound: reports heard of an observer

ASSUME MaxReportsAssumption == MaxReports \in Nat
ASSUME LegacyAssumption == Legacy \in Rows

\* What WriteBehind's rows are here: a count of reports and a set of networks.
\* The module that gives Value its value assumes it.
ObserverRows ==
    /\ Value \subseteq [observations : Nat, networks : SUBSET NetworkID]
    /\ [observations : 1..MaxReports, networks : SUBSET NetworkID] \subseteq Value

VARIABLE reports  \* history: reports of an observer ever heard or persisted

observerVars == <<vars, reports>>

Observations(row) == IF row = Absent THEN 0 ELSE row.observations
Networks(row)     == IF row = Absent THEN {} ELSE row.networks

ObserverInit ==
    /\ Init
    /\ reports = [k \in Key |-> Observations(Legacy[k])]

\* Observe: the row's count advances and its set of networks grows.
Observe(k, n) ==
    /\ up
    /\ reports[k] < MaxReports
    /\ reports' = [reports EXCEPT ![k] = @ + 1]
    /\ cache' = [cache EXCEPT ![k] = [observations |-> Observations(@) + 1,
                                      networks     |-> Networks(@) \cup {n}]]
    /\ dirty' = dirty \cup {k}
    /\ UNCHANGED <<up, flush, batch, table>>

\* Mutant of SaveObservers: the upsert adds the counts up.
SaveObserversAdds ==
    /\ flush = "saving"
    /\ table' = [k \in Key |->
                   IF batch[k] = Absent THEN table[k]
                   ELSE [batch[k] EXCEPT !.observations = @ + Observations(table[k])]]
    /\ batch' = NoRows
    /\ flush' = "idle"
    /\ UNCHANGED <<up, cache, dirty, reports>>

SaveObservers == SaveCommits /\ UNCHANGED reports
SaveObserversFails == SaveFails /\ UNCHANGED reports

\* mergeObserver: observations are summed, networks united.
mergeObserver(dst, src) ==
    IF src = Absent THEN dst
    ELSE IF dst = Absent THEN src
    ELSE [observations |-> dst.observations + src.observations,
          networks     |-> dst.networks \cup src.networks]

\* LoadObservers and Restore: rows whose ids collapse to one key are merged; the
\* merged row is not marked dirty and the non-canonical row stays in the table.
Restore ==
    /\ ~up
    /\ up' = TRUE
    /\ \/ cache' = [k \in Key |-> mergeObserver(Legacy[k], table[k])]
       \/ LoadMayFail /\ cache' = NoRows
    /\ UNCHANGED <<dirty, flush, batch, table, reports>>

FlushLoop == \/ TakeDirty /\ UNCHANGED reports
             \/ SaveObservers
             \/ SaveObserversFails
             \/ Requeue /\ UNCHANGED reports

ObserverNext ==
    \/ \E k \in Key, n \in NetworkID : Observe(k, n)
    \/ FlushLoop
    \/ Restore
    \/ Crash /\ UNCHANGED reports

ObserverSpec ==
    /\ ObserverInit
    /\ [][ObserverNext]_observerVars
    /\ WF_observerVars(TakeDirty /\ UNCHANGED reports)
    /\ WF_observerVars(SaveObservers \/ SaveObserversFails)
    /\ SF_observerVars(SaveObservers)
    /\ WF_observerVars(Requeue /\ UNCHANGED reports)
    /\ WF_observerVars(Restore)

-----------------------------------------------------------------------------
\* No report is counted twice, whatever is flushed, requeued, merged and
\* restored: "merge any duplicates that collapse to the same canonical key so
\* counts stay correct" (observers.go:209).
CountsReportsOnce == \A k \in Key : Observations(cache[k]) <= reports[k]

\* What makes it inductive: the copies a flush holds and the durable rows count
\* no more reports either, since a start and a requeue bring them back.
ObserverInv ==
    /\ ProtocolInv
    /\ reports \in [Key -> 0..MaxReports]
    /\ \A k \in Key : \A row \in {cache[k], batch[k], table[k]} :
           Observations(row) <= reports[k]
=============================================================================
