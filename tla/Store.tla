------------------------------- MODULE Store -------------------------------
(***************************************************************************)
(* The store of networks and analyzers (store.go), the counter flush       *)
(* (main.go, db.go) and the counter sweep (main.go).  A catalog update     *)
(* replaces the NetworkState and AnalyzerState objects and hands their     *)
(* counters on, while packets may still be routed to replaced objects: so  *)
(* a counter is identified by the update that created it and its scope, an *)
(* AnalyzerState by the update that created it, its network and its name.  *)
(***************************************************************************)
EXTENDS Counter, Sequences

CONSTANTS
    NetworkID,
    Analyzer,      \* names of analyzers
    Catalog,       \* the catalogs LoadNetworks may return
    Only,          \* networkFilter; empty: every network
    WithDB,        \* is a database configured (--db)?
    DedupWindow,
    ObserverTTL,
    SweepSecs,     \* the interval of the sweep
    Requests,      \* do clients ask for the statistics?
    MayReturn,     \* may a dropped scope come back in a later catalog?
    LoadMayFail,   \* may Load fail at startup?
    NoState,       \* "no row" in the batch or the counters table
    MaxUpdates,    \* bound: catalog updates between two starts
    MaxCrashes     \* bound: crashes

\* A counter's scope: a network, or an analyzer of a network.
AzScope == NetworkID \X Analyzer
Scope   == NetworkID \cup AzScope

ASSUME ScopeAssumption == NetworkID \cap AzScope = {}
ASSUME CatalogAssumption ==
    /\ Catalog \subseteq Seq([id : NetworkID, analyzers : Seq(Analyzer)])
    /\ \A c \in Catalog : \A i, j \in DOMAIN c :
          /\ c[i].id = c[j].id => i = j
          /\ \A k, l \in DOMAIN c[i].analyzers :
                c[i].analyzers[k] = c[i].analyzers[l] => k = l
ASSUME OnlyAssumption == Only \subseteq NetworkID
ASSUME WindowAssumption == {DedupWindow, ObserverTTL, SweepSecs} \subseteq Nat
ASSUME FlagsAssumption == {Requests, WithDB, MayReturn, LoadMayFail} \subseteq BOOLEAN
ASSUME NoStateAssumption == NoState \notin State
ASSUME BoundsAssumption == MaxUpdates \in Nat /\ MaxCrashes \in Nat

Gen       == 0..MaxUpdates
NoGen     == -1
CounterId == Gen \X Scope
AzObject  == Gen \X AzScope

VARIABLES
    up,          \* the process runs
    now,         \* the wall clock
    gen,         \* catalog updates since the start
    catalog,     \* Networks, as the last update left them
    born,        \* Scope -> the update that created its counter, or NoGen
    counters,    \* CounterId -> counter
    connected,   \* AzObject -> is it marked connected
    sweepAt,     \* when the sweep in progress began
    sweepTodo,   \* the counters it has not swept yet
    flush,       \* the counter flush: "idle", "exporting"
    exportTodo,  \* the counters it has not exported yet
    batch,       \* what it exported: Scope -> state
    table,       \* SQLite: Scope -> state
    dropped,     \* history: scopes a catalog did not have any more
    heardAt,     \* history: CounterId -> hash -> last heard
    uniqueAt,    \* history: CounterId -> second -> unique packets counted
    crashes

catalogVars == <<gen, catalog, born, dropped>>
countVars   == <<counters, heardAt, uniqueAt>>
sweepVars   == <<sweepAt, sweepTodo>>
flushVars   == <<flush, exportTodo, batch>>
storeVars   == <<up, now, catalogVars, countVars, connected, sweepVars, flushVars,
                 table, crashes>>

NoStates == [s \in Scope |-> NoState]

StoreTypeOK ==
    /\ up \in BOOLEAN
    /\ now \in Time \ {0}
    /\ gen \in Gen
    /\ catalog \in Catalog \cup {<<>>}
    /\ born \in [Scope -> Gen \cup {NoGen}]
    /\ counters \in [CounterId -> CounterValue]
    /\ connected \in [AzObject -> BOOLEAN]
    /\ sweepAt \in Time
    /\ sweepTodo \in SUBSET CounterId
    /\ flush \in {"idle", "exporting"}
    /\ exportTodo \in SUBSET CounterId
    /\ batch \in [Scope -> State \cup {NoState}]
    /\ table \in [Scope -> State \cup {NoState}]
    /\ dropped \in SUBSET Scope
    /\ heardAt \in [CounterId -> [Hash -> Time]]
    /\ uniqueAt \in [CounterId -> [Time -> Nat]]
    /\ crashes \in 0..MaxCrashes

-----------------------------------------------------------------------------
\* The scopes of a catalog, and the network ids the filter asks for.
Scopes(c) ==
    UNION {{c[i].id} \cup {<<c[i].id, c[i].analyzers[j]>> : j \in DOMAIN c[i].analyzers} :
             i \in DOMAIN c}

ValidateNetworkFilter(c) == Only \subseteq {c[i].id : i \in DOMAIN c}

\* The counters of the networks in the store, ...
Exposed == {<<born[s], s>> : s \in {t \in Scope : born[t] # NoGen}}

\* ... which Export, Restore and sweep visit a network before its analyzers.
NextOf(todo) ==
    {id \in todo : id[2] \in AzScope => \A other \in todo : other[2] # id[2][1]}

NewCounters   == [c \in CounterId |-> newCounter]
NoneConnected == [o \in AzObject |-> FALSE]
NeverHeard    == [c \in CounterId |-> [h \in Hash |-> 0]]
NoneUnique    == [c \in CounterId |-> [t \in Time |-> 0]]

StoreInit ==
    /\ up = FALSE
    /\ now = 1
    /\ gen = 0
    /\ catalog = <<>>
    /\ born = [s \in Scope |-> NoGen]
    /\ counters = NewCounters
    /\ connected = NoneConnected
    /\ sweepAt = 0
    /\ sweepTodo = {}
    /\ flush = "idle"
    /\ exportTodo = {}
    /\ batch = NoStates
    /\ table = NoStates
    /\ dropped = {}
    /\ heardAt = NeverHeard
    /\ uniqueAt = NoneUnique
    /\ crashes = 0

-----------------------------------------------------------------------------
\* A catalog the environment may publish next.
MayFollow(c) ==
    /\ ValidateNetworkFilter(c)
    /\ MayReturn \/ Scopes(c) \cap dropped = {}

\* Mutant of BornWith: an update creates the counters of a network's analyzers
\* anew.
BornWithNewAnalyzers(c) ==
    [s \in Scope |->
       IF s \notin Scopes(c) THEN NoGen
       ELSE IF born[s] # NoGen /\ s \in NetworkID THEN born[s] ELSE gen + 1]

\* Update keeps the counters of the scopes it keeps.
BornWith(c) ==
    [s \in Scope |->
       IF s \notin Scopes(c) THEN NoGen
       ELSE IF born[s] # NoGen THEN born[s] ELSE gen + 1]

\* Store.Update: new objects, which copy the status of those they replace.
Update(c) ==
    /\ up
    /\ gen < MaxUpdates
    /\ MayFollow(c)
    /\ gen' = gen + 1
    /\ catalog' = c
    /\ born' = BornWith(c)
    /\ connected' = [o \in AzObject |->
                       IF o[1] = gen + 1
                       THEN /\ o[2] \in Scopes(c)
                            /\ born[o[2]] # NoGen
                            /\ connected[<<gen, o[2]>>]
                       ELSE connected[o]]
    /\ dropped' = dropped \cup {s \in Scope : born[s] # NoGen /\ s \notin Scopes(c)}
    /\ UNCHANGED <<up, now, countVars, sweepVars, flushVars, table, crashes>>

\* Counter.Observe of one counter, in a packet's handling.
ObserveIn(id, ev) ==
    /\ counters' = [counters EXCEPT ![id] = Observed(@, ev)]
    /\ heardAt' = [heardAt EXCEPT ![id][ev.hash] = ev.at]
    /\ uniqueAt' = [uniqueAt EXCEPT ![id][ev.at] =
                      IF counters[id].seenHash[ev.hash] = 0 THEN @ + 1 ELSE @]

\* A request for the statistics reads a counter.
Snapshot(id) ==
    /\ Requests
    /\ up
    /\ id \in Exposed
    /\ counters[id].rate # advance(counters[id].rate, now)
    /\ counters' = [counters EXCEPT ![id] = Snapshotted(@, now)]
    /\ UNCHANGED <<up, now, catalogVars, connected, heardAt, uniqueAt, sweepVars,
                   flushVars, table, crashes>>

-----------------------------------------------------------------------------
\* The sweep goroutine takes the time and the networks once, ...
SweepStarts ==
    /\ up
    /\ sweepTodo = {}
    /\ sweepAt + SweepSecs <= now
    /\ sweepAt' = now
    /\ sweepTodo' = Exposed
    /\ UNCHANGED <<up, now, catalogVars, countVars, connected, flushVars, table, crashes>>

\* ... then locks one counter after the other.
SweepCounter(id) ==
    /\ id \in NextOf(sweepTodo)
    /\ counters' = [counters EXCEPT ![id] = Swept(@, sweepAt, DedupWindow, ObserverTTL)]
    /\ sweepTodo' = sweepTodo \ {id}
    /\ UNCHANGED <<up, now, catalogVars, connected, heardAt, uniqueAt, sweepAt, flushVars,
                   table, crashes>>

-----------------------------------------------------------------------------
\* The counter flush: Export takes the networks, ...
ExportStarts ==
    /\ WithDB
    /\ up
    /\ flush = "idle"
    /\ flush' = "exporting"
    /\ exportTodo' = Exposed
    /\ UNCHANGED <<up, now, catalogVars, countVars, connected, sweepVars, batch, table, crashes>>

\* ... locks one counter after the other, ...
ExportCounter(id) ==
    /\ flush = "exporting"
    /\ id \in NextOf(exportTodo)
    /\ batch' = [batch EXCEPT ![id[2]] = Exported(counters[id])]
    /\ exportTodo' = exportTodo \ {id}
    /\ UNCHANGED <<up, now, catalogVars, countVars, connected, sweepVars, flush, table, crashes>>

\* ... and Save upserts every scope in one transaction.
Save ==
    /\ flush = "exporting"
    /\ exportTodo = {}
    /\ table' = [s \in Scope |-> IF batch[s] = NoState THEN table[s] ELSE batch[s]]
    /\ batch' = NoStates
    /\ flush' = "idle"
    /\ UNCHANGED <<up, now, catalogVars, countVars, connected, sweepVars, exportTodo, crashes>>

\* Or it fails: the next flush exports everything again.
SaveFails ==
    /\ flush = "exporting"
    /\ exportTodo = {}
    /\ batch' = NoStates
    /\ flush' = "idle"
    /\ UNCHANGED <<up, now, catalogVars, countVars, connected, sweepVars, exportTodo, table,
                   crashes>>

-----------------------------------------------------------------------------
\* main: NewStore, then Load and Restore for the scopes of the catalog.
StoreStarts(c, saved) ==
    /\ ~up
    /\ MayFollow(c)
    /\ up' = TRUE
    /\ gen' = 0
    /\ catalog' = c
    /\ born' = [s \in Scope |-> IF s \in Scopes(c) THEN 0 ELSE NoGen]
    /\ counters' = [id \in CounterId |->
                      IF id[1] = 0 /\ id[2] \in Scopes(c) /\ saved[id[2]] # NoState
                      THEN Restored(newCounter, saved[id[2]]) ELSE newCounter]
    /\ dropped' = dropped \cup {s \in Scope : table[s] # NoState /\ s \notin Scopes(c)}
    /\ UNCHANGED <<now, connected, heardAt, uniqueAt, sweepVars, flushVars, table, crashes>>

StoreCrashes ==
    /\ up
    /\ crashes < MaxCrashes
    /\ crashes' = crashes + 1
    /\ up' = FALSE
    /\ gen' = 0
    /\ catalog' = <<>>
    /\ born' = [s \in Scope |-> NoGen]
    /\ counters' = NewCounters
    /\ connected' = NoneConnected
    /\ sweepAt' = 0
    /\ sweepTodo' = {}
    /\ flush' = "idle"
    /\ exportTodo' = {}
    /\ batch' = NoStates
    /\ heardAt' = NeverHeard
    /\ uniqueAt' = NoneUnique
    /\ UNCHANGED <<now, table, dropped>>

Sweep == SweepStarts \/ \E id \in CounterId : SweepCounter(id)

Flush == \/ ExportStarts
         \/ \E id \in CounterId : ExportCounter(id)
         \/ Save
         \/ SaveFails
=============================================================================
