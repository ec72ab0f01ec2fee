---------------------------- MODULE NodeRegistry ----------------------------
(***************************************************************************)
(* The registry of mesh nodes heard through ADVERT packets (nodes.go), its *)
(* two SQLite tables (db.go: the nodes overview and the append-only        *)
(* adverts history), the two flush loops and the advert backfill (main.go) *)
(* and the flag scan (flags.go).  Every action is one critical section of  *)
(* the registry mutex, one database transaction or one query.              *)
(***************************************************************************)
EXTENDS Naturals, Sequences

CONSTANTS
    PubKey,       \* public keys of nodes
    NetworkID,    \* networks an advert can be heard on
    Position,     \* GPS positions an advert can carry
    NoPos,        \* "HasGPS is false"
    Areas,        \* networks with a published coverage area
    Near,         \* the <<network, position>> pairs within the far threshold
    NoNode,       \* "no row" in the registry map, a batch or the nodes table
    MaxAdverts,   \* adverts the rolling list of a node keeps
    LoadMayFail,  \* may LoadNodes fail at startup?
    MaxHeard,     \* bound: adverts heard in a behaviour
    MaxCrashes    \* bound: crashes in a behaviour

ASSUME NoPosAssumption == NoPos \notin Position
ASSUME AreasAssumption == Areas \subseteq NetworkID
ASSUME NearAssumption == Near \subseteq NetworkID \X Position
ASSUME MaxAdvertsAssumption == MaxAdverts \in Nat \ {0}
ASSUME LoadMayFailAssumption == LoadMayFail \in BOOLEAN
ASSUME BoundsAssumption == MaxHeard \in Nat /\ MaxCrashes \in Nat

Flag == {"none", "far_from_network", "network_too_far"}

\* An advert observation.  id stands for its content hash and receive time:
\* what tells two adverts of a node apart.
Advert == [id : 1..MaxHeard, pk : PubKey, net : NetworkID, pos : Position \cup {NoPos}]

\* The overview row of a node (NodeRecord without its rolling list).
Row == [pos      : Position \cup {NoPos},
        count    : Nat,
        networks : SUBSET NetworkID,
        flags    : Flag]

ASSUME NoNodeAssumption == NoNode \notin Row

VARIABLES
    up,           \* the process runs and its nodes are restored
    nodes,        \* PubKey -> overview row
    latest,       \* PubKey -> rolling list of adverts, newest first
    dirty,        \* public keys changed since the last overview flush
    pending,      \* adverts heard but not yet persisted
    nodeFlush,    \* the overview flush loop: "idle", "saving", "failed"
    nodeBatch,    \* the rows it took
    advertFlush,  \* the history flush loop: "idle", "saving", "saved"
    advertBatch,  \* the adverts it copied
    backfill,     \* the startup backfill: "off" or "loading"
    todo,         \* public keys the backfill has not queried yet
    recent,       \* what its queries returned: PubKey -> adverts
    scan,         \* the flag scan's result, not yet applied: PubKey -> flag
    nodesTable,   \* SQLite: PubKey -> overview row
    advertsTable, \* SQLite: the adverts in id order
    heard,        \* adverts heard so far (gives an advert its identity)
    crashes       \* crashes so far

memVars    == <<nodes, latest, dirty, pending>>
nodeLoop   == <<nodeFlush, nodeBatch>>
advertLoop == <<advertFlush, advertBatch>>
fillVars   == <<backfill, todo, recent>>
tables     == <<nodesTable, advertsTable>>
bounds     == <<heard, crashes>>
vars == <<up, memVars, nodeLoop, advertLoop, fillVars, scan, tables, bounds>>

NoRows    == [k \in PubKey |-> NoNode]
NoLists   == [k \in PubKey |-> <<>>]
Unscanned == "unscanned"
NoScan    == [k \in PubKey |-> Unscanned]

RowsTypeOK ==
    /\ up \in BOOLEAN
    /\ nodes \in [PubKey -> Row \cup {NoNode}]
    /\ dirty \in SUBSET PubKey
    /\ nodeFlush \in {"idle", "saving", "failed"}
    /\ nodeBatch \in [PubKey -> Row \cup {NoNode}]
    /\ scan \in [PubKey -> Flag \cup {Unscanned}]
    /\ nodesTable \in [PubKey -> Row \cup {NoNode}]
    /\ heard \in 0..MaxHeard
    /\ crashes \in 0..MaxCrashes

HistoryTypeOK ==
    /\ pending \in Seq(Advert)
    /\ advertFlush \in {"idle", "saving", "saved"}
    /\ advertBatch \in Seq(Advert)
    /\ advertsTable \in Seq(Advert)

ListsTypeOK ==
    /\ latest \in [PubKey -> Seq(Advert)]
    /\ backfill \in {"off", "loading"}
    /\ todo \in SUBSET PubKey
    /\ recent \in [PubKey -> Seq(Advert)]
    /\ \A k \in PubKey : Len(latest[k]) <= MaxAdverts /\ Len(recent[k]) <= MaxAdverts

\* Types, and the cap of the rolling lists, whether adverts or the backfill fill
\* them (nodes.go, Observe and AttachRecentAdverts).
TypeOK == RowsTypeOK /\ HistoryTypeOK /\ ListsTypeOK

Init ==
    /\ up = FALSE
    /\ nodes = NoRows
    /\ latest = NoLists
    /\ dirty = {}
    /\ pending = <<>>
    /\ nodeFlush = "idle"
    /\ nodeBatch = NoRows
    /\ advertFlush = "idle"
    /\ advertBatch = <<>>
    /\ backfill = "off"
    /\ todo = {}
    /\ recent = NoLists
    /\ scan = NoScan
    /\ nodesTable = NoRows
    /\ advertsTable = <<>>
    /\ heard = 0
    /\ crashes = 0

-----------------------------------------------------------------------------
\* Mutant of Trim: the length is compared before the new advert is in the list.
TrimLate(list) ==
    SubSeq(list, 1, IF Len(list) > MaxAdverts + 1 THEN MaxAdverts ELSE Len(list))

\* The first MaxAdverts entries of a newest-first list.
Trim(list) ==
    SubSeq(list, 1, IF Len(list) > MaxAdverts THEN MaxAdverts ELSE Len(list))

\* A node's adverts in a sequence of adverts, in the same order.
OfNode(adverts, k) ==
    LET taken[i \in 0..Len(adverts)] ==
            IF i = 0 THEN <<>>
            ELSE IF adverts[i].pk = k THEN Append(taken[i - 1], adverts[i])
            ELSE taken[i - 1]
    IN  taken[Len(adverts)]

NewestFirst(list) == [i \in 1..Len(list) |-> list[Len(list) + 1 - i]]

\* The row an advert leaves behind: identity and position are refreshed, the
\* count advances, the set of networks grows, the flags are kept.
Upsert(row, a) ==
    LET old == IF row = NoNode
               THEN [pos |-> NoPos, count |-> 0, networks |-> {}, flags |-> "none"]
               ELSE row
    IN  [pos      |-> IF a.pos # NoPos THEN a.pos ELSE old.pos,
         count    |-> old.count + 1,
         networks |-> old.networks \cup {a.net},
         flags    |-> old.flags]

\* NodeRegistry.Observe: one critical section.
Observe(k, n, p) ==
    LET a == [id |-> heard + 1, pk |-> k, net |-> n, pos |-> p] IN
    /\ up
    /\ heard < MaxHeard
    /\ heard' = heard + 1
    /\ nodes' = [nodes EXCEPT ![k] = Upsert(@, a)]
    /\ latest' = [latest EXCEPT ![k] = Trim(<<a>> \o @)]
    /\ pending' = Append(pending, a)
    /\ dirty' = dirty \cup {k}
    /\ UNCHANGED <<up, nodeLoop, advertLoop, fillVars, scan, tables, crashes>>

-----------------------------------------------------------------------------
\* Mutant of TakeDirty: a tick does not wait for the flush in progress.
TakeDirtyOverlaps ==
    /\ up
    /\ dirty # {}
    /\ nodeBatch' = [k \in PubKey |-> IF k \in dirty THEN nodes[k] ELSE NoNode]
    /\ dirty' = {}
    /\ nodeFlush' = "saving"
    /\ UNCHANGED <<up, nodes, latest, pending, advertLoop, fillVars, scan, tables, bounds>>

\* Mutant of Requeue: the rows of a failed flush are not marked dirty again.
RequeueForgets ==
    /\ nodeFlush = "failed"
    /\ nodeBatch' = NoRows
    /\ nodeFlush' = "idle"
    /\ UNCHANGED <<up, memVars, advertLoop, fillVars, scan, tables, bounds>>

\* The overview flush: TakeDirty, SaveNodes, and Requeue when it failed.
TakeDirty ==
    /\ up
    /\ nodeFlush = "idle"
    /\ dirty # {}
    /\ nodeBatch' = [k \in PubKey |-> IF k \in dirty THEN nodes[k] ELSE NoNode]
    /\ dirty' = {}
    /\ nodeFlush' = "saving"
    /\ UNCHANGED <<up, nodes, latest, pending, advertLoop, fillVars, scan, tables, bounds>>

SaveNodes ==
    /\ nodeFlush = "saving"
    /\ nodesTable' = [k \in PubKey |->
                        IF nodeBatch[k] # NoNode THEN nodeBatch[k] ELSE nodesTable[k]]
    /\ nodeBatch' = NoRows
    /\ nodeFlush' = "idle"
    /\ UNCHANGED <<up, memVars, advertLoop, fillVars, scan, advertsTable, bounds>>

SaveNodesFails ==
    /\ nodeFlush = "saving"
    /\ nodeFlush' = "failed"
    /\ UNCHANGED <<up, memVars, nodeBatch, advertLoop, fillVars, scan, tables, bounds>>

Requeue ==
    /\ nodeFlush = "failed"
    /\ dirty' = dirty \cup {k \in PubKey : nodeBatch[k] # NoNode /\ nodes[k] # NoNode}
    /\ nodeBatch' = NoRows
    /\ nodeFlush' = "idle"
    /\ UNCHANGED <<up, nodes, latest, pending, advertLoop, fillVars, scan, tables, bounds>>

\* Mutant of ClearPending: it empties the buffer instead of dropping the first n.
ClearPendingAll ==
    /\ advertFlush = "saved"
    /\ pending' = <<>>
    /\ advertBatch' = <<>>
    /\ advertFlush' = "idle"
    /\ UNCHANGED <<up, nodes, latest, dirty, nodeLoop, fillVars, scan, tables, bounds>>

\* Mutant of AppendAdverts: the copy is an alias of the live buffer.
AppendAliasedAdverts ==
    /\ advertFlush = "saving"
    /\ advertsTable' = advertsTable \o pending
    /\ advertFlush' = "saved"
    /\ UNCHANGED <<up, memVars, nodeLoop, advertBatch, fillVars, scan, nodesTable, bounds>>

\* The history flush: PendingAdverts copies, AppendAdverts inserts in one
\* transaction, and only then ClearPending drops as many as were copied.
PendingAdverts ==
    /\ up
    /\ advertFlush = "idle"
    /\ pending # <<>>
    /\ advertBatch' = pending
    /\ advertFlush' = "saving"
    /\ UNCHANGED <<up, memVars, nodeLoop, fillVars, scan, tables, bounds>>

AppendAdverts ==
    /\ advertFlush = "saving"
    /\ advertsTable' = advertsTable \o advertBatch
    /\ advertFlush' = "saved"
    /\ UNCHANGED <<up, memVars, nodeLoop, advertBatch, fillVars, scan, nodesTable, bounds>>

AppendAdvertsFails ==
    /\ advertFlush = "saving"
    /\ advertBatch' = <<>>
    /\ advertFlush' = "idle"
    /\ UNCHANGED <<up, memVars, nodeLoop, fillVars, scan, tables, bounds>>

\* ClearPending(n) drops the first n buffered adverts, or all if there are fewer.
ClearPending ==
    LET n == Len(advertBatch) IN
    /\ advertFlush = "saved"
    /\ pending' = IF n >= Len(pending) THEN <<>> ELSE SubSeq(pending, n + 1, Len(pending))
    /\ advertBatch' = <<>>
    /\ advertFlush' = "idle"
    /\ UNCHANGED <<up, nodes, latest, dirty, nodeLoop, fillVars, scan, tables, bounds>>

-----------------------------------------------------------------------------
\* The background backfill: one query per restored public key, ...
LoadRecentAdverts(k) ==
    /\ backfill = "loading"
    /\ k \in todo
    /\ todo' = todo \ {k}
    /\ recent' = [recent EXCEPT ![k] = Trim(NewestFirst(OfNode(advertsTable, k)))]
    /\ UNCHANGED <<up, memVars, nodeLoop, advertLoop, backfill, scan, tables, bounds>>

\* ... the first error of which ends it, ...
LoadRecentAdvertsFails ==
    /\ backfill = "loading"
    /\ todo # {}
    /\ backfill' = "off"
    /\ todo' = {}
    /\ recent' = NoLists
    /\ UNCHANGED <<up, memVars, nodeLoop, advertLoop, scan, tables, bounds>>

\* Mutant of AttachRecentAdverts: it replaces lists that already hold live adverts.
AttachClobbers ==
    /\ backfill = "loading"
    /\ todo = {}
    /\ latest' = [k \in PubKey |->
                    IF nodes[k] = NoNode \/ recent[k] = <<>> THEN latest[k] ELSE Trim(recent[k])]
    /\ backfill' = "off"
    /\ recent' = NoLists
    /\ UNCHANGED <<up, nodes, dirty, pending, nodeLoop, advertLoop, todo, scan, tables, bounds>>

\* Mutant of AttachRecentAdverts: the adverts it attaches are counted again.
AttachCounts ==
    LET filled == {k \in PubKey : nodes[k] # NoNode /\ latest[k] = <<>> /\ recent[k] # <<>>} IN
    /\ backfill = "loading"
    /\ todo = {}
    /\ latest' = [k \in PubKey |-> IF k \in filled THEN Trim(recent[k]) ELSE latest[k]]
    /\ nodes' = [k \in PubKey |->
                   IF k \in filled THEN [nodes[k] EXCEPT !.count = @ + Len(recent[k])]
                   ELSE nodes[k]]
    /\ backfill' = "off"
    /\ recent' = NoLists
    /\ UNCHANGED <<up, dirty, pending, nodeLoop, advertLoop, todo, scan, tables, bounds>>

\* ... then one critical section that fills the lists that are still empty.
AttachRecentAdverts ==
    /\ backfill = "loading"
    /\ todo = {}
    /\ latest' = [k \in PubKey |->
                    IF nodes[k] = NoNode \/ latest[k] # <<>> \/ recent[k] = <<>>
                    THEN latest[k]
                    ELSE Trim(recent[k])]
    /\ backfill' = "off"
    /\ recent' = NoLists
    /\ UNCHANGED <<up, nodes, dirty, pending, nodeLoop, advertLoop, todo, scan, tables, bounds>>

-----------------------------------------------------------------------------
\* Flagger.locationFlags: only networks with a coverage area are judged.
locationFlags(row) ==
    LET evaluated == IF row.pos = NoPos THEN {} ELSE row.networks \cap Areas
        near      == {n \in evaluated : <<n, row.pos>> \in Near}
    IN  CASE evaluated = {}                       -> "none"
          [] evaluated # {} /\ near = {}          -> "far_from_network"
          [] near # {} /\ near # evaluated        -> "network_too_far"
          [] near # {} /\ near = evaluated        -> "none"

\* Flagger.scanOnce reads every node in one critical section (eachNode) ...
ScanFlags ==
    /\ up
    /\ Areas # {}
    /\ scan = NoScan
    /\ scan' = [k \in PubKey |->
                  IF nodes[k] = NoNode THEN Unscanned ELSE locationFlags(nodes[k])]
    /\ UNCHANGED <<up, memVars, nodeLoop, advertLoop, fillVars, tables, bounds>>

\* Mutant of ApplyFlags: changed rows are not marked dirty.
ApplyFlagsClean ==
    /\ scan # NoScan
    /\ nodes' = [k \in PubKey |->
                   IF nodes[k] # NoNode /\ scan[k] # Unscanned
                   THEN [nodes[k] EXCEPT !.flags = scan[k]] ELSE nodes[k]]
    /\ scan' = NoScan
    /\ UNCHANGED <<up, latest, dirty, pending, nodeLoop, advertLoop, fillVars, tables, bounds>>

\* Mutant of ApplyFlags: an empty verdict does not clear a node's flags.
ApplyFlagsNeverClears ==
    LET changed == {k \in PubKey : /\ scan[k] \notin {Unscanned, "none"}
                                   /\ nodes[k] # NoNode
                                   /\ nodes[k].flags # scan[k]}
    IN  /\ scan # NoScan
        /\ nodes' = [k \in PubKey |->
                       IF k \in changed THEN [nodes[k] EXCEPT !.flags = scan[k]]
                                        ELSE nodes[k]]
        /\ dirty' = dirty \cup changed
        /\ scan' = NoScan
        /\ UNCHANGED <<up, latest, pending, nodeLoop, advertLoop, fillVars, tables, bounds>>

\* ... and writes the flags that differ in another (ApplyFlags).
ApplyFlags ==
    LET changed == {k \in PubKey : /\ scan[k] # Unscanned
                                   /\ nodes[k] # NoNode
                                   /\ nodes[k].flags # scan[k]}
    IN  /\ scan # NoScan
        /\ nodes' = [k \in PubKey |->
                       IF k \in changed THEN [nodes[k] EXCEPT !.flags = scan[k]]
                                        ELSE nodes[k]]
        /\ dirty' = dirty \cup changed
        /\ scan' = NoScan
        /\ UNCHANGED <<up, latest, pending, nodeLoop, advertLoop, fillVars, tables, bounds>>

-----------------------------------------------------------------------------
\* The process dies: whatever was only in memory is gone.
Crash ==
    /\ up
    /\ crashes < MaxCrashes
    /\ crashes' = crashes + 1
    /\ up' = FALSE
    /\ nodes' = NoRows
    /\ latest' = NoLists
    /\ dirty' = {}
    /\ pending' = <<>>
    /\ nodeFlush' = "idle"
    /\ nodeBatch' = NoRows
    /\ advertFlush' = "idle"
    /\ advertBatch' = <<>>
    /\ backfill' = "off"
    /\ todo' = {}
    /\ recent' = NoLists
    /\ scan' = NoScan
    /\ UNCHANGED <<tables, heard>>

\* Mutant of Start: the restore forgets the counts the rows were saved with.
StartResetsCounts ==
    LET saved == {k \in PubKey : nodesTable[k] # NoNode} IN
    /\ ~up
    /\ up' = TRUE
    /\ nodes' = [k \in PubKey |->
                   IF k \in saved THEN [nodesTable[k] EXCEPT !.count = 0] ELSE NoNode]
    /\ backfill' = IF saved # {} THEN "loading" ELSE "off"
    /\ todo' = saved
    /\ UNCHANGED <<latest, dirty, pending, nodeLoop, advertLoop, recent, scan, tables, bounds>>

\* main: LoadNodes and Restore, then the backfill of the rows it restored.
Start ==
    LET saved == {k \in PubKey : nodesTable[k] # NoNode} IN
    /\ ~up
    /\ up' = TRUE
    /\ nodes' = nodesTable
    /\ backfill' = IF saved # {} THEN "loading" ELSE "off"
    /\ todo' = saved
    /\ UNCHANGED <<latest, dirty, pending, nodeLoop, advertLoop, recent, scan, tables, bounds>>

\* main: LoadNodes failed; a warning is logged and the registry starts empty.
StartWithoutNodes ==
    /\ ~up
    /\ LoadMayFail
    /\ up' = TRUE
    /\ UNCHANGED <<memVars, nodeLoop, advertLoop, fillVars, scan, tables, bounds>>

NodeLoop   == TakeDirty \/ SaveNodes \/ SaveNodesFails \/ Requeue
AdvertLoop == PendingAdverts \/ AppendAdverts \/ AppendAdvertsFails \/ ClearPending
Backfill   == \/ \E k \in PubKey : LoadRecentAdverts(k)
              \/ LoadRecentAdvertsFails
              \/ AttachRecentAdverts
Flagger    == ScanFlags \/ ApplyFlags

Next ==
    \/ \E k \in PubKey, n \in NetworkID, p \in Position \cup {NoPos} : Observe(k, n, p)
    \/ NodeLoop
    \/ AdvertLoop
    \/ Backfill
    \/ Flagger
    \/ Crash
    \/ Start
    \/ StartWithoutNodes

Spec == Init /\ [][Next]_vars

\* The tickers of the loops keep firing, the backfill goroutine runs to its
\* end, the process is restarted after a crash, and neither the database nor
\* LoadNodes fails for ever.
Fairness ==
    /\ WF_vars(TakeDirty) /\ WF_vars(SaveNodes \/ SaveNodesFails)
    /\ SF_vars(SaveNodes) /\ WF_vars(Requeue)
    /\ WF_vars(PendingAdverts) /\ WF_vars(AppendAdverts \/ AppendAdvertsFails)
    /\ SF_vars(AppendAdverts) /\ WF_vars(ClearPending)
    /\ WF_vars(Backfill)
    /\ WF_vars(ScanFlags) /\ WF_vars(ApplyFlags)
    /\ WF_vars(Start \/ StartWithoutNodes)

FairSpec == Spec /\ Fairness

-----------------------------------------------------------------------------
\* The buffered adverts that are not in the table: all of them, except between
\* the commit of AppendAdverts and ClearPending.
Unpersisted ==
    IF advertFlush = "saved"
    THEN SubSeq(pending, Len(advertBatch) + 1, Len(pending))
    ELSE pending

\* The adverts heard and not lost in a crash, oldest first.
Heard == advertsTable \o Unpersisted

\* The overview rows follow the write-behind protocol of the registries.
Rows == INSTANCE WriteBehind WITH
    Key <- PubKey, Value <- Row, Absent <- NoNode,
    cache <- nodes, flush <- nodeFlush, batch <- nodeBatch, table <- nodesTable

\* The nodes overview implements the shared write-behind protocol: Observe and
\* ApplyFlags mark every row they change dirty, and take, save and requeue
\* interleave with them without losing a change (nodes.go, TakeDirty/Requeue).
RowsAreWriteBehind == Rows!Spec

\* The adverts history as its readers see it.
History == INSTANCE AdvertHistory WITH
    Entry <- Advert, log <- Heard, durable <- Len(advertsTable)

\* Copying, appending and clearing the pending adverts while more arrive stores
\* each advert once, in order, without a gap, and a crash loses only a suffix
\* (nodes.go, PendingAdverts and ClearPending; db.go, AppendAdverts).
HistoryIsPrefixOfHeard == History!Spec

\* A node row whose durable copy is out of date is dirty or in the batch of
\* the flush in progress (nodes.go, TakeDirty and Requeue).
NoLostUpdate ==
    \A k \in PubKey :
        nodes[k] # NoNode /\ nodes[k] # nodesTable[k]
            => k \in dirty \/ nodeBatch[k] # NoNode

\* The strengthening of NoLostUpdate: a copied row is the row's contents unless
\* the row is dirty again; only a flush holds copies; every dirty or copied row
\* is in the registry; a stopped process holds nothing.
RowsInv ==
    /\ NoLostUpdate
    /\ \A k \in PubKey : nodeBatch[k] # NoNode /\ k \notin dirty => nodeBatch[k] = nodes[k]
    /\ nodeFlush = "idle" => nodeBatch = NoRows
    /\ \A k \in PubKey : nodeBatch[k] # NoNode \/ k \in dirty => nodes[k] # NoNode
    /\ ~up => nodes = NoRows

\* The history flush holds a prefix of the buffer, and nothing when it is idle.
HistoryInv ==
    /\ advertFlush = "idle" => advertBatch = <<>>
    /\ advertFlush # "idle" =>
          /\ advertBatch # <<>>
          /\ Len(advertBatch) <= Len(pending)
          /\ advertBatch = SubSeq(pending, 1, Len(advertBatch))
    /\ ~up => pending = <<>> /\ advertFlush = "idle"

\* Row s is row r or a later version of it.
Advanced(r, s) == r.count <= s.count /\ r.networks \subseteq s.networks

\* When loading cannot fail: table, batch and registry hold ever later versions.
VersionsInv ==
    \A k \in PubKey :
        /\ up /\ nodesTable[k] # NoNode =>
              nodes[k] # NoNode /\ Advanced(nodesTable[k], nodes[k])
        /\ nodeBatch[k] # NoNode =>
              /\ Advanced(nodeBatch[k], nodes[k])
              /\ nodesTable[k] # NoNode => Advanced(nodesTable[k], nodeBatch[k])

\* A list holds the newest of some adverts without a gap, newest first.
IsNewestOf(list, adverts) ==
    /\ Len(list) <= Len(adverts)
    /\ list = SubSeq(NewestFirst(adverts), 1, Len(list))

\* A node's rolling list is the newest of its adverts without a gap, newest
\* first: the late backfill neither overwrites nor reorders adverts heard while
\* it was loading (nodes.go, AttachRecentAdverts).
LatestIsNewest == \A k \in PubKey : IsNewestOf(latest[k], OfNode(Heard, k))

\* While a node's list is empty nothing was heard of it since the start, so what
\* the backfill has read of it, however early, is still the newest there is.
BackfillInv ==
    \A k \in PubKey : latest[k] = <<>> =>
        /\ \A i \in 1..Len(pending) : pending[i].pk # k
        /\ IsNewestOf(recent[k], OfNode(Heard, k))

\* While the process has not crashed, a node's advert count is the number of
\* its adverts in the history and the buffer together, and nothing is in the
\* history of a node the registry does not know (nodes.go, Observe).
CountIsHistory ==
    crashes = 0 =>
        \A k \in PubKey :
            Len(OfNode(Heard, k)) = IF nodes[k] = NoNode THEN 0 ELSE nodes[k].count

\* A row of node k counts no more than the node's adverts in the history and the
\* buffer, and those lost in crashes, heard - Len(Heard) in all.
Backed(row, k) ==
    row # NoNode => row.count + Len(Heard) <= Len(OfNode(Heard, k)) + heard

\* Overview and history are flushed by independent loops, so after a crash either
\* may be behind.  But neither a reload of rows whose adverts were lost, nor the
\* backfill of adverts their row has counted, nor a retried flush counts an advert
\* twice: what a row counts and the history lacks was lost in a crash (main.go, the
\* node and advert flush loops; nodes.go, AttachRecentAdverts).
CountsAreBacked ==
    \A k \in PubKey : Backed(nodes[k], k) /\ Backed(nodesTable[k], k)

\* The same of the batch, and no advert is in the history twice.
BackedInv ==
    /\ CountsAreBacked
    /\ \A k \in PubKey : Backed(nodeBatch[k], k)
    /\ Len(Heard) <= heard

\* The first start finds an empty table.
FirstStartInv == crashes = 0 /\ ~up => nodesTable = NoRows

\* The inductive invariant behind the theorems about this module.
IInv ==
    /\ RowsTypeOK
    /\ HistoryTypeOK
    /\ ListsTypeOK
    /\ RowsInv
    /\ HistoryInv
    /\ LatestIsNewest
    /\ BackfillInv
    /\ CountIsHistory
    /\ BackedInv
    /\ FirstStartInv
    /\ ~LoadMayFail => VersionsInv

\* A durable row never disappears, and its advert count never goes back, across
\* flushes, failures, crashes and restarts: "counts and last-seen advance ...
\* and the row is never aged out" (nodes.go, NodeRecord).
DurableRowsAdvance ==
    [][\A k \in PubKey :
          nodesTable[k] # NoNode =>
              /\ nodesTable'[k] # NoNode
              /\ Advanced(nodesTable[k], nodesTable'[k])]_vars

\* Once adverts stop, the periodic scan's flags agree with the position and
\* networks of every node, although a scan applies what it read earlier
\* (flags.go, scanOnce).
FlagsConverge ==
    <>[](\A k \in PubKey : nodes[k] # NoNode => nodes[k].flags = locationFlags(nodes[k]))

Drained ==
    /\ up
    /\ pending = <<>>
    /\ \A k \in PubKey : nodes[k] # NoNode => nodesTable[k] = nodes[k]

\* Once adverts stop, both flush loops drain: every failed flush is retried
\* until the buffer is empty and every row the registry holds is durable
\* (main.go, the node and advert flush loops).
EventuallyDrained == <>[]Drained
=============================================================================
