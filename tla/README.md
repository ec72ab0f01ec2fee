# A TLA+ model of meshcore-ninja-api

The program is one Go process. It reads packets of several mesh networks from one
WebSocket stream, keeps four registries in memory (traffic counters, nodes, observers,
links), writes them behind to two SQLite files, and serves them over HTTP and a live
WebSocket feed. What is hard about it is not the parsing: it is that every registry is
changed by the reader, copied by a flush loop, corrected by background scans, restored
partly in the background and lost at a crash, each of those in its own goroutine.

## 1. Inventory

| Component | State | Operations | Interacts with |
|---|---|---|---|
| Tangleveil reader (`tangleveil.go`) | route snapshot, connected flags | `Run`, `connectAndRead`, `handle`, `RefreshRoutes`, `markAllDisconnected` | hands each packet to the `Collector` of its route; routes point into the store |
| Collector (`collector.go`) | none of its own | `handle`: counters, observers, links, then nodes, with one clock reading | every registry |
| Counters (`metrics.go`, `store.go`) | per network and analyzer: totals, dedup and observer maps, rate ring | `Observe`, `sweep`, `Export`, `Restore`, `Update` | reader, sweep ticker, counter flush, catalog refresh |
| Node registry (`nodes.go`) | rows, rolling advert lists, dirty set, pending adverts | `Observe`, `TakeDirty`/`Requeue`, `PendingAdverts`/`ClearPending`, `AttachRecentAdverts`, `ApplyFlags`, `Restore`, queries | reader, two flush loops, backfill, flagger, hub |
| Flagger (`flags.go`, `netareas.go`) | last scan time | `scanOnce`: read all nodes, then apply flags | node registry, coverage areas |
| Observer registry (`observers.go`) | rows, dirty set | `Observe`, `TakeDirty`/`Requeue`, `Restore` with merge | reader, flush loop |
| Link registry (`links.go`) | sharded rows, two dedup caches | `ObservePathCtx`, `observeLink`, `sweep`, `TakeDirty`/`Requeue`, `Restore` with merge | reader, sweep ticker, flush loop, background restore, routing |
| Database (`db.go`) | `core.db`, `links.db` | one transaction per save, upserts and appends | all flush loops, restores, importer |
| Hub (`live.go`) | clients, recently seen adverts | `Broadcast`, `markSeen`, `add`, `remove`, two pumps per client | node registry hook, HTTP |
| Importer (`importer.go`) | records of the external directory, two tables | `syncOnce`: fetch, replace, save rows and history | database, search, snapshots |
| Snapshotter (`snapshot.go`) | snapshot files, manifest | `generateOnce`, `pruneOld`, serve | importer, node registry, HTTP |
| Routing (`route.go`) | adjacency kept for 15 s | `adjacency`, `Route`, the heap | link registry, HTTP |
| Search (`nodes.go`, `mapquery.go`, `server.go`) | none of its own | `Search`, `matches`, `mergedSearch` | node registry, importer, catalog |
| History pages (`server.go`, `db.go`) | a cursor that the client keeps | `handleNodeAdverts`, `AdvertsForNode` | database |
| Lifecycle (`main.go`) | goroutines and one context | start order, flush loops, shutdown | everything |

What makes each one correct:

- **write-behind (nodes, observers, links)**: a change made while a flush is on its way
  is written by that flush or a later one; a failed flush is retried without putting an
  older copy over a newer one; durable rows do not go back over a restart.
- **adverts history**: each advert is stored once, in the order heard, without a gap;
  a crash loses only a suffix.
- **rolling lists**: the late backfill never overwrites what was heard meanwhile.
- **flags**: stale verdicts do not stick.
- **links**: a packet counts once per direction and dedup window whatever observers and
  networks repeat it; directions add up; every event is counted by some network; a
  background restore neither loses nor repeats persisted counts; position segments
  partition the events and follow the moves.
- **observers**: no report is counted twice, also when ids are re-keyed on load.
- **counters**: a packet is unique once per window and never more often unique than
  observed; totals go on over restarts and catalog refreshes; a rate covers exactly its
  window.
- **routes**: what is routed counts into the counters the API shows; an analyzer whose
  stream is lost ends up showing disconnected.
- **hub**: one pulse per advert and window, no send on a closed channel, no client that
  stays for ever.
- **directory**: whatever save fails and whenever the process dies, memory, table and
  history end up as the external directory is.
- **snapshots**: the manifest names a file that exists, only ever a newer one, and the
  published map catches up with the nodes.
- **routes**: the cheapest path of the graph that is kept, and a kept graph that is
  missing no more than its time to live explains.
- **search**: ranked by the times it shows although records change under it; only nodes
  the filters allow.
- **history pages**: no advert skipped or repeated while the table grows.
- **shutdown**: the last flushes save what was in memory.

The hazards, each at its line and with the properties that guard against it, are listed
in `PROJECT.json`.

## 2. Modules

| Module | Models |
|---|---|
| `WriteBehind` | the abstract protocol the registries share: an arbitrary `Write` that marks what it changes dirty, `TakeDirty`, commit, failure, `Requeue`, crash, reload |
| `WriteBehindProofs` | its inductive invariant, and that the observer registry implements it and counts each report once, proved |
| `AdvertHistory` | the abstract promise of the adverts table: a log of which a growing prefix is durable |
| `NodeRegistry` | `nodes.go`, `flags.go` and their part of `db.go` and `main.go`; refines `WriteBehind` (rows) and `AdvertHistory` (history) |
| `NodeRegistryProofs` | its inductive invariant, what the rolling lists and counts hold, an action property and both refinements, proved |
| `ObserverRegistry` | `observers.go`: extends the protocol with reports and the merging restore |
| `LinkRegistry` | `links.go`, the path part of `collector.go`, `links.db`; refines `WriteBehind` |
| `LinkRegistryProofs` | its inductive invariant, the properties that follow from it and the refinement, proved |
| `Counter` | `metrics.go`: one counter as a value, each critical section as an operator |
| `Store` | `store.go`, the counters table, the sweep goroutine and the counter flush |
| `Ingest` | `tangleveil.go`, the catalog refresher of `main.go` and the counting part of `collector.go`, over `Store` |
| `IngestProofs` | that each operation of `Counter` leaves a counter consistent and its rate exact, the inductive invariants of the counters, the routes and the saved totals in `Ingest` and the properties that follow from them, proved |
| `Hub` | `live.go`: the broadcast step by step, its lock, the clients' reader and writer |
| `HubProofs` | its inductive invariant, and from it that sends are safe and pulses happen once per window |
| `AdvertPages` | keyset paging of a node's history (`server.go`, `db.go`) beside `AppendAdverts` |
| `Directory` | `importer.go`, its tables and the load at startup |
| `MapSnapshots` | `snapshot.go` over `Directory` and the live nodes: generation, manifest, pruning |
| `MapSnapshotsProofs` | its inductive invariant, and from it that the manifest always names a file, proved |
| `RouteCache` | `route.go`, `handleRoute`: requests and the link graph they share, for any search over it |
| `Route` | `route.go`: the heap and the search, with a reference definition |
| `Search` | `GET /api/search` by recency: match, read, merge, rank |
| `ReadProofs` | that the pages are the history as it was at the first page, results are ranked and kept graphs fresh, proved |
| `FoldLemmas` | sums over finite sets, and least counterexamples in place of induction, for the proofs of the registries |
| `Shutdown` | the end of `main.go`: signal, last flushes, server, closing of the databases |
| `MCNodeRegistry`, `MCObserverRegistry`, `MCLinkRegistry`, `MCIngest` | constants for TLC |
| `MCLinks` | two scenarios of one link, so that their state spaces add |
| `MCCounters` | `MCIngest` with an action constraint: long histories without a flush, shorter ones with flushes and a crash |
| `MCComponents` | the smaller components side by side: in each behaviour one of them runs (`part`) |
| `MCShutdown`, `MCSearch` | constants for the disagreements of section 6 |

**How actions correspond to code.** One action is one critical section of a registry
mutex, one SQLite transaction or one query; a flush loop is therefore three actions
(copy, save or fail, requeue), a flag scan two (`eachNode`, `ApplyFlags`), the advert
backfill one per query and one for the attach. The reader is one goroutine, so the hops
of a packet are recorded in order and no advert moves a node between them; everything
else interleaves. A shard of the link registry is a lock. Passes over all shards
(`sweep`, `TakeDirty`, `Requeue`) are one action: the steps on different links commute,
and a link lives in one shard. `RestoreLink` is one action per link, because it is there
that live and persisted rows race.

**Node rows** keep position, advert count, networks and flags: the fields by which a
later version of a row can be told from an earlier one. Name, type, coordinates as
numbers, and the reporting observer are refreshed in the same way as the position and
are left out. An advert is its arrival number with its key, network and position.
`Near` stands for `NetworkAreas.DistanceKM <= farKM`.

**Link records** keep the tallies (count, two directions, low confidence, first and last
seen) of the link and of each network, the counts by route type, and the position
segments. The list of networks is a function in which a zero tally means "not listed".
Left out so far: SNR histories, last hashes, the decayed score.
`heardAt` is a history variable: the dedup cache as if it were never swept.

**Counters and objects.** `Store.Update` replaces `NetworkState` and `AnalyzerState`
objects and hands the counters on, while routes and snapshots still point at old ones.
So counters live in a heap: a counter is named by the catalog update that created it and
its scope, an `AnalyzerState` by the update that created the object. `born` gives the
counters the store exposes, `gen` the objects. A route holds one object and two
counters. A packet is three steps (route and clock, the analyzer's counter, the
network's), a sweep or an export one step per counter after taking the list of networks.
The clock is in seconds; dedup and gauge maps are functions in which 0 means "absent".
The order among a network's analyzers, and among the sources of an answer, is left open.
`fetchRoutes` looks up each source separately, so the reader's table may mix two
catalogs. `heardAt` and `uniqueAt` are history variables, which no guard reads.
`dropped` is read by one: with `MayReturn = FALSE` the catalogs the environment offers
never bring back a scope that left, with `MayReturn = TRUE` they may.
Left out: per-observer statistics, names, timestamps and error texts of connections.

**The feed.** `Broadcast` is split where it takes and releases the lock and at each
client, because `add` and `remove` wait for the lock while the pumps do not. A client
that a `Send` finds full misses the frame. The expiry of a mark is kept, and next to it
the history variable `pulsedAt`, the time of the last pulse, which no purge removes.

**Directory and snapshots.** An entry of the directory is what `historySig` tells apart,
and `last_advert`, which moves without it. A feed names a key once: `importer.go:166`
keeps duplicates in memory as they are, and no property is about them. `MapSnapshots` extends `Directory`: a snapshot
reads the records, then the live nodes, so the two may be of different moments. A file is
what its map shows; its name is the second, and names sort as seconds do. Every call of
the file system may fail and the files outlive the process.

**Routes.** The graph is rebuilt link by link while links are heard. `Push`, `SiftUp`
and `SiftDown` translate the heap of `route.go` index by index; the search over it is one
action, checked against `RouteIsCheapest`'s reference, a minimum over all simple paths.
A request reads the clock once, `handleRoute` for the lookback and for the search.
`EdgeCost` is a constant: the formula of the cost is left open, except that costs are
positive.

**Search.** The hits are chosen under the lock and read through pointers after it, one by
one. Keys are numbers in the order in which they sort. The text and its ranks, the other
orders and the filters on role and flags are left out.

**Refinement of the link registry.** While the background restore runs, a persisted link
that is not merged yet is shown as if it were (`Shown`). Under that mapping merging is a
stutter and an observation is an ordinary `Write`; the gate `linkRestoreDone` is what
makes it true, because a flush that does not wait would write partial counters
(that is the mutant `TakeDirtyEarly`).

## 3. Runs

| Run | Instance | Shows |
|---|---|---|
| `node_flush` | 2 nodes, 4 adverts, 1 crash, rolling list of 2 | types and the cap of the rolling lists, no lost row, rolling lists, counts before and after a crash, durable rows, history refinement |
| `node_flags` | 1 node, 2 networks, 2 positions, 2 adverts, 1 crash, loads may fail | row refinement, convergence of flags, draining of both loops |
| `links` | 1 link, 1 crash, window 1. "counts": paths in one and in both directions, 2 networks, 2 kinds of packets, 1 hash, 3 packets, 3 ticks. "moves": 2 positions, 2 hashes, 3 packets, loads may fail | the inductive invariant, directions, networks, dedup, refinement, position segments |
| `counters` | 1 network, 1 analyzer, packets with and without an observer, window 1, ring of 2. Before the first flush: 4 packets, 4 seconds, statistics requests. From it on: 3 seconds, counter flush, 1 crash, 2 packets (1 after the crash) | types, dedup, packet rate, totals, gauges, durable totals |
| `ingest_routes` | 2 analyzers, 2 sources, 2 catalog updates, 2 lost connections, 1 packet | routes, connection status |
| `components` | one part per behaviour, below | the properties of the smaller components |
| `node_load_fails`, `link_restore`, `observer_legacy`, `ingest_returning`, `shutdown`, `search_countries` | minimal | disagreements with the documentation, see 6 |

The parts of `components`:

| Part | Instance | Shows |
|---|---|---|
| `observers` | 2 observers, 3 reports each, any number of crashes, loads may fail | the protocol's inductive invariant, `CountsReportsOnce`, `EventuallyDurable` |
| `hub` | 2 clients with channels of 1 frame, 2 adverts, browsers that stall or leave | `NoSendAfterClose`, `ClientsLeave` |
| `feed` | 1 client, 4 adverts of two keys or none, 3 seconds, window 2 | `PulsesOncePerWindow` |
| `pages` | 2 nodes, batches of 1 or 2, pages of 1 or 2, 5 adverts | `PagesAreHistory` |
| `routes` | 6 nodes, 9 links, 4 of them in every combination of three states and 2 of two, 4 queries, one from a node to itself | `RouteIsCheapest` |
| `route cache` | 2 requests over links heard meanwhile, 3 ticks | `RouteMissesOnlyNews` |
| `directory` | 1 key and the empty key, 2 publishes, 2 edits, 1 crash | `MCEventuallyCaptured` |
| `snapshots` | 3 names, 1 key, 1 flag, 1 edit, 1 crash, every file operation may fail | `SnapshotsResolve`, `MCSnapshotsConverge` |
| `search` | 2 keys, 2 networks, every combination of live and directory nodes, 1 advert | `SearchIsRanked` |

**Why these bounds are enough.** Rows of different keys touch only in the flush loop,
whose batch is a set of keys: two keys show every overlap of a batch with newer changes.
The rolling list holds 2 of 4 adverts, so it overflows. One crash allows a restart that
restores a table and hears more; observers crash without bound. The link clock has three
values and a window of 1, so an entry can be fresh, at the boundary and expired, and one
packet hash can be heard, refreshed, expired and counted again, with the sweep before or
after the repetition; two networks are what makes the two caches differ. For the counters, an analyzer and its network are two counters that hear each packet
at different times, the window, the gauges' time to live and the ring are all shorter
than the clock, so entries survive a sweep, expire in one and come back; a packet with
and one without an observer fall under one hash and two observation keys. Two catalogs
that differ by an analyzer, and two answers of `/sources` that differ by a source, let an
analyzer be added, removed, routed before and after its object is replaced, and
unrouted. In the feed two keys are what lets the repetition of one purge the mark of
another, and a channel of one frame is full after one send. Five adverts allow three
pages with batches appended between them. The graph of the routes has four ways through
neighbours and one edge between two of them, so the heap holds up to five items, with
equal costs and with outdated ones, and is reordered in both directions. Three names of
snapshots are one more than pruning keeps. `DEADLOCK` is
not checked because the bounds on adverts, packets and time make every instance stop.

The steps of `MCComponents` say which interleavings of the environment are left out:
for instance, in `snapshots` the clock and the directory move while nobody is about to
read them, and crashes fall into the making of a snapshot. The component's own steps are
never restricted, except that `buildAdjacency` comes to the links in one order.

**Fairness.** Tickers keep firing and goroutines are scheduled: weak fairness on taking,
on ending a save and on the requeue that follows a failure, on the backfill, the scan
and the restart. Saves may fail any number of times, but not for ever: strong fairness
on `SaveNodes`, `AppendAdverts` and `SaveCommits`. Without the latter nothing could be
durable; the code has no other remedy than to retry. For the stream
(`DownIsShown`) the reader and the refresher take their steps, a dial ends either way,
and `/sources` answers now and then (strong fairness on `FetchRoutes` of the reader):
with an answer that never comes the old routes would be kept for ever. In the feed the broadcast
and both pumps of a client are scheduled (weak fairness): every wait has a deadline, and
the lock is held for a fan-out that waits for nobody. The importer and the snapshotter
have tickers (weak fairness on their next step), the clock advances, and a save, a file
or a manifest that can be written again and again is written some time (strong fairness).
`MCComponents` states the same fairness for the part that runs. Nothing is
assumed about adverts, reports, packets, edits of the directory or crashes.

## 4. Proofs

All proofs are for every value of the constants: any number of keys, networks,
positions, any cap of the rolling list, any window, ring and bounds.

**Induction over data.** What a sum over networks or a filtered sequence is cannot be
proved by induction here, but it can be proved by a smallest counterexample: among the
subsets of a finite set on which a claim fails one includes no other (`Smallest`), among
the lengths at which it fails one is least (`LeastNat`), and one step before it the claim
holds. `FoldLemmas` proves both and, from the first, that a sum over a finite set is the
value at one element and the sum over the rest, that it is a natural number, and that it
is monotone and additive. The node registry uses the second for what `OfNode` and
`Trim` make of a longer history.

- `WriteBehindProofs`: `Invariance` and `UpdatesAreKept`. `NoLostUpdate` (a row whose
  table copy is out of date is dirty or in the batch) is not inductive: a commit might
  write an old copy. `BatchIsCurrent` strengthens it: the copy is the current contents
  unless the row is dirty again. `HeldRows` says that only a flush holds a batch.
  The observer registry extends the protocol. While no row of an older version is merged
  (`Legacy = NoRows`, which `observer_legacy` shows to be necessary), each of its steps is
  a step of the protocol (`ObserversAreWriteBehind`), and `ReportsCountOnce` follows from
  `ObserverInv`: the batch and the table count no report twice either, so neither a
  requeue nor a restart can bring one back. `ObserverRows` says what `Value` is there;
  `MCComponents` assumes it of the instance it checks, and TLC evaluates it.
- `NodeRegistryProofs`: the same argument for the concrete registry (`RowsInv`), with
  `HistoryInv` (the batch of the history flush is a prefix of the growing buffer) and
  `VersionsInv` (table, batch and memory hold ever later versions). From them follow
  `RowUpdatesAreKept`, `DurableRowsNeverGoBack` (assuming that loads do not fail, which
  `node_load_fails` shows to be necessary), `HistoryRefinement` and `RowsRefinement`.
  `LatestAreNewest` says that a rolling list is the newest of the node's adverts among
  all that were heard, in the table and in the buffer. An advert of a node adds
  one in front and drops one past the cap; the difficult step is the backfill,
  whose query for a node may be answered before the reader hears it again.
  `BackfillInv` says what makes it harmless: as long as a node's list is empty, none of
  its adverts is in the buffer, so what was read is still the newest.
  `CountsAreHistory` needs that the first start finds an empty table (`FirstStartInv`).
  After a crash the overview and the history, flushed by independent loops, need not
  agree; `CountsStayBacked` says how far they may differ: no row counts more than its
  adverts in the history and those lost in crashes. `BackedInv` adds the batch, which a
  later flush writes. The difficult step is the crash itself: the history then loses at
  most as many adverts of one node as of all nodes (`OfNodeGrows`).
- `LinkRegistryProofs`: `Directions` (every event of a link has one direction) is kept by
  each operation on one record, live count, restore merge and upsert alike.
  `CountsOncePerWindow` needs `DedupInv`: an entry that is gone was last refreshed longer
  ago than the window, and the entry of a hop holds the time at which it was last heard.
  `EventsHaveNetworks` sums the events of the networks. Its difficult step is a packet the
  link counts: the network counts it too, because by `DedupInv` each network's entry is
  backed by a global one that is at least as fresh. A restore merges network by network
  and a save keeps the networks the new row has not; both sums are sums of the merged
  values. `SegmentsShare` sums the events of the segments, which a move appends to and a
  merge joins. `FirstSegmentsInOrder` needs that nothing is restored in the first life of
  the process (`FirstLifeInv`) and that no record holds a time later than the packet.
  `NetworkID` is finite for this (`FiniteAssumption`), as any catalog is.
  `RowsRefinement` reads a link through `Shown`, what the registry will hold once the
  background restore has merged it, so an observation is a `Write`, merging a link
  changes nothing, and `SaveLinks`, which keeps the earlier first and the later last time
  and the networks the new row has not, must be an overwrite. It is one because the batch
  covers the row of the table (`VersionsInv`: counts and times of a later version are not
  smaller) and because no record holds a time later than the packet being handled
  (`TimesInv`). A load that fails breaks `VersionsInv`, so both hold only while loads
  succeed; the flush gate (`FlushInv`) and the directions do not depend on it.
- `IngestProofs`: `UniqueAreObserved` (unique <= observations) is not inductive: a packet
  whose hash is new but whose observation is not would break it. `DedupOK` excludes that
  case, an entry of a hash is as recent as the latest of its observations, and it is
  kept only because packets are counted in the order of their times. `IInv` therefore
  says up to which time (`Horizon`) counters and saved rows have heard: the time of the
  packet being handled, which the one reader goroutine took before. `EntriesInv` ties
  the dedup map to `heardAt`: an entry is missing only if the hash was last heard longer
  ago than the window. The first part of the module shows for each operation on one
  counter that it stays consistent. There follow `UniquePacketsAreObserved`,
  `DedupMapsAgree`, `ObserversStayNodes` and `UniqueOncePerWindow`.
  `RateExact` says that the slot of each second of the ring's window holds the unique
  packets heard in that second. `RateOK` is its part about one counter: a ring nobody
  has counted in is all zero, and nothing was counted after the ring's last second.
  `RateSecs` consecutive seconds fall on different slots, so advancing clears exactly the
  slots of the seconds skipped, also when a request has advanced the ring past a packet
  that is counted later. That packet still has its slot, since `RatesInv` says that a
  packet is counted before its second leaves the ring, which is the bound `Tick` names.
  Restored counters start with an empty ring, so `RatesInv` speaks of what a counter
  heard since, and a stopped process has heard nothing.
  `RoutesInv` is about the pointers the reader holds: every scope of the catalog has a
  counter, and a counter that `deref` or the packet being handled points to is the one
  in the store, or its scope was dropped for good. From its first half, with `IInv`,
  follow the types, and from the second `RoutesCountIntoStore`. The second half needs
  that no scope comes back (`~MayReturn`); `ingest_returning` shows why.
  `SavedTotalsInv` is the argument for `DurableTotalsAdvance`: the batch covers the
  table, and each counter from which a batch may still be taken covers both, so a save
  never lowers a total. It holds while no scope comes back and loads succeed.
- `HubProofs`: `NoSendAfterClose` needs that the clients are exactly those whose
  `readPump` has not removed them, that the closed channels are those it has, and that a
  fan-out stays among the clients, which the lock gives (`ClientsInv`).
  `PulsesOncePerWindow` needs that a mark says when its key was last pulsed and that a
  mark that is gone had expired (`SeenInv`).
- `ReadProofs`: what was shown of a history is the part between the cursor and
  the horizon (`ShownIsNewest`, `CursorInv`). The step needs two facts about
  `ORDER BY id DESC LIMIT n`: a page leaves out nothing newer than what it shows, and a
  page that is not full shows all there is (`ShortPageIsAll`), from which the code
  concludes that there is no next page.
  `ResultsAreRanked` needs that the merge sees one hit of each key, so that any two hits
  are ordered; a hit's place is then the number of hits before it, and counting shows
  that the places are 1 up to the number of hits, each taken once (`RankedSorts`).
  `GraphsAreFresh` is proved for any search: `BuildInv` says that a link the builder has
  come to is in the graph as it is, or was heard since the request came, and `CacheInv`
  that the same holds of the kept graph since the time it is said to be from.  That is
  why `builtAt` must be the time of the request and not the end of the build (the mutant
  `EndBuildLate`).
- `MapSnapshotsProofs`: `SnapshotsResolve` is not inductive, because `pruneOld` goes by
  names and not by the manifest. `SnapInv` says why that is enough: no name is later than
  the clock, a file being made is not older than any other, the manifest is the newest
  while older files are pruned, and a file that is to be removed has two newer ones.

The assumptions are those the modules state about their constants (`NoNode` is no row,
the cap is positive, ...); TLC evaluates them in every run.

**Only model-checked**: liveness (`EventuallyDurable`, `EventuallyDrained`,
`FlagsConverge`, `DownIsShown`, `ClientsLeave`, `EventuallyCaptured`,
`SnapshotsConverge`), which is out of this prover's reach, and `RouteIsCheapest`, whose
heap and search are recursive operators. Every other property of a passing run is proved.

## 5. Not modelled

Formatting, HTML, telemetry, configuration parsing and the migration
script have no state the properties could be about. The contents of a packet are decoded
before the model begins: a path is given, with what `normalizePub` makes of its entries.
SQLite is trusted to commit or to roll back a transaction as a whole. Of the HTTP
handlers, those that read one registry under its lock and write JSON are left out
(statistics, nodes, links, observers, prefixes, the serving of snapshots); `MapQuery` is
called by tests only. Of the search, text ranks and the other orders are left out: they
are pure functions of one copied record. A clock that steps back is left out as well:
dedup entries would then live longer than their window, and a snapshot would get a name
below older ones, so `pruneOld` (`snapshot.go:259`) would remove the file the manifest
names.

## 6. Disagreements found

1. `node_load_fails`: a failed `LoadNodes` is logged and ignored (`main.go:94-95`). The
   registry starts empty, and the first flush of a known node replaces its persisted
   row by one with a count of 1 and one network, although `nodes.go:44-48` says that
   counts advance and the set of networks grows. `LoadLinks` has the same consequence.
2. `link_restore`: `Restore` was written to run "before any collector runs"
   (`links.go:794-795`) but runs beside the reader (`main.go:156-178`). A link heard
   before it is merged gets its persisted current segment as history although no
   endpoint moved, and `Moved` (`links.go:599`) reports a move.
3. `observer_legacy`: rows persisted under non-canonical ids are merged into the
   canonical one at each start; the merged row is written under the canonical id and the
   other one stays (`db.go:776-808`), so each restart adds it again, although the merge
   is there "so counts stay correct" (`observers.go:209-210`).
4. `ingest_returning`: "totals and gauges continue across restarts" (`README.md:226-228`),
   but `Restore` runs once and ignores scopes the catalog lacks at that moment
   (`store.go:197-210`), and `Update` starts a scope that comes back at zero
   (`store.go:84`). The next flush writes the small totals over the saved ones.
   In `counters`, where the catalog stays and loads do not fail, durable totals
   never go back.  (A failed `Load` loses them too, as it does nodes.)
5. `shutdown`: "final flush captures the latest state before exit" (`main.go:224`), but
   nothing waits for the flush goroutines. `srv.Shutdown` makes `ListenAndServe` return
   at once (`main.go:341`), the deferred `db.Close` (`main.go:83`) runs and the process
   ends, before a loop has taken its copy, while it saves, or, for links, after it has
   skipped the flush because the restore was not over (`main.go:284`).
6. `search_countries`: a country and a region that no network has together, or that none
   of the networks asked for has, leave an empty set of networks
   (`server.go:918-926`), and an empty set is no filter (`mapquery.go:255`): every live
   node is listed.

One more is stated in `Search` and has no run: "live nodes win on duplicate public keys"
(`server.go:1133`), but the merge knows only the live nodes that passed the filter, so a
live node without coordinates is listed from the directory in a search for located
nodes, and so is one that is first heard between the two reads (`LiveWins`).

## 7. Plan

In order of importance:

1. Connection status the other way round: while the stream is read, an analyzer shows
   connected if and only if a source is routed to it (`README.md:30`, `README.md:415`).
   A source that disappears leaves its analyzer connected, one that is added by a
   refresh stays disconnected until the next dial: a candidate disagreement.
2. `RouteIsCheapest`, for every graph: the heap and the search as recursive functions or
   as steps, the heap order as the invariant of `SiftUp` and `SiftDown`, and the distances
   of the nodes that are done as the invariant of the search.
3. The other way round for searches: every node that passes the filters through all of a
   search is listed or ranks behind what is (`Search`, with the directory).
