------------------------------- MODULE Ingest -------------------------------
(***************************************************************************)
(* From the stream to the counters: the reader of the Tangleveil stream    *)
(* (tangleveil.go), the catalog refresher (main.go) and the part of the    *)
(* collector that feeds the counters (collector.go), over the store.       *)
(*                                                                         *)
(* The two goroutines share the routing table.  A route points at objects  *)
(* of the store, and may outlive them: the refresher replaces the objects  *)
(* first and the routes later, the reader works on snapshots.              *)
(***************************************************************************)
EXTENDS Store

CONSTANTS
    Source,      \* ids of Tangleveil sources
    Sources,     \* the answers /sources may give: source -> <<network, index>>
    Packet,      \* the packets that may be read, without the time
    NoPacket,
    MaxPackets,  \* bound: packets between two starts
    MaxDrops     \* bound: lost connections between two starts

Mapping == NetworkID \X Int

ASSUME SourcesAssumption ==
    \A a \in Sources : DOMAIN a \subseteq Source /\ \A s \in DOMAIN a : a[s] \in Mapping
ASSUME PacketAssumption ==
    Packet \subseteq [hash     : Hash,
                      observer : Observer \cup {NoObserver},
                      nodes    : SUBSET Node,
                      type     : PayloadType \cup {NoType}]
ASSUME StreamBoundsAssumption == MaxPackets \in Nat /\ MaxDrops \in Nat

\* Collector: where the packets of a source go.
Route == [object : AzObject, az : CounterId, net : CounterId]

Reading == [route : Route, ev : Event, next : {"az", "net"}]
ASSUME NoPacketAssumption == NoPacket \notin Reading

Fetcher == {"reader", "refresher"}

VARIABLES
    routes,    \* the routing table: source -> route
    phase,     \* what the reader and the refresher do
    marking,   \* objects the reader has yet to mark connected or disconnected
    packet,    \* the packet the reader is handling, or NoPacket
    asked,     \* Fetcher -> mappings of the answer it has yet to resolve
    fetched,   \* Fetcher -> the routes it has resolved
    packets,   \* packets read since the start
    drops      \* connections lost since the start

readerVars == <<routes, phase, marking, packet, asked, fetched, packets, drops>>
vars       == <<storeVars, readerVars>>

NoRoutes == <<>>
Routed   == {routes[s].object : s \in DOMAIN routes}

ReaderPhase    == {"off", "dialing", "connected", "closing", "failing", "resolving"}
RefresherPhase == {"idle", "updated", "resolving"}

Partial(S, T) == UNION {[D -> T] : D \in SUBSET S}

TypeOK ==
    /\ StoreTypeOK
    /\ routes \in Partial(Source, Route)
    /\ phase["reader"] \in ReaderPhase
    /\ phase["refresher"] \in RefresherPhase
    /\ marking \in SUBSET AzObject
    /\ packet \in Reading \cup {NoPacket}
    /\ DOMAIN asked = Fetcher /\ \A who \in Fetcher : DOMAIN asked[who] \subseteq Source
    /\ fetched \in [Fetcher -> Partial(Source, Route)]
    /\ packets \in 0..MaxPackets
    /\ drops \in 0..MaxDrops

Init ==
    /\ StoreInit
    /\ routes = NoRoutes
    /\ phase = [who \in Fetcher |-> IF who = "reader" THEN "off" ELSE "idle"]
    /\ marking = {}
    /\ packet = NoPacket
    /\ asked = [who \in Fetcher |-> NoRoutes]
    /\ fetched = [who \in Fetcher |-> NoRoutes]
    /\ packets = 0
    /\ drops = 0

-----------------------------------------------------------------------------
\* A mapping of /sources is skipped if it names a network that is filtered out
\* or an analyzer the catalog does not have.
Resolves(m, c) ==
    /\ Only = {} \/ m[1] \in Only
    /\ \E i \in DOMAIN c : c[i].id = m[1] /\ m[2] + 1 \in DOMAIN c[i].analyzers

\* resolveMapping: the collector of a mapping, for a catalog installed by
\* update g and the counters of b.
resolveMapping(m, c, g, b) ==
    LET ns == c[CHOOSE i \in DOMAIN c : c[i].id = m[1]]
        az == <<m[1], ns.analyzers[m[2] + 1]>>
    IN  [object |-> <<g, az>>, az |-> <<b[az], az>>, net |-> <<b[m[1]], m[1]>>]

MayFetch(who) ==
    \/ who = "reader" /\ phase[who] = "failing" /\ marking = {}
    \/ who = "refresher" /\ phase[who] = "updated"

\* Mutant of AfterFetch: the reader does not dial again.
AfterFetchIdle(who) == "idle"

AfterFetch(who) == IF who = "reader" THEN "dialing" ELSE "idle"

\* fetchRoutes: the answer of /sources, ...
FetchRoutes(who, answer) ==
    /\ MayFetch(who)
    /\ phase' = [phase EXCEPT ![who] = "resolving"]
    /\ asked' = [asked EXCEPT ![who] = answer]
    /\ UNCHANGED <<storeVars, routes, marking, packet, fetched, packets, drops>>

\* ... or none, which leaves the routes as they are.
FetchFails(who) ==
    /\ MayFetch(who)
    /\ phase' = [phase EXCEPT ![who] = AfterFetch(who)]
    /\ UNCHANGED <<storeVars, routes, marking, packet, asked, fetched, packets, drops>>

\* Each mapping is looked up in the store as it is then.
ResolveSource(who, s) ==
    LET answer == asked[who]
    IN  /\ s \in DOMAIN answer
        /\ asked' = [asked EXCEPT ![who] = [t \in DOMAIN answer \ {s} |-> answer[t]]]
        /\ fetched' = [fetched EXCEPT ![who] =
                         IF ~Resolves(answer[s], catalog) THEN @
                         ELSE [t \in DOMAIN @ \cup {s} |->
                                 IF t = s THEN resolveMapping(answer[s], catalog, gen, born)
                                 ELSE @[t]]]
        /\ UNCHANGED <<storeVars, routes, phase, marking, packet, packets, drops>>

\* RefreshRoutes installs what was resolved, unless nothing was.
RefreshRoutes(who) ==
    /\ phase[who] = "resolving"
    /\ DOMAIN asked[who] = {}
    /\ routes' = IF DOMAIN fetched[who] = {} THEN routes ELSE fetched[who]
    /\ fetched' = [fetched EXCEPT ![who] = NoRoutes]
    /\ phase' = [phase EXCEPT ![who] = AfterFetch(who)]
    /\ UNCHANGED <<storeVars, marking, packet, asked, packets, drops>>

\* refreshNetworks: a tick with a valid catalog.
UpdateNetworks(c) ==
    /\ phase["refresher"] = "idle"
    /\ Update(c)
    /\ phase' = [phase EXCEPT !["refresher"] = "updated"]
    /\ UNCHANGED <<routes, marking, packet, asked, fetched, packets, drops>>

-----------------------------------------------------------------------------
\* connectAndRead: a successful dial; the collectors to mark are a snapshot.
Dial ==
    /\ phase["reader"] = "dialing"
    /\ phase' = [phase EXCEPT !["reader"] = "connected"]
    /\ marking' = Routed
    /\ UNCHANGED <<storeVars, routes, packet, asked, fetched, packets, drops>>

\* Mutant of DialFails: only a connection that was up is marked as lost.
DialFailsUnmarked ==
    /\ phase["reader"] = "dialing"
    /\ phase' = [phase EXCEPT !["reader"] = "failing"]
    /\ marking' = {}
    /\ UNCHANGED <<storeVars, routes, packet, asked, fetched, packets, drops>>

\* A failed dial: Run marks a snapshot of the collectors.
DialFails ==
    /\ phase["reader"] = "dialing"
    /\ phase' = [phase EXCEPT !["reader"] = "failing"]
    /\ marking' = Routed
    /\ UNCHANGED <<storeVars, routes, packet, asked, fetched, packets, drops>>

\* setConnected or setDisconnected of one collector.
MarkAnalyzer(o) ==
    /\ o \in marking
    /\ marking' = marking \ {o}
    /\ connected' = [connected EXCEPT ![o] = phase["reader"] = "connected"]
    /\ UNCHANGED <<up, now, catalogVars, countVars, sweepVars, flushVars, table, crashes,
                   routes, phase, packet, asked, fetched, packets, drops>>

\* The connection is lost: the deferred markAllDisconnected takes a snapshot, ...
ReadFails ==
    /\ phase["reader"] = "connected"
    /\ marking = {}
    /\ packet = NoPacket
    /\ drops < MaxDrops
    /\ drops' = drops + 1
    /\ phase' = [phase EXCEPT !["reader"] = "closing"]
    /\ marking' = Routed
    /\ UNCHANGED <<storeVars, routes, packet, asked, fetched, packets>>

\* ... and then the one of Run another.
ConnectFailed ==
    /\ phase["reader"] = "closing"
    /\ marking = {}
    /\ phase' = [phase EXCEPT !["reader"] = "failing"]
    /\ marking' = Routed
    /\ UNCHANGED <<storeVars, routes, packet, asked, fetched, packets, drops>>

-----------------------------------------------------------------------------
\* handle: the route is looked up once, the time is read once; a packet of a
\* source without a route is dropped.
ReadPacket(s, p) ==
    /\ phase["reader"] = "connected"
    /\ marking = {}
    /\ packet = NoPacket
    /\ packets < MaxPackets
    /\ s \in DOMAIN routes
    /\ packet' = [route |-> routes[s],
                  ev    |-> [hash |-> p.hash, observer |-> p.observer, nodes |-> p.nodes,
                             type |-> p.type, at |-> now],
                  next  |-> "az"]
    /\ packets' = packets + 1
    /\ UNCHANGED <<storeVars, routes, phase, marking, asked, fetched, drops>>

\* NetworkState.Observe: the analyzer's counter, then the network's.
ObservePacket ==
    /\ packet # NoPacket
    /\ ObserveIn(packet.route[packet.next], packet.ev)
    /\ packet' = IF packet.next = "az"
                  THEN [route |-> packet.route, ev |-> packet.ev, next |-> "net"]
                  ELSE NoPacket
    /\ UNCHANGED <<up, now, catalogVars, connected, sweepVars, flushVars, table, crashes,
                   routes, phase, marking, asked, fetched, packets, drops>>

-----------------------------------------------------------------------------
\* main: the store with its persisted totals, then the first routes; without
\* routes the program ends.
Start(c, answer, saved) ==
    /\ StoreStarts(c, saved)
    /\ {s \in DOMAIN answer : Resolves(answer[s], c)} # {}
    /\ routes' = [s \in {t \in DOMAIN answer : Resolves(answer[t], c)} |->
                    resolveMapping(answer[s], c, 0, born')]
    /\ phase' = [phase EXCEPT !["reader"] = "dialing"]
    /\ UNCHANGED <<marking, packet, asked, fetched, packets, drops>>

Crash ==
    /\ StoreCrashes
    /\ routes' = NoRoutes
    /\ phase' = [who \in Fetcher |-> IF who = "reader" THEN "off" ELSE "idle"]
    /\ marking' = {}
    /\ packet' = NoPacket
    /\ asked' = [who \in Fetcher |-> NoRoutes]
    /\ fetched' = [who \in Fetcher |-> NoRoutes]
    /\ packets' = 0
    /\ drops' = 0

\* Time passes; a packet is handled in less time than the rate window.
Tick ==
    /\ now < MaxTime
    /\ packet # NoPacket => now + 1 - packet.ev.at < RateSecs
    /\ now' = now + 1
    /\ UNCHANGED <<up, catalogVars, countVars, connected, sweepVars, flushVars, table,
                   crashes, readerVars>>

-----------------------------------------------------------------------------
SavedAtStart == IF LoadMayFail THEN {table, NoStates} ELSE {table}

Fetch(who) ==
    \/ \E answer \in Sources : FetchRoutes(who, answer)
    \/ FetchFails(who)
    \/ \E s \in Source : ResolveSource(who, s)
    \/ RefreshRoutes(who)

Connection ==
    \/ Dial
    \/ DialFails
    \/ \E o \in AzObject : MarkAnalyzer(o)
    \/ ReadFails
    \/ ConnectFailed

Next ==
    \/ Connection
    \/ \E who \in Fetcher : Fetch(who)
    \/ \E c \in Catalog : UpdateNetworks(c)
    \/ \E s \in Source, p \in Packet : ReadPacket(s, p)
    \/ ObservePacket
    \/ Sweep /\ UNCHANGED readerVars
    \/ Flush /\ UNCHANGED readerVars
    \/ \E id \in CounterId : Snapshot(id) /\ UNCHANGED readerVars
    \/ \E c \in Catalog, answer \in Sources, saved \in SavedAtStart : Start(c, answer, saved)
    \/ Crash
    \/ Tick

Spec == Init /\ [][Next]_vars

\* The reader and the refresher keep running; a dial ends, in success or not;
\* /sources answers now and then.
Fairness ==
    /\ WF_vars(Dial \/ DialFails)
    /\ WF_vars(\E o \in AzObject : MarkAnalyzer(o))
    /\ WF_vars(ConnectFailed)
    /\ \A who \in Fetcher : WF_vars(Fetch(who))
    /\ SF_vars(\E answer \in Sources : FetchRoutes("reader", answer))

FairSpec == Spec /\ Fairness
-----------------------------------------------------------------------------
\* Every total there is, in memory, on its way and in the database.
Totals == {counters[id] : id \in CounterId}
          \cup {batch[s] : s \in {t \in Scope : batch[t] # NoState}}
          \cup {table[s] : s \in {t \in Scope : table[t] # NoState}}

\* A unique packet was also counted as an observation, in each counter and each
\* saved row: the two dedup maps are swept and restored together.
UniqueAreObserved == \A v \in Totals : TotalsOK(v)

\* The two dedup maps of a counter agree on when a hash was last heard,
\* whatever packets and sweeps interleave with the counter flush.
DedupsAgree == \A id \in CounterId : DedupOK(counters[id])

\* An observer that is still counted is also counted as a node: the gauges age
\* out together and are restored together.
ObserversAreNodes == \A v \in Totals : GaugesOK(v)

\* The ring of the packet rate holds, second by second, the unique packets of
\* its window: advance clears the slots of skipped seconds and no others, also
\* when a request for the statistics has advanced the ring past a packet.
RateIsExact ==
    \A id \in CounterId :
        LET rate == counters[id].rate
        IN  \A t \in Time \ {0} :
               t <= rate.last /\ rate.last - t < RateSecs
                  => rate.buckets[t % RateSecs] = uniqueAt[id][t]

\* While no scope comes back, what is routed, and the packet being handled,
\* count into the counters of the store: a catalog update replaces the objects
\* but keeps the counters of the scopes it keeps.
RoutesCountIntoStore ==
    \A r \in {routes[s] : s \in DOMAIN routes}
               \cup (IF packet = NoPacket THEN {} ELSE {packet.route}) :
        \A id \in {r.az, r.net} : born[id[2]] \in {NoGen, id[1]}

\* A packet is counted as unique only if its hash was not heard within the dedup
\* window: repetitions refresh the entry and no sweep drops it early.
PacketsCountOnce ==
    [][\A id \in CounterId :
         up /\ up' /\ counters'[id].unique > counters[id].unique
            => LET last == heardAt[id][packet.ev.hash]
               IN  last = 0 \/ now - last > DedupWindow]_vars

\* Durable totals go on over crashes and restarts: a saved row never disappears
\* and its totals never decrease.
DurableTotalsAdvance ==
    [][\A s \in Scope :
         table[s] # NoState
            => /\ table'[s] # NoState
               /\ table'[s].unique >= table[s].unique
               /\ table'[s].observations >= table[s].observations]_vars

\* The time up to which counters have heard: a packet is counted with the time
\* it was read, which may have passed.
Horizon == IF packet = NoPacket THEN now ELSE packet.ev.at

\* The inductive invariant of the counters, without their identities: the clocks
\* of the reader and the sweep, ...
ClocksInv ==
    /\ now \in Time \ {0}
    /\ sweepAt \in 0..now
    /\ packet # NoPacket => packet.ev \in Event /\ packet.ev.at <= now

\* ... nothing is under way while the process is down, ...
DownInv ==
    /\ up \in BOOLEAN
    /\ DOMAIN phase = Fetcher
    /\ ~up => phase["reader"] = "off" /\ packet = NoPacket /\ heardAt = NeverHeard

\* ... the counters in memory, ...
CountersInv == /\ counters \in [CounterId -> CounterValue]
               /\ \A id \in CounterId : CounterOK(counters[id], Horizon)

\* ... what is saved of them, ...
SavedOK(m, t) == /\ m \in [Scope -> State \cup {NoState}]
                 /\ \A s \in Scope : m[s] # NoState => StateOK(m[s], t)

SavedInv == SavedOK(batch, Horizon) /\ SavedOK(table, Horizon)

\* ... and the dedup entry of a hash: its last time, or gone for good reason.
EntriesInv ==
    /\ heardAt \in [CounterId -> [Hash -> Time]]
    /\ \A id \in CounterId, h \in Hash :
          \/ counters[id].seenHash[h] = heardAt[id][h]
          \/ counters[id].seenHash[h] = 0 /\ now - heardAt[id][h] > DedupWindow

CoreInv == ClocksInv /\ DownInv /\ CountersInv /\ SavedInv /\ EntriesInv

\* A ring holds the seconds of its window, and nothing was counted after them:
\* an empty ring is all zero, and its last second is not after n.
RateOK(rate, unique, n) ==
    /\ rate.last <= n
    /\ rate.last = 0 => \A s \in Slot : rate.buckets[s] = 0
    /\ \A t \in Time \ {0} :
          /\ t <= rate.last /\ rate.last - t < RateSecs
                => rate.buckets[t % RateSecs] = unique[t]
          /\ rate.last < t => unique[t] = 0

\* The rings of all counters; a packet is counted before its second leaves them.
RatesInv ==
    /\ ~up => uniqueAt = NoneUnique
    /\ packet # NoPacket => now - packet.ev.at < RateSecs
    /\ \A id \in CounterId : RateOK(counters[id].rate, uniqueAt[id], now)

IInv == CoreInv /\ RatesInv

\* The routes in use or being fetched, and the one of the packet being handled.
HeldRoutes ==
    {routes[s] : s \in DOMAIN routes}
      \cup (IF packet = NoPacket THEN {} ELSE {packet.route})
      \cup UNION {{fetched[who][s] : s \in DOMAIN fetched[who]} : who \in Fetcher}

\* A counter is the one of its scope, or its scope was dropped for good.
InStoreOrDropped(id) == born[id[2]] = id[1] \/ (born[id[2]] = NoGen /\ id[2] \in dropped)

\* The inductive invariant of the routes: types, every scope of the catalog has
\* a counter, nothing is fetched while the process is down, and what the routes
\* point at.
RoutesInv ==
    /\ TypeOK
    /\ \A s \in Scopes(catalog) : born[s] # NoGen
    /\ ~up => /\ phase["reader"] = "off" /\ phase["refresher"] = "idle"
              /\ marking = {} /\ packet = NoPacket
              /\ \A who \in Fetcher : DOMAIN asked[who] = {} /\ DOMAIN fetched[who] = {}
    /\ ~MayReturn => \A r \in HeldRoutes : InStoreOrDropped(r.az) /\ InStoreOrDropped(r.net)

\* The totals of a counter or of a saved row are at least those of a saved row.
TotalsCover(v, saved) ==
    saved # NoState => v.unique >= saved.unique /\ v.observations >= saved.observations

\* The inductive invariant of the saved totals, while no scope comes back and
\* loads succeed: rows on their way cover the table, counters in the store and
\* those being exported cover both, one is exported of a scope, and a scope that
\* was saved and is not in the store was dropped for good.
SavedTotalsInv ==
    /\ \A s \in Scope : batch[s] # NoState => TotalsCover(batch[s], table[s])
    /\ \A id \in Exposed \cup exportTodo :
          /\ InStoreOrDropped(id)
          /\ TotalsCover(counters[id], batch[id[2]])
          /\ TotalsCover(counters[id], table[id[2]])
    /\ \A a, b \in exportTodo : a[2] = b[2] => a = b
    /\ up => \A s \in Scope : batch[s] # NoState \/ table[s] # NoState =>
                                 born[s] # NoGen \/ s \in dropped
    /\ ~up => batch = NoStates /\ exportTodo = {} /\ Exposed = {}

\* Does the analyzer of a route show as connected?
Shown(r) == /\ born[r.object[2]] # NoGen
            /\ connected[<<gen, r.object[2]>>]

\* If the stream never comes back, the analyzers it carried end up showing
\* disconnected, also those whose objects were replaced while it went down.
DownIsShown ==
    <>[](up /\ phase["reader"] # "connected")
       => <>[](\A s \in DOMAIN routes : ~Shown(routes[s]))
=============================================================================
