---------------------------- MODULE LinkRegistry ----------------------------
(***************************************************************************)
(* The registry of observed links (links.go): adjacent nodes of a packet's *)
(* resolved path are counted once per packet and direction, whatever       *)
(* observers and networks report the packet.  The registry is written      *)
(* behind to links.db, and its restore runs in the background (main.go):   *)
(* links heard before it ends are merged with the persisted ones, and the  *)
(* link flush waits for it.  A shard of the registry is a lock; steps on   *)
(* different shards commute, so a pass over all shards is one action here, *)
(* while the hops of a path are recorded one action each.                  *)
(***************************************************************************)
EXTENDS Integers, Sequences, FiniteSets, Functions

CONSTANTS
    Node,         \* public keys, ordered as the bytes of the keys are
    Invalid,      \* a path entry that is not a public key
    Blank,        \* an empty path entry
    Path,         \* resolved paths: sequences of nodes, Invalid and Blank
    Hash,         \* packet content hashes
    NetworkID,
    RouteType,    \* "flood", "direct", ..., "unknown"
    Kind,         \* the <<route type, low confidence>> of packets
    Position,     \* positions of nodes
    NoPos,        \* a node without position, a link without segment
    Far,          \* pairs of positions more than linkPosEpsilonKM apart
    NoLink,       \* "no row" in the registry, the batch or the table
    Window,       \* dedup_window
    LoadMayFail,  \* may LoadLinks fail?
    MaxTime,      \* bound: the clock
    MaxPackets,   \* bound: packets with a path handled in a behaviour
    MaxCrashes    \* bound: crashes in a behaviour

ASSUME NodeAssumption == Node \subseteq Nat /\ Invalid \notin Node /\ Blank \notin Node
ASSUME PathAssumption == Path \subseteq Seq(Node \cup {Invalid, Blank})
ASSUME KindAssumption == Kind \subseteq RouteType \X BOOLEAN
ASSUME FiniteAssumption == IsFiniteSet(NetworkID) /\ IsFiniteSet(RouteType)
ASSUME FarAssumption == Far \subseteq Position \X Position
ASSUME NoPosAssumption == NoPos \notin Position \cup (Position \X Position)
ASSUME NatAssumption == /\ Window \in Nat /\ MaxTime \in Nat \ {0}
                        /\ MaxPackets \in Nat /\ MaxCrashes \in Nat
ASSUME LoadMayFailAssumption == LoadMayFail \in BOOLEAN

Hop  == {h \in Node \X Node : h[1] # h[2]}  \* from, to
Link == {h \in Hop : h[1] < h[2]}           \* canonical order: A, B
Time == 0..MaxTime                          \* 0: never

\* canonicalKey, and whether a hop travels from A to B.
canonicalKey(hop) == IF hop[1] < hop[2] THEN hop ELSE <<hop[2], hop[1]>>
fromIsA(hop) == hop[1] < hop[2]

\* What a link, and a link's network, count.
Tally == [count : Nat, ab : Nat, ba : Nat, low : Nat, first : Time, last : Time]

Geo == (Position \X Position) \cup {NoPos}

Segment == [at : Geo, first : Time, last : Time, count : Nat]

\* LinkRecord: its tally, its networks (a zero tally is a network that is not
\* listed), its counts by route type, its geometry.  live is the current
\* position segment without its last-seen time, which is the link's.
Record == [tally    : Tally,
           networks : [NetworkID -> Tally],
           sources  : [RouteType -> Nat],
           live     : [at : Geo, first : Time, count : Nat],
           segments : Seq(Segment)]

ASSUME NoLinkAssumption == NoLink \notin Record

VARIABLES
    up,          \* the process runs
    now,         \* the wall clock
    place,       \* the node registry's position of every node (PositionOf)
    packet,      \* the packet the reader handles: hash, net, kind, at
    hops,        \* the hops of its path that are not recorded yet
    links,       \* Link -> record
    dirty,       \* links changed since the last flush
    dedup,       \* <<hop, hash>> -> last heard
    netDedup,    \* <<hop, hash, network>> -> last heard
    restore,     \* the restore goroutine: "loading", "merging", "done"
    todo,        \* links it has not merged yet
    linkFlush,   \* the flush loop: "idle", "saving", "failed"
    linkBatch,   \* the rows it took
    linksTable,  \* links.db: Link -> record
    heardAt,     \* history: <<hop, hash>> -> last heard, whatever is swept
    packets,     \* packets handled so far
    crashes,     \* crashes so far
    loadFailed   \* history: did the load of this process fail?

reader     == <<packet, hops>>
registry   == <<links, dirty>>
dedupVars  == <<dedup, netDedup, heardAt>>
restoreVars == <<restore, todo>>
flushVars  == <<linkFlush, linkBatch>>
vars == <<up, now, place, reader, registry, dedupVars, restoreVars, flushVars,
          linksTable, packets, crashes, loadFailed>>

NoLinks  == [l \in Link |-> NoLink]
NoDedup  == [d \in Hop \X Hash |-> 0]
NoNetDedup == [d \in Hop \X Hash \X NetworkID |-> 0]

Packet == [hash : Hash, net : NetworkID, kind : Kind, at : Time \ {0}]

TypeOK ==
    /\ up \in BOOLEAN
    /\ now \in Time \ {0}
    /\ place \in [Node -> Position \cup {NoPos}]
    /\ hops \in Seq(Hop)
    /\ hops # <<>> => packet \in Packet
    /\ links \in [Link -> Record \cup {NoLink}]
    /\ dirty \in SUBSET Link
    /\ dedup \in [Hop \X Hash -> Time]
    /\ netDedup \in [Hop \X Hash \X NetworkID -> Time]
    /\ restore \in {"loading", "merging", "done"}
    /\ todo \in SUBSET Link
    /\ linkFlush \in {"idle", "saving", "failed"}
    /\ linkBatch \in [Link -> Record \cup {NoLink}]
    /\ linksTable \in [Link -> Record \cup {NoLink}]
    /\ heardAt \in [Hop \X Hash -> Time]
    /\ packets \in 0..MaxPackets
    /\ crashes \in 0..MaxCrashes
    /\ loadFailed \in BOOLEAN

NoPacket == [hash |-> "none"]

Init ==
    /\ up = FALSE
    /\ now = 1
    /\ place = [n \in Node |-> NoPos]
    /\ packet = NoPacket
    /\ hops = <<>>
    /\ links = NoLinks
    /\ dirty = {}
    /\ dedup = NoDedup
    /\ netDedup = NoNetDedup
    /\ restore = "done"
    /\ todo = {}
    /\ linkFlush = "idle"
    /\ linkBatch = NoLinks
    /\ linksTable = NoLinks
    /\ heardAt = NoDedup
    /\ packets = 0
    /\ crashes = 0
    /\ loadFailed = FALSE

-----------------------------------------------------------------------------
\* pathWithObserverReceiver: an observer that is a node is the last hop.
WithReceiver(path, observer) ==
    IF observer \notin Node \/ (path # <<>> /\ path[Len(path)] = observer)
    THEN path
    ELSE Append(path, observer)

HopSeq(max) == UNION {[1..m -> Hop] : m \in 0..max}

\* Where hop h first occurs in p.
FirstAt(h, p) ==
    CHOOSE i \in 1..(Len(p) - 1) :
        /\ <<p[i], p[i + 1]>> = h
        /\ \A j \in 1..(i - 1) : <<p[j], p[j + 1]>> # h

\* s is what ObservePathCtx records for a path: its adjacent pairs of distinct
\* nodes, blank entries skipped, each direction of a link once, in path order.
ArePathHops(s, path) ==
    LET isEntry(x) == x # Blank
        p == SelectSeq(path, isEntry)
    IN  /\ Range(s) = Hop \cap {<<p[i], p[i + 1]>> : i \in 1..(Len(p) - 1)}
        /\ \A m, n \in DOMAIN s : m < n => FirstAt(s[m], p) < FirstAt(s[n], p)

\* The reader starts on a packet (Collector.handle takes the time once).
ObservePath(h, n, kind, path, observer) ==
    /\ up
    /\ hops = <<>>
    /\ packets < MaxPackets
    /\ packets' = packets + 1
    /\ packet' = [hash |-> h, net |-> n, kind |-> kind, at |-> now]
    /\ \E s \in HopSeq(Len(path)) : ArePathHops(s, WithReceiver(path, observer)) /\ hops' = s
    /\ hops' # <<>>
    /\ UNCHANGED <<up, now, place, registry, dedupVars, restoreVars, flushVars,
                   linksTable, crashes, loadFailed>>

-----------------------------------------------------------------------------
ZeroTally == [count |-> 0, ab |-> 0, ba |-> 0, low |-> 0, first |-> 0, last |-> 0]

NewRecord(t) == [tally    |-> [ZeroTally EXCEPT !.first = t],
                 networks |-> [n \in NetworkID |-> ZeroTally],
                 sources  |-> [r \in RouteType |-> 0],
                 live     |-> [at |-> NoPos, first |-> 0, count |-> 0],
                 segments |-> <<>>]

\* One more event of a tally, in the hop's direction.
Counted(tally, hop, low) ==
    [tally EXCEPT !.count = @ + 1,
                  !.ab    = IF fromIsA(hop) THEN @ + 1 ELSE @,
                  !.ba    = IF fromIsA(hop) THEN @ ELSE @ + 1,
                  !.low   = IF low THEN @ + 1 ELSE @]

\* addNetwork and countNetwork: the network is heard, and counts the event
\* unless this packet was already counted for it.
HeardOn(tally, hop, low, t, isNew) ==
    LET seen == [tally EXCEPT !.first = IF tally.last = 0 THEN t ELSE @, !.last = t]
    IN  IF isNew THEN Counted(seen, hop, low) ELSE seen

\* The endpoints' positions in canonical order, when both are known.
Positions(hop) ==
    LET l == canonicalKey(hop)
    IN  IF place[l[1]] = NoPos \/ place[l[2]] = NoPos
        THEN NoPos ELSE <<place[l[1]], place[l[2]]>>

Moved(g1, g2) == <<g1[1], g2[1]>> \in Far \/ <<g1[2], g2[2]>> \in Far

Opened(g, t) == [at |-> g, first |-> t, count |-> 1]

\* The current segment of a link as it is kept for the record.
Frozen(rec) == [at    |-> rec.live.at,
                first |-> rec.live.first,
                last  |-> rec.tally.last,
                count |-> rec.live.count]

\* Mutant of updatePosition: every observation freezes the current segment.
updatePositionAlwaysFreezes(rec, g, t) ==
    IF rec.live.at = NoPos
    THEN [rec EXCEPT !.live = Opened(g, t)]
    ELSE [rec EXCEPT !.segments = Append(@, Frozen(rec)), !.live = Opened(g, t)]

\* Mutant of updatePosition: a new segment goes on with the old one's count.
updatePositionKeepsCount(rec, g, t) ==
    IF rec.live.at = NoPos
    THEN [rec EXCEPT !.live = Opened(g, t)]
    ELSE IF Moved(rec.live.at, g)
    THEN [rec EXCEPT !.segments = Append(@, Frozen(rec)),
                     !.live = [at |-> g, first |-> t, count |-> @.count + 1]]
    ELSE [rec EXCEPT !.live.count = @ + 1]

\* updatePosition: a move freezes the current segment and opens a new one.
updatePosition(rec, g, t) ==
    IF rec.live.at = NoPos
    THEN [rec EXCEPT !.live = Opened(g, t)]
    ELSE IF Moved(rec.live.at, g)
    THEN [rec EXCEPT !.segments = Append(@, Frozen(rec)), !.live = Opened(g, t)]
    ELSE [rec EXCEPT !.live.count = @ + 1]

\* The counted part of observeLink: position, tally, route type.
Advance(rec, hop, g, kind, t) ==
    LET placed == IF g = NoPos THEN rec ELSE updatePosition(rec, g, t)
    IN  [placed EXCEPT !.tally = [Counted(@, hop, kind[2]) EXCEPT !.last = t],
                       !.sources[kind[1]] = @ + 1]

\* Mutant of Refreshed: the entry of a packet heard again is left as it is.
RefreshedOnce(last, t) == IF last = 0 THEN t ELSE last

\* The dedup entry of a packet heard at t: refreshed, so that a packet that
\* keeps being repeated is not counted again.
Refreshed(last, t) == t

\* observeLink: the next hop of the path, one critical section of its shard.
ObserveLink ==
    LET hop == Head(hops)
        l   == canonicalKey(hop)
        d   == <<hop, packet.hash>>
        nd  == <<hop, packet.hash, packet.net>>
        old == IF links[l] = NoLink THEN NewRecord(packet.at) ELSE links[l]
        rec == [old EXCEPT !.networks[packet.net] =
                  HeardOn(@, hop, packet.kind[2], packet.at, netDedup[nd] = 0)]
    IN  /\ hops # <<>>
        /\ links' = [links EXCEPT ![l] =
                       IF dedup[d] # 0 THEN rec
                       ELSE Advance(rec, hop, Positions(hop), packet.kind, packet.at)]
        /\ dirty' = dirty \cup {l}
        /\ netDedup' = [netDedup EXCEPT ![nd] = Refreshed(@, packet.at)]
        /\ dedup' = [dedup EXCEPT ![d] = Refreshed(@, packet.at)]
        /\ heardAt' = [heardAt EXCEPT ![d] = packet.at]
        /\ hops' = Tail(hops)
        /\ UNCHANGED <<up, now, place, packet, restoreVars, flushVars, linksTable,
                       packets, crashes, loadFailed>>

\* The reader hears a node's advert with a position (NodeRegistry.Observe).
MoveNode(n, p) ==
    /\ up
    /\ hops = <<>>
    /\ place[n] # p
    /\ place' = [place EXCEPT ![n] = p]
    /\ UNCHANGED <<up, now, reader, registry, dedupVars, restoreVars, flushVars,
                   linksTable, packets, crashes, loadFailed>>

Tick ==
    /\ now < MaxTime
    /\ now' = now + 1
    /\ UNCHANGED <<up, place, reader, registry, dedupVars, restoreVars, flushVars,
                   linksTable, packets, crashes, loadFailed>>

Fresh(last) == last # 0 /\ now - last <= Window

\* Mutant of sweep: the per-network entries outlive the global ones.
sweepGlobalOnly ==
    /\ up
    /\ dedup' = [d \in Hop \X Hash |-> IF Fresh(dedup[d]) THEN dedup[d] ELSE 0]
    /\ dedup' # dedup
    /\ UNCHANGED <<up, now, place, reader, registry, netDedup, heardAt, restoreVars,
                   flushVars, linksTable, packets, crashes, loadFailed>>

\* sweep: both dedup caches of a shard in one critical section.
sweep ==
    /\ up
    /\ dedup' = [d \in Hop \X Hash |-> IF Fresh(dedup[d]) THEN dedup[d] ELSE 0]
    /\ netDedup' = [d \in Hop \X Hash \X NetworkID |->
                      IF Fresh(netDedup[d]) THEN netDedup[d] ELSE 0]
    /\ <<dedup', netDedup'>> # <<dedup, netDedup>>
    /\ UNCHANGED <<up, now, place, reader, registry, heardAt, restoreVars, flushVars,
                   linksTable, packets, crashes, loadFailed>>

-----------------------------------------------------------------------------
Least(a, b)    == IF a < b THEN a ELSE b
Greatest(a, b) == IF a > b THEN a ELSE b

\* Mutant of MergeTally: the persisted direction counts are not added.
MergeTallyOneWay(t, s) ==
    [t EXCEPT !.count = @ + s.count, !.ab = @ + s.ab, !.low = @ + s.low,
              !.last = Greatest(@, s.last)]

\* mergeNetwork, and the counters of mergeRestoredLink: counts add up, the
\* earliest first-seen and the latest last-seen win.
MergeTally(t, s) ==
    [count |-> t.count + s.count,
     ab    |-> t.ab + s.ab,
     ba    |-> t.ba + s.ba,
     low   |-> t.low + s.low,
     first |-> IF t.first = 0 \/ (s.first > 0 /\ s.first < t.first) THEN s.first ELSE t.first,
     last  |-> Greatest(t.last, s.last)]

\* Mutant of mergeRestoredLink: a live network's counts replace the persisted ones.
mergeKeepsLiveNetworks(rec, saved) ==
    [tally    |-> MergeTally(rec.tally, saved.tally),
     networks |-> [n \in NetworkID |-> IF rec.networks[n].count > 0
                                       THEN rec.networks[n] ELSE saved.networks[n]],
     sources  |-> [r \in RouteType |-> rec.sources[r] + saved.sources[r]],
     live     |-> rec.live,
     segments |-> rec.segments \o saved.segments]

\* mergeRestoredLink: the live side keeps its current segment, the persisted
\* segments, the current one included, are appended to its history.
mergeRestoredLink(rec, saved) ==
    [tally    |-> MergeTally(rec.tally, saved.tally),
     networks |-> [n \in NetworkID |-> MergeTally(rec.networks[n], saved.networks[n])],
     sources  |-> [r \in RouteType |-> rec.sources[r] + saved.sources[r]],
     live     |-> IF rec.live.at = NoPos THEN saved.live ELSE rec.live,
     segments |-> rec.segments \o saved.segments \o
                    IF rec.live.at # NoPos /\ saved.live.at # NoPos
                    THEN <<Frozen(saved)>> ELSE <<>>]

\* A restored row as Restore leaves it in the registry.
Restored(rec, saved) ==
    IF saved = NoLink THEN rec
    ELSE IF rec = NoLink THEN saved
    ELSE mergeRestoredLink(rec, saved)

\* The restore goroutine: LoadLinks reads the table (nothing writes it before
\* the restore is over), ...
LoadLinks ==
    /\ restore = "loading"
    /\ restore' = "merging"
    /\ todo' = {l \in Link : linksTable[l] # NoLink}
    /\ UNCHANGED <<up, now, place, reader, registry, dedupVars, flushVars, linksTable,
                   packets, crashes, loadFailed>>

\* ... or fails, which a deferred close of linkRestoreDone reports as done, ...
LoadLinksFails ==
    /\ restore = "loading"
    /\ LoadMayFail
    /\ restore' = "done"
    /\ loadFailed' = TRUE
    /\ UNCHANGED <<up, now, place, reader, registry, dedupVars, todo, flushVars,
                   linksTable, packets, crashes>>

\* ... then Restore merges one link at a time ...
RestoreLink(l) ==
    /\ restore = "merging"
    /\ l \in todo
    /\ links' = [links EXCEPT ![l] = Restored(@, linksTable[l])]
    /\ todo' = todo \ {l}
    /\ UNCHANGED <<up, now, place, reader, dirty, dedupVars, restore, flushVars,
                   linksTable, packets, crashes, loadFailed>>

\* ... and opens the gate of the flush loop.
RestoreDone ==
    /\ restore = "merging"
    /\ todo = {}
    /\ restore' = "done"
    /\ UNCHANGED <<up, now, place, reader, registry, dedupVars, todo, flushVars,
                   linksTable, packets, crashes, loadFailed>>

-----------------------------------------------------------------------------
\* Mutant of TakeDirty: the flush does not wait for the restore.
TakeDirtyEarly ==
    /\ up
    /\ linkFlush = "idle"
    /\ dirty # {}
    /\ linkBatch' = [l \in Link |-> IF l \in dirty THEN links[l] ELSE NoLink]
    /\ dirty' = {}
    /\ linkFlush' = "saving"
    /\ UNCHANGED <<up, now, place, reader, links, dedupVars, restoreVars, linksTable,
                   packets, crashes, loadFailed>>

\* The link flush loop.
TakeDirty ==
    /\ up
    /\ restore = "done"
    /\ linkFlush = "idle"
    /\ dirty # {}
    /\ linkBatch' = [l \in Link |-> IF l \in dirty THEN links[l] ELSE NoLink]
    /\ dirty' = {}
    /\ linkFlush' = "saving"
    /\ UNCHANGED <<up, now, place, reader, links, dedupVars, restoreVars, linksTable,
                   packets, crashes, loadFailed>>

\* The upsert of one tally: first_seen moves back only, last_seen forth only.
UpsertTally(old, new) ==
    [new EXCEPT !.first = IF old.first = 0 THEN @ ELSE Least(@, old.first),
                !.last  = Greatest(@, old.last)]

UpsertLink(old, new) ==
    IF new = NoLink THEN old
    ELSE IF old = NoLink THEN new
    ELSE [new EXCEPT !.tally    = UpsertTally(old.tally, @),
                     !.networks = [n \in NetworkID |-> IF @[n].count = 0 THEN old.networks[n]
                                                       ELSE UpsertTally(old.networks[n], @[n])]]

SaveLinks ==
    /\ linkFlush = "saving"
    /\ linksTable' = [l \in Link |-> UpsertLink(linksTable[l], linkBatch[l])]
    /\ linkBatch' = NoLinks
    /\ linkFlush' = "idle"
    /\ UNCHANGED <<up, now, place, reader, registry, dedupVars, restoreVars, packets, crashes,
                   loadFailed>>

SaveLinksFails ==
    /\ linkFlush = "saving"
    /\ linkFlush' = "failed"
    /\ UNCHANGED <<up, now, place, reader, registry, dedupVars, restoreVars, linkBatch,
                   linksTable, packets, crashes, loadFailed>>

Requeue ==
    /\ linkFlush = "failed"
    /\ dirty' = dirty \cup {l \in Link : linkBatch[l] # NoLink /\ links[l] # NoLink}
    /\ linkBatch' = NoLinks
    /\ linkFlush' = "idle"
    /\ UNCHANGED <<up, now, place, reader, links, dedupVars, restoreVars, linksTable,
                   packets, crashes, loadFailed>>

-----------------------------------------------------------------------------
\* The process dies: the registry, its caches and whatever was on its way go.
Crash ==
    /\ up
    /\ crashes < MaxCrashes
    /\ crashes' = crashes + 1
    /\ up' = FALSE
    /\ packet' = NoPacket
    /\ hops' = <<>>
    /\ links' = NoLinks
    /\ dirty' = {}
    /\ dedup' = NoDedup
    /\ netDedup' = NoNetDedup
    /\ heardAt' = NoDedup
    /\ restore' = "done"
    /\ todo' = {}
    /\ linkFlush' = "idle"
    /\ linkBatch' = NoLinks
    /\ loadFailed' = FALSE
    /\ UNCHANGED <<now, place, linksTable, packets>>

\* main starts the restore goroutine and the reader at the same time.
Start ==
    /\ ~up
    /\ up' = TRUE
    /\ restore' = "loading"
    /\ UNCHANGED <<now, place, reader, registry, dedupVars, todo, flushVars, linksTable,
                   packets, crashes, loadFailed>>

Reader == \/ \E h \in Hash, n \in NetworkID, kind \in Kind, path \in Path,
                observer \in Node \cup {Invalid} : ObservePath(h, n, kind, path, observer)
          \/ ObserveLink
          \/ \E n \in Node, p \in Position : MoveNode(n, p)

Restore == \/ LoadLinks
           \/ LoadLinksFails
           \/ \E l \in Link : RestoreLink(l)
           \/ RestoreDone

FlushLoop == TakeDirty \/ SaveLinks \/ SaveLinksFails \/ Requeue

Next == Reader \/ Restore \/ FlushLoop \/ sweep \/ Tick \/ Crash \/ Start

Spec == Init /\ [][Next]_vars

-----------------------------------------------------------------------------
\* The counters of a tally agree: every event has one direction, and events of
\* low confidence are events.
TallyOK(t) == t.ab + t.ba = t.count /\ t.low <= t.count

RecordOK(rec) ==
    /\ TallyOK(rec.tally)
    /\ \A n \in NetworkID : TallyOK(rec.networks[n])

\* Wherever a record is (registry, batch, table), its directions sum to its
\* packet count, through merges and restores (links.go:127, "They sum to
\* PacketCount"), and so do those of its networks.
DirectionsSum ==
    \A l \in Link : \A rec \in {links[l], linkBatch[l], linksTable[l]} :
        rec # NoLink => RecordOK(rec)

\* Every counted event of a record is of one route type, and some network
\* counts it.
EventsOK(rec) ==
    /\ rec.tally.count = SumFunction(rec.sources)
    /\ rec.tally.count <= SumFunction([n \in NetworkID |-> rec.networks[n].count])

\* Every counted event is of one route type, and is counted by some network,
\* wherever the record is: the per-network and global dedup caches expire
\* independently, but never so that the global cache forgets a packet before a
\* network does (links.go, observeLink, sweep and mergeRestoredLink).
EveryEventHasANetwork ==
    \A l \in Link : \A rec \in {links[l], linkBatch[l], linksTable[l]} :
        rec # NoLink => EventsOK(rec)

\* No event of a record is in two of its segments.
SegmentsOK(rec) ==
    rec.live.count + SumFunction([i \in DOMAIN rec.segments |-> rec.segments[i].count])
      <= rec.tally.count

\* Segments share out the link's events, wherever the record is: no event is in
\* two of them (links.go, updatePosition and mergeRestoredLink).
SegmentsShareEvents ==
    \A l \in Link : \A rec \in {links[l], linkBatch[l], linksTable[l]} :
        rec # NoLink => SegmentsOK(rec)

\* The dedup caches: a network's entry is backed by a global one at least as
\* fresh, so it expires first; a packet with an entry has been counted; and the
\* packet being handled is not older than any entry.
DedupInv ==
    /\ hops # <<>> => up /\ packet.at <= now
    /\ \A h \in Hop, x \in Hash :
          LET d == <<h, x>> IN
          /\ dedup[d] <= IF hops = <<>> THEN now ELSE packet.at
          /\ dedup[d] # 0 => links[canonicalKey(h)] # NoLink
          /\ \A n \in NetworkID :
                LET nd == <<h, x, n>> IN
                /\ netDedup[nd] <= dedup[d]
                /\ netDedup[nd] # 0 => links[canonicalKey(h)].networks[n].count > 0

\* No tally is ahead of the packet being handled, a network that is listed has
\* counted something, and one that is not is zero.
TimesOK(rec) ==
    LET latest == IF hops = <<>> THEN now ELSE packet.at IN
    /\ rec.tally.last <= latest
    /\ \A n \in NetworkID :
          /\ rec.networks[n].last <= latest
          /\ rec.networks[n].count = 0 => rec.networks[n] = ZeroTally
          /\ rec.networks[n].last = 0 => rec.networks[n].count = 0

TimesInv ==
    \A l \in Link : \A rec \in {links[l], linkBatch[l], linksTable[l]} :
        rec # NoLink => TimesOK(rec)

\* Writing tally t over tally s is what the upsert of t does.
Covers(t, s) ==
    /\ s.count <= t.count
    /\ s.last <= t.last
    /\ s.first # 0 => t.first <= s.first

RecordCovers(r, s) ==
    /\ Covers(r.tally, s.tally)
    /\ \A n \in NetworkID : Covers(r.networks[n], s.networks[n])

\* The registry as it will be when the restore is over.
Unmerged(l) == restore = "loading" \/ (restore = "merging" /\ l \in todo)

Shown == [l \in Link |-> IF Unmerged(l) THEN Restored(links[l], linksTable[l]) ELSE links[l]]

\* Only a flush holds rows and it has waited for the restore; every dirty or
\* copied row is in the registry; a stopped process holds nothing.
FlushInv ==
    /\ linkFlush = "idle" => linkBatch = NoLinks
    /\ linkFlush # "idle" => restore = "done"
    /\ \A l \in Link : linkBatch[l] # NoLink \/ l \in dirty => links[l] # NoLink
    /\ restore = "merging" => (\A l \in todo : linksTable[l] # NoLink)
    /\ ~up => /\ links = NoLinks
              /\ restore = "done"
              /\ dirty = {}
              /\ linkFlush = "idle"

\* Unless the load of this process failed: rows shown are later versions of the
\* rows on their way and of the rows in the table, and the rows on their way of
\* the rows in the table.
VersionsInv ==
    \A l \in Link :
        /\ linkBatch[l] # NoLink => RecordCovers(links[l], linkBatch[l])
        /\ linksTable[l] # NoLink =>
            /\ up => Shown[l] # NoLink /\ RecordCovers(Shown[l], linksTable[l])
            /\ linkBatch[l] # NoLink => RecordCovers(linkBatch[l], linksTable[l])

\* The first process restores nothing: there is no row before its restore is over.
FirstLifeInv == crashes = 0 /\ (~up \/ restore # "done") => linksTable = NoLinks

\* The inductive invariant behind the theorems about this module.
LinksInv ==
    /\ TypeOK
    /\ DirectionsSum
    /\ DedupInv
    /\ TimesInv
    /\ FlushInv
    /\ FirstLifeInv
    /\ ~loadFailed => VersionsInv

\* A packet heard again within the window, on whatever network, is not counted
\* again, however often it is repeated (links.go, observeLink).  The window is
\* over by the clock, not by the packet's own time: a sweep may pass while the
\* packet is on its way to the shard.
CountsOncePerWindow ==
    [][up' /\ hops # <<>> /\ hops' = Tail(hops) =>
         LET l == canonicalKey(Head(hops))
             last == heardAt[<<Head(hops), packet.hash>>]
         IN  links[l] # NoLink /\ links'[l].tally.count > links[l].tally.count =>
                 last = 0 \/ now - last > Window
      ]_vars

Rows == INSTANCE WriteBehind WITH
    Key <- Link, Value <- Record, Absent <- NoLink,
    cache <- Shown, flush <- linkFlush, batch <- linkBatch, table <- linksTable

\* With every row counted as restored at once, the registry follows the shared
\* write-behind protocol: links heard while the restore runs neither lose nor
\* repeat what was persisted (links.go, Restore; main.go, linkRestoreDone).  A
\* failed load may come after the reader has used the registry, which that
\* protocol does not know: the claim is about processes whose load succeeds.
LinksAreWriteBehind ==
    /\ Rows!Init
    /\ [][loadFailed' \/ UNCHANGED Rows!vars \/ Rows!Next]_vars

\* What a segment was frozen for is a move, to where the next one begins.
Moves(rec) ==
    LET history == Append(rec.segments, rec.live)
    IN  \A i \in 1..(Len(history) - 1) : Moved(history[i].at, history[i + 1].at)

\* "true when an endpoint has moved (prior segments exist)" (links.go:599): a
\* link has prior segments only because an endpoint moved.
SegmentsAreMoves == \A l \in Link : links[l] # NoLink => Moves(links[l])

\* The segments of a record are moves, oldest first, and none is still open when
\* the next one starts; the current one started before the link was last heard.
InOrder(rec) ==
    LET segs == rec.segments
        next(i) == IF i = Len(segs) THEN rec.live.first ELSE segs[i + 1].first
    IN  /\ Moves(rec)
        /\ \A i \in DOMAIN segs : segs[i].first <= segs[i].last /\ segs[i].last <= next(i)
        /\ segs # <<>> => rec.live.at # NoPos
        /\ rec.live.at # NoPos => rec.live.first <= rec.tally.last

\* Until the process restarts, a link's segments are the moves of its endpoints
\* in order (links.go, updatePosition before the counters advance).
SegmentsInOrder == crashes = 0 => \A l \in Link : links[l] # NoLink => InOrder(links[l])
=============================================================================
