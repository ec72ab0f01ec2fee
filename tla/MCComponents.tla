---------------------------- MODULE MCComponents ----------------------------
(***************************************************************************)
(* The smaller components for TLC, side by side: in each behaviour one of  *)
(* them, or one scenario of it, runs (part) and the others stay as they    *)
(* are, so the state space is the sum of theirs.                           *)
(***************************************************************************)
EXTENDS ObserverRegistry, Hub, AdvertPages, Route, MapSnapshots, Search, TLC

CONSTANTS k1, k2, n1, c1, c2, p1, p2, r1, r2, m1, m2, cz, us, eu868, us915

VARIABLE part

OneNet == {n1}
TwoKeys == {k1, k2}
OneKey == {k1}
TwoClients == {c1, c2}
TwoPublishes == {p1, p2}
TwoNets == {m1, m2}
TwoRequests == {r1, r2}

MCValue == [observations : 1..(2 * MaxReports + 2), networks : SUBSET NetworkID]
NoLegacy == [k \in Key |-> Absent]
ASSUME ObserverRowsAssumption == ObserverRows

MCBatch == {<<k1>>, <<k2>>, <<k1, k1>>}

\* A node with four neighbours, and two ways round.
MCLinks == {<<1, 2>>, <<1, 3>>, <<1, 4>>, <<1, 5>>, <<2, 6>>, <<3, 6>>, <<4, 6>>, <<5, 6>>, <<2, 3>>}
MCCost(activity, age) == 3 - activity + 2 * age
Ask(b, ns) == [from |-> 1, to |-> 6, back |-> b, nets |-> ns]
ToItself == [from |-> 1, to |-> 1, back |-> 0, nets |-> {}]
MCQuery == {Ask(0, {}), Ask(1, {}), Ask(0, {m1}), ToItself}

MCCountries == (m1 :> {cz}) @@ (m2 :> {us})
MCRegions == (m1 :> {eu868}) @@ (m2 :> {us915})
Find(l, ns, cs, rs) == [located |-> l, nets |-> ns, countries |-> cs, regions |-> rs]
MCFilter == {Find("any", {}, {}, {}), Find("yes", {}, {}, {}), Find("any", {m1}, {cz}, {})}

observerPart == part = "observers"
hubPart      == part \in {"hub", "feed"}
pagesPart    == part = "pages"
routePart    == part \in {"routes", "route cache"}
dirPart      == part = "directory"
snapPart     == part = "snapshots"
searchPart   == part = "search"

-----------------------------------------------------------------------------
(* Initial states.                                                         *)

HeardAs(a, s, n) == [activity |-> a, lastSeen |-> s, networks |-> {n}]

\* "routes": every choice of three states for the links of node 1, of two for
\* the links of two of its neighbours to node 6, at one time; "route cache":
\* nothing was heard yet.
Neighbours == {l \in RLink : l[1] = 1}
Optional == {<<3, 6>>, <<4, 6>>}
HeardLinks ==
    {near @@ far @@ [l \in RLink |-> HeardAs(2, 2, m1)] :
        near \in [Neighbours -> {HeardAs(2, 2, m1), HeardAs(1, 2, m2), HeardAs(2, 1, m1)}],
        far \in [Optional -> {NoStat, HeardAs(2, 2, m1)}]}
NothingHeard == [l \in RLink |-> NoStat]

RouteStart ==
    /\ IF part = "routes" THEN routeNow = 2 /\ linkStats \in HeardLinks
                          ELSE routeNow = 1 /\ linkStats = NothingHeard
    /\ asked = [r \in Request |-> [query |-> Ask(0, {}), at |-> 0]]
    /\ RouteInit

SearchStart ==
    /\ nodes \in IF searchPart
                 THEN [SearchKey -> {NoRecord} \cup [located : BOOLEAN, nets : {{m1}}, last : {1}]]
                 ELSE {[k \in SearchKey |-> NoRecord]}
    /\ mapped \in IF searchPart
                  THEN [SearchKey -> {NoRecord, [located |-> TRUE, last |-> 2]}]
                  ELSE {[k \in SearchKey |-> NoRecord]}
    /\ query \in IF searchPart THEN Filter ELSE {Find("any", {}, {}, {})}
    /\ limit \in IF searchPart THEN SearchLimit ELSE {1}
    /\ SearchInit

MCInit ==
    /\ part \in {"observers", "hub", "feed", "pages", "routes", "route cache",
                 "directory", "snapshots", "search"}
    /\ ObserverInit
    /\ HubInit
    /\ asking = k1 /\ PagesInit
    /\ RouteStart
    /\ MapInit
    /\ SearchStart

-----------------------------------------------------------------------------
(* Steps.                                                                  *)

\* "hub": two clients, two adverts without hash; "feed": one client that stays,
\* four adverts of two keys or none.
HubStep ==
    /\ HubNext
    /\ part = "hub" => hubNow' = 1 /\ pulses' <= 2 /\ advert' = NoHash
    /\ part = "feed" => c2 \notin clients' /\ lost' = {}

\* buildAdjacency comes to the links in one order.
InOrder ==
    uncopied' # {} =>
        \A l \in uncopied \ uncopied' : \A k \in uncopied' : l[1] < k[1] \/ (l[1] = k[1] /\ l[2] < k[2])

\* "routes": one request over links that rest; "route cache": each request
\* asks once, the same, while two links are heard.
RouteStep ==
    /\ RouteNext
    /\ InOrder
    /\ IF part = "routes"
       THEN /\ UNCHANGED <<routeNow, linkStats, changedAt>>
            /\ asked'[r2] = asked[r2]
            /\ phase[r1] # "answered"
       ELSE /\ \A r \in Request : /\ phase[r] = "answered" => phase'[r] = "answered"
                                  /\ asked'[r].query = Ask(0, {})
            /\ \A l \in RLink : linkStats'[l] # linkStats[l] =>
                   l \in {<<1, 2>>, <<2, 6>>} /\ linkStats'[l].networks = {m1}
                   /\ linkStats'[l].activity = 1

\* The snapshotter, a node that is flagged, and a directory of one key that
\* changes once and whose history is not saved.  The clock and the directory
\* move while nobody is about to read them, a sync has something to fetch, and
\* crashes fall into the generation of a snapshot.
SnapStep ==
    /\ MapNext
    /\ second' # second => snapper = "idle"
    /\ live'[k1] \in {"unheard", "flagged"}
    /\ upstream' # upstream => /\ importer = "idle" /\ edits = 0
                              /\ upstream'[k1] # NoEntry /\ upstream'[k1].sig = p1
                              /\ upstream'[NoKey] = NoEntry
    /\ importer = "idle" /\ importer' # "idle" => records # upstream
    /\ importer = "saving" /\ dirUp' /\ importer' # "saving" =>
           importer' = "idle" /\ mirror' = UpsertedNodes
    /\ dirUp /\ ~dirUp' => snapper # "idle" /\ importer = "idle"
    /\ ~dirUp /\ dirUp' => records' = mirror

others(p) ==
    /\ p # "observers" => UNCHANGED observerVars
    /\ p # "hub" => UNCHANGED hubVars
    /\ p # "pages" => UNCHANGED pagesVars
    /\ p # "routes" => UNCHANGED routeVars
    /\ p \notin {"directory", "snapshots"} => UNCHANGED dirVars
    /\ p # "snapshots" => UNCHANGED snapVars
    /\ p # "search" => UNCHANGED searchVars
    /\ UNCHANGED part

MCNext ==
    \/ observerPart /\ ObserverNext /\ others("observers")
    \/ hubPart /\ HubStep /\ others("hub")
    \/ pagesPart /\ PagesNext /\ others("pages")
    \/ routePart /\ RouteStep /\ others("routes")
    \/ dirPart /\ DirNext /\ others("directory")
    \/ snapPart /\ SnapStep /\ others("snapshots")
    \/ searchPart /\ SearchNext /\ others("search")

\* The fairness of each component, for the behaviours in which it runs.
MCFairness ==
    /\ WF_observerVars(observerPart /\ TakeDirty /\ UNCHANGED reports)
    /\ WF_observerVars(observerPart /\ (SaveObservers \/ SaveObserversFails))
    /\ SF_observerVars(observerPart /\ SaveObservers)
    /\ WF_observerVars(observerPart /\ Requeue /\ UNCHANGED reports)
    /\ WF_observerVars(observerPart /\ Restore)
    /\ WF_hubVars(hubPart /\ Broadcasting)
    /\ \A c \in Client : WF_hubVars(hubPart /\ Reader(c)) /\ WF_hubVars(hubPart /\ Writer(c))
    /\ WF_dirVars(dirPart /\ DirStart)
    /\ WF_dirVars(dirPart /\ Sync)
    /\ SF_dirVars(dirPart /\ SaveSucceeds)
    /\ SF_dirVars(dirPart /\ SaveImportedNodeHistory)
    /\ WF_mapVars(snapPart /\ SnapStep /\ DirStart)
    /\ WF_mapVars(snapPart /\ SnapStep /\ Sync)
    /\ SF_mapVars(snapPart /\ SnapStep /\ SecondPasses)
    /\ WF_mapVars(snapPart /\ SnapStep /\ GenerateOnce)
    /\ SF_mapVars(snapPart /\ SnapStep /\ WriteSnapshot)
    /\ SF_mapVars(snapPart /\ SnapStep /\ PublishManifest)

MCSpec ==
    MCInit /\ [][MCNext]_<<observerVars, hubVars, pagesVars, routeVars, mapVars, searchVars, part>>
           /\ MCFairness

\* SnapshotsConverge, in the behaviours in which the snapshotter runs.
MCSnapshotsConverge == snapPart => SnapshotsConverge

\* EventuallyCaptured, in the behaviours in which every sync saves everything.
MCEventuallyCaptured == dirPart => EventuallyCaptured

=============================================================================
