----------------------------- MODULE RouteCache -----------------------------
(***************************************************************************)
(* Requests for routes and the link graph they share (route.go, adjacency  *)
(* and buildAdjacency; server.go, handleRoute).  The graph is a copy of    *)
(* the links that is kept for a while and built link by link, under the    *)
(* lock of each link's shard, while the reader goes on hearing links.  A   *)
(* request reads the clock once; handleRoute reads it for the lookback and *)
(* again for the search, which at worst moves the lookback by a tick.      *)
(***************************************************************************)
EXTENDS Integers, Sequences, Functions

CONSTANTS
    RNode,           \* nodes
    RLink,           \* links, as pairs of nodes in canonical order
    RNet,            \* networks
    NoStat,          \* a link that was not heard
    NoCache,         \* no adjacency is kept
    MaxActivity,     \* bound: recentActivity, in steps
    EdgeCost(_, _),  \* edgeCost, of the activity and the age of a link
    RouteBetween(_, _, _), \* the search, of a graph, a query and the start of
                           \* its lookback (module Route)
    RouteTTL,        \* routeCacheTTL
    Request,         \* concurrent requests
    Query,           \* what they ask
    RouteMaxTime     \* bound: the clock

RouteTime == 0..RouteMaxTime

ASSUME RLinkAssumption ==
    /\ RLink \subseteq RNode \X RNode
    /\ \A l \in RLink : l[1] # l[2] /\ <<l[2], l[1]>> \notin RLink
ASSUME EdgeCostAssumption ==
    \A a \in 1..MaxActivity, age \in RouteTime : EdgeCost(a, age) \in Nat \ {0}
ASSUME RouteTTLAssumption == RouteTTL \in Nat \ {0}
ASSUME RouteBoundsAssumption == MaxActivity \in Nat \ {0} /\ RouteMaxTime \in Nat
\* back: how far the request looks back (active), 0 for ever; nets: {} for all.
ASSUME QueryAssumption ==
    Query \subseteq [from : RNode, to : RNode, back : RouteTime, nets : SUBSET RNet]

\* What routing reads of a LinkRecord.
Stat == [activity : 1..MaxActivity, lastSeen : RouteTime, networks : SUBSET RNet]
\* An edge of the graph.
Edge == [from : RNode, to : RNode, stat : Stat, cost : Nat]

ASSUME NoStatAssumption == NoStat \notin Stat

VARIABLES
    routeNow,  \* the wall clock
    linkStats, \* the registry: link -> Stat or NoStat
    routeAdj,  \* the cache: [builtAt, graph] or NoCache
    builder,   \* the request that holds routeMu to build the graph, or NoCache
    graph,     \* the graph it has built so far: node -> its edges
    uncopied,  \* the links it has not come to
    asked,     \* Request -> its query, with the time it came
    phase,     \* Request -> "none", "waiting", "answered"
    answer,    \* Request -> the RouteResult
    changedAt  \* history: when a link was last heard

routeVars == <<routeNow, linkStats, routeAdj, builder, graph, uncopied, asked, phase, answer, changedAt>>

NoGraph == [n \in RNode |-> <<>>]
NotFound == [found |-> FALSE, nodes |-> <<>>, hops |-> <<>>]

RouteInit ==
    /\ routeNow \in RouteTime \ {0}
    /\ linkStats \in [RLink -> {s \in Stat : s.lastSeen <= routeNow} \cup {NoStat}]
    /\ routeAdj = NoCache
    /\ builder = NoCache
    /\ graph = NoGraph
    /\ uncopied = {}
    /\ asked \in [Request -> {[query |-> q, at |-> 0] : q \in Query}]
    /\ phase = [r \in Request |-> "none"]
    /\ answer = [r \in Request |-> NotFound]
    /\ changedAt = [l \in RLink |-> 0]

-----------------------------------------------------------------------------
(* The cache and the requests.                                             *)

\* The start of the lookback of a request, 0 for none.
Since(r) == IF asked[r].query.back = 0 THEN 0 ELSE asked[r].at - asked[r].query.back

Answer(r, g) ==
    /\ answer' = [answer EXCEPT ![r] = RouteBetween(g, asked[r].query, Since(r))]
    /\ phase' = [phase EXCEPT ![r] = "answered"]

\* handleRoute reads the clock.  From a node to itself no graph is needed.
handleRoute(r, q) ==
    /\ phase[r] # "waiting"
    /\ asked' = [asked EXCEPT ![r] = [query |-> q, at |-> routeNow]]
    /\ IF q.from = q.to
       THEN /\ phase' = [phase EXCEPT ![r] = "answered"]
            /\ answer' = [answer EXCEPT ![r] = [found |-> TRUE, nodes |-> <<q.from>>, hops |-> <<>>]]
       ELSE /\ phase' = [phase EXCEPT ![r] = "waiting"]
            /\ UNCHANGED answer
    /\ UNCHANGED <<routeNow, linkStats, routeAdj, builder, graph, uncopied, changedAt>>

Fresh(r) == routeAdj # NoCache /\ asked[r].at - routeAdj.builtAt < RouteTTL

\* adjacency, with the lock free: the kept graph is young enough ...
UseCache(r) ==
    /\ phase[r] = "waiting"
    /\ builder = NoCache
    /\ Fresh(r)
    /\ Answer(r, routeAdj.graph)
    /\ UNCHANGED <<routeNow, linkStats, routeAdj, builder, graph, uncopied, asked, changedAt>>

\* ... or a new one is built, under the lock.
StartBuild(r) ==
    /\ phase[r] = "waiting"
    /\ builder = NoCache
    /\ ~Fresh(r)
    /\ builder' = r
    /\ graph' = NoGraph
    /\ uncopied' = RLink
    /\ UNCHANGED <<routeNow, linkStats, routeAdj, asked, phase, answer, changedAt>>

Age(stat, at) == IF stat.lastSeen <= at THEN at - stat.lastSeen ELSE 0

\* The two edges of a link, with its cost at the time of the request.
WithLink(g, l, stat, at) ==
    LET edge(a, b) == [from |-> a, to |-> b, stat |-> stat,
                       cost |-> EdgeCost(stat.activity, Age(stat, at))]
    IN [g EXCEPT ![l[1]] = Append(@, edge(l[1], l[2])),
                 ![l[2]] = Append(@, edge(l[2], l[1]))]

\* buildAdjacency comes to a link.
CopyLink(l) ==
    /\ builder # NoCache
    /\ l \in uncopied
    /\ uncopied' = uncopied \ {l}
    /\ graph' = IF linkStats[l] = NoStat THEN graph
                ELSE WithLink(graph, l, linkStats[l], asked[builder].at)
    /\ UNCHANGED <<routeNow, linkStats, routeAdj, builder, asked, phase, answer, changedAt>>

\* Mutant of EndBuild: the graph counts as built when it is complete.
EndBuildLate ==
    /\ builder # NoCache
    /\ uncopied = {}
    /\ routeAdj' = [builtAt |-> routeNow, graph |-> graph]
    /\ Answer(builder, graph)
    /\ builder' = NoCache
    /\ UNCHANGED <<routeNow, linkStats, graph, uncopied, asked, changedAt>>

EndBuild ==
    /\ builder # NoCache
    /\ uncopied = {}
    /\ routeAdj' = [builtAt |-> asked[builder].at, graph |-> graph]
    /\ Answer(builder, graph)
    /\ builder' = NoCache
    /\ UNCHANGED <<routeNow, linkStats, graph, uncopied, asked, changedAt>>

-----------------------------------------------------------------------------
(* The environment.                                                        *)

\* The reader hears a link.  Activity stands for recentActivity, a score that
\* grows with each counted packet.
HearLink(l, net) ==
    /\ linkStats' = [linkStats EXCEPT ![l] =
           IF @ = NoStat THEN [activity |-> 1, lastSeen |-> routeNow, networks |-> {net}]
           ELSE [activity |-> IF @.activity < MaxActivity THEN @.activity + 1 ELSE MaxActivity,
                 lastSeen |-> routeNow, networks |-> @.networks \cup {net}]]
    /\ changedAt' = [changedAt EXCEPT ![l] = routeNow]
    /\ UNCHANGED <<routeNow, routeAdj, builder, graph, uncopied, asked, phase, answer>>

RouteTick ==
    /\ routeNow < RouteMaxTime
    /\ routeNow' = routeNow + 1
    /\ UNCHANGED <<linkStats, routeAdj, builder, graph, uncopied, asked, phase, answer, changedAt>>

RouteNext ==
    \/ \E r \in Request : \/ \E q \in Query : handleRoute(r, q)
                          \/ UseCache(r) \/ StartBuild(r)
    \/ \E l \in RLink : CopyLink(l)
    \/ EndBuild
    \/ \E l \in RLink, net \in RNet : HearLink(l, net)
    \/ RouteTick

RouteSpec == RouteInit /\ [][RouteNext]_routeVars

-----------------------------------------------------------------------------
(* Properties.                                                             *)

Answering(r) == phase[r] = "waiting" /\ phase'[r] = "answered"

\* What the graph holds of a link.
EdgesOf(g, l) == {e \in Range(g[l[1]]) : e.to = l[2]}
Held(g, l) ==
    LET es == EdgesOf(g, l) IN IF es = {} THEN NoStat ELSE (CHOOSE e \in es : TRUE).stat

\* A cached graph is as fresh as its time to live promises (route.go:51-55):
\* it misses no change of a link that is older, although it is built link by
\* link while links are heard, and shared by requests that came at other times.
RouteMissesOnlyNews ==
    [][\A r \in Request : Answering(r) =>
         \A l \in RLink : Held(routeAdj'.graph, l) # linkStats[l]
                             => changedAt[l] > asked[r].at - RouteTTL]_routeVars

RouteTypeOK ==
    /\ routeNow \in RouteTime
    /\ linkStats \in [RLink -> Stat \cup {NoStat}]
    /\ graph \in [RNode -> Seq(Edge)]
    /\ uncopied \subseteq RLink
    /\ asked \in [Request -> [query : Query, at : 0..routeNow]]
    /\ phase \in [Request -> {"none", "waiting", "answered"}]
    /\ changedAt \in [RLink -> 0..routeNow]

\* A graph holds a link as it is, or the link was heard since a time.
Reflects(g, l, t) == Held(g, l) # linkStats[l] => changedAt[l] >= t

\* Whoever builds a graph waits for it; the links it has come to are in it as they
\* are, or as they were when the request came; the others are not in it yet.
BuildInv ==
    builder # NoCache =>
        /\ builder \in Request
        /\ phase[builder] = "waiting"
        /\ \A l \in uncopied : EdgesOf(graph, l) = {}
        /\ \A l \in RLink \ uncopied : Reflects(graph, l, asked[builder].at)

\* The kept graph is that of the time it is said to be from.
CacheInv ==
    routeAdj # NoCache =>
        /\ routeAdj.builtAt \in 0..routeNow
        /\ \A l \in RLink : Reflects(routeAdj.graph, l, routeAdj.builtAt)

RouteInv == RouteTypeOK /\ BuildInv /\ CacheInv
=============================================================================
