------------------------------- MODULE Route -------------------------------
(***************************************************************************)
(* Routing over the observed links (route.go, RouteBetween): Dijkstra's    *)
(* search over the graph that RouteCache keeps, with a heap that is part   *)
(* of the program.  Sequences count from 1 here.                           *)
(***************************************************************************)
EXTENDS RouteCache, SequencesExt

-----------------------------------------------------------------------------
(* The heap.                                                               *)

Swapped(h, i, j) == [h EXCEPT ![i] = h[j], ![j] = h[i]]

RECURSIVE SiftUp(_, _)
SiftUp(h, i) ==
    LET parent == i \div 2 IN
    IF i = 1 \/ h[parent].cost <= h[i].cost THEN h
    ELSE SiftUp(Swapped(h, i, parent), parent)

push(h, it) == SiftUp(Append(h, it), Len(h) + 1)

RECURSIVE SiftDown(_, _)
\* Mutant of SiftDown: the right child is not looked at.
SiftDownLeft(h, i) ==
    LET l == 2 * i IN
    IF l > Len(h) \/ h[l].cost >= h[i].cost THEN h ELSE SiftDown(Swapped(h, i, l), l)

SiftDown(h, i) ==
    LET Less(j, k) == IF j <= Len(h) /\ h[j].cost < h[k].cost THEN j ELSE k
        smallest == Less(2 * i + 1, Less(2 * i, i))
    IN  IF smallest = i THEN h ELSE SiftDown(Swapped(h, i, smallest), smallest)

\* The heap without its top.
pop(h) == IF Len(h) = 1 THEN <<>> ELSE SiftDown([Front(h) EXCEPT ![1] = Last(h)], 1)

-----------------------------------------------------------------------------
(* The search.                                                             *)

edgePasses(e, q, since) ==
    /\ since > 0 => e.stat.lastSeen >= since
    /\ q.nets # {} => e.stat.networks \cap q.nets # {}

\* One round of the loop over the edges of the node taken from the heap; prev
\* is the edge by which a node was reached, NoStat for none.
Relax(s, e, cur) ==
    LET nd == cur.cost + e.cost IN
    IF e.to \in s.done \/ (s.prev[e.to] # NoStat /\ nd >= s.dist[e.to]) THEN s
    ELSE [s EXCEPT !.dist[e.to] = nd, !.prev[e.to] = e,
                   !.pq = push(@, [node |-> e.to, cost |-> nd])]

RECURSIVE Searched(_, _, _, _)
Searched(g, q, since, s) ==
    IF s.pq = <<>> THEN s
    ELSE LET cur  == Head(s.pq)
             rest == [s EXCEPT !.pq = pop(@)]
             here == [rest EXCEPT !.done = @ \cup {cur.node}]
         IN IF cur.node \in s.done THEN Searched(g, q, since, rest)
            ELSE IF cur.node = q.to THEN here
            ELSE Searched(g, q, since,
                     FoldLeft(LAMBDA t, e : IF edgePasses(e, q, since) THEN Relax(t, e, cur) ELSE t,
                              here, g[cur.node]))

\* The path back from a node along prev, in the order of the route.
RECURSIVE Hops(_, _, _)
Hops(prev, from, n) ==
    IF n = from THEN <<>> ELSE Append(Hops(prev, from, prev[n].from), prev[n])

RouteOver(g, q, since) ==
    LET s == Searched(g, q, since,
                 [pq   |-> <<[node |-> q.from, cost |-> 0]>>, done |-> {},
                  dist |-> [n \in RNode |-> 0], prev |-> [n \in RNode |-> NoStat]])
        hops == Hops(s.prev, q.from, q.to)
    IN IF g[q.from] = <<>> \/ g[q.to] = <<>> \/ q.to \notin s.done THEN NotFound
       ELSE [found |-> TRUE, hops |-> hops,
             nodes |-> <<q.from>> \o [i \in 1..Len(hops) |-> hops[i].to]]

-----------------------------------------------------------------------------
(* Properties.                                                             *)

\* The edges a query may use.
Usable(g, q, since) ==
    UNION {{g[n][i] : i \in {j \in DOMAIN g[n] : edgePasses(g[n][j], q, since)}} : n \in RNode}

\* What the nodes within so many hops cost at least.
Within(from, edges) ==
    LET d[k \in Nat] ==
          IF k = 0 THEN from :> 0
          ELSE LET near == d[k - 1]
                   out  == {e \in edges : e.from \in DOMAIN near}
               IN [n \in DOMAIN near \cup {e.to : e \in out} |->
                      Min({near[m] : m \in DOMAIN near \cap {n}}
                          \cup {near[e.from] + e.cost : e \in {x \in out : x.to = n}})]
    IN d

\* An answer is a walk of usable edges, cheaper than which there is none;
\* without one the nodes are not connected.
IsCheapest(ans, g, q, since) ==
    LET edges == Usable(g, q, since)
        dist  == Within(q.from, edges)[Cardinality(RNode)]
    IN /\ ans.found <=> q.to \in DOMAIN dist
       /\ ans.found =>
             /\ Range(ans.hops) \subseteq edges
             /\ Len(ans.nodes) = Len(ans.hops) + 1
             /\ ans.nodes[1] = q.from /\ Last(ans.nodes) = q.to
             /\ \A i \in DOMAIN ans.hops : <<ans.hops[i].from, ans.hops[i].to>>
                                             = <<ans.nodes[i], ans.nodes[i + 1]>>
             /\ FoldLeft(LAMBDA c, e : c + e.cost, 0, ans.hops) = dist[q.to]

\* Every answer is a cheapest route through the filtered graph, and there is
\* one if there is a route (route.go:198-202), whatever the heap did with equal,
\* outdated and improved entries.
RouteIsCheapest ==
    [][\A r \in Request :
         Answering(r) => IsCheapest(answer'[r], routeAdj'.graph, asked[r].query, Since(r))]_routeVars
=============================================================================
