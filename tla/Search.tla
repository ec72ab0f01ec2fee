------------------------------- MODULE Search -------------------------------
(***************************************************************************)
(* GET /api/search (server.go, parseSearchParams to mergedSearch; nodes.go *)
(* Search; mapquery.go, matches and matchesImported), in the order of      *)
(* recency and without a text.  The hits are chosen under the registry's   *)
(* lock, but their records are read through pointers after it, while       *)
(* adverts go on changing them; then the directory is merged in.           *)
(***************************************************************************)
EXTENDS Integers, Sequences, FiniteSets

CONSTANTS
    SearchKey,   \* public keys, numbered as they sort
    SearchNet,   \* networks of the catalog
    CountriesOf, \* network -> its countries
    RegionsOf,   \* network -> its radio regions
    Filter,      \* queries: [located : {"any", "yes"}, nets, countries, regions]
    SearchLimit, \* limits
    NoRecord,    \* a key that is not there
    MaxSightings \* bound: adverts heard

ASSUME SearchKeyAssumption == SearchKey \subseteq Nat /\ IsFiniteSet(SearchKey)
ASSUME SearchLimitAssumption == SearchLimit \subseteq Nat \ {0}
ASSUME SearchBoundsAssumption == MaxSightings \in Nat

\* What a search reads of a live node, and of the directory's entry of one.
LiveRecord == [located : BOOLEAN, nets : SUBSET SearchNet, last : Nat]
MapRecord  == [located : BOOLEAN, last : Nat]

ASSUME NoRecordAssumption == NoRecord \notin LiveRecord \cup MapRecord \cup Nat

VARIABLES
    nodes,    \* NodeRegistry: key -> [located, nets, last] or NoRecord
    mapped,   \* ImportRegistry: key -> [located, last] or NoRecord
    clock,    \* the time of the latest advert
    query,    \* p
    limit,
    searching,     \* mergedSearch: "idle", "reading", "merging", "done"
    hits,     \* the nodes that matched, not read yet
    copied,   \* what was read of them: key -> last, or NoRecord
    results,  \* what is returned
    matched   \* history: the nodes at the time of the match

searchVars == <<nodes, mapped, clock, query, limit, searching, hits, copied, results, matched>>

NothingRead == [k \in SearchKey |-> NoRecord]

\* A registry that has heard one advert of each node, or none.
SearchInit ==
    /\ clock = 1
    /\ nodes \in [SearchKey -> {NoRecord} \cup
                    [located : BOOLEAN, nets : {{n} : n \in SearchNet}, last : {1}]]
    /\ mapped \in [SearchKey -> {NoRecord} \cup [located : BOOLEAN, last : {0, 2}]]
    /\ query \in Filter
    /\ limit \in SearchLimit
    /\ searching = "idle"
    /\ hits = {}
    /\ copied = NothingRead
    /\ results = << >>
    /\ matched = NothingRead

-----------------------------------------------------------------------------
(* The filters.                                                            *)

\* The networks whose metadata has one of the countries and regions asked for.
MetaNetworks(p) ==
    {n \in SearchNet : /\ p.countries = {} \/ CountriesOf[n] \cap p.countries # {}
                       /\ p.regions = {} \/ RegionsOf[n] \cap p.regions # {}}

AsksMeta(p) == p.countries # {} \/ p.regions # {}

\* expandNetworkMetadata: what p.Networks ends up as.
expandNetworkMetadata(p) ==
    IF ~AsksMeta(p) THEN p.nets
    ELSE IF p.nets = {} THEN MetaNetworks(p)
    ELSE p.nets \cap MetaNetworks(p)

\* An empty set of networks is no filter.
matches(p, n) ==
    LET allowed == expandNetworkMetadata(p)
    IN  /\ p.located = "any" \/ n.located
        /\ allowed = {} \/ n.nets \cap allowed # {}

matchesImported(p, n) ==
    /\ p.located = "any" \/ n.located
    /\ expandNetworkMetadata(p) = {}
    /\ ~AsksMeta(p)

-----------------------------------------------------------------------------
(* A search.                                                               *)

\* Search: the hits, under the lock.
Match ==
    /\ searching = "idle"
    /\ searching' = "reading"
    /\ hits' = {k \in SearchKey : nodes[k] # NoRecord /\ matches(query, nodes[k])}
    /\ matched' = nodes
    /\ UNCHANGED <<nodes, mapped, clock, query, limit, copied, results>>

\* One hit after another is copied, with the time of its latest advert then.
ReadHit(k) ==
    /\ searching = "reading"
    /\ k \in hits
    /\ copied' = [copied EXCEPT ![k] = nodes[k].last]
    /\ hits' = hits \ {k}
    /\ UNCHANGED <<nodes, mapped, clock, query, limit, searching, results, matched>>

AllRead ==
    /\ searching = "reading"
    /\ hits = {}
    /\ searching' = "merging"
    /\ UNCHANGED <<nodes, mapped, clock, query, limit, hits, copied, results, matched>>

\* A hit of each source; a live one hides the directory's entry.
LiveHits == {[key |-> k, last |-> copied[k], source |-> "live"] :
                k \in {j \in SearchKey : copied[j] # NoRecord}}
MapHits  == {[key |-> k, last |-> mapped[k].last, source |-> "map"] :
                k \in {j \in SearchKey : /\ copied[j] = NoRecord
                                         /\ mapped[j] # NoRecord
                                         /\ matchesImported(query, mapped[j])}}

\* The most recent first, then by key.
Before(a, b) == a.last > b.last \/ (a.last = b.last /\ a.key < b.key)

\* Mutant of Ranked: the order of the registry at the time of the match.
RankedAtMatch(all) ==
    LET asMatched(h) == IF h.source = "live" THEN [h EXCEPT !.last = matched[h.key].last] ELSE h
        place(h) == Cardinality({g \in all : Before(asMatched(g), asMatched(h))}) + 1
    IN  [i \in 1..Cardinality(all) |-> CHOOSE h \in all : place(h) = i]

\* sort.Slice over copies that nothing changes any more.
Ranked(all) ==
    LET place(h) == Cardinality({g \in all : Before(g, h)}) + 1
    IN  [i \in 1..Cardinality(all) |-> CHOOSE h \in all : place(h) = i]

Least(m, n) == IF m < n THEN m ELSE n

\* The best of all hits, as many as the limit allows.
Listed ==
    LET all == Ranked(LiveHits \cup MapHits) IN SubSeq(all, 1, Least(limit, Len(all)))

mergedSearch ==
    /\ searching = "merging"
    /\ searching' = "done"
    /\ results' = Listed
    /\ UNCHANGED <<nodes, mapped, clock, query, limit, hits, copied, matched>>

-----------------------------------------------------------------------------
(* What happens meanwhile.                                                 *)

\* An advert: NodeRegistry.Observe.
Sighting(k, n, located) ==
    /\ searching # "done"
    /\ clock <= MaxSightings
    /\ clock' = clock + 1
    /\ nodes' = [nodes EXCEPT ![k] =
           [located |-> located \/ (@ # NoRecord /\ @.located),
            nets    |-> {n} \cup (IF @ = NoRecord THEN {} ELSE @.nets),
            last    |-> clock + 1]]
    /\ UNCHANGED <<mapped, query, limit, searching, hits, copied, results, matched>>

\* A sync replaces the directory: here the entry of a key goes.
Unlist(k) ==
    /\ searching # "done"
    /\ mapped[k] # NoRecord
    /\ mapped' = [mapped EXCEPT ![k] = NoRecord]
    /\ UNCHANGED <<nodes, clock, query, limit, searching, hits, copied, results, matched>>

SearchNext ==
    \/ Match \/ AllRead \/ mergedSearch
    \/ \E k \in SearchKey : ReadHit(k) \/ Unlist(k)
    \/ \E k \in SearchKey, n \in SearchNet, b \in BOOLEAN : Sighting(k, n, b)

SearchSpec == SearchInit /\ [][SearchNext]_searchVars

-----------------------------------------------------------------------------
(* Properties.                                                             *)

SearchTypeOK ==
    /\ nodes \in [SearchKey -> LiveRecord \cup {NoRecord}]
    /\ mapped \in [SearchKey -> MapRecord \cup {NoRecord}]
    /\ clock \in 1..(MaxSightings + 1)
    /\ query \in Filter
    /\ limit \in SearchLimit
    /\ searching \in {"idle", "reading", "merging", "done"}
    /\ hits \subseteq SearchKey
    /\ copied \in [SearchKey -> Nat \cup {NoRecord}]
    /\ matched \in [SearchKey -> LiveRecord \cup {NoRecord}]

\* A node that matched is still in the registry when it is read: nodes are never
\* removed.  What is returned is the list of what was read.
SearchInv ==
    /\ SearchTypeOK
    /\ \A k \in hits : nodes[k] # NoRecord
    /\ searching = "done" => results = Listed

\* Although records change between the match, the sort and the copies
\* (nodes.go:546-579), the results are ordered by the times they show, name a
\* key once, and what the limit cut off ranks behind what is listed.
SearchIsRanked ==
    searching = "done" =>
        LET all == LiveHits \cup MapHits
        IN  /\ \A i, j \in 1..Len(results) : i < j =>
                   /\ Before(results[i], results[j])
                   /\ results[i].key # results[j].key
            /\ \A h \in all :
                   (\A i \in 1..Len(results) : results[i] # h) =>
                       /\ Len(results) = limit
                       /\ \A i \in 1..Len(results) : Before(results[i], h)

\* "Live nodes win on duplicate public keys" (server.go:1133): a key that is
\* live when the search begins is not listed from the directory.
LiveWins ==
    searching = "done" =>
        \A i \in 1..Len(results) :
            results[i].source = "map" => matched[results[i].key] = NoRecord

\* "allowed coverage countries via network metadata" (mapquery.go:32): a search
\* for countries and regions lists live nodes of networks that have them.
OnlyAllowedCountries ==
    searching = "done" /\ AsksMeta(query) =>
        \A i \in 1..Len(results) :
            results[i].source = "live" =>
                matched[results[i].key].nets \cap MetaNetworks(query) # {}

=============================================================================
