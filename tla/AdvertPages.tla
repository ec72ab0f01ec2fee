---------------------------- MODULE AdvertPages ----------------------------
(***************************************************************************)
(* Reading a node's advert history page by page (server.go,                *)
(* handleNodeAdverts; db.go, AdvertsForNode) while the history flush       *)
(* appends to the table (db.go, AppendAdverts).  A page is one query; the  *)
(* reader passes the cursor of the last page to get the next one.          *)
(***************************************************************************)
EXTENDS Integers, Sequences, FiniteSets

CONSTANTS
    PubKey,    \* nodes
    Batch,     \* the sequences of adverts, by node, a flush may append
    Limit,     \* page sizes a client may ask for
    MaxAdverts \* bound: adverts in the table

ASSUME BatchAssumption == Batch \subseteq Seq(PubKey)
ASSUME LimitAssumption == Limit \subseteq Nat \ {0}
ASSUME MaxAdvertsAssumption == MaxAdverts \in Nat

VARIABLES
    history,  \* the adverts table: whose advert each is, in the order of the ids
    asking,   \* the node whose history is read
    page,     \* the ids of the last page
    before,   \* the cursor of the next page, 0 for the newest
    hasMore,  \* was there more?
    shown,    \* history variable: the ids on all pages so far
    horizon   \* history variable: the newest id when the first page was read

pagesVars == <<history, asking, page, before, hasMore, shown, horizon>>

Ids == DOMAIN history

PagesTypeOK ==
    /\ history \in Seq(PubKey)
    /\ asking \in PubKey
    /\ page \subseteq Ids
    /\ before \in {0} \cup Ids
    /\ hasMore \in BOOLEAN
    /\ shown \subseteq Ids
    /\ horizon \in {0} \cup Ids

PagesInit ==
    /\ history = <<>>
    /\ asking \in PubKey
    /\ page = {}
    /\ before = 0
    /\ hasMore = TRUE
    /\ shown = {}
    /\ horizon = 0

-----------------------------------------------------------------------------

\* AppendAdverts: one transaction; the ids grow.
AppendBatch ==
    \E b \in Batch :
        /\ Len(history) + Len(b) <= MaxAdverts
        /\ history' = history \o b
        /\ UNCHANGED <<asking, page, before, hasMore, shown, horizon>>

\* ORDER BY id DESC LIMIT n
Newest(S, n) == {i \in S : Cardinality({j \in S : j > i}) < n}

\* The query of AdvertsForNode.
AdvertsForNode(n, limit, cursor) ==
    Newest({i \in Ids : history[i] = n /\ (cursor > 0 => i < cursor)}, limit)

\* Mutant of LastScanned: the cursor is the newest id of the page.
LastScannedNewest(rows) == CHOOSE i \in rows : \A j \in rows : i >= j

\* The id of the last row scanned, which is the smallest.
LastScanned(rows) == CHOOSE i \in rows : \A j \in rows : i <= j

\* handleNodeAdverts for the next page.  (A query that fails is an answer
\* without a page, after which the client asks again.)
handleNodeAdverts ==
    /\ hasMore
    /\ \E limit \in Limit :
         LET rows == AdvertsForNode(asking, limit, before) IN
         /\ page' = rows
         /\ hasMore' = (Cardinality(rows) = limit)
         /\ before' = IF Cardinality(rows) = limit THEN LastScanned(rows) ELSE before
         /\ shown' = shown \cup rows
    /\ horizon' = IF before = 0 THEN Len(history) ELSE horizon
    /\ UNCHANGED <<history, asking>>

PagesNext == AppendBatch \/ handleNodeAdverts

PagesSpec == PagesInit /\ [][PagesNext]_pagesVars

-----------------------------------------------------------------------------

RowsOf(n) == {i \in Ids : history[i] = n}

\* The pages read so far are the newest part of the node's history as it was
\* when the first page was read.
ShownIsNewest == shown = {i \in RowsOf(asking) : i <= horizon /\ (hasMore => i >= before)}

\* Following the cursors (db.go:861-866) reads the history of the node as it was
\* at the first page, without a gap, a repetition or an end before the oldest
\* advert, however much is appended meanwhile.
PagesAreHistory ==
    /\ ShownIsNewest
    /\ [][ShownIsNewest' /\ (handleNodeAdverts => page' \cap shown = {})]_pagesVars

=============================================================================
