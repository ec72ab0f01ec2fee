----------------------------- MODULE Directory -----------------------------
(***************************************************************************)
(* The mirror of the external node directory (importer.go; db.go,          *)
(* SaveImportedNodes and SaveImportedNodeHistory; main.go).  A sync        *)
(* fetches the directory, replaces the records in memory, upserts the      *)
(* table in one transaction and the history of publishes in another.  Each *)
(* of these may fail, and a failure ends the sync; the next one starts     *)
(* over with what the directory holds then.  A feed names a key once, as   *)
(* upstream does; of duplicates the tables keep the last.                  *)
(***************************************************************************)
EXTENDS Naturals

CONSTANTS
    DirKey,      \* public keys of the directory
    NoKey,       \* the empty public key, which is not stored
    Publish,     \* what historySig distinguishes of an entry
    NoEntry,     \* a key that is not there
    MaxEdits,    \* bound: changes of the external directory
    MaxRestarts  \* bound: crashes

ASSUME NoKeyAssumption == NoKey \notin DirKey
ASSUME DirBoundsAssumption == MaxEdits \in Nat /\ MaxRestarts \in Nat

\* An entry: the publish, and last_advert, which moves without a new one.
Entry == [sig : Publish, advert : Nat]
ASSUME NoEntryAssumption == NoEntry \notin Entry

AnyKey == DirKey \cup {NoKey}

VARIABLES
    dirUp,      \* the process runs
    upstream,   \* the external directory: key -> Entry or NoEntry
    records,    \* ImportRegistry.records
    importer,   \* syncOnce: "idle", "fetched", "saving", "recording"
    fetched,    \* the records it fetched
    mirror,     \* the table imported_nodes
    publishes,  \* imported_node_history: key -> publish -> last advert, or NoEntry
    edits,      \* changes so far
    restarts    \* crashes so far

dirVars == <<dirUp, upstream, records, importer, fetched, mirror, publishes, edits, restarts>>

NoEntries   == [k \in AnyKey |-> NoEntry]
NoPublishes == [k \in AnyKey |-> [p \in Publish |-> NoEntry]]

DirInit ==
    /\ dirUp = FALSE
    /\ upstream = NoEntries
    /\ records = NoEntries
    /\ importer = "idle"
    /\ fetched = NoEntries
    /\ mirror = NoEntries
    /\ publishes = NoPublishes
    /\ edits = 0
    /\ restarts = 0

-----------------------------------------------------------------------------
(* syncOnce.                                                               *)

\* A fetch that fails leaves everything as it is.
Fetch ==
    /\ dirUp
    /\ importer = "idle"
    /\ importer' = "fetched"
    /\ fetched' = upstream
    /\ UNCHANGED <<dirUp, upstream, records, mirror, publishes, edits, restarts>>

Replace ==
    /\ importer = "fetched"
    /\ importer' = "saving"
    /\ records' = fetched
    /\ UNCHANGED <<dirUp, upstream, fetched, mirror, publishes, edits, restarts>>

Stored(k) == k # NoKey /\ fetched[k] # NoEntry

\* Mutant of UpsertedHistory: a publish on file is left as it is.
UpsertedHistoryOnce ==
    [k \in AnyKey |-> IF Stored(k) /\ publishes[k][fetched[k].sig] = NoEntry
                      THEN [publishes[k] EXCEPT ![fetched[k].sig] = fetched[k].advert]
                      ELSE publishes[k]]

\* What the transactions write: keys that are gone stay.
UpsertedNodes == [k \in AnyKey |-> IF Stored(k) THEN fetched[k] ELSE mirror[k]]
UpsertedHistory ==
    [k \in AnyKey |-> IF Stored(k) THEN [publishes[k] EXCEPT ![fetched[k].sig] = fetched[k].advert]
                      ELSE publishes[k]]

\* The count that is refreshed after the commit may fail the save as well.
SaveImportedNodes ==
    /\ importer = "saving"
    /\ mirror' = UpsertedNodes
    /\ importer' \in {"recording", "idle"}
    /\ UNCHANGED <<dirUp, upstream, records, fetched, publishes, edits, restarts>>

SaveImportedNodeHistory ==
    /\ importer = "recording"
    /\ publishes' = UpsertedHistory
    /\ importer' = "idle"
    /\ UNCHANGED <<dirUp, upstream, records, fetched, mirror, edits, restarts>>

SyncFails ==
    /\ importer \in {"saving", "recording"}
    /\ importer' = "idle"
    /\ UNCHANGED <<dirUp, upstream, records, fetched, mirror, publishes, edits, restarts>>

-----------------------------------------------------------------------------
(* The process and the directory.                                          *)

\* main: the table is read back, an error or an empty table leaves no records.
DirStart ==
    /\ ~dirUp
    /\ dirUp' = TRUE
    /\ records' \in {mirror, NoEntries}
    /\ UNCHANGED <<upstream, importer, fetched, mirror, publishes, edits, restarts>>

DirCrash ==
    /\ dirUp
    /\ restarts < MaxRestarts
    /\ restarts' = restarts + 1
    /\ dirUp' = FALSE
    /\ records' = NoEntries
    /\ importer' = "idle"
    /\ fetched' = NoEntries
    /\ UNCHANGED <<upstream, mirror, publishes, edits>>

\* A node is published, published again, removed, or only heard again.
Edit(k) ==
    /\ edits < MaxEdits
    /\ edits' = edits + 1
    /\ \/ \E p \in Publish : upstream' = [upstream EXCEPT ![k] = [sig |-> p, advert |-> edits]]
       \/ upstream[k] # NoEntry /\ upstream' = [upstream EXCEPT ![k].advert = edits]
       \/ upstream' = [upstream EXCEPT ![k] = NoEntry]
    /\ UNCHANGED <<dirUp, records, importer, fetched, mirror, publishes, restarts>>

Sync == Fetch \/ Replace \/ SaveImportedNodes \/ SaveImportedNodeHistory \/ SyncFails

DirNext == Sync \/ DirStart \/ DirCrash \/ \E k \in AnyKey : Edit(k)

\* Syncs go on, and a save does not fail for ever: what it does when it
\* succeeds is repeated whenever it can be repeated.
SaveSucceeds == SaveImportedNodes /\ importer' = "recording"
DirFairness ==
    /\ WF_dirVars(DirStart)
    /\ WF_dirVars(Sync)
    /\ SF_dirVars(SaveSucceeds)
    /\ SF_dirVars(SaveImportedNodeHistory)

DirSpec == DirInit /\ [][DirNext]_dirVars /\ DirFairness

-----------------------------------------------------------------------------
(* Properties.                                                             *)

DirTypeOK ==
    /\ dirUp \in BOOLEAN
    /\ {upstream, records, fetched, mirror} \subseteq [AnyKey -> Entry \cup {NoEntry}]
    /\ importer \in {"idle", "fetched", "saving", "recording"}
    /\ publishes \in [AnyKey -> [Publish -> Nat \cup {NoEntry}]]
    /\ edits \in 0..MaxEdits
    /\ restarts \in 0..MaxRestarts

\* Memory, table and history agree with the directory.
Captured ==
    /\ records = upstream
    /\ \A k \in DirKey : upstream[k] # NoEntry =>
           mirror[k] = upstream[k] /\ publishes[k][upstream[k].sig] = upstream[k].advert

\* However syncs fail halfway and crashes fall between the replacement and the
\* two transactions (importer.go:236-252), a directory that rests ends up in
\* memory, in the table and in the history.
EventuallyCaptured == <>[]Captured

=============================================================================
