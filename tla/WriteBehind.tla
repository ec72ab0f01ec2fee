---------------------------- MODULE WriteBehind ----------------------------
(***************************************************************************)
(* The write-behind protocol that the node, observer and link registries   *)
(* share.  A registry keeps its rows in memory and remembers which of them *)
(* changed since the last flush (the dirty set).  One flush loop per       *)
(* registry takes the dirty rows (TakeDirty, under the registry lock),     *)
(* writes the copies to SQLite without the lock, and either forgets them   *)
(* (the transaction committed) or marks them dirty again (Requeue).  Rows  *)
(* change while a flush is on its way.  A crash loses everything but the   *)
(* table, and a start reloads the table.                                   *)
(***************************************************************************)
EXTENDS Naturals

CONSTANTS
    Key,          \* primary keys of the registry
    Value,        \* contents of a row
    Absent,       \* "no row": a key the registry or the table does not hold
    LoadMayFail   \* may the load at startup fail (main only logs a warning)?

ASSUME AbsentAssumption == Absent \notin Value
ASSUME LoadMayFailAssumption == LoadMayFail \in BOOLEAN

VARIABLES
    up,       \* is the process running, its persisted state restored?
    cache,    \* the registry's map: Key -> row
    dirty,    \* keys changed since the last successful flush took them
    flush,    \* the flush loop: "idle", "saving" or "failed"
    batch,    \* the copies a flush holds: Key -> row, Absent when not taken
    table     \* the SQLite table: Key -> row

vars == <<up, cache, dirty, flush, batch, table>>

Rows   == [Key -> Value \cup {Absent}]
NoRows == [k \in Key |-> Absent]

TypeOK ==
    /\ up \in BOOLEAN
    /\ cache \in Rows
    /\ dirty \in SUBSET Key
    /\ flush \in {"idle", "saving", "failed"}
    /\ batch \in Rows
    /\ table \in Rows

Init ==
    /\ up = FALSE
    /\ cache = NoRows
    /\ dirty = {}
    /\ flush = "idle"
    /\ batch = NoRows
    /\ table = NoRows

-----------------------------------------------------------------------------
\* Any operation that changes rows: it never deletes one, and marks at least
\* the rows it changed dirty in the critical section that changed them.
Write ==
    /\ up
    /\ cache' \in Rows
    /\ \A k \in Key : cache'[k] = Absent => cache[k] = Absent
    /\ dirty' \in SUBSET Key
    /\ dirty \cup {k \in Key : cache'[k] # cache[k]} \subseteq dirty'
    /\ \A k \in dirty' : cache'[k] # Absent
    /\ UNCHANGED <<up, flush, batch, table>>

\* Mutant of SaveCommits: dirty marks are cleared when the flush ends as well as
\* when the copies are taken, so a change made meanwhile is forgotten.
SaveCommitsThenClears ==
    /\ flush = "saving"
    /\ table' = [k \in Key |-> IF batch[k] # Absent THEN batch[k] ELSE table[k]]
    /\ dirty' = {k \in dirty : batch[k] = Absent}
    /\ batch' = NoRows
    /\ flush' = "idle"
    /\ UNCHANGED <<up, cache>>

\* The flush loop's tick: copy the dirty rows and clear the dirty set.
TakeDirty ==
    /\ up
    /\ flush = "idle"
    /\ dirty # {}
    /\ batch' = [k \in Key |-> IF k \in dirty THEN cache[k] ELSE Absent]
    /\ dirty' = {}
    /\ flush' = "saving"
    /\ UNCHANGED <<up, cache, table>>

\* The transaction commits: every copy replaces its row of the table.
SaveCommits ==
    /\ flush = "saving"
    /\ table' = [k \in Key |-> IF batch[k] # Absent THEN batch[k] ELSE table[k]]
    /\ batch' = NoRows
    /\ flush' = "idle"
    /\ UNCHANGED <<up, cache, dirty>>

\* The transaction fails: the deferred rollback leaves the table as it was.
SaveFails ==
    /\ flush = "saving"
    /\ flush' = "failed"
    /\ UNCHANGED <<up, cache, dirty, batch, table>>

\* Mutant of Requeue: the rows of the failed flush are dropped.
RequeueForgets ==
    /\ flush = "failed"
    /\ batch' = NoRows
    /\ flush' = "idle"
    /\ UNCHANGED <<up, cache, dirty, table>>

\* Mark the rows of the failed flush dirty, those the registry still holds.
Requeue ==
    /\ flush = "failed"
    /\ dirty' = dirty \cup {k \in Key : batch[k] # Absent /\ cache[k] # Absent}
    /\ batch' = NoRows
    /\ flush' = "idle"
    /\ UNCHANGED <<up, cache, table>>

Crash ==
    /\ up
    /\ up' = FALSE
    /\ cache' = NoRows
    /\ dirty' = {}
    /\ flush' = "idle"
    /\ batch' = NoRows
    /\ UNCHANGED table

\* A start reloads the table; when the load fails the registry starts empty.
Start ==
    /\ ~up
    /\ up' = TRUE
    /\ \/ cache' = table
       \/ LoadMayFail /\ cache' = NoRows
    /\ UNCHANGED <<dirty, flush, batch, table>>

Next ==
    \/ Write
    \/ TakeDirty
    \/ SaveCommits
    \/ SaveFails
    \/ Requeue
    \/ Crash
    \/ Start

Spec == Init /\ [][Next]_vars

\* The flush loop's ticker keeps firing, a failed flush is requeued at once,
\* the process is restarted after a crash, and the database does not reject
\* every attempt for ever.
Fairness ==
    /\ WF_vars(TakeDirty)
    /\ WF_vars(SaveCommits \/ SaveFails)
    /\ SF_vars(SaveCommits)
    /\ WF_vars(Requeue)
    /\ WF_vars(Start)

FairSpec == Spec /\ Fairness

-----------------------------------------------------------------------------
\* A row whose durable copy is out of date is dirty, or is in the batch of a
\* flush that has not ended (nodes.go TakeDirty/Requeue): no change is ever
\* forgotten, whatever changes while the flush is on its way.
NoLostUpdate ==
    \A k \in Key :
        cache[k] # Absent /\ cache[k] # table[k]
            => k \in dirty \/ batch[k] # Absent

\* What makes NoLostUpdate inductive: the copy that a flush will write is the
\* row's current contents, unless the row became dirty again after the copy.
BatchIsCurrent ==
    \A k \in Key : batch[k] # Absent /\ k \notin dirty => batch[k] = cache[k]

\* A batch is held only by a flush, every row in it and every dirty row is one
\* the registry still holds, and a stopped process holds nothing.
HeldRows ==
    /\ flush = "idle" => batch = NoRows
    /\ \A k \in Key : batch[k] # Absent \/ k \in dirty => cache[k] # Absent
    /\ ~up => cache = NoRows

\* No change is lost, and why: the inductive invariant of the protocol.
ProtocolInv == TypeOK /\ NoLostUpdate /\ BatchIsCurrent /\ HeldRows

\* Again and again every row the registry holds is durable as it is: failed
\* flushes are retried, and no row that rests stays behind (main.go:244-301).
EventuallyDurable ==
    \A k \in Key : []<>(cache[k] = Absent \/ table[k] = cache[k])
=============================================================================
