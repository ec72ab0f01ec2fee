------------------------------ MODULE Shutdown ------------------------------
(***************************************************************************)
(* How the process ends (main.go): a signal cancels the context, on which  *)
(* five flush loops save once more and a goroutine shuts the HTTP server   *)
(* down.  main waits for the server alone; when it returns from            *)
(* ListenAndServe it closes the databases and the process is gone.         *)
(***************************************************************************)
EXTENDS Naturals

CONSTANTS
    Collection,  \* what is flushed: counters, nodes, adverts, links, observers
    Links,       \* the collection that waits for its restore
    MaxChanges   \* bound: changes of each collection

VARIABLES
    cancelled,    \* ctx is done
    restored,     \* linkRestoreDone is closed
    held,         \* version of each collection in memory
    saved,        \* version of each collection in its table
    loop,         \* flush loop: "waiting", "saving", "last", "returned"
    taken,        \* version the loop is saving
    writers,      \* the loops that hold db.write or db.linkWrite
    atSignal,     \* history: held when the signal came
    failed,       \* history: collections a save of which failed by itself
    listening,    \* ListenAndServe has not returned
    main          \* "serving", "closing", "exited"

shutVars == <<cancelled, restored, held, atSignal, saved, loop, taken, writers, failed, listening, main>>

ShutInit ==
    /\ cancelled = FALSE
    /\ restored \in BOOLEAN
    /\ held = [c \in Collection |-> 0]
    /\ saved = held
    /\ loop = [c \in Collection |-> "waiting"]
    /\ taken = held
    /\ writers = {}
    /\ atSignal = held
    /\ failed = {}
    /\ listening = TRUE
    /\ main = "serving"

Running == main # "exited"

\* The collector hears on until it notices the signal, which may take a while.
Change(c) ==
    /\ Running
    /\ held[c] < MaxChanges
    /\ held' = [held EXCEPT ![c] = @ + 1]
    /\ UNCHANGED <<cancelled, restored, atSignal, saved, loop, taken, writers, failed, listening, main>>

RestoreLinks ==
    /\ Running
    /\ ~restored
    /\ restored' = TRUE
    /\ UNCHANGED <<cancelled, held, atSignal, saved, loop, taken, writers, failed, listening, main>>

Signal ==
    /\ main = "serving"
    /\ ~cancelled
    /\ cancelled' = TRUE
    /\ atSignal' = held
    /\ UNCHANGED <<restored, held, saved, loop, taken, writers, failed, listening, main>>

\* A loop's tick, or its last turn: it takes what there is to save.
Flush(c) ==
    /\ Running
    /\ loop[c] = "waiting"
    /\ c = Links => restored
    /\ loop' = [loop EXCEPT ![c] = IF cancelled THEN "last" ELSE "saving"]
    /\ taken' = [taken EXCEPT ![c] = held[c]]
    /\ UNCHANGED <<cancelled, restored, held, atSignal, saved, writers, failed, listening, main>>

\* The last turn of the link loop while the links are not restored.
SkipFlush(c) ==
    /\ Running
    /\ loop[c] = "waiting"
    /\ c = Links /\ ~restored /\ cancelled
    /\ loop' = [loop EXCEPT ![c] = "returned"]
    /\ UNCHANGED <<cancelled, restored, held, atSignal, saved, taken, writers, failed, listening, main>>

\* A save begins its transaction.  Saves to one database follow one another; the
\* links have their own.
LockWrite(c) ==
    /\ main = "serving"
    /\ loop[c] \in {"saving", "last"}
    /\ c \notin writers
    /\ c # Links => writers \subseteq {Links}
    /\ writers' = writers \cup {c}
    /\ UNCHANGED <<cancelled, restored, held, atSignal, saved, loop, taken, failed, listening, main>>

AfterSave(c) == IF loop[c] = "last" THEN "returned" ELSE "waiting"

\* Closing the database leaves a transaction that has begun its connection.
Save(c) ==
    /\ Running
    /\ c \in writers
    /\ writers' = writers \ {c}
    /\ saved' = [saved EXCEPT ![c] = taken[c]]
    /\ loop' = [loop EXCEPT ![c] = AfterSave(c)]
    /\ UNCHANGED <<cancelled, restored, held, atSignal, taken, failed, listening, main>>

\* The save fails, of itself or because the database is closed; on a closed one
\* it cannot begin.
SaveErrs(c) ==
    /\ Running
    /\ \/ c \in writers
       \/ main = "closing" /\ loop[c] \in {"saving", "last"}
    /\ writers' = writers \ {c}
    /\ failed' = IF main = "serving" THEN failed \cup {c} ELSE failed
    /\ loop' = [loop EXCEPT ![c] = AfterSave(c)]
    /\ UNCHANGED <<cancelled, restored, held, atSignal, saved, taken, listening, main>>

\* srv.Shutdown makes ListenAndServe return at once.
ShutdownServer ==
    /\ cancelled
    /\ listening
    /\ listening' = FALSE
    /\ UNCHANGED <<cancelled, restored, held, atSignal, saved, loop, taken, writers, failed, main>>

\* The deferred db.Close, then the process exits with whatever runs in it.
CloseDB ==
    /\ main = "serving"
    /\ ~listening
    /\ main' = "closing"
    /\ UNCHANGED <<cancelled, restored, held, atSignal, saved, loop, taken, writers, failed, listening>>

Exit ==
    /\ main = "closing"
    /\ main' = "exited"
    /\ UNCHANGED <<cancelled, restored, held, atSignal, saved, loop, taken, writers, failed, listening>>

ShutNext ==
    \/ RestoreLinks \/ Signal \/ ShutdownServer \/ CloseDB \/ Exit
    \/ \E c \in Collection :
           \/ Change(c) \/ Flush(c) \/ SkipFlush(c)
           \/ LockWrite(c) \/ Save(c) \/ SaveErrs(c)

ShutSpec == ShutInit /\ [][ShutNext]_shutVars

\* "final flush captures the latest state before exit" (main.go:224): when the
\* process has exited, what was in memory at the signal is in the tables,
\* unless a save failed by itself.
FinalFlushCaptures ==
    main = "exited" => \A c \in Collection \ failed : saved[c] >= atSignal[c]

=============================================================================
