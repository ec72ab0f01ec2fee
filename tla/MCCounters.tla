----------------------------- MODULE MCCounters -----------------------------
(***************************************************************************)
(* The counters of one analyzer for TLC, with an action constraint that    *)
(* keeps apart long histories without a flush (packets, sweeps, requests   *)
(* for the statistics) and shorter ones with counter flushes and a crash.  *)
(***************************************************************************)
EXTENDS MCIngest

\* Nothing but a request for the statistics advanced a ring.
requested == counters' # counters /\ UNCHANGED <<up, packet, sweepVars>>

\* Once a flush began or a crash happened, the history stays short: time,
\* packets (one fewer after the crash), and no requests.
Flushed == flush' # "idle" \/ crashes' > 0 \/ \E s \in Scope : table'[s] # NoState

ShortOnceFlushed ==
    Flushed => now' <= 3 /\ packets' + crashes' <= 2 /\ ~requested
=============================================================================
