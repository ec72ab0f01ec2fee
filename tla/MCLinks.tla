------------------------------ MODULE MCLinks ------------------------------
(***************************************************************************)
(* One link for TLC, in two scenarios, so that the state space is the sum  *)
(* of theirs: "counts" repeats one packet hash on both networks, "moves"   *)
(* lets the endpoints move between two packets of one network.             *)
(***************************************************************************)
EXTENDS MCLinkRegistry

VARIABLES
    scenario,  \* "counts" or "moves"
    onHashes,  \* the hashes packets have
    onNets     \* the networks that hear them

MCInit ==
    /\ Init
    /\ \/ scenario = "counts" /\ onHashes \in {{h} : h \in Hash} /\ onNets = NetworkID
       \/ scenario = "moves"  /\ onHashes = Hash /\ onNets \in {{n} : n \in NetworkID}

\* The packets of the scenario; in "moves" they cross the link one way.
Observed ==
    \E h \in onHashes, n \in onNets, kind \in Kind, path \in Path, o \in Node \cup {Invalid} :
        /\ scenario = "moves" => kind = <<"flood", FALSE>> /\ path = <<1>> /\ o = 2
        /\ ObservePath(h, n, kind, path, o)

MCNext ==
    \/ Observed
    \/ ObserveLink
    \/ scenario = "moves" /\ \E n \in Node, p \in Position : MoveNode(n, p)
    \/ Restore
    \/ FlushLoop
    \/ sweep
    \/ Tick
    \/ Crash
    \/ Start

\* Loads fail in "moves" only, which is over sooner.
MCStep ==
    /\ MCNext
    /\ IF scenario = "counts" THEN loadFailed' = FALSE ELSE now' <= 2
    /\ UNCHANGED <<scenario, onHashes, onNets>>

MCSpec == MCInit /\ [][MCStep]_<<vars, scenario, onHashes, onNets>>
=============================================================================
