------------------------- MODULE MCObserverRegistry -------------------------
(***************************************************************************)
(* ObserverRegistry for TLC.                                               *)
(***************************************************************************)
EXTENDS ObserverRegistry

CONSTANTS k1, k2, n1

OneKey  == {k1}
TwoKeys == {k1, k2}
OneNet  == {n1}

MCValue == [observations : 1..(2 * MaxReports + 2), networks : SUBSET NetworkID]

\* No row of an older version, or one.
NoLegacy  == [k \in Key |-> Absent]
OneLegacy == [k \in Key |-> [observations |-> 1, networks |-> {n1}]]
=============================================================================
