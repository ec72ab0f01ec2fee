------------------------------ MODULE MCIngest ------------------------------
(***************************************************************************)
(* Ingest for TLC: one network with one or two analyzers.                  *)
(***************************************************************************)
EXTENDS Ingest, TLC

CONSTANTS net, a1, a2, h1, o1, r1, adv, s1, s2

OneNet == {net}
OneAnalyzer == {a1}
TwoAnalyzers == {a1, a2}
Observers == {o1}
Nodes == {o1, r1}
Hashes == {h1}
Types == {adv}
OneSource == {s1}
TwoSources == {s1, s2}
NoFilter == {}

JustA1 == <<[id |-> net, analyzers |-> <<a1>>]>>
Both   == <<[id |-> net, analyzers |-> <<a1, a2>>]>>
JustA2 == <<[id |-> net, analyzers |-> <<a2>>]>>
FixedCatalog == {JustA1}
Catalogs == {JustA1, Both}
OneOrOther == {JustA1, JustA2}

\* Sources map to analyzers by index; the second one may be missing, in the
\* answer or in the catalog.
OnlyFirst == s1 :> <<net, 0>>
FirstAndSecond == OnlyFirst @@ (s2 :> <<net, 1>>)
FixedSources == {OnlyFirst}
AnySources == {OnlyFirst, FirstAndSecond}

\* An observed packet that passed a relay, and one without an observer.
ByObserver == [hash |-> h1, observer |-> o1, nodes |-> {r1}, type |-> adv]
Anonymous == [hash |-> h1, observer |-> NoObserver, nodes |-> {}, type |-> NoType]
Packets == {ByObserver, Anonymous}
OnePacket == {ByObserver}
=============================================================================
