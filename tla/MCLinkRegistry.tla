--------------------------- MODULE MCLinkRegistry ---------------------------
(***************************************************************************)
(* LinkRegistry for TLC.                                                   *)
(***************************************************************************)
EXTENDS LinkRegistry, TLC

CONSTANTS h1, h2, n1, n2, p1, p2

TwoNodes == 1..2
OneHash  == {h1}
TwoHashes == {h1, h2}
OneNet   == {n1}
TwoNets  == {n1, n2}
NoPositions == {}
OnePosition == {p1}
TwoPositions == {p1, p2}
NoFar == {}
AllFar == {<<p1, p2>>, <<p2, p1>>}
TwoRoutes == {"flood", "direct"}
TwoKinds == {<<"flood", FALSE>>, <<"direct", TRUE>>}
OneKind  == {<<"flood", FALSE>>}

\* A packet that crosses the link once, and one that returns over it.
Paths == {<<1>>, <<2, 1, 2>>}
OnePath == {<<1>>}

Symmetry == Permutations(TwoNets) \cup Permutations(TwoHashes)
=============================================================================
