--------------------------- MODULE MCNodeRegistry ---------------------------
(***************************************************************************)
(* NodeRegistry for TLC.                                                   *)
(***************************************************************************)
EXTENDS NodeRegistry, TLC

CONSTANTS k1, k2, n1, n2, p1, p2

OneKey == {k1}
TwoKeys == {k1, k2}
OneNet == {n1}
TwoNets == {n1, n2}
NoPositions == {}
TwoPositions == {p1, p2}

\* Coverage: n1 covers only p1, n2 covers both positions.
NoCoverage == {}
Coverage == {<<n1, p1>>, <<n2, p1>>, <<n2, p2>>}

KeySymmetry == Permutations(TwoKeys)
=============================================================================
