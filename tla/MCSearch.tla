------------------------------ MODULE MCSearch ------------------------------
(***************************************************************************)
(* Search for TLC: two networks, each of a country and a radio region, and *)
(* searches for both, which no network may have together.                  *)
(***************************************************************************)
EXTENDS Search, TLC

CONSTANTS m1, m2, cz, us, eu868, us915

TwoNets == {m1, m2}
Countries == (m1 :> {cz}) @@ (m2 :> {us})
Regions == (m1 :> {eu868}) @@ (m2 :> {us915})

In(cs, rs) == [located |-> "any", nets |-> {}, countries |-> cs, regions |-> rs]
Searches == {In({cz}, {}), In({cz}, {eu868}), In({cz}, {us915})}
=============================================================================
