------------------------ MODULE MCProductGovernance ------------------------
(***************************************************************************)
(* Small instances of ProductGovernance: two suggestion ids, a high-risk   *)
(* and a plain name, two administrators.                                   *)
(***************************************************************************)
EXTENDS ProductGovernance

CONSTANTS deposit, fund, ana, bob, none, k1, k2, a1, a2

MCSids == 1..2
MCNames == {deposit, fund}
MCHighRisk == {fund}
MCHandMade == {deposit}
MCStaff == {ana, bob}

MCAna == {ana}
MCNoNames == {}

\* A product_id for every name, and one that two names share.
MCOwnSlug == [n \in Names |-> n]
MCSharedSlug == [n \in Names |-> deposit]
=============================================================================
