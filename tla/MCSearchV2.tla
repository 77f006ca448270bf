----------------------------- MODULE MCSearchV2 -----------------------------
EXTENDS Proposers

CONSTANTS c1, c2, c3, c4

Default == {c1}
TwoSeeds == <<0, 1>>
TwoPromotions == <<2, 3>>
=============================================================================
