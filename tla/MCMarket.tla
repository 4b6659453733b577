------------------------------ MODULE MCMarket ------------------------------
EXTENDS MarketSystem, TLC

CONSTANTS p1, p2, g1, g2, f1

\* Two pets with the same ItemId, of two players.
SameKind == g1 :> "pet" @@ g2 :> "pet"

\* The same and a fashion.
PetsAndFashion == SameKind @@ f1 :> "fashion"

Pets == {"pet"}

=============================================================================
