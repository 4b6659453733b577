--------------------------- MODULE MCSessionSystem ---------------------------
EXTENDS SessionSystem, TLC

Symmetry == Permutations(Session) \cup Permutations(Player) \cup Permutations(Op)
=============================================================================
