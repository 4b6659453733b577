-------------------------- MODULE MCActivityPlayers --------------------------
EXTENDS ActivityPlayers, TLC

CONSTANTS k1, k2, c1, o1, o2, o3

Players == Permutations(Key) \cup Permutations(Object)
=============================================================================
