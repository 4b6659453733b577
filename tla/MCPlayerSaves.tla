---------------------------- MODULE MCPlayerSaves ----------------------------
EXTENDS PlayerSaves

CONSTANTS p1, p2, w1, w2
=============================================================================
