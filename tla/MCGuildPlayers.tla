--------------------------- MODULE MCGuildPlayers ---------------------------
EXTENDS GuildPlayers, TLC

CONSTANTS k1, k2, c1, c2, o1, o2, o3

=============================================================================
