------------------------------ MODULE MCBattle ------------------------------
(***************************************************************************)
(* The battle server checked by TLC: a player whose connections come, are  *)
(* replaced and break at any moment of a short game.                       *)
(***************************************************************************)
EXTENDS BattleGame

\* A game ends and is forgotten, within its hour, whatever its players do, unless its
\* goroutine waits for itself.
EveryGameEnds == loop = "running" ~> loop \in {"gone", "stuck"}

\* gameRun.go says at the place where a player's connection is replaced: "If client.Close()
\* were called here, it would kick the player who has just come in".
NewcomerIsNeverKicked ==
    [][OnLeaveGame => \A p \in Player : LET c == players[p].client IN
           c # None /\ conn[c].open => conn'[c].open]_vars
=============================================================================
