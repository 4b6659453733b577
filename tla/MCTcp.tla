------------------------------- MODULE MCTcp --------------------------------
(***************************************************************************)
(* A TCP server with one session, one agent that sends, and a queue of one *)
(* message, checked by TLC.                                                *)
(***************************************************************************)
EXTENDS TcpServer

CONSTANTS s1, h1
MCShardOf == [s \in Session |-> h1]
=============================================================================
