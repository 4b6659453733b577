----------------------------- MODULE BattleConn -----------------------------
(***************************************************************************)
(* The connections of the battle server (pkg/network, server/router) and   *)
(* the channels over which they reach the game they are for.  A connection *)
(* has goroutines of its own; whoever closes it first runs its OnClose,    *)
(* which blocks while the game's outChan is full.                          *)
(***************************************************************************)
EXTENDS Sequences, FiniteSets, Functions

CONSTANTS
    Player,     \* who plays the game
    Conn,       \* connections, each used once
    None,       \* no player, no connection
    OutCap,     \* the capacity of outChan
    MaxMsgs     \* bounds the messages that wait in msgQ

ASSUME ConnAssumption ==
    OutCap \in Nat \ {0} /\ MaxMsgs \in Nat /\ None \notin Player \cup Conn /\ IsFiniteSet(Conn)

VARIABLES
    conn,       \* the connections
    inChan,     \* connections that the game has not been told of
    outChan,    \* closed connections that the game has not been told of
    msgQ        \* messages of players to the game

connVars == <<conn, inChan, outChan, msgQ>>

\* at: whose callbacks the connection calls; closing: OnClose has still to reach the
\* game; told: its client has reported that everything is loaded; early: it was closed before the game knew it.
ConnState == [at : {"free", "router", "game"}, open : BOOLEAN, closing : BOOLEAN,
              id : Player \cup {None}, told : BOOLEAN, early : BOOLEAN]
Kind == {"ping", "loading", "loaded", "over"}
Message == [id : Player, kind : Kind]

ConnTypeOK ==
    /\ conn \in [Conn -> ConnState]
    /\ inChan \in Seq(Conn) /\ outChan \in Seq(Conn) /\ msgQ \in Seq(Message)

ConnInit ==
    /\ conn = [c \in Conn |->
           [at |-> "free", open |-> FALSE, closing |-> FALSE, id |-> None, told |-> FALSE,
            early |-> FALSE]]
    /\ inChan = <<>> /\ outChan = <<>> /\ msgQ = <<>>

-----------------------------------------------------------------------------
(* What clients and the goroutines of a connection do. *)

\* A connection is accepted and says C2SConnectMsg for a game that exists and is not over;
\* what else the router answers leaves the connection as it is.
Identify(c, p) ==
    /\ conn[c].at = "free"
    /\ conn' = [conn EXCEPT ![c].at = "router", ![c].open = TRUE, ![c].id = p]
    /\ UNCHANGED <<inChan, outChan, msgQ>>

\* Game.OnConnect: from here on the callbacks are the game's, also if the connection is
\* closed by now, which its OnClose has told the router.
Hand(c) ==
    /\ conn[c].at = "router"
    /\ conn' = [conn EXCEPT ![c].at = "game"]
    /\ inChan' = Append(inChan, c)
    /\ UNCHANGED <<outChan, msgQ>>

\* Game.OnMessage; without an identity the connection is closed.
Receive(c, kind) ==
    /\ conn[c].at = "game" /\ conn[c].open /\ conn[c].id # None
    /\ Len(msgQ) < MaxMsgs
    /\ msgQ' = Append(msgQ, [id |-> conn[c].id, kind |-> kind])
    /\ conn' = [conn EXCEPT ![c].told = @ \/ kind = "loaded"]
    /\ UNCHANGED <<inChan, outChan>>

Waiting == Range(inChan)

\* Conn.Close by one of the connection's goroutines, up to OnClose.
Drop(c) ==
    /\ conn[c].open
    /\ conn' = [conn EXCEPT ![c].open = FALSE, ![c].closing = conn[c].at = "game",
                              ![c].early = conn[c].at = "router" \/ c \in Waiting]
    /\ UNCHANGED <<inChan, outChan, msgQ>>

\* Game.OnClose has room in outChan.
OnClose(c) ==
    /\ conn[c].closing /\ Len(outChan) < OutCap
    /\ conn' = [conn EXCEPT ![c].closing = FALSE]
    /\ outChan' = Append(outChan, c)
    /\ UNCHANGED <<inChan, msgQ>>

-----------------------------------------------------------------------------
(* What the game's goroutine does to connections. *)

\* Mutation of ClosedByGame: OnClose is called for closed connections too.
ClosedByGameAgain(C) == C

\* closeOnce: who closes a closed connection does nothing.
ClosedByGame(C) == {c \in C : conn[c].open}

\* The goroutine waits for another that is closing one of the connections of C.
WaitsFor(C) == \E c \in C : conn[c].closing

\* It waits for ever, since only itself can make room in outChan.
Hangs(C) ==
    \/ Len(outChan) + Cardinality(ClosedByGame(C)) > OutCap
    \/ WaitsFor(C) /\ Len(outChan) = OutCap

\* The connections of C are closed and told to outChan, in some order; `forgets` of
\* them loses its identity.
Closes(C, forgets) == LET D == ClosedByGame(C) IN
    /\ ~WaitsFor(C) /\ ~Hangs(C)
    /\ conn' = [c \in Conn |-> [conn[c] EXCEPT !.open = @ /\ c \notin D,
                                               !.id = IF c = forgets THEN None ELSE @]]
    /\ \E s \in Surjection(1 .. Cardinality(D), D) : outChan' = outChan \o s
=============================================================================
