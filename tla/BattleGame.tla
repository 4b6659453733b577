----------------------------- MODULE BattleGame -----------------------------
(***************************************************************************)
(* A lockstep game of the battle server (logic/game): its goroutine takes  *)
(* ticks, connections that came, connections that left and messages, in    *)
(* any order.                                                              *)
(***************************************************************************)
EXTENDS BattleConn

CONSTANTS
    Offset,     \* BroadcastOffsetFrames
    MaxFrame    \* MaxGameFrame

ASSUME GameAssumption == Offset \in Nat \ {0} /\ MaxFrame \in Nat

VARIABLES
    loop,       \* where Game.Run is
    game,       \* the state of GameRun and its frame counters
    players,    \* the players of the game
    seen        \* what each player's connection has been written: start, and the frames

gameVars == <<loop, game, players, seen>>
vars == <<connVars, gameVars>>

Phase == {"running", "quitting", "ended", "gone", "stuck"}
Game == [state : {"ready", "gaming", "over", "stop"}, entered : BOOLEAN,
         closed : BOOLEAN,    \* closeFlag, see IsOver
         frame : 0 .. MaxFrame + 1, cast : 0 .. MaxFrame + 1]
PlayerState == [client : Conn \cup {None}, online : BOOLEAN, ready : BOOLEAN, loaded : BOOLEAN,
                sent : 0 .. MaxFrame + 1]
Seen == [start : BOOLEAN, frames : Seq(1 .. MaxFrame)]

Nothing == [start |-> FALSE, frames |-> <<>>]

TypeOK ==
    /\ ConnTypeOK
    /\ loop \in Phase /\ game \in Game
    /\ players \in [Player -> PlayerState]
    /\ seen \in [Player -> Seen]

Init ==
    /\ ConnInit
    /\ loop = "running"
    /\ game = [state |-> "ready", entered |-> FALSE, closed |-> FALSE, frame |-> 0, cast |-> 0]
    /\ players = [p \in Player |-> [client |-> None, online |-> FALSE, ready |-> FALSE,
                                    loaded |-> FALSE, sent |-> 0]]
    /\ seen = [p \in Player |-> Nothing]

-----------------------------------------------------------------------------
Online == {p \in Player : players[p].online}
Clients(P) == {players[p].client : p \in P} \ {None}
OpenClients(P) == {c \in Clients(P) : conn[c].open}
Joining == IF inChan = <<>> THEN {} ELSE {Head(inChan)}
AllReady == \A p \in Player : players[p].ready
AllLoaded == \A p \in Player : players[p].loaded

\* SendMessage to the online players of P: those whose send queue is full are closed.
\* `got` is what the others have been written.
SendsTo(P, got) == \E full \in SUBSET OpenClients(P \cap Online) :
    /\ Closes(full \cup {c \in Clients(P \cap Online) : ~conn[c].open}, None)
    /\ seen' = [p \in Player |-> IF p \in P \cap Online /\ players[p].client \in OpenClients(P) \ full
                                THEN got[p] ELSE seen[p]]

Sends(P) == SendsTo(P, seen)

\* The goroutine writes to, or closes, connections in most of its steps, and may do so in
\* any state, at the latest when its time is up.  It hangs if outChan is full then.
GetsStuck ==
    /\ loop \in {"running", "quitting", "ended"}
    /\ \E C \in SUBSET (Clients(Player) \cup Joining) : Hangs(C)
    /\ loop' = "stuck"
    /\ UNCHANGED <<connVars, game, players, seen>>

-----------------------------------------------------------------------------
(* Messages. *)

\* C2SProgressMsg, while the game is being prepared.
OnProgress(p, full) ==
    /\ game.state = "ready"
    /\ Sends(Player)
    /\ players' = [players EXCEPT ![p].loaded = full, ![p].ready = @ \/ full]
    /\ UNCHANGED game

\* C2SPing.
OnPing(p) ==
    /\ Sends({p})
    /\ UNCHANGED <<game, players>>

OnGameOverMsg ==
    /\ game' = [game EXCEPT !.state = "over"]
    /\ UNCHANGED <<players, conn, outChan, seen>>

OnProcessMsg == LET m == Head(msgQ) IN
    /\ loop = "running" /\ msgQ # <<>>
    /\ msgQ' = Tail(msgQ)
    /\ \/ m.kind \in {"loading", "loaded"} /\ OnProgress(m.id, m.kind = "loaded")
       \/ m.kind \in {"loading", "loaded"} /\ game.state # "ready"
          /\ UNCHANGED <<game, players, conn, outChan, seen>>
       \/ m.kind = "ping" /\ OnPing(m.id)
       \/ m.kind = "over" /\ OnGameOverMsg
    /\ UNCHANGED <<loop, inChan>>

-----------------------------------------------------------------------------
(* Connections that come and go. *)

\* Mutation of Connects: the replaced connection keeps its identity.
ConnectsBeside(p, c) == \E fails \in BOOLEAN :
    /\ Closes(IF fails \/ ~conn[c].open THEN {c} ELSE {}, None)
    /\ players' = [players EXCEPT ![p].client = c, ![p].online = TRUE, ![p].ready = FALSE]
    /\ seen' = [seen EXCEPT ![p] = Nothing]

\* Player.Connect, and the answer on the new connection.
Connects(p, c) == \E fails \in BOOLEAN :
    /\ Closes(IF fails \/ ~conn[c].open THEN {c} ELSE {}, players[p].client)
    /\ players' = [players EXCEPT ![p].client = c, ![p].online = TRUE, ![p].ready = FALSE]
    /\ seen' = [seen EXCEPT ![p] = Nothing]

\* The game is over, which the player's present connection is told.
TooLate(p) == Sends({p}) /\ UNCHANGED players

OnJoinGame == LET c == Head(inChan) IN
    /\ loop = "running" /\ inChan # <<>>
    /\ inChan' = Tail(inChan)
    /\ IF game.state \in {"ready", "gaming"} THEN Connects(conn[c].id, c) ELSE TooLate(conn[c].id)
    /\ UNCHANGED <<loop, game, msgQ>>

\* Player.Cleanup.
CleanedUp(p) == [players[p] EXCEPT !.client = None, !.online = FALSE, !.ready = FALSE]

\* outChan's first is taken; if it still has an identity, the player is cleaned up, which
\* closes the player's present connection, whichever that is.
OnLeaveGame == LET p == conn[Head(outChan)].id IN
    /\ loop = "running" /\ outChan # <<>>
    /\ IF p = None THEN UNCHANGED <<conn, players, seen>> /\ outChan' = Tail(outChan)
       ELSE LET c == players[p].client
                told == c # None /\ (conn[c].open \/ conn[c].closing) IN
            /\ players' = [players EXCEPT ![p] = CleanedUp(p)]
            /\ conn' = IF c = None THEN conn
                       ELSE [conn EXCEPT ![c].open = FALSE, ![c].closing = FALSE]
            /\ outChan' = Tail(outChan) \o (IF told THEN <<c>> ELSE <<>>)
            /\ seen' = [seen EXCEPT ![p] = Nothing]
    /\ UNCHANGED <<loop, game, inChan, msgQ>>

-----------------------------------------------------------------------------
(* Ticks. *)

\* Everybody is ready, but somebody has gone back to less than 100 percent.
EntersLoading ==
    /\ game.state = "ready" /\ AllReady /\ ~AllLoaded /\ ~game.entered
    /\ game' = [game EXCEPT !.entered = TRUE]
    /\ Sends(Player)
    /\ UNCHANGED players

OnGameStart ==
    /\ game.state = "ready" /\ AllReady /\ AllLoaded /\ Online # {}
    /\ game' = [state |-> "gaming", entered |-> TRUE, closed |-> game.closed, frame |-> 0, cast |-> 0]
    /\ players' = [p \in Player |-> [players[p] EXCEPT !.ready = TRUE, !.loaded = TRUE]]
    /\ SendsTo(Player, [p \in Player |-> [seen[p] EXCEPT !.start = TRUE]])

NobodyReady ==
    /\ game.state = "ready" /\ AllReady /\ AllLoaded /\ Online = {}
    /\ game' = [game EXCEPT !.state = "over"]
    /\ UNCHANGED <<players, conn, outChan, seen>>

\* checkOver, isTimeout.
Over ==
    /\ game.state = "gaming" /\ (Online = {} \/ game.frame > MaxFrame)
    /\ game' = [game EXCEPT !.state = "over"]
    /\ UNCHANGED <<players, conn, outChan, seen>>

\* The frames that p still has to be sent when there are `count`; frame 0 does not exist.
Missing(p, count) ==
    LET first == IF players[p].sent = 0 THEN 1 ELSE players[p].sent
    IN  [i \in 1 .. count - first |-> first + i - 1]

\* Mutation of Receivers: players that are not ready get frames.
ReceiversAny == Online

\* Who may be sent frames.
Receivers == {p \in Online : players[p].ready}

\* broadcastFrameData; the messages that a player's frames are cut into are one write.
\* Whose last ping is kBadNetworkThreshold old and is left out is any set of players.
Broadcasts(count) == \E P \in SUBSET Receivers :
    /\ SendsTo({p \in P : Missing(p, count) # <<>>},
               [p \in Player |-> [seen[p] EXCEPT !.frames = @ \o Missing(p, count)]])
    /\ players' = [p \in Player |-> IF p \in P THEN [players[p] EXCEPT !.sent = count]
                                   ELSE players[p]]

OnFrame == LET count == game.frame + 1 IN
    /\ game.state = "gaming" /\ Online # {} /\ game.frame <= MaxFrame
    /\ IF count - game.cast < Offset
       THEN /\ game' = [game EXCEPT !.frame = count]
            /\ UNCHANGED <<players, conn, outChan, seen>>
       ELSE /\ game' = [game EXCEPT !.frame = count, !.cast = count]
            /\ Broadcasts(count)

OnGameOver ==
    /\ game.state = "over"
    /\ game' = [game EXCEPT !.state = "stop", !.closed = TRUE]
    /\ Sends(Player)
    /\ UNCHANGED players

Tick ==
    /\ loop = "running"
    /\ EntersLoading \/ OnGameStart \/ NobodyReady \/ Over \/ OnFrame \/ OnGameOver
    /\ UNCHANGED <<loop, inChan, msgQ>>

-----------------------------------------------------------------------------
(* The end. *)

\* Mutation of Quits: a break without the label leaves the select only.
QuitsSelect == Sends(Player) /\ UNCHANGED <<inChan, msgQ, game, players, loop>>

\* OnGameClose, once the game has stopped or its hour is over.
Quits ==
    /\ loop' = "quitting"
    /\ Sends(Player)
    /\ UNCHANGED <<inChan, msgQ, game, players>>

Stops == loop = "running" /\ game.state = "stop" /\ Quits

TimeOut == loop = "running" /\ Quits

\* Three seconds later; or at once, when the server stops.
LeavesLoop ==
    /\ loop \in {"running", "quitting"}
    /\ loop' = "ended"
    /\ UNCHANGED <<connVars, game, players, seen>>

ForceExit == loop = "running" /\ LeavesLoop

QuitsLater == loop = "quitting" /\ LeavesLoop

\* OnCleanup, then the manager forgets the game.
OnCleanup ==
    /\ loop = "ended"
    /\ Closes(Clients(Player), None)
    /\ loop' = "gone"
    /\ players' = [p \in Player |-> CleanedUp(p)]
    /\ UNCHANGED <<inChan, msgQ, game, seen>>

-----------------------------------------------------------------------------
\* The router finds the game, which is not over.
Listens == loop \notin {"gone", "stuck"} /\ ~game.closed

\* Messages to a game that will not read them are left out.
ConnStep ==
    /\ \E c \in Conn :
          \/ Hand(c) \/ Drop(c) \/ OnClose(c)
          \/ \E p \in Player : Listens /\ Identify(c, p)
          \/ \E kind \in Kind : loop = "running" /\ Receive(c, kind)
    /\ UNCHANGED gameVars

GameStep ==
    \/ OnProcessMsg \/ OnJoinGame \/ OnLeaveGame \/ Tick
    \/ Stops \/ TimeOut \/ ForceExit \/ QuitsLater \/ OnCleanup
    \/ GetsStuck

Next == ConnStep \/ GameStep

Spec == Init /\ [][Next]_vars

\* The goroutines of the game and of the connections go on; the hour passes if nothing
\* else ends the game.
FairSpec ==
    /\ Spec
    /\ WF_vars(Tick) /\ WF_vars(OnProcessMsg) /\ WF_vars(OnJoinGame) /\ WF_vars(OnLeaveGame)
    /\ WF_vars(Stops) /\ WF_vars(QuitsLater) /\ WF_vars(OnCleanup \/ GetsStuck)
    /\ \A c \in Conn : WF_vars(OnClose(c) /\ UNCHANGED gameVars)

TimedSpec == FairSpec /\ WF_vars(TimeOut \/ GetsStuck)
-----------------------------------------------------------------------------
(* What the game promises to those who are connected. *)

\* A connection that is sent frames has been sent the start and every frame from the
\* first on, in order and without gaps, whatever connections the player had before, and
\* what the game believes it has sent is what an open connection has.
FramesInOrder == \A p \in Player : LET frames == seen[p].frames IN
    /\ frames # <<>> => seen[p].start
    /\ frames = [i \in 1 .. Len(frames) |-> i]
    /\ frames # <<>> /\ players[p].online /\ conn[players[p].client].open
          => Len(frames) = players[p].sent - 1

\* The game's goroutine never waits for itself to make room in outChan, unless more
\* connections were handed to the game than outChan holds.
StuckNeedsManyConns ==
    loop = "stuck" => Cardinality({c \in Conn : conn[c].at = "game"}) > OutCap

\* A player whose connection is closed, and whose close is not about to be told to the
\* game, is not online, so that a game whose players have gone ends (checkOver); except when
\* the connection was closed before the game knew it.
OnlineIsConnected ==
    \A p \in Online : LET c == players[p].client IN
        conn[c].open \/ conn[c].closing \/ c \in Range(outChan) \/ conn[c].early

\* While the game goes on, the connection a player plays on is not closed because another
\* of the player's left (once it is over, a refused one's leave does that), except
\* when some connection was closed before the game knew it, so that its leave may overtake
\* its join.
NewcomerIsKept ==
    [][OnLeaveGame /\ game.state \in {"ready", "gaming"} =>
                      \/ \A p \in Player : LET c == players[p].client IN
                             c # None /\ conn[c].open => conn'[c].open
                      \/ \E c \in Conn : conn[c].early]_vars

\* The game starts when the clients that play it have loaded everything (checkLoaded), or
\* another connection of the player has, whose message is taken for theirs.
StartsLoaded ==
    [][game.state = "ready" /\ game'.state = "gaming" =>
           \A p \in Online : \/ conn[players[p].client].told
                             \/ \E c \in Conn \ Clients(Player) : conn[c].told]_vars

\* The game knows who is connected, and does not wait for itself.
ConnectionsAreSound == TypeOK /\ OnlineIsConnected /\ StuckNeedsManyConns

\* A game starts with, and keeps, the connections its players play on.
GameStepsAreSound == NewcomerIsKept /\ StartsLoaded

-----------------------------------------------------------------------------
(* What the properties rest on. *)

Distinct(s) == \A i, j \in DOMAIN s : s[i] = s[j] => i = j

\* What is in a channel is there once: closed connections in outChan, known ones in inChan.
ChannelsAreSound ==
    /\ Distinct(outChan) /\ Distinct(inChan)
    /\ \A c \in Range(outChan) : conn[c].at = "game" /\ ~conn[c].open /\ ~conn[c].closing
    /\ \A c \in Waiting : conn[c].at = "game" /\ conn[c].id # None /\ c \notin Clients(Player)
                         /\ (conn[c].open \/ conn[c].early)

\* How far a connection can be.
ConnsAreSound == \A c \in Conn :
    /\ conn[c].at = "free" => ~conn[c].open /\ ~conn[c].early /\ conn[c].id = None
    /\ conn[c].at = "router" => conn[c].id # None /\ (conn[c].open \/ conn[c].early)
    /\ conn[c].at # "game" => ~conn[c].closing /\ ~conn[c].told
    /\ conn[c].open => ~conn[c].closing /\ ~conn[c].early

\* A player's connection has come to the game and still has the player's identity.
ClientsAreTheirs == \A p \in Player : LET c == players[p].client IN
    /\ players[p].online => c # None
    /\ c # None => conn[c].at = "game" /\ conn[c].id = p

\* What a player has been written, against what the game believes to have sent.
SentIsWritten == \A p \in Player :
    /\ players[p].sent <= game.frame
    /\ game.state = "ready" => game.frame = 0 /\ seen[p] = Nothing
    /\ players[p].online /\ ~players[p].ready => seen[p].frames = <<>>
    /\ game.state = "gaming" /\ players[p].online /\ players[p].ready
          /\ conn[players[p].client].open
          => /\ seen[p].start
             /\ Len(seen[p].frames) = IF players[p].sent = 0 THEN 0 ELSE players[p].sent - 1

\* Unless a connection was closed before the game knew it: while the game goes on, the only
\* connection that has a player's identity and is not done with is the one the player plays on.
OnlyTheirs ==
    loop = "running" /\ game.state \in {"ready", "gaming"} /\ (\A c \in Conn : ~conn[c].early) =>
        \A c \in Conn \ Waiting : conn[c].at = "game" /\ conn[c].id # None =>
            \/ players[conn[c].id].client = c
            \/ ~conn[c].open /\ ~conn[c].closing /\ c \notin Range(outChan)

\* Who is taken to be ready has told so, on a connection that had the player's identity.
LoadedIsTold == \A p \in Player :
    (\/ game.state = "ready" /\ players[p].ready
     \/ \E i \in DOMAIN msgQ : msgQ[i] = [id |-> p, kind |-> "loaded"])
        => \E c \in Conn : conn[c].told /\ conn[c].id \in {p, None}

LinksInv ==
    /\ ChannelsAreSound /\ ConnsAreSound /\ ClientsAreTheirs
    /\ OnlineIsConnected /\ StuckNeedsManyConns /\ OnlyTheirs

BattleInv == TypeOK /\ LinksInv /\ SentIsWritten /\ FramesInOrder /\ LoadedIsTold
=============================================================================
