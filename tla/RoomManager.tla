---------------------------- MODULE RoomManager ----------------------------
(***************************************************************************)
(* The Room module of the game server (main_server/logic/room): rooms,     *)
(* their names, and which room a player is in.                             *)
(*                                                                         *)
(* A room's Players is a slice that OnCreateRoom makes with one element,   *)
(* and every operation that would add, move or look for a second player    *)
(* indexes it beyond that: it panics, the panic is recovered by the actor, *)
(* and the caller gets an error.  So a room has its owner and nobody else. *)
(***************************************************************************)
EXTENDS Naturals

CONSTANTS
    RoomId,     \* ids of rooms, handed out by a counter in Redis
    Player,
    Name        \* names of rooms

VARIABLES
    rooms,      \* rooms[r]: the room of this id, or Closed
    roomNames,  \* roomNames[n]: the id of the room of this name, or 0
    playerRoom, \* playerRoom[p]: the room the player is in, or 0
    lastId      \* the last id handed out

roomVars == <<rooms, roomNames, playerRoom, lastId>>

Room == [name : Name, owner : Player, state : {"normal", "match"}, ready : BOOLEAN]
Closed == [name |-> "none", owner |-> "none", state |-> "closed", ready |-> FALSE]

RoomsTypeOK ==
    /\ rooms \in [RoomId -> Room \cup {Closed}]
    /\ roomNames \in [Name -> 0 .. lastId]
    /\ playerRoom \in [Player -> 0 .. lastId]
    /\ lastId \in Nat

RoomsInit ==
    /\ rooms = [r \in RoomId |-> Closed]
    /\ roomNames = [n \in Name |-> 0]
    /\ playerRoom = [p \in Player |-> 0]
    /\ lastId = 0

Exists(r) == r \in RoomId /\ rooms[r] # Closed

\* The player is in a room that exists and is in this state.
In(p, state) == Exists(playerRoom[p]) /\ rooms[playerRoom[p]].state = state

OnPlayerIsMatch(p) == In(p, "match")

CanCreate(n) == roomNames[n] = 0

\* OnCreateRoom after its checks.  It does not ask whether the player is in a room already.
Create(p, n) ==
    LET id == lastId + 1
    IN  /\ lastId' = id
        /\ rooms' = [rooms EXCEPT ![id] =
               [name |-> n, owner |-> p, state |-> "normal", ready |-> TRUE]]
        /\ roomNames' = [roomNames EXCEPT ![n] = id]
        /\ playerRoom' = [playerRoom EXCEPT ![p] = id]

\* OnJoinRoom comes as far as SetPlayer, which panics.
ReachesSetPlayer(p, r) == Exists(r) /\ rooms[r].owner # p

CanDissolve(p) == In(p, "normal") /\ rooms[playerRoom[p]].owner = p

DissolveKeepsName(p) ==
    /\ rooms' = [rooms EXCEPT ![playerRoom[p]] = Closed]
    /\ playerRoom' = [playerRoom EXCEPT ![p] = 0]
    /\ UNCHANGED <<roomNames, lastId>>

\* OnDissolveRoom after its checks.
Dissolve(p) ==
    /\ rooms' = [rooms EXCEPT ![playerRoom[p]] = Closed]
    /\ roomNames' = [roomNames EXCEPT ![rooms[playerRoom[p]].name] = 0]
    /\ playerRoom' = [playerRoom EXCEPT ![p] = 0]
    /\ UNCHANGED lastId

\* OnPrepareGame.
CanPrepare(p, r) == playerRoom[p] = r /\ In(p, "normal")
Prepare(p, b) ==
    /\ rooms' = [rooms EXCEPT ![playerRoom[p]].ready = b]
    /\ UNCHANGED <<roomNames, playerRoom, lastId>>

\* OnStartMatch and OnCancelMatch up to their call of Match, and after it.
CanStart(p) == CanDissolve(p) /\ rooms[playerRoom[p]].ready
CanCancel(p) == In(p, "match")
SetState(r, state) ==
    /\ rooms' = [rooms EXCEPT ![r].state = state]
    /\ UNCHANGED <<roomNames, playerRoom, lastId>>
=============================================================================
