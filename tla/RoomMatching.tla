---------------------------- MODULE RoomMatching ----------------------------
(***************************************************************************)
(* Players, the Room module and the Match module, three kinds of actors    *)
(* that call each other and wait for the answer: a player's actor calls    *)
(* Room, and Room, inside OnStartMatch and OnCancelMatch, calls Match.     *)
(*                                                                         *)
(* A call has a time to live.  The callee knows nothing of it: it carries  *)
(* the request out when it comes to it.  A caller whose call has failed    *)
(* goes on with a zero result, which for JoinRoom is ERRORCODE_ERR_Ok.     *)
(***************************************************************************)
EXTENDS RoomManager, MatchQueue, FiniteSets

CONSTANTS
    MaxAsks,    \* messages about rooms that clients send
    MaxLost     \* calls whose time to live may run out while Match is alive

ASSUME MatchingAssumption ==
    /\ MaxAsks \in Nat /\ MaxLost \in Nat
    /\ TeamId = RoomId
    /\ RoomId = 1 .. Cardinality(RoomId)

VARIABLES
    cache,      \* cache[p]: pl.Cache.RoomId
    asks,       \* messages about rooms that clients have sent
    asking,     \* asking[p]: the call of Room that p waits for, or "idle"
    roomBox,    \* the calls that wait for Room
    busy,       \* the call of Match that Room waits for
    matchBox,   \* the calls that wait for Match
    lost        \* calls that ran out of time while their callee had yet to take them

vars == <<rooms, roomNames, playerRoom, lastId, sortIds, waitIds, teamInfo, teamNum,
          matchlock, hung, cache, asks, asking, roomBox, busy, matchBox, lost>>

\* A question before another call: StartGameMatch and CancelGameMatch ask PlayerIsMatch.
Question == {"startIf", "cancelIf"}
Kind == Question \cup {"create", "join", "exit", "dissolve", "ready", "unready", "start", "cancel"}

\* A call of Room; room is the one the client names.  live: the caller still waits.
Ask == [kind : Kind, who : Player, name : Name \cup {"none"}, room : Nat, live : BOOLEAN]

Idle == [st |-> "idle"]
Busy == [st : {"waiting", "done"}, kind : {"start", "cancel"}, ask : Ask, room : RoomId, ok : BOOLEAN]

Order == [kind : {"start", "cancel"}, room : RoomId, live : BOOLEAN]

TypeOK ==
    /\ RoomsTypeOK /\ MatchTypeOK
    /\ cache \in [Player -> 0 .. lastId]
    /\ asking \in [Player -> Kind \cup {"idle"}]
    /\ roomBox \in Seq(Ask)
    /\ busy \in Busy \cup {Idle}
    /\ matchBox \in Seq(Order)
    /\ asks \in Nat /\ lost \in Nat

Init ==
    /\ RoomsInit /\ MatchInit
    /\ cache = [p \in Player |-> 0]
    /\ asking = [p \in Player |-> "idle"]
    /\ roomBox = <<>> /\ matchBox = <<>>
    /\ busy = Idle
    /\ asks = 0 /\ lost = 0

-----------------------------------------------------------------------------
(* Player actors: the handlers of the room messages (main_server/player/room). *)

\* The zero result, which a failed or late call gives, as an answer.
Zero(kind) == kind = "join"

NextCache(m, ok, room) ==
    CASE m.kind = "create" /\ ok   -> room
      [] m.kind = "join" /\ ok     -> m.room
      [] m.kind = "exit"           -> 0
      [] m.kind = "dissolve" /\ ok -> 0
      [] OTHER                     -> cache[m.who]

\* The call that follows a question with this answer, or "idle" at the end of the handler.
Follows(m, ok) == CASE m.kind = "startIf" /\ ~ok -> "start"
                    [] m.kind = "cancelIf" /\ ok -> "cancel"
                    [] OTHER -> "idle"

\* Whoever waits for m goes on with this answer; box is what is left of Room's mailbox.
Answer(m, ok, room, box) ==
    IF m.live
    THEN LET next == Follows(m, ok) IN
         /\ cache' = [cache EXCEPT ![m.who] = NextCache(m, ok, room)]
         /\ asking' = [asking EXCEPT ![m.who] = next]
         /\ roomBox' = IF next = "idle" THEN box ELSE Append(box, [m EXCEPT !.kind = next])
    ELSE roomBox' = box /\ UNCHANGED <<cache, asking>>

Asks(p, kind, n, r) ==
    /\ asking[p] = "idle" /\ asks < MaxAsks
    /\ asks' = asks + 1
    /\ asking' = [asking EXCEPT ![p] = kind]
    /\ roomBox' = Append(roomBox, [kind |-> kind, who |-> p, name |-> n, room |-> r, live |-> TRUE])
    /\ UNCHANGED <<roomVars, matchVars, cache, busy, matchBox, lost>>

\* An id is left for every room that has been asked for.
IdsLeft == Cardinality({i \in DOMAIN roomBox : roomBox[i].kind = "create"})
               < Cardinality(RoomId) - lastId

\* A player with a room in its cache is shown that room again, and none is created.
CreateRoom(p) == cache[p] = 0 /\ IdsLeft /\ \E n \in Name : Asks(p, "create", n, 0)
\* A client names a room it has been shown.
JoinRoom(p) == \E r \in 1 .. lastId : Asks(p, "join", "none", r)
ExitRoom(p) == Asks(p, "exit", "none", 0)
DissolveRoom(p) == Asks(p, "dissolve", "none", 0)
ReadyGame(p) == \E r \in 1 .. lastId, kind \in {"ready", "unready"} : Asks(p, kind, "none", r)
StartGameMatch(p) == cache[p] # 0 /\ Asks(p, "startIf", "none", 0)
CancelGameMatch(p) == cache[p] # 0 /\ Asks(p, "cancelIf", "none", 0)

\* The player logs out, or its session is lost: room.Logout.
Logout(p) ==
    /\ asking[p] = "idle"
    /\ cache' = [cache EXCEPT ![p] = 0]
    /\ UNCHANGED <<roomVars, matchVars, asks, asking, roomBox, busy, matchBox, lost>>

\* The time to live of the player's call runs out.
CallExpires(p) ==
    /\ asking[p] # "idle" /\ lost < MaxLost
    /\ lost' = lost + 1
    /\ LET Mine(m) == m.live /\ m.who = p
           m == IF busy # Idle /\ Mine(busy.ask) THEN busy.ask
                ELSE roomBox[SelectInSeq(roomBox, Mine)]
           box == [i \in DOMAIN roomBox |-> IF Mine(roomBox[i])
                      THEN [roomBox[i] EXCEPT !.live = FALSE] ELSE roomBox[i]]
       IN  /\ Answer(m, Zero(m.kind), 0, box)
           /\ busy' = IF busy # Idle /\ Mine(busy.ask)
                      THEN [busy EXCEPT !.ask.live = FALSE] ELSE busy
    /\ UNCHANGED <<roomVars, matchVars, asks, matchBox>>

-----------------------------------------------------------------------------
(* The Room module's actor. *)

\* Room takes the next call, and answers it.
Takes(kinds) == busy = Idle /\ roomBox # <<>> /\ Head(roomBox).kind \in kinds

Replies(ok, room) ==
    /\ Answer(Head(roomBox), ok, room, Tail(roomBox))
    /\ UNCHANGED <<matchVars, asks, busy, matchBox, lost>>

OnCreateRoom ==
    /\ Takes({"create"})
    /\ LET m == Head(roomBox) IN
       IF CanCreate(m.name)
       THEN Create(m.who, m.name) /\ Replies(TRUE, lastId')
       ELSE UNCHANGED roomVars /\ Replies(FALSE, 0)

\* A wrong password, a closed room, or no room, is refused; else the handler panics.
OnJoinRoom ==
    /\ Takes({"join"})
    /\ UNCHANGED roomVars
    /\ LET m == Head(roomBox) IN
       \/ Replies(FALSE, 0)
       \/ ReachesSetPlayer(m.who, m.room) /\ Replies(Zero("join"), 0)

\* OnExitRoom returns without a change, or panics at the second player it looks for.
OnExitRoom == Takes({"exit"}) /\ UNCHANGED roomVars /\ Replies(FALSE, 0)

OnDissolveRoom ==
    /\ Takes({"dissolve"})
    /\ LET p == Head(roomBox).who IN
       IF CanDissolve(p) THEN Dissolve(p) /\ Replies(TRUE, 0)
                         ELSE UNCHANGED roomVars /\ Replies(FALSE, 0)

OnReadyGame ==
    /\ Takes({"ready", "unready"})
    /\ LET m == Head(roomBox) IN
       IF CanPrepare(m.who, m.room) THEN Prepare(m.who, m.kind = "ready") /\ Replies(TRUE, 0)
                                    ELSE UNCHANGED roomVars /\ Replies(FALSE, 0)

OnPlayerIsMatches ==
    /\ Takes(Question)
    /\ UNCHANGED roomVars
    /\ Replies(OnPlayerIsMatch(Head(roomBox).who), 0)

\* OnStartMatch and OnCancelMatch: refused, or Room waits for Match.
OnMatchCall ==
    /\ Takes({"start", "cancel"})
    /\ LET m == Head(roomBox)
           r == playerRoom[m.who]
       IN  IF IF m.kind = "start" THEN CanStart(m.who) ELSE CanCancel(m.who)
           THEN /\ roomBox' = Tail(roomBox)
                /\ busy' = [st |-> "waiting", kind |-> m.kind, ask |-> m, room |-> r, ok |-> FALSE]
                /\ matchBox' = IF hung THEN matchBox    \* nobody will take it
                               ELSE Append(matchBox, [kind |-> m.kind, room |-> r, live |-> TRUE])
                /\ UNCHANGED <<roomVars, matchVars, cache, asks, asking, lost>>
           ELSE UNCHANGED roomVars /\ Replies(FALSE, 0)

\* Match has answered, or the time to live of Room's call has run out.
RoomGoesOn ==
    /\ busy # Idle /\ busy.st = "done"
    /\ IF busy.ok THEN SetState(busy.room, IF busy.kind = "start" THEN "match" ELSE "normal")
                  ELSE UNCHANGED roomVars
    /\ Answer(busy.ask, busy.ok, 0, roomBox)
    /\ busy' = Idle
    /\ UNCHANGED <<matchVars, asks, matchBox, lost>>

RoomWaits == busy # Idle /\ busy.st = "waiting"

MatchCallExpiresWhenAlive ==
    /\ RoomWaits /\ ~hung /\ lost < MaxLost
    /\ lost' = lost + 1
    /\ busy' = [busy EXCEPT !.st = "done"]
    /\ matchBox' = [i \in DOMAIN matchBox |-> [matchBox[i] EXCEPT !.live = FALSE]]
    /\ UNCHANGED <<roomVars, matchVars, cache, asks, asking, roomBox>>

\* The time to live of Room's call of Match runs out.
MatchCallExpires ==
    /\ RoomWaits
    /\ IF hung THEN UNCHANGED lost ELSE lost < MaxLost /\ lost' = lost + 1
    /\ busy' = [busy EXCEPT !.st = "done"]
    /\ matchBox' = [i \in DOMAIN matchBox |-> [matchBox[i] EXCEPT !.live = FALSE]]
    /\ UNCHANGED <<roomVars, matchVars, cache, asks, asking, roomBox>>

-----------------------------------------------------------------------------
(* The Match module's actor. *)

OnMatchMessage ==
    /\ ~hung /\ matchBox # <<>>
    /\ LET order == Head(matchBox) IN
       /\ IF order.kind = "start" THEN StartMatch(order.room) ELSE CancelMatch(order.room)
       /\ busy' = IF order.live THEN [busy EXCEPT !.st = "done", !.ok = TRUE] ELSE busy
    /\ matchBox' = Tail(matchBox)
    /\ UNCHANGED <<roomVars, cache, asks, asking, roomBox, lost>>

OnTick ==
    /\ ~hung
    /\ Update
    /\ UNCHANGED <<roomVars, cache, asks, asking, roomBox, busy, matchBox, lost>>

-----------------------------------------------------------------------------
PlayerStep(p) == CreateRoom(p) \/ JoinRoom(p) \/ ExitRoom(p) \/ DissolveRoom(p) \/ ReadyGame(p)
                     \/ StartGameMatch(p) \/ CancelGameMatch(p) \/ Logout(p)

RoomHandles == OnCreateRoom \/ OnJoinRoom \/ OnExitRoom \/ OnDissolveRoom \/ OnReadyGame
                   \/ OnPlayerIsMatches \/ OnMatchCall

Next ==
    \/ \E p \in Player : PlayerStep(p) \/ CallExpires(p)
    \/ RoomHandles \/ RoomGoesOn \/ MatchCallExpires
    \/ OnMatchMessage \/ OnTick

Spec == Init /\ [][Next]_vars

\* Actors take their messages and their ticks, and a call that is not answered expires.
Fairness ==
    /\ WF_vars(RoomHandles) /\ WF_vars(RoomGoesOn)
    /\ WF_vars(OnMatchMessage) /\ WF_vars(OnTick)
    /\ WF_vars(hung /\ MatchCallExpires)

FairSpec == Spec /\ Fairness

-----------------------------------------------------------------------------
\* A name is taken exactly as long as the one room of that name exists: no room that is
\* gone keeps a name from being used, and no two rooms have the same name, in whatever
\* order rooms are created, left, dissolved and matched, and whichever of these come late.
NamesMatchRooms ==
    \A n \in Name, r \in RoomId : roomNames[n] = r <=> Exists(r) /\ rooms[r].name = n

\* The matcher's lock stays set between ticks only while nobody waits, so that no team
\* is left in a queue that is not looked at (startMatch resets it, update sets it).
LockedIsIdle == matchlock /\ ~hung => Queued = <<>>

\* The room as it will be once Room has heard of what Match has done.
Matching(r) ==
    IF busy # Idle /\ busy.room = r /\ busy.st = "done" /\ busy.ok
    THEN busy.kind = "start" ELSE rooms[r].state = "match"

\* As long as no call came late, the teams of the pool are the rooms in state Match, also
\* those whose owner has left, been disconnected or made another room meanwhile, and the
\* matcher counts each of them once.
PoolIsMatching ==
    lost = 0 => /\ \A r \in RoomId : r \in teamInfo <=> Matching(r)
                /\ teamNum = Cardinality(teamInfo)

\* As long as no call came late, every team of the pool, and no other, is in one of
\* the two queues, once; so it is looked at, and never after it was cancelled.
QueuedOnce ==
    lost = 0 /\ ~hung => ToSet(Queued) = teamInfo /\ Len(Queued) = Cardinality(teamInfo)

\* Every call a player makes returns, though Room may be waiting for Match and Match
\* may never answer again.
EveryAskEnds == \A p \in Player : asking[p] # "idle" ~> asking[p] = "idle"

\* When two teams look for an opponent and go on looking, the search never returns: no
\* match is ever made, and from then on the module answers nobody.
TwoTeamsStopTheMatcher ==
    [](Cardinality(teamInfo) >= 2 => <>(hung \/ Cardinality(teamInfo) < 2))

\* Room, the pool, the queues and the matcher's lock agree.
MatchingIsSound == TypeOK /\ LockedIsIdle /\ PoolIsMatching /\ QueuedOnce
=============================================================================
