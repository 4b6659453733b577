----------------------------- MODULE MatchQueue -----------------------------
(***************************************************************************)
(* One queue of the Match module (main_server/logic/match): the teams that *)
(* look for an opponent.  A team is a room, under the room's id.           *)
(*                                                                         *)
(* No room ever gives its team a rank, so every team is in pool 0, while   *)
(* the opponent is drawn from the pools 1 to 7 until one of them is not    *)
(* empty: with two teams or more the search never returns (`hung').        *)
(***************************************************************************)
EXTENDS Integers, Sequences, SequencesExt

CONSTANT TeamId     \* ids of teams: those of their rooms

ASSUME TeamIdAssumption == TeamId \subseteq Nat \ {0}

VARIABLES
    sortIds,        \* ids that have not been looked at since they were queued
    waitIds,        \* ids that were looked at and found nobody
    teamInfo,       \* ids of the teams of the pool
    teamNum,        \* the number of teams, as counted
    matchlock,      \* nothing was left to look at, or a search is under way
    hung            \* the search never returns

matchVars == <<sortIds, waitIds, teamInfo, teamNum, matchlock, hung>>

MatchTypeOK ==
    /\ sortIds \in Seq(TeamId) /\ waitIds \in Seq(TeamId)
    /\ teamInfo \subseteq TeamId
    /\ teamNum \in Int
    /\ matchlock \in BOOLEAN /\ hung \in BOOLEAN

MatchInit ==
    /\ sortIds = <<>> /\ waitIds = <<>>
    /\ teamInfo = {}
    /\ teamNum = 0
    /\ matchlock = FALSE /\ hung = FALSE

\* startMatch and putInMatchPool.
StartMatch(id) ==
    /\ matchlock' = FALSE
    /\ teamInfo' = teamInfo \cup {id}
    /\ teamNum' = teamNum + 1
    /\ sortIds' = Append(sortIds, id)
    /\ UNCHANGED <<waitIds, hung>>

CancelMatchKeepsSorted(id) ==
    /\ teamInfo' = teamInfo \ {id}
    /\ teamNum' = teamNum - 1
    /\ waitIds' = RemoveFirst(waitIds, id)
    /\ UNCHANGED <<sortIds, matchlock, hung>>

\* The count goes down whether the team was there or not.
CancelMatch(id) ==
    /\ teamInfo' = teamInfo \ {id}
    /\ teamNum' = teamNum - 1
    /\ waitIds' = RemoveFirst(waitIds, id)
    /\ sortIds' = RemoveFirst(sortIds, id)
    /\ UNCHANGED <<matchlock, hung>>

\* getCurMatchId: new ids first.
Queued == sortIds \o waitIds

TakeNext ==
    /\ sortIds' = IF sortIds # <<>> THEN Tail(sortIds) ELSE sortIds
    /\ IF teamNum <= 1
       THEN LET left == IF sortIds # <<>> THEN waitIds ELSE Tail(waitIds)
            IN  waitIds' = Append(left, Head(Queued))
       ELSE waitIds' = IF sortIds # <<>> THEN waitIds ELSE Tail(waitIds)

\* update on a tick: alone, a team waits on; with another one, matchEnemy does not return.
\* matchlock stays set when there is nothing to look at, until the next StartMatch.
UpdateOneWaits ==
    /\ ~matchlock
    /\ IF Queued = <<>>
       THEN matchlock' = TRUE /\ UNCHANGED <<sortIds, waitIds, hung>>
       ELSE TakeNext /\ UNCHANGED <<matchlock, hung>>
    /\ UNCHANGED <<teamInfo, teamNum>>

Update ==
    /\ ~matchlock
    /\ IF Queued = <<>>
       THEN matchlock' = TRUE /\ UNCHANGED <<sortIds, waitIds, hung>>
       ELSE TakeNext /\ hung' = (teamNum > 1) /\ matchlock' = hung'
    /\ UNCHANGED <<teamInfo, teamNum>>
=============================================================================
