--------------------------- MODULE ActivityStates ---------------------------
(***************************************************************************)
(* The life of the activities of a server (main_server/logic/activity):    *)
(* waiting, running, stopped by the GM, closed.  An activity belongs to a  *)
(* row of the configuration; it has an id of its own, under which Redis    *)
(* keeps it and its players' data, and gets a new one when it restarts.    *)
(*                                                                         *)
(* The module's actor handles one message at a time, and everything it     *)
(* changes is in `mgr'; so a handler is an operator from mgr to mgr.  All  *)
(* rows of the model are of one type, since types share nothing.           *)
(***************************************************************************)
EXTENDS Naturals, FiniteSets

CONSTANTS
    Cfg,        \* rows of the configuration
    MaxId,      \* bound: ids handed out
    MaxTime,    \* the last instant of the model
    Conf        \* what a row may say

ASSUME ActivityAssumption ==
    Cfg # {} /\ IsFiniteSet(Cfg) /\ MaxId \in Nat /\ MaxTime \in Nat

Id == 1 .. MaxId
State == {"waiting", "running", "stopped", "closed"}

\* A row: closed, permanent, or open in a window of time (from the table, a season, or
\* counted from the day the server opened).
Row == [time : {"close", "always", "timed"}, start : 0 .. MaxTime, end : 0 .. MaxTime]

ASSUME ConfAssumption == \A c \in Conf : c \in Row /\
    IF c.time = "timed" THEN c.start < c.end ELSE c.start = 0 /\ c.end = 0

\* An activity.  checked: its row has been looked at since it was last read.
\* manual: closed by the GM.
Entity == [cfg : Cfg, state : State, time : {"close", "always", "timed"},
           start : 0 .. MaxTime, end : 0 .. MaxTime, checked : BOOLEAN, manual : BOOLEAN]

\* What Redis keeps of one: all but checked and manual, which are as after loading it.
Saved(e) == [e EXCEPT !.checked = FALSE, !.manual = FALSE]

None == [state |-> "none"]

\* ents: byID.  running: runningByType, or 0.  redis: the activities in Redis.
\* next: the next id.  data: the ids that players have data under.
Manager == [ents : [Id -> Entity \cup {None}], running : Id \cup {0},
            redis : [Id -> Entity \cup {None}], next : 1 .. MaxId + 1, data : SUBSET Id]

Ids(ents) == {i \in Id : ents[i] # None}
In(m, i, state) == m.ents[i] # None /\ m.ents[i].state = state

-----------------------------------------------------------------------------
(* The entity store. *)

\* store, for an entity whose id is new.
Stored(m, i, e) ==
    [m EXCEPT !.ents[i] = e, !.running = IF e.state = "running" THEN i ELSE @]

\* delete.
Deleted(m, i) == [m EXCEPT !.ents[i] = None, !.running = IF @ = i THEN 0 ELSE @]

-----------------------------------------------------------------------------
\* What a handler does not decide: which calls of Redis succeed (del the deletes, id the
\* counter, set the writes), and the order in which a map is walked, of which the model
\* has the two that two activities can be in.
Answers == [del : BOOLEAN, id : BOOLEAN, set : BOOLEAN, up : BOOLEAN]
IsWell(r) == r.del /\ r.id /\ r.set

\* Which of these ids comes first, and which of all comes n-th.
First(ids, r) == CHOOSE i \in ids : \A j \in ids : IF r.up THEN i <= j ELSE j <= i
Turn(n, r) == IF r.up THEN n ELSE MaxId + 1 - n

Others(m, i) == {j \in Id \ {i} : In(m, j, "running")}

EnteredNoOther(m, i, state, r) ==
    LET from == m.ents[i].state IN
    [m EXCEPT !.ents[i].state = state,
              !.running = IF state = "running" THEN i
                          ELSE IF from = "running" /\ @ = i THEN 0 ELSE @]

\* OnEnter and updateState: the index follows the state.
Entered(m, i, state, r) ==
    LET from == m.ents[i].state
        index == CASE state = "running" -> i
                   [] state # "running" /\ from = "running" /\ m.running = i ->
                          IF Others(m, i) = {} THEN 0 ELSE First(Others(m, i), r)
                   [] OTHER -> m.running
    IN  [m EXCEPT !.ents[i].state = state, !.running = index]

-----------------------------------------------------------------------------
(* The state machine. *)

Purged(m, i, r) == IF r.del THEN [m EXCEPT !.data = @ \ {i}] ELSE m
Forgotten(m, i, r) == IF r.del THEN [m EXCEPT !.redis[i] = None] ELSE m

ClosedUnpurged(m, i, r) == Entered(m, i, "closed", r)

\* handleActionClose.  A stopped activity's data stays.
Closed(m, i, r) ==
    Entered(IF In(m, i, "running") THEN Purged(m, i, r) ELSE m, i, "closed", r)

\* handleActionRestart: the activity goes, and comes back under a new id; when there is
\* no new id to be had it does not come back.
Restarted(m, i, r) ==
    LET e == m.ents[i]
        gone == Forgotten(Deleted(Purged(m, i, r), i), i, r)
    IN  IF ~r.id THEN gone
        ELSE Entered(Stored([gone EXCEPT !.next = @ + 1], gone.next,
                            [e EXCEPT !.manual = FALSE]), gone.next, "waiting", r)

\* Trigger, for the events that have a transition from the activity's state.
Trigger(m, i, event, r) ==
    CASE event \in {"start", "recover"} -> Entered(m, i, "running", r)
      [] event = "stop" -> Entered(m, i, "stopped", r)
      [] event = "close" -> Closed(m, i, r)
      [] event = "restart" -> Restarted(m, i, r)
      [] OTHER -> m
=============================================================================
