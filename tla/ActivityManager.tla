-------------------------- MODULE ActivityManager --------------------------
(***************************************************************************)
(* The Activity module of the game server: its ticks, the GM's commands,   *)
(* the configuration that is read again, the save every five minutes, and  *)
(* the server's stop, crash and start.                                     *)
(***************************************************************************)
EXTENDS ActivityStates, Functions

CONSTANT MaxOdd     \* bound: what does not happen by itself, that is, commands of the GM,
                    \* configurations read again, ends of the server, failures of Redis

ASSUME BoundAssumption == MaxOdd \in Nat

VARIABLES
    mgr,        \* what the module and Redis hold
    conf,       \* the configuration
    now,        \* the time
    odd,        \* how much has happened of what MaxOdd bounds
    failed,     \* Redis has failed
    unpurged    \* ids whose close may leave their players' data: they have been stopped,
                \* or were not in Redis in the same state when the server ended

vars == <<mgr, conf, now, odd, failed, unpurged>>

TypeOK ==
    /\ mgr \in Manager
    /\ conf \in [Cfg -> Conf]
    /\ now \in 0 .. MaxTime
    /\ odd \in 0 .. MaxOdd
    /\ failed \in BOOLEAN
    /\ unpurged \subseteq Id

-----------------------------------------------------------------------------
\* register: a new activity for a row, and for each of these rows, in any order.
New(c) == [cfg |-> c, state |-> IF conf[c].time = "close" THEN "closed" ELSE "waiting",
           time |-> conf[c].time, start |-> conf[c].start, end |-> conf[c].end,
           checked |-> FALSE, manual |-> FALSE]

Registered(m, rows) ==
    LET n == Cardinality(rows)
        row == CHOOSE f \in Bijection(1 .. n, rows) : TRUE
    IN  [m EXCEPT !.next = @ + n,
                  !.ents = [i \in Id |-> IF i \in m.next .. m.next + n - 1
                                         THEN New(row[i + 1 - m.next]) ELSE @[i]]]

\* OnInit: the activities of Redis, and new ones for the rows that have none, unless there
\* are no ids to be had.
Booted(m, r) ==
    LET loaded == [m EXCEPT !.ents = [i \in Id |-> IF m.redis[i] = None THEN None ELSE Saved(m.redis[i])],
                            !.running = 0]
        open == {i \in Ids(loaded.ents) : In(loaded, i, "running")}
        indexed == [loaded EXCEPT !.running = IF open = {} THEN 0 ELSE First(open, r)]
        new == Cfg \ {loaded.ents[i].cfg : i \in Ids(loaded.ents)}
    IN  IF r.id THEN Registered(indexed, new) ELSE indexed

\* The bound on the ids.
HasIds(m) == m.next <= MaxId + 1
Becomes(m) == HasIds(m) /\ mgr' = m

NoActivity == [ents |-> [i \in Id |-> None], running |-> 0,
               redis |-> [i \in Id |-> None], next |-> 1, data |-> {}]

Init ==
    /\ conf \in [Cfg -> Conf]
    /\ \E r \in Answers : IsWell(r) /\ mgr = Booted(NoActivity, r)
    /\ HasIds(mgr)
    /\ now = 0
    /\ odd = 0
    /\ failed = FALSE
    /\ unpurged = {}

-----------------------------------------------------------------------------
(* The tick. *)

\* determineStateFromConfig: the new fields of an activity, and its event.
Reread(e) ==
    LET c == conf[e.cfg] IN
    [e EXCEPT !.time = c.time, !.start = c.start, !.end = c.end, !.checked = TRUE,
              !.manual = @ /\ ~(c.time = "timed" /\ <<c.start, c.end>> # <<e.start, e.end>>)]

ConfEvent(e) ==
    CASE conf[e.cfg].time = "always" /\ e.state = "waiting" -> "start"
      [] conf[e.cfg].time = "always" /\ e.state = "closed" -> "restart"
      [] conf[e.cfg].time = "close" /\ e.state \in {"running", "waiting"} -> "close"
      [] OTHER -> "none"

StateEventNoEnd(e) ==
    CASE e.state = "waiting" /\ (e.time = "always" \/ now \in e.start .. e.end - 1) -> "start"
      [] e.state = "running" /\ (e.time = "close" \/ (e.time = "timed" /\ now \notin e.start .. e.end)) -> "close"
      [] e.state = "stopped" /\ e.time # "always" /\ e.end > 0 /\ now >= e.end -> "close"
      [] OTHER -> "none"

\* checkState.  Its branch for closed activities is not reached: OnTick goes on to the
\* next activity before it.
StateEvent(e) ==
    CASE e.state = "waiting" /\ (e.time = "always" \/ now \in e.start .. e.end - 1) -> "start"
      [] e.state = "waiting" /\ e.time # "always" /\ now >= e.end -> "close"
      [] e.state = "running" /\ (e.time = "close" \/ (e.time = "timed" /\ now \notin e.start .. e.end)) -> "close"
      [] e.state = "stopped" /\ e.time # "always" /\ e.end > 0 /\ now >= e.end -> "close"
      [] OTHER -> "none"

\* With the branch for closed activities reached.
TickOneReopens(m, i, r) ==
    LET e == m.ents[i] IN
    IF ~e.checked THEN Trigger([m EXCEPT !.ents[i] = Reread(e)], i, ConfEvent(e), r)
    ELSE IF e.state = "closed" /\ ~e.manual /\ (e.time = "always" \/ now \in e.start .. e.end - 1)
         THEN Trigger(m, i, "restart", r)
         ELSE Trigger(m, i, StateEvent(e), r)

\* The tick, for one activity: the row if it has not been looked at, else the time.
TickOne(m, i, r) ==
    LET e == m.ents[i] IN
    IF ~e.checked THEN Trigger([m EXCEPT !.ents[i] = Reread(e)], i, ConfEvent(e), r)
                  ELSE Trigger(m, i, StateEvent(e), r)

\* n odd things happen, and one more if Redis fails some of the calls.
Happens(n, r) ==
    LET all == IF IsWell(r) THEN n ELSE n + 1 IN
    /\ odd + all <= MaxOdd
    /\ odd' = odd + all
    /\ failed' = (failed \/ ~IsWell(r))

\* saveData.
AllSaved(m, r) ==
    [m EXCEPT !.redis = [i \in Id |->
        IF r.set /\ m.ents[i] # None THEN Saved(m.ents[i]) ELSE m.redis[i]]]

\* The tick, for all that there are when it begins.
Ticked(m, r) ==
    LET after[n \in 0 .. MaxId] ==
            IF n = 0 THEN m
            ELSE IF m.ents[Turn(n, r)] = None THEN after[n - 1]
            ELSE TickOne(after[n - 1], Turn(n, r), r)
    IN  after[MaxId]

\* OnTick; it saves when five minutes have passed since it last did.
OnTick ==
    /\ \E r \in Answers, saves \in BOOLEAN : Happens(0, r)
           /\ Becomes(Ticked(IF saves THEN AllSaved(mgr, r) ELSE mgr, r))
    /\ UNCHANGED <<conf, now, unpurged>>

\* OnEvent: the configuration has been read again.
OnConfigReload ==
    /\ odd < MaxOdd /\ odd' = odd + 1
    /\ conf' \in [Cfg -> Conf]
    /\ mgr' = [mgr EXCEPT !.ents = [i \in Id |->
                  IF @[i] = None THEN None ELSE [@[i] EXCEPT !.checked = FALSE]]]
    /\ UNCHANGED <<now, failed, unpurged>>

-----------------------------------------------------------------------------
(* The GM's commands, by id or, as the last two, by row or type. *)

Command(r, m) ==
    /\ Happens(1, r)
    /\ Becomes(m)
    /\ UNCHANGED <<conf, now>>

OnStopActivity(i) ==
    /\ In(mgr, i, "running")
    /\ \E r \in Answers : IsWell(r) /\ Command(r, Trigger(mgr, i, "stop", r))
    /\ unpurged' = unpurged \cup {i}

OnRecoverActivity(i) ==
    /\ In(mgr, i, "stopped")
    /\ \E r \in Answers : IsWell(r) /\ Command(r, Trigger(mgr, i, "recover", r))
    /\ UNCHANGED unpurged

OnForceStartActivity(i) ==
    /\ In(mgr, i, "waiting")
    /\ \E r \in Answers : IsWell(r) /\ Command(r, Trigger(mgr, i, "start", r))
    /\ UNCHANGED unpurged

OnCloseActivity(i) ==
    /\ mgr.ents[i] # None /\ ~In(mgr, i, "closed")
    /\ \E r \in Answers : Command(r, [Trigger(mgr, i, "close", r) EXCEPT !.ents[i].manual = TRUE])
    /\ UNCHANGED unpurged

OnRestartActivity(i) ==
    /\ In(mgr, i, "stopped") \/ In(mgr, i, "closed")
    /\ \E r \in Answers : Command(r, Trigger(mgr, i, "restart", r))
    /\ UNCHANGED unpurged

\* A waiting or closed activity goes as it is, a running or stopped one is closed first.
OnRemoveActivity(i) ==
    /\ mgr.ents[i] # None
    /\ \E r \in Answers :
           LET closed == IF mgr.ents[i].state \in {"running", "stopped"}
                         THEN Trigger(mgr, i, "close", r) ELSE mgr
           IN  Command(r, Forgotten(Deleted(closed, i), i, r))
    /\ UNCHANGED unpurged

\* Times that do not fit are refused after they have been taken over.
OnAdjustActivityTime(i) ==
    /\ mgr.ents[i] # None /\ ~In(mgr, i, "closed")
    /\ \E start, end \in 0 .. MaxTime, r \in Answers :
           LET e == mgr.ents[i]
               given == [e EXCEPT !.start = IF start > 0 THEN start ELSE @,
                                  !.end = IF end > 0 THEN end ELSE @]
               refused == given.start > 0 /\ given.end > 0 /\ given.start >= given.end
           IN  IsWell(r) /\ Command(r, [mgr EXCEPT !.ents[i] = [given EXCEPT !.manual = @ /\ refused]])
    /\ UNCHANGED unpurged

\* The command stops the activity that the index names.
OnStopActivityByType == mgr.running # 0 /\ OnStopActivity(mgr.running)

-----------------------------------------------------------------------------
\* A running activity keeps data of a player who takes part.
PlayerTakesPart(i) ==
    /\ In(mgr, i, "running")
    /\ mgr' = [mgr EXCEPT !.data = @ \cup {i}]
    /\ UNCHANGED <<conf, now, odd, failed, unpurged>>

\* The server ends and starts again: after a stop, which saves, or a crash, which does not.
Boots ==
    /\ \E r \in Answers, saves \in BOOLEAN : Happens(1, r)
           /\ LET m == IF saves THEN AllSaved(mgr, r) ELSE mgr
              IN  /\ Becomes(Booted(m, r))
                  /\ unpurged' = unpurged \cup {i \in Ids(m.ents) : m.redis[i].state # m.ents[i].state}
    /\ UNCHANGED <<conf, now>>

TimePasses ==
    /\ now < MaxTime /\ now' = now + 1
    /\ UNCHANGED <<mgr, conf, odd, failed, unpurged>>

GmStep(i) == OnStopActivity(i) \/ OnRecoverActivity(i) \/ OnForceStartActivity(i)
    \/ OnCloseActivity(i) \/ OnRestartActivity(i) \/ OnRemoveActivity(i) \/ OnAdjustActivityTime(i)

Next == OnTick \/ OnConfigReload \/ OnStopActivityByType \/ Boots \/ TimePasses
            \/ \E i \in Id : GmStep(i) \/ PlayerTakesPart(i)

Spec == Init /\ [][Next]_vars

-----------------------------------------------------------------------------
\* The index by type names a running activity whenever one is running, and only then:
\* what clients and the GM find by type is there, however activities of the type come and go.
RunningIsIndexed ==
    LET open == {i \in Id : In(mgr, i, "running")}
    IN  (mgr.running = 0 /\ open = {}) \/ mgr.running \in open

\* As long as Redis has not failed, a row has one id at most, in memory and in Redis
\* together, so that no start of the server makes two activities of it.
OneIdPerRow ==
    ~failed => \A c \in Cfg : Cardinality(
        {i \in Id : (mgr.ents[i] # None /\ mgr.ents[i].cfg = c) \/ (mgr.redis[i] # None /\ mgr.redis[i].cfg = c)}) <= 1

\* As long as Redis has not failed, players' data belongs to an activity that exists, unless
\* that was stopped by the GM before it ended (handleActionClose purges what was running),
\* or had not been saved as it was when the server crashed (saveData runs every five
\* minutes, data.Cache writes every thirty seconds).
DataHasActivity ==
    ~failed => mgr.data \subseteq Ids(mgr.ents) \cup unpurged

Settled(e) ==
    CASE e = None \/ e.state = "closed" -> TRUE
      [] e # None /\ e.state = "waiting" -> e.time # "always" /\ now < e.start /\ now < e.end
      [] e # None /\ e.state = "running" -> e.time = "timed" => now \in e.start .. e.end
      [] e # None /\ e.state = "stopped" -> e.time = "always" \/ e.end = 0 \/ now < e.end

\* After a tick every activity is where its times say, except one whose row the tick has
\* read again: it waits only before its window, runs only inside it, and stays stopped only
\* before the end.  So the tick also ends what the GM has forced to start or given times
\* that were refused, and none waits, runs or stays stopped past its end.
TickSettles ==
    [][(\E i \in Id : ~Settled(mgr'.ents[i]) /\ mgr.ents[i] # None /\ mgr.ents[i].checked)
          => ~OnTick]_vars

\* Time never opens a closed activity again, though its window has come or has been moved:
\* that takes the GM, a start of the server, or a permanent row that is read again (which
\* opens what the GM has closed, too).
ClosedStaysClosed ==
    [][(\E i \in Id : In(mgr, i, "closed") /\ ~In(mgr', i, "closed")
                       /\ (mgr.ents[i].checked \/ conf[mgr.ents[i].cfg].time # "always"))
          => ~OnTick /\ ~TimePasses]_vars

\* The index and the ids follow the activities.
EntitiesAreSound == TypeOK /\ RunningIsIndexed /\ OneIdPerRow
=============================================================================
