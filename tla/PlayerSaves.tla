----------------------------- MODULE PlayerSaves -----------------------------
(***************************************************************************)
(* A player's bag (or the codes it has used) on its way to Redis: written  *)
(* by a job when the player is born, by the player's actor when it logs    *)
(* out, and read by Login, while the server is shut down, or crashes, and  *)
(* starts again.  The shutdown destroys the modules, and Login's players   *)
(* with it, before it stops the workers.                                   *)
(***************************************************************************)
EXTENDS DbWorkers

CONSTANTS
    MaxChanges, \* bound: changes of a player
    MaxAsks,    \* bound: jobs of a server's life
    MaxStarts   \* bound: starts of the server

ASSUME BoundsAssumption == MaxChanges \in Nat /\ MaxStarts \in Nat \ {0}

VARIABLES
    life,       \* life[p]: the account and the actor of player p
    data,       \* data[p]: the version of the bag that the actor has
    shutdown,   \* "no", "destroying" or "destroyed"
    starts,     \* how often the server was started
    saved,      \* ghost: the version that p's last logout, or its birth, has saved
    overtaken   \* ghost: players whose last logout came before the job of their birth

vars == <<dbVars, life, data, shutdown, starts, saved, overtaken>>

TypeOK ==
    /\ WorkersTypeOK
    /\ life \in [Player -> {"unborn", "creating", "online", "offline"}]
    /\ data \in [Player -> 0..MaxChanges] /\ saved \in [Player -> 0..MaxChanges]
    /\ shutdown \in {"no", "destroying", "destroyed"}
    /\ starts \in 1..MaxStarts
    /\ overtaken \subseteq Player

Init ==
    /\ WorkersInit
    /\ life = [p \in Player |-> "unborn"]
    /\ data = [p \in Player |-> 0] /\ saved = data
    /\ shutdown = "no" /\ starts = 1
    /\ overtaken = {}

Works(c) == shutdown # "destroyed" /\ caller[c] = Free
Quiet == UNCHANGED <<running, open, queue, worker, stopper, accepted, answered, panicked>>

\* login: Born, the account key, and OnSave(false).  Of a player's parts only the bag and the
\* codes it has used are written then.
Born(p) ==
    /\ Works(Login) /\ life[p] = "unborn" /\ \A q \in Player : life[q] # "creating"
    /\ life' = [life EXCEPT ![p] = "creating"]
    /\ Submits(Login, [op |-> "set", player |-> p, version |-> 0])
    /\ Quiet /\ UNCHANGED <<bags, data, shutdown, starts, saved, overtaken>>

\* ... and then the player's actor.
Created(p) ==
    /\ Works(Login) /\ life[p] = "creating"
    /\ life' = [life EXCEPT ![p] = "online"]
    /\ UNCHANGED <<dbVars, data, shutdown, starts, saved, overtaken>>

\* LoadPlayerData: who has no bag in Redis gets a new one.
Load(p) ==
    /\ Works(Login) /\ life[p] = "offline" /\ \A q \in Player : life[q] # "creating"
    /\ life' = [life EXCEPT ![p] = "online"]
    /\ data' = [data EXCEPT ![p] = IF bags[p] = {} THEN 0 ELSE CHOOSE v \in bags[p] : TRUE]
    /\ UNCHANGED <<dbVars, shutdown, starts, saved, overtaken>>

\* A handler of the player.
Change(p) ==
    /\ Works(p) /\ life[p] = "online" /\ data[p] < MaxChanges
    /\ data' = [data EXCEPT ![p] = @ + 1]
    /\ UNCHANGED <<dbVars, life, shutdown, starts, saved, overtaken>>

AsksRank(p) ==
    /\ Works(p) /\ life[p] = "online" /\ accepted < MaxAsks
    /\ Submits(p, [op |-> "get", player |-> p])
    /\ Quiet /\ UNCHANGED <<bags, life, data, shutdown, starts, saved, overtaken>>

LogoutAsync(p) ==
    /\ Works(p) /\ life[p] = "online"
    /\ Submits(p, [op |-> "set", player |-> p, version |-> data[p]])
    /\ life' = [life EXCEPT ![p] = "offline"]
    /\ saved' = [saved EXCEPT ![p] = data[p]]
    /\ overtaken' = IF Outstanding(p) THEN overtaken \cup {p} ELSE overtaken \ {p}
    /\ Quiet /\ UNCHANGED <<bags, data, shutdown, starts>>

\* Logout: OnSave(true), and the actor is gone.
Logout(p) ==
    /\ Works(p) /\ life[p] = "online"
    /\ life' = [life EXCEPT ![p] = "offline"]
    /\ bags' = [bags EXCEPT ![p] = {data[p]}]
    /\ saved' = [saved EXCEPT ![p] = data[p]]
    /\ overtaken' = IF Outstanding(p) THEN overtaken \cup {p} ELSE overtaken \ {p}
    /\ Quiet /\ UNCHANGED <<caller, data, shutdown, starts>>

-----------------------------------------------------------------------------
(* The end of the server's process, and its next start. *)

ShutdownStarts ==
    /\ shutdown = "no" /\ shutdown' = "destroying"
    /\ UNCHANGED <<dbVars, life, data, starts, saved, overtaken>>

DestroyEndsAtOnce ==
    /\ shutdown = "destroying" /\ shutdown' = "destroyed"
    /\ life' = [p \in Player |-> IF life[p] = "online" THEN "offline" ELSE life[p]]
    /\ UNCHANGED <<dbVars, data, starts, saved, overtaken>>

\* Destroy waits for the actors to finish what they are at.  Players stop without a save.
DestroyEnds ==
    /\ shutdown = "destroying" /\ shutdown' = "destroyed"
    /\ \A c \in Actor : caller[c] = Free
    /\ \A p \in Player : life[p] # "creating"
    /\ life' = [p \in Player |-> IF life[p] = "online" THEN "offline" ELSE life[p]]
    /\ UNCHANGED <<dbVars, data, starts, saved, overtaken>>

\* db.Close.
CloseDb == shutdown = "destroyed" /\ StopFlags /\ UNCHANGED <<life, data, shutdown, starts, saved, overtaken>>

\* The next start, after db.Close has returned, or a crash (or the three seconds of
\* KillWaitTTL): what was in the queue is gone.
Boots ==
    /\ starts < MaxStarts /\ starts' = starts + 1
    /\ Started
    /\ shutdown' = "no"
    /\ life' = [p \in Player |-> IF life[p] = "unborn" THEN "unborn" ELSE "offline"]
    /\ UNCHANGED <<bags, panicked, data, saved, overtaken>>

-----------------------------------------------------------------------------
PlayerStep == \E p \in Player : Born(p) \/ Load(p) \/ Change(p) \/ AsksRank(p) \/ Logout(p)

SubmitStep ==
    \/ \E p \in Player : Created(p)
    \/ (\E c \in Actor : SubmitChecks(c) \/ SubmitSends(c)) /\ UNCHANGED <<life, data, shutdown, starts, saved, overtaken>>

WorkersStep == (\E w \in Worker : WorkerStep(w)) /\ UNCHANGED <<life, data, shutdown, starts, saved, overtaken>>

StopStep == (StopCloses \/ StopWaits) /\ UNCHANGED <<life, data, shutdown, starts, saved, overtaken>>

Next == PlayerStep \/ SubmitStep \/ WorkersStep \/ StopStep \/ ShutdownStarts \/ DestroyEnds \/ CloseDb \/ Boots

Spec == Init /\ [][Next]_vars

\* Redis answers or its connection times out, so workers, submits and the shutdown, once it has
\* begun, go on.  Nobody has to log in, to log out or to shut the server down.
FairSpec == Spec /\ WF_vars(WorkersStep) /\ WF_vars(SubmitStep) /\ WF_vars(StopStep \/ DestroyEnds \/ CloseDb)

-----------------------------------------------------------------------------
\* submitJob reads the flag and then sends: no actor is between the two when stop closes the
\* queue, which would panic, because Destroy waits for the actors first.
NeverSendsOnClosed == ~panicked

\* When stop has returned every job that was accepted has been carried out and answered.
StopFinishesAll == stopper = "done" => queue = <<>> /\ answered = accepted

\* Who logs in gets what the last logout has saved, also when the job of the birth was
\* dropped because the queue was full or the server crashed.  It may be lost only when the
\* player logged out before the job of its birth, which then wrote over it.
LoadsWhatWasSaved ==
    [][\A p \in Player : life[p] = "offline" /\ life'[p] = "online" /\ p \notin overtaken =>
           data'[p] = saved[p]]_vars

\* A shutdown ends, whatever is still in the queue.
ShutdownEnds == shutdown = "destroying" ~> stopper = "done" \/ shutdown = "no"

\* The workers and their queue survive every shutdown.
WorkersAreSound == TypeOK /\ NeverSendsOnClosed /\ StopFinishesAll
=============================================================================
