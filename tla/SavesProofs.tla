----------------------------- MODULE SavesProofs -----------------------------
(***************************************************************************)
(* Theorems about PlayerSaves, for any number of players and workers, any  *)
(* size of the queue, any number of changes, questions and starts: the     *)
(* shutdown drops no job that was accepted, nobody sends on the closed     *)
(* queue, and who logs in gets what the last logout has saved.             *)
(***************************************************************************)
EXTENDS PlayerSaves, FiniteSetTheorems, TLAPS

-----------------------------------------------------------------------------
(* The inductive invariant. *)

Busy == {w \in Worker : worker[w].pc \in {"do", "answer"}}

\* The flag, the queue and the workers follow stop, and no job is lost between them.
StopInv ==
    /\ running <=> stopper = "no"
    /\ open <=> stopper \in {"no", "closing"}
    /\ \A w \in Worker : worker[w] = Ended => queue = <<>> /\ ~open
    /\ stopper = "done" => \A w \in Worker : worker[w] = Ended
    /\ accepted = answered + Len(queue) + Cardinality(Busy)
    /\ ~panicked

\* stop is called when the actors are gone, and they are gone when no call is under way.
DestroyInv ==
    /\ stopper # "no" => shutdown = "destroyed"
    /\ shutdown = "destroyed" => \A c \in Actor : caller[c] = Free

\* What a set that is under way sets: only births use sets, so it is the first version.
SetsFirst(job) == job.op = "set" => job.version = 0

BirthInv ==
    /\ \A i \in DOMAIN queue : SetsFirst(queue[i])
    /\ \A w \in Worker : worker[w].pc = "do" => SetsFirst(worker[w].job)
    /\ \A c \in Actor : caller[c] # Free => SetsFirst(caller[c].job)

\* Redis has what was saved, or nothing when nothing but the birth was to be saved.
SavedInv ==
    /\ \A p \in Player : bags[p] \subseteq 0..MaxChanges
    /\ \A p \in Player : life[p] = "unborn" => saved[p] = 0
    /\ \A p \in Player \ overtaken :
           /\ bags[p] = {} => saved[p] = 0
           /\ \A v \in bags[p] : v = saved[p]
           /\ Outstanding(p) => saved[p] = 0

IInv == TypeOK /\ StopInv /\ DestroyInv /\ BirthInv /\ SavedInv

-----------------------------------------------------------------------------
(* Facts about queues and about the set of busy workers. *)

\* What Append makes of a queue.
LEMMA Appended ==
    ASSUME NEW S, NEW q \in Seq(S), NEW x \in S
    PROVE  /\ Append(q, x) \in Seq(S) /\ Len(Append(q, x)) = Len(q) + 1
           /\ \A i \in DOMAIN Append(q, x) :
                  Append(q, x)[i] = x \/ (i \in DOMAIN q /\ Append(q, x)[i] = q[i])
OBVIOUS

\* What taking its head leaves of a queue.
LEMMA Taken ==
    ASSUME NEW S, NEW q \in Seq(S), q # <<>>
    PROVE  /\ Tail(q) \in Seq(S) /\ Len(Tail(q)) = Len(q) - 1 /\ Len(q) > 0
           /\ 1 \in DOMAIN q /\ Head(q) = q[1] /\ Head(q) \in S
           /\ \A i \in DOMAIN Tail(q) : i + 1 \in DOMAIN q /\ Tail(q)[i] = q[i + 1]
OBVIOUS

\* The number of busy workers is a number.
LEMMA BusyCount == IsFiniteSet(Busy) /\ Cardinality(Busy) \in Nat
<1>1. Busy \subseteq Worker BY DEF Busy
<1>2. IsFiniteSet(Busy) BY <1>1, WorkersAssumption, FS_Subset
<1>3. QED BY <1>2, FS_CardinalityType

\* One more when a worker takes a job.
LEMMA BusyMore ==
    ASSUME TypeOK, NEW w \in Worker, worker[w] = Idle, NEW job,
           worker' = [worker EXCEPT ![w] = [pc |-> "do", job |-> job]]
    PROVE  Cardinality(Busy') = Cardinality(Busy) + 1
<1>1. w \notin Busy BY DEF Busy, Idle
<1>2. Busy' = Busy \cup {w} BY DEF Busy, TypeOK, WorkersTypeOK
<1>3. QED BY <1>1, <1>2, BusyCount, FS_AddElement

\* One less when it has answered.
LEMMA BusyLess ==
    ASSUME TypeOK, NEW w \in Worker, worker[w].pc = "answer", worker' = [worker EXCEPT ![w] = Idle]
    PROVE  Cardinality(Busy') = Cardinality(Busy) - 1
<1>1. w \in Busy BY DEF Busy
<1>2. Busy' = Busy \ {w} BY DEF Busy, TypeOK, WorkersTypeOK, Idle
<1>3. QED BY <1>1, <1>2, BusyCount, FS_RemoveElement

\* Initially, and after a start, nobody is busy.
LEMMA BusyNone == ASSUME worker = [w \in Worker |-> Idle] PROVE Cardinality(Busy) = 0
<1>1. Busy = {} BY DEF Busy, Idle
<1>2. QED BY <1>1, FS_EmptySet
-----------------------------------------------------------------------------
(* Every step keeps it, part by part. *)

\* Steps of the players and of the directory leave the workers and the queue alone.
OthersStep == PlayerStep \/ (\E p \in Player : Created(p)) \/ (\E c \in Actor : SubmitChecks(c))
              \/ ShutdownStarts \/ DestroyEnds

\* They do.
LEMMA OthersQuiet ==
    OthersStep \/ UNCHANGED vars
        => UNCHANGED <<running, open, queue, worker, stopper, accepted, answered, panicked>>
BY DEF OthersStep, PlayerStep, Born, Load, Change, AsksRank, Logout, Created, SubmitChecks,
       ShutdownStarts, DestroyEnds, Quiet, dbVars, vars

\* No job is lost between the queue, the workers and their answers, whatever stop is at.
LEMMA StopInvStep == IInv /\ [Next]_vars => StopInv'
<1> SUFFICES ASSUME IInv, [Next]_vars PROVE StopInv' OBVIOUS
<1> USE DEF IInv
<1>t. /\ queue \in Seq(Job) /\ accepted \in Nat /\ answered \in Nat /\ Cardinality(Busy) \in Nat
      /\ \A w \in Worker : worker[w] \in {Idle, Ended} \cup [pc : {"do", "answer"}, job : Job]
      /\ worker = [w \in Worker |-> worker[w]]
      /\ running \in BOOLEAN /\ open \in BOOLEAN /\ panicked \in BOOLEAN
    BY BusyCount DEF TypeOK, WorkersTypeOK
<1>1. CASE OthersStep \/ UNCHANGED vars
    <2>1. UNCHANGED <<running, open, queue, worker, stopper, accepted, answered, panicked>>
        BY <1>1, OthersQuiet
    <2>2. Busy' = Busy BY <2>1 DEF Busy
    <2>3. QED BY <2>1, <2>2 DEF StopInv
<1>2. ASSUME NEW c \in Actor, SubmitSends(c) PROVE StopInv'
    <2>1. open BY <1>2 DEF SubmitSends, StopInv, DestroyInv, Free
    <2>2. /\ worker' = worker /\ stopper' = stopper /\ running' = running /\ open' = open
          /\ answered' = answered /\ panicked' = panicked
        BY <1>2, <2>1, <1>t DEF SubmitSends, StopInv
    <2>3. Busy' = Busy BY <2>2 DEF Busy
    <2>4. accepted' = answered' + Len(queue') + Cardinality(Busy')
        <3>1. CASE Len(queue) < QueueSize
            <4>1. queue' = Append(queue, caller[c].job) /\ accepted' = accepted + 1
                BY <1>2, <2>1, <3>1 DEF SubmitSends
            <4>2. caller[c].job \in Job BY <1>2 DEF SubmitSends, TypeOK, WorkersTypeOK, Free
            <4>3. Len(queue') = Len(queue) + 1 BY <4>1, <4>2, <1>t, Appended
            <4>4. QED BY <4>1, <4>3, <2>2, <2>3, <1>t DEF StopInv
        <3>2. CASE ~(Len(queue) < QueueSize)
            BY <1>2, <3>2, <2>2, <2>3 DEF SubmitSends, StopInv
        <3>3. QED BY <3>1, <3>2
    <2>5. QED BY <2>1, <2>2, <2>4 DEF StopInv
<1>3. ASSUME NEW w \in Worker, WorkerTakes(w) PROVE StopInv'
    <2>1. Cardinality(Busy') = Cardinality(Busy) + 1 BY <1>3, BusyMore DEF WorkerTakes
    <2>2. Len(queue') = Len(queue) - 1 BY <1>3, <1>t, Taken DEF WorkerTakes
    <2>3. \A v \in Worker : worker'[v] # Ended BY <1>3, <1>t DEF WorkerTakes, StopInv, Ended
    <2>4. stopper # "done" BY <1>3 DEF WorkerTakes, StopInv
    <2>5. UNCHANGED <<running, open, stopper, accepted, answered, panicked>> BY <1>3 DEF WorkerTakes
    <2>6. accepted' = answered' + Len(queue') + Cardinality(Busy')
        <3>1. Len(queue) \in Nat /\ Len(queue') \in Nat BY <1>3, <1>t, Taken DEF WorkerTakes
        <3>2. QED BY <2>1, <2>2, <2>5, <3>1, <1>t DEF StopInv
    <2>7. QED BY <2>3, <2>4, <2>5, <2>6 DEF StopInv
<1>4. ASSUME NEW w \in Worker, ExecuteJob(w) PROVE StopInv'
    <2>1. worker[w] \in [pc : {"do", "answer"}, job : Job] BY <1>4, <1>t DEF ExecuteJob, Idle, Ended
    <2>2. worker' = [worker EXCEPT ![w].pc = "answer"] BY <1>4 DEF ExecuteJob
    <2>3. Busy' = Busy BY <1>4, <2>1, <2>2, <1>t DEF Busy
    <2>4. \A v \in Worker : worker'[v] = Ended <=> worker[v] = Ended
        BY <2>1, <2>2, <1>t DEF Ended
    <2>5. QED BY <1>4, <2>3, <2>4 DEF ExecuteJob, StopInv
<1>5. ASSUME NEW w \in Worker, AnswerJob(w) PROVE StopInv'
    <2>1. Cardinality(Busy') = Cardinality(Busy) - 1 BY <1>5, BusyLess DEF AnswerJob
    <2>2. \A v \in Worker : worker'[v] = Ended <=> worker[v] = Ended
        BY <1>5, <1>t DEF AnswerJob, Ended, Idle
    <2>3. QED BY <1>5, <2>1, <2>2, <1>t DEF AnswerJob, StopInv
<1>6. ASSUME NEW w \in Worker, WorkerEnds(w) PROVE StopInv'
    <2>1. Busy' = Busy BY <1>6, <1>t DEF WorkerEnds, Busy, Idle, Ended
    <2>2. \A v \in Worker : worker[v] = Ended => worker'[v] = Ended
        BY <1>6, <1>t DEF WorkerEnds
    <2>3. QED BY <1>6, <2>1, <2>2 DEF WorkerEnds, StopInv
<1>7. CASE StopFlags
    <2>1. Busy' = Busy BY <1>7 DEF StopFlags, Busy
    <2>2. QED BY <1>7, <2>1 DEF StopFlags, StopInv
<1>8. CASE StopCloses
    <2>1. Busy' = Busy BY <1>8 DEF StopCloses, Busy
    <2>2. QED BY <1>8, <2>1 DEF StopCloses, StopInv
<1>9. CASE StopWaits
    <2>1. Busy' = Busy BY <1>9 DEF StopWaits, Busy
    <2>2. QED BY <1>9, <2>1 DEF StopWaits, StopInv
<1>10. CASE Boots
    <2>1. worker' = [w \in Worker |-> Idle] BY <1>10 DEF Boots, Started
    <2>2. Busy' = {} BY <2>1 DEF Busy, Idle
    <2>3. Cardinality(Busy') = 0 BY <2>2, FS_EmptySet
    <2>4. \A w \in Worker : worker'[w] # Ended BY <2>1 DEF Idle, Ended
    <2>5. Len(queue') = 0 BY <1>10 DEF Boots, Started
    <2>6. QED BY <1>10, <2>3, <2>4, <2>5 DEF Boots, Started, StopInv
<1>11. QED BY <1>1, <1>2, <1>3, <1>4, <1>5, <1>6, <1>7, <1>8, <1>9, <1>10
    DEF Next, OthersStep, SubmitStep, WorkersStep, WorkerStep, StopStep, CloseDb
\* The database is closed when nobody is at a call.
LEMMA DestroyInvStep == IInv /\ [Next]_vars => DestroyInv'
<1> SUFFICES ASSUME IInv, [Next]_vars PROVE DestroyInv' OBVIOUS
<1> USE DEF IInv
<1>1. CASE (\E c \in Actor : SubmitChecks(c)) /\ UNCHANGED shutdown
    BY <1>1 DEF SubmitChecks, DestroyInv, Free
<1>2. CASE (\E c \in Actor : SubmitSends(c)) /\ UNCHANGED shutdown
    BY <1>2 DEF SubmitSends, DestroyInv, Free
<1>3. CASE PlayerStep \/ \E p \in Player : Created(p)
    BY <1>3 DEF PlayerStep, Born, Load, Change, AsksRank, Logout, Created, Works, Submits, Quiet,
                DestroyInv, dbVars, Actor
<1>4. CASE WorkersStep \/ UNCHANGED vars
    BY <1>4 DEF WorkersStep, WorkerStep, WorkerTakes, ExecuteJob, AnswerJob, WorkerEnds,
                DestroyInv, vars, dbVars
<1>5. CASE StopStep \/ CloseDb \/ ShutdownStarts \/ DestroyEnds
    BY <1>5 DEF StopStep, CloseDb, StopFlags, StopCloses, StopWaits, ShutdownStarts, DestroyEnds,
                DestroyInv, dbVars
<1>6. CASE Boots
    BY <1>6 DEF Boots, Started, DestroyInv
<1>7. QED BY <1>1, <1>2, <1>3, <1>4, <1>5, <1>6 DEF Next, SubmitStep

\* Sets carry first versions from the call to the queue and on to a worker.
LEMMA BirthInvStep == IInv /\ [Next]_vars => BirthInv'
<1> SUFFICES ASSUME IInv, [Next]_vars PROVE BirthInv' OBVIOUS
<1> USE DEF IInv
<1>t. /\ queue \in Seq(Job)
      /\ caller \in [Actor -> {Free} \cup [pc : {"checking", "sending"}, job : Job]]
      /\ worker \in [Worker -> {Idle, Ended} \cup [pc : {"do", "answer"}, job : Job]]
    BY DEF TypeOK, WorkersTypeOK
<1>1. ASSUME NEW c \in Actor, SubmitChecks(c) PROVE BirthInv'
    <2>1. caller[c] \in [pc : {"checking", "sending"}, job : Job]
        BY <1>1, <1>t DEF SubmitChecks, Free
    <2>2. \A d \in Actor : caller'[d] = Free \/ (caller[d] # Free /\ caller'[d].job = caller[d].job)
        BY <1>1, <2>1, <1>t DEF SubmitChecks, Free
    <2>3. UNCHANGED <<queue, worker>> BY <1>1 DEF SubmitChecks
    <2>4. QED BY <2>2, <2>3 DEF BirthInv, SetsFirst
<1>2. ASSUME NEW c \in Actor, SubmitSends(c) PROVE BirthInv'
    <2>1. caller[c].job \in Job /\ SetsFirst(caller[c].job)
        BY <1>2, <1>t DEF SubmitSends, Free, BirthInv
    <2>2. \A i \in DOMAIN queue' : SetsFirst(queue'[i])
        <3>1. CASE queue' = queue BY <3>1 DEF BirthInv
        <3>2. CASE queue' = Append(queue, caller[c].job) BY <3>2, <2>1, <1>t, Appended DEF BirthInv
        <3>3. QED BY <1>2, <3>1, <3>2 DEF SubmitSends
    <2>3. \A d \in Actor : caller'[d] = Free \/ caller'[d] = caller[d]
        BY <1>2, <1>t DEF SubmitSends
    <2>4. UNCHANGED worker BY <1>2 DEF SubmitSends
    <2>5. QED BY <2>2, <2>3, <2>4 DEF BirthInv
<1>3. CASE PlayerStep
    <2>1. ASSUME NEW p \in Player, Born(p) PROVE BirthInv'
        <3>1. UNCHANGED <<queue, worker>> BY <2>1 DEF Born, Quiet
        <3>2. \A c \in Actor : caller'[c] = caller[c] \/ SetsFirst(caller'[c].job)
            BY <2>1, <1>t DEF Born, Submits, SetsFirst
        <3>3. QED BY <3>1, <3>2 DEF BirthInv
    <2>2. ASSUME NEW p \in Player, AsksRank(p) PROVE BirthInv'
        <3>1. UNCHANGED <<queue, worker>> BY <2>2 DEF AsksRank, Quiet
        <3>2. \A c \in Actor : caller'[c] = caller[c] \/ SetsFirst(caller'[c].job)
            BY <2>2, <1>t DEF AsksRank, Submits, SetsFirst
        <3>3. QED BY <3>1, <3>2 DEF BirthInv
    <2>3. ASSUME NEW p \in Player, Load(p) \/ Change(p) \/ Logout(p) PROVE BirthInv'
        BY <2>3 DEF Load, Change, Logout, Quiet, dbVars, BirthInv
    <2>4. QED BY <1>3, <2>1, <2>2, <2>3 DEF PlayerStep
<1>4. ASSUME NEW w \in Worker, WorkerTakes(w) PROVE BirthInv'
    <2>1. SetsFirst(Head(queue)) BY <1>4, <1>t, Taken DEF WorkerTakes, BirthInv
    <2>2. \A i \in DOMAIN queue' : SetsFirst(queue'[i])
        BY <1>4, <1>t, Taken DEF WorkerTakes, BirthInv
    <2>3. \A v \in Worker : worker'[v] = worker[v] \/ worker'[v].job = Head(queue)
        BY <1>4, <1>t DEF WorkerTakes
    <2>4. UNCHANGED caller BY <1>4 DEF WorkerTakes
    <2>5. QED BY <2>1, <2>2, <2>3, <2>4 DEF BirthInv
<1>5. ASSUME NEW w \in Worker, ExecuteJob(w) \/ AnswerJob(w) \/ WorkerEnds(w) PROVE BirthInv'
    <2>1. \A v \in Worker : worker'[v] = worker[v] \/ worker'[v].pc # "do"
        BY <1>5, <1>t DEF ExecuteJob, AnswerJob, WorkerEnds, Idle, Ended
    <2>2. UNCHANGED <<queue, caller>> BY <1>5 DEF ExecuteJob, AnswerJob, WorkerEnds
    <2>3. QED BY <2>1, <2>2 DEF BirthInv
<1>6. CASE UNCHANGED <<queue, worker, caller>>
    BY <1>6 DEF BirthInv
<1>7. CASE Boots
    BY <1>7 DEF Boots, Started, BirthInv, Idle, Free
<1>8. CASE (\E p \in Player : Created(p)) \/ StopStep \/ CloseDb \/ ShutdownStarts \/ DestroyEnds \/ UNCHANGED vars
    BY <1>6, <1>8 DEF Created, StopStep, CloseDb, StopFlags, StopCloses, StopWaits, ShutdownStarts,
                      DestroyEnds, vars, dbVars
<1>9. QED BY <1>1, <1>2, <1>3, <1>4, <1>5, <1>7, <1>8 DEF Next, SubmitStep, WorkersStep, WorkerStep
\* Only a birth puts a set under way.
LEMMA OutstandingStep ==
    ASSUME IInv, [Next]_vars, NEW p \in Player, Outstanding(p)', ~Outstanding(p)
    PROVE  Born(p)
<1> USE DEF IInv
<1> DEFINE Sets(job) == job.op = "set" /\ job.player = p
<1>t. /\ queue \in Seq(Job)
      /\ caller \in [Actor -> {Free} \cup [pc : {"checking", "sending"}, job : Job]]
      /\ worker \in [Worker -> {Idle, Ended} \cup [pc : {"do", "answer"}, job : Job]]
    BY DEF TypeOK, WorkersTypeOK
<1>a. /\ \A i \in DOMAIN queue : ~Sets(queue[i])
      /\ \A w \in Worker : worker[w].pc = "do" => ~Sets(worker[w].job)
      /\ \A c \in Actor : caller[c] # Free => ~Sets(caller[c].job)
    BY DEF Outstanding
<1>b. \/ \E i \in DOMAIN queue' : Sets(queue'[i])
      \/ \E w \in Worker : worker'[w].pc = "do" /\ Sets(worker'[w].job)
      \/ \E c \in Actor : caller'[c] # Free /\ Sets(caller'[c].job)
    BY DEF Outstanding
<1> HIDE DEF Sets
<1>1. ASSUME NEW c \in Actor, SubmitChecks(c) PROVE FALSE
    <2>1. caller[c] \in [pc : {"checking", "sending"}, job : Job]
        BY <1>1, <1>t DEF SubmitChecks, Free
    <2>2. \A d \in Actor : caller'[d] = Free \/ (caller[d] # Free /\ caller'[d].job = caller[d].job)
        BY <1>1, <2>1, <1>t DEF SubmitChecks, Free
    <2>3. UNCHANGED <<queue, worker>> BY <1>1 DEF SubmitChecks
    <2>4. QED BY <2>2, <2>3, <1>a, <1>b
<1>2. ASSUME NEW c \in Actor, SubmitSends(c) PROVE FALSE
    <2>1. caller[c].job \in Job /\ ~Sets(caller[c].job)
        BY <1>2, <1>t, <1>a DEF SubmitSends, Free
    <2>2. \A i \in DOMAIN queue' : ~Sets(queue'[i])
        <3>1. CASE queue' = queue BY <3>1, <1>a
        <3>2. CASE queue' = Append(queue, caller[c].job) BY <3>2, <2>1, <1>t, <1>a, Appended
        <3>3. QED BY <1>2, <3>1, <3>2 DEF SubmitSends
    <2>3. \A d \in Actor : caller'[d] = Free \/ caller'[d] = caller[d]
        BY <1>2, <1>t DEF SubmitSends
    <2>4. UNCHANGED worker BY <1>2 DEF SubmitSends
    <2>5. QED BY <2>2, <2>3, <2>4, <1>a, <1>b
<1>3. ASSUME NEW q \in Player, Born(q) PROVE Born(p)
    <2>1. UNCHANGED <<queue, worker>> BY <1>3 DEF Born, Quiet
    <2>2. \A c \in Actor : caller'[c] = caller[c] \/ caller'[c].job.player = q
        BY <1>3, <1>t DEF Born, Submits
    <2>3. \E c \in Actor : Sets(caller'[c].job) /\ caller'[c] # caller[c]
        BY <2>1, <1>a, <1>b
    <2>4. p = q BY <2>2, <2>3 DEF Sets
    <2>5. QED BY <1>3, <2>4
<1>4. ASSUME NEW q \in Player, AsksRank(q) PROVE FALSE
    <2>1. UNCHANGED <<queue, worker>> BY <1>4 DEF AsksRank, Quiet
    <2>2. \A c \in Actor : caller'[c] = caller[c] \/ caller'[c].job.op = "get"
        BY <1>4, <1>t DEF AsksRank, Submits
    <2>3. \E c \in Actor : Sets(caller'[c].job) /\ caller'[c] # caller[c]
        BY <2>1, <1>a, <1>b
    <2>4. QED BY <2>2, <2>3 DEF Sets
<1>5. ASSUME NEW w \in Worker, WorkerTakes(w) PROVE FALSE
    <2>1. ~Sets(Head(queue)) BY <1>5, <1>t, <1>a, Taken DEF WorkerTakes
    <2>2. \A i \in DOMAIN queue' : ~Sets(queue'[i])
        BY <1>5, <1>t, <1>a, Taken DEF WorkerTakes
    <2>3. \A v \in Worker : worker'[v] = worker[v] \/ worker'[v].job = Head(queue)
        BY <1>5, <1>t DEF WorkerTakes
    <2>4. UNCHANGED caller BY <1>5 DEF WorkerTakes
    <2>5. QED BY <2>1, <2>2, <2>3, <2>4, <1>a, <1>b
<1>6. ASSUME NEW w \in Worker, ExecuteJob(w) \/ AnswerJob(w) \/ WorkerEnds(w) PROVE FALSE
    <2>1. \A v \in Worker : worker'[v] = worker[v] \/ worker'[v].pc # "do"
        BY <1>6, <1>t DEF ExecuteJob, AnswerJob, WorkerEnds, Idle, Ended
    <2>2. UNCHANGED <<queue, caller>> BY <1>6 DEF ExecuteJob, AnswerJob, WorkerEnds
    <2>3. QED BY <2>1, <2>2, <1>a, <1>b
<1>7. CASE UNCHANGED <<queue, worker, caller>>
    BY <1>7, <1>a, <1>b
<1>8. CASE Boots
    <2>1. /\ queue' = <<>> /\ \A w \in Worker : worker'[w].pc # "do"
          /\ \A c \in Actor : caller'[c] = Free
        BY <1>8 DEF Boots, Started, Idle
    <2>2. QED BY <2>1, <1>b
<1>9. CASE \/ \E q \in Player : Created(q) \/ Load(q) \/ Change(q) \/ Logout(q)
           \/ StopStep \/ CloseDb \/ ShutdownStarts \/ DestroyEnds \/ UNCHANGED vars
    BY <1>7, <1>9 DEF Created, Load, Change, Logout, Quiet, StopStep, CloseDb, StopFlags, StopCloses,
                      StopWaits, ShutdownStarts, DestroyEnds, vars, dbVars
<1>10. QED BY <1>1, <1>2, <1>3, <1>4, <1>5, <1>6, <1>8, <1>9
    DEF Next, PlayerStep, SubmitStep, WorkersStep, WorkerStep

\* What Redis has remains what was saved.
LEMMA SavedInvStep == IInv /\ [Next]_vars => SavedInv'
<1> SUFFICES ASSUME IInv, [Next]_vars PROVE SavedInv' OBVIOUS
<1>t. /\ life \in [Player -> {"unborn", "creating", "online", "offline"}]
      /\ data \in [Player -> 0..MaxChanges] /\ saved \in [Player -> 0..MaxChanges]
      /\ bags \in [Player -> SUBSET Nat] /\ MaxChanges \in Nat
      /\ worker \in [Worker -> {Idle, Ended} \cup [pc : {"do", "answer"}, job : Job]]
    BY BoundsAssumption DEF IInv, TypeOK, WorkersTypeOK
<1>i. SavedInv /\ BirthInv BY DEF IInv
<1>o. \A p \in Player : Outstanding(p)' => Outstanding(p) \/ Born(p)
    BY OutstandingStep
<1>1. ASSUME NEW q \in Player, Born(q) PROVE SavedInv'
    <2>1. /\ UNCHANGED <<bags, saved, overtaken>> /\ life[q] = "unborn"
          /\ life' = [life EXCEPT ![q] = "creating"]
        BY <1>1 DEF Born
    <2>2. \A p \in Player : Outstanding(p)' => Outstanding(p) \/ life[p] = "unborn"
        BY <1>o DEF Born
    <2>3. QED BY <2>1, <2>2, <1>i, <1>t DEF SavedInv
<1>2. ASSUME NEW q \in Player, Logout(q) PROVE SavedInv'
    <2>1. /\ life' = [life EXCEPT ![q] = "offline"]
          /\ bags' = [bags EXCEPT ![q] = {data[q]}] /\ saved' = [saved EXCEPT ![q] = data[q]]
          /\ overtaken' = IF Outstanding(q) THEN overtaken \cup {q} ELSE overtaken \ {q}
          /\ life[q] = "online"
        BY <1>2 DEF Logout
    <2>2. \A p \in Player : Outstanding(p)' => Outstanding(p)
        <3>1. \A p \in Player : ~Born(p)
            BY <2>1, <1>t DEF Born
        <3>2. QED BY <3>1, <1>o
    <2>3. q \in overtaken' \/ ~Outstanding(q)' BY <2>1, <2>2
    <2>4. \A p \in Player \ {q} : p \in overtaken' <=> p \in overtaken BY <2>1
    <2>5. \A p \in Player \ {q} : bags'[p] = bags[p] /\ saved'[p] = saved[p] /\ life'[p] = life[p]
        BY <2>1, <1>t
    <2>6. bags'[q] = {data[q]} /\ saved'[q] = data[q] /\ life'[q] = "offline" /\ data[q] \in 0..MaxChanges
        BY <2>1, <1>t
    <2>7. QED BY <2>2, <2>3, <2>4, <2>5, <2>6, <1>i DEF SavedInv
<1>3. ASSUME NEW w \in Worker, ExecuteJob(w), UNCHANGED <<life, saved, overtaken>> PROVE SavedInv'
    <2>1. worker[w] \in [pc : {"do", "answer"}, job : Job] /\ worker[w].pc = "do"
        BY <1>3, <1>t DEF ExecuteJob, Idle, Ended
    <2>2. \A p \in Player : Outstanding(p)' => Outstanding(p)
        <3>1. \A p \in Player : ~Born(p)
            BY <1>3, <1>t DEF Born
        <3>2. QED BY <3>1, <1>o
    <2>3. CASE UNCHANGED bags BY <1>3, <2>2, <2>3, <1>i DEF SavedInv
    <2>4. CASE worker[w].job.op = "set" /\ bags' = [bags EXCEPT ![worker[w].job.player] = {worker[w].job.version}]
        <3> DEFINE q == worker[w].job.player
        <3>1. q \in Player BY <2>1, <2>4 DEF Job
        <3>2. worker[w].job.version = 0 BY <2>1, <2>4, <1>i DEF BirthInv, SetsFirst
        <3>3. Outstanding(q) BY <2>1, <2>4 DEF Outstanding
        <3>4. bags'[q] = {0} /\ \A p \in Player \ {q} : bags'[p] = bags[p] BY <2>4, <3>1, <3>2, <1>t
        <3>5. q \notin overtaken => saved[q] = 0 BY <3>1, <3>3, <1>i DEF SavedInv
        <3>6. {0} \subseteq 0..MaxChanges BY <1>t
        <3> HIDE DEF q
        <3>7. QED BY <1>3, <2>2, <3>1, <3>4, <3>5, <3>6, <1>i DEF SavedInv
    <2>5. QED BY <1>3, <2>3, <2>4 DEF ExecuteJob
<1>4. ASSUME UNCHANGED <<bags, saved, overtaken>>, \A p \in Player : ~Born(p),
             \A p \in Player : life'[p] = "unborn" => life[p] = "unborn"
      PROVE  SavedInv'
    BY <1>4, <1>o, <1>i DEF SavedInv
<1>5. ASSUME NEW q \in Player, Created(q) \/ Load(q) \/ Change(q) \/ AsksRank(q) PROVE SavedInv'
    <2>1. CASE \E p \in Player : Born(p) BY <1>1, <2>1
    <2>2. UNCHANGED <<bags, saved, overtaken>> BY <1>5 DEF Created, Load, Change, AsksRank, dbVars
    <2>3. \A p \in Player : life'[p] = "unborn" => life[p] = "unborn"
        BY <1>5, <1>t DEF Created, Load, Change, AsksRank
    <2>4. QED BY <1>4, <2>1, <2>2, <2>3
<1>6. CASE UNCHANGED <<life, bags, saved, overtaken>>
    <2>1. CASE \E p \in Player : Born(p) BY <1>1, <2>1
    <2>2. QED BY <1>4, <1>6, <2>1
<1>7. CASE DestroyEnds \/ Boots
    <2>1. CASE \E p \in Player : Born(p) BY <1>1, <2>1
    <2>2. UNCHANGED <<bags, saved, overtaken>> BY <1>7 DEF DestroyEnds, Boots, dbVars
    <2>3. \A p \in Player : life'[p] = "unborn" => life[p] = "unborn"
        BY <1>7, <1>t DEF DestroyEnds, Boots
    <2>4. QED BY <1>4, <2>1, <2>2, <2>3
<1>8. QED BY <1>1, <1>2, <1>3, <1>5, <1>6, <1>7
    DEF Next, PlayerStep, SubmitStep, WorkersStep, WorkerStep, StopStep, CloseDb, ShutdownStarts,
        SubmitChecks, SubmitSends, WorkerTakes, AnswerJob, WorkerEnds, StopFlags, StopCloses, StopWaits,
        vars, dbVars
\* Types of the workers' and the queue's variables, whoever steps.
LEMMA WorkersTypeStep == IInv /\ [Next]_vars /\ StopInv' => WorkersTypeOK'
<1> SUFFICES ASSUME IInv, [Next]_vars, StopInv' PROVE WorkersTypeOK' OBVIOUS
<1> DEFINE Callers == [Actor -> {Free} \cup [pc : {"checking", "sending"}, job : Job]]
           Workers == [Worker -> {Idle, Ended} \cup [pc : {"do", "answer"}, job : Job]]
<1>t. /\ running \in BOOLEAN /\ open \in BOOLEAN /\ panicked \in BOOLEAN
      /\ queue \in Seq(Job) /\ Len(queue) <= QueueSize
      /\ worker \in Workers /\ caller \in Callers
      /\ stopper \in {"no", "closing", "waiting", "done"}
      /\ bags \in [Player -> SUBSET Nat] /\ \A p \in Player : \A v, u \in bags[p] : v = u
      /\ accepted \in Nat /\ answered \in Nat
      /\ data \in [Player -> 0..MaxChanges] /\ MaxChanges \in Nat
      /\ QueueSize \in Nat \ {0} /\ Login \in Actor /\ Player \subseteq Actor
    BY WorkersAssumption, BoundsAssumption DEF IInv, TypeOK, WorkersTypeOK, Actor
<1> DEFINE Flags == running' \in BOOLEAN /\ open' \in BOOLEAN /\ panicked' \in BOOLEAN
                    /\ stopper' \in {"no", "closing", "waiting", "done"}
           Queued == queue' \in Seq(Job) /\ Len(queue') <= QueueSize
           Counts == accepted' \in Nat /\ answered' \in Nat
           Bags == bags' \in [Player -> SUBSET Nat] /\ \A p \in Player : \A v, u \in bags'[p] : v = u
<1> SUFFICES Flags /\ Queued /\ worker' \in Workers /\ caller' \in Callers /\ Bags /\ Counts
    <2>1. Cardinality(Busy') \in Nat
        <3>1. Busy' \subseteq Worker BY DEF Busy
        <3>2. QED BY <3>1, WorkersAssumption, FS_Subset, FS_CardinalityType
    <2>2. ASSUME Counts, Queued PROVE answered' \in 0..accepted'
        BY <2>1, <2>2 DEF StopInv
    <2>3. QED BY <2>2 DEF WorkersTypeOK
<1> HIDE DEF Callers, Workers
<1>1. ASSUME NEW c \in Actor, SubmitChecks(c)
      PROVE  Flags /\ Queued /\ worker' \in Workers /\ caller' \in Callers /\ Bags /\ Counts
    <2>1. caller[c] \in [pc : {"checking", "sending"}, job : Job]
        BY <1>1, <1>t DEF SubmitChecks, Free, Callers
    <2>2. caller' = [caller EXCEPT ![c] = IF running THEN [caller[c] EXCEPT !.pc = "sending"] ELSE Free]
        BY <1>1 DEF SubmitChecks
    <2>3. [caller[c] EXCEPT !.pc = "sending"] \in [pc : {"checking", "sending"}, job : Job]
        BY <2>1
    <2>4. caller' \in Callers BY <2>2, <2>3, <1>t DEF Callers
    <2>5. QED BY <1>1, <2>4, <1>t DEF SubmitChecks
<1>2. ASSUME NEW c \in Actor, SubmitSends(c)
      PROVE  Flags /\ Queued /\ worker' \in Workers /\ caller' \in Callers /\ Bags /\ Counts
    <2>1. caller[c].job \in Job BY <1>2, <1>t DEF SubmitSends, Free, Callers
    <2>2. Queued /\ Counts
        <3>1. CASE open /\ Len(queue) < QueueSize
            <4>1. queue' = Append(queue, caller[c].job) /\ accepted' = accepted + 1 /\ answered' = answered
                BY <1>2, <3>1 DEF SubmitSends
            <4>2. queue' \in Seq(Job) /\ Len(queue') = Len(queue) + 1 BY <4>1, <2>1, <1>t, Appended
            <4>3. Len(queue) \in Nat BY <1>t
            <4>4. QED BY <4>1, <4>2, <4>3, <3>1, <1>t
        <3>2. CASE ~(open /\ Len(queue) < QueueSize)
            BY <1>2, <3>2, <1>t DEF SubmitSends
        <3>3. QED BY <3>1, <3>2
    <2>3. caller' \in Callers BY <1>2, <1>t DEF SubmitSends, Callers
    <2>4. UNCHANGED <<running, open, worker, stopper, bags>> /\ panicked' \in BOOLEAN
        BY <1>2 DEF SubmitSends
    <2>5. QED BY <2>2, <2>3, <2>4, <1>t
<1>3. ASSUME NEW w \in Worker, WorkerTakes(w)
      PROVE  Flags /\ Queued /\ worker' \in Workers /\ caller' \in Callers /\ Bags /\ Counts
    <2>1. /\ Head(queue) \in Job /\ queue' \in Seq(Job) /\ Len(queue') = Len(queue) - 1
        BY <1>3, <1>t, Taken DEF WorkerTakes
    <2>2. worker' \in Workers BY <1>3, <2>1, <1>t DEF WorkerTakes, Workers
    <2>3. Len(queue') <= QueueSize BY <2>1, <1>t
    <2>4. QED BY <1>3, <2>1, <2>2, <2>3, <1>t DEF WorkerTakes
<1>4. ASSUME NEW w \in Worker, ExecuteJob(w)
      PROVE  Flags /\ Queued /\ worker' \in Workers /\ caller' \in Callers /\ Bags /\ Counts
    <2>1. worker[w] \in [pc : {"do", "answer"}, job : Job]
        BY <1>4, <1>t DEF ExecuteJob, Idle, Ended, Workers
    <2>2. worker' = [worker EXCEPT ![w] = [worker[w] EXCEPT !.pc = "answer"]] BY <1>4 DEF ExecuteJob
    <2>3. [worker[w] EXCEPT !.pc = "answer"] \in [pc : {"do", "answer"}, job : Job] BY <2>1
    <2>4. worker' \in Workers BY <2>2, <2>3, <1>t DEF Workers
    <2>5. Bags
        <3>1. CASE UNCHANGED bags BY <3>1, <1>t
        <3>2. CASE worker[w].job.op = "set" /\ bags' = [bags EXCEPT ![worker[w].job.player] = {worker[w].job.version}]
            <4>1. worker[w].job.player \in Player /\ worker[w].job.version \in Nat BY <2>1, <3>2 DEF Job
            <4>2. {worker[w].job.version} \in SUBSET Nat BY <4>1
            <4>3. QED BY <3>2, <4>1, <4>2, <1>t
        <3>3. QED BY <1>4, <3>1, <3>2 DEF ExecuteJob
    <2>6. QED BY <1>4, <2>4, <2>5, <1>t DEF ExecuteJob
<1>5. ASSUME NEW w \in Worker, AnswerJob(w) \/ WorkerEnds(w)
      PROVE  Flags /\ Queued /\ worker' \in Workers /\ caller' \in Callers /\ Bags /\ Counts
    <2>1. worker' \in Workers BY <1>5, <1>t DEF AnswerJob, WorkerEnds, Workers
    <2>2. QED BY <1>5, <2>1, <1>t DEF AnswerJob, WorkerEnds
<1>6. ASSUME NEW p \in Player, Born(p) \/ AsksRank(p)
      PROVE  Flags /\ Queued /\ worker' \in Workers /\ caller' \in Callers /\ Bags /\ Counts
    <2>1. \E c \in Actor, job \in Job : caller' = [caller EXCEPT ![c] = [pc |-> "checking", job |-> job]]
        <3>1. /\ [op |-> "set", player |-> p, version |-> 0] \in Job
              /\ [op |-> "get", player |-> p] \in Job
            BY DEF Job
        <3>2. QED BY <1>6, <3>1, <1>t DEF Born, AsksRank, Submits
    <2>2. caller' \in Callers BY <2>1, <1>t DEF Callers
    <2>3. QED BY <1>6, <2>2, <1>t DEF Born, AsksRank, Quiet
<1>7. ASSUME NEW p \in Player, Logout(p)
      PROVE  Flags /\ Queued /\ worker' \in Workers /\ caller' \in Callers /\ Bags /\ Counts
    <2>1. {data[p]} \in SUBSET Nat BY <1>t
    <2>2. bags' = [bags EXCEPT ![p] = {data[p]}] BY <1>7 DEF Logout
    <2>3. Bags BY <2>1, <2>2, <1>t
    <2>4. QED BY <1>7, <2>3, <1>t DEF Logout, Quiet
<1>8. ASSUME UNCHANGED <<queue, worker, caller, bags, accepted, answered, panicked>>, Flags
      PROVE  Flags /\ Queued /\ worker' \in Workers /\ caller' \in Callers /\ Bags /\ Counts
    BY <1>8, <1>t
<1>9. CASE StopStep \/ CloseDb
    BY <1>8, <1>9, <1>t DEF StopStep, CloseDb, StopFlags, StopCloses, StopWaits
<1>10. CASE Boots
    <2>1. worker' \in Workers BY <1>10 DEF Boots, Started, Workers
    <2>2. caller' \in Callers BY <1>10 DEF Boots, Started, Callers
    <2>3. queue' \in Seq(Job) /\ Len(queue') <= QueueSize BY <1>10, <1>t DEF Boots, Started
    <2>4. QED BY <1>10, <2>1, <2>2, <2>3, <1>t DEF Boots, Started
<1>11. CASE UNCHANGED dbVars
    BY <1>8, <1>11, <1>t DEF dbVars
<1>12. QED BY <1>1, <1>2, <1>3, <1>4, <1>5, <1>6, <1>7, <1>9, <1>10, <1>11
    DEF Next, PlayerStep, Created, Load, Change, SubmitStep, WorkersStep, WorkerStep, ShutdownStarts,
        DestroyEnds, vars

\* Types of the players' variables.
LEMMA PlayersTypeStep ==
    ASSUME IInv, [Next]_vars
    PROVE  /\ life' \in [Player -> {"unborn", "creating", "online", "offline"}]
           /\ data' \in [Player -> 0..MaxChanges] /\ saved' \in [Player -> 0..MaxChanges]
           /\ shutdown' \in {"no", "destroying", "destroyed"}
           /\ starts' \in 1..MaxStarts
           /\ overtaken' \subseteq Player
<1> DEFINE Goal == /\ life' \in [Player -> {"unborn", "creating", "online", "offline"}]
                   /\ data' \in [Player -> 0..MaxChanges] /\ saved' \in [Player -> 0..MaxChanges]
                   /\ shutdown' \in {"no", "destroying", "destroyed"}
                   /\ starts' \in 1..MaxStarts
                   /\ overtaken' \subseteq Player
<1>t. /\ life \in [Player -> {"unborn", "creating", "online", "offline"}]
      /\ data \in [Player -> 0..MaxChanges] /\ saved \in [Player -> 0..MaxChanges]
      /\ shutdown \in {"no", "destroying", "destroyed"}
      /\ starts \in 1..MaxStarts /\ overtaken \subseteq Player
      /\ MaxChanges \in Nat /\ MaxStarts \in Nat \ {0}
    BY BoundsAssumption DEF IInv, TypeOK
<1>1. ASSUME NEW p \in Player, Born(p) \/ Created(p) \/ AsksRank(p) PROVE Goal
    BY <1>1, <1>t DEF Born, Created, AsksRank, Quiet
<1>2. ASSUME NEW p \in Player, Load(p) PROVE Goal
    <2>1. bags[p] \subseteq 0..MaxChanges BY DEF IInv, SavedInv
    <2>2. PICK d \in 0..MaxChanges : data' = [data EXCEPT ![p] = d]
        <3>1. CASE bags[p] = {}
            <4>1. 0 \in 0..MaxChanges BY <1>t
            <4>2. data' = [data EXCEPT ![p] = 0] BY <1>2, <3>1 DEF Load
            <4>3. QED BY <4>1, <4>2
        <3>2. CASE bags[p] # {}
            <4>1. (CHOOSE v \in bags[p] : TRUE) \in bags[p] BY <3>2
            <4>2. QED BY <1>2, <3>2, <4>1, <2>1 DEF Load
        <3>3. QED BY <3>1, <3>2
    <2>3. QED BY <1>2, <2>2, <1>t DEF Load
<1>3. ASSUME NEW p \in Player, Change(p) PROVE Goal
    BY <1>3, <1>t DEF Change
<1>4. ASSUME NEW p \in Player, Logout(p) PROVE Goal
    BY <1>4, <1>t DEF Logout
<1>5. CASE ShutdownStarts \/ DestroyEnds
    BY <1>5, <1>t DEF ShutdownStarts, DestroyEnds
<1>6. CASE Boots
    BY <1>6, <1>t DEF Boots
<1>7. CASE UNCHANGED <<life, data, shutdown, starts, saved, overtaken>>
    BY <1>7, <1>t
<1>8. QED BY <1>1, <1>2, <1>3, <1>4, <1>5, <1>6, <1>7
    DEF Next, PlayerStep, SubmitStep, WorkersStep, StopStep, CloseDb, vars

-----------------------------------------------------------------------------
(* The theorems. *)

\* A server that starts for the first time has the invariant.
LEMMA InitInv == Init => IInv
<1> SUFFICES ASSUME Init PROVE IInv OBVIOUS
<1> USE DEF Init, WorkersInit
<1>0. MaxChanges \in Nat /\ MaxStarts \in Nat \ {0} /\ QueueSize \in Nat \ {0}
    BY WorkersAssumption, BoundsAssumption
<1>1. WorkersTypeOK
    <2>1. queue \in Seq(Job) /\ Len(queue) <= QueueSize BY <1>0
    <2>2. bags \in [Player -> SUBSET Nat] /\ \A p \in Player : \A v, u \in bags[p] : v = u OBVIOUS
    <2>3. accepted \in Nat /\ answered \in 0..accepted OBVIOUS
    <2>4. /\ worker \in [Worker -> {Idle, Ended} \cup [pc : {"do", "answer"}, job : Job]]
          /\ caller \in [Actor -> {Free} \cup [pc : {"checking", "sending"}, job : Job]]
        OBVIOUS
    <2>5. running \in BOOLEAN /\ open \in BOOLEAN /\ panicked \in BOOLEAN OBVIOUS
    <2>6. QED BY <2>1, <2>2, <2>3, <2>4, <2>5 DEF WorkersTypeOK
<1>2. TypeOK BY <1>0, <1>1 DEF TypeOK
<1>3. StopInv
    <2>1. Cardinality(Busy) = 0 BY BusyNone
    <2>2. \A w \in Worker : worker[w] # Ended BY DEF Idle, Ended
    <2>3. QED BY <2>1, <2>2 DEF StopInv
<1>4. DestroyInv BY DEF DestroyInv
<1>5. BirthInv BY DEF BirthInv, Idle
<1>6. SavedInv
    <2>1. \A p \in Player : ~Outstanding(p) BY DEF Outstanding, Idle
    <2>2. QED BY <1>0, <2>1 DEF SavedInv
<1>7. QED BY <1>2, <1>3, <1>4, <1>5, <1>6 DEF IInv

\* Nothing that the server does breaks it.
LEMMA InvStep == IInv /\ [Next]_vars => IInv'
<1> SUFFICES ASSUME IInv, [Next]_vars PROVE IInv' OBVIOUS
<1>1. StopInv' /\ DestroyInv' /\ BirthInv' /\ SavedInv'
    BY StopInvStep, DestroyInvStep, BirthInvStep, SavedInvStep
<1>2. TypeOK' BY <1>1, WorkersTypeStep, PlayersTypeStep DEF TypeOK
<1>3. QED BY <1>1, <1>2 DEF IInv

\* The inductive invariant holds in every reachable state.
THEOREM SavesInvariant == Spec => []IInv
BY InitInv, InvStep, PTL DEF Spec

\* The shutdown of core/db: no actor sends on the closed queue, and when stop has returned
\* every job that submitJob accepted has been carried out and answered.
THEOREM ShutdownSafe == Spec => []WorkersAreSound
<1>1. IInv => WorkersAreSound
    <2> SUFFICES ASSUME IInv PROVE WorkersAreSound OBVIOUS
    <2>1. TypeOK /\ NeverSendsOnClosed BY DEF IInv, StopInv, NeverSendsOnClosed
    <2>2. ASSUME stopper = "done" PROVE queue = <<>> /\ answered = accepted
        <3>1. \A w \in Worker : worker[w] = Ended BY <2>2 DEF IInv, StopInv
        <3>2. queue = <<>> BY <3>1, WorkersAssumption DEF IInv, StopInv
        <3>3. Busy = {} BY <3>1 DEF Busy, Ended
        <3>4. Cardinality(Busy) = 0 /\ Len(queue) = 0 BY <3>2, <3>3, FS_EmptySet
        <3>5. QED BY <3>2, <3>4 DEF IInv, StopInv, TypeOK, WorkersTypeOK
    <2>3. QED BY <2>1, <2>2 DEF WorkersAreSound, StopFinishesAll
<1>2. QED BY <1>1, SavesInvariant, PTL

\* LoadPlayerData: who logs in gets what its last logout has saved, whatever was dropped from
\* the queue, unless that logout overtook the job of the player's birth.
THEOREM LoadIsFaithful == Spec => LoadsWhatWasSaved
<1> DEFINE Faithful == \A p \in Player : life[p] = "offline" /\ life'[p] = "online" /\ p \notin overtaken =>
                           data'[p] = saved[p]
<1>1. IInv /\ [Next]_vars => [Faithful]_vars
    <2> SUFFICES ASSUME IInv, Next, NEW p \in Player, life[p] = "offline", life'[p] = "online",
                        p \notin overtaken
                 PROVE  data'[p] = saved[p]
        OBVIOUS
    <2>t. life \in [Player -> {"unborn", "creating", "online", "offline"}] /\ data \in [Player -> 0..MaxChanges]
        BY DEF IInv, TypeOK
    <2>1. Load(p)
        BY <2>t DEF Next, PlayerStep, Born, Load, Change, AsksRank, Logout, SubmitStep, Created, WorkersStep,
               StopStep, ShutdownStarts, DestroyEnds, CloseDb, Boots
    <2>2. /\ bags[p] = {} => saved[p] = 0
          /\ \A v \in bags[p] : v = saved[p]
        BY DEF IInv, SavedInv
    <2>3. CASE bags[p] = {} BY <2>1, <2>2, <2>3, <2>t DEF Load
    <2>4. CASE bags[p] # {}
        <3>1. (CHOOSE v \in bags[p] : TRUE) \in bags[p] BY <2>4
        <3>2. QED BY <2>1, <2>2, <2>4, <3>1, <2>t DEF Load
    <2>5. QED BY <2>3, <2>4
<1>2. QED BY <1>1, SavesInvariant, PTL DEF Spec, LoadsWhatWasSaved
=============================================================================
