------------------------------ MODULE DbWorkers ------------------------------
(***************************************************************************)
(* The asynchronous Redis commands of core/db: a queue of jobs, a fixed    *)
(* number of workers, and the actors that submit jobs and go on without    *)
(* waiting.  A job sets a player's bag or asks for a ranking.              *)
(***************************************************************************)
EXTENDS Naturals, Sequences, FiniteSets

CONSTANTS
    Player,
    Worker,     \* defaultWorkerCount
    QueueSize,  \* of taskQueue
    Login       \* the actor that is no player's

ASSUME WorkersAssumption ==
    /\ Login \notin Player /\ QueueSize \in Nat \ {0}
    /\ IsFiniteSet(Worker) /\ Worker # {}

VARIABLES
    running,    \* the flag that submitJob reads
    open,       \* taskQueue is not closed
    queue,      \* taskQueue
    worker,     \* what each worker is at
    caller,     \* what each actor's submitJob is at
    stopper,    \* stop is "no", "closing", "waiting" or "done"
    bags,       \* what Redis has of each player's bag: a set of at most one version
    accepted,   \* jobs taken into the queue
    answered,   \* calls of a job's callback
    panicked    \* an actor has sent on the closed queue

dbVars == <<running, open, queue, worker, caller, stopper, bags, accepted, answered, panicked>>

Job == [op : {"set"}, player : Player, version : Nat] \cup [op : {"get"}, player : Player]
Actor == Player \cup {Login}
Free == [pc |-> "free"]
Idle == [pc |-> "idle"]
Ended == [pc |-> "ended"]

WorkersTypeOK ==
    /\ running \in BOOLEAN /\ open \in BOOLEAN /\ panicked \in BOOLEAN
    /\ queue \in Seq(Job) /\ Len(queue) <= QueueSize
    /\ worker \in [Worker -> {Idle, Ended} \cup [pc : {"do", "answer"}, job : Job]]
    /\ caller \in [Actor -> {Free} \cup [pc : {"checking", "sending"}, job : Job]]
    /\ stopper \in {"no", "closing", "waiting", "done"}
    /\ bags \in [Player -> SUBSET Nat] /\ \A p \in Player : \A v, u \in bags[p] : v = u
    /\ accepted \in Nat /\ answered \in 0..accepted

\* NewGo and start.
Started ==
    /\ running' = TRUE /\ open' = TRUE /\ queue' = <<>>
    /\ worker' = [w \in Worker |-> Idle]
    /\ caller' = [c \in Actor |-> Free]
    /\ stopper' = "no"
    /\ accepted' = 0 /\ answered' = 0

WorkersInit ==
    /\ running = TRUE /\ open = TRUE /\ queue = <<>>
    /\ worker = [w \in Worker |-> Idle]
    /\ caller = [c \in Actor |-> Free]
    /\ stopper = "no"
    /\ bags = [p \in Player |-> {}]
    /\ accepted = 0 /\ answered = 0 /\ panicked = FALSE

-----------------------------------------------------------------------------
(* submitJob, in the goroutine of actor c. *)

Submits(c, job) == caller[c] = Free /\ caller' = [caller EXCEPT ![c] = [pc |-> "checking", job |-> job]]

SubmitChecks(c) ==
    /\ caller[c].pc = "checking"
    /\ caller' = [caller EXCEPT ![c] = IF running THEN [@ EXCEPT !.pc = "sending"] ELSE Free]
    /\ UNCHANGED <<running, open, queue, worker, stopper, bags, accepted, answered, panicked>>

\* A full queue takes nothing; what was to be done is only logged.
SubmitSends(c) ==
    /\ caller[c].pc = "sending"
    /\ caller' = [caller EXCEPT ![c] = Free]
    /\ panicked' = (panicked \/ ~open)
    /\ IF open /\ Len(queue) < QueueSize
       THEN queue' = Append(queue, caller[c].job) /\ accepted' = accepted + 1
       ELSE UNCHANGED <<queue, accepted>>
    /\ UNCHANGED <<running, open, worker, stopper, bags, answered>>

-----------------------------------------------------------------------------
(* worker and executeJob. *)

WorkerTakes(w) ==
    /\ worker[w] = Idle /\ queue # <<>>
    /\ worker' = [worker EXCEPT ![w] = [pc |-> "do", job |-> Head(queue)]]
    /\ queue' = Tail(queue)
    /\ UNCHANGED <<running, open, caller, stopper, bags, accepted, answered, panicked>>

\* Redis carries the command out, or the worker gets an error.
ExecuteJob(w) ==
    /\ worker[w].pc = "do"
    /\ worker' = [worker EXCEPT ![w].pc = "answer"]
    /\ LET job == worker[w].job IN
           \/ job.op = "set" /\ bags' = [bags EXCEPT ![job.player] = {job.version}]
           \/ UNCHANGED bags
    /\ UNCHANGED <<running, open, queue, caller, stopper, accepted, answered, panicked>>

\* The callback: a RedisRet to the actor, if it is still there.
AnswerJob(w) ==
    /\ worker[w].pc = "answer"
    /\ worker' = [worker EXCEPT ![w] = Idle]
    /\ answered' = answered + 1
    /\ UNCHANGED <<running, open, queue, caller, stopper, bags, accepted, panicked>>

WorkerEnds(w) ==
    /\ worker[w] = Idle /\ queue = <<>> /\ ~open
    /\ worker' = [worker EXCEPT ![w] = Ended]
    /\ UNCHANGED <<running, open, queue, caller, stopper, bags, accepted, answered, panicked>>

-----------------------------------------------------------------------------
(* stop. *)

StopFlags ==
    /\ stopper = "no" /\ stopper' = "closing"
    /\ running' = FALSE
    /\ UNCHANGED <<open, queue, worker, caller, bags, accepted, answered, panicked>>

StopClosesNot ==
    /\ stopper = "closing" /\ stopper' = "waiting"
    /\ UNCHANGED <<running, open, queue, worker, caller, bags, accepted, answered, panicked>>

StopCloses ==
    /\ stopper = "closing" /\ stopper' = "waiting"
    /\ open' = FALSE
    /\ UNCHANGED <<running, queue, worker, caller, bags, accepted, answered, panicked>>

StopWaits ==
    /\ stopper = "waiting" /\ stopper' = "done"
    /\ \A w \in Worker : worker[w] = Ended
    /\ UNCHANGED <<running, open, queue, worker, caller, bags, accepted, answered, panicked>>

WorkerStep(w) == WorkerTakes(w) \/ ExecuteJob(w) \/ AnswerJob(w) \/ WorkerEnds(w)

\* Jobs of player p that set its bag and that Redis does not know yet.
Outstanding(p) ==
    LET Sets(job) == job.op = "set" /\ job.player = p IN
    \/ \E i \in DOMAIN queue : Sets(queue[i])
    \/ \E w \in Worker : worker[w].pc = "do" /\ Sets(worker[w].job)
    \/ \E c \in Actor : caller[c] # Free /\ Sets(caller[c].job)
=============================================================================
