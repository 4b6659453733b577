----------------------------- MODULE TcpServer ------------------------------
(***************************************************************************)
(* The manager of a server's sessions (pkg/net/tcp/manager.go), which      *)
(* waits on Dispose for every session it has, and the gate's use of both:  *)
(* clients come and go, agents send and are kicked, and the server stops.  *)
(***************************************************************************)
EXTENDS TcpSession, Integers

CONSTANTS
    Shard,      \* the sessionMaps
    ShardOf     \* ShardOf[s]: the map of the session's id

ASSUME ShardAssumption == ShardOf \in [Session -> Shard] /\ "none" \notin Shard

VARIABLES
    sessions,   \* the sessions in the maps
    disposed,   \* the maps that are disposed
    locked,     \* the map whose lock Dispose holds, or "none"
    todo,       \* sessions that Dispose has still to close under the lock
    disposeWait,\* the WaitGroup, which panics below zero
    dispose     \* Dispose is "no", "under way" or "done"

managerVars == <<sessions, disposed, locked, todo, disposeWait, dispose>>
vars == <<tcpVars, managerVars>>

TypeOK ==
    /\ TcpTypeOK
    /\ sessions \subseteq Session
    /\ disposed \subseteq Shard
    /\ locked \in Shard \cup {"none"}
    /\ todo \subseteq Session
    /\ disposeWait \in Nat
    /\ dispose \in {"no", "under way", "done"}

Init ==
    /\ TcpInit
    /\ sessions = {} /\ disposed = {} /\ locked = "none" /\ todo = {}
    /\ disposeWait = 0 /\ dispose = "no"

-----------------------------------------------------------------------------
\* putSession.  In a disposed map the session, which nobody else knows yet, is closed; it
\* is handed to the handler all the same.
PutSession(s) ==
    /\ At(s, "handler", "start") /\ locked # ShardOf[s]
    /\ Goes(s, "handler", "agent")
    /\ IF ShardOf[s] \in disposed
       THEN /\ closeFlag' = [closeFlag EXCEPT ![s] = TRUE]
            /\ chanClosed' = [chanClosed EXCEPT ![s] = TRUE]
            /\ up' = [up EXCEPT ![s] = FALSE]
            /\ closer' = [closer EXCEPT ![s] = "callbacks"]
            /\ UNCHANGED <<sessions, disposeWait>>
       ELSE /\ sessions' = sessions \cup {s}
            /\ disposeWait' = disposeWait + 1
            /\ UNCHANGED <<closeFlag, chanClosed, up, closer>>
    /\ UNCHANGED <<sendChan, hand, written, sent, readers, agent, callbacks, called, late,
                   disposed, locked, todo, dispose>>

\* delSession.
DelSession(s) ==
    /\ closer[s] = "delete" /\ locked # ShardOf[s]
    /\ closer' = [closer EXCEPT ![s] = "done"]
    /\ sessions' = sessions \ {s}
    /\ disposeWait' = IF s \in sessions THEN disposeWait - 1 ELSE disposeWait
    /\ UNCHANGED <<pc, closeFlag, queueVars, readers, up, agent, callbacks, called, late,
                   disposed, locked, todo, dispose>>

\* Dispose, called when the server stops: map by map, it locks, marks and closes, and waits.
DisposeStarts ==
    /\ dispose = "no" /\ dispose' = "under way"
    /\ UNCHANGED <<tcpVars, sessions, disposed, locked, todo, disposeWait>>

DisposeLocks(h) ==
    /\ dispose = "under way" /\ locked = "none" /\ h \notin disposed
    /\ locked' = h
    /\ disposed' = disposed \cup {h}
    /\ todo' = {s \in sessions : ShardOf[s] = h}
    /\ UNCHANGED <<tcpVars, sessions, disposeWait, dispose>>

\* One session after the other.
DisposeCloses(s) ==
    /\ s \in todo /\ At(s, "disposer", "idle")
    /\ \A q \in todo : pc[q]["disposer"] \in {"idle", "done"}
    /\ Goes(s, "disposer", "close")
    /\ UNCHANGED <<closeFlag, queueVars, readers, up, agent, callbackVars, managerVars>>

DisposeUnlocks ==
    /\ locked # "none"
    /\ \A s \in todo : At(s, "disposer", "done")
    /\ locked' = "none" /\ todo' = {}
    /\ UNCHANGED <<tcpVars, sessions, disposed, disposeWait, dispose>>

DisposeEnds ==
    /\ dispose = "under way" /\ disposed = Shard /\ locked = "none"
    /\ disposeWait = 0
    /\ dispose' = "done"
    /\ UNCHANGED <<tcpVars, sessions, disposed, locked, todo, disposeWait>>

-----------------------------------------------------------------------------
\* The goroutines of a session.
Locks(s, t) == CloseChan(s, t) /\ UNCHANGED managerVars
Sends(s, t) == (SendChecks(s, t) \/ SendPuts(s, t)) /\ UNCHANGED managerVars
Writes(s) == (LoopWrites(s) \/ LoopFails(s)) /\ UNCHANGED managerVars
Disconnects(s) == HandlerCloses(s) /\ UNCHANGED managerVars
GoesOn(s) ==
    /\ \/ \E t \in Thread : Close(s, t) \/ CloseCodec(s, t)
       \/ LoopTakes(s) \/ LoopLeaves(s)
       \/ HandlerAgent(s) \/ HandlerAdds(s) \/ HandlerAdding(s)
       \/ FlushChecks(s) \/ FlushAdds(s) \/ FlushAdding(s) \/ FlushEnds(s)
       \/ InvokeCloseCallbacks(s)
    /\ UNCHANGED managerVars

\* What agents and clients start.
Begins(s) ==
    /\ \/ \E t \in Sender : SendLocks(s, t) \/ SenderCloses(s, t)
       \/ FlushStarts(s) \/ ClientGoes(s)
    /\ UNCHANGED managerVars

DisposeStep == DisposeUnlocks \/ DisposeEnds \/ (\E h \in Shard : DisposeLocks(h))
                   \/ \E s \in Session : DisposeCloses(s)

Next ==
    \/ DisposeStarts \/ DisposeStep
    \/ \E s \in Session :
           \/ PutSession(s) \/ DelSession(s) \/ Begins(s)
           \/ Writes(s) \/ Disconnects(s) \/ GoesOn(s)
           \/ (\E t \in Thread : Locks(s, t)) \/ (\E t \in Sender : Sends(s, t))

Spec == Init /\ [][Next]_vars

\* Goroutines run on, except where they wait for a client: a write to a connection that is
\* up, a Receive from it, an agent that has nothing to send.  A writer that waits for a
\* RWMutex is not starved by readers.  (Every goroutine but the senders' takes a limited
\* number of steps, so it is enough that some of them goes on.)
Runs ==
    \/ DisposeStep
    \/ \E s \in Session : PutSession(s) \/ DelSession(s) \/ GoesOn(s)
                              \/ (~up[s] /\ (Writes(s) \/ Disconnects(s)))

FairSpec ==
    /\ Spec
    /\ WF_vars(Runs)
    /\ WF_vars(\E s \in Session, t \in Sender : Sends(s, t))
    /\ SF_vars(\E s \in Session, t \in Thread : Locks(s, t))

-----------------------------------------------------------------------------
\* No goroutine sends on a closed channel or closes one twice, which would panic: Send
\* reads the flag under the lock that Close needs to close the channel.
NeverPanics == \A s \in Session, t \in Thread : ~At(s, t, "panicked")

\* The client gets the messages in their order and without a gap, however the session ends:
\* after a write that failed there is no other.
NoGaps == \A s \in Session : \A n \in DOMAIN written[s] : written[s][n] = n

\* When a closed session has called its callbacks, every one was called that was in the list
\* when the session was closed, and once.  One that came later may be missed: AddCloseCallback reads
\* the flag before it locks the list.
CallbacksAreCalled ==
    \A s \in Session : closer[s] \in {"delete", "done"} =>
        \A k \in Key : IF k \in callbacks[s] \ late[s] THEN called[s][k] = 1 ELSE called[s][k] <= 1

\* When Dispose returns the manager has no session, and every session it was given is
\* closed and has called its callbacks.
DisposedIsOver ==
    dispose = "done" =>
        /\ sessions = {}
        /\ \A s \in Session : ~At(s, "handler", "start") =>
               closeFlag[s] /\ closer[s] # "none" /\ (closer[s] = "callbacks" => callbacks[s] \subseteq late[s])

\* A closed session comes to its end: its goroutines end, the agent hears of it, the manager
\* forgets it.
EveryCloseEnds ==
    \A s \in Session : closeFlag[s] ~>
        closer[s] = "done" /\ At(s, "loop", "done") /\ At(s, "handler", "done")

\* Dispose returns.
DisposeReturns == dispose = "under way" ~> dispose = "done"

\* What a session has sent, and what Dispose leaves, is as it should be.
SessionsAreSound == TypeOK /\ NoGaps /\ DisposedIsOver

\* Nothing that closes waits for ever.
EverythingEnds == EveryCloseEnds /\ DisposeReturns
=============================================================================
