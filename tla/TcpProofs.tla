----------------------------- MODULE TcpProofs ------------------------------
(***************************************************************************)
(* Theorems about TcpServer, for any number of sessions, senders, messages *)
(* and maps, and any size of the queues: no goroutine panics, the client   *)
(* gets its messages without a gap, callbacks are called once, and Dispose *)
(* leaves no session that is not closed.                                   *)
(***************************************************************************)
EXTENDS TcpServer, FiniteSetTheorems, TLAPS

-----------------------------------------------------------------------------
(* The inductive invariant, session by session, and of the manager. *)

\* The channel is closed by the one goroutine that has set the flag, and not while another
\* is between its check of the flag and its send.
LockInv(s) ==
    /\ chanClosed[s] => closeFlag[s]
    /\ \A t \in Thread : pc[s][t] \in Closing => closeFlag[s] /\ closer[s] = "none"
    /\ \A t, u \in Thread : pc[s][t] \in Closing /\ pc[s][u] \in Closing => t = u
    /\ \A t \in Thread : pc[s][t] = "locking" => ~chanClosed[s]
    /\ \A t \in Thread : pc[s][t] \in {"check", "put"} => t \in readers[s]
    /\ \A t \in Thread : pc[s][t] = "put" => ~chanClosed[s]
    /\ \A t \in Thread : pc[s][t] # "panicked"

\* Until the manager has a session nothing happens to it.
StartInv(s) ==
    pc[s]["handler"] = "start" =>
        /\ ~closeFlag[s] /\ ~chanClosed[s] /\ ~agent[s]
        /\ callbacks[s] = {} /\ sendChan[s] = <<>> /\ s \notin sessions
        /\ \A t \in Thread \ {"handler"} : pc[s][t] = IF t = "loop" THEN "select" ELSE "idle"

\* The callbacks are called once, and those that come afterwards come late.
CallbackInv(s) ==
    /\ closer[s] # "none" => closeFlag[s]
    /\ closer[s] \in {"none", "callbacks"} => \A k \in Key : called[s][k] = 0
    /\ closer[s] \in {"delete", "done"} =>
           \A k \in Key : IF k \in callbacks[s] \ late[s] THEN called[s][k] = 1 ELSE called[s][k] <= 1

\* The messages are numbered through what is written, in hand and in the queue, while the
\* sendLoop may go on writing.
QueueInv(s) ==
    LET held == IF pc[s]["loop"] = "write" THEN 1 ELSE 0 IN
    /\ \A n \in 1 .. Len(written[s]) : written[s][n] = n
    /\ pc[s]["loop"] = "write" => hand[s] = Len(written[s]) + 1
    /\ pc[s]["loop"] \in {"select", "write"} =>
           /\ sent[s] = Len(written[s]) + held + Len(sendChan[s])
           /\ \A i \in 1 .. Len(sendChan[s]) : sendChan[s][i] = Len(written[s]) + held + i

\* A session that the manager was given is in its maps, is being closed because they are
\* disposed, or was closed.
GivenInv(s) ==
    pc[s]["handler"] # "start" =>
        s \in sessions \/ (closer[s] \in {"callbacks", "delete", "done"} /\ (closer[s] = "callbacks" => callbacks[s] \subseteq late[s]))

SessionInv(s) == LockInv(s) /\ StartInv(s) /\ CallbackInv(s) /\ QueueInv(s) /\ GivenInv(s)

ManagerInv ==
    /\ IsFiniteSet(sessions) /\ disposeWait = Cardinality(sessions)
    /\ todo \subseteq {s \in Session : pc[s]["handler"] # "start"}
    /\ dispose = "done" => disposed = Shard /\ sessions = {}

IInv == TypeOK /\ (\A s \in Session : SessionInv(s)) /\ ManagerInv

-----------------------------------------------------------------------------
(* Steps of one session's goroutines. *)

\* A goroutine goes to another place, and no other one moves.
LEMMA Goto ==
    ASSUME NEW s \in Session, NEW t \in Thread, NEW place \in Place,
           pc \in [Session -> [Thread -> Place]], Goes(s, t, place)
    PROVE  /\ pc' \in [Session -> [Thread -> Place]]
           /\ pc'[s] = [pc[s] EXCEPT ![t] = place]
           /\ \A q \in Session \ {s} : pc'[q] = pc[q]
BY DEF Goes

\* What every step of session s is: some goroutine moves, or none.
Moves(s) == \/ \E t \in Thread, place \in Place : Goes(s, t, place)
            \/ pc' = pc

\* The steps that a session's own goroutines, its agent and its client take.
SessionStep(s) ==
    \/ \E t \in Thread : Close(s, t) \/ CloseCodec(s, t) \/ CloseChan(s, t)
    \/ \E t \in Sender : SendLocks(s, t) \/ SenderCloses(s, t) \/ SendChecks(s, t) \/ SendPuts(s, t)
    \/ LoopTakes(s) \/ LoopLeaves(s) \/ LoopWrites(s) \/ LoopFails(s)
    \/ HandlerAgent(s) \/ HandlerAdds(s) \/ HandlerAdding(s) \/ HandlerCloses(s)
    \/ FlushStarts(s) \/ FlushChecks(s) \/ FlushAdds(s) \/ FlushAdding(s) \/ FlushEnds(s)
    \/ InvokeCloseCallbacks(s) \/ ClientGoes(s)

\* They do.
LEMMA StepMoves ==
    ASSUME NEW s \in Session, SessionStep(s) \/ PutSession(s) \/ DelSession(s) \/ DisposeCloses(s)
    PROVE  Moves(s)
<1> USE DEF Moves
<1>t. {"loop", "handler", "flusher", "disposer"} \subseteq Thread /\ Sender \subseteq Thread BY DEF Thread
<1>p. /\ \A t : Return(t) \in Place
      /\ {"idle", "check", "put", "select", "write", "start", "agent", "add", "adding", "receive",
          "flush", "flushAdd", "flushAdding", "wait", "close", "locking", "codec", "done", "panicked"} \subseteq Place
    BY DEF Place, Return
<1>1. ASSUME NEW t \in Thread, Close(s, t) \/ CloseCodec(s, t) \/ CloseChan(s, t) PROVE Moves(s)
    BY <1>1, <1>p DEF Close, CloseCodec, CloseChan
<1>2. ASSUME NEW t \in Sender, SendLocks(s, t) \/ SenderCloses(s, t) \/ SendChecks(s, t) \/ SendPuts(s, t)
      PROVE  Moves(s)
    BY <1>2, <1>t, <1>p DEF SendLocks, SenderCloses, SendChecks, SendPuts
<1>3. CASE LoopTakes(s) \/ LoopLeaves(s) \/ LoopWrites(s) \/ LoopFails(s)
    BY <1>3, <1>t, <1>p DEF LoopTakes, LoopLeaves, LoopWrites, LoopFails
<1>4. CASE HandlerAgent(s) \/ HandlerAdds(s) \/ HandlerAdding(s) \/ HandlerCloses(s)
    BY <1>4, <1>t, <1>p DEF HandlerAgent, HandlerAdds, HandlerAdding, HandlerCloses
<1>5. CASE FlushStarts(s) \/ FlushChecks(s) \/ FlushAdds(s) \/ FlushAdding(s) \/ FlushEnds(s)
    BY <1>5, <1>t, <1>p DEF FlushStarts, FlushChecks, FlushAdds, FlushAdding, FlushEnds
<1>6. CASE InvokeCloseCallbacks(s) \/ ClientGoes(s) \/ DelSession(s)
    BY <1>6 DEF InvokeCloseCallbacks, ClientGoes, DelSession
<1>7. CASE PutSession(s) \/ DisposeCloses(s)
    BY <1>7, <1>t, <1>p DEF PutSession, DisposeCloses
<1>8. QED BY <1>1, <1>2, <1>3, <1>4, <1>5, <1>6, <1>7 DEF SessionStep

\* The variables of a session, but for its queue.
FlagsType ==
    /\ pc \in [Session -> [Thread -> Place]]
    /\ closeFlag \in [Session -> BOOLEAN] /\ chanClosed \in [Session -> BOOLEAN]
    /\ readers \in [Session -> SUBSET Thread]
    /\ up \in [Session -> BOOLEAN] /\ agent \in [Session -> BOOLEAN]
    /\ callbacks \in [Session -> SUBSET Key] /\ late \in [Session -> SUBSET Key]
    /\ called \in [Session -> [Key -> Nat]]
    /\ closer \in [Session -> {"none", "callbacks", "delete", "done"}]

QueueType ==
    /\ sendChan \in [Session -> Seq(Nat)] /\ written \in [Session -> Seq(Nat)]
    /\ hand \in [Session -> Nat] /\ sent \in [Session -> Nat]

\* Locking and unlocking for reading leave readers.
LEMMA LockType ==
    ASSUME FlagsType, NEW s \in Session, NEW t \in Thread, RLock(s, t) \/ RUnlock(s, t)
    PROVE  readers' \in [Session -> SUBSET Thread]
<1>1. readers[s] \cup {t} \in SUBSET Thread /\ readers[s] \ {t} \in SUBSET Thread BY DEF FlagsType
<1>2. QED BY <1>1 DEF FlagsType, RLock, RUnlock

\* Adding a callback leaves callbacks.
LEMMA AddedType ==
    ASSUME FlagsType, NEW s \in Session, NEW k \in Key, Added(s, k)
    PROVE  /\ callbacks' \in [Session -> SUBSET Key] /\ late' \in [Session -> SUBSET Key]
           /\ UNCHANGED <<called, closer>>
<1>1. callbacks[s] \cup {k} \in SUBSET Key /\ late[s] \cup {k} \in SUBSET Key /\ late[s] \in SUBSET Key
    BY DEF FlagsType
<1>2. (IF closeFlag[s] THEN late[s] \cup {k} ELSE late[s]) \in SUBSET Key BY <1>1
<1>3. QED BY <1>1, <1>2 DEF FlagsType, Added

\* Types of everything but the queue after a step of a session.
LEMMA FlagsTypeStep ==
    ASSUME FlagsType, NEW s \in Session, SessionStep(s) \/ PutSession(s) \/ DelSession(s) \/ DisposeCloses(s)
    PROVE  FlagsType'
<1>m. pc' \in [Session -> [Thread -> Place]] BY StepMoves, Goto DEF Moves, FlagsType
<1>t. {"loop", "handler", "flusher", "disposer"} \subseteq Thread /\ Sender \subseteq Thread
      /\ {"agent", "flush"} = Key
    BY DEF Thread, Key
<1> USE <1>m DEF FlagsType
<1>1. ASSUME NEW t \in Thread, Close(s, t) \/ CloseChan(s, t) PROVE FlagsType'
    BY <1>1 DEF Close, CloseChan, queueVars, callbackVars
<1>2. ASSUME NEW t \in Thread, CloseCodec(s, t) PROVE FlagsType'
    BY <1>2 DEF CloseCodec, queueVars, callbackVars
<1>3. ASSUME NEW t \in Sender, SendLocks(s, t) \/ SenderCloses(s, t) PROVE FlagsType'
    <2>1. t \in Thread BY <1>t
    <2>2. readers' \in [Session -> SUBSET Thread] BY <1>3, <2>1, LockType DEF SendLocks, SenderCloses
    <2>3. QED BY <1>3, <2>2 DEF SendLocks, SenderCloses, queueVars, callbackVars
<1>4. ASSUME NEW t \in Sender, SendChecks(s, t) \/ SendPuts(s, t) PROVE FlagsType'
    <2>1. t \in Thread BY <1>t
    <2>2. readers' \in [Session -> SUBSET Thread] BY <1>4, <2>1, LockType DEF SendChecks, SendPuts
    <2>3. QED BY <1>4, <2>2 DEF SendChecks, SendPuts, queueVars, callbackVars
<1>5. CASE LoopTakes(s) \/ LoopLeaves(s) \/ LoopWrites(s) \/ LoopFails(s)
    BY <1>5 DEF LoopTakes, LoopLeaves, LoopWrites, LoopFails, queueVars, callbackVars
<1>6. CASE HandlerAgent(s) \/ HandlerAdds(s) \/ HandlerCloses(s)
    BY <1>6 DEF HandlerAgent, HandlerAdds, HandlerCloses, queueVars, callbackVars
<1>7. CASE HandlerAdding(s) \/ FlushAdding(s)
    <2>1. readers' \in [Session -> SUBSET Thread] BY <1>7, <1>t, LockType DEF HandlerAdding, FlushAdding
    <2>2. \E k \in Key : Added(s, k) BY <1>7, <1>t DEF HandlerAdding, FlushAdding
    <2>3. /\ callbacks' \in [Session -> SUBSET Key] /\ late' \in [Session -> SUBSET Key]
          /\ UNCHANGED <<called, closer>>
        BY <2>2, AddedType
    <2>4. UNCHANGED <<closeFlag, chanClosed, up, agent>> BY <1>7 DEF HandlerAdding, FlushAdding, queueVars
    <2>5. QED BY <2>1, <2>3, <2>4
<1>8. CASE FlushStarts(s) \/ FlushChecks(s) \/ FlushAdds(s) \/ FlushEnds(s)
    <2>1. readers' \in [Session -> SUBSET Thread]
        BY <1>8, <1>t, LockType DEF FlushStarts, FlushChecks, FlushAdds, FlushEnds
    <2>2. QED BY <1>8, <2>1 DEF FlushStarts, FlushChecks, FlushAdds, FlushEnds, queueVars, callbackVars
<1>9. CASE InvokeCloseCallbacks(s)
    <2>1. [k \in Key |-> IF k \in callbacks[s] THEN called[s][k] + 1 ELSE called[s][k]] \in [Key -> Nat]
        OBVIOUS
    <2>2. called' = [called EXCEPT ![s] = [k \in Key |-> IF k \in callbacks[s] THEN called[s][k] + 1 ELSE called[s][k]]]
        BY <1>9 DEF InvokeCloseCallbacks
    <2>3. called' \in [Session -> [Key -> Nat]] BY <2>1, <2>2
    <2>4. QED BY <1>9, <2>3 DEF InvokeCloseCallbacks, queueVars
<1>10. CASE ClientGoes(s) \/ DelSession(s) \/ DisposeCloses(s)
    BY <1>10 DEF ClientGoes, DelSession, DisposeCloses, queueVars, callbackVars
<1>11. CASE PutSession(s)
    BY <1>11 DEF PutSession
<1>12. QED BY <1>1, <1>2, <1>3, <1>4, <1>5, <1>6, <1>7, <1>8, <1>9, <1>10, <1>11 DEF SessionStep
\* What Append makes of a queue, and what taking its head leaves.
LEMMA Queues ==
    ASSUME NEW q \in Seq(Nat)
    PROVE  /\ Len(q) \in Nat
           /\ \A n \in Nat : /\ Append(q, n) \in Seq(Nat) /\ Len(Append(q, n)) = Len(q) + 1
                             /\ \A i \in 1 .. Len(q) : Append(q, n)[i] = q[i]
                             /\ Append(q, n)[Len(q) + 1] = n
           /\ q # <<>> => /\ Tail(q) \in Seq(Nat) /\ Len(Tail(q)) = Len(q) - 1 /\ Len(q) > 0
                          /\ Head(q) = q[1] /\ Head(q) \in Nat
                          /\ \A i \in 1 .. Len(q) - 1 : Tail(q)[i] = q[i + 1]
OBVIOUS

\* Types of the queue after a step of a session.
LEMMA QueueTypeStep ==
    ASSUME QueueType, NEW s \in Session, SessionStep(s) \/ PutSession(s) \/ DelSession(s) \/ DisposeCloses(s)
    PROVE  QueueType'
<1> USE DEF QueueType
<1>q. sendChan[s] \in Seq(Nat) /\ written[s] \in Seq(Nat) /\ hand[s] \in Nat /\ sent[s] \in Nat
    OBVIOUS
<1>1. ASSUME NEW t \in Sender, SendPuts(s, t) PROVE QueueType'
    <2>1. Append(sendChan[s], sent[s] + 1) \in Seq(Nat) /\ sent[s] + 1 \in Nat BY <1>q, Queues
    <2>2. \/ UNCHANGED <<sendChan, sent>>
          \/ /\ sendChan' = [sendChan EXCEPT ![s] = Append(sendChan[s], sent[s] + 1)]
             /\ sent' = [sent EXCEPT ![s] = sent[s] + 1]
        BY <1>1 DEF SendPuts
    <2>3. UNCHANGED <<hand, written>> BY <1>1 DEF SendPuts
    <2>4. QED BY <2>1, <2>2, <2>3
<1>2. CASE LoopTakes(s)
    <2>1. Head(sendChan[s]) \in Nat /\ Tail(sendChan[s]) \in Seq(Nat)
        BY <1>2, <1>q, Queues DEF LoopTakes
    <2>2. QED BY <1>2, <2>1 DEF LoopTakes
<1>3. CASE LoopWrites(s)
    <2>1. Append(written[s], hand[s]) \in Seq(Nat) BY <1>q, Queues
    <2>2. /\ written' = [written EXCEPT ![s] = Append(written[s], hand[s])]
          /\ hand' = [hand EXCEPT ![s] = 0] /\ UNCHANGED <<sendChan, sent>>
        BY <1>3 DEF LoopWrites
    <2>3. QED BY <2>1, <2>2
<1>4. CASE LoopFails(s)
    BY <1>4 DEF LoopFails
<1>5. CASE UNCHANGED <<sendChan, written, hand, sent>>
    BY <1>5
<1>6. CASE \/ \E t \in Thread : Close(s, t) \/ CloseCodec(s, t) \/ CloseChan(s, t)
           \/ \E t \in Sender : SendLocks(s, t) \/ SenderCloses(s, t) \/ SendChecks(s, t)
           \/ LoopLeaves(s)
    BY <1>5, <1>6 DEF Close, CloseCodec, CloseChan, SendLocks, SenderCloses, SendChecks, LoopLeaves, queueVars
<1>7. CASE \/ HandlerAgent(s) \/ HandlerAdds(s) \/ HandlerAdding(s) \/ HandlerCloses(s)
           \/ FlushStarts(s) \/ FlushChecks(s) \/ FlushAdds(s) \/ FlushAdding(s) \/ FlushEnds(s)
    BY <1>5, <1>7 DEF HandlerAgent, HandlerAdds, HandlerAdding, HandlerCloses,
        FlushStarts, FlushChecks, FlushAdds, FlushAdding, FlushEnds, queueVars
<1>8. CASE \/ InvokeCloseCallbacks(s) \/ ClientGoes(s)
           \/ PutSession(s) \/ DelSession(s) \/ DisposeCloses(s)
    BY <1>5, <1>8 DEF InvokeCloseCallbacks, ClientGoes, PutSession, DelSession, DisposeCloses, queueVars
<1>9. QED BY <1>1, <1>2, <1>3, <1>4, <1>6, <1>7, <1>8 DEF SessionStep

-----------------------------------------------------------------------------
(* A step of one session leaves the others alone. *)

Same(q) ==
    /\ pc'[q] = pc[q] /\ closeFlag'[q] = closeFlag[q] /\ chanClosed'[q] = chanClosed[q]
    /\ readers'[q] = readers[q] /\ agent'[q] = agent[q]
    /\ callbacks'[q] = callbacks[q] /\ late'[q] = late[q] /\ called'[q] = called[q]
    /\ closer'[q] = closer[q]
    /\ sendChan'[q] = sendChan[q] /\ written'[q] = written[q] /\ hand'[q] = hand[q] /\ sent'[q] = sent[q]
    /\ q \in sessions' <=> q \in sessions

\* A session that is left alone keeps its invariant.
LEMMA Frame == ASSUME NEW q, SessionInv(q), Same(q) PROVE SessionInv(q)'
<1>1. LockInv(q)' BY DEF SessionInv, Same, LockInv
<1>2. StartInv(q)' BY DEF SessionInv, Same, StartInv
<1>3. CallbackInv(q)' BY DEF SessionInv, Same, CallbackInv
<1>4. QueueInv(q)' BY DEF SessionInv, Same, QueueInv
<1>5. GivenInv(q)' BY DEF SessionInv, Same, GivenInv
<1>6. QED BY <1>1, <1>2, <1>3, <1>4, <1>5 DEF SessionInv

\* All but s are.
LEMMA Elsewhere ==
    ASSUME FlagsType, QueueType, NEW s \in Session,
           \/ (SessionStep(s) \/ DisposeCloses(s)) /\ UNCHANGED sessions
           \/ PutSession(s) \/ DelSession(s),
           NEW q \in Session \ {s}
    PROVE  Same(q)
<1>p. pc'[q] = pc[q] BY StepMoves, Goto DEF Moves, FlagsType
<1> USE <1>p DEF FlagsType, QueueType, Same
<1>1. ASSUME NEW t \in Thread, Close(s, t) \/ CloseCodec(s, t) \/ CloseChan(s, t), UNCHANGED sessions PROVE Same(q)
    BY <1>1 DEF Close, CloseCodec, CloseChan, queueVars, callbackVars
<1>2. ASSUME NEW t \in Sender, UNCHANGED sessions,
             SendLocks(s, t) \/ SenderCloses(s, t) \/ SendChecks(s, t)
      PROVE  Same(q)
    BY <1>2 DEF SendLocks, SenderCloses, SendChecks, RLock, RUnlock, queueVars, callbackVars
<1>3. ASSUME NEW t \in Sender, UNCHANGED sessions, SendPuts(s, t) PROVE Same(q)
    BY <1>3 DEF SendPuts, RUnlock, callbackVars
<1>4. CASE (LoopTakes(s) \/ LoopLeaves(s) \/ LoopWrites(s) \/ LoopFails(s)) /\ UNCHANGED sessions
    BY <1>4 DEF LoopTakes, LoopLeaves, LoopWrites, LoopFails, queueVars, callbackVars
<1>5. CASE (HandlerAgent(s) \/ HandlerAdds(s) \/ HandlerCloses(s)) /\ UNCHANGED sessions
    BY <1>5 DEF HandlerAgent, HandlerAdds, HandlerCloses, queueVars, callbackVars
<1>6. CASE (HandlerAdding(s) \/ FlushAdding(s)) /\ UNCHANGED sessions
    BY <1>6 DEF HandlerAdding, FlushAdding, Added, RUnlock, queueVars
<1>7. CASE (FlushStarts(s) \/ FlushChecks(s) \/ FlushAdds(s) \/ FlushEnds(s)) /\ UNCHANGED sessions
    BY <1>7 DEF FlushStarts, FlushChecks, FlushAdds, FlushEnds, RLock, RUnlock, queueVars, callbackVars
<1>8. CASE (InvokeCloseCallbacks(s) \/ ClientGoes(s) \/ DisposeCloses(s)) /\ UNCHANGED sessions
    BY <1>8 DEF InvokeCloseCallbacks, ClientGoes, DisposeCloses, queueVars, callbackVars
<1>9. CASE PutSession(s) \/ DelSession(s)
    BY <1>9 DEF PutSession, DelSession, queueVars
<1>10. QED BY <1>1, <1>2, <1>3, <1>4, <1>5, <1>6, <1>7, <1>8, <1>9 DEF SessionStep
-----------------------------------------------------------------------------
(* A step of session s keeps its invariant. *)

\* Where the goroutines of s are after one of them has moved.
LEMMA GotoPlace ==
    ASSUME FlagsType, NEW s \in Session, NEW t \in Thread, NEW place \in Place, Goes(s, t, place)
    PROVE  pc'[s][t] = place /\ \A u \in Thread \ {t} : pc'[s][u] = pc[s][u]
<1>1. pc \in [Session -> [Thread -> Place]] BY DEF FlagsType
<1>2. pc'[s] = [pc[s] EXCEPT ![t] = place] BY <1>1, Goto
<1>3. pc[s] \in [Thread -> Place] BY <1>1
<1>4. QED BY <1>2, <1>3

\* The locks are not concerned by a goroutine that goes to a place where it holds none, and
\* leaves at most its own.
LEMMA LockQuiet ==
    ASSUME FlagsType, NEW s \in Session, LockInv(s), NEW t \in Thread, NEW place \in Place,
           Goes(s, t, place), place \notin {"check", "put", "locking", "codec", "panicked"},
           readers[s] \ {t} \subseteq readers'[s], UNCHANGED <<closeFlag, chanClosed, closer>>
    PROVE  LockInv(s)'
<1>2. pc'[s][t] = place /\ \A u \in Thread \ {t} : pc'[s][u] = pc[s][u] BY GotoPlace
<1>3. \A u \in Thread \ {t} : u \in readers[s] => u \in readers'[s] OBVIOUS
<1> QED BY <1>2, <1>3 DEF LockInv, Closing

\* Nor by steps that move no goroutine.
LEMMA LockStill ==
    ASSUME NEW s \in Session, LockInv(s), UNCHANGED <<pc, closeFlag, chanClosed, readers>>,
           closer' = closer \/ closer[s] # "none"
    PROVE  LockInv(s)'
BY DEF LockInv

\* The channel's lock: every step of s.
LEMMA LockInvStep ==
    ASSUME FlagsType, NEW s \in Session, SessionInv(s),
           SessionStep(s) \/ PutSession(s) \/ DelSession(s) \/ DisposeCloses(s)
    PROVE  LockInv(s)'
<1>i. LockInv(s) /\ StartInv(s) /\ CallbackInv(s) BY DEF SessionInv
<1>t. {"loop", "handler", "flusher", "disposer"} \subseteq Thread /\ Sender \subseteq Thread BY DEF Thread
<1>r. readers \in [Session -> SUBSET Thread] BY DEF FlagsType
<1>g. \A t \in Thread, place \in Place : Goes(s, t, place) =>
          pc'[s][t] = place /\ \A u \in Thread \ {t} : pc'[s][u] = pc[s][u]
    BY GotoPlace
<1>p. {"idle", "done", "close", "select", "write", "agent", "add", "adding", "receive", "flush", "flushAdd",
       "flushAdding", "wait", "check", "put", "locking", "codec", "panicked"} \subseteq Place
    BY DEF Place
<1>1. ASSUME NEW t \in Thread, Close(s, t) PROVE LockInv(s)'
    <2>1. CASE closeFlag[s]
        <3>1. Return(t) \in Place /\ Return(t) \notin {"check", "put", "locking", "codec", "panicked"}
            BY DEF Return, Place
        <3>2. Goes(s, t, Return(t)) /\ closeFlag' = closeFlag /\ UNCHANGED <<chanClosed, closer, readers>>
            BY <1>1, <2>1 DEF Close, queueVars, callbackVars, FlagsType
        <3>3. QED BY <3>1, <3>2, <1>i, LockQuiet
    <2>2. CASE ~closeFlag[s]
        <3>1. Goes(s, t, "locking") BY <1>1, <2>2 DEF Close
        <3>2. pc'[s][t] = "locking" /\ \A u \in Thread \ {t} : pc'[s][u] = pc[s][u] BY <3>1, <1>g, <1>p
        <3>3. closeFlag'[s] /\ UNCHANGED <<chanClosed, closer, readers>>
            BY <1>1 DEF Close, queueVars, callbackVars, FlagsType
        <3>4. closer[s] = "none" /\ ~chanClosed[s] /\ \A u \in Thread : pc[s][u] \notin Closing
            BY <2>2, <1>i DEF CallbackInv, LockInv
        <3>5. QED BY <3>2, <3>3, <3>4, <1>i DEF LockInv, Closing
    <2>3. QED BY <2>1, <2>2
<1>2. ASSUME NEW t \in Thread, CloseChan(s, t) PROVE LockInv(s)'
    <2>1. pc[s][t] = "locking" /\ ~chanClosed[s] /\ readers[s] = {} /\ closeFlag[s] /\ closer[s] = "none"
        BY <1>2, <1>i DEF CloseChan, At, LockInv, Closing
    <2>2. Goes(s, t, "codec") /\ chanClosed'[s] /\ UNCHANGED <<closeFlag, closer, readers>>
        BY <1>2, <2>1 DEF CloseChan, callbackVars, FlagsType
    <2>3. pc'[s][t] = "codec" /\ \A u \in Thread \ {t} : pc'[s][u] = pc[s][u] BY <2>2, <1>g, <1>p
    <2>4. \A u \in Thread : pc[s][u] \notin {"check", "put"} BY <2>1, <1>i DEF LockInv
    <2>5. \A u \in Thread \ {t} : pc[s][u] \notin Closing BY <2>1, <1>i DEF LockInv, Closing
    <2>6. QED BY <2>1, <2>2, <2>3, <2>4, <2>5, <1>i DEF LockInv, Closing
<1>3. ASSUME NEW t \in Thread, CloseCodec(s, t) PROVE LockInv(s)'
    <2>1. \A u \in Thread \ {t} : pc[s][u] \notin Closing
        BY <1>3, <1>i DEF CloseCodec, At, LockInv, Closing
    <2>2. Return(t) \in Place /\ Return(t) \notin {"check", "put", "locking", "codec", "panicked"}
        BY DEF Return, Place
    <2>3. pc'[s][t] = Return(t) /\ \A u \in Thread \ {t} : pc'[s][u] = pc[s][u]
        BY <1>3, <2>2, <1>g DEF CloseCodec
    <2>4. UNCHANGED <<closeFlag, chanClosed, readers>> BY <1>3 DEF CloseCodec, queueVars
    <2>5. QED BY <2>1, <2>2, <2>3, <2>4, <1>i DEF LockInv, Closing
<1>4. ASSUME NEW t \in Sender, SendLocks(s, t) PROVE LockInv(s)'
    <2>1. pc'[s][t] = "check" /\ \A u \in Thread \ {t} : pc'[s][u] = pc[s][u]
        BY <1>4, <1>g, <1>p, <1>t DEF SendLocks
    <2>2. readers'[s] = readers[s] \cup {t} BY <1>4, <1>r DEF SendLocks, RLock
    <2>3. UNCHANGED <<closeFlag, chanClosed, closer>> BY <1>4 DEF SendLocks, queueVars, callbackVars
    <2>4. QED BY <2>1, <2>2, <2>3, <1>i DEF LockInv, Closing
<1>5. ASSUME NEW t \in Sender, SendChecks(s, t) PROVE LockInv(s)'
    <2>1. UNCHANGED <<closeFlag, chanClosed, closer>> BY <1>5 DEF SendChecks, queueVars, callbackVars
    <2>2. CASE closeFlag[s]
        <3>1. readers'[s] = readers[s] \ {t} /\ Goes(s, t, "idle") BY <1>5, <2>2, <1>r DEF SendChecks, RUnlock
        <3>2. QED BY <3>1, <2>1, <1>i, <1>t, <1>p, LockQuiet
    <2>3. CASE ~closeFlag[s]
        <3>1. pc'[s][t] = "put" /\ \A u \in Thread \ {t} : pc'[s][u] = pc[s][u]
            BY <1>5, <2>3, <1>g, <1>p, <1>t DEF SendChecks
        <3>2. t \in readers[s] /\ readers' = readers
            BY <1>5, <2>3, <1>i, <1>t DEF SendChecks, LockInv, At
        <3>3. QED BY <3>1, <3>2, <2>1, <2>3, <1>i DEF LockInv, Closing
    <2>4. QED BY <2>2, <2>3
<1>6. ASSUME NEW t \in Sender, SendPuts(s, t) PROVE LockInv(s)'
    <2>1. ~chanClosed[s] BY <1>6, <1>i, <1>t DEF SendPuts, At, LockInv
    <2>2. Goes(s, t, "idle") \/ Goes(s, t, "close") BY <1>6, <2>1 DEF SendPuts
    <2>3. readers'[s] = readers[s] \ {t} BY <1>6, <1>r DEF SendPuts, RUnlock
    <2>4. UNCHANGED <<closeFlag, chanClosed, closer>> BY <1>6 DEF SendPuts, callbackVars
    <2>5. QED BY <2>2, <2>3, <2>4, <1>i, <1>t, <1>p, LockQuiet
<1>7. ASSUME NEW t \in Sender, SenderCloses(s, t) PROVE LockInv(s)'
    BY <1>7, <1>i, <1>t, <1>p, LockQuiet DEF SenderCloses, queueVars, callbackVars
<1>8. CASE LoopTakes(s) \/ LoopLeaves(s) \/ LoopWrites(s) \/ LoopFails(s)
    <2>1. \E place \in {"write", "close", "select"} : Goes(s, "loop", place)
        BY <1>8 DEF LoopTakes, LoopLeaves, LoopWrites, LoopFails
    <2>2. UNCHANGED <<closeFlag, chanClosed, readers, closer>>
        BY <1>8 DEF LoopTakes, LoopLeaves, LoopWrites, LoopFails, queueVars, callbackVars
    <2>3. QED BY <2>1, <2>2, <1>i, <1>t, <1>p, LockQuiet
<1>9. CASE HandlerAgent(s) \/ HandlerAdds(s) \/ HandlerAdding(s) \/ HandlerCloses(s)
    <2>1. \E place \in {"add", "adding", "receive", "close"} : Goes(s, "handler", place)
        BY <1>9 DEF HandlerAgent, HandlerAdds, HandlerAdding, HandlerCloses
    <2>2. UNCHANGED <<closeFlag, chanClosed, readers, closer>>
        BY <1>9 DEF HandlerAgent, HandlerAdds, HandlerAdding, HandlerCloses, Added, queueVars, callbackVars
    <2>3. QED BY <2>1, <2>2, <1>i, <1>t, <1>p, LockQuiet
<1>10. CASE FlushStarts(s) \/ FlushChecks(s) \/ FlushAdds(s) \/ FlushAdding(s) \/ FlushEnds(s)
    <2>1. \E place \in {"flush", "flushAdd", "flushAdding", "wait", "close", "done"} : Goes(s, "flusher", place)
        BY <1>10 DEF FlushStarts, FlushChecks, FlushAdds, FlushAdding, FlushEnds
    <2>2. UNCHANGED <<closeFlag, chanClosed, closer>>
        BY <1>10 DEF FlushStarts, FlushChecks, FlushAdds, FlushAdding, FlushEnds, Added, queueVars, callbackVars
    <2>3. readers[s] \ {"flusher"} \subseteq readers'[s]
        BY <1>10, <1>r DEF FlushStarts, FlushChecks, FlushAdds, FlushAdding, FlushEnds, RLock, RUnlock
    <2>4. QED BY <2>1, <2>2, <2>3, <1>i, <1>t, <1>p, LockQuiet
<1>11. CASE DisposeCloses(s)
    BY <1>11, <1>i, <1>t, <1>p, LockQuiet DEF DisposeCloses, queueVars, callbackVars
<1>12. CASE InvokeCloseCallbacks(s) \/ DelSession(s) \/ ClientGoes(s)
    BY <1>12, <1>i, LockStill DEF InvokeCloseCallbacks, DelSession, ClientGoes, queueVars, callbackVars
<1>13. CASE PutSession(s)
    <2>1. pc'[s]["handler"] = "agent" /\ \A u \in Thread \ {"handler"} : pc'[s][u] = pc[s][u]
        BY <1>13, <1>g, <1>p, <1>t DEF PutSession
    <2>2. \A u \in Thread \ {"handler"} : pc[s][u] \in {"select", "idle"}
        BY <1>13, <1>i DEF PutSession, At, StartInv
    <2>3. \A u \in Thread : pc'[s][u] \notin {"check", "put", "locking", "codec", "panicked"}
        BY <2>1, <2>2
    <2>4. chanClosed'[s] => closeFlag'[s] BY <1>13, <1>i DEF PutSession, FlagsType, LockInv
    <2>5. QED BY <2>3, <2>4 DEF LockInv, Closing
<1>14. QED BY <1>1, <1>2, <1>3, <1>4, <1>5, <1>6, <1>7, <1>8, <1>9, <1>10, <1>11, <1>12, <1>13 DEF SessionStep
\* Before the manager has the session only its client moves.
LEMMA StartQuiet ==
    ASSUME FlagsType, NEW s \in Session, SessionInv(s), pc[s]["handler"] = "start",
           SessionStep(s) \/ DelSession(s)
    PROVE  ClientGoes(s)
<1>i. /\ ~closeFlag[s] /\ ~agent[s] /\ sendChan[s] = <<>> /\ closer[s] = "none" /\ ~chanClosed[s]
      /\ pc[s]["loop"] = "select"
      /\ \A t \in Thread : pc[s][t] \in {"start", "select", "idle"}
      /\ \A t \in Thread \ {"handler", "loop"} : pc[s][t] = "idle"
    BY DEF SessionInv, StartInv, CallbackInv, Thread
<1>t. {"loop", "handler", "flusher", "disposer"} \subseteq Thread /\ Sender \subseteq Thread BY DEF Thread
<1>1. ASSUME NEW t \in Thread, Close(s, t) \/ CloseCodec(s, t) \/ CloseChan(s, t) PROVE FALSE
    BY <1>1, <1>i DEF Close, CloseCodec, CloseChan, At
<1>2. ASSUME NEW t \in Sender, SendLocks(s, t) \/ SenderCloses(s, t) \/ SendChecks(s, t) \/ SendPuts(s, t)
      PROVE  FALSE
    BY <1>2, <1>i, <1>t DEF SendLocks, SenderCloses, SendChecks, SendPuts, At
<1>3. CASE LoopTakes(s) \/ LoopLeaves(s) \/ LoopWrites(s) \/ LoopFails(s)
    BY <1>3, <1>i DEF LoopTakes, LoopLeaves, LoopWrites, LoopFails, At
<1>4. CASE HandlerAgent(s) \/ HandlerAdds(s) \/ HandlerAdding(s) \/ HandlerCloses(s)
    BY <1>4 DEF HandlerAgent, HandlerAdds, HandlerAdding, HandlerCloses, At
<1>5. CASE FlushStarts(s) \/ FlushChecks(s) \/ FlushAdds(s) \/ FlushAdding(s) \/ FlushEnds(s)
    BY <1>5, <1>i, <1>t DEF FlushStarts, FlushChecks, FlushAdds, FlushAdding, FlushEnds, At
<1>6. CASE InvokeCloseCallbacks(s) \/ DelSession(s)
    BY <1>6, <1>i DEF InvokeCloseCallbacks, DelSession
<1>7. QED BY <1>1, <1>2, <1>3, <1>4, <1>5, <1>6 DEF SessionStep

\* Nobody goes back to where the handler starts.
LEMMA NeverRestarts ==
    ASSUME FlagsType, NEW s \in Session,
           SessionStep(s) \/ PutSession(s) \/ DelSession(s) \/ DisposeCloses(s),
           pc'[s]["handler"] = "start"
    PROVE  pc[s]["handler"] = "start"
<1>t. {"loop", "handler", "flusher", "disposer"} \subseteq Thread /\ Sender \subseteq Thread BY DEF Thread
<1>p. {"idle", "done", "close", "select", "write", "agent", "add", "adding", "receive", "flush", "flushAdd",
       "flushAdding", "wait", "check", "put", "locking", "codec", "panicked"} \subseteq Place \ {"start"}
    BY DEF Place
<1>g. \A t \in Thread, place \in Place \ {"start"} : Goes(s, t, place) => pc[s]["handler"] = "start"
    <2> SUFFICES ASSUME NEW t \in Thread, NEW place \in Place \ {"start"}, Goes(s, t, place)
                 PROVE  pc[s]["handler"] = "start"
        OBVIOUS
    <2>1. pc'[s][t] = place /\ \A u \in Thread \ {t} : pc'[s][u] = pc[s][u] BY GotoPlace
    <2>2. QED BY <2>1, <1>t
<1>1. ASSUME NEW t \in Thread, Close(s, t) \/ CloseCodec(s, t) \/ CloseChan(s, t) PROVE pc[s]["handler"] = "start"
    <2>1. Return(t) \in Place \ {"start"} BY <1>p DEF Return
    <2>2. QED BY <1>1, <2>1, <1>g, <1>p DEF Close, CloseCodec, CloseChan
<1>2. ASSUME NEW t \in Sender, SendLocks(s, t) \/ SenderCloses(s, t) \/ SendChecks(s, t) \/ SendPuts(s, t)
      PROVE  pc[s]["handler"] = "start"
    BY <1>2, <1>g, <1>p, <1>t DEF SendLocks, SenderCloses, SendChecks, SendPuts
<1>3. CASE LoopTakes(s) \/ LoopLeaves(s) \/ LoopWrites(s) \/ LoopFails(s)
    BY <1>3, <1>g, <1>p, <1>t DEF LoopTakes, LoopLeaves, LoopWrites, LoopFails
<1>4. CASE HandlerAgent(s) \/ HandlerAdds(s) \/ HandlerAdding(s) \/ HandlerCloses(s)
    BY <1>4, <1>g, <1>p, <1>t DEF HandlerAgent, HandlerAdds, HandlerAdding, HandlerCloses
<1>5. CASE FlushStarts(s) \/ FlushChecks(s) \/ FlushAdds(s) \/ FlushAdding(s) \/ FlushEnds(s)
    BY <1>5, <1>g, <1>p, <1>t DEF FlushStarts, FlushChecks, FlushAdds, FlushAdding, FlushEnds
<1>6. CASE InvokeCloseCallbacks(s) \/ ClientGoes(s) \/ DelSession(s)
    BY <1>6 DEF InvokeCloseCallbacks, ClientGoes, DelSession
<1>7. CASE PutSession(s) \/ DisposeCloses(s)
    BY <1>7, <1>g, <1>p, <1>t DEF PutSession, DisposeCloses
<1>8. QED BY <1>1, <1>2, <1>3, <1>4, <1>5, <1>6, <1>7 DEF SessionStep

\* The session's start: every step of s.
LEMMA StartInvStep ==
    ASSUME FlagsType, NEW s \in Session, SessionInv(s),
           (SessionStep(s) /\ UNCHANGED sessions) \/ PutSession(s) \/ DelSession(s)
               \/ (DisposeCloses(s) /\ pc[s]["handler"] # "start")
    PROVE  StartInv(s)'
<1> SUFFICES ASSUME pc'[s]["handler"] = "start" PROVE StartInv(s)' BY DEF StartInv
<1>1. pc[s]["handler"] = "start" BY NeverRestarts
<1>2. ~PutSession(s)
    <2> SUFFICES ASSUME PutSession(s) PROVE FALSE OBVIOUS
    <2>1. pc'[s]["handler"] = "agent" BY GotoPlace DEF PutSession, Thread, Place
    <2>2. QED BY <2>1
<1>3. ClientGoes(s) BY <1>1, <1>2, StartQuiet
<1>4. ~DelSession(s) BY <1>1 DEF DelSession, SessionInv, StartInv, CallbackInv
<1>5. UNCHANGED sessions BY <1>1, <1>2, <1>4
<1>6. StartInv(s) BY DEF SessionInv
<1>7. QED BY <1>3, <1>5, <1>6 DEF ClientGoes, StartInv, queueVars, callbackVars
\* Added's callback is late when it comes to a closed session.
LEMMA AddedIs ==
    ASSUME FlagsType, NEW s \in Session, NEW k \in Key, Added(s, k)
    PROVE  /\ callbacks'[s] = callbacks[s] \cup {k}
           /\ late'[s] = IF closeFlag[s] THEN late[s] \cup {k} ELSE late[s]
           /\ called' = called /\ closer' = closer
BY DEF FlagsType, Added

\* The callbacks: every step of s.
LEMMA CallbackInvStep ==
    ASSUME FlagsType, NEW s \in Session, SessionInv(s),
           SessionStep(s) \/ PutSession(s) \/ DelSession(s) \/ DisposeCloses(s)
    PROVE  CallbackInv(s)'
<1>i. LockInv(s) /\ StartInv(s) /\ CallbackInv(s) BY DEF SessionInv
<1>q. ASSUME UNCHANGED <<closeFlag, callbacks, late, called, closer>> PROVE CallbackInv(s)'
    BY <1>q, <1>i DEF CallbackInv
<1>t. {"loop", "handler", "flusher", "disposer"} \subseteq Thread /\ Sender \subseteq Thread
      /\ {"agent", "flush"} = Key
    BY DEF Thread, Key
<1>1. ASSUME NEW t \in Thread, Close(s, t) PROVE CallbackInv(s)'
    <2>1. closeFlag'[s] /\ UNCHANGED <<callbacks, late, called, closer>>
        BY <1>1 DEF Close, FlagsType, callbackVars
    <2>2. QED BY <2>1, <1>i DEF CallbackInv
<1>2. ASSUME NEW t \in Thread, CloseCodec(s, t) PROVE CallbackInv(s)'
    <2>1. closeFlag[s] /\ closer[s] = "none" BY <1>2, <1>i DEF CloseCodec, At, LockInv, Closing
    <2>2. closer'[s] = "callbacks" /\ UNCHANGED <<closeFlag, called>> BY <1>2 DEF CloseCodec, FlagsType
    <2>3. QED BY <2>1, <2>2, <1>i DEF CallbackInv
<1>3. ASSUME NEW k \in Key, Added(s, k), UNCHANGED closeFlag PROVE CallbackInv(s)'
    <2>1. /\ callbacks'[s] = callbacks[s] \cup {k}
          /\ late'[s] = IF closeFlag[s] THEN late[s] \cup {k} ELSE late[s]
          /\ called' = called /\ closer' = closer
        BY <1>3, AddedIs
    <2>2. CASE closer[s] = "none" BY <1>3, <2>1, <2>2, <1>i DEF CallbackInv
    <2>3. CASE closer[s] # "none"
        <3>1. closeFlag[s] BY <2>3, <1>i DEF CallbackInv
        <3>2. callbacks'[s] \ late'[s] = (callbacks[s] \ late[s]) \ {k} BY <2>1, <3>1
        <3>3. called \in [Session -> [Key -> Nat]] BY DEF FlagsType
        <3>4. \A j \in Key : called'[s][j] = 1 => called'[s][j] <= 1 BY <2>1, <3>3
        <3>5. QED BY <1>3, <2>1, <2>3, <3>1, <3>2, <3>4, <1>i DEF CallbackInv
    <2>4. QED BY <2>2, <2>3
<1>4. CASE InvokeCloseCallbacks(s)
    <2>1. closer[s] = "callbacks" /\ closer'[s] = "delete" /\ UNCHANGED <<closeFlag, callbacks, late>>
        BY <1>4 DEF InvokeCloseCallbacks, FlagsType
    <2>2. \A k \in Key : called'[s][k] = IF k \in callbacks[s] THEN called[s][k] + 1 ELSE called[s][k]
        BY <1>4 DEF InvokeCloseCallbacks, FlagsType
    <2>3. \A k \in Key : called[s][k] = 0 BY <2>1, <1>i DEF CallbackInv
    <2>4. \A k \in Key : called'[s][k] = IF k \in callbacks[s] THEN 1 ELSE 0 BY <2>2, <2>3
    <2>5. QED BY <2>1, <2>4, <1>i DEF CallbackInv
<1>5. CASE DelSession(s)
    <2>1. closer[s] = "delete" /\ closer'[s] = "done" /\ UNCHANGED <<closeFlag, callbacks, late, called>>
        BY <1>5 DEF DelSession, FlagsType
    <2>2. QED BY <2>1, <1>i DEF CallbackInv
<1>6. CASE PutSession(s)
    <2>1. closer[s] = "none" BY <1>6, <1>i DEF PutSession, At, StartInv, CallbackInv
    <2>2. \/ UNCHANGED <<closeFlag, callbacks, late, called, closer>>
          \/ closeFlag'[s] /\ closer'[s] = "callbacks" /\ UNCHANGED called
        BY <1>6 DEF PutSession, FlagsType
    <2>3. QED BY <2>1, <2>2, <1>q, <1>i DEF CallbackInv
<1>7. CASE HandlerAdding(s) \/ FlushAdding(s)
    BY <1>3, <1>7, <1>t DEF HandlerAdding, FlushAdding
<1>8. CASE \/ \E t \in Thread : CloseChan(s, t)
           \/ \E t \in Sender : SendLocks(s, t) \/ SenderCloses(s, t) \/ SendChecks(s, t) \/ SendPuts(s, t)
    BY <1>q, <1>8 DEF CloseChan, SendLocks, SenderCloses, SendChecks, SendPuts, callbackVars
<1>9. CASE \/ LoopTakes(s) \/ LoopLeaves(s) \/ LoopWrites(s) \/ LoopFails(s)
           \/ HandlerAgent(s) \/ HandlerAdds(s) \/ HandlerCloses(s)
    BY <1>q, <1>9 DEF LoopTakes, LoopLeaves, LoopWrites, LoopFails, HandlerAgent, HandlerAdds, HandlerCloses,
        callbackVars
<1>10. CASE \/ FlushStarts(s) \/ FlushChecks(s) \/ FlushAdds(s) \/ FlushEnds(s)
            \/ ClientGoes(s) \/ DisposeCloses(s)
    BY <1>q, <1>10 DEF FlushStarts, FlushChecks, FlushAdds, FlushEnds, ClientGoes, DisposeCloses, callbackVars
<1>11. QED BY <1>1, <1>2, <1>4, <1>5, <1>6, <1>7, <1>8, <1>9, <1>10 DEF SessionStep

\* The messages are not concerned by what leaves the queue alone, and does not bring the loop
\* back to it.
LEMMA QueueQuiet ==
    ASSUME NEW s \in Session, QueueInv(s), UNCHANGED <<sendChan, written, hand, sent>>,
           pc'[s]["loop"] = pc[s]["loop"] \/ pc'[s]["loop"] \notin {"select", "write"}
    PROVE  QueueInv(s)'
BY DEF QueueInv

\* The messages: every step of s.
LEMMA QueueInvStep ==
    ASSUME FlagsType, QueueType, NEW s \in Session, SessionInv(s),
           SessionStep(s) \/ PutSession(s) \/ DelSession(s) \/ DisposeCloses(s)
    PROVE  QueueInv(s)'
<1>i. QueueInv(s) BY DEF SessionInv
<1>t. /\ {"loop", "handler", "flusher", "disposer"} \subseteq Thread /\ Sender \subseteq Thread \ {"loop"}
      /\ Return("loop") = "done"
    BY TcpAssumption DEF Thread, Return
<1>p. {"idle", "done", "close", "select", "write", "agent", "add", "adding", "receive", "flush", "flushAdd",
       "flushAdding", "wait", "check", "put", "locking", "codec", "panicked"} \subseteq Place
    BY DEF Place
<1>g. \A t \in Thread, place \in Place :
          Goes(s, t, place) => pc'[s]["loop"] = IF t = "loop" THEN place ELSE pc[s]["loop"]
    <2> SUFFICES ASSUME NEW t \in Thread, NEW place \in Place, Goes(s, t, place)
                 PROVE  pc'[s]["loop"] = IF t = "loop" THEN place ELSE pc[s]["loop"]
        OBVIOUS
    <2>1. pc'[s][t] = place /\ \A u \in Thread \ {t} : pc'[s][u] = pc[s][u] BY GotoPlace
    <2>2. QED BY <2>1, <1>t
<1>q. /\ sendChan \in [Session -> Seq(Nat)] /\ written \in [Session -> Seq(Nat)]
      /\ hand \in [Session -> Nat] /\ sent \in [Session -> Nat]
      /\ sendChan[s] \in Seq(Nat) /\ written[s] \in Seq(Nat) /\ hand[s] \in Nat /\ sent[s] \in Nat
      /\ Len(sendChan[s]) \in Nat /\ Len(written[s]) \in Nat
    BY Queues DEF QueueType
<1>1. ASSUME NEW t \in Thread, Close(s, t) \/ CloseCodec(s, t) \/ CloseChan(s, t) PROVE QueueInv(s)'
    <2>1. \E place \in {Return(t), "locking", "codec", "panicked"} : Goes(s, t, place)
        BY <1>1 DEF Close, CloseCodec, CloseChan
    <2>2. {Return(t), "locking", "codec", "panicked"} \subseteq Place BY <1>p DEF Return
    <2>3. pc'[s]["loop"] = pc[s]["loop"] \/ pc'[s]["loop"] \in {"done", "locking", "codec", "panicked"}
        BY <2>1, <2>2, <1>g, <1>t
    <2>4. UNCHANGED <<sendChan, written, hand, sent>> BY <1>1 DEF Close, CloseCodec, CloseChan, queueVars
    <2>5. QED BY <2>3, <2>4, <1>i, QueueQuiet
<1>2. ASSUME NEW t \in Sender, SendLocks(s, t) \/ SenderCloses(s, t) \/ SendChecks(s, t) PROVE QueueInv(s)'
    <2>1. \E place \in Place : Goes(s, t, place) BY <1>2, <1>p DEF SendLocks, SenderCloses, SendChecks
    <2>2. pc'[s]["loop"] = pc[s]["loop"] BY <2>1, <1>g, <1>t
    <2>3. UNCHANGED <<sendChan, written, hand, sent>> BY <1>2 DEF SendLocks, SenderCloses, SendChecks, queueVars
    <2>4. QED BY <2>2, <2>3, <1>i, QueueQuiet
<1>3. ASSUME NEW t \in Sender, SendPuts(s, t) PROVE QueueInv(s)'
    <2>1. \E place \in Place : Goes(s, t, place) BY <1>3, <1>p DEF SendPuts
    <2>2. pc'[s]["loop"] = pc[s]["loop"] BY <2>1, <1>g, <1>t
    <2>3. UNCHANGED <<written, hand>> BY <1>3 DEF SendPuts
    <2>4. CASE UNCHANGED <<sendChan, sent>> BY <2>2, <2>3, <2>4, <1>i, QueueQuiet
    <2>5. CASE /\ sendChan' = [sendChan EXCEPT ![s] = Append(sendChan[s], sent[s] + 1)]
               /\ sent' = [sent EXCEPT ![s] = sent[s] + 1]
        <3>1. sendChan'[s] = Append(sendChan[s], sent[s] + 1) /\ sent'[s] = sent[s] + 1 BY <2>5, <1>q
        <3>2. /\ Len(sendChan'[s]) = Len(sendChan[s]) + 1
              /\ \A i \in 1 .. Len(sendChan[s]) : sendChan'[s][i] = sendChan[s][i]
              /\ sendChan'[s][Len(sendChan[s]) + 1] = sent[s] + 1
            BY <3>1, <1>q, Queues
        <3> DEFINE held == IF pc[s]["loop"] = "write" THEN 1 ELSE 0
        <3>3. ASSUME pc[s]["loop"] \in {"select", "write"}
              PROVE  /\ sent'[s] = Len(written[s]) + held + Len(sendChan'[s])
                     /\ \A i \in 1 .. Len(sendChan'[s]) : sendChan'[s][i] = Len(written[s]) + held + i
            <4>1. /\ sent[s] = Len(written[s]) + held + Len(sendChan[s])
                  /\ \A i \in 1 .. Len(sendChan[s]) : sendChan[s][i] = Len(written[s]) + held + i
                BY <3>3, <1>i DEF QueueInv
            <4>2. held \in Nat OBVIOUS
            <4> HIDE DEF held
            <4>3. ASSUME NEW i \in 1 .. Len(sendChan'[s]) PROVE sendChan'[s][i] = Len(written[s]) + held + i
                <5>1. CASE i \in 1 .. Len(sendChan[s]) BY <5>1, <3>2, <4>1
                <5>2. CASE i = Len(sendChan[s]) + 1
                    <6>1. sendChan'[s][i] = sent[s] + 1 BY <5>2, <3>2
                    <6>2. QED BY <6>1, <5>2, <4>1, <4>2, <1>q
                <5>3. QED BY <5>1, <5>2, <3>2, <1>q
            <4>4. QED BY <4>1, <4>2, <4>3, <3>1, <3>2, <1>q
        <3>4. QED BY <2>2, <2>3, <3>3, <1>i DEF QueueInv
    <2>6. QED BY <1>3, <2>4, <2>5 DEF SendPuts
<1>4. CASE LoopTakes(s)
    <2>1. pc[s]["loop"] = "select" /\ pc'[s]["loop"] = "write"
        BY <1>4, <1>g, <1>p, <1>t DEF LoopTakes, At
    <2>2. sendChan[s] # <<>> /\ hand'[s] = Head(sendChan[s]) /\ sendChan'[s] = Tail(sendChan[s])
          /\ UNCHANGED <<written, sent>>
        BY <1>4, <1>q DEF LoopTakes
    <2>3. /\ Len(sendChan'[s]) = Len(sendChan[s]) - 1 /\ Len(sendChan[s]) > 0
          /\ hand'[s] = sendChan[s][1]
          /\ \A i \in 1 .. Len(sendChan[s]) - 1 : sendChan'[s][i] = sendChan[s][i + 1]
        BY <2>2, <1>q, Queues
    <2>4. QED BY <2>1, <2>2, <2>3, <1>i, <1>q DEF QueueInv
<1>5. CASE LoopWrites(s)
    <2>1. pc[s]["loop"] = "write" /\ pc'[s]["loop"] = "select"
        BY <1>5, <1>g, <1>p, <1>t DEF LoopWrites, At
    <2>2. written'[s] = Append(written[s], hand[s]) /\ UNCHANGED <<sendChan, sent>>
        BY <1>5, <1>q DEF LoopWrites
    <2>3. /\ Len(written'[s]) = Len(written[s]) + 1
          /\ \A n \in 1 .. Len(written[s]) : written'[s][n] = written[s][n]
          /\ written'[s][Len(written[s]) + 1] = hand[s]
        BY <2>2, <1>q, Queues
    <2>4. hand[s] = Len(written[s]) + 1 BY <2>1, <1>i DEF QueueInv
    <2>5. QED BY <2>1, <2>2, <2>3, <2>4, <1>i, <1>q DEF QueueInv
<1>6. CASE LoopFails(s)
    <2>1. pc'[s]["loop"] = "close" /\ UNCHANGED written BY <1>6, <1>g, <1>p, <1>t DEF LoopFails
    <2>2. QED BY <2>1, <1>i DEF QueueInv
<1>7. CASE LoopLeaves(s)
    <2>1. pc'[s]["loop"] = "close" /\ UNCHANGED <<sendChan, written, hand, sent>>
        BY <1>7, <1>g, <1>p, <1>t DEF LoopLeaves, queueVars
    <2>2. QED BY <2>1, <1>i, QueueQuiet
<1>8. CASE HandlerAgent(s) \/ HandlerAdds(s) \/ HandlerAdding(s) \/ HandlerCloses(s)
    <2>1. \E place \in Place : Goes(s, "handler", place)
        BY <1>8, <1>p DEF HandlerAgent, HandlerAdds, HandlerAdding, HandlerCloses
    <2>2. pc'[s]["loop"] = pc[s]["loop"] BY <2>1, <1>g, <1>t
    <2>3. UNCHANGED <<sendChan, written, hand, sent>>
        BY <1>8 DEF HandlerAgent, HandlerAdds, HandlerAdding, HandlerCloses, queueVars
    <2>4. QED BY <2>2, <2>3, <1>i, QueueQuiet
<1>9. CASE FlushStarts(s) \/ FlushChecks(s) \/ FlushAdds(s) \/ FlushAdding(s) \/ FlushEnds(s)
    <2>1. \E place \in Place : Goes(s, "flusher", place)
        BY <1>9, <1>p DEF FlushStarts, FlushChecks, FlushAdds, FlushAdding, FlushEnds
    <2>2. pc'[s]["loop"] = pc[s]["loop"] BY <2>1, <1>g, <1>t
    <2>3. UNCHANGED <<sendChan, written, hand, sent>>
        BY <1>9 DEF FlushStarts, FlushChecks, FlushAdds, FlushAdding, FlushEnds, queueVars
    <2>4. QED BY <2>2, <2>3, <1>i, QueueQuiet
<1>10. CASE PutSession(s)
    <2>1. pc'[s]["loop"] = pc[s]["loop"] BY <1>10, <1>g, <1>p, <1>t DEF PutSession
    <2>2. UNCHANGED <<sendChan, written, hand, sent>> BY <1>10 DEF PutSession
    <2>3. QED BY <2>1, <2>2, <1>i, QueueQuiet
<1>11. CASE DisposeCloses(s)
    <2>1. pc'[s]["loop"] = pc[s]["loop"] BY <1>11, <1>g, <1>p, <1>t DEF DisposeCloses
    <2>2. UNCHANGED <<sendChan, written, hand, sent>> BY <1>11 DEF DisposeCloses, queueVars
    <2>3. QED BY <2>1, <2>2, <1>i, QueueQuiet
<1>12. CASE InvokeCloseCallbacks(s) \/ ClientGoes(s) \/ DelSession(s)
    BY <1>12, <1>i, QueueQuiet DEF InvokeCloseCallbacks, ClientGoes, DelSession, queueVars
<1>13. QED BY <1>1, <1>2, <1>3, <1>4, <1>5, <1>6, <1>7, <1>8, <1>9, <1>10, <1>11, <1>12 DEF SessionStep
\* What became of a session that the manager was given: every step of s.
LEMMA GivenInvStep ==
    ASSUME FlagsType, NEW s \in Session, SessionInv(s),
           (SessionStep(s) /\ UNCHANGED sessions) \/ PutSession(s) \/ DelSession(s)
               \/ (DisposeCloses(s) /\ pc[s]["handler"] # "start")
    PROVE  GivenInv(s)'
<1>i. LockInv(s) /\ StartInv(s) /\ CallbackInv(s) /\ GivenInv(s) BY DEF SessionInv
<1>t. {"agent", "flush"} = Key BY DEF Key
<1>1. CASE PutSession(s)
    <2>1. CASE ShardOf[s] \in disposed
        <3>1. closer'[s] = "callbacks" /\ callbacks' = callbacks /\ late' = late
            BY <1>1, <2>1 DEF PutSession, FlagsType
        <3>2. callbacks[s] = {} BY <1>1, <1>i DEF PutSession, At, StartInv
        <3>3. QED BY <3>1, <3>2 DEF GivenInv
    <2>2. CASE ShardOf[s] \notin disposed
        <3>1. s \in sessions' BY <1>1, <2>2 DEF PutSession
        <3>2. QED BY <3>1 DEF GivenInv
    <2>3. QED BY <2>1, <2>2
<1>2. CASE DelSession(s)
    <2>1. closer'[s] = "done" BY <1>2 DEF DelSession, FlagsType
    <2>2. QED BY <2>1 DEF GivenInv
<1>3. CASE DisposeCloses(s) /\ pc[s]["handler"] # "start"
    BY <1>3, <1>i DEF DisposeCloses, GivenInv, callbackVars, managerVars
<1>4. CASE SessionStep(s) /\ UNCHANGED sessions
    <2>1. CASE pc[s]["handler"] = "start"
        <3>1. ClientGoes(s) BY <2>1, <1>4, StartQuiet
        <3>2. pc' = pc BY <3>1 DEF ClientGoes
        <3>3. QED BY <2>1, <3>2 DEF GivenInv
    <2>2. CASE s \in sessions
        BY <2>2, <1>4 DEF GivenInv
    <2>3. CASE pc[s]["handler"] # "start" /\ s \notin sessions
        <3>1. /\ closer[s] \in {"callbacks", "delete", "done"} /\ (closer[s] = "callbacks" => callbacks[s] \subseteq late[s])
              /\ closeFlag[s]
            BY <2>3, <1>i DEF GivenInv, CallbackInv
        <3>2. ASSUME UNCHANGED <<callbacks, late, closer>> PROVE GivenInv(s)'
            BY <3>1, <3>2 DEF GivenInv
        <3>3. ASSUME NEW k \in Key, Added(s, k) PROVE GivenInv(s)'
            <4>1. /\ callbacks'[s] = callbacks[s] \cup {k} /\ late'[s] = late[s] \cup {k} /\ closer' = closer
                BY <3>1, <3>3, AddedIs
            <4>2. QED BY <3>1, <4>1 DEF GivenInv
        <3>4. CASE InvokeCloseCallbacks(s)
            <4>1. closer'[s] = "delete" BY <3>4 DEF InvokeCloseCallbacks, FlagsType
            <4>2. QED BY <4>1 DEF GivenInv
        <3>5. \A t \in Thread : ~CloseCodec(s, t)
            BY <3>1, <1>i DEF CloseCodec, At, LockInv, Closing
        <3>6. CASE HandlerAdding(s) \/ FlushAdding(s)
            BY <3>3, <3>6, <1>t DEF HandlerAdding, FlushAdding
        <3>7. CASE \/ \E t \in Thread : Close(s, t) \/ CloseChan(s, t)
                   \/ \E t \in Sender : SendLocks(s, t) \/ SenderCloses(s, t) \/ SendChecks(s, t) \/ SendPuts(s, t)
            BY <3>2, <3>7 DEF Close, CloseChan, SendLocks, SenderCloses, SendChecks, SendPuts, callbackVars
        <3>8. CASE \/ LoopTakes(s) \/ LoopLeaves(s) \/ LoopWrites(s) \/ LoopFails(s)
                   \/ HandlerAgent(s) \/ HandlerAdds(s) \/ HandlerCloses(s)
            BY <3>2, <3>8 DEF LoopTakes, LoopLeaves, LoopWrites, LoopFails, HandlerAgent, HandlerAdds,
                HandlerCloses, callbackVars
        <3>9. CASE \/ FlushStarts(s) \/ FlushChecks(s) \/ FlushAdds(s) \/ FlushEnds(s) \/ ClientGoes(s)
            BY <3>2, <3>9 DEF FlushStarts, FlushChecks, FlushAdds, FlushEnds, ClientGoes, callbackVars
        <3>10. QED BY <1>4, <3>4, <3>5, <3>6, <3>7, <3>8, <3>9 DEF SessionStep
    <2>4. QED BY <2>1, <2>2, <2>3
<1>5. QED BY <1>1, <1>2, <1>3, <1>4

-----------------------------------------------------------------------------
(* The steps of the server. *)

\* A step is one of a session's, or one of Dispose's that leaves the sessions' variables alone.
DisposeOnly ==
    /\ UNCHANGED <<tcpVars, sessions, disposeWait>>
    /\ DisposeStarts \/ DisposeUnlocks \/ DisposeEnds \/ \E h \in Shard : DisposeLocks(h)

\* It is.
LEMMA NextIs ==
    Next => \/ DisposeOnly
            \/ \E s \in Session : \/ SessionStep(s) /\ UNCHANGED managerVars
                                  \/ PutSession(s) \/ DelSession(s) \/ DisposeCloses(s)
<1> SUFFICES ASSUME Next
             PROVE  \/ DisposeOnly
                    \/ \E s \in Session : \/ SessionStep(s) /\ UNCHANGED managerVars
                                          \/ PutSession(s) \/ DelSession(s) \/ DisposeCloses(s)
    OBVIOUS
<1>1. CASE DisposeStarts \/ DisposeUnlocks \/ DisposeEnds \/ \E h \in Shard : DisposeLocks(h)
    BY <1>1 DEF DisposeOnly, DisposeStarts, DisposeUnlocks, DisposeEnds, DisposeLocks
<1>2. ASSUME NEW s \in Session, Begins(s) \/ Writes(s) \/ Disconnects(s) \/ GoesOn(s)
      PROVE  SessionStep(s) /\ UNCHANGED managerVars
    BY <1>2 DEF Begins, Writes, Disconnects, GoesOn, SessionStep
<1>3. ASSUME NEW s \in Session, NEW t \in Thread, Locks(s, t)
      PROVE  SessionStep(s) /\ UNCHANGED managerVars
    BY <1>3 DEF Locks, SessionStep
<1>4. ASSUME NEW s \in Session, NEW t \in Sender, Sends(s, t)
      PROVE  SessionStep(s) /\ UNCHANGED managerVars
    BY <1>4 DEF Sends, SessionStep
<1>5. QED BY <1>1, <1>2, <1>3, <1>4 DEF Next, DisposeStep

\* The types are the flags' and the queues', and the manager's.
LEMMA TypesAre ==
    /\ TypeOK => FlagsType /\ QueueType
    /\ FlagsType' /\ QueueType' => TcpTypeOK'
BY DEF TypeOK, TcpTypeOK, FlagsType, QueueType

\* Every step keeps the sessions' invariants.
LEMMA SessionsStep == IInv /\ Next => FlagsType' /\ QueueType' /\ \A q \in Session : SessionInv(q)'
<1> SUFFICES ASSUME IInv, Next PROVE FlagsType' /\ QueueType' /\ \A q \in Session : SessionInv(q)' OBVIOUS
<1>1. FlagsType /\ QueueType /\ (\A q \in Session : SessionInv(q)) /\ ManagerInv BY TypesAre DEF IInv
<1>2. CASE DisposeOnly
    <2>1. UNCHANGED tcpVars /\ UNCHANGED sessions BY <1>2 DEF DisposeOnly
    <2>2. \A q \in Session : Same(q) BY <2>1 DEF tcpVars, queueVars, callbackVars, Same
    <2>3. \A q \in Session : SessionInv(q)' BY <1>1, <2>2, Frame
    <2>4. FlagsType' /\ QueueType' BY <1>1, <2>1 DEF FlagsType, QueueType, tcpVars, queueVars, callbackVars
    <2>5. QED BY <2>3, <2>4
<1>3. ASSUME NEW s \in Session,
             \/ SessionStep(s) /\ UNCHANGED managerVars
             \/ PutSession(s) \/ DelSession(s) \/ DisposeCloses(s)
      PROVE  FlagsType' /\ QueueType' /\ \A q \in Session : SessionInv(q)'
    <2>1. SessionStep(s) \/ PutSession(s) \/ DelSession(s) \/ DisposeCloses(s) BY <1>3
    <2>2. \/ (SessionStep(s) \/ DisposeCloses(s)) /\ UNCHANGED sessions
          \/ PutSession(s) \/ DelSession(s)
        BY <1>3 DEF managerVars, DisposeCloses
    <2>3. DisposeCloses(s) => pc[s]["handler"] # "start"
        BY <1>1 DEF DisposeCloses, ManagerInv
    <2>4. FlagsType' BY <1>1, <2>1, FlagsTypeStep
    <2>5. QueueType' BY <1>1, <2>1, QueueTypeStep
    <2>6. ASSUME NEW q \in Session \ {s} PROVE SessionInv(q)'
        <3>1. Same(q) BY <1>1, <2>2, Elsewhere
        <3>2. SessionInv(q) BY <1>1
        <3>3. QED BY <3>1, <3>2, Frame
    <2>7. SessionInv(s)'
        <3>1. SessionInv(s) BY <1>1
        <3>2. LockInv(s)' BY <1>1, <2>1, <3>1, LockInvStep
        <3>3. StartInv(s)' BY <1>1, <2>2, <2>3, <3>1, StartInvStep
        <3>4. CallbackInv(s)' BY <1>1, <2>1, <3>1, CallbackInvStep
        <3>5. QueueInv(s)' BY <1>1, <2>1, <3>1, QueueInvStep
        <3>6. GivenInv(s)' BY <1>1, <2>2, <2>3, <3>1, GivenInvStep
        <3>7. QED BY <3>2, <3>3, <3>4, <3>5, <3>6 DEF SessionInv
    <2>8. QED BY <2>4, <2>5, <2>6, <2>7
<1>4. QED BY <1>2, <1>3, NextIs

\* And the manager's, and its types.
LEMMA ManagerStep ==
    ASSUME IInv, Next
    PROVE  /\ ManagerInv'
           /\ sessions' \subseteq Session /\ disposed' \subseteq Shard /\ locked' \in Shard \cup {"none"}
           /\ todo' \subseteq Session /\ disposeWait' \in Nat /\ dispose' \in {"no", "under way", "done"}
<1> DEFINE Types == /\ sessions' \subseteq Session /\ disposed' \subseteq Shard /\ locked' \in Shard \cup {"none"}
                    /\ todo' \subseteq Session /\ disposeWait' \in Nat /\ dispose' \in {"no", "under way", "done"}
           NotAtStart == todo' \subseteq {s \in Session : pc'[s]["handler"] # "start"}
<1>1. /\ FlagsType /\ QueueType /\ (\A q \in Session : SessionInv(q)) /\ ManagerInv
      /\ sessions \subseteq Session /\ disposed \subseteq Shard /\ locked \in Shard \cup {"none"}
      /\ todo \subseteq Session /\ disposeWait \in Nat /\ dispose \in {"no", "under way", "done"}
      /\ Cardinality(sessions) \in Nat
    BY TypesAre, FS_CardinalityType DEF IInv, TypeOK, ManagerInv
<1>2. CASE DisposeOnly
    <2>1. UNCHANGED <<pc, sessions, disposeWait>> BY <1>2 DEF DisposeOnly, tcpVars
    <2>2. CASE DisposeStarts \/ DisposeUnlocks
        BY <1>1, <2>1, <2>2 DEF DisposeStarts, DisposeUnlocks, ManagerInv
    <2>3. CASE DisposeEnds
        <3>1. sessions = {} BY <1>1, <2>3, FS_EmptySet DEF DisposeEnds, ManagerInv
        <3>2. QED BY <1>1, <2>1, <2>3, <3>1 DEF DisposeEnds, ManagerInv
    <2>4. ASSUME NEW h \in Shard, DisposeLocks(h) PROVE ManagerInv' /\ Types
        <3>1. \A s \in sessions : pc[s]["handler"] # "start" BY <1>1 DEF SessionInv, StartInv
        <3>2. todo' \subseteq sessions BY <2>4 DEF DisposeLocks
        <3>3. NotAtStart BY <1>1, <2>1, <3>1, <3>2
        <3>4. QED BY <1>1, <2>1, <2>4, <3>2, <3>3 DEF DisposeLocks, ManagerInv
    <2>5. QED BY <1>2, <2>2, <2>3, <2>4 DEF DisposeOnly
<1>3. ASSUME NEW s \in Session,
             SessionStep(s) \/ PutSession(s) \/ DelSession(s) \/ DisposeCloses(s), UNCHANGED todo
      PROVE  NotAtStart
    <2> SUFFICES ASSUME NEW q \in todo, pc'[q]["handler"] = "start" PROVE FALSE BY <1>1, <1>3
    <2>1. pc[q]["handler"] # "start" BY <1>1 DEF ManagerInv
    <2>2. q # s BY <1>1, <1>3, <2>1, NeverRestarts
    <2>3. pc'[q] = pc[q] BY <1>1, <1>3, <2>2, StepMoves, Goto DEF Moves, FlagsType
    <2>4. QED BY <2>1, <2>3
<1>4. ASSUME NEW s \in Session, (SessionStep(s) /\ UNCHANGED managerVars) \/ DisposeCloses(s) PROVE ManagerInv' /\ Types
    <2>1. UNCHANGED managerVars BY <1>4 DEF DisposeCloses
    <2>2. NotAtStart BY <1>3, <1>4, <2>1 DEF managerVars
    <2>3. QED BY <1>1, <2>1, <2>2 DEF managerVars, ManagerInv
<1>5. ASSUME NEW s \in Session, PutSession(s) PROVE ManagerInv' /\ Types
    <2>1. UNCHANGED <<disposed, locked, todo, dispose>> BY <1>5 DEF PutSession
    <2>2. NotAtStart BY <1>3, <1>5, <2>1
    <2>3. CASE ShardOf[s] \in disposed
        <3>1. UNCHANGED <<sessions, disposeWait>> BY <1>5, <2>3 DEF PutSession
        <3>2. QED BY <1>1, <2>1, <2>2, <3>1 DEF ManagerInv
    <2>4. CASE ShardOf[s] \notin disposed
        <3>1. sessions' = sessions \cup {s} /\ disposeWait' = disposeWait + 1 BY <1>5, <2>4 DEF PutSession
        <3>2. s \notin sessions BY <1>1, <1>5 DEF PutSession, At, SessionInv, StartInv
        <3>3. IsFiniteSet(sessions') /\ Cardinality(sessions') = Cardinality(sessions) + 1
            BY <1>1, <3>1, <3>2, FS_AddElement DEF ManagerInv
        <3>4. disposed # Shard BY <2>4, ShardAssumption
        <3>5. dispose' # "done" BY <1>1, <2>1, <3>4 DEF ManagerInv
        <3>6. disposeWait' = Cardinality(sessions')
            BY <1>1, <3>1, <3>3 DEF ManagerInv
        <3>7. ManagerInv' BY <2>2, <3>3, <3>5, <3>6 DEF ManagerInv
        <3>8. disposeWait' \in Nat
            <4>1. disposeWait \in Nat BY <1>1
            <4>2. disposeWait' = disposeWait + 1 BY <3>1
            <4>3. QED BY <4>1, <4>2
        <3>9. Types BY <1>1, <2>1, <3>1, <3>8
        <3>10. QED BY <3>7, <3>9
    <2>5. QED BY <2>3, <2>4
<1>6. ASSUME NEW s \in Session, DelSession(s) PROVE ManagerInv' /\ Types
    <2>1. UNCHANGED <<disposed, locked, todo, dispose>> BY <1>6 DEF DelSession
    <2>2. NotAtStart BY <1>3, <1>6, <2>1
    <2>3. sessions' = sessions \ {s} BY <1>6 DEF DelSession
    <2>4. IsFiniteSet(sessions') /\ Cardinality(sessions') = IF s \in sessions THEN Cardinality(sessions) - 1 ELSE Cardinality(sessions)
        BY <1>1, <2>3, FS_RemoveElement DEF ManagerInv
    <2>5. Cardinality(sessions') \in Nat BY <2>4, FS_CardinalityType
    <2>6. disposeWait' = Cardinality(sessions') BY <1>1, <1>6, <2>4 DEF DelSession, ManagerInv
    <2>7. QED BY <1>1, <2>1, <2>2, <2>3, <2>4, <2>5, <2>6 DEF ManagerInv
<1>7. QED BY <1>2, <1>4, <1>5, <1>6, NextIs

-----------------------------------------------------------------------------
(* The theorems. *)

\* A server that starts has the invariant.
LEMMA InitInv == Init => IInv
<1> SUFFICES ASSUME Init PROVE IInv OBVIOUS
<1> USE DEF Init, TcpInit
<1>t. {"loop", "handler", "flusher", "disposer"} \subseteq Thread BY DEF Thread
<1>0. \A s \in Session, t \in Thread :
          pc[s][t] = CASE t = "loop" -> "select" [] t = "handler" -> "start" [] OTHER -> "idle"
    OBVIOUS
<1>1. FlagsType
    <2>1. pc \in [Session -> [Thread -> Place]] BY DEF Place
    <2>2. QED BY <2>1 DEF FlagsType
<1>2. QueueType
    <2>1. <<>> \in Seq(Nat) OBVIOUS
    <2>2. QED BY <2>1 DEF QueueType
<1>3. TypeOK BY <1>1, <1>2 DEF TypeOK, TcpTypeOK, FlagsType, QueueType
<1>4. ASSUME NEW s \in Session PROVE SessionInv(s)
    <2>1. /\ \A t \in Thread : pc[s][t] \in {"select", "start", "idle"}
          /\ pc[s]["loop"] = "select" /\ pc[s]["handler"] = "start"
          /\ \A t \in Thread \ {"handler"} : pc[s][t] = IF t = "loop" THEN "select" ELSE "idle"
        BY <1>0, <1>t
    <2>2. LockInv(s) BY <2>1 DEF LockInv, Closing
    <2>3. StartInv(s) BY <2>1 DEF StartInv
    <2>4. CallbackInv(s) BY DEF CallbackInv
    <2>5. QueueInv(s)
        <3>1. Len(written[s]) = 0 /\ Len(sendChan[s]) = 0 /\ sent[s] = 0 OBVIOUS
        <3>2. QED BY <2>1, <3>1 DEF QueueInv
    <2>6. GivenInv(s) BY <2>1 DEF GivenInv
    <2>7. QED BY <2>2, <2>3, <2>4, <2>5, <2>6 DEF SessionInv
<1>5. ManagerInv BY FS_EmptySet DEF ManagerInv
<1>6. QED BY <1>3, <1>4, <1>5 DEF IInv

\* Nothing that the server does breaks it.
LEMMA InvStep == IInv /\ [Next]_vars => IInv'
<1> SUFFICES ASSUME IInv, [Next]_vars PROVE IInv' OBVIOUS
<1>1. CASE Next
    <2>1. FlagsType' /\ QueueType' /\ \A q \in Session : SessionInv(q)' BY <1>1, SessionsStep
    <2>2. TcpTypeOK' BY <2>1, TypesAre
    <2>3. TypeOK' /\ ManagerInv' BY <1>1, <2>2, ManagerStep DEF TypeOK
    <2>4. QED BY <2>1, <2>3 DEF IInv
<1>2. CASE UNCHANGED vars
    <2>1. UNCHANGED tcpVars /\ UNCHANGED managerVars BY <1>2 DEF vars
    <2>2. TypeOK' BY <2>1 DEF IInv, TypeOK, TcpTypeOK, tcpVars, queueVars, callbackVars, managerVars
    <2>3. \A q \in Session : Same(q) BY <2>1 DEF tcpVars, queueVars, callbackVars, managerVars, Same
    <2>4. \A q \in Session : SessionInv(q)' BY <2>3, Frame DEF IInv
    <2>5. ManagerInv' BY <2>1 DEF IInv, ManagerInv, tcpVars, managerVars
    <2>6. QED BY <2>2, <2>4, <2>5 DEF IInv
<1>3. QED BY <1>1, <1>2

\* The inductive invariant holds in every reachable state.
THEOREM TcpInvariant == Spec => []IInv
BY InitInv, InvStep, PTL DEF Spec

\* Send, Close and CloseWithFlush: no goroutine sends on a closed channel or closes one twice.
THEOREM NobodyPanics == Spec => []NeverPanics
<1>1. IInv => NeverPanics BY DEF IInv, SessionInv, LockInv, NeverPanics, At
<1>2. QED BY <1>1, TcpInvariant, PTL

\* invokeCloseCallbacks: every callback that was there when the session closed is called once.
THEOREM CallbacksOnce == Spec => []CallbacksAreCalled
<1>1. IInv => CallbacksAreCalled BY DEF IInv, SessionInv, CallbackInv, CallbacksAreCalled
<1>2. QED BY <1>1, TcpInvariant, PTL

\* sendLoop and Dispose: the client gets its messages without a gap, and a manager that is
\* disposed has only sessions that are closed and have told their agents.
THEOREM SessionsSafe == Spec => []SessionsAreSound
<1>1. IInv => SessionsAreSound
    <2> SUFFICES ASSUME IInv PROVE SessionsAreSound OBVIOUS
    <2>1. TypeOK BY DEF IInv
    <2>2. NoGaps
        <3>1. \A s \in Session : written[s] \in Seq(Nat) BY <2>1 DEF TypeOK, TcpTypeOK
        <3>2. ASSUME NEW q \in Seq(Nat) PROVE DOMAIN q = 1 .. Len(q) OBVIOUS
        <3>3. \A s \in Session : DOMAIN written[s] = 1 .. Len(written[s]) BY ONLY <3>1, <3>2
        <3>4. QED BY <3>3 DEF IInv, SessionInv, QueueInv, NoGaps
    <2>3. ASSUME dispose = "done", NEW s \in Session, ~At(s, "handler", "start")
          PROVE  /\ sessions = {} /\ closeFlag[s] /\ closer[s] # "none"
                 /\ closer[s] = "callbacks" => callbacks[s] \subseteq late[s]
        BY <2>3 DEF IInv, ManagerInv, SessionInv, GivenInv, CallbackInv, At
    <2>4. dispose = "done" => sessions = {} BY DEF IInv, ManagerInv
    <2>5. QED BY <2>1, <2>2, <2>3, <2>4 DEF SessionsAreSound, DisposedIsOver
<1>2. QED BY <1>1, TcpInvariant, PTL
=============================================================================
