----------------------------- MODULE TcpSession -----------------------------
(***************************************************************************)
(* Sessions of package pkg/net/tcp: a queue of messages and its sendLoop,  *)
(* Send, Close, close callbacks and CloseWithFlush, called by goroutines   *)
(* that share nothing but the session.                                     *)
(*                                                                         *)
(* Each goroutine of a session has a program counter.  What runs under     *)
(* sendMutex.Lock or closeMutex blocks nowhere inside, so it is one step;  *)
(* who holds sendMutex.RLock is in `readers'.                              *)
(***************************************************************************)
EXTENDS Naturals, Sequences

CONSTANTS
    Session,
    Sender,     \* goroutines that send messages: the agent's
    SendChan,   \* the size of sendChan
    MaxSends    \* bound: messages of a session

ASSUME TcpAssumption ==
    /\ SendChan \in Nat \ {0} /\ MaxSends \in Nat
    /\ Sender \cap {"loop", "handler", "flusher", "disposer"} = {}

VARIABLES
    pc,         \* pc[s][t]: where goroutine t of session s is
    closeFlag,  \* closeFlag[s], and closeChan is closed with it
    sendChan,   \* sendChan[s]: the messages in it, by number
    chanClosed, \* sendChan is closed
    readers,    \* who holds sendMutex for reading
    hand,       \* the message that sendLoop is writing, or 0
    up,         \* the connection is
    agent,      \* the session has an agent
    written,    \* written[s]: messages the codec has written, by number
    sent,       \* how many messages were put in sendChan
    callbacks,  \* the close callbacks in the list
    called,     \* called[s][k]: how often callback k was called
    late,       \* callbacks that came to the list when the session was closed
    closer      \* the goroutine that Close starts

queueVars == <<sendChan, chanClosed, hand, written, sent>>
callbackVars == <<callbacks, called, late, closer>>
tcpVars == <<pc, closeFlag, queueVars, readers, up, agent, callbackVars>>

Thread == Sender \cup {"loop", "handler", "flusher", "disposer"}
Key == {"agent", "flush"}
Place == {"idle", "check", "put", "select", "write", "start", "agent", "add", "adding", "receive",
          "flush", "flushAdd", "flushAdding", "wait", "close", "locking", "codec", "done", "panicked"}
Closing == {"locking", "codec"}

TcpTypeOK ==
    /\ pc \in [Session -> [Thread -> Place]]
    /\ closeFlag \in [Session -> BOOLEAN]
    /\ sendChan \in [Session -> Seq(Nat)]
    /\ chanClosed \in [Session -> BOOLEAN]
    /\ readers \in [Session -> SUBSET Thread]
    /\ hand \in [Session -> Nat]
    /\ up \in [Session -> BOOLEAN] /\ agent \in [Session -> BOOLEAN]
    /\ written \in [Session -> Seq(Nat)]
    /\ sent \in [Session -> Nat]
    /\ callbacks \in [Session -> SUBSET Key]
    /\ called \in [Session -> [Key -> Nat]]
    /\ late \in [Session -> SUBSET Key]
    /\ closer \in [Session -> {"none", "callbacks", "delete", "done"}]

\* newSession: the sendLoop runs, and HandleSession is called once the manager has it.
TcpInit ==
    /\ pc = [s \in Session |-> [t \in Thread |->
               CASE t = "loop" -> "select" [] t = "handler" -> "start" [] OTHER -> "idle"]]
    /\ closeFlag = [s \in Session |-> FALSE]
    /\ sendChan = [s \in Session |-> <<>>]
    /\ chanClosed = [s \in Session |-> FALSE]
    /\ readers = [s \in Session |-> {}]
    /\ hand = [s \in Session |-> 0]
    /\ up = [s \in Session |-> TRUE]
    /\ agent = [s \in Session |-> FALSE]
    /\ written = [s \in Session |-> <<>>]
    /\ sent = [s \in Session |-> 0]
    /\ callbacks = [s \in Session |-> {}]
    /\ called = [s \in Session |-> [k \in Key |-> 0]]
    /\ late = [s \in Session |-> {}]
    /\ closer = [s \in Session |-> "none"]

At(s, t, place) == pc[s][t] = place
Goes(s, t, place) == pc' = [pc EXCEPT ![s][t] = place]
RLock(s, t) == readers' = [readers EXCEPT ![s] = @ \cup {t}]
RUnlock(s, t) == readers' = [readers EXCEPT ![s] = @ \ {t}]

-----------------------------------------------------------------------------
(* Close, by any goroutine. *)

\* Where a goroutine goes on after it has closed the session.
Return(t) == IF t \in Sender THEN "idle" ELSE "done"

\* The compare-and-swap, and close(closeChan).
Close(s, t) ==
    /\ At(s, t, "close")
    /\ closeFlag' = [closeFlag EXCEPT ![s] = TRUE]
    /\ Goes(s, t, IF closeFlag[s] THEN Return(t) ELSE "locking")
    /\ UNCHANGED <<queueVars, readers, up, agent, callbackVars>>

CloseChanUnlocked(s, t) ==
    /\ At(s, t, "locking")
    /\ chanClosed' = [chanClosed EXCEPT ![s] = TRUE]
    /\ Goes(s, t, IF chanClosed[s] THEN "panicked" ELSE "codec")
    /\ UNCHANGED <<closeFlag, sendChan, hand, written, sent, readers, up, agent, callbackVars>>

\* sendMutex.Lock, close(sendChan), Unlock.  The codec has no ClearSendChan.
CloseChan(s, t) ==
    /\ At(s, t, "locking")
    /\ readers[s] = {}
    /\ chanClosed' = [chanClosed EXCEPT ![s] = TRUE]
    /\ Goes(s, t, IF chanClosed[s] THEN "panicked" ELSE "codec")
    /\ UNCHANGED <<closeFlag, sendChan, hand, written, sent, readers, up, agent, callbackVars>>

\* codec.Close, and the goroutine that calls the callbacks.
CloseCodec(s, t) ==
    /\ At(s, t, "codec")
    /\ up' = [up EXCEPT ![s] = FALSE]
    /\ closer' = [closer EXCEPT ![s] = "callbacks"]
    /\ Goes(s, t, Return(t))
    /\ UNCHANGED <<closeFlag, queueVars, readers, agent, callbacks, called, late>>

InvokeNewest(s) ==
    /\ closer[s] = "callbacks"
    /\ closer' = [closer EXCEPT ![s] = "delete"]
    /\ called' = [called EXCEPT ![s] = [k \in Key |->
                    IF k \in callbacks[s] /\ (k = "flush" \/ "flush" \notin callbacks[s])
                    THEN @[k] + 1 ELSE @[k]]]
    /\ UNCHANGED <<pc, closeFlag, queueVars, readers, up, agent, callbacks, late>>

\* invokeCloseCallbacks, under closeMutex.
InvokeCloseCallbacks(s) ==
    /\ closer[s] = "callbacks"
    /\ closer' = [closer EXCEPT ![s] = "delete"]
    /\ called' = [called EXCEPT ![s] = [k \in Key |->
                    IF k \in callbacks[s] THEN @[k] + 1 ELSE @[k]]]
    /\ UNCHANGED <<pc, closeFlag, queueVars, readers, up, agent, callbacks, late>>

-----------------------------------------------------------------------------
(* Send and the sendLoop. *)

\* Under RLock from here on.
SendLocks(s, t) ==
    /\ At(s, t, "idle") /\ agent[s] /\ sent[s] < MaxSends
    /\ RLock(s, t)
    /\ Goes(s, t, "check")
    /\ UNCHANGED <<closeFlag, queueVars, up, agent, callbackVars>>

SendChecks(s, t) ==
    /\ At(s, t, "check")
    /\ IF closeFlag[s]
       THEN RUnlock(s, t) /\ Goes(s, t, "idle")
       ELSE Goes(s, t, "put") /\ UNCHANGED readers
    /\ UNCHANGED <<closeFlag, queueVars, up, agent, callbackVars>>

SendPutsHolding(s, t) ==
    /\ At(s, t, "put")
    /\ IF Len(sendChan[s]) < SendChan
       THEN /\ sendChan' = [sendChan EXCEPT ![s] = Append(@, sent[s] + 1)]
            /\ sent' = [sent EXCEPT ![s] = @ + 1]
            /\ Goes(s, t, "idle")
            /\ RUnlock(s, t)
       ELSE Goes(s, t, "close") /\ UNCHANGED <<sendChan, sent, readers>>
    /\ UNCHANGED <<closeFlag, chanClosed, hand, written, up, agent, callbackVars>>

\* The queue takes the message, or is full, and the session is closed.
SendPuts(s, t) ==
    /\ At(s, t, "put")
    /\ RUnlock(s, t)
    /\ IF chanClosed[s] THEN Goes(s, t, "panicked") /\ UNCHANGED <<sendChan, sent>>
       ELSE IF Len(sendChan[s]) < SendChan
       THEN /\ sendChan' = [sendChan EXCEPT ![s] = Append(@, sent[s] + 1)]
            /\ sent' = [sent EXCEPT ![s] = @ + 1]
            /\ Goes(s, t, "idle")
       ELSE Goes(s, t, "close") /\ UNCHANGED <<sendChan, sent>>
    /\ UNCHANGED <<closeFlag, chanClosed, hand, written, up, agent, callbackVars>>

\* An agent closes its session: no ping, a login that failed, or its own end.  (On a closed
\* session nothing happens.)
SenderCloses(s, t) ==
    /\ At(s, t, "idle") /\ agent[s] /\ ~closeFlag[s]
    /\ Goes(s, t, "close")
    /\ UNCHANGED <<closeFlag, queueVars, readers, up, agent, callbackVars>>

\* select, with a message, which the codec then writes, or not: the client is gone, or the
\* message cannot be encoded.
LoopTakes(s) ==
    /\ At(s, "loop", "select") /\ sendChan[s] # <<>>
    /\ hand' = [hand EXCEPT ![s] = Head(sendChan[s])]
    /\ sendChan' = [sendChan EXCEPT ![s] = Tail(@)]
    /\ Goes(s, "loop", "write")
    /\ UNCHANGED <<closeFlag, chanClosed, written, sent, readers, up, agent, callbackVars>>

LoopWrites(s) ==
    /\ At(s, "loop", "write") /\ up[s]
    /\ written' = [written EXCEPT ![s] = Append(@, hand[s])]
    /\ hand' = [hand EXCEPT ![s] = 0]
    /\ Goes(s, "loop", "select")
    /\ UNCHANGED <<closeFlag, sendChan, chanClosed, sent, readers, up, agent, callbackVars>>

LoopSkips(s) ==
    /\ At(s, "loop", "write")
    /\ hand' = [hand EXCEPT ![s] = 0]
    /\ Goes(s, "loop", "select")
    /\ UNCHANGED <<closeFlag, sendChan, chanClosed, written, sent, readers, up, agent, callbackVars>>

LoopFails(s) ==
    /\ At(s, "loop", "write")
    /\ hand' = [hand EXCEPT ![s] = 0]
    /\ Goes(s, "loop", "close")
    /\ UNCHANGED <<closeFlag, sendChan, chanClosed, written, sent, readers, up, agent, callbackVars>>

\* select, with closeChan, or with the closed sendChan when it is empty.
LoopLeaves(s) ==
    /\ At(s, "loop", "select")
    /\ closeFlag[s] \/ (chanClosed[s] /\ sendChan[s] = <<>>)
    /\ Goes(s, "loop", "close")
    /\ UNCHANGED <<closeFlag, queueVars, readers, up, agent, callbackVars>>

-----------------------------------------------------------------------------
(* AddCloseCallback: the flag is read before closeMutex is locked. *)

Added(s, k) ==
    /\ callbacks' = [callbacks EXCEPT ![s] = @ \cup {k}]
    /\ late' = [late EXCEPT ![s] = IF closeFlag[s] THEN @ \cup {k} ELSE @]
    /\ UNCHANGED <<called, closer>>

-----------------------------------------------------------------------------
(* handleConnect, after the manager has taken the session. *)

HandlerAgent(s) ==
    /\ At(s, "handler", "agent")
    /\ agent' \in {agent, [agent EXCEPT ![s] = TRUE]}
    /\ Goes(s, "handler", IF agent'[s] THEN "add" ELSE "close")
    /\ UNCHANGED <<closeFlag, queueVars, readers, up, callbackVars>>

HandlerAdds(s) ==
    /\ At(s, "handler", "add")
    /\ Goes(s, "handler", IF closeFlag[s] THEN "receive" ELSE "adding")
    /\ UNCHANGED <<closeFlag, queueVars, readers, up, agent, callbackVars>>

HandlerAdding(s) ==
    /\ At(s, "handler", "adding")
    /\ Added(s, "agent")
    /\ Goes(s, "handler", "receive")
    /\ UNCHANGED <<closeFlag, queueVars, readers, up, agent>>

\* Receive fails, or OnRecv gives up its wait for the agent's start, and the session is
\* closed.  (OnRecv then goes back to Receive, which fails.)
HandlerCloses(s) ==
    /\ At(s, "handler", "receive")
    /\ Goes(s, "handler", "close")
    /\ UNCHANGED <<closeFlag, queueVars, readers, up, agent, callbackVars>>

\* The client's end.
ClientGoes(s) ==
    /\ up[s] /\ up' = [up EXCEPT ![s] = FALSE]
    /\ UNCHANGED <<pc, closeFlag, queueVars, readers, agent, callbackVars>>

-----------------------------------------------------------------------------
(* CloseWithFlush, which a kicked agent calls in a goroutine. *)

FlushStarts(s) ==
    /\ At(s, "flusher", "idle") /\ agent[s]
    /\ RLock(s, "flusher")
    /\ Goes(s, "flusher", "flush")
    /\ UNCHANGED <<closeFlag, queueVars, up, agent, callbackVars>>

FlushChecks(s) ==
    /\ At(s, "flusher", "flush")
    /\ IF closeFlag[s]
       THEN RUnlock(s, "flusher") /\ Goes(s, "flusher", "done")
       ELSE Goes(s, "flusher", "flushAdd") /\ UNCHANGED readers
    /\ UNCHANGED <<closeFlag, queueVars, up, agent, callbackVars>>

FlushAdds(s) ==
    /\ At(s, "flusher", "flushAdd")
    /\ IF closeFlag[s]
       THEN RUnlock(s, "flusher") /\ Goes(s, "flusher", "wait")
       ELSE Goes(s, "flusher", "flushAdding") /\ UNCHANGED readers
    /\ UNCHANGED <<closeFlag, queueVars, up, agent, callbackVars>>

\* The callback, and RUnlock.
FlushAdding(s) ==
    /\ At(s, "flusher", "flushAdding")
    /\ Added(s, "flush")
    /\ RUnlock(s, "flusher")
    /\ Goes(s, "flusher", "wait")
    /\ UNCHANGED <<closeFlag, queueVars, up, agent>>

\* The session has been closed, or the time is up.
FlushEnds(s) ==
    /\ At(s, "flusher", "wait")
    /\ \/ called[s]["flush"] > 0 /\ Goes(s, "flusher", "done")
       \/ Goes(s, "flusher", "close")
    /\ UNCHANGED <<closeFlag, queueVars, readers, up, agent, callbackVars>>
=============================================================================
