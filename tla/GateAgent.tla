------------------------------ MODULE GateAgent ------------------------------
(***************************************************************************)
(* The gate's session actor (main_server/gate/agent.go): one per client    *)
(* connection.  Its mailbox merges what the client sends with what the     *)
(* server sends; the client's part is not stored, a client message arrives *)
(* in the step that handles it.  playerId and playerPid are set and        *)
(* cleared together, so playerId stands for both.                          *)
(***************************************************************************)
EXTENDS Actors

CONSTANT MaxCmds    \* bound: messages one client sends

VARIABLES
    gate,       \* gate[s]: the fields of the session's Agent, and the call it is in
    cmds        \* cmds[s]: how many messages the client has sent

gateVars == <<gate, cmds>>

GateTypeOK ==
    /\ gate \in [Session -> [playerId : Player \cup {NoPid}, closing : BOOLEAN,
                             doing : {"nothing", "login", "logout", "disconnect"}]]
    /\ cmds \in [Session -> Nat]

GateInit ==
    /\ gate = [s \in Session |-> [playerId |-> NoPid, closing |-> FALSE, doing |-> "nothing"]]
    /\ cmds = [s \in Session |-> 0]

-----------------------------------------------------------------------------
\* The client sends a message and the actor turns to it.
ClientSends(s) ==
    /\ life[s] = "live"
    /\ ~Blocked(s)
    /\ cmds[s] < MaxCmds
    /\ cmds' = [cmds EXCEPT ![s] = @ + 1]

\* invoke.LoginClient(a).<kind>(who): the session is blocked until it returns.
AskLogin(s, kind, who) ==
    /\ mbox' = Cast(mbox, LoginPid, CallMsg(s, kind, who))
    /\ call' = Asked(s, LoginPid)

C2SLogin(s, p) ==
    /\ ClientSends(s)
    /\ AskLogin(s, "login", p)
    /\ gate' = [gate EXCEPT ![s].doing = "login"]
    /\ UNCHANGED life

LoginReturns(s) ==
    /\ gate[s].doing = "login"
    /\ call[s].st = "done"
    /\ LET p == call[s].ret IN
       IF p = NoPid
       THEN /\ gate' = [gate EXCEPT ![s].doing = "nothing", ![s].closing = TRUE]
            /\ UNCHANGED mbox
       ELSE /\ gate' = [gate EXCEPT ![s].doing = "nothing", ![s].playerId = p]
            /\ mbox' = Cast(mbox, p, CastMsg("LoginSuccess", NoPid))
    /\ call' = Resumed(call, s)
    /\ UNCHANGED <<life, cmds>>

\* C2SLogout: the fields stay as they are.
C2SLogout(s) ==
    /\ ClientSends(s)
    /\ AskLogin(s, "logout", gate[s].playerId)
    /\ gate' = [gate EXCEPT ![s].doing = "logout"]
    /\ UNCHANGED life

\* Logout or Disconnect returns; its result is ignored.
ForgetReturns(s) ==
    /\ gate[s].doing \in {"logout", "disconnect"}
    /\ call[s].st = "done"
    /\ gate' = [gate EXCEPT ![s].doing = "nothing"]
    /\ call' = Resumed(call, s)
    /\ UNCHANGED <<mbox, life, cmds>>

\* Any other message goes to the player's actor, if there is one.
C2SForward(s) ==
    /\ ClientSends(s)
    /\ gate[s].playerId # NoPid
    /\ mbox' = Cast(mbox, gate[s].playerId, CastMsg("C2S", NoPid))
    /\ UNCHANGED <<life, call, gate>>

\* S2CKick: the session lets go of the player and closes a little later.
OnS2CKick(s) ==
    /\ Receives(s, "S2CKick")
    /\ mbox' = Taken(s)
    /\ gate' = [gate EXCEPT ![s].playerId = NoPid, ![s].closing = TRUE]
    /\ UNCHANGED <<life, call, cmds>>

\* The connection closes: the close callback stops the actor.  The delayed
\* close after a kick or a failed login, or the client's or the ping timeout's doing.
SessionClosed(s) ==
    /\ life[s] = "live"
    /\ life' = Stopping(s)
    /\ UNCHANGED <<mbox, call, gateVars>>

DelayedClose(s) == gate[s].closing /\ SessionClosed(s)

\* Mutation of SessionStopped: the Login module is not told.
SessionStoppedQuietly(s) ==
    /\ life[s] = "stopping"
    /\ ~Blocked(s)
    /\ life' = [life EXCEPT ![s] = "none"]
    /\ mbox' = [mbox EXCEPT ![s] = <<>>]
    /\ UNCHANGED <<call, gateVars>>

\* OnStop: the Login module is told, if the session has a player.
SessionStopped(s) ==
    /\ life[s] = "stopping"
    /\ ~Blocked(s)
    /\ life' = [life EXCEPT ![s] = "none"]
    /\ LET left == [mbox EXCEPT ![s] = <<>>] IN
       IF gate[s].playerId = NoPid
       THEN mbox' = left /\ UNCHANGED <<call, gate>>
       ELSE /\ mbox' = Cast(left, LoginPid, CallMsg(s, "disconnect", gate[s].playerId))
            /\ call' = Asked(s, LoginPid)
            /\ gate' = [gate EXCEPT ![s].doing = "disconnect"]
    /\ UNCHANGED cmds

ClientStep(s) ==
    \/ \E p \in Player : C2SLogin(s, p)
    \/ C2SLogout(s)
    \/ C2SForward(s)
    \/ SessionClosed(s)

\* What the server does for the session whatever the client does.
SessionStep(s) ==
    \/ LoginReturns(s)
    \/ ForgetReturns(s)
    \/ OnS2CKick(s)
    \/ DelayedClose(s)
    \/ SessionStopped(s)
    \/ CallTimeout(s) /\ UNCHANGED gateVars
=============================================================================
