----------------------------- MODULE LoginModule -----------------------------
(***************************************************************************)
(* The Login module (main_server/logic/login): one actor, one request at a *)
(* time, and the directory of online players.  A token stands for the      *)
(* player its account maps to.  The login handler is split where another   *)
(* actor can move in between: at the LoginReplace call, between the load   *)
(* of the player's data and the creation of the actor, and between that    *)
(* creation and the entry in the directory.                                *)
(***************************************************************************)
EXTENDS PlayerAgent

VARIABLES
    players,    \* Login.players: who is online
    ls,         \* the login request being handled and how far it got
    stale       \* history: players whose actor was created from outdated data

loginVars == <<players, ls, stale>>

NoRequest == CastMsg("none", NoPid)
IdleLogin == [phase |-> "idle", req |-> NoRequest, snap |-> {}]

LoginTypeOK ==
    /\ players \subseteq Player
    /\ ls \in [phase : {"idle", "replacing", "loaded", "born", "created"},
               req : Msg \cup {NoRequest}, snap : SUBSET Op]
    /\ ls.phase # "idle" => ls.req.kind = "login"
    /\ stale \subseteq Player

LoginInit ==
    /\ players = {}
    /\ ls = IdleLogin
    /\ stale = {}

\* The head of Login's mailbox is request kind and no handler is running.
Handles(kind) == ls.phase = "idle" /\ Receives(LoginPid, kind)

Request == Head(mbox[LoginPid])

\* The session and the player of the login request being handled.
TheSession == ls.req.from
ThePlayer == ls.req.who

\* What login and a logout have in common when they end in the step that starts them.
Answer(ret) ==
    /\ mbox' = Taken(LoginPid)
    /\ call' = Responded(Request, ret)
    /\ UNCHANGED life

-----------------------------------------------------------------------------
\* A lookup fails, or the player's data cannot be loaded: the client is told so.
LoginFails ==
    /\ Handles("login")
    /\ Answer(NoPid)
    /\ UNCHANGED <<playerVars, loginVars>>

\* The player is online: its actor is asked, synchronously, to change session.
LoginOnline ==
    /\ Handles("login")
    /\ LET p == Request.who IN
       /\ store[p].key
       /\ p \in players
       /\ mbox' = Cast(Taken(LoginPid), p, CallMsg(LoginPid, "LoginReplace", Request.from))
       /\ call' = Asked(LoginPid, p)
    /\ ls' = [ls EXCEPT !.phase = "replacing", !.req = Request]
    /\ UNCHANGED <<life, playerVars, players, stale>>

LoginReplaced ==
    /\ ls.phase = "replacing"
    /\ call[LoginPid].st = "done"
    /\ call' = Resumed(Responded(ls.req, call[LoginPid].ret), LoginPid)
    /\ ls' = IdleLogin
    /\ UNCHANGED <<mbox, life, playerVars, players, stale>>

\* The player is not online: LoadPlayerData reads Redis.
LoginLoad ==
    /\ Handles("login")
    /\ LET p == Request.who IN
       /\ store[p].key
       /\ store[p].hash
       /\ p \notin players
       /\ ls' = [phase |-> "loaded", req |-> Request, snap |-> store[p].data]
    /\ mbox' = Taken(LoginPid)
    /\ UNCHANGED <<life, call, playerVars, players, stale>>

\* There is no account yet: Born writes the account key first.
LoginBorn ==
    /\ Handles("login")
    /\ LET p == Request.who IN
       /\ ~store[p].key
       /\ store' = [store EXCEPT ![p].key = TRUE]
    /\ mbox' = Taken(LoginPid)
    /\ ls' = [phase |-> "born", req |-> Request, snap |-> {}]
    /\ UNCHANGED <<life, call, pl, done, served, gmKicked, players, stale>>

\* The MySQL update after Born fails: the key is there, the data never is.
LoginBornFails ==
    /\ ls.phase = "born"
    /\ call' = Responded(ls.req, NoPid)
    /\ ls' = IdleLogin
    /\ UNCHANGED <<mbox, life, playerVars, players, stale>>

\* Context.Create("player#id"): fails while an actor holds the name.
LoginCreate ==
    /\ ls.phase \in {"loaded", "born"}
    /\ NameFree(ThePlayer)
    /\ life' = [life EXCEPT ![ThePlayer] = "live"]
    /\ pl' = [pl EXCEPT ![ThePlayer] = [session |-> TheSession, data |-> ls.snap,
                                        asking |-> FALSE]]
    /\ served' = [served EXCEPT ![ThePlayer] = {TheSession}]
    /\ store' = IF ls.phase = "born" THEN [store EXCEPT ![ThePlayer].hash = TRUE] ELSE store
    /\ stale' = IF ls.snap = store[ThePlayer].data THEN stale ELSE stale \cup {ThePlayer}
    /\ gmKicked' = gmKicked \ {ThePlayer}
    /\ ls' = [ls EXCEPT !.phase = "created"]
    /\ UNCHANGED <<mbox, call, done, players>>

LoginNameTaken ==
    /\ ls.phase = "loaded"
    /\ ~NameFree(ThePlayer)
    /\ call' = Responded(ls.req, NoPid)
    /\ ls' = IdleLogin
    /\ UNCHANGED <<mbox, life, playerVars, players, stale>>

LoginCreated ==
    /\ ls.phase = "created"
    /\ players' = players \cup {ThePlayer}
    /\ call' = Responded(ls.req, ThePlayer)
    /\ ls' = IdleLogin
    /\ UNCHANGED <<mbox, life, playerVars, stale>>

-----------------------------------------------------------------------------
\* Mutation of Forget: the player's actor is not told.
ForgetQuietly(kind, told) ==
    /\ Handles(kind)
    /\ mbox' = Taken(LoginPid)
    /\ players' = players \ {Request.who}
    /\ call' = Responded(Request, NoPid)
    /\ UNCHANGED <<life, playerVars, ls, stale>>

\* Mutation of Forget: the entry stays in the directory.
ForgetKeepsEntry(kind, told) ==
    /\ Handles(kind)
    /\ mbox' = IF Request.who \in players
               THEN Cast(Taken(LoginPid), Request.who, CastMsg(told, NoPid))
               ELSE Taken(LoginPid)
    /\ call' = Responded(Request, NoPid)
    /\ UNCHANGED <<life, playerVars, loginVars>>

\* logout and disconnect: tell the player's actor and forget it in the same breath.
Forget(kind, told) ==
    /\ Handles(kind)
    /\ LET p == Request.who IN
       /\ mbox' = IF p \in players THEN Cast(Taken(LoginPid), p, CastMsg(told, NoPid))
                                   ELSE Taken(LoginPid)
       /\ players' = players \ {p}
    /\ call' = Responded(Request, NoPid)
    /\ UNCHANGED <<life, playerVars, ls, stale>>

LoginLogout == Forget("logout", "Logout")
LoginDisconnect == Forget("disconnect", "Disconnect")

\* castAgent with a message that the player only forwards to its client.
LoginCastAgent ==
    /\ Handles("castAgent")
    /\ Answer(NoPid)
    /\ UNCHANGED <<playerVars, loginVars>>

\* castAgent with a SysKick, from the GM interface.
LoginSysKick ==
    /\ Handles("sysKick")
    /\ LET p == Request.who IN
       mbox' = IF p \in players THEN Cast(Taken(LoginPid), p, CastMsg("SysKick", NoPid))
                                ELSE Taken(LoginPid)
    /\ UNCHANGED <<life, call, playerVars, loginVars>>

LoginStep ==
    \/ LoginFails \/ LoginOnline \/ LoginReplaced
    \/ LoginLoad \/ LoginBorn \/ LoginBornFails
    \/ LoginCreate \/ LoginNameTaken \/ LoginCreated
    \/ LoginLogout \/ LoginDisconnect \/ LoginCastAgent \/ LoginSysKick
    \/ CallTimeout(LoginPid) /\ UNCHANGED <<playerVars, loginVars>>
=============================================================================
