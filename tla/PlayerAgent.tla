----------------------------- MODULE PlayerAgent -----------------------------
(***************************************************************************)
(* The player actor (main_server/player): the handlers that decide which   *)
(* session it serves, when it saves and when it stops.  The forty feature  *)
(* handlers are one action that changes the player's data, and one that    *)
(* does so after a synchronous call to the Login module.  What is sent to  *)
(* the gate only to be forwarded to the client is left out.                *)
(*                                                                         *)
(* OnTick is not an action: it saves only while SaveTick > 0, and nothing  *)
(* in the program ever sets SaveTick (SaveNow has no caller).              *)
(***************************************************************************)
EXTENDS Actors

CONSTANT Op     \* the changes clients make to player data, bounded

VARIABLES
    pl,         \* pl[p]: model.Player of the actor registered as p
    store,      \* store[p]: Redis, the account key and the player's data
    done,       \* history: done[p] is every change ever made to p's data
    served,     \* history: served[p] is every session p's present actor has served
    gmKicked    \* history: players stopped by a GM kick since their last login

playerVars == <<pl, store, done, served, gmKicked>>

PlayerTypeOK ==
    /\ pl \in [Player -> [session : Session \cup {NoPid}, data : SUBSET Op,
                          asking : BOOLEAN]]
    /\ store \in [Player -> [key : BOOLEAN, hash : BOOLEAN, data : SUBSET Op]]
    /\ done \in [Player -> SUBSET Op]
    /\ served \in [Player -> SUBSET Session]
    /\ gmKicked \subseteq Player

NoModel == [session |-> NoPid, data |-> {}, asking |-> FALSE]

PlayerInit ==
    /\ pl = [p \in Player |-> NoModel]
    /\ store = [p \in Player |-> [key |-> FALSE, hash |-> FALSE, data |-> {}]]
    /\ done = [p \in Player |-> {}]
    /\ served = [p \in Player |-> {}]
    /\ gmKicked = {}

-----------------------------------------------------------------------------
\* A change nobody has made before; when the bound on changes is reached, none.
Fresh == LET used == UNION {done[q] : q \in Player}
         IN  IF used = Op THEN {{}} ELSE {{o} : o \in Op \ used}

Change(p) == \E new \in Fresh :
    /\ pl' = [pl EXCEPT ![p].data = @ \cup new, ![p].asking = FALSE]
    /\ done' = [done EXCEPT ![p] = @ \cup new]
    /\ UNCHANGED <<store, served, gmKicked>>

\* Mutation of Saved: OnSave(FALSE) before the stop, which leaves most parts out.
SavedInPart(p) == [store EXCEPT ![p].hash = TRUE]

\* OnSave(TRUE): every part is written before the call returns.
Saved(p) == [store EXCEPT ![p].hash = TRUE, ![p].data = pl[p].data]

\* LoginSuccess: the login task is counted, a change like any other.
OnLoginSuccess(p) ==
    /\ Receives(p, "LoginSuccess")
    /\ Change(p)
    /\ mbox' = Taken(p)
    /\ UNCHANGED <<life, call>>

\* A feature handler that stays inside the player actor.
OnC2S(p) ==
    /\ Receives(p, "C2S")
    /\ Change(p)
    /\ mbox' = Taken(p)
    /\ UNCHANGED <<life, call>>

\* A feature handler that tells player q something through the Login module
\* (invoke.Dispatch): the player is blocked until Login answers or the TTL runs out.
OnC2SAsksLogin(p, q) ==
    /\ Receives(p, "C2S")
    /\ mbox' = Cast(Taken(p), LoginPid, CallMsg(p, "castAgent", q))
    /\ call' = Asked(p, LoginPid)
    /\ pl' = [pl EXCEPT ![p].asking = TRUE]
    /\ UNCHANGED <<life, store, done, served, gmKicked>>

C2SReturns(p) ==
    /\ pl[p].asking
    /\ call[p].st = "done"
    /\ Change(p)
    /\ call' = Resumed(call, p)
    /\ UNCHANGED <<mbox, life>>

\* Mutation of OnLoginReplace: the session field gets the sender of the message.
OnLoginReplaceFrom(p) ==
    /\ Receives(p, "LoginReplace")
    /\ LET m == Head(mbox[p]) IN
       /\ mbox' = Cast(Taken(p), pl[p].session, CastMsg("S2CKick", NoPid))
       /\ pl' = [pl EXCEPT ![p].session = m.from]
       /\ served' = [served EXCEPT ![p] = @ \cup {m.who}]
       /\ call' = Responded(m, p)
    /\ UNCHANGED <<life, store, done, gmKicked>>

\* Mutation of OnLoginReplace: the old session is not told.
OnLoginReplaceQuiet(p) ==
    /\ Receives(p, "LoginReplace")
    /\ LET m == Head(mbox[p]) IN
       /\ mbox' = Taken(p)
       /\ pl' = [pl EXCEPT ![p].session = m.who]
       /\ served' = [served EXCEPT ![p] = @ \cup {m.who}]
       /\ call' = Responded(m, p)
    /\ UNCHANGED <<life, store, done, gmKicked>>

\* Replace: the old session is told to go, whatever session that is.
OnLoginReplace(p) ==
    /\ Receives(p, "LoginReplace")
    /\ LET m == Head(mbox[p]) IN
       /\ mbox' = Cast(Taken(p), pl[p].session, CastMsg("S2CKick", NoPid))
       /\ pl' = [pl EXCEPT ![p].session = m.who]
       /\ served' = [served EXCEPT ![p] = @ \cup {m.who}]
       /\ call' = Responded(m, p)
    /\ UNCHANGED <<life, store, done, gmKicked>>

\* Mutation of OnLogout: the actor saves and stays.
OnLogoutStays(p, kind) ==
    /\ Receives(p, kind)
    /\ mbox' = Taken(p)
    /\ store' = Saved(p)
    /\ UNCHANGED <<life, call, pl, done, served, gmKicked>>

\* Logout and Disconnect are one handler: save everything, then stop.
OnLogout(p, kind) ==
    /\ Receives(p, kind)
    /\ mbox' = Taken(p)
    /\ store' = Saved(p)
    /\ life' = Stopping(p)
    /\ UNCHANGED <<call, pl, done, served, gmKicked>>

\* SysKick: the same, after telling the session; Login is not told.
OnSysKick(p) ==
    /\ Receives(p, "SysKick")
    /\ mbox' = Cast(Taken(p), pl[p].session, CastMsg("S2CKick", NoPid))
    /\ store' = Saved(p)
    /\ life' = Stopping(p)
    /\ gmKicked' = gmKicked \cup {p}
    /\ UNCHANGED <<call, pl, done, served>>

\* The runtime carries out the stop: the name is free, what was queued is lost.
PlayerStopped(p) ==
    /\ life[p] = "stopping"
    /\ life' = [life EXCEPT ![p] = "none"]
    /\ mbox' = [mbox EXCEPT ![p] = <<>>]
    /\ pl' = [pl EXCEPT ![p] = NoModel]
    /\ served' = [served EXCEPT ![p] = {}]
    /\ UNCHANGED <<call, store, done, gmKicked>>

PlayerStep(p) ==
    \/ OnLoginSuccess(p)
    \/ OnC2S(p)
    \/ \E q \in Player : OnC2SAsksLogin(p, q)
    \/ C2SReturns(p)
    \/ OnLoginReplace(p)
    \/ \E kind \in {"Logout", "Disconnect"} : OnLogout(p, kind)
    \/ OnSysKick(p)
    \/ PlayerStopped(p)
    \/ CallTimeout(p) /\ UNCHANGED playerVars
=============================================================================
