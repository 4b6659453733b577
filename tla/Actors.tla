------------------------------- MODULE Actors -------------------------------
(***************************************************************************)
(* The actor runtime every server component stands on (pkg/agent, over     *)
(* protoactor-go, which is not part of the repository): mailboxes, casts,  *)
(* blocking calls with a time to live, and the life of an actor under its  *)
(* registered name.  A PID is an address, so an actor started under a name *)
(* that was used before is reached through the old PIDs.                   *)
(***************************************************************************)
EXTENDS Naturals, Sequences

CONSTANTS
    Session,    \* gate session actors "session#id", one per connection
    Player,     \* player actors "player#id"; the address is the player id
    LoginPid,   \* the actor of the Login module
    NoPid       \* the nil PID, and the player id 0

ASSUME PidAssumption ==
    /\ Session \cap Player = {}
    /\ LoginPid \notin Session \cup Player
    /\ NoPid \notin Session \cup Player \cup {LoginPid}

Pid == Session \cup Player \cup {LoginPid}

VARIABLES
    mbox,       \* mbox[a]: the user messages waiting for actor a, oldest first
    life,       \* life[a]: is the name a registered, and is its actor stopping
    call        \* call[a]: the one future a may be blocked on

actorVars == <<mbox, life, call>>

Kind == {"login", "logout", "disconnect", "castAgent", "sysKick",
         "LoginSuccess", "LoginReplace", "Logout", "Disconnect", "SysKick", "C2S", "S2CKick"}

\* A message; `from` and `ep` say whose future, if any, the reply completes.
\* A login comes from a session, a LoginReplace names one.
Msg == {m \in [kind : Kind, from : Pid \cup {NoPid}, ep : Nat, who : Pid \cup {NoPid}] :
           /\ m.kind = "login" => m.from \in Session /\ m.who \in Player
           /\ m.kind = "LoginReplace" => m.who \in Session}

\* A message of this kind waits in the mailbox.
Has(box, kind) == \E i \in DOMAIN box : box[i].kind = kind

Boxes == [Pid -> Seq(Msg)]
Lives == [Pid -> {"none", "live", "stopping"}]
Futures == [Pid -> [st : {"idle", "waiting", "done"}, ep : Nat, ret : Player \cup {NoPid}]]

ActorsTypeOK == mbox \in Boxes /\ life \in Lives /\ call \in Futures

-----------------------------------------------------------------------------
CastMsg(kind, who) == [kind |-> kind, from |-> NoPid, ep |-> 0, who |-> who]
CallMsg(a, kind, who) == [kind |-> kind, from |-> a, ep |-> call[a].ep, who |-> who]

\* The mailboxes after m is sent to `to`; an unregistered name is a dead letter.
Cast(boxes, to, m) ==
    IF to \in Pid /\ life[to] # "none" THEN [boxes EXCEPT ![to] = Append(@, m)] ELSE boxes

\* The mailboxes after a has taken the message at the head of its own.
Taken(a) == [mbox EXCEPT ![a] = Tail(@)]

\* a is running a handler that has not returned yet.
Blocked(a) == call[a].st # "idle"

\* a may take kind from its mailbox: a registered actor, between two handlers.
Receives(a, kind) ==
    /\ life[a] = "live"
    /\ ~Blocked(a)
    /\ mbox[a] # <<>>
    /\ Head(mbox[a]).kind = kind

\* The futures after a starts a call to `to`; a dead target answers with an error at once.
Asked(a, to) == [call EXCEPT ![a].st = IF life[to] = "none" THEN "done" ELSE "waiting",
                             ![a].ret = NoPid]

\* The futures after `who` answers request m; the future of a call that timed out is gone.
Responded(m, ret) ==
    IF m.from \in Pid /\ call[m.from].st = "waiting" /\ call[m.from].ep = m.ep
    THEN [call EXCEPT ![m.from].st = "done", ![m.from].ret = ret]
    ELSE call

\* The futures c after a has picked up the result it was blocked on.
Resumed(c, a) == [c EXCEPT ![a].st = "idle", ![a].ret = NoPid]

\* Mutation of CallTimeout: a call waits for its answer for ever.
CallForever(a) ==
    /\ call[a].st = "waiting"
    /\ UNCHANGED actorVars

\* The call's TTL runs out: the caller gets an error, the request stays where it is.
CallTimeout(a) ==
    /\ call[a].st = "waiting"
    /\ call' = [call EXCEPT ![a].st = "done", ![a].ret = NoPid, ![a].ep = @ + 1]
    /\ UNCHANGED <<mbox, life>>

\* Mutation of NameFree: a name can be given to a second actor.
AnyName(a) == TRUE

\* SpawnNamed refuses a name that an actor still holds, be it a stopping one.
NameFree(a) == life[a] = "none"

\* context.Stop(): a system message, it overtakes everything in the mailbox.
Stopping(a) == [life EXCEPT ![a] = "stopping"]
=============================================================================
