---------------------------- MODULE SessionSystem ----------------------------
(***************************************************************************)
(* One main_server: gate sessions, the Login module and the player actors. *)
(***************************************************************************)
EXTENDS GateAgent, LoginModule

CONSTANT MaxKicks   \* bound: GM kicks

VARIABLE kicks      \* how many GM kicks were sent

vars == <<actorVars, gateVars, playerVars, loginVars, kicks>>

Init ==
    /\ mbox = [a \in Pid |-> <<>>]
    /\ life = [a \in Pid |-> IF a \in Player THEN "none" ELSE "live"]
    /\ call = [a \in Pid |-> [st |-> "idle", ep |-> 0, ret |-> NoPid]]
    /\ GateInit /\ PlayerInit /\ LoginInit
    /\ kicks = 0

\* POST /gm/kick: a call of castAgent whose result nobody reads.
GMKick(p) ==
    /\ kicks < MaxKicks
    /\ kicks' = kicks + 1
    /\ mbox' = Cast(mbox, LoginPid, CastMsg("sysKick", p))
    /\ UNCHANGED <<life, call, gateVars, playerVars, loginVars>>

GateNext(s) == (ClientStep(s) \/ SessionStep(s)) /\ UNCHANGED <<playerVars, loginVars, kicks>>
PlayerNext(p) == PlayerStep(p) /\ UNCHANGED <<gateVars, loginVars, kicks>>
LoginNext == LoginStep /\ UNCHANGED <<gateVars, kicks>>

Next ==
    \/ \E s \in Session : GateNext(s)
    \/ \E p \in Player : PlayerNext(p) \/ GMKick(p)
    \/ LoginNext

Spec == Init /\ [][Next]_vars

TypeOK ==
    /\ ActorsTypeOK /\ GateTypeOK /\ PlayerTypeOK /\ LoginTypeOK
    /\ kicks \in Nat

-----------------------------------------------------------------------------
\* A message of kind k waits for actor a.
Queued(a, k) == Has(mbox[a], k)

Condemned(p) == Queued(p, "Logout") \/ Queued(p, "Disconnect")

\* Login is between Context.Create and the directory entry for p.
BeingCreated(p) == ls.phase = "created" /\ ThePlayer = p

\* A running player actor that Login has forgotten has its stop order in its
\* mailbox: no actor lives on where no session, logout or GM can reach it.
NoZombie == \A p \in Player :
    life[p] = "live" => p \in players \/ BeingCreated(p) \/ Condemned(p)

\* The actor behind a directory entry has not been told to stop by a logout or a
\* disconnect, and if it is gone or going then a GM kick did it.
EntryIsAlive == \A p \in players :
    /\ ~Condemned(p)
    /\ life[p] # "live" => p \in gmKicked

\* Unless its actor was created from outdated data, every change ever made to a
\* player is in Redis or in the actor that will save it.
NothingLost == \A p \in Player \ stale :
    done[p] \subseteq store[p].data \cup (IF life[p] = "live" THEN pl[p].data ELSE {})

\* A session that was served by a player's actor and lost it to another session
\* has the kick on its way, and until it handles it nothing else tells it.
ReplacedIsKicked == \A p \in Player : \A s \in served[p] :
    life[p] = "live" /\ life[s] = "live" /\ gate[s].playerId = p /\ pl[p].session # s
        => Queued(s, "S2CKick")

-----------------------------------------------------------------------------
(* What NoZombie, EntryIsAlive, NothingLost and KeepsStep rest on. *)

\* Nothing waits for a player whose name is free: an actor starts with no mail.
FreeNameHasNoMail == \A p \in Player : life[p] = "none" => mbox[p] = <<>>

\* While Login loads or creates a player, the player is not in the directory and
\* an actor it has just created has no order to stop.
CreatingIsQuiet ==
    /\ ls.phase \in {"loaded", "born", "created"} => ThePlayer \notin players
    /\ \A p \in Player : BeingCreated(p) =>
          life[p] = "live" /\ ~Condemned(p) /\ ~Queued(p, "SysKick")

\* Who is in the directory, or on the way there, has an account.
KnownPlayers ==
    /\ \A p \in players : store[p].key
    /\ ls.phase \in {"loaded", "born", "created"} => store[ThePlayer].key

\* A player waits for Login only inside a handler.
AskingRuns == \A p \in Player : pl[p].asking => life[p] = "live" /\ Blocked(p)

\* A running actor has all that Redis has, unless it was created from outdated data.
HoldsAll == \A p \in Player \ stale : life[p] = "live" => store[p].data \subseteq pl[p].data

SessionInv ==
    /\ TypeOK
    /\ FreeNameHasNoMail /\ CreatingIsQuiet /\ KnownPlayers /\ AskingRuns /\ HoldsAll
    /\ NoZombie /\ EntryIsAlive /\ NothingLost

-----------------------------------------------------------------------------
(* What ReplacedIsKicked rests on: who waits for which answer. *)

\* m is the request of the call with future f that actor a makes.
Asks(a, f, m) == m.from = a /\ m.ep = f.ep

\* In these mailboxes is at most one request of that call, and none when it is over.
OneRequest(boxes, f, a) ==
    /\ \A b \in Pid : \A i \in DOMAIN boxes[b] :
          /\ boxes[b][i].from = a => boxes[b][i].ep <= f.ep
          /\ Asks(a, f, boxes[b][i]) => f.st = "waiting"
    /\ \A b, c \in Pid : \A i \in DOMAIN boxes[b], j \in DOMAIN boxes[c] :
          Asks(a, f, boxes[b][i]) /\ Asks(a, f, boxes[c][j]) => b = c /\ i = j

\* None of these messages is a request of that call.
NoneAsks(boxes, f, a) ==
    \A b \in Pid : \A i \in DOMAIN boxes[b] : ~Asks(a, f, boxes[b][i])

\* The login that Login works on is the only request of its session's call, which
\* waits unless it has timed out.
InHand == ls.phase # "idle" =>
    /\ ls.req.ep <= call[TheSession].ep
    /\ ls.req.ep = call[TheSession].ep =>
          call[TheSession].st = "waiting" /\ NoneAsks(mbox, call[TheSession], TheSession)

\* Only Login replaces sessions, and the request it waits for names the session that
\* logs in.
ReplaceIsLogins == \A p \in Player : \A i \in DOMAIN mbox[p] :
    /\ mbox[p][i].kind = "LoginReplace" => mbox[p][i].from = LoginPid
    /\ Asks(LoginPid, call[LoginPid], mbox[p][i]) =>
          ls.phase = "replacing" /\ mbox[p][i].who = TheSession

\* The actor that Login has just created serves the session that logs in.
CreatedServes == \A p \in Player :
    BeingCreated(p) => pl[p].session = TheSession /\ ~Queued(p, "LoginReplace")

\* Session s is served by p, or has the kick on its way.
ServedOrKicked(s, p) ==
    life[p] = "live" /\ life[s] = "live" /\ s \in served[p] /\ pl[p].session # s
        => Queued(s, "S2CKick")

\* So it is for a session that is about to be told that it is served by p.
AnswerHolds == \A p \in Player :
    /\ \A s \in Session :
          gate[s].doing = "login" /\ call[s].st = "done" /\ call[s].ret = p
              => ServedOrKicked(s, p)
    /\ /\ ls.phase = "replacing" /\ ls.req.ep = call[TheSession].ep
       /\ call[LoginPid].st = "done" /\ call[LoginPid].ret = p
       => ServedOrKicked(TheSession, p)

AnswerInv ==
    /\ \A a \in Pid : OneRequest(mbox, call[a], a)
    /\ InHand /\ ReplaceIsLogins /\ CreatedServes /\ AnswerHolds /\ ReplacedIsKicked

-----------------------------------------------------------------------------
(* Every actor and every timer gets to run; clients and the GM owe nothing. *)
Fairness ==
    /\ \A s \in Session : WF_vars(SessionStep(s) /\ UNCHANGED <<playerVars, loginVars, kicks>>)
    /\ \A p \in Player : WF_vars(PlayerNext(p))
    /\ WF_vars(LoginNext)

FairSpec == Spec /\ Fairness

\* A blocked actor goes on, even when Login waits for a player (LoginReplace)
\* that waits for Login: the time to live of a call is all that ends that.
EveryCallReturns == \A a \in Pid : Blocked(a) ~> ~Blocked(a)

\* When a session that has a player ends, the player is taken out of the directory,
\* also when the call that asks for it times out.
ClosedReleases == \A s \in Session : \A p \in Player :
    (life[s] = "stopping" /\ gate[s].playerId = p) ~> p \notin players

-----------------------------------------------------------------------------
\* Where player p stands in the cycle of PlayerLifecycle.
PhaseOf(p) ==
    CASE life[p] = "none"     -> IF p \in players THEN "ghost" ELSE "off"
      [] life[p] = "stopping" -> IF p \in players THEN "kicked" ELSE "stopping"
      [] OTHER -> IF p \in players THEN "online"
                  ELSE IF BeingCreated(p) THEN "starting" ELSE "leaving"

Lifecycle == INSTANCE PlayerLifecycle WITH phase <- [p \in Player |-> PhaseOf(p)]

\* The directory and the actors go through the cycle and no other way: nobody is
\* started twice, or stopped while in the directory other than by a GM.
KeepsStep == Lifecycle!Spec

\* And under the fairness of the actors nobody stays half started or half stopped.
KeepsStepFairly == Lifecycle!FairSpec

-----------------------------------------------------------------------------
\* "Session.Close -> ... -> OnStop -> Disconnect" (gate/agent.go): a player whose
\* session is gone goes offline, or another session takes it over.
AbandonedGoesOffline == \A s \in Session : \A p \in Player :
    (p \in players /\ pl[p].session = s /\ life[s] = "none" /\ gate[s].doing = "nothing")
        ~> (p \notin players \/ pl[p].session # s)
=============================================================================
