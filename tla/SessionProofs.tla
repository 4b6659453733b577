---------------------------- MODULE SessionProofs ----------------------------
(***************************************************************************)
(* The safety of SessionSystem, for any number of sessions, players,       *)
(* changes, client messages and kicks.  First, type correctness.  Then     *)
(* SessionInv, which is inductive, and with which every step keeps the     *)
(* directory and the actors in the cycle of PlayerLifecycle.  At the end   *)
(* AnswerInv, which follows each call from its one request to its answer,  *)
(* and with it that a session which is replaced is kicked.                 *)
(***************************************************************************)
EXTENDS SessionSystem, TLAPS

-----------------------------------------------------------------------------
(* Types of the operators of the actor runtime. *)

\* Sending a message of the protocol leaves mailboxes that hold such messages only.
LEMMA CastType ==
    ASSUME NEW boxes \in Boxes, NEW to, NEW m \in Msg
    PROVE  Cast(boxes, to, m) \in Boxes
BY DEF Cast, Boxes

\* A cast of any kind but those that need a sender is a message of the protocol.
LEMMA CastMsgType ==
    ASSUME NEW kind \in Kind, kind \notin {"login", "LoginReplace"},
           NEW who \in Pid \cup {NoPid}
    PROVE  CastMsg(kind, who) \in Msg
BY DEF CastMsg, Msg

\* So is a call, when its kind fits its sender and its subject.
LEMMA CallMsgType ==
    ASSUME ActorsTypeOK, NEW a \in Pid, NEW kind \in Kind, NEW who \in Pid \cup {NoPid},
           kind = "login" => a \in Session /\ who \in Player,
           kind = "LoginReplace" => who \in Session
    PROVE  CallMsg(a, kind, who) \in Msg
BY DEF CallMsg, Msg, ActorsTypeOK, Futures

\* Taking the head of a mailbox yields a message and leaves messages.
LEMMA TakenType ==
    ASSUME ActorsTypeOK, NEW a \in Pid, mbox[a] # <<>>
    PROVE  Taken(a) \in Boxes /\ Head(mbox[a]) \in Msg
BY DEF Taken, ActorsTypeOK, Boxes

\* Starting a call leaves well-formed futures.
LEMMA AskedType ==
    ASSUME ActorsTypeOK, NEW a \in Pid, NEW to
    PROVE  Asked(a, to) \in Futures
BY DEF Asked, ActorsTypeOK, Futures

\* So does an answer, to whomever it goes.
LEMMA RespondedType ==
    ASSUME ActorsTypeOK, NEW m, NEW ret \in Player \cup {NoPid}
    PROVE  Responded(m, ret) \in Futures
BY DEF Responded, ActorsTypeOK, Futures

\* So does going on after a call.
LEMMA ResumedType ==
    ASSUME NEW c \in Futures, NEW a \in Pid
    PROVE  Resumed(c, a) \in Futures
BY DEF Resumed, Futures

\* A stop leaves well-formed lives.
LEMMA StoppingType ==
    ASSUME ActorsTypeOK, NEW a \in Pid
    PROVE  Stopping(a) \in Lives
BY DEF Stopping, ActorsTypeOK, Lives

\* A timeout preserves the types.
LEMMA TimeoutType ==
    ASSUME ActorsTypeOK, NEW a \in Pid, CallTimeout(a)
    PROVE  ActorsTypeOK'
BY DEF CallTimeout, ActorsTypeOK, Futures

\* A change of player data preserves the types of the player actors.
LEMMA ChangeType ==
    ASSUME PlayerTypeOK, NEW p \in Player, Change(p)
    PROVE  PlayerTypeOK'
<1>1. PICK new \in Fresh :
          /\ pl' = [pl EXCEPT ![p].data = @ \cup new, ![p].asking = FALSE]
          /\ done' = [done EXCEPT ![p] = @ \cup new]
          /\ UNCHANGED <<store, served, gmKicked>>
    BY DEF Change
<1>2. new \subseteq Op
    BY DEF Fresh
<1> QED
    BY <1>1, <1>2 DEF PlayerTypeOK

\* Marking a player as waiting for Login keeps its model well formed.
LEMMA AskingType ==
    ASSUME PlayerTypeOK, NEW p \in Player
    PROVE  [pl EXCEPT ![p].asking = TRUE] \in
              [Player -> [session : Session \cup {NoPid}, data : SUBSET Op, asking : BOOLEAN]]
BY Zenon DEF PlayerTypeOK

\* Writing the account key keeps Redis well formed.
LEMMA KeyType ==
    ASSUME PlayerTypeOK, NEW p \in Player
    PROVE  [store EXCEPT ![p].key = TRUE] \in
              [Player -> [key : BOOLEAN, hash : BOOLEAN, data : SUBSET Op]]
BY Zenon DEF PlayerTypeOK

-----------------------------------------------------------------------------
(* Type correctness. *)

\* The messages, futures and fields of a gate session stay well formed in its steps.
LEMMA GateTypeStep ==
    ASSUME TypeOK, NEW s \in Session, GateNext(s)
    PROVE  TypeOK'
<1> USE PidAssumption DEF Pid
<1>1. ActorsTypeOK /\ GateTypeOK /\ s \in Pid
    BY DEF TypeOK
<1>2. PlayerTypeOK' /\ LoginTypeOK' /\ kicks' \in Nat
    BY DEF TypeOK, GateNext, PlayerTypeOK, LoginTypeOK, playerVars, loginVars
<1>3. gate[s].playerId \in Player \cup {NoPid}
    BY <1>1 DEF GateTypeOK
<1>4. ASSUME NEW kind \in {"login", "logout"}, NEW who \in Player \cup {NoPid},
             kind = "login" => who \in Player,
             AskLogin(s, kind, who), UNCHANGED life
      PROVE  ActorsTypeOK'
    <2>1. CallMsg(s, kind, who) \in Msg
        BY <1>1, <1>4, CallMsgType DEF Kind
    <2> QED
        BY <1>1, <1>4, <2>1, CastType, AskedType DEF AskLogin, ActorsTypeOK
<1>5. CASE \E p \in Player : C2SLogin(s, p)
    <2>1. ActorsTypeOK'
        BY <1>4, <1>5 DEF C2SLogin
    <2>2. GateTypeOK'
        BY <1>1, <1>5 DEF C2SLogin, ClientSends, GateTypeOK
    <2> QED
        BY <1>2, <2>1, <2>2 DEF TypeOK
<1>6. CASE C2SLogout(s)
    <2>1. ActorsTypeOK'
        BY <1>3, <1>4, <1>6 DEF C2SLogout
    <2>2. GateTypeOK'
        BY <1>1, <1>6 DEF C2SLogout, ClientSends, GateTypeOK
    <2> QED
        BY <1>2, <2>1, <2>2 DEF TypeOK
<1>7. CASE C2SForward(s)
    <2>1. CastMsg("C2S", NoPid) \in Msg
        BY CastMsgType DEF Kind
    <2>2. ActorsTypeOK'
        BY <1>1, <1>7, <2>1, CastType DEF C2SForward, ActorsTypeOK
    <2>3. GateTypeOK'
        BY <1>1, <1>7 DEF C2SForward, ClientSends, GateTypeOK
    <2> QED
        BY <1>2, <2>2, <2>3 DEF TypeOK
<1>8. CASE SessionClosed(s)
    <2>1. ActorsTypeOK'
        BY <1>1, <1>8, StoppingType DEF SessionClosed, ActorsTypeOK
    <2>2. GateTypeOK'
        BY <1>1, <1>8 DEF SessionClosed, GateTypeOK, gateVars
    <2> QED
        BY <1>2, <2>1, <2>2 DEF TypeOK
<1>9. CASE LoginReturns(s)
    <2>1. call[s].ret \in Player \cup {NoPid}
        BY <1>1 DEF ActorsTypeOK, Futures
    <2>2. CastMsg("LoginSuccess", NoPid) \in Msg
        BY CastMsgType DEF Kind
    <2>3. mbox' \in Boxes
        BY <1>1, <1>9, <2>2, CastType DEF LoginReturns, ActorsTypeOK
    <2>4. ActorsTypeOK'
        BY <1>1, <1>9, <2>3, ResumedType DEF LoginReturns, ActorsTypeOK
    <2>5. GateTypeOK'
        BY <1>1, <1>9, <2>1 DEF LoginReturns, GateTypeOK
    <2> QED
        BY <1>2, <2>4, <2>5 DEF TypeOK
<1>10. CASE ForgetReturns(s)
    <2>1. ActorsTypeOK'
        BY <1>1, <1>10, ResumedType DEF ForgetReturns, ActorsTypeOK
    <2>2. GateTypeOK'
        BY <1>1, <1>10 DEF ForgetReturns, GateTypeOK
    <2> QED
        BY <1>2, <2>1, <2>2 DEF TypeOK
<1>11. CASE OnS2CKick(s)
    <2>1. ActorsTypeOK'
        BY <1>1, <1>11, TakenType DEF OnS2CKick, Receives, ActorsTypeOK
    <2>2. GateTypeOK'
        BY <1>1, <1>11 DEF OnS2CKick, GateTypeOK
    <2> QED
        BY <1>2, <2>1, <2>2 DEF TypeOK
<1>12. CASE SessionStopped(s)
    <2> DEFINE left == [mbox EXCEPT ![s] = <<>>]
    <2>1. life' \in Lives
        BY <1>1, <1>12 DEF SessionStopped, ActorsTypeOK, Lives
    <2>2. left \in Boxes
        BY <1>1 DEF ActorsTypeOK, Boxes
    <2>3. CallMsg(s, "disconnect", gate[s].playerId) \in Msg
        BY <1>1, <1>3, CallMsgType DEF Kind
    <2>4. mbox' \in Boxes
        BY <1>12, <2>2, <2>3, CastType DEF SessionStopped
    <2>5. call' \in Futures
        BY <1>1, <1>12, AskedType DEF SessionStopped, ActorsTypeOK
    <2>6. GateTypeOK'
        BY <1>1, <1>12 DEF SessionStopped, GateTypeOK
    <2> QED
        BY <1>2, <2>1, <2>4, <2>5, <2>6 DEF TypeOK, ActorsTypeOK
<1>13. CASE CallTimeout(s) /\ UNCHANGED gateVars
    BY <1>1, <1>2, <1>13, TimeoutType DEF TypeOK, GateTypeOK, gateVars
<1> QED
    BY <1>5, <1>6, <1>7, <1>8, <1>9, <1>10, <1>11, <1>12, <1>13
    DEF GateNext, ClientStep, SessionStep, DelayedClose

\* So do the messages, futures and data of a player in the steps of its actor.
LEMMA PlayerTypeStep ==
    ASSUME TypeOK, NEW p \in Player, PlayerNext(p)
    PROVE  TypeOK'
<1> USE PidAssumption DEF Pid
<1>1. ActorsTypeOK /\ PlayerTypeOK /\ p \in Pid
    BY DEF TypeOK
<1>2. GateTypeOK' /\ LoginTypeOK' /\ kicks' \in Nat
    BY DEF TypeOK, PlayerNext, GateTypeOK, LoginTypeOK, gateVars, loginVars
<1>3. ASSUME NEW kind, Receives(p, kind)
      PROVE  Taken(p) \in Boxes /\ Head(mbox[p]) \in Msg
    BY <1>1, <1>3, TakenType DEF Receives
<1>4. Saved(p) \in [Player -> [key : BOOLEAN, hash : BOOLEAN, data : SUBSET Op]]
    BY <1>1 DEF Saved, PlayerTypeOK
<1>5. CASE OnLoginSuccess(p) \/ OnC2S(p)
    <2>1. ActorsTypeOK'
        BY <1>1, <1>3, <1>5 DEF OnLoginSuccess, OnC2S, ActorsTypeOK
    <2>2. PlayerTypeOK'
        BY <1>1, <1>5, ChangeType DEF OnLoginSuccess, OnC2S
    <2> QED
        BY <1>2, <2>1, <2>2 DEF TypeOK
<1>6. CASE \E q \in Player : OnC2SAsksLogin(p, q)
    <2>1. PICK q \in Player : OnC2SAsksLogin(p, q)
        BY <1>6
    <2>2. CallMsg(p, "castAgent", q) \in Msg
        BY <1>1, CallMsgType DEF Kind
    <2>3. mbox' \in Boxes
        BY <1>3, <2>1, <2>2, CastType DEF OnC2SAsksLogin
    <2>4. ActorsTypeOK'
        BY <1>1, <2>1, <2>3, AskedType DEF OnC2SAsksLogin, ActorsTypeOK
    <2>5. PlayerTypeOK'
        BY <1>1, <2>1, AskingType DEF OnC2SAsksLogin, PlayerTypeOK
    <2> QED
        BY <1>2, <2>4, <2>5 DEF TypeOK
<1>7. CASE C2SReturns(p)
    <2>1. ActorsTypeOK'
        BY <1>1, <1>7, ResumedType DEF C2SReturns, ActorsTypeOK
    <2>2. PlayerTypeOK'
        BY <1>1, <1>7, ChangeType DEF C2SReturns
    <2> QED
        BY <1>2, <2>1, <2>2 DEF TypeOK
<1>8. CASE OnLoginReplace(p)
    <2> DEFINE m == Head(mbox[p])
    <2>1. m \in Msg /\ m.kind = "LoginReplace"
        BY <1>3, <1>8 DEF OnLoginReplace, Receives
    <2>2. m.who \in Session
        BY <2>1 DEF Msg
    <2>3. CastMsg("S2CKick", NoPid) \in Msg
        BY CastMsgType DEF Kind
    <2>4. mbox' \in Boxes
        BY <1>3, <1>8, <2>3, CastType DEF OnLoginReplace
    <2>5. ActorsTypeOK'
        BY <1>1, <1>8, <2>4, RespondedType DEF OnLoginReplace, ActorsTypeOK
    <2>6. PlayerTypeOK'
        BY <1>1, <1>8, <2>2 DEF OnLoginReplace, PlayerTypeOK
    <2> QED
        BY <1>2, <2>5, <2>6 DEF TypeOK
<1>9. CASE \E kind \in {"Logout", "Disconnect"} : OnLogout(p, kind)
    <2>1. ActorsTypeOK'
        BY <1>1, <1>3, <1>9, StoppingType DEF OnLogout, ActorsTypeOK
    <2>2. PlayerTypeOK'
        BY <1>1, <1>4, <1>9 DEF OnLogout, PlayerTypeOK
    <2> QED
        BY <1>2, <2>1, <2>2 DEF TypeOK
<1>10. CASE OnSysKick(p)
    <2>1. CastMsg("S2CKick", NoPid) \in Msg
        BY CastMsgType DEF Kind
    <2>2. ActorsTypeOK'
        BY <1>1, <1>3, <1>10, <2>1, CastType, StoppingType DEF OnSysKick, ActorsTypeOK
    <2>3. PlayerTypeOK'
        BY <1>1, <1>4, <1>10 DEF OnSysKick, PlayerTypeOK
    <2> QED
        BY <1>2, <2>2, <2>3 DEF TypeOK
<1>11. CASE PlayerStopped(p)
    <2>1. ActorsTypeOK'
        BY <1>1, <1>11 DEF PlayerStopped, ActorsTypeOK, Boxes, Lives
    <2>2. PlayerTypeOK'
        BY <1>1, <1>11 DEF PlayerStopped, PlayerTypeOK, NoModel
    <2> QED
        BY <1>2, <2>1, <2>2 DEF TypeOK
<1>12. CASE CallTimeout(p) /\ UNCHANGED playerVars
    BY <1>1, <1>2, <1>12, TimeoutType DEF TypeOK, PlayerTypeOK, playerVars
<1> QED
    BY <1>5, <1>6, <1>7, <1>8, <1>9, <1>10, <1>11, <1>12 DEF PlayerNext, PlayerStep

\* So do the directory and the request in progress in the steps of Login.
LEMMA LoginTypeStep ==
    ASSUME TypeOK, LoginNext
    PROVE  TypeOK'
<1> USE PidAssumption DEF Pid
<1>1. ActorsTypeOK /\ PlayerTypeOK /\ LoginTypeOK /\ LoginPid \in Pid
    BY DEF TypeOK
<1>2. GateTypeOK' /\ kicks' \in Nat
    BY DEF TypeOK, LoginNext, GateTypeOK, gateVars
<1>3. ASSUME NEW kind, Handles(kind)
      PROVE  /\ Taken(LoginPid) \in Boxes
             /\ Request \in Msg /\ Request.kind = kind
    BY <1>1, <1>3, TakenType DEF Handles, Receives, Request
<1>4. Request \in Msg /\ Request.kind = "login" =>
          Request.from \in Session /\ Request.who \in Player
    BY DEF Msg
<1>5. ls.phase # "idle" => TheSession \in Session /\ ThePlayer \in Player
    BY <1>1 DEF LoginTypeOK, Msg, TheSession, ThePlayer, NoRequest, CastMsg
<1>6. IdleLogin \in [phase : {"idle", "replacing", "loaded", "born", "created"},
                     req : Msg \cup {NoRequest}, snap : SUBSET Op]
      /\ IdleLogin.phase = "idle"
    BY DEF IdleLogin
<1>7. ASSUME UNCHANGED <<players, stale>>, ls' = IdleLogin \/ UNCHANGED ls
      PROVE  LoginTypeOK'
    BY <1>1, <1>6, <1>7 DEF LoginTypeOK
<1>8. PlayerTypeOK' \/ ~UNCHANGED playerVars
    BY <1>1 DEF PlayerTypeOK, playerVars
<1>9. CASE LoginFails \/ LoginCastAgent
    <2>1. ActorsTypeOK'
        BY <1>1, <1>3, <1>9, RespondedType
        DEF LoginFails, LoginCastAgent, Answer, ActorsTypeOK
    <2> QED
        BY <1>2, <1>7, <1>8, <1>9, <2>1 DEF LoginFails, LoginCastAgent, loginVars, TypeOK
<1>10. CASE LoginOnline
    <2>1. CallMsg(LoginPid, "LoginReplace", Request.from) \in Msg
        BY <1>1, <1>3, <1>4, <1>10, CallMsgType DEF LoginOnline, Kind
    <2>2. mbox' \in Boxes
        BY <1>3, <1>10, <2>1, CastType DEF LoginOnline
    <2>3. ActorsTypeOK'
        BY <1>1, <1>10, <2>2, AskedType DEF LoginOnline, ActorsTypeOK
    <2>4. LoginTypeOK'
        BY <1>1, <1>3, <1>10 DEF LoginOnline, LoginTypeOK
    <2> QED
        BY <1>2, <1>8, <1>10, <2>3, <2>4 DEF LoginOnline, TypeOK
<1>11. CASE LoginReplaced
    <2>1. call[LoginPid].ret \in Player \cup {NoPid}
        BY <1>1 DEF ActorsTypeOK, Futures
    <2>2. ActorsTypeOK'
        BY <1>1, <1>11, <2>1, RespondedType, ResumedType DEF LoginReplaced, ActorsTypeOK
    <2> QED
        BY <1>2, <1>7, <1>8, <1>11, <2>2 DEF LoginReplaced, TypeOK
<1>12. CASE LoginLoad
    <2>1. ActorsTypeOK'
        BY <1>1, <1>3, <1>12 DEF LoginLoad, ActorsTypeOK
    <2>2. store[Request.who].data \in SUBSET Op
        BY <1>1, <1>3, <1>4, <1>12 DEF LoginLoad, PlayerTypeOK
    <2>3. LoginTypeOK'
        BY <1>1, <1>3, <1>12, <2>2 DEF LoginLoad, LoginTypeOK
    <2> QED
        BY <1>2, <1>8, <1>12, <2>1, <2>3 DEF LoginLoad, TypeOK
<1>13. CASE LoginBorn
    <2>1. ActorsTypeOK'
        BY <1>1, <1>3, <1>13 DEF LoginBorn, ActorsTypeOK
    <2>2. PlayerTypeOK'
        <3>1. Request.who \in Player
            BY <1>3, <1>4, <1>13 DEF LoginBorn
        <3> QED
            BY <1>1, <1>13, <3>1, KeyType DEF LoginBorn, PlayerTypeOK
    <2>3. LoginTypeOK'
        BY <1>1, <1>3, <1>13 DEF LoginBorn, LoginTypeOK
    <2> QED
        BY <1>2, <1>13, <2>1, <2>2, <2>3 DEF TypeOK
<1>14. CASE LoginBornFails \/ LoginNameTaken
    <2>1. ActorsTypeOK'
        BY <1>1, <1>14, RespondedType DEF LoginBornFails, LoginNameTaken, ActorsTypeOK
    <2> QED
        BY <1>2, <1>7, <1>8, <1>14, <2>1 DEF LoginBornFails, LoginNameTaken, TypeOK
<1>15. CASE LoginCreate
    <2>1. TheSession \in Session /\ ThePlayer \in Player /\ ls.snap \in SUBSET Op
        BY <1>1, <1>5, <1>15 DEF LoginCreate, LoginTypeOK
    <2>2. ActorsTypeOK'
        BY <1>1, <1>15 DEF LoginCreate, ActorsTypeOK, Lives
    <2>3. PlayerTypeOK'
        BY <1>1, <1>15, <2>1 DEF LoginCreate, PlayerTypeOK
    <2>4. LoginTypeOK'
        BY <1>1, <1>15, <2>1 DEF LoginCreate, LoginTypeOK
    <2> QED
        BY <1>2, <2>2, <2>3, <2>4 DEF TypeOK
<1>16. CASE LoginCreated
    <2>1. ActorsTypeOK'
        BY <1>1, <1>5, <1>16, RespondedType DEF LoginCreated, ActorsTypeOK
    <2>2. PlayerTypeOK' /\ LoginTypeOK'
        BY <1>1, <1>5, <1>6, <1>16 DEF LoginCreated, PlayerTypeOK, LoginTypeOK, playerVars
    <2> QED
        BY <1>2, <2>1, <2>2 DEF TypeOK
<1>17. CASE LoginLogout \/ LoginDisconnect
    <2>1. PICK kind \in {"logout", "disconnect"}, told \in {"Logout", "Disconnect"} :
               Forget(kind, told)
        BY <1>17 DEF LoginLogout, LoginDisconnect
    <2>2. CastMsg(told, NoPid) \in Msg
        BY CastMsgType DEF Kind
    <2>3. mbox' \in Boxes
        BY <1>3, <2>1, <2>2, CastType DEF Forget
    <2>4. ActorsTypeOK'
        BY <1>1, <2>1, <2>3, RespondedType DEF Forget, ActorsTypeOK
    <2>5. LoginTypeOK'
        BY <1>1, <2>1 DEF Forget, LoginTypeOK
    <2> QED
        BY <1>2, <1>8, <2>1, <2>4, <2>5 DEF Forget, TypeOK
<1>18. CASE LoginSysKick
    <2>1. CastMsg("SysKick", NoPid) \in Msg
        BY CastMsgType DEF Kind
    <2>2. ActorsTypeOK'
        BY <1>1, <1>3, <1>18, <2>1, CastType DEF LoginSysKick, ActorsTypeOK
    <2> QED
        BY <1>2, <1>7, <1>8, <1>18, <2>2 DEF LoginSysKick, loginVars, TypeOK
<1>19. CASE CallTimeout(LoginPid) /\ UNCHANGED <<playerVars, loginVars>>
    BY <1>1, <1>2, <1>7, <1>8, <1>19, TimeoutType DEF loginVars, TypeOK
<1> QED
    BY <1>9, <1>10, <1>11, <1>12, <1>13, <1>14, <1>15, <1>16, <1>17, <1>18, <1>19
    DEF LoginNext, LoginStep

\* A GM kick leaves the types alone.
LEMMA KickTypeStep ==
    ASSUME TypeOK, NEW p \in Player, GMKick(p)
    PROVE  TypeOK'
<1>1. CastMsg("sysKick", p) \in Msg
    BY CastMsgType DEF Kind, Pid
<1>2. ActorsTypeOK'
    BY <1>1, CastType DEF TypeOK, GMKick, ActorsTypeOK
<1> QED
    BY <1>2 DEF TypeOK, GMKick, GateTypeOK, PlayerTypeOK, LoginTypeOK,
                gateVars, playerVars, loginVars

\* A step that changes nothing leaves the types alone.
LEMMA StutterType == TypeOK /\ UNCHANGED vars => TypeOK'
BY DEF TypeOK, vars, ActorsTypeOK, GateTypeOK, PlayerTypeOK, LoginTypeOK,
       actorVars, gateVars, playerVars, loginVars

\* TypeOK is inductive.
LEMMA TypeStep == TypeOK /\ [Next]_vars => TypeOK'
BY GateTypeStep, PlayerTypeStep, LoginTypeStep, KickTypeStep, StutterType DEF Next

\* The system starts well typed.
LEMMA TypeInit == Init => TypeOK
<1> SUFFICES ASSUME Init PROVE TypeOK
    OBVIOUS
<1>1. ActorsTypeOK
    BY DEF Init, ActorsTypeOK, Boxes, Lives, Futures
<1>2. GateTypeOK /\ PlayerTypeOK
    BY DEF Init, GateInit, GateTypeOK, PlayerInit, PlayerTypeOK, NoModel
<1>3. LoginTypeOK
    BY DEF Init, LoginInit, LoginTypeOK, IdleLogin
<1> QED
    BY <1>1, <1>2, <1>3 DEF Init, TypeOK

\* Every message, future and field stays well formed: a player's session is a
\* session, a login answer is a player or nothing.
THEOREM TypeCorrect == Spec => []TypeOK
BY TypeInit, TypeStep, PTL DEF Spec

-----------------------------------------------------------------------------
(* What waits in a mailbox after a cast and after a receive. *)

\* A message is added at the end: the mailbox has its kind and what it had.
LEMMA HasAppend ==
    ASSUME NEW box \in Seq(Msg), NEW m \in Msg, NEW k
    PROVE  Has(Append(box, m), k) <=> Has(box, k) \/ m.kind = k
<1>1. Len(Append(box, m)) = Len(box) + 1 /\ Append(box, m)[Len(box) + 1] = m
    OBVIOUS
<1>2. \A i \in DOMAIN box : Append(box, m)[i] = box[i] /\ i \in DOMAIN Append(box, m)
    OBVIOUS
<1>3. \A i \in DOMAIN Append(box, m) : i \in DOMAIN box \/ i = Len(box) + 1
    OBVIOUS
<1>4. Len(box) + 1 \in DOMAIN Append(box, m)
    OBVIOUS
<1> QED
    BY <1>1, <1>2, <1>3, <1>4, Zenon DEF Has

\* The head is taken: what the mailbox had was the head's kind or is still there.
LEMMA HasTail ==
    ASSUME NEW box \in Seq(Msg), box # <<>>, NEW k
    PROVE  Has(box, k) <=> Head(box).kind = k \/ Has(Tail(box), k)
<1>1. \A i \in DOMAIN Tail(box) : i + 1 \in DOMAIN box /\ Tail(box)[i] = box[i + 1]
    OBVIOUS
<1>2. \A i \in DOMAIN box : i = 1 \/ (i - 1 \in DOMAIN Tail(box) /\ Tail(box)[i - 1] = box[i])
    OBVIOUS
<1>3. 1 \in DOMAIN box /\ Head(box) = box[1]
    OBVIOUS
<1> QED
    BY <1>1, <1>2, <1>3, Zenon DEF Has

\* A cast adds its kind to the mailbox of a registered target and nothing elsewhere.
LEMMA HasCast ==
    ASSUME NEW boxes \in Boxes, NEW to, NEW m \in Msg, NEW a \in Pid, NEW k
    PROVE  Has(Cast(boxes, to, m)[a], k) <=>
              Has(boxes[a], k) \/ (a = to /\ life[to] # "none" /\ m.kind = k)
<1>1. CASE a = to /\ life[to] # "none"
    <2>1. Cast(boxes, to, m)[a] = Append(boxes[a], m)
        BY <1>1 DEF Cast, Boxes
    <2> QED
        BY <1>1, <2>1, HasAppend DEF Boxes
<1>2. CASE ~(a = to /\ life[to] # "none")
    <2>1. Cast(boxes, to, m)[a] = boxes[a]
        BY <1>2 DEF Cast, Boxes
    <2> QED
        BY <1>2, <2>1
<1> QED
    BY <1>1, <1>2

\* A receive takes at most its own kind out of the receiver's mailbox.
LEMMA HasTaken ==
    ASSUME ActorsTypeOK, NEW a \in Pid, mbox[a] # <<>>, NEW b \in Pid, NEW k
    PROVE  Queued(b, k) <=> Has(Taken(a)[b], k) \/ (a = b /\ Head(mbox[a]).kind = k)
<1>1. CASE a = b
    <2>1. Taken(a)[b] = Tail(mbox[a])
        BY <1>1 DEF Taken, ActorsTypeOK, Boxes
    <2> QED
        BY <1>1, <2>1, HasTail DEF Queued, ActorsTypeOK, Boxes
<1>2. CASE a # b
    BY <1>2 DEF Taken, Queued, ActorsTypeOK, Boxes
<1> QED
    BY <1>1, <1>2

\* What is sent to a free name stays nowhere.
LEMMA DeadLetter ==
    ASSUME NEW boxes \in Boxes, NEW to, NEW m, NEW a \in Pid, life[a] = "none"
    PROVE  Cast(boxes, to, m)[a] = boxes[a]
BY DEF Cast, Boxes

\* The request in progress is a session's, and it is for a player.
LEMMA RequestType ==
    ASSUME TypeOK, ls.phase # "idle"
    PROVE  TheSession \in Session /\ ThePlayer \in Player
BY DEF TypeOK, LoginTypeOK, Msg, TheSession, ThePlayer, NoRequest, CastMsg

\* So is a login request at the head of Login's mailbox.
LEMMA HeadLogin ==
    ASSUME TypeOK, Handles("login")
    PROVE  Request \in Msg /\ Request.from \in Session /\ Request.who \in Player
BY TakenType DEF TypeOK, Handles, Receives, Request, Msg, Pid

-----------------------------------------------------------------------------
(* Most steps leave alone what SessionInv is about. *)

StopOrder == {"Logout", "Disconnect", "SysKick"}

\* No stop order comes or goes at player p, and no mail comes to a free name.
SameMail(p) ==
    /\ \A k \in StopOrder : Queued(p, k)' <=> Queued(p, k)
    /\ life[p] = "none" /\ mbox[p] = <<>> => mbox'[p] = <<>>

\* p's data gains some changes, only if its actor runs, and Redis gains none.
GainsChanges(p) == \E new \in SUBSET Op :
    /\ pl'[p].data = pl[p].data \cup new
    /\ done'[p] = done[p] \cup new
    /\ life[p] = "live" \/ new = {}

\* The request in progress stays, or there is none that creates a player.
SameRequest ==
    ls' = ls \/ (ls.phase # "created" /\ ls'.phase \notin {"loaded", "born", "created"})

Quiet ==
    /\ UNCHANGED <<players, stale, store, gmKicked>>
    /\ SameRequest
    /\ \A p \in Player : life'[p] = life[p] /\ SameMail(p) /\ GainsChanges(p)

\* A step of that sort preserves the whole invariant.
LEMMA QuietInv ==
    ASSUME SessionInv, Quiet, TypeOK', AskingRuns'
    PROVE  SessionInv'
<1>1. \A p \in Player : life'[p] = life[p] /\ (Condemned(p)' <=> Condemned(p))
    BY DEF Quiet, SameMail, StopOrder, Condemned
<1>2. \A p \in Player : BeingCreated(p)' <=> BeingCreated(p)
    BY DEF Quiet, SameRequest, BeingCreated, ThePlayer
<1>3. FreeNameHasNoMail'
    BY DEF SessionInv, FreeNameHasNoMail, Quiet, SameMail
<1>4. CreatingIsQuiet'
    BY <1>1, <1>2 DEF SessionInv, CreatingIsQuiet, Quiet, SameRequest, SameMail, StopOrder,
                      ThePlayer
<1>5. HoldsAll'
    BY <1>1 DEF SessionInv, HoldsAll, Quiet, GainsChanges
<1>6. NoZombie'
    BY <1>1, <1>2 DEF SessionInv, NoZombie, Quiet
<1>7. EntryIsAlive'
    BY <1>1 DEF SessionInv, EntryIsAlive, Quiet, TypeOK, LoginTypeOK
<1>8. NothingLost'
    <2> SUFFICES ASSUME NEW p \in Player \ stale
                 PROVE  done'[p] \subseteq store[p].data \cup
                           (IF life[p] = "live" THEN pl'[p].data ELSE {})
        BY <1>1 DEF NothingLost, Quiet
    <2>1. PICK new \in SUBSET Op :
              /\ pl'[p].data = pl[p].data \cup new
              /\ done'[p] = done[p] \cup new
              /\ life[p] = "live" \/ new = {}
        BY DEF Quiet, GainsChanges
    <2>2. done[p] \subseteq store[p].data \cup (IF life[p] = "live" THEN pl[p].data ELSE {})
        BY DEF SessionInv, NothingLost
    <2> QED
        BY <2>1, <2>2
<1>9. KnownPlayers'
    BY DEF SessionInv, KnownPlayers, Quiet, SameRequest, ThePlayer
<1> QED
    BY <1>3, <1>4, <1>5, <1>6, <1>7, <1>8, <1>9 DEF SessionInv

\* It does not move anybody in the cycle.
LEMMA QuietPhase ==
    ASSUME Quiet, NEW p \in Player
    PROVE  PhaseOf(p)' = PhaseOf(p)
<1>1. life'[p] = life[p] /\ players' = players
    BY DEF Quiet
<1>2. BeingCreated(p)' <=> BeingCreated(p)
    BY DEF Quiet, SameRequest, BeingCreated, ThePlayer
<1> QED
    BY <1>1, <1>2 DEF PhaseOf

-----------------------------------------------------------------------------
(* The quiet steps. *)

\* Mail that is no stop order, put in an otherwise unchanged set of mailboxes.
LEMMA CastSameMail ==
    ASSUME TypeOK, NEW to, NEW m \in Msg, m.kind \notin StopOrder,
           NEW p \in Player, mbox' = Cast(mbox, to, m)
    PROVE  SameMail(p)
<1>1. mbox \in Boxes /\ p \in Pid
    BY DEF TypeOK, ActorsTypeOK, Pid
<1>2. \A k \in StopOrder : Queued(p, k)' <=> Queued(p, k)
    BY <1>1, HasCast DEF Queued
<1>3. life[p] = "none" => mbox'[p] = mbox[p]
    BY <1>1, DeadLetter
<1> QED
    BY <1>2, <1>3 DEF SameMail

\* The same, after actor a has taken a message that is no stop order either.
LEMMA TakenSameMail ==
    ASSUME TypeOK, NEW a \in Pid, mbox[a] # <<>>, Head(mbox[a]).kind \notin StopOrder,
           a \in Player => life[a] # "none", NEW p \in Player,
           mbox' = Taken(a) \/ \E to \in Pid \cup {NoPid}, m \in Msg :
                                    m.kind \notin StopOrder /\ mbox' = Cast(Taken(a), to, m)
    PROVE  SameMail(p)
<1>1. ActorsTypeOK /\ Taken(a) \in Boxes /\ p \in Pid
    BY TakenType DEF TypeOK, Pid
<1>2. \A k \in StopOrder : Has(Taken(a)[p], k) <=> Queued(p, k)
    BY <1>1, HasTaken
<1>3. life[p] = "none" => Taken(a)[p] = mbox[p]
    BY <1>1 DEF Taken, ActorsTypeOK, Boxes
<1>4. CASE mbox' = Taken(a)
    BY <1>2, <1>3, <1>4 DEF SameMail, Queued
<1>5. CASE \E to \in Pid \cup {NoPid}, m \in Msg :
              m.kind \notin StopOrder /\ mbox' = Cast(Taken(a), to, m)
    <2>1. PICK to \in Pid \cup {NoPid}, m \in Msg :
              m.kind \notin StopOrder /\ mbox' = Cast(Taken(a), to, m)
        BY <1>5
    <2>2. \A k \in StopOrder : Queued(p, k)' <=> Queued(p, k)
        BY <1>1, <1>2, <2>1, HasCast DEF Queued
    <2>3. life[p] = "none" => mbox'[p] = mbox[p]
        BY <1>1, <1>3, <2>1, DeadLetter
    <2> QED
        BY <2>2, <2>3 DEF SameMail
<1> QED
    BY <1>4, <1>5

\* No change is lost or gained where nobody touches the data.
LEMMA NoGain ==
    ASSUME TypeOK, NEW p \in Player, pl'[p].data = pl[p].data, UNCHANGED done
    PROVE  GainsChanges(p)
<1>1. {} \in SUBSET Op /\ pl[p].data \cup {} = pl[p].data /\ done[p] \cup {} = done[p]
    OBVIOUS
<1> QED
    BY <1>1 DEF GainsChanges

\* Every step of a gate session is quiet: it only sends requests to Login and
\* client messages to players.
LEMMA GateQuiet ==
    ASSUME TypeOK, NEW s \in Session, GateNext(s)
    PROVE  Quiet
<1>1. ActorsTypeOK /\ s \in Pid /\ s \notin Player /\ LoginPid \in Pid /\ Player \subseteq Pid
    BY PidAssumption DEF TypeOK, Pid
<1>2. UNCHANGED <<pl, done, players, stale, store, gmKicked, ls>>
    BY DEF GateNext, playerVars, loginVars
<1>3. \A p \in Player : life'[p] = life[p]
    BY <1>1 DEF GateNext, ClientStep, SessionStep, DelayedClose, C2SLogin, C2SLogout, C2SForward,
        SessionClosed, LoginReturns, ForgetReturns, OnS2CKick, SessionStopped, CallTimeout,
        Stopping, ActorsTypeOK, Lives
<1>4. SUFFICES ASSUME NEW p \in Player
               PROVE  SameMail(p)
    BY <1>2, <1>3, NoGain DEF Quiet, SameRequest
<1>5. CASE UNCHANGED mbox
    BY <1>5 DEF SameMail, Queued
<1>6. ASSUME NEW kind \in {"login", "logout"}, NEW who \in Player \cup {NoPid},
             kind = "login" => who \in Player, AskLogin(s, kind, who)
      PROVE  SameMail(p)
    <2>1. CallMsg(s, kind, who) \in Msg /\ CallMsg(s, kind, who).kind = kind
        BY <1>1, <1>6, CallMsgType DEF Kind, CallMsg
    <2> QED
        BY <1>6, <2>1, CastSameMail DEF AskLogin, StopOrder
<1>7. CASE (\E q \in Player : C2SLogin(s, q)) \/ C2SLogout(s)
    BY <1>6, <1>7 DEF C2SLogin, C2SLogout, TypeOK, GateTypeOK
<1>8. CASE LoginReturns(s) \/ C2SForward(s)
    <2>1. \A kind \in {"LoginSuccess", "C2S"} :
              CastMsg(kind, NoPid) \in Msg /\ CastMsg(kind, NoPid).kind \notin StopOrder
        BY CastMsgType DEF Kind, CastMsg, StopOrder
    <2>2. UNCHANGED mbox \/ \E to, kind : kind \in {"LoginSuccess", "C2S"}
                                        /\ mbox' = Cast(mbox, to, CastMsg(kind, NoPid))
        BY <1>8 DEF LoginReturns, C2SForward
    <2> QED
        BY <1>5, <2>1, <2>2, CastSameMail
<1>9. CASE OnS2CKick(s)
    BY <1>1, <1>9, TakenSameMail DEF OnS2CKick, Receives, StopOrder
<1>10. CASE SessionStopped(s)
    <2> DEFINE left == [mbox EXCEPT ![s] = <<>>]
    <2>1. left \in Boxes /\ left[p] = mbox[p]
        BY <1>1 DEF ActorsTypeOK, Boxes
    <2>2. mbox' = left \/ mbox' = Cast(left, LoginPid, CallMsg(s, "disconnect", gate[s].playerId))
        BY <1>10 DEF SessionStopped
    <2>3. mbox'[p] = left[p]
        BY <1>1, <2>1, <2>2, PidAssumption DEF Cast, Boxes
    <2> QED
        BY <2>1, <2>3 DEF SameMail, Queued
<1> QED
    BY <1>5, <1>7, <1>8, <1>9, <1>10
    DEF GateNext, ClientStep, SessionStep, DelayedClose, SessionClosed, ForgetReturns, CallTimeout

\* So is a GM kick: it is a request to Login.
LEMMA KickQuiet ==
    ASSUME TypeOK, NEW q \in Player, GMKick(q)
    PROVE  Quiet
<1>1. CastMsg("sysKick", q) \in Msg /\ CastMsg("sysKick", q).kind \notin StopOrder
    BY CastMsgType DEF Kind, CastMsg, StopOrder, Pid
<1> QED
    BY <1>1, CastSameMail, NoGain
    DEF GMKick, Quiet, SameRequest, playerVars, loginVars

\* The steps of a player that neither save nor stop are quiet.
LEMMA PlayerQuiet ==
    ASSUME TypeOK, AskingRuns, NEW q \in Player, UNCHANGED loginVars,
           \/ OnLoginSuccess(q) \/ OnC2S(q) \/ C2SReturns(q) \/ OnLoginReplace(q)
           \/ \E r \in Player : OnC2SAsksLogin(q, r)
           \/ CallTimeout(q) /\ UNCHANGED playerVars
    PROVE  Quiet
<1>1. ActorsTypeOK /\ PlayerTypeOK /\ q \in Pid /\ LoginPid \in Pid /\ Player \subseteq Pid
    BY DEF TypeOK, Pid
<1>2. UNCHANGED <<life, players, stale, store, gmKicked, ls>>
    BY DEF OnLoginSuccess, OnC2S, C2SReturns, OnLoginReplace, OnC2SAsksLogin, CallTimeout,
           Change, playerVars, loginVars
<1>3. ASSUME Change(q), life[q] = "live", NEW p \in Player
      PROVE  GainsChanges(p)
    <2>1. PICK new \in Fresh :
              /\ pl' = [pl EXCEPT ![q].data = @ \cup new, ![q].asking = FALSE]
              /\ done' = [done EXCEPT ![q] = @ \cup new]
        BY <1>3 DEF Change
    <2>2. new \in SUBSET Op
        BY DEF Fresh
    <2>3. CASE p = q
        BY <1>1, <1>3, <2>1, <2>2, <2>3 DEF GainsChanges, PlayerTypeOK
    <2>4. CASE p # q
        <3>1. pl'[p].data = pl[p].data /\ done'[p] = done[p]
            BY <1>1, <2>1, <2>4 DEF PlayerTypeOK
        <3>2. {} \in SUBSET Op /\ pl[p].data \cup {} = pl[p].data /\ done[p] \cup {} = done[p]
            OBVIOUS
        <3> QED
            BY <3>1, <3>2 DEF GainsChanges
    <2> QED
        BY <2>3, <2>4
<1>4. ASSUME NEW p \in Player
      PROVE  GainsChanges(p)
    <2>1. CASE OnLoginSuccess(q) \/ OnC2S(q)
        BY <1>3, <2>1 DEF OnLoginSuccess, OnC2S, Receives
    <2>2. CASE C2SReturns(q)
        BY <1>3, <2>2 DEF C2SReturns, AskingRuns
    <2>3. CASE OnLoginReplace(q)
        BY <1>1, <2>3, NoGain DEF OnLoginReplace, PlayerTypeOK
    <2>4. CASE \E r \in Player : OnC2SAsksLogin(q, r)
        BY <1>1, <2>4, NoGain DEF OnC2SAsksLogin, PlayerTypeOK
    <2>5. CASE UNCHANGED playerVars
        BY <2>5, NoGain DEF playerVars
    <2> QED
        BY <2>1, <2>2, <2>3, <2>4, <2>5
<1>5. ASSUME NEW p \in Player
      PROVE  SameMail(p)
    <2>1. CASE OnLoginSuccess(q) \/ OnC2S(q)
        BY <1>1, <2>1, TakenSameMail DEF OnLoginSuccess, OnC2S, Receives, StopOrder
    <2>2. CASE UNCHANGED mbox
        BY <2>2 DEF SameMail, Queued
    <2>3. CASE OnLoginReplace(q)
        <3>1. /\ CastMsg("S2CKick", NoPid) \in Msg
              /\ CastMsg("S2CKick", NoPid).kind \notin StopOrder
            BY CastMsgType DEF Kind, CastMsg, StopOrder
        <3>2. pl[q].session \in Pid \cup {NoPid}
            BY <1>1 DEF PlayerTypeOK, Pid
        <3> QED
            BY <1>1, <2>3, <3>1, <3>2, TakenSameMail DEF OnLoginReplace, Receives, StopOrder
    <2>4. CASE \E r \in Player : OnC2SAsksLogin(q, r)
        <3>1. PICK r \in Player : OnC2SAsksLogin(q, r)
            BY <2>4
        <3>2. /\ CallMsg(q, "castAgent", r) \in Msg
              /\ CallMsg(q, "castAgent", r).kind \notin StopOrder
            BY <1>1, CallMsgType DEF Kind, CallMsg, StopOrder
        <3> QED
            BY <1>1, <3>1, <3>2, TakenSameMail DEF OnC2SAsksLogin, Receives, StopOrder
    <2> QED
        BY <2>1, <2>2, <2>3, <2>4 DEF C2SReturns, CallTimeout
<1> QED
    BY <1>2, <1>4, <1>5 DEF Quiet, SameRequest

\* So are the steps of Login that answer a request, or ask a player that is online.
LEMMA LoginQuiet ==
    ASSUME TypeOK,
           \/ LoginFails \/ LoginOnline \/ LoginReplaced \/ LoginBornFails
           \/ LoginNameTaken \/ LoginCastAgent
           \/ CallTimeout(LoginPid) /\ UNCHANGED <<playerVars, loginVars>>
    PROVE  Quiet
<1>1. ActorsTypeOK /\ LoginPid \in Pid /\ LoginPid \notin Player /\ Player \subseteq Pid
    BY PidAssumption DEF TypeOK, Pid
<1>2. UNCHANGED <<life, players, stale, playerVars>>
    BY DEF LoginFails, LoginOnline, LoginReplaced, LoginBornFails, LoginNameTaken,
           LoginCastAgent, CallTimeout, Answer, loginVars
<1>3. SameRequest
    <2>1. CASE UNCHANGED ls
        BY <2>1 DEF SameRequest
    <2>2. CASE ls' = IdleLogin /\ ls.phase # "created"
        BY <2>2 DEF SameRequest, IdleLogin
    <2>3. CASE LoginOnline
        <3>1. ls.phase = "idle" /\ ls'.phase = "replacing"
            BY <2>3 DEF LoginOnline, Handles, TypeOK, LoginTypeOK
        <3> QED
            BY <3>1 DEF SameRequest
    <2> QED
        BY <2>1, <2>2, <2>3 DEF LoginFails, LoginReplaced, LoginBornFails, LoginNameTaken,
                                LoginCastAgent, loginVars
<1>4. ASSUME NEW p \in Player
      PROVE  SameMail(p)
    <2>1. CASE LoginFails \/ LoginCastAgent
        BY <1>1, <2>1, TakenSameMail
        DEF LoginFails, LoginCastAgent, Answer, Handles, Receives, StopOrder
    <2>2. CASE UNCHANGED mbox
        BY <2>2 DEF SameMail, Queued
    <2>3. CASE LoginOnline
        <3>1. Request \in Msg /\ Request.kind = "login"
            BY <1>1, <2>3, TakenType DEF LoginOnline, Handles, Receives, Request
        <3>2. Request.from \in Session /\ Request.who \in Player
            BY <3>1 DEF Msg
        <3>3. /\ CallMsg(LoginPid, "LoginReplace", Request.from) \in Msg
              /\ CallMsg(LoginPid, "LoginReplace", Request.from).kind \notin StopOrder
            BY <1>1, <3>2, CallMsgType DEF Kind, CallMsg, StopOrder, Pid
        <3> QED
            BY <1>1, <2>3, <3>2, <3>3, TakenSameMail
            DEF LoginOnline, Handles, Receives, StopOrder
    <2> QED
        BY <2>1, <2>2, <2>3 DEF LoginReplaced, LoginBornFails, LoginNameTaken, CallTimeout
<1> QED
    BY <1>2, <1>3, <1>4, NoGain DEF Quiet, playerVars

\* So is a step that changes nothing.
LEMMA StutterQuiet == TypeOK /\ UNCHANGED vars => Quiet
BY NoGain DEF vars, actorVars, playerVars, loginVars, Quiet, SameRequest, SameMail, Queued

-----------------------------------------------------------------------------
\* A player is in the middle of a call only while its actor runs and is blocked.
LEMMA AskingStep ==
    ASSUME TypeOK, AskingRuns, [Next]_vars
    PROVE  AskingRuns'
<1>1. ActorsTypeOK /\ PlayerTypeOK /\ LoginPid \in Pid /\ Player \subseteq Pid /\ Session \subseteq Pid
    BY DEF TypeOK, Pid
<1>2. SUFFICES ASSUME NEW p \in Player, pl'[p].asking
               PROVE  life'[p] = "live" /\ Blocked(p)'
    BY DEF AskingRuns
<1>3. p \in Pid /\ p # LoginPid /\ p \notin Session
    BY <1>1, PidAssumption
<1>4. \A m, ret : Blocked(p) /\ call' = Responded(m, ret) => Blocked(p)'
    BY <1>1, <1>3 DEF Responded, Blocked, ActorsTypeOK, Futures
<1>5. \A a, to : a # p /\ call' = Asked(a, to) => call'[p] = call[p]
    BY <1>1, <1>3 DEF Asked, ActorsTypeOK, Futures
<1>6. \A a : a # p /\ CallTimeout(a) => call'[p] = call[p]
    BY <1>1, <1>3 DEF CallTimeout, ActorsTypeOK, Futures
<1>7. pl[p].asking => life[p] = "live" /\ Blocked(p)
    BY DEF AskingRuns
<1>8. CASE \E s \in Session : GateNext(s)
    <2>1. PICK s \in Session : GateNext(s)
        BY <1>8
    <2>2. pl' = pl /\ life'[p] = life[p]
        BY <2>1, GateQuiet DEF GateNext, playerVars, Quiet
    <2>3. \A c : call' = Resumed(call, s) => call'[p] = call[p]
        BY <1>1, <1>3, <2>1 DEF Resumed, ActorsTypeOK, Futures
    <2>4. call'[p] = call[p]
        BY <1>3, <1>5, <1>6, <2>1, <2>3
        DEF GateNext, ClientStep, SessionStep, DelayedClose, C2SLogin, C2SLogout, C2SForward,
            SessionClosed, LoginReturns, ForgetReturns, OnS2CKick, SessionStopped, AskLogin
    <2> QED
        BY <1>2, <1>7, <2>2, <2>4 DEF Blocked
<1>9. CASE \E q \in Player : PlayerNext(q) /\ q # p
    <2>1. PICK q \in Player : PlayerNext(q) /\ q # p
        BY <1>9
    <2>2. pl'[p].asking = pl[p].asking /\ life'[p] = life[p]
        BY <1>1, <1>3, <2>1
        DEF PlayerNext, PlayerStep, OnLoginSuccess, OnC2S, OnC2SAsksLogin, C2SReturns,
            OnLoginReplace, OnLogout, OnSysKick, PlayerStopped, CallTimeout, Change, Stopping,
            playerVars, PlayerTypeOK, ActorsTypeOK, Lives
    <2>3. call' = Resumed(call, q) => call'[p] = call[p]
        BY <1>1, <1>3, <2>1 DEF Resumed, ActorsTypeOK, Futures
    <2>4. Blocked(p) => Blocked(p)'
        BY <1>4, <1>5, <1>6, <2>1, <2>3
        DEF PlayerNext, PlayerStep, OnLoginSuccess, OnC2S, OnC2SAsksLogin, C2SReturns,
            OnLoginReplace, OnLogout, OnSysKick, PlayerStopped, Blocked
    <2> QED
        BY <1>2, <1>7, <2>2, <2>4
<1>10. CASE PlayerNext(p)
    <2>1. \A kind : Receives(p, kind) => life[p] = "live" /\ ~pl[p].asking
        BY <1>7 DEF Receives
    <2>2. \A new : pl' = [pl EXCEPT ![p].data = @ \cup new, ![p].asking = FALSE] => ~pl'[p].asking
        BY <1>1 DEF PlayerTypeOK
    <2>3. ~Change(p)
        BY <1>2, <2>2 DEF Change
    <2>4. CASE \E r \in Player : OnC2SAsksLogin(p, r)
        <3>1. life'[p] = "live" /\ call' = Asked(p, LoginPid)
            BY <2>1, <2>4 DEF OnC2SAsksLogin
        <3> QED
            BY <1>1, <1>3, <3>1 DEF Asked, Blocked, ActorsTypeOK, Futures
    <2>5. CASE \/ OnLoginReplace(p) \/ OnSysKick(p)
               \/ \E kind \in {"Logout", "Disconnect"} : OnLogout(p, kind)
        BY <1>1, <1>2, <2>1, <2>5 DEF OnLoginReplace, OnSysKick, OnLogout, PlayerTypeOK
    <2>6. CASE PlayerStopped(p)
        BY <1>1, <1>2, <2>6 DEF PlayerStopped, NoModel, PlayerTypeOK
    <2>7. CASE CallTimeout(p) /\ UNCHANGED playerVars
        <3>1. life' = life /\ pl' = pl
            BY <2>7 DEF CallTimeout, playerVars
        <3>2. Blocked(p)'
            BY <1>1, <1>3, <2>7 DEF CallTimeout, Blocked, ActorsTypeOK, Futures
        <3> QED
            BY <1>2, <1>7, <3>1, <3>2
    <2> QED
        BY <1>10, <2>3, <2>4, <2>5, <2>6, <2>7
        DEF PlayerNext, PlayerStep, OnLoginSuccess, OnC2S, C2SReturns
<1>11. CASE \E q \in Player : GMKick(q)
    BY <1>2, <1>7, <1>11 DEF GMKick, playerVars, Blocked
<1>12. CASE LoginNext
    <2>1. pl'[p].asking = pl[p].asking /\ life'[p] = life[p]
        <3>1. CASE LoginCreate /\ ThePlayer = p
            BY <1>1, <1>2, <3>1 DEF LoginCreate, PlayerTypeOK
        <3>2. CASE LoginCreate /\ ThePlayer # p
            BY <1>1, <1>3, <3>2 DEF LoginCreate, PlayerTypeOK, ActorsTypeOK, Lives
        <3>3. CASE ~LoginCreate
            BY <1>12, <3>3
            DEF LoginNext, LoginStep, LoginFails, LoginOnline, LoginReplaced, LoginLoad, LoginBorn,
                LoginBornFails, LoginNameTaken, LoginCreated, LoginLogout, LoginDisconnect,
                Forget, LoginCastAgent, LoginSysKick, CallTimeout, Answer, playerVars
        <3> QED
            BY <3>1, <3>2, <3>3
    <2>2. Blocked(p) => Blocked(p)'
        <3>1. CASE LoginReplaced
            <4>1. \A m, ret : Blocked(p) => Resumed(Responded(m, ret), LoginPid)[p].st # "idle"
                BY <1>1, <1>3 DEF Resumed, Responded, Blocked, ActorsTypeOK, Futures
            <4> QED
                BY <3>1, <4>1 DEF LoginReplaced, Blocked
        <3>2. CASE ~LoginReplaced
            BY <1>3, <1>4, <1>5, <1>6, <1>12, <3>2
            DEF LoginNext, LoginStep, LoginFails, LoginOnline, LoginLoad, LoginBorn,
                LoginBornFails, LoginCreate, LoginNameTaken, LoginCreated, LoginLogout,
                LoginDisconnect, Forget, LoginCastAgent, LoginSysKick, Answer, Blocked
        <3> QED
            BY <3>1, <3>2
    <2> QED
        BY <1>2, <1>7, <2>1, <2>2
<1>13. CASE UNCHANGED vars
    BY <1>2, <1>7, <1>13 DEF vars, actorVars, playerVars, Blocked
<1> QED
    BY <1>8, <1>9, <1>10, <1>11, <1>12, <1>13 DEF Next

-----------------------------------------------------------------------------
(* The steps in which a player's actor saves and stops. *)

\* What Logout, Disconnect and SysKick have in common, as seen from the players.
SavesAndStops(q, k) ==
    /\ k \in StopOrder
    /\ Receives(q, k)
    /\ \A p \in Player : mbox'[p] = Taken(q)[p]
    /\ store' = Saved(q)
    /\ life' = Stopping(q)
    /\ gmKicked' = IF k = "SysKick" THEN gmKicked \cup {q} ELSE gmKicked
    /\ UNCHANGED <<pl, done, loginVars>>

\* The three handlers are of that form: their kick goes to a session, not to a player.
LEMMA StopHandlers ==
    ASSUME TypeOK, NEW q \in Player, UNCHANGED loginVars
    PROVE  /\ \A k \in {"Logout", "Disconnect"} : OnLogout(q, k) => SavesAndStops(q, k)
           /\ OnSysKick(q) => SavesAndStops(q, "SysKick")
<1>1. ASSUME NEW k \in {"Logout", "Disconnect"}, OnLogout(q, k)
      PROVE  SavesAndStops(q, k)
    BY <1>1 DEF OnLogout, SavesAndStops, StopOrder
<1>2. ASSUME OnSysKick(q)
      PROVE  SavesAndStops(q, "SysKick")
    <2>1. Taken(q) \in Boxes
        BY <1>2, TakenType DEF OnSysKick, Receives, TypeOK, Pid
    <2>2. \A p \in Player : pl[q].session # p
        BY PidAssumption DEF TypeOK, PlayerTypeOK
    <2>3. \A p \in Player : mbox'[p] = Taken(q)[p]
        BY <1>2, <2>1, <2>2 DEF OnSysKick, Cast, Boxes, Pid
    <2> QED
        BY <1>2, <2>3 DEF OnSysKick, SavesAndStops, StopOrder
<1> QED
    BY <1>1, <1>2

\* The actor that stops is running, and Login is not creating it.
LEMMA StopsRunning ==
    ASSUME SessionInv, NEW q \in Player, NEW k, SavesAndStops(q, k)
    PROVE  /\ life[q] = "live" /\ life'[q] = "stopping" /\ Queued(q, k) /\ ~BeingCreated(q)
           /\ \A p \in Player \ {q} : life'[p] = life[p] /\ mbox'[p] = mbox[p]
<1>1. ActorsTypeOK /\ q \in Pid /\ Player \subseteq Pid
    BY DEF SessionInv, TypeOK, Pid
<1>2. life[q] = "live" /\ mbox[q] # <<>> /\ Head(mbox[q]).kind = k
    BY DEF SavesAndStops, Receives
<1>3. Queued(q, k)
    BY <1>1, <1>2, HasTaken
<1>4. ~BeingCreated(q)
    BY <1>3 DEF SessionInv, CreatingIsQuiet, Condemned, SavesAndStops, StopOrder
<1>5. life'[q] = "stopping" /\ \A p \in Player \ {q} : life'[p] = life[p] /\ mbox'[p] = mbox[p]
    BY <1>1 DEF SavesAndStops, Stopping, Taken, ActorsTypeOK, Lives, Boxes
<1> QED
    BY <1>2, <1>3, <1>4, <1>5

\* Such a step preserves the invariant: an entry whose actor stops is a GM's doing, and
\* what the actor had is saved.
LEMMA StopInv ==
    ASSUME SessionInv, NEW q \in Player, NEW k, SavesAndStops(q, k), TypeOK', AskingRuns'
    PROVE  SessionInv'
<1>1. /\ life[q] = "live" /\ life'[q] = "stopping" /\ Queued(q, k) /\ ~BeingCreated(q)
      /\ \A p \in Player \ {q} : life'[p] = life[p] /\ mbox'[p] = mbox[p]
    BY StopsRunning
<1>2. UNCHANGED <<players, ls, stale, pl, done>>
    BY DEF SavesAndStops, loginVars
<1>3. \A p \in Player : BeingCreated(p)' <=> BeingCreated(p)
    BY <1>2 DEF BeingCreated, ThePlayer
<1>4. \A p \in Player \ {q} : \A kind : Queued(p, kind)' <=> Queued(p, kind)
    BY <1>1 DEF Queued
<1>5. \A kind : Queued(q, kind)' => Queued(q, kind)
    BY HasTaken DEF SavesAndStops, Receives, Queued, SessionInv, TypeOK, Pid
<1>6. /\ store'[q].data = pl[q].data
      /\ \A p \in Player \ {q} : store'[p].data = store[p].data
    BY DEF SavesAndStops, Saved, SessionInv, TypeOK, PlayerTypeOK
<1>7. FreeNameHasNoMail'
    BY <1>1 DEF SessionInv, FreeNameHasNoMail
<1>8. CreatingIsQuiet'
    BY <1>1, <1>2, <1>3, <1>4 DEF SessionInv, CreatingIsQuiet, ThePlayer, Condemned
<1>9. HoldsAll'
    BY <1>1, <1>2, <1>6 DEF SessionInv, HoldsAll
<1>10. NoZombie'
    BY <1>1, <1>2, <1>3, <1>4 DEF SessionInv, NoZombie, Condemned
<1>11. EntryIsAlive'
    <2> SUFFICES ASSUME NEW p \in players
                 PROVE  ~Condemned(p)' /\ (life'[p] # "live" => p \in gmKicked')
        BY <1>2 DEF EntryIsAlive
    <2>1. p \in Player /\ ~Condemned(p) /\ (life[p] # "live" => p \in gmKicked)
        BY DEF SessionInv, EntryIsAlive, TypeOK, LoginTypeOK
    <2>2. ~Condemned(p)'
        BY <1>4, <1>5, <2>1 DEF Condemned
    <2>3. p = q => k = "SysKick"
        BY <1>1, <2>1 DEF Condemned, SavesAndStops, StopOrder
    <2> QED
        BY <1>1, <2>1, <2>2, <2>3 DEF SavesAndStops
<1>12. NothingLost'
    BY <1>1, <1>2, <1>6 DEF SessionInv, NothingLost, HoldsAll
<1>13. KnownPlayers'
    <2>1. \A p \in Player : store'[p].key = store[p].key
        BY DEF SavesAndStops, Saved, SessionInv, TypeOK, PlayerTypeOK
    <2>2. players \subseteq Player /\ (ls.phase # "idle" => ThePlayer \in Player)
        BY RequestType DEF SessionInv, TypeOK, LoginTypeOK
    <2> QED
        BY <1>2, <2>1, <2>2 DEF SessionInv, KnownPlayers, ThePlayer
<1> QED
    BY <1>7, <1>8, <1>9, <1>10, <1>11, <1>12, <1>13 DEF SessionInv

\* When the stop is carried out, nothing is lost: it was saved before.
LEMMA StoppedInv ==
    ASSUME SessionInv, NEW q \in Player, PlayerStopped(q), UNCHANGED loginVars,
           TypeOK', AskingRuns'
    PROVE  SessionInv'
<1>1. ActorsTypeOK /\ PlayerTypeOK /\ Player \subseteq Pid /\ players \subseteq Player
    BY DEF SessionInv, TypeOK, LoginTypeOK, Pid
<1>2. /\ life[q] = "stopping" /\ life'[q] = "none" /\ mbox'[q] = <<>>
      /\ \A p \in Player \ {q} : life'[p] = life[p] /\ mbox'[p] = mbox[p] /\ pl'[p] = pl[p]
    BY <1>1 DEF PlayerStopped, ActorsTypeOK, Lives, Boxes, PlayerTypeOK
<1>3. UNCHANGED <<players, ls, stale, store, done, gmKicked>>
    BY DEF PlayerStopped, loginVars
<1>4. \A p \in Player : BeingCreated(p)' <=> BeingCreated(p)
    BY <1>3 DEF BeingCreated, ThePlayer
<1>5. \A p \in Player \ {q} : \A kind : Queued(p, kind)' <=> Queued(p, kind)
    BY <1>2 DEF Queued
<1>6. \A kind : ~Queued(q, kind)'
    BY <1>2 DEF Queued, Has
<1>7. FreeNameHasNoMail'
    BY <1>2 DEF SessionInv, FreeNameHasNoMail
<1>8. CreatingIsQuiet'
    BY <1>2, <1>3, <1>4, <1>5 DEF SessionInv, CreatingIsQuiet, ThePlayer, Condemned
<1>9. HoldsAll' /\ NothingLost'
    BY <1>2, <1>3 DEF SessionInv, HoldsAll, NothingLost
<1>10. NoZombie' /\ EntryIsAlive'
    BY <1>1, <1>2, <1>3, <1>4, <1>5, <1>6 DEF SessionInv, NoZombie, EntryIsAlive, Condemned
<1>11. KnownPlayers'
    BY <1>3 DEF SessionInv, KnownPlayers, ThePlayer
<1> QED
    BY <1>7, <1>8, <1>9, <1>10, <1>11 DEF SessionInv

-----------------------------------------------------------------------------
(* The steps in which Login brings a player up or lets one go. *)

\* To take a request changes no player's mailbox.
LEMMA RequestTaken ==
    ASSUME TypeOK, NEW k, Handles(k)
    PROVE  Taken(LoginPid) \in Boxes /\ \A p \in Player : Taken(LoginPid)[p] = mbox[p]
<1>1. Taken(LoginPid) \in Boxes
    BY TakenType DEF TypeOK, Handles, Receives, Pid
<1> QED
    BY <1>1, PidAssumption DEF TypeOK, ActorsTypeOK, Boxes, Taken, Pid

\* Login turns to a player who is not in the directory, and who has an account when
\* this step is over.
LEMMA OpenInv ==
    ASSUME SessionInv, LoginLoad \/ LoginBorn, TypeOK', AskingRuns'
    PROVE  SessionInv'
<1>1. PlayerTypeOK /\ players \subseteq Player
    BY DEF SessionInv, TypeOK, LoginTypeOK
<1>2. Handles("login") /\ UNCHANGED <<life, pl, done, gmKicked, players, stale>>
    BY DEF LoginLoad, LoginBorn, playerVars
<1>3. Request.who \in Player
    BY <1>2, HeadLogin DEF SessionInv
<1>4. \A p \in Player : mbox'[p] = mbox[p]
    BY <1>2, RequestTaken DEF LoginLoad, LoginBorn, SessionInv
<1>5. \A p \in Player : \A k : Queued(p, k)' <=> Queued(p, k)
    BY <1>4 DEF Queued
<1>6. ls.phase = "idle" /\ ls'.phase \in {"loaded", "born"} /\ ThePlayer' = Request.who
    BY <1>2 DEF LoginLoad, LoginBorn, Handles, ThePlayer
<1>7. \A p \in Player : store'[p].data = store[p].data /\ (store[p].key => store'[p].key)
    BY <1>1 DEF LoginLoad, LoginBorn, playerVars, PlayerTypeOK
<1>8. Request.who \notin players /\ store'[Request.who].key
    BY <1>1, <1>3 DEF LoginLoad, LoginBorn, playerVars, PlayerTypeOK, SessionInv, KnownPlayers
<1>9. FreeNameHasNoMail' /\ HoldsAll' /\ NothingLost'
    BY <1>2, <1>4, <1>7 DEF SessionInv, FreeNameHasNoMail, HoldsAll, NothingLost
<1>10. CreatingIsQuiet' /\ KnownPlayers'
    BY <1>1, <1>2, <1>6, <1>7, <1>8
    DEF SessionInv, CreatingIsQuiet, KnownPlayers, BeingCreated
<1>11. NoZombie' /\ EntryIsAlive'
    BY <1>1, <1>2, <1>5, <1>6 DEF SessionInv, NoZombie, EntryIsAlive, Condemned, BeingCreated
<1> QED
    BY <1>9, <1>10, <1>11 DEF SessionInv

\* The new actor finds no mail, and holds what Redis has unless that has changed
\* since Login read it.
LEMMA CreateInv ==
    ASSUME SessionInv, LoginCreate, TypeOK', AskingRuns'
    PROVE  SessionInv'
<1>1. /\ ActorsTypeOK /\ PlayerTypeOK /\ players \subseteq Player /\ Player \subseteq Pid
      /\ ls.phase \in {"loaded", "born"}
    BY DEF SessionInv, TypeOK, LoginTypeOK, Pid, LoginCreate
<1>2. PICK q \in Player : q = ThePlayer
    BY <1>1, RequestType DEF SessionInv
<1>3. life[q] = "none" /\ life'[q] = "live" /\ \A p \in Player \ {q} : life'[p] = life[p]
    BY <1>1, <1>2 DEF LoginCreate, NameFree, ActorsTypeOK, Lives
<1>4. UNCHANGED <<mbox, done, players>>
    BY DEF LoginCreate
<1>5. \A k : ~Queued(q, k)'
    BY <1>2, <1>3, <1>4 DEF Queued, Has, SessionInv, FreeNameHasNoMail
<1>6. \A p \in Player : \A k : Queued(p, k)' <=> Queued(p, k)
    BY <1>4 DEF Queued
<1>7. ls'.phase = "created" /\ ThePlayer' = q
    BY <1>2 DEF LoginCreate, ThePlayer, SessionInv, TypeOK, LoginTypeOK
<1>8. q \notin players /\ store[q].key
    BY <1>1, <1>2 DEF SessionInv, CreatingIsQuiet, KnownPlayers
<1>9. \A p \in Player : store'[p].data = store[p].data /\ store'[p].key = store[p].key
    BY <1>1, <1>2 DEF LoginCreate, PlayerTypeOK
<1>10. pl'[q].data = ls.snap /\ \A p \in Player \ {q} : pl'[p].data = pl[p].data
    BY <1>1, <1>2 DEF LoginCreate, PlayerTypeOK
<1>11. stale \subseteq stale' /\ (q \notin stale' => ls.snap = store[q].data)
    BY <1>2 DEF LoginCreate
<1>12. \A p \in Player : BeingCreated(p)' <=> p = q
    BY <1>7 DEF BeingCreated
<1>13. FreeNameHasNoMail' /\ KnownPlayers'
    BY <1>1, <1>2, <1>3, <1>4, <1>7, <1>8, <1>9
    DEF SessionInv, FreeNameHasNoMail, KnownPlayers
<1>14. CreatingIsQuiet'
    BY <1>3, <1>4, <1>5, <1>7, <1>8, <1>12 DEF CreatingIsQuiet, Condemned
<1>15. HoldsAll'
    BY <1>3, <1>9, <1>10, <1>11 DEF SessionInv, HoldsAll
<1>16. NothingLost'
    BY <1>3, <1>4, <1>9, <1>10, <1>11 DEF SessionInv, NothingLost
<1>17. NoZombie'
    BY <1>1, <1>3, <1>4, <1>6, <1>7, <1>12 DEF SessionInv, NoZombie, Condemned, BeingCreated
<1>18. EntryIsAlive'
    <2>1. \A p \in Player \ {q} : p \in gmKicked => p \in gmKicked'
        BY <1>2 DEF LoginCreate
    <2> QED
        BY <1>1, <1>3, <1>4, <1>6, <1>8, <2>1 DEF SessionInv, EntryIsAlive, Condemned
<1> QED
    BY <1>13, <1>14, <1>15, <1>16, <1>17, <1>18 DEF SessionInv

\* The entry is made for an actor that runs and has no order to stop.
LEMMA CreatedInv ==
    ASSUME SessionInv, LoginCreated, TypeOK', AskingRuns'
    PROVE  SessionInv'
<1>1. ls.phase = "created" /\ ThePlayer \in Player /\ ls'.phase = "idle"
    BY RequestType DEF LoginCreated, SessionInv, IdleLogin
<1>2. players' = players \cup {ThePlayer} /\ UNCHANGED <<mbox, life, playerVars, stale>>
    BY DEF LoginCreated
<1>3. \A p \in Player : \A k : Queued(p, k)' <=> Queued(p, k)
    BY <1>2 DEF Queued
<1>4. life[ThePlayer] = "live" /\ ~Condemned(ThePlayer) /\ store[ThePlayer].key
    BY <1>1 DEF SessionInv, CreatingIsQuiet, BeingCreated, KnownPlayers
<1>5. FreeNameHasNoMail' /\ HoldsAll' /\ NothingLost'
    BY <1>2 DEF SessionInv, FreeNameHasNoMail, HoldsAll, NothingLost, playerVars
<1>6. CreatingIsQuiet' /\ KnownPlayers'
    BY <1>1, <1>2, <1>4 DEF SessionInv, CreatingIsQuiet, KnownPlayers, BeingCreated, playerVars
<1>7. NoZombie'
    BY <1>1, <1>2, <1>3 DEF SessionInv, NoZombie, Condemned, BeingCreated
<1>8. EntryIsAlive'
    BY <1>1, <1>2, <1>3, <1>4
    DEF SessionInv, EntryIsAlive, Condemned, playerVars, TypeOK, LoginTypeOK
<1> QED
    BY <1>5, <1>6, <1>7, <1>8 DEF SessionInv

\* What a cast by Login of one stop order, or of none, does to the players' mailboxes.
LEMMA OrderCast ==
    ASSUME TypeOK, NEW k, Handles(k), NEW told \in StopOrder, NEW q,
           mbox' = IF q \in players THEN Cast(Taken(LoginPid), q, CastMsg(told, NoPid))
                                    ELSE Taken(LoginPid)
    PROVE  \A p \in Player :
              /\ life[p] = "none" => mbox'[p] = mbox[p]
              /\ \A kind : Queued(p, kind)' <=>
                    \/ Queued(p, kind)
                    \/ p = q /\ q \in players /\ life[q] # "none" /\ kind = told
<1>1. Taken(LoginPid) \in Boxes /\ \A p \in Player : Taken(LoginPid)[p] = mbox[p]
    BY RequestTaken
<1>2. CastMsg(told, NoPid) \in Msg /\ CastMsg(told, NoPid).kind = told
    BY CastMsgType DEF StopOrder, Kind, CastMsg
<1>3. TAKE p \in Player
<1>4. p \in Pid
    BY DEF Pid
<1>5. CASE q \in players
    <2>1. life[p] = "none" => mbox'[p] = mbox[p]
        BY <1>1, <1>4, <1>5, DeadLetter
    <2>2. ASSUME NEW kind
          PROVE  Queued(p, kind)' <=> Queued(p, kind) \/ (p = q /\ life[q] # "none" /\ kind = told)
        BY <1>1, <1>2, <1>4, <1>5, HasCast DEF Queued
    <2> QED
        BY <1>5, <2>1, <2>2
<1>6. CASE q \notin players
    BY <1>1, <1>6 DEF Queued
<1> QED
    BY <1>5, <1>6

\* A player is forgotten in the step that sends its actor the order to stop.
LEMMA ForgetInv ==
    ASSUME SessionInv, NEW k, NEW told \in {"Logout", "Disconnect"}, Forget(k, told),
           TypeOK', AskingRuns'
    PROVE  SessionInv'
<1> DEFINE q == Request.who
<1>1. Handles(k) /\ players' = players \ {q} /\ UNCHANGED <<life, playerVars, ls, stale>>
    BY DEF Forget
<1>2. \A p \in Player :
          /\ life[p] = "none" => mbox'[p] = mbox[p]
          /\ \A kind : Queued(p, kind)' <=>
                \/ Queued(p, kind)
                \/ p = q /\ q \in players /\ life[q] # "none" /\ kind = told
    BY OrderCast DEF Forget, SessionInv, StopOrder
<1>3. ls.phase = "idle" /\ ls'.phase = "idle" /\ players \subseteq Player
    BY <1>1 DEF Handles, SessionInv, TypeOK, LoginTypeOK
<1>4. FreeNameHasNoMail' /\ HoldsAll' /\ NothingLost'
    BY <1>1, <1>2 DEF SessionInv, FreeNameHasNoMail, HoldsAll, NothingLost, playerVars
<1>5. CreatingIsQuiet' /\ KnownPlayers'
    BY <1>1, <1>3 DEF SessionInv, CreatingIsQuiet, KnownPlayers, BeingCreated, playerVars
<1>6. NoZombie'
    BY <1>1, <1>2, <1>3 DEF SessionInv, NoZombie, Condemned, BeingCreated
<1>7. EntryIsAlive'
    BY <1>1, <1>2, <1>3 DEF SessionInv, EntryIsAlive, Condemned, playerVars
<1> QED
    BY <1>4, <1>5, <1>6, <1>7 DEF SessionInv

\* A GM kick that Login passes on condemns nobody.
LEMMA SysKickInv ==
    ASSUME SessionInv, LoginSysKick, TypeOK', AskingRuns'
    PROVE  SessionInv'
<1> DEFINE q == Request.who
<1>1. Handles("sysKick") /\ UNCHANGED <<life, playerVars, players, ls, stale>>
    BY DEF LoginSysKick, loginVars
<1>2. \A p \in Player :
          /\ life[p] = "none" => mbox'[p] = mbox[p]
          /\ \A kind : Queued(p, kind)' <=>
                \/ Queued(p, kind)
                \/ p = q /\ q \in players /\ life[q] # "none" /\ kind = "SysKick"
    BY <1>1, OrderCast DEF LoginSysKick, SessionInv, StopOrder
<1>3. ls.phase = "idle" /\ ls'.phase = "idle" /\ players \subseteq Player
    BY <1>1 DEF Handles, SessionInv, TypeOK, LoginTypeOK
<1>4. FreeNameHasNoMail' /\ HoldsAll' /\ NothingLost'
    BY <1>1, <1>2 DEF SessionInv, FreeNameHasNoMail, HoldsAll, NothingLost, playerVars
<1>5. CreatingIsQuiet' /\ KnownPlayers'
    BY <1>1, <1>3 DEF SessionInv, CreatingIsQuiet, KnownPlayers, BeingCreated, playerVars
<1>6. NoZombie' /\ EntryIsAlive'
    BY <1>1, <1>2, <1>3
    DEF SessionInv, NoZombie, EntryIsAlive, Condemned, BeingCreated, playerVars
<1> QED
    BY <1>4, <1>5, <1>6 DEF SessionInv

-----------------------------------------------------------------------------
(* The theorems. *)

\* The invariant holds at the start: nobody is online.
LEMMA InvInit == Init => SessionInv
<1> SUFFICES ASSUME Init PROVE SessionInv
    OBVIOUS
<1>1. TypeOK
    BY TypeInit
<1>2. /\ players = {} /\ ls.phase = "idle"
      /\ \A p \in Player : life[p] = "none" /\ mbox[p] = <<>> /\ ~pl[p].asking /\ done[p] = {}
    BY DEF Init, LoginInit, IdleLogin, PlayerInit, NoModel, Pid
<1>3. FreeNameHasNoMail /\ CreatingIsQuiet /\ KnownPlayers /\ AskingRuns /\ HoldsAll
    BY <1>2 DEF FreeNameHasNoMail, CreatingIsQuiet, KnownPlayers, AskingRuns, HoldsAll,
                BeingCreated
<1>4. NoZombie /\ EntryIsAlive /\ NothingLost
    BY <1>2 DEF NoZombie, EntryIsAlive, NothingLost
<1> QED
    BY <1>1, <1>3, <1>4 DEF SessionInv

\* Every step is quiet, or one of the eight that SessionInv has to survive.
LEMMA StepKinds ==
    ASSUME TypeOK, AskingRuns, [Next]_vars
    PROVE  \/ Quiet
           \/ \E q \in Player, k \in StopOrder : SavesAndStops(q, k)
           \/ \E q \in Player : PlayerStopped(q) /\ UNCHANGED loginVars
           \/ LoginLoad \/ LoginBorn \/ LoginCreate \/ LoginCreated \/ LoginSysKick
           \/ \E k \in {"logout", "disconnect"}, told \in {"Logout", "Disconnect"} : Forget(k, told)
<1>1. CASE \E s \in Session : GateNext(s)
    BY <1>1, GateQuiet
<1>2. CASE \E q \in Player : PlayerNext(q)
    <2>1. PICK q \in Player : PlayerNext(q)
        BY <1>2
    <2>2. UNCHANGED loginVars
        BY <2>1 DEF PlayerNext
    <2>3. CASE \/ OnLoginSuccess(q) \/ OnC2S(q) \/ C2SReturns(q) \/ OnLoginReplace(q)
               \/ \E r \in Player : OnC2SAsksLogin(q, r)
               \/ CallTimeout(q) /\ UNCHANGED playerVars
        BY <2>2, <2>3, PlayerQuiet
    <2>4. CASE OnSysKick(q) \/ \E k \in {"Logout", "Disconnect"} : OnLogout(q, k)
        BY <2>2, <2>4, StopHandlers DEF StopOrder
    <2> QED
        BY <2>1, <2>2, <2>3, <2>4 DEF PlayerNext, PlayerStep
<1>3. CASE \E q \in Player : GMKick(q)
    BY <1>3, KickQuiet
<1>4. CASE LoginNext
    <2>1. CASE LoginLogout \/ LoginDisconnect
        BY <2>1 DEF LoginLogout, LoginDisconnect
    <2> QED
        BY <1>4, <2>1, LoginQuiet DEF LoginNext, LoginStep
<1>5. CASE UNCHANGED vars
    BY <1>5, StutterQuiet
<1> QED
    BY <1>1, <1>2, <1>3, <1>4, <1>5 DEF Next

\* The invariant is inductive.
LEMMA InvStep == SessionInv /\ [Next]_vars => SessionInv'
<1> SUFFICES ASSUME SessionInv, [Next]_vars PROVE SessionInv'
    OBVIOUS
<1>1. TypeOK /\ AskingRuns
    BY DEF SessionInv
<1>2. TypeOK' /\ AskingRuns'
    BY <1>1, TypeStep, AskingStep
<1> QED
    BY <1>1, <1>2, StepKinds, QuietInv, StopInv, StoppedInv, OpenInv, CreateInv, CreatedInv,
       ForgetInv, SysKickInv

\* Nothing that the invariant says ever fails.
THEOREM SessionCorrect == Spec => []SessionInv
BY InvInit, InvStep, PTL DEF Spec

\* A running player actor that Login has forgotten has its stop order in its mailbox,
\* whatever the order of logins, logouts, disconnects, kicks and timeouts.
THEOREM NoZombieHolds == Spec => []NoZombie
<1>1. SessionInv => NoZombie
    BY DEF SessionInv
<1> QED
    BY <1>1, SessionCorrect, PTL

\* The actor behind a directory entry has no order to stop, and only a GM stops it.
THEOREM EntryIsAliveHolds == Spec => []EntryIsAlive
<1>1. SessionInv => EntryIsAlive
    BY DEF SessionInv
<1> QED
    BY <1>1, SessionCorrect, PTL

\* Every change to a player is in Redis or in the running actor that will save it,
\* unless that actor was created from data that was outdated.
THEOREM NothingLostHolds == Spec => []NothingLost
<1>1. SessionInv => NothingLost
    BY DEF SessionInv
<1> QED
    BY <1>1, SessionCorrect, PTL

-----------------------------------------------------------------------------
(* The directory and the actors implement the cycle of PlayerLifecycle. *)

phase == [p \in Player |-> PhaseOf(p)]

\* A step that takes one player from one phase to another moves it in the cycle.
LEMMA MoveStep ==
    ASSUME NEW q \in Player, NEW from, NEW to, PhaseOf(q) = from, PhaseOf(q)' = to,
           \A p \in Player \ {q} : PhaseOf(p)' = PhaseOf(p)
    PROVE  Lifecycle!Move(q, from, to)
<1>1. phase[q] = from
    BY DEF phase
<1>2. phase' = [phase EXCEPT ![q] = to]
    BY DEF phase
<1> QED
    BY <1>1, <1>2 DEF Lifecycle!Move, phase

\* What decides the phase of a player that a step does not touch is the same.
LEMMA SamePhase ==
    ASSUME NEW p \in Player, life'[p] = life[p], p \in players' <=> p \in players,
           BeingCreated(p)' <=> BeingCreated(p)
    PROVE  PhaseOf(p)' = PhaseOf(p)
BY DEF PhaseOf

\* An actor that stops was leaving, or it was online and a GM stops it.
LEMMA StopPhase ==
    ASSUME SessionInv, NEW q \in Player, NEW k, SavesAndStops(q, k)
    PROVE  Lifecycle!Next
<1>1. /\ life[q] = "live" /\ life'[q] = "stopping" /\ Queued(q, k) /\ ~BeingCreated(q)
      /\ \A p \in Player \ {q} : life'[p] = life[p]
    BY StopsRunning
<1>2. UNCHANGED <<players, ls>>
    BY DEF SavesAndStops, loginVars
<1>3. \A p \in Player : BeingCreated(p)' <=> BeingCreated(p)
    BY <1>2 DEF BeingCreated, ThePlayer
<1>4. \A p \in Player \ {q} : PhaseOf(p)' = PhaseOf(p)
    BY <1>1, <1>2, <1>3, SamePhase
<1>5. CASE q \in players
    <2>1. PhaseOf(q) = "online" /\ PhaseOf(q)' = "kicked"
        BY <1>1, <1>2, <1>5 DEF PhaseOf
    <2> QED
        BY <1>4, <2>1, MoveStep DEF Lifecycle!Next, Lifecycle!Kick
<1>6. CASE q \notin players
    <2>1. PhaseOf(q) = "leaving" /\ PhaseOf(q)' = "stopping"
        BY <1>1, <1>2, <1>6 DEF PhaseOf
    <2> QED
        BY <1>4, <2>1, MoveStep DEF Lifecycle!Next, Lifecycle!Stop
<1> QED
    BY <1>5, <1>6

\* A stop that is carried out ends the actor, and leaves a ghost if a GM did it.
LEMMA StoppedPhase ==
    ASSUME SessionInv, NEW q \in Player, PlayerStopped(q), UNCHANGED loginVars
    PROVE  Lifecycle!Next
<1>1. /\ life[q] = "stopping" /\ life'[q] = "none"
      /\ \A p \in Player \ {q} : life'[p] = life[p]
    BY DEF PlayerStopped, SessionInv, TypeOK, ActorsTypeOK, Lives, Pid
<1>2. UNCHANGED <<players, ls>>
    BY DEF loginVars
<1>3. \A p \in Player : BeingCreated(p)' <=> BeingCreated(p)
    BY <1>2 DEF BeingCreated, ThePlayer
<1>4. \A p \in Player \ {q} : PhaseOf(p)' = PhaseOf(p)
    BY <1>1, <1>2, <1>3, SamePhase
<1>5. CASE q \in players
    <2>1. PhaseOf(q) = "kicked" /\ PhaseOf(q)' = "ghost"
        BY <1>1, <1>2, <1>5 DEF PhaseOf
    <2> QED
        BY <1>4, <2>1, MoveStep DEF Lifecycle!Next, Lifecycle!End
<1>6. CASE q \notin players
    <2>1. PhaseOf(q) = "stopping" /\ PhaseOf(q)' = "off"
        BY <1>1, <1>2, <1>6 DEF PhaseOf
    <2> QED
        BY <1>4, <2>1, MoveStep DEF Lifecycle!Next, Lifecycle!End
<1> QED
    BY <1>5, <1>6

\* Nobody moves when Login turns to a player, or passes on a GM kick.
LEMMA OpenPhase ==
    ASSUME SessionInv, LoginLoad \/ LoginBorn \/ LoginSysKick
    PROVE  UNCHANGED phase
<1>1. UNCHANGED <<life, players>> /\ ls.phase # "created" /\ ls'.phase # "created"
    BY DEF LoginLoad, LoginBorn, LoginSysKick, loginVars, Handles
<1>2. \A p \in Player : ~BeingCreated(p) /\ ~BeingCreated(p)'
    BY <1>1 DEF BeingCreated
<1> QED
    BY <1>1, <1>2, SamePhase DEF phase

\* An actor is created for a player who is off.
LEMMA CreatePhase ==
    ASSUME SessionInv, LoginCreate
    PROVE  Lifecycle!Next
<1>1. ls.phase \in {"loaded", "born"}
    BY DEF LoginCreate
<1>2. PICK q \in Player : q = ThePlayer
    BY <1>1, RequestType DEF SessionInv
<1>3. life[q] = "none" /\ life'[q] = "live" /\ \A p \in Player \ {q} : life'[p] = life[p]
    BY <1>2 DEF LoginCreate, NameFree, SessionInv, TypeOK, ActorsTypeOK, Lives, Pid
<1>4. players' = players /\ q \notin players
    BY <1>1, <1>2 DEF LoginCreate, SessionInv, CreatingIsQuiet
<1>5. \A p \in Player : ~BeingCreated(p) /\ (BeingCreated(p)' <=> p = q)
    BY <1>1, <1>2 DEF BeingCreated, LoginCreate, ThePlayer, SessionInv, TypeOK, LoginTypeOK
<1>6. PhaseOf(q) = "off" /\ PhaseOf(q)' = "starting"
    BY <1>3, <1>4, <1>5 DEF PhaseOf
<1>7. \A p \in Player \ {q} : PhaseOf(p)' = PhaseOf(p)
    BY <1>3, <1>4, <1>5, SamePhase
<1> QED
    BY <1>6, <1>7, MoveStep DEF Lifecycle!Next, Lifecycle!Start

\* The entry is made for the player whose actor has just been started.
LEMMA CreatedPhase ==
    ASSUME SessionInv, LoginCreated
    PROVE  Lifecycle!Next
<1>1. ls.phase = "created" /\ ls'.phase = "idle" /\ UNCHANGED life
    BY DEF LoginCreated, IdleLogin
<1>2. PICK q \in Player : q = ThePlayer
    BY <1>1, RequestType DEF SessionInv
<1>3. BeingCreated(q) /\ \A p \in Player : ~BeingCreated(p)' /\ (p # q => ~BeingCreated(p))
    BY <1>1, <1>2 DEF BeingCreated
<1>4. life[q] = "live" /\ q \notin players /\ players' = players \cup {q}
    BY <1>1, <1>2, <1>3 DEF LoginCreated, SessionInv, CreatingIsQuiet
<1>5. PhaseOf(q) = "starting" /\ PhaseOf(q)' = "online"
    BY <1>1, <1>3, <1>4 DEF PhaseOf
<1>6. \A p \in Player \ {q} : PhaseOf(p)' = PhaseOf(p)
    BY <1>1, <1>3, <1>4, SamePhase
<1> QED
    BY <1>5, <1>6, MoveStep DEF Lifecycle!Next, Lifecycle!Publish

\* To forget a player moves the one who was in the directory, or nobody.
LEMMA ForgetPhase ==
    ASSUME SessionInv, NEW k, NEW told, Forget(k, told)
    PROVE  Lifecycle!Next \/ UNCHANGED phase
<1> DEFINE q == Request.who
<1>1. UNCHANGED life /\ players' = players \ {q} /\ players \subseteq Player
    BY DEF Forget, SessionInv, TypeOK, LoginTypeOK
<1>2. \A p \in Player : ~BeingCreated(p) /\ ~BeingCreated(p)'
    BY DEF Forget, Handles, BeingCreated
<1>3. CASE q \notin players
    <2>1. \A p \in Player : PhaseOf(p)' = PhaseOf(p)
        BY <1>1, <1>2, <1>3, SamePhase
    <2> QED
        BY <2>1 DEF phase
<1>4. CASE q \in players
    <2>1. PICK r \in Player : r = q
        BY <1>1, <1>4
    <2>2. \A p \in Player \ {r} : PhaseOf(p)' = PhaseOf(p)
        BY <1>1, <1>2, <2>1, SamePhase
    <2>3. r \in players /\ r \notin players' /\ life'[r] = life[r]
        BY <1>1, <1>4, <2>1
    <2>4. CASE life[r] = "live"
        <3>1. PhaseOf(r) = "online" /\ PhaseOf(r)' = "leaving"
            BY <1>2, <2>3, <2>4 DEF PhaseOf
        <3> QED
            BY <2>2, <3>1, MoveStep DEF Lifecycle!Next, Lifecycle!Forget
    <2>5. CASE life[r] = "stopping"
        <3>1. PhaseOf(r) = "kicked" /\ PhaseOf(r)' = "stopping"
            BY <2>3, <2>5 DEF PhaseOf
        <3> QED
            BY <2>2, <3>1, MoveStep DEF Lifecycle!Next, Lifecycle!Forget
    <2>6. CASE life[r] = "none"
        <3>1. PhaseOf(r) = "ghost" /\ PhaseOf(r)' = "off"
            BY <2>3, <2>6 DEF PhaseOf
        <3> QED
            BY <2>2, <3>1, MoveStep DEF Lifecycle!Next, Lifecycle!Forget
    <2>7. life[r] \in {"none", "live", "stopping"}
        BY DEF SessionInv, TypeOK, ActorsTypeOK, Lives, Pid
    <2> QED
        BY <2>4, <2>5, <2>6, <2>7
<1> QED
    BY <1>3, <1>4

\* Every step is a step of the cycle or moves nobody.
LEMMA CycleStep == SessionInv /\ [Next]_vars => [Lifecycle!Next]_phase
<1> SUFFICES ASSUME SessionInv, [Next]_vars PROVE Lifecycle!Next \/ UNCHANGED phase
    OBVIOUS
<1>1. TypeOK /\ AskingRuns
    BY DEF SessionInv
<1>2. Quiet => UNCHANGED phase
    BY QuietPhase DEF phase
<1> QED
    BY <1>1, <1>2, StepKinds, StopPhase, StoppedPhase, OpenPhase, CreatePhase, CreatedPhase,
       ForgetPhase

\* Everybody starts off.
LEMMA CycleInit == Init => Lifecycle!Init
<1> SUFFICES ASSUME Init PROVE \A p \in Player : PhaseOf(p) = "off"
    BY DEF Lifecycle!Init
<1> QED
    BY DEF Init, LoginInit, IdleLogin, PhaseOf, Pid

\* Whatever the sessions, the GM and the timeouts do, the directory and the actors keep
\* step: nobody is started twice, or stopped while in the directory but by a GM.
THEOREM KeepsStepHolds == Spec => KeepsStep
<1>1. Init => Lifecycle!Init
    BY CycleInit
<1>2. SessionInv /\ [Next]_vars => [Lifecycle!Next]_[p \in Player |-> PhaseOf(p)]
    BY CycleStep DEF phase
<1> QED
    BY <1>1, <1>2, SessionCorrect, PTL DEF Spec, KeepsStep, Lifecycle!Spec

-----------------------------------------------------------------------------
(* Requests in flight. *)

\* B is what is left of the mailboxes after some of the oldest messages were taken.
Rest(B) == \E off \in [Pid -> Nat] : \A b \in Pid : \A i \in DOMAIN B[b] :
    i + off[b] \in DOMAIN mbox[b] /\ B[b][i] = mbox[b][i + off[b]]

\* After a cast, an entry of a mailbox is an old one or the message.
LEMMA CastEntries ==
    ASSUME NEW boxes \in Boxes, NEW to, NEW m \in Msg, NEW b \in Pid,
           NEW i \in DOMAIN Cast(boxes, to, m)[b]
    PROVE  \/ i \in DOMAIN boxes[b] /\ Cast(boxes, to, m)[b][i] = boxes[b][i]
           \/ /\ b = to /\ life[to] # "none" /\ i = Len(boxes[b]) + 1
              /\ Cast(boxes, to, m)[b][i] = m
<1>1. CASE b = to /\ life[to] # "none"
    <2>1. Cast(boxes, to, m)[b] = Append(boxes[b], m)
        BY <1>1 DEF Cast, Boxes
    <2>2. boxes[b] \in Seq(Msg)
        BY DEF Boxes
    <2> QED
        BY <1>1, <2>1, <2>2
<1>2. CASE ~(b = to /\ life[to] # "none")
    BY <1>2 DEF Cast, Boxes
<1> QED
    BY <1>1, <1>2

\* The mailboxes are a rest of themselves.
LEMMA RestSame == ActorsTypeOK => Rest(mbox)
<1> SUFFICES ASSUME ActorsTypeOK PROVE Rest(mbox)
    OBVIOUS
<1> DEFINE off == [b \in Pid |-> 0]
<1>1. off \in [Pid -> Nat]
    OBVIOUS
<1>2. \A b \in Pid : \A i \in DOMAIN mbox[b] :
          i + off[b] \in DOMAIN mbox[b] /\ mbox[b][i] = mbox[b][i + off[b]]
    BY DEF ActorsTypeOK, Boxes
<1> QED
    BY <1>1, <1>2, Zenon DEF Rest

\* So is what is left after a receive.
LEMMA RestTaken ==
    ASSUME ActorsTypeOK, NEW a \in Pid, mbox[a] # <<>>
    PROVE  Rest(Taken(a))
<1> DEFINE off == [b \in Pid |-> IF b = a THEN 1 ELSE 0]
<1>1. off \in [Pid -> Nat]
    OBVIOUS
<1>2. ASSUME NEW b \in Pid, NEW i \in DOMAIN Taken(a)[b]
      PROVE  i + off[b] \in DOMAIN mbox[b] /\ Taken(a)[b][i] = mbox[b][i + off[b]]
    <2>1. mbox[b] \in Seq(Msg) /\ mbox[a] \in Seq(Msg)
        BY DEF ActorsTypeOK, Boxes
    <2>2. CASE b = a
        <3>1. Taken(a)[b] = Tail(mbox[a])
            BY <2>2 DEF Taken, ActorsTypeOK, Boxes
        <3>2. off[b] = 1
            BY <2>2
        <3> QED
            BY <1>2, <2>1, <2>2, <3>1, <3>2
    <2>3. CASE b # a
        <3>1. Taken(a)[b] = mbox[b] /\ off[b] = 0
            BY <2>3 DEF Taken, ActorsTypeOK, Boxes
        <3>2. i \in Nat
            BY <1>2, <2>1, <3>1
        <3> QED
            BY <1>2, <3>1, <3>2
    <2> QED
        BY <2>2, <2>3
<1> QED
    BY <1>1, <1>2, Zenon DEF Rest

\* So is what is left when an actor ends.
LEMMA RestCleared ==
    ASSUME ActorsTypeOK, NEW a \in Pid
    PROVE  [mbox EXCEPT ![a] = <<>>] \in Boxes /\ Rest([mbox EXCEPT ![a] = <<>>])
<1> DEFINE off == [b \in Pid |-> 0]
           B == [mbox EXCEPT ![a] = <<>>]
<1>1. off \in [Pid -> Nat]
    OBVIOUS
<1>2. ASSUME NEW b \in Pid, NEW i \in DOMAIN B[b]
      PROVE  i + off[b] \in DOMAIN mbox[b] /\ B[b][i] = mbox[b][i + off[b]]
    <2>1. mbox[b] \in Seq(Msg)
        BY DEF ActorsTypeOK, Boxes
    <2>2. CASE b = a
        BY <1>2, <2>2 DEF ActorsTypeOK, Boxes
    <2>3. CASE b # a
        <3>1. B[b] = mbox[b] /\ off[b] = 0
            BY <2>3 DEF ActorsTypeOK, Boxes
        <3>2. i \in Nat
            BY <1>2, <2>1, <3>1
        <3> QED
            BY <1>2, <3>1, <3>2
    <2> QED
        BY <2>2, <2>3
<1>3. B \in Boxes
    BY DEF ActorsTypeOK, Boxes
<1> QED
    BY <1>1, <1>2, <1>3, Zenon DEF Rest

\* What waits in a rest waited before.
LEMMA RestEntries ==
    ASSUME NEW B, Rest(B), NEW b \in Pid, NEW i \in DOMAIN B[b]
    PROVE  \E j \in DOMAIN mbox[b] : B[b][i] = mbox[b][j]
BY Zenon DEF Rest

\* A rest holds at most one request of a call, if the mailboxes did.
LEMMA RestOne ==
    ASSUME NEW B \in Boxes, Rest(B), NEW f, NEW a, OneRequest(mbox, f, a)
    PROVE  OneRequest(B, f, a)
<1>1. PICK off \in [Pid -> Nat] : \A b \in Pid : \A i \in DOMAIN B[b] :
          i + off[b] \in DOMAIN mbox[b] /\ B[b][i] = mbox[b][i + off[b]]
    BY DEF Rest
<1>2. ASSUME NEW b \in Pid, NEW i \in DOMAIN B[b]
      PROVE  /\ B[b][i].from = a => B[b][i].ep <= f.ep
             /\ Asks(a, f, B[b][i]) => f.st = "waiting"
    BY <1>1, <1>2 DEF OneRequest
<1>3. ASSUME NEW b \in Pid, NEW c \in Pid, NEW i \in DOMAIN B[b], NEW j \in DOMAIN B[c],
             Asks(a, f, B[b][i]), Asks(a, f, B[c][j])
      PROVE  b = c /\ i = j
    <2>1. /\ i + off[b] \in DOMAIN mbox[b] /\ B[b][i] = mbox[b][i + off[b]]
          /\ j + off[c] \in DOMAIN mbox[c] /\ B[c][j] = mbox[c][j + off[c]]
        BY <1>1, <1>3
    <2>2. b = c /\ i + off[b] = j + off[c]
        BY <1>3, <2>1 DEF OneRequest
    <2>3. off[b] \in Nat /\ i \in Nat /\ j \in Nat
        BY <1>1, <1>3 DEF Boxes
    <2> QED
        BY <2>2, <2>3
<1> QED
    BY <1>2, <1>3 DEF OneRequest

\* And none, if they held none.
LEMMA RestNone ==
    ASSUME NEW B, Rest(B), NEW f, NEW a, NoneAsks(mbox, f, a)
    PROVE  NoneAsks(B, f, a)
BY RestEntries DEF NoneAsks, Asks

\* Where there is one at most, no other is left when it is taken.
LEMMA TakenNone ==
    ASSUME ActorsTypeOK, NEW b \in Pid, mbox[b] # <<>>, NEW f, NEW a, OneRequest(mbox, f, a),
           Asks(a, f, Head(mbox[b]))
    PROVE  NoneAsks(Taken(b), f, a)
<1>1. mbox[b] \in Seq(Msg) /\ 1 \in DOMAIN mbox[b] /\ Head(mbox[b]) = mbox[b][1]
    BY DEF ActorsTypeOK, Boxes
<1> SUFFICES ASSUME NEW c \in Pid, NEW i \in DOMAIN Taken(b)[c], Asks(a, f, Taken(b)[c][i])
             PROVE  FALSE
    BY DEF NoneAsks
<1>2. mbox[c] \in Seq(Msg)
    BY DEF ActorsTypeOK, Boxes
<1>3. CASE c = b
    <2>1. Taken(b)[c] = Tail(mbox[b])
        BY <1>3 DEF Taken, ActorsTypeOK, Boxes
    <2>2. i + 1 \in DOMAIN mbox[b] /\ i \in Nat /\ i # 0 /\ Taken(b)[c][i] = mbox[b][i + 1]
        BY <1>1, <2>1
    <2> QED
        BY <1>1, <2>2 DEF OneRequest
<1>4. CASE c # b
    <2>1. Taken(b)[c] = mbox[c]
        BY <1>4 DEF Taken, ActorsTypeOK, Boxes
    <2> QED
        BY <1>1, <1>4, <2>1 DEF OneRequest
<1> QED
    BY <1>3, <1>4

\* A message of somebody else changes nothing.
LEMMA CastOther ==
    ASSUME NEW B \in Boxes, NEW to, NEW m \in Msg, NEW f, NEW a, m.from # a
    PROVE  /\ OneRequest(B, f, a) => OneRequest(Cast(B, to, m), f, a)
           /\ NoneAsks(B, f, a) => NoneAsks(Cast(B, to, m), f, a)
<1> DEFINE C == Cast(B, to, m)
<1>1. ASSUME NEW b \in Pid, NEW i \in DOMAIN C[b], C[b][i].from = a
      PROVE  i \in DOMAIN B[b] /\ C[b][i] = B[b][i]
    BY <1>1, CastEntries
<1> HIDE DEF C
<1>2. ASSUME OneRequest(B, f, a)
      PROVE  OneRequest(C, f, a)
    BY <1>1, <1>2 DEF OneRequest, Asks
<1>3. ASSUME NoneAsks(B, f, a)
      PROVE  NoneAsks(C, f, a)
    BY <1>1, <1>3 DEF NoneAsks, Asks
<1> QED
    BY <1>2, <1>3 DEF C

\* A call that begins sends the one request.
LEMMA CastOwn ==
    ASSUME NEW B \in Boxes, NEW to, NEW m \in Msg, NEW f, NEW g, NEW a,
           OneRequest(B, f, a), NoneAsks(B, f, a), Asks(a, f, m), g.ep = f.ep, f.ep \in Nat,
           to \in Pid /\ life[to] # "none" => g.st = "waiting"
    PROVE  OneRequest(Cast(B, to, m), g, a)
<1> DEFINE C == Cast(B, to, m)
<1>1. ASSUME NEW b \in Pid, NEW i \in DOMAIN C[b]
      PROVE  \/ i \in DOMAIN B[b] /\ C[b][i] = B[b][i]
             \/ b = to /\ life[to] # "none" /\ i = Len(B[b]) + 1 /\ C[b][i] = m
    BY <1>1, CastEntries
<1> HIDE DEF C
<1>2. ASSUME NEW b \in Pid, NEW i \in DOMAIN C[b], Asks(a, g, C[b][i])
      PROVE  b = to /\ life[to] # "none" /\ i = Len(B[b]) + 1 /\ g.st = "waiting"
    BY <1>1, <1>2 DEF NoneAsks, Asks
<1>3. ASSUME NEW b \in Pid, NEW i \in DOMAIN C[b], C[b][i].from = a
      PROVE  C[b][i].ep <= g.ep
    BY <1>1, <1>3 DEF OneRequest, Asks
<1> QED
    BY <1>2, <1>3 DEF OneRequest, C

\* A call that does not wait has no request in flight.
LEMMA NotWaiting ==
    ASSUME NEW boxes, NEW f, NEW a, OneRequest(boxes, f, a), f.st # "waiting"
    PROVE  NoneAsks(boxes, f, a)
BY DEF OneRequest, NoneAsks

\* Without a request in flight the call may go on to any state.
LEMMA NoneOne ==
    ASSUME NEW boxes, NEW f, NEW g, NEW a, OneRequest(boxes, f, a), NoneAsks(boxes, f, a),
           g.ep = f.ep
    PROVE  OneRequest(boxes, g, a) /\ NoneAsks(boxes, g, a)
BY DEF OneRequest, NoneAsks, Asks

\* After a timeout the request in flight is an old call's.
LEMMA LaterOne ==
    ASSUME NEW boxes \in Boxes, NEW f, NEW g, NEW a, OneRequest(boxes, f, a),
           f.ep \in Nat, g.ep = f.ep + 1
    PROVE  OneRequest(boxes, g, a) /\ NoneAsks(boxes, g, a)
<1>1. ASSUME NEW b \in Pid, NEW i \in DOMAIN boxes[b], boxes[b][i].from = a
      PROVE  boxes[b][i].ep <= g.ep /\ boxes[b][i].ep # g.ep
    <2>1. boxes[b][i] \in Msg
        BY <1>1 DEF Boxes
    <2>2. boxes[b][i].ep \in Nat /\ boxes[b][i].ep <= f.ep
        BY <1>1, <2>1 DEF OneRequest, Msg
    <2> QED
        BY <2>2
<1> QED
    BY <1>1 DEF OneRequest, NoneAsks, Asks

-----------------------------------------------------------------------------
(* What a step does to the call of an actor a. *)

\* Only Login asks to replace a session.
Lawful(m) == m.kind = "LoginReplace" => m.from = LoginPid

\* Messages are taken, and at most one is sent, not by a.
NoMailFrom(a) == \E B \in Boxes :
    /\ Rest(B)
    /\ \/ mbox' = B
       \/ \E to \in Pid \cup {NoPid}, m \in Msg : m.from # a /\ Lawful(m) /\ mbox' = Cast(B, to, m)

Same(a) == call'[a] = call[a] /\ NoMailFrom(a)

Begins(a) ==
    /\ ~Blocked(a)
    /\ call'[a].ep = call[a].ep /\ call'[a].ret = NoPid /\ call'[a].st # "idle"
    /\ a = LoginPid => LoginOnline
    /\ \E B \in Boxes, to \in Pid, m \in Msg :
          /\ Rest(B) /\ mbox' = Cast(B, to, m)
          /\ Asks(a, call[a], m) /\ Lawful(m)
          /\ life[to] # "none" => call'[a].st = "waiting"

Ends(a) ==
    /\ call[a].st = "done" /\ call'[a].st = "idle" /\ call'[a].ep = call[a].ep
    /\ NoMailFrom(a)

TimesOut(a) ==
    /\ call'[a].st = "done" /\ call'[a].ret = NoPid /\ call'[a].ep = call[a].ep + 1
    /\ NoMailFrom(a)

\* Login is answered by a player that has changed its session; a session is answered when
\* Login is through with its request, and a player's name means that it is served.
Answered(a) ==
    /\ call[a].st = "waiting" /\ call'[a].st = "done" /\ call'[a].ep = call[a].ep
    /\ NoMailFrom(a) /\ NoneAsks(mbox', call[a], a)
    /\ a = LoginPid => \E q \in Player :
          /\ OnLoginReplace(q) /\ Asks(a, call[a], Head(mbox[q]))
          /\ call'[a].ret = q
    /\ a \in Session => /\ ls'.phase = "idle"
                        /\ call'[a].ret # NoPid => LoginReplaced \/ LoginCreated

CallStep(a) == Same(a) \/ Begins(a) \/ Ends(a) \/ TimesOut(a) \/ Answered(a)

\* A message is taken, and a message of somebody else may be sent.
LEMMA QuietMail ==
    ASSUME ActorsTypeOK, NEW a, NEW b \in Pid, mbox[b] # <<>>,
           NEW to \in Pid \cup {NoPid}, NEW m \in Msg,
           m.from # a, Lawful(m),
           mbox' = Taken(b) \/ mbox' = Cast(Taken(b), to, m)
    PROVE  NoMailFrom(a)
<1>1. Taken(b) \in Boxes /\ Rest(Taken(b))
    BY TakenType, RestTaken
<1> QED
    BY <1>1 DEF NoMailFrom

\* A message of somebody else may be sent.
LEMMA SentMail ==
    ASSUME ActorsTypeOK, NEW a, NEW to \in Pid \cup {NoPid}, NEW m \in Msg, m.from # a, Lawful(m),
           mbox' = mbox \/ mbox' = Cast(mbox, to, m)
    PROVE  NoMailFrom(a)
<1>1. mbox \in Boxes /\ Rest(mbox)
    BY RestSame DEF ActorsTypeOK
<1> QED
    BY <1>1 DEF NoMailFrom

\* A message that any cast could be, for a step that sends none.
LEMMA SomeMail ==
    ASSUME NEW a \in Pid
    PROVE  /\ CastMsg("C2S", NoPid) \in Msg /\ CastMsg("C2S", NoPid).from # a
           /\ Lawful(CastMsg("C2S", NoPid))
BY PidAssumption, CastMsgType DEF Kind, CastMsg, Lawful, Pid

\* No cast is anybody's request, or replaces a session.
LEMMA CastIsNobodys ==
    ASSUME NEW a \in Pid, NEW k, k # "LoginReplace", NEW who
    PROVE  CastMsg(k, who).from # a /\ Lawful(CastMsg(k, who))
BY PidAssumption DEF CastMsg, Lawful, Pid

\* What the four changes of a future do to another's.
LEMMA OtherCalls ==
    ASSUME ActorsTypeOK, NEW a \in Pid
    PROVE  /\ \A b, to : b # a => Asked(b, to)[a] = call[a]
           /\ \A b : b # a => Resumed(call, b)[a] = call[a]
           /\ \A b : b # a /\ CallTimeout(b) => call'[a] = call[a]
           /\ \A m, ret : ~Asks(a, call[a], m) \/ call[a].st # "waiting"
                            => Responded(m, ret)[a] = call[a]
BY DEF ActorsTypeOK, Futures, Asked, Resumed, CallTimeout, Responded, Asks

\* And what they do to its own.
LEMMA OwnCalls ==
    ASSUME ActorsTypeOK, NEW a \in Pid
    PROVE  /\ \A to : /\ Asked(a, to)[a].ep = call[a].ep /\ Asked(a, to)[a].ret = NoPid
                      /\ Asked(a, to)[a].st # "idle"
                      /\ life[to] # "none" => Asked(a, to)[a].st = "waiting"
           /\ Resumed(call, a)[a].st = "idle" /\ Resumed(call, a)[a].ep = call[a].ep
           /\ \A m, ret : Asks(a, call[a], m) /\ call[a].st = "waiting" =>
                 /\ Responded(m, ret)[a].st = "done" /\ Responded(m, ret)[a].ret = ret
                 /\ Responded(m, ret)[a].ep = call[a].ep
BY DEF ActorsTypeOK, Futures, Asked, Resumed, Responded, Asks

\* A call that times out.
LEMMA TimeoutCall ==
    ASSUME ActorsTypeOK, NEW a \in Pid, NEW b \in Pid, CallTimeout(b)
    PROVE  CallStep(a)
<1>1. NoMailFrom(a)
    BY SomeMail, SentMail DEF CallTimeout
<1>2. CASE a = b
    BY <1>1, <1>2 DEF CallTimeout, ActorsTypeOK, Futures, CallStep, TimesOut
<1>3. CASE a # b
    BY <1>1, <1>3, OtherCalls DEF CallStep, Same
<1> QED
    BY <1>2, <1>3

\* A call that begins with its message sent from the mailboxes B.
LEMMA BeginsCall ==
    ASSUME ActorsTypeOK, NEW a \in Pid, NEW b \in Pid, ~Blocked(b), NEW kind, NEW who,
           CallMsg(b, kind, who) \in Msg, Lawful(CallMsg(b, kind, who)),
           NEW B \in Boxes, Rest(B), NEW to \in Pid,
           mbox' = Cast(B, to, CallMsg(b, kind, who)), call' = Asked(b, to),
           b = LoginPid => LoginOnline
    PROVE  CallStep(a)
<1>1. CASE a = b
    <2>1. Asks(a, call[a], CallMsg(b, kind, who))
        BY <1>1 DEF Asks, CallMsg
    <2> QED
        BY <1>1, <2>1, OwnCalls DEF CallStep, Begins
<1>2. CASE a # b
    <2>1. CallMsg(b, kind, who).from # a
        BY <1>2 DEF CallMsg
    <2>2. NoMailFrom(a)
        BY <2>1 DEF NoMailFrom
    <2> QED
        BY <1>2, <2>2, OtherCalls DEF CallStep, Same
<1> QED
    BY <1>1, <1>2

-----------------------------------------------------------------------------
\* The steps of a session and of its client.
LEMMA GateCall ==
    ASSUME TypeOK, NEW s \in Session, GateNext(s), NEW a \in Pid
    PROVE  CallStep(a)
<1>1. ActorsTypeOK /\ s \in Pid /\ s # LoginPid /\ LoginPid \in Pid /\ mbox \in Boxes /\ Rest(mbox)
    BY RestSame, PidAssumption DEF TypeOK, Pid, ActorsTypeOK
<1>2. gate[s].playerId \in Player \cup {NoPid} /\ Player \subseteq Pid
    BY DEF TypeOK, GateTypeOK, Pid
<1>3. CASE CallTimeout(s)
    BY <1>1, <1>3, TimeoutCall
<1>4. CASE (\E p \in Player : C2SLogin(s, p)) \/ C2SLogout(s)
    <2>1. PICK kind \in {"login", "logout"}, who \in Player \cup {NoPid} :
              (kind = "login" => who \in Player) /\ AskLogin(s, kind, who) /\ ~Blocked(s)
        BY <1>2, <1>4 DEF C2SLogin, C2SLogout, ClientSends
    <2>2. CallMsg(s, kind, who) \in Msg /\ Lawful(CallMsg(s, kind, who))
        BY <1>1, <1>2, <2>1, CallMsgType DEF Kind, CallMsg, Lawful
    <2> QED
        BY <1>1, <2>1, <2>2, BeginsCall DEF AskLogin
<1>5. CASE C2SForward(s) \/ SessionClosed(s)
    <2>1. CastMsg("C2S", NoPid) \in Msg
        BY CastMsgType DEF Kind
    <2>2. PICK to \in Pid \cup {NoPid} :
              mbox' = mbox \/ mbox' = Cast(mbox, to, CastMsg("C2S", NoPid))
        BY <1>2, <1>5 DEF C2SForward, SessionClosed
    <2>3. CastMsg("C2S", NoPid).from # a /\ Lawful(CastMsg("C2S", NoPid))
        BY CastIsNobodys
    <2>4. NoMailFrom(a)
        BY <1>1, <2>1, <2>2, <2>3, SentMail
    <2> QED
        BY <1>5, <2>4 DEF C2SForward, SessionClosed, CallStep, Same
<1>6. CASE LoginReturns(s) \/ ForgetReturns(s)
    <2>1. CastMsg("LoginSuccess", NoPid) \in Msg
        BY CastMsgType DEF Kind
    <2> DEFINE m == CastMsg("LoginSuccess", NoPid)
    <2>2. PICK to \in Pid \cup {NoPid} : mbox' = mbox \/ mbox' = Cast(mbox, to, m)
        <3>1. call[s].ret \in Pid \cup {NoPid}
            BY <1>1, <1>2 DEF ActorsTypeOK, Futures
        <3> QED
            BY <1>6, <3>1 DEF LoginReturns, ForgetReturns
    <2>3. m.from # a /\ Lawful(m)
        BY CastIsNobodys
    <2>4. NoMailFrom(a)
        BY <1>1, <2>1, <2>2, <2>3, SentMail
    <2>5. call[s].st = "done" /\ call' = Resumed(call, s)
        BY <1>6 DEF LoginReturns, ForgetReturns
    <2>6. CASE a = s
        BY <1>1, <2>4, <2>5, <2>6, OwnCalls DEF CallStep, Ends
    <2>7. CASE a # s
        BY <1>1, <2>4, <2>5, <2>7, OtherCalls DEF CallStep, Same
    <2> QED
        BY <2>6, <2>7
<1>7. CASE OnS2CKick(s)
    <2>1. NoMailFrom(a)
        BY <1>1, <1>7, QuietMail, SomeMail DEF OnS2CKick, Receives
    <2> QED
        BY <1>7, <2>1 DEF OnS2CKick, CallStep, Same
<1>8. CASE SessionStopped(s)
    <2> DEFINE left == [mbox EXCEPT ![s] = <<>>]
    <2>1. left \in Boxes /\ Rest(left)
        BY <1>1, RestCleared
    <2>2. CASE gate[s].playerId = NoPid
        <3>1. mbox' = left /\ call' = call
            BY <1>8, <2>2 DEF SessionStopped
        <3> QED
            BY <2>1, <3>1 DEF CallStep, Same, NoMailFrom
    <2>3. CASE gate[s].playerId # NoPid
        <3>1. /\ mbox' = Cast(left, LoginPid, CallMsg(s, "disconnect", gate[s].playerId))
              /\ call' = Asked(s, LoginPid) /\ ~Blocked(s)
            BY <1>8, <2>3 DEF SessionStopped
        <3>2. /\ CallMsg(s, "disconnect", gate[s].playerId) \in Msg
              /\ Lawful(CallMsg(s, "disconnect", gate[s].playerId))
            BY <1>1, <1>2, CallMsgType DEF Kind, CallMsg, Lawful
        <3> HIDE DEF left
        <3> QED
            BY <1>1, <2>1, <3>1, <3>2, BeginsCall
    <2> QED
        BY <2>2, <2>3
<1> QED
    BY <1>3, <1>4, <1>5, <1>6, <1>7, <1>8
    DEF GateNext, ClientStep, SessionStep, DelayedClose

\* The steps of a player.  Only Login waits for a player, so only Login is answered.
LEMMA PlayerCall ==
    ASSUME TypeOK, ReplaceIsLogins, NEW p \in Player, PlayerNext(p), NEW a \in Pid,
           OneRequest(mbox, call[a], a)
    PROVE  CallStep(a)
<1>1. /\ ActorsTypeOK /\ p \in Pid /\ p # LoginPid /\ LoginPid \in Pid /\ Player \subseteq Pid
      /\ pl[p].session \in Pid \cup {NoPid}
    BY PidAssumption DEF TypeOK, Pid, PlayerTypeOK
<1>2. \A kind : Receives(p, kind) => /\ mbox[p] # <<>> /\ Taken(p) \in Boxes /\ Rest(Taken(p))
                                     /\ Head(mbox[p]) \in Msg /\ Head(mbox[p]) = mbox[p][1]
                                     /\ 1 \in DOMAIN mbox[p]
    BY <1>1, TakenType, RestTaken DEF Receives, ActorsTypeOK, Boxes
<1> DEFINE kick == CastMsg("S2CKick", NoPid)
<1>3. kick \in Msg /\ kick.from # a /\ Lawful(kick)
    BY CastMsgType, CastIsNobodys DEF Kind
<1> HIDE DEF kick
<1>4. CASE CallTimeout(p)
    BY <1>1, <1>4, TimeoutCall
<1>5. CASE \/ OnLoginSuccess(p) \/ OnC2S(p)
           \/ \E kind \in {"Logout", "Disconnect"} : OnLogout(p, kind)
    <2>1. NoMailFrom(a)
        BY <1>2, <1>5 DEF OnLoginSuccess, OnC2S, OnLogout, NoMailFrom
    <2> QED
        BY <1>5, <2>1 DEF OnLoginSuccess, OnC2S, OnLogout, CallStep, Same
<1>6. CASE OnSysKick(p)
    <2>1. NoMailFrom(a)
        BY <1>1, <1>2, <1>3, <1>6 DEF OnSysKick, NoMailFrom, kick
    <2> QED
        BY <1>6, <2>1 DEF OnSysKick, CallStep, Same
<1>7. CASE \E q \in Player : OnC2SAsksLogin(p, q)
    <2>1. PICK q \in Player : OnC2SAsksLogin(p, q)
        BY <1>7
    <2>2. CallMsg(p, "castAgent", q) \in Msg /\ Lawful(CallMsg(p, "castAgent", q))
        BY <1>1, CallMsgType DEF Kind, CallMsg, Lawful
    <2>3. ~Blocked(p) /\ Taken(p) \in Boxes /\ Rest(Taken(p))
        BY <1>2, <2>1 DEF OnC2SAsksLogin, Receives
    <2> QED
        BY <1>1, <2>1, <2>2, <2>3, BeginsCall DEF OnC2SAsksLogin
<1>8. CASE C2SReturns(p)
    <2>1. NoMailFrom(a)
        BY <1>1, <1>8, RestSame DEF C2SReturns, NoMailFrom, ActorsTypeOK
    <2>2. CASE a = p
        BY <1>1, <1>8, <2>1, <2>2, OwnCalls DEF C2SReturns, CallStep, Ends
    <2>3. CASE a # p
        BY <1>1, <1>8, <2>1, <2>3, OtherCalls DEF C2SReturns, CallStep, Same
    <2> QED
        BY <2>2, <2>3
<1>9. CASE OnLoginReplace(p)
    <2> DEFINE m == Head(mbox[p])
    <2>1. /\ m.from = LoginPid /\ m = mbox[p][1] /\ mbox[p] # <<>>
          /\ Taken(p) \in Boxes /\ Rest(Taken(p))
          /\ mbox' = Cast(Taken(p), pl[p].session, kick)
          /\ call' = Responded(m, p)
        BY <1>2, <1>9 DEF OnLoginReplace, Receives, ReplaceIsLogins, kick
    <2>2. NoMailFrom(a)
        BY <1>1, <1>3, <2>1 DEF NoMailFrom
    <2>3. CASE Asks(a, call[a], m) /\ call[a].st = "waiting"
        <3>1. a = LoginPid /\ a \notin Session
            BY <2>1, <2>3, PidAssumption DEF Asks
        <3>2. NoneAsks(Taken(p), call[a], a)
            BY <1>1, <2>1, <2>3, TakenNone
        <3>3. NoneAsks(mbox', call[a], a)
            BY <1>3, <2>1, <3>2, CastOther
        <3>4. call'[a].st = "done" /\ call'[a].ep = call[a].ep /\ call'[a].ret = p
            BY <1>1, <2>1, <2>3, OwnCalls
        <3>5. Answered(a)
            BY <1>9, <2>2, <2>3, <3>1, <3>3, <3>4, Zenon DEF Answered
        <3> QED
            BY <3>5 DEF CallStep
    <2>4. CASE ~(Asks(a, call[a], m) /\ call[a].st = "waiting")
        BY <1>1, <2>1, <2>2, <2>4, OtherCalls DEF CallStep, Same
    <2> QED
        BY <2>3, <2>4
<1>10. CASE PlayerStopped(p)
    <2>1. NoMailFrom(a)
        BY <1>1, <1>10, RestCleared DEF PlayerStopped, NoMailFrom
    <2> QED
        BY <1>10, <2>1 DEF PlayerStopped, CallStep, Same
<1> QED
    BY <1>4, <1>5, <1>6, <1>7, <1>8, <1>9, <1>10 DEF PlayerNext, PlayerStep

\* A kick by the GM.
LEMMA KickCall ==
    ASSUME TypeOK, NEW p \in Player, GMKick(p), NEW a \in Pid
    PROVE  CallStep(a)
<1> DEFINE m == CastMsg("sysKick", p)
<1>1. ActorsTypeOK /\ LoginPid \in Pid /\ m \in Msg /\ m.from # a /\ Lawful(m)
    BY CastMsgType, CastIsNobodys DEF TypeOK, Pid, Kind
<1> HIDE DEF m
<1>2. NoMailFrom(a)
    BY <1>1, SentMail DEF GMKick, m
<1> QED
    BY <1>2 DEF GMKick, CallStep, Same

\* Login answers the request m, which was the only one of its call.
LEMMA LoginAnswers ==
    ASSUME TypeOK, NEW a \in Pid, a # LoginPid, NEW m, NEW ret \in Player \cup {NoPid},
           call'[a] = Responded(m, ret)[a], NoMailFrom(a), ls'.phase = "idle",
           Asks(a, call[a], m) => NoneAsks(mbox', call[a], a),
           ret = NoPid \/ LoginReplaced \/ LoginCreated
    PROVE  CallStep(a)
<1>1. ActorsTypeOK
    BY DEF TypeOK
<1>2. CASE Asks(a, call[a], m) /\ call[a].st = "waiting"
    <2>1. call'[a].st = "done" /\ call'[a].ep = call[a].ep /\ call'[a].ret = ret
        BY <1>1, <1>2, OwnCalls
    <2>2. Answered(a)
        BY <1>2, <2>1, Zenon DEF Answered
    <2> QED
        BY <2>2 DEF CallStep
<1>3. CASE ~(Asks(a, call[a], m) /\ call[a].st = "waiting")
    BY <1>1, <1>3, OtherCalls DEF CallStep, Same
<1> QED
    BY <1>2, <1>3

\* The steps of Login.  A request is answered when it is taken, or when Login is through
\* with it, and it is the only one of its call either way.
LEMMA LoginCall ==
    ASSUME TypeOK, InHand, LoginNext, NEW a \in Pid, OneRequest(mbox, call[a], a)
    PROVE  CallStep(a)
<1>1. /\ ActorsTypeOK /\ LoginPid \in Pid /\ Player \subseteq Pid
      /\ mbox \in Boxes /\ Rest(mbox)
    BY RestSame DEF TypeOK, Pid, ActorsTypeOK
<1>2. \A kind : Handles(kind) =>
          /\ Taken(LoginPid) \in Boxes /\ Rest(Taken(LoginPid)) /\ mbox[LoginPid] # <<>>
          /\ Request \in Msg /\ Request = Head(mbox[LoginPid])
          /\ ls.phase = "idle" /\ call[LoginPid].st = "idle"
    BY <1>1, TakenType, RestTaken DEF Handles, Receives, Request, Blocked
<1>3. UNCHANGED mbox => NoMailFrom(a)
    BY <1>1 DEF NoMailFrom
<1>4. ASSUME UNCHANGED mbox, UNCHANGED call
      PROVE  CallStep(a)
    BY <1>3, <1>4 DEF CallStep, Same
<1>5. ASSUME NEW kind, Handles(kind), call' = Responded(Request, NoPid), NEW to, NEW told,
             ls'.phase = "idle", to \in Pid \cup {NoPid}, told \in {"Logout", "Disconnect"},
             mbox' = Taken(LoginPid) \/ mbox' = Cast(Taken(LoginPid), to, CastMsg(told, NoPid))
      PROVE  CallStep(a)
    <2> DEFINE m == CastMsg(told, NoPid)
    <2>1. m \in Msg /\ m.from # a /\ Lawful(m)
        BY <1>5, CastMsgType, CastIsNobodys DEF Kind
    <2>2. mbox' = Taken(LoginPid) \/ mbox' = Cast(Taken(LoginPid), to, m)
        BY <1>5
    <2> HIDE DEF m
    <2>3. NoMailFrom(a)
        BY <1>2, <1>5, <2>1, <2>2 DEF NoMailFrom
    <2>4. CASE a = LoginPid
        <3>1. call'[a] = call[a]
            BY <1>1, <1>2, <1>5, <2>4, OtherCalls
        <3> QED
            BY <2>3, <3>1 DEF CallStep, Same
    <2>5. CASE a # LoginPid
        <3>1. ASSUME Asks(a, call[a], Request)
              PROVE  NoneAsks(mbox', call[a], a)
            <4>1. NoneAsks(Taken(LoginPid), call[a], a)
                BY <1>1, <1>2, <1>5, <3>1, TakenNone
            <4> QED
                BY <1>2, <1>5, <2>1, <2>2, <4>1, CastOther
        <3> QED
            BY <1>5, <2>3, <2>5, <3>1, LoginAnswers
    <2> QED
        BY <2>4, <2>5
<1>6. CASE LoginFails \/ LoginCastAgent
    <2>1. ls'.phase = "idle" /\ call' = Responded(Request, NoPid) /\ mbox' = Taken(LoginPid)
        BY <1>2, <1>6 DEF LoginFails, LoginCastAgent, Answer, loginVars
    <2>2. Handles("login") \/ Handles("castAgent")
        BY <1>6 DEF LoginFails, LoginCastAgent
    <2> QED
        BY <1>5, <2>1, <2>2
<1>7. CASE LoginLogout \/ LoginDisconnect
    <2>1. PICK kind \in {"logout", "disconnect"}, told \in {"Logout", "Disconnect"} :
              Forget(kind, told)
        BY <1>7 DEF LoginLogout, LoginDisconnect
    <2>2. ls'.phase = "idle" /\ Request.who \in Pid \cup {NoPid} /\ Handles(kind)
        BY <1>2, <2>1 DEF Forget, Msg
    <2> QED
        BY <1>5, <2>1, <2>2 DEF Forget
<1>8. CASE LoginSysKick
    <2> DEFINE m == CastMsg("SysKick", NoPid)
    <2>1. m \in Msg /\ m.from # a /\ Lawful(m)
        BY CastMsgType, CastIsNobodys DEF Kind
    <2>2. mbox' = Taken(LoginPid) \/ mbox' = Cast(Taken(LoginPid), Request.who, m)
        BY <1>8 DEF LoginSysKick
    <2>3. Request.who \in Pid \cup {NoPid} /\ Handles("sysKick")
        BY <1>2, <1>8 DEF LoginSysKick, Msg
    <2> HIDE DEF m
    <2>4. NoMailFrom(a)
        BY <1>2, <2>1, <2>2, <2>3 DEF NoMailFrom
    <2> QED
        BY <1>8, <2>4 DEF LoginSysKick, CallStep, Same
<1>9. CASE LoginLoad \/ LoginBorn
    <2>1. mbox' = Taken(LoginPid) /\ call' = call /\ Handles("login")
        BY <1>9 DEF LoginLoad, LoginBorn
    <2>2. NoMailFrom(a)
        BY <1>2, <2>1 DEF NoMailFrom
    <2> QED
        BY <2>1, <2>2 DEF CallStep, Same
<1>10. CASE LoginOnline
    <2> DEFINE m == CallMsg(LoginPid, "LoginReplace", Request.from)
    <2>1. Request.from \in Session /\ Request.who \in Player /\ Handles("login")
        BY <1>10, HeadLogin DEF LoginOnline
    <2>2. m \in Msg /\ Lawful(m)
        BY <1>1, <2>1, CallMsgType DEF Kind, CallMsg, Lawful, Pid
    <2>3. ~Blocked(LoginPid) /\ Request.who \in Pid
        BY <1>1, <1>2, <2>1 DEF Blocked
    <2> QED
        BY <1>1, <1>2, <1>10, <2>1, <2>2, <2>3, BeginsCall DEF LoginOnline
<1>11. ASSUME NEW ret \in Player \cup {NoPid}, ls.phase # "idle", ls'.phase = "idle",
              UNCHANGED mbox, a # LoginPid, call'[a] = Responded(ls.req, ret)[a],
              ret = NoPid \/ LoginReplaced \/ LoginCreated
       PROVE  CallStep(a)
    <2>1. Asks(a, call[a], ls.req) => NoneAsks(mbox, call[a], a)
        BY <1>11 DEF InHand, Asks, TheSession
    <2>2. Asks(a, call[a], ls.req) => NoneAsks(mbox', call[a], a)
        BY <1>11, <2>1
    <2> QED
        BY <1>3, <1>11, <2>2, LoginAnswers
<1>12. ls.phase # "idle" => ls.req.from # LoginPid /\ ThePlayer \in Player
    BY RequestType, PidAssumption DEF TheSession
<1>13. ASSUME NEW ret, ls.phase # "idle", a = LoginPid
       PROVE  Responded(ls.req, ret)[a] = call[a]
    BY <1>1, <1>12, <1>13, OtherCalls DEF Asks
<1>14. CASE LoginReplaced
    <2> DEFINE ret == call[LoginPid].ret
    <2>1. ret \in Player \cup {NoPid}
        BY <1>1 DEF ActorsTypeOK, Futures
    <2>2. /\ ls.phase # "idle" /\ ls'.phase = "idle" /\ UNCHANGED mbox
          /\ call' = Resumed(Responded(ls.req, ret), LoginPid)
        BY <1>14 DEF LoginReplaced, IdleLogin
    <2>3. CASE a = LoginPid
        <3>1. call[a].st = "done" /\ Responded(ls.req, ret)[a] = call[a]
            BY <1>13, <1>14, <2>2, <2>3 DEF LoginReplaced
        <3>2. Responded(ls.req, ret) \in Futures
            BY <1>1, <2>1, RespondedType
        <3>3. call'[a].st = "idle" /\ call'[a].ep = call[a].ep
            BY <1>1, <2>2, <2>3, <3>1, <3>2 DEF Resumed, Futures
        <3> QED
            BY <1>3, <2>2, <3>1, <3>3 DEF CallStep, Ends
    <2>4. CASE a # LoginPid
        <3>1. Responded(ls.req, ret) \in Futures
            BY <1>1, <2>1, RespondedType
        <3>2. call'[a] = Responded(ls.req, ret)[a]
            BY <1>1, <2>2, <2>4, <3>1 DEF Resumed, Futures
        <3> HIDE DEF ret
        <3> QED
            BY <1>11, <1>14, <2>1, <2>2, <2>4, <3>2
    <2> QED
        BY <2>3, <2>4
<1>15. CASE LoginBornFails \/ LoginNameTaken \/ LoginCreated
    <2>1. /\ ls.phase # "idle" /\ ls'.phase = "idle" /\ UNCHANGED mbox
        BY <1>15 DEF LoginBornFails, LoginNameTaken, LoginCreated, IdleLogin
    <2>2. PICK ret \in {NoPid, ThePlayer} :
              /\ call' = Responded(ls.req, ret)
              /\ ret = NoPid \/ LoginCreated
        BY <1>15 DEF LoginBornFails, LoginNameTaken, LoginCreated
    <2>3. CASE a = LoginPid
        BY <1>3, <1>13, <2>1, <2>2, <2>3 DEF CallStep, Same
    <2>4. CASE a # LoginPid
        BY <1>11, <1>12, <2>1, <2>2, <2>4
    <2> QED
        BY <2>3, <2>4
<1>16. CASE LoginCreate
    BY <1>4, <1>16 DEF LoginCreate
<1>17. CASE CallTimeout(LoginPid)
    BY <1>1, <1>17, TimeoutCall
<1> QED
    BY <1>6, <1>7, <1>8, <1>9, <1>10, <1>14, <1>15, <1>16, <1>17 DEF LoginNext, LoginStep

\* Every step does to the call of every actor one of these.
LEMMA EveryCall ==
    ASSUME TypeOK, InHand, ReplaceIsLogins, [Next]_vars, NEW a \in Pid,
           OneRequest(mbox, call[a], a)
    PROVE  CallStep(a)
<1>1. CASE UNCHANGED vars
    <2>1. mbox \in Boxes /\ Rest(mbox)
        BY RestSame DEF TypeOK, ActorsTypeOK
    <2> QED
        BY <1>1, <2>1 DEF vars, actorVars, CallStep, Same, NoMailFrom
<1> QED
    BY <1>1, GateCall, PlayerCall, KickCall, LoginCall DEF Next

-----------------------------------------------------------------------------
\* At most one request of each call is in flight, after every step.
LEMMA OneRequestStep ==
    ASSUME TypeOK, NEW a \in Pid, OneRequest(mbox, call[a], a), CallStep(a)
    PROVE  OneRequest(mbox, call[a], a)'
<1>1. call[a].ep \in Nat
    BY DEF TypeOK, ActorsTypeOK, Futures
<1>2. ASSUME NoMailFrom(a)
      PROVE  /\ OneRequest(mbox', call[a], a)
             /\ NoneAsks(mbox, call[a], a) => NoneAsks(mbox', call[a], a)
    <2>1. PICK B \in Boxes :
              /\ Rest(B)
              /\ \/ mbox' = B
                 \/ \E to \in Pid \cup {NoPid}, m \in Msg :
                        m.from # a /\ Lawful(m) /\ mbox' = Cast(B, to, m)
        BY <1>2 DEF NoMailFrom
    <2>2. OneRequest(B, call[a], a) /\ (NoneAsks(mbox, call[a], a) => NoneAsks(B, call[a], a))
        BY <2>1, RestOne, RestNone
    <2> QED
        BY <2>1, <2>2, CastOther
<1>3. CASE Same(a)
    BY <1>2, <1>3 DEF Same
<1>4. CASE Begins(a)
    <2>1. NoneAsks(mbox, call[a], a)
        BY <1>4, NotWaiting DEF Begins, Blocked
    <2>2. PICK B \in Boxes, to \in Pid, m \in Msg :
              /\ Rest(B) /\ mbox' = Cast(B, to, m)
              /\ Asks(a, call[a], m)
              /\ life[to] # "none" => call'[a].st = "waiting"
        BY <1>4 DEF Begins
    <2>3. OneRequest(B, call[a], a) /\ NoneAsks(B, call[a], a)
        BY <2>1, <2>2, RestOne, RestNone
    <2>4. call'[a].ep = call[a].ep
        BY <1>4 DEF Begins
    <2> QED
        BY <1>1, <2>2, <2>3, <2>4, CastOwn
<1>5. CASE Ends(a)
    <2>1. NoneAsks(mbox, call[a], a)
        BY <1>5, NotWaiting DEF Ends
    <2> QED
        BY <1>2, <1>5, <2>1, NoneOne DEF Ends
<1>6. CASE TimesOut(a)
    <2>1. OneRequest(mbox', call[a], a) /\ mbox' \in Boxes
        <3>1. mbox' \in Boxes
            BY <1>6, CastType DEF TimesOut, NoMailFrom
        <3> QED
            BY <1>2, <1>6, <3>1 DEF TimesOut
    <2> QED
        BY <1>1, <1>6, <2>1, LaterOne DEF TimesOut
<1>7. CASE Answered(a)
    BY <1>2, <1>7, NoneOne DEF Answered
<1> QED
    BY <1>3, <1>4, <1>5, <1>6, <1>7 DEF CallStep

-----------------------------------------------------------------------------
(* Who changes what AnswerInv is about. *)

\* A rest of the mailboxes and a message of somebody else hold no request of a's call.
LEMMA QuietNone ==
    ASSUME NEW a, NoMailFrom(a), NEW f, NoneAsks(mbox, f, a)
    PROVE  NoneAsks(mbox', f, a)
<1>1. PICK B \in Boxes :
          /\ Rest(B)
          /\ \/ mbox' = B
             \/ \E to \in Pid \cup {NoPid}, m \in Msg :
                    m.from # a /\ Lawful(m) /\ mbox' = Cast(B, to, m)
    BY DEF NoMailFrom
<1>2. NoneAsks(B, f, a)
    BY <1>1, RestNone
<1> QED
    BY <1>1, <1>2, CastOther

\* A call that goes on, other than by its beginning, has no request in flight.
LEMMA OverNone ==
    ASSUME TypeOK, NEW a \in Pid, OneRequest(mbox, call[a], a), CallStep(a), ~Same(a), ~Begins(a)
    PROVE  NoMailFrom(a) /\ NoneAsks(mbox', call'[a], a)
<1>1. OneRequest(mbox', call'[a], a)
    BY OneRequestStep
<1>2. CASE Ends(a) \/ TimesOut(a)
    BY <1>1, <1>2, NotWaiting DEF Ends, TimesOut
<1>3. CASE Answered(a)
    BY <1>1, <1>3, NotWaiting DEF Answered
<1> QED
    BY <1>2, <1>3 DEF CallStep, Ends, TimesOut, Answered

\* Only Login's own steps change the request it works on.
LEMMA RequestSteps ==
    ASSUME [Next]_vars, ls' # ls
    PROVE  \/ LoginOnline \/ LoginLoad \/ LoginBorn
           \/ LoginCreate
           \/ LoginReplaced \/ LoginBornFails \/ LoginNameTaken \/ LoginCreated
BY DEF Next, vars, loginVars, GateNext, PlayerNext, GMKick, LoginNext, LoginStep, LoginFails,
       LoginLogout, LoginDisconnect, Forget, LoginCastAgent, LoginSysKick

\* Login takes up the only request of its session's call.
LEMMA TakesOne ==
    ASSUME TypeOK, \A a \in Pid : OneRequest(mbox, call[a], a),
           LoginOnline \/ LoginLoad \/ LoginBorn
    PROVE  InHand'
<1> DEFINE s == Request.from
<1>1. Handles("login") /\ s \in Session /\ Request \in Msg
    BY HeadLogin DEF LoginOnline, LoginLoad, LoginBorn
<1>2. ls'.req = Request
    <2>1. CASE LoginOnline
        BY <2>1 DEF LoginOnline, TypeOK, LoginTypeOK
    <2>2. CASE LoginLoad
        BY <2>2 DEF LoginLoad
    <2>3. CASE LoginBorn
        BY <2>3 DEF LoginBorn
    <2> QED
        BY <2>1, <2>2, <2>3
<1>3. /\ s \in Pid /\ s # LoginPid /\ ActorsTypeOK /\ LoginPid \in Pid
      /\ Request = mbox[LoginPid][1] /\ Request = Head(mbox[LoginPid])
      /\ 1 \in DOMAIN mbox[LoginPid] /\ mbox[LoginPid] # <<>>
    BY <1>1, PidAssumption DEF Pid, TypeOK, ActorsTypeOK, Boxes, Handles, Receives, Request
<1>4. Request.ep <= call[s].ep /\ (Request.ep = call[s].ep => call[s].st = "waiting")
    BY <1>3 DEF OneRequest, Asks
<1>5. ASSUME Request.ep = call[s].ep
      PROVE  NoneAsks(Taken(LoginPid), call[s], s)
    BY <1>3, <1>5, TakenNone DEF Asks
<1>6. call'[s] = call[s]
    BY <1>3, OtherCalls DEF LoginOnline, LoginLoad, LoginBorn
<1>7. ASSUME Request.ep = call[s].ep
      PROVE  NoneAsks(mbox', call[s], s)
    <2>1. CASE LoginOnline
        <3> DEFINE m == CallMsg(LoginPid, "LoginReplace", s)
        <3>1. m \in Msg /\ m.from # s
            BY <1>1, <1>3, CallMsgType DEF Kind, CallMsg
        <3>2. mbox' = Cast(Taken(LoginPid), Request.who, m)
            BY <2>1 DEF LoginOnline
        <3>3. Taken(LoginPid) \in Boxes
            BY <1>3, TakenType
        <3> HIDE DEF m
        <3> QED
            BY <1>5, <1>7, <3>1, <3>2, <3>3, CastOther
    <2>2. CASE LoginLoad \/ LoginBorn
        BY <1>5, <1>7, <2>2 DEF LoginLoad, LoginBorn
    <2> QED
        BY <2>1, <2>2
<1>8. TheSession' = s
    BY <1>2 DEF TheSession
<1> QED
    BY <1>2, <1>1, <1>4, <1>6, <1>7, <1>8 DEF InHand

\* The request that Login works on stays the only one of a call that waits.
LEMMA InHandStep ==
    ASSUME TypeOK, AnswerInv, [Next]_vars
    PROVE  InHand'
<1>1. CASE ls' = ls \/ LoginCreate
    <2> SUFFICES ASSUME ls'.phase # "idle" PROVE InHand'
        BY DEF InHand
    <2> DEFINE s == TheSession
    <2>1. ls.phase # "idle" /\ ls'.req = ls.req
        BY <1>1 DEF LoginCreate, TypeOK, LoginTypeOK
    <2>2. s \in Session /\ s \in Pid /\ TheSession' = s
        BY <2>1, RequestType DEF Pid, TheSession
    <2>3. /\ ls.req.ep <= call[s].ep
          /\ ls.req.ep = call[s].ep => call[s].st = "waiting" /\ NoneAsks(mbox, call[s], s)
        BY <2>1 DEF AnswerInv, InHand
    <2>4. CallStep(s)
        BY <2>2, EveryCall DEF AnswerInv
    <2>5. ls.req.ep \in Nat /\ call[s].ep \in Nat
        BY <2>1, <2>2 DEF TypeOK, LoginTypeOK, Msg, NoRequest, CastMsg, ActorsTypeOK, Futures
    <2> HIDE DEF s
    <2>6. CASE Same(s)
        BY <2>1, <2>2, <2>3, <2>6, QuietNone DEF Same, InHand
    <2>7. CASE Begins(s) \/ Ends(s)
        BY <2>1, <2>2, <2>3, <2>5, <2>7 DEF Begins, Ends, Blocked, InHand
    <2>8. CASE TimesOut(s)
        BY <2>1, <2>2, <2>3, <2>5, <2>8 DEF TimesOut, InHand
    <2>9. CASE Answered(s)
        BY <2>2, <2>9 DEF Answered
    <2> QED
        BY <2>4, <2>6, <2>7, <2>8, <2>9 DEF CallStep
<1>2. CASE LoginOnline \/ LoginLoad \/ LoginBorn
    BY <1>2, TakesOne DEF AnswerInv
<1>3. CASE LoginReplaced \/ LoginBornFails \/ LoginNameTaken \/ LoginCreated
    BY <1>3 DEF LoginReplaced, LoginBornFails, LoginNameTaken, LoginCreated, IdleLogin, InHand
<1> QED
    BY <1>1, <1>2, <1>3, RequestSteps

\* What is in a mailbox was there, or was sent by somebody other than a and replaces nothing
\* unless Login sent it.
LEMMA QuietEntries ==
    ASSUME NEW a, NoMailFrom(a), NEW b \in Pid, NEW i \in DOMAIN mbox'[b]
    PROVE  \/ \E j \in DOMAIN mbox[b] : mbox'[b][i] = mbox[b][j]
           \/ mbox'[b][i].from # a /\ Lawful(mbox'[b][i])
<1>1. PICK B \in Boxes :
          /\ Rest(B)
          /\ \/ mbox' = B
             \/ \E to \in Pid \cup {NoPid}, m \in Msg :
                    m.from # a /\ Lawful(m) /\ mbox' = Cast(B, to, m)
    BY DEF NoMailFrom
<1>2. CASE mbox' = B
    BY <1>1, <1>2, RestEntries
<1>3. CASE \E to \in Pid \cup {NoPid}, m \in Msg :
               m.from # a /\ Lawful(m) /\ mbox' = Cast(B, to, m)
    <2>1. PICK to \in Pid \cup {NoPid}, m \in Msg :
               m.from # a /\ Lawful(m) /\ mbox' = Cast(B, to, m)
        BY <1>3
    <2>2. (i \in DOMAIN B[b] /\ mbox'[b][i] = B[b][i]) \/ mbox'[b][i] = m
        BY <2>1, CastEntries
    <2> QED
        BY <1>1, <2>1, <2>2, RestEntries
<1> QED
    BY <1>1, <1>2, <1>3

\* Only Login replaces sessions, also in the next state.
LEMMA ReplaceStep ==
    ASSUME TypeOK, AnswerInv, [Next]_vars
    PROVE  ReplaceIsLogins'
<1>1. LoginPid \in Pid /\ Player \subseteq Pid /\ LoginPid \notin Player /\ ActorsTypeOK
    BY PidAssumption DEF Pid, TypeOK
<1>2. OneRequest(mbox, call[LoginPid], LoginPid) /\ CallStep(LoginPid) /\ ReplaceIsLogins
    BY <1>1, EveryCall DEF AnswerInv
<1> SUFFICES ASSUME NEW p \in Player, NEW i \in DOMAIN mbox'[p]
             PROVE  /\ Lawful(mbox'[p][i])
                    /\ Asks(LoginPid, call'[LoginPid], mbox'[p][i]) =>
                          ls'.phase = "replacing" /\ mbox'[p][i].who = TheSession'
    BY DEF ReplaceIsLogins, Lawful
<1>3. \A j \in DOMAIN mbox[p] : Lawful(mbox[p][j])
    BY <1>2 DEF ReplaceIsLogins, Lawful
<1>4. CASE LoginOnline
    <2> DEFINE m == CallMsg(LoginPid, "LoginReplace", Request.from)
    <2>1. Request.from \in Session /\ Request.who \in Player /\ Handles("login")
        BY <1>4, HeadLogin DEF LoginOnline
    <2>2. m \in Msg /\ Lawful(m) /\ m.who = Request.from
        BY <1>1, <2>1, CallMsgType DEF Kind, CallMsg, Lawful, TypeOK, Pid
    <2>3. mbox' = Cast(Taken(LoginPid), Request.who, m) /\ Taken(LoginPid) \in Boxes
        BY <1>1, <1>4, <2>1, TakenType DEF LoginOnline, Handles, Receives
    <2>4. ls'.phase = "replacing" /\ TheSession' = Request.from
        BY <1>4 DEF LoginOnline, TheSession, TypeOK, LoginTypeOK
    <2>5. Taken(LoginPid)[p] = mbox[p]
        BY <2>1, RequestTaken
    <2>6. call'[LoginPid].ep = call[LoginPid].ep
        BY <1>1, <1>4, OwnCalls DEF LoginOnline
    <2>7. NoneAsks(mbox, call[LoginPid], LoginPid)
        BY <1>2, <2>1, NotWaiting DEF Handles, Receives, Blocked
    <2> HIDE DEF m
    <2>8. (i \in DOMAIN mbox[p] /\ mbox'[p][i] = mbox[p][i]) \/ mbox'[p][i] = m
        BY <1>1, <2>2, <2>3, <2>5, CastEntries
    <2>9. CASE i \in DOMAIN mbox[p] /\ mbox'[p][i] = mbox[p][i]
        <3>1. ~Asks(LoginPid, call[LoginPid], mbox[p][i])
            BY <1>1, <2>7, <2>9 DEF NoneAsks
        <3> QED
            BY <1>3, <2>6, <2>9, <3>1 DEF Asks
    <2>10. CASE mbox'[p][i] = m
        BY <2>2, <2>4, <2>10
    <2> QED
        BY <2>8, <2>9, <2>10
<1>5. CASE ~LoginOnline
    <2>1. NoMailFrom(LoginPid) /\ (~Same(LoginPid) => NoneAsks(mbox', call'[LoginPid], LoginPid))
        BY <1>1, <1>2, <1>5, OverNone DEF Begins, Same
    <2>2. CASE mbox'[p][i].from # LoginPid /\ Lawful(mbox'[p][i])
        BY <2>2 DEF Asks
    <2>3. CASE \E j \in DOMAIN mbox[p] : mbox'[p][i] = mbox[p][j]
        <3>1. PICK j \in DOMAIN mbox[p] : mbox'[p][i] = mbox[p][j]
            BY <2>3
        <3>2. ASSUME Asks(LoginPid, call'[LoginPid], mbox'[p][i])
              PROVE  ls'.phase = "replacing" /\ mbox'[p][i].who = TheSession'
            <4>1. Same(LoginPid)
                BY <1>1, <2>1, <3>2 DEF NoneAsks
            <4>2. Asks(LoginPid, call[LoginPid], mbox[p][j])
                BY <3>1, <3>2, <4>1 DEF Same
            <4>3. /\ ls.phase = "replacing" /\ mbox[p][j].who = TheSession
                  /\ call[LoginPid].st = "waiting"
                BY <1>1, <1>2, <4>2 DEF ReplaceIsLogins, OneRequest
            <4>4. ls' = ls
                BY <1>5, <4>3, RequestSteps
                DEF LoginLoad, LoginBorn, Handles, LoginCreate, LoginReplaced, LoginBornFails,
                    LoginNameTaken, LoginCreated
            <4> QED
                BY <3>1, <4>3, <4>4 DEF TheSession
        <3> QED
            BY <1>3, <3>1, <3>2
    <2> QED
        BY <1>1, <2>1, <2>2, <2>3, QuietEntries
<1> QED
    BY <1>4, <1>5

\* The actor that Login creates serves the session that logs in until it is in the
\* directory: nobody can ask it to serve another.
LEMMA CreatedStep ==
    ASSUME SessionInv, AnswerInv, [Next]_vars
    PROVE  CreatedServes'
<1>1. TypeOK /\ ActorsTypeOK /\ PlayerTypeOK /\ LoginPid \in Pid
    BY DEF SessionInv, TypeOK, Pid
<1> SUFFICES ASSUME NEW p \in Player, BeingCreated(p)'
             PROVE  pl'[p].session = TheSession' /\ ~Queued(p, "LoginReplace")'
    BY DEF CreatedServes
<1>2. p \in Pid
    BY DEF Pid
<1>3. CASE LoginCreate
    <2>1. ThePlayer = p /\ TheSession' = TheSession
        BY <1>1, <1>3 DEF LoginCreate, BeingCreated, ThePlayer, TheSession, TypeOK, LoginTypeOK
    <2>2. pl'[p].session = TheSession
        BY <1>1, <1>3, <2>1 DEF LoginCreate, PlayerTypeOK
    <2>3. mbox'[p] = <<>>
        BY <1>3, <2>1 DEF LoginCreate, NameFree, SessionInv, FreeNameHasNoMail
    <2> QED
        BY <2>1, <2>2, <2>3 DEF Queued, Has
<1>4. CASE ~LoginCreate
    <2>1. ls'.phase = "created"
        BY DEF BeingCreated
    <2>2. ls' = ls
        <3>1. ~LoginOnline
            <4>1. LoginOnline => ls'.phase = "replacing"
                BY <1>1 DEF LoginOnline, TypeOK, LoginTypeOK
            <4> QED
                BY <2>1, <4>1
        <3>2. ~(LoginLoad \/ LoginBorn)
            BY <2>1 DEF LoginLoad, LoginBorn
        <3>3. ~(LoginReplaced \/ LoginBornFails \/ LoginNameTaken \/ LoginCreated)
            BY <2>1 DEF LoginReplaced, LoginBornFails, LoginNameTaken, LoginCreated, IdleLogin
        <3> QED
            BY <1>4, <3>1, <3>2, <3>3, RequestSteps
    <2>3. BeingCreated(p) /\ TheSession' = TheSession
        BY <2>2 DEF BeingCreated, ThePlayer, TheSession
    <2>4. pl[p].session = TheSession /\ ~Queued(p, "LoginReplace") /\ life[p] = "live"
        BY <2>3 DEF AnswerInv, CreatedServes, SessionInv, CreatingIsQuiet
    <2>5. ~LoginOnline
        BY <2>1, <2>2 DEF LoginOnline, Handles
    <2>6. NoMailFrom(LoginPid)
        <3>1. CallStep(LoginPid)
            BY <1>1, EveryCall DEF AnswerInv
        <3> QED
            BY <2>5, <3>1 DEF CallStep, Same, Begins, Ends, TimesOut, Answered
    <2>7. ~Queued(p, "LoginReplace")'
        <3> SUFFICES ASSUME NEW i \in DOMAIN mbox'[p], mbox'[p][i].kind = "LoginReplace"
                     PROVE  FALSE
            BY DEF Queued, Has
        <3>1. \A j \in DOMAIN mbox[p] : mbox[p][j].kind # "LoginReplace"
            BY <2>4 DEF Queued, Has
        <3> QED
            BY <1>2, <2>6, <3>1, QuietEntries DEF Lawful
    <2>8. pl'[p].session = pl[p].session
        <3>1. ~OnLoginReplace(p)
            <4>1. mbox[p] # <<>> => 1 \in DOMAIN mbox[p] /\ Head(mbox[p]) = mbox[p][1]
                BY <1>1, <1>2 DEF ActorsTypeOK, Boxes
            <4> QED
                BY <2>4, <4>1 DEF OnLoginReplace, Receives, Queued, Has
        <3>2. ~PlayerStopped(p)
            BY <2>4 DEF PlayerStopped
        <3>3. CASE \E q \in Player : PlayerNext(q)
            <4>1. PICK q \in Player : PlayerNext(q)
                BY <3>3
            <4>2. ASSUME Change(q)
                  PROVE  pl'[p].session = pl[p].session
                BY <1>1, <4>2 DEF Change, PlayerTypeOK
            <4>3. CASE q = p
                BY <1>1, <3>1, <3>2, <4>1, <4>2, <4>3
                DEF PlayerNext, PlayerStep, OnLoginSuccess, OnC2S, OnC2SAsksLogin, C2SReturns,
                    OnLogout, OnSysKick, playerVars, PlayerTypeOK
            <4>4. CASE q # p
                BY <1>1, <4>1, <4>2, <4>4
                DEF PlayerNext, PlayerStep, OnLoginSuccess, OnC2S, OnC2SAsksLogin, C2SReturns,
                    OnLoginReplace, OnLogout, OnSysKick, PlayerStopped, playerVars, PlayerTypeOK
            <4> QED
                BY <4>3, <4>4
        <3>4. CASE ~\E q \in Player : PlayerNext(q)
            BY <1>4, <3>4
            DEF Next, vars, GateNext, GMKick, LoginNext, LoginStep, LoginFails, LoginOnline,
                LoginReplaced, LoginLoad, LoginBorn, LoginBornFails, LoginNameTaken,
                LoginCreated, LoginLogout, LoginDisconnect, Forget, LoginCastAgent,
                LoginSysKick, playerVars
        <3> QED
            BY <3>3, <3>4
    <2> QED
        BY <2>3, <2>4, <2>7, <2>8
<1> QED
    BY <1>3, <1>4

-----------------------------------------------------------------------------
(* The kick stays on its way. *)

\* A kick that waits for a session waits until the session handles it or stops.
LEMMA KickStays ==
    ASSUME TypeOK, [Next]_vars, NEW s \in Session, ~OnS2CKick(s), life'[s] = "live",
           Queued(s, "S2CKick")
    PROVE  Queued(s, "S2CKick")'
<1>1. ActorsTypeOK /\ s \in Pid /\ s \notin Player /\ s # LoginPid /\ LoginPid \in Pid
    BY PidAssumption DEF TypeOK, Pid
<1>2. ASSUME NEW B \in Boxes, B[s] = mbox[s], NEW to, NEW m \in Msg,
             mbox' = B \/ mbox' = Cast(B, to, m)
      PROVE  Queued(s, "S2CKick")'
    BY <1>1, <1>2, HasCast DEF Queued
<1>3. mbox \in Boxes
    BY <1>1 DEF ActorsTypeOK
<1>4. \A b \in Pid \ {s} : mbox[b] # <<>> => Taken(b) \in Boxes /\ Taken(b)[s] = mbox[s]
    BY <1>1, TakenType DEF Taken, ActorsTypeOK, Boxes
<1>5. \A b \in Pid \ {s} : /\ [mbox EXCEPT ![b] = <<>>] \in Boxes
                           /\ [mbox EXCEPT ![b] = <<>>][s] = mbox[s]
    BY <1>1 DEF ActorsTypeOK, Boxes
<1>6. CastMsg("C2S", NoPid) \in Msg
    BY CastMsgType DEF Kind
<1>7. CASE UNCHANGED mbox
    BY <1>7 DEF Queued
<1>8. CASE \E r \in Session : GateNext(r)
    <2>1. PICK r \in Session : GateNext(r)
        BY <1>8
    <2>2. r \in Pid /\ gate[r].playerId \in Player \cup {NoPid} /\ Player \subseteq Pid
        BY DEF TypeOK, GateTypeOK, Pid
    <2>3. CASE (\E p \in Player : C2SLogin(r, p)) \/ C2SLogout(r)
        <3>1. PICK kind \in {"login", "logout"}, who \in Player \cup {NoPid} :
                  (kind = "login" => who \in Player) /\ AskLogin(r, kind, who)
            BY <2>2, <2>3 DEF C2SLogin, C2SLogout
        <3>2. CallMsg(r, kind, who) \in Msg
            BY <1>1, <2>2, <3>1, CallMsgType DEF Kind
        <3> QED
            BY <1>2, <1>3, <3>1, <3>2 DEF AskLogin
    <2>4. CASE LoginReturns(r) \/ C2SForward(r)
        <3>1. CastMsg("LoginSuccess", NoPid) \in Msg
            BY CastMsgType DEF Kind
        <3> QED
            BY <1>2, <1>3, <1>6, <1>7, <2>4, <3>1 DEF LoginReturns, C2SForward
    <2>5. CASE OnS2CKick(r)
        <3>1. r # s /\ mbox[r] # <<>> /\ mbox' = Taken(r)
            BY <2>5 DEF OnS2CKick, Receives
        <3> QED
            BY <1>2, <1>4, <1>6, <2>2, <3>1
    <2>6. CASE SessionStopped(r)
        <3>1. r # s
            BY <1>1, <2>6 DEF SessionStopped, ActorsTypeOK, Lives
        <3>2. CallMsg(r, "disconnect", gate[r].playerId) \in Msg
            BY <1>1, <2>2, CallMsgType DEF Kind
        <3> DEFINE left == [mbox EXCEPT ![r] = <<>>]
        <3>3. \/ mbox' = left
              \/ mbox' = Cast(left, LoginPid, CallMsg(r, "disconnect", gate[r].playerId))
            BY <2>6 DEF SessionStopped
        <3>4. left \in Boxes /\ left[s] = mbox[s]
            BY <1>5, <2>2, <3>1
        <3> HIDE DEF left
        <3> QED
            BY <1>2, <3>2, <3>3, <3>4
    <2> QED
        BY <1>7, <2>1, <2>3, <2>4, <2>5, <2>6
        DEF GateNext, ClientStep, SessionStep, DelayedClose, SessionClosed, ForgetReturns,
            CallTimeout
<1>9. CASE \E p \in Player : PlayerNext(p)
    <2>1. PICK p \in Player : PlayerNext(p)
        BY <1>9
    <2>2. p \in Pid \ {s} /\ \A kind : Receives(p, kind) => mbox[p] # <<>>
        BY <1>1 DEF Pid, Receives
    <2>3. CastMsg("S2CKick", NoPid) \in Msg
        BY CastMsgType DEF Kind
    <2>4. CASE \/ OnLoginSuccess(p) \/ OnC2S(p) \/ OnLoginReplace(p) \/ OnSysKick(p)
               \/ \E kind \in {"Logout", "Disconnect"} : OnLogout(p, kind)
        <3>1. Taken(p) \in Boxes /\ Taken(p)[s] = mbox[s]
            BY <1>4, <2>2, <2>4
            DEF OnLoginSuccess, OnC2S, OnLoginReplace, OnSysKick, OnLogout
        <3>2. mbox' = Taken(p) \/ mbox' = Cast(Taken(p), pl[p].session, CastMsg("S2CKick", NoPid))
            BY <2>4 DEF OnLoginSuccess, OnC2S, OnLoginReplace, OnSysKick, OnLogout
        <3> QED
            BY <1>2, <2>3, <3>1, <3>2
    <2>5. CASE \E q \in Player : OnC2SAsksLogin(p, q)
        <3>1. PICK q \in Player : OnC2SAsksLogin(p, q)
            BY <2>5
        <3>2. CallMsg(p, "castAgent", q) \in Msg
            BY <1>1, <2>2, CallMsgType DEF Kind, Pid
        <3> QED
            BY <1>2, <1>4, <2>2, <3>1, <3>2 DEF OnC2SAsksLogin
    <2>6. CASE PlayerStopped(p)
        BY <1>2, <1>5, <1>6, <2>2, <2>6 DEF PlayerStopped
    <2> QED
        BY <1>7, <2>1, <2>4, <2>5, <2>6
        DEF PlayerNext, PlayerStep, C2SReturns, CallTimeout
<1>10. CASE \E p \in Player : GMKick(p)
    <2>1. PICK p \in Player : GMKick(p)
        BY <1>10
    <2>2. CastMsg("sysKick", p) \in Msg
        BY CastMsgType DEF Kind, Pid
    <2> QED
        BY <1>2, <1>3, <2>1, <2>2 DEF GMKick
<1>11. CASE LoginNext
    <2>1. \A kind : Handles(kind) => Taken(LoginPid) \in Boxes /\ Taken(LoginPid)[s] = mbox[s]
        BY <1>1, <1>4 DEF Handles, Receives
    <2>2. CASE LoginOnline
        <3>1. CallMsg(LoginPid, "LoginReplace", Request.from) \in Msg
            <4>1. Request.from \in Session
                BY <2>2, HeadLogin DEF LoginOnline
            <4> QED
                BY <1>1, <4>1, CallMsgType DEF Kind, Pid
        <3> QED
            BY <1>2, <2>1, <2>2, <3>1 DEF LoginOnline
    <2>3. CASE LoginLogout \/ LoginDisconnect \/ LoginSysKick
        <3>1. \A told \in {"Logout", "Disconnect", "SysKick"} : CastMsg(told, NoPid) \in Msg
            BY CastMsgType DEF Kind
        <3> QED
            BY <1>2, <2>1, <2>3, <3>1 DEF LoginLogout, LoginDisconnect, Forget, LoginSysKick
    <2>4. CASE LoginFails \/ LoginCastAgent \/ LoginLoad \/ LoginBorn
        BY <1>2, <1>6, <2>1, <2>4 DEF LoginFails, LoginCastAgent, LoginLoad, LoginBorn, Answer
    <2> QED
        BY <1>7, <1>11, <2>2, <2>3, <2>4
        DEF LoginNext, LoginStep, LoginReplaced, LoginBornFails, LoginCreate, LoginNameTaken,
            LoginCreated, CallTimeout
<1>12. CASE UNCHANGED vars
    BY <1>7, <1>12 DEF vars, actorVars
<1> QED
    BY <1>8, <1>9, <1>10, <1>11, <1>12 DEF Next

\* A session does not come back.
LEMMA SessionLife ==
    ASSUME TypeOK, [Next]_vars, NEW s \in Session, life'[s] = "live"
    PROVE  life[s] = "live"
<1>1. ActorsTypeOK /\ s \in Pid /\ s \notin Player
    BY PidAssumption DEF TypeOK, Pid
<1>2. CASE \E r \in Session : GateNext(r)
    BY <1>1, <1>2
    DEF GateNext, ClientStep, SessionStep, DelayedClose, C2SLogin, C2SLogout, C2SForward,
        SessionClosed, LoginReturns, ForgetReturns, OnS2CKick, SessionStopped, CallTimeout,
        Stopping, ActorsTypeOK, Lives
<1>3. CASE \E p \in Player : PlayerNext(p)
    BY <1>1, <1>3
    DEF PlayerNext, PlayerStep, OnLoginSuccess, OnC2S, OnC2SAsksLogin, C2SReturns,
        OnLoginReplace, OnLogout, OnSysKick, PlayerStopped, CallTimeout, Stopping,
        ActorsTypeOK, Lives
<1>4. CASE LoginNext
    <2>1. CASE LoginCreate
        <3>1. ThePlayer \in Player
            BY <2>1, RequestType DEF LoginCreate
        <3> QED
            BY <1>1, <2>1, <3>1 DEF LoginCreate, ActorsTypeOK, Lives
    <2>2. CASE ~LoginCreate
        BY <1>4, <2>2
        DEF LoginNext, LoginStep, LoginFails, LoginOnline, LoginReplaced, LoginLoad, LoginBorn,
            LoginBornFails, LoginNameTaken, LoginCreated, LoginLogout, LoginDisconnect, Forget,
            LoginCastAgent, LoginSysKick, Answer, CallTimeout
    <2> QED
        BY <2>1, <2>2
<1>5. CASE (\E p \in Player : GMKick(p)) \/ UNCHANGED vars
    BY <1>5 DEF GMKick, vars, actorVars
<1> QED
    BY <1>2, <1>3, <1>4, <1>5 DEF Next

\* Other steps than the creation of p's actor, its end and a replacement leave alone whom p
\* serves and has served.
LEMMA ServesSame ==
    ASSUME TypeOK, [Next]_vars, NEW p \in Player, life'[p] = "live", ~OnLoginReplace(p),
           ~(LoginCreate /\ ThePlayer = p)
    PROVE  life[p] = "live" /\ served'[p] = served[p] /\ pl'[p].session = pl[p].session
<1>1. ActorsTypeOK /\ PlayerTypeOK /\ p \in Pid /\ p \notin Session
    BY PidAssumption DEF TypeOK, Pid
<1>2. CASE \E q \in Player : PlayerNext(q)
    <2>1. PICK q \in Player : PlayerNext(q)
        BY <1>2
    <2>2. q \in Pid
        BY DEF Pid
    <2>3. life[p] = "live" /\ ~PlayerStopped(p)
        BY <1>1, <2>1, <2>2
        DEF PlayerNext, PlayerStep, OnLoginSuccess, OnC2S, OnC2SAsksLogin, C2SReturns,
            OnLoginReplace, OnLogout, OnSysKick, PlayerStopped, CallTimeout, Stopping,
            ActorsTypeOK, Lives
    <2>4. ASSUME Change(q)
          PROVE  pl'[p].session = pl[p].session /\ served' = served
        BY <1>1, <2>4 DEF Change, PlayerTypeOK
    <2>5. CASE OnLoginSuccess(q) \/ OnC2S(q) \/ C2SReturns(q)
        BY <2>3, <2>4, <2>5 DEF OnLoginSuccess, OnC2S, C2SReturns
    <2>6. CASE \E r \in Player : OnC2SAsksLogin(q, r)
        BY <1>1, <2>3, <2>6 DEF OnC2SAsksLogin, PlayerTypeOK
    <2>7. CASE OnLoginReplace(q) \/ PlayerStopped(q)
        <3>1. q # p
            BY <2>3, <2>7
        <3> QED
            BY <1>1, <2>3, <2>7, <3>1 DEF OnLoginReplace, PlayerStopped, PlayerTypeOK
    <2>8. CASE \/ OnSysKick(q) \/ \E kind \in {"Logout", "Disconnect"} : OnLogout(q, kind)
               \/ UNCHANGED playerVars
        BY <2>3, <2>8 DEF OnSysKick, OnLogout, playerVars
    <2> QED
        BY <2>1, <2>5, <2>6, <2>7, <2>8 DEF PlayerNext, PlayerStep
<1>3. CASE LoginCreate
    <2>1. ThePlayer \in Player /\ ThePlayer # p
        BY <1>3, RequestType DEF LoginCreate
    <2> QED
        BY <1>1, <1>3, <2>1 DEF LoginCreate, PlayerTypeOK, ActorsTypeOK, Lives
<1>4. CASE LoginNext /\ ~LoginCreate
    BY <1>4
    DEF LoginNext, LoginStep, LoginFails, LoginOnline, LoginReplaced, LoginLoad, LoginBorn,
        LoginBornFails, LoginNameTaken, LoginCreated, LoginLogout, LoginDisconnect, Forget,
        LoginCastAgent, LoginSysKick, Answer, CallTimeout, playerVars
<1>5. CASE \E s \in Session : GateNext(s)
    <2>1. life'[p] = life[p]
        BY <1>5, GateQuiet DEF Quiet
    <2> QED
        BY <1>5, <2>1 DEF GateNext, playerVars
<1>6. CASE (\E q \in Player : GMKick(q)) \/ UNCHANGED vars
    BY <1>6 DEF GMKick, vars, actorVars, playerVars
<1> QED
    BY <1>2, <1>3, <1>4, <1>5, <1>6 DEF Next

\* A session that p serves is replaced with a kick, and keeps the kick until it handles it.
LEMMA ServedStep ==
    ASSUME TypeOK, [Next]_vars, NEW s \in Session, NEW p \in Player, ServedOrKicked(s, p),
           ~OnS2CKick(s)
    PROVE  ServedOrKicked(s, p)'
<1>1. ActorsTypeOK /\ PlayerTypeOK /\ p \in Pid /\ s \in Pid /\ s \notin Player
    BY PidAssumption DEF TypeOK, Pid
<1> SUFFICES ASSUME life'[p] = "live", life'[s] = "live", s \in served'[p], pl'[p].session # s
             PROVE  Queued(s, "S2CKick")'
    BY DEF ServedOrKicked
<1>2. life[s] = "live"
    BY SessionLife
<1>3. Queued(s, "S2CKick") => Queued(s, "S2CKick")'
    BY KickStays
<1>4. CASE LoginCreate /\ ThePlayer = p
    BY <1>1, <1>4 DEF LoginCreate, PlayerTypeOK
<1>5. CASE OnLoginReplace(p)
    <2>1. /\ served'[p] = served[p] \cup {Head(mbox[p]).who}
          /\ pl'[p].session = Head(mbox[p]).who
          /\ life' = life
        BY <1>1, <1>5 DEF OnLoginReplace, PlayerTypeOK
    <2>2. CASE pl[p].session = s
        <3>1. Taken(p) \in Boxes /\ CastMsg("S2CKick", NoPid) \in Msg
            BY <1>1, <1>5, TakenType, CastMsgType DEF OnLoginReplace, Receives, Kind
        <3>2. mbox' = Cast(Taken(p), s, CastMsg("S2CKick", NoPid))
            BY <1>5, <2>2 DEF OnLoginReplace
        <3>3. CastMsg("S2CKick", NoPid).kind = "S2CKick"
            BY DEF CastMsg
        <3> QED
            BY <1>1, <1>2, <3>1, <3>2, <3>3, HasCast DEF Queued
    <2>3. CASE pl[p].session # s
        BY <1>2, <1>3, <2>1, <2>3 DEF ServedOrKicked
    <2> QED
        BY <2>2, <2>3
<1>6. CASE ~(LoginCreate /\ ThePlayer = p) /\ ~OnLoginReplace(p)
    <2>1. life[p] = "live" /\ served'[p] = served[p] /\ pl'[p].session = pl[p].session
        BY <1>6, ServesSame
    <2> QED
        BY <1>2, <1>3, <2>1 DEF ServedOrKicked
<1> QED
    BY <1>4, <1>5, <1>6

-----------------------------------------------------------------------------
(* ReplacedIsKicked. *)

\* A session that is told it is served by p is, or has its kick on the way.
LEMMA AnswerStep ==
    ASSUME TypeOK, AnswerInv, [Next]_vars, NEW s \in Session, NEW p \in Player,
           gate'[s].doing = "login", call'[s].st = "done", call'[s].ret = p
    PROVE  ServedOrKicked(s, p)'
<1>1. ActorsTypeOK /\ s \in Pid /\ s # LoginPid /\ LoginPid \in Pid /\ p # NoPid
    BY PidAssumption DEF TypeOK, Pid
<1>2. CallStep(s)
    BY <1>1, EveryCall DEF AnswerInv
<1>3. CASE Same(s)
    <2>1. call[s].st = "done" /\ call[s].ret = p
        BY <1>3 DEF Same
    <2>2. gate[s].doing = "login"
        <3>1. CASE \E r \in Session : GateNext(r)
            <4>1. PICK r \in Session : GateNext(r)
                BY <3>1
            <4>2. CASE r # s
                BY <4>1, <4>2
                DEF GateNext, ClientStep, SessionStep, DelayedClose, C2SLogin, C2SLogout,
                    C2SForward, SessionClosed, LoginReturns, ForgetReturns, OnS2CKick,
                    SessionStopped, CallTimeout, gateVars, TypeOK, GateTypeOK
            <4>3. CASE r = s
                <5>1. Blocked(s) /\ gate'[s].doing # "nothing"
                    BY <2>1 DEF Blocked
                <5>2. UNCHANGED gate \/ LoginReturns(s) \/ ForgetReturns(s)
                    BY <4>1, <4>3, <5>1
                    DEF GateNext, ClientStep, SessionStep, DelayedClose, C2SLogin, C2SLogout,
                        C2SForward, ClientSends, SessionClosed, OnS2CKick, Receives,
                        SessionStopped, CallTimeout, gateVars
                <5>3. ~LoginReturns(s) /\ ~ForgetReturns(s)
                    BY <5>1 DEF LoginReturns, ForgetReturns, TypeOK, GateTypeOK
                <5> QED
                    BY <5>2, <5>3
            <4> QED
                BY <4>2, <4>3
        <3>2. CASE ~\E r \in Session : GateNext(r)
            BY <3>2 DEF Next, vars, PlayerNext, GMKick, LoginNext, gateVars
        <3> QED
            BY <3>1, <3>2
    <2>3. ServedOrKicked(s, p)
        BY <2>1, <2>2 DEF AnswerInv, AnswerHolds
    <2>4. ~OnS2CKick(s)
        BY <2>1 DEF OnS2CKick, Receives, Blocked
    <2> QED
        BY <2>3, <2>4, ServedStep
<1>4. CASE Answered(s)
    <2>1. call[s].st = "waiting" /\ (LoginReplaced \/ LoginCreated) /\ call'[s].ep = call[s].ep
        BY <1>1, <1>4 DEF Answered
    <2>2. /\ ls.phase # "idle" /\ ~OnS2CKick(s)
        BY <2>1 DEF LoginReplaced, LoginCreated, OnS2CKick, Receives, Blocked
    <2>3. Asks(s, call[s], ls.req)
        <3> SUFFICES ASSUME ~Asks(s, call[s], ls.req) PROVE FALSE
            OBVIOUS
        <3>1. \A ret : Responded(ls.req, ret)[s] = call[s]
            BY <1>1, OtherCalls
        <3>2. call'[s] = call[s]
            <4>1. CASE LoginCreated
                BY <3>1, <4>1 DEF LoginCreated
            <4>2. CASE LoginReplaced
                <5>1. call[LoginPid].ret \in Player \cup {NoPid}
                    BY <1>1 DEF ActorsTypeOK, Futures
                <5>2. Responded(ls.req, call[LoginPid].ret) \in Futures
                    BY <1>1, <5>1, RespondedType
                <5> QED
                    BY <1>1, <3>1, <4>2, <5>2 DEF LoginReplaced, Resumed, Futures
            <4> QED
                BY <2>1, <4>1, <4>2
        <3> QED
            BY <2>1, <3>2
    <2>4. TheSession = s /\ ls.req.ep = call[s].ep
        BY <2>3 DEF Asks, TheSession
    <2>5. \A ret : Responded(ls.req, ret)[s].ret = ret
        BY <1>1, <2>1, <2>3, OwnCalls
    <2>6. CASE LoginCreated
        <3>1. p = ThePlayer /\ ls.phase = "created"
            BY <2>5, <2>6 DEF LoginCreated
        <3>2. pl[p].session = s
            BY <2>4, <3>1 DEF AnswerInv, CreatedServes, BeingCreated
        <3>3. ServedOrKicked(s, p)
            BY <3>2 DEF ServedOrKicked
        <3> QED
            BY <2>2, <3>3, ServedStep
    <2>7. CASE LoginReplaced
        <3>1. call[LoginPid].ret \in Player \cup {NoPid}
            BY <1>1 DEF ActorsTypeOK, Futures
        <3>2. Responded(ls.req, call[LoginPid].ret) \in Futures
            BY <1>1, <3>1, RespondedType
        <3>3. call'[s] = Responded(ls.req, call[LoginPid].ret)[s]
            BY <1>1, <2>7, <3>2 DEF LoginReplaced, Resumed, Futures
        <3>4. p = call[LoginPid].ret /\ ls.phase = "replacing" /\ call[LoginPid].st = "done"
            BY <2>5, <2>7, <3>3 DEF LoginReplaced
        <3>5. ServedOrKicked(s, p)
            BY <2>4, <3>4 DEF AnswerInv, AnswerHolds
        <3> QED
            BY <2>2, <3>5, ServedStep
    <2> QED
        BY <2>1, <2>6, <2>7
<1> QED
    BY <1>1, <1>2, <1>3, <1>4 DEF CallStep, Begins, Ends, TimesOut

\* So is the session that Login is about to tell.
LEMMA ReplacingStep ==
    ASSUME TypeOK, TypeOK', AnswerInv, [Next]_vars, NEW p \in Player,
           ls'.phase = "replacing", ls'.req.ep = call'[TheSession'].ep,
           call'[LoginPid].st = "done", call'[LoginPid].ret = p
    PROVE  ServedOrKicked(TheSession, p)'
<1>1. ActorsTypeOK /\ LoginPid \in Pid /\ p # NoPid
    BY PidAssumption DEF TypeOK, Pid
<1>2. CallStep(LoginPid)
    BY <1>1, EveryCall DEF AnswerInv
<1>3. CASE Begins(LoginPid)
    BY <1>1, <1>3 DEF Begins
<1>4. CASE ~Begins(LoginPid)
    <2>1. ls' = ls
        <3>1. ~LoginOnline
            <4>1. LoginOnline => call'[LoginPid].ret = NoPid
                BY <1>1, OwnCalls DEF LoginOnline
            <4> QED
                BY <1>1, <4>1
        <3>2. ~(LoginLoad \/ LoginBorn)
            BY DEF LoginLoad, LoginBorn
        <3>3. ~(LoginReplaced \/ LoginBornFails \/ LoginNameTaken \/ LoginCreated)
            BY DEF LoginReplaced, LoginBornFails, LoginNameTaken, LoginCreated, IdleLogin
        <3>4. ~LoginCreate
            <4>1. LoginCreate => ls'.phase = "created"
                BY DEF LoginCreate, TypeOK, LoginTypeOK
            <4> QED
                BY <4>1
        <3> QED
            BY <3>1, <3>2, <3>3, <3>4, RequestSteps
    <2>2. PICK s \in Session : s = TheSession
        BY <2>1, RequestType
    <2>3. /\ ls.phase = "replacing" /\ TheSession' = s /\ s \in Pid
          /\ ls.req.ep = call'[s].ep
        BY <2>1, <2>2 DEF TheSession, Pid
    <2>4. CASE Same(LoginPid)
        <3>1. CallStep(s)
            BY <2>3, EveryCall DEF AnswerInv
        <3>2. ls.req.ep <= call[s].ep /\ (ls.req.ep = call[s].ep => call[s].st = "waiting")
            BY <2>2, <2>3 DEF AnswerInv, InHand
        <3>3. ls.req.ep \in Nat /\ call[s].ep \in Nat
            BY <2>2, <2>3 DEF TypeOK, LoginTypeOK, Msg, NoRequest, CastMsg, ActorsTypeOK, Futures
        <3>4. ls.req.ep = call[s].ep
            BY <2>3, <3>1, <3>2, <3>3 DEF CallStep, Same, Begins, Ends, TimesOut, Answered
        <3>5. ServedOrKicked(s, p)
            BY <2>2, <2>3, <2>4, <3>4 DEF Same, AnswerInv, AnswerHolds
        <3>6. ~OnS2CKick(s)
            BY <3>2, <3>4 DEF OnS2CKick, Receives, Blocked
        <3>7. ServedOrKicked(s, p)'
            BY <3>5, <3>6, ServedStep
        <3> QED
            BY <2>3, <3>7 DEF ServedOrKicked, Queued
    <2>5. CASE Answered(LoginPid)
        <3>1. PICK q \in Player : /\ OnLoginReplace(q)
                                  /\ Asks(LoginPid, call[LoginPid], Head(mbox[q]))
                                  /\ call'[LoginPid].ret = q
            BY <2>5 DEF Answered
        <3>2. q = p
            BY <3>1
        <3>3. /\ mbox[p] # <<>> /\ mbox[p] \in Seq(Msg)
              /\ 1 \in DOMAIN mbox[p] /\ Head(mbox[p]) = mbox[p][1]
            BY <1>1, <3>1, <3>2 DEF OnLoginReplace, Receives, ActorsTypeOK, Boxes, Pid
        <3>4. Head(mbox[p]).who = s
            BY <2>2, <3>1, <3>2, <3>3 DEF AnswerInv, ReplaceIsLogins
        <3>5. pl'[p].session = s
            BY <3>1, <3>2, <3>4 DEF OnLoginReplace, TypeOK, PlayerTypeOK
        <3> QED
            BY <2>3, <3>5 DEF ServedOrKicked, Queued
    <2> QED
        BY <1>1, <1>2, <1>4, <2>4, <2>5 DEF CallStep, Ends, TimesOut
<1> QED
    BY <1>3, <1>4

\* A session that believes it is served by p is, or has its kick on the way.
LEMMA BelieveStep ==
    ASSUME TypeOK, AnswerInv, [Next]_vars, NEW s \in Session, NEW p \in Player,
           gate'[s].playerId = p
    PROVE  ServedOrKicked(s, p)'
<1>1. ActorsTypeOK /\ s \in Pid /\ p # NoPid
    BY PidAssumption DEF TypeOK, Pid
<1>2. CASE LoginReturns(s)
    <2>1. /\ gate[s].doing = "login" /\ call[s].st = "done"
          /\ ~OnS2CKick(s)
        BY <1>2 DEF LoginReturns, OnS2CKick, Receives, Blocked
    <2>2. CASE call[s].ret = p
        BY <2>1, <2>2, ServedStep DEF AnswerInv, AnswerHolds
    <2>3. CASE call[s].ret # p
        <3>1. gate[s].playerId = p
            BY <1>2, <2>3 DEF LoginReturns, TypeOK, GateTypeOK
        <3>2. ServedOrKicked(s, p)
            BY <3>1 DEF AnswerInv, ReplacedIsKicked, ServedOrKicked
        <3> QED
            BY <2>1, <3>2, ServedStep
    <2> QED
        BY <2>2, <2>3
<1>3. CASE ~LoginReturns(s)
    <2>1. ~OnS2CKick(s)
        BY <1>1 DEF OnS2CKick, TypeOK, GateTypeOK
    <2>2. gate[s].playerId = p
        <3>1. CASE \E r \in Session : GateNext(r)
            <4>1. PICK r \in Session : GateNext(r)
                BY <3>1
            <4>2. CASE r # s
                BY <4>1, <4>2
                DEF GateNext, ClientStep, SessionStep, DelayedClose, C2SLogin, C2SLogout,
                    C2SForward, SessionClosed, LoginReturns, ForgetReturns, OnS2CKick,
                    SessionStopped, CallTimeout, gateVars, TypeOK, GateTypeOK
            <4>3. CASE r = s
                BY <1>3, <2>1, <4>1, <4>3
                DEF GateNext, ClientStep, SessionStep, DelayedClose, C2SLogin, C2SLogout,
                    C2SForward, SessionClosed, ForgetReturns, SessionStopped, CallTimeout,
                    gateVars, TypeOK, GateTypeOK
            <4> QED
                BY <4>2, <4>3
        <3>2. CASE ~\E r \in Session : GateNext(r)
            BY <3>2 DEF Next, vars, PlayerNext, GMKick, LoginNext, gateVars
        <3> QED
            BY <3>1, <3>2
    <2>3. ServedOrKicked(s, p)
        BY <2>2 DEF AnswerInv, ReplacedIsKicked, ServedOrKicked
    <2> QED
        BY <2>1, <2>3, ServedStep
<1> QED
    BY <1>2, <1>3

\* The invariant is inductive, given SessionInv.
LEMMA AnswerInvStep == SessionInv /\ AnswerInv /\ [Next]_vars => AnswerInv'
<1> SUFFICES ASSUME SessionInv, AnswerInv, [Next]_vars PROVE AnswerInv'
    OBVIOUS
<1>1. TypeOK /\ TypeOK'
    BY TypeStep DEF SessionInv
<1>2. \A a \in Pid : OneRequest(mbox, call[a], a)'
    <2> SUFFICES ASSUME NEW a \in Pid PROVE OneRequest(mbox, call[a], a)'
        OBVIOUS
    <2>1. OneRequest(mbox, call[a], a) /\ CallStep(a)
        BY <1>1, EveryCall DEF AnswerInv
    <2> QED
        BY <1>1, <2>1, OneRequestStep
<1>3. InHand' /\ ReplaceIsLogins' /\ CreatedServes'
    BY <1>1, InHandStep, ReplaceStep, CreatedStep
<1>4. AnswerHolds'
    <2>1. \A p \in Player : \A s \in Session :
              gate'[s].doing = "login" /\ call'[s].st = "done" /\ call'[s].ret = p
                  => ServedOrKicked(s, p)'
        BY <1>1, AnswerStep
    <2>2. \A p \in Player :
              /\ ls'.phase = "replacing" /\ ls'.req.ep = call'[TheSession'].ep
              /\ call'[LoginPid].st = "done" /\ call'[LoginPid].ret = p
              => ServedOrKicked(TheSession, p)'
        BY <1>1, ReplacingStep
    <2> QED
        BY <2>1, <2>2 DEF AnswerHolds
<1>5. ReplacedIsKicked'
    <2> SUFFICES ASSUME NEW p \in Player, NEW s \in served'[p], life'[p] = "live",
                        life'[s] = "live", gate'[s].playerId = p, pl'[p].session # s
                 PROVE  Queued(s, "S2CKick")'
        BY DEF ReplacedIsKicked
    <2>1. s \in Session
        BY <1>1 DEF TypeOK, PlayerTypeOK
    <2> QED
        BY <1>1, <2>1, BelieveStep DEF ServedOrKicked
<1> QED
    BY <1>2, <1>3, <1>4, <1>5 DEF AnswerInv

\* Nobody waits for anything at the start.
LEMMA AnswerInvInit == Init => AnswerInv
<1> SUFFICES ASSUME Init PROVE AnswerInv
    OBVIOUS
<1>1. \A b \in Pid : mbox[b] = <<>> /\ call[b].st = "idle"
    BY DEF Init
<1>2. ls.phase = "idle" /\ \A p \in Player : served[p] = {}
    BY DEF Init, LoginInit, IdleLogin, PlayerInit
<1>3. \A s \in Session : gate[s].doing = "nothing"
    BY DEF Init, GateInit
<1>4. \A a \in Pid : OneRequest(mbox, call[a], a)
    BY <1>1 DEF OneRequest
<1>5. InHand /\ ReplaceIsLogins /\ CreatedServes
    BY <1>1, <1>2 DEF InHand, ReplaceIsLogins, CreatedServes, BeingCreated, Pid
<1>6. AnswerHolds /\ ReplacedIsKicked
    BY <1>2, <1>3 DEF AnswerHolds, ReplacedIsKicked
<1> QED
    BY <1>4, <1>5, <1>6 DEF AnswerInv

\* A session that a player's actor has served and serves no longer has its kick on the way,
\* whatever calls have timed out, answers come late and sessions log in again meanwhile.
THEOREM ReplacedIsKickedHolds == Spec => []ReplacedIsKicked
<1>1. AnswerInv => ReplacedIsKicked
    BY DEF AnswerInv
<1> QED
    BY <1>1, InvInit, InvStep, AnswerInvInit, AnswerInvStep, PTL DEF Spec
=============================================================================
