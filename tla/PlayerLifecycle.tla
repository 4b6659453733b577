--------------------------- MODULE PlayerLifecycle ---------------------------
(***************************************************************************)
(* What one main_server promises about a player, whatever its sessions do: *)
(* a cycle in which the directory of online players and the player's actor *)
(* keep step.                                                              *)
(*                                                                         *)
(*   off ---> starting ---> online ---> leaving ---> stopping ---> off     *)
(*                            |                        ^            ^      *)
(*                            +---> kicked ------------+            |      *)
(*                                    |                             |      *)
(*                                    +---> ghost ------------------+      *)
(*                                                                         *)
(* "leaving": out of the directory, the actor runs until it meets its stop *)
(* order; "kicked" and "ghost": stopping and stopped by a GM while still   *)
(* in the directory.                                                       *)
(***************************************************************************)
CONSTANT Player

VARIABLE phase

Phase == {"off", "starting", "online", "leaving", "stopping", "kicked", "ghost"}

TypeOK == phase \in [Player -> Phase]

Init == phase = [p \in Player |-> "off"]

Move(p, from, to) == phase[p] = from /\ phase' = [phase EXCEPT ![p] = to]

Start(p) == Move(p, "off", "starting")
Publish(p) == Move(p, "starting", "online")
Forget(p) == \/ Move(p, "online", "leaving")
             \/ Move(p, "kicked", "stopping")
             \/ Move(p, "ghost", "off")
Kick(p) == Move(p, "online", "kicked")
Stop(p) == Move(p, "leaving", "stopping")
End(p) == Move(p, "stopping", "off") \/ Move(p, "kicked", "ghost")

Next == \E p \in Player :
    Start(p) \/ Publish(p) \/ Forget(p) \/ Kick(p) \/ Stop(p) \/ End(p)

Spec == Init /\ [][Next]_phase

\* What has begun to start or to stop gets there.
FairSpec == Spec /\ \A p \in Player : WF_phase(Publish(p) \/ Stop(p) \/ End(p))
=============================================================================
