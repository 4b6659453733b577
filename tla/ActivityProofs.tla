---------------------------- MODULE ActivityProofs ----------------------------
(***************************************************************************)
(* Theorems about the activities of a server, for any rows, times and      *)
(* number of ids, of commands, configurations and failures: the index and  *)
(* the ids follow the activities, players' data has its activity, a tick   *)
(* brings every activity where its times say, and time alone opens no      *)
(* closed one again.                                                       *)
(*                                                                         *)
(* Every handler is an operator from what the module and Redis hold to     *)
(* what they hold afterwards.  So the lemmas are about such a value m, and *)
(* say of each operator that it keeps Basic, which holds whatever Redis    *)
(* does, and Linked, which holds as long as Redis does not fail.           *)
(***************************************************************************)
EXTENDS ActivityManager, FiniteSetTheorems, WellFoundedInduction, TLAPS

-----------------------------------------------------------------------------
(* The invariant. *)

\* As Manager, without the bound on the ids.
Mgr == [ents : [Id -> Entity \cup {None}], running : Id \cup {0},
        redis : [Id -> Entity \cup {None}], next : Nat \ {0}, data : SUBSET Id]

Indexed(m) ==
    \/ m.running \in Id /\ In(m, m.running, "running")
    \/ m.running = 0 /\ \A i \in Id : ~In(m, i, "running")

\* An id that has not been handed out is not in use.
NewIds(m) == \A i \in Id : i >= m.next => m.ents[i] = None /\ m.redis[i] = None

Basic(m) == m \in Mgr /\ Indexed(m) /\ NewIds(m)

\* What Redis has is there, rows have one activity, data is of a running one, or of one of unp.
RedisIsThere(m) == \A i \in Id :
    m.redis[i] # None => m.ents[i] # None /\ m.ents[i].cfg = m.redis[i].cfg
OnePerRow(m) == \A i, j \in Id :
    m.ents[i] # None /\ m.ents[j] # None /\ m.ents[i].cfg = m.ents[j].cfg => i = j
DataRuns(m, unp) == \A i \in m.data : i \in unp \/ In(m, i, "running")

Linked(m, unp) == RedisIsThere(m) /\ OnePerRow(m) /\ DataRuns(m, unp)

ActivityInv ==
    /\ TypeOK /\ Basic(mgr)
    /\ ~failed => Linked(mgr, unpurged)

-----------------------------------------------------------------------------
(* Activities and ids. *)

\* An activity in another state.
Put(e, state) == [e EXCEPT !.state = state]

\* No activity is "none".
LEMMA NoneIsNone == None \notin Entity /\ None.state = "none"
BY DEF None, Entity, State

\* Changes that keep an activity an activity.
LEMMA EntityFacts ==
    ASSUME NEW e \in Entity
    PROVE  /\ e.state \in State /\ e.cfg \in Cfg /\ e.start \in 0 .. MaxTime
           /\ e.end \in 0 .. MaxTime /\ e.time \in {"close", "always", "timed"}
           /\ e.checked \in BOOLEAN /\ e.manual \in BOOLEAN
           /\ \A s \in State : /\ Put(e, s) \in Entity
                               /\ Put(e, s).state = s
                               /\ Put(e, s).cfg = e.cfg
           /\ Saved(e) \in Entity /\ Saved(e).state = e.state /\ Saved(e).cfg = e.cfg
BY DEF Entity, Saved, Put

\* A set of numbers that is not empty has a least one.
LEMMA LeastNumber ==
    ASSUME NEW S \in SUBSET Nat, S # {} PROVE \E m \in S : \A k \in Nat : k < m => k \notin S
<1> DEFINE R == OpToRel(<, Nat)
<1>1. IsWellFoundedOn(R, Nat) BY NatLessThanWellFounded
<1>2. \A a, b \in Nat : a < b => <<a, b>> \in R BY DEF OpToRel
<1> HIDE DEF R
<1>3. PICK m \in S : \A k \in S : ~(<<k, m>> \in R) BY <1>1, WFMin
<1>4. ASSUME NEW k \in Nat, k < m PROVE k \notin S BY <1>2, <1>3, <1>4
<1>5. QED BY <1>4

\* Of some ids one comes first.
LEMMA FirstIsOne ==
    ASSUME NEW ids \in SUBSET Id, ids # {}, NEW r
    PROVE  First(ids, r) \in ids
<1>1. Id \in SUBSET Nat /\ MaxId \in Nat BY ActivityAssumption DEF Id
<1>2. PICK lo \in ids : \A k \in Nat : k < lo => k \notin ids BY <1>1, LeastNumber
<1>3. PICK hi \in ids : \A k \in ids : k <= hi
    <2> DEFINE mirror == {n \in Nat : \E i \in ids : n = MaxId - i}
    <2>1. \A i \in ids : MaxId - i \in mirror BY <1>1 DEF Id
    <2>2. mirror \in SUBSET Nat /\ mirror # {} BY <2>1
    <2>3. PICK n \in mirror : \A k \in Nat : k < n => k \notin mirror BY <2>2, LeastNumber
    <2>4. PICK i \in ids : n = MaxId - i BY <2>3
    <2>5. ASSUME NEW k \in ids PROVE k <= i
        <3>1. MaxId - k \in mirror /\ MaxId - k \in Nat BY <2>1, <2>2
        <3>2. k \in Nat /\ i \in Nat BY <1>1
        <3> HIDE DEF mirror
        <3>3. ~(MaxId - k < n) BY <2>3, <3>1
        <3>4. QED BY <1>1, <2>4, <3>2, <3>3
    <2>6. QED BY <2>5
<1>4. \A k \in ids : lo <= k BY <1>1, <1>2
<1>5. \E i \in ids : \A j \in ids : IF r.up THEN i <= j ELSE j <= i BY <1>3, <1>4
<1>6. QED BY <1>5 DEF First

\* Each id has its turn, once.
LEMMA TurnFacts ==
    ASSUME NEW r
    PROVE  /\ \A n \in 1 .. MaxId : Turn(n, r) \in Id
           /\ \A i \in Id : \E n \in 1 .. MaxId : Turn(n, r) = i
           /\ \A n, k \in 1 .. MaxId : Turn(n, r) = Turn(k, r) => n = k
<1>1. MaxId \in Nat BY ActivityAssumption
<1>2. ASSUME NEW i \in Id PROVE \E n \in 1 .. MaxId : Turn(n, r) = i
    <2>1. i \in 1 .. MaxId /\ MaxId + 1 - i \in 1 .. MaxId BY <1>1 DEF Id
    <2>2. MaxId + 1 - (MaxId + 1 - i) = i BY <1>1, <2>1
    <2>3. QED BY <2>1, <2>2 DEF Turn
<1>3. QED BY <1>1, <1>2 DEF Turn, Id

-----------------------------------------------------------------------------
(* The state machine. *)

\* A value's parts.
LEMMA MgrFacts ==
    ASSUME NEW m \in Mgr
    PROVE  /\ m = [ents |-> m.ents, running |-> m.running, redis |-> m.redis,
                   next |-> m.next, data |-> m.data]
           /\ m.ents \in [Id -> Entity \cup {None}] /\ m.redis \in [Id -> Entity \cup {None}]
           /\ m.running \in Id \cup {0} /\ m.next \in Nat \ {0} /\ m.data \in SUBSET Id
           /\ 0 \notin Id
<1>1. 0 \notin Id BY DEF Id
<1> HIDE DEF Id
<1>2. QED BY <1>1 DEF Mgr

\* OnEnter and updateState keep the index right.
LEMMA EnteredKeeps ==
    ASSUME NEW m \in Mgr, Indexed(m), NEW i \in Id, m.ents[i] # None, NEW state \in State, NEW r,
           NEW x, x = Entered(m, i, state, r)
    PROVE  /\ x \in Mgr /\ Indexed(x)
           /\ x.next = m.next /\ x.redis = m.redis /\ x.data = m.data
           /\ x.ents = [m.ents EXCEPT ![i] = Put(m.ents[i], state)]
<1> DEFINE e == Put(m.ents[i], state)
<1> DEFINE index ==
        CASE state = "running" -> i
          [] state # "running" /\ m.ents[i].state = "running" /\ m.running = i ->
                 IF Others(m, i) = {} THEN 0 ELSE First(Others(m, i), r)
          [] OTHER -> m.running
<1>1. m.ents[i] \in Entity BY MgrFacts
<1>2. e \in Entity /\ e.state = state /\ e # None
    <2>1. Put(m.ents[i], state) \in Entity /\ Put(m.ents[i], state).state = state
        BY <1>1, EntityFacts
    <2>2. QED BY <2>1, NoneIsNone
<1>3. x = [m EXCEPT !.ents = [m.ents EXCEPT ![i] = e], !.running = index]
    BY MgrFacts DEF Entered, Put
<1> DEFINE others == Others(m, i)
<1>4. others \in SUBSET Id /\ \A j \in others : j # i /\ In(m, j, "running") BY DEF Others
<1>5. \A j \in Id : In(m, j, "running") /\ j # i => j \in others BY DEF Others
<1>6. others # {} => First(others, r) \in others BY <1>4, FirstIsOne
<1>7. index \in Id \cup {0}
    <2> HIDE DEF others
    <2>1. QED BY <1>4, <1>6, MgrFacts DEF others
<1> HIDE DEF index, e
<1>8. /\ x.ents = [m.ents EXCEPT ![i] = e] /\ x.running = index /\ x.redis = m.redis
      /\ x.next = m.next /\ x.data = m.data
      /\ x = [ents |-> x.ents, running |-> x.running, redis |-> x.redis,
              next |-> x.next, data |-> x.data]
    BY <1>3, MgrFacts
<1>9. x.ents \in [Id -> Entity \cup {None}] BY <1>2, <1>8, MgrFacts
<1>10. x \in Mgr BY <1>7, <1>8, <1>9, MgrFacts DEF Mgr
<1>11. /\ x.ents[i] = e /\ \A j \in Id : j # i => x.ents[j] = m.ents[j] BY <1>8, MgrFacts
<1>12. Indexed(x)
    <2>1. \A j \in Id : j # i => (In(x, j, "running") <=> In(m, j, "running"))
        BY <1>11 DEF In
    <2>2. In(x, i, "running") <=> state = "running" BY <1>2, <1>11 DEF In
    <2>3. In(m, i, "running") <=> m.ents[i].state = "running" BY DEF In
    <2>4. CASE state = "running" BY <1>8, <2>2, <2>4 DEF index, Indexed
    <2>5. CASE state # "running" /\ m.ents[i].state = "running" /\ m.running = i
        <3> HIDE DEF others
        <3>1. CASE others = {}
            <4>1. index = 0 BY <2>5, <3>1 DEF index, others
            <4>2. \A j \in Id : ~In(x, j, "running") BY <1>5, <2>1, <2>2, <2>5, <3>1
            <4>3. QED BY <1>8, <4>1, <4>2 DEF Indexed
        <3>2. CASE others # {}
            <4>1. index \in others BY <1>6, <2>5, <3>2 DEF index, others
            <4>2. index \in Id /\ In(x, index, "running") BY <1>4, <2>1, <4>1
            <4>3. QED BY <1>8, <4>2 DEF Indexed
        <3>3. QED BY <3>1, <3>2
    <2>6. CASE state # "running" /\ ~(m.ents[i].state = "running" /\ m.running = i)
        <3>1. index = m.running BY <2>6 DEF index
        <3>2. CASE m.running \in Id /\ In(m, m.running, "running")
            <4>1. m.running # i BY <2>3, <2>6, <3>2
            <4>2. QED BY <1>8, <2>1, <3>1, <3>2, <4>1 DEF Indexed
        <3>3. CASE m.running = 0 /\ \A j \in Id : ~In(m, j, "running")
            BY <1>8, <2>1, <2>2, <2>6, <3>1, <3>3 DEF Indexed
        <3>4. QED BY <3>2, <3>3 DEF Indexed
    <2>7. QED BY <2>4, <2>5, <2>6
<1>13. QED BY <1>8, <1>10, <1>12 DEF e

\* So it keeps the rest, if no data is left behind.
LEMMA EnteredBasic ==
    ASSUME NEW m, Basic(m), NEW i \in Id, m.ents[i] # None, NEW state \in State, NEW r
    PROVE  /\ Basic(Entered(m, i, state, r))
           /\ \A unp : /\ Linked(m, unp)
                       /\ i \in m.data => i \in unp \/ state = "running"
                       => Linked(Entered(m, i, state, r), unp)
<1> DEFINE e == Put(m.ents[i], state)
<1> DEFINE x == Entered(m, i, state, r)
<1>1. m \in Mgr /\ Indexed(m) /\ NewIds(m) BY DEF Basic
<1>2. /\ x \in Mgr /\ Indexed(x)
      /\ x.next = m.next /\ x.redis = m.redis /\ x.data = m.data
      /\ x.ents = [m.ents EXCEPT ![i] = e]
    BY <1>1, EnteredKeeps
<1>3. e \in Entity /\ e # None /\ e.state = state /\ e.cfg = m.ents[i].cfg
    <2>1. m.ents[i] \in Entity BY <1>1, MgrFacts
    <2>2. QED BY <2>1, EntityFacts, NoneIsNone
<1> HIDE DEF e, x
<1>4. x.ents[i] = e /\ \A j \in Id : j # i => x.ents[j] = m.ents[j] BY <1>1, <1>2, MgrFacts
<1>5. NewIds(x) BY <1>1, <1>2, <1>4 DEF NewIds
<1>6. Basic(x) BY <1>2, <1>5 DEF Basic
<1>7. ASSUME NEW unp, Linked(m, unp), i \in m.data => i \in unp \/ state = "running"
      PROVE  Linked(x, unp)
    <2>1. RedisIsThere(x) BY <1>2, <1>3, <1>4, <1>7 DEF Linked, RedisIsThere
    <2>2. OnePerRow(x) BY <1>3, <1>4, <1>7 DEF Linked, OnePerRow
    <2>3. DataRuns(x, unp)
        <3>1. In(x, i, "running") <=> state = "running" BY <1>3, <1>4 DEF In
        <3>2. \A j \in Id : j # i => (In(x, j, "running") <=> In(m, j, "running"))
            BY <1>4 DEF In
        <3>3. m.data \in SUBSET Id BY <1>1, MgrFacts
        <3>4. QED BY <1>2, <1>7, <3>1, <3>2, <3>3 DEF Linked, DataRuns
    <2>4. QED BY <2>1, <2>2, <2>3 DEF Linked
<1>8. QED BY <1>6, <1>7 DEF x

\* A purge takes only data away.
LEMMA PurgedBasic ==
    ASSUME NEW m, Basic(m), NEW i \in Id, NEW r
    PROVE  /\ Basic(Purged(m, i, r)) /\ \A unp : Linked(m, unp) => Linked(Purged(m, i, r), unp)
           /\ Purged(m, i, r).ents = m.ents /\ Purged(m, i, r).next = m.next
           /\ Purged(m, i, r).running = m.running /\ Purged(m, i, r).redis = m.redis
           /\ Purged(m, i, r).data \in SUBSET m.data
           /\ r.del => i \notin Purged(m, i, r).data
<1> DEFINE x == Purged(m, i, r)
<1>1. m \in Mgr BY DEF Basic
<1>2. /\ x.ents = m.ents /\ x.running = m.running /\ x.redis = m.redis /\ x.next = m.next
      /\ x.data \in SUBSET m.data /\ (r.del => i \notin x.data)
      /\ x = [ents |-> x.ents, running |-> x.running, redis |-> x.redis,
              next |-> x.next, data |-> x.data]
    <2>1. m = [ents |-> m.ents, running |-> m.running, redis |-> m.redis,
               next |-> m.next, data |-> m.data]
        BY <1>1, MgrFacts
    <2>2. CASE r.del
        <3>1. x = [m EXCEPT !.data = m.data \ {i}] BY <2>2 DEF Purged
        <3> HIDE DEF x
        <3>2. QED BY <2>1, <2>2, <3>1
    <2>3. CASE ~r.del
        <3>1. x = m BY <2>3 DEF Purged
        <3> HIDE DEF x
        <3>2. QED BY <2>1, <2>3, <3>1
    <2>4. QED BY <2>2, <2>3
<1> HIDE DEF x
<1>3. x \in Mgr BY <1>1, <1>2, MgrFacts DEF Mgr
<1>4. \A j, s : In(x, j, s) <=> In(m, j, s) BY <1>2 DEF In
<1>5. Basic(x)
    <2>1. Indexed(x) BY <1>2, <1>4 DEF Basic, Indexed
    <2>2. NewIds(x) BY <1>2 DEF Basic, NewIds
    <2>3. QED BY <1>3, <2>1, <2>2 DEF Basic
<1>6. ASSUME NEW unp, Linked(m, unp) PROVE Linked(x, unp)
    BY <1>2, <1>4, <1>6 DEF Linked, RedisIsThere, OnePerRow, DataRuns
<1>7. QED BY <1>2, <1>5, <1>6 DEF x

\* handleActionClose.
LEMMA ClosedBasic ==
    ASSUME NEW m, Basic(m), NEW i \in Id, m.ents[i] # None, NEW r,
           NEW z, z = Closed(m, i, r)
    PROVE  /\ Basic(z)
           /\ \A unp : Linked(m, unp) /\ r.del => Linked(z, unp)
           /\ z.next = m.next
           /\ z.ents = [m.ents EXCEPT ![i] = Put(m.ents[i], "closed")]
           /\ ~In(z, i, "running")
<1> DEFINE x == IF In(m, i, "running") THEN Purged(m, i, r) ELSE m
<1>1. /\ Basic(x) /\ \A unp : Linked(m, unp) => Linked(x, unp)
      /\ x.ents = m.ents /\ x.next = m.next /\ x.redis = m.redis /\ x.data \in SUBSET m.data
      /\ (r.del /\ In(m, i, "running") => i \notin x.data)
    BY PurgedBasic
<1>2. z = Entered(x, i, "closed", r) BY DEF Closed
<1> HIDE DEF x
<1> DEFINE y == Entered(x, i, "closed", r)
<1>3. "closed" \in State /\ x \in Mgr /\ Indexed(x) BY <1>1 DEF State, Basic
<1>4. /\ y.next = x.next /\ y.redis = x.redis /\ y.data = x.data
      /\ y.ents = [x.ents EXCEPT ![i] = Put(x.ents[i], "closed")]
    BY <1>1, <1>3, EnteredKeeps
<1>5. Basic(y) BY <1>1, <1>3, EnteredBasic
<1>6. ASSUME NEW unp, Linked(m, unp), r.del PROVE Linked(y, unp)
    <2>1. i \in x.data => i \in unp BY <1>1, <1>6 DEF Linked, DataRuns
    <2>2. Linked(x, unp) BY <1>1, <1>6
    <2>3. QED BY <1>1, <1>3, <2>1, <2>2, EnteredBasic
<1>7. ~In(y, i, "running")
    <2>1. m.ents[i] \in Entity /\ m \in Mgr BY MgrFacts DEF Basic
    <2>2. Put(m.ents[i], "closed").state = "closed" BY <1>3, <2>1, EntityFacts
    <2>3. y.ents[i] = Put(m.ents[i], "closed") BY <1>1, <1>4, <2>1, MgrFacts
    <2>4. QED BY <2>2, <2>3 DEF In
<1> HIDE DEF y
<1>8. z = y BY <1>2 DEF y
<1>9. QED BY <1>1, <1>4, <1>5, <1>6, <1>7, <1>8

\* An activity that is gone, from the store and from Redis.
LEMMA GoneBasic ==
    ASSUME NEW m, Basic(m), NEW i \in Id, ~In(m, i, "running"), NEW r,
           NEW x, x = Forgotten(Deleted(m, i), i, r)
    PROVE  /\ Basic(x)
           /\ \A unp : Linked(m, unp) /\ r.del /\ (i \in m.data => i \in unp) => Linked(x, unp)
           /\ x.ents = [m.ents EXCEPT ![i] = None] /\ x.next = m.next /\ x.running = m.running
           /\ x.data = m.data
           /\ \A j \in Id : x.redis[j] # None => x.redis[j] = m.redis[j]
<1>1. m \in Mgr /\ Indexed(m) /\ NewIds(m) BY DEF Basic
<1>2. m.running # i BY <1>1, MgrFacts DEF Indexed
<1>3. /\ x.ents = [m.ents EXCEPT ![i] = None] /\ x.running = m.running /\ x.data = m.data
      /\ x.next = m.next
      /\ x.redis = IF r.del THEN [m.redis EXCEPT ![i] = None] ELSE m.redis
      /\ x = [ents |-> x.ents, running |-> x.running, redis |-> x.redis,
              next |-> x.next, data |-> x.data]
    <2> DEFINE d == Deleted(m, i)
    <2>1. m = [ents |-> m.ents, running |-> m.running, redis |-> m.redis,
               next |-> m.next, data |-> m.data]
        BY <1>1, MgrFacts
    <2>2. d = [m EXCEPT !.ents = [m.ents EXCEPT ![i] = None], !.running = m.running]
        BY <1>2 DEF Deleted
    <2> HIDE DEF d
    <2>3. /\ d.ents = [m.ents EXCEPT ![i] = None] /\ d.running = m.running /\ d.data = m.data
          /\ d.next = m.next /\ d.redis = m.redis
          /\ d = [ents |-> d.ents, running |-> d.running, redis |-> d.redis,
                  next |-> d.next, data |-> d.data]
        BY <2>1, <2>2
    <2>4. CASE r.del
        <3>1. x = [d EXCEPT !.redis = [d.redis EXCEPT ![i] = None]]
            BY <2>4 DEF Forgotten, d
        <3>2. QED BY <2>3, <2>4, <3>1
    <2>5. CASE ~r.del
        <3>1. x = d BY <2>5 DEF Forgotten, d
        <3>2. QED BY <2>3, <2>5, <3>1
    <2>6. QED BY <2>4, <2>5
<1>4. /\ x.ents \in [Id -> Entity \cup {None}] /\ x.ents[i] = None
      /\ \A j \in Id : j # i => x.ents[j] = m.ents[j]
    BY <1>1, <1>3, MgrFacts
<1>5. /\ x.redis \in [Id -> Entity \cup {None}]
      /\ \A j \in Id : x.redis[j] = IF r.del /\ j = i THEN None ELSE m.redis[j]
    BY <1>1, <1>3, MgrFacts
<1>6. x \in Mgr BY <1>1, <1>3, <1>4, <1>5, MgrFacts DEF Mgr
<1>7. \A j \in Id : In(x, j, "running") <=> In(m, j, "running") BY <1>4 DEF In
<1>8. Indexed(x) BY <1>1, <1>3, <1>7 DEF Indexed
<1>9. NewIds(x) BY <1>1, <1>3, <1>4, <1>5 DEF NewIds
<1>10. ASSUME NEW unp, Linked(m, unp), r.del, i \in m.data => i \in unp PROVE Linked(x, unp)
    <2>1. RedisIsThere(x) BY <1>4, <1>5, <1>10 DEF Linked, RedisIsThere
    <2>2. OnePerRow(x) BY <1>4, <1>10 DEF Linked, OnePerRow
    <2>3. DataRuns(x, unp)
        <3>1. m.data \in SUBSET Id BY <1>1, MgrFacts
        <3>2. QED BY <1>3, <1>7, <1>10, <3>1 DEF Linked, DataRuns
    <2>4. QED BY <2>1, <2>2, <2>3 DEF Linked
<1>11. QED BY <1>3, <1>5, <1>6, <1>8, <1>9, <1>10 DEF Basic

\* handleActionRestart: the activity is gone, and back under the next id.
LEMMA RestartedBasic ==
    ASSUME NEW m, Basic(m), NEW i \in Id, m.ents[i] # None, ~In(m, i, "running"), NEW r,
           NEW x, x = Restarted(m, i, r)
    PROVE  /\ Basic(x)
           /\ \A unp : Linked(m, unp) /\ r.del => Linked(x, unp)
           /\ x.next \in Nat /\ x.next >= m.next /\ x.ents[i] = None
           /\ \A j \in Id : j # i /\ j < m.next => x.ents[j] = m.ents[j]
<1> DEFINE e == m.ents[i]
           g == Forgotten(Deleted(Purged(m, i, r), i), i, r)
           n == g.next
           b == [e EXCEPT !.manual = FALSE]
           w == Put(b, "waiting")
<1>1. m \in Mgr /\ Indexed(m) /\ NewIds(m) BY DEF Basic
<1>2. e \in Entity /\ e.state # "running" BY <1>1, MgrFacts DEF In
<1>3. /\ b \in Entity /\ b.state = e.state /\ b.cfg = e.cfg
      /\ w \in Entity /\ w.state = "waiting" /\ w.cfg = e.cfg /\ w # None /\ b # None
    <2>1. b \in Entity /\ b.state = e.state /\ b.cfg = e.cfg BY <1>2 DEF Entity
    <2> HIDE DEF b
    <2>2. "waiting" \in State BY DEF State
    <2>3. QED BY <2>1, <2>2, EntityFacts, NoneIsNone
<1> DEFINE p == Purged(m, i, r)
<1>4. /\ Basic(p) /\ \A unp : Linked(m, unp) => Linked(p, unp)
      /\ p.ents = m.ents /\ p.next = m.next /\ p.running = m.running /\ p.redis = m.redis
      /\ (r.del => i \notin p.data)
    BY PurgedBasic
<1>5. ~In(p, i, "running") BY <1>4 DEF In
<1>6. /\ Basic(g)
      /\ \A unp : Linked(p, unp) /\ r.del /\ (i \in p.data => i \in unp) => Linked(g, unp)
      /\ g.ents = [m.ents EXCEPT ![i] = None] /\ g.next = m.next /\ g.running = m.running
    <2> HIDE DEF p
    <2>1. g = Forgotten(Deleted(p, i), i, r) BY DEF p
    <2> HIDE DEF g
    <2>2. QED BY <1>4, <1>5, <2>1, GoneBasic
<1>7. \A unp : Linked(m, unp) /\ r.del => Linked(g, unp) BY <1>4, <1>6
<1>8. x = IF ~r.id THEN g
          ELSE Entered(Stored([g EXCEPT !.next = @ + 1], n, b), n, "waiting", r)
    BY DEF Restarted
<1> HIDE DEF e, g, b, w, p
<1>9. g \in Mgr /\ Indexed(g) /\ NewIds(g) /\ n \in Nat \ {0} BY <1>6, MgrFacts DEF Basic
<1>10. \A j \in Id : g.ents[j] = IF j = i THEN None ELSE m.ents[j] BY <1>1, <1>6, MgrFacts
<1>11. CASE ~r.id
    <2>1. x = g BY <1>8, <1>11
    <2>2. x.next >= m.next /\ x.next \in Nat /\ x.ents[i] = None BY <1>6, <1>9, <1>10, <2>1
    <2>3. QED BY <1>6, <1>7, <1>10, <2>1, <2>2
<1>12. CASE r.id
    <2> DEFINE s == Stored([g EXCEPT !.next = @ + 1], n, b)
    <2>1. /\ s.ents = [g.ents EXCEPT ![n] = b] /\ s.running = g.running /\ s.redis = g.redis
          /\ s.next = n + 1 /\ s.data = g.data
          /\ s = [ents |-> s.ents, running |-> s.running, redis |-> s.redis,
                  next |-> s.next, data |-> s.data]
        <3>1. g = [ents |-> g.ents, running |-> g.running, redis |-> g.redis,
                   next |-> g.next, data |-> g.data]
            BY <1>9, MgrFacts
        <3> DEFINE h == [g EXCEPT !.next = @ + 1]
        <3>2. /\ h.ents = g.ents /\ h.running = g.running /\ h.redis = g.redis
              /\ h.next = n + 1 /\ h.data = g.data
              /\ h = [ents |-> h.ents, running |-> h.running, redis |-> h.redis,
                      next |-> h.next, data |-> h.data]
            BY <3>1 DEF n
        <3>3. s = Stored(h, n, b) OBVIOUS
        <3> HIDE DEF h
        <3>4. s = [h EXCEPT !.ents = [h.ents EXCEPT ![n] = b], !.running = h.running]
            BY <1>2, <1>3, <3>3 DEF Stored
        <3> HIDE DEF s
        <3>5. QED BY <3>2, <3>4
    <2>2. x = Entered(s, n, "waiting", r) BY <1>8, <1>12
    <2> HIDE DEF s
    <2>3. s.running # n
        <3>1. CASE n \in Id
            <4>1. g.ents[n] = None BY <1>9, <3>1 DEF NewIds
            <4>2. ~In(g, n, "running") BY <4>1 DEF In
            <4>3. QED BY <1>9, <2>1, <4>2 DEF Indexed
        <3>2. CASE n \notin Id BY <1>9, <2>1, <3>2 DEF Indexed
        <3>3. QED BY <3>1, <3>2
    <2>4. /\ x.running = g.running /\ x.redis = g.redis /\ x.next = n + 1 /\ x.data = g.data
          /\ x.ents = [s.ents EXCEPT ![n].state = "waiting"]
          /\ x = [ents |-> x.ents, running |-> x.running, redis |-> x.redis,
                  next |-> x.next, data |-> x.data]
        <3>1. x = [s EXCEPT !.ents[n].state = "waiting", !.running = s.running]
            BY <2>2, <2>3 DEF Entered
        <3>2. QED BY <2>1, <3>1
    <2>5. \A j \in Id : x.ents[j] = IF j = n THEN w ELSE g.ents[j]
        <3>1. DOMAIN g.ents = Id /\ DOMAIN s.ents = Id BY <1>9, <2>1, MgrFacts
        <3>2. \A j \in Id : s.ents[j] = IF j = n THEN b ELSE g.ents[j] BY <2>1, <3>1
        <3>3. \A j \in Id : x.ents[j] = IF j = n THEN Put(s.ents[n], "waiting")
                                        ELSE s.ents[j]
            BY <2>4, <3>1 DEF Put
        <3>4. QED BY <3>2, <3>3 DEF w
    <2>6. x \in Mgr
        <3>1. x.ents \in [Id -> Entity \cup {None}]
            <4>1. DOMAIN x.ents = Id /\ x.ents = [j \in DOMAIN x.ents |-> x.ents[j]]
                BY <1>9, <2>1, <2>4, MgrFacts
            <4>2. \A j \in Id : x.ents[j] \in Entity \cup {None} BY <1>3, <1>9, <2>5, MgrFacts
            <4>3. QED BY <4>1, <4>2
        <3>2. x.next \in Nat \ {0} BY <1>9, <2>4
        <3>3. QED BY <1>9, <2>4, <3>1, <3>2, MgrFacts DEF Mgr
    <2>7. \A j \in Id : In(x, j, "running") <=> In(g, j, "running")
        <3>1. n \in Id => g.ents[n] = None BY <1>9 DEF NewIds
        <3>2. QED BY <1>3, <2>5, <3>1 DEF In
    <2>8. Indexed(x) BY <1>9, <2>4, <2>7 DEF Indexed
    <2>9. NewIds(x)
        <3>1. \A j \in Id : j >= n + 1 => j >= n /\ j # n BY <1>9 DEF Id
        <3>2. QED BY <1>9, <2>4, <2>5, <3>1 DEF NewIds
    <2>10. ASSUME NEW unp, Linked(m, unp), r.del PROVE Linked(x, unp)
        <3>1. Linked(g, unp) BY <1>7, <2>10
        <3>2. n \in Id => g.redis[n] = None /\ n # i
            <4>1. n \in Id => g.redis[n] = None BY <1>9 DEF NewIds
            <4>2. n \in Id => m.ents[n] = None BY <1>1, <1>6, <1>9 DEF NewIds
            <4>3. QED BY <4>1, <4>2
        <3>3. RedisIsThere(x) BY <2>4, <2>5, <3>1, <3>2 DEF Linked, RedisIsThere
        <3>4. OnePerRow(x)
            <4>1. \A j \in Id : g.ents[j] # None => g.ents[j].cfg # e.cfg
                BY <1>10, <2>10 DEF Linked, OnePerRow, e
            <4>2. QED BY <1>3, <2>5, <3>1, <4>1 DEF Linked, OnePerRow
        <3>5. DataRuns(x, unp)
            <4>1. g.data \in SUBSET Id BY <1>9, MgrFacts
            <4>2. QED BY <2>4, <2>7, <3>1, <4>1 DEF Linked, DataRuns
        <3>6. QED BY <3>3, <3>4, <3>5 DEF Linked
    <2>11. \A j \in Id : j # i /\ j < m.next => x.ents[j] = m.ents[j]
        <3>1. \A j \in Id : j < m.next => j # n BY <1>6, <1>9 DEF Id
        <3>2. QED BY <1>10, <2>5, <3>1
    <2>12. x.next \in Nat /\ x.next >= m.next BY <1>6, <1>9, <2>4
    <2>13. x.ents[i] = None
        <3>1. i # n
            <4>1. n \in Id => m.ents[n] = None BY <1>1, <1>6, <1>9 DEF NewIds
            <4>2. QED BY <4>1
        <3>2. QED BY <1>10, <2>5, <3>1
    <2>14. QED BY <2>13, <2>6, <2>8, <2>9, <2>10, <2>11, <2>12 DEF Basic
<1>13. QED BY <1>11, <1>12

\* A step of the activity i, from m to x, that keeps what it should and leaves the others alone.
Keeps(m, x, i, r) ==
    /\ Basic(x)
    /\ \A unp : Linked(m, unp) /\ r.del => Linked(x, unp)
    /\ x.next \in Nat /\ x.next >= m.next
    /\ \A j \in Id : j # i /\ j < m.next => x.ents[j] = m.ents[j]

\* What an event makes of an activity.
Became(event, e, z) ==
    /\ event \in {"start", "recover"} => z = Put(e, "running")
    /\ event = "close" => z = Put(e, "closed")
    /\ event = "restart" => z = None
    /\ event = "none" => z = e

\* An activity in the place of another.
Placed(m, i, e) == [m EXCEPT !.ents[i] = e]

\* Trigger, but for a stop, and what becomes of the activity.
LEMMA TriggerBasic ==
    ASSUME NEW m, Basic(m), NEW i \in Id, m.ents[i] # None, NEW r,
           NEW event \in {"start", "recover", "close", "restart", "none"},
           event = "restart" => ~In(m, i, "running"),
           NEW x, x = Trigger(m, i, event, r)
    PROVE  Keeps(m, x, i, r) /\ Became(event, m.ents[i], x.ents[i])
<1>1. m \in Mgr /\ Indexed(m) /\ m.next \in Nat /\ m.next >= m.next BY MgrFacts DEF Basic
<1>2. CASE event \in {"start", "recover"}
    <2>1. x = Entered(m, i, "running", r) BY <1>2 DEF Trigger
    <2>2. "running" \in State BY DEF State
    <2>3. /\ x.next = m.next
          /\ x.ents = [m.ents EXCEPT ![i] = Put(m.ents[i], "running")]
        BY <1>1, <2>1, <2>2, EnteredKeeps
    <2>4. Basic(x) /\ \A unp : Linked(m, unp) => Linked(x, unp)
        BY <2>1, <2>2, EnteredBasic
    <2>5. QED BY <1>1, <1>2, <2>3, <2>4, MgrFacts DEF Keeps, Became
<1>3. CASE event = "close"
    <2>1. x = Closed(m, i, r) BY <1>3 DEF Trigger
    <2>2. /\ Basic(x) /\ \A unp : Linked(m, unp) /\ r.del => Linked(x, unp)
          /\ x.next = m.next /\ x.ents = [m.ents EXCEPT ![i] = Put(m.ents[i], "closed")]
        BY <2>1, ClosedBasic
    <2>3. QED BY <1>1, <1>3, <2>2, MgrFacts DEF Keeps, Became
<1>4. CASE event = "restart"
    <2>1. x = Restarted(m, i, r) BY <1>4 DEF Trigger
    <2>2. QED BY <1>4, <2>1, RestartedBasic DEF Keeps, Became
<1>5. CASE event = "none"
    <2>1. x = m BY <1>5 DEF Trigger
    <2>2. QED BY <1>1, <1>5, <2>1 DEF Keeps, Became
<1>6. QED BY <1>2, <1>3, <1>4, <1>5

\* An activity that is replaced by one in the same state, of the same row.
LEMMA ReplacedBasic ==
    ASSUME NEW m, Basic(m), NEW i \in Id, m.ents[i] # None, NEW e \in Entity,
           e.state = m.ents[i].state, e.cfg = m.ents[i].cfg,
           NEW x, x = Placed(m, i, e), NEW r
    PROVE  /\ Keeps(m, x, i, r) /\ x.next = m.next /\ x.ents[i] = e
           /\ \A unp : Linked(m, unp) => Linked(x, unp)
<1>1. m \in Mgr /\ Indexed(m) /\ NewIds(m) BY DEF Basic
<1>2. /\ x.ents = [m.ents EXCEPT ![i] = e] /\ x.running = m.running /\ x.redis = m.redis
      /\ x.next = m.next /\ x.data = m.data
      /\ x = [ents |-> x.ents, running |-> x.running, redis |-> x.redis,
              next |-> x.next, data |-> x.data]
    BY <1>1, MgrFacts DEF Placed
<1>3. e # None BY NoneIsNone
<1>4. x.ents[i] = e /\ \A j \in Id : j # i => x.ents[j] = m.ents[j] BY <1>1, <1>2, MgrFacts
<1>5. x \in Mgr BY <1>1, <1>2, MgrFacts DEF Mgr
<1>6. \A j \in Id : In(x, j, "running") <=> In(m, j, "running") BY <1>3, <1>4 DEF In
<1>7. Indexed(x) BY <1>1, <1>2, <1>6 DEF Indexed
<1>8. NewIds(x) BY <1>1, <1>2, <1>3, <1>4 DEF NewIds
<1>9. ASSUME NEW unp, Linked(m, unp) PROVE Linked(x, unp)
    <2>1. RedisIsThere(x) BY <1>2, <1>3, <1>4, <1>9 DEF Linked, RedisIsThere
    <2>2. OnePerRow(x) BY <1>3, <1>4, <1>9 DEF Linked, OnePerRow
    <2>3. DataRuns(x, unp)
        <3>1. m.data \in SUBSET Id BY <1>1, MgrFacts
        <3>2. QED BY <1>2, <1>6, <1>9, <3>1 DEF Linked, DataRuns
    <2>4. QED BY <2>1, <2>2, <2>3 DEF Linked
<1>10. Basic(x) BY <1>5, <1>7, <1>8 DEF Basic
<1>11. x.next \in Nat /\ x.next >= m.next BY <1>1, <1>2, MgrFacts
<1>12. QED BY <1>2, <1>4, <1>9, <1>10, <1>11 DEF Keeps

-----------------------------------------------------------------------------
(* The tick. *)

\* A row that is read again.
LEMMA RereadFacts ==
    ASSUME conf \in [Cfg -> Conf], NEW e \in Entity
    PROVE  /\ Reread(e) \in Entity /\ Reread(e).state = e.state /\ Reread(e).cfg = e.cfg
           /\ Reread(e) # None
<1> DEFINE c == conf[e.cfg]
<1>1. e.cfg \in Cfg /\ e.manual \in BOOLEAN BY EntityFacts
<1>2. c \in Row BY <1>1, ConfAssumption
<1>3. /\ c.time \in {"close", "always", "timed"}
      /\ c.start \in 0 .. MaxTime /\ c.end \in 0 .. MaxTime
    BY <1>2 DEF Row
<1> DEFINE manual == e.manual /\ ~(c.time = "timed" /\ <<c.start, c.end>> # <<e.start, e.end>>)
<1>4. manual \in BOOLEAN OBVIOUS
<1>5. Reread(e) = [e EXCEPT !.time = c.time, !.start = c.start, !.end = c.end,
                            !.checked = TRUE, !.manual = manual]
    BY DEF Reread
<1> HIDE DEF c, manual
<1>6. Reread(e) \in Entity /\ Reread(e).state = e.state /\ Reread(e).cfg = e.cfg
    BY <1>3, <1>4, <1>5 DEF Entity
<1>7. QED BY <1>6, NoneIsNone

\* The events of a tick.
LEMMA EventFacts ==
    ASSUME NEW e
    PROVE  /\ ConfEvent(e) \in {"start", "restart", "close", "none"}
           /\ ConfEvent(e) = "restart" => e.state = "closed"
           /\ e.state = "closed" /\ conf[e.cfg].time # "always" => ConfEvent(e) = "none"
           /\ StateEvent(e) \in {"start", "close", "none"}
           /\ e.state = "closed" => StateEvent(e) = "none"
BY DEF ConfEvent, StateEvent

\* The event that the time brings is the one that settles the activity.
LEMMA EventSettles ==
    ASSUME NEW e \in Entity, now \in 0 .. MaxTime
    PROVE  /\ StateEvent(e) = "start" => Settled(Put(e, "running"))
           /\ StateEvent(e) = "close" => Settled(Put(e, "closed"))
           /\ StateEvent(e) = "none" => Settled(e)
<1>1. /\ MaxTime \in Nat /\ e.start \in 0 .. MaxTime /\ e.end \in 0 .. MaxTime
      /\ e.state \in State /\ e.time \in {"close", "always", "timed"} /\ e # None
    BY ActivityAssumption, EntityFacts, NoneIsNone
<1>2. \A s \in State : /\ Put(e, s).state = s /\ Put(e, s) # None
                       /\ Put(e, s).time = e.time /\ Put(e, s).start = e.start
                       /\ Put(e, s).end = e.end
    <2>1. \A s \in State : Put(e, s).state = s /\ Put(e, s) \in Entity BY EntityFacts
    <2>2. ASSUME NEW s \in State
          PROVE  Put(e, s).time = e.time /\ Put(e, s).start = e.start /\ Put(e, s).end = e.end
        BY DEF Put, Entity
    <2>3. QED BY <2>1, <2>2, NoneIsNone
<1>3. CASE StateEvent(e) = "start"
    <2>1. e.state = "waiting" /\ (e.time = "always" \/ now \in e.start .. e.end - 1)
        BY <1>3 DEF StateEvent
    <2>2. e.time = "timed" => now \in e.start .. e.end BY <1>1, <2>1
    <2> DEFINE z == Put(e, "running")
    <2>3. z.state = "running" /\ z # None /\ z.time = e.time /\ z.start = e.start /\ z.end = e.end
        BY <1>2 DEF State
    <2> HIDE DEF z
    <2>4. Settled(z) BY <2>2, <2>3 DEF Settled
    <2>5. QED BY <1>3, <2>4 DEF z
<1>4. CASE StateEvent(e) = "close"
    <2> DEFINE z == Put(e, "closed")
    <2>1. z.state = "closed" BY <1>2 DEF State
    <2> HIDE DEF z
    <2>2. Settled(z) BY <2>1 DEF Settled
    <2>3. QED BY <1>4, <2>2 DEF z
<1>5. CASE StateEvent(e) = "none"
    <2>1. CASE e.state = "waiting"
        <3>1. /\ e.time # "always" /\ now \notin e.start .. e.end - 1
              /\ ~(now >= e.end)
            BY <1>5, <2>1 DEF StateEvent
        <3>2. now < e.start /\ now < e.end BY <1>1, <3>1
        <3>3. QED BY <1>1, <1>5, <2>1, <3>1, <3>2 DEF Settled
    <2>2. CASE e.state = "running" BY <1>1, <1>5, <2>2 DEF StateEvent, Settled
    <2>3. CASE e.state = "stopped"
        <3>1. e.time = "always" \/ ~(e.end > 0) \/ ~(now >= e.end)
            BY <1>5, <2>3 DEF StateEvent
        <3>2. e.time = "always" \/ e.end = 0 \/ now < e.end BY <1>1, <3>1
        <3>3. QED BY <1>1, <1>5, <2>3, <3>2 DEF Settled
    <2>4. CASE e.state = "closed" BY <1>5, <2>4 DEF Settled
    <2>5. QED BY <1>1, <2>1, <2>2, <2>3, <2>4 DEF State
<1>6. QED BY <1>3, <1>4, <1>5, EventFacts

\* What the tick owes an activity e that it leaves as z.
Treated(e, z) ==
    /\ e.checked => Settled(z)
    /\ e.state = "closed" /\ (e.checked \/ conf[e.cfg].time # "always")
           => z # None /\ z.state = "closed"

\* The tick, for one activity.
LEMMA TickOneBasic ==
    ASSUME conf \in [Cfg -> Conf], now \in 0 .. MaxTime,
           NEW m, Basic(m), NEW i \in Id, m.ents[i] # None, NEW r,
           NEW x, x = TickOne(m, i, r)
    PROVE  Keeps(m, x, i, r) /\ Treated(m.ents[i], x.ents[i])
<1>1. PICK e : e = m.ents[i] OBVIOUS
<1>2. e \in Entity BY <1>1, MgrFacts DEF Basic
<1>3. CASE ~e.checked
    <2>1. PICK n : n = Reread(e) OBVIOUS
    <2>2. PICK y : y = Placed(m, i, n) OBVIOUS
    <2>3. PICK event : event = ConfEvent(e) OBVIOUS
    <2>4. x = Trigger(y, i, event, r) BY <1>1, <1>3, <2>1, <2>2, <2>3 DEF TickOne, Placed
    <2>5. n \in Entity /\ n.state = e.state /\ n.cfg = e.cfg /\ n # None
        BY <1>2, <2>1, RereadFacts
    <2>6. /\ event \in {"start", "recover", "restart", "close", "none"}
          /\ event = "restart" => e.state = "closed"
          /\ e.state = "closed" /\ conf[e.cfg].time # "always" => event = "none"
        BY <2>3, EventFacts
    <2>7. Keeps(m, y, i, r) /\ y.next = m.next /\ y.ents[i] = n
        BY <1>1, <2>2, <2>5, ReplacedBasic
    <2>8. Basic(y) /\ y.ents[i] # None BY <2>5, <2>7 DEF Keeps
    <2>9. event = "restart" => ~In(y, i, "running") BY <2>5, <2>6, <2>7 DEF In
    <2>10. Keeps(y, x, i, r) /\ Became(event, n, x.ents[i])
        BY <2>4, <2>6, <2>7, <2>8, <2>9, TriggerBasic
    <2>11. Keeps(m, x, i, r) BY <2>7, <2>10 DEF Keeps
    <2>12. Treated(e, x.ents[i]) BY <1>3, <2>5, <2>6, <2>10 DEF Treated, Became
    <2>13. QED BY <1>1, <2>11, <2>12
<1>4. CASE e.checked
    <2>1. PICK event : event = StateEvent(e) OBVIOUS
    <2>2. x = Trigger(m, i, event, r) BY <1>1, <1>4, <2>1 DEF TickOne
    <2>3. /\ event \in {"start", "recover", "restart", "close", "none"}
          /\ event \in {"start", "close", "none"} /\ (e.state = "closed" => event = "none")
        BY <2>1, EventFacts
    <2>4. Keeps(m, x, i, r) /\ Became(event, e, x.ents[i])
        BY <1>1, <2>2, <2>3, TriggerBasic
    <2>5. Settled(x.ents[i])
        <3>1. /\ event = "start" => Settled(Put(e, "running"))
              /\ event = "close" => Settled(Put(e, "closed"))
              /\ event = "none" => Settled(e)
            BY <1>2, <2>1, EventSettles
        <3>2. QED BY <2>3, <2>4, <3>1 DEF Became
    <2>6. Treated(e, x.ents[i]) BY <1>2, <2>3, <2>4, <2>5, NoneIsNone DEF Treated, Became
    <2>7. QED BY <1>1, <2>4, <2>6
<1>5. QED BY <1>3, <1>4

\* The first k steps of a tick.
IsWalk(f, k, m, r) ==
    f = [n \in 0 .. k |-> IF n = 0 THEN m
                          ELSE IF m.ents[Turn(n, r)] = None THEN f[n - 1]
                          ELSE TickOne(f[n - 1], Turn(n, r), r)]

\* There are such steps.
LEMMA WalkExists ==
    ASSUME NEW m, NEW r, NEW k \in Nat PROVE \E f : IsWalk(f, k, m, r)
<1> DEFINE Bad == {n \in Nat : ~\E f : IsWalk(f, n, m, r)}
<1>1. SUFFICES ASSUME Bad # {} PROVE FALSE OBVIOUS
<1>2. PICK n \in Bad : \A j \in Nat : j < n => j \notin Bad BY <1>1, LeastNumber
<1>3. n \in Nat /\ ~\E f : IsWalk(f, n, m, r) OBVIOUS
<1>4. CASE n = 0
    <2> DEFINE f == [j \in 0 .. 0 |-> m]
    <2>1. f = [j \in 0 .. 0 |-> IF j = 0 THEN m
                                ELSE IF m.ents[Turn(j, r)] = None THEN f[j - 1]
                                ELSE TickOne(f[j - 1], Turn(j, r), r)]
        OBVIOUS
    <2> HIDE DEF f
    <2>2. IsWalk(f, 0, m, r) BY <2>1 DEF IsWalk
    <2>3. QED BY <1>3, <1>4, <2>2
<1>5. CASE n # 0
    <2>1. n - 1 \in Nat /\ n - 1 < n /\ n - 1 + 1 = n BY <1>3, <1>5
    <2>2. n - 1 \notin Bad BY <1>2, <2>1
    <2>3. PICK f : IsWalk(f, n - 1, m, r) BY <2>1, <2>2
    <2> HIDE DEF Bad
    <2> DEFINE One(x, j) == IF m.ents[Turn(j, r)] = None THEN x ELSE TickOne(x, Turn(j, r), r)
    <2> DEFINE g == [j \in 0 .. n |-> IF j = n THEN One(f[n - 1], n) ELSE f[j]]
    <2> HIDE DEF One
    <2>4. f = [j \in 0 .. n - 1 |-> IF j = 0 THEN m ELSE One(f[j - 1], j)]
        BY <2>3 DEF IsWalk, One
    <2>5. \A j \in 0 .. n : g[j] = IF j = 0 THEN m ELSE One(g[j - 1], j)
        <3> SUFFICES ASSUME NEW j \in 0 .. n PROVE g[j] = IF j = 0 THEN m ELSE One(g[j - 1], j)
            OBVIOUS
        <3>1. CASE j = n
            <4>1. n - 1 \in 0 .. n /\ n - 1 # n BY <2>1
            <4>2. g[n - 1] = f[n - 1] BY <4>1
            <4>3. QED BY <1>5, <3>1, <4>2
        <3>2. CASE j # n
            <4>1. j \in 0 .. n - 1 BY <1>3, <3>2
            <4>2. g[j] = f[j] BY <3>2
            <4>3. j # 0 => j - 1 \in 0 .. n /\ j - 1 # n BY <1>3, <3>2
            <4>4. j # 0 => g[j - 1] = f[j - 1] BY <4>3
            <4>5. f[j] = IF j = 0 THEN m ELSE One(f[j - 1], j) BY <2>4, <4>1
            <4>6. QED BY <4>2, <4>4, <4>5
        <3>3. QED BY <3>1, <3>2
    <2>6. DOMAIN g = 0 .. n /\ g = [j \in 0 .. n |-> g[j]] OBVIOUS
    <2> HIDE DEF g
    <2>7. g = [j \in 0 .. n |-> IF j = 0 THEN m ELSE One(g[j - 1], j)] BY <2>5, <2>6
    <2>8. IsWalk(g, n, m, r) BY <2>7 DEF IsWalk, One
    <2>9. QED BY <1>3, <2>8
<1>6. QED BY <1>4, <1>5

\* A tick is such a walk, along all the ids.
LEMMA TickedIsWalk ==
    ASSUME NEW m, NEW r
    PROVE  \E f : IsWalk(f, MaxId, m, r) /\ Ticked(m, r) = f[MaxId]
<1> DEFINE f == CHOOSE g : IsWalk(g, MaxId, m, r)
<1>1. MaxId \in Nat BY ActivityAssumption
<1>2. IsWalk(f, MaxId, m, r) BY <1>1, WalkExists
<1>3. Ticked(m, r) = f[MaxId] BY DEF Ticked, IsWalk
<1> HIDE DEF f
<1>4. QED BY <1>2, <1>3

\* After k steps those activities are treated whose turn has come.
HadTurn(i, k, r) == \E n \in 1 .. k : Turn(n, r) = i
Walked(m, x, k, r) ==
    /\ Basic(x)
    /\ \A unp : Linked(m, unp) /\ r.del => Linked(x, unp)
    /\ x.next \in Nat /\ x.next >= m.next
    /\ \A i \in Id : m.ents[i] # None =>
           IF HadTurn(i, k, r) THEN Treated(m.ents[i], x.ents[i]) ELSE x.ents[i] = m.ents[i]

\* One step.
LEMMA OneStep ==
    ASSUME conf \in [Cfg -> Conf], now \in 0 .. MaxTime, NEW m, Basic(m), NEW r,
           NEW n \in 1 .. MaxId, NEW x, Walked(m, x, n - 1, r), NEW y,
           y = IF m.ents[Turn(n, r)] = None THEN x ELSE TickOne(x, Turn(n, r), r)
    PROVE  Walked(m, y, n, r)
<1>1. PICK i : i = Turn(n, r) OBVIOUS
<1>2. i \in Id BY <1>1, TurnFacts
<1>3. \A j \in Id : HadTurn(j, n, r) <=> HadTurn(j, n - 1, r) \/ j = i
    <2>1. MaxId \in Nat BY ActivityAssumption
    <2>2. \A l : l \in 1 .. n <=> l \in 1 .. n - 1 \/ l = n BY <2>1
    <2>3. QED BY <1>1, <2>2 DEF HadTurn
<1>4. ~HadTurn(i, n - 1, r)
    <2>1. MaxId \in Nat BY ActivityAssumption
    <2>2. \A l \in 1 .. n - 1 : l \in 1 .. MaxId /\ l # n BY <2>1
    <2>3. \A l \in 1 .. n - 1 : Turn(l, r) # Turn(n, r) BY <2>2, TurnFacts
    <2>4. QED BY <1>1, <2>3 DEF HadTurn
<1>5. CASE m.ents[i] = None
    <2>1. y = x BY <1>1, <1>5
    <2>2. QED BY <1>3, <1>5, <2>1 DEF Walked
<1>6. CASE m.ents[i] # None
    <2>1. y = TickOne(x, i, r) BY <1>1, <1>6
    <2>2. x.ents[i] = m.ents[i] /\ x.ents[i] # None BY <1>2, <1>4, <1>6 DEF Walked
    <2>3. Basic(x) BY DEF Walked
    <2>4. Keeps(x, y, i, r) /\ Treated(x.ents[i], y.ents[i])
        BY <1>2, <2>1, <2>2, <2>3, TickOneBasic
    <2>5. /\ Basic(y) /\ \A unp : Linked(m, unp) /\ r.del => Linked(y, unp)
        BY <2>4 DEF Keeps, Walked
    <2>6. m.next \in Nat BY MgrFacts DEF Basic
    <2>7. y.next \in Nat /\ y.next >= m.next BY <2>4, <2>6 DEF Keeps, Walked
    <2>8. ASSUME NEW j \in Id, m.ents[j] # None, j # i PROVE y.ents[j] = x.ents[j]
        <3>1. ~(j >= m.next) BY <2>8 DEF Basic, NewIds
        <3>2. j \in Nat BY DEF Id
        <3>3. j < x.next BY <2>6, <3>1, <3>2 DEF Walked
        <3>4. QED BY <2>4, <2>8, <3>3 DEF Keeps
    <2>9. ASSUME NEW j \in Id, m.ents[j] # None
          PROVE  IF HadTurn(j, n, r) THEN Treated(m.ents[j], y.ents[j]) ELSE y.ents[j] = m.ents[j]
        <3>1. CASE j = i BY <1>3, <2>2, <2>4, <3>1
        <3>2. CASE j # i
            <4>1. y.ents[j] = x.ents[j] BY <2>8, <2>9, <3>2
            <4>2. HadTurn(j, n, r) <=> HadTurn(j, n - 1, r) BY <1>3, <3>2
            <4>3. QED BY <2>9, <4>1, <4>2 DEF Walked
        <3>3. QED BY <3>1, <3>2
    <2>10. QED BY <2>5, <2>7, <2>9 DEF Walked
<1>7. QED BY <1>5, <1>6

\* A walk up to any of its steps.
LEMMA WalkBasic ==
    ASSUME conf \in [Cfg -> Conf], now \in 0 .. MaxTime, NEW m, Basic(m), NEW r,
           NEW f, IsWalk(f, MaxId, m, r), NEW k \in 0 .. MaxId
    PROVE  Walked(m, f[k], k, r)
<1> DEFINE Bad == {n \in 0 .. MaxId : ~Walked(m, f[n], n, r)}
<1>1. MaxId \in Nat BY ActivityAssumption
<1>2. SUFFICES ASSUME Bad # {} PROVE FALSE OBVIOUS
<1>3. Bad \in SUBSET Nat BY <1>1
<1>4. PICK n \in Bad : \A j \in Nat : j < n => j \notin Bad BY <1>2, <1>3, LeastNumber
<1>5. n \in 0 .. MaxId /\ ~Walked(m, f[n], n, r) OBVIOUS
<1>6. f[n] = IF n = 0 THEN m
             ELSE IF m.ents[Turn(n, r)] = None THEN f[n - 1]
             ELSE TickOne(f[n - 1], Turn(n, r), r)
    BY <1>5 DEF IsWalk
<1>7. CASE n = 0
    <2>1. f[n] = m BY <1>6, <1>7
    <2>2. \A i : ~HadTurn(i, 0, r) BY DEF HadTurn
    <2>3. m.next \in Nat /\ m.next >= m.next BY MgrFacts DEF Basic
    <2>4. Walked(m, m, 0, r) BY <2>2, <2>3 DEF Walked
    <2>5. QED BY <1>5, <1>7, <2>1, <2>4
<1>8. CASE n # 0
    <2>1. n \in 1 .. MaxId /\ n - 1 \in 0 .. MaxId /\ n - 1 \in Nat /\ n - 1 < n
        BY <1>1, <1>5, <1>8
    <2>2. n - 1 \notin Bad BY <1>4, <2>1
    <2>3. Walked(m, f[n - 1], n - 1, r) BY <2>1, <2>2
    <2> HIDE DEF Bad
    <2>4. f[n] = IF m.ents[Turn(n, r)] = None THEN f[n - 1] ELSE TickOne(f[n - 1], Turn(n, r), r)
        BY <1>6, <1>8
    <2>5. Walked(m, f[n], n, r) BY <2>1, <2>3, <2>4, OneStep
    <2>6. QED BY <1>5, <2>5
<1>9. QED BY <1>7, <1>8

\* The whole tick.
LEMMA TickedBasic ==
    ASSUME conf \in [Cfg -> Conf], now \in 0 .. MaxTime, NEW m, Basic(m), NEW r,
           NEW x, x = Ticked(m, r)
    PROVE  /\ Basic(x)
           /\ \A unp : Linked(m, unp) /\ r.del => Linked(x, unp)
           /\ \A i \in Id : m.ents[i] # None => Treated(m.ents[i], x.ents[i])
<1>1. PICK f : IsWalk(f, MaxId, m, r) /\ x = f[MaxId] BY TickedIsWalk
<1>2. MaxId \in 0 .. MaxId BY ActivityAssumption
<1>3. Walked(m, x, MaxId, r) BY <1>1, <1>2, WalkBasic
<1>4. \A i \in Id : HadTurn(i, MaxId, r) BY TurnFacts DEF HadTurn
<1>5. QED BY <1>3, <1>4 DEF Walked

-----------------------------------------------------------------------------
(* The save, and the server's start. *)

\* saveData: what Redis gets belongs to what there is.
LEMMA AllSavedBasic ==
    ASSUME NEW m, Basic(m), NEW r, NEW x, x = AllSaved(m, r)
    PROVE  /\ Basic(x) /\ \A unp : Linked(m, unp) => Linked(x, unp)
           /\ x.ents = m.ents
<1>1. m \in Mgr /\ Indexed(m) /\ NewIds(m) BY DEF Basic
<1> DEFINE redis == [i \in Id |-> IF r.set /\ m.ents[i] # None THEN Saved(m.ents[i]) ELSE m.redis[i]]
<1>2. x = [m EXCEPT !.redis = redis] BY DEF AllSaved
<1>3. redis \in [Id -> Entity \cup {None}]
    <2> SUFFICES ASSUME NEW i \in Id
                 PROVE  (IF r.set /\ m.ents[i] # None THEN Saved(m.ents[i]) ELSE m.redis[i])
                            \in Entity \cup {None}
        OBVIOUS
    <2>1. m.ents[i] \in Entity \cup {None} /\ m.redis[i] \in Entity \cup {None}
        BY <1>1, MgrFacts
    <2>2. m.ents[i] # None => Saved(m.ents[i]) \in Entity BY <2>1, EntityFacts
    <2>3. QED BY <2>1, <2>2
<1>4. \A i \in Id : redis[i] = IF r.set /\ m.ents[i] # None THEN Saved(m.ents[i]) ELSE m.redis[i]
    OBVIOUS
<1> HIDE DEF redis
<1>5. /\ x.ents = m.ents /\ x.running = m.running /\ x.redis = redis /\ x.next = m.next
      /\ x.data = m.data
      /\ x = [ents |-> x.ents, running |-> x.running, redis |-> x.redis,
              next |-> x.next, data |-> x.data]
    BY <1>1, <1>2, MgrFacts
<1>6. x \in Mgr BY <1>1, <1>3, <1>5, MgrFacts DEF Mgr
<1>7. \A i, s : In(x, i, s) <=> In(m, i, s) BY <1>5 DEF In
<1>8. Indexed(x) BY <1>1, <1>5, <1>7 DEF Indexed
<1>9. NewIds(x) BY <1>1, <1>4, <1>5 DEF NewIds
<1>10. ASSUME NEW unp, Linked(m, unp) PROVE Linked(x, unp)
    <2>1. RedisIsThere(x)
        <3> SUFFICES ASSUME NEW i \in Id, x.redis[i] # None
                     PROVE  x.ents[i] # None /\ x.ents[i].cfg = x.redis[i].cfg
            BY DEF RedisIsThere
        <3>1. CASE r.set /\ m.ents[i] # None
            <4>1. m.ents[i] \in Entity BY <1>1, <3>1, MgrFacts
            <4>2. Saved(m.ents[i]).cfg = m.ents[i].cfg BY <4>1, EntityFacts
            <4>3. QED BY <1>4, <1>5, <3>1, <4>2
        <3>2. CASE ~(r.set /\ m.ents[i] # None)
            BY <1>4, <1>5, <1>10, <3>2 DEF Linked, RedisIsThere
        <3>3. QED BY <3>1, <3>2
    <2>2. OnePerRow(x) BY <1>5, <1>10 DEF Linked, OnePerRow
    <2>3. DataRuns(x, unp) BY <1>5, <1>7, <1>10 DEF Linked, DataRuns
    <2>4. QED BY <2>1, <2>2, <2>3 DEF Linked
<1>11. QED BY <1>5, <1>6, <1>8, <1>9, <1>10 DEF Basic

\* What is loaded from Redis.
Loaded(m, r) ==
    LET loaded == [m EXCEPT !.ents = [i \in Id |-> IF m.redis[i] = None THEN None ELSE Saved(m.redis[i])],
                            !.running = 0]
        open == {i \in Ids(loaded.ents) : In(loaded, i, "running")}
    IN  [loaded EXCEPT !.running = IF open = {} THEN 0 ELSE First(open, r)]

\* Data of what was not in Redis in the same state may be left.
Unsaved(m) == {i \in Ids(m.ents) : m.redis[i].state # m.ents[i].state}

\* The loaded activities are those of Redis.
LEMMA LoadedBasic ==
    ASSUME NEW m, Basic(m), NEW r, NEW x, x = Loaded(m, r)
    PROVE  /\ Basic(x)
           /\ \A unp : Linked(m, unp) => Linked(x, unp \cup Unsaved(m))
           /\ x.next = m.next
<1>1. m \in Mgr /\ Indexed(m) /\ NewIds(m) BY DEF Basic
<1> DEFINE ents == [i \in Id |-> IF m.redis[i] = None THEN None ELSE Saved(m.redis[i])]
<1> DEFINE loaded == [m EXCEPT !.ents = ents, !.running = 0]
<1> DEFINE open == {i \in Ids(loaded.ents) : In(loaded, i, "running")}
<1> DEFINE index == IF open = {} THEN 0 ELSE First(open, r)
<1>2. x = [loaded EXCEPT !.running = index] BY DEF Loaded
<1>3. \A i \in Id : ents[i] = IF m.redis[i] = None THEN None ELSE Saved(m.redis[i]) OBVIOUS
<1>4. \A i \in Id : m.redis[i] # None => /\ Saved(m.redis[i]) \in Entity
                                         /\ Saved(m.redis[i]).cfg = m.redis[i].cfg
                                         /\ Saved(m.redis[i]).state = m.redis[i].state
    <2> SUFFICES ASSUME NEW i \in Id, m.redis[i] # None
                 PROVE  /\ Saved(m.redis[i]) \in Entity
                        /\ Saved(m.redis[i]).cfg = m.redis[i].cfg
                        /\ Saved(m.redis[i]).state = m.redis[i].state
        OBVIOUS
    <2>1. m.redis[i] \in Entity BY <1>1, MgrFacts
    <2>2. QED BY <2>1, EntityFacts
<1>5. ents \in [Id -> Entity \cup {None}] BY <1>4
<1> HIDE DEF ents
<1>6. /\ loaded.ents = ents /\ loaded.redis = m.redis /\ loaded.next = m.next
      /\ loaded.data = m.data
      /\ loaded = [ents |-> loaded.ents, running |-> loaded.running, redis |-> loaded.redis,
                   next |-> loaded.next, data |-> loaded.data]
    <2>1. m = [ents |-> m.ents, running |-> m.running, redis |-> m.redis,
               next |-> m.next, data |-> m.data]
        BY <1>1, MgrFacts
    <2>2. loaded = [m EXCEPT !.ents = ents, !.running = 0] OBVIOUS
    <2> HIDE DEF loaded
    <2>3. QED BY <2>1, <2>2
<1> HIDE DEF loaded
<1>7. open \in SUBSET Id /\ \A i \in Id : i \in open <=> In(loaded, i, "running")
    BY DEF Ids, In
<1>8. open # {} => First(open, r) \in open BY <1>7, FirstIsOne
<1> HIDE DEF open
<1>9. index \in Id \cup {0} BY <1>7, <1>8
<1> HIDE DEF index
<1>10. /\ x.ents = ents /\ x.redis = m.redis /\ x.next = m.next /\ x.data = m.data
       /\ x.running = index
       /\ x = [ents |-> x.ents, running |-> x.running, redis |-> x.redis,
               next |-> x.next, data |-> x.data]
    BY <1>2, <1>6
<1>11. x \in Mgr BY <1>1, <1>5, <1>9, <1>10, MgrFacts DEF Mgr
<1>12. \A i \in Id : In(x, i, "running") <=> i \in open
    <2>1. \A i, s : In(x, i, s) <=> In(loaded, i, s) BY <1>6, <1>10 DEF In
    <2>2. QED BY <1>7, <2>1
<1>13. Indexed(x)
    <2>1. CASE open = {} BY <1>10, <1>12, <2>1 DEF Indexed, index
    <2>2. CASE open # {}
        <3>1. index \in open /\ index \in Id BY <1>7, <1>8, <2>2 DEF index
        <3>2. QED BY <1>10, <1>12, <3>1 DEF Indexed
    <2>3. QED BY <2>1, <2>2
<1>14. NewIds(x) BY <1>1, <1>3, <1>10 DEF NewIds
<1>15. ASSUME NEW unp, Linked(m, unp) PROVE Linked(x, unp \cup Unsaved(m))
    <2>1. RedisIsThere(x) BY <1>3, <1>4, <1>10, NoneIsNone DEF RedisIsThere
    <2>2. OnePerRow(x)
        <3> SUFFICES ASSUME NEW i \in Id, NEW j \in Id, x.ents[i] # None, x.ents[j] # None,
                            x.ents[i].cfg = x.ents[j].cfg
                     PROVE  i = j
            BY DEF OnePerRow
        <3>1. m.redis[i] # None /\ m.redis[j] # None /\ m.redis[i].cfg = m.redis[j].cfg
            BY <1>3, <1>4, <1>10
        <3>2. m.ents[i] # None /\ m.ents[j] # None /\ m.ents[i].cfg = m.ents[j].cfg
            BY <1>15, <3>1 DEF Linked, RedisIsThere
        <3>3. QED BY <1>15, <3>2 DEF Linked, OnePerRow
    <2>3. DataRuns(x, unp \cup Unsaved(m))
        <3> SUFFICES ASSUME NEW i \in x.data, i \notin unp, i \notin Unsaved(m)
                     PROVE  In(x, i, "running")
            BY DEF DataRuns
        <3>1. i \in Id BY <1>1, <1>10, MgrFacts
        <3>2. In(m, i, "running") BY <1>10, <1>15 DEF Linked, DataRuns
        <3>3. m.redis[i].state = "running" BY <3>1, <3>2 DEF Unsaved, Ids, In
        <3>4. m.redis[i] # None BY <3>3, NoneIsNone
        <3>5. x.ents[i] = Saved(m.redis[i]) /\ Saved(m.redis[i]).state = "running"
            BY <1>3, <1>4, <1>10, <3>1, <3>3, <3>4
        <3>6. x.ents[i] # None BY <1>4, <3>1, <3>4, <3>5, NoneIsNone
        <3>7. QED BY <3>5, <3>6 DEF In
    <2>4. QED BY <2>1, <2>2, <2>3 DEF Linked
<1>16. QED BY <1>10, <1>11, <1>13, <1>14, <1>15 DEF Basic

\* A new activity.
LEMMA NewFacts ==
    ASSUME conf \in [Cfg -> Conf], NEW c \in Cfg
    PROVE  New(c) \in Entity /\ New(c).cfg = c /\ New(c).state # "running" /\ New(c) # None
<1> DEFINE row == conf[c]
<1>1. row \in Row BY ConfAssumption
<1>2. row.time \in {"close", "always", "timed"} /\ row.start \in 0 .. MaxTime /\ row.end \in 0 .. MaxTime
    BY <1>1 DEF Row
<1> DEFINE state == IF row.time = "close" THEN "closed" ELSE "waiting"
<1>3. state \in State /\ state # "running" BY DEF State
<1>4. New(c) = [cfg |-> c, state |-> state, time |-> row.time, start |-> row.start,
                end |-> row.end, checked |-> FALSE, manual |-> FALSE]
    BY DEF New
<1> HIDE DEF row, state
<1>5. New(c) \in Entity /\ New(c).cfg = c /\ New(c).state # "running"
    BY <1>2, <1>3, <1>4 DEF Entity
<1>6. QED BY <1>5, NoneIsNone

\* register, for rows that have no activity.
LEMMA RegisteredBasic ==
    ASSUME conf \in [Cfg -> Conf], NEW m, Basic(m), NEW rows \in SUBSET Cfg,
           \A i \in Id : m.ents[i] # None => m.ents[i].cfg \notin rows,
           NEW x, x = Registered(m, rows)
    PROVE  Basic(x) /\ \A unp : Linked(m, unp) => Linked(x, unp)
<1> DEFINE n == Cardinality(rows)
<1> DEFINE row == CHOOSE f \in Bijection(1 .. n, rows) : TRUE
<1>1. m \in Mgr /\ Indexed(m) /\ NewIds(m) /\ m.next \in Nat \ {0} BY MgrFacts DEF Basic
<1>2. IsFiniteSet(rows) BY ActivityAssumption, FS_Subset
<1>3. n \in Nat /\ ExistsBijection(1 .. n, rows) BY <1>2, FS_CardinalityType
<1>4. row \in Bijection(1 .. n, rows) BY <1>3 DEF ExistsBijection
<1>5. /\ row \in [1 .. n -> rows]
      /\ \A k, l \in 1 .. n : row[k] = row[l] => k = l
    BY <1>4 DEF Bijection, Injection, IsInjective
<1> DEFINE ents == [i \in Id |-> IF i \in m.next .. m.next + n - 1
                                 THEN New(row[i + 1 - m.next]) ELSE m.ents[i]]
<1> HIDE DEF row, n
<1>6. x = [m EXCEPT !.next = m.next + n, !.ents = ents]
    <2>1. x = [m EXCEPT !.next = m.next + n,
                        !.ents = [i \in Id |-> IF i \in m.next .. m.next + n - 1
                                               THEN New(row[i + 1 - m.next]) ELSE m.ents[i]]]
        BY DEF Registered, n, row
    <2>2. QED BY <2>1
<1> DEFINE new(i) == i \in m.next .. m.next + n - 1
<1>7. \A i \in Id : ents[i] = IF new(i) THEN New(row[i + 1 - m.next]) ELSE m.ents[i] OBVIOUS
<1>8. \A i \in Id : new(i) => i + 1 - m.next \in 1 .. n /\ i >= m.next BY <1>1, <1>3 DEF Id
<1>9. \A i \in Id : new(i) => /\ row[i + 1 - m.next] \in rows
                              /\ m.ents[i] = None /\ m.redis[i] = None
    BY <1>1, <1>5, <1>8 DEF NewIds
<1>10. \A i \in Id : new(i) => /\ ents[i] \in Entity /\ ents[i].state # "running" /\ ents[i] # None
                               /\ ents[i].cfg = row[i + 1 - m.next]
    BY <1>7, <1>9, NewFacts
<1>11. \A i, j \in Id : new(i) /\ new(j) /\ row[i + 1 - m.next] = row[j + 1 - m.next] => i = j
    <2> SUFFICES ASSUME NEW i \in Id, NEW j \in Id, new(i), new(j),
                        row[i + 1 - m.next] = row[j + 1 - m.next]
                 PROVE  i = j
        OBVIOUS
    <2>1. i + 1 - m.next = j + 1 - m.next BY <1>5, <1>8
    <2>2. QED BY <1>1, <2>1 DEF Id
<1>12. \A i \in Id : i >= m.next + n => ~new(i) /\ i >= m.next BY <1>1, <1>3 DEF Id
<1>13. m.next + n \in Nat \ {0} BY <1>1, <1>3
<1>14. ents \in [Id -> Entity \cup {None}]
    <2>1. ents = [i \in Id |-> ents[i]] OBVIOUS
    <2>2. \A i \in Id : ents[i] \in Entity \cup {None} BY <1>1, <1>7, <1>10, MgrFacts
    <2> HIDE DEF ents
    <2>3. QED BY <2>1, <2>2
<1> HIDE DEF ents, new
<1>15. /\ x.ents = ents /\ x.running = m.running /\ x.redis = m.redis /\ x.next = m.next + n
       /\ x.data = m.data
       /\ x = [ents |-> x.ents, running |-> x.running, redis |-> x.redis,
               next |-> x.next, data |-> x.data]
    <2>1. m = [ents |-> m.ents, running |-> m.running, redis |-> m.redis,
               next |-> m.next, data |-> m.data]
        BY <1>1, MgrFacts
    <2>2. QED BY ONLY <2>1, <1>6
<1>16. x \in Mgr BY <1>1, <1>13, <1>14, <1>15, MgrFacts DEF Mgr
<1>17. \A i \in Id : In(x, i, "running") <=> In(m, i, "running")
    BY <1>7, <1>9, <1>10, <1>15 DEF In
<1>18. Indexed(x) BY <1>1, <1>15, <1>17 DEF Indexed
<1>19. NewIds(x) BY <1>1, <1>7, <1>12, <1>15 DEF NewIds
<1>20. ASSUME NEW unp, Linked(m, unp) PROVE Linked(x, unp)
    <2>1. RedisIsThere(x) BY <1>7, <1>9, <1>15, <1>20 DEF Linked, RedisIsThere
    <2>2. OnePerRow(x)
        <3> SUFFICES ASSUME NEW i \in Id, NEW j \in Id, x.ents[i] # None, x.ents[j] # None,
                            x.ents[i].cfg = x.ents[j].cfg
                     PROVE  i = j
            BY DEF OnePerRow
        <3>1. CASE new(i) /\ new(j) BY <1>10, <1>11, <1>15, <3>1
        <3>2. CASE ~new(i) /\ ~new(j) BY <1>7, <1>15, <1>20, <3>2 DEF Linked, OnePerRow
        <3>3. CASE new(i) /\ ~new(j) BY <1>7, <1>9, <1>10, <1>15, <3>3
        <3>4. CASE ~new(i) /\ new(j) BY <1>7, <1>9, <1>10, <1>15, <3>4
        <3>5. QED BY <3>1, <3>2, <3>3, <3>4
    <2>3. DataRuns(x, unp)
        <3>1. m.data \in SUBSET Id BY <1>1, MgrFacts
        <3>2. QED BY <1>15, <1>17, <1>20, <3>1 DEF Linked, DataRuns
    <2>4. QED BY <2>1, <2>2, <2>3 DEF Linked
<1>21. QED BY <1>16, <1>18, <1>19, <1>20 DEF Basic

\* OnInit.
LEMMA BootedBasic ==
    ASSUME conf \in [Cfg -> Conf], NEW m, Basic(m), NEW r, NEW x, x = Booted(m, r)
    PROVE  Basic(x) /\ \A unp : Linked(m, unp) => Linked(x, unp \cup Unsaved(m))
<1>1. PICK y : y = Loaded(m, r) OBVIOUS
<1>2. Basic(y) /\ \A unp : Linked(m, unp) => Linked(y, unp \cup Unsaved(m))
    BY <1>1, LoadedBasic
<1> DEFINE new == Cfg \ {y.ents[i].cfg : i \in Ids(y.ents)}
<1>3. x = IF r.id THEN Registered(y, new) ELSE y
    <2>1. y.ents = [i \in Id |-> IF m.redis[i] = None THEN None ELSE Saved(m.redis[i])]
        <3>1. m = [ents |-> m.ents, running |-> m.running, redis |-> m.redis,
                   next |-> m.next, data |-> m.data]
            BY MgrFacts DEF Basic
        <3>2. QED BY <1>1, <3>1 DEF Loaded
    <2>2. QED BY <1>1, <2>1 DEF Booted, Loaded
<1>4. new \in SUBSET Cfg /\ \A i \in Id : y.ents[i] # None => y.ents[i].cfg \notin new
    BY DEF Ids
<1> HIDE DEF new
<1>5. CASE r.id
    <2>1. x = Registered(y, new) BY <1>3, <1>5
    <2>2. Basic(x) /\ \A unp : Linked(y, unp) => Linked(x, unp)
        BY <1>2, <1>4, <2>1, RegisteredBasic
    <2>3. QED BY <1>2, <2>2
<1>6. CASE ~r.id BY <1>2, <1>3, <1>6
<1>7. QED BY <1>5, <1>6

\* Before the first start there is nothing.
LEMMA NothingIsBasic ==
    Basic(NoActivity) /\ Linked(NoActivity, {}) /\ Unsaved(NoActivity) = {}
<1>1. /\ NoActivity.ents = [i \in Id |-> None] /\ NoActivity.running = 0
      /\ NoActivity.redis = [i \in Id |-> None] /\ NoActivity.next = 1 /\ NoActivity.data = {}
    BY DEF NoActivity
<1>2. NoActivity \in Mgr BY DEF NoActivity, Mgr
<1>3. Indexed(NoActivity) BY <1>1 DEF Indexed, In
<1>4. NewIds(NoActivity) BY <1>1 DEF NewIds
<1>5. Linked(NoActivity, {}) BY <1>1 DEF Linked, RedisIsThere, OnePerRow, DataRuns
<1>6. Unsaved(NoActivity) = {} BY <1>1 DEF Unsaved, Ids
<1>7. QED BY <1>2, <1>3, <1>4, <1>5, <1>6 DEF Basic

-----------------------------------------------------------------------------
(* The steps. *)

\* What the steps have in common: what the bound and the flag do.
LEMMA StepKeeps ==
    ASSUME ActivityInv, NEW n \in {0, 1}, NEW r \in Answers, Happens(n, r),
           NEW x, Becomes(x), Basic(x), UNCHANGED <<conf, now>>, unpurged' \in SUBSET Id,
           ~failed /\ IsWell(r) => Linked(x, unpurged')
    PROVE  ActivityInv'
<1>1. TypeOK BY DEF ActivityInv
<1>2. odd' \in 0 .. MaxOdd
    <2>1. PICK all : all = IF IsWell(r) THEN n ELSE n + 1 OBVIOUS
    <2>2. all \in Nat BY <2>1
    <2>3. odd + all <= MaxOdd /\ odd' = odd + all BY <2>1 DEF Happens
    <2>4. odd \in 0 .. MaxOdd /\ MaxOdd \in Nat BY <1>1, BoundAssumption DEF TypeOK
    <2>5. QED BY <2>2, <2>3, <2>4
<1>3. failed' \in BOOLEAN /\ (~failed' => ~failed /\ IsWell(r)) BY <1>1 DEF Happens, TypeOK
<1>4. mgr' = x /\ x.next <= MaxId + 1 BY DEF Becomes, HasIds
<1>5. x \in Manager
    <2>1. x \in Mgr BY DEF Basic
    <2>2. MaxId \in Nat BY ActivityAssumption
    <2>3. x.next \in 1 .. MaxId + 1 BY <1>4, <2>1, <2>2, MgrFacts
    <2>4. QED BY <2>1, <2>3, MgrFacts DEF Manager
<1>6. TypeOK' BY <1>1, <1>2, <1>3, <1>4, <1>5 DEF TypeOK
<1>7. QED BY <1>3, <1>4, <1>6 DEF ActivityInv

\* More ids whose data may be left.
LEMMA MoreUnpurged ==
    ASSUME NEW m, NEW unp, NEW more, Linked(m, unp)
    PROVE  Linked(m, unp \cup more)
BY DEF Linked, DataRuns

\* OnTick.
LEMMA TickStep == ASSUME ActivityInv, OnTick PROVE ActivityInv'
<1>1. PICK r \in Answers, saves \in BOOLEAN :
          /\ Happens(0, r)
          /\ Becomes(Ticked(IF saves THEN AllSaved(mgr, r) ELSE mgr, r))
    BY DEF OnTick
<1>2. PICK m : m = IF saves THEN AllSaved(mgr, r) ELSE mgr OBVIOUS
<1>3. PICK x : x = Ticked(m, r) OBVIOUS
<1>4. /\ Basic(mgr) /\ conf \in [Cfg -> Conf] /\ now \in 0 .. MaxTime /\ unpurged \in SUBSET Id
      /\ ~failed => Linked(mgr, unpurged)
    BY DEF ActivityInv, TypeOK
<1>5. Basic(m) /\ \A unp : Linked(mgr, unp) => Linked(m, unp) BY <1>2, <1>4, AllSavedBasic
<1>6. Basic(x) /\ \A unp : Linked(m, unp) /\ r.del => Linked(x, unp)
    BY <1>3, <1>4, <1>5, TickedBasic
<1>7. UNCHANGED <<conf, now>> /\ unpurged' = unpurged BY DEF OnTick
<1>8. ~failed /\ IsWell(r) => Linked(x, unpurged') BY <1>4, <1>5, <1>6, <1>7 DEF IsWell
<1>9. Happens(0, r) /\ Becomes(x) BY <1>1, <1>2, <1>3
<1>10. QED BY <1>4, <1>6, <1>7, <1>8, <1>9, StepKeeps

\* A command of the GM that leaves unpurged as it is.
LEMMA CommandKeeps ==
    ASSUME ActivityInv, NEW r \in Answers, NEW x, Command(r, x), Basic(x), unpurged' = unpurged,
           \A unp : Linked(mgr, unp) /\ r.del => Linked(x, unp)
    PROVE  ActivityInv'
<1>1. unpurged \in SUBSET Id /\ (~failed => Linked(mgr, unpurged)) BY DEF ActivityInv, TypeOK
<1>2. Happens(1, r) /\ Becomes(x) /\ UNCHANGED <<conf, now>> BY DEF Command
<1>3. ~failed /\ IsWell(r) => Linked(x, unpurged') BY <1>1 DEF IsWell
<1>4. QED BY <1>1, <1>2, <1>3, StepKeeps

\* OnStopActivity.
LEMMA StopStep == ASSUME ActivityInv, NEW i \in Id, OnStopActivity(i) PROVE ActivityInv'
<1>1. PICK r \in Answers : IsWell(r) /\ Command(r, Trigger(mgr, i, "stop", r))
    BY DEF OnStopActivity
<1>2. PICK x : x = Trigger(mgr, i, "stop", r) OBVIOUS
<1>3. x = Entered(mgr, i, "stopped", r) BY <1>2 DEF Trigger
<1>4. Basic(mgr) /\ unpurged \in SUBSET Id /\ (~failed => Linked(mgr, unpurged))
    BY DEF ActivityInv, TypeOK
<1>5. mgr.ents[i] # None /\ unpurged' = unpurged \cup {i} BY DEF OnStopActivity, In
<1>6. "stopped" \in State BY DEF State
<1>7. Basic(x) BY <1>3, <1>4, <1>5, <1>6, EnteredBasic
<1>8. ~failed => Linked(mgr, unpurged \cup {i}) BY <1>4, MoreUnpurged
<1>9. i \in unpurged \cup {i} OBVIOUS
<1>10. ~failed => Linked(x, unpurged \cup {i})
    BY <1>3, <1>4, <1>5, <1>6, <1>8, <1>9, EnteredBasic
<1>11. Happens(1, r) /\ Becomes(x) /\ UNCHANGED <<conf, now>> BY <1>1, <1>2 DEF Command
<1>12. unpurged' \in SUBSET Id /\ (~failed /\ IsWell(r) => Linked(x, unpurged'))
    BY <1>4, <1>5, <1>10
<1>13. QED BY <1>7, <1>11, <1>12, StepKeeps

\* OnRecoverActivity, OnForceStartActivity and OnRestartActivity.
LEMMA EventStep ==
    ASSUME ActivityInv, NEW i \in Id,
           OnRecoverActivity(i) \/ OnForceStartActivity(i) \/ OnRestartActivity(i)
    PROVE  ActivityInv'
<1>1. PICK r \in Answers, event \in {"recover", "start", "restart"} :
          /\ Command(r, Trigger(mgr, i, event, r))
          /\ mgr.ents[i] # None /\ unpurged' = unpurged
          /\ event = "restart" => ~In(mgr, i, "running")
    BY DEF OnRecoverActivity, OnForceStartActivity, OnRestartActivity, In
<1>2. PICK x : x = Trigger(mgr, i, event, r) OBVIOUS
<1>3. Basic(mgr) BY DEF ActivityInv
<1>4. Keeps(mgr, x, i, r) BY <1>1, <1>2, <1>3, TriggerBasic
<1>5. Command(r, x) BY <1>1, <1>2
<1>6. Basic(x) /\ \A unp : Linked(mgr, unp) /\ r.del => Linked(x, unp) BY <1>4 DEF Keeps
<1>7. QED BY <1>1, <1>5, <1>6, CommandKeeps

\* OnCloseActivity.
LEMMA CloseStep == ASSUME ActivityInv, NEW i \in Id, OnCloseActivity(i) PROVE ActivityInv'
<1>1. PICK r \in Answers :
          Command(r, [Trigger(mgr, i, "close", r) EXCEPT !.ents[i].manual = TRUE])
    BY DEF OnCloseActivity
<1>2. mgr.ents[i] # None /\ unpurged' = unpurged BY DEF OnCloseActivity
<1>3. PICK y : y = Trigger(mgr, i, "close", r) OBVIOUS
<1>4. PICK e : e = [y.ents[i] EXCEPT !.manual = TRUE] OBVIOUS
<1>5. PICK x : x = Placed(y, i, e) OBVIOUS
<1>6. Command(r, x) BY <1>1, <1>3, <1>4, <1>5 DEF Placed
<1>7. Basic(mgr) BY DEF ActivityInv
<1>8. Keeps(mgr, y, i, r) /\ Became("close", mgr.ents[i], y.ents[i])
    BY <1>2, <1>3, <1>7, TriggerBasic
<1>9. mgr.ents[i] \in Entity BY <1>2, <1>7, MgrFacts DEF Basic
<1>10. y.ents[i] \in Entity
    <2>1. "closed" \in State BY DEF State
    <2>2. y.ents[i] = Put(mgr.ents[i], "closed") BY <1>8 DEF Became
    <2>3. Put(mgr.ents[i], "closed") \in Entity BY <1>9, <2>1, EntityFacts
    <2>4. QED BY <2>2, <2>3
<1>11. e \in Entity /\ e.state = y.ents[i].state /\ e.cfg = y.ents[i].cfg
    BY <1>4, <1>10 DEF Entity
<1>12. Basic(y) /\ y.ents[i] # None BY <1>8, <1>10, NoneIsNone DEF Keeps
<1>13. Keeps(y, x, i, r) BY <1>5, <1>11, <1>12, ReplacedBasic
<1>14. Basic(x) /\ \A unp : Linked(mgr, unp) /\ r.del => Linked(x, unp)
    BY <1>8, <1>13 DEF Keeps
<1>15. QED BY <1>2, <1>6, <1>14, CommandKeeps

\* OnRemoveActivity.
LEMMA RemoveStep == ASSUME ActivityInv, NEW i \in Id, OnRemoveActivity(i) PROVE ActivityInv'
<1>1. PICK r \in Answers :
          LET closed == IF mgr.ents[i].state \in {"running", "stopped"}
                        THEN Trigger(mgr, i, "close", r) ELSE mgr
          IN  Command(r, Forgotten(Deleted(closed, i), i, r))
    BY DEF OnRemoveActivity
<1>2. mgr.ents[i] # None /\ unpurged' = unpurged BY DEF OnRemoveActivity
<1>3. PICK y : y = IF mgr.ents[i].state \in {"running", "stopped"}
                   THEN Trigger(mgr, i, "close", r) ELSE mgr
    OBVIOUS
<1>4. PICK x : x = Forgotten(Deleted(y, i), i, r) OBVIOUS
<1>5. Command(r, x) BY <1>1, <1>3, <1>4
<1>6. Basic(mgr) BY DEF ActivityInv
<1>7. /\ Basic(y) /\ \A unp : Linked(mgr, unp) /\ r.del => Linked(y, unp)
      /\ ~In(y, i, "running")
    <2>1. CASE mgr.ents[i].state \in {"running", "stopped"}
        <3>1. y = Closed(mgr, i, r) BY <1>3, <2>1 DEF Trigger
        <3>2. QED BY <1>2, <1>6, <3>1, ClosedBasic
    <2>2. CASE mgr.ents[i].state \notin {"running", "stopped"}
        BY <1>3, <1>6, <2>2 DEF In
    <2>3. QED BY <2>1, <2>2
<1>8. ASSUME NEW unp, Linked(mgr, unp), r.del PROVE Linked(x, unp)
    <2>1. Linked(y, unp) BY <1>7, <1>8
    <2>2. i \in y.data => i \in unp BY <1>7, <2>1 DEF Linked, DataRuns
    <2>3. QED BY <1>4, <1>7, <1>8, <2>1, <2>2, GoneBasic
<1>9. Basic(x) BY <1>4, <1>7, GoneBasic
<1>10. QED BY <1>2, <1>5, <1>8, <1>9, CommandKeeps

\* OnAdjustActivityTime.
LEMMA AdjustStep == ASSUME ActivityInv, NEW i \in Id, OnAdjustActivityTime(i) PROVE ActivityInv'
<1> DEFINE e == mgr.ents[i]
           given(start, end) == [e EXCEPT !.start = IF start > 0 THEN start ELSE @,
                                          !.end = IF end > 0 THEN end ELSE @]
           refused(g) == g.start > 0 /\ g.end > 0 /\ g.start >= g.end
<1>1. PICK start \in 0 .. MaxTime, end \in 0 .. MaxTime, r \in Answers :
          Command(r, [mgr EXCEPT !.ents[i] =
              [given(start, end) EXCEPT !.manual = @ /\ refused(given(start, end))]])
    BY DEF OnAdjustActivityTime
<1>2. mgr.ents[i] # None /\ unpurged' = unpurged BY DEF OnAdjustActivityTime
<1>3. Basic(mgr) /\ e \in Entity
    <2>1. Basic(mgr) BY DEF ActivityInv
    <2>2. QED BY <1>2, <2>1, MgrFacts DEF Basic
<1>4. PICK g : g = given(start, end) OBVIOUS
<1>5. g \in Entity /\ g.state = e.state /\ g.cfg = e.cfg BY <1>3, <1>4 DEF Entity
<1>6. PICK manual : manual = (g.manual /\ refused(g)) OBVIOUS
<1>7. manual \in BOOLEAN BY <1>6
<1>8. PICK f : f = [g EXCEPT !.manual = manual] OBVIOUS
<1>9. f \in Entity /\ f.state = e.state /\ f.cfg = e.cfg BY <1>5, <1>7, <1>8 DEF Entity
<1>10. PICK x : x = Placed(mgr, i, f) OBVIOUS
<1>11. f = [given(start, end) EXCEPT !.manual = @ /\ refused(given(start, end))]
    BY <1>4, <1>6, <1>8
<1>12. Command(r, x) BY <1>1, <1>10, <1>11 DEF Placed
<1>13. Keeps(mgr, x, i, r) BY <1>2, <1>3, <1>9, <1>10, ReplacedBasic
<1>14. Basic(x) /\ \A unp : Linked(mgr, unp) /\ r.del => Linked(x, unp) BY <1>13 DEF Keeps
<1>15. QED BY <1>2, <1>12, <1>14, CommandKeeps

\* PlayerTakesPart.
LEMMA PlayStep == ASSUME ActivityInv, NEW i \in Id, PlayerTakesPart(i) PROVE ActivityInv'
<1>1. /\ In(mgr, i, "running") /\ mgr' = [mgr EXCEPT !.data = mgr.data \cup {i}]
      /\ UNCHANGED <<conf, now, odd, failed, unpurged>>
    BY DEF PlayerTakesPart
<1>2. /\ TypeOK /\ mgr \in Mgr /\ Indexed(mgr) /\ NewIds(mgr)
      /\ ~failed => Linked(mgr, unpurged)
    BY DEF ActivityInv, Basic
<1>3. PICK m : m = mgr OBVIOUS
<1>4. PICK x : x = mgr' OBVIOUS
<1>5. /\ x.ents = m.ents /\ x.running = m.running /\ x.redis = m.redis /\ x.next = m.next
      /\ x.data = m.data \cup {i}
      /\ x = [ents |-> x.ents, running |-> x.running, redis |-> x.redis,
              next |-> x.next, data |-> x.data]
    <2>1. m = [ents |-> m.ents, running |-> m.running, redis |-> m.redis,
               next |-> m.next, data |-> m.data]
        BY <1>2, <1>3, MgrFacts
    <2>2. x = [m EXCEPT !.data = m.data \cup {i}] BY <1>1, <1>3, <1>4
    <2>3. QED BY ONLY <2>1, <2>2
<1>6. m \in Manager BY <1>2, <1>3 DEF TypeOK
<1>7. /\ m.ents \in [Id -> Entity \cup {None}] /\ m.redis \in [Id -> Entity \cup {None}]
      /\ m.running \in Id \cup {0} /\ m.next \in 1 .. MaxId + 1 /\ m.data \in SUBSET Id
    BY <1>6 DEF Manager
<1>8. x \in Manager BY <1>5, <1>7 DEF Manager
<1>9. x \in Mgr BY <1>2, <1>3, <1>5, <1>7, MgrFacts DEF Mgr
<1>10. \A j, s : In(x, j, s) <=> In(m, j, s) BY <1>5 DEF In
<1>11. Basic(x) BY <1>2, <1>3, <1>5, <1>9, <1>10 DEF Basic, Indexed, NewIds
<1>12. ASSUME NEW unp, Linked(m, unp) PROVE Linked(x, unp)
    <2>1. In(m, i, "running") BY <1>1, <1>3
    <2>2. QED BY <1>5, <1>10, <1>12, <2>1 DEF Linked, RedisIsThere, OnePerRow, DataRuns
<1>13. TypeOK' BY <1>1, <1>2, <1>4, <1>8 DEF TypeOK
<1>14. QED BY <1>1, <1>2, <1>3, <1>4, <1>11, <1>12, <1>13 DEF ActivityInv

\* OnConfigReload.
LEMMA ReloadStep == ASSUME ActivityInv, OnConfigReload PROVE ActivityInv'
<1>1. PICK m : m = mgr OBVIOUS
<1>2. PICK x : x = mgr' OBVIOUS
<1> DEFINE unread(e) == [e EXCEPT !.checked = FALSE]
<1> DEFINE ents == [i \in Id |-> IF m.ents[i] = None THEN None ELSE unread(m.ents[i])]
<1>3. x = [m EXCEPT !.ents = ents]
    <2>1. x = [m EXCEPT !.ents = [i \in Id |-> IF m.ents[i] = None THEN None
                                              ELSE [m.ents[i] EXCEPT !.checked = FALSE]]]
        BY <1>1, <1>2 DEF OnConfigReload
    <2>2. QED BY <2>1
<1>4. /\ odd < MaxOdd /\ odd' = odd + 1 /\ conf' \in [Cfg -> Conf]
      /\ UNCHANGED <<now, failed, unpurged>>
    BY DEF OnConfigReload
<1>5. /\ TypeOK /\ m \in Mgr /\ Indexed(m) /\ NewIds(m) /\ (~failed => Linked(m, unpurged))
    BY <1>1 DEF ActivityInv, Basic
<1>6. \A i \in Id : ents[i] = IF m.ents[i] = None THEN None ELSE unread(m.ents[i]) OBVIOUS
<1>7. \A i \in Id : m.ents[i] # None => /\ unread(m.ents[i]) \in Entity
                                        /\ unread(m.ents[i]).state = m.ents[i].state
                                        /\ unread(m.ents[i]).cfg = m.ents[i].cfg
                                        /\ unread(m.ents[i]) # None
    <2> SUFFICES ASSUME NEW i \in Id, m.ents[i] # None
                 PROVE  /\ unread(m.ents[i]) \in Entity
                        /\ unread(m.ents[i]).state = m.ents[i].state
                        /\ unread(m.ents[i]).cfg = m.ents[i].cfg
                        /\ unread(m.ents[i]) # None
        OBVIOUS
    <2>1. PICK e : e = m.ents[i] OBVIOUS
    <2>2. e \in Entity BY <1>5, <2>1, MgrFacts
    <2>3. unread(e) \in Entity /\ unread(e).state = e.state /\ unread(e).cfg = e.cfg
        BY <2>2 DEF Entity
    <2>4. QED BY <2>1, <2>3, NoneIsNone
<1> HIDE DEF unread
<1>8. ents \in [Id -> Entity \cup {None}] BY <1>7
<1> HIDE DEF ents
<1>9. /\ x.ents = ents /\ x.running = m.running /\ x.redis = m.redis /\ x.next = m.next
      /\ x.data = m.data
      /\ x = [ents |-> x.ents, running |-> x.running, redis |-> x.redis,
              next |-> x.next, data |-> x.data]
    <2>1. m = [ents |-> m.ents, running |-> m.running, redis |-> m.redis,
               next |-> m.next, data |-> m.data]
        BY <1>5, MgrFacts
    <2>2. QED BY ONLY <2>1, <1>3
<1>10. x \in Mgr BY <1>5, <1>8, <1>9, MgrFacts DEF Mgr
<1>11. x \in Manager
    <2>1. m.next \in 1 .. MaxId + 1 BY <1>1, <1>5 DEF TypeOK, Manager
    <2>2. QED BY <1>5, <1>8, <1>9, <2>1, MgrFacts DEF Manager
<1>12. \A i \in Id : /\ x.ents[i] = None <=> m.ents[i] = None
                     /\ m.ents[i] # None => x.ents[i].state = m.ents[i].state
                                              /\ x.ents[i].cfg = m.ents[i].cfg
    BY <1>6, <1>7, <1>9
<1>13. \A i \in Id : In(x, i, "running") <=> In(m, i, "running") BY <1>12 DEF In
<1>14. Basic(x)
    <2>1. Indexed(x) BY <1>5, <1>9, <1>13 DEF Indexed
    <2>2. NewIds(x) BY <1>5, <1>9, <1>12 DEF NewIds
    <2>3. QED BY <1>10, <2>1, <2>2 DEF Basic
<1>15. ASSUME NEW unp, Linked(m, unp) PROVE Linked(x, unp)
    <2>1. RedisIsThere(x) BY <1>9, <1>12, <1>15 DEF Linked, RedisIsThere
    <2>2. OnePerRow(x) BY <1>12, <1>15 DEF Linked, OnePerRow
    <2>3. DataRuns(x, unp)
        <3>1. m.data \in SUBSET Id BY <1>5, MgrFacts
        <3>2. QED BY <1>9, <1>13, <1>15, <3>1 DEF Linked, DataRuns
    <2>4. QED BY <2>1, <2>2, <2>3 DEF Linked
<1>16. TypeOK'
    <2>1. odd' \in 0 .. MaxOdd BY <1>4, <1>5, BoundAssumption DEF TypeOK
    <2>2. QED BY <1>2, <1>4, <1>5, <1>11, <2>1 DEF TypeOK
<1>17. QED BY <1>2, <1>4, <1>5, <1>14, <1>15, <1>16 DEF ActivityInv

\* Boots.
LEMMA BootStep == ASSUME ActivityInv, Boots PROVE ActivityInv'
<1>1. PICK r \in Answers, saves \in BOOLEAN :
          /\ Happens(1, r)
          /\ LET m == IF saves THEN AllSaved(mgr, r) ELSE mgr
             IN  /\ Becomes(Booted(m, r))
                 /\ unpurged' = unpurged \cup {i \in Ids(m.ents) : m.redis[i].state # m.ents[i].state}
    BY DEF Boots
<1>2. PICK m : m = IF saves THEN AllSaved(mgr, r) ELSE mgr OBVIOUS
<1>3. PICK x : x = Booted(m, r) OBVIOUS
<1>4. /\ Basic(mgr) /\ conf \in [Cfg -> Conf] /\ unpurged \in SUBSET Id
      /\ ~failed => Linked(mgr, unpurged)
    BY DEF ActivityInv, TypeOK
<1>5. Basic(m) /\ \A unp : Linked(mgr, unp) => Linked(m, unp) BY <1>2, <1>4, AllSavedBasic
<1>6. Basic(x) /\ \A unp : Linked(m, unp) => Linked(x, unp \cup Unsaved(m))
    BY <1>3, <1>4, <1>5, BootedBasic
<1>7. Happens(1, r) /\ Becomes(x) BY <1>1, <1>2, <1>3
<1>8. unpurged' = unpurged \cup Unsaved(m) BY <1>1, <1>2 DEF Unsaved
<1>9. unpurged' \in SUBSET Id BY <1>4, <1>8 DEF Unsaved, Ids
<1>10. ~failed => Linked(x, unpurged') BY <1>4, <1>5, <1>6, <1>8
<1>11. UNCHANGED <<conf, now>> BY DEF Boots
<1>12. QED BY <1>6, <1>7, <1>9, <1>10, <1>11, StepKeeps

\* Every step.
LEMMA ActivityStep == ActivityInv /\ [Next]_vars => ActivityInv'
<1> SUFFICES ASSUME ActivityInv, [Next]_vars PROVE ActivityInv' OBVIOUS
<1>1. CASE OnTick BY <1>1, TickStep
<1>2. CASE OnConfigReload BY <1>2, ReloadStep
<1>3. CASE OnStopActivityByType
    <2>1. mgr.running \in Id BY <1>3, MgrFacts DEF OnStopActivityByType, ActivityInv, Basic
    <2>2. QED BY <1>3, <2>1, StopStep DEF OnStopActivityByType
<1>4. CASE Boots BY <1>4, BootStep
<1>5. CASE TimePasses
    <2>1. now' \in 0 .. MaxTime BY <1>5, ActivityAssumption DEF TimePasses, ActivityInv, TypeOK
    <2>2. UNCHANGED <<mgr, conf, odd, failed, unpurged>> BY <1>5 DEF TimePasses
    <2>3. QED BY <2>1, <2>2 DEF ActivityInv, TypeOK
<1>6. ASSUME NEW i \in Id, GmStep(i) PROVE ActivityInv'
    <2>1. CASE OnStopActivity(i) BY <2>1, StopStep
    <2>2. CASE OnRecoverActivity(i) \/ OnForceStartActivity(i) \/ OnRestartActivity(i)
        BY <2>2, EventStep
    <2>3. CASE OnCloseActivity(i) BY <2>3, CloseStep
    <2>4. CASE OnRemoveActivity(i) BY <2>4, RemoveStep
    <2>5. CASE OnAdjustActivityTime(i) BY <2>5, AdjustStep
    <2>6. QED BY <1>6, <2>1, <2>2, <2>3, <2>4, <2>5 DEF GmStep
<1>7. ASSUME NEW i \in Id, PlayerTakesPart(i) PROVE ActivityInv' BY <1>7, PlayStep
<1>8. CASE UNCHANGED vars BY <1>8 DEF vars, ActivityInv, TypeOK
<1>9. QED BY <1>1, <1>2, <1>3, <1>4, <1>5, <1>6, <1>7, <1>8 DEF Next

\* The first start.
LEMMA ActivityInit == Init => ActivityInv
<1> SUFFICES ASSUME Init PROVE ActivityInv OBVIOUS
<1>1. /\ conf \in [Cfg -> Conf] /\ now = 0 /\ odd = 0 /\ failed = FALSE /\ unpurged = {}
      /\ mgr.next <= MaxId + 1
    BY DEF Init, HasIds
<1>2. PICK r \in Answers : mgr = Booted(NoActivity, r) BY DEF Init
<1>3. Basic(mgr) /\ Linked(mgr, {})
    <2>1. PICK m : m = NoActivity OBVIOUS
    <2>2. Basic(m) /\ Linked(m, {}) /\ Unsaved(m) = {} BY <2>1, NothingIsBasic
    <2>3. PICK x : x = Booted(m, r) OBVIOUS
    <2>4. Basic(x) /\ Linked(x, {} \cup Unsaved(m)) BY <1>1, <2>2, <2>3, BootedBasic
    <2>5. QED BY <1>2, <2>1, <2>2, <2>3, <2>4
<1>4. mgr \in Manager
    <2>1. PICK m : m = mgr OBVIOUS
    <2>2. m \in Mgr /\ m.next <= MaxId + 1 BY <1>1, <1>3, <2>1 DEF Basic
    <2>3. MaxId \in Nat BY ActivityAssumption
    <2>4. m.next \in 1 .. MaxId + 1 BY <2>2, <2>3, MgrFacts
    <2>5. QED BY <2>1, <2>2, <2>4, MgrFacts DEF Manager
<1>5. TypeOK
    <2>1. now \in 0 .. MaxTime /\ odd \in 0 .. MaxOdd
        BY <1>1, ActivityAssumption, BoundAssumption
    <2>2. failed \in BOOLEAN /\ unpurged \subseteq Id BY <1>1
    <2>3. QED BY <1>1, <1>4, <2>1, <2>2 DEF TypeOK
<1>6. QED BY <1>1, <1>3, <1>5 DEF ActivityInv

-----------------------------------------------------------------------------
(* The theorems. *)

\* The index, the ids and the data of activities are right in every state that can be
\* reached: the invariant that the properties below follow from.
THEOREM ActivityCorrect == Spec => []ActivityInv
BY ActivityInit, ActivityStep, PTL DEF Spec

\* The index by type names a running activity whenever there is one, and a row has one id
\* at most, in memory and in Redis together, as long as Redis has not failed.
THEOREM EntitiesAreSoundHolds == Spec => []EntitiesAreSound
<1>1. ActivityInv => EntitiesAreSound
    <2> SUFFICES ASSUME ActivityInv PROVE EntitiesAreSound OBVIOUS
    <2>1. TypeOK /\ Basic(mgr) /\ (~failed => Linked(mgr, unpurged)) BY DEF ActivityInv
    <2>2. RunningIsIndexed
        <3>1. Indexed(mgr) /\ 0 \notin Id BY <2>1, MgrFacts DEF Basic
        <3>2. QED BY <3>1 DEF Indexed, RunningIsIndexed
    <2>3. OneIdPerRow
        <3> SUFFICES ASSUME ~failed, NEW c \in Cfg
                     PROVE  Cardinality({i \in Id : \/ mgr.ents[i] # None /\ mgr.ents[i].cfg = c
                                                    \/ mgr.redis[i] # None /\ mgr.redis[i].cfg = c}) <= 1
            BY DEF OneIdPerRow
        <3> DEFINE S == {i \in Id : \/ mgr.ents[i] # None /\ mgr.ents[i].cfg = c
                                    \/ mgr.redis[i] # None /\ mgr.redis[i].cfg = c}
        <3>1. \A i \in S : i \in Id /\ mgr.ents[i] # None /\ mgr.ents[i].cfg = c
            BY <2>1 DEF Linked, RedisIsThere
        <3>2. \A i, j \in S : i = j BY <2>1, <3>1 DEF Linked, OnePerRow
        <3> HIDE DEF S
        <3>3. CASE S = {} BY <3>3, FS_EmptySet DEF S
        <3>4. CASE S # {}
            <4>1. PICK i : S = {i} BY <3>2, <3>4
            <4>2. Cardinality({i}) = 1 BY FS_Singleton
            <4>3. Cardinality(S) <= 1 BY <4>1, <4>2
            <4>4. QED BY <4>3 DEF S
        <3>5. QED BY <3>3, <3>4
    <2>4. QED BY <2>1, <2>2, <2>3 DEF EntitiesAreSound
<1>2. QED BY <1>1, ActivityCorrect, PTL

\* As long as Redis has not failed, players' data belongs to an activity that exists, or to
\* one whose close may leave it.
THEOREM DataHasActivityHolds == Spec => []DataHasActivity
<1>1. ActivityInv => DataHasActivity
    <2> SUFFICES ASSUME ActivityInv, ~failed, NEW i \in mgr.data, i \notin unpurged
                 PROVE  i \in Ids(mgr.ents)
        BY DEF DataHasActivity
    <2>1. Basic(mgr) /\ Linked(mgr, unpurged) BY DEF ActivityInv
    <2>2. i \in Id BY <2>1, MgrFacts DEF Basic
    <2>3. mgr.ents[i] # None BY <2>1 DEF Linked, DataRuns, In
    <2>4. QED BY <2>2, <2>3 DEF Ids
<1>2. QED BY <1>1, ActivityCorrect, PTL

\* What a tick does to every activity that it finds.
LEMMA TickTreats ==
    ASSUME ActivityInv, OnTick
    PROVE  \A i \in Id : mgr.ents[i] # None => Treated(mgr.ents[i], mgr'.ents[i])
<1>1. PICK r \in Answers, saves \in BOOLEAN :
          Becomes(Ticked(IF saves THEN AllSaved(mgr, r) ELSE mgr, r))
    BY DEF OnTick
<1>2. PICK m : m = IF saves THEN AllSaved(mgr, r) ELSE mgr OBVIOUS
<1>3. PICK x : x = Ticked(m, r) OBVIOUS
<1>4. Basic(mgr) /\ conf \in [Cfg -> Conf] /\ now \in 0 .. MaxTime BY DEF ActivityInv, TypeOK
<1>5. Basic(m) /\ m.ents = mgr.ents BY <1>2, <1>4, AllSavedBasic
<1>6. \A i \in Id : m.ents[i] # None => Treated(m.ents[i], x.ents[i])
    BY <1>3, <1>4, <1>5, TickedBasic
<1>7. mgr' = x BY <1>1, <1>2, <1>3 DEF Becomes
<1>8. QED BY <1>5, <1>6, <1>7

\* After a tick every activity is where its times say, except one whose row the tick has
\* read again.
THEOREM TickSettlesHolds == Spec => TickSettles
<1>1. ActivityInv /\ [Next]_vars =>
          [(\E i \in Id : ~Settled(mgr'.ents[i]) /\ mgr.ents[i] # None /\ mgr.ents[i].checked)
              => ~OnTick]_vars
    BY TickTreats DEF Treated
<1>2. QED BY <1>1, ActivityCorrect, PTL DEF Spec, TickSettles

\* Time never opens a closed activity again.
THEOREM ClosedStaysClosedHolds == Spec => ClosedStaysClosed
<1>1. ActivityInv /\ [Next]_vars =>
          [(\E i \in Id : In(mgr, i, "closed") /\ ~In(mgr', i, "closed")
                           /\ (mgr.ents[i].checked \/ conf[mgr.ents[i].cfg].time # "always"))
              => ~OnTick /\ ~TimePasses]_vars
    <2> SUFFICES ASSUME ActivityInv, NEW i \in Id, In(mgr, i, "closed"), ~In(mgr', i, "closed"),
                        mgr.ents[i].checked \/ conf[mgr.ents[i].cfg].time # "always"
                 PROVE  ~OnTick /\ ~TimePasses
        OBVIOUS
    <2>1. ASSUME OnTick PROVE FALSE
        <3>1. Treated(mgr.ents[i], mgr'.ents[i]) BY <2>1, TickTreats DEF In
        <3>2. QED BY <3>1 DEF Treated, In
    <2>2. ASSUME TimePasses PROVE FALSE BY <2>2 DEF TimePasses, In
    <2>3. QED BY <2>1, <2>2
<1>2. QED BY <1>1, ActivityCorrect, PTL DEF Spec, ClosedStaysClosed
=============================================================================
