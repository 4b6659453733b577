----------------------------- MODULE RoomProofs -----------------------------
(***************************************************************************)
(* Rooms and matching, for any rooms, players, names and messages and any  *)
(* number of calls that come late: names and rooms agree, and as long as   *)
(* no call came late, so do the rooms in state Match, the pool and the     *)
(* queues of the matcher.                                                  *)
(***************************************************************************)
EXTENDS RoomMatching, FiniteSetTheorems, SequenceTheorems, WellFoundedInduction, TLAPS

-----------------------------------------------------------------------------
(* The invariant. *)

\* What a client can ask: a room that is to be created has a name, one to be joined an id.
AskFits(m, last) ==
    (m.kind = "create" => m.name \in Name) /\ (m.kind = "join" => m.room <= last)

\* Whoever waits has a call that will be answered.
BusyFor(p) == busy # Idle /\ busy.ask.live /\ busy.ask.who = p
CallOf(p, i) == roomBox[i].live /\ roomBox[i].who = p
AskedFor(p) == BusyFor(p) \/ \E i \in DOMAIN roomBox : CallOf(p, i)

TalkInv ==
    /\ cache \in [Player -> 0 .. lastId]
    /\ asking \in [Player -> Kind \cup {"idle"}]
    /\ roomBox \in Seq(Ask) /\ \A i \in DOMAIN roomBox : AskFits(roomBox[i], lastId)
    /\ asks \in Nat /\ lost \in Nat
    /\ \A p \in Player : asking[p] # "idle" => AskedFor(p)

\* An id that was not handed out is not in use.
RoomsInv ==
    /\ RoomsTypeOK
    /\ \A r \in RoomId : r > lastId => rooms[r] = Closed
    /\ NamesMatchRooms

\* The room that Room waits for is there, in the state in which it asked for it.
BusyInv == busy # Idle =>
    /\ Exists(busy.room)
    /\ rooms[busy.room].state = IF busy.kind = "start" THEN "normal" ELSE "match"
    /\ busy.ask.kind \in {"start", "cancel"}
    /\ busy.st = "waiting" => ~busy.ok

BusyOrder == [kind |-> busy.kind, room |-> busy.room, live |-> TRUE]

\* Only the last order can be one that Room still waits for; and it is the only one if none
\* came late and Match is alive.
OrderInv ==
    /\ \A i \in DOMAIN matchBox : matchBox[i].live =>
           RoomWaits /\ i = Len(matchBox) /\ matchBox[i] = BusyOrder
    /\ lost = 0 /\ ~hung => matchBox = IF RoomWaits THEN <<BusyOrder>> ELSE <<>>

CallInv == busy \in Busy \cup {Idle} /\ matchBox \in Seq(Order) /\ BusyInv /\ OrderInv

Distinct(s) == \A i, j \in DOMAIN s : s[i] = s[j] => i = j

PoolInv == MatchTypeOK /\ IsFiniteSet(teamInfo) /\ PoolIsMatching

QueueInv ==
    /\ LockedIsIdle /\ QueuedOnce
    /\ lost = 0 /\ ~hung => Distinct(Queued)

RoomInv == TalkInv /\ RoomsInv /\ CallInv /\ PoolInv /\ QueueInv

-----------------------------------------------------------------------------
(* Sequences and ids. *)

LEMMA IdsAreNumbers == RoomId \subseteq Nat \ {0} /\ TeamId = RoomId
BY TeamIdAssumption, MatchingAssumption

LEMMA MinExists ==
    ASSUME NEW S \in SUBSET Nat, S # {} PROVE Min(S) \in S
<1> DEFINE R == OpToRel(<, Nat)
<1>1. IsWellFoundedOn(R, Nat) BY NatLessThanWellFounded
<1>2. \A a, b \in Nat : a < b => <<a, b>> \in R BY DEF OpToRel
<1> HIDE DEF R
<1>3. \E m \in S : \A k \in S : ~(<<k, m>> \in R) BY <1>1, WFMin
<1>4. PICK m \in S : \A k \in S : ~(<<k, m>> \in R) BY <1>3
<1>5. ASSUME NEW k \in S PROVE m =< k
    <2>1. m \in Nat /\ k \in Nat OBVIOUS
    <2>2. ~(k < m) BY <1>2, <1>4, <2>1
    <2>3. QED BY <2>1, <2>2
<1>6. \E x \in S : \A y \in S : x =< y BY <1>5
<1>7. QED BY <1>6 DEF Min

\* RemoveFirst of a sequence that has e, and of one that has it once.
LEMMA RemoveFirstFacts ==
    ASSUME NEW S, NEW s \in Seq(S), NEW e
    PROVE  /\ RemoveFirst(s, e) \in Seq(S)
           /\ ~(\E i \in 1 .. Len(s) : s[i] = e) => RemoveFirst(s, e) = s
           /\ \A k \in 1 .. Len(s) : Distinct(s) /\ s[k] = e =>
                  RemoveFirst(s, e) = SubSeq(s, 1, k - 1) \o SubSeq(s, k + 1, Len(s))
<1> DEFINE I == {i \in 1 .. Len(s) : s[i] = e}
<1>1. CASE I = {}
    <2>1. ~(\E i \in 1 .. Len(s) : s[i] = e) BY <1>1
    <2>2. RemoveFirst(s, e) = s BY <2>1 DEF RemoveFirst
    <2>3. QED BY <2>1, <2>2
<1>2. CASE I # {}
    <2>1. Min(I) \in I
        <3>1. I \in SUBSET Nat OBVIOUS
        <3>2. QED BY <1>2, <3>1, MinExists
    <2>2. \E i \in 1 .. Len(s) : s[i] = e BY <1>2
    <2>3. RemoveFirst(s, e) = RemoveAt(s, Min(I)) BY <1>2, <2>2 DEF RemoveFirst, SelectInSeq
    <2>4. RemoveAt(s, Min(I)) = SubSeq(s, 1, Min(I) - 1) \o SubSeq(s, Min(I) + 1, Len(s)) BY DEF RemoveAt
    <2> DEFINE m == Min(I)
    <2>5. m \in 1 .. Len(s) /\ s[m] = e BY <2>1
    <2> HIDE DEF m
    <2>6. SubSeq(s, 1, m - 1) \o SubSeq(s, m + 1, Len(s)) \in Seq(S) BY <2>5
    <2>7. ASSUME NEW k \in 1 .. Len(s), Distinct(s), s[k] = e PROVE k = m
        BY <2>5, <2>7 DEF Distinct
    <2>8. QED BY <2>2, <2>3, <2>4, <2>6, <2>7 DEF m
<1>3. QED BY <1>1, <1>2

\* The empty sequence, and sequences with one element.
LEMMA ShortFacts ==
    ASSUME NEW S, NEW s \in Seq(S), NEW t \in Seq(S)
    PROVE  /\ Len(s \o t) = Len(s) + Len(t) /\ Len(s) \in Nat /\ Len(t) \in Nat
           /\ Len(s) = 0 <=> s = <<>>
           /\ s \o <<>> = s /\ <<>> \o s = s
           /\ Len(s) = 1 => s = <<Head(s)>> /\ Tail(s) = <<>>
<1>1. Len(s \o t) = Len(s) + Len(t) /\ Len(s) \in Nat /\ Len(t) \in Nat OBVIOUS
<1>2. Len(s) = 0 <=> s = <<>> BY EmptySeq
<1>3. s \o <<>> = s /\ <<>> \o s = s BY ConcatEmptySeq
<1>4. ASSUME Len(s) = 1 PROVE s = <<Head(s)>> /\ Tail(s) = <<>>
    <2>1. s = <<Head(s)>> BY <1>4
    <2>2. Tail(s) \in Seq(S) /\ Len(Tail(s)) = 0 BY <1>4
    <2>3. QED BY <2>1, <2>2, EmptySeq
<1>5. QED BY <1>1, <1>2, <1>3, <1>4

LEMMA ConcatFacts ==
    ASSUME NEW S, NEW s \in Seq(S), NEW t \in Seq(S)
    PROVE  /\ ToSet(s \o t) = ToSet(s) \cup ToSet(t)
           /\ Distinct(s \o t) <=> Distinct(s) /\ Distinct(t) /\ ToSet(s) \cap ToSet(t) = {}
<1> DEFINE q == s \o t
<1>1. /\ DOMAIN s = 1 .. Len(s) /\ DOMAIN t = 1 .. Len(t) /\ DOMAIN q = 1 .. Len(s) + Len(t)
      /\ Len(s) \in Nat /\ Len(t) \in Nat
      /\ \A i \in DOMAIN s : q[i] = s[i] /\ i \in DOMAIN q
      /\ \A i \in DOMAIN t : q[Len(s) + i] = t[i] /\ Len(s) + i \in DOMAIN q
    OBVIOUS
<1> HIDE DEF q
<1>2. \A i \in DOMAIN q : i \in DOMAIN s \/ (i - Len(s) \in DOMAIN t /\ q[i] = t[i - Len(s)])
    <2> TAKE i \in DOMAIN q
    <2>1. CASE i > Len(s)
        <3>1. i - Len(s) \in DOMAIN t BY <1>1, <2>1
        <3>2. q[Len(s) + (i - Len(s))] = t[i - Len(s)] BY <1>1, <3>1
        <3>3. Len(s) + (i - Len(s)) = i BY <1>1
        <3>4. QED BY <3>1, <3>2, <3>3
    <2>2. CASE i <= Len(s) BY <1>1, <2>2
    <2>3. QED BY <1>1, <2>1, <2>2
<1>3. ToSet(q) = ToSet(s) \cup ToSet(t)
    <2>1. ASSUME NEW i \in DOMAIN q PROVE q[i] \in ToSet(s) \cup ToSet(t)
        BY <1>1, <1>2, <2>1 DEF ToSet
    <2>2. ASSUME NEW i \in DOMAIN s PROVE s[i] \in ToSet(q) BY <1>1, <2>2 DEF ToSet
    <2>3. ASSUME NEW i \in DOMAIN t PROVE t[i] \in ToSet(q) BY <1>1, <2>3 DEF ToSet
    <2>4. QED BY <2>1, <2>2, <2>3 DEF ToSet
<1>4. ASSUME Distinct(q) PROVE Distinct(s) /\ Distinct(t) /\ ToSet(s) \cap ToSet(t) = {}
    <2>1. Distinct(s) BY <1>1, <1>4 DEF Distinct
    <2>2. ASSUME NEW i \in DOMAIN t, NEW j \in DOMAIN t, t[i] = t[j] PROVE i = j
        <3>1. Len(s) + i = Len(s) + j BY <1>1, <1>4, <2>2 DEF Distinct
        <3>2. QED BY <1>1, <3>1
    <2>3. ASSUME NEW i \in DOMAIN s, NEW j \in DOMAIN t, s[i] = t[j] PROVE FALSE
        <3>1. i = Len(s) + j BY <1>1, <1>4, <2>3 DEF Distinct
        <3>2. QED BY <1>1, <3>1
    <2>4. QED BY <2>1, <2>2, <2>3 DEF Distinct, ToSet
<1>5. ASSUME Distinct(s), Distinct(t), ToSet(s) \cap ToSet(t) = {}, NEW i \in DOMAIN q, NEW j \in DOMAIN q, q[i] = q[j]
      PROVE  i = j
    <2>1. CASE i \in DOMAIN s /\ j \in DOMAIN s BY <1>1, <1>5, <2>1 DEF Distinct
    <2>2. CASE i \in DOMAIN s /\ j \notin DOMAIN s BY <1>1, <1>2, <1>5, <2>2 DEF ToSet
    <2>3. CASE i \notin DOMAIN s /\ j \in DOMAIN s BY <1>1, <1>2, <1>5, <2>3 DEF ToSet
    <2>4. CASE i \notin DOMAIN s /\ j \notin DOMAIN s
        <3>1. i - Len(s) = j - Len(s) BY <1>2, <1>5, <2>4 DEF Distinct
        <3>2. QED BY <1>1, <3>1
    <2>5. QED BY <2>1, <2>2, <2>3, <2>4
<1>6. QED BY <1>3, <1>4, <1>5 DEF q, Distinct

LEMMA AppendFacts ==
    ASSUME NEW S, NEW s \in Seq(S), NEW e \in S
    PROVE  /\ ToSet(Append(s, e)) = ToSet(s) \cup {e}
           /\ Distinct(s) /\ e \notin ToSet(s) => Distinct(Append(s, e))
<1>1. /\ DOMAIN s = 1 .. Len(s) /\ DOMAIN Append(s, e) = 1 .. Len(s) + 1 /\ Len(s) \in Nat
      /\ Append(s, e)[Len(s) + 1] = e
      /\ \A i \in DOMAIN s : Append(s, e)[i] = s[i]
    OBVIOUS
<1>2. \A i \in DOMAIN Append(s, e) : i \in DOMAIN s \/ i = Len(s) + 1 BY <1>1
<1>3. ToSet(Append(s, e)) = ToSet(s) \cup {e}
    <2>1. DOMAIN s \subseteq DOMAIN Append(s, e) /\ Len(s) + 1 \in DOMAIN Append(s, e) BY <1>1
    <2>2. QED BY <1>1, <1>2, <2>1 DEF ToSet
<1>4. Distinct(s) /\ e \notin ToSet(s) => Distinct(Append(s, e))
    BY <1>1, <1>2 DEF ToSet, Distinct
<1>5. QED BY <1>3, <1>4

\* A sequence without its kth element.
LEMMA CutFacts ==
    ASSUME NEW S, NEW s \in Seq(S), NEW k \in 1 .. Len(s)
    PROVE  LET t == SubSeq(s, 1, k - 1) \o SubSeq(s, k + 1, Len(s))
           IN  /\ Len(t) = Len(s) - 1 /\ DOMAIN t = 1 .. Len(s) - 1
               /\ \A i \in DOMAIN t : t[i] = IF i < k THEN s[i] ELSE s[i + 1]
<1> DEFINE n == Len(s)
           a == SubSeq(s, 1, k - 1)
           b == SubSeq(s, k + 1, n)
<1>1. n \in Nat /\ k \in Nat /\ 1 <= k /\ k <= n /\ \A i \in 1 .. n : s[i] \in S OBVIOUS
<1> HIDE DEF n
<1>2. a \in Seq(S) /\ Len(a) = k - 1 /\ \A i \in 1 .. k - 1 : a[i] = s[i]
    <2>1. \A i \in 1 .. k - 1 : s[i] \in S BY <1>1
    <2>2. /\ a \in Seq(S) /\ Len(a) = IF 1 <= k - 1 THEN k - 1 - 1 + 1 ELSE 0
          /\ \A i \in 1 .. k - 1 - 1 + 1 : a[i] = s[1 + i - 1]
        BY <1>1, <2>1, SubSeqProperties
    <2>3. k - 1 - 1 + 1 = k - 1 /\ (1 <= k - 1 \/ k - 1 = 0) BY <1>1
    <2>4. \A i \in 1 .. k - 1 : 1 + i - 1 = i BY <1>1
    <2>5. QED BY <2>2, <2>3, <2>4
<1>3. b \in Seq(S) /\ Len(b) = n - k /\ \A i \in 1 .. n - k : b[i] = s[k + i]
    <2>1. \A i \in k + 1 .. n : s[i] \in S BY <1>1
    <2>2. /\ b \in Seq(S) /\ Len(b) = IF k + 1 <= n THEN n - (k + 1) + 1 ELSE 0
          /\ \A i \in 1 .. n - (k + 1) + 1 : b[i] = s[k + 1 + i - 1]
        BY <1>1, <2>1, SubSeqProperties
    <2>3. n - (k + 1) + 1 = n - k /\ (k + 1 <= n \/ n - k = 0) BY <1>1
    <2>4. \A i \in 1 .. n - k : k + 1 + i - 1 = k + i BY <1>1
    <2>5. QED BY <2>2, <2>3, <2>4
<1> DEFINE t == a \o b
<1>4. t \in Seq(S) /\ Len(t) = Len(a) + Len(b)
      /\ \A i \in 1 .. Len(a) + Len(b) : t[i] = IF i <= Len(a) THEN a[i] ELSE b[i - Len(a)]
    BY <1>2, <1>3, ConcatProperties
<1> HIDE DEF t
<1>5. Len(t) = n - 1 /\ DOMAIN t = 1 .. n - 1
    <2>1. Len(t) = n - 1 BY <1>1, <1>2, <1>3, <1>4
    <2>2. DOMAIN t = 1 .. Len(t) BY <1>4, LenProperties
    <2>3. QED BY <2>1, <2>2
<1>6. ASSUME NEW i \in 1 .. n - 1 PROVE t[i] = IF i < k THEN s[i] ELSE s[i + 1]
    <2>0. Len(a) = k - 1 /\ Len(a) + Len(b) = n - 1 BY <1>1, <1>2, <1>3
    <2>1. t[i] = IF i <= k - 1 THEN a[i] ELSE b[i - (k - 1)] BY <1>4, <2>0
    <2>2. CASE i < k BY <1>1, <1>2, <2>1, <2>2
    <2>3. CASE ~(i < k)
        <3>1. i - (k - 1) \in 1 .. n - k /\ k + (i - (k - 1)) = i + 1 /\ ~(i <= k - 1) BY <1>1, <2>3
        <3>2. QED BY <1>3, <2>1, <2>3, <3>1
    <2>4. QED BY <2>2, <2>3
<1>7. QED BY <1>5, <1>6 DEF t, n

\* The one e that a sequence has is removed.
LEMMA RemoveOnce ==
    ASSUME NEW S, NEW s \in Seq(S), NEW e \in ToSet(s), Distinct(s)
    PROVE  /\ Len(RemoveFirst(s, e)) = Len(s) - 1
           /\ ToSet(RemoveFirst(s, e)) = ToSet(s) \ {e} /\ Distinct(RemoveFirst(s, e))
<1>1. PICK k \in 1 .. Len(s) : s[k] = e BY DEF ToSet
<1> DEFINE t == SubSeq(s, 1, k - 1) \o SubSeq(s, k + 1, Len(s))
<1>2. RemoveFirst(s, e) = t BY <1>1, RemoveFirstFacts
<1>3. /\ Len(t) = Len(s) - 1 /\ DOMAIN t = 1 .. Len(s) - 1 /\ Len(s) \in Nat /\ DOMAIN s = 1 .. Len(s)
      /\ \A i \in DOMAIN t : t[i] = IF i < k THEN s[i] ELSE s[i + 1]
    <2>1. Len(s) \in Nat /\ DOMAIN s = 1 .. Len(s) OBVIOUS
    <2>2. /\ Len(t) = Len(s) - 1 /\ DOMAIN t = 1 .. Len(s) - 1
          /\ \A i \in DOMAIN t : t[i] = IF i < k THEN s[i] ELSE s[i + 1]
        BY <1>1, CutFacts, Zenon
    <2>3. QED BY <2>1, <2>2
<1> HIDE DEF t
<1>4. \A i \in DOMAIN t : LET j == IF i < k THEN i ELSE i + 1
                         IN  j \in DOMAIN s /\ j # k /\ t[i] = s[j]
    BY <1>3
<1>5. \A j \in DOMAIN s : j # k => LET i == IF j < k THEN j ELSE j - 1
                                  IN  i \in DOMAIN t /\ t[i] = s[j]
    BY <1>3
<1>6. ASSUME NEW i \in DOMAIN t PROVE t[i] \in ToSet(s) \ {e}
    BY <1>1, <1>3, <1>4 DEF ToSet, Distinct
<1>7. ASSUME NEW x \in ToSet(s) \ {e} PROVE x \in ToSet(t)
    <2>1. PICK j \in DOMAIN s : s[j] = x BY DEF ToSet
    <2>2. j # k BY <1>1, <2>1
    <2>3. QED BY <1>5, <2>1, <2>2 DEF ToSet
<1>8. ToSet(t) = ToSet(s) \ {e} BY <1>6, <1>7 DEF ToSet
<1>9. Distinct(t)
    <2> SUFFICES ASSUME NEW i \in DOMAIN t, NEW j \in DOMAIN t, t[i] = t[j] PROVE i = j BY DEF Distinct
    <2>1. (IF i < k THEN i ELSE i + 1) = (IF j < k THEN j ELSE j + 1) BY <1>4 DEF Distinct
    <2>2. QED BY <1>3, <2>1
<1>10. QED BY <1>2, <1>3, <1>8, <1>9

\* A team that is in the queues once is in neither after its cancellation.
LEMMA QueueRemoves ==
    ASSUME NEW S, NEW s \in Seq(S), NEW t \in Seq(S), Distinct(s \o t), NEW e \in ToSet(s \o t)
    PROVE  LET q == RemoveFirst(s, e) \o RemoveFirst(t, e)
           IN  Len(q) = Len(s \o t) - 1 /\ ToSet(q) = ToSet(s \o t) \ {e} /\ Distinct(q)
<1>1. /\ ToSet(s \o t) = ToSet(s) \cup ToSet(t)
      /\ Distinct(s) /\ Distinct(t) /\ ToSet(s) \cap ToSet(t) = {}
    BY ConcatFacts
<1> DEFINE a == RemoveFirst(s, e)
           b == RemoveFirst(t, e)
<1>2. a \in Seq(S) /\ b \in Seq(S) BY RemoveFirstFacts
<1>3. ASSUME e \notin ToSet(s) PROVE a = s
    <2>1. ~(\E i \in 1 .. Len(s) : s[i] = e) BY <1>3 DEF ToSet
    <2>2. QED BY <2>1, RemoveFirstFacts
<1>4. ASSUME e \notin ToSet(t) PROVE b = t
    <2>1. ~(\E i \in 1 .. Len(t) : t[i] = e) BY <1>4 DEF ToSet
    <2>2. QED BY <2>1, RemoveFirstFacts
<1>5. e \in ToSet(s) => Len(a) = Len(s) - 1 /\ ToSet(a) = ToSet(s) \ {e} /\ Distinct(a)
    BY <1>1, RemoveOnce
<1>6. e \in ToSet(t) => Len(b) = Len(t) - 1 /\ ToSet(b) = ToSet(t) \ {e} /\ Distinct(b)
    BY <1>1, RemoveOnce
<1>7. /\ ToSet(a) = ToSet(s) \ {e} /\ ToSet(b) = ToSet(t) \ {e} /\ Distinct(a) /\ Distinct(b)
      /\ Len(a) + Len(b) = Len(s) + Len(t) - 1
    <2>1. CASE e \in ToSet(s)
        <3>1. e \notin ToSet(t) /\ b = t BY <1>1, <1>4, <2>1
        <3>2. QED BY <1>1, <1>5, <2>1, <3>1
    <2>2. CASE e \notin ToSet(s)
        <3>1. e \in ToSet(t) /\ a = s BY <1>1, <1>3, <2>2
        <3>2. QED BY <1>1, <1>6, <2>2, <3>1
    <2>3. QED BY <2>1, <2>2
<1> HIDE DEF a, b
<1>8. Len(a \o b) = Len(s \o t) - 1 BY <1>2, <1>7
<1>9. ToSet(a \o b) = ToSet(s \o t) \ {e} /\ Distinct(a \o b)
    BY <1>1, <1>2, <1>7, ConcatFacts
<1>10. QED BY <1>8, <1>9 DEF a, b

-----------------------------------------------------------------------------
(* Calls of Room: whoever waits has a call that will be answered. *)

LEMMA AppendCalls ==
    ASSUME NEW S, NEW s \in Seq(S), NEW e \in S
    PROVE  /\ Append(s, e) \in Seq(S) /\ DOMAIN Append(s, e) = 1 .. Len(s) + 1
           /\ Append(s, e)[Len(s) + 1] = e
           /\ DOMAIN s = 1 .. Len(s) /\ Len(s) \in Nat
           /\ \A i \in DOMAIN s : Append(s, e)[i] = s[i]
OBVIOUS

LEMMA AnswerKeeps ==
    ASSUME NEW m \in Ask, NEW ok \in BOOLEAN, NEW room, NEW box \in Seq(Ask), Answer(m, ok, room, box),
           cache \in [Player -> 0 .. lastId], asking \in [Player -> Kind \cup {"idle"}],
           lastId \in Nat, lastId' \in Nat, lastId <= lastId',
           m.kind = "create" /\ ok => room \in 0 .. lastId',
           AskFits(m, lastId'), \A i \in DOMAIN box : AskFits(box[i], lastId'),
           \A p \in Player : asking[p] # "idle" /\ ~(m.live /\ m.who = p) =>
               BusyFor(p)' \/ \E i \in DOMAIN box : box[i].live /\ box[i].who = p
    PROVE  /\ cache' \in [Player -> 0 .. lastId']
           /\ asking' \in [Player -> Kind \cup {"idle"}]
           /\ roomBox' \in Seq(Ask) /\ \A i \in DOMAIN roomBox' : AskFits(roomBox'[i], lastId')
           /\ \A p \in Player : asking'[p] # "idle" => AskedFor(p)'
<1> DEFINE next == Follows(m, ok)
           new == [m EXCEPT !.kind = next]
<1>1. cache \in [Player -> 0 .. lastId'] BY DEF AskFits
<1>2. m.who \in Player /\ (m.kind = "join" => m.room \in 0 .. lastId') /\ m.live \in BOOLEAN /\ m.kind \in Kind BY DEF Ask, AskFits
<1>3. CASE ~m.live
    <2>1. cache' = cache /\ asking' = asking /\ roomBox' = box BY <1>3 DEF Answer
    <2>2. QED BY <1>1, <1>3, <2>1 DEF AskedFor, CallOf
<1>4. CASE m.live
    <2>1. NextCache(m, ok, room) \in 0 .. lastId' BY <1>1, <1>2 DEF NextCache
    <2>2. next \in {"start", "cancel", "idle"} BY DEF Follows
    <2>3. /\ cache' = [cache EXCEPT ![m.who] = NextCache(m, ok, room)]
          /\ asking' = [asking EXCEPT ![m.who] = next]
          /\ roomBox' = IF next = "idle" THEN box ELSE Append(box, new)
        BY <1>4 DEF Answer
    <2> HIDE DEF next
    <2>4. cache' \in [Player -> 0 .. lastId'] BY <1>1, <1>2, <2>1, <2>3
    <2>5. asking' \in [Player -> Kind \cup {"idle"}] BY <2>2, <2>3 DEF Kind
    <2>6. \A p \in Player : asking'[p] = IF p = m.who THEN next ELSE asking[p] BY <2>3
    <2>7. CASE next = "idle"
        <3>1. roomBox' = box BY <2>3, <2>7
        <3>2. ASSUME NEW p \in Player, asking'[p] # "idle" PROVE AskedFor(p)'
            BY <2>6, <2>7, <3>1, <3>2 DEF AskedFor, CallOf
        <3>3. QED BY <2>4, <2>5, <3>1, <3>2
    <2>8. CASE next # "idle"
        <3>1. roomBox' = Append(box, new) BY <2>3, <2>8
        <3>2. new \in Ask /\ new.live /\ new.who = m.who BY <1>4, <2>2, <2>8 DEF Ask, Kind
        <3>3. AskFits(new, lastId') BY <2>2, <2>8, <1>2 DEF AskFits, Ask
        <3> HIDE DEF new
        <3>4. /\ roomBox' \in Seq(Ask) /\ DOMAIN roomBox' = 1 .. Len(box) + 1
              /\ roomBox'[Len(box) + 1] = new
              /\ DOMAIN box = 1 .. Len(box) /\ Len(box) \in Nat
              /\ \A i \in DOMAIN box : roomBox'[i] = box[i]
            BY <3>1, <3>2, AppendCalls
        <3>5. ASSUME NEW i \in DOMAIN roomBox' PROVE AskFits(roomBox'[i], lastId')
            <4>1. i \in DOMAIN box \/ i = Len(box) + 1 BY <3>4
            <4>2. QED BY <3>3, <3>4, <4>1
        <3>6. ASSUME NEW p \in Player, asking'[p] # "idle" PROVE AskedFor(p)'
            <4>1. CASE p = m.who
                <5>1. Len(box) + 1 \in DOMAIN roomBox' BY <3>4
                <5>2. QED BY <3>2, <3>4, <4>1, <5>1 DEF AskedFor, CallOf
            <4>2. CASE p # m.who
                <5>1. BusyFor(p)' \/ \E i \in DOMAIN box : box[i].live /\ box[i].who = p BY <2>6, <3>6, <4>2
                <5>2. \A i \in DOMAIN box : i \in DOMAIN roomBox' /\ roomBox'[i] = box[i] BY <3>4
                <5>3. QED BY <5>1, <5>2 DEF AskedFor, CallOf
            <4>3. QED BY <4>1, <4>2
        <3>7. QED BY <2>4, <2>5, <3>4, <3>5, <3>6
    <2>9. QED BY <2>7, <2>8
<1>5. QED BY <1>2, <1>3, <1>4

LEMMA TailCalls ==
    ASSUME NEW S, NEW s \in Seq(S), s # <<>>
    PROVE  /\ Head(s) \in S /\ Head(s) = s[1] /\ 1 \in DOMAIN s
           /\ Tail(s) \in Seq(S) /\ DOMAIN Tail(s) = 1 .. Len(s) - 1
           /\ DOMAIN s = 1 .. Len(s) /\ Len(s) \in Nat
           /\ \A i \in DOMAIN Tail(s) : Tail(s)[i] = s[i + 1] /\ i + 1 \in DOMAIN s
OBVIOUS

\* Room answers the call at the head of its mailbox.
LEMMA RepliesKeep ==
    ASSUME TalkInv, busy = Idle, roomBox # <<>>, lastId \in Nat, lastId' \in Nat, lastId <= lastId',
           NEW ok \in BOOLEAN, NEW room, Replies(ok, room),
           Head(roomBox).kind = "create" /\ ok => room \in 0 .. lastId'
    PROVE  TalkInv' /\ Head(roomBox) \in Ask /\ AskFits(Head(roomBox), lastId)
<1> DEFINE m == Head(roomBox)
           box == Tail(roomBox)
<1>1. /\ m \in Ask /\ m = roomBox[1] /\ 1 \in DOMAIN roomBox
      /\ box \in Seq(Ask) /\ DOMAIN box = 1 .. Len(roomBox) - 1
      /\ DOMAIN roomBox = 1 .. Len(roomBox) /\ Len(roomBox) \in Nat
      /\ \A i \in DOMAIN box : box[i] = roomBox[i + 1] /\ i + 1 \in DOMAIN roomBox
    BY TailCalls DEF TalkInv
<1>2. \A a \in Ask : AskFits(a, lastId) => AskFits(a, lastId')
    BY DEF AskFits, Ask
<1>3. Answer(m, ok, room, box) /\ asks' = asks /\ busy' = busy /\ lost' = lost BY DEF Replies
<1> HIDE DEF m, box
<1>4. AskFits(m, lastId) BY <1>1 DEF TalkInv
<1>5. ASSUME NEW i \in DOMAIN box PROVE AskFits(box[i], lastId')
    <2>1. AskFits(box[i], lastId) BY <1>1 DEF TalkInv
    <2>2. box[i] \in Ask BY <1>1
    <2>3. QED BY <1>2, <2>1, <2>2
<1>6. ASSUME NEW p \in Player, asking[p] # "idle", ~(m.live /\ m.who = p)
      PROVE  \E i \in DOMAIN box : box[i].live /\ box[i].who = p
    <2>1. PICK i \in DOMAIN roomBox : CallOf(p, i) BY <1>6 DEF TalkInv, AskedFor, BusyFor
    <2>2. i # 1 BY <1>1, <1>6, <2>1 DEF CallOf
    <2>3. i - 1 \in DOMAIN box /\ box[i - 1] = roomBox[(i - 1) + 1] /\ (i - 1) + 1 = i BY <1>1, <2>1, <2>2
    <2>4. QED BY <2>1, <2>3 DEF CallOf
<1>7. /\ cache' \in [Player -> 0 .. lastId']
      /\ asking' \in [Player -> Kind \cup {"idle"}]
      /\ roomBox' \in Seq(Ask) /\ \A i \in DOMAIN roomBox' : AskFits(roomBox'[i], lastId')
      /\ \A p \in Player : asking'[p] # "idle" => AskedFor(p)'
    <2>1. AskFits(m, lastId') BY <1>1, <1>2, <1>4
    <2>2. cache \in [Player -> 0 .. lastId] /\ asking \in [Player -> Kind \cup {"idle"}] BY DEF TalkInv
    <2>3. m.kind = "create" /\ ok => room \in 0 .. lastId' BY DEF m
    <2>4. QED BY <1>1, <1>3, <1>5, <1>6, <2>1, <2>2, <2>3, AnswerKeeps
<1>8. TalkInv' BY <1>3, <1>7 DEF TalkInv
<1>9. QED BY <1>1, <1>4, <1>8 DEF m

\* A client's message becomes a call.
LEMMA AsksKeeps ==
    ASSUME TalkInv, lastId \in Nat, lastId' = lastId, NEW p \in Player, NEW kind \in Kind,
           NEW n \in Name \cup {"none"}, NEW r \in 0 .. lastId, kind = "create" => n \in Name,
           Asks(p, kind, n, r)
    PROVE  TalkInv'
<1> DEFINE new == [kind |-> kind, who |-> p, name |-> n, room |-> r, live |-> TRUE]
<1>1. new \in Ask /\ AskFits(new, lastId) /\ new.live /\ new.who = p BY DEF Ask, AskFits
<1>2. /\ asks' = asks + 1 /\ asking' = [asking EXCEPT ![p] = kind] /\ roomBox' = Append(roomBox, new)
      /\ cache' = cache /\ busy' = busy /\ lost' = lost
    BY DEF Asks
<1> HIDE DEF new
<1>3. /\ roomBox' \in Seq(Ask) /\ DOMAIN roomBox' = 1 .. Len(roomBox) + 1
      /\ roomBox'[Len(roomBox) + 1] = new
      /\ DOMAIN roomBox = 1 .. Len(roomBox) /\ Len(roomBox) \in Nat
      /\ \A i \in DOMAIN roomBox : roomBox'[i] = roomBox[i]
    BY <1>1, <1>2, AppendCalls DEF TalkInv
<1>4. ASSUME NEW i \in DOMAIN roomBox' PROVE AskFits(roomBox'[i], lastId)
    <2>1. i \in DOMAIN roomBox \/ i = Len(roomBox) + 1 BY <1>3
    <2>2. QED BY <1>1, <1>3, <2>1 DEF TalkInv
<1>5. ASSUME NEW q \in Player, asking'[q] # "idle" PROVE AskedFor(q)'
    <2>1. CASE q = p
        <3>1. Len(roomBox) + 1 \in DOMAIN roomBox' BY <1>3
        <3>2. QED BY <1>1, <1>3, <2>1, <3>1 DEF AskedFor, CallOf
    <2>2. CASE q # p
        <3>1. asking[q] # "idle" BY <1>2, <1>5, <2>2 DEF TalkInv
        <3>2. BusyFor(q) \/ \E i \in DOMAIN roomBox : roomBox[i].live /\ roomBox[i].who = q
            BY <3>1 DEF TalkInv, AskedFor, CallOf
        <3>3. \A i \in DOMAIN roomBox : i \in DOMAIN roomBox' /\ roomBox'[i] = roomBox[i] BY <1>3
        <3>4. BusyFor(q) => BusyFor(q)' BY <1>2 DEF BusyFor
        <3>5. QED BY <3>2, <3>3, <3>4 DEF AskedFor, CallOf
    <2>3. QED BY <2>1, <2>2
<1>6. asking' \in [Player -> Kind \cup {"idle"}] BY <1>2 DEF TalkInv
<1>7. QED BY <1>2, <1>3, <1>4, <1>5, <1>6 DEF TalkInv

\* The time to live of the player's call runs out: nobody waits for its answer any more.
LEMMA CallExpiresKeeps ==
    ASSUME TalkInv, busy \in Busy \cup {Idle}, BusyInv, lastId \in Nat, NEW p \in Player, CallExpires(p)
    PROVE  /\ TalkInv' /\ lost' # 0
           /\ IF busy = Idle THEN busy' = Idle
              ELSE /\ busy' \in Busy /\ busy' # Idle /\ busy'.st = busy.st /\ busy'.kind = busy.kind
                   /\ busy'.room = busy.room /\ busy'.ok = busy.ok
                   /\ busy'.ask.kind = busy.ask.kind
<1> DEFINE Mine(m) == m.live /\ m.who = p
           I == {i \in DOMAIN roomBox : Mine(roomBox[i])}
           k == SelectInSeq(roomBox, Mine)
           m == IF busy # Idle /\ Mine(busy.ask) THEN busy.ask ELSE roomBox[k]
           box == [i \in DOMAIN roomBox |-> IF Mine(roomBox[i])
                      THEN [roomBox[i] EXCEPT !.live = FALSE] ELSE roomBox[i]]
<1>1. /\ Answer(m, Zero(m.kind), 0, box)
      /\ busy' = IF busy # Idle /\ Mine(busy.ask) THEN [busy EXCEPT !.ask.live = FALSE] ELSE busy
      /\ lost' = lost + 1 /\ asks' = asks /\ lastId' = lastId
      /\ asking[p] # "idle"
    BY DEF CallExpires, roomVars
<1>2. busy # Idle => busy.ask \in Ask /\ busy \in Busy BY DEF Busy
<1>3. /\ roomBox \in Seq(Ask) /\ DOMAIN roomBox = 1 .. Len(roomBox) /\ Len(roomBox) \in Nat
      /\ \A i \in DOMAIN roomBox : roomBox[i] \in Ask /\ AskFits(roomBox[i], lastId)
    BY DEF TalkInv
<1>4. ASSUME ~(busy # Idle /\ Mine(busy.ask)) PROVE k \in DOMAIN roomBox /\ Mine(roomBox[k])
    <2>1. I # {} BY <1>1, <1>4 DEF TalkInv, AskedFor, BusyFor, CallOf
    <2>2. I \in SUBSET Nat BY <1>3
    <2>3. Min(I) \in I BY <2>1, <2>2, MinExists
    <2>4. k = Min(I) BY <1>3, <2>1 DEF SelectInSeq
    <2>5. QED BY <2>3, <2>4
<1> HIDE DEF k
<1>5. m \in Ask /\ Mine(m) BY <1>2, <1>3, <1>4
<1>6. AskFits(m, lastId) BY <1>2, <1>3, <1>4 DEF BusyInv, AskFits
<1>7. box \in Seq(Ask) /\ DOMAIN box = DOMAIN roomBox
      /\ \A i \in DOMAIN box : AskFits(box[i], lastId) /\ (~Mine(roomBox[i]) => box[i] = roomBox[i])
    <2>1. \A i \in 1 .. Len(roomBox) : box[i] \in Ask BY <1>3 DEF Ask
    <2>2. box \in Seq(Ask) BY <1>3, <2>1
    <2>3. QED BY <1>3, <2>2 DEF AskFits
<1>8. ASSUME NEW q \in Player, asking[q] # "idle", q # p
      PROVE  BusyFor(q)' \/ \E i \in DOMAIN box : box[i].live /\ box[i].who = q
    <2>1. BusyFor(q) \/ \E i \in DOMAIN roomBox : CallOf(q, i) BY <1>8 DEF TalkInv, AskedFor
    <2>2. BusyFor(q) => BusyFor(q)' BY <1>1, <1>8 DEF BusyFor
    <2>3. \A i \in DOMAIN roomBox : CallOf(q, i) => box[i].live /\ box[i].who = q BY <1>7, <1>8 DEF CallOf
    <2>4. QED BY <1>7, <2>1, <2>2, <2>3
<1>9. /\ cache' \in [Player -> 0 .. lastId']
      /\ asking' \in [Player -> Kind \cup {"idle"}]
      /\ roomBox' \in Seq(Ask) /\ \A i \in DOMAIN roomBox' : AskFits(roomBox'[i], lastId')
      /\ \A q \in Player : asking'[q] # "idle" => AskedFor(q)'
    <2> DEFINE ok == Zero(m.kind)
    <2>1. ok \in BOOLEAN /\ (m.kind = "create" => ~ok) BY DEF Zero
    <2>2. cache \in [Player -> 0 .. lastId] /\ asking \in [Player -> Kind \cup {"idle"}] BY DEF TalkInv
    <2>3. Answer(m, ok, 0, box) BY <1>1
    <2>4. lastId' \in Nat /\ lastId <= lastId' BY <1>1
    <2>5. m \in Ask /\ m.live /\ m.who = p BY <1>5
    <2> HIDE DEF ok, m, box
    <2>6. AskFits(m, lastId') /\ \A i \in DOMAIN box : AskFits(box[i], lastId') BY <1>1, <1>6, <1>7
    <2>7. QED BY <1>7, <1>8, <2>1, <2>2, <2>3, <2>4, <2>5, <2>6, AnswerKeeps
<1>10. TalkInv' /\ lost' # 0 BY <1>1, <1>9 DEF TalkInv
<1>11. CASE busy = Idle BY <1>1, <1>10, <1>11
<1>12. CASE busy # Idle
    <2>1. busy \in Busy /\ busy.ask \in Ask BY <1>2, <1>12
    <2>2. [busy EXCEPT !.ask.live = FALSE] \in Busy BY <2>1 DEF Busy, Ask
    <2>3. /\ busy' \in Busy /\ busy'.st = busy.st /\ busy'.kind = busy.kind
          /\ busy'.room = busy.room /\ busy'.ok = busy.ok /\ busy'.ask.kind = busy.ask.kind
        BY <1>1, <2>1, <2>2 DEF Busy, Ask
    <2>4. busy' # Idle BY <2>3 DEF Busy, Idle
    <2>5. QED BY <1>10, <1>12, <2>3, <2>4
<1>13. QED BY <1>11, <1>12

-----------------------------------------------------------------------------
(* Rooms and their names. *)

LEMMA RoomsUnchanged == ASSUME RoomsInv, UNCHANGED roomVars PROVE RoomsInv'
BY DEF RoomsInv, RoomsTypeOK, NamesMatchRooms, Exists, roomVars

LEMMA RoomIsNotClosed == \A x \in Room : x # Closed
BY DEF Room, Closed

\* A new room has an id that was never handed out, and a name that was free.
LEMMA CreateKeeps ==
    ASSUME RoomsInv, NEW p \in Player, NEW n \in Name, CanCreate(n), Create(p, n)
    PROVE  /\ RoomsInv' /\ lastId' = lastId + 1 /\ lastId \in Nat
           /\ \A r \in RoomId : rooms'[r].state = "match" <=> rooms[r].state = "match"
<1> DEFINE id == lastId + 1
           new == [name |-> n, owner |-> p, state |-> "normal", ready |-> TRUE]
<1>1. /\ rooms \in [RoomId -> Room \cup {Closed}] /\ roomNames \in [Name -> 0 .. lastId]
      /\ playerRoom \in [Player -> 0 .. lastId] /\ lastId \in Nat
      /\ \A r \in RoomId : r > lastId => rooms[r] = Closed
    BY DEF RoomsInv, RoomsTypeOK
<1>2. /\ lastId' = id /\ rooms' = [rooms EXCEPT ![id] = new]
      /\ roomNames' = [roomNames EXCEPT ![n] = id] /\ playerRoom' = [playerRoom EXCEPT ![p] = id]
    BY DEF Create
<1>3. new \in Room /\ new # Closed /\ new.name = n /\ new.state = "normal" BY DEF Room, Closed
<1> HIDE DEF new
<1>4. \A r \in RoomId : r \in Nat /\ r # 0 BY IdsAreNumbers
<1>5. /\ rooms' \in [RoomId -> Room \cup {Closed}] /\ roomNames' \in [Name -> 0 .. lastId']
      /\ playerRoom' \in [Player -> 0 .. lastId'] /\ lastId' \in Nat
    <2>1. rooms' \in [RoomId -> Room \cup {Closed}] BY <1>1, <1>2, <1>3
    <2>2. lastId' \in Nat /\ id \in 0 .. lastId' /\ 0 .. lastId \subseteq 0 .. lastId' BY <1>1, <1>2
    <2> HIDE DEF id
    <2>3. roomNames' \in [Name -> 0 .. lastId'] BY <1>1, <1>2, <2>2
    <2>4. playerRoom' \in [Player -> 0 .. lastId'] BY <1>1, <1>2, <2>2
    <2>5. QED BY <2>1, <2>2, <2>3, <2>4
<1>6. \A r \in RoomId : rooms'[r] = IF r = id THEN new ELSE rooms[r] BY <1>1, <1>2
<1>7. \A r \in RoomId : r > lastId' => rooms'[r] = Closed BY <1>1, <1>2, <1>4, <1>6
<1>8. ASSUME NEW m \in Name, NEW r \in RoomId
      PROVE  roomNames'[m] = r <=> Exists(r)' /\ rooms'[r].name = m
    <2>1. roomNames[m] = r <=> Exists(r) /\ rooms[r].name = m BY DEF RoomsInv, NamesMatchRooms
    <2>2. roomNames'[m] = IF m = n THEN id ELSE roomNames[m] BY <1>1, <1>2
    <2>3. roomNames[n] = 0 BY DEF CanCreate
    <2>4. roomNames[m] \in 0 .. lastId BY <1>1
    <2>5. CASE r = id BY <1>1, <1>3, <1>6, <2>2, <2>4, <2>5 DEF Exists
    <2>6. CASE r # id BY <1>4, <1>6, <2>1, <2>2, <2>3, <2>6 DEF Exists
    <2>7. QED BY <2>5, <2>6
<1>9. \A r \in RoomId : rooms'[r].state = "match" <=> rooms[r].state = "match"
    BY <1>1, <1>3, <1>4, <1>6 DEF Closed
<1>10. QED BY <1>1, <1>2, <1>5, <1>7, <1>8, <1>9 DEF RoomsInv, RoomsTypeOK, NamesMatchRooms

\* With the room goes its name.
LEMMA DissolveKeeps ==
    ASSUME RoomsInv, NEW p \in Player, CanDissolve(p), Dissolve(p)
    PROVE  /\ RoomsInv' /\ lastId' = lastId /\ lastId \in Nat
           /\ \A r \in RoomId : rooms'[r].state = "match" <=> rooms[r].state = "match"
<1> DEFINE gone == playerRoom[p]
           free == rooms[gone].name
<1>1. /\ rooms \in [RoomId -> Room \cup {Closed}] /\ roomNames \in [Name -> 0 .. lastId]
      /\ playerRoom \in [Player -> 0 .. lastId] /\ lastId \in Nat
      /\ \A r \in RoomId : r > lastId => rooms[r] = Closed
    BY DEF RoomsInv, RoomsTypeOK
<1>2. /\ lastId' = lastId /\ rooms' = [rooms EXCEPT ![gone] = Closed]
      /\ roomNames' = [roomNames EXCEPT ![free] = 0] /\ playerRoom' = [playerRoom EXCEPT ![p] = 0]
    BY DEF Dissolve
<1>3. Exists(gone) /\ rooms[gone].state = "normal" BY DEF CanDissolve, In
<1> HIDE DEF gone
<1>4. gone \in RoomId /\ free \in Name BY <1>1, <1>3 DEF Exists, Room
<1>5. roomNames[free] = gone BY <1>3, <1>4 DEF RoomsInv, NamesMatchRooms
<1> HIDE DEF free
<1>6. /\ rooms' \in [RoomId -> Room \cup {Closed}] /\ roomNames' \in [Name -> 0 .. lastId']
      /\ playerRoom' \in [Player -> 0 .. lastId']
    <2>1. rooms' \in [RoomId -> Room \cup {Closed}] BY <1>1, <1>2
    <2>2. lastId' = lastId /\ 0 \in 0 .. lastId BY <1>1, <1>2
    <2>3. roomNames' \in [Name -> 0 .. lastId'] BY <1>1, <1>2, <2>2
    <2>4. playerRoom' \in [Player -> 0 .. lastId'] BY <1>1, <1>2, <2>2
    <2>5. QED BY <2>1, <2>3, <2>4
<1>7. \A r \in RoomId : rooms'[r] = IF r = gone THEN Closed ELSE rooms[r] BY <1>1, <1>2
<1>8. ASSUME NEW m \in Name, NEW r \in RoomId
      PROVE  roomNames'[m] = r <=> Exists(r)' /\ rooms'[r].name = m
    <2>1. roomNames[m] = r <=> Exists(r) /\ rooms[r].name = m BY DEF RoomsInv, NamesMatchRooms
    <2>2. roomNames'[m] = IF m = free THEN 0 ELSE roomNames[m] BY <1>1, <1>2
    <2>3. r # 0 BY IdsAreNumbers
    <2>4. roomNames[m] = gone => m = free
        BY <1>4, <1>5 DEF RoomsInv, NamesMatchRooms, free
    <2>5. QED BY <1>5, <1>7, <2>1, <2>2, <2>3, <2>4 DEF Exists
<1>9. \A r \in RoomId : rooms'[r].state = "match" <=> rooms[r].state = "match"
    BY <1>3, <1>7 DEF Closed
<1>10. \A r \in RoomId : r > lastId' => rooms'[r] = Closed BY <1>1, <1>2, <1>7
<1>11. QED BY <1>1, <1>2, <1>6, <1>8, <1>9, <1>10 DEF RoomsInv, RoomsTypeOK, NamesMatchRooms

\* A room changes, but neither its name nor its owner, nor that it is there.
LEMMA RoomChanges ==
    ASSUME RoomsInv, NEW r0 \in RoomId, Exists(r0), NEW new \in Room, new.name = rooms[r0].name,
           rooms' = [rooms EXCEPT ![r0] = new], UNCHANGED <<roomNames, playerRoom, lastId>>
    PROVE  RoomsInv' /\ lastId' = lastId /\ lastId \in Nat
<1>1. rooms \in [RoomId -> Room \cup {Closed}] /\ lastId \in Nat BY DEF RoomsInv, RoomsTypeOK
<1>2. \A r \in RoomId : rooms'[r] = IF r = r0 THEN new ELSE rooms[r] BY <1>1
<1>3. new # Closed BY RoomIsNotClosed
<1>4. \A r \in RoomId : (Exists(r)' <=> Exists(r)) /\ rooms'[r].name = rooms[r].name BY <1>2, <1>3 DEF Exists
<1>5. NamesMatchRooms' BY <1>4 DEF RoomsInv, NamesMatchRooms
<1>6. rooms' \in [RoomId -> Room \cup {Closed}] BY <1>1
<1>7. \A r \in RoomId : r > lastId' => rooms'[r] = Closed BY <1>2 DEF RoomsInv, Exists
<1>8. RoomsTypeOK' BY <1>6 DEF RoomsInv, RoomsTypeOK
<1>9. QED BY <1>1, <1>5, <1>7, <1>8 DEF RoomsInv

LEMMA PrepareKeeps ==
    ASSUME RoomsInv, NEW p \in Player, In(p, "normal"), NEW b \in BOOLEAN, Prepare(p, b)
    PROVE  /\ RoomsInv' /\ lastId' = lastId /\ lastId \in Nat
           /\ \A r \in RoomId : rooms'[r].state = "match" <=> rooms[r].state = "match"
<1> DEFINE r0 == playerRoom[p]
           new == [rooms[r0] EXCEPT !.ready = b]
<1>1. Exists(r0) BY DEF In
<1>2. r0 \in RoomId /\ rooms[r0] \in Room /\ rooms \in [RoomId -> Room \cup {Closed}]
    BY <1>1 DEF RoomsInv, RoomsTypeOK, Exists
<1>3. new \in Room /\ new.name = rooms[r0].name /\ new.state = rooms[r0].state BY <1>2 DEF Room
<1>4. rooms' = [rooms EXCEPT ![r0] = new] /\ UNCHANGED <<roomNames, playerRoom, lastId>> BY DEF Prepare
<1> HIDE DEF r0, new
<1>5. RoomsInv' /\ lastId' = lastId /\ lastId \in Nat BY <1>1, <1>2, <1>3, <1>4, RoomChanges
<1>6. QED BY <1>2, <1>3, <1>4, <1>5

LEMMA SetStateKeeps ==
    ASSUME RoomsInv, NEW r0 \in RoomId, Exists(r0), NEW state \in {"normal", "match"}, SetState(r0, state)
    PROVE  /\ RoomsInv' /\ lastId' = lastId /\ lastId \in Nat
           /\ \A r \in RoomId : rooms'[r].state = IF r = r0 THEN state ELSE rooms[r].state
<1> DEFINE new == [rooms[r0] EXCEPT !.state = state]
<1>1. rooms[r0] \in Room /\ rooms \in [RoomId -> Room \cup {Closed}] BY DEF RoomsInv, RoomsTypeOK, Exists
<1>2. new \in Room /\ new.name = rooms[r0].name /\ new.state = state BY <1>1 DEF Room
<1>3. rooms' = [rooms EXCEPT ![r0] = new] /\ UNCHANGED <<roomNames, playerRoom, lastId>> BY DEF SetState
<1> HIDE DEF new
<1>4. RoomsInv' /\ lastId' = lastId /\ lastId \in Nat BY <1>2, <1>3, RoomChanges
<1>5. QED BY <1>1, <1>2, <1>3, <1>4

-----------------------------------------------------------------------------
(* Steps that Match takes no part in. *)

LEMMA MatchUnchanged ==
    ASSUME RoomInv, UNCHANGED <<matchVars, busy, matchBox, lost>>, busy = Idle \/ UNCHANGED rooms,
           \A r \in RoomId : rooms'[r].state = "match" <=> rooms[r].state = "match"
    PROVE  CallInv' /\ PoolInv' /\ QueueInv'
<1>1. /\ sortIds' = sortIds /\ waitIds' = waitIds /\ teamInfo' = teamInfo /\ teamNum' = teamNum
      /\ matchlock' = matchlock /\ hung' = hung /\ busy' = busy /\ matchBox' = matchBox /\ lost' = lost
    BY DEF matchVars
<1>2. BusyInv' BY <1>1 DEF RoomInv, CallInv, BusyInv, Exists
<1>3. OrderInv' BY <1>1 DEF RoomInv, CallInv, OrderInv, RoomWaits, BusyOrder
<1>4. CallInv' BY <1>1, <1>2, <1>3 DEF RoomInv, CallInv
<1>5. \A r \in RoomId : Matching(r)' <=> Matching(r) BY <1>1 DEF Matching
<1>6. PoolInv' BY <1>1, <1>5 DEF RoomInv, PoolInv, PoolIsMatching, MatchTypeOK
<1>7. QueueInv' BY <1>1 DEF RoomInv, QueueInv, LockedIsIdle, QueuedOnce, Queued, Distinct
<1>8. QED BY <1>4, <1>6, <1>7

LEMMA PlayerStepKeeps ==
    ASSUME RoomInv, NEW p \in Player, PlayerStep(p) PROVE RoomInv'
<1>1. TalkInv /\ RoomsInv /\ lastId \in Nat BY DEF RoomInv, RoomsInv, RoomsTypeOK
<1>2. ASSUME NEW kind \in Kind, NEW n \in Name \cup {"none"}, NEW r \in 0 .. lastId,
             kind = "create" => n \in Name, Asks(p, kind, n, r)
      PROVE  RoomInv'
    <2>1. UNCHANGED roomVars /\ UNCHANGED <<matchVars, busy, matchBox, lost>> BY <1>2 DEF Asks
    <2>2. lastId' = lastId /\ rooms' = rooms BY <2>1 DEF roomVars
    <2>3. TalkInv' BY <1>1, <1>2, <2>2, AsksKeeps
    <2>4. RoomsInv' BY <1>1, <2>1, RoomsUnchanged
    <2>5. CallInv' /\ PoolInv' /\ QueueInv' BY <2>1, <2>2, MatchUnchanged
    <2>6. QED BY <2>3, <2>4, <2>5 DEF RoomInv
<1>3. 0 \in 0 .. lastId /\ \A r \in 1 .. lastId : r \in 0 .. lastId BY <1>1
<1>4. {"create", "join", "exit", "dissolve", "ready", "unready", "startIf", "cancelIf"} \subseteq Kind
    BY DEF Kind, Question
<1>5. CASE CreateRoom(p)
    <2>1. PICK n \in Name : Asks(p, "create", n, 0) BY <1>5 DEF CreateRoom
    <2>2. QED BY <1>2, <1>3, <1>4, <2>1
<1>6. CASE JoinRoom(p)
    <2>1. PICK r \in 1 .. lastId : Asks(p, "join", "none", r) BY <1>6 DEF JoinRoom
    <2>2. r \in 0 .. lastId BY <1>3
    <2>3. QED BY <1>2, <1>4, <2>1, <2>2
<1>7. CASE ExitRoom(p) BY <1>2, <1>3, <1>4, <1>7 DEF ExitRoom
<1>8. CASE DissolveRoom(p) BY <1>2, <1>3, <1>4, <1>8 DEF DissolveRoom
<1>9. CASE ReadyGame(p)
    <2>1. PICK r \in 1 .. lastId, kind \in {"ready", "unready"} : Asks(p, kind, "none", r)
        BY <1>9 DEF ReadyGame
    <2>2. r \in 0 .. lastId BY <1>3
    <2>3. QED BY <1>2, <1>4, <2>1, <2>2
<1>10. CASE StartGameMatch(p) BY <1>2, <1>3, <1>4, <1>10 DEF StartGameMatch
<1>11. CASE CancelGameMatch(p) BY <1>2, <1>3, <1>4, <1>11 DEF CancelGameMatch
<1>12. CASE Logout(p)
    <2>1. UNCHANGED roomVars /\ UNCHANGED <<matchVars, busy, matchBox, lost>>
          /\ cache' = [cache EXCEPT ![p] = 0] /\ UNCHANGED <<asks, asking, roomBox>>
        BY <1>12 DEF Logout
    <2>2. lastId' = lastId /\ rooms' = rooms BY <2>1 DEF roomVars
    <2>3. cache' \in [Player -> 0 .. lastId'] BY <1>3, <2>1, <2>2 DEF RoomInv, TalkInv
    <2>4. TalkInv' BY <2>1, <2>2, <2>3 DEF RoomInv, TalkInv, AskedFor, BusyFor, CallOf
    <2>5. RoomsInv' BY <1>1, <2>1, RoomsUnchanged
    <2>6. CallInv' /\ PoolInv' /\ QueueInv' BY <2>1, <2>2, MatchUnchanged
    <2>7. QED BY <2>4, <2>5, <2>6 DEF RoomInv
<1>13. QED BY <1>5, <1>6, <1>7, <1>8, <1>9, <1>10, <1>11, <1>12 DEF PlayerStep

\* Room answers at once, and has changed its rooms or not.
LEMMA RoomRepliesKeep ==
    ASSUME RoomInv, busy = Idle, roomBox # <<>>, NEW ok \in BOOLEAN, NEW room, Replies(ok, room),
           RoomsInv', lastId \in Nat, lastId' \in Nat, lastId <= lastId',
           Head(roomBox).kind = "create" /\ ok => room \in 0 .. lastId',
           \A r \in RoomId : rooms'[r].state = "match" <=> rooms[r].state = "match"
    PROVE  RoomInv'
<1>1. TalkInv' BY RepliesKeep DEF RoomInv
<1>2. UNCHANGED <<matchVars, busy, matchBox, lost>> BY DEF Replies
<1>3. CallInv' /\ PoolInv' /\ QueueInv' BY <1>2, MatchUnchanged
<1>4. QED BY <1>1, <1>3 DEF RoomInv

LEMMA RoomRefusesKeep ==
    ASSUME RoomInv, busy = Idle, roomBox # <<>>, NEW ok \in BOOLEAN, Replies(ok, 0), UNCHANGED roomVars
    PROVE  RoomInv'
<1>1. lastId \in Nat /\ RoomsInv BY DEF RoomInv, RoomsInv, RoomsTypeOK
<1>2. RoomsInv' /\ lastId' = lastId /\ rooms' = rooms BY <1>1, RoomsUnchanged DEF roomVars
<1>3. 0 \in 0 .. lastId' /\ lastId <= lastId' /\ lastId' \in Nat BY <1>1, <1>2
<1>4. QED BY <1>1, <1>2, <1>3, RoomRepliesKeep

LEMMA RoomAnswersKeep ==
    ASSUME RoomInv, OnCreateRoom \/ OnJoinRoom \/ OnExitRoom \/ OnDissolveRoom \/ OnReadyGame \/ OnPlayerIsMatches
    PROVE  RoomInv'
<1> DEFINE m == Head(roomBox)
<1>1. busy = Idle /\ roomBox # <<>>
    BY DEF OnCreateRoom, OnJoinRoom, OnExitRoom, OnDissolveRoom, OnReadyGame, OnPlayerIsMatches, Takes
<1>2. m \in Ask /\ AskFits(m, lastId) /\ m.who \in Player /\ RoomsInv /\ lastId \in Nat
    <2>1. m \in Ask /\ m = roomBox[1] /\ 1 \in DOMAIN roomBox BY <1>1, TailCalls DEF RoomInv, TalkInv
    <2>2. QED BY <2>1 DEF RoomInv, TalkInv, Ask, RoomsInv, RoomsTypeOK
<1>3. TRUE \in BOOLEAN /\ FALSE \in BOOLEAN OBVIOUS
<1>4. CASE OnCreateRoom
    <2>1. m.kind = "create" /\ m.name \in Name BY <1>2, <1>4 DEF OnCreateRoom, Takes, AskFits
    <2>2. CASE CanCreate(m.name)
        <3>1. Create(m.who, m.name) /\ Replies(TRUE, lastId') BY <1>4, <2>2 DEF OnCreateRoom
        <3>2. /\ RoomsInv' /\ lastId' = lastId + 1
              /\ \A r \in RoomId : rooms'[r].state = "match" <=> rooms[r].state = "match"
            BY <1>2, <2>1, <2>2, <3>1, CreateKeeps
        <3>3. lastId' \in 0 .. lastId' /\ lastId <= lastId' /\ lastId' \in Nat BY <1>2, <3>2
        <3>4. QED BY <1>1, <1>2, <1>3, <3>1, <3>2, <3>3, RoomRepliesKeep
    <2>3. CASE ~CanCreate(m.name)
        <3>1. UNCHANGED roomVars /\ Replies(FALSE, 0) BY <1>4, <2>3 DEF OnCreateRoom
        <3>2. QED BY <1>1, <1>3, <3>1, RoomRefusesKeep
    <2>4. QED BY <2>2, <2>3
<1>5. CASE OnJoinRoom
    <2>1. UNCHANGED roomVars /\ (Replies(FALSE, 0) \/ Replies(Zero("join"), 0)) BY <1>5 DEF OnJoinRoom
    <2>2. Zero("join") = TRUE BY DEF Zero
    <2>3. QED BY <1>1, <1>3, <2>1, <2>2, RoomRefusesKeep
<1>6. CASE OnExitRoom
    <2>1. UNCHANGED roomVars /\ Replies(FALSE, 0) BY <1>6 DEF OnExitRoom
    <2>2. QED BY <1>1, <1>3, <2>1, RoomRefusesKeep
<1>7. CASE OnDissolveRoom
    <2>1. m.kind = "dissolve" BY <1>7 DEF OnDissolveRoom, Takes
    <2>2. CASE CanDissolve(m.who)
        <3>1. Dissolve(m.who) /\ Replies(TRUE, 0) BY <1>7, <2>2 DEF OnDissolveRoom
        <3>2. /\ RoomsInv' /\ lastId' = lastId
              /\ \A r \in RoomId : rooms'[r].state = "match" <=> rooms[r].state = "match"
            BY <1>2, <2>2, <3>1, DissolveKeeps
        <3>3. lastId <= lastId' /\ lastId' \in Nat BY <1>2, <3>2
        <3>4. QED BY <1>1, <1>2, <1>3, <2>1, <3>1, <3>2, <3>3, RoomRepliesKeep
    <2>3. CASE ~CanDissolve(m.who)
        <3>1. UNCHANGED roomVars /\ Replies(FALSE, 0) BY <1>7, <2>3 DEF OnDissolveRoom
        <3>2. QED BY <1>1, <1>3, <3>1, RoomRefusesKeep
    <2>4. QED BY <2>2, <2>3
<1>8. CASE OnReadyGame
    <2>1. m.kind # "create" BY <1>8 DEF OnReadyGame, Takes
    <2>2. CASE CanPrepare(m.who, m.room)
        <3> DEFINE b == m.kind = "ready"
        <3>1. Prepare(m.who, b) /\ Replies(TRUE, 0) BY <1>8, <2>2 DEF OnReadyGame
        <3>2. In(m.who, "normal") /\ b \in BOOLEAN BY <2>2 DEF CanPrepare
        <3> HIDE DEF b
        <3>3. /\ RoomsInv' /\ lastId' = lastId
              /\ \A r \in RoomId : rooms'[r].state = "match" <=> rooms[r].state = "match"
            BY <1>2, <3>1, <3>2, PrepareKeeps
        <3>4. lastId <= lastId' /\ lastId' \in Nat BY <1>2, <3>3
        <3>5. QED BY <1>1, <1>2, <1>3, <2>1, <3>1, <3>3, <3>4, RoomRepliesKeep
    <2>3. CASE ~CanPrepare(m.who, m.room)
        <3>1. UNCHANGED roomVars /\ Replies(FALSE, 0) BY <1>8, <2>3 DEF OnReadyGame
        <3>2. QED BY <1>1, <1>3, <3>1, RoomRefusesKeep
    <2>4. QED BY <2>2, <2>3
<1>9. CASE OnPlayerIsMatches
    <2>1. UNCHANGED roomVars /\ Replies(OnPlayerIsMatch(m.who), 0) BY <1>9 DEF OnPlayerIsMatches
    <2>2. OnPlayerIsMatch(m.who) \in BOOLEAN BY DEF OnPlayerIsMatch, In
    <2>3. QED BY <1>1, <2>1, <2>2, RoomRefusesKeep
<1>10. QED BY <1>4, <1>5, <1>6, <1>7, <1>8, <1>9

\* Once a call has come late, nothing is promised of the pool and little of the queues.
LEMMA LateKeeps ==
    ASSUME RoomInv, UNCHANGED matchVars, lost' # 0 PROVE PoolInv' /\ QueueInv'
<1>1. /\ sortIds' = sortIds /\ waitIds' = waitIds /\ teamInfo' = teamInfo /\ teamNum' = teamNum
      /\ matchlock' = matchlock /\ hung' = hung
    BY DEF matchVars
<1>2. PoolInv' BY <1>1 DEF RoomInv, PoolInv, PoolIsMatching, MatchTypeOK
<1>3. QueueInv' BY <1>1 DEF RoomInv, QueueInv, LockedIsIdle, QueuedOnce, Queued
<1>4. QED BY <1>2, <1>3

LEMMA LateCallKeeps ==
    ASSUME RoomInv, NEW p \in Player, CallExpires(p) PROVE RoomInv'
<1>1. /\ busy \in Busy \cup {Idle} /\ BusyInv /\ TalkInv /\ lastId \in Nat /\ RoomsInv
    BY DEF RoomInv, CallInv, RoomsInv, RoomsTypeOK
<1>2. /\ TalkInv' /\ lost' # 0
      /\ IF busy = Idle THEN busy' = Idle
         ELSE /\ busy' \in Busy /\ busy' # Idle /\ busy'.st = busy.st /\ busy'.kind = busy.kind
              /\ busy'.room = busy.room /\ busy'.ok = busy.ok
              /\ busy'.ask.kind = busy.ask.kind
    BY <1>1, CallExpiresKeeps
<1>3. UNCHANGED roomVars /\ UNCHANGED matchVars /\ matchBox' = matchBox BY DEF CallExpires
<1>4. PoolInv' /\ QueueInv' BY <1>2, <1>3, LateKeeps
<1>5. RoomsInv' /\ rooms' = rooms BY <1>1, <1>3, RoomsUnchanged DEF roomVars
<1>6. BusyInv' BY <1>1, <1>2, <1>5 DEF BusyInv, Exists
<1>7. OrderInv' BY <1>2, <1>3 DEF RoomInv, CallInv, OrderInv, RoomWaits, BusyOrder
<1>8. CallInv' BY <1>1, <1>2, <1>3, <1>6, <1>7 DEF RoomInv, CallInv
<1>9. QED BY <1>2, <1>4, <1>5, <1>8 DEF RoomInv

-----------------------------------------------------------------------------
(* Room calls Match. *)

LEMMA OnMatchCallKeeps ==
    ASSUME RoomInv, OnMatchCall PROVE RoomInv'
<1> DEFINE m == Head(roomBox)
           r == playerRoom[m.who]
           can == IF m.kind = "start" THEN CanStart(m.who) ELSE CanCancel(m.who)
           new == [st |-> "waiting", kind |-> m.kind, ask |-> m, room |-> r, ok |-> FALSE]
           order == [kind |-> m.kind, room |-> r, live |-> TRUE]
           box == Tail(roomBox)
<1>1. busy = Idle /\ roomBox # <<>> /\ m.kind \in {"start", "cancel"} BY DEF OnMatchCall, Takes
<1>2. CASE ~can
    <2>1. UNCHANGED roomVars /\ Replies(FALSE, 0) BY <1>2 DEF OnMatchCall
    <2>2. FALSE \in BOOLEAN OBVIOUS
    <2>3. QED BY <1>1, <2>1, <2>2, RoomRefusesKeep
<1>3. CASE can
    <2>1. /\ roomBox' = box /\ busy' = new
          /\ matchBox' = IF hung THEN matchBox ELSE Append(matchBox, order)
          /\ UNCHANGED <<roomVars, matchVars, cache, asks, asking, lost>>
        BY <1>3 DEF OnMatchCall
    <2>2. UNCHANGED roomVars /\ rooms' = rooms /\ lastId' = lastId /\ cache' = cache /\ asks' = asks
          /\ asking' = asking /\ lost' = lost
          /\ sortIds' = sortIds /\ waitIds' = waitIds /\ teamInfo' = teamInfo /\ teamNum' = teamNum
          /\ matchlock' = matchlock /\ hung' = hung
        BY <2>1 DEF roomVars, matchVars
    <2>3. /\ m \in Ask /\ m = roomBox[1] /\ 1 \in DOMAIN roomBox
          /\ box \in Seq(Ask) /\ DOMAIN box = 1 .. Len(roomBox) - 1
          /\ DOMAIN roomBox = 1 .. Len(roomBox) /\ Len(roomBox) \in Nat
          /\ \A i \in DOMAIN box : box[i] = roomBox[i + 1] /\ i + 1 \in DOMAIN roomBox
        BY <1>1, TailCalls DEF RoomInv, TalkInv
    <2>4. Exists(r) /\ rooms[r].state = IF m.kind = "start" THEN "normal" ELSE "match"
        BY <1>1, <1>3 DEF CanStart, CanDissolve, CanCancel, In
    <2>5. r \in RoomId BY <2>4 DEF Exists
    <2> HIDE DEF can, r, m, box
    <2>6. new \in Busy /\ order \in Order BY <1>1, <2>3, <2>5 DEF Busy, Order
    <2>7. /\ new.st = "waiting" /\ new.kind = m.kind /\ new.ask = m /\ new.room = r /\ ~new.ok
        OBVIOUS
    <2> HIDE DEF new
    <2>8. new # Idle BY <2>6 DEF Busy, Idle
    <2>9. RoomsInv' BY <2>2, RoomsUnchanged DEF RoomInv
    <2>10. TalkInv'
        <3>1. ASSUME NEW p \in Player, asking[p] # "idle" PROVE AskedFor(p)'
            <4>1. PICK i \in DOMAIN roomBox : CallOf(p, i)
                BY <1>1, <3>1 DEF RoomInv, TalkInv, AskedFor, BusyFor
            <4>2. CASE i = 1 BY <2>1, <2>3, <2>7, <2>8, <4>1, <4>2 DEF AskedFor, BusyFor, CallOf
            <4>3. CASE i # 1
                <5>1. i - 1 \in DOMAIN box /\ (i - 1) + 1 = i BY <2>3, <4>1, <4>3
                <5>2. box[i - 1] = roomBox[i] BY <2>3, <5>1
                <5>3. i - 1 \in DOMAIN roomBox' /\ roomBox'[i - 1] = roomBox[i] BY <2>1, <5>1, <5>2
                <5>4. QED BY <4>1, <5>3 DEF AskedFor, CallOf
            <4>4. QED BY <4>2, <4>3
        <3>2. ASSUME NEW i \in DOMAIN box PROVE AskFits(box[i], lastId)
            BY <2>3 DEF RoomInv, TalkInv
        <3>3. QED BY <2>1, <2>2, <2>3, <3>1, <3>2 DEF RoomInv, TalkInv
    <2>11. BusyInv' BY <1>1, <2>1, <2>2, <2>4, <2>7 DEF BusyInv, Exists
    <2>12. OrderInv' /\ matchBox' \in Seq(Order)
        <3>1. /\ matchBox \in Seq(Order) /\ \A i \in DOMAIN matchBox : ~matchBox[i].live
              /\ lost = 0 /\ ~hung => matchBox = <<>>
            BY <1>1 DEF RoomInv, CallInv, OrderInv, RoomWaits
        <3>2. RoomWaits' /\ BusyOrder' = order BY <2>1, <2>7, <2>8 DEF RoomWaits, BusyOrder
        <3> HIDE DEF order
        <3>3. CASE hung BY <2>1, <2>2, <3>1, <3>3 DEF OrderInv
        <3>4. CASE ~hung
            <4>1. matchBox' = Append(matchBox, order) BY <2>1, <3>4
            <4>2. /\ matchBox' \in Seq(Order) /\ DOMAIN matchBox' = 1 .. Len(matchBox) + 1
                  /\ matchBox'[Len(matchBox) + 1] = order /\ Len(matchBox') = Len(matchBox) + 1
                  /\ DOMAIN matchBox = 1 .. Len(matchBox) /\ Len(matchBox) \in Nat
                  /\ \A i \in DOMAIN matchBox : matchBox'[i] = matchBox[i]
                BY <2>6, <3>1, <4>1, AppendCalls
            <4>3. ASSUME NEW i \in DOMAIN matchBox', matchBox'[i].live PROVE i = Len(matchBox')
                <5>1. i \in DOMAIN matchBox \/ i = Len(matchBox) + 1 BY <4>2
                <5>2. QED BY <3>1, <4>2, <4>3, <5>1
            <4>4. lost = 0 => matchBox' = <<order>> BY <3>1, <3>4, <4>1
            <4>5. QED BY <2>2, <3>2, <4>2, <4>3, <4>4 DEF OrderInv
        <3>5. QED BY <3>3, <3>4
    <2>13. CallInv' BY <2>1, <2>6, <2>11, <2>12 DEF CallInv
    <2>14. \A x \in RoomId : Matching(x)' <=> Matching(x)
        BY <1>1, <2>1, <2>2, <2>7 DEF Matching
    <2>15. PoolInv' BY <2>2, <2>14 DEF RoomInv, PoolInv, PoolIsMatching, MatchTypeOK
    <2>16. QueueInv' BY <2>2 DEF RoomInv, QueueInv, LockedIsIdle, QueuedOnce, Queued, Distinct
    <2>17. QED BY <2>9, <2>10, <2>13, <2>15, <2>16 DEF RoomInv
<1>4. QED BY <1>2, <1>3

\* Room goes on, and does what it had called Match for.
LEMMA RoomGoesOnKeeps ==
    ASSUME RoomInv, RoomGoesOn PROVE RoomInv'
<1> DEFINE m == busy.ask
           state == IF busy.kind = "start" THEN "match" ELSE "normal"
<1>1. /\ busy # Idle /\ busy.st = "done" /\ busy \in Busy /\ m \in Ask /\ busy.room \in RoomId
      /\ busy.ok \in BOOLEAN /\ Exists(busy.room) /\ m.kind \in {"start", "cancel"}
    BY DEF RoomGoesOn, RoomInv, CallInv, BusyInv, Busy
<1>2. /\ Answer(m, busy.ok, 0, roomBox) /\ busy' = Idle
      /\ UNCHANGED <<matchVars, asks, matchBox, lost>>
      /\ IF busy.ok THEN SetState(busy.room, state) ELSE UNCHANGED roomVars
    BY DEF RoomGoesOn
<1>3. /\ asks' = asks /\ lost' = lost /\ matchBox' = matchBox
      /\ sortIds' = sortIds /\ waitIds' = waitIds /\ teamInfo' = teamInfo /\ teamNum' = teamNum
      /\ matchlock' = matchlock /\ hung' = hung
    BY <1>2 DEF matchVars
<1>4. state \in {"normal", "match"} OBVIOUS
<1>5. /\ RoomsInv' /\ lastId' = lastId /\ lastId \in Nat
      /\ \A r \in RoomId : rooms'[r].state = IF busy.ok /\ r = busy.room THEN state ELSE rooms[r].state
    <2> HIDE DEF state
    <2>1. RoomsInv /\ lastId \in Nat BY DEF RoomInv, RoomsInv, RoomsTypeOK
    <2>2. CASE busy.ok
        <3>1. SetState(busy.room, state) BY <1>2, <2>2
        <3>2. QED BY <1>1, <1>4, <2>1, <2>2, <3>1, SetStateKeeps
    <2>3. CASE ~busy.ok
        <3>1. UNCHANGED roomVars BY <1>2, <2>3
        <3>2. RoomsInv' /\ lastId' = lastId /\ rooms' = rooms BY <2>1, <3>1, RoomsUnchanged DEF roomVars
        <3>3. QED BY <2>1, <2>3, <3>2
    <2>4. QED BY <2>2, <2>3
<1>6. TalkInv'
    <2>1. /\ cache \in [Player -> 0 .. lastId] /\ asking \in [Player -> Kind \cup {"idle"}]
          /\ roomBox \in Seq(Ask) /\ \A i \in DOMAIN roomBox : AskFits(roomBox[i], lastId')
          /\ \A p \in Player : asking[p] # "idle" => AskedFor(p)
        BY <1>5 DEF RoomInv, TalkInv
    <2>2. AskFits(m, lastId') BY <1>1 DEF AskFits
    <2>3. ASSUME NEW p \in Player, asking[p] # "idle", ~(m.live /\ m.who = p)
          PROVE  \E i \in DOMAIN roomBox : roomBox[i].live /\ roomBox[i].who = p
        BY <2>1, <2>3 DEF AskedFor, BusyFor, CallOf
    <2>4. lastId' \in Nat /\ lastId <= lastId' /\ m.kind # "create" BY <1>1, <1>5
    <2> DEFINE ok == busy.ok
    <2>5. ok \in BOOLEAN /\ Answer(m, ok, 0, roomBox) /\ m \in Ask BY <1>1, <1>2
    <2> HIDE DEF m, ok
    <2>6. /\ cache' \in [Player -> 0 .. lastId']
          /\ asking' \in [Player -> Kind \cup {"idle"}]
          /\ roomBox' \in Seq(Ask) /\ \A i \in DOMAIN roomBox' : AskFits(roomBox'[i], lastId')
          /\ \A p \in Player : asking'[p] # "idle" => AskedFor(p)'
        BY <1>5, <2>1, <2>2, <2>3, <2>4, <2>5, AnswerKeeps
    <2>7. QED BY <1>3, <2>6 DEF RoomInv, TalkInv
<1>7. OrderInv'
    <2>1. matchBox' = matchBox /\ ~RoomWaits /\ ~RoomWaits' BY <1>1, <1>2, <1>3 DEF RoomWaits
    <2>2. QED BY <1>3, <2>1 DEF RoomInv, CallInv, OrderInv
<1>8. CallInv' BY <1>2, <1>3, <1>7 DEF RoomInv, CallInv, BusyInv
<1>9. \A r \in RoomId : Matching(r)' <=> Matching(r)
    BY <1>1, <1>2, <1>5 DEF Matching
<1>10. PoolInv' BY <1>3, <1>9 DEF RoomInv, PoolInv, PoolIsMatching, MatchTypeOK
<1>11. QueueInv' BY <1>3 DEF RoomInv, QueueInv, LockedIsIdle, QueuedOnce, Queued, Distinct
<1>12. QED BY <1>5, <1>6, <1>8, <1>10, <1>11 DEF RoomInv

\* Room gives up waiting for Match.
LEMMA MatchCallExpiresKeeps ==
    ASSUME RoomInv, MatchCallExpires PROVE RoomInv'
<1>1. /\ busy # Idle /\ busy.st = "waiting" /\ busy \in Busy /\ ~busy.ok
      /\ busy' = [busy EXCEPT !.st = "done"]
    BY DEF MatchCallExpires, RoomWaits, RoomInv, CallInv, BusyInv
<1>2. UNCHANGED roomVars /\ rooms' = rooms /\ lastId' = lastId /\ cache' = cache /\ asks' = asks
      /\ asking' = asking /\ roomBox' = roomBox
      /\ sortIds' = sortIds /\ waitIds' = waitIds /\ teamInfo' = teamInfo /\ teamNum' = teamNum
      /\ matchlock' = matchlock /\ hung' = hung
    BY DEF MatchCallExpires, roomVars, matchVars
<1>3. lost' \in Nat /\ (hung \/ lost' # 0) /\ (lost' = 0 => lost = 0)
    BY DEF MatchCallExpires, RoomInv, TalkInv
<1>4. /\ busy' \in Busy /\ busy'.st = "done" /\ busy'.kind = busy.kind /\ busy'.ask = busy.ask
      /\ busy'.room = busy.room /\ busy'.ok = busy.ok
    BY <1>1 DEF Busy
<1>5. busy' # Idle BY <1>4 DEF Busy, Idle
<1>6. matchBox' = [i \in DOMAIN matchBox |-> [matchBox[i] EXCEPT !.live = FALSE]]
    BY DEF MatchCallExpires
<1>7. matchBox' \in Seq(Order) /\ \A i \in DOMAIN matchBox' : ~matchBox'[i].live
    <2>1. /\ matchBox \in Seq(Order) /\ DOMAIN matchBox = 1 .. Len(matchBox) /\ Len(matchBox) \in Nat
          /\ \A i \in DOMAIN matchBox : matchBox[i] \in Order
        BY DEF RoomInv, CallInv
    <2>2. \A i \in 1 .. Len(matchBox) : matchBox'[i] \in Order /\ ~matchBox'[i].live
        BY <1>6, <2>1 DEF Order
    <2>3. QED BY <1>6, <2>1, <2>2
<1>8. RoomsInv' BY <1>2, RoomsUnchanged DEF RoomInv
<1>9. TalkInv' BY <1>2, <1>3, <1>4, <1>5 DEF RoomInv, TalkInv, AskedFor, BusyFor, CallOf
<1>10. BusyInv' BY <1>1, <1>2, <1>4 DEF RoomInv, CallInv, BusyInv, Exists
<1>11. OrderInv' BY <1>2, <1>3, <1>7 DEF OrderInv
<1>12. CallInv' BY <1>4, <1>7, <1>10, <1>11 DEF CallInv
<1>13. \A r \in RoomId : Matching(r)' <=> Matching(r) BY <1>1, <1>2, <1>4 DEF Matching
<1>14. PoolInv' BY <1>2, <1>3, <1>13 DEF RoomInv, PoolInv, PoolIsMatching, MatchTypeOK
<1>15. QueueInv' BY <1>2, <1>3 DEF RoomInv, QueueInv, LockedIsIdle, QueuedOnce, Queued, Distinct
<1>16. QED BY <1>8, <1>9, <1>12, <1>14, <1>15 DEF RoomInv

-----------------------------------------------------------------------------
(* Match carries out what Room calls it for. *)

\* What Match is told to do while no call has come late: Room waits for it.
LEMMA OnTime ==
    ASSUME RoomInv, ~hung, matchBox # <<>>, lost = 0
    PROVE  /\ RoomWaits /\ Head(matchBox) = BusyOrder /\ matchBox = <<BusyOrder>>
           /\ busy.room \in RoomId /\ IsFiniteSet(teamInfo)
           /\ ToSet(Queued) = teamInfo /\ Len(Queued) = Cardinality(teamInfo) /\ Distinct(Queued)
           /\ teamNum = Cardinality(teamInfo)
           /\ busy.room \in teamInfo <=> busy.kind = "cancel"
<1>1. RoomWaits /\ matchBox = <<BusyOrder>> BY DEF RoomInv, CallInv, OrderInv
<1>2. Head(matchBox) = BusyOrder BY <1>1
<1>3. /\ busy # Idle /\ busy.st = "waiting" /\ busy.kind \in {"start", "cancel"} /\ Exists(busy.room)
      /\ rooms[busy.room].state = IF busy.kind = "start" THEN "normal" ELSE "match"
    BY <1>1 DEF RoomWaits, RoomInv, CallInv, BusyInv, Busy
<1>4. busy.room \in RoomId BY <1>3 DEF Exists
<1>5. busy.room \in teamInfo <=> rooms[busy.room].state = "match"
    BY <1>3, <1>4 DEF RoomInv, PoolInv, PoolIsMatching, Matching
<1>6. /\ IsFiniteSet(teamInfo) /\ teamNum = Cardinality(teamInfo)
      /\ ToSet(Queued) = teamInfo /\ Len(Queued) = Cardinality(teamInfo) /\ Distinct(Queued)
    BY DEF RoomInv, PoolInv, PoolIsMatching, QueueInv, QueuedOnce
<1>7. QED BY <1>1, <1>2, <1>3, <1>4, <1>5, <1>6

\* The order is taken from the mailbox, and if Room waits for it Room goes on.
LEMMA OrderTaken ==
    ASSUME RoomInv, OnMatchMessage
    PROVE  /\ TalkInv' /\ RoomsInv' /\ CallInv' /\ rooms' = rooms /\ lost' = lost
           /\ Head(matchBox) \in Order
           /\ ~Head(matchBox).live => busy' = busy
           /\ Head(matchBox).live => /\ RoomWaits /\ Head(matchBox) = BusyOrder
                                     /\ busy' = [busy EXCEPT !.st = "done", !.ok = TRUE]
<1> DEFINE order == Head(matchBox)
           box == Tail(matchBox)
<1>1. /\ matchBox # <<>> /\ ~hung /\ matchBox' = box
      /\ busy' = IF order.live THEN [busy EXCEPT !.st = "done", !.ok = TRUE] ELSE busy
    BY DEF OnMatchMessage
<1>2. UNCHANGED roomVars /\ rooms' = rooms /\ lastId' = lastId /\ cache' = cache /\ asks' = asks
      /\ asking' = asking /\ roomBox' = roomBox /\ lost' = lost
    BY DEF OnMatchMessage, roomVars
<1>3. hung' = hung BY DEF OnMatchMessage, StartMatch, CancelMatch
<1>4. /\ order \in Order /\ order = matchBox[1] /\ 1 \in DOMAIN matchBox
      /\ box \in Seq(Order) /\ DOMAIN box = 1 .. Len(matchBox) - 1
      /\ DOMAIN matchBox = 1 .. Len(matchBox) /\ Len(matchBox) \in Nat
      /\ \A i \in DOMAIN box : box[i] = matchBox[i + 1] /\ i + 1 \in DOMAIN matchBox
    BY <1>1, TailCalls DEF RoomInv, CallInv
<1>5. Len(box) = Len(matchBox) - 1 BY <1>1, <1>4
<1> HIDE DEF order, box
<1>6. /\ busy \in Busy \cup {Idle}
      /\ \A i \in DOMAIN matchBox : matchBox[i].live =>
             RoomWaits /\ i = Len(matchBox) /\ matchBox[i] = BusyOrder
    BY DEF RoomInv, CallInv, OrderInv
<1>7. order.live => RoomWaits /\ order = BusyOrder /\ Len(matchBox) = 1 BY <1>4, <1>6
<1>8. order.live => /\ busy \in Busy /\ busy # Idle /\ busy' \in Busy /\ busy'.st = "done" /\ busy'.kind = busy.kind
                    /\ busy'.room = busy.room /\ busy'.ask = busy.ask
    BY <1>1, <1>6, <1>7 DEF RoomWaits, Busy
<1>9. order.live => busy' # Idle BY <1>8 DEF Busy, Idle
<1>10. RoomsInv' BY <1>2, RoomsUnchanged DEF RoomInv
<1>11. TalkInv'
    <2>1. CASE order.live
        BY <1>2, <1>8, <1>9, <2>1 DEF RoomInv, TalkInv, AskedFor, BusyFor, CallOf
    <2>2. CASE ~order.live
        BY <1>1, <1>2, <2>2 DEF RoomInv, TalkInv, AskedFor, BusyFor, CallOf
    <2>3. QED BY <2>1, <2>2
<1>12. BusyInv'
    <2>1. CASE order.live BY <1>2, <1>8, <2>1 DEF RoomInv, CallInv, BusyInv, Exists
    <2>2. CASE ~order.live BY <1>1, <1>2, <2>2 DEF RoomInv, CallInv, BusyInv, Exists
    <2>3. QED BY <2>1, <2>2
<1>13. OrderInv'
    <2>1. CASE order.live
        <3>1. Len(box) = 0
            <4>1. Len(matchBox) = 1 BY <1>7, <2>1
            <4>2. QED BY <1>5, <4>1
        <3>2. box = <<>> BY <1>4, <3>1, ShortFacts
        <3>3. ~RoomWaits' BY <1>8, <2>1 DEF RoomWaits
        <3>4. QED BY <1>1, <3>2, <3>3 DEF OrderInv
    <2>2. CASE ~order.live
        <3>1. busy' = busy BY <1>1, <2>2
        <3>2. ASSUME NEW i \in DOMAIN box, box[i].live
              PROVE  RoomWaits /\ i = Len(box) /\ box[i] = BusyOrder
            BY <1>4, <1>5, <1>6, <3>2
        <3>3. lost # 0
            <4>1. SUFFICES ASSUME lost = 0 PROVE FALSE OBVIOUS
            <4>2. order = BusyOrder BY <1>1, <4>1, OnTime DEF order
            <4>3. QED BY <2>2, <4>2 DEF BusyOrder
        <3>4. RoomWaits' <=> RoomWaits BY <3>1 DEF RoomWaits
        <3>5. BusyOrder' = BusyOrder BY <3>1 DEF BusyOrder
        <3>6. QED BY <1>1, <1>2, <3>2, <3>3, <3>4, <3>5 DEF OrderInv
    <2>3. QED BY <2>1, <2>2
<1>14. CallInv'
    <2>1. busy' \in Busy \cup {Idle} BY <1>1, <1>6, <1>8
    <2>2. QED BY <1>1, <1>4, <1>12, <1>13, <2>1 DEF CallInv
<1>15. QED BY <1>1, <1>2, <1>4, <1>7, <1>10, <1>11, <1>14 DEF order

LEMMA OnMatchMessageKeeps ==
    ASSUME RoomInv, OnMatchMessage PROVE RoomInv'
<1> DEFINE order == Head(matchBox)
           id == order.room
<1>1. /\ TalkInv' /\ RoomsInv' /\ CallInv' /\ rooms' = rooms /\ lost' = lost
      /\ order \in Order
      /\ ~order.live => busy' = busy
      /\ order.live => /\ RoomWaits /\ order = BusyOrder
                       /\ busy' = [busy EXCEPT !.st = "done", !.ok = TRUE]
    BY OrderTaken
<1>2. ~hung /\ matchBox # <<>> /\ IF order.kind = "start" THEN StartMatch(id) ELSE CancelMatch(id)
    BY DEF OnMatchMessage
<1>3. lost = 0 => /\ order = BusyOrder /\ order.live /\ RoomWaits
                  /\ ToSet(Queued) = teamInfo /\ Len(Queued) = Cardinality(teamInfo) /\ Distinct(Queued)
                  /\ teamNum = Cardinality(teamInfo) /\ IsFiniteSet(teamInfo)
                  /\ id \in teamInfo <=> order.kind = "cancel"
    <2>1. lost = 0 => order = BusyOrder BY <1>2, OnTime
    <2>2. order = BusyOrder => order.live /\ id = busy.room /\ order.kind = busy.kind BY DEF BusyOrder
    <2> HIDE DEF order
    <2>3. QED BY <1>2, <2>1, <2>2, OnTime
<1> HIDE DEF order
<1>4. id \in TeamId /\ order.kind \in {"start", "cancel"} BY <1>1, IdsAreNumbers DEF Order
<1>5. /\ sortIds \in Seq(TeamId) /\ waitIds \in Seq(TeamId) /\ teamInfo \subseteq TeamId
      /\ teamNum \in Int /\ matchlock \in BOOLEAN /\ hung \in BOOLEAN /\ IsFiniteSet(teamInfo)
    BY DEF RoomInv, PoolInv, MatchTypeOK
<1> HIDE DEF id
<1>6. ASSUME lost = 0, NEW r \in RoomId
      PROVE  Matching(r)' <=> IF r = id THEN order.kind = "start" ELSE r \in teamInfo
    <2>1. Matching(r) <=> r \in teamInfo BY <1>6 DEF RoomInv, PoolInv, PoolIsMatching
    <2>2. /\ busy \in Busy /\ busy # Idle /\ busy.st = "waiting" /\ busy.room = id /\ busy.kind = order.kind
        BY <1>3, <1>6 DEF RoomInv, CallInv, RoomWaits, BusyOrder, id
    <2>3. /\ busy' \in Busy /\ busy'.st = "done" /\ busy'.ok /\ busy'.room = id /\ busy'.kind = order.kind
        BY <1>1, <1>3, <1>6, <2>2 DEF Busy
    <2>4. busy' # Idle BY <2>3 DEF Busy, Idle
    <2>5. QED BY <1>1, <2>1, <2>2, <2>3, <2>4 DEF Matching
<1>7. CASE order.kind = "start"
    <2>1. /\ matchlock' = FALSE /\ teamInfo' = teamInfo \cup {id} /\ teamNum' = teamNum + 1
          /\ sortIds' = Append(sortIds, id) /\ waitIds' = waitIds /\ hung' = hung
        BY <1>2, <1>7 DEF StartMatch
    <2>2. MatchTypeOK' /\ IsFiniteSet(teamInfo')
        <3>1. sortIds' \in Seq(TeamId) BY <1>4, <1>5, <2>1
        <3>2. IsFiniteSet(teamInfo') BY <1>5, <2>1, FS_AddElement
        <3>3. teamInfo' \subseteq TeamId BY <1>4, <1>5, <2>1
        <3>4. teamNum' \in Int BY <1>5, <2>1
        <3>5. waitIds' \in Seq(TeamId) /\ matchlock' \in BOOLEAN /\ hung' \in BOOLEAN
            BY <1>5, <2>1
        <3>6. QED BY <3>1, <3>2, <3>3, <3>4, <3>5 DEF MatchTypeOK
    <2>3. ASSUME lost = 0 PROVE Cardinality(teamInfo') = Cardinality(teamInfo) + 1
        <3>1. id \notin teamInfo BY <1>3, <1>7, <2>3
        <3>2. QED BY <1>5, <2>1, <3>1, FS_AddElement
    <2>4. ASSUME lost = 0, NEW r \in RoomId PROVE r \in teamInfo' <=> Matching(r)'
        BY <1>6, <1>7, <2>1, <2>4
    <2>5. PoolInv'
        <3>1. PoolIsMatching' BY <1>1, <1>3, <2>1, <2>3, <2>4 DEF PoolIsMatching
        <3>2. QED BY <2>2, <3>1 DEF PoolInv
    <2>6. ASSUME lost = 0
          PROVE  /\ ToSet(Queued') = teamInfo' /\ Len(Queued') = Cardinality(teamInfo') /\ Distinct(Queued')
        <3>1. id \notin ToSet(Queued) BY <1>3, <1>7, <2>6
        <3>2. /\ ToSet(Queued) = ToSet(sortIds) \cup ToSet(waitIds)
              /\ Distinct(sortIds) /\ Distinct(waitIds) /\ ToSet(sortIds) \cap ToSet(waitIds) = {}
            BY <1>3, <1>5, <2>6, ConcatFacts DEF Queued
        <3>3. ToSet(sortIds') = ToSet(sortIds) \cup {id} /\ Distinct(sortIds')
            BY <1>4, <1>5, <2>1, <3>1, <3>2, AppendFacts
        <3>4. sortIds' \in Seq(TeamId) /\ Len(sortIds') = Len(sortIds) + 1 BY <1>4, <1>5, <2>1
        <3>5. Queued' = sortIds' \o waitIds BY <2>1 DEF Queued
        <3>6. ToSet(Queued') = ToSet(Queued) \cup {id} /\ Distinct(Queued')
            BY <1>5, <3>1, <3>2, <3>3, <3>4, <3>5, ConcatFacts
        <3>7. Len(Queued') = Len(Queued) + 1
            <4>1. Len(sortIds' \o waitIds) = Len(sortIds') + Len(waitIds) BY <1>5, <3>4, ShortFacts
            <4>2. Len(Queued) = Len(sortIds) + Len(waitIds) /\ Len(sortIds) \in Nat /\ Len(waitIds) \in Nat
                BY <1>5, ShortFacts DEF Queued
            <4>3. QED BY <3>4, <3>5, <4>1, <4>2
        <3>8. QED BY <1>3, <2>1, <2>3, <2>6, <3>6, <3>7
    <2>7. QueueInv' BY <1>1, <2>1, <2>6 DEF QueueInv, LockedIsIdle, QueuedOnce, Distinct
    <2>8. QED BY <1>1, <2>5, <2>7 DEF RoomInv
<1>8. CASE order.kind = "cancel"
    <2>1. /\ teamInfo' = teamInfo \ {id} /\ teamNum' = teamNum - 1 /\ waitIds' = RemoveFirst(waitIds, id)
          /\ sortIds' = RemoveFirst(sortIds, id) /\ matchlock' = matchlock /\ hung' = hung
        BY <1>2, <1>8 DEF CancelMatch
    <2>2. MatchTypeOK' /\ IsFiniteSet(teamInfo')
        <3>1. sortIds' \in Seq(TeamId) /\ waitIds' \in Seq(TeamId) BY <1>5, <2>1, RemoveFirstFacts
        <3>2. IsFiniteSet(teamInfo') BY <1>5, <2>1, FS_RemoveElement
        <3>3. QED BY <1>5, <2>1, <3>1, <3>2 DEF MatchTypeOK
    <2>3. ASSUME lost = 0 PROVE Cardinality(teamInfo') = Cardinality(teamInfo) - 1
        <3>1. id \in teamInfo BY <1>3, <1>8, <2>3
        <3>2. QED BY <1>5, <2>1, <3>1, FS_RemoveElement
    <2>4. ASSUME lost = 0, NEW r \in RoomId PROVE r \in teamInfo' <=> Matching(r)'
        BY <1>6, <1>8, <2>1, <2>4
    <2>5. PoolInv'
        <3>1. PoolIsMatching' BY <1>1, <1>3, <2>1, <2>3, <2>4 DEF PoolIsMatching
        <3>2. QED BY <2>2, <3>1 DEF PoolInv
    <2>6. ASSUME lost = 0
          PROVE  /\ ToSet(Queued') = teamInfo' /\ Len(Queued') = Cardinality(teamInfo') /\ Distinct(Queued')
        <3>1. id \in ToSet(sortIds \o waitIds) /\ Distinct(sortIds \o waitIds) BY <1>3, <1>8, <2>6 DEF Queued
        <3> DEFINE q == RemoveFirst(sortIds, id) \o RemoveFirst(waitIds, id)
        <3>2. Len(q) = Len(sortIds \o waitIds) - 1 /\ ToSet(q) = ToSet(sortIds \o waitIds) \ {id} /\ Distinct(q)
            BY <1>5, <3>1, QueueRemoves
        <3>3. Queued' = q BY <2>1 DEF Queued
        <3> HIDE DEF q
        <3>4. QED BY <1>3, <2>1, <2>3, <2>6, <3>2, <3>3 DEF Queued
    <2>7. Queued = <<>> => Queued' = <<>>
        <3>1. Queued = <<>> => sortIds = <<>> /\ waitIds = <<>> BY <1>5 DEF Queued
        <3>2. sortIds = <<>> => RemoveFirst(sortIds, id) = sortIds
            <4>1. sortIds = <<>> => ~(\E i \in 1 .. Len(sortIds) : sortIds[i] = id) OBVIOUS
            <4>2. QED BY <1>5, <4>1, RemoveFirstFacts
        <3>3. waitIds = <<>> => RemoveFirst(waitIds, id) = waitIds
            <4>1. waitIds = <<>> => ~(\E i \in 1 .. Len(waitIds) : waitIds[i] = id) OBVIOUS
            <4>2. QED BY <1>5, <4>1, RemoveFirstFacts
        <3>4. QED BY <2>1, <3>1, <3>2, <3>3 DEF Queued
    <2>8. QueueInv'
        <3>1. LockedIsIdle' BY <2>1, <2>7 DEF RoomInv, QueueInv, LockedIsIdle
        <3>2. QED BY <1>1, <2>1, <2>6, <3>1 DEF QueueInv, QueuedOnce, Distinct
    <2>9. QED BY <1>1, <2>5, <2>8 DEF RoomInv
<1>9. QED BY <1>4, <1>7, <1>8

LEMMA OneRotates ==
    ASSUME sortIds' = <<>>, waitIds' = Append(<<>>, Head(Queued)), Queued = <<Head(Queued)>>
    PROVE  Queued' = Queued
<1>1. Append(<<>>, Head(Queued)) = <<Head(Queued)>> OBVIOUS
<1>2. <<>> \o <<Head(Queued)>> = <<Head(Queued)>> OBVIOUS
<1>3. Queued' = sortIds' \o waitIds' BY DEF Queued
<1>4. QED BY <1>1, <1>2, <1>3

\* A lone team waits on, at the end of a queue; with two, the search never returns.
LEMMA OnTickKeeps ==
    ASSUME RoomInv, OnTick PROVE RoomInv'
<1>1. UNCHANGED roomVars /\ rooms' = rooms /\ lastId' = lastId /\ cache' = cache /\ asks' = asks
      /\ asking' = asking /\ roomBox' = roomBox /\ busy' = busy /\ matchBox' = matchBox /\ lost' = lost
    BY DEF OnTick, roomVars
<1>2. ~hung /\ ~matchlock /\ Update /\ teamInfo' = teamInfo /\ teamNum' = teamNum BY DEF OnTick, Update
<1>3. /\ sortIds \in Seq(TeamId) /\ waitIds \in Seq(TeamId) /\ teamInfo \subseteq TeamId
      /\ teamNum \in Int /\ matchlock \in BOOLEAN /\ hung \in BOOLEAN /\ IsFiniteSet(teamInfo)
    BY DEF RoomInv, PoolInv, MatchTypeOK
<1>4. RoomsInv' BY <1>1, RoomsUnchanged DEF RoomInv
<1>5. TalkInv' BY <1>1 DEF RoomInv, TalkInv, AskedFor, BusyFor, CallOf
<1>6. CallInv'
    <2>1. BusyInv' BY <1>1 DEF RoomInv, CallInv, BusyInv, Exists
    <2>2. OrderInv' BY <1>1, <1>2 DEF RoomInv, CallInv, OrderInv, RoomWaits, BusyOrder
    <2>3. QED BY <1>1, <2>1, <2>2 DEF RoomInv, CallInv
<1>7. \A r \in RoomId : Matching(r)' <=> Matching(r) BY <1>1 DEF Matching
<1>8. PoolIsMatching' BY <1>1, <1>2, <1>7 DEF RoomInv, PoolInv, PoolIsMatching
<1>9. CASE Queued = <<>>
    <2>1. matchlock' = TRUE /\ sortIds' = sortIds /\ waitIds' = waitIds /\ hung' = hung
        BY <1>2, <1>9 DEF Update
    <2>2. Queued' = Queued BY <2>1 DEF Queued
    <2>3. QueueInv' BY <1>1, <1>2, <1>9, <2>1, <2>2
        DEF RoomInv, QueueInv, LockedIsIdle, QueuedOnce, Distinct
    <2>4. PoolInv' BY <1>2, <1>3, <1>8, <2>1 DEF PoolInv, MatchTypeOK
    <2>5. QED BY <1>4, <1>5, <1>6, <2>3, <2>4 DEF RoomInv
<1>10. CASE Queued # <<>>
    <2> DEFINE s == IF sortIds # <<>> THEN Tail(sortIds) ELSE sortIds
               w == IF sortIds # <<>> THEN waitIds ELSE Tail(waitIds)
               x == Head(Queued)
    <2>1. /\ sortIds' = s /\ waitIds' = IF teamNum <= 1 THEN Append(w, x) ELSE w
          /\ hung' = (teamNum > 1) /\ matchlock' = hung'
        BY <1>2, <1>10 DEF Update, TakeNext
    <2>2. sortIds = <<>> => waitIds # <<>> BY <1>3, <1>10 DEF Queued
    <2>3. s \in Seq(TeamId) /\ w \in Seq(TeamId) BY <1>3, <2>2
    <2>4. x \in TeamId
        <3>1. Queued \in Seq(TeamId) BY <1>3 DEF Queued
        <3>2. QED BY <1>10, <3>1
    <2>5. ASSUME lost = 0, ~(teamNum > 1) PROVE Queued' = Queued
        <3>1. Len(Queued) = teamNum /\ Len(Queued) \in Nat /\ Len(Queued) # 0
            BY <1>2, <1>3, <1>10, <2>5 DEF RoomInv, PoolInv, PoolIsMatching, QueueInv, QueuedOnce, Queued
        <3>2. /\ Len(sortIds) + Len(waitIds) = 1 /\ teamNum <= 1
              /\ Len(sortIds) \in Nat /\ Len(waitIds) \in Nat
            <4>1. /\ Len(Queued) = Len(sortIds) + Len(waitIds)
                  /\ Len(sortIds) \in Nat /\ Len(waitIds) \in Nat
                BY <1>3, ShortFacts DEF Queued
            <4>2. QED BY <1>3, <2>5, <3>1, <4>1
        <3>3. CASE sortIds # <<>>
            <4>1. Len(sortIds) # 0 BY <1>3, <3>3, ShortFacts
            <4>2. Len(sortIds) = 1 /\ Len(waitIds) = 0 BY <3>2, <4>1
            <4>3. waitIds = <<>> /\ Tail(sortIds) = <<>> /\ sortIds = <<Head(sortIds)>>
                BY <1>3, <4>2, ShortFacts
            <4>4. Queued = sortIds BY <1>3, <4>3, ShortFacts DEF Queued
            <4>5. s = <<>> /\ w = <<>> BY <3>3, <4>3
            <4>6. QED BY <2>1, <3>2, <4>3, <4>4, <4>5, OneRotates
        <3>4. CASE sortIds = <<>>
            <4>1. Len(sortIds) = 0 BY <1>3, <3>4, ShortFacts
            <4>2. Len(waitIds) = 1 BY <3>2, <4>1
            <4>3. Tail(waitIds) = <<>> /\ waitIds = <<Head(waitIds)>> BY <1>3, <4>2, ShortFacts
            <4>4. Queued = waitIds BY <1>3, <3>4, ShortFacts DEF Queued
            <4>5. s = <<>> /\ w = <<>> BY <3>4, <4>3
            <4>6. QED BY <2>1, <3>2, <4>3, <4>4, <4>5, OneRotates
        <3>5. QED BY <3>3, <3>4
    <2> HIDE DEF s, w, x
    <2>6. QueueInv'
        <3>1. LockedIsIdle' BY <2>1 DEF LockedIsIdle
        <3>2. ASSUME lost' = 0, ~hung' PROVE Queued' = Queued BY <1>1, <2>1, <2>5, <3>2
        <3>3. QED BY <1>1, <1>2, <3>1, <3>2 DEF RoomInv, QueueInv, QueuedOnce, Distinct
    <2>7. MatchTypeOK'
        <3>1. waitIds' \in Seq(TeamId) BY <2>1, <2>3, <2>4
        <3>2. hung' \in BOOLEAN /\ matchlock' \in BOOLEAN BY <2>1
        <3>3. QED BY <1>2, <1>3, <2>1, <2>3, <3>1, <3>2 DEF MatchTypeOK
    <2>8. PoolInv' BY <1>2, <1>3, <1>8, <2>7 DEF PoolInv
    <2>9. QED BY <1>4, <1>5, <1>6, <2>6, <2>8 DEF RoomInv
<1>11. QED BY <1>9, <1>10

-----------------------------------------------------------------------------
(* The theorems. *)

LEMMA RoomInit == Init => RoomInv
<1> SUFFICES ASSUME Init PROVE RoomInv OBVIOUS
<1>1. /\ rooms = [r \in RoomId |-> Closed] /\ roomNames = [n \in Name |-> 0]
      /\ playerRoom = [p \in Player |-> 0] /\ lastId = 0
      /\ sortIds = <<>> /\ waitIds = <<>> /\ teamInfo = {} /\ teamNum = 0
      /\ matchlock = FALSE /\ hung = FALSE
      /\ cache = [p \in Player |-> 0] /\ asking = [p \in Player |-> "idle"]
      /\ roomBox = <<>> /\ matchBox = <<>> /\ busy = Idle /\ asks = 0 /\ lost = 0
    BY DEF Init, RoomsInit, MatchInit
<1>2. TalkInv
    <2>1. asking \in [Player -> Kind \cup {"idle"}] /\ \A p \in Player : asking[p] = "idle" BY <1>1
    <2>2. cache \in [Player -> 0 .. lastId] BY <1>1
    <2>3. roomBox \in Seq(Ask) /\ DOMAIN roomBox = {} BY <1>1
    <2>4. QED BY <1>1, <2>1, <2>2, <2>3 DEF TalkInv
<1>3. RoomsInv
    <2>1. RoomsTypeOK BY <1>1 DEF RoomsTypeOK
    <2>2. \A r \in RoomId : r # 0 /\ ~Exists(r) BY <1>1, IdsAreNumbers DEF Exists
    <2>3. QED BY <1>1, <2>1, <2>2 DEF RoomsInv, NamesMatchRooms
<1>4. CallInv
    <2>1. ~RoomWaits BY <1>1 DEF RoomWaits
    <2>2. matchBox \in Seq(Order) /\ DOMAIN matchBox = {} BY <1>1
    <2>3. QED BY <1>1, <2>1, <2>2 DEF CallInv, BusyInv, OrderInv
<1>5. \A r \in RoomId : ~Matching(r) BY <1>1 DEF Matching, Closed
<1>6. IsFiniteSet({}) /\ Cardinality({}) = 0 BY FS_EmptySet
<1>7. PoolInv
    <2>1. sortIds \in Seq(TeamId) /\ waitIds \in Seq(TeamId) BY <1>1
    <2>2. MatchTypeOK
        <3>1. teamInfo \subseteq TeamId /\ teamNum \in Int BY <1>1
        <3>2. matchlock \in BOOLEAN /\ hung \in BOOLEAN BY <1>1
        <3>3. QED BY <2>1, <3>1, <3>2 DEF MatchTypeOK
    <2>3. PoolIsMatching BY <1>1, <1>5, <1>6 DEF PoolIsMatching
    <2>4. QED BY <1>1, <1>6, <2>2, <2>3 DEF PoolInv
<1>8. QueueInv
    <2>1. Queued = <<>> /\ DOMAIN Queued = {} BY <1>1 DEF Queued
    <2>2. ToSet(Queued) = {} /\ Len(Queued) = 0 BY <2>1 DEF ToSet
    <2>3. QED BY <1>1, <1>6, <2>1, <2>2 DEF QueueInv, LockedIsIdle, QueuedOnce, Distinct
<1>9. QED BY <1>2, <1>3, <1>4, <1>7, <1>8 DEF RoomInv

LEMMA RoomNext == RoomInv /\ [Next]_vars => RoomInv'
<1> SUFFICES ASSUME RoomInv, [Next]_vars PROVE RoomInv' OBVIOUS
<1>1. ASSUME NEW p \in Player, PlayerStep(p) PROVE RoomInv' BY <1>1, PlayerStepKeeps
<1>2. ASSUME NEW p \in Player, CallExpires(p) PROVE RoomInv' BY <1>2, LateCallKeeps
<1>3. CASE RoomHandles BY <1>3, RoomAnswersKeep, OnMatchCallKeeps DEF RoomHandles
<1>4. CASE RoomGoesOn BY <1>4, RoomGoesOnKeeps
<1>5. CASE MatchCallExpires BY <1>5, MatchCallExpiresKeeps
<1>6. CASE OnMatchMessage BY <1>6, OnMatchMessageKeeps
<1>7. CASE OnTick BY <1>7, OnTickKeeps
<1>8. CASE UNCHANGED vars
    <2>1. UNCHANGED roomVars /\ UNCHANGED <<matchVars, busy, matchBox, lost>> /\ rooms' = rooms
          /\ UNCHANGED <<lastId, cache, asks, asking, roomBox, busy, lost>>
        BY <1>8 DEF vars, roomVars, matchVars
    <2>2. TalkInv' BY <2>1 DEF RoomInv, TalkInv, AskedFor, BusyFor, CallOf
    <2>3. RoomsInv' BY <2>1, RoomsUnchanged DEF RoomInv
    <2>4. CallInv' /\ PoolInv' /\ QueueInv' BY <2>1, MatchUnchanged
    <2>5. QED BY <2>2, <2>3, <2>4 DEF RoomInv
<1>9. QED BY <1>1, <1>2, <1>3, <1>4, <1>5, <1>6, <1>7, <1>8 DEF Next

LEMMA RoomInvariant == Spec => []RoomInv
BY RoomInit, RoomNext, PTL DEF Spec

\* Whatever calls come late, a name is taken exactly while the one room of that name exists:
\* OnCreateRoom, OnDissolveRoom and the changes of a room's state keep rooms and roomNames in step.
THEOREM NamesAndRoomsAgree == Spec => []NamesMatchRooms
<1>1. RoomInv => NamesMatchRooms BY DEF RoomInv, RoomsInv
<1>2. QED BY <1>1, RoomInvariant, PTL

\* While every call of Room and of Match is answered in time, the rooms in state Match, the pool
\* of the matcher and its two queues are the same teams, once each; and always the matcher's lock
\* is set between ticks only when nobody waits.
THEOREM RoomsAndMatcherAgree == Spec => []MatchingIsSound
<1>1. RoomInv => MatchingIsSound
    BY DEF RoomInv, TalkInv, RoomsInv, CallInv, PoolInv, QueueInv, MatchingIsSound, TypeOK
<1>2. QED BY <1>1, RoomInvariant, PTL
=============================================================================
