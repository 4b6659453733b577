---------------------------- MODULE BattleProofs ----------------------------
(***************************************************************************)
(* Theorems about the battle server's game, for any players, connections   *)
(* and size of outChan, and any length of the game: the game knows who is  *)
(* connected, frames come in order and without gaps, and the game starts   *)
(* with, and keeps, the connections its players play on.                   *)
(***************************************************************************)
EXTENDS BattleGame, FiniteSetTheorems, SequenceTheorems, TLAPS

-----------------------------------------------------------------------------
(* Sequences. *)

\* The range of a sequence, by its positions.
LEMMA RangeOf ==
    ASSUME NEW S, NEW s \in Seq(S)
    PROVE  /\ DOMAIN s = 1 .. Len(s) /\ Len(s) \in Nat
           /\ Range(s) = {s[i] : i \in 1 .. Len(s)} /\ Range(s) \subseteq S
           /\ \A i \in 1 .. Len(s) : s[i] \in S
<1>1. DOMAIN s = 1 .. Len(s) /\ Len(s) \in Nat BY LenProperties
<1>2. \A i \in 1 .. Len(s) : s[i] \in S BY <1>1, LenProperties
<1>3. QED BY <1>1, <1>2 DEF Range

\* A function on the first n numbers is a sequence.
LEMMA FunctionIsSeq ==
    ASSUME NEW S, NEW n \in Nat, NEW f \in [1 .. n -> S]
    PROVE  f \in Seq(S) /\ Len(f) = n
<1>1. f \in Seq(S) BY SeqDef
<1>2. DOMAIN f = 1 .. Len(f) /\ Len(f) \in Nat BY <1>1, LenProperties
<1>3. DOMAIN f = 1 .. n OBVIOUS
<1>4. QED BY <1>1, <1>2, <1>3

\* Two sequences without repetition and without a common element make one.
LEMMA ConcatDistinct ==
    ASSUME NEW S, NEW s \in Seq(S), NEW t \in Seq(S), Distinct(s), Distinct(t),
           \A e \in Range(t) : e \notin Range(s)
    PROVE  /\ s \o t \in Seq(S) /\ Distinct(s \o t)
           /\ Range(s \o t) = Range(s) \cup Range(t)
<1> DEFINE u == s \o t
           m == Len(s)
           n == Len(t)
<1>1. u \in Seq(S) /\ Len(u) = m + n BY ConcatProperties
<1>2. \A i \in 1 .. m + n : u[i] = IF i <= m THEN s[i] ELSE t[i - m] BY ConcatProperties
<1>3. /\ m \in Nat /\ DOMAIN s = 1 .. m /\ Range(s) = {s[i] : i \in 1 .. m}
      /\ n \in Nat /\ DOMAIN t = 1 .. n /\ Range(t) = {t[i] : i \in 1 .. n}
    BY RangeOf
<1>4. DOMAIN u = 1 .. m + n /\ Range(u) = {u[i] : i \in 1 .. m + n} BY <1>1, RangeOf
<1> HIDE DEF u, m, n
<1>5. ASSUME NEW i \in 1 .. m + n, NEW j \in 1 .. m + n, u[i] = u[j] PROVE i = j
    <2>1. CASE i <= m /\ j <= m BY <1>2, <1>3, <1>5, <2>1 DEF Distinct
    <2>2. CASE i > m /\ j > m
        <3>1. i - m \in 1 .. n /\ j - m \in 1 .. n BY <1>3, <2>2
        <3>2. t[i - m] = t[j - m] BY <1>2, <1>3, <1>5, <2>2
        <3>3. i - m = j - m BY <1>3, <3>1, <3>2 DEF Distinct
        <3>4. QED BY <1>3, <3>3
    <2>3. CASE i <= m /\ j > m
        <3>1. i \in 1 .. m /\ j - m \in 1 .. n BY <1>3, <2>3
        <3>2. s[i] \in Range(s) /\ t[j - m] \in Range(t) BY <1>3, <3>1
        <3>3. u[i] = s[i] /\ u[j] = t[j - m] BY <1>2, <1>3, <2>3
        <3>4. QED BY <1>5, <3>2, <3>3
    <2>4. CASE i > m /\ j <= m
        <3>1. j \in 1 .. m /\ i - m \in 1 .. n BY <1>3, <2>4
        <3>2. s[j] \in Range(s) /\ t[i - m] \in Range(t) BY <1>3, <3>1
        <3>3. u[j] = s[j] /\ u[i] = t[i - m] BY <1>2, <1>3, <2>4
        <3>4. QED BY <1>5, <3>2, <3>3
    <2>5. QED BY <1>3, <2>1, <2>2, <2>3, <2>4
<1>6. Distinct(u) BY <1>4, <1>5 DEF Distinct
<1>7. \A i \in 1 .. m : i \in 1 .. m + n /\ u[i] = s[i] BY <1>2, <1>3
<1>8. \A i \in 1 .. n : m + i \in 1 .. m + n /\ u[m + i] = t[i]
    <2> TAKE i \in 1 .. n
    <2>1. m + i \in 1 .. m + n /\ ~(m + i <= m) /\ (m + i) - m = i BY <1>3
    <2>2. QED BY <1>2, <2>1
<1>9. \A i \in 1 .. m + n : u[i] \in Range(s) \cup Range(t)
    <2> TAKE i \in 1 .. m + n
    <2>1. CASE i <= m
        <3>1. i \in 1 .. m BY <1>3, <2>1
        <3>2. QED BY <1>3, <1>7, <3>1
    <2>2. CASE i > m
        <3>1. i - m \in 1 .. n BY <1>3, <2>2
        <3>2. u[i] = t[i - m] BY <1>2, <1>3, <2>2
        <3>3. QED BY <1>3, <3>1, <3>2
    <2>3. QED BY <1>3, <2>1, <2>2
<1>10. Range(u) = Range(s) \cup Range(t)
    <2>1. Range(u) \subseteq Range(s) \cup Range(t) BY <1>4, <1>9
    <2>2. Range(s) \subseteq Range(u) BY <1>3, <1>4, <1>7
    <2>3. Range(t) \subseteq Range(u) BY <1>3, <1>4, <1>8
    <2>4. QED BY <2>1, <2>2, <2>3
<1>11. QED BY <1>1, <1>6, <1>10 DEF u

\* The sequence of one element.
LEMMA OneElement ==
    ASSUME NEW S, NEW e \in S
    PROVE  <<e>> \in Seq(S) /\ Distinct(<<e>>) /\ Range(<<e>>) = {e}
<1>1. <<e>> \in Seq(S) /\ Len(<<e>>) = 1 /\ <<e>>[1] = e OBVIOUS
<1>2. DOMAIN <<e>> = {1}
    <2>1. DOMAIN <<e>> = 1 .. 1 BY <1>1, RangeOf
    <2>2. QED BY <2>1
<1>3. QED BY <1>1, <1>2 DEF Distinct, Range

\* A new element at the end of a sequence without repetition.
LEMMA AppendDistinct ==
    ASSUME NEW S, NEW s \in Seq(S), Distinct(s), NEW e \in S, e \notin Range(s)
    PROVE  /\ Append(s, e) \in Seq(S) /\ Distinct(Append(s, e))
           /\ Range(Append(s, e)) = Range(s) \cup {e}
<1>1. Append(s, e) = s \o <<e>> BY AppendIsConcat
<1>2. <<e>> \in Seq(S) /\ Distinct(<<e>>) /\ Range(<<e>>) = {e} BY OneElement
<1>3. \A x \in Range(<<e>>) : x \notin Range(s) BY <1>2
<1>4. s \o <<e>> \in Seq(S) /\ Distinct(s \o <<e>>)
      /\ Range(s \o <<e>>) = Range(s) \cup Range(<<e>>)
    BY <1>2, <1>3, ConcatDistinct
<1>5. QED BY <1>1, <1>2, <1>4

\* The first element of a sequence without repetition is taken.
LEMMA TailDistinct ==
    ASSUME NEW S, NEW s \in Seq(S), Distinct(s), s # <<>>
    PROVE  /\ Head(s) \in Range(s) /\ Head(s) \in S
           /\ Tail(s) \in Seq(S) /\ Distinct(Tail(s))
           /\ Range(Tail(s)) = Range(s) \ {Head(s)}
<1> DEFINE n == Len(s)
           t == Tail(s)
           h == Head(s)
<1>1. /\ h \in S /\ t \in Seq(S) /\ Len(t) = n - 1
      /\ \A i \in 1 .. n - 1 : t[i] = s[i + 1]
    BY HeadTailProperties
<1>2. h = s[1] OBVIOUS
<1>3. n \in Nat \ {0} BY EmptySeq
<1>4. DOMAIN s = 1 .. n /\ Range(s) = {s[i] : i \in 1 .. n} BY RangeOf
<1>5. DOMAIN t = 1 .. n - 1 /\ Range(t) = {t[i] : i \in 1 .. n - 1} BY <1>1, RangeOf
<1> HIDE DEF n, t, h
<1>6. \A i \in 1 .. n - 1 : i + 1 \in 1 .. n BY <1>3
<1>7. 1 \in 1 .. n BY <1>3
<1>8. Distinct(t)
    <2> SUFFICES ASSUME NEW i \in 1 .. n - 1, NEW j \in 1 .. n - 1, t[i] = t[j] PROVE i = j
        BY <1>5 DEF Distinct
    <2>1. s[i + 1] = s[j + 1] BY <1>1
    <2>2. i + 1 = j + 1 BY <1>4, <1>6, <2>1 DEF Distinct
    <2>3. QED BY <1>3, <2>2
<1>9. Range(t) \subseteq Range(s) \ {h}
    <2> SUFFICES ASSUME NEW i \in 1 .. n - 1 PROVE t[i] \in Range(s) /\ t[i] # h BY <1>5
    <2>1. t[i] = s[i + 1] /\ i + 1 \in 1 .. n BY <1>1, <1>6
    <2>2. i + 1 # 1 BY <1>3
    <2>3. s[i + 1] # s[1] BY <1>4, <1>7, <2>1, <2>2 DEF Distinct
    <2>4. QED BY <1>2, <1>4, <2>1, <2>3
<1>10. Range(s) \ {h} \subseteq Range(t)
    <2> SUFFICES ASSUME NEW i \in 1 .. n, s[i] # h PROVE s[i] \in Range(t) BY <1>4
    <2>1. i # 1 BY <1>2
    <2>2. i - 1 \in 1 .. n - 1 /\ (i - 1) + 1 = i BY <1>3, <2>1
    <2>3. t[i - 1] = s[i] BY <1>1, <2>2
    <2>4. QED BY <1>5, <2>2, <2>3
<1>11. h \in Range(s) BY <1>2, <1>4, <1>7
<1>12. QED BY <1>1, <1>8, <1>9, <1>10, <1>11 DEF t, h

\* The length of a sequence without repetition is the number of its elements.
LEMMA DistinctCardinality ==
    ASSUME NEW S, NEW s \in Seq(S), Distinct(s)
    PROVE  IsFiniteSet(Range(s)) /\ Cardinality(Range(s)) = Len(s)
<1> DEFINE n == Len(s)
           R == Range(s)
<1>1. n \in Nat /\ DOMAIN s = 1 .. n /\ R = {s[i] : i \in 1 .. n} BY RangeOf
<1>2. s \in [1 .. n -> S] BY LenProperties
<1> HIDE DEF n, R
<1>3. s \in [1 .. n -> R] BY <1>1, <1>2
<1>4. s \in Surjection(1 .. n, R) BY <1>1, <1>3 DEF Surjection
<1>5. s \in Injection(1 .. n, R) BY <1>1, <1>3 DEF Injection, IsInjective, Distinct
<1>6. IsFiniteSet(1 .. n) /\ Cardinality(1 .. n) = n BY <1>1, FS_Interval
<1>7. IsFiniteSet(R) /\ (Cardinality(R) = Cardinality(1 .. n) <=> s \in Injection(1 .. n, R))
    BY <1>4, <1>6, FS_Surjection
<1>8. QED BY <1>5, <1>6, <1>7 DEF n, R

\* A finite set written down in some order, each element in one place.
LEMMA OrderOf ==
    ASSUME NEW S, NEW D \in SUBSET S, IsFiniteSet(D), NEW s \in Surjection(1 .. Cardinality(D), D)
    PROVE  s \in Seq(S) /\ Distinct(s) /\ Range(s) = D
<1> DEFINE n == Cardinality(D)
<1>1. n \in Nat BY FS_CardinalityType
<1>2. IsFiniteSet(1 .. n) /\ Cardinality(1 .. n) = n BY <1>1, FS_Interval
<1>3. s \in Injection(1 .. n, D) BY <1>2, FS_SurjSameCardinalityImpliesInj
<1> HIDE DEF n
<1>4. s \in [1 .. n -> D] /\ \A d \in D : \E i \in 1 .. n : s[i] = d BY DEF Surjection, n
<1>5. \A i, j \in 1 .. n : s[i] = s[j] => i = j BY <1>3, <1>4 DEF Injection, IsInjective
<1>6. DOMAIN s = 1 .. n BY <1>4
<1>7. s \in Seq(S)
    <2>1. s \in [1 .. n -> S] BY <1>4
    <2>2. QED BY <1>1, <2>1, FunctionIsSeq
<1>8. QED BY <1>4, <1>5, <1>6, <1>7 DEF Distinct, Range

-----------------------------------------------------------------------------
(* What the game's steps do to connections. *)

\* The connections of C are shut, and the game is going to be told of those that were open;
\* f loses its identity.
Shut(C, f) ==
    /\ conn' = [c \in Conn |-> [conn[c] EXCEPT !.open = @ /\ c \notin C,
                                              !.id = IF c = f THEN None ELSE @]]
    /\ outChan' \in Seq(Conn) /\ Distinct(outChan')
    /\ Range(outChan') = Range(outChan) \cup {c \in C : conn[c].open}
    /\ \A c \in C : ~conn[c].closing

\* Shut, one connection at a time.
LEMMA ShutFacts ==
    ASSUME ConnTypeOK, NEW C \in SUBSET Conn, NEW f \in Conn \cup {None}, Shut(C, f)
    PROVE  /\ conn' \in [Conn -> ConnState]
           /\ \A c \in Conn :
                  /\ conn'[c].at = conn[c].at /\ conn'[c].closing = conn[c].closing
                  /\ conn'[c].told = conn[c].told /\ conn'[c].early = conn[c].early
                  /\ conn'[c].open <=> conn[c].open /\ c \notin C
           /\ f \in Conn => conn'[f].id = None
           /\ \A c \in Conn \ {f} : conn'[c].id = conn[c].id
<1>1. conn \in [Conn -> ConnState] BY DEF ConnTypeOK
<1>2. ASSUME NEW c \in Conn
      PROVE  /\ conn'[c] \in ConnState
             /\ conn'[c].at = conn[c].at /\ conn'[c].closing = conn[c].closing
             /\ conn'[c].told = conn[c].told /\ conn'[c].early = conn[c].early
             /\ conn'[c].open <=> conn[c].open /\ c \notin C
             /\ conn'[c].id = IF c = f THEN None ELSE conn[c].id
    <2> DEFINE o == conn[c].open /\ c \notin C
               i == IF c = f THEN None ELSE conn[c].id
    <2>1. conn'[c] = [conn[c] EXCEPT !.open = o, !.id = i] BY DEF Shut
    <2>2. conn[c] \in ConnState BY <1>1
    <2>3. i \in Player \cup {None} /\ o \in BOOLEAN BY <2>2 DEF ConnState
    <2>4. o <=> conn[c].open /\ c \notin C OBVIOUS
    <2>5. i = IF c = f THEN None ELSE conn[c].id OBVIOUS
    <2> HIDE DEF o, i
    <2>6. conn'[c] \in ConnState BY <2>1, <2>2, <2>3 DEF ConnState
    <2>7. /\ conn'[c].at = conn[c].at /\ conn'[c].closing = conn[c].closing
          /\ conn'[c].told = conn[c].told /\ conn'[c].early = conn[c].early
          /\ conn'[c].open = o /\ conn'[c].id = i
        BY <2>1, <2>2 DEF ConnState
    <2>8. QED BY <2>4, <2>5, <2>6, <2>7
<1>3. conn' = [c \in Conn |-> conn'[c]] BY DEF Shut
<1>4. QED BY <1>2, <1>3

\* Closes shuts.
LEMMA ClosesShuts ==
    ASSUME ConnTypeOK, Distinct(outChan), \A c \in Range(outChan) : ~conn[c].open,
           NEW C \in SUBSET Conn, NEW f, Closes(C, f)
    PROVE  Shut(C, f)
<1> DEFINE D == ClosedByGame(C)
<1>1. D = {c \in C : conn[c].open} /\ D \in SUBSET Conn BY DEF ClosedByGame
<1>2. IsFiniteSet(D) BY <1>1, FS_Subset, ConnAssumption
<1>3. ~WaitsFor(C) BY DEF Closes
<1>4. conn' = [c \in Conn |-> [conn[c] EXCEPT !.open = @ /\ c \notin D,
                                             !.id = IF c = f THEN None ELSE @]]
    BY DEF Closes
<1>5. PICK s \in Surjection(1 .. Cardinality(D), D) : outChan' = outChan \o s BY DEF Closes
<1> HIDE DEF D
<1>6. s \in Seq(Conn) /\ Distinct(s) /\ Range(s) = D BY <1>1, <1>2, OrderOf
<1>7. outChan \in Seq(Conn) BY DEF ConnTypeOK
<1>8. \A c \in Range(s) : c \notin Range(outChan) BY <1>1, <1>6
<1>9. outChan' \in Seq(Conn) /\ Distinct(outChan') /\ Range(outChan') = Range(outChan) \cup D
    <2>1. /\ outChan \o s \in Seq(Conn) /\ Distinct(outChan \o s)
          /\ Range(outChan \o s) = Range(outChan) \cup Range(s)
        BY <1>6, <1>7, <1>8, ConcatDistinct
    <2>2. QED BY <1>5, <1>6, <2>1
<1>10. \A c \in Conn : (conn[c].open /\ c \notin D) = (conn[c].open /\ c \notin C)
    BY <1>1
<1>11. \A c \in C : ~conn[c].closing BY <1>3 DEF WaitsFor
<1>12. \A c \in Conn : [conn[c] EXCEPT !.open = @ /\ c \notin D, !.id = IF c = f THEN None ELSE @]
                     = [conn[c] EXCEPT !.open = @ /\ c \notin C, !.id = IF c = f THEN None ELSE @]
    BY <1>10
<1>13. conn' = [c \in Conn |-> [conn[c] EXCEPT !.open = @ /\ c \notin C,
                                              !.id = IF c = f THEN None ELSE @]]
    BY <1>4, <1>12
<1>14. QED BY <1>1, <1>9, <1>11, <1>13 DEF Shut

\* A step that leaves connections alone shuts none.
LEMMA NothingShut ==
    ASSUME ConnTypeOK, Distinct(outChan), UNCHANGED <<conn, outChan>>
    PROVE  Shut({}, None)
<1>1. conn \in [Conn -> ConnState] /\ outChan \in Seq(Conn) BY DEF ConnTypeOK
<1>2. ASSUME NEW c \in Conn
      PROVE  conn[c] = [conn[c] EXCEPT !.open = @ /\ c \notin {}, !.id = IF c = None THEN None ELSE @]
    <2> DEFINE o == conn[c].open /\ c \notin {}
               i == IF c = None THEN None ELSE conn[c].id
    <2>1. conn[c] \in ConnState BY <1>1
    <2>2. o = conn[c].open BY <2>1 DEF ConnState
    <2>3. i = conn[c].id BY ConnAssumption
    <2> HIDE DEF o, i
    <2>4. conn[c] = [conn[c] EXCEPT !.open = o, !.id = i] BY <2>1, <2>2, <2>3 DEF ConnState
    <2>5. QED BY <2>4 DEF o, i
<1>3. conn = [c \in Conn |-> conn[c]] BY <1>1
<1>4. conn' = [c \in Conn |-> [conn[c] EXCEPT !.open = @ /\ c \notin {},
                                             !.id = IF c = None THEN None ELSE @]]
    BY <1>2, <1>3
<1>5. QED BY <1>1, <1>4 DEF Shut

\* SendsTo, with the connections that it shuts.
Wrote(P, got, C) ==
    /\ C \subseteq Clients(Player) /\ Shut(C, None)
    /\ seen' = [p \in Player |->
           IF /\ p \in P /\ players[p].online /\ players[p].client # None
              /\ conn[players[p].client].open /\ players[p].client \notin C
           THEN got[p] ELSE seen[p]]

\* SendsTo writes.
LEMMA SendsWrites ==
    ASSUME TypeOK, ChannelsAreSound, NEW P \in SUBSET Player, NEW got, SendsTo(P, got)
    PROVE  \E C \in SUBSET Conn : Wrote(P, got, C)
<1>1. PICK full \in SUBSET OpenClients(P \cap Online) :
          /\ Closes(full \cup {c \in Clients(P \cap Online) : ~conn[c].open}, None)
          /\ seen' = [p \in Player |->
                IF p \in P \cap Online /\ players[p].client \in OpenClients(P) \ full
                THEN got[p] ELSE seen[p]]
    BY DEF SendsTo
<1> DEFINE C == full \cup {c \in Clients(P \cap Online) : ~conn[c].open}
<1>2. players \in [Player -> PlayerState] BY DEF TypeOK
<1>3. C \subseteq Clients(Player) /\ C \in SUBSET Conn
    BY <1>2 DEF OpenClients, Clients, PlayerState
<1>4. \A c \in C : conn[c].open => c \in full OBVIOUS
<1>5. full \subseteq C OBVIOUS
<1>6. Closes(C, None) BY <1>1
<1> HIDE DEF C
<1>7. Shut(C, None) BY <1>3, <1>6, ClosesShuts DEF TypeOK, ChannelsAreSound
<1>8. ASSUME NEW p \in Player
      PROVE  (p \in P \cap Online /\ players[p].client \in OpenClients(P) \ full) <=>
             (/\ p \in P /\ players[p].online /\ players[p].client # None
              /\ conn[players[p].client].open /\ players[p].client \notin C)
    BY <1>4, <1>5 DEF OpenClients, Clients, Online
<1>9. seen' = [p \in Player |->
          IF /\ p \in P /\ players[p].online /\ players[p].client # None
             /\ conn[players[p].client].open /\ players[p].client \notin C
          THEN got[p] ELSE seen[p]]
    BY <1>1, <1>8
<1>10. QED BY <1>3, <1>7, <1>9 DEF Wrote

-----------------------------------------------------------------------------
(* The steps of the game that take no connection in and let none out. *)

Going == {"ready", "gaming"}

\* The game's state is well formed.
GameTypeOK ==
    /\ loop \in Phase /\ game \in Game
    /\ players \in [Player -> PlayerState] /\ seen \in [Player -> Seen]

\* Such a step shuts connections of players, and forgets those only in the end.
Plain(C) ==
    /\ GameTypeOK'
    /\ C \subseteq Clients(Player) /\ Shut(C, None)
    /\ \/ inChan' = inChan
       \/ inChan # <<>> /\ inChan' = Tail(inChan) /\ game.state \notin Going
    /\ \/ msgQ' = msgQ
       \/ msgQ # <<>> /\ msgQ' = Tail(msgQ)
    /\ loop' = loop \/ loop' \in {"quitting", "ended", "gone"}
    /\ game'.state \in Going => game.state \in Going
    /\ \A p \in Player :
          \/ players'[p].client = players[p].client /\ players'[p].online = players[p].online
          \/ loop' = "gone" /\ players'[p].client = None /\ ~players'[p].online

\* A step that writes no start and no frames.
Quiet ==
    /\ seen' = seen /\ game'.frame = game.frame
    /\ \A st \in Going : game'.state = st => game.state = st
    /\ \A p \in Player :
          /\ players'[p].sent = players[p].sent
          /\ players'[p].online => /\ players[p].online
                                   /\ players'[p].client = players[p].client
                                   /\ players[p].ready => players'[p].ready
                                   /\ game.state # "ready" => players'[p].ready = players[p].ready
          /\ players'[p].online /\ conn'[players[p].client].open => conn[players[p].client].open

\* A message that is no start and no frames is sent, or none.
LEMMA SendsKeeps ==
    ASSUME TypeOK, ChannelsAreSound, NEW P \in SUBSET Player, Sends(P)
    PROVE  /\ seen' = seen
           /\ \E C \in SUBSET Conn : C \subseteq Clients(Player) /\ Shut(C, None)
<1>1. PICK C \in SUBSET Conn : Wrote(P, seen, C) BY SendsWrites DEF Sends
<1>2. seen \in [Player -> Seen] BY DEF TypeOK
<1>3. seen' = [p \in Player |-> seen[p]] BY <1>1 DEF Wrote
<1>4. QED BY <1>1, <1>2, <1>3 DEF Wrote

\* A step that leaves connections alone.
LEMMA LeavesAlone ==
    ASSUME TypeOK, ChannelsAreSound, UNCHANGED <<conn, outChan>>
    PROVE  \E C \in SUBSET Conn : C \subseteq Clients(Player) /\ Shut(C, None)
<1>1. Shut({}, None) BY NothingShut DEF TypeOK, ChannelsAreSound
<1>2. QED BY <1>1

\* No player has a connection that is none.
LEMMA ClientOpens ==
    ASSUME TypeOK, ClientsAreTheirs, NEW p \in Player, players[p].online
    PROVE  players[p].client \in Conn
BY DEF TypeOK, ClientsAreTheirs, PlayerState

\* What Shut means for players that stay online.
LEMMA ShutOpens ==
    ASSUME TypeOK, ClientsAreTheirs, NEW C \in SUBSET Conn, NEW f \in Conn \cup {None}, Shut(C, f),
           NEW p \in Player, players[p].online, conn'[players[p].client].open
    PROVE  conn[players[p].client].open /\ players[p].client \notin C
<1>1. players[p].client \in Conn BY ClientOpens
<1>2. QED BY <1>1, ShutFacts DEF TypeOK

\* A message of a player.
LEMMA OnProcessMsgIsPlain ==
    ASSUME TypeOK, ChannelsAreSound, ClientsAreTheirs, OnProcessMsg
    PROVE  Quiet /\ \E C \in SUBSET Conn : Plain(C)
<1> DEFINE m == Head(msgQ)
<1>1. msgQ # <<>> /\ msgQ \in Seq(Message) BY DEF OnProcessMsg, TypeOK, ConnTypeOK
<1>2. m \in Message BY <1>1, HeadTailProperties
<1>3. m.id \in Player /\ m.kind \in Kind BY <1>2 DEF Message
<1>4. msgQ' = Tail(msgQ) /\ inChan' = inChan /\ loop' = loop BY DEF OnProcessMsg
<1>5. loop \in Phase /\ game \in Game /\ players \in [Player -> PlayerState]
      /\ seen \in [Player -> Seen]
    BY DEF TypeOK
<1> DEFINE Effect ==
        /\ seen' = seen /\ \E C \in SUBSET Conn : C \subseteq Clients(Player) /\ Shut(C, None)
        /\ game' \in Game /\ game'.frame = game.frame
        /\ \A st \in Going : game'.state = st => game.state = st
        /\ players' \in [Player -> PlayerState]
        /\ \A p \in Player :
              /\ players'[p].sent = players[p].sent
              /\ players'[p].client = players[p].client
              /\ players'[p].online = players[p].online
              /\ players[p].ready => players'[p].ready
              /\ game.state # "ready" => players'[p].ready = players[p].ready
<1>6. Effect
    <2>1. CASE OnProgress(m.id, m.kind = "loaded")
        <3> DEFINE q == m.id
                   full == m.kind = "loaded"
        <3>1. game' = game /\ Sends(Player) /\ game.state = "ready" BY <2>1 DEF OnProgress
        <3>2. players' = [players EXCEPT ![q].loaded = full, ![q].ready = @ \/ full]
            BY <2>1 DEF OnProgress
        <3>3. full \in BOOLEAN /\ q \in Player BY <1>3
        <3> HIDE DEF full, q
        <3>4. players' \in [Player -> PlayerState] BY <1>5, <3>2, <3>3 DEF PlayerState
        <3>5. ASSUME NEW p \in Player
              PROVE  /\ players'[p].sent = players[p].sent
                     /\ players'[p].client = players[p].client
                     /\ players'[p].online = players[p].online
                     /\ players[p].ready => players'[p].ready
            BY <1>5, <3>2, <3>3 DEF PlayerState
        <3>6. QED BY <1>5, <3>1, <3>4, <3>5, SendsKeeps
    <2>2. CASE UNCHANGED <<game, players, conn, outChan, seen>>
        BY <1>5, <2>2, LeavesAlone
    <2>3. CASE OnPing(m.id)
        <3>1. UNCHANGED <<game, players>> /\ Sends({m.id}) BY <2>3 DEF OnPing
        <3>2. {m.id} \in SUBSET Player BY <1>3
        <3>3. QED BY <1>5, <3>1, <3>2, SendsKeeps
    <2>4. CASE OnGameOverMsg
        <3>1. game' = [game EXCEPT !.state = "over"] /\ UNCHANGED <<players, conn, outChan, seen>>
            BY <2>4 DEF OnGameOverMsg
        <3>2. game' \in Game /\ game'.frame = game.frame /\ game'.state = "over"
            BY <1>5, <3>1 DEF Game
        <3>3. QED BY <1>5, <3>1, <3>2, LeavesAlone DEF Going
    <2>5. QED BY <2>1, <2>2, <2>3, <2>4 DEF OnProcessMsg
<1>7. PICK C \in SUBSET Conn : C \subseteq Clients(Player) /\ Shut(C, None) BY <1>6
<1>8. Plain(C)
    <2>1. GameTypeOK' BY <1>4, <1>5, <1>6 DEF GameTypeOK
    <2>2. game'.state \in Going => game.state \in Going BY <1>6 DEF Going
    <2>3. \A p \in Player :
              players'[p].client = players[p].client /\ players'[p].online = players[p].online
        BY <1>6
    <2>4. inChan' = inChan /\ msgQ' = Tail(msgQ) /\ msgQ # <<>> /\ loop' = loop BY <1>1, <1>4
    <2> HIDE DEF Effect
    <2>5. QED BY <1>7, <2>1, <2>2, <2>3, <2>4 DEF Plain
<1>9. Quiet
    <2>1. ASSUME NEW p \in Player, players'[p].online, conn'[players[p].client].open
          PROVE  conn[players[p].client].open
        BY <1>6, <1>7, <2>1, ShutOpens
    <2>2. QED BY <1>6, <2>1 DEF Quiet
<1>10. QED BY <1>8, <1>9

\* A step that changes at most the game's state and what is open.
LEMMA SameWritten ==
    ASSUME TypeOK, ChannelsAreSound, ClientsAreTheirs, UNCHANGED <<players, seen>>,
           game' \in Game, game'.frame = game.frame,
           \A st \in Going : game'.state = st => game.state = st,
           loop' = loop \/ loop' \in {"quitting", "ended"},
           inChan' = inChan \/ (inChan # <<>> /\ inChan' = Tail(inChan) /\ game.state \notin Going),
           msgQ' = msgQ,
           \E C \in SUBSET Conn : C \subseteq Clients(Player) /\ Shut(C, None)
    PROVE  Quiet /\ \E C \in SUBSET Conn : Plain(C)
<1>1. PICK C \in SUBSET Conn : C \subseteq Clients(Player) /\ Shut(C, None) OBVIOUS
<1>2. loop \in Phase /\ players \in [Player -> PlayerState] /\ seen \in [Player -> Seen]
    BY DEF TypeOK
<1>3. GameTypeOK' BY <1>2 DEF GameTypeOK, Phase
<1>4. Plain(C)
    <2>1. game'.state \in Going => game.state \in Going BY DEF Going
    <2>2. \A p \in Player :
              players'[p].client = players[p].client /\ players'[p].online = players[p].online
        OBVIOUS
    <2>3. QED BY <1>1, <1>3, <2>1, <2>2 DEF Plain
<1>5. Quiet
    <2>1. ASSUME NEW p \in Player, players'[p].online, conn'[players[p].client].open
          PROVE  conn[players[p].client].open
        <3>1. players[p].online BY <2>1
        <3>2. QED BY <1>1, <2>1, <3>1, ShutOpens
    <2>2. QED BY <2>1 DEF Quiet
<1>6. QED BY <1>4, <1>5

\* The steps of Tick that write no start and no frames.
LEMMA TickIsQuiet ==
    ASSUME TypeOK, ChannelsAreSound, ClientsAreTheirs, UNCHANGED <<loop, inChan, msgQ>>,
           EntersLoading \/ NobodyReady \/ Over \/ OnGameOver
    PROVE  Quiet /\ \E C \in SUBSET Conn : Plain(C)
<1>1. game \in Game BY DEF TypeOK
<1>2. CASE EntersLoading
    <2>1. game' = [game EXCEPT !.entered = TRUE] /\ Sends(Player) /\ UNCHANGED players
        BY <1>2 DEF EntersLoading
    <2>2. game' \in Game /\ game'.frame = game.frame /\ game'.state = game.state
        BY <1>1, <2>1 DEF Game
    <2>3. QED BY <2>1, <2>2, SendsKeeps, SameWritten
<1>3. CASE NobodyReady \/ Over
    <2>1. game' = [game EXCEPT !.state = "over"] /\ UNCHANGED <<players, conn, outChan, seen>>
        BY <1>3 DEF NobodyReady, Over
    <2>2. game' \in Game /\ game'.frame = game.frame /\ game'.state = "over"
        BY <1>1, <2>1 DEF Game
    <2>3. "over" \notin Going BY DEF Going
    <2>4. QED BY <2>1, <2>2, <2>3, LeavesAlone, SameWritten
<1>4. CASE OnGameOver
    <2>1. game' = [game EXCEPT !.state = "stop", !.closed = TRUE] /\ Sends(Player)
          /\ UNCHANGED players
        BY <1>4 DEF OnGameOver
    <2>2. game' \in Game /\ game'.frame = game.frame /\ game'.state = "stop"
        BY <1>1, <2>1 DEF Game
    <2>3. "stop" \notin Going BY DEF Going
    <2>4. QED BY <2>1, <2>2, <2>3, SendsKeeps, SameWritten
<1>5. QED BY <1>2, <1>3, <1>4

\* A connection that is refused, and the end of the loop.
LEMMA EndIsQuiet ==
    ASSUME TypeOK, ChannelsAreSound, ClientsAreTheirs,
           \/ Stops \/ TimeOut \/ ForceExit \/ QuitsLater
           \/ OnJoinGame /\ game.state \notin Going
    PROVE  Quiet /\ \E C \in SUBSET Conn : Plain(C)
<1>1. game \in Game BY DEF TypeOK
<1>2. CASE Stops \/ TimeOut
    <2>1. loop' = "quitting" /\ Sends(Player) /\ UNCHANGED <<inChan, msgQ, game, players>>
        BY <1>2 DEF Stops, TimeOut, Quits
    <2>2. QED BY <1>1, <2>1, SendsKeeps, SameWritten
<1>3. CASE ForceExit \/ QuitsLater
    <2>1. loop' = "ended" /\ UNCHANGED <<connVars, game, players, seen>>
        BY <1>3 DEF ForceExit, QuitsLater, LeavesLoop
    <2>2. UNCHANGED <<conn, outChan>> /\ inChan' = inChan /\ msgQ' = msgQ BY <2>1 DEF connVars
    <2>3. QED BY <1>1, <2>1, <2>2, LeavesAlone, SameWritten
<1>4. CASE OnJoinGame /\ game.state \notin Going
    <2> DEFINE c == Head(inChan)
    <2>1. inChan # <<>> /\ inChan' = Tail(inChan) /\ UNCHANGED <<loop, game, msgQ>>
          /\ TooLate(conn[c].id)
        BY <1>4 DEF OnJoinGame, Going
    <2>2. c \in Waiting /\ c \in Conn
        BY <2>1, TailDistinct DEF TypeOK, ConnTypeOK, ChannelsAreSound, Waiting
    <2>3. conn[c].id \in Player
        BY <2>2 DEF TypeOK, ConnTypeOK, ChannelsAreSound, ConnState
    <2>4. UNCHANGED players /\ Sends({conn[c].id}) BY <2>1 DEF TooLate
    <2>5. {conn[c].id} \in SUBSET Player BY <2>3
    <2>6. seen' = seen /\ \E C \in SUBSET Conn : C \subseteq Clients(Player) /\ Shut(C, None)
        BY <2>4, <2>5, SendsKeeps
    <2>7. QED BY <1>1, <1>4, <2>1, <2>4, <2>6, SameWritten
<1>5. QED BY <1>2, <1>3, <1>4

\* OnCleanup.
LEMMA CleanupIsQuiet ==
    ASSUME TypeOK, ChannelsAreSound, ClientsAreTheirs, OnCleanup
    PROVE  Quiet /\ \E C \in SUBSET Conn : Plain(C)
<1> DEFINE C == Clients(Player)
<1>1. /\ game \in Game /\ players \in [Player -> PlayerState] /\ seen \in [Player -> Seen]
      /\ ConnTypeOK
    BY DEF TypeOK
<1>2. C \in SUBSET Conn BY <1>1 DEF Clients, PlayerState
<1>3. /\ Closes(C, None) /\ loop' = "gone" /\ players' = [p \in Player |-> CleanedUp(p)]
      /\ UNCHANGED <<inChan, msgQ, game, seen>>
    BY DEF OnCleanup
<1> HIDE DEF C
<1>4. Shut(C, None) BY <1>1, <1>2, <1>3, ClosesShuts DEF ChannelsAreSound
<1>5. ASSUME NEW p \in Player
      PROVE  /\ players'[p] \in PlayerState /\ players'[p].client = None /\ ~players'[p].online
             /\ players'[p].sent = players[p].sent
    BY <1>1, <1>3 DEF CleanedUp, PlayerState
<1>6. players' \in [Player -> PlayerState]
    <2>1. players' = [p \in Player |-> players'[p]] BY <1>3
    <2>2. QED BY <1>5, <2>1
<1>7. Plain(C)
    <2>1. GameTypeOK' BY <1>1, <1>3, <1>6 DEF GameTypeOK, Phase
    <2>2. QED BY <1>3, <1>4, <1>5, <2>1 DEF Plain, C
<1>8. Quiet BY <1>3, <1>5 DEF Quiet
<1>9. QED BY <1>2, <1>7, <1>8

\* OnGameStart.
StartStep(C) ==
    /\ game.state = "ready" /\ AllReady /\ AllLoaded
    /\ game'.state = "gaming" /\ game'.frame = 0
    /\ \A p \in Player : /\ players'[p].sent = players[p].sent /\ players'[p].ready
                         /\ players'[p].client = players[p].client
                         /\ players'[p].online = players[p].online
    /\ Wrote(Player, [p \in Player |-> [seen[p] EXCEPT !.start = TRUE]], C)

\* What is written of a start is well formed.
LEMMA StartIsPlain ==
    ASSUME TypeOK, ChannelsAreSound, UNCHANGED <<loop, inChan, msgQ>>, OnGameStart
    PROVE  \E C \in SUBSET Conn : Plain(C) /\ StartStep(C)
<1> DEFINE got == [p \in Player |-> [seen[p] EXCEPT !.start = TRUE]]
<1>1. /\ game \in Game /\ players \in [Player -> PlayerState] /\ seen \in [Player -> Seen]
      /\ loop \in Phase
    BY DEF TypeOK
<1>2. /\ game' = [state |-> "gaming", entered |-> TRUE, closed |-> game.closed, frame |-> 0,
                  cast |-> 0]
      /\ players' = [p \in Player |-> [players[p] EXCEPT !.ready = TRUE, !.loaded = TRUE]]
      /\ game.state = "ready" /\ AllReady /\ AllLoaded
      /\ SendsTo(Player, got)
    BY DEF OnGameStart
<1>3. game' \in Game /\ game'.state = "gaming" /\ game'.frame = 0
    <2>1. game.closed \in BOOLEAN BY <1>1 DEF Game
    <2>2. 0 \in 0 .. MaxFrame + 1 BY GameAssumption
    <2>3. QED BY <1>2, <2>1, <2>2 DEF Game
<1>4. ASSUME NEW p \in Player
      PROVE  /\ players'[p] \in PlayerState /\ players'[p].client = players[p].client
             /\ players'[p].online = players[p].online /\ players'[p].ready
             /\ players'[p].sent = players[p].sent
    BY <1>1, <1>2 DEF PlayerState
<1>5. players' \in [Player -> PlayerState] BY <1>2, <1>4
<1>6. \A p \in Player : got[p] \in Seen BY <1>1 DEF Seen
<1> HIDE DEF got
<1>7. PICK C \in SUBSET Conn : Wrote(Player, got, C) BY <1>2, SendsWrites
<1>8. seen' \in [Player -> Seen] BY <1>1, <1>6, <1>7 DEF Wrote
<1>9. Plain(C)
    <2>1. GameTypeOK' BY <1>1, <1>3, <1>5, <1>8 DEF GameTypeOK
    <2>2. C \subseteq Clients(Player) /\ Shut(C, None) BY <1>7 DEF Wrote
    <2>3. game.state \in Going BY <1>2 DEF Going
    <2>4. QED BY <1>4, <2>1, <2>2, <2>3 DEF Plain
<1>10. StartStep(C) BY <1>2, <1>3, <1>4, <1>7 DEF StartStep, got
<1>11. QED BY <1>9, <1>10

\* OnFrame: the players of P are sent what they miss; or no one, if it is not yet time.
FrameStep(P, C) == LET count == game.frame + 1 IN
    /\ game.state = "gaming" /\ game'.state = "gaming" /\ game'.frame = count
    /\ P \subseteq Receivers
    /\ \A p \in Player :
          players'[p] = IF p \in P THEN [players[p] EXCEPT !.sent = count] ELSE players[p]
    /\ Wrote({p \in P : Missing(p, count) # <<>>},
             [p \in Player |-> [seen[p] EXCEPT !.frames = @ \o Missing(p, count)]], C)

\* The frames that are missing.
LEMMA MissingFacts ==
    ASSUME TypeOK, NEW p \in Player, NEW count \in 1 .. MaxFrame + 1
    PROVE  LET m == Missing(p, count)
               first == IF players[p].sent = 0 THEN 1 ELSE players[p].sent
           IN  /\ m \in Seq(1 .. MaxFrame) /\ first \in Nat \ {0}
               /\ Len(m) = IF first <= count THEN count - first ELSE 0
               /\ \A i \in 1 .. Len(m) : m[i] = first + i - 1
<1> DEFINE first == IF players[p].sent = 0 THEN 1 ELSE players[p].sent
           m == [i \in 1 .. count - first |-> first + i - 1]
           n == IF first <= count THEN count - first ELSE 0
<1>1. players[p].sent \in 0 .. MaxFrame + 1 BY DEF TypeOK, PlayerState
<1>2. MaxFrame \in Nat BY GameAssumption
<1>3. first \in Nat \ {0} /\ count \in Nat /\ count <= MaxFrame + 1 BY <1>1, <1>2
<1>4. Missing(p, count) = m BY DEF Missing
<1> HIDE DEF first
<1>5. n \in Nat /\ 1 .. count - first = 1 .. n BY <1>3
<1> HIDE DEF n
<1>6. m = [i \in 1 .. n |-> first + i - 1] BY <1>5
<1>7. \A i \in 1 .. n : first + i - 1 \in 1 .. MaxFrame
    <2> TAKE i \in 1 .. n
    <2>1. i \in 1 .. count - first BY <1>5
    <2>2. QED BY <1>2, <1>3, <2>1
<1>8. m \in Seq(1 .. MaxFrame) /\ Len(m) = n
    <2>1. m \in [1 .. n -> 1 .. MaxFrame] BY <1>6, <1>7
    <2> HIDE DEF m
    <2>2. QED BY <1>5, <2>1, FunctionIsSeq
<1>9. \A i \in 1 .. Len(m) : m[i] = first + i - 1
    <2> HIDE DEF m
    <2>1. \A i \in 1 .. n : m[i] = first + i - 1 BY <1>6 DEF m
    <2>2. QED BY <1>8, <2>1
<1>10. QED BY <1>3, <1>4, <1>8, <1>9 DEF first, n

\* What OnFrame does.
LEMMA FrameIsPlain ==
    ASSUME TypeOK, ChannelsAreSound, UNCHANGED <<loop, inChan, msgQ>>, OnFrame
    PROVE  \E P \in SUBSET Player, C \in SUBSET Conn : Plain(C) /\ FrameStep(P, C)
<1> DEFINE count == game.frame + 1
           got == [p \in Player |-> [seen[p] EXCEPT !.frames = @ \o Missing(p, count)]]
           Some(P) == {p \in P : Missing(p, count) # <<>>}
<1>1. /\ game \in Game /\ players \in [Player -> PlayerState] /\ seen \in [Player -> Seen]
      /\ loop \in Phase /\ ConnTypeOK
    BY DEF TypeOK
<1>2. game.state = "gaming" /\ game.frame <= MaxFrame /\ game.frame \in 0 .. MaxFrame + 1
    BY <1>1 DEF OnFrame, Game
<1>3. count \in 1 .. MaxFrame + 1 BY <1>2, GameAssumption
<1>4. count \in 0 .. MaxFrame + 1 BY <1>3, GameAssumption
<1>5. \A p \in Player : got[p] \in Seen
    <2> TAKE p \in Player
    <2>1. Missing(p, count) \in Seq(1 .. MaxFrame) BY <1>3, MissingFacts
    <2>2. seen[p] \in Seen /\ seen[p].frames \in Seq(1 .. MaxFrame) BY <1>1 DEF Seen
    <2>3. seen[p].frames \o Missing(p, count) \in Seq(1 .. MaxFrame)
        BY <2>1, <2>2, ConcatProperties
    <2>4. got[p] = [seen[p] EXCEPT !.frames = seen[p].frames \o Missing(p, count)] OBVIOUS
    <2> HIDE DEF got
    <2>5. QED BY <2>2, <2>3, <2>4 DEF Seen
<1>6. ASSUME NEW P \in SUBSET Receivers, NEW C \in SUBSET Conn,
             game' \in Game, game'.state = "gaming", game'.frame = count,
             players' \in [Player -> PlayerState],
             \A p \in Player :
                 players'[p] = IF p \in P THEN [players[p] EXCEPT !.sent = count] ELSE players[p],
             Wrote(Some(P), got, C)
      PROVE  P \in SUBSET Player /\ Plain(C) /\ FrameStep(P, C)
    <2>1. P \in SUBSET Player BY DEF Receivers, Online
    <2>2. seen' \in [Player -> Seen]
        <3> HIDE DEF got, Some
        <3>1. QED BY <1>1, <1>5, <1>6 DEF Wrote
    <2>3. GameTypeOK' BY <1>1, <1>6, <2>2 DEF GameTypeOK
    <2>4. C \subseteq Clients(Player) /\ Shut(C, None) BY <1>6 DEF Wrote
    <2>5. game.state \in Going BY <1>2 DEF Going
    <2>6. ASSUME NEW p \in Player
          PROVE  players'[p].client = players[p].client /\ players'[p].online = players[p].online
        <3>1. players[p] \in PlayerState BY <1>1
        <3>2. QED BY <1>6, <3>1 DEF PlayerState
    <2>7. Plain(C) BY <2>3, <2>4, <2>5, <2>6 DEF Plain
    <2>8. FrameStep(P, C) BY <1>2, <1>6 DEF FrameStep
    <2>9. QED BY <2>1, <2>7, <2>8
<1>7. CASE count - game.cast < Offset
    <2>1. game' = [game EXCEPT !.frame = count] /\ UNCHANGED <<players, conn, outChan, seen>>
        BY <1>7 DEF OnFrame
    <2>2. game' \in Game /\ game'.state = "gaming" /\ game'.frame = count
        <3> HIDE DEF count
        <3>1. QED BY <1>1, <1>2, <1>4, <2>1 DEF Game
    <2>3. Shut({}, None) BY <1>1, <2>1, NothingShut DEF ChannelsAreSound
    <2>4. seen' = [p \in Player |-> seen[p]] BY <1>1, <2>1
    <2>5. \A p \in Player : p \notin Some({}) OBVIOUS
    <2> HIDE DEF got, Some
    <2>6. Wrote(Some({}), got, {}) BY <2>3, <2>4, <2>5 DEF Wrote
    <2>7. {} \in SUBSET Receivers /\ {} \in SUBSET Conn OBVIOUS
    <2>8. players' \in [Player -> PlayerState] /\ \A p \in Player : players'[p] = players[p]
        BY <1>1, <2>1
    <2>9. {} \in SUBSET Player /\ Plain({}) /\ FrameStep({}, {})
        BY <1>6, <2>2, <2>6, <2>7, <2>8
    <2>10. QED BY <2>9
<1>8. CASE ~(count - game.cast < Offset)
    <2>1. game' = [game EXCEPT !.frame = count, !.cast = count] /\ Broadcasts(count)
        BY <1>8 DEF OnFrame
    <2>2. game' \in Game /\ game'.state = "gaming" /\ game'.frame = count
        <3> HIDE DEF count
        <3>1. QED BY <1>1, <1>2, <1>4, <2>1 DEF Game
    <2>3. PICK P \in SUBSET Receivers :
              /\ SendsTo(Some(P), got)
              /\ players' = [p \in Player |->
                    IF p \in P THEN [players[p] EXCEPT !.sent = count] ELSE players[p]]
        BY <2>1 DEF Broadcasts
    <2>4. Some(P) \in SUBSET Player BY DEF Receivers, Online
    <2>5. players' \in [Player -> PlayerState]
        <3> HIDE DEF count
        <3>1. \A p \in Player : players'[p] \in PlayerState BY <1>1, <1>4, <2>3 DEF PlayerState
        <3>2. players' = [p \in Player |-> players'[p]] BY <2>3
        <3>3. QED BY <3>1, <3>2
    <2>6. \A p \in Player :
              players'[p] = IF p \in P THEN [players[p] EXCEPT !.sent = count] ELSE players[p]
        BY <2>3
    <2> HIDE DEF got, Some
    <2>7. PICK C \in SUBSET Conn : Wrote(Some(P), got, C) BY <2>3, <2>4, SendsWrites
    <2>8. P \in SUBSET Player /\ Plain(C) /\ FrameStep(P, C)
        BY <1>6, <2>2, <2>5, <2>6, <2>7
    <2>9. QED BY <2>8
<1>9. QED BY <1>7, <1>8

-----------------------------------------------------------------------------
(* What a step keeps of the connections, the channels and the players. *)

\* A connection that a player has is one that came to the game.
LEMMA ClientFacts ==
    ASSUME TypeOK, ClientsAreTheirs, NEW c \in Clients(Player)
    PROVE  /\ c \in Conn /\ conn[c].at = "game" /\ conn[c].id \in Player
           /\ players[conn[c].id].client = c
BY DEF Clients, ClientsAreTheirs, TypeOK, PlayerState

\* The first of inChan is taken, or it stays as it is.
LEMMA TakenFromIn ==
    ASSUME TypeOK, ChannelsAreSound, inChan' = inChan \/ (inChan # <<>> /\ inChan' = Tail(inChan))
    PROVE  /\ inChan' \in Seq(Conn) /\ Distinct(inChan')
           /\ Waiting' = IF inChan' = inChan THEN Waiting ELSE Waiting \ {Head(inChan)}
           /\ Waiting' \subseteq Waiting
<1>1. inChan \in Seq(Conn) /\ Distinct(inChan) BY DEF TypeOK, ConnTypeOK, ChannelsAreSound
<1>2. CASE inChan' = inChan BY <1>1, <1>2 DEF Waiting
<1>3. CASE inChan # <<>> /\ inChan' = Tail(inChan) /\ inChan' # inChan
    BY <1>1, <1>3, TailDistinct DEF Waiting
<1>4. QED BY <1>2, <1>3

\* Of messages too, or one is added.
LEMMA TakenFromQ ==
    ASSUME TypeOK, msgQ' = msgQ \/ (msgQ # <<>> /\ msgQ' = Tail(msgQ))
    PROVE  msgQ' \in Seq(Message)
BY HeadTailProperties DEF TypeOK, ConnTypeOK

\* Plain steps keep the connections' invariant.
LEMMA PlainKeepsLinks ==
    ASSUME TypeOK, LinksInv, NEW C \in SUBSET Conn, Plain(C)
    PROVE  TypeOK' /\ LinksInv'
<1> USE DEF LinksInv
<1>1. /\ conn \in [Conn -> ConnState] /\ inChan \in Seq(Conn) /\ outChan \in Seq(Conn)
      /\ players \in [Player -> PlayerState]
    BY DEF TypeOK, ConnTypeOK
<1>2. Shut(C, None) /\ C \subseteq Clients(Player) BY DEF Plain
<1>3. /\ conn' \in [Conn -> ConnState]
      /\ \A c \in Conn :
             /\ conn'[c].at = conn[c].at /\ conn'[c].closing = conn[c].closing
             /\ conn'[c].told = conn[c].told /\ conn'[c].early = conn[c].early
             /\ conn'[c].open <=> conn[c].open /\ c \notin C
             /\ conn'[c].id = conn[c].id
    <2>1. \A c \in Conn : c # None BY ConnAssumption
    <2>2. ConnTypeOK BY DEF TypeOK
    <2>3. Shut(C, None) BY <1>2
    <2>4. conn' \in [Conn -> ConnState] BY <2>2, <2>3, ShutFacts
    <2>5. \A c \in Conn :
             /\ conn'[c].at = conn[c].at /\ conn'[c].closing = conn[c].closing
             /\ conn'[c].told = conn[c].told /\ conn'[c].early = conn[c].early
             /\ conn'[c].open <=> conn[c].open /\ c \notin C
        BY <2>2, <2>3, ShutFacts
    <2>6. \A c \in Conn \ {None} : conn'[c].id = conn[c].id BY <2>2, <2>3, ShutFacts
    <2>7. QED BY <2>1, <2>4, <2>5, <2>6
<1>4. /\ outChan' \in Seq(Conn) /\ Distinct(outChan')
      /\ Range(outChan') = Range(outChan) \cup {c \in C : conn[c].open}
      /\ \A c \in C : ~conn[c].closing
    BY <1>2 DEF Shut
<1>5. /\ inChan' \in Seq(Conn) /\ Distinct(inChan') /\ Waiting' \subseteq Waiting
      /\ game'.state \in Going => Waiting' = Waiting
    <2>1. inChan' = inChan \/ (inChan # <<>> /\ inChan' = Tail(inChan)) BY DEF Plain
    <2>2. game'.state \in Going => inChan' = inChan BY DEF Plain
    <2>3. QED BY <2>1, <2>2, TakenFromIn
<1>6. TypeOK'
    <2>1. msgQ' \in Seq(Message)
        <3>1. msgQ' = msgQ \/ (msgQ # <<>> /\ msgQ' = Tail(msgQ)) BY DEF Plain
        <3>2. QED BY <3>1, TakenFromQ
    <2>2. GameTypeOK' BY DEF Plain
    <2>3. ConnTypeOK' BY <1>3, <1>4, <1>5, <2>1 DEF ConnTypeOK
    <2>4. QED BY <2>2, <2>3 DEF TypeOK, GameTypeOK
<1>7. \A c \in C : /\ c \in Conn /\ conn[c].at = "game" /\ conn[c].id \in Player
                   /\ players[conn[c].id].client = c
    BY <1>2, ClientFacts
<1>8. Clients(Player)' \subseteq Clients(Player) BY DEF Plain, Clients
<1>9. /\ Range(outChan) \subseteq Conn /\ Waiting \subseteq Conn
    BY <1>1, RangeOf DEF Waiting
<1>10. ChannelsAreSound'
    <2>1. \A c \in Range(outChan') : conn'[c].at = "game" /\ ~conn'[c].open /\ ~conn'[c].closing
        BY <1>3, <1>4, <1>7, <1>9 DEF ChannelsAreSound
    <2>2. ASSUME NEW c \in Waiting'
          PROVE  /\ conn'[c].at = "game" /\ conn'[c].id # None /\ c \notin Clients(Player)'
                 /\ conn'[c].open \/ conn'[c].early
        <3>1. c \in Waiting /\ c \in Conn BY <1>5, <1>9
        <3>2. /\ conn[c].at = "game" /\ conn[c].id # None /\ c \notin Clients(Player)
              /\ conn[c].open \/ conn[c].early
            BY <3>1 DEF ChannelsAreSound
        <3>3. c \notin C BY <1>2, <3>2
        <3>4. QED BY <1>3, <1>8, <3>1, <3>2, <3>3
    <2>3. QED BY <1>4, <1>5, <2>1, <2>2 DEF ChannelsAreSound
<1>11. ConnsAreSound' BY <1>3, <1>7 DEF ConnsAreSound
<1>12. ClientsAreTheirs'
    <2> SUFFICES ASSUME NEW p \in Player
                 PROVE  /\ players'[p].online => players'[p].client # None
                        /\ players'[p].client # None =>
                              conn'[players'[p].client].at = "game" /\ conn'[players'[p].client].id = p
        BY DEF ClientsAreTheirs
    <2>1. CASE players'[p].client = None /\ ~players'[p].online BY <2>1
    <2>2. CASE players'[p].client = players[p].client /\ players'[p].online = players[p].online
        <3>1. players[p].client \in Conn \cup {None} BY <1>1 DEF PlayerState
        <3>2. QED BY <1>3, <2>2, <3>1 DEF ClientsAreTheirs
    <2>3. QED BY <2>1, <2>2 DEF Plain
<1>13. OnlineIsConnected'
    <2> SUFFICES ASSUME NEW p \in Player, players'[p].online
                 PROVE  LET c == players'[p].client IN
                        \/ conn'[c].open \/ conn'[c].closing
                        \/ c \in Range(outChan') \/ conn'[c].early
        BY DEF OnlineIsConnected, Online
    <2> DEFINE c == players[p].client
    <2>1. players'[p].client = c /\ players[p].online BY DEF Plain
    <2>2. c \in Conn BY <2>1, ClientOpens
    <2>3. conn[c].open \/ conn[c].closing \/ c \in Range(outChan) \/ conn[c].early
        BY <2>1 DEF OnlineIsConnected, Online
    <2>4. QED BY <1>3, <1>4, <2>1, <2>2, <2>3
<1>14. StuckNeedsManyConns'
    <2>1. loop' = "stuck" => loop = "stuck" BY DEF Plain
    <2>2. {c \in Conn : conn'[c].at = "game"} = {c \in Conn : conn[c].at = "game"} BY <1>3
    <2>3. QED BY <2>1, <2>2 DEF StuckNeedsManyConns
<1>15. OnlyTheirs'
    <2> SUFFICES ASSUME loop' = "running", game'.state \in Going, \A c \in Conn : ~conn'[c].early,
                        NEW c \in Conn \ Waiting', conn'[c].at = "game", conn'[c].id # None
                 PROVE  \/ players'[conn'[c].id].client = c
                        \/ ~conn'[c].open /\ ~conn'[c].closing /\ c \notin Range(outChan')
        BY DEF OnlyTheirs, Going
    <2>1. loop = "running" /\ game.state \in Going BY DEF Plain
    <2>2. \A d \in Conn : ~conn[d].early BY <1>3
    <2>3. c \notin Waiting BY <1>5
    <2>4. conn[c].id \in Player BY <1>1, <1>3 DEF ConnState
    <2>5. players'[conn[c].id].client = players[conn[c].id].client BY <2>4 DEF Plain
    <2>6. \/ players[conn[c].id].client = c
          \/ ~conn[c].open /\ ~conn[c].closing /\ c \notin Range(outChan)
        BY <1>3, <2>1, <2>2, <2>3 DEF OnlyTheirs, Going
    <2>7. c \in C => players[conn[c].id].client = c BY <1>7
    <2>8. QED BY <1>3, <1>4, <2>5, <2>6, <2>7
<1>16. QED BY <1>6, <1>10, <1>11, <1>12, <1>13, <1>14, <1>15

\* A step of a connection that touches neither the channels nor who has which connection.
LEMMA OneConnKeepsLinks ==
    ASSUME TypeOK, LinksInv, UNCHANGED <<gameVars, inChan, outChan>>, msgQ' \in Seq(Message),
           NEW c \in Conn, conn' \in [Conn -> ConnState],
           \A d \in Conn \ {c} : conn'[d] = conn[d],
           conn[c].at = "game" => conn'[c].at = "game",
           c \in Range(outChan) => ~conn'[c].open /\ ~conn'[c].closing,
           c \in Waiting => conn'[c].open \/ conn'[c].early,
           conn[c].at = "game" => conn'[c].id = conn[c].id,
           conn'[c].at = "free" => ~conn'[c].open /\ ~conn'[c].early /\ conn'[c].id = None,
           conn'[c].at = "router" => conn'[c].id # None /\ (conn'[c].open \/ conn'[c].early),
           conn'[c].at # "game" => ~conn'[c].closing /\ ~conn'[c].told,
           conn'[c].open => ~conn'[c].closing /\ ~conn'[c].early,
           conn[c].at = "game" /\ (conn[c].open \/ conn[c].closing \/ conn[c].early) =>
               conn'[c].open \/ conn'[c].closing \/ conn'[c].early,
           conn[c].early => conn'[c].early,
           conn'[c].at = "game" => conn[c].at = "game",
           ~conn[c].open /\ ~conn[c].closing /\ conn[c].at = "game" =>
               ~conn'[c].open /\ ~conn'[c].closing
    PROVE  TypeOK' /\ LinksInv'
<1> USE DEF LinksInv, gameVars
<1>1. /\ conn \in [Conn -> ConnState] /\ inChan \in Seq(Conn) /\ outChan \in Seq(Conn)
      /\ players \in [Player -> PlayerState]
    BY DEF TypeOK, ConnTypeOK
<1>2. /\ Range(outChan) \subseteq Conn /\ Waiting \subseteq Conn
    BY <1>1, RangeOf DEF Waiting
<1>3. TypeOK' BY <1>1 DEF TypeOK, ConnTypeOK
<1>4. Waiting' = Waiting /\ Clients(Player)' = Clients(Player) BY DEF Waiting, Clients
<1>5. ChannelsAreSound'
    <2>1. \A d \in Range(outChan) : conn'[d].at = "game" /\ ~conn'[d].open /\ ~conn'[d].closing
        BY <1>2 DEF ChannelsAreSound
    <2>2. \A d \in Waiting : conn'[d].at = "game" /\ conn'[d].id # None
                             /\ (conn'[d].open \/ conn'[d].early)
        BY <1>2 DEF ChannelsAreSound
    <2>3. QED BY <1>4, <2>1, <2>2 DEF ChannelsAreSound
<1>6. ConnsAreSound' BY DEF ConnsAreSound
<1>7. ClientsAreTheirs'
    <2>1. \A p \in Player : players[p].client # None => players[p].client \in Conn
        BY <1>1 DEF PlayerState
    <2>2. QED BY <2>1 DEF ClientsAreTheirs
<1>8. OnlineIsConnected'
    <2> SUFFICES ASSUME NEW p \in Player, players[p].online
                 PROVE  LET d == players[p].client IN
                        \/ conn'[d].open \/ conn'[d].closing
                        \/ d \in Range(outChan) \/ conn'[d].early
        BY DEF OnlineIsConnected, Online
    <2>1. players[p].client \in Conn BY ClientOpens
    <2>2. conn[players[p].client].at = "game" BY <2>1, ConnAssumption DEF ClientsAreTheirs
    <2>3. QED BY <2>1, <2>2 DEF OnlineIsConnected, Online
<1>9. StuckNeedsManyConns'
    <2>1. {d \in Conn : conn'[d].at = "game"} = {d \in Conn : conn[d].at = "game"} OBVIOUS
    <2>2. QED BY <2>1 DEF StuckNeedsManyConns
<1>10. OnlyTheirs'
    <2> SUFFICES ASSUME loop = "running", game.state \in Going, \A d \in Conn : ~conn'[d].early,
                        NEW d \in Conn \ Waiting, conn'[d].at = "game", conn'[d].id # None
                 PROVE  \/ players[conn'[d].id].client = d
                        \/ ~conn'[d].open /\ ~conn'[d].closing /\ d \notin Range(outChan)
        BY <1>4 DEF OnlyTheirs, Going
    <2>1. \A e \in Conn : ~conn[e].early OBVIOUS
    <2>2. conn[d].at = "game" /\ conn[d].id = conn'[d].id OBVIOUS
    <2>3. \/ players[conn[d].id].client = d
          \/ ~conn[d].open /\ ~conn[d].closing /\ d \notin Range(outChan)
        BY <2>1, <2>2 DEF OnlyTheirs, Going
    <2>4. QED BY <2>2, <2>3
<1>11. QED BY <1>3, <1>5, <1>6, <1>7, <1>8, <1>9, <1>10

\* The steps of connections that touch no channel to the game's goroutine.
LEMMA ReceiveAndDropKeepLinks ==
    ASSUME TypeOK, LinksInv, UNCHANGED gameVars, NEW c \in Conn,
           \/ \E p \in Player : Identify(c, p)
           \/ \E kind \in Kind : Receive(c, kind)
           \/ Drop(c)
    PROVE  TypeOK' /\ LinksInv'
<1>1. conn \in [Conn -> ConnState] /\ conn[c] \in ConnState /\ msgQ \in Seq(Message)
    BY DEF TypeOK, ConnTypeOK
<1>2. c \in Range(outChan) => conn[c].at = "game" /\ ~conn[c].open /\ ~conn[c].closing
    BY DEF LinksInv, ChannelsAreSound
<1>3. c \in Waiting => conn[c].at = "game" /\ (conn[c].open \/ conn[c].early)
    BY DEF LinksInv, ChannelsAreSound
<1>4. /\ conn[c].at = "free" => ~conn[c].open /\ ~conn[c].early /\ conn[c].id = None
      /\ conn[c].at = "router" => conn[c].id # None /\ (conn[c].open \/ conn[c].early)
      /\ conn[c].at # "game" => ~conn[c].closing /\ ~conn[c].told
      /\ conn[c].open => ~conn[c].closing /\ ~conn[c].early
    BY DEF LinksInv, ConnsAreSound
<1>5. ASSUME NEW p \in Player, Identify(c, p) PROVE TypeOK' /\ LinksInv'
    <2>1. /\ conn' = [conn EXCEPT ![c].at = "router", ![c].open = TRUE, ![c].id = p]
          /\ conn[c].at = "free" /\ UNCHANGED <<inChan, outChan, msgQ>>
        BY <1>5 DEF Identify
    <2>2. conn' \in [Conn -> ConnState] BY <1>1, <2>1 DEF ConnState
    <2>3. /\ conn'[c].at = "router" /\ conn'[c].open /\ conn'[c].id = p
          /\ conn'[c].closing = conn[c].closing /\ conn'[c].told = conn[c].told
          /\ conn'[c].early = conn[c].early
        BY <1>1, <2>1 DEF ConnState
    <2>4. \A d \in Conn \ {c} : conn'[d] = conn[d] BY <1>1, <2>1
    <2>5. p # None BY ConnAssumption
    <2>6. QED BY <1>1, <1>2, <1>3, <1>4, <2>1, <2>2, <2>3, <2>4, <2>5, OneConnKeepsLinks
<1>6. ASSUME NEW kind \in Kind, Receive(c, kind) PROVE TypeOK' /\ LinksInv'
    <2> DEFINE told == conn[c].told \/ kind = "loaded"
               msg == [id |-> conn[c].id, kind |-> kind]
    <2>1. /\ conn' = [conn EXCEPT ![c].told = told] /\ msgQ' = Append(msgQ, msg)
          /\ conn[c].at = "game" /\ conn[c].id # None /\ UNCHANGED <<inChan, outChan>>
        BY <1>6 DEF Receive
    <2>2. told \in BOOLEAN BY <1>1 DEF ConnState
    <2>3. msg \in Message BY <1>1, <2>1 DEF ConnState, Message
    <2> HIDE DEF told, msg
    <2>4. msgQ' \in Seq(Message) BY <1>1, <2>1, <2>3, AppendProperties
    <2>5. conn' \in [Conn -> ConnState] BY <1>1, <2>1, <2>2 DEF ConnState
    <2>6. /\ conn'[c].at = conn[c].at /\ conn'[c].open = conn[c].open /\ conn'[c].id = conn[c].id
          /\ conn'[c].closing = conn[c].closing /\ conn'[c].early = conn[c].early
        BY <1>1, <2>1 DEF ConnState
    <2>7. \A d \in Conn \ {c} : conn'[d] = conn[d] BY <1>1, <2>1
    <2>8. QED BY <1>2, <1>3, <1>4, <2>1, <2>4, <2>5, <2>6, <2>7, OneConnKeepsLinks
<1>7. ASSUME Drop(c) PROVE TypeOK' /\ LinksInv'
    <2> DEFINE cl == conn[c].at = "game"
               ea == conn[c].at = "router" \/ c \in Waiting
    <2>1. /\ conn' = [conn EXCEPT ![c].open = FALSE, ![c].closing = cl, ![c].early = ea]
          /\ conn[c].open /\ UNCHANGED <<inChan, outChan, msgQ>>
        BY <1>7 DEF Drop
    <2>2. cl \in BOOLEAN /\ ea \in BOOLEAN OBVIOUS
    <2>3. (cl <=> conn[c].at = "game") /\ (ea <=> conn[c].at = "router" \/ c \in Waiting)
        OBVIOUS
    <2> HIDE DEF cl, ea
    <2>4. conn' \in [Conn -> ConnState] BY <1>1, <2>1, <2>2 DEF ConnState
    <2>5. /\ conn'[c].at = conn[c].at /\ conn'[c].open = FALSE /\ conn'[c].id = conn[c].id
          /\ conn'[c].closing = cl /\ conn'[c].early = ea /\ conn'[c].told = conn[c].told
        BY <1>1, <2>1 DEF ConnState
    <2>6. \A d \in Conn \ {c} : conn'[d] = conn[d] BY <1>1, <2>1
    <2>7. QED BY <1>1, <1>2, <1>3, <1>4, <2>1, <2>3, <2>4, <2>5, <2>6, OneConnKeepsLinks
<1>8. QED BY <1>5, <1>6, <1>7

\* A connection is handed to the game.
LEMMA HandKeepsLinks ==
    ASSUME TypeOK, LinksInv, UNCHANGED gameVars, NEW c \in Conn, Hand(c)
    PROVE  TypeOK' /\ LinksInv'
<1> USE DEF LinksInv, gameVars
<1>1. /\ conn \in [Conn -> ConnState] /\ inChan \in Seq(Conn) /\ outChan \in Seq(Conn)
      /\ players \in [Player -> PlayerState] /\ conn[c] \in ConnState
    BY DEF TypeOK, ConnTypeOK
<1>2. /\ conn' = [conn EXCEPT ![c].at = "game"] /\ conn[c].at = "router"
      /\ inChan' = Append(inChan, c) /\ UNCHANGED <<outChan, msgQ>>
    BY DEF Hand
<1>3. /\ conn' \in [Conn -> ConnState]
      /\ \A d \in Conn \ {c} : conn'[d] = conn[d]
      /\ conn'[c].at = "game" /\ conn'[c].open = conn[c].open /\ conn'[c].id = conn[c].id
      /\ conn'[c].closing = conn[c].closing /\ conn'[c].early = conn[c].early
      /\ conn'[c].told = conn[c].told
    BY <1>1, <1>2 DEF ConnState
<1>4. /\ Range(outChan) \subseteq Conn /\ Waiting \subseteq Conn
    BY <1>1, RangeOf DEF Waiting
<1>5. c \notin Waiting /\ c \notin Range(outChan) /\ c \notin Clients(Player)
    BY <1>2, ClientFacts DEF ChannelsAreSound
<1>6. inChan' \in Seq(Conn) /\ Distinct(inChan') /\ Waiting' = Waiting \cup {c}
    BY <1>1, <1>2, <1>5, AppendDistinct DEF ChannelsAreSound, Waiting
<1>7. conn[c].id # None /\ (conn[c].open \/ conn[c].early) /\ ~conn[c].closing
    BY <1>2 DEF ConnsAreSound
<1>8. TypeOK' BY <1>2, <1>3, <1>6 DEF TypeOK, ConnTypeOK
<1>9. Clients(Player)' = Clients(Player) BY DEF Clients
<1>10. ChannelsAreSound'
    <2>1. \A d \in Range(outChan) : conn'[d].at = "game" /\ ~conn'[d].open /\ ~conn'[d].closing
        BY <1>3, <1>4, <1>5 DEF ChannelsAreSound
    <2>2. \A d \in Waiting \cup {c} :
              /\ conn'[d].at = "game" /\ conn'[d].id # None /\ d \notin Clients(Player)
              /\ conn'[d].open \/ conn'[d].early
        BY <1>3, <1>4, <1>5, <1>7 DEF ChannelsAreSound
    <2>3. QED BY <1>2, <1>6, <1>9, <2>1, <2>2 DEF ChannelsAreSound
<1>11. ConnsAreSound' BY <1>3 DEF ConnsAreSound
<1>12. ClientsAreTheirs'
    <2>1. \A p \in Player : players[p].client # None =>
              players[p].client \in Conn /\ players[p].client \in Clients(Player)
        BY <1>1 DEF PlayerState, Clients
    <2>2. QED BY <1>3, <1>5, <2>1 DEF ClientsAreTheirs
<1>13. OnlineIsConnected'
    <2> SUFFICES ASSUME NEW p \in Player, players[p].online
                 PROVE  LET d == players[p].client IN
                        \/ conn'[d].open \/ conn'[d].closing
                        \/ d \in Range(outChan) \/ conn'[d].early
        BY <1>2 DEF OnlineIsConnected, Online
    <2>1. players[p].client \in Conn BY ClientOpens
    <2>2. players[p].client # c BY <1>5, <2>1, ConnAssumption DEF Clients
    <2>3. QED BY <1>3, <2>1, <2>2 DEF OnlineIsConnected, Online
<1>14. StuckNeedsManyConns'
    <2> DEFINE G == {d \in Conn : conn[d].at = "game"}
               H == {d \in Conn : conn'[d].at = "game"}
    <2>1. G \subseteq H /\ H \subseteq Conn BY <1>3
    <2>2. IsFiniteSet(H) BY <2>1, FS_Subset, ConnAssumption
    <2> HIDE DEF G, H
    <2>3. /\ Cardinality(G) <= Cardinality(H) /\ Cardinality(H) \in Nat
          /\ Cardinality(G) \in Nat
        BY <2>1, <2>2, FS_Subset, FS_CardinalityType
    <2>4. loop = "stuck" => Cardinality(G) > OutCap BY DEF StuckNeedsManyConns, G
    <2>5. loop = "stuck" => Cardinality(H) > OutCap BY <2>3, <2>4, ConnAssumption
    <2>6. QED BY <2>5 DEF StuckNeedsManyConns, H
<1>15. OnlyTheirs'
    <2> SUFFICES ASSUME loop = "running", game.state \in Going, \A d \in Conn : ~conn'[d].early,
                        NEW d \in Conn \ (Waiting \cup {c}), conn'[d].at = "game",
                        conn'[d].id # None
                 PROVE  \/ players[conn'[d].id].client = d
                        \/ ~conn'[d].open /\ ~conn'[d].closing /\ d \notin Range(outChan)
        BY <1>2, <1>6 DEF OnlyTheirs, Going
    <2>1. \A e \in Conn : ~conn[e].early BY <1>3
    <2>2. conn'[d] = conn[d] BY <1>3
    <2>3. QED BY <2>1, <2>2 DEF OnlyTheirs, Going
<1>16. QED BY <1>8, <1>10, <1>11, <1>12, <1>13, <1>14, <1>15

\* The game is going to be told that a connection is closed.
LEMMA OnCloseKeepsLinks ==
    ASSUME TypeOK, LinksInv, UNCHANGED gameVars, NEW c \in Conn, OnClose(c)
    PROVE  TypeOK' /\ LinksInv'
<1> USE DEF LinksInv, gameVars
<1>1. /\ conn \in [Conn -> ConnState] /\ inChan \in Seq(Conn) /\ outChan \in Seq(Conn)
      /\ players \in [Player -> PlayerState] /\ conn[c] \in ConnState
    BY DEF TypeOK, ConnTypeOK
<1>2. /\ conn' = [conn EXCEPT ![c].closing = FALSE] /\ conn[c].closing
      /\ outChan' = Append(outChan, c) /\ UNCHANGED <<inChan, msgQ>>
    BY DEF OnClose
<1>3. /\ conn' \in [Conn -> ConnState]
      /\ \A d \in Conn \ {c} : conn'[d] = conn[d]
      /\ conn'[c].at = conn[c].at /\ conn'[c].open = conn[c].open /\ conn'[c].id = conn[c].id
      /\ conn'[c].closing = FALSE /\ conn'[c].early = conn[c].early
      /\ conn'[c].told = conn[c].told
    BY <1>1, <1>2 DEF ConnState
<1>4. /\ Range(outChan) \subseteq Conn /\ Waiting \subseteq Conn
    BY <1>1, RangeOf DEF Waiting
<1>5. conn[c].at = "game" /\ ~conn[c].open BY <1>2 DEF ConnsAreSound
<1>6. c \notin Range(outChan) BY <1>2 DEF ChannelsAreSound
<1>7. /\ outChan' \in Seq(Conn) /\ Distinct(outChan')
      /\ Range(outChan') = Range(outChan) \cup {c}
    BY <1>1, <1>2, <1>6, AppendDistinct DEF ChannelsAreSound
<1>8. TypeOK' BY <1>2, <1>3, <1>7 DEF TypeOK, ConnTypeOK
<1>9. Clients(Player)' = Clients(Player) /\ Waiting' = Waiting
    BY <1>2 DEF Clients, Waiting
<1>10. ChannelsAreSound'
    <2>1. \A d \in Range(outChan') :
              conn'[d].at = "game" /\ ~conn'[d].open /\ ~conn'[d].closing
        BY <1>3, <1>4, <1>5, <1>7 DEF ChannelsAreSound
    <2>2. \A d \in Waiting :
              /\ conn'[d].at = "game" /\ conn'[d].id # None /\ d \notin Clients(Player)
              /\ conn'[d].open \/ conn'[d].early
        BY <1>3, <1>4 DEF ChannelsAreSound
    <2>3. Distinct(inChan') BY <1>2 DEF ChannelsAreSound
    <2>4. QED BY <1>7, <1>9, <2>1, <2>2, <2>3 DEF ChannelsAreSound
<1>11. ConnsAreSound' BY <1>3 DEF ConnsAreSound
<1>12. ClientsAreTheirs'
    <2>1. \A p \in Player : players[p].client # None => players[p].client \in Conn
        BY <1>1 DEF PlayerState
    <2>2. QED BY <1>3, <2>1 DEF ClientsAreTheirs
<1>13. OnlineIsConnected'
    <2> SUFFICES ASSUME NEW p \in Player, players[p].online
                 PROVE  LET d == players[p].client IN
                        \/ conn'[d].open \/ conn'[d].closing
                        \/ d \in Range(outChan') \/ conn'[d].early
        BY DEF OnlineIsConnected, Online
    <2>1. players[p].client \in Conn BY ClientOpens
    <2>2. QED BY <1>3, <1>7, <2>1 DEF OnlineIsConnected, Online
<1>14. StuckNeedsManyConns'
    <2>1. {d \in Conn : conn'[d].at = "game"} = {d \in Conn : conn[d].at = "game"} BY <1>3
    <2>2. QED BY <2>1 DEF StuckNeedsManyConns
<1>15. OnlyTheirs'
    <2> SUFFICES ASSUME loop = "running", game.state \in Going, \A d \in Conn : ~conn'[d].early,
                        NEW d \in Conn \ Waiting, conn'[d].at = "game",
                        conn'[d].id # None
                 PROVE  \/ players[conn'[d].id].client = d
                        \/ ~conn'[d].open /\ ~conn'[d].closing /\ d \notin Range(outChan')
        BY <1>9 DEF OnlyTheirs, Going
    <2>1. \A e \in Conn : ~conn[e].early BY <1>3
    <2>2. conn[d].at = "game" /\ conn[d].id = conn'[d].id BY <1>3
    <2>3. \/ players[conn[d].id].client = d
          \/ ~conn[d].open /\ ~conn[d].closing /\ d \notin Range(outChan)
        BY <2>1, <2>2 DEF OnlyTheirs, Going
    <2>4. QED BY <1>2, <1>3, <1>7, <2>2, <2>3
<1>16. QED BY <1>8, <1>10, <1>11, <1>12, <1>13, <1>14, <1>15

\* The game's goroutine can only wait for itself when more connections than outChan holds
\* have come to the game.
LEMMA StuckKeepsLinks ==
    ASSUME TypeOK, LinksInv, GetsStuck
    PROVE  TypeOK' /\ LinksInv'
<1> USE DEF LinksInv
<1>1. /\ conn \in [Conn -> ConnState] /\ inChan \in Seq(Conn) /\ outChan \in Seq(Conn)
      /\ players \in [Player -> PlayerState]
    BY DEF TypeOK, ConnTypeOK
<1>2. UNCHANGED <<conn, inChan, outChan, msgQ, game, players, seen>> /\ loop' = "stuck"
    BY DEF GetsStuck, connVars
<1>3. PICK C \in SUBSET (Clients(Player) \cup Joining) : Hangs(C) BY DEF GetsStuck
<1> DEFINE G == {d \in Conn : conn[d].at = "game"}
           R == Range(outChan)
           D == ClosedByGame(C)
<1>4. Joining \subseteq Waiting
    BY <1>1, TailDistinct DEF Joining, Waiting, ChannelsAreSound
<1>5. \A c \in C : c \in G
    <2>1. Waiting \subseteq Conn BY <1>1, RangeOf DEF Waiting
    <2>2. QED BY <1>3, <1>4, <2>1, ClientFacts DEF ChannelsAreSound
<1>6. R \subseteq G BY <1>1, RangeOf DEF ChannelsAreSound
<1>7. IsFiniteSet(G) BY FS_Subset, ConnAssumption
<1>8. IsFiniteSet(R) /\ Cardinality(R) = Len(outChan)
    BY <1>1, DistinctCardinality DEF ChannelsAreSound
<1>9. D \subseteq G /\ R \cap D = {} BY <1>5 DEF ClosedByGame, ChannelsAreSound
<1>10. Cardinality(G) \in Nat BY <1>7, FS_CardinalityType
<1>11. ASSUME Len(outChan) + Cardinality(D) > OutCap PROVE Cardinality(G) > OutCap
    <2> HIDE DEF G, R, D
    <2>1. IsFiniteSet(D) BY <1>7, <1>9, FS_Subset
    <2>2. Cardinality(R \cup D) = Cardinality(R) + Cardinality(D) - Cardinality({})
          /\ IsFiniteSet(R \cup D)
        BY <1>8, <1>9, <2>1, FS_Union
    <2>3. Cardinality({}) = 0 BY FS_EmptySet
    <2>4. Cardinality(D) \in Nat /\ Cardinality(R) \in Nat BY <1>8, <2>1, FS_CardinalityType
    <2>5. R \cup D \subseteq G BY <1>6, <1>9
    <2>6. Cardinality(R \cup D) <= Cardinality(G) BY <1>7, <2>5, FS_Subset
    <2>7. QED BY <1>8, <1>10, <1>11, <2>2, <2>3, <2>4, <2>6, ConnAssumption
<1>12. ASSUME WaitsFor(C), Len(outChan) = OutCap PROVE Cardinality(G) > OutCap
    <2>1. PICK c \in C : conn[c].closing BY <1>12 DEF WaitsFor
    <2>2. c \notin R /\ c \in G BY <1>5, <2>1 DEF ChannelsAreSound
    <2> HIDE DEF G, R
    <2>3. IsFiniteSet(R \cup {c}) /\ Cardinality(R \cup {c}) = Cardinality(R) + 1
        BY <1>8, <2>2, FS_AddElement
    <2>4. R \cup {c} \subseteq G BY <1>6, <2>2
    <2>5. Cardinality(R \cup {c}) <= Cardinality(G) BY <1>7, <2>4, FS_Subset
    <2>6. QED BY <1>8, <1>10, <1>12, <2>3, <2>5, ConnAssumption
<1>13. Cardinality(G) > OutCap BY <1>3, <1>11, <1>12 DEF Hangs
<1>14. TypeOK' BY <1>2 DEF TypeOK, ConnTypeOK, Phase
<1>15. Waiting' = Waiting /\ Clients(Player)' = Clients(Player) BY <1>2 DEF Waiting, Clients
<1>16. ChannelsAreSound' BY <1>2, <1>15 DEF ChannelsAreSound
<1>17. ConnsAreSound' /\ ClientsAreTheirs' BY <1>2 DEF ConnsAreSound, ClientsAreTheirs
<1>18. OnlineIsConnected' BY <1>2 DEF OnlineIsConnected, Online
<1>19. StuckNeedsManyConns' BY <1>2, <1>13 DEF StuckNeedsManyConns
<1>20. OnlyTheirs' BY <1>2 DEF OnlyTheirs
<1>21. QED BY <1>14, <1>16, <1>17, <1>18, <1>19, <1>20

\* Player.Connect: p, whose connection was o, gets c, which is shut if C says so.
JoinStep(p, c, o, C) ==
    /\ loop = "running" /\ game.state \in Going /\ UNCHANGED <<loop, game, msgQ>>
    /\ inChan # <<>> /\ c = Head(inChan) /\ inChan' = Tail(inChan)
    /\ C \subseteq {c} /\ (~conn[c].open => c \in C) /\ Shut(C, o)
    /\ players' = [players EXCEPT ![p].client = c, ![p].online = TRUE, ![p].ready = FALSE]
    /\ seen' = [seen EXCEPT ![p] = Nothing]

\* OnJoinGame while the game goes on.
LEMMA JoinIsStep ==
    ASSUME TypeOK, LinksInv, OnJoinGame, game.state \in Going
    PROVE  \E p \in Player, c \in Conn, C \in SUBSET Conn :
               conn[c].id = p /\ JoinStep(p, c, players[p].client, C)
<1> USE DEF LinksInv
<1> DEFINE c == Head(inChan)
           p == conn[c].id
<1>1. loop = "running" /\ inChan # <<>> /\ inChan' = Tail(inChan) /\ UNCHANGED <<loop, game, msgQ>>
      /\ Connects(p, c)
    BY DEF OnJoinGame, Going
<1>2. c \in Waiting /\ c \in Conn
    BY <1>1, TailDistinct DEF TypeOK, ConnTypeOK, ChannelsAreSound, Waiting
<1>3. p \in Player
    BY <1>2 DEF TypeOK, ConnTypeOK, ChannelsAreSound, ConnState
<1>4. PICK fails \in BOOLEAN :
          /\ Closes(IF fails \/ ~conn[c].open THEN {c} ELSE {}, players[p].client)
          /\ players' = [players EXCEPT ![p].client = c, ![p].online = TRUE, ![p].ready = FALSE]
          /\ seen' = [seen EXCEPT ![p] = Nothing]
    BY <1>1 DEF Connects
<1> DEFINE C == IF fails \/ ~conn[c].open THEN {c} ELSE {}
<1>5. C \subseteq {c} /\ (~conn[c].open => c \in C) /\ C \in SUBSET Conn BY <1>2
<1>6. Closes(C, players[p].client) BY <1>4
<1> DEFINE o == players[p].client
<1>7. /\ ConnTypeOK /\ Distinct(outChan) /\ \A d \in Range(outChan) : ~conn[d].open
    BY DEF TypeOK, ChannelsAreSound
<1> HIDE DEF C
<1>8. Shut(C, o)
    <2> HIDE DEF o, c, p
    <2>1. Closes(C, o) BY <1>6 DEF o
    <2>2. QED BY <1>5, <1>7, <2>1, ClosesShuts
<1>9. JoinStep(p, c, o, C) BY <1>1, <1>4, <1>5, <1>8 DEF JoinStep
<1>10. QED BY <1>2, <1>3, <1>5, <1>9

\* A new connection of a player keeps the connections' invariant.
LEMMA JoinKeepsLinks ==
    ASSUME TypeOK, LinksInv, NEW p \in Player, NEW c \in Conn, NEW C \in SUBSET Conn,
           conn[c].id = p, JoinStep(p, c, players[p].client, C)
    PROVE  TypeOK' /\ LinksInv'
<1> USE DEF LinksInv
<1> DEFINE o == players[p].client
<1>1. /\ conn \in [Conn -> ConnState] /\ inChan \in Seq(Conn) /\ outChan \in Seq(Conn)
      /\ players \in [Player -> PlayerState] /\ seen \in [Player -> Seen]
    BY DEF TypeOK, ConnTypeOK
<1>2. o \in Conn \cup {None} BY <1>1 DEF PlayerState
<1>3. /\ inChan # <<>> /\ c = Head(inChan) /\ inChan' = Tail(inChan)
      /\ C \subseteq {c} /\ (~conn[c].open => c \in C)
      /\ loop = "running" /\ game.state \in Going /\ UNCHANGED <<loop, game, msgQ>>
    BY DEF JoinStep
<1>4. /\ conn' \in [Conn -> ConnState]
      /\ \A d \in Conn :
             /\ conn'[d].at = conn[d].at /\ conn'[d].closing = conn[d].closing
             /\ conn'[d].told = conn[d].told /\ conn'[d].early = conn[d].early
             /\ conn'[d].open <=> conn[d].open /\ d \notin C
             /\ d = o => conn'[d].id = None
             /\ d # o => conn'[d].id = conn[d].id
    <2>1. Shut(C, o) /\ ConnTypeOK BY DEF JoinStep, TypeOK
    <2> HIDE DEF o
    <2>2. conn' \in [Conn -> ConnState] BY <1>2, <2>1, ShutFacts
    <2>3. \A d \in Conn :
             /\ conn'[d].at = conn[d].at /\ conn'[d].closing = conn[d].closing
             /\ conn'[d].told = conn[d].told /\ conn'[d].early = conn[d].early
             /\ conn'[d].open <=> conn[d].open /\ d \notin C
        BY <1>2, <2>1, ShutFacts
    <2>4. o \in Conn => conn'[o].id = None BY <1>2, <2>1, ShutFacts
    <2>5. \A d \in Conn \ {o} : conn'[d].id = conn[d].id BY <1>2, <2>1, ShutFacts
    <2>6. QED BY <2>2, <2>3, <2>4, <2>5
<1>5. /\ outChan' \in Seq(Conn) /\ Distinct(outChan')
      /\ Range(outChan') = Range(outChan) \cup {d \in C : conn[d].open}
      /\ \A d \in C : ~conn[d].closing
    BY DEF JoinStep, Shut
<1>6. /\ c \in Waiting /\ inChan' \in Seq(Conn) /\ Distinct(inChan')
      /\ Waiting' = Waiting \ {c}
    BY <1>1, <1>3, TailDistinct DEF Waiting, ChannelsAreSound
<1>7. /\ conn[c].at = "game" /\ c \notin Clients(Player) /\ (conn[c].open \/ conn[c].early)
    BY <1>6 DEF ChannelsAreSound
<1>8. c # None /\ c # o /\ p # None
    BY <1>7, ConnAssumption DEF Clients
<1>9. /\ players' \in [Player -> PlayerState] /\ seen' \in [Player -> Seen]
      /\ players'[p].client = c /\ players'[p].online
      /\ \A q \in Player \ {p} : players'[q] = players[q]
    <2>1. /\ players' = [players EXCEPT ![p].client = c, ![p].online = TRUE, ![p].ready = FALSE]
          /\ seen' = [seen EXCEPT ![p] = Nothing]
        BY DEF JoinStep
    <2>2. Nothing \in Seen BY EmptySeq DEF Nothing, Seen
    <2>3. seen' \in [Player -> Seen] BY <1>1, <2>1, <2>2
    <2>4. c \in Conn \cup {None} OBVIOUS
    <2> DEFINE rec == [players[p] EXCEPT !.client = c, !.online = TRUE, !.ready = FALSE]
    <2>5. players' \in [Player -> PlayerState]
        <3>1. rec \in PlayerState BY <1>1, <2>4 DEF PlayerState
        <3>2. players' = [players EXCEPT ![p] = rec] BY <1>1, <2>1
        <3> HIDE DEF rec
        <3>3. QED BY <1>1, <3>1, <3>2
    <2>6. players'[p].client = c /\ players'[p].online BY <1>1, <2>1 DEF PlayerState
    <2>7. \A q \in Player \ {p} : players'[q] = players[q] BY <1>1, <2>1
    <2>8. QED BY <2>3, <2>5, <2>6, <2>7
<1> HIDE DEF o
<1>10. TypeOK' BY <1>3, <1>4, <1>5, <1>6, <1>9 DEF TypeOK, ConnTypeOK
<1>11. /\ Range(outChan) \subseteq Conn /\ Waiting \subseteq Conn
    BY <1>1, RangeOf DEF Waiting
<1>12. o # None => conn[o].id = p /\ conn[o].at = "game" /\ o \notin Waiting /\ o \in Clients(Player)
    <2>1. o # None => conn[o].id = p /\ conn[o].at = "game" BY DEF ClientsAreTheirs, o
    <2>2. o # None => o \in Clients(Player) BY DEF Clients, o
    <2>3. QED BY <2>1, <2>2 DEF ChannelsAreSound
<1>13. Clients(Player)' \subseteq Clients(Player) \cup {c}
    <2> SUFFICES ASSUME NEW q \in Player, players'[q].client # None
                 PROVE  players'[q].client \in Clients(Player) \cup {c}
        BY DEF Clients
    <2>1. CASE q = p BY <1>9, <2>1
    <2>2. CASE q # p BY <1>9, <2>2 DEF Clients
    <2>3. QED BY <2>1, <2>2
<1>14. ChannelsAreSound'
    <2>1. \A d \in Range(outChan') :
              conn'[d].at = "game" /\ ~conn'[d].open /\ ~conn'[d].closing
        <3> TAKE d \in Range(outChan')
        <3>1. CASE d \in Range(outChan) BY <1>4, <1>11, <3>1 DEF ChannelsAreSound
        <3>2. CASE d \in C BY <1>3, <1>4, <1>5, <1>7, <3>2
        <3>3. QED BY <1>5, <3>1, <3>2
    <2>2. \A d \in Waiting' :
              /\ conn'[d].at = "game" /\ conn'[d].id # None /\ d \notin Clients(Player)'
              /\ conn'[d].open \/ conn'[d].early
        <3> TAKE d \in Waiting'
        <3>1. d \in Waiting /\ d # c /\ d \in Conn BY <1>6, <1>11
        <3>2. d # o BY <1>12, <3>1, ConnAssumption
        <3>3. d \notin C BY <1>3, <3>1
        <3>4. QED BY <1>4, <1>13, <3>1, <3>2, <3>3 DEF ChannelsAreSound
    <2>3. QED BY <1>5, <1>6, <2>1, <2>2 DEF ChannelsAreSound
<1>15. ConnsAreSound'
    <2>1. \A d \in C : conn[d].at = "game" BY <1>3, <1>7
    <2>2. \A d \in Conn : d = o => conn[d].at = "game" BY <1>12, ConnAssumption
    <2>3. QED BY <1>4, <2>1, <2>2 DEF ConnsAreSound
<1>16. ClientsAreTheirs'
    <2> SUFFICES ASSUME NEW q \in Player
                 PROVE  /\ players'[q].online => players'[q].client # None
                        /\ players'[q].client # None =>
                              conn'[players'[q].client].at = "game" /\ conn'[players'[q].client].id = q
        BY DEF ClientsAreTheirs
    <2>1. CASE q = p BY <1>4, <1>7, <1>8, <1>9, <2>1
    <2>2. CASE q # p
        <3>1. players'[q] = players[q] BY <1>9, <2>2
        <3>2. players[q].client \in Conn \cup {None} BY <1>1 DEF PlayerState
        <3>3. players[q].client # None => conn[players[q].client].id = q BY DEF ClientsAreTheirs
        <3>4. players[q].client # None => players[q].client # o
            BY <1>12, <2>2, <3>3
        <3>5. QED BY <1>4, <3>1, <3>2, <3>3, <3>4 DEF ClientsAreTheirs
    <2>3. QED BY <2>1, <2>2
<1>17. OnlineIsConnected'
    <2> SUFFICES ASSUME NEW q \in Player, players'[q].online
                 PROVE  LET d == players'[q].client IN
                        \/ conn'[d].open \/ conn'[d].closing
                        \/ d \in Range(outChan') \/ conn'[d].early
        BY DEF OnlineIsConnected, Online
    <2>1. CASE q = p BY <1>3, <1>4, <1>5, <1>7, <1>9, <2>1
    <2>2. CASE q # p
        <3>1. players'[q] = players[q] /\ players[q].online BY <1>9, <2>2
        <3>2. players[q].client \in Conn BY <3>1, ClientOpens
        <3>3. QED BY <1>4, <1>5, <3>1, <3>2 DEF OnlineIsConnected, Online
    <2>3. QED BY <2>1, <2>2
<1>18. StuckNeedsManyConns'
    <2>1. {d \in Conn : conn'[d].at = "game"} = {d \in Conn : conn[d].at = "game"} BY <1>4
    <2>2. QED BY <1>3, <2>1 DEF StuckNeedsManyConns
<1>19. OnlyTheirs'
    <2> SUFFICES ASSUME \A d \in Conn : ~conn'[d].early,
                        NEW d \in Conn \ Waiting', conn'[d].at = "game", conn'[d].id # None
                 PROVE  \/ players'[conn'[d].id].client = d
                        \/ ~conn'[d].open /\ ~conn'[d].closing /\ d \notin Range(outChan')
        BY DEF OnlyTheirs
    <2>1. CASE d = c BY <1>4, <1>8, <1>9, <2>1
    <2>2. CASE d # c
        <3>1. d \notin Waiting /\ d # o /\ d \notin C BY <1>3, <1>4, <1>6, <2>2
        <3>2. \A e \in Conn : ~conn[e].early BY <1>4
        <3>3. conn[d].at = "game" /\ conn[d].id # None /\ conn'[d].id = conn[d].id BY <1>4, <3>1
        <3>4. conn[d].id \in Player BY <1>1, <3>3 DEF ConnState
        <3>5. \/ players[conn[d].id].client = d
              \/ ~conn[d].open /\ ~conn[d].closing /\ d \notin Range(outChan)
            BY <1>3, <3>1, <3>2, <3>3 DEF OnlyTheirs, Going
        <3>6. players[conn[d].id].client = d => players'[conn[d].id].client = d
            <4>1. players[p].client # d BY <3>1 DEF o
            <4>2. QED BY <1>9, <3>4, <4>1
        <3>7. QED BY <1>4, <1>5, <3>1, <3>3, <3>5, <3>6
    <2>3. QED BY <2>1, <2>2
<1>20. QED BY <1>10, <1>14, <1>15, <1>16, <1>17, <1>18, <1>19

\* OnLeaveGame, when the connection that left had been replaced before.
LEMMA LeaveOfNobody ==
    ASSUME TypeOK, LinksInv, OnLeaveGame, conn[Head(outChan)].id = None
    PROVE  /\ TypeOK' /\ LinksInv'
           /\ UNCHANGED <<conn, inChan, msgQ, loop, game, players, seen>>
<1> USE DEF LinksInv
<1> DEFINE h == Head(outChan)
<1>1. /\ conn \in [Conn -> ConnState] /\ inChan \in Seq(Conn) /\ outChan \in Seq(Conn)
      /\ players \in [Player -> PlayerState]
    BY DEF TypeOK, ConnTypeOK
<1>2. /\ UNCHANGED <<conn, inChan, msgQ, loop, game, players, seen>>
      /\ outChan # <<>> /\ outChan' = Tail(outChan)
    BY DEF OnLeaveGame
<1>3. /\ outChan' \in Seq(Conn) /\ Distinct(outChan')
      /\ Range(outChan') = Range(outChan) \ {h}
    BY <1>1, <1>2, TailDistinct DEF ChannelsAreSound
<1>4. TypeOK' BY <1>1, <1>2, <1>3 DEF TypeOK, ConnTypeOK
<1>5. Waiting' = Waiting /\ Clients(Player)' = Clients(Player) BY <1>2 DEF Waiting, Clients
<1>6. ChannelsAreSound' BY <1>2, <1>3, <1>5 DEF ChannelsAreSound
<1>7. ConnsAreSound' /\ ClientsAreTheirs' BY <1>2 DEF ConnsAreSound, ClientsAreTheirs
<1>8. OnlineIsConnected'
    <2> SUFFICES ASSUME NEW p \in Player, players[p].online
                 PROVE  LET c == players[p].client IN
                        \/ conn[c].open \/ conn[c].closing
                        \/ c \in Range(outChan') \/ conn[c].early
        BY <1>2 DEF OnlineIsConnected, Online
    <2>1. conn[players[p].client].id = p BY DEF ClientsAreTheirs
    <2>2. players[p].client # h BY <2>1, ConnAssumption
    <2>3. QED BY <1>3, <2>2 DEF OnlineIsConnected, Online
<1>9. StuckNeedsManyConns' BY <1>2 DEF StuckNeedsManyConns
<1>10. OnlyTheirs' BY <1>2, <1>3, <1>5 DEF OnlyTheirs
<1>11. QED BY <1>2, <1>4, <1>6, <1>7, <1>8, <1>9, <1>10

\* OnLeaveGame of a connection that still has p's identity: p loses its connection c.
LeaveStep(p, c) ==
    /\ loop = "running" /\ outChan # <<>> /\ UNCHANGED <<loop, game, inChan, msgQ>>
    /\ conn[Head(outChan)].id = p
    /\ players' = [players EXCEPT ![p] = CleanedUp(p)] /\ seen' = [seen EXCEPT ![p] = Nothing]
    /\ \A d \in Conn \ {c} : conn'[d] = conn[d]
    /\ c \in Conn =>
           /\ conn'[c].at = conn[c].at /\ ~conn'[c].open /\ ~conn'[c].closing
           /\ conn'[c].id = conn[c].id /\ conn'[c].told = conn[c].told
           /\ conn'[c].early = conn[c].early
    /\ conn' \in [Conn -> ConnState] /\ outChan' \in Seq(Conn) /\ Distinct(outChan')
    /\ Range(outChan') = (Range(outChan) \ {Head(outChan)})
                         \cup (IF c \in Conn /\ (conn[c].open \/ conn[c].closing) THEN {c} ELSE {})

\* What it does.
LEMMA LeaveIsStep ==
    ASSUME TypeOK, LinksInv, OnLeaveGame, conn[Head(outChan)].id # None
    PROVE  \E p \in Player : LeaveStep(p, players[p].client)
<1> USE DEF LinksInv
<1> DEFINE h == Head(outChan)
           p == conn[h].id
           c == players[p].client
           told == c # None /\ (conn[c].open \/ conn[c].closing)
<1>1. /\ conn \in [Conn -> ConnState] /\ outChan \in Seq(Conn)
      /\ players \in [Player -> PlayerState]
    BY DEF TypeOK, ConnTypeOK
<1>2. outChan # <<>> /\ loop = "running" /\ UNCHANGED <<loop, game, inChan, msgQ>>
    BY DEF OnLeaveGame
<1>3. /\ h \in Range(outChan) /\ h \in Conn /\ Tail(outChan) \in Seq(Conn)
      /\ Distinct(Tail(outChan)) /\ Range(Tail(outChan)) = Range(outChan) \ {h}
    BY <1>1, <1>2, TailDistinct DEF ChannelsAreSound
<1>4. p \in Player BY <1>1, <1>3 DEF ConnState
<1>5. /\ players' = [players EXCEPT ![p] = CleanedUp(p)]
      /\ conn' = IF c = None THEN conn ELSE [conn EXCEPT ![c].open = FALSE, ![c].closing = FALSE]
      /\ outChan' = Tail(outChan) \o (IF told THEN <<c>> ELSE <<>>)
      /\ seen' = [seen EXCEPT ![p] = Nothing]
    BY DEF OnLeaveGame
<1>6. c \in Conn \cup {None} BY <1>1, <1>4 DEF PlayerState
<1>7. told <=> c \in Conn /\ (conn[c].open \/ conn[c].closing) BY <1>6, ConnAssumption
<1> HIDE DEF h, c, told
<1>8. /\ \A d \in Conn \ {c} : conn'[d] = conn[d]
      /\ c \in Conn =>
           /\ conn'[c].at = conn[c].at /\ ~conn'[c].open /\ ~conn'[c].closing
           /\ conn'[c].id = conn[c].id /\ conn'[c].told = conn[c].told
           /\ conn'[c].early = conn[c].early
      /\ conn' \in [Conn -> ConnState]
    <2>1. CASE c = None BY <1>1, <1>5, <2>1, ConnAssumption
    <2>2. CASE c \in Conn
        <3>1. conn' = [conn EXCEPT ![c].open = FALSE, ![c].closing = FALSE]
            BY <1>5, <2>2, ConnAssumption
        <3>2. conn[c] \in ConnState BY <1>1, <2>2
        <3>3. conn' \in [Conn -> ConnState] BY <1>1, <2>2, <3>1, <3>2 DEF ConnState
        <3>4. \A d \in Conn \ {c} : conn'[d] = conn[d] BY <1>1, <3>1
        <3>5. /\ conn'[c].at = conn[c].at /\ ~conn'[c].open /\ ~conn'[c].closing
              /\ conn'[c].id = conn[c].id /\ conn'[c].told = conn[c].told
              /\ conn'[c].early = conn[c].early
            BY <1>1, <2>2, <3>1, <3>2 DEF ConnState
        <3>6. QED BY <3>3, <3>4, <3>5
    <2>3. QED BY <1>6, <2>1, <2>2
<1> DEFINE new == IF c \in Conn /\ (conn[c].open \/ conn[c].closing) THEN {c} ELSE {}
<1>9. /\ outChan' \in Seq(Conn) /\ Distinct(outChan')
      /\ Range(outChan') = (Range(outChan) \ {h}) \cup new
    <2>1. CASE told
        <3>1. c \in Conn /\ c \notin Range(outChan) BY <1>7, <2>1 DEF ChannelsAreSound
        <3>2. outChan' = Tail(outChan) \o <<c>> BY <1>5, <2>1
        <3>3. <<c>> \in Seq(Conn) /\ Distinct(<<c>>) /\ Range(<<c>>) = {c} BY <3>1, OneElement
        <3>4. \A e \in Range(<<c>>) : e \notin Range(Tail(outChan)) BY <1>3, <3>1, <3>3
        <3>5. /\ Tail(outChan) \o <<c>> \in Seq(Conn) /\ Distinct(Tail(outChan) \o <<c>>)
              /\ Range(Tail(outChan) \o <<c>>) = Range(Tail(outChan)) \cup Range(<<c>>)
            BY <1>3, <3>3, <3>4, ConcatDistinct
        <3>6. new = {c} BY <1>7, <2>1
        <3>7. QED BY <1>3, <3>2, <3>3, <3>5, <3>6
    <2>2. CASE ~told
        <3>1. outChan' = Tail(outChan) \o <<>> BY <1>5, <2>2
        <3>2. outChan' = Tail(outChan) BY <1>3, <3>1, ConcatEmptySeq
        <3>3. new = {} BY <1>7, <2>2
        <3>4. QED BY <1>3, <3>2, <3>3
    <2>3. QED BY <2>1, <2>2
<1>10. conn[Head(outChan)].id = p BY DEF h
<1>11. LeaveStep(p, c) BY <1>2, <1>5, <1>8, <1>9, <1>10 DEF LeaveStep, h
<1>12. QED BY <1>4, <1>11 DEF c

\* Such a leave keeps the connections' invariant.
LEMMA LeaveKeepsLinks ==
    ASSUME TypeOK, LinksInv, NEW p \in Player, LeaveStep(p, players[p].client)
    PROVE  TypeOK' /\ LinksInv'
<1> USE DEF LinksInv
<1> DEFINE h == Head(outChan)
           c == players[p].client
           new == IF c \in Conn /\ (conn[c].open \/ conn[c].closing) THEN {c} ELSE {}
<1>1. /\ conn \in [Conn -> ConnState] /\ inChan \in Seq(Conn) /\ outChan \in Seq(Conn)
      /\ players \in [Player -> PlayerState] /\ seen \in [Player -> Seen]
    BY DEF TypeOK, ConnTypeOK
<1>2. /\ loop = "running" /\ outChan # <<>> /\ UNCHANGED <<loop, game, inChan, msgQ>>
      /\ players' = [players EXCEPT ![p] = CleanedUp(p)] /\ seen' = [seen EXCEPT ![p] = Nothing]
      /\ conn[h].id = p
    BY DEF LeaveStep
<1>3. /\ \A d \in Conn \ {c} : conn'[d] = conn[d]
      /\ c \in Conn =>
           /\ conn'[c].at = conn[c].at /\ ~conn'[c].open /\ ~conn'[c].closing
           /\ conn'[c].id = conn[c].id /\ conn'[c].told = conn[c].told
           /\ conn'[c].early = conn[c].early
      /\ conn' \in [Conn -> ConnState]
    BY DEF LeaveStep
<1>4. /\ outChan' \in Seq(Conn) /\ Distinct(outChan')
      /\ Range(outChan') = (Range(outChan) \ {h}) \cup new
    BY DEF LeaveStep
<1>5. new \subseteq Conn /\ (\A d \in new : d = c) OBVIOUS
<1>6. h \in Range(outChan) /\ h \in Conn
    BY <1>1, <1>2, TailDistinct DEF ChannelsAreSound
<1>7. /\ players' \in [Player -> PlayerState] /\ seen' \in [Player -> Seen]
      /\ players'[p].client = None /\ ~players'[p].online
      /\ \A q \in Player \ {p} : players'[q] = players[q]
    <2>1. CleanedUp(p) \in PlayerState /\ CleanedUp(p).client = None /\ ~CleanedUp(p).online
        BY <1>1 DEF PlayerState, CleanedUp
    <2>2. Nothing \in Seen BY EmptySeq DEF Nothing, Seen
    <2>3. QED BY <1>1, <1>2, <2>1, <2>2
<1>8. \A d \in Conn : /\ conn'[d].at = conn[d].at /\ conn'[d].id = conn[d].id
                      /\ conn'[d].early = conn[d].early /\ conn'[d].told = conn[d].told
                      /\ conn'[d].open => conn[d].open
                      /\ conn'[d].closing => conn[d].closing
    BY <1>3
<1>9. /\ Range(outChan) \subseteq Conn /\ Waiting \subseteq Conn
    BY <1>1, RangeOf DEF Waiting
<1>10. c \in Conn => c \in Clients(Player) /\ conn[c].at = "game" /\ conn[c].id = p /\ c \notin Waiting
    <2>1. c \in Conn => c \in Clients(Player) BY ConnAssumption DEF Clients
    <2>2. c \in Conn => conn[c].at = "game" /\ conn[c].id = p
        BY ConnAssumption DEF ClientsAreTheirs
    <2>3. QED BY <2>1, <2>2 DEF ChannelsAreSound
<1>11. c \in Conn \cup {None} BY <1>1 DEF PlayerState
<1> HIDE DEF h, c, new
<1>12. TypeOK' BY <1>1, <1>2, <1>3, <1>4, <1>7 DEF TypeOK, ConnTypeOK
<1>13. Waiting' = Waiting /\ Clients(Player)' \subseteq Clients(Player)
    <2>1. Waiting' = Waiting BY <1>2 DEF Waiting
    <2>2. ASSUME NEW q \in Player, players'[q].client # None
          PROVE  players'[q].client \in Clients(Player)
        <3>1. q # p BY <1>7, <2>2
        <3>2. QED BY <1>7, <2>2, <3>1 DEF Clients
    <2>3. QED BY <2>1, <2>2 DEF Clients
<1>14. ChannelsAreSound'
    <2>1. \A d \in Range(outChan') :
              conn'[d].at = "game" /\ ~conn'[d].open /\ ~conn'[d].closing
        <3> TAKE d \in Range(outChan')
        <3>1. CASE d \in Range(outChan) BY <1>8, <1>9, <3>1 DEF ChannelsAreSound
        <3>2. CASE d \in new BY <1>3, <1>5, <1>10, <3>2
        <3>3. QED BY <1>4, <3>1, <3>2
    <2>2. \A d \in Waiting :
              /\ conn'[d].at = "game" /\ conn'[d].id # None /\ d \notin Clients(Player)'
              /\ conn'[d].open \/ conn'[d].early
        <3> TAKE d \in Waiting
        <3>1. d \in Conn /\ d # c BY <1>9, <1>10
        <3>2. conn'[d] = conn[d] BY <1>3, <3>1
        <3>3. QED BY <1>13, <3>2 DEF ChannelsAreSound
    <2>3. Distinct(inChan') BY <1>2 DEF ChannelsAreSound
    <2>4. QED BY <1>4, <1>13, <2>1, <2>2, <2>3 DEF ChannelsAreSound
<1>15. ConnsAreSound'
    <2> SUFFICES ASSUME NEW d \in Conn
                 PROVE  /\ conn'[d].at = "free" => ~conn'[d].open /\ ~conn'[d].early /\ conn'[d].id = None
                        /\ conn'[d].at = "router" =>
                              conn'[d].id # None /\ (conn'[d].open \/ conn'[d].early)
                        /\ conn'[d].at # "game" => ~conn'[d].closing /\ ~conn'[d].told
                        /\ conn'[d].open => ~conn'[d].closing /\ ~conn'[d].early
        BY DEF ConnsAreSound
    <2>1. CASE d = c BY <1>3, <1>10, <2>1 DEF ConnsAreSound
    <2>2. CASE d # c BY <1>3, <2>2 DEF ConnsAreSound
    <2>3. QED BY <2>1, <2>2
<1>16. ClientsAreTheirs'
    <2> SUFFICES ASSUME NEW q \in Player
                 PROVE  /\ players'[q].online => players'[q].client # None
                        /\ players'[q].client # None =>
                              conn'[players'[q].client].at = "game" /\ conn'[players'[q].client].id = q
        BY DEF ClientsAreTheirs
    <2>1. CASE q = p BY <1>7, <2>1
    <2>2. CASE q # p
        <3>1. players'[q] = players[q] BY <1>7, <2>2
        <3>2. players[q].client \in Conn \cup {None} BY <1>1 DEF PlayerState
        <3>3. QED BY <1>8, <3>1, <3>2 DEF ClientsAreTheirs
    <2>3. QED BY <2>1, <2>2
<1>17. OnlineIsConnected'
    <2> SUFFICES ASSUME NEW q \in Player, players'[q].online
                 PROVE  LET d == players'[q].client IN
                        \/ conn'[d].open \/ conn'[d].closing
                        \/ d \in Range(outChan') \/ conn'[d].early
        BY DEF OnlineIsConnected, Online
    <2>1. q # p BY <1>7
    <2>2. players'[q] = players[q] /\ players[q].online BY <1>7, <2>1
    <2> DEFINE d == players[q].client
    <2>3. d \in Conn BY <2>2, ClientOpens
    <2>4. conn[d].id = q BY <2>2 DEF ClientsAreTheirs
    <2>5. d # c /\ d # h BY <1>2, <1>10, <2>1, <2>3, <2>4
    <2>6. conn'[d] = conn[d] BY <1>3, <2>3, <2>5
    <2>7. conn[d].open \/ conn[d].closing \/ d \in Range(outChan) \/ conn[d].early
        BY <2>2 DEF OnlineIsConnected, Online
    <2>8. QED BY <1>4, <2>2, <2>5, <2>6, <2>7
<1>18. StuckNeedsManyConns'
    <2>1. {d \in Conn : conn'[d].at = "game"} = {d \in Conn : conn[d].at = "game"} BY <1>8
    <2>2. QED BY <1>2, <2>1 DEF StuckNeedsManyConns
<1>19. OnlyTheirs'
    <2> SUFFICES ASSUME game.state \in Going, \A d \in Conn : ~conn'[d].early,
                        NEW d \in Conn \ Waiting, conn'[d].at = "game", conn'[d].id # None
                 PROVE  \/ players'[conn'[d].id].client = d
                        \/ ~conn'[d].open /\ ~conn'[d].closing /\ d \notin Range(outChan')
        BY <1>2, <1>13 DEF OnlyTheirs, Going
    <2>1. \A e \in Conn : ~conn[e].early BY <1>8
    <2>2. conn[d].at = "game" /\ conn[d].id # None /\ conn'[d].id = conn[d].id BY <1>8
    <2>3. conn[d].id \in Player BY <1>1, <2>2 DEF ConnState
    <2>4. \A e \in Conn \ Waiting : conn[e].at = "game" /\ conn[e].id # None =>
              \/ players[conn[e].id].client = e
              \/ ~conn[e].open /\ ~conn[e].closing /\ e \notin Range(outChan)
        BY <1>2, <2>1 DEF OnlyTheirs, Going
    <2>5. h = c
        <3>1. conn[h].at = "game" /\ ~conn[h].open /\ conn[h].id = p /\ p # None
            BY <1>2, <1>6, ConnAssumption DEF ChannelsAreSound
        <3>2. h \notin Waiting BY <1>6, <2>1, <3>1 DEF ChannelsAreSound
        <3>3. players[p].client = h BY <1>6, <2>4, <3>1, <3>2
        <3>4. QED BY <3>3 DEF c
    <2>6. new = {} BY <1>6, <2>5 DEF new, ChannelsAreSound
    <2>7. CASE conn[d].id = p
        <3>1. players[p].client = d =>  d = c BY DEF c
        <3>2. d = c \/ (~conn[d].open /\ ~conn[d].closing /\ d \notin Range(outChan))
            BY <2>2, <2>4, <2>7, <3>1
        <3>3. d = c => ~conn'[d].open /\ ~conn'[d].closing /\ d \notin Range(outChan')
            BY <1>3, <1>4, <2>5, <2>6
        <3>4. d # c => ~conn'[d].open /\ ~conn'[d].closing /\ d \notin Range(outChan')
            BY <1>3, <1>4, <2>6, <3>2
        <3>5. QED BY <3>3, <3>4
    <2>8. CASE conn[d].id # p
        <3>1. players'[conn[d].id] = players[conn[d].id] BY <1>7, <2>3, <2>8
        <3>2. QED BY <1>4, <1>8, <2>2, <2>4, <2>6, <3>1
    <2>9. QED BY <2>7, <2>8
<1>20. QED BY <1>12, <1>14, <1>15, <1>16, <1>17, <1>18, <1>19

-----------------------------------------------------------------------------
(* Every step. *)

\* The kinds of step there are, by what they do to connections and players.
LEMMA EveryStep ==
    ASSUME TypeOK, LinksInv, [Next]_vars
    PROVE  \/ UNCHANGED vars
           \/ \E c \in Conn : Hand(c) /\ UNCHANGED gameVars
           \/ \E c \in Conn : Drop(c) /\ UNCHANGED gameVars
           \/ \E c \in Conn : OnClose(c) /\ UNCHANGED gameVars
           \/ \E c \in Conn, p \in Player : Identify(c, p) /\ UNCHANGED gameVars
           \/ \E c \in Conn, kind \in Kind : Receive(c, kind) /\ UNCHANGED gameVars
           \/ GetsStuck
           \/ \E p \in Player, c \in Conn, C \in SUBSET Conn :
                  conn[c].id = p /\ JoinStep(p, c, players[p].client, C)
           \/ OnLeaveGame /\ conn[Head(outChan)].id = None
           \/ \E p \in Player : OnLeaveGame /\ LeaveStep(p, players[p].client)
           \/ OnProcessMsg /\ Quiet /\ \E C \in SUBSET Conn : Plain(C)
           \/ /\ msgQ' = msgQ /\ Quiet /\ \E C \in SUBSET Conn : Plain(C)
              /\ \A p \in Player : players'[p].ready => players[p].ready
           \/ msgQ' = msgQ /\ \E C \in SUBSET Conn : Plain(C) /\ StartStep(C)
           \/ /\ msgQ' = msgQ
              /\ \E P \in SUBSET Player, C \in SUBSET Conn : Plain(C) /\ FrameStep(P, C)
<1> USE DEF LinksInv
<1>1. CASE UNCHANGED vars BY <1>1
<1>2. CASE ConnStep BY <1>2 DEF ConnStep
<1>3. CASE OnProcessMsg BY <1>3, OnProcessMsgIsPlain
<1>4. CASE OnJoinGame
    <2>1. CASE game.state \in Going BY <1>4, <2>1, JoinIsStep
    <2>2. CASE game.state \notin Going
        <3>1. msgQ' = msgQ /\ players' = players BY <1>4, <2>2 DEF OnJoinGame, TooLate, Going
        <3>2. QED BY <1>4, <2>2, <3>1, EndIsQuiet
    <2>3. QED BY <2>1, <2>2
<1>5. CASE OnLeaveGame BY <1>5, LeaveIsStep
<1>6. CASE Tick
    <2>1. UNCHANGED <<loop, inChan, msgQ>> BY <1>6 DEF Tick
    <2>2. CASE EntersLoading \/ NobodyReady \/ Over \/ OnGameOver
        <3>1. players' = players
            BY <2>2 DEF EntersLoading, NobodyReady, Over, OnGameOver
        <3>2. QED BY <2>1, <2>2, <3>1, TickIsQuiet
    <2>3. CASE OnGameStart BY <2>1, <2>3, StartIsPlain
    <2>4. CASE OnFrame BY <2>1, <2>4, FrameIsPlain
    <2>5. QED BY <1>6, <2>2, <2>3, <2>4 DEF Tick
<1>7. CASE Stops \/ TimeOut \/ ForceExit \/ QuitsLater
    <2>1. msgQ' = msgQ /\ players' = players
        BY <1>7 DEF Stops, TimeOut, Quits, ForceExit, QuitsLater, LeavesLoop, connVars
    <2>2. QED BY <1>7, <2>1, EndIsQuiet
<1>8. CASE OnCleanup
    <2>1. msgQ' = msgQ BY <1>8 DEF OnCleanup
    <2>2. ASSUME NEW p \in Player PROVE ~players'[p].ready
        <3>1. players[p] \in PlayerState BY DEF TypeOK
        <3>2. players'[p] = CleanedUp(p) BY <1>8 DEF OnCleanup
        <3>3. QED BY <3>1, <3>2 DEF CleanedUp, PlayerState
    <2>3. QED BY <1>8, <2>1, <2>2, CleanupIsQuiet
<1>9. CASE GetsStuck BY <1>9
<1>10. QED BY <1>1, <1>2, <1>3, <1>4, <1>5, <1>6, <1>7, <1>8, <1>9 DEF Next, GameStep

\* Types and connections are sound after every step.
LEMMA LinksAreKept ==
    ASSUME TypeOK, LinksInv, [Next]_vars
    PROVE  TypeOK' /\ LinksInv'
<1>1. CASE UNCHANGED vars
    <2>1. UNCHANGED <<conn, inChan, outChan, msgQ, loop, game, players, seen>>
        BY <1>1 DEF vars, connVars, gameVars
    <2>2. Clients(Player)' = Clients(Player) /\ Waiting' = Waiting /\ Online' = Online
        BY <2>1 DEF Clients, Waiting, Online
    <2>3. TypeOK' BY <2>1 DEF TypeOK, ConnTypeOK
    <2>4. ChannelsAreSound' BY <2>1, <2>2 DEF LinksInv, ChannelsAreSound
    <2>5. ConnsAreSound' /\ ClientsAreTheirs'
        BY <2>1 DEF LinksInv, ConnsAreSound, ClientsAreTheirs
    <2>6. OnlineIsConnected' BY <2>1, <2>2 DEF LinksInv, OnlineIsConnected
    <2>7. StuckNeedsManyConns' BY <2>1 DEF LinksInv, StuckNeedsManyConns
    <2>8. OnlyTheirs' BY <2>1, <2>2 DEF LinksInv, OnlyTheirs
    <2>9. QED BY <2>3, <2>4, <2>5, <2>6, <2>7, <2>8 DEF LinksInv
<1>2. CASE \E c \in Conn : Hand(c) /\ UNCHANGED gameVars BY <1>2, HandKeepsLinks
<1>3. CASE \E c \in Conn : Drop(c) /\ UNCHANGED gameVars BY <1>3, ReceiveAndDropKeepLinks
<1>4. CASE \E c \in Conn : OnClose(c) /\ UNCHANGED gameVars BY <1>4, OnCloseKeepsLinks
<1>5. CASE \E c \in Conn, p \in Player : Identify(c, p) /\ UNCHANGED gameVars
    BY <1>5, ReceiveAndDropKeepLinks
<1>6. CASE \E c \in Conn, kind \in Kind : Receive(c, kind) /\ UNCHANGED gameVars
    BY <1>6, ReceiveAndDropKeepLinks
<1>7. CASE GetsStuck BY <1>7, StuckKeepsLinks
<1>8. CASE \E p \in Player, c \in Conn, C \in SUBSET Conn :
               conn[c].id = p /\ JoinStep(p, c, players[p].client, C)
    BY <1>8, JoinKeepsLinks
<1>9. CASE OnLeaveGame /\ conn[Head(outChan)].id = None BY <1>9, LeaveOfNobody
<1>10. CASE \E p \in Player : LeaveStep(p, players[p].client) BY <1>10, LeaveKeepsLinks
<1>11. CASE \E C \in SUBSET Conn : Plain(C) BY <1>11, PlainKeepsLinks
<1>12. QED
    BY <1>1, <1>2, <1>3, <1>4, <1>5, <1>6, <1>7, <1>8, <1>9, <1>10, <1>11, EveryStep

\* At the start nothing is connected.
LEMMA LinksAtFirst ==
    ASSUME Init PROVE TypeOK /\ LinksInv
<1> USE DEF Init, ConnInit
<1>1. TypeOK
    <2>1. Nothing \in Seen BY EmptySeq DEF Nothing, Seen
    <2>2. <<>> \in Seq(Conn) /\ <<>> \in Seq(Message) BY EmptySeq
    <2>3. conn \in [Conn -> ConnState] BY DEF ConnState
    <2>4. 0 \in 0 .. MaxFrame + 1 BY GameAssumption
    <2>5. players \in [Player -> PlayerState] BY <2>4 DEF PlayerState
    <2>6. game \in Game BY <2>4 DEF Game
    <2>7. seen \in [Player -> Seen] BY <2>1
    <2>8. QED BY <2>2, <2>3, <2>5, <2>6, <2>7 DEF TypeOK, ConnTypeOK, Phase
<1>2. DOMAIN <<>> = {} /\ Range(<<>>) = {} BY DEF Range
<1>3. Waiting = {} /\ Range(outChan) = {} BY <1>2 DEF Waiting
<1>4. ChannelsAreSound BY <1>2, <1>3 DEF ChannelsAreSound, Distinct
<1>5. ConnsAreSound BY DEF ConnsAreSound
<1>6. ClientsAreTheirs BY DEF ClientsAreTheirs
<1>7. OnlineIsConnected BY DEF OnlineIsConnected, Online
<1>8. StuckNeedsManyConns BY DEF StuckNeedsManyConns
<1>9. OnlyTheirs BY DEF OnlyTheirs
<1>10. QED BY <1>1, <1>4, <1>5, <1>6, <1>7, <1>8, <1>9 DEF LinksInv

-----------------------------------------------------------------------------
(* Frames. *)

\* What SentIsWritten and FramesInOrder say of a player who has been written w and whose
\* connection is open or not.
PlayerInv(g, pl, w, open) ==
    /\ pl.sent <= g.frame
    /\ g.state = "ready" => g.frame = 0 /\ w = Nothing
    /\ pl.online /\ ~pl.ready => w.frames = <<>>
    /\ g.state = "gaming" /\ pl.online /\ pl.ready /\ open
          => w.start /\ Len(w.frames) = IF pl.sent = 0 THEN 0 ELSE pl.sent - 1
    /\ w.frames # <<>> => w.start
    /\ w.frames = [i \in 1 .. Len(w.frames) |-> i]
    /\ w.frames # <<>> /\ pl.online /\ open => Len(w.frames) = pl.sent - 1

\* That is all they say.
LEMMA FramesByPlayer ==
    SentIsWritten /\ FramesInOrder <=>
        \A p \in Player : PlayerInv(game, players[p], seen[p], conn[players[p].client].open)
BY DEF SentIsWritten, FramesInOrder, PlayerInv

\* Also after a step.
LEMMA FramesByPlayerAfter ==
    ASSUME \A p \in Player :
               PlayerInv(game', players'[p], seen'[p], conn'[players'[p].client].open)
    PROVE  SentIsWritten' /\ FramesInOrder'
BY DEF SentIsWritten, FramesInOrder, PlayerInv

\* What has been written to no one.
LEMMA NothingIsFine ==
    ASSUME NEW g, NEW pl, NEW open, pl.sent <= g.frame, g.state = "ready" => g.frame = 0,
           pl.online => ~pl.ready
    PROVE  PlayerInv(g, pl, Nothing, open)
<1>1. Nothing.frames = <<>> BY DEF Nothing
<1>2. Len(<<>>) = 0 OBVIOUS
<1>3. <<>> = [i \in 1 .. 0 |-> i] OBVIOUS
<1>4. QED BY <1>1, <1>2, <1>3 DEF PlayerInv

\* A step that writes none.
LEMMA QuietKeepsFrames ==
    ASSUME SentIsWritten, FramesInOrder, Quiet PROVE SentIsWritten' /\ FramesInOrder'
<1> SUFFICES ASSUME NEW p \in Player
             PROVE  PlayerInv(game', players'[p], seen'[p], conn'[players'[p].client].open)
    BY FramesByPlayerAfter
<1>1. PlayerInv(game, players[p], seen[p], conn[players[p].client].open) BY FramesByPlayer
<1>2. seen'[p] = seen[p] /\ game'.frame = game.frame /\ players'[p].sent = players[p].sent
    BY DEF Quiet
<1>3. game'.state = "ready" => game.state = "ready" BY DEF Quiet, Going
<1>4. game'.state = "gaming" => game.state = "gaming" BY DEF Quiet, Going
<1>5. CASE ~players'[p].online BY <1>1, <1>2, <1>3, <1>4, <1>5 DEF PlayerInv
<1>6. CASE players'[p].online
    <2>1. /\ players[p].online /\ players'[p].client = players[p].client
          /\ players[p].ready => players'[p].ready
          /\ game.state # "ready" => players'[p].ready = players[p].ready
          /\ conn'[players[p].client].open => conn[players[p].client].open
        BY <1>6 DEF Quiet
    <2>2. QED BY <1>1, <1>2, <1>3, <1>4, <2>1 DEF PlayerInv
<1>7. QED BY <1>5, <1>6

\* A connection's own step writes nothing.
LEMMA ConnIsQuiet ==
    ASSUME TypeOK, LinksInv, UNCHANGED gameVars, NEW c \in Conn,
           \/ Hand(c) \/ Drop(c) \/ OnClose(c)
           \/ \E p \in Player : Identify(c, p)
           \/ \E kind \in Kind : Receive(c, kind)
    PROVE  Quiet
<1>1. conn \in [Conn -> ConnState] /\ conn[c] \in ConnState BY DEF TypeOK, ConnTypeOK
<1>2. /\ \A d \in Conn \ {c} : conn'[d].open = conn[d].open
      /\ conn[c].at # "free" => (conn'[c].open => conn[c].open)
    <2>1. CASE Hand(c) BY <1>1, <2>1 DEF Hand, ConnState
    <2>2. CASE Drop(c) BY <1>1, <2>2 DEF Drop, ConnState
    <2>3. CASE OnClose(c) BY <1>1, <2>3 DEF OnClose, ConnState
    <2>4. CASE \E p \in Player : Identify(c, p) BY <1>1, <2>4 DEF Identify, ConnState
    <2>5. CASE \E kind \in Kind : Receive(c, kind) BY <1>1, <2>5 DEF Receive, ConnState
    <2>6. QED BY <2>1, <2>2, <2>3, <2>4, <2>5
<1>3. ASSUME NEW p \in Player, players[p].online, conn'[players[p].client].open
      PROVE  conn[players[p].client].open
    <2>1. players[p].client \in Conn BY <1>3, ClientOpens DEF LinksInv
    <2>2. conn[players[p].client].at = "game"
        BY <2>1, ConnAssumption DEF LinksInv, ClientsAreTheirs
    <2>3. QED BY <1>2, <1>3, <2>1, <2>2
<1>4. QED BY <1>3 DEF Quiet, gameVars

\* A new connection has been written nothing.
LEMMA JoinKeepsFrames ==
    ASSUME TypeOK, LinksInv, SentIsWritten, FramesInOrder,
           NEW p \in Player, NEW c \in Conn, NEW C \in SUBSET Conn,
           JoinStep(p, c, players[p].client, C)
    PROVE  SentIsWritten' /\ FramesInOrder'
<1> SUFFICES ASSUME NEW q \in Player
             PROVE  PlayerInv(game', players'[q], seen'[q], conn'[players'[q].client].open)
    BY FramesByPlayerAfter
<1>1. PlayerInv(game, players[q], seen[q], conn[players[q].client].open) BY FramesByPlayer
<1>2. /\ players \in [Player -> PlayerState] /\ seen \in [Player -> Seen]
      /\ players[p].client \in Conn \cup {None} /\ ConnTypeOK
    BY DEF TypeOK, PlayerState
<1>3. /\ game' = game
      /\ players' = [players EXCEPT ![p].client = c, ![p].online = TRUE, ![p].ready = FALSE]
      /\ seen' = [seen EXCEPT ![p] = Nothing]
      /\ Shut(C, players[p].client)
    BY DEF JoinStep
<1>4. CASE q = p
    <2>1. players'[p].sent = players[p].sent /\ ~players'[p].ready /\ seen'[p] = Nothing
        BY <1>2, <1>3 DEF PlayerState
    <2>2. players[p].sent <= game.frame /\ (game.state = "ready" => game.frame = 0)
        BY <1>1, <1>4 DEF PlayerInv
    <2>3. QED BY <1>3, <1>4, <2>1, <2>2, NothingIsFine
<1>5. CASE q # p
    <2>1. players'[q] = players[q] /\ seen'[q] = seen[q] BY <1>2, <1>3, <1>5
    <2>2. CASE ~players[q].online BY <1>1, <1>3, <2>1, <2>2 DEF PlayerInv
    <2>3. CASE players[q].online
        <3>1. players[q].client \in Conn BY <2>3, ClientOpens DEF LinksInv
        <3>2. conn'[players[q].client].open => conn[players[q].client].open
            BY <1>2, <1>3, <3>1, ShutFacts
        <3>3. QED BY <1>1, <1>3, <2>1, <3>2 DEF PlayerInv
    <2>4. QED BY <2>2, <2>3
<1>6. QED BY <1>4, <1>5

\* Nor has a player who has none.
LEMMA LeaveKeepsFrames ==
    ASSUME TypeOK, LinksInv, SentIsWritten, FramesInOrder,
           NEW p \in Player, LeaveStep(p, players[p].client)
    PROVE  SentIsWritten' /\ FramesInOrder'
<1> SUFFICES ASSUME NEW q \in Player
             PROVE  PlayerInv(game', players'[q], seen'[q], conn'[players'[q].client].open)
    BY FramesByPlayerAfter
<1>1. PlayerInv(game, players[q], seen[q], conn[players[q].client].open) BY FramesByPlayer
<1>2. players \in [Player -> PlayerState] /\ seen \in [Player -> Seen] BY DEF TypeOK
<1>3. /\ game' = game /\ players' = [players EXCEPT ![p] = CleanedUp(p)]
      /\ seen' = [seen EXCEPT ![p] = Nothing]
    BY DEF LeaveStep
<1>4. CASE q = p
    <2>1. players'[p].sent = players[p].sent /\ ~players'[p].ready /\ seen'[p] = Nothing
        BY <1>2, <1>3 DEF PlayerState, CleanedUp
    <2>2. players[p].sent <= game.frame /\ (game.state = "ready" => game.frame = 0)
        BY <1>1, <1>4 DEF PlayerInv
    <2>3. QED BY <1>3, <1>4, <2>1, <2>2, NothingIsFine
<1>5. CASE q # p
    <2>1. players'[q] = players[q] /\ seen'[q] = seen[q] BY <1>2, <1>3, <1>5
    <2>2. CASE ~players[q].online BY <1>1, <1>3, <2>1, <2>2 DEF PlayerInv
    <2>3. CASE players[q].online
        <3>1. players[q].client \in Conn BY <2>3, ClientOpens DEF LinksInv
        <3>2. conn'[players[q].client].open => conn[players[q].client].open
            BY <3>1 DEF LeaveStep
        <3>3. QED BY <1>1, <1>3, <2>1, <3>2 DEF PlayerInv
    <2>4. QED BY <2>2, <2>3
<1>6. QED BY <1>4, <1>5

\* The start is written to everyone who is connected, or they are not afterwards.
LEMMA StartKeepsFrames ==
    ASSUME TypeOK, LinksInv, SentIsWritten, FramesInOrder, NEW C \in SUBSET Conn, StartStep(C)
    PROVE  SentIsWritten' /\ FramesInOrder'
<1> SUFFICES ASSUME NEW p \in Player
             PROVE  PlayerInv(game', players'[p], seen'[p], conn'[players'[p].client].open)
    BY FramesByPlayerAfter
<1> DEFINE got == [q \in Player |-> [seen[q] EXCEPT !.start = TRUE]]
           c == players[p].client
           writes == /\ p \in Player /\ players[p].online /\ c # None
                     /\ conn[c].open /\ c \notin C
<1>1. PlayerInv(game, players[p], seen[p], conn[c].open) BY FramesByPlayer
<1>2. players \in [Player -> PlayerState] /\ seen \in [Player -> Seen] /\ ConnTypeOK
    BY DEF TypeOK
<1>3. /\ game.state = "ready" /\ game'.state = "gaming" /\ game'.frame = 0
      /\ players'[p].sent = players[p].sent /\ players'[p].ready
      /\ players'[p].client = c /\ players'[p].online = players[p].online
      /\ Wrote(Player, got, C)
    BY DEF StartStep
<1>4. /\ seen'[p] = IF writes THEN got[p] ELSE seen[p]
      /\ Shut(C, None)
    BY <1>3 DEF Wrote
<1>5. seen[p] = Nothing /\ players[p].sent = 0
    <2>1. players[p].sent \in Nat BY <1>2, GameAssumption DEF PlayerState
    <2>2. QED BY <1>1, <1>3, <2>1 DEF PlayerInv
<1>6. seen'[p].frames = <<>> /\ (writes => seen'[p].start)
    <2>1. CASE writes
        <3>1. seen'[p] = [seen[p] EXCEPT !.start = TRUE] BY <1>4, <2>1
        <3>2. QED BY <1>5, <3>1 DEF Nothing
    <2>2. CASE ~writes BY <1>4, <1>5, <2>2 DEF Nothing
    <2>3. QED BY <2>1, <2>2
<1>7. players'[p].online /\ conn'[c].open => writes
    <2> SUFFICES ASSUME players'[p].online, conn'[c].open PROVE writes OBVIOUS
    <2>1. players[p].online /\ c # None /\ c \in Conn
        BY <1>3, ClientOpens, ConnAssumption DEF LinksInv
    <2>2. conn[c].open /\ c \notin C BY <1>4, <2>1, ShutOpens DEF LinksInv
    <2>3. QED BY <2>1, <2>2
<1>8. Len(<<>>) = 0 /\ <<>> = [i \in 1 .. 0 |-> i] OBVIOUS
<1> HIDE DEF writes, c
<1>9. QED BY <1>3, <1>5, <1>6, <1>7, <1>8 DEF PlayerInv

\* Frames that follow those that were written.
LEMMA FramesGoOn ==
    ASSUME NEW S, NEW w \in Seq(S), w = [i \in 1 .. Len(w) |-> i],
           NEW m \in Seq(S), \A i \in 1 .. Len(m) : m[i] = Len(w) + i
    PROVE  w \o m = [i \in 1 .. Len(w \o m) |-> i]
<1> DEFINE k == Len(w)
           n == Len(m)
<1>1. k \in Nat /\ n \in Nat BY LenProperties
<1>2. /\ w \o m \in Seq(S) /\ Len(w \o m) = k + n
      /\ \A i \in 1 .. k + n : (w \o m)[i] = IF i <= k THEN w[i] ELSE m[i - k]
    BY ConcatProperties
<1>3. DOMAIN (w \o m) = 1 .. k + n BY <1>2, LenProperties
<1>4. w \o m \in [1 .. k + n -> S] BY <1>2, LenProperties
<1> DEFINE u == w \o m
<1> HIDE DEF k, n, u
<1>5. \A i \in 1 .. k + n : u[i] = i
    <2> TAKE i \in 1 .. k + n
    <2>1. CASE i <= k
        <3>1. i \in 1 .. k BY <1>1, <2>1
        <3>2. w[i] = i BY <3>1 DEF k
        <3>3. QED BY <1>2, <2>1, <3>2 DEF u
    <2>2. CASE ~(i <= k)
        <3>1. i - k \in 1 .. n BY <1>1, <2>2
        <3>2. m[i - k] = k + (i - k) BY <3>1 DEF k, n
        <3>3. u[i] = m[i - k] BY <1>2, <2>2 DEF u
        <3>4. QED BY <1>1, <3>1, <3>2, <3>3
    <2>3. QED BY <2>1, <2>2
<1>6. u \in [1 .. k + n -> S] /\ Len(u) = k + n BY <1>2, <1>4 DEF u
<1>7. u = [i \in 1 .. k + n |-> i] BY <1>5, <1>6
<1>8. QED BY <1>6, <1>7 DEF u

\* Who is sent frames is sent those that come next, or is not connected afterwards.
LEMMA FrameKeepsFrames ==
    ASSUME TypeOK, LinksInv, SentIsWritten, FramesInOrder,
           NEW P \in SUBSET Player, NEW C \in SUBSET Conn, Plain(C), FrameStep(P, C)
    PROVE  SentIsWritten' /\ FramesInOrder'
<1> SUFFICES ASSUME NEW p \in Player
             PROVE  PlayerInv(game', players'[p], seen'[p], conn'[players'[p].client].open)
    BY FramesByPlayerAfter
<1> DEFINE count == game.frame + 1
           got == [q \in Player |-> [seen[q] EXCEPT !.frames = @ \o Missing(q, count)]]
           c == players[p].client
           w == seen[p].frames
           m == Missing(p, count)
           writes == /\ p \in P /\ m # <<>> /\ players[p].online /\ c # None
                     /\ conn[c].open /\ c \notin C
           sent == players[p].sent
           first == IF sent = 0 THEN 1 ELSE sent
<1>1. PlayerInv(game, players[p], seen[p], conn[c].open) BY FramesByPlayer
<1>2. /\ players \in [Player -> PlayerState] /\ seen \in [Player -> Seen] /\ ConnTypeOK
      /\ game \in Game /\ players[p] \in PlayerState /\ seen[p] \in Seen
    BY DEF TypeOK
<1>3. /\ game.state = "gaming" /\ game'.state = "gaming" /\ game'.frame = count
      /\ P \subseteq Receivers
      /\ players'[p] = IF p \in P THEN [players[p] EXCEPT !.sent = count] ELSE players[p]
    BY DEF FrameStep
<1>4. Wrote({q \in P : Missing(q, count) # <<>>}, got, C) BY DEF FrameStep
<1>5. /\ seen'[p] = IF writes THEN got[p] ELSE seen[p]
      /\ Shut(C, None)
    BY <1>4 DEF Wrote
<1>6. game.frame \in Nat /\ sent \in Nat /\ w \in Seq(1 .. MaxFrame)
    BY <1>2, GameAssumption DEF Game, PlayerState, Seen
<1>7. sent <= game.frame BY <1>1 DEF PlayerInv
<1>8. w = [i \in 1 .. Len(w) |-> i] /\ (w # <<>> => seen[p].start) BY <1>1 DEF PlayerInv
<1>9. /\ players'[p].client = c /\ players'[p].online = players[p].online
      /\ players'[p].ready = players[p].ready
      /\ players'[p].sent = IF p \in P THEN count ELSE sent
    BY <1>2, <1>3 DEF PlayerState
<1>10. players[p].online /\ conn'[c].open => conn[c].open /\ c \notin C /\ c # None
    <2> SUFFICES ASSUME players[p].online, conn'[c].open
                 PROVE  conn[c].open /\ c \notin C /\ c # None
        OBVIOUS
    <2>1. c # None BY ClientOpens, ConnAssumption DEF LinksInv
    <2>2. QED BY <1>5, <2>1, ShutOpens DEF LinksInv
<1> HIDE DEF count, got, c, w, m, writes, sent, first
<1>11. CASE p \notin P
    <2>1. players'[p] = players[p] /\ seen'[p] = seen[p] BY <1>3, <1>5, <1>11 DEF writes
    <2>2. sent <= count BY <1>6, <1>7 DEF count
    <2>3. QED BY <1>1, <1>3, <1>9, <1>10, <1>11, <2>1, <2>2 DEF PlayerInv, sent, c
<1>12. CASE p \in P
    <2>1. players[p].online /\ players[p].ready BY <1>3, <1>12 DEF Receivers, Online
    <2>2. CASE ~conn'[c].open
        <3>1. /\ seen'[p].frames # <<>> => seen'[p].start
              /\ seen'[p].frames = [i \in 1 .. Len(seen'[p].frames) |-> i]
            <4>1. ~writes \/ (conn[c].open /\ c \notin C) BY DEF writes
            <4>2. ~writes
                <5> SUFFICES ASSUME writes PROVE FALSE OBVIOUS
                <5>1. conn[c].open /\ c \notin C /\ c # None BY DEF writes
                <5>2. c \in Conn BY <1>2, <5>1 DEF PlayerState, c
                <5>3. conn'[c].open BY <1>2, <1>5, <5>1, <5>2, ShutFacts
                <5>4. QED BY <2>2, <5>3
            <4>3. seen'[p] = seen[p] BY <1>5, <4>2
            <4>4. QED BY <1>8, <4>3 DEF w
        <3>2. QED BY <1>3, <1>6, <1>9, <1>12, <2>1, <2>2, <3>1 DEF PlayerInv, count
    <2>3. CASE conn'[c].open
        <3>1. conn[c].open /\ c \notin C /\ c # None BY <1>10, <2>1, <2>3
        <3>2. seen[p].start /\ Len(w) = IF sent = 0 THEN 0 ELSE sent - 1
            BY <1>1, <1>3, <2>1, <3>1 DEF PlayerInv, c, w, sent
        <3>3. count \in 1 .. MaxFrame + 1
            <4>1. game' \in Game BY DEF Plain, GameTypeOK
            <4>2. count \in 0 .. MaxFrame + 1 BY <1>3, <4>1 DEF Game
            <4>3. QED BY <1>6, <4>2 DEF count
        <3>4. /\ m \in Seq(1 .. MaxFrame)
              /\ Len(m) = IF first <= count THEN count - first ELSE 0
              /\ \A i \in 1 .. Len(m) : m[i] = first + i - 1
            BY <3>3, MissingFacts DEF m, first, sent
        <3>5. Len(w) \in Nat BY <1>6, LenProperties
        <3>6. first = Len(w) + 1 /\ first <= count /\ count \in Nat /\ count # 0
            BY <1>6, <1>7, <3>2, <3>5 DEF first, count
        <3>7. Len(m) = count - (Len(w) + 1) /\ Len(m) \in Nat BY <3>4, <3>5, <3>6
        <3>8. /\ seen'[p].start /\ Len(seen'[p].frames) = count - 1
              /\ seen'[p].frames = [i \in 1 .. Len(seen'[p].frames) |-> i]
            <4>1. CASE writes
                <5>1. seen'[p] = [seen[p] EXCEPT !.frames = @ \o m]
                    BY <1>5, <4>1 DEF got, m
                <5>2. seen'[p].start = seen[p].start /\ seen'[p].frames = w \o m
                    BY <1>2, <5>1 DEF Seen, w
                <5>3. Len(w \o m) = Len(w) + Len(m) BY <1>6, <3>4, ConcatProperties
                <5>4. \A i \in 1 .. Len(m) : m[i] = Len(w) + i
                    BY <3>4, <3>5, <3>6, <3>7
                <5>5. w \o m = [i \in 1 .. Len(w \o m) |-> i]
                    <6> DEFINE S == 1 .. MaxFrame
                    <6>1. w \in Seq(S) /\ m \in Seq(S) BY <1>6, <3>4
                    <6>2. w = [i \in 1 .. Len(w) |-> i] BY <1>8
                    <6> HIDE DEF S
                    <6>3. QED BY <5>4, <6>1, <6>2, FramesGoOn
                <5>6. Len(w) + Len(m) = count - 1 BY <3>5, <3>6, <3>7
                <5>7. QED BY <3>2, <5>2, <5>3, <5>5, <5>6
            <4>2. CASE ~writes
                <5>1. m = <<>> BY <1>12, <2>1, <3>1, <4>2 DEF writes
                <5>2. Len(w) = count - 1
                    <6>1. Len(m) = 0 BY <5>1
                    <6>2. QED BY <3>5, <3>6, <3>7, <6>1
                <5>3. seen'[p] = seen[p] BY <1>5, <4>2
                <5>4. QED BY <1>8, <3>2, <5>2, <5>3 DEF w
            <4>3. QED BY <4>1, <4>2
        <3>9. players'[p].sent = count /\ players'[p].ready BY <1>9, <1>12, <2>1
        <3>10. QED BY <1>3, <1>9, <2>1, <3>6, <3>8, <3>9 DEF PlayerInv
    <2>4. QED BY <2>2, <2>3
<1>13. QED BY <1>11, <1>12

\* Frames are sound after every step.
LEMMA FramesAreKept ==
    ASSUME TypeOK, LinksInv, SentIsWritten, FramesInOrder, [Next]_vars
    PROVE  SentIsWritten' /\ FramesInOrder'
<1>1. CASE UNCHANGED vars \/ GetsStuck
    <2>1. UNCHANGED <<conn, game, players, seen>>
        BY <1>1 DEF vars, connVars, gameVars, GetsStuck
    <2>2. Quiet BY <2>1 DEF Quiet
    <2>3. QED BY <2>2, QuietKeepsFrames
<1>2. CASE \E c \in Conn : /\ UNCHANGED gameVars
                           /\ \/ Hand(c) \/ Drop(c) \/ OnClose(c)
                              \/ \E p \in Player : Identify(c, p)
                              \/ \E kind \in Kind : Receive(c, kind)
    BY <1>2, ConnIsQuiet, QuietKeepsFrames
<1>3. CASE \E p \in Player, c \in Conn, C \in SUBSET Conn :
               conn[c].id = p /\ JoinStep(p, c, players[p].client, C)
    BY <1>3, JoinKeepsFrames
<1>4. CASE OnLeaveGame /\ conn[Head(outChan)].id = None
    <2>1. UNCHANGED <<conn, game, players, seen>> BY <1>4, LeaveOfNobody
    <2>2. Quiet BY <2>1 DEF Quiet
    <2>3. QED BY <2>2, QuietKeepsFrames
<1>5. CASE \E p \in Player : LeaveStep(p, players[p].client) BY <1>5, LeaveKeepsFrames
<1>6. CASE Quiet BY <1>6, QuietKeepsFrames
<1>7. CASE \E C \in SUBSET Conn : Plain(C) /\ StartStep(C) BY <1>7, StartKeepsFrames
<1>8. CASE \E P \in SUBSET Player, C \in SUBSET Conn : Plain(C) /\ FrameStep(P, C)
    BY <1>8, FrameKeepsFrames
<1>9. QED BY <1>1, <1>2, <1>3, <1>4, <1>5, <1>6, <1>7, <1>8, EveryStep

-----------------------------------------------------------------------------
(* Who has loaded. *)

\* A message of p that says so.
Loaded(p) == [id |-> p, kind |-> "loaded"]

\* What a step may not forget.
ToldStays == \A c \in Conn :
    conn[c].told => conn'[c].told /\ conn'[c].id \in {conn[c].id, None}

\* What it may not invent.
NoneLoads == \A p \in Player :
    /\ game'.state = "ready" /\ players'[p].ready =>
           \/ game.state = "ready" /\ players[p].ready
           \/ \E i \in DOMAIN msgQ : msgQ[i] = Loaded(p)
    /\ (\E i \in DOMAIN msgQ' : msgQ'[i] = Loaded(p)) => \E i \in DOMAIN msgQ : msgQ[i] = Loaded(p)

\* A step that does neither.
LEMMA StaysTold ==
    ASSUME LoadedIsTold, ToldStays, NoneLoads PROVE LoadedIsTold'
<1> SUFFICES ASSUME NEW p \in Player,
                    \/ game'.state = "ready" /\ players'[p].ready
                    \/ \E i \in DOMAIN msgQ' : msgQ'[i] = Loaded(p)
             PROVE  \E c \in Conn : conn'[c].told /\ conn'[c].id \in {p, None}
    BY DEF LoadedIsTold, Loaded
<1>1. \/ game.state = "ready" /\ players[p].ready
      \/ \E i \in DOMAIN msgQ : msgQ[i] = Loaded(p)
    BY DEF NoneLoads
<1>2. PICK c \in Conn : conn[c].told /\ conn[c].id \in {p, None}
    BY <1>1 DEF LoadedIsTold, Loaded
<1>3. QED BY <1>2 DEF ToldStays

\* What is in a queue's tail is in the queue.
LEMMA TailInvents ==
    ASSUME NEW S, NEW s \in Seq(S), s # <<>>, NEW e, NEW i \in DOMAIN Tail(s), Tail(s)[i] = e
    PROVE  \E j \in DOMAIN s : s[j] = e
<1>1. /\ Tail(s) \in Seq(S) /\ Len(Tail(s)) = Len(s) - 1
      /\ \A j \in 1 .. Len(Tail(s)) : Tail(s)[j] = s[j + 1]
    BY HeadTailProperties
<1>2. DOMAIN Tail(s) = 1 .. Len(s) - 1 /\ DOMAIN s = 1 .. Len(s) /\ Len(s) \in Nat
    BY <1>1, LenProperties
<1> DEFINE t == Tail(s)
           n == Len(s)
<1> HIDE DEF t, n
<1>3. i \in 1 .. n - 1 /\ i + 1 \in 1 .. n BY <1>2 DEF t, n
<1>4. Tail(s)[i] = s[i + 1] BY <1>1, <1>3 DEF n
<1>5. QED BY <1>2, <1>3, <1>4 DEF n

\* Shut forgets no one.
LEMMA ShutStaysTold ==
    ASSUME TypeOK, NEW C \in SUBSET Conn, NEW f \in Conn \cup {None}, Shut(C, f)
    PROVE  ToldStays
<1>1. ConnTypeOK BY DEF TypeOK
<1>2. \A c \in Conn : conn'[c].told = conn[c].told BY <1>1, ShutFacts
<1>3. \A c \in Conn \ {f} : conn'[c].id = conn[c].id BY <1>1, ShutFacts
<1>4. f \in Conn => conn'[f].id = None BY <1>1, ShutFacts
<1>5. QED BY <1>2, <1>3, <1>4 DEF ToldStays

\* The game handles a message.
LEMMA ProcessKeepsLoaded ==
    ASSUME TypeOK, LoadedIsTold, OnProcessMsg, NEW C \in SUBSET Conn, Plain(C)
    PROVE  LoadedIsTold'
<1> DEFINE m == Head(msgQ)
<1>1. msgQ \in Seq(Message) /\ msgQ # <<>> /\ msgQ' = Tail(msgQ)
      /\ players \in [Player -> PlayerState]
    BY DEF OnProcessMsg, TypeOK, ConnTypeOK
<1>2. m \in Message /\ m.id \in Player
    <2>1. m \in Message BY <1>1, HeadTailProperties
    <2>2. QED BY <2>1 DEF Message
<1>3. 1 \in DOMAIN msgQ /\ msgQ[1] = m
    <2>1. Len(msgQ) \in Nat \ {0} BY <1>1, EmptySeq
    <2>2. DOMAIN msgQ = 1 .. Len(msgQ) BY <1>1, LenProperties
    <2>3. 1 \in 1 .. Len(msgQ) BY <2>1
    <2>4. QED BY <1>1, <2>2, <2>3
<1>4. ASSUME NEW p \in Player, game'.state = "ready", players'[p].ready
      PROVE  \/ game.state = "ready" /\ players[p].ready
             \/ m = Loaded(p)
    <2>1. CASE OnProgress(m.id, m.kind = "loaded")
        <3> DEFINE q == m.id
                   full == m.kind = "loaded"
        <3>1. game.state = "ready" BY <2>1 DEF OnProgress
        <3>2. players' = [players EXCEPT ![q].loaded = full, ![q].ready = @ \/ full]
            BY <2>1 DEF OnProgress
        <3>3. CASE full /\ p = q
            <4>1. m = [id |-> m.id, kind |-> m.kind] BY <1>2 DEF Message
            <4>2. QED BY <3>3, <4>1 DEF Loaded
        <3>4. CASE ~(full /\ p = q)
            <4>1. full \in BOOLEAN /\ q \in Player BY <1>2
            <4> HIDE DEF full, q
            <4>2. players[p] \in PlayerState BY <1>1
            <4>3. players'[p].ready => players[p].ready
                <5>1. CASE p = q BY <1>1, <3>2, <3>4, <4>1, <4>2, <5>1 DEF PlayerState
                <5>2. CASE p # q BY <1>1, <3>2, <4>1, <5>2
                <5>3. QED BY <5>1, <5>2
            <4>4. QED BY <1>4, <3>1, <4>3
        <3>5. QED BY <3>3, <3>4
    <2>2. CASE UNCHANGED <<game, players>> BY <1>4, <2>2
    <2>3. CASE OnGameOverMsg
        <3>1. game' = [game EXCEPT !.state = "over"] /\ game \in Game
            BY <2>3 DEF OnGameOverMsg, TypeOK
        <3>2. game'.state = "over" BY <3>1 DEF Game
        <3>3. QED BY <1>4, <3>2
    <2>4. QED BY <2>1, <2>2, <2>3 DEF OnProcessMsg, OnPing
<1>5. NoneLoads
    <2> SUFFICES ASSUME NEW p \in Player
                 PROVE  /\ game'.state = "ready" /\ players'[p].ready =>
                               \/ game.state = "ready" /\ players[p].ready
                               \/ \E i \in DOMAIN msgQ : msgQ[i] = Loaded(p)
                        /\ (\E i \in DOMAIN msgQ' : msgQ'[i] = Loaded(p)) =>
                               \E i \in DOMAIN msgQ : msgQ[i] = Loaded(p)
        BY DEF NoneLoads
    <2>1. game'.state = "ready" /\ players'[p].ready =>
              \/ game.state = "ready" /\ players[p].ready
              \/ \E i \in DOMAIN msgQ : msgQ[i] = Loaded(p)
        BY <1>3, <1>4
    <2>2. ASSUME NEW i \in DOMAIN msgQ', msgQ'[i] = Loaded(p)
          PROVE  \E j \in DOMAIN msgQ : msgQ[j] = Loaded(p)
        <3>1. i \in DOMAIN Tail(msgQ) /\ Tail(msgQ)[i] = Loaded(p) BY <1>1, <2>2
        <3>2. QED BY <1>1, <3>1, TailInvents
    <2>3. QED BY <2>1, <2>2
<1>6. Shut(C, None) BY DEF Plain
<1>7. ToldStays BY <1>6, ShutStaysTold
<1>8. QED BY <1>5, <1>7, StaysTold

\* A message is taken for the player's.
LEMMA ReceiveKeepsLoaded ==
    ASSUME TypeOK, LoadedIsTold, UNCHANGED gameVars, NEW c \in Conn, NEW kind \in Kind,
           Receive(c, kind)
    PROVE  LoadedIsTold'
<1>1. conn \in [Conn -> ConnState] /\ conn[c] \in ConnState /\ msgQ \in Seq(Message)
    BY DEF TypeOK, ConnTypeOK
<1> DEFINE msg == [id |-> conn[c].id, kind |-> kind]
           told == conn[c].told \/ kind = "loaded"
<1>2. msgQ' = Append(msgQ, msg) /\ conn' = [conn EXCEPT ![c].told = told] /\ conn[c].id # None
    BY DEF Receive
<1>3. \A d \in Conn : conn'[d].id = conn[d].id /\ (conn[d].told => conn'[d].told)
    BY <1>1, <1>2 DEF ConnState
<1>4. conn'[c].told = told BY <1>1, <1>2 DEF ConnState
<1>5. conn[c].id \in Player /\ msg \in Message BY <1>1, <1>2 DEF ConnState, Message
<1> HIDE DEF msg
<1>6. /\ Append(msgQ, msg) \in Seq(Message) /\ Len(Append(msgQ, msg)) = Len(msgQ) + 1
      /\ \A i \in 1 .. Len(msgQ) : Append(msgQ, msg)[i] = msgQ[i]
      /\ Append(msgQ, msg)[Len(msgQ) + 1] = msg
    BY <1>1, <1>5, AppendProperties
<1>7. DOMAIN msgQ' = 1 .. Len(msgQ) + 1 /\ DOMAIN msgQ = 1 .. Len(msgQ) /\ Len(msgQ) \in Nat
    BY <1>1, <1>2, <1>6, LenProperties
<1>8. ASSUME NEW i \in DOMAIN msgQ' PROVE (i \in DOMAIN msgQ /\ msgQ'[i] = msgQ[i]) \/ msgQ'[i] = msg
    <2>1. i \in 1 .. Len(msgQ) \/ i = Len(msgQ) + 1 BY <1>7
    <2>2. QED BY <1>2, <1>6, <1>7, <2>1
<1> SUFFICES ASSUME NEW p \in Player,
                    \/ game'.state = "ready" /\ players'[p].ready
                    \/ \E i \in DOMAIN msgQ' : msgQ'[i] = Loaded(p)
             PROVE  \E d \in Conn : conn'[d].told /\ conn'[d].id \in {p, None}
    BY DEF LoadedIsTold, Loaded
<1>9. CASE msg = Loaded(p)
    <2>1. conn[c].id = p /\ kind = "loaded" BY <1>9 DEF Loaded, msg
    <2>2. QED BY <1>3, <1>4, <2>1
<1>10. CASE msg # Loaded(p)
    <2>1. \/ game.state = "ready" /\ players[p].ready
          \/ \E i \in DOMAIN msgQ : msgQ[i] = Loaded(p)
        BY <1>8, <1>10 DEF gameVars
    <2>2. PICK d \in Conn : conn[d].told /\ conn[d].id \in {p, None}
        BY <2>1 DEF LoadedIsTold, Loaded
    <2>3. QED BY <1>3, <2>2
<1>11. QED BY <1>9, <1>10

\* Every step keeps it.
LEMMA LoadedIsKept ==
    ASSUME TypeOK, LinksInv, LoadedIsTold, [Next]_vars
    PROVE  LoadedIsTold'
<1>1. /\ conn \in [Conn -> ConnState] /\ players \in [Player -> PlayerState]
      /\ \A c \in Conn : conn[c].told => conn[c].at = "game"
    BY DEF TypeOK, ConnTypeOK, LinksInv, ConnsAreSound
<1>2. CASE UNCHANGED vars \/ GetsStuck
    <2>1. UNCHANGED <<conn, game, players, msgQ>>
        BY <1>2 DEF vars, connVars, gameVars, GetsStuck
    <2>2. QED BY <2>1 DEF LoadedIsTold
<1>3. CASE \E c \in Conn : /\ UNCHANGED gameVars
                           /\ \/ Hand(c) \/ Drop(c) \/ OnClose(c)
                              \/ \E p \in Player : Identify(c, p)
    <2> PICK c \in Conn : /\ UNCHANGED gameVars
                          /\ \/ Hand(c) \/ Drop(c) \/ OnClose(c)
                             \/ \E p \in Player : Identify(c, p)
        BY <1>3
    <2>1. UNCHANGED <<game, players, msgQ>> BY DEF gameVars, Hand, Drop, OnClose, Identify
    <2>2. ToldStays
        <3>1. CASE Hand(c) \/ Drop(c) \/ OnClose(c)
            <4>1. CASE Hand(c) BY <1>1, <4>1 DEF Hand, ToldStays, ConnState
            <4>2. CASE Drop(c) BY <1>1, <4>2 DEF Drop, ToldStays, ConnState
            <4>3. CASE OnClose(c) BY <1>1, <4>3 DEF OnClose, ToldStays, ConnState
            <4>4. QED BY <3>1, <4>1, <4>2, <4>3
        <3>2. CASE \E p \in Player : Identify(c, p)
            <4>1. ~conn[c].told BY <1>1, <3>2 DEF Identify
            <4>2. \A d \in Conn \ {c} : conn'[d] = conn[d] BY <1>1, <3>2 DEF Identify
            <4>3. QED BY <4>1, <4>2 DEF ToldStays
        <3>3. QED BY <3>1, <3>2
    <2>3. NoneLoads BY <2>1 DEF NoneLoads
    <2>4. QED BY <2>2, <2>3, StaysTold
<1>4. CASE \E c \in Conn, kind \in Kind : Receive(c, kind) /\ UNCHANGED gameVars
    BY <1>4, ReceiveKeepsLoaded
<1>5. CASE \E p \in Player, c \in Conn, C \in SUBSET Conn :
               conn[c].id = p /\ JoinStep(p, c, players[p].client, C)
    <2> PICK p \in Player, c \in Conn, C \in SUBSET Conn : JoinStep(p, c, players[p].client, C)
        BY <1>5
    <2>1. players[p].client \in Conn \cup {None} BY <1>1 DEF PlayerState
    <2>2. Shut(C, players[p].client) BY DEF JoinStep
    <2>3. ToldStays BY <2>1, <2>2, ShutStaysTold
    <2>4. /\ game' = game /\ msgQ' = msgQ
          /\ players' = [players EXCEPT ![p].client = c, ![p].online = TRUE, ![p].ready = FALSE]
        BY DEF JoinStep
    <2>5. \A q \in Player : players'[q].ready => players[q].ready
        BY <1>1, <2>4 DEF PlayerState
    <2>6. NoneLoads BY <2>4, <2>5 DEF NoneLoads
    <2>7. QED BY <2>3, <2>6, StaysTold
<1>6. CASE OnLeaveGame /\ conn[Head(outChan)].id = None
    <2>1. UNCHANGED <<conn, game, players, msgQ>> BY <1>6, LeaveOfNobody
    <2>2. QED BY <2>1 DEF LoadedIsTold
<1>7. CASE \E p \in Player : LeaveStep(p, players[p].client)
    <2> PICK p \in Player : LeaveStep(p, players[p].client) BY <1>7
    <2>1. game' = game /\ msgQ' = msgQ /\ players' = [players EXCEPT ![p] = CleanedUp(p)]
        BY DEF LeaveStep
    <2>2. \A q \in Player : players'[q].ready => players[q].ready
        BY <1>1, <2>1 DEF PlayerState, CleanedUp
    <2>3. NoneLoads BY <2>1, <2>2 DEF NoneLoads
    <2>4. \A d \in Conn : conn'[d].told = conn[d].told /\ conn'[d].id = conn[d].id
        BY DEF LeaveStep
    <2>5. ToldStays BY <2>4 DEF ToldStays
    <2>6. QED BY <2>3, <2>5, StaysTold
<1>8. CASE OnProcessMsg /\ \E C \in SUBSET Conn : Plain(C) BY <1>8, ProcessKeepsLoaded
<1>9. CASE /\ msgQ' = msgQ
           /\ \E C \in SUBSET Conn : Plain(C)
           /\ game'.state = "ready" => game.state = "ready"
           /\ \A p \in Player : game'.state = "ready" /\ players'[p].ready => players[p].ready
    <2>1. PICK C \in SUBSET Conn : Shut(C, None) BY <1>9 DEF Plain
    <2>2. ToldStays BY <2>1, ShutStaysTold
    <2>3. NoneLoads BY <1>9 DEF NoneLoads
    <2>4. QED BY <2>2, <2>3, StaysTold
<1>10. Quiet => (game'.state = "ready" => game.state = "ready") BY DEF Quiet, Going
<1>11. \A C \in SUBSET Conn : StartStep(C) => game'.state # "ready" BY DEF StartStep
<1>12. \A P \in SUBSET Player, C \in SUBSET Conn : FrameStep(P, C) => game'.state # "ready"
    BY DEF FrameStep
<1>13. QED
    BY <1>2, <1>3, <1>4, <1>5, <1>6, <1>7, <1>8, <1>9, <1>10, <1>11, <1>12, EveryStep

-----------------------------------------------------------------------------
(* The theorems. *)

\* The invariant is inductive.
THEOREM BattleCorrect == Spec => []BattleInv
<1>1. Init => BattleInv
    <2> SUFFICES ASSUME Init PROVE BattleInv OBVIOUS
    <2>1. TypeOK /\ LinksInv BY LinksAtFirst
    <2>2. SentIsWritten /\ FramesInOrder
        <3>1. \A p \in Player : PlayerInv(game, players[p], seen[p], conn[players[p].client].open)
            <4> TAKE p \in Player
            <4>1. /\ players[p].sent = 0 /\ ~players[p].online /\ game.frame = 0
                  /\ seen[p] = Nothing
                BY DEF Init
            <4>2. QED BY <4>1, NothingIsFine
        <3>2. QED BY <3>1, FramesByPlayer
    <2>3. LoadedIsTold BY DEF LoadedIsTold, Init, ConnInit
    <2>4. QED BY <2>1, <2>2, <2>3 DEF BattleInv
<1>2. BattleInv /\ [Next]_vars => BattleInv'
    BY LinksAreKept, FramesAreKept, LoadedIsKept DEF BattleInv
<1>3. QED BY <1>1, <1>2, PTL DEF Spec

\* The game knows who is connected: an online player's connection is open, or the game will be
\* told of its end, unless it was closed before the game knew it (GameRun.OnJoinGame,
\* OnLeaveGame); and the goroutine waits for itself only if more connections came than
\* outChan holds (Game.OnClose).
THEOREM ConnectionsHold == Spec => []ConnectionsAreSound
<1>1. BattleInv => ConnectionsAreSound BY DEF BattleInv, LinksInv, ConnectionsAreSound
<1>2. QED BY <1>1, BattleCorrect, PTL

\* Frames reach a connection after the start, from the first on, in order and without gaps
\* (GameRun.broadcastFrameData).
THEOREM FramesHold == Spec => []FramesInOrder
<1>1. BattleInv => FramesInOrder BY DEF BattleInv
<1>2. QED BY <1>1, BattleCorrect, PTL

\* A leave closes no open connection while the game goes on, unless some connection was
\* closed before the game knew it.
LEMMA LeaveKeepsNewcomers ==
    ASSUME BattleInv, OnLeaveGame, game.state \in {"ready", "gaming"},
           \A c \in Conn : ~conn[c].early,
           NEW q \in Player, players[q].client # None, conn[players[q].client].open
    PROVE  conn'[players[q].client].open
<1> USE DEF BattleInv, LinksInv
<1> DEFINE h == Head(outChan)
           d == players[q].client
<1>1. d \in Conn BY DEF TypeOK, PlayerState
<1>2. CASE conn[h].id = None
    <2>1. conn' = conn BY <1>2, LeaveOfNobody
    <2>2. QED BY <2>1
<1>3. CASE conn[h].id # None
    <2>1. PICK p \in Player : LeaveStep(p, players[p].client) BY <1>3, LeaveIsStep
    <2>2. loop = "running" /\ conn[h].id = p /\ outChan # <<>> BY <2>1 DEF LeaveStep
    <2>3. h \in Range(outChan) /\ h \in Conn
        BY <2>2, TailDistinct DEF TypeOK, ConnTypeOK, ChannelsAreSound
    <2>4. conn[h].at = "game" /\ ~conn[h].open BY <2>3 DEF ChannelsAreSound
    <2>5. h \notin Waiting BY <2>3, <2>4 DEF ChannelsAreSound
    <2> HIDE DEF h
    <2>6. players[p].client = h BY <1>3, <2>2, <2>3, <2>4, <2>5 DEF OnlyTheirs
    <2>7. d # h BY <2>4
    <2>8. conn'[d] = conn[d] BY <1>1, <2>1, <2>6, <2>7 DEF LeaveStep
    <2>9. QED BY <2>8
<1>4. QED BY <1>2, <1>3

\* The game starts with clients that have loaded, or are taken to have (checkLoaded).
LEMMA StartIsLoaded ==
    ASSUME BattleInv, [Next]_vars, game.state = "ready", game'.state = "gaming",
           NEW p \in Player, players[p].online
    PROVE  conn[players[p].client].told \/ \E c \in Conn \ Clients(Player) : conn[c].told
<1> USE DEF BattleInv, LinksInv
<1>1. AllReady
    <2>1. ~(game' = game) OBVIOUS
    <2>2. ~UNCHANGED vars /\ ~UNCHANGED gameVars BY <2>1 DEF vars, gameVars
    <2>3. ~GetsStuck /\ ~OnLeaveGame BY <2>1 DEF GetsStuck, OnLeaveGame
    <2>4. \A q \in Player, c \in Conn, C \in SUBSET Conn : ~JoinStep(q, c, players[q].client, C)
        BY <2>1 DEF JoinStep
    <2>5. ~Quiet BY DEF Quiet, Going
    <2>6. \A P \in SUBSET Player, C \in SUBSET Conn : ~FrameStep(P, C) BY DEF FrameStep
    <2>7. \E C \in SUBSET Conn : StartStep(C)
        BY <2>2, <2>3, <2>4, <2>5, <2>6, EveryStep
    <2>8. QED BY <2>7 DEF StartStep
<1>2. PICK c \in Conn : conn[c].told /\ conn[c].id \in {p, None}
    BY <1>1 DEF AllReady, LoadedIsTold
<1>3. CASE c \in Clients(Player)
    <2>1. conn[c].id \in Player /\ players[conn[c].id].client = c BY <1>3, ClientFacts
    <2>2. conn[c].id = p BY <1>2, <2>1, ConnAssumption
    <2>3. QED BY <1>2, <2>1, <2>2
<1>4. CASE c \notin Clients(Player) BY <1>2, <1>4
<1>5. QED BY <1>3, <1>4

\* A game starts with, and keeps, the connections its players play on.
THEOREM GameStepsHold == Spec => GameStepsAreSound
<1>1. BattleInv /\ [Next]_vars =>
          [OnLeaveGame /\ game.state \in {"ready", "gaming"} =>
               \/ \A p \in Player : LET c == players[p].client IN
                      c # None /\ conn[c].open => conn'[c].open
               \/ \E c \in Conn : conn[c].early]_vars
    BY LeaveKeepsNewcomers
<1>2. BattleInv /\ [Next]_vars =>
          [game.state = "ready" /\ game'.state = "gaming" =>
               \A p \in Online : \/ conn[players[p].client].told
                                 \/ \E c \in Conn \ Clients(Player) : conn[c].told]_vars
    BY StartIsLoaded DEF Online
<1>3. Spec => NewcomerIsKept BY <1>1, BattleCorrect, PTL DEF Spec, NewcomerIsKept
<1>4. Spec => StartsLoaded BY <1>2, BattleCorrect, PTL DEF Spec, StartsLoaded
<1>5. QED BY <1>3, <1>4 DEF GameStepsAreSound
=============================================================================
