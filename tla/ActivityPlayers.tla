--------------------------- MODULE ActivityPlayers ---------------------------
(***************************************************************************)
(* The players' data of one activity (logic/activity/data): what is loaded *)
(* is clean, who has no data gets new data, which is set, and nobody sets  *)
(* what he changes.  The data of all is listed for the day reset, and      *)
(* deleted when the activity closes.                                       *)
(***************************************************************************)
EXTENDS CachedPlayers

CONSTANT New    \* what makes a player's data differ from no data

ASSUME NewAssumption == New \in Change

VARIABLE listed \* what IterateActivityPlayerData has read and not handed out yet

actVars == <<vars, listed>>

Listed == UNION {[K -> Data] : K \in SUBSET Key}
ActTypeOK == TypeOK /\ listed \in Listed

NoneListed == [k \in {} |-> {}]

ActInit == Init /\ listed = NoneListed

\* LoadPlayerData finds data in Redis: it goes in as clean.
FillClean(k) ==
    /\ owner.pc = "filling" /\ k \in owner.for /\ owner.data # {}
    /\ SetObject(k, owner.data, FALSE)
    /\ owner' = Ready
    /\ UNCHANGED <<done, unmarked, listed>>

\* Mutation of NewPlayerData: the new object goes in as clean.
NewPlayerDataClean(k) ==
    /\ owner.pc = "filling" /\ k \in owner.for /\ owner.data = {}
    /\ SetObject(k, {New}, FALSE)
    /\ owner' = Ready
    /\ done' = [done EXCEPT ![k] = @ \cup {New}]
    /\ UNCHANGED <<unmarked, listed>>

\* LoadPd: there is none, so a new object is set.
NewPlayerData(k) ==
    /\ owner.pc = "filling" /\ k \in owner.for /\ owner.data = {}
    /\ SetObject(k, {New}, TRUE)
    /\ owner' = Ready
    /\ done' = [done EXCEPT ![k] = @ \cup {New}]
    /\ UNCHANGED <<unmarked, listed>>

\* A failed read is taken for "there is none".
ReadFails(k) ==
    /\ owner.pc = "reading" /\ k \in owner.for /\ fails < MaxFails
    /\ fails' = fails + 1
    /\ owner' = [owner EXCEPT !.pc = "filling"]
    /\ dropped' = dropped \cup {k}
    /\ UNCHANGED <<entries, lru, heap, store, flusher, raced, done, unmarked, listed>>

\* IterateActivityPlayerData: after the live entries, what Redis has of the others.
List == LET Others == {k \in Key : ~Live(k) /\ store[k] # {}} IN
    /\ owner.pc = "ready"
    /\ owner' = [Ready EXCEPT !.pc = "listing"]
    /\ listed' = [k \in Others |-> store[k]]
    /\ raced' = raced \cup {k \in Others : Unsaved(k)}
    /\ UNCHANGED <<cacheVars, dropped, done, unmarked>>

\* It goes in as clean, also over an entry that has expired.
FillListed(k) ==
    /\ owner.pc = "listing" /\ k \in DOMAIN listed
    /\ SetObject(k, listed[k], FALSE)
    /\ listed' = [j \in DOMAIN listed \ {k} |-> listed[j]]
    /\ UNCHANGED ownerVars

EndList ==
    /\ owner.pc = "listing" /\ listed = NoneListed
    /\ owner' = Ready
    /\ UNCHANGED <<cacheVars, ghostVars, done, unmarked, listed>>

\* PurgeActivityPlayerData: the live entries are deleted, hence saved if dirty.
PurgeCache ==
    /\ owner.pc = "ready"
    /\ Remove({k \in Cached : Live(k)})
    /\ owner' = [Ready EXCEPT !.pc = "purging"]
    /\ UNCHANGED <<done, unmarked, listed>>

\* Mutation of PurgeStore: only the cache is emptied.
PurgeStoreNot ==
    /\ owner.pc = "purging"
    /\ owner' = [Ready EXCEPT !.pc = "closed"]
    /\ done' = [k \in Key |-> {}] /\ unmarked' = done'
    /\ UNCHANGED <<cacheVars, ghostVars, listed>>

\* ... and then all that Redis has.  A closed activity takes no requests.  A flush that is
\* under way, and an expired entry, may bring a player's data back.
PurgeStore ==
    /\ owner.pc = "purging"
    /\ store' = [k \in Key |-> {}]
    /\ owner' = [Ready EXCEPT !.pc = "closed"]
    /\ done' = [k \in Key |-> {}] /\ unmarked' = done'
    /\ raced' = raced \cup {k \in Key : Unsaved(k)}
    /\ UNCHANGED <<entries, lru, heap, flusher, fails, dropped, listed>>

ActivityStep ==
    \/ \E k \in Key : FillClean(k) \/ NewPlayerData(k) \/ ReadFails(k) \/ FillListed(k)
    \/ List \/ EndList \/ PurgeCache \/ PurgeStore

Shared ==
    \/ LoadStep \/ FlusherStep \/ ClockStep
    \/ \E k \in Key, c \in Change \ {New} : ChangeInPlace(k, c)

ActNext == ActivityStep \/ (Shared /\ UNCHANGED listed)

ActSpec == ActInit /\ [][ActNext]_actVars

-----------------------------------------------------------------------------
\* "删除活动所有对应玩家数据" (PurgeActivityPlayerData): of a closed activity no player's data is
\* left, except what a flush or an expired entry had still to save when it was closed.
PurgedIsGone == owner.pc = "closed" => \A k \in Key \ raced : store[k] = {}

\* What is listed is players' data, and a closed activity leaves none of it.
DataIsSound == ActTypeOK /\ PurgedIsGone
=============================================================================
