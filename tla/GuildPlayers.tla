---------------------------- MODULE GuildPlayers ----------------------------
(***************************************************************************)
(* The guild module's players (logic/guild): what is loaded is set, hence  *)
(* dirty; one handler sets what it has changed, all others do not; every   *)
(* half hour everything in the cache is saved.                             *)
(***************************************************************************)
EXTENDS CachedPlayers

\* loadPlayerData fails, and the handler does nothing.
LoadFails ==
    /\ owner.pc = "reading" /\ fails < MaxFails
    /\ fails' = fails + 1
    /\ owner' = Ready
    /\ UNCHANGED <<entries, lru, heap, store, flusher, ghostVars, done, unmarked>>

\* loadPlayerGuildFromCache: what was just read goes in as dirty.
Fill(k) ==
    /\ owner.pc = "filling" /\ k \in owner.for
    /\ SetObject(k, owner.data, TRUE)
    /\ owner' = Ready
    /\ UNCHANGED <<done, unmarked>>

\* SetBuild: the change is followed by cache.Set.
SetBuild(k, c) ==
    /\ Changes(k, c)
    /\ SetAgain(k, entries[k].obj, TRUE)
    /\ unmarked' = [unmarked EXCEPT ![k] = @ \ Held(k)]

\* OnTick: cache.Iterate(savePlayerData) saves live entries, up to the first failure.
SaveCached == \E K \in SUBSET {k \in Cached : Live(k)} :
    /\ owner.pc = "ready" /\ K # {}
    /\ \/ K = {k \in Cached : Live(k)} /\ Saves(K, {})
       \/ \E k \in K : {k} \in Failures(K) /\ Saves(K, {k})
    /\ UNCHANGED <<entries, lru, heap, flusher, dropped, ownerVars>>

GuildStep ==
    \/ \E k \in Key : Fill(k)
    \/ \E k \in Key, c \in Change : SetBuild(k, c) \/ ChangeInPlace(k, c)
    \/ LoadFails \/ SaveCached

GuildNext == LoadStep \/ GuildStep \/ FlusherStep \/ ClockStep

GuildSpec == Init /\ [][GuildNext]_vars

-----------------------------------------------------------------------------
(* The flush goroutine runs, its ticker ticks and Redis answers. *)
GuildFairSpec == GuildSpec /\ WF_vars(FlusherStep)

\* A change that was set reaches Redis, with the same exceptions as NothingLost.
ChangesLand == \A k \in Key, c \in Change :
    c \in done[k] ~> c \in store[k] \/ c \notin Promised(k) \/ (owner.pc = "stopped" /\ fails > 0)

=============================================================================
