---------------------------- MODULE CachedPlayers ----------------------------
(***************************************************************************)
(* An actor that keeps its players' data in a write-back cache, as the     *)
(* guild and the activity module do: it loads a player's object into the   *)
(* cache and changes it in place.  What such an actor can rely on.         *)
(***************************************************************************)
EXTENDS WriteBackCache

VARIABLES
    owner,      \* the actor: what its load of a player is at
    done,       \* done[k]: the changes handlers have made to k's data
    unmarked    \* those of them made to an entry that was not dirty

ownerVars == <<owner, done, unmarked>>
vars == <<cacheVars, ghostVars, ownerVars>>

Owner == [pc : {"ready", "reading", "filling", "listing", "purging", "closed", "stopped"},
          for : SUBSET Key, data : Data]
Ready == [pc |-> "ready", for |-> {}, data |-> {}]

OwnerTypeOK ==
    /\ owner \in Owner /\ Cardinality(owner.for) <= 1
    /\ done \in [Key -> Data] /\ unmarked \in [Key -> Data]

TypeOK == CacheTypeOK /\ OwnerTypeOK

Init ==
    /\ CacheInit
    /\ owner = Ready
    /\ done = [k \in Key |-> {}] /\ unmarked = done

\* A handler's load finds no live entry; an expired one leaves.
Miss(k) ==
    /\ owner.pc = "ready" /\ ~Live(k)
    /\ Remove({k} \cap Cached)
    /\ owner' = [pc |-> "reading", for |-> {k}, data |-> {}]
    /\ UNCHANGED <<done, unmarked>>

\* It reads Redis: what a pending flush has not saved yet is not read.
ReadPlayerData(k) ==
    /\ owner.pc = "reading" /\ k \in owner.for
    /\ owner' = [owner EXCEPT !.pc = "filling", !.data = store[k]]
    /\ raced' = raced \cup {j \in {k} : Unsaved(j)}
    /\ UNCHANGED <<cacheVars, dropped, done, unmarked>>

\* A handler that only looks at the player.
Look(k) ==
    /\ owner.pc = "ready" /\ Live(k)
    /\ Touch(k)
    /\ UNCHANGED <<heap, ownerVars>>

\* A handler changes the object of k in place.
Changes(k, c) ==
    /\ owner.pc = "ready" /\ Live(k) /\ c \notin done[k]
    /\ heap' = [heap EXCEPT ![entries[k].obj] = @ \cup {c}]
    /\ done' = [done EXCEPT ![k] = @ \cup {c}]
    /\ UNCHANGED owner

\* ... and does not call cache.Set.
ChangeInPlace(k, c) ==
    /\ Changes(k, c)
    /\ Touch(k)
    /\ unmarked' = IF entries[k].dirty THEN unmarked
                   ELSE [unmarked EXCEPT ![k] = @ \cup {c}]

\* When the actor has stopped: cache.Close.
Close ==
    /\ owner.pc \in {"ready", "closed"}
    /\ owner' = [Ready EXCEPT !.pc = "stopped"]
    /\ UNCHANGED <<cacheVars, ghostVars, done, unmarked>>

LoadStep ==
    \/ \E k \in Key : Miss(k) \/ ReadPlayerData(k) \/ Look(k)
    \/ Close

\* The ticker and stopCh may both be ready; then either is taken.
FlusherStep ==
    /\ StartFlush \/ Flushes \/ (owner.pc = "stopped" /\ FlushLast)
    /\ UNCHANGED ownerVars

ClockStep == \E k \in Key : Expire(k) /\ UNCHANGED ownerVars

-----------------------------------------------------------------------------
(* What the cache promises to handlers that set what they change. *)

\* A change that was marked, to a key without a race and without a save given up.
Promised(k) == IF k \in raced \cup dropped THEN {} ELSE done[k] \ unmarked[k]

\* c is in Redis, or in an entry or a flush that will bring it there.
Kept(k, c) ==
    \/ c \in store[k]
    \/ k \in Cached /\ entries[k].dirty /\ c \in Held(k)
    \/ \E t \in flusher.todo : t.key = k /\ c \in heap[t.obj]
    \/ \E s \in flusher.sending : s.key = k /\ c \in s.data

\* No change that was set is lost, unless Redis failed and nobody tried again, or the
\* key was saved or read by the actor while a flush of it was pending.
NothingLost == \A k \in Key : \A c \in Promised(k) : Kept(k, c)

\* Who loads a player sees every change that is promised.
ReadsAreCurrent == \A k \in Key : Live(k) => Promised(k) \subseteq Held(k)

\* The LRU list is the map's keys, once each, and the capacity is not exceeded.
LruIsTheMap ==
    /\ Len(lru) = Cardinality(Cached) /\ Len(lru) <= Capacity
    /\ {lru[i] : i \in DOMAIN lru} = Cached

\* When Close has returned, what is promised is in Redis, if Redis never failed.
ClosedIsSaved == flusher.phase = "closed" /\ fails = 0 =>
    \A k \in Key : Promised(k) \subseteq store[k]

\* The cache itself: its entries and its list agree within the capacity, and Close loses
\* nothing.
CacheIsSound == TypeOK /\ LruIsTheMap /\ ClosedIsSaved

\* What was promised of a change is neither lost nor overlooked.
PromisesAreKept == NothingLost /\ ReadsAreCurrent
=============================================================================
