--------------------------- MODULE WriteBackCache ---------------------------
(***************************************************************************)
(* The write-back cache (core/cache) in front of Redis: an LRU of entries  *)
(* that are saved when they are evicted, found expired or deleted, and a   *)
(* background goroutine that flushes the dirty ones.  Values are pointers  *)
(* to objects; an object is the set of changes made to it.  What is done   *)
(* under the cache's mutex is one step, also when it waits for Redis.      *)
(***************************************************************************)
EXTENDS Naturals, Sequences, FiniteSets

CONSTANTS
    Key,        \* players (guild), or players in an activity
    Change,     \* what a handler can do to the data of a key
    Object,     \* addresses of objects
    Capacity,   \* Options.Capacity
    MaxFails    \* bounds how often Redis fails

ASSUME CacheAssumption ==
    Capacity \in Nat \ {0} /\ MaxFails \in Nat /\ IsFiniteSet(Key)

Data == SUBSET Change

VARIABLES
    entries,    \* the map: for each key in it, the object, dirty, expired
    lru,        \* the keys, most recently used first
    heap,       \* what the objects hold
    store,      \* what Redis holds
    flusher,    \* what the flush has still to save, and the save it waits for
    fails       \* how often Redis has failed

cacheVars == <<entries, lru, heap, store, flusher, fails>>

\* What can still go wrong with a save was recorded when it happened:
VARIABLES
    raced,      \* keys saved by the actor while a flush of them was being sent, or read
                \* while what they hold was not saved
    dropped     \* keys of which Redis failed a save or a read that nobody tries again

ghostVars == <<raced, dropped>>

Entry == [obj : Object, dirty : BOOLEAN, expired : BOOLEAN]
Flusher == [phase : {"idle", "saving", "closed"}, final : BOOLEAN,
            todo : SUBSET [key : Key, obj : Object],
            sending : SUBSET [key : Key, data : Data]]

CacheTypeOK ==
    /\ \E K \in SUBSET Key : entries \in [K -> Entry]
    /\ lru \in Seq(Key)
    /\ heap \in [Object -> Data]
    /\ store \in [Key -> Data]
    /\ flusher \in Flusher
    /\ fails \in 0 .. MaxFails
    /\ raced \in SUBSET Key /\ dropped \in SUBSET Key

CacheInit ==
    /\ entries = [k \in {} |-> 0] /\ lru = <<>>
    /\ heap = [o \in Object |-> {}]
    /\ store = [k \in Key |-> {}]
    /\ flusher = [phase |-> "idle", final |-> FALSE, todo |-> {}, sending |-> {}]
    /\ fails = 0
    /\ raced = {} /\ dropped = {}

-----------------------------------------------------------------------------
Cached == DOMAIN entries
Live(k) == k \in Cached /\ ~entries[k].expired
DirtyKeys(K) == {k \in K \cap Cached : entries[k].dirty}
Held(k) == heap[entries[k].obj]

\* A flush of k has been promised and not yet made.
Sending(k) == \E s \in flusher.sending : s.key = k
Pending(k) == Sending(k) \/ \E t \in flusher.todo : t.key = k

\* What k holds has not reached Redis.
Unsaved(k) == Pending(k) \/ k \in DirtyKeys(Cached)

\* Objects that neither the map nor the flush points to.
Unused == Object \ ({entries[k].obj : k \in Cached} \cup {t.obj : t \in flusher.todo})

\* What is left of the list, in its order, when the keys of K have left it.
Without(K) == LET Left == {i \in DOMAIN lru : lru[i] \notin K} IN
    [n \in 1 .. Cardinality(Left) |->
        lru[CHOOSE i \in Left : Cardinality({j \in Left : j <= i}) = n]]

Oldest == lru[Len(lru)]

\* Redis after the objects of K are saved, except for those of `failed`.
StoredAfter(K, failed) == [k \in Key |-> IF k \in K \ failed THEN Held(k) ELSE store[k]]

\* Redis fails for some of the saves in K.
Failures(K) == {f \in SUBSET K : fails + Cardinality(f) <= MaxFails}

\* The objects of K are saved under the mutex, and a failed save is only logged.
Saves(K, failed) ==
    /\ store' = StoredAfter(K, failed)
    /\ fails' = fails + Cardinality(failed)
    /\ raced' = raced \cup {k \in K \ failed : Sending(k)}

\* removeEntry: the entries of K leave the cache, the dirty ones are saved first.
Leaves(K) == \E failed \in Failures(DirtyKeys(K)) :
    /\ Saves(DirtyKeys(K), failed)
    /\ dropped' = dropped \cup failed

\* The map and the LRU list when K has left and k has entry e in front.
Put(K, k, e) ==
    /\ entries' = [j \in (Cached \ K) \cup {k} |-> IF j = k THEN e ELSE entries[j]]
    /\ lru' = <<k>> \o Without(K \cup {k})

-----------------------------------------------------------------------------
(* What the owner of the cache calls. *)

\* evictOldest, when there is no room for another entry.
Evicted == IF Len(lru) >= Capacity THEN {Oldest} ELSE {}

\* setLocked of a key that has an entry: the object is replaced, dirty stays dirty.
SetAgain(k, o, dirty) ==
    /\ k \in Cached
    /\ Put({}, k, [obj |-> o, dirty |-> entries[k].dirty \/ dirty, expired |-> FALSE])
    /\ UNCHANGED <<store, fails, flusher, ghostVars>>

\* setLocked of a key that has none: what is evicted is saved first.
SetNew(k, o, dirty) ==
    /\ k \notin Cached
    /\ Leaves(Evicted)
    /\ Put(Evicted, k, [obj |-> o, dirty |-> dirty, expired |-> FALSE])
    /\ UNCHANGED flusher

\* Set, SetClean of an object that was just made from `data`.
SetObject(k, data, dirty) == \E o \in Unused :
    /\ heap' = [heap EXCEPT ![o] = data]
    /\ SetAgain(k, o, dirty) \/ SetNew(k, o, dirty)

\* Get of a live entry moves it to the front.
Touch(k) ==
    /\ Put({}, k, entries[k])
    /\ UNCHANGED <<store, fails, flusher, ghostVars>>

\* Del, and Get of an expired entry.
Remove(K) ==
    /\ Leaves(K)
    /\ entries' = [j \in Cached \ K |-> entries[j]]
    /\ lru' = Without(K)
    /\ UNCHANGED <<heap, flusher>>

\* An entry's time to live runs out.
Expire(k) ==
    /\ Live(k)
    /\ entries' = [entries EXCEPT ![k].expired = TRUE]
    /\ UNCHANGED <<lru, heap, store, flusher, fails, ghostVars>>

-----------------------------------------------------------------------------
(* The background goroutine. *)

\* Mutation of StartFlush: what is to be saved stays dirty until a handler sets it again.
StartFlushTwice ==
    /\ flusher.phase = "idle"
    /\ flusher' = [flusher EXCEPT !.phase = "saving"]
    /\ entries' = [k \in Cached |-> [entries[k] EXCEPT !.dirty = FALSE]]
    /\ UNCHANGED <<lru, heap, store, fails, ghostVars>>

\* Flush, first part: under the mutex, everything dirty is noted and marked clean.
StartFlush ==
    /\ flusher.phase = "idle"
    /\ flusher' = [flusher EXCEPT !.phase = "saving",
           !.todo = {[key |-> k, obj |-> entries[k].obj] : k \in DirtyKeys(Cached)}]
    /\ entries' = [k \in Cached |-> [entries[k] EXCEPT !.dirty = FALSE]]
    /\ UNCHANGED <<lru, heap, store, fails, ghostVars>>

\* SaveFunc marshals the object as it is now and sends it to Redis.
Send(t) ==
    /\ t \in flusher.todo /\ flusher.sending = {}
    /\ flusher' = [flusher EXCEPT !.todo = @ \ {t},
                                  !.sending = {[key |-> t.key, data |-> heap[t.obj]]}]
    /\ UNCHANGED <<entries, lru, heap, store, fails, ghostVars>>

Sent(s) ==
    /\ s \in flusher.sending
    /\ store' = [store EXCEPT ![s.key] = s.data]
    /\ flusher' = [flusher EXCEPT !.sending = {}]
    /\ UNCHANGED <<entries, lru, heap, fails, ghostVars>>

\* Mutation of SendFails: nothing is marked dirty again.
SendForgotten(s) ==
    /\ s \in flusher.sending /\ fails < MaxFails
    /\ fails' = fails + 1
    /\ flusher' = [flusher EXCEPT !.sending = {}]
    /\ UNCHANGED <<entries, lru, heap, store, raced, dropped>>

\* A failed save marks the entry dirty again, if the key still has one.
SendFails(s) ==
    /\ s \in flusher.sending /\ fails < MaxFails
    /\ fails' = fails + 1
    /\ flusher' = [flusher EXCEPT !.sending = {}]
    /\ IF s.key \in Cached
       THEN entries' = [entries EXCEPT ![s.key].dirty = TRUE] /\ UNCHANGED dropped
       ELSE dropped' = dropped \cup {s.key} /\ UNCHANGED entries
    /\ UNCHANGED <<lru, heap, store, raced>>

Flushed == flusher.phase = "saving" /\ flusher.todo = {} /\ flusher.sending = {}

\* cleanExpired, after each periodic flush.
CleanExpired == LET K == {k \in Cached : entries[k].expired} IN
    /\ Flushed /\ ~flusher.final
    /\ Leaves(K)
    /\ entries' = [j \in Cached \ K |-> entries[j]]
    /\ lru' = Without(K)
    /\ flusher' = [flusher EXCEPT !.phase = "idle"]
    /\ UNCHANGED heap

\* Mutation of FlushLast: Close only ends the loop.
FlushLastNothing ==
    /\ flusher.phase = "idle"
    /\ flusher' = [flusher EXCEPT !.phase = "saving", !.final = TRUE]
    /\ UNCHANGED <<entries, lru, heap, store, fails, ghostVars>>

\* Close: the loop has ended, and everything is flushed once more.
FlushLast ==
    /\ flusher.phase = "idle"
    /\ flusher' = [flusher EXCEPT !.phase = "saving", !.final = TRUE,
           !.todo = {[key |-> k, obj |-> entries[k].obj] : k \in DirtyKeys(Cached)}]
    /\ entries' = [k \in Cached |-> [entries[k] EXCEPT !.dirty = FALSE]]
    /\ UNCHANGED <<lru, heap, store, fails, ghostVars>>

Closed ==
    /\ Flushed /\ flusher.final
    /\ flusher' = [flusher EXCEPT !.phase = "closed"]
    /\ UNCHANGED <<entries, lru, heap, store, fails, ghostVars>>

\* What a flush does once it has begun.
Flushes ==
    \/ \E t \in flusher.todo : Send(t)
    \/ \E s \in flusher.sending : Sent(s) \/ SendFails(s)
    \/ CleanExpired \/ Closed
=============================================================================
