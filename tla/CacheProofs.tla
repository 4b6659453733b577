----------------------------- MODULE CacheProofs -----------------------------
(***************************************************************************)
(* What the write-back cache promises to an actor that keeps its players   *)
(* in it, for any keys, changes, objects, capacity and number of failures  *)
(* of Redis, and that the guild and the activities get it.                 *)
(*                                                                         *)
(* CacheInv says what becomes of a change and LoadInv of what is loaded:   *)
(* for them the order of the list plays no part, an eviction may take any  *)
(* keys.  BoundsInv is about the list itself and the capacity.  The steps  *)
(* that both owners share come first, then each owner's own.               *)
(***************************************************************************)
EXTENDS GuildPlayers, ActivityPlayers, FiniteSetTheorems, SequenceTheorems, TLAPS

-----------------------------------------------------------------------------
(* The invariant. *)

CacheType ==
    /\ Cached \subseteq Key /\ entries \in [Cached -> Entry]
    /\ heap \in [Object -> Data] /\ store \in [Key -> Data]
    /\ done \in [Key -> Data] /\ unmarked \in [Key -> Data]
    /\ flusher \in Flusher
    /\ fails \in Nat

\* The changes to k that a handler has set.
Marked(k) == done[k] \ unmarked[k]

\* For a key that has not met a race or a failure that nobody repeats: its entry has every
\* marked change; each is kept; what a flush has still to save has them all and is the
\* object of the entry; what is being sent lacks only what the dirty entry has.
KeyInv(k) ==
    k \notin raced \cup dropped =>
        /\ k \in Cached => Marked(k) \subseteq Held(k)
        /\ \A c \in Marked(k) : Kept(k, c)
        /\ \A t \in flusher.todo : t.key = k =>
               Marked(k) \subseteq heap[t.obj] /\ (k \in Cached => entries[k].obj = t.obj)
        /\ \A s \in flusher.sending : s.key = k =>
               \A c \in Marked(k) : c \in s.data \/ (k \in Cached /\ entries[k].dirty /\ c \in Held(k))

\* A flush that has ended has left nothing, one save is under way at most, and the last
\* flush, after the actor has stopped, leaves nothing dirty unless Redis failed.
FlushInv ==
    /\ flusher.phase # "saving" => flusher.todo = {} /\ flusher.sending = {}
    /\ \A s, u \in flusher.sending : s = u
    /\ flusher.phase = "closed" => flusher.final
    /\ flusher.final => flusher.phase # "idle" /\ owner.pc = "stopped"
    /\ flusher.final /\ fails = 0 => \A k \in Cached : ~entries[k].dirty

CacheInv == CacheType /\ (\A k \in Key : KeyInv(k)) /\ FlushInv

\* data is what k may be loaded with: all that is marked, and nothing of k is on its way.
Fresh(k, data) == k \notin raced \cup dropped => ~Unsaved(k) /\ Marked(k) \subseteq data

\* A key that is being loaded has no entry, and what was read is still fresh.
LoadInv ==
    /\ owner \in Owner
    /\ \A j, k \in owner.for : j = k
    /\ \A k \in owner.for :
        /\ owner.pc \in {"reading", "filling"} => k \notin Cached
        /\ owner.pc = "filling" => Fresh(k, owner.data)

-----------------------------------------------------------------------------
(* Two ways in which a step may treat a key. *)

\* The step is not about k, except that its entry may leave or be saved.
Apart(k) ==
    /\ done'[k] = done[k] /\ unmarked'[k] = unmarked[k]
    /\ flusher'.todo = flusher.todo /\ flusher'.sending = flusher.sending
    /\ \A t \in flusher.todo : heap[t.obj] \subseteq heap'[t.obj]
    /\ raced \subseteq raced' /\ dropped \subseteq dropped'

SavedOrGivenUp(k) ==
    k \in dropped' \/ (store'[k] = Held(k) /\ (Sending(k) => k \in raced'))

\* The entry of k stays as it is, or there is none; it may be saved.
Stays(k) ==
    /\ k \in DOMAIN entries' <=> k \in Cached
    /\ k \in Cached => /\ entries'[k].obj = entries[k].obj /\ entries'[k].dirty = entries[k].dirty
                       /\ heap[entries[k].obj] \subseteq heap'[entries[k].obj]
    /\ store'[k] = store[k] \/ (k \in Cached /\ SavedOrGivenUp(k))

\* The entry of k leaves; if it is dirty it is saved.
GoesAway(k) ==
    /\ k \in Cached /\ k \notin DOMAIN entries'
    /\ IF entries[k].dirty THEN SavedOrGivenUp(k) ELSE store'[k] = store[k]

LEMMA KeyStays ==
    ASSUME NEW k \in Key, KeyInv(k), Apart(k), Stays(k)
    PROVE  KeyInv(k)' /\ \A data : Fresh(k, data) => Fresh(k, data)'
<1>1. SUFFICES ASSUME k \notin raced', k \notin dropped'
               PROVE  KeyInv(k)' /\ \A data : Fresh(k, data) => Fresh(k, data)'
    BY DEF KeyInv, Fresh
<1>2. k \notin raced /\ k \notin dropped BY <1>1 DEF Apart
<1>3. Marked(k)' = Marked(k) BY DEF Apart, Marked
<1>4. k \in Cached => Marked(k) \subseteq Held(k)' /\ Held(k) \subseteq Held(k)'
    BY <1>2 DEF KeyInv, Stays, Held
<1>5. \A c \in Marked(k) : Kept(k, c)'
    <2> TAKE c \in Marked(k)
    <2>1. Kept(k, c) BY <1>2 DEF KeyInv
    <2>2. CASE c \in store[k]
        <3>1. c \in store'[k] BY <1>1, <1>2, <2>2 DEF Stays, SavedOrGivenUp, KeyInv
        <3>2. QED BY <3>1 DEF Kept
    <2>3. CASE k \in Cached /\ entries[k].dirty /\ c \in Held(k)
        BY <2>3, <1>4 DEF Kept, Stays, Cached
    <2>4. CASE \E t \in flusher.todo : t.key = k /\ c \in heap[t.obj]
        BY <2>4 DEF Kept, Apart
    <2>5. CASE \E s \in flusher.sending : s.key = k /\ c \in s.data
        BY <2>5 DEF Kept, Apart
    <2>6. QED BY <2>1, <2>2, <2>3, <2>4, <2>5 DEF Kept
<1>6. \A t \in flusher'.todo : t.key = k =>
          Marked(k) \subseteq heap'[t.obj] /\ (k \in DOMAIN entries' => entries'[k].obj = t.obj)
    <2> SUFFICES ASSUME NEW t \in flusher.todo, t.key = k
                 PROVE  Marked(k) \subseteq heap'[t.obj] /\ (k \in DOMAIN entries' => entries'[k].obj = t.obj)
        BY DEF Apart
    <2>1. Marked(k) \subseteq heap[t.obj] /\ (k \in Cached => entries[k].obj = t.obj) BY <1>2 DEF KeyInv
    <2>2. heap[t.obj] \subseteq heap'[t.obj] BY DEF Apart
    <2>3. QED BY <2>1, <2>2 DEF Stays
<1>7. \A s \in flusher'.sending : s.key = k =>
          \A c \in Marked(k) : c \in s.data \/ (k \in DOMAIN entries' /\ entries'[k].dirty /\ c \in Held(k)')
    BY <1>2, <1>4 DEF KeyInv, Apart, Stays
<1>8. KeyInv(k)' BY <1>3, <1>4, <1>5, <1>6, <1>7 DEF KeyInv, Stays, Cached
<1>9. Unsaved(k)' => Unsaved(k)
    <2>1. Pending(k)' => Pending(k) BY DEF Pending, Sending, Apart
    <2>2. (k \in DirtyKeys(Cached))' => k \in DirtyKeys(Cached) BY DEF DirtyKeys, Stays, Cached
    <2>3. QED BY <2>1, <2>2 DEF Unsaved
<1>10. ASSUME NEW data, Fresh(k, data) PROVE Fresh(k, data)' BY <1>2, <1>3, <1>9, <1>10 DEF Fresh
<1>11. QED BY <1>8, <1>10

LEMMA KeyGoes ==
    ASSUME NEW k \in Key, KeyInv(k), Apart(k), GoesAway(k)
    PROVE  KeyInv(k)' /\ \A data : Fresh(k, data) => Fresh(k, data)'
<1>1. SUFFICES ASSUME k \notin raced', k \notin dropped'
               PROVE  KeyInv(k)' /\ \A data : Fresh(k, data) => Fresh(k, data)'
    BY DEF KeyInv, Fresh
<1>2. k \notin raced /\ k \notin dropped BY <1>1 DEF Apart
<1>3. Marked(k)' = Marked(k) BY DEF Apart, Marked
<1>4. \A c \in Marked(k) : Kept(k, c)'
    <2> TAKE c \in Marked(k)
    <2>1. Kept(k, c) /\ c \in Held(k) BY <1>2 DEF KeyInv, GoesAway
    <2>2. CASE entries[k].dirty
        <3>1. c \in store'[k] BY <1>1, <2>1, <2>2 DEF GoesAway, SavedOrGivenUp
        <3>2. QED BY <3>1 DEF Kept
    <2>3. CASE ~entries[k].dirty
        <3>1. store'[k] = store[k] BY <2>3 DEF GoesAway
        <3>2. \/ c \in store[k]
              \/ \E t \in flusher.todo : t.key = k /\ c \in heap[t.obj]
              \/ \E s \in flusher.sending : s.key = k /\ c \in s.data
            BY <2>1, <2>3 DEF Kept
        <3>3. QED BY <3>1, <3>2 DEF Kept, Apart
    <2>4. QED BY <2>2, <2>3
<1>5. \A t \in flusher'.todo : t.key = k => Marked(k) \subseteq heap'[t.obj]
    BY <1>2 DEF KeyInv, Apart
<1>6. \A s \in flusher'.sending : s.key = k => \A c \in Marked(k) : c \in s.data
    <2>1. Sending(k) => ~entries[k].dirty BY <1>1 DEF GoesAway, SavedOrGivenUp
    <2>2. QED BY <1>2, <2>1 DEF KeyInv, Apart, Sending
<1>7. KeyInv(k)' BY <1>3, <1>4, <1>5, <1>6 DEF KeyInv, GoesAway, Cached
<1>8. Unsaved(k)' => Unsaved(k)
    <2>1. Pending(k)' => Pending(k) BY DEF Pending, Sending, Apart
    <2>2. ~(k \in DirtyKeys(Cached))' BY DEF DirtyKeys, GoesAway, Cached
    <2>3. QED BY <2>1, <2>2 DEF Unsaved
<1>9. ASSUME NEW data, Fresh(k, data) PROVE Fresh(k, data)' BY <1>2, <1>3, <1>8, <1>9 DEF Fresh
<1>10. QED BY <1>7, <1>9

-----------------------------------------------------------------------------
(* The operators of the cache. *)

\* What saving under the mutex does to Redis, to each key.
LEMMA SavesFacts ==
    ASSUME CacheType, NEW K \in SUBSET Cached, NEW failed \in SUBSET K, Saves(K, failed)
    PROVE  /\ store' \in [Key -> Data]
           /\ fails' \in Nat /\ (fails' = 0 => fails = 0)
           /\ raced \subseteq raced'
           /\ \A k \in Key : IF k \in K \ failed THEN store'[k] = Held(k) /\ (Sending(k) => k \in raced')
                                             ELSE store'[k] = store[k]
<1>1. failed \subseteq K OBVIOUS
<1>2. IsFiniteSet(failed) BY <1>1, CacheAssumption, FS_Subset DEF CacheType
<1>3. Cardinality(failed) \in Nat BY <1>2, FS_CardinalityType
<1>4. fails' \in Nat /\ (fails' = 0 => fails = 0) BY <1>3 DEF Saves, CacheType
<1>5. \A k \in K : Held(k) \in Data BY DEF CacheType, Entry, Held
<1>6. store' = [k \in Key |-> IF k \in K \ failed THEN Held(k) ELSE store[k]] BY DEF Saves, StoredAfter
<1>7. store' \in [Key -> Data] BY <1>5, <1>6 DEF CacheType
<1>8. raced \subseteq raced' /\ \A k \in K \ failed : Sending(k) => k \in raced' BY DEF Saves
<1>9. QED BY <1>4, <1>6, <1>7, <1>8

LEMMA LeavesFacts ==
    ASSUME CacheType, NEW K, Leaves(K)
    PROVE  /\ store' \in [Key -> Data]
           /\ fails' \in Nat /\ (fails' = 0 => fails = 0)
           /\ raced \subseteq raced' /\ dropped \subseteq dropped'
           /\ \A k \in Key : IF k \in DirtyKeys(K) THEN SavedOrGivenUp(k) ELSE store'[k] = store[k]
<1>1. PICK failed \in Failures(DirtyKeys(K)) :
          Saves(DirtyKeys(K), failed) /\ dropped' = dropped \cup failed
    BY DEF Leaves
<1>2. DirtyKeys(K) \in SUBSET Cached BY DEF DirtyKeys
<1>3. \A k \in Key : IF k \in DirtyKeys(K) \ failed THEN store'[k] = Held(k) /\ (Sending(k) => k \in raced')
                                              ELSE store'[k] = store[k]
    BY <1>1, <1>2, SavesFacts DEF Failures
<1>4. QED BY <1>1, <1>2, <1>3, SavesFacts DEF SavedOrGivenUp, Failures

LEMMA PutFacts ==
    ASSUME CacheType, NEW K, NEW k \in Key, NEW e \in Entry, Put(K, k, e)
    PROVE  /\ DOMAIN entries' = (Cached \ K) \cup {k}
           /\ entries' \in [(Cached \ K) \cup {k} -> Entry]
           /\ entries'[k] = e
           /\ \A j \in Cached \ (K \cup {k}) : entries'[j] = entries[j]
BY DEF Put, CacheType

\* A key of which at most the entry leaves.
LEMMA KeyLeaves ==
    ASSUME CacheType, NEW k \in Key, KeyInv(k), Apart(k), NEW K, Leaves(K),
           k \in DOMAIN entries' <=> k \in Cached \ K,
           k \in Cached \ K => entries'[k] = entries[k] /\ heap[entries[k].obj] \subseteq heap'[entries[k].obj]
    PROVE  KeyInv(k)' /\ \A data : Fresh(k, data) => Fresh(k, data)'
<1>1. IF k \in DirtyKeys(K) THEN SavedOrGivenUp(k) ELSE store'[k] = store[k] BY LeavesFacts
<1>2. CASE k \in Cached \cap K
    <2>1. k \in DirtyKeys(K) <=> entries[k].dirty BY <1>2 DEF DirtyKeys
    <2>2. GoesAway(k) BY <1>1, <1>2, <2>1 DEF GoesAway
    <2>3. QED BY <2>2, KeyGoes
<1>3. CASE k \notin Cached \cap K
    <2>1. k \notin DirtyKeys(K) BY <1>3 DEF DirtyKeys
    <2>2. Stays(k) BY <1>1, <1>3, <2>1 DEF Stays
    <2>3. QED BY <2>2, KeyStays
<1>4. QED BY <1>2, <1>3

\* removeEntry of the keys of K: nothing that is marked is lost.
LEMMA RemoveKeeps ==
    ASSUME CacheInv, NEW K, Leaves(K), entries' = [j \in Cached \ K |-> entries[j]],
           heap' = heap, done' = done, unmarked' = unmarked,
           flusher'.todo = flusher.todo, flusher'.sending = flusher.sending, flusher' \in Flusher
    PROVE  /\ CacheType' /\ (\A k \in Key : KeyInv(k)')
           /\ (\A k \in Key : \A data : Fresh(k, data) => Fresh(k, data)')
           /\ (fails' = 0 => fails = 0) /\ (\A k \in DOMAIN entries' : k \in Cached /\ entries'[k] = entries[k])
<1>1. CacheType BY DEF CacheInv
<1>2. CacheType' BY <1>1, LeavesFacts DEF CacheType, Cached
<1>3. ASSUME NEW k \in Key PROVE KeyInv(k)' /\ \A data : Fresh(k, data) => Fresh(k, data)'
    <2>1. Apart(k) BY <1>1, LeavesFacts DEF Apart
    <2>2. QED BY <1>1, <2>1, KeyLeaves DEF CacheInv
<1>4. QED BY <1>1, <1>2, <1>3, LeavesFacts

\* The key that is set: with fresh data, and with changes D more if it is set dirty.
LEMMA KeySet ==
    ASSUME NEW k \in Key, KeyInv(k), NEW data, Fresh(k, data), NEW D,
           Marked(k)' \subseteq Marked(k) \cup D,
           flusher'.todo = flusher.todo, flusher'.sending = flusher.sending,
           raced \subseteq raced', dropped \subseteq dropped', store'[k] = store[k],
           k \in DOMAIN entries', data \subseteq Held(k)', D \subseteq Held(k)',
           D = {} \/ entries'[k].dirty
    PROVE  KeyInv(k)'
<1>1. SUFFICES ASSUME k \notin raced', k \notin dropped' PROVE KeyInv(k)' BY DEF KeyInv
<1>2. ~Unsaved(k) /\ Marked(k) \subseteq data BY <1>1 DEF Fresh
<1>3. Marked(k)' \subseteq Held(k)' BY <1>2
<1>4. \A t \in flusher.todo : t.key # k BY <1>2 DEF Unsaved, Pending
<1>5. \A s \in flusher.sending : s.key # k BY <1>2 DEF Unsaved, Pending, Sending
<1>6. ASSUME NEW c \in Marked(k)' PROVE Kept(k, c)'
    <2>1. CASE c \in D BY <2>1 DEF Kept, Cached
    <2>2. CASE c \in Marked(k)
        <3>1. Kept(k, c) BY <1>1, <2>2 DEF KeyInv
        <3>2. ~(k \in Cached /\ entries[k].dirty) BY <1>2 DEF Unsaved, DirtyKeys
        <3>3. c \in store[k] BY <1>4, <1>5, <3>1, <3>2 DEF Kept
        <3>4. QED BY <3>3 DEF Kept
    <2>3. QED BY <2>1, <2>2
<1>7. QED BY <1>3, <1>4, <1>5, <1>6 DEF KeyInv

\* Set and SetClean of an object made of `held', which has the fresh data and D.
LEMMA SetObjectKeeps ==
    ASSUME CacheInv, NEW k \in Key, NEW data, Fresh(k, data), NEW held \in Data, NEW dirty \in BOOLEAN,
           NEW D, SetObject(k, held, dirty), data \subseteq held, D \subseteq held, D = {} \/ dirty,
           done' \in [Key -> Data], unmarked' \in [Key -> Data],
           \A j \in Key \ {k} : done'[j] = done[j] /\ unmarked'[j] = unmarked[j],
           Marked(k)' \subseteq Marked(k) \cup D, ~flusher.final
    PROVE  CacheInv' /\ \A j \in Key \ {k} : \A d : Fresh(j, d) => Fresh(j, d)'
<1>1. CacheType /\ FlushInv BY DEF CacheInv
<1>2. PICK o \in Unused : heap' = [heap EXCEPT ![o] = held] /\ (SetAgain(k, o, dirty) \/ SetNew(k, o, dirty))
    BY DEF SetObject
<1>3. o \in Object /\ (\A j \in Cached : entries[j].obj # o) /\ (\A t \in flusher.todo : t.obj # o)
    BY DEF Unused
<1>4. \A t \in flusher.todo : heap[t.obj] \subseteq heap'[t.obj]
    BY <1>1, <1>2, <1>3 DEF CacheType
<1>5. \A j \in Cached : heap[entries[j].obj] \subseteq heap'[entries[j].obj]
    BY <1>1, <1>2, <1>3 DEF CacheType
<1>6. heap' \in [Object -> Data] /\ heap'[o] = held BY <1>1, <1>2, <1>3 DEF CacheType
<1>7. flusher' = flusher BY <1>2 DEF SetAgain, SetNew
<1>8. CASE SetAgain(k, o, dirty)
    <2> DEFINE e == [obj |-> o, dirty |-> entries[k].dirty \/ dirty, expired |-> FALSE]
    <2>1. k \in Cached /\ Put({}, k, e) /\ UNCHANGED <<store, fails, raced, dropped>>
        BY <1>8 DEF SetAgain, ghostVars
    <2>2. e \in Entry BY <1>1, <1>3, <2>1 DEF CacheType, Entry
    <2>3. /\ DOMAIN entries' = Cached /\ entries' \in [Cached -> Entry] /\ entries'[k] = e
          /\ \A j \in Cached \ {k} : entries'[j] = entries[j]
        <3> HIDE DEF e
        <3>1. /\ DOMAIN entries' = (Cached \ {}) \cup {k}
              /\ entries' \in [(Cached \ {}) \cup {k} -> Entry]
              /\ entries'[k] = e
              /\ \A j \in Cached \ ({} \cup {k}) : entries'[j] = entries[j]
            BY ONLY <1>1, <2>1, <2>2, k \in Key, PutFacts
        <3>2. (Cached \ {}) \cup {k} = Cached BY <2>1
        <3>3. QED BY <3>1, <3>2
    <2>4. CacheType' BY <1>1, <1>6, <1>7, <2>1, <2>3 DEF CacheType, Cached
    <2>5. ASSUME NEW j \in Key \ {k} PROVE KeyInv(j)' /\ \A d : Fresh(j, d) => Fresh(j, d)'
        <3>1. Apart(j) BY <1>4, <1>7, <2>1 DEF Apart
        <3>2. Stays(j) BY <1>5, <2>1, <2>3 DEF Stays
        <3>3. KeyInv(j) BY DEF CacheInv
        <3>4. QED BY <3>1, <3>2, <3>3, KeyStays
    <2>6. Held(k)' = held BY <1>6, <2>3 DEF Held
    <2>7. KeyInv(k)
        BY DEF CacheInv
    <2>8. D = {} \/ entries'[k].dirty BY <2>3
    <2>9. KeyInv(k)' BY <1>7, <2>1, <2>3, <2>6, <2>7, <2>8, KeySet
    <2>10. FlushInv' BY <1>1, <1>7 DEF FlushInv
    <2>11. QED BY <2>4, <2>5, <2>9, <2>10 DEF CacheInv
<1>9. CASE SetNew(k, o, dirty)
    <2> DEFINE e == [obj |-> o, dirty |-> dirty, expired |-> FALSE]
    <2>1. k \notin Cached /\ Leaves(Evicted) /\ Put(Evicted, k, e) BY <1>9 DEF SetNew
    <2>2. e \in Entry BY <1>3 DEF Entry
    <2>3. /\ DOMAIN entries' = (Cached \ Evicted) \cup {k} /\ entries' \in [(Cached \ Evicted) \cup {k} -> Entry]
          /\ entries'[k] = e /\ \A j \in Cached \ (Evicted \cup {k}) : entries'[j] = entries[j]
        <3> HIDE DEF e
        <3>1. QED BY ONLY <1>1, <2>1, <2>2, k \in Key, PutFacts
    <2>4. /\ store' \in [Key -> Data] /\ fails' \in Nat
          /\ raced \subseteq raced' /\ dropped \subseteq dropped'
          /\ \A j \in Key : j \notin Cached => store'[j] = store[j]
        BY <1>1, <2>1, LeavesFacts DEF DirtyKeys
    <2>5. CacheType' BY <1>1, <1>6, <1>7, <2>3, <2>4 DEF CacheType, Cached
    <2>6. ASSUME NEW j \in Key \ {k} PROVE KeyInv(j)' /\ \A d : Fresh(j, d) => Fresh(j, d)'
        <3>1. Apart(j) BY <1>4, <1>7, <2>4 DEF Apart
        <3>2. KeyInv(j) BY DEF CacheInv
        <3>3. j \in DOMAIN entries' <=> j \in Cached \ Evicted BY <2>3
        <3>4. j \in Cached \ Evicted =>
                  entries'[j] = entries[j] /\ heap[entries[j].obj] \subseteq heap'[entries[j].obj]
            BY <1>5, <2>3
        <3>5. QED BY <1>1, <2>1, <3>1, <3>2, <3>3, <3>4, KeyLeaves
    <2>7. Held(k)' = held BY <1>6, <2>3 DEF Held
    <2>8. KeyInv(k) BY DEF CacheInv
    <2>9. D = {} \/ entries'[k].dirty BY <2>3
    <2>10. store'[k] = store[k] BY <2>1, <2>4
    <2>11. KeyInv(k)' BY <1>7, <2>3, <2>4, <2>7, <2>8, <2>9, <2>10, KeySet
    <2>12. FlushInv' BY <1>1, <1>7 DEF FlushInv
    <2>13. QED BY <2>5, <2>6, <2>11, <2>12 DEF CacheInv
<1>10. QED BY <1>2, <1>8, <1>9

\* SetClean: with data that is fresh.
LEMMA SetCleanKeeps ==
    ASSUME CacheInv, NEW k \in Key, NEW data \in Data, Fresh(k, data), SetObject(k, data, FALSE),
           done' = done, unmarked' = unmarked, ~flusher.final
    PROVE  CacheInv' /\ \A j \in Key \ {k} : \A d : Fresh(j, d) => Fresh(j, d)'
<1> DEFINE dirty == FALSE
<1> DEFINE D == {}
<1>1. /\ D = {} \/ dirty
      /\ data \subseteq data /\ D \subseteq data /\ dirty \in BOOLEAN /\ SetObject(k, data, dirty)
    OBVIOUS
<1>2. /\ done' \in [Key -> Data] /\ unmarked' \in [Key -> Data]
      /\ \A j \in Key \ {k} : done'[j] = done[j] /\ unmarked'[j] = unmarked[j]
      /\ Marked(k)' \subseteq Marked(k) \cup D
    BY DEF CacheInv, CacheType, Marked
<1> HIDE DEF dirty, D
<1>3. QED BY <1>1, <1>2, SetObjectKeeps

\* Set: with data that is fresh, or changed.
LEMMA SetDirtyKeeps ==
    ASSUME CacheInv, NEW k \in Key, NEW data, Fresh(k, data), NEW held \in Data,
           NEW D, SetObject(k, held, TRUE), data \subseteq held, D \subseteq held,
           done' \in [Key -> Data], unmarked' \in [Key -> Data],
           \A j \in Key \ {k} : done'[j] = done[j] /\ unmarked'[j] = unmarked[j],
           Marked(k)' \subseteq Marked(k) \cup D, ~flusher.final
    PROVE  CacheInv' /\ \A j \in Key \ {k} : \A d : Fresh(j, d) => Fresh(j, d)'
<1> DEFINE dirty == TRUE
<1>1. (D = {} \/ dirty) /\ dirty \in BOOLEAN /\ SetObject(k, held, dirty) OBVIOUS
<1> HIDE DEF dirty
<1>2. QED BY <1>1, SetObjectKeeps

\* A handler changes the object of k; the change is marked if the entry is dirty after it.
LEMMA KeyChanges ==
    ASSUME NEW k \in Key, KeyInv(k), k \in Cached, k \in DOMAIN entries',
           entries'[k].obj = entries[k].obj, entries[k].dirty => entries'[k].dirty,
           Marked(k)' \subseteq Marked(k) \/ entries'[k].dirty,
           k \notin raced \cup dropped => Marked(k)' \subseteq Held(k)',
           flusher' = flusher, store' = store, raced' = raced, dropped' = dropped,
           \A t \in flusher.todo : heap[t.obj] \subseteq heap'[t.obj]
    PROVE  KeyInv(k)'
<1>1. SUFFICES ASSUME k \notin raced', k \notin dropped' PROVE KeyInv(k)' BY DEF KeyInv
<1>2. Marked(k)' \subseteq Held(k)' BY <1>1
<1>3. ASSUME NEW c \in Marked(k)', ~entries'[k].dirty
      PROVE  \/ c \in store[k]
             \/ \E t \in flusher.todo : t.key = k /\ c \in heap[t.obj]
             \/ \E s \in flusher.sending : s.key = k /\ c \in s.data
    <2>1. Kept(k, c) BY <1>1, <1>3 DEF KeyInv
    <2>2. QED BY <1>3, <2>1 DEF Kept
<1>4. \A c \in Marked(k)' : Kept(k, c)' BY <1>2, <1>3 DEF Kept, Cached
<1>5. ASSUME NEW t \in flusher.todo, t.key = k
      PROVE  Marked(k)' \subseteq heap'[t.obj] /\ entries'[k].obj = t.obj
    BY <1>1, <1>2, <1>5 DEF KeyInv, Held
<1>6. ASSUME NEW s \in flusher.sending, s.key = k, NEW c \in Marked(k)'
      PROVE  c \in s.data \/ (entries'[k].dirty /\ c \in Held(k)')
    BY <1>1, <1>2, <1>6 DEF KeyInv
<1>7. QED BY <1>2, <1>4, <1>5, <1>6 DEF KeyInv, Cached

-----------------------------------------------------------------------------
(* The flush. *)

\* A step of the cache alone keeps the invariant and whatever is fresh.
Keeps == CacheInv' /\ \A k \in Key : \A data : Fresh(k, data) => Fresh(k, data)'

\* What StartFlush and FlushLast have in common: what is dirty is noted and marked clean.
Notes ==
    /\ flusher.phase = "idle" /\ flusher'.phase = "saving"
    /\ flusher' \in Flusher /\ flusher'.sending = flusher.sending
    /\ flusher'.todo = {[key |-> k, obj |-> entries[k].obj] : k \in DirtyKeys(Cached)}
    /\ entries' = [k \in Cached |-> [entries[k] EXCEPT !.dirty = FALSE]]
    /\ UNCHANGED <<heap, store, fails, raced, dropped, done, unmarked>>

LEMMA NotesKeep ==
    ASSUME CacheInv, Notes
    PROVE  /\ CacheType' /\ (\A k \in Key : KeyInv(k)')
           /\ (\A k \in Key : \A data : Fresh(k, data) => Fresh(k, data)')
           /\ (\A k \in DOMAIN entries' : ~entries'[k].dirty) /\ flusher'.sending = {}
<1>1. CacheType /\ flusher.todo = {} /\ flusher.sending = {} BY DEF CacheInv, FlushInv, Notes
<1>2. DOMAIN entries' = Cached BY DEF Notes
<1>3. \A k \in Cached : /\ entries'[k] \in Entry /\ entries'[k].obj = entries[k].obj
                        /\ entries'[k].dirty = FALSE
    BY <1>1 DEF Notes, CacheType, Entry
<1>4. entries' \in [Cached -> Entry] BY <1>3 DEF Notes
<1>5. CacheType' BY <1>1, <1>2, <1>4 DEF CacheType, Notes, Cached
<1>6. ASSUME NEW k \in Key PROVE KeyInv(k)' /\ \A data : Fresh(k, data) => Fresh(k, data)'
    <2>1. Marked(k)' = Marked(k) BY DEF Notes, Marked
    <2>2. k \in Cached => Held(k)' = Held(k) BY <1>3 DEF Held, Notes
    <2>3. KeyInv(k)'
        <3>1. SUFFICES ASSUME k \notin raced, k \notin dropped PROVE KeyInv(k)' BY DEF KeyInv, Notes
        <3>2. KeyInv(k) BY DEF CacheInv
        <3>3. k \in Cached => Marked(k)' \subseteq Held(k)' BY <2>1, <2>2, <3>1, <3>2 DEF KeyInv
        <3>4. ASSUME NEW t \in flusher'.todo, t.key = k
              PROVE  k \in Cached /\ t.obj = entries[k].obj
            BY <3>4 DEF Notes, DirtyKeys
        <3>5. ASSUME NEW c \in Marked(k)' PROVE Kept(k, c)'
            <4>1. Kept(k, c) BY <2>1, <3>1, <3>2 DEF KeyInv
            <4>2. CASE c \in store[k] BY <4>2 DEF Kept, Notes
            <4>3. CASE k \in Cached /\ entries[k].dirty /\ c \in Held(k)
                <5>1. k \in DirtyKeys(Cached) BY <4>3 DEF DirtyKeys
                <5>2. [key |-> k, obj |-> entries[k].obj] \in flusher'.todo BY <5>1 DEF Notes
                <5>3. c \in heap'[entries[k].obj] BY <4>3 DEF Held, Notes
                <5>4. QED BY <5>2, <5>3 DEF Kept
            <4>4. QED BY <1>1, <4>1, <4>2, <4>3 DEF Kept
        <3>6. ASSUME NEW t \in flusher'.todo, t.key = k
              PROVE  Marked(k)' \subseteq heap'[t.obj] /\ (k \in DOMAIN entries' => entries'[k].obj = t.obj)
            <4>1. k \in Cached /\ t.obj = entries[k].obj BY <3>4, <3>6
            <4>2. heap'[t.obj] = Held(k)' BY <1>3, <4>1 DEF Held
            <4>3. QED BY <1>3, <3>3, <4>1, <4>2
        <3>7. flusher'.sending = {} BY <1>1 DEF Notes
        <3>8. QED BY <1>2, <3>3, <3>5, <3>6, <3>7 DEF KeyInv, Cached
    <2>4. Unsaved(k)' => Unsaved(k)
        <3>1. ~Sending(k)' BY <1>1 DEF Sending, Notes
        <3>2. (\E t \in flusher'.todo : t.key = k) => k \in DirtyKeys(Cached) BY DEF Notes
        <3>3. ~(k \in DirtyKeys(Cached))' BY <1>2, <1>3 DEF DirtyKeys, Cached
        <3>4. QED BY <3>1, <3>2, <3>3 DEF Unsaved, Pending
    <2>5. ASSUME NEW data, Fresh(k, data) PROVE Fresh(k, data)'
        BY <2>1, <2>4, <2>5 DEF Fresh, Notes
    <2>6. QED BY <2>3, <2>5
<1>7. QED BY <1>1, <1>2, <1>3, <1>5, <1>6 DEF Notes

\* SaveFunc has marshalled the object.
LEMMA SendKeeps ==
    ASSUME CacheInv, NEW t \in flusher.todo, Send(t), UNCHANGED ownerVars
    PROVE  Keeps
<1>1. CacheType /\ FlushInv BY DEF CacheInv
<1>2. t \in [key : Key, obj : Object] /\ flusher.phase = "saving"
    BY <1>1 DEF CacheType, Flusher, FlushInv
<1>3. heap[t.obj] \in Data BY <1>1, <1>2 DEF CacheType
<1>4. /\ flusher' \in Flusher /\ flusher'.todo = flusher.todo \ {t}
      /\ flusher'.sending = {[key |-> t.key, data |-> heap[t.obj]]} /\ flusher.sending = {}
      /\ flusher'.phase = "saving" /\ flusher'.final = flusher.final
    <2>1. flusher \in Flusher BY <1>1 DEF CacheType
    <2>2. [key |-> t.key, data |-> heap[t.obj]] \in [key : Key, data : Data] BY <1>2, <1>3
    <2>3. {[key |-> t.key, data |-> heap[t.obj]]} \in SUBSET [key : Key, data : Data] BY <2>2
    <2>4. flusher' = [flusher EXCEPT !.todo = @ \ {t}, !.sending = {[key |-> t.key, data |-> heap[t.obj]]}]
        BY DEF Send
    <2>5. flusher.todo \ {t} \in SUBSET [key : Key, obj : Object] BY <2>1 DEF Flusher
    <2>6. QED BY <1>2, <2>1, <2>3, <2>4, <2>5 DEF Send, Flusher
<1>5. /\ entries' = entries /\ heap' = heap /\ store' = store /\ fails' = fails
      /\ raced' = raced /\ dropped' = dropped /\ done' = done /\ unmarked' = unmarked /\ owner' = owner
    BY DEF Send, ghostVars, ownerVars
<1>6. CacheType' BY <1>1, <1>4, <1>5 DEF CacheType, Cached
<1>7. FlushInv' BY <1>1, <1>4, <1>5 DEF FlushInv, Cached
<1>8. ASSUME NEW k \in Key PROVE KeyInv(k)' /\ \A data : Fresh(k, data) => Fresh(k, data)'
    <2>1. Marked(k)' = Marked(k) /\ (k \in Cached => Held(k)' = Held(k)) BY <1>5 DEF Marked, Held
    <2>2. KeyInv(k)'
        <3>1. SUFFICES ASSUME k \notin raced, k \notin dropped PROVE KeyInv(k)' BY <1>5 DEF KeyInv
        <3>2. KeyInv(k) BY DEF CacheInv
        <3>3. ASSUME NEW c \in Marked(k) PROVE Kept(k, c)'
            <4>1. Kept(k, c) BY <3>1, <3>2 DEF KeyInv
            <4>2. CASE t.key = k /\ c \in heap[t.obj]
                <5>1. \E s \in flusher'.sending : s.key = k /\ c \in s.data BY <1>4, <4>2
                <5>2. QED BY <5>1 DEF Kept
            <4>3. CASE ~(t.key = k /\ c \in heap[t.obj])
                <5>1. (\E u \in flusher.todo : u.key = k /\ c \in heap[u.obj]) =>
                          \E u \in flusher'.todo : u.key = k /\ c \in heap'[u.obj]
                    BY <1>4, <1>5, <4>3
                <5>2. QED BY <1>4, <1>5, <2>1, <4>1, <5>1 DEF Kept, Cached
            <4>4. QED BY <4>2, <4>3
        <3>4. ASSUME NEW s \in flusher'.sending, s.key = k PROVE Marked(k) \subseteq s.data
            BY <1>4, <3>1, <3>2, <3>4 DEF KeyInv
        <3>5. \A u \in flusher'.todo : u.key = k =>
                  Marked(k) \subseteq heap'[u.obj] /\ (k \in DOMAIN entries' => entries'[k].obj = u.obj)
            BY <1>4, <1>5, <3>1, <3>2 DEF KeyInv, Cached
        <3>6. k \in Cached => Marked(k) \subseteq Held(k) BY <3>1, <3>2 DEF KeyInv
        <3>7. QED BY <1>5, <2>1, <3>3, <3>4, <3>5, <3>6 DEF KeyInv, Cached
    <2>3. Unsaved(k)' => Unsaved(k)
        <3>1. Pending(k)' => Pending(k) BY <1>4 DEF Pending, Sending
        <3>2. (k \in DirtyKeys(Cached))' => k \in DirtyKeys(Cached) BY <1>5 DEF DirtyKeys, Cached
        <3>3. QED BY <3>1, <3>2 DEF Unsaved
    <2>4. ASSUME NEW data, Fresh(k, data) PROVE Fresh(k, data)' BY <1>5, <2>1, <2>3, <2>4 DEF Fresh
    <2>5. QED BY <2>2, <2>4
<1>9. QED BY <1>6, <1>7, <1>8 DEF Keeps, CacheInv

\* Redis has what was sent; or it has failed, and the entry is dirty again.
LEMMA SentKeeps ==
    ASSUME CacheInv, NEW s \in flusher.sending, Sent(s) \/ SendFails(s), UNCHANGED ownerVars
    PROVE  Keeps
<1>1. CacheType /\ FlushInv BY DEF CacheInv
<1>2. /\ s \in [key : Key, data : Data] /\ flusher.phase = "saving"
      /\ \A u \in flusher.sending : u = s
    BY <1>1 DEF CacheType, Flusher, FlushInv
<1>3. /\ flusher' \in Flusher /\ flusher'.todo = flusher.todo /\ flusher'.sending = {}
      /\ flusher'.phase = "saving" /\ flusher'.final = flusher.final
    BY <1>1, <1>2 DEF Sent, SendFails, CacheType, Flusher
<1>4. /\ heap' = heap /\ raced' = raced /\ dropped \subseteq dropped'
      /\ done' = done /\ unmarked' = unmarked /\ owner' = owner
    BY DEF Sent, SendFails, ghostVars, ownerVars
<1>5. /\ DOMAIN entries' = Cached /\ entries' \in [Cached -> Entry]
      /\ \A k \in Cached : entries'[k].obj = entries[k].obj
      /\ \A k \in Cached : k # s.key => entries'[k].dirty = entries[k].dirty
      /\ \A k \in Cached : entries[k].dirty => entries'[k].dirty
    <2>1. entries \in [Cached -> Entry] BY <1>1 DEF CacheType
    <2>2. CASE entries' = entries BY <2>1, <2>2 DEF Cached
    <2>3. CASE s.key \in Cached /\ entries' = [entries EXCEPT ![s.key].dirty = TRUE]
        <3>1. [entries[s.key] EXCEPT !.dirty = TRUE] \in Entry BY <2>1, <2>3 DEF Entry
        <3>2. entries' \in [Cached -> Entry] BY <2>1, <2>3, <3>1
        <3>3. entries'[s.key].obj = entries[s.key].obj /\ entries'[s.key].dirty
            BY <2>1, <2>3 DEF Entry
        <3>4. \A k \in Cached : k # s.key => entries'[k] = entries[k] BY <2>1, <2>3
        <3>5. QED BY <3>2, <3>3, <3>4
    <2>4. QED BY <2>2, <2>3 DEF Sent, SendFails
<1>6. /\ store' \in [Key -> Data] /\ \A k \in Key : k # s.key => store'[k] = store[k]
      /\ \/ store'[s.key] = s.data
         \/ /\ store' = store /\ fails' # 0
            /\ s.key \in dropped' \/ (s.key \in Cached /\ entries'[s.key].dirty)
      /\ fails' \in Nat /\ (fails' = 0 => fails = 0 /\ entries' = entries)
    BY <1>1, <1>2 DEF Sent, SendFails, CacheType, Entry, ghostVars
<1>7. CacheType' BY <1>1, <1>3, <1>4, <1>5, <1>6 DEF CacheType, Cached
<1>8. FlushInv' BY <1>1, <1>3, <1>4, <1>5, <1>6 DEF FlushInv, Cached
<1>9. ASSUME NEW k \in Key PROVE KeyInv(k)' /\ \A data : Fresh(k, data) => Fresh(k, data)'
    <2>1. Marked(k)' = Marked(k) /\ (k \in Cached => Held(k)' = Held(k)) BY <1>4, <1>5 DEF Marked, Held
    <2>2. KeyInv(k)'
        <3>1. SUFFICES ASSUME k \notin raced, k \notin dropped' PROVE KeyInv(k)' BY <1>4 DEF KeyInv
        <3>2. k \notin dropped BY <1>4, <3>1
        <3>3. KeyInv(k) BY DEF CacheInv
        <3>4. k \in Cached => Marked(k) \subseteq Held(k) BY <3>1, <3>2, <3>3 DEF KeyInv
        <3>5. \A t \in flusher'.todo : t.key = k =>
                  Marked(k) \subseteq heap'[t.obj] /\ (k \in DOMAIN entries' => entries'[k].obj = t.obj)
            BY <1>3, <1>4, <1>5, <3>1, <3>2, <3>3 DEF KeyInv
        <3>6. ASSUME NEW c \in Marked(k) PROVE Kept(k, c)'
            <4>1. Kept(k, c) BY <3>1, <3>2, <3>3 DEF KeyInv
            <4>2. CASE k \in Cached /\ entries[k].dirty /\ c \in Held(k)
                BY <1>5, <2>1, <4>2 DEF Kept, Cached
            <4>3. CASE \E t \in flusher.todo : t.key = k /\ c \in heap[t.obj]
                BY <1>3, <1>4, <4>3 DEF Kept
            <4>4. CASE k = s.key /\ ~(k \in Cached /\ entries[k].dirty /\ c \in Held(k))
                <5>1. c \in s.data BY <3>1, <3>2, <3>3, <4>4 DEF KeyInv
                <5>2. CASE store'[s.key] = s.data BY <4>4, <5>1, <5>2 DEF Kept
                <5>3. CASE s.key \in Cached /\ entries'[s.key].dirty
                    BY <1>5, <2>1, <3>4, <4>4, <5>3 DEF Kept, Cached
                <5>4. QED BY <1>6, <3>1, <4>4, <5>2, <5>3
            <4>5. CASE k # s.key /\ c \in store[k] BY <1>6, <4>5 DEF Kept
            <4>6. QED BY <1>2, <4>1, <4>2, <4>3, <4>4, <4>5 DEF Kept
        <3>7. QED BY <1>3, <1>5, <2>1, <3>4, <3>5, <3>6 DEF KeyInv, Cached
    <2>3. ASSUME NEW data, Fresh(k, data) PROVE Fresh(k, data)'
        <3>1. SUFFICES ASSUME k \notin raced, k \notin dropped' PROVE ~Unsaved(k)' /\ Marked(k) \subseteq data
            BY <1>4, <2>1 DEF Fresh
        <3>2. ~Unsaved(k) /\ Marked(k) \subseteq data BY <1>4, <2>3, <3>1 DEF Fresh
        <3>3. k # s.key BY <3>2 DEF Unsaved, Pending, Sending
        <3>4. ~Pending(k)' BY <1>3, <3>2 DEF Unsaved, Pending, Sending
        <3>5. ~(k \in DirtyKeys(Cached))' BY <1>5, <3>2, <3>3 DEF Unsaved, DirtyKeys, Cached
        <3>6. QED BY <3>2, <3>4, <3>5 DEF Unsaved
    <2>4. QED BY <2>2, <2>3
<1>10. QED BY <1>7, <1>8, <1>9 DEF Keeps, CacheInv

\* Whatever the flush goroutine does.
LEMMA FlusherKeeps == ASSUME CacheInv, FlusherStep PROVE Keeps /\ UNCHANGED ownerVars
<1>1. CacheType /\ FlushInv /\ flusher \in Flusher BY DEF CacheInv, CacheType
<1>2. UNCHANGED ownerVars BY DEF FlusherStep
<1>3. owner' = owner /\ done' = done /\ unmarked' = unmarked BY <1>2 DEF ownerVars
<1>4. CASE StartFlush \/ (owner.pc = "stopped" /\ FlushLast)
    <2> DEFINE todo == {[key |-> k, obj |-> entries[k].obj] : k \in DirtyKeys(Cached)}
    <2>0. \A k \in DirtyKeys(Cached) : k \in Key /\ entries[k].obj \in Object
        BY <1>1 DEF DirtyKeys, CacheType, Entry
    <2>1. todo \in SUBSET [key : Key, obj : Object] BY <2>0
    <2>2. /\ flusher.phase = "idle" /\ flusher'.phase = "saving"
          /\ flusher' \in Flusher /\ flusher'.sending = flusher.sending
          /\ flusher'.todo = {[key |-> k, obj |-> entries[k].obj] : k \in DirtyKeys(Cached)}
          /\ flusher'.final => flusher.final \/ owner.pc = "stopped"
        BY <1>1, <1>4, <2>1 DEF StartFlush, FlushLast, Flusher
    <2> HIDE DEF todo
    <2>3. Notes BY <1>3, <1>4, <2>2 DEF Notes, StartFlush, FlushLast, ghostVars
    <2>4. FlushInv' BY <1>1, <1>3, <2>2, <2>3, NotesKeep DEF FlushInv, Cached
    <2>5. QED BY <1>2, <2>3, <2>4, NotesKeep DEF Keeps, CacheInv
<1>5. ASSUME NEW t \in flusher.todo, Send(t) PROVE Keeps BY <1>2, <1>5, SendKeeps
<1>6. ASSUME NEW s \in flusher.sending, Sent(s) \/ SendFails(s) PROVE Keeps BY <1>2, <1>6, SentKeeps
<1>7. CASE CleanExpired
    <2> DEFINE K == {k \in Cached : entries[k].expired}
    <2>1. /\ Leaves(K) /\ entries' = [j \in Cached \ K |-> entries[j]] /\ heap' = heap
          /\ flusher' = [flusher EXCEPT !.phase = "idle"]
          /\ flusher.todo = {} /\ flusher.sending = {} /\ ~flusher.final
        BY <1>7 DEF CleanExpired, Flushed
    <2>2. flusher'.todo = flusher.todo /\ flusher'.sending = flusher.sending /\ flusher' \in Flusher
        BY <1>1, <2>1 DEF Flusher
    <2>3. ~flusher'.final /\ flusher'.phase = "idle" BY <1>1, <2>1 DEF Flusher
    <2>4. FlushInv' BY <2>1, <2>2, <2>3 DEF FlushInv
    <2> HIDE DEF K
    <2>5. CacheType' /\ (\A k \in Key : KeyInv(k)')
          /\ (\A k \in Key : \A data : Fresh(k, data) => Fresh(k, data)')
        BY <1>3, <2>1, <2>2, RemoveKeeps
    <2>6. QED BY <1>2, <2>4, <2>5 DEF Keeps, CacheInv
<1>8. CASE Closed
    <2>1. /\ flusher' = [flusher EXCEPT !.phase = "closed"] /\ flusher.todo = {} /\ flusher.sending = {}
          /\ flusher.final
          /\ UNCHANGED <<entries, heap, store, fails, raced, dropped>>
        BY <1>8 DEF Closed, Flushed, ghostVars
    <2>2. /\ flusher'.todo = flusher.todo /\ flusher'.sending = flusher.sending /\ flusher' \in Flusher
          /\ flusher'.final /\ flusher'.phase = "closed"
        BY <1>1, <2>1 DEF Flusher
    <2>3. FlushInv' BY <1>1, <1>3, <2>1, <2>2 DEF FlushInv, Cached
    <2>4. CacheType' BY <1>1, <1>3, <2>1, <2>2 DEF CacheType, Cached
    <2>5. ASSUME NEW k \in Key PROVE KeyInv(k)' /\ \A data : Fresh(k, data) => Fresh(k, data)'
        <3>1. Apart(k) /\ Stays(k) BY <1>3, <2>1, <2>2 DEF Apart, Stays, Cached
        <3>2. QED BY <3>1, KeyStays DEF CacheInv
    <2>6. QED BY <1>2, <2>3, <2>4, <2>5 DEF Keeps, CacheInv
<1>9. Keeps BY <1>4, <1>5, <1>6, <1>7, <1>8 DEF FlusherStep, Flushes
<1>10. QED BY <1>2, <1>9

\* An entry expires.
LEMMA ClockKeeps == ASSUME CacheInv, ClockStep PROVE Keeps /\ UNCHANGED ownerVars
<1>1. CacheType /\ FlushInv BY DEF CacheInv
<1>2. PICK k \in Key : Expire(k) /\ UNCHANGED ownerVars BY DEF ClockStep
<1>3. /\ k \in Cached /\ entries' = [entries EXCEPT ![k].expired = TRUE]
      /\ UNCHANGED <<heap, store, flusher, fails, raced, dropped, owner, done, unmarked>>
    BY <1>2 DEF Expire, Live, ghostVars, ownerVars
<1>4. entries \in [Cached -> Entry] BY <1>1 DEF CacheType
<1>5. [entries[k] EXCEPT !.expired = TRUE] \in Entry BY <1>3, <1>4 DEF Entry
<1>6. entries' \in [Cached -> Entry] /\ DOMAIN entries' = Cached BY <1>3, <1>4, <1>5
<1>7. \A j \in Cached : entries'[j].obj = entries[j].obj /\ entries'[j].dirty = entries[j].dirty
    BY <1>3, <1>4 DEF Entry
<1>8. CacheType' BY <1>1, <1>3, <1>6 DEF CacheType, Cached
<1>9. FlushInv' BY <1>1, <1>3, <1>6, <1>7 DEF FlushInv, Cached
<1>10. ASSUME NEW j \in Key PROVE KeyInv(j)' /\ \A data : Fresh(j, data) => Fresh(j, data)'
    <2>1. Apart(j) /\ Stays(j) BY <1>3, <1>6, <1>7 DEF Apart, Stays
    <2>2. QED BY <2>1, KeyStays DEF CacheInv
<1>11. QED BY <1>2, <1>8, <1>9, <1>10 DEF Keeps, CacheInv

\* A step that the loads do not see leaves what is being loaded alone.
LEMMA LoadStays ==
    ASSUME LoadInv, Keeps, owner' = owner, DOMAIN entries' = Cached
    PROVE  LoadInv'
BY DEF LoadInv, Keeps, Cached, Owner

-----------------------------------------------------------------------------
(* The actor. *)

\* A handler changes k's object: the change is marked if the entry is dirty after it.
LEMMA ChangeKeeps ==
    ASSUME CacheInv, NEW k \in Key, NEW c \in Change, Changes(k, c),
           entries' \in [Cached -> Entry], \A j \in Cached \ {k} : entries'[j] = entries[j],
           entries'[k].obj = entries[k].obj, entries[k].dirty => entries'[k].dirty,
           UNCHANGED <<store, flusher, fails, raced, dropped>>,
           unmarked' \in [Key -> Data], \A j \in Key \ {k} : unmarked'[j] = unmarked[j],
           Marked(k)' \subseteq Marked(k) \/ (entries'[k].dirty /\ Marked(k)' \subseteq Marked(k) \cup Held(k) \cup {c})
    PROVE  CacheInv' /\ owner' = owner /\ owner.pc = "ready"
<1>1. CacheType /\ FlushInv BY DEF CacheInv
<1>2. /\ owner' = owner /\ owner.pc = "ready" /\ k \in Cached
      /\ heap' = [heap EXCEPT ![entries[k].obj] = @ \cup {c}]
      /\ done' = [done EXCEPT ![k] = @ \cup {c}]
    BY DEF Changes, Live
<1>3. /\ heap' \in [Object -> Data] /\ \A o \in Object : heap[o] \subseteq heap'[o]
      /\ heap'[entries[k].obj] = heap[entries[k].obj] \cup {c}
    BY <1>1, <1>2 DEF CacheType, Entry, Data
<1>4. done' \in [Key -> Data] /\ \A j \in Key \ {k} : done'[j] = done[j] BY <1>1, <1>2 DEF CacheType, Data
<1>5. DOMAIN entries' = Cached OBVIOUS
<1>6. CacheType' BY <1>1, <1>3, <1>4, <1>5 DEF CacheType, Cached
<1>7. ~flusher.final BY <1>1, <1>2 DEF FlushInv
<1>8. FlushInv' BY <1>1, <1>7 DEF FlushInv
<1>9. \A t \in flusher.todo : heap[t.obj] \subseteq heap'[t.obj] BY <1>1, <1>3 DEF CacheType, Flusher
<1>10. \A j \in Cached : heap[entries[j].obj] \subseteq heap'[entries[j].obj] BY <1>1, <1>3 DEF CacheType, Entry
<1>11. ASSUME NEW j \in Key \ {k} PROVE KeyInv(j)'
    <2>1. Apart(j) BY <1>4, <1>9 DEF Apart
    <2>2. Stays(j) BY <1>5, <1>10 DEF Stays
    <2>3. QED BY <2>1, <2>2, KeyStays DEF CacheInv
<1>12. KeyInv(k)'
    <2>1. KeyInv(k) BY DEF CacheInv
    <2>2. Held(k)' = Held(k) \cup {c} BY <1>3 DEF Held
    <2>3. k \notin raced \cup dropped => Marked(k)' \subseteq Held(k)' BY <1>2, <2>1, <2>2 DEF KeyInv
    <2>4. QED BY <1>2, <1>5, <1>9, <2>1, <2>3, KeyChanges
<1>13. QED BY <1>2, <1>6, <1>8, <1>11, <1>12 DEF CacheInv

\* A step that only reads, or only fails.
LEMMA IdleKeeps ==
    ASSUME CacheInv, UNCHANGED <<entries, heap, store, flusher, done, unmarked>>,
           raced \subseteq raced', dropped \subseteq dropped', fails' \in Nat, fails' = 0 => fails = 0,
           flusher.final => owner'.pc = "stopped"
    PROVE  Keeps
<1>1. CacheType /\ FlushInv BY DEF CacheInv
<1>2. CacheType' BY <1>1 DEF CacheType, Cached
<1>3. FlushInv' BY <1>1 DEF FlushInv, Cached
<1>4. ASSUME NEW k \in Key PROVE KeyInv(k)' /\ \A data : Fresh(k, data) => Fresh(k, data)'
    <2>1. Apart(k) /\ Stays(k) BY DEF Apart, Stays, Cached
    <2>2. QED BY <2>1, KeyStays DEF CacheInv
<1>5. QED BY <1>2, <1>3, <1>4 DEF Keeps, CacheInv

LEMMA TouchFacts == ASSUME CacheType, NEW k \in Cached, Touch(k) PROVE entries' = entries
<1>1. entries \in [Cached -> Entry] BY DEF CacheType
<1>2. (Cached \ {}) \cup {k} = Cached OBVIOUS
<1>3. entries' = [j \in Cached |-> entries[j]] BY <1>2 DEF Touch, Put
<1>4. QED BY <1>1, <1>3

\* What Redis has of a key of which nothing is on its way.
LEMMA ReadIsFresh ==
    ASSUME NEW k \in Key, KeyInv(k), k \in raced \/ ~Unsaved(k) PROVE Fresh(k, store[k])
BY DEF KeyInv, Fresh, Kept, Unsaved, Pending, Sending, DirtyKeys

\* What a handler does that loads a player or looks at one, and the end of the actor.
LEMMA LoadKeeps == ASSUME CacheInv, LoadInv, LoadStep PROVE CacheInv' /\ LoadInv'
<1>1. CacheType /\ FlushInv /\ owner \in Owner BY DEF CacheInv, LoadInv
<1>2. ASSUME NEW k \in Key, Miss(k) PROVE CacheInv' /\ LoadInv'
    <2> DEFINE K == {k} \cap Cached
    <2>1. /\ owner.pc = "ready" /\ owner' = [pc |-> "reading", for |-> {k}, data |-> {}]
          /\ Leaves(K) /\ entries' = [j \in Cached \ K |-> entries[j]]
          /\ heap' = heap /\ flusher' = flusher /\ done' = done /\ unmarked' = unmarked
        BY <1>2 DEF Miss, Remove
    <2>2. FlushInv' BY <1>1, <2>1 DEF FlushInv
    <2>3. owner' \in Owner BY <2>1 DEF Owner, Data
    <2>4. k \notin Cached' BY <2>1 DEF Cached
    <2>5. flusher' \in Flusher BY <1>1, <2>1 DEF CacheType
    <2> HIDE DEF K
    <2>6. CacheType' /\ (\A j \in Key : KeyInv(j)') BY <2>1, <2>5, RemoveKeeps
    <2>7. LoadInv' BY <2>1, <2>3, <2>4 DEF LoadInv
    <2>8. QED BY <2>2, <2>6, <2>7 DEF CacheInv
<1>3. ASSUME NEW k \in Key, ReadPlayerData(k) PROVE CacheInv' /\ LoadInv'
    <2>1. /\ owner.pc = "reading" /\ k \in owner.for
          /\ owner' = [owner EXCEPT !.pc = "filling", !.data = store[k]]
          /\ UNCHANGED <<entries, heap, store, flusher, done, unmarked>>
          /\ raced' = raced \cup {j \in {k} : Unsaved(j)} /\ dropped' = dropped /\ fails' = fails
        BY <1>3 DEF ReadPlayerData, cacheVars
    <2>2. ~flusher.final BY <1>1, <2>1 DEF FlushInv
    <2>3. Keeps
        <3>1. fails' \in Nat BY <1>1, <2>1 DEF CacheType
        <3>2. QED BY <2>1, <2>2, <3>1, IdleKeeps
    <2>4. /\ owner' \in Owner /\ owner'.for = owner.for /\ owner'.data = store[k]
        BY <1>1, <2>1 DEF Owner, CacheType
    <2>5. k \in raced' \/ (k \notin raced /\ Fresh(k, store[k]))
        BY <2>1, ReadIsFresh DEF CacheInv
    <2>6. Fresh(k, owner.data)'
        <3>1. CASE k \in raced' BY <3>1 DEF Fresh
        <3>2. CASE Fresh(k, store[k])
            <4>1. \A data : Fresh(k, data) => Fresh(k, data)' BY <2>3 DEF Keeps
            <4>2. QED BY <2>4, <3>2, <4>1 DEF Fresh
        <3>3. QED BY <2>5, <3>1, <3>2
    <2>7. k \notin Cached' /\ \A j \in owner.for : j = k BY <2>1 DEF LoadInv, Cached
    <2>8. LoadInv' BY <2>4, <2>6, <2>7 DEF LoadInv
    <2>9. QED BY <2>3, <2>8 DEF Keeps
<1>4. ASSUME NEW k \in Key, Look(k) PROVE CacheInv' /\ LoadInv'
    <2>1. k \in Cached /\ Touch(k) /\ heap' = heap /\ UNCHANGED <<owner, done, unmarked>>
        BY <1>4 DEF Look, Live, ownerVars
    <2>2. UNCHANGED <<entries, heap, store, flusher, done, unmarked, fails, raced, dropped>>
        BY <1>1, <2>1, TouchFacts DEF Touch, ghostVars
    <2>3. fails' \in Nat /\ (flusher.final => owner'.pc = "stopped")
        BY <1>1, <2>1, <2>2 DEF CacheType, FlushInv
    <2>4. Keeps BY <2>2, <2>3, IdleKeeps
    <2>5. LoadInv' BY <2>1, <2>2, <2>4, LoadStays DEF Cached
    <2>6. QED BY <2>4, <2>5 DEF Keeps
<1>5. CASE Close
    <2>1. /\ owner' = [pc |-> "stopped", for |-> {}, data |-> {}]
          /\ UNCHANGED <<entries, heap, store, flusher, done, unmarked, fails, raced, dropped>>
        BY <1>5 DEF Close, Ready, cacheVars, ghostVars
    <2>2. fails' \in Nat BY <1>1, <2>1 DEF CacheType
    <2>3. Keeps BY <2>1, <2>2, IdleKeeps
    <2>4. LoadInv' BY <2>1 DEF LoadInv, Owner, Data
    <2>5. QED BY <2>3, <2>4 DEF Keeps
<1>6. QED BY <1>2, <1>3, <1>4, <1>5 DEF LoadStep

\* The flush and the clock work while the actor does whatever it does.
LEMMA OthersKeep ==
    ASSUME CacheInv, LoadInv, FlusherStep \/ ClockStep
    PROVE  Keeps /\ LoadInv' /\ owner' = owner
<1>1. Keeps /\ owner' = owner BY FlusherKeeps, ClockKeeps DEF ownerVars
<1>2. ASSUME NEW k \in DOMAIN entries' PROVE k \in Cached
    BY <1>2 DEF FlusherStep, ClockStep, StartFlush, FlushLast, Flushes, Send, Sent, SendFails, CleanExpired,
           Closed, Expire, Cached
<1>3. LoadInv' BY <1>1, <1>2 DEF LoadInv, Keeps, Cached, Owner
<1>4. QED BY <1>1, <1>3

LEMMA InPlaceKeeps ==
    ASSUME CacheInv, LoadInv, NEW k \in Key, NEW c \in Change, ChangeInPlace(k, c)
    PROVE  CacheInv' /\ LoadInv' /\ owner' = owner /\ owner.pc = "ready"
<1>1. CacheType BY DEF CacheInv
<1>2. /\ Changes(k, c) /\ k \in Cached /\ Touch(k)
      /\ done' = [done EXCEPT ![k] = @ \cup {c}]
      /\ unmarked' = IF entries[k].dirty THEN unmarked ELSE [unmarked EXCEPT ![k] = @ \cup {c}]
    BY DEF ChangeInPlace, Changes, Live
<1>3. entries' = entries /\ UNCHANGED <<store, flusher, fails, raced, dropped>>
    BY <1>1, <1>2, TouchFacts DEF Touch, ghostVars
<1>4. unmarked' \in [Key -> Data] /\ \A j \in Key \ {k} : unmarked'[j] = unmarked[j]
    BY <1>1, <1>2 DEF CacheType, Data
<1>5. entries' \in [Cached -> Entry] BY <1>1, <1>3 DEF CacheType
<1>6. \/ Marked(k)' \subseteq Marked(k)
      \/ entries'[k].dirty /\ Marked(k)' \subseteq Marked(k) \cup Held(k) \cup {c}
    BY <1>1, <1>2, <1>3 DEF Marked, CacheType
<1>7. CacheInv' /\ owner' = owner /\ owner.pc = "ready" BY <1>2, <1>3, <1>4, <1>5, <1>6, ChangeKeeps
<1>8. LoadInv' BY <1>7 DEF LoadInv
<1>9. QED BY <1>7, <1>8

-----------------------------------------------------------------------------
(* Where it begins, and what it is for. *)

LEMMA CacheBegins == ASSUME Init PROVE CacheInv /\ LoadInv
<1>1. Cached = {} /\ entries \in [{} -> Entry] BY DEF Init, CacheInit, Cached
<1>2. CacheType BY <1>1 DEF Init, CacheInit, CacheType, Data, Flusher
<1>3. FlushInv BY <1>1 DEF Init, CacheInit, FlushInv
<1>4. \A k \in Key : KeyInv(k) BY <1>1 DEF Init, CacheInit, KeyInv, Marked
<1>5. LoadInv BY DEF Init, LoadInv, Ready, Owner, Data
<1>6. QED BY <1>2, <1>3, <1>4, <1>5 DEF CacheInv

LEMMA CacheKeepsPromises == CacheInv => PromisesAreKept
<1> SUFFICES ASSUME CacheInv PROVE PromisesAreKept OBVIOUS
<1>1. ASSUME NEW k \in Key, k \notin raced \cup dropped PROVE Promised(k) = Marked(k) /\ KeyInv(k)
    BY <1>1 DEF Promised, Marked, CacheInv
<1>2. ASSUME NEW k \in Key, k \in raced \cup dropped PROVE Promised(k) = {} BY <1>2 DEF Promised
<1>3. NothingLost BY <1>1, <1>2 DEF NothingLost, KeyInv
<1>4. ReadsAreCurrent BY <1>1, <1>2 DEF ReadsAreCurrent, KeyInv, Live
<1>5. QED BY <1>3, <1>4 DEF PromisesAreKept
-----------------------------------------------------------------------------
(* The list, and what bounds the cache. *)

\* The list has each key of the map once, and there are not more than there may be.
LruInv ==
    /\ lru \in Injection(1 .. Cardinality(Cached), Cached)
    /\ Cardinality(Cached) <= Capacity

BoundsInv ==
    /\ LruInv
    /\ fails \in 0 .. MaxFails
    /\ raced \in SUBSET Key /\ dropped \in SUBSET Key

\* How many positions of I are not after i.
RankIn(I, i) == Cardinality({j \in I : j <= i})

\* The positions of a finite set have ranks from 1 on, each one.
LEMMA RankFacts ==
    ASSUME NEW n \in Nat, NEW I \in SUBSET (1 .. n)
    PROVE  /\ IsFiniteSet(I) /\ Cardinality(I) \in Nat
           /\ \A m \in 1 .. Cardinality(I) : \E i \in I : RankIn(I, i) = m
<1>1. IsFiniteSet(1 .. n) BY FS_Interval
<1>2. IsFiniteSet(I) /\ Cardinality(I) \in Nat BY <1>1, FS_Subset, FS_CardinalityType
<1> DEFINE c == Cardinality(I)
<1> DEFINE rank == [i \in I |-> RankIn(I, i)]
<1>3. ASSUME NEW i \in I PROVE RankIn(I, i) \in 1 .. c
    <2> DEFINE J == {j \in I : j <= i}
    <2>1. J \in SUBSET I /\ i \in J OBVIOUS
    <2> HIDE DEF J
    <2>2. IsFiniteSet(J) /\ Cardinality(J) <= c /\ Cardinality(J) \in Nat
        BY <1>2, <2>1, FS_Subset, FS_CardinalityType
    <2>3. Cardinality(J) # 0 BY <2>1, <2>2, FS_EmptySet
    <2>4. QED BY <1>2, <2>2, <2>3 DEF J, RankIn
<1>4. ASSUME NEW i \in I, NEW j \in I, i < j PROVE RankIn(I, i) # RankIn(I, j)
    <2> DEFINE A == {l \in I : l <= i}
    <2> DEFINE B == {l \in I : l <= j}
    <2>1. \A l \in I : l \in 1 .. n OBVIOUS
    <2>2. /\ \A l \in I : l <= i => l <= j
          /\ j <= j /\ ~(j <= i)
        BY <1>4, <2>1
    <2>3. A \in SUBSET B /\ j \in B /\ j \notin A /\ B \in SUBSET I BY <2>2
    <2> HIDE DEF A, B
    <2>4. IsFiniteSet(B) BY <1>2, <2>3, FS_Subset
    <2>5. Cardinality(A) # Cardinality(B) BY <2>3, <2>4, FS_Subset
    <2>6. QED BY <2>5 DEF A, B, RankIn
<1>5. rank \in Injection(I, 1 .. c)
    <2>1. \A i, j \in I : rank[i] = rank[j] => i = j BY <1>4
    <2>2. rank \in [I -> 1 .. c] BY <1>3
    <2>3. DOMAIN rank = I OBVIOUS
    <2> HIDE DEF rank
    <2>4. QED BY <2>1, <2>2, <2>3 DEF Injection, IsInjective
<1>6. IsFiniteSet(1 .. c) /\ Cardinality(1 .. c) = c BY <1>2, FS_Interval
<1> HIDE DEF rank
<1>7. rank \in Surjection(I, 1 .. c) BY <1>5, <1>6, FS_Injection
<1>8. \A m \in 1 .. c : \E i \in I : rank[i] = m BY <1>7 DEF Surjection
<1>9. \A i \in I : rank[i] = RankIn(I, i) BY DEF rank
<1>10. QED BY <1>2, <1>8, <1>9

\* What leaves the map leaves the list.
LEMMA WithoutFacts ==
    ASSUME CacheType, LruInv, NEW K
    PROVE  Without(K) \in Injection(1 .. Cardinality(Cached \ K), Cached \ K)
<1>1. IsFiniteSet(Cached) /\ Cardinality(Cached) \in Nat
    BY CacheAssumption, FS_Subset, FS_CardinalityType DEF CacheType
<1> DEFINE n == Cardinality(Cached)
<1> DEFINE Left == {i \in DOMAIN lru : lru[i] \notin K}
<1>2. /\ lru \in [1 .. n -> Cached] /\ DOMAIN lru = 1 .. n
      /\ \A i, j \in 1 .. n : lru[i] = lru[j] => i = j
      /\ lru \in Injection(1 .. n, Cached)
    BY DEF LruInv, Injection, IsInjective
<1>3. IsFiniteSet(1 .. n) /\ Cardinality(1 .. n) = n BY <1>1, FS_Interval
<1>4. lru \in Surjection(1 .. n, Cached) BY <1>1, <1>2, <1>3, FS_Injection
<1>5. \A k \in Cached : \E i \in 1 .. n : lru[i] = k BY <1>4 DEF Surjection
<1>6. Left \in SUBSET (1 .. n) BY <1>2
<1> DEFINE g == [i \in Left |-> lru[i]]
<1>7. g \in Bijection(Left, Cached \ K)
    <2>1. g \in [Left -> Cached \ K] /\ DOMAIN g = Left BY <1>2
    <2>2. \A i, j \in Left : g[i] = g[j] => i = j BY <1>2
    <2>3. \A k \in Cached \ K : \E i \in Left : g[i] = k BY <1>2, <1>5
    <2> HIDE DEF g, Left
    <2>4. QED BY <2>1, <2>2, <2>3 DEF Bijection, Injection, Surjection, IsInjective
<1> HIDE DEF Left, g
<1>8. IsFiniteSet(Left) BY <1>1, <1>6, RankFacts
<1>9. Cardinality(Left) = Cardinality(Cached \ K) BY <1>7, <1>8, FS_Bijection DEF ExistsBijection
<1> DEFINE c == Cardinality(Left)
<1> DEFINE at(m) == CHOOSE i \in Left : RankIn(Left, i) = m
<1>10. \A m \in 1 .. c : at(m) \in Left /\ RankIn(Left, at(m)) = m BY <1>1, <1>6, RankFacts
<1>11. Without(K) = [m \in 1 .. c |-> lru[at(m)]] BY DEF Without, Left, RankIn
<1> HIDE DEF at, c
<1>12. \A i \in Left : i \in 1 .. n /\ lru[i] \in Cached \ K BY <1>2 DEF Left
<1>13. Without(K) \in [1 .. c -> Cached \ K] BY <1>10, <1>11, <1>12
<1>14. ASSUME NEW l \in 1 .. c, NEW m \in 1 .. c, Without(K)[l] = Without(K)[m] PROVE l = m
    <2>1. lru[at(l)] = lru[at(m)] BY <1>11, <1>14
    <2>2. at(l) = at(m) BY <1>2, <1>10, <1>12, <2>1
    <2>3. QED BY <1>10, <2>2
<1>15. Without(K) \in Injection(1 .. c, Cached \ K)
    BY <1>13, <1>14 DEF Injection, IsInjective
<1>16. QED BY <1>9, <1>15 DEF c

\* A key in front of a list that has it not.
LEMMA FrontFacts ==
    ASSUME NEW S, IsFiniteSet(S), NEW k, k \notin S, NEW s \in Injection(1 .. Cardinality(S), S)
    PROVE  <<k>> \o s \in Injection(1 .. Cardinality(S \cup {k}), S \cup {k})
<1>1. Cardinality(S) \in Nat /\ Cardinality(S \cup {k}) = Cardinality(S) + 1
    BY FS_CardinalityType, FS_AddElement
<1> DEFINE n == Cardinality(S)
<1> DEFINE t == <<k>> \o s
<1>2. s \in [1 .. n -> S] /\ \A i, j \in 1 .. n : s[i] = s[j] => i = j
    BY DEF Injection, IsInjective
<1> HIDE DEF n
<1>3. n \in Nat BY <1>1 DEF n
<1>4. s \in Seq(S) /\ Len(s) = n BY <1>2, <1>3
<1>5. /\ DOMAIN t = 1 .. n + 1
      /\ t[1] = k /\ \A i \in 2 .. n + 1 : t[i] = s[i - 1]
    BY <1>3, <1>4
<1> HIDE DEF t
<1>6. \A i \in 2 .. n + 1 : i - 1 \in 1 .. n BY <1>3
<1>7. \A i \in 1 .. n + 1 : i = 1 \/ i \in 2 .. n + 1 BY <1>3
<1>8. \A i \in 2 .. n + 1 : t[i] \in S BY <1>2, <1>5, <1>6
<1>9. t \in [1 .. n + 1 -> S \cup {k}]
    <2>1. \A i \in 1 .. n + 1 : t[i] \in S \cup {k} BY <1>5, <1>7, <1>8
    <2>2. t = [i \in 1 .. n + 1 |-> t[i]]
        <3>1. t \in Seq(S \cup {k}) BY <1>4 DEF t
        <3>2. QED BY <1>5, <3>1
    <2>3. QED BY <2>1, <2>2
<1>10. ASSUME NEW i \in 1 .. n + 1, NEW j \in 1 .. n + 1, t[i] = t[j] PROVE i = j
    <2>1. CASE i = 1 /\ j = 1 BY <2>1
    <2>2. CASE i \in 2 .. n + 1 /\ j \in 2 .. n + 1
        <3>1. s[i - 1] = s[j - 1] BY <1>5, <1>10, <2>2
        <3>2. i - 1 = j - 1 BY <1>2, <1>6, <2>2, <3>1
        <3>3. QED BY <2>2, <3>2
    <2>3. CASE i = 1 /\ j \in 2 .. n + 1 BY <1>5, <1>8, <1>10, <2>3
    <2>4. CASE j = 1 /\ i \in 2 .. n + 1 BY <1>5, <1>8, <1>10, <2>4
    <2>5. QED BY <1>7, <2>1, <2>2, <2>3, <2>4
<1>11. t \in Injection(1 .. n + 1, S \cup {k}) BY <1>9, <1>10 DEF Injection, IsInjective
<1>12. QED BY <1>1, <1>11 DEF n, t

\* Saving under the mutex keeps to the bounds.
LEMMA SavesBounds ==
    ASSUME CacheType, BoundsInv, NEW K \in SUBSET Cached, NEW failed \in Failures(K),
           Saves(K, failed)
    PROVE  fails' \in 0 .. MaxFails /\ raced' \in SUBSET Key
<1>1. failed \in SUBSET K /\ fails + Cardinality(failed) <= MaxFails BY DEF Failures
<1>2. failed \in SUBSET Key /\ K \in SUBSET Key BY <1>1 DEF CacheType
<1>3. Cardinality(failed) \in Nat BY <1>2, CacheAssumption, FS_Subset, FS_CardinalityType
<1>4. fails' \in 0 .. MaxFails BY <1>1, <1>3, CacheAssumption DEF Saves, BoundsInv
<1>5. QED BY <1>2, <1>4 DEF Saves, BoundsInv

LEMMA LeavesBounds ==
    ASSUME CacheType, BoundsInv, NEW K, Leaves(K)
    PROVE  fails' \in 0 .. MaxFails /\ raced' \in SUBSET Key /\ dropped' \in SUBSET Key
<1>1. PICK failed \in Failures(DirtyKeys(K)) :
          Saves(DirtyKeys(K), failed) /\ dropped' = dropped \cup failed
    BY DEF Leaves
<1>2. DirtyKeys(K) \in SUBSET Cached BY DEF DirtyKeys
<1>3. failed \in SUBSET Key BY <1>2 DEF Failures, CacheType
<1>4. QED BY <1>1, <1>2, <1>3, SavesBounds DEF BoundsInv

\* removeEntry of the keys of K.
LEMMA RemovesBounds ==
    ASSUME CacheType, BoundsInv, NEW K, Leaves(K),
           entries' = [j \in Cached \ K |-> entries[j]], lru' = Without(K)
    PROVE  BoundsInv'
<1>1. IsFiniteSet(Cached) BY CacheAssumption, FS_Subset DEF CacheType
<1>2. Cached' = Cached \ K BY DEF Cached
<1>3. lru' \in Injection(1 .. Cardinality(Cached \ K), Cached \ K) BY WithoutFacts DEF BoundsInv
<1>4. Cached \ K \in SUBSET Cached OBVIOUS
<1>5. Cardinality(Cached \ K) <= Cardinality(Cached) BY <1>1, <1>4, FS_Subset
<1>6. /\ Cardinality(Cached) \in Nat /\ Cardinality(Cached \ K) \in Nat /\ Capacity \in Nat
    BY <1>1, <1>4, FS_Subset, FS_CardinalityType, CacheAssumption
<1>7. LruInv' BY <1>2, <1>3, <1>5, <1>6 DEF LruInv, BoundsInv
<1>8. QED BY <1>7, LeavesBounds DEF BoundsInv

\* The key k is put in front when K has left, and there is room for it.
LEMMA PutBounds ==
    ASSUME CacheType, BoundsInv, NEW K, NEW k \in Key, NEW e, Put(K, k, e),
           Cardinality((Cached \ K) \cup {k}) <= Capacity
    PROVE  LruInv'
<1>1. IsFiniteSet(Cached) BY CacheAssumption, FS_Subset DEF CacheType
<1> DEFINE S == Cached \ (K \cup {k})
<1>2. Cached' = (Cached \ K) \cup {k} /\ lru' = <<k>> \o Without(K \cup {k}) BY DEF Put, Cached
<1>3. (Cached \ K) \cup {k} = S \cup {k} /\ k \notin S /\ S \in SUBSET Cached OBVIOUS
<1>4. IsFiniteSet(S) BY <1>1, <1>3, FS_Subset
<1>5. Without(K \cup {k}) \in Injection(1 .. Cardinality(S), S) BY WithoutFacts DEF BoundsInv
<1> HIDE DEF S
<1>6. <<k>> \o Without(K \cup {k}) \in Injection(1 .. Cardinality(S \cup {k}), S \cup {k})
    BY <1>3, <1>4, <1>5, FrontFacts
<1>7. QED BY <1>2, <1>3, <1>6 DEF LruInv

\* A key that has an entry comes to the front.
LEMMA FrontBounds ==
    ASSUME CacheType, BoundsInv, NEW k \in Cached, NEW e, Put({}, k, e),
           UNCHANGED <<fails, raced, dropped>>
    PROVE  BoundsInv'
<1>1. (Cached \ {}) \cup {k} = Cached /\ k \in Key BY DEF CacheType
<1> DEFINE K == {}
<1>2. Put(K, k, e) /\ Cardinality((Cached \ K) \cup {k}) <= Capacity
    BY <1>1 DEF BoundsInv, LruInv
<1> HIDE DEF K
<1>3. LruInv' BY <1>1, <1>2, PutBounds
<1>4. QED BY <1>3 DEF BoundsInv

\* Set and SetClean: the oldest makes room if the cache is full.
LEMMA SetBounds ==
    ASSUME CacheType, BoundsInv, NEW k \in Key, NEW data, NEW dirty, SetObject(k, data, dirty)
    PROVE  BoundsInv'
<1>1. PICK o : SetAgain(k, o, dirty) \/ SetNew(k, o, dirty) BY DEF SetObject
<1>2. CASE SetAgain(k, o, dirty)
    <2>1. PICK e : Put({}, k, e) BY <1>2 DEF SetAgain
    <2>2. k \in Cached /\ UNCHANGED <<fails, raced, dropped>> BY <1>2 DEF SetAgain, ghostVars
    <2>3. QED BY <2>1, <2>2, FrontBounds
<1>3. CASE SetNew(k, o, dirty)
    <2>1. k \notin Cached /\ Leaves(Evicted) BY <1>3 DEF SetNew
    <2>2. PICK e : Put(Evicted, k, e) BY <1>3 DEF SetNew
    <2>3. IsFiniteSet(Cached) /\ Cardinality(Cached) \in Nat
        BY CacheAssumption, FS_Subset, FS_CardinalityType DEF CacheType
    <2>4. Cardinality((Cached \ Evicted) \cup {k}) <= Capacity
        <3> DEFINE n == Cardinality(Cached)
        <3>1. lru \in [1 .. n -> Cached] /\ n <= Capacity BY DEF BoundsInv, LruInv, Injection
        <3> HIDE DEF n
        <3>2. n \in Nat /\ Capacity \in Nat \ {0} BY <2>3, CacheAssumption DEF n
        <3>3. Len(lru) = n BY <3>1, <3>2
        <3>4. CASE n < Capacity
            <4>1. Evicted = {} BY <3>2, <3>3, <3>4 DEF Evicted
            <4>2. Cardinality(Cached \cup {k}) = n + 1 BY <2>1, <2>3, FS_AddElement DEF n
            <4>3. (Cached \ Evicted) \cup {k} = Cached \cup {k} BY <4>1
            <4>4. QED BY <3>2, <3>4, <4>2, <4>3
        <3>5. CASE n = Capacity
            <4>1. Evicted = {Oldest} /\ n \in 1 .. n BY <3>2, <3>3, <3>5 DEF Evicted
            <4>2. Oldest \in Cached BY <3>1, <3>3, <4>1 DEF Oldest
            <4>3. IsFiniteSet(Cached \ {Oldest}) /\ Cardinality(Cached \ {Oldest}) = n - 1
                BY <2>3, <4>2, FS_RemoveElement DEF n
            <4>4. Cardinality((Cached \ {Oldest}) \cup {k}) = n - 1 + 1
                BY <2>1, <4>3, FS_AddElement
            <4>5. QED BY <3>2, <3>5, <4>1, <4>4
        <3>6. QED BY <3>1, <3>2, <3>4, <3>5
    <2>5. LruInv' BY <2>2, <2>4, PutBounds
    <2>6. QED BY <2>1, <2>5, LeavesBounds DEF BoundsInv
<1>4. QED BY <1>1, <1>2, <1>3

\* The entries and the list stay.
LEMMA StayBounds ==
    ASSUME BoundsInv, lru' = lru, DOMAIN entries' = Cached, fails' \in 0 .. MaxFails,
           raced' \in SUBSET Key, dropped' \in SUBSET Key
    PROVE  BoundsInv'
BY DEF BoundsInv, LruInv, Cached

\* The flush goroutine and the clock.
LEMMA OthersBounds ==
    ASSUME CacheType, BoundsInv, FlusherStep \/ ClockStep PROVE BoundsInv'
<1>1. entries \in [Cached -> Entry] BY DEF CacheType
<1>2. CASE StartFlush \/ FlushLast \/ Closed \/ \E t \in flusher.todo : Send(t)
    <2>1. /\ DOMAIN entries' = Cached
          /\ UNCHANGED <<lru, fails, raced, dropped>>
        BY <1>1, <1>2 DEF StartFlush, FlushLast, Closed, Send, ghostVars, Cached
    <2>2. QED BY <2>1, StayBounds DEF BoundsInv
<1>3. ASSUME NEW s \in flusher.sending, Sent(s) \/ SendFails(s) PROVE BoundsInv'
    <2>1. s.key \in Key BY DEF CacheType, Flusher
    <2>2. DOMAIN entries' = Cached /\ lru' = lru BY <1>1, <1>3 DEF Sent, SendFails, Cached
    <2>3. raced' = raced /\ dropped' \in SUBSET Key
        BY <1>3, <2>1 DEF Sent, SendFails, ghostVars, BoundsInv
    <2>4. fails' \in 0 .. MaxFails
        BY <1>3, CacheAssumption DEF Sent, SendFails, BoundsInv
    <2>5. QED BY <2>2, <2>3, <2>4, StayBounds DEF BoundsInv
<1>4. CASE CleanExpired
    <2> DEFINE K == {k \in Cached : entries[k].expired}
    <2>1. Leaves(K) /\ entries' = [j \in Cached \ K |-> entries[j]] /\ lru' = Without(K)
        BY <1>4 DEF CleanExpired
    <2> HIDE DEF K
    <2>2. QED BY <2>1, RemovesBounds
<1>5. ASSUME NEW k \in Key, Expire(k) PROVE BoundsInv'
    <2>1. DOMAIN entries' = Cached /\ UNCHANGED <<lru, fails, raced, dropped>>
        BY <1>1, <1>5 DEF Expire, ghostVars, Cached
    <2>2. QED BY <2>1, StayBounds DEF BoundsInv
<1>6. QED BY <1>2, <1>3, <1>4, <1>5 DEF FlusherStep, ClockStep, Flushes

\* A handler that loads a player or looks at one, and the end of the actor.
LEMMA LoadBounds == ASSUME CacheType, BoundsInv, LoadStep PROVE BoundsInv'
<1>1. ASSUME NEW k \in Key, Miss(k) PROVE BoundsInv'
    <2> DEFINE K == {k} \cap Cached
    <2>1. Leaves(K) /\ entries' = [j \in Cached \ K |-> entries[j]] /\ lru' = Without(K)
        BY <1>1 DEF Miss, Remove
    <2> HIDE DEF K
    <2>2. QED BY <2>1, RemovesBounds
<1>2. ASSUME NEW k \in Key, ReadPlayerData(k) PROVE BoundsInv'
    <2>1. DOMAIN entries' = Cached /\ UNCHANGED <<lru, fails, dropped>> /\ raced' \in SUBSET Key
        BY <1>2 DEF ReadPlayerData, cacheVars, BoundsInv, Cached
    <2>2. QED BY <2>1, StayBounds DEF BoundsInv
<1>3. ASSUME NEW k \in Key, Look(k) PROVE BoundsInv'
    <2>1. k \in Cached /\ Put({}, k, entries[k]) /\ UNCHANGED <<fails, raced, dropped>>
        BY <1>3 DEF Look, Live, Touch, ghostVars
    <2>2. QED BY <2>1, FrontBounds
<1>4. CASE Close
    <2>1. DOMAIN entries' = Cached /\ UNCHANGED <<lru, fails, raced, dropped>>
        BY <1>4 DEF Close, cacheVars, ghostVars, Cached
    <2>2. QED BY <2>1, StayBounds DEF BoundsInv
<1>5. QED BY <1>1, <1>2, <1>3, <1>4 DEF LoadStep

LEMMA InPlaceBounds ==
    ASSUME CacheType, BoundsInv, NEW k \in Key, NEW c \in Change, ChangeInPlace(k, c)
    PROVE  BoundsInv'
<1>1. k \in Cached /\ Put({}, k, entries[k]) /\ UNCHANGED <<fails, raced, dropped>>
    BY DEF ChangeInPlace, Changes, Live, Touch, ghostVars
<1>2. QED BY <1>1, FrontBounds

LEMMA BoundsBegin == ASSUME Init PROVE BoundsInv
<1>1. Cached = {} /\ lru = <<>> BY DEF Init, CacheInit, Cached
<1>2. Cardinality(Cached) = 0 BY <1>1, FS_EmptySet
<1>3. lru \in Injection(1 .. 0, {}) BY <1>1 DEF Injection, IsInjective
<1>4. LruInv BY <1>1, <1>2, <1>3, CacheAssumption DEF LruInv
<1>5. QED BY <1>4, CacheAssumption DEF Init, CacheInit, BoundsInv

\* The invariants give what the runs check of the cache.
LEMMA CacheSound == CacheInv /\ LoadInv /\ BoundsInv => CacheIsSound
<1> SUFFICES ASSUME CacheInv, LoadInv, BoundsInv PROVE CacheIsSound OBVIOUS
<1> DEFINE n == Cardinality(Cached)
<1>1. CacheType /\ FlushInv BY DEF CacheInv
<1>2. IsFiniteSet(Cached) /\ n \in Nat
    BY <1>1, CacheAssumption, FS_Subset, FS_CardinalityType DEF CacheType
<1>3. IsFiniteSet(1 .. n) /\ Cardinality(1 .. n) = n BY <1>2, FS_Interval
<1>4. lru \in Injection(1 .. n, Cached) /\ n <= Capacity BY DEF BoundsInv, LruInv
<1> HIDE DEF n
<1>5. lru \in Surjection(1 .. n, Cached) BY <1>2, <1>3, <1>4, FS_Injection DEF n
<1>6. lru \in [1 .. n -> Cached] /\ \A k \in Cached : \E i \in 1 .. n : lru[i] = k
    BY <1>5 DEF Surjection
<1>7. lru \in Seq(Cached) /\ Len(lru) = n /\ DOMAIN lru = 1 .. n BY <1>2, <1>6
<1>8. LruIsTheMap BY <1>4, <1>6, <1>7 DEF LruIsTheMap, n
<1>9. CacheTypeOK
    <2>1. lru \in Seq(Key) BY <1>1, <1>7 DEF CacheType
    <2>2. \E K \in SUBSET Key : entries \in [K -> Entry] BY <1>1 DEF CacheType
    <2>3. QED BY <1>1, <2>1, <2>2 DEF CacheType, CacheTypeOK, BoundsInv
<1>10. OwnerTypeOK
    <2>1. owner \in Owner /\ \A j, k \in owner.for : j = k BY DEF LoadInv
    <2>2. owner.for = {} \/ \E k \in owner.for : owner.for = {k} BY <2>1
    <2>3. Cardinality(owner.for) = 0 \/ Cardinality(owner.for) = 1
        BY <2>2, FS_EmptySet, FS_Singleton
    <2>4. QED BY <1>1, <2>1, <2>3 DEF OwnerTypeOK, CacheType
<1>11. ClosedIsSaved
    <2> SUFFICES ASSUME flusher.phase = "closed", fails = 0,
                        NEW k \in Key, NEW c \in Promised(k)
                 PROVE  c \in store[k]
        BY DEF ClosedIsSaved
    <2>1. /\ flusher.todo = {} /\ flusher.sending = {}
          /\ \A j \in Cached : ~entries[j].dirty
        BY <1>1 DEF FlushInv
    <2>2. k \notin raced \cup dropped /\ c \in Marked(k) BY DEF Promised, Marked
    <2>3. Kept(k, c) BY <2>2 DEF CacheInv, KeyInv
    <2>4. QED BY <2>1, <2>3 DEF Kept
<1>12. QED BY <1>8, <1>9, <1>10, <1>11 DEF CacheIsSound, TypeOK

-----------------------------------------------------------------------------
(* The guild. *)

\* Of the guild module nothing more is needed.
GuildInv == CacheInv /\ LoadInv

\* What was read goes in as dirty.
LEMMA FillKeeps == ASSUME GuildInv, NEW k \in Key, Fill(k) PROVE GuildInv'
<1>1. CacheInv /\ FlushInv /\ owner \in Owner BY DEF GuildInv, CacheInv, LoadInv
<1>2. /\ owner.pc = "filling" /\ Fresh(k, owner.data) /\ owner.data \in Data
      /\ SetObject(k, owner.data, TRUE) /\ owner' = Ready /\ done' = done /\ unmarked' = unmarked
    BY <1>1 DEF Fill, GuildInv, LoadInv, Owner
<1>3. ~flusher.final BY <1>1, <1>2 DEF FlushInv
<1>4. Marked(k)' = Marked(k) BY <1>2 DEF Marked
<1>5. done' \in [Key -> Data] /\ unmarked' \in [Key -> Data] BY <1>1, <1>2 DEF CacheInv, CacheType
<1>6. CacheInv'
    <2> DEFINE data == owner.data
    <2>1. Fresh(k, data) /\ data \in Data /\ SetObject(k, data, TRUE) BY <1>2
    <2> HIDE DEF data
    <2>2. \A j \in Key \ {k} : done'[j] = done[j] /\ unmarked'[j] = unmarked[j] BY <1>2
    <2>3. data \subseteq data /\ {} \subseteq data /\ Marked(k)' \subseteq Marked(k) \cup {} BY <1>4
    <2>4. QED BY <1>1, <1>3, <1>5, <2>1, <2>2, <2>3, SetDirtyKeeps
<1>7. LoadInv' BY <1>2 DEF LoadInv, Ready, Owner, Data
<1>8. QED BY <1>6, <1>7 DEF GuildInv

\* The change is made and the entry marked.
LEMMA SetBuildKeeps ==
    ASSUME GuildInv, NEW k \in Key, NEW c \in Change, SetBuild(k, c) PROVE GuildInv'
<1>1. CacheInv /\ CacheType BY DEF GuildInv, CacheInv
<1>2. /\ Changes(k, c) /\ SetAgain(k, entries[k].obj, TRUE) /\ k \in Cached
      /\ done' = [done EXCEPT ![k] = @ \cup {c}]
      /\ unmarked' = [unmarked EXCEPT ![k] = @ \ Held(k)]
    BY DEF SetBuild, Changes, Live
<1> DEFINE e == [obj |-> entries[k].obj, dirty |-> entries[k].dirty \/ TRUE, expired |-> FALSE]
<1>3. Put({}, k, e) /\ UNCHANGED <<store, flusher, fails, raced, dropped>>
    BY <1>2 DEF SetAgain, ghostVars
<1>4. e \in Entry BY <1>1, <1>2 DEF CacheType, Entry
<1>5. e.obj = entries[k].obj /\ e.dirty OBVIOUS
<1> HIDE DEF e
<1>6. /\ entries' \in [Cached -> Entry] /\ entries'[k] = e
      /\ \A j \in Cached \ {k} : entries'[j] = entries[j]
    <2>1. /\ entries' \in [(Cached \ {}) \cup {k} -> Entry] /\ entries'[k] = e
          /\ \A j \in Cached \ ({} \cup {k}) : entries'[j] = entries[j]
        BY ONLY <1>1, <1>3, <1>4, k \in Key, PutFacts
    <2>2. (Cached \ {}) \cup {k} = Cached BY <1>2
    <2>3. QED BY <2>1, <2>2
<1>7. unmarked' \in [Key -> Data] /\ \A j \in Key \ {k} : unmarked'[j] = unmarked[j]
    BY <1>1, <1>2 DEF CacheType, Data
<1>8. Marked(k)' \subseteq Marked(k) \cup Held(k) \cup {c}
    BY <1>1, <1>2 DEF Marked, CacheType
<1>9. CacheInv' /\ owner' = owner /\ owner.pc = "ready"
    BY <1>1, <1>2, <1>3, <1>5, <1>6, <1>7, <1>8, ChangeKeeps
<1>10. LoadInv' BY <1>9 DEF GuildInv, LoadInv
<1>11. QED BY <1>9, <1>10 DEF GuildInv

\* OnTick saves what is live, and leaves it in the cache.
LEMMA SaveCachedKeeps == ASSUME GuildInv, SaveCached PROVE GuildInv'
<1>1. CacheInv /\ CacheType /\ FlushInv BY DEF GuildInv, CacheInv
<1>2. \E K \in SUBSET Cached : \E f \in SUBSET K : Saves(K, f)
    <2>1. PICK K \in SUBSET {k \in Cached : Live(k)} :
              Saves(K, {}) \/ \E k \in K : Saves(K, {k})
        BY DEF SaveCached
    <2>2. K \in SUBSET Cached /\ {} \in SUBSET K /\ \A k \in K : {k} \in SUBSET K OBVIOUS
    <2>3. \E f \in SUBSET K : Saves(K, f)
        <3>1. CASE Saves(K, {}) BY <2>2, <3>1
        <3>2. ASSUME NEW k \in K, Saves(K, {k}) PROVE \E f \in SUBSET K : Saves(K, f) BY <2>2, <3>2
        <3>3. QED BY <2>1, <3>1, <3>2
    <2>4. QED BY <2>2, <2>3
<1> PICK K \in SUBSET Cached : \E f \in SUBSET K : Saves(K, f) BY <1>2
<1> PICK failed \in SUBSET K : Saves(K, failed) OBVIOUS
<1>3. /\ owner.pc = "ready"
      /\ UNCHANGED <<entries, heap, flusher, dropped, owner, done, unmarked>>
    BY DEF SaveCached, ownerVars
<1>4. /\ store' \in [Key -> Data] /\ fails' \in Nat /\ (fails' = 0 => fails = 0)
      /\ raced \subseteq raced'
      /\ \A k \in Key : IF k \in K \ failed THEN store'[k] = Held(k) /\ (Sending(k) => k \in raced')
                                            ELSE store'[k] = store[k]
    BY <1>1, SavesFacts
<1>5. CacheType' BY <1>1, <1>3, <1>4 DEF CacheType, Cached
<1>6. FlushInv' BY <1>1, <1>3, <1>4 DEF FlushInv, Cached
<1>7. ASSUME NEW k \in Key PROVE KeyInv(k)'
    <2>1. Apart(k) BY <1>3, <1>4 DEF Apart
    <2>2. Stays(k) BY <1>3, <1>4 DEF Stays, SavedOrGivenUp, Cached
    <2>3. QED BY <2>1, <2>2, KeyStays DEF GuildInv, CacheInv
<1>8. LoadInv' BY <1>3 DEF GuildInv, LoadInv
<1>9. QED BY <1>5, <1>6, <1>7, <1>8 DEF GuildInv, CacheInv

LEMMA LoadFailsKeeps == ASSUME GuildInv, LoadFails PROVE GuildInv'
<1>1. CacheInv /\ CacheType /\ FlushInv BY DEF GuildInv, CacheInv
<1>2. /\ owner.pc = "reading" /\ owner' = Ready /\ fails' = fails + 1
      /\ UNCHANGED <<entries, heap, store, flusher, done, unmarked, raced, dropped>>
    BY DEF LoadFails, ghostVars
<1>3. fails' \in Nat /\ fails' # 0 /\ ~flusher.final BY <1>1, <1>2 DEF CacheType, FlushInv
<1>4. Keeps BY <1>1, <1>2, <1>3, IdleKeeps
<1>5. LoadInv' BY <1>2 DEF LoadInv, Ready, Owner, Data
<1>6. QED BY <1>4, <1>5 DEF Keeps, GuildInv

\* The invariant is inductive.
LEMMA GuildSteps == GuildInv /\ [GuildNext]_vars => GuildInv'
<1> SUFFICES ASSUME GuildInv, [GuildNext]_vars PROVE GuildInv' OBVIOUS
<1>1. CASE LoadStep BY <1>1, LoadKeeps DEF GuildInv
<1>2. CASE GuildStep
    <2>1. ASSUME NEW k \in Key, NEW c \in Change, ChangeInPlace(k, c) PROVE GuildInv'
        BY <2>1, InPlaceKeeps DEF GuildInv
    <2>2. QED BY <1>2, <2>1, FillKeeps, SetBuildKeeps, LoadFailsKeeps, SaveCachedKeeps DEF GuildStep
<1>3. CASE FlusherStep \/ ClockStep BY <1>3, OthersKeep DEF GuildInv, Keeps
<1>4. CASE UNCHANGED vars
    <2>1. CacheInv /\ FlushInv /\ CacheType BY DEF GuildInv, CacheInv
    <2>2. UNCHANGED <<entries, heap, store, flusher, done, unmarked, fails, raced, dropped, owner>>
        BY <1>4 DEF vars, cacheVars, ghostVars, ownerVars
    <2>3. fails' \in Nat /\ (flusher.final => owner'.pc = "stopped")
        BY <2>1, <2>2 DEF CacheType, FlushInv
    <2>4. Keeps BY <2>1, <2>2, <2>3, IdleKeeps
    <2>5. LoadInv' BY <2>2, <2>4, LoadStays DEF GuildInv, Cached
    <2>6. QED BY <2>4, <2>5 DEF Keeps, GuildInv
<1>5. QED BY <1>1, <1>2, <1>3, <1>4 DEF GuildNext

-----------------------------------------------------------------------------
\* No change to a guild player that was followed by cache.Set is lost or overlooked by a
\* later load, whatever evictions, expiries, flushes, saves of OnTick and failures of Redis
\* come between - unless its key met one of the recorded races or a save given up.
THEOREM GuildKeepsPromises == GuildSpec => []PromisesAreKept
<1>1. Init => GuildInv BY CacheBegins DEF GuildInv
<1>2. GuildInv => PromisesAreKept BY CacheKeepsPromises DEF GuildInv
<1>3. QED BY <1>1, <1>2, GuildSteps, PTL DEF GuildSpec

\* A guild handler, and OnTick, keep to the bounds.
LEMMA GuildBounds == ASSUME CacheType, BoundsInv, [GuildNext]_vars PROVE BoundsInv'
<1>1. CASE LoadStep BY <1>1, LoadBounds
<1>2. CASE FlusherStep \/ ClockStep BY <1>2, OthersBounds
<1>3. ASSUME NEW k \in Key, Fill(k) PROVE BoundsInv'
    <2> DEFINE data == owner.data
    <2> DEFINE dirty == TRUE
    <2>1. SetObject(k, data, dirty) BY <1>3 DEF Fill
    <2> HIDE DEF data, dirty
    <2>2. QED BY <2>1, SetBounds
<1>4. ASSUME NEW k \in Key, NEW c \in Change, SetBuild(k, c) PROVE BoundsInv'
    <2>1. PICK e : Put({}, k, e) BY <1>4 DEF SetBuild, SetAgain
    <2>2. k \in Cached /\ UNCHANGED <<fails, raced, dropped>> BY <1>4 DEF SetBuild, SetAgain, ghostVars
    <2>3. QED BY <2>1, <2>2, FrontBounds
<1>5. ASSUME NEW k \in Key, NEW c \in Change, ChangeInPlace(k, c) PROVE BoundsInv'
    BY <1>5, InPlaceBounds
<1>6. CASE LoadFails
    <2>1. /\ DOMAIN entries' = Cached /\ UNCHANGED <<lru, raced, dropped>>
          /\ fails' \in 0 .. MaxFails
        BY <1>6, CacheAssumption DEF LoadFails, ghostVars, BoundsInv, Cached
    <2>2. QED BY <2>1, StayBounds DEF BoundsInv
<1>7. CASE SaveCached
    <2>1. /\ UNCHANGED <<entries, lru, dropped>>
          /\ \E K \in SUBSET Cached : \E failed \in Failures(K) : Saves(K, failed)
        <3>1. PICK K \in SUBSET {k \in Cached : Live(k)} :
                  Saves(K, {}) \/ \E k \in K : {k} \in Failures(K) /\ Saves(K, {k})
            BY <1>7 DEF SaveCached
        <3>2. {} \in Failures(K) BY FS_EmptySet DEF Failures, BoundsInv
        <3>3. QED BY <1>7, <3>1, <3>2 DEF SaveCached
    <2>2. fails' \in 0 .. MaxFails /\ raced' \in SUBSET Key BY <2>1, SavesBounds
    <2>3. QED BY <2>1, <2>2, StayBounds DEF BoundsInv, Cached
<1>8. CASE UNCHANGED vars
    <2>1. DOMAIN entries' = Cached /\ UNCHANGED <<lru, fails, raced, dropped>>
        BY <1>8 DEF vars, cacheVars, ghostVars, Cached
    <2>2. QED BY <2>1, StayBounds DEF BoundsInv
<1>9. QED BY <1>1, <1>2, <1>3, <1>4, <1>5, <1>6, <1>7, <1>8 DEF GuildNext, GuildStep

\* The cache of the guild module: its list is the keys of its map, once each, and not more
\* than the capacity; and what Close has left unsaved was not promised, unless Redis failed.
THEOREM GuildCacheSound == GuildSpec => []CacheIsSound
<1> DEFINE I == GuildInv /\ BoundsInv
<1>1. Init => I BY CacheBegins, BoundsBegin DEF GuildInv
<1>2. I /\ [GuildNext]_vars => I' BY GuildSteps, GuildBounds DEF GuildInv, CacheInv
<1>3. I => CacheIsSound BY CacheSound DEF GuildInv
<1> HIDE DEF I
<1>4. QED BY <1>1, <1>2, <1>3, PTL DEF GuildSpec

-----------------------------------------------------------------------------
(* The activities. *)

\* What IterateActivityPlayerData still has to hand out may go into the cache.
ListInv == owner.pc = "listing" =>
    \A k \in DOMAIN listed : k \in Key /\ listed[k] \in Data /\ Fresh(k, listed[k])

ActInv == CacheInv /\ LoadInv /\ ListInv

\* Data that was found goes in as clean.
LEMMA FillCleanKeeps == ASSUME ActInv, NEW k \in Key, FillClean(k) PROVE ActInv'
<1>1. CacheInv /\ FlushInv /\ owner \in Owner BY DEF ActInv, CacheInv, LoadInv
<1>2. /\ owner.pc = "filling" /\ Fresh(k, owner.data) /\ owner.data \in Data
      /\ SetObject(k, owner.data, FALSE) /\ owner' = Ready /\ done' = done /\ unmarked' = unmarked
    BY <1>1 DEF FillClean, ActInv, LoadInv, Owner
<1>3. ~flusher.final BY <1>1, <1>2 DEF FlushInv
<1>4. CacheInv'
    <2> DEFINE data == owner.data
    <2>1. Fresh(k, data) /\ data \in Data /\ SetObject(k, data, FALSE) BY <1>2
    <2> HIDE DEF data
    <2>2. QED BY <1>1, <1>2, <1>3, <2>1, SetCleanKeeps
<1>5. LoadInv' /\ ListInv' BY <1>2 DEF LoadInv, ListInv, Ready, Owner, Data
<1>6. QED BY <1>4, <1>5 DEF ActInv

\* Who has no data gets new data, which goes in as dirty.
LEMMA NewPlayerDataKeeps == ASSUME ActInv, NEW k \in Key, NewPlayerData(k) PROVE ActInv'
<1>1. CacheInv /\ FlushInv /\ CacheType BY DEF ActInv, CacheInv
<1>2. /\ owner.pc = "filling" /\ Fresh(k, {}) /\ SetObject(k, {New}, TRUE) /\ owner' = Ready
      /\ done' = [done EXCEPT ![k] = @ \cup {New}] /\ unmarked' = unmarked
    BY DEF NewPlayerData, ActInv, LoadInv
<1>3. ~flusher.final BY <1>1, <1>2 DEF FlushInv
<1>4. Marked(k)' \subseteq Marked(k) \cup {New} BY <1>1, <1>2 DEF Marked, CacheType
<1>5. /\ done' \in [Key -> Data] /\ unmarked' \in [Key -> Data]
      /\ \A j \in Key \ {k} : done'[j] = done[j] /\ unmarked'[j] = unmarked[j]
    BY <1>1, <1>2, NewAssumption DEF CacheType, Data
<1>6. {New} \in Data BY NewAssumption DEF Data
<1>7. CacheInv'
    <2> DEFINE held == {New}
    <2> DEFINE data == {}
    <2>1. held \in Data /\ Fresh(k, data) /\ data \subseteq held /\ held \subseteq held /\ SetObject(k, held, TRUE)
          /\ Marked(k)' \subseteq Marked(k) \cup held
        BY <1>2, <1>4, <1>6
    <2> HIDE DEF held, data
    <2>2. QED BY <1>1, <1>2, <1>3, <1>5, <2>1, SetDirtyKeeps
<1>8. LoadInv' /\ ListInv' BY <1>2 DEF LoadInv, ListInv, Ready, Owner, Data
<1>9. QED BY <1>7, <1>8 DEF ActInv

\* A read that failed: the key is one of those that nothing is promised of.
LEMMA ReadFailsKeeps == ASSUME ActInv, NEW k \in Key, ReadFails(k) PROVE ActInv'
<1>1. CacheInv /\ CacheType /\ FlushInv /\ owner \in Owner BY DEF ActInv, CacheInv, LoadInv
<1>2. /\ owner.pc = "reading" /\ k \in owner.for /\ owner' = [owner EXCEPT !.pc = "filling"]
      /\ fails' = fails + 1 /\ dropped' = dropped \cup {k} /\ raced' = raced
      /\ UNCHANGED <<entries, heap, store, flusher, done, unmarked>>
    BY DEF ReadFails
<1>3. fails' \in Nat /\ fails' # 0 /\ ~flusher.final BY <1>1, <1>2 DEF CacheType, FlushInv
<1>4. Keeps BY <1>1, <1>2, <1>3, IdleKeeps
<1>5. owner' \in Owner /\ owner'.for = owner.for /\ owner'.pc = "filling" BY <1>1, <1>2 DEF Owner
<1>6. Fresh(k, owner.data)' BY <1>2 DEF Fresh
<1>7. k \notin Cached' /\ \A j \in owner.for : j = k BY <1>2 DEF ActInv, LoadInv, Cached
<1>8. LoadInv' /\ ListInv' BY <1>5, <1>6, <1>7 DEF LoadInv, ListInv
<1>9. QED BY <1>4, <1>8 DEF Keeps, ActInv

\* Redis is read for all whose entry is not live.
LEMMA ListKeeps == ASSUME ActInv, List PROVE ActInv'
<1>1. CacheInv /\ CacheType /\ FlushInv BY DEF ActInv, CacheInv
<1> DEFINE Others == {k \in Key : ~Live(k) /\ store[k] # {}}
<1>2. /\ owner.pc = "ready" /\ owner' = [Ready EXCEPT !.pc = "listing"]
      /\ listed' = [k \in Others |-> store[k]]
      /\ raced' = raced \cup {k \in Others : Unsaved(k)} /\ dropped' = dropped /\ fails' = fails
      /\ UNCHANGED <<entries, heap, store, flusher, done, unmarked>>
    BY DEF List, cacheVars
<1>3. fails' \in Nat /\ ~flusher.final BY <1>1, <1>2 DEF CacheType, FlushInv
<1>4. Others \subseteq Key OBVIOUS
<1> HIDE DEF Others
<1>5. Keeps BY <1>1, <1>2, <1>3, IdleKeeps
<1>6. LoadInv' BY <1>2 DEF LoadInv, Ready, Owner, Data
<1>7. ASSUME NEW k \in Others PROVE k \in Key /\ listed'[k] \in Data /\ Fresh(k, listed[k])'
    <2>1. k \in Key /\ KeyInv(k) BY <1>4, <1>7 DEF ActInv, CacheInv
    <2>2. listed'[k] = store[k] /\ store[k] \in Data BY <1>1, <1>2, <1>7, <2>1 DEF CacheType
    <2>3. k \in raced' \/ Fresh(k, store[k]) BY <1>2, <1>7, <2>1, ReadIsFresh
    <2>4. \A data : Fresh(k, data) => Fresh(k, data)' BY <1>5, <2>1 DEF Keeps
    <2>5. QED BY <2>1, <2>2, <2>3, <2>4 DEF Fresh
<1>8. ListInv' BY <1>2, <1>7 DEF ListInv
<1>9. QED BY <1>5, <1>6, <1>8 DEF Keeps, ActInv

\* What was listed goes in as clean.
LEMMA FillListedKeeps == ASSUME ActInv, NEW k \in Key, FillListed(k) PROVE ActInv'
<1>1. CacheInv /\ FlushInv /\ CacheType BY DEF ActInv, CacheInv
<1> DEFINE data == listed[k]
<1>2. /\ owner.pc = "listing" /\ k \in DOMAIN listed /\ Fresh(k, data) /\ data \in Data
      /\ SetObject(k, data, FALSE) /\ owner' = owner /\ done' = done /\ unmarked' = unmarked
      /\ listed' = [j \in DOMAIN listed \ {k} |-> listed[j]]
    BY DEF FillListed, ActInv, ListInv, ownerVars
<1> HIDE DEF data
<1>3. ~flusher.final BY <1>1, <1>2 DEF FlushInv
<1>4. CacheInv' /\ \A j \in Key \ {k} : \A d : Fresh(j, d) => Fresh(j, d)'
    BY <1>1, <1>2, <1>3, SetCleanKeeps
<1>5. LoadInv' BY <1>2 DEF ActInv, LoadInv
<1>6. ASSUME NEW j \in DOMAIN listed' PROVE j \in Key /\ listed'[j] \in Data /\ Fresh(j, listed[j])'
    <2>1. j \in DOMAIN listed /\ j # k /\ listed'[j] = listed[j] BY <1>2, <1>6
    <2>2. j \in Key /\ listed[j] \in Data /\ Fresh(j, listed[j]) BY <1>2, <2>1 DEF ActInv, ListInv
    <2>3. \A d : Fresh(j, d) => Fresh(j, d)' BY <1>4, <2>1, <2>2
    <2>4. QED BY <2>1, <2>2, <2>3 DEF Fresh
<1>7. ListInv' BY <1>6 DEF ListInv
<1>8. QED BY <1>4, <1>5, <1>7 DEF ActInv

LEMMA EndListKeeps == ASSUME ActInv, EndList PROVE ActInv'
<1>1. CacheInv /\ CacheType /\ FlushInv BY DEF ActInv, CacheInv
<1>2. /\ owner.pc = "listing" /\ owner' = Ready
      /\ UNCHANGED <<entries, heap, store, flusher, done, unmarked, fails, raced, dropped>>
    BY DEF EndList, cacheVars, ghostVars
<1>3. fails' \in Nat /\ ~flusher.final BY <1>1, <1>2 DEF CacheType, FlushInv
<1>4. Keeps BY <1>1, <1>2, <1>3, IdleKeeps
<1>5. LoadInv' /\ ListInv' BY <1>2 DEF LoadInv, ListInv, Ready, Owner, Data
<1>6. QED BY <1>4, <1>5 DEF Keeps, ActInv

\* The live entries leave, saved if they are dirty.
LEMMA PurgeCacheKeeps == ASSUME ActInv, PurgeCache PROVE ActInv'
<1>1. CacheInv /\ CacheType /\ FlushInv BY DEF ActInv, CacheInv
<1> DEFINE K == {k \in Cached : Live(k)}
<1>2. /\ owner.pc = "ready" /\ owner' = [Ready EXCEPT !.pc = "purging"]
      /\ Leaves(K) /\ entries' = [j \in Cached \ K |-> entries[j]]
      /\ heap' = heap /\ flusher' = flusher /\ done' = done /\ unmarked' = unmarked
    BY DEF PurgeCache, Remove
<1> HIDE DEF K
<1>3. FlushInv' /\ flusher' \in Flusher BY <1>1, <1>2 DEF FlushInv, CacheType
<1>4. CacheType' /\ (\A j \in Key : KeyInv(j)') BY <1>1, <1>2, <1>3, RemoveKeeps
<1>5. LoadInv' /\ ListInv' BY <1>2 DEF LoadInv, ListInv, Ready, Owner, Data
<1>6. QED BY <1>3, <1>4, <1>5 DEF ActInv, CacheInv

\* Then the data is gone, and with it all that was promised.
LEMMA PurgeStoreKeeps == ASSUME ActInv, PurgeStore PROVE ActInv'
<1>1. CacheInv /\ CacheType /\ FlushInv BY DEF ActInv, CacheInv
<1>2. /\ owner.pc = "purging" /\ owner' = [Ready EXCEPT !.pc = "closed"]
      /\ store' = [k \in Key |-> {}] /\ done' = [k \in Key |-> {}] /\ unmarked' = done'
      /\ raced \subseteq raced' /\ UNCHANGED <<entries, heap, flusher, fails, dropped>>
    BY DEF PurgeStore
<1>3. CacheType' BY <1>1, <1>2 DEF CacheType, Cached, Data
<1>4. FlushInv' BY <1>1, <1>2 DEF FlushInv
<1>5. ASSUME NEW k \in Key PROVE KeyInv(k)'
    <2>1. Marked(k)' = {} BY <1>2 DEF Marked
    <2>2. KeyInv(k) BY <1>1 DEF CacheInv
    <2>3. QED BY <1>2, <2>1, <2>2 DEF KeyInv, Cached
<1>6. LoadInv' /\ ListInv' BY <1>2 DEF LoadInv, ListInv, Ready, Owner, Data
<1>7. QED BY <1>3, <1>4, <1>5, <1>6 DEF ActInv, CacheInv

\* What is listed stays fresh while the flush and the clock work.
LEMMA ListStays ==
    ASSUME ListInv, Keeps, owner' = owner, listed' = listed PROVE ListInv'
<1>1. SUFFICES ASSUME owner.pc = "listing", NEW k \in DOMAIN listed PROVE Fresh(k, listed[k])'
    BY DEF ListInv
<1>2. k \in Key /\ Fresh(k, listed[k]) BY <1>1 DEF ListInv
<1>3. \A data : Fresh(k, data) => Fresh(k, data)' BY <1>2 DEF Keeps
<1>4. QED BY <1>2, <1>3 DEF Fresh

LEMMA SharedKeeps == ASSUME ActInv, Shared, UNCHANGED listed PROVE ActInv'
<1>1. CASE LoadStep
    <2>1. CacheInv' /\ LoadInv' BY <1>1, LoadKeeps DEF ActInv
    <2>2. owner'.pc # "listing"
        <3>1. ASSUME NEW k \in Key, Miss(k) PROVE owner'.pc # "listing" BY <3>1 DEF Miss
        <3>2. ASSUME NEW k \in Key, ReadPlayerData(k) PROVE owner'.pc # "listing"
            BY <3>2 DEF ReadPlayerData, ActInv, LoadInv, Owner
        <3>3. ASSUME NEW k \in Key, Look(k) PROVE owner'.pc # "listing" BY <3>3 DEF Look, ownerVars
        <3>4. CASE Close BY <3>4 DEF Close, Ready
        <3>5. QED BY <1>1, <3>1, <3>2, <3>3, <3>4 DEF LoadStep
    <2>3. QED BY <2>1, <2>2 DEF ActInv, ListInv
<1>2. CASE FlusherStep \/ ClockStep
    <2>1. Keeps /\ LoadInv' /\ owner' = owner BY <1>2, OthersKeep DEF ActInv
    <2>2. QED BY <2>1, ListStays DEF ActInv, Keeps
<1>3. ASSUME NEW k \in Key, NEW c \in Change, ChangeInPlace(k, c) PROVE ActInv'
    <2>1. CacheInv' /\ LoadInv' /\ owner' = owner /\ owner.pc = "ready"
        BY <1>3, InPlaceKeeps DEF ActInv
    <2>2. QED BY <2>1 DEF ActInv, ListInv
<1>4. QED BY <1>1, <1>2, <1>3 DEF Shared

\* The invariant is inductive.
LEMMA ActSteps == ActInv /\ [ActNext]_actVars => ActInv'
<1> SUFFICES ASSUME ActInv, [ActNext]_actVars PROVE ActInv' OBVIOUS
<1>1. CASE ActivityStep
    BY <1>1, FillCleanKeeps, NewPlayerDataKeeps, ReadFailsKeeps, ListKeeps, FillListedKeeps,
       EndListKeeps, PurgeCacheKeeps, PurgeStoreKeeps DEF ActivityStep
<1>2. CASE Shared /\ UNCHANGED listed BY <1>2, SharedKeeps
<1>3. CASE UNCHANGED actVars
    <2>1. CacheInv /\ FlushInv /\ CacheType BY DEF ActInv, CacheInv
    <2>2. UNCHANGED <<entries, heap, store, flusher, done, unmarked, fails, raced, dropped, owner, listed>>
        BY <1>3 DEF actVars, vars, cacheVars, ghostVars, ownerVars
    <2>3. fails' \in Nat /\ (flusher.final => owner'.pc = "stopped")
        BY <2>1, <2>2 DEF CacheType, FlushInv
    <2>4. Keeps BY <2>1, <2>2, <2>3, IdleKeeps
    <2>5. LoadInv' BY <2>2, <2>4, LoadStays DEF ActInv, Cached
    <2>6. QED BY <2>2, <2>4, <2>5, ListStays DEF Keeps, ActInv
<1>4. QED BY <1>1, <1>2, <1>3 DEF ActNext

-----------------------------------------------------------------------------
\* No new player data of an activity, and no change made to it before it was first saved,
\* is lost or overlooked by a later load or listing, until the activity closes - unless its
\* key met one of the recorded races, a save given up or a failed read.
THEOREM ActivityKeepsPromises == ActSpec => []PromisesAreKept
<1>1. ActInit => ActInv
    BY CacheBegins DEF ActInit, ActInv, ListInv, Init, Ready
<1>2. ActInv => PromisesAreKept BY CacheKeepsPromises DEF ActInv
<1>3. QED BY <1>1, <1>2, ActSteps, PTL DEF ActSpec
-----------------------------------------------------------------------------
(* What a closed activity leaves. *)

\* What is listed is players' data.
ListType == DOMAIN listed \subseteq Key /\ listed \in [DOMAIN listed -> Data]

\* Of a closed activity nothing is in Redis and nothing is on its way there.
GoneInv == owner.pc = "closed" =>
    \A k \in Key \ raced : store[k] = {} /\ ~Unsaved(k)

\* An activity's handlers keep to the bounds and to the types.
LEMMA ActBounds ==
    ASSUME CacheType, BoundsInv, ListType, owner \in Owner, [ActNext]_actVars
    PROVE  BoundsInv' /\ ListType'
<1>1. CASE LoadStep /\ UNCHANGED listed BY <1>1, LoadBounds DEF ListType
<1>2. CASE (FlusherStep \/ ClockStep) /\ UNCHANGED listed BY <1>2, OthersBounds DEF ListType
<1>3. ASSUME NEW k \in Key, NEW c \in Change, ChangeInPlace(k, c), UNCHANGED listed
      PROVE  BoundsInv' /\ ListType'
    BY <1>3, InPlaceBounds DEF ListType
<1>4. ASSUME NEW k \in Key, FillClean(k) \/ NewPlayerData(k) PROVE BoundsInv' /\ ListType'
    <2>1. PICK data, dirty : SetObject(k, data, dirty) BY <1>4 DEF FillClean, NewPlayerData
    <2>2. listed' = listed BY <1>4 DEF FillClean, NewPlayerData
    <2>3. QED BY <2>1, <2>2, SetBounds DEF ListType
<1>5. ASSUME NEW k \in Key, FillListed(k) PROVE BoundsInv' /\ ListType'
    <2>1. PICK data, dirty : SetObject(k, data, dirty) BY <1>5 DEF FillListed
    <2>2. listed' = [j \in DOMAIN listed \ {k} |-> listed[j]] BY <1>5 DEF FillListed
    <2>3. ListType' BY <2>2 DEF ListType
    <2>4. QED BY <2>1, <2>3, SetBounds
<1>6. ASSUME NEW k \in Key, ReadFails(k) PROVE BoundsInv' /\ ListType'
    <2>1. /\ DOMAIN entries' = Cached /\ UNCHANGED <<lru, raced, listed>>
          /\ fails' \in 0 .. MaxFails /\ dropped' \in SUBSET Key
        BY <1>6, CacheAssumption DEF ReadFails, BoundsInv, Cached
    <2>2. QED BY <2>1, StayBounds DEF BoundsInv, ListType
<1>7. CASE List
    <2> DEFINE Others == {k \in Key : ~Live(k) /\ store[k] # {}}
    <2>1. /\ DOMAIN entries' = Cached /\ UNCHANGED <<lru, fails, dropped>>
          /\ raced' \in SUBSET Key /\ listed' = [k \in Others |-> store[k]]
        BY <1>7 DEF List, cacheVars, BoundsInv, Cached
    <2>2. ListType' BY <2>1 DEF ListType, CacheType
    <2>3. QED BY <2>1, <2>2, StayBounds DEF BoundsInv
<1>8. CASE EndList
    <2>1. DOMAIN entries' = Cached /\ UNCHANGED <<lru, fails, raced, dropped, listed>>
        BY <1>8 DEF EndList, cacheVars, ghostVars, Cached
    <2>2. QED BY <2>1, StayBounds DEF BoundsInv, ListType
<1>9. CASE PurgeCache
    <2> DEFINE K == {k \in Cached : Live(k)}
    <2>1. Leaves(K) /\ entries' = [j \in Cached \ K |-> entries[j]] /\ lru' = Without(K)
        BY <1>9 DEF PurgeCache, Remove
    <2>2. listed' = listed BY <1>9 DEF PurgeCache
    <2> HIDE DEF K
    <2>3. QED BY <2>1, <2>2, RemovesBounds DEF ListType
<1>10. CASE PurgeStore
    <2>1. DOMAIN entries' = Cached /\ UNCHANGED <<lru, fails, dropped, listed>> /\ raced' \in SUBSET Key
        BY <1>10 DEF PurgeStore, BoundsInv, Cached
    <2>2. QED BY <2>1, StayBounds DEF BoundsInv, ListType
<1>11. CASE UNCHANGED actVars
    <2>1. DOMAIN entries' = Cached /\ UNCHANGED <<lru, fails, raced, dropped, listed>>
        BY <1>11 DEF actVars, vars, cacheVars, ghostVars, Cached
    <2>2. QED BY <2>1, StayBounds DEF BoundsInv, ListType
<1>12. QED
    BY <1>1, <1>2, <1>3, <1>4, <1>5, <1>6, <1>7, <1>8, <1>9, <1>10, <1>11
    DEF ActNext, ActivityStep, Shared

\* What the flush still does after the end is about keys that were on their way.
LEMMA FlushLeavesGone ==
    ASSUME CacheType, FlusherStep \/ ClockStep,
           NEW k \in Key, k \notin raced, store[k] = {}, ~Unsaved(k)
    PROVE  k \in raced' \/ (store'[k] = {} /\ ~Unsaved(k)')
<1>1. entries \in [Cached -> Entry] /\ store \in [Key -> Data] BY DEF CacheType
<1>2. /\ k \in Cached => ~entries[k].dirty
      /\ \A t \in flusher.todo : t.key # k
      /\ \A s \in flusher.sending : s.key # k
    BY DEF Unsaved, Pending, Sending, DirtyKeys
<1> DEFINE Gone == /\ store'[k] = {}
                   /\ k \in DOMAIN entries' => ~entries'[k].dirty
                   /\ \A t \in flusher'.todo : t.key # k
                   /\ \A s \in flusher'.sending : s.key # k
<1>3. SUFFICES Gone
    BY DEF Unsaved, Pending, Sending, DirtyKeys, Cached
<1>4. flusher \in Flusher BY DEF CacheType
<1>5. CASE StartFlush \/ FlushLast
    <2>1. /\ store' = store /\ flusher'.sending = flusher.sending
          /\ entries' = [j \in Cached |-> [entries[j] EXCEPT !.dirty = FALSE]]
          /\ flusher'.todo = {[key |-> j, obj |-> entries[j].obj] : j \in DirtyKeys(Cached)}
        BY <1>4, <1>5 DEF StartFlush, FlushLast, Flusher
    <2>2. k \notin DirtyKeys(Cached) BY <1>2 DEF DirtyKeys
    <2>3. k \in DOMAIN entries' => ~entries'[k].dirty BY <1>1, <2>1 DEF Entry
    <2>4. \A t \in flusher'.todo : t.key # k BY <2>1, <2>2
    <2>5. QED BY <1>2, <2>1, <2>3, <2>4
<1>6. ASSUME NEW t \in flusher.todo, Send(t) PROVE Gone
    <2>1. /\ store' = store /\ entries' = entries
          /\ flusher'.todo = flusher.todo \ {t}
          /\ flusher'.sending = {[key |-> t.key, data |-> heap[t.obj]]}
        BY <1>4, <1>6 DEF Send, Flusher
    <2>2. QED BY <1>2, <2>1 DEF Cached
<1>7. ASSUME NEW s \in flusher.sending, Sent(s) \/ SendFails(s) PROVE Gone
    <2>1. s.key # k /\ flusher'.todo = flusher.todo /\ flusher'.sending = {}
        BY <1>2, <1>4, <1>7 DEF Sent, SendFails, Flusher
    <2>2. store'[k] = store[k] BY <1>1, <1>7, <2>1 DEF Sent, SendFails
    <2>3. k \in DOMAIN entries' => k \in Cached /\ entries'[k].dirty = entries[k].dirty
        BY <1>1, <1>7, <2>1 DEF Sent, SendFails, Cached
    <2>4. QED BY <1>2, <2>1, <2>2, <2>3
<1>8. CASE CleanExpired
    <2> DEFINE K == {j \in Cached : entries[j].expired}
    <2>1. /\ Leaves(K) /\ entries' = [j \in Cached \ K |-> entries[j]]
          /\ flusher' = [flusher EXCEPT !.phase = "idle"]
        BY <1>8 DEF CleanExpired
    <2>2. flusher'.todo = flusher.todo /\ flusher'.sending = flusher.sending
        BY <1>4, <2>1 DEF Flusher
    <2> HIDE DEF K
    <2>3. k \notin DirtyKeys(K) BY <1>2 DEF DirtyKeys
    <2>4. store'[k] = store[k] BY <2>1, <2>3, LeavesFacts
    <2>5. QED BY <1>2, <2>1, <2>2, <2>4
<1>9. CASE Closed
    <2>1. store' = store /\ entries' = entries
          /\ flusher'.todo = flusher.todo /\ flusher'.sending = flusher.sending
        BY <1>4, <1>9 DEF Closed, Flusher
    <2>2. QED BY <1>2, <2>1 DEF Cached
<1>10. ASSUME NEW j \in Key, Expire(j) PROVE Gone
    <2>1. store' = store /\ flusher' = flusher /\ entries' = [entries EXCEPT ![j].expired = TRUE]
        BY <1>10 DEF Expire
    <2>2. k \in DOMAIN entries' => k \in Cached /\ entries'[k].dirty = entries[k].dirty
        BY <1>1, <2>1 DEF Entry, Cached
    <2>3. QED BY <1>2, <2>1, <2>2
<1>11. QED BY <1>5, <1>6, <1>7, <1>8, <1>9, <1>10 DEF FlusherStep, ClockStep, Flushes

LEMMA GoneSteps ==
    ASSUME CacheType, owner \in Owner, GoneInv, [ActNext]_actVars PROVE GoneInv'
<1>1. CASE FlusherStep \/ ClockStep
    <2>1. owner' = owner /\ raced \subseteq raced'
        <3>1. ASSUME CleanExpired PROVE raced \subseteq raced'
            <4>1. PICK K : Leaves(K) BY <3>1 DEF CleanExpired
            <4>2. QED BY <4>1, LeavesFacts
        <3>2. owner' = owner BY <1>1 DEF FlusherStep, ClockStep, ownerVars
        <3>3. raced \subseteq raced'
            BY <1>1, <3>1 DEF FlusherStep, ClockStep, Flushes, StartFlush, FlushLast, Send, Sent, SendFails,
               Closed, Expire, ghostVars
        <3>4. QED BY <3>2, <3>3
    <2>2. ASSUME owner.pc = "closed", NEW k \in Key \ raced'
          PROVE  store'[k] = {} /\ ~Unsaved(k)'
        <3>1. k \notin raced /\ store[k] = {} /\ ~Unsaved(k) BY <2>1, <2>2 DEF GoneInv
        <3>2. QED BY <1>1, <2>2, <3>1, FlushLeavesGone
    <2>3. QED BY <2>1, <2>2 DEF GoneInv
<1>2. CASE PurgeStore
    <2>1. /\ store' = [k \in Key |-> {}] /\ raced' = raced \cup {k \in Key : Unsaved(k)}
          /\ entries' = entries /\ flusher' = flusher
        BY <1>2 DEF PurgeStore
    <2>2. \A k \in Key : Unsaved(k)' = Unsaved(k)
        BY <2>1 DEF Unsaved, Pending, Sending, DirtyKeys, Cached
    <2>3. QED BY <2>1, <2>2 DEF GoneInv
<1>3. CASE UNCHANGED actVars
    <2>1. UNCHANGED <<entries, store, flusher, raced, owner>>
        BY <1>3 DEF actVars, vars, cacheVars, ghostVars, ownerVars
    <2>2. \A k \in Key : Unsaved(k)' = Unsaved(k)
        BY <2>1 DEF Unsaved, Pending, Sending, DirtyKeys, Cached
    <2>3. QED BY <2>1, <2>2 DEF GoneInv
<1>4. ASSUME owner'.pc # "closed" PROVE GoneInv' BY <1>4 DEF GoneInv
<1>5. CASE LoadStep
    <2>1. ASSUME NEW k \in Key, Miss(k) PROVE GoneInv' BY <1>4, <2>1 DEF Miss
    <2>2. ASSUME NEW k \in Key, ReadPlayerData(k) PROVE GoneInv'
        BY <1>4, <2>2 DEF ReadPlayerData, Owner
    <2>3. ASSUME NEW k \in Key, Look(k) PROVE GoneInv' BY <1>4, <2>3 DEF Look, ownerVars
    <2>4. CASE Close BY <1>4, <2>4 DEF Close, Ready
    <2>5. QED BY <1>5, <2>1, <2>2, <2>3, <2>4 DEF LoadStep
<1>6. ASSUME NEW k \in Key, NEW c \in Change, ChangeInPlace(k, c) PROVE GoneInv'
    BY <1>4, <1>6 DEF ChangeInPlace, Changes
<1>7. ASSUME NEW k \in Key, FillClean(k) \/ NewPlayerData(k) PROVE GoneInv'
    <2>1. owner' = Ready BY <1>7 DEF FillClean, NewPlayerData
    <2>2. QED BY <1>4, <2>1 DEF Ready
<1>8. ASSUME NEW k \in Key, ReadFails(k) PROVE GoneInv' BY <1>4, <1>8 DEF ReadFails, Owner
<1>9. ASSUME NEW k \in Key, FillListed(k) PROVE GoneInv' BY <1>4, <1>9 DEF FillListed, ownerVars
<1>10. CASE List \/ EndList \/ PurgeCache
    BY <1>4, <1>10 DEF List, EndList, PurgeCache, Ready
<1>11. QED
    BY <1>1, <1>2, <1>3, <1>5, <1>6, <1>7, <1>8, <1>9, <1>10 DEF ActNext, ActivityStep, Shared

\* What is listed is players' data, and of a closed activity no player's data is left,
\* except what a flush or an expired entry had still to save when it was closed.
THEOREM ActivityDataSound == ActSpec => []DataIsSound
<1> DEFINE I == ActInv /\ BoundsInv /\ ListType /\ GoneInv
<1>1. ActInit => I
    <2> SUFFICES ASSUME ActInit PROVE I OBVIOUS
    <2>1. ActInv BY CacheBegins DEF ActInit, ActInv, ListInv, Init, Ready
    <2>2. BoundsInv BY BoundsBegin DEF ActInit
    <2>3. ListType BY DEF ActInit, NoneListed, ListType
    <2>4. GoneInv BY DEF ActInit, Init, Ready, GoneInv
    <2>5. QED BY <2>1, <2>2, <2>3, <2>4
<1>2. I /\ [ActNext]_actVars => I'
    <2> SUFFICES ASSUME I, [ActNext]_actVars PROVE I' OBVIOUS
    <2>1. CacheType /\ owner \in Owner BY DEF ActInv, CacheInv, LoadInv
    <2>2. ActInv' BY ActSteps
    <2>3. BoundsInv' /\ ListType' BY <2>1, ActBounds
    <2>4. GoneInv' BY <2>1, GoneSteps
    <2>5. QED BY <2>2, <2>3, <2>4
<1>3. I => DataIsSound
    <2> SUFFICES ASSUME I PROVE DataIsSound OBVIOUS
    <2>1. TypeOK BY CacheSound DEF ActInv, CacheIsSound
    <2>2. listed \in Listed BY DEF ListType, Listed
    <2>3. PurgedIsGone BY DEF GoneInv, PurgedIsGone
    <2>4. QED BY <2>1, <2>2, <2>3 DEF DataIsSound, ActTypeOK
<1> HIDE DEF I
<1>4. QED BY <1>1, <1>2, <1>3, PTL DEF ActSpec

\* The cache of an activity: its list is the keys of its map, once each, and not more than
\* the capacity; and what Close has left unsaved was not promised, unless Redis failed.
THEOREM ActivityCacheSound == ActSpec => []CacheIsSound
<1> DEFINE I == ActInv /\ BoundsInv /\ ListType
<1>1. ActInit => I
    <2> SUFFICES ASSUME ActInit PROVE I OBVIOUS
    <2>1. ActInv BY CacheBegins DEF ActInit, ActInv, ListInv, Init, Ready
    <2>2. BoundsInv BY BoundsBegin DEF ActInit
    <2>3. ListType BY DEF ActInit, NoneListed, ListType
    <2>4. QED BY <2>1, <2>2, <2>3
<1>2. I /\ [ActNext]_actVars => I' BY ActSteps, ActBounds DEF ActInv, CacheInv, LoadInv
<1>3. I => CacheIsSound BY CacheSound DEF ActInv
<1> HIDE DEF I
<1>4. QED BY <1>1, <1>2, <1>3, PTL DEF ActSpec
=============================================================================
