------------------------------- MODULE FzStore -------------------------------
(***************************************************************************)
(* The resource store of source/fitz/store.c: a cache of reference counted *)
(* values shared by the threads of cloned contexts, ordered by use, with a *)
(* limit on its total size.                                                *)
(*                                                                         *)
(* All of it runs under the allocator's lock, but evict drops the lock to  *)
(* free what it evicted, and ensure_space, scavenge and fz_empty_store go  *)
(* on afterwards with pointers and sums taken before.  `lock` is that      *)
(* lock; an action with no step of its own inside the lock takes it and    *)
(* releases it at once.                                                    *)
(*                                                                         *)
(* The hash table is the map FzMap that FzHash is shown to implement.      *)
(* Static values (refs <= 0) are left out: they are never counted.         *)
(***************************************************************************)
EXTENDS Integers, FiniteSets, SequencesExt

CONSTANTS
    Threads,
    Keys, HashKeys,     \* keys, and those whose type has a hash key
    Items,              \* addresses of fz_item structures
    Vals, ValSize,      \* values, and the itemsize each is stored with
    Setups,             \* limits of the store, with the calls each thread makes
    Phases,             \* 16 in fz_store_scavenge
    Percents,           \* arguments of fz_shrink_store
    Requests,           \* arguments of the scavenging malloc
    Word,               \* UINT_MAX + 1
    None

Calls == {"store", "find", "remove", "empty", "malloc", "shrink"}

\* FZ_STORE_UNLIMITED
Unlimited == 0

ASSUME StoreAssumption ==
    /\ IsFiniteSet(Threads) /\ IsFiniteSet(Items)
    /\ HashKeys \subseteq Keys
    /\ ValSize \in [Vals -> Nat \ {0}]
    /\ Phases \in Nat \ {0}
    /\ Percents \subseteq 0 .. 99
    /\ Word \in Nat \ {0} /\ Requests \subseteq 1 .. Word - 1
    /\ Setups \subseteq [max : Nat, calls : [Threads -> SUBSET Calls]]
    /\ None \notin Keys \cup Items \cup Vals \cup Threads

ASSUME NoItemAssumption == None \notin [key : Keys, val : Vals]

VARIABLES
    setup,      \* store->max, and the calls each thread makes
    torn,       \* threads whose item was emptied out of the store, or removed
    lock,       \* owner of FZ_LOCK_ALLOC
    item,       \* the item at each address, None where nothing is allocated
    lru,        \* the linked list, head (most recent) first
    hashed,     \* the hash table
    size,       \* store->size
    refs,       \* reference count of each value, 0 once freed
    hand,       \* the value a thread owns a reference to
    fresh,      \* values made and not yet offered to the store
    pc,
    own,        \* the item pointer a call works with
    want,       \* local `size` of fz_store_item and of the scavenging malloc
    goal, count,\* tofree and count of ensure_space and scavenge
    prev,       \* the item ensure_space pinned
    victim,     \* the item evict or fz_remove_item is freeing
    after,      \* where evict returns to
    phase       \* of the scavenging malloc

shared == <<lock, item, lru, hashed, size, refs>>
locals == <<setup, torn, own, want, goal, count, prev, victim, after, phase>>
work == <<setup, torn, want, goal, count, prev, victim, after, phase>>
vars == <<shared, hand, fresh, pc, locals>>

Init ==
    /\ setup \in Setups /\ torn = {}
    /\ lock = None
    /\ item = [i \in Items |-> None]
    /\ lru = <<>> /\ hashed = [k \in HashKeys |-> None] /\ size = 0
    /\ refs = [v \in Vals |-> 0]
    /\ hand = [t \in Threads |-> None] /\ fresh = {}
    /\ pc = [t \in Threads |-> "idle"]
    /\ own = [t \in Threads |-> None]
    /\ want = [t \in Threads |-> 0]
    /\ goal = [t \in Threads |-> 0] /\ count = [t \in Threads |-> 0]
    /\ prev = [t \in Threads |-> None] /\ victim = [t \in Threads |-> None]
    /\ after = [t \in Threads |-> "idle"]
    /\ phase = [t \in Threads |-> 0]

\* Once a call goes on with an item that another has freed anything may happen: the
\* model ends there, and what is said of the store is said up to there.
Intact == torn = {}

At(t, step) == Intact /\ pc[t] = step
Goto(t, step) == pc' = [pc EXCEPT ![t] = step]
Free == lock = None
Linked(i) == i \in ToSet(lru)
Allocated == {i \in Items : item[i] # None}
Unlink(s, i) == RemoveFirst(s, i)

\* Within store->max.
Fits(s) == setup.max = Unlimited \/ s <= setup.max

\* touch: to the head of the list, from wherever the item is.
Touched(i) == <<i>> \o Unlink(lru, i)

\* The item the hash table or a search of the list gives for k, if any.
Lookup(k) ==
    IF k \in HashKeys THEN hashed[k]
    ELSE LET at == {j \in DOMAIN lru : item[lru[j]].key = k}
         IN IF at = {} THEN None ELSE lru[CHOOSE j \in at : \A i \in at : j <= i]

----------------------------------------------------------------------------
(* The callers' own references *)

\* A value is decoded: its maker has the only reference.
MakeValue(t, v) ==
    /\ "store" \in setup.calls[t]
    /\ At(t, "idle") /\ hand[t] = None /\ Free
    /\ refs[v] = 0 /\ v \notin {item[i].val : i \in Allocated}
    /\ hand' = [hand EXCEPT ![t] = v]
    /\ refs' = [refs EXCEPT ![v] = 1]
    /\ fresh' = fresh \cup {v}
    /\ UNCHANGED <<lock, item, lru, hashed, size, pc, locals>>

\* fz_drop_storable
DropValue(t) ==
    /\ At(t, "idle") /\ hand[t] # None /\ Free
    /\ refs' = [refs EXCEPT ![hand[t]] = @ - 1]
    /\ hand' = [hand EXCEPT ![t] = None]
    /\ fresh' = fresh \ {hand[t]}
    /\ UNCHANGED <<lock, item, lru, hashed, size, pc, locals>>

----------------------------------------------------------------------------
(* evict: unlink, uncount, unhash, drop the lock, free, take the lock.  The
   first action is the part under the lock, the second the part after it. *)

\* Mutant of EvictItem: the item that ensure_space goes on with is not pinned.
EvictItemUnpinned(t, i, pinned, back) ==
    /\ size' = size - ValSize[item[i].val]
    /\ lru' = Unlink(lru, i)
    /\ refs' = [refs EXCEPT ![item[i].val] = @ - 1]
    /\ hashed' = IF item[i].key \in HashKeys THEN [hashed EXCEPT ![item[i].key] = None]
                 ELSE hashed
    /\ prev' = [prev EXCEPT ![t] = pinned]
    /\ victim' = [victim EXCEPT ![t] = i]
    /\ after' = [after EXCEPT ![t] = back]
    /\ lock' = None
    /\ Goto(t, "evicting")

EvictItem(t, i, pinned, back) ==
    LET v == item[i].val
        r == [refs EXCEPT ![v] = @ - 1]
    IN /\ size' = size - ValSize[v]
       /\ lru' = Unlink(lru, i)
       /\ refs' = IF pinned = None THEN r ELSE [r EXCEPT ![item[pinned].val] = @ + 1]
       /\ hashed' = IF item[i].key \in HashKeys THEN [hashed EXCEPT ![item[i].key] = None]
                    ELSE hashed
       /\ prev' = [prev EXCEPT ![t] = pinned]
       /\ victim' = [victim EXCEPT ![t] = i]
       /\ after' = [after EXCEPT ![t] = back]
       /\ lock' = None
       /\ Goto(t, "evicting")

EvictDone(t) ==
    /\ At(t, "evicting") /\ Free
    /\ lock' = t
    /\ item' = [item EXCEPT ![victim[t]] = None]
    /\ victim' = [victim EXCEPT ![t] = None]
    /\ Goto(t, after[t])
    /\ UNCHANGED <<setup, torn, lru, hashed, size, refs, hand, fresh, own, want, goal, count, prev, after, phase>>

\* Positions of the items that only the store still refers to.
Evictable == {j \in DOMAIN lru : refs[item[lru[j]].val] = 1}

\* Eviction goes from the tail towards the head.
VictimAt(positions) == CHOOSE j \in positions : \A i \in positions : i <= j

\* The total size of the items in S.
ItemSize == [i \in Items |-> IF item[i] = None THEN 0 ELSE ValSize[item[i].val]]
TotalSize(S) == SumFunctionOnSet(ItemSize, S)
EvictableSize == TotalSize({lru[j] : j \in Evictable})

----------------------------------------------------------------------------
(* fz_store_item *)

\* Before the lock: the item is allocated; too large a value, or no memory,
\* ends the call with nothing changed.
StoreCall(t, k, i) ==
    /\ "store" \in setup.calls[t]
    /\ At(t, "idle") /\ hand[t] \in fresh /\ Fits(ValSize[hand[t]])
    /\ item[i] = None
    /\ item' = [item EXCEPT ![i] = [key |-> k, val |-> hand[t]]]
    /\ own' = [own EXCEPT ![t] = i]
    /\ fresh' = fresh \ {hand[t]}
    /\ Goto(t, "insert")
    /\ UNCHANGED <<lock, lru, hashed, size, refs, hand, work>>

\* Growing the hash table failed for lack of memory.
StoreHashFails(t) ==
    /\ At(t, "insert") /\ Free
    /\ item[own[t]].key \in HashKeys
    /\ item' = [item EXCEPT ![own[t]] = None]
    /\ own' = [own EXCEPT ![t] = None]
    /\ Goto(t, "idle")
    /\ UNCHANGED <<lock, lru, hashed, size, refs, hand, fresh, work>>

\* "There was one there already!"
StoreExisting(t) ==
    /\ At(t, "insert") /\ Free
    /\ LET k == item[own[t]].key IN
        /\ k \in HashKeys /\ hashed[k] # None
        /\ lru' = Touched(hashed[k])
        /\ refs' = [refs EXCEPT ![item[hashed[k]].val] = @ + 1]
        /\ own' = [own EXCEPT ![t] = hashed[k]]
    /\ item' = [item EXCEPT ![own[t]] = None]
    /\ Goto(t, "existing")
    /\ UNCHANGED <<lock, hashed, size, hand, fresh, work>>

\* existing->val is read with the lock released; the caller then drops its own
\* value and goes on with that one.
StoreReturnExisting(t) ==
    /\ At(t, "existing") /\ Free /\ item[own[t]] # None
    /\ hand' = [hand EXCEPT ![t] = item[own[t]].val]
    /\ refs' = [refs EXCEPT ![hand[t]] = @ - 1]
    /\ own' = [own EXCEPT ![t] = None]
    /\ Goto(t, "idle")
    /\ UNCHANGED <<lock, item, lru, hashed, size, fresh, work>>

StoreInsert(t) ==
    /\ At(t, "insert") /\ Free
    /\ LET k == item[own[t]].key
           v == item[own[t]].val
       IN /\ k \in HashKeys => hashed[k] = None
          /\ hashed' = IF k \in HashKeys THEN [hashed EXCEPT ![k] = own[t]] ELSE hashed
          /\ refs' = [refs EXCEPT ![v] = @ + 1]
          /\ want' = [want EXCEPT ![t] = size + ValSize[v]]
    /\ lock' = t
    /\ Goto(t, "fit")
    /\ UNCHANGED <<setup, torn, item, lru, size, hand, fresh, own, goal, count, prev, victim, after, phase>>

\* Mutants of LinkOwn: the lock is kept; the sum taken before the lock was dropped
\* is trusted; an item that a finder has linked meanwhile is linked again.
LinkOwnLocked(t) ==
    /\ size' = size + ValSize[item[own[t]].val]
    /\ lru' = Touched(own[t])
    /\ own' = [own EXCEPT ![t] = None]
    /\ Goto(t, "idle")
    /\ UNCHANGED <<lock, item, hashed, refs, hand, fresh, work>>

LinkOwnStaleSum(t) ==
    /\ size' = want[t]
    /\ lru' = Touched(own[t])
    /\ lock' = None
    /\ own' = [own EXCEPT ![t] = None]
    /\ Goto(t, "idle")
    /\ UNCHANGED <<item, hashed, refs, hand, fresh, work>>

LinkOwnTwice(t) ==
    /\ size' = size + ValSize[item[own[t]].val]
    /\ lru' = <<own[t]>> \o lru
    /\ lock' = None
    /\ own' = [own EXCEPT ![t] = None]
    /\ Goto(t, "idle")
    /\ UNCHANGED <<item, hashed, refs, hand, fresh, work>>

\* The end of the loop, and of the break out of it: the item is linked.
LinkOwn(t) ==
    /\ size' = size + ValSize[item[own[t]].val]
    /\ lru' = Touched(own[t])
    /\ lock' = None
    /\ own' = [own EXCEPT ![t] = None]
    /\ Goto(t, "idle")
    /\ UNCHANGED <<item, hashed, refs, hand, fresh, work>>

StoreFits(t) ==
    /\ At(t, "fit") /\ item[own[t]] # None
    /\ Fits(want[t])
    /\ LinkOwn(t)

NoSpace(t) == ~Fits(want[t]) /\ EvictableSize < want[t] - setup.max

\* No room, but somebody has found the item through the hash table meanwhile.
StoreOverBudget(t) ==
    /\ At(t, "fit") /\ item[own[t]] # None
    /\ NoSpace(t)
    /\ item[own[t]].key \in HashKeys /\ Linked(own[t])
    /\ LinkOwn(t)

\* Mutant of StoreGivesUp: the entry stays in the hash table.
StoreGivesUpHashed(t) ==
    /\ At(t, "fit") /\ item[own[t]] # None
    /\ NoSpace(t)
    /\ ~(item[own[t]].key \in HashKeys /\ Linked(own[t]))
    /\ item' = [item EXCEPT ![own[t]] = None]
    /\ own' = [own EXCEPT ![t] = None]
    /\ lock' = None
    /\ Goto(t, "unref")
    /\ UNCHANGED <<lru, hashed, size, refs, hand, fresh, work>>

\* No room: the item goes, and the store's reference after it, outside the lock.
StoreGivesUp(t) ==
    /\ At(t, "fit") /\ item[own[t]] # None
    /\ NoSpace(t)
    /\ LET k == item[own[t]].key IN
        /\ k \in HashKeys => ~Linked(own[t])
        /\ hashed' = IF k \in HashKeys THEN [hashed EXCEPT ![k] = None] ELSE hashed
    /\ item' = [item EXCEPT ![own[t]] = None]
    /\ own' = [own EXCEPT ![t] = None]
    /\ lock' = None
    /\ Goto(t, "unref")
    /\ UNCHANGED <<lru, size, refs, hand, fresh, work>>

StoreUnref(t) ==
    /\ At(t, "unref")
    /\ refs' = [refs EXCEPT ![hand[t]] = @ - 1]
    /\ Goto(t, "idle")
    /\ UNCHANGED <<lock, item, lru, hashed, size, hand, fresh, locals>>

(* ensure_space *)

\* Evict the item at position j, the item before it pinned by a reference.
SpaceEvict(t, j, tofree, sofar) ==
    /\ goal' = [goal EXCEPT ![t] = tofree]
    /\ count' = [count EXCEPT ![t] = sofar + ValSize[item[lru[j]].val]]
    /\ EvictItem(t, lru[j], IF j = 1 THEN None ELSE lru[j - 1], "unpin")
    /\ UNCHANGED <<setup, torn, item, hand, fresh, own, want, phase>>

SpaceStart(t) ==
    /\ At(t, "fit") /\ item[own[t]] # None
    /\ ~Fits(want[t]) /\ ~NoSpace(t)
    /\ SpaceEvict(t, VictimAt(Evictable), want[t] - setup.max, 0)

\* The item ensure_space goes on with is still there.
PrevAlive(t) == prev[t] # None => item[prev[t]] # None

\* Mutant of SpaceUnpin: the pin is not given back.
SpaceUnpinNot(t) ==
    /\ At(t, "unpin")
    /\ Goto(t, "space")
    /\ UNCHANGED <<shared, hand, fresh, locals>>

SpaceUnpin(t) ==
    /\ At(t, "unpin") /\ PrevAlive(t)
    /\ refs' = IF prev[t] = None THEN refs ELSE [refs EXCEPT ![item[prev[t]].val] = @ - 1]
    /\ Goto(t, "space")
    /\ UNCHANGED <<lock, item, lru, hashed, size, hand, fresh, locals>>

\* Where the search goes on: from prev, wherever in the list that is by now.
SpaceLeft(t) == {j \in Evictable : \E p \in DOMAIN lru : lru[p] = prev[t] /\ j <= p}

SpaceDone(t) == count[t] >= goal[t] \/ SpaceLeft(t) = {}

SpaceMore(t) ==
    /\ At(t, "space") /\ ~SpaceDone(t)
    /\ SpaceEvict(t, VictimAt(SpaceLeft(t)), goal[t], count[t])

\* ensure_space returns; the loop of fz_store_item subtracts what was saved
\* from the sum it took before the lock was dropped.
SpaceReturn(t) ==
    /\ At(t, "space") /\ SpaceDone(t)
    /\ want' = [want EXCEPT ![t] = @ - count[t]]
    /\ prev' = [prev EXCEPT ![t] = None]
    /\ Goto(t, "fit")
    /\ UNCHANGED <<setup, torn, shared, hand, fresh, own, goal, count, victim, after, phase>>

----------------------------------------------------------------------------
(* fz_find_item *)

FindCall(t, k) ==
    /\ "find" \in setup.calls[t]
    /\ At(t, "idle") /\ hand[t] = None /\ Free
    /\ LET i == Lookup(k) IN
        /\ i # None
        /\ lru' = Touched(i)
        /\ refs' = [refs EXCEPT ![item[i].val] = @ + 1]
        /\ own' = [own EXCEPT ![t] = i]
    /\ Goto(t, "found")
    /\ UNCHANGED <<lock, item, hashed, size, hand, fresh, work>>

\* item->val is read with the lock released.
FindReturn(t) ==
    /\ At(t, "found") /\ item[own[t]] # None
    /\ hand' = [hand EXCEPT ![t] = item[own[t]].val]
    /\ own' = [own EXCEPT ![t] = None]
    /\ Goto(t, "idle")
    /\ UNCHANGED <<shared, fresh, work>>

----------------------------------------------------------------------------
(* fz_remove_item: the size of the item stays counted.  The item goes whoever
   works with it. *)

\* The other calls that work with the item at i.
Holders(t, i) == {u \in Threads \ {t} : own[u] = i \/ prev[u] = i}

RemoveCall(t, k) ==
    /\ "remove" \in setup.calls[t]
    /\ At(t, "idle") /\ Free
    /\ LET i == Lookup(k) IN
        /\ i # None
        /\ hashed' = IF k \in HashKeys THEN [hashed EXCEPT ![k] = None] ELSE hashed
        /\ lru' = Unlink(lru, i)
        /\ refs' = [refs EXCEPT ![item[i].val] = @ - 1]
        /\ victim' = [victim EXCEPT ![t] = i]
        /\ torn' = torn \cup Holders(t, i)
    /\ Goto(t, "removing")
    /\ UNCHANGED <<setup, lock, item, size, hand, fresh, own, want, goal, count, prev, after, phase>>

RemoveDone(t) ==
    /\ At(t, "removing")
    /\ item' = [item EXCEPT ![victim[t]] = None]
    /\ victim' = [victim EXCEPT ![t] = None]
    /\ Goto(t, "idle")
    /\ UNCHANGED <<setup, torn, lock, lru, hashed, size, refs, hand, fresh, own, want, goal, count, prev, after, phase>>

----------------------------------------------------------------------------
(* fz_empty_store *)

EmptyCall(t) ==
    /\ "empty" \in setup.calls[t]
    /\ At(t, "idle") /\ Free
    /\ lock' = t
    /\ Goto(t, "empty")
    /\ UNCHANGED <<item, lru, hashed, size, refs, hand, fresh, locals>>

\* The head goes whatever references there are to it, and whoever works with it.
EmptyEvict(t) ==
    /\ At(t, "empty") /\ lru # <<>>
    /\ EvictItem(t, Head(lru), None, "empty")
    /\ torn' = torn \cup Holders(t, Head(lru))
    /\ UNCHANGED <<setup, item, hand, fresh, own, want, goal, count, phase>>

EmptyReturn(t) ==
    /\ At(t, "empty") /\ lru = <<>>
    /\ lock' = None
    /\ Goto(t, "idle")
    /\ UNCHANGED <<item, lru, hashed, size, refs, hand, fresh, locals>>

----------------------------------------------------------------------------
(* The scavenging malloc of memory.c, and fz_shrink_store *)

\* Memory is short: the first attempt to allocate `request` bytes has failed.
MallocCall(t, request) ==
    /\ "malloc" \in setup.calls[t]
    /\ At(t, "idle") /\ Free
    /\ lock' = t
    /\ want' = [want EXCEPT ![t] = request]
    /\ phase' = [phase EXCEPT ![t] = 0]
    /\ Goto(t, "scavenge")
    /\ UNCHANGED <<setup, torn, item, lru, hashed, size, refs, hand, fresh, own, goal, count, prev, victim, after>>

\* malloc returns, with NULL or with memory.
MallocEnds(t) ==
    /\ lock' = None
    /\ phase' = [phase EXCEPT ![t] = 0]
    /\ Goto(t, "idle")

\* `max` of fz_store_scavenge in phase p: at the last one, nothing.
PhaseMax(p) ==
    IF p >= Phases THEN 0
    ELSE IF setup.max # Unlimited THEN (setup.max \div Phases) * (Phases - p)
    ELSE (size \div (Phases - p)) * (Phases - p - 1)

\* From Phases on all phases are alike: the counter stops at Phases + 1 (a bound).
NextPhase(p) == IF p <= Phases THEN p + 1 ELSE p

\* The request and the store together are more than an unsigned int holds; they
\* are more than the store may keep in this phase.
Overflows(t) == want[t] + size >= Word
TooMuch(t) == ~Overflows(t) /\ want[t] + size > PhaseMax(phase[t])

\* One turn of the loop of fz_store_scavenge.  The test is the wrong way round: a
\* store that is over the limit of the phase is left alone ...
ScavengeSkip(t) ==
    /\ At(t, "scavenge") /\ TooMuch(t) /\ PhaseMax(phase[t]) > 0
    /\ phase' = [phase EXCEPT ![t] = NextPhase(@)]
    /\ UNCHANGED <<setup, torn, shared, hand, fresh, pc, own, want, goal, count, prev, victim, after>>

\* ... up to the last phase, where malloc returns NULL ...
ScavengeFails(t) ==
    /\ At(t, "scavenge") /\ TooMuch(t) /\ PhaseMax(phase[t]) = 0
    /\ MallocEnds(t)
    /\ UNCHANGED <<setup, torn, item, lru, hashed, size, refs, hand, fresh, own, want, goal, count, prev, victim, after>>

\* ... and one that is within it has everything evicted that can be, because the
\* unsigned difference wraps (or one item, when the difference is zero).
ScavengeStart(t) ==
    /\ At(t, "scavenge") /\ ~TooMuch(t)
    /\ goal' = [goal EXCEPT ![t] =
          IF Overflows(t) THEN Word - 1 - PhaseMax(phase[t])
          ELSE (want[t] + size - PhaseMax(phase[t])) % Word]
    /\ count' = [count EXCEPT ![t] = 0]
    /\ phase' = [phase EXCEPT ![t] = NextPhase(@)]
    /\ Goto(t, "scan_malloc")
    /\ UNCHANGED <<setup, torn, shared, hand, fresh, own, want, prev, victim, after>>

ShrinkCall(t, percent) ==
    /\ "shrink" \in setup.calls[t]
    /\ At(t, "idle") /\ Free
    /\ size > (size * percent) \div 100
    /\ lock' = t
    /\ goal' = [goal EXCEPT ![t] = size - (size * percent) \div 100]
    /\ count' = [count EXCEPT ![t] = 0]
    /\ Goto(t, "scan_shrink")
    /\ UNCHANGED <<setup, torn, item, lru, hashed, size, refs, hand, fresh, own, want, prev, victim, after, phase>>

ScanSteps == {"scan_malloc", "scan_shrink"}
ScanDone(t) == Evictable = {} \/ (count[t] > 0 /\ count[t] >= goal[t])

\* scavenge: from the tail, and from the tail again after each eviction.
ScanEvict(t) ==
    /\ Intact /\ pc[t] \in ScanSteps /\ ~ScanDone(t)
    /\ LET i == lru[VictimAt(Evictable)] IN
        /\ count' = [count EXCEPT ![t] = (@ + ValSize[item[i].val]) % Word]
        /\ EvictItem(t, i, None, pc[t])
    /\ UNCHANGED <<setup, torn, item, hand, fresh, own, want, goal, phase>>

\* Something was freed: malloc is tried again, and may fail again.
MallocRetry(t) ==
    /\ At(t, "scan_malloc") /\ ScanDone(t) /\ count[t] > 0
    /\ \/ MallocEnds(t)
       \/ Goto(t, "scavenge") /\ UNCHANGED <<lock, phase>>
    /\ UNCHANGED <<setup, torn, item, lru, hashed, size, refs, hand, fresh, own, want, goal, count, prev, victim, after>>

\* Nothing was: the next phase, if this was not the last.
MallocNextPhase(t) ==
    /\ At(t, "scan_malloc") /\ ScanDone(t) /\ count[t] = 0
    /\ \/ PhaseMax(phase[t] - 1) = 0 /\ MallocEnds(t)
       \/ PhaseMax(phase[t] - 1) > 0 /\ Goto(t, "scavenge") /\ UNCHANGED <<lock, phase>>
    /\ UNCHANGED <<setup, torn, item, lru, hashed, size, refs, hand, fresh, own, want, goal, count, prev, victim, after>>

ShrinkReturn(t) ==
    /\ At(t, "scan_shrink") /\ ScanDone(t)
    /\ lock' = None
    /\ Goto(t, "idle")
    /\ UNCHANGED <<item, lru, hashed, size, refs, hand, fresh, locals>>

----------------------------------------------------------------------------
Step(t) ==
    \/ StoreHashFails(t) \/ StoreExisting(t) \/ StoreReturnExisting(t) \/ StoreInsert(t)
    \/ StoreFits(t) \/ StoreOverBudget(t) \/ StoreGivesUp(t) \/ StoreUnref(t)
    \/ SpaceStart(t) \/ SpaceUnpin(t) \/ SpaceMore(t) \/ SpaceReturn(t)
    \/ FindReturn(t) \/ RemoveDone(t) \/ EvictDone(t) \/ EmptyEvict(t) \/ EmptyReturn(t)
    \/ ScavengeSkip(t) \/ ScavengeStart(t) \/ ScavengeFails(t)
    \/ ScanEvict(t) \/ MallocRetry(t) \/ MallocNextPhase(t) \/ ShrinkReturn(t)

Call(t) ==
    \/ \E v \in Vals : MakeValue(t, v)
    \/ DropValue(t)
    \/ \E k \in Keys, i \in Items : StoreCall(t, k, i)
    \/ \E k \in Keys : FindCall(t, k) \/ RemoveCall(t, k)
    \/ EmptyCall(t)
    \/ \E request \in Requests : MallocCall(t, request)
    \/ \E percent \in Percents : ShrinkCall(t, percent)

Undefined == ~Intact /\ UNCHANGED vars

Next == (\E t \in Threads : Call(t) \/ Step(t)) \/ Undefined

Spec == Init /\ [][Next]_vars

\* A call that has begun goes on; a mutex does not starve a thread for ever.
FairSpec == Spec /\ \A t \in Threads : SF_vars(Step(t))

----------------------------------------------------------------------------
Steps == {"idle", "insert", "existing", "fit", "unref", "unpin", "space", "found",
          "removing", "evicting", "empty", "scavenge"} \cup ScanSteps

TypeOK ==
    /\ setup \in Setups /\ torn \subseteq Threads
    /\ lock \in Threads \cup {None}
    /\ item \in [Items -> [key : Keys, val : Vals] \cup {None}]
    /\ ToSet(lru) \subseteq Items /\ IsInjective(lru)
    /\ hashed \in [HashKeys -> Items \cup {None}]
    /\ size \in Int
    /\ refs \in [Vals -> Int]
    /\ hand \in [Threads -> Vals \cup {None}] /\ fresh \subseteq Vals
    /\ pc \in [Threads -> Steps]
    /\ own \in [Threads -> Items \cup {None}] /\ prev \in [Threads -> Items \cup {None}]
    /\ victim \in [Threads -> Items \cup {None}]
    /\ want \in [Threads -> Int] /\ goal \in [Threads -> Int] /\ count \in [Threads -> Nat]
    /\ after \in [Threads -> Steps]
    /\ phase \in [Threads -> 0 .. Phases + 1]

\* A storer whose item is in the hash table but not yet counted.
Storing(t) == own[t] # None /\ pc[t] \in {"fit", "unpin", "space", "evicting"}
InFlight == {own[t] : t \in {u \in Threads : Storing(u)}}

InStore == ToSet(lru) \cup {hashed[k] : k \in {l \in HashKeys : hashed[l] # None}} \cup InFlight

\* What refers to a value: items of the store, callers, calls about to return
\* it or to give the store's reference back, and pins of ensure_space.
Stored(v) == {i \in InStore : item[i] # None /\ item[i].val = v}
Handed(v) == {t \in Threads : hand[t] = v}
Returning(v) == {t \in Threads : pc[t] \in {"found", "existing"} /\ item[own[t]].val = v}
Unreffing(v) == {t \in Threads : pc[t] = "unref" /\ hand[t] = v}
Pinning(v) == {t \in Threads : prev[t] # None /\ pc[t] \in {"evicting", "unpin"}
                               /\ item[prev[t]].val = v}
Owners(v) == Cardinality(Stored(v)) + Cardinality(Handed(v)) + Cardinality(Returning(v))
             + Cardinality(Unreffing(v)) + Cardinality(Pinning(v))

\* Each value has exactly as many references as it has owners.
RefsCount == \A v \in Vals : refs[v] = Owners(v)
RefsExact == Intact => RefsCount

\* No call goes on with an item that another thread has freed, whatever is
\* evicted, found or given up meanwhile, unless another thread's fz_empty_store or
\* fz_remove_item took that very item.
ItemsLive ==
    \A t \in Threads :
        /\ pc[t] \in {"fit", "found", "existing", "insert"} => item[own[t]] # None
        /\ prev[t] # None => item[prev[t]] # None
        /\ \A i \in ToSet(lru) : item[i] # None
NoDanglingItem == Intact => ItemsLive

\* store->size is the total of the linked items, those excepted that were
\* found and linked before their storer has counted them ...
Counted == {i \in ToSet(lru) : i \notin InFlight}
SizeIsTotal == size = TotalSize(Counted)

\* ... as long as no item is removed by fz_remove_item, which does not
\* subtract its size.
SizeExact == Intact /\ (\A t \in Threads : "remove" \notin setup.calls[t]) => SizeIsTotal

\* The hash table and the list agree on what is cached.
TableAndList ==
    /\ \A i \in ToSet(lru) : item[i] # None /\ (item[i].key \in HashKeys => hashed[item[i].key] = i)
    /\ \A k \in HashKeys : hashed[k] # None =>
          /\ item[hashed[k]] # None /\ item[hashed[k]].key = k
          /\ hashed[k] \in ToSet(lru) \cup InFlight
HashMatchesList == Intact => TableAndList

\* Every call on the store returns.  Only fz_empty_store, and a malloc whose
\* scavenging has a goal it cannot reach, go on as long as other threads fill the
\* store again.
Emptying(t) == pc[t] = "empty" \/ (pc[t] = "evicting" /\ after[t] = "empty")
Scavenging(t) == pc[t] \in {"scavenge", "scan_malloc"} \/ (pc[t] = "evicting" /\ after[t] = "scan_malloc")
Refilled(t) == \E u \in Threads \ {t} : StoreFits(u)
CallsReturn ==
    \A t \in Threads :
        \/ pc[t] # "idle" ~> pc[t] = "idle" \/ ~Intact
        \/ <>[](Emptying(t) \/ Scavenging(t)) /\ []<><<Refilled(t)>>_vars
=============================================================================
