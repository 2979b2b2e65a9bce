--------------------------- MODULE FzStore_proofs ---------------------------
(***************************************************************************)
(* Proofs about the resource store.                                        *)
(***************************************************************************)
EXTENDS FzStore, LibraryLemmas

\* The steps that hold the lock, and those a thread goes back to after evict.
Inside == {"fit", "unpin", "space", "empty", "scavenge"} \cup ScanSteps
Backs == {"unpin", "empty"} \cup ScanSteps

\* In ensure_space; in fz_store_item with the item inserted, or just made.
Ensuring(t) == pc[t] \in {"unpin", "space"} \/ (pc[t] = "evicting" /\ after[t] = "unpin")
Inserted(t) == pc[t] = "fit" \/ Ensuring(t)
Making(t) == pc[t] = "insert" \/ Inserted(t)
Using(t) == pc[t] \in {"found", "existing"}

LocalsOK ==
    /\ \A t \in Threads : lock = t <=> pc[t] \in Inside
    /\ \A t \in Threads : pc[t] = "evicting" => after[t] \in Backs
    /\ \A t \in Threads : own[t] # None <=> Making(t) \/ Using(t)
    /\ \A t \in Threads : victim[t] # None <=> pc[t] \in {"evicting", "removing"}
    /\ \A t \in Threads : prev[t] # None => Ensuring(t)
    /\ \A t \in Threads : Making(t) \/ pc[t] \in {"existing", "unref"} => hand[t] # None
    /\ \A t \in Threads : pc[t] = "found" => hand[t] = None

List == ToSet(lru)

ItemsOK ==
    /\ \A t \in Threads : own[t] # None => item[own[t]] # None
    /\ \A t \in Threads : Making(t) => item[own[t]].val = hand[t]
    /\ \A t \in Threads : pc[t] = "insert" =>
          own[t] \notin List /\ \A k \in HashKeys : hashed[k] # own[t]
    /\ \A t \in Threads : Inserted(t) =>
          IF item[own[t]].key \in HashKeys THEN hashed[item[own[t]].key] = own[t]
          ELSE own[t] \notin List
    /\ \A t \in Threads : Using(t) => own[t] \in List
    /\ \A t \in Threads : prev[t] # None => prev[t] \in List
    /\ \A t \in Threads : victim[t] # None =>
          item[victim[t]] # None /\ victim[t] \notin List /\ \A k \in HashKeys : hashed[k] # victim[t]
    /\ \A t, u \in Threads : t # u /\ Making(t) /\ Making(u) => own[t] # own[u]
    /\ \A t, u \in Threads : victim[t] # None => own[u] # victim[t]
    /\ \A t, u \in Threads : t # u /\ victim[t] # None => victim[u] # victim[t]

Inv == TypeOK /\ lru \in Seq(Items) /\ LocalsOK /\ ItemsOK /\ TableAndList /\ RefsCount

----------------------------------------------------------------------------
(* The list *)

\* The list holds exactly what it has at its positions.
LEMMA ListElements ==
  ASSUME lru \in Seq(Items)
  PROVE  /\ List \subseteq Items /\ DOMAIN lru = 1 .. Len(lru) /\ Len(lru) \in Nat
         /\ \A j \in DOMAIN lru : lru[j] \in List
         /\ \A i \in List : \E j \in DOMAIN lru : lru[j] = i
  BY DEF List, ToSet

\* Unlinking takes one item out of the list and leaves the others.
LEMMA UnlinkFacts ==
  ASSUME lru \in Seq(Items), IsInjective(lru), NEW i
  PROVE  /\ Unlink(lru, i) \in Seq(Items) /\ IsInjective(Unlink(lru, i))
         /\ ToSet(Unlink(lru, i)) = List \ {i}
  BY RemoveFirstFacts DEF Unlink, List

\* touch puts an item into the list, once.
LEMMA TouchedFacts ==
  ASSUME lru \in Seq(Items), IsInjective(lru), NEW i \in Items
  PROVE  /\ Touched(i) \in Seq(Items) /\ IsInjective(Touched(i))
         /\ ToSet(Touched(i)) = List \cup {i}
<1>1. /\ Unlink(lru, i) \in Seq(Items) /\ IsInjective(Unlink(lru, i))
      /\ i \notin ToSet(Unlink(lru, i)) /\ {i} \cup ToSet(Unlink(lru, i)) = List \cup {i}
  BY UnlinkFacts
<1> QED BY <1>1, ConsFacts DEF Touched

\* The tail-most of a set of positions is one of them.
LEMMA VictimAtFacts ==
  ASSUME lru \in Seq(Items), NEW P \in SUBSET (DOMAIN lru), P # {}
  PROVE  VictimAt(P) \in P
<1>1. P \in SUBSET Int /\ \A n \in P : n <= Len(lru)
  BY ListElements
<1>2. \E m \in P : \A n \in P : n <= m
  <2>1. Len(lru) \in Int
    BY ListElements
  <2> QED BY <1>1, <2>1, IntMax
<1> QED BY <1>2 DEF VictimAt

\* If what can be evicted has a size there is something to evict.
LEMMA SomethingEvictable == Evictable = {} => EvictableSize = 0
<1>1. ASSUME Evictable = {} PROVE {lru[j] : j \in Evictable} = {}
  BY <1>1
<1> QED BY <1>1, SumEmpty DEF EvictableSize, TotalSize

\* The four evictions: of the tail-most item that only the store refers to, or
\* of the head of the list whoever refers to it.
Evicting(t, i, pinned, back) ==
    /\ i \in List /\ pinned \in (List \ {i}) \cup {None}
    /\ EvictItem(t, i, pinned, back)
    /\ UNCHANGED <<setup, item, hand, fresh, own, want>>
    /\ \/ pc[t] \in {"fit", "space"} /\ back = "unpin"
       \/ pc[t] \in ScanSteps \cup {"empty"} /\ back = pc[t] /\ pinned = None
    /\ \/ refs[item[i].val] = 1 /\ torn' = torn
       \/ pc[t] = "empty" /\ torn' = torn \cup Holders(t, i)

\* An eviction of ensure_space takes a linked item and pins a linked one, or none.
LEMMA SpaceEvictFacts ==
  ASSUME TypeOK, lru \in Seq(Items), NEW t \in Threads, pc[t] \in {"fit", "space"},
         NEW P \in SUBSET Evictable, P # {}, NEW tofree, NEW sofar,
         SpaceEvict(t, VictimAt(P), tofree, sofar)
  PROVE  /\ \E i, pinned : Evicting(t, i, pinned, "unpin")
         /\ VictimAt(P) \in DOMAIN lru
<1> DEFINE j == VictimAt(P)
           i == lru[j]
           pinned == IF j = 1 THEN None ELSE lru[j - 1]
<1>1. j \in DOMAIN lru /\ refs[item[i].val] = 1
  BY VictimAtFacts DEF Evictable
<1>2. i \in List
  BY <1>1, ListElements
<1>3. pinned \in (List \ {i}) \cup {None}
  <2>1. CASE j = 1
    BY <2>1
  <2>2. CASE j # 1
    <3>1. j - 1 \in DOMAIN lru /\ j - 1 # j
      BY <1>1, <2>2, ListElements
    <3>2. lru[j - 1] # lru[j]
      BY <1>1, <3>1 DEF TypeOK, IsInjective
    <3> QED BY <2>2, <3>1, <3>2, ListElements
  <2> QED BY <2>1, <2>2
<1>4. EvictItem(t, i, pinned, "unpin") /\ UNCHANGED <<setup, torn, item, hand, fresh, own, want>>
  BY DEF SpaceEvict
<1> HIDE DEF i, pinned, j
<1>5. Evicting(t, i, pinned, "unpin")
  BY <1>1, <1>2, <1>3, <1>4 DEF Evicting
<1> QED BY <1>1, <1>5 DEF j

\* Each of the four evicting actions is an eviction.
LEMMA EvictionSteps ==
  ASSUME TypeOK, lru \in Seq(Items), NEW t \in Threads,
         SpaceStart(t) \/ SpaceMore(t) \/ ScanEvict(t) \/ EmptyEvict(t)
  PROVE  \E i, pinned, back : Evicting(t, i, pinned, back)
<1>1. CASE SpaceStart(t)
  <2>1. Evictable # {}
    <3>1. want[t] \in Int /\ setup.max \in Int
      BY StoreAssumption DEF TypeOK
    <3> QED BY <1>1, <3>1, SomethingEvictable DEF SpaceStart, At, NoSpace, Fits
  <2> QED BY <1>1, <2>1, SpaceEvictFacts DEF SpaceStart, At
<1>2. CASE SpaceMore(t)
  <2>1. SpaceLeft(t) # {} /\ SpaceLeft(t) \subseteq Evictable
    BY <1>2 DEF SpaceMore, At, SpaceDone, SpaceLeft
  <2> QED BY <1>2, <2>1, SpaceEvictFacts DEF SpaceMore, At
<1>3. CASE ScanEvict(t)
  <2> DEFINE i == lru[VictimAt(Evictable)]
  <2>1. Evictable # {} /\ Evictable \subseteq DOMAIN lru
    BY <1>3 DEF ScanEvict, At, ScanDone, Evictable
  <2>2. VictimAt(Evictable) \in DOMAIN lru /\ refs[item[i].val] = 1
    BY <2>1, VictimAtFacts DEF Evictable
  <2>3. i \in List
    BY <2>2, ListElements
  <2>4. EvictItem(t, i, None, pc[t]) /\ UNCHANGED <<setup, torn, item, hand, fresh, own, want>>
    BY <1>3 DEF ScanEvict, At
  <2> HIDE DEF i
  <2>5. Evicting(t, i, None, pc[t])
    BY <1>3, <2>2, <2>3, <2>4 DEF Evicting, ScanEvict, At, i
  <2> QED BY <2>5
<1>4. CASE EmptyEvict(t)
  <2> DEFINE i == Head(lru)
  <2>1. i \in List
    <3>1. 1 \in DOMAIN lru /\ i = lru[1]
      BY <1>4, ListElements DEF EmptyEvict, At
    <3> QED BY <3>1, ListElements
  <2>2. /\ EvictItem(t, i, None, "empty") /\ UNCHANGED <<setup, item, hand, fresh, own, want>>
        /\ torn' = torn \cup Holders(t, i)
    BY <1>4 DEF EmptyEvict, At
  <2> HIDE DEF i
  <2>3. Evicting(t, i, None, "empty")
    BY <1>4, <2>1, <2>2 DEF Evicting, EmptyEvict, At
  <2> QED BY <2>3
<1> QED BY <1>1, <1>2, <1>3, <1>4

----------------------------------------------------------------------------
(* Each part of the invariant is kept by every step. *)

\* The lock is held by the thread that is at a step inside it, and a thread has
\* an item in hand exactly at the steps that work with one.
LEMMA LocalsStep ==
  ASSUME Inv, [Next]_vars
  PROVE  LocalsOK'
<1>1. ASSUME NEW t \in Threads, NEW v \in Vals, MakeValue(t, v) PROVE LocalsOK'
  BY <1>1, StoreAssumption DEF MakeValue, At, Free, locals, Inv, TypeOK, LocalsOK, Inside, Backs, ScanSteps,
         Ensuring, Inserted, Making, Using
<1>2. ASSUME NEW t \in Threads, DropValue(t) PROVE LocalsOK'
  BY <1>2, StoreAssumption DEF DropValue, At, Free, locals, Inv, TypeOK, LocalsOK, Inside, Backs, ScanSteps,
         Ensuring, Inserted, Making, Using
<1>3. ASSUME NEW t \in Threads, NEW k \in Keys, NEW i \in Items, StoreCall(t, k, i) PROVE LocalsOK'
  <2>1. /\ pc[t] = "idle" /\ pc' = [pc EXCEPT ![t] = "insert"] /\ own' = [own EXCEPT ![t] = i]
        /\ hand[t] \in Vals /\ i # None
        /\ UNCHANGED <<lock, hand, after, victim, prev>>
    BY <1>3, StoreAssumption DEF StoreCall, At, work, Goto, Inv, TypeOK
  <2> QED BY <2>1, StoreAssumption DEF Inv, TypeOK, LocalsOK, Inside, Backs, ScanSteps,
         Ensuring, Inserted, Making, Using
<1>4. ASSUME NEW t \in Threads, StoreHashFails(t) PROVE LocalsOK'
  BY <1>4, StoreAssumption DEF StoreHashFails, At, work, Goto, Free, Inv, TypeOK, LocalsOK, Inside, Backs, ScanSteps,
         Ensuring, Inserted, Making, Using
<1>5. ASSUME NEW t \in Threads, StoreExisting(t) PROVE LocalsOK'
  BY <1>5, StoreAssumption DEF StoreExisting, At, work, Goto, Free, Inv, TypeOK, LocalsOK, Inside, Backs, ScanSteps,
         Ensuring, Inserted, Making, Using
<1>6. ASSUME NEW t \in Threads, StoreReturnExisting(t) PROVE LocalsOK'
  BY <1>6, StoreAssumption DEF StoreReturnExisting, At, work, Goto, Free, Inv, TypeOK, LocalsOK, Inside, Backs, ScanSteps,
         Ensuring, Inserted, Making, Using
<1>7. ASSUME NEW t \in Threads, StoreInsert(t) PROVE LocalsOK'
  BY <1>7, StoreAssumption DEF StoreInsert, At, Goto, Free, Inv, TypeOK, LocalsOK, Inside, Backs, ScanSteps,
         Ensuring, Inserted, Making, Using
<1>8. ASSUME NEW t \in Threads, StoreFits(t) PROVE LocalsOK'
  BY <1>8, StoreAssumption DEF StoreFits, At, LinkOwn, work, Goto, Inv, TypeOK, LocalsOK, Inside, Backs, ScanSteps,
         Ensuring, Inserted, Making, Using
<1>9. ASSUME NEW t \in Threads, StoreOverBudget(t) PROVE LocalsOK'
  BY <1>9, StoreAssumption DEF StoreOverBudget, At, LinkOwn, work, Goto, Inv, TypeOK, LocalsOK, Inside, Backs, ScanSteps,
         Ensuring, Inserted, Making, Using
<1>10. ASSUME NEW t \in Threads, StoreGivesUp(t) PROVE LocalsOK'
  BY <1>10, StoreAssumption DEF StoreGivesUp, At, work, Goto, Inv, TypeOK, LocalsOK, Inside, Backs, ScanSteps,
         Ensuring, Inserted, Making, Using
<1>11. ASSUME NEW t \in Threads, StoreUnref(t) PROVE LocalsOK'
  BY <1>11, StoreAssumption DEF StoreUnref, At, locals, Goto, Inv, TypeOK, LocalsOK, Inside, Backs, ScanSteps,
         Ensuring, Inserted, Making, Using
<1>12. ASSUME NEW t \in Threads, SpaceUnpin(t) PROVE LocalsOK'
  BY <1>12, StoreAssumption DEF SpaceUnpin, At, locals, Goto, Inv, TypeOK, LocalsOK, Inside, Backs, ScanSteps,
         Ensuring, Inserted, Making, Using
<1>13. ASSUME NEW t \in Threads, SpaceReturn(t) PROVE LocalsOK'
  BY <1>13, StoreAssumption DEF SpaceReturn, At, shared, Goto, Inv, TypeOK, LocalsOK, Inside, Backs, ScanSteps,
         Ensuring, Inserted, Making, Using
<1>14. ASSUME NEW t \in Threads, NEW k \in Keys, FindCall(t, k) PROVE LocalsOK'
  BY <1>14, StoreAssumption DEF FindCall, At, work, Goto, Free, Inv, TypeOK, LocalsOK, Inside, Backs, ScanSteps,
         Ensuring, Inserted, Making, Using
<1>15. ASSUME NEW t \in Threads, FindReturn(t) PROVE LocalsOK'
  BY <1>15, StoreAssumption DEF FindReturn, At, shared, work, Goto, Inv, TypeOK, LocalsOK, Inside, Backs, ScanSteps,
         Ensuring, Inserted, Making, Using
<1>16. ASSUME NEW t \in Threads, NEW k \in Keys, RemoveCall(t, k) PROVE LocalsOK'
  BY <1>16, StoreAssumption DEF RemoveCall, At, Goto, Free, Inv, TypeOK, LocalsOK, Inside, Backs, ScanSteps,
         Ensuring, Inserted, Making, Using
<1>17. ASSUME NEW t \in Threads, RemoveDone(t) PROVE LocalsOK'
  BY <1>17, StoreAssumption DEF RemoveDone, At, Goto, Inv, TypeOK, LocalsOK, Inside, Backs, ScanSteps,
         Ensuring, Inserted, Making, Using
<1>18. ASSUME NEW t \in Threads, EvictDone(t) PROVE LocalsOK'
  <2>1. /\ pc[t] = "evicting" /\ lock = None /\ after[t] \in Backs
        /\ pc' = [pc EXCEPT ![t] = after[t]] /\ victim' = [victim EXCEPT ![t] = None]
        /\ lock' = t /\ UNCHANGED <<own, hand, prev, after>>
    BY <1>18 DEF EvictDone, At, Goto, Free, Inv, LocalsOK
  <2>2. ASSUME NEW u \in Threads
        PROVE  /\ Making(u)' <=> Making(u)
               /\ Using(u)' <=> Using(u)
               /\ Ensuring(u)' <=> Ensuring(u)
    BY <2>1 DEF Inv, TypeOK, Making, Inserted, Ensuring, Using, Backs, ScanSteps
  <2>3. \A u \in Threads : lock' = u <=> pc'[u] \in Inside
    BY <2>1, StoreAssumption DEF Inv, TypeOK, LocalsOK, Inside, Backs
  <2>4. /\ \A u \in Threads : own'[u] # None <=> Making(u)' \/ Using(u)'
        /\ \A u \in Threads : prev'[u] # None => Ensuring(u)'
    BY <2>1, <2>2 DEF Inv, LocalsOK
  <2>5. /\ \A u \in Threads : pc'[u] = "evicting" => after'[u] \in Backs
        /\ \A u \in Threads : victim'[u] # None <=> pc'[u] \in {"evicting", "removing"}
        /\ \A u \in Threads : pc'[u] = "found" => hand'[u] = None
    BY <2>1 DEF Inv, TypeOK, LocalsOK, Backs, ScanSteps
  <2>6. \A u \in Threads : Making(u)' \/ pc'[u] \in {"existing", "unref"} => hand'[u] # None
    BY <2>1, <2>2 DEF Inv, TypeOK, LocalsOK, Backs, ScanSteps
  <2> QED BY <2>3, <2>4, <2>5, <2>6 DEF LocalsOK
<1>19. ASSUME NEW t \in Threads, EmptyCall(t) PROVE LocalsOK'
  BY <1>19, StoreAssumption DEF EmptyCall, At, locals, Goto, Free, Inv, TypeOK, LocalsOK, Inside, Backs, ScanSteps,
         Ensuring, Inserted, Making, Using
<1>20. ASSUME NEW t \in Threads, EmptyReturn(t) PROVE LocalsOK'
  BY <1>20, StoreAssumption DEF EmptyReturn, At, locals, Goto, Inv, TypeOK, LocalsOK, Inside, Backs, ScanSteps,
         Ensuring, Inserted, Making, Using
<1>21. ASSUME NEW t \in Threads, NEW request \in Requests, MallocCall(t, request) PROVE LocalsOK'
  BY <1>21, StoreAssumption DEF MallocCall, At, Goto, Free, Inv, TypeOK, LocalsOK, Inside, Backs, ScanSteps,
         Ensuring, Inserted, Making, Using
<1>22. ASSUME NEW t \in Threads, ScavengeSkip(t) PROVE LocalsOK'
  BY <1>22, StoreAssumption DEF ScavengeSkip, At, shared, NextPhase, Inv, TypeOK, LocalsOK, Inside, Backs, ScanSteps,
         Ensuring, Inserted, Making, Using
<1>23. ASSUME NEW t \in Threads, ScavengeStart(t) PROVE LocalsOK'
  BY <1>23, StoreAssumption DEF ScavengeStart, At, shared, NextPhase, Goto, Inv, TypeOK, LocalsOK, Inside, Backs, ScanSteps,
         Ensuring, Inserted, Making, Using
<1>24. ASSUME NEW t \in Threads, ScavengeFails(t) PROVE LocalsOK'
  BY <1>24, StoreAssumption DEF ScavengeFails, At, MallocEnds, Goto, Inv, TypeOK, LocalsOK, Inside, Backs, ScanSteps,
         Ensuring, Inserted, Making, Using
<1>25. ASSUME NEW t \in Threads, NEW percent \in Percents, ShrinkCall(t, percent) PROVE LocalsOK'
  BY <1>25, StoreAssumption DEF ShrinkCall, At, Goto, Free, Inv, TypeOK, LocalsOK, Inside, Backs, ScanSteps,
         Ensuring, Inserted, Making, Using
<1>26. ASSUME NEW t \in Threads, MallocRetry(t) PROVE LocalsOK'
  <2>1. CASE lock' = None /\ Goto(t, "idle")
    BY <1>26, <2>1, StoreAssumption DEF MallocRetry, At, MallocEnds, Goto, Inv, TypeOK, LocalsOK, Inside, Backs, ScanSteps,
         Ensuring, Inserted, Making, Using
  <2>2. CASE Goto(t, "scavenge") /\ UNCHANGED lock
    BY <1>26, <2>2, StoreAssumption DEF MallocRetry, At, MallocEnds, Goto, Inv, TypeOK, LocalsOK, Inside, Backs, ScanSteps,
         Ensuring, Inserted, Making, Using
  <2> QED BY <1>26, <2>1, <2>2 DEF MallocRetry, At, MallocEnds
<1>40. ASSUME NEW t \in Threads, MallocNextPhase(t) PROVE LocalsOK'
  <2>1. CASE lock' = None /\ Goto(t, "idle")
    BY <1>40, <2>1, StoreAssumption DEF MallocNextPhase, At, MallocEnds, Goto, Inv, TypeOK, LocalsOK, Inside, Backs, ScanSteps,
         Ensuring, Inserted, Making, Using
  <2>2. CASE Goto(t, "scavenge") /\ UNCHANGED lock
    BY <1>40, <2>2, StoreAssumption DEF MallocNextPhase, At, MallocEnds, Goto, Inv, TypeOK, LocalsOK, Inside, Backs, ScanSteps,
         Ensuring, Inserted, Making, Using
  <2> QED BY <1>40, <2>1, <2>2 DEF MallocNextPhase, At, MallocEnds
<1>27. ASSUME NEW t \in Threads, ShrinkReturn(t) PROVE LocalsOK'
  BY <1>27, StoreAssumption DEF ShrinkReturn, At, locals, Goto, Inv, TypeOK, LocalsOK, Inside, Backs, ScanSteps,
         Ensuring, Inserted, Making, Using
<1>28. ASSUME NEW t \in Threads, NEW i, NEW pinned, NEW back, Evicting(t, i, pinned, back)
      PROVE  LocalsOK'
  <2>1. /\ pc' = [pc EXCEPT ![t] = "evicting"] /\ after' = [after EXCEPT ![t] = back]
        /\ victim' = [victim EXCEPT ![t] = i] /\ prev' = [prev EXCEPT ![t] = pinned]
        /\ lock' = None /\ own' = own /\ hand' = hand
    BY <1>28 DEF Evicting, EvictItem, Goto
  <2>2. i # None /\ back \in Backs /\ pc[t] \in Inside
    BY <1>28, ListElements, StoreAssumption DEF Inv, Evicting, Backs, Inside
  <2>3. /\ pc[t] \in {"fit", "space"} => back = "unpin"
        /\ pc[t] \notin {"fit", "space"} => back # "unpin" /\ pinned = None /\ ~Making(t)
    BY <1>28 DEF Evicting, ScanSteps, Making, Inserted, Ensuring
  <2>4. ASSUME NEW u \in Threads
        PROVE  /\ Making(u)' <=> Making(u)
               /\ Using(u)' <=> Using(u)
               /\ Ensuring(u)' <=> Ensuring(u) \/ (u = t /\ back = "unpin")
    BY <2>1, <2>2, <2>3 DEF Inv, TypeOK, Making, Inserted, Ensuring, Using, Inside, ScanSteps
  <2>5. \A u \in Threads : lock' = u <=> pc'[u] \in Inside
    BY <2>1, <2>2, StoreAssumption DEF Inv, TypeOK, LocalsOK, Inside, ScanSteps
  <2>6. \A u \in Threads : own'[u] # None <=> Making(u)' \/ Using(u)'
    BY <2>1, <2>4 DEF Inv, LocalsOK
  <2>7. \A u \in Threads : Making(u)' \/ pc'[u] \in {"existing", "unref"} => hand'[u] # None
    BY <2>1, <2>4 DEF Inv, TypeOK, LocalsOK
  <2>8. \A u \in Threads : prev'[u] # None => Ensuring(u)'
    BY <2>1, <2>3, <2>4 DEF Inv, TypeOK, LocalsOK
  <2>9. /\ \A u \in Threads : pc'[u] = "evicting" => after'[u] \in Backs
        /\ \A u \in Threads : victim'[u] # None <=> pc'[u] \in {"evicting", "removing"}
        /\ \A u \in Threads : pc'[u] = "found" => hand'[u] = None
    BY <2>1, <2>2 DEF Inv, TypeOK, LocalsOK
  <2> QED BY <2>5, <2>6, <2>7, <2>8, <2>9 DEF LocalsOK
<1>29. ASSUME NEW t \in Threads, SpaceStart(t) \/ SpaceMore(t) \/ ScanEvict(t) \/ EmptyEvict(t)
      PROVE  LocalsOK'
  BY <1>29, <1>28, EvictionSteps DEF Inv
<1>30. CASE UNCHANGED vars
  BY <1>30 DEF vars, shared, locals, Inv, TypeOK, LocalsOK, Inside, Backs, ScanSteps,
         Ensuring, Inserted, Making, Using
<1> QED BY <1>1, <1>2, <1>3, <1>4, <1>5, <1>6, <1>7, <1>8, <1>9, <1>10, <1>11, <1>12, <1>13,
        <1>14, <1>15, <1>16, <1>17, <1>18, <1>19, <1>20, <1>21, <1>22, <1>23, <1>24, <1>25,
        <1>26, <1>27, <1>28, <1>29, <1>30, <1>40
        DEF Next, Step, Call, Undefined


----------------------------------------------------------------------------
(* What the invariant says of the items that a step looks at. *)

\* Items that are linked, found or hashed are allocated, and have the type of items.
LEMMA ItemFacts ==
  ASSUME Inv
  PROVE  /\ \A i \in Items : item[i] # None =>
               /\ item[i] \in [key : Keys, val : Vals]
               /\ item[i].key \in Keys /\ item[i].val \in Vals
               /\ ValSize[item[i].val] \in Nat \ {0}
         /\ \A i \in List : i \in Items /\ i # None /\ item[i] # None
         /\ \A t \in Threads : own[t] # None => own[t] \in Items /\ item[own[t]] # None
         /\ \A t \in Threads : Making(t) \/ Using(t) => own[t] # None
         /\ \A t \in Threads : prev[t] # None => prev[t] \in List
         /\ \A t \in Threads : victim[t] # None => victim[t] \in Items
         /\ \A k \in HashKeys : hashed[k] # None =>
               hashed[k] \in Items /\ item[hashed[k]] # None /\ item[hashed[k]].key = k
<1>1. ASSUME NEW i \in Items, item[i] # None
      PROVE  /\ item[i] \in [key : Keys, val : Vals]
             /\ item[i].key \in Keys /\ item[i].val \in Vals
             /\ ValSize[item[i].val] \in Nat \ {0}
  BY <1>1, StoreAssumption DEF Inv, TypeOK
<1>2. ASSUME NEW i \in List PROVE i \in Items /\ i # None /\ item[i] # None
  BY StoreAssumption DEF Inv, TypeOK, TableAndList, List
<1>3. ASSUME NEW t \in Threads
      PROVE  /\ own[t] # None => own[t] \in Items /\ item[own[t]] # None
             /\ Making(t) \/ Using(t) => own[t] # None
             /\ prev[t] # None => prev[t] \in List
             /\ victim[t] # None => victim[t] \in Items
  BY DEF Inv, TypeOK, ItemsOK, LocalsOK
<1>4. ASSUME NEW k \in HashKeys, hashed[k] # None
      PROVE  hashed[k] \in Items /\ item[hashed[k]] # None /\ item[hashed[k]].key = k
  BY <1>4 DEF Inv, TypeOK, TableAndList
<1> QED BY <1>1, <1>2, <1>3, <1>4

\* A lookup gives an allocated item of the key, hashed or linked by it.
LEMMA LookupFacts ==
  ASSUME Inv, NEW k \in Keys, Lookup(k) # None
  PROVE  /\ Lookup(k) \in Items /\ item[Lookup(k)] # None /\ item[Lookup(k)].key = k
         /\ k \in HashKeys => hashed[k] = Lookup(k)
         /\ k \notin HashKeys => Lookup(k) \in List
<1>1. CASE k \in HashKeys
  BY <1>1, ItemFacts DEF Lookup
<1>2. CASE k \notin HashKeys
  <2> DEFINE at == {j \in DOMAIN lru : item[lru[j]].key = k}
  <2>1. lru \in Seq(Items)
    BY DEF Inv
  <2>2. at \in SUBSET Nat /\ at # {}
    BY <1>2, <2>1, ListElements DEF Lookup
  <2>3. \E j \in at : \A i \in at : j <= i
    BY <2>2, NatMin
  <2> DEFINE first == CHOOSE j \in at : \A i \in at : j <= i
  <2>4. first \in at
    BY <2>3
  <2>5. Lookup(k) = lru[first]
    BY <1>2, <2>2 DEF Lookup
  <2> HIDE DEF first
  <2>6. first \in DOMAIN lru /\ item[lru[first]].key = k
    BY <2>4
  <2>7. Lookup(k) \in List
    BY <2>1, <2>5, <2>6, ListElements
  <2> QED BY <1>2, <2>5, <2>6, <2>7, ItemFacts
<1> QED BY <1>1, <1>2

\* What an eviction takes and pins.
LEMMA EvictingFacts ==
  ASSUME Inv, NEW t, NEW i, NEW pinned, NEW back, Evicting(t, i, pinned, back)
  PROVE  /\ i \in Items /\ i # None /\ item[i] # None /\ item[i].val \in Vals
         /\ ValSize[item[i].val] \in Nat \ {0}
         /\ pinned # None => pinned \in Items /\ item[pinned] # None /\ item[pinned].val \in Vals
         /\ item[i].key \in HashKeys => hashed[item[i].key] = i
<1>1. i \in List /\ (pinned # None => pinned \in List)
  BY DEF Evicting
<1>2. item[i].key \in HashKeys => hashed[item[i].key] = i
  BY <1>1 DEF Inv, TableAndList, List
<1> QED BY <1>1, <1>2, ItemFacts


----------------------------------------------------------------------------
\* The list is a sequence of items without repetitions.
ListOK == lru \in Seq(Items) /\ IsInjective(lru) /\ List \subseteq Items

\* The list is well formed as long as the invariant holds ...
LEMMA ListNow == ASSUME Inv PROVE ListOK
  BY DEF Inv, TypeOK, ListOK, List

\* ... and after each step.
LEMMA ListStep ==
  ASSUME Inv, [Next]_vars
  PROVE  ListOK'
<1>1. ASSUME NEW t \in Threads, NEW v \in Vals, MakeValue(t, v) PROVE ListOK'
  BY <1>1, ListNow DEF MakeValue, At, Free, locals, ListOK, List
<1>2. ASSUME NEW t \in Threads, DropValue(t) PROVE ListOK'
  BY <1>2, ListNow DEF DropValue, At, Free, locals, ListOK, List
<1>3. ASSUME NEW t \in Threads, NEW k \in Keys, NEW i \in Items, StoreCall(t, k, i) PROVE ListOK'
  BY <1>3, ListNow DEF StoreCall, At, work, Goto, ListOK, List
<1>4. ASSUME NEW t \in Threads, StoreHashFails(t) PROVE ListOK'
  BY <1>4, ListNow DEF StoreHashFails, At, work, Goto, Free, ListOK, List
<1>5. ASSUME NEW t \in Threads, StoreExisting(t) PROVE ListOK'
  <2> DEFINE i == hashed[item[own[t]].key]
  <2>1. i \in Items /\ lru' = Touched(i)
    BY <1>5, ItemFacts DEF StoreExisting, At
  <2> QED BY <2>1, ListNow, TouchedFacts DEF ListOK, List
<1>6. ASSUME NEW t \in Threads, StoreReturnExisting(t) PROVE ListOK'
  BY <1>6, ListNow DEF StoreReturnExisting, At, work, Goto, Free, ListOK, List
<1>7. ASSUME NEW t \in Threads, StoreInsert(t) PROVE ListOK'
  BY <1>7, ListNow DEF StoreInsert, At, Goto, Free, ListOK, List
<1>8. ASSUME NEW t \in Threads, StoreFits(t) PROVE ListOK'
  <2>1. own[t] \in Items /\ lru' = Touched(own[t])
    BY <1>8, ItemFacts DEF StoreFits, At, LinkOwn, Making, Inserted, Using
  <2> QED BY <2>1, ListNow, TouchedFacts DEF ListOK, List
<1>9. ASSUME NEW t \in Threads, StoreOverBudget(t) PROVE ListOK'
  <2>1. own[t] \in Items /\ lru' = Touched(own[t])
    BY <1>9, ItemFacts DEF StoreOverBudget, At, LinkOwn, Making, Inserted, Using
  <2> QED BY <2>1, ListNow, TouchedFacts DEF ListOK, List
<1>10. ASSUME NEW t \in Threads, StoreGivesUp(t) PROVE ListOK'
  BY <1>10, ListNow DEF StoreGivesUp, At, work, Goto, ListOK, List
<1>11. ASSUME NEW t \in Threads, StoreUnref(t) PROVE ListOK'
  BY <1>11, ListNow DEF StoreUnref, At, locals, Goto, ListOK, List
<1>12. ASSUME NEW t \in Threads, SpaceUnpin(t) PROVE ListOK'
  BY <1>12, ListNow DEF SpaceUnpin, At, locals, Goto, ListOK, List
<1>13. ASSUME NEW t \in Threads, SpaceReturn(t) PROVE ListOK'
  BY <1>13, ListNow DEF SpaceReturn, At, shared, Goto, ListOK, List
<1>14. ASSUME NEW t \in Threads, NEW k \in Keys, FindCall(t, k) PROVE ListOK'
  <2>1. Lookup(k) \in Items /\ lru' = Touched(Lookup(k))
    BY <1>14, LookupFacts DEF FindCall, At
  <2> QED BY <2>1, ListNow, TouchedFacts DEF ListOK, List
<1>15. ASSUME NEW t \in Threads, FindReturn(t) PROVE ListOK'
  BY <1>15, ListNow DEF FindReturn, At, shared, work, Goto, ListOK, List
<1>16. ASSUME NEW t \in Threads, NEW k \in Keys, RemoveCall(t, k) PROVE ListOK'
  <2>1. lru' = Unlink(lru, Lookup(k))
    BY <1>16 DEF RemoveCall, At
  <2> QED BY <2>1, ListNow, UnlinkFacts DEF ListOK, List
<1>17. ASSUME NEW t \in Threads, RemoveDone(t) PROVE ListOK'
  BY <1>17, ListNow DEF RemoveDone, At, Goto, ListOK, List
<1>18. ASSUME NEW t \in Threads, EvictDone(t) PROVE ListOK'
  BY <1>18, ListNow DEF EvictDone, At, Goto, Free, ListOK, List
<1>19. ASSUME NEW t \in Threads, EmptyCall(t) PROVE ListOK'
  BY <1>19, ListNow DEF EmptyCall, At, locals, Goto, Free, ListOK, List
<1>20. ASSUME NEW t \in Threads, EmptyReturn(t) PROVE ListOK'
  BY <1>20, ListNow DEF EmptyReturn, At, locals, Goto, ListOK, List
<1>21. ASSUME NEW t \in Threads, NEW request \in Requests, MallocCall(t, request) PROVE ListOK'
  BY <1>21, ListNow DEF MallocCall, At, Goto, Free, ListOK, List
<1>22. ASSUME NEW t \in Threads, ScavengeSkip(t) PROVE ListOK'
  BY <1>22, ListNow DEF ScavengeSkip, At, shared, NextPhase, ListOK, List
<1>23. ASSUME NEW t \in Threads, ScavengeStart(t) PROVE ListOK'
  BY <1>23, ListNow DEF ScavengeStart, At, shared, NextPhase, Goto, ListOK, List
<1>24. ASSUME NEW t \in Threads, ScavengeFails(t) PROVE ListOK'
  BY <1>24, ListNow DEF ScavengeFails, At, MallocEnds, Goto, ListOK, List
<1>25. ASSUME NEW t \in Threads, NEW percent \in Percents, ShrinkCall(t, percent) PROVE ListOK'
  BY <1>25, ListNow DEF ShrinkCall, At, Goto, Free, ListOK, List
<1>26. ASSUME NEW t \in Threads, MallocRetry(t) PROVE ListOK'
  BY <1>26, ListNow DEF MallocRetry, At, MallocEnds, Goto, ListOK, List
<1>40. ASSUME NEW t \in Threads, MallocNextPhase(t) PROVE ListOK'
  BY <1>40, ListNow DEF MallocNextPhase, At, MallocEnds, Goto, ListOK, List
<1>27. ASSUME NEW t \in Threads, ShrinkReturn(t) PROVE ListOK'
  BY <1>27, ListNow DEF ShrinkReturn, At, locals, Goto, ListOK, List
<1>28. ASSUME NEW t \in Threads, NEW i, NEW pinned, NEW back, Evicting(t, i, pinned, back)
      PROVE  ListOK'
  <2>1. lru' = Unlink(lru, i)
    BY <1>28 DEF Evicting, EvictItem
  <2> QED BY <2>1, ListNow, UnlinkFacts DEF ListOK, List
<1>29. ASSUME NEW t \in Threads, SpaceStart(t) \/ SpaceMore(t) \/ ScanEvict(t) \/ EmptyEvict(t)
      PROVE  ListOK'
  BY <1>29, <1>28, EvictionSteps DEF Inv
<1>30. CASE UNCHANGED vars
  BY <1>30, ListNow DEF vars, shared, ListOK, List
<1> QED BY <1>1, <1>2, <1>3, <1>4, <1>5, <1>6, <1>7, <1>8, <1>9, <1>10, <1>11, <1>12, <1>13,
        <1>14, <1>15, <1>16, <1>17, <1>18, <1>19, <1>20, <1>21, <1>22, <1>23, <1>24, <1>25,
        <1>26, <1>27, <1>28, <1>29, <1>30, <1>40
        DEF Next, Step, Call, Undefined


\* The other variables.
RestOK ==
    /\ setup \in Setups /\ torn \subseteq Threads
    /\ lock \in Threads \cup {None}
    /\ item \in [Items -> [key : Keys, val : Vals] \cup {None}]
    /\ hashed \in [HashKeys -> Items \cup {None}]
    /\ size \in Int
    /\ refs \in [Vals -> Int]
    /\ hand \in [Threads -> Vals \cup {None}] /\ fresh \subseteq Vals
    /\ pc \in [Threads -> Steps]
    /\ own \in [Threads -> Items \cup {None}] /\ prev \in [Threads -> Items \cup {None}]
    /\ victim \in [Threads -> Items \cup {None}]
    /\ want \in [Threads -> Int]
    /\ after \in [Threads -> Steps]
CountsOK ==
    goal \in [Threads -> Int] /\ count \in [Threads -> Nat] /\ phase \in [Threads -> 0 .. Phases + 1]

\* TypeOK comes in three parts, proved apart.
LEMMA TypeParts == TypeOK <=> RestOK /\ CountsOK /\ IsInjective(lru) /\ List \subseteq Items
  BY DEF TypeOK, RestOK, CountsOK, List

\* They have their types as long as the invariant holds ...
LEMMA RestNow == ASSUME Inv PROVE RestOK /\ CountsOK
  BY TypeParts DEF Inv

\* ... and after each step.
LEMMA RestStep ==
  ASSUME Inv, [Next]_vars
  PROVE  RestOK'
<1>1. ASSUME NEW t \in Threads, NEW v \in Vals, MakeValue(t, v) PROVE RestOK'
  BY <1>1, RestNow, StoreAssumption DEF MakeValue, At, Free, locals, RestOK, Steps, ScanSteps
<1>2. ASSUME NEW t \in Threads, DropValue(t) PROVE RestOK'
  BY <1>2, RestNow, StoreAssumption DEF DropValue, At, Free, locals, RestOK, Steps, ScanSteps
<1>3. ASSUME NEW t \in Threads, NEW k \in Keys, NEW i \in Items, StoreCall(t, k, i) PROVE RestOK'
  BY <1>3, ItemFacts, RestNow, StoreAssumption DEF StoreCall, At, work, Goto, RestOK, Steps, ScanSteps, Making, Inserted, Using
<1>4. ASSUME NEW t \in Threads, StoreHashFails(t) PROVE RestOK'
  BY <1>4, RestNow, StoreAssumption DEF StoreHashFails, At, work, Goto, Free, RestOK, Steps, ScanSteps
<1>5. ASSUME NEW t \in Threads, StoreExisting(t) PROVE RestOK'
  <2> DEFINE i == hashed[item[own[t]].key]
  <2>1. i \in Items /\ item[i].val \in Vals
    BY <1>5, ItemFacts DEF StoreExisting, At
  <2>2. refs' = [refs EXCEPT ![item[i].val] = @ + 1] /\ own' = [own EXCEPT ![t] = i]
    BY <1>5 DEF StoreExisting, At
  <2>3. /\ item' = [item EXCEPT ![own[t]] = None] /\ pc' = [pc EXCEPT ![t] = "existing"]
        /\ UNCHANGED <<setup, torn, lock, hashed, size, hand, fresh, prev, victim, want, after>>
    BY <1>5 DEF StoreExisting, At, Goto, work
  <2> HIDE DEF i
  <2>4. refs' \in [Vals -> Int] /\ own' \in [Threads -> Items \cup {None}]
    BY <2>1, <2>2, RestNow DEF RestOK
  <2>5. item' \in [Items -> [key : Keys, val : Vals] \cup {None}] /\ pc' \in [Threads -> Steps]
    BY <2>3, RestNow DEF RestOK, Steps
  <2> QED BY <2>3, <2>4, <2>5, RestNow DEF RestOK
<1>6. ASSUME NEW t \in Threads, StoreReturnExisting(t) PROVE RestOK'
  <2>1. hand[t] \in Vals
    BY <1>6, RestNow DEF StoreReturnExisting, At, RestOK, Inv, LocalsOK
  <2>2. own[t] \in Items /\ item[own[t]].val \in Vals
    BY <1>6, ItemFacts DEF StoreReturnExisting, At, Using
  <2> QED BY <1>6, <2>1, <2>2, RestNow, StoreAssumption DEF StoreReturnExisting, At, work, Goto, Free, RestOK, Steps, ScanSteps
<1>7. ASSUME NEW t \in Threads, StoreInsert(t) PROVE RestOK'
  BY <1>7, ItemFacts, RestNow, StoreAssumption DEF StoreInsert, At, Goto, Free, RestOK, Steps, ScanSteps, Making, Inserted, Using
<1>8. ASSUME NEW t \in Threads, StoreFits(t) PROVE RestOK'
  BY <1>8, ItemFacts, RestNow, StoreAssumption DEF StoreFits, At, LinkOwn, work, Goto, RestOK, Steps, ScanSteps, Making, Inserted, Using
<1>9. ASSUME NEW t \in Threads, StoreOverBudget(t) PROVE RestOK'
  BY <1>9, ItemFacts, RestNow, StoreAssumption DEF StoreOverBudget, At, LinkOwn, work, Goto, RestOK, Steps, ScanSteps, Making, Inserted, Using
<1>10. ASSUME NEW t \in Threads, StoreGivesUp(t) PROVE RestOK'
  BY <1>10, ItemFacts, RestNow, StoreAssumption DEF StoreGivesUp, At, work, Goto, RestOK, Steps, ScanSteps, Making, Inserted, Using
<1>11. ASSUME NEW t \in Threads, StoreUnref(t) PROVE RestOK'
  <2>1. hand[t] \in Vals
    BY <1>11, RestNow DEF StoreUnref, At, RestOK, Inv, LocalsOK
  <2> QED BY <1>11, <2>1, RestNow, StoreAssumption DEF StoreUnref, At, locals, Goto, RestOK, Steps, ScanSteps
<1>12. ASSUME NEW t \in Threads, SpaceUnpin(t) PROVE RestOK'
  BY <1>12, ItemFacts, RestNow, StoreAssumption DEF SpaceUnpin, At, locals, Goto, RestOK, Steps, ScanSteps, Making, Inserted, Using
<1>13. ASSUME NEW t \in Threads, SpaceReturn(t) PROVE RestOK'
  BY <1>13, RestNow, StoreAssumption DEF SpaceReturn, At, shared, Goto, RestOK, Steps, ScanSteps, CountsOK
<1>14. ASSUME NEW t \in Threads, NEW k \in Keys, FindCall(t, k) PROVE RestOK'
  BY <1>14, LookupFacts, ItemFacts, RestNow, StoreAssumption DEF FindCall, At, work, Goto, Free, RestOK, Steps, ScanSteps
<1>15. ASSUME NEW t \in Threads, FindReturn(t) PROVE RestOK'
  BY <1>15, ItemFacts, RestNow, StoreAssumption DEF FindReturn, At, shared, work, Goto, RestOK, Steps, ScanSteps, Making, Inserted, Using
<1>16. ASSUME NEW t \in Threads, NEW k \in Keys, RemoveCall(t, k) PROVE RestOK'
  BY <1>16, LookupFacts, ItemFacts, RestNow, StoreAssumption DEF RemoveCall, At, Holders, Goto, Free, RestOK, Steps, ScanSteps
<1>17. ASSUME NEW t \in Threads, RemoveDone(t) PROVE RestOK'
  BY <1>17, RestNow, StoreAssumption DEF RemoveDone, At, Goto, RestOK, Steps, ScanSteps
<1>18. ASSUME NEW t \in Threads, EvictDone(t) PROVE RestOK'
  BY <1>18, ItemFacts, RestNow, StoreAssumption DEF EvictDone, At, Goto, Free, RestOK, Steps, ScanSteps
<1>19. ASSUME NEW t \in Threads, EmptyCall(t) PROVE RestOK'
  BY <1>19, RestNow, StoreAssumption DEF EmptyCall, At, locals, Goto, Free, RestOK, Steps, ScanSteps
<1>20. ASSUME NEW t \in Threads, EmptyReturn(t) PROVE RestOK'
  BY <1>20, RestNow, StoreAssumption DEF EmptyReturn, At, locals, Goto, RestOK, Steps, ScanSteps
<1>21. ASSUME NEW t \in Threads, NEW request \in Requests, MallocCall(t, request) PROVE RestOK'
  BY <1>21, RestNow, StoreAssumption DEF MallocCall, At, Goto, Free, RestOK, Steps, ScanSteps
<1>22. ASSUME NEW t \in Threads, ScavengeSkip(t) PROVE RestOK'
  BY <1>22, RestNow, StoreAssumption DEF ScavengeSkip, At, shared, NextPhase, RestOK, Steps, ScanSteps
<1>23. ASSUME NEW t \in Threads, ScavengeStart(t) PROVE RestOK'
  BY <1>23, RestNow, StoreAssumption DEF ScavengeStart, At, shared, NextPhase, Goto, RestOK, Steps, ScanSteps
<1>24. ASSUME NEW t \in Threads, ScavengeFails(t) PROVE RestOK'
  BY <1>24, RestNow, StoreAssumption DEF ScavengeFails, At, MallocEnds, Goto, RestOK, Steps, ScanSteps
<1>25. ASSUME NEW t \in Threads, NEW percent \in Percents, ShrinkCall(t, percent) PROVE RestOK'
  BY <1>25, RestNow, StoreAssumption DEF ShrinkCall, At, Goto, Free, RestOK, Steps, ScanSteps
<1>26. ASSUME NEW t \in Threads, MallocRetry(t) PROVE RestOK'
  BY <1>26, RestNow, StoreAssumption DEF MallocRetry, At, MallocEnds, Goto, RestOK, Steps, ScanSteps
<1>40. ASSUME NEW t \in Threads, MallocNextPhase(t) PROVE RestOK'
  BY <1>40, RestNow, StoreAssumption DEF MallocNextPhase, At, MallocEnds, Goto, RestOK, Steps, ScanSteps
<1>27. ASSUME NEW t \in Threads, ShrinkReturn(t) PROVE RestOK'
  BY <1>27, RestNow, StoreAssumption DEF ShrinkReturn, At, locals, Goto, RestOK, Steps, ScanSteps
<1>28. ASSUME NEW t \in Threads, NEW i, NEW pinned, NEW back, Evicting(t, i, pinned, back)
      PROVE  RestOK'
  <2>1. /\ size' = size - ValSize[item[i].val]
        /\ hashed' = IF item[i].key \in HashKeys THEN [hashed EXCEPT ![item[i].key] = None] ELSE hashed
        /\ prev' = [prev EXCEPT ![t] = pinned] /\ victim' = [victim EXCEPT ![t] = i]
        /\ after' = [after EXCEPT ![t] = back] /\ lock' = None /\ pc' = [pc EXCEPT ![t] = "evicting"]
        /\ UNCHANGED <<setup, item, hand, fresh, own, want>> /\ back \in Steps
        /\ torn' \subseteq Threads
    BY <1>28, RestNow DEF Evicting, EvictItem, Goto, Steps, ScanSteps, Holders, RestOK
  <2>2. refs' \in [Vals -> Int]
    <3> DEFINE r == [refs EXCEPT ![item[i].val] = @ - 1]
    <3>1. r \in [Vals -> Int]
      BY RestNow, EvictingFacts, <1>28 DEF RestOK
    <3>2. refs' = IF pinned = None THEN r ELSE [r EXCEPT ![item[pinned].val] = @ + 1]
      BY <1>28 DEF Evicting, EvictItem
    <3> HIDE DEF r
    <3> QED BY <3>1, <3>2, EvictingFacts, <1>28
  <2>3. hashed' \in [HashKeys -> Items \cup {None}] /\ size' \in Int
    BY <2>1, RestNow, EvictingFacts, <1>28 DEF RestOK
  <2>4. prev' \in [Threads -> Items \cup {None}] /\ victim' \in [Threads -> Items \cup {None}]
    BY <2>1, RestNow, EvictingFacts, <1>28 DEF RestOK
  <2> QED BY <2>1, <2>2, <2>3, <2>4, RestNow DEF RestOK, Steps
<1>29. ASSUME NEW t \in Threads, SpaceStart(t) \/ SpaceMore(t) \/ ScanEvict(t) \/ EmptyEvict(t)
      PROVE  RestOK'
  BY <1>29, <1>28, EvictionSteps DEF Inv
<1>30. CASE UNCHANGED vars
  BY <1>30, RestNow DEF vars, shared, locals, RestOK
<1> QED BY <1>1, <1>2, <1>3, <1>4, <1>5, <1>6, <1>7, <1>8, <1>9, <1>10, <1>11, <1>12, <1>13,
        <1>14, <1>15, <1>16, <1>17, <1>18, <1>19, <1>20, <1>21, <1>22, <1>23, <1>24, <1>25,
        <1>26, <1>27, <1>28, <1>29, <1>30, <1>40
        DEF Next, Step, Call, Undefined


\* What the store may keep in a phase is a number.
LEMMA PhaseMaxFacts == ASSUME Inv, NEW t \in Threads PROVE PhaseMax(phase[t]) \in Int
<1>1. /\ size \in Int /\ setup.max \in Int /\ Phases \in Nat \ {0} /\ phase[t] \in Nat
  BY RestNow, StoreAssumption DEF RestOK, CountsOK
<1>2. setup.max \div Phases \in Int
  BY <1>1
<1>3. ASSUME phase[t] < Phases
      PROVE  size \div (Phases - phase[t]) \in Int
  <2>1. Phases - phase[t] \in Int /\ Phases - phase[t] > 0
    BY <1>1, <1>3
  <2> QED BY <1>1, <2>1
<1>4. CASE phase[t] >= Phases
  BY <1>4 DEF PhaseMax
<1>5. CASE phase[t] < Phases /\ setup.max # Unlimited
  BY <1>1, <1>2, <1>5 DEF PhaseMax
<1>6. CASE phase[t] < Phases /\ setup.max = Unlimited
  BY <1>1, <1>3, <1>6 DEF PhaseMax
<1> QED BY <1>1, <1>4, <1>5, <1>6

\* ... and for the sums of sizes: what is counted has a size.
LEMMA CountsStep ==
  ASSUME Inv, [Next]_vars
  PROVE  CountsOK'
<1>1. ASSUME NEW t \in Threads, NEW v \in Vals, MakeValue(t, v) PROVE CountsOK'
  BY <1>1, RestNow DEF MakeValue, At, Free, locals, CountsOK
<1>2. ASSUME NEW t \in Threads, DropValue(t) PROVE CountsOK'
  BY <1>2, RestNow DEF DropValue, At, Free, locals, CountsOK
<1>3. ASSUME NEW t \in Threads, NEW k \in Keys, NEW i \in Items, StoreCall(t, k, i) PROVE CountsOK'
  BY <1>3, RestNow DEF StoreCall, At, work, Goto, CountsOK
<1>4. ASSUME NEW t \in Threads, StoreHashFails(t) PROVE CountsOK'
  BY <1>4, RestNow DEF StoreHashFails, At, work, Goto, Free, CountsOK
<1>5. ASSUME NEW t \in Threads, StoreExisting(t) PROVE CountsOK'
  BY <1>5, RestNow DEF StoreExisting, At, work, Goto, Free, CountsOK
<1>6. ASSUME NEW t \in Threads, StoreReturnExisting(t) PROVE CountsOK'
  BY <1>6, RestNow DEF StoreReturnExisting, At, work, Goto, Free, CountsOK
<1>7. ASSUME NEW t \in Threads, StoreInsert(t) PROVE CountsOK'
  BY <1>7, RestNow DEF StoreInsert, At, Goto, Free, CountsOK
<1>8. ASSUME NEW t \in Threads, StoreFits(t) PROVE CountsOK'
  BY <1>8, RestNow DEF StoreFits, At, LinkOwn, work, Goto, CountsOK
<1>9. ASSUME NEW t \in Threads, StoreOverBudget(t) PROVE CountsOK'
  BY <1>9, RestNow DEF StoreOverBudget, At, LinkOwn, work, Goto, CountsOK
<1>10. ASSUME NEW t \in Threads, StoreGivesUp(t) PROVE CountsOK'
  BY <1>10, RestNow DEF StoreGivesUp, At, work, Goto, CountsOK
<1>11. ASSUME NEW t \in Threads, StoreUnref(t) PROVE CountsOK'
  BY <1>11, RestNow DEF StoreUnref, At, locals, Goto, CountsOK
<1>12. ASSUME NEW t \in Threads, SpaceStart(t) PROVE CountsOK'
  <2> DEFINE i == lru[VictimAt(Evictable)]
  <2>1. Evictable # {}
    BY <1>12, RestNow, SomethingEvictable, StoreAssumption DEF SpaceStart, At, NoSpace, Fits, RestOK
  <2>2. i \in List
    BY <2>1, VictimAtFacts, ListElements, ListNow DEF Evictable, ListOK
  <2>3. ValSize[item[i].val] \in Nat
    BY <2>2, ItemFacts
  <2>4. goal' = [goal EXCEPT ![t] = want[t] - setup.max] /\ phase' = phase
        /\ count' = [count EXCEPT ![t] = 0 + ValSize[item[i].val]]
    BY <1>12 DEF SpaceStart, At, SpaceEvict
  <2> HIDE DEF i
  <2> QED BY <2>3, <2>4, RestNow, StoreAssumption DEF CountsOK, RestOK
<1>13. ASSUME NEW t \in Threads, SpaceUnpin(t) PROVE CountsOK'
  BY <1>13, RestNow DEF SpaceUnpin, At, locals, Goto, CountsOK
<1>14. ASSUME NEW t \in Threads, SpaceMore(t) PROVE CountsOK'
  <2> DEFINE i == lru[VictimAt(SpaceLeft(t))]
  <2>1. SpaceLeft(t) # {} /\ SpaceLeft(t) \subseteq DOMAIN lru
    BY <1>14 DEF SpaceMore, At, SpaceDone, SpaceLeft, Evictable
  <2>2. i \in List
    BY <2>1, VictimAtFacts, ListElements, ListNow DEF ListOK
  <2>3. ValSize[item[i].val] \in Nat
    BY <2>2, ItemFacts
  <2>4. goal' = [goal EXCEPT ![t] = goal[t]] /\ phase' = phase
        /\ count' = [count EXCEPT ![t] = count[t] + ValSize[item[i].val]]
    BY <1>14 DEF SpaceMore, At, SpaceEvict
  <2> HIDE DEF i
  <2> QED BY <2>3, <2>4, RestNow DEF CountsOK
<1>15. ASSUME NEW t \in Threads, SpaceReturn(t) PROVE CountsOK'
  BY <1>15, RestNow DEF SpaceReturn, At, shared, Goto, CountsOK
<1>16. ASSUME NEW t \in Threads, NEW k \in Keys, FindCall(t, k) PROVE CountsOK'
  BY <1>16, RestNow DEF FindCall, At, work, Goto, Free, CountsOK
<1>17. ASSUME NEW t \in Threads, FindReturn(t) PROVE CountsOK'
  BY <1>17, RestNow DEF FindReturn, At, shared, work, Goto, CountsOK
<1>18. ASSUME NEW t \in Threads, NEW k \in Keys, RemoveCall(t, k) PROVE CountsOK'
  BY <1>18, RestNow DEF RemoveCall, At, Goto, Free, CountsOK
<1>19. ASSUME NEW t \in Threads, RemoveDone(t) PROVE CountsOK'
  BY <1>19, RestNow DEF RemoveDone, At, Goto, CountsOK
<1>20. ASSUME NEW t \in Threads, EvictDone(t) PROVE CountsOK'
  BY <1>20, RestNow DEF EvictDone, At, Goto, Free, CountsOK
<1>21. ASSUME NEW t \in Threads, EmptyCall(t) PROVE CountsOK'
  BY <1>21, RestNow DEF EmptyCall, At, locals, Goto, Free, CountsOK
<1>22. ASSUME NEW t \in Threads, EmptyEvict(t) PROVE CountsOK'
  BY <1>22, RestNow DEF EmptyEvict, At, EvictItem, Goto, CountsOK
<1>23. ASSUME NEW t \in Threads, EmptyReturn(t) PROVE CountsOK'
  BY <1>23, RestNow DEF EmptyReturn, At, locals, Goto, CountsOK
<1>24. ASSUME NEW t \in Threads, NEW request \in Requests, MallocCall(t, request) PROVE CountsOK'
  BY <1>24, RestNow, StoreAssumption DEF MallocCall, At, Goto, Free, CountsOK
<1>25. ASSUME NEW t \in Threads, ScavengeSkip(t) PROVE CountsOK'
  BY <1>25, RestNow, StoreAssumption DEF ScavengeSkip, At, shared, NextPhase, CountsOK
<1>26. ASSUME NEW t \in Threads, ScavengeStart(t) PROVE CountsOK'
  <2> DEFINE g == IF Overflows(t) THEN Word - 1 - PhaseMax(phase[t])
                  ELSE (want[t] + size - PhaseMax(phase[t])) % Word
  <2>1. want[t] \in Int /\ size \in Int /\ PhaseMax(phase[t]) \in Int
    BY RestNow, PhaseMaxFacts DEF RestOK
  <2>2. Word - 1 - PhaseMax(phase[t]) \in Int
        /\ (want[t] + size - PhaseMax(phase[t])) % Word \in Int
    <3> DEFINE pm == PhaseMax(phase[t])
               w == want[t]
    <3>1. w \in Int /\ size \in Int /\ pm \in Int
      BY <2>1
    <3> HIDE DEF pm, w
    <3>2. Word - 1 - pm \in Int /\ (w + size - pm) % Word \in Int
      BY <3>1, StoreAssumption
    <3> QED BY <3>2 DEF pm, w
  <2>3. g \in Int
    BY <2>2
  <2>4. goal' = [goal EXCEPT ![t] = g]
    BY <1>26 DEF ScavengeStart
  <2>5. /\ count' = [count EXCEPT ![t] = 0]
        /\ phase' = [phase EXCEPT ![t] = NextPhase(phase[t])]
    BY <1>26 DEF ScavengeStart
  <2> HIDE DEF g
  <2>6. goal' \in [Threads -> Int]
    BY <2>3, <2>4, RestNow DEF CountsOK
  <2> QED BY <2>5, <2>6, RestNow, StoreAssumption DEF CountsOK, NextPhase
<1>27. ASSUME NEW t \in Threads, ScavengeFails(t) PROVE CountsOK'
  BY <1>27, RestNow, StoreAssumption DEF ScavengeFails, At, MallocEnds, Goto, CountsOK
<1>28. ASSUME NEW t \in Threads, NEW percent \in Percents, ShrinkCall(t, percent) PROVE CountsOK'
  <2>1. size \in Int /\ percent \in Int
    BY RestNow, StoreAssumption DEF RestOK
  <2>2. size - (size * percent) \div 100 \in Int
    BY <2>1
  <2>3. goal' = [goal EXCEPT ![t] = size - (size * percent) \div 100] /\ phase' = phase
        /\ count' = [count EXCEPT ![t] = 0]
    BY <1>28 DEF ShrinkCall, At
  <2> QED BY <2>2, <2>3, RestNow DEF CountsOK
<1>29. ASSUME NEW t \in Threads, ScanEvict(t) PROVE CountsOK'
  <2> DEFINE i == lru[VictimAt(Evictable)]
  <2>1. Evictable # {} /\ Evictable \subseteq DOMAIN lru
    BY <1>29 DEF ScanEvict, At, ScanDone, Evictable
  <2>2. i \in List
    BY <2>1, VictimAtFacts, ListElements, ListNow DEF ListOK
  <2>3. ValSize[item[i].val] \in Nat
    BY <2>2, ItemFacts
  <2>4. count' = [count EXCEPT ![t] = (count[t] + ValSize[item[i].val]) % Word] /\ UNCHANGED <<goal, phase>>
    BY <1>29 DEF ScanEvict, At
  <2> HIDE DEF i
  <2>5. (count[t] + ValSize[item[i].val]) % Word \in Nat
    BY <2>3, RestNow, StoreAssumption DEF CountsOK
  <2> QED BY <2>4, <2>5, RestNow DEF CountsOK
<1>30. ASSUME NEW t \in Threads, MallocRetry(t) PROVE CountsOK'
  BY <1>30, RestNow, StoreAssumption DEF MallocRetry, At, MallocEnds, Goto, CountsOK
<1>40. ASSUME NEW t \in Threads, MallocNextPhase(t) PROVE CountsOK'
  BY <1>40, RestNow, StoreAssumption DEF MallocNextPhase, At, MallocEnds, Goto, CountsOK
<1>31. ASSUME NEW t \in Threads, ShrinkReturn(t) PROVE CountsOK'
  BY <1>31, RestNow DEF ShrinkReturn, At, locals, Goto, CountsOK
<1>32. CASE UNCHANGED vars
  BY <1>32, RestNow DEF vars, locals, CountsOK
<1> QED BY <1>1, <1>2, <1>3, <1>4, <1>5, <1>6, <1>7, <1>8, <1>9, <1>10, <1>11, <1>12, <1>13,
        <1>14, <1>15, <1>16, <1>17, <1>18, <1>19, <1>20, <1>21, <1>22, <1>23, <1>24, <1>25,
        <1>26, <1>27, <1>28, <1>29, <1>30, <1>31, <1>32, <1>40
        DEF Next, Step, Call, Undefined


\* Type correctness is kept by every step.
LEMMA TypeStep == ASSUME Inv, [Next]_vars PROVE TypeOK' /\ lru' \in Seq(Items)
  BY RestStep, CountsStep, ListStep DEF TypeOK, RestOK, CountsOK, ListOK, List


----------------------------------------------------------------------------
(* Reference counts.  The owners of a value are finite in number. *)
LEMMA OwnersFinite ==
  ASSUME Inv, NEW v
  PROVE  /\ IsFiniteSet(Stored(v)) /\ IsFiniteSet(Handed(v)) /\ IsFiniteSet(Returning(v))
         /\ IsFiniteSet(Unreffing(v)) /\ IsFiniteSet(Pinning(v))
         /\ Cardinality(Stored(v)) \in Nat /\ Cardinality(Handed(v)) \in Nat
         /\ Cardinality(Returning(v)) \in Nat /\ Cardinality(Unreffing(v)) \in Nat
         /\ Cardinality(Pinning(v)) \in Nat
<1>1. Stored(v) \subseteq Items
  BY RestNow, ListNow, StoreAssumption
     DEF Stored, InStore, InFlight, Storing, RestOK, ListOK, List
<1>2. /\ Handed(v) \subseteq Threads /\ Returning(v) \subseteq Threads
      /\ Unreffing(v) \subseteq Threads /\ Pinning(v) \subseteq Threads
  BY DEF Handed, Returning, Unreffing, Pinning
<1>3. /\ IsFiniteSet(Stored(v)) /\ IsFiniteSet(Handed(v)) /\ IsFiniteSet(Returning(v))
      /\ IsFiniteSet(Unreffing(v)) /\ IsFiniteSet(Pinning(v))
  BY <1>1, <1>2, FS_Subset, StoreAssumption
<1> QED BY <1>3, FS_CardinalityType

\* An item that only the store refers to is in nobody's hands, except that a
\* thread that has released its pin may go on from it.
LEMMA LoneItem ==
  ASSUME Inv, NEW i \in List, refs[item[i].val] = 1
  PROVE  /\ \A u \in Threads : own[u] # i
         /\ \A u \in Threads : prev[u] = i => pc[u] = "space"
         /\ Stored(item[i].val) = {i} /\ Handed(item[i].val) = {}
         /\ Pinning(item[i].val) = {} /\ Returning(item[i].val) = {}
<1> DEFINE v == item[i].val
<1>1. i \in Items /\ i # None /\ item[i] # None /\ v \in Vals
  BY ItemFacts
<1>2. i \in Stored(v)
  BY <1>1 DEF Stored, InStore, List
<1>3. Cardinality(Stored(v)) # 0
  BY <1>2, OwnersFinite, FS_EmptySet
<1>4. refs[v] = Owners(v)
  BY <1>1 DEF Inv, RefsCount
<1>5. /\ Cardinality(Stored(v)) = 1 /\ Cardinality(Handed(v)) = 0
      /\ Cardinality(Returning(v)) = 0 /\ Cardinality(Pinning(v)) = 0
  BY <1>3, <1>4, OwnersFinite DEF Owners
<1>6. Handed(v) = {} /\ Returning(v) = {} /\ Pinning(v) = {}
  BY <1>5, OwnersFinite, FS_EmptySet
<1>7. Stored(v) = {i}
  <2>1. PICK x : Stored(v) = {x}
    BY <1>5, OwnersFinite, FS_Singleton
  <2> QED BY <2>1, <1>2
<1>8. ASSUME NEW u \in Threads PROVE own[u] # i
  <2>1. CASE Making(u)
    BY <2>1, <1>6 DEF Handed, Inv, ItemsOK
  <2>2. CASE Using(u)
    BY <2>2, <1>6 DEF Returning, Using
  <2> QED BY <2>1, <2>2, <1>1 DEF Inv, LocalsOK
<1>9. ASSUME NEW u \in Threads, prev[u] = i PROVE pc[u] = "space"
  BY <1>1, <1>6, <1>9 DEF Pinning, Inv, LocalsOK, Ensuring
<1> QED BY <1>6, <1>7, <1>8, <1>9

\* A thread between calls works with no item.
LEMMA IdleFacts ==
  ASSUME Inv, NEW t \in Threads, pc[t] = "idle"
  PROVE  own[t] = None /\ prev[t] = None /\ victim[t] = None
  BY DEF Inv, LocalsOK, Making, Inserted, Ensuring, Using

----------------------------------------------------------------------------
(* What the steps that move items do to the list, the table and the threads. *)

\* The other threads are where they were, with what they had.
OthersSame(t) ==
    \A u \in Threads : u # t =>
        /\ own'[u] = own[u] /\ pc'[u] = pc[u] /\ hand'[u] = hand[u]
        /\ prev'[u] = prev[u] /\ victim'[u] = victim[u]
        /\ Making(u)' = Making(u) /\ Inserted(u)' = Inserted(u) /\ Using(u)' = Using(u)

\* Only the item at j is written.
OthersKept(j) == \A x \in Items : x # j => item'[x] = item[x]

\* Where the threads are, in the order a thread goes through it.
LEMMA WhereFacts ==
  \A u \in Threads : /\ Inserted(u) => Making(u)
                     /\ pc[u] = "insert" => Making(u) /\ ~Inserted(u)
                     /\ Making(u) => pc[u] \notin {"idle", "unref", "found", "existing", "removing"}
                     /\ Using(u) <=> pc[u] \in {"found", "existing"}
  BY DEF Making, Inserted, Ensuring, Using

\* The address fz_store_item allocates is in nobody's hands.
StoreCalled(t, i) ==
    /\ item'[i] # None /\ item'[i].val = hand[t] /\ OthersKept(i)
    /\ i \notin List /\ List' = List /\ hashed' = hashed /\ refs' = refs
    /\ \A x \in HashKeys : hashed[x] # i
    /\ \A u \in Threads : own[u] # i /\ victim[u] # i /\ prev[u] # i
    /\ OthersSame(t)
    /\ pc[t] = "idle" /\ pc'[t] = "insert" /\ Making(t)' /\ ~Inserted(t)' /\ ~Using(t)'
    /\ own'[t] = i /\ hand'[t] = hand[t] /\ prev'[t] = prev[t] /\ victim'[t] = victim[t]

\* fz_store_item allocates the item.
LEMMA CallEffect ==
  ASSUME Inv, NEW t \in Threads, NEW k \in Keys, NEW i \in Items, StoreCall(t, k, i)
  PROVE  StoreCalled(t, i)
<1>1. /\ item[i] = None /\ item' = [item EXCEPT ![i] = [key |-> k, val |-> hand[t]]]
      /\ own' = [own EXCEPT ![t] = i] /\ pc' = [pc EXCEPT ![t] = "insert"] /\ pc[t] = "idle"
      /\ UNCHANGED <<lru, hashed, refs, hand, prev, victim, after>>
      /\ hand[t] \in Vals
  BY RestNow DEF StoreCall, At, work, Goto, RestOK
<1>2. /\ i \notin List /\ \A x \in HashKeys : hashed[x] # i
      /\ \A u \in Threads : own[u] # i /\ victim[u] # i
  <2>1. i # None
    BY StoreAssumption
  <2>2. i \notin List /\ \A x \in HashKeys : hashed[x] # i
    BY <1>1, <2>1, ItemFacts
  <2>3. ASSUME NEW u \in Threads PROVE own[u] # i
    BY <1>1, <2>1, ItemFacts
  <2>4. ASSUME NEW u \in Threads PROVE victim[u] # i
    BY <1>1, <2>1 DEF Inv, ItemsOK
  <2> QED BY <2>2, <2>3, <2>4
<1>3. List' = List /\ \A u \in Threads : prev[u] # i
  BY <1>1, <1>2, StoreAssumption DEF List, Inv, ItemsOK
<1>4. item'[i] # None /\ item'[i].val = hand[t] /\ OthersKept(i)
  BY <1>1, RestNow, NoItemAssumption DEF RestOK, OthersKept
<1>5. /\ Making(t)' /\ own'[t] = i /\ pc'[t] = "insert" /\ ~Inserted(t)' /\ ~Using(t)'
      /\ OthersSame(t)
  BY <1>1, RestNow DEF Making, Inserted, Ensuring, Using, RestOK, OthersSame
<1> QED BY <1>1, <1>2, <1>3, <1>4, <1>5 DEF StoreCalled

\* An item that fz_store_item frees for want of memory is in nobody else's hands.
StoreFailed(t) ==
    /\ own[t] \in Items /\ own[t] # None /\ OthersKept(own[t])
    /\ own[t] \notin List /\ List' = List /\ hashed' = hashed /\ refs' = refs
    /\ \A x \in HashKeys : hashed[x] # own[t]
    /\ \A u \in Threads : (u # t => own[u] # own[t]) /\ victim[u] # own[t] /\ prev[u] # own[t]
    /\ OthersSame(t)
    /\ pc[t] = "insert" /\ pc'[t] = "idle" /\ ~Making(t)' /\ ~Inserted(t)' /\ ~Using(t)'
    /\ own'[t] = None /\ hand'[t] = hand[t] /\ prev'[t] = prev[t] /\ victim'[t] = victim[t]

\* fz_store_item frees the item when the table cannot grow.
LEMMA FailEffect ==
  ASSUME Inv, NEW t \in Threads, StoreHashFails(t)
  PROVE  StoreFailed(t)
<1>1. /\ pc[t] = "insert" /\ item' = [item EXCEPT ![own[t]] = None]
      /\ own' = [own EXCEPT ![t] = None] /\ pc' = [pc EXCEPT ![t] = "idle"]
      /\ UNCHANGED <<lru, hashed, refs, hand, prev, victim, after>>
  BY DEF StoreHashFails, At, work, Goto
<1>2. Making(t) /\ own[t] \in Items /\ own[t] # None /\ own[t] \notin List
  BY <1>1, ItemFacts DEF Making, Inv, ItemsOK
<1>3. /\ \A x \in HashKeys : hashed[x] # own[t]
      /\ \A u \in Threads : (u # t => own[u] # own[t]) /\ victim[u] # own[t] /\ prev[u] # own[t]
  BY <1>1, <1>2, ItemFacts DEF Inv, ItemsOK, LocalsOK
<1>4. OthersKept(own[t]) /\ List' = List
  BY <1>1, RestNow DEF RestOK, OthersKept, List
<1>5. /\ ~Making(t)' /\ own'[t] = None /\ pc'[t] = "idle" /\ ~Inserted(t)' /\ ~Using(t)'
      /\ OthersSame(t)
  BY <1>1, RestNow DEF Making, Inserted, Ensuring, Using, RestOK, OthersSame
<1> QED BY <1>1, <1>2, <1>3, <1>4, <1>5 DEF StoreFailed

\* The item fz_store_item made goes, and the one in the table is its caller's.
FoundExisting(t, i) ==
    /\ own[t] \in Items /\ own[t] # None /\ OthersKept(own[t]) /\ own[t] \notin List
    /\ \A u \in Threads : (u # t => own[u] # own[t]) /\ victim[u] # own[t] /\ prev[u] # own[t]
    /\ \A x \in HashKeys : hashed[x] # own[t]
    /\ i \in Items /\ i # None /\ i # own[t] /\ item[i] # None /\ item[i].val \in Vals
    /\ item[i].key \in HashKeys /\ hashed[item[i].key] = i
    /\ \A u \in Threads : victim[u] # i /\ (pc[u] = "insert" => own[u] # i)
    /\ List' = List \cup {i} /\ hashed' = hashed
    /\ refs' = [refs EXCEPT ![item[i].val] = @ + 1]
    /\ OthersSame(t)
    /\ pc[t] = "insert" /\ pc'[t] = "existing" /\ ~Making(t)' /\ ~Inserted(t)' /\ Using(t)'
    /\ own'[t] = i /\ hand'[t] = hand[t] /\ prev'[t] = prev[t] /\ victim'[t] = victim[t]

\* fz_store_item finds the key in the table.
LEMMA ExistingEffect ==
  ASSUME Inv, NEW t \in Threads, StoreExisting(t), NEW i, i = hashed[item[own[t]].key]
  PROVE  FoundExisting(t, i)
<1>1. /\ i # None /\ pc[t] = "insert" /\ item[own[t]].key \in HashKeys
      /\ item' = [item EXCEPT ![own[t]] = None] /\ lru' = Touched(i)
      /\ own' = [own EXCEPT ![t] = i] /\ pc' = [pc EXCEPT ![t] = "existing"]
      /\ UNCHANGED <<hashed, hand, prev, victim, after>>
  BY DEF StoreExisting, At, Goto, work
<1>2. i \in Items /\ item[i] # None /\ item[i].val \in Vals /\ item[i].key = item[own[t]].key
  BY <1>1, ItemFacts
<1>3. refs' = [refs EXCEPT ![item[i].val] = @ + 1]
  BY DEF StoreExisting, At
<1>4. List' = List \cup {i}
  BY <1>1, <1>2, ListNow, TouchedFacts DEF ListOK, List
<1>5. /\ Making(t) /\ own[t] \notin List /\ own[t] # None /\ own[t] \in Items /\ i # own[t]
      /\ \A x \in HashKeys : hashed[x] # own[t]
  BY <1>1, ItemFacts DEF Making, Inv, ItemsOK
<1>6. \A u \in Threads : (u # t => own[u] # own[t]) /\ prev[u] # own[t] /\ victim[u] # own[t]
  BY <1>5, ItemFacts DEF Inv, ItemsOK, LocalsOK
<1>7. \A u \in Threads : victim[u] # i /\ (pc[u] = "insert" => own[u] # i)
  BY <1>1 DEF Inv, ItemsOK
<1>8. OthersKept(own[t])
  BY <1>1, RestNow DEF RestOK, OthersKept
<1>9. /\ ~Making(t)' /\ own'[t] = i /\ pc'[t] = "existing" /\ ~Inserted(t)' /\ Using(t)'
      /\ OthersSame(t)
  BY <1>1, RestNow DEF Making, Inserted, Ensuring, Using, RestOK, OthersSame
<1> QED BY <1>1, <1>2, <1>3, <1>4, <1>5, <1>6, <1>7, <1>8, <1>9 DEF FoundExisting

\* The end of fz_store_item: what was in flight is in the list.
LinkedOwn(t) ==
    /\ own[t] \in Items /\ own[t] # None /\ item[own[t]] # None
    /\ Making(t) /\ Inserted(t) /\ item' = item
    /\ List' = List \cup {own[t]} /\ hashed' = hashed /\ refs' = refs
    /\ OthersSame(t)
    /\ pc[t] = "fit" /\ pc'[t] = "idle" /\ ~Making(t)' /\ ~Inserted(t)' /\ ~Using(t)'
    /\ own'[t] = None /\ hand'[t] = hand[t] /\ prev'[t] = prev[t] /\ victim'[t] = victim[t]
    /\ prev[t] = None

\* fz_store_item links the item, whether it fits or was found meanwhile.
LEMMA LinkEffect ==
  ASSUME Inv, NEW t \in Threads, StoreFits(t) \/ StoreOverBudget(t)
  PROVE  LinkedOwn(t)
<1>1. /\ pc[t] = "fit" /\ own' = [own EXCEPT ![t] = None] /\ pc' = [pc EXCEPT ![t] = "idle"]
      /\ lru' = Touched(own[t])
      /\ UNCHANGED <<item, hashed, refs, hand, prev, victim, after>>
  BY DEF StoreFits, At, StoreOverBudget, LinkOwn, Goto, work
<1>2. Making(t) /\ Inserted(t) /\ own[t] \in Items /\ own[t] # None /\ item[own[t]] # None
  BY <1>1, ItemFacts DEF Making, Inserted
<1>3. List' = List \cup {own[t]}
  BY <1>1, <1>2, ListNow, TouchedFacts DEF ListOK, List
<1>4. /\ ~Making(t)' /\ own'[t] = None /\ pc'[t] = "idle" /\ ~Inserted(t)' /\ ~Using(t)'
      /\ OthersSame(t)
  BY <1>1, RestNow DEF Making, Inserted, Ensuring, Using, RestOK, OthersSame
<1>5. prev[t] = None
  BY <1>1 DEF Inv, LocalsOK, Ensuring
<1> QED BY <1>1, <1>2, <1>3, <1>4, <1>5 DEF LinkedOwn

\* fz_store_item gives up: the item leaves the table and is freed.
GaveUp(t) ==
    /\ own[t] \in Items /\ own[t] # None /\ item[own[t]] # None /\ OthersKept(own[t])
    /\ own[t] \notin List /\ item[own[t]].val = hand[t] /\ hand[t] # None
    /\ Making(t) /\ Inserted(t)
    /\ \A u \in Threads : (u # t => own[u] # own[t]) /\ victim[u] # own[t] /\ prev[u] # own[t]
    /\ \A x \in HashKeys : /\ hashed'[x] # own[t]
                           /\ hashed'[x] = hashed[x] \/ (hashed'[x] = None /\ hashed[x] = own[t])
    /\ List' = List /\ refs' = refs
    /\ OthersSame(t)
    /\ pc[t] = "fit" /\ pc'[t] = "unref" /\ ~Making(t)' /\ ~Inserted(t)' /\ ~Using(t)'
    /\ own'[t] = None /\ hand'[t] = hand[t] /\ prev'[t] = prev[t] /\ victim'[t] = victim[t]
    /\ prev[t] = None

\* fz_store_item gives up.
LEMMA GiveUpEffect ==
  ASSUME Inv, NEW t \in Threads, StoreGivesUp(t)
  PROVE  GaveUp(t)
<1> DEFINE j == own[t]
           k == item[j].key
<1>1. /\ pc[t] = "fit" /\ own' = [own EXCEPT ![t] = None] /\ pc' = [pc EXCEPT ![t] = "unref"]
      /\ item' = [item EXCEPT ![j] = None]
      /\ k \in HashKeys => j \notin List
  BY DEF StoreGivesUp, At, Goto, Linked, List
<1>2. /\ hashed' = IF k \in HashKeys THEN [hashed EXCEPT ![k] = None] ELSE hashed
      /\ UNCHANGED <<lru, refs, hand, prev, victim, after>>
  BY DEF StoreGivesUp, At, work
<1>3. /\ Making(t) /\ Inserted(t) /\ j \in Items /\ j # None /\ j \notin List /\ item[j] # None
      /\ k \in HashKeys => hashed[k] = j
      /\ item[j].val = hand[t] /\ hand[t] # None
  BY <1>1, ItemFacts DEF Making, Inserted, Inv, ItemsOK, LocalsOK
<1> HIDE DEF k, j
<1>4. \A u \in Threads : (u # t => own[u] # j) /\ prev[u] # j /\ victim[u] # j
  BY <1>3, ItemFacts DEF j, Inv, ItemsOK, LocalsOK
<1>5. OthersKept(j)
  BY <1>1, RestNow DEF RestOK, OthersKept
<1>6. /\ ~Making(t)' /\ own'[t] = None /\ pc'[t] = "unref" /\ ~Inserted(t)' /\ ~Using(t)'
      /\ OthersSame(t)
  BY <1>1, <1>2, RestNow DEF Making, Inserted, Ensuring, Using, RestOK, OthersSame
<1>7. \A x \in HashKeys : hashed'[x] = hashed[x] \/ (hashed'[x] = None /\ hashed[x] = j)
  BY <1>2, <1>3, RestNow DEF RestOK
<1>8. \A x \in HashKeys : hashed'[x] # j
  <2>1. \A x \in HashKeys : hashed[x] = j => x = k
    BY <1>3, ItemFacts DEF k
  <2> QED BY <2>1, <1>2, <1>3, RestNow DEF RestOK
<1>9. prev[t] = None /\ List' = List
  BY <1>1, <1>2 DEF Inv, LocalsOK, Ensuring, List
<1> QED BY <1>1, <1>2, <1>3, <1>4, <1>5, <1>6, <1>7, <1>8, <1>9 DEF j, GaveUp

\* fz_find_item: the item found is linked, and its caller's.
Found(t, k, i) ==
    /\ i \in Items /\ i # None /\ item[i] # None /\ item[i].key = k /\ item[i].val \in Vals
    /\ k \in HashKeys => hashed[k] = i
    /\ k \notin HashKeys => i \in List
    /\ \A u \in Threads : /\ victim[u] # i /\ (pc[u] = "insert" => own[u] # i)
                          /\ Inserted(u) /\ item[own[u]].key \notin HashKeys => own[u] # i
    /\ item' = item /\ List' = List \cup {i} /\ hashed' = hashed
    /\ refs' = [refs EXCEPT ![item[i].val] = @ + 1]
    /\ OthersSame(t)
    /\ pc[t] = "idle" /\ pc'[t] = "found" /\ ~Making(t)' /\ ~Inserted(t)' /\ Using(t)'
    /\ own'[t] = i /\ hand'[t] = hand[t] /\ prev'[t] = prev[t] /\ victim'[t] = victim[t]

\* fz_find_item finds an item.
LEMMA FindEffect ==
  ASSUME Inv, NEW t \in Threads, NEW k \in Keys, FindCall(t, k), NEW i, i = Lookup(k)
  PROVE  Found(t, k, i)
<1>1. /\ i # None /\ pc[t] = "idle" /\ pc' = [pc EXCEPT ![t] = "found"]
      /\ own' = [own EXCEPT ![t] = i] /\ lru' = Touched(i)
      /\ UNCHANGED <<item, hashed, hand, prev, victim, after>>
      /\ refs' = [refs EXCEPT ![item[i].val] = @ + 1]
  BY DEF FindCall, At, Goto, work
<1>2. /\ i \in Items /\ item[i] # None /\ item[i].key = k /\ item[i].val \in Vals
      /\ k \in HashKeys => hashed[k] = i
      /\ k \notin HashKeys => i \in List
  BY <1>1, LookupFacts, ItemFacts
<1>3. List' = List \cup {i}
  BY <1>1, <1>2, ListNow, TouchedFacts DEF ListOK, List
<1>4. /\ ~Making(t)' /\ own'[t] = i /\ pc'[t] = "found" /\ ~Inserted(t)' /\ Using(t)'
      /\ OthersSame(t)
  BY <1>1, RestNow DEF Making, Inserted, Ensuring, Using, RestOK, OthersSame
<1>5. \A u \in Threads : /\ victim[u] # i /\ (pc[u] = "insert" => own[u] # i)
                         /\ Inserted(u) /\ item[own[u]].key \notin HashKeys => own[u] # i
  BY <1>1, <1>2 DEF Inv, ItemsOK
<1> QED BY <1>1, <1>2, <1>3, <1>4, <1>5 DEF Found

\* fz_remove_item: the item it takes is in nobody else's hands.
Removed(t, k, i) ==
    /\ i \in Items /\ i # None /\ item[i] # None /\ item[i].key = k /\ item[i].val \in Vals
    /\ k \in HashKeys => hashed[k] = i
    /\ k \notin HashKeys => i \in List
    /\ item' = item /\ List' = List \ {i}
    /\ \A x \in HashKeys : /\ hashed'[x] # i
                           /\ hashed'[x] = hashed[x] \/ (hashed[x] = i /\ hashed'[x] = None)
    /\ refs' = [refs EXCEPT ![item[i].val] = @ - 1]
    /\ \A u \in Threads : own[u] # i /\ prev[u] # i /\ victim[u] # i
    /\ own' = own /\ OthersSame(t)
    /\ pc[t] = "idle" /\ pc'[t] = "removing"
    /\ ~Making(t) /\ ~Inserted(t) /\ ~Using(t) /\ ~Making(t)' /\ ~Inserted(t)' /\ ~Using(t)'
    /\ own[t] = None /\ prev[t] = None
    /\ hand'[t] = hand[t] /\ prev'[t] = prev[t] /\ victim'[t] = i

\* fz_remove_item takes an item away.
LEMMA RemoveEffect ==
  ASSUME Intact', Inv, NEW t \in Threads, NEW k \in Keys, RemoveCall(t, k), NEW i, i = Lookup(k)
  PROVE  Removed(t, k, i)
<1>1. /\ i # None /\ pc[t] = "idle" /\ pc' = [pc EXCEPT ![t] = "removing"]
      /\ victim' = [victim EXCEPT ![t] = i] /\ lru' = Unlink(lru, i)
      /\ hashed' = IF k \in HashKeys THEN [hashed EXCEPT ![k] = None] ELSE hashed
      /\ UNCHANGED <<item, own, hand, prev, after>>
      /\ refs' = [refs EXCEPT ![item[i].val] = @ - 1]
  BY DEF RemoveCall, At, Goto
<1>2. /\ i \in Items /\ item[i] # None /\ item[i].key = k /\ item[i].val \in Vals
      /\ k \in HashKeys => hashed[k] = i
      /\ k \notin HashKeys => i \in List
  BY <1>1, LookupFacts, ItemFacts
<1>3. List' = List \ {i}
  BY <1>1, ListNow, UnlinkFacts DEF ListOK, List
<1>4. own[t] = None /\ prev[t] = None
  BY <1>1, IdleFacts
<1>5. ASSUME NEW u \in Threads PROVE own[u] # i /\ prev[u] # i /\ victim[u] # i
  <2>1. Holders(t, i) = {}
    BY DEF RemoveCall, Intact
  <2>2. victim[u] # i
    BY <1>1, <1>2 DEF Inv, ItemsOK
  <2> QED BY <1>1, <1>4, <2>1, <2>2 DEF Holders
<1>6. /\ ~Making(t) /\ ~Inserted(t) /\ ~Using(t) /\ ~Making(t)' /\ ~Inserted(t)' /\ ~Using(t)'
      /\ OthersSame(t) /\ pc'[t] = "removing" /\ victim'[t] = i
  BY <1>1, RestNow DEF Making, Inserted, Ensuring, Using, RestOK, OthersSame
<1>7. \A x \in HashKeys : /\ hashed'[x] # i
                          /\ hashed'[x] = hashed[x] \/ (hashed[x] = i /\ hashed'[x] = None)
  BY <1>1, <1>2, RestNow, ItemFacts DEF RestOK
<1> QED BY <1>1, <1>2, <1>3, <1>4, <1>5, <1>6, <1>7 DEF Removed

\* The end of evict and of fz_remove_item: what is freed is in nobody's hands.
Freed(t) ==
    /\ victim[t] \in Items /\ victim[t] # None /\ victim[t] \notin List
    /\ OthersKept(victim[t])
    /\ \A x \in HashKeys : hashed[x] # victim[t]
    /\ \A u \in Threads : /\ own[u] # victim[t] /\ prev[u] # victim[t]
                          /\ u # t => victim[u] # victim[t]
    /\ List' = List /\ hashed' = hashed /\ refs' = refs
    /\ own' = own /\ hand' = hand /\ prev' = prev
    /\ victim'[t] = None /\ \A u \in Threads : u # t => victim'[u] = victim[u]
    /\ \A u \in Threads : /\ Making(u)' = Making(u) /\ Inserted(u)' = Inserted(u)
                          /\ Using(u)' = Using(u)
                          /\ pc'[u] = "insert" <=> pc[u] = "insert"
                          /\ pc'[u] = "unref" <=> pc[u] = "unref"
                          /\ prev[u] # None => (pc'[u] = "space" <=> pc[u] = "space")

\* evict and fz_remove_item free what they took.
LEMMA DoneEffect ==
  ASSUME Inv, NEW t \in Threads, EvictDone(t) \/ RemoveDone(t)
  PROVE  Freed(t)
<1>1. /\ item' = [item EXCEPT ![victim[t]] = None] /\ victim' = [victim EXCEPT ![t] = None]
      /\ UNCHANGED <<lru, hashed, refs, own, hand, prev, after>>
  BY DEF EvictDone, At, RemoveDone
<1>2. \/ pc[t] = "evicting" /\ after[t] \in Backs /\ pc' = [pc EXCEPT ![t] = after[t]]
      \/ pc[t] = "removing" /\ pc' = [pc EXCEPT ![t] = "idle"]
  BY DEF EvictDone, At, RemoveDone, Goto, Inv, LocalsOK
<1>3. victim[t] # None /\ victim[t] \in Items
  BY <1>2, RestNow DEF Inv, LocalsOK, RestOK
<1>4. /\ \A u \in Threads : /\ own[u] # victim[t] /\ prev[u] # victim[t]
                            /\ u # t => victim[u] # victim[t]
      /\ \A x \in HashKeys : hashed[x] # victim[t]
      /\ victim[t] \notin List
  BY <1>3 DEF Inv, ItemsOK
<1>5. /\ List' = List /\ OthersKept(victim[t])
      /\ victim'[t] = None /\ \A u \in Threads : u # t => victim'[u] = victim[u]
  BY <1>1, RestNow DEF List, RestOK, OthersKept
<1>6. ASSUME NEW u \in Threads
      PROVE  /\ Making(u)' = Making(u) /\ Inserted(u)' = Inserted(u) /\ Using(u)' = Using(u)
             /\ pc'[u] = "insert" <=> pc[u] = "insert"
             /\ pc'[u] = "unref" <=> pc[u] = "unref"
  BY <1>1, <1>2, RestNow DEF Making, Inserted, Ensuring, Using, RestOK, Backs, ScanSteps
<1>7. ASSUME NEW u \in Threads, prev[u] # None PROVE pc'[u] = "space" <=> pc[u] = "space"
  BY <1>2, <1>7, RestNow DEF Inv, LocalsOK, Ensuring, RestOK, Backs, ScanSteps
<1> QED BY <1>1, <1>3, <1>4, <1>5, <1>6, <1>7 DEF Freed

\* An eviction: what it takes out of the store is in nobody's hands.
Evicted(t, i, pinned) ==
    /\ i \in List /\ i \in Items /\ i # None /\ item[i] # None /\ item[i].val \in Vals
    /\ pinned # None => pinned \in List \ {i} /\ pinned \in Items /\ item[pinned] # None
                        /\ item[pinned].val \in Vals
    /\ \A u \in Threads : own[u] # i /\ victim[u] # i /\ (u # t => prev[u] # i)
    /\ item' = item /\ List' = List \ {i}
    /\ \A x \in HashKeys : /\ hashed'[x] # i
                           /\ hashed'[x] = hashed[x] \/ (hashed[x] = i /\ hashed'[x] = None)
    /\ own' = own /\ hand' = hand
    /\ prev'[t] = pinned /\ victim'[t] = i /\ (prev[t] # None => pc[t] = "space")
    /\ \A u \in Threads : u # t => prev'[u] = prev[u] /\ victim'[u] = victim[u] /\ pc'[u] = pc[u]
    /\ pc[t] \in {"fit", "space", "empty"} \cup ScanSteps /\ pc'[t] = "evicting"
    /\ \A u \in Threads : /\ Making(u)' = Making(u) /\ Inserted(u)' = Inserted(u)
                          /\ Using(u)' = Using(u)
                          /\ pc'[u] = "insert" <=> pc[u] = "insert"
                          /\ Inserted(u) => own[u] # None

\* evict takes an item away.
LEMMA EvictEffect ==
  ASSUME Intact', Inv, NEW t \in Threads, NEW i, NEW pinned, NEW back, Evicting(t, i, pinned, back)
  PROVE  Evicted(t, i, pinned)
<1>1. /\ pc' = [pc EXCEPT ![t] = "evicting"] /\ after' = [after EXCEPT ![t] = back]
      /\ victim' = [victim EXCEPT ![t] = i] /\ prev' = [prev EXCEPT ![t] = pinned]
      /\ lru' = Unlink(lru, i)
      /\ hashed' = IF item[i].key \in HashKeys THEN [hashed EXCEPT ![item[i].key] = None] ELSE hashed
      /\ UNCHANGED <<item, hand, own>>
      /\ \/ pc[t] \in {"fit", "space"} /\ back = "unpin"
         \/ pc[t] \in ScanSteps \cup {"empty"} /\ back = pc[t]
  BY DEF Evicting, EvictItem, Goto
<1>2. /\ i \in List /\ i \in Items /\ i # None /\ item[i] # None /\ item[i].val \in Vals
      /\ pinned # None => pinned \in List \ {i} /\ pinned \in Items /\ item[pinned] # None
                          /\ item[pinned].val \in Vals
  BY EvictingFacts DEF Evicting
<1>3. List' = List \ {i}
  BY <1>1, ListNow, UnlinkFacts DEF ListOK, List
<1>4. \A u \in Threads : own[u] # i /\ victim[u] # i /\ (u # t => prev[u] # i)
  <2>1. \A u \in Threads : victim[u] # i
    BY <1>2 DEF Inv, ItemsOK
  <2>2. CASE refs[item[i].val] = 1
    <3>1. \A u \in Threads : u # t => pc[u] # "space"
      BY <1>1 DEF Inv, LocalsOK, Inside, ScanSteps
    <3> QED BY <2>1, <2>2, <3>1, <1>2, LoneItem
  <2>3. CASE pc[t] = "empty"
    <3>1. own[t] = None /\ prev[t] = None
      BY <2>3 DEF Inv, LocalsOK, Making, Inserted, Ensuring, Using
    <3>2. ASSUME NEW u \in Threads, u # t, refs[item[i].val] # 1 PROVE own[u] # i /\ prev[u] # i
      BY <3>2, <2>3 DEF Evicting, Intact, Holders
    <3> QED BY <2>1, <2>2, <3>1, <3>2, <1>2
  <2> QED BY <2>2, <2>3 DEF Evicting
<1>5. \A x \in HashKeys : /\ hashed'[x] # i
                          /\ hashed'[x] = hashed[x] \/ (hashed[x] = i /\ hashed'[x] = None)
  <2>1. item[i].key \in HashKeys => hashed[item[i].key] = i
    BY EvictingFacts
  <2> QED BY <2>1, <1>1, <1>2, RestNow, ItemFacts DEF RestOK
<1>6. \A u \in Threads : /\ Making(u)' = Making(u) /\ Inserted(u)' = Inserted(u)
                         /\ Using(u)' = Using(u)
                         /\ pc'[u] = "insert" <=> pc[u] = "insert"
  BY <1>1, RestNow DEF Making, Inserted, Ensuring, Using, RestOK, ScanSteps
<1>7. \A u \in Threads : Inserted(u) => own[u] # None
  BY ItemFacts, WhereFacts
<1>8. /\ prev'[t] = pinned /\ victim'[t] = i /\ (prev[t] # None => pc[t] = "space")
      /\ \A u \in Threads : u # t => prev'[u] = prev[u] /\ victim'[u] = victim[u] /\ pc'[u] = pc[u]
      /\ pc[t] \in {"fit", "space", "empty"} \cup ScanSteps /\ pc'[t] = "evicting"
  BY <1>1, RestNow DEF RestOK, ScanSteps, Inv, LocalsOK, Ensuring
<1> QED BY <1>1, <1>2, <1>3, <1>4, <1>5, <1>6, <1>7, <1>8 DEF Evicted


\* What a thread works with stays allocated, and where its step says it is.
LEMMA ItemsStep ==
  ASSUME Intact', Inv, [Next]_vars
  PROVE  ItemsOK'
<1>1. ASSUME NEW t \in Threads, NEW v \in Vals, MakeValue(t, v) PROVE ItemsOK'
  BY <1>1, RestNow, ItemFacts, StoreAssumption DEF MakeValue, At, Free, locals, List, ItemsOK, Making, Inserted, Ensuring, Using, LocalsOK, Inv, RestOK
<1>2. ASSUME NEW t \in Threads, DropValue(t) PROVE ItemsOK'
  BY <1>2, RestNow, ItemFacts, StoreAssumption DEF DropValue, At, Free, locals, List, ItemsOK, Making, Inserted, Ensuring, Using, LocalsOK, Inv, RestOK
<1>3. ASSUME NEW t \in Threads, NEW k \in Keys, NEW i \in Items, StoreCall(t, k, i) PROVE ItemsOK'
  <2>1. StoreCalled(t, i)
    BY <1>3, CallEffect
  <2>2. ItemsOK
    BY DEF Inv
  <2> QED BY <2>1, <2>2, ItemFacts, WhereFacts DEF ItemsOK, OthersSame, OthersKept, StoreCalled
<1>4. ASSUME NEW t \in Threads, StoreHashFails(t) PROVE ItemsOK'
  <2>1. StoreFailed(t)
    BY <1>4, FailEffect
  <2>2. ItemsOK
    BY DEF Inv
  <2> QED BY <2>1, <2>2, ItemFacts, WhereFacts DEF ItemsOK, OthersSame, OthersKept, StoreFailed
<1>5. ASSUME NEW t \in Threads, StoreExisting(t) PROVE ItemsOK'
  <2> DEFINE i == hashed[item[own[t]].key]
  <2>1. FoundExisting(t, i)
    BY <1>5, ExistingEffect
  <2> HIDE DEF i
  <2>2. ItemsOK
    BY DEF Inv
  <2>3. /\ OthersKept(own[t]) /\ OthersSame(t) /\ own[t] \notin List
        /\ \A u \in Threads : (u # t => own[u] # own[t]) /\ victim[u] # own[t] /\ prev[u] # own[t]
        /\ \A x \in HashKeys : hashed[x] # own[t]
        /\ i \in Items /\ i # None /\ i # own[t] /\ item[i] # None
        /\ item[i].key \in HashKeys /\ hashed[item[i].key] = i
        /\ \A u \in Threads : victim[u] # i /\ (pc[u] = "insert" => own[u] # i)
        /\ List' = List \cup {i} /\ hashed' = hashed
        /\ pc[t] = "insert" /\ pc'[t] = "existing" /\ ~Making(t)' /\ ~Inserted(t)' /\ Using(t)'
        /\ own'[t] = i /\ hand'[t] = hand[t] /\ prev'[t] = prev[t] /\ victim'[t] = victim[t]
    BY <2>1 DEF FoundExisting
  <2> QED BY <2>2, <2>3, ItemFacts, WhereFacts DEF ItemsOK, OthersSame, OthersKept
<1>6. ASSUME NEW t \in Threads, StoreReturnExisting(t) PROVE ItemsOK'
  BY <1>6, RestNow, ItemFacts, StoreAssumption DEF StoreReturnExisting, At, work, Goto, Free, List, ItemsOK, Making, Inserted, Ensuring, Using, LocalsOK, Inv, RestOK
<1>7. ASSUME NEW t \in Threads, StoreInsert(t) PROVE ItemsOK'
  BY <1>7, RestNow, ItemFacts, StoreAssumption DEF StoreInsert, At, Goto, Free, List, ItemsOK, Making, Inserted, Ensuring, Using, LocalsOK, Inv, RestOK
<1>8. ASSUME NEW t \in Threads, StoreFits(t) PROVE ItemsOK'
  <2>1. LinkedOwn(t)
    BY <1>8, LinkEffect
  <2>2. ItemsOK
    BY DEF Inv
  <2> QED BY <2>1, <2>2, ItemFacts, WhereFacts DEF ItemsOK, OthersSame, OthersKept, LinkedOwn
<1>9. ASSUME NEW t \in Threads, StoreOverBudget(t) PROVE ItemsOK'
  <2>1. LinkedOwn(t)
    BY <1>9, LinkEffect
  <2>2. ItemsOK
    BY DEF Inv
  <2> QED BY <2>1, <2>2, ItemFacts, WhereFacts DEF ItemsOK, OthersSame, OthersKept, LinkedOwn
<1>10. ASSUME NEW t \in Threads, StoreGivesUp(t) PROVE ItemsOK'
  <2>1. GaveUp(t)
    BY <1>10, GiveUpEffect
  <2>2. ItemsOK
    BY DEF Inv
  <2> QED BY <2>1, <2>2, ItemFacts, WhereFacts DEF ItemsOK, OthersSame, OthersKept, GaveUp
<1>11. ASSUME NEW t \in Threads, StoreUnref(t) PROVE ItemsOK'
  BY <1>11, RestNow, ItemFacts, StoreAssumption DEF StoreUnref, At, locals, Goto, List, ItemsOK, Making, Inserted, Ensuring, Using, LocalsOK, Inv, RestOK
<1>12. ASSUME NEW t \in Threads, SpaceUnpin(t) PROVE ItemsOK'
  BY <1>12, RestNow, ItemFacts, StoreAssumption DEF SpaceUnpin, At, locals, Goto, List, ItemsOK, Making, Inserted, Ensuring, Using, LocalsOK, Inv, RestOK
<1>13. ASSUME NEW t \in Threads, SpaceReturn(t) PROVE ItemsOK'
  BY <1>13, RestNow, ItemFacts, StoreAssumption DEF SpaceReturn, At, shared, Goto, List, ItemsOK, Making, Inserted, Ensuring, Using, LocalsOK, Inv, RestOK
<1>14. ASSUME NEW t \in Threads, NEW k \in Keys, FindCall(t, k) PROVE ItemsOK'
  <2>1. Found(t, k, Lookup(k))
    BY <1>14, FindEffect
  <2>2. ItemsOK
    BY DEF Inv
  <2> QED BY <2>1, <2>2, ItemFacts, WhereFacts DEF ItemsOK, OthersSame, OthersKept, Found
<1>15. ASSUME NEW t \in Threads, FindReturn(t) PROVE ItemsOK'
  BY <1>15, RestNow, ItemFacts, StoreAssumption DEF FindReturn, At, shared, work, Goto, List, ItemsOK, Making, Inserted, Ensuring, Using, LocalsOK, Inv, RestOK
<1>16. ASSUME NEW t \in Threads, NEW k \in Keys, RemoveCall(t, k) PROVE ItemsOK'
  <2>1. Removed(t, k, Lookup(k))
    BY <1>16, RemoveEffect
  <2>2. ItemsOK
    BY DEF Inv
  <2> QED BY <2>1, <2>2, ItemFacts, WhereFacts DEF ItemsOK, OthersSame, OthersKept, Removed
<1>17. ASSUME NEW t \in Threads, RemoveDone(t) PROVE ItemsOK'
  <2>1. Freed(t)
    BY <1>17, DoneEffect
  <2>2. ItemsOK
    BY DEF Inv
  <2> QED BY <2>1, <2>2, ItemFacts, WhereFacts DEF ItemsOK, OthersSame, OthersKept, Freed
<1>18. ASSUME NEW t \in Threads, EvictDone(t) PROVE ItemsOK'
  <2>1. Freed(t)
    BY <1>18, DoneEffect
  <2>2. ItemsOK
    BY DEF Inv
  <2> QED BY <2>1, <2>2, ItemFacts, WhereFacts DEF ItemsOK, OthersSame, OthersKept, Freed
<1>19. ASSUME NEW t \in Threads, EmptyCall(t) PROVE ItemsOK'
  BY <1>19, RestNow, ItemFacts, StoreAssumption DEF EmptyCall, At, locals, Goto, Free, List, ItemsOK, Making, Inserted, Ensuring, Using, LocalsOK, Inv, RestOK
<1>20. ASSUME NEW t \in Threads, EmptyReturn(t) PROVE ItemsOK'
  BY <1>20, RestNow, ItemFacts, StoreAssumption DEF EmptyReturn, At, locals, Goto, List, ItemsOK, Making, Inserted, Ensuring, Using, LocalsOK, Inv, RestOK
<1>21. ASSUME NEW t \in Threads, NEW request \in Requests, MallocCall(t, request) PROVE ItemsOK'
  BY <1>21, RestNow, ItemFacts, StoreAssumption DEF MallocCall, At, Goto, Free, List, ItemsOK, Making, Inserted, Ensuring, Using, LocalsOK, Inv, RestOK
<1>22. ASSUME NEW t \in Threads, ScavengeSkip(t) PROVE ItemsOK'
  BY <1>22, RestNow, ItemFacts, StoreAssumption DEF ScavengeSkip, At, shared, NextPhase, List, ItemsOK, Making, Inserted, Ensuring, Using, LocalsOK, Inv, RestOK
<1>23. ASSUME NEW t \in Threads, ScavengeStart(t) PROVE ItemsOK'
  BY <1>23, RestNow, ItemFacts, StoreAssumption DEF ScavengeStart, At, shared, NextPhase, Goto, List, ItemsOK, Making, Inserted, Ensuring, Using, LocalsOK, Inv, RestOK
<1>24. ASSUME NEW t \in Threads, ScavengeFails(t) PROVE ItemsOK'
  BY <1>24, RestNow, ItemFacts, StoreAssumption DEF ScavengeFails, At, MallocEnds, Goto, List, ItemsOK, Making, Inserted, Ensuring, Using, LocalsOK, Inv, RestOK
<1>25. ASSUME NEW t \in Threads, NEW percent \in Percents, ShrinkCall(t, percent) PROVE ItemsOK'
  BY <1>25, RestNow, ItemFacts, StoreAssumption DEF ShrinkCall, At, Goto, Free, List, ItemsOK, Making, Inserted, Ensuring, Using, LocalsOK, Inv, RestOK
<1>26. ASSUME NEW t \in Threads, MallocRetry(t) PROVE ItemsOK'
  <2>1. /\ pc[t] = "scan_malloc"
        /\ pc' = [pc EXCEPT ![t] = "idle"] \/ pc' = [pc EXCEPT ![t] = "scavenge"]
        /\ UNCHANGED <<item, lru, hashed, hand, own, prev, victim, after>>
    BY <1>26 DEF MallocRetry, At, MallocEnds, Goto
  <2>2. \A u \in Threads : /\ pc'[u] = "insert" <=> pc[u] = "insert"
                           /\ Making(u)' = Making(u) /\ Using(u)' = Using(u)
                           /\ Inserted(u)' = Inserted(u)
    BY <2>1, RestNow DEF Making, Inserted, Ensuring, Using, RestOK
  <2> QED BY <2>1, <2>2 DEF ItemsOK, Inv, List
<1>40. ASSUME NEW t \in Threads, MallocNextPhase(t) PROVE ItemsOK'
  <2>1. /\ pc[t] = "scan_malloc"
        /\ pc' = [pc EXCEPT ![t] = "idle"] \/ pc' = [pc EXCEPT ![t] = "scavenge"]
        /\ UNCHANGED <<item, lru, hashed, hand, own, prev, victim, after>>
    BY <1>40 DEF MallocNextPhase, At, MallocEnds, Goto
  <2>2. \A u \in Threads : /\ pc'[u] = "insert" <=> pc[u] = "insert"
                           /\ Making(u)' = Making(u) /\ Using(u)' = Using(u)
                           /\ Inserted(u)' = Inserted(u)
    BY <2>1, RestNow DEF Making, Inserted, Ensuring, Using, RestOK
  <2> QED BY <2>1, <2>2 DEF ItemsOK, Inv, List
<1>27. ASSUME NEW t \in Threads, ShrinkReturn(t) PROVE ItemsOK'
  BY <1>27, RestNow, ItemFacts, StoreAssumption DEF ShrinkReturn, At, locals, Goto, List, ItemsOK, Making, Inserted, Ensuring, Using, LocalsOK, Inv, RestOK
<1>28. ASSUME NEW t \in Threads, NEW i, NEW pinned, NEW back, Evicting(t, i, pinned, back)
      PROVE  ItemsOK'
  <2>1. /\ i \in List /\ i # None /\ item[i] # None
        /\ pinned # None => pinned \in List \ {i}
        /\ \A u \in Threads : own[u] # i /\ victim[u] # i /\ (u # t => prev[u] # i)
        /\ item' = item /\ List' = List \ {i}
        /\ \A x \in HashKeys : /\ hashed'[x] # i
                               /\ hashed'[x] = hashed[x] \/ (hashed[x] = i /\ hashed'[x] = None)
        /\ own' = own /\ hand' = hand
    BY <1>28, EvictEffect DEF Evicted
  <2>2. /\ prev'[t] = pinned /\ \A u \in Threads : u # t => prev'[u] = prev[u]
        /\ victim'[t] = i /\ \A u \in Threads : u # t => victim'[u] = victim[u]
    BY <1>28, EvictEffect DEF Evicted
  <2>3. \A u \in Threads : /\ Making(u)' = Making(u) /\ Inserted(u)' = Inserted(u)
                           /\ Using(u)' = Using(u)
                           /\ pc'[u] = "insert" <=> pc[u] = "insert"
                           /\ Inserted(u) \/ Making(u) => own[u] # None
    BY <1>28, EvictEffect, ItemFacts DEF Evicted
  <2>4. /\ \A u \in Threads : own'[u] # None => item'[own'[u]] # None
        /\ \A u \in Threads : Making(u)' => item'[own'[u]].val = hand'[u]
        /\ \A u \in Threads : Using(u)' => own'[u] \in List'
        /\ \A u \in Threads : pc'[u] = "insert" =>
              own'[u] \notin List' /\ \A k \in HashKeys : hashed'[k] # own'[u]
        /\ \A u, w \in Threads : u # w /\ Making(u)' /\ Making(w)' => own'[u] # own'[w]
    <3>1. \A u \in Threads : pc[u] = "insert" =>
             own[u] # None /\ \A x \in HashKeys : hashed'[x] # own[u]
      BY <2>1, ItemFacts DEF Inv, ItemsOK, Making
    <3> QED BY <3>1, <2>1, <2>3, ItemFacts DEF ItemsOK, Inv
  <2>5. \A u \in Threads : Inserted(u)' =>
            IF item'[own'[u]].key \in HashKeys THEN hashed'[item'[own'[u]].key] = own'[u]
            ELSE own'[u] \notin List'
    BY <2>1, <2>3 DEF ItemsOK, Inv
  <2>6. /\ \A u \in Threads : prev'[u] # None => prev'[u] \in List'
        /\ \A u \in Threads : victim'[u] # None =>
              item'[victim'[u]] # None /\ victim'[u] \notin List'
              /\ \A k \in HashKeys : hashed'[k] # victim'[u]
        /\ \A u, w \in Threads : victim'[u] # None => own'[w] # victim'[u]
        /\ \A u, w \in Threads : u # w /\ victim'[u] # None => victim'[w] # victim'[u]
    BY <2>1, <2>2 DEF ItemsOK, Inv
  <2> QED BY <2>4, <2>5, <2>6 DEF ItemsOK
<1>29. ASSUME NEW t \in Threads, SpaceStart(t) \/ SpaceMore(t) \/ ScanEvict(t) \/ EmptyEvict(t)
      PROVE  ItemsOK'
  BY <1>29, <1>28, EvictionSteps DEF Inv
<1>30. CASE UNCHANGED vars
  BY <1>30 DEF vars, shared, locals, List, ItemsOK, Making, Inserted, Ensuring, Using, LocalsOK, Inv, RestOK
<1> QED BY <1>1, <1>2, <1>3, <1>4, <1>5, <1>6, <1>7, <1>8, <1>9, <1>10, <1>11, <1>12, <1>13,
        <1>14, <1>15, <1>16, <1>17, <1>18, <1>19, <1>20, <1>21, <1>22, <1>23, <1>24, <1>25,
        <1>26, <1>27, <1>28, <1>29, <1>30, <1>40
        DEF Next, Step, Call, Undefined


----------------------------------------------------------------------------
(* The hash table and the list. *)

\* The items in flight are those of the threads in fz_store_item past the insertion.
LEMMA FlightIs ==
  LocalsOK => /\ \A t \in Threads : Storing(t) <=> Inserted(t)
              /\ \A i : i \in InFlight <=> \E t \in Threads : Inserted(t) /\ own[t] = i
<1>1. ASSUME LocalsOK, NEW t \in Threads PROVE Storing(t) <=> Inserted(t)
  BY <1>1 DEF LocalsOK, Storing, Inserted, Ensuring, Making, Using
<1> QED BY <1>1 DEF InFlight

\* The two halves of TableAndList.
LEMMA HashParts ==
  TableAndList <=>
    /\ \A i \in List : item[i] # None /\ (item[i].key \in HashKeys => hashed[item[i].key] = i)
    /\ \A k \in HashKeys : hashed[k] # None =>
          /\ item[hashed[k]] # None /\ item[hashed[k]].key = k
          /\ hashed[k] \in List \/ \E t \in Threads : Storing(t) /\ own[t] = hashed[k]
  BY DEF TableAndList, List, InFlight

\* The two halves of TableAndList as long as the invariant holds ...
LEMMA HashNow == 
  ASSUME Inv
  PROVE  /\ \A i \in List : item[i] # None /\ (item[i].key \in HashKeys => hashed[item[i].key] = i)
         /\ \A k \in HashKeys : hashed[k] # None =>
             /\ item[hashed[k]] # None /\ item[hashed[k]].key = k
             /\ hashed[k] \in List \/ \E t \in Threads : Inserted(t) /\ own[t] = hashed[k]
  BY HashParts, FlightIs DEF Inv

\* ... and after each step.
LEMMA HashNext ==
  ASSUME LocalsOK',
         \A i \in List' : item'[i] # None /\ (item'[i].key \in HashKeys => hashed'[item'[i].key] = i),
         \A k \in HashKeys : hashed'[k] # None =>
             /\ item'[hashed'[k]] # None /\ item'[hashed'[k]].key = k
             /\ hashed'[k] \in List' \/ \E t \in Threads : Inserted(t)' /\ own'[t] = hashed'[k]
  PROVE  TableAndList'
<1>1. \A t \in Threads : Storing(t)' <=> Inserted(t)'
  <2>1. (\A t \in Threads : Storing(t) <=> Inserted(t))'
    BY FlightIs, PTL
  <2> QED BY <2>1
<1> QED BY <1>1 DEF TableAndList, List, InFlight


\* The hash table and the list go on agreeing.
LEMMA HashStep ==
  ASSUME Intact', Inv, [Next]_vars
  PROVE  TableAndList'
<1>1. ASSUME NEW t \in Threads, NEW v \in Vals, MakeValue(t, v) PROVE TableAndList'
  BY <1>1, RestNow, ItemFacts, HashNow, HashNext, LocalsStep, StoreAssumption DEF MakeValue, At, Free, locals, List, Making, Inserted, Ensuring, Using, RestOK
<1>2. ASSUME NEW t \in Threads, DropValue(t) PROVE TableAndList'
  BY <1>2, RestNow, ItemFacts, HashNow, HashNext, LocalsStep, StoreAssumption DEF DropValue, At, Free, locals, List, Making, Inserted, Ensuring, Using, RestOK
<1>3. ASSUME NEW t \in Threads, NEW k \in Keys, NEW i \in Items, StoreCall(t, k, i) PROVE TableAndList'
  <2>1. StoreCalled(t, i)
    BY <1>3, CallEffect
  <2>2. ItemsOK
    BY DEF Inv
  <2> QED BY <2>1, <2>2, ItemFacts, WhereFacts, HashNow, HashNext, LocalsStep DEF ItemsOK, OthersSame, OthersKept, StoreCalled
<1>4. ASSUME NEW t \in Threads, StoreHashFails(t) PROVE TableAndList'
  <2>1. StoreFailed(t)
    BY <1>4, FailEffect
  <2>2. ItemsOK
    BY DEF Inv
  <2> QED BY <2>1, <2>2, ItemFacts, WhereFacts, HashNow, HashNext, LocalsStep DEF ItemsOK, OthersSame, OthersKept, StoreFailed
<1>5. ASSUME NEW t \in Threads, StoreExisting(t) PROVE TableAndList'
  <2> DEFINE i == hashed[item[own[t]].key]
  <2>1. FoundExisting(t, i)
    BY <1>5, ExistingEffect
  <2> HIDE DEF i
  <2>2. ItemsOK
    BY DEF Inv
  <2>3. /\ OthersKept(own[t]) /\ OthersSame(t) /\ own[t] \notin List
        /\ \A u \in Threads : (u # t => own[u] # own[t]) /\ victim[u] # own[t] /\ prev[u] # own[t]
        /\ \A x \in HashKeys : hashed[x] # own[t]
        /\ i \in Items /\ i # None /\ i # own[t] /\ item[i] # None
        /\ item[i].key \in HashKeys /\ hashed[item[i].key] = i
        /\ \A u \in Threads : victim[u] # i /\ (pc[u] = "insert" => own[u] # i)
        /\ List' = List \cup {i} /\ hashed' = hashed
        /\ pc[t] = "insert" /\ pc'[t] = "existing" /\ ~Making(t)' /\ ~Inserted(t)' /\ Using(t)'
        /\ own'[t] = i /\ hand'[t] = hand[t] /\ prev'[t] = prev[t] /\ victim'[t] = victim[t]
    BY <2>1 DEF FoundExisting
  <2> QED BY <2>2, <2>3, ItemFacts, WhereFacts, HashNow, HashNext, LocalsStep
          DEF ItemsOK, OthersSame, OthersKept
<1>6. ASSUME NEW t \in Threads, StoreReturnExisting(t) PROVE TableAndList'
  BY <1>6, RestNow, ItemFacts, HashNow, HashNext, LocalsStep, StoreAssumption DEF StoreReturnExisting, At, work, Goto, Free, List, Making, Inserted, Ensuring, Using, RestOK
<1>7. ASSUME NEW t \in Threads, StoreInsert(t) PROVE TableAndList'
  BY <1>7, RestNow, ItemFacts, HashNow, HashNext, LocalsStep, StoreAssumption DEF StoreInsert, At, Goto, Free, List, Making, Inserted, Ensuring, Using, RestOK
<1>8. ASSUME NEW t \in Threads, StoreFits(t) PROVE TableAndList'
  <2>1. LinkedOwn(t)
    BY <1>8, LinkEffect
  <2>2. ItemsOK
    BY DEF Inv
  <2> QED BY <2>1, <2>2, ItemFacts, WhereFacts, HashNow, HashNext, LocalsStep DEF ItemsOK, OthersSame, OthersKept, LinkedOwn
<1>9. ASSUME NEW t \in Threads, StoreOverBudget(t) PROVE TableAndList'
  <2>1. LinkedOwn(t)
    BY <1>9, LinkEffect
  <2>2. ItemsOK
    BY DEF Inv
  <2> QED BY <2>1, <2>2, ItemFacts, WhereFacts, HashNow, HashNext, LocalsStep DEF ItemsOK, OthersSame, OthersKept, LinkedOwn
<1>10. ASSUME NEW t \in Threads, StoreGivesUp(t) PROVE TableAndList'
  <2>1. GaveUp(t)
    BY <1>10, GiveUpEffect
  <2>2. ItemsOK
    BY DEF Inv
  <2> QED BY <2>1, <2>2, ItemFacts, WhereFacts, HashNow, HashNext, LocalsStep DEF ItemsOK, OthersSame, OthersKept, GaveUp
<1>11. ASSUME NEW t \in Threads, StoreUnref(t) PROVE TableAndList'
  BY <1>11, RestNow, ItemFacts, HashNow, HashNext, LocalsStep, StoreAssumption DEF StoreUnref, At, locals, Goto, List, Making, Inserted, Ensuring, Using, RestOK
<1>12. ASSUME NEW t \in Threads, SpaceUnpin(t) PROVE TableAndList'
  BY <1>12, RestNow, ItemFacts, HashNow, HashNext, LocalsStep, StoreAssumption DEF SpaceUnpin, At, locals, Goto, List, Making, Inserted, Ensuring, Using, RestOK
<1>13. ASSUME NEW t \in Threads, SpaceReturn(t) PROVE TableAndList'
  BY <1>13, RestNow, ItemFacts, HashNow, HashNext, LocalsStep, StoreAssumption DEF SpaceReturn, At, shared, Goto, List, Making, Inserted, Ensuring, Using, RestOK
<1>14. ASSUME NEW t \in Threads, NEW k \in Keys, FindCall(t, k) PROVE TableAndList'
  <2>1. Found(t, k, Lookup(k))
    BY <1>14, FindEffect
  <2>2. ItemsOK
    BY DEF Inv
  <2> QED BY <2>1, <2>2, ItemFacts, WhereFacts, HashNow, HashNext, LocalsStep DEF ItemsOK, OthersSame, OthersKept, Found
<1>15. ASSUME NEW t \in Threads, FindReturn(t) PROVE TableAndList'
  BY <1>15, RestNow, ItemFacts, HashNow, HashNext, LocalsStep, StoreAssumption DEF FindReturn, At, shared, work, Goto, List, Making, Inserted, Ensuring, Using, RestOK
<1>16. ASSUME NEW t \in Threads, NEW k \in Keys, RemoveCall(t, k) PROVE TableAndList'
  <2>1. Removed(t, k, Lookup(k))
    BY <1>16, RemoveEffect
  <2>2. ItemsOK
    BY DEF Inv
  <2> QED BY <2>1, <2>2, ItemFacts, WhereFacts, HashNow, HashNext, LocalsStep DEF ItemsOK, OthersSame, OthersKept, Removed
<1>17. ASSUME NEW t \in Threads, RemoveDone(t) PROVE TableAndList'
  <2>1. Freed(t)
    BY <1>17, DoneEffect
  <2>2. ItemsOK
    BY DEF Inv
  <2> QED BY <2>1, <2>2, ItemFacts, WhereFacts, HashNow, HashNext, LocalsStep DEF ItemsOK, OthersSame, OthersKept, Freed
<1>18. ASSUME NEW t \in Threads, EvictDone(t) PROVE TableAndList'
  <2>1. Freed(t)
    BY <1>18, DoneEffect
  <2>2. ItemsOK
    BY DEF Inv
  <2> QED BY <2>1, <2>2, ItemFacts, WhereFacts, HashNow, HashNext, LocalsStep DEF ItemsOK, OthersSame, OthersKept, Freed
<1>19. ASSUME NEW t \in Threads, EmptyCall(t) PROVE TableAndList'
  BY <1>19, RestNow, ItemFacts, HashNow, HashNext, LocalsStep, StoreAssumption DEF EmptyCall, At, locals, Goto, Free, List, Making, Inserted, Ensuring, Using, RestOK
<1>20. ASSUME NEW t \in Threads, EmptyReturn(t) PROVE TableAndList'
  <2>1. /\ pc[t] = "empty" /\ pc' = [pc EXCEPT ![t] = "idle"]
        /\ UNCHANGED <<item, lru, hashed, own, after>>
    BY <1>20 DEF EmptyReturn, At, Goto, locals
  <2>2. List' = List /\ \A u \in Threads : Inserted(u)' = Inserted(u)
    BY <2>1, RestNow DEF List, Inserted, Ensuring, RestOK
  <2> QED BY <2>1, <2>2, HashNow, HashNext, LocalsStep
<1>21. ASSUME NEW t \in Threads, NEW request \in Requests, MallocCall(t, request) PROVE TableAndList'
  BY <1>21, RestNow, ItemFacts, HashNow, HashNext, LocalsStep, StoreAssumption DEF MallocCall, At, Goto, Free, List, Making, Inserted, Ensuring, Using, RestOK
<1>22. ASSUME NEW t \in Threads, ScavengeSkip(t) PROVE TableAndList'
  BY <1>22, RestNow, ItemFacts, HashNow, HashNext, LocalsStep, StoreAssumption DEF ScavengeSkip, At, shared, NextPhase, List, Making, Inserted, Ensuring, Using, RestOK
<1>23. ASSUME NEW t \in Threads, ScavengeStart(t) PROVE TableAndList'
  BY <1>23, RestNow, ItemFacts, HashNow, HashNext, LocalsStep, StoreAssumption DEF ScavengeStart, At, shared, NextPhase, Goto, List, Making, Inserted, Ensuring, Using, RestOK
<1>24. ASSUME NEW t \in Threads, ScavengeFails(t) PROVE TableAndList'
  BY <1>24, RestNow, ItemFacts, HashNow, HashNext, LocalsStep, StoreAssumption DEF ScavengeFails, At, MallocEnds, Goto, List, Making, Inserted, Ensuring, Using, RestOK
<1>25. ASSUME NEW t \in Threads, NEW percent \in Percents, ShrinkCall(t, percent) PROVE TableAndList'
  BY <1>25, RestNow, ItemFacts, HashNow, HashNext, LocalsStep, StoreAssumption DEF ShrinkCall, At, Goto, Free, List, Making, Inserted, Ensuring, Using, RestOK
<1>26. ASSUME NEW t \in Threads, MallocRetry(t) PROVE TableAndList'
  BY <1>26, RestNow, ItemFacts, HashNow, HashNext, LocalsStep, StoreAssumption DEF MallocRetry, At, MallocEnds, Goto, List, Making, Inserted, Ensuring, Using, RestOK
<1>40. ASSUME NEW t \in Threads, MallocNextPhase(t) PROVE TableAndList'
  BY <1>40, RestNow, ItemFacts, HashNow, HashNext, LocalsStep, StoreAssumption DEF MallocNextPhase, At, MallocEnds, Goto, List, Making, Inserted, Ensuring, Using, RestOK
<1>27. ASSUME NEW t \in Threads, ShrinkReturn(t) PROVE TableAndList'
  BY <1>27, RestNow, ItemFacts, HashNow, HashNext, LocalsStep, StoreAssumption DEF ShrinkReturn, At, locals, Goto, List, Making, Inserted, Ensuring, Using, RestOK
<1>28. ASSUME NEW t \in Threads, NEW i, NEW pinned, NEW back, Evicting(t, i, pinned, back)
      PROVE  TableAndList'
  <2>1. Evicted(t, i, pinned)
    BY <1>28, EvictEffect
  <2>2. ItemsOK
    BY DEF Inv
  <2> QED BY <2>1, <2>2, ItemFacts, WhereFacts, HashNow, HashNext, LocalsStep DEF ItemsOK, OthersSame, OthersKept, Evicted
<1>29. ASSUME NEW t \in Threads, SpaceStart(t) \/ SpaceMore(t) \/ ScanEvict(t) \/ EmptyEvict(t)
      PROVE  TableAndList'
  BY <1>29, <1>28, EvictionSteps DEF Inv
<1>30. CASE UNCHANGED vars
  BY <1>30, RestNow, HashNow, HashNext, LocalsStep DEF vars, shared, locals, List, Making, Inserted, Ensuring, Using, RestOK
<1> QED BY <1>1, <1>2, <1>3, <1>4, <1>5, <1>6, <1>7, <1>8, <1>9, <1>10, <1>11, <1>12, <1>13,
        <1>14, <1>15, <1>16, <1>17, <1>18, <1>19, <1>20, <1>21, <1>22, <1>23, <1>24, <1>25,
        <1>26, <1>27, <1>28, <1>29, <1>30, <1>40
        DEF Next, Step, Call, Undefined


----------------------------------------------------------------------------
(* The owners of a value, and how a step changes their number. *)
StoreIs == \A i : i \in InStore <=> i \in List \/ \E u \in Threads : Inserted(u) /\ own[u] = i
ReturningAre(v) == Returning(v) = {u \in Threads : Using(u) /\ item[own[u]].val = v}
PinningAre(v) == Pinning(v) = {u \in Threads : prev[u] # None /\ pc[u] # "space" /\ item[prev[u]].val = v}
OwnersAre(v) == StoreIs /\ ReturningAre(v) /\ PinningAre(v)
OwnersKnown == \A v : OwnersAre(v)

\* With the hash table and the list in order, the store refers to what is linked
\* and to what is in flight.
LEMMA OwnersSo == LocalsOK /\ TableAndList => OwnersKnown
<1> SUFFICES ASSUME LocalsOK, TableAndList, NEW v PROVE OwnersAre(v)
  BY DEF OwnersKnown
<1>1. StoreIs
  <2>1. \A i : i \in InFlight <=> \E u \in Threads : Inserted(u) /\ own[u] = i
    BY FlightIs
  <2>2. \A k \in HashKeys : hashed[k] # None => hashed[k] \in List \/ hashed[k] \in InFlight
    BY DEF TableAndList, List
  <2> QED BY <2>1, <2>2 DEF InStore, List, StoreIs
<1>2. PinningAre(v)
  BY DEF PinningAre, Pinning, LocalsOK, Ensuring
<1>3. ReturningAre(v)
  BY DEF ReturningAre, Returning, Using
<1> QED BY <1>1, <1>2, <1>3 DEF OwnersAre

\* So it is as long as the invariant holds ...
LEMMA OwnersNow == ASSUME Inv, NEW v PROVE OwnersAre(v)
  BY OwnersSo DEF Inv, OwnersKnown

\* ... and after each step.
LEMMA OwnersNext ==
  ASSUME Intact', Inv, [Next]_vars, NEW CONSTANT v
  PROVE  OwnersAre(v)'
<1>1. LocalsOK' /\ TableAndList'
  BY LocalsStep, HashStep
<1>2. OwnersKnown'
  BY <1>1, OwnersSo, PTL
<1> QED BY <1>2 DEF OwnersKnown

\* A set gains or loses an element when c holds, and is what it was otherwise.
Joins(S, T, x, c) == IF c THEN x \notin S /\ T = S \cup {x} ELSE T = S
Leaves(S, T, x, c) == IF c THEN x \in S /\ T = S \ {x} ELSE T = S

\* A set that gains an element, if it does, counts one more.
LEMMA JoinsCount ==
  ASSUME NEW S, IsFiniteSet(S), NEW T, NEW x, NEW c \in BOOLEAN, Joins(S, T, x, c)
  PROVE  Cardinality(T) = IF c THEN Cardinality(S) + 1 ELSE Cardinality(S)
<1>1. CASE c
  BY <1>1, FS_AddElement DEF Joins
<1>2. CASE ~c
  BY <1>2 DEF Joins
<1> QED BY <1>1, <1>2

\* A set that loses an element, if it does, counts one less.
LEMMA LeavesCount ==
  ASSUME NEW S, IsFiniteSet(S), NEW T, NEW x, NEW c \in BOOLEAN, Leaves(S, T, x, c)
  PROVE  Cardinality(T) = IF c THEN Cardinality(S) - 1 ELSE Cardinality(S)
<1>1. CASE c
  BY <1>1, FS_RemoveElement DEF Leaves
<1>2. CASE ~c
  BY <1>2 DEF Leaves
<1> QED BY <1>1, <1>2

\* A step that leaves the items and the threads where they are moves no reference.
LEMMA PlainStep ==
  ASSUME Intact', Inv, [Next]_vars,
         UNCHANGED <<refs, item, hand, own, prev>>, List' = List,
         \A u \in Threads : /\ Inserted(u)' = Inserted(u) /\ Using(u)' = Using(u)
                            /\ pc'[u] = "unref" <=> pc[u] = "unref"
                            /\ prev[u] # None => (pc'[u] = "space" <=> pc[u] = "space")
  PROVE  RefsCount'
<1>1. ASSUME NEW v \in Vals
      PROVE  /\ Stored(v)' = Stored(v) /\ Handed(v)' = Handed(v) /\ Returning(v)' = Returning(v)
             /\ Unreffing(v)' = Unreffing(v) /\ Pinning(v)' = Pinning(v)
  <2>1. OwnersAre(v) /\ OwnersAre(v)'
    BY OwnersNow, OwnersNext
  <2>2. Stored(v)' = Stored(v)
    <3>1. InStore' = InStore
      BY <2>1 DEF OwnersAre, StoreIs
    <3> QED BY <3>1 DEF Stored
  <2>3. Handed(v)' = Handed(v) /\ Unreffing(v)' = Unreffing(v)
    BY DEF Handed, Unreffing
  <2>4. Returning(v)' = Returning(v)
    BY <2>1 DEF OwnersAre, ReturningAre
  <2>5. Pinning(v)' = Pinning(v)
    BY <2>1 DEF OwnersAre, PinningAre
  <2> QED BY <2>2, <2>3, <2>4, <2>5
<1> QED BY <1>1 DEF Inv, RefsCount, Owners


\* No step gains or loses an owner of a value without counting it.
LEMMA RefsStep ==
  ASSUME Intact', Inv, [Next]_vars
  PROVE  RefsCount'
<1>1. ASSUME NEW t \in Threads, NEW w \in Vals, MakeValue(t, w) PROVE RefsCount'
  <2>1. /\ hand[t] = None /\ hand'[t] = w /\ w \in Vals /\ None \notin Vals /\ pc[t] = "idle" /\ pc' = pc
        /\ \A u \in Threads : u # t => hand'[u] = hand[u]
        /\ UNCHANGED <<item, own, prev>> /\ List' = List
        /\ \A u \in Threads : Inserted(u)' = Inserted(u) /\ Using(u)' = Using(u)
        /\ refs[w] = 0 /\ refs' = [refs EXCEPT ![w] = 1]
    BY <1>1, RestNow, StoreAssumption DEF MakeValue, At, locals, List, Inserted, Ensuring, Using, RestOK
  <2> SUFFICES ASSUME NEW v \in Vals PROVE refs'[v] = Owners(v)'
    BY DEF RefsCount
  <2>2. OwnersAre(v) /\ OwnersAre(v)'
    BY OwnersNow, OwnersNext
  <2>3. Stored(v)' = Stored(v)
    <3>1. InStore' = InStore
      BY <2>1, <2>2 DEF OwnersAre, StoreIs, OthersSame
    <3> QED BY <2>1, <3>1 DEF Stored
  <2>4. Joins(Handed(v), Handed(v)', t, v = w)
    BY <2>1 DEF OthersSame, OthersKept, Handed, Joins
  <2>5. Returning(v)' = Returning(v)
    BY <2>1, <2>2 DEF OthersSame, OthersKept, OwnersAre, ReturningAre
  <2>6. Unreffing(v)' = Unreffing(v)
    BY <2>1 DEF OthersSame, OthersKept, Unreffing
  <2>7. Pinning(v)' = Pinning(v)
    BY <2>1, <2>2 DEF OthersSame, OthersKept, OwnersAre, PinningAre
  <2>8. Cardinality(Handed(v)') = IF v = w THEN Cardinality(Handed(v)) + 1 ELSE Cardinality(Handed(v))
    BY <2>4, OwnersFinite, JoinsCount
  <2>9. refs'[v] = IF v = w THEN refs[v] + 1 ELSE refs[v]
    BY <2>1, RestNow DEF RestOK
  <2>10. refs[v] = Owners(v)
    BY DEF Inv, RefsCount
  <2> QED BY <2>9, <2>10, <2>3, <2>4, <2>5, <2>6, <2>7, <2>8, OwnersFinite DEF Owners
<1>2. ASSUME NEW t \in Threads, DropValue(t) PROVE RefsCount'
  <2>1. /\ hand[t] \in Vals /\ hand'[t] = None /\ None \notin Vals /\ pc[t] = "idle" /\ pc' = pc
        /\ \A u \in Threads : u # t => hand'[u] = hand[u]
        /\ UNCHANGED <<item, own, prev>> /\ List' = List
        /\ \A u \in Threads : Inserted(u)' = Inserted(u) /\ Using(u)' = Using(u)
        /\ refs' = [refs EXCEPT ![hand[t]] = @ - 1]
    BY <1>2, RestNow, StoreAssumption DEF DropValue, At, locals, List, Inserted, Ensuring, Using, RestOK
  <2> SUFFICES ASSUME NEW v \in Vals PROVE refs'[v] = Owners(v)'
    BY DEF RefsCount
  <2>2. OwnersAre(v) /\ OwnersAre(v)'
    BY OwnersNow, OwnersNext
  <2>3. Stored(v)' = Stored(v)
    <3>1. InStore' = InStore
      BY <2>1, <2>2 DEF OwnersAre, StoreIs, OthersSame
    <3> QED BY <2>1, <3>1 DEF Stored
  <2>4. Leaves(Handed(v), Handed(v)', t, v = hand[t])
    BY <2>1 DEF OthersSame, OthersKept, Handed, Leaves
  <2>5. Returning(v)' = Returning(v)
    BY <2>1, <2>2 DEF OthersSame, OthersKept, OwnersAre, ReturningAre
  <2>6. Unreffing(v)' = Unreffing(v)
    BY <2>1 DEF OthersSame, OthersKept, Unreffing
  <2>7. Pinning(v)' = Pinning(v)
    BY <2>1, <2>2 DEF OthersSame, OthersKept, OwnersAre, PinningAre
  <2>8. Cardinality(Handed(v)') = IF v = hand[t] THEN Cardinality(Handed(v)) - 1 ELSE Cardinality(Handed(v))
    BY <2>4, OwnersFinite, LeavesCount
  <2>9. refs'[v] = IF v = hand[t] THEN refs[v] - 1 ELSE refs[v]
    BY <2>1, RestNow DEF RestOK
  <2>10. refs[v] = Owners(v)
    BY DEF Inv, RefsCount
  <2> QED BY <2>9, <2>10, <2>3, <2>4, <2>5, <2>6, <2>7, <2>8, OwnersFinite DEF Owners
<1>3. ASSUME NEW t \in Threads, NEW k \in Keys, NEW i \in Items, StoreCall(t, k, i) PROVE RefsCount'
  <2>1. StoreCalled(t, i)
    BY <1>3, CallEffect
  <2> SUFFICES ASSUME NEW v \in Vals PROVE refs'[v] = Owners(v)'
    BY DEF RefsCount
  <2>2. OwnersAre(v) /\ OwnersAre(v)'
    BY OwnersNow, OwnersNext
  <2>3. Stored(v)' = Stored(v)
    <3>1. InStore' = InStore
      <4>1. StoreIs /\ StoreIs'
        BY <2>2 DEF OwnersAre
      <4>2. List' = List /\ ~Inserted(t) /\ ~Inserted(t)'
        BY <2>1, <4>1, WhereFacts DEF StoreCalled
      <4>3. \A u \in Threads : u # t => own'[u] = own[u] /\ Inserted(u)' = Inserted(u)
        BY <2>1 DEF StoreCalled, OthersSame
      <4> QED BY <4>1, <4>2, <4>3 DEF StoreIs
    <3>2. i \notin InStore'
      BY <2>1, <2>2, ItemFacts, WhereFacts DEF OwnersAre, StoreIs, OthersSame, StoreCalled
    <3>3. InStore \subseteq Items
      BY <2>2, ItemFacts, WhereFacts DEF OwnersAre, StoreIs
    <3>4. \A x \in InStore' : item'[x] = item[x]
      BY <2>1, <3>1, <3>2, <3>3 DEF OthersKept, StoreCalled
    <3> QED BY <3>1, <3>4 DEF Stored
  <2>4. Handed(v)' = Handed(v)
    BY <2>1, WhereFacts DEF OthersSame, OthersKept, Handed, StoreCalled
  <2>5. Returning(v)' = Returning(v)
    BY <2>1, <2>2, ItemFacts, WhereFacts DEF OthersSame, OthersKept, OwnersAre, ReturningAre, StoreCalled
  <2>6. Unreffing(v)' = Unreffing(v)
    BY <2>1, WhereFacts DEF OthersSame, OthersKept, Unreffing, StoreCalled
  <2>7. Pinning(v)' = Pinning(v)
    BY <2>1, <2>2, ItemFacts DEF OthersSame, OthersKept, OwnersAre, PinningAre, StoreCalled
  <2>8. refs' = refs
    BY <2>1, RestNow DEF StoreCalled
  <2>9. refs[v] = Owners(v)
    BY DEF Inv, RefsCount
  <2> QED BY <2>8, <2>9, <2>3, <2>4, <2>5, <2>6, <2>7, OwnersFinite DEF Owners
<1>4. ASSUME NEW t \in Threads, StoreHashFails(t) PROVE RefsCount'
  <2>1. StoreFailed(t)
    BY <1>4, FailEffect
  <2> SUFFICES ASSUME NEW v \in Vals PROVE refs'[v] = Owners(v)'
    BY DEF RefsCount
  <2>2. OwnersAre(v) /\ OwnersAre(v)'
    BY OwnersNow, OwnersNext
  <2>3. Stored(v)' = Stored(v)
    <3>1. InStore' = InStore
      <4>1. StoreIs /\ StoreIs'
        BY <2>2 DEF OwnersAre
      <4>2. List' = List /\ ~Inserted(t) /\ ~Inserted(t)'
        BY <2>1, <4>1, WhereFacts DEF StoreFailed
      <4>3. \A u \in Threads : u # t => own'[u] = own[u] /\ Inserted(u)' = Inserted(u)
        BY <2>1 DEF StoreFailed, OthersSame
      <4> QED BY <4>1, <4>2, <4>3 DEF StoreIs
    <3>2. own[t] \notin InStore'
      BY <2>1, <2>2, ItemFacts, WhereFacts DEF OwnersAre, StoreIs, OthersSame, StoreFailed
    <3>3. InStore \subseteq Items
      BY <2>2, ItemFacts, WhereFacts DEF OwnersAre, StoreIs
    <3>4. \A x \in InStore' : item'[x] = item[x]
      BY <2>1, <3>1, <3>2, <3>3 DEF OthersKept, StoreFailed
    <3> QED BY <3>1, <3>4 DEF Stored
  <2>4. Handed(v)' = Handed(v)
    BY <2>1, WhereFacts DEF OthersSame, OthersKept, Handed, StoreFailed
  <2>5. Returning(v)' = Returning(v)
    BY <2>1, <2>2, ItemFacts, WhereFacts DEF OthersSame, OthersKept, OwnersAre, ReturningAre, StoreFailed
  <2>6. Unreffing(v)' = Unreffing(v)
    BY <2>1, WhereFacts DEF OthersSame, OthersKept, Unreffing, StoreFailed
  <2>7. Pinning(v)' = Pinning(v)
    BY <2>1, <2>2, ItemFacts DEF OthersSame, OthersKept, OwnersAre, PinningAre, StoreFailed
  <2>8. refs' = refs
    BY <2>1, RestNow DEF StoreFailed
  <2>9. refs[v] = Owners(v)
    BY DEF Inv, RefsCount
  <2> QED BY <2>8, <2>9, <2>3, <2>4, <2>5, <2>6, <2>7, OwnersFinite DEF Owners
<1>5. ASSUME NEW t \in Threads, StoreExisting(t) PROVE RefsCount'
  <2> DEFINE i == hashed[item[own[t]].key]
  <2>1. FoundExisting(t, i)
    BY <1>5, ExistingEffect
  <2> HIDE DEF i
  <2> SUFFICES ASSUME NEW v \in Vals PROVE refs'[v] = Owners(v)'
    BY DEF RefsCount
  <2>2. OwnersAre(v) /\ OwnersAre(v)'
    BY OwnersNow, OwnersNext
  <2>3. Stored(v)' = Stored(v)
    <3>1. InStore' = InStore
      <4>1. StoreIs /\ StoreIs'
        BY <2>2 DEF OwnersAre
      <4>2. List' = List \cup {i} /\ i \in InStore /\ ~Inserted(t) /\ ~Inserted(t)'
        BY <2>1, <4>1, WhereFacts, HashNow DEF FoundExisting, StoreIs
      <4>3. \A u \in Threads : u # t => own'[u] = own[u] /\ Inserted(u)' = Inserted(u)
        BY <2>1 DEF FoundExisting, OthersSame
      <4> QED BY <4>1, <4>2, <4>3 DEF StoreIs
    <3>2. own[t] \notin InStore'
      BY <2>1, <2>2, ItemFacts, WhereFacts, HashNow DEF OwnersAre, StoreIs, OthersSame, FoundExisting
    <3>3. InStore \subseteq Items
      BY <2>2, ItemFacts, WhereFacts DEF OwnersAre, StoreIs
    <3>4. \A x \in InStore' : item'[x] = item[x]
      BY <2>1, <3>1, <3>2, <3>3 DEF OthersKept, FoundExisting
    <3> QED BY <3>1, <3>4 DEF Stored
  <2>4. Handed(v)' = Handed(v)
    BY <2>1, WhereFacts DEF OthersSame, OthersKept, Handed, FoundExisting
  <2>5. Joins(Returning(v), Returning(v)', t, v = item[i].val)
    BY <2>1, <2>2, ItemFacts, WhereFacts DEF OthersSame, OthersKept, OwnersAre, ReturningAre, FoundExisting, Joins
  <2>6. Unreffing(v)' = Unreffing(v)
    BY <2>1, WhereFacts DEF OthersSame, OthersKept, Unreffing, FoundExisting
  <2>7. Pinning(v)' = Pinning(v)
    BY <2>1, <2>2, ItemFacts DEF OthersSame, OthersKept, OwnersAre, PinningAre, FoundExisting
  <2>8. Cardinality(Returning(v)') = IF v = item[i].val THEN Cardinality(Returning(v)) + 1 ELSE Cardinality(Returning(v))
    BY <2>5, OwnersFinite, JoinsCount
  <2>9. refs'[v] = IF v = item[i].val THEN refs[v] + 1 ELSE refs[v]
    BY <2>1, RestNow DEF RestOK, FoundExisting
  <2>10. refs[v] = Owners(v)
    BY DEF Inv, RefsCount
  <2> QED BY <2>9, <2>10, <2>3, <2>4, <2>5, <2>6, <2>7, <2>8, OwnersFinite DEF Owners
<1>6. ASSUME NEW t \in Threads, StoreReturnExisting(t) PROVE RefsCount'
  <2>1. /\ pc[t] = "existing" /\ pc'[t] = "idle" /\ prev' = prev /\ prev[t] = None /\ hand[t] \in Vals
        /\ own[t] # None /\ item[own[t]].val \in Vals
        /\ own'[t] = None /\ hand'[t] = item[own[t]].val
        /\ \A u \in Threads : u # t => pc'[u] = pc[u] /\ own'[u] = own[u] /\ hand'[u] = hand[u]
        /\ \A u \in Threads : Inserted(u)' = Inserted(u) /\ (Inserted(u) => u # t)
        /\ Using(t) /\ ~Using(t)' /\ \A u \in Threads : u # t => Using(u)' = Using(u)
        /\ UNCHANGED item /\ List' = List
        /\ refs' = [refs EXCEPT ![hand[t]] = @ - 1]
    <3>1. /\ pc[t] = "existing" /\ pc' = [pc EXCEPT ![t] = "idle"] /\ own' = [own EXCEPT ![t] = None]
          /\ hand' = [hand EXCEPT ![t] = item[own[t]].val]
          /\ UNCHANGED <<item, prev, lru, after>> /\ refs' = [refs EXCEPT ![hand[t]] = @ - 1]
      BY <1>6 DEF StoreReturnExisting, At, Goto, work
    <3>2. Using(t) /\ hand[t] \in Vals /\ prev[t] = None
      BY <3>1, RestNow DEF Inv, LocalsOK, Using, Ensuring, RestOK
    <3>3. own[t] # None /\ item[own[t]].val \in Vals
      BY <3>2, ItemFacts
    <3>4. /\ \A u \in Threads : Inserted(u)' = Inserted(u) /\ (Inserted(u) => u # t)
          /\ ~Using(t)' /\ \A u \in Threads : u # t => Using(u)' = Using(u)
      BY <3>1, RestNow DEF Inserted, Ensuring, Using, RestOK
    <3> QED BY <3>1, <3>2, <3>3, <3>4, RestNow DEF List, RestOK
  <2> SUFFICES ASSUME NEW v \in Vals PROVE refs'[v] = Owners(v)'
    BY DEF RefsCount
  <2>2. OwnersAre(v) /\ OwnersAre(v)'
    BY OwnersNow, OwnersNext
  <2>3. Stored(v)' = Stored(v)
    <3>1. /\ \A i : i \in InStore <=> i \in List \/ \E u \in Threads : Inserted(u) /\ own[u] = i
          /\ \A i : i \in InStore' <=> i \in List' \/ \E u \in Threads : Inserted(u)' /\ own'[u] = i
      BY <2>2 DEF OwnersAre, StoreIs
    <3>2. /\ List' = List
          /\ \A u \in Threads : Inserted(u)' = Inserted(u)
          /\ \A u \in Threads : Inserted(u) => own'[u] = own[u]
      BY <2>1
    <3>3. \A i : i \in InStore' <=> i \in InStore
      BY ONLY <3>1, <3>2
    <3>4. InStore' = InStore
      BY ONLY <3>3
    <3> QED BY <2>1, <3>4 DEF Stored
  <2>4. Cardinality(Handed(v)') = Cardinality(Handed(v))
            + (IF v = item[own[t]].val THEN 1 ELSE 0) - (IF v = hand[t] THEN 1 ELSE 0)
    <3>1. CASE v = hand[t] /\ v = item[own[t]].val
      <4>1. Handed(v)' = Handed(v)
        BY <3>1, <2>1 DEF Handed
      <4> QED BY <3>1, <4>1, OwnersFinite
    <3>2. CASE v # hand[t]
      <4>1. Joins(Handed(v), Handed(v)', t, v = item[own[t]].val)
        BY <3>2, <2>1 DEF Handed, Joins
      <4>2. Cardinality(Handed(v)') = IF v = item[own[t]].val THEN Cardinality(Handed(v)) + 1
                                      ELSE Cardinality(Handed(v))
        BY <4>1, OwnersFinite, JoinsCount
      <4> QED BY <3>2, <4>2, OwnersFinite
    <3>3. CASE v = hand[t] /\ v # item[own[t]].val
      <4>1. Leaves(Handed(v), Handed(v)', t, v = hand[t])
        BY <3>3, <2>1 DEF Handed, Leaves
      <4>2. Cardinality(Handed(v)') = Cardinality(Handed(v)) - 1
        BY <3>3, <4>1, OwnersFinite, LeavesCount
      <4> QED BY <3>3, <4>2, OwnersFinite
    <3> QED BY <3>1, <3>2, <3>3
  <2>5. Leaves(Returning(v), Returning(v)', t, v = item[own[t]].val)
    BY <2>1, <2>2 DEF OthersSame, OthersKept, OwnersAre, ReturningAre, Leaves
  <2>6. Unreffing(v)' = Unreffing(v)
    BY <2>1 DEF OthersSame, OthersKept, Unreffing
  <2>7. Pinning(v)' = Pinning(v)
    BY <2>1, <2>2 DEF OthersSame, OthersKept, OwnersAre, PinningAre
  <2>8. Cardinality(Returning(v)') = IF v = item[own[t]].val THEN Cardinality(Returning(v)) - 1 ELSE Cardinality(Returning(v))
    BY <2>5, OwnersFinite, LeavesCount
  <2>9. refs'[v] = IF v = hand[t] THEN refs[v] - 1 ELSE refs[v]
    BY <2>1, RestNow DEF RestOK
  <2>10. refs[v] = Owners(v)
    BY DEF Inv, RefsCount
  <2> QED BY <2>9, <2>10, <2>3, <2>4, <2>5, <2>6, <2>7, <2>8, OwnersFinite DEF Owners
<1>7. ASSUME NEW t \in Threads, StoreInsert(t) PROVE RefsCount'
  <2>1. /\ pc[t] = "insert" /\ pc'[t] = "fit" /\ prev' = prev
        /\ own[t] \in Items /\ own[t] # None /\ item[own[t]] # None /\ item[own[t]].val \in Vals
        /\ \A u \in Threads : u # t => pc'[u] = pc[u] /\ Inserted(u)' = Inserted(u)
        /\ ~Inserted(t) /\ Inserted(t)' /\ own[t] \notin List
        /\ \A u \in Threads : Inserted(u) => own[u] # own[t]
        /\ prev[t] = None
        /\ UNCHANGED <<item, own, hand>> /\ List' = List
        /\ \A u \in Threads : Using(u)' = Using(u)
        /\ refs' = [refs EXCEPT ![item[own[t]].val] = @ + 1]
    <3>1. pc[t] = "insert" /\ pc' = [pc EXCEPT ![t] = "fit"] /\ UNCHANGED <<item, own, hand, prev, lru, after>>
      BY <1>7 DEF StoreInsert, At, Goto
    <3>2. refs' = [refs EXCEPT ![item[own[t]].val] = @ + 1]
      BY <1>7 DEF StoreInsert, At
    <3>3. \A u \in Threads : Using(u)' = Using(u) /\ (u # t => pc'[u] = pc[u] /\ Inserted(u)' = Inserted(u))
      BY <3>1, RestNow DEF Inserted, Ensuring, Using, RestOK
    <3>4. pc'[t] = "fit" /\ ~Inserted(t) /\ Inserted(t)' /\ Making(t) /\ prev[t] = None
      BY <3>1, RestNow DEF Inserted, Ensuring, Making, RestOK, Inv, LocalsOK
    <3>5. \A u \in Threads : Inserted(u) => own[u] # own[t]
      BY <3>4, WhereFacts DEF Inv, ItemsOK
    <3> QED BY <3>1, <3>2, <3>3, <3>4, <3>5, ItemFacts DEF List, Inv, ItemsOK
  <2> SUFFICES ASSUME NEW v \in Vals PROVE refs'[v] = Owners(v)'
    BY DEF RefsCount
  <2>2. OwnersAre(v) /\ OwnersAre(v)'
    BY OwnersNow, OwnersNext
  <2>3. Joins(Stored(v), Stored(v)', own[t], v = item[own[t]].val)
    <3>1. own[t] \notin InStore /\ InStore' = InStore \cup {own[t]}
      BY <2>1, <2>2 DEF OwnersAre, StoreIs, OthersSame
    <3> QED BY <2>1, <3>1 DEF Stored, Joins
  <2>4. Handed(v)' = Handed(v)
    BY <2>1 DEF OthersSame, OthersKept, Handed
  <2>5. Returning(v)' = Returning(v)
    BY <2>1, <2>2 DEF OthersSame, OthersKept, OwnersAre, ReturningAre
  <2>6. Unreffing(v)' = Unreffing(v)
    BY <2>1 DEF OthersSame, OthersKept, Unreffing
  <2>7. Pinning(v)' = Pinning(v)
    BY <2>1, <2>2 DEF OthersSame, OthersKept, OwnersAre, PinningAre
  <2>8. Cardinality(Stored(v)') = IF v = item[own[t]].val THEN Cardinality(Stored(v)) + 1 ELSE Cardinality(Stored(v))
    BY <2>3, OwnersFinite, JoinsCount
  <2>9. refs'[v] = IF v = item[own[t]].val THEN refs[v] + 1 ELSE refs[v]
    BY <2>1, RestNow DEF RestOK
  <2>10. refs[v] = Owners(v)
    BY DEF Inv, RefsCount
  <2> QED BY <2>9, <2>10, <2>3, <2>4, <2>5, <2>6, <2>7, <2>8, OwnersFinite DEF Owners
<1>8. ASSUME NEW t \in Threads, StoreFits(t) PROVE RefsCount'
  <2>1. LinkedOwn(t)
    BY <1>8, LinkEffect
  <2> SUFFICES ASSUME NEW v \in Vals PROVE refs'[v] = Owners(v)'
    BY DEF RefsCount
  <2>2. OwnersAre(v) /\ OwnersAre(v)'
    BY OwnersNow, OwnersNext
  <2>3. Stored(v)' = Stored(v)
    <3>1. InStore' = InStore
      <4>1. StoreIs /\ StoreIs'
        BY <2>2 DEF OwnersAre
      <4>2. List' = List \cup {own[t]} /\ Inserted(t) /\ ~Inserted(t)'
        BY <2>1, <4>1, WhereFacts DEF LinkedOwn
      <4>3. \A u \in Threads : u # t => own'[u] = own[u] /\ Inserted(u)' = Inserted(u)
        BY <2>1 DEF LinkedOwn, OthersSame
      <4> QED BY <4>1, <4>2, <4>3 DEF StoreIs
    <3> QED BY <2>1, <3>1 DEF Stored, LinkedOwn
  <2>4. Handed(v)' = Handed(v)
    BY <2>1, WhereFacts DEF OthersSame, Handed, LinkedOwn
  <2>5. Returning(v)' = Returning(v)
    BY <2>1, <2>2, ItemFacts, WhereFacts DEF OthersSame, OwnersAre, ReturningAre, LinkedOwn
  <2>6. Unreffing(v)' = Unreffing(v)
    BY <2>1, WhereFacts DEF OthersSame, Unreffing, LinkedOwn
  <2>7. Pinning(v)' = Pinning(v)
    BY <2>1, <2>2, ItemFacts DEF OthersSame, OwnersAre, PinningAre, LinkedOwn
  <2>8. refs' = refs
    BY <2>1, RestNow DEF LinkedOwn
  <2>9. refs[v] = Owners(v)
    BY DEF Inv, RefsCount
  <2> QED BY <2>8, <2>9, <2>3, <2>4, <2>5, <2>6, <2>7, OwnersFinite DEF Owners
<1>9. ASSUME NEW t \in Threads, StoreOverBudget(t) PROVE RefsCount'
  <2>1. LinkedOwn(t)
    BY <1>9, LinkEffect
  <2> SUFFICES ASSUME NEW v \in Vals PROVE refs'[v] = Owners(v)'
    BY DEF RefsCount
  <2>2. OwnersAre(v) /\ OwnersAre(v)'
    BY OwnersNow, OwnersNext
  <2>3. Stored(v)' = Stored(v)
    <3>1. InStore' = InStore
      <4>1. StoreIs /\ StoreIs'
        BY <2>2 DEF OwnersAre
      <4>2. List' = List \cup {own[t]} /\ Inserted(t) /\ ~Inserted(t)'
        BY <2>1, <4>1, WhereFacts DEF LinkedOwn
      <4>3. \A u \in Threads : u # t => own'[u] = own[u] /\ Inserted(u)' = Inserted(u)
        BY <2>1 DEF LinkedOwn, OthersSame
      <4> QED BY <4>1, <4>2, <4>3 DEF StoreIs
    <3> QED BY <2>1, <3>1 DEF Stored, LinkedOwn
  <2>4. Handed(v)' = Handed(v)
    BY <2>1, WhereFacts DEF OthersSame, Handed, LinkedOwn
  <2>5. Returning(v)' = Returning(v)
    BY <2>1, <2>2, ItemFacts, WhereFacts DEF OthersSame, OwnersAre, ReturningAre, LinkedOwn
  <2>6. Unreffing(v)' = Unreffing(v)
    BY <2>1, WhereFacts DEF OthersSame, Unreffing, LinkedOwn
  <2>7. Pinning(v)' = Pinning(v)
    BY <2>1, <2>2, ItemFacts DEF OthersSame, OwnersAre, PinningAre, LinkedOwn
  <2>8. refs' = refs
    BY <2>1, RestNow DEF LinkedOwn
  <2>9. refs[v] = Owners(v)
    BY DEF Inv, RefsCount
  <2> QED BY <2>8, <2>9, <2>3, <2>4, <2>5, <2>6, <2>7, OwnersFinite DEF Owners
<1>10. ASSUME NEW t \in Threads, StoreGivesUp(t) PROVE RefsCount'
  <2>1. GaveUp(t)
    BY <1>10, GiveUpEffect
  <2> SUFFICES ASSUME NEW v \in Vals PROVE refs'[v] = Owners(v)'
    BY DEF RefsCount
  <2>2. OwnersAre(v) /\ OwnersAre(v)'
    BY OwnersNow, OwnersNext
  <2>3. Leaves(Stored(v), Stored(v)', own[t], v = hand[t])
    <3>1. own[t] \in InStore /\ InStore' = InStore \ {own[t]}
      BY <2>1, <2>2, ItemFacts, WhereFacts DEF OwnersAre, StoreIs, OthersSame, GaveUp
    <3>2. own[t] \notin InStore'
      BY <2>1, <2>2, ItemFacts, WhereFacts DEF OwnersAre, StoreIs, OthersSame, GaveUp
    <3>3. InStore \subseteq Items
      BY <2>2, ItemFacts, WhereFacts DEF OwnersAre, StoreIs
    <3>4. \A x \in InStore' : item'[x] = item[x]
      BY <2>1, <3>1, <3>2, <3>3 DEF OthersKept, GaveUp
    <3>5. item[own[t]] # None /\ item[own[t]].val = hand[t]
      BY <2>1 DEF GaveUp
    <3> QED BY <3>1, <3>4, <3>5 DEF Stored, Leaves
  <2>4. Handed(v)' = Handed(v)
    BY <2>1, WhereFacts DEF OthersSame, OthersKept, Handed, GaveUp
  <2>5. Returning(v)' = Returning(v)
    BY <2>1, <2>2, ItemFacts, WhereFacts DEF OthersSame, OthersKept, OwnersAre, ReturningAre, GaveUp
  <2>6. Joins(Unreffing(v), Unreffing(v)', t, v = hand[t])
    BY <2>1, WhereFacts DEF OthersSame, OthersKept, Unreffing, GaveUp, Joins
  <2>7. Pinning(v)' = Pinning(v)
    BY <2>1, <2>2, ItemFacts DEF OthersSame, OthersKept, OwnersAre, PinningAre, GaveUp
  <2>8. Cardinality(Stored(v)') = IF v = hand[t] THEN Cardinality(Stored(v)) - 1 ELSE Cardinality(Stored(v))
    BY <2>3, OwnersFinite, LeavesCount
  <2>9. Cardinality(Unreffing(v)') = IF v = hand[t] THEN Cardinality(Unreffing(v)) + 1 ELSE Cardinality(Unreffing(v))
    BY <2>6, OwnersFinite, JoinsCount
  <2>10. refs' = refs
    BY <2>1, RestNow DEF GaveUp
  <2>11. refs[v] = Owners(v)
    BY DEF Inv, RefsCount
  <2> QED BY <2>10, <2>11, <2>3, <2>4, <2>5, <2>6, <2>7, <2>8, <2>9, OwnersFinite DEF Owners
<1>11. ASSUME NEW t \in Threads, StoreUnref(t) PROVE RefsCount'
  <2>1. /\ hand[t] \in Vals /\ pc[t] = "unref" /\ pc'[t] = "idle"
        /\ \A u \in Threads : u # t => pc'[u] = pc[u]
        /\ UNCHANGED <<item, own, prev, hand>> /\ List' = List
        /\ \A u \in Threads : Inserted(u)' = Inserted(u) /\ Using(u)' = Using(u)
        /\ prev[t] = None
        /\ refs' = [refs EXCEPT ![hand[t]] = @ - 1]
    <3>1. /\ pc[t] = "unref" /\ pc' = [pc EXCEPT ![t] = "idle"] /\ refs' = [refs EXCEPT ![hand[t]] = @ - 1]
          /\ UNCHANGED <<item, lru, hand, own, prev, after>>
      BY <1>11 DEF StoreUnref, At, Goto, locals
    <3>2. hand[t] \in Vals /\ prev[t] = None
      BY <3>1, RestNow DEF RestOK, Inv, LocalsOK, Ensuring
    <3>3. \A u \in Threads : Inserted(u)' = Inserted(u) /\ Using(u)' = Using(u)
      BY <3>1, RestNow DEF Inserted, Ensuring, Using, RestOK
    <3> QED BY <3>1, <3>2, <3>3, RestNow DEF List, RestOK
  <2> SUFFICES ASSUME NEW v \in Vals PROVE refs'[v] = Owners(v)'
    BY DEF RefsCount
  <2>2. OwnersAre(v) /\ OwnersAre(v)'
    BY OwnersNow, OwnersNext
  <2>3. Stored(v)' = Stored(v)
    <3>1. InStore' = InStore
      BY <2>1, <2>2 DEF OwnersAre, StoreIs, OthersSame
    <3> QED BY <2>1, <3>1 DEF Stored
  <2>4. Handed(v)' = Handed(v)
    BY <2>1 DEF OthersSame, OthersKept, Handed
  <2>5. Returning(v)' = Returning(v)
    BY <2>1, <2>2 DEF OthersSame, OthersKept, OwnersAre, ReturningAre
  <2>6. Leaves(Unreffing(v), Unreffing(v)', t, v = hand[t])
    BY <2>1 DEF OthersSame, OthersKept, Unreffing, Leaves
  <2>7. Pinning(v)' = Pinning(v)
    BY <2>1, <2>2 DEF OthersSame, OthersKept, OwnersAre, PinningAre
  <2>8. Cardinality(Unreffing(v)') = IF v = hand[t] THEN Cardinality(Unreffing(v)) - 1 ELSE Cardinality(Unreffing(v))
    BY <2>6, OwnersFinite, LeavesCount
  <2>9. refs'[v] = IF v = hand[t] THEN refs[v] - 1 ELSE refs[v]
    BY <2>1, RestNow DEF RestOK
  <2>10. refs[v] = Owners(v)
    BY DEF Inv, RefsCount
  <2> QED BY <2>9, <2>10, <2>3, <2>4, <2>5, <2>6, <2>7, <2>8, OwnersFinite DEF Owners
<1>12. ASSUME NEW t \in Threads, SpaceUnpin(t) PROVE RefsCount'
  <2>1. /\ pc[t] = "unpin" /\ pc'[t] = "space"
        /\ \A u \in Threads : u # t => pc'[u] = pc[u]
        /\ UNCHANGED <<item, own, prev, hand>> /\ List' = List
        /\ \A u \in Threads : Inserted(u)' = Inserted(u) /\ Using(u)' = Using(u)
        /\ prev[t] # None => prev[t] \in Items /\ item[prev[t]].val \in Vals
        /\ refs' = IF prev[t] = None THEN refs ELSE [refs EXCEPT ![item[prev[t]].val] = @ - 1]
    BY <1>12, RestNow, ItemFacts
       DEF SpaceUnpin, At, Goto, locals, List, Inserted, Ensuring, Using, RestOK
  <2> SUFFICES ASSUME NEW v \in Vals PROVE refs'[v] = Owners(v)'
    BY DEF RefsCount
  <2>2. OwnersAre(v) /\ OwnersAre(v)'
    BY OwnersNow, OwnersNext
  <2>3. Stored(v)' = Stored(v)
    <3>1. InStore' = InStore
      BY <2>1, <2>2 DEF OwnersAre, StoreIs, OthersSame
    <3> QED BY <2>1, <3>1 DEF Stored
  <2>4. Handed(v)' = Handed(v)
    BY <2>1 DEF OthersSame, OthersKept, Handed
  <2>5. Returning(v)' = Returning(v)
    BY <2>1, <2>2 DEF OthersSame, OthersKept, OwnersAre, ReturningAre
  <2>6. Unreffing(v)' = Unreffing(v)
    BY <2>1 DEF OthersSame, OthersKept, Unreffing
  <2>7. Leaves(Pinning(v), Pinning(v)', t, prev[t] # None /\ v = item[prev[t]].val)
    BY <2>1, <2>2 DEF OthersSame, OthersKept, OwnersAre, PinningAre, Leaves
  <2>8. Cardinality(Pinning(v)') = IF prev[t] # None /\ v = item[prev[t]].val THEN Cardinality(Pinning(v)) - 1 ELSE Cardinality(Pinning(v))
    BY <2>7, OwnersFinite, LeavesCount
  <2>9. refs'[v] = IF prev[t] # None /\ v = item[prev[t]].val THEN refs[v] - 1 ELSE refs[v]
    BY <2>1, RestNow DEF RestOK
  <2>10. refs[v] = Owners(v)
    BY DEF Inv, RefsCount
  <2> QED BY <2>9, <2>10, <2>3, <2>4, <2>5, <2>6, <2>7, <2>8, OwnersFinite DEF Owners
<1>13. ASSUME NEW t \in Threads, SpaceReturn(t) PROVE RefsCount'
  <2>1. /\ pc[t] = "space" /\ pc'[t] = "fit" /\ prev'[t] = None
        /\ \A u \in Threads : u # t => pc'[u] = pc[u] /\ prev'[u] = prev[u]
        /\ UNCHANGED <<item, own, hand, refs>> /\ List' = List
        /\ \A u \in Threads : Inserted(u)' = Inserted(u) /\ Using(u)' = Using(u)
    BY <1>13, RestNow DEF SpaceReturn, At, Goto, shared, List, Inserted, Ensuring, Using, RestOK
  <2> SUFFICES ASSUME NEW v \in Vals PROVE refs'[v] = Owners(v)'
    BY DEF RefsCount
  <2>2. OwnersAre(v) /\ OwnersAre(v)'
    BY OwnersNow, OwnersNext
  <2>3. Stored(v)' = Stored(v)
    <3>1. InStore' = InStore
      BY <2>1, <2>2 DEF OwnersAre, StoreIs, OthersSame
    <3> QED BY <2>1, <3>1 DEF Stored
  <2>4. Handed(v)' = Handed(v)
    BY <2>1 DEF OthersSame, OthersKept, Handed
  <2>5. Returning(v)' = Returning(v)
    BY <2>1, <2>2 DEF OthersSame, OthersKept, OwnersAre, ReturningAre
  <2>6. Unreffing(v)' = Unreffing(v)
    BY <2>1 DEF OthersSame, OthersKept, Unreffing
  <2>7. Pinning(v)' = Pinning(v)
    BY <2>1, <2>2 DEF OthersSame, OthersKept, OwnersAre, PinningAre
  <2>8. refs' = refs
    BY <2>1, RestNow DEF RestOK
  <2>9. refs[v] = Owners(v)
    BY DEF Inv, RefsCount
  <2> QED BY <2>8, <2>9, <2>3, <2>4, <2>5, <2>6, <2>7, OwnersFinite DEF Owners
<1>14. ASSUME NEW t \in Threads, NEW k \in Keys, FindCall(t, k) PROVE RefsCount'
  <2> DEFINE i == Lookup(k)
  <2>1. Found(t, k, i)
    BY <1>14, FindEffect
  <2> HIDE DEF i
  <2> SUFFICES ASSUME NEW v \in Vals PROVE refs'[v] = Owners(v)'
    BY DEF RefsCount
  <2>2. OwnersAre(v) /\ OwnersAre(v)'
    BY OwnersNow, OwnersNext
  <2>3. Stored(v)' = Stored(v)
    <3>1. InStore' = InStore
      <4>1. StoreIs /\ StoreIs'
        BY <2>2 DEF OwnersAre
      <4>2. List' = List \cup {i} /\ i \in InStore /\ ~Inserted(t) /\ ~Inserted(t)'
        BY <2>1, <4>1, WhereFacts, HashNow DEF Found, StoreIs
      <4>3. \A u \in Threads : u # t => own'[u] = own[u] /\ Inserted(u)' = Inserted(u)
        BY <2>1 DEF Found, OthersSame
      <4> QED BY <4>1, <4>2, <4>3 DEF StoreIs
    <3> QED BY <2>1, <3>1 DEF Stored, Found
  <2>4. Handed(v)' = Handed(v)
    BY <2>1, WhereFacts DEF OthersSame, Handed, Found
  <2>5. Joins(Returning(v), Returning(v)', t, v = item[i].val)
    BY <2>1, <2>2, ItemFacts, WhereFacts DEF OthersSame, OwnersAre, ReturningAre, Found, Joins
  <2>6. Unreffing(v)' = Unreffing(v)
    BY <2>1, WhereFacts DEF OthersSame, Unreffing, Found
  <2>7. Pinning(v)' = Pinning(v)
    BY <2>1, <2>2, ItemFacts DEF OthersSame, OwnersAre, PinningAre, Found
  <2>8. Cardinality(Returning(v)') = IF v = item[i].val THEN Cardinality(Returning(v)) + 1 ELSE Cardinality(Returning(v))
    BY <2>5, OwnersFinite, JoinsCount
  <2>9. refs'[v] = IF v = item[i].val THEN refs[v] + 1 ELSE refs[v]
    BY <2>1, RestNow DEF RestOK, Found
  <2>10. refs[v] = Owners(v)
    BY DEF Inv, RefsCount
  <2> QED BY <2>9, <2>10, <2>3, <2>4, <2>5, <2>6, <2>7, <2>8, OwnersFinite DEF Owners
<1>15. ASSUME NEW t \in Threads, FindReturn(t) PROVE RefsCount'
  <2>1. /\ pc[t] = "found" /\ pc'[t] = "idle" /\ prev' = prev /\ prev[t] = None /\ hand[t] = None
        /\ own[t] # None /\ item[own[t]].val \in Vals /\ None \notin Vals
        /\ own'[t] = None /\ hand'[t] = item[own[t]].val
        /\ \A u \in Threads : u # t => pc'[u] = pc[u] /\ own'[u] = own[u] /\ hand'[u] = hand[u]
        /\ \A u \in Threads : Inserted(u)' = Inserted(u) /\ (Inserted(u) => u # t)
        /\ Using(t) /\ ~Using(t)' /\ \A u \in Threads : u # t => Using(u)' = Using(u)
        /\ UNCHANGED <<item, refs>> /\ List' = List
    <3>1. /\ pc[t] = "found" /\ pc' = [pc EXCEPT ![t] = "idle"] /\ own' = [own EXCEPT ![t] = None]
          /\ hand' = [hand EXCEPT ![t] = item[own[t]].val]
          /\ UNCHANGED <<item, prev, lru, after, refs>>
      BY <1>15 DEF FindReturn, At, Goto, shared, work
    <3>2. Using(t) /\ hand[t] = None /\ prev[t] = None
      BY <3>1 DEF Inv, LocalsOK, Using, Ensuring
    <3>3. own[t] # None /\ item[own[t]].val \in Vals /\ None \notin Vals
      BY <3>2, ItemFacts, StoreAssumption
    <3>4. /\ \A u \in Threads : Inserted(u)' = Inserted(u) /\ (Inserted(u) => u # t)
          /\ ~Using(t)' /\ \A u \in Threads : u # t => Using(u)' = Using(u)
      BY <3>1, RestNow DEF Inserted, Ensuring, Using, RestOK
    <3> QED BY <3>1, <3>2, <3>3, <3>4, RestNow DEF List, RestOK
  <2> SUFFICES ASSUME NEW v \in Vals PROVE refs'[v] = Owners(v)'
    BY DEF RefsCount
  <2>2. OwnersAre(v) /\ OwnersAre(v)'
    BY OwnersNow, OwnersNext
  <2>3. Stored(v)' = Stored(v)
    <3>1. InStore' = InStore
      BY <2>1, <2>2 DEF OwnersAre, StoreIs, OthersSame
    <3> QED BY <2>1, <3>1 DEF Stored
  <2>4. Joins(Handed(v), Handed(v)', t, v = item[own[t]].val)
    BY <2>1 DEF OthersSame, OthersKept, Handed, Joins
  <2>5. Leaves(Returning(v), Returning(v)', t, v = item[own[t]].val)
    BY <2>1, <2>2 DEF OthersSame, OthersKept, OwnersAre, ReturningAre, Leaves
  <2>6. Unreffing(v)' = Unreffing(v)
    BY <2>1 DEF OthersSame, OthersKept, Unreffing
  <2>7. Pinning(v)' = Pinning(v)
    BY <2>1, <2>2 DEF OthersSame, OthersKept, OwnersAre, PinningAre
  <2>8. Cardinality(Handed(v)') = IF v = item[own[t]].val THEN Cardinality(Handed(v)) + 1 ELSE Cardinality(Handed(v))
    BY <2>4, OwnersFinite, JoinsCount
  <2>9. Cardinality(Returning(v)') = IF v = item[own[t]].val THEN Cardinality(Returning(v)) - 1 ELSE Cardinality(Returning(v))
    BY <2>5, OwnersFinite, LeavesCount
  <2>10. refs' = refs
    BY <2>1, RestNow DEF RestOK
  <2>11. refs[v] = Owners(v)
    BY DEF Inv, RefsCount
  <2> QED BY <2>10, <2>11, <2>3, <2>4, <2>5, <2>6, <2>7, <2>8, <2>9, OwnersFinite DEF Owners
<1>16. ASSUME NEW t \in Threads, NEW k \in Keys, RemoveCall(t, k) PROVE RefsCount'
  <2> DEFINE i == Lookup(k)
  <2>1. Removed(t, k, i)
    BY <1>16, RemoveEffect
  <2> HIDE DEF i
  <2> SUFFICES ASSUME NEW v \in Vals PROVE refs'[v] = Owners(v)'
    BY DEF RefsCount
  <2>2. OwnersAre(v) /\ OwnersAre(v)'
    BY OwnersNow, OwnersNext
  <2>3. Leaves(Stored(v), Stored(v)', i, v = item[i].val)
    <3>1. i \in InStore /\ InStore' = InStore \ {i}
      BY <2>1, <2>2, ItemFacts, WhereFacts, HashNow DEF OthersSame, OwnersAre, StoreIs, Removed
    <3> QED BY <2>1, <3>1 DEF Stored, Removed, Leaves
  <2>4. Handed(v)' = Handed(v)
    BY <2>1, WhereFacts DEF OthersSame, Handed, Removed
  <2>5. Returning(v)' = Returning(v)
    BY <2>1, <2>2, ItemFacts, WhereFacts DEF OthersSame, OwnersAre, ReturningAre, Removed
  <2>6. Unreffing(v)' = Unreffing(v)
    BY <2>1, WhereFacts DEF OthersSame, Unreffing, Removed
  <2>7. Pinning(v)' = Pinning(v)
    BY <2>1, <2>2, ItemFacts DEF OthersSame, OwnersAre, PinningAre, Removed
  <2>8. Cardinality(Stored(v)') = IF v = item[i].val THEN Cardinality(Stored(v)) - 1 ELSE Cardinality(Stored(v))
    BY <2>3, OwnersFinite, LeavesCount
  <2>9. refs'[v] = IF v = item[i].val THEN refs[v] - 1 ELSE refs[v]
    BY <2>1, RestNow DEF RestOK, Removed
  <2>10. refs[v] = Owners(v)
    BY DEF Inv, RefsCount
  <2> QED BY <2>9, <2>10, <2>3, <2>4, <2>5, <2>6, <2>7, <2>8, OwnersFinite DEF Owners
<1>17. ASSUME NEW t \in Threads, RemoveDone(t) PROVE RefsCount'
  <2>1. Freed(t)
    BY <1>17, DoneEffect
  <2> SUFFICES ASSUME NEW v \in Vals PROVE refs'[v] = Owners(v)'
    BY DEF RefsCount
  <2>2. OwnersAre(v) /\ OwnersAre(v)'
    BY OwnersNow, OwnersNext
  <2>3. Stored(v)' = Stored(v)
    <3>1. InStore' = InStore
      <4>1. StoreIs /\ StoreIs'
        BY <2>2 DEF OwnersAre
      <4>2. List' = List /\ own' = own /\ \A u \in Threads : Inserted(u)' = Inserted(u)
        BY <2>1 DEF Freed
      <4> QED BY <4>1, <4>2 DEF StoreIs
    <3>2. victim[t] \notin InStore'
      BY <2>1, <2>2, ItemFacts, WhereFacts DEF OwnersAre, StoreIs, Freed
    <3>3. InStore \subseteq Items
      BY <2>2, ItemFacts, WhereFacts DEF OwnersAre, StoreIs
    <3>4. \A x \in InStore' : item'[x] = item[x]
      BY <2>1, <3>1, <3>2, <3>3 DEF OthersKept, Freed
    <3> QED BY <3>1, <3>4 DEF Stored
  <2>4. Handed(v)' = Handed(v)
    BY <2>1, WhereFacts DEF OthersKept, Handed, Freed
  <2>5. Returning(v)' = Returning(v)
    BY <2>1, <2>2, ItemFacts, WhereFacts DEF OthersKept, OwnersAre, ReturningAre, Freed
  <2>6. Unreffing(v)' = Unreffing(v)
    BY <2>1, WhereFacts DEF OthersKept, Unreffing, Freed
  <2>7. Pinning(v)' = Pinning(v)
    BY <2>1, <2>2, ItemFacts DEF OthersKept, OwnersAre, PinningAre, Freed
  <2>8. refs' = refs
    BY <2>1, RestNow DEF Freed
  <2>9. refs[v] = Owners(v)
    BY DEF Inv, RefsCount
  <2> QED BY <2>8, <2>9, <2>3, <2>4, <2>5, <2>6, <2>7, OwnersFinite DEF Owners
<1>18. ASSUME NEW t \in Threads, EvictDone(t) PROVE RefsCount'
  <2>1. Freed(t)
    BY <1>18, DoneEffect
  <2> SUFFICES ASSUME NEW v \in Vals PROVE refs'[v] = Owners(v)'
    BY DEF RefsCount
  <2>2. OwnersAre(v) /\ OwnersAre(v)'
    BY OwnersNow, OwnersNext
  <2>3. Stored(v)' = Stored(v)
    <3>1. InStore' = InStore
      <4>1. StoreIs /\ StoreIs'
        BY <2>2 DEF OwnersAre
      <4>2. List' = List /\ own' = own /\ \A u \in Threads : Inserted(u)' = Inserted(u)
        BY <2>1 DEF Freed
      <4> QED BY <4>1, <4>2 DEF StoreIs
    <3>2. victim[t] \notin InStore'
      BY <2>1, <2>2, ItemFacts, WhereFacts DEF OwnersAre, StoreIs, Freed
    <3>3. InStore \subseteq Items
      BY <2>2, ItemFacts, WhereFacts DEF OwnersAre, StoreIs
    <3>4. \A x \in InStore' : item'[x] = item[x]
      BY <2>1, <3>1, <3>2, <3>3 DEF OthersKept, Freed
    <3> QED BY <3>1, <3>4 DEF Stored
  <2>4. Handed(v)' = Handed(v)
    BY <2>1, WhereFacts DEF OthersKept, Handed, Freed
  <2>5. Returning(v)' = Returning(v)
    BY <2>1, <2>2, ItemFacts, WhereFacts DEF OthersKept, OwnersAre, ReturningAre, Freed
  <2>6. Unreffing(v)' = Unreffing(v)
    BY <2>1, WhereFacts DEF OthersKept, Unreffing, Freed
  <2>7. Pinning(v)' = Pinning(v)
    BY <2>1, <2>2, ItemFacts DEF OthersKept, OwnersAre, PinningAre, Freed
  <2>8. refs' = refs
    BY <2>1, RestNow DEF Freed
  <2>9. refs[v] = Owners(v)
    BY DEF Inv, RefsCount
  <2> QED BY <2>8, <2>9, <2>3, <2>4, <2>5, <2>6, <2>7, OwnersFinite DEF Owners
<1>19. ASSUME NEW t \in Threads, EmptyCall(t) PROVE RefsCount'
  <2>1. UNCHANGED <<refs, item, hand, own, prev>> /\ List' = List
    BY <1>19 DEF EmptyCall, At, locals, Goto, Free, List
  <2>2. \A u \in Threads : /\ Inserted(u)' = Inserted(u) /\ Using(u)' = Using(u)
                           /\ pc'[u] = "unref" <=> pc[u] = "unref"
                           /\ prev[u] # None => (pc'[u] = "space" <=> pc[u] = "space")
    BY <1>19, RestNow, StoreAssumption DEF EmptyCall, At, locals, Goto, Free, Inserted, Ensuring, Using, RestOK, ScanSteps
  <2> QED BY <2>1, <2>2, PlainStep
<1>20. ASSUME NEW t \in Threads, EmptyReturn(t) PROVE RefsCount'
  <2>1. UNCHANGED <<refs, item, hand, own, prev>> /\ List' = List
    BY <1>20 DEF EmptyReturn, At, locals, Goto, List
  <2>2. \A u \in Threads : /\ Inserted(u)' = Inserted(u) /\ Using(u)' = Using(u)
                           /\ pc'[u] = "unref" <=> pc[u] = "unref"
                           /\ prev[u] # None => (pc'[u] = "space" <=> pc[u] = "space")
    BY <1>20, RestNow, StoreAssumption DEF EmptyReturn, At, locals, Goto, Inserted, Ensuring, Using, RestOK, ScanSteps
  <2> QED BY <2>1, <2>2, PlainStep
<1>21. ASSUME NEW t \in Threads, NEW request \in Requests, MallocCall(t, request) PROVE RefsCount'
  <2>1. UNCHANGED <<refs, item, hand, own, prev>> /\ List' = List
    BY <1>21 DEF MallocCall, At, Goto, Free, List
  <2>2. \A u \in Threads : /\ Inserted(u)' = Inserted(u) /\ Using(u)' = Using(u)
                           /\ pc'[u] = "unref" <=> pc[u] = "unref"
                           /\ prev[u] # None => (pc'[u] = "space" <=> pc[u] = "space")
    BY <1>21, RestNow, StoreAssumption DEF MallocCall, At, Goto, Free, Inserted, Ensuring, Using, RestOK, ScanSteps
  <2> QED BY <2>1, <2>2, PlainStep
<1>22. ASSUME NEW t \in Threads, ScavengeSkip(t) PROVE RefsCount'
  <2>1. UNCHANGED <<refs, item, hand, own, prev>> /\ List' = List
    BY <1>22 DEF ScavengeSkip, At, shared, NextPhase, List
  <2>2. \A u \in Threads : /\ Inserted(u)' = Inserted(u) /\ Using(u)' = Using(u)
                           /\ pc'[u] = "unref" <=> pc[u] = "unref"
                           /\ prev[u] # None => (pc'[u] = "space" <=> pc[u] = "space")
    BY <1>22, RestNow, StoreAssumption DEF ScavengeSkip, At, shared, NextPhase, Inserted, Ensuring, Using, RestOK, ScanSteps
  <2> QED BY <2>1, <2>2, PlainStep
<1>23. ASSUME NEW t \in Threads, ScavengeStart(t) PROVE RefsCount'
  <2>1. UNCHANGED <<refs, item, hand, own, prev>> /\ List' = List
    BY <1>23 DEF ScavengeStart, At, shared, NextPhase, Goto, List
  <2>2. \A u \in Threads : /\ Inserted(u)' = Inserted(u) /\ Using(u)' = Using(u)
                           /\ pc'[u] = "unref" <=> pc[u] = "unref"
                           /\ prev[u] # None => (pc'[u] = "space" <=> pc[u] = "space")
    BY <1>23, RestNow, StoreAssumption DEF ScavengeStart, At, shared, NextPhase, Goto, Inserted, Ensuring, Using, RestOK, ScanSteps
  <2> QED BY <2>1, <2>2, PlainStep
<1>24. ASSUME NEW t \in Threads, ScavengeFails(t) PROVE RefsCount'
  <2>1. UNCHANGED <<refs, item, hand, own, prev>> /\ List' = List
    BY <1>24 DEF ScavengeFails, At, MallocEnds, Goto, List
  <2>2. \A u \in Threads : /\ Inserted(u)' = Inserted(u) /\ Using(u)' = Using(u)
                           /\ pc'[u] = "unref" <=> pc[u] = "unref"
                           /\ prev[u] # None => (pc'[u] = "space" <=> pc[u] = "space")
    BY <1>24, RestNow, StoreAssumption DEF ScavengeFails, At, MallocEnds, Goto, Inserted, Ensuring, Using, RestOK, ScanSteps
  <2> QED BY <2>1, <2>2, PlainStep
<1>25. ASSUME NEW t \in Threads, NEW percent \in Percents, ShrinkCall(t, percent) PROVE RefsCount'
  <2>1. UNCHANGED <<refs, item, hand, own, prev>> /\ List' = List
    BY <1>25 DEF ShrinkCall, At, Goto, Free, List
  <2>2. \A u \in Threads : /\ Inserted(u)' = Inserted(u) /\ Using(u)' = Using(u)
                           /\ pc'[u] = "unref" <=> pc[u] = "unref"
                           /\ prev[u] # None => (pc'[u] = "space" <=> pc[u] = "space")
    BY <1>25, RestNow, StoreAssumption DEF ShrinkCall, At, Goto, Free, Inserted, Ensuring, Using, RestOK, ScanSteps
  <2> QED BY <2>1, <2>2, PlainStep
<1>26. ASSUME NEW t \in Threads, MallocRetry(t) PROVE RefsCount'
  <2>1. /\ UNCHANGED <<refs, item, hand, own, prev, after>> /\ List' = List /\ pc[t] = "scan_malloc"
        /\ pc' = [pc EXCEPT ![t] = "idle"] \/ pc' = [pc EXCEPT ![t] = "scavenge"]
    BY <1>26 DEF MallocRetry, At, MallocEnds, Goto, List
  <2>2. \A u \in Threads : /\ Inserted(u)' = Inserted(u) /\ Using(u)' = Using(u)
                           /\ pc'[u] = "unref" <=> pc[u] = "unref"
                           /\ prev[u] # None => (pc'[u] = "space" <=> pc[u] = "space")
    BY <2>1, RestNow DEF Inserted, Ensuring, Using, RestOK, ScanSteps
  <2> QED BY <2>1, <2>2, PlainStep
<1>40. ASSUME NEW t \in Threads, MallocNextPhase(t) PROVE RefsCount'
  <2>1. /\ UNCHANGED <<refs, item, hand, own, prev, after>> /\ List' = List /\ pc[t] = "scan_malloc"
        /\ pc' = [pc EXCEPT ![t] = "idle"] \/ pc' = [pc EXCEPT ![t] = "scavenge"]
    BY <1>40 DEF MallocNextPhase, At, MallocEnds, Goto, List
  <2>2. \A u \in Threads : /\ Inserted(u)' = Inserted(u) /\ Using(u)' = Using(u)
                           /\ pc'[u] = "unref" <=> pc[u] = "unref"
                           /\ prev[u] # None => (pc'[u] = "space" <=> pc[u] = "space")
    BY <2>1, RestNow DEF Inserted, Ensuring, Using, RestOK, ScanSteps
  <2> QED BY <2>1, <2>2, PlainStep
<1>27. ASSUME NEW t \in Threads, ShrinkReturn(t) PROVE RefsCount'
  <2>1. UNCHANGED <<refs, item, hand, own, prev>> /\ List' = List
    BY <1>27 DEF ShrinkReturn, At, locals, Goto, List
  <2>2. \A u \in Threads : /\ Inserted(u)' = Inserted(u) /\ Using(u)' = Using(u)
                           /\ pc'[u] = "unref" <=> pc[u] = "unref"
                           /\ prev[u] # None => (pc'[u] = "space" <=> pc[u] = "space")
    BY <1>27, RestNow, StoreAssumption DEF ShrinkReturn, At, locals, Goto, Inserted, Ensuring, Using, RestOK, ScanSteps
  <2> QED BY <2>1, <2>2, PlainStep
<1>28. ASSUME NEW t \in Threads, NEW i, NEW pinned, NEW back, Evicting(t, i, pinned, back)
      PROVE  RefsCount'
  <2>1. Evicted(t, i, pinned)
    BY <1>28, EvictEffect
  <2> SUFFICES ASSUME NEW v \in Vals PROVE refs'[v] = Owners(v)'
    BY DEF RefsCount
  <2>2. OwnersAre(v) /\ OwnersAre(v)'
    BY OwnersNow, OwnersNext
  <2>3. Leaves(Stored(v), Stored(v)', i, v = item[i].val)
    <3>1. i \in InStore /\ InStore' = InStore \ {i}
      BY <2>1, <2>2, ItemFacts, WhereFacts, HashNow DEF OwnersAre, StoreIs, Evicted
    <3> QED BY <2>1, <3>1 DEF Stored, Evicted, Leaves
  <2>4. Handed(v)' = Handed(v)
    BY <2>1, WhereFacts DEF Handed, Evicted
  <2>5. Returning(v)' = Returning(v)
    BY <2>1, <2>2, ItemFacts, WhereFacts DEF OwnersAre, ReturningAre, Evicted
  <2>6. Unreffing(v)' = Unreffing(v)
    BY <2>1, WhereFacts DEF ScanSteps, Unreffing, Evicted
  <2>7. Joins(Pinning(v), Pinning(v)', t, pinned # None /\ v = item[pinned].val)
    BY <2>1, <2>2, ItemFacts DEF OwnersAre, PinningAre, Evicted, Joins
  <2>8. Cardinality(Stored(v)') = IF v = item[i].val THEN Cardinality(Stored(v)) - 1 ELSE Cardinality(Stored(v))
    BY <2>3, OwnersFinite, LeavesCount
  <2>9. Cardinality(Pinning(v)') = IF pinned # None /\ v = item[pinned].val THEN Cardinality(Pinning(v)) + 1 ELSE Cardinality(Pinning(v))
    BY <2>7, OwnersFinite, JoinsCount
  <2>10. refs'[v] = refs[v] - (IF v = item[i].val THEN 1 ELSE 0)
                           + (IF pinned # None /\ v = item[pinned].val THEN 1 ELSE 0)
    <3>1. /\ item[i].val \in Vals /\ (pinned # None => item[pinned].val \in Vals)
      BY <2>1 DEF Evicted
    <3> DEFINE r == [refs EXCEPT ![item[i].val] = @ - 1]
    <3>2. r \in [Vals -> Int] /\ r[v] = refs[v] - (IF v = item[i].val THEN 1 ELSE 0)
      BY <3>1, RestNow DEF RestOK
    <3>3. refs' = IF pinned = None THEN r ELSE [r EXCEPT ![item[pinned].val] = @ + 1]
      BY <1>28 DEF Evicting, EvictItem
    <3> HIDE DEF r
    <3>4. refs[v] \in Int
      BY RestNow DEF RestOK
    <3>5. CASE pinned = None
      BY <3>2, <3>3, <3>4, <3>5
    <3>6. CASE pinned # None
      <4>1. refs' = [r EXCEPT ![item[pinned].val] = @ + 1]
        BY <3>3, <3>6
      <4>2. refs'[v] = r[v] + (IF v = item[pinned].val THEN 1 ELSE 0)
        BY <4>1, <3>1, <3>2, <3>4, <3>6
      <4> QED BY <4>2, <3>2, <3>4, <3>6
    <3> QED BY <3>5, <3>6
  <2>11. refs[v] = Owners(v)
    BY DEF Inv, RefsCount
  <2> QED BY <2>10, <2>11, <2>3, <2>4, <2>5, <2>6, <2>7, <2>8, <2>9, OwnersFinite DEF Owners
<1>29. ASSUME NEW t \in Threads, SpaceStart(t) \/ SpaceMore(t) \/ ScanEvict(t) \/ EmptyEvict(t)
      PROVE  RefsCount'
  BY <1>29, <1>28, EvictionSteps DEF Inv
<1>30. CASE UNCHANGED vars
  <2>1. UNCHANGED <<refs, item, hand, own, prev>> /\ List' = List
    BY <1>30 DEF vars, shared, locals, List
  <2>2. \A u \in Threads : /\ Inserted(u)' = Inserted(u) /\ Using(u)' = Using(u)
                           /\ pc'[u] = "unref" <=> pc[u] = "unref"
                           /\ prev[u] # None => (pc'[u] = "space" <=> pc[u] = "space")
    BY <1>30 DEF vars, locals, Inserted, Ensuring, Using
  <2> QED BY <2>1, <2>2, PlainStep
<1> QED BY <1>1, <1>2, <1>3, <1>4, <1>5, <1>6, <1>7, <1>8, <1>9, <1>10, <1>11, <1>12, <1>13,
        <1>14, <1>15, <1>16, <1>17, <1>18, <1>19, <1>20, <1>21, <1>22, <1>23, <1>24, <1>25,
        <1>26, <1>27, <1>28, <1>29, <1>30, <1>40
        DEF Next, Step, Call, Undefined


----------------------------------------------------------------------------
\* The invariant holds of an empty store that nobody uses yet.
LEMMA InvInit == Init => Inv
<1> SUFFICES ASSUME Init PROVE Inv
  OBVIOUS
<1>1. List = {} /\ lru \in Seq(Items) /\ IsInjective(lru)
  BY DEF Init, List, ToSet, IsInjective
<1>2. \A t \in Threads : ~Inserted(t) /\ ~Making(t) /\ ~Using(t) /\ pc[t] = "idle"
  BY DEF Init, Making, Inserted, Ensuring, Using
<1>3. TypeOK
  <2>1. phase \in [Threads -> 0 .. Phases + 1]
    BY StoreAssumption DEF Init
  <2> QED BY <1>1, <2>1 DEF Init, TypeOK, Steps, List
<1>4. LocalsOK
  BY <1>2, StoreAssumption DEF Init, LocalsOK, Ensuring, Inside, ScanSteps
<1>5. ItemsOK
  BY <1>1, <1>2 DEF Init, ItemsOK
<1>6. TableAndList
  BY <1>1 DEF Init, TableAndList, List
<1>7. RefsCount
  <2> SUFFICES ASSUME NEW v \in Vals PROVE refs[v] = Owners(v)
    BY DEF RefsCount
  <2>1. /\ Stored(v) = {} /\ Handed(v) = {} /\ Returning(v) = {} /\ Unreffing(v) = {}
        /\ Pinning(v) = {}
    <3>1. InStore = {}
      BY <1>1, <1>2 DEF Init, InStore, InFlight, Storing, List
    <3> QED BY <3>1, <1>2, StoreAssumption
            DEF Init, Stored, Handed, Returning, Unreffing, Pinning, Using
  <2> QED BY <2>1, FS_EmptySet DEF Owners, Init
<1> QED BY <1>1, <1>3, <1>4, <1>5, <1>6, <1>7 DEF Inv

\* ... and every step keeps it.
LEMMA InvStep == ASSUME Intact', Inv, [Next]_vars PROVE Inv'
  BY TypeStep, LocalsStep, ItemsStep, HashStep, RefsStep DEF Inv

----------------------------------------------------------------------------
(* store->size. *)

\* What each thread may call is fixed.
LEMMA SetupFixed == ASSUME [Next]_vars PROVE setup' = setup
<1> USE DEF Goto, locals, work, LinkOwn, SpaceEvict
<1>1. ASSUME NEW t \in Threads, Call(t) PROVE setup' = setup
  BY <1>1 DEF Call, MakeValue, DropValue, StoreCall, FindCall, RemoveCall, EmptyCall, MallocCall, ShrinkCall
<1>2. ASSUME NEW t \in Threads, Step(t) PROVE setup' = setup
  BY <1>2 DEF Step, StoreHashFails, StoreExisting, StoreReturnExisting, StoreInsert, StoreFits,
       StoreOverBudget, StoreGivesUp, StoreUnref, SpaceStart, SpaceUnpin, SpaceMore, SpaceReturn,
       FindReturn, RemoveDone, EvictDone, EmptyEvict, EmptyReturn, ScavengeSkip, ScavengeStart,
       ScavengeFails, ScanEvict, MallocRetry, MallocNextPhase, ShrinkReturn
<1> QED BY <1>1, <1>2 DEF Next, Undefined, vars

\* An item counts from the moment its storer has linked it.
CountedAre == \A i : i \in Counted <=> i \in List /\ ~ \E u \in Threads : Inserted(u) /\ own[u] = i

\* What counts, by where the threads are.
LEMMA CountedSo == LocalsOK => CountedAre
<1> SUFFICES ASSUME LocalsOK PROVE CountedAre
  OBVIOUS
<1>1. \A i : i \in InFlight <=> \E u \in Threads : Inserted(u) /\ own[u] = i
  BY FlightIs
<1> QED BY <1>1 DEF CountedAre, Counted, List

\* So it is as long as the invariant holds ...
LEMMA CountedNow == ASSUME Inv PROVE CountedAre /\ IsFiniteSet(Counted) /\ Counted \subseteq List
<1>1. Counted \subseteq List /\ List \subseteq Items
  BY ListNow DEF Counted, List, ListOK
<1>2. IsFiniteSet(Counted)
  BY <1>1, FS_Subset, StoreAssumption
<1> QED BY <1>1, <1>2, CountedSo DEF Inv

\* ... and after each step.
LEMMA CountedNext == ASSUME Inv, [Next]_vars PROVE CountedAre'
<1>1. LocalsOK'
  BY LocalsStep
<1> QED BY <1>1, CountedSo, PTL

\* A linked item counts with the size of its value.
LEMMA SizesNow == ASSUME Inv PROVE \A x \in List : ItemSize[x] = ValSize[item[x].val] /\ ItemSize[x] \in Int
  BY ItemFacts DEF ItemSize

\* The size is counted right unless fz_remove_item is called.
SizeOK == (\A t \in Threads : "remove" \notin setup.calls[t]) => SizeIsTotal

\* A step that neither links nor unlinks what counts.
LEMMA SizeSame ==
  ASSUME Inv, [Next]_vars, SizeOK, size' = size, Counted' = Counted,
         \A x \in List : item'[x] = item[x]
  PROVE  SizeOK'
<1>1. \A x \in Counted : ItemSize[x] = ItemSize'[x]
  BY CountedNow, ItemFacts DEF ItemSize
<1>2. SumFunctionOnSet(ItemSize, Counted) = SumFunctionOnSet(ItemSize', Counted)
  BY <1>1, CountedNow, SumSame
<1>3. TotalSize(Counted)' = TotalSize(Counted)
  BY <1>2 DEF TotalSize
<1> QED BY <1>3, SetupFixed DEF SizeOK, SizeIsTotal

\* A step that changes neither the list nor what its threads insert.
LEMMA SizeKept ==
  ASSUME Inv, [Next]_vars, SizeOK, size' = size, List' = List,
         \A x \in List : item'[x] = item[x],
         \A u \in Threads : /\ Inserted(u) /\ own[u] \in List => Inserted(u)' /\ own'[u] = own[u]
                            /\ Inserted(u)' /\ own'[u] \in List => Inserted(u) /\ own'[u] = own[u]
  PROVE  SizeOK'
<1>1. Counted' = Counted
  BY CountedNow, CountedNext DEF CountedAre
<1> QED BY <1>1, SizeSame


\* Every link and every eviction is counted, and nothing is counted twice.
LEMMA SizeStep ==
  ASSUME Intact', Inv, SizeOK, [Next]_vars
  PROVE  SizeOK'
<1>1. ASSUME NEW t \in Threads, NEW v \in Vals, MakeValue(t, v) PROVE SizeOK'
  <2>1. size' = size /\ List' = List /\ \A x \in List : item'[x] = item[x]
    BY <1>1 DEF MakeValue, At, Free, locals, List
  <2>2. \A u \in Threads : /\ Inserted(u) /\ own[u] \in List => Inserted(u)' /\ own'[u] = own[u]
                           /\ Inserted(u)' /\ own'[u] \in List => Inserted(u) /\ own'[u] = own[u]
    BY <1>1, RestNow, StoreAssumption DEF MakeValue, At, Free, locals, Inserted, Ensuring, RestOK, ScanSteps
  <2> QED BY <2>1, <2>2, SizeKept
<1>2. ASSUME NEW t \in Threads, DropValue(t) PROVE SizeOK'
  <2>1. size' = size /\ List' = List /\ \A x \in List : item'[x] = item[x]
    BY <1>2 DEF DropValue, At, Free, locals, List
  <2>2. \A u \in Threads : /\ Inserted(u) /\ own[u] \in List => Inserted(u)' /\ own'[u] = own[u]
                           /\ Inserted(u)' /\ own'[u] \in List => Inserted(u) /\ own'[u] = own[u]
    BY <1>2, RestNow, StoreAssumption DEF DropValue, At, Free, locals, Inserted, Ensuring, RestOK, ScanSteps
  <2> QED BY <2>1, <2>2, SizeKept
<1>3. ASSUME NEW t \in Threads, NEW k \in Keys, NEW i \in Items, StoreCall(t, k, i) PROVE SizeOK'
  <2>1. StoreCalled(t, i) /\ size' = size
    BY <1>3, CallEffect DEF StoreCall, At, work, Goto
  <2>2. List' = List /\ \A x \in List : item'[x] = item[x]
    BY <2>1, ItemFacts DEF StoreCalled, OthersKept
  <2>3. \A u \in Threads : /\ Inserted(u) /\ own[u] \in List => Inserted(u)' /\ own'[u] = own[u]
                           /\ Inserted(u)' /\ own'[u] \in List => Inserted(u) /\ own'[u] = own[u]
    BY <2>1, WhereFacts DEF StoreCalled, OthersSame
  <2> QED BY <2>1, <2>2, <2>3, SizeKept
<1>4. ASSUME NEW t \in Threads, StoreHashFails(t) PROVE SizeOK'
  <2>1. StoreFailed(t) /\ size' = size
    BY <1>4, FailEffect DEF StoreHashFails, At, work, Goto, Free
  <2>2. List' = List /\ \A x \in List : item'[x] = item[x]
    BY <2>1, ItemFacts DEF StoreFailed, OthersKept
  <2>3. \A u \in Threads : /\ Inserted(u) /\ own[u] \in List => Inserted(u)' /\ own'[u] = own[u]
                           /\ Inserted(u)' /\ own'[u] \in List => Inserted(u) /\ own'[u] = own[u]
    BY <2>1, WhereFacts DEF StoreFailed, OthersSame
  <2> QED BY <2>1, <2>2, <2>3, SizeKept
<1>5. ASSUME NEW t \in Threads, StoreExisting(t) PROVE SizeOK'
  <2> DEFINE i == hashed[item[own[t]].key]
  <2>1. FoundExisting(t, i) /\ size' = size
    BY <1>5, ExistingEffect DEF StoreExisting, At, work, Goto, Free
  <2> HIDE DEF i
  <2>2. /\ List' = List \cup {i} /\ \A x \in List : item'[x] = item[x]
        /\ ~Inserted(t) /\ ~Inserted(t)'
    BY <2>1, ItemFacts, WhereFacts DEF FoundExisting, OthersKept
  <2>3. i \in List \/ \E u \in Threads : Inserted(u) /\ own[u] = i
    BY <2>1, HashNow DEF FoundExisting
  <2>4. \A u \in Threads : u # t => Inserted(u)' = Inserted(u) /\ own'[u] = own[u]
    BY <2>1 DEF FoundExisting, OthersSame
  <2>5. Counted' = Counted
    BY <2>2, <2>3, <2>4, CountedNow, CountedNext DEF CountedAre
  <2> QED BY <2>1, <2>2, <2>5, SizeSame
<1>6. ASSUME NEW t \in Threads, StoreReturnExisting(t) PROVE SizeOK'
  <2>1. size' = size /\ List' = List /\ \A x \in List : item'[x] = item[x]
    BY <1>6 DEF StoreReturnExisting, At, work, Goto, Free, List
  <2>2. \A u \in Threads : /\ Inserted(u) /\ own[u] \in List => Inserted(u)' /\ own'[u] = own[u]
                           /\ Inserted(u)' /\ own'[u] \in List => Inserted(u) /\ own'[u] = own[u]
    BY <1>6, RestNow, StoreAssumption DEF StoreReturnExisting, At, work, Goto, Free, Inserted, Ensuring, RestOK, ScanSteps
  <2> QED BY <2>1, <2>2, SizeKept
<1>7. ASSUME NEW t \in Threads, StoreInsert(t) PROVE SizeOK'
  <2>1. /\ size' = size /\ List' = List /\ item' = item /\ own' = own /\ after' = after
        /\ pc[t] = "insert" /\ pc' = [pc EXCEPT ![t] = "fit"]
    BY <1>7 DEF StoreInsert, At, Goto, List
  <2>2. \A u \in Threads : u # t => Inserted(u)' = Inserted(u)
    BY <2>1, RestNow DEF Inserted, Ensuring, RestOK
  <2>3. ~Inserted(t) /\ own[t] \notin List
    BY <2>1, WhereFacts DEF Inv, ItemsOK
  <2> QED BY <2>1, <2>2, <2>3, SizeKept
<1>8. ASSUME NEW t \in Threads, StoreFits(t) PROVE SizeOK'
  <2>1. LinkedOwn(t) /\ size' = size + ValSize[item[own[t]].val]
    BY <1>8, LinkEffect DEF StoreFits, At, LinkOwn
  <2>2. own[t] \notin Counted /\ Counted' = Counted \cup {own[t]}
    <3>1. /\ List' = List \cup {own[t]} /\ Inserted(t) /\ ~Inserted(t)' /\ Making(t)
          /\ \A u \in Threads : u # t => Inserted(u)' = Inserted(u) /\ own'[u] = own[u]
      BY <2>1 DEF LinkedOwn, OthersSame
    <3>2. \A u \in Threads : u # t /\ Inserted(u) => own[u] # own[t]
      BY <3>1, WhereFacts DEF Inv, ItemsOK
    <3> QED BY <3>1, <3>2, CountedNow, CountedNext DEF CountedAre
  <2>3. ItemSize' = ItemSize /\ ItemSize[own[t]] = ValSize[item[own[t]].val] /\ ItemSize[own[t]] \in Int
    BY <2>1, ItemFacts DEF LinkedOwn, ItemSize
  <2>4. \A x \in Counted \cup {own[t]} : ItemSize[x] \in Int
    BY <2>3, CountedNow, SizesNow
  <2>5. SumFunctionOnSet(ItemSize, Counted \cup {own[t]}) = SumFunctionOnSet(ItemSize, Counted) + ItemSize[own[t]]
    BY <2>2, <2>4, CountedNow, SumAdd
  <2>6. TotalSize(Counted)' = TotalSize(Counted) + ValSize[item[own[t]].val]
    BY <2>2, <2>3, <2>5 DEF TotalSize
  <2> QED BY <2>1, <2>6, SetupFixed DEF SizeOK, SizeIsTotal
<1>9. ASSUME NEW t \in Threads, StoreOverBudget(t) PROVE SizeOK'
  <2>1. LinkedOwn(t) /\ size' = size + ValSize[item[own[t]].val]
    BY <1>9, LinkEffect DEF StoreOverBudget, At, LinkOwn
  <2>2. own[t] \notin Counted /\ Counted' = Counted \cup {own[t]}
    <3>1. /\ List' = List \cup {own[t]} /\ Inserted(t) /\ ~Inserted(t)' /\ Making(t)
          /\ \A u \in Threads : u # t => Inserted(u)' = Inserted(u) /\ own'[u] = own[u]
      BY <2>1 DEF LinkedOwn, OthersSame
    <3>2. \A u \in Threads : u # t /\ Inserted(u) => own[u] # own[t]
      BY <3>1, WhereFacts DEF Inv, ItemsOK
    <3> QED BY <3>1, <3>2, CountedNow, CountedNext DEF CountedAre
  <2>3. ItemSize' = ItemSize /\ ItemSize[own[t]] = ValSize[item[own[t]].val] /\ ItemSize[own[t]] \in Int
    BY <2>1, ItemFacts DEF LinkedOwn, ItemSize
  <2>4. \A x \in Counted \cup {own[t]} : ItemSize[x] \in Int
    BY <2>3, CountedNow, SizesNow
  <2>5. SumFunctionOnSet(ItemSize, Counted \cup {own[t]}) = SumFunctionOnSet(ItemSize, Counted) + ItemSize[own[t]]
    BY <2>2, <2>4, CountedNow, SumAdd
  <2>6. TotalSize(Counted)' = TotalSize(Counted) + ValSize[item[own[t]].val]
    BY <2>2, <2>3, <2>5 DEF TotalSize
  <2> QED BY <2>1, <2>6, SetupFixed DEF SizeOK, SizeIsTotal
<1>10. ASSUME NEW t \in Threads, StoreGivesUp(t) PROVE SizeOK'
  <2>1. GaveUp(t) /\ size' = size
    BY <1>10, GiveUpEffect DEF StoreGivesUp, At, work, Goto
  <2>2. List' = List /\ \A x \in List : item'[x] = item[x]
    BY <2>1, ItemFacts DEF GaveUp, OthersKept
  <2>3. \A u \in Threads : /\ Inserted(u) /\ own[u] \in List => Inserted(u)' /\ own'[u] = own[u]
                           /\ Inserted(u)' /\ own'[u] \in List => Inserted(u) /\ own'[u] = own[u]
    BY <2>1, WhereFacts DEF GaveUp, OthersSame
  <2> QED BY <2>1, <2>2, <2>3, SizeKept
<1>11. ASSUME NEW t \in Threads, StoreUnref(t) PROVE SizeOK'
  <2>1. size' = size /\ List' = List /\ \A x \in List : item'[x] = item[x]
    BY <1>11 DEF StoreUnref, At, locals, Goto, List
  <2>2. \A u \in Threads : /\ Inserted(u) /\ own[u] \in List => Inserted(u)' /\ own'[u] = own[u]
                           /\ Inserted(u)' /\ own'[u] \in List => Inserted(u) /\ own'[u] = own[u]
    BY <1>11, RestNow, StoreAssumption DEF StoreUnref, At, locals, Goto, Inserted, Ensuring, RestOK, ScanSteps
  <2> QED BY <2>1, <2>2, SizeKept
<1>12. ASSUME NEW t \in Threads, SpaceUnpin(t) PROVE SizeOK'
  <2>1. size' = size /\ List' = List /\ \A x \in List : item'[x] = item[x]
    BY <1>12 DEF SpaceUnpin, At, locals, Goto, List
  <2>2. \A u \in Threads : /\ Inserted(u) /\ own[u] \in List => Inserted(u)' /\ own'[u] = own[u]
                           /\ Inserted(u)' /\ own'[u] \in List => Inserted(u) /\ own'[u] = own[u]
    BY <1>12, RestNow, StoreAssumption DEF SpaceUnpin, At, locals, Goto, Inserted, Ensuring, RestOK, ScanSteps
  <2> QED BY <2>1, <2>2, SizeKept
<1>13. ASSUME NEW t \in Threads, SpaceReturn(t) PROVE SizeOK'
  <2>1. size' = size /\ List' = List /\ \A x \in List : item'[x] = item[x]
    BY <1>13 DEF SpaceReturn, At, shared, Goto, List
  <2>2. \A u \in Threads : /\ Inserted(u) /\ own[u] \in List => Inserted(u)' /\ own'[u] = own[u]
                           /\ Inserted(u)' /\ own'[u] \in List => Inserted(u) /\ own'[u] = own[u]
    BY <1>13, RestNow, StoreAssumption DEF SpaceReturn, At, shared, Goto, Inserted, Ensuring, RestOK, ScanSteps
  <2> QED BY <2>1, <2>2, SizeKept
<1>14. ASSUME NEW t \in Threads, NEW k \in Keys, FindCall(t, k) PROVE SizeOK'
  <2> DEFINE i == Lookup(k)
  <2>1. Found(t, k, i) /\ size' = size
    BY <1>14, FindEffect DEF FindCall, At, work, Goto, Free
  <2> HIDE DEF i
  <2>2. /\ List' = List \cup {i} /\ \A x \in List : item'[x] = item[x]
        /\ ~Inserted(t) /\ ~Inserted(t)'
    BY <2>1, ItemFacts, WhereFacts DEF Found, OthersKept
  <2>3. i \in List \/ \E u \in Threads : Inserted(u) /\ own[u] = i
    BY <2>1, HashNow DEF Found
  <2>4. \A u \in Threads : u # t => Inserted(u)' = Inserted(u) /\ own'[u] = own[u]
    BY <2>1 DEF Found, OthersSame
  <2>5. Counted' = Counted
    BY <2>2, <2>3, <2>4, CountedNow, CountedNext DEF CountedAre
  <2> QED BY <2>1, <2>2, <2>5, SizeSame
<1>15. ASSUME NEW t \in Threads, FindReturn(t) PROVE SizeOK'
  <2>1. size' = size /\ List' = List /\ \A x \in List : item'[x] = item[x]
    BY <1>15 DEF FindReturn, At, shared, work, Goto, List
  <2>2. \A u \in Threads : /\ Inserted(u) /\ own[u] \in List => Inserted(u)' /\ own'[u] = own[u]
                           /\ Inserted(u)' /\ own'[u] \in List => Inserted(u) /\ own'[u] = own[u]
    BY <1>15, RestNow, StoreAssumption DEF FindReturn, At, shared, work, Goto, Inserted, Ensuring, RestOK, ScanSteps
  <2> QED BY <2>1, <2>2, SizeKept
<1>16. ASSUME NEW t \in Threads, NEW k \in Keys, RemoveCall(t, k) PROVE SizeOK'
  BY <1>16, SetupFixed DEF RemoveCall, At, SizeOK
<1>17. ASSUME NEW t \in Threads, RemoveDone(t) PROVE SizeOK'
  <2>1. Freed(t) /\ size' = size
    BY <1>17, DoneEffect DEF RemoveDone, At, Goto
  <2>2. List' = List /\ \A x \in List : item'[x] = item[x]
    BY <2>1, ItemFacts DEF Freed, OthersKept
  <2>3. \A u \in Threads : /\ Inserted(u) /\ own[u] \in List => Inserted(u)' /\ own'[u] = own[u]
                           /\ Inserted(u)' /\ own'[u] \in List => Inserted(u) /\ own'[u] = own[u]
    BY <2>1, WhereFacts DEF Freed, OthersSame
  <2> QED BY <2>1, <2>2, <2>3, SizeKept
<1>18. ASSUME NEW t \in Threads, EvictDone(t) PROVE SizeOK'
  <2>1. Freed(t) /\ size' = size
    BY <1>18, DoneEffect DEF EvictDone, At, Goto, Free
  <2>2. List' = List /\ \A x \in List : item'[x] = item[x]
    BY <2>1, ItemFacts DEF Freed, OthersKept
  <2>3. \A u \in Threads : /\ Inserted(u) /\ own[u] \in List => Inserted(u)' /\ own'[u] = own[u]
                           /\ Inserted(u)' /\ own'[u] \in List => Inserted(u) /\ own'[u] = own[u]
    BY <2>1, WhereFacts DEF Freed, OthersSame
  <2> QED BY <2>1, <2>2, <2>3, SizeKept
<1>19. ASSUME NEW t \in Threads, EmptyCall(t) PROVE SizeOK'
  <2>1. size' = size /\ List' = List /\ \A x \in List : item'[x] = item[x]
    BY <1>19 DEF EmptyCall, At, locals, Goto, Free, List
  <2>2. \A u \in Threads : /\ Inserted(u) /\ own[u] \in List => Inserted(u)' /\ own'[u] = own[u]
                           /\ Inserted(u)' /\ own'[u] \in List => Inserted(u) /\ own'[u] = own[u]
    BY <1>19, RestNow, StoreAssumption DEF EmptyCall, At, locals, Goto, Free, Inserted, Ensuring, RestOK, ScanSteps
  <2> QED BY <2>1, <2>2, SizeKept
<1>20. ASSUME NEW t \in Threads, EmptyReturn(t) PROVE SizeOK'
  <2>1. size' = size /\ List' = List /\ \A x \in List : item'[x] = item[x]
    BY <1>20 DEF EmptyReturn, At, locals, Goto, List
  <2>2. \A u \in Threads : /\ Inserted(u) /\ own[u] \in List => Inserted(u)' /\ own'[u] = own[u]
                           /\ Inserted(u)' /\ own'[u] \in List => Inserted(u) /\ own'[u] = own[u]
    BY <1>20, RestNow, StoreAssumption DEF EmptyReturn, At, locals, Goto, Inserted, Ensuring, RestOK, ScanSteps
  <2> QED BY <2>1, <2>2, SizeKept
<1>21. ASSUME NEW t \in Threads, NEW request \in Requests, MallocCall(t, request) PROVE SizeOK'
  <2>1. size' = size /\ List' = List /\ \A x \in List : item'[x] = item[x]
    BY <1>21 DEF MallocCall, At, Goto, Free, List
  <2>2. \A u \in Threads : /\ Inserted(u) /\ own[u] \in List => Inserted(u)' /\ own'[u] = own[u]
                           /\ Inserted(u)' /\ own'[u] \in List => Inserted(u) /\ own'[u] = own[u]
    BY <1>21, RestNow, StoreAssumption DEF MallocCall, At, Goto, Free, Inserted, Ensuring, RestOK, ScanSteps
  <2> QED BY <2>1, <2>2, SizeKept
<1>22. ASSUME NEW t \in Threads, ScavengeSkip(t) PROVE SizeOK'
  <2>1. size' = size /\ List' = List /\ \A x \in List : item'[x] = item[x]
    BY <1>22 DEF ScavengeSkip, At, shared, NextPhase, List
  <2>2. \A u \in Threads : /\ Inserted(u) /\ own[u] \in List => Inserted(u)' /\ own'[u] = own[u]
                           /\ Inserted(u)' /\ own'[u] \in List => Inserted(u) /\ own'[u] = own[u]
    BY <1>22, RestNow, StoreAssumption DEF ScavengeSkip, At, shared, NextPhase, Inserted, Ensuring, RestOK, ScanSteps
  <2> QED BY <2>1, <2>2, SizeKept
<1>23. ASSUME NEW t \in Threads, ScavengeStart(t) PROVE SizeOK'
  <2>1. size' = size /\ List' = List /\ \A x \in List : item'[x] = item[x]
    BY <1>23 DEF ScavengeStart, At, shared, NextPhase, Goto, List
  <2>2. \A u \in Threads : /\ Inserted(u) /\ own[u] \in List => Inserted(u)' /\ own'[u] = own[u]
                           /\ Inserted(u)' /\ own'[u] \in List => Inserted(u) /\ own'[u] = own[u]
    BY <1>23, RestNow, StoreAssumption DEF ScavengeStart, At, shared, NextPhase, Goto, Inserted, Ensuring, RestOK, ScanSteps
  <2> QED BY <2>1, <2>2, SizeKept
<1>24. ASSUME NEW t \in Threads, ScavengeFails(t) PROVE SizeOK'
  <2>1. size' = size /\ List' = List /\ \A x \in List : item'[x] = item[x]
    BY <1>24 DEF ScavengeFails, At, MallocEnds, Goto, List
  <2>2. \A u \in Threads : /\ Inserted(u) /\ own[u] \in List => Inserted(u)' /\ own'[u] = own[u]
                           /\ Inserted(u)' /\ own'[u] \in List => Inserted(u) /\ own'[u] = own[u]
    BY <1>24, RestNow, StoreAssumption DEF ScavengeFails, At, MallocEnds, Goto, Inserted, Ensuring, RestOK, ScanSteps
  <2> QED BY <2>1, <2>2, SizeKept
<1>25. ASSUME NEW t \in Threads, NEW percent \in Percents, ShrinkCall(t, percent) PROVE SizeOK'
  <2>1. size' = size /\ List' = List /\ \A x \in List : item'[x] = item[x]
    BY <1>25 DEF ShrinkCall, At, Goto, Free, List
  <2>2. \A u \in Threads : /\ Inserted(u) /\ own[u] \in List => Inserted(u)' /\ own'[u] = own[u]
                           /\ Inserted(u)' /\ own'[u] \in List => Inserted(u) /\ own'[u] = own[u]
    BY <1>25, RestNow, StoreAssumption DEF ShrinkCall, At, Goto, Free, Inserted, Ensuring, RestOK, ScanSteps
  <2> QED BY <2>1, <2>2, SizeKept
<1>26. ASSUME NEW t \in Threads, MallocRetry(t) PROVE SizeOK'
  <2>1. /\ size' = size /\ List' = List /\ item' = item /\ own' = own /\ after' = after
        /\ pc[t] = "scan_malloc"
        /\ pc' = [pc EXCEPT ![t] = "idle"] \/ pc' = [pc EXCEPT ![t] = "scavenge"]
    BY <1>26 DEF MallocRetry, At, MallocEnds, Goto, List
  <2>2. \A u \in Threads : Inserted(u)' = Inserted(u)
    BY <2>1, RestNow DEF Inserted, Ensuring, RestOK
  <2> QED BY <2>1, <2>2, SizeKept
<1>40. ASSUME NEW t \in Threads, MallocNextPhase(t) PROVE SizeOK'
  <2>1. /\ size' = size /\ List' = List /\ item' = item /\ own' = own /\ after' = after
        /\ pc[t] = "scan_malloc"
        /\ pc' = [pc EXCEPT ![t] = "idle"] \/ pc' = [pc EXCEPT ![t] = "scavenge"]
    BY <1>40 DEF MallocNextPhase, At, MallocEnds, Goto, List
  <2>2. \A u \in Threads : Inserted(u)' = Inserted(u)
    BY <2>1, RestNow DEF Inserted, Ensuring, RestOK
  <2> QED BY <2>1, <2>2, SizeKept
<1>27. ASSUME NEW t \in Threads, ShrinkReturn(t) PROVE SizeOK'
  <2>1. size' = size /\ List' = List /\ \A x \in List : item'[x] = item[x]
    BY <1>27 DEF ShrinkReturn, At, locals, Goto, List
  <2>2. \A u \in Threads : /\ Inserted(u) /\ own[u] \in List => Inserted(u)' /\ own'[u] = own[u]
                           /\ Inserted(u)' /\ own'[u] \in List => Inserted(u) /\ own'[u] = own[u]
    BY <1>27, RestNow, StoreAssumption DEF ShrinkReturn, At, locals, Goto, Inserted, Ensuring, RestOK, ScanSteps
  <2> QED BY <2>1, <2>2, SizeKept
<1>28. ASSUME NEW t \in Threads, NEW i, NEW pinned, NEW back, Evicting(t, i, pinned, back)
      PROVE  SizeOK'
  <2>1. Evicted(t, i, pinned) /\ size' = size - ValSize[item[i].val]
    BY <1>28, EvictEffect DEF Evicting, EvictItem
  <2>2. i \in Counted /\ Counted' = Counted \ {i}
    <3>1. /\ i \in List /\ List' = List \ {i} /\ own' = own
          /\ \A u \in Threads : own[u] # i /\ Inserted(u)' = Inserted(u)
      BY <2>1 DEF Evicted
    <3> QED BY <3>1, CountedNow, CountedNext DEF CountedAre
  <2>3. ItemSize' = ItemSize /\ ItemSize[i] = ValSize[item[i].val]
    BY <2>1, ItemFacts DEF Evicted, ItemSize
  <2>4. \A x \in Counted : ItemSize[x] \in Int
    BY CountedNow, SizesNow
  <2>5. SumFunctionOnSet(ItemSize, Counted \ {i}) = SumFunctionOnSet(ItemSize, Counted) - ItemSize[i]
    BY <2>2, <2>4, CountedNow, SumRemove
  <2>6. TotalSize(Counted)' = TotalSize(Counted) - ValSize[item[i].val]
    BY <2>2, <2>3, <2>5 DEF TotalSize
  <2> QED BY <2>1, <2>6, SetupFixed DEF SizeOK, SizeIsTotal
<1>29. ASSUME NEW t \in Threads, SpaceStart(t) \/ SpaceMore(t) \/ ScanEvict(t) \/ EmptyEvict(t)
      PROVE  SizeOK'
  BY <1>29, <1>28, EvictionSteps DEF Inv
<1>30. CASE UNCHANGED vars
  <2>1. size' = size /\ List' = List /\ \A x \in List : item'[x] = item[x]
    BY <1>30 DEF vars, shared, List
  <2>2. \A u \in Threads : /\ Inserted(u) /\ own[u] \in List => Inserted(u)' /\ own'[u] = own[u]
                           /\ Inserted(u)' /\ own'[u] \in List => Inserted(u) /\ own'[u] = own[u]
    BY <1>30 DEF vars, locals, Inserted, Ensuring
  <2> QED BY <2>1, <2>2, SizeKept
<1> QED BY <1>1, <1>2, <1>3, <1>4, <1>5, <1>6, <1>7, <1>8, <1>9, <1>10, <1>11, <1>12, <1>13,
        <1>14, <1>15, <1>16, <1>17, <1>18, <1>19, <1>20, <1>21, <1>22, <1>23, <1>24, <1>25,
        <1>26, <1>27, <1>28, <1>29, <1>30, <1>40
        DEF Next, Step, Call, Undefined


----------------------------------------------------------------------------
(* The end of a behaviour: once a call goes on with a freed item nothing is said. *)

\* No action is taken after that.
LEMMA TornIsEnd == ASSUME ~Intact, [Next]_vars PROVE UNCHANGED vars
<1>1. ASSUME NEW t \in Threads, Call(t) PROVE FALSE
  BY <1>1 DEF Call, MakeValue, DropValue, StoreCall, FindCall, RemoveCall, EmptyCall, MallocCall,
       ShrinkCall, At
<1>2. ASSUME NEW t \in Threads, Step(t) PROVE FALSE
  BY <1>2 DEF Step, StoreHashFails, StoreExisting, StoreReturnExisting, StoreInsert, StoreFits,
       StoreOverBudget, StoreGivesUp, StoreUnref, SpaceStart, SpaceUnpin, SpaceMore, SpaceReturn,
       FindReturn, RemoveDone, EvictDone, EmptyEvict, EmptyReturn, ScavengeSkip, ScavengeStart,
       ScavengeFails, ScanEvict, MallocRetry, MallocNextPhase, ShrinkReturn, At
<1> QED BY <1>1, <1>2 DEF Next, Undefined

\* The inductive invariant: types always, the rest up to that point.
IInv == TypeOK /\ (Intact => Inv /\ SizeOK)

\* It holds of the empty store ...
LEMMA IInvInit == Init => IInv
<1>1. ASSUME Init PROVE SizeOK
  <2>1. Counted = {}
    BY <1>1 DEF Init, Counted, ToSet
  <2> QED BY <1>1, <2>1, SumEmpty DEF Init, SizeOK, SizeIsTotal, TotalSize
<1> QED BY <1>1, InvInit DEF IInv, Inv

\* ... and every step keeps it.
LEMMA IInvStep == IInv /\ [Next]_vars => IInv'
<1> SUFFICES ASSUME IInv, [Next]_vars PROVE IInv'
  OBVIOUS
<1>1. CASE ~Intact
  <2>1. UNCHANGED vars
    BY <1>1, TornIsEnd
  <2>2. TypeOK' /\ ~Intact'
    BY <1>1, <2>1 DEF IInv, TypeOK, Intact, vars, shared, locals
  <2> QED BY <2>2 DEF IInv
<1>2. CASE Intact
  <2>1. Inv /\ SizeOK
    BY <1>2 DEF IInv
  <2>2. TypeOK'
    BY <2>1, TypeStep
  <2>3. ASSUME Intact' PROVE Inv' /\ SizeOK'
    BY <2>1, <2>3, InvStep, SizeStep
  <2> QED BY <2>2, <2>3 DEF IInv
<1> QED BY <1>1, <1>2

\* The invariant holds of every behaviour.
THEOREM Invariance == Spec => []IInv
  BY IInvInit, IInvStep, PTL DEF Spec

\* Type correctness of the store and of the calls on it.
THEOREM TypeCorrect == Spec => []TypeOK
<1>1. IInv => TypeOK
  BY DEF IInv
<1> QED BY <1>1, Invariance, PTL

\* The reference count of a value is the number of its owners: what the store
\* links or is about to link, callers, calls about to return the value or to give
\* the store's reference back, and pins of ensure_space.  None is lost while the
\* lock is dropped and none is counted twice, whatever the other threads do, until
\* one of them empties or removes an item that a call is working with.
THEOREM RefsAreExact == Spec => []RefsExact
<1>1. IInv => RefsExact
  BY DEF IInv, Inv, RefsExact
<1> QED BY <1>1, Invariance, PTL

\* The hash table and the list agree on what is cached, as long as nothing is torn
\* out of a call's hands.
THEOREM HashAgrees == Spec => []HashMatchesList
<1>1. IInv => HashMatchesList
  BY DEF IInv, Inv, HashMatchesList
<1> QED BY <1>1, Invariance, PTL

\* What a call goes on with after the lock was dropped is still allocated: the
\* item it stores or found, the one ensure_space goes on from, and what is linked.
\* Evictions, failed stores and finds by others never free it; only
\* fz_empty_store and fz_remove_item do, by taking that very item.
THEOREM NothingDangles == Spec => []NoDanglingItem
<1>1. ASSUME Inv PROVE ItemsLive
  <2>1. ASSUME NEW t \in Threads, pc[t] \in {"fit", "found", "existing", "insert"}
        PROVE  item[own[t]] # None
    BY <1>1, <2>1, ItemFacts DEF Making, Inserted, Using
  <2>2. ASSUME NEW t \in Threads, prev[t] # None PROVE item[prev[t]] # None
    BY <1>1, <2>2, ItemFacts
  <2>3. \A i \in ToSet(lru) : item[i] # None
    BY <1>1, ItemFacts DEF List
  <2> QED BY <2>1, <2>2, <2>3 DEF ItemsLive
<1>2. IInv => NoDanglingItem
  BY <1>1 DEF IInv, NoDanglingItem
<1> QED BY <1>2, Invariance, PTL

\* store->size is what the linked items take, those excepted that were found and
\* linked before their storer counted them, unless fz_remove_item is called.
THEOREM SizeIsExact == Spec => []SizeExact
<1>1. IInv => SizeExact
  BY DEF IInv, SizeOK, SizeExact
<1> QED BY <1>1, Invariance, PTL
=============================================================================
