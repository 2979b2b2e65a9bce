-------------------------- MODULE PpCore_proofs ---------------------------
(***************************************************************************)
(* Proofs about the two monitors of the shared core (platform/common), for *)
(* any number of threads.                                                  *)
(*                                                                         *)
(* The page cache, for any number of pages: it never shows a page through  *)
(* another page's display list, a render's page stays in its slot until    *)
(* the render ends, no cached list predates a finished edit, and the page  *)
(* that leaves the cache is the one used longest ago.                      *)
(*                                                                         *)
(* The alert monitor: the inductive invariant adds to the three invariants *)
(* that TLC checks the ownership of the two mutexes (a signal wakes        *)
(* everybody who must wake only because at most one thread sleeps on each  *)
(* condition) and the meaning of a pending reply flag.                     *)
(***************************************************************************)
EXTENDS PpPageCache, PdfAlerts, LibraryLemmas

-----------------------------------------------------------------------------
(* The page cache *)

\* What holds the four invariants together: whoever is past RenderBegin has
\* the lock, so nobody else can touch the slot it works on.
Rendering ==
    \A t \in Threads : pc[t] # "idle" => lock = t /\ cur[t] \in Slots

PagesKnown == \A s \in Slots : loaded[s] => page_index[s] \in Pages

IInv ==
    /\ TypeOK
    /\ PagesKnown
    /\ Rendering
    /\ ListsBelong
    /\ BorrowedPageStays
    /\ ListsCurrent

----------------------------------------------------------------------------
(* The slot a page goes to *)

\* The first slot of a set of slots is one of them.
LEMMA FirstSlot ==
    ASSUME NEW S \in SUBSET Slots, S # {}
    PROVE  (CHOOSE s \in S : \A r \in S : s <= r) \in S
<1>1. Slots = {0, 1, 2}
  BY PageCacheAssumption
<1>2. \E s \in S : \A r \in S : s <= r
  <2>1. CASE 0 \in S  BY <1>1, <2>1
  <2>2. CASE 0 \notin S /\ 1 \in S  BY <1>1, <2>2
  <2>3. CASE 0 \notin S /\ 1 \notin S
    <3>1. S = {2}  BY <1>1, <2>3
    <3> QED  BY <3>1
  <2> QED  BY <2>1, <2>2, <2>3
<1> QED  BY <1>2

\* pp_cache_choose_slot returns a slot whatever the cache holds.
LEMMA ChooseSlotType ==
    ASSUME TypeOK
    PROVE  ChooseSlot \in Slots
<1> DEFINE Older(s, r) == last_used[s] < last_used[r] \/ (last_used[s] = last_used[r] /\ s <= r)
<1>1. CASE FreeSlots # {}
  <2>1. FreeSlots \in SUBSET Slots  BY DEF FreeSlots
  <2>2. (CHOOSE s \in FreeSlots : \A r \in FreeSlots : s <= r) \in FreeSlots
    BY <1>1, <2>1, FirstSlot
  <2> QED  BY <1>1, <2>1, <2>2 DEF ChooseSlot
<1>2. CASE FreeSlots = {}
  <2>1. Slots = {0, 1, 2}  BY PageCacheAssumption
  <2>2. /\ last_used[0] \in Int /\ last_used[1] \in Int /\ last_used[2] \in Int
    BY <2>1, PageCacheAssumption DEF TypeOK
  <2>3. \E s \in Slots : \A r \in Slots : Older(s, r)
    <3>1. CASE Older(0, 1) /\ Older(0, 2)  BY <2>1, <2>2, <3>1
    <3>2. CASE ~Older(0, 1) /\ Older(1, 2)  BY <2>1, <2>2, <3>2
    <3>3. CASE ~Older(0, 2) /\ ~Older(1, 2)  BY <2>1, <2>2, <3>3
    <3>4. (Older(0, 1) /\ Older(0, 2)) \/ (~Older(0, 1) /\ Older(1, 2)) \/ (~Older(0, 2) /\ ~Older(1, 2))
      BY <2>2
    <3> QED  BY <3>1, <3>2, <3>3, <3>4
  <2> QED  BY <1>2, <2>3 DEF ChooseSlot
<1> QED  BY <1>1, <1>2

\* A page that is cached is found in its slot, otherwise it gets the chosen one.
LEMMA SlotForType ==
    ASSUME TypeOK, NEW p \in Pages
    PROVE  /\ SlotFor(p) \in Slots
           /\ Hits(p) # {} => loaded[SlotFor(p)] /\ page_index[SlotFor(p)] = p
           /\ Hits(p) = {} => SlotFor(p) = ChooseSlot
<1>1. Hits(p) \in SUBSET Slots  BY DEF Hits
<1>2. CASE Hits(p) # {}
  <2>1. SlotFor(p) \in Hits(p)  BY <1>1, <1>2, FirstSlot DEF SlotFor
  <2> QED  BY <1>2, <2>1 DEF Hits
<1>3. CASE Hits(p) = {}  BY <1>3, ChooseSlotType DEF SlotFor
<1> QED  BY <1>2, <1>3

----------------------------------------------------------------------------
(* What a look-up does to the cache *)

CacheInv ==
    /\ page_index \in [Slots -> Pages \cup {None}]
    /\ last_used \in [Slots -> 0 .. MaxUses] /\ use_counter \in 1 .. MaxUses
    /\ loaded \in [Slots -> BOOLEAN]
    /\ list \in [Slots -> Contained \cup {None}]
    /\ PagesKnown
    /\ ListsBelong
    /\ \A s \in Slots : list[s] # None => list[s].edits = done[list[s].page]

\* Finding a page keeps the slots well formed.
LEMMA FindPageKeeps ==
    ASSUME IInv, NEW p \in Pages, use_counter < MaxUses, FindPage(p), done' = done
    PROVE  CacheInv'
<1>1. SlotFor(p) \in Slots  BY SlotForType DEF IInv
<1>2. UNCHANGED <<page_index, loaded, list>>  BY DEF FindPage
<1>3. last_used' \in [Slots -> 0 .. MaxUses] /\ use_counter' \in 1 .. MaxUses
  BY <1>1, PageCacheAssumption DEF FindPage, IInv, TypeOK
<1> QED  BY <1>2, <1>3 DEF CacheInv, IInv, TypeOK, PagesKnown, ListsBelong, ListsCurrent, Contained

\* So does loading one.
LEMMA LoadPageKeeps ==
    ASSUME IInv, NEW p \in Pages, NEW ok \in BOOLEAN, use_counter < MaxUses, LoadPage(p, ok),
           \A q \in Pages : done'[q] # done[q] => q = p
    PROVE  CacheInv'
<1> DEFINE s == ChooseSlot
<1>1. s \in Slots  BY ChooseSlotType DEF IInv
<1>2. /\ page_index' = [page_index EXCEPT ![s] = p]
      /\ loaded' = [loaded EXCEPT ![s] = ok]
      /\ list' = [list EXCEPT ![s] = None]
      /\ \A r \in Slots : loaded[r] => page_index[r] # p
  BY DEF LoadPage, Hits
<1>3. last_used' \in [Slots -> 0 .. MaxUses] /\ use_counter' \in 1 .. MaxUses
  BY <1>1, PageCacheAssumption DEF LoadPage, IInv, TypeOK
<1> HIDE DEF s
<1>4. /\ page_index' \in [Slots -> Pages \cup {None}]
      /\ loaded' \in [Slots -> BOOLEAN]
      /\ list' \in [Slots -> Contained \cup {None}]
  BY <1>1, <1>2 DEF IInv, TypeOK
<1>5. PagesKnown'  BY <1>1, <1>2 DEF IInv, TypeOK, PagesKnown
<1>6. ListsBelong'  BY <1>1, <1>2 DEF IInv, TypeOK, ListsBelong
<1>7. \A r \in Slots : list'[r] # None => list'[r].edits = done'[list'[r].page]
  <2> SUFFICES ASSUME NEW r \in Slots, list'[r] # None
               PROVE  list'[r].edits = done'[list'[r].page]
    OBVIOUS
  <2>1. r # s /\ list'[r] = list[r] /\ list[r] # None  BY <1>1, <1>2 DEF IInv, TypeOK
  <2>2. loaded[r] /\ list[r].page = page_index[r] /\ page_index[r] # p /\ page_index[r] \in Pages
    BY <1>2, <2>1 DEF IInv, ListsBelong, PagesKnown
  <2> QED  BY <2>1, <2>2 DEF IInv, ListsCurrent
<1> QED  BY <1>3, <1>4, <1>5, <1>6, <1>7 DEF CacheInv
----------------------------------------------------------------------------
(* The invariant *)

\* The invariant holds of an empty cache.
THEOREM InitInv == Init => IInv
<1> SUFFICES ASSUME Init PROVE IInv
  OBVIOUS
<1> USE PageCacheAssumption DEF Init
<1>1. TypeOK  BY DEF TypeOK, Contained, Nothing
<1>2. PagesKnown /\ ListsBelong /\ ListsCurrent  BY DEF PagesKnown, ListsBelong, ListsCurrent
<1>3. Rendering /\ BorrowedPageStays  BY DEF Rendering, BorrowedPageStays
<1> QED  BY <1>1, <1>2, <1>3 DEF IInv

\* Without the lock nobody renders.
LEMMA LockFree ==
    ASSUME IInv, lock = None
    PROVE  \A t \in Threads : pc[t] = "idle"
BY PageCacheAssumption DEF IInv, Rendering

\* Only the lock's owner renders.
LEMMA LockOwner ==
    ASSUME IInv, NEW t \in Threads, pc[t] # "idle"
    PROVE  \A u \in Threads \ {t} : pc[u] = "idle"
BY DEF IInv, Rendering

\* A call that changes the cache and no thread, made while nobody renders.
LEMMA QuietCall ==
    ASSUME IInv, lock = None, CacheInv', done' \in [Pages -> 0 .. MaxEdits],
           UNCHANGED <<lock, pc, cur, wanted, aborted>>, shown' \in [Threads -> Contained]
    PROVE  IInv'
<1>1. \A t \in Threads : pc'[t] = "idle"  BY LockFree
<1>2. TypeOK'  BY DEF IInv, TypeOK, CacheInv
<1>3. Rendering' /\ BorrowedPageStays'  BY <1>1 DEF Rendering, BorrowedPageStays
<1> QED  BY <1>2, <1>3 DEF IInv, CacheInv, ListsCurrent

\* What the lists of a page hold, by type.
LEMMA ContentsType ==
    ASSUME IInv, NEW s \in Slots, loaded[s], NEW whole \in BOOLEAN
    PROVE  /\ Contents(s, whole) \in Contained
           /\ Contents(s, whole).page = page_index[s]
           /\ Contents(s, whole).edits = done[page_index[s]]
BY DEF IInv, TypeOK, PagesKnown, Contents, Contained

\* Every step keeps the invariant.
THEOREM NextInv == IInv /\ [Next]_vars => IInv'
<1> SUFFICES ASSUME IInv, [Next]_vars PROVE IInv'
  OBVIOUS
<1>1. ASSUME NEW t \in Threads, NEW p \in Pages, ReadPage(t, p) PROVE IInv'
  <2>1. CacheInv'  BY <1>1, FindPageKeeps, LoadPageKeeps DEF ReadPage, EnsurePage, EnsureFails
  <2>2. lock = None /\ done' \in [Pages -> 0 .. MaxEdits] /\ shown' \in [Threads -> Contained]
    BY <1>1 DEF ReadPage, Begin, IInv, TypeOK
  <2> QED  BY <1>1, <2>1, <2>2, QuietCall DEF ReadPage
<1>2. ASSUME NEW t \in Threads, NEW p \in Pages, EditDone(t, p) PROVE IInv'
  <2> DEFINE s == SlotFor(p)
  <2>1. s \in Slots /\ loaded[s] /\ page_index[s] = p  BY <1>2, SlotForType DEF EditDone, IInv
  <2>2. /\ list' = [list EXCEPT ![s] = None]
        /\ done' = [done EXCEPT ![p] = @ + 1]
        /\ UNCHANGED <<page_index, loaded>>
    BY <1>2 DEF EditDone
  <2>3. last_used' \in [Slots -> 0 .. MaxUses] /\ use_counter' \in 1 .. MaxUses
    BY <1>2, <2>1, PageCacheAssumption DEF EditDone, IInv, TypeOK
  <2> HIDE DEF s
  <2>4. list' \in [Slots -> Contained \cup {None}]  BY <2>1, <2>2 DEF IInv, TypeOK
  <2>5. done' \in [Pages -> 0 .. MaxEdits]
    BY <1>2, <2>2, PageCacheAssumption DEF EditDone, IInv, TypeOK
  <2>6. PagesKnown' /\ ListsBelong'
    BY <2>1, <2>2 DEF IInv, TypeOK, PagesKnown, ListsBelong
  <2>7. \A r \in Slots : list'[r] # None => list'[r].edits = done'[list'[r].page]
    <3> SUFFICES ASSUME NEW r \in Slots, list'[r] # None
                 PROVE  list'[r].edits = done'[list'[r].page]
      OBVIOUS
    <3>1. r # s /\ list'[r] = list[r] /\ list[r] # None  BY <2>1, <2>2 DEF IInv, TypeOK
    <3>2. loaded[r] /\ list[r].page = page_index[r] /\ page_index[r] # p /\ page_index[r] \in Pages
      BY <2>1, <3>1 DEF IInv, ListsBelong, PagesKnown
    <3> QED  BY <2>2, <3>1, <3>2 DEF IInv, ListsCurrent, TypeOK
  <2>8. CacheInv'  BY <2>2, <2>3, <2>4, <2>6, <2>7 DEF CacheInv, IInv, TypeOK
  <2>9. shown' \in [Threads -> Contained]  BY <1>2 DEF EditDone, IInv, TypeOK
  <2> QED  BY <1>2, <2>5, <2>8, <2>9, QuietCall DEF EditDone, Begin
<1>3. ASSUME NEW t \in Threads, NEW p \in Pages, EditLoaded(t, p) PROVE IInv'
  <2>1. done' \in [Pages -> 0 .. MaxEdits] /\ \A q \in Pages : done'[q] # done[q] => q = p
    BY <1>3, PageCacheAssumption DEF EditLoaded, IInv, TypeOK
  <2>2. CacheInv'  BY <1>3, <2>1, LoadPageKeeps DEF EditLoaded
  <2>3. shown' \in [Threads -> Contained]  BY <1>3 DEF EditLoaded, IInv, TypeOK
  <2> QED  BY <1>3, <2>1, <2>2, <2>3, QuietCall DEF EditLoaded, Begin
<1>4. ASSUME NEW t \in Threads, Reopen(t) PROVE IInv'
  <2>1. /\ page_index' \in [Slots -> Pages \cup {None}] /\ last_used' \in [Slots -> 0 .. MaxUses]
        /\ use_counter' \in 1 .. MaxUses /\ loaded' \in [Slots -> BOOLEAN]
        /\ list' \in [Slots -> Contained \cup {None}]
    BY <1>4, PageCacheAssumption DEF Reopen, IInv, TypeOK
  <2>2. CacheInv'  BY <1>4, <2>1 DEF Reopen, CacheInv, PagesKnown, ListsBelong
  <2>3. done' \in [Pages -> 0 .. MaxEdits] /\ shown' \in [Threads -> Contained]
    BY <1>4, PageCacheAssumption DEF Reopen, Nothing, Contained
  <2> QED  BY <1>4, <2>2, <2>3, QuietCall DEF Reopen, Begin
<1>5. ASSUME NEW t \in Threads, NEW p \in Pages, RenderBegin(t, p) PROVE IInv'
  <2>1. CacheInv'  BY <1>5, FindPageKeeps, LoadPageKeeps DEF RenderBegin, EnsurePage
  <2>2. SlotFor(p) \in Slots /\ loaded'[SlotFor(p)] /\ page_index'[SlotFor(p)] = p
    <3>1. CASE FindPage(p)  BY <3>1, SlotForType DEF FindPage, IInv
    <3>2. CASE LoadPage(p, TRUE)
      <4>1. SlotFor(p) = ChooseSlot /\ ChooseSlot \in Slots
        BY <3>2, SlotForType, ChooseSlotType DEF LoadPage, IInv
      <4> QED  BY <3>2, <4>1 DEF LoadPage, IInv, TypeOK
    <3> QED  BY <1>5, <3>1, <3>2 DEF RenderBegin, EnsurePage
  <2>3. \A u \in Threads : pc[u] = "idle"  BY <1>5, LockFree DEF RenderBegin, Begin
  <2>4. /\ cur' = [cur EXCEPT ![t] = SlotFor(p)] /\ wanted' = [wanted EXCEPT ![t] = p]
        /\ pc' = [pc EXCEPT ![t] = "record"] /\ lock' = t /\ UNCHANGED <<done, aborted>>
    BY <1>5 DEF RenderBegin, Goto
  <2>5. shown' \in [Threads -> Contained]
    BY <1>5, PageCacheAssumption DEF RenderBegin, IInv, TypeOK, Nothing, Contained
  <2>6. TypeOK'
    <3>1. cur' \in [Threads -> Slots \cup {None}] /\ wanted' \in [Threads -> Pages \cup {None}]
      BY <2>2, <2>4 DEF IInv, TypeOK
    <3>2. pc' \in [Threads -> {"idle", "record", "draw"}] /\ lock' \in Threads \cup {None}
      BY <2>4 DEF IInv, TypeOK
    <3> QED  BY <2>1, <2>4, <2>5, <3>1, <3>2 DEF CacheInv, IInv, TypeOK
  <2>7. Rendering' /\ BorrowedPageStays'
    BY <2>2, <2>3, <2>4 DEF IInv, TypeOK, Rendering, BorrowedPageStays
  <2> QED  BY <2>1, <2>6, <2>7 DEF IInv, CacheInv, ListsCurrent
<1>6. ASSUME NEW t \in Threads, RenderRecord(t) PROVE IInv'
  <2> DEFINE s == cur[t]
  <2>1. pc[t] # "idle" /\ s \in Slots /\ loaded[s]
    BY <1>6 DEF RenderRecord, IInv, Rendering, BorrowedPageStays
  <2>2. \/ UNCHANGED list
        \/ \E c \in Contained : /\ list' = [list EXCEPT ![s] = c]
                                /\ c.page = page_index[s] /\ c.edits = done[page_index[s]]
    <3>1. ASSUME NEW whole \in {TRUE, ~aborted[t]}, list' = [list EXCEPT ![s] = Contents(s, whole)]
          PROVE  \E c \in Contained : /\ list' = [list EXCEPT ![s] = c]
                                      /\ c.page = page_index[s] /\ c.edits = done[page_index[s]]
      <4>1. whole \in BOOLEAN  OBVIOUS
      <4>2. /\ Contents(s, whole) \in Contained
            /\ Contents(s, whole).page = page_index[s]
            /\ Contents(s, whole).edits = done[page_index[s]]
        BY <2>1, <4>1, ContentsType
      <4> QED  BY <3>1, <4>2
    <3> QED  BY <1>6, <3>1 DEF RenderRecord
  <2>3. pc' = [pc EXCEPT ![t] = "draw"]
        /\ UNCHANGED <<page_index, last_used, loaded, use_counter, done, lock, cur, wanted, aborted, shown>>
    BY <1>6 DEF RenderRecord, Goto
  <2> HIDE DEF s
  <2>4. list' \in [Slots -> Contained \cup {None}]  BY <2>1, <2>2 DEF IInv, TypeOK
  <2>5. TypeOK'  BY <2>3, <2>4 DEF IInv, TypeOK
  <2>6. ListsBelong'  BY <2>1, <2>2, <2>3 DEF IInv, TypeOK, ListsBelong
  <2>7. ListsCurrent'  BY <2>1, <2>2, <2>3 DEF IInv, TypeOK, ListsCurrent
  <2>8. PagesKnown' /\ Rendering' /\ BorrowedPageStays'
    BY <2>1, <2>3 DEF IInv, TypeOK, PagesKnown, Rendering, BorrowedPageStays
  <2> QED  BY <2>5, <2>6, <2>7, <2>8 DEF IInv
<1>7. ASSUME NEW t \in Threads, RenderEnd(t), shown' \in [Threads -> Contained] PROVE IInv'
  <2>1. \A u \in Threads : pc'[u] = "idle"
    BY <1>7, LockOwner DEF RenderEnd, Goto, IInv, TypeOK
  <2>2. TypeOK'  BY <1>7 DEF RenderEnd, Goto, cache, IInv, TypeOK
  <2>3. Rendering' /\ BorrowedPageStays'  BY <2>1 DEF Rendering, BorrowedPageStays
  <2>4. PagesKnown' /\ ListsBelong' /\ ListsCurrent'
    BY <1>7 DEF RenderEnd, cache, IInv, PagesKnown, ListsBelong, ListsCurrent
  <2> QED  BY <2>2, <2>3, <2>4 DEF IInv
<1>8. ASSUME NEW t \in Threads, RenderDone(t) PROVE IInv'
  <2>1. pc[t] # "idle" /\ cur[t] \in Slots /\ loaded[cur[t]]
    BY <1>8 DEF RenderDone, RenderEnd, IInv, Rendering, BorrowedPageStays
  <2>2. Contents(cur[t], TRUE) \in Contained  BY <2>1, ContentsType
  <2>3. list[cur[t]] # None => list[cur[t]] \in Contained  BY <2>1 DEF IInv, TypeOK
  <2>4. shown' \in [Threads -> Contained]
    BY <1>8, <2>2, <2>3 DEF RenderDone, IInv, TypeOK
  <2> QED  BY <1>7, <1>8, <2>4 DEF RenderDone
<1>9. ASSUME NEW t \in Threads, RenderFails(t) PROVE IInv'
  BY <1>7, <1>9 DEF RenderFails, IInv, TypeOK
<1>10. ASSUME NEW t \in Threads, CookieAbort(t) \/ CookieReset(t) PROVE IInv'
  <2>1. aborted' \in [Threads -> BOOLEAN]
        /\ UNCHANGED <<cache, done, lock, pc, cur, wanted, shown>>
    BY <1>10 DEF CookieAbort, CookieReset, IInv, TypeOK
  <2>2. TypeOK'  BY <2>1 DEF cache, IInv, TypeOK
  <2>3. Rendering' /\ BorrowedPageStays' /\ PagesKnown' /\ ListsBelong' /\ ListsCurrent'
    BY <2>1 DEF cache, IInv, Rendering, BorrowedPageStays, PagesKnown, ListsBelong, ListsCurrent
  <2> QED  BY <2>2, <2>3 DEF IInv
<1>11. CASE UNCHANGED vars
  <2>1. TypeOK'  BY <1>11 DEF vars, cache, IInv, TypeOK
  <2> QED  BY <1>11, <2>1 DEF vars, cache, IInv, Rendering, BorrowedPageStays, PagesKnown, ListsBelong, ListsCurrent
<1> QED  BY <1>1, <1>2, <1>3, <1>4, <1>5, <1>6, <1>8, <1>9, <1>10, <1>11 DEF Next

\* The inductive invariant holds of every behaviour.
THEOREM CacheInvariance == Spec => []IInv
<1>1. Init => IInv  BY InitInv
<1>2. IInv /\ [Next]_vars => IInv'  BY NextInv
<1> QED  BY <1>1, <1>2, PTL DEF Spec

\* Type correctness of the page cache.
THEOREM CacheTypeCorrect == Spec => []TypeOK
<1>1. IInv => TypeOK  BY DEF IInv
<1> QED  BY <1>1, CacheInvariance, PTL

\* No hit shows another page's contents.
THEOREM CacheListsBelong == Spec => []ListsBelong
<1>1. IInv => ListsBelong  BY DEF IInv
<1> QED  BY <1>1, CacheInvariance, PTL

\* The page a render works on stays where it is.
THEOREM CacheBorrowedPageStays == Spec => []BorrowedPageStays
<1>1. IInv => BorrowedPageStays  BY DEF IInv
<1> QED  BY <1>1, CacheInvariance, PTL

\* No cached list predates a finished edit.
THEOREM CacheListsCurrent == Spec => []ListsCurrent
<1>1. IInv => ListsCurrent  BY DEF IInv
<1> QED  BY <1>1, CacheInvariance, PTL

----------------------------------------------------------------------------
(* Eviction is least-recently-used. *)

\* last_used tells the cached pages apart in the order of their last use, of
\* which recency keeps the whole; and nothing cached was used before anything
\* that is not.
UseOrder ==
    /\ recency \in Seq(Pages) /\ IsInjective(recency)
    /\ \A s \in Slots : last_used[s] < use_counter
    /\ \A r, s \in Slots :
          loaded[r] /\ loaded[s] /\ Precedes(recency, page_index[r], page_index[s])
             => last_used[s] < last_used[r]
    /\ \A p, q : Cached(q) /\ Precedes(recency, p, q) => Cached(p)

\* A use puts a page first and leaves the order of the others.
LEMMA UsedFacts ==
    ASSUME recency \in Seq(Pages), IsInjective(recency), NEW p \in Pages
    PROVE  /\ Used(p) \in Seq(Pages) /\ IsInjective(Used(p))
           /\ \A x, y : Precedes(Used(p), x, y) => y # p /\ (x = p \/ Precedes(recency, x, y))
<1> DEFINE rest == RemoveFirst(recency, p)
<1>1. rest \in Seq(Pages) /\ IsInjective(rest) /\ p \notin ToSet(rest)
  BY RemoveFirstFacts
<1>2. Used(p) = <<p>> \o rest
  BY DEF Used
<1>3. ASSUME NEW x, NEW y, Precedes(rest, x, y) PROVE Precedes(recency, x, y)
  BY <1>3, RemoveFirstOrder
<1> HIDE DEF rest
<1>4. ASSUME NEW x, NEW y, Precedes(Used(p), x, y)
      PROVE  y \in ToSet(rest) /\ (x = p \/ Precedes(recency, x, y))
  <2>1. (x = p /\ y \in ToSet(rest)) \/ Precedes(rest, x, y)
    BY <1>1, <1>2, <1>4, ConsOrder
  <2>2. Precedes(rest, x, y) => y \in ToSet(rest)
    BY DEF Precedes, ToSet
  <2> QED BY <1>3, <2>1, <2>2
<1> QED  BY <1>1, <1>2, <1>4, ConsFacts

\* The slot that is taken when none is free is the one used longest ago.
LEMMA ChooseSlotOldest ==
    ASSUME TypeOK, FreeSlots = {}
    PROVE  \A r \in Slots : last_used[ChooseSlot] <= last_used[r]
<1> DEFINE Older(s, r) == last_used[s] < last_used[r] \/ (last_used[s] = last_used[r] /\ s <= r)
<1>1. Slots = {0, 1, 2}  BY PageCacheAssumption
<1>2. /\ last_used[0] \in Int /\ last_used[1] \in Int /\ last_used[2] \in Int
  BY <1>1, PageCacheAssumption DEF TypeOK
<1>3. \E s \in Slots : \A r \in Slots : Older(s, r)
  <2>1. CASE Older(0, 1) /\ Older(0, 2)  BY <1>1, <1>2, <2>1
  <2>2. CASE ~Older(0, 1) /\ Older(1, 2)  BY <1>1, <1>2, <2>2
  <2>3. CASE ~Older(0, 2) /\ ~Older(1, 2)  BY <1>1, <1>2, <2>3
  <2>4. (Older(0, 1) /\ Older(0, 2)) \/ (~Older(0, 1) /\ Older(1, 2)) \/ (~Older(0, 2) /\ ~Older(1, 2))
    BY <1>2
  <2> QED  BY <2>1, <2>2, <2>3, <2>4
<1>4. \A r \in Slots : Older(ChooseSlot, r)  BY <1>3 DEF ChooseSlot
<1> QED  BY <1>1, <1>2, <1>4, ChooseSlotType

\* A hit makes its slot the last one used.
LEMMA HitKeepsOrder ==
    ASSUME IInv, UseOrder, NEW p \in Pages, Hits(p) # {},
           last_used' = [last_used EXCEPT ![SlotFor(p)] = use_counter],
           use_counter' = use_counter + 1, recency' = Used(p),
           page_index' = page_index, loaded' = loaded
    PROVE  UseOrder'
<1> DEFINE h == SlotFor(p)
<1>1. h \in Slots /\ loaded[h] /\ page_index[h] = p  BY SlotForType DEF IInv
<1>2. /\ recency' \in Seq(Pages) /\ IsInjective(recency')
      /\ \A x, y : Precedes(recency', x, y) => y # p /\ (x = p \/ Precedes(recency, x, y))
  BY UsedFacts DEF UseOrder
<1>3. last_used \in [Slots -> Int] /\ use_counter \in Int
  BY PageCacheAssumption DEF IInv, TypeOK
<1> HIDE DEF h
<1>4. /\ last_used'[h] = use_counter
      /\ \A s \in Slots : s # h => last_used'[s] = last_used[s] /\ last_used[s] < use_counter
  BY <1>1, <1>3 DEF h, UseOrder
<1>5. \A s \in Slots : last_used'[s] < use_counter'  BY <1>3, <1>4
<1>6. ASSUME NEW r \in Slots, NEW s \in Slots, loaded'[r], loaded'[s],
             Precedes(recency', page_index'[r], page_index'[s])
      PROVE  last_used'[s] < last_used'[r]
  <2>1. s # h /\ (page_index[r] = p \/ Precedes(recency, page_index[r], page_index[s]))
    BY <1>1, <1>2, <1>6
  <2>2. CASE r = h  BY <1>4, <2>1, <2>2
  <2>3. CASE r # h
    <3>1. page_index[r] # p  BY <1>1, <1>6, <2>3 DEF IInv, ListsBelong
    <3> QED  BY <1>4, <1>6, <2>1, <2>3, <3>1 DEF UseOrder
  <2> QED  BY <2>2, <2>3
<1>7. ASSUME NEW x, NEW y, Cached(y)', Precedes(recency', x, y) PROVE Cached(x)'
  <2>1. x = p \/ Precedes(recency, x, y)  BY <1>2, <1>7
  <2>2. \A z : Cached(z)' <=> Cached(z)  BY DEF Cached
  <2>3. Cached(p)  BY <1>1 DEF Cached
  <2> QED  BY <1>7, <2>1, <2>2, <2>3 DEF UseOrder
<1> QED  BY <1>2, <1>5, <1>6, <1>7 DEF UseOrder

\* A load throws out the page used longest ago, if any, whether or not it fails.
LEMMA LoadKeepsOrder ==
    ASSUME IInv, UseOrder, NEW p \in Pages, NEW ok \in BOOLEAN, LoadPage(p, ok)
    PROVE  UseOrder'
<1> DEFINE v == ChooseSlot
<1>1. v \in Slots  BY ChooseSlotType DEF IInv
<1>2. /\ page_index' = [page_index EXCEPT ![v] = p] /\ loaded' = [loaded EXCEPT ![v] = ok]
      /\ last_used' = [last_used EXCEPT ![v] = use_counter] /\ use_counter' = use_counter + 1
      /\ \A r \in Slots : loaded[r] => page_index[r] # p
      /\ recency' = IF ok THEN Used(p) ELSE recency
  BY DEF LoadPage, Hits
<1>3. loaded[v] => \A r \in Slots : last_used[v] <= last_used[r]
  <2>1. CASE FreeSlots = {}  BY <2>1, ChooseSlotOldest DEF IInv
  <2>2. CASE FreeSlots # {}
    <3>1. FreeSlots \in SUBSET Slots  BY DEF FreeSlots
    <3>2. v \in FreeSlots  BY <2>2, <3>1, FirstSlot DEF ChooseSlot
    <3> QED  BY <3>2 DEF FreeSlots
  <2> QED  BY <2>1, <2>2
<1>4. last_used \in [Slots -> Int] /\ use_counter \in Int
  BY PageCacheAssumption DEF IInv, TypeOK
<1> HIDE DEF v
<1>5. /\ last_used'[v] = use_counter /\ page_index'[v] = p /\ loaded'[v] = ok
      /\ \A s \in Slots : s # v => /\ last_used'[s] = last_used[s] /\ last_used[s] < use_counter
                                   /\ page_index'[s] = page_index[s] /\ loaded'[s] = loaded[s]
  BY <1>1, <1>2, <1>4 DEF IInv, TypeOK, UseOrder
<1>6. /\ recency' \in Seq(Pages) /\ IsInjective(recency')
      /\ \A x, y : Precedes(recency', x, y) => (y # p /\ x = p /\ ok) \/ Precedes(recency, x, y)
      /\ ok => \A x, y : Precedes(recency', x, y) => y # p
  BY <1>2, UsedFacts DEF UseOrder
<1>7. \A s \in Slots : last_used'[s] < use_counter'  BY <1>2, <1>4, <1>5
<1>8. ASSUME NEW r \in Slots, NEW s \in Slots, loaded'[r], loaded'[s],
             Precedes(recency', page_index'[r], page_index'[s])
      PROVE  last_used'[s] < last_used'[r]
  <2>1. s # v  BY <1>5, <1>6, <1>8
  <2>2. CASE r = v  BY <1>5, <2>1, <2>2
  <2>3. CASE r # v
    <3>1. page_index[r] # p /\ page_index'[r] = page_index[r] /\ loaded[r]
      BY <1>2, <1>5, <1>8, <2>3
    <3>2. page_index'[s] = page_index[s] /\ loaded[s]  BY <1>5, <1>8, <2>1
    <3> QED  BY <1>5, <1>6, <1>8, <2>1, <2>3, <3>1, <3>2 DEF UseOrder
  <2> QED  BY <2>2, <2>3
<1>9. ASSUME NEW x, NEW y, Cached(y)', Precedes(recency', x, y) PROVE Cached(x)'
  <2>1. PICK s \in Slots : loaded'[s] /\ page_index'[s] = y  BY <1>9 DEF Cached
  <2>2. s # v
    BY <1>5, <1>6, <1>9, <2>1
  <2>3. loaded[s] /\ page_index[s] = y  BY <1>5, <2>1, <2>2
  <2>4. CASE ok /\ x = p  BY <1>1, <1>5, <2>4 DEF Cached
  <2>5. CASE Precedes(recency, x, y)
    <3>1. Cached(x)  BY <2>3, <2>5 DEF UseOrder, Cached
    <3>2. PICK r \in Slots : loaded[r] /\ page_index[r] = x  BY <3>1 DEF Cached
    <3>3. last_used[s] < last_used[r]  BY <2>3, <2>5, <3>2 DEF UseOrder
    <3>4. r # v
      <4>1. last_used[r] \in Int /\ last_used[s] \in Int  BY <1>4
      <4> QED  BY <1>3, <3>2, <3>3, <4>1
    <3> QED  BY <1>5, <3>2, <3>4 DEF Cached
  <2> QED  BY <1>6, <1>9, <2>4, <2>5
<1> QED  BY <1>6, <1>7, <1>8, <1>9 DEF UseOrder

\* The other steps change no slot and no use.
LEMMA SameOrder ==
    ASSUME UseOrder, UNCHANGED <<page_index, last_used, loaded, use_counter, recency>>
    PROVE  UseOrder'
<1>1. \A z : Cached(z)' <=> Cached(z)  BY DEF Cached
<1> QED  BY <1>1 DEF UseOrder

\* When a page is cached, so is every page used after it.
THEOREM CacheKeepsRecent == Spec => []KeepsRecent
<1>1. Init => UseOrder
  <2> SUFFICES ASSUME Init PROVE UseOrder
    OBVIOUS
  <2>1. recency = << >> /\ \A s \in Slots : ~loaded[s] /\ last_used[s] = 0
    BY DEF Init
  <2> QED  BY <2>1 DEF Init, UseOrder, IsInjective, Precedes, Cached
<1>2. ASSUME IInv, UseOrder, [Next]_vars PROVE UseOrder'
  <2>1. ASSUME NEW p \in Pages, NEW ok \in BOOLEAN, FindPage(p) \/ LoadPage(p, ok)
        PROVE  UseOrder'
    BY <1>2, <2>1, HitKeepsOrder, LoadKeepsOrder DEF FindPage
  <2>2. ASSUME NEW t \in Threads, NEW p \in Pages, ReadPage(t, p) PROVE UseOrder'
    BY <2>1, <2>2 DEF ReadPage, EnsurePage, EnsureFails
  <2>3. ASSUME NEW t \in Threads, NEW p \in Pages, EditDone(t, p) PROVE UseOrder'
    BY <1>2, <2>3, HitKeepsOrder DEF EditDone
  <2>4. ASSUME NEW t \in Threads, NEW p \in Pages, EditLoaded(t, p) PROVE UseOrder'
    BY <2>1, <2>4 DEF EditLoaded
  <2>5. ASSUME NEW t \in Threads, NEW p \in Pages, RenderBegin(t, p) PROVE UseOrder'
    BY <2>1, <2>5 DEF RenderBegin, EnsurePage
  <2>6. ASSUME NEW t \in Threads, Reopen(t) PROVE UseOrder'
    <3>1. /\ recency' = << >> /\ use_counter' = 1
          /\ \A s \in Slots : ~loaded'[s] /\ last_used'[s] = 0
      BY <2>6 DEF Reopen
    <3> QED  BY <3>1 DEF UseOrder, IsInjective, Precedes, Cached
  <2>7. ASSUME NEW t \in Threads, RenderRecord(t) \/ RenderDone(t) \/ RenderFails(t)
                                  \/ CookieAbort(t) \/ CookieReset(t)
        PROVE  UseOrder'
    BY <1>2, <2>7, SameOrder DEF RenderRecord, RenderDone, RenderFails, RenderEnd, CookieAbort,
       CookieReset, cache
  <2>8. CASE UNCHANGED vars
    BY <1>2, <2>8, SameOrder DEF vars, cache
  <2> QED  BY <1>2, <2>2, <2>3, <2>4, <2>5, <2>6, <2>7, <2>8 DEF Next
<1>3. UseOrder => KeepsRecent
  BY DEF UseOrder, KeepsRecent, Precedes
<1> QED  BY <1>1, <1>2, <1>3, CacheInvariance, PTL DEF Spec

-----------------------------------------------------------------------------
(* The alert monitor *)

\* A reply is pending only for the alert on display.
ReplyIsForCurrent ==
    alerts_active /\ alert_reply => current_alert # Null /\ current_alert \in answered

AlertsInv == AlertsTypeOK /\ FinLocksOwned /\ CurrentAlertAlive /\ NoLostWakeup /\ ReplyIsForCurrent

USE AlertsAssumption DEF AlertThreads

USE DEF ShowSteps, WaitSteps, UserSteps, DropSteps, ShowInside, WaitInside, life, flags, locks

\* The invariant holds at first.
LEMMA InitIInv == AlertsInit => AlertsInv
BY DEF AlertsInit, AlertsInv, AlertsTypeOK, FinLocksOwned, CurrentAlertAlive, NoLostWakeup, ReplyIsForCurrent

\* Waking sleepers keeps every thread among the steps of its own program.
PcOK ==
    /\ at \in [AlertThreads -> ShowSteps \cup WaitSteps \cup UserSteps \cup DropSteps]
    /\ \A s \in Showers : at[s] \in ShowSteps
    /\ \A w \in Waiters : at[w] \in WaitSteps
    /\ \A u \in Users : at[u] \in UserSteps
    /\ at[Dropper] \in DropSteps

\* A wakeup keeps the waiters' types.
LEMMA WakeTyped ==
    ASSUME PcOK, NEW woken, NEW t \in Users \cup {Dropper}, NEW step,
           t \in Users => step \in UserSteps, t = Dropper => step \in DropSteps,
           WakeAndGoOn(t, step, woken)
    PROVE  PcOK'
<1>1. step \in UserSteps \cup DropSteps
  OBVIOUS
<1>2. at' \in [AlertThreads -> ShowSteps \cup WaitSteps \cup UserSteps \cup DropSteps]
  BY <1>1 DEF PcOK, WakeAndGoOn
<1>3. /\ \A s \in Showers : at'[s] \in ShowSteps
      /\ \A w \in Waiters : at'[w] \in WaitSteps
  BY DEF PcOK, WakeAndGoOn
<1>4. /\ \A u \in Users : at'[u] \in UserSteps
      /\ at'[Dropper] \in DropSteps
  BY DEF PcOK, WakeAndGoOn
<1> QED BY <1>2, <1>3, <1>4 DEF PcOK

\* The thread that shows an alert keeps it.
LEMMA ShowKeepsIInv ==
    ASSUME AlertsInv, NEW s \in Showers, ShowCall(s) \/ ShowStep(s)
    PROVE  AlertsInv'
<1>1. CASE ShowCall(s)
  BY <1>1 DEF AlertsInv, AlertsTypeOK, FinLocksOwned, CurrentAlertAlive, NoLostWakeup, ReplyIsForCurrent, ShowCall, GoOn
<1>2. CASE ShowLockFin(s)
  BY <1>2 DEF AlertsInv, AlertsTypeOK, FinLocksOwned, CurrentAlertAlive, NoLostWakeup, ReplyIsForCurrent, ShowLockFin, GoOn
<1>3. CASE ShowInactive(s)
  BY <1>3 DEF AlertsInv, AlertsTypeOK, FinLocksOwned, CurrentAlertAlive, NoLostWakeup, ReplyIsForCurrent, ShowInactive, GoOn
<1>4. CASE ShowPublish(s)
  BY <1>4 DEF AlertsInv, AlertsTypeOK, FinLocksOwned, CurrentAlertAlive, NoLostWakeup, ReplyIsForCurrent, ShowPublish, life, flags, locks,
     SignalRequest, OneOf, WaitersBlocked, WakeAndGoOn
<1>5. CASE ShowSleepAgain(s)
  BY <1>5 DEF AlertsInv, AlertsTypeOK, FinLocksOwned, CurrentAlertAlive, NoLostWakeup, ReplyIsForCurrent, ShowSleepAgain, GoOn
<1>6. CASE ShowFinish(s)
  BY <1>6 DEF AlertsInv, AlertsTypeOK, FinLocksOwned, CurrentAlertAlive, NoLostWakeup, ReplyIsForCurrent, ShowFinish, GoOn
<1>7. CASE ShowReturn(s)
  BY <1>7 DEF AlertsInv, AlertsTypeOK, FinLocksOwned, CurrentAlertAlive, NoLostWakeup, ReplyIsForCurrent, ShowReturn, GoOn
<1> QED BY <1>1, <1>2, <1>3, <1>4, <1>5, <1>6, <1>7 DEF ShowStep

\* So does the one that waits for alerts,
LEMMA WaitKeepsIInv ==
    ASSUME AlertsInv, NEW w \in Waiters, WaitCall(w) \/ WaitStep(w)
    PROVE  AlertsInv'
<1>1. CASE WaitCall(w)
  BY <1>1 DEF AlertsInv, AlertsTypeOK, FinLocksOwned, CurrentAlertAlive, NoLostWakeup, ReplyIsForCurrent, WaitCall, GoOn
<1>2. CASE WaitLockFin(w)
  BY <1>2 DEF AlertsInv, AlertsTypeOK, FinLocksOwned, CurrentAlertAlive, NoLostWakeup, ReplyIsForCurrent, WaitLockFin, GoOn
<1>3. CASE WaitSleep(w)
  BY <1>3 DEF AlertsInv, AlertsTypeOK, FinLocksOwned, CurrentAlertAlive, NoLostWakeup, ReplyIsForCurrent, WaitSleep, GoOn
<1>4. CASE WaitTake(w)
  BY <1>4 DEF AlertsInv, AlertsTypeOK, FinLocksOwned, CurrentAlertAlive, NoLostWakeup, ReplyIsForCurrent, WaitTake, GoOn
<1>5. CASE WaitUnlockFin(w)
  BY <1>5 DEF AlertsInv, AlertsTypeOK, FinLocksOwned, CurrentAlertAlive, NoLostWakeup, ReplyIsForCurrent, WaitUnlockFin, GoOn
<1>6. CASE WaitCopy(w)
  BY <1>6 DEF AlertsInv, AlertsTypeOK, FinLocksOwned, CurrentAlertAlive, NoLostWakeup, ReplyIsForCurrent, WaitCopy, GoOn
<1> QED BY <1>1, <1>2, <1>3, <1>4, <1>5, <1>6 DEF WaitStep

\* so does the user's answer,
LEMMA UserKeepsIInv ==
    ASSUME AlertsInv, NEW u \in Users, NEW op \in UserSteps \ {"idle"}, NEW b \in Buttons,
           UserCall(u, op) \/ Start(u) \/ Stop(u) \/ Reply(u, b)
    PROVE  AlertsInv'
<1>1. CASE UserCall(u, op)
  BY <1>1 DEF AlertsInv, AlertsTypeOK, FinLocksOwned, CurrentAlertAlive, NoLostWakeup, ReplyIsForCurrent, UserCall, GoOn
<1>2. CASE Start(u)
  BY <1>2 DEF AlertsInv, AlertsTypeOK, FinLocksOwned, CurrentAlertAlive, NoLostWakeup, ReplyIsForCurrent, Start, GoOn
<1>3. CASE Stop(u)
  <2> USE <1>3 DEF AlertsInv, Stop, SignalBoth, OneOf, WaitersBlocked, ShowersBlocked, WakeAndGoOn
  <2>1. AlertsTypeOK'
    <3>1. PICK woken : WakeAndGoOn(u, "idle", woken)
      BY DEF SignalBoth
    <3>2. PcOK'
      BY <3>1, WakeTyped DEF PcOK, AlertsTypeOK
    <3> QED BY <3>2 DEF PcOK, AlertsTypeOK
  <2>2. FinLocksOwned'
    BY DEF AlertsTypeOK, FinLocksOwned
  <2>3. CurrentAlertAlive'
    BY DEF AlertsTypeOK, FinLocksOwned, CurrentAlertAlive
  <2>4. NoLostWakeup'
    BY DEF AlertsTypeOK, FinLocksOwned, CurrentAlertAlive, NoLostWakeup
  <2>5. ReplyIsForCurrent'
    BY DEF AlertsTypeOK, FinLocksOwned, CurrentAlertAlive, ReplyIsForCurrent
  <2> QED BY <2>1, <2>2, <2>3, <2>4, <2>5
<1>4. CASE Reply(u, b)
  <2> USE <1>4 DEF AlertsInv, Reply, GoOn, SignalReply, OneOf, WaitersBlocked, ShowersBlocked, WakeAndGoOn
  <2>1. AlertsTypeOK'
    <3>1. CASE alerts_active /\ current_alert # Null
      <4>1. PICK woken : WakeAndGoOn(u, "idle", woken)
        BY <3>1 DEF SignalReply
      <4>2. PcOK'
        BY <4>1, WakeTyped DEF PcOK, AlertsTypeOK
      <4> QED BY <3>1, <4>2 DEF PcOK, AlertsTypeOK
    <3>2. CASE ~(alerts_active /\ current_alert # Null)
      BY <3>2 DEF AlertsTypeOK
    <3> QED BY <3>1, <3>2
  <2>2. FinLocksOwned'
    BY DEF AlertsTypeOK, FinLocksOwned
  <2>3. CurrentAlertAlive'
    BY DEF AlertsTypeOK, FinLocksOwned, CurrentAlertAlive
  <2>4. NoLostWakeup'
    BY DEF AlertsTypeOK, FinLocksOwned, CurrentAlertAlive, NoLostWakeup
  <2>5. ReplyIsForCurrent'
    BY DEF AlertsTypeOK, FinLocksOwned, CurrentAlertAlive, ReplyIsForCurrent
  <2> QED BY <2>1, <2>2, <2>3, <2>4, <2>5
<1> QED BY <1>1, <1>2, <1>3, <1>4

\* so does dropping the document,
LEMMA DropKeepsIInv ==
    ASSUME AlertsInv, DropCall \/ DropStep \/ New
    PROVE  AlertsInv'
<1>1. CASE DropCall
  BY <1>1 DEF AlertsInv, AlertsTypeOK, FinLocksOwned, CurrentAlertAlive, NoLostWakeup, ReplyIsForCurrent, DropCall, GoOn
<1>2. CASE DropFlags
  <2> USE <1>2 DEF AlertsInv, DropFlags, SignalBoth, OneOf, WaitersBlocked, ShowersBlocked, WakeAndGoOn
  <2>1. AlertsTypeOK'
    <3>1. PICK woken : WakeAndGoOn(Dropper, "drop_fin", woken)
      BY DEF SignalBoth
    <3>2. PcOK'
      BY <3>1, WakeTyped DEF PcOK, AlertsTypeOK
    <3> QED BY <3>2 DEF PcOK, AlertsTypeOK
  <2>2. FinLocksOwned'
    BY DEF AlertsTypeOK, FinLocksOwned
  <2>3. CurrentAlertAlive'
    BY DEF AlertsTypeOK, FinLocksOwned, CurrentAlertAlive
  <2>4. NoLostWakeup'
    BY DEF AlertsTypeOK, FinLocksOwned, CurrentAlertAlive, NoLostWakeup
  <2>5. ReplyIsForCurrent'
    BY DEF AlertsTypeOK, FinLocksOwned, CurrentAlertAlive, ReplyIsForCurrent
  <2> QED BY <2>1, <2>2, <2>3, <2>4, <2>5
<1>3. CASE DropWaitFin
  <2> USE <1>3 DEF AlertsInv, DropWaitFin, GoOn
  <2>1. AlertsTypeOK'
    BY DEF AlertsTypeOK
  <2>2. FinLocksOwned'
    BY DEF AlertsTypeOK, FinLocksOwned
  <2>3. CurrentAlertAlive'
    BY DEF AlertsTypeOK, FinLocksOwned, CurrentAlertAlive
  <2>4. NoLostWakeup'
    BY DEF AlertsTypeOK, FinLocksOwned, CurrentAlertAlive, NoLostWakeup
  <2>5. ReplyIsForCurrent'
    BY DEF AlertsTypeOK, FinLocksOwned, CurrentAlertAlive, ReplyIsForCurrent
  <2> QED BY <2>1, <2>2, <2>3, <2>4, <2>5
<1>4. CASE DropWaitFin2
  <2> USE <1>4 DEF AlertsInv, DropWaitFin2, GoOn
  <2>1. AlertsTypeOK'
    BY DEF AlertsTypeOK
  <2>2. FinLocksOwned'
    BY DEF AlertsTypeOK, FinLocksOwned
  <2>3. CurrentAlertAlive'
    BY DEF AlertsTypeOK, FinLocksOwned, CurrentAlertAlive
  <2>4. NoLostWakeup'
    BY DEF AlertsTypeOK, FinLocksOwned, CurrentAlertAlive, NoLostWakeup
  <2>5. ReplyIsForCurrent'
    BY DEF AlertsTypeOK, FinLocksOwned, CurrentAlertAlive, ReplyIsForCurrent
  <2> QED BY <2>1, <2>2, <2>3, <2>4, <2>5
<1>5. CASE DropDestroy
  BY <1>5 DEF AlertsInv, AlertsTypeOK, FinLocksOwned, CurrentAlertAlive, NoLostWakeup, ReplyIsForCurrent, DropDestroy, GoOn
<1>6. CASE New
  BY <1>6 DEF AlertsInv, AlertsTypeOK, FinLocksOwned, CurrentAlertAlive, NoLostWakeup, ReplyIsForCurrent, New
<1> QED BY <1>1, <1>2, <1>3, <1>4, <1>5, <1>6 DEF DropStep

\* and so does a wakeup.
LEMMA WakeupKeepsIInv ==
    ASSUME AlertsInv, NEW t \in Showers \cup Waiters, SpuriousWakeup(t)
    PROVE  AlertsInv'
<1>1. CASE SpuriousWakeup(t)
  BY <1>1 DEF AlertsInv, AlertsTypeOK, FinLocksOwned, CurrentAlertAlive, NoLostWakeup, ReplyIsForCurrent, SpuriousWakeup, GoOn, OneOf, WaitersBlocked, ShowersBlocked, WakeAndGoOn
<1> QED BY <1>1

\* The inductive invariant, from the lemmas above.
THEOREM AlertsInvariance == AlertsSpec => []AlertsInv
<1>1. AlertsInit => AlertsInv
  BY InitIInv
<1>2. AlertsInv /\ [AlertsNext]_alertVars => AlertsInv'
  <2> SUFFICES ASSUME AlertsInv, [AlertsNext]_alertVars PROVE AlertsInv'
    OBVIOUS
  <2>1. CASE \E s \in Showers : ShowCall(s) \/ ShowStep(s)
    BY <2>1, ShowKeepsIInv
  <2>2. CASE \E w \in Waiters : WaitCall(w) \/ WaitStep(w)
    BY <2>2, WaitKeepsIInv
  <2>3. CASE \E u \in Users : UserStep(u) \/ \E op \in UserSteps \ {"idle"} : UserCall(u, op)
    BY <2>3, UserKeepsIInv DEF UserStep
  <2>4. CASE DropCall \/ DropStep \/ New
    BY <2>4, DropKeepsIInv
  <2>5. CASE \E t \in Showers \cup Waiters : SpuriousWakeup(t)
    BY <2>5, WakeupKeepsIInv
  <2>6. CASE UNCHANGED alertVars
    BY <2>6 DEF alertVars, AlertsInv, AlertsTypeOK, FinLocksOwned, CurrentAlertAlive, NoLostWakeup, ReplyIsForCurrent
  <2> QED BY <2>1, <2>2, <2>3, <2>4, <2>5, <2>6 DEF AlertsNext
<1> QED BY <1>1, <1>2, PTL DEF AlertsSpec

\* Every variable keeps its type.
THEOREM AlertsTypeCorrect == AlertsSpec => []AlertsTypeOK
BY AlertsInvariance, PTL DEF AlertsInv

\* A reply never writes into the event of a show call that has returned.
THEOREM CurrentAlertAliveHolds == AlertsSpec => []CurrentAlertAlive
BY AlertsInvariance, PTL DEF AlertsInv

\* No thread sleeps through the change it waits for.
THEOREM NoLostWakeupHolds == AlertsSpec => []NoLostWakeup
BY AlertsInvariance, PTL DEF AlertsInv

\* While alerts are active a show ends only with an answer to its own alert.
THEOREM ShowEndsAnsweredHolds == AlertsSpec => ShowEndsAnswered
<1>1. AlertsInv /\ [AlertsNext]_alertVars =>
        [\A s \in Showers :
            at[s] \in {"show_lock", "show_wait", "show_woken"} /\ at'[s] = "show_exit"
               => ~alerts_active \/ s \in answered]_alertVars
  <2> SUFFICES ASSUME AlertsInv, AlertsNext, NEW s \in Showers,
                      at[s] \in {"show_lock", "show_wait", "show_woken"}, at'[s] = "show_exit"
               PROVE  ~alerts_active \/ s \in answered
    OBVIOUS
  <2> USE DEF AlertsInv, AlertsTypeOK
  <2>1. CASE \E t \in Showers : ShowCall(t) \/ ShowStep(t)
    <3>1. PICK t \in Showers : ShowCall(t) \/ ShowStep(t)
      BY <2>1
    <3>2. CASE t = s
      <4>1. ~ShowCall(s) /\ ~ShowLockFin(s) /\ ~ShowSleepAgain(s) /\ ~ShowReturn(s)
        BY DEF ShowCall, ShowLockFin, ShowSleepAgain, ShowReturn, GoOn
      <4>2. CASE ShowInactive(s)
        BY <4>2 DEF ShowInactive
      <4>3. CASE ShowPublish(s)
        \* another alert on display would own fin_lock2
        BY <4>3 DEF ShowPublish, FinLocksOwned, CurrentAlertAlive, ReplyIsForCurrent,
           SignalRequest, OneOf, WaitersBlocked, WakeAndGoOn
      <4>4. CASE ShowFinish(s)
        BY <4>4 DEF ShowFinish, FinLocksOwned, CurrentAlertAlive, ReplyIsForCurrent
      <4> QED BY <3>1, <3>2, <4>1, <4>2, <4>3, <4>4 DEF ShowStep
    <3>3. CASE t # s
      BY <3>1, <3>3 DEF ShowStep, ShowCall, ShowLockFin, ShowInactive, ShowPublish, ShowSleepAgain, ShowFinish,
         ShowReturn, GoOn, SignalRequest, OneOf, WaitersBlocked, WakeAndGoOn
    <3> QED BY <3>2, <3>3
  <2>2. CASE \E w \in Waiters : WaitCall(w) \/ WaitStep(w)
    BY <2>2 DEF WaitStep, WaitCall, WaitLockFin, WaitSleep, WaitTake, WaitUnlockFin, WaitCopy, GoOn
  <2>3. CASE \E u \in Users : UserStep(u) \/ \E op \in UserSteps \ {"idle"} : UserCall(u, op)
    BY <2>3 DEF UserStep, UserCall, Start, Stop, Reply, GoOn, SignalReply, SignalBoth, OneOf,
       WaitersBlocked, ShowersBlocked, WakeAndGoOn
  <2>4. CASE DropCall \/ DropStep \/ New
    BY <2>4 DEF DropStep, DropCall, DropFlags, DropWaitFin, DropWaitFin2, DropDestroy, New, GoOn,
       SignalBoth, OneOf, WaitersBlocked, ShowersBlocked, WakeAndGoOn
  <2>5. CASE \E t \in Showers \cup Waiters : SpuriousWakeup(t)
    BY <2>5 DEF SpuriousWakeup, GoOn, WaitersBlocked, ShowersBlocked
  <2> QED BY <2>1, <2>2, <2>3, <2>4, <2>5 DEF AlertsNext
<1> QED BY <1>1, AlertsInvariance, PTL DEF AlertsSpec, ShowEndsAnswered
=============================================================================
