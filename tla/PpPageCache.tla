---------------------------- MODULE PpPageCache ----------------------------
(***************************************************************************)
(* The page cache of a pp_doc (platform/common/pp_core_cache.c) and the    *)
(* calls that work on a cached page: rendering through a display list      *)
(* (pp_core_render.c), edits of annotations and form fields, and calls     *)
(* that only read the page.                                                *)
(*                                                                         *)
(* Every call holds pp->lock from start to end, so a call is one action,   *)
(* except a render: its cookie may be aborted by another thread at any     *)
(* point, without the lock.  A render is three actions: find the page,     *)
(* record its display list, draw.                                          *)
(***************************************************************************)
EXTENDS Integers, SequencesExt

CONSTANTS
    Threads,
    Pages,          \* page indices
    Slots,          \* indices of doc->pages: 0 .. 2
    MaxUses,        \* bound of the model: use_counter goes no further
    MaxEdits,       \* bound of the model: edits of a page
    None

ASSUME PageCacheAssumption ==
    /\ Slots = 0 .. 2
    /\ MaxUses \in Nat \ {0} /\ MaxEdits \in Nat
    /\ None \notin Pages \cup Threads

VARIABLES
    page_index, last_used,  \* of each slot
    loaded,                 \* page # NULL
    list,                   \* the display list of the slot: what it holds, or None
    use_counter,
    done,                   \* of each page: edits that a call reported as done
    lock, pc,               \* pp->lock; step of each thread
    cur, wanted,            \* of each thread: the slot it uses, for which page
    aborted,                \* of each thread: cookie->abort
    shown,                  \* what the last render of each thread drew
    recency                 \* history: pages in order of last use, latest first

cache == <<page_index, last_used, loaded, list, use_counter, recency>>
vars == <<cache, done, lock, pc, cur, wanted, aborted, shown>>

Nothing == [page |-> None, whole |-> FALSE, edits |-> 0]

Init ==
    /\ page_index = [s \in Slots |-> None]
    /\ last_used = [s \in Slots |-> 0]
    /\ loaded = [s \in Slots |-> FALSE]
    /\ list = [s \in Slots |-> None]
    /\ use_counter = 1
    /\ done = [p \in Pages |-> 0]
    /\ lock = None
    /\ pc = [t \in Threads |-> "idle"]
    /\ cur = [t \in Threads |-> None]
    /\ wanted = [t \in Threads |-> None]
    /\ aborted = [t \in Threads |-> FALSE]
    /\ shown = [t \in Threads |-> Nothing]
    /\ recency = <<>>

Goto(t, step) == pc' = [pc EXCEPT ![t] = step]

----------------------------------------------------------------------------
(* The cache *)

Hits(p) == {s \in Slots : loaded[s] /\ page_index[s] = p}

\* pp_cache_choose_slot: the first free slot, otherwise the least recently used.
FreeSlots == {s \in Slots : ~loaded[s]}
ChooseSlot ==
    IF FreeSlots # {}
    THEN CHOOSE s \in FreeSlots : \A r \in FreeSlots : s <= r
    ELSE CHOOSE s \in Slots : \A r \in Slots : \/ last_used[s] < last_used[r]
                                              \/ (last_used[s] = last_used[r] /\ s <= r)

SlotFor(p) == IF Hits(p) # {} THEN CHOOSE s \in Hits(p) : \A r \in Hits(p) : s <= r
              ELSE ChooseSlot

Used(p) == <<p>> \o RemoveFirst(recency, p)

\* Mutant of FindPage: a hit does not count as a use.
FindPageFifo(p) ==
    /\ Hits(p) # {}
    /\ recency' = Used(p)
    /\ UNCHANGED <<last_used, use_counter, page_index, loaded, list>>

\* pp_cache_ensure_page_locked finds the page ...
FindPage(p) ==
    /\ Hits(p) # {}
    /\ last_used' = [last_used EXCEPT ![SlotFor(p)] = use_counter]
    /\ use_counter' = use_counter + 1
    /\ recency' = Used(p)
    /\ UNCHANGED <<page_index, loaded, list>>

\* Mutant of LoadPage: the display list of the page thrown out stays.
LoadPageKeepingList(p, ok) ==
    /\ Hits(p) = {}
    /\ page_index' = [page_index EXCEPT ![ChooseSlot] = p]
    /\ last_used' = [last_used EXCEPT ![ChooseSlot] = use_counter]
    /\ use_counter' = use_counter + 1
    /\ loaded' = [loaded EXCEPT ![ChooseSlot] = ok]
    /\ recency' = Used(p)
    /\ UNCHANGED list

\* ... or loads it into a slot; when fz_load_page throws, the slot has an
\* index but no page.
LoadPage(p, ok) ==
    /\ Hits(p) = {}
    /\ page_index' = [page_index EXCEPT ![ChooseSlot] = p]
    /\ last_used' = [last_used EXCEPT ![ChooseSlot] = use_counter]
    /\ use_counter' = use_counter + 1
    /\ loaded' = [loaded EXCEPT ![ChooseSlot] = ok]
    /\ list' = [list EXCEPT ![ChooseSlot] = None]
    /\ recency' = IF ok THEN Used(p) ELSE recency

EnsurePage(p) == use_counter < MaxUses /\ (FindPage(p) \/ LoadPage(p, TRUE))
EnsureFails(p) == use_counter < MaxUses /\ LoadPage(p, FALSE)

----------------------------------------------------------------------------
(* Calls that hold the lock for all they do *)

Begin(t) == pc[t] = "idle" /\ lock = None

\* Page size, text, search, lists of annotations and widgets.
ReadPage(t, p) ==
    /\ Begin(t)
    /\ EnsurePage(p) \/ EnsureFails(p)
    /\ UNCHANGED <<done, lock, pc, cur, wanted, aborted, shown>>

\* Mutant of EditDone: the display list survives the edit.
EditDoneKeepingList(t, p) ==
    /\ Begin(t) /\ Hits(p) # {} /\ done[p] < MaxEdits /\ use_counter < MaxUses
    /\ FindPage(p)
    /\ done' = [done EXCEPT ![p] = @ + 1]
    /\ UNCHANGED <<lock, pc, cur, wanted, aborted, shown>>

\* An edit of a cached page that returns 1: the page's display list is dropped.
EditDone(t, p) ==
    /\ Begin(t) /\ Hits(p) # {} /\ done[p] < MaxEdits /\ use_counter < MaxUses
    /\ last_used' = [last_used EXCEPT ![SlotFor(p)] = use_counter]
    /\ use_counter' = use_counter + 1
    /\ list' = [list EXCEPT ![SlotFor(p)] = None]
    /\ done' = [done EXCEPT ![p] = @ + 1]
    /\ recency' = Used(p)
    /\ UNCHANGED <<page_index, loaded, lock, pc, cur, wanted, aborted, shown>>

\* The same on a page that had to be loaded, and so has no display list.
EditLoaded(t, p) ==
    /\ Begin(t) /\ done[p] < MaxEdits /\ use_counter < MaxUses
    /\ LoadPage(p, TRUE)
    /\ done' = [done EXCEPT ![p] = @ + 1]
    /\ UNCHANGED <<lock, pc, cur, wanted, aborted, shown>>

\* An edit that returns 0 leaves the display list; ReadPage stands for it.

\* Mutant of Reopen: pp_open leaves the counter as calloc made it, and the
\* first page loaded is marked as never used.
ReopenZeroed(t) ==
    /\ Begin(t) /\ \A u \in Threads : pc[u] = "idle"
    /\ page_index' = [s \in Slots |-> None]
    /\ last_used' = [s \in Slots |-> 0]
    /\ loaded' = [s \in Slots |-> FALSE]
    /\ list' = [s \in Slots |-> None]
    /\ use_counter' = 0
    /\ recency' = <<>>
    /\ done' = [p \in Pages |-> 0]
    /\ shown' = [u \in Threads |-> Nothing]
    /\ UNCHANGED <<lock, pc, cur, wanted, aborted>>

\* pp_close, and pp_open of the next document.
Reopen(t) ==
    /\ Begin(t) /\ \A u \in Threads : pc[u] = "idle"
    /\ page_index' = [s \in Slots |-> None]
    /\ last_used' = [s \in Slots |-> 0]
    /\ loaded' = [s \in Slots |-> FALSE]
    /\ list' = [s \in Slots |-> None]
    /\ use_counter' = 1
    /\ recency' = <<>>
    /\ done' = [p \in Pages |-> 0]
    /\ shown' = [u \in Threads |-> Nothing]
    /\ UNCHANGED <<lock, pc, cur, wanted, aborted>>

----------------------------------------------------------------------------
(* pp_render_patch_rgba *)

\* Mutant of RenderBegin: the lock is given back once the page is found.
RenderBeginUnlocked(t, p) ==
    /\ Begin(t)
    /\ EnsurePage(p)
    /\ cur' = [cur EXCEPT ![t] = SlotFor(p)]
    /\ wanted' = [wanted EXCEPT ![t] = p]
    /\ shown' = [shown EXCEPT ![t] = Nothing]
    /\ Goto(t, "record")
    /\ UNCHANGED <<done, lock, aborted>>

RenderBegin(t, p) ==
    /\ Begin(t)
    /\ EnsurePage(p)
    /\ cur' = [cur EXCEPT ![t] = SlotFor(p)]
    /\ wanted' = [wanted EXCEPT ![t] = p]
    /\ lock' = t
    /\ shown' = [shown EXCEPT ![t] = Nothing]
    /\ Goto(t, "record")
    /\ UNCHANGED <<done, aborted>>

Contents(s, whole) == [page |-> page_index[s], whole |-> whole, edits |-> done[page_index[s]]]

\* pp_cache_ensure_display_list_locked: with the cookie aborted the page stops
\* running early, without an exception, and the list is kept all the same.  An
\* exception leaves the page without a list.
RenderRecord(t) ==
    /\ pc[t] = "record"
    /\ \/ list[cur[t]] # None /\ UNCHANGED list
       \/ /\ list[cur[t]] = None
          /\ \/ \E whole \in {TRUE, ~aborted[t]} : list' = [list EXCEPT ![cur[t]] = Contents(cur[t], whole)]
             \/ UNCHANGED list
    /\ Goto(t, "draw")
    /\ UNCHANGED <<page_index, last_used, loaded, use_counter, recency, done, lock, cur, wanted, aborted, shown>>

RenderEnd(t) ==
    /\ pc[t] = "draw"
    /\ lock' = None
    /\ cur' = [cur EXCEPT ![t] = None]
    /\ wanted' = [wanted EXCEPT ![t] = None]
    /\ Goto(t, "idle")
    /\ UNCHANGED <<cache, done, aborted>>

\* pp_render_patch_rgba_impl draws the list, or without one the page, and
\* returns 1 unless the cookie was aborted by then.
RenderDone(t) ==
    /\ ~aborted[t]
    /\ RenderEnd(t)
    /\ shown' = [shown EXCEPT ![t] = IF list[cur[t]] # None THEN list[cur[t]]
                                     ELSE Contents(cur[t], TRUE)]

\* Aborted, or an exception: returns 0.
RenderFails(t) == RenderEnd(t) /\ UNCHANGED shown

\* pp_cookie_abort, from any thread
CookieAbort(t) ==
    /\ ~aborted[t]
    /\ aborted' = [aborted EXCEPT ![t] = TRUE]
    /\ UNCHANGED <<cache, done, lock, pc, cur, wanted, shown>>

\* pp_cookie_reset, between renders
CookieReset(t) ==
    /\ pc[t] = "idle" /\ aborted[t]
    /\ aborted' = [aborted EXCEPT ![t] = FALSE]
    /\ UNCHANGED <<cache, done, lock, pc, cur, wanted, shown>>

Next ==
    \E t \in Threads :
        \/ \E p \in Pages : \/ ReadPage(t, p) \/ EditDone(t, p) \/ EditLoaded(t, p)
                            \/ RenderBegin(t, p)
        \/ RenderRecord(t) \/ RenderDone(t) \/ RenderFails(t)
        \/ CookieAbort(t) \/ CookieReset(t) \/ Reopen(t)

Spec == Init /\ [][Next]_vars

----------------------------------------------------------------------------
Contained == [page : Pages \cup {None}, whole : BOOLEAN, edits : 0 .. MaxEdits]

TypeOK ==
    /\ page_index \in [Slots -> Pages \cup {None}]
    /\ last_used \in [Slots -> 0 .. MaxUses] /\ use_counter \in 1 .. MaxUses
    /\ loaded \in [Slots -> BOOLEAN]
    /\ list \in [Slots -> Contained \cup {None}]
    /\ done \in [Pages -> 0 .. MaxEdits]
    /\ lock \in Threads \cup {None}
    /\ pc \in [Threads -> {"idle", "record", "draw"}]
    /\ cur \in [Threads -> Slots \cup {None}] /\ wanted \in [Threads -> Pages \cup {None}]
    /\ aborted \in [Threads -> BOOLEAN]
    /\ shown \in [Threads -> Contained]

\* A page is in one slot at most, and a slot that lost its page (or never got
\* it) holds no display list: a hit never shows another page's contents.
ListsBelong ==
    /\ \A r, s \in Slots : loaded[r] /\ loaded[s] /\ page_index[r] = page_index[s] => r = s
    /\ \A s \in Slots : list[s] # None => loaded[s] /\ list[s].page = page_index[s]

\* The page a render borrowed from the cache is still in its slot while the
\* render records and draws ("Keep the lock held for the render",
\* pp_core_render.c:244).
BorrowedPageStays ==
    \A t \in Threads : pc[t] # "idle" => loaded[cur[t]] /\ page_index[cur[t]] = wanted[t]

\* "Invalidate cached display list for this page so subsequent renders see the
\* new annotation" (pp_core_pdf_annots_ink.c:216): no cached list is older than
\* an edit that was reported as done.
ListsCurrent == \A s \in Slots : list[s] # None => list[s].edits = done[list[s].page]

\* Eviction is least-recently-used: when a page is cached, so is every page
\* used after it, whatever loads failed in between.
Cached(p) == \E s \in Slots : loaded[s] /\ page_index[s] = p
KeepsRecent ==
    \A i, j \in DOMAIN recency : i < j /\ Cached(recency[j]) => Cached(recency[i])

\* A render that returned 1 drew the whole page.
RendersWhole == \A t \in Threads : shown[t].page # None => shown[t].whole
=============================================================================
