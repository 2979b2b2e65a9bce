# A verification project for OpenDroidPDF

TLA+ models of OpenDroidPDF, the TLC runs that check them on small instances
and TLAPS proofs of the properties that matter most for every instance.
Paths are relative to the repository. Run `tlc -config X.cfg M` on a module and
`tlapm M_proofs.tla` on a proof module; `PROJECT.json` lists the runs, the source
lines every definition stands for, and, for each property of a passing run, a
mutant of the code that the property catches.

## 1. The system

OpenDroidPDF is an Android viewer and annotator for PDF, EPUB, XPS and CBZ.
Four layers call downwards:

| layer | where | what it keeps |
|---|---|---|
| application | `platform/android/src/org/opendroidpdf` (Java, Kotlin) | the open document, pages on screen, undo stacks, sidecar annotations, preferences |
| JNI bridge | `platform/android/jni/*.c` | a `globals` structure per document: a page cache, the alert monitor |
| shared core | `platform/common/pp_core*.c` | `pp_ctx`, `pp_doc`: a lock, a cache of pages and display lists, cookies, alerts |
| MuPDF fork | `source/`, `include/` | contexts, the exception stack, the resource store, the hash tables, PDF objects, renderers |

### Components, state, operations and what makes them correct

**PDF alert monitor** (`platform/common/pp_core_alerts.c`). State: the flags
`alerts_active`, `alert_request`, `alert_reply`, the pointer `current_alert`, two
mutexes held across condition waits and a third that guards the flags.
Operations: `start`, `stop`, `show` (called back by the JavaScript of a document,
blocks until answered), `wait` (blocks until there is an alert), `reply`, `drop`.
Threads meet here, and sleep here: a signal must not be lost, a reply must not
answer the wrong alert, and `current_alert` is a pointer into the frame of a
thread that may return.

**Fitz hash table** (`source/fitz/hash.c`). State: an open-addressed array, its
size and load. Operations: find, insert, remove, clear; growing drops the
allocator lock around `malloc` and `free`. It must remain a map, and every probe
must end.

**Fitz resource store** (`source/fitz/store.c`, `memory.c`). State: items in an LRU
list and a hash table, reference counts of their values, the total size.
Operations: store, find, remove, empty, shrink, and the scavenging allocator,
shared by the threads of cloned contexts. Freeing a value drops the lock in the
middle of a traversal. Counts, list, hash and size must agree whenever the lock is
free, and nothing may be used after it is freed.

**Page cache and renderer of the shared core** (`pp_core_cache.c`,
`pp_core_render.c`, `pp_core_cookie.c`). State: three slots of page, bounds, display list and
time of last use, under the lock of the document; a cookie per render, set without the
lock. Operations: every page call finds or loads its page; a render records and draws a
display list; an edit drops it. A list must be that of its page, complete and
current, and a page in use must stay.

**Fitz exceptions** (`source/fitz/error.c`, `include/mupdf/fitz/context.h`). State: a stack of
256 jump buffers and codes. Operations: the macros `fz_try`, `fz_always`, `fz_catch`,
and `fz_throw`, `fz_rethrow`. All of the C code relies on `always` running once, `catch`
running exactly after a throw, and the stack being balanced.

**Ink and text of a page, and their undo** (`app/drawing/InkController.java`,
`app/annotation/InkUndoController.java`, `UndoMatcher.java`, `TextAnnotation*.java`,
`DrawingController.java`). State: the pending strokes and their history; a stack of committed ink,
each item the index, number, bounds and strokes found after its commit; undo and redo stacks of
operations on text and markup. Operations: draw, commit, erase, add, restyle, remove, undo, redo; adding
text or markup runs on an I/O thread in several native calls. An undo must take off the page what its
commit put there, though indices move as other edits are made, a failed commit must lose no
stroke, and a job must not take another's annotation for its own.

**Sidecar annotations** (`app/sidecar`). State: SQLite rows; a session of one document and
layout with a cache per page and kind; undo and redo stacks. Operations: add, remove,
restore, update, undo, redo, import of a bundle, re-anchoring, migration of a
document id. The caches must show what the rows hold, undo must restore them,
and a process killed at any point must lose nothing that was shown as saved.

**PDF objects and cross-reference sections** (`source/pdf/pdf-xref.c`, `pdf-object.c`,
`pdf-write.c`). State: the sections of the file behind the increments of this session, an index that
caches where the search for an object starts, objects in memory that callers point to.
Operations: find, load, drop, edit (which moves the object into the newest increment), replace a
stream, create, delete, sign (which closes the increment), save incrementally or in full. An object must read
as last edited through every pointer, a signed version must be saved as signed, and what is saved must
be what was edited.

**Page views and their jobs** (`PageView.java`, `app/overlay/PagePatchView.java`,
`app/content/PageContentController.java`, `core/DocumentContentController.kt`). State: a view that is given pages in
turn, with a patch of the whole page and a sharper one when zoomed in, a render job per patch, a load
of annotations, text and links. Operations: set a page, release, settle and unsettle, redraw, cancel. A
cancelled job that has begun is not stopped, and its result reaches the main thread later; bitmaps are reused.

**Document lifecycle and save** (`app/document`, `core/SaveController.kt`). State: the open core,
the retained core over a configuration change, the active save job.
A result that comes back after the document was replaced must not touch the new one.

**Alert controller and searches** (`core/*.kt`, `MuPDFCore.java`,
`SearchTaskManager.java`). State: a job and a monitor per document.
One monitor serialises native calls, those that sleep included.

The other components (the user interface, preferences, the JNI bridge, PDF
interpretation, fonts, drawing, other formats, tools, vendored code) are listed in
`PROJECT.json` with the reason each is not modelled.

### How they interact

The application calls the JNI bridge under the monitor of `MuPDFCore`; the bridge and
the desktop tools call the shared core, which takes the lock of the document; the core
calls MuPDF, which calls back for alerts while the lock is held. Store, hash table and allocator
share the allocator lock (`include/mupdf/fitz/context.h:219-241` gives the order of the
locks). Every C function may leave by a throw.

### Hard behaviours

Interleavings around dropped locks (store, hash), condition variables (alerts), pointers
whose owner may go (alerts, store, page cache, objects of a PDF), aborts at any moment (cookies),
results that arrive after they were cancelled (page views), jobs whose calls fall between those of a
gesture (undo), indices and numbers that are stale when used (undo, the xref index),
partial failure (loading a page, recording a list, leaving a block by a throw), limits (store
size, table load, exception stack, cache slots). `PROJECT.json` lists each under
"hazards" with its line and the property that would catch it, or why none does yet.

## 2. Plan

Modules in order; items 1 to 9 are done.

1. `PdfAlerts`: the alert monitor.
2. `FzMap`, `FzHash`: a map, and the hash table that implements it; `Fitz_proofs`: the proofs about it and about the exceptions.
3. `FzStore`: the store, over the map that `FzHash` implements.
4. `PpPageCache`: page cache, renders, aborts, edits; `PpCore_proofs`: the proofs about both monitors of the shared core.
5. `FzException`, `FzError`: structured exceptions, and the exception stack that implements them.
6. `History`, `SidecarSession`, `SidecarSession_proofs`: a document with undo and redo, and the session of sidecar
   annotations that implements it.
7. `PdfVersions`, `PdfXref`: objects with signed versions, and the sections that implement them.
8. `PageUndo`: pending strokes, committed ink and text of one page with their three
   histories, of which that of text implements `History`.
9. `PageView`, `PageView_proofs`: a page view, its jobs and its bitmaps.
10. Proofs. Done: every safety property of the alerts, the hash table (with the map it implements), the
    store, the page cache, the exceptions and the sections (with what they implement); of
    the sidecar session and of the page with undo all, with the history each implements; of the page view all.
11. `DocumentLifecycle`: open, retain, save, close with late results.

A composition of `PdfAlerts` with the Kotlin controller was planned and dropped: nothing in the app calls
`MuPDFCore.startAlerts`, so `alerts_active` stays false, every alert is answered at once, `waitForAlert` returns
none and `AlertController` queues no other call (`AlertController.kt:49`); the composition would have nothing to check.

## 3. Modules and the code

### PdfAlerts

One action per stretch of code between a lock and the next unlock or condition wait.
`fin_lock` and `fin_lock2` are variables because they are held across waits;
`alert_lock` is not, since it is released inside every wait and each section under it is one
action. `at` says where each thread is; an alert is named by the thread that shows it, since
the event lives in that thread's frame. `SignalRequest`, `SignalReply` and `SignalBoth` wake at
most one sleeper of a condition; `SpuriousWakeup` is the wake-up POSIX allows. The
history variable `answered` remembers which alerts were replied to.

### FzMap, FzHash

`FzMap` is a function from keys to values with insertion (which gives the existing
value), removal and clearing. `FzHash` has the array, its size and load. A key is its home position
(chosen in `Init`, so that all collisions of the small instance are explored); `Probe` is the
position where linear probing stops. Growing has the two points where the lock is
dropped as states of `pc`: `InsertCrowded`, then `ResizeFail`, `ResizeLost` (another thread has grown the table
meanwhile) or `Resize`, then `InsertGrown`. `ShiftBack` and `Rehash` are the loops of removal and growing, as
recursive functions; a step of the first is `Shift`, which asks `Place` where the moved entry may stand. `IsMap` is the refinement.
`ThreadsAssumption` bounds the number of threads by the size: a thread that comes back from a gap inserts
without another look at the load, so that with many threads and a small table all slots could fill and the next probe
would not end. The one table whose lock is dropped, that of the store, begins with 4096 slots (`store.c:41`).

### FzStore

`lock` is the allocator lock, `item` the heap of items, `lru` the list,
`hashed` the hash table as the map of `FzMap`, `refs` the counts of values. Each action is the code
from a lock to the next unlock; a call that drops the lock in `evict` continues from `pc` with its
locals (`own`, `want`, `prev`, `goal`, `count`). Storing is `StoreCall`, `StoreInsert` or
`StoreExisting`, then `StoreFits`, `StoreOverBudget`, `StoreGivesUp` or the loop of `ensure_space` (`Space*`);
`Scan*` is `scavenge`, shared by the allocator and `fz_shrink_store`. `Malloc*` and `Scavenge*` are `do_scavenging_malloc`
and the loop of `fz_store_scavenge`, with its test as it is written (see section 4) and with sums modulo `Word`, the number of
values of an unsigned int. `Phases` stands for the 16 of the code; a phase beyond it is like it, so the counter stops there.
`Setups` says with which limit the store is made and which calls each thread makes in an instance: the desktop and test programs
have one without limit (`pp_core_doc.c:12`), the JNI bridge one of 128 MB (`document_io.c:208`). Both make their contexts without
locks, so threads meet in the store only where a program gives `fz_new_context` locks and clones the context
(`include/mupdf/fitz/context.h:144-179`): that is the contract the store is written for, and the one modelled.

`evict` and `fz_remove_item` free an item whatever other calls work with it. Eviction for space chooses items that only the store refers to;
`fz_empty_store` and `fz_remove_item` do not ask. `torn` has the threads whose item (`own` or `prev`) another thread's `EmptyEvict` or
`RemoveCall` has taken: what the code does with freed memory is undefined, so the behaviour ends there (`Undefined`), and the invariants speak of
states in which `torn` is empty.

### PpPageCache

Every call holds the lock of the document from start to end and is one action, except a
render: its cookie may be aborted by any thread without the lock, so it is `RenderBegin`,
`RenderRecord`, `RenderDone` or `RenderFails`. `ReadPage` stands for all calls that only read a
page, `EditDone` and `EditLoaded` for all edits, which share the shape of `pp_pdf_add_ink_annot`.
A display list is abstracted to the page it shows, the number of edits it
includes and whether it is whole.

### FzException, FzError

`FzException` is what a programmer may assume of try, always and catch. `FzError` is what the
macros do: `top`, the codes and the buffers, and throwing as a jump to the top buffer.
`MappedBlock` reconstructs the blocks from the stack, and `Implements` is the refinement.
The assertion `ex->top == nelem(ex->stack)` (`source/fitz/error.c:117`) is not modelled: the branch is entered
with `top` one less, so a debug build stops there, while a release build (`NDEBUG`, `Makerules`) throws as
the comment says.

### History, SidecarSession

`History` is a document with a past and a future. In `SidecarSession`, `rows` are the three tables,
`cache` the three maps of lists (a list is a bag, so that a double entry can be seen), and an
operation on a stack is its two sequences of primitives. A call of the user writes its first row (`Insert`,
`Take`) and leaves the list to `Place`; what it has still to do is `todo`, and `half` says that the row of
the first is written. `UndoLast` and `RedoLast` only move the operation; `WriteRow`, `DeleteRow` and `Place` run
it. `editing` is the stroke that the eraser of `InkController` has taken out of the store. `job`
is a background job: the comments reader (`CommentsRead`, `CommentsKeep`), the import of a bundle,
here of one row (`ImportRows`, `ImportClear`), or the re-anchoring of highlights after `Relayout`. `Reopen` is the end of
the process between any two steps. `Doc`, the rows the current call will lead to, with what the eraser holds, is mapped to `History`'s
document, and the stacks to the documents they lead to. An import clears both stacks with its last step, so that the history
of the session is taken to be empty from its first step on.

The code lets the user edit while a background job runs, and lets a page be turned to, or lists be dropped, while annotations are hidden, so
that `Draw` does not load the lists before the next edit. Both are in the model; the auxiliary variable `disturbed` is set by the first such
step, and `Reopen` clears it. Of a session that is disturbed nothing is promised (section 4 says what goes wrong): `ListsMatchStore` and the history are stated of one that is not, and
the run explores no further from a state that is disturbed (`CONSTRAINT Undisturbed`). One thing is assumed: the page is not set
in the middle of an eraser gesture. `MuPDFPageView.setPage` would forget the stroke, which is then nowhere, as
`Reopen` does with `editing` set.

### PdfVersions, PdfXref

`PdfVersions` is what a caller may assume: every object has one content, an edit changes the objects it
names, a signed version stays until it is saved. `PdfXref` has the code's sections, newest first, numbered
from 1. A document is the record `doc`: `secs` and the number `inc` of those that are increments; `index`
(`xref_index`); `heap`, the objects in memory with their contents; `frozen` (`freeze_updates`). `Find` is
`pdf_get_xref_entry` with its start at the cached section, `IncrementalEntry` the lazy opening of an increment,
`Moved` the transfer of an object into it: the entry that callers point to moves, a copy stays. An edit is `AlterDict` (through the
section), `AlterHeld` (through a pointer kept from earlier, `held`), `UpdateStream`, `ReplaceObject`, `NewObject` or
`DeleteObject`; `Render` loads an object and drops all but the marked ones, `SignField` signs. `SaveStops`, `SaveCopy` and
`SaveAndReopen` are `pdf_write_document`: the first leaves early and frozen. The content of an object is the number of the edit
that wrote it. `program` is how the program that has the document saves. `StartsAssumption` says what a file that has been
read is: no object in memory, sections that end with the last entry they define, a place in the file for every object in use. `Room` bounds the memory: a call that may need two
new objects with one number is made only while two addresses are left.

### PageUndo

One page without a sidecar. Native calls are atomic (the monitor of the core); a call of the user that makes several is several
actions with `call` between (`SaveDraw`, `SaveAdd` or `SaveThrows`, `SaveAccept`; `BeginErase` or `StartErase`, `EraserCatches`,
`EraserRubs`, `FinishErase`; `UndoInk`, `UndoInkDelete`), and so is a job (`AddList`, `AddNative`, `AddFind`, `AddPush`), so that jobs fall
between them. A stroke is a number; a text is a name with a style. `PushSignature` and
`FindMatchingIndex` are the two choices of `UndoMatcher`. `SaveThrows` leaves what `pp_pdf_add_ink_annot` leaves when it fails: nothing, or
an annotation with the strokes written so far, the last perhaps cut short (`Written`: the list of strokes is filled point by point). `FileAnnots` is the page of the file, with numbers up to
`FileNumbers`; `FileAssumption` says that it has no number twice, no two texts of one name, and no stroke twice, since the model knows a stroke by its
number: `StrokeInOnePlace` would be false of a file that draws one line two times. `doubled`, `made` and `own` are history variables: strokes left on
the page by such a failure, what a commit put there, and the annotation a job has created; so is `fate`, the texts that the user has restyled and those removed, on which `OneFate` and with it the promise about text depend. Assumed: numbers of deleted objects
are not used again; strokes drawn separately differ in their points and bounds; the page view is not recycled while a job runs;
the native call of a job succeeds. The build uses the MuPDF API whose list of annotations leaves popups out, so
matching never meets one.

### PageView

`view` is one `PageView`, `patch` its two `PagePatchView`s, `jobs` the coroutines launched and not done, `posted` the queue of the main
thread, `content` what each bitmap in use shows: a page, an area and how often its ink and its form had been changed. `Redraw`, `Render`,
`CancelRender` and the others named for methods are functions of these, since one handler makes several; each user
action and each result taken from the queue is one action, with the collection of bitmaps nobody refers to.

`Render` returns at once while the view is not ready (`PagePatchView.java:131`). `setPage` asks for the render of the whole page before it makes the
view ready (`PageView.java:349`, 375), so that nothing is drawn then: the first picture of a page comes from the redraw at the end of the load of its annotations
(`PageContentController.java:55-61`), and if that load threw, none would. The one exception is a view given page 0 after a release: `reset` leaves page number 0,
so the view is not reset again and is ready still (`WithPage`).

`Dropped` is the cancellation of a job that has not begun, `Aborted` that of a cookie: both native calls take the monitor
of the core, so an abort comes before a render has drawn or after. The dispatcher begins jobs in the order of their launches, but a monitor is not fair:
of the jobs that have begun any may draw next. A job that comes to the monitor after one launched later that draws into the same bitmap, or that loads annotations as it does, is `late`,
and so is what it draws or loads (`Overtaken`). A read and the posting of its result are one step. `EditAnnotations` stands for every change that
discards the page and loads the annotations again (`saveDraw`, an undo of ink, text), `ChangeForm` for the change
reporter of widgets and for showing and hiding comments. `AnnotationsDone` does not ask which page the view has, as the
code does not. `crashed` is the null dereference described below.

## 4. Runs

| run | instance | shows |
|---|---|---|
| `alerts` | 2 showing, 2 waiting, 2 using threads, 1 dropping | `CurrentAlertAlive`, `NoLostWakeup`, `ShowEndsAnswered` |
| `fz_hash` | 2 threads, 6 slots growing to 12, homes 5 and 10 | `IsMap`, `ProbesEnd`, `EntriesReachable`, `FastRemovesItsKey` |
| `fz_store` | 2 threads, 2 keys (one hashed), 3 items, 3 values, limit 2 or none, 2 phases, `Word` 8 | `RefsExact`, `NoDanglingItem`, `SizeExact`, `HashMatchesList` |
| `fz_store_returns` | 2 threads, 2 keys, 2 items, 2 values; a storer beside one that stores and shrinks, or that allocates, removes and empties | `CallsReturn` under fairness |
| `page_cache` | 2 threads, 4 pages, 3 slots, 5 uses, 2 edits a page | `ListsBelong`, `BorrowedPageStays`, `ListsCurrent`, `KeepsRecent` |
| `page_cache_abort` | the same | a partial list is kept and drawn (violation) |
| `fz_error` | 4 entries, 6 blocks | `Balanced`, `Implements` |
| `sidecar` | 3 strokes, 1 highlight, 1 note of 2 versions, 2 pages, 2 operations | `ListsMatchStore`, `IsHistory` |
| `xref` | 3 objects, up to 5 sections, 4 edits, 3 starts | `IndexSound`, `HeldIsCurrent`, `KeepsVersions`, `SavedAsEdited` |
| `xref_frozen` | the same | an edit after a save with nothing to write is not written (violation) |
| `page_undo` | a stroke and a text in the file, 1 job, numbers to 5, 1 operation a stack | `StrokeInOnePlace`, `StrokesKept`, `InkUndoExact`, `TextHistory` |
| `page_view` | 2 pages, 1 place to zoom to, 1 edit, 2 jobs running | `SettlesRight`, `PageAppears` |

Why the bounds are enough. Alerts: every flag and condition has at most one owner
and one thread in its way, so two threads of each kind give every conflict: two
shows in turn, two waiters for one request, a stop and a reply at once. Hash: a
run of collisions that wraps around the end needs two home positions near it, and
growth by both threads needs one doubling. Store: a limit of two with values of size
one and two makes one store evict one or two items, and three items give a victim,
a neighbour and a new one. Page cache: four pages in three slots force an eviction, a
fifth use makes the order of uses matter. Exceptions: a stack of four with blocks six deep
overflows and nests a try in each clause. Sidecar: three strokes are one that is
erased and the two pieces it leaves, or a call that adds two; two operations give a
pair in every order on the two stacks, and two pages an undo that acts on a page other than
the one shown. Sections: a dictionary and a stream, or two revisions of a dictionary, four edits and two signatures give an object
that is old, moved, moved again and left behind as a copy, below and above a signed section, with one more to be created; a
fourth object would be treated as one of these. Undo: three numbers beyond the file are a stroke committed, cut by the eraser
and committed again, or one stroke and two texts; the history of text is the same after a second operation, since each starts
from the document the last one left. Any text may be restyled or removed; the run goes no further from a state in which one was both (`CONSTRAINT Untangled`, which is `OneFate`), see below. Page view: two pages are the view's and that
of a late result; the place and the whole page are two areas for the sharper patch, which uses both bitmaps of the pool when it is redrawn; one edit makes every
bitmap drawn before it old; two jobs that run at a time are one that overtakes and one that is late; a user acts while at most one job or result is outstanding (`MaxJobs`), and
an action launches up to three more, so that four or more may be in flight and a job can be superseded before it begins, after it has begun,
and after it has posted. Counters are bounded by the guards that
name `MaxUses`, `MaxEdits`, `MaxSize`, `MaxBlocks`, `MaxOps`, `Phases`, `MaxSections`, `MaxFresh`, `MaxGestures` and
`MaxJobs`; `Cells` bounds the objects in memory under one number.

Symmetry is used in safety runs only, where the constants permuted occur in no
ordered expression.

The passing store run lets two threads store and find, or store and shrink; one store beside one that empties, that removes or that
allocates; and one thread make every call, with a limit and without. `Word` is 8 and the limit 2, so that a request of 7 overflows the sum as soon as something is
stored. Nothing is claimed about the limit: the code reads the sum before it drops the lock, so two storers may exceed it together, and
an item found meanwhile is kept over it on purpose (`store.c:304-309`). `CallsReturn` excepts `fz_empty_store`, whose loop ends when the list is empty, and `malloc`, which
tries again as long as it frees something, when another thread's stores fill the store for ever.

`CHECK_DEADLOCK FALSE` is said where the system may stop: of the alerts, when the
structure is dropped and every thread is done; of the exceptions, when an
uncaught one exits the process; of the sections and of the page with undo, when the bounds of edits and numbers
are exhausted and nothing is left to undo; of the page view, when it has crashed. The other runs check that something can always happen.

### Fairness

`CallsReturn`: `FairSpec` of the store asks that a call that has begun makes a step
infinitely often if it infinitely often can: the operating system schedules every thread,
and no mutex starves a waiter for ever. It does not ask that a call begins. Strong
fairness is needed since the lock is taken and released by others in between.

`PageAppears`: `FairSpec` of the page view asks that some job of the thread pool makes a step whenever one can, and that the main
thread takes the next result whenever there is one; both are what a running pool and looper do. It
asks nothing of the user, and edits are bounded: a user who edits for ever keeps the view from settling.

### What the violations say

Both are findings in `PROJECT.json` with the line quoted.

* `page_cache_abort`: an abort during recording ends the page early without an
  error, and the partial list is cached for later renders.
* `xref_frozen`: `pdf_write_document` sets `freeze_updates` and leaves with nothing to write
  (`pdf-write.c:2714`), or throws when the file cannot be opened (2727), without resetting it. The next edit is then made in the section of
  the file, no increment is opened, and an incremental save writes nothing of it.

### What the models show beside the runs

Found with the models, by another instance or without an excuse that a property makes, or met while
translating; the properties of the passing runs are stated so as to leave exactly these cases out.

* Alerts: `pp_pdf_alerts_wait` copies the strings of an alert after it unlocks (lines 220-221); `stop` may release the owner between.
* Store: `ensure_space` pins the value of its next item, but `evict` frees items whatever their count, so that `fz_empty_store`, which
  closing a document calls (`pdf-xref.c:1625`), frees the item beside a storer, and so does `fz_remove_item`; the comment that "no other evict process can have thrown prev away in the meantime"
  (`store.c:158-160`) is true of every other caller of `evict`, which is `NoDanglingItem`. `fz_remove_item` does not subtract the size of what it removes either.
* Scavenging: `fz_store_scavenge` tests the limit of a phase the wrong way round (`store.c:597-600`). A store that is over it is left alone, up to the last phase, whose limit is
  zero, where the loop ends and the allocation fails although everything might be evictable (`ScavengeSkip`, `ScavengeFails`). One that is within the limit
  is scavenged by `size + store->size - max`, which is zero or wraps, so that one item goes, or all that can (`ScavengeStart`). `include/mupdf/fitz/store.h:173-176` says that
  "we try to scavenge space within the store by evicting at least 'size' bytes", and `context.h:260-261` that a failing allocation "attempts to make room [...] by evicting elements from the store".
  A store near its limit, which is when memory is short, is never scavenged; one without a limit, like that of `pp_core_doc.c:12`, in effect only when the sum overflows.
  The model does what the code does: counts, list, hash and sizes stay right under it, since they do not depend on how much is evicted.
* Sidecar: when lists are dropped, or a page is turned to, while annotations are hidden, `addInkFromArcs` writes the rows and then asks for the list, which, never having been loaded, is
  loaded with them; they are appended again. When an edit falls into the comments reader's job, the reader puts a list it read before the edit in place of the one
  the edit made. Both are among the behaviours of `SidecarSession`: without the excuse for a `disturbed` session `ListsMatchStore` fails.
  An erase whose `saveDraw` is refused (a stroke with a coordinate that is no number, `InkController.java:252-257`) leaves `sidecarEditingStroke` set and the rest of the stroke pending,
  so that the next commit is recorded as what replaced the old stroke; the model has no such coordinates.
* Sections: the objects in use are decided once for all increments of a save (`pdf-write.c:2117`), so with three increments one created by the middle one
  is lost; `SavedAsEdited` is stated for up to two. `complete_signatures` forgets unsaved signatures (2593-2600), and edits after a save go into the
  signed increment. `pdf_prime_xref_index` skips free entries (1128-1152): an object deleted in a later increment is back after
  reopening (`Revived`). A search that starts above the free entry, as one for a signed version does, still finds it free: `KeepsVersions` is stated for the versions of the other objects. And
  when such an object is edited in a second increment, the edit is not written, since an entry is written only if the object is in use from each increment down (with the file `Freed` above
  `Dict(0)`, after signing and one edit): `SavedAsEdited` asks of a revived object one increment at most. A signed version that is not saved loses a stream replaced in memory (`pdf-xref.c:492`): the versions kept are of dictionaries.
* Undo of text: an operation keeps the number of its text, and undoing a removal creates the text under a new one
  (`TextAnnotationEmbeddedFreeTextOps.java:207`, 1438-1465). Restyle a text, remove it, undo, undo: the second undo writes the old style to a dead number. Add a text, restyle it, undo, undo, redo,
  redo: the second redo writes the new style to the number the first has replaced. Add a text, remove it, undo, undo: the second undo deletes a dead number, and the text stays.
  All three are among the behaviours of `PageUndo`; `OneFate` says that none of them has begun, and where it ends the history of text is taken to be empty, so that `TextHistory` promises
  nothing more. Without it, and with two operations (`MaxOps`), `TextHistory` fails. A stroke wholly erased leaves its item on the ink stack, matched by nothing, and blocks the undo of
  older ones. The strokes a failed commit has written are pending still, and are on the page twice once they are committed again: `StrokeInOnePlace` leaves them out (`doubled`).
* Page view: `cancel` does not stop a load that has begun, and its callback runs on the main thread whatever the view has become
  (`DocumentContentController.kt:41-46`). On a released view, whose overlay is null, the redraw it asks for dereferences null (`PageView.java:708`); `SettlesRight` and `PageAppears`
  speak of views that have not crashed. On a view with another page it sets that page's annotations until the load of its own arrives.
* Page view: nothing orders how jobs that have begun come to the monitor, and the cookie of a render is not aborted when its bitmap is the one displayed, and aborting it would wait
  for the monitor anyway (`PagePatchView.java:210-214`, `MuPDFCore.java:152`). So a superseded render may draw last into the bitmap the view shows, and a superseded load of annotations may deliver last; no later
  step repairs it. `SettlesRight` and `PageAppears` excuse what is marked `late`: without the excuse TLC finds a view that has settled on an old picture.
* Page view: a form changed while the view is not zoomed in is not drawn in the sharper patch (`addHq` returns early, `PageView.java:674`), and coming back to the same area,
  which snapping to the width of the page may do, shows the old patch; `HqDrawn` asks only for the present ink.

## 5. Proofs

Proved for every value of the constants: any number of threads, pages, slots, keys, objects, strokes, jobs. What is assumed of
the constants is named in each module, and each run evaluates it on its instance:

| assumption | says |
|---|---|
| `AlertsAssumption` | the kinds of threads are disjoint |
| `HashAssumption` | a table begins with at least 6 slots: one of 5 or fewer fills up before it grows |
| `ThreadsAssumption` | there are fewer threads than two fifths of these slots, see section 3 |
| `StoreAssumption` | threads and items are finite, sizes and requests positive, a request is an unsigned int, a store is shrunk to under 100% |
| `PageCacheAssumption` | the cache has three slots (`pages[3]`, `pp_core_internal.h:37`) |
| `FzErrorAssumption` | the stack has room for an entry |
| `BoundsAssumption`, `StartsAssumption` | bounds are numbers; a file's sections end with their last entry, and its objects in use have a place |
| `ConstantsAssumption`, `FileAssumption` | bounds are numbers; a file has no annotation number, no name of a text and no stroke twice |
| `NoItemAssumption`, `NoRecordAssumption` | the value that stands for none is no record |
| `SidecarAssumption`, `AnnotationAssumption` | ink, highlights and notes have different ids (UUIDs); a bundle holds annotations; null is no annotation and no list |
| `PageViewAssumption` | bounds are numbers; the value that stands for none is no page, place or number |

**LibraryLemmas.** Facts about the community modules' operators: the least and the greatest element of a set, removal from a
sequence, precedence in it, sums over a finite set, and recursive functions over an interval. The library's induction theorems take an operator as a
parameter and cannot be used; induction is made instead with the least element of the set of numbers at which a claim fails (`NatMin`, from
`NatLessThanWellFounded`). `Climb` and `Recursion` say so once for loops written as recursive functions.

**Fitz_proofs.** The hash table. A table is sound when no key is in it twice (`Unique`) and no probe path, from where a key belongs to where it is, has an empty slot
(`Path`). The probe then stops at the key or at the first gap, and does stop, as there is a gap: `LoadBound` counts the
entries, and one more for each thread that is `Late`, back from a gap and not done inserting. That bound is why `ThreadsAssumption` is needed, and the reason that
`Waits` describes what a thread in a gap has in its locals. Removal needs the loop invariant `ShiftInv`: after j
steps the hole is the only gap inside a probe path, and the entries passed do not need it filled. `Rehash` likewise.
Then each action is a step of `FzMap` or a stutter (`HashIsMap`): the map has at a key what the probe finds (`Content`). `FastRemovesOwnKey` is the
removal by a position remembered from the last insertion.

The exceptions. `StackBalanced` (one entry per block that is not in its catch),
`ErrorTypeCorrect` and `ErrorImplements`: the initial state maps to the abstract one, and
every action maps to an abstract action or a stutter. It needs `CodesFit`, the
relation between the code of an entry and the clause its block is in, because the macros decide by the code alone.

**FzStore_proofs.** For any setups: any limits, and any calls by any threads. The invariant `Inv` says for each step of
each thread what its locals are (`LocalsOK`): the lock, the item it stores, its victim, the pinned neighbour; `ItemsOK` says how these stand to the list and
the hash, and that two threads do not share a new item or a victim. It holds while no thread is `torn`, and the two actions that take an item without asking are where that ends: they
tear exactly the calls that `ItemsOK` would be false of. `RefsExact` is then a count: of each value, the
owners are the store, the threads that hold it, those about to return it and those that pin it, and each action lets one join or leave. `SizeIsExact` adds over the
list the same way, with the lemmas on sums.

**PpCore_proofs.** The page cache: the invariant adds to the checked properties that a loaded slot
has a known page and that a thread past `RenderBegin` holds the lock; the latter makes every cache operation by
another thread impossible while a render is in progress, which is what `BorrowedPageStays` needs, and
through it `ListsCurrent`. The proof goes by the operations of the cache first (hit,
load, drop the list), then by the actions that use them. `KeepsRecent` compares the slots with the order of all uses; it follows
from `UseOrder`: the slots' `last_used` tell the cached pages apart in that order, and no page that is cached was last used before one that is not.

The alerts: `AlertsInvariance` proves an inductive invariant: types, and for each
lock the program points its owner may be at; `current_alert` belongs to a
thread that is inside its show call; a thread sleeps only while its condition is false.
The last would not be inductive alone: that a signal reaches every sleeper
follows from there being at most one, because a sleeper holds `fin_lock` or
`fin_lock2`. `CurrentAlertAliveHolds`, `NoLostWakeupHolds` and
`ShowEndsAnsweredHolds` follow.

**PdfXref_proofs.** `Fits` is what holds of a document between the calls and also inside one: its shape, that a section ends with its last entry
(`Within`: entries that come into range when a section grows are unset), and that the index hides nothing (`Sound`). Each
operation is first shown to keep `Fits` and to show for each object the entry that was shown before (`Keeps`), whatever section the entry moved to, but for the
object it changes; the calls are compositions of these. `HeldIsCurrent` follows since an entry carries its object with it.
`Within` is why `IndexSound` holds after `pdf_get_incremental_xref_entry`, which grows a section and sets the index to it.

`SavesWhatWasEdited`, for any files. A full save writes for
each object what is found, and is the easy half. An incremental one writes for each section what is found from there on, and only if it is found in use from every
older increment on too, so that the invariant `Orderly` must relate all the sections of an object. `Above`: no entry frees what
an older section has in use, the entries of the file that opening it revived aside: only a search that ends in the file meets those, and it is one from the second increment on that may. `Grown`: an object of an increment is in an older section too, or has a number beyond the end of all of them, where the search
falls back to the newest section; this is how the search from an older increment still ends at an object in use when there are two, and no longer when there are three. `Alive`
and `Unshared`: what an entry points to is in memory and is no other entry's, so that writing through a pointer changes one version. `FileTrue`: an
object in memory in a section of the file is as the file has it, since that section is not written again; it fails within an edit
of a stream, which replaces the buffer before it moves the entry (`TrueBut`), and for good after a save that has stopped, when edits no longer move anything.
Each part of a call is shown to keep these for every object (`Preserves`), and the calls compose them. What is written and opened again is in order too (`ReopenTidy`).

`XrefKeepsVersions`: the refinement mapping has two halves. What is shown (`Shows`) must change of the objects a call
names and of no other; each call is shown to touch one object (`Touched`), two for a signature, or none (`Untouched`). And each signed section must go on to
show what it showed, though the sections shift when one is opened in front (`Onward`): `Steady` says that in every section a signed version is made of
(`Bound`) the type of the object and its dictionary stay. The hard case is the object that moves out of such a section: the copy left in an increment has the dictionary, and a section of
the file has what the file has, which is the same only while `FileTrue` holds (`Filed`); and a write then reaches the moved object only, since nothing shares it (`Unshared`). So the
versions, collected by a function over the sections, are the same sequence (`VersionsSame`), and a signature appends one (`MarkVersions`), which is what the document shows (`VersionNow`), by `Above`. For
the programs that free objects `Orderly` holds of the objects in use and the numbers not yet taken (`Present`): a freed one need not be in order, and stays free until the file is written and opened again.

**PageUndo_proofs.** `NoStrokeTwice`, `NoStrokeLost` and `UndoTakesTheCommit`, for any file, jobs and undo depth. What the user
may still commit, now or after undoing gestures, is apart from the page (`Pending`), except between `pp_pdf_add_ink_annot` and its acceptance, when it is on the page by
intent. `Midway` is what the call between two native calls still knows: jobs may add meanwhile, which is harmless as they append, and nobody removes, since a removal would shift
the index the call has remembered. The ink stack recalls the strokes of each annotation that is still there (`Recalls`), and that the histories
of text and the jobs name no ink (`TextSound`) keeps undoing a text from taking ink off the page.

`TextImplementsHistory`: the code gives out a new number when it makes a text again, and `OneFate` holds as long as only texts that are never edited have been made
again; it is a condition of the state, part of the invariant as the premise of what is said of the stacks, and the step that ends it starts a history anew. What `Along` says a stack leads to is a recursive function, and as for the sidecar two that agree step by step agree (`VisitsAgree`, `AlongHead`). `Reversible`: the
operations of a stack are a chain from the document, each `Joins` the documents before and after it, so that what is undone leads back when it is redone (`JoinsBack`). This
is about documents only (`DocEdits`, `DocUndoes`, `DocRedoes`). `TextFits` relates it to the page: no two texts have one name, an edit is of a text that is there under the number it
has noted, a presence of one that is there under that number and recorded or of none of that name, no two on the stacks give or take the same text, and the annotation a job added is
there, under its number. Then a job's search by kind, number and content finds its own (`FindsOwn`), and each operation does to the page what it says of the document, and leaves what the others
rely on (`Performs`, `StacksSwap`). What a job has added is no part of the document until it is recorded: other operations may be undone in between, and it is the edit that is pushed last.

**SidecarSession_proofs.** `SidecarTyped` is for every behaviour; `SidecarListsMatchStore` and `SidecarImplementsHistory` say nothing of a session once it is `disturbed`, and
the step that disturbs it, like the one that opens a new session, starts a history anew. What a list of primitives does to the rows is a recursive function; two such functions that agree at 0 and on each
step agree (`Recursion`), and so running a primitive and then the rest, or first all but the last and then the last, is running all of them (`AfterHead`, `AlongHead`). An operation is
`Legal` from one document to another: its redo, run on the first, gives the second, its undo the first again, and each primitive finds what it
expects (`Fits`: what it removes is there, what it appends is not, what it replaces is on the same page). Each of the four makers of operations is legal where it is
used (`AddedLegal`, `RemovedLegal`, `UpdatedLegal`, `InkReplacedLegal`). `Reversible`, the heart of the invariant: undoing the operations of one stack after the other, from
the document, and redoing those of the other, is legal all the way, so that undo moves one operation from a chain to the other (`ChainsUndo`) and `Document!Undo` is that step.
Between the row and the list of a primitive the document is what the rows become when the rest has run (`Leading`); while a stroke is erased it is of the document but not
of the rows (`Erasing`). A list is the bag of its rows (`Exact`, `Placing`), which needs the lists an operation will look for to be loaded (`Warm`): the session reads a list
from the rows when it has none, after the row was written, and would then add the row twice. A step of a call or a job is then a stutter of the history, or one of its steps.

**PageView_proofs.** `PageViewTyped` and `ViewSettlesRight` are for every order in which jobs may reach the monitor. The first
invariant, `Sound`, says what names what: no two jobs or results have one id (`Ids`); the task of a patch is its active render and a job or a result that is known (`RenderTasks`),
and so is the load the view waits for (`AnnotTask`); the bitmap of the whole page is never one of the pool, and that of the sharper patch always is; a released view waits for
nothing (`Idle`). The second, `Right`, says where each patch stands (`PatchRight`): the render it waits for is still to draw, and is the last job
launched that draws into its bitmap; or it has drawn and is on the queue, only late jobs are left that draw into this bitmap, and what the bitmap shows is current or late (both `Coming`); or it waits for none, and
is blank, or what it shows is current, or late, and safe from all but late jobs (`Settled`). "The last" is needed because cancelling does not stop a render that has begun: a superseded one
draws later, into the same bitmap, and whatever has been overtaken by the last is late by then. Of annotations (`AnnotsRight`): those of the page are there, or the last load on the queue has them, or the last load launched will; and a load that is still due
asks for a redraw, or the patches need none (`Redrawn`).
The handlers make several calls, so each call, a function of the view, its patches and the jobs, is first shown to leave a patch as it was (`Keeps`), to make it wait for
a new render (`Waits`) or to clear it (`Cleared`); the actions compose them. Jobs leave the list anywhere and keep their order (`Cancelled`, `Follows`), and
join it at its end (`Grown`). Last, bitmaps nobody refers to are collected, of which no patch takes note (`CollectedKeeps`).

### Only model-checked

* Liveness: `CallsReturn` and `PageAppears` rest on fairness and ENABLED, which the prover does not have.

## 6. Not modelled

Within the modelled components: the bytes of keys and the hash function; the store's own
reference count; static values (count 0 or less); pixels, bounds and zoom; the text of alerts; error
codes and messages; weak memory. `PpPageCache` takes an edit to succeed or to
leave the page as it was, which a failing `pp_pdf_set_ink_list` does not. Of the sidecar: strokes drawn and
not yet saved, writes that fail and an erase whose `saveDraw` is refused, several documents in one database (an imported row takes the id of a
row of another document with it), the migration of document ids, geometry and text; a
re-layout always leads to a layout that has no annotations of its own yet. The comments
reader takes the lists of a page in one step.

Of the sections: repair, object streams, generations, encryption, the byte ranges of signatures, `pdf_clear_xref`, loading a linearized file, and the solidifying of a
section on a lookup. Of undo: ink that Fill & Sign adds at once and pushes on the same stack (`MuPDFPageView.addInkAnnotationFromUi`), the deletion of a selected annotation by its index and the edit of a text from a stale list, both on I/O jobs, two jobs that add
equal texts, failing native calls other than those of a commit. Of page views: the loads of text and links, which have the shape of that of annotations; several views, which share
the two bitmaps of the sharper patch (`getPatchBm` asks for the one the selected view does not show); sizes of pages; native failures. Of searches: stopping cancels the scope
that would deliver a result, so a late one never runs.

Components not modelled yet are those of the plan, and those that are data
transformation or framework code, each with its reason in `PROJECT.json`.
