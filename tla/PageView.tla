------------------------------ MODULE PageView ------------------------------
(***************************************************************************)
(* One page view of the Android reader, which is given pages in turn: its  *)
(* two patch views (the whole page, and a sharper patch of it when zoomed  *)
(* in), the jobs that render them and that load the annotations, the       *)
(* bitmaps they draw into, and the queue of the main thread on which their *)
(* results arrive.                                                         *)
(*                                                                         *)
(* Cancelling a job stops it only if it has not begun; of a render that    *)
(* has begun the cookie may be aborted, so that it leaves a blank bitmap.  *)
(* A native call holds the monitor of the core, and aborting takes it too, *)
(* so that a render is never aborted half-way. Jobs begin in the order in  *)
(* which they were launched, but nothing orders how they come to the       *)
(* monitor: a cancelled one may come after the one that replaced it. It is *)
(* then late, and what it leaves behind is marked so: no code repairs it.  *)
(***************************************************************************)
EXTENDS Integers, SequencesExt

CONSTANTS
    Pages, First,       \* pages, and page 0 of them
    Places,             \* where a zoomed-in view may be
    MaxEdits, MaxJobs,  \* bounds: of edits, of jobs when the user does something, ...
    MaxRunning,         \* ... and of jobs that run at a time
    None

ASSUME PageViewAssumption ==
    /\ {MaxEdits, MaxJobs, MaxRunning} \subseteq Nat /\ First \in Pages
    /\ None \notin Pages \cup Places \cup Nat \cup {"whole"}
    /\ None \notin [page : Pages, version : Nat, late : BOOLEAN]

VARIABLES
    view,     \* the page view: its page (None when released), whether it is ready, ...
    patch,    \* the patch views
    jobs,     \* the jobs launched and not yet done, in order
    posted,   \* the results on the queue of the main thread
    content,  \* what each bitmap in use shows
    version,  \* of each page, how often its ink and its form were changed
    crashed

vars == <<view, patch, jobs, posted, content, version, crashed>>
core == <<posted, version, crashed>>

Patches == {"entire", "hq"}
Whole == "whole"        \* the area of the whole page, and the place when not zoomed in
Pool == {1, 2}          \* the two bitmaps of the sharper patches
Erased(late) == [page |-> None, area |-> None, version |-> <<0, 0>>, late |-> late]
Blank == Erased(FALSE)

NoPatch == [area |-> None, placed |-> FALSE, shown |-> None,
            active |-> None, task |-> None, inFlight |-> None]

Init ==
    /\ view = [page |-> None, ready |-> FALSE, place |-> Whole, bm |-> None,
               annots |-> None, annotJob |-> None, force |-> FALSE]
    /\ patch = [v \in Patches |-> NoPatch]
    /\ jobs = <<>> /\ posted = <<>>
    /\ content = [b \in Pool |-> Blank]
    /\ version = [p \in Pages |-> <<0, 0>>]
    /\ crashed = FALSE

-----------------------------------------------------------------------------
(* The calls, as functions of the view, its patches and the jobs: an action *)
(* of the main thread makes several.                                        *)

Now == [view |-> view, patch |-> patch, jobs |-> jobs]
Set(w) == view' = w.view /\ patch' = w.patch /\ jobs' = w.jobs

Unused(ids) == CHOOSE i \in 1..(Max(ids \cup {0}) + 1) : i \notin ids /\ \A j \in 1..(i - 1) : j \in ids
NewId(w) == Unused({w.jobs[i].id : i \in DOMAIN w.jobs} \cup {posted[i].id : i \in DOMAIN posted})
InUse(w, ps) == (Pool \cup {w.view.bm} \cup {w.patch[v].shown : v \in Patches}
                           \cup {w.patch[v].inFlight : v \in Patches}
                           \cup {w.jobs[i].bm : i \in DOMAIN w.jobs}
                           \cup {ps[i].bm : i \in DOMAIN ps}) \ {None}
Launch(w, job) == [w EXCEPT !.jobs = Append(@, job)]

\* Cancelling: a job that has not begun never will.
Dropped(w, id) ==
    LET waiting == {i \in DOMAIN w.jobs : w.jobs[i].id = id /\ ~w.jobs[i].begun}
    IN  IF waiting = {} THEN w.jobs ELSE RemoveAt(w.jobs, Min(waiting))
Aborted(js, id) == [i \in DOMAIN js |-> IF js[i].id = id THEN [js[i] EXCEPT !.aborted = TRUE] ELSE js[i]]

\* (mutant: the result of a cancelled render is applied)
CancelRenderKeepsActive(w, v) ==
    [w EXCEPT !.patch[v].task = None, !.patch[v].inFlight = None,
              !.jobs = Dropped(w, w.patch[v].task)]
CancelRender(w, v) ==
    LET p == w.patch[v]
        left == Dropped(w, p.task)
    IN  [w EXCEPT !.patch[v].active = None, !.patch[v].task = None, !.patch[v].inFlight = None,
                  !.jobs = IF p.inFlight \notin {None, p.shown} THEN Aborted(left, p.task) ELSE left]

Reset(w, v) == [CancelRender(w, v) EXCEPT !.patch[v].area = None, !.patch[v].placed = FALSE]

\* ensureAndRender, renderInBackground: nothing is done before the view is ready, or
\* if the area is the one shown, unless it is an update, which draws without erasing.
Render(w, v, area, bm, update) ==
    LET c == CancelRender(w, v)
        changed == w.patch[v].area # area
        id == NewId(c)
    IN  IF ~w.view.ready \/ (~changed /\ ~update) THEN w
        ELSE Launch([c EXCEPT !.patch[v] = [@ EXCEPT !.placed = FALSE, !.active = id,
                                                     !.task = id, !.inFlight = bm]],
                    [id |-> id, kind |-> "render", patch |-> v, page |-> w.view.page, area |-> area,
                     bm |-> bm, erase |-> changed \/ ~update, aborted |-> FALSE,
                     begun |-> FALSE, late |-> FALSE, version |-> 0])

\* (mutant: the page size is not tested)
AddEntireUnguarded(w, update) ==
    LET bm == IF w.view.bm = None THEN Unused(InUse(w, posted)) ELSE w.view.bm
    IN  Render([w EXCEPT !.view.bm = bm], "entire", Whole, bm, update)
AddEntire(w, update) ==
    LET bm == IF w.view.bm = None THEN Unused(InUse(w, posted)) ELSE w.view.bm
    IN  IF w.view.page = None THEN w
        ELSE Render([w EXCEPT !.view.bm = bm], "entire", Whole, bm, update)

\* The pool: of the two bitmaps the one not shown, for an update the one shown.
PatchBm(current, update) ==
    IF current = None \/ (current = 2 /\ ~update) \/ (current = 1 /\ update) THEN 1 ELSE 2
AddHq(w, update) ==
    IF w.view.page = None \/ w.view.place = Whole THEN w
    ELSE Render(w, "hq", w.view.place, PatchBm(w.patch["hq"].shown, update), update)

Redraw(w, update) == AddHq(AddEntire(w, update), update)
ResetPatches(w) == Reset(Reset(w, "entire"), "hq")
DiscardRenderedPage(w) == [ResetPatches(w) EXCEPT !.view.bm = None]

LoadAnnotations(w) ==
    LET c == [w EXCEPT !.jobs = Dropped(w, w.view.annotJob)]
        id == NewId(c)
    IN  Launch([c EXCEPT !.view = [@ EXCEPT !.annots = None, !.annotJob = id]],
               [id |-> id, kind |-> "annots", patch |-> None, page |-> w.view.page, area |-> None,
                bm |-> None, erase |-> FALSE, aborted |-> FALSE,
                begun |-> FALSE, late |-> FALSE, version |-> 0])

-----------------------------------------------------------------------------
(* The user *)

Ready == ~crashed /\ Len(jobs) + Len(posted) <= MaxJobs
Shows == Ready /\ view.page # None

\* The view is ready only after addEntire. But a released view has page number 0
\* and is not reset when it is given page 0: it is ready still.
WithPage(p) == [Now EXCEPT !.view = [@ EXCEPT !.page = p, !.ready = view.ready /\ p = First]]
\* (mutant: the annotations are loaded only if the page is not drawn already)
SetPageOnce(p) ==
    /\ Ready /\ view.page = None
    /\ LET w == [AddEntire(WithPage(p), FALSE) EXCEPT !.view.ready = TRUE]
       IN  Set(IF view.bm = None THEN LoadAnnotations(w) ELSE w)
    /\ UNCHANGED core
SetPage(p) ==
    /\ Ready /\ view.page = None
    /\ Set(LoadAnnotations([AddEntire(WithPage(p), FALSE) EXCEPT !.view.ready = TRUE]))
    /\ UNCHANGED core

\* The page is more than one away: the view goes to the cache.
Released(w) ==
    [ResetPatches([w EXCEPT !.jobs = Dropped(w, w.view.annotJob), !.view.annotJob = None])
        EXCEPT !.view = [@ EXCEPT !.page = None, !.place = Whole]]
ReleaseResources ==
    /\ Shows /\ Set(Released(Now))
    /\ UNCHANGED core

Move(place) ==
    /\ Shows /\ place # view.place
    /\ Set([Now EXCEPT !.view.place = place])
    /\ UNCHANGED core
Settle == Shows /\ Set(AddHq(Now, FALSE)) /\ UNCHANGED core
Unsettle == Shows /\ Set(Reset(Now, "hq")) /\ UNCHANGED core

Changes(k) ==
    /\ Shows /\ FoldFunction(LAMBDA v, n : v[1] + v[2] + n, 0, version) < MaxEdits
    /\ version' = [version EXCEPT ![view.page][k] = @ + 1]
    /\ UNCHANGED <<posted, crashed>>

\* Ink is committed, or taken off the page: the next load redraws in full.
EditAnnotations ==
    /\ Changes(1)
    /\ LET w == DiscardRenderedPage(LoadAnnotations([Now EXCEPT !.view.force = TRUE]))
       IN  Set(w) \/ Set(Redraw(w, FALSE))

\* A form field changes, or the annotations are shown or hidden.
ChangeForm == Changes(2) /\ (Set(Redraw(Now, TRUE)) \/ Set(Redraw(DiscardRenderedPage(Now), TRUE)))

-----------------------------------------------------------------------------
(* The jobs *)

\* The dispatcher runs what it is given first in, first out.
Begin(i) ==
    /\ ~crashed /\ ~jobs[i].begun /\ i <= MaxRunning
    /\ \A j \in 1..(i - 1) : jobs[j].begun
    /\ jobs' = [jobs EXCEPT ![i].begun = TRUE]
    /\ content' = IF jobs[i].erase THEN [content EXCEPT ![jobs[i].bm] = Erased(jobs[i].late)]
                  ELSE content
    /\ UNCHANGED <<view, patch, posted, version, crashed>>

\* The jobs launched before job i that do the same are late when it is ahead of
\* them. (The same is to draw into the same bitmap, or to load annotations.)
Overtaken(i) ==
    [j \in DOMAIN jobs |->
        IF j < i /\ jobs[j].bm = jobs[i].bm THEN [jobs[j] EXCEPT !.late = TRUE] ELSE jobs[j]]
\* A job ends by posting its result.
Ends(i, result) == jobs' = RemoveAt(Overtaken(i), i) /\ posted' = Append(posted, result)

\* The native call, under the monitor.
Draw(i) ==
    /\ ~crashed /\ jobs[i].begun /\ jobs[i].kind = "render"
    /\ content' = [content EXCEPT ![jobs[i].bm] =
            IF jobs[i].aborted THEN Erased(jobs[i].late)
            ELSE [page |-> jobs[i].page, area |-> jobs[i].area,
                  version |-> version[jobs[i].page], late |-> jobs[i].late]]
    /\ Ends(i, jobs[i])
    /\ UNCHANGED <<view, patch, version, crashed>>

ReadAnnotations(i) ==
    /\ ~crashed /\ jobs[i].begun /\ jobs[i].kind = "annots"
    /\ Ends(i, [jobs[i] EXCEPT !.version = version[jobs[i].page][1]])
    /\ UNCHANGED <<view, patch, content, version, crashed>>

\* A render is applied unless it was cancelled; either way its task is done with.
Applied(p, job) ==
    IF p.active = job.id
    THEN [p EXCEPT !.area = job.area, !.placed = TRUE, !.shown = job.bm, !.inFlight = None]
    ELSE p
CleanedUp(p, job) ==
    [p EXCEPT !.active = IF @ = job.id THEN None ELSE @,
              !.task = IF @ = job.id THEN None ELSE @,
              !.inFlight = IF @ = job.bm THEN None ELSE @]
RenderDone ==
    /\ ~crashed /\ posted # <<>> /\ Head(posted).kind = "render"
    /\ LET job == Head(posted)
           w == [Now EXCEPT !.patch[job.patch] = CleanedUp(Applied(@, job), job)]
       IN  Set(w) /\ posted' = Tail(posted)
    /\ UNCHANGED <<version, crashed>>

\* The annotations are those of the view, whichever page it has now; the redraw
\* that follows needs the overlay, which a released view has not.
AnnotationsDone ==
    /\ ~crashed /\ posted # <<>> /\ Head(posted).kind = "annots"
    /\ LET job == Head(posted)
           w == [Now EXCEPT !.view.annots =
                                    [page |-> job.page, version |-> job.version, late |-> job.late],
                            !.view.force = FALSE]
       IN  /\ crashed' = (view.page = None)
           /\ Set([Redraw(w, ~view.force) EXCEPT !.view.annotJob = None])
    /\ posted' = Tail(posted)
    /\ version' = version

-----------------------------------------------------------------------------

UserStep ==
    \/ \E p \in Pages : SetPage(p)
    \/ ReleaseResources \/ Settle \/ Unsettle \/ EditAnnotations \/ ChangeForm
    \/ \E place \in Places \cup {Whole} : Move(place)
JobRuns(i) == Begin(i) \/ Draw(i) \/ ReadAnnotations(i)
JobStep == \E i \in DOMAIN jobs : JobRuns(i)
PostedStep == RenderDone \/ AnnotationsDone

\* A bitmap that nobody refers to any more is gone; the next one is blank. What is
\* in one that no job has and no patch is drawn from is of no further use.
Live(w, ps) == {w.patch[v].shown : v \in {u \in Patches : w.patch[u].area # None}}
                 \cup {w.jobs[i].bm : i \in DOMAIN w.jobs} \cup {ps[i].bm : i \in DOMAIN ps}
Collected ==
    LET w == [view |-> view', patch |-> patch', jobs |-> jobs']
    IN  content' = [b \in InUse(w, posted') |->
                       IF b \in DOMAIN content \cap Live(w, posted') THEN content[b] ELSE Blank]

MainStep == (UserStep \/ PostedStep) /\ Collected
Next == MainStep \/ JobStep

Spec == Init /\ [][Next]_vars

\* Every job gets a thread of the pool and the monitor, and the main thread takes
\* what is posted. There are never more ids: the user launches three jobs at most,
\* and then each load of annotations two.
MaxIds == 3 * MaxJobs + 5
JobOfId(n) == \E i \in DOMAIN jobs : jobs[i].id = n /\ JobRuns(i)
Taken == ~crashed /\ posted # <<>> /\ posted' = Tail(posted)
FairSpec == Spec /\ (\A n \in 1..MaxIds : WF_jobs(JobOfId(n))) /\ WF_posted(Taken)

-----------------------------------------------------------------------------
(* Properties *)

Nums == Nat \ {0}
Area == Places \cup {Whole}

\* Every variable has its shape.
TypeOK ==
    /\ view.page \in Pages \cup {None} /\ view.place \in Area /\ view.ready \in BOOLEAN
    /\ view.bm \in (Nums \ Pool) \cup {None} /\ view.annotJob \in Nums \cup {None}
    /\ view.annots \in [page : Pages, version : Nat, late : BOOLEAN] \cup {None}
    /\ patch \in [Patches -> [area : Area \cup {None}, placed : BOOLEAN,
                              shown : Nums \cup {None}, active : Nums \cup {None},
                              task : Nums \cup {None}, inFlight : Nums \cup {None}]]
    /\ \A q \in {jobs, posted} : \A i \in DOMAIN q :
        q[i].id \in Nums /\ q[i].page \in Pages /\ q[i].kind \in {"render", "annots"}
    /\ \A i, j \in DOMAIN (jobs \o posted) : (jobs \o posted)[i].id = (jobs \o posted)[j].id => i = j
    /\ content \in [InUse(Now, posted) -> [page : Pages \cup {None}, area : Area \cup {None},
                                           version : Nat \X Nat, late : BOOLEAN]]

\* When every job is done and every result has arrived, the view shows its own
\* page whole, as the page is now, and in the patch the page with its present
\* ink, and has its annotations, whatever was cancelled or superseded before, in
\* bitmaps it reuses; unless what it shows or has came late, from a job that was
\* replaced by one ahead of it. (The patch may miss a change of a form made while
\* the view was not zoomed in: addHq returns early, and the patch is shown again
\* when the view comes back to its area.)
EntireDrawn ==
    LET c == content[patch["entire"].shown]
    IN  /\ patch["entire"].area = Whole /\ patch["entire"].placed
        /\ c.late \/ c = [page |-> view.page, area |-> Whole, version |-> version[view.page],
                          late |-> FALSE]
HqDrawn ==
    LET c == content[patch["hq"].shown]
    IN  /\ patch["hq"].placed
        /\ c.late \/ /\ c.page = view.page /\ c.area = patch["hq"].area
                     /\ c.version[1] = version[view.page][1]
AnnotsLoaded ==
    /\ view.annots # None
    /\ view.annots.late \/ view.annots = [page |-> view.page, version |-> version[view.page][1],
                                          late |-> FALSE]
SettlesRight ==
    ~crashed /\ jobs = <<>> /\ posted = <<>> /\ view.page # None =>
        EntireDrawn /\ (patch["hq"].area # None => HqDrawn) /\ AnnotsLoaded

\* A page that stays is shown, though nothing is drawn until its annotations are
\* loaded; or a late render has drawn over it.
PageAppears ==
    \A p \in Pages : view.page = p ~>
        \/ crashed \/ view.page # p
        \/ /\ patch["entire"].placed
           /\ LET c == content[patch["entire"].shown] IN c.page = p \/ c.late
=============================================================================
