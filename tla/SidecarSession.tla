---------------------------- MODULE SidecarSession ----------------------------
(***************************************************************************)
(* Annotations kept beside a document that cannot be changed in place      *)
(* (app/sidecar): SQLite rows, a session of one open document with a list  *)
(* per kind and page and a stack of undo and of redo operations, the       *)
(* eraser of InkController, and the jobs that use the session from         *)
(* background threads.                                                     *)
(*                                                                         *)
(* A change of an annotation is two steps of the user interface's thread,  *)
(* the row and then the list, as in the session's methods.                 *)
(***************************************************************************)
EXTENDS Naturals, SequencesExt, BagsExt

CONSTANTS
    Ink, Highlights, Notes,     \* ids that UUID.randomUUID may give
    Pages,
    Versions,                   \* what an update of a note may set
    MaxOps,                     \* bound of the model: operations on the two stacks
    Other,                      \* "page" of a row that belongs to another layout
    None,
    Bundle                      \* rows that an imported bundle may hold

ASSUME SidecarAssumption ==
    /\ Ink \cap Highlights = {} /\ Ink \cap Notes = {} /\ Highlights \cap Notes = {}
    /\ Other \notin Pages
    /\ 0 \in Versions /\ MaxOps \in Nat

VARIABLES
    rows,           \* the tables ink_strokes, highlights and notes
    cache,          \* inkCache, highlightCache, noteCache: None or the list, as a bag
    undoStack, redoStack,
    todo,           \* primitives the current call has still to run
    half,           \* None, or the list of the primitive whose row is already written
    editing,        \* sidecarEditingStroke
    page, visible,  \* the page shown, and whether its annotations are drawn
    job,            \* the background job, and how far it is
    disturbed       \* auxiliary: an edit and a job of this session have overlapped, or
                    \* lists were dropped or a page turned while annotations are
                    \* hidden, so that nothing loads the lists

stacks == <<undoStack, redoStack>>
view == <<page, visible>>
vars == <<rows, cache, stacks, todo, half, editing, view, job, disturbed>>

Kinds == {"ink", "highlight", "note"}
Kind(id) == CASE id \in Ink -> "ink" [] id \in Highlights -> "highlight" [] OTHER -> "note"
IdsOf == Ink \cup Highlights \cup Notes

\* Geometry, colour and text are abstracted to a version, which only notes change.
Annotation == {r \in [id : IdsOf, page : Pages \cup {Other}, ver : Versions] :
                  r.id \in Notes \/ r.ver = 0}
New(id) == [id |-> id, page |-> page, ver |-> 0]

\* null is neither an annotation nor a list of annotations.
ASSUME AnnotationAssumption ==
    /\ Bundle \subseteq Annotation
    /\ None \notin Annotation /\ \A R \in SUBSET Annotation : SetToBag(R) # None

----------------------------------------------------------------------------
(* The store *)

\* listInk, listHighlights, listNotes: one page of the session's layout.
Rows(k, p) == {r \in rows : Kind(r.id) = k /\ r.page = p}

\* Mutant of Inserted: an insert that does not replace the row of that id.
InsertedBeside(R, new) == R \cup new

\* insertInk, insertHighlight, insertNote: CONFLICT_REPLACE by id.
Inserted(R, new) == {r \in R : \A n \in new : n.id # r.id} \cup new

Deleted(R, gone) == {r \in R : \A g \in gone : g.id # r.id}

----------------------------------------------------------------------------
(* The session's lists *)

NoJob == [what |-> "none"]
NoLists == [k \in Kinds |-> [p \in Pages |-> None]]

\* inkStrokesForPage, highlightsForPage, notesForPage
ListFor(k, p) == IF cache[k][p] = None THEN SetToBag(Rows(k, p)) ELSE cache[k][p]

Matches(list, id) == {r \in DOMAIN list : r.id = id}

\* putNoteInCache: the first entry of that id gives way.
WithNote(list, note) ==
    IF Matches(list, note.id) = {} THEN BagAdd(list, note)
    ELSE BagAdd(BagRemove(list, CHOOSE r \in Matches(list, note.id) : TRUE), note)

----------------------------------------------------------------------------
(* Primitives, and the operations on the stacks made of them *)

\* restoreInkStroke and restoreHighlight append; restoreNote replaces.
Append1(r) == [do |-> IF r.id \in Notes THEN "replace" ELSE "append", recs |-> {r}]
Remove1(r) == [do |-> "remove", recs |-> {r}]
Each(F(_), s) == [i \in DOMAIN s |-> F(s[i])]

Op(undo, redo) == [undo |-> undo, redo |-> redo]
Added(s) == Op(Each(Remove1, s), Each(Append1, s))
Removed(r) == Op(<<Append1(r)>>, <<Remove1(r)>>)
Updated(prior, new) == Op(<<Append1(prior)>>, <<Append1(new)>>)

\* Mutant of InkReplaced: undoing removes the pieces and forgets the stroke.
InkReplacedForgetting(orig, s) ==
    Op(Each(Remove1, s), <<Remove1(orig)>> \o Each(Append1, s))

InkReplaced(orig, s) ==
    Op(Append(Each(Remove1, s), Append1(orig)), <<Remove1(orig)>> \o Each(Append1, s))

Run(R, p) == IF p.do = "remove" THEN Deleted(R, p.recs) ELSE Inserted(R, p.recs)
RowsAfter(R, prims) ==
    LET after[i \in 0..Len(prims)] == IF i = 0 THEN R ELSE Run(after[i - 1], prims[i])
    IN  after[Len(prims)]

PushUndo(op) ==
    /\ Len(undoStack) < MaxOps
    /\ undoStack' = <<op>> \o undoStack
    /\ redoStack' = <<>>

\* A new UUID is one that no row and no operation mentions.
Prims(op) == ToSet(op.undo) \cup ToSet(op.redo)
Recorded == UNION {p.recs : p \in UNION {Prims(op) : op \in ToSet(undoStack \o redoStack)}}
Held == IF editing = None THEN rows ELSE rows \cup {editing}
Fresh(id) == \A r \in Held \cup Recorded : r.id # id

\* Strokes, or the pieces left of one.
FreshInk(n) == {s \in BoundedSeq({New(i) : i \in {j \in Ink : Fresh(j)}}, n) : IsInjective(s)}

Init ==
    /\ rows = {} /\ cache = NoLists
    /\ undoStack = <<>> /\ redoStack = <<>>
    /\ todo = <<>> /\ half = None /\ editing = None
    /\ page \in Pages /\ visible = TRUE
    /\ job = NoJob /\ disturbed = FALSE

\* A step that leaves the session as orderly as it was if c holds.
Orderly(c) == disturbed' = (disturbed \/ ~c)

----------------------------------------------------------------------------
(* The user's calls: each writes its first row, and leaves what follows to   *)
(* the steps of the next section.                                          *)

\* The user edits what a frame has shown; what is hidden, any page may be cold.
Ready ==
    /\ todo = <<>>
    /\ visible => \A k \in Kinds : cache[k][page] # None

Idle == Ready /\ editing = None

\* The rows are in; the list of their page follows in Place.
Insert(recs, do) ==
    /\ rows' = Inserted(rows, recs)
    /\ todo' = <<[do |-> do, recs |-> recs]>>
    /\ half' = EmptyBag
    /\ UNCHANGED cache

\* saveDraw: the pending strokes become rows.
AddInk(s) ==
    /\ Idle /\ s # <<>>
    /\ Insert(ToSet(s), "append")
    /\ PushUndo(Added(s))
    /\ Orderly(job = NoJob)
    /\ UNCHANGED <<editing, view, job>>

\* addHighlight, addNote
Add(id) ==
    /\ Idle /\ Fresh(id)
    /\ Insert({New(id)}, "append")
    /\ PushUndo(Added(<<New(id)>>))
    /\ Orderly(job = NoJob)
    /\ UNCHANGED <<editing, view, job>>

\* updateNoteText and the other updates: prior comes from the list.
UpdateNote(prior, v) ==
    /\ Idle
    /\ prior \in DOMAIN ListFor("note", page) /\ v # prior.ver
    /\ LET new == [prior EXCEPT !.ver = v] IN
        /\ Insert({new}, "replace")
        /\ PushUndo(Updated(prior, new))
    /\ Orderly(job = NoJob)
    /\ UNCHANGED <<editing, view, job>>

\* The start of removeInkStroke, removeHighlight and removeNote: r was found in
\* the list; its row goes, and Place puts the shorter list back.
Take(list, r) ==
    /\ rows' = Deleted(rows, {r})
    /\ half' = BagRemove(list, r)
    /\ UNCHANGED cache

\* deleteSelected; an annotation already gone is only looked for.
DeleteSelected(id) ==
    /\ Idle /\ Kind(id) # "ink"
    /\ LET list == ListFor(Kind(id), page) IN
        \/ /\ Matches(list, id) = {}
           /\ cache' = [cache EXCEPT ![Kind(id)][page] = list]
           /\ UNCHANGED <<rows, half, todo, stacks>>
        \/ \E r \in Matches(list, id) :
              /\ Take(list, r)
              /\ todo' = <<Remove1(r)>>
              /\ PushUndo(Removed(r))
    /\ Orderly(job = NoJob)
    /\ UNCHANGED <<editing, view, job>>

\* maybeBeginErasingSidecarInkAt: the stroke hit is taken out of the store and
\* kept by the ink controller alone until the gesture ends.
EraseBegin(r) ==
    /\ Idle
    /\ r \in DOMAIN ListFor("ink", page)
    /\ Take(ListFor("ink", page), r)
    /\ todo' = <<Remove1(r)>>
    /\ editing' = r
    /\ Orderly(job = NoJob)
    /\ UNCHANGED <<stacks, view, job>>

\* onFinishEraseGesture: what remains is saved in place of the stroke.
EraseEnd(s) ==
    /\ Ready /\ editing # None
    /\ IF s = <<>> THEN UNCHANGED <<rows, cache, todo, half>> ELSE Insert(ToSet(s), "append")
    /\ PushUndo(InkReplaced(editing, s))
    /\ editing' = None
    /\ Orderly(job = NoJob)
    /\ UNCHANGED <<view, job>>

UndoLast ==
    /\ Idle /\ undoStack # <<>>
    /\ todo' = Head(undoStack).undo
    /\ undoStack' = Tail(undoStack)
    /\ redoStack' = <<Head(undoStack)>> \o redoStack
    /\ Orderly(job = NoJob)
    /\ UNCHANGED <<rows, cache, half, editing, view, job>>

RedoLast ==
    /\ Idle /\ redoStack # <<>>
    /\ todo' = Head(redoStack).redo
    /\ redoStack' = Tail(redoStack)
    /\ undoStack' = <<Head(redoStack)>> \o undoStack
    /\ Orderly(job = NoJob)
    /\ UNCHANGED <<rows, cache, half, editing, view, job>>

----------------------------------------------------------------------------
(* The rest of a call: its primitives, one after the other *)

\* A restored annotation is written over whatever row has its id.
WriteRow ==
    /\ todo # <<>> /\ half = None /\ Head(todo).do # "remove"
    /\ rows' = Inserted(rows, Head(todo).recs)
    /\ half' = EmptyBag
    /\ UNCHANGED <<cache, stacks, todo, editing, view, job, disturbed>>

\* removeInkStroke, removeHighlight, removeNote in an operation: what the list
\* does not have is not deleted.
DeleteRow ==
    /\ todo # <<>> /\ half = None
    /\ Head(todo).do = "remove"
    /\ \E r \in Head(todo).recs :
        LET k == Kind(r.id)
            list == ListFor(k, r.page)
        IN IF Matches(list, r.id) = {}
           THEN /\ cache' = [cache EXCEPT ![k][r.page] = list]
                /\ todo' = Tail(todo)
                /\ UNCHANGED <<rows, half>>
           ELSE (\E m \in Matches(list, r.id) : Take(list, m)) /\ UNCHANGED todo
    /\ UNCHANGED <<stacks, editing, view, job, disturbed>>

\* The list, loaded if it is not there, with what was written; a list loaded
\* only now has the new row already.
Place ==
    /\ half # None
    /\ LET p == Head(todo)
           r == CHOOSE x \in p.recs : TRUE
           list == ListFor(Kind(r.id), r.page)
       IN cache' = [cache EXCEPT ![Kind(r.id)][r.page] =
                       CASE p.do = "remove" -> half
                         [] p.do = "append" -> list (+) SetToBag(p.recs)
                         [] p.do = "replace" -> WithNote(list, r)]
    /\ half' = None
    /\ todo' = Tail(todo)
    /\ UNCHANGED <<rows, stacks, editing, view, job, disturbed>>

----------------------------------------------------------------------------
(* Pages *)

\* SidecarAnnotationRenderer.draw asks for the three lists.
Draw ==
    /\ todo = <<>> /\ visible
    /\ \E k \in Kinds : cache[k][page] = None
    /\ cache' = [k \in Kinds |-> [cache[k] EXCEPT ![page] = ListFor(k, page)]]
    /\ UNCHANGED <<rows, stacks, todo, half, editing, view, job, disturbed>>

TurnPage(p) ==
    /\ todo = <<>> /\ editing = None
    /\ p # page /\ page' = p
    /\ Orderly(visible)
    /\ UNCHANGED <<rows, cache, stacks, todo, half, editing, visible, job>>

\* setCommentsVisible
ToggleComments ==
    /\ Idle
    /\ visible' = ~visible
    /\ Orderly(job = NoJob)
    /\ UNCHANGED <<rows, cache, stacks, todo, half, editing, page, job>>

----------------------------------------------------------------------------
(* Background jobs *)

\* A step of a job between two calls of the user's.
Between == todo = <<>> /\ editing = None

\* CommentsNavigationController.navigateFrom: a background thread asks the
\* session for the lists of every page, and the session keeps what it loads.
CommentsRead(p) ==
    /\ job = NoJob /\ Orderly(Between)
    /\ \E k \in Kinds : cache[k][p] = None
    /\ job' = [what |-> "comments", page |-> p,
               lists |-> [k \in {c \in Kinds : cache[c][p] = None} |-> SetToBag(Rows(k, p))]]
    /\ UNCHANGED <<rows, cache, stacks, todo, half, editing, view>>

CommentsKeep ==
    /\ job.what = "comments" /\ Orderly(Between)
    /\ cache' = [k \in Kinds |->
                    IF k \in DOMAIN job.lists THEN [cache[k] EXCEPT ![job.page] = job.lists[k]]
                    ELSE cache[k]]
    /\ job' = NoJob
    /\ UNCHANGED <<rows, stacks, todo, half, editing, view>>

\* importBundleIntoThisDoc: the rows, written under a dialog that keeps the user
\* away from the page.
ImportRows(r) ==
    /\ job = NoJob /\ Between /\ Orderly(visible)
    /\ rows' = Inserted(rows, {r})
    /\ job' = [what |-> "import"]
    /\ UNCHANGED <<cache, stacks, todo, half, editing, view>>

\* Mutant of ImportClear: the notes' lists are forgotten.
ImportClearNotNotes ==
    /\ job.what = "import" /\ Orderly(Between)
    /\ cache' = [NoLists EXCEPT !["note"] = cache["note"]]
    /\ undoStack' = <<>> /\ redoStack' = <<>>
    /\ job' = NoJob
    /\ UNCHANGED <<rows, todo, half, editing, view>>

ImportClear ==
    /\ job.what = "import" /\ Orderly(Between)
    /\ cache' = NoLists
    /\ undoStack' = <<>> /\ redoStack' = <<>>
    /\ job' = NoJob
    /\ UNCHANGED <<rows, todo, half, editing, view>>

\* applyWithRelayout makes a new session for the new layout, and a job that
\* looks for the highlights of the old one; with ink the layout is locked.
Relayout ==
    /\ Idle /\ job = NoJob /\ Orderly(visible)
    /\ \A r \in rows : Kind(r.id) # "ink"
    /\ rows' = {[r EXCEPT !.page = Other] : r \in rows}
    /\ cache' = NoLists /\ undoStack' = <<>> /\ redoStack' = <<>>
    /\ job' = [what |-> "relayout"]
    /\ UNCHANGED <<todo, half, editing, view>>

ReanchorRead ==
    /\ job.what = "relayout" /\ Orderly(Between)
    /\ job' = [what |-> "reanchor", updated |-> FALSE,
               all |-> {r \in rows : Kind(r.id) = "highlight" /\ r.page = Other}]
    /\ UNCHANGED <<rows, cache, stacks, todo, half, editing, view>>

\* The quote is found on page p, or left in its layout.
ReanchorRow(r, p) ==
    /\ rows' = IF p = Other THEN rows ELSE Inserted(rows, {[r EXCEPT !.page = p]})
    /\ job' = [job EXCEPT !.all = @ \ {r}, !.updated = @ \/ p # Other]
    /\ UNCHANGED <<cache, stacks, todo, half, editing, view>>

Reanchor ==
    /\ job.what = "reanchor" /\ Orderly(Between)
    /\ \E r \in job.all, p \in Pages \cup {Other} : ReanchorRow(r, p)

ReanchorDone ==
    /\ job.what = "reanchor" /\ Orderly(Between) /\ job.all = {}
    /\ cache' = IF job.updated THEN [cache EXCEPT !["highlight"] = NoLists["highlight"]] ELSE cache
    /\ job' = NoJob
    /\ UNCHANGED <<rows, stacks, todo, half, editing, view>>

----------------------------------------------------------------------------
\* The process ends, at any point of a call, or the document is closed; the
\* rows are all the next session has.
Reopen ==
    /\ cache' = NoLists /\ undoStack' = <<>> /\ redoStack' = <<>>
    /\ todo' = <<>> /\ half' = None /\ editing' = None /\ job' = NoJob
    /\ visible' = TRUE /\ disturbed' = FALSE
    /\ UNCHANGED <<rows, page>>

User ==
    \/ \E s \in FreshInk(2) : AddInk(s) \/ EraseEnd(s)
    \/ \E id \in Highlights \cup Notes : Add(id) \/ DeleteSelected(id)
    \/ \E r \in Annotation, v \in Versions : UpdateNote(r, v)
    \/ \E r \in Annotation : EraseBegin(r)
    \/ UndoLast \/ RedoLast
    \/ \E p \in Pages : TurnPage(p)
    \/ ToggleComments \/ Relayout \/ Reopen

Session == WriteRow \/ DeleteRow \/ Place \/ Draw

Background ==
    \/ \E p \in Pages : CommentsRead(p)
    \/ \E r \in Bundle : ImportRows(r)
    \/ CommentsKeep \/ ImportClear \/ ReanchorRead \/ Reanchor \/ ReanchorDone

Next == User \/ Session \/ Background

Spec == Init /\ [][Next]_vars

----------------------------------------------------------------------------
(* Properties *)

TypeOK ==
    /\ rows \subseteq Annotation
    /\ \A r, s \in rows : r.id = s.id => r = s
    /\ \A k \in Kinds, p \in Pages :
          cache[k][p] # None => IsABag(cache[k][p]) /\ DOMAIN cache[k][p] \subseteq Annotation
    /\ Len(undoStack \o redoStack) <= MaxOps
    /\ half # None => todo # <<>>
    /\ editing \in Annotation \cup {None}
    /\ page \in Pages /\ visible \in BOOLEAN /\ disturbed \in BOOLEAN

\* No call and no job is between two of its steps.
Settled == todo = <<>> /\ job = NoJob

\* "Document-scoped in-memory view of sidecar annotations with a backing store":
\* every list there is holds each row of its page and layout once, and
\* nothing else, after any edits, undos, imports and re-anchorings, as long as
\* nothing has disturbed the session.
ListsMatchStore ==
    Settled /\ ~disturbed => \A k \in Kinds, p \in Pages :
        cache[k][p] # None => cache[k][p] = SetToBag(Rows(k, p))

\* The undo and redo of a session are those of one document (History): edits of
\* ink, highlights and notes, on all pages, undone in turn, and a stroke erased
\* to pieces or away, lead back to exactly the rows there were, in a session
\* whose lists decide what is deleted; a disturbed session promises nothing until
\* the document is opened anew.
Doc == RowsAfter(rows, todo) \cup (Held \ rows)

\* The documents that operations lead to one after the other, from D.
Along(D, ops) ==
    LET after[i \in 0..Len(ops)] == IF i = 0 THEN D ELSE RowsAfter(after[i - 1], ops[i])
    IN  [i \in DOMAIN ops |-> after[i]]
Undos == [i \in DOMAIN undoStack |-> undoStack[i].undo]
Redos == [i \in DOMAIN redoStack |-> redoStack[i].redo]
Importing == job.what = "import"
Lost == Importing \/ disturbed
Past == IF Lost THEN <<>> ELSE Along(Doc, Undos)
Future == IF Lost THEN <<>> ELSE Along(Doc, Redos)

Document == INSTANCE History WITH
    Docs <- SUBSET Annotation, doc <- Doc, past <- Past, future <- Future
IsHistory == Document!Spec
=============================================================================
