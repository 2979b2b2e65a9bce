------------------------------ MODULE PageUndo ------------------------------
(***************************************************************************)
(* Drawing, erasing, writing, undo and redo on one page of a PDF that      *)
(* keeps its annotations in the file (no sidecar), on Android.             *)
(*                                                                         *)
(* The annotations belong to the native page; every call on it is atomic   *)
(* (the monitor of the core).  The main thread makes several calls in one  *)
(* gesture, and the jobs that add text and markup run on I/O threads, so   *)
(* that their calls fall between those of the main thread.  There are      *)
(* three histories: of the pending strokes (DrawingController), of the     *)
(* strokes committed to the page (InkUndoController), and of text and      *)
(* markup (TextAnnotationUndoController); the page view picks one per undo.*)
(*                                                                         *)
(* A stroke is a number, and a stroke that the eraser cut is another: the  *)
(* points of two strokes, and the bounds, are equal only if the strokes    *)
(* are.  A text is a name with a style.  Names, strokes and object numbers *)
(* are drawn from one counter, bounded by MaxFresh; Styles stands for all  *)
(* that a snapshot of a text holds.                                        *)
(***************************************************************************)
EXTENDS Integers, SequencesExt

CONSTANTS
    FileAnnots,   \* the annotations of the page in the file
    FileNumbers,  \* how many numbers they use
    Styles, Plain,
    Jobs,         \* the I/O jobs that run at once, at most
    MaxFresh, MaxOps, MaxGestures   \* bounds: of numbers, operations on text, pending gestures

ASSUME ConstantsAssumption ==
    /\ Plain \in Styles /\ {MaxFresh, MaxOps, MaxGestures} \subseteq Nat

\* An annotation of n numbers: the strokes of ink, or a text or a markup.
What(n) == [name : 1..n, style : Styles]
Annots(n) == [id : 1..n, kind : {"ink"}, what : Seq(1..n)]
             \cup [id : 1..n, kind : {"text", "markup"}, what : What(n)]

PageInk(page) == {i \in DOMAIN page : page[i].kind = "ink"}
Strokes(arcs) == ToSet(arcs)

\* No annotation has a number of another, no stroke is in the file twice, and
\* no text: a name is what tells it from the others.
ASSUME FileAssumption ==
    /\ FileNumbers \in 0..MaxFresh /\ Len(FileAnnots) <= FileNumbers
    /\ FileAnnots \in Seq(Annots(FileNumbers))
    /\ \A i, j \in DOMAIN FileAnnots : FileAnnots[i].id = FileAnnots[j].id => i = j
    /\ \A i \in PageInk(FileAnnots) : IsInjective(FileAnnots[i].what)
    /\ \A i, j \in PageInk(FileAnnots) :
          i # j => Strokes(FileAnnots[i].what) \cap Strokes(FileAnnots[j].what) = {}
    /\ \A i, j \in DOMAIN FileAnnots \ PageInk(FileAnnots) :
          FileAnnots[i].what.name = FileAnnots[j].what.name => i = j

VARIABLES
    annots,       \* the annotations of the page, in order
    drawing,      \* the pending strokes
    history,      \* what the pending strokes were before each gesture, the last first
    erasing,      \* the pending strokes are those of an annotation taken off the page
    inkStack,     \* the committed ink that can be undone, the last first
    undoStack, redoStack,   \* the operations on text and markup
    newer,        \* which of the histories of ink and of text was touched last
    jobs,         \* the I/O jobs
    call,         \* where the main thread is
    fresh,        \* the next number
    doubled,      \* the strokes a failed commit left on the page and pending (no code)
    fate          \* the texts the user has restyled, and removed (no code)

ink == <<drawing, history, erasing, inkStack>>
text == <<undoStack, redoStack, fate>>
vars == <<annots, ink, text, newer, jobs, call, fresh, doubled>>

Ids == {annots[i].id : i \in DOMAIN annots}
Annotation(kind, what) == [id |-> fresh, kind |-> kind, what |-> what]
CanAdd == fresh <= MaxFresh

At(step) == call.at = step
Enter(step) == call' = [at |-> step, n |-> 0, then |-> "idle"]
NoJob == [at |-> "none"]

Init ==
    /\ annots = FileAnnots
    /\ drawing = <<>> /\ history = <<>> /\ erasing = FALSE
    /\ inkStack = <<>> /\ undoStack = <<>> /\ redoStack = <<>>
    /\ newer = "ink"
    /\ jobs = [j \in Jobs |-> NoJob]
    /\ call = [at |-> "idle", n |-> 0, then |-> "idle"]
    /\ fresh = FileNumbers + 1 /\ doubled = {}
    /\ fate = [restyled |-> {}, removed |-> {}]

-----------------------------------------------------------------------------
(* Pending strokes *)

CancelDrawingKeepsHistory == drawing' = <<>> /\ history' = history
CancelDrawing == drawing' = <<>> /\ history' = <<>>

Draw ==
    /\ At("idle") /\ CanAdd /\ Len(history) < MaxGestures
    /\ history' = <<drawing>> \o history
    /\ drawing' = Append(drawing, fresh)
    /\ fresh' = fresh + 1 /\ newer' = "ink"
    /\ UNCHANGED <<annots, erasing, inkStack, text, jobs, call>>

CancelDraw ==
    /\ At("idle") /\ CancelDrawing
    /\ newer' = "ink"
    /\ UNCHANGED <<annots, erasing, inkStack, text, jobs, call, fresh>>

-----------------------------------------------------------------------------
(* saveDraw commits the pending strokes as one annotation: it counts the   *)
(* annotations, adds one, counts again, and remembers it for undo.         *)

Save(then) == call' = [at |-> "counted", n |-> Len(annots), then |-> then]

SaveDraw ==
    /\ At("idle") /\ drawing # <<>> /\ Save("idle")
    /\ UNCHANGED <<annots, ink, text, newer, jobs, fresh>>

SaveAdd ==
    /\ At("counted") /\ CanAdd
    /\ annots' = Append(annots, Annotation("ink", drawing))
    /\ fresh' = fresh + 1
    /\ call' = [call EXCEPT !.at = "added"]
    /\ UNCHANGED <<ink, text, newer, jobs>>

\* The native call failed: before it created the annotation, or after, when it
\* had written some of the strokes, one after the other: the one it was at may be
\* cut short, which makes it another stroke.
UpTo(n) == SubSeq(drawing, 1, n)
Written == {UpTo(n) : n \in 0..Len(drawing)}
              \cup {Append(UpTo(n), fresh) : n \in 0..(Len(drawing) - 1)}
Leave(strokes) ==
    /\ CanAdd /\ annots' = Append(annots, Annotation("ink", strokes)) /\ fresh' = fresh + 1
    /\ doubled' = doubled \cup (Strokes(strokes) \cap Strokes(drawing))
SaveThrowsAndClears ==
    /\ At("counted") /\ CancelDrawing /\ Enter(call.then)
    /\ UNCHANGED <<annots, erasing, inkStack, text, newer, jobs, fresh, doubled>>
SaveThrows ==
    /\ At("counted")
    /\ UNCHANGED <<annots, fresh, doubled>> \/ \E strokes \in Written : Leave(strokes)
    /\ Enter(call.then)
    /\ UNCHANGED <<ink, text, newer, jobs>>

\* The index of the annotation that undo will remove for ink just committed.
PushSignatureFirst(arcs) ==
    LET inks == {i \in DOMAIN annots : annots[i].kind = "ink"}
    IN  IF inks = {} THEN 0 ELSE Min(inks)
PushSignature(arcs) ==
    LET inks == {i \in DOMAIN annots : annots[i].kind = "ink"}
        same == {i \in inks : annots[i].what = arcs}
    IN  CASE same # {} -> Max(same)
          [] same = {} /\ inks # {} -> Max(inks)
          [] OTHER -> 0

\* made, which undo does not read, is what was committed.
PushSnapshot(arcs) ==
    LET i == PushSignature(arcs)
    IN  inkStack' = IF i = 0 THEN inkStack
                    ELSE <<[index |-> i, id |-> annots[i].id, arcs |-> annots[i].what,
                            made |-> arcs]>> \o inkStack

SaveAccept ==
    /\ At("added")
    /\ IF Len(annots) > call.n
       THEN CancelDrawing /\ PushSnapshot(drawing) /\ newer' = "ink"
       ELSE UNCHANGED <<drawing, history, inkStack, newer>>
    /\ Enter(call.then)
    /\ UNCHANGED <<annots, erasing, text, jobs, fresh>>

-----------------------------------------------------------------------------
(* The eraser *)

\* The finger comes down: pending strokes are committed first.
BeginErase ==
    /\ At("idle")
    /\ \/ drawing = <<>> /\ Len(history) < MaxGestures /\ Enter("hit")
       \/ drawing # <<>> /\ Len(history) <= MaxGestures /\ Save("hit")
    /\ UNCHANGED <<annots, ink, text, newer, jobs, fresh>>

\* The annotation i becomes the pending strokes and leaves the page.
LoadInk(i) ==
    /\ drawing = <<>> /\ ~erasing /\ annots[i].kind = "ink"
    /\ drawing' = annots[i].what
    /\ annots' = RemoveAt(annots, i)
    /\ erasing' = (drawing' # <<>>)

StartErase ==
    /\ At("hit")
    /\ \/ UNCHANGED <<annots, drawing, erasing>>
       \/ \E i \in DOMAIN annots : LoadInk(i)
    /\ history' = <<drawing'>> \o history
    /\ newer' = "ink" /\ Enter("erasing")
    /\ UNCHANGED <<inkStack, text, jobs, fresh>>

\* The finger moves over an annotation ...
EraserCatches ==
    /\ At("erasing") /\ \E i \in DOMAIN annots : LoadInk(i)
    /\ UNCHANGED <<history, inkStack, text, newer, jobs, call, fresh>>

\* ... or over a pending stroke, and rubs it out or leaves pieces of it, which
\* count as one new stroke.
EraserRubs(i) ==
    /\ At("erasing")
    /\ \/ drawing' = RemoveAt(drawing, i) /\ fresh' = fresh
       \/ CanAdd /\ drawing' = [drawing EXCEPT ![i] = fresh] /\ fresh' = fresh + 1
    /\ UNCHANGED <<annots, history, erasing, inkStack, text, newer, jobs, call>>

\* The finger goes up: what is left of an annotation is committed at once.
FinishErase ==
    /\ At("erasing")
    /\ erasing' = FALSE /\ newer' = "ink"
    /\ \/ ~erasing /\ UNCHANGED <<drawing, history>> /\ Enter("idle")
       \/ erasing /\ drawing # <<>> /\ UNCHANGED <<drawing, history>> /\ Save("idle")
       \/ erasing /\ drawing = <<>> /\ CancelDrawing /\ Enter("idle")
    /\ UNCHANGED <<annots, inkStack, text, jobs, fresh>>

-----------------------------------------------------------------------------
(* Text and markup.  A job lists the annotations, adds one, lists them     *)
(* again and takes for its own the new one that is nearest to what it      *)
(* added; then the main thread records that it is there.                   *)

Op(kind, id, before, after, of, present) ==
    [kind |-> kind, id |-> id, before |-> before, after |-> after, of |-> of, present |-> present]

Push(op) == undoStack' = <<op>> \o undoStack /\ redoStack' = <<>>

AddList(j) ==
    /\ jobs[j].at = "none" /\ Len(undoStack) < MaxOps
    /\ jobs' = [jobs EXCEPT ![j] = [at |-> "listed", known |-> Ids]]
    /\ UNCHANGED <<annots, ink, text, newer, call, fresh>>

\* own: the number of the annotation it added, which the code does not know.
AddNative(j, kind) ==
    /\ jobs[j].at = "listed" /\ CanAdd
    /\ LET what == [name |-> fresh, style |-> Plain]
       IN  /\ annots' = Append(annots, Annotation(kind, what))
           /\ jobs' = [jobs EXCEPT ![j] = [at |-> "added", kind |-> kind, what |-> what,
                                           known |-> @.known, own |-> fresh]]
    /\ fresh' = fresh + 1
    /\ UNCHANGED <<ink, text, newer, call>>

FindNewest(kind, what, known) ==
    {annots[Max({i \in DOMAIN annots : annots[i].kind = kind} \cup {1})].id}
FindNew(kind, what, known) ==
    LET new == {i \in DOMAIN annots : annots[i].kind = kind /\ annots[i].id \notin known}
        near == {i \in new : annots[i].what = what}
    IN  CASE near # {} -> {annots[Min(near)].id}
          [] near = {} /\ new # {} -> {annots[i].id : i \in new}
          [] OTHER -> {0}
AddFind(j) ==
    /\ jobs[j].at = "added"
    /\ \E id \in FindNew(jobs[j].kind, jobs[j].what, jobs[j].known) :
        jobs' = [jobs EXCEPT ![j] = [at |-> "found", kind |-> @.kind, what |-> @.what,
                                     own |-> @.own, id |-> id]]
    /\ UNCHANGED <<annots, ink, text, newer, call, fresh>>

\* A markup then refreshes the state of undo, which counts as a use of the
\* history of ink, in the same millisecond or later.
AddPush(j) ==
    /\ jobs[j].at = "found" /\ (At("idle") \/ At("erasing"))
    /\ IF jobs[j].id = 0 THEN UNCHANGED <<text, newer>>
       ELSE /\ Push(Op("presence", jobs[j].id, jobs[j].what, jobs[j].what, jobs[j].kind, TRUE))
            /\ newer' \in IF jobs[j].kind = "markup" THEN {"text", "ink"} ELSE {"text"}
            /\ UNCHANGED fate
    /\ jobs' = [jobs EXCEPT ![j] = NoJob]
    /\ UNCHANGED <<annots, ink, call, fresh>>

Overwritten(id, what) ==
    [i \in DOMAIN annots |-> IF annots[i].id = id THEN [annots[i] EXCEPT !.what = what] ELSE annots[i]]
Without(id) ==
    IF id \in Ids THEN RemoveAt(annots, CHOOSE i \in DOMAIN annots : annots[i].id = id)
    ELSE annots

\* applyTextStyle and the like: the text is overwritten, and the snapshots
\* before and after are recorded.
Restyle(i, style) ==
    /\ At("idle") /\ Len(undoStack) < MaxOps
    /\ annots[i].kind = "text" /\ annots[i].what.style # style
    /\ LET after == [annots[i].what EXCEPT !.style = style]
       IN  /\ annots' = Overwritten(annots[i].id, after)
           /\ Push(Op("edit", annots[i].id, annots[i].what, after, "text", TRUE))
    /\ fate' = [restyled |-> fate.restyled \cup {annots[i].what.name}, removed |-> fate.removed]
    /\ newer' = "text"
    /\ UNCHANGED <<ink, jobs, call, fresh>>

RemoveText(i) ==
    /\ At("idle") /\ Len(undoStack) < MaxOps
    /\ annots[i].kind = "text"
    /\ annots' = Without(annots[i].id)
    /\ Push(Op("presence", 0, annots[i].what, annots[i].what, "text", FALSE))
    /\ fate' = [restyled |-> fate.restyled, removed |-> fate.removed \cup {annots[i].what.name}]
    /\ newer' = "text"
    /\ UNCHANGED <<ink, jobs, call, fresh>>

-----------------------------------------------------------------------------
(* Undo and redo *)

CanUndoInk == history # <<>> \/ inkStack # <<>>
PreferText == undoStack # <<>> /\ (~CanUndoInk \/ newer = "text")

\* An edit writes one of its snapshots; a presence removes its annotation, or
\* adds it again under a new number.
Perform(op, what) ==
    \/ /\ op.kind = "edit"
       /\ annots' = Overwritten(op.id, what) /\ fresh' = fresh
    \/ /\ op.kind = "presence" /\ op.present
       /\ annots' = Without(op.id) /\ fresh' = fresh
    \/ /\ op.kind = "presence" /\ ~op.present /\ CanAdd
       /\ annots' = Append(annots, Annotation(op.of, what)) /\ fresh' = fresh + 1

PerformedKeepsNumber(op) == [op EXCEPT !.present = ~@]
Performed(op) ==
    CASE op.kind = "edit" -> op
      [] op.kind = "presence" /\ op.present -> [op EXCEPT !.present = FALSE, !.id = 0]
      [] OTHER -> [op EXCEPT !.present = TRUE, !.id = fresh]

UndoText ==
    /\ At("idle") /\ PreferText
    /\ Perform(Head(undoStack), Head(undoStack).before)
    /\ undoStack' = Tail(undoStack)
    /\ redoStack' = <<Performed(Head(undoStack))>> \o redoStack
    /\ newer' = "text"
    /\ UNCHANGED <<ink, jobs, call, fate>>

\* Ink on the page has no redo, so that redo is always the redo of text.
RedoText ==
    /\ At("idle") /\ redoStack # <<>>
    /\ Perform(Head(redoStack), Head(redoStack).after)
    /\ redoStack' = Tail(redoStack)
    /\ undoStack' = <<Performed(Head(redoStack))>> \o undoStack
    /\ newer' = "text"
    /\ UNCHANGED <<ink, jobs, call, fate>>

UndoPending ==
    /\ At("idle") /\ ~PreferText /\ history # <<>>
    /\ drawing' = Head(history) /\ history' = Tail(history)
    /\ newer' = "ink"
    /\ UNCHANGED <<annots, erasing, inkStack, text, jobs, call, fresh>>

Matches(a, item) == a.kind = "ink" /\ (a.id = item.id \/ a.what = item.arcs)

FindMatchingIndex(item) ==
    LET matching == {i \in DOMAIN annots : Matches(annots[i], item)}
    IN  CASE item.index \in matching -> item.index
          [] item.index \notin matching /\ matching # {} -> Max(matching)
          [] OTHER -> 0

\* The annotations are read and the one to delete is chosen; undo does
\* nothing, and its item stays, when there is none.
UndoInk ==
    /\ At("idle") /\ ~PreferText /\ history = <<>> /\ inkStack # <<>>
    /\ FindMatchingIndex(Head(inkStack)) # 0
    /\ call' = [at |-> "matched", n |-> FindMatchingIndex(Head(inkStack)), then |-> "idle"]
    /\ UNCHANGED <<annots, ink, text, newer, jobs, fresh>>

UndoInkDelete ==
    /\ At("matched")
    /\ annots' = IF call.n <= Len(annots) THEN RemoveAt(annots, call.n) ELSE annots
    /\ inkStack' = Tail(inkStack)
    /\ newer' = "ink" /\ Enter("idle")
    /\ UNCHANGED <<drawing, history, erasing, text, jobs, fresh>>

-----------------------------------------------------------------------------

InkStep ==
    \/ Draw \/ CancelDraw \/ SaveDraw \/ SaveAdd \/ SaveAccept
    \/ BeginErase \/ StartErase \/ EraserCatches \/ FinishErase
    \/ \E i \in DOMAIN drawing : EraserRubs(i)
    \/ UndoPending \/ UndoInk \/ UndoInkDelete
TextStep ==
    \/ \E i \in DOMAIN annots : RemoveText(i) \/ \E s \in Styles : Restyle(i, s)
    \/ UndoText \/ RedoText
JobStep(j) ==
    \/ AddList(j) \/ \E kind \in {"text", "markup"} : AddNative(j, kind)
    \/ AddFind(j) \/ AddPush(j)

Next ==
    \/ SaveThrows
    \/ UNCHANGED doubled /\ (InkStep \/ TextStep \/ \E j \in Jobs : JobStep(j))

Spec == Init /\ [][Next]_vars

-----------------------------------------------------------------------------
(* Properties *)

OnPage == UNION {Strokes(annots[i].what) : i \in PageInk(annots)}
Ops(n) == [kind : {"edit", "presence"}, id : 0..n, before : What(n), after : What(n),
           of : {"text", "markup"}, present : BOOLEAN]
Items(n) == [index : 1..n, id : 1..n, arcs : Seq(1..n), made : Seq(1..n)]

\* Every variable has its shape.
TypeOK ==
    /\ annots \in Seq(Annots(MaxFresh))
    /\ \A i, j \in DOMAIN annots : annots[i].id = annots[j].id => i = j
    /\ drawing \in Seq(1..MaxFresh) /\ history \in Seq(Seq(1..MaxFresh))
    /\ erasing \in BOOLEAN /\ newer \in {"ink", "text"}
    /\ inkStack \in Seq(Items(MaxFresh))
    /\ undoStack \in Seq(Ops(MaxFresh)) /\ redoStack \in Seq(Ops(MaxFresh))
    /\ \A op \in ToSet(undoStack) \cup ToSet(redoStack) : op.present = (op.id # 0)
    /\ call.at \in {"idle", "counted", "added", "hit", "erasing", "matched"}

\* A stroke is in one place: whatever the eraser lifts off the page and puts
\* back, no stroke is twice on the page, and none that is on the page is also
\* pending or comes back by undoing pending ones, but those that a commit
\* wrote to the page before it failed.
StrokeInOnePlace ==
    ~At("added") =>
        /\ \A i, j \in PageInk(annots) :
              i # j => Strokes(annots[i].what) \cap Strokes(annots[j].what) \subseteq doubled
        /\ \A i \in PageInk(annots) : IsInjective(annots[i].what)
        /\ IsInjective(drawing)
        /\ \A old \in {drawing} \cup ToSet(history) : Strokes(old) \cap OnPage \subseteq doubled

\* "Never discard the user's in-progress ink if the native commit fails"
\* (InkController): only the eraser, cancel and undo make a stroke go; no step
\* of a commit, of an erase that begins, of text or of a job does.
StrokesKept ==
    [][(call.at \in {"counted", "added", "hit"} \/ text' # text \/ jobs' # jobs)
       => Strokes(drawing) \cup OnPage \subseteq (Strokes(drawing) \cup OnPage)']_vars

\* An undo of committed ink takes one annotation from the page, of exactly the
\* strokes that the commit it undoes put there (made), although it deletes by an
\* index, chosen from a list read before, by an index, a number and strokes that
\* were found on the page after the commit.
InkUndoExact ==
    [][At("matched") /\ inkStack' # inkStack =>
        \E i \in DOMAIN annots : /\ annots[i].kind = "ink" /\ annots[i].what = Head(inkStack).made
                                /\ annots' = RemoveAt(annots, i)]_vars

\* The document: the text and markup of the page, but for what a job has added
\* and not recorded.
Unrecorded == {jobs[j].own : j \in {k \in Jobs : jobs[k].at \in {"added", "found"}}}
Doc == {annots[i].what : i \in {k \in DOMAIN annots :
            annots[k].kind # "ink" /\ annots[k].id \notin Unrecorded}}

Reverted(doc, op) ==
    CASE op.kind = "edit" -> (doc \ {op.after}) \cup {op.before}
      [] op.kind = "presence" /\ op.present -> doc \ {op.before}
      [] OTHER -> doc \cup {op.before}
\* The documents that operations lead to one after the other, from D.
Along(D, ops) ==
    LET after[i \in 0..Len(ops)] == IF i = 0 THEN D ELSE Reverted(after[i - 1], ops[i])
    IN  [i \in DOMAIN ops |-> after[i]]
Swapped(op) == [op EXCEPT !.before = op.after, !.after = op.before]
Redos == [i \in DOMAIN redoStack |-> Swapped(redoStack[i])]

\* So far, the texts that were restyled and those that were removed are
\* different ones, and all from the file.
OneFate ==
    /\ fate.restyled \cap fate.removed = {}
    /\ fate.restyled \cup fate.removed \subseteq 1..FileNumbers

Document == INSTANCE History WITH
    Docs <- SUBSET What(MaxFresh), doc <- Doc,
    past <- IF OneFate THEN Along(Doc, undoStack) ELSE <<>>,
    future <- IF OneFate THEN Along(Doc, Redos) ELSE <<>>
\* The text and markup of the page have the undo and redo of a document
\* (History), in the order in which the jobs and the edits are recorded,
\* whatever happens to the ink (TextAnnotationUndoController), until a text is
\* both restyled and removed, or one that the session added is either.
TextHistory == Document!Spec
=============================================================================
