------------------------------ MODULE PdfXref ------------------------------
(***************************************************************************)
(* The cross-reference sections of an open PDF: the newest first, the      *)
(* increments of this session before the sections read from the file.      *)
(* Editing an object moves it into the newest increment; signing closes    *)
(* that increment, so that the next edit opens another.  An index caches   *)
(* for every object where the search for it may start.                     *)
(*                                                                         *)
(* Sections and xref_base are numbered from 1 here, from 0 in the code.    *)
(* The content of an object is the number of the edit that wrote it.       *)
(***************************************************************************)
EXTENDS Integers, Sequences, FiniteSets, SequencesExt

CONSTANTS
    MaxNum,         \* object numbers
    FileEdits,      \* the edits that are in the files already
    MaxEdits,       \* bound on all edits, the content of an object
    MaxSections,    \* bound on the sections of a document
    Cells,          \* addresses of the objects in memory with one number
    Starts,         \* the files to open, each with the way its program saves
    None

Num == 1..MaxNum
Stamp == 0..MaxEdits

ASSUME BoundsAssumption == /\ MaxNum \in Nat /\ MaxEdits \in Nat
                           /\ FileEdits \in 0..MaxEdits
                           /\ MaxSections \in Nat /\ Cells \subseteq Nat
                           /\ None \notin Nat

VARIABLES
    doc,        \* the pdf_document
    held,       \* an object some caller keeps a pointer to, or None
    edits,      \* the number of edits so far
    program,    \* how this program saves: "incremental" or "full"
    stopped     \* auxiliary: a save of this document has stopped early

vars == <<doc, held, edits, program, stopped>>

(***************************************************************************)
(* Entries.  ofs and stm are what the file has at the place the entry      *)
(* names; obj is the object in memory, buf a stream replaced in memory.    *)
(***************************************************************************)
Entry == [type : {"unset", "f", "n"}, ofs : Stamp \cup {None},
          stm : Stamp \cup {None}, buf : Stamp \cup {None},
          obj : Cells \cup {None}]
Unset == [type |-> "unset", ofs |-> None, stm |-> None, buf |-> None, obj |-> None]
Freed == [Unset EXCEPT !.type = "f"]
InFile(c) == [Unset EXCEPT !.type = "n", !.ofs = c.dict, !.stm = c.stm]

Section == [len : 0..MaxNum, signed : BOOLEAN, table : [Num -> Entry]]

\* A file is read with no object in memory and no signature to be made; its
\* sections end with the last entry they define, and what they have in use has
\* a place in the file.
File(f) ==
    /\ f \in Seq(Section) /\ Len(f) \in 1..MaxSections
    /\ \A k \in DOMAIN f : ~f[k].signed
    /\ \A k \in DOMAIN f : \A n \in Num :
           LET e == f[k].table[n]
           IN  /\ e.obj = None /\ e.buf = None
               /\ e.type # "unset" => n <= f[k].len
               /\ e.type = "n" => e.ofs # None
ASSUME StartsAssumption ==
    \A s \in Starts : File(s.file) /\ s.program \in {"incremental", "full"}
ASSUME NoRecordAssumption ==
    /\ \A dict, stm \in Stamp \cup {None} : [dict |-> dict, stm |-> stm] # None
    /\ \A n \in Num, c \in Cells : [num |-> n, cell |-> c] # None

TypeOK ==
    /\ doc \in [secs : Seq(Section), inc : 0..MaxSections,
                index : [Num -> 1..MaxSections], len : 0..MaxNum,
                heap : [Num -> [Cells -> Stamp \cup {None}]], frozen : BOOLEAN]
    /\ Len(doc.secs) \in 1..MaxSections /\ doc.inc < Len(doc.secs)
    /\ held \in [num : Num, cell : Cells] \cup {None}
    /\ edits \in Stamp
    /\ program \in {"incremental", "full"}
    /\ stopped \in BOOLEAN

Defined(d, k, n) == n <= d.secs[k].len /\ d.secs[k].table[n].type # "unset"
Holders(d, from, n) == {k \in from..Len(d.secs) : Defined(d, k, n)}
Later(i, j) == IF i > j THEN i ELSE j

\* Where pdf_get_xref_entry finds an object when the document is read from
\* the section base on: the first section from the cached place that defines
\* it, and failing that an entry of base or of the newest section.
Find(d, base, n) ==
    LET holders == Holders(d, Later(d.index[n], base), n)
    IN  IF holders # {} THEN Min(holders)
        ELSE IF n <= d.secs[Len(d.secs)].len /\ n <= d.secs[base].len THEN base
        ELSE 1
Found(d, base, n) == d.secs[Find(d, base, n)].table[n]

Read(d, n, e) == IF e.type # "n" THEN None
              ELSE [dict |-> IF e.obj # None THEN d.heap[n][e.obj] ELSE e.ofs,
                    stm  |-> IF e.buf # None THEN e.buf ELSE e.stm]
Content(d, base, n) == Read(d, n, Found(d, base, n))
Live(n) == n <= doc.len /\ Content(doc, 1, n) # None
IsStream(n) == Content(doc, 1, n).stm # None

(***************************************************************************)
(* Memory.  An object nobody refers to is freed.                           *)
(***************************************************************************)
Unused(d, n) == {c \in Cells : d.heap[n][c] = None}
NewCell(d, n) == Min(Unused(d, n))
\* The bound on memory: no call adds more than two objects with one number.
Room == \A n \in Num, c \in Cells \cup {None} : Unused(doc, n) \ {c} # {}
Referenced(d, h, n) == {d.secs[k].table[n].obj : k \in DOMAIN d.secs}
                       \cup (IF h # None /\ h.num = n THEN {h.cell} ELSE {})
Collect(d, h) == [d EXCEPT !.heap = [n \in Num |-> [c \in Cells |->
                     IF c \in Referenced(d, h, n) THEN d.heap[n][c] ELSE None]]]
Put(d, k, n, e) == [d EXCEPT !.secs[k].table[n] = e]

\* The object is read from the file unless it is in memory.
CacheObject(d, n) ==
    LET k == Find(d, 1, n)
        e == d.secs[k].table[n]
        c == NewCell(d, n)
        at == [d EXCEPT !.index[n] = k]
    IN  IF e.obj # None THEN at
        ELSE Put([at EXCEPT !.heap[n][c] = e.ofs], k, n, [e EXCEPT !.obj = c])
ObjectOf(d, n) == Found(d, 1, n).obj

(***************************************************************************)
(* Increments.                                                             *)
(***************************************************************************)
\* A new section in front, unless the newest is an increment not yet signed.
OpenIncrement(d) ==
    IF d.inc = 0 \/ d.secs[1].signed
    THEN [d EXCEPT !.secs = <<[len |-> d.secs[1].len, signed |-> FALSE,
                               table |-> [n \in Num |-> Unset]]>> \o d.secs,
                   !.inc = @ + 1,
                   !.index = [n \in Num |-> d.index[n] + 1]]
    ELSE d

\* Mutants: the new length counts one object too many; the index is not reset.
IncrementalEntryLong(d, n) ==
    LET o == OpenIncrement(d)
    IN  [o EXCEPT !.secs[1].len = Later(@, n + 1), !.len = Later(@, n), !.index[n] = 1]
IncrementalEntryNoIndex(d, n) ==
    LET o == OpenIncrement(d)
    IN  [o EXCEPT !.secs[1].len = Later(@, n), !.len = Later(@, n)]

\* The place for an object in the newest increment, which may have to grow.
IncrementalEntry(d, n) ==
    LET o == OpenIncrement(d)
    IN  [o EXCEPT !.secs[1].len = Later(@, n), !.len = Later(@, n),
                  !.index[n] = 1]

\* Mutants: the copy moves and the original stays; nothing is copied.
MovedCopy(d, n, k) ==
    LET old == d.secs[k].table[n]
        c == NewCell(d, n)
    IN  Put([IncrementalEntry(d, n) EXCEPT !.heap[n][c] = d.heap[n][old.obj]],
            1, n, [old EXCEPT !.obj = c])
MovedShared(d, n, k) ==
    Put(IncrementalEntry(d, n), 1, n, d.secs[k].table[n])

\* The object itself moves to the newest increment, as callers may hold it;
\* an older increment keeps a copy of it, a section of the file reads it anew.
Moved(d, n, k) ==
    LET old == d.secs[k].table[n]
        copied == k <= d.inc /\ old.obj # None
        c == NewCell(d, n)
        o == IncrementalEntry(d, n)
        p == Put(o, 1, n, old)
    IN  IF copied
        THEN Put([p EXCEPT !.heap[n][c] = d.heap[n][old.obj]], k, n,
                 [old EXCEPT !.obj = c, !.buf = None])
        ELSE Put(p, k, n, [old EXCEPT !.obj = None, !.buf = None])
EnsureIncremental(d, n) ==
    LET o == OpenIncrement(d)
        holders == Holders(o, o.index[n], n)
    IN  IF holders = {} \/ 1 \in holders THEN o ELSE Moved(o, n, Min(holders))

\* A change through a pointer to a dictionary of object n.
Alter(d, n, cell) ==
    LET o == IF d.frozen THEN d ELSE EnsureIncremental(d, n)
    IN  [o EXCEPT !.heap[n][cell] = edits + 1]

AlterObject(d, n) == LET o == CacheObject(d, n) IN Alter(o, n, ObjectOf(o, n))
UpdateObject(d, n) ==
    LET o == IncrementalEntry(d, n)
        c == NewCell(d, n)
    IN  [o EXCEPT !.heap[n][c] = edits + 1,
                  !.secs[1].table[n] = [@ EXCEPT !.type = "n", !.ofs = None, !.obj = c]]
CreateObject(d) ==
    LET n == d.len + 1 IN Put(IncrementalEntry(d, n), 1, n, Freed)

(***************************************************************************)
(* Saving.  Incrementally, a copy of the file gets one revision for each   *)
(* increment, the oldest first; in full, one revision has everything.      *)
(***************************************************************************)
\* use_list is filled once for all increments: an object that an older one
\* lacks is written, but marked free from then on.
Used(d, base, n) == \A b \in base..d.inc : Found(d, b, n).type = "n"

Highest(table) == Max({n \in Num : table[n].type # "unset"} \cup {0})
Revision(table) == [len |-> Highest(table), signed |-> FALSE, table |-> table]
Increment(d, b) ==
    Revision([n \in Num |->
        IF ~Defined(d, b, n) THEN Unset
        ELSE IF Used(d, b, n) THEN InFile(Content(d, b, n)) ELSE Freed])
Original(d, k) ==
    Revision([n \in Num |-> [d.secs[k].table[n] EXCEPT !.obj = None, !.buf = None]])
Everything(d) ==
    Revision([n \in Num |-> IF n > d.len THEN Unset
                            ELSE IF Content(d, 1, n) = None THEN Freed
                            ELSE InFile(Content(d, 1, n))])

Written(d) == IF program = "full" THEN <<Everything(d)>>
              ELSE [k \in DOMAIN d.secs |->
                       IF k <= d.inc THEN Increment(d, k) ELSE Original(d, k)]

\* The index is primed with the newest section where an object is in use.
PrimeIndex(revisions) ==
    [n \in Num |-> Min({k \in DOMAIN revisions : revisions[k].table[n].type = "n"}
                       \cup {Len(revisions) + 1}) % (Len(revisions) + 1)]
OpenDocument(revisions) ==
    [secs |-> revisions, inc |-> 0,
     index |-> [n \in Num |-> Later(PrimeIndex(revisions)[n], 1)],
     len |-> Max({revisions[k].len : k \in DOMAIN revisions}),
     heap |-> [n \in Num |-> [c \in Cells |-> None]], frozen |-> FALSE]

Init ==
    /\ \E s \in Starts : doc = OpenDocument(s.file) /\ program = s.program
    /\ held = None
    /\ edits = FileEdits
    /\ stopped = FALSE

(***************************************************************************)
(* The calls.  Nothing else may run inside one: the document is used under *)
(* one lock.                                                               *)
(***************************************************************************)
Edit(d) ==
    /\ edits < MaxEdits /\ Room
    /\ Len(d.secs) <= MaxSections
    /\ edits' = edits + 1
    /\ UNCHANGED <<program, stopped>>

Hold(n) ==
    /\ held = None /\ Live(n) /\ Room
    /\ doc' = CacheObject(doc, n)
    /\ held' = [num |-> n, cell |-> ObjectOf(doc', n)]
    /\ UNCHANGED <<edits, program, stopped>>

Release ==
    /\ held # None
    /\ held' = None
    /\ doc' = Collect(doc, None)
    /\ UNCHANGED <<edits, program, stopped>>

\* Drawing reads objects and drops again those that were not in memory
\* before, that nobody else holds and whose stream is not replaced.
Loaded(d) == {place \in (DOMAIN d.secs) \X Num :
                 d.secs[place[1]].table[place[2]].obj # None}
ClearToMark(d, marked) ==
    Collect([d EXCEPT !.secs = [k \in DOMAIN d.secs |-> [d.secs[k] EXCEPT !.table =
        [n \in Num |-> LET e == d.secs[k].table[n]
                           kept == \/ <<k, n>> \in marked \/ e.buf # None
                                   \/ held = [num |-> n, cell |-> e.obj]
                       IN  IF kept THEN e ELSE [e EXCEPT !.obj = None]]]]], held)
Render(n) ==
    /\ Live(n) /\ Room
    /\ doc' = ClearToMark(CacheObject(doc, n), Loaded(doc))
    /\ UNCHANGED <<held, edits, program, stopped>>

AlterDict(n) ==
    /\ Live(n)
    /\ doc' = Collect(AlterObject(doc, n), held)
    /\ held' = held
    /\ Edit(doc')

AlterHeld ==
    /\ held # None
    /\ doc' = Collect(Alter(doc, held.num, held.cell), held)
    /\ held' = held
    /\ Edit(doc')

\* The buffer is replaced where the object is found; then its dictionary is
\* altered, which moves it.
UpdateStream(n) ==
    /\ Live(n)
    /\ LET d == CacheObject(doc, n)
       IN  doc' = Collect(AlterObject([d EXCEPT
                      !.secs[Find(d, 1, n)].table[n].buf = edits + 1], n), held)
    /\ held' = held
    /\ Edit(doc')

\* A caller that replaces or deletes an object no longer uses a pointer to it.
Forget(n) == IF held # None /\ held.num = n THEN None ELSE held

ReplaceObject(n) ==
    /\ Live(n) /\ ~IsStream(n)
    /\ held' = Forget(n)
    /\ doc' = Collect(UpdateObject(doc, n), held')
    /\ Edit(doc')

NewObject ==
    /\ doc.len < MaxNum
    /\ doc' = UpdateObject(CreateObject(doc), doc.len + 1)
    /\ held' = held
    /\ Edit(doc')

\* The programs that delete objects save in full.
DeleteObject(n) ==
    /\ program = "full"
    /\ Live(n) /\ ~IsStream(n)
    /\ held' = Forget(n)
    /\ doc' = Collect(Put(IncrementalEntry(doc, n), 1, n, Freed), held')
    /\ Edit(doc')

\* A signature: a new value object, the field that refers to it, and the mark
\* on the newest increment.
SignField(f) ==
    /\ Live(f) /\ ~IsStream(f)
    /\ doc.len < MaxNum
    /\ LET d == UpdateObject(AlterObject(CreateObject(doc), f), doc.len + 1)
       IN  doc' = Collect([d EXCEPT !.secs[1].signed = TRUE], held)
    /\ held' = held
    /\ Edit(doc')

\* With nothing to write, or no file to write to, the save stops after it has
\* set freeze_updates.
NothingToWrite == program = "incremental" /\ doc.inc = 0
SaveStops ==
    /\ doc' = [doc EXCEPT !.frozen = TRUE]
    /\ stopped' = TRUE
    /\ UNCHANGED <<held, edits, program>>

\* Mutant: the document stays frozen.
SavedFrozen(d) ==
    [d EXCEPT !.frozen = TRUE,
              !.secs = [k \in DOMAIN d.secs |-> [d.secs[k] EXCEPT !.signed = FALSE]]]
Saved(d) ==
    [d EXCEPT !.frozen = FALSE,
              !.secs = [k \in DOMAIN d.secs |-> [d.secs[k] EXCEPT
                  !.signed = FALSE,
                  !.len = IF program = "full" /\ k = Len(d.secs) THEN d.len ELSE @]],
              !.index = [n \in Num |-> IF n <= d.len THEN Find(d, 1, n) ELSE d.index[n]]]
SaveCopy ==
    /\ ~NothingToWrite
    /\ doc' = Saved(doc)
    /\ UNCHANGED <<held, edits, program, stopped>>

\* The document is saved in place, closed, and opened again.
SaveAndReopen ==
    /\ held = None
    /\ doc' = OpenDocument(Written(doc))
    /\ stopped' = FALSE
    /\ UNCHANGED <<held, edits, program>>

Next ==
    \/ \E n \in Num : \/ Hold(n) \/ Render(n)
                      \/ AlterDict(n) \/ UpdateStream(n)
                      \/ ReplaceObject(n) \/ DeleteObject(n) \/ SignField(n)
    \/ Release \/ AlterHeld \/ NewObject
    \/ SaveStops \/ SaveCopy \/ SaveAndReopen

Spec == Init /\ [][Next]_vars

-----------------------------------------------------------------------------
(***************************************************************************)
(* Properties.                                                             *)
(***************************************************************************)

\* The index never hides an object: no section before the cached place has
\* the object in use (pdf_get_xref_entry starts its search there).
IndexSound ==
    \A n \in Num, k \in DOMAIN doc.secs :
        k < doc.index[n] /\ Defined(doc, k, n) => doc.secs[k].table[n].type # "n"

\* A pointer that a caller keeps stays the object that others read, although
\* edits and signatures move the object between sections and leave copies
\* ("the caller may be holding a reference to the original").
HeldIsCurrent ==
    held # None => Live(held.num) /\ ObjectOf(doc, held.num) = held.cell

\* An object that a file has in use and a newer section of it has freed comes
\* back when the file is opened, since the index is primed with entries in use
\* only.  It is found as long as the index is as primed, and free again to a
\* search that starts above it.
Revived == {n \in Num : \E s \in Starts : \E j, k \in DOMAIN s.file :
    j < k /\ s.file[j].table[n].type = "f" /\ s.file[k].table[n].type = "n"}

\* The dictionaries as of the section k, and each version that is signed and
\* not saved, oldest first.
Version(d, k) ==
    [n \in Num \ Revived |->
        LET holders == Holders(d, k, n)
            c == Read(d, n, d.secs[Min(holders)].table[n])
        IN  IF holders = {} \/ c = None THEN None ELSE c.dict]
VersionsOf(d) ==
    LET oldest[i \in 0..Len(d.secs)] ==
            LET k == Len(d.secs) + 1 - i
            IN  IF i = 0 THEN <<>>
                ELSE oldest[i - 1] \o IF d.secs[k].signed THEN <<Version(d, k)>> ELSE <<>>
    IN  oldest[Len(d.secs)]
Versions == VersionsOf(doc)
Current == [n \in Num |-> IF n <= doc.len THEN Content(doc, 1, n) ELSE None]

Promise == INSTANCE PdfVersions WITH
    Covered <- Num \ Revived, Absent <- None, current <- Current, signed <- Versions

\* The sections, the index, the lazily opened increments and the objects that
\* move between them act as a store of current contents and signed versions.
KeepsVersions == Promise!VSpec

\* What was edited is what the saved file reads back, for every object in use:
\* always after a full save; after an incremental one, of at most two
\* increments, or one if opening the file had revived the object, of a document
\* none of whose saves has stopped.
SavedAsEdited ==
    [][SaveAndReopen => \A n \in Num :
          Live(n) /\ (program = "full" \/ (~stopped /\ doc.inc <= (IF n \in Revived THEN 1 ELSE 2)))
              => Current'[n] = Current[n]]_vars

\* An edited object reaches the file that is saved next ("so to be later
\* written out as an incremental file update").
EditsReachFile ==
    [][SaveAndReopen => \A n \in Num : Live(n) => Current'[n] = Current[n]]_vars
=============================================================================
