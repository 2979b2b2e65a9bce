--------------------------- MODULE PageUndo_proofs ---------------------------
(***************************************************************************)
(* For any file, any number of strokes, texts and jobs: a stroke is in one *)
(* place, no step but the eraser's, cancel and undo loses one, and an undo *)
(* of ink takes off the page what the commit put there.  And until a text  *)
(* is both restyled and removed, or one of the session is either (OneFate  *)
(* ends), undo and redo of text and markup are those of a document         *)
(* (History).                                                              *)
(*                                                                         *)
(* For the last, the operations of each stack are a chain: each joins the  *)
(* document it leads to with the one it starts from (Reversible).  That a  *)
(* call on the page does to the document what its operation says follows   *)
(* from what the operations know of the texts (TextFits): an edit is of a  *)
(* text that still has its number, a presence is of one that is there with *)
(* its number or not there at all, no two give or take the same, and a job *)
(* finds the annotation it added.                                          *)
(***************************************************************************)
EXTENDS PageUndo, LibraryLemmas

-----------------------------------------------------------------------------
(* Sequences *)

\* A sequence over a set is one over any larger set.
LEMMA SeqWider ==
  ASSUME NEW S, NEW T, S \subseteq T
  PROVE  Seq(S) \subseteq Seq(T)
<1> SUFFICES ASSUME NEW s \in Seq(S) PROVE s \in Seq(T)
  OBVIOUS
<1>1. s \in [1..Len(s) -> T] /\ Len(s) \in Nat
  OBVIOUS
<1> QED BY <1>1

\* The strokes of a sequence, one by one.
LEMMA StrokesAre ==
  ASSUME NEW S, NEW arcs \in Seq(S), NEW x
  PROVE  x \in Strokes(arcs) <=> \E i \in 1..Len(arcs) : arcs[i] = x
  BY DEF Strokes, ToSet

\* A property of e and of every element of s is one of every element of e and s.
LEMMA FrontAll ==
  ASSUME NEW S, NEW s \in Seq(S), NEW e \in S, NEW good, e \in good,
         \A i \in DOMAIN s : s[i] \in good
  PROVE  \A i \in DOMAIN (<<e>> \o s) : (<<e>> \o s)[i] \in good
<1> DEFINE t == <<e>> \o s
<1>1. /\ DOMAIN t = 1..Len(s) + 1 /\ t[1] = e /\ Len(s) \in Nat /\ DOMAIN s = 1..Len(s)
      /\ \A i \in 2..Len(s) + 1 : t[i] = s[i - 1]
  BY FrontIs
<1> HIDE DEF t
<1>2. ASSUME NEW i \in DOMAIN t PROVE t[i] \in good
  <2>1. CASE i = 1
    BY <1>1, <2>1
  <2>2. CASE i # 1
    <3>1. i \in 2..Len(s) + 1 /\ i - 1 \in DOMAIN s
      BY <1>1, <2>2
    <3> QED BY <1>1, <3>1
  <2> QED BY <2>1, <2>2
<1> QED BY <1>2 DEF t

-----------------------------------------------------------------------------
(* Annotations of at most n numbers *)

\* The fields of an annotation.
LEMMA AnnotIs ==
  ASSUME NEW n \in Nat, NEW a \in Annots(n)
  PROVE  /\ a.id \in 1..n /\ a.kind \in {"ink", "text", "markup"}
         /\ a.kind = "ink" => a.what \in Seq(1..n)
         /\ a.kind # "ink" => a.what \in What(n)
  BY DEF Annots

\* What makes an annotation.
LEMMA MakesAnnot ==
  ASSUME NEW n \in Nat, NEW i \in 1..n, NEW kind, NEW what,
         \/ kind = "ink" /\ what \in Seq(1..n)
         \/ kind \in {"text", "markup"} /\ what \in What(n)
  PROVE  [id |-> i, kind |-> kind, what |-> what] \in Annots(n)
  BY DEF Annots

\* The states of a job.
JobStates(n) ==
    {NoJob} \cup [at : {"listed"}, known : SUBSET (1..n)]
    \cup [at : {"added"}, kind : {"text", "markup"}, what : What(n), known : SUBSET (1..n),
          own : 1..n]
    \cup [at : {"found"}, kind : {"text", "markup"}, what : What(n), own : 1..n, id : 0..n]

\* With more numbers in use, everything is still of its shape.
LEMMA Wider ==
  ASSUME NEW n \in Nat, NEW m \in Nat, n <= m
  PROVE  /\ 1..n \subseteq 1..m /\ Seq(1..n) \subseteq Seq(1..m)
         /\ Seq(Seq(1..n)) \subseteq Seq(Seq(1..m))
         /\ What(n) \subseteq What(m)
         /\ Annots(n) \subseteq Annots(m) /\ Seq(Annots(n)) \subseteq Seq(Annots(m))
         /\ Ops(n) \subseteq Ops(m) /\ Seq(Ops(n)) \subseteq Seq(Ops(m))
         /\ Seq(Items(n)) \subseteq Seq(Items(m))
         /\ JobStates(n) \subseteq JobStates(m)
<1>1. 1..n \subseteq 1..m /\ 0..n \subseteq 0..m
  OBVIOUS
<1>2. Seq(1..n) \subseteq Seq(1..m)
  BY <1>1, SeqWider
<1>3. What(n) \subseteq What(m)
  BY <1>1 DEF What
<1>4. Annots(n) \subseteq Annots(m)
  <2> SUFFICES ASSUME NEW a \in Annots(n) PROVE a \in Annots(m)
    OBVIOUS
  <2>1. /\ a = [id |-> a.id, kind |-> a.kind, what |-> a.what]
        /\ a.id \in 1..n
        /\ \/ a.kind = "ink" /\ a.what \in Seq(1..n)
           \/ a.kind \in {"text", "markup"} /\ a.what \in What(n)
    BY DEF Annots
  <2>2. \/ a.kind = "ink" /\ a.what \in Seq(1..m)
        \/ a.kind \in {"text", "markup"} /\ a.what \in What(m)
    BY <1>2, <1>3, <2>1
  <2>3. a.id \in 1..m
    BY <1>1, <2>1
  <2> QED BY <2>1, <2>2, <2>3, MakesAnnot
<1>5. Ops(n) \subseteq Ops(m)
  BY <1>1, <1>3 DEF Ops
<1>6. Items(n) \subseteq Items(m)
  BY <1>1, <1>2 DEF Items
<1>7. JobStates(n) \subseteq JobStates(m)
  <2>1. SUBSET (1..n) \subseteq SUBSET (1..m)
    BY <1>1
  <2> QED BY <1>1, <1>3, <2>1 DEF JobStates
<1> QED BY <1>1, <1>2, <1>3, <1>4, <1>5, <1>6, <1>7, SeqWider

-----------------------------------------------------------------------------
(* Pages *)

Unique(page) == \A i, j \in DOMAIN page : page[i].id = page[j].id => i = j

\* No stroke is twice on the page, but those in dbl.
Once(page, dbl) ==
    /\ \A i \in PageInk(page) : IsInjective(page[i].what)
    /\ \A i, j \in PageInk(page) :
          i # j => Strokes(page[i].what) \cap Strokes(page[j].what) \subseteq dbl

\* None of the strokes arcs is on the page, but those in dbl.
Clear(page, arcs, dbl) ==
    \A i \in PageInk(page) : Strokes(arcs) \cap Strokes(page[i].what) \subseteq dbl

\* No ink has that number.
NoInk(page, id) == \A i \in PageInk(page) : page[i].id # id

\* What the history of committed ink has of an annotation that is still there
\* are its strokes.
Recalls(page, item) ==
    /\ item.arcs = item.made
    /\ \A i \in PageInk(page) : page[i].id = item.id => page[i].what = item.arcs

\* Some annotations have gone, or are overwritten, but for the ink.
Shrinks(old, new) ==
    /\ Unique(new)
    /\ \A i \in DOMAIN new : \E k \in DOMAIN old :
          /\ new[i].id = old[k].id /\ new[i].kind = old[k].kind
          /\ new[i].kind = "ink" => new[i].what = old[k].what

\* Then what holds of the ink on the page still does.
LEMMA ShrinkOK ==
  ASSUME NEW old, NEW new, Shrinks(old, new)
  PROVE  /\ Unique(new)
         /\ \A dbl : Once(old, dbl) => Once(new, dbl)
         /\ \A arcs, dbl : Clear(old, arcs, dbl) => Clear(new, arcs, dbl)
         /\ \A id : NoInk(old, id) => NoInk(new, id)
         /\ \A item : Recalls(old, item) => Recalls(new, item)
<1>1. \A i \in PageInk(new) : \E k \in PageInk(old) :
          new[i].id = old[k].id /\ new[i].what = old[k].what
  BY DEF Shrinks, PageInk
<1>2. \A i, j \in PageInk(new) : new[i].id = new[j].id => i = j
  BY DEF Shrinks, PageInk, Unique
<1>3. ASSUME NEW dbl, Once(old, dbl) PROVE Once(new, dbl)
  <2>1. ASSUME NEW i \in PageInk(new), NEW j \in PageInk(new), i # j
        PROVE  Strokes(new[i].what) \cap Strokes(new[j].what) \subseteq dbl
    <3>1. PICK k \in PageInk(old) : new[i].id = old[k].id /\ new[i].what = old[k].what
      BY <1>1
    <3>2. PICK l \in PageInk(old) : new[j].id = old[l].id /\ new[j].what = old[l].what
      BY <1>1
    <3>3. k # l
      BY <1>2, <2>1, <3>1, <3>2
    <3> QED BY <1>3, <3>1, <3>2, <3>3 DEF Once
  <2>2. \A i \in PageInk(new) : IsInjective(new[i].what)
    BY <1>1, <1>3 DEF Once
  <2> QED BY <2>1, <2>2 DEF Once
<1>4. ASSUME NEW arcs, NEW dbl, Clear(old, arcs, dbl) PROVE Clear(new, arcs, dbl)
  BY <1>1, <1>4 DEF Clear
<1>5. ASSUME NEW id, NoInk(old, id) PROVE NoInk(new, id)
  BY <1>1, <1>5 DEF NoInk
<1>6. ASSUME NEW item, Recalls(old, item) PROVE Recalls(new, item)
  BY <1>1, <1>6 DEF Recalls
<1> QED BY <1>3, <1>4, <1>5, <1>6 DEF Shrinks

\* An annotation is taken off the page.
LEMMA RemovedOK ==
  ASSUME NEW n \in Nat, NEW page \in Seq(Annots(n)), Unique(page), NEW k \in 1..Len(page)
  PROVE  /\ RemoveAt(page, k) \in Seq(Annots(n)) /\ Len(RemoveAt(page, k)) = Len(page) - 1
         /\ Shrinks(page, RemoveAt(page, k))
         /\ \A i \in DOMAIN RemoveAt(page, k) :
               \E j \in DOMAIN page : j # k /\ RemoveAt(page, k)[i] = page[j]
         /\ \A j \in DOMAIN page : j # k =>
               \E i \in DOMAIN RemoveAt(page, k) : RemoveAt(page, k)[i] = page[j]
<1> DEFINE new == RemoveAt(page, k)
           from(i) == IF i < k THEN i ELSE i + 1
<1>1. /\ new \in Seq(Annots(n)) /\ Len(new) = Len(page) - 1
      /\ \A i \in 1..Len(page) - 1 : new[i] = page[from(i)]
  <2>1. \A i \in 1..Len(page) - 1 : new[i] = IF i < k THEN page[i] ELSE page[i + 1]
    BY RemoveAtFacts
  <2> QED BY <2>1, RemoveAtFacts
<1> HIDE DEF new
<1>2. DOMAIN new = 1..Len(page) - 1 /\ DOMAIN page = 1..Len(page) /\ Len(page) \in Nat
  BY <1>1
<1>3. \A i \in DOMAIN new : from(i) \in DOMAIN page /\ from(i) # k
  BY <1>2
<1>4. \A i, j \in DOMAIN new : from(i) = from(j) => i = j
  BY <1>2
<1>7. \A j \in DOMAIN page : j # k => \E i \in DOMAIN new : from(i) = j
  <2> SUFFICES ASSUME NEW j \in 1..Len(page), j # k PROVE \E i \in DOMAIN new : from(i) = j
    BY <1>2
  <2>1. CASE j < k
    <3>1. j \in DOMAIN new /\ from(j) = j
      BY <1>2, <2>1
    <3> QED BY <3>1
  <2>2. CASE ~(j < k)
    <3>1. j - 1 \in DOMAIN new /\ from(j - 1) = j
      BY <1>2, <2>2
    <3> QED BY <3>1
  <2> QED BY <2>1, <2>2
<1> HIDE DEF from
<1>5. Unique(new)
  BY <1>1, <1>2, <1>3, <1>4 DEF Unique
<1>6. Shrinks(page, new)
  BY <1>1, <1>2, <1>3, <1>5 DEF Shrinks
<1>8. /\ \A i \in DOMAIN new : \E j \in DOMAIN page : j # k /\ new[i] = page[j]
      /\ \A j \in DOMAIN page : j # k => \E i \in DOMAIN new : new[i] = page[j]
  BY <1>1, <1>2, <1>3, <1>7
<1> QED BY <1>1, <1>6, <1>8 DEF new

\* An annotation is added.
LEMMA AppendedOK ==
  ASSUME NEW n \in Nat, NEW page \in Seq(Annots(n)), Unique(page),
         NEW m \in Nat, m = n + 1, NEW a \in Annots(m), a.id = m
  PROVE  LET new == Append(page, a) IN
         /\ new \in Seq(Annots(m)) /\ Len(new) = Len(page) + 1 /\ Unique(new)
         /\ new[Len(new)] = a /\ \A i \in 1..Len(page) : new[i] = page[i]
         /\ PageInk(new) = PageInk(page) \cup (IF a.kind = "ink" THEN {Len(new)} ELSE {})
         /\ \A dbl : Once(page, dbl)
                     /\ (a.kind = "ink" => IsInjective(a.what) /\ Clear(page, a.what, dbl))
                     => Once(new, dbl)
         /\ \A arcs, dbl : Clear(page, arcs, dbl)
                           /\ (a.kind = "ink" => Strokes(arcs) \cap Strokes(a.what) \subseteq dbl)
                           => Clear(new, arcs, dbl)
         /\ \A id : NoInk(page, id) /\ (a.kind = "ink" => a.id # id) => NoInk(new, id)
         /\ \A item : Recalls(page, item) /\ item.id # a.id => Recalls(new, item)
<1> DEFINE new == Append(page, a)
           L == Len(page)
<1>1. Seq(Annots(n)) \subseteq Seq(Annots(m))
  BY Wider
<1>2. /\ new \in Seq(Annots(m)) /\ Len(new) = L + 1 /\ L \in Nat
      /\ new[L + 1] = a /\ \A i \in 1..L : new[i] = page[i]
  BY <1>1
<1> HIDE DEF new
<1>3. DOMAIN new = 1..L + 1 /\ DOMAIN page = 1..L
  BY <1>2
<1>4. \A i \in 1..L : page[i].id # m
  <2> SUFFICES ASSUME NEW i \in 1..L PROVE page[i].id # m
    OBVIOUS
  <2>1. page[i] \in Annots(n)
    OBVIOUS
  <2>2. page[i].id \in 1..n
    BY <2>1, AnnotIs
  <2> QED BY <2>2
<1>5. \A i \in 1..L + 1 : i \in 1..L \/ i = L + 1
  BY <1>2
<1>6. Unique(new)
  BY <1>2, <1>3, <1>4, <1>5 DEF Unique
<1>7. /\ \A i \in PageInk(new) : (i \in PageInk(page) /\ new[i] = page[i])
                                 \/ (i = L + 1 /\ a.kind = "ink" /\ new[i] = a)
      /\ PageInk(page) \subseteq PageInk(new)
      /\ a.kind = "ink" => L + 1 \in PageInk(new)
  BY <1>2, <1>3, <1>5 DEF PageInk
<1>8. PageInk(new) = PageInk(page) \cup (IF a.kind = "ink" THEN {L + 1} ELSE {})
  BY <1>7
<1>9. ASSUME NEW dbl, Once(page, dbl),
             a.kind = "ink" => IsInjective(a.what) /\ Clear(page, a.what, dbl)
      PROVE  Once(new, dbl)
  BY <1>7, <1>9 DEF Once, Clear
<1>10. ASSUME NEW arcs, NEW dbl, Clear(page, arcs, dbl),
              a.kind = "ink" => Strokes(arcs) \cap Strokes(a.what) \subseteq dbl
       PROVE  Clear(new, arcs, dbl)
  BY <1>7, <1>10 DEF Clear
<1>11. ASSUME NEW id, NoInk(page, id), a.kind = "ink" => a.id # id
       PROVE  NoInk(new, id)
  BY <1>7, <1>11 DEF NoInk
<1>12. ASSUME NEW item, Recalls(page, item), item.id # a.id
       PROVE  Recalls(new, item)
  BY <1>7, <1>12 DEF Recalls
<1>13. new = Append(page, a) /\ Len(new) = L + 1
  BY <1>2 DEF new
<1>14. new[Len(new)] = a /\ PageInk(new) = PageInk(page) \cup (IF a.kind = "ink" THEN {Len(new)} ELSE {})
  BY <1>2, <1>8
<1> QED BY <1>2, <1>6, <1>9, <1>10, <1>11, <1>12, <1>13, <1>14

-----------------------------------------------------------------------------
(* The invariant *)

Steps == {"idle", "counted", "added", "hit", "erasing", "matched"}

\* The numbers before fresh are all there are.
Types ==
    /\ fresh \in 1..MaxFresh + 1
    /\ annots \in Seq(Annots(fresh - 1)) /\ Len(annots) <= fresh - 1
    /\ drawing \in Seq(1..fresh - 1) /\ history \in Seq(Seq(1..fresh - 1))
    /\ inkStack \in Seq(Items(fresh - 1))
    /\ undoStack \in Seq(Ops(fresh - 1)) /\ redoStack \in Seq(Ops(fresh - 1))
    /\ jobs \in [Jobs -> JobStates(fresh - 1)]
    /\ call \in [at : Steps, n : Nat, then : {"idle", "hit"}]
    /\ erasing \in BOOLEAN /\ newer \in {"ink", "text"}

\* What the user may yet commit.
Apart(page, dbl, arcs) == IsInjective(arcs) /\ Clear(page, arcs, dbl)
Pended(page, dbl, now, past) ==
    Apart(page, dbl, now) /\ \A h \in DOMAIN past : Apart(page, dbl, past[h])
Pending == Pended(annots, doubled, drawing, history)

\* Between the commit to the page and its acceptance, what is pending is on
\* the page as well.
InkSound ==
    /\ Unique(annots) /\ Once(annots, doubled)
    /\ At("added") \/ Pending
    /\ \A k \in DOMAIN inkStack : Recalls(annots, inkStack[k])

\* The main thread between two calls on the page: meanwhile jobs add, and
\* nobody removes.
Midway ==
    /\ At("counted") => call.n <= Len(annots)
    /\ At("added") => /\ call.n < Len(annots)
                      /\ \E m \in PageInk(annots) : annots[m].what = drawing
    /\ At("matched") => /\ inkStack # <<>> /\ call.n \in PageInk(annots)
                        /\ annots[call.n].what = Head(inkStack).made

\* The histories of text and the jobs know no ink.
OpOK(page, op) == op.present = (op.id # 0) /\ NoInk(page, op.id)
OpsOK(page, ops) == \A i \in DOMAIN ops : OpOK(page, ops[i])
JobOK(page, job) == job.at = "found" => NoInk(page, job.id)
TextSound ==
    /\ OpsOK(annots, undoStack) /\ OpsOK(annots, redoStack)
    /\ \A j \in Jobs : JobOK(annots, jobs[j])

IInv == Types /\ InkSound /\ Midway /\ TextSound

\* The bounds are natural numbers.
LEMMA Bounds == MaxFresh \in Nat /\ FileNumbers \in Nat
  BY ConstantsAssumption, FileAssumption

\* When a number is drawn, all else keeps its shape.
LEMMA TypesWider ==
  ASSUME Types, fresh' = fresh \/ (CanAdd /\ fresh' = fresh + 1)
  PROVE  /\ fresh' \in 1..MaxFresh + 1 /\ fresh - 1 \in Nat /\ fresh' - 1 \in Nat
         /\ fresh - 1 <= fresh' - 1
         /\ annots \in Seq(Annots(fresh' - 1)) /\ Len(annots) <= fresh' - 1
         /\ drawing \in Seq(1..fresh' - 1) /\ history \in Seq(Seq(1..fresh' - 1))
         /\ inkStack \in Seq(Items(fresh' - 1))
         /\ undoStack \in Seq(Ops(fresh' - 1)) /\ redoStack \in Seq(Ops(fresh' - 1))
         /\ jobs \in [Jobs -> JobStates(fresh' - 1)]
<1>1. /\ fresh \in 1..MaxFresh + 1 /\ fresh' \in 1..MaxFresh + 1
      /\ fresh - 1 \in Nat /\ fresh' - 1 \in Nat /\ fresh - 1 <= fresh' - 1
  BY Bounds DEF Types, CanAdd
<1> DEFINE n == fresh - 1
           m == fresh' - 1
<1>2. n \in Nat /\ m \in Nat /\ n <= m
  BY <1>1
<1>3. /\ annots \in Seq(Annots(n)) /\ Len(annots) <= n
      /\ drawing \in Seq(1..n) /\ history \in Seq(Seq(1..n)) /\ inkStack \in Seq(Items(n))
      /\ undoStack \in Seq(Ops(n)) /\ redoStack \in Seq(Ops(n))
      /\ jobs \in [Jobs -> JobStates(n)]
  BY DEF Types
<1>4. Len(annots) \in Nat
  BY <1>3
<1>5. /\ annots \in Seq(Annots(m)) /\ Len(annots) <= m
      /\ drawing \in Seq(1..m) /\ history \in Seq(Seq(1..m)) /\ inkStack \in Seq(Items(m))
      /\ undoStack \in Seq(Ops(m)) /\ redoStack \in Seq(Ops(m))
      /\ jobs \in [Jobs -> JobStates(m)]
  <2> HIDE DEF n, m
  <2>1. Len(annots) <= m
    BY <1>2, <1>3, <1>4
  <2>2. /\ annots \in Seq(Annots(m))
        /\ drawing \in Seq(1..m) /\ history \in Seq(Seq(1..m)) /\ inkStack \in Seq(Items(m))
        /\ undoStack \in Seq(Ops(m)) /\ redoStack \in Seq(Ops(m))
    BY <1>2, <1>3, Wider
  <2>3. JobStates(n) \subseteq JobStates(m)
    BY <1>2, Wider
  <2> QED BY <1>3, <2>1, <2>2, <2>3
<1> QED BY <1>1, <1>5

\* The page after an annotation with the next number is added.
LEMMA PageAppends ==
  ASSUME Types, Unique(annots), CanAdd, fresh' = fresh + 1, NEW kind, NEW what,
         (kind = "ink" /\ what \in Seq(1..fresh))
            \/ (kind \in {"text", "markup"} /\ what \in What(fresh)),
         annots' = Append(annots, Annotation(kind, what))
  PROVE  /\ annots' \in Seq(Annots(fresh' - 1)) /\ Len(annots') = Len(annots) + 1
         /\ Len(annots') <= fresh' - 1 /\ Unique(annots')
         /\ annots'[Len(annots')] = Annotation(kind, what)
         /\ \A i \in 1..Len(annots) : annots'[i] = annots[i]
         /\ PageInk(annots') = PageInk(annots) \cup (IF kind = "ink" THEN {Len(annots')} ELSE {})
         /\ \A dbl : Once(annots, dbl)
                     /\ (kind = "ink" => IsInjective(what) /\ Clear(annots, what, dbl))
                     => Once(annots', dbl)
         /\ \A arcs, dbl : Clear(annots, arcs, dbl)
                           /\ (kind = "ink" => Strokes(arcs) \cap Strokes(what) \subseteq dbl)
                           => Clear(annots', arcs, dbl)
         /\ \A id : NoInk(annots, id) /\ (kind = "ink" => fresh # id) => NoInk(annots', id)
         /\ \A item : Recalls(annots, item) /\ item.id # fresh => Recalls(annots', item)
<1> DEFINE n == fresh - 1
           a == Annotation(kind, what)
<1>1. fresh \in Nat /\ n \in Nat /\ fresh = n + 1 /\ fresh' - 1 = fresh /\ fresh \in 1..fresh
  BY Bounds DEF Types, CanAdd
<1>2. annots \in Seq(Annots(n)) /\ Len(annots) <= n
  BY DEF Types
<1>3. a \in Annots(fresh) /\ a.id = fresh /\ a.kind = kind /\ a.what = what
  BY <1>1, MakesAnnot DEF Annotation
<1>4. annots' = Append(annots, a)
  OBVIOUS
<1> HIDE DEF n, a
<1>5. /\ annots' \in Seq(Annots(fresh)) /\ Len(annots') = Len(annots) + 1 /\ Unique(annots')
      /\ annots'[Len(annots')] = a /\ \A i \in 1..Len(annots) : annots'[i] = annots[i]
      /\ PageInk(annots') = PageInk(annots) \cup (IF a.kind = "ink" THEN {Len(annots')} ELSE {})
      /\ \A dbl : Once(annots, dbl)
                  /\ (a.kind = "ink" => IsInjective(a.what) /\ Clear(annots, a.what, dbl))
                  => Once(annots', dbl)
      /\ \A arcs, dbl : Clear(annots, arcs, dbl)
                        /\ (a.kind = "ink" => Strokes(arcs) \cap Strokes(a.what) \subseteq dbl)
                        => Clear(annots', arcs, dbl)
      /\ \A id : NoInk(annots, id) /\ (a.kind = "ink" => a.id # id) => NoInk(annots', id)
      /\ \A item : Recalls(annots, item) /\ item.id # a.id => Recalls(annots', item)
  BY <1>1, <1>2, <1>3, <1>4, AppendedOK
<1>6. Len(annots') <= fresh' - 1
  <2>1. Len(annots) \in Nat
    BY <1>2
  <2> QED BY <1>1, <1>2, <1>5, <2>1
<1> QED BY <1>1, <1>3, <1>5, <1>6 DEF a

-----------------------------------------------------------------------------
(* Text, markup and jobs *)

\* Whatever ink was on the page still is.
Retains(old, new) ==
    \A i \in PageInk(old) : \E k \in PageInk(new) : new[k].what = old[i].what

\* What a step of text or of a job may do to the page.
Adds(kinds) ==
    /\ CanAdd /\ fresh' = fresh + 1
    /\ \E kind \in kinds, what \in What(fresh) : annots' = Append(annots, Annotation(kind, what))
TextMoves ==
    \/ annots' = annots /\ fresh' = fresh
    \/ At("idle") /\ Shrinks(annots, annots') /\ Retains(annots, annots') /\ fresh' = fresh
       /\ annots' \in Seq(Annots(fresh - 1)) /\ Len(annots') <= Len(annots)
    \/ Adds({"text", "markup"})

\* Nothing that is found on the page has a number yet to be drawn, or 0.
LEMMA NumbersUsed ==
  ASSUME Types
  PROVE  /\ \A i \in DOMAIN annots : annots[i].id \in 1..fresh - 1
         /\ NoInk(annots, 0) /\ NoInk(annots, fresh)
<1>1. fresh - 1 \in Nat /\ fresh \in Nat
  BY Bounds DEF Types
<1>2. ASSUME NEW i \in DOMAIN annots PROVE annots[i].id \in 1..fresh - 1
  <2>1. annots[i] \in Annots(fresh - 1)
    BY DEF Types
  <2> QED BY <1>1, <2>1, AnnotIs
<1>3. ASSUME NEW i \in PageInk(annots) PROVE annots[i].id # 0 /\ annots[i].id # fresh
  <2>1. i \in DOMAIN annots
    BY DEF PageInk
  <2>2. annots[i].id \in 1..fresh - 1
    BY <1>2, <2>1
  <2> QED BY <1>1, <2>2
<1> QED BY <1>2, <1>3 DEF NoInk

\* A text is overwritten.
LEMMA OverwrittenOK ==
  ASSUME Types, Unique(annots), NEW id, NoInk(annots, id), NEW what \in What(fresh - 1)
  PROVE  LET new == Overwritten(id, what) IN
         /\ new \in Seq(Annots(fresh - 1)) /\ Len(new) = Len(annots)
         /\ Shrinks(annots, new) /\ Retains(annots, new)
<1> DEFINE new == Overwritten(id, what)
           L == Len(annots)
           n == fresh - 1
<1>1. n \in Nat /\ annots \in Seq(Annots(n))
  BY Bounds DEF Types
<1>2. L \in Nat /\ DOMAIN annots = 1..L
  BY <1>1
<1>3. ASSUME NEW i \in 1..L
      PROVE  /\ annots[i] \in Annots(n)
             /\ new[i] \in Annots(n) /\ new[i].id = annots[i].id /\ new[i].kind = annots[i].kind
             /\ annots[i].kind = "ink" => new[i].what = annots[i].what
  <2>1. annots[i] \in Annots(n)
    BY <1>1, <1>2
  <2>2. new[i] = IF annots[i].id = id THEN [annots[i] EXCEPT !.what = what] ELSE annots[i]
    BY <1>2 DEF Overwritten
  <2>3. CASE annots[i].id # id
    BY <2>1, <2>2, <2>3
  <2>4. CASE annots[i].id = id
    <3>1. annots[i].kind # "ink"
      BY <1>2, <2>4 DEF NoInk, PageInk
    <3>2. /\ annots[i].id \in 1..n /\ annots[i].kind \in {"text", "markup"}
          /\ annots[i] = [id |-> annots[i].id, kind |-> annots[i].kind, what |-> annots[i].what]
      BY <2>1, <3>1 DEF Annots
    <3>3. new[i] = [id |-> annots[i].id, kind |-> annots[i].kind, what |-> what]
      BY <2>2, <2>4, <3>2
    <3> QED BY <1>1, <2>1, <3>1, <3>2, <3>3, MakesAnnot
  <2> QED BY <2>3, <2>4
<1>4. new = [i \in 1..L |-> new[i]]
  BY <1>2 DEF Overwritten
<1> HIDE DEF new, n
<1>5. new \in [1..L -> Annots(n)]
  BY <1>3, <1>4
<1>6. new \in Seq(Annots(n)) /\ Len(new) = L /\ DOMAIN new = 1..L
  BY <1>2, <1>5
<1>7. Shrinks(annots, new)
  BY <1>2, <1>3, <1>6 DEF Shrinks, Unique
<1>8. Retains(annots, new)
  BY <1>2, <1>3, <1>6 DEF Retains, PageInk
<1> QED BY <1>6, <1>7, <1>8 DEF new, n

\* An annotation that is not ink is deleted.
LEMMA WithoutOK ==
  ASSUME Types, Unique(annots), NEW id, NoInk(annots, id)
  PROVE  LET new == Without(id) IN
         /\ new \in Seq(Annots(fresh - 1)) /\ Len(new) <= Len(annots)
         /\ Shrinks(annots, new) /\ Retains(annots, new)
<1> DEFINE n == fresh - 1
           L == Len(annots)
<1>1. n \in Nat /\ annots \in Seq(Annots(n)) /\ L \in Nat /\ DOMAIN annots = 1..L
  <2>1. n \in Nat /\ annots \in Seq(Annots(n))
    BY Bounds DEF Types
  <2> QED BY <2>1
<1>2. CASE id \notin Ids
  <2>1. Without(id) = annots
    BY <1>2 DEF Without
  <2> QED BY <1>1, <2>1 DEF Shrinks, Retains
<1>3. CASE id \in Ids
  <2> DEFINE k == CHOOSE i \in DOMAIN annots : annots[i].id = id
             new == RemoveAt(annots, k)
  <2>1. k \in 1..L /\ annots[k].id = id
    BY <1>1, <1>3 DEF Ids
  <2>2. Without(id) = new
    BY <1>3 DEF Without
  <2> HIDE DEF k
  <2>3. new \in Seq(Annots(n)) /\ Len(new) = L - 1 /\ Shrinks(annots, new)
    BY <1>1, <2>1, RemovedOK
  <2>4. \A j \in DOMAIN annots : j # k => \E i \in DOMAIN new : new[i] = annots[j]
    BY <1>1, <2>1, RemovedOK
  <2> HIDE DEF new
  <2>5. ASSUME NEW i \in PageInk(annots) PROVE \E j \in PageInk(new) : new[j].what = annots[i].what
    <3>1. i \in DOMAIN annots /\ annots[i].kind = "ink" /\ i # k
      BY <2>1 DEF PageInk, NoInk
    <3> QED BY <2>4, <3>1 DEF PageInk
  <2>6. Len(new) <= L
    BY <1>1, <2>3
  <2> QED BY <2>2, <2>3, <2>5, <2>6 DEF Retains
<1> QED BY <1>2, <1>3

\* A step that moves texts leaves the ink as it is, and the main thread too.
LEMMA TextMovesOK ==
  ASSUME IInv, TextMoves, UNCHANGED <<ink, call, doubled>>
  PROVE  /\ InkSound' /\ Midway' /\ Retains(annots, annots')
         /\ annots' \in Seq(Annots(fresh' - 1)) /\ Len(annots') <= fresh' - 1
         /\ \A id : NoInk(annots, id) => NoInk(annots', id)
         /\ fresh' = fresh \/ (CanAdd /\ fresh' = fresh + 1)
<1>1. /\ drawing' = drawing /\ history' = history /\ inkStack' = inkStack /\ call' = call
      /\ doubled' = doubled /\ Types /\ InkSound /\ Midway
  BY DEF IInv, ink
<1>2. CASE annots' = annots /\ fresh' = fresh
  <2>1. InkSound' /\ Midway'
    BY <1>1, <1>2 DEF InkSound, Midway, Pending, Pended, Apart, At
  <2> QED BY <1>1, <1>2, <2>1 DEF Types, Retains
<1>3. CASE At("idle") /\ Shrinks(annots, annots') /\ Retains(annots, annots') /\ fresh' = fresh
           /\ annots' \in Seq(Annots(fresh - 1)) /\ Len(annots') <= Len(annots)
  <2>1. Midway'
    BY <1>1, <1>3 DEF Midway, At
  <2>2. InkSound'
    BY <1>1, <1>3, ShrinkOK DEF InkSound, Pending, Pended, Apart, At
  <2>3. Len(annots') <= fresh - 1
    <3>1. Len(annots) \in Nat /\ Len(annots') \in Nat /\ Len(annots) <= fresh - 1 /\ fresh \in Nat
      BY <1>1, <1>3, Bounds DEF Types
    <3> QED BY <1>3, <3>1
  <2> QED BY <1>3, <2>1, <2>2, <2>3, ShrinkOK
<1>4. CASE Adds({"text", "markup"})
  <2>1. PICK kind \in {"text", "markup"}, what \in What(fresh) :
           annots' = Append(annots, Annotation(kind, what))
    BY <1>4 DEF Adds
  <2>2. CanAdd /\ fresh' = fresh + 1 /\ Unique(annots)
    BY <1>1, <1>4 DEF Adds, InkSound
  <2>3. /\ annots' \in Seq(Annots(fresh' - 1)) /\ Len(annots') = Len(annots) + 1
        /\ Len(annots') <= fresh' - 1 /\ Unique(annots')
        /\ \A i \in 1..Len(annots) : annots'[i] = annots[i]
        /\ PageInk(annots') = PageInk(annots)
        /\ \A dbl : Once(annots, dbl) => Once(annots', dbl)
        /\ \A arcs, dbl : Clear(annots, arcs, dbl) => Clear(annots', arcs, dbl)
        /\ \A id : NoInk(annots, id) => NoInk(annots', id)
        /\ \A item : Recalls(annots, item) /\ item.id # fresh => Recalls(annots', item)
    BY <1>1, <2>1, <2>2, PageAppends
  <2>4. \A i \in PageInk(annots) : i \in 1..Len(annots) /\ annots'[i] = annots[i]
    BY <1>1, <2>3 DEF PageInk, Types
  <2>5. ASSUME NEW k \in DOMAIN inkStack PROVE inkStack[k].id # fresh
    <3>1. inkStack[k] \in Items(fresh - 1)
      BY <1>1 DEF Types
    <3>2. inkStack[k].id \in 1..fresh - 1 /\ fresh \in Nat
      BY <1>1, <3>1, Bounds DEF Items, Types
    <3> QED BY <3>2
  <2>6. InkSound'
    BY <1>1, <2>3, <2>5 DEF InkSound, Pending, Pended, Apart, At
  <2>7. Midway'
    <3>1. call.n \in Nat /\ Len(annots) \in Nat /\ Len(annots') = Len(annots) + 1
      BY <1>1, <2>3 DEF Types
    <3>2. (At("counted") => call'.n <= Len(annots'))
          /\ (At("added") => call'.n < Len(annots'))
      BY <1>1, <3>1 DEF Midway
    <3>3. (At("added") => \E m \in PageInk(annots') : annots'[m].what = drawing')
          /\ (At("matched") => /\ inkStack' # <<>> /\ call'.n \in PageInk(annots')
                               /\ annots'[call'.n].what = Head(inkStack').made)
      BY <1>1, <2>3, <2>4 DEF Midway
    <3> QED BY <1>1, <3>2, <3>3 DEF Midway, At
  <2>8. Retains(annots, annots')
    BY <2>3, <2>4 DEF Retains
  <2> QED BY <2>2, <2>3, <2>6, <2>7, <2>8
<1> QED BY <1>2, <1>3, <1>4 DEF TextMoves

\* Undo or redo of a text: the operation it leaves for the other direction
\* knows no ink either.
LEMMA PerformOK ==
  ASSUME IInv, At("idle"), NEW op \in Ops(fresh - 1), OpOK(annots, op), NEW what \in What(fresh - 1),
         Perform(op, what)
  PROVE  /\ TextMoves
         /\ Performed(op) \in Ops(fresh' - 1)
         /\ OpOK(annots', Performed(op))
<1> DEFINE n == fresh - 1
<1>1. Types /\ Unique(annots) /\ n \in Nat /\ fresh \in Nat /\ fresh = n + 1 /\ NoInk(annots, op.id)
      /\ op.present = (op.id # 0)
  BY Bounds DEF IInv, Types, InkSound, OpOK
<1>2. /\ op.kind \in {"edit", "presence"} /\ op.of \in {"text", "markup"} /\ op.present \in BOOLEAN
      /\ op.id \in 0..n /\ op.before \in What(n) /\ op.after \in What(n)
      /\ op = [kind |-> op.kind, id |-> op.id, before |-> op.before, after |-> op.after,
               of |-> op.of, present |-> op.present]
  BY DEF Ops
<1>3. CASE op.kind = "edit" /\ annots' = Overwritten(op.id, what) /\ fresh' = fresh
  <2>1. /\ annots' \in Seq(Annots(fresh - 1)) /\ Len(annots') = Len(annots)
        /\ Shrinks(annots, annots') /\ Retains(annots, annots')
    BY <1>1, <1>3, OverwrittenOK
  <2>2. Len(annots') <= Len(annots)
    BY <1>1, <2>1 DEF Types
  <2>3. Performed(op) = op
    BY <1>3 DEF Performed
  <2>4. NoInk(annots', op.id)
    BY <1>1, <2>1, ShrinkOK
  <2> QED BY <1>1, <1>3, <2>1, <2>2, <2>3, <2>4 DEF TextMoves, OpOK
<1>4. CASE op.kind = "presence" /\ op.present /\ annots' = Without(op.id) /\ fresh' = fresh
  <2>1. /\ annots' \in Seq(Annots(fresh - 1)) /\ Len(annots') <= Len(annots)
        /\ Shrinks(annots, annots') /\ Retains(annots, annots')
    BY <1>1, <1>4, WithoutOK
  <2>2. Performed(op) = [kind |-> op.kind, id |-> 0, before |-> op.before, after |-> op.after,
                         of |-> op.of, present |-> FALSE]
    BY <1>2, <1>4 DEF Performed
  <2>3. NoInk(annots', 0)
    BY <1>1, <2>1, NumbersUsed, ShrinkOK
  <2>4. 0 \in 0..n
    BY <1>1
  <2>5. Performed(op) \in Ops(n)
    BY <1>2, <2>2, <2>4 DEF Ops
  <2>6. Performed(op).id = 0 /\ Performed(op).present = FALSE
    BY <2>2
  <2>7. OpOK(annots', Performed(op))
    BY <2>3, <2>6 DEF OpOK
  <2>8. TextMoves
    BY <1>4, <2>1 DEF TextMoves
  <2>9. Performed(op) \in Ops(fresh' - 1)
    BY <1>4, <2>5
  <2> QED BY <2>7, <2>8, <2>9
<1>5. CASE op.kind = "presence" /\ ~op.present /\ CanAdd
           /\ annots' = Append(annots, Annotation(op.of, what)) /\ fresh' = fresh + 1
  <2>1. What(n) \subseteq What(fresh)
    BY <1>1, Wider
  <2>2. Adds({"text", "markup"})
    BY <1>2, <1>5, <2>1 DEF Adds
  <2>3. NoInk(annots', fresh)
    <3>1. NoInk(annots, fresh)
      BY <1>1, NumbersUsed
    <3>2. what \in What(fresh)
      BY <2>1
    <3>3. \A id : NoInk(annots, id) /\ (op.of = "ink" => fresh # id) => NoInk(annots', id)
      BY <1>1, <1>2, <1>5, <3>2, PageAppends
    <3> QED BY <1>2, <3>1, <3>3
  <2>4. Performed(op) = [kind |-> op.kind, id |-> fresh, before |-> op.before,
                         after |-> op.after, of |-> op.of, present |-> TRUE]
    BY <1>2, <1>5 DEF Performed
  <2>5. fresh' - 1 = fresh /\ fresh \in 0..fresh /\ fresh # 0
    BY <1>1, <1>5
  <2>6. Performed(op) \in Ops(fresh)
    BY <1>2, <2>1, <2>4, <2>5 DEF Ops
  <2>7. Performed(op) \in Ops(fresh' - 1)
    BY <2>5, <2>6
  <2>8. Performed(op).id = fresh /\ Performed(op).present = TRUE
    BY <2>4
  <2>9. NoInk(annots', Performed(op).id)
    BY <2>3, <2>8
  <2> QED BY <2>2, <2>5, <2>7, <2>8, <2>9 DEF TextMoves, OpOK
<1> QED BY <1>3, <1>4, <1>5 DEF Perform

\* The histories of operations when one goes on or off.
LEMMA OpsMove ==
  ASSUME NEW n \in Nat, NEW page, NEW ops \in Seq(Ops(n)), OpsOK(page, ops)
  PROVE  /\ ops # <<>> => /\ Head(ops) \in Ops(n) /\ OpOK(page, Head(ops))
                          /\ Tail(ops) \in Seq(Ops(n)) /\ OpsOK(page, Tail(ops))
         /\ \A op \in Ops(n) : OpOK(page, op) =>
               <<op>> \o ops \in Seq(Ops(n)) /\ OpsOK(page, <<op>> \o ops)
<1>1. ASSUME ops # <<>>
      PROVE  /\ Head(ops) \in Ops(n) /\ OpOK(page, Head(ops))
             /\ Tail(ops) \in Seq(Ops(n)) /\ OpsOK(page, Tail(ops))
  <2>1. /\ Head(ops) \in Ops(n) /\ Head(ops) = ops[1] /\ 1 \in DOMAIN ops
        /\ Tail(ops) \in Seq(Ops(n))
        /\ \A i \in DOMAIN Tail(ops) : i + 1 \in DOMAIN ops /\ Tail(ops)[i] = ops[i + 1]
    BY <1>1, TailIs
  <2> QED BY <2>1 DEF OpsOK
<1>2. ASSUME NEW op \in Ops(n), OpOK(page, op)
      PROVE  <<op>> \o ops \in Seq(Ops(n)) /\ OpsOK(page, <<op>> \o ops)
  <2> DEFINE good == {o \in Ops(n) : OpOK(page, o)}
             new == <<op>> \o ops
  <2>1. new \in Seq(Ops(n))
    BY FrontIs
  <2>2. op \in good /\ \A i \in DOMAIN ops : ops[i] \in good
    BY <1>2 DEF OpsOK
  <2> HIDE DEF good
  <2>3. \A i \in DOMAIN new : new[i] \in good
    BY <2>2, FrontAll
  <2> HIDE DEF new
  <2>4. \A i \in DOMAIN new : OpOK(page, new[i])
    BY <2>3 DEF good
  <2> QED BY <2>1, <2>4 DEF OpsOK, new
<1> QED BY <1>1, <1>2

\* What a step that moves texts carries over.
LEMMA TextCarries ==
  ASSUME IInv, TextMoves, UNCHANGED <<ink, call, doubled>>
  PROVE  /\ fresh' - 1 \in Nat /\ fresh - 1 \in Nat
         /\ undoStack \in Seq(Ops(fresh' - 1)) /\ OpsOK(annots', undoStack)
         /\ redoStack \in Seq(Ops(fresh' - 1)) /\ OpsOK(annots', redoStack)
         /\ \A op \in Ops(fresh - 1) : OpOK(annots, op) =>
                                       op \in Ops(fresh' - 1) /\ OpOK(annots', op)
         /\ jobs \in [Jobs -> JobStates(fresh' - 1)]
         /\ \A j \in Jobs : JobOK(annots', jobs[j])
<1>1. /\ \A id : NoInk(annots, id) => NoInk(annots', id)
      /\ fresh' = fresh \/ (CanAdd /\ fresh' = fresh + 1)
  BY TextMovesOK
<1>2. Types /\ TextSound
  BY DEF IInv
<1>3. /\ undoStack \in Seq(Ops(fresh' - 1)) /\ redoStack \in Seq(Ops(fresh' - 1))
      /\ jobs \in [Jobs -> JobStates(fresh' - 1)]
      /\ fresh' - 1 \in Nat /\ fresh - 1 \in Nat /\ fresh - 1 <= fresh' - 1
  BY <1>1, <1>2, TypesWider
<1>4. \A op : OpOK(annots, op) => OpOK(annots', op)
  BY <1>1 DEF OpOK
<1>5. OpsOK(annots', undoStack) /\ OpsOK(annots', redoStack)
  BY <1>2, <1>4 DEF TextSound, OpsOK
<1>6. \A j \in Jobs : JobOK(annots', jobs[j])
  BY <1>1, <1>2 DEF TextSound, JobOK
<1>7. ASSUME NEW op \in Ops(fresh - 1) PROVE op \in Ops(fresh' - 1)
  <2> DEFINE n == fresh - 1
             m == fresh' - 1
  <2>1. n \in Nat /\ m \in Nat /\ n <= m /\ op \in Ops(n)
    BY <1>3
  <2> HIDE DEF n, m
  <2>2. op \in Ops(m)
    BY <2>1, Wider
  <2> QED BY <2>2 DEF m
<1> QED BY <1>3, <1>4, <1>5, <1>6, <1>7

\* A step of text or of a job keeps the invariant, and the ink on the page.
LEMMA TextKeeps ==
  ASSUME IInv, TextMoves, UNCHANGED <<ink, call, doubled>>, newer' \in {"ink", "text"},
         undoStack' \in Seq(Ops(fresh' - 1)), OpsOK(annots', undoStack'),
         redoStack' \in Seq(Ops(fresh' - 1)), OpsOK(annots', redoStack'),
         jobs' \in [Jobs -> JobStates(fresh' - 1)], \A j \in Jobs : JobOK(annots', jobs'[j])
  PROVE  IInv' /\ Retains(annots, annots')
<1>1. /\ InkSound' /\ Midway' /\ Retains(annots, annots')
      /\ annots' \in Seq(Annots(fresh' - 1)) /\ Len(annots') <= fresh' - 1
      /\ fresh' = fresh \/ (CanAdd /\ fresh' = fresh + 1)
  BY TextMovesOK
<1>2. Types
  BY DEF IInv
<1>3. /\ fresh' \in 1..MaxFresh + 1
      /\ drawing \in Seq(1..fresh' - 1) /\ history \in Seq(Seq(1..fresh' - 1))
      /\ inkStack \in Seq(Items(fresh' - 1))
  BY <1>1, <1>2, TypesWider
<1>4. /\ drawing' = drawing /\ history' = history /\ erasing' = erasing /\ inkStack' = inkStack
      /\ call' = call
  BY DEF ink
<1>5. Types'
  BY <1>1, <1>2, <1>3, <1>4 DEF Types
<1>6. TextSound'
  BY DEF TextSound
<1> QED BY <1>1, <1>5, <1>6 DEF IInv

\* An operation is recorded, and the page may have changed.
LEMMA PushKeeps ==
  ASSUME IInv, TextMoves, UNCHANGED <<ink, call, jobs>>, UNCHANGED doubled,
         newer' \in {"ink", "text"},
         NEW op \in Ops(fresh - 1), OpOK(annots, op),
         undoStack' = <<op>> \o undoStack, redoStack' = <<>>
  PROVE  IInv' /\ Retains(annots, annots') /\ drawing' = drawing
<1>1. UNCHANGED <<ink, call, doubled>> /\ jobs' = jobs /\ drawing' = drawing
  BY DEF ink
<1>2. /\ fresh' - 1 \in Nat /\ undoStack \in Seq(Ops(fresh' - 1)) /\ OpsOK(annots', undoStack)
      /\ op \in Ops(fresh' - 1) /\ OpOK(annots', op)
      /\ jobs \in [Jobs -> JobStates(fresh' - 1)] /\ \A j \in Jobs : JobOK(annots', jobs[j])
  BY <1>1, TextCarries
<1>3. undoStack' \in Seq(Ops(fresh' - 1)) /\ OpsOK(annots', undoStack')
  BY <1>2, OpsMove
<1>4. redoStack' \in Seq(Ops(fresh' - 1)) /\ OpsOK(annots', redoStack')
  BY DEF OpsOK
<1> QED BY <1>1, <1>2, <1>3, <1>4, TextKeeps

\* One operation is taken off a history and performed, and goes on the other.
LEMMA SwapOK ==
  ASSUME IInv, At("idle"), UNCHANGED <<ink, jobs, call, doubled>>, newer' = "text",
         NEW from \in Seq(Ops(fresh - 1)), OpsOK(annots, from), from # <<>>,
         NEW onto \in Seq(Ops(fresh - 1)), OpsOK(annots, onto),
         NEW what, what \in {Head(from).before, Head(from).after}, Perform(Head(from), what)
  PROVE  /\ TextMoves
         /\ Tail(from) \in Seq(Ops(fresh' - 1)) /\ OpsOK(annots', Tail(from))
         /\ <<Performed(Head(from))>> \o onto \in Seq(Ops(fresh' - 1))
         /\ OpsOK(annots', <<Performed(Head(from))>> \o onto)
<1> DEFINE op == Head(from)
           n == fresh - 1
           m == fresh' - 1
<1>1. Types /\ n \in Nat
  BY Bounds DEF IInv, Types
<1>2. /\ op \in Ops(n) /\ OpOK(annots, op) /\ Tail(from) \in Seq(Ops(n))
      /\ OpsOK(annots, Tail(from))
  BY <1>1, OpsMove
<1>3. what \in What(n)
  BY <1>2 DEF Ops
<1>4. TextMoves /\ Performed(op) \in Ops(m) /\ OpOK(annots', Performed(op))
  BY <1>2, <1>3, PerformOK
<1>5. /\ \A id : NoInk(annots, id) => NoInk(annots', id)
      /\ fresh' = fresh \/ (CanAdd /\ fresh' = fresh + 1)
  BY <1>4, TextMovesOK DEF ink
<1>6. n \in Nat /\ m \in Nat /\ n <= m
  BY <1>1, <1>5, TypesWider
<1>7. \A ops : OpsOK(annots, ops) => OpsOK(annots', ops)
  BY <1>5 DEF OpsOK, OpOK
<1> HIDE DEF op, n, m
<1>8. Tail(from) \in Seq(Ops(m)) /\ onto \in Seq(Ops(m))
  <2>1. onto \in Seq(Ops(n))
    BY DEF n
  <2> QED BY <1>2, <1>6, <2>1, Wider
<1>9. OpsOK(annots', Tail(from)) /\ OpsOK(annots', onto)
  BY <1>2, <1>7
<1>10. <<Performed(op)>> \o onto \in Seq(Ops(m)) /\ OpsOK(annots', <<Performed(op)>> \o onto)
  BY <1>4, <1>6, <1>8, <1>9, OpsMove
<1> QED BY <1>4, <1>8, <1>9, <1>10 DEF op, m

\* An annotation of a text is no ink.
LEMMA TextIs ==
  ASSUME IInv, NEW i \in DOMAIN annots, annots[i].kind # "ink"
  PROVE  /\ annots[i].kind \in {"text", "markup"} /\ NoInk(annots, annots[i].id)
         /\ annots[i].id \in 1..fresh - 1 /\ annots[i].what \in What(fresh - 1)
<1>1. Types /\ Unique(annots) /\ annots[i] \in Annots(fresh - 1) /\ fresh - 1 \in Nat
  BY Bounds DEF IInv, Types, InkSound
<1>2. NoInk(annots, annots[i].id)
  BY <1>1 DEF NoInk, PageInk, Unique
<1> QED BY <1>1, <1>2, AnnotIs

\* The user restyles or removes a text, or undoes or redoes that.
LEMMA TextStepKeeps ==
  ASSUME IInv, TextStep, UNCHANGED doubled
  PROVE  IInv' /\ Retains(annots, annots') /\ drawing' = drawing
<1> DEFINE n == fresh - 1
<1>1. /\ Types /\ Unique(annots) /\ n \in Nat
      /\ undoStack \in Seq(Ops(n)) /\ OpsOK(annots, undoStack)
      /\ redoStack \in Seq(Ops(n)) /\ OpsOK(annots, redoStack)
  BY Bounds DEF IInv, Types, InkSound, TextSound
<1>2. ASSUME NEW i \in DOMAIN annots, NEW s \in Styles, Restyle(i, s)
      PROVE  IInv' /\ Retains(annots, annots') /\ drawing' = drawing
  <2> DEFINE id == annots[i].id
             after == [annots[i].what EXCEPT !.style = s]
             op == Op("edit", id, annots[i].what, after, "text", TRUE)
  <2>1. id \in 1..n /\ annots[i].what \in What(n) /\ NoInk(annots, id)
    BY <1>2, TextIs DEF Restyle
  <2>2. after \in What(n)
    BY <2>1 DEF What
  <2>3. /\ annots' = Overwritten(id, after) /\ fresh' = fresh /\ UNCHANGED <<ink, call, jobs>>
        /\ undoStack' = <<op>> \o undoStack /\ redoStack' = <<>> /\ newer' = "text" /\ At("idle")
    BY <1>2 DEF Restyle, Push
  <2>4. op \in Ops(n) /\ op.id = id /\ op.present = TRUE
    <3>1. id \in 0..n
      BY <1>1, <2>1
    <3> HIDE DEF id, after
    <3> QED BY <2>1, <2>2, <3>1 DEF Ops, Op
  <2>5. OpOK(annots, op)
    <3>1. id # 0
      BY <1>1, <2>1
    <3> QED BY <2>1, <2>4, <3>1 DEF OpOK
  <2> HIDE DEF op, after
  <2>6. TextMoves
    <3>1. /\ annots' \in Seq(Annots(n)) /\ Len(annots') = Len(annots)
          /\ Shrinks(annots, annots') /\ Retains(annots, annots')
      BY <1>1, <2>1, <2>2, <2>3, OverwrittenOK
    <3>2. Len(annots') <= Len(annots)
      BY <1>1, <3>1 DEF Types
    <3> QED BY <2>3, <3>1, <3>2 DEF TextMoves
  <2> HIDE DEF id, n
  <2> QED BY <2>3, <2>4, <2>5, <2>6, PushKeeps DEF n
<1>3. ASSUME NEW i \in DOMAIN annots, RemoveText(i)
      PROVE  IInv' /\ Retains(annots, annots') /\ drawing' = drawing
  <2> DEFINE id == annots[i].id
             op == Op("presence", 0, annots[i].what, annots[i].what, "text", FALSE)
  <2>1. id \in 1..n /\ annots[i].what \in What(n) /\ NoInk(annots, id)
    BY <1>3, TextIs DEF RemoveText
  <2>3. /\ annots' = Without(id) /\ fresh' = fresh /\ UNCHANGED <<ink, call, jobs>>
        /\ undoStack' = <<op>> \o undoStack /\ redoStack' = <<>> /\ newer' = "text" /\ At("idle")
    BY <1>3 DEF RemoveText, Push
  <2>4. op \in Ops(n) /\ op.id = 0 /\ op.present = FALSE
    <3>1. 0 \in 0..n
      BY <1>1
    <3> QED BY <2>1, <3>1 DEF Ops, Op
  <2>5. OpOK(annots, op)
    BY <1>1, <2>4, NumbersUsed DEF OpOK
  <2> HIDE DEF op
  <2>6. TextMoves
    <3>1. /\ annots' \in Seq(Annots(n)) /\ Len(annots') <= Len(annots)
          /\ Shrinks(annots, annots') /\ Retains(annots, annots')
      BY <1>1, <2>1, <2>3, WithoutOK
    <3> QED BY <2>3, <3>1 DEF TextMoves
  <2> HIDE DEF id, n
  <2> QED BY <2>3, <2>4, <2>5, <2>6, PushKeeps DEF n
<1>4. ASSUME UndoText PROVE IInv' /\ Retains(annots, annots') /\ drawing' = drawing
  <2>1. /\ At("idle") /\ UNCHANGED <<ink, jobs, call>> /\ newer' = "text" /\ undoStack # <<>>
        /\ Perform(Head(undoStack), Head(undoStack).before)
        /\ undoStack' = Tail(undoStack)
        /\ redoStack' = <<Performed(Head(undoStack))>> \o redoStack
    BY <1>4 DEF UndoText, PreferText
  <2>2. /\ TextMoves /\ undoStack' \in Seq(Ops(fresh' - 1)) /\ OpsOK(annots', undoStack')
        /\ redoStack' \in Seq(Ops(fresh' - 1)) /\ OpsOK(annots', redoStack')
    BY <1>1, <2>1, SwapOK
  <2>3. jobs' = jobs /\ UNCHANGED <<ink, call, doubled>> /\ drawing' = drawing
    BY <2>1 DEF ink
  <2>4. jobs' \in [Jobs -> JobStates(fresh' - 1)] /\ \A j \in Jobs : JobOK(annots', jobs'[j])
    BY <2>2, <2>3, TextCarries
  <2> QED BY <2>1, <2>2, <2>3, <2>4, TextKeeps
<1>5. ASSUME RedoText PROVE IInv' /\ Retains(annots, annots') /\ drawing' = drawing
  <2>1. /\ At("idle") /\ UNCHANGED <<ink, jobs, call>> /\ newer' = "text" /\ redoStack # <<>>
        /\ Perform(Head(redoStack), Head(redoStack).after)
        /\ redoStack' = Tail(redoStack)
        /\ undoStack' = <<Performed(Head(redoStack))>> \o undoStack
    BY <1>5 DEF RedoText
  <2>2. /\ TextMoves /\ undoStack' \in Seq(Ops(fresh' - 1)) /\ OpsOK(annots', undoStack')
        /\ redoStack' \in Seq(Ops(fresh' - 1)) /\ OpsOK(annots', redoStack')
    BY <1>1, <2>1, SwapOK
  <2>3. jobs' = jobs /\ UNCHANGED <<ink, call, doubled>> /\ drawing' = drawing
    BY <2>1 DEF ink
  <2>4. jobs' \in [Jobs -> JobStates(fresh' - 1)] /\ \A j \in Jobs : JobOK(annots', jobs'[j])
    BY <2>2, <2>3, TextCarries
  <2> QED BY <2>1, <2>2, <2>3, <2>4, TextKeeps
<1> QED BY <1>2, <1>3, <1>4, <1>5 DEF TextStep

\* One job goes on, and no history changes.
LEMMA JobKeeps ==
  ASSUME IInv, TextMoves, UNCHANGED <<ink, call>>, UNCHANGED text, UNCHANGED doubled,
         newer' = newer,
         NEW j \in Jobs, NEW job \in JobStates(fresh' - 1), JobOK(annots', job),
         jobs' = [jobs EXCEPT ![j] = job]
  PROVE  IInv' /\ Retains(annots, annots') /\ drawing' = drawing
<1>1. /\ UNCHANGED <<ink, call, doubled>> /\ undoStack' = undoStack /\ redoStack' = redoStack
      /\ drawing' = drawing /\ newer' \in {"ink", "text"}
  BY DEF ink, text, IInv, Types
<1>2. /\ undoStack' \in Seq(Ops(fresh' - 1)) /\ OpsOK(annots', undoStack')
      /\ redoStack' \in Seq(Ops(fresh' - 1)) /\ OpsOK(annots', redoStack')
      /\ jobs \in [Jobs -> JobStates(fresh' - 1)] /\ \A k \in Jobs : JobOK(annots', jobs[k])
  BY <1>1, TextCarries
<1>3. jobs' \in [Jobs -> JobStates(fresh' - 1)] /\ \A k \in Jobs : JobOK(annots', jobs'[k])
  BY <1>2
<1> QED BY <1>1, <1>2, <1>3, TextKeeps

\* What a job takes for its own is no ink, or nothing.
LEMMA FoundIs ==
  ASSUME IInv, NEW kind \in {"text", "markup"}, NEW what, NEW known,
         NEW id \in FindNew(kind, what, known)
  PROVE  id \in 0..fresh - 1 /\ NoInk(annots, id)
<1> DEFINE new == {i \in DOMAIN annots : annots[i].kind = kind /\ annots[i].id \notin known}
           near == {i \in new : annots[i].what = what}
<1>1. Types /\ fresh - 1 \in Nat
  BY Bounds DEF IInv, Types
<1>2. ASSUME NEW i \in new PROVE annots[i].id \in 0..fresh - 1 /\ NoInk(annots, annots[i].id)
  <2>1. i \in DOMAIN annots /\ annots[i].kind # "ink"
    OBVIOUS
  <2>2. annots[i].id \in 1..fresh - 1 /\ NoInk(annots, annots[i].id)
    BY <2>1, TextIs
  <2> QED BY <1>1, <2>2
<1>3. CASE near # {}
  <2>1. near \in SUBSET Nat
    BY <1>1 DEF Types
  <2>2. Min(near) \in near
    BY <1>3, <2>1, MinIs
  <2>3. id = annots[Min(near)].id
    BY <1>3 DEF FindNew
  <2> QED BY <1>2, <2>2, <2>3
<1>4. CASE near = {} /\ new # {}
  <2>1. \E i \in new : id = annots[i].id
    BY <1>4 DEF FindNew
  <2> QED BY <1>2, <2>1
<1>5. CASE near = {} /\ new = {}
  <2>1. id = 0
    BY <1>5 DEF FindNew
  <2> QED BY <1>1, <2>1, NumbersUsed
<1> QED BY <1>3, <1>4, <1>5

\* What a job knows of itself.
LEMMA JobIs ==
  ASSUME NEW n \in Nat, NEW job \in JobStates(n)
  PROVE  /\ job.at = "listed" => job.known \in SUBSET (1..n)
         /\ job.at \in {"added", "found"} =>
               job.kind \in {"text", "markup"} /\ job.what \in What(n) /\ job.own \in 1..n
         /\ job.at = "found" => job.id \in 0..n
         /\ job.at \in {"none", "listed", "added", "found"}
  BY DEF JobStates, NoJob

\* A job lists the page, adds a text or a markup, looks for it, and has it recorded.
LEMMA JobStepKeeps ==
  ASSUME IInv, NEW j \in Jobs, JobStep(j), UNCHANGED doubled
  PROVE  IInv' /\ Retains(annots, annots') /\ drawing' = drawing
<1> DEFINE n == fresh - 1
<1>1. /\ Types /\ Unique(annots) /\ n \in Nat /\ fresh = n + 1 /\ jobs \in [Jobs -> JobStates(n)]
      /\ jobs[j] \in JobStates(n) /\ JobOK(annots, jobs[j])
      /\ undoStack \in Seq(Ops(n)) /\ OpsOK(annots, undoStack)
  BY Bounds DEF IInv, Types, InkSound, TextSound
<1>2. ASSUME AddList(j) PROVE IInv' /\ Retains(annots, annots') /\ drawing' = drawing
  <2> DEFINE job == [at |-> "listed", known |-> Ids]
  <2>1. /\ TextMoves /\ UNCHANGED <<ink, call>> /\ UNCHANGED text /\ newer' = newer
        /\ jobs' = [jobs EXCEPT ![j] = job] /\ fresh' = fresh
    BY <1>2 DEF AddList, TextMoves
  <2>2. Ids \in SUBSET (1..n)
    BY <1>1, NumbersUsed DEF Ids
  <2>3. job \in JobStates(n) /\ JobOK(annots', job)
    BY <2>2 DEF JobStates, JobOK
  <2>4. job \in JobStates(fresh' - 1)
    BY <2>1, <2>3
  <2> HIDE DEF job, n
  <2> QED BY <2>1, <2>3, <2>4, JobKeeps
<1>3. ASSUME NEW kind \in {"text", "markup"}, AddNative(j, kind)
      PROVE  IInv' /\ Retains(annots, annots') /\ drawing' = drawing
  <2> DEFINE what == [name |-> fresh, style |-> Plain]
             job == [at |-> "added", kind |-> kind, what |-> what, known |-> jobs[j].known,
                     own |-> fresh]
  <2>1. /\ jobs[j].at = "listed" /\ CanAdd /\ fresh' = fresh + 1
        /\ annots' = Append(annots, Annotation(kind, what))
        /\ UNCHANGED <<ink, call>> /\ UNCHANGED text /\ newer' = newer
        /\ jobs' = [jobs EXCEPT ![j] = job]
    BY <1>1, <1>3 DEF AddNative
  <2>2. what \in What(fresh) /\ fresh \in 1..fresh /\ fresh \in Nat /\ fresh' - 1 = fresh
    BY <1>1, <2>1, ConstantsAssumption DEF What
  <2>3. TextMoves
    BY <2>1, <2>2 DEF TextMoves, Adds
  <2>4. jobs[j].known \in SUBSET (1..fresh)
    <3>1. jobs[j].known \in SUBSET (1..n)
      BY <1>1, <2>1, JobIs
    <3> QED BY <1>1, <3>1
  <2>5. job \in JobStates(fresh) /\ JobOK(annots', job)
    BY <2>2, <2>4 DEF JobStates, JobOK
  <2>6. job \in JobStates(fresh' - 1)
    BY <2>2, <2>5
  <2> HIDE DEF job, n
  <2> QED BY <2>1, <2>3, <2>5, <2>6, JobKeeps
<1>4. ASSUME AddFind(j) PROVE IInv' /\ Retains(annots, annots') /\ drawing' = drawing
  <2>1. PICK id \in FindNew(jobs[j].kind, jobs[j].what, jobs[j].known) :
           jobs' = [jobs EXCEPT ![j] = [at |-> "found", kind |-> @.kind, what |-> @.what,
                                        own |-> @.own, id |-> id]]
    BY <1>4 DEF AddFind
  <2> DEFINE job == [at |-> "found", kind |-> jobs[j].kind, what |-> jobs[j].what,
                     own |-> jobs[j].own, id |-> id]
  <2>2. /\ TextMoves /\ UNCHANGED <<ink, call>> /\ UNCHANGED text /\ newer' = newer
        /\ jobs' = [jobs EXCEPT ![j] = job] /\ fresh' = fresh /\ jobs[j].at = "added"
        /\ annots' = annots
    BY <1>1, <1>4, <2>1 DEF AddFind, TextMoves
  <2>3. /\ jobs[j].kind \in {"text", "markup"} /\ jobs[j].what \in What(n)
        /\ jobs[j].own \in 1..n
    BY <1>1, <2>2, JobIs
  <2>4. id \in 0..n /\ NoInk(annots, id)
    BY <2>1, <2>3, FoundIs
  <2>5. job \in JobStates(n) /\ JobOK(annots', job)
    BY <2>2, <2>3, <2>4 DEF JobStates, JobOK
  <2>6. job \in JobStates(fresh' - 1)
    BY <2>2, <2>5
  <2> HIDE DEF job, n
  <2> QED BY <2>2, <2>5, <2>6, JobKeeps
<1>5. ASSUME AddPush(j), jobs[j].id = 0
      PROVE  IInv' /\ Retains(annots, annots') /\ drawing' = drawing
  <2>1. /\ TextMoves /\ UNCHANGED <<ink, call>> /\ UNCHANGED text /\ newer' = newer
        /\ jobs' = [jobs EXCEPT ![j] = NoJob]
    BY <1>5 DEF AddPush, TextMoves
  <2>2. NoJob \in JobStates(fresh' - 1) /\ JobOK(annots', NoJob)
    BY DEF JobStates, JobOK, NoJob
  <2> QED BY <2>1, <2>2, JobKeeps
<1>6. ASSUME AddPush(j), jobs[j].id # 0
      PROVE  IInv' /\ Retains(annots, annots') /\ drawing' = drawing
  <2> DEFINE op == Op("presence", jobs[j].id, jobs[j].what, jobs[j].what, jobs[j].kind, TRUE)
  <2>1. /\ annots' = annots /\ fresh' = fresh /\ UNCHANGED <<ink, call, doubled>>
        /\ jobs[j].at = "found" /\ newer' \in {"ink", "text"} /\ drawing' = drawing
        /\ undoStack' = <<op>> \o undoStack /\ redoStack' = <<>>
        /\ jobs' = [jobs EXCEPT ![j] = NoJob]
    BY <1>6 DEF AddPush, Push, ink
  <2>2. /\ jobs[j].kind \in {"text", "markup"} /\ jobs[j].what \in What(n)
        /\ jobs[j].id \in 0..n /\ NoInk(annots, jobs[j].id)
    BY <1>1, <2>1, JobIs DEF JobOK
  <2>3. op \in Ops(n) /\ op.id = jobs[j].id /\ op.present = TRUE
    BY <2>2 DEF Ops, Op
  <2>4. OpOK(annots, op)
    BY <1>6, <2>2, <2>3 DEF OpOK
  <2> HIDE DEF op
  <2>5. <<op>> \o undoStack \in Seq(Ops(n)) /\ OpsOK(annots, <<op>> \o undoStack)
    BY <1>1, <2>3, <2>4, OpsMove
  <2>6. /\ undoStack' \in Seq(Ops(fresh' - 1)) /\ OpsOK(annots', undoStack')
        /\ redoStack' \in Seq(Ops(fresh' - 1)) /\ OpsOK(annots', redoStack')
    BY <2>1, <2>5 DEF OpsOK
  <2>7. NoJob \in JobStates(n) /\ JobOK(annots, NoJob)
    BY DEF JobStates, JobOK, NoJob
  <2>8. \A k \in Jobs : JobOK(annots, jobs[k])
    BY DEF IInv, TextSound
  <2>9. jobs' \in [Jobs -> JobStates(n)] /\ \A k \in Jobs : JobOK(annots, jobs'[k])
    BY <1>1, <2>1, <2>7, <2>8
  <2>10. jobs' \in [Jobs -> JobStates(fresh' - 1)] /\ \A k \in Jobs : JobOK(annots', jobs'[k])
    BY <2>1, <2>9
  <2>11. TextMoves
    BY <2>1 DEF TextMoves
  <2> QED BY <2>1, <2>6, <2>10, <2>11, TextKeeps
<1> QED BY <1>2, <1>3, <1>4, <1>5, <1>6 DEF JobStep

-----------------------------------------------------------------------------
(* Ink *)

\* The strokes of the page have numbers before the next one.
LEMMA InkIs ==
  ASSUME Types, NEW i \in PageInk(annots)
  PROVE  /\ annots[i] \in Annots(fresh - 1) /\ i \in DOMAIN annots
         /\ annots[i].kind = "ink" /\ annots[i].what \in Seq(1..fresh - 1)
         /\ Strokes(annots[i].what) \subseteq 1..fresh - 1
<1>1. /\ fresh - 1 \in Nat /\ i \in DOMAIN annots /\ annots[i] \in Annots(fresh - 1)
      /\ annots[i].kind = "ink"
  BY Bounds DEF Types, PageInk
<1>2. annots[i].what \in Seq(1..fresh - 1)
  BY <1>1, AnnotIs
<1> QED BY <1>1, <1>2 DEF Strokes, ToSet

\* No strokes are apart from any page.
LEMMA NothingApart == ASSUME NEW page, NEW dbl PROVE Apart(page, dbl, <<>>)
<1>1. Strokes(<<>>) = {} /\ IsInjective(<<>>)
  BY DEF Strokes, ToSet, IsInjective
<1> QED BY <1>1 DEF Apart, Clear

\* The gestures when one goes on or off.
LEMMA PastMoves ==
  ASSUME NEW S, NEW page, NEW dbl, NEW now \in Seq(S), NEW past \in Seq(Seq(S)),
         Pended(page, dbl, now, past)
  PROVE  /\ \A arcs \in Seq(S) : Apart(page, dbl, arcs) =>
               /\ <<arcs>> \o past \in Seq(Seq(S))
               /\ \A d : Apart(page, dbl, d) => Pended(page, dbl, d, <<arcs>> \o past)
         /\ past # <<>> => /\ Head(past) \in Seq(S) /\ Tail(past) \in Seq(Seq(S))
                           /\ Pended(page, dbl, Head(past), Tail(past))
         /\ \A d : Apart(page, dbl, d) => Pended(page, dbl, d, past)
<1>1. ASSUME NEW arcs \in Seq(S), Apart(page, dbl, arcs)
      PROVE  /\ <<arcs>> \o past \in Seq(Seq(S))
             /\ \A d : Apart(page, dbl, d) => Pended(page, dbl, d, <<arcs>> \o past)
  <2> DEFINE good == {a \in Seq(S) : Apart(page, dbl, a)}
             new == <<arcs>> \o past
  <2>1. new \in Seq(Seq(S))
    BY FrontIs
  <2>2. arcs \in good /\ \A i \in DOMAIN past : past[i] \in good
    BY <1>1 DEF Pended
  <2> HIDE DEF good
  <2>3. \A i \in DOMAIN new : new[i] \in good
    BY <2>2, FrontAll
  <2> HIDE DEF new
  <2>4. \A i \in DOMAIN new : Apart(page, dbl, new[i])
    BY <2>3 DEF good
  <2> QED BY <2>1, <2>4 DEF Pended, new
<1>2. ASSUME past # <<>>
      PROVE  /\ Head(past) \in Seq(S) /\ Tail(past) \in Seq(Seq(S))
             /\ Pended(page, dbl, Head(past), Tail(past))
  <2>1. /\ Head(past) \in Seq(S) /\ Head(past) = past[1] /\ 1 \in DOMAIN past
        /\ Tail(past) \in Seq(Seq(S))
        /\ \A i \in DOMAIN Tail(past) : i + 1 \in DOMAIN past /\ Tail(past)[i] = past[i + 1]
    BY <1>2, TailIs
  <2> QED BY <2>1 DEF Pended
<1> QED BY <1>1, <1>2 DEF Pended

\* What the eraser may load: the strokes of an annotation that is taken off the page.
LEMMA LoadedApart ==
  ASSUME NEW n \in Nat, NEW page \in Seq(Annots(n)), Unique(page), NEW k \in PageInk(page),
         NEW dbl, Once(page, dbl)
  PROVE  Apart(RemoveAt(page, k), dbl, page[k].what)
<1> DEFINE new == RemoveAt(page, k)
<1>1. k \in 1..Len(page)
  BY DEF PageInk
<1>2. \A i \in DOMAIN new : \E j \in DOMAIN page : j # k /\ new[i] = page[j]
  BY <1>1, RemovedOK
<1> HIDE DEF new
<1>3. \A i \in PageInk(new) : \E j \in PageInk(page) : j # k /\ new[i] = page[j]
  BY <1>2 DEF PageInk
<1>4. Clear(new, page[k].what, dbl)
  BY <1>3 DEF Clear, Once
<1>5. IsInjective(page[k].what)
  BY DEF Once
<1> QED BY <1>4, <1>5 DEF Apart, new

\* Of a sequence without repetitions the rest, when one element is taken out or
\* replaced by a new one.
LEMMA RubOK ==
  ASSUME NEW n \in Nat, NEW arcs \in Seq(1..n), IsInjective(arcs), NEW i \in 1..Len(arcs),
         NEW m \in Nat, m = n + 1
  PROVE  /\ RemoveAt(arcs, i) \in Seq(1..n) /\ IsInjective(RemoveAt(arcs, i))
         /\ Strokes(RemoveAt(arcs, i)) \subseteq Strokes(arcs)
         /\ [arcs EXCEPT ![i] = m] \in Seq(1..m) /\ IsInjective([arcs EXCEPT ![i] = m])
         /\ Strokes([arcs EXCEPT ![i] = m]) \subseteq Strokes(arcs) \cup {m}
<1> DEFINE L == Len(arcs)
           less == RemoveAt(arcs, i)
           cut == [arcs EXCEPT ![i] = m]
           from(j) == IF j < i THEN j ELSE j + 1
<1>1. L \in Nat /\ DOMAIN arcs = 1..L /\ \A j \in 1..L : arcs[j] \in 1..n
  OBVIOUS
<1>2. \A j, k \in 1..L : arcs[j] = arcs[k] => j = k
  BY <1>1 DEF IsInjective
<1>3. /\ less \in Seq(1..n) /\ Len(less) = L - 1
      /\ \A j \in 1..L - 1 : less[j] = IF j < i THEN arcs[j] ELSE arcs[j + 1]
  BY RemoveAtFacts
<1> HIDE DEF less
<1>14. i \in 1..L
  OBVIOUS
<1> HIDE DEF L
<1>4. \A j \in 1..L - 1 : less[j] = arcs[from(j)] /\ from(j) \in 1..L
  BY <1>1, <1>3, <1>14
<1>5. \A j, k \in 1..L - 1 : from(j) = from(k) => j = k
  BY <1>1
<1> HIDE DEF from
<1>6. DOMAIN less = 1..L - 1
  BY <1>3
<1>7. IsInjective(less)
  BY <1>2, <1>4, <1>5, <1>6 DEF IsInjective
<1>8. Strokes(less) \subseteq Strokes(arcs)
  BY <1>1, <1>4, <1>6 DEF Strokes, ToSet
<1>15. m \in 1..m /\ 1..n \subseteq 1..m /\ m \notin 1..n
  OBVIOUS
<1>9. /\ cut = [j \in 1..L |-> IF j = i THEN m ELSE arcs[j]]
      /\ \A j \in 1..L : arcs[j] \in 1..m /\ arcs[j] # m
  <2>1. cut = [j \in 1..L |-> IF j = i THEN m ELSE arcs[j]]
    BY <1>1
  <2> QED BY <1>1, <1>15, <2>1
<1> HIDE DEF cut
<1>10. cut \in [1..L -> 1..m]
  BY <1>9, <1>15
<1>11. cut \in Seq(1..m) /\ DOMAIN cut = 1..L
  <2> DEFINE T == 1..m
  <2>1. L \in Nat /\ cut \in [1..L -> T]
    BY <1>1, <1>10
  <2> HIDE DEF T
  <2>2. cut \in Seq(T)
    BY <2>1
  <2> QED BY <2>1, <2>2 DEF T
<1>12. IsInjective(cut)
  BY <1>2, <1>9, <1>11 DEF IsInjective
<1>13. Strokes(cut) \subseteq Strokes(arcs) \cup {m}
  BY <1>1, <1>9, <1>11 DEF Strokes, ToSet
<1> QED BY <1>3, <1>7, <1>8, <1>11, <1>12, <1>13 DEF less, cut

\* A step of ink keeps the histories of text and the jobs.
LEMMA InkKeeps ==
  ASSUME IInv, UNCHANGED text, jobs' = jobs, fresh' = fresh \/ (CanAdd /\ fresh' = fresh + 1),
         \A id \in 0..fresh - 1 : NoInk(annots, id) => NoInk(annots', id),
         annots' \in Seq(Annots(fresh' - 1)), Len(annots') <= fresh' - 1,
         drawing' \in Seq(1..fresh' - 1), history' \in Seq(Seq(1..fresh' - 1)),
         inkStack' \in Seq(Items(fresh' - 1)),
         call' \in [at : Steps, n : Nat, then : {"idle", "hit"}],
         erasing' \in BOOLEAN, newer' \in {"ink", "text"}, InkSound', Midway'
  PROVE  IInv'
<1>1. Types /\ TextSound /\ fresh - 1 \in Nat
  BY Bounds DEF IInv, Types
<1>2. undoStack' = undoStack /\ redoStack' = redoStack
  BY DEF text
<1>3. /\ fresh' \in 1..MaxFresh + 1
      /\ undoStack \in Seq(Ops(fresh' - 1)) /\ redoStack \in Seq(Ops(fresh' - 1))
      /\ jobs \in [Jobs -> JobStates(fresh' - 1)]
  BY <1>1, TypesWider
<1>4. Types'
  BY <1>2, <1>3 DEF Types
<1>5. /\ \A i \in DOMAIN undoStack : undoStack[i].id \in 0..fresh - 1
      /\ \A i \in DOMAIN redoStack : redoStack[i].id \in 0..fresh - 1
  <2>1. \A op \in Ops(fresh - 1) : op.id \in 0..fresh - 1
    BY DEF Ops
  <2>2. undoStack \in Seq(Ops(fresh - 1)) /\ redoStack \in Seq(Ops(fresh - 1))
    BY <1>1 DEF Types
  <2> QED BY <2>1, <2>2
<1>6. OpsOK(annots', undoStack) /\ OpsOK(annots', redoStack)
  BY <1>1, <1>5 DEF TextSound, OpsOK, OpOK
<1>7. ASSUME NEW j \in Jobs PROVE JobOK(annots', jobs[j])
  <2>1. jobs[j] \in JobStates(fresh - 1) /\ JobOK(annots, jobs[j])
    BY <1>1 DEF Types, TextSound
  <2>2. jobs[j].at = "found" => jobs[j].id \in 0..fresh - 1
    BY <1>1, <2>1, JobIs
  <2> QED BY <2>1, <2>2 DEF JobOK
<1>8. TextSound'
  BY <1>2, <1>6, <1>7 DEF TextSound
<1> QED BY <1>4, <1>8 DEF IInv

\* A step that leaves the page and its undo alone.
LEMMA QuietKeeps ==
  ASSUME IInv, UNCHANGED <<annots, inkStack, doubled, jobs>>, UNCHANGED text,
         fresh' = fresh \/ (CanAdd /\ fresh' = fresh + 1),
         drawing' \in Seq(1..fresh' - 1), history' \in Seq(Seq(1..fresh' - 1)),
         Pended(annots, doubled, drawing', history'),
         call' \in [at : Steps, n : Nat, then : {"idle", "hit"}],
         erasing' \in BOOLEAN, newer' \in {"ink", "text"}, Midway'
  PROVE  IInv'
<1>1. Types /\ InkSound
  BY DEF IInv
<1>2. /\ annots \in Seq(Annots(fresh' - 1)) /\ Len(annots) <= fresh' - 1
      /\ inkStack \in Seq(Items(fresh' - 1))
  BY <1>1, TypesWider
<1>3. InkSound'
  BY <1>1 DEF InkSound, Pending
<1> QED BY <1>2, <1>3, InkKeeps

\* What every step of ink starts from.
LEMMA InkStarts ==
  ASSUME IInv
  PROVE  /\ Types /\ Unique(annots) /\ Once(annots, doubled)
         /\ annots \in Seq(Annots(fresh - 1)) /\ Len(annots) <= fresh - 1
         /\ fresh - 1 \in Nat /\ fresh \in Nat /\ Len(annots) \in Nat
         /\ drawing \in Seq(1..fresh - 1) /\ history \in Seq(Seq(1..fresh - 1))
         /\ inkStack \in Seq(Items(fresh - 1))
         /\ ~At("added") => Pended(annots, doubled, drawing, history)
         /\ \A k \in DOMAIN inkStack : Recalls(annots, inkStack[k])
         /\ call \in [at : Steps, n : Nat, then : {"idle", "hit"}]
         /\ erasing \in BOOLEAN /\ newer \in {"ink", "text"} /\ Midway
<1>1. Types /\ InkSound /\ Midway
  BY DEF IInv
<1>2. annots \in Seq(Annots(fresh - 1)) /\ fresh - 1 \in Nat /\ fresh \in Nat
  BY <1>1, Bounds DEF Types
<1>3. Len(annots) \in Nat
  BY <1>2
<1> QED BY <1>1, <1>2, <1>3 DEF Types, InkSound, Pending

\* The user draws a stroke.
LEMMA DrawKeeps == ASSUME IInv, Draw, UNCHANGED doubled PROVE IInv'
<1> DEFINE n == fresh - 1
<1>1. /\ At("idle") /\ CanAdd /\ fresh' = fresh + 1 /\ newer' = "ink"
      /\ history' = <<drawing>> \o history /\ drawing' = Append(drawing, fresh)
      /\ UNCHANGED <<annots, inkStack, doubled, jobs>> /\ UNCHANGED text
      /\ erasing' = erasing /\ call' = call
  BY DEF Draw
<1>2. /\ Types /\ n \in Nat /\ fresh \in Nat /\ drawing \in Seq(1..n) /\ history \in Seq(Seq(1..n))
      /\ Pended(annots, doubled, drawing, history)
      /\ call \in [at : Steps, n : Nat, then : {"idle", "hit"}] /\ erasing \in BOOLEAN
  BY <1>1, InkStarts DEF At
<1>3. /\ 1..n \subseteq 1..fresh /\ fresh \in 1..fresh /\ fresh \notin 1..n /\ fresh' - 1 = fresh
  BY <1>1, <1>2
<1>4. drawing \in Seq(1..fresh) /\ history \in Seq(Seq(1..fresh))
  BY <1>1, <1>2, <1>3, TypesWider
<1>5. Apart(annots, doubled, drawing')
  <2>1. IsInjective(drawing) /\ Clear(annots, drawing, doubled)
    BY <1>2 DEF Pended, Apart
  <2>2. IsInjective(drawing') /\ Strokes(drawing') = Strokes(drawing) \cup {fresh}
    <3> DEFINE L == Len(drawing)
               now == drawing'
    <3>1. /\ DOMAIN drawing = 1..L /\ L \in Nat /\ \A i \in 1..L : drawing[i] \in 1..n
          /\ DOMAIN now = 1..L + 1 /\ now[L + 1] = fresh /\ \A i \in 1..L : now[i] = drawing[i]
      BY <1>1, <1>2
    <3> HIDE DEF now, L
    <3>2. \A i \in 1..L + 1 : i = L + 1 \/ i \in 1..L
      BY <3>1
    <3>3. \A i \in 1..L : now[i] # fresh
      BY <1>3, <3>1
    <3>4. IsInjective(now)
      BY <2>1, <3>1, <3>2, <3>3 DEF IsInjective
    <3>5. L + 1 \in 1..L + 1 /\ 1..L \subseteq 1..L + 1
      BY <3>1
    <3>6. Strokes(now) = Strokes(drawing) \cup {fresh}
      BY <3>1, <3>2, <3>5 DEF Strokes, ToSet
    <3> QED BY <3>4, <3>6 DEF now
  <2>3. \A i \in PageInk(annots) : fresh \notin Strokes(annots[i].what)
    BY <1>2, <1>3, InkIs
  <2>4. Clear(annots, drawing', doubled)
    BY <2>1, <2>2, <2>3 DEF Clear
  <2> QED BY <2>2, <2>4 DEF Apart
<1>6. drawing' \in Seq(1..fresh' - 1)
  BY <1>1, <1>3, <1>4
<1>7. Apart(annots, doubled, drawing)
  BY <1>2 DEF Pended
<1>8. history' \in Seq(Seq(1..fresh)) /\ Pended(annots, doubled, drawing', history')
  BY <1>1, <1>2, <1>4, <1>5, <1>7, PastMoves
<1>9. history' \in Seq(Seq(1..fresh' - 1))
  BY <1>3, <1>8
<1>10. Midway'
  BY <1>1 DEF Midway, At
<1> QED BY <1>1, <1>2, <1>6, <1>8, <1>9, <1>10, QuietKeeps

\* Nothing is pending any more, and nothing was before.
LEMMA CancelPends ==
  ASSUME CancelDrawing
  PROVE  /\ \A S : drawing' \in Seq(S) /\ history' \in Seq(Seq(S))
         /\ \A page, dbl : Pended(page, dbl, drawing', history')
<1>1. drawing' = <<>> /\ history' = <<>>
  BY DEF CancelDrawing
<1>2. \A page, dbl : Pended(page, dbl, <<>>, <<>>)
  BY NothingApart DEF Pended
<1> QED BY <1>1, <1>2

\* The steps that only change what is pending, or where the main thread is.
LEMMA PendingKeeps ==
  ASSUME IInv, UNCHANGED doubled,
         CancelDraw \/ SaveDraw \/ BeginErase \/ FinishErase \/ UndoPending
  PROVE  IInv'
<1> DEFINE n == fresh - 1
           C == [at : Steps, n : Nat, then : {"idle", "hit"}]
<1>1. /\ Types /\ n \in Nat /\ drawing \in Seq(1..n) /\ history \in Seq(Seq(1..n))
      /\ ~At("added") => Pended(annots, doubled, drawing, history)
      /\ call \in C /\ erasing \in BOOLEAN /\ newer \in {"ink", "text"} /\ Len(annots) \in Nat
  BY InkStarts
<1>2. ASSUME Enter("idle") \/ Enter("hit") PROVE call' \in C /\ ~At("added")' /\ Midway'
  BY <1>2 DEF Enter, Steps, Midway, At
<1>3. ASSUME annots' = annots, Save("idle") \/ Save("hit")
      PROVE  call' \in C /\ ~At("added")' /\ Midway'
  BY <1>1, <1>3 DEF Save, Steps, Midway, At
<1>4. ASSUME UNCHANGED <<annots, inkStack, doubled, jobs>>, UNCHANGED text, fresh' = fresh,
             drawing' \in Seq(1..n), history' \in Seq(Seq(1..n)),
             Pended(annots, doubled, drawing', history'),
             call' \in C, erasing' \in BOOLEAN, newer' \in {"ink", "text"}, Midway'
      PROVE  IInv'
  BY <1>4, QuietKeeps
<1>5. CASE CancelDraw
  <2>1. /\ At("idle") /\ CancelDrawing /\ newer' = "ink" /\ fresh' = fresh /\ erasing' = erasing
        /\ UNCHANGED <<annots, inkStack, doubled, jobs>> /\ UNCHANGED text /\ call' = call
    BY <1>5 DEF CancelDraw
  <2>2. Midway'
    BY <2>1 DEF Midway, At
  <2> QED BY <1>1, <1>4, <2>1, <2>2, CancelPends
<1>6. CASE SaveDraw
  <2>1. /\ At("idle") /\ Save("idle") /\ UNCHANGED <<drawing, history, erasing, newer>>
        /\ UNCHANGED <<annots, inkStack, doubled, jobs>> /\ UNCHANGED text /\ fresh' = fresh
    BY <1>6 DEF SaveDraw, ink
  <2> QED BY <1>1, <1>3, <1>4, <2>1 DEF At
<1>7. CASE BeginErase
  <2>1. /\ At("idle") /\ (Enter("hit") \/ Save("hit"))
        /\ UNCHANGED <<drawing, history, erasing, newer>>
        /\ UNCHANGED <<annots, inkStack, doubled, jobs>> /\ UNCHANGED text /\ fresh' = fresh
    BY <1>7 DEF BeginErase, ink
  <2> QED BY <1>1, <1>2, <1>3, <1>4, <2>1 DEF At
<1>8. CASE FinishErase
  <2>1. /\ At("erasing") /\ erasing' = FALSE /\ newer' = "ink" /\ fresh' = fresh
        /\ UNCHANGED <<annots, inkStack, doubled, jobs>> /\ UNCHANGED text
        /\ (UNCHANGED <<drawing, history>> /\ (Enter("idle") \/ Save("idle")))
           \/ (CancelDrawing /\ Enter("idle"))
    BY <1>8 DEF FinishErase
  <2>2. Pended(annots, doubled, drawing, history)
    BY <1>1, <2>1 DEF At
  <2>3. /\ drawing' \in Seq(1..n) /\ history' \in Seq(Seq(1..n))
        /\ Pended(annots, doubled, drawing', history')
    BY <1>1, <2>1, <2>2, CancelPends
  <2>4. call' \in C /\ Midway'
    BY <1>2, <1>3, <2>1
  <2> QED BY <1>4, <2>1, <2>3, <2>4
<1>9. CASE UndoPending
  <2>1. /\ At("idle") /\ history # <<>> /\ drawing' = Head(history) /\ history' = Tail(history)
        /\ newer' = "ink" /\ erasing' = erasing /\ call' = call /\ fresh' = fresh
        /\ UNCHANGED <<annots, inkStack, doubled, jobs>> /\ UNCHANGED text
    BY <1>9 DEF UndoPending
  <2>2. Pended(annots, doubled, drawing, history)
    BY <1>1, <2>1 DEF At
  <2>3. /\ drawing' \in Seq(1..n) /\ history' \in Seq(Seq(1..n))
        /\ Pended(annots, doubled, drawing', history')
    BY <1>1, <2>1, <2>2, PastMoves
  <2>4. Midway'
    BY <2>1 DEF Midway, At
  <2> QED BY <1>1, <1>4, <2>1, <2>3, <2>4
<1> QED BY <1>5, <1>6, <1>7, <1>8, <1>9

\* The eraser rubs out a pending stroke, or cuts it.
LEMMA RubKeeps ==
  ASSUME IInv, NEW i \in DOMAIN drawing, EraserRubs(i), UNCHANGED doubled
  PROVE  IInv'
<1> DEFINE n == fresh - 1
<1>1. /\ At("erasing") /\ UNCHANGED <<annots, inkStack, doubled, jobs>> /\ UNCHANGED text
      /\ history' = history /\ erasing' = erasing /\ newer' = newer /\ call' = call
      /\ \/ drawing' = RemoveAt(drawing, i) /\ fresh' = fresh
         \/ CanAdd /\ drawing' = [drawing EXCEPT ![i] = fresh] /\ fresh' = fresh + 1
  BY DEF EraserRubs
<1>2. /\ Types /\ n \in Nat /\ fresh \in Nat /\ drawing \in Seq(1..n)
      /\ Pended(annots, doubled, drawing, history)
      /\ call \in [at : Steps, n : Nat, then : {"idle", "hit"}] /\ erasing \in BOOLEAN
      /\ newer \in {"ink", "text"}
  BY <1>1, InkStarts DEF At
<1>3. i \in 1..Len(drawing) /\ IsInjective(drawing) /\ Clear(annots, drawing, doubled)
      /\ fresh = n + 1
  BY <1>2 DEF Pended, Apart
<1> HIDE DEF n
<1>4. /\ RemoveAt(drawing, i) \in Seq(1..n) /\ IsInjective(RemoveAt(drawing, i))
      /\ Strokes(RemoveAt(drawing, i)) \subseteq Strokes(drawing)
      /\ [drawing EXCEPT ![i] = fresh] \in Seq(1..fresh)
      /\ IsInjective([drawing EXCEPT ![i] = fresh])
      /\ Strokes([drawing EXCEPT ![i] = fresh]) \subseteq Strokes(drawing) \cup {fresh}
  BY <1>2, <1>3, RubOK
<1>5. \A k \in PageInk(annots) : fresh \notin Strokes(annots[k].what)
  <2> SUFFICES ASSUME NEW k \in PageInk(annots) PROVE fresh \notin Strokes(annots[k].what)
    OBVIOUS
  <2>1. Strokes(annots[k].what) \subseteq 1..fresh - 1
    BY <1>2, InkIs
  <2> QED BY <1>2, <2>1
<1>6. /\ Clear(annots, RemoveAt(drawing, i), doubled)
      /\ Clear(annots, [drawing EXCEPT ![i] = fresh], doubled)
  BY <1>3, <1>4, <1>5 DEF Clear
<1>7. Apart(annots, doubled, drawing')
  BY <1>1, <1>4, <1>6 DEF Apart
<1>8. drawing' \in Seq(1..fresh' - 1)
  <2>1. CASE drawing' = RemoveAt(drawing, i) /\ fresh' = fresh
    <3>1. fresh' - 1 = n
      BY <2>1 DEF n
    <3> QED BY <1>4, <2>1, <3>1
  <2>2. CASE drawing' = [drawing EXCEPT ![i] = fresh] /\ fresh' = fresh + 1
    <3>1. fresh' - 1 = fresh
      BY <1>2, <2>2
    <3> QED BY <1>4, <2>2, <3>1
  <2> QED BY <1>1, <2>1, <2>2
<1>9. history \in Seq(Seq(1..fresh' - 1))
  BY <1>1, <1>2, TypesWider
<1>10. Pended(annots, doubled, drawing', history')
  BY <1>1, <1>2, <1>7 DEF Pended
<1>11. Midway'
  BY <1>1 DEF Midway, At
<1> QED BY <1>1, <1>2, <1>8, <1>9, <1>10, <1>11, QuietKeeps

\* The page when an annotation has been taken off it to be erased or undone.
LEMMA TakenOff ==
  ASSUME IInv, NEW k \in PageInk(annots), annots' = RemoveAt(annots, k),
         fresh' = fresh, doubled' = doubled
  PROVE  /\ annots' \in Seq(Annots(fresh' - 1)) /\ Len(annots') <= fresh' - 1
         /\ Unique(annots') /\ Once(annots', doubled')
         /\ \A id : NoInk(annots, id) => NoInk(annots', id)
         /\ \A d, h : Pended(annots, doubled, d, h) => Pended(annots', doubled', d, h)
         /\ \A j \in DOMAIN inkStack : Recalls(annots', inkStack[j])
         /\ Apart(annots', doubled', annots[k].what) /\ annots[k].what \in Seq(1..fresh - 1)
<1>1. /\ Types /\ Unique(annots) /\ Once(annots, doubled) /\ fresh - 1 \in Nat
      /\ annots \in Seq(Annots(fresh - 1)) /\ Len(annots) <= fresh - 1 /\ Len(annots) \in Nat
      /\ \A j \in DOMAIN inkStack : Recalls(annots, inkStack[j])
  BY InkStarts
<1>2. k \in 1..Len(annots)
  BY <1>1 DEF PageInk
<1>3. annots' \in Seq(Annots(fresh - 1)) /\ Len(annots') = Len(annots) - 1
      /\ Shrinks(annots, annots')
  BY <1>1, <1>2, RemovedOK
<1>4. Len(annots') <= fresh' - 1
  BY <1>1, <1>3
<1>5. Apart(annots', doubled', annots[k].what) /\ annots[k].what \in Seq(1..fresh - 1)
  BY <1>1, LoadedApart, InkIs
<1>6. \A d, h : Pended(annots, doubled, d, h) => Pended(annots', doubled', d, h)
  BY <1>3, ShrinkOK DEF Pended, Apart
<1> QED BY <1>1, <1>3, <1>4, <1>5, <1>6, ShrinkOK

\* The eraser comes down, or moves, over an annotation.
LEMMA CatchKeeps ==
  ASSUME IInv, NEW k \in DOMAIN annots, LoadInk(k), UNCHANGED <<doubled, inkStack, jobs, fresh>>,
         UNCHANGED text, ~At("added"),
         history' \in {history, <<drawing'>> \o history}, newer' \in {"ink", "text"},
         call' \in [at : Steps, n : Nat, then : {"idle", "hit"}], At("erasing")'
  PROVE  IInv'
<1>1. /\ k \in PageInk(annots) /\ annots' = RemoveAt(annots, k) /\ drawing' = annots[k].what
      /\ erasing' \in BOOLEAN /\ fresh' = fresh /\ doubled' = doubled /\ inkStack' = inkStack
  BY DEF LoadInk, PageInk
<1>2. /\ annots' \in Seq(Annots(fresh' - 1)) /\ Len(annots') <= fresh' - 1
      /\ Unique(annots') /\ Once(annots', doubled')
      /\ \A id : NoInk(annots, id) => NoInk(annots', id)
      /\ \A d, h : Pended(annots, doubled, d, h) => Pended(annots', doubled', d, h)
      /\ \A j \in DOMAIN inkStack : Recalls(annots', inkStack[j])
      /\ Apart(annots', doubled', annots[k].what) /\ annots[k].what \in Seq(1..fresh - 1)
  BY <1>1, TakenOff
<1>3. /\ drawing \in Seq(1..fresh - 1) /\ history \in Seq(Seq(1..fresh - 1))
      /\ Pended(annots, doubled, drawing, history) /\ inkStack \in Seq(Items(fresh - 1))
  BY InkStarts
<1>4. Pended(annots', doubled', drawing, history)
  BY <1>2, <1>3
<1>5. Apart(annots', doubled', drawing') /\ drawing' \in Seq(1..fresh - 1)
  BY <1>1, <1>2
<1>6. /\ history' \in Seq(Seq(1..fresh - 1))
      /\ Pended(annots', doubled', drawing', history')
  <2>1. CASE history' = history
    BY <1>3, <1>4, <1>5, <2>1 DEF Pended
  <2>2. CASE history' = <<drawing'>> \o history
    BY <1>3, <1>4, <1>5, <2>2, PastMoves
  <2> QED BY <2>1, <2>2
<1>7. InkSound'
  BY <1>1, <1>2, <1>6 DEF InkSound, Pending
<1>8. Midway'
  BY DEF Midway, At
<1>9. /\ drawing' \in Seq(1..fresh' - 1) /\ history' \in Seq(Seq(1..fresh' - 1))
      /\ inkStack' \in Seq(Items(fresh' - 1)) /\ jobs' = jobs
  BY <1>1, <1>3, <1>5, <1>6
<1> QED BY <1>1, <1>2, <1>7, <1>8, <1>9, InkKeeps

\* An erase starts, on nothing or on an annotation, or catches another.
LEMMA EraseKeeps ==
  ASSUME IInv, StartErase \/ EraserCatches, UNCHANGED doubled
  PROVE  IInv'
<1>1. /\ call \in [at : Steps, n : Nat, then : {"idle", "hit"}] /\ newer \in {"ink", "text"}
      /\ erasing \in BOOLEAN
  BY InkStarts
<1>2. CASE EraserCatches
  <2>1. /\ At("erasing") /\ call' = call /\ history' = history /\ newer' = newer
        /\ UNCHANGED <<doubled, inkStack, jobs, fresh>> /\ UNCHANGED text
        /\ \E k \in DOMAIN annots : LoadInk(k)
    BY <1>2 DEF EraserCatches
  <2>2. ~At("added") /\ At("erasing")'
    BY <2>1 DEF At
  <2> QED BY <1>1, <2>1, <2>2, CatchKeeps
<1>3. CASE StartErase
  <2>1. /\ At("hit") /\ history' = <<drawing'>> \o history /\ newer' = "ink" /\ Enter("erasing")
        /\ UNCHANGED <<doubled, inkStack, jobs, fresh>> /\ UNCHANGED text
        /\ UNCHANGED <<annots, drawing, erasing>> \/ \E k \in DOMAIN annots : LoadInk(k)
    BY <1>3 DEF StartErase
  <2>2. /\ ~At("added") /\ At("erasing")' /\ ~At("added")'
        /\ call' \in [at : Steps, n : Nat, then : {"idle", "hit"}]
    BY <2>1 DEF At, Enter, Steps
  <2>3. CASE \E k \in DOMAIN annots : LoadInk(k)
    BY <2>1, <2>2, <2>3, CatchKeeps
  <2>4. CASE UNCHANGED <<annots, drawing, erasing>>
    <3>1. /\ Types /\ drawing \in Seq(1..fresh - 1) /\ history \in Seq(Seq(1..fresh - 1))
          /\ Pended(annots, doubled, drawing, history)
      BY <2>2, InkStarts
    <3>2. Apart(annots, doubled, drawing)
      BY <3>1 DEF Pended
    <3>3. /\ history' \in Seq(Seq(1..fresh - 1))
          /\ Pended(annots, doubled, drawing', history')
      BY <2>1, <2>4, <3>1, <3>2, PastMoves
    <3>4. drawing' \in Seq(1..fresh' - 1) /\ history' \in Seq(Seq(1..fresh' - 1)) /\ fresh' = fresh
      BY <2>1, <2>4, <3>1, <3>3
    <3>5. Midway'
      BY <2>2 DEF Midway, At
    <3>6. UNCHANGED <<annots, inkStack, doubled, jobs>> /\ newer' \in {"ink", "text"}
          /\ erasing' \in BOOLEAN
      BY <1>1, <2>1, <2>4
    <3> QED BY <2>1, <2>2, <3>3, <3>4, <3>5, <3>6, QuietKeeps
  <2> QED BY <2>1, <2>3, <2>4
<1> QED BY <1>2, <1>3

\* The page when ink that is nowhere on it is added.
LEMMA InkAdded ==
  ASSUME IInv, CanAdd, fresh' = fresh + 1, NEW arcs \in Seq(1..fresh),
         Apart(annots, doubled, arcs), annots' = Append(annots, Annotation("ink", arcs))
  PROVE  /\ annots' \in Seq(Annots(fresh' - 1)) /\ Len(annots') = Len(annots) + 1
         /\ Len(annots') <= fresh' - 1 /\ Unique(annots') /\ Once(annots', doubled)
         /\ Len(annots') \in PageInk(annots') /\ annots'[Len(annots')].what = arcs
         /\ \A i \in PageInk(annots) : i \in PageInk(annots') /\ annots'[i].what = annots[i].what
         /\ \A d, dbl : Clear(annots, d, dbl) /\ Strokes(d) \cap Strokes(arcs) \subseteq dbl
                        => Clear(annots', d, dbl)
         /\ \A id \in 0..fresh - 1 : NoInk(annots, id) => NoInk(annots', id)
         /\ \A j \in DOMAIN inkStack : Recalls(annots', inkStack[j])
<1>1. /\ Types /\ Unique(annots) /\ Once(annots, doubled) /\ fresh - 1 \in Nat /\ fresh \in Nat
      /\ annots \in Seq(Annots(fresh - 1)) /\ inkStack \in Seq(Items(fresh - 1))
      /\ \A j \in DOMAIN inkStack : Recalls(annots, inkStack[j])
  BY InkStarts
<1>3. /\ annots' \in Seq(Annots(fresh' - 1)) /\ Len(annots') = Len(annots) + 1
      /\ Len(annots') <= fresh' - 1 /\ Unique(annots')
      /\ annots'[Len(annots')] = Annotation("ink", arcs)
      /\ \A i \in 1..Len(annots) : annots'[i] = annots[i]
      /\ PageInk(annots') = PageInk(annots) \cup {Len(annots')}
      /\ \A dbl : Once(annots, dbl) /\ IsInjective(arcs) /\ Clear(annots, arcs, dbl)
                  => Once(annots', dbl)
      /\ \A d, dbl : Clear(annots, d, dbl) /\ Strokes(d) \cap Strokes(arcs) \subseteq dbl
                     => Clear(annots', d, dbl)
      /\ \A id : NoInk(annots, id) /\ fresh # id => NoInk(annots', id)
      /\ \A item : Recalls(annots, item) /\ item.id # fresh => Recalls(annots', item)
  BY <1>1, PageAppends
<1>4. Once(annots', doubled)
  BY <1>1, <1>3 DEF Apart
<1>5. \A id \in 0..fresh - 1 : id # fresh
  BY <1>1
<1>6. \A j \in DOMAIN inkStack : inkStack[j].id \in 0..fresh - 1
  <2>1. \A item \in Items(fresh - 1) : item.id \in 0..fresh - 1
    BY <1>1 DEF Items
  <2> QED BY <1>1, <2>1
<1>7. \A j \in DOMAIN inkStack : Recalls(annots', inkStack[j])
  BY <1>1, <1>3, <1>5, <1>6
<1>8. \A i \in PageInk(annots) : i \in PageInk(annots') /\ annots'[i].what = annots[i].what
  BY <1>1, <1>3 DEF PageInk
<1>9. annots'[Len(annots')].what = arcs
  BY <1>3 DEF Annotation
<1> QED BY <1>3, <1>4, <1>5, <1>7, <1>8, <1>9

\* The strokes pending are numbers drawn so far.
LEMMA DrawingWider ==
  ASSUME IInv
  PROVE  drawing \in Seq(1..fresh - 1) /\ drawing \in Seq(1..fresh) /\ fresh \in Nat
<1>1. Types /\ drawing \in Seq(1..fresh - 1) /\ fresh \in Nat /\ fresh - 1 \in Nat
  BY InkStarts
<1> QED BY <1>1, Wider

\* The next number is not one of a stroke yet.
LEMMA FreshIsNew ==
  ASSUME Types, NEW d \in Seq(1..fresh - 1)
  PROVE  fresh \notin Strokes(d)
<1>1. fresh \in Nat
  BY Bounds DEF Types
<1> DEFINE S == 1..fresh - 1
<1>2. fresh \notin S /\ d \in Seq(S)
  BY <1>1
<1> HIDE DEF S
<1>3. \A i \in 1..Len(d) : d[i] \in S
  BY <1>2
<1> QED BY <1>2, <1>3, StrokesAre

\* What a commit that fails has written is apart from what is on the page, as what
\* is pending is.
LEMMA WrittenIs ==
  ASSUME IInv, At("counted"), NEW strokes \in Written
  PROVE  /\ Apart(annots, doubled, strokes) /\ strokes \in Seq(1..fresh)
         /\ Strokes(strokes) \subseteq Strokes(drawing) \cup {fresh}
<1>1. /\ Types /\ drawing \in Seq(1..fresh - 1) /\ drawing \in Seq(1..fresh)
      /\ Apart(annots, doubled, drawing) /\ fresh \in Nat /\ fresh - 1 \in Nat
      /\ annots \in Seq(Annots(fresh - 1)) /\ fresh \in 1..fresh
  BY InkStarts, DrawingWider DEF At, Pended
<1>2. \A k \in 1..Len(drawing) : drawing[k] \in 1..fresh - 1
  BY <1>1
<1>3. \A i \in PageInk(annots) : fresh \notin Strokes(annots[i].what)
  <2>1. ASSUME NEW i \in PageInk(annots) PROVE annots[i].what \in Seq(1..fresh - 1)
    BY <1>1, AnnotIs DEF PageInk
  <2> QED BY <1>1, <2>1, FreshIsNew
<1>4. ASSUME NEW n \in 0..Len(drawing), NEW s, s \in Seq(1..fresh), Len(s) \in {n, n + 1},
             \A k \in 1..n : s[k] = drawing[k], Len(s) = n + 1 => s[n + 1] = fresh
      PROVE  /\ Apart(annots, doubled, s) /\ Strokes(s) \subseteq Strokes(drawing) \cup {fresh}
  <2>1. Strokes(s) \subseteq Strokes(drawing) \cup {fresh}
    <3>1. ASSUME NEW x \in Strokes(s) PROVE x \in Strokes(drawing) \cup {fresh}
      <4>1. PICK k \in 1..Len(s) : s[k] = x
        BY <1>4, StrokesAre
      <4>2. CASE k <= n
        BY <1>1, <1>4, <4>1, <4>2, StrokesAre
      <4>3. CASE k = n + 1
        BY <1>4, <4>1, <4>3
      <4> QED BY <1>4, <4>1, <4>2, <4>3
    <3> QED BY <3>1
  <2>2. Clear(annots, s, doubled)
    BY <1>1, <1>3, <2>1 DEF Apart, Clear
  <2>3. IsInjective(s)
    <3>1. \A k, m \in 1..Len(drawing) : drawing[k] = drawing[m] => k = m
      BY <1>1 DEF Apart, IsInjective
    <3>2. n \in Nat /\ 1..n \subseteq 1..Len(drawing) /\ 1..Len(s) \subseteq 1..n \cup {n + 1}
      BY <1>1, <1>4
    <3>3. \A k \in 1..n : s[k] = drawing[k] /\ s[k] # fresh
      BY <1>1, <1>2, <1>4, <3>2
    <3>4. ASSUME NEW k \in 1..Len(s), NEW m \in 1..Len(s), s[k] = s[m] PROVE k = m
      <4>1. CASE k \in 1..n /\ m \in 1..n
        BY <3>1, <3>2, <3>3, <3>4, <4>1
      <4>2. CASE k = n + 1 /\ m = n + 1
        BY <4>2
      <4>3. CASE k \in 1..n /\ m = n + 1
        BY <1>4, <3>2, <3>3, <3>4, <4>3
      <4>4. CASE k = n + 1 /\ m \in 1..n
        BY <1>4, <3>2, <3>3, <3>4, <4>4
      <4> QED BY <3>2, <4>1, <4>2, <4>3, <4>4
    <3>5. DOMAIN s = 1..Len(s)
      BY <1>4
    <3> QED BY <3>4, <3>5 DEF IsInjective
  <2> QED BY <2>1, <2>2, <2>3 DEF Apart
<1>5. ASSUME NEW n \in 0..Len(drawing)
      PROVE  /\ UpTo(n) \in Seq(1..fresh) /\ Len(UpTo(n)) = n
             /\ \A k \in 1..n : UpTo(n)[k] = drawing[k]
  <2>1. UpTo(n) = [k \in 1..n |-> drawing[k]]
    BY <1>1, <1>5 DEF UpTo
  <2>2. n \in Nat /\ \A k \in 1..n : k \in 1..Len(drawing) /\ drawing[k] \in 1..fresh
    BY <1>1, <1>2, <1>5
  <2>3. UpTo(n) \in Seq(1..fresh)
    BY <2>1, <2>2, IsASeq
  <2> QED BY <2>1, <2>2, <2>3
<1>6. ASSUME NEW n \in 0..Len(drawing), strokes = UpTo(n)
      PROVE  /\ Apart(annots, doubled, strokes) /\ strokes \in Seq(1..fresh)
             /\ Strokes(strokes) \subseteq Strokes(drawing) \cup {fresh}
  <2>1. /\ UpTo(n) \in Seq(1..fresh) /\ Len(UpTo(n)) = n /\ n # n + 1
        /\ \A k \in 1..n : UpTo(n)[k] = drawing[k]
    BY <1>5
  <2> QED BY <1>4, <1>6, <2>1
<1>7. ASSUME NEW n \in 0..(Len(drawing) - 1), strokes = Append(UpTo(n), fresh)
      PROVE  /\ Apart(annots, doubled, strokes) /\ strokes \in Seq(1..fresh)
             /\ Strokes(strokes) \subseteq Strokes(drawing) \cup {fresh}
  <2>1. n \in 0..Len(drawing)
    BY <1>1
  <2>2. /\ UpTo(n) \in Seq(1..fresh) /\ Len(UpTo(n)) = n
        /\ \A k \in 1..n : UpTo(n)[k] = drawing[k]
    BY <1>5, <2>1
  <2>3. /\ strokes \in Seq(1..fresh) /\ Len(strokes) = n + 1 /\ strokes[n + 1] = fresh
        /\ \A k \in 1..n : strokes[k] = drawing[k]
    BY <1>1, <1>7, <2>1, <2>2
  <2> QED BY <1>4, <2>1, <2>3
<1> QED BY <1>6, <1>7 DEF Written

\* The commit puts what is pending on the page.
LEMMA SaveAddKeeps == ASSUME IInv, SaveAdd, UNCHANGED doubled PROVE IInv'
<1>1. /\ At("counted") /\ CanAdd /\ annots' = Append(annots, Annotation("ink", drawing))
      /\ fresh' = fresh + 1 /\ call' = [call EXCEPT !.at = "added"] /\ UNCHANGED text
      /\ drawing' = drawing /\ history' = history /\ erasing' = erasing /\ inkStack' = inkStack
      /\ newer' = newer /\ jobs' = jobs
  BY DEF SaveAdd, ink
<1>2. /\ Types /\ drawing \in Seq(1..fresh - 1) /\ Apart(annots, doubled, drawing)
      /\ call \in [at : Steps, n : Nat, then : {"idle", "hit"}] /\ erasing \in BOOLEAN
      /\ newer \in {"ink", "text"} /\ Len(annots) \in Nat /\ Midway
  BY <1>1, InkStarts DEF At, Pended
<1>3. /\ annots' \in Seq(Annots(fresh' - 1)) /\ Len(annots') = Len(annots) + 1
      /\ Len(annots') <= fresh' - 1 /\ Unique(annots') /\ Once(annots', doubled)
      /\ Len(annots') \in PageInk(annots') /\ annots'[Len(annots')].what = drawing
      /\ \A id \in 0..fresh - 1 : NoInk(annots, id) => NoInk(annots', id)
      /\ \A j \in DOMAIN inkStack : Recalls(annots', inkStack[j])
  BY <1>1, <1>2, DrawingWider, InkAdded
<1>4. /\ drawing \in Seq(1..fresh' - 1) /\ history \in Seq(Seq(1..fresh' - 1))
      /\ inkStack \in Seq(Items(fresh' - 1))
  BY <1>1, <1>2, TypesWider
<1>5. /\ call' \in [at : Steps, n : Nat, then : {"idle", "hit"}]
      /\ call'.at = "added" /\ call'.n = call.n
  BY <1>1, <1>2 DEF Steps
<1>6. InkSound'
  BY <1>1, <1>3, <1>5 DEF InkSound, At
<1>7. call'.n < Len(annots')
  <2>1. call.n \in Nat /\ call.n <= Len(annots)
    BY <1>1, <1>2 DEF Midway
  <2> QED BY <1>2, <1>3, <1>5, <2>1
<1>8. Midway'
  BY <1>1, <1>3, <1>5, <1>7 DEF Midway, At
<1> QED BY <1>1, <1>2, <1>3, <1>4, <1>5, <1>6, <1>8, InkKeeps

\* The commit fails: what is pending stays so, and what it left on the page is
\* from then on in two places.
LEMMA SaveThrowsKeeps == ASSUME IInv, SaveThrows PROVE IInv'
<1>1. /\ At("counted") /\ Enter(call.then) /\ UNCHANGED text
      /\ drawing' = drawing /\ history' = history /\ erasing' = erasing /\ inkStack' = inkStack
      /\ newer' = newer /\ jobs' = jobs
      /\ \/ UNCHANGED <<annots, fresh, doubled>>
         \/ \E strokes \in Written : Leave(strokes)
  BY DEF SaveThrows, ink
<1>2. /\ Types /\ drawing \in Seq(1..fresh - 1) /\ history \in Seq(Seq(1..fresh - 1))
      /\ Pended(annots, doubled, drawing, history)
      /\ call \in [at : Steps, n : Nat, then : {"idle", "hit"}] /\ erasing \in BOOLEAN
      /\ newer \in {"ink", "text"}
  BY <1>1, InkStarts DEF At
<1>3. /\ call' \in [at : Steps, n : Nat, then : {"idle", "hit"}]
      /\ call'.at \in {"idle", "hit"}
  BY <1>1, <1>2 DEF Enter, Steps
<1>4. Midway'
  BY <1>3 DEF Midway, At
<1>5. CASE UNCHANGED <<annots, fresh, doubled>>
  BY <1>1, <1>2, <1>3, <1>4, <1>5, QuietKeeps
<1>6. ASSUME NEW strokes \in Written, Leave(strokes) PROVE IInv'
  <2>1. /\ CanAdd /\ fresh' = fresh + 1 /\ annots' = Append(annots, Annotation("ink", strokes))
        /\ doubled' = doubled \cup (Strokes(strokes) \cap Strokes(drawing))
    BY <1>6 DEF Leave
  <2>2. /\ Apart(annots, doubled, strokes) /\ strokes \in Seq(1..fresh)
        /\ Strokes(strokes) \subseteq Strokes(drawing) \cup {fresh}
    BY <1>1, WrittenIs
  <2>3. /\ annots' \in Seq(Annots(fresh' - 1)) /\ Len(annots') <= fresh' - 1
        /\ Unique(annots') /\ Once(annots', doubled)
        /\ \A d, dbl : Clear(annots, d, dbl) /\ Strokes(d) \cap Strokes(strokes) \subseteq dbl
                       => Clear(annots', d, dbl)
        /\ \A id \in 0..fresh - 1 : NoInk(annots, id) => NoInk(annots', id)
        /\ \A j \in DOMAIN inkStack : Recalls(annots', inkStack[j])
    BY <2>1, <2>2, InkAdded
  <2>4. Once(annots', doubled')
    BY <2>1, <2>3 DEF Once
  <2>5. \A d \in Seq(1..fresh - 1) : Apart(annots, doubled, d) => Apart(annots', doubled', d)
    <3>1. \A d : Clear(annots, d, doubled) => Clear(annots, d, doubled')
      BY <2>1 DEF Clear
    <3>2. \A d \in Seq(1..fresh - 1) : Strokes(d) \cap Strokes(strokes) \subseteq doubled'
      <4>1. \A d \in Seq(1..fresh - 1) : fresh \notin Strokes(d)
        BY <1>2, FreshIsNew
      <4> QED BY <2>1, <2>2, <4>1
    <3> QED BY <2>3, <3>1, <3>2 DEF Apart
  <2>6. Pended(annots', doubled', drawing', history')
    BY <1>1, <1>2, <2>5 DEF Pended
  <2>7. InkSound'
    BY <1>1, <2>3, <2>4, <2>6 DEF InkSound, Pending
  <2>8. /\ drawing \in Seq(1..fresh' - 1) /\ history \in Seq(Seq(1..fresh' - 1))
        /\ inkStack \in Seq(Items(fresh' - 1))
    BY <1>2, <2>1, TypesWider
  <2> QED BY <1>1, <1>2, <1>3, <1>4, <2>1, <2>3, <2>7, <2>8, InkKeeps
<1> QED BY <1>1, <1>5, <1>6

\* What the undo remembers of the commit is what it put on the page.
LEMMA AcceptedIs ==
  ASSUME IInv, At("added")
  PROVE  LET i == PushSignature(drawing) IN
         /\ i \in PageInk(annots) /\ i # 0 /\ annots[i].what = drawing
<1> DEFINE inks == {i \in DOMAIN annots : annots[i].kind = "ink"}
           same == {i \in inks : annots[i].what = drawing}
<1>1. Types /\ \E m \in PageInk(annots) : annots[m].what = drawing
  BY DEF IInv, Midway
<1>2. same # {} /\ same \in SUBSET (1..Len(annots)) /\ Len(annots) \in Nat
  BY <1>1, InkStarts DEF PageInk, Types
<1>3. Max(same) \in same
  <2> HIDE DEF same
  <2>1. same \in SUBSET Int /\ Len(annots) \in Int /\ \A x \in same : x <= Len(annots)
    BY <1>2
  <2>2. same # {}
    BY <1>2
  <2> QED BY <2>1, <2>2, MaxIs
<1>4. PushSignature(drawing) = Max(same)
  BY <1>2 DEF PushSignature
<1> HIDE DEF same
<1>5. Max(same) # 0
  BY <1>2, <1>3
<1> QED BY <1>3, <1>4, <1>5 DEF same, PageInk

\* The commit is accepted, and can be undone.
LEMMA SaveAcceptKeeps ==
  ASSUME IInv, SaveAccept, UNCHANGED doubled
  PROVE  IInv' /\ \E i \in PageInk(annots) : annots[i].what = drawing
<1> DEFINE n == fresh - 1
<1>1. /\ Types /\ Unique(annots) /\ Once(annots, doubled) /\ n \in Nat
      /\ annots \in Seq(Annots(n)) /\ Len(annots) <= n /\ Len(annots) \in Nat
      /\ inkStack \in Seq(Items(n)) /\ drawing \in Seq(1..n)
      /\ \A j \in DOMAIN inkStack : Recalls(annots, inkStack[j])
      /\ call \in [at : Steps, n : Nat, then : {"idle", "hit"}] /\ erasing \in BOOLEAN /\ Midway
  BY InkStarts
<1>2. At("added") /\ Len(annots) > call.n
  <2>1. At("added")
    BY DEF SaveAccept
  <2>2. call.n < Len(annots) /\ call.n \in Nat
    BY <1>1, <2>1 DEF Midway
  <2> QED BY <1>1, <2>1, <2>2
<1>3. /\ CancelDrawing /\ PushSnapshot(drawing) /\ newer' = "ink" /\ Enter(call.then)
      /\ annots' = annots /\ erasing' = erasing /\ UNCHANGED text /\ jobs' = jobs
      /\ fresh' = fresh
  BY <1>2 DEF SaveAccept
<1> DEFINE i == PushSignature(drawing)
           item == [index |-> i, id |-> annots[i].id, arcs |-> annots[i].what, made |-> drawing]
<1>4. i \in PageInk(annots) /\ i # 0 /\ annots[i].what = drawing
  BY <1>2, AcceptedIs
<1>5. inkStack' = <<item>> \o inkStack
  BY <1>3, <1>4 DEF PushSnapshot
<1> HIDE DEF i
<1>6. item \in Items(n) /\ item.arcs = item.made /\ item.id = annots[i].id /\ item.arcs = annots[i].what
  <2>1. annots[i].id \in 1..n /\ i \in 1..n
    <3>1. annots[i] \in Annots(n) /\ i \in 1..Len(annots)
      BY <1>1, <1>4, InkIs DEF PageInk
    <3>2. annots[i].id \in 1..n
      BY <1>1, <3>1, AnnotIs
    <3> QED BY <1>1, <3>1, <3>2
  <2> QED BY <1>1, <1>4, <2>1 DEF Items
<1> HIDE DEF item
<1>7. Recalls(annots, item)
  BY <1>1, <1>4, <1>6 DEF Recalls, Unique, PageInk
<1>8. inkStack' \in Seq(Items(n)) /\ \A j \in DOMAIN inkStack' : Recalls(annots, inkStack'[j])
  <2> DEFINE good == {t \in Items(n) : Recalls(annots, t)}
             new == <<item>> \o inkStack
  <2>1. item \in good /\ \A j \in DOMAIN inkStack : inkStack[j] \in good
    BY <1>1, <1>6, <1>7
  <2>2. new \in Seq(Items(n))
    BY <1>1, <1>6, FrontIs
  <2> HIDE DEF good
  <2>3. \A j \in DOMAIN new : new[j] \in good
    BY <1>1, <1>6, <2>1, FrontAll
  <2> HIDE DEF new
  <2>4. \A j \in DOMAIN new : Recalls(annots, new[j])
    BY <2>3 DEF good
  <2> QED BY <1>5, <2>2, <2>4 DEF new
<1>9. /\ drawing' \in Seq(1..n) /\ history' \in Seq(Seq(1..n))
      /\ Pended(annots, doubled, drawing', history')
  BY <1>3, CancelPends
<1>10. /\ call' \in [at : Steps, n : Nat, then : {"idle", "hit"}]
       /\ call'.at \in {"idle", "hit"}
  BY <1>1, <1>3 DEF Enter, Steps
<1>11. Midway'
  BY <1>10 DEF Midway, At
<1>12. InkSound'
  BY <1>1, <1>3, <1>8, <1>9 DEF InkSound, Pending
<1>13. IInv'
  BY <1>1, <1>3, <1>8, <1>9, <1>10, <1>11, <1>12, InkKeeps
<1> QED BY <1>4, <1>13

\* The annotation that the undo of ink chooses is of the strokes it recalls.
LEMMA MatchIs ==
  ASSUME IInv, inkStack # <<>>, FindMatchingIndex(Head(inkStack)) # 0
  PROVE  LET i == FindMatchingIndex(Head(inkStack)) IN
         i \in PageInk(annots) /\ i \in Nat /\ annots[i].what = Head(inkStack).made
<1> DEFINE item == Head(inkStack)
           i == FindMatchingIndex(item)
           matching == {k \in DOMAIN annots : Matches(annots[k], item)}
<1>1. Recalls(annots, item) /\ annots \in Seq(Annots(fresh - 1)) /\ Len(annots) \in Nat
  <2>1. /\ inkStack \in Seq(Items(fresh - 1)) /\ annots \in Seq(Annots(fresh - 1))
        /\ Len(annots) \in Nat /\ \A k \in DOMAIN inkStack : Recalls(annots, inkStack[k])
    BY InkStarts
  <2>2. item = inkStack[1] /\ 1 \in DOMAIN inkStack
    BY <2>1, TailIs
  <2> QED BY <2>1, <2>2
<1>2. matching \in SUBSET (1..Len(annots))
  BY <1>1
<1>3. i \in matching
  <2>1. CASE item.index \in matching
    BY <2>1 DEF FindMatchingIndex
  <2>2. CASE item.index \notin matching /\ matching # {}
    <3>1. i = Max(matching)
      BY <2>2 DEF FindMatchingIndex
    <3> HIDE DEF matching
    <3>2. matching \in SUBSET Int /\ Len(annots) \in Int /\ \A x \in matching : x <= Len(annots)
      BY <1>1, <1>2
    <3>3. matching # {}
      BY <2>2
    <3>4. Max(matching) \in matching
      BY <3>2, <3>3, MaxIs
    <3> QED BY <3>1, <3>4
  <2>3. CASE item.index \notin matching /\ matching = {}
    BY <2>3 DEF FindMatchingIndex
  <2> QED BY <2>1, <2>2, <2>3
<1> HIDE DEF i
<1>4. i \in DOMAIN annots /\ annots[i].kind = "ink"
      /\ (annots[i].id = item.id \/ annots[i].what = item.arcs)
  BY <1>3 DEF Matches
<1>5. annots[i].what = item.made
  BY <1>1, <1>4 DEF Recalls, PageInk
<1> QED BY <1>1, <1>4, <1>5 DEF PageInk, i

\* An undo of ink finds its annotation.
LEMMA UndoInkKeeps == ASSUME IInv, UndoInk, UNCHANGED doubled PROVE IInv'
<1> DEFINE i == FindMatchingIndex(Head(inkStack))
<1>1. /\ At("idle") /\ inkStack # <<>> /\ i # 0
      /\ call' = [at |-> "matched", n |-> i, then |-> "idle"]
      /\ UNCHANGED <<annots, inkStack, doubled, jobs>> /\ UNCHANGED text
      /\ drawing' = drawing /\ history' = history /\ erasing' = erasing /\ newer' = newer
      /\ fresh' = fresh
  BY DEF UndoInk, ink
<1>2. i \in PageInk(annots) /\ i \in Nat /\ annots[i].what = Head(inkStack).made
  BY <1>1, MatchIs
<1> HIDE DEF i
<1>3. /\ drawing \in Seq(1..fresh - 1) /\ history \in Seq(Seq(1..fresh - 1))
      /\ Pended(annots, doubled, drawing, history) /\ erasing \in BOOLEAN
      /\ newer \in {"ink", "text"}
  BY <1>1, InkStarts DEF At
<1>4. call' \in [at : Steps, n : Nat, then : {"idle", "hit"}] /\ call'.at = "matched" /\ call'.n = i
  BY <1>1, <1>2 DEF Steps
<1>5. Midway'
  BY <1>1, <1>2, <1>4 DEF Midway, At
<1> QED BY <1>1, <1>3, <1>4, <1>5, QuietKeeps

\* It takes off the page the strokes that the commit put there.
LEMMA UndoInkDeleteKeeps ==
  ASSUME IInv, UndoInkDelete, UNCHANGED doubled
  PROVE  /\ IInv'
         /\ \E i \in DOMAIN annots : /\ annots[i].kind = "ink" /\ annots[i].what = Head(inkStack).made
                                     /\ annots' = RemoveAt(annots, i)
<1>1. /\ At("matched") /\ inkStack' = Tail(inkStack) /\ newer' = "ink" /\ Enter("idle")
      /\ annots' = (IF call.n <= Len(annots) THEN RemoveAt(annots, call.n) ELSE annots)
      /\ drawing' = drawing /\ history' = history /\ erasing' = erasing /\ UNCHANGED text
      /\ jobs' = jobs /\ fresh' = fresh
  BY DEF UndoInkDelete
<1>2. /\ inkStack # <<>> /\ call.n \in PageInk(annots)
      /\ annots[call.n].what = Head(inkStack).made
      /\ drawing \in Seq(1..fresh - 1) /\ history \in Seq(Seq(1..fresh - 1))
      /\ Pended(annots, doubled, drawing, history) /\ erasing \in BOOLEAN
      /\ inkStack \in Seq(Items(fresh - 1)) /\ annots \in Seq(Annots(fresh - 1))
  BY <1>1, InkStarts DEF At, Midway
<1>3. annots' = RemoveAt(annots, call.n)
  BY <1>1, <1>2 DEF PageInk
<1>4. /\ annots' \in Seq(Annots(fresh' - 1)) /\ Len(annots') <= fresh' - 1
      /\ Unique(annots') /\ Once(annots', doubled')
      /\ \A id : NoInk(annots, id) => NoInk(annots', id)
      /\ \A d, h : Pended(annots, doubled, d, h) => Pended(annots', doubled', d, h)
      /\ \A j \in DOMAIN inkStack : Recalls(annots', inkStack[j])
  BY <1>1, <1>2, <1>3, TakenOff
<1>5. /\ inkStack' \in Seq(Items(fresh - 1))
      /\ \A j \in DOMAIN inkStack' : j + 1 \in DOMAIN inkStack /\ inkStack'[j] = inkStack[j + 1]
  BY <1>1, <1>2, TailIs
<1>6. \A j \in DOMAIN inkStack' : Recalls(annots', inkStack'[j])
  BY <1>4, <1>5
<1>7. InkSound'
  BY <1>1, <1>2, <1>4, <1>6 DEF InkSound, Pending
<1>8. call' \in [at : Steps, n : Nat, then : {"idle", "hit"}] /\ Midway'
  BY <1>1 DEF Enter, Steps, Midway, At
<1>9. IInv'
  BY <1>1, <1>2, <1>4, <1>5, <1>7, <1>8, InkKeeps
<1> QED BY <1>2, <1>3, <1>9 DEF PageInk

-----------------------------------------------------------------------------
(* The theorems *)

\* The file is sound, and nothing has happened yet.
LEMMA InitOK == Init => IInv
<1> SUFFICES ASSUME Init PROVE IInv
  OBVIOUS
<1>1. /\ FileNumbers \in Nat /\ MaxFresh \in Nat /\ FileNumbers <= MaxFresh
      /\ FileAnnots \in Seq(Annots(FileNumbers)) /\ Len(FileAnnots) <= FileNumbers
      /\ Unique(FileAnnots)
  BY Bounds, FileAssumption DEF Unique
<1>2. fresh \in 1..MaxFresh + 1 /\ fresh - 1 = FileNumbers
  BY <1>1 DEF Init
<1>3. Types
  <2>1. drawing \in Seq(1..fresh - 1) /\ history \in Seq(Seq(1..fresh - 1))
    BY DEF Init
  <2>2. /\ inkStack \in Seq(Items(fresh - 1)) /\ undoStack \in Seq(Ops(fresh - 1))
        /\ redoStack \in Seq(Ops(fresh - 1))
    BY DEF Init
  <2>3. jobs \in [Jobs -> JobStates(fresh - 1)]
    BY DEF Init, JobStates
  <2>4. call \in [at : Steps, n : Nat, then : {"idle", "hit"}] /\ erasing \in BOOLEAN
        /\ newer \in {"ink", "text"}
    BY DEF Init, Steps
  <2>5. annots \in Seq(Annots(fresh - 1)) /\ Len(annots) <= fresh - 1
    BY <1>1, <1>2 DEF Init
  <2> QED BY <1>2, <2>1, <2>2, <2>3, <2>4, <2>5 DEF Types
<1>4. InkSound
  <2>1. Once(FileAnnots, {})
    BY FileAssumption DEF Once
  <2>2. Pended(FileAnnots, {}, <<>>, <<>>)
    BY NothingApart DEF Pended
  <2> QED BY <1>1, <2>1, <2>2 DEF Init, InkSound, Pending
<1>5. Midway
  BY DEF Init, Midway, At
<1>6. TextSound
  BY DEF Init, TextSound, OpsOK, JobOK, NoJob
<1> QED BY <1>3, <1>4, <1>5, <1>6 DEF IInv

\* The strokes that were on the page or pending are on the page or pending.
NoneLost == Strokes(drawing) \cup OnPage \subseteq (Strokes(drawing) \cup OnPage)'

\* It is enough that what is on the page stays, and that what is pending stays or
\* is on the page.
LEMMA NoneLostIf ==
  ASSUME Retains(annots, annots'),
         drawing' = drawing \/ \E i \in PageInk(annots) : annots[i].what = drawing
  PROVE  NoneLost
<1>1. OnPage \subseteq OnPage'
  BY DEF OnPage, Retains
<1>2. CASE drawing' = drawing
  BY <1>1, <1>2 DEF NoneLost
<1>3. CASE \E i \in PageInk(annots) : annots[i].what = drawing
  <2>1. Strokes(drawing) \subseteq OnPage
    BY <1>3 DEF OnPage
  <2> QED BY <1>1, <2>1 DEF NoneLost
<1> QED BY <1>2, <1>3

\* An eraser that comes down has what it takes off the page.
LEMMA EraseLosesNone == ASSUME IInv, StartErase PROVE NoneLost
<1>1. annots \in Seq(Annots(fresh - 1)) /\ Unique(annots) /\ fresh - 1 \in Nat
  BY InkStarts
<1>2. CASE UNCHANGED <<annots, drawing>>
  <2>1. Retains(annots, annots')
    BY <1>2 DEF Retains
  <2> QED BY <1>2, <2>1, NoneLostIf
<1>3. ASSUME NEW k \in DOMAIN annots, LoadInk(k) PROVE NoneLost
  <2>1. drawing = <<>> /\ drawing' = annots[k].what /\ annots' = RemoveAt(annots, k)
    BY <1>3 DEF LoadInk
  <2>2. \A j \in DOMAIN annots : j # k => \E i \in DOMAIN annots' : annots'[i] = annots[j]
    <3>1. k \in 1..Len(annots)
      BY <1>1
    <3> QED BY <1>1, <2>1, <3>1, RemovedOK
  <2>3. Strokes(drawing) = {}
    BY <2>1 DEF Strokes, ToSet
  <2>4. ASSUME NEW j \in PageInk(annots), NEW x \in Strokes(annots[j].what)
        PROVE  x \in Strokes(drawing') \cup OnPage'
    <3>1. CASE j = k
      BY <2>1, <2>4, <3>1
    <3>2. CASE j # k
      <4>1. PICK i \in DOMAIN annots' : annots'[i] = annots[j]
        BY <2>2, <3>2 DEF PageInk
      <4>2. i \in PageInk(annots')
        BY <4>1 DEF PageInk
      <4> QED BY <2>4, <4>1, <4>2 DEF OnPage
    <3> QED BY <3>1, <3>2
  <2>5. OnPage \subseteq Strokes(drawing') \cup OnPage'
    BY <2>4 DEF OnPage
  <2> QED BY <2>3, <2>5 DEF NoneLost
<1> QED BY <1>2, <1>3 DEF StartErase

\* What no step of a commit, of an erase that begins, of text or of a job does;
\* and what an undo of ink does.
Keeps ==
    (call.at \in {"counted", "added", "hit"} \/ text' # text \/ jobs' # jobs) => NoneLost
UndoesExactly ==
    At("matched") /\ inkStack' # inkStack =>
        \E i \in DOMAIN annots : /\ annots[i].kind = "ink" /\ annots[i].what = Head(inkStack).made
                                /\ annots' = RemoveAt(annots, i)

\* Every step keeps the invariant, and loses no stroke it must not.
LEMMA StepOK == ASSUME IInv, Next PROVE IInv' /\ Keeps /\ UndoesExactly
<1>1. CASE SaveThrows
  <2>1. /\ At("counted") /\ drawing' = drawing /\ inkStack' = inkStack
        /\ UNCHANGED <<annots, fresh, doubled>> \/ \E strokes \in Written : Leave(strokes)
    BY <1>1 DEF SaveThrows, ink
  <2>2. Retains(annots, annots')
    <3>1. CASE annots' = annots
      BY <3>1 DEF Retains
    <3>2. ASSUME NEW strokes \in Written, Leave(strokes) PROVE Retains(annots, annots')
      <4>1. CanAdd /\ fresh' = fresh + 1 /\ annots' = Append(annots, Annotation("ink", strokes))
        BY <3>2 DEF Leave
      <4>2. Apart(annots, doubled, strokes) /\ strokes \in Seq(1..fresh)
        BY <2>1, WrittenIs
      <4>3. \A i \in PageInk(annots) : i \in PageInk(annots') /\ annots'[i].what = annots[i].what
        BY <4>1, <4>2, InkAdded
      <4> QED BY <4>3 DEF Retains
    <3> QED BY <2>1, <3>1, <3>2
  <2>3. NoneLost
    BY <2>1, <2>2, NoneLostIf
  <2> QED BY <1>1, <2>1, <2>3, SaveThrowsKeeps DEF Keeps, UndoesExactly
<1>2. ASSUME UNCHANGED doubled, TextStep PROVE IInv' /\ Keeps /\ UndoesExactly
  <2>1. IInv' /\ Retains(annots, annots') /\ drawing' = drawing
    BY <1>2, TextStepKeeps
  <2>2. inkStack' = inkStack
    BY <1>2 DEF TextStep, Restyle, RemoveText, UndoText, RedoText, ink
  <2> QED BY <2>1, <2>2, NoneLostIf DEF Keeps, UndoesExactly
<1>3. ASSUME UNCHANGED doubled, NEW j \in Jobs, JobStep(j) PROVE IInv' /\ Keeps /\ UndoesExactly
  <2>1. IInv' /\ Retains(annots, annots') /\ drawing' = drawing
    BY <1>3, JobStepKeeps
  <2>2. inkStack' = inkStack
    BY <1>3 DEF JobStep, AddList, AddNative, AddFind, AddPush, ink
  <2> QED BY <2>1, <2>2, NoneLostIf DEF Keeps, UndoesExactly
<1>4. ASSUME UNCHANGED doubled, InkStep PROVE IInv' /\ Keeps /\ UndoesExactly
  <2>1. ASSUME UNCHANGED <<text, jobs>>, call.at \notin {"counted", "added", "hit"},
               inkStack' = inkStack \/ ~At("matched")
        PROVE  Keeps /\ UndoesExactly
    BY <2>1 DEF Keeps, UndoesExactly
  <2>2. CASE Draw
    <3>1. UNCHANGED <<text, jobs>> /\ At("idle")
      BY <2>2 DEF Draw
    <3> QED BY <1>4, <2>1, <2>2, <3>1, DrawKeeps DEF At
  <2>3. CASE CancelDraw \/ SaveDraw \/ BeginErase \/ FinishErase \/ UndoPending
    <3>1. UNCHANGED <<text, jobs>> /\ (At("idle") \/ At("erasing"))
      BY <2>3 DEF CancelDraw, SaveDraw, BeginErase, FinishErase, UndoPending
    <3> QED BY <1>4, <2>1, <2>3, <3>1, PendingKeeps DEF At
  <2>4. CASE SaveAdd
    <3>1. /\ At("counted") /\ CanAdd /\ annots' = Append(annots, Annotation("ink", drawing))
          /\ fresh' = fresh + 1 /\ drawing' = drawing /\ inkStack' = inkStack
      BY <2>4 DEF SaveAdd, ink
    <3>2. drawing \in Seq(1..fresh - 1) /\ Apart(annots, doubled, drawing)
      BY <3>1, InkStarts DEF At, Pended
    <3>3. \A i \in PageInk(annots) : i \in PageInk(annots') /\ annots'[i].what = annots[i].what
      BY <3>1, <3>2, DrawingWider, InkAdded
    <3>4. NoneLost
      BY <3>1, <3>3, NoneLostIf DEF Retains
    <3> QED BY <1>4, <2>4, <3>1, <3>4, SaveAddKeeps DEF Keeps, UndoesExactly
  <2>5. CASE SaveAccept
    <3>1. IInv' /\ \E i \in PageInk(annots) : annots[i].what = drawing
      BY <1>4, <2>5, SaveAcceptKeeps
    <3>2. At("added") /\ annots' = annots
      BY <2>5 DEF SaveAccept
    <3>3. NoneLost
      BY <3>1, <3>2, NoneLostIf DEF Retains
    <3> QED BY <3>1, <3>2, <3>3 DEF Keeps, UndoesExactly, At
  <2>6. CASE StartErase
    <3>1. At("hit") /\ inkStack' = inkStack
      BY <2>6 DEF StartErase
    <3> QED BY <1>4, <2>6, <3>1, EraseKeeps, EraseLosesNone DEF Keeps, UndoesExactly
  <2>7. CASE EraserCatches
    <3>1. At("erasing") /\ UNCHANGED <<text, jobs>>
      BY <2>7 DEF EraserCatches
    <3> QED BY <1>4, <2>1, <2>7, <3>1, EraseKeeps DEF At
  <2>8. ASSUME NEW i \in DOMAIN drawing, EraserRubs(i) PROVE IInv' /\ Keeps /\ UndoesExactly
    <3>1. At("erasing") /\ UNCHANGED <<text, jobs>>
      BY <2>8 DEF EraserRubs
    <3> QED BY <1>4, <2>1, <2>8, <3>1, RubKeeps DEF At
  <2>9. CASE UndoInk
    <3>1. At("idle") /\ UNCHANGED <<text, jobs>>
      BY <2>9 DEF UndoInk
    <3> QED BY <1>4, <2>1, <2>9, <3>1, UndoInkKeeps DEF At
  <2>10. CASE UndoInkDelete
    <3>1. At("matched") /\ UNCHANGED <<text, jobs>>
      BY <2>10 DEF UndoInkDelete
    <3>2. call.at \notin {"counted", "added", "hit"}
      BY <3>1 DEF At
    <3> QED BY <1>4, <2>10, <3>1, <3>2, UndoInkDeleteKeeps DEF Keeps, UndoesExactly
  <2> QED BY <1>4, <2>2, <2>3, <2>4, <2>5, <2>6, <2>7, <2>8, <2>9, <2>10 DEF InkStep
<1> QED BY <1>1, <1>2, <1>3, <1>4 DEF Next

\* Nor does a step in which nothing happens.
LEMMA NextOK == IInv /\ [Next]_vars => IInv'
<1>1. CASE IInv /\ Next
  BY <1>1, StepOK
<1>2. CASE IInv /\ UNCHANGED vars
  <2>1. /\ annots' = annots /\ drawing' = drawing /\ history' = history /\ erasing' = erasing
        /\ inkStack' = inkStack /\ undoStack' = undoStack /\ redoStack' = redoStack
        /\ newer' = newer /\ jobs' = jobs /\ call' = call /\ fresh' = fresh /\ doubled' = doubled
    BY <1>2 DEF vars, ink, text
  <2>2. Types' /\ Midway'
    BY <1>2, <2>1 DEF IInv, Types, Midway, At
  <2>3. InkSound' /\ TextSound'
    BY <1>2, <2>1 DEF IInv, InkSound, Pending, Pended, Apart, Clear, TextSound, At
  <2> QED BY <2>2, <2>3 DEF IInv
<1> QED BY <1>1, <1>2

\* The invariant of drawing, erasing, writing and undo on a page.
THEOREM Invariance == Spec => []IInv
  BY InitOK, NextOK, PTL DEF Spec

\* Every variable has its shape, whatever the file holds: no number is drawn
\* twice, and a text's history has a number exactly where its text is there.
THEOREM TypeCorrect == Spec => []TypeOK
<1>1. IInv => TypeOK
  <2> SUFFICES ASSUME IInv PROVE TypeOK
    OBVIOUS
  <2> DEFINE n == fresh - 1
  <2>1. /\ Types /\ n \in Nat /\ MaxFresh \in Nat /\ n <= MaxFresh /\ Unique(annots) /\ TextSound
    BY Bounds DEF IInv, Types, InkSound
  <2>2. /\ annots \in Seq(Annots(n)) /\ drawing \in Seq(1..n) /\ history \in Seq(Seq(1..n))
        /\ inkStack \in Seq(Items(n)) /\ undoStack \in Seq(Ops(n)) /\ redoStack \in Seq(Ops(n))
    BY <2>1 DEF Types
  <2> HIDE DEF n
  <2>3. /\ annots \in Seq(Annots(MaxFresh)) /\ drawing \in Seq(1..MaxFresh)
        /\ history \in Seq(Seq(1..MaxFresh)) /\ inkStack \in Seq(Items(MaxFresh))
        /\ undoStack \in Seq(Ops(MaxFresh)) /\ redoStack \in Seq(Ops(MaxFresh))
    BY <2>1, <2>2, Wider
  <2>4. \A op \in ToSet(undoStack) \cup ToSet(redoStack) : op.present = (op.id # 0)
    BY <2>1 DEF TextSound, OpsOK, OpOK, ToSet
  <2>5. /\ call.at \in {"idle", "counted", "added", "hit", "erasing", "matched"}
        /\ erasing \in BOOLEAN /\ newer \in {"ink", "text"}
    BY <2>1 DEF Types, Steps
  <2>6. \A i, j \in DOMAIN annots : annots[i].id = annots[j].id => i = j
    BY <2>1 DEF Unique
  <2> QED BY <2>3, <2>4, <2>5, <2>6 DEF TypeOK
<1> QED BY <1>1, Invariance, PTL

\* No stroke is in two places, but those that a commit left on the page before
\* it failed.
THEOREM NoStrokeTwice == Spec => []StrokeInOnePlace
<1>1. IInv => StrokeInOnePlace
  <2> SUFFICES ASSUME IInv, ~At("added")
               PROVE  /\ Once(annots, doubled) /\ IsInjective(drawing)
                      /\ \A old \in {drawing} \cup ToSet(history) :
                            Strokes(old) \cap OnPage \subseteq doubled
    BY DEF StrokeInOnePlace, Once
  <2>1. Once(annots, doubled) /\ Pended(annots, doubled, drawing, history)
    BY InkStarts
  <2>2. IsInjective(drawing)
    BY <2>1 DEF Pended, Apart
  <2>3. ASSUME NEW old \in {drawing} \cup ToSet(history)
        PROVE  Strokes(old) \cap OnPage \subseteq doubled
    <3>1. Clear(annots, old, doubled)
      BY <2>1 DEF Pended, Apart, ToSet
    <3> QED BY <3>1 DEF Clear, OnPage
  <2> QED BY <2>1, <2>2, <2>3
<1> QED BY <1>1, Invariance, PTL

\* Only the eraser, cancel and undo make a stroke go.
THEOREM NoStrokeLost == Spec => StrokesKept
<1>1. IInv /\ [Next]_vars =>
        [(call.at \in {"counted", "added", "hit"} \/ text' # text \/ jobs' # jobs)
         => Strokes(drawing) \cup OnPage \subseteq (Strokes(drawing) \cup OnPage)']_vars
  BY StepOK DEF Keeps, NoneLost
<1> QED BY <1>1, Invariance, PTL DEF Spec, StrokesKept

\* An undo of ink takes off the page exactly what the commit it undoes put there.
THEOREM UndoTakesTheCommit == Spec => InkUndoExact
<1>1. IInv /\ [Next]_vars =>
        [At("matched") /\ inkStack' # inkStack =>
           \E i \in DOMAIN annots : /\ annots[i].kind = "ink" /\ annots[i].what = Head(inkStack).made
                                   /\ annots' = RemoveAt(annots, i)]_vars
  BY StepOK DEF UndoesExactly
<1> QED BY <1>1, Invariance, PTL DEF Spec, InkUndoExact

-----------------------------------------------------------------------------
(* The documents that operations lead to *)

\* The documents with texts of n numbers.
Docs(n) == SUBSET What(n)

\* An operation leads from a document to a document.
LEMMA RevertedType ==
  ASSUME NEW n, NEW D \in Docs(n), NEW op \in Ops(n)
  PROVE  Reverted(D, op) \in Docs(n)
  BY DEF Reverted, Docs, Ops

\* h is what ops lead to one after the other, from D.
Visits(D, ops, h) == h[0] = D /\ \A i \in 1..Len(ops) : h[i] = Reverted(h[i - 1], ops[i])

\* Whatever the operations, they lead somewhere.
LEMMA VisitsExist ==
  ASSUME NEW n, NEW D \in Docs(n), NEW ops \in Seq(Ops(n))
  PROVE  \E h \in [0..Len(ops) -> Docs(n)] :
            Visits(D, ops, h) /\ Along(D, ops) = [i \in 1..Len(ops) |-> h[i]]
<1> DEFINE L == Len(ops)
           g == [i \in 1..L |-> [E \in Docs(n) |-> Reverted(E, ops[i])]]
           step(f) == [i \in 0..L |-> IF i = 0 THEN D ELSE Reverted(f[i - 1], ops[i])]
           after == CHOOSE f : f = step(f)
<1>1. L \in Nat /\ DOMAIN ops = 1..L /\ \A i \in 1..L : ops[i] \in Ops(n)
  OBVIOUS
<1>2. Along(D, ops) = [i \in 1..L |-> after[i]]
  BY <1>1 DEF Along
<1> HIDE DEF L
<1>3. g \in [1..L -> [Docs(n) -> Docs(n)]]
  BY <1>1, RevertedType
<1>4. PICK f \in [0..L -> Docs(n)] : Iterates(f, L, D, g)
  BY <1>1, <1>3, Recursion
<1>5. f[0] = D /\ \A i \in 1..L : f[i] = Reverted(f[i - 1], ops[i])
  <2>1. ASSUME NEW i \in 1..L PROVE f[i] = Reverted(f[i - 1], ops[i])
    <3>1. i - 1 \in 0..L
      BY <1>1
    <3>2. f[i] = g[i][f[i - 1]] /\ f[i - 1] \in Docs(n)
      BY <1>4, <3>1 DEF Iterates
    <3> QED BY <3>2
  <2> QED BY <1>4, <2>1 DEF Iterates
<1>6. f = step(f)
  <2>1. ASSUME NEW i \in 0..L PROVE f[i] = step(f)[i]
    <3>1. CASE i = 0
      BY <1>5, <3>1
    <3>2. CASE i # 0
      <4>1. i \in 1..L
        BY <1>1, <3>2
      <4> QED BY <1>5, <4>1
    <3> QED BY <3>1, <3>2
  <2>2. DOMAIN step(f) = 0..L
    OBVIOUS
  <2> QED BY <1>4, <2>1, <2>2
<1>7. after = step(after)
  BY <1>6
<1> HIDE DEF after
<1>8. /\ after[0] = D
      /\ \A i \in 1..L : after[i] = Reverted(after[i - 1], ops[i])
  <2>1. 0 \in 0..L /\ \A i \in 1..L : i \in 0..L /\ i # 0
    BY <1>1
  <2> QED BY <1>7, <2>1
<1>9. \A i \in 0..L : after[i] \in Docs(n)
  <2> DEFINE T == {i \in 0..L : after[i] \in Docs(n)}
  <2>1. 0 \in T
    BY <1>1, <1>8
  <2>2. ASSUME NEW i \in 1..L, i - 1 \in T PROVE i \in T
    BY <1>1, <1>8, <2>2, RevertedType
  <2> HIDE DEF T
  <2>3. \A i \in 0..L : i \in T
    BY <1>1, <2>1, <2>2, Climb
  <2> QED BY <2>3 DEF T
<1>10. after \in [0..L -> Docs(n)]
  <2>1. DOMAIN step(after) = 0..L /\ step(after) = [i \in DOMAIN step(after) |-> step(after)[i]]
    OBVIOUS
  <2> HIDE DEF step
  <2>2. DOMAIN after = 0..L /\ after = [i \in DOMAIN after |-> after[i]]
    BY <1>7, <2>1
  <2> QED BY <1>9, <2>2
<1> QED BY <1>2, <1>8, <1>10 DEF Visits, L

\* They lead to one place.
LEMMA VisitsAgree ==
  ASSUME NEW D, NEW ops, Len(ops) \in Nat, NEW f, Visits(D, ops, f), NEW g, Visits(D, ops, g)
  PROVE  \A i \in 0..Len(ops) : f[i] = g[i]
<1> DEFINE T == {i \in 0..Len(ops) : f[i] = g[i]}
<1>1. 0 \in T
  BY DEF Visits
<1>2. ASSUME NEW i \in 1..Len(ops), i - 1 \in T PROVE i \in T
  BY <1>2 DEF Visits
<1> HIDE DEF T
<1>3. \A i \in 0..Len(ops) : i \in T
  BY <1>1, <1>2, Climb
<1> QED BY <1>3 DEF T

\* What Along computes.
LEMMA AlongIs ==
  ASSUME NEW n, NEW D \in Docs(n), NEW ops \in Seq(Ops(n)), NEW h, Visits(D, ops, h)
  PROVE  /\ Along(D, ops) \in Seq(Docs(n)) /\ Len(Along(D, ops)) = Len(ops)
         /\ \A i \in 1..Len(ops) : Along(D, ops)[i] = h[i]
<1>1. PICK g \in [0..Len(ops) -> Docs(n)] :
         Visits(D, ops, g) /\ Along(D, ops) = [i \in 1..Len(ops) |-> g[i]]
  BY VisitsExist
<1>2. Len(ops) \in Nat
  OBVIOUS
<1>3. \A i \in 0..Len(ops) : h[i] = g[i]
  BY <1>1, <1>2, VisitsAgree
<1>4. /\ Along(D, ops) \in Seq(Docs(n)) /\ Len(Along(D, ops)) = Len(ops)
      /\ \A i \in 1..Len(ops) : Along(D, ops)[i] = g[i]
  BY <1>1, <1>2
<1> QED BY <1>2, <1>3, <1>4

\* Along no operation there is nothing.
LEMMA AlongNothing == ASSUME NEW n, NEW D \in Docs(n) PROVE Along(D, <<>>) = <<>>
<1>1. <<>> \in Seq(Ops(n)) /\ Len(<<>>) = 0
  OBVIOUS
<1>2. Visits(D, <<>>, [i \in {0} |-> D])
  BY <1>1 DEF Visits
<1> QED BY <1>1, <1>2, AlongIs

\* Along the first operation, and then along the rest.
LEMMA AlongHead ==
  ASSUME NEW n, NEW D \in Docs(n), NEW ops \in Seq(Ops(n)), ops # <<>>
  PROVE  LET E == Reverted(D, Head(ops))
         IN  E \in Docs(n) /\ Along(D, ops) = <<E>> \o Along(E, Tail(ops))
<1> DEFINE E == Reverted(D, Head(ops))
           L == Len(ops)
<1>1. /\ Head(ops) \in Ops(n) /\ Head(ops) = ops[1] /\ Tail(ops) \in Seq(Ops(n))
      /\ Len(Tail(ops)) = L - 1 /\ L \in Nat \ {0} /\ ops \in Seq(Ops(n))
      /\ \A i \in 1..L - 1 : Tail(ops)[i] = ops[i + 1]
  BY TailIs
<1>2. E \in Docs(n)
  BY <1>1, RevertedType
<1>3. PICK f \in [0..L -> Docs(n)] : Visits(D, ops, f)
  BY VisitsExist
<1> DEFINE h == [i \in 0..L - 1 |-> f[i + 1]]
<1> HIDE DEF L
<1>4. f[0] = D /\ \A i \in 1..L : f[i] = Reverted(f[i - 1], ops[i])
  BY <1>3 DEF Visits, L
<1>5. f[1] = E
  <2>1. 1 \in 1..L /\ 1 - 1 = 0
    BY <1>1
  <2> QED BY <1>1, <1>4, <2>1
<1> HIDE DEF E
<1>6. ASSUME NEW i \in 1..L - 1 PROVE h[i] = Reverted(h[i - 1], Tail(ops)[i])
  <2>1. /\ i \in 0..L - 1 /\ i - 1 \in 0..L - 1 /\ i + 1 \in 1..L
        /\ (i + 1) - 1 = i /\ (i - 1) + 1 = i
    BY <1>1
  <2>2. h[i] = f[i + 1] /\ h[i - 1] = f[i]
    BY <2>1
  <2> HIDE DEF h
  <2>3. f[i + 1] = Reverted(f[i], ops[i + 1])
    BY <1>4, <2>1
  <2> QED BY <1>1, <2>2, <2>3
<1>7. h[0] = E
  BY <1>1, <1>5
<1>8. \A i \in 1..L - 1 : h[i] = f[i + 1]
  BY <1>1
<1> HIDE DEF h
<1>9. Visits(E, Tail(ops), h)
  BY <1>1, <1>6, <1>7 DEF Visits
<1> DEFINE a == Along(D, ops)
           b == Along(E, Tail(ops))
<1>10. a \in Seq(Docs(n)) /\ Len(a) = L /\ \A i \in 1..L : a[i] = f[i]
  BY <1>3, AlongIs DEF L
<1>11. b \in Seq(Docs(n)) /\ Len(b) = L - 1 /\ \A i \in 1..L - 1 : b[i] = h[i]
  <2> DEFINE rest == Tail(ops)
  <2>1. rest \in Seq(Ops(n)) /\ Visits(E, rest, h) /\ b = Along(E, rest)
    BY <1>1, <1>9
  <2> HIDE DEF rest, b
  <2>2. b \in Seq(Docs(n)) /\ Len(b) = Len(rest) /\ \A i \in 1..Len(rest) : b[i] = h[i]
    BY ONLY <1>2, <2>1, AlongIs
  <2> QED BY <1>1, <2>2 DEF rest
<1> HIDE DEF a, b
<1> DEFINE c == <<E>> \o b
<1>12. c \in Seq(Docs(n)) /\ Len(c) = L /\ c[1] = E /\ \A i \in 2..L : c[i] = b[i - 1]
  BY <1>1, <1>2, <1>11, FrontIs
<1> HIDE DEF c
<1>13. ASSUME NEW i \in 1..L PROVE a[i] = c[i]
  <2>1. CASE i = 1
    BY <1>1, <1>5, <1>10, <1>12, <2>1
  <2>2. CASE i # 1
    <3>1. i \in 2..L /\ i - 1 \in 1..L - 1 /\ (i - 1) + 1 = i
      BY <1>1, <2>2
    <3> QED BY <1>8, <1>10, <1>11, <1>12, <3>1
  <2> QED BY <2>1, <2>2
<1>14. a = c
  <2>1. Len(a) = Len(c) /\ \A i \in 1..Len(a) : a[i] = c[i]
    BY <1>10, <1>12, <1>13
  <2> QED BY <1>10, <1>12, <2>1, SeqEqual
<1> QED BY <1>2, <1>14 DEF a, b, c, E

-----------------------------------------------------------------------------
(* Chains of operations *)

\* op, reverted, leads from D to E, and had an effect.
Joins(D, op, E) ==
    \/ op.kind = "edit" /\ op.after \in D /\ op.before \notin D
       /\ E = (D \ {op.after}) \cup {op.before}
    \/ op.kind = "presence" /\ op.before = op.after /\ op.present
       /\ op.before \in D /\ E = D \ {op.before}
    \/ op.kind = "presence" /\ op.before = op.after /\ ~op.present
       /\ op.before \notin D /\ E = D \cup {op.before}

\* back does what op undoes.
Opposite(op, back) ==
    /\ back.kind = op.kind /\ back.before = op.after /\ back.after = op.before
    /\ op.kind = "presence" => (back.present <=> ~op.present)

\* Reverting is as Joins says.
LEMMA JoinsReverts ==
  ASSUME NEW D, NEW op, NEW E, Joins(D, op, E)
  PROVE  Reverted(D, op) = E
  BY DEF Joins, Reverted

\* The opposite operation leads back.
LEMMA JoinsBack ==
  ASSUME NEW D, NEW op, NEW E, Joins(D, op, E), NEW back, Opposite(op, back)
  PROVE  Joins(E, back, D)
<1>1. CASE op.kind = "edit" /\ op.after \in D /\ op.before \notin D
           /\ E = (D \ {op.after}) \cup {op.before}
  <2>1. back.after \in E /\ back.before \notin E /\ D = (E \ {back.after}) \cup {back.before}
    BY <1>1 DEF Opposite
  <2> QED BY <1>1, <2>1 DEF Joins, Opposite
<1>2. CASE op.kind = "presence" /\ op.before = op.after /\ op.present
           /\ op.before \in D /\ E = D \ {op.before}
  <2>1. back.before \notin E /\ D = E \cup {back.before}
    BY <1>2 DEF Opposite
  <2> QED BY <1>2, <2>1 DEF Joins, Opposite
<1>3. CASE op.kind = "presence" /\ op.before = op.after /\ ~op.present
           /\ op.before \notin D /\ E = D \cup {op.before}
  <2>1. back.before \in E /\ D = E \ {back.before}
    BY <1>3 DEF Opposite
  <2> QED BY <1>3, <2>1 DEF Joins, Opposite
<1> QED BY <1>1, <1>2, <1>3 DEF Joins

\* The operations lead from D through documents, each with an effect.
ChainBy(D, ops, d) == d[0] = D /\ \A i \in 1..Len(ops) : Joins(d[i - 1], ops[i], d[i])
Chain(D, ops) == \E d : ChainBy(D, ops, d)

\* No operation is a chain.
LEMMA ChainNothing == ASSUME NEW D PROVE Chain(D, <<>>)
<1>1. ChainBy(D, <<>>, [i \in {0} |-> D])
  BY DEF ChainBy
<1> QED BY <1>1 DEF Chain

\* One operation more.
LEMMA ChainFront ==
  ASSUME NEW S, NEW ops \in Seq(S), NEW op \in S, NEW D, NEW E, Joins(E, op, D), Chain(D, ops)
  PROVE  Chain(E, <<op>> \o ops)
<1>1. PICK d : ChainBy(D, ops, d)
  BY DEF Chain
<1> DEFINE L == Len(ops)
           a == <<op>> \o ops
           e == [i \in 0..L + 1 |-> IF i = 0 THEN E ELSE d[i - 1]]
<1>2. d[0] = D /\ \A i \in 1..L : Joins(d[i - 1], ops[i], d[i])
  BY <1>1 DEF ChainBy
<1>3. Len(a) = L + 1 /\ a[1] = op /\ L \in Nat /\ \A i \in 2..L + 1 : a[i] = ops[i - 1]
  BY FrontIs
<1> HIDE DEF L, a
<1>4. e[0] = E /\ \A i \in 1..L + 1 : e[i] = d[i - 1]
  BY <1>3
<1> HIDE DEF e
<1>5. ASSUME NEW i \in 1..L + 1 PROVE Joins(e[i - 1], a[i], e[i])
  <2>1. CASE i = 1
    <3>1. e[1] = D /\ e[i - 1] = E /\ a[i] = op
      BY <1>2, <1>3, <1>4, <2>1
    <3> QED BY <2>1, <3>1
  <2>2. CASE i # 1
    <3>1. i \in 2..L + 1 /\ i - 1 \in 1..L /\ i - 1 \in 1..L + 1
      BY <1>3, <2>2
    <3>2. e[i] = d[i - 1] /\ e[i - 1] = d[(i - 1) - 1] /\ a[i] = ops[i - 1]
      BY <1>3, <1>4, <3>1
    <3>3. Joins(d[(i - 1) - 1], ops[i - 1], d[i - 1])
      BY <1>2, <3>1
    <3> QED BY <3>2, <3>3
  <2> QED BY <2>1, <2>2
<1>6. ChainBy(E, a, e)
  BY <1>3, <1>4, <1>5 DEF ChainBy
<1> QED BY <1>6 DEF Chain, a

\* The first operation of a chain, and the rest.
LEMMA ChainHead ==
  ASSUME NEW S, NEW ops \in Seq(S), ops # <<>>, NEW D, Chain(D, ops)
  PROVE  LET E == Reverted(D, Head(ops))
         IN  Joins(D, Head(ops), E) /\ Chain(E, Tail(ops))
<1> DEFINE L == Len(ops)
           t == Tail(ops)
           E == Reverted(D, Head(ops))
<1>1. PICK d : ChainBy(D, ops, d)
  BY DEF Chain
<1>2. d[0] = D /\ \A i \in 1..L : Joins(d[i - 1], ops[i], d[i])
  BY <1>1 DEF ChainBy
<1>3. /\ Head(ops) = ops[1] /\ Len(t) = L - 1 /\ L \in Nat \ {0}
      /\ \A i \in 1..L - 1 : t[i] = ops[i + 1]
  BY TailIs
<1> HIDE DEF L, t
<1>4. Joins(D, Head(ops), d[1])
  <2>1. 1 \in 1..L /\ 1 - 1 = 0
    BY <1>3
  <2> QED BY <1>2, <1>3, <2>1
<1>5. d[1] = E
  BY <1>4, JoinsReverts
<1> DEFINE e == [i \in 0..L - 1 |-> d[i + 1]]
<1>6. e[0] = d[1] /\ \A i \in 0..L - 1 : e[i] = d[i + 1]
  BY <1>3
<1> HIDE DEF e
<1>7. ASSUME NEW i \in 1..L - 1 PROVE Joins(e[i - 1], t[i], e[i])
  <2>1. i \in 0..L - 1 /\ i - 1 \in 0..L - 1 /\ i + 1 \in 1..L /\ (i + 1) - 1 = i /\ (i - 1) + 1 = i
    BY <1>3
  <2>2. e[i] = d[i + 1] /\ e[i - 1] = d[i] /\ t[i] = ops[i + 1]
    BY <1>3, <1>6, <2>1
  <2>3. Joins(d[i], ops[i + 1], d[i + 1])
    BY <1>2, <2>1
  <2> QED BY <2>2, <2>3
<1>8. ChainBy(d[1], t, e)
  BY <1>3, <1>6, <1>7 DEF ChainBy
<1>9. Chain(E, t)
  BY <1>5, <1>8 DEF Chain
<1>10. Joins(D, Head(ops), E)
  BY <1>4, <1>5
<1> QED BY <1>9, <1>10 DEF t

\* Where an operation and then the others lead.
LEMMA AlongOver ==
  ASSUME NEW n, NEW E \in Docs(n), NEW op \in Ops(n), NEW s \in Seq(Ops(n)), NEW D, Joins(E, op, D)
  PROVE  Along(E, <<op>> \o s) = <<D>> \o Along(D, s)
<1> DEFINE a == <<op>> \o s
<1>1. a \in Seq(Ops(n)) /\ a # <<>> /\ Head(a) = op /\ Tail(a) = s
  BY FrontIs, TailOfFront
<1> HIDE DEF a
<1>2. Reverted(E, Head(a)) = D
  BY <1>1, JoinsReverts
<1>3. LET G == Reverted(E, Head(a)) IN Along(E, a) = <<G>> \o Along(G, Tail(a))
  BY <1>1, AlongHead
<1> QED BY <1>1, <1>2, <1>3 DEF a

\* Redoing is reverting the operation with its snapshots swapped.
Swaps(s) == [i \in DOMAIN s |-> Swapped(s[i])]

\* The fields of an operation, and of one that was swapped.
LEMMA OpIs ==
  ASSUME NEW n, NEW op \in Ops(n)
  PROVE  /\ op.kind \in {"edit", "presence"} /\ op.id \in 0..n /\ op.before \in What(n)
         /\ op.after \in What(n) /\ op.of \in {"text", "markup"} /\ op.present \in BOOLEAN
         /\ Swapped(op) \in Ops(n)
         /\ Swapped(op).kind = op.kind /\ Swapped(op).id = op.id
         /\ Swapped(op).before = op.after /\ Swapped(op).after = op.before
         /\ Swapped(op).of = op.of /\ Swapped(op).present = op.present
  BY DEF Ops, Swapped

\* The swapped operations, one by one.
LEMMA SwapsAre ==
  ASSUME NEW n, NEW s \in Seq(Ops(n))
  PROVE  /\ Swaps(s) \in Seq(Ops(n)) /\ Len(Swaps(s)) = Len(s)
         /\ \A i \in 1..Len(s) : Swaps(s)[i] = Swapped(s[i])
<1>1. Swaps(s) = [i \in 1..Len(s) |-> Swapped(s[i])]
  BY DEF Swaps
<1>2. \A i \in 1..Len(s) : Swapped(s[i]) \in Ops(n)
  BY OpIs
<1> QED BY <1>1, <1>2

\* With one operation more.
LEMMA SwapsFront ==
  ASSUME NEW n, NEW s \in Seq(Ops(n)), NEW op \in Ops(n)
  PROVE  Swaps(<<op>> \o s) = <<Swapped(op)>> \o Swaps(s)
<1> DEFINE a == <<op>> \o s
           b == Swaps(s)
           c == <<Swapped(op)>> \o b
           L == Len(s)
<1>1. a \in Seq(Ops(n)) /\ Len(a) = L + 1 /\ a[1] = op /\ \A i \in 2..L + 1 : a[i] = s[i - 1]
  BY FrontIs
<1>2. b \in Seq(Ops(n)) /\ Len(b) = L /\ \A i \in 1..L : b[i] = Swapped(s[i])
  BY SwapsAre
<1>3. Swapped(op) \in Ops(n)
  BY OpIs
<1> HIDE DEF b
<1>4. /\ c \in Seq(Ops(n)) /\ Len(c) = L + 1 /\ c[1] = Swapped(op)
      /\ \A i \in 2..L + 1 : c[i] = b[i - 1]
  BY <1>2, <1>3, FrontIs
<1>5. L \in Nat
  OBVIOUS
<1> HIDE DEF a, c, L
<1>6. /\ Swaps(a) \in Seq(Ops(n)) /\ Len(Swaps(a)) = L + 1
      /\ \A i \in 1..L + 1 : Swaps(a)[i] = Swapped(a[i])
  BY <1>1, SwapsAre
<1>7. ASSUME NEW i \in 1..L + 1 PROVE Swaps(a)[i] = c[i]
  <2>1. CASE i = 1
    BY <1>1, <1>4, <1>6, <2>1
  <2>2. CASE i # 1
    <3>1. i \in 2..L + 1 /\ i - 1 \in 1..L
      BY <1>5, <2>2
    <3> QED BY <1>1, <1>2, <1>4, <1>6, <3>1
  <2> QED BY <2>1, <2>2
<1>8. Swaps(a) = c
  BY <1>4, <1>6, <1>7, SeqEqual
<1> QED BY <1>8 DEF a, b, c

\* What undo leaves for redo, and redo for undo, does the opposite.
LEMMA PerformedOpposite ==
  ASSUME NEW n, NEW op \in Ops(n)
  PROVE  Opposite(op, Swapped(Performed(op))) /\ Opposite(Swapped(op), Performed(op))
<1>1. CASE op.kind = "edit"
  <2>1. Performed(op) = op
    BY <1>1 DEF Performed
  <2> QED BY <1>1, <2>1, OpIs DEF Opposite
<1>2. CASE op.kind # "edit"
  <2> DEFINE q == Performed(op)
  <2>1. op.kind = "presence" /\ op.present \in BOOLEAN
    BY <1>2, OpIs
  <2>2. /\ q.kind = op.kind /\ q.before = op.before /\ q.after = op.after
        /\ q.present <=> ~op.present
    BY <2>1 DEF Performed, Ops
  <2>3. /\ Swapped(q).kind = op.kind /\ Swapped(q).before = op.after /\ Swapped(q).after = op.before
        /\ Swapped(q).present <=> ~op.present
    <3>1. CASE op.present
      <4>1. q = [op EXCEPT !.present = FALSE, !.id = 0]
        BY <2>1, <3>1 DEF Performed
      <4> HIDE DEF q
      <4> QED BY <4>1, <3>1 DEF Ops, Swapped
    <3>2. CASE ~op.present
      <4>1. q = [op EXCEPT !.present = TRUE, !.id = fresh]
        BY <2>1, <3>2 DEF Performed
      <4> HIDE DEF q
      <4> QED BY <4>1, <3>2 DEF Ops, Swapped
    <3> QED BY <3>1, <3>2
  <2> HIDE DEF q
  <2>4. /\ Swapped(op).kind = op.kind /\ Swapped(op).before = op.after
        /\ Swapped(op).after = op.before /\ Swapped(op).present = op.present
    BY OpIs
  <2> QED BY <2>1, <2>2, <2>3, <2>4 DEF Opposite, q
<1> QED BY <1>1, <1>2

\* The documents operations lead to are documents.
LEMMA AlongType ==
  ASSUME NEW n, NEW D \in Docs(n), NEW ops \in Seq(Ops(n))
  PROVE  Along(D, ops) \in Seq(Docs(n))
<1>1. PICK h \in [0..Len(ops) -> Docs(n)] :
         Visits(D, ops, h) /\ Along(D, ops) = [i \in 1..Len(ops) |-> h[i]]
  BY VisitsExist
<1> QED BY <1>1, AlongIs

\* Undoing everything is legal all the way, and so is redoing everything.
Reversible == Chain(Doc, undoStack) /\ Chain(Doc, Swaps(redoStack))

\* The document and the stacks have their shape.
Shaped ==
    /\ Doc \in Docs(MaxFresh)
    /\ undoStack \in Seq(Ops(MaxFresh)) /\ redoStack \in Seq(Ops(MaxFresh))

\* An edit: its operation leads back to where it started.
LEMMA DocEdits ==
  ASSUME OneFate, OneFate', Shaped, Shaped', Reversible, NEW op \in Ops(MaxFresh), Joins(Doc', op, Doc),
         undoStack' = <<op>> \o undoStack, redoStack' = <<>>
  PROVE  Reversible' /\ Document!Edit
<1>1. Swaps(redoStack') = <<>> /\ <<>> \in Seq(Ops(MaxFresh))
  BY DEF Swaps
<1>2. Chain(Doc', undoStack')
  BY ChainFront DEF Shaped, Reversible
<1>3. Reversible'
  BY <1>1, <1>2, ChainNothing DEF Reversible
<1>4. Along(Doc', undoStack') = <<Doc>> \o Along(Doc, undoStack)
  <2> DEFINE D == Doc
             E == Doc'
             n == MaxFresh
  <2>1. D \in Docs(n) /\ E \in Docs(n) /\ undoStack \in Seq(Ops(n)) /\ Joins(E, op, D)
    BY DEF Shaped
  <2>2. op \in Ops(n)
    OBVIOUS
  <2> HIDE DEF D, E, n
  <2>3. Along(E, <<op>> \o undoStack) = <<D>> \o Along(D, undoStack)
    BY ONLY <2>1, <2>2, AlongOver
  <2> QED BY <2>3 DEF D, E
<1>5. Along(Doc', Swaps(redoStack')) = <<>>
  <2>1. Doc' \in Docs(MaxFresh)
    BY DEF Shaped
  <2> HIDE DEF Doc
  <2> QED BY <1>1, <2>1, AlongNothing
<1>6. Redos' = Swaps(redoStack')
  BY DEF Redos, Swaps
<1> QED BY <1>3, <1>4, <1>5, <1>6 DEF Document!Edit, Shaped, Docs

\* An undo moves an operation from a chain to the other.
LEMMA DocUndoes ==
  ASSUME OneFate, OneFate', Shaped, Shaped', Reversible, undoStack # <<>>, Doc' = Reverted(Doc, Head(undoStack)),
         NEW back \in Ops(MaxFresh), Opposite(Head(undoStack), Swapped(back)),
         undoStack' = Tail(undoStack), redoStack' = <<back>> \o redoStack
  PROVE  Reversible' /\ Document!Undo
<1> DEFINE op == Head(undoStack)
           u == Tail(undoStack)
           n == MaxFresh
<1>1. undoStack = <<op>> \o u /\ op \in Ops(n) /\ u \in Seq(Ops(n))
  BY FrontOfTail DEF Shaped
<1>2. Joins(Doc, op, Doc') /\ Chain(Doc', u)
  <2>1. LET E == Reverted(Doc, op) IN Joins(Doc, op, E) /\ Chain(E, u)
    BY ChainHead DEF Shaped, Reversible
  <2> QED BY <2>1
<1>3. Joins(Doc', Swapped(back), Doc)
  BY <1>2, JoinsBack
<1>4. Swapped(back) \in Ops(n) /\ Swaps(redoStack) \in Seq(Ops(n))
  BY OpIs, SwapsAre DEF Shaped
<1>5. Swaps(redoStack') = <<Swapped(back)>> \o Swaps(redoStack)
  BY SwapsFront DEF Shaped
<1> HIDE DEF op, u
<1>6. Chain(Doc', Swaps(redoStack'))
  BY <1>3, <1>4, <1>5, ChainFront DEF Reversible
<1> DEFINE D == Doc
           E == Doc'
           q == Swapped(back)
           s == Swaps(redoStack)
<1>14. D \in Docs(n) /\ op \in Ops(n) /\ u \in Seq(Ops(n)) /\ Joins(D, op, E)
  BY <1>1, <1>2 DEF Shaped
<1>15. E \in Docs(n) /\ q \in Ops(n) /\ s \in Seq(Ops(n)) /\ Joins(E, q, D)
  BY <1>3, <1>4 DEF Shaped
<1> HIDE DEF D, E, q, s, n
<1>16. Along(D, <<op>> \o u) = <<E>> \o Along(E, u)
  BY ONLY <1>14, AlongOver
<1>17. Along(E, <<q>> \o s) = <<D>> \o Along(D, s)
  BY ONLY <1>15, AlongOver
<1>7. Along(Doc, undoStack) = <<Doc'>> \o Along(Doc', u)
  BY <1>1, <1>16 DEF D, E
<1>8. Along(Doc', Swaps(redoStack')) = <<Doc>> \o Along(Doc, Swaps(redoStack))
  BY <1>5, <1>17 DEF D, E, q, s
<1>9. Redos = Swaps(redoStack) /\ Redos' = Swaps(redoStack')
  BY DEF Redos, Swaps
<1>10. undoStack' = u
  BY DEF u
<1>11. Along(Doc', u) \in Seq(Docs(n))
  BY <1>1, AlongType DEF Shaped, n
<1>12. /\ Along(Doc, undoStack) # <<>> /\ Head(Along(Doc, undoStack)) = Doc'
       /\ Tail(Along(Doc, undoStack)) = Along(Doc', u)
  BY <1>7, <1>11, FrontIs, TailOfFront DEF Shaped
<1> QED BY <1>2, <1>6, <1>8, <1>9, <1>10, <1>12 DEF Reversible, Document!Undo

\* A redo brings one back.
LEMMA DocRedoes ==
  ASSUME OneFate, OneFate', Shaped, Shaped', Reversible, redoStack # <<>>,
         Doc' = Reverted(Doc, Swapped(Head(redoStack))),
         NEW back \in Ops(MaxFresh), Opposite(Swapped(Head(redoStack)), back),
         redoStack' = Tail(redoStack), undoStack' = <<back>> \o undoStack
  PROVE  Reversible' /\ Document!Redo
<1> DEFINE op == Head(redoStack)
           sop == Swapped(op)
           r == Tail(redoStack)
           n == MaxFresh
<1>1. redoStack = <<op>> \o r /\ op \in Ops(n) /\ r \in Seq(Ops(n))
  BY FrontOfTail DEF Shaped
<1>2. Swaps(redoStack) = <<sop>> \o Swaps(r) /\ sop \in Ops(n) /\ Swaps(r) \in Seq(Ops(n))
  <2> HIDE DEF op, r
  <2> QED BY <1>1, SwapsFront, OpIs, SwapsAre
<1>3. Swaps(redoStack) # <<>> /\ Head(Swaps(redoStack)) = sop /\ Tail(Swaps(redoStack)) = Swaps(r)
  <2> HIDE DEF r, sop
  <2> QED BY <1>2, FrontIs, TailOfFront
<1>4. Joins(Doc, sop, Doc') /\ Chain(Doc', Swaps(r))
  <2>1. Swaps(redoStack) \in Seq(Ops(n)) /\ Chain(Doc, Swaps(redoStack))
    BY SwapsAre DEF Shaped, Reversible
  <2> HIDE DEF r, sop
  <2>2. LET E == Reverted(Doc, sop) IN Joins(Doc, sop, E) /\ Chain(E, Swaps(r))
    BY <1>3, <2>1, ChainHead
  <2> QED BY <2>2 DEF sop
<1>5. Joins(Doc', back, Doc)
  BY <1>4, JoinsBack
<1> HIDE DEF op, sop, r
<1>6. Chain(Doc', undoStack')
  BY <1>5, ChainFront DEF Shaped, Reversible
<1> DEFINE D == Doc
           E == Doc'
           s == Swaps(r)
<1>14. E \in Docs(n) /\ undoStack \in Seq(Ops(n)) /\ Joins(E, back, D)
      /\ back \in Ops(n)
  BY <1>5 DEF Shaped
<1>18. Swaps(redoStack) = <<sop>> \o s
  BY <1>2
<1>15. D \in Docs(n) /\ sop \in Ops(n) /\ s \in Seq(Ops(n)) /\ Joins(D, sop, E)
  BY <1>2, <1>4 DEF Shaped
<1> HIDE DEF D, E, n, s
<1>16. Along(E, <<back>> \o undoStack) = <<D>> \o Along(D, undoStack)
  BY ONLY <1>14, AlongOver
<1>17. Along(D, <<sop>> \o s) = <<E>> \o Along(E, s)
  BY ONLY <1>15, AlongOver
<1>7. Along(Doc', undoStack') = <<Doc>> \o Along(Doc, undoStack)
  BY <1>16 DEF D, E
<1>8. Along(Doc, Swaps(redoStack)) = <<Doc'>> \o Along(Doc', Swaps(r))
  BY <1>17, <1>18 DEF D, E, s
<1>9. Redos = Swaps(redoStack) /\ Redos' = Swaps(redoStack')
  BY DEF Redos, Swaps
<1>10. redoStack' = r
  BY DEF r
<1>11. Along(Doc', Swaps(r)) \in Seq(Docs(n))
  BY <1>2, AlongType DEF Shaped, n
<1>12. /\ Along(Doc, Swaps(redoStack)) # <<>> /\ Head(Along(Doc, Swaps(redoStack))) = Doc'
       /\ Tail(Along(Doc, Swaps(redoStack))) = Along(Doc', Swaps(r))
  BY <1>8, <1>11, FrontIs, TailOfFront DEF Shaped
<1> QED BY <1>4, <1>6, <1>7, <1>9, <1>10, <1>12 DEF Reversible, Document!Redo

\* Neither the document nor a stack changes.
LEMMA DocStays ==
  ASSUME Reversible, Doc' = Doc, UNCHANGED text
  PROVE  Reversible' /\ UNCHANGED Document!vars
<1>1. undoStack' = undoStack /\ redoStack' = redoStack /\ fate' = fate
  BY DEF text
<1>2. Redos' = Redos
  BY <1>1 DEF Redos
<1>3. OneFate' <=> OneFate
  BY <1>1 DEF OneFate
<1> QED BY <1>1, <1>2, <1>3 DEF Reversible, Document!vars

-----------------------------------------------------------------------------
(* The texts and markups of a page *)

Texts(page) == {page[i] : i \in {k \in DOMAIN page : page[k].kind # "ink"}}
Recorded(T, U) == {a \in T : a.id \notin U}
DocOf(T, U) == {a.what : a \in Recorded(T, U)}

\* The document is made of the texts that no job has yet to record.
LEMMA DocIs == Doc = DocOf(Texts(annots), Unrecorded)
<1> DEFINE T == Texts(annots)
<1>1. ASSUME NEW x \in Doc PROVE x \in DocOf(T, Unrecorded)
  <2>1. PICK i \in DOMAIN annots : annots[i].kind # "ink" /\ annots[i].id \notin Unrecorded
                                   /\ x = annots[i].what
    BY DEF Doc
  <2>2. annots[i] \in Recorded(T, Unrecorded)
    BY <2>1 DEF Recorded, Texts
  <2> QED BY <2>1, <2>2 DEF DocOf
<1>2. ASSUME NEW x \in DocOf(T, Unrecorded) PROVE x \in Doc
  <2>1. PICK a \in Recorded(T, Unrecorded) : x = a.what
    BY DEF DocOf
  <2>2. PICK i \in DOMAIN annots : annots[i].kind # "ink" /\ annots[i] = a
    BY <2>1 DEF Recorded, Texts
  <2>3. annots[i].id \notin Unrecorded
    BY <2>1, <2>2 DEF Recorded
  <2> QED BY <2>1, <2>2, <2>3 DEF Doc
<1> QED BY <1>1, <1>2

\* What a text of the page is; no two have one number.
LEMMA TextsAre ==
  ASSUME NEW n \in Nat, NEW page \in Seq(Annots(n)), Unique(page)
  PROVE  /\ \A a \in Texts(page) : /\ a.id \in 1..n /\ a.kind \in {"text", "markup"}
                                   /\ a.what \in What(n) /\ NoInk(page, a.id)
                                   /\ a = [id |-> a.id, kind |-> a.kind, what |-> a.what]
         /\ \A a, b \in Texts(page) : a.id = b.id => a = b
<1>1. ASSUME NEW a \in Texts(page)
      PROVE  /\ a.id \in 1..n /\ a.kind \in {"text", "markup"}
             /\ a.what \in What(n) /\ NoInk(page, a.id)
             /\ a = [id |-> a.id, kind |-> a.kind, what |-> a.what]
  <2>1. PICK i \in DOMAIN page : page[i].kind # "ink" /\ page[i] = a
    BY DEF Texts
  <2>2. a \in Annots(n) /\ a.kind # "ink"
    BY <2>1
  <2>3. NoInk(page, a.id)
    BY <2>1 DEF NoInk, PageInk, Unique
  <2>4. a = [id |-> a.id, kind |-> a.kind, what |-> a.what]
    BY <2>2 DEF Annots
  <2> QED BY <2>2, <2>3, <2>4, AnnotIs
<1>2. ASSUME NEW a \in Texts(page), NEW b \in Texts(page), a.id = b.id PROVE a = b
  BY <1>2 DEF Texts, Unique
<1> QED BY <1>1, <1>2

\* An annotation more.
LEMMA TextsAppend ==
  ASSUME NEW S, NEW page \in Seq(S), NEW a
  PROVE  /\ a.kind = "ink" => Texts(Append(page, a)) = Texts(page)
         /\ a.kind # "ink" => Texts(Append(page, a)) = Texts(page) \cup {a}
<1> DEFINE new == Append(page, a)
           L == Len(page)
<1>1. /\ DOMAIN new = 1..L + 1 /\ DOMAIN page = 1..L /\ L \in Nat
      /\ new[L + 1] = a /\ \A i \in 1..L : new[i] = page[i]
  OBVIOUS
<1> HIDE DEF new, L
<1>2. \A i \in 1..L + 1 : i \in 1..L \/ i = L + 1
  BY <1>1
<1>3. ASSUME NEW x \in Texts(new) PROVE x \in Texts(page) \/ (a.kind # "ink" /\ x = a)
  <2>1. PICK i \in DOMAIN new : new[i].kind # "ink" /\ x = new[i]
    BY DEF Texts
  <2> QED BY <1>1, <1>2, <2>1 DEF Texts
<1>4. ASSUME NEW x \in Texts(page) PROVE x \in Texts(new)
  <2>1. PICK i \in DOMAIN page : page[i].kind # "ink" /\ x = page[i]
    BY DEF Texts
  <2>2. i \in DOMAIN new /\ new[i] = x
    BY <1>1, <2>1
  <2> QED BY <2>1, <2>2 DEF Texts
<1>5. a.kind # "ink" => a \in Texts(new)
  <2>1. L + 1 \in DOMAIN new /\ new[L + 1] = a
    BY <1>1
  <2> QED BY <2>1 DEF Texts
<1> QED BY <1>3, <1>4, <1>5 DEF new

\* Ink is taken off the page.
LEMMA TextsTakeInk ==
  ASSUME NEW n \in Nat, NEW page \in Seq(Annots(n)), Unique(page), NEW k \in 1..Len(page),
         page[k].kind = "ink"
  PROVE  Texts(RemoveAt(page, k)) = Texts(page)
<1> DEFINE new == RemoveAt(page, k)
<1>1. \A i \in DOMAIN new : \E j \in DOMAIN page : j # k /\ new[i] = page[j]
  BY RemovedOK
<1>2. \A j \in DOMAIN page : j # k => \E i \in DOMAIN new : new[i] = page[j]
  BY RemovedOK
<1> HIDE DEF new
<1>3. Texts(new) \subseteq Texts(page)
  BY <1>1 DEF Texts
<1>4. Texts(page) \subseteq Texts(new)
  BY <1>2 DEF Texts
<1> QED BY <1>3, <1>4 DEF new

\* A text is taken off the page.
LEMMA TextsWithout ==
  ASSUME Types, Unique(annots), NEW id, NoInk(annots, id)
  PROVE  Texts(Without(id)) = {a \in Texts(annots) : a.id # id}
<1> DEFINE new == Without(id)
<1>1. annots \in Seq(Annots(fresh - 1)) /\ fresh - 1 \in Nat
  BY Bounds DEF Types
<1>2. CASE id \notin Ids
  <2>1. new = annots
    BY <1>2 DEF Without
  <2>2. \A a \in Texts(annots) : a.id # id
    BY <1>2 DEF Texts, Ids
  <2> QED BY <2>1, <2>2
<1>3. CASE id \in Ids
  <2> DEFINE k == CHOOSE i \in DOMAIN annots : annots[i].id = id
  <2>1. k \in DOMAIN annots /\ annots[k].id = id
    BY <1>3 DEF Ids
  <2>2. new = RemoveAt(annots, k)
    BY <1>3 DEF Without
  <2> HIDE DEF k, new
  <2>3. k \in 1..Len(annots)
    BY <1>1, <2>1
  <2>4. \A i \in DOMAIN new : \E j \in DOMAIN annots : j # k /\ new[i] = annots[j]
    BY <1>1, <2>2, <2>3, RemovedOK
  <2>5. \A j \in DOMAIN annots : j # k => \E i \in DOMAIN new : new[i] = annots[j]
    BY <1>1, <2>2, <2>3, RemovedOK
  <2>6. \A j \in DOMAIN annots : j # k => annots[j].id # id
    BY <2>1 DEF Unique
  <2>7. Texts(new) \subseteq {a \in Texts(annots) : a.id # id}
    BY <2>4, <2>6 DEF Texts
  <2>8. {a \in Texts(annots) : a.id # id} \subseteq Texts(new)
    BY <2>1, <2>5 DEF Texts
  <2> QED BY <2>7, <2>8 DEF new
<1> QED BY <1>2, <1>3

\* A text is overwritten.
LEMMA TextsOverwritten ==
  ASSUME Types, Unique(annots), NEW id, NoInk(annots, id), NEW what, NEW a \in Texts(annots),
         a.id = id
  PROVE  Texts(Overwritten(id, what)) =
            (Texts(annots) \ {a}) \cup {[id |-> id, kind |-> a.kind, what |-> what]}
<1> DEFINE new == Overwritten(id, what)
           b == [id |-> id, kind |-> a.kind, what |-> what]
<1>1. annots \in Seq(Annots(fresh - 1)) /\ fresh - 1 \in Nat
  BY Bounds DEF Types
<1>2. PICK k \in DOMAIN annots : annots[k] = a /\ a.kind # "ink"
  BY DEF Texts
<1>3. DOMAIN new = DOMAIN annots
  BY DEF Overwritten
<1>4. new[k] = b
  <2>1. new[k] = [annots[k] EXCEPT !.what = what]
    BY <1>2 DEF Overwritten
  <2>2. a = [id |-> a.id, kind |-> a.kind, what |-> a.what]
    BY <1>1, TextsAre
  <2> QED BY <1>2, <2>1, <2>2
<1>5. \A i \in DOMAIN annots : i # k => annots[i].id # id /\ new[i] = annots[i] /\ annots[i] # a
  BY <1>2 DEF Unique, Overwritten
<1>6. b.kind # "ink"
  BY <1>2
<1> HIDE DEF new, b
<1>7. ASSUME NEW x \in Texts(new) PROVE x \in (Texts(annots) \ {a}) \cup {b}
  <2>1. PICK i \in DOMAIN new : new[i].kind # "ink" /\ x = new[i]
    BY DEF Texts
  <2>2. CASE i = k
    BY <1>4, <2>1, <2>2
  <2>3. CASE i # k
    BY <1>3, <1>5, <2>1, <2>3 DEF Texts
  <2> QED BY <2>2, <2>3
<1>8. ASSUME NEW x \in Texts(annots), x # a PROVE x \in Texts(new)
  <2>1. PICK i \in DOMAIN annots : annots[i].kind # "ink" /\ x = annots[i]
    BY DEF Texts
  <2>2. i # k
    BY <1>2, <1>8, <2>1
  <2> QED BY <1>3, <1>5, <2>1, <2>2 DEF Texts
<1>9. b \in Texts(new)
  BY <1>2, <1>3, <1>4, <1>6 DEF Texts
<1> QED BY <1>7, <1>8, <1>9 DEF new, b

-----------------------------------------------------------------------------
(* What becomes of the document when its texts change *)

\* No two texts have one name.
Named(T) == \A s, t \in T : s.what.name = t.what.name => s = t

\* The document, text by text.
LEMMA DocHas ==
  ASSUME NEW T, NEW U, NEW x
  PROVE  x \in DocOf(T, U) <=> \E a \in T : a.id \notin U /\ a.what = x
  BY DEF DocOf, Recorded

\* A text is overwritten by one of its name.
LEMMA DocOverwritten ==
  ASSUME NEW T, NEW U, Named(T), NEW a \in T, a.id \notin U, NEW b, b.id = a.id,
         b.what.name = a.what.name, b.what # a.what
  PROVE  LET S == (T \ {a}) \cup {b} IN
         /\ a.what \in DocOf(T, U) /\ b.what \notin DocOf(T, U) /\ Named(S)
         /\ DocOf(S, U) = (DocOf(T, U) \ {a.what}) \cup {b.what}
<1> DEFINE S == (T \ {a}) \cup {b}
<1>1. a.what \in DocOf(T, U)
  BY DocHas
<1>2. b.what \notin DocOf(T, U)
  <2> SUFFICES ASSUME b.what \in DocOf(T, U) PROVE FALSE
    OBVIOUS
  <2>1. PICK t \in T : t.what = b.what
    BY DocHas
  <2> QED BY <2>1 DEF Named
<1>3. Named(S)
  BY DEF Named
<1>4. ASSUME NEW x PROVE x \in DocOf(S, U) <=> x \in (DocOf(T, U) \ {a.what}) \cup {b.what}
  <2>1. ASSUME x \in DocOf(S, U) PROVE x \in (DocOf(T, U) \ {a.what}) \cup {b.what}
    <3>1. PICK s \in S : s.id \notin U /\ s.what = x
      BY <2>1, DocHas
    <3>2. CASE s = b
      BY <3>1, <3>2
    <3>3. CASE s # b
      <4>1. s \in T /\ s # a /\ x \in DocOf(T, U)
        BY <3>1, <3>3, DocHas
      <4>2. x # a.what
        BY <3>1, <4>1 DEF Named
      <4> QED BY <4>1, <4>2
    <3> QED BY <3>2, <3>3
  <2>2. ASSUME x \in DocOf(T, U), x # a.what PROVE x \in DocOf(S, U)
    <3>1. PICK t \in T : t.id \notin U /\ t.what = x
      BY <2>2, DocHas
    <3>2. t \in S
      BY <2>2, <3>1
    <3> QED BY <3>1, <3>2, DocHas
  <2>3. b.what \in DocOf(S, U)
    <3>1. b \in S
      OBVIOUS
    <3> QED BY <3>1, DocHas
  <2> QED BY <2>1, <2>2, <2>3
<1> QED BY <1>1, <1>2, <1>3, <1>4

\* A text is taken away.
LEMMA DocTaken ==
  ASSUME NEW T, NEW U, Named(T), NEW a \in T, a.id \notin U
  PROVE  /\ Named(T \ {a}) /\ a.what \in DocOf(T, U)
         /\ DocOf(T \ {a}, U) = DocOf(T, U) \ {a.what}
<1> DEFINE S == T \ {a}
<1>1. Named(S) /\ a.what \in DocOf(T, U)
  BY DocHas DEF Named
<1>2. ASSUME NEW x PROVE x \in DocOf(S, U) <=> x \in DocOf(T, U) \ {a.what}
  <2>1. ASSUME x \in DocOf(S, U) PROVE x \in DocOf(T, U) \ {a.what}
    <3>1. PICK s \in S : s.id \notin U /\ s.what = x
      BY <2>1, DocHas
    <3>2. s \in T /\ s # a
      BY <3>1
    <3>3. x \in DocOf(T, U)
      BY <3>1, <3>2, DocHas
    <3>4. x # a.what
      BY <3>1, <3>2 DEF Named
    <3> QED BY <3>3, <3>4
  <2>2. ASSUME x \in DocOf(T, U), x # a.what PROVE x \in DocOf(S, U)
    <3>1. PICK t \in T : t.id \notin U /\ t.what = x
      BY <2>2, DocHas
    <3>2. t \in S
      BY <2>2, <3>1
    <3> QED BY <3>1, <3>2, DocHas
  <2> QED BY <2>1, <2>2
<1> QED BY <1>1, <1>2

\* A text with a new name comes.
LEMMA DocGiven ==
  ASSUME NEW T, NEW U, Named(T), NEW b, b.id \notin U, \A a \in T : a.what.name # b.what.name
  PROVE  /\ Named(T \cup {b}) /\ b.what \notin DocOf(T, U)
         /\ DocOf(T \cup {b}, U) = DocOf(T, U) \cup {b.what}
<1> DEFINE S == T \cup {b}
<1>1. Named(S)
  BY DEF Named
<1>2. b.what \notin DocOf(T, U)
  BY DocHas
<1>3. ASSUME NEW x PROVE x \in DocOf(S, U) <=> x \in DocOf(T, U) \cup {b.what}
  BY DocHas
<1> QED BY <1>1, <1>2, <1>3

\* A text that has yet to be recorded is not seen.
LEMMA DocHides ==
  ASSUME NEW T, NEW U, NEW b, \A a \in T : a.id # b.id
  PROVE  DocOf(T \cup {b}, U \cup {b.id}) = DocOf(T, U)
<1>1. ASSUME NEW x PROVE x \in DocOf(T \cup {b}, U \cup {b.id}) <=> x \in DocOf(T, U)
  BY DocHas
<1> QED BY <1>1

\* It is recorded.
LEMMA DocShows ==
  ASSUME NEW T, NEW U, Named(T), \A s, t \in T : s.id = t.id => s = t, NEW a \in T, a.id \in U
  PROVE  /\ a.what \notin DocOf(T, U)
         /\ DocOf(T, U \ {a.id}) = DocOf(T, U) \cup {a.what}
<1>1. a.what \notin DocOf(T, U)
  <2> SUFFICES ASSUME a.what \in DocOf(T, U) PROVE FALSE
    OBVIOUS
  <2>1. PICK t \in T : t.id \notin U /\ t.what = a.what
    BY DocHas
  <2> QED BY <2>1 DEF Named
<1>2. ASSUME NEW x PROVE x \in DocOf(T, U \ {a.id}) <=> x \in DocOf(T, U) \cup {a.what}
  BY DocHas
<1> QED BY <1>1, <1>2

-----------------------------------------------------------------------------
(* Operations that fit the texts *)

\* With the fates F: an edit is of a text that was restyled and still has its
\* number; a presence is of one that was not, but removed or not of the file,
\* which is there with its number or not there at all.  On the undo stack the
\* texts that are there were added, the others removed.
EditFits(F, T, op) ==
    /\ op.before.name = op.after.name /\ op.before.name \in F.restyled
    /\ \E a \in T : a.id = op.id /\ a.what.name = op.before.name
PresenceFits(F, T, U, op, undo) ==
    /\ op.before = op.after /\ op.before.name \notin F.restyled
    /\ op.before.name \in F.removed \/ op.before.name \notin 1..FileNumbers
    /\ op.present <=> (undo <=> op.before.name \notin F.removed)
    /\ op.present => \E a \in T : a.id = op.id /\ a.what = op.before /\ a.id \notin U
    /\ ~op.present => \A a \in T : a.what.name # op.before.name
OpFits(F, T, U, op, undo) ==
    /\ op.kind = "edit" => EditFits(F, T, op)
    /\ op.kind = "presence" => PresenceFits(F, T, U, op, undo)

\* No two operations give or take the same text.
Differ(p, q) == p.kind = "presence" /\ q.kind = "presence" => p.before.name # q.before.name

\* What the texts must keep for an operation to fit.
LEMMA StillFits ==
  ASSUME NEW F, NEW T, NEW U, NEW op, NEW undo, OpFits(F, T, U, op, undo), NEW S, NEW V,
         op.kind = "edit" => \A a \in T : a.what.name \in F.restyled =>
                                \E b \in S : b.id = a.id /\ b.what.name = a.what.name,
         op.kind = "presence" /\ op.present =>
            \A a \in T : a.what.name = op.before.name /\ a.id \notin U => a \in S /\ a.id \notin V,
         op.kind = "presence" /\ ~op.present => \A b \in S : b.what.name # op.before.name
  PROVE  OpFits(F, S, V, op, undo)
<1>1. ASSUME op.kind = "edit" PROVE EditFits(F, S, op)
  <2>1. EditFits(F, T, op)
    BY <1>1 DEF OpFits
  <2>2. PICK a \in T : a.id = op.id /\ a.what.name = op.before.name
    BY <2>1 DEF EditFits
  <2>3. a.what.name \in F.restyled
    BY <2>1, <2>2 DEF EditFits
  <2>4. \E b \in S : b.id = a.id /\ b.what.name = a.what.name
    BY <1>1, <2>3
  <2> QED BY <2>1, <2>2, <2>4 DEF EditFits
<1>2. ASSUME op.kind = "presence" PROVE PresenceFits(F, S, V, op, undo)
  <2>1. PresenceFits(F, T, U, op, undo)
    BY <1>2 DEF OpFits
  <2>2. ASSUME op.present PROVE \E a \in S : a.id = op.id /\ a.what = op.before /\ a.id \notin V
    <3>1. PICK a \in T : a.id = op.id /\ a.what = op.before /\ a.id \notin U
      BY <2>1, <2>2 DEF PresenceFits
    <3>2. a \in S /\ a.id \notin V
      BY <1>2, <2>2, <3>1
    <3> QED BY <3>1, <3>2
  <2>3. ~op.present => \A b \in S : b.what.name # op.before.name
    BY <1>2
  <2> QED BY <2>1, <2>2, <2>3 DEF PresenceFits
<1> QED BY <1>1, <1>2 DEF OpFits

\* The two stacks give and take different texts.
LEMMA StacksDiffer ==
  ASSUME NEW F, NEW T, NEW U, NEW p, NEW q, OpFits(F, T, U, p, TRUE), OpFits(F, T, U, q, FALSE)
  PROVE  Differ(p, q) /\ Differ(q, p)
<1> SUFFICES ASSUME p.kind = "presence", q.kind = "presence", p.before.name = q.before.name
             PROVE  FALSE
  BY DEF Differ
<1>1. PresenceFits(F, T, U, p, TRUE) /\ PresenceFits(F, T, U, q, FALSE)
  BY DEF OpFits
<1>2. CASE p.before.name \in F.removed
  <2>1. ~p.present /\ q.present
    BY <1>1, <1>2 DEF PresenceFits
  <2> QED BY <1>1, <2>1 DEF PresenceFits
<1>3. CASE p.before.name \notin F.removed
  <2>1. p.present /\ ~q.present
    BY <1>1, <1>3 DEF PresenceFits
  <2> QED BY <1>1, <2>1 DEF PresenceFits
<1> QED BY <1>2, <1>3

\* Other texts are restyled or removed: what fitted fits.
LEMMA FateGrows ==
  ASSUME NEW F, NEW G, F.restyled \subseteq G.restyled, F.removed \subseteq G.removed,
         G.restyled \cap G.removed = {}, G.restyled \cup G.removed \subseteq 1..FileNumbers,
         NEW T, NEW U, NEW op, NEW undo, OpFits(F, T, U, op, undo)
  PROVE  OpFits(G, T, U, op, undo)
<1>1. ASSUME op.kind = "edit" PROVE EditFits(G, T, op)
  BY <1>1 DEF OpFits, EditFits
<1>2. ASSUME op.kind = "presence" PROVE PresenceFits(G, T, U, op, undo)
  <2>1. PresenceFits(F, T, U, op, undo)
    BY <1>2 DEF OpFits
  <2>2. op.before.name \in F.removed \/ op.before.name \notin 1..FileNumbers
    BY <2>1 DEF PresenceFits
  <2>3. /\ op.before.name \notin G.restyled
        /\ op.before.name \in G.removed <=> op.before.name \in F.removed
    BY <2>2
  <2> QED BY <2>1, <2>2, <2>3 DEF PresenceFits
<1> QED BY <1>1, <1>2 DEF OpFits

AllDiffer(ops) == \A i, k \in DOMAIN ops : i # k => Differ(ops[i], ops[k])
StackFits(F, T, U, ops, undo) ==
    /\ \A i \in DOMAIN ops : OpFits(F, T, U, ops[i], undo)
    /\ AllDiffer(ops)

\* What a job added is there, under its number and its name, and the job has
\* found that it is its own.
Adding(job) == job.at \in {"added", "found"}
JobFits(T, job) ==
    /\ \E a \in T : a.id = job.own /\ a.kind = job.kind /\ a.what = job.what
    /\ job.what.name = job.own /\ job.own \notin 1..FileNumbers
    /\ job.at = "added" => job.own \notin job.known
    /\ job.at = "found" => job.id = job.own
JobsFit(T) ==
    /\ \A j \in Jobs : Adding(jobs[j]) => JobFits(T, jobs[j])
    /\ \A j, k \in Jobs : j # k /\ Adding(jobs[j]) /\ Adding(jobs[k]) => jobs[j].own # jobs[k].own

TextFits ==
    /\ Named(Texts(annots)) /\ JobsFit(Texts(annots))
    /\ StackFits(fate, Texts(annots), Unrecorded, undoStack, TRUE)
    /\ StackFits(fate, Texts(annots), Unrecorded, redoStack, FALSE)

\* Jobs fit while what they have added stays.
LEMMA JobsStillFit ==
  ASSUME NEW T, JobsFit(T), NEW S, \A a \in T : a.id \in Unrecorded => a \in S
  PROVE  JobsFit(S)
<1>1. ASSUME NEW j \in Jobs, Adding(jobs[j]) PROVE JobFits(S, jobs[j])
  <2>1. JobFits(T, jobs[j])
    BY <1>1 DEF JobsFit
  <2>2. PICK a \in T : a.id = jobs[j].own /\ a.kind = jobs[j].kind /\ a.what = jobs[j].what
    BY <2>1 DEF JobFits
  <2>3. a.id \in Unrecorded
    BY <1>1, <2>2 DEF Unrecorded, Adding
  <2> QED BY <2>1, <2>2, <2>3 DEF JobFits
<1> QED BY <1>1 DEF JobsFit

\* What is yet to be recorded is on the page, and is not of the file.
LEMMA UnrecordedIs ==
  ASSUME IInv, TextFits
  PROVE  /\ \A a \in Texts(annots) : a.id \in Unrecorded => a.what.name \notin 1..FileNumbers
         /\ \A id \in Unrecorded : \E a \in Texts(annots) : a.id = id
<1>1. ASSUME NEW id \in Unrecorded
      PROVE  \E a \in Texts(annots) :
                a.id = id /\ a.what.name \notin 1..FileNumbers
  <2>1. PICK j \in Jobs : Adding(jobs[j]) /\ id = jobs[j].own
    BY DEF Unrecorded, Adding
  <2>2. JobFits(Texts(annots), jobs[j])
    BY <2>1 DEF TextFits, JobsFit
  <2>3. PICK a \in Texts(annots) : a.id = jobs[j].own /\ a.what = jobs[j].what
    BY <2>2 DEF JobFits
  <2>4. a.what.name \notin 1..FileNumbers
    BY <2>2, <2>3 DEF JobFits
  <2> QED BY <2>1, <2>3, <2>4
<1>2. annots \in Seq(Annots(fresh - 1)) /\ Unique(annots) /\ fresh - 1 \in Nat
  BY Bounds DEF IInv, Types, InkSound
<1>3. \A a, b \in Texts(annots) : a.id = b.id => a = b
  BY <1>2, TextsAre
<1> QED BY <1>1, <1>3

\* The texts of the page have numbers and names before the next one.
LEMMA TextsHere ==
  ASSUME IInv
  PROVE  /\ fresh \in Nat /\ fresh - 1 \in Nat /\ Types /\ Unique(annots)
         /\ annots \in Seq(Annots(fresh - 1))
         /\ \A a \in Texts(annots) : /\ a.id \in 1..fresh - 1 /\ a.id # fresh
                                     /\ a.kind \in {"text", "markup"}
                                     /\ a.what \in What(fresh - 1) /\ a.what.name # fresh
                                     /\ NoInk(annots, a.id)
                                     /\ a = [id |-> a.id, kind |-> a.kind, what |-> a.what]
         /\ \A a, b \in Texts(annots) : a.id = b.id => a = b
<1>1. /\ annots \in Seq(Annots(fresh - 1)) /\ Unique(annots) /\ fresh - 1 \in Nat /\ fresh \in Nat
      /\ Types
  BY Bounds DEF IInv, Types, InkSound
<1>2. ASSUME NEW a \in Texts(annots)
      PROVE  /\ a.id \in 1..fresh - 1 /\ a.id # fresh /\ a.kind \in {"text", "markup"}
             /\ a.what \in What(fresh - 1) /\ a.what.name # fresh /\ NoInk(annots, a.id)
             /\ a = [id |-> a.id, kind |-> a.kind, what |-> a.what]
  <2>1. /\ a.id \in 1..fresh - 1 /\ a.kind \in {"text", "markup"} /\ a.what \in What(fresh - 1)
        /\ NoInk(annots, a.id) /\ a = [id |-> a.id, kind |-> a.kind, what |-> a.what]
    BY <1>1, TextsAre
  <2>2. a.what.name \in 1..fresh - 1
    BY <2>1 DEF What
  <2> QED BY <1>1, <2>1, <2>2
<1>3. \A a, b \in Texts(annots) : a.id = b.id => a = b
  BY <1>1, TextsAre
<1> QED BY <1>1, <1>2, <1>3

\* What an operation that is undone or redone does to texts and document: S and
\* E are those it leads to.
Performs(F, op, undo, S, E) ==
    /\ Named(S) /\ JobsFit(S) /\ OpFits(F, S, Unrecorded, Performed(op), ~undo)
    /\ \A q, u : OpFits(F, Texts(annots), Unrecorded, q, u) /\ Differ(q, op)
                 => OpFits(F, S, Unrecorded, q, u)
    /\ DocOf(S, Unrecorded) = E

\* An edit.
LEMMA EditPerforms ==
  ASSUME OneFate, IInv, TextFits, NEW F, NEW op \in Ops(fresh - 1), NEW undo \in BOOLEAN,
         OpFits(F, Texts(annots), Unrecorded, op, undo), op.kind = "edit",
         NEW from, NEW to, from.name = op.before.name, to.name = op.before.name,
         from \in Doc, to \notin Doc, annots' = Overwritten(op.id, to)
  PROVE  Performs(F, op, undo, Texts(annots'), (Doc \ {from}) \cup {to})
<1> DEFINE T == Texts(annots)
           U == Unrecorded
<1>1. EditFits(F, T, op)
  BY DEF OpFits
<1>2. PICK a \in T : a.id = op.id /\ a.what.name = op.before.name
  BY <1>1 DEF EditFits
<1>3. a.what = from /\ a.id \notin U
  <2>1. from \in DocOf(T, U)
    BY DocIs
  <2>2. PICK t \in T : t.id \notin U /\ t.what = from
    BY <2>1, DocHas
  <2>3. t = a
    BY <1>2, <2>2 DEF TextFits, Named
  <2> QED BY <2>2, <2>3
<1> DEFINE b == [id |-> op.id, kind |-> a.kind, what |-> to]
           S == (T \ {a}) \cup {b}
<1>4. Texts(annots') = S
  <2>1. Types /\ Unique(annots) /\ NoInk(annots, a.id)
    BY TextsHere
  <2> QED BY <1>2, <2>1, TextsOverwritten
<1>5. b.id = a.id /\ b.what = to /\ b.what.name = a.what.name
  BY <1>2
<1>6. to # from
  OBVIOUS
<1> HIDE DEF b
<1>7. Named(T) /\ JobsFit(T)
  BY DEF TextFits
<1>8. Named(S) /\ DocOf(S, U) = (DocOf(T, U) \ {from}) \cup {to}
  <2> HIDE DEF T, U
  <2> QED BY <1>3, <1>5, <1>6, <1>7, DocOverwritten
<1>9. \A t \in T : t.id \in U => t \in S
  BY <1>3
<1>10. JobsFit(S)
  BY <1>7, <1>9, JobsStillFit
<1>11. \A t \in T : \E s \in S : s.id = t.id /\ s.what.name = t.what.name
  BY <1>5
<1>12. a.what.name \in F.restyled
  BY <1>1, <1>2 DEF EditFits
<1>13. ASSUME NEW q, NEW u, OpFits(F, T, U, q, u) PROVE OpFits(F, S, U, q, u)
  <2>1. ASSUME q.kind = "presence", q.present
        PROVE  \A t \in T : t.what.name = q.before.name /\ t.id \notin U => t \in S /\ t.id \notin U
    <3>1. q.before.name \notin F.restyled
      BY <1>13, <2>1 DEF OpFits, PresenceFits
    <3> QED BY <1>12, <3>1
  <2>2. ASSUME q.kind = "presence", ~q.present PROVE \A s \in S : s.what.name # q.before.name
    <3>1. \A t \in T : t.what.name # q.before.name
      BY <1>13, <2>2 DEF OpFits, PresenceFits
    <3> QED BY <1>5, <3>1
  <2> HIDE DEF S, T, U
  <2>3. q.kind = "edit" => \A t \in T : t.what.name \in F.restyled =>
                             \E s \in S : s.id = t.id /\ s.what.name = t.what.name
    BY <1>11
  <2> QED BY <1>13, <2>1, <2>2, <2>3, StillFits
<1>14. OpFits(F, S, U, Performed(op), ~undo)
  <2>1. Performed(op) = op
    BY DEF Performed
  <2>2. OpFits(F, S, U, op, undo)
    BY <1>13
  <2> QED BY <2>1, <2>2 DEF OpFits
<1>15. DocOf(S, U) = (Doc \ {from}) \cup {to}
  BY <1>8, DocIs
<1> QED BY <1>4, <1>8, <1>10, <1>13, <1>14, <1>15 DEF Performs

\* What undo and redo make of an operation.
LEMMA PerformedIs ==
  ASSUME NEW n, NEW op \in Ops(n), op.kind = "presence"
  PROVE  LET q == Performed(op) IN
         /\ q.kind = "presence" /\ q.before = op.before /\ q.after = op.after
         /\ q.present <=> ~op.present
         /\ ~op.present => q.id = fresh
<1>1. CASE op.present
  <2>1. Performed(op) = [op EXCEPT !.present = FALSE, !.id = 0]
    BY <1>1 DEF Performed
  <2> QED BY <1>1, <2>1 DEF Ops
<1>2. CASE ~op.present
  <2>1. Performed(op) = [op EXCEPT !.present = TRUE, !.id = fresh]
    BY <1>2 DEF Performed
  <2> QED BY <1>2, <2>1 DEF Ops
<1> QED BY <1>1, <1>2

\* A text is taken off the page.
LEMMA TakePerforms ==
  ASSUME OneFate, IInv, TextFits, NEW F, NEW op \in Ops(fresh - 1), NEW undo \in BOOLEAN,
         OpFits(F, Texts(annots), Unrecorded, op, undo), op.kind = "presence", op.present,
         annots' = Without(op.id)
  PROVE  Performs(F, op, undo, Texts(annots'), Doc \ {op.before})
<1> DEFINE T == Texts(annots)
           U == Unrecorded
           b == Performed(op)
<1>1. PresenceFits(F, T, U, op, undo)
  BY DEF OpFits
<1>2. PICK a \in T : a.id = op.id /\ a.what = op.before /\ a.id \notin U
  BY <1>1 DEF PresenceFits
<1> DEFINE S == T \ {a}
<1>3. Texts(annots') = S
  <2>1. Types /\ Unique(annots) /\ NoInk(annots, a.id) /\ \A s, t \in T : s.id = t.id => s = t
    BY TextsHere
  <2>2. Texts(annots') = {t \in T : t.id # op.id}
    BY <1>2, <2>1, TextsWithout
  <2> QED BY <1>2, <2>1, <2>2
<1>4. Named(T) /\ JobsFit(T)
  BY DEF TextFits
<1>5. Named(S) /\ DocOf(S, U) = DocOf(T, U) \ {op.before}
  <2>1. a \in T /\ a.id \notin U /\ Named(T)
    BY <1>2, <1>4
  <2> HIDE DEF T, U
  <2>2. Named(T \ {a}) /\ DocOf(T \ {a}, U) = DocOf(T, U) \ {a.what}
    BY ONLY <2>1, DocTaken
  <2> QED BY <1>2, <2>2
<1>6. \A t \in T : t.id \in U => t \in S
  BY <1>2
<1>7. JobsFit(S)
  BY <1>4, <1>6, JobsStillFit
<1>8. a.what.name \notin F.restyled
  BY <1>1, <1>2 DEF PresenceFits
<1>9. ASSUME NEW q, NEW u, OpFits(F, T, U, q, u), Differ(q, op) PROVE OpFits(F, S, U, q, u)
  <2>1. q.kind = "edit" => \A t \in T : t.what.name \in F.restyled =>
                             \E s \in S : s.id = t.id /\ s.what.name = t.what.name
    BY <1>8
  <2>2. ASSUME q.kind = "presence", q.present
        PROVE  \A t \in T : t.what.name = q.before.name /\ t.id \notin U => t \in S /\ t.id \notin U
    BY <1>2, <1>9, <2>2 DEF Differ
  <2>3. ASSUME q.kind = "presence", ~q.present PROVE \A s \in S : s.what.name # q.before.name
    BY <1>9, <2>3 DEF OpFits, PresenceFits
  <2> HIDE DEF S, T, U
  <2> QED BY <1>9, <2>1, <2>2, <2>3, StillFits
<1>10. OpFits(F, S, U, b, ~undo)
  <2>1. b.kind = "presence" /\ b.before = op.before /\ b.after = op.after /\ ~b.present
    BY PerformedIs
  <2> HIDE DEF b
  <2>2. \A s \in S : s.what.name # b.before.name
    BY <1>2, <1>4, <2>1 DEF Named
  <2>3. b.before = b.after /\ b.before.name \notin F.restyled
    BY <1>1, <2>1 DEF PresenceFits
  <2>4. b.present <=> (~undo <=> b.before.name \notin F.removed)
    BY <1>1, <2>1 DEF PresenceFits
  <2> QED BY <2>1, <2>2, <2>3, <2>4 DEF OpFits, PresenceFits
<1>11. DocOf(S, U) = Doc \ {op.before}
  BY <1>5, DocIs
<1> QED BY <1>3, <1>5, <1>7, <1>9, <1>10, <1>11 DEF Performs

\* A text is given to the page again.
LEMMA GivePerforms ==
  ASSUME OneFate, IInv, TextFits, NEW F, NEW op \in Ops(fresh - 1), NEW undo \in BOOLEAN,
         OpFits(F, Texts(annots), Unrecorded, op, undo), op.kind = "presence", ~op.present,
         annots' = Append(annots, Annotation(op.of, op.before))
  PROVE  Performs(F, op, undo, Texts(annots'), Doc \cup {op.before})
<1> DEFINE T == Texts(annots)
           U == Unrecorded
           b == Performed(op)
           a == Annotation(op.of, op.before)
           S == T \cup {a}
<1>1. PresenceFits(F, T, U, op, undo)
  BY DEF OpFits
<1>2. \A t \in T : t.what.name # op.before.name
  BY <1>1 DEF PresenceFits
<1>3. a.id = fresh /\ a.what = op.before /\ a.kind # "ink"
  BY OpIs DEF Annotation
<1>4. a.id \notin U
  BY <1>3, UnrecordedIs, TextsHere
<1> HIDE DEF a
<1>5. Texts(annots') = S
  <2>1. annots \in Seq(Annots(fresh - 1)) /\ annots' = Append(annots, a)
    BY TextsHere DEF a
  <2> QED BY <1>3, <2>1, TextsAppend
<1>6. Named(T) /\ JobsFit(T)
  BY DEF TextFits
<1>7. Named(S) /\ DocOf(S, U) = DocOf(T, U) \cup {op.before}
  <2>1. Named(T) /\ a.id \notin U /\ \A t \in T : t.what.name # a.what.name
    BY <1>2, <1>3, <1>4, <1>6
  <2> HIDE DEF T, U
  <2>2. Named(T \cup {a})
    BY ONLY <2>1, DocGiven
  <2>3. DocOf(T \cup {a}, U) = DocOf(T, U) \cup {a.what}
    BY ONLY <2>1, DocGiven
  <2> QED BY <1>3, <2>2, <2>3
<1>8. JobsFit(S)
  BY <1>6, JobsStillFit
<1>9. ASSUME NEW q, NEW u, OpFits(F, T, U, q, u), Differ(q, op) PROVE OpFits(F, S, U, q, u)
  <2>1. q.kind = "edit" => \A t \in T : t.what.name \in F.restyled =>
                             \E s \in S : s.id = t.id /\ s.what.name = t.what.name
    OBVIOUS
  <2>2. q.kind = "presence" /\ q.present =>
          \A t \in T : t.what.name = q.before.name /\ t.id \notin U => t \in S /\ t.id \notin U
    OBVIOUS
  <2>3. ASSUME q.kind = "presence", ~q.present PROVE \A s \in S : s.what.name # q.before.name
    <3>1. \A t \in T : t.what.name # q.before.name
      BY <1>9, <2>3 DEF OpFits, PresenceFits
    <3>2. a.what.name # q.before.name
      BY <1>3, <1>9, <2>3 DEF Differ
    <3> QED BY <3>1, <3>2
  <2> HIDE DEF S, T, U
  <2> QED BY <1>9, <2>1, <2>2, <2>3, StillFits
<1>10. OpFits(F, S, U, b, ~undo)
  <2>1. /\ b.kind = "presence" /\ b.before = op.before /\ b.after = op.after /\ b.present
        /\ b.id = fresh
    BY PerformedIs
  <2> HIDE DEF b
  <2>2. a \in S /\ a.id = b.id /\ a.what = b.before
    BY <1>3, <2>1
  <2>3. b.before = b.after /\ b.before.name \notin F.restyled
    BY <1>1, <2>1 DEF PresenceFits
  <2>4. b.present <=> (~undo <=> b.before.name \notin F.removed)
    BY <1>1, <2>1 DEF PresenceFits
  <2> HIDE DEF S, U
  <2> QED BY <1>4, <2>1, <2>2, <2>3, <2>4 DEF OpFits, PresenceFits
<1>11. DocOf(S, U) = Doc \cup {op.before}
  BY <1>7, DocIs
<1> QED BY <1>5, <1>7, <1>8, <1>9, <1>10, <1>11 DEF Performs

\* An operation is undone or redone: sop is it, or it with its snapshots swapped.
LEMMA PerformIs ==
  ASSUME OneFate, IInv, TextFits, NEW F, NEW op \in Ops(fresh - 1), NEW undo \in BOOLEAN,
         OpFits(F, Texts(annots), Unrecorded, op, undo),
         NEW sop, sop = op \/ sop = Swapped(op), NEW E, Joins(Doc, sop, E),
         Perform(op, sop.before)
  PROVE  Performs(F, op, undo, Texts(annots'), E)
<1>1. /\ sop.kind = op.kind /\ sop.present = op.present
      /\ (sop.before = op.before /\ sop.after = op.after)
         \/ (sop.before = op.after /\ sop.after = op.before)
  BY OpIs
<1>2. CASE op.kind = "edit"
  <2>1. /\ sop.after \in Doc /\ sop.before \notin Doc
        /\ E = (Doc \ {sop.after}) \cup {sop.before}
    BY <1>1, <1>2 DEF Joins
  <2>2. annots' = Overwritten(op.id, sop.before)
    BY <1>2 DEF Perform
  <2>3. EditFits(F, Texts(annots), op)
    BY <1>2 DEF OpFits
  <2>4. sop.before.name = op.before.name /\ sop.after.name = op.before.name
    BY <1>1, <2>3 DEF EditFits
  <2>5. Performs(F, op, undo, Texts(annots'), (Doc \ {sop.after}) \cup {sop.before})
    BY <1>2, <2>1, <2>2, <2>4, EditPerforms
  <2> QED BY <2>1, <2>5
<1>3. CASE op.kind = "presence"
  <2>1. PresenceFits(F, Texts(annots), Unrecorded, op, undo)
    BY <1>3 DEF OpFits
  <2>2. sop.before = op.before
    BY <1>1, <2>1 DEF PresenceFits
  <2>3. CASE op.present
    <3>1. annots' = Without(op.id) /\ E = Doc \ {op.before}
      BY <1>1, <1>3, <2>2, <2>3 DEF Perform, Joins
    <3> QED BY <1>3, <2>3, <3>1, TakePerforms
  <2>4. CASE ~op.present
    <3>1. annots' = Append(annots, Annotation(op.of, op.before)) /\ E = Doc \cup {op.before}
      BY <1>1, <1>3, <2>2, <2>4 DEF Perform, Joins
    <3> QED BY <1>3, <2>4, <3>1, GivePerforms
  <2> QED BY <2>3, <2>4
<1> QED BY <1>2, <1>3, OpIs

-----------------------------------------------------------------------------
(* Stacks that fit *)

\* The first operation of a stack, and the rest.
LEMMA StackHead ==
  ASSUME NEW F, NEW T, NEW U, NEW undo, NEW O, NEW ops \in Seq(O), ops # <<>>, StackFits(F, T, U, ops, undo)
  PROVE  /\ OpFits(F, T, U, Head(ops), undo) /\ StackFits(F, T, U, Tail(ops), undo)
         /\ \A i \in DOMAIN Tail(ops) : Differ(Tail(ops)[i], Head(ops))
<1> DEFINE t == Tail(ops)
<1>1. /\ Head(ops) = ops[1] /\ 1 \in DOMAIN ops
      /\ \A i \in DOMAIN t : i + 1 \in DOMAIN ops /\ t[i] = ops[i + 1] /\ i + 1 # 1 /\ i \in Nat
  BY TailIs
<1> HIDE DEF t
<1>2. \A i \in DOMAIN ops : OpFits(F, T, U, ops[i], undo)
  BY DEF StackFits
<1>3. \A i, k \in DOMAIN ops : i # k => Differ(ops[i], ops[k])
  BY DEF StackFits, AllDiffer
<1>4. \A i \in DOMAIN t : OpFits(F, T, U, t[i], undo) /\ Differ(t[i], Head(ops))
  BY <1>1, <1>2, <1>3
<1>5. ASSUME NEW i \in DOMAIN t, NEW k \in DOMAIN t, i # k PROVE Differ(t[i], t[k])
  <2>1. i + 1 # k + 1
    BY <1>1, <1>5
  <2> QED BY <1>1, <1>3, <2>1
<1> QED BY <1>1, <1>2, <1>4, <1>5 DEF StackFits, AllDiffer, t

\* A stack with an operation more.
LEMMA StackFront ==
  ASSUME NEW F, NEW T, NEW U, NEW undo, NEW O, NEW ops \in Seq(O), StackFits(F, T, U, ops, undo),
         NEW op \in O, OpFits(F, T, U, op, undo),
         \A i \in DOMAIN ops : Differ(op, ops[i]) /\ Differ(ops[i], op)
  PROVE  StackFits(F, T, U, <<op>> \o ops, undo)
<1> DEFINE t == <<op>> \o ops
           L == Len(ops)
<1>1. /\ DOMAIN t = 1..L + 1 /\ t[1] = op /\ L \in Nat /\ DOMAIN ops = 1..L
      /\ \A i \in 2..L + 1 : t[i] = ops[i - 1]
  BY FrontIs
<1> HIDE DEF t, L
<1>2. \A i \in DOMAIN t : i = 1 \/ (i \in 2..L + 1 /\ i - 1 \in DOMAIN ops /\ t[i] = ops[i - 1])
  BY <1>1
<1>3. \A i \in DOMAIN ops : OpFits(F, T, U, ops[i], undo)
  BY DEF StackFits
<1>4. \A i, k \in DOMAIN ops : i # k => Differ(ops[i], ops[k])
  BY DEF StackFits, AllDiffer
<1>5. \A i \in DOMAIN t : OpFits(F, T, U, t[i], undo)
  BY <1>1, <1>2, <1>3
<1>6. ASSUME NEW i \in DOMAIN t, NEW k \in DOMAIN t, i # k PROVE Differ(t[i], t[k])
  <2>1. CASE i = 1
    BY <1>1, <1>2, <1>6, <2>1
  <2>2. CASE k = 1
    BY <1>1, <1>2, <1>6, <2>2
  <2>3. CASE i # 1 /\ k # 1
    <3>1. i - 1 # k - 1
      BY <1>1, <1>6
    <3> QED BY <1>2, <1>4, <2>3, <3>1
  <2> QED BY <2>1, <2>2, <2>3
<1> QED BY <1>5, <1>6 DEF StackFits, AllDiffer, t

\* The texts changed so that each operation still fits.
LEMMA StackStays ==
  ASSUME NEW F, NEW T, NEW U, NEW ops, NEW undo, StackFits(F, T, U, ops, undo), NEW S, NEW V,
         \A i \in DOMAIN ops : OpFits(F, T, U, ops[i], undo) => OpFits(F, S, V, ops[i], undo)
  PROVE  StackFits(F, S, V, ops, undo)
  BY DEF StackFits

\* An operation leaves one stack for the other.
LEMMA StacksSwap ==
  ASSUME OneFate, IInv, TextFits, NEW F, NEW undo \in BOOLEAN, NEW O,
         NEW here \in Seq(O), NEW there \in Seq(O), here # <<>>, Head(here) \in Ops(fresh - 1),
         StackFits(F, Texts(annots), Unrecorded, here, undo),
         StackFits(F, Texts(annots), Unrecorded, there, ~undo),
         NEW S, NEW E, Performs(F, Head(here), undo, S, E), Performed(Head(here)) \in O
  PROVE  /\ StackFits(F, S, Unrecorded, Tail(here), undo)
         /\ StackFits(F, S, Unrecorded, <<Performed(Head(here))>> \o there, ~undo)
<1> DEFINE T == Texts(annots)
           U == Unrecorded
           op == Head(here)
           t == Tail(here)
           back == Performed(op)
<1>1. OpFits(F, T, U, op, undo) /\ StackFits(F, T, U, t, undo) /\ \A i \in DOMAIN t : Differ(t[i], op)
  BY StackHead
<1>2. \A q, u : OpFits(F, T, U, q, u) /\ Differ(q, op) => OpFits(F, S, U, q, u)
  BY DEF Performs
<1>3. OpFits(F, S, U, back, ~undo)
  BY DEF Performs
<1>4. \A i \in DOMAIN there : Differ(there[i], op) /\ Differ(op, there[i])
  <2>1. ASSUME NEW i \in DOMAIN there PROVE Differ(there[i], op) /\ Differ(op, there[i])
    <3>1. OpFits(F, T, U, there[i], ~undo)
      BY DEF StackFits
    <3> HIDE DEF T, U, op
    <3>2. CASE undo = TRUE
      <4>1. OpFits(F, T, U, op, TRUE) /\ OpFits(F, T, U, there[i], FALSE)
        BY <1>1, <3>1, <3>2 DEF OpFits, PresenceFits
      <4> QED BY <4>1, StacksDiffer
    <3>3. CASE undo = FALSE
      <4>1. OpFits(F, T, U, op, FALSE) /\ OpFits(F, T, U, there[i], TRUE)
        BY <1>1, <3>1, <3>3 DEF OpFits, PresenceFits
      <4> QED BY <4>1, StacksDiffer
    <3> QED BY <3>2, <3>3
  <2> QED BY <2>1
<1>5. back.kind = op.kind /\ (op.kind = "presence" => back.before = op.before)
  <2>1. op.kind = "edit" => back = op
    BY DEF Performed
  <2>2. op \in Ops(fresh - 1)
    OBVIOUS
  <2> HIDE DEF op
  <2>3. op.kind = "presence" => back.kind = op.kind /\ back.before = op.before
    BY <2>2, PerformedIs
  <2>4. op.kind \in {"edit", "presence"}
    BY <2>2, OpIs
  <2> QED BY <2>1, <2>3, <2>4
<1> HIDE DEF T, U, op, t, back
<1>6. StackFits(F, S, U, t, undo)
  BY <1>1, <1>2, StackStays
<1>7. StackFits(F, S, U, there, ~undo)
  <2>1. StackFits(F, T, U, there, ~undo)
    BY DEF T, U
  <2> QED BY <1>2, <1>4, <2>1, StackStays
<1>8. \A i \in DOMAIN there : Differ(back, there[i]) /\ Differ(there[i], back)
  BY <1>4, <1>5 DEF Differ
<1>9. back \in O
  BY DEF back, op
<1>10. StackFits(F, S, U, <<back>> \o there, ~undo)
  BY <1>3, <1>7, <1>8, <1>9, StackFront
<1> QED BY <1>6, <1>10 DEF T, U, t, back, op

-----------------------------------------------------------------------------
(* Undo and redo *)

\* Texts, operations and jobs fit each other, and the stacks lead back.
TextRight == TextFits /\ Reversible

\* The document and the stacks have their shape.
LEMMA ShapedIs == ASSUME IInv PROVE Shaped
<1>1. /\ fresh - 1 \in Nat /\ MaxFresh \in Nat /\ fresh - 1 <= MaxFresh
  BY Bounds DEF IInv, Types
<1>2. What(fresh - 1) \subseteq What(MaxFresh) /\ Seq(Ops(fresh - 1)) \subseteq Seq(Ops(MaxFresh))
  BY <1>1, Wider
<1>3. ASSUME NEW x \in Doc PROVE x \in What(MaxFresh)
  <2>1. x \in DocOf(Texts(annots), Unrecorded)
    BY DocIs
  <2>2. PICK a \in Texts(annots) : a.what = x
    BY <2>1, DocHas
  <2>3. a.what \in What(fresh - 1)
    BY TextsHere
  <2> QED BY <1>2, <2>2, <2>3
<1>4. undoStack \in Seq(Ops(fresh - 1)) /\ redoStack \in Seq(Ops(fresh - 1))
  BY DEF IInv, Types
<1> QED BY <1>2, <1>3, <1>4 DEF Shaped, Docs

\* What is performed leaves an operation.
LEMMA PerformedType ==
  ASSUME IInv, IInv', At("idle"), NEW op \in Ops(fresh - 1), OpOK(annots, op),
         NEW what \in What(fresh - 1), Perform(op, what)
  PROVE  Performed(op) \in Ops(MaxFresh)
<1>1. Performed(op) \in Ops(fresh' - 1)
  BY PerformOK
<1>2. fresh' - 1 \in Nat /\ MaxFresh \in Nat /\ fresh' - 1 <= MaxFresh
  <2>1. fresh' \in 1..MaxFresh + 1
    BY DEF IInv, Types
  <2>2. MaxFresh \in Nat
    BY Bounds
  <2> DEFINE f == fresh'
  <2>3. f \in 1..MaxFresh + 1
    BY <2>1
  <2> HIDE DEF f
  <2>4. f - 1 \in Nat /\ f - 1 <= MaxFresh
    BY ONLY <2>2, <2>3
  <2> QED BY <2>2, <2>4 DEF f
<1> DEFINE m == fresh' - 1
<1>3. m \in Nat /\ m <= MaxFresh /\ Performed(op) \in Ops(m)
  BY <1>1, <1>2
<1> HIDE DEF m
<1> QED BY <1>2, <1>3, Wider

\* Undo of a text is the undo of the document.
LEMMA UndoTextRight ==
  ASSUME OneFate, OneFate', IInv, IInv', TextRight, UndoText
  PROVE  TextRight' /\ Document!Undo
<1> DEFINE op == Head(undoStack)
           E == Reverted(Doc, op)
           S == Texts(annots')
           O == Ops(MaxFresh)
<1>1. /\ At("idle") /\ undoStack # <<>> /\ UNCHANGED <<jobs, fate>> /\ Perform(op, op.before)
      /\ undoStack' = Tail(undoStack) /\ redoStack' = <<Performed(op)>> \o redoStack
  BY DEF UndoText, PreferText
<1>2. Shaped /\ Shaped' /\ TextFits /\ Reversible
  <2>1. Shaped'
    BY ShapedIs, PTL
  <2> QED BY <2>1, ShapedIs DEF TextRight
<1>3. /\ undoStack \in Seq(Ops(fresh - 1)) /\ OpsOK(annots, undoStack) /\ fresh - 1 \in Nat
  BY Bounds DEF IInv, Types, TextSound
<1>4. op \in Ops(fresh - 1) /\ OpOK(annots, op)
  BY <1>1, <1>3, OpsMove
<1>5. op \in O /\ undoStack \in Seq(O) /\ redoStack \in Seq(O)
  BY <1>1, <1>2, TailIs DEF Shaped
<1>6. StackFits(fate, Texts(annots), Unrecorded, undoStack, TRUE)
      /\ StackFits(fate, Texts(annots), Unrecorded, redoStack, FALSE)
  BY <1>2 DEF TextFits
<1>7. OpFits(fate, Texts(annots), Unrecorded, op, TRUE)
  BY <1>1, <1>5, <1>6, StackHead
<1>8. Joins(Doc, op, E)
  BY <1>1, <1>2, <1>5, ChainHead DEF Reversible
<1> HIDE DEF op, E
<1>9. Performs(fate, op, TRUE, S, E)
  BY <1>1, <1>2, <1>4, <1>7, <1>8, PerformIs
<1>10. Performed(op) \in O
  <2>1. op.before \in What(fresh - 1)
    BY <1>4, OpIs
  <2> QED BY <1>1, <1>4, <2>1, PerformedType
<1>11. /\ StackFits(fate, S, Unrecorded, undoStack', TRUE) /\ StackFits(fate, S, Unrecorded, redoStack', FALSE)
  <2>1. (~TRUE) = FALSE /\ TRUE \in BOOLEAN
    OBVIOUS
  <2>2. StackFits(fate, Texts(annots), Unrecorded, redoStack, ~TRUE)
    BY <1>6, <2>1
  <2> HIDE DEF S, O
  <2>3. /\ StackFits(fate, S, Unrecorded, Tail(undoStack), TRUE)
        /\ StackFits(fate, S, Unrecorded, <<Performed(op)>> \o redoStack, ~TRUE)
    BY <1>1, <1>2, <1>4, <1>5, <1>6, <1>9, <1>10, <2>1, <2>2, StacksSwap DEF op
  <2> QED BY <1>1, <2>1, <2>3
<1>12. Unrecorded' = Unrecorded
  BY <1>1 DEF Unrecorded
<1>13. Doc' = E
  <2>1. (Doc = DocOf(Texts(annots), Unrecorded))'
    BY DocIs, PTL
  <2> QED BY <1>9, <1>12, <2>1 DEF Performs
<1>14. JobsFit(Texts(annots))' /\ Named(S)
  <2>1. JobsFit(S) /\ Named(S)
    BY <1>9 DEF Performs
  <2> QED BY <1>1, <2>1 DEF JobsFit
<1>15. TextFits'
  BY <1>1, <1>11, <1>12, <1>14 DEF TextFits
<1>16. Opposite(op, Swapped(Performed(op)))
  BY <1>5, PerformedOpposite
<1>17. Reversible' /\ Document!Undo
  BY <1>1, <1>2, <1>10, <1>13, <1>16, DocUndoes DEF op, E
<1> QED BY <1>15, <1>17 DEF TextRight

\* Redo of a text is the redo of the document.
LEMMA RedoTextRight ==
  ASSUME OneFate, OneFate', IInv, IInv', TextRight, RedoText
  PROVE  TextRight' /\ Document!Redo
<1> DEFINE op == Head(redoStack)
           sop == Swapped(op)
           E == Reverted(Doc, sop)
           S == Texts(annots')
           O == Ops(MaxFresh)
<1>1. /\ At("idle") /\ redoStack # <<>> /\ UNCHANGED <<jobs, fate>> /\ Perform(op, op.after)
      /\ redoStack' = Tail(redoStack) /\ undoStack' = <<Performed(op)>> \o undoStack
  BY DEF RedoText
<1>2. Shaped /\ Shaped' /\ TextFits /\ Reversible
  <2>1. Shaped'
    BY ShapedIs, PTL
  <2> QED BY <2>1, ShapedIs DEF TextRight
<1>3. /\ redoStack \in Seq(Ops(fresh - 1)) /\ OpsOK(annots, redoStack) /\ fresh - 1 \in Nat
  BY Bounds DEF IInv, Types, TextSound
<1>4. op \in Ops(fresh - 1) /\ OpOK(annots, op)
  BY <1>1, <1>3, OpsMove
<1>5. op \in O /\ undoStack \in Seq(O) /\ redoStack \in Seq(O)
  BY <1>1, <1>2, TailIs DEF Shaped
<1>6. StackFits(fate, Texts(annots), Unrecorded, undoStack, TRUE)
      /\ StackFits(fate, Texts(annots), Unrecorded, redoStack, FALSE)
  BY <1>2 DEF TextFits
<1>7. OpFits(fate, Texts(annots), Unrecorded, op, FALSE)
  BY <1>1, <1>5, <1>6, StackHead
<1>8. Joins(Doc, sop, E)
  <2> DEFINE a == Swaps(redoStack)
             b == <<sop>> \o Swaps(Tail(redoStack))
  <2>1. redoStack = <<op>> \o Tail(redoStack) /\ Tail(redoStack) \in Seq(O)
    BY <1>1, <1>5, FrontOfTail
  <2>2. a = b /\ sop \in O /\ Swaps(Tail(redoStack)) \in Seq(O)
    <3> DEFINE t == Tail(redoStack)
    <3>1. redoStack = <<op>> \o t /\ t \in Seq(O) /\ op \in O
      BY <1>5, <2>1
    <3> HIDE DEF t, op, O
    <3>2. Swaps(<<op>> \o t) = <<Swapped(op)>> \o Swaps(t)
      BY <3>1, SwapsFront DEF O
    <3> QED BY <3>1, <3>2, OpIs, SwapsAre DEF t, O
  <2>3. a \in Seq(O) /\ a # <<>> /\ Head(a) = sop
    <3> DEFINE t == Swaps(Tail(redoStack))
    <3>1. b = <<sop>> \o t /\ t \in Seq(O) /\ sop \in O
      BY <2>2
    <3> HIDE DEF t, sop, O
    <3>2. <<sop>> \o t \in Seq(O) /\ <<sop>> \o t # <<>> /\ Head(<<sop>> \o t) = sop
      BY <3>1, FrontIs
    <3> QED BY <2>2, <3>2 DEF t
  <2> HIDE DEF a, b, sop
  <2>4. Chain(Doc, a)
    BY <1>2 DEF Reversible, a
  <2>5. Joins(Doc, Head(a), Reverted(Doc, Head(a)))
    BY <2>3, <2>4, ChainHead
  <2> QED BY <2>3, <2>5
<1> HIDE DEF op, E
<1>9. Performs(fate, op, FALSE, S, E)
  <2>1. sop.before = op.after
    BY <1>5, OpIs
  <2> QED BY <1>1, <1>2, <1>4, <1>7, <1>8, <2>1, PerformIs
<1> HIDE DEF sop
<1>10. Performed(op) \in O
  <2>1. op.after \in What(fresh - 1)
    BY <1>4, OpIs
  <2> QED BY <1>1, <1>4, <2>1, PerformedType
<1>11. /\ StackFits(fate, S, Unrecorded, undoStack', TRUE) /\ StackFits(fate, S, Unrecorded, redoStack', FALSE)
  <2>1. (~FALSE) = TRUE /\ FALSE \in BOOLEAN
    OBVIOUS
  <2>2. StackFits(fate, Texts(annots), Unrecorded, undoStack, ~FALSE)
    BY <1>6, <2>1
  <2> HIDE DEF S, O
  <2>3. /\ StackFits(fate, S, Unrecorded, Tail(redoStack), FALSE)
        /\ StackFits(fate, S, Unrecorded, <<Performed(op)>> \o undoStack, ~FALSE)
    BY <1>1, <1>2, <1>4, <1>5, <1>6, <1>9, <1>10, <2>1, <2>2, StacksSwap DEF op
  <2> QED BY <1>1, <2>1, <2>3
<1>12. Unrecorded' = Unrecorded
  BY <1>1 DEF Unrecorded
<1>13. Doc' = E
  <2>1. (Doc = DocOf(Texts(annots), Unrecorded))'
    BY DocIs, PTL
  <2> QED BY <1>9, <1>12, <2>1 DEF Performs
<1>14. JobsFit(Texts(annots))' /\ Named(S)
  <2>1. JobsFit(S) /\ Named(S)
    BY <1>9 DEF Performs
  <2> QED BY <1>1, <2>1 DEF JobsFit
<1>15. TextFits'
  BY <1>1, <1>11, <1>12, <1>14 DEF TextFits
<1>16. Opposite(sop, Performed(op))
  BY <1>5, PerformedOpposite DEF sop
<1>17. Reversible' /\ Document!Redo
  BY <1>1, <1>2, <1>10, <1>13, <1>16, DocRedoes DEF op, E, sop
<1> QED BY <1>15, <1>17 DEF TextRight

-----------------------------------------------------------------------------
(* Edits by the user *)

\* An annotation that is no ink is a text of the page, and of the document but
\* for those that a job has yet to record.
LEMMA TextAt ==
  ASSUME IInv, NEW i \in DOMAIN annots, annots[i].kind # "ink"
  PROVE  /\ annots[i] \in Texts(annots)
         /\ annots[i].id \notin Unrecorded => annots[i].what \in Doc
  BY DEF Texts, Doc

\* What makes an operation.
LEMMA MakesOp ==
  ASSUME NEW n, NEW kind \in {"edit", "presence"}, NEW id \in 0..n, NEW before \in What(n),
         NEW after \in What(n), NEW of \in {"text", "markup"}, NEW present \in BOOLEAN
  PROVE  Op(kind, id, before, after, of, present) \in Ops(n)
  BY DEF Op, Ops

\* Operations of a page are operations.
LEMMA OpsMax == ASSUME IInv PROVE Ops(fresh - 1) \subseteq Ops(MaxFresh)
<1>1. fresh - 1 \in Nat /\ MaxFresh \in Nat /\ fresh - 1 <= MaxFresh
  BY Bounds DEF IInv, Types
<1> QED BY <1>1, Wider

\* The user restyles a text: an edit of the document.
LEMMA RestyleRight ==
  ASSUME OneFate, OneFate', IInv, IInv', TextRight, NEW i \in DOMAIN annots, NEW style \in Styles,
         Restyle(i, style)
  PROVE  TextRight' /\ Document!Edit
<1> DEFINE T == Texts(annots)
           U == Unrecorded
           S == Texts(annots')
           a == annots[i]
           before == a.what
           after == [before EXCEPT !.style = style]
           op == Op("edit", a.id, before, after, "text", TRUE)
           O == Ops(MaxFresh)
           G == fate'
<1>1. /\ At("idle") /\ a.kind = "text" /\ before.name \in G.restyled /\ before.style # style
      /\ fate' = [restyled |-> fate.restyled \cup {before.name}, removed |-> fate.removed]
      /\ annots' = Overwritten(a.id, after) /\ jobs' = jobs
      /\ undoStack' = <<op>> \o undoStack /\ redoStack' = <<>>
  BY DEF Restyle, Push
<1>2. Shaped /\ Shaped' /\ TextFits /\ Reversible /\ Named(T) /\ JobsFit(T)
  <2>1. Shaped'
    BY ShapedIs, PTL
  <2> QED BY <2>1, ShapedIs DEF TextRight, TextFits
<1> HIDE DEF G
<1>22. /\ fate.restyled \subseteq G.restyled /\ fate.removed \subseteq G.removed
       /\ G.restyled \cap G.removed = {} /\ G.restyled \cup G.removed \subseteq 1..FileNumbers
  BY <1>1 DEF OneFate, G
<1>23. StackFits(G, T, U, undoStack, TRUE)
  <2>1. StackFits(fate, T, U, undoStack, TRUE)
    BY DEF TextRight, TextFits
  <2> HIDE DEF T, U
  <2> QED BY <1>22, <2>1, FateGrows DEF StackFits
<1>3. a \in T /\ a.id \in 1..fresh - 1 /\ before \in What(fresh - 1) /\ fresh - 1 \in Nat
  BY <1>1, TextAt, TextsHere
<1>4. a.id \notin U /\ before \in Doc
  <2>1. a.id \notin U
    BY <1>1, <1>2, <1>3, <1>22, UnrecordedIs
  <2> QED BY <1>1, <2>1, TextAt
<1>5. after \in What(fresh - 1) /\ after.name = before.name /\ after # before
  BY <1>1, <1>3 DEF What
<1> HIDE DEF after
<1>6. after \notin Doc
  <2> SUFFICES ASSUME after \in Doc PROVE FALSE
    OBVIOUS
  <2>1. PICK t \in T : t.what = after
    BY DocIs, DocHas
  <2>2. t.what.name = before.name
    BY <1>5, <2>1
  <2>3. t = a
    BY <1>2, <1>3, <2>2 DEF Named
  <2> QED BY <1>5, <2>1, <2>3
<1>7. /\ op.kind = "edit" /\ op.id = a.id /\ op.before = before /\ op.after = after
  <2> HIDE DEF a, before
  <2> QED BY DEF Op
<1>8. op \in Ops(fresh - 1)
  <2>1. a.id \in 0..fresh - 1
    BY <1>3
  <2> HIDE DEF a
  <2> QED BY <1>3, <1>5, <2>1, MakesOp
<1> HIDE DEF op, before
<1>9. OpFits(G, T, U, op, TRUE)
  <2>1. a.what.name = before.name
    BY DEF before
  <2> QED BY <1>1, <1>3, <1>5, <1>7, <2>1 DEF OpFits, EditFits
<1>10. Performs(G, op, TRUE, S, (Doc \ {before}) \cup {after})
  <2>1. before.name = op.before.name /\ after.name = op.before.name
    BY <1>5, <1>7
  <2>2. annots' = Overwritten(op.id, after)
    BY <1>1, <1>7
  <2>3. TRUE \in BOOLEAN
    OBVIOUS
  <2> QED BY <1>2, <1>4, <1>6, <1>7, <1>8, <1>9, <2>1, <2>2, <2>3, EditPerforms
<1>11. op \in O /\ undoStack \in Seq(O)
  BY <1>2, <1>8, OpsMax DEF Shaped
<1>12. \A k \in DOMAIN undoStack : Differ(op, undoStack[k]) /\ Differ(undoStack[k], op)
  BY <1>7 DEF Differ
<1>13. OpFits(G, S, U, op, TRUE)
  <2>1. \A q, u : OpFits(G, T, U, q, u) /\ Differ(q, op) => OpFits(G, S, U, q, u)
    BY <1>10 DEF Performs
  <2>2. Differ(op, op)
    BY <1>7 DEF Differ
  <2> QED BY <1>9, <2>1, <2>2
<1>14. StackFits(G, S, U, undoStack', TRUE)
  <2>1. \A q, u : OpFits(G, T, U, q, u) /\ Differ(q, op) => OpFits(G, S, U, q, u)
    BY <1>10 DEF Performs
  <2> HIDE DEF T, U, S, O
  <2>2. StackFits(G, S, U, undoStack, TRUE)
    BY <1>12, <1>23, <2>1, StackStays
  <2> QED BY <1>1, <1>11, <1>12, <1>13, <2>2, StackFront
<1>15. Unrecorded' = U
  BY <1>1 DEF Unrecorded
<1>16. JobsFit(Texts(annots))' /\ Named(S)
  <2>1. JobsFit(S) /\ Named(S)
    BY <1>10 DEF Performs
  <2> QED BY <1>1, <2>1 DEF JobsFit
<1>17. StackFits(G, S, U, <<>>, FALSE)
  BY DEF StackFits, AllDiffer
<1>18. TextFits'
  BY <1>1, <1>14, <1>15, <1>16, <1>17 DEF TextFits, G
<1>19. Doc' = (Doc \ {before}) \cup {after}
  <2>1. (Doc = DocOf(Texts(annots), Unrecorded))'
    BY DocIs, PTL
  <2> QED BY <1>10, <1>15, <2>1 DEF Performs
<1>20. Joins(Doc', op, Doc)
  BY <1>4, <1>5, <1>6, <1>7, <1>19 DEF Joins
<1>21. Reversible' /\ Document!Edit
  BY <1>1, <1>2, <1>11, <1>20, DocEdits
<1> QED BY <1>18, <1>21 DEF TextRight

\* The user removes a text: an edit of the document.
LEMMA RemoveTextRight ==
  ASSUME OneFate, OneFate', IInv, IInv', TextRight, NEW i \in DOMAIN annots, RemoveText(i)
  PROVE  TextRight' /\ Document!Edit
<1> DEFINE T == Texts(annots)
           U == Unrecorded
           S == Texts(annots')
           a == annots[i]
           here == Op("presence", a.id, a.what, a.what, "text", TRUE)
           op == Op("presence", 0, a.what, a.what, "text", FALSE)
           O == Ops(MaxFresh)
           G == fate'
<1>1. /\ a.kind = "text" /\ a.what.name \in G.removed /\ annots' = Without(a.id) /\ jobs' = jobs
      /\ fate' = [restyled |-> fate.restyled, removed |-> fate.removed \cup {a.what.name}]
      /\ undoStack' = <<op>> \o undoStack /\ redoStack' = <<>>
  BY DEF RemoveText, Push
<1>2. Shaped /\ Shaped' /\ TextFits /\ Reversible
  <2>1. Shaped'
    BY ShapedIs, PTL
  <2> QED BY <2>1, ShapedIs DEF TextRight, TextFits
<1> HIDE DEF G
<1>22. /\ fate.restyled \subseteq G.restyled /\ fate.removed \subseteq G.removed
       /\ G.restyled \cap G.removed = {} /\ G.restyled \cup G.removed \subseteq 1..FileNumbers
  BY <1>1 DEF OneFate, G
<1>23. StackFits(G, T, U, undoStack, TRUE)
  <2>1. StackFits(fate, T, U, undoStack, TRUE)
    BY DEF TextRight, TextFits
  <2> HIDE DEF T, U
  <2> QED BY <1>22, <2>1, FateGrows DEF StackFits
<1>3. a \in T /\ a.id \in 1..fresh - 1 /\ a.what \in What(fresh - 1) /\ fresh - 1 \in Nat
  BY <1>1, TextAt, TextsHere
<1>4. a.id \notin U /\ a.what \in Doc
  <2>1. a.id \notin U
    BY <1>1, <1>2, <1>3, <1>22, UnrecordedIs
  <2> QED BY <1>1, <2>1, TextAt
<1>5. a.what.name \notin G.restyled
  BY <1>1, <1>22
<1>6. /\ here.kind = "presence" /\ here.id = a.id /\ here.before = a.what /\ here.after = a.what
      /\ here.present = TRUE
      /\ op.kind = "presence" /\ op.before = a.what /\ op.after = a.what /\ op.present = FALSE
  <2> HIDE DEF a
  <2> QED BY DEF Op
<1>7. here \in Ops(fresh - 1) /\ op \in Ops(fresh - 1)
  <2>1. a.id \in 0..fresh - 1 /\ 0 \in 0..fresh - 1
    BY <1>3
  <2> HIDE DEF a
  <2> QED BY <1>3, <2>1, MakesOp
<1>8. Performed(here) = op
  <2>1. Performed(here) = [here EXCEPT !.present = FALSE, !.id = 0]
    BY <1>6 DEF Performed
  <2> QED BY <2>1 DEF Op
<1> HIDE DEF here, op
<1>9. OpFits(G, T, U, here, FALSE)
  BY <1>1, <1>3, <1>4, <1>5, <1>6 DEF OpFits, PresenceFits
<1>10. Performs(G, here, FALSE, S, Doc \ {a.what})
  <2>1. annots' = Without(here.id) /\ FALSE \in BOOLEAN
    BY <1>1, <1>6
  <2>2. Performs(G, here, FALSE, S, Doc \ {here.before})
    BY <1>2, <1>6, <1>7, <1>9, <2>1, TakePerforms
  <2> QED BY <1>6, <2>2
<1>11. op \in O /\ undoStack \in Seq(O)
  BY <1>2, <1>7, OpsMax DEF Shaped
<1>12. \A k \in DOMAIN undoStack : Differ(here, undoStack[k]) /\ Differ(undoStack[k], here)
  <2>1. \A k \in DOMAIN undoStack : OpFits(G, T, U, undoStack[k], TRUE)
    BY <1>23 DEF StackFits
  <2> HIDE DEF T, U
  <2> QED BY <1>9, <2>1, StacksDiffer
<1>13. OpFits(G, S, U, op, TRUE)
  <2>1. OpFits(G, S, U, op, ~FALSE)
    BY <1>8, <1>10 DEF Performs
  <2>2. (~FALSE) = TRUE
    OBVIOUS
  <2> HIDE DEF S, U
  <2> QED BY <2>1, <2>2
<1>14. StackFits(G, S, U, undoStack', TRUE)
  <2>1. \A q, u : OpFits(G, T, U, q, u) /\ Differ(q, here) => OpFits(G, S, U, q, u)
    BY <1>10 DEF Performs
  <2> HIDE DEF T, U, S, O
  <2>2. StackFits(G, S, U, undoStack, TRUE)
    BY <1>12, <1>23, <2>1, StackStays
  <2>3. \A k \in DOMAIN undoStack : Differ(op, undoStack[k]) /\ Differ(undoStack[k], op)
    BY <1>6, <1>12 DEF Differ
  <2> QED BY <1>1, <1>11, <1>13, <2>2, <2>3, StackFront
<1>15. Unrecorded' = U
  BY <1>1 DEF Unrecorded
<1>16. JobsFit(Texts(annots))' /\ Named(S)
  <2>1. JobsFit(S) /\ Named(S)
    BY <1>10 DEF Performs
  <2> QED BY <1>1, <2>1 DEF JobsFit
<1>17. StackFits(G, S, U, <<>>, FALSE)
  BY DEF StackFits, AllDiffer
<1>18. TextFits'
  BY <1>1, <1>14, <1>15, <1>16, <1>17 DEF TextFits, G
<1>19. Doc' = Doc \ {a.what}
  <2>1. (Doc = DocOf(Texts(annots), Unrecorded))'
    BY DocIs, PTL
  <2> QED BY <1>10, <1>15, <2>1 DEF Performs
<1>20. Joins(Doc', op, Doc)
  BY <1>4, <1>6, <1>19 DEF Joins
<1>21. Reversible' /\ Document!Edit
  BY <1>1, <1>2, <1>11, <1>20, DocEdits
<1> QED BY <1>18, <1>21 DEF TextRight

-----------------------------------------------------------------------------
(* Texts that jobs add *)

\* A job goes on: whose annotations are yet to be recorded.
LEMMA UnrecordedMoves ==
  ASSUME NEW S, jobs \in [Jobs -> S], NEW j \in Jobs, NEW job, jobs' = [jobs EXCEPT ![j] = job]
  PROVE  /\ ~Adding(jobs[j]) /\ ~Adding(job) => Unrecorded' = Unrecorded
         /\ ~Adding(jobs[j]) /\ Adding(job) => Unrecorded' = Unrecorded \cup {job.own}
         /\ Adding(jobs[j]) /\ Adding(job) /\ job.own = jobs[j].own => Unrecorded' = Unrecorded
         /\ /\ Adding(jobs[j]) /\ ~Adding(job)
            /\ \A k \in Jobs : k # j /\ Adding(jobs[k]) => jobs[k].own # jobs[j].own
            => Unrecorded' = Unrecorded \ {jobs[j].own}
<1> DEFINE K == {k \in Jobs : Adding(jobs[k])}
           L == {k \in Jobs : Adding(jobs'[k])}
<1>1. Unrecorded = {jobs[k].own : k \in K} /\ Unrecorded' = {jobs'[k].own : k \in L}
  BY DEF Unrecorded, Adding
<1>2. jobs'[j] = job /\ \A k \in Jobs : k # j => jobs'[k] = jobs[k]
  OBVIOUS
<1> HIDE DEF Adding
<1>3. ASSUME ~Adding(jobs[j]), ~Adding(job) PROVE Unrecorded' = Unrecorded
  BY <1>1, <1>2, <1>3
<1>4. ASSUME ~Adding(jobs[j]), Adding(job) PROVE Unrecorded' = Unrecorded \cup {job.own}
  BY <1>1, <1>2, <1>4
<1>5. ASSUME Adding(jobs[j]), Adding(job), job.own = jobs[j].own PROVE Unrecorded' = Unrecorded
  BY <1>1, <1>2, <1>5
<1>6. ASSUME Adding(jobs[j]), ~Adding(job),
             \A k \in Jobs : k # j /\ Adding(jobs[k]) => jobs[k].own # jobs[j].own
      PROVE  Unrecorded' = Unrecorded \ {jobs[j].own}
  BY <1>1, <1>2, <1>6
<1> QED BY <1>3, <1>4, <1>5, <1>6

\* It fits the page, and so do the others.
LEMMA JobsMove ==
  ASSUME NEW S, jobs \in [Jobs -> S], NEW j \in Jobs, NEW job, jobs' = [jobs EXCEPT ![j] = job],
         JobsFit(Texts(annots)), Texts(annots) \subseteq Texts(annots'),
         Adding(job) => /\ JobFits(Texts(annots'), job)
                        /\ \A k \in Jobs : k # j /\ Adding(jobs[k]) => jobs[k].own # job.own
  PROVE  JobsFit(Texts(annots))'
<1> DEFINE R == Texts(annots')
<1>1. jobs'[j] = job /\ \A k \in Jobs : k # j => jobs'[k] = jobs[k]
  OBVIOUS
<1>2. ASSUME NEW k \in Jobs, k # j, Adding(jobs[k]) PROVE JobFits(R, jobs[k])
  <2>1. JobFits(Texts(annots), jobs[k])
    BY <1>2 DEF JobsFit
  <2> QED BY <2>1 DEF JobFits
<1>3. \A k \in Jobs : Adding(jobs'[k]) => JobFits(R, jobs'[k])
  BY <1>1, <1>2
<1>4. ASSUME NEW i \in Jobs, NEW k \in Jobs, i # k, Adding(jobs'[i]), Adding(jobs'[k])
      PROVE  jobs'[i].own # jobs'[k].own
  <2>1. CASE i = j
    BY <1>1, <1>4, <2>1
  <2>2. CASE k = j
    BY <1>1, <1>4, <2>2
  <2>3. CASE i # j /\ k # j
    BY <1>1, <1>4, <2>3 DEF JobsFit
  <2> QED BY <2>1, <2>2, <2>3
<1>5. R = (Texts(annots))'
  BY DEF Texts
<1> HIDE DEF R
<1> QED BY <1>3, <1>4, <1>5 DEF JobsFit

\* What is on the page changed so that the document stays.
LEMMA TextStays ==
  ASSUME IInv', TextRight, UNCHANGED text, Named(Texts(annots')), JobsFit(Texts(annots))',
         DocOf(Texts(annots'), Unrecorded') = DocOf(Texts(annots), Unrecorded),
         \A q \in Ops(fresh - 1) : \A u : OpFits(fate, Texts(annots), Unrecorded, q, u)
                                      => OpFits(fate, Texts(annots'), Unrecorded', q, u),
         Types
  PROVE  TextRight' /\ UNCHANGED Document!vars
<1> DEFINE T == Texts(annots)
           U == Unrecorded
           S == Texts(annots')
           V == Unrecorded'
<1>1. undoStack' = undoStack /\ redoStack' = redoStack /\ fate' = fate
  BY DEF text
<1>2. undoStack \in Seq(Ops(fresh - 1)) /\ redoStack \in Seq(Ops(fresh - 1))
  BY DEF Types
<1>3. StackFits(fate, T, U, undoStack, TRUE) /\ StackFits(fate, T, U, redoStack, FALSE)
  BY DEF TextRight, TextFits
<1> HIDE DEF T, U, S, V
<1>4. StackFits(fate, S, V, undoStack, TRUE) /\ StackFits(fate, S, V, redoStack, FALSE)
  <2>1. \A q \in Ops(fresh - 1) : \A u : OpFits(fate, T, U, q, u) => OpFits(fate, S, V, q, u)
    BY DEF T, U, S, V
  <2>4. /\ \A i \in DOMAIN undoStack : undoStack[i] \in Ops(fresh - 1)
        /\ \A i \in DOMAIN redoStack : redoStack[i] \in Ops(fresh - 1)
    BY <1>2
  <2>2. \A i \in DOMAIN undoStack :
         OpFits(fate, T, U, undoStack[i], TRUE) => OpFits(fate, S, V, undoStack[i], TRUE)
    BY ONLY <2>1, <2>4
  <2>3. \A i \in DOMAIN redoStack :
         OpFits(fate, T, U, redoStack[i], FALSE) => OpFits(fate, S, V, redoStack[i], FALSE)
    BY ONLY <2>1, <2>4
  <2> QED BY <1>3, <2>2, <2>3, StackStays
<1>5. TextFits'
  BY <1>1, <1>4 DEF TextFits, S, V
<1>6. Doc' = Doc
  <2>1. (Doc = DocOf(Texts(annots), Unrecorded))'
    BY DocIs, PTL
  <2> QED BY <2>1, DocIs
<1> QED BY <1>5, <1>6, DocStays DEF TextRight

\* A job lists the page.
LEMMA AddListRight ==
  ASSUME OneFate, IInv, IInv', TextRight, NEW j \in Jobs, AddList(j)
  PROVE  TextRight' /\ UNCHANGED Document!vars
<1> DEFINE job == [at |-> "listed", known |-> Ids]
<1>1. /\ jobs' = [jobs EXCEPT ![j] = job] /\ annots' = annots /\ UNCHANGED text
      /\ jobs[j].at = "none" /\ Types /\ jobs \in [Jobs -> JobStates(fresh - 1)]
      /\ JobsFit(Texts(annots)) /\ Named(Texts(annots))
  BY DEF AddList, IInv, Types, TextRight, TextFits
<1>2. ~Adding(jobs[j]) /\ ~Adding(job)
  BY <1>1 DEF Adding
<1> HIDE DEF job
<1>3. Unrecorded' = Unrecorded
  BY <1>1, <1>2, UnrecordedMoves
<1>4. JobsFit(Texts(annots))'
  BY <1>1, <1>2, JobsMove
<1> QED BY <1>1, <1>3, <1>4, TextStays

\* It adds a text, which nobody sees yet.
LEMMA AddNativeRight ==
  ASSUME OneFate, IInv, IInv', TextRight, NEW j \in Jobs, NEW kind \in {"text", "markup"},
         AddNative(j, kind), FileNumbers < fresh
  PROVE  TextRight' /\ UNCHANGED Document!vars
<1> DEFINE what == [name |-> fresh, style |-> Plain]
           job == [at |-> "added", kind |-> kind, what |-> what, known |-> jobs[j].known,
                   own |-> fresh]
           a == Annotation(kind, what)
           T == Texts(annots)
           U == Unrecorded
           S == Texts(annots')
<1>1. /\ jobs[j].at = "listed" /\ annots' = Append(annots, a) /\ UNCHANGED text
      /\ jobs' = [jobs EXCEPT ![j] = job]
  BY DEF AddNative
<1>2. /\ Types /\ jobs \in [Jobs -> JobStates(fresh - 1)] /\ jobs[j] \in JobStates(fresh - 1)
      /\ JobsFit(T) /\ Named(T) /\ TextFits
  BY DEF IInv, Types, TextRight, TextFits
<1>3. a.id = fresh /\ a.kind = kind /\ a.kind # "ink" /\ a.what = what /\ a.what.name = fresh
  BY DEF Annotation
<1>4. S = T \cup {a}
  <2>1. annots \in Seq(Annots(fresh - 1))
    BY TextsHere
  <2> HIDE DEF a
  <2> QED BY <1>1, <1>3, <2>1, TextsAppend
<1>5. \A t \in T : t.id # fresh /\ t.what.name # fresh
  BY TextsHere
<1>6. /\ Adding(job) /\ ~Adding(jobs[j]) /\ job.own = fresh /\ job.at = "added"
      /\ job.kind = kind /\ job.what = what /\ job.known = jobs[j].known
  BY <1>1 DEF Adding
<1>7. fresh \notin jobs[j].known /\ fresh \notin 1..FileNumbers
  <2>1. fresh - 1 \in Nat /\ fresh \in Nat
    BY TextsHere
  <2>2. jobs[j].known \in SUBSET (1..fresh - 1)
    BY <1>1, <1>2, <2>1, JobIs
  <2>3. fresh \notin jobs[j].known
    BY <2>1, <2>2
  <2> QED BY <2>1, <2>3, Bounds
<1> HIDE DEF job, a
<1>8. JobFits(S, job)
  BY <1>3, <1>4, <1>6, <1>7 DEF JobFits
<1>9. \A k \in Jobs : k # j /\ Adding(jobs[k]) => jobs[k].own # job.own
  <2> SUFFICES ASSUME NEW k \in Jobs, Adding(jobs[k]) PROVE jobs[k].own # fresh
    BY <1>6
  <2>1. \E t \in T : t.id = jobs[k].own
    BY <1>2 DEF JobsFit, JobFits
  <2> QED BY <1>5, <2>1
<1>10. JobsFit(Texts(annots))'
  BY <1>1, <1>2, <1>4, <1>8, <1>9, JobsMove
<1>11. Unrecorded' = U \cup {fresh}
  BY <1>1, <1>2, <1>6, UnrecordedMoves
<1>12. Named(S)
  BY <1>2, <1>3, <1>4, <1>5 DEF Named
<1>13. DocOf(S, Unrecorded') = DocOf(T, U)
  <2>1. \A t \in T : t.id # a.id
    BY <1>3, <1>5
  <2>2. DocOf(T \cup {a}, U \cup {a.id}) = DocOf(T, U)
    BY <2>1, DocHides
  <2> QED BY <1>3, <1>4, <1>11, <2>2
<1>14. ASSUME NEW q \in Ops(fresh - 1), NEW u, OpFits(fate, T, U, q, u)
       PROVE  OpFits(fate, S, Unrecorded', q, u)
  <2> DEFINE V == U \cup {fresh}
  <2>1. q.before.name # fresh
    <3>1. q.before \in What(fresh - 1) /\ fresh \in Nat
      BY TextsHere DEF Ops
    <3> QED BY <3>1 DEF What
  <2>2. \A t \in T : t.what.name \in fate.restyled =>
           \E b \in S : b.id = t.id /\ b.what.name = t.what.name
    BY <1>4
  <2>3. \A t \in T : t.what.name = q.before.name /\ t.id \notin U => t \in S /\ t.id \notin V
    BY <1>4, <1>5
  <2>4. q.kind = "presence" /\ ~q.present => \A b \in S : b.what.name # q.before.name
    <3> SUFFICES ASSUME q.kind = "presence", ~q.present, NEW b \in S
                 PROVE  b.what.name # q.before.name
      OBVIOUS
    <3>1. CASE b \in T
      BY <1>14, <3>1 DEF OpFits, PresenceFits
    <3>2. CASE b = a
      BY <1>3, <2>1, <3>2
    <3> QED BY <1>4, <3>1, <3>2
  <2> HIDE DEF T, U, S, V
  <2>5. OpFits(fate, S, V, q, u)
    BY <1>14, <2>2, <2>3, <2>4, StillFits
  <2> QED BY <1>11, <2>5 DEF V
<1> QED BY <1>1, <1>2, <1>10, <1>12, <1>13, <1>14, TextStays

\* What a job finds is what it added: it is new, of the kind and with the name
\* the job gave it, and no other text has that name.
LEMMA FindsOwn ==
  ASSUME IInv, Named(Texts(annots)), NEW job, JobFits(Texts(annots), job), job.at = "added",
         job.kind \in {"text", "markup"}, NEW id \in FindNew(job.kind, job.what, job.known)
  PROVE  id = job.own
<1> DEFINE new == {i \in DOMAIN annots : annots[i].kind = job.kind /\ annots[i].id \notin job.known}
           near == {i \in new : annots[i].what = job.what}
<1>1. PICK a \in Texts(annots) : a.id = job.own /\ a.kind = job.kind /\ a.what = job.what
  BY DEF JobFits
<1>2. job.own \notin job.known
  BY DEF JobFits
<1>3. near # {}
  <2>1. PICK i \in DOMAIN annots : a = annots[i]
    BY DEF Texts
  <2>2. i \in near
    BY <1>1, <1>2, <2>1
  <2> QED BY <2>2
<1>4. near \in SUBSET Nat
  BY TextsHere
<1>5. Min(near) \in near
  BY <1>3, <1>4, MinIs
<1>6. id = annots[Min(near)].id
  BY <1>3 DEF FindNew
<1>7. annots[Min(near)] \in Texts(annots) /\ annots[Min(near)].what = a.what
  BY <1>1, <1>5 DEF Texts
<1>8. annots[Min(near)] = a
  BY <1>7 DEF Named
<1> QED BY <1>1, <1>6, <1>8

\* It takes what it found for its own.
LEMMA AddFindRight ==
  ASSUME OneFate, IInv, IInv', TextRight, NEW j \in Jobs, AddFind(j)
  PROVE  TextRight' /\ UNCHANGED Document!vars
<1> DEFINE T == Texts(annots)
           old == jobs[j]
           new(id) == [at |-> "found", kind |-> old.kind, what |-> old.what,
                       own |-> old.own, id |-> id]
<1>1. /\ old.at = "added" /\ annots' = annots /\ UNCHANGED text
      /\ Types /\ jobs \in [Jobs -> JobStates(fresh - 1)] /\ JobsFit(T) /\ Named(T)
      /\ jobs[j] \in JobStates(fresh - 1) /\ fresh - 1 \in Nat
  BY TextsHere DEF AddFind, IInv, Types, TextRight, TextFits
<1>2. Adding(old)
  BY <1>1 DEF Adding
<1>3. JobFits(T, old) /\ \A k \in Jobs : k # j /\ Adding(jobs[k]) => jobs[k].own # old.own
  BY <1>1, <1>2 DEF JobsFit
<1>4. PICK id \in FindNew(old.kind, old.what, old.known) : jobs' = [jobs EXCEPT ![j] = new(id)]
  BY DEF AddFind
<1>5. old.kind \in {"text", "markup"}
  BY <1>1, JobIs
<1> DEFINE job == new(id)
<1> HIDE DEF old
<1>6. id = old.own
  BY <1>1, <1>3, <1>4, <1>5, FindsOwn
<1>7. /\ Adding(job) /\ job.own = old.own /\ job.at = "found" /\ job.kind = old.kind
      /\ job.what = old.what /\ job.id = id
  BY DEF Adding
<1>8. jobs' = [jobs EXCEPT ![j] = job]
  BY <1>4
<1> HIDE DEF job
<1>9. JobFits(T, job)
  BY <1>3, <1>6, <1>7 DEF JobFits
<1>10. T = Texts(annots')
  BY <1>1
<1>11. JobsFit(Texts(annots))'
  BY <1>1, <1>3, <1>7, <1>8, <1>9, <1>10, JobsMove
<1>12. Unrecorded' = Unrecorded
  BY <1>1, <1>2, <1>7, <1>8, UnrecordedMoves DEF old
<1> QED BY <1>1, <1>10, <1>11, <1>12, TextStays

\* What it added is recorded: an edit of the document.
LEMMA AddPushRight ==
  ASSUME OneFate, OneFate', IInv, IInv', TextRight, NEW j \in Jobs, AddPush(j)
  PROVE  TextRight' /\ Document!Edit
<1> DEFINE T == Texts(annots)
           U == Unrecorded
           V == U \ {jobs[j].own}
           job == jobs[j]
           what == job.what
           op == Op("presence", job.id, what, what, job.kind, TRUE)
           O == Ops(MaxFresh)
<1>1. /\ job.at = "found" /\ annots' = annots /\ UNCHANGED fate /\ jobs' = [jobs EXCEPT ![j] = NoJob]
      /\ Types /\ jobs \in [Jobs -> JobStates(fresh - 1)] /\ JobsFit(T) /\ Named(T)
      /\ jobs[j] \in JobStates(fresh - 1) /\ fresh - 1 \in Nat
  BY TextsHere DEF AddPush, text, IInv, Types, TextRight, TextFits
<1>2. Adding(job) /\ ~Adding(NoJob)
  BY <1>1 DEF Adding, NoJob
<1>3. JobFits(T, job) /\ \A k \in Jobs : k # j /\ Adding(jobs[k]) => jobs[k].own # job.own
  BY <1>1, <1>2 DEF JobsFit
<1>4. PICK a \in T : a.id = job.own /\ a.kind = job.kind /\ a.what = what
  BY <1>3 DEF JobFits
<1>5. job.id = job.own /\ what.name = job.own /\ job.own \notin 1..FileNumbers
  BY <1>1, <1>3 DEF JobFits
<1>6. /\ a.id \in 1..fresh - 1 /\ a.kind \in {"text", "markup"} /\ a.what \in What(fresh - 1)
      /\ \A s, t \in T : s.id = t.id => s = t
  BY TextsHere
<1>7. job.id # 0
  BY <1>1, <1>4, <1>5, <1>6
<1>8. undoStack' = <<op>> \o undoStack /\ redoStack' = <<>>
  BY <1>7 DEF AddPush, Push
<1>9. Shaped /\ Shaped' /\ TextFits /\ Reversible /\ StackFits(fate, T, U, undoStack, TRUE)
  <2>1. Shaped'
    BY ShapedIs, PTL
  <2> QED BY <2>1, ShapedIs DEF TextRight, TextFits
<1>10. a.id \in U
  BY <1>2, <1>4 DEF Unrecorded, Adding
<1>11. what.name \notin fate.restyled /\ what.name \notin fate.removed /\ what.name \notin 1..FileNumbers
  BY <1>5 DEF OneFate
<1>12. op \in Ops(fresh - 1)
  <2>1. job.id \in 0..fresh - 1 /\ what \in What(fresh - 1) /\ job.kind \in {"text", "markup"}
    BY <1>1, <1>4, <1>5, <1>6
  <2> HIDE DEF job, what
  <2> QED BY <1>1, <2>1, MakesOp
<1>13. /\ op.kind = "presence" /\ op.id = job.id /\ op.before = what /\ op.after = what
       /\ op.present = TRUE
  <2> HIDE DEF job, what
  <2> QED BY DEF Op
<1>14. Unrecorded' = V
  BY <1>1, <1>2, <1>3, UnrecordedMoves
<1> HIDE DEF op, job, what
<1>15. OpFits(fate, T, V, op, TRUE)
  <2>1. a.id \notin V
    BY <1>4 DEF job
  <2>2. op.present => \E t \in T : t.id = op.id /\ t.what = op.before /\ t.id \notin V
    BY <1>4, <1>5, <1>13, <2>1
  <2> QED BY <1>11, <1>13, <2>2 DEF OpFits, PresenceFits
<1>16. StackFits(fate, T, V, undoStack, TRUE)
  <2>1. ASSUME NEW q, OpFits(fate, T, U, q, TRUE) PROVE OpFits(fate, T, V, q, TRUE)
    <3>1. \A t \in T : t.what.name \in fate.restyled =>
             \E b \in T : b.id = t.id /\ b.what.name = t.what.name
      OBVIOUS
    <3>2. \A t \in T : t.what.name = q.before.name /\ t.id \notin U => t \in T /\ t.id \notin V
      OBVIOUS
    <3>3. q.kind = "presence" /\ ~q.present => \A b \in T : b.what.name # q.before.name
      BY <2>1 DEF OpFits, PresenceFits
    <3> HIDE DEF T, U, V
    <3> QED BY <2>1, <3>1, <3>2, <3>3, StillFits
  <2> HIDE DEF T, U, V
  <2> QED BY <1>9, <2>1, StackStays
<1>17. \A k \in DOMAIN undoStack : Differ(op, undoStack[k]) /\ Differ(undoStack[k], op)
  <2> SUFFICES ASSUME NEW k \in DOMAIN undoStack, undoStack[k].kind = "presence"
               PROVE  undoStack[k].before.name # what.name
    BY <1>13 DEF Differ
  <2>1. PresenceFits(fate, T, U, undoStack[k], TRUE)
    BY <1>9 DEF StackFits, OpFits
  <2>2. CASE undoStack[k].present
    <3>1. PICK t \in T : t.what = undoStack[k].before /\ t.id \notin U
      BY <2>1, <2>2 DEF PresenceFits
    <3>2. t # a
      BY <1>10, <3>1
    <3>3. t.what.name # a.what.name
      BY <1>1, <3>2 DEF Named
    <3> QED BY <1>4, <3>1, <3>3
  <2>3. CASE ~undoStack[k].present
    BY <1>4, <2>1, <2>3 DEF PresenceFits
  <2> QED BY <2>2, <2>3
<1>18. op \in O /\ undoStack \in Seq(O)
  BY <1>9, <1>12, OpsMax DEF Shaped
<1>19. StackFits(fate, T, V, undoStack', TRUE)
  <2> HIDE DEF T, V, O
  <2> QED BY <1>8, <1>15, <1>16, <1>17, <1>18, StackFront
<1>20. JobsFit(Texts(annots))'
  <2>1. T = Texts(annots')
    BY <1>1
  <2> QED BY <1>1, <1>2, <2>1, JobsMove
<1>21. StackFits(fate, T, V, <<>>, FALSE)
  BY DEF StackFits, AllDiffer
<1>22. TextFits'
  BY <1>1, <1>8, <1>14, <1>19, <1>20, <1>21 DEF TextFits
<1>23. what \notin Doc /\ Doc' = Doc \cup {what}
  <2>1. (Doc = DocOf(Texts(annots), Unrecorded))'
    BY DocIs, PTL
  <2>2. a.what \notin DocOf(T, U) /\ DocOf(T, U \ {a.id}) = DocOf(T, U) \cup {a.what}
    <3>1. Named(T) /\ (\A s, t \in T : s.id = t.id => s = t) /\ a.id \in U /\ a \in T
      BY <1>1, <1>6, <1>10
    <3> HIDE DEF T, U
    <3> QED BY ONLY <3>1, DocShows
  <2>3. V = U \ {a.id}
    BY <1>4 DEF job
  <2>4. Doc' = DocOf(T, V)
    BY <1>1, <1>14, <2>1
  <2>5. Doc = DocOf(T, U)
    BY DocIs
  <2>6. a.what = what
    BY <1>4
  <2> HIDE DEF T, U, V
  <2> QED BY <2>2, <2>3, <2>4, <2>5, <2>6
<1>24. Joins(Doc', op, Doc)
  BY <1>13, <1>23 DEF Joins
<1>25. Reversible' /\ Document!Edit
  BY <1>8, <1>9, <1>18, <1>24, DocEdits
<1> QED BY <1>22, <1>25 DEF TextRight

-----------------------------------------------------------------------------
(* Texts while the ink changes *)

\* The texts of the page, the jobs and the stacks stay.
LEMMA InkStays ==
  ASSUME IInv', TextRight, UNCHANGED text, jobs' = jobs, Texts(annots') = Texts(annots), Types
  PROVE  TextRight' /\ UNCHANGED Document!vars
<1>1. Unrecorded' = Unrecorded
  BY DEF Unrecorded
<1>2. Named(Texts(annots')) /\ JobsFit(Texts(annots))'
  BY DEF TextRight, TextFits, JobsFit
<1> QED BY <1>1, <1>2, TextStays

\* Ink taken off the page leaves the texts, and so does ink added to it.
LEMMA InkMoves ==
  ASSUME IInv
  PROVE  /\ \A i \in PageInk(annots) : Texts(RemoveAt(annots, i)) = Texts(annots)
         /\ \A strokes : Texts(Append(annots, Annotation("ink", strokes))) = Texts(annots)
<1>1. annots \in Seq(Annots(fresh - 1)) /\ Unique(annots) /\ fresh - 1 \in Nat
  BY TextsHere
<1>2. ASSUME NEW i \in PageInk(annots) PROVE Texts(RemoveAt(annots, i)) = Texts(annots)
  <2>1. i \in 1..Len(annots) /\ annots[i].kind = "ink"
    BY <1>1 DEF PageInk
  <2> QED BY <1>1, <2>1, TextsTakeInk
<1>3. ASSUME NEW strokes PROVE Texts(Append(annots, Annotation("ink", strokes))) = Texts(annots)
  <2> DEFINE a == Annotation("ink", strokes)
  <2>1. a.kind = "ink"
    BY DEF Annotation
  <2> HIDE DEF a
  <2>2. Texts(Append(annots, a)) = Texts(annots)
    BY <1>1, <2>1, TextsAppend
  <2> QED BY <2>2 DEF a
<1> QED BY <1>2, <1>3

\* A step of drawing, committing, erasing or undoing ink leaves the document.
LEMMA InkStepRight ==
  ASSUME IInv, IInv', TextRight, InkStep \/ SaveThrows
  PROVE  TextRight' /\ UNCHANGED Document!vars
<1>1. UNCHANGED text /\ jobs' = jobs /\ Types
  BY DEF InkStep, Draw, CancelDraw, SaveDraw, SaveAdd, SaveAccept, BeginErase, StartErase,
         EraserCatches, FinishErase, EraserRubs, UndoPending, UndoInk, UndoInkDelete, SaveThrows,
         IInv
<1>2. ASSUME NEW i \in DOMAIN annots, LoadInk(i) PROVE Texts(annots') = Texts(annots)
  <2>1. i \in PageInk(annots) /\ annots' = RemoveAt(annots, i)
    BY <1>2 DEF LoadInk, PageInk
  <2> QED BY <2>1, InkMoves
<1>3. Texts(annots') = Texts(annots)
  <2>1. CASE annots' = annots
    BY <2>1
  <2>2. CASE SaveAdd
    BY <2>2, InkMoves DEF SaveAdd
  <2>3. CASE SaveThrows
    BY <2>3, InkMoves DEF SaveThrows, Leave
  <2>4. CASE StartErase
    BY <1>2, <2>1, <2>4 DEF StartErase
  <2>5. CASE EraserCatches
    BY <1>2, <2>5 DEF EraserCatches
  <2>6. CASE UndoInkDelete
    <3>1. call.n \in PageInk(annots)
      BY <2>6 DEF UndoInkDelete, IInv, Midway
    <3> QED BY <2>1, <2>6, <3>1, InkMoves DEF UndoInkDelete
  <2>7. CASE Draw \/ CancelDraw \/ SaveDraw \/ SaveAccept \/ BeginErase \/ FinishErase
             \/ (\E i \in DOMAIN drawing : EraserRubs(i)) \/ UndoPending \/ UndoInk
    <3>1. annots' = annots
      BY <2>7 DEF Draw, CancelDraw, SaveDraw, SaveAccept, BeginErase, FinishErase, EraserRubs,
                  UndoPending, UndoInk
    <3> QED BY <2>1, <3>1
  <2> QED BY <2>2, <2>3, <2>4, <2>5, <2>6, <2>7 DEF InkStep
<1> QED BY <1>1, <1>3, InkStays

-----------------------------------------------------------------------------
(* The refinement *)

\* No number of the file is drawn again.
Numbered == FileNumbers < fresh

\* Numbers are drawn one after the other.
LEMMA NumberedStays == ASSUME IInv, Numbered, Next PROVE Numbered'
<1>1. fresh \in Nat /\ FileNumbers \in Nat
  BY Bounds, TextsHere
<1>2. fresh' = fresh \/ fresh' = fresh + 1
  <2>1. CASE SaveThrows
    BY <2>1 DEF SaveThrows, Leave
  <2>2. CASE InkStep
    BY <2>2 DEF InkStep, Draw, CancelDraw, SaveDraw, SaveAdd, SaveAccept, BeginErase, StartErase,
         EraserCatches, FinishErase, EraserRubs, UndoPending, UndoInk, UndoInkDelete
  <2>3. CASE TextStep
    BY <2>3 DEF TextStep, RemoveText, Restyle, UndoText, RedoText, Perform
  <2>4. CASE \E j \in Jobs : JobStep(j)
    BY <2>4 DEF JobStep, AddList, AddNative, AddFind, AddPush
  <2> QED BY <2>1, <2>2, <2>3, <2>4 DEF Next
<1> QED BY <1>1, <1>2 DEF Numbered

\* In the beginning there are the texts of the file, and nothing to undo.
LEMMA TextInit == ASSUME Init PROVE Numbered /\ TextRight /\ Document!Init
<1>1. IInv
  BY InitOK
<1>2. undoStack = <<>> /\ redoStack = <<>> /\ annots = FileAnnots /\ fresh = FileNumbers + 1
  BY DEF Init
<1>3. \A j \in Jobs : ~Adding(jobs[j])
  BY DEF Init, Adding, NoJob
<1>4. Numbered
  BY <1>2, Bounds DEF Numbered
<1>5. Named(Texts(annots))
  BY <1>2, FileAssumption DEF Named, Texts, PageInk
<1>6. JobsFit(Texts(annots))
  BY <1>3 DEF JobsFit
<1>7. TextFits
  BY <1>2, <1>5, <1>6 DEF TextFits, StackFits, AllDiffer
<1>8. Swaps(redoStack) = <<>> /\ Redos = <<>>
  BY <1>2 DEF Swaps, Redos
<1>9. Reversible
  BY <1>2, <1>8, ChainNothing DEF Reversible
<1>10. Doc \in Docs(MaxFresh)
  BY <1>1, ShapedIs DEF Shaped
<1>11. Along(Doc, undoStack) = <<>> /\ Along(Doc, Redos) = <<>>
  <2> HIDE DEF Doc
  <2> QED BY <1>2, <1>8, <1>10, AlongNothing
<1> QED BY <1>4, <1>7, <1>9, <1>10, <1>11 DEF TextRight, Document!Init, Docs

\* What the user has done stays done, and who has not yet mixed up his texts.
LEMMA FateStays ==
  ASSUME IInv, [Next]_vars
  PROVE  /\ OneFate' => OneFate
         /\ ~(\E i \in DOMAIN annots : RemoveText(i) \/ \E s \in Styles : Restyle(i, s))
            => fate' = fate
<1>1. CASE UNCHANGED vars
  BY <1>1 DEF vars, text, OneFate
<1>2. CASE SaveThrows \/ InkStep
  <2>1. fate' = fate
    BY <1>2 DEF InkStep, Draw, CancelDraw, SaveDraw, SaveAdd, SaveAccept, BeginErase, StartErase,
         EraserCatches, FinishErase, EraserRubs, UndoPending, UndoInk, UndoInkDelete, SaveThrows,
         text
  <2> QED BY <2>1 DEF OneFate
<1>3. CASE UndoText \/ RedoText \/ \E j \in Jobs : JobStep(j)
  <2>1. fate' = fate
    BY <1>3 DEF UndoText, RedoText, JobStep, AddList, AddNative, AddFind, AddPush, text
  <2> QED BY <2>1 DEF OneFate
<1>4. ASSUME NEW i \in DOMAIN annots, NEW s \in Styles, Restyle(i, s) PROVE OneFate' => OneFate
  BY <1>4 DEF Restyle, OneFate
<1>5. ASSUME NEW i \in DOMAIN annots, RemoveText(i) PROVE OneFate' => OneFate
  BY <1>5 DEF RemoveText, OneFate
<1> QED BY <1>1, <1>2, <1>3, <1>4, <1>5 DEF Next, TextStep

\* Every step is a step of the document, or leaves it.
LEMMA TextNext ==
  ASSUME OneFate, OneFate', IInv, IInv', Numbered, TextRight, [Next]_vars
  PROVE  TextRight' /\ [Document!Next]_(Document!vars)
<1>1. CASE Next
  <2>2. CASE SaveThrows \/ InkStep
    BY <2>2, InkStepRight
  <2>3. CASE TextStep
    BY <2>3, RemoveTextRight, RestyleRight, UndoTextRight, RedoTextRight
       DEF TextStep, Document!Next
  <2>4. ASSUME NEW j \in Jobs, JobStep(j) PROVE TextRight' /\ [Document!Next]_(Document!vars)
    BY <2>4, AddListRight, AddNativeRight, AddFindRight, AddPushRight
       DEF JobStep, Document!Next, Numbered
  <2> QED BY <1>1, <2>2, <2>3, <2>4 DEF Next
<1>2. CASE UNCHANGED vars
  <2>1. UNCHANGED text /\ jobs' = jobs /\ annots' = annots /\ Types
    BY <1>2 DEF vars, text, IInv
  <2>2. Texts(annots') = Texts(annots)
    BY <2>1
  <2> QED BY <2>1, <2>2, InkStays
<1> QED BY <1>1, <1>2

\* Once a text is both restyled and removed nothing is promised: each step may
\* be taken for a document opened anew.
LEMMA TextGivenUp ==
  ASSUME IInv', ~OneFate'
  PROVE  Document!Restart
<1>1. Shaped'
  BY ShapedIs, PTL
<1> QED BY <1>1 DEF Document!Restart, Shaped, Docs

\* Undo and redo of text and markup are those of a document, whatever happens
\* to the ink and in whatever order the jobs add and record, until a text is
\* both restyled and removed, or one added in the session is either.
THEOREM TextImplementsHistory == Spec => TextHistory
<1> DEFINE K == IInv /\ Numbered /\ (OneFate => TextRight)
<1>1. Init => K /\ Document!Init
  BY InitOK, TextInit
<1>2. K /\ [Next]_vars => K' /\ [Document!Next]_(Document!vars)
  <2> SUFFICES ASSUME K, [Next]_vars PROVE K' /\ [Document!Next]_(Document!vars)
    OBVIOUS
  <2>1. IInv' /\ (OneFate' => OneFate)
    BY NextOK, FateStays
  <2>2. Numbered'
    <3>1. UNCHANGED vars => Numbered'
      BY DEF vars, Numbered
    <3> QED BY <3>1, NumberedStays
  <2>3. OneFate' => TextRight' /\ [Document!Next]_(Document!vars)
    BY <2>1, TextNext
  <2>4. ~OneFate' => Document!Next
    BY <2>1, TextGivenUp DEF Document!Next
  <2> QED BY <2>1, <2>2, <2>3, <2>4
<1> QED BY <1>1, <1>2, PTL DEF Spec, TextHistory, Document!Spec
=============================================================================
