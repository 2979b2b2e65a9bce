-------------------------- MODULE PageView_proofs --------------------------
(***************************************************************************)
(* Proofs about the page view.                                             *)
(*                                                                         *)
(* The invariant has two parts.  Sound says what the state is made of: the *)
(* ids of the jobs are distinct, and what a patch or the view takes for    *)
(* its task is a job of that kind, so that cancelling it touches no other. *)
(* Right says that the right thing is coming for each patch or is there,   *)
(* and that no job but a late one will draw into the bitmap any more; and  *)
(* likewise for the annotations.                                           *)
(***************************************************************************)
EXTENDS PageView, LibraryLemmas

----------------------------------------------------------------------------
(* What the state is made of *)

\* The bitmaps of a patch view: the sharper patches have the pool.
BmOf(v) == IF v = "entire" THEN Nums \ Pool ELSE Pool

JobOK(j) ==
    /\ j.kind = "render" => /\ j.patch \in Patches /\ j.bm \in BmOf(j.patch) /\ j.area \in Area
                            /\ j.patch = "entire" => j.area = Whole
    /\ j.kind = "annots" => j.bm = None /\ ~j.erase
JobRec == [id : Nums, kind : {"render", "annots"}, patch : Patches \cup {None}, page : Pages,
           area : Area \cup {None}, bm : Nums \cup {None}, erase : BOOLEAN, aborted : BOOLEAN,
           begun : BOOLEAN, late : BOOLEAN, version : Nat]
Job == {j \in JobRec : JobOK(j)}

View == [page : Pages \cup {None}, ready : BOOLEAN, place : Area, bm : (Nums \ Pool) \cup {None},
         annots : [page : Pages, version : Nat, late : BOOLEAN] \cup {None},
         annotJob : Nums \cup {None}, force : BOOLEAN]
PatchRec == [area : Area \cup {None}, placed : BOOLEAN, shown : Nums \cup {None},
             active : Nums \cup {None}, task : Nums \cup {None}, inFlight : Nums \cup {None}]
W == {w \in [view : View, patch : [Patches -> PatchRec], jobs : Seq(Job)] :
        \A v \in Patches : w.patch[v].shown \in BmOf(v) \cup {None}}

Distinct(q) == \A i, k \in DOMAIN q : q[i].id = q[k].id => i = k
Ids(js, ps) == /\ Distinct(js) /\ Distinct(ps)
               /\ \A i \in DOMAIN js : \A k \in DOMAIN ps : js[i].id # ps[k].id

\* The job with this id is one of this kind for this patch.
Tagged(q, id, kind, v) == \E i \in DOMAIN q : q[i].id = id /\ q[i].kind = kind /\ q[i].patch = v
Known(w, ps, id, kind, v) == Tagged(w.jobs, id, kind, v) \/ Tagged(ps, id, kind, v)

\* The task of a patch is the render it waits for.
RenderTasks(w, ps) ==
    \A v \in Patches : /\ w.patch[v].task = w.patch[v].active
                       /\ w.patch[v].active # None => Known(w, ps, w.patch[v].active, "render", v)
AnnotTask(w, ps) == w.view.annotJob # None => Known(w, ps, w.view.annotJob, "annots", None)

\* What every call keeps.
Fit(w, ps) == w \in W /\ ps \in Seq(Job) /\ Ids(w.jobs, ps) /\ RenderTasks(w, ps)

\* A view without a page waits for nothing and shows nothing; one with a page is ready.
Idle(w) ==
    /\ w.view.page = None => \A v \in Patches : w.patch[v].active = None /\ w.patch[v].area = None
    /\ w.view.page # None => w.view.ready

\* The ids of ps are posted ones.
Among(ps) == ps \in Seq(Job) /\ \A i \in DOMAIN ps : \E k \in DOMAIN posted : ps[i] = posted[k]

----------------------------------------------------------------------------
(* Numbers that are not in use *)

\* The numbers of a sequence have a bound.
LEMMA Bounded ==
  ASSUME NEW n \in Nat, NEW f \in [1 .. n -> Nat]
  PROVE  \E b \in Nat : \A i \in 1 .. n : f[i] <= b
<1> DEFINE T == {m \in 0 .. n : \E b \in Nat : \A i \in 1 .. m : f[i] <= b}
<1>1. 0 \in T
  OBVIOUS
<1>2. ASSUME NEW m \in 1 .. n, m - 1 \in T PROVE m \in T
  <2>1. PICK b \in Nat : \A i \in 1 .. m - 1 : f[i] <= b
    BY <1>2
  <2> DEFINE c == IF b < f[m] THEN f[m] ELSE b
  <2>2. c \in Nat /\ b <= c /\ f[m] <= c /\ f[m] \in Nat
    OBVIOUS
  <2> HIDE DEF c
  <2>3. ASSUME NEW i \in 1 .. m PROVE f[i] <= c
    <3>1. CASE i = m
      BY <2>2, <3>1
    <3>2. CASE i # m
      <4>1. i \in 1 .. m - 1 /\ f[i] \in Nat
        BY <3>2
      <4> QED BY <2>1, <2>2, <4>1
    <3> QED BY <3>1, <3>2
  <2> QED BY <2>2, <2>3
<1> HIDE DEF T
<1>3. \A i \in 0 .. n : i \in T
  BY <1>1, <1>2, Climb
<1>4. n \in T
  BY <1>3
<1> QED BY <1>4 DEF T

\* The first number that is not in a bounded set.
LEMMA UnusedIs ==
  ASSUME NEW ids \in SUBSET Nat, NEW b \in Nat, \A i \in ids : i <= b
  PROVE  Unused(ids) \in Nums /\ Unused(ids) \notin ids
<1> DEFINE m == Max(ids \cup {0})
<1>1. m \in ids \cup {0} /\ \A i \in ids \cup {0} : i <= m
  <2>1. ids \cup {0} \in SUBSET Int /\ ids \cup {0} # {} /\ \A i \in ids \cup {0} : i <= b
    OBVIOUS
  <2> QED BY <2>1, MaxIs
<1> HIDE DEF m
<1>2. m \in Nat /\ m + 1 \in 1 .. m + 1 /\ m + 1 \notin ids
  BY <1>1
<1> DEFINE T == {i \in 1 .. m + 1 : i \notin ids}
<1>3. T \in SUBSET Nat /\ T # {}
  BY <1>2
<1>4. PICK k \in T : \A i \in T : k <= i
  BY <1>3, NatMin
<1>5. ASSUME NEW j \in 1 .. k - 1 PROVE j \in ids
  BY <1>2, <1>4
<1>6. \E i \in 1 .. m + 1 : i \notin ids /\ \A j \in 1 .. i - 1 : j \in ids
  BY <1>4, <1>5
<1>7. Unused(ids) = CHOOSE i \in 1 .. m + 1 : i \notin ids /\ \A j \in 1 .. i - 1 : j \in ids
  BY DEF Unused, m
<1>8. Unused(ids) \in 1 .. m + 1 /\ Unused(ids) \notin ids
  BY <1>6, <1>7
<1> QED BY <1>2, <1>8 DEF Nums

\* The ids of jobs have a bound.
LEMMA IdsBounded ==
  ASSUME NEW js \in Seq(Job)
  PROVE  \E b \in Nat : \A i \in DOMAIN js : js[i].id \in Nat /\ js[i].id <= b
<1> DEFINE f == [i \in 1 .. Len(js) |-> js[i].id]
<1>1. ASSUME NEW i \in 1 .. Len(js) PROVE js[i].id \in Nat
  <2>1. js[i] \in JobRec
    BY DEF Job
  <2> QED BY <2>1 DEF JobRec, Nums
<1>2. Len(js) \in Nat /\ f \in [1 .. Len(js) -> Nat] /\ DOMAIN js = 1 .. Len(js)
  BY <1>1
<1>3. \A i \in 1 .. Len(js) : f[i] = js[i].id
  OBVIOUS
<1> HIDE DEF f
<1>4. PICK b \in Nat : \A i \in 1 .. Len(js) : f[i] <= b
  BY <1>2, Bounded
<1> QED BY <1>1, <1>2, <1>3, <1>4

\* A new id is that of no job.
LEMMA NewIdIs ==
  ASSUME NEW w \in W, posted \in Seq(Job)
  PROVE  /\ NewId(w) \in Nums
         /\ \A i \in DOMAIN w.jobs : w.jobs[i].id # NewId(w)
         /\ \A i \in DOMAIN posted : posted[i].id # NewId(w)
<1> DEFINE ids == {w.jobs[i].id : i \in DOMAIN w.jobs} \cup {posted[i].id : i \in DOMAIN posted}
<1>1. w.jobs \in Seq(Job)
  BY DEF W
<1>2. PICK b \in Nat : \A i \in DOMAIN w.jobs : w.jobs[i].id \in Nat /\ w.jobs[i].id <= b
  BY <1>1, IdsBounded
<1>3. PICK c \in Nat : \A i \in DOMAIN posted : posted[i].id \in Nat /\ posted[i].id <= c
  BY IdsBounded
<1>4. ids \in SUBSET Nat /\ b + c \in Nat /\ \A i \in ids : i <= b + c
  <2>1. \A i \in ids : i \in Nat /\ (i <= b \/ i <= c)
    BY <1>2, <1>3
  <2> HIDE DEF ids
  <2> QED BY <2>1
<1> HIDE DEF ids
<1>5. Unused(ids) \in Nums /\ Unused(ids) \notin ids
  BY <1>4, UnusedIs
<1>6. NewId(w) = Unused(ids)
  BY DEF NewId, ids
<1> QED BY <1>5, <1>6 DEF ids

\* The bitmaps of jobs have a bound.
LEMMA BitmapsBounded ==
  ASSUME NEW js \in Seq(Job)
  PROVE  \E b \in Nat : \A i \in DOMAIN js : js[i].bm # None => js[i].bm \in Nat /\ js[i].bm <= b
<1> DEFINE f == [i \in 1 .. Len(js) |-> IF js[i].bm = None THEN 0 ELSE js[i].bm]
<1>1. ASSUME NEW i \in 1 .. Len(js), js[i].bm # None PROVE js[i].bm \in Nat
  <2>1. js[i] \in JobRec
    BY DEF Job
  <2> QED BY <1>1, <2>1 DEF JobRec, Nums
<1>2. Len(js) \in Nat /\ f \in [1 .. Len(js) -> Nat] /\ DOMAIN js = 1 .. Len(js)
  BY <1>1
<1>3. \A i \in 1 .. Len(js) : js[i].bm # None => f[i] = js[i].bm
  OBVIOUS
<1> HIDE DEF f
<1>4. PICK b \in Nat : \A i \in 1 .. Len(js) : f[i] <= b
  BY <1>2, Bounded
<1> QED BY <1>1, <1>2, <1>3, <1>4

\* Two numbers, or none, have a bound.
LEMMA TwoBounded ==
  ASSUME NEW a, NEW b, a # None => a \in Nat, b # None => b \in Nat
  PROVE  \E m \in Nat : \A x \in {a, b} \ {None} : x <= m
<1> DEFINE p == IF a = None THEN 0 ELSE a
           q == IF b = None THEN 0 ELSE b
<1>1. p \in Nat /\ q \in Nat /\ (a # None => a = p) /\ (b # None => b = q)
  OBVIOUS
<1> HIDE DEF p, q
<1>2. p + q \in Nat /\ p <= p + q /\ q <= p + q
  BY <1>1
<1>3. \A x \in {a, b} \ {None} : x <= p + q
  BY <1>1, <1>2
<1> QED BY <1>2, <1>3

\* The bitmaps in use are numbers, and a new one is none of them.
LEMMA NewBitmap ==
  ASSUME NEW w \in W, NEW ps \in Seq(Job)
  PROVE  InUse(w, ps) \in SUBSET Nums /\ Unused(InUse(w, ps)) \in Nums \ Pool
<1> DEFINE used == InUse(w, ps)
<1>1. w.jobs \in Seq(Job) /\ w.view \in View /\ w.patch \in [Patches -> PatchRec]
  BY DEF W
<1>2. PICK b1 \in Nat : \A i \in DOMAIN w.jobs : w.jobs[i].bm # None => w.jobs[i].bm \in Nat /\ w.jobs[i].bm <= b1
  BY <1>1, BitmapsBounded
<1>3. PICK b2 \in Nat : \A i \in DOMAIN ps : ps[i].bm # None => ps[i].bm \in Nat /\ ps[i].bm <= b2
  BY BitmapsBounded
<1> DEFINE e == w.patch["entire"]
           h == w.patch["hq"]
<1>4. e \in PatchRec /\ h \in PatchRec
  BY <1>1 DEF Patches
<1>5. /\ e.shown \in Nums \cup {None} /\ e.inFlight \in Nums \cup {None}
      /\ h.shown \in Nums \cup {None} /\ h.inFlight \in Nums \cup {None}
      /\ w.view.bm \in Nums \cup {None}
  BY <1>1, <1>4 DEF PatchRec, View
<1>6. PICK b3 \in Nat : \A x \in {e.shown, e.inFlight} \ {None} : x <= b3
  BY <1>5, TwoBounded DEF Nums
<1>7. PICK b4 \in Nat : \A x \in {h.shown, h.inFlight} \ {None} : x <= b4
  BY <1>5, TwoBounded DEF Nums
<1>8. PICK b5 \in Nat : \A x \in {w.view.bm, w.view.bm} \ {None} : x <= b5
  BY <1>5, TwoBounded DEF Nums
<1> DEFINE m == b1 + b2 + b3 + b4 + b5 + 2
<1>9. /\ m \in Nat /\ b1 <= m /\ b2 <= m /\ b3 <= m /\ b4 <= m /\ b5 <= m /\ 1 <= m /\ 2 <= m
      /\ \A x \in Int : (x <= b1 \/ x <= b2 \/ x <= b3 \/ x <= b4 \/ x <= b5) => x <= m
  OBVIOUS
<1> HIDE DEF m
<1>10. ASSUME NEW x \in used PROVE x \in Nums /\ x <= m
  <2>1. \/ x \in Pool \/ x \in {w.view.bm, w.view.bm} \ {None}
        \/ x \in {e.shown, e.inFlight} \ {None} \/ x \in {h.shown, h.inFlight} \ {None}
        \/ \E i \in DOMAIN w.jobs : x = w.jobs[i].bm /\ x # None
        \/ \E i \in DOMAIN ps : x = ps[i].bm /\ x # None
    BY DEF InUse, Patches
  <2>2. CASE x \in Pool
    BY <1>9, <2>2 DEF Pool, Nums
  <2>3. CASE x \in {w.view.bm, w.view.bm} \ {None}
    BY <1>5, <1>8, <1>9, <2>3 DEF Nums
  <2>4. CASE x \in {e.shown, e.inFlight} \ {None}
    <3>1. x <= b3 /\ x \in Nums
      BY <1>5, <1>6, <2>4
    <3> QED BY <1>9, <3>1 DEF Nums
  <2>5. CASE x \in {h.shown, h.inFlight} \ {None}
    <3>1. x <= b4 /\ x \in Nums
      BY <1>5, <1>7, <2>5
    <3> QED BY <1>9, <3>1 DEF Nums
  <2>6. ASSUME NEW i \in DOMAIN w.jobs, x = w.jobs[i].bm, x # None PROVE x \in Nums /\ x <= m
    <3>1. w.jobs[i] \in JobRec
      BY <1>1 DEF Job
    <3>2. x \in Nums
      BY <2>6, <3>1 DEF JobRec
    <3>3. x <= b1 /\ x \in Int
      BY <1>2, <2>6
    <3> QED BY <1>9, <3>2, <3>3
  <2>7. ASSUME NEW i \in DOMAIN ps, x = ps[i].bm, x # None PROVE x \in Nums /\ x <= m
    <3>1. ps[i] \in JobRec
      BY DEF Job
    <3>2. x \in Nums
      BY <2>7, <3>1 DEF JobRec
    <3>3. x <= b2 /\ x \in Int
      BY <1>3, <2>7
    <3> QED BY <1>9, <3>2, <3>3
  <2> QED BY <2>1, <2>2, <2>3, <2>4, <2>5, <2>6, <2>7
<1>11. Pool \subseteq used
  <2>1. None \notin Pool
    BY PageViewAssumption DEF Pool
  <2> QED BY <2>1 DEF InUse
<1> HIDE DEF used
<1>12. used \in SUBSET Nat /\ used \in SUBSET Nums /\ \A x \in used : x <= m
  BY <1>10 DEF Nums
<1>13. Unused(used) \in Nums /\ Unused(used) \notin used
  BY <1>9, <1>12, UnusedIs
<1> QED BY <1>11, <1>12, <1>13 DEF used

----------------------------------------------------------------------------
(* The queue of the jobs *)

\* The same job, whether aborted or not, and whether late since or not.
Kin(a, b) == /\ a.id = b.id /\ a.kind = b.kind /\ a.patch = b.patch
             /\ a.page = b.page /\ a.area = b.area /\ a.bm = b.bm /\ (b.late => a.late)
Same(a, b) == Kin(a, b) /\ a.aborted = b.aborted

\* What comes after place k of left came after place i of js.
Follows(left, k, js, i) ==
    \A n \in DOMAIN left : n > k => \E m \in DOMAIN js : m > i /\ Kin(left[n], js[m])

\* left is js without the job t, or with that job aborted; others may be late.
Cancelled(js, left, t) ==
    /\ left \in Seq(Job) /\ Distinct(left)
    /\ \A i \in DOMAIN js : js[i].id # t =>
           \E k \in DOMAIN left : Same(left[k], js[i]) /\ Follows(left, k, js, i)
    /\ \A k \in DOMAIN left : \E i \in DOMAIN js : Kin(left[k], js[i])

\* Nothing is cancelled.
LEMMA NoneCancelled ==
  ASSUME NEW js \in Seq(Job), Distinct(js), NEW t
  PROVE  Cancelled(js, js, t)
<1>1. \A i \in DOMAIN js : Kin(js[i], js[i])
  BY DEF Kin
<1>2. \A i \in DOMAIN js : Follows(js, i, js, i) /\ Same(js[i], js[i])
  BY <1>1 DEF Follows, Same
<1> QED BY <1>1, <1>2 DEF Cancelled

\* A job is taken out.
LEMMA OneOut ==
  ASSUME NEW js \in Seq(Job), Distinct(js), NEW m \in DOMAIN js
  PROVE  /\ Cancelled(js, RemoveAt(js, m), js[m].id)
         /\ \A k \in DOMAIN RemoveAt(js, m) :
               \E i \in DOMAIN js : RemoveAt(js, m)[k] = js[i] /\ i # m
<1> DEFINE r == RemoveAt(js, m)
<1>1. m \in 1 .. Len(js) /\ DOMAIN js = 1 .. Len(js) /\ Len(js) \in Nat
  OBVIOUS
<1>2. /\ r \in Seq(Job) /\ Len(r) = Len(js) - 1
      /\ \A j \in 1 .. Len(js) - 1 : r[j] = IF j < m THEN js[j] ELSE js[j + 1]
  BY <1>1, RemoveAtFacts
<1> HIDE DEF r
<1>3. DOMAIN r = 1 .. Len(js) - 1
  BY <1>2
<1> DEFINE From(k) == IF k < m THEN k ELSE k + 1
<1>4. ASSUME NEW k \in DOMAIN r PROVE From(k) \in DOMAIN js /\ From(k) # m /\ r[k] = js[From(k)]
  BY <1>1, <1>2, <1>3
<1>5. ASSUME NEW k \in DOMAIN r, NEW n \in DOMAIN r
      PROVE  (n > k => From(n) > From(k)) /\ (From(n) = From(k) => n = k)
  BY <1>1, <1>3
<1>6. ASSUME NEW i \in DOMAIN js, i # m PROVE \E k \in DOMAIN r : From(k) = i
  <2>1. CASE i < m
    <3>1. i \in DOMAIN r /\ From(i) = i
      BY <1>1, <1>3, <2>1
    <3> QED BY <3>1
  <2>2. CASE ~(i < m)
    <3>1. i - 1 \in DOMAIN r /\ From(i - 1) = i
      BY <1>1, <1>3, <1>6, <2>2
    <3> QED BY <3>1
  <2> QED BY <2>1, <2>2
<1> HIDE DEF From
<1>7. Distinct(r)
  <2> SUFFICES ASSUME NEW k \in DOMAIN r, NEW n \in DOMAIN r, r[k].id = r[n].id PROVE k = n
    BY DEF Distinct
  <2>1. From(k) = From(n)
    BY <1>4 DEF Distinct
  <2> QED BY <1>5, <2>1
<1>8. ASSUME NEW i \in DOMAIN js, js[i].id # js[m].id
      PROVE  \E k \in DOMAIN r : Same(r[k], js[i]) /\ Follows(r, k, js, i)
  <2>1. PICK k \in DOMAIN r : From(k) = i
    BY <1>6, <1>8
  <2>2. Follows(r, k, js, i)
    <3> SUFFICES ASSUME NEW n \in DOMAIN r, n > k
                 PROVE  \E l \in DOMAIN js : l > i /\ Kin(r[n], js[l])
      BY DEF Follows
    <3>1. From(n) \in DOMAIN js /\ From(n) > i /\ r[n] = js[From(n)]
      BY <1>4, <1>5, <2>1
    <3> QED BY <3>1 DEF Kin
  <2>3. Same(r[k], js[i])
    BY <1>4, <2>1 DEF Same, Kin
  <2> QED BY <2>2, <2>3
<1>9. \A k \in DOMAIN r : \E i \in DOMAIN js : r[k] = js[i] /\ i # m
  BY <1>4
<1>10. \A k \in DOMAIN r : \E i \in DOMAIN js : Kin(r[k], js[i])
  BY <1>9 DEF Kin
<1>11. Cancelled(js, r, js[m].id)
  BY <1>2, <1>7, <1>8, <1>10 DEF Cancelled
<1> QED BY <1>9, <1>11 DEF r

\* Dropping takes out the waiting job of that id, if there is one.
LEMMA DroppedCancels ==
  ASSUME NEW w \in W, Distinct(w.jobs), NEW t
  PROVE  Cancelled(w.jobs, Dropped(w, t), t)
<1> DEFINE waiting == {i \in DOMAIN w.jobs : w.jobs[i].id = t /\ ~w.jobs[i].begun}
<1>1. w.jobs \in Seq(Job)
  BY DEF W
<1>2. Dropped(w, t) = IF waiting = {} THEN w.jobs ELSE RemoveAt(w.jobs, Min(waiting))
  BY DEF Dropped
<1>3. CASE waiting = {}
  BY <1>1, <1>2, <1>3, NoneCancelled
<1>4. CASE waiting # {}
  <2>1. waiting \in SUBSET Nat
    BY <1>1
  <2>2. Min(waiting) \in waiting
    <3> HIDE DEF waiting
    <3> QED BY <1>4, <2>1, MinIs
  <2>3. Min(waiting) \in DOMAIN w.jobs /\ w.jobs[Min(waiting)].id = t
    BY <2>2
  <2> HIDE DEF waiting
  <2>4. Cancelled(w.jobs, RemoveAt(w.jobs, Min(waiting)), w.jobs[Min(waiting)].id)
    BY <1>1, <2>3, OneOut
  <2> QED BY <1>2, <1>4, <2>3, <2>4
<1> QED BY <1>3, <1>4

\* Aborting a job changes nothing else.
LEMMA AbortedCancels ==
  ASSUME NEW js \in Seq(Job), Distinct(js), NEW t
  PROVE  Cancelled(js, Aborted(js, t), t)
<1> DEFINE r == Aborted(js, t)
<1>1. DOMAIN js = 1 .. Len(js) /\ Len(js) \in Nat /\ DOMAIN r = DOMAIN js
  BY DEF Aborted
<1>2. ASSUME NEW i \in DOMAIN js
      PROVE  /\ r[i] \in Job /\ Kin(r[i], js[i])
             /\ js[i].id # t => Same(r[i], js[i])
  <2>1. js[i] \in Job /\ js[i] \in JobRec /\ JobOK(js[i])
    BY DEF Job
  <2>2. r[i] = IF js[i].id = t THEN [js[i] EXCEPT !.aborted = TRUE] ELSE js[i]
    BY DEF Aborted
  <2>3. CASE js[i].id # t
    BY <2>1, <2>2, <2>3 DEF Kin, Same
  <2>4. CASE js[i].id = t
    <3> DEFINE j == [js[i] EXCEPT !.aborted = TRUE]
    <3>1. /\ j \in JobRec /\ Kin(j, js[i]) /\ j.erase = js[i].erase
      BY <2>1 DEF JobRec, Kin
    <3> HIDE DEF j
    <3>2. JobOK(j)
      BY <2>1, <3>1 DEF JobOK, Kin
    <3>3. r[i] = j
      BY <2>2, <2>4 DEF j
    <3> QED BY <2>4, <3>1, <3>2, <3>3 DEF Job
  <2> QED BY <2>3, <2>4
<1> HIDE DEF r
<1>3. r \in Seq(Job)
  <2>1. r = [i \in 1 .. Len(js) |-> r[i]]
    BY <1>1 DEF r, Aborted
  <2>2. \A i \in 1 .. Len(js) : r[i] \in Job
    BY <1>1, <1>2
  <2> QED BY <1>1, <2>1, <2>2, IsASeq
<1>4. Distinct(r)
  BY <1>1, <1>2 DEF Distinct, Kin
<1>5. \A i \in DOMAIN js : Follows(r, i, js, i)
  BY <1>1, <1>2 DEF Follows
<1>6. Cancelled(js, r, t)
  BY <1>1, <1>2, <1>3, <1>4, <1>5 DEF Cancelled
<1> QED BY <1>6 DEF r

\* Cancelling twice is cancelling.
LEMMA CancelledTwice ==
  ASSUME NEW js, NEW left, NEW rest, NEW t, Cancelled(js, left, t), Cancelled(left, rest, t)
  PROVE  Cancelled(js, rest, t)
<1>1. ASSUME NEW i \in DOMAIN js, js[i].id # t
      PROVE  \E n \in DOMAIN rest : Same(rest[n], js[i]) /\ Follows(rest, n, js, i)
  <2>1. PICK k \in DOMAIN left : Same(left[k], js[i]) /\ Follows(left, k, js, i)
    BY <1>1 DEF Cancelled
  <2>2. PICK n \in DOMAIN rest : Same(rest[n], left[k]) /\ Follows(rest, n, left, k)
    BY <1>1, <2>1 DEF Cancelled, Same, Kin
  <2>3. Follows(rest, n, js, i)
    <3> SUFFICES ASSUME NEW a \in DOMAIN rest, a > n
                 PROVE  \E c \in DOMAIN js : c > i /\ Kin(rest[a], js[c])
      BY DEF Follows
    <3>1. PICK b \in DOMAIN left : b > k /\ Kin(rest[a], left[b])
      BY <2>2 DEF Follows
    <3>2. PICK c \in DOMAIN js : c > i /\ Kin(left[b], js[c])
      BY <2>1, <3>1 DEF Follows
    <3> QED BY <3>1, <3>2 DEF Kin
  <2>4. Same(rest[n], js[i])
    BY <2>1, <2>2 DEF Same, Kin
  <2> QED BY <2>3, <2>4
<1>2. ASSUME NEW n \in DOMAIN rest
      PROVE  \E i \in DOMAIN js : Kin(rest[n], js[i])
  <2>1. PICK k \in DOMAIN left : Kin(rest[n], left[k])
    BY DEF Cancelled
  <2>2. PICK i \in DOMAIN js : Kin(left[k], js[i])
    BY DEF Cancelled
  <2> QED BY <2>1, <2>2 DEF Kin
<1>3. rest \in Seq(Job) /\ Distinct(rest)
  BY DEF Cancelled
<1> QED BY <1>1, <1>2, <1>3 DEF Cancelled

----------------------------------------------------------------------------
(* The right thing is coming, or is there *)

Current(v, page, area, c, ver) ==
    IF v = "entire"
    THEN /\ area = Whole
         /\ c.late \/ c = [page |-> page, area |-> Whole, version |-> ver[page], late |-> FALSE]
    ELSE c.late \/ (c.page = page /\ c.area = area /\ c.version[1] = ver[page][1])
\* Only what is late may draw into the bitmap.
Untouched(js, b) == \A k \in DOMAIN js : js[k].bm = b => js[k].late
LastOn(js, i) == \A k \in DOMAIN js : k > i => js[k].bm # js[i].bm

\* The render that the patch v waits for.
Mine(w, v, job) == /\ job.id = w.patch[v].active /\ job.kind = "render" /\ job.patch = v
                   /\ job.page = w.view.page /\ ~job.aborted
Coming(w, ps, con, ver, v) ==
    \/ \E i \in DOMAIN w.jobs : Mine(w, v, w.jobs[i]) /\ LastOn(w.jobs, i)
    \/ \E i \in DOMAIN ps : /\ Mine(w, v, ps[i]) /\ Untouched(w.jobs, ps[i].bm)
                            /\ Current(v, w.view.page, ps[i].area, con[ps[i].bm], ver)
Settled(w, con, ver, v) ==
    /\ w.patch[v].placed /\ w.patch[v].shown # None /\ Untouched(w.jobs, w.patch[v].shown)
    /\ Current(v, w.view.page, w.patch[v].area, con[w.patch[v].shown], ver)
PatchRight(w, ps, con, ver, v) ==
    IF w.patch[v].active # None THEN Coming(w, ps, con, ver, v)
    ELSE w.patch[v].area # None => Settled(w, con, ver, v)

\* The annotations of the page as it is are there, or the last load brings them; or
\* some that are late.
NoLoads(q) == \A i \in DOMAIN q : q[i].kind # "annots"
LastLoad(q, i) == q[i].kind = "annots" /\ \A k \in DOMAIN q : k > i => q[k].kind # "annots"
LateLoads(q) == \A i \in DOMAIN q : q[i].kind = "annots" => q[i].late
Fresh(j, page, ver) == j.late \/ (j.page = page /\ j.version = ver[page][1])
AnnotsRight(w, ps, ver) ==
    \/ /\ LateLoads(w.jobs) /\ NoLoads(ps)
       /\ w.view.annots # None /\ Fresh(w.view.annots, w.view.page, ver)
    \/ /\ LateLoads(w.jobs)
       /\ \E i \in DOMAIN ps : LastLoad(ps, i) /\ Fresh(ps[i], w.view.page, ver)
    \/ \E i \in DOMAIN w.jobs : LastLoad(w.jobs, i) /\ w.jobs[i].page = w.view.page

\* The page is drawn, or will be when its annotations are there.
Redrawn(w, ps) ==
    \/ w.patch["entire"].active # None \/ w.patch["entire"].area # None
    \/ ~NoLoads(w.jobs) \/ ~NoLoads(ps)

\* What a call does to a patch: a render of it is coming, it is as it was, or it
\* is blank.
Waits(r, ps, u) == r.patch[u].active # None /\ \A con, ver : PatchRight(r, ps, con, ver, u)
Keeps(w, r, ps, u) ==
    /\ r.patch[u].active = w.patch[u].active /\ r.patch[u].area = w.patch[u].area
    /\ \A con, ver : PatchRight(w, ps, con, ver, u) => PatchRight(r, ps, con, ver, u)
Cleared(r, u) == r.patch[u].active = None /\ r.patch[u].area = None

\* And to the annotations.
LoadsKept(w, r, ps) ==
    /\ \A ver : AnnotsRight(w, ps, ver) => AnnotsRight(r, ps, ver)
    /\ NoLoads(r.jobs) => NoLoads(w.jobs)
    /\ AnnotTask(w, ps) => AnnotTask(r, ps)

\* The view is as it was, but for its bitmap; and so are the bitmaps shown.
SameView(w, r) ==
    /\ r.view.page = w.view.page /\ r.view.ready = w.view.ready
    /\ r.view.place = w.view.place /\ r.view.annots = w.view.annots
    /\ r.view.annotJob = w.view.annotJob /\ r.view.force = w.view.force
    /\ \A u \in Patches : r.patch[u].shown = w.patch[u].shown

----------------------------------------------------------------------------
(* One job is cancelled *)

\* Only the render of the patch has the id of its task.
LEMMA TaskIs ==
  ASSUME NEW w, NEW ps, Fit(w, ps), NEW v \in Patches
  PROVE  /\ \A i \in DOMAIN w.jobs : w.jobs[i].id = w.patch[v].task
                => w.jobs[i].kind = "render" /\ w.jobs[i].patch = v
         /\ \A u \in Patches : u # v /\ w.patch[u].active # None => w.patch[u].active # w.patch[v].task
<1>1. w.jobs \in Seq(Job) /\ Ids(w.jobs, ps)
  BY DEF Fit, W
<1>2. \A i \in DOMAIN w.jobs : w.jobs[i].id # None
  <2> SUFFICES ASSUME NEW i \in DOMAIN w.jobs PROVE w.jobs[i].id # None
    OBVIOUS
  <2>1. w.jobs[i] \in JobRec
    BY <1>1 DEF Job
  <2>2. w.jobs[i].id \in Nat
    BY <2>1 DEF JobRec, Nums
  <2> QED BY <2>2, PageViewAssumption
<1>3. \A u \in Patches : /\ w.patch[u].task = w.patch[u].active
                         /\ w.patch[u].active # None => Known(w, ps, w.patch[u].active, "render", u)
  BY DEF Fit, RenderTasks
<1>4. ASSUME NEW i \in DOMAIN w.jobs, w.jobs[i].id = w.patch[v].task
      PROVE  w.jobs[i].kind = "render" /\ w.jobs[i].patch = v
  <2>1. Tagged(w.jobs, w.jobs[i].id, "render", v) \/ Tagged(ps, w.jobs[i].id, "render", v)
    BY <1>2, <1>3, <1>4 DEF Known
  <2> QED BY <1>1, <2>1 DEF Tagged, Ids, Distinct
<1>5. ASSUME NEW u \in Patches, u # v, w.patch[u].active # None PROVE w.patch[u].active # w.patch[v].task
  <2> SUFFICES ASSUME w.patch[u].active = w.patch[v].active PROVE FALSE
    BY <1>3
  <2> DEFINE a == w.patch[u].active
  <2>1. Known(w, ps, a, "render", u) /\ Known(w, ps, a, "render", v)
    BY <1>3, <1>5
  <2> HIDE DEF a
  <2>2. \/ Tagged(w.jobs, a, "render", u) /\ Tagged(w.jobs, a, "render", v)
        \/ Tagged(w.jobs, a, "render", u) /\ Tagged(ps, a, "render", v)
        \/ Tagged(ps, a, "render", u) /\ Tagged(w.jobs, a, "render", v)
        \/ Tagged(ps, a, "render", u) /\ Tagged(ps, a, "render", v)
    BY <2>1 DEF Known
  <2> QED BY <1>1, <1>5, <2>2 DEF Tagged, Ids, Distinct
<1> QED BY <1>4, <1>5

\* A job that is not cancelled is still known.
LEMMA StillKnown ==
  ASSUME NEW w, NEW r, NEW ps, NEW t, Cancelled(w.jobs, r.jobs, t),
         NEW id, id # t, NEW kind, NEW v, Known(w, ps, id, kind, v)
  PROVE  Known(r, ps, id, kind, v)
<1>1. CASE Tagged(ps, id, kind, v)
  BY <1>1 DEF Known
<1>2. CASE Tagged(w.jobs, id, kind, v)
  <2>1. PICK i \in DOMAIN w.jobs : w.jobs[i].id = id /\ w.jobs[i].kind = kind /\ w.jobs[i].patch = v
    BY <1>2 DEF Tagged
  <2>2. PICK k \in DOMAIN r.jobs : Same(r.jobs[k], w.jobs[i])
    BY <2>1 DEF Cancelled
  <2> QED BY <2>1, <2>2 DEF Known, Tagged, Same, Kin
<1> QED BY <1>1, <1>2 DEF Known

\* The ids that are left are among those there were.
LEMMA IdsLeft ==
  ASSUME NEW js, NEW left, NEW ps, NEW t, Cancelled(js, left, t), Ids(js, ps)
  PROVE  Ids(left, ps)
<1>1. Distinct(left) /\ Distinct(ps)
  BY DEF Cancelled, Ids
<1>2. ASSUME NEW i \in DOMAIN left, NEW k \in DOMAIN ps PROVE left[i].id # ps[k].id
  <2>1. PICK m \in DOMAIN js : Kin(left[i], js[m])
    BY DEF Cancelled
  <2> QED BY <2>1 DEF Kin, Ids
<1> QED BY <1>1, <1>2 DEF Ids

\* A patch whose task is not the one cancelled is as right as it was.
LEMMA PatchKept ==
  ASSUME NEW w, NEW r, NEW ps, NEW u, NEW t, Cancelled(w.jobs, r.jobs, t),
         w.patch[u].active # None => w.patch[u].active # t,
         r.patch[u] = w.patch[u], r.view.page = w.view.page
  PROVE  Keeps(w, r, ps, u)
<1>1. ASSUME NEW b, Untouched(w.jobs, b) PROVE Untouched(r.jobs, b)
  <2> SUFFICES ASSUME NEW k \in DOMAIN r.jobs, r.jobs[k].bm = b PROVE r.jobs[k].late
    BY DEF Untouched
  <2>1. PICK i \in DOMAIN w.jobs : Kin(r.jobs[k], w.jobs[i])
    BY DEF Cancelled
  <2> QED BY <1>1, <2>1 DEF Untouched, Kin
<1>2. ASSUME NEW con, NEW ver, w.patch[u].active # None, Coming(w, ps, con, ver, u)
      PROVE  Coming(r, ps, con, ver, u)
  <2>1. ASSUME NEW i \in DOMAIN w.jobs, Mine(w, u, w.jobs[i]), LastOn(w.jobs, i)
        PROVE  Coming(r, ps, con, ver, u)
    <3>1. w.jobs[i].id # t
      BY <1>2, <2>1 DEF Mine
    <3>2. PICK k \in DOMAIN r.jobs : Same(r.jobs[k], w.jobs[i]) /\ Follows(r.jobs, k, w.jobs, i)
      BY <3>1 DEF Cancelled
    <3>3. LastOn(r.jobs, k)
      <4> SUFFICES ASSUME NEW n \in DOMAIN r.jobs, n > k PROVE r.jobs[n].bm # r.jobs[k].bm
        BY DEF LastOn
      <4>1. PICK m \in DOMAIN w.jobs : m > i /\ Kin(r.jobs[n], w.jobs[m])
        BY <3>2 DEF Follows
      <4> QED BY <2>1, <3>2, <4>1 DEF LastOn, Same, Kin
    <3>4. Mine(r, u, r.jobs[k])
      BY <2>1, <3>2 DEF Mine, Same, Kin
    <3> QED BY <3>3, <3>4 DEF Coming
  <2>2. ASSUME NEW i \in DOMAIN ps, Mine(w, u, ps[i]), Untouched(w.jobs, ps[i].bm),
               Current(u, w.view.page, ps[i].area, con[ps[i].bm], ver)
        PROVE  Coming(r, ps, con, ver, u)
    <3>1. Mine(r, u, ps[i]) /\ Untouched(r.jobs, ps[i].bm)
      BY <1>1, <2>2 DEF Mine
    <3> QED BY <2>2, <3>1 DEF Coming
  <2> QED BY <1>2, <2>1, <2>2 DEF Coming
<1>3. ASSUME NEW con, NEW ver, Settled(w, con, ver, u) PROVE Settled(r, con, ver, u)
  BY <1>1, <1>3 DEF Settled
<1> QED BY <1>2, <1>3 DEF Keeps, PatchRight

\* The loads are kept when the job cancelled is none of them.
LEMMA LoadsStay ==
  ASSUME NEW w, NEW r, NEW ps, NEW t, Cancelled(w.jobs, r.jobs, t), Ids(w.jobs, ps),
         \A i \in DOMAIN w.jobs : w.jobs[i].kind = "annots" => w.jobs[i].id # t,
         SameView(w, r)
  PROVE  LoadsKept(w, r, ps)
<1>1. r.view.page = w.view.page /\ r.view.annots = w.view.annots /\ r.view.annotJob = w.view.annotJob
  BY DEF SameView
<1>2. LateLoads(w.jobs) => LateLoads(r.jobs)
  <2> SUFFICES ASSUME LateLoads(w.jobs), NEW k \in DOMAIN r.jobs, r.jobs[k].kind = "annots"
               PROVE  r.jobs[k].late
    BY DEF LateLoads
  <2>1. PICK i \in DOMAIN w.jobs : Kin(r.jobs[k], w.jobs[i])
    BY DEF Cancelled
  <2> QED BY <2>1 DEF LateLoads, Kin
<1>3. NoLoads(r.jobs) => NoLoads(w.jobs)
  <2> SUFFICES ASSUME NoLoads(r.jobs), NEW i \in DOMAIN w.jobs, w.jobs[i].kind = "annots" PROVE FALSE
    BY DEF NoLoads
  <2>1. PICK k \in DOMAIN r.jobs : Same(r.jobs[k], w.jobs[i])
    BY DEF Cancelled
  <2> QED BY <2>1 DEF NoLoads, Same, Kin
<1>4. ASSUME NEW i \in DOMAIN w.jobs, LastLoad(w.jobs, i), w.jobs[i].page = w.view.page
      PROVE  \E k \in DOMAIN r.jobs : LastLoad(r.jobs, k) /\ r.jobs[k].page = r.view.page
  <2>1. w.jobs[i].id # t
    BY <1>4 DEF LastLoad
  <2>2. PICK k \in DOMAIN r.jobs : Same(r.jobs[k], w.jobs[i]) /\ Follows(r.jobs, k, w.jobs, i)
    BY <2>1 DEF Cancelled
  <2>3. LastLoad(r.jobs, k)
    <3> SUFFICES ASSUME NEW n \in DOMAIN r.jobs, n > k PROVE r.jobs[n].kind # "annots"
      BY <1>4, <2>2 DEF LastLoad, Same, Kin
    <3>1. PICK m \in DOMAIN w.jobs : m > i /\ Kin(r.jobs[n], w.jobs[m])
      BY <2>2 DEF Follows
    <3> QED BY <1>4, <3>1 DEF LastLoad, Kin
  <2> QED BY <1>1, <1>4, <2>2, <2>3 DEF Same, Kin
<1>5. \A ver : AnnotsRight(w, ps, ver) => AnnotsRight(r, ps, ver)
  BY <1>1, <1>2, <1>4 DEF AnnotsRight
<1>6. ASSUME AnnotTask(w, ps) PROVE AnnotTask(r, ps)
  <2> SUFFICES ASSUME w.view.annotJob # None PROVE Known(r, ps, w.view.annotJob, "annots", None)
    BY <1>1 DEF AnnotTask
  <2>1. Known(w, ps, w.view.annotJob, "annots", None)
    BY <1>6 DEF AnnotTask
  <2>2. CASE Tagged(ps, w.view.annotJob, "annots", None)
    BY <2>2 DEF Known
  <2>3. CASE Tagged(w.jobs, w.view.annotJob, "annots", None)
    <3>1. w.view.annotJob # t
      BY <2>3 DEF Tagged
    <3> QED BY <2>1, <3>1, StillKnown
  <2> QED BY <2>1, <2>2, <2>3 DEF Known
<1> QED BY <1>3, <1>5, <1>6 DEF LoadsKept

----------------------------------------------------------------------------
(* A job is launched *)

\* r is js with the job at the end.
Grown(js, r, job) ==
    /\ r \in Seq(Job)
    /\ \E n \in DOMAIN r : /\ r[n] = job /\ n \notin DOMAIN js /\ DOMAIN r = DOMAIN js \cup {n}
                           /\ \A k \in DOMAIN js : k < n /\ r[k] = js[k]

\* Appending puts the job at the end.
LEMMA AppendGrows ==
  ASSUME NEW js \in Seq(Job), NEW job \in Job
  PROVE  Grown(js, Append(js, job), job)
<1> DEFINE r == Append(js, job)
           n == Len(js) + 1
<1>1. r \in Seq(Job) /\ DOMAIN js = 1 .. Len(js) /\ DOMAIN r = 1 .. n /\ Len(js) \in Nat
  OBVIOUS
<1>2. r[n] = job /\ \A k \in 1 .. Len(js) : r[k] = js[k]
  OBVIOUS
<1> HIDE DEF r
<1>3. n \in DOMAIN r /\ n \notin DOMAIN js /\ DOMAIN r = DOMAIN js \cup {n} /\ \A k \in DOMAIN js : k < n
  BY <1>1
<1> HIDE DEF n
<1>4. Grown(js, r, job)
  BY <1>1, <1>2, <1>3 DEF Grown
<1> QED BY <1>4 DEF r

\* A launched job has an id of its own.
LEMMA IdsGrown ==
  ASSUME NEW js \in Seq(Job), NEW r, NEW job \in Job, NEW ps, Grown(js, r, job), Ids(js, ps),
         \A i \in DOMAIN js : js[i].id # job.id, \A i \in DOMAIN ps : ps[i].id # job.id
  PROVE  Ids(r, ps)
<1>1. PICK n \in DOMAIN r : /\ r[n] = job /\ DOMAIN r = DOMAIN js \cup {n}
                            /\ \A k \in DOMAIN js : r[k] = js[k]
  BY DEF Grown
<1>2. Distinct(r)
  BY <1>1 DEF Ids, Distinct
<1>3. ASSUME NEW i \in DOMAIN r, NEW k \in DOMAIN ps PROVE r[i].id # ps[k].id
  BY <1>1 DEF Ids
<1> QED BY <1>2, <1>3 DEF Ids

\* What was known still is, and the new job is.
LEMMA KnownGrown ==
  ASSUME NEW w, NEW r, NEW job, NEW ps, Grown(w.jobs, r.jobs, job)
  PROVE  /\ \A id, kind, v : Known(w, ps, id, kind, v) => Known(r, ps, id, kind, v)
         /\ Known(r, ps, job.id, job.kind, job.patch)
<1>1. PICK n \in DOMAIN r.jobs : /\ r.jobs[n] = job /\ DOMAIN r.jobs = DOMAIN w.jobs \cup {n}
                                 /\ \A k \in DOMAIN w.jobs : r.jobs[k] = w.jobs[k]
  BY DEF Grown
<1>2. \A id, kind, v : Tagged(w.jobs, id, kind, v) => Tagged(r.jobs, id, kind, v)
  BY <1>1 DEF Tagged
<1>3. Tagged(r.jobs, job.id, job.kind, job.patch)
  BY <1>1 DEF Tagged
<1> QED BY <1>2, <1>3 DEF Known

\* A patch is as right as it was when the job draws into no bitmap of its own.
LEMMA PatchGrown ==
  ASSUME NEW w \in W, NEW r, NEW job, NEW ps \in Seq(Job), NEW u \in Patches, Grown(w.jobs, r.jobs, job),
         job.bm \notin BmOf(u), r.patch[u] = w.patch[u], r.view.page = w.view.page
  PROVE  Keeps(w, r, ps, u)
<1>1. PICK n \in DOMAIN r.jobs : /\ r.jobs[n] = job /\ DOMAIN r.jobs = DOMAIN w.jobs \cup {n}
                                 /\ \A k \in DOMAIN w.jobs : k < n /\ r.jobs[k] = w.jobs[k]
  BY DEF Grown
<1>2. ASSUME NEW b, b \in BmOf(u), Untouched(w.jobs, b) PROVE Untouched(r.jobs, b)
  BY <1>1, <1>2 DEF Untouched
<1>3. w.jobs \in Seq(Job) /\ w.patch[u].shown \in BmOf(u) \cup {None}
  BY DEF W
<1>4. \A i \in DOMAIN w.jobs : Mine(w, u, w.jobs[i]) => w.jobs[i].bm \in BmOf(u)
  <2> SUFFICES ASSUME NEW i \in DOMAIN w.jobs, Mine(w, u, w.jobs[i]) PROVE w.jobs[i].bm \in BmOf(u)
    OBVIOUS
  <2>1. JobOK(w.jobs[i])
    BY <1>3 DEF Job
  <2> QED BY <2>1 DEF JobOK, Mine
<1>5. \A i \in DOMAIN ps : Mine(w, u, ps[i]) => ps[i].bm \in BmOf(u)
  <2> SUFFICES ASSUME NEW i \in DOMAIN ps, Mine(w, u, ps[i]) PROVE ps[i].bm \in BmOf(u)
    OBVIOUS
  <2>1. JobOK(ps[i])
    BY DEF Job
  <2> QED BY <2>1 DEF JobOK, Mine
<1>6. ASSUME NEW con, NEW ver, Coming(w, ps, con, ver, u) PROVE Coming(r, ps, con, ver, u)
  <2>1. ASSUME NEW i \in DOMAIN w.jobs, Mine(w, u, w.jobs[i]), LastOn(w.jobs, i)
        PROVE  Coming(r, ps, con, ver, u)
    <3>1. i \in DOMAIN r.jobs /\ r.jobs[i] = w.jobs[i] /\ Mine(r, u, r.jobs[i])
      BY <1>1, <2>1 DEF Mine
    <3>2. LastOn(r.jobs, i)
      <4> SUFFICES ASSUME NEW k \in DOMAIN r.jobs, k > i PROVE r.jobs[k].bm # w.jobs[i].bm
        BY <3>1 DEF LastOn
      <4>1. CASE k = n
        BY <1>1, <1>4, <2>1, <4>1
      <4>2. CASE k # n
        BY <1>1, <2>1, <4>2 DEF LastOn
      <4> QED BY <4>1, <4>2
    <3> QED BY <3>1, <3>2 DEF Coming
  <2>2. ASSUME NEW i \in DOMAIN ps, Mine(w, u, ps[i]), Untouched(w.jobs, ps[i].bm),
               Current(u, w.view.page, ps[i].area, con[ps[i].bm], ver)
        PROVE  Coming(r, ps, con, ver, u)
    <3>1. Mine(r, u, ps[i]) /\ Untouched(r.jobs, ps[i].bm)
      BY <1>2, <1>5, <2>2 DEF Mine
    <3> QED BY <2>2, <3>1 DEF Coming
  <2> QED BY <1>6, <2>1, <2>2 DEF Coming
<1>7. ASSUME NEW con, NEW ver, Settled(w, con, ver, u) PROVE Settled(r, con, ver, u)
  BY <1>2, <1>3, <1>7 DEF Settled
<1> QED BY <1>6, <1>7 DEF Keeps, PatchRight

\* The loads are kept when a render is launched.
LEMMA LoadsGrown ==
  ASSUME NEW w, NEW r, NEW job, NEW ps, Grown(w.jobs, r.jobs, job), job.kind # "annots", SameView(w, r)
  PROVE  LoadsKept(w, r, ps)
<1>1. PICK n \in DOMAIN r.jobs : /\ r.jobs[n] = job /\ DOMAIN r.jobs = DOMAIN w.jobs \cup {n}
                                 /\ \A k \in DOMAIN w.jobs : k < n /\ r.jobs[k] = w.jobs[k]
  BY DEF Grown
<1>2. r.view.page = w.view.page /\ r.view.annots = w.view.annots /\ r.view.annotJob = w.view.annotJob
  BY DEF SameView
<1>3. (NoLoads(r.jobs) <=> NoLoads(w.jobs)) /\ (LateLoads(r.jobs) <=> LateLoads(w.jobs))
  BY <1>1 DEF NoLoads, LateLoads
<1>4. ASSUME NEW i \in DOMAIN w.jobs, LastLoad(w.jobs, i), w.jobs[i].page = w.view.page
      PROVE  \E k \in DOMAIN r.jobs : LastLoad(r.jobs, k) /\ r.jobs[k].page = r.view.page
  <2>1. i \in DOMAIN r.jobs /\ r.jobs[i] = w.jobs[i]
    BY <1>1
  <2>2. LastLoad(r.jobs, i)
    BY <1>1, <1>4, <2>1 DEF LastLoad
  <2> QED BY <1>2, <1>4, <2>1, <2>2
<1>5. \A ver : AnnotsRight(w, ps, ver) => AnnotsRight(r, ps, ver)
  BY <1>2, <1>3, <1>4 DEF AnnotsRight
<1>6. AnnotTask(w, ps) => AnnotTask(r, ps)
  <2>1. \A id, kind, v : Known(w, ps, id, kind, v) => Known(r, ps, id, kind, v)
    BY KnownGrown
  <2> QED BY <1>2, <2>1 DEF AnnotTask
<1> QED BY <1>3, <1>5, <1>6 DEF LoadsKept

\* What was launched last for a patch will be right, whatever the bitmap shows.
LEMMA LaunchedWaits ==
  ASSUME NEW r, NEW js, NEW job, NEW ps, NEW v, Grown(js, r.jobs, job), Mine(r, v, job),
         r.patch[v].active # None
  PROVE  Waits(r, ps, v)
<1>1. PICK n \in DOMAIN r.jobs : /\ r.jobs[n] = job /\ DOMAIN r.jobs = DOMAIN js \cup {n}
                                 /\ \A k \in DOMAIN js : k < n /\ r.jobs[k] = js[k]
  BY DEF Grown
<1>2. r.jobs \in Seq(Job)
  BY DEF Grown
<1>3. LastOn(r.jobs, n)
  <2> SUFFICES ASSUME NEW k \in DOMAIN r.jobs, k > n PROVE FALSE
    BY DEF LastOn
  <2>1. k \in Nat /\ n \in Nat
    BY <1>2
  <2>2. k \in DOMAIN js \/ k = n
    BY <1>1
  <2> QED BY <1>1, <2>1, <2>2
<1>4. \A con, ver : Coming(r, ps, con, ver, v)
  BY <1>1, <1>3 DEF Coming
<1> QED BY <1>4 DEF Waits, PatchRight

----------------------------------------------------------------------------
(* The calls *)

\* Keeping is keeping for good, and what is coming comes.
LEMMA KeepsMore ==
  ASSUME NEW w, NEW r, NEW q, NEW ps, NEW u, Keeps(r, q, ps, u)
  PROVE  /\ Keeps(w, r, ps, u) => Keeps(w, q, ps, u)
         /\ Waits(r, ps, u) => Waits(q, ps, u)
         /\ Cleared(r, u) => Cleared(q, u)
<1>1. Keeps(w, r, ps, u) => Keeps(w, q, ps, u)
  BY DEF Keeps
<1>2. Waits(r, ps, u) => Waits(q, ps, u)
  BY DEF Keeps, Waits
<1>3. Cleared(r, u) => Cleared(q, u)
  BY DEF Keeps, Cleared
<1> QED BY <1>1, <1>2, <1>3

\* So is keeping the loads.
LEMMA LoadsMore ==
  ASSUME NEW w, NEW r, NEW q, NEW ps, LoadsKept(w, r, ps), LoadsKept(r, q, ps)
  PROVE  LoadsKept(w, q, ps)
  BY DEF LoadsKept

\* And the view.
LEMMA SameMore ==
  ASSUME NEW w, NEW r, NEW q, SameView(w, r), SameView(r, q)
  PROVE  SameView(w, q)
  BY DEF SameView

\* CancelRender: the task of the patch is cancelled.
LEMMA CancelRenderIs ==
  ASSUME NEW w \in W, Distinct(w.jobs), NEW v \in Patches
  PROVE  /\ CancelRender(w, v) \in W /\ CancelRender(w, v).view = w.view
         /\ \A u \in Patches : u # v => CancelRender(w, v).patch[u] = w.patch[u]
         /\ CancelRender(w, v).patch[v] = [w.patch[v] EXCEPT !.active = None, !.task = None, !.inFlight = None]
         /\ Cancelled(w.jobs, CancelRender(w, v).jobs, w.patch[v].task)
<1> DEFINE p == w.patch[v]
           left == Dropped(w, p.task)
           js == IF p.inFlight \notin {None, p.shown} THEN Aborted(left, p.task) ELSE left
           pp == [p EXCEPT !.active = None, !.task = None, !.inFlight = None]
           c == CancelRender(w, v)
<1>1. Cancelled(w.jobs, left, p.task)
  BY DroppedCancels
<1>2. Cancelled(w.jobs, js, p.task)
  <2>1. CASE p.inFlight \in {None, p.shown}
    BY <1>1, <2>1
  <2>2. CASE p.inFlight \notin {None, p.shown}
    <3> HIDE DEF left, p
    <3>1. left \in Seq(Job) /\ Distinct(left)
      BY <1>1 DEF Cancelled
    <3>2. Cancelled(left, Aborted(left, p.task), p.task)
      BY <3>1, AbortedCancels
    <3>3. Cancelled(w.jobs, Aborted(left, p.task), p.task)
      BY <1>1, <3>2, CancelledTwice
    <3>4. js = Aborted(left, p.task)
      BY <2>2
    <3> QED BY <3>3, <3>4
  <2> QED BY <2>1, <2>2
<1>3. c = [w EXCEPT !.patch[v].active = None, !.patch[v].task = None, !.patch[v].inFlight = None, !.jobs = js]
  BY DEF CancelRender
<1> HIDE DEF js, left, c
<1>4. js \in Seq(Job)
  BY <1>2 DEF Cancelled
<1>5. w \in [view : View, patch : [Patches -> PatchRec], jobs : Seq(Job)]
  BY DEF W
<1>6. c.view = w.view /\ c.jobs = js /\ c.patch = [w.patch EXCEPT ![v] = pp]
  BY <1>3, <1>5
<1>7. pp \in PatchRec /\ pp.shown = p.shown
  BY <1>5 DEF PatchRec
<1>8. c \in [view : View, patch : [Patches -> PatchRec], jobs : Seq(Job)]
  <2>1. c = [view |-> w.view, patch |-> [w.patch EXCEPT ![v] = pp], jobs |-> js]
    BY <1>3, <1>5
  <2> HIDE DEF pp, p
  <2>2. [w.patch EXCEPT ![v] = pp] \in [Patches -> PatchRec] /\ w.view \in View
    BY <1>5, <1>7
  <2> QED BY <1>4, <2>1, <2>2
<1>9. c.patch[v] = pp /\ \A u \in Patches : u # v => c.patch[u] = w.patch[u]
  BY <1>5, <1>6
<1>10. \A u \in Patches : c.patch[u].shown \in BmOf(u) \cup {None}
  BY <1>7, <1>9 DEF W
<1>11. c \in W
  BY <1>8, <1>10 DEF W
<1> QED BY <1>2, <1>6, <1>9, <1>11 DEF c

\* After it the patch waits for nothing, and the other is as it was.
NoTask(w, r, ps, v) ==
    /\ Fit(r, ps) /\ SameView(w, r) /\ LoadsKept(w, r, ps)
    /\ r.patch[v] = [w.patch[v] EXCEPT !.active = None, !.task = None, !.inFlight = None]
    /\ \A u \in Patches : u # v => r.patch[u] = w.patch[u] /\ Keeps(w, r, ps, u)

\* Cancelling does that.
LEMMA CancelRenderKeeps ==
  ASSUME NEW w, NEW ps, Fit(w, ps), NEW v \in Patches
  PROVE  NoTask(w, CancelRender(w, v), ps, v)
<1> DEFINE r == CancelRender(w, v)
<1>1. w \in W /\ ps \in Seq(Job) /\ Ids(w.jobs, ps) /\ RenderTasks(w, ps) /\ Distinct(w.jobs)
  BY DEF Fit, Ids
<1>2. /\ r \in W /\ r.view = w.view
      /\ \A u \in Patches : u # v => r.patch[u] = w.patch[u]
      /\ r.patch[v] = [w.patch[v] EXCEPT !.active = None, !.task = None, !.inFlight = None]
      /\ Cancelled(w.jobs, r.jobs, w.patch[v].task)
  BY <1>1, CancelRenderIs
<1> HIDE DEF r
<1>3. w.patch[v] \in PatchRec
  BY <1>1 DEF W
<1>4. r.patch[v].active = None /\ r.patch[v].task = None /\ r.patch[v].shown = w.patch[v].shown
  BY <1>2, <1>3 DEF PatchRec
<1>5. SameView(w, r)
  BY <1>2, <1>4 DEF SameView
<1>6. /\ \A i \in DOMAIN w.jobs : w.jobs[i].id = w.patch[v].task
             => w.jobs[i].kind = "render" /\ w.jobs[i].patch = v
      /\ \A u \in Patches : u # v /\ w.patch[u].active # None => w.patch[u].active # w.patch[v].task
  BY TaskIs
<1>7. Ids(r.jobs, ps)
  BY <1>1, <1>2, IdsLeft
<1>8. ASSUME NEW u \in Patches
      PROVE  /\ r.patch[u].task = r.patch[u].active
             /\ r.patch[u].active # None => Known(r, ps, r.patch[u].active, "render", u)
  <2>1. CASE u = v
    BY <1>4, <2>1
  <2>2. CASE u # v
    <3>1. r.patch[u] = w.patch[u] /\ w.patch[u].task = w.patch[u].active
      BY <1>1, <1>2, <2>2 DEF RenderTasks
    <3>2. ASSUME w.patch[u].active # None PROVE Known(r, ps, w.patch[u].active, "render", u)
      <4> DEFINE a == w.patch[u].active
                 t == w.patch[v].task
      <4>1. a # t
        BY <1>6, <2>2, <3>2
      <4>2. Known(w, ps, a, "render", u)
        BY <1>1, <3>2 DEF RenderTasks
      <4>3. Cancelled(w.jobs, r.jobs, t)
        BY <1>2
      <4> HIDE DEF a, t
      <4>4. Known(r, ps, a, "render", u)
        BY <4>1, <4>2, <4>3, StillKnown
      <4> QED BY <4>4 DEF a
    <3> QED BY <3>1, <3>2
  <2> QED BY <2>1, <2>2
<1>9. Fit(r, ps)
  BY <1>1, <1>2, <1>7, <1>8 DEF Fit, RenderTasks
<1>10. LoadsKept(w, r, ps)
  <2>1. \A i \in DOMAIN w.jobs : w.jobs[i].kind = "annots" => w.jobs[i].id # w.patch[v].task
    BY <1>6
  <2> QED BY <1>1, <1>2, <1>5, <2>1, LoadsStay
<1>11. ASSUME NEW u \in Patches, u # v PROVE Keeps(w, r, ps, u)
  <2>1. /\ w.patch[u].active # None => w.patch[u].active # w.patch[v].task
        /\ r.patch[u] = w.patch[u] /\ r.view.page = w.view.page
    BY <1>2, <1>6, <1>11
  <2> QED BY <1>2, <2>1, PatchKept
<1>12. NoTask(w, r, ps, v)
  BY <1>2, <1>5, <1>9, <1>10, <1>11 DEF NoTask
<1> QED BY <1>12 DEF r

\* A patch that is not touched is kept, when the jobs are not.
LEMMA UntouchedKeeps ==
  ASSUME NEW w \in W, NEW r, NEW ps, NEW u, Distinct(w.jobs), r.jobs = w.jobs,
         r.patch[u] = w.patch[u], r.view.page = w.view.page
  PROVE  Keeps(w, r, ps, u)
<1>1. w.jobs \in Seq(Job)
  BY DEF W
<1>2. Cancelled(w.jobs, r.jobs, None)
  BY <1>1, NoneCancelled
<1> QED BY <1>2, PatchKept

\* Nor are the loads.
LEMMA UntouchedLoads ==
  ASSUME NEW w, NEW r, NEW ps, r.jobs = w.jobs, SameView(w, r)
  PROVE  LoadsKept(w, r, ps)
<1>1. r.view.page = w.view.page /\ r.view.annots = w.view.annots /\ r.view.annotJob = w.view.annotJob
  BY DEF SameView
<1>2. \A ver : AnnotsRight(w, ps, ver) <=> AnnotsRight(r, ps, ver)
  BY <1>1 DEF AnnotsRight
<1>3. AnnotTask(w, ps) <=> AnnotTask(r, ps)
  BY <1>1 DEF AnnotTask, Known
<1> QED BY <1>2, <1>3 DEF LoadsKept

\* Reset: the patch is blank and waits for nothing.
LEMMA ResetKeeps ==
  ASSUME NEW w, NEW ps, Fit(w, ps), NEW v \in Patches, NEW r, r = Reset(w, v)
  PROVE  /\ Fit(r, ps) /\ SameView(w, r) /\ LoadsKept(w, r, ps) /\ Cleared(r, v)
         /\ r.view = w.view
         /\ \A u \in Patches : u # v => Keeps(w, r, ps, u)
<1> DEFINE c == CancelRender(w, v)
           pp == [c.patch[v] EXCEPT !.area = None, !.placed = FALSE]
<1>1. /\ Fit(c, ps) /\ SameView(w, c) /\ LoadsKept(w, c, ps)
      /\ c.patch[v] = [w.patch[v] EXCEPT !.active = None, !.task = None, !.inFlight = None]
      /\ \A u \in Patches : u # v => c.patch[u] = w.patch[u] /\ Keeps(w, c, ps, u)
  BY CancelRenderKeeps DEF NoTask
<1>2. c.view = w.view
  BY CancelRenderIs DEF Fit, Ids
<1>3. r = [c EXCEPT !.patch[v].area = None, !.patch[v].placed = FALSE]
  BY DEF Reset
<1>4. w.patch[v] \in PatchRec
  BY DEF Fit, W
<1> HIDE DEF c
<1>5. /\ c \in W /\ c \in [view : View, patch : [Patches -> PatchRec], jobs : Seq(Job)]
      /\ Ids(c.jobs, ps) /\ RenderTasks(c, ps) /\ ps \in Seq(Job) /\ Distinct(c.jobs)
  BY <1>1 DEF Fit, W, Ids
<1>6. r = [view |-> c.view, patch |-> [c.patch EXCEPT ![v] = pp], jobs |-> c.jobs]
  BY <1>3, <1>5
<1>7. /\ pp \in PatchRec /\ pp.shown = c.patch[v].shown /\ pp.active = None /\ pp.task = None
      /\ pp.area = None
  <2>1. c.patch[v] \in PatchRec /\ c.patch[v].active = None /\ c.patch[v].task = None
    BY <1>1, <1>4, <1>5 DEF PatchRec
  <2> QED BY <2>1 DEF PatchRec
<1> HIDE DEF pp
<1>8. /\ r.view = c.view /\ r.jobs = c.jobs /\ r.patch[v] = pp
      /\ \A u \in Patches : u # v => r.patch[u] = c.patch[u]
      /\ r \in [view : View, patch : [Patches -> PatchRec], jobs : Seq(Job)]
  BY <1>5, <1>6, <1>7
<1>9. r \in W
  BY <1>5, <1>7, <1>8 DEF W
<1>10. SameView(c, r)
  BY <1>7, <1>8 DEF SameView
<1>11. Fit(r, ps)
  <2>1. ASSUME NEW u \in Patches
        PROVE  /\ r.patch[u].task = r.patch[u].active
               /\ r.patch[u].active # None => Known(r, ps, r.patch[u].active, "render", u)
    <3>1. CASE u = v
      BY <1>7, <1>8, <3>1
    <3>2. CASE u # v
      BY <1>5, <1>8, <3>2 DEF RenderTasks, Known
    <3> QED BY <3>1, <3>2
  <2> QED BY <1>5, <1>8, <1>9, <2>1 DEF Fit, RenderTasks
<1>12. LoadsKept(c, r, ps)
  BY <1>8, <1>10, UntouchedLoads
<1>13. ASSUME NEW u \in Patches, u # v PROVE Keeps(w, r, ps, u)
  <2>1. Keeps(c, r, ps, u)
    BY <1>5, <1>8, <1>13, UntouchedKeeps
  <2>2. Keeps(w, c, ps, u)
    BY <1>1, <1>13
  <2> QED BY <2>1, <2>2, KeepsMore
<1>14. Cleared(r, v)
  BY <1>7, <1>8 DEF Cleared
<1>15. SameView(w, r) /\ LoadsKept(w, r, ps)
  BY <1>1, <1>10, <1>12, SameMore, LoadsMore
<1> QED BY <1>2, <1>8, <1>11, <1>13, <1>14, <1>15

\* Render: either nothing is done, for the area is there, or the render of the
\* patch is the last of the jobs.
LEMMA RenderKeeps ==
  ASSUME NEW w, NEW ps, Fit(w, ps), posted \in Seq(Job), Among(ps), NEW v \in Patches,
         w.view.page \in Pages, w.view.ready, NEW area \in Area, v = "entire" => area = Whole,
         NEW bm \in BmOf(v), NEW update \in BOOLEAN, NEW r, r = Render(w, v, area, bm, update)
  PROVE  /\ Fit(r, ps) /\ SameView(w, r) /\ LoadsKept(w, r, ps)
         /\ r.view = w.view
         /\ Waits(r, ps, v) \/ (r = w /\ ~update /\ w.patch[v].area = area)
         /\ \A u \in Patches : u # v => Keeps(w, r, ps, u)
<1> DEFINE c == CancelRender(w, v)
           id == NewId(c)
           changed == w.patch[v].area # area
           pp == [c.patch[v] EXCEPT !.placed = FALSE, !.active = id, !.task = id, !.inFlight = bm]
           job == [id |-> id, kind |-> "render", patch |-> v, page |-> w.view.page, area |-> area,
                   bm |-> bm, erase |-> changed \/ ~update, aborted |-> FALSE, begun |-> FALSE,
                   late |-> FALSE, version |-> 0]
<1>1. CASE ~changed /\ ~update
  <2>1. r = w
    BY <1>1 DEF Render
  <2>2. SameView(w, w) /\ \A u \in Patches : Keeps(w, w, ps, u)
    BY DEF SameView, Keeps
  <2>3. LoadsKept(w, w, ps)
    BY DEF LoadsKept
  <2> QED BY <1>1, <2>1, <2>2, <2>3
<1>2. CASE changed \/ update
  <2>1. /\ Fit(c, ps) /\ SameView(w, c) /\ LoadsKept(w, c, ps)
        /\ c.patch[v] = [w.patch[v] EXCEPT !.active = None, !.task = None, !.inFlight = None]
        /\ \A u \in Patches : u # v => c.patch[u] = w.patch[u] /\ Keeps(w, c, ps, u)
    BY CancelRenderKeeps DEF NoTask
  <2>2. c.view = w.view
    BY CancelRenderIs DEF Fit, Ids
  <2>3. r = Launch([c EXCEPT !.patch[v] = [@ EXCEPT !.placed = FALSE, !.active = id,
                                                    !.task = id, !.inFlight = bm]], job)
    BY <1>2 DEF Render
  <2> HIDE DEF c
  <2>4. /\ c \in W /\ c \in [view : View, patch : [Patches -> PatchRec], jobs : Seq(Job)]
        /\ Ids(c.jobs, ps) /\ RenderTasks(c, ps) /\ ps \in Seq(Job) /\ Distinct(c.jobs)
        /\ c.jobs \in Seq(Job)
    BY <2>1 DEF Fit, W, Ids
  <2>5. /\ id \in Nums /\ \A i \in DOMAIN c.jobs : c.jobs[i].id # id
        /\ \A i \in DOMAIN posted : posted[i].id # id
    <3> HIDE DEF id
    <3>1. id = NewId(c)
      BY DEF id
    <3> QED BY <2>4, <3>1, NewIdIs
  <2> HIDE DEF id
  <2>6. \A i \in DOMAIN ps : ps[i].id # id
    BY <2>5 DEF Among
  <2>7. id # None /\ bm # None /\ bm \in Nums
    <3>1. id \in Nat /\ bm \in Nums
      BY <2>5 DEF Nums, BmOf, Pool
    <3>2. bm \in Nat
      BY <3>1 DEF Nums
    <3> QED BY <3>1, <3>2, PageViewAssumption
  <2>8. /\ job \in Job /\ job.id = id /\ job.kind = "render" /\ job.patch = v /\ job.bm = bm
        /\ job.page = w.view.page /\ ~job.aborted
    <3>1. changed \in BOOLEAN
      OBVIOUS
    <3> HIDE DEF changed
    <3>2. job \in JobRec
      BY <2>5, <2>7, <3>1 DEF JobRec
    <3>3. /\ job.id = id /\ job.kind = "render" /\ job.patch = v /\ job.bm = bm
          /\ job.area = area /\ job.page = w.view.page /\ ~job.aborted
      OBVIOUS
    <3> HIDE DEF job
    <3>4. JobOK(job)
      BY <3>3 DEF JobOK
    <3> QED BY <3>2, <3>3, <3>4 DEF Job
  <2>9. r = [view |-> c.view, patch |-> [c.patch EXCEPT ![v] = pp], jobs |-> Append(c.jobs, job)]
    <3> DEFINE m == [c EXCEPT !.patch[v] = pp]
    <3>1. r = Launch(m, job)
      BY <2>3
    <3> HIDE DEF pp, job
    <3>2. m = [view |-> c.view, patch |-> [c.patch EXCEPT ![v] = pp], jobs |-> c.jobs]
      <4>1. c \in [view : View, patch : [Patches -> PatchRec], jobs : Seq(Job)]
        BY <2>4
      <4> QED BY ONLY <4>1
    <3> DEFINE q == Append(c.jobs, job)
    <3>3. r = [m EXCEPT !.jobs = q]
      <4>1. m.jobs = c.jobs
        BY <3>2
      <4> HIDE DEF m
      <4> QED BY <3>1, <4>1 DEF Launch
    <3> HIDE DEF m, q
    <3>4. r = [view |-> c.view, patch |-> [c.patch EXCEPT ![v] = pp], jobs |-> q]
      BY <3>2, <3>3
    <3> QED BY <3>4 DEF q
  <2>10. /\ pp \in PatchRec /\ pp.shown = c.patch[v].shown /\ pp.active = id /\ pp.task = id
    <3>1. c.patch[v] \in PatchRec
      BY <2>4
    <3> QED BY <2>5, <2>7, <3>1 DEF PatchRec
  <2> HIDE DEF pp, job
  <2>11. Grown(c.jobs, Append(c.jobs, job), job)
    BY <2>4, <2>8, AppendGrows
  <2>12. /\ r.view = c.view /\ r.jobs = Append(c.jobs, job) /\ r.patch[v] = pp
         /\ \A u \in Patches : u # v => r.patch[u] = c.patch[u]
         /\ r \in [view : View, patch : [Patches -> PatchRec], jobs : Seq(Job)]
    <3>1. Append(c.jobs, job) \in Seq(Job) /\ c.view \in View
      BY <2>4, <2>11 DEF Grown
    <3>2. [c.patch EXCEPT ![v] = pp] \in [Patches -> PatchRec]
      BY <2>4, <2>10
    <3> QED BY <2>4, <2>9, <3>1, <3>2
  <2>13. Grown(c.jobs, r.jobs, job)
    BY <2>11, <2>12
  <2>14. r \in W
    BY <2>4, <2>10, <2>12 DEF W
  <2>15. SameView(c, r)
    BY <2>10, <2>12 DEF SameView
  <2>16. Fit(r, ps)
    <3>1. \A i, kind, u : Known(c, ps, i, kind, u) => Known(r, ps, i, kind, u)
      BY <2>13, KnownGrown
    <3>9. Known(r, ps, job.id, job.kind, job.patch)
      BY <2>13, KnownGrown
    <3>10. Known(r, ps, id, "render", v)
      BY <2>8, <3>9
    <3>2. ASSUME NEW u \in Patches
          PROVE  /\ r.patch[u].task = r.patch[u].active
                 /\ r.patch[u].active # None => Known(r, ps, r.patch[u].active, "render", u)
      <4>1. CASE u = v
        BY <2>10, <2>12, <3>10, <4>1
      <4>2. CASE u # v
        BY <2>4, <2>12, <3>1, <4>2 DEF RenderTasks
      <4> QED BY <4>1, <4>2
    <3>3. Ids(r.jobs, ps)
      BY <2>4, <2>5, <2>6, <2>8, <2>13, IdsGrown
    <3> QED BY <2>4, <2>14, <3>2, <3>3 DEF Fit, RenderTasks
  <2>17. LoadsKept(c, r, ps)
    BY <2>8, <2>13, <2>15, LoadsGrown
  <2>18. ASSUME NEW u \in Patches, u # v PROVE Keeps(w, r, ps, u)
    <3>1. job.bm \notin BmOf(u) /\ r.patch[u] = c.patch[u] /\ r.view.page = c.view.page
      BY <2>8, <2>12, <2>18 DEF BmOf, Patches
    <3>2. Keeps(c, r, ps, u)
      <4>1. c \in W /\ ps \in Seq(Job) /\ Grown(c.jobs, r.jobs, job)
        BY <2>4, <2>13
      <4> QED BY <4>1, <3>1, PatchGrown
    <3>3. Keeps(w, c, ps, u)
      BY <2>1, <2>18
    <3> QED BY <3>2, <3>3, KeepsMore
  <2>19. Mine(r, v, job) /\ r.patch[v].active # None
    BY <2>2, <2>7, <2>8, <2>10, <2>12 DEF Mine
  <2>20. Waits(r, ps, v)
    BY <2>13, <2>19, LaunchedWaits
  <2>21. SameView(w, r) /\ LoadsKept(w, r, ps)
    BY <2>1, <2>15, <2>17, SameMore, LoadsMore
  <2> QED BY <2>2, <2>12, <2>16, <2>18, <2>20, <2>21
<1> QED BY <1>1, <1>2

\* The state fits after a change of the view alone.
LEMMA ViewFits ==
  ASSUME NEW w, NEW ps, Fit(w, ps), NEW r \in W, r.patch = w.patch, r.jobs = w.jobs
  PROVE  /\ Fit(r, ps)
         /\ r.view.page = w.view.page => \A u \in Patches : Keeps(w, r, ps, u)
<1>1. w \in W /\ ps \in Seq(Job) /\ Ids(w.jobs, ps) /\ RenderTasks(w, ps) /\ Distinct(w.jobs)
  BY DEF Fit, Ids
<1>2. RenderTasks(r, ps)
  BY <1>1 DEF RenderTasks, Known
<1>3. Fit(r, ps)
  BY <1>1, <1>2 DEF Fit
<1>4. ASSUME r.view.page = w.view.page, NEW u \in Patches PROVE Keeps(w, r, ps, u)
  <2>1. r.patch[u] = w.patch[u]
    OBVIOUS
  <2> QED BY <1>1, <1>4, <2>1, UntouchedKeeps
<1> QED BY <1>3, <1>4

\* What a call that draws does: it may draw a patch, and keeps what it does not.
Fine(w, r, ps) == Fit(r, ps) /\ SameView(w, r) /\ LoadsKept(w, r, ps)

\* AddEntire: the whole page is there or is coming.
LEMMA AddEntireKeeps ==
  ASSUME NEW w, NEW ps, Fit(w, ps), posted \in Seq(Job), Among(ps), NEW update \in BOOLEAN,
         w.view.page # None, w.view.ready
  PROVE  /\ Fine(w, AddEntire(w, update), ps)
         /\ \/ Waits(AddEntire(w, update), ps, "entire")
            \/ /\ Keeps(w, AddEntire(w, update), ps, "entire")
               /\ ~update /\ AddEntire(w, update).patch["entire"].area = Whole
         /\ Keeps(w, AddEntire(w, update), ps, "hq")
<1> DEFINE bm == IF w.view.bm = None THEN Unused(InUse(w, posted)) ELSE w.view.bm
           x == [w EXCEPT !.view.bm = bm]
           r == AddEntire(w, update)
<1>1. /\ w \in W /\ w \in [view : View, patch : [Patches -> PatchRec], jobs : Seq(Job)]
      /\ w.view \in View
  BY DEF Fit, W
<1>2. bm \in BmOf("entire")
  <2>1. Unused(InUse(w, posted)) \in Nums \ Pool
    BY <1>1, NewBitmap
  <2>2. w.view.bm \in (Nums \ Pool) \cup {None}
    BY <1>1 DEF View
  <2> QED BY <2>1, <2>2 DEF BmOf
<1>3. r = Render(x, "entire", Whole, bm, update)
  BY DEF AddEntire
<1> HIDE DEF bm, r
<1> DEFINE vw == [w.view EXCEPT !.bm = bm]
<1>4. vw \in View /\ vw.page = w.view.page /\ vw.place = w.view.place /\ vw.annots = w.view.annots
      /\ vw.annotJob = w.view.annotJob /\ vw.force = w.view.force /\ vw.ready = w.view.ready
  BY <1>1, <1>2 DEF View, BmOf
<1>5. x.view = vw /\ x.patch = w.patch /\ x.jobs = w.jobs
      /\ x \in [view : View, patch : [Patches -> PatchRec], jobs : Seq(Job)]
  <2>1. x = [view |-> vw, patch |-> w.patch, jobs |-> w.jobs]
    BY ONLY <1>1
  <2> HIDE DEF x, vw
  <2> QED BY <1>1, <1>4, <2>1
<1> HIDE DEF x, vw
<1>6. x \in W
  BY <1>1, <1>5 DEF W
<1>7. Fit(x, ps) /\ SameView(w, x) /\ \A u \in Patches : Keeps(w, x, ps, u)
  <2>1. Fit(x, ps)
    BY <1>5, <1>6, ViewFits
  <2>2. x.view.page = w.view.page
    BY <1>4, <1>5
  <2>3. \A u \in Patches : Keeps(w, x, ps, u)
    BY <1>5, <1>6, <2>2, ViewFits
  <2> QED BY <1>4, <1>5, <2>1, <2>3 DEF SameView
<1>8. LoadsKept(w, x, ps)
  BY <1>5, <1>7, UntouchedLoads
<1>9. "entire" \in Patches /\ "hq" \in Patches /\ Whole \in Area
  BY DEF Patches, Area
<1>10. x.view.page \in Pages /\ x.view.ready
  BY <1>1, <1>4, <1>5 DEF View
<1>11. /\ Fit(r, ps) /\ SameView(x, r) /\ LoadsKept(x, r, ps)
       /\ Waits(r, ps, "entire") \/ (r = x /\ ~update /\ x.patch["entire"].area = Whole)
       /\ \A u \in Patches : u # "entire" => Keeps(x, r, ps, u)
  BY <1>2, <1>3, <1>7, <1>9, <1>10, RenderKeeps
<1>12. Keeps(w, r, ps, "hq")
  <2>1. Keeps(x, r, ps, "hq") /\ Keeps(w, x, ps, "hq")
    BY <1>7, <1>9, <1>11
  <2> QED BY <2>1, KeepsMore
<1>13. Fine(w, r, ps)
  <2>1. SameView(w, r) /\ LoadsKept(w, r, ps)
    BY <1>7, <1>8, <1>11, SameMore, LoadsMore
  <2> QED BY <1>11, <2>1 DEF Fine
<1>14. Waits(r, ps, "entire") \/ (Keeps(w, r, ps, "entire") /\ ~update /\ r.patch["entire"].area = Whole)
  BY <1>7, <1>9, <1>11
<1> QED BY <1>12, <1>13, <1>14 DEF r

\* AddHq: the sharper patch is drawn, if the view is zoomed in.
LEMMA AddHqKeeps ==
  ASSUME NEW w, NEW ps, Fit(w, ps), posted \in Seq(Job), Among(ps), NEW update \in BOOLEAN,
         w.view.page # None, w.view.ready
  PROVE  /\ Fine(w, AddHq(w, update), ps)
         /\ Keeps(w, AddHq(w, update), ps, "entire")
         /\ Waits(AddHq(w, update), ps, "hq") \/ Keeps(w, AddHq(w, update), ps, "hq")
         /\ update /\ w.view.place # Whole => Waits(AddHq(w, update), ps, "hq")
<1> DEFINE bm == PatchBm(w.patch["hq"].shown, update)
           r == AddHq(w, update)
<1>1. w \in W /\ w.view \in View
  BY DEF Fit, W
<1>2. "entire" \in Patches /\ "hq" \in Patches /\ "hq" # "entire"
  BY DEF Patches
<1>3. Keeps(w, w, ps, "entire") /\ Keeps(w, w, ps, "hq")
  BY DEF Keeps
<1>4. CASE w.view.place = Whole
  <2>1. r = w
    BY <1>4 DEF AddHq
  <2>2. Fine(w, w, ps)
    BY DEF Fine, SameView, LoadsKept
  <2> HIDE DEF r
  <2>3. Fine(w, r, ps) /\ Keeps(w, r, ps, "entire") /\ Keeps(w, r, ps, "hq")
    BY <1>3, <2>1, <2>2
  <2> QED BY <1>4, <2>3 DEF r
<1>5. CASE w.view.place # Whole
  <2>1. r = Render(w, "hq", w.view.place, bm, update)
    BY <1>5 DEF AddHq
  <2>2. bm \in BmOf("hq") /\ w.view.place \in Area /\ w.view.page \in Pages
    BY <1>1 DEF PatchBm, BmOf, Pool, View
  <2> HIDE DEF bm, r
  <2>3. /\ Fit(r, ps) /\ SameView(w, r) /\ LoadsKept(w, r, ps)
        /\ Waits(r, ps, "hq") \/ (r = w /\ ~update /\ w.patch["hq"].area = w.view.place)
        /\ \A u \in Patches : u # "hq" => Keeps(w, r, ps, u)
    BY <1>2, <2>1, <2>2, RenderKeeps
  <2>4. Fine(w, r, ps)
    BY <2>3 DEF Fine
  <2>5. Keeps(w, r, ps, "entire")
    BY <1>2, <2>3
  <2>6. Waits(r, ps, "hq") \/ (Keeps(w, r, ps, "hq") /\ ~update)
    BY <1>3, <2>3
  <2> QED BY <2>4, <2>5, <2>6 DEF r
<1> QED BY <1>4, <1>5

\* Redraw: both.
LEMMA RedrawKeeps ==
  ASSUME NEW w, NEW ps, Fit(w, ps), posted \in Seq(Job), Among(ps), NEW update \in BOOLEAN,
         w.view.page # None, w.view.ready
  PROVE  /\ Fine(w, Redraw(w, update), ps)
         /\ \/ Waits(Redraw(w, update), ps, "entire")
            \/ /\ Keeps(w, Redraw(w, update), ps, "entire")
               /\ ~update /\ Redraw(w, update).patch["entire"].area = Whole
         /\ Waits(Redraw(w, update), ps, "hq") \/ Keeps(w, Redraw(w, update), ps, "hq")
         /\ update /\ w.view.place # Whole => Waits(Redraw(w, update), ps, "hq")
<1> DEFINE x == AddEntire(w, update)
           r == AddHq(x, update)
<1>1. Fine(w, x, ps) /\ Keeps(w, x, ps, "hq")
  BY AddEntireKeeps
<1>2. Waits(x, ps, "entire") \/ (Keeps(w, x, ps, "entire") /\ ~update /\ x.patch["entire"].area = Whole)
  BY AddEntireKeeps
<1>3. Redraw(w, update) = r
  BY DEF Redraw
<1> HIDE DEF x
<1>4. /\ Fit(x, ps) /\ SameView(w, x) /\ LoadsKept(w, x, ps) /\ x.view.page # None /\ x.view.ready
      /\ x.view.place = w.view.place
  BY <1>1 DEF Fine, SameView
<1>5. Fine(x, r, ps) /\ Keeps(x, r, ps, "entire")
  BY <1>4, AddHqKeeps
<1>6. Waits(r, ps, "hq") \/ Keeps(x, r, ps, "hq")
  BY <1>4, AddHqKeeps
<1>7. update /\ x.view.place # Whole => Waits(r, ps, "hq")
  BY <1>4, AddHqKeeps
<1> HIDE DEF r
<1>8. Fine(w, r, ps)
  <2>1. Fit(r, ps) /\ SameView(x, r) /\ LoadsKept(x, r, ps)
    BY <1>5 DEF Fine
  <2>2. SameView(w, r) /\ LoadsKept(w, r, ps)
    BY <1>4, <2>1, SameMore, LoadsMore
  <2> QED BY <2>1, <2>2 DEF Fine
<1>9. Waits(r, ps, "entire") \/ (Keeps(w, r, ps, "entire") /\ ~update /\ r.patch["entire"].area = Whole)
  <2>1. Waits(x, ps, "entire") => Waits(r, ps, "entire")
    BY <1>5, KeepsMore
  <2>2. Keeps(w, x, ps, "entire") => Keeps(w, r, ps, "entire")
    BY <1>5, KeepsMore
  <2>3. r.patch["entire"].area = x.patch["entire"].area
    BY <1>5 DEF Keeps
  <2> QED BY <1>2, <2>1, <2>2, <2>3
<1>10. Waits(r, ps, "hq") \/ Keeps(w, r, ps, "hq")
  <2>1. Keeps(x, r, ps, "hq") => Keeps(w, r, ps, "hq")
    BY <1>1, KeepsMore
  <2> QED BY <1>6, <2>1
<1> QED BY <1>3, <1>4, <1>7, <1>8, <1>9, <1>10

\* ResetPatches: both are blank.
LEMMA ResetPatchesKeeps ==
  ASSUME NEW w, NEW ps, Fit(w, ps)
  PROVE  /\ Fine(w, ResetPatches(w), ps) /\ ResetPatches(w).view = w.view
         /\ \A u \in Patches : Cleared(ResetPatches(w), u)
<1> DEFINE x == Reset(w, "entire")
           r == Reset(x, "hq")
<1>1. "entire" \in Patches /\ "hq" \in Patches /\ "hq" # "entire" /\ \A u \in Patches : u \in {"entire", "hq"}
  BY DEF Patches
<1>2. /\ Fit(x, ps) /\ SameView(w, x) /\ LoadsKept(w, x, ps) /\ Cleared(x, "entire")
      /\ x.view = w.view
  BY <1>1, ResetKeeps
<1> HIDE DEF x
<1>3. /\ Fit(r, ps) /\ SameView(x, r) /\ LoadsKept(x, r, ps) /\ Cleared(r, "hq")
      /\ r.view = x.view
  BY <1>1, <1>2, ResetKeeps
<1>4. Keeps(x, r, ps, "entire")
  BY <1>1, <1>2, ResetKeeps
<1> HIDE DEF r
<1>5. Cleared(r, "entire")
  BY <1>2, <1>4 DEF Keeps, Cleared
<1>6. Fine(w, r, ps)
  <2>1. SameView(w, r) /\ LoadsKept(w, r, ps)
    BY <1>2, <1>3, SameMore, LoadsMore
  <2> QED BY <1>3, <2>1 DEF Fine
<1> QED BY <1>1, <1>2, <1>3, <1>5, <1>6 DEF ResetPatches, x, r

\* DiscardRenderedPage: and the bitmap of the page is let go.
LEMMA DiscardKeeps ==
  ASSUME NEW w, NEW ps, Fit(w, ps)
  PROVE  /\ Fine(w, DiscardRenderedPage(w), ps)
         /\ \A u \in Patches : Cleared(DiscardRenderedPage(w), u)
<1> DEFINE x == ResetPatches(w)
           r == [x EXCEPT !.view.bm = None]
           vw == [x.view EXCEPT !.bm = None]
<1>1. Fine(w, x, ps) /\ \A u \in Patches : Cleared(x, u)
  BY ResetPatchesKeeps
<1> HIDE DEF x
<1>2. Fit(x, ps) /\ SameView(w, x) /\ LoadsKept(w, x, ps)
  BY <1>1 DEF Fine
<1>3. /\ x \in W /\ x \in [view : View, patch : [Patches -> PatchRec], jobs : Seq(Job)]
      /\ x.view \in View
  BY <1>2 DEF Fit, W
<1>4. vw \in View /\ vw.page = x.view.page /\ vw.place = x.view.place /\ vw.annots = x.view.annots
      /\ vw.annotJob = x.view.annotJob /\ vw.force = x.view.force /\ vw.ready = x.view.ready
  BY <1>3 DEF View
<1>5. r.view = vw /\ r.patch = x.patch /\ r.jobs = x.jobs
      /\ r \in [view : View, patch : [Patches -> PatchRec], jobs : Seq(Job)]
  <2>1. r = [view |-> vw, patch |-> x.patch, jobs |-> x.jobs]
    BY ONLY <1>3
  <2> HIDE DEF r, vw
  <2> QED BY <1>3, <1>4, <2>1
<1>6. DiscardRenderedPage(w) = r
  BY DEF DiscardRenderedPage, x
<1> HIDE DEF r, vw
<1>7. r \in W
  BY <1>3, <1>5 DEF W
<1>8. Fit(r, ps)
  BY <1>2, <1>5, <1>7, ViewFits
<1>9. SameView(x, r)
  BY <1>4, <1>5 DEF SameView
<1>10. LoadsKept(x, r, ps)
  BY <1>5, <1>9, UntouchedLoads
<1>11. Fine(w, r, ps)
  <2>1. SameView(w, r) /\ LoadsKept(w, r, ps)
    BY <1>2, <1>9, <1>10, SameMore, LoadsMore
  <2> QED BY <1>8, <2>1 DEF Fine
<1>12. \A u \in Patches : Cleared(r, u)
  BY <1>1, <1>5 DEF Cleared
<1> QED BY <1>6, <1>11, <1>12

\* LoadAnnotations: the last load is of the page of the view.
LEMMA LoadKeeps ==
  ASSUME NEW w, NEW ps, Fit(w, ps), posted \in Seq(Job), Among(ps), AnnotTask(w, ps),
         w.view.page \in Pages
  PROVE  /\ Fit(LoadAnnotations(w), ps) /\ AnnotTask(LoadAnnotations(w), ps)
         /\ \A ver : AnnotsRight(LoadAnnotations(w), ps, ver)
         /\ ~NoLoads(LoadAnnotations(w).jobs)
         /\ LoadAnnotations(w).patch = w.patch
         /\ LoadAnnotations(w).view.page = w.view.page
         /\ LoadAnnotations(w).view.ready = w.view.ready
         /\ \A u \in Patches : Keeps(w, LoadAnnotations(w), ps, u)
<1> DEFINE c == [w EXCEPT !.jobs = Dropped(w, w.view.annotJob)]
           id == NewId(c)
           job == [id |-> id, kind |-> "annots", patch |-> None, page |-> w.view.page, area |-> None,
                   bm |-> None, erase |-> FALSE, aborted |-> FALSE, begun |-> FALSE, late |-> FALSE,
                   version |-> 0]
           vw == [w.view EXCEPT !.annots = None, !.annotJob = id]
           r == LoadAnnotations(w)
<1>1. /\ w \in W /\ w \in [view : View, patch : [Patches -> PatchRec], jobs : Seq(Job)]
      /\ w.view \in View /\ Ids(w.jobs, ps) /\ RenderTasks(w, ps) /\ Distinct(w.jobs)
      /\ ps \in Seq(Job)
  BY DEF Fit, W, Ids
<1> DEFINE left == Dropped(w, w.view.annotJob)
           t == w.view.annotJob
<1>2. Cancelled(w.jobs, left, t)
  BY <1>1, DroppedCancels
<1> HIDE DEF left
<1>3. left \in Seq(Job)
  BY <1>2 DEF Cancelled
<1>4. c = [view |-> w.view, patch |-> w.patch, jobs |-> left]
  <2>1. c = [w EXCEPT !.jobs = left]
    BY DEF left
  <2> QED BY <1>1, <2>1
<1>5. r = Launch([c EXCEPT !.view = [@ EXCEPT !.annots = None, !.annotJob = id]], job)
  BY DEF LoadAnnotations
<1> HIDE DEF c
<1>6. /\ c \in [view : View, patch : [Patches -> PatchRec], jobs : Seq(Job)]
      /\ c.view = w.view /\ c.patch = w.patch /\ c.jobs = left
  BY <1>1, <1>3, <1>4
<1>7. c \in W
  BY <1>1, <1>6 DEF W
<1>8. /\ id \in Nums /\ \A i \in DOMAIN left : left[i].id # id
      /\ \A i \in DOMAIN posted : posted[i].id # id
  <2> HIDE DEF id
  <2>1. id = NewId(c)
    BY DEF id
  <2> QED BY <1>6, <1>7, <2>1, NewIdIs
<1> HIDE DEF id
<1>9. \A i \in DOMAIN ps : ps[i].id # id
  BY <1>8 DEF Among
<1>10. /\ job \in Job /\ job.id = id /\ job.kind = "annots" /\ job.patch = None /\ job.bm = None
       /\ job.page = w.view.page
  <2>1. job \in JobRec
    BY <1>8 DEF JobRec
  <2>2. /\ job.id = id /\ job.kind = "annots" /\ job.patch = None /\ job.bm = None
        /\ job.page = w.view.page /\ ~job.erase
    OBVIOUS
  <2> HIDE DEF job
  <2>3. JobOK(job)
    BY <2>2 DEF JobOK
  <2> QED BY <2>1, <2>2, <2>3 DEF Job
<1> HIDE DEF job
<1>11. vw \in View /\ vw.page = w.view.page /\ vw.ready = w.view.ready /\ vw.annotJob = id
  BY <1>1, <1>8 DEF View
<1>12. r = [view |-> vw, patch |-> w.patch, jobs |-> Append(left, job)]
  <2> DEFINE m == [c EXCEPT !.view = [@ EXCEPT !.annots = None, !.annotJob = id]]
             q == Append(left, job)
  <2>1. m = [c EXCEPT !.view = vw]
    BY <1>6
  <2> HIDE DEF m, vw
  <2>2. m = [view |-> vw, patch |-> w.patch, jobs |-> left]
    BY <1>6, <2>1
  <2>3. r = [m EXCEPT !.jobs = q]
    <3>1. m.jobs = left
      BY <2>2
    <3> HIDE DEF m
    <3>2. r = Launch(m, job)
      BY <1>5 DEF m
    <3> QED BY <3>1, <3>2 DEF Launch
  <2> HIDE DEF m, q, vw
  <2>4. r = [view |-> vw, patch |-> w.patch, jobs |-> q]
    BY <2>2, <2>3
  <2> QED BY <2>4 DEF q
<1> HIDE DEF vw, r, t
<1>13. Grown(left, Append(left, job), job)
  BY <1>3, <1>10, AppendGrows
<1>14. /\ r.view = vw /\ r.patch = w.patch /\ r.jobs = Append(left, job)
       /\ r \in [view : View, patch : [Patches -> PatchRec], jobs : Seq(Job)]
  <2>1. Append(left, job) \in Seq(Job)
    BY <1>13 DEF Grown
  <2> QED BY <1>1, <1>11, <1>12, <2>1
<1>15. r \in W /\ Grown(c.jobs, r.jobs, job)
  <2>1. r \in W
    BY <1>1, <1>14 DEF W
  <2> QED BY <1>6, <1>13, <1>14, <2>1
<1>16. \A u \in Patches : w.patch[u].active # None => w.patch[u].active # t
  <2> SUFFICES ASSUME NEW u \in Patches, w.patch[u].active # None, w.patch[u].active = t PROVE FALSE
    OBVIOUS
  <2>1. Known(w, ps, t, "render", u)
    BY <1>1 DEF RenderTasks
  <2>2. Known(w, ps, t, "annots", None)
    BY DEF AnnotTask, t
  <2>3. \/ Tagged(w.jobs, t, "render", u) /\ Tagged(w.jobs, t, "annots", None)
        \/ Tagged(w.jobs, t, "render", u) /\ Tagged(ps, t, "annots", None)
        \/ Tagged(ps, t, "render", u) /\ Tagged(w.jobs, t, "annots", None)
        \/ Tagged(ps, t, "render", u) /\ Tagged(ps, t, "annots", None)
    BY <2>1, <2>2 DEF Known
  <2> QED BY <1>1, <2>3 DEF Tagged, Ids, Distinct
<1>17. /\ \A i, kind, u : Known(c, ps, i, kind, u) => Known(r, ps, i, kind, u)
       /\ Known(r, ps, id, "annots", None)
  <2>1. \A i, kind, u : Known(c, ps, i, kind, u) => Known(r, ps, i, kind, u)
    BY <1>15, KnownGrown
  <2>2. Known(r, ps, job.id, job.kind, job.patch)
    BY <1>15, KnownGrown
  <2> QED BY <1>10, <2>1, <2>2
<1>18. Fit(r, ps)
  <2>1. Ids(left, ps)
    BY <1>1, <1>2, IdsLeft
  <2>2. Ids(r.jobs, ps)
    <3>1. Grown(left, r.jobs, job)
      BY <1>13, <1>14
    <3> QED BY <1>3, <1>8, <1>9, <1>10, <2>1, <3>1, IdsGrown
  <2>3. ASSUME NEW u \in Patches
        PROVE  /\ r.patch[u].task = r.patch[u].active
               /\ r.patch[u].active # None => Known(r, ps, r.patch[u].active, "render", u)
    <3>1. r.patch[u] = w.patch[u] /\ w.patch[u].task = w.patch[u].active
      BY <1>1, <1>14 DEF RenderTasks
    <3>2. ASSUME w.patch[u].active # None PROVE Known(r, ps, w.patch[u].active, "render", u)
      <4> DEFINE a == w.patch[u].active
      <4>1. a # t /\ Known(w, ps, a, "render", u)
        BY <1>1, <1>16, <3>2 DEF RenderTasks
      <4>2. Cancelled(w.jobs, c.jobs, t)
        BY <1>2, <1>6
      <4> HIDE DEF a
      <4>3. Known(c, ps, a, "render", u)
        BY <4>1, <4>2, StillKnown
      <4> QED BY <1>17, <4>3 DEF a
    <3> QED BY <3>1, <3>2
  <2> QED BY <1>1, <1>15, <2>2, <2>3 DEF Fit, RenderTasks
<1>19. AnnotTask(r, ps)
  BY <1>11, <1>14, <1>17 DEF AnnotTask
<1>20. PICK n \in DOMAIN r.jobs : /\ r.jobs[n] = job /\ DOMAIN r.jobs = DOMAIN left \cup {n}
                                  /\ \A k \in DOMAIN left : k < n
  BY <1>13, <1>14 DEF Grown
<1>21. LastLoad(r.jobs, n)
  <2>1. \A k \in DOMAIN r.jobs : ~(k > n)
    <3>1. r.jobs \in Seq(Job)
      BY <1>14
    <3> SUFFICES ASSUME NEW k \in DOMAIN r.jobs, k > n PROVE FALSE
      OBVIOUS
    <3>2. k \in Nat /\ n \in Nat
      BY <3>1
    <3>3. k \in DOMAIN left \/ k = n
      BY <1>20
    <3> QED BY <1>20, <3>2, <3>3
  <2> QED BY <1>10, <1>20, <2>1 DEF LastLoad
<1>22. \A ver : AnnotsRight(r, ps, ver)
  BY <1>10, <1>11, <1>14, <1>20, <1>21 DEF AnnotsRight
<1>23. ~NoLoads(r.jobs)
  BY <1>10, <1>20 DEF NoLoads
<1>24. ASSUME NEW u \in Patches PROVE Keeps(w, r, ps, u)
  <2>1. Keeps(w, c, ps, u)
    <3>1. Cancelled(w.jobs, c.jobs, t) /\ (w.patch[u].active # None => w.patch[u].active # t)
          /\ c.patch[u] = w.patch[u] /\ c.view.page = w.view.page
      BY <1>2, <1>6, <1>16
    <3> QED BY <3>1, PatchKept
  <2>2. Keeps(c, r, ps, u)
    <3>1. job.bm \notin BmOf(u)
      <4>1. None \notin Nat
        BY PageViewAssumption
      <4> QED BY <1>10, <4>1 DEF BmOf, Nums, Pool
    <3>2. r.patch[u] = c.patch[u] /\ r.view.page = c.view.page
      BY <1>6, <1>11, <1>14
    <3>3. c \in W /\ ps \in Seq(Job) /\ Grown(c.jobs, r.jobs, job)
      BY <1>1, <1>7, <1>15
    <3> QED BY <3>1, <3>2, <3>3, PatchGrown
  <2> QED BY <2>1, <2>2, KeepsMore
<1>25. r.view.page = w.view.page /\ r.view.ready = w.view.ready
  BY <1>11, <1>14
<1> QED BY <1>14, <1>18, <1>19, <1>22, <1>23, <1>24, <1>25 DEF r

----------------------------------------------------------------------------
(* The invariant *)

Content == [page : Pages \cup {None}, area : Area \cup {None}, version : Nat \X Nat, late : BOOLEAN]

\* An erased bitmap has a content.
LEMMA ErasedIs ==
  ASSUME NEW late \in BOOLEAN
  PROVE  Erased(late) \in Content /\ Erased(late).late = late /\ Blank = Erased(FALSE)
  BY DEF Erased, Blank, Content

Sound ==
    /\ Fit(Now, posted) /\ AnnotTask(Now, posted) /\ Idle(Now)
    /\ version \in [Pages -> Nat \X Nat]
    /\ content \in [InUse(Now, posted) -> Content]

RightOf(w, ps, con, ver) ==
    /\ \A v \in Patches : PatchRight(w, ps, con, ver, v)
    /\ w.view.page # None => AnnotsRight(w, ps, ver) /\ Redrawn(w, ps)
Right == RightOf(Now, posted, content, version)

\* What a step of the main thread makes of the view: its state fits, what it
\* shows it has shown or was posted, and it is right if it was.
Step(r, ps, ver) ==
    /\ Fit(r, ps) /\ AnnotTask(r, ps) /\ Idle(r)
    /\ \A u \in Patches : r.patch[u].shown \in InUse(Now, posted) \cup {None}
    /\ Right => RightOf(r, ps, content, ver)

\* The parts of the state now.
LEMMA NowIs ==
  ASSUME Sound
  PROVE  /\ Now \in W /\ Now \in [view : View, patch : [Patches -> PatchRec], jobs : Seq(Job)]
         /\ view \in View /\ patch \in [Patches -> PatchRec] /\ jobs \in Seq(Job)
         /\ Now.view = view /\ Now.patch = patch /\ Now.jobs = jobs
         /\ posted \in Seq(Job) /\ Ids(jobs, posted) /\ Distinct(jobs) /\ Distinct(posted)
         /\ RenderTasks(Now, posted) /\ Among(posted)
<1>1. Now \in W /\ posted \in Seq(Job) /\ Ids(Now.jobs, posted) /\ RenderTasks(Now, posted)
  BY DEF Sound, Fit
<1>2. Now.view = view /\ Now.patch = patch /\ Now.jobs = jobs
  BY DEF Now
<1>3. Now \in [view : View, patch : [Patches -> PatchRec], jobs : Seq(Job)]
  BY <1>1 DEF W
<1>4. Among(posted)
  BY <1>1 DEF Among
<1> HIDE DEF Now
<1> QED BY <1>1, <1>2, <1>3, <1>4 DEF Ids

\* A record set as the state is the state.
LEMMA SetIs ==
  ASSUME NEW r \in W, Set(r)
  PROVE  Now' = r
<1>1. r \in [view : View, patch : [Patches -> PatchRec], jobs : Seq(Job)]
  BY DEF W
<1>2. r = [view |-> r.view, patch |-> r.patch, jobs |-> r.jobs]
  BY <1>1
<1> QED BY <1>2 DEF Set, Now

\* What a call keeps showing was shown.
LEMMA ShownInUse ==
  ASSUME Sound, NEW r, \A u \in Patches : r.patch[u].shown = patch[u].shown
  PROVE  \A u \in Patches : r.patch[u].shown \in InUse(Now, posted) \cup {None}
  BY DEF InUse, Now

\* A blank patch is right.
LEMMA ClearedRight ==
  ASSUME NEW r, NEW u, Cleared(r, u), NEW ps, NEW con, NEW ver
  PROVE  PatchRight(r, ps, con, ver, u)
  BY DEF Cleared, PatchRight

\* Of the bitmaps that are in use before and after, none is collected.
LEMMA CollectedKeeps ==
  ASSUME Sound, NEW r \in W, NEW ps, Among(ps), Set(r), posted' = ps, Collected,
         NEW ver, Step(r, ps, ver), Right
  PROVE  RightOf(r, ps, content', ver)
<1>1. ps \in Seq(Job) /\ \A i \in DOMAIN ps : \E k \in DOMAIN posted : ps[i] = posted[k]
  BY DEF Among
<1>2. Now' = r
  BY SetIs
<1>3. content' = [b \in InUse(r, ps) |-> IF b \in DOMAIN content \cap Live(r, ps) THEN content[b] ELSE Blank]
  <2>1. Now' = [view |-> view', patch |-> patch', jobs |-> jobs']
    BY DEF Now
  <2> QED BY <1>2, <2>1 DEF Collected
<1>4. DOMAIN content = InUse(Now, posted)
  BY DEF Sound
<1>5. \A b : b \in InUse(r, ps) /\ b \in InUse(Now, posted) /\ b \in Live(r, ps) => content'[b] = content[b]
  BY <1>3, <1>4
<1>6. RightOf(r, ps, content, ver)
  BY DEF Step
<1>7. ASSUME NEW u \in Patches PROVE PatchRight(r, ps, content', ver, u)
  <2>1. PatchRight(r, ps, content, ver, u)
    BY <1>6 DEF RightOf
  <2>2. ASSUME r.patch[u].active # None PROVE Coming(r, ps, content', ver, u)
    <3>1. Coming(r, ps, content, ver, u)
      BY <2>1, <2>2 DEF PatchRight
    <3>2. ASSUME NEW i \in DOMAIN ps, Mine(r, u, ps[i]), Untouched(r.jobs, ps[i].bm),
                 Current(u, r.view.page, ps[i].area, content[ps[i].bm], ver)
          PROVE  Coming(r, ps, content', ver, u)
      <4>1. ps[i] \in JobRec /\ JobOK(ps[i])
        BY <1>1 DEF Job
      <4>2. ps[i].bm \in Nums
        BY <3>2, <4>1 DEF JobOK, Mine, BmOf, Pool, Nums
      <4>3. ps[i].bm # None
        BY <4>2, PageViewAssumption DEF Nums
      <4>4. ps[i].bm \in InUse(r, ps) /\ ps[i].bm \in Live(r, ps)
        BY <4>3 DEF InUse, Live
      <4>5. ps[i].bm \in InUse(Now, posted)
        BY <1>1, <4>3 DEF InUse
      <4>6. content'[ps[i].bm] = content[ps[i].bm]
        BY <1>5, <4>4, <4>5
      <4> QED BY <3>2, <4>6 DEF Coming
    <3> QED BY <3>1, <3>2 DEF Coming
  <2>3. ASSUME r.patch[u].active = None, r.patch[u].area # None PROVE Settled(r, content', ver, u)
    <3>1. Settled(r, content, ver, u)
      BY <2>1, <2>3 DEF PatchRight
    <3>2. r.patch[u].shown # None
      BY <3>1 DEF Settled
    <3>3. r.patch[u].shown \in InUse(r, ps) /\ r.patch[u].shown \in Live(r, ps)
      BY <2>3, <3>2 DEF InUse, Live
    <3>4. r.patch[u].shown \in InUse(Now, posted)
      BY <3>2 DEF Step
    <3>5. content'[r.patch[u].shown] = content[r.patch[u].shown]
      BY <1>5, <3>3, <3>4
    <3> QED BY <3>1, <3>5 DEF Settled
  <2> QED BY <2>2, <2>3 DEF PatchRight
<1> QED BY <1>6, <1>7 DEF RightOf

\* So a step of the main thread keeps the invariant.
LEMMA MainKeeps ==
  ASSUME Sound, NEW r \in W, NEW ps, Among(ps), Set(r), posted' = ps, Collected,
         Step(r, ps, version'), version' \in [Pages -> Nat \X Nat]
  PROVE  Sound' /\ (Right => Right')
<1>1. Now' = r
  BY SetIs
<1>2. content' \in [InUse(r, ps) -> Content]
  <2>1. content' = [b \in InUse(r, ps) |-> IF b \in DOMAIN content \cap Live(r, ps) THEN content[b] ELSE Blank]
    <3>1. Now' = [view |-> view', patch |-> patch', jobs |-> jobs']
      BY DEF Now
    <3> QED BY <1>1, <3>1 DEF Collected
  <2>2. Blank \in Content
    BY ErasedIs
  <2>3. \A b \in DOMAIN content : content[b] \in Content
    BY DEF Sound
  <2> QED BY <2>1, <2>2, <2>3
<1>3. InUse(Now, posted)' = InUse(r, ps)
  BY <1>1 DEF InUse
<1>4. /\ Fit(Now, posted)' = Fit(r, ps) /\ AnnotTask(Now, posted)' = AnnotTask(r, ps)
      /\ Idle(Now)' = Idle(r)
  BY <1>1 DEF Fit, W, Ids, RenderTasks, Known, Tagged, AnnotTask, Idle
<1>5. Sound'
  BY <1>2, <1>3, <1>4 DEF Sound, Step, Content
<1>6. ASSUME Right PROVE Right'
  <2>1. RightOf(r, ps, content', version')
    BY <1>6, CollectedKeeps
  <2> QED BY <1>1, <2>1 DEF Right
<1> QED BY <1>5, <1>6

----------------------------------------------------------------------------
(* The steps of the user *)

\* What is kept is right if it was.
LEMMA KeepsRight ==
  ASSUME NEW w, NEW r, NEW ps, NEW u, Keeps(w, r, ps, u) \/ Waits(r, ps, u) \/ Cleared(r, u)
  PROVE  \A con, ver : PatchRight(w, ps, con, ver, u) => PatchRight(r, ps, con, ver, u)
<1>1. CASE Keeps(w, r, ps, u)
  BY <1>1 DEF Keeps
<1>2. CASE Waits(r, ps, u)
  BY <1>2 DEF Waits
<1>3. CASE Cleared(r, u)
  BY <1>3, ClearedRight
<1> QED BY <1>1, <1>2, <1>3

\* A view shown keeps the invariant when each patch is kept, drawn or blank, and
\* the loads are kept.
LEMMA FineStep ==
  ASSUME Sound, view.page # None, NEW r, Fine(Now, r, posted),
         \A u \in Patches : Keeps(Now, r, posted, u) \/ Waits(r, posted, u) \/ Cleared(r, u),
         Right => Redrawn(r, posted)
  PROVE  r \in W /\ Step(r, posted, version)
<1>1. /\ Now.view = view /\ Now.patch = patch
      /\ Fit(r, posted) /\ SameView(Now, r) /\ LoadsKept(Now, r, posted)
  BY NowIs DEF Fine
<1>2. r \in W
  BY <1>1 DEF Fit
<1>3. /\ r.view.page = view.page /\ r.view.ready = view.ready
      /\ \A u \in Patches : r.patch[u].shown = patch[u].shown
  BY <1>1 DEF SameView
<1>4. \A u \in Patches : r.patch[u].shown \in InUse(Now, posted) \cup {None}
  BY <1>3, ShownInUse
<1>5. AnnotTask(r, posted)
  BY <1>1 DEF LoadsKept, Sound
<1>6. Idle(r)
  BY <1>1, <1>3 DEF Idle, Sound
<1>7. ASSUME Right PROVE RightOf(r, posted, content, version)
  <2>1. \A u \in Patches : PatchRight(r, posted, content, version, u)
    <3> SUFFICES ASSUME NEW u \in Patches PROVE PatchRight(r, posted, content, version, u)
      OBVIOUS
    <3>1. PatchRight(Now, posted, content, version, u)
      BY <1>7 DEF Right, RightOf
    <3>2. Keeps(Now, r, posted, u) \/ Waits(r, posted, u) \/ Cleared(r, u)
      OBVIOUS
    <3> QED BY <3>1, <3>2, KeepsRight
  <2>2. AnnotsRight(Now, posted, version)
    BY <1>1, <1>7 DEF Right, RightOf
  <2>3. AnnotsRight(r, posted, version)
    BY <1>1, <2>2 DEF LoadsKept
  <2> QED BY <1>7, <2>1, <2>3 DEF RightOf
<1> QED BY <1>1, <1>2, <1>4, <1>5, <1>6, <1>7 DEF Step

\* Settling draws the sharper patch.
LEMMA SettleStep ==
  ASSUME Sound, Settle
  PROVE  \E r \in W : Set(r) /\ Step(r, posted, version)
<1> DEFINE r == AddHq(Now, FALSE)
<1>1. /\ Fit(Now, posted) /\ posted \in Seq(Job) /\ Among(posted) /\ Now.view = view
      /\ view.page # None /\ view.ready
  BY NowIs DEF Sound, Settle, Shows, Idle
<1>2. /\ Fine(Now, r, posted) /\ Keeps(Now, r, posted, "entire")
      /\ Waits(r, posted, "hq") \/ Keeps(Now, r, posted, "hq")
  BY <1>1, AddHqKeeps
<1>3. Set(r)
  BY DEF Settle
<1> HIDE DEF r
<1>4. \A u \in Patches : Keeps(Now, r, posted, u) \/ Waits(r, posted, u) \/ Cleared(r, u)
  BY <1>2 DEF Patches
<1>5. ASSUME Right PROVE Redrawn(r, posted)
  <2>1. Redrawn(Now, posted)
    BY <1>1, <1>5 DEF Right, RightOf
  <2>2. NoLoads(r.jobs) => NoLoads(Now.jobs)
    BY <1>2 DEF Fine, LoadsKept
  <2> QED BY <1>2, <2>1, <2>2 DEF Redrawn, Keeps
<1>6. r \in W /\ Step(r, posted, version)
  BY <1>1, <1>2, <1>4, <1>5, FineStep
<1> QED BY <1>3, <1>6

\* Unsettling takes it away.
LEMMA UnsettleStep ==
  ASSUME Sound, Unsettle
  PROVE  \E r \in W : Set(r) /\ Step(r, posted, version)
<1> DEFINE r == Reset(Now, "hq")
<1>1. Fit(Now, posted) /\ posted \in Seq(Job) /\ Among(posted) /\ Now.view = view /\ view.page # None
  BY NowIs DEF Sound, Unsettle, Shows
<1>2. "entire" \in Patches /\ "hq" \in Patches /\ "hq" # "entire"
  BY DEF Patches
<1>3. /\ Fit(r, posted) /\ SameView(Now, r) /\ LoadsKept(Now, r, posted) /\ Cleared(r, "hq")
      /\ r.view = Now.view
  BY <1>1, <1>2, ResetKeeps
<1>4. Keeps(Now, r, posted, "entire")
  BY <1>1, <1>2, ResetKeeps
<1>5. Set(r)
  BY DEF Unsettle
<1> HIDE DEF r
<1>6. \A u \in Patches : Keeps(Now, r, posted, u) \/ Waits(r, posted, u) \/ Cleared(r, u)
  BY <1>3, <1>4 DEF Patches
<1>7. ASSUME Right PROVE Redrawn(r, posted)
  <2>1. Redrawn(Now, posted)
    BY <1>1, <1>7 DEF Right, RightOf
  <2>2. NoLoads(r.jobs) => NoLoads(Now.jobs)
    BY <1>3 DEF LoadsKept
  <2> QED BY <1>4, <2>1, <2>2 DEF Redrawn, Keeps
<1>8. Fine(Now, r, posted)
  BY <1>3 DEF Fine
<1>9. r \in W /\ Step(r, posted, version)
  BY <1>1, <1>6, <1>7, <1>8, FineStep
<1> QED BY <1>5, <1>9

\* Moving changes the place alone.
LEMMA MoveStep ==
  ASSUME Sound, NEW place \in Places \cup {Whole}, Move(place)
  PROVE  \E r \in W : Set(r) /\ Step(r, posted, version)
<1> DEFINE r == [Now EXCEPT !.view.place = place]
           vw == [view EXCEPT !.place = place]
<1>1. /\ Fit(Now, posted) /\ Now \in W /\ Now.view = view /\ Now.patch = patch /\ Now.jobs = jobs
      /\ view.page # None /\ view \in View
      /\ Now \in [view : View, patch : [Patches -> PatchRec], jobs : Seq(Job)]
  BY NowIs DEF Sound, Move, Shows
<1>2. Set(r)
  BY DEF Move
<1>3. vw \in View /\ vw.page = view.page /\ vw.annots = view.annots /\ vw.annotJob = view.annotJob
      /\ vw.ready = view.ready
  BY <1>1 DEF View, Area
<1>4. r = [view |-> vw, patch |-> patch, jobs |-> jobs]
  BY DEF Now
<1> HIDE DEF r, vw, Now
<1>5. r.view = vw /\ r.patch = patch /\ r.jobs = jobs
  BY <1>4
<1>6. r \in W
  <2>1. r \in [view : View, patch : [Patches -> PatchRec], jobs : Seq(Job)]
    BY <1>1, <1>3, <1>4
  <2> QED BY <1>1, <1>5, <2>1 DEF W
<1>7. Fit(r, posted)
  BY <1>1, <1>5, <1>6, ViewFits
<1>8. \A u \in Patches : Keeps(Now, r, posted, u)
  BY <1>1, <1>3, <1>5, <1>6, ViewFits
<1>9. AnnotTask(r, posted) /\ Idle(r)
  BY <1>1, <1>3, <1>5 DEF Sound, AnnotTask, Idle, Known
<1>10. \A u \in Patches : r.patch[u].shown \in InUse(Now, posted) \cup {None}
  BY <1>5, ShownInUse
<1>11. ASSUME Right PROVE RightOf(r, posted, content, version)
  <2>1. \A u \in Patches : PatchRight(r, posted, content, version, u)
    BY <1>8, <1>11 DEF Right, RightOf, Keeps
  <2>2. AnnotsRight(Now, posted, version) /\ Redrawn(Now, posted)
    BY <1>1, <1>11 DEF Right, RightOf
  <2>3. AnnotsRight(r, posted, version)
    BY <1>1, <1>3, <1>5, <2>2 DEF AnnotsRight
  <2>4. Redrawn(r, posted)
    BY <1>1, <1>5, <2>2 DEF Redrawn
  <2> QED BY <2>1, <2>3, <2>4 DEF RightOf
<1>12. Step(r, posted, version)
  BY <1>7, <1>9, <1>10, <1>11 DEF Step
<1> QED BY <1>2, <1>6, <1>12

\* A view that is not ready draws nothing when it is given a page.
LEMMA UnreadyDraws ==
  ASSUME NEW w, NEW ps, Fit(w, ps), posted \in Seq(Job), w.view.page # None, ~w.view.ready
  PROVE  /\ AddEntire(w, FALSE) \in W
         /\ AddEntire(w, FALSE).patch = w.patch /\ AddEntire(w, FALSE).jobs = w.jobs
         /\ AddEntire(w, FALSE).view.page = w.view.page
         /\ AddEntire(w, FALSE).view.annotJob = w.view.annotJob
<1> DEFINE bm == IF w.view.bm = None THEN Unused(InUse(w, posted)) ELSE w.view.bm
           vw == [w.view EXCEPT !.bm = bm]
           x == [w EXCEPT !.view.bm = bm]
<1>1. /\ w \in W /\ w \in [view : View, patch : [Patches -> PatchRec], jobs : Seq(Job)]
      /\ w.view \in View
  BY DEF Fit, W
<1>2. bm \in (Nums \ Pool) \cup {None}
  BY <1>1, NewBitmap DEF View
<1> HIDE DEF bm
<1>3. AddEntire(w, FALSE) = Render(x, "entire", Whole, bm, FALSE)
  BY DEF AddEntire, bm
<1>4. /\ vw \in View /\ vw.page = w.view.page /\ vw.annotJob = w.view.annotJob
      /\ vw.ready = w.view.ready
  BY <1>1, <1>2 DEF View
<1>5. x = [view |-> vw, patch |-> w.patch, jobs |-> w.jobs]
  <2>1. x = [w EXCEPT !.view = vw]
    BY <1>1
  <2> HIDE DEF vw, x
  <2> QED BY <1>1, <2>1
<1> HIDE DEF vw, x
<1>6. x \in W /\ x.view = vw /\ x.patch = w.patch /\ x.jobs = w.jobs
  BY <1>1, <1>4, <1>5 DEF W
<1>7. Render(x, "entire", Whole, bm, FALSE) = x
  BY <1>4, <1>6 DEF Render
<1> QED BY <1>3, <1>4, <1>6, <1>7

\* A view is given a page: it is drawn if it is ready still, and ready then; the
\* annotations are loaded.
LEMMA SetPageStep ==
  ASSUME Sound, NEW p \in Pages, SetPage(p)
  PROVE  \E r \in W : Set(r) /\ Step(r, posted, version)
<1> DEFINE w == WithPage(p)
           vw == [view EXCEPT !.page = p, !.ready = view.ready /\ p = First]
           x == AddEntire(w, FALSE)
           y == [x EXCEPT !.view.ready = TRUE]
           vy == [x.view EXCEPT !.ready = TRUE]
           r == LoadAnnotations(y)
<1>1. /\ Fit(Now, posted) /\ Now \in W /\ Now.view = view /\ Now.patch = patch /\ Now.jobs = jobs
      /\ view.page = None /\ view \in View /\ posted \in Seq(Job) /\ Among(posted)
      /\ Now \in [view : View, patch : [Patches -> PatchRec], jobs : Seq(Job)]
  BY NowIs DEF Sound, SetPage
<1>2. Set(r)
  BY DEF SetPage
<1>3. vw \in View /\ vw.page = p /\ vw.annotJob = view.annotJob
  BY <1>1 DEF View
<1>4. w = [view |-> vw, patch |-> patch, jobs |-> jobs]
  <2>1. w = [Now EXCEPT !.view = vw]
    BY <1>1 DEF WithPage
  <2> HIDE DEF w, vw
  <2> QED BY <2>1 DEF Now
<1> HIDE DEF r, vw, w, x, y, Now
<1>5. w.view = vw /\ w.patch = patch /\ w.jobs = jobs
  BY <1>4
<1>6. w \in W
  <2>1. w \in [view : View, patch : [Patches -> PatchRec], jobs : Seq(Job)]
    BY <1>1, <1>3, <1>4
  <2> QED BY <1>1, <1>5, <2>1 DEF W
<1>7. Fit(w, posted)
  BY <1>1, <1>5, <1>6, ViewFits
<1>8. AnnotTask(w, posted)
  BY <1>1, <1>3, <1>5 DEF Sound, AnnotTask, Known
<1>9. \A u \in Patches : w.patch[u].active = None /\ w.patch[u].area = None
  BY <1>1, <1>5 DEF Sound, Idle
<1>10. p # None /\ w.view.page = p
  BY <1>3, <1>5, PageViewAssumption
<1>11. /\ Fit(x, posted) /\ AnnotTask(x, posted) /\ x.view.page = p
       /\ \A u \in Patches : x.patch[u].shown = patch[u].shown
       /\ \A u \in Patches : Waits(x, posted, u) \/ Cleared(x, u)
  <2>1. CASE w.view.ready
    <3>1. Fine(w, x, posted) /\ Keeps(w, x, posted, "hq")
      BY <1>1, <1>7, <1>10, <2>1, AddEntireKeeps DEF x
    <3>2. Waits(x, posted, "entire") \/ (Keeps(w, x, posted, "entire") /\ x.patch["entire"].area = Whole)
      BY <1>1, <1>7, <1>10, <2>1, AddEntireKeeps DEF x
    <3>3. Waits(x, posted, "entire") /\ Cleared(x, "hq")
      <4>1. None # Whole
        BY PageViewAssumption DEF Whole
      <4> QED BY <1>9, <3>1, <3>2, <4>1 DEF Keeps, Cleared, Patches
    <3>4. Fit(x, posted) /\ SameView(w, x) /\ LoadsKept(w, x, posted)
      BY <3>1 DEF Fine
    <3> QED BY <1>5, <1>8, <1>10, <3>3, <3>4 DEF LoadsKept, SameView, Patches
  <2>2. CASE ~w.view.ready
    <3>1. /\ x \in W /\ x.patch = w.patch /\ x.jobs = w.jobs
          /\ x.view.page = w.view.page /\ x.view.annotJob = w.view.annotJob
      BY <1>1, <1>7, <1>10, <2>2, UnreadyDraws DEF x
    <3>2. Fit(x, posted)
      BY <1>7, <3>1, ViewFits
    <3>3. AnnotTask(x, posted)
      BY <1>8, <3>1 DEF AnnotTask, Known
    <3>4. \A u \in Patches : Cleared(x, u)
      BY <1>9, <3>1 DEF Cleared
    <3> QED BY <1>5, <1>10, <3>1, <3>2, <3>3, <3>4
  <2> QED BY <2>1, <2>2
<1>12. /\ x \in W /\ x \in [view : View, patch : [Patches -> PatchRec], jobs : Seq(Job)]
       /\ x.view \in View
  BY <1>11 DEF Fit, W
<1>13. vy \in View /\ vy.page = p /\ vy.ready /\ vy.annotJob = x.view.annotJob
  BY <1>11, <1>12 DEF View
<1>14. y.view = vy /\ y.patch = x.patch /\ y.jobs = x.jobs
       /\ y \in [view : View, patch : [Patches -> PatchRec], jobs : Seq(Job)]
  <2>1. y = [view |-> vy, patch |-> x.patch, jobs |-> x.jobs]
    <3>1. y = [x EXCEPT !.view = vy]
      BY <1>12 DEF y
    <3> HIDE DEF vy, y
    <3> QED BY <1>12, <3>1
  <2> HIDE DEF vy
  <2> QED BY <1>12, <1>13, <2>1
<1> HIDE DEF vy
<1>15. y \in W
  BY <1>12, <1>14 DEF W
<1>16. Fit(y, posted) /\ \A u \in Patches : Keeps(x, y, posted, u)
  BY <1>11, <1>13, <1>14, <1>15, ViewFits
<1>17. AnnotTask(y, posted) /\ y.view.page = p /\ y.view.ready
  BY <1>11, <1>13, <1>14 DEF AnnotTask, Known
<1>18. /\ Fit(r, posted) /\ AnnotTask(r, posted) /\ ~NoLoads(r.jobs) /\ r.patch = y.patch
       /\ r.view.page = p /\ r.view.ready
  BY <1>1, <1>16, <1>17, LoadKeeps DEF r
<1>19. \A ver : AnnotsRight(r, posted, ver)
  BY <1>1, <1>16, <1>17, LoadKeeps DEF r
<1>20. \A u \in Patches : Keeps(y, r, posted, u)
  BY <1>1, <1>16, <1>17, LoadKeeps DEF r
<1>21. ASSUME NEW u \in Patches PROVE PatchRight(r, posted, content, version, u)
  <2>1. PatchRight(x, posted, content, version, u)
    BY <1>11, ClearedRight DEF Waits
  <2>2. Keeps(x, y, posted, u) /\ Keeps(y, r, posted, u)
    BY <1>16, <1>20
  <2> QED BY <2>1, <2>2 DEF Keeps
<1>22. \A u \in Patches : r.patch[u].shown \in InUse(Now, posted) \cup {None}
  <2>1. \A u \in Patches : r.patch[u].shown = patch[u].shown
    BY <1>11, <1>14, <1>18
  <2> QED BY <2>1, ShownInUse
<1>23. Step(r, posted, version)
  BY <1>10, <1>18, <1>19, <1>21, <1>22 DEF Step, RightOf, Redrawn, Idle
<1> QED BY <1>2, <1>18, <1>23 DEF Fit

\* Cancelling the load touches no render.
LEMMA LoadCancelled ==
  ASSUME NEW w, NEW ps, Fit(w, ps), AnnotTask(w, ps), NEW c \in W, c.patch = w.patch,
         Cancelled(w.jobs, c.jobs, w.view.annotJob)
  PROVE  Fit(c, ps)
<1> DEFINE t == w.view.annotJob
<1>1. Ids(w.jobs, ps) /\ RenderTasks(w, ps) /\ ps \in Seq(Job) /\ Cancelled(w.jobs, c.jobs, t)
  BY DEF Fit
<1>2. t # None => Known(w, ps, t, "annots", None)
  BY DEF AnnotTask
<1> HIDE DEF t
<1>3. ASSUME NEW u \in Patches, w.patch[u].active # None, w.patch[u].active = t PROVE FALSE
  <2>1. Known(w, ps, t, "render", u)
    BY <1>1, <1>3 DEF RenderTasks
  <2>2. Known(w, ps, t, "annots", None)
    BY <1>2, <1>3
  <2>3. \/ Tagged(w.jobs, t, "render", u) /\ Tagged(w.jobs, t, "annots", None)
        \/ Tagged(w.jobs, t, "render", u) /\ Tagged(ps, t, "annots", None)
        \/ Tagged(ps, t, "render", u) /\ Tagged(w.jobs, t, "annots", None)
        \/ Tagged(ps, t, "render", u) /\ Tagged(ps, t, "annots", None)
    BY <2>1, <2>2 DEF Known
  <2> QED BY <1>1, <2>3 DEF Tagged, Ids, Distinct
<1>4. ASSUME NEW u \in Patches
      PROVE  /\ c.patch[u].task = c.patch[u].active
             /\ c.patch[u].active # None => Known(c, ps, c.patch[u].active, "render", u)
  <2>1. c.patch[u] = w.patch[u] /\ w.patch[u].task = w.patch[u].active
    BY <1>1 DEF RenderTasks
  <2>2. ASSUME w.patch[u].active # None PROVE Known(c, ps, w.patch[u].active, "render", u)
    <3> DEFINE a == w.patch[u].active
    <3>1. a # t
      BY <1>3, <2>2
    <3>2. Known(w, ps, a, "render", u)
      BY <1>1, <2>2 DEF RenderTasks
    <3> HIDE DEF a
    <3>3. Known(c, ps, a, "render", u)
      BY <1>1, <3>1, <3>2, StillKnown
    <3> QED BY <3>3 DEF a
  <2> QED BY <2>1, <2>2
<1>5. Ids(c.jobs, ps)
  BY <1>1, IdsLeft
<1> QED BY <1>1, <1>4, <1>5 DEF Fit, RenderTasks

\* A view that is released shows nothing and waits for nothing.
LEMMA ReleaseStep ==
  ASSUME Sound, ReleaseResources
  PROVE  \E r \in W : Set(r) /\ Step(r, posted, version)
<1> DEFINE left == Dropped(Now, view.annotJob)
           w == [Now EXCEPT !.jobs = left, !.view.annotJob = None]
           vw == [view EXCEPT !.annotJob = None]
           x == ResetPatches(w)
           vx == [vw EXCEPT !.page = None, !.place = Whole]
           r == Released(Now)
<1>1. /\ Fit(Now, posted) /\ Now \in W /\ Now.view = view /\ Now.patch = patch /\ Now.jobs = jobs
      /\ AnnotTask(Now, posted) /\ view \in View /\ posted \in Seq(Job) /\ Distinct(jobs)
      /\ Now \in [view : View, patch : [Patches -> PatchRec], jobs : Seq(Job)]
  BY NowIs DEF Sound
<1>2. Set(r)
  BY DEF ReleaseResources
<1>3. Cancelled(jobs, left, view.annotJob)
  BY <1>1, DroppedCancels
<1>4. r = [x EXCEPT !.view = [@ EXCEPT !.page = None, !.place = Whole]]
  BY <1>1 DEF Released
<1> HIDE DEF left
<1>5. w = [view |-> vw, patch |-> patch, jobs |-> left]
  <2>1. w = [Now EXCEPT !.jobs = left, !.view = vw]
    BY DEF Now
  <2> HIDE DEF w, vw
  <2> QED BY <2>1 DEF Now
<1>6. vw \in View /\ vw.annotJob = None /\ vw.page = view.page
  BY <1>1 DEF View
<1> HIDE DEF r, x, w, vw, Now
<1>7. w.view = vw /\ w.patch = patch /\ w.jobs = left
  BY <1>5
<1>8. w \in W
  <2>1. left \in Seq(Job)
    BY <1>3 DEF Cancelled
  <2>2. w \in [view : View, patch : [Patches -> PatchRec], jobs : Seq(Job)]
    BY <1>1, <1>5, <1>6, <2>1
  <2> QED BY <1>1, <1>7, <2>2 DEF W
<1>9. Fit(w, posted)
  <2>1. Cancelled(Now.jobs, w.jobs, Now.view.annotJob) /\ w.patch = Now.patch
    BY <1>1, <1>3, <1>7
  <2> QED BY <1>1, <1>8, <2>1, LoadCancelled
<1>10. Fine(w, x, posted) /\ x.view = w.view
  BY <1>9, ResetPatchesKeeps DEF x
<1>11. \A u \in Patches : Cleared(x, u)
  BY <1>9, ResetPatchesKeeps DEF x
<1>12. /\ Fit(x, posted) /\ x \in W /\ x.view = vw
       /\ x \in [view : View, patch : [Patches -> PatchRec], jobs : Seq(Job)]
       /\ \A u \in Patches : x.patch[u].shown = patch[u].shown
  BY <1>7, <1>10 DEF Fine, Fit, W, SameView
<1>13. vx \in View /\ vx.page = None /\ vx.annotJob = None
  BY <1>6, PageViewAssumption DEF View, Area
<1>14. r = [view |-> vx, patch |-> x.patch, jobs |-> x.jobs]
  <2>1. r = [x EXCEPT !.view = vx]
    BY <1>4, <1>12
  <2> HIDE DEF vx
  <2> QED BY <1>12, <2>1
<1> HIDE DEF vx
<1>15. r.view = vx /\ r.patch = x.patch /\ r.jobs = x.jobs
  BY <1>14
<1>16. r \in W
  <2>1. r \in [view : View, patch : [Patches -> PatchRec], jobs : Seq(Job)]
    BY <1>12, <1>13, <1>14
  <2> QED BY <1>12, <1>15, <2>1 DEF W
<1>17. Fit(r, posted)
  BY <1>12, <1>15, <1>16, ViewFits
<1>18. \A u \in Patches : Cleared(r, u)
  BY <1>11, <1>15 DEF Cleared
<1>19. Idle(r) /\ AnnotTask(r, posted)
  BY <1>13, <1>15, <1>18 DEF Idle, AnnotTask, Cleared
<1>20. \A u \in Patches : r.patch[u].shown \in InUse(Now, posted) \cup {None}
  BY <1>12, <1>15, ShownInUse
<1>21. RightOf(r, posted, content, version)
  BY <1>13, <1>15, <1>18, ClearedRight DEF RightOf
<1>22. Step(r, posted, version)
  BY <1>17, <1>19, <1>20, <1>21 DEF Step
<1> QED BY <1>2, <1>16, <1>22

\* One of two counters goes up.
LEMMA CountUp ==
  ASSUME NEW c \in Nat \X Nat, NEW k \in {1, 2}
  PROVE  /\ [c EXCEPT ![k] = @ + 1] \in Nat \X Nat
         /\ k = 2 => [c EXCEPT ![k] = @ + 1][1] = c[1]
<1>1. c = <<c[1], c[2]>> /\ c[1] \in Nat /\ c[2] \in Nat
  OBVIOUS
<1>2. CASE k = 1
  <2>1. [c EXCEPT ![k] = @ + 1] = <<c[1] + 1, c[2]>>
    BY <1>1, <1>2
  <2> QED BY <1>1, <1>2, <2>1
<1>3. CASE k = 2
  <2>1. [c EXCEPT ![k] = @ + 1] = <<c[1], c[2] + 1>>
    BY <1>1, <1>3
  <2> QED BY <1>1, <1>3, <2>1
<1> QED BY <1>2, <1>3

\* The versions stay what they are, and a change of a form is not one of ink.
LEMMA ChangesIs ==
  ASSUME Sound, NEW k \in {1, 2}, Changes(k)
  PROVE  /\ version' \in [Pages -> Nat \X Nat] /\ view.page \in Pages /\ view.page # None
         /\ k = 2 => version'[view.page][1] = version[view.page][1]
         /\ posted' = posted
<1>1. view \in View /\ view.page # None /\ version \in [Pages -> Nat \X Nat]
      /\ version' = [version EXCEPT ![view.page][k] = @ + 1] /\ posted' = posted
  BY NowIs DEF Changes, Shows, Sound
<1>2. view.page \in Pages
  BY <1>1 DEF View
<1> DEFINE c == version[view.page]
           d == [c EXCEPT ![k] = @ + 1]
<1>3. c \in Nat \X Nat
  BY <1>1, <1>2
<1>4. version' = [version EXCEPT ![view.page] = d]
  BY <1>1, <1>2
<1> HIDE DEF c
<1>5. d \in Nat \X Nat /\ (k = 2 => d[1] = c[1])
  BY <1>3, CountUp
<1> HIDE DEF d
<1>6. version' \in [Pages -> Nat \X Nat] /\ version'[view.page] = d
  BY <1>1, <1>2, <1>4, <1>5
<1> QED BY <1>1, <1>2, <1>5, <1>6 DEF c

\* A change of a form leaves the sharper patch and the annotations right.
LEMMA FormAside ==
  ASSUME NEW w, NEW ps, NEW con, NEW ver, NEW new, new[w.view.page][1] = ver[w.view.page][1]
  PROVE  /\ PatchRight(w, ps, con, ver, "hq") => PatchRight(w, ps, con, new, "hq")
         /\ AnnotsRight(w, ps, ver) => AnnotsRight(w, ps, new)
<1>1. \A area, c : Current("hq", w.view.page, area, c, ver) => Current("hq", w.view.page, area, c, new)
  BY DEF Current
<1>2. PatchRight(w, ps, con, ver, "hq") => PatchRight(w, ps, con, new, "hq")
  BY <1>1 DEF PatchRight, Coming, Settled
<1>3. AnnotsRight(w, ps, ver) => AnnotsRight(w, ps, new)
  BY DEF AnnotsRight, Fresh
<1> QED BY <1>2, <1>3

\* A changed form is drawn over, where the view shows it.
LEMMA ChangeFormStep ==
  ASSUME Sound, ChangeForm
  PROVE  \E r \in W : Set(r) /\ Step(r, posted, version')
<1>1. /\ Fit(Now, posted) /\ posted \in Seq(Job) /\ Among(posted) /\ Now.view = view /\ Now.patch = patch
      /\ AnnotTask(Now, posted)
  BY NowIs DEF Sound
<1>2. Changes(2)
  BY DEF ChangeForm
<1>3. view.page # None /\ view.ready /\ version'[view.page][1] = version[view.page][1]
  BY <1>1, <1>2, ChangesIs DEF Sound, Idle
<1> DEFINE x == DiscardRenderedPage(Now)
<1>4. PICK w \in {Now, x} : Set(Redraw(w, TRUE))
  BY DEF ChangeForm
<1>5. /\ Fine(Now, w, posted)
      /\ \A u \in Patches : Keeps(Now, w, posted, u) \/ Cleared(w, u)
  <2>1. CASE w = Now
    BY <1>1, <2>1 DEF Fine, SameView, LoadsKept, Keeps
  <2>2. CASE w = x
    BY <1>1, <2>2, DiscardKeeps
  <2> QED BY <2>1, <2>2
<1> DEFINE r == Redraw(w, TRUE)
<1> HIDE DEF x
<1>6. /\ Fit(w, posted) /\ SameView(Now, w) /\ LoadsKept(Now, w, posted)
      /\ w.view.page = view.page /\ w.view.ready
  BY <1>1, <1>3, <1>5 DEF Fine, SameView
<1>7. Fine(w, r, posted)
  BY <1>1, <1>3, <1>6, RedrawKeeps
<1>8. Waits(r, posted, "entire")
  <2>1. \/ Waits(r, posted, "entire")
        \/ Keeps(w, r, posted, "entire") /\ ~TRUE /\ r.patch["entire"].area = Whole
    BY <1>1, <1>3, <1>6, RedrawKeeps
  <2> QED BY <2>1
<1>9. Waits(r, posted, "hq") \/ Keeps(w, r, posted, "hq")
  BY <1>1, <1>3, <1>6, RedrawKeeps
<1> HIDE DEF r
<1>10. Fit(r, posted) /\ SameView(w, r) /\ LoadsKept(w, r, posted)
  BY <1>7 DEF Fine
<1>11. SameView(Now, r) /\ LoadsKept(Now, r, posted)
  BY <1>6, <1>10, SameMore, LoadsMore
<1>12. r.view.page = view.page /\ AnnotTask(r, posted) /\ Idle(r)
  BY <1>1, <1>3, <1>11 DEF SameView, LoadsKept, Idle
<1>13. \A u \in Patches : r.patch[u].shown \in InUse(Now, posted) \cup {None}
  BY <1>1, <1>11, ShownInUse DEF SameView
<1>14. ASSUME Right PROVE RightOf(r, posted, content, version')
  <2>1. PatchRight(Now, posted, content, version, "hq") /\ AnnotsRight(Now, posted, version)
    BY <1>1, <1>3, <1>14 DEF Right, RightOf, Patches
  <2>2. PatchRight(Now, posted, content, version', "hq")
    BY <1>1, <1>3, <2>1, FormAside
  <2>3. AnnotsRight(Now, posted, version')
    BY <1>1, <1>3, <2>1, FormAside
  <2>4. AnnotsRight(r, posted, version')
    BY <1>11, <2>3 DEF LoadsKept
  <2>5. PatchRight(r, posted, content, version', "entire")
    BY <1>8 DEF Waits
  <2>6. PatchRight(w, posted, content, version', "hq")
    <3>1. Keeps(Now, w, posted, "hq") \/ Cleared(w, "hq")
      BY <1>5 DEF Patches
    <3> QED BY <2>2, <3>1, ClearedRight DEF Keeps
  <2>7. PatchRight(r, posted, content, version', "hq")
    BY <1>9, <2>6 DEF Waits, Keeps
  <2>8. Redrawn(r, posted)
    BY <1>8 DEF Waits, Redrawn
  <2> QED BY <2>4, <2>5, <2>7, <2>8 DEF RightOf, Patches
<1>15. Step(r, posted, version')
  BY <1>10, <1>12, <1>13, <1>14 DEF Step
<1>16. Set(r) /\ r \in W
  BY <1>4, <1>10 DEF r, Fit
<1> QED BY <1>15, <1>16

\* Changed ink is loaded and drawn anew.
LEMMA EditStep ==
  ASSUME Sound, EditAnnotations
  PROVE  \E r \in W : Set(r) /\ Step(r, posted, version')
<1> DEFINE w == [Now EXCEPT !.view.force = TRUE]
           vw == [view EXCEPT !.force = TRUE]
           x == LoadAnnotations(w)
           y == DiscardRenderedPage(x)
<1>1. /\ Fit(Now, posted) /\ Now \in W /\ Now.view = view /\ Now.patch = patch /\ Now.jobs = jobs
      /\ view \in View /\ posted \in Seq(Job) /\ Among(posted)
      /\ Now \in [view : View, patch : [Patches -> PatchRec], jobs : Seq(Job)]
  BY NowIs DEF Sound
<1>2. Changes(1)
  BY DEF EditAnnotations
<1>3. view.page \in Pages /\ view.page # None /\ view.ready
  BY <1>1, <1>2, ChangesIs DEF Sound, Idle
<1>4. PICK r \in {y, Redraw(y, FALSE)} : Set(r)
  BY DEF EditAnnotations
<1>5. vw \in View /\ vw.page = view.page /\ vw.ready = view.ready /\ vw.annotJob = view.annotJob
  BY <1>1 DEF View
<1>6. w = [view |-> vw, patch |-> patch, jobs |-> jobs]
  <2>1. w = [Now EXCEPT !.view = vw]
    BY DEF Now
  <2> HIDE DEF w, vw
  <2> QED BY <2>1 DEF Now
<1> HIDE DEF vw, w, x, y, Now
<1>7. w.view = vw /\ w.patch = patch /\ w.jobs = jobs
  BY <1>6
<1>8. w \in W
  <2>1. w \in [view : View, patch : [Patches -> PatchRec], jobs : Seq(Job)]
    BY <1>1, <1>5, <1>6
  <2> QED BY <1>1, <1>7, <2>1 DEF W
<1>9. Fit(w, posted)
  BY <1>1, <1>7, <1>8, ViewFits
<1>10. AnnotTask(w, posted)
  BY <1>1, <1>5, <1>7 DEF Sound, AnnotTask, Known
<1>11. w.view.page \in Pages /\ w.view.ready
  BY <1>3, <1>5, <1>7
<1>12. /\ Fit(x, posted) /\ AnnotTask(x, posted) /\ ~NoLoads(x.jobs) /\ x.patch = w.patch
       /\ x.view.page = w.view.page /\ x.view.ready
  BY <1>1, <1>9, <1>10, <1>11, LoadKeeps DEF x
<1>13. \A ver : AnnotsRight(x, posted, ver)
  BY <1>1, <1>9, <1>10, <1>11, LoadKeeps DEF x
<1>14. Fine(x, y, posted)
  BY <1>12, DiscardKeeps DEF y
<1>15. \A u \in Patches : Cleared(y, u)
  BY <1>12, DiscardKeeps DEF y
<1>16. /\ Fit(y, posted) /\ SameView(x, y) /\ LoadsKept(x, y, posted)
       /\ y.view.page # None /\ y.view.ready
  BY <1>3, <1>5, <1>7, <1>12, <1>14 DEF Fine, SameView
<1>17. /\ Fine(y, r, posted)
       /\ \A u \in Patches : Keeps(y, r, posted, u) \/ Waits(r, posted, u)
  <2>1. CASE r = y
    BY <1>16, <2>1 DEF Fine, SameView, LoadsKept, Keeps
  <2>2. CASE r = Redraw(y, FALSE)
    <3>1. Fine(y, r, posted)
      BY <1>1, <1>16, <2>2, RedrawKeeps
    <3>2. Waits(r, posted, "entire") \/ Keeps(y, r, posted, "entire")
      BY <1>1, <1>16, <2>2, RedrawKeeps
    <3>3. Waits(r, posted, "hq") \/ Keeps(y, r, posted, "hq")
      BY <1>1, <1>16, <2>2, RedrawKeeps
    <3> QED BY <3>1, <3>2, <3>3 DEF Patches
  <2> QED BY <2>1, <2>2
<1>18. Fit(r, posted) /\ SameView(y, r) /\ LoadsKept(y, r, posted)
  BY <1>17 DEF Fine
<1>19. SameView(x, r) /\ LoadsKept(x, r, posted)
  BY <1>16, <1>18, SameMore, LoadsMore
<1>20. r.view.page = view.page /\ AnnotTask(r, posted) /\ Idle(r)
  BY <1>3, <1>5, <1>7, <1>12, <1>19 DEF SameView, LoadsKept, Idle
<1>21. \A u \in Patches : r.patch[u].shown \in InUse(Now, posted) \cup {None}
  <2>1. \A u \in Patches : r.patch[u].shown = patch[u].shown
    BY <1>7, <1>12, <1>19 DEF SameView
  <2> QED BY <2>1, ShownInUse
<1>22. RightOf(r, posted, content, version')
  <2>1. \A u \in Patches : PatchRight(r, posted, content, version', u)
    <3> SUFFICES ASSUME NEW u \in Patches PROVE PatchRight(r, posted, content, version', u)
      OBVIOUS
    <3>1. PatchRight(y, posted, content, version', u)
      BY <1>15, ClearedRight
    <3>2. Keeps(y, r, posted, u) \/ Waits(r, posted, u)
      BY <1>17
    <3> QED BY <3>1, <3>2 DEF Keeps, Waits
  <2>2. AnnotsRight(r, posted, version')
    BY <1>13, <1>19 DEF LoadsKept
  <2>3. Redrawn(r, posted)
    BY <1>12, <1>19 DEF LoadsKept, Redrawn
  <2> QED BY <2>1, <2>2, <2>3 DEF RightOf
<1>23. Step(r, posted, version')
  BY <1>18, <1>20, <1>21, <1>22 DEF Step
<1> QED BY <1>4, <1>18, <1>23 DEF Fit

----------------------------------------------------------------------------
(* The results that arrive *)

\* The first result is taken off the queue.
LEMMA TailPosted ==
  ASSUME Sound, posted # <<>>
  PROVE  /\ Head(posted) \in Job /\ Head(posted) = posted[1] /\ 1 \in DOMAIN posted
         /\ Tail(posted) \in Seq(Job) /\ Among(Tail(posted))
         /\ \A i \in DOMAIN Tail(posted) : i + 1 \in DOMAIN posted /\ Tail(posted)[i] = posted[i + 1]
         /\ \A i \in DOMAIN posted : i # 1 => i - 1 \in DOMAIN Tail(posted) /\ Tail(posted)[i - 1] = posted[i]
         /\ Ids(jobs, Tail(posted))
         /\ DOMAIN Tail(posted) \subseteq Nat /\ DOMAIN posted \subseteq Nat
<1> DEFINE ps == Tail(posted)
<1>1. posted \in Seq(Job) /\ Ids(jobs, posted)
  BY NowIs
<1>2. /\ Head(posted) \in Job /\ Head(posted) = posted[1] /\ 1 \in DOMAIN posted
      /\ ps \in Seq(Job) /\ Len(ps) = Len(posted) - 1
      /\ \A i \in 1 .. Len(posted) - 1 : i + 1 \in DOMAIN posted /\ ps[i] = posted[i + 1]
      /\ Len(posted) \in Nat \ {0}
  BY <1>1, TailIs
<1> HIDE DEF ps
<1>3. DOMAIN ps = 1 .. Len(posted) - 1 /\ DOMAIN posted = 1 .. Len(posted)
  BY <1>1, <1>2
<1>4. \A i \in DOMAIN ps : i + 1 \in DOMAIN posted /\ ps[i] = posted[i + 1]
  BY <1>2, <1>3
<1>5. ASSUME NEW i \in DOMAIN posted, i # 1 PROVE i - 1 \in DOMAIN ps /\ ps[i - 1] = posted[i]
  <2>1. i - 1 \in DOMAIN ps /\ (i - 1) + 1 = i
    BY <1>2, <1>3, <1>5
  <2> QED BY <1>4, <2>1
<1>6. Among(ps)
  BY <1>2, <1>4 DEF Among
<1>7. Ids(jobs, ps)
  <2>1. Distinct(ps)
    <3> SUFFICES ASSUME NEW i \in DOMAIN ps, NEW k \in DOMAIN ps, ps[i].id = ps[k].id PROVE i = k
      BY DEF Distinct
    <3>1. i + 1 = k + 1
      BY <1>1, <1>4 DEF Ids, Distinct
    <3> QED BY <1>3, <3>1
  <2>2. Distinct(jobs) /\ \A i \in DOMAIN jobs : \A k \in DOMAIN posted : jobs[i].id # posted[k].id
    BY <1>1 DEF Ids
  <2> QED BY <1>4, <2>1, <2>2 DEF Ids
<1> QED BY <1>2, <1>3, <1>4, <1>5, <1>6, <1>7 DEF ps

\* What is still waited for is not the result taken.
LEMMA TailFits ==
  ASSUME Sound, posted # <<>>, NEW r \in W, r.jobs = jobs,
         \A u \in Patches : r.patch[u].task = r.patch[u].active,
         \A u \in Patches : r.patch[u].active # None =>
             /\ r.patch[u].active = patch[u].active
             /\ Head(posted).kind = "render" /\ Head(posted).patch = u => patch[u].active # Head(posted).id
  PROVE  Fit(r, Tail(posted))
<1>1. Now.patch = patch /\ Now.jobs = jobs /\ RenderTasks(Now, posted)
  BY NowIs
<1>2. ASSUME NEW u \in Patches, r.patch[u].active # None
      PROVE  Known(r, Tail(posted), r.patch[u].active, "render", u)
  <2> DEFINE a == patch[u].active
  <2>1. r.patch[u].active = a /\ Known(Now, posted, a, "render", u)
    BY <1>1, <1>2 DEF RenderTasks
  <2>2. Head(posted).kind = "render" /\ Head(posted).patch = u => a # Head(posted).id
    BY <1>2
  <2> HIDE DEF a
  <2>3. CASE Tagged(jobs, a, "render", u)
    BY <2>1, <2>3 DEF Known
  <2>4. CASE Tagged(posted, a, "render", u)
    <3>1. PICK i \in DOMAIN posted : posted[i].id = a /\ posted[i].kind = "render" /\ posted[i].patch = u
      BY <2>4 DEF Tagged
    <3>2. i # 1
      BY <2>2, <3>1, TailPosted
    <3>3. i - 1 \in DOMAIN Tail(posted) /\ Tail(posted)[i - 1] = posted[i]
      BY <3>2, TailPosted
    <3> QED BY <2>1, <3>1, <3>3 DEF Known, Tagged
  <2> QED BY <1>1, <2>1, <2>3, <2>4 DEF Known
<1>3. Tail(posted) \in Seq(Job) /\ Ids(jobs, Tail(posted))
  BY TailPosted
<1> QED BY <1>2, <1>3 DEF Fit, RenderTasks

\* A patch that did not wait for the result taken is as right as it was.
LEMMA TailKeeps ==
  ASSUME Sound, posted # <<>>, NEW r, r.jobs = jobs, r.view.page = view.page, NEW u \in Patches,
         r.patch[u].active = patch[u].active, r.patch[u].area = patch[u].area,
         r.patch[u].placed = patch[u].placed, r.patch[u].shown = patch[u].shown,
         ~Mine(Now, u, Head(posted)), NEW con, NEW ver, PatchRight(Now, posted, con, ver, u)
  PROVE  PatchRight(r, Tail(posted), con, ver, u)
<1>1. Now.view = view /\ Now.patch = patch /\ Now.jobs = jobs
  BY NowIs
<1>2. \A job : Mine(Now, u, job) <=> Mine(r, u, job)
  BY <1>1 DEF Mine
<1>3. Settled(Now, con, ver, u) => Settled(r, con, ver, u)
  BY <1>1 DEF Settled
<1>4. ASSUME Coming(Now, posted, con, ver, u) PROVE Coming(r, Tail(posted), con, ver, u)
  <2>1. ASSUME NEW i \in DOMAIN posted, Mine(Now, u, posted[i]), Untouched(jobs, posted[i].bm),
               Current(u, view.page, posted[i].area, con[posted[i].bm], ver)
        PROVE  Coming(r, Tail(posted), con, ver, u)
    <3>1. i # 1
      BY <2>1, TailPosted
    <3>2. i - 1 \in DOMAIN Tail(posted) /\ Tail(posted)[i - 1] = posted[i]
      BY <3>1, TailPosted
    <3> QED BY <1>2, <2>1, <3>2 DEF Coming
  <2>2. CASE \E i \in DOMAIN jobs : Mine(Now, u, jobs[i]) /\ LastOn(jobs, i)
    BY <1>2, <2>2 DEF Coming
  <2> QED BY <1>1, <1>4, <2>1, <2>2 DEF Coming
<1> QED BY <1>1, <1>3, <1>4 DEF PatchRight

\* A render that arrives is what its patch waits for, or is not applied.
LEMMA RenderDoneStep ==
  ASSUME Sound, RenderDone
  PROVE  \E r \in W : Set(r) /\ Step(r, Tail(posted), version)
<1> DEFINE job == Head(posted)
           v == job.patch
           p == patch[v]
           q == CleanedUp(Applied(p, job), job)
           r == [Now EXCEPT !.patch[v] = q]
           ps == Tail(posted)
<1>1. posted # <<>> /\ job.kind = "render"
  BY DEF RenderDone
<1>2. /\ Now \in W /\ Now.view = view /\ Now.patch = patch /\ Now.jobs = jobs
      /\ view \in View /\ patch \in [Patches -> PatchRec] /\ jobs \in Seq(Job)
      /\ Ids(jobs, posted) /\ RenderTasks(Now, posted)
  BY NowIs
<1>3. /\ job \in Job /\ job = posted[1] /\ 1 \in DOMAIN posted /\ ps \in Seq(Job) /\ Among(ps)
      /\ Ids(jobs, ps)
  BY <1>1, TailPosted
<1>4. Set(r)
  BY DEF RenderDone, Now
<1> HIDE DEF job, ps
<1>5. job \in JobRec /\ JobOK(job)
  BY <1>3 DEF Job
<1>6. /\ v \in Patches /\ job.bm \in BmOf(v) /\ job.area \in Area /\ (v = "entire" => job.area = Whole)
      /\ job.id \in Nums
  BY <1>1, <1>5 DEF JobOK, JobRec
<1>7. job.id # None /\ job.bm # None /\ job.bm \in Nums /\ None # Whole
  <2>1. job.id \in Nat /\ job.bm \in Nums /\ job.bm \in Nat
    BY <1>6 DEF Nums, BmOf, Pool
  <2> QED BY <2>1, PageViewAssumption DEF Whole
<1> HIDE DEF v
<1>8. p \in PatchRec /\ p.task = p.active /\ p.shown \in BmOf(v) \cup {None}
  BY <1>2, <1>6 DEF RenderTasks, W
<1> HIDE DEF p
<1>9. /\ q \in PatchRec
      /\ p.active = job.id => /\ q.active = None /\ q.task = None /\ q.area = job.area
                              /\ q.placed = TRUE /\ q.shown = job.bm
      /\ p.active # job.id => /\ q.active = p.active /\ q.task = p.active /\ q.area = p.area
                              /\ q.placed = p.placed /\ q.shown = p.shown
  <2>1. CASE p.active = job.id
    <3> DEFINE a == [p EXCEPT !.area = job.area, !.placed = TRUE, !.shown = job.bm, !.inFlight = None]
    <3>1. Applied(p, job) = a
      BY <2>1 DEF Applied
    <3>2. /\ a \in PatchRec /\ a.active = job.id /\ a.task = job.id /\ a.area = job.area
          /\ a.placed = TRUE /\ a.shown = job.bm
      BY <1>6, <1>7, <1>8, <2>1 DEF PatchRec
    <3> HIDE DEF a
    <3>3. CleanedUp(a, job) \in PatchRec
      BY <3>2 DEF CleanedUp, PatchRec
    <3>4. /\ CleanedUp(a, job).active = None /\ CleanedUp(a, job).task = None
          /\ CleanedUp(a, job).area = a.area /\ CleanedUp(a, job).placed = a.placed
          /\ CleanedUp(a, job).shown = a.shown
      BY <3>2 DEF CleanedUp, PatchRec
    <3> QED BY <2>1, <3>1, <3>2, <3>3, <3>4
  <2>2. CASE p.active # job.id
    <3>1. Applied(p, job) = p
      BY <2>2 DEF Applied
    <3>2. CleanedUp(p, job) \in PatchRec
      BY <1>8 DEF CleanedUp, PatchRec
    <3>3. /\ CleanedUp(p, job).active = p.active /\ CleanedUp(p, job).task = p.active
          /\ CleanedUp(p, job).area = p.area /\ CleanedUp(p, job).placed = p.placed
          /\ CleanedUp(p, job).shown = p.shown
      BY <1>8, <2>2 DEF CleanedUp, PatchRec
    <3> QED BY <2>2, <3>1, <3>2, <3>3
  <2> QED BY <2>1, <2>2
<1> HIDE DEF q
<1>10. r = [view |-> view, patch |-> [patch EXCEPT ![v] = q], jobs |-> jobs]
  BY DEF Now
<1> HIDE DEF r, Now
<1>11. r.view = view /\ r.jobs = jobs /\ r.patch[v] = q /\ \A u \in Patches : u # v => r.patch[u] = patch[u]
  BY <1>2, <1>6, <1>10
<1>12. r \in W
  <2>1. [patch EXCEPT ![v] = q] \in [Patches -> PatchRec]
    BY <1>2, <1>9
  <2>2. r \in [view : View, patch : [Patches -> PatchRec], jobs : Seq(Job)]
    BY <1>2, <1>10, <2>1
  <2>3. q.shown \in BmOf(v) \cup {None}
    BY <1>6, <1>8, <1>9
  <2> QED BY <1>2, <1>11, <2>2, <2>3 DEF W
<1>13. /\ \A u \in Patches : r.patch[u].task = r.patch[u].active
       /\ \A u \in Patches : r.patch[u].active # None =>
             r.patch[u].active = patch[u].active /\ (v = u => patch[u].active # job.id)
  <2>1. \A u \in Patches : patch[u].task = patch[u].active
    BY <1>2 DEF RenderTasks
  <2> QED BY <1>9, <1>11, <2>1 DEF p
<1>14. Fit(r, ps)
  BY <1>1, <1>11, <1>12, <1>13, TailFits DEF job, v, ps
<1>15. AnnotTask(r, ps)
  <2> SUFFICES ASSUME view.annotJob # None PROVE Known(r, ps, view.annotJob, "annots", None)
    BY <1>11 DEF AnnotTask
  <2>1. Known(Now, posted, view.annotJob, "annots", None)
    BY <1>2 DEF Sound, AnnotTask
  <2>2. CASE Tagged(jobs, view.annotJob, "annots", None)
    BY <1>11, <2>2 DEF Known
  <2>3. CASE Tagged(posted, view.annotJob, "annots", None)
    <3>1. PICK i \in DOMAIN posted : posted[i].id = view.annotJob /\ posted[i].kind = "annots" /\ posted[i].patch = None
      BY <2>3 DEF Tagged
    <3>2. i # 1
      BY <1>1, <1>3, <3>1
    <3>3. i - 1 \in DOMAIN ps /\ ps[i - 1] = posted[i]
      BY <1>1, <3>2, TailPosted DEF ps
    <3> QED BY <3>1, <3>3 DEF Known, Tagged
  <2> QED BY <1>2, <2>1, <2>2, <2>3 DEF Known
<1>16. Idle(r)
  <2> SUFFICES ASSUME view.page = None, NEW u \in Patches PROVE r.patch[u].active = None /\ r.patch[u].area = None
    BY <1>2, <1>11 DEF Idle, Sound
  <2>1. \A x \in Patches : patch[x].active = None /\ patch[x].area = None
    BY <1>2 DEF Sound, Idle
  <2>2. p.active = None /\ p.area = None
    BY <1>6, <2>1 DEF p
  <2>3. q.active = None /\ q.area = None
    BY <1>7, <1>9, <2>2
  <2> QED BY <1>11, <2>1, <2>3
<1>17. \A u \in Patches : r.patch[u].shown \in InUse(Now, posted) \cup {None}
  <2>1. \A u \in Patches : patch[u].shown \in InUse(Now, posted) \cup {None}
    BY <1>2 DEF InUse
  <2>2. job.bm \in InUse(Now, posted)
    BY <1>3, <1>7 DEF InUse
  <2>3. q.shown = job.bm \/ q.shown = patch[v].shown
    BY <1>9 DEF p
  <2> QED BY <1>6, <1>11, <2>1, <2>2, <2>3
<1>18. ASSUME Right PROVE RightOf(r, ps, content, version)
  <2>1. ASSUME NEW u \in Patches PROVE PatchRight(r, ps, content, version, u)
    <3>1. PatchRight(Now, posted, content, version, u)
      BY <1>18 DEF Right, RightOf
    <3>2. CASE u = v /\ p.active = job.id
      <4>1. Coming(Now, posted, content, version, u)
        BY <1>2, <1>7, <3>1, <3>2 DEF PatchRight, p
      <4>2. ~ \E i \in DOMAIN jobs : Mine(Now, u, jobs[i])
        BY <1>2, <1>3, <3>2 DEF Mine, Ids, p
      <4>3. PICK i \in DOMAIN posted : /\ Mine(Now, u, posted[i]) /\ Untouched(jobs, posted[i].bm)
                                       /\ Current(u, view.page, posted[i].area, content[posted[i].bm], version)
        BY <1>2, <4>1, <4>2 DEF Coming
      <4>4. posted[i].id = posted[1].id
        BY <1>2, <1>3, <3>2, <4>3 DEF Mine, p
      <4>5. i = 1
        BY <1>2, <1>3, <4>4 DEF Ids, Distinct
      <4>6. /\ Untouched(jobs, job.bm) /\ Current(u, view.page, job.area, content[job.bm], version)
        BY <1>3, <4>3, <4>5
      <4>7. /\ r.patch[u].active = None /\ r.patch[u].area = job.area /\ r.patch[u].placed
            /\ r.patch[u].shown = job.bm
        BY <1>9, <1>11, <3>2
      <4>8. Settled(r, content, version, u)
        BY <1>7, <1>11, <4>6, <4>7 DEF Settled
      <4> QED BY <4>7, <4>8 DEF PatchRight
    <3>3. CASE ~(u = v /\ p.active = job.id)
      <4>1. /\ r.patch[u].active = patch[u].active /\ r.patch[u].area = patch[u].area
            /\ r.patch[u].placed = patch[u].placed /\ r.patch[u].shown = patch[u].shown
        BY <1>9, <1>11, <3>3 DEF p
      <4>2. ~Mine(Now, u, job)
        BY <1>2, <3>3 DEF Mine, p, v
      <4> QED BY <1>1, <1>11, <3>1, <4>1, <4>2, TailKeeps DEF job, ps
    <3> QED BY <3>2, <3>3
  <2>2. ASSUME view.page # None PROVE AnnotsRight(r, ps, version) /\ Redrawn(r, ps)
    <3>1. AnnotsRight(Now, posted, version) /\ Redrawn(Now, posted)
      BY <1>2, <1>18, <2>2 DEF Right, RightOf
    <3>2. NoLoads(posted) <=> NoLoads(ps)
      <4>1. ASSUME NoLoads(posted), NEW i \in DOMAIN ps PROVE ps[i].kind # "annots"
        <5>1. i + 1 \in DOMAIN posted /\ ps[i] = posted[i + 1]
          BY <1>1, TailPosted DEF ps
        <5> QED BY <4>1, <5>1 DEF NoLoads
      <4>2. ASSUME NoLoads(ps), NEW i \in DOMAIN posted PROVE posted[i].kind # "annots"
        <5>1. CASE i = 1
          BY <1>1, <1>3, <5>1
        <5>2. CASE i # 1
          <6>1. i - 1 \in DOMAIN ps /\ ps[i - 1] = posted[i]
            BY <1>1, <5>2, TailPosted DEF ps
          <6> QED BY <4>2, <6>1 DEF NoLoads
        <5> QED BY <5>1, <5>2
      <4> QED BY <4>1, <4>2 DEF NoLoads
    <3>3. ASSUME NEW i \in DOMAIN posted, LastLoad(posted, i)
          PROVE  i - 1 \in DOMAIN ps /\ ps[i - 1] = posted[i] /\ LastLoad(ps, i - 1)
      <4>1. i # 1
        BY <1>1, <1>3, <3>3 DEF LastLoad
      <4>2. i - 1 \in DOMAIN ps /\ ps[i - 1] = posted[i]
        BY <1>1, <4>1, TailPosted DEF ps
      <4>3. ASSUME NEW k \in DOMAIN ps, k > i - 1 PROVE ps[k].kind # "annots"
        <5>1. k + 1 \in DOMAIN posted /\ ps[k] = posted[k + 1] /\ k \in Nat /\ i \in Nat
          BY <1>1, TailPosted DEF ps
        <5>2. k + 1 > i
          BY <4>3, <5>1
        <5> QED BY <3>3, <5>1, <5>2 DEF LastLoad
      <4> QED BY <3>3, <4>2, <4>3 DEF LastLoad
    <3>4. AnnotsRight(r, ps, version)
      <4>1. CASE /\ LateLoads(jobs) /\ NoLoads(posted)
                 /\ view.annots # None /\ Fresh(view.annots, view.page, version)
        BY <1>11, <3>2, <4>1 DEF AnnotsRight
      <4>2. CASE /\ LateLoads(jobs)
                 /\ \E i \in DOMAIN posted : LastLoad(posted, i) /\ Fresh(posted[i], view.page, version)
        <5>1. PICK i \in DOMAIN posted : LastLoad(posted, i) /\ Fresh(posted[i], view.page, version)
          BY <4>2
        <5>2. i - 1 \in DOMAIN ps /\ ps[i - 1] = posted[i] /\ LastLoad(ps, i - 1)
          BY <3>3, <5>1
        <5> QED BY <1>11, <4>2, <5>1, <5>2 DEF AnnotsRight
      <4>3. CASE \E i \in DOMAIN jobs : LastLoad(jobs, i) /\ jobs[i].page = view.page
        BY <1>11, <4>3 DEF AnnotsRight
      <4> QED BY <1>2, <3>1, <4>1, <4>2, <4>3 DEF AnnotsRight
    <3>5. Redrawn(r, ps)
      <4>1. CASE patch["entire"].active # None \/ patch["entire"].area # None
        <5>1. CASE v = "entire" /\ p.active = job.id
          BY <1>6, <1>7, <1>9, <1>11, <5>1 DEF Redrawn
        <5>2. CASE ~(v = "entire" /\ p.active = job.id)
          <6>1. r.patch["entire"].active = patch["entire"].active /\ r.patch["entire"].area = patch["entire"].area
            BY <1>9, <1>11, <5>2 DEF p, Patches
          <6> QED BY <4>1, <6>1 DEF Redrawn
        <5> QED BY <5>1, <5>2
      <4>2. CASE ~NoLoads(jobs) \/ ~NoLoads(posted)
        BY <1>11, <3>2, <4>2 DEF Redrawn
      <4> QED BY <1>2, <3>1, <4>1, <4>2 DEF Redrawn
    <3> QED BY <3>4, <3>5
  <2> QED BY <1>11, <2>1, <2>2 DEF RightOf
<1>19. Step(r, ps, version)
  BY <1>14, <1>15, <1>16, <1>17, <1>18 DEF Step
<1> QED BY <1>4, <1>12, <1>19 DEF ps

\* The last load that arrives brings what the page has now.
LEMMA LoadArrives ==
  ASSUME Sound, posted # <<>>, Head(posted).kind = "annots", AnnotsRight(Now, posted, version),
         NEW w, w.jobs = jobs, w.view.page = view.page,
         w.view.annots = [page |-> Head(posted).page, version |-> Head(posted).version,
                          late |-> Head(posted).late]
  PROVE  AnnotsRight(w, Tail(posted), version)
<1> DEFINE ps == Tail(posted)
<1>1. Now.view = view /\ Now.jobs = jobs
  BY NowIs
<1>2. Head(posted) = posted[1] /\ 1 \in DOMAIN posted
  BY TailPosted
<1>3. \A i \in DOMAIN posted : i # 1 => i - 1 \in DOMAIN ps /\ ps[i - 1] = posted[i]
  BY TailPosted
<1>4. \A i \in DOMAIN ps : i + 1 \in DOMAIN posted /\ ps[i] = posted[i + 1]
  BY TailPosted
<1>5. DOMAIN ps \subseteq Nat /\ DOMAIN posted \subseteq Nat
  BY TailPosted
<1> HIDE DEF ps
<1>6. ~NoLoads(posted)
  BY <1>2 DEF NoLoads
<1>7. ASSUME NEW i \in DOMAIN posted, LastLoad(posted, i), LateLoads(jobs),
             Fresh(posted[i], view.page, version)
      PROVE  AnnotsRight(w, ps, version)
  <2>1. ASSUME NEW k \in DOMAIN ps, k + 1 > i PROVE ps[k].kind # "annots"
    BY <1>4, <1>7, <2>1 DEF LastLoad
  <2>2. CASE i = 1
    <3>1. NoLoads(ps)
      <4> SUFFICES ASSUME NEW k \in DOMAIN ps PROVE ps[k].kind # "annots"
        BY DEF NoLoads
      <4>1. i \in Nat /\ k + 1 \in DOMAIN posted /\ ps[k] = posted[k + 1]
        BY <1>4, <1>5
      <4>2. k \in Nat /\ posted \in Seq(Job)
        BY <1>5, NowIs
      <4>3. k # 0
        <5>1. Tail(posted) \in Seq(Job)
          BY TailPosted
        <5>2. 0 \notin DOMAIN Tail(posted)
          BY <5>1
        <5> QED BY <5>2 DEF ps
      <4>4. k + 1 > i
        BY <2>2, <4>2, <4>3
      <4> QED BY <2>1, <4>4
    <3>2. w.view.annots # None /\ Fresh(w.view.annots, w.view.page, version)
      <4>1. w.view.annots.late = posted[1].late /\ w.view.annots.page = posted[1].page
            /\ w.view.annots.version = posted[1].version
        BY <1>2
      <4>2. w.view.annots # None
        <5>1. Head(posted) \in JobRec
          BY TailPosted DEF Job
        <5>2. w.view.annots \in [page : Pages, version : Nat, late : BOOLEAN]
          BY <5>1 DEF JobRec
        <5> QED BY <5>2, PageViewAssumption
      <4> QED BY <1>7, <2>2, <4>1, <4>2 DEF Fresh
    <3> QED BY <1>7, <3>1, <3>2 DEF AnnotsRight
  <2>3. CASE i # 1
    <3>1. i - 1 \in DOMAIN ps /\ ps[i - 1] = posted[i]
      BY <1>3, <2>3
    <3>2. ASSUME NEW k \in DOMAIN ps, k > i - 1 PROVE ps[k].kind # "annots"
      <4>1. k \in Nat /\ i \in Nat
        BY <1>5
      <4>2. k + 1 > i
        BY <3>2, <4>1
      <4> QED BY <2>1, <4>2
    <3>3. LastLoad(ps, i - 1)
      BY <1>7, <3>1, <3>2 DEF LastLoad
    <3> QED BY <1>7, <3>1, <3>3 DEF AnnotsRight
  <2> QED BY <2>2, <2>3
<1>8. CASE \E i \in DOMAIN jobs : LastLoad(jobs, i) /\ jobs[i].page = view.page
  BY <1>8 DEF AnnotsRight
<1>9. AnnotsRight(w, ps, version)
  BY <1>1, <1>6, <1>7, <1>8 DEF AnnotsRight
<1> QED BY <1>9 DEF ps

\* Annotations that arrive are those of the view, which is drawn.
LEMMA AnnotationsDoneStep ==
  ASSUME Sound, AnnotationsDone
  PROVE  \E r \in W : Set(r) /\ Step(r, Tail(posted), version)
<1> DEFINE job == Head(posted)
           an == [page |-> job.page, version |-> job.version, late |-> job.late]
           w == [Now EXCEPT !.view.annots = an, !.view.force = FALSE]
           vw == [view EXCEPT !.annots = an, !.force = FALSE]
           update == ~view.force
           x == Redraw(w, update)
           r == [x EXCEPT !.view.annotJob = None]
           vr == [x.view EXCEPT !.annotJob = None]
           ps == Tail(posted)
<1>1. posted # <<>> /\ job.kind = "annots"
  BY DEF AnnotationsDone
<1>2. /\ Now \in W /\ Now.view = view /\ Now.patch = patch /\ Now.jobs = jobs
      /\ view \in View /\ patch \in [Patches -> PatchRec] /\ jobs \in Seq(Job) /\ posted \in Seq(Job)
      /\ Ids(jobs, posted) /\ RenderTasks(Now, posted)
      /\ Now \in [view : View, patch : [Patches -> PatchRec], jobs : Seq(Job)]
  BY NowIs
<1>3. /\ job \in Job /\ job = posted[1] /\ 1 \in DOMAIN posted /\ ps \in Seq(Job) /\ Among(ps)
      /\ Ids(jobs, ps)
  BY <1>1, TailPosted
<1>4. Set(r)
  BY DEF AnnotationsDone
<1> HIDE DEF job, ps
<1>5. job.page \in Pages /\ job.version \in Nat /\ job.late \in BOOLEAN
  <2>1. job \in JobRec
    BY <1>3 DEF Job
  <2> QED BY <2>1 DEF JobRec
<1>6. an \in [page : Pages, version : Nat, late : BOOLEAN]
  BY <1>5
<1> HIDE DEF an
<1>7. vw \in View /\ vw.page = view.page /\ vw.ready = view.ready /\ vw.annots = an /\ update \in BOOLEAN
  BY <1>2, <1>6 DEF View
<1>8. w = [view |-> vw, patch |-> patch, jobs |-> jobs]
  <2>1. w = [Now EXCEPT !.view = vw]
    BY DEF Now
  <2> HIDE DEF w, vw
  <2> QED BY <2>1 DEF Now
<1> HIDE DEF w, vw, update, Now
<1>9. w.view = vw /\ w.patch = patch /\ w.jobs = jobs
  BY <1>8
<1>10. w \in W
  <2>1. w \in [view : View, patch : [Patches -> PatchRec], jobs : Seq(Job)]
    BY <1>2, <1>7, <1>8
  <2> QED BY <1>2, <1>9, <2>1 DEF W
<1>11. Fit(w, ps)
  <2>1. \A u \in Patches : w.patch[u].task = w.patch[u].active
    BY <1>2, <1>9 DEF RenderTasks
  <2>2. \A u \in Patches : w.patch[u].active # None =>
             /\ w.patch[u].active = patch[u].active
             /\ Head(posted).kind = "render" /\ Head(posted).patch = u => patch[u].active # Head(posted).id
    BY <1>1, <1>9 DEF job
  <2> QED BY <1>1, <1>9, <1>10, <2>1, <2>2, TailFits DEF ps
<1>12. ASSUME Right, NEW u \in Patches PROVE PatchRight(w, ps, content, version, u)
  <2>1. PatchRight(Now, posted, content, version, u)
    BY <1>12 DEF Right, RightOf
  <2>2. ~Mine(Now, u, Head(posted))
    BY <1>1 DEF Mine, job
  <2> QED BY <1>1, <1>7, <1>9, <2>1, <2>2, TailKeeps DEF ps
<1>13. ASSUME Right, view.page # None PROVE AnnotsRight(w, ps, version)
  <2>1. AnnotsRight(Now, posted, version)
    BY <1>2, <1>13 DEF Right, RightOf
  <2> QED BY <1>1, <1>7, <1>9, <2>1, LoadArrives DEF ps, job, an
<1>14. /\ Fit(x, ps) /\ SameView(w, x) /\ LoadsKept(w, x, ps)
       /\ view.page = None => x = w
       /\ view.page # None => Redrawn(x, ps)
       /\ Right => \A u \in Patches : PatchRight(x, ps, content, version, u)
  <2>1. CASE view.page = None
    <3>1. w.view.page = None
      BY <1>7, <1>9, <2>1
    <3>2. AddEntire(w, update) = w
      BY <3>1 DEF AddEntire
    <3>3. x = w
      BY <3>1, <3>2 DEF Redraw, AddHq
    <3>4. SameView(w, w) /\ LoadsKept(w, w, ps)
      BY DEF SameView, LoadsKept
    <3> HIDE DEF x
    <3> QED BY <1>11, <1>12, <2>1, <3>3, <3>4
  <2>2. CASE view.page # None
    <3>1. w.view.page # None /\ w.view.ready
      BY <1>2, <1>7, <1>9, <2>2 DEF Sound, Idle
    <3>2. Fine(w, x, ps)
      BY <1>2, <1>3, <1>7, <1>11, <3>1, RedrawKeeps
    <3>3. \/ Waits(x, ps, "entire")
          \/ Keeps(w, x, ps, "entire") /\ ~update /\ x.patch["entire"].area = Whole
      BY <1>2, <1>3, <1>7, <1>11, <3>1, RedrawKeeps
    <3>4. Waits(x, ps, "hq") \/ Keeps(w, x, ps, "hq")
      BY <1>2, <1>3, <1>7, <1>11, <3>1, RedrawKeeps
    <3> HIDE DEF x
    <3>5. Redrawn(x, ps)
      <4>1. Whole # None
        BY PageViewAssumption DEF Whole
      <4> QED BY <3>3, <4>1 DEF Redrawn, Waits
    <3>6. ASSUME Right PROVE \A u \in Patches : PatchRight(x, ps, content, version, u)
      <4>1. PatchRight(w, ps, content, version, "entire") /\ PatchRight(w, ps, content, version, "hq")
        BY <1>12, <3>6 DEF Patches
      <4>2. PatchRight(x, ps, content, version, "entire")
        BY <3>3, <4>1 DEF Waits, Keeps
      <4>3. PatchRight(x, ps, content, version, "hq")
        BY <3>4, <4>1 DEF Waits, Keeps
      <4> QED BY <4>2, <4>3 DEF Patches
    <3> QED BY <2>2, <3>2, <3>5, <3>6 DEF Fine
  <2> QED BY <2>1, <2>2
<1> HIDE DEF x
<1>15. /\ x \in W /\ x \in [view : View, patch : [Patches -> PatchRec], jobs : Seq(Job)]
       /\ x.view \in View
  BY <1>14 DEF Fit, W
<1>16. /\ vr \in View /\ vr.page = x.view.page /\ vr.annots = x.view.annots /\ vr.annotJob = None
       /\ vr.ready = x.view.ready
  BY <1>15 DEF View
<1>17. r = [view |-> vr, patch |-> x.patch, jobs |-> x.jobs]
  BY <1>15
<1> HIDE DEF r, vr
<1>18. r.view = vr /\ r.patch = x.patch /\ r.jobs = x.jobs
  BY <1>17
<1>19. r \in W
  <2>1. r \in [view : View, patch : [Patches -> PatchRec], jobs : Seq(Job)]
    BY <1>15, <1>16, <1>17
  <2> QED BY <1>15, <1>18, <2>1 DEF W
<1>20. Fit(r, ps)
  BY <1>14, <1>18, <1>19, ViewFits
<1>21. r.view.page = view.page /\ r.view.ready = view.ready
  BY <1>7, <1>9, <1>14, <1>16, <1>18 DEF SameView
<1>22. AnnotTask(r, ps)
  BY <1>16, <1>18 DEF AnnotTask
<1>23. Idle(r)
  <2> SUFFICES ASSUME view.page = None, NEW u \in Patches PROVE r.patch[u].active = None /\ r.patch[u].area = None
    BY <1>2, <1>21 DEF Idle, Sound
  <2>1. patch[u].active = None /\ patch[u].area = None
    BY <1>2 DEF Sound, Idle
  <2> QED BY <1>9, <1>14, <1>18, <2>1
<1>24. \A u \in Patches : r.patch[u].shown \in InUse(Now, posted) \cup {None}
  <2>1. \A u \in Patches : r.patch[u].shown = patch[u].shown
    BY <1>9, <1>14, <1>18 DEF SameView
  <2> QED BY <2>1, ShownInUse
<1>25. ASSUME Right PROVE RightOf(r, ps, content, version)
  <2>1. ASSUME NEW u \in Patches PROVE PatchRight(r, ps, content, version, u)
    <3>1. PatchRight(x, ps, content, version, u)
      BY <1>14, <1>25
    <3>2. Keeps(x, r, ps, u)
      BY <1>14, <1>16, <1>18, <1>19, ViewFits
    <3> QED BY <3>1, <3>2 DEF Keeps
  <2>2. ASSUME view.page # None PROVE AnnotsRight(r, ps, version) /\ Redrawn(r, ps)
    <3>1. AnnotsRight(x, ps, version)
      BY <1>13, <1>14, <1>25, <2>2 DEF LoadsKept
    <3>2. AnnotsRight(r, ps, version)
      BY <1>16, <1>18, <3>1 DEF AnnotsRight
    <3>3. Redrawn(r, ps)
      BY <1>14, <1>18, <2>2 DEF Redrawn
    <3> QED BY <3>2, <3>3
  <2> QED BY <1>21, <2>1, <2>2 DEF RightOf
<1>26. Step(r, ps, version)
  BY <1>20, <1>22, <1>23, <1>24, <1>25 DEF Step
<1> QED BY <1>4, <1>19, <1>26 DEF ps

\* Every step of the main thread keeps the invariant.
LEMMA MainStepKeeps ==
  ASSUME Sound, MainStep
  PROVE  Sound' /\ (Right => Right')
<1>1. Collected /\ version \in [Pages -> Nat \X Nat] /\ Among(posted)
  BY NowIs DEF MainStep, Sound
<1>2. ASSUME NEW r \in W, NEW ps, Among(ps), Set(r), posted' = ps, version' = version, Step(r, ps, version)
      PROVE  Sound' /\ (Right => Right')
  BY <1>1, <1>2, MainKeeps
<1>3. ASSUME NEW r \in W, Set(r), Step(r, posted, version), UNCHANGED core
      PROVE  Sound' /\ (Right => Right')
  <2>1. posted' = posted /\ version' = version
    BY <1>3 DEF core
  <2> QED BY <1>1, <1>2, <1>3, <2>1
<1>4. ASSUME NEW r \in W, NEW k \in {1, 2}, Changes(k), Set(r), Step(r, posted, version')
      PROVE  Sound' /\ (Right => Right')
  <2>1. version' \in [Pages -> Nat \X Nat] /\ posted' = posted
    BY <1>4, ChangesIs
  <2> QED BY <1>1, <1>4, <2>1, MainKeeps
<1>5. ASSUME NEW r \in W, posted # <<>>, posted' = Tail(posted), version' = version,
             Set(r), Step(r, Tail(posted), version)
      PROVE  Sound' /\ (Right => Right')
  <2>1. Among(Tail(posted))
    BY <1>5, TailPosted
  <2> QED BY <1>2, <1>5, <2>1
<1>6. ASSUME NEW p \in Pages, SetPage(p) PROVE Sound' /\ (Right => Right')
  <2>1. PICK r \in W : Set(r) /\ Step(r, posted, version)
    BY <1>6, SetPageStep
  <2> QED BY <1>3, <1>6, <2>1 DEF SetPage
<1>7. CASE ReleaseResources
  <2>1. PICK r \in W : Set(r) /\ Step(r, posted, version)
    BY <1>7, ReleaseStep
  <2> QED BY <1>3, <1>7, <2>1 DEF ReleaseResources
<1>8. CASE Settle
  <2>1. PICK r \in W : Set(r) /\ Step(r, posted, version)
    BY <1>8, SettleStep
  <2> QED BY <1>3, <1>8, <2>1 DEF Settle
<1>9. CASE Unsettle
  <2>1. PICK r \in W : Set(r) /\ Step(r, posted, version)
    BY <1>9, UnsettleStep
  <2> QED BY <1>3, <1>9, <2>1 DEF Unsettle
<1>10. CASE EditAnnotations
  <2>1. PICK r \in W : Set(r) /\ Step(r, posted, version')
    BY <1>10, EditStep
  <2> QED BY <1>4, <1>10, <2>1 DEF EditAnnotations
<1>11. CASE ChangeForm
  <2>1. PICK r \in W : Set(r) /\ Step(r, posted, version')
    BY <1>11, ChangeFormStep
  <2> QED BY <1>4, <1>11, <2>1 DEF ChangeForm
<1>12. ASSUME NEW place \in Places \cup {Whole}, Move(place) PROVE Sound' /\ (Right => Right')
  <2>1. PICK r \in W : Set(r) /\ Step(r, posted, version)
    BY <1>12, MoveStep
  <2> QED BY <1>3, <1>12, <2>1 DEF Move
<1>13. CASE RenderDone
  <2>1. PICK r \in W : Set(r) /\ Step(r, Tail(posted), version)
    BY <1>13, RenderDoneStep
  <2>2. posted # <<>> /\ posted' = Tail(posted) /\ version' = version
    BY <1>13 DEF RenderDone
  <2> QED BY <1>5, <2>1, <2>2
<1>14. CASE AnnotationsDone
  <2>1. PICK r \in W : Set(r) /\ Step(r, Tail(posted), version)
    BY <1>14, AnnotationsDoneStep
  <2>2. posted # <<>> /\ posted' = Tail(posted) /\ version' = version
    BY <1>14 DEF AnnotationsDone
  <2> QED BY <1>5, <2>1, <2>2
<1> QED BY <1>6, <1>7, <1>8, <1>9, <1>10, <1>11, <1>12, <1>13, <1>14
        DEF MainStep, UserStep, PostedStep

----------------------------------------------------------------------------
(* The steps of the jobs *)

\* The state after a step of a job is sound when its parts are.
LEMMA JobKeeps ==
  ASSUME NEW r \in W, NEW ps, Set(r), posted' = ps, version' = version,
         Fit(r, ps), AnnotTask(r, ps), Idle(r), version \in [Pages -> Nat \X Nat],
         content' \in [InUse(r, ps) -> Content]
  PROVE  Sound' /\ (RightOf(r, ps, content', version) => Right')
<1>1. Now' = r
  BY SetIs
<1>2. InUse(Now, posted)' = InUse(r, ps)
  BY <1>1 DEF InUse
<1>3. /\ Fit(Now, posted)' = Fit(r, ps) /\ AnnotTask(Now, posted)' = AnnotTask(r, ps)
      /\ Idle(Now)' = Idle(r)
  BY <1>1 DEF Fit, W, Ids, RenderTasks, Known, Tagged, AnnotTask, Idle
<1>4. Sound'
  BY <1>2, <1>3 DEF Sound, Content
<1>5. ASSUME RightOf(r, ps, content', version) PROVE Right'
  BY <1>1, <1>5 DEF Right
<1> QED BY <1>4, <1>5

\* The bitmap of a render is in use.
LEMMA RenderInUse ==
  ASSUME NEW q \in Seq(Job), NEW k \in DOMAIN q, q[k].kind = "render"
  PROVE  /\ q[k].bm \in Nums /\ q[k].bm # None
         /\ \A w : q[k].bm \in InUse(w, q)
         /\ \A w, ps : w.jobs = q => q[k].bm \in InUse(w, ps)
<1>1. JobOK(q[k])
  BY DEF Job
<1>2. q[k].bm \in Nums
  BY <1>1 DEF JobOK, BmOf, Pool, Nums
<1>3. q[k].bm # None
  BY <1>2, PageViewAssumption DEF Nums
<1> QED BY <1>2, <1>3 DEF InUse

\* A bitmap that some job or result draws or has drawn into.
Drawn(js, ps, b) == (\E k \in DOMAIN js : js[k].bm = b) \/ (\E k \in DOMAIN ps : ps[k].bm = b)
SameDrawn(js, ps, ks, qs) == \A b : Drawn(js, ps, b) <=> Drawn(ks, qs, b)

\* The bitmaps in use are the same when those of the jobs and the results are.
LEMMA SameInUse ==
  ASSUME NEW w, NEW ps, NEW r, NEW qs, r.view = w.view, r.patch = w.patch,
         SameDrawn(w.jobs, ps, r.jobs, qs)
  PROVE  InUse(r, qs) = InUse(w, ps)
<1> DEFINE X == {w.jobs[i].bm : i \in DOMAIN w.jobs} \cup {ps[i].bm : i \in DOMAIN ps}
           Y == {r.jobs[i].bm : i \in DOMAIN r.jobs} \cup {qs[i].bm : i \in DOMAIN qs}
           Z == Pool \cup {w.view.bm} \cup {w.patch[v].shown : v \in Patches}
                     \cup {w.patch[v].inFlight : v \in Patches}
<1>1. X = Y
  <2>1. \A b : b \in X <=> Drawn(w.jobs, ps, b)
    BY DEF Drawn
  <2>2. \A b : b \in Y <=> Drawn(r.jobs, qs, b)
    BY DEF Drawn
  <2> HIDE DEF X, Y
  <2> QED BY <2>1, <2>2 DEF SameDrawn
<1>2. InUse(w, ps) = (Z \cup X) \ {None} /\ InUse(r, qs) = (Z \cup Y) \ {None}
  BY DEF InUse
<1> QED BY <1>1, <1>2

\* What is drawn by a late job is late.
Spoilt(c, d) == d = c \/ d.late

\* What is current stays so, unless it is late.
LEMMA SpoiltCurrent ==
  ASSUME NEW u, NEW page, NEW area, NEW c, NEW d, NEW ver, Spoilt(c, d), Current(u, page, area, c, ver)
  PROVE  Current(u, page, area, d, ver)
  BY DEF Spoilt, Current

\* What the right patch shows, when no job draws into the bitmaps that matter.
LEMMA ShowsSame ==
  ASSUME Sound, NEW con, \A b \in InUse(Now, posted) : Untouched(jobs, b) => Spoilt(content[b], con[b])
  PROVE  /\ \A u \in Patches : Settled(Now, content, version, u) => Settled(Now, con, version, u)
         /\ \A i \in DOMAIN posted :
              posted[i].kind = "render" /\ Untouched(jobs, posted[i].bm)
                  => Spoilt(content[posted[i].bm], con[posted[i].bm])
<1>1. Now.patch = patch /\ Now.jobs = jobs /\ posted \in Seq(Job)
  BY NowIs
<1>2. ASSUME NEW u \in Patches, Settled(Now, content, version, u) PROVE Settled(Now, con, version, u)
  <2>1. patch[u].shown # None /\ Untouched(jobs, patch[u].shown)
    BY <1>1, <1>2 DEF Settled
  <2>2. patch[u].shown \in InUse(Now, posted)
    BY <1>1, <2>1 DEF InUse
  <2>3. Spoilt(content[patch[u].shown], con[patch[u].shown])
    BY <2>1, <2>2
  <2>4. Current(u, view.page, patch[u].area, content[patch[u].shown], version)
    BY <1>1, <1>2, NowIs DEF Settled
  <2>5. Current(u, view.page, patch[u].area, con[patch[u].shown], version)
    BY <2>3, <2>4, SpoiltCurrent
  <2> QED BY <1>1, <1>2, <2>5, NowIs DEF Settled
<1>3. ASSUME NEW i \in DOMAIN posted, posted[i].kind = "render", Untouched(jobs, posted[i].bm)
      PROVE  Spoilt(content[posted[i].bm], con[posted[i].bm])
  <2>1. posted[i].bm \in InUse(Now, posted)
    BY <1>1, <1>3, RenderInUse
  <2> QED BY <1>3, <2>1
<1> QED BY <1>2, <1>3

\* A job that begins stays where it is.
LEMMA BeginStep ==
  ASSUME Sound, NEW i \in DOMAIN jobs, Begin(i)
  PROVE  Sound' /\ (Right => Right')
<1> DEFINE j == [jobs[i] EXCEPT !.begun = TRUE]
           js == [jobs EXCEPT ![i] = j]
           r == [view |-> view, patch |-> patch, jobs |-> js]
<1>1. /\ Fit(Now, posted) /\ Now.view = view /\ Now.patch = patch /\ Now.jobs = jobs /\ Now \in W
      /\ view \in View /\ patch \in [Patches -> PatchRec] /\ jobs \in Seq(Job) /\ posted \in Seq(Job)
      /\ Ids(jobs, posted) /\ RenderTasks(Now, posted)
  BY NowIs DEF Sound
<1>2. jobs[i] \in JobRec /\ JobOK(jobs[i]) /\ jobs[i] \in Job
  BY <1>1 DEF Job
<1>3. /\ j \in JobRec /\ Kin(j, jobs[i]) /\ j.aborted = jobs[i].aborted /\ j.erase = jobs[i].erase
      /\ jobs[i].late \in BOOLEAN
  BY <1>2 DEF JobRec, Kin
<1>4. jobs' = js
  BY DEF Begin
<1> HIDE DEF j
<1>5. j \in Job
  BY <1>2, <1>3 DEF Job, JobOK, Kin
<1>6. js \in Seq(Job) /\ DOMAIN js = DOMAIN jobs
  BY <1>1, <1>5
<1>7. \A k \in DOMAIN jobs : Kin(js[k], jobs[k]) /\ js[k].aborted = jobs[k].aborted
  <2>1. \A k \in DOMAIN jobs : js[k] = IF k = i THEN j ELSE jobs[k]
    BY <1>1
  <2> HIDE DEF js
  <2> QED BY <1>3, <2>1 DEF Kin
<1> HIDE DEF js
<1>8. r.view = view /\ r.patch = patch /\ r.jobs = js
  OBVIOUS
<1>9. r \in W
  <2>1. r \in [view : View, patch : [Patches -> PatchRec], jobs : Seq(Job)]
    BY <1>1, <1>6
  <2> QED BY <1>1, <1>8, <2>1 DEF W
<1>10. Set(r) /\ posted' = posted /\ version' = version
  BY <1>4 DEF Set, Begin
<1> HIDE DEF r
<1>11. \A id, kind, v : Known(Now, posted, id, kind, v) => Known(r, posted, id, kind, v)
  <2>1. \A id, kind, v : Tagged(jobs, id, kind, v) => Tagged(js, id, kind, v)
    BY <1>6, <1>7 DEF Tagged, Kin
  <2> QED BY <1>1, <1>8, <2>1 DEF Known
<1>12. Fit(r, posted)
  <2>1. Ids(js, posted)
    BY <1>1, <1>6, <1>7 DEF Ids, Distinct, Kin
  <2>2. RenderTasks(r, posted)
    BY <1>1, <1>8, <1>11 DEF RenderTasks
  <2> QED BY <1>1, <1>8, <1>9, <2>1, <2>2 DEF Fit
<1>13. AnnotTask(r, posted) /\ Idle(r)
  BY <1>1, <1>8, <1>11 DEF Sound, AnnotTask, Idle
<1>14. InUse(r, posted) = InUse(Now, posted)
  <2>1. \A b : (\E k \in DOMAIN js : js[k].bm = b) <=> (\E k \in DOMAIN jobs : jobs[k].bm = b)
    BY <1>6, <1>7 DEF Kin
  <2>2. SameDrawn(Now.jobs, posted, r.jobs, posted)
    BY <1>1, <1>8, <2>1 DEF SameDrawn, Drawn
  <2>3. r.view = Now.view /\ r.patch = Now.patch
    BY <1>1, <1>8
  <2> QED BY <2>2, <2>3, SameInUse
<1> DEFINE erased == Erased(jobs[i].late)
<1>15. erased \in Content /\ erased.late = jobs[i].late /\ content \in [InUse(Now, posted) -> Content]
  BY <1>3, ErasedIs DEF Sound
<1>16. content' = IF jobs[i].erase THEN [content EXCEPT ![jobs[i].bm] = erased] ELSE content
  BY DEF Begin
<1> HIDE DEF erased
<1>17. content' \in [InUse(r, posted) -> Content]
  <2>1. content' \in [InUse(Now, posted) -> Content]
    BY ONLY <1>15, <1>16
  <2> QED BY <1>14, <2>1
<1>18. \A b \in InUse(Now, posted) : Untouched(jobs, b) => Spoilt(content[b], content'[b])
  BY <1>15, <1>16 DEF Untouched, Spoilt
<1>19. ASSUME Right PROVE RightOf(r, posted, content', version)
  <2>1. \A b : Untouched(jobs, b) => Untouched(js, b)
    BY <1>6, <1>7 DEF Untouched, Kin
  <2>2. \A u, k : k \in DOMAIN jobs /\ Mine(Now, u, jobs[k]) /\ LastOn(jobs, k)
                  => k \in DOMAIN js /\ Mine(r, u, js[k]) /\ LastOn(js, k)
    BY <1>1, <1>6, <1>7, <1>8 DEF Mine, LastOn, Kin
  <2>3. \A u, job : Mine(Now, u, job) => Mine(r, u, job) /\ job.kind = "render"
    BY <1>1, <1>8 DEF Mine
  <2>4. \A u \in Patches : Settled(Now, content, version, u) => Settled(Now, content', version, u)
    BY <1>18, ShowsSame
  <2>5. \A k \in DOMAIN posted : posted[k].kind = "render" /\ Untouched(jobs, posted[k].bm)
                                 => Spoilt(content[posted[k].bm], content'[posted[k].bm])
    BY <1>18, ShowsSame
  <2>6. ASSUME NEW u \in Patches PROVE PatchRight(r, posted, content', version, u)
    <3>1. PatchRight(Now, posted, content, version, u)
      BY <1>19 DEF Right, RightOf
    <3>2. Settled(Now, content', version, u) => Settled(r, content', version, u)
      BY <1>1, <1>8, <2>1 DEF Settled
    <3>3. ASSUME Coming(Now, posted, content, version, u) PROVE Coming(r, posted, content', version, u)
      <4>1. CASE \E k \in DOMAIN jobs : Mine(Now, u, jobs[k]) /\ LastOn(jobs, k)
        BY <1>8, <2>2, <4>1 DEF Coming
      <4>2. ASSUME NEW k \in DOMAIN posted, Mine(Now, u, posted[k]), Untouched(jobs, posted[k].bm),
                   Current(u, view.page, posted[k].area, content[posted[k].bm], version)
            PROVE  Coming(r, posted, content', version, u)
        <5>1. /\ Mine(r, u, posted[k]) /\ Untouched(js, posted[k].bm)
              /\ Spoilt(content[posted[k].bm], content'[posted[k].bm])
          BY <2>1, <2>3, <2>5, <4>2
        <5>2. Current(u, view.page, posted[k].area, content'[posted[k].bm], version)
          BY <4>2, <5>1, SpoiltCurrent
        <5> QED BY <1>8, <5>1, <5>2 DEF Coming
      <4> QED BY <1>1, <3>3, <4>1, <4>2 DEF Coming
    <3> QED BY <1>1, <1>8, <2>4, <3>1, <3>2, <3>3 DEF PatchRight
  <2>7. ASSUME view.page # None PROVE AnnotsRight(r, posted, version) /\ Redrawn(r, posted)
    <3>1. AnnotsRight(Now, posted, version) /\ Redrawn(Now, posted)
      BY <1>1, <1>19, <2>7 DEF Right, RightOf
    <3>2. (NoLoads(js) <=> NoLoads(jobs)) /\ (LateLoads(jobs) => LateLoads(js))
      BY <1>6, <1>7 DEF NoLoads, LateLoads, Kin
    <3>3. \A k \in DOMAIN jobs : LastLoad(jobs, k) /\ jobs[k].page = view.page
                                 => k \in DOMAIN js /\ LastLoad(js, k) /\ js[k].page = view.page
      BY <1>6, <1>7 DEF LastLoad, Kin
    <3>4. AnnotsRight(r, posted, version)
      BY <1>1, <1>8, <3>1, <3>2, <3>3 DEF AnnotsRight
    <3>5. Redrawn(r, posted)
      BY <1>1, <1>8, <3>1, <3>2 DEF Redrawn
    <3> QED BY <3>4, <3>5
  <2> QED BY <1>8, <2>6, <2>7 DEF RightOf
<1>20. Sound' /\ (RightOf(r, posted, content', version) => Right')
  <2>1. version \in [Pages -> Nat \X Nat]
    BY DEF Sound
  <2> QED BY <1>9, <1>10, <1>12, <1>13, <1>17, <2>1, JobKeeps
<1> QED BY <1>19, <1>20

\* The bitmaps in use are those in use now.
SameUse(r, ps) == InUse(r, ps) = InUse(Now, posted)

\* The jobs that are left when one is done: those it overtook are late.
Remain(r, i) ==
    \A k \in DOMAIN r : \E m \in DOMAIN jobs :
        Kin(r[k], jobs[m]) /\ m # i /\ (m < i /\ jobs[m].bm = jobs[i].bm => r[k].late)

\* They are the others.
LEMMA OvertakenOut ==
  ASSUME jobs \in Seq(Job), Distinct(jobs), NEW i \in DOMAIN jobs
  PROVE  /\ Cancelled(jobs, RemoveAt(Overtaken(i), i), jobs[i].id)
         /\ Remain(RemoveAt(Overtaken(i), i), i)
<1> DEFINE ov == Overtaken(i)
<1>1. DOMAIN jobs = 1 .. Len(jobs) /\ Len(jobs) \in Nat /\ DOMAIN ov = DOMAIN jobs
  BY DEF Overtaken
<1>2. ASSUME NEW k \in DOMAIN jobs
      PROVE  /\ ov[k] \in Job /\ Same(ov[k], jobs[k])
             /\ k < i /\ jobs[k].bm = jobs[i].bm => ov[k].late
  <2>1. jobs[k] \in Job /\ jobs[k] \in JobRec /\ JobOK(jobs[k])
    BY DEF Job
  <2>2. ov[k] = IF k < i /\ jobs[k].bm = jobs[i].bm THEN [jobs[k] EXCEPT !.late = TRUE] ELSE jobs[k]
    BY DEF Overtaken
  <2>3. CASE ~(k < i /\ jobs[k].bm = jobs[i].bm)
    BY <2>1, <2>2, <2>3 DEF Same, Kin
  <2>4. CASE k < i /\ jobs[k].bm = jobs[i].bm
    <3> DEFINE j == [jobs[k] EXCEPT !.late = TRUE]
    <3>1. j \in JobRec /\ Same(j, jobs[k]) /\ j.erase = jobs[k].erase /\ j.late
      BY <2>1 DEF JobRec, Same, Kin
    <3> HIDE DEF j
    <3>2. JobOK(j)
      BY <2>1, <3>1 DEF JobOK, Same, Kin
    <3>3. ov[k] = j
      BY <2>2, <2>4 DEF j
    <3> QED BY <3>1, <3>2, <3>3 DEF Job
  <2> QED BY <2>3, <2>4
<1>3. ov \in Seq(Job)
  <2>1. ov = [k \in 1 .. Len(jobs) |-> ov[k]]
    BY <1>1 DEF Overtaken
  <2>2. \A k \in 1 .. Len(jobs) : ov[k] \in Job
    BY <1>1, <1>2
  <2> HIDE DEF ov
  <2> QED BY <1>1, <2>1, <2>2, IsASeq
<1> HIDE DEF ov
<1>4. Distinct(ov) /\ i \in DOMAIN ov /\ ov[i].id = jobs[i].id
  BY <1>1, <1>2 DEF Distinct, Same, Kin
<1> DEFINE left == RemoveAt(ov, i)
<1>5. Cancelled(ov, left, jobs[i].id)
  BY <1>3, <1>4, OneOut
<1>6. \A k \in DOMAIN left : \E m \in DOMAIN ov : left[k] = ov[m] /\ m # i
  BY <1>3, <1>4, OneOut
<1> HIDE DEF left
<1>7. Cancelled(jobs, ov, jobs[i].id)
  <2>1. \A k \in DOMAIN jobs : Follows(ov, k, jobs, k)
    BY <1>1, <1>2 DEF Follows, Same
  <2> QED BY <1>1, <1>2, <1>3, <1>4, <2>1 DEF Cancelled, Same
<1>8. Cancelled(jobs, left, jobs[i].id)
  BY <1>5, <1>7, CancelledTwice
<1>9. Remain(left, i)
  BY <1>1, <1>2, <1>6 DEF Remain, Same
<1> QED BY <1>8, <1>9 DEF left, ov

\* A job that is done goes from the jobs to the results, with the same bitmap.
LEMMA PostedFits ==
  ASSUME Sound, NEW i \in DOMAIN jobs, NEW j \in Job, Kin(j, jobs[i]),
         NEW r, r.view = view, r.patch = patch, r.jobs = RemoveAt(Overtaken(i), i),
         r \in [view : View, patch : [Patches -> PatchRec], jobs : Seq(Job)],
         NEW ps, ps = Append(posted, j)
  PROVE  /\ Fit(r, ps) /\ AnnotTask(r, ps) /\ Idle(r) /\ SameUse(r, ps)
         /\ Grown(posted, ps, j) /\ Cancelled(jobs, r.jobs, jobs[i].id) /\ Remain(r.jobs, i)
<1> DEFINE left == RemoveAt(Overtaken(i), i)
<1>1. /\ Fit(Now, posted) /\ Now.view = view /\ Now.patch = patch /\ Now.jobs = jobs /\ Now \in W
      /\ jobs \in Seq(Job) /\ posted \in Seq(Job) /\ Distinct(jobs)
      /\ Ids(jobs, posted) /\ RenderTasks(Now, posted)
  BY NowIs DEF Sound
<1>2. Cancelled(jobs, left, jobs[i].id)
  BY <1>1, OvertakenOut
<1>3. Remain(left, i)
  BY <1>1, OvertakenOut
<1>4. r.jobs = left
  OBVIOUS
<1> HIDE DEF left
<1>5. Grown(posted, ps, j)
  BY <1>1, AppendGrows
<1>6. PICK n \in DOMAIN ps : /\ ps[n] = j /\ DOMAIN ps = DOMAIN posted \cup {n}
                             /\ \A k \in DOMAIN posted : ps[k] = posted[k]
  BY <1>5 DEF Grown
<1>7. j.id = jobs[i].id /\ j.kind = jobs[i].kind /\ j.patch = jobs[i].patch /\ j.bm = jobs[i].bm
  BY DEF Kin
<1>8. Ids(left, ps)
  <2>1. Ids(left, posted)
    BY <1>1, <1>2, IdsLeft
  <2>2. Ids(posted, left)
    BY <2>1 DEF Ids
  <2>3. \A k \in DOMAIN posted : posted[k].id # j.id
    BY <1>1, <1>7 DEF Ids
  <2>4. \A k \in DOMAIN left : left[k].id # j.id
    BY <1>1, <1>3, <1>7 DEF Distinct, Remain, Kin
  <2>5. Ids(ps, left)
    BY <1>1, <1>5, <2>2, <2>3, <2>4, IdsGrown
  <2> QED BY <2>5 DEF Ids
<1>9. ASSUME NEW id, NEW kind, NEW v, Known(Now, posted, id, kind, v) PROVE Known(r, ps, id, kind, v)
  <2>1. CASE Tagged(posted, id, kind, v)
    <3>1. Tagged(ps, id, kind, v)
      BY <1>6, <2>1 DEF Tagged
    <3> QED BY <3>1 DEF Known
  <2>2. CASE Tagged(jobs, id, kind, v)
    <3>1. PICK m \in DOMAIN jobs : jobs[m].id = id /\ jobs[m].kind = kind /\ jobs[m].patch = v
      BY <2>2 DEF Tagged
    <3>2. CASE m = i
      <4>1. Tagged(ps, id, kind, v)
        BY <1>6, <1>7, <3>1, <3>2 DEF Tagged
      <4> QED BY <4>1 DEF Known
    <3>3. CASE m # i
      <4>1. jobs[m].id # jobs[i].id
        BY <1>1, <3>3 DEF Distinct
      <4>2. \E k \in DOMAIN left : Same(left[k], jobs[m])
        BY <1>2, <4>1 DEF Cancelled
      <4> QED BY <1>4, <3>1, <4>2 DEF Known, Tagged, Same, Kin
    <3> QED BY <3>2, <3>3
  <2> QED BY <1>1, <1>9, <2>1, <2>2 DEF Known
<1>10. Fit(r, ps)
  <2>1. r \in W
    BY <1>1 DEF W
  <2>2. ps \in Seq(Job)
    BY <1>5 DEF Grown
  <2>3. RenderTasks(r, ps)
    BY <1>1, <1>9 DEF RenderTasks
  <2> QED BY <1>4, <1>8, <2>1, <2>2, <2>3 DEF Fit
<1>11. AnnotTask(r, ps) /\ Idle(r)
  BY <1>1, <1>9 DEF Sound, AnnotTask, Idle
<1>12. InUse(r, ps) = InUse(Now, posted)
  <2>1. ASSUME NEW m \in DOMAIN jobs
        PROVE  (\E k \in DOMAIN left : left[k].bm = jobs[m].bm) \/ (\E k \in DOMAIN ps : ps[k].bm = jobs[m].bm)
    <3>1. CASE m = i
      BY <1>6, <1>7, <3>1
    <3>2. CASE m # i
      <4>1. jobs[m].id # jobs[i].id
        BY <1>1, <3>2 DEF Distinct
      <4>2. \E k \in DOMAIN left : Same(left[k], jobs[m])
        BY <1>2, <4>1 DEF Cancelled
      <4> QED BY <4>2 DEF Same, Kin
    <3> QED BY <3>1, <3>2
  <2>2. ASSUME NEW b, Drawn(jobs, posted, b) PROVE Drawn(left, ps, b)
    BY <1>6, <2>1, <2>2 DEF Drawn
  <2>3. ASSUME NEW b, Drawn(left, ps, b) PROVE Drawn(jobs, posted, b)
    BY <1>3, <1>6, <1>7, <2>3 DEF Drawn, Remain, Kin
  <2>4. SameDrawn(Now.jobs, posted, r.jobs, ps)
    BY <1>1, <1>4, <2>2, <2>3 DEF SameDrawn
  <2>5. r.view = Now.view /\ r.patch = Now.patch
    BY <1>1
  <2> HIDE DEF left
  <2> QED BY ONLY <2>4, <2>5, SameInUse
<1> QED BY <1>2, <1>3, <1>4, <1>5, <1>10, <1>11, <1>12 DEF SameUse

\* A job is done: a patch that waits for it has its result, and one launched later
\* is still coming.
LEMMA PostedRight ==
  ASSUME Sound, NEW i \in DOMAIN jobs, NEW j, Kin(j, jobs[i]), j.aborted = jobs[i].aborted,
         NEW r, r.view = view, r.patch = patch, Cancelled(jobs, r.jobs, jobs[i].id), Remain(r.jobs, i),
         NEW ps, Grown(posted, ps, j),
         NEW con, \A b \in InUse(Now, posted) : Untouched(jobs, b) => Spoilt(content[b], con[b]),
         jobs[i].kind = "render" /\ ~jobs[i].aborted =>
             con[jobs[i].bm] = [page |-> jobs[i].page, area |-> jobs[i].area,
                                version |-> version[jobs[i].page], late |-> jobs[i].late],
         NEW u \in Patches, PatchRight(Now, posted, content, version, u)
  PROVE  PatchRight(r, ps, con, version, u)
<1>1. /\ Now.view = view /\ Now.patch = patch /\ Now.jobs = jobs
      /\ jobs \in Seq(Job) /\ posted \in Seq(Job) /\ Distinct(jobs)
  BY NowIs
<1>2. PICK n \in DOMAIN ps : /\ ps[n] = j /\ DOMAIN ps = DOMAIN posted \cup {n}
                             /\ \A k \in DOMAIN posted : ps[k] = posted[k]
  BY DEF Grown
<1>3. \A job : Mine(Now, u, job) => Mine(r, u, job) /\ job.kind = "render"
  BY <1>1 DEF Mine
<1>4. \A b : Untouched(jobs, b) => Untouched(r.jobs, b)
  BY DEF Untouched, Remain, Kin
<1>5. \A k \in DOMAIN posted : posted[k].kind = "render" /\ Untouched(jobs, posted[k].bm)
                               => Spoilt(content[posted[k].bm], con[posted[k].bm])
  BY ShowsSame
<1>6. Settled(Now, content, version, u) => Settled(r, con, version, u)
  <2>1. Settled(Now, content, version, u) => Settled(Now, con, version, u)
    BY ShowsSame
  <2>2. Settled(Now, con, version, u) => Settled(r, con, version, u)
    BY <1>1, <1>4 DEF Settled
  <2> QED BY <2>1, <2>2
<1>7. ASSUME Coming(Now, posted, content, version, u) PROVE Coming(r, ps, con, version, u)
  <2>1. ASSUME NEW k \in DOMAIN posted, Mine(Now, u, posted[k]), Untouched(jobs, posted[k].bm),
               Current(u, view.page, posted[k].area, content[posted[k].bm], version)
        PROVE  Coming(r, ps, con, version, u)
    <3>1. /\ Mine(r, u, posted[k]) /\ Untouched(r.jobs, posted[k].bm)
          /\ Spoilt(content[posted[k].bm], con[posted[k].bm])
      BY <1>3, <1>4, <1>5, <2>1
    <3>2. k \in DOMAIN ps /\ ps[k] = posted[k]
      BY <1>2
    <3>3. Current(u, view.page, posted[k].area, con[posted[k].bm], version)
      BY <2>1, <3>1, SpoiltCurrent
    <3> QED BY <3>1, <3>2, <3>3 DEF Coming
  <2>2. ASSUME NEW k \in DOMAIN jobs, k # i, Mine(Now, u, jobs[k]), LastOn(jobs, k)
        PROVE  Coming(r, ps, con, version, u)
    <3>1. jobs[k].id # jobs[i].id
      BY <1>1, <2>2 DEF Distinct
    <3>2. PICK l \in DOMAIN r.jobs : Same(r.jobs[l], jobs[k]) /\ Follows(r.jobs, l, jobs, k)
      BY <3>1 DEF Cancelled
    <3>3. LastOn(r.jobs, l)
      <4> SUFFICES ASSUME NEW x \in DOMAIN r.jobs, x > l PROVE r.jobs[x].bm # jobs[k].bm
        BY <3>2 DEF LastOn, Same, Kin
      <4>1. PICK m \in DOMAIN jobs : m > k /\ Kin(r.jobs[x], jobs[m])
        BY <3>2 DEF Follows
      <4> QED BY <2>2, <4>1 DEF LastOn, Kin
    <3>4. Mine(r, u, r.jobs[l])
      BY <1>1, <2>2, <3>2 DEF Mine, Same, Kin
    <3> QED BY <3>3, <3>4 DEF Coming
  <2>3. ASSUME Mine(Now, u, jobs[i]), LastOn(jobs, i) PROVE Coming(r, ps, con, version, u)
    <3>1. jobs[i].kind = "render" /\ jobs[i].patch = u /\ jobs[i].page = view.page /\ ~jobs[i].aborted
      BY <1>1, <2>3 DEF Mine
    <3>2. Mine(r, u, j) /\ j.bm = jobs[i].bm /\ j.area = jobs[i].area
      BY <1>1, <2>3 DEF Mine, Kin
    <3>3. Untouched(r.jobs, j.bm)
      <4> SUFFICES ASSUME NEW k \in DOMAIN r.jobs, r.jobs[k].bm = j.bm PROVE r.jobs[k].late
        BY DEF Untouched
      <4>1. PICK m \in DOMAIN jobs :
                /\ Kin(r.jobs[k], jobs[m]) /\ m # i
                /\ m < i /\ jobs[m].bm = jobs[i].bm => r.jobs[k].late
        BY DEF Remain
      <4>2. jobs[m].bm = jobs[i].bm
        BY <3>2, <4>1 DEF Kin
      <4>3. ~(m > i)
        BY <2>3, <4>2 DEF LastOn
      <4>4. m < i
        <5>1. m \in Nat /\ i \in Nat
          BY <1>1
        <5> QED BY <4>1, <4>3, <5>1
      <4> QED BY <4>1, <4>2, <4>4
    <3>4. u = "entire" => j.area = Whole
      <4>1. JobOK(jobs[i])
        BY <1>1 DEF Job
      <4> QED BY <3>1, <3>2, <4>1 DEF JobOK
    <3>5. Current(u, view.page, j.area, con[j.bm], version)
      <4> DEFINE c == con[j.bm]
      <4>1. c = [page |-> view.page, area |-> j.area, version |-> version[view.page], late |-> jobs[i].late]
            /\ jobs[i].late \in BOOLEAN
        <5>1. jobs[i] \in JobRec
          BY <1>1 DEF Job
        <5> QED BY <3>1, <3>2, <5>1 DEF JobRec
      <4> HIDE DEF c
      <4>2. Current(u, view.page, j.area, c, version)
        BY <3>4, <4>1 DEF Current
      <4> QED BY <4>2 DEF c
    <3> QED BY <1>2, <3>2, <3>3, <3>5 DEF Coming
  <2> QED BY <1>1, <1>7, <2>1, <2>2, <2>3 DEF Coming
<1> QED BY <1>1, <1>6, <1>7 DEF PatchRight

\* The last load, when it is done, has read the page as it is; the others are late.
LEMMA LoadsPosted ==
  ASSUME Sound, NEW i \in DOMAIN jobs, NEW j, Kin(j, jobs[i]),
         NEW r, r.view = view, r.patch = patch, Cancelled(jobs, r.jobs, jobs[i].id), Remain(r.jobs, i),
         NEW ps, Grown(posted, ps, j),
         j.kind = "annots" => j.version = version[jobs[i].page][1],
         AnnotsRight(Now, posted, version), Redrawn(Now, posted)
  PROVE  AnnotsRight(r, ps, version) /\ Redrawn(r, ps)
<1>1. /\ Now.view = view /\ Now.patch = patch /\ Now.jobs = jobs
      /\ jobs \in Seq(Job) /\ posted \in Seq(Job) /\ Distinct(jobs)
  BY NowIs
<1>2. PICK n \in DOMAIN ps : /\ ps[n] = j /\ DOMAIN ps = DOMAIN posted \cup {n} /\ n \notin DOMAIN posted
                             /\ \A k \in DOMAIN posted : k < n /\ ps[k] = posted[k]
  BY DEF Grown
<1>3. ps \in Seq(Job) /\ DOMAIN ps \subseteq Nat
  <2>1. ps \in Seq(Job)
    BY DEF Grown
  <2> QED BY <2>1
<1>4. j.kind = jobs[i].kind /\ j.page = jobs[i].page /\ (jobs[i].late => j.late)
  BY DEF Kin
<1>5. ASSUME NEW k \in DOMAIN jobs, k # i
      PROVE  \E l \in DOMAIN r.jobs : Same(r.jobs[l], jobs[k]) /\ Follows(r.jobs, l, jobs, k)
  <2>1. jobs[k].id # jobs[i].id
    BY <1>1, <1>5 DEF Distinct
  <2> QED BY <2>1 DEF Cancelled
<1>6. LateLoads(jobs) => LateLoads(r.jobs) /\ (j.kind = "annots" => j.late)
  BY <1>4 DEF LateLoads, Remain, Kin
<1>7. ASSUME NoLoads(r.jobs), NoLoads(ps) PROVE NoLoads(jobs) /\ NoLoads(posted)
  <2>1. NoLoads(posted) /\ j.kind # "annots"
    BY <1>2, <1>7 DEF NoLoads
  <2>2. ASSUME NEW k \in DOMAIN jobs PROVE jobs[k].kind # "annots"
    <3>1. CASE k = i
      BY <1>4, <2>1, <3>1
    <3>2. CASE k # i
      <4>1. PICK l \in DOMAIN r.jobs : Same(r.jobs[l], jobs[k])
        BY <1>5, <3>2
      <4> QED BY <1>7, <4>1 DEF NoLoads, Same, Kin
    <3> QED BY <3>1, <3>2
  <2> QED BY <2>1, <2>2 DEF NoLoads
<1>8. Redrawn(r, ps)
  BY <1>1, <1>7 DEF Redrawn
<1>13. ASSUME LateLoads(r.jobs), j.kind = "annots", Fresh(j, view.page, version)
       PROVE  AnnotsRight(r, ps, version)
  <2>1. LastLoad(ps, n)
    <3> SUFFICES ASSUME NEW x \in DOMAIN ps, x > n PROVE FALSE
      BY <1>2, <1>13 DEF LastLoad
    <3>1. x \in Nat /\ n \in Nat
      BY <1>3
    <3>2. x = n \/ x < n
      BY <1>2
    <3> QED BY <3>1, <3>2
  <2> QED BY <1>2, <1>13, <2>1 DEF AnnotsRight
<1>9. ASSUME LateLoads(jobs), NoLoads(posted), view.annots # None, Fresh(view.annots, view.page, version)
      PROVE  AnnotsRight(r, ps, version)
  <2>1. CASE j.kind = "annots"
    BY <1>6, <1>9, <1>13, <2>1 DEF Fresh
  <2>2. CASE j.kind # "annots"
    <3>1. NoLoads(ps)
      BY <1>2, <1>9, <2>2 DEF NoLoads
    <3> QED BY <1>6, <1>9, <3>1 DEF AnnotsRight
  <2> QED BY <2>1, <2>2
<1>10. ASSUME LateLoads(jobs), NEW k \in DOMAIN posted, LastLoad(posted, k), Fresh(posted[k], view.page, version)
       PROVE  AnnotsRight(r, ps, version)
  <2>1. CASE j.kind = "annots"
    BY <1>6, <1>10, <1>13, <2>1 DEF Fresh
  <2>2. CASE j.kind # "annots"
    <3>1. k \in DOMAIN ps /\ ps[k] = posted[k] /\ LastLoad(ps, k)
      BY <1>2, <1>10, <2>2 DEF LastLoad
    <3> QED BY <1>6, <1>10, <3>1 DEF AnnotsRight
  <2> QED BY <2>1, <2>2
<1>11. ASSUME NEW k \in DOMAIN jobs, LastLoad(jobs, k), jobs[k].page = view.page
       PROVE  AnnotsRight(r, ps, version)
  <2>1. CASE k # i
    <3>1. PICK l \in DOMAIN r.jobs : Same(r.jobs[l], jobs[k]) /\ Follows(r.jobs, l, jobs, k)
      BY <1>5, <2>1
    <3>2. LastLoad(r.jobs, l)
      <4> SUFFICES ASSUME NEW x \in DOMAIN r.jobs, x > l PROVE r.jobs[x].kind # "annots"
        BY <1>11, <3>1 DEF LastLoad, Same, Kin
      <4>1. PICK m \in DOMAIN jobs : m > k /\ Kin(r.jobs[x], jobs[m])
        BY <3>1 DEF Follows
      <4> QED BY <1>11, <4>1 DEF LastLoad, Kin
    <3> QED BY <1>11, <3>1, <3>2 DEF AnnotsRight, Same, Kin
  <2>2. CASE k = i
    <3>1. LateLoads(r.jobs)
      <4> SUFFICES ASSUME NEW l \in DOMAIN r.jobs, r.jobs[l].kind = "annots" PROVE r.jobs[l].late
        BY DEF LateLoads
      <4>1. PICK m \in DOMAIN jobs :
                /\ Kin(r.jobs[l], jobs[m]) /\ m # i
                /\ m < i /\ jobs[m].bm = jobs[i].bm => r.jobs[l].late
        BY DEF Remain
      <4>2. jobs[m].kind = "annots" /\ jobs[i].kind = "annots"
        BY <1>11, <2>2, <4>1 DEF Kin, LastLoad
      <4>3. jobs[m].bm = jobs[i].bm
        <5>1. JobOK(jobs[m]) /\ JobOK(jobs[i])
          BY <1>1 DEF Job
        <5> QED BY <4>2, <5>1 DEF JobOK
      <4>4. m < i
        <5>1. m \in Nat /\ i \in Nat
          BY <1>1
        <5>2. ~(m > i)
          BY <1>11, <2>2, <4>2 DEF LastLoad
        <5> QED BY <4>1, <5>1, <5>2
      <4> QED BY <4>1, <4>3, <4>4
    <3>2. j.kind = "annots" /\ Fresh(j, view.page, version)
      BY <1>4, <1>11, <2>2 DEF LastLoad, Fresh
    <3> QED BY <1>13, <3>1, <3>2
  <2> QED BY <2>1, <2>2
<1>12. AnnotsRight(r, ps, version)
  BY <1>1, <1>9, <1>10, <1>11 DEF AnnotsRight
<1> QED BY <1>8, <1>12

\* A job that is done, its result posted, keeps the invariant.
LEMMA JobDone ==
  ASSUME Sound, NEW i \in DOMAIN jobs, NEW j \in Job, Kin(j, jobs[i]), j.aborted = jobs[i].aborted,
         j.kind = "annots" => j.version = version[jobs[i].page][1],
         Ends(i, j), UNCHANGED <<view, patch, version>>,
         content' \in [InUse(Now, posted) -> Content],
         \A b \in InUse(Now, posted) : Untouched(jobs, b) => Spoilt(content[b], content'[b]),
         jobs[i].kind = "render" /\ ~jobs[i].aborted =>
             content'[jobs[i].bm] = [page |-> jobs[i].page, area |-> jobs[i].area,
                                     version |-> version[jobs[i].page], late |-> jobs[i].late]
  PROVE  Sound' /\ (Right => Right')
<1> DEFINE left == RemoveAt(Overtaken(i), i)
           r == [view |-> view, patch |-> patch, jobs |-> left]
           ps == Append(posted, j)
<1>1. /\ view \in View /\ patch \in [Patches -> PatchRec] /\ jobs \in Seq(Job) /\ Distinct(jobs)
      /\ Now.view = view /\ posted \in Seq(Job)
  BY NowIs
<1>2. left \in Seq(Job)
  <2>1. Cancelled(jobs, left, jobs[i].id)
    BY <1>1, OvertakenOut
  <2> QED BY <2>1 DEF Cancelled
<1>3. Set(r) /\ posted' = ps /\ version' = version
  BY DEF Set, Ends
<1> HIDE DEF left, ps
<1>4. r \in [view : View, patch : [Patches -> PatchRec], jobs : Seq(Job)]
  BY <1>1, <1>2
<1>5. r.view = view /\ r.patch = patch /\ r.jobs = left
  OBVIOUS
<1> HIDE DEF r
<1>6. /\ Fit(r, ps) /\ AnnotTask(r, ps) /\ Idle(r) /\ InUse(r, ps) = InUse(Now, posted)
      /\ Grown(posted, ps, j) /\ Cancelled(jobs, r.jobs, jobs[i].id)
  <2>1. r.jobs = RemoveAt(Overtaken(i), i) /\ ps = Append(posted, j)
    BY <1>5 DEF left, ps
  <2>2. Fit(r, ps) /\ AnnotTask(r, ps) /\ Idle(r)
    BY <1>4, <1>5, <2>1, PostedFits
  <2>3. SameUse(r, ps)
    BY <1>4, <1>5, <2>1, PostedFits
  <2>4. Grown(posted, ps, j)
    BY <1>1, <2>1, AppendGrows
  <2>5. Cancelled(jobs, r.jobs, jobs[i].id)
    BY <1>1, <2>1, OvertakenOut
  <2> QED BY <2>2, <2>3, <2>4, <2>5 DEF SameUse
<1>7. Remain(r.jobs, i)
  BY <1>1, <1>5, OvertakenOut DEF left
<1>8. Sound' /\ (RightOf(r, ps, content', version) => Right')
  <2>1. r \in W /\ content' \in [InUse(r, ps) -> Content] /\ version \in [Pages -> Nat \X Nat]
    BY <1>6 DEF Fit, Sound
  <2> QED BY <1>3, <1>6, <2>1, JobKeeps
<1>9. ASSUME Right PROVE RightOf(r, ps, content', version)
  <2>1. ASSUME NEW u \in Patches PROVE PatchRight(r, ps, content', version, u)
    <3>1. PatchRight(Now, posted, content, version, u)
      BY <1>9 DEF Right, RightOf
    <3> QED BY <1>5, <1>6, <1>7, <1>9, <3>1, PostedRight
  <2>2. ASSUME view.page # None PROVE AnnotsRight(r, ps, version) /\ Redrawn(r, ps)
    <3>1. AnnotsRight(Now, posted, version) /\ Redrawn(Now, posted)
      BY <1>1, <1>9, <2>2 DEF Right, RightOf
    <3> QED BY <1>5, <1>6, <1>7, <1>9, <3>1, LoadsPosted
  <2> QED BY <1>5, <2>1, <2>2 DEF RightOf
<1> QED BY <1>8, <1>9

\* A render draws into its bitmap, which only a late job draws into after the last.
LEMMA DrawStep ==
  ASSUME Sound, NEW i \in DOMAIN jobs, Draw(i)
  PROVE  Sound' /\ (Right => Right')
<1> DEFINE full == [page |-> jobs[i].page, area |-> jobs[i].area,
                    version |-> version[jobs[i].page], late |-> jobs[i].late]
           c == IF jobs[i].aborted THEN Erased(jobs[i].late) ELSE full
           b == jobs[i].bm
<1>1. jobs \in Seq(Job) /\ Now.jobs = jobs /\ version \in [Pages -> Nat \X Nat]
      /\ content \in [InUse(Now, posted) -> Content]
  BY NowIs DEF Sound
<1>2. jobs[i] \in Job /\ jobs[i] \in JobRec /\ Kin(jobs[i], jobs[i]) /\ jobs[i].kind = "render"
  BY <1>1 DEF Job, Kin, Draw
<1>3. b \in InUse(Now, posted)
  BY <1>1, <1>2, RenderInUse
<1>4. c \in Content /\ c.late = jobs[i].late
  <2>1. jobs[i].late \in BOOLEAN
    BY <1>2 DEF JobRec
  <2>2. Erased(jobs[i].late) \in Content /\ Erased(jobs[i].late).late = jobs[i].late
    BY <2>1, ErasedIs
  <2>3. jobs[i].page \in Pages /\ jobs[i].area \in Area \cup {None} /\ version[jobs[i].page] \in Nat \X Nat
    BY <1>1, <1>2 DEF JobRec
  <2>4. full \in Content /\ full.late = jobs[i].late
    BY <2>1, <2>3 DEF Content
  <2> HIDE DEF full
  <2> QED BY <2>2, <2>4
<1>5. content' = [content EXCEPT ![b] = c] /\ (~jobs[i].aborted => c = full)
  BY DEF Draw
<1>6. b = jobs[i].bm
  OBVIOUS
<1> HIDE DEF b, c
<1>7. content' \in [InUse(Now, posted) -> Content] /\ content'[b] = c
      /\ \A d \in InUse(Now, posted) : d # b => content'[d] = content[d]
  BY <1>1, <1>3, <1>4, <1>5
<1>8. \A d \in InUse(Now, posted) : Untouched(jobs, d) => Spoilt(content[d], content'[d])
  BY <1>4, <1>6, <1>7 DEF Untouched, Spoilt
<1>9. ~jobs[i].aborted => content'[jobs[i].bm] = full
  BY <1>5, <1>6, <1>7
<1>10. Ends(i, jobs[i]) /\ UNCHANGED <<view, patch, version>>
  BY DEF Draw
<1> QED BY <1>2, <1>7, <1>8, <1>9, <1>10, JobDone

\* A load reads the ink of the page.
LEMMA ReadStep ==
  ASSUME Sound, NEW i \in DOMAIN jobs, ReadAnnotations(i)
  PROVE  Sound' /\ (Right => Right')
<1> DEFINE n == version[jobs[i].page][1]
           j == [jobs[i] EXCEPT !.version = n]
<1>1. jobs \in Seq(Job) /\ version \in [Pages -> Nat \X Nat] /\ content \in [InUse(Now, posted) -> Content]
  BY NowIs DEF Sound
<1>2. jobs[i] \in JobRec /\ JobOK(jobs[i]) /\ jobs[i].kind = "annots"
  BY <1>1 DEF Job, ReadAnnotations
<1>3. n \in Nat
  <2>1. jobs[i].page \in Pages
    BY <1>2 DEF JobRec
  <2> QED BY <1>1, <2>1
<1>4. n = version[jobs[i].page][1]
  OBVIOUS
<1>5. Ends(i, j) /\ UNCHANGED <<view, patch, version>> /\ content' = content
  BY DEF ReadAnnotations
<1> HIDE DEF n
<1>6. j \in JobRec /\ Kin(j, jobs[i]) /\ j.aborted = jobs[i].aborted /\ j.version = n /\ j.erase = jobs[i].erase
  BY <1>2, <1>3 DEF JobRec, Kin
<1> HIDE DEF j
<1>7. j \in Job
  BY <1>2, <1>6 DEF Job, JobOK, Kin
<1>8. \A b \in InUse(Now, posted) : Untouched(jobs, b) => Spoilt(content[b], content'[b])
  BY <1>5 DEF Spoilt
<1> QED BY <1>1, <1>2, <1>4, <1>5, <1>6, <1>7, <1>8, JobDone

----------------------------------------------------------------------------
(* The theorems *)

\* A view without a page, and no job.
LEMMA InitSound ==
  ASSUME Init
  PROVE  Sound /\ Right
<1>1. /\ view = [page |-> None, ready |-> FALSE, place |-> Whole, bm |-> None,
                 annots |-> None, annotJob |-> None, force |-> FALSE]
      /\ patch = [v \in Patches |-> NoPatch] /\ jobs = <<>> /\ posted = <<>>
      /\ content = [b \in Pool |-> Blank] /\ version = [p \in Pages |-> <<0, 0>>]
  BY DEF Init
<1>2. Now.view = view /\ Now.patch = patch /\ Now.jobs = jobs
      /\ Now = [view |-> view, patch |-> patch, jobs |-> jobs]
  BY DEF Now
<1>3. NoPatch \in PatchRec /\ NoPatch.shown = None /\ NoPatch.inFlight = None /\ NoPatch.active = None
      /\ NoPatch.task = None /\ NoPatch.area = None
  BY DEF NoPatch, PatchRec
<1>4. \A v \in Patches : patch[v] = NoPatch
  BY <1>1
<1>5. view \in View /\ view.page = None /\ view.annotJob = None /\ view.bm = None
  BY <1>1 DEF View, Area
<1>6. patch \in [Patches -> PatchRec] /\ jobs \in Seq(Job) /\ posted \in Seq(Job)
      /\ DOMAIN jobs = {} /\ DOMAIN posted = {}
  BY <1>1, <1>3
<1> HIDE DEF Now, NoPatch
<1>7. Now \in W
  BY <1>2, <1>3, <1>4, <1>5, <1>6 DEF W
<1>8. Ids(jobs, posted)
  BY <1>6 DEF Ids, Distinct
<1>9. Fit(Now, posted) /\ AnnotTask(Now, posted) /\ Idle(Now)
  BY <1>2, <1>3, <1>4, <1>5, <1>6, <1>7, <1>8 DEF Fit, RenderTasks, AnnotTask, Idle
<1>10. InUse(Now, posted) = Pool
  <2>1. \A b : b \in {patch[v].shown : v \in Patches} => b = None
    BY <1>3, <1>4
  <2>2. \A b : b \in {patch[v].inFlight : v \in Patches} => b = None
    BY <1>3, <1>4
  <2>3. None \notin Pool
    BY PageViewAssumption DEF Pool
  <2> QED BY <1>2, <1>5, <1>6, <2>1, <2>2, <2>3 DEF InUse
<1>11. content \in [InUse(Now, posted) -> Content]
  <2>1. Blank \in Content
    BY ErasedIs
  <2> QED BY <1>1, <1>10, <2>1
<1>12. version \in [Pages -> Nat \X Nat]
  BY <1>1
<1>13. Right
  BY <1>2, <1>3, <1>4, <1>5 DEF Right, RightOf, PatchRight
<1> QED BY <1>9, <1>11, <1>12, <1>13 DEF Sound

\* A step that changes nothing.
LEMMA SoundStutters ==
  ASSUME Sound, UNCHANGED vars
  PROVE  Sound' /\ (Right => Right')
<1>1. Now' = Now /\ posted' = posted /\ content' = content /\ version' = version
  BY DEF vars, Now
<1>2. InUse(Now, posted)' = InUse(Now, posted)
  BY <1>1 DEF InUse
<1>3. /\ Fit(Now, posted)' = Fit(Now, posted) /\ AnnotTask(Now, posted)' = AnnotTask(Now, posted)
      /\ Idle(Now)' = Idle(Now)
  BY <1>1 DEF Fit, W, Ids, RenderTasks, Known, Tagged, AnnotTask, Idle
<1>4. Sound'
  BY <1>1, <1>2, <1>3 DEF Sound, Content
<1>5. ASSUME Right PROVE Right'
  BY <1>1, <1>5 DEF Right
<1> QED BY <1>4, <1>5

\* Every step keeps the state sound, and right.
LEMMA StepKeeps ==
  ASSUME Sound, [Next]_vars
  PROVE  Sound' /\ (Right => Right')
<1>1. CASE MainStep
  BY <1>1, MainStepKeeps
<1>2. ASSUME NEW i \in DOMAIN jobs, JobRuns(i) PROVE Sound' /\ (Right => Right')
  BY <1>2, BeginStep, DrawStep, ReadStep DEF JobRuns
<1>3. CASE UNCHANGED vars
  BY <1>3, SoundStutters
<1> QED BY <1>1, <1>2, <1>3 DEF Next, JobStep

\* The places of two sequences one after the other.
LEMMA Placed ==
  ASSUME NEW S, NEW s \in Seq(S), NEW q \in Seq(S), NEW i \in DOMAIN (s \o q)
  PROVE  \/ i \in DOMAIN s /\ (s \o q)[i] = s[i]
         \/ i - Len(s) \in DOMAIN q /\ (s \o q)[i] = q[i - Len(s)]
<1>1. /\ Len(s \o q) = Len(s) + Len(q) /\ Len(s) \in Nat /\ Len(q) \in Nat /\ s \o q \in Seq(S)
      /\ \A k \in 1 .. Len(s) + Len(q) : (s \o q)[k] = IF k <= Len(s) THEN s[k] ELSE q[k - Len(s)]
  BY ConcatProperties
<1> DEFINE t == s \o q
<1> HIDE DEF t
<1>2. i \in 1 .. Len(s) + Len(q) /\ DOMAIN s = 1 .. Len(s) /\ DOMAIN q = 1 .. Len(q)
  <2>1. DOMAIN t = 1 .. Len(s) + Len(q)
    BY <1>1 DEF t
  <2> QED BY <2>1 DEF t
<1>3. i <= Len(s) => i \in DOMAIN s
  BY <1>1, <1>2
<1>4. ~(i <= Len(s)) => i - Len(s) \in DOMAIN q
  BY <1>1, <1>2
<1> QED BY <1>1, <1>2, <1>3, <1>4

\* A sound state has its shape.
LEMMA SoundTyped ==
  ASSUME Sound
  PROVE  TypeOK
<1>1. /\ view \in View /\ patch \in [Patches -> PatchRec] /\ jobs \in Seq(Job) /\ posted \in Seq(Job)
      /\ Ids(jobs, posted)
  BY NowIs
<1>2. ASSUME NEW q \in Seq(Job), NEW i \in DOMAIN q
      PROVE  q[i].id \in Nums /\ q[i].page \in Pages /\ q[i].kind \in {"render", "annots"}
  <2>1. q[i] \in JobRec
    BY DEF Job
  <2> QED BY <2>1 DEF JobRec
<1>3. ASSUME NEW i \in DOMAIN (jobs \o posted), NEW k \in DOMAIN (jobs \o posted),
             (jobs \o posted)[i].id = (jobs \o posted)[k].id
      PROVE  i = k
  <2> DEFINE s == jobs \o posted
             n == Len(jobs)
  <2>1. (i \in DOMAIN jobs /\ s[i] = jobs[i]) \/ (i - n \in DOMAIN posted /\ s[i] = posted[i - n])
    BY <1>1, Placed
  <2>2. (k \in DOMAIN jobs /\ s[k] = jobs[k]) \/ (k - n \in DOMAIN posted /\ s[k] = posted[k - n])
    BY <1>1, Placed
  <2>3. i \in Int /\ k \in Int /\ n \in Int
    <3>1. s \in Seq(Job)
      BY <1>1
    <3> HIDE DEF s
    <3>2. i \in DOMAIN s /\ k \in DOMAIN s
      BY DEF s
    <3> QED BY <1>1, <3>1, <3>2
  <2>4. s[i].id = s[k].id
    BY <1>3
  <2> HIDE DEF s, n
  <2>5. CASE i \in DOMAIN jobs /\ s[i] = jobs[i] /\ k \in DOMAIN jobs /\ s[k] = jobs[k]
    BY <1>1, <2>4, <2>5 DEF Ids, Distinct
  <2>6. CASE i - n \in DOMAIN posted /\ s[i] = posted[i - n] /\ k - n \in DOMAIN posted /\ s[k] = posted[k - n]
    <3>1. i - n = k - n
      BY <1>1, <2>4, <2>6 DEF Ids, Distinct
    <3> QED BY <2>3, <3>1
  <2>7. CASE i \in DOMAIN jobs /\ s[i] = jobs[i] /\ k - n \in DOMAIN posted /\ s[k] = posted[k - n]
    BY <1>1, <2>4, <2>7 DEF Ids
  <2>8. CASE i - n \in DOMAIN posted /\ s[i] = posted[i - n] /\ k \in DOMAIN jobs /\ s[k] = jobs[k]
    BY <1>1, <2>4, <2>8 DEF Ids
  <2> QED BY <2>1, <2>2, <2>5, <2>6, <2>7, <2>8
<1>4. /\ view.page \in Pages \cup {None} /\ view.place \in Area
      /\ view.bm \in (Nums \ Pool) \cup {None} /\ view.annotJob \in Nums \cup {None}
      /\ view.annots \in [page : Pages, version : Nat, late : BOOLEAN] \cup {None}
      /\ view.ready \in BOOLEAN
  BY <1>1 DEF View
<1>5. content \in [InUse(Now, posted) -> Content]
  BY DEF Sound
<1> QED BY <1>1, <1>2, <1>3, <1>4, <1>5 DEF TypeOK, PatchRec, Content

\* When nothing is coming any more, what is right is there.
LEMMA RightSettles ==
  ASSUME Sound, Right
  PROVE  SettlesRight
<1> SUFFICES ASSUME jobs = <<>>, posted = <<>>, view.page # None
             PROVE  EntireDrawn /\ (patch["hq"].area # None => HqDrawn) /\ AnnotsLoaded
  BY DEF SettlesRight
<1>1. Now.view = view /\ Now.patch = patch /\ Now.jobs = jobs /\ DOMAIN jobs = {} /\ DOMAIN posted = {}
  BY NowIs
<1>2. "entire" \in Patches /\ "hq" \in Patches
  BY DEF Patches
<1>3. ASSUME NEW u \in Patches
      PROVE  patch[u].active = None /\ (patch[u].area # None => Settled(Now, content, version, u))
  BY <1>1, <1>3 DEF Right, RightOf, PatchRight, Coming
<1>4. AnnotsRight(Now, posted, version) /\ Redrawn(Now, posted)
  BY <1>1 DEF Right, RightOf
<1>5. AnnotsLoaded
  <2>1. view.annots # None /\ Fresh(view.annots, view.page, version)
    BY <1>1, <1>4 DEF AnnotsRight
  <2>2. view.annots \in [page : Pages, version : Nat, late : BOOLEAN]
    BY <2>1, NowIs DEF View
  <2> QED BY <2>1, <2>2 DEF AnnotsLoaded, Fresh
<1>6. patch["entire"].area # None
  BY <1>1, <1>2, <1>3, <1>4 DEF Redrawn, NoLoads
<1>7. EntireDrawn
  <2>1. Settled(Now, content, version, "entire")
    BY <1>2, <1>3, <1>6
  <2> QED BY <1>1, <2>1 DEF Settled, Current, EntireDrawn
<1>8. ASSUME patch["hq"].area # None PROVE HqDrawn
  <2>1. Settled(Now, content, version, "hq")
    BY <1>2, <1>3, <1>8
  <2> QED BY <1>1, <2>1 DEF Settled, Current, HqDrawn
<1> QED BY <1>5, <1>7, <1>8

\* In every execution the state of the view has its shape: every job has a page,
\* an id of its own and a kind, the bitmaps of the view are numbers the pool has
\* not, and each bitmap in use has a content.
THEOREM PageViewTyped == Spec => []TypeOK
<1>1. Init => Sound
  BY InitSound
<1>2. Sound /\ [Next]_vars => Sound'
  BY StepKeeps
<1>3. Sound => TypeOK
  BY SoundTyped
<1> QED BY <1>1, <1>2, <1>3, PTL DEF Spec

\* Whenever nothing runs and nothing is queued, the view shows its own page as it is
\* now, whole and in the sharper patch, and has its annotations, except for what a
\* job left there that came to the monitor after one launched to replace it; for any
\* number of pages, places, edits and jobs.
THEOREM ViewSettlesRight == Spec => []SettlesRight
<1>1. Init => Sound /\ Right
  BY InitSound
<1>2. Sound /\ Right /\ [Next]_vars => (Sound /\ Right)'
  BY StepKeeps
<1>3. Sound /\ Right => SettlesRight
  BY RightSettles
<1> QED BY <1>1, <1>2, <1>3, PTL DEF Spec
=============================================================================
