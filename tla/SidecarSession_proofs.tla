----------------------- MODULE SidecarSession_proofs -----------------------
(***************************************************************************)
(* Annotations beside a document, for any ids, pages, versions and bundle  *)
(* and stacks of any size: the session's variables have their types; the   *)
(* lists of a session that nothing has disturbed show what is stored; and  *)
(* undo and redo are those of a document (History), which starts anew when *)
(* a session is disturbed and when it is opened.                           *)
(*                                                                         *)
(* Running the primitives of an operation is folding Run over them; an     *)
(* operation is Legal from one document to another when its redo, run on   *)
(* the first, gives the second and each primitive finds what it expects,   *)
(* and its undo leads back.  The invariant says that the two stacks are    *)
(* chains of legal operations that start at the document (Reversible),     *)
(* where the document is what the rows become when the call that runs is   *)
(* over (Leading, Erasing); and that every list that is loaded is the bag  *)
(* of its rows but for the one that the call has still to change (Exact,   *)
(* Placing), and is loaded wherever an operation will look for it (Loaded, *)
(* Warm).                                                                  *)
(***************************************************************************)
EXTENDS SidecarSession, LibraryLemmas

-----------------------------------------------------------------------------
(* Running primitives *)

\* No two annotations of one id.
Distinct(R) == \A r, s \in R : r.id = s.id => r = s

\* What the primitives of a call may be.
Docs == SUBSET Annotation
OnPages == {r \in Annotation : r.page \in Pages}
At(k, p) == {r \in Annotation : Kind(r.id) = k /\ r.page = p}
PrimSet == {p \in [do : {"append", "remove", "replace"}, recs : SUBSET OnPages] :
               /\ p.recs # {} /\ Distinct(p.recs)
               /\ \A r, s \in p.recs : Kind(r.id) = Kind(s.id) /\ r.page = s.page}

\* A primitive leaves a set of annotations.
LEMMA RunType ==
  ASSUME NEW R \in Docs, NEW p \in PrimSet
  PROVE  Run(R, p) \in Docs
  BY DEF Run, Docs, PrimSet, OnPages, Deleted, Inserted

\* f is what prims lead to one after the other, from R.
Runs(R, prims, f) == f[0] = R /\ \A i \in 1..Len(prims) : f[i] = Run(f[i - 1], prims[i])

\* Whatever the primitives, they lead somewhere.
LEMMA RunsExist ==
  ASSUME NEW R \in Docs, NEW prims \in Seq(PrimSet)
  PROVE  \E f \in [0..Len(prims) -> Docs] :
            Runs(R, prims, f) /\ RowsAfter(R, prims) = f[Len(prims)]
<1> DEFINE n == Len(prims)
           g == [i \in 1..n |-> [D \in Docs |-> Run(D, prims[i])]]
           step(f) == [i \in 0..n |-> IF i = 0 THEN R ELSE Run(f[i - 1], prims[i])]
           after == CHOOSE f : f = step(f)
<1>1. n \in Nat /\ \A i \in 1..n : prims[i] \in PrimSet
  OBVIOUS
<1>2. RowsAfter(R, prims) = after[n]
  BY DEF RowsAfter
<1> HIDE DEF n
<1>3. g \in [1..n -> [Docs -> Docs]]
  BY <1>1, RunType
<1>4. PICK f \in [0..n -> Docs] : Iterates(f, n, R, g)
  BY <1>1, <1>3, Recursion
<1>5. f[0] = R /\ \A i \in 1..n : f[i] = Run(f[i - 1], prims[i])
  <2>1. ASSUME NEW i \in 1..n PROVE f[i] = Run(f[i - 1], prims[i])
    <3>1. i - 1 \in 0..n
      BY <1>1
    <3>2. f[i] = g[i][f[i - 1]] /\ f[i - 1] \in Docs
      BY <1>4, <3>1 DEF Iterates
    <3> QED BY <3>2
  <2> QED BY <1>4, <2>1 DEF Iterates
<1>6. f = step(f)
  <2>1. ASSUME NEW i \in 0..n PROVE f[i] = step(f)[i]
    <3>1. CASE i = 0
      BY <1>5, <3>1
    <3>2. CASE i # 0
      <4>1. i \in 1..n
        BY <1>1, <3>2
      <4> QED BY <1>5, <4>1
    <3> QED BY <3>1, <3>2
  <2>2. DOMAIN step(f) = 0..n
    OBVIOUS
  <2> QED BY <1>4, <2>1, <2>2
<1>7. after = step(after)
  BY <1>6
<1> HIDE DEF after
<1>8. /\ after[0] = R
      /\ \A i \in 1..n : after[i] = Run(after[i - 1], prims[i])
  <2>1. 0 \in 0..n /\ \A i \in 1..n : i \in 0..n /\ i # 0
    BY <1>1
  <2> QED BY <1>7, <2>1
<1>9. \A i \in 0..n : after[i] \in Docs
  <2> DEFINE T == {i \in 0..n : after[i] \in Docs}
  <2>1. 0 \in T
    BY <1>1, <1>8
  <2>2. ASSUME NEW i \in 1..n, i - 1 \in T PROVE i \in T
    BY <1>1, <1>8, <2>2, RunType
  <2> HIDE DEF T
  <2>3. \A i \in 0..n : i \in T
    BY <1>1, <2>1, <2>2, Climb
  <2> QED BY <2>3 DEF T
<1>10. after \in [0..n -> Docs]
  <2>1. DOMAIN step(after) = 0..n /\ step(after) = [i \in DOMAIN step(after) |-> step(after)[i]]
    OBVIOUS
  <2> HIDE DEF step
  <2>2. DOMAIN after = 0..n /\ after = [i \in DOMAIN after |-> after[i]]
    BY <1>7, <2>1
  <2> QED BY <1>9, <2>2
<1> QED BY <1>2, <1>8, <1>10 DEF Runs, n

\* They lead to one place.
LEMMA RunsAgree ==
  ASSUME NEW R, NEW prims, Len(prims) \in Nat, NEW f, Runs(R, prims, f), NEW g, Runs(R, prims, g)
  PROVE  \A i \in 0..Len(prims) : f[i] = g[i]
<1> DEFINE T == {i \in 0..Len(prims) : f[i] = g[i]}
<1>1. 0 \in T
  BY DEF Runs
<1>2. ASSUME NEW i \in 1..Len(prims), i - 1 \in T PROVE i \in T
  BY <1>2 DEF Runs
<1> HIDE DEF T
<1>3. \A i \in 0..Len(prims) : i \in T
  BY <1>1, <1>2, Climb
<1> QED BY <1>3 DEF T

\* What RowsAfter computes.
LEMMA AfterIs ==
  ASSUME NEW R \in Docs, NEW prims \in Seq(PrimSet), NEW f, Runs(R, prims, f)
  PROVE  RowsAfter(R, prims) = f[Len(prims)]
<1>1. PICK g \in [0..Len(prims) -> Docs] :
         Runs(R, prims, g) /\ RowsAfter(R, prims) = g[Len(prims)]
  BY RunsExist
<1>2. Len(prims) \in Nat
  OBVIOUS
<1>3. \A i \in 0..Len(prims) : f[i] = g[i]
  BY <1>1, <1>2, RunsAgree
<1> QED BY <1>1, <1>2, <1>3

\* Running the first primitive, and then the rest.
LEMMA RunsTail ==
  ASSUME NEW R, NEW prims \in Seq(PrimSet), prims # <<>>, NEW f, Runs(R, prims, f)
  PROVE  /\ f[1] = Run(R, Head(prims))
         /\ Runs(f[1], Tail(prims), [i \in 0..Len(prims) - 1 |-> f[i + 1]])
<1> DEFINE n == Len(prims)
           h == [i \in 0..n - 1 |-> f[i + 1]]
<1>1. /\ Head(prims) = prims[1] /\ Len(Tail(prims)) = n - 1 /\ n \in Nat \ {0}
      /\ \A i \in 1..n - 1 : Tail(prims)[i] = prims[i + 1]
  BY TailIs
<1>2. f[0] = R /\ \A i \in 1..n : f[i] = Run(f[i - 1], prims[i])
  BY DEF Runs
<1> HIDE DEF n
<1>3. f[1] = Run(R, prims[1])
  BY <1>1, <1>2
<1>4. ASSUME NEW i \in 1..n - 1 PROVE h[i] = Run(h[i - 1], Tail(prims)[i])
  <2>1. /\ i \in 0..n - 1 /\ i - 1 \in 0..n - 1 /\ i + 1 \in 1..n
        /\ (i + 1) - 1 = i /\ (i - 1) + 1 = i
    BY <1>1
  <2>2. h[i] = f[i + 1] /\ h[i - 1] = f[i]
    BY <2>1
  <2> HIDE DEF h
  <2>3. f[i + 1] = Run(f[i], prims[i + 1])
    BY <1>2, <2>1
  <2> QED BY <1>1, <2>2, <2>3
<1>5. h[0] = f[1]
  BY <1>1
<1> QED BY <1>1, <1>3, <1>4, <1>5 DEF Runs, n

\* RowsAfter runs the first primitive, and then the rest.
LEMMA AfterHead ==
  ASSUME NEW R \in Docs, NEW prims \in Seq(PrimSet), prims # <<>>
  PROVE  RowsAfter(R, prims) = RowsAfter(Run(R, Head(prims)), Tail(prims))
<1>1. PICK f \in [0..Len(prims) -> Docs] :
         Runs(R, prims, f) /\ RowsAfter(R, prims) = f[Len(prims)]
  BY RunsExist
<1> DEFINE h == [i \in 0..Len(prims) - 1 |-> f[i + 1]]
<1>2. f[1] = Run(R, Head(prims)) /\ Runs(f[1], Tail(prims), h)
  BY <1>1, RunsTail
<1>3. /\ Head(prims) \in PrimSet /\ Tail(prims) \in Seq(PrimSet)
      /\ Len(Tail(prims)) = Len(prims) - 1 /\ Len(prims) \in Nat \ {0}
  BY TailIs
<1>4. h[Len(prims) - 1] = f[Len(prims)]
  BY <1>3
<1> HIDE DEF h
<1>5. f[1] \in Docs
  BY <1>2, <1>3, RunType
<1>6. RowsAfter(f[1], Tail(prims)) = h[Len(prims) - 1]
  BY <1>2, <1>3, <1>5, AfterIs
<1> QED BY <1>1, <1>2, <1>4, <1>6

\* RowsAfter of no primitive.
LEMMA AfterNothing == ASSUME NEW R \in Docs PROVE RowsAfter(R, <<>>) = R
<1>1. <<>> \in Seq(PrimSet) /\ Len(<<>>) = 0
  OBVIOUS
<1>2. Runs(R, <<>>, [i \in {0} |-> R])
  BY <1>1 DEF Runs
<1> QED BY <1>1, <1>2, AfterIs

\* RowsAfter leaves a set of annotations.
LEMMA AfterType ==
  ASSUME NEW R \in Docs, NEW prims \in Seq(PrimSet)
  PROVE  RowsAfter(R, prims) \in Docs
<1>1. Len(prims) \in Nat
  OBVIOUS
<1> QED BY <1>1, RunsExist

\* The primitive p, of one annotation, finds in R what it expects: the one to
\* remove is there, the one to append is not, and one to replace is on the same
\* page.
Fits(R, p) ==
    \E r \in OnPages :
        /\ p.recs = {r}
        /\ \/ p.do = "remove" /\ r \in R
           \/ p.do = "append" /\ \A q \in R : q.id # r.id
           \/ p.do = "replace" /\ r.id \in Notes /\ \A q \in R : q.id = r.id => q.page = r.page

\* The primitives lead from R to D, and each finds what it expects.
Leads(R, prims, D) ==
    \E f : /\ Runs(R, prims, f) /\ f[Len(prims)] = D
           /\ \A i \in 1..Len(prims) : Fits(f[i - 1], prims[i])

\* No primitive leads nowhere.
LEMMA LeadsNothing == ASSUME NEW R PROVE Leads(R, <<>>, R)
<1>1. Len(<<>>) = 0
  OBVIOUS
<1>2. Runs(R, <<>>, [i \in {0} |-> R]) /\ [i \in {0} |-> R][0] = R
  BY <1>1 DEF Runs
<1> QED BY <1>1, <1>2 DEF Leads

\* What Leads says of the first primitive and of the rest.
LEMMA LeadsHead ==
  ASSUME NEW R, NEW prims \in Seq(PrimSet), prims # <<>>, NEW D, Leads(R, prims, D)
  PROVE  Fits(R, Head(prims)) /\ Leads(Run(R, Head(prims)), Tail(prims), D)
<1>1. PICK f : /\ Runs(R, prims, f) /\ f[Len(prims)] = D
               /\ \A i \in 1..Len(prims) : Fits(f[i - 1], prims[i])
  BY DEF Leads
<1> DEFINE h == [i \in 0..Len(prims) - 1 |-> f[i + 1]]
<1>2. f[1] = Run(R, Head(prims)) /\ Runs(f[1], Tail(prims), h)
  BY <1>1, RunsTail
<1>3. /\ Head(prims) = prims[1] /\ Len(Tail(prims)) = Len(prims) - 1 /\ Len(prims) \in Nat \ {0}
      /\ \A i \in 1..Len(prims) - 1 : Tail(prims)[i] = prims[i + 1]
  BY TailIs
<1>4. h[Len(prims) - 1] = D
  BY <1>1, <1>3
<1>5. ASSUME NEW i \in 1..Len(prims) - 1 PROVE Fits(h[i - 1], Tail(prims)[i])
  <2>1. i - 1 \in 0..Len(prims) - 1 /\ (i - 1) + 1 = i /\ i + 1 \in 1..Len(prims) /\ (i + 1) - 1 = i
    BY <1>3
  <2>2. h[i - 1] = f[i]
    BY <2>1
  <2> HIDE DEF h
  <2>3. Fits(f[i], prims[i + 1])
    BY <1>1, <2>1
  <2> QED BY <1>3, <2>2, <2>3
<1> HIDE DEF h
<1>6. Fits(R, Head(prims))
  <2>1. 1 \in 1..Len(prims) /\ 1 - 1 = 0 /\ f[0] = R
    BY <1>1, <1>3 DEF Runs
  <2> QED BY <1>1, <1>3, <2>1
<1> QED BY <1>2, <1>3, <1>4, <1>5, <1>6 DEF Leads

\* One more primitive before the others.
LEMMA LeadsFront ==
  ASSUME NEW R, NEW p \in PrimSet, Fits(R, p), NEW prims \in Seq(PrimSet), NEW D,
         Leads(Run(R, p), prims, D)
  PROVE  Leads(R, <<p>> \o prims, D)
<1>1. PICK f : /\ Runs(Run(R, p), prims, f) /\ f[Len(prims)] = D
               /\ \A i \in 1..Len(prims) : Fits(f[i - 1], prims[i])
  BY DEF Leads
<1> DEFINE t == <<p>> \o prims
           n == Len(prims) + 1
           h == [i \in 0..n |-> IF i = 0 THEN R ELSE f[i - 1]]
<1>2. t \in Seq(PrimSet) /\ Len(t) = n /\ t[1] = p /\ \A i \in 2..n : t[i] = prims[i - 1]
  BY FrontIs
<1>3. Len(prims) \in Nat
  OBVIOUS
<1> HIDE DEF t
<1>4. h[0] = R /\ \A i \in 1..n : h[i] = f[i - 1]
  BY <1>3
<1> HIDE DEF h
<1>5. f[0] = Run(R, p) /\ \A i \in 1..Len(prims) : f[i] = Run(f[i - 1], prims[i])
  BY <1>1 DEF Runs
<1>6. ASSUME NEW i \in 1..n PROVE h[i] = Run(h[i - 1], t[i]) /\ Fits(h[i - 1], t[i])
  <2>1. CASE i = 1
    <3>1. h[1] = f[0] /\ h[0] = R /\ t[1] = p
      BY <1>2, <1>3, <1>4
    <3> QED BY <1>5, <2>1, <3>1
  <2>2. CASE i # 1
    <3>1. i \in 2..n /\ i - 1 \in 1..Len(prims) /\ i - 1 \in 1..n
      BY <1>3, <2>2
    <3>2. h[i] = f[i - 1] /\ h[i - 1] = f[(i - 1) - 1] /\ t[i] = prims[i - 1]
      BY <1>2, <1>4, <3>1
    <3> QED BY <1>1, <1>5, <3>1, <3>2
  <2> QED BY <2>1, <2>2
<1>7. h[n] = D
  <2>1. n \in 1..n /\ n - 1 = Len(prims)
    BY <1>3
  <2> QED BY <1>1, <1>4, <2>1
<1>8. Runs(R, t, h) /\ h[Len(t)] = D /\ \A i \in 1..Len(t) : Fits(h[i - 1], t[i])
  BY <1>2, <1>4, <1>6, <1>7 DEF Runs
<1>9. Leads(R, t, D)
  BY <1>8 DEF Leads
<1> QED BY <1>9 DEF t

\* One more primitive after the others.
LEMMA LeadsBack ==
  ASSUME NEW R, NEW prims \in Seq(PrimSet), NEW D, Leads(R, prims, D),
         NEW p \in PrimSet, Fits(D, p)
  PROVE  Leads(R, Append(prims, p), Run(D, p))
<1>1. PICK f : /\ Runs(R, prims, f) /\ f[Len(prims)] = D
               /\ \A i \in 1..Len(prims) : Fits(f[i - 1], prims[i])
  BY DEF Leads
<1> DEFINE t == Append(prims, p)
           n == Len(prims) + 1
           h == [i \in 0..n |-> IF i = n THEN Run(D, p) ELSE f[i]]
<1>2. Len(t) = n /\ t[n] = p /\ \A i \in 1..Len(prims) : t[i] = prims[i]
  OBVIOUS
<1>3. Len(prims) \in Nat
  OBVIOUS
<1> HIDE DEF t
<1>4. h[n] = Run(D, p) /\ \A i \in 0..Len(prims) : h[i] = f[i]
  BY <1>3
<1> HIDE DEF h
<1>5. f[0] = R /\ \A i \in 1..Len(prims) : f[i] = Run(f[i - 1], prims[i])
  BY <1>1 DEF Runs
<1>6. ASSUME NEW i \in 1..n PROVE h[i] = Run(h[i - 1], t[i]) /\ Fits(h[i - 1], t[i])
  <2>1. CASE i = n
    <3>1. h[i - 1] = D
      BY <1>1, <1>3, <1>4, <2>1
    <3> QED BY <1>2, <1>4, <2>1, <3>1
  <2>2. CASE i # n
    <3>1. i \in 1..Len(prims) /\ i - 1 \in 0..Len(prims) /\ i \in 0..Len(prims)
      BY <1>3, <2>2
    <3> QED BY <1>1, <1>2, <1>4, <1>5, <3>1
  <2> QED BY <2>1, <2>2
<1>7. h[0] = R
  BY <1>3, <1>4, <1>5
<1>8. Runs(R, t, h) /\ h[Len(t)] = Run(D, p) /\ \A i \in 1..Len(t) : Fits(h[i - 1], t[i])
  BY <1>2, <1>4, <1>6, <1>7 DEF Runs
<1>9. Leads(R, t, Run(D, p))
  BY <1>8 DEF Leads
<1> QED BY <1>9 DEF t

\* One primitive.
LEMMA LeadsOne ==
  ASSUME NEW R, NEW p \in PrimSet, Fits(R, p)
  PROVE  Leads(R, <<p>>, Run(R, p))
<1>1. <<>> \in Seq(PrimSet) /\ Append(<<>>, p) = <<p>>
  OBVIOUS
<1> QED BY <1>1, LeadsNothing, LeadsBack

\* Where they lead is what RowsAfter computes.
LEMMA LeadsAfter ==
  ASSUME NEW R \in Docs, NEW prims \in Seq(PrimSet), NEW D, Leads(R, prims, D)
  PROVE  RowsAfter(R, prims) = D
  BY AfterIs DEF Leads

-----------------------------------------------------------------------------
(* The documents that operations lead to *)

OpsSet == Seq(Seq(PrimSet))

\* h is what ops lead to one after the other, from D.
Visits(D, ops, h) == h[0] = D /\ \A i \in 1..Len(ops) : h[i] = RowsAfter(h[i - 1], ops[i])

\* Whatever the operations, they lead somewhere.
LEMMA VisitsExist ==
  ASSUME NEW D \in Docs, NEW ops \in OpsSet
  PROVE  \E h \in [0..Len(ops) -> Docs] :
            Visits(D, ops, h) /\ Along(D, ops) = [i \in 1..Len(ops) |-> h[i]]
<1> DEFINE n == Len(ops)
           g == [i \in 1..n |-> [E \in Docs |-> RowsAfter(E, ops[i])]]
           step(f) == [i \in 0..n |-> IF i = 0 THEN D ELSE RowsAfter(f[i - 1], ops[i])]
           after == CHOOSE f : f = step(f)
<1>1. n \in Nat /\ DOMAIN ops = 1..n /\ \A i \in 1..n : ops[i] \in Seq(PrimSet)
  BY DEF OpsSet
<1>2. Along(D, ops) = [i \in 1..n |-> after[i]]
  BY <1>1 DEF Along
<1> HIDE DEF n
<1>3. g \in [1..n -> [Docs -> Docs]]
  BY <1>1, AfterType
<1>4. PICK f \in [0..n -> Docs] : Iterates(f, n, D, g)
  BY <1>1, <1>3, Recursion
<1>5. f[0] = D /\ \A i \in 1..n : f[i] = RowsAfter(f[i - 1], ops[i])
  <2>1. ASSUME NEW i \in 1..n PROVE f[i] = RowsAfter(f[i - 1], ops[i])
    <3>1. i - 1 \in 0..n
      BY <1>1
    <3>2. f[i] = g[i][f[i - 1]] /\ f[i - 1] \in Docs
      BY <1>4, <3>1 DEF Iterates
    <3> QED BY <3>2
  <2> QED BY <1>4, <2>1 DEF Iterates
<1>6. f = step(f)
  <2>1. ASSUME NEW i \in 0..n PROVE f[i] = step(f)[i]
    <3>1. CASE i = 0
      BY <1>5, <3>1
    <3>2. CASE i # 0
      <4>1. i \in 1..n
        BY <1>1, <3>2
      <4> QED BY <1>5, <4>1
    <3> QED BY <3>1, <3>2
  <2>2. DOMAIN step(f) = 0..n
    OBVIOUS
  <2> QED BY <1>4, <2>1, <2>2
<1>7. after = step(after)
  BY <1>6
<1> HIDE DEF after
<1>8. /\ after[0] = D
      /\ \A i \in 1..n : after[i] = RowsAfter(after[i - 1], ops[i])
  <2>1. 0 \in 0..n /\ \A i \in 1..n : i \in 0..n /\ i # 0
    BY <1>1
  <2> QED BY <1>7, <2>1
<1>9. \A i \in 0..n : after[i] \in Docs
  <2> DEFINE T == {i \in 0..n : after[i] \in Docs}
  <2>1. 0 \in T
    BY <1>1, <1>8
  <2>2. ASSUME NEW i \in 1..n, i - 1 \in T PROVE i \in T
    BY <1>1, <1>8, <2>2, AfterType
  <2> HIDE DEF T
  <2>3. \A i \in 0..n : i \in T
    BY <1>1, <2>1, <2>2, Climb
  <2> QED BY <2>3 DEF T
<1>10. after \in [0..n -> Docs]
  <2>1. DOMAIN step(after) = 0..n /\ step(after) = [i \in DOMAIN step(after) |-> step(after)[i]]
    OBVIOUS
  <2> HIDE DEF step
  <2>2. DOMAIN after = 0..n /\ after = [i \in DOMAIN after |-> after[i]]
    BY <1>7, <2>1
  <2> QED BY <1>9, <2>2
<1> QED BY <1>2, <1>8, <1>10 DEF Visits, n

\* They lead to one place.
LEMMA VisitsAgree ==
  ASSUME NEW D, NEW ops, Len(ops) \in Nat, NEW f, Visits(D, ops, f), NEW g, Visits(D, ops, g)
  PROVE  \A i \in 0..Len(ops) : f[i] = g[i]
<1> DEFINE T == {i \in 0..Len(ops) : f[i] = g[i]}
<1>1. 0 \in T
  BY DEF Visits
<1>2. ASSUME NEW i \in 1..Len(ops), i - 1 \in T PROVE i \in T
  BY <1>2 DEF Visits
<1> HIDE DEF T
<1>3. \A i \in 0..Len(ops) : i \in T
  BY <1>1, <1>2, Climb
<1> QED BY <1>3 DEF T

\* What Along computes.
LEMMA AlongIs ==
  ASSUME NEW D \in Docs, NEW ops \in OpsSet, NEW h, Visits(D, ops, h)
  PROVE  /\ Along(D, ops) \in Seq(Docs) /\ Len(Along(D, ops)) = Len(ops)
         /\ \A i \in 1..Len(ops) : Along(D, ops)[i] = h[i]
<1>1. PICK g \in [0..Len(ops) -> Docs] :
         Visits(D, ops, g) /\ Along(D, ops) = [i \in 1..Len(ops) |-> g[i]]
  BY VisitsExist
<1>2. Len(ops) \in Nat
  BY DEF OpsSet
<1>3. \A i \in 0..Len(ops) : h[i] = g[i]
  BY <1>1, <1>2, VisitsAgree
<1>4. /\ Along(D, ops) \in Seq(Docs) /\ Len(Along(D, ops)) = Len(ops)
      /\ \A i \in 1..Len(ops) : Along(D, ops)[i] = g[i]
  BY <1>1, <1>2
<1> QED BY <1>2, <1>3, <1>4

\* Along no operation there is nothing.
LEMMA AlongNothing == ASSUME NEW D \in Docs PROVE Along(D, <<>>) = <<>>
<1>1. <<>> \in OpsSet /\ Len(<<>>) = 0
  BY DEF OpsSet
<1>2. Visits(D, <<>>, [i \in {0} |-> D])
  BY <1>1 DEF Visits
<1> QED BY <1>1, <1>2, AlongIs

\* Along the first operation, and then along the rest.
LEMMA AlongHead ==
  ASSUME NEW D \in Docs, NEW ops \in OpsSet, ops # <<>>
  PROVE  LET E == RowsAfter(D, Head(ops))
         IN  E \in Docs /\ Along(D, ops) = <<E>> \o Along(E, Tail(ops))
<1> DEFINE E == RowsAfter(D, Head(ops))
           n == Len(ops)
<1>1. /\ Head(ops) \in Seq(PrimSet) /\ Head(ops) = ops[1] /\ Tail(ops) \in OpsSet
      /\ Len(Tail(ops)) = n - 1 /\ n \in Nat \ {0} /\ ops \in Seq(Seq(PrimSet))
      /\ \A i \in 1..n - 1 : Tail(ops)[i] = ops[i + 1]
  BY TailIs DEF OpsSet
<1>2. E \in Docs
  BY <1>1, AfterType
<1>3. PICK f \in [0..n -> Docs] : Visits(D, ops, f)
  BY VisitsExist
<1> DEFINE h == [i \in 0..n - 1 |-> f[i + 1]]
<1> HIDE DEF n
<1>4. f[0] = D /\ \A i \in 1..n : f[i] = RowsAfter(f[i - 1], ops[i])
  BY <1>3 DEF Visits, n
<1>5. f[1] = E
  <2>1. 1 \in 1..n /\ 1 - 1 = 0
    BY <1>1
  <2> QED BY <1>1, <1>4, <2>1
<1> HIDE DEF E
<1>6. ASSUME NEW i \in 1..n - 1 PROVE h[i] = RowsAfter(h[i - 1], Tail(ops)[i])
  <2>1. /\ i \in 0..n - 1 /\ i - 1 \in 0..n - 1 /\ i + 1 \in 1..n
        /\ (i + 1) - 1 = i /\ (i - 1) + 1 = i
    BY <1>1
  <2>2. h[i] = f[i + 1] /\ h[i - 1] = f[i]
    BY <2>1
  <2> HIDE DEF h
  <2>3. f[i + 1] = RowsAfter(f[i], ops[i + 1])
    BY <1>4, <2>1
  <2> QED BY <1>1, <2>2, <2>3
<1>7. h[0] = E
  BY <1>1, <1>5
<1>8. \A i \in 1..n - 1 : h[i] = f[i + 1]
  BY <1>1
<1> HIDE DEF h
<1>9. Visits(E, Tail(ops), h)
  BY <1>1, <1>6, <1>7 DEF Visits
<1> DEFINE a == Along(D, ops)
           b == Along(E, Tail(ops))
<1>10. a \in Seq(Docs) /\ Len(a) = n /\ \A i \in 1..n : a[i] = f[i]
  BY <1>3, AlongIs DEF n
<1>11. b \in Seq(Docs) /\ Len(b) = n - 1 /\ \A i \in 1..n - 1 : b[i] = h[i]
  <2>1. /\ b \in Seq(Docs) /\ Len(b) = Len(Tail(ops))
        /\ \A i \in 1..Len(Tail(ops)) : b[i] = h[i]
    BY ONLY <1>1, <1>2, <1>9, AlongIs
  <2> QED BY <1>1, <2>1
<1> HIDE DEF a, b
<1> DEFINE c == <<E>> \o b
<1>12. c \in Seq(Docs) /\ Len(c) = n /\ c[1] = E /\ \A i \in 2..n : c[i] = b[i - 1]
  BY <1>1, <1>2, <1>11, FrontIs
<1> HIDE DEF c
<1>13. ASSUME NEW i \in 1..n PROVE a[i] = c[i]
  <2>1. CASE i = 1
    BY <1>1, <1>5, <1>10, <1>12, <2>1
  <2>2. CASE i # 1
    <3>1. i \in 2..n /\ i - 1 \in 1..n - 1 /\ (i - 1) + 1 = i
      BY <1>1, <2>2
    <3> QED BY <1>8, <1>10, <1>11, <1>12, <3>1
  <2> QED BY <2>1, <2>2
<1>14. a = c
  <2>1. Len(a) = Len(c) /\ \A i \in 1..Len(a) : a[i] = c[i]
    BY <1>10, <1>12, <1>13
  <2> QED BY <1>10, <1>12, <2>1, SeqEqual
<1> QED BY <1>2, <1>14 DEF a, b, c, E

-----------------------------------------------------------------------------
(* Lists without duplicates, as bags *)

\* The bag of a set.
LEMMA BagOf ==
  ASSUME NEW R
  PROVE  /\ DOMAIN SetToBag(R) = R /\ \A r \in R : SetToBag(R)[r] = 1
         /\ IsABag(SetToBag(R))
  BY DEF SetToBag, IsABag

\* No list is no bag.
LEMMA BagIsList == ASSUME NEW R \in Docs PROVE SetToBag(R) # None
  BY AnnotationAssumption DEF Docs

\* One more element.
LEMMA BagAddIs ==
  ASSUME NEW R, NEW x, x \notin R
  PROVE  BagAdd(SetToBag(R), x) = SetToBag(R \cup {x})
  BY DEF SetToBag, BagAdd

\* One element less.
LEMMA BagRemoveIs ==
  ASSUME NEW R, NEW x \in R
  PROVE  BagRemove(SetToBag(R), x) = SetToBag(R \ {x})
  BY DEF SetToBag, BagRemove

\* More elements.
LEMMA BagCupIs ==
  ASSUME NEW R, NEW S, R \cap S = {}
  PROVE  SetToBag(R) (+) SetToBag(S) = SetToBag(R \cup S)
  BY DEF SetToBag, (+)

\* The entries of one id.
LEMMA MatchesAre ==
  ASSUME NEW R, NEW id
  PROVE  Matches(SetToBag(R), id) = {r \in R : r.id = id}
  BY BagOf DEF Matches

\* A note put into a list that has no other of its id, or one that gives way.
LEMMA WithNoteIs ==
  ASSUME NEW R \in Docs, Distinct(R), NEW note \in Annotation
  PROVE  WithNote(SetToBag(R), note) = SetToBag(Inserted(R, {note}))
<1> DEFINE M == {r \in R : r.id = note.id}
           N == {r \in R : r.id # note.id}
<1>1. Matches(SetToBag(R), note.id) = M
  BY MatchesAre
<1>2. Inserted(R, {note}) = N \cup {note} /\ note \notin N
  BY DEF Inserted
<1>3. CASE M = {}
  <2>1. R = N
    BY <1>3
  <2>2. WithNote(SetToBag(R), note) = BagAdd(SetToBag(R), note)
    BY <1>1, <1>3 DEF WithNote
  <2> QED BY <1>2, <2>1, <2>2, BagAddIs
<1>4. CASE M # {}
  <2> DEFINE old == CHOOSE r \in M : TRUE
  <2>1. old \in M
    BY <1>4
  <2>2. WithNote(SetToBag(R), note) = BagAdd(BagRemove(SetToBag(R), old), note)
    BY <1>1, <1>4 DEF WithNote
  <2> HIDE DEF old
  <2>3. R \ {old} = N /\ old \in R
    BY <2>1 DEF Distinct
  <2>4. BagRemove(SetToBag(R), old) = SetToBag(N)
    BY <2>3, BagRemoveIs
  <2> HIDE DEF N
  <2>5. BagAdd(SetToBag(N), note) = SetToBag(N \cup {note})
    BY <1>2, BagAddIs
  <2> QED BY <1>2, <2>2, <2>4, <2>5
<1> QED BY <1>3, <1>4

-----------------------------------------------------------------------------
(* The primitives of the four operations *)

\* What a primitive does to a set without two annotations of one id.
LEMMA RunIs ==
  ASSUME NEW R \in Docs, Distinct(R), NEW r \in OnPages
  PROVE  /\ Remove1(r) \in PrimSet /\ Append1(r) \in PrimSet
         /\ r \in R => Run(R, Remove1(r)) = R \ {r} /\ Fits(R, Remove1(r))
         /\ (\A q \in R : q.id # r.id) =>
               Run(R, Append1(r)) = R \cup {r} /\ Fits(R, Append1(r))
<1> DEFINE a == Append1(r)
           d == Remove1(r)
<1>1. /\ a.recs = {r} /\ a.do \in {"append", "replace"} /\ (a.do = "replace" => r.id \in Notes)
      /\ a \in [do : {"append", "remove", "replace"}, recs : SUBSET OnPages]
  BY DEF Append1
<1>2. d.recs = {r} /\ d.do = "remove" /\ d \in [do : {"append", "remove", "replace"}, recs : SUBSET OnPages]
  BY DEF Remove1
<1> HIDE DEF a, d
<1>3. a \in PrimSet /\ d \in PrimSet
  BY <1>1, <1>2 DEF PrimSet, Distinct
<1>4. ASSUME r \in R
      PROVE  Run(R, d) = R \ {r} /\ Fits(R, d)
  <2>1. Run(R, d) = Deleted(R, {r})
    BY <1>2 DEF Run
  <2>2. Deleted(R, {r}) = R \ {r}
    BY <1>4 DEF Deleted, Distinct
  <2> QED BY <1>2, <1>4, <2>1, <2>2 DEF Fits
<1>5. ASSUME \A q \in R : q.id # r.id
      PROVE  Run(R, a) = R \cup {r} /\ Fits(R, a)
  <2>1. Run(R, a) = Inserted(R, {r})
    BY <1>1 DEF Run
  <2>2. Inserted(R, {r}) = R \cup {r}
    BY <1>5 DEF Inserted
  <2> QED BY <1>1, <1>5, <2>1, <2>2 DEF Fits
<1> QED BY <1>3, <1>4, <1>5 DEF a, d

\* The annotations of s are new to D, on pages, and no two have one id.
NewTo(D, s) ==
    /\ s \in Seq(OnPages)
    /\ \A i, j \in 1..Len(s) : s[i].id = s[j].id => i = j
    /\ \A i \in 1..Len(s) : \A q \in D : q.id # s[i].id

\* The primitives of each annotation of a sequence.
LEMMA EachIs ==
  ASSUME NEW s \in Seq(OnPages)
  PROVE  /\ Each(Remove1, s) \in Seq(PrimSet) /\ Each(Append1, s) \in Seq(PrimSet)
         /\ Len(Each(Remove1, s)) = Len(s) /\ Len(Each(Append1, s)) = Len(s)
         /\ \A i \in 1..Len(s) : Each(Remove1, s)[i] = Remove1(s[i]) /\ Each(Append1, s)[i] = Append1(s[i])
<1>1. DOMAIN s = 1..Len(s) /\ Len(s) \in Nat /\ \A i \in 1..Len(s) : s[i] \in OnPages
  OBVIOUS
<1>2. ASSUME NEW r \in OnPages PROVE Remove1(r) \in PrimSet /\ Append1(r) \in PrimSet
  <2>1. {} \in Docs /\ Distinct({})
    BY DEF Docs, Distinct
  <2> QED BY <2>1, RunIs
<1>3. /\ Each(Remove1, s) = [i \in 1..Len(s) |-> Remove1(s[i])]
      /\ Each(Append1, s) = [i \in 1..Len(s) |-> Append1(s[i])]
  BY <1>1 DEF Each
<1>4. /\ \A i \in 1..Len(s) : Remove1(s[i]) \in PrimSet
      /\ \A i \in 1..Len(s) : Append1(s[i]) \in PrimSet
  BY <1>1, <1>2
<1>5. Each(Remove1, s) \in Seq(PrimSet) /\ Len(Each(Remove1, s)) = Len(s)
  BY <1>1, <1>3, <1>4
<1>6. Each(Append1, s) \in Seq(PrimSet) /\ Len(Each(Append1, s)) = Len(s)
  BY <1>1, <1>3, <1>4
<1> QED BY <1>3, <1>5, <1>6

\* A set of annotations stays one without two of one id when new ones are added.
LEMMA NewDistinct ==
  ASSUME NEW D \in Docs, Distinct(D), NEW s, NewTo(D, s), NEW I \in SUBSET 1..Len(s)
  PROVE  /\ D \cup {s[i] : i \in I} \in Docs
         /\ Distinct(D \cup {s[i] : i \in I})
<1>1. \A i \in I : s[i] \in OnPages
  BY DEF NewTo
<1> QED BY <1>1 DEF NewTo, Docs, Distinct, OnPages

\* Added ones are removed one after the other, and appended again.
LEMMA AddedLeads ==
  ASSUME NEW D \in Docs, Distinct(D), NEW s, NewTo(D, s)
  PROVE  /\ Leads(D \cup ToSet(s), Each(Remove1, s), D)
         /\ Leads(D, Each(Append1, s), D \cup ToSet(s))
<1> DEFINE n == Len(s)
           down == [i \in 0..n |-> D \cup {s[j] : j \in i + 1 .. n}]
           up == [i \in 0..n |-> D \cup {s[j] : j \in 1 .. i}]
<1>1. s \in Seq(OnPages) /\ n \in Nat /\ DOMAIN s = 1..n /\ \A i \in 1..n : s[i] \in OnPages
  BY DEF NewTo
<1>2. ToSet(s) = {s[j] : j \in 1..n}
  BY <1>1 DEF ToSet
<1> HIDE DEF n
<1>3. ASSUME NEW i \in 1..n
      PROVE  down[i] = Run(down[i - 1], Remove1(s[i])) /\ Fits(down[i - 1], Remove1(s[i]))
  <2> DEFINE R == D \cup {s[j] : j \in i .. n}
  <2>1. (i - 1) + 1 = i /\ i - 1 \in 0..n /\ i .. n \in SUBSET 1..n /\ i \in i .. n
    BY <1>1
  <2>2. down[i - 1] = R
    BY <2>1
  <2>3. R \in Docs /\ Distinct(R)
    BY <2>1, NewDistinct DEF n
  <2>4. s[i] \in R /\ s[i] \in OnPages
    BY <1>1, <2>1 DEF NewTo, n
  <2>5. Run(R, Remove1(s[i])) = R \ {s[i]} /\ Fits(R, Remove1(s[i]))
    <3> HIDE DEF R
    <3> QED BY <2>3, <2>4, RunIs
  <2>6. R \ {s[i]} = D \cup {s[j] : j \in i + 1 .. n}
    <3>1. \A j \in i .. n : s[j] = s[i] => j = i
      BY <2>1 DEF NewTo, n
    <3>2. s[i] \notin D
      BY DEF NewTo, n
    <3>3. i .. n = {i} \cup (i + 1 .. n) /\ i \notin i + 1 .. n
      BY <1>1
    <3> QED BY <3>1, <3>2, <3>3
  <2>7. down[i] = D \cup {s[j] : j \in i + 1 .. n}
    BY <1>1
  <2> QED BY <2>2, <2>5, <2>6, <2>7
<1>4. ASSUME NEW i \in 1..n
      PROVE  up[i] = Run(up[i - 1], Append1(s[i])) /\ Fits(up[i - 1], Append1(s[i]))
  <2> DEFINE R == D \cup {s[j] : j \in 1 .. i - 1}
  <2>1. i - 1 \in 0..n /\ 1 .. i - 1 \in SUBSET 1..n /\ i \notin 1 .. i - 1 /\ 1 .. i = (1 .. i - 1) \cup {i}
    BY <1>1
  <2>2. up[i - 1] = R
    BY <2>1
  <2>3. R \in Docs /\ Distinct(R)
    BY <2>1, NewDistinct DEF n
  <2>4. s[i] \in OnPages /\ \A q \in R : q.id # s[i].id
    BY <1>1, <2>1 DEF NewTo, n
  <2>5. Run(R, Append1(s[i])) = R \cup {s[i]} /\ Fits(R, Append1(s[i]))
    <3> HIDE DEF R
    <3> QED BY <2>3, <2>4, RunIs
  <2>6. R \cup {s[i]} = D \cup {s[j] : j \in 1 .. i}
    BY <2>1
  <2>7. up[i] = D \cup {s[j] : j \in 1 .. i}
    BY <1>1
  <2> QED BY <2>2, <2>5, <2>6, <2>7
<1>5. down[0] = D \cup ToSet(s) /\ down[n] = D /\ up[0] = D /\ up[n] = D \cup ToSet(s)
  <2>1. 0 \in 0..n /\ n \in 0..n /\ 0 + 1 = 1 /\ n + 1 .. n = {} /\ 1 .. 0 = {}
    BY <1>1
  <2> QED BY <1>2, <2>1
<1> HIDE DEF down, up
<1> DEFINE r == Each(Remove1, s)
           a == Each(Append1, s)
<1>6. Len(r) = n /\ Len(a) = n /\ \A i \in 1..n : r[i] = Remove1(s[i]) /\ a[i] = Append1(s[i])
  BY <1>1, EachIs DEF n
<1> HIDE DEF r, a
<1>7. Leads(D \cup ToSet(s), r, D)
  <2>1. Runs(D \cup ToSet(s), r, down) /\ down[Len(r)] = D
    BY <1>3, <1>5, <1>6 DEF Runs
  <2>2. \A i \in 1..Len(r) : Fits(down[i - 1], r[i])
    BY <1>3, <1>6
  <2> QED BY <2>1, <2>2 DEF Leads
<1>8. Leads(D, a, D \cup ToSet(s))
  <2>1. Runs(D, a, up) /\ up[Len(a)] = D \cup ToSet(s)
    BY <1>4, <1>5, <1>6 DEF Runs
  <2>2. \A i \in 1..Len(a) : Fits(up[i - 1], a[i])
    BY <1>4, <1>6
  <2> QED BY <2>1, <2>2 DEF Leads
<1> QED BY <1>7, <1>8 DEF r, a

OpSet == [undo : Seq(PrimSet), redo : Seq(PrimSet)]

\* The operation takes D to E, and can be undone and redone.
Legal(op, D, E) == op \in OpSet /\ Leads(E, op.undo, D) /\ Leads(D, op.redo, E)

\* Ink, a highlight or a note is added.
LEMMA AddedLegal ==
  ASSUME NEW D \in Docs, Distinct(D), NEW s, NewTo(D, s)
  PROVE  Legal(Added(s), D, D \cup ToSet(s))
<1>1. s \in Seq(OnPages)
  BY DEF NewTo
<1> QED BY <1>1, AddedLeads, EachIs DEF Added, Op, Legal, OpSet

\* One annotation is removed.
LEMMA RemovedLegal ==
  ASSUME NEW D \in Docs, Distinct(D), NEW r \in D, r.page \in Pages
  PROVE  Legal(Removed(r), D, D \ {r})
<1>1. r \in OnPages /\ D \ {r} \in Docs /\ Distinct(D \ {r})
  BY DEF Docs, Distinct, OnPages
<1>2. \A q \in D \ {r} : q.id # r.id
  BY DEF Distinct
<1>3. /\ Remove1(r) \in PrimSet /\ Append1(r) \in PrimSet
      /\ Run(D, Remove1(r)) = D \ {r} /\ Fits(D, Remove1(r))
  BY <1>1, RunIs
<1>4. Run(D \ {r}, Append1(r)) = D /\ Fits(D \ {r}, Append1(r))
  <2>1. (D \ {r}) \cup {r} = D
    OBVIOUS
  <2> QED BY <1>1, <1>2, <2>1, RunIs
<1>5. Leads(D, <<Remove1(r)>>, D \ {r}) /\ Leads(D \ {r}, <<Append1(r)>>, D)
  BY <1>3, <1>4, LeadsOne
<1> QED BY <1>3, <1>5 DEF Removed, Op, Legal, OpSet

\* A note is written over an older version of itself, or a newer.
LEMMA ReplaceFits ==
  ASSUME NEW R \in Docs, Distinct(R), NEW old \in R, NEW new \in OnPages,
         old.id = new.id, old.page = new.page, new.id \in Notes
  PROVE  /\ Append1(new) \in PrimSet /\ Append1(new).do = "replace"
         /\ Run(R, Append1(new)) = (R \ {old}) \cup {new} /\ Fits(R, Append1(new))
<1>1. Append1(new) = [do |-> "replace", recs |-> {new}]
  BY DEF Append1
<1> DEFINE p == Append1(new)
<1>2. p.do = "replace" /\ p.recs = {new} /\ p \in PrimSet
  BY <1>1 DEF PrimSet, Distinct
<1> HIDE DEF p
<1>3. Run(R, p) = Inserted(R, {new})
  BY <1>2 DEF Run
<1>4. Inserted(R, {new}) = (R \ {old}) \cup {new}
  BY DEF Inserted, Distinct
<1>5. \A q \in R : q.id = new.id => q.page = new.page
  BY DEF Distinct
<1>6. Fits(R, p)
  BY <1>2, <1>5 DEF Fits
<1> QED BY <1>2, <1>3, <1>4, <1>6 DEF p

\* A note is updated.
LEMMA UpdatedLegal ==
  ASSUME NEW D \in Docs, Distinct(D), NEW prior \in D, NEW new \in OnPages,
         new.id = prior.id, new.page = prior.page, new.id \in Notes
  PROVE  Legal(Updated(prior, new), D, (D \ {prior}) \cup {new})
<1> DEFINE E == (D \ {prior}) \cup {new}
<1>1. prior \in OnPages /\ E \in Docs /\ Distinct(E) /\ new \in E
  BY DEF Docs, Distinct, OnPages
<1>2. (E \ {new}) \cup {prior} = D
  BY DEF Distinct
<1> HIDE DEF E
<1>3. Append1(new) \in PrimSet /\ Run(D, Append1(new)) = E /\ Fits(D, Append1(new))
  <2>1. Append1(new) \in PrimSet /\ Run(D, Append1(new)) = (D \ {prior}) \cup {new}
    BY ReplaceFits
  <2>2. Fits(D, Append1(new))
    BY ReplaceFits
  <2> QED BY <2>1, <2>2 DEF E
<1>4. Append1(prior) \in PrimSet /\ Run(E, Append1(prior)) = D /\ Fits(E, Append1(prior))
  <2>1. prior \in OnPages /\ prior.id \in Notes /\ new.id = prior.id /\ new.page = prior.page
    BY <1>1
  <2>2. Append1(prior) \in PrimSet /\ Run(E, Append1(prior)) = (E \ {new}) \cup {prior}
    BY <1>1, <2>1, ReplaceFits
  <2>3. Fits(E, Append1(prior))
    BY <1>1, <2>1, ReplaceFits
  <2> QED BY <1>2, <2>2, <2>3
<1>5. Leads(D, <<Append1(new)>>, E) /\ Leads(E, <<Append1(prior)>>, D)
  BY <1>3, <1>4, LeadsOne
<1> QED BY <1>3, <1>4, <1>5 DEF Updated, Op, Legal, OpSet, E

\* A stroke is erased, to pieces or away.
LEMMA InkReplacedLegal ==
  ASSUME NEW D \in Docs, Distinct(D), NEW orig \in D, orig.page \in Pages,
         NEW s, NewTo(D \ {orig}, s), \A i \in 1..Len(s) : s[i].id # orig.id
  PROVE  Legal(InkReplaced(orig, s), D, (D \ {orig}) \cup ToSet(s))
<1> DEFINE C == D \ {orig}
           E == C \cup ToSet(s)
           r == Each(Remove1, s)
           a == Each(Append1, s)
<1>1. orig \in OnPages /\ C \in Docs /\ Distinct(C)
  BY DEF Docs, Distinct, OnPages
<1>2. \A q \in C : q.id # orig.id
  BY DEF Distinct
<1>3. C \cup {orig} = D
  OBVIOUS
<1>4. NewTo(C, s) /\ s \in Seq(OnPages)
  BY DEF NewTo
<1> HIDE DEF C, E
<1>5. /\ Remove1(orig) \in PrimSet /\ Append1(orig) \in PrimSet
      /\ Run(D, Remove1(orig)) = C /\ Fits(D, Remove1(orig))
  BY <1>1, RunIs DEF C
<1>6. Run(C, Append1(orig)) = D /\ Fits(C, Append1(orig))
  BY <1>1, <1>2, <1>3, RunIs
<1>7. Leads(E, r, C) /\ Leads(C, a, E)
  BY <1>1, <1>4, AddedLeads DEF E
<1>8. r \in Seq(PrimSet) /\ a \in Seq(PrimSet)
  BY <1>4, EachIs
<1>9. Leads(E, Append(r, Append1(orig)), D)
  BY <1>5, <1>6, <1>7, <1>8, LeadsBack
<1>10. Leads(D, <<Remove1(orig)>> \o a, E)
  BY <1>5, <1>7, <1>8, LeadsFront
<1>11. Append(r, Append1(orig)) \in Seq(PrimSet) /\ <<Remove1(orig)>> \o a \in Seq(PrimSet)
  <2>1. Append(r, Append1(orig)) \in Seq(PrimSet)
    <3> HIDE DEF r
    <3> QED BY <1>5, <1>8
  <2>2. <<Remove1(orig)>> \o a \in Seq(PrimSet)
    <3> HIDE DEF a
    <3> QED BY <1>5, <1>8, FrontIs
  <2> QED BY <2>1, <2>2
<1> QED BY <1>9, <1>10, <1>11 DEF InkReplaced, Op, Legal, OpSet, C, E

-----------------------------------------------------------------------------
(* Types *)

\* Bags of annotations.
ListSet == UNION {[R -> Nat \ {0}] : R \in SUBSET Annotation}
\* The lists of one kind and page.
ListsAt(k, p) == {b \in ListSet : DOMAIN b \subseteq At(k, p)}

\* The background jobs.
JobOK ==
    /\ job.what = "comments" => /\ job.page \in Pages /\ DOMAIN job.lists \subseteq Kinds
                                /\ \A k \in DOMAIN job.lists : job.lists[k] \in ListsAt(k, job.page)
    /\ job.what = "reanchor" => /\ job = [what |-> "reanchor", updated |-> job.updated, all |-> job.all]
                                /\ job.updated \in BOOLEAN
                                /\ \A r \in job.all : r \in Annotation /\ Kind(r.id) = "highlight"

\* TypeOK without the variable that no part of the session reads.
Typed ==
    /\ rows \subseteq Annotation
    /\ \A r, s \in rows : r.id = s.id => r = s
    /\ \A k \in Kinds, p \in Pages :
          cache[k][p] # None => IsABag(cache[k][p]) /\ DOMAIN cache[k][p] \subseteq Annotation
    /\ Len(undoStack \o redoStack) <= MaxOps
    /\ half # None => todo # <<>>
    /\ editing \in Annotation \cup {None}
    /\ page \in Pages /\ visible \in BOOLEAN

\* What it rests on.
Types ==
    /\ Typed
    /\ cache \in [Kinds -> [Pages -> {None} \cup ListSet]]
    /\ \A k \in Kinds, p \in Pages : cache[k][p] # None => cache[k][p] \in ListsAt(k, p)
    /\ undoStack \in Seq(OpSet) /\ redoStack \in Seq(OpSet)
    /\ todo \in Seq(PrimSet)
    /\ half # None => /\ todo # <<>>
                      /\ \A r \in Head(todo).recs : half \in ListsAt(Kind(r.id), r.page)
    /\ editing # None => Kind(editing.id) = "ink" /\ editing.page \in Pages
    /\ JobOK

\* What is in a set of lists.
LEMMA ListIs ==
  ASSUME NEW b
  PROVE  b \in ListSet <=> IsABag(b) /\ DOMAIN b \subseteq Annotation
<1>1. ASSUME b \in ListSet PROVE IsABag(b) /\ DOMAIN b \subseteq Annotation
  <2>1. PICK R \in SUBSET Annotation : b \in [R -> Nat \ {0}]
    BY <1>1 DEF ListSet
  <2>2. b \in [R -> {n \in Nat : n > 0}]
    BY <2>1
  <2> QED BY <2>1, <2>2 DEF IsABag
<1>2. ASSUME IsABag(b), DOMAIN b \subseteq Annotation PROVE b \in ListSet
  <2>1. b \in [DOMAIN b -> Nat \ {0}]
    BY <1>2 DEF IsABag
  <2> QED BY <1>2, <2>1 DEF ListSet
<1> QED BY <1>1, <1>2

\* A bag of a set is a list.
LEMMA BagAt ==
  ASSUME NEW k, NEW p, NEW R \in SUBSET At(k, p)
  PROVE  SetToBag(R) \in ListsAt(k, p) /\ SetToBag(R) # None
<1>1. R \in Docs
  BY DEF At, Docs
<1>2. DOMAIN SetToBag(R) = R /\ IsABag(SetToBag(R))
  BY BagOf
<1>3. R \subseteq Annotation
  BY <1>1 DEF Docs
<1> QED BY <1>1, <1>2, <1>3, BagIsList, ListIs DEF ListsAt

\* Bags of lists.
LEMMA BagsAt ==
  ASSUME NEW k, NEW p, NEW b \in ListsAt(k, p)
  PROVE  /\ \A r \in At(k, p) : BagAdd(b, r) \in ListsAt(k, p) /\ BagRemove(b, r) \in ListsAt(k, p)
         /\ \A c \in ListsAt(k, p) : b (+) c \in ListsAt(k, p)
         /\ \A r \in DOMAIN b : r \in At(k, p)
<1>1. b \in ListSet /\ DOMAIN b \subseteq At(k, p) /\ At(k, p) \subseteq Annotation
  BY DEF ListsAt, At
<1>2. IsABag(b)
  BY <1>1, ListIs
<1>3. \A r \in DOMAIN b : b[r] \in Nat \ {0}
  BY <1>2 DEF IsABag
<1>4. ASSUME NEW c, DOMAIN c \subseteq At(k, p), IsABag(c) PROVE c \in ListsAt(k, p)
  <2>1. c \in ListSet
    BY <1>1, <1>4, ListIs
  <2> QED BY <1>4, <2>1 DEF ListsAt
<1>5. ASSUME NEW r \in At(k, p) PROVE BagAdd(b, r) \in ListsAt(k, p)
  <2>1. DOMAIN BagAdd(b, r) \subseteq At(k, p)
    BY <1>1 DEF BagAdd
  <2>2. IsABag(BagAdd(b, r))
    BY <1>3 DEF BagAdd, IsABag
  <2> QED BY <1>4, <2>1, <2>2
<1>6. ASSUME NEW r \in At(k, p) PROVE BagRemove(b, r) \in ListsAt(k, p)
  <2>1. DOMAIN BagRemove(b, r) \subseteq At(k, p)
    BY <1>1 DEF BagRemove
  <2>2. IsABag(BagRemove(b, r))
    BY <1>2, <1>3 DEF BagRemove, IsABag
  <2> QED BY <1>4, <2>1, <2>2
<1>7. ASSUME NEW c \in ListsAt(k, p) PROVE b (+) c \in ListsAt(k, p)
  <2>1. c \in ListSet /\ DOMAIN c \subseteq At(k, p)
    BY DEF ListsAt
  <2>2. IsABag(c)
    BY <2>1, ListIs
  <2>3. \A r \in DOMAIN c : c[r] \in Nat \ {0}
    BY <2>2 DEF IsABag
  <2>4. DOMAIN (b (+) c) \subseteq At(k, p)
    BY <1>1, <2>1 DEF (+)
  <2>5. IsABag(b (+) c)
    BY <1>3, <2>3 DEF (+), IsABag
  <2> QED BY <1>4, <2>4, <2>5
<1> QED BY <1>1, <1>5, <1>6, <1>7

\* The rows of a page are annotations of it.
LEMMA RowsAt ==
  ASSUME rows \subseteq Annotation, NEW k, NEW p
  PROVE  Rows(k, p) \subseteq At(k, p)
  BY DEF Rows, At

\* The list of a page, loaded or not.
LEMMA ListForAt ==
  ASSUME Types, NEW k \in Kinds, NEW p \in Pages
  PROVE  /\ ListFor(k, p) \in ListsAt(k, p) /\ ListFor(k, p) \in ListSet /\ ListFor(k, p) # None
         /\ \A r \in DOMAIN ListFor(k, p) : r \in At(k, p)
<1>1. ListFor(k, p) \in ListsAt(k, p) /\ ListFor(k, p) # None
  <2>1. CASE cache[k][p] = None
    <3>1. Rows(k, p) \in SUBSET At(k, p)
      BY RowsAt DEF Types, Typed
    <3> QED BY <2>1, <3>1, BagAt DEF ListFor
  <2>2. CASE cache[k][p] # None
    BY <2>2 DEF ListFor, Types
  <2> QED BY <2>1, <2>2
<1> QED BY <1>1 DEF ListsAt

\* Every annotation has a kind.
LEMMA KindIs ==
  ASSUME NEW r \in Annotation
  PROVE  /\ Kind(r.id) \in Kinds
         /\ Kind(r.id) = "ink" <=> r.id \in Ink
         /\ Kind(r.id) = "highlight" <=> r.id \in Highlights
         /\ Kind(r.id) = "note" <=> r.id \in Notes
  BY SidecarAssumption DEF Kind, Kinds, Annotation, IdsOf

\* A new annotation on the page that is shown.
LEMMA NewIs ==
  ASSUME page \in Pages, NEW id \in IdsOf
  PROVE  New(id) \in OnPages /\ New(id).id = id /\ New(id).page = page
  BY SidecarAssumption DEF New, OnPages, Annotation

\* The rows that are left, and the rows with others.
LEMMA RowsOK ==
  ASSUME rows \subseteq Annotation, Distinct(rows), NEW new \in SUBSET Annotation, Distinct(new)
  PROVE  /\ Inserted(rows, new) \subseteq Annotation /\ Distinct(Inserted(rows, new))
         /\ Deleted(rows, new) \subseteq Annotation /\ Distinct(Deleted(rows, new))
  BY DEF Inserted, Deleted, Distinct

\* Types without the variables that a step leaves as they are.
RowsTyped == rows \subseteq Annotation /\ Distinct(rows)
CacheTyped ==
    /\ cache \in [Kinds -> [Pages -> {None} \cup ListSet]]
    /\ \A k \in Kinds, p \in Pages : cache[k][p] # None => cache[k][p] \in ListsAt(k, p)
StacksTyped ==
    /\ undoStack \in Seq(OpSet) /\ redoStack \in Seq(OpSet)
    /\ Len(undoStack) + Len(redoStack) <= MaxOps
CallTyped ==
    /\ todo \in Seq(PrimSet)
    /\ half # None => /\ todo # <<>>
                      /\ \A r \in Head(todo).recs : half \in ListsAt(Kind(r.id), r.page)
ViewTyped ==
    /\ page \in Pages /\ visible \in BOOLEAN
    /\ editing \in Annotation \cup {None}
    /\ editing # None => Kind(editing.id) = "ink" /\ editing.page \in Pages

\* Types in parts.
LEMMA TypesAre ==
  Types <=> RowsTyped /\ CacheTyped /\ StacksTyped /\ CallTyped /\ ViewTyped /\ JobOK
<1>1. ASSUME Types PROVE RowsTyped /\ CacheTyped /\ CallTyped /\ ViewTyped /\ JobOK
  BY <1>1 DEF Types, Typed, RowsTyped, Distinct, CacheTyped, CallTyped, ViewTyped
<1>2. ASSUME Types PROVE StacksTyped
  BY <1>2 DEF Types, Typed, StacksTyped
<1>3. ASSUME RowsTyped, CacheTyped, StacksTyped, CallTyped, ViewTyped, JobOK PROVE Types
  <2>1. /\ rows \subseteq Annotation /\ \A r, s \in rows : r.id = s.id => r = s
        /\ half # None => todo # <<>>
        /\ editing \in Annotation \cup {None}
        /\ page \in Pages /\ visible \in BOOLEAN
    BY <1>3 DEF RowsTyped, Distinct, CallTyped, ViewTyped
  <2>2. Len(undoStack \o redoStack) <= MaxOps
    BY <1>3 DEF StacksTyped
  <2>3. ASSUME NEW k \in Kinds, NEW p \in Pages, cache[k][p] # None
        PROVE  IsABag(cache[k][p]) /\ DOMAIN cache[k][p] \subseteq Annotation
    <3>1. cache[k][p] \in ListSet
      BY <1>3, <2>3 DEF CacheTyped, ListsAt
    <3> QED BY <3>1, ListIs
  <2>4. Typed
    BY <2>1, <2>2, <2>3 DEF Typed
  <2> QED BY <1>3, <2>4 DEF Types, CacheTyped, StacksTyped, CallTyped, ViewTyped
<1> QED BY <1>1, <1>2, <1>3

\* New strokes: on the page that is shown, of ink, of ids nothing else has.
LEMMA FreshInkIs ==
  ASSUME page \in Pages, NEW n \in Nat, NEW s \in FreshInk(n)
  PROVE  /\ s \in Seq(OnPages)
         /\ \A i \in 1..Len(s) : s[i].page = page /\ s[i].id \in Ink /\ Fresh(s[i].id)
         /\ \A i, j \in 1..Len(s) : s[i].id = s[j].id => i = j
<1> DEFINE S == {New(i) : i \in {j \in Ink : Fresh(j)}}
<1>1. s \in BoundedSeq(S, n) /\ IsInjective(s)
  BY DEF FreshInk
<1>2. ASSUME NEW r \in S PROVE r \in OnPages /\ r.page = page /\ r.id \in Ink /\ Fresh(r.id)
  <2>1. PICK i \in Ink : Fresh(i) /\ r = New(i)
    OBVIOUS
  <2>2. i \in IdsOf
    BY DEF IdsOf
  <2> QED BY <2>1, <2>2, NewIs
<1>3. ASSUME NEW r \in S, NEW t \in S, r.id = t.id PROVE r = t
  <2>1. PICK i \in Ink : r = New(i)
    OBVIOUS
  <2>2. PICK j \in Ink : t = New(j)
    OBVIOUS
  <2>3. i \in IdsOf /\ j \in IdsOf
    BY DEF IdsOf
  <2>4. r.id = i /\ t.id = j
    BY <2>1, <2>2, <2>3, NewIs
  <2> QED BY <1>3, <2>1, <2>2, <2>4
<1> HIDE DEF S
<1>4. PICK m \in 0..n : s \in [1..m -> S]
  BY <1>1 DEF BoundedSeq, SeqOf
<1>5. s \in Seq(S) /\ Len(s) = m
  BY <1>4
<1>6. \A i \in 1..Len(s) : s[i] \in S
  BY <1>4, <1>5
<1>7. s \in Seq(OnPages)
  <2>1. \A i \in 1..m : s[i] \in OnPages
    BY <1>2, <1>4
  <2> QED BY <1>4, <2>1
<1>8. ASSUME NEW i \in 1..Len(s), NEW j \in 1..Len(s), s[i].id = s[j].id PROVE i = j
  <2>1. s[i] = s[j]
    BY <1>3, <1>6, <1>8
  <2> QED BY <1>1, <1>4, <1>5, <2>1 DEF IsInjective
<1> QED BY <1>2, <1>6, <1>7, <1>8

\* The set of new strokes.
LEMMA PiecesAre ==
  ASSUME page \in Pages, NEW s \in FreshInk(2)
  PROVE  /\ ToSet(s) \in SUBSET OnPages /\ Distinct(ToSet(s)) /\ (s # <<>> => ToSet(s) # {})
         /\ \A r \in ToSet(s) : r.page = page /\ r.id \in Ink /\ Kind(r.id) = "ink" /\ Fresh(r.id)
<1>1. /\ s \in Seq(OnPages)
      /\ \A i \in 1..Len(s) : s[i].page = page /\ s[i].id \in Ink /\ Fresh(s[i].id)
      /\ \A i, j \in 1..Len(s) : s[i].id = s[j].id => i = j
  BY FreshInkIs
<1>2. ToSet(s) = {s[i] : i \in 1..Len(s)}
  BY <1>1 DEF ToSet
<1>3. ToSet(s) \in SUBSET OnPages
  BY <1>1, <1>2
<1>4. Distinct(ToSet(s))
  BY <1>1, <1>2 DEF Distinct
<1>5. ASSUME s # <<>> PROVE ToSet(s) # {}
  <2>1. 1 \in 1..Len(s)
    BY <1>1, <1>5
  <2> QED BY <1>2, <2>1
<1>6. ASSUME NEW r \in ToSet(s) PROVE r.page = page /\ r.id \in Ink /\ Kind(r.id) = "ink" /\ Fresh(r.id)
  <2>1. r.page = page /\ r.id \in Ink /\ Fresh(r.id)
    BY <1>1, <1>2
  <2> QED BY <2>1, SidecarAssumption DEF Kind
<1> QED BY <1>3, <1>4, <1>5, <1>6

\* A primitive of one annotation.
LEMMA PrimIs ==
  ASSUME NEW r \in OnPages, NEW do \in {"append", "remove", "replace"}
  PROVE  [do |-> do, recs |-> {r}] \in PrimSet
  BY DEF PrimSet, Distinct

\* The operation pushed is the only one that is new.
LEMMA PushTyped ==
  ASSUME StacksTyped, NEW op \in OpSet, PushUndo(op)
  PROVE  StacksTyped'
<1>1. undoStack' = <<op>> \o undoStack /\ redoStack' = <<>> /\ Len(undoStack) < MaxOps
  BY DEF PushUndo
<1>2. <<op>> \o undoStack \in Seq(OpSet) /\ Len(<<op>> \o undoStack) = Len(undoStack) + 1
  BY FrontIs DEF StacksTyped
<1>3. Len(undoStack) \in Nat /\ Len(<<>>) = 0 /\ <<>> \in Seq(OpSet)
  BY DEF StacksTyped
<1> QED BY <1>1, <1>2, <1>3, SidecarAssumption DEF StacksTyped

\* A call begins with its rows.
LEMMA InsertTyped ==
  ASSUME RowsTyped, CacheTyped, NEW recs, NEW do, [do |-> do, recs |-> recs] \in PrimSet,
         Insert(recs, do)
  PROVE  RowsTyped' /\ CacheTyped' /\ CallTyped'
<1> DEFINE p == [do |-> do, recs |-> recs]
<1>1. rows' = Inserted(rows, recs) /\ todo' = <<p>> /\ half' = EmptyBag /\ cache' = cache
  BY DEF Insert
<1>2. recs \in SUBSET Annotation /\ Distinct(recs)
  BY DEF PrimSet, OnPages
<1>3. RowsTyped'
  BY <1>1, <1>2, RowsOK DEF RowsTyped, Distinct
<1>4. \A k, q : EmptyBag \in ListsAt(k, q)
  BY BagAt DEF EmptyBag
<1>5. CallTyped'
  <2> HIDE DEF p
  <2>1. <<p>> \in Seq(PrimSet) /\ <<p>> # <<>> /\ Head(<<p>>) = p
    BY DEF p
  <2> QED BY <1>1, <1>4, <2>1 DEF CallTyped
<1> QED BY <1>1, <1>3, <1>5 DEF CacheTyped

\* A row is taken out, and the list without it put aside.
LEMMA TakeTyped ==
  ASSUME Types, NEW k \in Kinds, NEW p \in Pages, NEW r \in DOMAIN ListFor(k, p),
         Take(ListFor(k, p), r)
  PROVE  /\ RowsTyped' /\ CacheTyped' /\ half' \in ListsAt(k, p) /\ r \in At(k, p)
<1>1. r \in At(k, p) /\ ListFor(k, p) \in ListsAt(k, p)
  BY ListForAt
<1>2. rows' = Deleted(rows, {r}) /\ half' = BagRemove(ListFor(k, p), r) /\ cache' = cache
  BY DEF Take
<1>3. RowsTyped'
  <2>1. {r} \in SUBSET Annotation /\ Distinct({r}) /\ RowsTyped
    BY <1>1, TypesAre DEF At, Distinct
  <2> QED BY <1>2, <2>1, RowsOK DEF RowsTyped, Distinct
<1>4. CacheTyped'
  BY <1>2, TypesAre DEF CacheTyped
<1> QED BY <1>1, <1>2, <1>3, <1>4, BagsAt

\* One list is loaded or changed.
LEMMA PutTyped ==
  ASSUME CacheTyped, NEW k \in Kinds, NEW p \in Pages, NEW b \in ListsAt(k, p),
         cache' = [cache EXCEPT ![k][p] = b]
  PROVE  CacheTyped'
<1>1. b \in ListSet
  BY DEF ListsAt
<1>2. /\ cache' \in [Kinds -> [Pages -> {None} \cup ListSet]]
      /\ \A l \in Kinds, q \in Pages : cache'[l][q] = IF l = k /\ q = p THEN b ELSE cache[l][q]
  BY <1>1 DEF CacheTyped
<1> QED BY <1>2 DEF CacheTyped

\* Without lists.
LEMMA NoListsTyped ==
  ASSUME cache' = NoLists
  PROVE  CacheTyped'
  BY DEF NoLists, CacheTyped

\* What is left to do after the first primitive.
LEMMA CallTail ==
  ASSUME CallTyped, todo # <<>>, todo' = Tail(todo), half' = None
  PROVE  CallTyped'
<1>1. Tail(todo) \in Seq(PrimSet)
  BY TailIs DEF CallTyped
<1> QED BY <1>1 DEF CallTyped

\* Types after a step, in parts.
LEMMA TypesNext ==
  Types' <=> RowsTyped' /\ CacheTyped' /\ StacksTyped' /\ CallTyped' /\ ViewTyped' /\ JobOK'
  BY TypesAre, PTL

\* What a step leaves as it is keeps its type.
LEMMA PartsStay ==
  ASSUME Types
  PROVE  /\ UNCHANGED rows => RowsTyped'
         /\ UNCHANGED cache => CacheTyped'
         /\ UNCHANGED stacks => StacksTyped'
         /\ UNCHANGED <<todo, half>> => CallTyped'
         /\ UNCHANGED <<editing, view>> => ViewTyped'
         /\ UNCHANGED job => JobOK'
<1>1. RowsTyped /\ CacheTyped /\ StacksTyped /\ CallTyped /\ ViewTyped /\ JobOK
  BY TypesAre
<1>2. UNCHANGED rows => RowsTyped'
  BY <1>1 DEF RowsTyped, Distinct
<1>3. UNCHANGED cache => CacheTyped'
  BY <1>1 DEF CacheTyped
<1>4. UNCHANGED stacks => StacksTyped'
  BY <1>1 DEF StacksTyped, stacks
<1>5. UNCHANGED <<todo, half>> => CallTyped'
  BY <1>1 DEF CallTyped
<1>6. UNCHANGED <<editing, view>> => ViewTyped'
  BY <1>1 DEF ViewTyped, view
<1>7. UNCHANGED job => JobOK'
  BY <1>1 DEF JobOK
<1> QED BY <1>2, <1>3, <1>4, <1>5, <1>6, <1>7

\* Without operations.
LEMMA NoStacksTyped ==
  ASSUME undoStack' = <<>>, redoStack' = <<>>
  PROVE  StacksTyped'
  BY SidecarAssumption DEF StacksTyped

\* A job that keeps nothing.
LEMMA PlainJob ==
  ASSUME job'.what # "comments", job'.what # "reanchor"
  PROVE  JobOK'
  BY DEF JobOK

\* The primitives of the operations the user makes.
LEMMA OpsAre ==
  /\ \A s \in Seq(OnPages) : Added(s) \in OpSet
  /\ \A r \in OnPages : Removed(r) \in OpSet /\ Remove1(r) \in PrimSet /\ Append1(r) \in PrimSet
  /\ \A r, n \in OnPages : Updated(r, n) \in OpSet
  /\ \A r \in OnPages, s \in Seq(OnPages) : InkReplaced(r, s) \in OpSet
<1>1. ASSUME NEW s \in Seq(OnPages) PROVE Added(s) \in OpSet
  BY <1>1, EachIs DEF Added, Op, OpSet
<1>2. ASSUME NEW r \in OnPages PROVE Remove1(r) \in PrimSet /\ Append1(r) \in PrimSet
  <2>1. {} \in Docs /\ Distinct({})
    BY DEF Docs, Distinct
  <2> QED BY <2>1, RunIs
<1>3. ASSUME NEW r \in OnPages PROVE Removed(r) \in OpSet
  BY <1>2 DEF Removed, Op, OpSet
<1>4. ASSUME NEW r \in OnPages, NEW n \in OnPages PROVE Updated(r, n) \in OpSet
  BY <1>2 DEF Updated, Op, OpSet
<1>5. ASSUME NEW r \in OnPages, NEW s \in Seq(OnPages) PROVE InkReplaced(r, s) \in OpSet
  <2> DEFINE d == Each(Remove1, s)
             a == Each(Append1, s)
  <2>1. d \in Seq(PrimSet) /\ a \in Seq(PrimSet)
    BY EachIs
  <2>2. InkReplaced(r, s) = [undo |-> Append(d, Append1(r)), redo |-> <<Remove1(r)>> \o a]
    BY DEF InkReplaced, Op
  <2> HIDE DEF d, a
  <2>3. Append(d, Append1(r)) \in Seq(PrimSet)
    BY <1>2, <2>1
  <2>4. <<Remove1(r)>> \o a \in Seq(PrimSet)
    BY <1>2, <2>1, FrontIs
  <2> QED BY <2>2, <2>3, <2>4 DEF OpSet
<1> QED BY <1>1, <1>2, <1>3, <1>4, <1>5

-----------------------------------------------------------------------------
(* Types after the user's calls *)

\* Strokes are drawn.
LEMMA AddInkTypes == ASSUME Types, NEW s \in FreshInk(2), AddInk(s) PROVE Types'
<1>1. page \in Pages /\ StacksTyped /\ RowsTyped /\ CacheTyped
  BY TypesAre DEF ViewTyped
<1>2. Insert(ToSet(s), "append") /\ PushUndo(Added(s)) /\ UNCHANGED <<editing, view, job>> /\ s # <<>>
  BY DEF AddInk
<1>3. s \in Seq(OnPages)
  BY <1>1, FreshInkIs
<1>4. [do |-> "append", recs |-> ToSet(s)] \in PrimSet
  BY <1>1, <1>2, PiecesAre DEF PrimSet
<1>5. RowsTyped' /\ CacheTyped' /\ CallTyped'
  BY <1>1, <1>2, <1>4, InsertTyped
<1>6. Added(s) \in OpSet
  BY <1>3, OpsAre
<1>7. StacksTyped'
  BY <1>1, <1>2, <1>6, PushTyped
<1>8. ViewTyped' /\ JobOK'
  BY <1>2, PartsStay
<1> QED BY <1>5, <1>7, <1>8, TypesNext

\* A highlight or a note is added.
LEMMA AddTypes == ASSUME Types, NEW id \in Highlights \cup Notes, Add(id) PROVE Types'
<1>1. page \in Pages /\ StacksTyped /\ RowsTyped /\ CacheTyped
  BY TypesAre DEF ViewTyped
<1>2. Insert({New(id)}, "append") /\ PushUndo(Added(<<New(id)>>)) /\ UNCHANGED <<editing, view, job>>
  BY DEF Add
<1>3. New(id) \in OnPages
  BY <1>1, NewIs DEF IdsOf
<1>4. [do |-> "append", recs |-> {New(id)}] \in PrimSet
  BY <1>3, PrimIs
<1>5. RowsTyped' /\ CacheTyped' /\ CallTyped'
  BY <1>1, <1>2, <1>4, InsertTyped
<1>6. Added(<<New(id)>>) \in OpSet
  <2>1. <<New(id)>> \in Seq(OnPages)
    BY <1>3
  <2> QED BY <2>1, OpsAre
<1>7. StacksTyped'
  BY <1>1, <1>2, <1>6, PushTyped
<1>8. ViewTyped' /\ JobOK'
  BY <1>2, PartsStay
<1> QED BY <1>5, <1>7, <1>8, TypesNext

\* A version of a note.
LEMMA NewVersion ==
  ASSUME NEW p \in Pages, NEW prior \in At("note", p), NEW v \in Versions
  PROVE  /\ prior \in OnPages /\ [prior EXCEPT !.ver = v] \in OnPages
         /\ [prior EXCEPT !.ver = v].id = prior.id /\ [prior EXCEPT !.ver = v].page = prior.page
         /\ prior.id \in Notes /\ prior.page = p
<1>1. prior \in Annotation /\ prior.page = p /\ prior.id \in Notes
  BY KindIs DEF At
<1>2. prior \in OnPages
  BY <1>1 DEF OnPages
<1> DEFINE new == [prior EXCEPT !.ver = v]
<1>3. prior \in [id : IdsOf, page : Pages \cup {Other}, ver : Versions]
  BY <1>1 DEF Annotation
<1>4. /\ new \in [id : IdsOf, page : Pages \cup {Other}, ver : Versions]
      /\ new.id = prior.id /\ new.page = prior.page
  BY <1>3
<1> HIDE DEF new
<1>5. new \in Annotation
  BY <1>1, <1>4 DEF Annotation
<1>6. new \in OnPages
  BY <1>1, <1>4, <1>5 DEF OnPages
<1> QED BY <1>1, <1>2, <1>4, <1>6 DEF new

\* A note is updated.
LEMMA UpdateNoteTypes ==
  ASSUME Types, NEW r \in Annotation, NEW v \in Versions, UpdateNote(r, v)
  PROVE  Types'
<1> DEFINE new == [r EXCEPT !.ver = v]
<1>1. page \in Pages /\ StacksTyped /\ RowsTyped /\ CacheTyped
  BY TypesAre DEF ViewTyped
<1>2. /\ r \in DOMAIN ListFor("note", page) /\ Insert({new}, "replace")
      /\ PushUndo(Updated(r, new)) /\ UNCHANGED <<editing, view, job>>
  BY DEF UpdateNote
<1>3. r \in At("note", page)
  BY <1>1, <1>2, ListForAt DEF Kinds
<1>4. r \in OnPages /\ new \in OnPages
  BY <1>1, <1>3, NewVersion
<1> HIDE DEF new
<1>5. [do |-> "replace", recs |-> {new}] \in PrimSet
  BY <1>4, PrimIs
<1>6. RowsTyped' /\ CacheTyped' /\ CallTyped'
  BY <1>1, <1>2, <1>5, InsertTyped
<1>7. Updated(r, new) \in OpSet
  BY <1>4, OpsAre
<1>8. StacksTyped'
  BY <1>1, <1>2, <1>7, PushTyped
<1>9. ViewTyped' /\ JobOK'
  BY <1>2, PartsStay
<1> QED BY <1>6, <1>8, <1>9, TypesNext

\* An entry of a list.
LEMMA MatchIs ==
  ASSUME Types, NEW k \in Kinds, NEW p \in Pages, NEW id, NEW r \in Matches(ListFor(k, p), id)
  PROVE  r \in DOMAIN ListFor(k, p) /\ r.id = id /\ r \in At(k, p) /\ r \in OnPages
<1>1. r \in DOMAIN ListFor(k, p) /\ r.id = id
  BY DEF Matches
<1> QED BY <1>1, ListForAt DEF At, OnPages

\* The call that removes r is under way.
LEMMA RemoveCall ==
  ASSUME NEW k, NEW p \in Pages, NEW r \in At(k, p), half' \in ListsAt(k, p), todo' = <<Remove1(r)>>
  PROVE  CallTyped'
<1>1. r \in OnPages /\ Kind(r.id) = k /\ r.page = p
  BY DEF At, OnPages
<1>2. Remove1(r) \in PrimSet /\ Remove1(r).recs = {r}
  BY <1>1, OpsAre DEF Remove1
<1> DEFINE d == Remove1(r)
<1> HIDE DEF d
<1>3. todo' = <<d>> /\ d \in PrimSet /\ d.recs = {r}
  BY <1>2 DEF d
<1>4. todo' \in Seq(PrimSet) /\ todo' # <<>> /\ Head(todo') = d
  BY <1>3
<1> QED BY <1>1, <1>3, <1>4 DEF CallTyped

\* A highlight or a note is deleted, or only looked for.
LEMMA DeleteSelectedTypes ==
  ASSUME Types, NEW id \in Highlights \cup Notes, DeleteSelected(id)
  PROVE  Types'
<1> DEFINE k == Kind(id)
           list == ListFor(k, page)
<1>1. page \in Pages /\ StacksTyped /\ RowsTyped /\ CacheTyped /\ CallTyped
  BY TypesAre DEF ViewTyped
<1>2. k \in Kinds
  BY DEF Kind, Kinds
<1> HIDE DEF k
<1>3. list \in ListsAt(k, page)
  BY <1>1, <1>2, ListForAt
<1>4. ViewTyped' /\ JobOK'
  BY PartsStay DEF DeleteSelected
<1>5. CASE cache' = [cache EXCEPT ![k][page] = list] /\ UNCHANGED <<rows, half, todo, stacks>>
  <2>1. CacheTyped'
    BY <1>1, <1>2, <1>3, <1>5, PutTyped
  <2>2. RowsTyped' /\ CallTyped' /\ StacksTyped'
    BY <1>5, PartsStay
  <2> QED BY <1>4, <2>1, <2>2, TypesNext
<1>6. ASSUME NEW r \in Matches(list, id), Take(list, r), todo' = <<Remove1(r)>>, PushUndo(Removed(r))
      PROVE  Types'
  <2>1. r \in DOMAIN list /\ r \in At(k, page) /\ r \in OnPages
    BY <1>1, <1>2, MatchIs
  <2>2. RowsTyped' /\ CacheTyped' /\ half' \in ListsAt(k, page)
    BY <1>1, <1>2, <1>6, <2>1, TakeTyped
  <2>3. CallTyped'
    BY <1>1, <1>6, <2>1, <2>2, RemoveCall
  <2>4. Removed(r) \in OpSet
    BY <2>1, OpsAre
  <2>5. StacksTyped'
    BY <1>1, <1>6, <2>4, PushTyped
  <2> QED BY <1>4, <2>2, <2>3, <2>5, TypesNext
<1> QED BY <1>5, <1>6 DEF DeleteSelected, k

\* A stroke is taken.
LEMMA EraseBeginTypes == ASSUME Types, NEW r \in Annotation, EraseBegin(r) PROVE Types'
<1>1. page \in Pages /\ page' = page /\ visible' = visible /\ visible \in BOOLEAN
  BY TypesAre DEF ViewTyped, EraseBegin, view
<1>2. /\ r \in DOMAIN ListFor("ink", page) /\ Take(ListFor("ink", page), r) /\ "ink" \in Kinds
      /\ todo' = <<Remove1(r)>> /\ editing' = r /\ UNCHANGED <<stacks, view, job>>
  BY DEF EraseBegin, Kinds
<1>3. RowsTyped' /\ CacheTyped' /\ half' \in ListsAt("ink", page) /\ r \in At("ink", page)
  BY <1>1, <1>2, TakeTyped
<1>4. CallTyped'
  BY <1>1, <1>2, <1>3, RemoveCall
<1>5. StacksTyped' /\ JobOK'
  BY <1>2, PartsStay
<1>6. ViewTyped'
  BY <1>1, <1>2, <1>3 DEF ViewTyped, At
<1> QED BY <1>3, <1>4, <1>5, <1>6, TypesNext

\* The gesture ends.
LEMMA EraseEndTypes == ASSUME Types, NEW s \in FreshInk(2), EraseEnd(s) PROVE Types'
<1>1. page \in Pages /\ StacksTyped /\ RowsTyped /\ CacheTyped /\ ViewTyped
  BY TypesAre DEF ViewTyped
<1>2. /\ editing # None /\ PushUndo(InkReplaced(editing, s)) /\ editing' = None /\ UNCHANGED <<view, job>>
      /\ IF s = <<>> THEN UNCHANGED <<rows, cache, todo, half>> ELSE Insert(ToSet(s), "append")
  BY DEF EraseEnd
<1>3. s \in Seq(OnPages)
  BY <1>1, FreshInkIs
<1>4. RowsTyped' /\ CacheTyped' /\ CallTyped'
  <2>1. CASE s = <<>>
    BY <1>2, <2>1, PartsStay
  <2>2. CASE s # <<>>
    <3>1. [do |-> "append", recs |-> ToSet(s)] \in PrimSet
      BY <1>1, <2>2, PiecesAre DEF PrimSet
    <3> QED BY <1>1, <1>2, <2>2, <3>1, InsertTyped
  <2> QED BY <2>1, <2>2
<1>5. editing \in OnPages
  BY <1>1, <1>2 DEF ViewTyped, OnPages
<1>6. InkReplaced(editing, s) \in OpSet
  BY <1>3, <1>5, OpsAre
<1>7. StacksTyped'
  BY <1>1, <1>2, <1>6, PushTyped
<1>8. ViewTyped'
  BY <1>1, <1>2 DEF ViewTyped, view
<1>9. JobOK'
  BY <1>2, PartsStay
<1> QED BY <1>4, <1>7, <1>8, <1>9, TypesNext

\* An operation goes from one stack to the other.
LEMMA MoveTyped ==
  ASSUME NEW from \in Seq(OpSet), NEW to \in Seq(OpSet), from # <<>>
  PROVE  /\ Head(from) \in OpSet /\ Tail(from) \in Seq(OpSet) /\ <<Head(from)>> \o to \in Seq(OpSet)
         /\ Len(Tail(from)) + Len(<<Head(from)>> \o to) = Len(from) + Len(to)
<1>1. /\ Head(from) \in OpSet /\ Tail(from) \in Seq(OpSet) /\ Len(Tail(from)) = Len(from) - 1
      /\ Len(from) \in Nat
  BY TailIs
<1>2. <<Head(from)>> \o to \in Seq(OpSet) /\ Len(<<Head(from)>> \o to) = Len(to) + 1 /\ Len(to) \in Nat
  BY <1>1, FrontIs
<1> QED BY <1>1, <1>2

\* Undo.
LEMMA UndoLastTypes == ASSUME Types, UndoLast PROVE Types'
<1>1. StacksTyped /\ CallTyped
  BY TypesAre
<1>2. /\ undoStack # <<>> /\ todo = <<>> /\ todo' = Head(undoStack).undo
      /\ undoStack' = Tail(undoStack) /\ redoStack' = <<Head(undoStack)>> \o redoStack
      /\ UNCHANGED <<rows, cache, half, editing, view, job>>
  BY DEF UndoLast, Idle, Ready
<1> DEFINE a == Tail(undoStack)
           b == <<Head(undoStack)>> \o redoStack
<1>3. /\ Head(undoStack) \in OpSet /\ a \in Seq(OpSet) /\ b \in Seq(OpSet)
      /\ Len(a) + Len(b) = Len(undoStack) + Len(redoStack)
  BY <1>1, <1>2, MoveTyped DEF StacksTyped
<1> HIDE DEF a, b
<1>4. undoStack' = a /\ redoStack' = b
  BY <1>2 DEF a, b
<1>5. StacksTyped'
  BY <1>1, <1>3, <1>4 DEF StacksTyped
<1>6. half = None
  BY <1>1, <1>2 DEF CallTyped
<1>7. CallTyped'
  BY <1>2, <1>3, <1>6 DEF CallTyped, OpSet
<1> QED BY <1>2, <1>5, <1>7, PartsStay, TypesNext

\* Redo.
LEMMA RedoLastTypes == ASSUME Types, RedoLast PROVE Types'
<1>1. StacksTyped /\ CallTyped
  BY TypesAre
<1>2. /\ redoStack # <<>> /\ todo = <<>> /\ todo' = Head(redoStack).redo
      /\ redoStack' = Tail(redoStack) /\ undoStack' = <<Head(redoStack)>> \o undoStack
      /\ UNCHANGED <<rows, cache, half, editing, view, job>>
  BY DEF RedoLast, Idle, Ready
<1> DEFINE a == Tail(redoStack)
           b == <<Head(redoStack)>> \o undoStack
<1>3. /\ Head(redoStack) \in OpSet /\ a \in Seq(OpSet) /\ b \in Seq(OpSet)
      /\ Len(a) + Len(b) = Len(redoStack) + Len(undoStack)
  BY <1>1, <1>2, MoveTyped DEF StacksTyped
<1> HIDE DEF a, b
<1>4. redoStack' = a /\ undoStack' = b
  BY <1>2 DEF a, b
<1>5. Len(a) \in Nat /\ Len(b) \in Nat /\ Len(undoStack) \in Nat /\ Len(redoStack) \in Nat
  BY <1>1, <1>3 DEF StacksTyped
<1>6. StacksTyped'
  BY <1>1, <1>3, <1>4, <1>5 DEF StacksTyped
<1>7. half = None
  BY <1>1, <1>2 DEF CallTyped
<1>8. CallTyped'
  BY <1>2, <1>3, <1>7 DEF CallTyped, OpSet
<1> QED BY <1>2, <1>6, <1>8, PartsStay, TypesNext

\* The row of a restored annotation is written.
LEMMA WriteRowTypes == ASSUME Types, WriteRow PROVE Types'
<1>1. RowsTyped /\ CallTyped
  BY TypesAre
<1>2. /\ todo # <<>> /\ rows' = Inserted(rows, Head(todo).recs) /\ half' = EmptyBag
      /\ UNCHANGED <<cache, stacks, todo, editing, view, job>>
  BY DEF WriteRow
<1>3. Head(todo) \in PrimSet
  BY <1>1, <1>2, TailIs DEF CallTyped
<1>4. Head(todo).recs \in SUBSET Annotation /\ Distinct(Head(todo).recs)
  BY <1>3 DEF PrimSet, OnPages
<1>5. RowsTyped'
  BY <1>1, <1>2, <1>4, RowsOK DEF RowsTyped, Distinct
<1>6. \A k, q : EmptyBag \in ListsAt(k, q)
  BY BagAt DEF EmptyBag
<1>7. CallTyped'
  BY <1>1, <1>2, <1>6 DEF CallTyped
<1> QED BY <1>2, <1>5, <1>7, PartsStay, TypesNext

\* What the first primitive is about.
LEMMA HeadIs ==
  ASSUME Types, todo # <<>>
  PROVE  /\ Head(todo) \in PrimSet /\ Head(todo).recs # {}
         /\ \A r \in Head(todo).recs : r \in OnPages /\ Kind(r.id) \in Kinds /\ r.page \in Pages
<1>1. Head(todo) \in PrimSet
  BY TailIs DEF Types
<1>2. Head(todo).recs # {} /\ \A r \in Head(todo).recs : r \in OnPages
  BY <1>1 DEF PrimSet
<1> QED BY <1>1, <1>2, KindIs DEF OnPages

\* A row is deleted, if the list has it.
LEMMA DeleteRowTypes == ASSUME Types, DeleteRow PROVE Types'
<1>1. CacheTyped /\ CallTyped
  BY TypesAre
<1>2. todo # <<>> /\ half = None /\ UNCHANGED <<stacks, editing, view, job>>
  BY DEF DeleteRow
<1>3. PICK r \in Head(todo).recs :
        LET list == ListFor(Kind(r.id), r.page)
        IN  IF Matches(list, r.id) = {}
            THEN /\ cache' = [cache EXCEPT ![Kind(r.id)][r.page] = list]
                 /\ todo' = Tail(todo)
                 /\ UNCHANGED <<rows, half>>
            ELSE (\E m \in Matches(list, r.id) : Take(list, m)) /\ UNCHANGED todo
  BY DEF DeleteRow
<1> DEFINE k == Kind(r.id)
           p == r.page
           list == ListFor(k, p)
<1>4. k \in Kinds /\ p \in Pages
  BY <1>2, HeadIs
<1>5. \A q \in Head(todo).recs : Kind(q.id) = k /\ q.page = p
  BY <1>2, HeadIs DEF PrimSet
<1>6. \/ /\ cache' = [cache EXCEPT ![k][p] = list]
         /\ todo' = Tail(todo)
         /\ UNCHANGED <<rows, half>>
      \/ \E m \in Matches(list, r.id) : Take(list, m) /\ UNCHANGED todo
  BY <1>3
<1> HIDE DEF k, p
<1>7. list \in ListsAt(k, p)
  BY <1>4, ListForAt
<1>8. CASE cache' = [cache EXCEPT ![k][p] = list] /\ todo' = Tail(todo) /\ UNCHANGED <<rows, half>>
  <2>1. CacheTyped'
    BY <1>1, <1>4, <1>7, <1>8, PutTyped
  <2>2. CallTyped'
    BY <1>1, <1>2, <1>8, CallTail
  <2> QED BY <1>2, <1>8, <2>1, <2>2, PartsStay, TypesNext
<1>9. ASSUME NEW m \in Matches(list, r.id), Take(list, m), UNCHANGED todo
      PROVE  Types'
  <2>1. m \in DOMAIN list
    BY <1>4, <1>9, MatchIs
  <2>2. RowsTyped' /\ CacheTyped' /\ half' \in ListsAt(k, p)
    BY <1>4, <1>9, <2>1, TakeTyped
  <2>3. CallTyped'
    BY <1>1, <1>2, <1>5, <1>9, <2>2 DEF CallTyped
  <2> QED BY <1>2, <2>2, <2>3, PartsStay, TypesNext
<1> QED BY <1>6, <1>8, <1>9

\* A note put into a list of its page.
LEMMA WithNoteAt ==
  ASSUME NEW k, NEW p, NEW b \in ListsAt(k, p), NEW r \in At(k, p)
  PROVE  WithNote(b, r) \in ListsAt(k, p)
<1>1. CASE Matches(b, r.id) = {}
  BY <1>1, BagsAt DEF WithNote
<1>2. CASE Matches(b, r.id) # {}
  <2> DEFINE old == CHOOSE m \in Matches(b, r.id) : TRUE
  <2>1. old \in Matches(b, r.id)
    BY <1>2
  <2>2. WithNote(b, r) = BagAdd(BagRemove(b, old), r)
    BY <1>2 DEF WithNote
  <2> HIDE DEF old
  <2>3. old \in At(k, p)
    BY <2>1, BagsAt DEF Matches
  <2>4. BagRemove(b, old) \in ListsAt(k, p)
    BY <2>3, BagsAt
  <2> QED BY <2>2, <2>4, BagsAt
<1> QED BY <1>1, <1>2

\* What the list of a primitive becomes.
Placed(p, r) ==
    LET list == ListFor(Kind(r.id), r.page)
    IN  CASE p.do = "remove" -> half
          [] p.do = "append" -> list (+) SetToBag(p.recs)
          [] p.do = "replace" -> WithNote(list, r)

\* The list of the first primitive is put back.
LEMMA PlaceIs ==
  ASSUME Types, Place
  PROVE  \E r \in Head(todo).recs :
            /\ r = CHOOSE x \in Head(todo).recs : TRUE
            /\ cache' = [cache EXCEPT ![Kind(r.id)][r.page] = Placed(Head(todo), r)]
            /\ todo # <<>> /\ half # None /\ half' = None /\ todo' = Tail(todo)
            /\ UNCHANGED <<rows, stacks, editing, view, job>>
<1>1. half # None /\ todo # <<>>
  BY DEF Types, Place
<1> DEFINE r == CHOOSE x \in Head(todo).recs : TRUE
<1>2. r \in Head(todo).recs
  BY <1>1, HeadIs
<1>3. cache' = [cache EXCEPT ![Kind(r.id)][r.page] = Placed(Head(todo), r)]
  BY DEF Place, Placed
<1>4. half' = None /\ todo' = Tail(todo) /\ UNCHANGED <<rows, stacks, editing, view, job>>
  BY DEF Place
<1>5. r = CHOOSE x \in Head(todo).recs : TRUE
  OBVIOUS
<1> HIDE DEF r
<1> QED BY <1>1, <1>2, <1>3, <1>4, <1>5

\* What a primitive is about is on one page and of one kind.
LEMMA RecsAt ==
  ASSUME NEW p \in PrimSet, NEW r \in p.recs
  PROVE  /\ p.recs \in SUBSET At(Kind(r.id), r.page) /\ r \in OnPages /\ r.page \in Pages
         /\ Kind(r.id) \in Kinds /\ r \in At(Kind(r.id), r.page)
<1>1. p.recs \subseteq OnPages /\ r \in OnPages
  BY DEF PrimSet
<1>2. \A q \in p.recs : Kind(q.id) = Kind(r.id) /\ q.page = r.page
  BY DEF PrimSet
<1> QED BY <1>1, <1>2, KindIs DEF At, OnPages

\* The list of a page after a primitive is a list of that page.
LEMMA PlaceTypes == ASSUME Types, Place PROVE Types'
<1>1. CacheTyped /\ CallTyped
  BY TypesAre
<1>2. PICK r \in Head(todo).recs :
            /\ cache' = [cache EXCEPT ![Kind(r.id)][r.page] = Placed(Head(todo), r)]
            /\ todo # <<>> /\ half # None /\ half' = None /\ todo' = Tail(todo)
            /\ UNCHANGED <<rows, stacks, editing, view, job>>
  BY PlaceIs
<1> DEFINE k == Kind(r.id)
           p == r.page
           list == ListFor(k, p)
           h == Head(todo)
<1>3. h \in PrimSet
  BY <1>2, HeadIs
<1>4. k \in Kinds /\ p \in Pages /\ h.recs \in SUBSET At(k, p) /\ r \in At(k, p)
  BY <1>3, RecsAt
<1>5. half \in ListsAt(k, p)
  BY <1>1, <1>2 DEF CallTyped
<1>6. Placed(h, r) = CASE h.do = "remove" -> half
                       [] h.do = "append" -> list (+) SetToBag(h.recs)
                       [] h.do = "replace" -> WithNote(list, r)
  BY DEF Placed
<1>7. h.do \in {"append", "remove", "replace"}
  BY <1>3 DEF PrimSet
<1>8. cache' = [cache EXCEPT ![k][p] = Placed(h, r)]
  BY <1>2
<1> HIDE DEF k, p, h
<1>9. list \in ListsAt(k, p) /\ SetToBag(h.recs) \in ListsAt(k, p)
  <2>1. list \in ListsAt(k, p)
    BY <1>4, ListForAt
  <2>2. SetToBag(h.recs) \in ListsAt(k, p)
    BY <1>4, BagAt
  <2> QED BY <2>1, <2>2
<1>10. list (+) SetToBag(h.recs) \in ListsAt(k, p) /\ WithNote(list, r) \in ListsAt(k, p)
  <2> HIDE DEF list
  <2>1. list (+) SetToBag(h.recs) \in ListsAt(k, p)
    BY <1>9, BagsAt
  <2>2. WithNote(list, r) \in ListsAt(k, p)
    BY <1>4, <1>9, WithNoteAt
  <2> QED BY <2>1, <2>2
<1>11. Placed(h, r) \in ListsAt(k, p)
  <2> HIDE DEF list
  <2> QED BY <1>5, <1>6, <1>7, <1>9, <1>10
<1>12. CacheTyped'
  <2> HIDE DEF list
  <2> QED BY <1>1, <1>4, <1>8, <1>11, PutTyped
<1>13. CallTyped'
  BY <1>1, <1>2, CallTail
<1> QED BY <1>2, <1>12, <1>13, PartsStay, TypesNext

\* The lists of the page are loaded.
LEMMA DrawTypes == ASSUME Types, Draw PROVE Types'
<1>1. CacheTyped /\ page \in Pages
  BY TypesAre DEF ViewTyped
<1>2. /\ cache' = [k \in Kinds |-> [cache[k] EXCEPT ![page] = ListFor(k, page)]]
      /\ UNCHANGED <<rows, stacks, todo, half, editing, view, job>>
  BY DEF Draw
<1>3. ASSUME NEW k \in Kinds
      PROVE  /\ cache'[k] \in [Pages -> {None} \cup ListSet]
             /\ \A p \in Pages : cache'[k][p] # None => cache'[k][p] \in ListsAt(k, p)
  <2>1. cache[k] \in [Pages -> {None} \cup ListSet]
    BY <1>1 DEF CacheTyped
  <2>2. ListFor(k, page) \in ListSet /\ ListFor(k, page) \in ListsAt(k, page)
    BY <1>1, ListForAt
  <2>3. cache'[k] = [cache[k] EXCEPT ![page] = ListFor(k, page)]
    BY <1>2
  <2>4. \A p \in Pages : cache'[k][p] = IF p = page THEN ListFor(k, page) ELSE cache[k][p]
    BY <2>1, <2>3
  <2> QED BY <1>1, <2>1, <2>2, <2>3, <2>4 DEF CacheTyped
<1>4. cache' \in [Kinds -> [Pages -> {None} \cup ListSet]]
  BY <1>2, <1>3
<1>5. CacheTyped'
  BY <1>3, <1>4 DEF CacheTyped
<1> QED BY <1>2, <1>5, PartsStay, TypesNext

-----------------------------------------------------------------------------
(* Types after the steps of pages and jobs *)

\* Another page is shown, or annotations are hidden or shown.
LEMMA ViewTypes ==
  ASSUME Types, (\E p \in Pages : TurnPage(p)) \/ ToggleComments
  PROVE  Types'
<1>1. page' \in Pages /\ visible' \in BOOLEAN /\ editing' = editing
      /\ UNCHANGED <<rows, cache, stacks, todo, half, job>>
  BY DEF TurnPage, ToggleComments, Types, Typed
<1>2. ViewTyped'
  BY <1>1, TypesAre DEF ViewTyped
<1> QED BY <1>1, <1>2, PartsStay, TypesNext

\* The lists of the panel are read from the store.
LEMMA CommentsReadTypes == ASSUME Types, NEW p \in Pages, CommentsRead(p) PROVE Types'
<1> DEFINE K == {c \in Kinds : cache[c][p] = None}
<1>1. /\ job' = [what |-> "comments", page |-> p, lists |-> [k \in K |-> SetToBag(Rows(k, p))]]
      /\ UNCHANGED <<rows, cache, stacks, todo, half, editing, view>>
  BY DEF CommentsRead
<1>2. \A k \in K : SetToBag(Rows(k, p)) \in ListsAt(k, p)
  <2>1. ASSUME NEW k \in K PROVE SetToBag(Rows(k, p)) \in ListsAt(k, p)
    <3>1. Rows(k, p) \in SUBSET At(k, p)
      BY RowsAt DEF Types, Typed
    <3> QED BY <3>1, BagAt
  <2> QED BY <2>1
<1>3. JobOK'
  BY <1>1, <1>2 DEF JobOK
<1> QED BY <1>1, <1>3, PartsStay, TypesNext

\* They are kept.
LEMMA CommentsKeepTypes == ASSUME Types, CommentsKeep PROVE Types'
<1>1. CacheTyped /\ JobOK
  BY TypesAre
<1>2. /\ job.what = "comments" /\ job' = NoJob
      /\ cache' = [k \in Kinds |->
                    IF k \in DOMAIN job.lists THEN [cache[k] EXCEPT ![job.page] = job.lists[k]]
                    ELSE cache[k]]
      /\ UNCHANGED <<rows, stacks, todo, half, editing, view>>
  BY DEF CommentsKeep
<1>3. ASSUME NEW k \in Kinds
      PROVE  /\ cache'[k] \in [Pages -> {None} \cup ListSet]
             /\ \A p \in Pages : cache'[k][p] # None => cache'[k][p] \in ListsAt(k, p)
  <2>1. cache[k] \in [Pages -> {None} \cup ListSet]
    BY <1>1 DEF CacheTyped
  <2>2. CASE k \notin DOMAIN job.lists
    <3>1. cache'[k] = cache[k]
      BY <1>2, <2>2
    <3> QED BY <1>1, <2>1, <3>1 DEF CacheTyped
  <2>3. CASE k \in DOMAIN job.lists
    <3> DEFINE b == job.lists[k]
               q == job.page
    <3>1. b \in ListsAt(k, q) /\ q \in Pages
      BY <1>1, <1>2, <2>3 DEF JobOK
    <3>2. b \in ListSet
      BY <3>1 DEF ListsAt
    <3>3. cache'[k] = [cache[k] EXCEPT ![q] = b]
      BY <1>2, <2>3
    <3> HIDE DEF b, q
    <3>4. \A p \in Pages : cache'[k][p] = IF p = q THEN b ELSE cache[k][p]
      BY <2>1, <3>3
    <3> QED BY <1>1, <2>1, <3>1, <3>2, <3>3, <3>4 DEF CacheTyped
  <2> QED BY <2>2, <2>3
<1>4. cache' \in [Kinds -> [Pages -> {None} \cup ListSet]]
  BY <1>2, <1>3
<1>5. CacheTyped'
  BY <1>3, <1>4 DEF CacheTyped
<1>6. JobOK'
  BY <1>2, PlainJob DEF NoJob
<1> QED BY <1>2, <1>5, <1>6, PartsStay, TypesNext

\* A row of a bundle is written.
LEMMA ImportRowsTypes == ASSUME Types, NEW r \in Bundle, ImportRows(r) PROVE Types'
<1>1. /\ rows' = Inserted(rows, {r}) /\ job' = [what |-> "import"]
      /\ UNCHANGED <<cache, stacks, todo, half, editing, view>>
  BY DEF ImportRows
<1>2. {r} \in SUBSET Annotation /\ Distinct({r}) /\ RowsTyped
  BY AnnotationAssumption, TypesAre DEF Distinct
<1>3. RowsTyped'
  BY <1>1, <1>2, RowsOK DEF RowsTyped, Distinct
<1>4. JobOK'
  BY <1>1, PlainJob
<1> QED BY <1>1, <1>3, <1>4, PartsStay, TypesNext

\* The lists are forgotten.
LEMMA ImportClearTypes == ASSUME Types, ImportClear PROVE Types'
<1>1. /\ cache' = NoLists /\ undoStack' = <<>> /\ redoStack' = <<>> /\ job' = NoJob
      /\ UNCHANGED <<rows, todo, half, editing, view>>
  BY DEF ImportClear
<1>2. CacheTyped'
  BY <1>1, NoListsTyped
<1>3. StacksTyped'
  BY <1>1, NoStacksTyped
<1>4. JobOK'
  BY <1>1, PlainJob DEF NoJob
<1> QED BY <1>1, <1>2, <1>3, <1>4, PartsStay, TypesNext

\* An annotation of another layout.
LEMMA OtherIs ==
  ASSUME NEW r \in Annotation, NEW p \in Pages \cup {Other}
  PROVE  /\ [r EXCEPT !.page = p] \in Annotation /\ [r EXCEPT !.page = p].id = r.id
         /\ [r EXCEPT !.page = p].page = p
<1> DEFINE new == [r EXCEPT !.page = p]
<1>1. r \in [id : IdsOf, page : Pages \cup {Other}, ver : Versions] /\ (r.id \in Notes \/ r.ver = 0)
  BY DEF Annotation
<1>2. /\ new \in [id : IdsOf, page : Pages \cup {Other}, ver : Versions]
      /\ new.id = r.id /\ new.page = p /\ new.ver = r.ver
  BY <1>1
<1> HIDE DEF new
<1>3. new \in Annotation
  BY <1>1, <1>2 DEF Annotation
<1> QED BY <1>2, <1>3 DEF new

\* The layout changes.
LEMMA RelayoutTypes == ASSUME Types, Relayout PROVE Types'
<1>1. /\ rows' = {[r EXCEPT !.page = Other] : r \in rows}
      /\ cache' = NoLists /\ undoStack' = <<>> /\ redoStack' = <<>> /\ job' = [what |-> "relayout"]
      /\ UNCHANGED <<todo, half, editing, view>>
  BY DEF Relayout
<1>2. CacheTyped'
  BY <1>1, NoListsTyped
<1>3. StacksTyped'
  BY <1>1, NoStacksTyped
<1>4. JobOK'
  BY <1>1, PlainJob
<1>5. RowsTyped
  BY TypesAre
<1>6. ASSUME NEW t \in rows'
      PROVE  \E r \in rows : t = [r EXCEPT !.page = Other] /\ t.id = r.id /\ t \in Annotation
  <2>1. PICK r \in rows : t = [r EXCEPT !.page = Other]
    BY <1>1
  <2>2. r \in Annotation
    BY <1>5 DEF RowsTyped
  <2> QED BY <2>1, <2>2, OtherIs
<1>7. RowsTyped'
  <2>1. rows' \subseteq Annotation
    BY <1>6
  <2>2. ASSUME NEW t \in rows', NEW u \in rows', t.id = u.id PROVE t = u
    <3>1. PICK r \in rows : t = [r EXCEPT !.page = Other] /\ t.id = r.id
      BY <1>6
    <3>2. PICK v \in rows : u = [v EXCEPT !.page = Other] /\ u.id = v.id
      BY <1>6
    <3>3. r = v
      BY <1>5, <2>2, <3>1, <3>2 DEF RowsTyped, Distinct
    <3> QED BY <3>1, <3>2, <3>3
  <2> QED BY <2>1, <2>2 DEF RowsTyped, Distinct
<1> QED BY <1>1, <1>2, <1>3, <1>4, <1>7, PartsStay, TypesNext

\* The highlights of the old layout are read.
LEMMA ReanchorReadTypes == ASSUME Types, ReanchorRead PROVE Types'
<1>1. /\ job' = [what |-> "reanchor", updated |-> FALSE,
                all |-> {r \in rows : Kind(r.id) = "highlight" /\ r.page = Other}]
      /\ UNCHANGED <<rows, cache, stacks, todo, half, editing, view>>
  BY DEF ReanchorRead
<1>2. rows \subseteq Annotation
  BY DEF Types, Typed
<1>3. JobOK'
  BY <1>1, <1>2 DEF JobOK
<1> QED BY <1>1, <1>3, PartsStay, TypesNext

\* A highlight is written with the page its quote was found on.
LEMMA ReanchorTypes == ASSUME Types, Reanchor PROVE Types'
<1>1. PICK r \in job.all, p \in Pages \cup {Other} : ReanchorRow(r, p)
  BY DEF Reanchor
<1>2. JobOK /\ RowsTyped /\ job.what = "reanchor"
  BY TypesAre DEF Reanchor
<1>3. r \in Annotation
  BY <1>2 DEF JobOK
<1> DEFINE new == [r EXCEPT !.page = p]
<1>4. new \in Annotation
  BY <1>3, OtherIs
<1>5. rows' = IF p = Other THEN rows ELSE Inserted(rows, {new})
  BY <1>1 DEF ReanchorRow
<1> HIDE DEF new
<1>6. RowsTyped'
  <2>1. {new} \in SUBSET Annotation /\ Distinct({new})
    BY <1>4 DEF Distinct
  <2> QED BY <1>2, <1>5, <2>1, RowsOK DEF RowsTyped, Distinct
<1>7. /\ job' = [job EXCEPT !.all = @ \ {r}, !.updated = @ \/ p # Other]
      /\ UNCHANGED <<cache, stacks, todo, half, editing, view>>
  BY <1>1 DEF ReanchorRow
<1>8. JobOK'
  <2> QED BY <1>2, <1>7 DEF JobOK
<1> QED BY <1>6, <1>7, <1>8, PartsStay, TypesNext

\* The lists of highlights are forgotten if one was found.
LEMMA ReanchorDoneTypes == ASSUME Types, ReanchorDone PROVE Types'
<1>1. /\ cache' = IF job.updated THEN [cache EXCEPT !["highlight"] = NoLists["highlight"]] ELSE cache
      /\ job' = NoJob /\ UNCHANGED <<rows, stacks, todo, half, editing, view>>
  BY DEF ReanchorDone
<1>2. CacheTyped
  BY TypesAre
<1>3. CacheTyped'
  <2>1. CASE job.updated
    <3> DEFINE none == NoLists["highlight"]
    <3>1. none \in [Pages -> {None} \cup ListSet] /\ \A p \in Pages : none[p] = None
      BY DEF NoLists, Kinds
    <3>2. cache' = [cache EXCEPT !["highlight"] = none]
      BY <1>1, <2>1
    <3> HIDE DEF none
    <3>3. /\ cache' \in [Kinds -> [Pages -> {None} \cup ListSet]]
          /\ \A k \in Kinds : cache'[k] = IF k = "highlight" THEN none ELSE cache[k]
      BY <1>2, <3>1, <3>2 DEF CacheTyped
    <3> QED BY <1>2, <3>1, <3>3 DEF CacheTyped
  <2>2. CASE ~job.updated
    BY <1>1, <1>2, <2>2 DEF CacheTyped
  <2> QED BY <2>1, <2>2
<1>4. JobOK'
  BY <1>1, PlainJob DEF NoJob
<1> QED BY <1>1, <1>3, <1>4, PartsStay, TypesNext

\* The session ends.
LEMMA ReopenTypes == ASSUME Types, Reopen PROVE Types'
<1>1. /\ cache' = NoLists /\ undoStack' = <<>> /\ redoStack' = <<>> /\ todo' = <<>> /\ half' = None
      /\ editing' = None /\ job' = NoJob /\ visible' = TRUE /\ UNCHANGED <<rows, page>>
  BY DEF Reopen
<1>2. CacheTyped'
  BY <1>1, NoListsTyped
<1>3. StacksTyped'
  BY <1>1, NoStacksTyped
<1>4. JobOK'
  BY <1>1, PlainJob DEF NoJob
<1>5. ViewTyped'
  BY <1>1, TypesAre DEF ViewTyped
<1>6. CallTyped'
  BY <1>1 DEF CallTyped
<1> QED BY <1>1, <1>2, <1>3, <1>4, <1>5, <1>6, PartsStay, TypesNext

-----------------------------------------------------------------------------

\* The session starts so.
LEMMA InitTypes == ASSUME Init PROVE Types
<1>1. CacheTyped
  BY DEF Init, NoLists, CacheTyped
<1>2. RowsTyped /\ ViewTyped /\ JobOK /\ CallTyped
  BY DEF Init, RowsTyped, Distinct, ViewTyped, JobOK, NoJob, CallTyped
<1>3. StacksTyped
  BY SidecarAssumption DEF Init, StacksTyped
<1> QED BY <1>1, <1>2, <1>3, TypesAre

\* Every step keeps the types.
LEMMA StepTypes == ASSUME Types, [Next]_vars PROVE Types'
<1>1. CASE User
  BY <1>1, AddInkTypes, EraseEndTypes, AddTypes, DeleteSelectedTypes, UpdateNoteTypes,
     EraseBeginTypes, UndoLastTypes, RedoLastTypes, ViewTypes, RelayoutTypes, ReopenTypes
     DEF User
<1>2. CASE Session
  BY <1>2, WriteRowTypes, DeleteRowTypes, PlaceTypes, DrawTypes DEF Session
<1>3. CASE Background
  BY <1>3, CommentsReadTypes, ImportRowsTypes, CommentsKeepTypes, ImportClearTypes,
     ReanchorReadTypes, ReanchorTypes, ReanchorDoneTypes DEF Background
<1>4. CASE UNCHANGED vars
  BY <1>4, PartsStay, TypesNext DEF vars
<1> QED BY <1>1, <1>2, <1>3, <1>4 DEF Next

\* A session is disturbed or it is not.
LEMMA StepDisturbed == ASSUME disturbed \in BOOLEAN, [Next]_vars PROVE disturbed' \in BOOLEAN
<1>1. CASE User
  BY <1>1 DEF User, AddInk, EraseEnd, Add, DeleteSelected, UpdateNote, EraseBegin, UndoLast,
     RedoLast, TurnPage, ToggleComments, Relayout, Reopen, Orderly
<1>2. CASE Session
  BY <1>2 DEF Session, WriteRow, DeleteRow, Place, Draw
<1>3. CASE Background
  BY <1>3 DEF Background, CommentsRead, ImportRows, CommentsKeep, ImportClear, ReanchorRead,
     Reanchor, ReanchorDone, Orderly
<1>4. CASE UNCHANGED vars
  BY <1>4 DEF vars
<1> QED BY <1>1, <1>2, <1>3, <1>4 DEF Next

\* Type correctness: whatever calls are cut short, whatever a job does between
\* two of them, lists hold annotations, rows differ in their ids, no more
\* operations are kept than there is room for.
THEOREM SidecarTyped == Spec => []TypeOK
<1>1. Init => Types /\ disturbed \in BOOLEAN
  BY InitTypes DEF Init
<1>2. Types /\ disturbed \in BOOLEAN /\ [Next]_vars => (Types /\ disturbed \in BOOLEAN)'
  BY StepTypes, StepDisturbed
<1>3. Types /\ disturbed \in BOOLEAN => TypeOK
  BY DEF Types, Typed, TypeOK
<1> QED BY <1>1, <1>2, <1>3, PTL DEF Spec

-----------------------------------------------------------------------------
(* Chains of operations *)

\* What undoing and what redoing each operation of a stack runs.
UndosOf(s) == [i \in DOMAIN s |-> s[i].undo]
RedosOf(s) == [i \in DOMAIN s |-> s[i].redo]

\* The sides of a stack with one more operation, and with one less.
LEMMA SidesFront ==
  ASSUME NEW s \in Seq(OpSet), NEW op \in OpSet
  PROVE  /\ UndosOf(<<op>> \o s) = <<op.undo>> \o UndosOf(s)
         /\ RedosOf(<<op>> \o s) = <<op.redo>> \o RedosOf(s)
<1> DEFINE t == <<op>> \o s
           n == Len(s)
           P == Seq(PrimSet)
<1>1. /\ t \in Seq(OpSet) /\ Len(t) = n + 1 /\ t[1] = op /\ \A i \in 2..n + 1 : t[i] = s[i - 1]
      /\ n \in Nat /\ DOMAIN t = 1..n + 1 /\ DOMAIN s = 1..n
  BY FrontIs
<1>2. /\ op.undo \in P /\ op.redo \in P
      /\ \A i \in 1..n : s[i].undo \in P /\ s[i].redo \in P
  <2>1. \A q \in OpSet : q.undo \in P /\ q.redo \in P
    BY DEF OpSet
  <2>2. \A i \in 1..n : s[i] \in OpSet
    OBVIOUS
  <2> QED BY <2>1, <2>2
<1> HIDE DEF t, n, P
<1>3. UndosOf(s) = [i \in 1..n |-> s[i].undo] /\ RedosOf(s) = [i \in 1..n |-> s[i].redo]
  BY <1>1 DEF UndosOf, RedosOf
<1>4. UndosOf(t) = [i \in 1..n + 1 |-> t[i].undo] /\ RedosOf(t) = [i \in 1..n + 1 |-> t[i].redo]
  BY <1>1 DEF UndosOf, RedosOf
<1>5. ASSUME NEW i \in 1..n + 1 PROVE t[i].undo \in P /\ t[i].redo \in P
  <2>1. t[i] \in OpSet
    <3>1. i \in DOMAIN t
      BY <1>1
    <3> QED BY <1>1, <3>1
  <2> QED BY <2>1 DEF OpSet, P
<1>6. /\ UndosOf(t) \in Seq(P) /\ Len(UndosOf(t)) = n + 1
      /\ RedosOf(t) \in Seq(P) /\ Len(RedosOf(t)) = n + 1
  <2> DEFINE f == UndosOf(t)
             g == RedosOf(t)
  <2>1. f \in [1..n + 1 -> P] /\ g \in [1..n + 1 -> P]
    BY <1>4, <1>5
  <2> HIDE DEF f, g
  <2>2. n + 1 \in Nat
    BY <1>1
  <2>3. f \in Seq(P) /\ Len(f) = n + 1
    BY <2>1, <2>2
  <2>4. g \in Seq(P) /\ Len(g) = n + 1
    BY <2>1, <2>2
  <2> QED BY <2>3, <2>4 DEF f, g
<1>7. UndosOf(s) \in Seq(P) /\ Len(UndosOf(s)) = n /\ RedosOf(s) \in Seq(P) /\ Len(RedosOf(s)) = n
  <2> DEFINE f == UndosOf(s)
             g == RedosOf(s)
  <2>1. f \in [1..n -> P] /\ g \in [1..n -> P] /\ n \in Nat
    BY <1>1, <1>2, <1>3
  <2> HIDE DEF f, g, n
  <2>2. f \in Seq(P) /\ Len(f) = n
    BY <2>1
  <2>3. g \in Seq(P) /\ Len(g) = n
    BY <2>1
  <2> QED BY <2>2, <2>3 DEF f, g
<1> DEFINE a == <<op.undo>> \o UndosOf(s)
           b == <<op.redo>> \o RedosOf(s)
<1>8. a \in Seq(P) /\ Len(a) = n + 1 /\ a[1] = op.undo /\ \A i \in 2..n + 1 : a[i] = UndosOf(s)[i - 1]
  BY <1>2, <1>7, FrontIs
<1>9. b \in Seq(P) /\ Len(b) = n + 1 /\ b[1] = op.redo /\ \A i \in 2..n + 1 : b[i] = RedosOf(s)[i - 1]
  BY <1>2, <1>7, FrontIs
<1> HIDE DEF a, b
<1>10. ASSUME NEW i \in 1..n + 1 PROVE UndosOf(t)[i] = a[i] /\ RedosOf(t)[i] = b[i]
  <2>1. CASE i = 1
    BY <1>1, <1>4, <1>8, <1>9, <2>1
  <2>2. CASE i # 1
    <3>1. i \in 2..n + 1 /\ i - 1 \in 1..n
      BY <1>1, <2>2
    <3>2. t[i] = s[i - 1]
      BY <1>1, <3>1
    <3> QED BY <1>3, <1>4, <1>8, <1>9, <3>1, <3>2
  <2> QED BY <2>1, <2>2
<1>11. UndosOf(t) = a
  BY <1>6, <1>8, <1>10, SeqEqual
<1>12. RedosOf(t) = b
  BY <1>6, <1>9, <1>10, SeqEqual
<1> QED BY <1>11, <1>12 DEF a, b, t

\* The sides of a stack are sequences of lists of primitives.
LEMMA SidesAre ==
  ASSUME NEW s \in Seq(OpSet)
  PROVE  /\ UndosOf(s) \in OpsSet /\ Len(UndosOf(s)) = Len(s)
         /\ RedosOf(s) \in OpsSet /\ Len(RedosOf(s)) = Len(s)
         /\ \A i \in 1..Len(s) : UndosOf(s)[i] = s[i].undo /\ RedosOf(s)[i] = s[i].redo
         /\ s = <<>> => UndosOf(s) = <<>> /\ RedosOf(s) = <<>>
<1>1. Len(s) \in Nat /\ DOMAIN s = 1..Len(s) /\ \A i \in 1..Len(s) : s[i] \in OpSet
  OBVIOUS
<1>2. \A i \in 1..Len(s) : s[i].undo \in Seq(PrimSet) /\ s[i].redo \in Seq(PrimSet)
  BY <1>1 DEF OpSet
<1>3. UndosOf(s) = [i \in 1..Len(s) |-> s[i].undo] /\ RedosOf(s) = [i \in 1..Len(s) |-> s[i].redo]
  BY <1>1 DEF UndosOf, RedosOf
<1>4. UndosOf(s) \in OpsSet /\ Len(UndosOf(s)) = Len(s)
  BY <1>1, <1>2, <1>3 DEF OpsSet
<1>5. RedosOf(s) \in OpsSet /\ Len(RedosOf(s)) = Len(s)
  BY <1>1, <1>2, <1>3 DEF OpsSet
<1>6. s = <<>> => UndosOf(s) = <<>> /\ RedosOf(s) = <<>>
  BY <1>4, <1>5 DEF OpsSet
<1> QED BY <1>3, <1>4, <1>5, <1>6

\* The operations whose way out is tos and whose way back is backs lead from D
\* through documents, there and back.
ChainBy(D, tos, backs, d) ==
    /\ d[0] = D
    /\ \A i \in 1..Len(tos) :
          /\ d[i] \in Docs /\ Distinct(d[i])
          /\ Leads(d[i - 1], tos[i], d[i]) /\ Leads(d[i], backs[i], d[i - 1])
Chain(D, tos, backs) == \E d : ChainBy(D, tos, backs, d)

\* No operation is a chain.
LEMMA ChainNothing == ASSUME NEW D PROVE Chain(D, <<>>, <<>>)
<1>1. ChainBy(D, <<>>, <<>>, [i \in {0} |-> D])
  BY DEF ChainBy
<1> QED BY <1>1 DEF Chain

\* One operation more.
LEMMA ChainFront ==
  ASSUME NEW E, NEW D \in Docs, Distinct(D), NEW tos \in OpsSet, NEW backs \in OpsSet,
         Len(tos) = Len(backs), Chain(D, tos, backs),
         NEW to \in Seq(PrimSet), NEW back \in Seq(PrimSet), Leads(E, to, D), Leads(D, back, E)
  PROVE  Chain(E, <<to>> \o tos, <<back>> \o backs)
<1>1. PICK d : ChainBy(D, tos, backs, d)
  BY DEF Chain
<1> DEFINE n == Len(tos)
           a == <<to>> \o tos
           b == <<back>> \o backs
           e == [i \in 0..n + 1 |-> IF i = 0 THEN E ELSE d[i - 1]]
<1>2. /\ d[0] = D
      /\ \A i \in 1..n : /\ d[i] \in Docs /\ Distinct(d[i])
                         /\ Leads(d[i - 1], tos[i], d[i]) /\ Leads(d[i], backs[i], d[i - 1])
  BY <1>1 DEF ChainBy
<1>3. /\ Len(a) = n + 1 /\ a[1] = to /\ \A i \in 2..n + 1 : a[i] = tos[i - 1]
      /\ b[1] = back /\ \A i \in 2..n + 1 : b[i] = backs[i - 1]
      /\ n \in Nat
  BY FrontIs DEF OpsSet
<1> HIDE DEF n, a, b
<1>4. e[0] = E /\ \A i \in 1..n + 1 : e[i] = d[i - 1]
  BY <1>3
<1> HIDE DEF e
<1>5. ASSUME NEW i \in 1..n + 1
      PROVE  /\ e[i] \in Docs /\ Distinct(e[i])
             /\ Leads(e[i - 1], a[i], e[i]) /\ Leads(e[i], b[i], e[i - 1])
  <2>1. CASE i = 1
    <3>1. e[1] = D /\ e[i - 1] = E
      BY <1>2, <1>3, <1>4, <2>1
    <3> QED BY <1>3, <2>1, <3>1
  <2>2. CASE i # 1
    <3>1. i \in 2..n + 1 /\ i - 1 \in 1..n /\ i - 1 \in 1..n + 1
      BY <1>3, <2>2
    <3>2. e[i] = d[i - 1] /\ e[i - 1] = d[(i - 1) - 1] /\ a[i] = tos[i - 1] /\ b[i] = backs[i - 1]
      BY <1>3, <1>4, <3>1
    <3> QED BY <1>2, <3>1, <3>2
  <2> QED BY <2>1, <2>2
<1>6. ChainBy(E, a, b, e)
  BY <1>3, <1>4, <1>5 DEF ChainBy
<1> QED BY <1>6 DEF Chain, a, b

\* The first operation of a chain, and the rest.
LEMMA ChainHead ==
  ASSUME NEW D, NEW to \in Seq(PrimSet), NEW back \in Seq(PrimSet),
         NEW tos \in OpsSet, NEW backs \in OpsSet, Len(tos) = Len(backs),
         Chain(D, <<to>> \o tos, <<back>> \o backs)
  PROVE  \E E \in Docs : /\ Distinct(E) /\ Leads(D, to, E) /\ Leads(E, back, D)
                         /\ Chain(E, tos, backs)
<1> DEFINE n == Len(tos)
           a == <<to>> \o tos
           b == <<back>> \o backs
<1>1. PICK d : ChainBy(D, a, b, d)
  BY DEF Chain
<1>2. /\ Len(a) = n + 1 /\ a[1] = to /\ \A i \in 2..n + 1 : a[i] = tos[i - 1]
      /\ b[1] = back /\ \A i \in 2..n + 1 : b[i] = backs[i - 1]
      /\ n \in Nat
  BY FrontIs DEF OpsSet
<1> HIDE DEF a, b
<1>3. /\ d[0] = D
      /\ \A i \in 1..n + 1 : /\ d[i] \in Docs /\ Distinct(d[i])
                             /\ Leads(d[i - 1], a[i], d[i]) /\ Leads(d[i], b[i], d[i - 1])
  BY <1>1, <1>2 DEF ChainBy
<1> HIDE DEF n
<1>4. /\ d[1] \in Docs /\ Distinct(d[1]) /\ Leads(D, to, d[1]) /\ Leads(d[1], back, D)
  <2>1. 1 \in 1..n + 1 /\ 1 - 1 = 0
    BY <1>2
  <2> QED BY <1>2, <1>3, <2>1
<1> DEFINE e == [i \in 0..n |-> d[i + 1]]
<1>5. e[0] = d[1] /\ \A i \in 0..n : e[i] = d[i + 1]
  BY <1>2
<1> HIDE DEF e
<1>6. ASSUME NEW i \in 1..n
      PROVE  /\ e[i] \in Docs /\ Distinct(e[i])
             /\ Leads(e[i - 1], tos[i], e[i]) /\ Leads(e[i], backs[i], e[i - 1])
  <2>1. /\ i \in 0..n /\ i - 1 \in 0..n /\ i + 1 \in 2..n + 1 /\ i + 1 \in 1..n + 1
        /\ (i + 1) - 1 = i /\ (i - 1) + 1 = i
    BY <1>2
  <2>2. e[i] = d[i + 1] /\ e[i - 1] = d[i] /\ a[i + 1] = tos[i] /\ b[i + 1] = backs[i]
    BY <1>2, <1>5, <2>1
  <2>3. /\ d[i + 1] \in Docs /\ Distinct(d[i + 1])
        /\ Leads(d[i], a[i + 1], d[i + 1]) /\ Leads(d[i + 1], b[i + 1], d[i])
    BY <1>3, <2>1
  <2> QED BY <2>2, <2>3
<1>7. ChainBy(d[1], tos, backs, e)
  BY <1>5, <1>6 DEF ChainBy, n
<1> QED BY <1>4, <1>7 DEF Chain

\* Both stacks lead from D and back.
Chains(D, u, r) == Chain(D, UndosOf(u), RedosOf(u)) /\ Chain(D, RedosOf(r), UndosOf(r))

\* Two empty stacks.
LEMMA ChainsNothing == ASSUME NEW D PROVE Chains(D, <<>>, <<>>)
<1>1. UndosOf(<<>>) = <<>> /\ RedosOf(<<>>) = <<>>
  <2>1. <<>> \in Seq(OpSet)
    OBVIOUS
  <2> QED BY <2>1, SidesAre
<1> QED BY <1>1, ChainNothing DEF Chains

\* An edit: the operation is pushed, and the way back is to where it started.
LEMMA ChainsPush ==
  ASSUME NEW D \in Docs, Distinct(D), NEW E, NEW u \in Seq(OpSet), NEW r \in Seq(OpSet),
         Chains(D, u, r), NEW op, Legal(op, D, E)
  PROVE  Chains(E, <<op>> \o u, <<>>)
<1>1. op \in OpSet /\ Leads(E, op.undo, D) /\ Leads(D, op.redo, E)
  BY DEF Legal
<1>2. op.undo \in Seq(PrimSet) /\ op.redo \in Seq(PrimSet)
  BY <1>1 DEF OpSet
<1>3. /\ UndosOf(<<op>> \o u) = <<op.undo>> \o UndosOf(u)
      /\ RedosOf(<<op>> \o u) = <<op.redo>> \o RedosOf(u)
  BY <1>1, SidesFront
<1>4. UndosOf(u) \in OpsSet /\ RedosOf(u) \in OpsSet /\ Len(UndosOf(u)) = Len(RedosOf(u))
  BY SidesAre
<1>5. Chain(D, UndosOf(u), RedosOf(u))
  BY DEF Chains
<1>6. Chain(E, <<op.undo>> \o UndosOf(u), <<op.redo>> \o RedosOf(u))
  BY <1>1, <1>2, <1>4, <1>5, ChainFront
<1>7. Chain(E, RedosOf(<<>>), UndosOf(<<>>))
  BY ChainsNothing DEF Chains
<1> QED BY <1>3, <1>6, <1>7 DEF Chains

\* An undo: the operation goes to the other stack.
LEMMA ChainsUndo ==
  ASSUME NEW D \in Docs, Distinct(D), NEW u \in Seq(OpSet), NEW r \in Seq(OpSet),
         u # <<>>, Chains(D, u, r)
  PROVE  \E E \in Docs : /\ Distinct(E) /\ Legal(Head(u), E, D)
                         /\ Chains(E, Tail(u), <<Head(u)>> \o r)
<1> DEFINE op == Head(u)
           t == Tail(u)
<1>1. u = <<op>> \o t /\ op \in OpSet /\ t \in Seq(OpSet)
  BY FrontOfTail
<1> HIDE DEF op, t
<1>2. op.undo \in Seq(PrimSet) /\ op.redo \in Seq(PrimSet)
  BY <1>1 DEF OpSet
<1>3. UndosOf(u) = <<op.undo>> \o UndosOf(t) /\ RedosOf(u) = <<op.redo>> \o RedosOf(t)
  BY <1>1, SidesFront
<1>4. UndosOf(t) \in OpsSet /\ RedosOf(t) \in OpsSet /\ Len(UndosOf(t)) = Len(RedosOf(t))
  BY <1>1, SidesAre
<1>5. Chain(D, <<op.undo>> \o UndosOf(t), <<op.redo>> \o RedosOf(t))
  BY <1>3 DEF Chains
<1>6. PICK E \in Docs : /\ Distinct(E) /\ Leads(D, op.undo, E) /\ Leads(E, op.redo, D)
                        /\ Chain(E, UndosOf(t), RedosOf(t))
  BY <1>2, <1>4, <1>5, ChainHead
<1>7. UndosOf(r) \in OpsSet /\ RedosOf(r) \in OpsSet /\ Len(UndosOf(r)) = Len(RedosOf(r))
  BY SidesAre
<1>8. Chain(D, RedosOf(r), UndosOf(r))
  BY DEF Chains
<1>9. Chain(E, <<op.redo>> \o RedosOf(r), <<op.undo>> \o UndosOf(r))
  BY <1>2, <1>6, <1>7, <1>8, ChainFront
<1>10. /\ UndosOf(<<op>> \o r) = <<op.undo>> \o UndosOf(r)
       /\ RedosOf(<<op>> \o r) = <<op.redo>> \o RedosOf(r)
  BY <1>1, SidesFront
<1>11. Legal(op, E, D)
  BY <1>1, <1>6 DEF Legal
<1> QED BY <1>6, <1>9, <1>10, <1>11 DEF Chains, op, t

\* A redo: the operation comes back.
LEMMA ChainsRedo ==
  ASSUME NEW D \in Docs, Distinct(D), NEW u \in Seq(OpSet), NEW r \in Seq(OpSet),
         r # <<>>, Chains(D, u, r)
  PROVE  \E E \in Docs : /\ Distinct(E) /\ Legal(Head(r), D, E)
                         /\ Chains(E, <<Head(r)>> \o u, Tail(r))
<1> DEFINE op == Head(r)
           t == Tail(r)
<1>1. r = <<op>> \o t /\ op \in OpSet /\ t \in Seq(OpSet)
  BY FrontOfTail
<1> HIDE DEF op, t
<1>2. op.undo \in Seq(PrimSet) /\ op.redo \in Seq(PrimSet)
  BY <1>1 DEF OpSet
<1>3. UndosOf(r) = <<op.undo>> \o UndosOf(t) /\ RedosOf(r) = <<op.redo>> \o RedosOf(t)
  BY <1>1, SidesFront
<1>4. UndosOf(t) \in OpsSet /\ RedosOf(t) \in OpsSet /\ Len(RedosOf(t)) = Len(UndosOf(t))
  BY <1>1, SidesAre
<1>5. Chain(D, <<op.redo>> \o RedosOf(t), <<op.undo>> \o UndosOf(t))
  BY <1>3 DEF Chains
<1>6. PICK E \in Docs : /\ Distinct(E) /\ Leads(D, op.redo, E) /\ Leads(E, op.undo, D)
                        /\ Chain(E, RedosOf(t), UndosOf(t))
  BY <1>2, <1>4, <1>5, ChainHead
<1>7. UndosOf(u) \in OpsSet /\ RedosOf(u) \in OpsSet /\ Len(UndosOf(u)) = Len(RedosOf(u))
  BY SidesAre
<1>8. Chain(D, UndosOf(u), RedosOf(u))
  BY DEF Chains
<1>9. Chain(E, <<op.undo>> \o UndosOf(u), <<op.redo>> \o RedosOf(u))
  BY <1>2, <1>6, <1>7, <1>8, ChainFront
<1>10. /\ UndosOf(<<op>> \o u) = <<op.undo>> \o UndosOf(u)
       /\ RedosOf(<<op>> \o u) = <<op.redo>> \o RedosOf(u)
  BY <1>1, SidesFront
<1>11. Legal(op, D, E)
  BY <1>1, <1>6 DEF Legal
<1> QED BY <1>6, <1>9, <1>10, <1>11 DEF Chains, op, t

\* Where undoing leads, with the operation on top, and redoing.
LEMMA AlongOver ==
  ASSUME NEW D \in Docs, NEW E \in Docs, NEW op, Legal(op, D, E), NEW s \in Seq(OpSet)
  PROVE  /\ Along(E, UndosOf(<<op>> \o s)) = <<D>> \o Along(D, UndosOf(s))
         /\ Along(D, RedosOf(<<op>> \o s)) = <<E>> \o Along(E, RedosOf(s))
<1>1. op \in OpSet /\ Leads(E, op.undo, D) /\ Leads(D, op.redo, E)
  BY DEF Legal
<1>2. op.undo \in Seq(PrimSet) /\ op.redo \in Seq(PrimSet)
  BY <1>1 DEF OpSet
<1>3. RowsAfter(E, op.undo) = D /\ RowsAfter(D, op.redo) = E
  BY <1>1, <1>2, LeadsAfter
<1>4. UndosOf(s) \in OpsSet /\ RedosOf(s) \in OpsSet
  BY SidesAre
<1> DEFINE a == <<op.undo>> \o UndosOf(s)
           b == <<op.redo>> \o RedosOf(s)
<1>5. /\ a \in OpsSet /\ a # <<>> /\ Head(a) = op.undo /\ Tail(a) = UndosOf(s)
  BY <1>2, <1>4, FrontIs, TailOfFront DEF OpsSet
<1>6. /\ b \in OpsSet /\ b # <<>> /\ Head(b) = op.redo /\ Tail(b) = RedosOf(s)
  BY <1>2, <1>4, FrontIs, TailOfFront DEF OpsSet
<1> HIDE DEF a, b
<1>7. Along(E, a) = <<D>> \o Along(D, UndosOf(s))
  BY <1>3, <1>5, AlongHead
<1>8. Along(D, b) = <<E>> \o Along(E, RedosOf(s))
  <2>1. LET G == RowsAfter(D, Head(b)) IN Along(D, b) = <<G>> \o Along(G, Tail(b))
    BY <1>6, AlongHead
  <2> QED BY <1>3, <1>6, <2>1
<1>9. UndosOf(<<op>> \o s) = a /\ RedosOf(<<op>> \o s) = b
  BY <1>1, SidesFront DEF a, b
<1> QED BY <1>7, <1>8, <1>9

-----------------------------------------------------------------------------
(* The invariant *)

\* While a job runs the user's call is over; lists are dropped only on a page
\* that is shown, and what is hidden has its lists.
Alone == job # NoJob => todo = <<>> /\ editing = None
Shown ==
    /\ ~visible => \A k \in Kinds : cache[k][page] # None
    /\ job.what \in {"import", "relayout", "reanchor"} => visible
    /\ job.what \in {"relayout", "reanchor"} => undoStack = <<>> /\ redoStack = <<>>

\* The lists whose rows were changed and which are not changed yet, or dropped.
Stale(k, p) ==
    \/ Importing
    \/ job.what = "reanchor" /\ job.updated /\ k = "highlight"
    \/ half # None /\ \E r \in Head(todo).recs : Kind(r.id) = k /\ r.page = p
Exact ==
    \A k \in Kinds, p \in Pages :
        cache[k][p] # None /\ ~Stale(k, p) => cache[k][p] = SetToBag(Rows(k, p))
Loaded ==
    job.what = "comments" =>
        \A k \in DOMAIN job.lists : job.lists[k] = SetToBag(Rows(k, job.page))

\* The list that Place is about to leave is right.
Placing ==
    half # None =>
        \A r \in Head(todo).recs : Placed(Head(todo), r) = SetToBag(Rows(Kind(r.id), r.page))

\* What a primitive is about is in a list that is there.
WarmOn(c, prims) ==
    \A i \in 1..Len(prims) : \A r \in prims[i].recs : c[Kind(r.id)][r.page] # None
WarmOp(c, op) == WarmOn(c, op.undo) /\ WarmOn(c, op.redo)
WarmStack(c, s) == \A i \in 1..Len(s) : WarmOp(c, s[i])
Warm == WarmOn(cache, todo) /\ WarmStack(cache, undoStack) /\ WarmStack(cache, redoStack)

\* The primitives of the call find what they expect.
LeadsOn(R, prims, h) ==
    IF h = None THEN Leads(R, prims, RowsAfter(R, prims))
    ELSE Run(R, Head(prims)) = R /\ Leads(R, Tail(prims), RowsAfter(R, prims))
Leading == LeadsOn(rows, todo, half)

\* The stroke that is erased is on the page, and in no row.
Erasing ==
    editing # None =>
        /\ editing.page = page /\ \A q \in rows : q.id # editing.id
        /\ todo = <<>> \/ (half # None /\ todo = <<Remove1(editing)>>)

\* The stacks lead from the document and back.
Reversible == Distinct(Doc) /\ (~Importing => Chains(Doc, undoStack, redoStack))

ListsRight == Alone /\ Shown /\ Exact /\ Loaded /\ Placing /\ Warm
DocRight == Leading /\ Erasing /\ Reversible
Core == ListsRight /\ DocRight

\* A step of a session that stays undisturbed.
Calm == ~disturbed /\ ~disturbed'

-----------------------------------------------------------------------------
(* Lists that are there *)

\* A list stays warm.
LEMMA WarmMore ==
  ASSUME NEW c, NEW d, \A k \in Kinds, p \in Pages : c[k][p] # None => d[k][p] # None,
         NEW s \in Seq(PrimSet), WarmOn(c, s)
  PROVE  WarmOn(d, s)
<1>1. ASSUME NEW i \in 1..Len(s), NEW r \in s[i].recs PROVE d[Kind(r.id)][r.page] # None
  <2>1. s[i] \in PrimSet
    OBVIOUS
  <2>2. Kind(r.id) \in Kinds /\ r.page \in Pages
    BY <2>1, RecsAt
  <2>3. c[Kind(r.id)][r.page] # None
    BY DEF WarmOn
  <2> QED BY <2>2, <2>3
<1> QED BY <1>1 DEF WarmOn

\* The lists of a stack stay warm.
LEMMA WarmStackMore ==
  ASSUME NEW c, NEW d, \A k \in Kinds, p \in Pages : c[k][p] # None => d[k][p] # None,
         NEW s \in Seq(OpSet), WarmStack(c, s)
  PROVE  WarmStack(d, s)
<1>1. ASSUME NEW i \in 1..Len(s) PROVE WarmOp(d, s[i])
  <2>1. s[i] \in OpSet
    OBVIOUS
  <2>2. s[i].undo \in Seq(PrimSet) /\ s[i].redo \in Seq(PrimSet)
    BY <2>1 DEF OpSet
  <2>3. WarmOn(c, s[i].undo) /\ WarmOn(c, s[i].redo)
    BY DEF WarmStack, WarmOp
  <2> QED BY <2>2, <2>3, WarmMore DEF WarmOp
<1> QED BY <1>1 DEF WarmStack

\* A stack with one operation more.
LEMMA WarmFront ==
  ASSUME NEW c, NEW s \in Seq(OpSet), NEW op \in OpSet, WarmStack(c, s), WarmOp(c, op)
  PROVE  WarmStack(c, <<op>> \o s)
<1> DEFINE t == <<op>> \o s
<1>1. Len(t) = Len(s) + 1 /\ t[1] = op /\ \A i \in 2..Len(s) + 1 : t[i] = s[i - 1]
  BY FrontIs
<1> HIDE DEF t
<1>2. ASSUME NEW i \in 1..Len(t) PROVE WarmOp(c, t[i])
  <2>1. CASE i = 1
    BY <1>1, <2>1
  <2>2. CASE i # 1
    <3>1. i \in 2..Len(s) + 1 /\ i - 1 \in 1..Len(s)
      BY <1>1, <2>2
    <3> QED BY <1>1, <3>1 DEF WarmStack
  <2> QED BY <2>1, <2>2
<1> QED BY <1>2 DEF WarmStack, t

\* A stack without its last operation.
LEMMA WarmTail ==
  ASSUME NEW c, NEW s \in Seq(OpSet), s # <<>>, WarmStack(c, s)
  PROVE  WarmStack(c, Tail(s)) /\ WarmOp(c, Head(s))
<1>1. /\ Head(s) = s[1] /\ Len(Tail(s)) = Len(s) - 1 /\ \A i \in 1..Len(s) - 1 : Tail(s)[i] = s[i + 1]
      /\ Len(s) \in Nat \ {0}
  BY TailIs
<1>2. ASSUME NEW i \in 1..Len(Tail(s)) PROVE WarmOp(c, Tail(s)[i])
  <2>1. i + 1 \in 1..Len(s) /\ i \in 1..Len(s) - 1
    BY <1>1
  <2> QED BY <1>1, <2>1 DEF WarmStack
<1>3. WarmOp(c, s[1])
  BY <1>1 DEF WarmStack
<1> QED BY <1>1, <1>2, <1>3 DEF WarmStack

\* No operation, and no primitive, needs a list.
LEMMA WarmNothing == ASSUME NEW c PROVE WarmOn(c, <<>>) /\ WarmStack(c, <<>>)
<1>1. Len(<<>>) = 0
  OBVIOUS
<1> QED BY <1>1 DEF WarmOn, WarmStack

\* The primitives that are left.
LEMMA WarmRest ==
  ASSUME NEW c, NEW s \in Seq(PrimSet), s # <<>>, WarmOn(c, s)
  PROVE  WarmOn(c, Tail(s)) /\ \A r \in Head(s).recs : c[Kind(r.id)][r.page] # None
<1>1. /\ Head(s) = s[1] /\ Len(Tail(s)) = Len(s) - 1 /\ \A i \in 1..Len(s) - 1 : Tail(s)[i] = s[i + 1]
      /\ Len(s) \in Nat \ {0}
  BY TailIs
<1>2. ASSUME NEW i \in 1..Len(Tail(s)), NEW r \in Tail(s)[i].recs PROVE c[Kind(r.id)][r.page] # None
  <2>1. i + 1 \in 1..Len(s) /\ i \in 1..Len(s) - 1
    BY <1>1
  <2> QED BY <1>1, <1>2, <2>1 DEF WarmOn
<1>3. \A r \in s[1].recs : c[Kind(r.id)][r.page] # None
  <2>1. 1 \in 1..Len(s)
    BY <1>1
  <2> QED BY <2>1 DEF WarmOn
<1> QED BY <1>1, <1>2, <1>3 DEF WarmOn

\* Primitives about the page that is shown.
Here(pg, s) == \A i \in 1..Len(s) : \A r \in s[i].recs : r.page = pg

\* What is about a page whose lists are loaded runs on loaded lists.
LEMMA WarmHere ==
  ASSUME NEW c, NEW pg, \A k \in Kinds : c[k][pg] # None, NEW s \in Seq(PrimSet), Here(pg, s)
  PROVE  WarmOn(c, s)
<1>1. ASSUME NEW i \in 1..Len(s), NEW r \in s[i].recs PROVE c[Kind(r.id)][r.page] # None
  <2>1. s[i] \in PrimSet
    OBVIOUS
  <2>2. Kind(r.id) \in Kinds /\ r.page = pg
    BY <2>1, RecsAt DEF Here
  <2> QED BY <2>2
<1> QED BY <1>1 DEF WarmOn

\* The operations the user makes on a page are about it.
LEMMA OpsHere ==
  ASSUME NEW pg
  PROVE  /\ \A s \in Seq(OnPages) : (\A i \in 1..Len(s) : s[i].page = pg) =>
               Here(pg, Added(s).undo) /\ Here(pg, Added(s).redo)
         /\ \A r \in OnPages : r.page = pg => Here(pg, Removed(r).undo) /\ Here(pg, Removed(r).redo)
         /\ \A r, n \in OnPages : r.page = pg /\ n.page = pg =>
               Here(pg, Updated(r, n).undo) /\ Here(pg, Updated(r, n).redo)
         /\ \A r \in OnPages : \A s \in Seq(OnPages) :
               r.page = pg /\ (\A i \in 1..Len(s) : s[i].page = pg) =>
                  Here(pg, InkReplaced(r, s).undo) /\ Here(pg, InkReplaced(r, s).redo)
<1>1. \A r \in OnPages : Remove1(r).recs = {r} /\ Append1(r).recs = {r}
  BY DEF Remove1, Append1
<1>2. ASSUME NEW s \in Seq(OnPages), \A i \in 1..Len(s) : s[i].page = pg
      PROVE  Here(pg, Each(Remove1, s)) /\ Here(pg, Each(Append1, s))
  <2>1. /\ Len(Each(Remove1, s)) = Len(s) /\ Len(Each(Append1, s)) = Len(s)
        /\ \A i \in 1..Len(s) : Each(Remove1, s)[i] = Remove1(s[i]) /\ Each(Append1, s)[i] = Append1(s[i])
    BY EachIs
  <2>2. \A i \in 1..Len(s) : Remove1(s[i]).recs = {s[i]} /\ Append1(s[i]).recs = {s[i]}
    BY <1>1
  <2> DEFINE d == Each(Remove1, s)
             a == Each(Append1, s)
  <2> HIDE DEF d, a
  <2>3. Len(d) = Len(s) /\ \A i \in 1..Len(s) : d[i].recs = {s[i]}
    BY <2>1, <2>2 DEF d
  <2>4. Len(a) = Len(s) /\ \A i \in 1..Len(s) : a[i].recs = {s[i]}
    BY <2>1, <2>2 DEF a
  <2>5. Here(pg, d) /\ Here(pg, a)
    BY <1>2, <2>3, <2>4 DEF Here
  <2> QED BY <2>5 DEF d, a
<1>3. ASSUME NEW p, \A r \in p.recs : r.page = pg PROVE Here(pg, <<p>>)
  <2>1. Len(<<p>>) = 1 /\ <<p>>[1] = p
    OBVIOUS
  <2> QED BY <1>3, <2>1 DEF Here
<1>4. ASSUME NEW r \in OnPages, r.page = pg
      PROVE  Here(pg, <<Remove1(r)>>) /\ Here(pg, <<Append1(r)>>)
  BY <1>1, <1>3, <1>4
<1>5. ASSUME NEW r \in OnPages, r.page = pg, NEW s \in Seq(OnPages), \A i \in 1..Len(s) : s[i].page = pg
      PROVE  Here(pg, InkReplaced(r, s).undo) /\ Here(pg, InkReplaced(r, s).redo)
  <2> DEFINE d == Each(Remove1, s)
             a == Each(Append1, s)
  <2>1. d \in Seq(PrimSet) /\ a \in Seq(PrimSet)
    BY EachIs
  <2>2. Here(pg, d) /\ Here(pg, a)
    BY <1>2, <1>5
  <2>3. Remove1(r) \in PrimSet /\ Append1(r) \in PrimSet
    BY OpsAre
  <2>4. InkReplaced(r, s).undo = Append(d, Append1(r)) /\ InkReplaced(r, s).redo = <<Remove1(r)>> \o a
    BY DEF InkReplaced, Op
  <2> HIDE DEF d, a
  <2>5. Here(pg, Append(d, Append1(r)))
    <3> DEFINE b == Append(d, Append1(r))
    <3>1. Len(b) = Len(d) + 1 /\ b[Len(d) + 1] = Append1(r) /\ \A i \in 1..Len(d) : b[i] = d[i]
      BY <2>1
    <3> HIDE DEF b
    <3>2. ASSUME NEW i \in 1..Len(b), NEW q \in b[i].recs PROVE q.page = pg
      <4>1. CASE i = Len(d) + 1
        BY <1>1, <1>5, <3>1, <3>2, <4>1
      <4>2. CASE i # Len(d) + 1
        <5>1. i \in 1..Len(d)
          BY <2>1, <3>1, <4>2
        <5> QED BY <2>2, <3>1, <3>2, <5>1 DEF Here
      <4> QED BY <4>1, <4>2
    <3> QED BY <3>2 DEF Here, b
  <2>6. Here(pg, <<Remove1(r)>> \o a)
    <3> DEFINE b == <<Remove1(r)>> \o a
    <3>1. Len(b) = Len(a) + 1 /\ b[1] = Remove1(r) /\ \A i \in 2..Len(a) + 1 : b[i] = a[i - 1]
      BY <2>1, <2>3, FrontIs
    <3> HIDE DEF b
    <3>2. ASSUME NEW i \in 1..Len(b), NEW q \in b[i].recs PROVE q.page = pg
      <4>1. CASE i = 1
        BY <1>1, <1>5, <3>1, <3>2, <4>1
      <4>2. CASE i # 1
        <5>1. i \in 2..Len(a) + 1 /\ i - 1 \in 1..Len(a)
          BY <2>1, <3>1, <4>2
        <5> QED BY <2>2, <3>1, <3>2, <5>1 DEF Here
      <4> QED BY <4>1, <4>2
    <3> QED BY <3>2 DEF Here, b
  <2> QED BY <2>4, <2>5, <2>6
<1>6. ASSUME NEW s \in Seq(OnPages), \A i \in 1..Len(s) : s[i].page = pg
      PROVE  Here(pg, Added(s).undo) /\ Here(pg, Added(s).redo)
  BY <1>2, <1>6 DEF Added, Op
<1>7. ASSUME NEW r \in OnPages, r.page = pg
      PROVE  Here(pg, Removed(r).undo) /\ Here(pg, Removed(r).redo)
  BY <1>4, <1>7 DEF Removed, Op
<1>8. ASSUME NEW r \in OnPages, NEW n \in OnPages, r.page = pg, n.page = pg
      PROVE  Here(pg, Updated(r, n).undo) /\ Here(pg, Updated(r, n).redo)
  BY <1>4, <1>8 DEF Updated, Op
<1> QED BY <1>5, <1>6, <1>7, <1>8

\* An operation about the page that is shown needs no other list.
LEMMA OpWarm ==
  ASSUME NEW c, NEW pg, \A k \in Kinds : c[k][pg] # None, NEW op \in OpSet,
         Here(pg, op.undo), Here(pg, op.redo)
  PROVE  WarmOp(c, op)
<1>1. op.undo \in Seq(PrimSet) /\ op.redo \in Seq(PrimSet)
  BY DEF OpSet
<1> QED BY <1>1, WarmHere DEF WarmOp

-----------------------------------------------------------------------------
(* What a step makes of the lists *)

\* What is in the rows of the page after an insert.
LEMMA RowsInserted ==
  ASSUME NEW k, NEW q, NEW recs \in SUBSET At(k, q), rows' = Inserted(rows, recs)
  PROVE  Rows(k, q)' = Inserted(Rows(k, q), recs)
<1>1. \A y \in recs : Kind(y.id) = k /\ y.page = q
  BY DEF At
<1> QED BY <1>1 DEF Rows, Inserted

\* The rows of another page are what they were.
LEMMA RowsElsewhere ==
  ASSUME NEW k, NEW q, NEW recs \in SUBSET At(k, q),
         \A x \in rows, y \in recs : x.id = y.id => x.page = y.page,
         rows' = Inserted(rows, recs), NEW l, NEW m, l # k \/ m # q
  PROVE  Rows(l, m)' = Rows(l, m)
<1>1. \A y \in recs : Kind(y.id) = k /\ y.page = q
  BY DEF At
<1>2. ASSUME NEW x \in Rows(l, m) PROVE x \in Rows(l, m)'
  <2>1. x \in rows /\ Kind(x.id) = l /\ x.page = m
    BY DEF Rows
  <2>2. \A y \in recs : y.id # x.id
    BY <1>1, <2>1
  <2> QED BY <2>1, <2>2 DEF Rows, Inserted
<1>3. ASSUME NEW x \in Rows(l, m)' PROVE x \in Rows(l, m)
  <2>1. x \in rows' /\ Kind(x.id) = l /\ x.page = m
    BY <1>3 DEF Rows
  <2>2. x \notin recs
    BY <1>1, <2>1
  <2> QED BY <2>1, <2>2 DEF Rows, Inserted
<1> QED BY <1>2, <1>3

\* Rows of a page without one.
LEMMA RowsRemoved ==
  ASSUME NEW k, NEW q, NEW r \in Rows(k, q), rows' = rows \ {r}
  PROVE  /\ Rows(k, q)' = Rows(k, q) \ {r}
         /\ \A l, m : l # k \/ m # q => Rows(l, m)' = Rows(l, m)
  BY DEF Rows

\* Rows are annotations of distinct ids.
LEMMA RowsDoc ==
  ASSUME Types, NEW k, NEW q
  PROVE  /\ rows \in Docs /\ Distinct(rows)
         /\ Rows(k, q) \in Docs /\ Distinct(Rows(k, q)) /\ Rows(k, q) \subseteq At(k, q)
<1>1. rows \in Docs /\ Distinct(rows)
  BY TypesAre DEF RowsTyped, Docs
<1> QED BY <1>1 DEF Rows, At, Docs, Distinct

\* Between two primitives every list says what the store says.
LEMMA ListForIs ==
  ASSUME Exact, job = NoJob, half = None, NEW k \in Kinds, NEW q \in Pages
  PROVE  ListFor(k, q) = SetToBag(Rows(k, q))
<1>1. ~Stale(k, q)
  BY DEF Stale, Importing, NoJob
<1> QED BY <1>1 DEF ListFor, Exact

\* Rows are written: what Place makes of the list is right, and so are the others.
LEMMA InsertLists ==
  ASSUME Types, Exact, job = NoJob, half = None,
         NEW p \in PrimSet, NEW r \in p.recs, p.do # "remove", p.do = "replace" => p.recs = {r},
         cache[Kind(r.id)][r.page] # None,
         p.do = "append" => \A x \in rows, y \in p.recs : x.id # y.id,
         \A x \in rows, y \in p.recs : x.id = y.id => x.page = y.page,
         rows' = Inserted(rows, p.recs), cache' = cache, half' = EmptyBag, job' = job,
         todo' # <<>>, Head(todo') = p
  PROVE  Exact' /\ Placing'
<1> DEFINE k == Kind(r.id)
           q == r.page
           R == Rows(k, q)
<1>1. p.recs \in SUBSET At(k, q) /\ k \in Kinds /\ q \in Pages /\ r \in At(k, q)
  BY RecsAt
<1>2. \A s \in p.recs : Kind(s.id) = k /\ s.page = q
  BY <1>1 DEF At
<1>3. cache[k][q] = SetToBag(R) /\ cache[k][q] # None
  <2>1. cache[k][q] # None
    OBVIOUS
  <2> HIDE DEF k, q
  <2> QED BY <1>1, <2>1, ListForIs DEF ListFor
<1> HIDE DEF k, q
<1>4. /\ Rows(k, q)' = Inserted(R, p.recs)
      /\ \A l, m : l # k \/ m # q => Rows(l, m)' = Rows(l, m)
  <2> DEFINE S == p.recs
  <2>1. /\ S \in SUBSET At(k, q) /\ rows' = Inserted(rows, S)
        /\ \A x \in rows, y \in S : x.id = y.id => x.page = y.page
    BY <1>1
  <2> HIDE DEF S
  <2>2. Rows(k, q)' = Inserted(Rows(k, q), S)
    BY ONLY <2>1, RowsInserted
  <2>3. ASSUME NEW l, NEW m, l # k \/ m # q PROVE Rows(l, m)' = Rows(l, m)
    BY ONLY <2>1, <2>3, RowsElsewhere
  <2> QED BY <2>2, <2>3 DEF S
<1>5. half' # None
  BY BagIsList DEF EmptyBag, Docs
<1>6. Exact'
  <2>1. ASSUME NEW l \in Kinds, NEW m \in Pages, cache'[l][m] # None, ~Stale(l, m)'
        PROVE  cache'[l][m] = SetToBag(Rows(l, m)')
    <3>1. ~(l = k /\ m = q)
      BY <1>2, <1>5, <2>1 DEF Stale
    <3>2. ~Stale(l, m)
      BY DEF Stale, Importing, NoJob
    <3>3. cache[l][m] = SetToBag(Rows(l, m))
      BY <2>1, <3>2 DEF Exact
    <3> QED BY <1>4, <3>1, <3>3
  <2> QED BY <2>1 DEF Exact
<1>7. ASSUME NEW s \in p.recs PROVE Placed(p, s)' = SetToBag(Rows(k, q)')
  <2>1. Kind(s.id) = k /\ s.page = q
    BY <1>2
  <2>2. ListFor(k, q)' = SetToBag(R)
    BY <1>3 DEF ListFor
  <2>3. R \in Docs /\ Distinct(R)
    BY RowsDoc
  <2>4. p.do \in {"append", "remove", "replace"}
    BY DEF PrimSet
  <2> HIDE DEF R
  <2>5. CASE p.do = "append"
    <3>1. Placed(p, s)' = SetToBag(R) (+) SetToBag(p.recs)
      BY <2>1, <2>2, <2>5 DEF Placed
    <3>2. R \cap p.recs = {} /\ Inserted(R, p.recs) = R \cup p.recs
      <4>1. \A x \in R, y \in p.recs : x.id # y.id
        BY <2>5 DEF R, Rows
      <4> QED BY <4>1 DEF Inserted
    <3> QED BY <1>4, <3>1, <3>2, BagCupIs
  <2>6. CASE p.do = "replace"
    <3>1. Placed(p, s)' = WithNote(SetToBag(R), s)
      BY <2>1, <2>2, <2>6 DEF Placed
    <3>2. p.recs = {s} /\ s \in Annotation
      BY <1>1, <2>6 DEF At
    <3> QED BY <1>4, <2>3, <3>1, <3>2, WithNoteIs
  <2> QED BY <2>4, <2>5, <2>6
<1>8. Placing'
  <2>1. ASSUME NEW s \in p.recs PROVE Placed(p, s)' = SetToBag(Rows(Kind(s.id), s.page)')
    BY <1>2, <1>7
  <2> QED BY <2>1 DEF Placing
<1> QED BY <1>6, <1>8

\* A row is taken, and its list put aside: what Place makes of it is right.
LEMMA TakeLists ==
  ASSUME Types, Exact, job = NoJob, half = None, NEW k \in Kinds, NEW q \in Pages,
         NEW r \in Rows(k, q), rows' = rows \ {r}, half' = SetToBag(Rows(k, q) \ {r}),
         cache' = cache, job' = job, todo' # <<>>, Head(todo') = Remove1(r)
  PROVE  Exact' /\ Placing'
<1> DEFINE p == Remove1(r)
<1>1. p.do = "remove" /\ p.recs = {r} /\ Kind(r.id) = k /\ r.page = q
  BY DEF Remove1, Rows
<1> HIDE DEF p
<1>2. Head(todo') = p
  BY DEF p
<1>3. /\ Rows(k, q)' = Rows(k, q) \ {r}
      /\ \A l, m : l # k \/ m # q => Rows(l, m)' = Rows(l, m)
  BY RowsRemoved
<1>4. half' # None
  <2>1. Rows(k, q) \ {r} \in Docs
    BY RowsDoc DEF Docs
  <2> QED BY <2>1, BagIsList
<1>5. Exact'
  <2>1. ASSUME NEW l \in Kinds, NEW m \in Pages, cache'[l][m] # None, ~Stale(l, m)'
        PROVE  cache'[l][m] = SetToBag(Rows(l, m)')
    <3>1. ~(l = k /\ m = q)
      BY <1>1, <1>2, <1>4, <2>1 DEF Stale
    <3>2. ~Stale(l, m)
      BY DEF Stale, Importing, NoJob
    <3>3. cache[l][m] = SetToBag(Rows(l, m))
      BY <2>1, <3>2 DEF Exact
    <3> QED BY <1>3, <3>1, <3>3
  <2> QED BY <2>1 DEF Exact
<1>6. Placed(p, r)' = SetToBag(Rows(k, q)')
  BY <1>1, <1>3 DEF Placed
<1>7. Placing'
  <2>1. ASSUME NEW s \in p.recs PROVE Placed(p, s)' = SetToBag(Rows(Kind(s.id), s.page)')
    BY <1>1, <1>6
  <2> QED BY <1>2, <2>1 DEF Placing
<1> QED BY <1>5, <1>7

\* What is taken.
LEMMA TakeIs ==
  ASSUME Types, Exact, job = NoJob, half = None, NEW k \in Kinds, NEW q \in Pages,
         NEW r \in DOMAIN ListFor(k, q), Take(ListFor(k, q), r)
  PROVE  /\ r \in Rows(k, q) /\ r \in rows /\ rows' = rows \ {r} /\ r \in OnPages
         /\ half' = SetToBag(Rows(k, q) \ {r}) /\ cache' = cache /\ Kind(r.id) = k /\ r.page = q
<1>1. ListFor(k, q) = SetToBag(Rows(k, q))
  BY ListForIs
<1>2. r \in Rows(k, q)
  BY <1>1, BagOf
<1>3. r \in rows /\ Kind(r.id) = k /\ r.page = q
  BY <1>2 DEF Rows
<1>4. rows' = Deleted(rows, {r}) /\ half' = BagRemove(ListFor(k, q), r) /\ cache' = cache
  BY DEF Take
<1>5. Deleted(rows, {r}) = rows \ {r} /\ r \in Annotation
  <2>1. rows \in Docs /\ Distinct(rows)
    BY RowsDoc
  <2> QED BY <1>3, <2>1 DEF Deleted, Distinct, Docs
<1>6. half' = SetToBag(Rows(k, q) \ {r})
  BY <1>1, <1>2, <1>4, BagRemoveIs
<1> QED BY <1>2, <1>3, <1>4, <1>5, <1>6 DEF OnPages

\* The list of a primitive is placed.
LEMMA PlaceLists ==
  ASSUME Types, ListsRight, Place
  PROVE  /\ Exact' /\ Placing'
         /\ \A k \in Kinds, p \in Pages : cache[k][p] # None => cache'[k][p] # None
<1>1. PICK r \in Head(todo).recs :
            /\ cache' = [cache EXCEPT ![Kind(r.id)][r.page] = Placed(Head(todo), r)]
            /\ todo # <<>> /\ half # None /\ half' = None /\ todo' = Tail(todo)
            /\ UNCHANGED <<rows, stacks, editing, view, job>>
  BY PlaceIs
<1>2. Placed(Head(todo), r) = SetToBag(Rows(Kind(r.id), r.page))
  BY <1>1 DEF ListsRight, Placing
<1> DEFINE k == Kind(r.id)
           q == r.page
<1>3. Head(todo) \in PrimSet
  BY <1>1, HeadIs
<1>4. k \in Kinds /\ q \in Pages /\ \A s \in Head(todo).recs : Kind(s.id) = k /\ s.page = q
  BY <1>3, RecsAt DEF PrimSet
<1>5. cache' = [cache EXCEPT ![k][q] = SetToBag(Rows(k, q))]
  BY <1>1, <1>2
<1> HIDE DEF k, q
<1>6. \A l \in Kinds, m \in Pages :
         cache'[l][m] = IF l = k /\ m = q THEN SetToBag(Rows(k, q)) ELSE cache[l][m]
  <2>1. cache \in [Kinds -> [Pages -> {None} \cup ListSet]]
    BY DEF Types
  <2> DEFINE b == SetToBag(Rows(k, q))
  <2> HIDE DEF b
  <2>2. cache' = [cache EXCEPT ![k][q] = b]
    BY <1>5 DEF b
  <2>3. \A l \in Kinds, m \in Pages : cache'[l][m] = IF l = k /\ m = q THEN b ELSE cache[l][m]
    BY <1>4, <2>1, <2>2
  <2> QED BY <2>3 DEF b
<1>7. SetToBag(Rows(k, q)) # None
  BY RowsDoc, BagIsList
<1>8. job = NoJob
  BY <1>1 DEF ListsRight, Alone
<1>9. ASSUME NEW l \in Kinds, NEW m \in Pages, cache'[l][m] # None
      PROVE  cache'[l][m] = SetToBag(Rows(l, m)')
  <2>1. Rows(l, m)' = Rows(l, m)
    BY <1>1 DEF Rows
  <2>2. CASE l = k /\ m = q
    BY <1>4, <1>6, <2>1, <2>2
  <2>3. CASE ~(l = k /\ m = q)
    <3>1. ~Stale(l, m)
      <4>1. ASSUME NEW s \in Head(todo).recs, Kind(s.id) = l, s.page = m PROVE FALSE
        BY <1>4, <2>3, <4>1
      <4> QED BY <1>8, <4>1 DEF Stale, Importing, NoJob
    <3>2. cache'[l][m] = cache[l][m]
      BY <1>6, <2>3
    <3> QED BY <1>9, <2>1, <3>1, <3>2 DEF ListsRight, Exact
  <2> QED BY <2>2, <2>3
<1>10. Exact' /\ Placing'
  BY <1>1, <1>9 DEF Exact, Placing
<1> QED BY <1>6, <1>7, <1>10

\* Between two calls: every list of the page that is shown is there.
LEMMA ReadyIs ==
  ASSUME Types, job = NoJob, ListsRight, Ready
  PROVE  /\ todo = <<>> /\ half = None /\ job = NoJob /\ ~Importing
         /\ \A k \in Kinds : cache[k][page] # None
<1>1. todo = <<>> /\ half = None /\ job = NoJob
  BY DEF Types, Ready
<1>2. \A k \in Kinds : cache[k][page] # None
  <2>1. visible \in BOOLEAN
    BY DEF Types, Typed
  <2> QED BY <2>1 DEF Ready, ListsRight, Shown
<1> QED BY <1>1, <1>2 DEF Importing, NoJob

-----------------------------------------------------------------------------
(* The document of a state *)

\* The document of rows R, of primitives left to run and of the stroke e that is erased.
DocOf(R, prims, e) == RowsAfter(R, prims) \cup ((IF e = None THEN R ELSE R \cup {e}) \ R)

\* The document of a state is that of its rows, of what is left to run and of the
\* stroke that is erased.
LEMMA DocOfIs == Doc = DocOf(rows, todo, editing)
  BY DEF Doc, DocOf, Held

\* A stroke that is erased is of the document until the gesture ends.
LEMMA DocIs ==
  ASSUME NEW R \in Docs, NEW prims \in Seq(PrimSet), NEW e \in Annotation \cup {None}
  PROVE  /\ DocOf(R, prims, e) \in Docs
         /\ e = None => DocOf(R, prims, e) = RowsAfter(R, prims)
         /\ e # None => DocOf(R, prims, e) = RowsAfter(R, prims) \cup ({e} \ R)
<1>1. RowsAfter(R, prims) \in Docs
  BY AfterType
<1> QED BY <1>1 DEF DocOf, Docs

\* A call whose first primitive is in the rows.
LEMMA CallDoc ==
  ASSUME NEW R \in Docs, NEW p \in PrimSet, Run(R, p) = R, NEW h, h # None
  PROVE  RowsAfter(R, <<p>>) = R /\ LeadsOn(R, <<p>>, h)
<1>1. <<p>> \in Seq(PrimSet) /\ <<p>> # <<>> /\ Head(<<p>>) = p /\ Tail(<<p>>) = <<>>
  OBVIOUS
<1>2. RowsAfter(R, <<p>>) = R
  BY <1>1, AfterHead, AfterNothing
<1> QED BY <1>1, <1>2, LeadsNothing DEF LeadsOn

\* Rows that were written stay when they are written again, and rows deleted.
LEMMA RunAgain ==
  ASSUME NEW R \in Docs, NEW p \in PrimSet
  PROVE  Run(Run(R, p), p) = Run(R, p)
  BY DEF Run, Inserted, Deleted

\* A step that leaves the document and the operations.
LEMMA SameDoc ==
  ASSUME Calm, Reversible, Doc' = Doc, UNCHANGED stacks, Importing' <=> Importing
  PROVE  Reversible' /\ UNCHANGED Document!vars
<1>1. undoStack' = undoStack /\ redoStack' = redoStack
  BY DEF stacks
<1>2. Past' = Past /\ Future' = Future
  BY <1>1 DEF Calm, Past, Future, Lost, Undos, Redos
<1>3. Reversible'
  BY <1>1 DEF Reversible, Distinct
<1> QED BY <1>2, <1>3 DEF Document!vars

\* An edit.
LEMMA EditDoc ==
  ASSUME Types, Calm, Reversible, ~Importing, ~Importing', NEW D \in Docs, Doc = D,
         NEW E \in Docs, Doc' = E, Distinct(E), NEW op, Legal(op, D, E), PushUndo(op)
  PROVE  Reversible' /\ Document!Edit
<1>1. undoStack \in Seq(OpSet) /\ redoStack \in Seq(OpSet)
  BY DEF Types
<1>2. undoStack' = <<op>> \o undoStack /\ redoStack' = <<>>
  BY DEF PushUndo
<1>3. Distinct(D) /\ Chains(D, undoStack, redoStack)
  BY DEF Reversible
<1>4. Chains(E, <<op>> \o undoStack, <<>>)
  BY <1>1, <1>3, ChainsPush
<1>5. Distinct(Doc')
  OBVIOUS
<1>6. Reversible'
  BY <1>2, <1>4, <1>5 DEF Reversible, Distinct
<1>7. Past = Along(D, UndosOf(undoStack)) /\ Past' = Along(E, UndosOf(undoStack'))
  BY DEF Calm, Past, Lost, Undos, UndosOf
<1>8. Past' = <<D>> \o Past
  BY <1>1, <1>2, <1>7, AlongOver
<1>9. Future' = <<>>
  <2>1. Future' = Along(E, RedosOf(<<>>))
    BY <1>2 DEF Calm, Future, Lost, Redos, RedosOf
  <2>2. <<>> \in Seq(OpSet)
    OBVIOUS
  <2>3. RedosOf(<<>>) = <<>>
    BY <2>2, SidesAre
  <2> QED BY <2>1, <2>3, AlongNothing
<1> QED BY <1>6, <1>8, <1>9 DEF Document!Edit, Docs

\* A session, or the store under it, starts anew.
LEMMA RestartDoc ==
  ASSUME Doc' \in Docs, Distinct(Doc'), Importing' \/ (undoStack' = <<>> /\ redoStack' = <<>>)
  PROVE  Reversible' /\ Document!Restart
<1> DEFINE E == Doc'
<1>1. E \in Docs
  OBVIOUS
<1>2. <<>> \in Seq(OpSet)
  OBVIOUS
<1>3. UndosOf(<<>>) = <<>> /\ RedosOf(<<>>) = <<>>
  BY <1>2, SidesAre
<1>4. ~Importing' => Chains(E, undoStack', redoStack')
  BY ChainsNothing
<1>5. Reversible'
  BY <1>4 DEF Reversible, Distinct
<1>6. Past' = <<>> /\ Future' = <<>>
  <2>1. CASE Lost'
    BY <2>1 DEF Past, Future
  <2>2. CASE ~Lost'
    <3>1. Past' = Along(E, UndosOf(<<>>)) /\ Future' = Along(E, RedosOf(<<>>))
      BY <2>2 DEF Past, Future, Lost, Undos, Redos, UndosOf, RedosOf
    <3> HIDE DEF E
    <3> QED BY <1>1, <1>3, <3>1, AlongNothing
  <2> QED BY <2>1, <2>2
<1> QED BY <1>5, <1>6 DEF Document!Restart, Docs

-----------------------------------------------------------------------------
(* What all calls of the user do *)

\* Between two calls there is no job, so none is disturbed.
LEMMA CallAlone ==
  ASSUME ListsRight, job = NoJob, job' = job, cache' = cache, UNCHANGED view
  PROVE  Alone' /\ Shown' /\ Loaded' /\ ~Importing'
  BY DEF ListsRight, Alone, Shown, Loaded, NoJob, view, Importing

\* An operation about the page is pushed.
LEMMA PushWarm ==
  ASSUME Types, Warm, \A k \in Kinds : cache[k][page] # None, cache' = cache,
         NEW op \in OpSet, Here(page, op.undo), Here(page, op.redo), PushUndo(op)
  PROVE  WarmStack(cache', undoStack') /\ WarmStack(cache', redoStack')
<1>1. undoStack' = <<op>> \o undoStack /\ redoStack' = <<>> /\ undoStack \in Seq(OpSet)
  BY DEF PushUndo, Types
<1>2. WarmOp(cache, op)
  BY OpWarm
<1>3. WarmStack(cache, <<op>> \o undoStack)
  BY <1>1, <1>2, WarmFront DEF Warm
<1> QED BY <1>1, <1>3, WarmNothing

\* A call that starts with rows.
LEMMA InsertCall ==
  ASSUME Types, job = NoJob, ListsRight, Ready, NEW do \in {"append", "replace"}, NEW recs,
         [do |-> do, recs |-> recs] \in PrimSet, \A y \in recs : y.page = page,
         do = "append" => \A x \in rows, y \in recs : x.id # y.id,
         do = "replace" => \E y \in recs : recs = {y},
         \A x \in rows, y \in recs : x.id = y.id => x.page = y.page,
         Insert(recs, do), UNCHANGED <<view, job>>
  PROVE  /\ Exact' /\ Placing' /\ Alone' /\ Shown' /\ Loaded' /\ ~Importing'
         /\ WarmOn(cache', todo') /\ Leading' /\ rows' = Inserted(rows, recs)
         /\ rows' \in Docs /\ Distinct(rows') /\ cache' = cache
         /\ RowsAfter(rows', todo') = rows' /\ todo' \in Seq(PrimSet)
<1> DEFINE p == [do |-> do, recs |-> recs]
<1>1. /\ rows' = Inserted(rows, recs) /\ todo' = <<p>> /\ half' = EmptyBag /\ cache' = cache
      /\ job' = job /\ UNCHANGED view
  BY DEF Insert
<1>2. todo = <<>> /\ half = None /\ job = NoJob /\ ~Importing /\ \A k \in Kinds : cache[k][page] # None
  BY ReadyIs
<1>3. p \in PrimSet /\ p.recs = recs /\ p.do = do /\ p.do # "remove"
  OBVIOUS
<1> HIDE DEF p
<1>4. todo' \in Seq(PrimSet) /\ todo' # <<>> /\ Head(todo') = p
  BY <1>1, <1>3
<1>5. PICK r \in recs : do = "replace" => recs = {r}
  <2>1. recs # {}
    BY <1>3 DEF PrimSet
  <2> QED BY <2>1
<1>6. cache[Kind(r.id)][r.page] # None
  <2>1. Kind(r.id) \in Kinds /\ r.page = page
    BY <1>3, RecsAt
  <2> QED BY <1>2, <2>1
<1>7. Exact' /\ Placing'
  <2>1. Exact
    BY DEF ListsRight
  <2> QED BY <1>1, <1>2, <1>3, <1>4, <1>5, <1>6, <2>1, InsertLists
<1>8. Alone' /\ Shown' /\ Loaded' /\ ~Importing'
  BY <1>1, <1>2, CallAlone
<1>9. WarmOn(cache', todo')
  <2>1. Here(page, <<p>>)
    <3>1. Len(<<p>>) = 1 /\ <<p>>[1] = p
      OBVIOUS
    <3> QED BY <1>3, <3>1 DEF Here
  <2> QED BY <1>1, <1>2, <1>4, <2>1, WarmHere
<1>10. rows' \in Docs /\ Distinct(rows')
  <2>1. rows \in Docs /\ Distinct(rows)
    BY RowsDoc
  <2>2. recs \in SUBSET Annotation /\ Distinct(recs)
    BY <1>3 DEF PrimSet, OnPages
  <2> QED BY <1>1, <2>1, <2>2, RowsOK DEF Docs
<1>11. Run(rows', p) = rows'
  <2>1. rows \in Docs
    BY RowsDoc
  <2>2. rows' = Run(rows, p)
    BY <1>1, <1>3 DEF Run
  <2> QED BY <1>3, <2>1, <2>2, RunAgain
<1>12. half' # None
  BY <1>1, BagIsList DEF EmptyBag, Docs
<1>13. RowsAfter(rows', <<p>>) = rows' /\ LeadsOn(rows', <<p>>, half')
  BY <1>3, <1>10, <1>11, <1>12, CallDoc
<1>14. Leading'
  BY <1>1, <1>13 DEF Leading
<1> QED BY <1>1, <1>4, <1>7, <1>8, <1>9, <1>10, <1>13, <1>14

\* A call that starts by taking a row.
LEMMA TakeCall ==
  ASSUME Types, job = NoJob, ListsRight, Ready, NEW k \in Kinds, NEW r \in DOMAIN ListFor(k, page),
         Take(ListFor(k, page), r), todo' = <<Remove1(r)>>, UNCHANGED <<view, job>>
  PROVE  /\ Exact' /\ Placing' /\ Alone' /\ Shown' /\ Loaded' /\ ~Importing'
         /\ WarmOn(cache', todo') /\ Leading' /\ cache' = cache
         /\ r \in rows /\ rows' = rows \ {r} /\ r \in OnPages /\ r.page = page /\ Kind(r.id) = k
         /\ rows' \in Docs /\ Distinct(rows') /\ half' # None
         /\ RowsAfter(rows', todo') = rows' /\ todo' \in Seq(PrimSet)
<1>1. todo = <<>> /\ half = None /\ job = NoJob /\ ~Importing /\ \A l \in Kinds : cache[l][page] # None
  BY ReadyIs
<1>2. Exact /\ page \in Pages
  BY DEF ListsRight, Types, Typed
<1>3. /\ r \in Rows(k, page) /\ r \in rows /\ rows' = rows \ {r} /\ r \in OnPages
      /\ half' = SetToBag(Rows(k, page) \ {r}) /\ cache' = cache /\ Kind(r.id) = k /\ r.page = page
  BY <1>1, <1>2, TakeIs
<1> DEFINE p == Remove1(r)
<1>4. p \in PrimSet /\ p.recs = {r} /\ p.do = "remove"
  BY <1>3, OpsAre DEF Remove1
<1>5. todo' = <<p>>
  OBVIOUS
<1> HIDE DEF p
<1>6. todo' \in Seq(PrimSet) /\ todo' # <<>> /\ Head(todo') = p
  BY <1>4, <1>5
<1>7. Exact' /\ Placing'
  <2>1. Head(todo') = Remove1(r)
    BY <1>6 DEF p
  <2> QED BY <1>1, <1>2, <1>3, <1>6, <2>1, TakeLists
<1>8. Alone' /\ Shown' /\ Loaded' /\ ~Importing'
  BY <1>1, <1>3, CallAlone
<1>9. WarmOn(cache', todo')
  <2>1. Here(page, <<p>>)
    <3>1. Len(<<p>>) = 1 /\ <<p>>[1] = p
      OBVIOUS
    <3> QED BY <1>3, <1>4, <3>1 DEF Here
  <2> QED BY <1>1, <1>3, <1>5, <1>6, <2>1, WarmHere
<1>10. rows \in Docs /\ Distinct(rows)
  BY RowsDoc
<1>11. rows' \in Docs /\ Distinct(rows')
  BY <1>3, <1>10 DEF Docs, Distinct
<1>12. Run(rows', p) = rows'
  <2>1. Run(rows', p) = Deleted(rows', {r})
    BY <1>4 DEF Run
  <2> QED BY <1>3, <1>10, <2>1 DEF Deleted, Distinct
<1>13. half' # None
  <2>1. Rows(k, page) \ {r} \in Docs
    BY RowsDoc DEF Docs
  <2> QED BY <1>3, <2>1, BagIsList
<1>14. RowsAfter(rows', <<p>>) = rows' /\ LeadsOn(rows', <<p>>, half')
  BY <1>4, <1>11, <1>12, <1>13, CallDoc
<1>15. Leading'
  BY <1>5, <1>14 DEF Leading
<1> QED BY <1>3, <1>5, <1>6, <1>7, <1>8, <1>9, <1>11, <1>13, <1>14, <1>15

-----------------------------------------------------------------------------
(* The user's calls *)

\* What every step does.
Keeps == Core' /\ [Document!Next]_(Document!vars)

\* A step that keeps each part, and is a step of the history, keeps the whole.
LEMMA KeepsEdit ==
  ASSUME ListsRight', Leading', Erasing', Reversible',
         \/ Document!Edit \/ Document!Undo \/ Document!Redo \/ Document!Restart
         \/ UNCHANGED Document!vars
  PROVE  Keeps
  BY DEF Keeps, Core, DocRight, Document!Next

\* The document when no stroke is erased.
LEMMA DocPlain ==
  ASSUME Types, editing = None
  PROVE  Doc = RowsAfter(rows, todo) /\ Doc \in Docs /\ (todo = <<>> => Doc = rows)
<1>1. rows \in Docs /\ todo \in Seq(PrimSet)
  BY RowsDoc DEF Types
<1>2. Doc = RowsAfter(rows, todo) /\ Doc \in Docs
  BY <1>1, DocIs, DocOfIs
<1> QED BY <1>1, <1>2, AfterNothing

\* The same after a step.
LEMMA DocPlainNext ==
  ASSUME rows' \in Docs, todo' \in Seq(PrimSet), editing' = None
  PROVE  Doc' = RowsAfter(rows', todo') /\ Doc' \in Docs /\ (todo' = <<>> => Doc' = rows')
<1> DEFINE R == rows'
           T == todo'
           e == editing'
<1>1. Doc' = DocOf(R, T, e)
  BY DEF Doc, DocOf, Held
<1>2. R \in Docs /\ T \in Seq(PrimSet) /\ e = None
  OBVIOUS
<1> HIDE DEF R, T, e
<1>3. DocOf(R, T, e) = RowsAfter(R, T) /\ DocOf(R, T, e) \in Docs
  BY <1>2, DocIs
<1>4. T = <<>> => RowsAfter(R, T) = R
  BY <1>2, AfterNothing
<1> QED BY <1>1, <1>3, <1>4 DEF R, T

\* Annotations are added to the page.
LEMMA AddedKeeps ==
  ASSUME Types, Calm, job = NoJob, Core, Idle, NEW s \in Seq(OnPages), NewTo(rows, s),
         \A i \in 1..Len(s) : s[i].page = page,
         [do |-> "append", recs |-> ToSet(s)] \in PrimSet,
         Insert(ToSet(s), "append"), PushUndo(Added(s)), UNCHANGED <<editing, view, job>>
  PROVE  Keeps
<1>1. ListsRight /\ Reversible /\ Ready /\ editing = None /\ editing' = None
  BY DEF Core, DocRight, Idle
<1>2. todo = <<>> /\ half = None /\ job = NoJob /\ ~Importing /\ \A k \in Kinds : cache[k][page] # None
  BY <1>1, ReadyIs
<1>3. ToSet(s) = {s[i] : i \in 1..Len(s)}
  <2>1. DOMAIN s = 1..Len(s)
    OBVIOUS
  <2> QED BY <2>1 DEF ToSet
<1>4. \A x \in rows, y \in ToSet(s) : x.id # y.id
  BY <1>3 DEF NewTo
<1>5. \A y \in ToSet(s) : y.page = page
  BY <1>3
<1>6. /\ Exact' /\ Placing' /\ Alone' /\ Shown' /\ Loaded' /\ ~Importing'
      /\ WarmOn(cache', todo') /\ Leading' /\ rows' = Inserted(rows, ToSet(s))
      /\ rows' \in Docs /\ Distinct(rows') /\ cache' = cache
      /\ RowsAfter(rows', todo') = rows' /\ todo' \in Seq(PrimSet)
  <2> DEFINE recs == ToSet(s)
             do == "append"
  <2>1. /\ do \in {"append", "replace"} /\ [do |-> do, recs |-> recs] \in PrimSet
        /\ \A y \in recs : y.page = page
        /\ do = "append" => \A x \in rows, y \in recs : x.id # y.id
        /\ do = "replace" => \E y \in recs : recs = {y}
        /\ \A x \in rows, y \in recs : x.id = y.id => x.page = y.page
        /\ Insert(recs, do) /\ UNCHANGED <<view, job>>
    BY <1>4, <1>5
  <2> HIDE DEF recs, do
  <2> QED BY <1>1, <2>1, InsertCall DEF recs, do
<1>7. rows' = rows \cup ToSet(s)
  BY <1>4, <1>6 DEF Inserted
<1>8. rows \in Docs /\ Distinct(rows)
  BY RowsDoc
<1>9. Legal(Added(s), rows, rows')
  BY <1>7, <1>8, AddedLegal
<1>10. Doc = rows /\ Doc' = rows'
  BY <1>1, <1>2, <1>6, DocPlain, DocPlainNext
<1>11. Reversible' /\ Document!Edit
  BY <1>1, <1>2, <1>6, <1>8, <1>9, <1>10, EditDoc
<1>12. Added(s) \in OpSet /\ Here(page, Added(s).undo) /\ Here(page, Added(s).redo)
  BY OpsAre, OpsHere
<1>13. WarmStack(cache', undoStack') /\ WarmStack(cache', redoStack')
  BY <1>1, <1>2, <1>6, <1>12, PushWarm DEF ListsRight
<1>14. ListsRight'
  BY <1>6, <1>13 DEF ListsRight, Warm
<1>15. Erasing'
  BY <1>1 DEF Erasing
<1> QED BY <1>6, <1>11, <1>14, <1>15, KeepsEdit

\* New strokes are new to the rows, and to the stroke that is erased.
LEMMA FreshIsNew ==
  ASSUME page \in Pages, NEW s \in FreshInk(2)
  PROVE  /\ NewTo(rows, s) /\ \A i \in 1..Len(s) : s[i].page = page
         /\ editing # None => \A i \in 1..Len(s) : s[i].id # editing.id
<1>1. /\ s \in Seq(OnPages)
      /\ \A i \in 1..Len(s) : s[i].page = page /\ s[i].id \in Ink /\ Fresh(s[i].id)
      /\ \A i, j \in 1..Len(s) : s[i].id = s[j].id => i = j
  BY FreshInkIs
<1>2. ASSUME NEW i \in 1..Len(s), NEW q \in Held PROVE q.id # s[i].id
  BY <1>1 DEF Fresh
<1>3. rows \subseteq Held /\ (editing # None => editing \in Held)
  BY DEF Held
<1> QED BY <1>1, <1>2, <1>3 DEF NewTo

\* Strokes are drawn.
LEMMA AddInkKeeps == ASSUME Types, Calm, Core, NEW s \in FreshInk(2), AddInk(s) PROVE Keeps
<1>0. job = NoJob
  BY DEF AddInk, Calm, Orderly
<1>1. page \in Pages
  BY DEF Types, Typed
<1>2. /\ Idle /\ s # <<>> /\ Insert(ToSet(s), "append") /\ PushUndo(Added(s))
      /\ UNCHANGED <<editing, view, job>>
  BY DEF AddInk
<1>3. [do |-> "append", recs |-> ToSet(s)] \in PrimSet
  BY <1>1, <1>2, PiecesAre DEF PrimSet
<1>4. s \in Seq(OnPages)
  BY <1>1, FreshInkIs
<1>5. NewTo(rows, s) /\ \A i \in 1..Len(s) : s[i].page = page
  BY <1>1, FreshIsNew
<1> QED BY <1>0, <1>2, <1>3, <1>4, <1>5, AddedKeeps

\* A highlight or a note is added.
LEMMA AddKeeps == ASSUME Types, Calm, Core, NEW id \in Highlights \cup Notes, Add(id) PROVE Keeps
<1> DEFINE r == New(id)
           s == <<r>>
<1>0. job = NoJob
  BY DEF Add, Calm, Orderly
<1>1. page \in Pages
  BY DEF Types, Typed
<1>2. /\ Idle /\ Fresh(id) /\ Insert({r}, "append") /\ PushUndo(Added(s))
      /\ UNCHANGED <<editing, view, job>>
  BY DEF Add
<1>3. r \in OnPages /\ r.id = id /\ r.page = page
  BY <1>1, NewIs DEF IdsOf
<1> HIDE DEF r
<1>4. s \in Seq(OnPages) /\ Len(s) = 1 /\ s[1] = r
  BY <1>3
<1>5. ToSet(s) = {r}
  <2>1. DOMAIN s = {1}
    BY <1>4
  <2> QED BY <1>4, <2>1 DEF ToSet
<1>6. [do |-> "append", recs |-> {r}] \in PrimSet
  BY <1>3, PrimIs
<1>7. \A q \in rows : q.id # r.id
  BY <1>2, <1>3 DEF Fresh, Held
<1>8. NewTo(rows, s) /\ \A i \in 1..Len(s) : s[i].page = page
  BY <1>3, <1>4, <1>7 DEF NewTo
<1> HIDE DEF s
<1> QED BY <1>0, <1>2, <1>4, <1>5, <1>6, <1>8, AddedKeeps

\* A note is updated.
LEMMA UpdateNoteKeeps ==
  ASSUME Types, Calm, Core, NEW r \in Annotation, NEW v \in Versions, UpdateNote(r, v)
  PROVE  Keeps
<1> DEFINE new == [r EXCEPT !.ver = v]
<1>0. job = NoJob
  BY DEF UpdateNote, Calm, Orderly
<1>1. /\ Ready /\ editing = None /\ editing' = None /\ r \in DOMAIN ListFor("note", page)
      /\ Insert({new}, "replace") /\ PushUndo(Updated(r, new)) /\ UNCHANGED <<view, job>>
  BY DEF UpdateNote, Idle
<1>2. ListsRight /\ Exact /\ Reversible
  BY DEF Core, ListsRight, DocRight
<1>3. todo = <<>> /\ half = None /\ job = NoJob /\ ~Importing /\ \A k \in Kinds : cache[k][page] # None
  BY <1>0, <1>1, <1>2, ReadyIs
<1>4. page \in Pages /\ "note" \in Kinds
  BY DEF Types, Typed, Kinds
<1>5. r \in Rows("note", page)
  <2>1. ListFor("note", page) = SetToBag(Rows("note", page))
    BY <1>2, <1>3, <1>4, ListForIs
  <2> QED BY <1>1, <2>1, BagOf
<1>6. rows \in Docs /\ Distinct(rows) /\ r \in rows /\ r \in At("note", page)
  BY <1>5, RowsDoc DEF Rows
<1>7. /\ r \in OnPages /\ new \in OnPages /\ new.id = r.id /\ new.page = r.page
      /\ r.id \in Notes /\ r.page = page
  BY <1>4, <1>6, NewVersion
<1> HIDE DEF new
<1>8. [do |-> "replace", recs |-> {new}] \in PrimSet
  BY <1>7, PrimIs
<1>9. \A x \in rows : x.id = new.id => x.page = new.page
  BY <1>6, <1>7 DEF Distinct
<1>10. /\ Exact' /\ Placing' /\ Alone' /\ Shown' /\ Loaded' /\ ~Importing'
      /\ WarmOn(cache', todo') /\ Leading' /\ rows' = Inserted(rows, {new})
      /\ rows' \in Docs /\ Distinct(rows') /\ cache' = cache
      /\ RowsAfter(rows', todo') = rows' /\ todo' \in Seq(PrimSet)
  <2> DEFINE recs == {new}
             do == "replace"
  <2>1. /\ do \in {"append", "replace"} /\ [do |-> do, recs |-> recs] \in PrimSet
        /\ \A y \in recs : y.page = page
        /\ do = "append" => \A x \in rows, y \in recs : x.id # y.id
        /\ do = "replace" => \E y \in recs : recs = {y}
        /\ \A x \in rows, y \in recs : x.id = y.id => x.page = y.page
        /\ Insert(recs, do) /\ UNCHANGED <<view, job>>
    BY <1>1, <1>7, <1>8, <1>9
  <2> HIDE DEF recs, do
  <2> QED BY <1>0, <1>1, <1>2, <2>1, InsertCall DEF recs, do
<1>11. rows' = (rows \ {r}) \cup {new}
  BY <1>6, <1>7, <1>10 DEF Inserted, Distinct
<1>12. Legal(Updated(r, new), rows, rows')
  BY <1>6, <1>7, <1>11, UpdatedLegal
<1>13. Doc = rows /\ Doc' = rows'
  BY <1>1, <1>3, <1>10, DocPlain, DocPlainNext
<1>14. Reversible' /\ Document!Edit
  BY <1>1, <1>2, <1>3, <1>6, <1>10, <1>12, <1>13, EditDoc
<1>15. Updated(r, new) \in OpSet /\ Here(page, Updated(r, new).undo) /\ Here(page, Updated(r, new).redo)
  BY <1>7, OpsAre, OpsHere
<1>16. WarmStack(cache', undoStack') /\ WarmStack(cache', redoStack')
  BY <1>1, <1>2, <1>3, <1>10, <1>15, PushWarm DEF ListsRight
<1>17. ListsRight'
  BY <1>10, <1>16 DEF ListsRight, Warm
<1>18. Erasing'
  BY <1>1 DEF Erasing
<1> QED BY <1>10, <1>14, <1>17, <1>18, KeepsEdit

\* A list is loaded again, or for the first time.
LEMMA LoadKeeps ==
  ASSUME Types, Calm, Core, half = None, job = NoJob, NEW k \in Kinds, NEW q \in Pages,
         cache' = [cache EXCEPT ![k][q] = ListFor(k, q)],
         UNCHANGED <<rows, half, todo, stacks, editing, view, job>>
  PROVE  Keeps
<1>1. ListsRight /\ Exact /\ Reversible /\ Leading /\ Erasing
  BY DEF Core, ListsRight, DocRight
<1>2. ListFor(k, q) = SetToBag(Rows(k, q)) /\ ListFor(k, q) # None
  BY <1>1, ListForIs, ListForAt
<1>3. \A l \in Kinds, m \in Pages :
         cache'[l][m] = IF l = k /\ m = q THEN ListFor(k, q) ELSE cache[l][m]
  <2> DEFINE b == ListFor(k, q)
  <2> HIDE DEF b
  <2>1. cache' = [cache EXCEPT ![k][q] = b] /\ cache \in [Kinds -> [Pages -> {None} \cup ListSet]]
    BY DEF b, Types
  <2>2. \A l \in Kinds, m \in Pages : cache'[l][m] = IF l = k /\ m = q THEN b ELSE cache[l][m]
    BY <2>1
  <2> QED BY <2>2 DEF b
<1>4. Exact'
  <2>1. ASSUME NEW l \in Kinds, NEW m \in Pages, cache'[l][m] # None
        PROVE  cache'[l][m] = SetToBag(Rows(l, m)')
    <3>1. Rows(l, m)' = Rows(l, m)
      BY DEF Rows
    <3>2. ~Stale(l, m)
      BY DEF Stale, Importing, NoJob
    <3> QED BY <1>1, <1>2, <1>3, <2>1, <3>1, <3>2 DEF Exact
  <2> QED BY <2>1 DEF Exact
<1>5. Placing' /\ Alone' /\ Loaded'
  BY DEF Placing, Alone, Loaded, NoJob
<1>6. \A l \in Kinds, m \in Pages : cache[l][m] # None => cache'[l][m] # None
  BY <1>2, <1>3
<1>7. Shown'
  <2>1. page \in Pages /\ page' = page /\ visible' = visible /\ job' = job
    BY DEF Types, Typed, view
  <2> QED BY <1>1, <1>6, <2>1 DEF ListsRight, Shown, NoJob
<1>8. Warm'
  <2>1. /\ undoStack' = undoStack /\ redoStack' = redoStack /\ todo' = todo
        /\ undoStack \in Seq(OpSet) /\ redoStack \in Seq(OpSet) /\ todo \in Seq(PrimSet)
    BY DEF Types, stacks
  <2>2. WarmOn(cache, todo) /\ WarmStack(cache, undoStack) /\ WarmStack(cache, redoStack)
    BY <1>1 DEF ListsRight, Warm
  <2>3. WarmOn(cache', todo) /\ WarmStack(cache', undoStack) /\ WarmStack(cache', redoStack)
    BY <1>6, <2>1, <2>2, WarmMore, WarmStackMore
  <2> QED BY <2>1, <2>3 DEF Warm
<1>9. Doc' = Doc /\ (Importing' <=> Importing) /\ Leading' /\ Erasing'
  BY <1>1 DEF Doc, Held, Importing, Leading, Erasing, view
<1> QED BY <1>1, <1>4, <1>5, <1>7, <1>8, <1>9, SameDoc, KeepsEdit DEF ListsRight

\* A highlight or a note is deleted, or only looked for.
LEMMA DeleteSelectedKeeps ==
  ASSUME Types, Calm, Core, NEW id \in Highlights \cup Notes, DeleteSelected(id)
  PROVE  Keeps
<1> DEFINE k == Kind(id)
           list == ListFor(k, page)
<1>0. job = NoJob
  BY DEF DeleteSelected, Calm, Orderly
<1>1. Ready /\ editing = None /\ editing' = None /\ UNCHANGED <<editing, view, job>>
  BY DEF DeleteSelected, Idle
<1>2. ListsRight /\ Exact /\ Reversible
  BY DEF Core, ListsRight, DocRight
<1>3. todo = <<>> /\ half = None /\ job = NoJob /\ ~Importing /\ \A l \in Kinds : cache[l][page] # None
  BY <1>0, <1>1, <1>2, ReadyIs
<1>4. k \in Kinds /\ page \in Pages
  BY DEF Kind, Kinds, Types, Typed
<1>5. \/ cache' = [cache EXCEPT ![k][page] = list] /\ UNCHANGED <<rows, half, todo, stacks>>
      \/ \E r \in Matches(list, id) : Take(list, r) /\ todo' = <<Remove1(r)>> /\ PushUndo(Removed(r))
  BY DEF DeleteSelected
<1> HIDE DEF k
<1>6. CASE cache' = [cache EXCEPT ![k][page] = list] /\ UNCHANGED <<rows, half, todo, stacks>>
  BY <1>1, <1>3, <1>4, <1>6, LoadKeeps
<1>7. ASSUME NEW r \in Matches(list, id), Take(list, r), todo' = <<Remove1(r)>>, PushUndo(Removed(r))
      PROVE  Keeps
  <2>1. r \in DOMAIN list
    BY <1>7 DEF Matches
  <2>2. /\ Exact' /\ Placing' /\ Alone' /\ Shown' /\ Loaded' /\ ~Importing'
        /\ WarmOn(cache', todo') /\ Leading' /\ cache' = cache
        /\ r \in rows /\ rows' = rows \ {r} /\ r \in OnPages /\ r.page = page
        /\ rows' \in Docs /\ Distinct(rows')
        /\ RowsAfter(rows', todo') = rows' /\ todo' \in Seq(PrimSet)
    <3> QED BY <1>0, <1>1, <1>2, <1>4, <1>7, <2>1, TakeCall
  <2>3. rows \in Docs /\ Distinct(rows)
    BY RowsDoc
  <2>4. Legal(Removed(r), rows, rows')
    BY <1>4, <2>2, <2>3, RemovedLegal
  <2>5. Doc = rows /\ Doc' = rows'
    BY <1>1, <1>3, <2>2, DocPlain, DocPlainNext
  <2>6. Reversible' /\ Document!Edit
    BY <1>2, <1>3, <1>7, <2>2, <2>3, <2>4, <2>5, EditDoc
  <2>7. Removed(r) \in OpSet /\ Here(page, Removed(r).undo) /\ Here(page, Removed(r).redo)
    BY <2>2, OpsAre, OpsHere
  <2>8. WarmStack(cache', undoStack') /\ WarmStack(cache', redoStack')
    BY <1>2, <1>3, <1>7, <2>2, <2>7, PushWarm DEF ListsRight
  <2>9. ListsRight'
    BY <2>2, <2>8 DEF ListsRight, Warm
  <2>10. Erasing'
    BY <1>1 DEF Erasing
  <2> QED BY <2>2, <2>6, <2>9, <2>10, KeepsEdit
<1> QED BY <1>5, <1>6, <1>7

\* A stroke is taken: it is of the document still.
LEMMA EraseBeginKeeps ==
  ASSUME Types, Calm, Core, NEW r \in Annotation, EraseBegin(r)
  PROVE  Keeps
<1>0. job = NoJob
  BY DEF EraseBegin, Calm, Orderly
<1>1. /\ Ready /\ editing = None /\ r \in DOMAIN ListFor("ink", page) /\ Take(ListFor("ink", page), r)
      /\ todo' = <<Remove1(r)>> /\ editing' = r /\ UNCHANGED <<stacks, view, job>>
  BY DEF EraseBegin, Idle
<1>2. ListsRight /\ Reversible
  BY DEF Core, DocRight
<1>3. todo = <<>> /\ half = None /\ job = NoJob /\ ~Importing
  BY <1>0, <1>1, <1>2, ReadyIs
<1>4. /\ Exact' /\ Placing' /\ Alone' /\ Shown' /\ Loaded' /\ ~Importing'
      /\ WarmOn(cache', todo') /\ Leading' /\ cache' = cache
      /\ r \in rows /\ rows' = rows \ {r} /\ r.page = page
      /\ rows' \in Docs /\ Distinct(rows') /\ half' # None
      /\ RowsAfter(rows', todo') = rows' /\ todo' \in Seq(PrimSet)
  <2>1. "ink" \in Kinds
    BY DEF Kinds
  <2> QED BY <1>0, <1>1, <1>2, <2>1, TakeCall
<1>5. rows \in Docs /\ Distinct(rows)
  BY RowsDoc
<1>6. Doc = rows
  BY <1>1, <1>3, DocPlain
<1>7. Doc' = rows
  <2> DEFINE R == rows'
             T == todo'
  <2>1. Doc' = DocOf(R, T, r)
    BY <1>1 DEF Doc, DocOf, Held
  <2>2. R \in Docs /\ T \in Seq(PrimSet) /\ RowsAfter(R, T) = R /\ r # None
    BY <1>4, AnnotationAssumption
  <2> HIDE DEF R, T
  <2>3. DocOf(R, T, r) = R \cup ({r} \ R)
    BY <2>2, DocIs
  <2> QED BY <1>4, <2>1, <2>3 DEF R
<1>8. Reversible' /\ UNCHANGED Document!vars
  BY <1>1, <1>2, <1>3, <1>4, <1>6, <1>7, SameDoc
<1>9. Erasing'
  BY <1>1, <1>4, <1>5 DEF Erasing, view, Distinct
<1>10. ListsRight'
  BY <1>1, <1>2, <1>4 DEF ListsRight, Warm, stacks
<1> QED BY <1>4, <1>8, <1>9, <1>10, KeepsEdit

\* The gesture ends: the pieces are in the stroke's place.
LEMMA EraseEndKeeps ==
  ASSUME Types, Calm, Core, NEW s \in FreshInk(2), EraseEnd(s)
  PROVE  Keeps
<1>0. job = NoJob
  BY DEF EraseEnd, Calm, Orderly
<1>1. /\ Ready /\ editing # None /\ PushUndo(InkReplaced(editing, s)) /\ editing' = None
      /\ IF s = <<>> THEN UNCHANGED <<rows, cache, todo, half>> ELSE Insert(ToSet(s), "append")
      /\ UNCHANGED <<view, job>>
  BY DEF EraseEnd
<1>2. ListsRight /\ Reversible /\ Erasing /\ Leading
  BY DEF Core, DocRight
<1>3. todo = <<>> /\ half = None /\ job = NoJob /\ ~Importing /\ \A k \in Kinds : cache[k][page] # None
  BY <1>0, <1>1, <1>2, ReadyIs
<1>4. page \in Pages
  BY DEF Types, Typed
<1>5. s \in Seq(OnPages)
  BY <1>4, FreshInkIs
<1>6. /\ NewTo(rows, s) /\ \A i \in 1..Len(s) : s[i].page = page
      /\ \A i \in 1..Len(s) : s[i].id # editing.id
  BY <1>1, <1>4, FreshIsNew
<1>7. /\ editing \in Annotation /\ editing.page = page /\ editing \in OnPages
      /\ \A q \in rows : q.id # editing.id
  BY <1>1, <1>2, <1>4 DEF Types, Typed, Erasing, OnPages
<1>8. ToSet(s) = {s[i] : i \in 1..Len(s)}
  <2>1. DOMAIN s = 1..Len(s)
    BY <1>5
  <2> QED BY <2>1 DEF ToSet
<1>9. \A x \in rows, y \in ToSet(s) : x.id # y.id
  BY <1>6, <1>8 DEF NewTo
<1>10. \A y \in ToSet(s) : y.page = page
  BY <1>6, <1>8
<1>11. rows \in Docs /\ Distinct(rows)
  BY RowsDoc
<1>12. /\ Exact' /\ Placing' /\ Alone' /\ Shown' /\ Loaded' /\ ~Importing'
       /\ WarmOn(cache', todo') /\ Leading' /\ rows' = rows \cup ToSet(s)
       /\ rows' \in Docs /\ Distinct(rows') /\ cache' = cache
       /\ RowsAfter(rows', todo') = rows' /\ todo' \in Seq(PrimSet)
  <2>1. CASE s = <<>>
    <3>1. UNCHANGED <<rows, cache, todo, half>> /\ ToSet(s) = {}
      BY <1>1, <1>8, <2>1
    <3>2. Exact'
      BY <1>1, <1>2, <1>3, <3>1 DEF ListsRight, Exact, Rows, Stale, Importing, NoJob
    <3>3. Placing' /\ Leading'
      BY <1>2, <1>3, <3>1 DEF Placing, Leading
    <3>4. Alone' /\ Shown' /\ Loaded' /\ ~Importing'
      BY <1>1, <1>2, <1>3, <3>1, CallAlone
    <3>5. WarmOn(cache', todo')
      BY <1>3, <3>1, WarmNothing
    <3>6. RowsAfter(rows, <<>>) = rows
      BY <1>11, AfterNothing
    <3>7. <<>> \in Seq(PrimSet)
      OBVIOUS
    <3> QED BY <1>3, <1>11, <3>1, <3>2, <3>3, <3>4, <3>5, <3>6, <3>7
  <2>2. CASE s # <<>>
    <3>1. [do |-> "append", recs |-> ToSet(s)] \in PrimSet
      BY <1>4, <2>2, PiecesAre DEF PrimSet
    <3> DEFINE recs == ToSet(s)
               do == "append"
    <3>2. /\ do \in {"append", "replace"} /\ [do |-> do, recs |-> recs] \in PrimSet
          /\ \A y \in recs : y.page = page
          /\ do = "append" => \A x \in rows, y \in recs : x.id # y.id
          /\ do = "replace" => \E y \in recs : recs = {y}
          /\ \A x \in rows, y \in recs : x.id = y.id => x.page = y.page
          /\ Insert(recs, do) /\ UNCHANGED <<view, job>>
      BY <1>1, <1>9, <1>10, <2>2, <3>1
    <3>3. Inserted(rows, recs) = rows \cup recs
      BY <1>9 DEF Inserted
    <3> HIDE DEF recs, do
    <3> QED BY <1>0, <1>1, <1>2, <3>2, <3>3, InsertCall DEF recs, do
  <2> QED BY <2>1, <2>2
<1> DEFINE D == rows \cup {editing}
<1>13. Doc = D
  <2>1. Doc = RowsAfter(rows, <<>>) \cup ({editing} \ rows)
    BY <1>1, <1>3 DEF Doc, Held
  <2>2. RowsAfter(rows, <<>>) = rows
    BY <1>11, AfterNothing
  <2> QED BY <2>1, <2>2
<1>14. D \in Docs /\ Distinct(D)
  BY <1>7, <1>11 DEF Docs, Distinct
<1>15. D \ {editing} = rows
  BY <1>7
<1>16. Legal(InkReplaced(editing, s), D, rows')
  <2> HIDE DEF D
  <2> DEFINE e == editing
  <2>1. e \in D /\ e.page \in Pages /\ NewTo(D \ {e}, s) /\ \A i \in 1..Len(s) : s[i].id # e.id
    BY <1>4, <1>6, <1>7, <1>15 DEF D
  <2> HIDE DEF e
  <2>2. Legal(InkReplaced(e, s), D, (D \ {e}) \cup ToSet(s))
    BY <1>14, <2>1, InkReplacedLegal
  <2> QED BY <1>12, <1>15, <2>2 DEF e
<1>17. Doc' = rows'
  BY <1>1, <1>12, DocPlainNext
<1>18. Reversible' /\ Document!Edit
  <2> HIDE DEF D
  <2> QED BY <1>1, <1>2, <1>3, <1>12, <1>13, <1>14, <1>16, <1>17, EditDoc
<1>19. /\ InkReplaced(editing, s) \in OpSet
       /\ Here(page, InkReplaced(editing, s).undo) /\ Here(page, InkReplaced(editing, s).redo)
  BY <1>5, <1>6, <1>7, OpsAre, OpsHere
<1>20. WarmStack(cache', undoStack') /\ WarmStack(cache', redoStack')
  BY <1>1, <1>2, <1>3, <1>12, <1>19, PushWarm DEF ListsRight
<1>21. ListsRight'
  BY <1>12, <1>20 DEF ListsRight, Warm
<1>22. Erasing'
  BY <1>1 DEF Erasing
<1> QED BY <1>12, <1>18, <1>21, <1>22, KeepsEdit

\* An operation goes to the other stack, and its primitives are to be run.
LEMMA MoveLists ==
  ASSUME Types, job = NoJob, ListsRight, Ready, cache' = cache, rows' = rows, half' = half,
         UNCHANGED <<view, job>>
  PROVE  /\ Exact' /\ Placing' /\ Alone' /\ Shown' /\ Loaded' /\ ~Importing'
         /\ \A s : WarmStack(cache, s) => WarmStack(cache', s)
<1>1. todo = <<>> /\ half = None /\ job = NoJob /\ ~Importing
  BY ReadyIs
<1>2. Exact'
  BY <1>1 DEF ListsRight, Exact, Rows, Stale, Importing, NoJob
<1>3. Placing'
  BY <1>1 DEF Placing
<1>4. Alone' /\ Shown' /\ Loaded' /\ ~Importing'
  BY <1>1, CallAlone
<1> QED BY <1>2, <1>3, <1>4

\* Undo.
LEMMA UndoLastKeeps == ASSUME Types, Calm, Core, UndoLast PROVE Keeps
<1> DEFINE op == Head(undoStack)
<1>0. job = NoJob
  BY DEF UndoLast, Calm, Orderly
<1>1. /\ Ready /\ editing = None /\ editing' = None /\ undoStack # <<>> /\ todo' = op.undo
      /\ undoStack' = Tail(undoStack) /\ redoStack' = <<op>> \o redoStack
      /\ UNCHANGED <<rows, cache, half, view, job>>
  BY DEF UndoLast, Idle
<1>2. ListsRight /\ Reversible /\ Warm
  BY DEF Core, DocRight, ListsRight
<1>3. todo = <<>> /\ half = None /\ job = NoJob /\ ~Importing
  BY <1>0, <1>1, <1>2, ReadyIs
<1>4. /\ Exact' /\ Placing' /\ Alone' /\ Shown' /\ Loaded' /\ ~Importing'
  BY <1>0, <1>1, <1>2, MoveLists
<1>5. /\ undoStack \in Seq(OpSet) /\ redoStack \in Seq(OpSet) /\ op \in OpSet
      /\ Tail(undoStack) \in Seq(OpSet) /\ undoStack = <<op>> \o Tail(undoStack)
  BY <1>1, FrontOfTail DEF Types
<1>6. op.undo \in Seq(PrimSet)
  BY <1>5 DEF OpSet
<1>7. Doc = rows /\ rows \in Docs
  BY <1>1, <1>3, DocPlain
<1>8. Distinct(rows) /\ Chains(rows, undoStack, redoStack)
  BY <1>2, <1>3, <1>7 DEF Reversible
<1> HIDE DEF op
<1>9. PICK E \in Docs : /\ Distinct(E) /\ Legal(op, E, rows)
                        /\ Chains(E, Tail(undoStack), <<op>> \o redoStack)
  BY <1>1, <1>5, <1>7, <1>8, ChainsUndo DEF op
<1>10. Leads(rows, op.undo, E)
  BY <1>9 DEF Legal
<1>11. RowsAfter(rows, op.undo) = E
  BY <1>6, <1>7, <1>10, LeadsAfter
<1>12. Leading'
  BY <1>1, <1>3, <1>10, <1>11 DEF Leading, LeadsOn
<1>13. Doc' = E
  <2>1. rows' \in Docs /\ todo' \in Seq(PrimSet)
    BY <1>1, <1>6, <1>7
  <2> QED BY <1>1, <1>11, <2>1, DocPlainNext
<1>14. Reversible'
  BY <1>1, <1>9, <1>13 DEF Reversible, Distinct
<1>15. Document!Undo
  <2>1. /\ Past = Along(rows, UndosOf(<<op>> \o Tail(undoStack)))
        /\ Past' = Along(E, UndosOf(Tail(undoStack)))
    BY <1>1, <1>3, <1>4, <1>5, <1>7, <1>13 DEF Calm, Past, Lost, Undos, UndosOf
  <2>2. /\ Future = Along(rows, RedosOf(redoStack)) /\ Future' = Along(E, RedosOf(<<op>> \o redoStack))
    BY <1>1, <1>3, <1>4, <1>7, <1>13 DEF Calm, Future, Lost, Redos, RedosOf
  <2>3. Past = <<E>> \o Past'
    BY <1>5, <1>7, <1>9, <2>1, AlongOver
  <2>4. Future' = <<rows>> \o Future
    BY <1>5, <1>7, <1>9, <2>2, AlongOver
  <2>5. Past' \in Seq(Docs)
    <3> DEFINE a == UndosOf(Tail(undoStack))
    <3>1. a \in OpsSet
      BY <1>5, SidesAre
    <3> HIDE DEF a
    <3>2. Along(E, a) \in Seq(Docs)
      BY <3>1, VisitsExist, AlongIs
    <3> QED BY <2>1, <3>2 DEF a
  <2> DEFINE b == Past'
             a == Past
  <2>6. a = <<E>> \o b /\ b \in Seq(Docs)
    BY <2>3, <2>5
  <2> HIDE DEF a, b
  <2>7. a # <<>> /\ Head(a) = E /\ Tail(a) = b
    BY <2>6, FrontIs, TailOfFront
  <2> QED BY <1>7, <1>13, <2>4, <2>7 DEF Document!Undo, a, b
<1>16. Warm'
  <2>1. WarmStack(cache, Tail(undoStack)) /\ WarmOp(cache, op)
    BY <1>1, <1>2, <1>5, WarmTail DEF Warm, op
  <2>2. WarmStack(cache, <<op>> \o redoStack)
    BY <1>2, <1>5, <2>1, WarmFront DEF Warm
  <2> QED BY <1>1, <2>1, <2>2 DEF Warm, WarmOp
<1>17. Erasing'
  BY <1>1 DEF Erasing
<1> QED BY <1>4, <1>12, <1>14, <1>15, <1>16, <1>17, KeepsEdit DEF ListsRight

\* Redo.
LEMMA RedoLastKeeps == ASSUME Types, Calm, Core, RedoLast PROVE Keeps
<1> DEFINE op == Head(redoStack)
<1>0. job = NoJob
  BY DEF RedoLast, Calm, Orderly
<1>1. /\ Ready /\ editing = None /\ editing' = None /\ redoStack # <<>> /\ todo' = op.redo
      /\ redoStack' = Tail(redoStack) /\ undoStack' = <<op>> \o undoStack
      /\ UNCHANGED <<rows, cache, half, view, job>>
  BY DEF RedoLast, Idle
<1>2. ListsRight /\ Reversible /\ Warm
  BY DEF Core, DocRight, ListsRight
<1>3. todo = <<>> /\ half = None /\ job = NoJob /\ ~Importing
  BY <1>0, <1>1, <1>2, ReadyIs
<1>4. /\ Exact' /\ Placing' /\ Alone' /\ Shown' /\ Loaded' /\ ~Importing'
  BY <1>0, <1>1, <1>2, MoveLists
<1>5. /\ undoStack \in Seq(OpSet) /\ redoStack \in Seq(OpSet) /\ op \in OpSet
      /\ Tail(redoStack) \in Seq(OpSet) /\ redoStack = <<op>> \o Tail(redoStack)
  BY <1>1, FrontOfTail DEF Types
<1>6. op.redo \in Seq(PrimSet)
  BY <1>5 DEF OpSet
<1>7. Doc = rows /\ rows \in Docs
  BY <1>1, <1>3, DocPlain
<1>8. Distinct(rows) /\ Chains(rows, undoStack, redoStack)
  BY <1>2, <1>3, <1>7 DEF Reversible
<1> HIDE DEF op
<1>9. PICK E \in Docs : /\ Distinct(E) /\ Legal(op, rows, E)
                        /\ Chains(E, <<op>> \o undoStack, Tail(redoStack))
  BY <1>1, <1>5, <1>7, <1>8, ChainsRedo DEF op
<1>10. Leads(rows, op.redo, E)
  BY <1>9 DEF Legal
<1>11. RowsAfter(rows, op.redo) = E
  BY <1>6, <1>7, <1>10, LeadsAfter
<1>12. Leading'
  BY <1>1, <1>3, <1>10, <1>11 DEF Leading, LeadsOn
<1>13. Doc' = E
  <2>1. rows' \in Docs /\ todo' \in Seq(PrimSet)
    BY <1>1, <1>6, <1>7
  <2> QED BY <1>1, <1>11, <2>1, DocPlainNext
<1>14. Reversible'
  BY <1>1, <1>9, <1>13 DEF Reversible, Distinct
<1>15. Document!Redo
  <2>1. /\ Future = Along(rows, RedosOf(<<op>> \o Tail(redoStack)))
        /\ Future' = Along(E, RedosOf(Tail(redoStack)))
    BY <1>1, <1>3, <1>4, <1>5, <1>7, <1>13 DEF Calm, Future, Lost, Redos, RedosOf
  <2>2. /\ Past = Along(rows, UndosOf(undoStack)) /\ Past' = Along(E, UndosOf(<<op>> \o undoStack))
    BY <1>1, <1>3, <1>4, <1>7, <1>13 DEF Calm, Past, Lost, Undos, UndosOf
  <2>3. Future = <<E>> \o Future'
    BY <1>5, <1>7, <1>9, <2>1, AlongOver
  <2>4. Past' = <<rows>> \o Past
    BY <1>5, <1>7, <1>9, <2>2, AlongOver
  <2>5. Future' \in Seq(Docs)
    <3> DEFINE a == RedosOf(Tail(redoStack))
    <3>1. a \in OpsSet
      BY <1>5, SidesAre
    <3> HIDE DEF a
    <3>2. Along(E, a) \in Seq(Docs)
      BY <3>1, VisitsExist, AlongIs
    <3> QED BY <2>1, <3>2 DEF a
  <2> DEFINE b == Future'
             a == Future
  <2>6. a = <<E>> \o b /\ b \in Seq(Docs)
    BY <2>3, <2>5
  <2> HIDE DEF a, b
  <2>7. a # <<>> /\ Head(a) = E /\ Tail(a) = b
    BY <2>6, FrontIs, TailOfFront
  <2> QED BY <1>7, <1>13, <2>4, <2>7 DEF Document!Redo, a, b
<1>16. Warm'
  <2>1. WarmStack(cache, Tail(redoStack)) /\ WarmOp(cache, op)
    BY <1>1, <1>2, <1>5, WarmTail DEF Warm, op
  <2>2. WarmStack(cache, <<op>> \o undoStack)
    BY <1>2, <1>5, <2>1, WarmFront DEF Warm
  <2> QED BY <1>1, <2>1, <2>2 DEF Warm, WarmOp
<1>17. Erasing'
  BY <1>1 DEF Erasing
<1> QED BY <1>4, <1>12, <1>14, <1>15, <1>16, <1>17, KeepsEdit DEF ListsRight

-----------------------------------------------------------------------------
(* The rest of a call *)

\* A primitive reaches the rows: the document is what it was.
LEMMA RunDoc ==
  ASSUME Types, Calm, Core, todo # <<>>, half = None, rows' = Run(rows, Head(todo)), half' # None,
         UNCHANGED <<todo, stacks, editing, view, job>>
  PROVE  Leading' /\ Erasing' /\ Reversible' /\ UNCHANGED Document!vars
<1>1. Reversible /\ Erasing /\ Leading /\ editing = None
  BY DEF Core, DocRight, Erasing
<1> DEFINE p == Head(todo)
           D == RowsAfter(rows, todo)
<1>2. rows \in Docs /\ todo \in Seq(PrimSet) /\ p \in PrimSet
  BY RowsDoc, HeadIs DEF Types
<1>3. Leads(rows, todo, D)
  BY <1>1 DEF Leading, LeadsOn
<1>4. Leads(Run(rows, p), Tail(todo), D)
  BY <1>2, <1>3, LeadsHead
<1>5. Run(rows, p) \in Docs /\ Run(Run(rows, p), p) = Run(rows, p)
  BY <1>2, RunType, RunAgain
<1>6. D = RowsAfter(Run(rows, p), Tail(todo))
  BY <1>2, AfterHead
<1>7. RowsAfter(rows', todo) = D
  <2>1. RowsAfter(rows', todo) = RowsAfter(Run(rows', p), Tail(todo))
    BY <1>2, <1>5, AfterHead
  <2> QED BY <1>5, <1>6, <2>1
<1> HIDE DEF D
<1>8. Leading'
  BY <1>4, <1>5, <1>7 DEF Leading, LeadsOn
<1>9. Doc = D
  BY <1>1, DocPlain DEF D
<1>10. Doc' = D
  <2>1. rows' \in Docs /\ todo' \in Seq(PrimSet) /\ editing' = None
    BY <1>1, <1>2, <1>5
  <2> QED BY <1>7, <2>1, DocPlainNext
<1>11. Erasing'
  BY <1>1 DEF Erasing
<1>12. Importing' <=> Importing
  BY DEF Importing
<1> QED BY <1>1, <1>8, <1>9, <1>10, <1>11, <1>12, SameDoc

\* In a call, there is no job.
LEMMA CallIs ==
  ASSUME Core, todo # <<>>
  PROVE  /\ job = NoJob /\ ~Importing /\ ListsRight /\ Exact /\ (half = None => editing = None)
  BY DEF Core, ListsRight, DocRight, Alone, Erasing, Importing, NoJob

\* What the first primitive finds.
LEMMA HeadFits ==
  ASSUME Types, Core, todo # <<>>, half = None
  PROVE  Fits(rows, Head(todo))
<1>1. rows \in Docs /\ todo \in Seq(PrimSet) /\ Leads(rows, todo, RowsAfter(rows, todo))
  BY RowsDoc DEF Types, Core, DocRight, Leading, LeadsOn
<1> QED BY <1>1, LeadsHead

\* The lists do not need to change when a row does, but the one of the call.
LEMMA CallWarm ==
  ASSUME ListsRight, UNCHANGED <<cache, todo, stacks>>
  PROVE  Warm'
  BY DEF ListsRight, Warm, stacks

\* The row of a restored annotation is written.
LEMMA WriteRowKeeps == ASSUME Types, Calm, Core, WriteRow PROVE Keeps
<1> DEFINE p == Head(todo)
<1>1. /\ todo # <<>> /\ half = None /\ p.do # "remove" /\ rows' = Inserted(rows, p.recs) /\ half' = EmptyBag
      /\ UNCHANGED <<cache, stacks, todo, editing, view, job>>
  BY DEF WriteRow
<1>2. p \in PrimSet /\ Fits(rows, p)
  BY <1>1, HeadIs, HeadFits
<1>3. job = NoJob /\ ListsRight /\ Exact
  BY <1>1, CallIs
<1> HIDE DEF p
<1>4. PICK r \in OnPages :
        /\ p.recs = {r}
        /\ \/ p.do = "remove" /\ r \in rows
           \/ p.do = "append" /\ \A q \in rows : q.id # r.id
           \/ p.do = "replace" /\ r.id \in Notes /\ \A q \in rows : q.id = r.id => q.page = r.page
  BY <1>2 DEF Fits
<1>5. r \in p.recs /\ cache[Kind(r.id)][r.page] # None
  <2>1. WarmOn(cache, todo) /\ todo \in Seq(PrimSet)
    BY <1>3 DEF ListsRight, Warm, Types
  <2>2. \A q \in Head(todo).recs : cache[Kind(q.id)][q.page] # None
    BY <1>1, <2>1, WarmRest
  <2> QED BY <1>4, <2>2 DEF p
<1>6. /\ p.do = "append" => \A x \in rows, y \in p.recs : x.id # y.id
      /\ \A x \in rows, y \in p.recs : x.id = y.id => x.page = y.page
      /\ p.do = "replace" => p.recs = {r}
  BY <1>1, <1>4
<1>7. todo' # <<>> /\ Head(todo') = p /\ job' = job /\ cache' = cache
  BY <1>1 DEF p
<1>8. Exact' /\ Placing'
  BY <1>1, <1>2, <1>3, <1>5, <1>6, <1>7, InsertLists
<1>9. rows' = Run(rows, p)
  BY <1>1 DEF Run
<1>10. half' # None
  BY <1>1, BagIsList DEF EmptyBag, Docs
<1>11. Leading' /\ Erasing' /\ Reversible' /\ UNCHANGED Document!vars
  BY <1>1, <1>9, <1>10, RunDoc DEF p
<1>12. Alone' /\ Shown' /\ Loaded' /\ Warm'
  BY <1>1, <1>3, CallAlone, CallWarm
<1> QED BY <1>8, <1>11, <1>12, KeepsEdit DEF ListsRight

\* The row of a removed annotation is deleted.
LEMMA DeleteRowKeeps == ASSUME Types, Calm, Core, DeleteRow PROVE Keeps
<1> DEFINE p == Head(todo)
<1>1. todo # <<>> /\ half = None /\ p.do = "remove" /\ UNCHANGED <<stacks, editing, view, job>>
  BY DEF DeleteRow
<1>2. p \in PrimSet /\ Fits(rows, p)
  BY <1>1, HeadIs, HeadFits
<1>3. job = NoJob /\ ListsRight /\ Exact
  BY <1>1, CallIs
<1>4. PICK r \in p.recs :
        LET list == ListFor(Kind(r.id), r.page)
        IN  IF Matches(list, r.id) = {}
            THEN /\ cache' = [cache EXCEPT ![Kind(r.id)][r.page] = list]
                 /\ todo' = Tail(todo)
                 /\ UNCHANGED <<rows, half>>
            ELSE (\E m \in Matches(list, r.id) : Take(list, m)) /\ UNCHANGED todo
  BY DEF DeleteRow
<1> HIDE DEF p
<1>5. p.recs = {r} /\ r \in rows /\ r \in OnPages
  BY <1>1, <1>2, <1>4 DEF Fits
<1> DEFINE k == Kind(r.id)
           q == r.page
           list == ListFor(k, q)
<1>6. k \in Kinds /\ q \in Pages /\ r \in Rows(k, q)
  BY <1>2, <1>5, RecsAt DEF Rows
<1>7. \/ Matches(list, r.id) = {}
      \/ (\E m \in Matches(list, r.id) : Take(list, m)) /\ UNCHANGED todo
  BY <1>4
<1>8. r.id = r.id /\ r \in Rows(k, q)
  BY <1>6
<1> HIDE DEF k, q
<1>9. list = SetToBag(Rows(k, q))
  BY <1>1, <1>3, <1>6, ListForIs
<1>10. Matches(list, r.id) = {x \in Rows(k, q) : x.id = r.id}
  BY <1>9, MatchesAre
<1>11. Matches(list, r.id) = {r}
  <2>1. Distinct(Rows(k, q))
    BY RowsDoc
  <2> QED BY <1>6, <1>10, <2>1 DEF Distinct
<1>12. r \in DOMAIN list
  BY <1>11 DEF Matches
<1>13. Take(list, r) /\ todo' = todo
  BY <1>7, <1>11
<1>14. /\ rows' = rows \ {r} /\ half' = SetToBag(Rows(k, q) \ {r}) /\ cache' = cache
  BY <1>1, <1>3, <1>6, <1>12, <1>13, TakeIs
<1>15. p = Remove1(r)
  <2>1. p = [do |-> p.do, recs |-> p.recs]
    BY <1>2 DEF PrimSet
  <2> QED BY <1>1, <1>5, <2>1 DEF Remove1, p
<1>16. Exact' /\ Placing'
  <2>1. todo' # <<>> /\ Head(todo') = Remove1(r) /\ job' = job
    BY <1>1, <1>13, <1>15 DEF p
  <2> HIDE DEF list
  <2> QED BY <1>1, <1>3, <1>6, <1>14, <2>1, TakeLists
<1>17. rows' = Run(rows, p)
  <2>1. Run(rows, p) = Deleted(rows, {r}) /\ Distinct(rows)
    BY <1>1, <1>5, RowsDoc DEF Run, p
  <2> QED BY <1>5, <1>14, <2>1 DEF Deleted, Distinct
<1>18. half' # None
  <2>1. Rows(k, q) \ {r} \in Docs
    BY RowsDoc DEF Docs
  <2> QED BY <1>14, <2>1, BagIsList
<1>19. Leading' /\ Erasing' /\ Reversible' /\ UNCHANGED Document!vars
  BY <1>1, <1>13, <1>17, <1>18, RunDoc DEF p
<1>20. Alone' /\ Shown' /\ Loaded' /\ Warm'
  BY <1>1, <1>3, <1>13, <1>14, CallAlone, CallWarm
<1> QED BY <1>16, <1>19, <1>20, KeepsEdit DEF ListsRight

\* The list follows.
LEMMA PlaceKeeps == ASSUME Types, Calm, Core, Place PROVE Keeps
<1>1. /\ todo # <<>> /\ half # None /\ half' = None /\ todo' = Tail(todo)
      /\ UNCHANGED <<rows, stacks, editing, view, job>>
  BY PlaceIs
<1>2. job = NoJob /\ ListsRight /\ Reversible /\ Leading /\ Erasing
  BY <1>1, CallIs DEF Core, DocRight
<1>3. /\ Exact' /\ Placing'
      /\ \A k \in Kinds, p \in Pages : cache[k][p] # None => cache'[k][p] # None
  BY <1>2, PlaceLists
<1>4. /\ rows \in Docs /\ todo \in Seq(PrimSet) /\ Tail(todo) \in Seq(PrimSet)
      /\ undoStack \in Seq(OpSet) /\ redoStack \in Seq(OpSet)
  BY <1>1, RowsDoc, TailIs DEF Types
<1>5. Alone' /\ Loaded'
  BY <1>1, <1>2 DEF Alone, Loaded, NoJob
<1>6. Shown'
  <2>1. page \in Pages /\ page' = page /\ visible' = visible /\ job' = job
    BY <1>1 DEF Types, Typed, view
  <2> QED BY <1>2, <1>3, <2>1 DEF ListsRight, Shown, NoJob
<1>7. Warm'
  <2>1. WarmOn(cache, todo) /\ WarmStack(cache, undoStack) /\ WarmStack(cache, redoStack)
    BY <1>2 DEF ListsRight, Warm
  <2>2. WarmOn(cache, Tail(todo))
    BY <1>1, <1>4, <2>1, WarmRest
  <2>3. WarmOn(cache', Tail(todo))
    BY <1>3, <1>4, <2>2, WarmMore
  <2>4. WarmStack(cache', undoStack) /\ WarmStack(cache', redoStack)
    BY <1>3, <1>4, <2>1, WarmStackMore
  <2> QED BY <1>1, <2>3, <2>4 DEF Warm, stacks
<1> DEFINE D == RowsAfter(rows, todo)
<1>8. Run(rows, Head(todo)) = rows /\ Leads(rows, Tail(todo), D)
  BY <1>1, <1>2 DEF Leading, LeadsOn
<1>9. D = RowsAfter(rows, Tail(todo))
  BY <1>1, <1>4, <1>8, AfterHead
<1> HIDE DEF D
<1>10. Leading'
  BY <1>1, <1>8, <1>9 DEF Leading, LeadsOn
<1>11. Doc' = Doc
  <2>1. Doc = D \cup (Held \ rows) /\ Doc' = RowsAfter(rows, Tail(todo)) \cup (Held \ rows)
    BY <1>1 DEF Doc, D, Held
  <2> QED BY <1>9, <2>1
<1>12. Reversible' /\ UNCHANGED Document!vars
  <2>1. Importing' <=> Importing
    BY <1>1 DEF Importing
  <2> QED BY <1>1, <1>2, <1>11, <2>1, SameDoc
<1>13. Erasing'
  <2>1. ASSUME editing # None PROVE todo' = <<>> /\ editing' = editing /\ page' = page /\ rows' = rows
    <3>1. todo = <<Remove1(editing)>>
      BY <1>1, <1>2, <2>1 DEF Erasing
    <3>2. Tail(<<Remove1(editing)>>) = <<>>
      OBVIOUS
    <3> QED BY <1>1, <3>1, <3>2 DEF view
  <2> QED BY <1>1, <1>2, <2>1 DEF Erasing
<1> QED BY <1>3, <1>5, <1>6, <1>7, <1>10, <1>12, <1>13, KeepsEdit DEF ListsRight

\* The lists of the page are loaded.
LEMMA DrawKeeps == ASSUME Types, Calm, Core, Draw PROVE Keeps
<1>1. /\ todo = <<>> /\ visible
      /\ cache' = [k \in Kinds |-> [cache[k] EXCEPT ![page] = ListFor(k, page)]]
      /\ UNCHANGED <<rows, stacks, todo, half, editing, view, job>>
  BY DEF Draw
<1>2. ListsRight /\ Exact /\ Reversible /\ Leading /\ Erasing /\ half = None
  BY <1>1 DEF Core, ListsRight, DocRight, Types
<1>3. \A l \in Kinds, m \in Pages : cache'[l][m] = IF m = page THEN ListFor(l, page) ELSE cache[l][m]
  <2>1. ASSUME NEW l \in Kinds, NEW m \in Pages
        PROVE  cache'[l][m] = IF m = page THEN ListFor(l, page) ELSE cache[l][m]
    <3>1. cache[l] \in [Pages -> {None} \cup ListSet]
      BY DEF Types
    <3>2. cache'[l] = [cache[l] EXCEPT ![page] = ListFor(l, page)]
      BY <1>1
    <3> QED BY <3>1, <3>2
  <2> QED BY <2>1
<1>4. page \in Pages /\ \A l \in Kinds : ListFor(l, page) # None
  BY ListForAt DEF Types, Typed
<1>5. \A l \in Kinds, m \in Pages : cache[l][m] # None => cache'[l][m] # None
  BY <1>3, <1>4
<1>6. Exact'
  <2>1. ASSUME NEW l \in Kinds, NEW m \in Pages, cache'[l][m] # None, ~Stale(l, m)'
        PROVE  cache'[l][m] = SetToBag(Rows(l, m)')
    <3>1. Rows(l, m)' = Rows(l, m)
      BY <1>1 DEF Rows
    <3>2. ~Stale(l, m)
      BY <1>1, <2>1 DEF Stale, Importing
    <3>3. ListFor(l, m) = SetToBag(Rows(l, m))
      BY <1>2, <3>2 DEF Exact, ListFor
    <3>4. cache'[l][m] = ListFor(l, m)
      BY <1>3, <2>1 DEF ListFor
    <3> QED BY <3>1, <3>3, <3>4
  <2> QED BY <2>1 DEF Exact
<1>7. Placing' /\ Alone' /\ Loaded'
  BY <1>1, <1>2 DEF Placing, ListsRight, Alone, Loaded, Rows
<1>8. Shown'
  BY <1>1, <1>2 DEF ListsRight, Shown, view, stacks
<1>9. Warm'
  <2>1. /\ undoStack' = undoStack /\ redoStack' = redoStack /\ todo' = todo
        /\ undoStack \in Seq(OpSet) /\ redoStack \in Seq(OpSet) /\ todo \in Seq(PrimSet)
    BY <1>1 DEF Types, stacks
  <2>2. WarmOn(cache, todo) /\ WarmStack(cache, undoStack) /\ WarmStack(cache, redoStack)
    BY <1>2 DEF ListsRight, Warm
  <2>3. WarmOn(cache', todo) /\ WarmStack(cache', undoStack) /\ WarmStack(cache', redoStack)
    BY <1>5, <2>1, <2>2, WarmMore, WarmStackMore
  <2> QED BY <2>1, <2>3 DEF Warm
<1>10. Doc' = Doc /\ (Importing' <=> Importing) /\ Leading' /\ Erasing' /\ UNCHANGED stacks
  BY <1>1, <1>2 DEF Doc, Held, Importing, Leading, Erasing, view
<1> QED BY <1>2, <1>6, <1>7, <1>8, <1>9, <1>10, SameDoc, KeepsEdit DEF ListsRight

-----------------------------------------------------------------------------
(* Pages and jobs *)

\* A step between two calls that leaves rows, operations and document as they are.
LEMMA QuietKeeps ==
  ASSUME Calm, Core, todo = <<>>, UNCHANGED <<rows, stacks, todo, half, editing>>, Importing' <=> Importing
  PROVE  Reversible' /\ UNCHANGED Document!vars /\ Leading'
<1>1. Reversible /\ Leading
  BY DEF Core, DocRight
<1>2. Doc' = Doc /\ Leading'
  BY <1>1 DEF Doc, Held, Leading
<1> QED BY <1>1, <1>2, SameDoc

\* Another page is shown.
LEMMA TurnPageKeeps == ASSUME Types, Calm, Core, NEW p \in Pages, TurnPage(p) PROVE Keeps
<1>1. /\ todo = <<>> /\ editing = None /\ visible /\ visible' = visible
      /\ UNCHANGED <<rows, cache, stacks, todo, half, editing, job>>
  BY DEF TurnPage, Calm, Orderly
<1>2. ListsRight
  BY DEF Core
<1>3. Exact' /\ Loaded' /\ Alone' /\ Warm' /\ (Importing' <=> Importing)
  BY <1>1, <1>2 DEF ListsRight, Exact, Stale, Importing, Rows, Loaded, Alone, Warm, stacks
<1>4. Shown'
  BY <1>1, <1>2 DEF ListsRight, Shown, stacks
<1>5. Placing' /\ Erasing'
  BY <1>1 DEF Placing, Erasing, Types
<1> QED BY <1>1, <1>3, <1>4, <1>5, QuietKeeps, KeepsEdit DEF ListsRight

\* Annotations are hidden, or shown.
LEMMA ToggleKeeps == ASSUME Types, Calm, Core, ToggleComments PROVE Keeps
<1>0. job = NoJob
  BY DEF ToggleComments, Calm, Orderly
<1>1. /\ Ready /\ editing = None /\ page' = page
      /\ UNCHANGED <<rows, cache, stacks, todo, half, editing, job>>
  BY DEF ToggleComments, Idle
<1>2. ListsRight
  BY DEF Core
<1>3. todo = <<>> /\ half = None /\ job = NoJob /\ \A k \in Kinds : cache[k][page] # None
  BY <1>0, <1>1, <1>2, ReadyIs
<1>4. Exact' /\ Loaded' /\ Alone' /\ Warm' /\ (Importing' <=> Importing)
  BY <1>1, <1>2 DEF ListsRight, Exact, Stale, Importing, Rows, Loaded, Alone, Warm, stacks
<1>5. Shown'
  BY <1>1, <1>3 DEF Shown, NoJob
<1>6. Placing' /\ Erasing'
  BY <1>1, <1>3 DEF Placing, Erasing
<1> QED BY <1>1, <1>3, <1>4, <1>5, <1>6, QuietKeeps, KeepsEdit DEF ListsRight

\* The comments panel reads the lists that are missing.
LEMMA CommentsReadKeeps == ASSUME Types, Calm, Core, NEW p \in Pages, CommentsRead(p) PROVE Keeps
<1> DEFINE K == {c \in Kinds : cache[c][p] = None}
<1>1. /\ job = NoJob /\ todo = <<>> /\ editing = None
      /\ job' = [what |-> "comments", page |-> p, lists |-> [k \in K |-> SetToBag(Rows(k, p))]]
      /\ UNCHANGED <<rows, cache, stacks, todo, half, editing, view>>
  BY DEF CommentsRead, Calm, Orderly, Between
<1> HIDE DEF K
<1>2. ListsRight /\ half = None
  BY <1>1 DEF Core, Types
<1>3. job'.what = "comments" /\ (Importing' <=> Importing)
  BY <1>1 DEF Importing, NoJob
<1>4. Exact'
  BY <1>1, <1>2, <1>3 DEF ListsRight, Exact, Stale, Importing, NoJob, Rows
<1>5. Loaded'
  BY <1>1 DEF Loaded, Rows
<1>6. Shown'
  BY <1>1, <1>2, <1>3 DEF ListsRight, Shown, view
<1>7. Alone' /\ Warm' /\ Placing' /\ Erasing'
  BY <1>1, <1>2 DEF ListsRight, Alone, Warm, stacks, Placing, Erasing
<1> QED BY <1>1, <1>3, <1>4, <1>5, <1>6, <1>7, QuietKeeps, KeepsEdit DEF ListsRight

\* The session keeps them: nothing was edited meanwhile.
LEMMA CommentsKeepKeeps == ASSUME Types, Calm, Core, CommentsKeep PROVE Keeps
<1>1. /\ job.what = "comments" /\ todo = <<>> /\ editing = None /\ job' = NoJob
      /\ cache' = [k \in Kinds |->
                    IF k \in DOMAIN job.lists THEN [cache[k] EXCEPT ![job.page] = job.lists[k]]
                    ELSE cache[k]]
      /\ UNCHANGED <<rows, stacks, todo, half, editing, view>>
  BY DEF CommentsKeep, Calm, Orderly, Between
<1>2. ListsRight /\ half = None
  BY <1>1 DEF Core, Types
<1>3. job.page \in Pages /\ DOMAIN job.lists \subseteq Kinds
  BY <1>1, TypesAre DEF JobOK
<1>4. ASSUME NEW l \in Kinds, NEW m \in Pages
      PROVE  cache'[l][m] = IF l \in DOMAIN job.lists /\ m = job.page
                            THEN SetToBag(Rows(l, m)) ELSE cache[l][m]
  <2>1. cache[l] \in [Pages -> {None} \cup ListSet]
    BY DEF Types
  <2>2. CASE l \notin DOMAIN job.lists
    BY <1>1, <2>2
  <2>3. CASE l \in DOMAIN job.lists
    <3> DEFINE q == job.page
               b == job.lists[l]
    <3>1. cache'[l] = [cache[l] EXCEPT ![q] = b]
      BY <1>1, <2>3
    <3>2. b = SetToBag(Rows(l, q))
      BY <1>1, <1>2, <2>3 DEF ListsRight, Loaded
    <3> HIDE DEF q, b
    <3>3. cache'[l][m] = IF m = q THEN b ELSE cache[l][m]
      BY <2>1, <3>1
    <3> QED BY <2>3, <3>2, <3>3 DEF q
  <2> QED BY <2>2, <2>3
<1>5. \A l \in Kinds, m \in Pages : SetToBag(Rows(l, m)) # None
  BY RowsDoc, BagIsList
<1>6. \A l \in Kinds, m \in Pages : cache[l][m] # None => cache'[l][m] # None
  BY <1>4, <1>5
<1>7. Exact'
  <2>1. ASSUME NEW l \in Kinds, NEW m \in Pages, cache'[l][m] # None
        PROVE  cache'[l][m] = SetToBag(Rows(l, m)')
    <3>1. Rows(l, m)' = Rows(l, m)
      BY <1>1 DEF Rows
    <3>2. ~Stale(l, m)
      BY <1>1, <1>2 DEF Stale, Importing
    <3> QED BY <1>2, <1>4, <2>1, <3>1, <3>2 DEF ListsRight, Exact
  <2> QED BY <2>1 DEF Exact
<1>8. Shown'
  <2>1. page \in Pages /\ page' = page /\ visible' = visible
    BY <1>1 DEF Types, Typed, view
  <2> QED BY <1>1, <1>2, <1>6, <2>1 DEF ListsRight, Shown, NoJob
<1>9. Warm'
  <2>1. /\ undoStack' = undoStack /\ redoStack' = redoStack /\ todo' = todo
        /\ undoStack \in Seq(OpSet) /\ redoStack \in Seq(OpSet) /\ todo \in Seq(PrimSet)
    BY <1>1 DEF Types, stacks
  <2>2. WarmOn(cache, todo) /\ WarmStack(cache, undoStack) /\ WarmStack(cache, redoStack)
    BY <1>2 DEF ListsRight, Warm
  <2>3. WarmOn(cache', todo) /\ WarmStack(cache', undoStack) /\ WarmStack(cache', redoStack)
    BY <1>6, <2>1, <2>2, WarmMore, WarmStackMore
  <2> QED BY <2>1, <2>3 DEF Warm
<1>10. Alone' /\ Loaded' /\ Placing' /\ Erasing' /\ (Importing' <=> Importing)
  BY <1>1, <1>2 DEF Alone, Loaded, Placing, Erasing, Importing, NoJob
<1> QED BY <1>1, <1>7, <1>8, <1>9, <1>10, QuietKeeps, KeepsEdit DEF ListsRight

\* What leaves no call and no stroke under way, and no operation or an import.
LEMMA FreshStart ==
  ASSUME Types', todo' = <<>>, half' = None, editing' = None,
         Importing' \/ (undoStack' = <<>> /\ redoStack' = <<>>)
  PROVE  /\ Alone' /\ Placing' /\ Leading' /\ Erasing' /\ Reversible' /\ Document!Restart
         /\ WarmOn(cache', todo') /\ ((undoStack' = <<>> /\ redoStack' = <<>>) => Warm')
<1>1. rows' \in Docs /\ Distinct(rows')
  BY TypesNext DEF RowsTyped, Docs, Distinct
<1>2. <<>> \in Seq(PrimSet)
  OBVIOUS
<1>3. Doc' = rows' /\ Doc' \in Docs
  BY <1>1, <1>2, DocPlainNext
<1>4. Distinct(Doc')
  BY <1>1, <1>3
<1>5. Reversible' /\ Document!Restart
  BY <1>3, <1>4, RestartDoc
<1>6. Leading'
  <2> DEFINE R == rows'
  <2>1. RowsAfter(R, <<>>) = R /\ Leads(R, <<>>, R)
    BY <1>1, AfterNothing, LeadsNothing
  <2> QED BY <2>1 DEF Leading, LeadsOn
<1>7. Alone' /\ Placing' /\ Erasing'
  BY DEF Alone, Placing, Erasing
<1>8. WarmOn(cache', todo') /\ ((undoStack' = <<>> /\ redoStack' = <<>>) => Warm')
  BY WarmNothing DEF Warm
<1> QED BY <1>5, <1>6, <1>7, <1>8

\* No lists: nothing is wrong in them.
LEMMA NoListsRight == ASSUME cache' = NoLists PROVE Exact'
  BY DEF Exact, NoLists

\* A row of a bundle is written.
LEMMA ImportRowsKeeps == ASSUME Types, Types', Calm, Core, NEW r \in Bundle, ImportRows(r) PROVE Keeps
<1>1. /\ job = NoJob /\ todo = <<>> /\ editing = None /\ visible /\ job' = [what |-> "import"]
      /\ UNCHANGED <<cache, stacks, todo, half, editing, view>>
  BY DEF ImportRows, Calm, Orderly, Between
<1>2. ListsRight /\ half = None
  BY <1>1 DEF Core, Types
<1>3. Importing'
  BY <1>1 DEF Importing
<1>4. /\ Alone' /\ Placing' /\ Leading' /\ Erasing' /\ Reversible' /\ Document!Restart
  BY <1>1, <1>2, <1>3, FreshStart
<1>5. Exact' /\ Loaded'
  BY <1>1, <1>3 DEF Exact, Stale, Loaded
<1>6. Shown' /\ Warm'
  BY <1>1, <1>2 DEF ListsRight, Shown, Warm, stacks, view
<1> QED BY <1>4, <1>5, <1>6, KeepsEdit DEF ListsRight

\* The lists and operations are forgotten.
LEMMA ImportClearKeeps == ASSUME Types, Types', Calm, Core, ImportClear PROVE Keeps
<1>1. /\ Importing /\ todo = <<>> /\ editing = None /\ job' = NoJob
      /\ cache' = NoLists /\ undoStack' = <<>> /\ redoStack' = <<>>
      /\ UNCHANGED <<rows, todo, half, editing, view>>
  BY DEF ImportClear, Calm, Orderly, Between, Importing
<1>2. ListsRight /\ half = None
  BY <1>1 DEF Core, Types
<1>3. /\ Alone' /\ Placing' /\ Leading' /\ Erasing' /\ Reversible' /\ Document!Restart /\ Warm'
  BY <1>1, <1>2, FreshStart
<1>4. Exact' /\ Loaded'
  BY <1>1, NoListsRight DEF Loaded, NoJob
<1>5. Shown'
  BY <1>1, <1>2 DEF ListsRight, Shown, view, Importing, NoJob
<1> QED BY <1>3, <1>4, <1>5, KeepsEdit DEF ListsRight

\* A new session for the new layout.
LEMMA RelayoutKeeps == ASSUME Types, Types', Calm, Core, Relayout PROVE Keeps
<1>1. /\ todo = <<>> /\ editing = None /\ visible /\ job' = [what |-> "relayout"]
      /\ cache' = NoLists /\ undoStack' = <<>> /\ redoStack' = <<>>
      /\ UNCHANGED <<todo, half, editing, view>>
  BY DEF Relayout, Idle, Ready, Calm, Orderly
<1>2. half = None
  BY <1>1 DEF Types
<1>3. /\ Alone' /\ Placing' /\ Leading' /\ Erasing' /\ Reversible' /\ Document!Restart /\ Warm'
  BY <1>1, <1>2, FreshStart
<1>4. Exact' /\ Loaded'
  BY <1>1, NoListsRight DEF Loaded
<1>5. Shown'
  BY <1>1 DEF Shown, view
<1> QED BY <1>3, <1>4, <1>5, KeepsEdit DEF ListsRight

\* The session ends.
LEMMA ReopenKeeps == ASSUME Types', Reopen PROVE Keeps
<1>1. /\ todo' = <<>> /\ half' = None /\ editing' = None /\ job' = NoJob /\ visible' = TRUE
      /\ cache' = NoLists /\ undoStack' = <<>> /\ redoStack' = <<>>
  BY DEF Reopen
<1>2. /\ Alone' /\ Placing' /\ Leading' /\ Erasing' /\ Reversible' /\ Document!Restart /\ Warm'
  BY <1>1, FreshStart
<1>3. Exact' /\ Loaded' /\ Shown'
  BY <1>1, NoListsRight DEF Loaded, NoJob, Shown
<1> QED BY <1>2, <1>3, KeepsEdit DEF ListsRight

\* The highlights of the old layout are read.
LEMMA ReanchorReadKeeps == ASSUME Types, Calm, Core, ReanchorRead PROVE Keeps
<1>1. /\ job.what = "relayout" /\ todo = <<>> /\ editing = None
      /\ job' = [what |-> "reanchor", updated |-> FALSE,
                 all |-> {r \in rows : Kind(r.id) = "highlight" /\ r.page = Other}]
      /\ UNCHANGED <<rows, cache, stacks, todo, half, editing, view>>
  BY DEF ReanchorRead, Calm, Orderly, Between
<1>2. ListsRight /\ half = None
  BY <1>1 DEF Core, Types
<1>3. job'.what = "reanchor" /\ job'.updated = FALSE /\ (Importing' <=> Importing)
  BY <1>1 DEF Importing
<1>4. Exact'
  BY <1>1, <1>2, <1>3 DEF ListsRight, Exact, Stale, Importing, Rows
<1>5. Loaded' /\ Shown'
  BY <1>1, <1>2, <1>3 DEF ListsRight, Loaded, Shown, view, stacks
<1>6. Alone' /\ Warm' /\ Placing' /\ Erasing'
  BY <1>1, <1>2 DEF ListsRight, Alone, Warm, stacks, Placing, Erasing
<1> QED BY <1>1, <1>3, <1>4, <1>5, <1>6, QuietKeeps, KeepsEdit DEF ListsRight

\* The job of moving highlights, with a field of it given its value, is that job.
LEMMA OneField ==
  ASSUME NEW j, NEW u, NEW a, j = [what |-> "reanchor", updated |-> u, all |-> a],
         NEW v, NEW b, NEW k, k = [j EXCEPT !.all = b, !.updated = v]
  PROVE  k.what = "reanchor" /\ k.updated = v
<1>1. k = [what |-> "reanchor", updated |-> v, all |-> b]
  OBVIOUS
<1> QED BY <1>1

\* A highlight is written with the page of its quote.
LEMMA ReanchorKeeps == ASSUME Types, Types', Calm, Core, Reanchor PROVE Keeps
<1>1. job.what = "reanchor" /\ todo = <<>> /\ editing = None
  BY DEF Reanchor, Calm, Orderly, Between
<1>2. ListsRight /\ half = None
  BY <1>1 DEF Core, Types
<1>3. PICK r \in job.all, p \in Pages \cup {Other} : ReanchorRow(r, p)
  BY DEF Reanchor
<1>4. /\ job = [what |-> "reanchor", updated |-> job.updated, all |-> job.all]
      /\ job.updated \in BOOLEAN /\ r \in Annotation /\ Kind(r.id) = "highlight"
  BY <1>1, <1>3, TypesAre DEF JobOK
<1>5. /\ job' = [job EXCEPT !.all = @ \ {r}, !.updated = @ \/ p # Other]
      /\ UNCHANGED <<cache, stacks, todo, half, editing, view>>
  BY <1>3 DEF ReanchorRow
<1>6. job'.what = "reanchor" /\ job'.updated = (job.updated \/ p # Other)
  <2> DEFINE u == job.updated
             a == job.all
             v == job.updated \/ p # Other
             b == job.all \ {r}
  <2>1. job = [what |-> "reanchor", updated |-> u, all |-> a]
    BY <1>4
  <2>2. job' = [job EXCEPT !.all = b, !.updated = v]
    BY <1>5
  <2> HIDE DEF u, a, b, v
  <2>3. job'.what = "reanchor" /\ job'.updated = v
    BY <2>1, <2>2, OneField
  <2> QED BY <2>3 DEF v
<1>7. undoStack = <<>> /\ redoStack = <<>> /\ visible /\ ~Importing /\ ~Importing' /\ job'.what = "reanchor"
  BY <1>1, <1>2, <1>6 DEF ListsRight, Shown, Importing
<1>8. undoStack' = <<>> /\ redoStack' = <<>> /\ todo' = <<>> /\ half' = None /\ editing' = None
  BY <1>1, <1>2, <1>5, <1>7 DEF stacks
<1>9. /\ Alone' /\ Placing' /\ Leading' /\ Erasing' /\ Reversible' /\ Document!Restart /\ Warm'
  BY <1>8, FreshStart
<1>10. Loaded' /\ Shown'
  BY <1>5, <1>7, <1>8 DEF Loaded, Shown, view
<1>11. Exact'
  <2>1. ASSUME NEW l \in Kinds, NEW m \in Pages, cache'[l][m] # None, ~Stale(l, m)'
        PROVE  cache'[l][m] = SetToBag(Rows(l, m)')
    <3>1. CASE p = Other
      <4>1. rows' = rows
        BY <1>3, <3>1 DEF ReanchorRow
      <4>2. job'.updated <=> job.updated
        BY <1>4, <1>6, <3>1
      <4>3. ~Stale(l, m)
        BY <1>2, <1>7, <2>1, <4>2 DEF Stale
      <4> QED BY <1>2, <1>5, <2>1, <4>1, <4>3 DEF ListsRight, Exact, Rows
    <3>2. CASE p # Other
      <4>1. rows' = Inserted(rows, {[r EXCEPT !.page = p]})
        BY <1>3, <3>2 DEF ReanchorRow
      <4> DEFINE new == [r EXCEPT !.page = p]
      <4>2. new.id = r.id
        BY <1>4, OtherIs
      <4> HIDE DEF new
      <4>3. job'.updated
        BY <1>6, <3>2
      <4>4. l # "highlight"
        BY <1>7, <2>1, <4>3 DEF Stale
      <4>5. ~Stale(l, m)
        BY <1>2, <1>7, <4>4 DEF Stale
      <4>6. Rows(l, m)' = Rows(l, m)
        BY <1>4, <4>1, <4>2, <4>4 DEF Rows, Inserted, new
      <4> QED BY <1>2, <1>5, <2>1, <4>5, <4>6 DEF ListsRight, Exact
    <3> QED BY <3>1, <3>2
  <2> QED BY <2>1 DEF Exact
<1> QED BY <1>9, <1>10, <1>11, KeepsEdit DEF ListsRight

\* The lists of highlights are forgotten if one was found.
LEMMA ReanchorDoneKeeps == ASSUME Types, Types', Calm, Core, ReanchorDone PROVE Keeps
<1>1. /\ job.what = "reanchor" /\ todo = <<>> /\ editing = None /\ job' = NoJob
      /\ cache' = IF job.updated THEN [cache EXCEPT !["highlight"] = NoLists["highlight"]] ELSE cache
      /\ UNCHANGED <<rows, stacks, todo, half, editing, view>>
  BY DEF ReanchorDone, Calm, Orderly, Between
<1>2. ListsRight /\ half = None
  BY <1>1 DEF Core, Types
<1>3. undoStack = <<>> /\ redoStack = <<>> /\ visible /\ ~Importing /\ ~Importing'
  BY <1>1, <1>2 DEF ListsRight, Shown, Importing, NoJob
<1>4. undoStack' = <<>> /\ redoStack' = <<>> /\ todo' = <<>> /\ half' = None /\ editing' = None
  BY <1>1, <1>2, <1>3 DEF stacks
<1>5. /\ Alone' /\ Placing' /\ Leading' /\ Erasing' /\ Warm'
  BY <1>4, FreshStart
<1>6. Loaded' /\ Shown'
  BY <1>1, <1>3 DEF Loaded, Shown, view, NoJob
<1>7. Exact'
  <2>1. ASSUME NEW l \in Kinds, NEW m \in Pages, cache'[l][m] # None
        PROVE  cache'[l][m] = SetToBag(Rows(l, m)')
    <3>1. Rows(l, m)' = Rows(l, m)
      BY <1>1 DEF Rows
    <3>2. cache'[l][m] = cache[l][m] /\ (job.updated => l # "highlight")
      <4>1. CASE ~job.updated
        BY <1>1, <4>1
      <4>2. CASE job.updated
        <5> DEFINE none == NoLists["highlight"]
        <5>1. none[m] = None /\ cache' = [cache EXCEPT !["highlight"] = none]
          BY <1>1, <4>2 DEF NoLists, Kinds
        <5> HIDE DEF none
        <5>2. cache'[l] = IF l = "highlight" THEN none ELSE cache[l]
          BY <5>1 DEF Types
        <5> QED BY <2>1, <5>1, <5>2
      <4> QED BY <4>1, <4>2
    <3>3. ~Stale(l, m)
      BY <1>2, <1>3, <3>2 DEF Stale
    <3> QED BY <1>2, <2>1, <3>1, <3>2, <3>3 DEF ListsRight, Exact
  <2> QED BY <2>1 DEF Exact
<1>8. Reversible' /\ UNCHANGED Document!vars
  <2>1. Importing' <=> Importing
    BY <1>3
  <2> QED BY <1>1, <2>1, QuietKeeps
<1> QED BY <1>5, <1>6, <1>7, <1>8, KeepsEdit DEF ListsRight

-----------------------------------------------------------------------------

\* A session begins right, with an empty document.
LEMMA InitCore == ASSUME Init PROVE Core /\ Document!Init
<1>1. /\ rows = {} /\ cache = NoLists /\ undoStack = <<>> /\ redoStack = <<>>
      /\ todo = <<>> /\ half = None /\ editing = None /\ visible = TRUE /\ job = NoJob
      /\ disturbed = FALSE
  BY DEF Init
<1>2. Types
  BY InitTypes
<1>3. Doc = {} /\ ~Importing
  BY <1>1, <1>2, DocPlain DEF Importing, NoJob
<1>4. Alone /\ Shown /\ Loaded /\ Placing /\ Erasing
  BY <1>1 DEF Alone, Shown, Loaded, Placing, Erasing, NoJob
<1>5. Exact
  BY <1>1 DEF Exact, NoLists
<1>6. Warm
  BY <1>1, WarmNothing DEF Warm
<1>7. {} \in Docs /\ Distinct({})
  BY DEF Docs, Distinct
<1>8. Leading
  BY <1>1, <1>7, AfterNothing, LeadsNothing DEF Leading, LeadsOn
<1>9. Reversible
  BY <1>1, <1>3, <1>7, ChainsNothing DEF Reversible
<1>10. <<>> \in Seq(OpSet)
  OBVIOUS
<1>11. UndosOf(<<>>) = <<>> /\ RedosOf(<<>>) = <<>>
  BY <1>10, SidesAre
<1>12. Past = Along({}, UndosOf(<<>>)) /\ Future = Along({}, RedosOf(<<>>))
  BY <1>1, <1>3 DEF Past, Future, Lost, Undos, Redos, UndosOf, RedosOf
<1>13. Past = <<>> /\ Future = <<>>
  BY <1>7, <1>11, <1>12, AlongNothing
<1> QED BY <1>3, <1>4, <1>5, <1>6, <1>8, <1>9, <1>13 DEF Core, ListsRight, DocRight, Document!Init

\* Nothing happens.
LEMMA StutterKeeps == ASSUME Calm, Core, UNCHANGED vars PROVE Keeps
<1>1. ListsRight'
  BY DEF vars, stacks, view, Core, ListsRight, Alone, Shown, Exact, Stale, Importing, Rows,
         Loaded, Placing, Placed, ListFor, Warm
<1>2. Leading' /\ Erasing'
  BY DEF vars, view, Core, DocRight, Leading, Erasing
<1>3. Doc' = Doc /\ (Importing' <=> Importing) /\ UNCHANGED stacks /\ Reversible
  BY DEF vars, Doc, Held, Importing, Core, DocRight
<1>4. Reversible' /\ UNCHANGED Document!vars
  BY <1>3, SameDoc
<1> QED BY <1>1, <1>2, <1>4, KeepsEdit

\* Every step keeps lists and operations right.
LEMMA StepKeeps == ASSUME Types, Calm, Core, [Next]_vars PROVE Keeps
<1>1. Types'
  BY StepTypes
<1>2. CASE User
  BY <1>1, <1>2, AddInkKeeps, EraseEndKeeps, AddKeeps, DeleteSelectedKeeps, UpdateNoteKeeps,
     EraseBeginKeeps, UndoLastKeeps, RedoLastKeeps, TurnPageKeeps, ToggleKeeps, RelayoutKeeps,
     ReopenKeeps DEF User
<1>3. CASE Session
  BY <1>3, WriteRowKeeps, DeleteRowKeeps, PlaceKeeps, DrawKeeps DEF Session
<1>4. CASE Background
  BY <1>1, <1>4, CommentsReadKeeps, ImportRowsKeeps, CommentsKeepKeeps, ImportClearKeeps,
     ReanchorReadKeeps, ReanchorKeeps, ReanchorDoneKeeps DEF Background
<1>5. CASE UNCHANGED vars
  BY <1>5, StutterKeeps
<1> QED BY <1>2, <1>3, <1>4, <1>5 DEF Next

\* What holds of every session.
Kept == Types /\ (~disturbed => Core)

\* The document of any state.
LEMMA DocOK == Types => Doc \in Docs
<1>1. ASSUME Types PROVE Doc \in Docs
  <2>1. rows \in Docs /\ todo \in Seq(PrimSet) /\ editing \in Annotation \cup {None}
    BY <1>1, RowsDoc DEF Types, Typed
  <2> QED BY <2>1, DocIs, DocOfIs
<1> QED BY <1>1

\* The same after a step.
LEMMA DocNext == (Types => Doc \in Docs)'
  BY DocOK, PTL

\* A step of a disturbed session starts the document's history anew, and so
\* does the step that opens a new session.
LEMMA StepKept ==
  ASSUME Kept, [Next]_vars
  PROVE  Kept' /\ [Document!Next]_(Document!vars)
<1>1. Types /\ Types'
  BY StepTypes DEF Kept
<1>2. CASE disturbed'
  <2>1. Doc' \in Docs
    BY <1>1, DocNext
  <2>2. Past' = <<>> /\ Future' = <<>>
    BY <1>2 DEF Past, Future, Lost
  <2>3. Document!Restart
    BY <2>1, <2>2 DEF Document!Restart, Docs
  <2> QED BY <1>1, <1>2, <2>3 DEF Kept, Document!Next
<1>3. CASE ~disturbed' /\ Reopen
  BY <1>1, <1>3, ReopenKeeps DEF Keeps, Kept
<1>4. CASE ~disturbed' /\ ~Reopen
  <2>1. ~disturbed
    <3>1. CASE User
      BY <1>4, <3>1 DEF User, AddInk, EraseEnd, Add, DeleteSelected, UpdateNote, EraseBegin,
         UndoLast, RedoLast, TurnPage, ToggleComments, Relayout, Orderly
    <3>2. CASE Session
      BY <1>4, <3>2 DEF Session, WriteRow, DeleteRow, Place, Draw
    <3>3. CASE Background
      BY <1>4, <3>3 DEF Background, CommentsRead, ImportRows, CommentsKeep, ImportClear,
         ReanchorRead, Reanchor, ReanchorDone, Orderly
    <3>4. CASE UNCHANGED vars
      BY <1>4, <3>4 DEF vars
    <3> QED BY <3>1, <3>2, <3>3, <3>4 DEF Next
  <2>2. Keeps
    BY <1>1, <1>4, <2>1, StepKeeps DEF Calm, Kept
  <2> QED BY <1>1, <2>2 DEF Keeps, Kept
<1> QED BY <1>2, <1>3, <1>4

\* Between calls and jobs no list is stale.
LEMMA CoreLists == ASSUME Kept PROVE ListsMatchStore
<1>1. ASSUME Settled, ~disturbed, NEW k \in Kinds, NEW p \in Pages, cache[k][p] # None
      PROVE  cache[k][p] = SetToBag(Rows(k, p))
  <2>1. half = None /\ job = NoJob /\ Core
    BY <1>1 DEF Settled, Types, Kept
  <2>2. ~Stale(k, p)
    BY <2>1 DEF Stale, Importing, NoJob
  <2> QED BY <1>1, <2>1, <2>2 DEF Core, ListsRight, Exact
<1> QED BY <1>1 DEF ListsMatchStore

\* Every list that a session has loaded is, between two calls and two jobs, the
\* rows of its page, up to the first edit that falls into a job and the first
\* time that lists are dropped, or a page turned, while annotations are hidden;
\* and again when the document is opened anew.
THEOREM SidecarListsMatchStore == Spec => []ListsMatchStore
<1>1. Init => Kept
  BY InitTypes, InitCore DEF Kept
<1>2. Kept /\ [Next]_vars => Kept'
  BY StepKept
<1>3. Kept => ListsMatchStore
  BY CoreLists
<1> QED BY <1>1, <1>2, <1>3, PTL DEF Spec

\* The rows of a session, with the stroke under the eraser, are a document with
\* undo and redo (History): each edit is undone and redone to exactly what it
\* left, whatever calls are made of; where the lists may be wrong the document
\* has no history until it is opened anew.
THEOREM SidecarImplementsHistory == Spec => IsHistory
<1>1. Init => Kept /\ Document!Init
  BY InitTypes, InitCore DEF Kept
<1>2. Kept /\ [Next]_vars => Kept' /\ [Document!Next]_(Document!vars)
  BY StepKept
<1> QED BY <1>1, <1>2, PTL DEF Spec, IsHistory, Document!Spec
=============================================================================
