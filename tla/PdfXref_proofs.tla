--------------------------- MODULE PdfXref_proofs ---------------------------
(***************************************************************************)
(* For any objects, files and programs: the xref index never hides an      *)
(* object that is in use, an object some caller points to stays the one    *)
(* that everybody reads, what is saved is what was edited, and no edit     *)
(* reaches another object or a version that has been signed.               *)
(***************************************************************************)
EXTENDS PdfXref, LibraryLemmas

-----------------------------------------------------------------------------
(* What holds of every document, between the calls and inside one *)

Heap == [Num -> [Cells -> Stamp \cup {None}]]
Docs == [secs : Seq(Section), inc : Nat, index : [Num -> Nat], len : 0..MaxNum,
         heap : Heap, frozen : BOOLEAN]

Shape(d) == /\ d \in Docs
            /\ Len(d.secs) >= 1 /\ d.inc < Len(d.secs)
            /\ \A n \in Num : d.index[n] \in 1..Len(d.secs)

\* A section ends with the last object it defines, and the document with the
\* longest section: an entry that comes into range when a section grows is
\* unset.
Within(d) == \A k \in DOMAIN d.secs :
    /\ d.secs[k].len <= d.len
    /\ \A n \in Num : d.secs[k].table[n].type # "unset" => n <= d.secs[k].len

Sound(d) == \A n \in Num, k \in DOMAIN d.secs :
    k < d.index[n] => d.secs[k].table[n].type # "n"

Fits(d) == Shape(d) /\ Within(d) /\ Sound(d)

\* The object n that d shows is the one that e shows.
InUse(d, n) == Found(d, 1, n).type = "n"
Keeps(d, e, n) == /\ InUse(e, n) <=> InUse(d, n)
                  /\ InUse(d, n) => Found(e, 1, n) = Found(d, 1, n)

\* The fields of a document that fits.
LEMMA DocFacts ==
  ASSUME NEW d, Fits(d)
  PROVE  /\ d \in Docs
         /\ d.secs \in Seq(Section) /\ DOMAIN d.secs = 1..Len(d.secs)
         /\ Len(d.secs) \in Nat \ {0}
         /\ d.inc \in Nat /\ d.inc < Len(d.secs)
         /\ d.index \in [Num -> Nat] /\ d.len \in 0..MaxNum
         /\ d.heap \in Heap /\ d.frozen \in BOOLEAN
         /\ \A n \in Num : d.index[n] \in 1..Len(d.secs)
         /\ \A k \in 1..Len(d.secs) :
               /\ d.secs[k] \in Section
               /\ d.secs[k].len \in 0..MaxNum /\ d.secs[k].signed \in BOOLEAN
               /\ d.secs[k].table \in [Num -> Entry]
               /\ \A n \in Num : d.secs[k].table[n] \in Entry
<1>1. d \in Docs /\ Len(d.secs) >= 1 /\ d.inc < Len(d.secs)
      /\ \A n \in Num : d.index[n] \in 1..Len(d.secs)
  BY DEF Fits, Shape
<1>2. /\ d.secs \in Seq(Section) /\ d.inc \in Nat /\ d.index \in [Num -> Nat]
      /\ d.len \in 0..MaxNum /\ d.heap \in Heap /\ d.frozen \in BOOLEAN
  BY <1>1 DEF Docs
<1>3. DOMAIN d.secs = 1..Len(d.secs) /\ Len(d.secs) \in Nat \ {0}
  BY <1>1, <1>2
<1>4. ASSUME NEW k \in 1..Len(d.secs)
      PROVE  /\ d.secs[k] \in Section
             /\ d.secs[k].len \in 0..MaxNum /\ d.secs[k].signed \in BOOLEAN
             /\ d.secs[k].table \in [Num -> Entry]
             /\ \A n \in Num : d.secs[k].table[n] \in Entry
  <2>1. d.secs[k] \in Section
    BY <1>2
  <2>2. /\ d.secs[k].len \in 0..MaxNum /\ d.secs[k].signed \in BOOLEAN
        /\ d.secs[k].table \in [Num -> Entry]
    BY <2>1 DEF Section
  <2> QED BY <2>1, <2>2
<1> QED BY <1>1, <1>2, <1>3, <1>4

\* What an entry defines is within its section.
LEMMA DefinedIs ==
  ASSUME NEW d, Fits(d), NEW k \in 1..Len(d.secs), NEW n \in Num
  PROVE  Defined(d, k, n) <=> d.secs[k].table[n].type # "unset"
<1>1. d.secs[k].table[n].type # "unset" => n <= d.secs[k].len
  BY DocFacts DEF Fits, Within
<1> QED BY <1>1 DEF Defined

\* Where the search for an object ends: at the first section from the cached
\* place on that defines it, or, if none does, at the newest.
LEMMA FindFacts ==
  ASSUME NEW d, Fits(d), NEW n \in Num
  PROVE  /\ Find(d, 1, n) \in 1..Len(d.secs)
         /\ \/ /\ Find(d, 1, n) = 1
               /\ Holders(d, d.index[n], n) = {}
               /\ \A k \in d.index[n]..Len(d.secs) : d.secs[k].table[n].type = "unset"
            \/ /\ Find(d, 1, n) \in d.index[n]..Len(d.secs)
               /\ Find(d, 1, n) \in Holders(d, d.index[n], n)
               /\ Find(d, 1, n) = Min(Holders(d, d.index[n], n))
               /\ d.secs[Find(d, 1, n)].table[n].type # "unset"
               /\ \A k \in d.index[n]..(Find(d, 1, n) - 1) :
                     d.secs[k].table[n].type = "unset"
<1> DEFINE i == d.index[n]
           H == Holders(d, i, n)
           L == Len(d.secs)
<1>1. i \in 1..L /\ L \in Nat
  BY DocFacts
<1>2. \A k \in i..L : k \in H <=> d.secs[k].table[n].type # "unset"
  <2> SUFFICES ASSUME NEW k \in i..L PROVE k \in H <=> d.secs[k].table[n].type # "unset"
    OBVIOUS
  <2>1. k \in 1..L
    BY <1>1
  <2>2. Defined(d, k, n) <=> d.secs[k].table[n].type # "unset"
    BY <2>1, DefinedIs
  <2> QED BY <2>2 DEF Holders
<1>3. H \subseteq i..L
  BY DEF Holders
<1>4. Later(i, 1) = i
  BY <1>1 DEF Later
<1>5. CASE H = {}
  <2>1. Find(d, 1, n) = 1
    BY <1>4, <1>5 DEF Find
  <2> QED BY <1>1, <1>2, <1>5, <2>1
<1>6. CASE H # {}
  <2> DEFINE m == Min(H)
  <2>1. Find(d, 1, n) = m
    BY <1>4, <1>6 DEF Find
  <2>2. H \in SUBSET Nat
    BY <1>1, <1>3
  <2>3. m \in H /\ \A k \in H : m <= k
    BY <1>6, <2>2, MinIs
  <2>4. m = Min(Holders(d, d.index[n], n)) /\ m \in Holders(d, d.index[n], n)
    BY <2>3
  <2> HIDE DEF m, H
  <2>5. m \in i..L /\ m \in 1..L
    BY <1>1, <1>3, <2>3
  <2>6. ASSUME NEW k \in i..(m - 1) PROVE d.secs[k].table[n].type = "unset"
    <3>1. k \in i..L /\ ~(m <= k)
      BY <1>1, <2>5
    <3> QED BY <1>2, <2>3, <3>1
  <2> QED BY <1>2, <2>1, <2>3, <2>4, <2>5, <2>6
<1> QED BY <1>5, <1>6

\* Where the object in use is found, and what it is.
LEMMA InUseFacts ==
  ASSUME NEW d, Fits(d), NEW n \in Num
  PROVE  /\ Found(d, 1, n) = d.secs[Find(d, 1, n)].table[n]
         /\ Found(d, 1, n) \in Entry
         /\ InUse(d, n) => /\ Find(d, 1, n) \in d.index[n]..Len(d.secs)
                           /\ Find(d, 1, n) = Min(Holders(d, d.index[n], n))
                           /\ Find(d, 1, n) \in Holders(d, d.index[n], n)
                           /\ n <= d.secs[Find(d, 1, n)].len
                           /\ n <= d.len
<1> DEFINE k == Find(d, 1, n)
<1>1. k \in 1..Len(d.secs) /\ Found(d, 1, n) = d.secs[k].table[n]
  BY FindFacts DEF Found
<1>2. Found(d, 1, n) \in Entry
  BY <1>1, DocFacts
<1>3. ASSUME InUse(d, n)
      PROVE  k \in d.index[n]..Len(d.secs) /\ k = Min(Holders(d, d.index[n], n))
             /\ k \in Holders(d, d.index[n], n)
  <2>1. d.secs[k].table[n].type = "n"
    BY <1>1, <1>3 DEF InUse
  <2>2. CASE k = 1 /\ \A j \in d.index[n]..Len(d.secs) : d.secs[j].table[n].type = "unset"
    <3>1. d.index[n] \in 1..Len(d.secs) /\ Len(d.secs) \in Nat
      BY DocFacts
    <3>2. ~(1 < d.index[n])
      BY <1>1, <2>1, <2>2, DocFacts DEF Fits, Sound
    <3>3. 1 \in d.index[n]..Len(d.secs)
      BY <3>1, <3>2
    <3> QED BY <2>1, <2>2, <3>3
  <2> QED BY <2>2, FindFacts
<1>4. ASSUME InUse(d, n) PROVE n <= d.secs[k].len /\ n <= d.len
  <2>1. d.secs[k].table[n].type # "unset"
    BY <1>1, <1>4 DEF InUse
  <2>2. n <= d.secs[k].len /\ d.secs[k].len <= d.len
    BY <1>1, <2>1, DocFacts DEF Fits, Within
  <2>3. n \in Int /\ d.secs[k].len \in Int /\ d.len \in Int
    BY <1>1, DocFacts DEF Num
  <2> QED BY <2>2, <2>3
<1> QED BY <1>1, <1>2, <1>3, <1>4

\* The first section from the cached place on that defines an object is the
\* one the search ends at.
LEMMA FindIs ==
  ASSUME NEW d, Fits(d), NEW n \in Num, NEW k \in d.index[n]..Len(d.secs),
         d.secs[k].table[n].type # "unset",
         \A j \in d.index[n]..(k - 1) : d.secs[j].table[n].type = "unset"
  PROVE  Find(d, 1, n) = k
<1> DEFINE i == d.index[n]
           L == Len(d.secs)
           m == Find(d, 1, n)
<1>1. i \in 1..L /\ L \in Nat
  BY DocFacts
<1>2. m \in i..L /\ d.secs[m].table[n].type # "unset"
      /\ \A j \in i..(m - 1) : d.secs[j].table[n].type = "unset"
  BY FindFacts
<1>3. ~(m \in i..(k - 1)) /\ ~(k \in i..(m - 1))
  BY <1>2
<1> HIDE DEF m
<1>4. m = k
  BY <1>1, <1>2, <1>3
<1> QED BY <1>4 DEF m

\* When every section that was there has what it had for an object, with or
\* without one more section in front, the object shown is the same.
LEMMA KeepsWhen ==
  ASSUME NEW d, Fits(d), NEW e, Fits(e), NEW n \in Num, NEW s \in {0, 1},
         Len(e.secs) = Len(d.secs) + s, e.index[n] = d.index[n] + s,
         \A k \in 1..Len(d.secs) : e.secs[k + s].table[n] = d.secs[k].table[n]
  PROVE  Keeps(d, e, n)
<1> DEFINE i == d.index[n]
           L == Len(d.secs)
           k == Find(d, 1, n)
           m == Find(e, 1, n)
<1>1. /\ i \in 1..L /\ L \in Nat /\ e.index[n] = i + s /\ Len(e.secs) = L + s /\ s \in Nat
      /\ k \in 1..L /\ m \in 1..(L + s)
  BY DocFacts, FindFacts
<1>2. Found(d, 1, n) = d.secs[k].table[n] /\ Found(e, 1, n) = e.secs[m].table[n]
  BY InUseFacts
<1>3. ASSUME InUse(d, n) PROVE Found(e, 1, n) = Found(d, 1, n)
  <2>1. k \in i..L /\ d.secs[k].table[n].type # "unset"
    BY <1>2, <1>3, InUseFacts DEF InUse
  <2>2. \A j \in i..(k - 1) : d.secs[j].table[n].type = "unset"
    <3>1. CASE Holders(d, i, n) = {}
      BY <1>3, <3>1, InUseFacts
    <3> QED BY <3>1, FindFacts
  <2> HIDE DEF k
  <2>3. k + s \in e.index[n]..Len(e.secs) /\ e.secs[k + s].table[n] = d.secs[k].table[n]
    <3>1. k \in 1..L
      BY <1>1
    <3>2. e.secs[k + s].table[n] = d.secs[k].table[n]
      BY <3>1
    <3>3. k + s \in (i + s)..(L + s)
      <4> HIDE DEF i, L
      <4> QED BY <1>1, <2>1
    <3> QED BY <1>1, <3>2, <3>3
  <2>4. ASSUME NEW j \in e.index[n]..(k + s - 1) PROVE e.secs[j].table[n].type = "unset"
    <3>1. j - s \in i..(k - 1) /\ j - s \in 1..L /\ (j - s) + s = j
      BY <1>1, <2>1
    <3>2. e.secs[(j - s) + s].table[n] = d.secs[j - s].table[n]
      BY <3>1
    <3> QED BY <2>2, <3>1, <3>2
  <2>5. m = k + s
    BY SMTT(30), <2>1, <2>3, <2>4, FindIs
  <2> QED BY <1>2, <2>3, <2>5
<1>4. ASSUME InUse(e, n) PROVE InUse(d, n)
  <2>1. m \in (i + s)..(L + s) /\ e.secs[m].table[n].type = "n"
    BY <1>1, <1>2, <1>4, InUseFacts DEF InUse
  <2>2. \A j \in (i + s)..(m - 1) : e.secs[j].table[n].type = "unset"
    <3>1. CASE Holders(e, e.index[n], n) = {}
      BY <1>4, <3>1, InUseFacts
    <3>2. CASE \A j \in e.index[n]..(m - 1) : e.secs[j].table[n].type = "unset"
      BY <1>1, <3>2
    <3> QED BY <3>1, <3>2, FindFacts
  <2> HIDE DEF m
  <2>3. m - s \in i..L /\ m - s \in 1..L /\ (m - s) + s = m
    BY <1>1, <2>1
  <2>4. d.secs[m - s].table[n] = e.secs[m].table[n]
    <3>1. e.secs[(m - s) + s].table[n] = d.secs[m - s].table[n]
      BY <2>3
    <3> QED BY <2>3, <3>1
  <2>5. ASSUME NEW j \in i..(m - s - 1) PROVE d.secs[j].table[n].type = "unset"
    <3>1. j + s \in (i + s)..(m - 1) /\ j \in 1..L
      BY <1>1, <2>1
    <3> QED BY <2>2, <3>1
  <2>6. d.secs[m - s].table[n].type # "unset"
    BY <2>1, <2>4
  <2>7. Find(d, 1, n) = m - s
    BY <2>3, <2>5, <2>6, FindIs
  <2> QED BY <1>2, <2>1, <2>4, <2>7 DEF InUse
<1> QED BY <1>3, <1>4 DEF Keeps, InUse

\* Showing the same object is transitive.
LEMMA KeepsTwice ==
  ASSUME NEW d, NEW e, NEW o, NEW n, Keeps(d, e, n), Keeps(e, o, n)
  PROVE  Keeps(d, o, n)
  BY DEF Keeps

-----------------------------------------------------------------------------
(* What the parts of the calls do to a document *)

UnsetTable == [n \in Num |-> Unset]

\* An unset entry and a freed one are entries.
LEMMA UnsetFacts ==
  /\ Unset \in Entry /\ Unset.type = "unset" /\ Unset.obj = None
  /\ Freed \in Entry /\ Freed.type = "f"
  /\ UnsetTable \in [Num -> Entry]
<1>1. Unset \in Entry /\ Unset.type = "unset" /\ Unset.obj = None
  BY DEF Unset, Entry
<1>2. Freed \in Entry /\ Freed.type = "f"
  BY DEF Freed, Unset, Entry
<1> QED BY <1>1, <1>2 DEF UnsetTable

\* ensure_incremental_xref: the newest section is an increment, not signed,
\* and every object is still the same.
LEMMA OpenIncrementOK ==
  ASSUME NEW d, Fits(d)
  PROVE  LET o == OpenIncrement(d) IN
         /\ Fits(o)
         /\ o.len = d.len /\ o.heap = d.heap /\ o.frozen = d.frozen
         /\ o.inc # 0 /\ ~o.secs[1].signed
         /\ \A n \in Num : Keeps(d, o, n)
<1> DEFINE o == OpenIncrement(d)
           L == Len(d.secs)
           new == [len |-> d.secs[1].len, signed |-> FALSE, table |-> UnsetTable]
<1>1. CASE ~(d.inc = 0 \/ d.secs[1].signed)
  <2>1. o = d
    BY <1>1 DEF OpenIncrement
  <2> QED BY <1>1, <2>1 DEF Keeps
<1>2. CASE d.inc = 0 \/ d.secs[1].signed
  <2>1. /\ d \in Docs /\ d.secs \in Seq(Section) /\ L \in Nat \ {0} /\ d.inc \in Nat
        /\ d.index \in [Num -> Nat] /\ d.inc < L
        /\ d.secs[1].len \in 0..MaxNum
        /\ \A n \in Num : d.index[n] \in 1..L
    BY DocFacts
  <2>2. new \in Section /\ new.len = d.secs[1].len /\ new.signed = FALSE
        /\ \A n \in Num : new.table[n] = Unset
    BY <2>1, UnsetFacts DEF Section, UnsetTable
  <2>3. o = [d EXCEPT !.secs = <<new>> \o d.secs, !.inc = @ + 1,
                      !.index = [n \in Num |-> d.index[n] + 1]]
    BY <1>2 DEF OpenIncrement, UnsetTable
  <2> HIDE DEF new, o
  <2>4. /\ o.secs = <<new>> \o d.secs /\ o.inc = d.inc + 1
        /\ o.index = [n \in Num |-> d.index[n] + 1]
        /\ o.len = d.len /\ o.heap = d.heap /\ o.frozen = d.frozen
    BY <2>1, <2>3 DEF Docs
  <2>5. /\ o.secs \in Seq(Section) /\ Len(o.secs) = L + 1 /\ o.secs[1] = new
        /\ \A k \in 1..L : o.secs[k + 1] = d.secs[k]
    BY <2>1, <2>2, <2>4
  <2>6. o.index \in [Num -> Nat] /\ \A n \in Num : o.index[n] = d.index[n] + 1
    BY <2>1, <2>4
  <2>7. o \in Docs
    <3>1. o.inc \in Nat
      BY <2>1, <2>4
    <3> QED BY <2>1, <2>3, <2>4, <2>5, <2>6, <3>1 DEF Docs
  <2>8. Shape(o)
    <3>1. Len(o.secs) >= 1 /\ o.inc < Len(o.secs)
      BY <2>1, <2>4, <2>5
    <3>2. \A n \in Num : o.index[n] \in 1..Len(o.secs)
      BY <2>1, <2>5, <2>6
    <3> QED BY <2>7, <3>1, <3>2 DEF Shape
  <2>9. ASSUME NEW k \in 1..Len(o.secs)
        PROVE  k = 1 \/ (k - 1 \in 1..L /\ o.secs[k] = d.secs[k - 1])
    <3>1. k = 1 \/ (k - 1 \in 1..L /\ (k - 1) + 1 = k)
      BY <2>1, <2>5
    <3> QED BY <2>5, <3>1
  <2>10. DOMAIN o.secs = 1..Len(o.secs) /\ DOMAIN d.secs = 1..L
    BY <2>1, <2>5
  <2>11. Within(o)
    <3> SUFFICES ASSUME NEW k \in 1..Len(o.secs)
                 PROVE  /\ o.secs[k].len <= o.len
                        /\ \A n \in Num : o.secs[k].table[n].type # "unset" => n <= o.secs[k].len
      BY <2>10 DEF Within
    <3>1. CASE k = 1
      <4>1. 1 \in 1..L
        BY <2>1
      <4>2. d.secs[1].len <= d.len
        BY <2>10, <4>1 DEF Fits, Within
      <4> QED BY <2>2, <2>4, <2>5, <3>1, <4>2, UnsetFacts
    <3>2. CASE k - 1 \in 1..L /\ o.secs[k] = d.secs[k - 1]
      BY <2>4, <2>10, <3>2 DEF Fits, Within
    <3> QED BY <2>9, <3>1, <3>2
  <2>12. Sound(o)
    <3> SUFFICES ASSUME NEW n \in Num, NEW k \in 1..Len(o.secs), k < o.index[n]
                 PROVE  o.secs[k].table[n].type # "n"
      BY <2>10 DEF Sound
    <3>1. CASE k = 1
      BY <2>2, <2>5, <3>1, UnsetFacts
    <3>2. CASE k - 1 \in 1..L /\ o.secs[k] = d.secs[k - 1]
      <4>1. k - 1 < d.index[n]
        BY <2>1, <2>6
      <4> QED BY <2>10, <3>2, <4>1 DEF Fits, Sound
    <3> QED BY <2>9, <3>1, <3>2
  <2>13. Fits(o)
    BY <2>8, <2>11, <2>12 DEF Fits
  <2>14. ASSUME NEW n \in Num PROVE Keeps(d, o, n)
    <3>1. \A k \in 1..L : o.secs[k + 1].table[n] = d.secs[k].table[n]
      BY <2>5
    <3> QED BY <2>5, <2>6, <2>13, <3>1, KeepsWhen
  <2>15. o.inc # 0 /\ ~o.secs[1].signed
    BY <2>1, <2>2, <2>4, <2>5
  <2> QED BY <2>4, <2>13, <2>14, <2>15 DEF o
<1> QED BY <1>1, <1>2

\* Placing an entry.
LEMMA PutOK ==
  ASSUME NEW d, Fits(d), NEW k \in 1..Len(d.secs), NEW n \in Num, NEW e \in Entry,
         e.type # "unset" => n <= d.secs[k].len,
         e.type = "n" => d.index[n] <= k
  PROVE  LET o == Put(d, k, n, e) IN
         /\ Fits(o)
         /\ o.len = d.len /\ o.heap = d.heap /\ o.frozen = d.frozen /\ o.inc = d.inc
         /\ o.index = d.index /\ Len(o.secs) = Len(d.secs)
         /\ \A j \in 1..Len(d.secs) :
               /\ o.secs[j].len = d.secs[j].len /\ o.secs[j].signed = d.secs[j].signed
               /\ \A m \in Num : o.secs[j].table[m] =
                     IF j = k /\ m = n THEN e ELSE d.secs[j].table[m]
         /\ \A m \in Num : m # n => Keeps(d, o, m)
<1> DEFINE o == Put(d, k, n, e)
           L == Len(d.secs)
           t == [d.secs[k].table EXCEPT ![n] = e]
           sec == [d.secs[k] EXCEPT !.table = t]
<1>1. /\ d \in Docs /\ d.secs \in Seq(Section) /\ L \in Nat \ {0}
      /\ d.secs[k] \in Section /\ d.secs[k].table \in [Num -> Entry]
      /\ DOMAIN d.secs = 1..L
  BY DocFacts
<1>2. o = [d EXCEPT !.secs = [d.secs EXCEPT ![k] = sec]]
  BY <1>1 DEF Put
<1>3. t \in [Num -> Entry] /\ t[n] = e /\ \A m \in Num : m # n => t[m] = d.secs[k].table[m]
  BY <1>1
<1> HIDE DEF o, t
<1>4. sec \in Section /\ sec.len = d.secs[k].len /\ sec.signed = d.secs[k].signed /\ sec.table = t
  BY <1>1, <1>3 DEF Section
<1> HIDE DEF sec
<1>5. /\ o.secs = [d.secs EXCEPT ![k] = sec]
      /\ o.len = d.len /\ o.heap = d.heap /\ o.frozen = d.frozen /\ o.inc = d.inc
      /\ o.index = d.index
  BY <1>1, <1>2 DEF Docs
<1>6. o.secs \in Seq(Section) /\ Len(o.secs) = L /\ o.secs[k] = sec
      /\ \A j \in 1..L : j # k => o.secs[j] = d.secs[j]
  BY <1>1, <1>4, <1>5
<1>7. DOMAIN o.secs = 1..L
  BY <1>1, <1>5
<1>8. \A j \in 1..L :
               /\ o.secs[j].len = d.secs[j].len /\ o.secs[j].signed = d.secs[j].signed
               /\ \A m \in Num : o.secs[j].table[m] =
                     IF j = k /\ m = n THEN e ELSE d.secs[j].table[m]
  BY <1>3, <1>4, <1>6
<1>9. o \in Docs
  BY <1>1, <1>2, <1>5, <1>6 DEF Docs
<1>10. Shape(o)
  BY <1>5, <1>6, <1>9 DEF Fits, Shape
<1>11. Within(o)
  <2> SUFFICES ASSUME NEW j \in 1..L
               PROVE  /\ o.secs[j].len <= o.len
                      /\ \A m \in Num : o.secs[j].table[m].type # "unset" => m <= o.secs[j].len
    BY <1>7 DEF Within
  <2>1. /\ d.secs[j].len <= d.len
        /\ \A m \in Num : d.secs[j].table[m].type # "unset" => m <= d.secs[j].len
    BY <1>1 DEF Fits, Within
  <2>2. o.secs[j].len <= o.len
    BY <1>5, <1>8, <2>1
  <2>3. ASSUME NEW m \in Num, o.secs[j].table[m].type # "unset" PROVE m <= o.secs[j].len
    <3>1. CASE j = k /\ m = n
      BY <1>8, <2>3, <3>1
    <3>2. CASE ~(j = k /\ m = n)
      BY <1>8, <2>1, <2>3, <3>2
    <3> QED BY <3>1, <3>2
  <2> QED BY <2>2, <2>3
<1>12. Sound(o)
  <2> SUFFICES ASSUME NEW m \in Num, NEW j \in 1..L, j < d.index[m]
               PROVE  o.secs[j].table[m].type # "n"
    BY <1>5, <1>7 DEF Sound
  <2>1. d.secs[j].table[m].type # "n"
    BY <1>1 DEF Fits, Sound
  <2>2. CASE j = k /\ m = n
    <3>1. ~(d.index[n] <= k)
      BY <2>2, DocFacts
    <3> QED BY <1>8, <2>2, <3>1
  <2>3. CASE ~(j = k /\ m = n)
    BY <1>8, <2>1, <2>3
  <2> QED BY <2>2, <2>3
<1>13. Fits(o)
  BY <1>10, <1>11, <1>12 DEF Fits
<1>14. ASSUME NEW m \in Num, m # n PROVE Keeps(d, o, m)
  <2>1. \A j \in 1..L : o.secs[j + 0].table[m] = d.secs[j].table[m]
    <3> SUFFICES ASSUME NEW j \in 1..L PROVE o.secs[j + 0].table[m] = d.secs[j].table[m]
      OBVIOUS
    <3>1. j + 0 = j
      OBVIOUS
    <3> QED BY <1>8, <1>14, <3>1
  <2>2. L = L + 0 /\ d.index[m] = d.index[m] + 0
    BY DocFacts
  <2> QED BY <1>5, <1>6, <1>13, <2>1, <2>2, KeepsWhen
<1> QED BY <1>5, <1>6, <1>8, <1>13, <1>14 DEF o

\* Writing an object in memory.
LEMMA HeapOK ==
  ASSUME NEW d, Fits(d), NEW n \in Num, NEW c \in Cells, NEW v \in Stamp \cup {None}
  PROVE  LET o == [d EXCEPT !.heap[n][c] = v] IN
         /\ Fits(o)
         /\ o.len = d.len /\ o.frozen = d.frozen /\ o.inc = d.inc
         /\ o.index = d.index /\ o.secs = d.secs
         /\ \A m \in Num, b \in Cells :
               o.heap[m][b] = IF m = n /\ b = c THEN v ELSE d.heap[m][b]
<1> DEFINE o == [d EXCEPT !.heap[n][c] = v]
           h == [d.heap EXCEPT ![n][c] = v]
<1>1. d \in Docs /\ d.heap \in Heap
  BY DocFacts
<1>2. o = [d EXCEPT !.heap = h]
  BY <1>1
<1>3. h \in Heap /\ \A m \in Num, b \in Cells :
               h[m][b] = IF m = n /\ b = c THEN v ELSE d.heap[m][b]
  BY <1>1 DEF Heap
<1> HIDE DEF o, h
<1>4. o \in Docs /\ o.heap = h
      /\ o.len = d.len /\ o.frozen = d.frozen /\ o.inc = d.inc
      /\ o.index = d.index /\ o.secs = d.secs
  BY <1>1, <1>2, <1>3 DEF Docs
<1>5. Fits(o)
  BY <1>4 DEF Fits, Shape, Within, Sound
<1> QED BY <1>3, <1>4, <1>5 DEF o

\* Sections, index and place in the increments decide what is found.
LEMMA FindSame ==
  ASSUME NEW d, NEW o, o.secs = d.secs, o.index = d.index, NEW n
  PROVE  Find(o, 1, n) = Find(d, 1, n) /\ Found(o, 1, n) = Found(d, 1, n)
  BY DEF Find, Found, Holders, Defined

\* Remembering where an object was found.
LEMMA IndexOK ==
  ASSUME NEW d, Fits(d), NEW n \in Num, InUse(d, n)
  PROVE  LET o == [d EXCEPT !.index[n] = Find(d, 1, n)] IN
         /\ Fits(o)
         /\ o.len = d.len /\ o.frozen = d.frozen /\ o.inc = d.inc
         /\ o.heap = d.heap /\ o.secs = d.secs
         /\ o.index[n] = Find(d, 1, n)
         /\ Find(o, 1, n) = Find(d, 1, n) /\ Found(o, 1, n) = Found(d, 1, n)
         /\ \A m \in Num : m # n => Keeps(d, o, m)
<1> DEFINE k == Find(d, 1, n)
           x == [d.index EXCEPT ![n] = k]
           o == [d EXCEPT !.index = x]
           L == Len(d.secs)
<1>1. /\ d \in Docs /\ d.index \in [Num -> Nat] /\ L \in Nat /\ DOMAIN d.secs = 1..L
      /\ \A m \in Num : d.index[m] \in 1..L
  BY DocFacts
<1>2. /\ k \in 1..L /\ k \in d.index[n]..L /\ d.secs[k].table[n].type = "n"
      /\ \A j \in d.index[n]..(k - 1) : d.secs[j].table[n].type = "unset"
  <2>1. /\ k \in 1..L /\ k \in d.index[n]..L /\ d.secs[k].table[n].type = "n"
    BY FindFacts, InUseFacts DEF InUse
  <2>2. \A j \in d.index[n]..(k - 1) : d.secs[j].table[n].type = "unset"
    <3>1. CASE Holders(d, d.index[n], n) = {}
      BY <3>1, InUseFacts
    <3> QED BY <3>1, FindFacts
  <2> QED BY <2>1, <2>2
<1> HIDE DEF k
<1>3. x \in [Num -> Nat] /\ x[n] = k /\ \A m \in Num : m # n => x[m] = d.index[m]
  BY <1>1, <1>2
<1> HIDE DEF x
<1>4. o \in Docs /\ o.index = x
      /\ o.len = d.len /\ o.frozen = d.frozen /\ o.inc = d.inc
      /\ o.heap = d.heap /\ o.secs = d.secs
  BY <1>1, <1>3 DEF Docs
<1> HIDE DEF o
<1>5. \A m \in Num : o.index[m] \in 1..L
  BY <1>1, <1>2, <1>3, <1>4
<1>6. Shape(o) /\ Within(o)
  BY <1>4, <1>5 DEF Fits, Shape, Within
<1>7. Sound(o)
  <2> SUFFICES ASSUME NEW m \in Num, NEW j \in 1..L, j < o.index[m]
               PROVE  d.secs[j].table[m].type # "n"
    BY <1>1, <1>4 DEF Sound
  <2>1. CASE m # n \/ j < d.index[m]
    <3>1. j < d.index[m]
      BY <1>3, <1>4, <2>1
    <3> QED BY <1>1, <3>1 DEF Fits, Sound
  <2>2. CASE m = n /\ ~(j < d.index[m])
    <3>1. j \in d.index[n]..(k - 1)
      BY <1>1, <1>2, <1>3, <1>4, <2>2
    <3> QED BY <1>2, <2>2, <3>1
  <2> QED BY <2>1, <2>2
<1>8. Fits(o)
  BY <1>6, <1>7 DEF Fits
<1>9. Find(o, 1, n) = k
  <2>1. k \in o.index[n]..Len(o.secs) /\ o.secs[k].table[n].type # "unset"
    BY <1>1, <1>2, <1>3, <1>4
  <2>2. \A j \in o.index[n]..(k - 1) : o.secs[j].table[n].type = "unset"
    BY <1>2, <1>3, <1>4
  <2> QED BY <1>8, <2>1, <2>2, FindIs
<1>10. Found(o, 1, n) = Found(d, 1, n)
  BY <1>4, <1>9 DEF Found, k
<1>11. ASSUME NEW m \in Num, m # n PROVE Keeps(d, o, m)
  <2>1. \A j \in 1..L : o.secs[j + 0].table[m] = d.secs[j].table[m]
    <3> SUFFICES ASSUME NEW j \in 1..L PROVE o.secs[j + 0].table[m] = d.secs[j].table[m]
      OBVIOUS
    <3>1. j + 0 = j
      OBVIOUS
    <3> QED BY <1>4, <3>1
  <2>2. Len(o.secs) = L + 0 /\ o.index[m] = d.index[m] + 0
    BY <1>1, <1>3, <1>4, <1>11
  <2> QED BY <1>8, <2>1, <2>2, KeepsWhen
<1>12. o.index[n] = k
  BY <1>3, <1>4
<1> QED BY <1>4, <1>8, <1>9, <1>10, <1>11, <1>12 DEF o, x, k

\* pdf_get_incremental_xref_entry: the newest section has room for the object
\* and is where it is looked for; every other object is still the same.
LEMMA IncrementalEntryOK ==
  ASSUME NEW d, Fits(d), NEW n \in Num
  PROVE  LET o == IncrementalEntry(d, n) IN
         /\ Fits(o)
         /\ o.heap = d.heap /\ o.frozen = d.frozen
         /\ o.inc # 0 /\ o.inc = OpenIncrement(d).inc
         /\ d.len <= o.len /\ n <= o.len /\ n <= o.secs[1].len
         /\ o.index[n] = 1 /\ ~o.secs[1].signed
         /\ Len(o.secs) = Len(OpenIncrement(d).secs)
         /\ \A k \in 1..Len(o.secs) : o.secs[k].table = OpenIncrement(d).secs[k].table
         /\ \A m \in Num : m # n => Keeps(d, o, m)
<1> DEFINE p == OpenIncrement(d)
           L == Len(p.secs)
           s == [p.secs[1] EXCEPT !.len = Later(@, n)]
           q == [p.secs EXCEPT ![1] = s]
           x == [p.index EXCEPT ![n] = 1]
           o == IncrementalEntry(d, n)
<1>1. /\ Fits(p) /\ p.heap = d.heap /\ p.frozen = d.frozen /\ p.len = d.len
      /\ p.inc # 0 /\ ~p.secs[1].signed
      /\ \A m \in Num : Keeps(d, p, m)
  BY OpenIncrementOK
<1> HIDE DEF p
<1>2. /\ p \in Docs /\ p.secs \in Seq(Section) /\ L \in Nat \ {0} /\ DOMAIN p.secs = 1..L
      /\ p.index \in [Num -> Nat] /\ \A m \in Num : p.index[m] \in 1..L
      /\ p.len \in 0..MaxNum
  BY <1>1, DocFacts
<1>3. p.secs[1] \in Section /\ p.secs[1].len \in 0..MaxNum /\ p.secs[1].len <= p.len
  <2>1. 1 \in 1..L
    BY <1>2
  <2> QED BY <1>1, <1>2, <2>1, DocFacts DEF Fits, Within
<1>4. n \in 1..MaxNum /\ MaxNum \in Nat
  BY BoundsAssumption DEF Num
<1>5. /\ Later(p.secs[1].len, n) \in 0..MaxNum /\ Later(p.len, n) \in 0..MaxNum
      /\ p.secs[1].len <= Later(p.secs[1].len, n) /\ n <= Later(p.secs[1].len, n)
      /\ Later(p.secs[1].len, n) <= Later(p.len, n)
      /\ p.len <= Later(p.len, n) /\ n <= Later(p.len, n)
  BY <1>2, <1>3, <1>4 DEF Later
<1>6. o = [p EXCEPT !.secs = q, !.len = Later(p.len, n), !.index = x]
  BY <1>2, <1>3 DEF IncrementalEntry, p, Docs, Section
<1> HIDE DEF o
<1>7. s \in Section /\ s.len = Later(p.secs[1].len, n) /\ s.signed = p.secs[1].signed
      /\ s.table = p.secs[1].table
  BY <1>3, <1>5 DEF Section
<1> HIDE DEF s
<1>8. q \in Seq(Section) /\ Len(q) = L /\ q[1] = s /\ DOMAIN q = 1..L
      /\ \A j \in 1..L : j # 1 => q[j] = p.secs[j]
  BY <1>2, <1>7
<1>9. x \in [Num -> Nat] /\ x[n] = 1 /\ \A m \in Num : m # n => x[m] = p.index[m]
  BY <1>2
<1> HIDE DEF q, x
<1>10. /\ o \in Docs
       /\ o.secs = q /\ o.len = Later(p.len, n) /\ o.index = x
       /\ o.inc = p.inc /\ o.heap = p.heap /\ o.frozen = p.frozen
  BY <1>2, <1>5, <1>6, <1>8, <1>9 DEF Docs
<1>11. Shape(o)
  <2>1. Len(o.secs) = Len(p.secs) /\ Len(o.secs) >= 1
    BY <1>2, <1>8, <1>10
  <2>2. o.inc < Len(o.secs)
    BY <1>1, <1>10, <2>1, DocFacts
  <2>3. \A m \in Num : o.index[m] \in 1..Len(o.secs)
    BY <1>2, <1>9, <1>10, <2>1
  <2> QED BY <1>10, <2>1, <2>2, <2>3 DEF Shape
<1>12. \A k \in 1..L : o.secs[k].table = p.secs[k].table
  BY <1>7, <1>8, <1>10
<1>13. Within(o)
  <2> SUFFICES ASSUME NEW j \in 1..L
               PROVE  /\ o.secs[j].len <= o.len
                      /\ \A m \in Num : o.secs[j].table[m].type # "unset" => m <= o.secs[j].len
    BY <1>8, <1>10 DEF Within
  <2>1. /\ p.secs[j].len <= p.len /\ p.secs[j].len \in Int /\ p.len \in Int
        /\ \A m \in Num : p.secs[j].table[m].type # "unset" => m <= p.secs[j].len
    BY <1>1, <1>2, DocFacts DEF Fits, Within
  <2>2. o.secs[j].len \in Int /\ p.secs[j].len <= o.secs[j].len /\ o.secs[j].len <= o.len
    BY <1>2, <1>5, <1>7, <1>8, <1>10, <2>1
  <2>3. ASSUME NEW m \in Num, o.secs[j].table[m].type # "unset" PROVE m <= o.secs[j].len
    <3>1. m <= p.secs[j].len /\ m \in Int
      BY <1>12, <2>1, <2>3 DEF Num
    <3> QED BY <2>1, <2>2, <3>1
  <2> QED BY <2>2, <2>3
<1>14. Sound(o)
  <2> SUFFICES ASSUME NEW m \in Num, NEW j \in 1..L, j < o.index[m]
               PROVE  o.secs[j].table[m].type # "n"
    BY <1>8, <1>10 DEF Sound
  <2>1. m # n /\ j < p.index[m]
    BY <1>9, <1>10
  <2>2. p.secs[j].table[m].type # "n"
    BY <1>1, <1>2, <2>1 DEF Fits, Sound
  <2> QED BY <1>12, <2>2
<1>15. Fits(o)
  BY <1>11, <1>13, <1>14 DEF Fits
<1>16. ASSUME NEW m \in Num, m # n PROVE Keeps(d, o, m)
  <2>1. \A j \in 1..L : o.secs[j + 0].table[m] = p.secs[j].table[m]
    <3> SUFFICES ASSUME NEW j \in 1..L PROVE o.secs[j + 0].table[m] = p.secs[j].table[m]
      OBVIOUS
    <3>1. j + 0 = j
      OBVIOUS
    <3> QED BY <1>12, <3>1
  <2>2. Len(o.secs) = L + 0 /\ o.index[m] = p.index[m] + 0
    BY <1>2, <1>8, <1>9, <1>10, <1>16
  <2>3. Keeps(p, o, m)
    BY <1>1, <1>15, <2>1, <2>2, KeepsWhen
  <2> QED BY <1>1, <2>3, KeepsTwice
<1>17. d.len <= o.len /\ n <= o.len /\ n <= o.secs[1].len
  BY <1>1, <1>5, <1>7, <1>8, <1>10
<1>18. o.index[n] = 1 /\ ~o.secs[1].signed /\ Len(o.secs) = L
  BY <1>1, <1>7, <1>8, <1>9, <1>10
<1> QED BY <1>1, <1>8, <1>10, <1>12, <1>15, <1>16, <1>17, <1>18 DEF o, p

-----------------------------------------------------------------------------
(* The parts that need memory *)

\* A new object is given memory that nobody uses.
LEMMA NewCellOK ==
  ASSUME NEW d, NEW n \in Num, Unused(d, n) # {}
  PROVE  NewCell(d, n) \in Cells /\ NewCell(d, n) \in Unused(d, n)
<1>1. Unused(d, n) \in SUBSET Nat
  BY BoundsAssumption DEF Unused
<1>2. NewCell(d, n) \in Unused(d, n)
  BY <1>1, MinIs DEF NewCell
<1> QED BY <1>2 DEF Unused

\* The entry that is found at the newest section.
LEMMA FoundFirst ==
  ASSUME NEW d, Fits(d), NEW n \in Num, d.index[n] = 1, d.secs[1].table[n].type # "unset"
  PROVE  Find(d, 1, n) = 1 /\ Found(d, 1, n) = d.secs[1].table[n]
<1>1. Len(d.secs) \in Nat \ {0}
  BY DocFacts
<1>2. 1 \in d.index[n]..Len(d.secs) /\ d.index[n]..(1 - 1) = {}
  BY <1>1
<1>3. Find(d, 1, n) = 1
  BY <1>2, FindIs
<1> QED BY <1>3 DEF Found

\* pdf_cache_object: the object is in memory afterwards, where it was if it
\* was there before, and every other object is still the same.
LEMMA CacheObjectOK ==
  ASSUME NEW d, Fits(d), NEW n \in Num, InUse(d, n), Unused(d, n) # {}
  PROVE  LET o == CacheObject(d, n) IN
         /\ Fits(o) /\ InUse(o, n) /\ ObjectOf(o, n) \in Cells
         /\ ObjectOf(d, n) # None => ObjectOf(o, n) = ObjectOf(d, n) /\ Unused(o, n) = Unused(d, n)
         /\ o.len = d.len /\ o.frozen = d.frozen /\ o.inc = d.inc
         /\ Len(o.secs) = Len(d.secs)
         /\ \E c \in Cells \cup {None} : Unused(d, n) \ {c} \subseteq Unused(o, n)
         /\ \A m \in Num : m # n => Unused(o, m) = Unused(d, m)
         /\ \A m \in Num : m # n => Keeps(d, o, m)
<1> DEFINE k == Find(d, 1, n)
           e == d.secs[k].table[n]
           c == NewCell(d, n)
           at == [d EXCEPT !.index[n] = k]
           w == [at EXCEPT !.heap[n][c] = e.ofs]
           f == [e EXCEPT !.obj = c]
           o == CacheObject(d, n)
<1>1. /\ k \in 1..Len(d.secs) /\ e = Found(d, 1, n) /\ e \in Entry /\ e.type = "n"
      /\ n <= d.secs[k].len /\ k \in d.index[n]..Len(d.secs)
  BY FindFacts, InUseFacts DEF InUse
<1>2. /\ Fits(at) /\ at.len = d.len /\ at.frozen = d.frozen /\ at.inc = d.inc
      /\ at.heap = d.heap /\ at.secs = d.secs /\ at.index[n] = k
      /\ Find(at, 1, n) = k /\ Found(at, 1, n) = e
      /\ \A m \in Num : m # n => Keeps(d, at, m)
  BY <1>1, IndexOK
<1>3. c \in Cells /\ c \in Unused(d, n)
  BY NewCellOK
<1>4. o = IF e.obj # None THEN at ELSE Put(w, k, n, f)
  BY DEF CacheObject
<1>5. ObjectOf(d, n) = e.obj
  BY <1>1 DEF ObjectOf
<1>6. \A m \in Num : Unused(at, m) = Unused(d, m)
  BY <1>2 DEF Unused
<1>7. e.obj \in Cells \cup {None} /\ e.ofs \in Stamp \cup {None}
  BY <1>1 DEF Entry
<1> HIDE DEF k, at, c, o, e
<1>8. CASE e.obj # None
  <2>1. o = at
    BY <1>4, <1>8
  <2>2. InUse(at, n) /\ ObjectOf(at, n) = e.obj
    BY <1>1, <1>2 DEF InUse, ObjectOf
  <2>3. Unused(d, n) \ {None} \subseteq Unused(at, n)
    BY <1>6
  <2>4. ObjectOf(at, n) = ObjectOf(d, n) /\ ObjectOf(at, n) \in Cells
    BY <1>5, <1>7, <1>8, <2>2
  <2>5. /\ Unused(at, n) = Unused(d, n)
        /\ \A m \in Num : m # n => Unused(at, m) = Unused(d, m)
    BY <1>6
  <2>6. Fits(at) /\ at.len = d.len /\ at.frozen = d.frozen /\ at.inc = d.inc
        /\ Len(at.secs) = Len(d.secs)
    BY <1>2
  <2> QED BY <1>2, <2>1, <2>2, <2>3, <2>4, <2>5, <2>6 DEF o
<1>9. CASE e.obj = None
  <2>1. /\ Fits(w) /\ w.len = at.len /\ w.frozen = at.frozen /\ w.inc = at.inc
        /\ w.index = at.index /\ w.secs = at.secs
        /\ \A m \in Num, b \in Cells :
              w.heap[m][b] = IF m = n /\ b = c THEN e.ofs ELSE at.heap[m][b]
    BY <1>2, <1>3, <1>7, HeapOK
  <2>2. f \in Entry /\ f.type = "n" /\ f.obj = c
    BY <1>1, <1>3 DEF Entry
  <2> DEFINE p == Put(w, k, n, f)
  <2> HIDE DEF w, f
  <2>3. w.secs[k].len = d.secs[k].len /\ k \in 1..Len(w.secs) /\ w.index[n] = k /\ k <= k
    BY <1>1, <1>2, <2>1
  <2>4. /\ Fits(p)
        /\ p.len = w.len /\ p.heap = w.heap /\ p.frozen = w.frozen /\ p.inc = w.inc
        /\ p.index = w.index /\ Len(p.secs) = Len(w.secs)
        /\ \A j \in 1..Len(w.secs) : \A m \in Num : p.secs[j].table[m] =
                     IF j = k /\ m = n THEN f ELSE w.secs[j].table[m]
        /\ \A m \in Num : m # n => Keeps(w, p, m)
    BY SMTT(30), <1>1, <2>1, <2>2, <2>3, PutOK
  <2>5. o = p
    BY <1>4, <1>9
  <2> HIDE DEF p
  <2>6. \A m \in Num : m # n => Keeps(d, p, m)
    <3> SUFFICES ASSUME NEW m \in Num, m # n PROVE Keeps(d, p, m)
      OBVIOUS
    <3>1. Keeps(d, at, m) /\ Keeps(w, p, m)
      BY <1>2, <2>4
    <3>2. Keeps(at, w, m)
      BY <2>1, FindSame DEF Keeps, InUse
    <3> QED BY <3>1, <3>2, KeepsTwice
  <2>7. Find(p, 1, n) = k
    <3>1. p.secs[k].table[n] = f /\ p.index[n] = k /\ k \in 1..Len(p.secs)
      BY <2>3, <2>4
    <3>2. k \in p.index[n]..Len(p.secs) /\ p.index[n]..(k - 1) = {}
      BY <3>1
    <3>3. p.secs[k].table[n].type # "unset"
      BY <2>2, <3>1
    <3> QED BY <2>4, <3>2, <3>3, FindIs
  <2>8. Found(p, 1, n) = f
    BY <2>3, <2>4, <2>7 DEF Found
  <2>9. InUse(p, n) /\ ObjectOf(p, n) = c
    BY <2>2, <2>8 DEF InUse, ObjectOf
  <2>10. Unused(d, n) \ {c} \subseteq Unused(p, n)
    BY <1>2, <2>1, <2>4 DEF Unused
  <2>11. \A m \in Num : m # n => Unused(p, m) = Unused(d, m)
    BY <1>2, <2>1, <2>4 DEF Unused
  <2>12. p.len = d.len /\ p.frozen = d.frozen /\ p.inc = d.inc /\ Len(p.secs) = Len(d.secs)
    BY <1>2, <2>1, <2>4
  <2>13. o = CacheObject(d, n)
    BY DEF o
  <2>14. /\ Fits(o) /\ InUse(o, n) /\ ObjectOf(o, n) \in Cells
         /\ ~(ObjectOf(d, n) # None)
    BY <1>3, <1>5, <1>9, <2>4, <2>5, <2>9
  <2> QED BY <1>3, <2>5, <2>6, <2>10, <2>11, <2>12, <2>13, <2>14
<1> QED BY <1>8, <1>9

\* pdf_xref_ensure_incremental_object: the object itself, with the pointer to
\* it, is the one found afterwards, and so is every other object.
LEMMA EnsureIncrementalOK ==
  ASSUME NEW d, Fits(d), NEW n \in Num, InUse(d, n), Unused(d, n) # {}
  PROVE  LET o == EnsureIncremental(d, n) IN
         /\ Fits(o) /\ InUse(o, n) /\ ObjectOf(o, n) = ObjectOf(d, n)
         /\ d.len <= o.len
         /\ \A m \in Num : m # n => Unused(o, m) = Unused(d, m)
         /\ \A m \in Num : m # n => Keeps(d, o, m)
<1> DEFINE a == OpenIncrement(d)
           H == Holders(a, a.index[n], n)
           k == Find(a, 1, n)
           old == a.secs[k].table[n]
           e == EnsureIncremental(d, n)
<1>1. /\ Fits(a) /\ a.len = d.len /\ a.heap = d.heap /\ a.inc # 0 /\ ~a.secs[1].signed
      /\ \A m \in Num : Keeps(d, a, m)
  BY OpenIncrementOK
<1>2. InUse(a, n) /\ Found(a, 1, n) = Found(d, 1, n)
  BY <1>1 DEF Keeps
<1> HIDE DEF a
<1>3. /\ k \in 1..Len(a.secs) /\ k \in a.index[n]..Len(a.secs) /\ k = Min(H) /\ H # {} /\ k \in H
      /\ old = Found(a, 1, n) /\ old \in Entry /\ old.type = "n" /\ old.obj = ObjectOf(d, n)
  BY <1>1, <1>2, FindFacts, InUseFacts DEF InUse, ObjectOf
<1>4. e = IF 1 \in H THEN a ELSE Moved(a, n, k)
  BY <1>3 DEF EnsureIncremental, a
<1> HIDE DEF e
<1>5. \A m \in Num : Unused(a, m) = Unused(d, m)
  BY <1>1 DEF Unused
<1>6. d.len \in Int /\ a.len \in Int /\ n \in Int
  BY <1>1, DocFacts DEF Num
<1> HIDE DEF k, H, old
<1> SUFFICES
         /\ Fits(e) /\ InUse(e, n) /\ ObjectOf(e, n) = ObjectOf(d, n)
         /\ d.len <= e.len
         /\ \A m \in Num : m # n => Unused(e, m) = Unused(d, m)
         /\ \A m \in Num : m # n => Keeps(d, e, m)
  BY DEF e
<1>7. CASE 1 \in H
  <2>1. e = a
    BY <1>4, <1>7
  <2>2. ObjectOf(a, n) = ObjectOf(d, n)
    BY <1>2 DEF ObjectOf
  <2>3. d.len <= a.len
    BY <1>1, <1>6
  <2> QED BY <1>1, <1>2, <1>5, <2>1, <2>2, <2>3
<1>8. CASE ~(1 \in H)
  <2> DEFINE o == IncrementalEntry(a, n)
             p == Put(o, 1, n, old)
             c == NewCell(a, n)
             left == [old EXCEPT !.obj = None, !.buf = None]
             copy == [old EXCEPT !.obj = c, !.buf = None]
             v == a.heap[n][old.obj]
             q == [p EXCEPT !.heap[n][c] = v]
  <2>1. OpenIncrement(a) = a
    BY <1>1 DEF OpenIncrement
  <2>2. /\ Fits(o) /\ o.heap = a.heap /\ a.len <= o.len /\ n <= o.secs[1].len
        /\ o.index[n] = 1 /\ Len(o.secs) = Len(a.secs)
        /\ \A j \in 1..Len(o.secs) : o.secs[j].table = a.secs[j].table
        /\ \A m \in Num : m # n => Keeps(a, o, m)
    BY <1>1, <2>1, IncrementalEntryOK
  <2> HIDE DEF o
  <2>3. /\ k # 1 /\ k \in 1..Len(o.secs) /\ 1 \in 1..Len(o.secs)
    <3>1. k # 1
      BY <1>3, <1>8
    <3>2. 1 \in 1..Len(o.secs)
      BY <2>2, DocFacts
    <3> QED BY <1>3, <2>2, <3>1, <3>2
  <2>4. /\ Fits(p)
        /\ p.len = o.len /\ p.heap = o.heap /\ p.index = o.index /\ Len(p.secs) = Len(o.secs)
        /\ \A j \in 1..Len(o.secs) : p.secs[j].len = o.secs[j].len
        /\ p.secs[1].table[n] = old
        /\ \A m \in Num : m # n => Keeps(o, p, m)
    <3>1. 1 <= 1
      OBVIOUS
    <3> QED BY <1>3, <2>2, <2>3, <3>1, PutOK
  <2>5. n <= o.secs[k].len
    <3>1. o.secs[k].table[n] = old
      BY <1>3, <2>2, <2>3 DEF old
    <3>2. o.secs[k].table[n].type # "unset"
      BY <1>3, <3>1
    <3> QED BY <2>2, <2>3, <3>2, DocFacts DEF Fits, Within
  <2> HIDE DEF p
  <2>6. ASSUME NEW g, Fits(g), g.len = p.len, g.index = p.index, g.secs = p.secs,
               \A m \in Num : m # n => g.heap[m] = a.heap[m],
               NEW x \in Entry, x.type = "n", e = Put(g, k, n, x)
        PROVE  /\ Fits(e) /\ InUse(e, n) /\ ObjectOf(e, n) = ObjectOf(d, n)
               /\ d.len <= e.len
               /\ \A m \in Num : m # n => Unused(e, m) = Unused(d, m)
               /\ \A m \in Num : m # n => Keeps(d, e, m)
    <3> DEFINE r == Put(g, k, n, x)
    <3>1. k \in 1..Len(g.secs) /\ n <= g.secs[k].len /\ g.index[n] <= k
      <4>1. k \in 1..Len(p.secs)
        BY <2>3, <2>4
      <4>2. k \in Nat /\ k >= 1
        BY <4>1
      <4> QED BY <2>2, <2>3, <2>4, <2>5, <2>6, <4>1, <4>2
    <3>2. /\ Fits(r) /\ r.len = g.len /\ r.heap = g.heap /\ r.index = g.index
          /\ \A j \in 1..Len(g.secs) : \A m \in Num : r.secs[j].table[m] =
                     IF j = k /\ m = n THEN x ELSE g.secs[j].table[m]
          /\ \A m \in Num : m # n => Keeps(g, r, m)
      <4>1. Fits(g)
        BY <2>6
      <4>2. /\ x.type # "unset" => n <= g.secs[k].len
            /\ x.type = "n" => g.index[n] <= k
        BY <3>1
      <4> QED BY <3>1, <4>1, <4>2, PutOK
    <3>3. e = r
      BY <2>6
    <3> HIDE DEF r
    <3>4. r.secs[1].table[n] = old /\ r.index[n] = 1
      <4>1. r.secs[1].table[n] = g.secs[1].table[n]
        BY <2>3, <2>4, <2>6, <3>2
      <4> QED BY <2>2, <2>4, <2>6, <3>2, <4>1
    <3>5. Found(r, 1, n) = old
      <4>1. r.secs[1].table[n].type # "unset"
        BY <1>3, <3>4
      <4> QED BY <3>2, <3>4, <4>1, FoundFirst
    <3>6. InUse(r, n) /\ ObjectOf(r, n) = ObjectOf(d, n)
      BY <1>3, <3>5 DEF InUse, ObjectOf
    <3>7. d.len <= r.len
      BY <1>1, <2>2, <2>4, <2>6, <3>2
    <3>8. \A m \in Num : m # n => Unused(r, m) = Unused(d, m)
      BY <1>1, <2>6, <3>2 DEF Unused
    <3>9. ASSUME NEW m \in Num, m # n PROVE Keeps(d, r, m)
      <4>1. Keeps(d, a, m) /\ Keeps(a, o, m) /\ Keeps(o, p, m) /\ Keeps(g, r, m)
        BY <1>1, <2>2, <2>4, <3>2, <3>9
      <4>2. Keeps(p, g, m)
        BY <2>6, FindSame DEF Keeps, InUse
      <4> QED BY <4>1, <4>2, KeepsTwice
    <3> QED BY <3>2, <3>3, <3>6, <3>7, <3>8, <3>9
  <2>7. CASE k <= a.inc /\ old.obj # None
    <3>1. c \in Cells
      BY <1>5, NewCellOK
    <3>2. v \in Stamp \cup {None}
      <4>1. old.obj \in Cells
        BY <1>3, <2>7 DEF Entry
      <4>2. a.heap \in Heap
        BY <1>1, DocFacts
      <4> QED BY <4>1, <4>2 DEF Heap
    <3>3. e = Put(q, k, n, copy)
      BY <1>4, <1>8, <2>7 DEF Moved, old, p, o
    <3>4. copy \in Entry /\ copy.type = "n"
      BY <1>3, <3>1 DEF Entry
    <3> HIDE DEF c, copy, v
    <3>5. /\ Fits(q) /\ q.len = p.len /\ q.index = p.index /\ q.secs = p.secs
          /\ \A m \in Num, b \in Cells :
               q.heap[m][b] = IF m = n /\ b = c THEN v ELSE p.heap[m][b]
      <4>1. Fits(p)
        BY <2>4
      <4> QED BY <3>1, <3>2, <4>1, HeapOK
    <3>6. ASSUME NEW m \in Num, m # n PROVE q.heap[m] = a.heap[m]
      <4>1. q.heap \in Heap /\ a.heap \in Heap
        BY <1>1, <3>5, DocFacts
      <4>2. q.heap[m] \in [Cells -> Stamp \cup {None}] /\ a.heap[m] \in [Cells -> Stamp \cup {None}]
        BY <4>1 DEF Heap
      <4>3. \A b \in Cells : q.heap[m][b] = a.heap[m][b]
        BY <2>2, <2>4, <3>5, <3>6
      <4> QED BY <4>2, <4>3
    <3> HIDE DEF q
    <3> QED BY <2>6, <3>3, <3>4, <3>5, <3>6
  <2>8. CASE ~(k <= a.inc /\ old.obj # None)
    <3>1. e = Put(p, k, n, left)
      BY <1>4, <1>8, <2>8 DEF Moved, old, p, o
    <3>2. left \in Entry /\ left.type = "n"
      BY <1>3 DEF Entry
    <3>3. \A m \in Num : p.heap[m] = a.heap[m]
      BY <2>2, <2>4
    <3> HIDE DEF left
    <3> QED BY <2>4, <2>6, <3>1, <3>2, <3>3
  <2> QED BY <2>7, <2>8
<1> QED BY <1>7, <1>8

\* A change of an object through a pointer keeps the pointer current.
LEMMA AlterOK ==
  ASSUME NEW d, Fits(d), NEW n \in Num, InUse(d, n), Unused(d, n) # {},
         NEW cell \in Cells, edits + 1 \in Stamp
  PROVE  LET o == Alter(d, n, cell) IN
         /\ Fits(o) /\ InUse(o, n) /\ ObjectOf(o, n) = ObjectOf(d, n)
         /\ d.len <= o.len
         /\ \A m \in Num : m # n => Unused(o, m) = Unused(d, m)
         /\ \A m \in Num : m # n => Keeps(d, o, m)
<1> DEFINE p == IF d.frozen THEN d ELSE EnsureIncremental(d, n)
           q == [p EXCEPT !.heap[n][cell] = edits + 1]
<1>1. /\ Fits(p) /\ InUse(p, n) /\ ObjectOf(p, n) = ObjectOf(d, n)
      /\ d.len <= p.len
      /\ \A m \in Num : m # n => Unused(p, m) = Unused(d, m)
      /\ \A m \in Num : m # n => Keeps(d, p, m)
  <2>1. CASE d.frozen
    <3>1. d.len <= d.len
      BY DocFacts
    <3> QED BY <2>1, <3>1 DEF Keeps
  <2>2. CASE ~d.frozen
    BY <2>2, EnsureIncrementalOK
  <2> QED BY <2>1, <2>2
<1>2. Alter(d, n, cell) = q
  BY DEF Alter
<1> HIDE DEF p
<1>3. edits + 1 \in Stamp \cup {None}
  OBVIOUS
<1>4. Fits(p)
  BY <1>1
<1>5. /\ Fits(q) /\ q.len = p.len /\ q.index = p.index /\ q.secs = p.secs
      /\ \A m \in Num, b \in Cells :
               q.heap[m][b] = IF m = n /\ b = cell THEN edits + 1 ELSE p.heap[m][b]
  BY <1>3, <1>4, HeapOK
<1> HIDE DEF q
<1>6. \A m \in Num : m # n => Unused(q, m) = Unused(p, m)
  BY <1>5 DEF Unused
<1>7. \A m : Found(q, 1, m) = Found(p, 1, m)
  BY <1>5, FindSame
<1>8. InUse(q, n) /\ ObjectOf(q, n) = ObjectOf(d, n) /\ d.len <= q.len
  BY <1>1, <1>5, <1>7 DEF InUse, ObjectOf
<1>9. \A m \in Num : m # n => Keeps(d, q, m)
  BY <1>1, <1>7 DEF Keeps, InUse
<1> QED BY <1>1, <1>2, <1>5, <1>6, <1>8, <1>9

\* There is memory for two objects more.
Spare(d, n) == \A c \in Cells \cup {None} : Unused(d, n) \ {c} # {}

\* The same for an object that is read first.
LEMMA AlterObjectOK ==
  ASSUME NEW d, Fits(d), NEW n \in Num, InUse(d, n), edits + 1 \in Stamp,
         Spare(d, n) \/ (Unused(d, n) # {} /\ ObjectOf(d, n) # None)
  PROVE  LET o == AlterObject(d, n) IN
         /\ Fits(o) /\ InUse(o, n)
         /\ ObjectOf(d, n) # None => ObjectOf(o, n) = ObjectOf(d, n)
         /\ d.len <= o.len
         /\ \A m \in Num : m # n => Unused(o, m) = Unused(d, m)
         /\ \A m \in Num : m # n => Keeps(d, o, m)
<1> DEFINE p == CacheObject(d, n)
           q == Alter(p, n, ObjectOf(p, n))
<1>1. Unused(d, n) # {}
  BY DEF Spare
<1>2. /\ Fits(p) /\ InUse(p, n) /\ ObjectOf(p, n) \in Cells
      /\ ObjectOf(d, n) # None => ObjectOf(p, n) = ObjectOf(d, n) /\ Unused(p, n) = Unused(d, n)
      /\ p.len = d.len
      /\ \E c \in Cells \cup {None} : Unused(d, n) \ {c} \subseteq Unused(p, n)
      /\ \A m \in Num : m # n => Unused(p, m) = Unused(d, m)
      /\ \A m \in Num : m # n => Keeps(d, p, m)
  BY <1>1, CacheObjectOK
<1>3. AlterObject(d, n) = q
  BY DEF AlterObject
<1> HIDE DEF p
<1>4. Unused(p, n) # {}
  <2>1. CASE Spare(d, n)
    BY <1>2, <2>1 DEF Spare
  <2> QED BY <1>2, <2>1
<1>5. /\ Fits(q) /\ InUse(q, n) /\ ObjectOf(q, n) = ObjectOf(p, n)
      /\ p.len <= q.len
      /\ \A m \in Num : m # n => Unused(q, m) = Unused(p, m)
      /\ \A m \in Num : m # n => Keeps(p, q, m)
  <2>1. Fits(p) /\ InUse(p, n) /\ ObjectOf(p, n) \in Cells
    BY <1>2
  <2> QED BY <1>4, <2>1, AlterOK
<1> HIDE DEF q
<1>6. \A m \in Num : m # n => Keeps(d, q, m)
  BY <1>2, <1>5, KeepsTwice
<1>7. /\ ObjectOf(d, n) # None => ObjectOf(q, n) = ObjectOf(d, n)
      /\ d.len <= q.len
      /\ \A m \in Num : m # n => Unused(q, m) = Unused(d, m)
  BY <1>2, <1>5
<1> QED BY <1>3, <1>5, <1>6, <1>7

\* pdf_update_object: the object is in use, every other one as it was.
LEMMA UpdateObjectOK ==
  ASSUME NEW d, Fits(d), NEW n \in Num, Unused(d, n) # {}, edits + 1 \in Stamp
  PROVE  LET o == UpdateObject(d, n) IN
         /\ Fits(o) /\ InUse(o, n)
         /\ d.len <= o.len
         /\ \A m \in Num : m # n => Keeps(d, o, m)
<1> DEFINE p == IncrementalEntry(d, n)
           c == NewCell(d, n)
           v == edits + 1
           w == [p EXCEPT !.heap[n][c] = v]
           e == [p.secs[1].table[n] EXCEPT !.type = "n", !.ofs = None, !.obj = c]
           o == Put(w, 1, n, e)
<1>1. /\ Fits(p) /\ d.len <= p.len /\ n <= p.secs[1].len /\ p.index[n] = 1
      /\ \A m \in Num : m # n => Keeps(d, p, m)
  BY IncrementalEntryOK
<1>2. c \in Cells
  BY NewCellOK
<1>3. p \in Docs /\ p.secs \in Seq(Section) /\ 1 \in 1..Len(p.secs)
      /\ p.secs[1] \in Section /\ p.secs[1].table[n] \in Entry
  <2>1. Len(p.secs) \in Nat \ {0}
    BY <1>1, DocFacts
  <2>2. 1 \in 1..Len(p.secs)
    BY <2>1
  <2> QED BY <1>1, <2>2, DocFacts
<1>4. UpdateObject(d, n) = o
  BY <1>3 DEF UpdateObject, Put, Docs
<1>5. e \in Entry /\ e.type = "n"
  BY <1>2, <1>3 DEF Entry
<1> HIDE DEF p, c, v, e
<1>6. /\ Fits(w) /\ w.len = p.len /\ w.index = p.index /\ w.secs = p.secs
  <2>1. Fits(p) /\ v \in Stamp \cup {None}
    BY <1>1 DEF v
  <2> QED BY <1>2, <2>1, HeapOK
<1> HIDE DEF w
<1>7. /\ Fits(o) /\ o.len = w.len /\ o.index = w.index /\ o.secs[1].table[n] = e
      /\ \A m \in Num : m # n => Keeps(w, o, m)
  <2>1. /\ e.type # "unset" => n <= w.secs[1].len
        /\ e.type = "n" => w.index[n] <= 1
        /\ 1 \in 1..Len(w.secs)
    BY <1>1, <1>3, <1>6
  <2> QED BY <1>5, <1>6, <2>1, PutOK
<1> HIDE DEF o
<1>8. Found(o, 1, n) = e
  <2>1. o.index[n] = 1 /\ o.secs[1].table[n].type # "unset"
    BY <1>1, <1>5, <1>6, <1>7
  <2> QED BY <1>7, <2>1, FoundFirst
<1>9. InUse(o, n) /\ d.len <= o.len
  BY <1>1, <1>5, <1>6, <1>7, <1>8 DEF InUse
<1>10. ASSUME NEW m \in Num, m # n PROVE Keeps(d, o, m)
  <2>1. Keeps(p, w, m)
    BY <1>6, FindSame DEF Keeps, InUse
  <2>2. Keeps(d, p, m) /\ Keeps(w, o, m)
    BY <1>1, <1>7, <1>10
  <2> QED BY <2>1, <2>2, KeepsTwice
<1> QED BY <1>4, <1>7, <1>9, <1>10

\* An entry that is freed in the newest increment: every other object stays.
LEMMA FreeOK ==
  ASSUME NEW d, Fits(d), NEW n \in Num
  PROVE  LET o == Put(IncrementalEntry(d, n), 1, n, Freed) IN
         /\ Fits(o)
         /\ d.len <= o.len /\ n <= o.len
         /\ \A m \in Num : Unused(o, m) = Unused(d, m)
         /\ \A m \in Num : m # n => Keeps(d, o, m)
<1> DEFINE p == IncrementalEntry(d, n)
           o == Put(p, 1, n, Freed)
<1>1. /\ Fits(p) /\ d.len <= p.len /\ n <= p.len /\ n <= p.secs[1].len /\ p.heap = d.heap
      /\ \A m \in Num : m # n => Keeps(d, p, m)
  BY IncrementalEntryOK
<1> HIDE DEF p
<1>2. 1 \in 1..Len(p.secs)
  <2>1. Len(p.secs) \in Nat \ {0}
    BY <1>1, DocFacts
  <2> QED BY <2>1
<1>3. /\ Fits(o) /\ o.len = p.len /\ o.heap = p.heap
      /\ \A m \in Num : m # n => Keeps(p, o, m)
  <2>1. Freed \in Entry /\ (Freed.type # "unset" => n <= p.secs[1].len) /\ ~(Freed.type = "n")
    BY <1>1, UnsetFacts
  <2> QED BY <1>1, <1>2, <2>1, PutOK
<1> HIDE DEF o
<1>4. \A m \in Num : m # n => Keeps(d, o, m)
  BY <1>1, <1>3, KeepsTwice
<1>5. \A m \in Num : Unused(o, m) = Unused(d, m)
  BY <1>1, <1>3 DEF Unused
<1> QED BY <1>1, <1>3, <1>4, <1>5 DEF o, p

\* Freeing the memory that nobody refers to.
LEMMA CollectOK ==
  ASSUME NEW d, Fits(d), NEW h
  PROVE  LET o == Collect(d, h) IN
         /\ Fits(o)
         /\ o.len = d.len /\ o.frozen = d.frozen /\ o.inc = d.inc
         /\ o.index = d.index /\ o.secs = d.secs
         /\ \A m : Found(o, 1, m) = Found(d, 1, m)
<1> DEFINE o == Collect(d, h)
           g == [n \in Num |-> [c \in Cells |->
                     IF c \in Referenced(d, h, n) THEN d.heap[n][c] ELSE None]]
<1>1. d \in Docs /\ d.heap \in Heap
  BY DocFacts
<1>2. o = [d EXCEPT !.heap = g]
  BY DEF Collect
<1>3. g \in Heap
  BY <1>1 DEF Heap
<1> HIDE DEF o, g
<1>4. o \in Docs
      /\ o.len = d.len /\ o.frozen = d.frozen /\ o.inc = d.inc
      /\ o.index = d.index /\ o.secs = d.secs
  BY <1>1, <1>2, <1>3 DEF Docs
<1>5. Fits(o)
  BY <1>4 DEF Fits, Shape, Within, Sound
<1>6. \A m : Found(o, 1, m) = Found(d, 1, m)
  BY <1>4, FindSame
<1> QED BY <1>4, <1>5, <1>6 DEF o

-----------------------------------------------------------------------------
(* Drawing and saving *)

\* Two documents of the same sections that define the same entries find the
\* same place.
LEMMA FindAlike ==
  ASSUME NEW d, Fits(d), NEW o, Fits(o), NEW n \in Num,
         Len(o.secs) = Len(d.secs), o.index[n] = d.index[n],
         \A k \in 1..Len(d.secs) : o.secs[k].table[n].type = d.secs[k].table[n].type
  PROVE  InUse(d, n) => Find(o, 1, n) = Find(d, 1, n) /\ InUse(o, n)
<1> SUFFICES ASSUME InUse(d, n) PROVE Find(o, 1, n) = Find(d, 1, n) /\ InUse(o, n)
  OBVIOUS
<1> DEFINE k == Find(d, 1, n)
<1>1. d.index[n] \in 1..Len(d.secs) /\ Len(d.secs) \in Nat
  BY DocFacts
<1>2. /\ k \in 1..Len(d.secs) /\ k \in d.index[n]..Len(d.secs)
      /\ d.secs[k].table[n].type = "n"
      /\ \A j \in d.index[n]..(k - 1) : d.secs[j].table[n].type = "unset"
  <2>1. /\ k \in 1..Len(d.secs) /\ k \in d.index[n]..Len(d.secs)
        /\ d.secs[k].table[n].type = "n"
    BY FindFacts, InUseFacts DEF InUse
  <2>2. \A j \in d.index[n]..(k - 1) : d.secs[j].table[n].type = "unset"
    <3>1. CASE Holders(d, d.index[n], n) = {}
      BY <3>1, InUseFacts
    <3> QED BY <3>1, FindFacts
  <2> QED BY <2>1, <2>2
<1> HIDE DEF k
<1>3. k \in o.index[n]..Len(o.secs) /\ o.secs[k].table[n].type = "n"
  BY <1>2
<1>4. ASSUME NEW j \in o.index[n]..(k - 1) PROVE o.secs[j].table[n].type = "unset"
  <2>1. j \in d.index[n]..(k - 1) /\ j \in 1..Len(d.secs)
    BY <1>1, <1>2
  <2> QED BY <1>2, <2>1
<1>5. Find(o, 1, n) = k
  BY <1>3, <1>4, FindIs
<1>6. InUse(o, n)
  BY <1>3, <1>5 DEF InUse, Found
<1> QED BY <1>5, <1>6 DEF k

\* The document p is d with the objects in memory dropped, but for those
\* marked, those that a caller holds and those whose stream is replaced.
Cleared(d, p, marked) ==
    /\ p.heap = d.heap /\ p.inc = d.inc /\ p.index = d.index /\ p.frozen = d.frozen
    /\ Len(p.secs) = Len(d.secs)
    /\ \A k \in 1..Len(d.secs) :
          /\ p.secs[k].len = d.secs[k].len /\ p.secs[k].signed = d.secs[k].signed
          /\ \A n \in Num : LET e == d.secs[k].table[n] IN
                p.secs[k].table[n] =
                    IF \/ <<k, n>> \in marked \/ e.buf # None
                       \/ held = [num |-> n, cell |-> e.obj]
                    THEN e ELSE [e EXCEPT !.obj = None]

\* pdf_clear_xref_to_mark: what it drops, and that it frees it then.
LEMMA ClearShape ==
  ASSUME NEW d, Fits(d), NEW marked
  PROVE  \E p : Fits(p) /\ Cleared(d, p, marked) /\ ClearToMark(d, marked) = Collect(p, held)
<1> DEFINE L == Len(d.secs)
           Kept(k, n) == LET e == d.secs[k].table[n] IN
                         \/ <<k, n>> \in marked \/ e.buf # None
                         \/ held = [num |-> n, cell |-> e.obj]
           t(k) == [n \in Num |-> IF Kept(k, n) THEN d.secs[k].table[n]
                                  ELSE [d.secs[k].table[n] EXCEPT !.obj = None]]
           s == [k \in DOMAIN d.secs |-> [d.secs[k] EXCEPT !.table = t(k)]]
           p == [d EXCEPT !.secs = s]
<1>1. /\ d \in Docs /\ d.secs \in Seq(Section) /\ L \in Nat /\ DOMAIN d.secs = 1..L
      /\ \A k \in 1..L : d.secs[k] \in Section /\ d.secs[k].table \in [Num -> Entry]
  BY DocFacts
<1>2. ClearToMark(d, marked) = Collect(p, held)
  BY DEF ClearToMark
<1>3. ASSUME NEW k \in 1..L
      PROVE  /\ s[k] \in Section /\ s[k].len = d.secs[k].len /\ s[k].signed = d.secs[k].signed
             /\ \A n \in Num : /\ s[k].table[n].type = d.secs[k].table[n].type
                               /\ s[k].table[n] = IF Kept(k, n) THEN d.secs[k].table[n]
                                                  ELSE [d.secs[k].table[n] EXCEPT !.obj = None]
  <2>1. \A n \in Num : /\ t(k)[n] = IF Kept(k, n) THEN d.secs[k].table[n]
                                    ELSE [d.secs[k].table[n] EXCEPT !.obj = None]
                       /\ d.secs[k].table[n] \in Entry
    BY <1>1
  <2> HIDE DEF Kept
  <2>2. ASSUME NEW n \in Num PROVE t(k)[n] \in Entry /\ t(k)[n].type = d.secs[k].table[n].type
    <3>1. CASE Kept(k, n)
      BY <2>1, <3>1
    <3>2. CASE ~Kept(k, n)
      <4>1. t(k)[n] = [d.secs[k].table[n] EXCEPT !.obj = None] /\ d.secs[k].table[n] \in Entry
        BY <2>1, <3>2
      <4> HIDE DEF t
      <4> QED BY <4>1 DEF Entry
    <3> QED BY <3>1, <3>2
  <2>3. t(k) \in [Num -> Entry]
    BY <2>2
  <2>4. s[k] = [d.secs[k] EXCEPT !.table = t(k)] /\ d.secs[k] \in Section
    BY <1>1
  <2> HIDE DEF s, t
  <2>5. /\ s[k] \in Section /\ s[k].len = d.secs[k].len /\ s[k].signed = d.secs[k].signed
        /\ s[k].table = t(k)
    BY <2>3, <2>4 DEF Section
  <2> QED BY <2>1, <2>2, <2>5
<1>4. s \in Seq(Section) /\ Len(s) = L /\ DOMAIN s = 1..L
  <2>1. DOMAIN s = 1..L
    BY <1>1
  <2>2. s = [k \in 1..L |-> s[k]]
    BY <2>1
  <2> HIDE DEF s, L
  <2>3. \A k \in 1..L : s[k] \in Section
    BY <1>3
  <2>4. L \in Nat
    BY <1>1
  <2> QED BY <2>1, <2>2, <2>3, <2>4
<1> HIDE DEF s
<1>5. /\ p \in Docs /\ p.secs = s
      /\ p.len = d.len /\ p.heap = d.heap /\ p.inc = d.inc /\ p.index = d.index
      /\ p.frozen = d.frozen
  BY <1>1, <1>4 DEF Docs
<1> HIDE DEF p, Kept
<1>6. Fits(p)
  <2>1. Shape(p)
    BY <1>4, <1>5 DEF Fits, Shape
  <2>2. Within(p)
    BY <1>1, <1>3, <1>4, <1>5 DEF Fits, Within
  <2>3. Sound(p)
    BY ZenonT(40), <1>1, <1>3, <1>4, <1>5 DEF Fits, Sound
  <2> QED BY <2>1, <2>2, <2>3 DEF Fits
<1>7. Cleared(d, p, marked)
  BY <1>3, <1>4, <1>5 DEF Cleared, Kept
<1> QED BY <1>2, <1>6, <1>7

\* It drops no object that a caller holds.
LEMMA ClearOK ==
  ASSUME NEW d, Fits(d), NEW marked
  PROVE  LET o == ClearToMark(d, marked) IN
         /\ Fits(o) /\ Len(o.secs) = Len(d.secs)
         /\ \A n \in Num : InUse(d, n) /\ held = [num |-> n, cell |-> ObjectOf(d, n)]
               => InUse(o, n) /\ ObjectOf(o, n) = ObjectOf(d, n)
<1> DEFINE o == ClearToMark(d, marked)
           L == Len(d.secs)
<1>1. PICK p : Fits(p) /\ Cleared(d, p, marked) /\ o = Collect(p, held)
  BY ClearShape
<1>2. /\ Fits(o) /\ o.secs = p.secs
      /\ \A m : Found(o, 1, m) = Found(p, 1, m)
  BY <1>1, CollectOK
<1> HIDE DEF o
<1>3. ASSUME NEW n \in Num, InUse(d, n), held = [num |-> n, cell |-> ObjectOf(d, n)]
      PROVE  InUse(o, n) /\ ObjectOf(o, n) = ObjectOf(d, n)
  <2> DEFINE k == Find(d, 1, n)
  <2>1. Find(p, 1, n) = k /\ InUse(p, n)
    <3>1. Len(p.secs) = L /\ p.index[n] = d.index[n]
      BY <1>1 DEF Cleared
    <3>2. ASSUME NEW j \in 1..L PROVE p.secs[j].table[n].type = d.secs[j].table[n].type
      <4>1. d.secs[j].table[n] \in Entry
        BY DocFacts
      <4>2. p.secs[j].table[n] \in {d.secs[j].table[n], [d.secs[j].table[n] EXCEPT !.obj = None]}
        BY <1>1 DEF Cleared
      <4> QED BY <4>1, <4>2 DEF Entry
    <3> QED BY <1>1, <1>3, <3>1, <3>2, FindAlike
  <2>2. k \in 1..L /\ d.secs[k].table[n].obj = ObjectOf(d, n)
    BY FindFacts DEF ObjectOf, Found
  <2> HIDE DEF k
  <2>3. p.secs[k].table[n] = d.secs[k].table[n]
    BY <1>1, <1>3, <2>2 DEF Cleared
  <2>4. Found(p, 1, n) = Found(d, 1, n)
    BY <2>1, <2>3 DEF Found, k
  <2> QED BY <1>2, <1>3, <2>1, <2>4 DEF InUse, ObjectOf
<1>4. Len(o.secs) = L
  BY <1>1, <1>2 DEF Cleared
<1> QED BY <1>2, <1>3, <1>4 DEF o

\* complete_signatures and the index after a save: every object is found where
\* it was.
LEMMA SavedOK ==
  ASSUME NEW d, Fits(d)
  PROVE  LET o == Saved(d) IN
         /\ Fits(o) /\ Len(o.secs) = Len(d.secs) /\ o.inc = d.inc /\ o.heap = d.heap
         /\ ~o.frozen
         /\ \A k \in 1..Len(d.secs) :
               /\ o.secs[k].table = d.secs[k].table
               /\ program # "full" => o.secs[k].len = d.secs[k].len
         /\ \A n \in Num : InUse(d, n) => InUse(o, n) /\ Found(o, 1, n) = Found(d, 1, n)
<1> DEFINE L == Len(d.secs)
           len(k) == IF program = "full" /\ k = L THEN d.len ELSE d.secs[k].len
           s == [k \in DOMAIN d.secs |-> [d.secs[k] EXCEPT !.signed = FALSE, !.len = len(k)]]
           x == [n \in Num |-> IF n <= d.len THEN Find(d, 1, n) ELSE d.index[n]]
           o == Saved(d)
<1>1. /\ d \in Docs /\ d.secs \in Seq(Section) /\ L \in Nat /\ DOMAIN d.secs = 1..L
      /\ d.index \in [Num -> Nat] /\ d.len \in 0..MaxNum
      /\ \A n \in Num : d.index[n] \in 1..L
      /\ \A k \in 1..L : d.secs[k] \in Section /\ d.secs[k].len \in 0..MaxNum
  BY DocFacts
<1>2. o = [d EXCEPT !.frozen = FALSE, !.secs = s, !.index = x]
  BY DEF Saved
<1>3. ASSUME NEW k \in 1..L
      PROVE  /\ s[k] \in Section /\ s[k].table = d.secs[k].table
             /\ d.secs[k].len <= s[k].len /\ s[k].len <= d.len
             /\ program # "full" => s[k].len = d.secs[k].len
  <2>1. s[k] = [d.secs[k] EXCEPT !.signed = FALSE, !.len = len(k)] /\ d.secs[k] \in Section
    BY <1>1
  <2>2. d.secs[k].len <= d.len
    BY <1>1 DEF Fits, Within
  <2>3. len(k) \in 0..MaxNum /\ d.secs[k].len <= len(k) /\ len(k) <= d.len
    <3>1. CASE program = "full" /\ k = L
      BY <1>1, <2>2, <3>1
    <3>2. CASE ~(program = "full" /\ k = L)
      BY <1>1, <2>2, <3>2
    <3> QED BY <3>1, <3>2
  <2>4. program # "full" => len(k) = d.secs[k].len
    OBVIOUS
  <2> HIDE DEF len, s
  <2> QED BY <2>1, <2>3, <2>4 DEF Section
<1>4. s \in Seq(Section) /\ Len(s) = L /\ DOMAIN s = 1..L
  <2>1. DOMAIN s = 1..L
    BY <1>1
  <2>2. s = [k \in 1..L |-> s[k]]
    BY <2>1
  <2> HIDE DEF s, L
  <2>3. \A k \in 1..L : s[k] \in Section
    BY <1>3
  <2>4. L \in Nat
    BY <1>1
  <2> QED BY <2>1, <2>2, <2>3, <2>4
<1>5. x \in [Num -> Nat]
      /\ \A n \in Num : x[n] = IF n <= d.len THEN Find(d, 1, n) ELSE d.index[n]
  <2>1. \A n \in Num : Find(d, 1, n) \in 1..L
    BY FindFacts
  <2> QED BY <1>1, <2>1
<1> HIDE DEF s, x, o
<1>6. /\ o \in Docs /\ o.secs = s /\ o.index = x
      /\ o.len = d.len /\ o.heap = d.heap /\ o.inc = d.inc /\ ~o.frozen
  BY <1>1, <1>2, <1>4, <1>5 DEF Docs
<1>7. Shape(o)
  <2>1. \A n \in Num : o.index[n] \in 1..L
    BY <1>1, <1>5, <1>6, FindFacts
  <2> QED BY <1>4, <1>6, <2>1 DEF Fits, Shape
<1>8. Within(o)
  <2> SUFFICES ASSUME NEW k \in 1..L
               PROVE  /\ o.secs[k].len <= o.len
                      /\ \A n \in Num : o.secs[k].table[n].type # "unset" => n <= o.secs[k].len
    BY <1>4, <1>6 DEF Within
  <2>1. /\ s[k].table = d.secs[k].table /\ d.secs[k].len <= s[k].len /\ s[k].len <= d.len
        /\ s[k].len \in Int /\ d.secs[k].len \in Int
    BY <1>1, <1>3 DEF Section
  <2>2. ASSUME NEW n \in Num, s[k].table[n].type # "unset" PROVE n <= s[k].len
    <3>1. n <= d.secs[k].len /\ n \in Int
      BY <1>1, <2>1, <2>2 DEF Fits, Within, Num
    <3> QED BY <2>1, <3>1
  <2> QED BY <1>6, <2>1, <2>2
<1>9. Sound(o)
  <2> SUFFICES ASSUME NEW n \in Num, NEW k \in 1..L, k < x[n]
               PROVE  d.secs[k].table[n].type # "n"
    BY <1>3, <1>4, <1>6 DEF Sound
  <2>1. CASE k < d.index[n]
    BY <1>1, <2>1 DEF Fits, Sound
  <2>2. CASE ~(k < d.index[n])
    <3>1. x[n] = Find(d, 1, n)
      BY <1>1, <1>5, <2>2
    <3>2. Find(d, 1, n) # 1
      BY <1>1, <3>1
    <3>3. \A j \in d.index[n]..(Find(d, 1, n) - 1) : d.secs[j].table[n].type = "unset"
      BY <3>2, FindFacts
    <3>4. Find(d, 1, n) \in 1..L
      BY FindFacts
    <3>5. k \in d.index[n]..(Find(d, 1, n) - 1)
      BY <1>1, <2>2, <3>1, <3>4
    <3> QED BY <3>3, <3>5
  <2> QED BY <2>1, <2>2
<1>10. Fits(o)
  BY <1>7, <1>8, <1>9 DEF Fits
<1>11. ASSUME NEW n \in Num, InUse(d, n)
       PROVE  InUse(o, n) /\ Found(o, 1, n) = Found(d, 1, n)
  <2> DEFINE k == Find(d, 1, n)
  <2>1. k \in 1..L /\ n <= d.len /\ Found(d, 1, n) = d.secs[k].table[n]
        /\ d.secs[k].table[n].type = "n"
    BY <1>11, FindFacts, InUseFacts DEF InUse
  <2> HIDE DEF k
  <2>2. x[n] = k
    BY <1>5, <2>1 DEF k
  <2>3. o.secs[k].table[n] = d.secs[k].table[n] /\ o.index[n] = k /\ Len(o.secs) = L
    BY <1>3, <1>4, <1>6, <2>1, <2>2
  <2>4. k \in o.index[n]..Len(o.secs) /\ o.index[n]..(k - 1) = {}
    BY <1>1, <2>1, <2>3
  <2>5. Find(o, 1, n) = k
    BY <1>10, <2>1, <2>3, <2>4, FindIs
  <2> QED BY <2>1, <2>3, <2>5 DEF InUse, Found
<1> QED BY <1>3, <1>4, <1>6, <1>10, <1>11 DEF o

-----------------------------------------------------------------------------
(* Opening a file, and writing one *)

\* The sections of a file that can be opened: File without what a fresh file
\* has besides.
Sections(f) ==
    /\ f \in Seq(Section) /\ Len(f) >= 1
    /\ \A k \in 1..Len(f) : \A n \in Num : f[k].table[n].type # "unset" => n <= f[k].len

\* The first section where an object is in use, or 0.
LEMMA PrimeIs ==
  ASSUME NEW f, Sections(f), NEW n \in Num
  PROVE  /\ PrimeIndex(f)[n] \in 0..Len(f)
         /\ \A k \in 1..Len(f) : k < PrimeIndex(f)[n] => f[k].table[n].type # "n"
<1> DEFINE L == Len(f)
           T == {k \in DOMAIN f : f[k].table[n].type = "n"} \cup {L + 1}
           m == Min(T)
<1>1. L \in Nat \ {0} /\ DOMAIN f = 1..L
  BY DEF Sections
<1>2. T \in SUBSET Nat /\ T # {} /\ L + 1 \in T
      /\ \A k \in 1..L : f[k].table[n].type = "n" => k \in T
  BY <1>1
<1>3. PrimeIndex(f)[n] = m % (L + 1)
  BY DEF PrimeIndex
<1> HIDE DEF T
<1>4. m \in T /\ \A k \in T : m <= k
  BY <1>2, MinIs
<1> HIDE DEF m
<1>5. m \in Nat /\ m <= L + 1
  BY <1>2, <1>4
<1>6. CASE m = L + 1
  <2>1. (L + 1) % (L + 1) = 0
    BY <1>1
  <2> QED BY <1>1, <1>3, <1>6, <2>1
<1>7. CASE m # L + 1
  <2>1. m \in 0..L
    BY <1>1, <1>5, <1>7
  <2>2. m % (L + 1) = m
    BY <1>1, <2>1
  <2>3. ASSUME NEW k \in 1..L, k < m PROVE f[k].table[n].type # "n"
    <3>1. ~(m <= k)
      BY <1>5, <2>3
    <3>2. k \notin T
      BY <1>4, <3>1
    <3> QED BY <1>2, <3>2
  <2> QED BY <1>3, <2>1, <2>2, <2>3
<1> QED BY <1>6, <1>7

\* pdf_load_xref: an opened document fits.
LEMMA OpenOK ==
  ASSUME NEW f, Sections(f)
  PROVE  Fits(OpenDocument(f)) /\ OpenDocument(f).secs = f
<1> DEFINE L == Len(f)
           lens == {f[k].len : k \in DOMAIN f}
           x == [n \in Num |-> Later(PrimeIndex(f)[n], 1)]
           h == [n \in Num |-> [c \in Cells |-> None]]
           o == OpenDocument(f)
<1>1. L \in Nat \ {0} /\ DOMAIN f = 1..L /\ f \in Seq(Section)
  BY DEF Sections
<1>2. ASSUME NEW k \in 1..L PROVE f[k] \in Section /\ f[k].len \in 0..MaxNum
  <2>1. f[k] \in Section
    BY <1>1
  <2> QED BY <2>1 DEF Section
<1>3. lens \in SUBSET (0..MaxNum) /\ \A k \in 1..L : f[k].len \in lens
  BY <1>1, <1>2
<1>4. f[1].len \in lens
  BY <1>1, <1>3
<1> DEFINE top == Max(lens)
<1>5. o = [secs |-> f, inc |-> 0, index |-> x, len |-> top, heap |-> h, frozen |-> FALSE]
  BY DEF OpenDocument
<1> HIDE DEF lens
<1>6. top \in lens /\ \A v \in lens : v <= top
  <2>1. lens \in SUBSET Int /\ lens # {} /\ MaxNum \in Int /\ \A v \in lens : v <= MaxNum
    BY <1>3, <1>4, BoundsAssumption
  <2> QED BY <2>1, MaxIs
<1> HIDE DEF top
<1>7. /\ x \in [Num -> Nat]
      /\ \A n \in Num : x[n] \in 1..L /\ \A k \in 1..L : k < x[n] => f[k].table[n].type # "n"
  <2>1. ASSUME NEW n \in Num
        PROVE  /\ Later(PrimeIndex(f)[n], 1) \in 1..L
               /\ \A k \in 1..L : k < Later(PrimeIndex(f)[n], 1) => f[k].table[n].type # "n"
    <3>1. PICK p \in 0..L : p = PrimeIndex(f)[n]
      BY PrimeIs
    <3>2. \A k \in 1..L : k < p => f[k].table[n].type # "n"
      BY <3>1, PrimeIs
    <3>3. CASE p > 1
      <4>1. Later(p, 1) = p /\ p \in 1..L
        BY <1>1, <3>3 DEF Later
      <4> QED BY <3>1, <3>2, <4>1
    <3>4. CASE ~(p > 1)
      <4>1. Later(p, 1) = 1 /\ \A k \in 1..L : ~(k < 1)
        BY <1>1, <3>4 DEF Later
      <4> QED BY <1>1, <3>1, <4>1
    <3> QED BY <3>3, <3>4
  <2> QED BY <1>1, <2>1
<1>8. h \in Heap
  BY DEF Heap
<1> HIDE DEF x, h
<1>9. o \in Docs
  <2>1. top \in 0..MaxNum
    BY <1>3, <1>6
  <2> QED BY <1>1, <1>5, <1>7, <1>8, <2>1 DEF Docs
<1>10. /\ o.secs = f /\ o.inc = 0 /\ o.index = x /\ o.len = top
  BY <1>5
<1> HIDE DEF o
<1>11. Shape(o)
  BY <1>1, <1>7, <1>9, <1>10 DEF Shape
<1>12. Within(o)
  <2> SUFFICES ASSUME NEW k \in 1..L
               PROVE  /\ f[k].len <= top
                      /\ \A n \in Num : f[k].table[n].type # "unset" => n <= f[k].len
    BY <1>1, <1>10 DEF Within
  <2>1. f[k].len <= top
    BY <1>3, <1>6
  <2>2. \A n \in Num : f[k].table[n].type # "unset" => n <= f[k].len
    BY DEF Sections
  <2> QED BY <2>1, <2>2
<1>13. Sound(o)
  BY <1>1, <1>7, <1>10 DEF Sound
<1> QED BY <1>10, <1>11, <1>12, <1>13 DEF Fits, o

\* writexref: a section ends with the last object it defines.
LEMMA RevisionOK ==
  ASSUME NEW t \in [Num -> Entry]
  PROVE  /\ Revision(t) \in Section
         /\ \A n \in Num : Revision(t).table[n].type # "unset" => n <= Revision(t).len
<1> DEFINE T == {n \in Num : t[n].type # "unset"} \cup {0}
<1>1. MaxNum \in Nat /\ Num = 1..MaxNum
  BY BoundsAssumption DEF Num
<1>2. /\ T \in SUBSET (0..MaxNum) /\ 0 \in T
      /\ \A n \in Num : t[n].type # "unset" => n \in T
  BY <1>1
<1>3. Highest(t) = Max(T)
  BY DEF Highest
<1> HIDE DEF T
<1>4. Max(T) \in T /\ \A v \in T : v <= Max(T)
  <2>1. T \in SUBSET Int /\ T # {} /\ MaxNum \in Int /\ \A v \in T : v <= MaxNum
    BY <1>1, <1>2
  <2> QED BY <2>1, MaxIs
<1>5. Highest(t) \in 0..MaxNum /\ \A v \in T : v <= Highest(t)
  BY <1>2, <1>3, <1>4
<1>6. Revision(t) = [len |-> Highest(t), signed |-> FALSE, table |-> t]
  BY DEF Revision
<1>7. Revision(t) \in Section
  BY <1>5, <1>6 DEF Section
<1>8. Revision(t).table = t /\ Revision(t).len = Highest(t)
  BY <1>6
<1>9. \A n \in Num : t[n].type # "unset" => n <= Highest(t)
  BY <1>2, <1>5
<1> QED BY <1>7, <1>8, <1>9

\* What is read of an entry in use is a dictionary and a stream.
LEMMA ReadOK ==
  ASSUME NEW d, Fits(d), NEW n \in Num, NEW e \in Entry
  PROVE  /\ e.type # "n" => Read(d, n, e) = None
         /\ e.type = "n" => /\ Read(d, n, e) # None
                            /\ Read(d, n, e).dict \in Stamp \cup {None}
                            /\ Read(d, n, e).stm \in Stamp \cup {None}
<1> DEFINE dict == IF e.obj # None THEN d.heap[n][e.obj] ELSE e.ofs
           stm == IF e.buf # None THEN e.buf ELSE e.stm
<1>1. /\ e.obj \in Cells \cup {None} /\ e.ofs \in Stamp \cup {None}
      /\ e.stm \in Stamp \cup {None} /\ e.buf \in Stamp \cup {None}
  BY DEF Entry
<1>2. d.heap \in Heap
  BY DocFacts
<1>3. dict \in Stamp \cup {None} /\ stm \in Stamp \cup {None}
  BY <1>1, <1>2 DEF Heap
<1>4. Read(d, n, e) = IF e.type # "n" THEN None ELSE [dict |-> dict, stm |-> stm]
  BY DEF Read
<1> HIDE DEF dict, stm
<1>5. [dict |-> dict, stm |-> stm] # None
  BY <1>3, NoRecordAssumption
<1>6. [dict |-> dict, stm |-> stm].dict = dict /\ [dict |-> dict, stm |-> stm].stm = stm
  OBVIOUS
<1> QED BY <1>3, <1>4, <1>5, <1>6

\* What the save writes for such an object.
LEMMA InFileOK ==
  ASSUME NEW c, c.dict \in Stamp \cup {None}, c.stm \in Stamp \cup {None}
  PROVE  InFile(c) \in Entry
  BY DEF InFile, Unset, Entry

\* From a section of an increment on, an object is found in some section.
LEMMA FoundOK ==
  ASSUME NEW d, Fits(d), NEW b \in 1..Len(d.secs), NEW n \in Num
  PROVE  Find(d, b, n) \in 1..Len(d.secs) /\ Found(d, b, n) \in Entry
<1> DEFINE L == Len(d.secs)
           H == Holders(d, Later(d.index[n], b), n)
<1>1. L \in Nat \ {0} /\ d.index[n] \in 1..L
  BY DocFacts
<1>2. Later(d.index[n], b) \in 1..L
  BY <1>1 DEF Later
<1>3. H \in SUBSET (1..L)
  BY <1>1, <1>2 DEF Holders
<1>4. Find(d, b, n) \in 1..L
  <2>1. CASE H # {}
    <3>1. Find(d, b, n) = Min(H)
      BY <2>1 DEF Find
    <3>2. H \in SUBSET Nat
      BY <1>3
    <3> HIDE DEF H
    <3>3. Min(H) \in H
      BY <2>1, <3>2, MinIs
    <3> QED BY <1>3, <3>1, <3>3
  <2>2. CASE H = {}
    <3>1. Find(d, b, n) \in {b, 1}
      BY <2>2 DEF Find
    <3> QED BY <1>1, <3>1
  <2> QED BY <2>1, <2>2
<1> QED BY <1>4, DocFacts DEF Found

\* pdf_write_document and pdfapp_save: the saved file can be opened.
LEMMA WrittenOK ==
  ASSUME NEW d, Fits(d)
  PROVE  Sections(Written(d)) /\ Len(Written(d)) <= Len(d.secs)
<1> DEFINE L == Len(d.secs)
<1>1. L \in Nat \ {0} /\ DOMAIN d.secs = 1..L /\ d.inc \in Nat /\ d.inc < L
  BY DocFacts
<1>2. ASSUME NEW b \in 1..L, NEW n \in Num, Found(d, b, n).type = "n"
      PROVE  Content(d, b, n) # None /\ InFile(Content(d, b, n)) \in Entry
  <2>1. Found(d, b, n) \in Entry
    BY FoundOK
  <2>2. /\ Content(d, b, n) # None
        /\ Content(d, b, n).dict \in Stamp \cup {None}
        /\ Content(d, b, n).stm \in Stamp \cup {None}
    BY <1>2, <2>1, ReadOK DEF Content
  <2> QED BY <2>2, InFileOK
<1>3. CASE program = "full"
  <2> DEFINE t == [n \in Num |-> IF n > d.len THEN Unset
                            ELSE IF Content(d, 1, n) = None THEN Freed
                            ELSE InFile(Content(d, 1, n))]
  <2>1. t \in [Num -> Entry]
    <3>1. ASSUME NEW n \in Num, Content(d, 1, n) # None
          PROVE  InFile(Content(d, 1, n)) \in Entry
      <4>1. 1 \in 1..L
        BY <1>1
      <4>2. Found(d, 1, n) \in Entry
        BY InUseFacts
      <4>3. Found(d, 1, n).type = "n"
        BY <3>1, <4>2, ReadOK DEF Content
      <4> QED BY <1>2, <4>1, <4>3
    <3>2. Unset \in Entry /\ Freed \in Entry
      BY UnsetFacts
    <3> QED BY <3>1, <3>2
  <2>2. Written(d) = <<Revision(t)>>
    BY <1>3 DEF Written, Everything
  <2> HIDE DEF t
  <2>3. /\ Revision(t) \in Section
        /\ \A n \in Num : Revision(t).table[n].type # "unset" => n <= Revision(t).len
    BY <2>1, RevisionOK
  <2>4. /\ <<Revision(t)>> \in Seq(Section) /\ Len(<<Revision(t)>>) = 1
        /\ <<Revision(t)>>[1] = Revision(t)
    BY <2>3
  <2> QED BY <1>1, <2>2, <2>3, <2>4 DEF Sections
<1>4. CASE program # "full"
  <2> DEFINE w == [k \in DOMAIN d.secs |->
                       IF k <= d.inc THEN Increment(d, k) ELSE Original(d, k)]
  <2>1. ASSUME NEW k \in 1..L
        PROVE  /\ w[k] \in Section
               /\ \A n \in Num : w[k].table[n].type # "unset" => n <= w[k].len
    <3>1. CASE k <= d.inc
      <4> DEFINE t == [n \in Num |->
                          IF ~Defined(d, k, n) THEN Unset
                          ELSE IF Used(d, k, n) THEN InFile(Content(d, k, n)) ELSE Freed]
      <4>1. t \in [Num -> Entry]
        <5>1. ASSUME NEW n \in Num, Used(d, k, n) PROVE InFile(Content(d, k, n)) \in Entry
          <6>1. k \in k..d.inc
            BY <1>1, <3>1
          <6>2. Found(d, k, n).type = "n"
            BY <5>1, <6>1 DEF Used
          <6> QED BY <1>2, <6>2
        <5>2. Unset \in Entry /\ Freed \in Entry
          BY UnsetFacts
        <5> QED BY <5>1, <5>2
      <4>2. w[k] = Revision(t)
        BY <1>1, <3>1 DEF Increment
      <4> HIDE DEF t, w
      <4> QED BY <4>1, <4>2, RevisionOK
    <3>2. CASE ~(k <= d.inc)
      <4> DEFINE t == [n \in Num |-> [d.secs[k].table[n] EXCEPT !.obj = None, !.buf = None]]
      <4>1. t \in [Num -> Entry]
        <5>1. ASSUME NEW n \in Num
              PROVE  [d.secs[k].table[n] EXCEPT !.obj = None, !.buf = None] \in Entry
          <6>1. d.secs[k].table[n] \in Entry
            BY DocFacts
          <6> QED BY <6>1 DEF Entry
        <5> QED BY <5>1
      <4>2. w[k] = Revision(t)
        BY <1>1, <3>2 DEF Original
      <4> HIDE DEF t, w
      <4> QED BY <4>1, <4>2, RevisionOK
    <3> QED BY <3>1, <3>2
  <2>2. Written(d) = w /\ DOMAIN w = 1..L
    BY <1>1, <1>4 DEF Written
  <2>3. w = [k \in 1..L |-> w[k]]
    BY <2>2
  <2> HIDE DEF w, L
  <2>4. w \in Seq(Section) /\ Len(w) = L
    <3>1. \A k \in 1..L : w[k] \in Section
      BY <2>1
    <3>2. L \in Nat
      BY <1>1
    <3> QED BY <2>2, <2>3, <3>1, <3>2
  <2>5. Sections(w)
    BY <1>1, <2>1, <2>4 DEF Sections
  <2> QED BY <1>1, <2>2, <2>4, <2>5 DEF L
<1> QED BY <1>3, <1>4

-----------------------------------------------------------------------------
(* The invariant *)

Points(d, h) == h # None => InUse(d, h.num) /\ ObjectOf(d, h.num) = h.cell

TypesOK == /\ held \in [num : Num, cell : Cells] \cup {None}
           /\ edits \in Stamp
           /\ program \in {"incremental", "full"}
           /\ stopped \in BOOLEAN

IInv == /\ TypesOK
        /\ Fits(doc) /\ Len(doc.secs) <= MaxSections
        /\ Points(doc, held)

\* The invariant after a step, but for the edit that it counts.
Good(d, h) == /\ Fits(d) /\ Len(d.secs) <= MaxSections
              /\ h \in [num : Num, cell : Cells] \cup {None}
              /\ Points(d, h)

\* Live is what is in use.
LEMMA LiveIs ==
  ASSUME Fits(doc), NEW n \in Num
  PROVE  Live(n) <=> InUse(doc, n)
<1>1. Found(doc, 1, n) \in Entry
  BY InUseFacts
<1>2. Content(doc, 1, n) # None <=> InUse(doc, n)
  BY <1>1, ReadOK DEF Content, InUse
<1>3. InUse(doc, n) => n <= doc.len
  BY InUseFacts
<1> QED BY <1>2, <1>3 DEF Live

\* A pointer to another object than the one that a call is about.
LEMMA OtherHeld ==
  ASSUME NEW d, NEW o, NEW n, NEW h \in [num : Num, cell : Cells] \cup {None}, Points(d, h),
         \A m \in Num : m # n => Keeps(d, o, m),
         h # None /\ h.num = n => InUse(o, n) /\ ObjectOf(o, n) = h.cell
  PROVE  Points(o, h)
<1> SUFFICES ASSUME h # None PROVE InUse(o, h.num) /\ ObjectOf(o, h.num) = h.cell
  BY DEF Points
<1>1. h.num \in Num
  OBVIOUS
<1>2. CASE h.num = n
  BY <1>2
<1>3. CASE h.num # n
  BY <1>1, <1>3 DEF Points, Keeps, ObjectOf, InUse
<1> QED BY <1>2, <1>3

\* Freeing memory changes nothing that a pointer is about.
LEMMA CollectGood ==
  ASSUME NEW d, Fits(d), NEW g, NEW h, Points(d, h)
  PROVE  LET o == Collect(d, g) IN Fits(o) /\ Len(o.secs) = Len(d.secs) /\ Points(o, h)
<1> DEFINE o == Collect(d, g)
<1>1. Fits(o) /\ o.secs = d.secs /\ \A m : Found(o, 1, m) = Found(d, 1, m)
  BY CollectOK
<1> HIDE DEF o
<1>2. Points(o, h)
  BY <1>1 DEF Points, InUse, ObjectOf
<1> QED BY <1>1, <1>2 DEF o

\* The bound on memory leaves room for two objects.
LEMMA RoomIs ==
  ASSUME Room, NEW n \in Num
  PROVE  Spare(doc, n) /\ Unused(doc, n) # {}
<1>1. Spare(doc, n)
  BY DEF Room, Spare
<1>2. Unused(doc, n) \ {None} # {}
  BY <1>1 DEF Spare
<1> QED BY <1>1, <1>2

\* The edits that are allowed are counted.
LEMMA EditIs ==
  ASSUME TypesOK, NEW d, Edit(d)
  PROVE  /\ Room /\ edits + 1 \in Stamp /\ edits' \in Stamp
         /\ Len(d.secs) <= MaxSections
         /\ program' \in {"incremental", "full"} /\ stopped' \in BOOLEAN
  BY BoundsAssumption DEF TypesOK, Edit, Stamp

\* A caller gets a pointer to the object that others read.
LEMMA HoldStep ==
  ASSUME IInv, NEW n \in Num, Hold(n)
  PROVE  Good(doc', held')
<1>1. InUse(doc, n) /\ Unused(doc, n) # {}
  BY LiveIs, RoomIs DEF Hold, IInv
<1>2. /\ Fits(doc') /\ InUse(doc', n) /\ ObjectOf(doc', n) \in Cells
      /\ Len(doc'.secs) = Len(doc.secs)
  BY <1>1, CacheObjectOK DEF Hold, IInv
<1>3. held' = [num |-> n, cell |-> ObjectOf(doc', n)]
  BY DEF Hold
<1>4. Points(doc', held')
  BY <1>2, <1>3 DEF Points
<1> QED BY <1>2, <1>3, <1>4 DEF Good, IInv

\* The caller lets go of it.
LEMMA ReleaseStep ==
  ASSUME IInv, Release
  PROVE  Good(doc', held')
<1>1. held' = None /\ doc' = Collect(doc, None)
  BY DEF Release
<1>2. Points(doc, None)
  BY DEF Points
<1>3. Fits(doc') /\ Len(doc'.secs) = Len(doc.secs) /\ Points(doc', None)
  BY <1>1, <1>2, CollectGood DEF IInv
<1> QED BY <1>1, <1>3 DEF Good, IInv

\* Drawing reads an object and drops what it read.
LEMMA RenderStep ==
  ASSUME IInv, NEW n \in Num, Render(n)
  PROVE  Good(doc', held')
<1> DEFINE d == CacheObject(doc, n)
<1>1. InUse(doc, n) /\ Unused(doc, n) # {} /\ Fits(doc)
  BY LiveIs, RoomIs DEF Render, IInv
<1>2. /\ Fits(d) /\ InUse(d, n)
      /\ ObjectOf(doc, n) # None => ObjectOf(d, n) = ObjectOf(doc, n)
      /\ Len(d.secs) = Len(doc.secs)
      /\ \A m \in Num : m # n => Keeps(doc, d, m)
  BY <1>1, CacheObjectOK
<1>3. doc' = ClearToMark(d, Loaded(doc)) /\ held' = held
  BY DEF Render
<1> HIDE DEF d
<1>4. /\ Fits(doc') /\ Len(doc'.secs) = Len(d.secs)
      /\ \A m \in Num : InUse(d, m) /\ held = [num |-> m, cell |-> ObjectOf(d, m)]
               => InUse(doc', m) /\ ObjectOf(doc', m) = ObjectOf(d, m)
  BY <1>2, <1>3, ClearOK
<1>5. held \in [num : Num, cell : Cells] \cup {None} /\ Points(doc, held) /\ None \notin Cells
  BY BoundsAssumption DEF IInv, TypesOK
<1>6. Points(d, held)
  <2>1. held # None /\ held.num = n => InUse(d, n) /\ ObjectOf(d, n) = held.cell
    <3> SUFFICES ASSUME held # None, held.num = n PROVE InUse(d, n) /\ ObjectOf(d, n) = held.cell
      OBVIOUS
    <3>1. ObjectOf(doc, n) = held.cell /\ held.cell \in Cells
      BY <1>5 DEF Points
    <3> QED BY <1>2, <1>5, <3>1
  <2> QED BY <1>2, <1>5, <2>1, OtherHeld
<1>7. Points(doc', held)
  <2> SUFFICES ASSUME held # None
               PROVE  InUse(doc', held.num) /\ ObjectOf(doc', held.num) = held.cell
    BY DEF Points
  <2>1. held.num \in Num /\ held = [num |-> held.num, cell |-> held.cell]
    BY <1>5
  <2>2. InUse(d, held.num) /\ ObjectOf(d, held.num) = held.cell
    BY <1>6 DEF Points
  <2> QED BY <1>4, <2>1, <2>2
<1> QED BY <1>2, <1>3, <1>4, <1>5, <1>7 DEF Good, IInv

\* What the calls that alter one object and keep pointers to it have in
\* common: o is the document before memory is freed.
LEMMA Altered ==
  ASSUME IInv, NEW n \in Num, NEW o, Fits(o), InUse(o, n),
         ObjectOf(doc, n) # None => ObjectOf(o, n) = ObjectOf(doc, n),
         \A m \in Num : m # n => Keeps(doc, o, m),
         doc' = Collect(o, held), held' = held, Len(doc'.secs) <= MaxSections
  PROVE  Good(doc', held')
<1>1. held \in [num : Num, cell : Cells] \cup {None} /\ Points(doc, held) /\ None \notin Cells
  BY BoundsAssumption DEF IInv, TypesOK
<1>2. Points(o, held)
  <2>1. held # None /\ held.num = n => InUse(o, n) /\ ObjectOf(o, n) = held.cell
    <3> SUFFICES ASSUME held # None, held.num = n PROVE InUse(o, n) /\ ObjectOf(o, n) = held.cell
      OBVIOUS
    <3>1. ObjectOf(doc, n) = held.cell /\ held.cell \in Cells
      BY <1>1 DEF Points
    <3> QED BY <1>1, <3>1
  <2> QED BY <1>1, <2>1, OtherHeld
<1>3. Fits(doc') /\ Points(doc', held)
  BY <1>2, CollectGood
<1> QED BY <1>1, <1>3 DEF Good

\* A change of a dictionary.
LEMMA AlterDictStep ==
  ASSUME IInv, NEW n \in Num, AlterDict(n)
  PROVE  Good(doc', held')
<1>1. Edit(doc') /\ Live(n) /\ doc' = Collect(AlterObject(doc, n), held) /\ held' = held
  BY DEF AlterDict
<1>2. Room /\ edits + 1 \in Stamp /\ Len(doc'.secs) <= MaxSections
  BY <1>1, EditIs DEF IInv
<1>3. InUse(doc, n) /\ Fits(doc) /\ Spare(doc, n)
  BY <1>1, <1>2, LiveIs, RoomIs DEF IInv
<1> DEFINE o == AlterObject(doc, n)
<1>4. /\ Fits(o) /\ InUse(o, n)
      /\ ObjectOf(doc, n) # None => ObjectOf(o, n) = ObjectOf(doc, n)
      /\ \A m \in Num : m # n => Keeps(doc, o, m)
  BY <1>2, <1>3, AlterObjectOK
<1>5. doc' = Collect(o, held)
  BY <1>1
<1> HIDE DEF o
<1> QED BY <1>1, <1>2, <1>4, <1>5, Altered

\* A change through the pointer that is kept.
LEMMA AlterHeldStep ==
  ASSUME IInv, AlterHeld
  PROVE  Good(doc', held')
<1> DEFINE n == held.num
           o == Alter(doc, n, held.cell)
<1>1. Edit(doc') /\ held # None /\ doc' = Collect(o, held) /\ held' = held
  BY DEF AlterHeld
<1>2. Room /\ edits + 1 \in Stamp /\ Len(doc'.secs) <= MaxSections
  BY <1>1, EditIs DEF IInv
<1>3. n \in Num /\ held.cell \in Cells /\ InUse(doc, n) /\ Fits(doc)
  BY <1>1 DEF IInv, TypesOK, Points
<1>4. Unused(doc, n) # {}
  BY <1>2, <1>3, RoomIs
<1>5. /\ Fits(o) /\ InUse(o, n) /\ ObjectOf(o, n) = ObjectOf(doc, n)
      /\ \A m \in Num : m # n => Keeps(doc, o, m)
  BY <1>2, <1>3, <1>4, AlterOK
<1> HIDE DEF o, n
<1> QED BY <1>1, <1>2, <1>3, <1>5, Altered

\* A stream that is replaced, with the change of its dictionary.
LEMMA UpdateStreamStep ==
  ASSUME IInv, NEW n \in Num, UpdateStream(n)
  PROVE  Good(doc', held')
<1> DEFINE d == CacheObject(doc, n)
           k == Find(d, 1, n)
           e == [d.secs[k].table[n] EXCEPT !.buf = edits + 1]
           p == Put(d, k, n, e)
           o == AlterObject(p, n)
<1>1. Edit(doc') /\ Live(n) /\ held' = held
  BY DEF UpdateStream
<1>2. Room /\ edits + 1 \in Stamp /\ Len(doc'.secs) <= MaxSections
  BY <1>1, EditIs DEF IInv
<1>3. InUse(doc, n) /\ Fits(doc) /\ Spare(doc, n) /\ Unused(doc, n) # {}
  BY <1>1, <1>2, LiveIs, RoomIs DEF IInv
<1>4. /\ Fits(d) /\ InUse(d, n) /\ ObjectOf(d, n) \in Cells
      /\ ObjectOf(doc, n) # None => ObjectOf(d, n) = ObjectOf(doc, n)
      /\ \E c \in Cells \cup {None} : Unused(doc, n) \ {c} \subseteq Unused(d, n)
      /\ \A m \in Num : m # n => Keeps(doc, d, m)
  BY <1>3, CacheObjectOK
<1>5. Unused(d, n) # {}
  BY <1>3, <1>4 DEF Spare
<1>6. Fits(d)
  BY <1>4
<1>7. doc' = Collect(AlterObject([d EXCEPT !.secs[k].table[n].buf = edits + 1], n), held)
  BY DEF UpdateStream
<1> HIDE DEF d
<1>8. /\ d \in Docs /\ k \in 1..Len(d.secs) /\ d.secs[k] \in Section
      /\ d.secs[k].table[n] \in Entry /\ d.secs[k].table[n] = Found(d, 1, n)
      /\ n <= d.secs[k].len /\ k \in d.index[n]..Len(d.secs)
      /\ d.secs[k].table \in [Num -> Entry] /\ DOMAIN d.secs = 1..Len(d.secs)
  BY <1>4, <1>6, DocFacts, FindFacts, InUseFacts
<1>9. [d EXCEPT !.secs[k].table[n].buf = edits + 1] = p
  BY DEF Put
<1>10. e \in Entry /\ e.type = "n" /\ e.obj = ObjectOf(d, n)
  <2>1. d.secs[k].table[n].type = "n" /\ d.secs[k].table[n].obj = ObjectOf(d, n)
    BY <1>4, <1>8 DEF InUse, ObjectOf
  <2> QED BY <1>2, <1>8, <2>1 DEF Entry
<1> HIDE DEF k, e
<1>11. /\ Fits(p) /\ p.heap = d.heap /\ p.index = d.index /\ Len(p.secs) = Len(d.secs)
       /\ \A j \in 1..Len(d.secs) : \A m \in Num : p.secs[j].table[m] =
                     IF j = k /\ m = n THEN e ELSE d.secs[j].table[m]
       /\ \A m \in Num : m # n => Keeps(d, p, m)
  <2>1. /\ e.type # "unset" => n <= d.secs[k].len
        /\ e.type = "n" => d.index[n] <= k
    BY <1>8
  <2> QED BY <1>6, <1>8, <1>10, <2>1, PutOK
<1> HIDE DEF p
<1>12. Find(p, 1, n) = k
  <2>1. \A j \in 1..Len(d.secs) : p.secs[j].table[n].type = d.secs[j].table[n].type
    <3> SUFFICES ASSUME NEW j \in 1..Len(d.secs)
                 PROVE  p.secs[j].table[n].type = d.secs[j].table[n].type
      OBVIOUS
    <3>1. CASE j = k
      <4>1. p.secs[j].table[n] = e
        BY <1>11, <3>1
      <4>2. d.secs[j].table[n].type = "n"
        BY <1>4, <1>8, <3>1 DEF InUse
      <4> QED BY <1>10, <4>1, <4>2
    <3>2. CASE j # k
      BY <1>11, <3>2
    <3> QED BY <3>1, <3>2
  <2>2. Len(p.secs) = Len(d.secs) /\ p.index[n] = d.index[n] /\ Fits(p) /\ InUse(d, n)
    BY <1>4, <1>11
  <2> QED BY <1>6, <2>1, <2>2, FindAlike DEF k
<1>13. InUse(p, n) /\ ObjectOf(p, n) = ObjectOf(d, n) /\ Unused(p, n) # {}
  <2>1. Found(p, 1, n) = e
    BY <1>8, <1>11, <1>12 DEF Found
  <2>2. Unused(p, n) = Unused(d, n)
    BY <1>11 DEF Unused
  <2> QED BY <1>5, <1>10, <2>1, <2>2 DEF InUse, ObjectOf
<1>14. /\ Fits(o) /\ InUse(o, n) /\ ObjectOf(o, n) = ObjectOf(d, n)
       /\ \A m \in Num : m # n => Keeps(p, o, m)
  <2>1. Fits(p) /\ ObjectOf(p, n) # None
    BY <1>4, <1>11, <1>13, BoundsAssumption
  <2> QED BY <1>2, <1>13, <2>1, AlterObjectOK
<1>15. doc' = Collect(o, held)
  BY <1>7, <1>9
<1> HIDE DEF o
<1>16. \A m \in Num : m # n => Keeps(doc, o, m)
  BY <1>4, <1>11, <1>14, KeepsTwice
<1>17. ObjectOf(doc, n) # None => ObjectOf(o, n) = ObjectOf(doc, n)
  BY <1>4, <1>14
<1> QED BY <1>1, <1>2, <1>14, <1>15, <1>16, <1>17, Altered

\* What the calls that leave no pointer to the object they change have in
\* common.
LEMMA Replaced ==
  ASSUME IInv, NEW n \in Num, NEW o, Fits(o),
         \A m \in Num : m # n => Keeps(doc, o, m),
         NEW h \in {held, None}, h = None \/ h.num # n,
         doc' = Collect(o, h), held' = h, Len(doc'.secs) <= MaxSections
  PROVE  Good(doc', held')
<1>1. h \in [num : Num, cell : Cells] \cup {None} /\ Points(doc, h)
  BY DEF IInv, TypesOK, Points
<1>2. Points(o, h)
  <2>1. h # None /\ h.num = n => InUse(o, n) /\ ObjectOf(o, n) = h.cell
    OBVIOUS
  <2> QED BY <1>1, <2>1, OtherHeld
<1>3. Fits(doc') /\ Points(doc', h)
  BY <1>2, CollectGood
<1> QED BY <1>1, <1>3 DEF Good

\* The object is written anew.
LEMMA ReplaceStep ==
  ASSUME IInv, NEW n \in Num, ReplaceObject(n)
  PROVE  Good(doc', held')
<1> DEFINE o == UpdateObject(doc, n)
           h == Forget(n)
<1>1. Edit(doc') /\ held' = h /\ doc' = Collect(o, h)
  BY DEF ReplaceObject
<1>2. Room /\ edits + 1 \in Stamp /\ Len(doc'.secs) <= MaxSections
  BY <1>1, EditIs DEF IInv
<1>3. Fits(doc) /\ Unused(doc, n) # {}
  BY <1>2, RoomIs DEF IInv
<1>4. Fits(o) /\ \A m \in Num : m # n => Keeps(doc, o, m)
  BY <1>2, <1>3, UpdateObjectOK
<1>5. h \in {held, None} /\ (h = None \/ h.num # n)
  BY DEF Forget
<1> HIDE DEF o, h
<1> QED BY <1>1, <1>2, <1>4, <1>5, Replaced

\* The object is freed.
LEMMA DeleteStep ==
  ASSUME IInv, NEW n \in Num, DeleteObject(n)
  PROVE  Good(doc', held')
<1> DEFINE o == Put(IncrementalEntry(doc, n), 1, n, Freed)
           h == Forget(n)
<1>1. Edit(doc') /\ held' = h /\ doc' = Collect(o, h)
  BY DEF DeleteObject
<1>2. Len(doc'.secs) <= MaxSections
  BY <1>1, EditIs DEF IInv
<1>3. Fits(o) /\ \A m \in Num : m # n => Keeps(doc, o, m)
  BY FreeOK DEF IInv
<1>4. h \in {held, None} /\ (h = None \/ h.num # n)
  BY DEF Forget
<1> HIDE DEF o, h
<1> QED BY <1>1, <1>2, <1>3, <1>4, Replaced

\* pdf_create_object: one object more, and all others as they were.
LEMMA CreateObjectOK ==
  ASSUME NEW d, Fits(d), d.len < MaxNum
  PROVE  LET o == CreateObject(d) IN
         /\ d.len + 1 \in Num /\ Fits(o) /\ d.len + 1 <= o.len
         /\ \A m \in Num : Unused(o, m) = Unused(d, m)
         /\ \A m \in Num : m # d.len + 1 => Keeps(d, o, m)
<1>1. d.len + 1 \in Num
  BY DocFacts, BoundsAssumption DEF Num
<1> QED BY <1>1, FreeOK DEF CreateObject

\* No pointer is to an object beyond the end.
LEMMA HeldWithin ==
  ASSUME IInv, held # None
  PROVE  held.num \in Num /\ held.num # doc.len + 1
<1>1. held.num \in Num /\ InUse(doc, held.num) /\ Fits(doc)
  BY DEF IInv, TypesOK, Points
<1>2. held.num <= doc.len
  BY <1>1, InUseFacts
<1>3. held.num \in Int /\ doc.len \in Int
  BY <1>1, DocFacts DEF Num
<1> QED BY <1>1, <1>2, <1>3

\* A new object.
LEMMA NewObjectStep ==
  ASSUME IInv, NewObject
  PROVE  Good(doc', held')
<1> DEFINE n == doc.len + 1
           d == CreateObject(doc)
           o == UpdateObject(d, n)
<1>1. Edit(doc') /\ doc.len < MaxNum /\ held' = held /\ doc' = o
  BY DEF NewObject
<1>2. Room /\ edits + 1 \in Stamp /\ Len(doc'.secs) <= MaxSections
  BY <1>1, EditIs DEF IInv
<1>3. /\ n \in Num /\ Fits(d)
      /\ \A m \in Num : Unused(d, m) = Unused(doc, m)
      /\ \A m \in Num : m # n => Keeps(doc, d, m)
  BY <1>1, CreateObjectOK DEF IInv
<1>4. held = None \/ held.num # n
  BY HeldWithin
<1> HIDE DEF n, d
<1>5. Unused(d, n) # {}
  BY <1>2, <1>3, RoomIs
<1>6. Fits(o) /\ \A m \in Num : m # n => Keeps(d, o, m)
  BY <1>2, <1>3, <1>5, UpdateObjectOK
<1> HIDE DEF o
<1>7. \A m \in Num : m # n => Keeps(doc, o, m)
  BY <1>3, <1>6, KeepsTwice
<1>8. held \in [num : Num, cell : Cells] \cup {None} /\ Points(doc, held)
  BY DEF IInv, TypesOK
<1>9. Points(o, held)
  <2>1. held # None /\ held.num = n => InUse(o, n) /\ ObjectOf(o, n) = held.cell
    BY <1>4
  <2> QED BY <1>7, <1>8, <2>1, OtherHeld
<1> QED BY <1>1, <1>2, <1>6, <1>8, <1>9 DEF Good

\* Marking the newest increment as signed changes no object.
LEMMA MarkOK ==
  ASSUME NEW d, Fits(d)
  PROVE  LET o == [d EXCEPT !.secs[1].signed = TRUE] IN
         Fits(o) /\ \A m \in Num : Keeps(d, o, m)
<1> DEFINE L == Len(d.secs)
           s == [d.secs[1] EXCEPT !.signed = TRUE]
           z == [d.secs EXCEPT ![1] = s]
           o == [d EXCEPT !.secs[1].signed = TRUE]
<1>1. L \in Nat \ {0} /\ 1 \in 1..L
  <2>1. L \in Nat \ {0}
    BY DocFacts
  <2> QED BY <2>1
<1>2. d \in Docs /\ d.secs \in Seq(Section) /\ d.secs[1] \in Section /\ DOMAIN d.secs = 1..L
  BY <1>1, DocFacts
<1>3. s \in Section /\ s.len = d.secs[1].len /\ s.table = d.secs[1].table
  BY <1>2 DEF Section
<1>4. o = [d EXCEPT !.secs = z]
  OBVIOUS
<1> HIDE DEF s, o
<1>5. /\ z \in Seq(Section) /\ Len(z) = L /\ DOMAIN z = 1..L
      /\ \A k \in 1..L : z[k].len = d.secs[k].len /\ z[k].table = d.secs[k].table
  BY <1>1, <1>2, <1>3
<1> HIDE DEF z
<1>6. /\ o \in Docs /\ o.secs = z /\ o.len = d.len /\ o.inc = d.inc /\ o.index = d.index
  BY <1>2, <1>4, <1>5 DEF Docs
<1>7. Shape(o)
  BY <1>5, <1>6 DEF Fits, Shape
<1>8. Within(o)
  BY <1>2, <1>5, <1>6 DEF Fits, Within
<1>9. Sound(o)
  BY <1>2, <1>5, <1>6 DEF Fits, Sound
<1>10. Fits(o)
  BY <1>7, <1>8, <1>9 DEF Fits
<1>11. ASSUME NEW m \in Num PROVE Keeps(d, o, m)
  <2>1. \A k \in 1..L : o.secs[k + 0].table[m] = d.secs[k].table[m]
    <3> SUFFICES ASSUME NEW k \in 1..L PROVE o.secs[k + 0].table[m] = d.secs[k].table[m]
      OBVIOUS
    <3>1. k + 0 = k
      OBVIOUS
    <3> QED BY <1>5, <1>6, <3>1
  <2>2. Len(o.secs) = L + 0 /\ o.index[m] = d.index[m] + 0
    BY <1>1, <1>5, <1>6, DocFacts
  <2> QED BY <1>10, <2>1, <2>2, KeepsWhen
<1> QED BY <1>10, <1>11 DEF o

\* A signature: the value object, the field, and the mark.
LEMMA SignStep ==
  ASSUME IInv, NEW f \in Num, SignField(f)
  PROVE  Good(doc', held')
<1> DEFINE n == doc.len + 1
           d == CreateObject(doc)
           p == AlterObject(d, f)
           q == UpdateObject(p, n)
           r == [q EXCEPT !.secs[1].signed = TRUE]
<1>1. Edit(doc') /\ Live(f) /\ doc.len < MaxNum /\ held' = held /\ doc' = Collect(r, held)
  BY DEF SignField
<1>2. Room /\ edits + 1 \in Stamp /\ Len(doc'.secs) <= MaxSections
  BY <1>1, EditIs DEF IInv
<1>3. /\ n \in Num /\ Fits(d)
      /\ \A m \in Num : Unused(d, m) = Unused(doc, m)
      /\ \A m \in Num : m # n => Keeps(doc, d, m)
  BY <1>1, CreateObjectOK DEF IInv
<1>4. held = None \/ held.num # n
  BY HeldWithin
<1>5. InUse(doc, f) /\ f # n /\ Fits(doc) /\ Spare(doc, f)
  <2>1. InUse(doc, f) /\ Fits(doc) /\ f \in Int /\ doc.len \in Int /\ f <= doc.len
    BY <1>1, LiveIs, InUseFacts, DocFacts DEF IInv, Num
  <2> QED BY <1>2, <2>1, RoomIs
<1> HIDE DEF n, d
<1>6. InUse(d, f) /\ ObjectOf(d, f) = ObjectOf(doc, f) /\ Spare(d, f)
  <2>1. Keeps(doc, d, f)
    BY <1>3, <1>5
  <2>2. Spare(d, f)
    BY <1>3, <1>5 DEF Spare
  <2> QED BY <1>5, <2>1, <2>2 DEF Keeps, ObjectOf, InUse
<1>7. /\ Fits(p) /\ InUse(p, f)
      /\ ObjectOf(d, f) # None => ObjectOf(p, f) = ObjectOf(d, f)
      /\ \A m \in Num : m # f => Unused(p, m) = Unused(d, m)
      /\ \A m \in Num : m # f => Keeps(d, p, m)
  BY <1>2, <1>3, <1>6, AlterObjectOK
<1> HIDE DEF p
<1>8. Unused(p, n) # {}
  <2>1. Unused(p, n) = Unused(doc, n)
    BY <1>3, <1>5, <1>7
  <2> QED BY <1>2, <1>3, <2>1, RoomIs
<1>9. Fits(q) /\ \A m \in Num : m # n => Keeps(p, q, m)
  BY <1>2, <1>3, <1>7, <1>8, UpdateObjectOK
<1> HIDE DEF q
<1>10. Fits(r) /\ \A m \in Num : Keeps(q, r, m)
  BY <1>9, MarkOK
<1>11. InUse(r, f) /\ ObjectOf(r, f) = ObjectOf(p, f)
  <2>1. Keeps(p, q, f) /\ Keeps(q, r, f)
    BY <1>5, <1>9, <1>10
  <2> QED BY <1>7, <2>1 DEF Keeps, InUse, ObjectOf
<1> HIDE DEF r
<1>12. \A m \in Num : m # n /\ m # f => Keeps(doc, r, m)
  BY <1>3, <1>7, <1>9, <1>10, KeepsTwice
<1>13. held \in [num : Num, cell : Cells] \cup {None} /\ Points(doc, held) /\ None \notin Cells
  BY BoundsAssumption DEF IInv, TypesOK
<1>14. Points(r, held)
  <2> SUFFICES ASSUME held # None PROVE InUse(r, held.num) /\ ObjectOf(r, held.num) = held.cell
    BY DEF Points
  <2>1. held.num \in Num /\ held.cell \in Cells /\ held.num # n
        /\ InUse(doc, held.num) /\ ObjectOf(doc, held.num) = held.cell
    BY <1>4, <1>13 DEF Points
  <2>2. CASE held.num = f
    BY <1>6, <1>7, <1>11, <1>13, <2>1, <2>2
  <2>3. CASE held.num # f
    BY <1>12, <2>1, <2>3 DEF Keeps, InUse, ObjectOf
  <2> QED BY <2>2, <2>3
<1>15. Fits(doc') /\ Points(doc', held)
  BY <1>1, <1>10, <1>14, CollectGood
<1> QED BY <1>1, <1>2, <1>13, <1>15 DEF Good

\* A save that stops early leaves everything but the flag.
LEMMA StopStep ==
  ASSUME IInv, SaveStops
  PROVE  Good(doc', held')
<1>1. doc' = [doc EXCEPT !.frozen = TRUE] /\ held' = held
  BY DEF SaveStops
<1>2. doc \in Docs
  BY DocFacts DEF IInv
<1>3. /\ doc' \in Docs /\ doc'.secs = doc.secs /\ doc'.index = doc.index
      /\ doc'.len = doc.len /\ doc'.inc = doc.inc
  BY <1>1, <1>2 DEF Docs
<1>4. Fits(doc')
  BY <1>3 DEF IInv, Fits, Shape, Within, Sound
<1>5. \A m : Found(doc', 1, m) = Found(doc, 1, m)
  BY <1>3, FindSame
<1>6. Points(doc', held)
  BY <1>5 DEF IInv, Points, InUse, ObjectOf
<1> QED BY <1>1, <1>3, <1>4, <1>6 DEF Good, IInv, TypesOK

\* A save of a copy.
LEMMA SaveCopyStep ==
  ASSUME IInv, SaveCopy
  PROVE  Good(doc', held')
<1>1. doc' = Saved(doc) /\ held' = held /\ Fits(doc)
  BY DEF SaveCopy, IInv
<1>2. /\ Fits(doc') /\ Len(doc'.secs) = Len(doc.secs)
      /\ \A n \in Num : InUse(doc, n) => InUse(doc', n) /\ Found(doc', 1, n) = Found(doc, 1, n)
  BY <1>1, SavedOK
<1>3. Points(doc', held)
  BY <1>2 DEF IInv, TypesOK, Points, ObjectOf
<1> QED BY <1>1, <1>2, <1>3 DEF Good, IInv, TypesOK

\* A save in place, with the file opened again.
LEMMA ReopenStep ==
  ASSUME IInv, SaveAndReopen
  PROVE  Good(doc', held')
<1>1. doc' = OpenDocument(Written(doc)) /\ held' = None /\ Fits(doc)
  BY DEF SaveAndReopen, IInv
<1>2. Sections(Written(doc)) /\ Len(Written(doc)) <= Len(doc.secs)
  BY <1>1, WrittenOK
<1>3. Fits(doc') /\ doc'.secs = Written(doc)
  BY <1>1, <1>2, OpenOK
<1>4. Len(doc'.secs) \in Int /\ Len(doc.secs) \in Int /\ Len(doc'.secs) <= MaxSections
  BY <1>1, <1>2, <1>3, DocFacts, BoundsAssumption DEF IInv
<1> QED BY <1>1, <1>3, <1>4 DEF Good, Points

\* Every file to open is one.
LEMMA InitInv == Init => IInv
<1> SUFFICES ASSUME Init PROVE IInv
  OBVIOUS
<1>1. PICK s \in Starts : doc = OpenDocument(s.file) /\ program = s.program
  BY DEF Init
<1>2. File(s.file) /\ s.program \in {"incremental", "full"}
  BY StartsAssumption
<1>3. Sections(s.file) /\ Len(s.file) <= MaxSections
  BY <1>2 DEF File, Sections
<1>4. Fits(doc) /\ doc.secs = s.file
  BY <1>1, <1>3, OpenOK
<1>5. TypesOK
  BY <1>1, <1>2, BoundsAssumption DEF Init, TypesOK, Stamp
<1> QED BY <1>3, <1>4, <1>5 DEF Init, IInv, Points

\* Every step keeps the types of the variables but the document.
LEMMA TypesStep ==
  ASSUME IInv, Next
  PROVE  edits' \in Stamp /\ program' \in {"incremental", "full"} /\ stopped' \in BOOLEAN
<1>1. TypesOK
  BY DEF IInv
<1>2. ASSUME UNCHANGED <<edits, program>>, stopped' \in {stopped, TRUE, FALSE}
      PROVE  edits' \in Stamp /\ program' \in {"incremental", "full"} /\ stopped' \in BOOLEAN
  BY <1>1, <1>2 DEF TypesOK
<1>3. CASE Edit(doc')
  BY <1>1, <1>3, EditIs
<1>4. CASE ~Edit(doc')
  BY <1>2, <1>4 DEF Next, Hold, Render, AlterDict, UpdateStream, ReplaceObject, DeleteObject,
     SignField, Release, AlterHeld, NewObject, SaveStops, SaveCopy, SaveAndReopen
<1> QED BY <1>3, <1>4

\* Every call keeps the invariant.
LEMMA StepInv == IInv /\ [Next]_vars => IInv'
<1> SUFFICES ASSUME IInv, [Next]_vars PROVE IInv'
  OBVIOUS
<1>1. CASE Next
  <2> SUFFICES Good(doc', held')
    BY <1>1, TypesStep DEF Good, IInv, TypesOK
  <2>1. ASSUME NEW n \in Num, Hold(n) PROVE Good(doc', held')
    BY <2>1, HoldStep
  <2>2. ASSUME NEW n \in Num, Render(n) PROVE Good(doc', held')
    BY <2>2, RenderStep
  <2>3. ASSUME NEW n \in Num, AlterDict(n) PROVE Good(doc', held')
    BY <2>3, AlterDictStep
  <2>4. ASSUME NEW n \in Num, UpdateStream(n) PROVE Good(doc', held')
    BY <2>4, UpdateStreamStep
  <2>5. ASSUME NEW n \in Num, ReplaceObject(n) PROVE Good(doc', held')
    BY <2>5, ReplaceStep
  <2>6. ASSUME NEW n \in Num, DeleteObject(n) PROVE Good(doc', held')
    BY <2>6, DeleteStep
  <2>7. ASSUME NEW n \in Num, SignField(n) PROVE Good(doc', held')
    BY <2>7, SignStep
  <2>8. CASE Release
    BY <2>8, ReleaseStep
  <2>9. CASE AlterHeld
    BY <2>9, AlterHeldStep
  <2>10. CASE NewObject
    BY <2>10, NewObjectStep
  <2>11. CASE SaveStops
    BY <2>11, StopStep
  <2>12. CASE SaveCopy
    BY <2>12, SaveCopyStep
  <2>13. CASE SaveAndReopen
    BY <2>13, ReopenStep
  <2> QED
    BY <1>1, <2>1, <2>2, <2>3, <2>4, <2>5, <2>6, <2>7, <2>8, <2>9, <2>10, <2>11, <2>12, <2>13
       DEF Next
<1>2. CASE UNCHANGED vars
  BY ZenonT(40), <1>2 DEF IInv, TypesOK, Points, Fits, Shape, Within, Sound, InUse, ObjectOf,
     Found, Find, Holders, Defined, vars
<1> QED BY <1>1, <1>2

\* The strengthened invariant holds in every state.
THEOREM Invariance == Spec => []IInv
<1> QED BY InitInv, StepInv, PTL DEF Spec

\* The document, its sections and the index have their types: no object is
\* looked for beyond the last section, and the number of sections, of objects
\* and of edits stay within their bounds.
THEOREM TypeCorrect == Spec => []TypeOK
<1>1. IInv => TypeOK
  <2> SUFFICES ASSUME IInv PROVE TypeOK
    OBVIOUS
  <2>1. /\ doc \in Docs /\ Len(doc.secs) \in Nat \ {0} /\ doc.inc \in Nat /\ doc.inc < Len(doc.secs)
        /\ doc.index \in [Num -> Nat] /\ \A n \in Num : doc.index[n] \in 1..Len(doc.secs)
        /\ Len(doc.secs) <= MaxSections
    BY DocFacts DEF IInv
  <2>2. MaxSections \in Nat
    BY BoundsAssumption
  <2>3. Len(doc.secs) \in 1..MaxSections /\ doc.inc \in 0..MaxSections
        /\ \A n \in Num : doc.index[n] \in 1..MaxSections
    BY <2>1, <2>2
  <2>4. doc.index \in [Num -> 1..MaxSections]
    BY <2>1, <2>3
  <2>5. doc \in [secs : Seq(Section), inc : 0..MaxSections,
                 index : [Num -> 1..MaxSections], len : 0..MaxNum,
                 heap : [Num -> [Cells -> Stamp \cup {None}]], frozen : BOOLEAN]
    BY <2>1, <2>3, <2>4 DEF Docs, Heap
  <2> QED BY <2>1, <2>3, <2>5 DEF TypeOK, IInv, TypesOK
<1> QED BY <1>1, Invariance, PTL

\* The index never hides an object: no section before the place where the
\* search for it starts has it in use.
THEOREM IndexIsSound == Spec => []IndexSound
<1>1. IInv => IndexSound
  BY DEF IInv, Fits, Sound, IndexSound
<1> QED BY <1>1, Invariance, PTL

\* A pointer that a caller keeps is to the object that everybody reads,
\* however edits, signatures and saves move it between the sections.
THEOREM HeldStaysCurrent == Spec => []HeldIsCurrent
<1>1. IInv => HeldIsCurrent
  <2> SUFFICES ASSUME IInv, held # None
               PROVE  Live(held.num) /\ ObjectOf(doc, held.num) = held.cell
    BY DEF HeldIsCurrent
  <2>1. held.num \in Num /\ Fits(doc) /\ InUse(doc, held.num)
        /\ ObjectOf(doc, held.num) = held.cell
    BY DEF IInv, TypesOK, Points
  <2> QED BY <2>1, LiveIs
<1> QED BY <1>1, Invariance, PTL

-----------------------------------------------------------------------------
(* What an incremental save rests on *)

\* No entry frees an object that an older section has in use: of an increment,
\* and of the file but for the objects that opening it revived.
Above(d, n) == \A j, k \in 1..Len(d.secs) :
    j < k /\ d.secs[j].table[n].type = "f" /\ (j <= d.inc \/ n \notin Revived)
        => d.secs[k].table[n].type # "n"

\* An object that an increment has and no older section lies beyond the end of
\* every older section.
Beyond(d, k, n) == \A j \in 1..Len(d.secs) : j > k => n > d.secs[j].len
Grown(d, n) == \A k \in 1..d.inc : d.secs[k].table[n].type = "n" =>
    \/ \E j \in 1..Len(d.secs) : j > k /\ d.secs[j].table[n].type = "n"
    \/ Beyond(d, k, n)

\* An object in use is in the file or in memory, what an increment does not
\* have is left as it was made, and no two entries share an object in memory.
Alive(d, n) == \A k \in 1..Len(d.secs) : LET e == d.secs[k].table[n] IN
    /\ e.type = "n" /\ (e.obj = None \/ k > d.inc) => e.ofs # None
    /\ e.obj # None => d.heap[n][e.obj] # None
    /\ e.type = "unset" /\ k <= d.inc => e = Unset
Unshared(d, n) == \A j, k \in 1..Len(d.secs) :
    j # k /\ d.secs[j].table[n].obj # None => d.secs[j].table[n].obj # d.secs[k].table[n].obj

Tidy(d, n) == Above(d, n) /\ Alive(d, n) /\ Unshared(d, n)

\* The sections of the file show what the file has, but for the section x.
TrueBut(d, n, x) == \A k \in 1..Len(d.secs) : k > d.inc /\ k # x =>
    LET e == d.secs[k].table[n] IN
    /\ e.buf = None
    /\ e.obj # None => d.heap[n][e.obj] = e.ofs
FileTrue(d, n) == TrueBut(d, n, 0)

Carries(d, e, n) == Tidy(d, n) => Tidy(e, n) /\ (Grown(d, n) => Grown(e, n))
Preserves(d, e, n) == /\ Carries(d, e, n)
                      /\ Tidy(d, n) /\ FileTrue(d, n) => FileTrue(e, n)

\* Nothing about the object n has changed, but for s new sections in front.
SameAs(d, e, n, s) ==
    /\ Len(e.secs) = Len(d.secs) + s /\ e.inc = d.inc + s
    /\ e.heap[n] = d.heap[n]
    /\ \A k \in 1..Len(d.secs) :
          /\ e.secs[k + s].table[n] = d.secs[k].table[n]
          /\ k + s > 1 => e.secs[k + s].len = d.secs[k].len
    /\ s = 1 => e.secs[1].table[n] = Unset

\* One thing after the other preserves what both do.
LEMMA PreservesTwice ==
  ASSUME NEW d, NEW e, NEW o, NEW n, Preserves(d, e, n), Preserves(e, o, n)
  PROVE  Preserves(d, o, n)
  BY DEF Preserves, Carries

\* The section of the other document where a section is found again.
LEMMA SameSections ==
  ASSUME NEW d, Fits(d), NEW e, Fits(e), NEW n \in Num, NEW s \in {0, 1}, SameAs(d, e, n, s)
  PROVE  \A k \in 1..Len(e.secs) :
            \/ k = 1 /\ s = 1 /\ e.secs[k].table[n] = Unset
            \/ /\ k - s \in 1..Len(d.secs) /\ e.secs[k].table[n] = d.secs[k - s].table[n]
               /\ k > 1 => e.secs[k].len = d.secs[k - s].len
<1> SUFFICES ASSUME NEW k \in 1..Len(e.secs)
             PROVE  \/ k = 1 /\ s = 1 /\ e.secs[k].table[n] = Unset
                    \/ /\ k - s \in 1..Len(d.secs) /\ e.secs[k].table[n] = d.secs[k - s].table[n]
                       /\ k > 1 => e.secs[k].len = d.secs[k - s].len
  OBVIOUS
<1>1. Len(e.secs) = Len(d.secs) + s /\ Len(d.secs) \in Nat
  BY DocFacts DEF SameAs
<1>2. CASE k = 1 /\ s = 1
  BY <1>2 DEF SameAs
<1>3. CASE ~(k = 1 /\ s = 1)
  <2>1. k - s \in 1..Len(d.secs) /\ (k - s) + s = k
    BY <1>1, <1>3
  <2> QED BY <2>1 DEF SameAs
<1> QED BY <1>2, <1>3

\* What is not changed stays in order.
LEMMA SameTidy ==
  ASSUME NEW d, Fits(d), NEW e, Fits(e), NEW n \in Num, NEW s \in {0, 1}, SameAs(d, e, n, s)
  PROVE  Preserves(d, e, n)
<1> DEFINE L == Len(d.secs)
           M == Len(e.secs)
<1> SUFFICES ASSUME Tidy(d, n)
             PROVE  /\ Tidy(e, n) /\ (Grown(d, n) => Grown(e, n))
                    /\ FileTrue(d, n) => FileTrue(e, n)
  BY DEF Preserves, Carries
<1>1. M = L + s /\ L \in Nat /\ e.inc = d.inc + s /\ d.inc \in Nat /\ e.heap[n] = d.heap[n]
  BY DocFacts DEF SameAs
<1>2. \A k \in 1..M : \/ k = 1 /\ s = 1 /\ e.secs[k].table[n] = Unset
                      \/ /\ k - s \in 1..L /\ e.secs[k].table[n] = d.secs[k - s].table[n]
                         /\ k > 1 => e.secs[k].len = d.secs[k - s].len
  BY SameSections
<1>3. \A k \in 1..L : k + s \in 1..M /\ e.secs[k + s].table[n] = d.secs[k].table[n]
  BY <1>1 DEF SameAs
<1>4. Unset.type = "unset" /\ Unset.obj = None /\ Unset.buf = None
  BY DEF Unset
<1> HIDE DEF L, M
<1>5. Above(e, n)
  <2> SUFFICES ASSUME NEW j \in 1..M, NEW k \in 1..M, j < k, e.secs[j].table[n].type = "f",
                      j <= e.inc \/ n \notin Revived, e.secs[k].table[n].type = "n"
               PROVE  FALSE
    BY DEF Above, M
  <2>1. /\ j - s \in 1..L /\ e.secs[j].table[n] = d.secs[j - s].table[n]
        /\ k - s \in 1..L /\ e.secs[k].table[n] = d.secs[k - s].table[n]
    BY <1>2, <1>4
  <2>2. j - s < k - s /\ (j - s <= d.inc \/ n \notin Revived)
    BY <1>1
  <2> QED BY <2>1, <2>2 DEF Tidy, Above, L
<1>6. ASSUME Grown(d, n) PROVE Grown(e, n)
  <2> SUFFICES ASSUME NEW k \in 1..e.inc, e.secs[k].table[n].type = "n"
               PROVE  \/ \E j \in 1..M : j > k /\ e.secs[j].table[n].type = "n"
                      \/ Beyond(e, k, n)
    BY DEF Grown, M
  <2>1. k \in 1..M
    BY DocFacts DEF M
  <2>2. k - s \in 1..L /\ e.secs[k].table[n] = d.secs[k - s].table[n] /\ k - s \in 1..d.inc
    BY <1>1, <1>2, <1>4, <2>1
  <2>3. CASE \E j \in 1..L : j > k - s /\ d.secs[j].table[n].type = "n"
    <3>1. PICK j \in 1..L : j > k - s /\ d.secs[j].table[n].type = "n"
      BY <2>3
    <3>2. j + s \in 1..M /\ e.secs[j + s].table[n].type = "n"
      BY <1>3, <3>1
    <3>3. j + s > k
      BY <3>1, <2>2
    <3> QED BY <3>2, <3>3
  <2>4. CASE Beyond(d, k - s, n)
    <3> SUFFICES ASSUME NEW j \in 1..M, j > k PROVE n > e.secs[j].len
      BY DEF Beyond, M
    <3>1. j - s \in 1..L /\ e.secs[j].len = d.secs[j - s].len
      BY <1>2, <2>1
    <3>2. j - s > k - s
      BY <1>1
    <3> QED BY <2>4, <3>1, <3>2 DEF Beyond, L
  <2> QED BY <1>6, <2>2, <2>3, <2>4 DEF Grown, L
<1>7. Alive(e, n)
  <2> SUFFICES ASSUME NEW k \in 1..M
               PROVE  LET x == e.secs[k].table[n] IN
                      /\ x.type = "n" /\ (x.obj = None \/ k > e.inc) => x.ofs # None
                      /\ x.obj # None => e.heap[n][x.obj] # None
                      /\ x.type = "unset" /\ k <= e.inc => x = Unset
    BY DEF Alive, M
  <2>1. CASE e.secs[k].table[n] = Unset
    BY <1>4, <2>1
  <2>2. CASE k - s \in 1..L /\ e.secs[k].table[n] = d.secs[k - s].table[n]
    <3>1. (k > e.inc => k - s > d.inc) /\ (k <= e.inc => k - s <= d.inc)
      BY <1>1
    <3> QED BY <1>1, <2>2, <3>1 DEF Tidy, Alive, L
  <2> QED BY <1>2, <2>1, <2>2
<1>8. Unshared(e, n)
  <2> SUFFICES ASSUME NEW j \in 1..M, NEW k \in 1..M, j # k, e.secs[j].table[n].obj # None,
                      e.secs[j].table[n].obj = e.secs[k].table[n].obj
               PROVE  FALSE
    BY DEF Unshared, M
  <2>1. /\ j - s \in 1..L /\ e.secs[j].table[n] = d.secs[j - s].table[n]
        /\ k - s \in 1..L /\ e.secs[k].table[n] = d.secs[k - s].table[n]
    BY <1>2, <1>4
  <2>2. j - s # k - s
    BY <1>1
  <2> QED BY <2>1, <2>2 DEF Tidy, Unshared, L
<1>9. ASSUME FileTrue(d, n) PROVE FileTrue(e, n)
  <2> SUFFICES ASSUME NEW k \in 1..M, k > e.inc
               PROVE  LET x == e.secs[k].table[n] IN
                      x.buf = None /\ (x.obj # None => e.heap[n][x.obj] = x.ofs)
    BY DEF FileTrue, TrueBut, M
  <2>1. CASE e.secs[k].table[n] = Unset
    BY <1>4, <2>1
  <2>2. CASE k - s \in 1..L /\ e.secs[k].table[n] = d.secs[k - s].table[n]
    <3>1. k - s > d.inc /\ k - s # 0
      BY <1>1, <2>2
    <3> QED BY <1>1, <1>9, <2>2, <3>1 DEF FileTrue, TrueBut, L
  <2> QED BY <1>2, <2>1, <2>2
<1> QED BY <1>5, <1>6, <1>7, <1>8, <1>9 DEF Tidy

-----------------------------------------------------------------------------
(* Increments that are opened *)

\* The newest section is an increment that is not signed; if there is none,
\* one has to be opened in front.
Opened(d) == d.inc # 0 /\ ~d.secs[1].signed
Ahead(d) == IF Opened(d) THEN 0 ELSE 1

\* An increment that is opened changes no object.
LEMMA OpenSame ==
  ASSUME NEW d, Fits(d)
  PROVE  \A n \in Num : SameAs(d, OpenIncrement(d), n, Ahead(d))
<1> DEFINE o == OpenIncrement(d)
           L == Len(d.secs)
           new == [len |-> d.secs[1].len, signed |-> FALSE, table |-> UnsetTable]
<1>1. d \in Docs /\ d.secs \in Seq(Section) /\ L \in Nat \ {0} /\ d.inc \in Nat
      /\ d.secs[1].len \in 0..MaxNum
  BY DocFacts
<1>2. CASE Opened(d)
  <2>1. o = d
    BY <1>2 DEF OpenIncrement, Opened
  <2>2. \A k \in 1..L : k + 0 = k
    OBVIOUS
  <2> QED BY <1>1, <1>2, <2>1, <2>2 DEF SameAs, Ahead
<1>3. CASE ~Opened(d)
  <2>1. new \in Section /\ \A n \in Num : new.table[n] = Unset
    BY <1>1, UnsetFacts DEF Section, UnsetTable
  <2>2. o = [d EXCEPT !.secs = <<new>> \o d.secs, !.inc = @ + 1,
                      !.index = [n \in Num |-> d.index[n] + 1]]
    BY <1>3 DEF OpenIncrement, UnsetTable, Opened
  <2> HIDE DEF new, o
  <2>3. o.secs = <<new>> \o d.secs /\ o.inc = d.inc + 1 /\ o.heap = d.heap
    BY <1>1, <2>2 DEF Docs
  <2>4. /\ Len(o.secs) = L + 1 /\ o.secs[1] = new
        /\ \A k \in 1..L : o.secs[k + 1] = d.secs[k]
    BY <1>1, <2>1, <2>3
  <2> QED BY <1>3, <2>1, <2>3, <2>4 DEF SameAs, Ahead, o
<1> QED BY <1>2, <1>3

\* Nor does a place that is made for one in the newest increment.
LEMMA IncrementalSame ==
  ASSUME NEW d, Fits(d), NEW n \in Num
  PROVE  LET o == IncrementalEntry(d, n) IN
         /\ Opened(o) /\ o.secs[1].len <= Later(OpenIncrement(d).secs[1].len, n)
         /\ \A m \in Num : SameAs(d, o, m, Ahead(d))
<1> DEFINE p == OpenIncrement(d)
           o == IncrementalEntry(d, n)
           s == Ahead(d)
<1>1. /\ Fits(p) /\ \A m \in Num : SameAs(d, p, m, s)
  BY OpenIncrementOK, OpenSame
<1>2. /\ Fits(o) /\ o.heap = d.heap /\ o.inc # 0 /\ o.inc = p.inc /\ ~o.secs[1].signed
      /\ Len(o.secs) = Len(p.secs)
      /\ \A k \in 1..Len(o.secs) : o.secs[k].table = p.secs[k].table
  BY IncrementalEntryOK
<1>3. p \in Docs /\ p.secs \in Seq(Section) /\ Len(p.secs) \in Nat \ {0}
      /\ p.secs[1] \in Section /\ DOMAIN p.secs = 1..Len(p.secs)
  <2>1. Len(p.secs) \in Nat \ {0}
    BY <1>1, DocFacts
  <2>2. 1 \in 1..Len(p.secs)
    BY <2>1
  <2> QED BY <1>1, <2>2, DocFacts
<1>4. o = [p EXCEPT !.secs = [p.secs EXCEPT ![1] = [p.secs[1] EXCEPT !.len = Later(@, n)]],
                    !.len = Later(@, n), !.index[n] = 1]
  BY <1>3 DEF IncrementalEntry, Docs, Section
<1> HIDE DEF p, o
<1>5. o.secs = [p.secs EXCEPT ![1] = [p.secs[1] EXCEPT !.len = Later(@, n)]]
  BY <1>3, <1>4 DEF Docs
<1>6. \A k \in 2..Len(p.secs) : o.secs[k].len = p.secs[k].len
  BY <1>3, <1>5
<1>7. o.secs[1].len = Later(p.secs[1].len, n)
  BY <1>3, <1>5 DEF Section
<1>8. o.secs[1].len <= Later(p.secs[1].len, n)
  <2>1. o.secs[1].len \in Int
    <3>1. 1 \in 1..Len(o.secs)
      BY <1>2, <1>3
    <3> QED BY <1>2, <3>1, DocFacts
  <2> QED BY <1>7, <2>1
<1>9. ASSUME NEW m \in Num PROVE SameAs(d, o, m, s)
  <2>1. SameAs(d, p, m, s) /\ s \in {0, 1} /\ Len(d.secs) \in Nat \ {0}
    BY <1>1, DocFacts DEF Ahead
  <2>2. 1 \in 1..Len(o.secs) /\ Len(p.secs) = Len(d.secs) + s
    BY <1>2, <1>3, <2>1 DEF SameAs
  <2>3. ASSUME NEW k \in 1..Len(d.secs)
        PROVE  /\ o.secs[k + s].table[m] = d.secs[k].table[m]
               /\ k + s > 1 => o.secs[k + s].len = d.secs[k].len
    <3>1. /\ p.secs[k + s].table[m] = d.secs[k].table[m]
          /\ k + s > 1 => p.secs[k + s].len = d.secs[k].len
      BY <2>1 DEF SameAs
    <3>2. k + s \in 1..Len(o.secs) /\ (k + s > 1 => k + s \in 2..Len(p.secs))
      BY <1>2, <2>1, <2>2
    <3> QED BY <1>2, <1>6, <3>1, <3>2
  <2>4. s = 1 => o.secs[1].table[m] = Unset
    BY <1>2, <2>1, <2>2 DEF SameAs
  <2>5. o.inc = d.inc + s /\ Len(o.secs) = Len(d.secs) + s /\ o.heap[m] = d.heap[m]
    BY <1>2, <2>1 DEF SameAs
  <2> QED BY <2>3, <2>4, <2>5 DEF SameAs
<1> QED BY <1>2, <1>8, <1>9 DEF Opened, o, p

\* So both preserve everything.
LEMMA IncrementalTidy ==
  ASSUME NEW d, Fits(d), NEW n \in Num
  PROVE  \A m \in Num : /\ Preserves(d, OpenIncrement(d), m)
                        /\ Preserves(d, IncrementalEntry(d, n), m)
<1>1. Fits(OpenIncrement(d)) /\ Fits(IncrementalEntry(d, n)) /\ Ahead(d) \in {0, 1}
  BY OpenIncrementOK, IncrementalEntryOK DEF Ahead
<1>2. \A m \in Num : /\ SameAs(d, OpenIncrement(d), m, Ahead(d))
                     /\ SameAs(d, IncrementalEntry(d, n), m, Ahead(d))
  BY OpenSame, IncrementalSame
<1> QED BY <1>1, <1>2, SameTidy

\* Documents with the same sections and memory of an object.
LEMMA EqualTidy ==
  ASSUME NEW d, Fits(d), NEW e, Fits(e), NEW n \in Num, Len(e.secs) = Len(d.secs), e.inc = d.inc,
         e.heap[n] = d.heap[n],
         \A k \in 1..Len(d.secs) : e.secs[k].table[n] = d.secs[k].table[n],
         \A k \in 2..Len(d.secs) : e.secs[k].len = d.secs[k].len
  PROVE  Preserves(d, e, n)
<1>1. Len(d.secs) \in Nat /\ d.inc \in Nat
  BY DocFacts
<1>2. SameAs(d, e, n, 0)
  <2> SUFFICES ASSUME NEW k \in 1..Len(d.secs)
               PROVE  /\ e.secs[k + 0].table[n] = d.secs[k].table[n]
                      /\ k + 0 > 1 => e.secs[k + 0].len = d.secs[k].len
    BY <1>1 DEF SameAs
  <2>1. k + 0 = k /\ (k > 1 => k \in 2..Len(d.secs))
    BY <1>1
  <2> QED BY <2>1
<1> QED BY <1>2, SameTidy

-----------------------------------------------------------------------------
(* One object, one section *)

\* Two documents of the same sections, but for the end of the newest.
Frame(d, e) == /\ Len(e.secs) = Len(d.secs) /\ e.inc = d.inc
               /\ \A k \in 2..Len(d.secs) : e.secs[k].len = d.secs[k].len

\* Where nothing comes into use or is freed, nothing is hidden or lost.
LEMMA TypesTidy ==
  ASSUME NEW d, Fits(d), NEW e, Frame(d, e), NEW n \in Num,
         \A k \in 1..Len(d.secs) : e.secs[k].table[n].type = d.secs[k].table[n].type
  PROVE  (Above(d, n) => Above(e, n)) /\ (Grown(d, n) => Grown(e, n))
<1>1. Len(e.secs) = Len(d.secs) /\ e.inc = d.inc /\ Len(d.secs) \in Nat
      /\ d.inc \in Nat /\ d.inc < Len(d.secs)
  BY DocFacts DEF Frame
<1>2. Above(d, n) => Above(e, n)
  BY <1>1 DEF Above
<1>3. ASSUME Grown(d, n) PROVE Grown(e, n)
  <2> SUFFICES ASSUME NEW k \in 1..d.inc, e.secs[k].table[n].type = "n"
               PROVE  \/ \E j \in 1..Len(d.secs) : j > k /\ e.secs[j].table[n].type = "n"
                      \/ Beyond(e, k, n)
    BY <1>1 DEF Grown
  <2>1. k \in 1..Len(d.secs)
    BY <1>1
  <2>2. \/ \E j \in 1..Len(d.secs) : j > k /\ d.secs[j].table[n].type = "n"
        \/ Beyond(d, k, n)
    BY <1>3, <2>1 DEF Grown
  <2>3. CASE Beyond(d, k, n)
    <3> SUFFICES ASSUME NEW j \in 1..Len(d.secs), j > k PROVE n > e.secs[j].len
      BY <1>1 DEF Beyond
    <3>1. j \in 2..Len(d.secs)
      BY <2>1
    <3> QED BY <2>3, <3>1 DEF Beyond, Frame
  <2> QED BY <2>2, <2>3
<1> QED BY <1>2, <1>3

\* Nor where an object comes into use in the newest section that an older one
\* has, or that is beyond all of them.
LEMMA NewestTidy ==
  ASSUME NEW d, Fits(d), NEW e, Frame(d, e), NEW n \in Num,
         \A k \in 2..Len(d.secs) : e.secs[k].table[n].type = d.secs[k].table[n].type,
         e.secs[1].table[n].type = "n",
         \/ \E j \in 2..Len(d.secs) : d.secs[j].table[n].type = "n"
         \/ Beyond(d, 1, n)
  PROVE  (Above(d, n) => Above(e, n)) /\ (Grown(d, n) => Grown(e, n))
<1>1. Len(e.secs) = Len(d.secs) /\ e.inc = d.inc /\ Len(d.secs) \in Nat
      /\ d.inc \in Nat /\ d.inc < Len(d.secs)
  BY DocFacts DEF Frame
<1>2. ASSUME Above(d, n) PROVE Above(e, n)
  <2> SUFFICES ASSUME NEW j \in 1..Len(d.secs), NEW k \in 1..Len(d.secs), j < k,
                      e.secs[j].table[n].type = "f", j <= d.inc \/ n \notin Revived
               PROVE  e.secs[k].table[n].type # "n"
    BY <1>1 DEF Above
  <2>1. j \in 2..Len(d.secs) /\ k \in 2..Len(d.secs)
    <3>1. j # 1
      OBVIOUS
    <3> QED BY <1>1, <3>1
  <2> QED BY <1>2, <2>1 DEF Above
<1>3. ASSUME Grown(d, n) PROVE Grown(e, n)
  <2> SUFFICES ASSUME NEW k \in 1..d.inc, e.secs[k].table[n].type = "n"
               PROVE  \/ \E j \in 1..Len(d.secs) : j > k /\ e.secs[j].table[n].type = "n"
                      \/ Beyond(e, k, n)
    BY <1>1 DEF Grown
  <2>1. k \in 1..Len(d.secs)
    BY <1>1
  <2>2. \/ \E j \in 2..Len(d.secs) : j > k /\ d.secs[j].table[n].type = "n"
        \/ Beyond(d, k, n)
    <3>1. CASE k = 1
      BY <3>1
    <3>2. CASE k # 1
      <4>1. k \in 2..Len(d.secs)
        BY <2>1, <3>2
      <4>2. d.secs[k].table[n].type = "n"
        BY <4>1
      <4>3. \A j \in 1..Len(d.secs) : j > k => j \in 2..Len(d.secs)
        BY <2>1
      <4> QED BY <1>3, <2>1, <4>2, <4>3 DEF Grown
    <3> QED BY <3>1, <3>2
  <2>3. CASE \E j \in 2..Len(d.secs) : j > k /\ d.secs[j].table[n].type = "n"
    <3>1. PICK j \in 2..Len(d.secs) : j > k /\ d.secs[j].table[n].type = "n"
      BY <2>3
    <3>2. j \in 1..Len(d.secs) /\ e.secs[j].table[n].type = "n"
      BY <1>1, <3>1
    <3> QED BY <3>1, <3>2
  <2>4. CASE Beyond(d, k, n)
    <3> SUFFICES ASSUME NEW j \in 1..Len(d.secs), j > k PROVE n > e.secs[j].len
      BY <1>1 DEF Beyond
    <3>1. j \in 2..Len(d.secs)
      BY <2>1
    <3> QED BY <2>4, <3>1 DEF Beyond, Frame
  <2> QED BY <2>2, <2>3, <2>4
<1> QED BY <1>2, <1>3

\* One entry is changed: what it needs to be alive, alone and true.
LEMMA EntryTidy ==
  ASSUME NEW d, Fits(d), NEW e, Fits(e), Frame(d, e), NEW n \in Num, NEW k \in 1..Len(d.secs),
         \A j \in 1..Len(d.secs) : j # k =>
            /\ e.secs[j].table[n] = d.secs[j].table[n]
            /\ d.secs[j].table[n].obj # None =>
                  /\ e.heap[n][d.secs[j].table[n].obj] = d.heap[n][d.secs[j].table[n].obj]
                  /\ e.secs[k].table[n].obj # d.secs[j].table[n].obj,
         LET x == e.secs[k].table[n] IN
            /\ x.type # "unset"
            /\ x.type = "n" /\ (x.obj = None \/ k > d.inc) => x.ofs # None
            /\ x.obj # None => e.heap[n][x.obj] # None
  PROVE  /\ Alive(d, n) => Alive(e, n)
         /\ Unshared(d, n) => Unshared(e, n)
         /\ \A y \in {0, k} : TrueBut(d, n, y) => TrueBut(e, n, k)
         /\ k <= d.inc => (FileTrue(d, n) => FileTrue(e, n))
<1>1. Len(e.secs) = Len(d.secs) /\ e.inc = d.inc /\ Len(d.secs) \in Nat /\ d.inc \in Nat
  BY DocFacts DEF Frame
<1>2. ASSUME Alive(d, n) PROVE Alive(e, n)
  <2> SUFFICES ASSUME NEW j \in 1..Len(d.secs)
               PROVE  LET x == e.secs[j].table[n] IN
                      /\ x.type = "n" /\ (x.obj = None \/ j > d.inc) => x.ofs # None
                      /\ x.obj # None => e.heap[n][x.obj] # None
                      /\ x.type = "unset" /\ j <= d.inc => x = Unset
    BY <1>1 DEF Alive
  <2>1. CASE j = k
    BY <2>1
  <2>2. CASE j # k
    BY <1>2, <2>2 DEF Alive
  <2> QED BY <2>1, <2>2
<1>3. ASSUME Unshared(d, n) PROVE Unshared(e, n)
  <2> SUFFICES ASSUME NEW i \in 1..Len(d.secs), NEW j \in 1..Len(d.secs), i # j,
                      e.secs[i].table[n].obj # None,
                      e.secs[i].table[n].obj = e.secs[j].table[n].obj
               PROVE  FALSE
    BY <1>1 DEF Unshared
  <2>1. CASE i = k
    BY <2>1
  <2>2. CASE j = k
    BY <2>2
  <2>3. CASE i # k /\ j # k
    BY ZenonT(40), <1>3, <2>3 DEF Unshared
  <2> QED BY <2>1, <2>2, <2>3
<1>4. ASSUME NEW y \in {0, k}, TrueBut(d, n, y) PROVE TrueBut(e, n, k)
  <2> SUFFICES ASSUME NEW j \in 1..Len(d.secs), j > d.inc, j # k
               PROVE  LET x == e.secs[j].table[n] IN
                      x.buf = None /\ (x.obj # None => e.heap[n][x.obj] = x.ofs)
    BY <1>1 DEF TrueBut
  <2>1. j # y
    OBVIOUS
  <2> QED BY <1>4, <2>1 DEF TrueBut
<1>5. ASSUME k <= d.inc, FileTrue(d, n) PROVE FileTrue(e, n)
  <2>1. TrueBut(e, n, k)
    BY <1>4, <1>5 DEF FileTrue
  <2>2. \A j \in 1..Len(e.secs) : j > e.inc => j # k
    BY <1>1, <1>5
  <2> QED BY <2>1, <2>2 DEF FileTrue, TrueBut
<1> QED BY <1>2, <1>3, <1>4, <1>5

\* Memory that is free is not that of any entry.
LEMMA FreshCell ==
  ASSUME NEW d, Fits(d), NEW n \in Num, Alive(d, n), NEW c \in Unused(d, n)
  PROVE  /\ c \in Cells /\ c # None
         /\ \A k \in 1..Len(d.secs) : d.secs[k].table[n].obj # c
<1>1. c \in Cells /\ d.heap[n][c] = None
  BY DEF Unused
<1>2. c # None
  BY <1>1, BoundsAssumption
<1>3. \A k \in 1..Len(d.secs) : d.secs[k].table[n].obj # c
  BY <1>1, <1>2 DEF Alive
<1> QED BY <1>1, <1>2, <1>3

\* Reading an object into memory: what changes.
LEMMA CacheShape ==
  ASSUME NEW d, Fits(d), NEW n \in Num, InUse(d, n), Unused(d, n) # {}
  PROVE  LET o == CacheObject(d, n)
             k == Find(d, 1, n)
             e == d.secs[k].table[n]
             c == NewCell(d, n)
         IN  /\ k \in 1..Len(d.secs) /\ e \in Entry /\ e.type = "n" /\ Find(o, 1, n) = k
             /\ e.obj = ObjectOf(d, n) /\ c \in Unused(d, n) /\ c \in Cells
             /\ Len(o.secs) = Len(d.secs) /\ o.inc = d.inc /\ o.frozen = d.frozen
             /\ \A j \in 1..Len(d.secs) :
                   /\ o.secs[j].len = d.secs[j].len /\ o.secs[j].signed = d.secs[j].signed
                   /\ \A m \in Num : o.secs[j].table[m] =
                         IF j = k /\ m = n /\ e.obj = None THEN [e EXCEPT !.obj = c]
                         ELSE d.secs[j].table[m]
             /\ \A m \in Num, b \in Cells : o.heap[m][b] =
                   IF m = n /\ b = c /\ e.obj = None THEN e.ofs ELSE d.heap[m][b]
             /\ \A m \in Num : m # n => o.heap[m] = d.heap[m]
<1> DEFINE k == Find(d, 1, n)
           e == d.secs[k].table[n]
           c == NewCell(d, n)
           at == [d EXCEPT !.index[n] = k]
           w == [at EXCEPT !.heap[n][c] = e.ofs]
           f == [e EXCEPT !.obj = c]
           o == CacheObject(d, n)
<1>1. /\ k \in 1..Len(d.secs) /\ e = Found(d, 1, n) /\ e \in Entry /\ e.type = "n"
      /\ n <= d.secs[k].len /\ e.obj = ObjectOf(d, n) /\ k \in d.index[n]..Len(d.secs)
  BY FindFacts, InUseFacts DEF InUse, ObjectOf
<1>2. /\ Fits(at) /\ at.frozen = d.frozen /\ at.inc = d.inc
      /\ at.heap = d.heap /\ at.secs = d.secs /\ at.index[n] = k
      /\ Find(at, 1, n) = k
  BY <1>1, IndexOK
<1>3. c \in Cells /\ c \in Unused(d, n)
  BY NewCellOK
<1>4. o = IF e.obj # None THEN at ELSE Put(w, k, n, f)
  BY DEF CacheObject
<1>5. e.ofs \in Stamp \cup {None}
  BY <1>1 DEF Entry
<1>6. Fits(o)
  BY CacheObjectOK
<1>7. CASE e.obj # None
  <2>1. o = at
    BY <1>4, <1>7
  <2> HIDE DEF k, at, c, o, e
  <2> QED BY <1>1, <1>2, <1>3, <1>7, <2>1 DEF k, c, o, e
<1>8. CASE e.obj = None
  <2> HIDE DEF k, at, c, e, o
  <2>1. /\ Fits(w) /\ w.frozen = at.frozen /\ w.inc = at.inc
        /\ w.index = at.index /\ w.secs = at.secs
        /\ \A m \in Num, b \in Cells :
              w.heap[m][b] = IF m = n /\ b = c THEN e.ofs ELSE at.heap[m][b]
    BY <1>2, <1>3, <1>5, HeapOK
  <2>2. f \in Entry /\ f.type = "n"
    BY <1>1, <1>3 DEF Entry
  <2> DEFINE p == Put(w, k, n, f)
  <2>3. k \in 1..Len(w.secs) /\ n <= w.secs[k].len /\ w.index[n] <= k
    BY <1>1, <1>2, <2>1
  <2> HIDE DEF w
  <2>4. (f.type # "unset" => n <= w.secs[k].len) /\ (f.type = "n" => w.index[n] <= k)
    BY <2>3
  <2> HIDE DEF f
  <2>5. /\ Fits(p) /\ p.heap = w.heap /\ p.frozen = w.frozen /\ p.inc = w.inc
        /\ p.index = w.index /\ Len(p.secs) = Len(w.secs)
        /\ \A j \in 1..Len(w.secs) :
              /\ p.secs[j].len = w.secs[j].len /\ p.secs[j].signed = w.secs[j].signed
              /\ \A m \in Num : p.secs[j].table[m] =
                     IF j = k /\ m = n THEN f ELSE w.secs[j].table[m]
    BY <2>1, <2>2, <2>3, <2>4, PutOK
  <2>6. o = p
    BY <1>4, <1>8
  <2> HIDE DEF p
  <2>7. Find(p, 1, n) = k
    <3>1. p.secs[k].table[n] = f /\ p.index[n] = k /\ k \in 1..Len(p.secs)
      BY <1>2, <2>1, <2>3, <2>5
    <3>2. k \in p.index[n]..Len(p.secs) /\ p.index[n]..(k - 1) = {}
      BY <3>1
    <3>3. p.secs[k].table[n].type # "unset"
      BY <2>2, <3>1
    <3> QED BY <2>5, <3>2, <3>3, FindIs
  <2>8. /\ Len(o.secs) = Len(d.secs) /\ o.inc = d.inc /\ o.frozen = d.frozen
        /\ \A j \in 1..Len(d.secs) :
              /\ o.secs[j].len = d.secs[j].len /\ o.secs[j].signed = d.secs[j].signed
              /\ \A m \in Num : o.secs[j].table[m] =
                     IF j = k /\ m = n THEN f ELSE d.secs[j].table[m]
        /\ \A m \in Num, b \in Cells : o.heap[m][b] = IF m = n /\ b = c THEN e.ofs ELSE d.heap[m][b]
    BY <1>2, <2>1, <2>5, <2>6
  <2>9. ASSUME NEW m \in Num, m # n PROVE o.heap[m] = d.heap[m]
    <3>1. o.heap \in Heap /\ d.heap \in Heap
      BY <1>6, DocFacts
    <3>2. o.heap[m] \in [Cells -> Stamp \cup {None}] /\ d.heap[m] \in [Cells -> Stamp \cup {None}]
      BY <3>1 DEF Heap
    <3> QED BY <2>8, <2>9, <3>2
  <2> QED BY <1>1, <1>3, <1>8, <2>6, <2>7, <2>8, <2>9 DEF k, c, o, e, f
<1> QED BY <1>7, <1>8

-----------------------------------------------------------------------------
(* The object that is read, and the one that is moved *)

\* It preserves everything.
LEMMA CacheTidy ==
  ASSUME NEW d, Fits(d), NEW n \in Num, InUse(d, n), Unused(d, n) # {}
  PROVE  \A m \in Num : Preserves(d, CacheObject(d, n), m)
<1> DEFINE o == CacheObject(d, n)
           k == Find(d, 1, n)
           e == d.secs[k].table[n]
           c == NewCell(d, n)
           L == Len(d.secs)
<1>1. /\ k \in 1..L /\ e \in Entry /\ e.type = "n"
      /\ c \in Unused(d, n) /\ c \in Cells
      /\ Len(o.secs) = L /\ o.inc = d.inc
      /\ \A j \in 1..L :
            /\ o.secs[j].len = d.secs[j].len
            /\ \A m \in Num : o.secs[j].table[m] =
                  IF j = k /\ m = n /\ e.obj = None THEN [e EXCEPT !.obj = c]
                  ELSE d.secs[j].table[m]
      /\ \A m \in Num, b \in Cells : o.heap[m][b] =
            IF m = n /\ b = c /\ e.obj = None THEN e.ofs ELSE d.heap[m][b]
      /\ \A m \in Num : m # n => o.heap[m] = d.heap[m]
  BY CacheShape
<1>2. Fits(o)
  BY CacheObjectOK
<1>3. L \in Nat /\ \A j \in 1..L : d.secs[j].table[n].obj \in Cells \cup {None}
  BY DocFacts DEF Entry
<1>4. Frame(d, o)
  BY <1>1, <1>3 DEF Frame
<1>5. e.ofs \in Stamp \cup {None} /\ e.obj \in Cells \cup {None} /\ e.type = "n"
  BY <1>1 DEF Entry
<1>6. e = d.secs[k].table[n]
  OBVIOUS
<1> HIDE DEF o, k, e, c
<1>7. ASSUME NEW m \in Num, m # n PROVE Preserves(d, o, m)
  <2>1. \A j \in 1..L : o.secs[j].table[m] = d.secs[j].table[m]
    BY <1>1, <1>7
  <2>2. o.heap[m] = d.heap[m] /\ Len(o.secs) = Len(d.secs) /\ o.inc = d.inc
    BY <1>1, <1>7
  <2>3. \A j \in 2..Len(d.secs) : o.secs[j].len = d.secs[j].len
    BY <1>4 DEF Frame
  <2> QED BY <1>2, <2>1, <2>2, <2>3, EqualTidy
<1>8. ASSUME Tidy(d, n)
      PROVE  /\ Tidy(o, n) /\ (Grown(d, n) => Grown(o, n))
             /\ FileTrue(d, n) => FileTrue(o, n)
  <2>1. c # None /\ \A j \in 1..L : d.secs[j].table[n].obj # c
    BY <1>1, <1>8, FreshCell DEF Tidy
  <2>2. /\ e.type = "n" /\ (e.obj = None \/ k > d.inc) => e.ofs # None
        /\ e.obj # None => d.heap[n][e.obj] # None
        /\ \A j \in 1..L : j # k /\ e.obj # None => e.obj # d.secs[j].table[n].obj
    BY <1>1, <1>6, <1>8 DEF Tidy, Alive, Unshared
  <2> DEFINE x == o.secs[k].table[n]
  <2>3. /\ x.type = "n" /\ x.ofs = e.ofs /\ x.buf = e.buf
        /\ x.obj = IF e.obj = None THEN c ELSE e.obj
    <3>1. CASE e.obj = None
      <4>1. x = [e EXCEPT !.obj = c]
        BY <1>1, <3>1
      <4> QED BY <1>1, <3>1, <4>1 DEF Entry
    <3>2. CASE e.obj # None
      BY <1>1, <1>6, <3>2
    <3> QED BY <3>1, <3>2
  <2>4. \A j \in 1..L : j # k => o.secs[j].table[n] = d.secs[j].table[n]
    BY <1>1
  <2>5. \A j \in 1..L : o.secs[j].table[n].type = d.secs[j].table[n].type
    BY <1>1, <1>6, <2>3, <2>4
  <2>6. Above(o, n) /\ (Grown(d, n) => Grown(o, n))
    BY <1>4, <1>8, <2>5, TypesTidy DEF Tidy
  <2>7. o.heap[n][x.obj] = IF e.obj = None THEN e.ofs ELSE d.heap[n][e.obj]
    <3>1. CASE e.obj = None
      BY <1>1, <2>3, <3>1
    <3>2. CASE e.obj # None
      <4>1. e.obj \in Cells
        BY <1>5, <3>2
      <4> QED BY <1>1, <2>3, <3>2, <4>1
    <3> QED BY <3>1, <3>2
  <2>8. ASSUME NEW j \in 1..L, j # k, d.secs[j].table[n].obj # None
        PROVE  /\ o.heap[n][d.secs[j].table[n].obj] = d.heap[n][d.secs[j].table[n].obj]
               /\ x.obj # d.secs[j].table[n].obj
    <3>1. d.secs[j].table[n].obj \in Cells /\ d.secs[j].table[n].obj # c
      BY <1>3, <2>1, <2>8
    <3>2. o.heap[n][d.secs[j].table[n].obj] = d.heap[n][d.secs[j].table[n].obj]
      BY <1>1, <3>1
    <3> QED BY <2>1, <2>2, <2>3, <2>8, <3>2
  <2>9. /\ x.type # "unset"
        /\ x.type = "n" /\ (x.obj = None \/ k > d.inc) => x.ofs # None
        /\ x.obj # None => o.heap[n][x.obj] # None
    BY <2>1, <2>2, <2>3, <2>7, <1>5
  <2>10. /\ Alive(d, n) => Alive(o, n)
         /\ Unshared(d, n) => Unshared(o, n)
         /\ \A y \in {0, k} : TrueBut(d, n, y) => TrueBut(o, n, k)
    <3>1. \A j \in 1..L : j # k =>
             /\ o.secs[j].table[n] = d.secs[j].table[n]
             /\ d.secs[j].table[n].obj # None =>
                   /\ o.heap[n][d.secs[j].table[n].obj] = d.heap[n][d.secs[j].table[n].obj]
                   /\ o.secs[k].table[n].obj # d.secs[j].table[n].obj
      BY <2>4, <2>8
    <3>2. k \in 1..L
      BY <1>1
    <3> QED BY <1>2, <1>4, <2>9, <3>1, <3>2, EntryTidy
  <2>11. ASSUME FileTrue(d, n) PROVE FileTrue(o, n)
    <3>1. TrueBut(o, n, k) /\ (k > d.inc => e.buf = None /\ (e.obj # None => d.heap[n][e.obj] = e.ofs))
      <4>1. k # 0 /\ 0 \in {0, k}
        BY <1>1
      <4>2. TrueBut(d, n, 0)
        BY <2>11 DEF FileTrue
      <4>3. k > d.inc => e.buf = None /\ (e.obj # None => d.heap[n][e.obj] = e.ofs)
        BY <1>1, <1>6, <4>1, <4>2 DEF TrueBut
      <4> QED BY <2>10, <4>1, <4>2, <4>3
    <3>2. k > o.inc => x.buf = None /\ (x.obj # None => o.heap[n][x.obj] = x.ofs)
      BY <1>1, <2>3, <2>7, <3>1
    <3> SUFFICES ASSUME NEW j \in 1..Len(o.secs), j > o.inc
                 PROVE  LET y == o.secs[j].table[n] IN
                        y.buf = None /\ (y.obj # None => o.heap[n][y.obj] = y.ofs)
      BY DEF FileTrue, TrueBut
    <3>3. CASE j = k
      BY <3>2, <3>3
    <3>4. CASE j # k
      BY <3>1, <3>4 DEF TrueBut
    <3> QED BY <3>3, <3>4
  <2> QED BY <1>8, <2>6, <2>10, <2>11 DEF Tidy
<1>9. Preserves(d, o, n)
  BY <1>8 DEF Preserves, Carries
<1> QED BY <1>7, <1>9 DEF o

\* An object moves to the newest section and leaves one like it behind.
LEMMA MovedTidy ==
  ASSUME NEW d, Fits(d), NEW e, Fits(e), Frame(d, e), d.inc # 0, NEW n \in Num,
         NEW k \in 2..Len(d.secs), d.secs[k].table[n].type = "n",
         e.secs[1].table[n] = d.secs[k].table[n],
         NEW x \in Entry, e.secs[k].table[n] = x,
         x.type = "n", x.ofs = d.secs[k].table[n].ofs, x.buf = None,
         \/ x.obj = None /\ (k > d.inc \/ d.secs[k].table[n].obj = None)
         \/ /\ x.obj \in Unused(d, n) /\ k <= d.inc
            /\ d.secs[k].table[n].obj # None
            /\ e.heap[n][x.obj] = d.heap[n][d.secs[k].table[n].obj],
         \A j \in 2..Len(d.secs) : j # k => e.secs[j].table[n] = d.secs[j].table[n],
         \A b \in Cells : b # x.obj => e.heap[n][b] = d.heap[n][b],
         Tidy(d, n)
  PROVE  /\ Tidy(e, n) /\ (Grown(d, n) => Grown(e, n))
         /\ TrueBut(d, n, k) => FileTrue(e, n)
<1> DEFINE L == Len(d.secs)
           old == d.secs[k].table[n]
<1>1. L \in Nat /\ d.inc \in Nat /\ d.inc < L /\ Len(e.secs) = L /\ e.inc = d.inc
      /\ \A j \in 1..L : d.secs[j].table[n].obj \in Cells \cup {None}
  BY DocFacts DEF Frame, Entry
<1>2. k \in 1..L /\ 1 \in 1..L /\ 1 <= d.inc
  BY <1>1
<1>3. x.obj # None => x.obj \in Unused(d, n) /\ \A j \in 1..L : d.secs[j].table[n].obj # x.obj
  BY FreshCell DEF Tidy
<1>4. \A j \in 1..L : d.secs[j].table[n].obj # None =>
         /\ d.secs[j].table[n].obj # x.obj
         /\ e.heap[n][d.secs[j].table[n].obj] = d.heap[n][d.secs[j].table[n].obj]
  BY SMTT(30), <1>1, <1>3
<1>5. /\ old.obj = None \/ k > d.inc => old.ofs # None
      /\ old.obj # None => d.heap[n][old.obj] # None
      /\ \A j \in 1..L : j # k /\ old.obj # None => old.obj # d.secs[j].table[n].obj
  BY <1>2 DEF Tidy, Alive, Unshared
<1>6. \A j \in 1..L : \/ j = 1 /\ e.secs[j].table[n] = old
                      \/ j = k /\ j # 1 /\ e.secs[j].table[n] = x
                      \/ j # 1 /\ j # k /\ e.secs[j].table[n] = d.secs[j].table[n]
  BY SMTT(30), <1>1
<1>7. Above(e, n) /\ (Grown(d, n) => Grown(e, n))
  <2>1. \A j \in 2..L : e.secs[j].table[n].type = d.secs[j].table[n].type
    OBVIOUS
  <2>2. e.secs[1].table[n].type = "n" /\ \E j \in 2..L : d.secs[j].table[n].type = "n"
    BY SMTT(30)
  <2> QED BY <2>1, <2>2, NewestTidy DEF Tidy
<1> HIDE DEF old
<1>8. Alive(e, n)
  <2> SUFFICES ASSUME NEW j \in 1..L
               PROVE  LET y == e.secs[j].table[n] IN
                      /\ y.type = "n" /\ (y.obj = None \/ j > d.inc) => y.ofs # None
                      /\ y.obj # None => e.heap[n][y.obj] # None
                      /\ y.type = "unset" /\ j <= d.inc => y = Unset
    BY <1>1 DEF Alive
  <2>1. CASE j = 1 /\ e.secs[j].table[n] = old
    <3>1. ~(j > d.inc) /\ old.type = "n"
      BY SMTT(30), <1>1, <1>2, <2>1 DEF old
    <3>2. old.obj # None => e.heap[n][old.obj] # None
      BY <1>2, <1>4, <1>5 DEF old
    <3> QED BY <1>5, <2>1, <3>1, <3>2
  <2>2. CASE j = k /\ j # 1 /\ e.secs[j].table[n] = x
    <3>1. CASE x.obj = None /\ (k > d.inc \/ old.obj = None)
      BY <1>5, <2>2, <3>1 DEF old
    <3>2. CASE /\ x.obj \in Unused(d, n) /\ k <= d.inc /\ old.obj # None
               /\ e.heap[n][x.obj] = d.heap[n][old.obj]
      <4>1. x.obj # None
        BY <3>2, FreshCell DEF Tidy
      <4>2. ~(j > d.inc)
        BY <1>1, <1>2, <2>2, <3>2
      <4> QED BY <1>5, <2>2, <3>2, <4>1, <4>2
    <3> QED BY SMTT(30), <3>1, <3>2 DEF old
  <2>3. CASE j # 1 /\ j # k /\ e.secs[j].table[n] = d.secs[j].table[n]
    <3> DEFINE y == d.secs[j].table[n]
    <3>1. /\ y.type = "n" /\ (y.obj = None \/ j > d.inc) => y.ofs # None
          /\ y.obj # None => d.heap[n][y.obj] # None
          /\ y.type = "unset" /\ j <= d.inc => y = Unset
      BY DEF Tidy, Alive
    <3>2. y.obj # None => e.heap[n][y.obj] = d.heap[n][y.obj]
      BY <1>4
    <3> HIDE DEF y
    <3> QED BY <2>3, <3>1, <3>2 DEF y
  <2> QED BY SMTT(30), <1>6, <2>1, <2>2, <2>3
<1>9. Unshared(e, n)
  <2> SUFFICES ASSUME NEW i \in 1..L, NEW j \in 1..L, i # j,
                      e.secs[i].table[n].obj # None,
                      e.secs[i].table[n].obj = e.secs[j].table[n].obj
               PROVE  FALSE
    BY <1>1 DEF Unshared
  <2>1. CASE i # 1 /\ i # k /\ e.secs[i].table[n] = d.secs[i].table[n]
    <3>1. CASE j = 1 /\ e.secs[j].table[n] = old
      BY <1>5, <2>1, <3>1
    <3>2. CASE j = k /\ j # 1 /\ e.secs[j].table[n] = x
      BY <1>3, <2>1, <3>2
    <3>3. CASE j # 1 /\ j # k /\ e.secs[j].table[n] = d.secs[j].table[n]
      BY <2>1, <3>3 DEF Tidy, Unshared
    <3> QED BY <1>6, <3>1, <3>2, <3>3
  <2>2. CASE i = 1 /\ e.secs[i].table[n] = old
    <3>1. CASE j = k /\ j # 1 /\ e.secs[j].table[n] = x
      BY <1>2, <1>3, <2>2, <3>1 DEF old
    <3>2. CASE j # 1 /\ j # k /\ e.secs[j].table[n] = d.secs[j].table[n]
      BY <1>5, <2>2, <3>2
    <3> QED BY <1>6, <2>2, <3>1, <3>2
  <2>3. CASE i = k /\ i # 1 /\ e.secs[i].table[n] = x
    <3>1. CASE j = 1 /\ e.secs[j].table[n] = old
      BY <1>2, <1>3, <2>3, <3>1 DEF old
    <3>2. CASE j # 1 /\ j # k /\ e.secs[j].table[n] = d.secs[j].table[n]
      BY <1>3, <2>3, <3>2
    <3> QED BY <1>6, <2>3, <3>1, <3>2
  <2> QED BY <1>6, <2>1, <2>2, <2>3
<1>10. ASSUME TrueBut(d, n, k) PROVE FileTrue(e, n)
  <2> SUFFICES ASSUME NEW j \in 1..L, j > d.inc
               PROVE  LET y == e.secs[j].table[n] IN
                      y.buf = None /\ (y.obj # None => e.heap[n][y.obj] = y.ofs)
    BY <1>1 DEF FileTrue, TrueBut
  <2>1. j # 1
    BY <1>1
  <2>2. CASE j = k /\ e.secs[j].table[n] = x
    <3>1. x.obj = None
      BY <1>1, <2>2
    <3> QED BY <2>2, <3>1
  <2>3. CASE j # k /\ e.secs[j].table[n] = d.secs[j].table[n]
    <3>1. LET y == d.secs[j].table[n] IN
          y.buf = None /\ (y.obj # None => d.heap[n][y.obj] = y.ofs)
      BY <1>10, <2>3 DEF TrueBut
    <3>2. d.secs[j].table[n].obj # None =>
             e.heap[n][d.secs[j].table[n].obj] = d.heap[n][d.secs[j].table[n].obj]
      BY <1>4
    <3> QED BY SMTT(30), <2>3, <3>1, <3>2
  <2> QED BY <1>6, <2>1, <2>2, <2>3
<1> QED BY <1>7, <1>8, <1>9, <1>10 DEF Tidy

\* The exception moves with its section.
LEMMA SameTrueBut ==
  ASSUME NEW d, Fits(d), NEW e, Fits(e), NEW n \in Num, NEW s \in {0, 1}, SameAs(d, e, n, s),
         NEW x \in Int, TrueBut(d, n, x)
  PROVE  TrueBut(e, n, x + s)
<1>1. Len(e.secs) = Len(d.secs) + s /\ Len(d.secs) \in Nat /\ e.inc = d.inc + s /\ d.inc \in Nat
      /\ e.heap[n] = d.heap[n]
  BY DocFacts DEF SameAs
<1> SUFFICES ASSUME NEW k \in 1..Len(e.secs), k > e.inc, k # x + s
             PROVE  LET y == e.secs[k].table[n] IN
                    y.buf = None /\ (y.obj # None => e.heap[n][y.obj] = y.ofs)
  BY DEF TrueBut
<1>2. CASE e.secs[k].table[n] = Unset
  BY <1>2 DEF Unset
<1>3. CASE k - s \in 1..Len(d.secs) /\ e.secs[k].table[n] = d.secs[k - s].table[n]
  <2>1. k - s > d.inc /\ k - s # x
    BY <1>1
  <2> QED BY <1>1, <1>3, <2>1 DEF TrueBut
<1> QED BY <1>2, <1>3, SameSections

\* An object in use is found again behind the increment that is opened.
LEMMA OpenFind ==
  ASSUME NEW d, Fits(d), NEW n \in Num, InUse(d, n)
  PROVE  Find(OpenIncrement(d), 1, n) = Find(d, 1, n) + Ahead(d)
<1> DEFINE o == OpenIncrement(d)
           s == Ahead(d)
           k == Find(d, 1, n)
           L == Len(d.secs)
<1>1. Fits(o) /\ SameAs(d, o, n, s) /\ s \in {0, 1}
  BY OpenIncrementOK, OpenSame DEF Ahead
<1>2. o.index[n] = d.index[n] + s
  <2>1. d \in Docs /\ d.index[n] \in Nat
    BY DocFacts
  <2>2. CASE Opened(d)
    BY <2>1, <2>2 DEF OpenIncrement, Opened, Ahead
  <2>3. CASE ~Opened(d)
    BY <2>1, <2>3 DEF OpenIncrement, Opened, Ahead, Docs
  <2> QED BY <2>2, <2>3
<1>3. k \in d.index[n]..L /\ k \in 1..L /\ d.secs[k].table[n].type = "n"
      /\ d.index[n] \in 1..L /\ L \in Nat
  BY FindFacts, InUseFacts, DocFacts DEF InUse
<1>4. \A j \in d.index[n]..(k - 1) : d.secs[j].table[n].type = "unset"
  <2>1. CASE Holders(d, d.index[n], n) = {}
    BY <2>1, InUseFacts
  <2> QED BY <2>1, FindFacts
<1> DEFINE w == k + s
<1> HIDE DEF o, s, k
<1>5. Len(o.secs) = L + s /\ \A j \in 1..L : o.secs[j + s].table[n] = d.secs[j].table[n]
  BY <1>1 DEF SameAs
<1>6. w \in o.index[n]..Len(o.secs) /\ o.secs[w].table[n].type # "unset"
  <2>1. w \in (d.index[n] + s)..(L + s)
    <3> HIDE DEF L
    <3> QED BY <1>1, <1>3
  <2>2. o.secs[w].table[n] = d.secs[k].table[n]
    BY <1>3, <1>5
  <2> QED BY <1>2, <1>3, <1>5, <2>1, <2>2
<1>7. ASSUME NEW j \in o.index[n]..(w - 1) PROVE o.secs[j].table[n].type = "unset"
  <2>1. j - s \in d.index[n]..(k - 1) /\ j - s \in 1..L /\ (j - s) + s = j
    BY <1>1, <1>2, <1>3
  <2>2. o.secs[(j - s) + s].table[n] = d.secs[j - s].table[n]
    BY <1>5, <2>1
  <2> QED BY <1>4, <2>1, <2>2
<1> HIDE DEF w
<1>8. Find(o, 1, n) = w
  BY <1>1, <1>6, <1>7, FindIs
<1> QED BY <1>8 DEF o, s, k, w

\* A place in the newest increment: what has been signed is so still.
LEMMA IncrementalFlags ==
  ASSUME NEW d, Fits(d), NEW n \in Num
  PROVE  LET o == IncrementalEntry(d, n)
             p == OpenIncrement(d)
         IN  Len(o.secs) = Len(p.secs) /\ \A k \in 1..Len(p.secs) : o.secs[k].signed = p.secs[k].signed
<1> DEFINE p == OpenIncrement(d)
           o == IncrementalEntry(d, n)
<1>1. Fits(p) /\ Len(o.secs) = Len(p.secs)
  BY OpenIncrementOK, IncrementalEntryOK
<1>2. p \in Docs /\ DOMAIN p.secs = 1..Len(p.secs) /\ \A k \in 1..Len(p.secs) : p.secs[k] \in Section
  BY <1>1, DocFacts
<1>3. o = [p EXCEPT !.secs = [p.secs EXCEPT ![1] = [p.secs[1] EXCEPT !.len = Later(@, n)]],
                    !.len = Later(@, n), !.index[n] = 1]
  BY <1>2 DEF IncrementalEntry, Docs, Section
<1> HIDE DEF p, o
<1>4. o.secs = [p.secs EXCEPT ![1] = [p.secs[1] EXCEPT !.len = Later(@, n)]]
  BY <1>2, <1>3 DEF Docs
<1>5. \A k \in 1..Len(p.secs) : o.secs[k].signed = p.secs[k].signed
  BY SMTT(30), <1>2, <1>4 DEF Section
<1> QED BY <1>1, <1>5 DEF o, p

\* Moving an object into the newest increment: what changes.
LEMMA MovedShape ==
  ASSUME NEW d, Fits(d), NEW n \in Num, InUse(d, n), Unused(d, n) # {}, Opened(d),
         NEW at, at = Find(d, 1, n), at # 1, NEW e, e = Moved(d, n, at)
  PROVE  LET was == d.secs[at].table[n]
             left == e.secs[at].table[n]
         IN  /\ Fits(e) /\ Opened(e) /\ e.frozen = d.frozen /\ Frame(d, e) /\ Find(e, 1, n) = 1
             /\ at \in 2..Len(d.secs) /\ was.type = "n" /\ was \in Entry
             /\ NewCell(d, n) \in Unused(d, n)
             /\ \A j \in 1..Len(d.secs) : e.secs[j].signed = d.secs[j].signed
             /\ e.secs[1].table[n] = was
             /\ left \in Entry /\ left.type = "n" /\ left.ofs = was.ofs /\ left.buf = None
             /\ left.obj = IF at <= d.inc /\ was.obj # None THEN NewCell(d, n) ELSE None
             /\ \A j \in 1..Len(d.secs), m \in Num :
                   m # n \/ (j # 1 /\ j # at) => e.secs[j].table[m] = d.secs[j].table[m]
             /\ \A m \in Num, b \in Cells : e.heap[m][b] =
                   IF m = n /\ b = NewCell(d, n) /\ at <= d.inc /\ was.obj # None
                   THEN d.heap[n][was.obj] ELSE d.heap[m][b]
             /\ \A m \in Num : m # n => e.heap[m] = d.heap[m]
<1> DEFINE k == Find(d, 1, n)
           old == d.secs[k].table[n]
           copied == k <= d.inc /\ old.obj # None
           c == NewCell(d, n)
           v == d.heap[n][old.obj]
           x == IF copied THEN [old EXCEPT !.obj = c, !.buf = None]
                ELSE [old EXCEPT !.obj = None, !.buf = None]
           i == IncrementalEntry(d, n)
           p == Put(i, 1, n, old)
           q == IF copied THEN [p EXCEPT !.heap[n][c] = v] ELSE p
           r == Put(q, k, n, x)
           o == Moved(d, n, k)
           L == Len(d.secs)
<1>0. at = k /\ e = o
  OBVIOUS
<1>1. /\ k \in 1..L /\ k # 1 /\ old = Found(d, 1, n) /\ old \in Entry /\ old.type = "n"
  BY FindFacts, InUseFacts DEF InUse
<1>2. OpenIncrement(d) = d /\ L \in Nat \ {0}
  BY DocFacts DEF OpenIncrement, Opened
<1>3. k \in 2..L
  BY <1>1, <1>2
<1>4. /\ Fits(i) /\ i.heap = d.heap /\ i.frozen = d.frozen /\ i.index[n] = 1
      /\ n <= i.secs[1].len /\ i.inc = d.inc /\ Len(i.secs) = L
      /\ \A j \in 1..L : i.secs[j].table = d.secs[j].table
  BY <1>2, IncrementalEntryOK
<1>5. /\ Opened(i) /\ \A j \in 2..L : i.secs[j].len = d.secs[j].len
      /\ \A j \in 1..L : i.secs[j].signed = d.secs[j].signed
  <2>1. Opened(i) /\ SameAs(d, i, n, 0) /\ \A j \in 1..L : i.secs[j].signed = d.secs[j].signed
    BY <1>2, IncrementalSame, IncrementalFlags DEF Ahead
  <2>2. ASSUME NEW j \in 2..L PROVE i.secs[j].len = d.secs[j].len
    <3>1. j \in 1..L /\ j + 0 = j /\ j + 0 > 1
      BY <1>2
    <3> QED BY <2>1, <3>1 DEF SameAs
  <2> QED BY <2>1, <2>2
<1>6. c \in Cells /\ c \in Unused(d, n)
  BY NewCellOK
<1>7. x \in Entry /\ x.type = "n"
  BY <1>1, <1>6 DEF Entry
<1>8. v \in Stamp \cup {None} \/ ~copied
  <2>1. copied => old.obj \in Cells
    BY <1>1 DEF Entry
  <2>2. d.heap \in Heap
    BY SMTT(30), DocFacts
  <2> QED BY <2>1, <2>2 DEF Heap
<1>9. o = r
  BY DEF Moved
<1>10. n <= i.secs[k].len
  <2>1. i.secs[k].table[n].type # "unset"
    BY <1>1, <1>4
  <2> QED BY <1>1, <1>4, <2>1, DocFacts DEF Fits, Within
<1> HIDE DEF k, old, i, x, c, v, copied, o
<1>11. /\ Fits(p) /\ p.heap = i.heap /\ p.frozen = i.frozen /\ p.inc = i.inc /\ p.index = i.index
       /\ Len(p.secs) = L
       /\ \A j \in 1..L : /\ p.secs[j].len = i.secs[j].len /\ p.secs[j].signed = i.secs[j].signed
                          /\ \A m \in Num : p.secs[j].table[m] =
                                IF j = 1 /\ m = n THEN old ELSE i.secs[j].table[m]
  <2>1. (old.type # "unset" => n <= i.secs[1].len) /\ (old.type = "n" => i.index[n] <= 1)
        /\ 1 \in 1..Len(i.secs)
    BY <1>2, <1>4
  <2> QED BY SMTT(30), <1>1, <1>4, <2>1, PutOK
<1> HIDE DEF p
<1>12. /\ Fits(q) /\ q.frozen = p.frozen /\ q.inc = p.inc /\ q.index = p.index /\ q.secs = p.secs
       /\ \A m \in Num, b \in Cells : q.heap[m][b] =
             IF m = n /\ b = c /\ copied THEN v ELSE p.heap[m][b]
  <2>1. CASE copied
    BY <1>6, <1>8, <1>11, <2>1, HeapOK
  <2>2. CASE ~copied
    BY <1>11, <2>2
  <2> QED BY <2>1, <2>2
<1> HIDE DEF q
<1>13. /\ Fits(r) /\ r.heap = q.heap /\ r.frozen = q.frozen /\ r.inc = q.inc /\ r.index = q.index
       /\ Len(r.secs) = L
       /\ \A j \in 1..L : /\ r.secs[j].len = q.secs[j].len /\ r.secs[j].signed = q.secs[j].signed
                          /\ \A m \in Num : r.secs[j].table[m] =
                                IF j = k /\ m = n THEN x ELSE q.secs[j].table[m]
  <2>1. (x.type # "unset" => n <= q.secs[k].len) /\ (x.type = "n" => q.index[n] <= k)
        /\ k \in 1..Len(q.secs)
    <3>1. k \in 1..L /\ q.secs[k].len = i.secs[k].len /\ k \in Nat /\ 1 <= k
      BY <1>2, <1>3, <1>11, <1>12
    <3>2. q.index[n] = 1 /\ Len(q.secs) = L
      BY <1>4, <1>11, <1>12
    <3> QED BY <1>10, <3>1, <3>2
  <2>2. /\ Fits(r) /\ r.heap = q.heap /\ r.frozen = q.frozen /\ r.inc = q.inc /\ r.index = q.index
        /\ Len(r.secs) = Len(q.secs)
        /\ \A j \in 1..Len(q.secs) :
              /\ r.secs[j].len = q.secs[j].len /\ r.secs[j].signed = q.secs[j].signed
              /\ \A m \in Num : r.secs[j].table[m] =
                    IF j = k /\ m = n THEN x ELSE q.secs[j].table[m]
    <3>1. Fits(q) /\ x \in Entry
      BY <1>7, <1>12
    <3> QED BY <2>1, <3>1, PutOK
  <2>3. Len(q.secs) = L
    BY <1>11, <1>12
  <2> HIDE DEF r
  <2> QED BY <2>2, <2>3
<1> HIDE DEF r
<1>14. 1 \in 1..L /\ k \in 1..L /\ k # 1
  BY <1>1, <1>2
<1>15. /\ r.secs[1].table[n] = old /\ r.secs[k].table[n] = x
       /\ \A j \in 1..L, m \in Num :
             m # n \/ (j # 1 /\ j # k) => r.secs[j].table[m] = d.secs[j].table[m]
  BY <1>4, <1>11, <1>12, <1>13, <1>14
<1>16. \A m \in Num, b \in Cells : r.heap[m][b] =
             IF m = n /\ b = c /\ copied THEN v ELSE d.heap[m][b]
  BY <1>4, <1>11, <1>12, <1>13
<1>17. ASSUME NEW m \in Num, m # n PROVE r.heap[m] = d.heap[m]
  <2>1. r.heap \in Heap /\ d.heap \in Heap
    BY <1>13, DocFacts
  <2>2. r.heap[m] \in [Cells -> Stamp \cup {None}] /\ d.heap[m] \in [Cells -> Stamp \cup {None}]
    BY <2>1 DEF Heap
  <2> QED BY <1>16, <1>17, <2>2
<1>18. Opened(r) /\ r.frozen = d.frozen
  BY <1>4, <1>5, <1>11, <1>12, <1>13, <1>14 DEF Opened
<1>19. Frame(d, r)
  <2>1. ASSUME NEW j \in 2..L PROVE r.secs[j].len = d.secs[j].len
    <3>1. j \in 1..L
      BY <1>2
    <3> QED BY <1>5, <1>11, <1>12, <1>13, <3>1
  <2> QED BY <1>4, <1>11, <1>12, <1>13, <2>1 DEF Frame
<1>20. Find(r, 1, n) = 1
  <2>1. r.index[n] = 1 /\ r.secs[1].table[n].type # "unset"
    BY <1>1, <1>4, <1>11, <1>12, <1>13, <1>15
  <2> QED BY <1>13, <2>1, FoundFirst
<1>21. x.ofs = old.ofs /\ x.buf = None /\ x.obj = IF copied THEN c ELSE None
  BY <1>1, <1>6 DEF x, Entry
<1>22. e = r /\ at = k /\ old = d.secs[at].table[n] /\ c = NewCell(d, n)
       /\ (copied <=> at <= d.inc /\ old.obj # None) /\ (copied => v = d.heap[n][old.obj])
  BY <1>0, <1>9 DEF old, c, copied, v
<1>23. /\ Fits(e) /\ Opened(e) /\ e.frozen = d.frozen /\ Frame(d, e) /\ Find(e, 1, n) = 1
       /\ at \in 2..L /\ old.type = "n" /\ old \in Entry /\ c \in Unused(d, n)
  BY <1>1, <1>3, <1>6, <1>13, <1>18, <1>19, <1>20, <1>22
<1>24. \A m \in Num, b \in Cells : e.heap[m][b] =
             IF m = n /\ b = c /\ at <= d.inc /\ old.obj # None
             THEN d.heap[n][old.obj] ELSE d.heap[m][b]
  BY <1>16, <1>22
<1>25. /\ e.secs[1].table[n] = old /\ e.secs[at].table[n] = x
       /\ \A j \in 1..L, m \in Num :
             m # n \/ (j # 1 /\ j # at) => e.secs[j].table[m] = d.secs[j].table[m]
       /\ \A m \in Num : m # n => e.heap[m] = d.heap[m]
  BY <1>15, <1>17, <1>22
<1>26. \A m \in Num, b \in Cells : e.heap[m][b] =
             IF m = n /\ b = NewCell(d, n) /\ at <= d.inc /\ d.secs[at].table[n].obj # None
             THEN d.heap[n][d.secs[at].table[n].obj] ELSE d.heap[m][b]
  BY <1>22, <1>24
<1> DEFINE left == e.secs[at].table[n]
<1>27. /\ left \in Entry /\ left.type = "n" /\ left.buf = None
       /\ left.ofs = d.secs[at].table[n].ofs
       /\ left.obj = IF at <= d.inc /\ d.secs[at].table[n].obj # None THEN NewCell(d, n)
                     ELSE None
  BY <1>7, <1>21, <1>22, <1>25
<1>28. /\ at \in 2..L /\ d.secs[at].table[n].type = "n" /\ d.secs[at].table[n] \in Entry
       /\ NewCell(d, n) \in Unused(d, n) /\ e.secs[1].table[n] = d.secs[at].table[n]
  BY <1>22, <1>23, <1>25
<1>29. \A j \in 1..L : e.secs[j].signed = d.secs[j].signed
  BY <1>5, <1>11, <1>12, <1>13, <1>22
<1> QED BY <1>23, <1>25, <1>26, <1>27, <1>28, <1>29

-----------------------------------------------------------------------------
(* Alterations *)

\* What is true of all sections of the file is true of all but one.
LEMMA TrueAll ==
  ASSUME NEW d, NEW n, NEW x, FileTrue(d, n)
  PROVE  TrueBut(d, n, x)
<1>1. \A k \in 1..Len(d.secs) : k # 0
  OBVIOUS
<1> QED BY <1>1 DEF FileTrue, TrueBut

\* And what is true of all but an increment is true of all.
LEMMA TrueIncrement ==
  ASSUME NEW d, Fits(d), NEW n, NEW x \in 1..d.inc, TrueBut(d, n, x)
  PROVE  FileTrue(d, n)
<1>1. \A k \in 1..Len(d.secs) : k > d.inc => k # x
  BY DocFacts
<1> QED BY <1>1 DEF FileTrue, TrueBut

\* Moving an object into the newest increment preserves every object, and
\* makes up for a stream that was replaced in a section of the file.
LEMMA EnsureTidy ==
  ASSUME NEW d, Fits(d), NEW n \in Num, InUse(d, n), Unused(d, n) # {}
  PROVE  LET o == EnsureIncremental(d, n) IN
         /\ Opened(o) /\ Find(o, 1, n) = 1 /\ o.frozen = d.frozen
         /\ Opened(d) => Frame(d, o)
         /\ \A m \in Num : m # n => Preserves(d, o, m)
         /\ Carries(d, o, n)
         /\ Tidy(d, n) /\ TrueBut(d, n, Find(d, 1, n)) => FileTrue(o, n)
<1> DEFINE a == OpenIncrement(d)
           s == Ahead(d)
           k == Find(a, 1, n)
           H == Holders(a, a.index[n], n)
           o == EnsureIncremental(d, n)
<1>1. /\ Fits(a) /\ a.heap = d.heap /\ a.frozen = d.frozen /\ Opened(a)
      /\ InUse(a, n) /\ k = Find(d, 1, n) + s /\ s \in {0, 1}
      /\ SameAs(d, a, n, s) /\ \A m \in Num : Preserves(d, a, m)
  <2>1. /\ Fits(a) /\ a.heap = d.heap /\ a.frozen = d.frozen /\ Opened(a) /\ InUse(a, n)
    BY OpenIncrementOK DEF Opened, Keeps
  <2> QED BY <2>1, OpenFind, OpenSame, IncrementalTidy DEF Ahead
<1>2. Opened(d) => a = d
  BY DEF OpenIncrement, Opened
<1>3. /\ k \in 1..Len(a.secs) /\ k = Min(H) /\ k \in H /\ a.secs[k].table[n].type = "n"
      /\ Len(a.secs) \in Nat
  BY <1>1, FindFacts, InUseFacts, DocFacts DEF InUse
<1>4. Unused(a, n) # {}
  BY <1>1 DEF Unused
<1>5. 1 \in H <=> k = 1
  <2>1. H \in SUBSET Nat
    <3>1. a.index[n] \in Nat
      BY <1>1, DocFacts
    <3> QED BY <1>3, <3>1 DEF Holders
  <2>2. \A j \in H : k <= j
    BY <1>3, <2>1, MinIs
  <2>3. 1 \in H => k <= 1
    BY <2>2
  <2> QED BY <1>3, <2>3
<1>6. o = IF k = 1 THEN a ELSE Moved(a, n, k)
  BY <1>3, <1>5 DEF EnsureIncremental
<1>7. ASSUME TrueBut(d, n, Find(d, 1, n)) PROVE TrueBut(a, n, k)
  <2>1. Find(d, 1, n) \in Int
    BY FindFacts
  <2> QED BY <1>1, <1>7, <2>1, SameTrueBut
<1> HIDE DEF a, s, k, H
<1>8. CASE k = 1
  <2>1. o = a
    BY <1>6, <1>8
  <2> HIDE DEF o
  <2>2. 1 \in 1..a.inc
    BY <1>1, DocFacts DEF Opened
  <2>3. ASSUME TrueBut(d, n, Find(d, 1, n)) PROVE FileTrue(a, n)
    BY <1>1, <1>7, <1>8, <2>2, <2>3, TrueIncrement
  <2>4. Frame(a, a)
    BY DEF Frame
  <2>5. Find(a, 1, n) = 1
    BY <1>8 DEF k
  <2> QED BY <1>1, <1>2, <2>1, <2>3, <2>4, <2>5 DEF Preserves, o
<1>9. CASE k # 1
  <2> DEFINE old == a.secs[k].table[n]
             c == NewCell(a, n)
             x == o.secs[k].table[n]
  <2>1. o = Moved(a, n, k) /\ k = Find(a, 1, n)
    BY <1>6, <1>9 DEF k
  <2> HIDE DEF o
  <2>2. /\ Fits(o) /\ Opened(o) /\ o.frozen = a.frozen /\ Frame(a, o) /\ Find(o, 1, n) = 1
        /\ k \in 2..Len(a.secs) /\ old.type = "n" /\ old \in Entry
        /\ c \in Unused(a, n)
        /\ o.secs[1].table[n] = old
        /\ x \in Entry /\ x.type = "n" /\ x.ofs = old.ofs /\ x.buf = None
        /\ x.obj = IF k <= a.inc /\ old.obj # None THEN c ELSE None
        /\ \A j \in 1..Len(a.secs), m \in Num :
              m # n \/ (j # 1 /\ j # k) => o.secs[j].table[m] = a.secs[j].table[m]
        /\ \A m \in Num, b \in Cells : o.heap[m][b] =
              IF m = n /\ b = c /\ k <= a.inc /\ old.obj # None
              THEN a.heap[n][old.obj] ELSE a.heap[m][b]
        /\ \A m \in Num : m # n => o.heap[m] = a.heap[m]
    <3>1. Fits(a) /\ InUse(a, n) /\ Opened(a)
      BY <1>1
    <3>2. /\ Fits(o) /\ Opened(o) /\ o.frozen = a.frozen /\ Frame(a, o) /\ Find(o, 1, n) = 1
          /\ k \in 2..Len(a.secs) /\ old.type = "n" /\ old \in Entry
          /\ c \in Unused(a, n) /\ o.secs[1].table[n] = old
      BY <1>4, <1>9, <2>1, <3>1, MovedShape
    <3>3. /\ x \in Entry /\ x.type = "n" /\ x.ofs = old.ofs /\ x.buf = None
          /\ x.obj = IF k <= a.inc /\ old.obj # None THEN c ELSE None
      BY <1>4, <1>9, <2>1, <3>1, MovedShape
    <3>4. \A j \in 1..Len(a.secs), m \in Num :
              m # n \/ (j # 1 /\ j # k) => o.secs[j].table[m] = a.secs[j].table[m]
      BY <1>4, <1>9, <2>1, <3>1, MovedShape
    <3>5. \A m \in Num, b \in Cells : o.heap[m][b] =
              IF m = n /\ b = c /\ k <= a.inc /\ old.obj # None
              THEN a.heap[n][old.obj] ELSE a.heap[m][b]
      BY SMTT(30), <1>4, <1>9, <2>1, <3>1, MovedShape
    <3>6. \A m \in Num : m # n => o.heap[m] = a.heap[m]
      BY <1>4, <1>9, <2>1, <3>1, MovedShape
    <3> HIDE DEF x, c, old
    <3> QED BY <3>2, <3>3, <3>4, <3>5, <3>6
  <2>3. ASSUME NEW m \in Num, m # n PROVE Preserves(d, o, m)
    <3>1. Preserves(a, o, m)
      <4>1. /\ Len(o.secs) = Len(a.secs) /\ o.inc = a.inc /\ o.heap[m] = a.heap[m]
            /\ \A j \in 1..Len(a.secs) : o.secs[j].table[m] = a.secs[j].table[m]
            /\ \A j \in 2..Len(a.secs) : o.secs[j].len = a.secs[j].len
        BY <2>2, <2>3 DEF Frame
      <4> QED BY <1>1, <2>2, <4>1, EqualTidy
    <3>2. Preserves(d, a, m)
      BY <1>1
    <3> QED BY <3>1, <3>2, PreservesTwice
  <2>4. ASSUME Tidy(a, n)
        PROVE  /\ Tidy(o, n) /\ (Grown(a, n) => Grown(o, n))
               /\ TrueBut(a, n, k) => FileTrue(o, n)
    <3>2. c # None /\ c \in Cells
      BY <1>1, <2>2, <2>4, FreshCell DEF Tidy
    <3>3. \/ x.obj = None /\ (k > a.inc \/ old.obj = None)
          \/ /\ x.obj \in Unused(a, n) /\ k <= a.inc
             /\ old.obj # None
             /\ o.heap[n][x.obj] = a.heap[n][old.obj]
      <4>1. CASE k <= a.inc /\ old.obj # None
        BY <2>2, <3>2, <4>1
      <4>2. CASE ~(k <= a.inc /\ old.obj # None)
        <5>1. k > a.inc \/ old.obj = None
          BY <1>1, <1>3, <4>2, DocFacts
        <5> QED BY <2>2, <4>2, <5>1
      <4> QED BY <4>1, <4>2
    <3>4. \A b \in Cells : b # x.obj => o.heap[n][b] = a.heap[n][b]
      BY <2>2
    <3>5. \A j \in 2..Len(a.secs) : j # k => o.secs[j].table[n] = a.secs[j].table[n]
      BY <2>2
    <3>6. a.inc # 0 /\ a.secs[k].table[n] = old
      BY <1>1 DEF Opened
    <3>7. o.secs[k].table[n] = x
      OBVIOUS
    <3>8. Fits(a) /\ Fits(o) /\ Frame(a, o) /\ k \in 2..Len(a.secs) /\ old.type = "n"
          /\ o.secs[1].table[n] = old /\ x \in Entry /\ x.type = "n"
          /\ x.ofs = old.ofs /\ x.buf = None
      BY <1>1, <2>2
    <3> HIDE DEF x, c, old
    <3> QED BY SMTT(60), <2>4, <3>3, <3>4, <3>5, <3>6, <3>7, <3>8, MovedTidy
  <2>5. /\ Carries(d, o, n)
        /\ Tidy(d, n) /\ TrueBut(d, n, Find(d, 1, n)) => FileTrue(o, n)
    BY <1>1, <1>7, <2>4 DEF Preserves, Carries
  <2>6. Opened(d) => Frame(d, o)
    BY <1>2, <2>2
  <2> HIDE DEF x, c, old
  <2> QED BY <1>1, <2>2, <2>3, <2>5, <2>6 DEF o
<1> QED BY <1>8, <1>9

\* Writing an object through the pointer that everybody reads.
LEMMA WriteTidy ==
  ASSUME NEW d, Fits(d), NEW n \in Num, InUse(d, n), NEW cell \in Cells, cell = ObjectOf(d, n),
         edits + 1 \in Stamp
  PROVE  LET o == [d EXCEPT !.heap[n][cell] = edits + 1] IN
         /\ Fits(o) /\ o.secs = d.secs /\ o.inc = d.inc /\ o.frozen = d.frozen
         /\ \A m \in Num : m # n => Preserves(d, o, m)
         /\ Carries(d, o, n)
         /\ Tidy(d, n) /\ FileTrue(d, n) /\ Find(d, 1, n) <= d.inc => FileTrue(o, n)
<1> DEFINE o == [d EXCEPT !.heap[n][cell] = edits + 1]
           k == Find(d, 1, n)
           L == Len(d.secs)
<1>1. /\ Fits(o) /\ o.frozen = d.frozen /\ o.inc = d.inc /\ o.secs = d.secs
      /\ \A m \in Num, b \in Cells :
            o.heap[m][b] = IF m = n /\ b = cell THEN edits + 1 ELSE d.heap[m][b]
  <2>1. edits + 1 \in Stamp \cup {None}
    OBVIOUS
  <2> QED BY <2>1, HeapOK
<1>2. /\ k \in 1..L /\ d.secs[k].table[n].type = "n" /\ d.secs[k].table[n].obj = cell
      /\ cell # None /\ edits + 1 # None
      /\ \A j \in 1..L : d.secs[j].table[n].obj \in Cells \cup {None}
  <2>1. k \in 1..L /\ d.secs[k].table[n].type = "n" /\ d.secs[k].table[n].obj = cell
    BY FindFacts, InUseFacts DEF InUse, ObjectOf
  <2>2. cell # None /\ edits + 1 # None
    BY BoundsAssumption DEF Stamp
  <2> QED BY <2>1, <2>2, DocFacts DEF Entry
<1> HIDE DEF o, k
<1>3. Frame(d, o)
  BY <1>1 DEF Frame
<1>4. ASSUME NEW m \in Num, m # n PROVE Preserves(d, o, m)
  <2>1. o.heap \in Heap /\ d.heap \in Heap
    BY <1>1, DocFacts
  <2>2. o.heap[m] \in [Cells -> Stamp \cup {None}] /\ d.heap[m] \in [Cells -> Stamp \cup {None}]
    BY <2>1 DEF Heap
  <2>3. o.heap[m] = d.heap[m]
    BY <1>1, <1>4, <2>2
  <2> QED BY <1>1, <2>3, EqualTidy
<1>5. ASSUME Tidy(d, n)
      PROVE  /\ Tidy(o, n) /\ (Grown(d, n) => Grown(o, n))
             /\ FileTrue(d, n) /\ k <= d.inc => FileTrue(o, n)
  <2>1. Above(o, n) /\ (Grown(d, n) => Grown(o, n))
    BY <1>1, <1>3, <1>5, TypesTidy DEF Tidy
  <2>2. \A j \in 1..L : j # k =>
            /\ o.secs[j].table[n] = d.secs[j].table[n]
            /\ d.secs[j].table[n].obj # None =>
                  /\ o.heap[n][d.secs[j].table[n].obj] = d.heap[n][d.secs[j].table[n].obj]
                  /\ o.secs[k].table[n].obj # d.secs[j].table[n].obj
    BY <1>1, <1>2, <1>5 DEF Tidy, Unshared
  <2>3. LET x == o.secs[k].table[n] IN
            /\ x.type # "unset"
            /\ x.type = "n" /\ (x.obj = None \/ k > d.inc) => x.ofs # None
            /\ x.obj # None => o.heap[n][x.obj] # None
    BY <1>1, <1>2, <1>5 DEF Tidy, Alive
  <2>4. /\ Alive(d, n) => Alive(o, n)
        /\ Unshared(d, n) => Unshared(o, n)
        /\ k <= d.inc => (FileTrue(d, n) => FileTrue(o, n))
    BY <1>1, <1>2, <1>3, <2>2, <2>3, EntryTidy
  <2> QED BY <1>5, <2>1, <2>4 DEF Tidy
<1> QED BY <1>1, <1>4, <1>5 DEF o, k, Carries

\* Changing an object through the pointer that everybody reads: all stays in
\* order, and a stream replaced in a section of the file is made up for, unless
\* the document is frozen.
LEMMA AlterTidy ==
  ASSUME NEW d, Fits(d), NEW n \in Num, InUse(d, n), Unused(d, n) # {},
         NEW cell \in Cells, cell = ObjectOf(d, n), edits + 1 \in Stamp
  PROVE  LET o == Alter(d, n, cell) IN
         /\ o.frozen = d.frozen
         /\ Opened(d) => Opened(o) /\ Frame(d, o)
         /\ \A m \in Num : m # n => Preserves(d, o, m)
         /\ Carries(d, o, n)
         /\ Tidy(d, n) /\ ~d.frozen /\ TrueBut(d, n, Find(d, 1, n)) => FileTrue(o, n)
<1> DEFINE e == EnsureIncremental(d, n)
           p == IF d.frozen THEN d ELSE e
           o == [p EXCEPT !.heap[n][cell] = edits + 1]
<1>1. Fits(e) /\ InUse(e, n) /\ ObjectOf(e, n) = cell
  BY EnsureIncrementalOK
<1>2. /\ Opened(e) /\ Find(e, 1, n) = 1 /\ e.frozen = d.frozen
      /\ Opened(d) => Frame(d, e)
      /\ \A m \in Num : m # n => Preserves(d, e, m)
  BY EnsureTidy
<1>3. /\ Carries(d, e, n)
      /\ Tidy(d, n) /\ TrueBut(d, n, Find(d, 1, n)) => FileTrue(e, n)
  BY EnsureTidy
<1>4. /\ Fits(p) /\ InUse(p, n) /\ ObjectOf(p, n) = cell /\ p.frozen = d.frozen
      /\ Opened(d) => Opened(p) /\ Frame(d, p)
      /\ \A m \in Num : m # n => Preserves(d, p, m)
      /\ Carries(d, p, n)
      /\ ~d.frozen => p = e
  <2>1. CASE d.frozen
    BY <2>1 DEF Frame, Preserves, Carries
  <2>2. CASE ~d.frozen
    <3>1. p = e
      BY <2>2
    <3> HIDE DEF p, e
    <3> QED BY <1>1, <1>2, <1>3, <3>1
  <2> QED BY <2>1, <2>2
<1>5. Alter(d, n, cell) = o
  BY DEF Alter
<1> HIDE DEF p, e
<1>6. /\ o.secs = p.secs /\ o.inc = p.inc /\ o.frozen = p.frozen
      /\ \A m \in Num : m # n => Preserves(p, o, m)
  BY <1>4, WriteTidy
<1>7. /\ Carries(p, o, n)
      /\ Tidy(p, n) /\ FileTrue(p, n) /\ Find(p, 1, n) <= p.inc => FileTrue(o, n)
  BY <1>4, WriteTidy
<1> HIDE DEF o
<1>8. Opened(d) => Opened(o) /\ Frame(d, o)
  BY <1>4, <1>6 DEF Opened, Frame
<1>9. \A m \in Num : m # n => Preserves(d, o, m)
  BY <1>4, <1>6, PreservesTwice
<1>10. ASSUME Tidy(d, n), ~d.frozen, TrueBut(d, n, Find(d, 1, n)) PROVE FileTrue(o, n)
  <2>1. p = e /\ Tidy(p, n) /\ FileTrue(p, n) /\ Find(p, 1, n) = 1 /\ Opened(p)
    BY <1>2, <1>3, <1>4, <1>10 DEF Carries
  <2>2. Find(p, 1, n) <= p.inc
    BY <1>4, <2>1, DocFacts DEF Opened
  <2> QED BY <1>7, <2>1, <2>2
<1>11. Carries(d, o, n)
  BY <1>4, <1>7 DEF Carries
<1> QED BY <1>4, <1>5, <1>6, <1>8, <1>9, <1>10, <1>11

\* The same for an object that is read first.
LEMMA AlterObjectTidy ==
  ASSUME NEW d, Fits(d), NEW n \in Num, InUse(d, n), edits + 1 \in Stamp,
         Spare(d, n) \/ (Unused(d, n) # {} /\ ObjectOf(d, n) # None)
  PROVE  LET o == AlterObject(d, n) IN
         /\ o.frozen = d.frozen
         /\ Opened(d) => Opened(o) /\ Frame(d, o)
         /\ \A m \in Num : m # n => Preserves(d, o, m)
         /\ Carries(d, o, n)
         /\ Tidy(d, n) /\ ~d.frozen /\ FileTrue(d, n) => FileTrue(o, n)
         /\ Tidy(d, n) /\ ~d.frozen /\ ObjectOf(d, n) # None /\ TrueBut(d, n, Find(d, 1, n))
            => FileTrue(o, n)
<1> DEFINE c == CacheObject(d, n)
           k == Find(d, 1, n)
           a == ObjectOf(c, n)
           o == Alter(c, n, a)
<1>1. Unused(d, n) # {}
  BY BoundsAssumption DEF Spare
<1>2. /\ Fits(c) /\ InUse(c, n) /\ a \in Cells /\ c.frozen = d.frozen
      /\ ObjectOf(d, n) # None => Unused(c, n) = Unused(d, n)
      /\ \E b \in Cells \cup {None} : Unused(d, n) \ {b} \subseteq Unused(c, n)
  BY <1>1, CacheObjectOK
<1>3. Unused(c, n) # {}
  BY <1>2 DEF Spare
<1>4. \A m \in Num : Preserves(d, c, m)
  BY <1>1, CacheTidy
<1>5. Find(c, 1, n) = k /\ Frame(d, c) /\ (Opened(d) => Opened(c))
  <2>1. /\ Find(c, 1, n) = k /\ Len(c.secs) = Len(d.secs) /\ c.inc = d.inc
        /\ \A j \in 1..Len(d.secs) : c.secs[j].len = d.secs[j].len /\ c.secs[j].signed = d.secs[j].signed
    BY <1>1, CacheShape
  <2>2. Len(d.secs) \in Nat \ {0}
    BY DocFacts
  <2>3. 1 \in 1..Len(d.secs) /\ \A j \in 2..Len(d.secs) : j \in 1..Len(d.secs)
    BY <2>2
  <2> HIDE DEF c, k
  <2> QED BY <2>1, <2>3 DEF Opened, Frame
<1>6. ASSUME ObjectOf(d, n) # None PROVE TrueBut(d, n, k) => TrueBut(c, n, k)
  <2>1. d.secs[k].table[n].obj # None
    BY <1>6, FindFacts, InUseFacts DEF ObjectOf
  <2>2. c = [d EXCEPT !.index[n] = k]
    BY <2>1 DEF CacheObject
  <2>3. c.secs = d.secs /\ c.heap = d.heap /\ c.inc = d.inc
    BY <2>2, DocFacts DEF Docs
  <2> HIDE DEF c, k
  <2> QED BY <2>3 DEF TrueBut
<1>7. AlterObject(d, n) = o
  BY DEF AlterObject
<1> HIDE DEF c, k
<1>8. /\ o.frozen = c.frozen
      /\ Opened(c) => Opened(o) /\ Frame(c, o)
      /\ \A m \in Num : m # n => Preserves(c, o, m)
      /\ Carries(c, o, n)
      /\ Tidy(c, n) /\ ~c.frozen /\ TrueBut(c, n, Find(c, 1, n)) => FileTrue(o, n)
  BY <1>2, <1>3, AlterTidy
<1> HIDE DEF o, a
<1>9. Frame(c, o) => Frame(d, o)
  BY <1>5 DEF Frame
<1>10. Carries(d, c, n) /\ (Tidy(d, n) /\ FileTrue(d, n) => FileTrue(c, n))
  BY <1>4 DEF Preserves
<1>11. FileTrue(c, n) => TrueBut(c, n, k)
  BY TrueAll
<1>12. \A m \in Num : m # n => Preserves(d, o, m)
  BY <1>4, <1>8, PreservesTwice
<1>13. Opened(d) => Opened(o) /\ Frame(d, o)
  BY <1>5, <1>8, <1>9
<1>14. o.frozen = d.frozen /\ Carries(d, o, n)
  BY <1>2, <1>8, <1>10 DEF Carries
<1>15. Tidy(d, n) /\ ~d.frozen /\ FileTrue(d, n) => FileTrue(o, n)
  BY <1>2, <1>5, <1>8, <1>10, <1>11 DEF Carries
<1>16. Tidy(d, n) /\ ~d.frozen /\ ObjectOf(d, n) # None /\ TrueBut(d, n, k) => FileTrue(o, n)
  BY <1>2, <1>5, <1>6, <1>8, <1>10 DEF Carries
<1> QED BY <1>7, <1>12, <1>13, <1>14, <1>15, <1>16 DEF k

\* Marking the newest increment as signed leaves every object in order.
LEMMA MarkTidy ==
  ASSUME NEW d, Fits(d), NEW n \in Num
  PROVE  Preserves(d, [d EXCEPT !.secs[1].signed = TRUE], n)
         /\ [d EXCEPT !.secs[1].signed = TRUE].frozen = d.frozen
<1> DEFINE o == [d EXCEPT !.secs[1].signed = TRUE]
           z == [d.secs EXCEPT ![1] = [d.secs[1] EXCEPT !.signed = TRUE]]
<1>1. Fits(o)
  BY MarkOK
<1>2. d \in Docs /\ Len(d.secs) \in Nat \ {0} /\ d.secs \in Seq(Section)
  BY DocFacts
<1>3. 1 \in 1..Len(d.secs) /\ d.secs[1] \in Section /\ DOMAIN d.secs = 1..Len(d.secs)
  <2>1. 1 \in 1..Len(d.secs)
    BY <1>2
  <2> QED BY <2>1, DocFacts
<1>4. o.secs = z /\ o.inc = d.inc /\ o.heap = d.heap /\ o.frozen = d.frozen
  BY <1>2 DEF Docs
<1>5. /\ Len(z) = Len(d.secs) /\ \A k \in 1..Len(d.secs) : z[k].table = d.secs[k].table /\ z[k].len = d.secs[k].len
  BY <1>2, <1>3 DEF Section
<1> HIDE DEF o, z
<1>6. \A k \in 2..Len(d.secs) : k \in 1..Len(d.secs)
  BY <1>2
<1>7. Preserves(d, o, n)
  BY <1>1, <1>4, <1>5, <1>6, EqualTidy
<1> QED BY <1>4, <1>7 DEF o

\* Freeing memory that nothing refers to.
LEMMA CollectTidy ==
  ASSUME NEW d, Fits(d), NEW h, NEW n \in Num
  PROVE  Preserves(d, Collect(d, h), n) /\ Collect(d, h).frozen = d.frozen
<1> DEFINE o == Collect(d, h)
           L == Len(d.secs)
<1>1. Fits(o) /\ o.secs = d.secs /\ o.inc = d.inc /\ o.frozen = d.frozen
  BY CollectOK
<1>2. L \in Nat /\ DOMAIN d.secs = 1..L
      /\ \A k \in 1..L : d.secs[k].table[n].obj \in Cells \cup {None}
  BY DocFacts DEF Entry
<1>3. ASSUME NEW k \in 1..L, d.secs[k].table[n].obj # None
      PROVE  o.heap[n][d.secs[k].table[n].obj] = d.heap[n][d.secs[k].table[n].obj]
  <2>1. d \in Docs
    BY DocFacts
  <2>2. o.heap = [m \in Num |-> [c \in Cells |->
                     IF c \in Referenced(d, h, m) THEN d.heap[m][c] ELSE None]]
    BY <2>1 DEF Collect, Docs
  <2>3. d.secs[k].table[n].obj \in Referenced(d, h, n)
    BY <1>2 DEF Referenced
  <2>4. d.secs[k].table[n].obj \in Cells
    BY <1>2, <1>3
  <2> HIDE DEF o
  <2> QED BY <2>2, <2>3, <2>4
<1> HIDE DEF o
<1>4. Frame(d, o)
  BY <1>1 DEF Frame
<1> SUFFICES ASSUME Tidy(d, n)
             PROVE  /\ Tidy(o, n) /\ (Grown(d, n) => Grown(o, n))
                    /\ FileTrue(d, n) => FileTrue(o, n)
  BY <1>1 DEF Preserves, Carries, o
<1>5. Above(o, n) /\ (Grown(d, n) => Grown(o, n))
  BY <1>1, <1>4, TypesTidy DEF Tidy
<1>6. Alive(o, n)
  BY <1>1, <1>3 DEF Tidy, Alive
<1>7. Unshared(o, n)
  BY <1>1 DEF Tidy, Unshared
<1>8. FileTrue(d, n) => FileTrue(o, n)
  BY <1>1, <1>3 DEF FileTrue, TrueBut
<1> QED BY <1>5, <1>6, <1>7, <1>8 DEF Tidy

-----------------------------------------------------------------------------
(* New objects and streams *)

\* Memory of an object that agrees everywhere is the same.
LEMMA SameHeap ==
  ASSUME NEW d, Fits(d), NEW e, Fits(e), NEW n \in Num, \A b \in Cells : e.heap[n][b] = d.heap[n][b]
  PROVE  e.heap[n] = d.heap[n]
<1>1. e.heap \in Heap /\ d.heap \in Heap
  BY DocFacts
<1>2. e.heap[n] \in [Cells -> Stamp \cup {None}] /\ d.heap[n] \in [Cells -> Stamp \cup {None}]
  BY <1>1 DEF Heap
<1> QED BY <1>2

\* An object that is written anew was in use, or is beyond the end of all
\* sections but the newest, an increment.
LEMMA UpdateTidy ==
  ASSUME NEW d, Fits(d), NEW n \in Num, Unused(d, n) # {}, edits + 1 \in Stamp,
         InUse(d, n) \/ (Opened(d) /\ Beyond(d, 1, n))
  PROVE  LET o == UpdateObject(d, n) IN
         /\ o.frozen = d.frozen
         /\ \A m \in Num : Preserves(d, o, m)
<1> DEFINE i == IncrementalEntry(d, n)
           c == NewCell(d, n)
           g == [i EXCEPT !.heap[n][c] = edits + 1]
           old == i.secs[1].table[n]
           x == [old EXCEPT !.type = "n", !.ofs = None, !.obj = c]
           o == Put(g, 1, n, x)
           s == Ahead(d)
<1>1. c \in Cells /\ c \in Unused(d, n) /\ c # None
  BY NewCellOK, BoundsAssumption
<1>2. /\ Fits(i) /\ i.heap = d.heap /\ i.frozen = d.frozen /\ i.inc # 0
      /\ n <= i.secs[1].len /\ i.index[n] = 1
  BY IncrementalEntryOK
<1>3. /\ Len(i.secs) \in Nat \ {0} /\ 1 \in 1..Len(i.secs) /\ i.inc \in Nat /\ i.inc < Len(i.secs)
      /\ old \in Entry
  <2>1. Len(i.secs) \in Nat \ {0} /\ i.inc \in Nat /\ i.inc < Len(i.secs)
    BY <1>2, DocFacts
  <2>2. 1 \in 1..Len(i.secs)
    BY <2>1
  <2> QED BY <1>2, <2>1, <2>2, DocFacts
<1>4. SameAs(d, i, n, s) /\ s \in {0, 1} /\ (Opened(d) => s = 0)
  BY IncrementalSame DEF Ahead
<1>5. \A m \in Num : Preserves(d, i, m)
  BY IncrementalTidy
<1>6. UpdateObject(d, n) = [i EXCEPT !.heap[n][c] = edits + 1, !.secs[1].table[n] = x]
  BY DEF UpdateObject
<1>7. [i EXCEPT !.heap[n][c] = edits + 1, !.secs[1].table[n] = x] = o
  <2>1. i \in Docs
    BY <1>2, DocFacts
  <2> QED BY <2>1 DEF Put, Docs
<1> HIDE DEF i, c
<1>8. /\ Fits(g) /\ g.frozen = i.frozen /\ g.inc = i.inc /\ g.index = i.index /\ g.secs = i.secs
      /\ \A m \in Num, b \in Cells : g.heap[m][b] = IF m = n /\ b = c THEN edits + 1 ELSE i.heap[m][b]
  <2>1. edits + 1 \in Stamp \cup {None}
    OBVIOUS
  <2> QED BY <1>1, <1>2, <2>1, HeapOK
<1>9. x \in Entry /\ x.type = "n" /\ x.ofs = None /\ x.obj = c
  BY <1>1, <1>3 DEF Entry
<1>10. g.secs[1].len = i.secs[1].len /\ g.index[n] = 1 /\ 1 \in 1..Len(g.secs)
  BY <1>2, <1>3, <1>8
<1> HIDE DEF g, x, old
<1>11. /\ Fits(o) /\ o.heap = g.heap /\ o.frozen = g.frozen /\ o.inc = g.inc
       /\ Len(o.secs) = Len(g.secs)
       /\ \A j \in 1..Len(g.secs) :
             /\ o.secs[j].len = g.secs[j].len
             /\ \A m \in Num : o.secs[j].table[m] =
                   IF j = 1 /\ m = n THEN x ELSE g.secs[j].table[m]
  <2>1. (x.type # "unset" => n <= g.secs[1].len) /\ (x.type = "n" => g.index[n] <= 1)
    BY <1>2, <1>10
  <2> QED BY <1>8, <1>9, <1>10, <2>1, PutOK
<1> HIDE DEF o
<1>12. /\ Frame(i, o) /\ Len(o.secs) = Len(i.secs) /\ o.inc = i.inc /\ o.secs[1].table[n] = x
       /\ \A j \in 1..Len(i.secs), m \in Num : j # 1 \/ m # n =>
             o.secs[j].table[m] = i.secs[j].table[m]
       /\ \A m \in Num, b \in Cells : o.heap[m][b] = IF m = n /\ b = c THEN edits + 1 ELSE i.heap[m][b]
  <2>1. \A j \in 2..Len(i.secs) : j \in 1..Len(i.secs)
    BY <1>3
  <2> QED BY <1>3, <1>8, <1>11, <2>1 DEF Frame
<1>13. ASSUME NEW m \in Num, m # n PROVE Preserves(i, o, m)
  <2>1. o.heap[m] = i.heap[m]
    BY <1>2, <1>11, <1>12, <1>13, SameHeap
  <2>2. \A j \in 1..Len(i.secs) : o.secs[j].table[m] = i.secs[j].table[m]
    BY <1>12, <1>13
  <2>3. \A j \in 2..Len(i.secs) : o.secs[j].len = i.secs[j].len
    BY <1>12 DEF Frame
  <2> QED BY <1>2, <1>11, <1>12, <2>1, <2>2, <2>3, EqualTidy
<1>14. ASSUME Tidy(i, n)
       PROVE  /\ Tidy(o, n) /\ (Grown(i, n) => Grown(o, n))
              /\ FileTrue(i, n) => FileTrue(o, n)
  <2>1. Above(o, n) /\ (Grown(i, n) => Grown(o, n))
    <3>1. \A j \in 2..Len(i.secs) : o.secs[j].table[n].type = i.secs[j].table[n].type
      BY <1>3, <1>12
    <3>2. CASE i.secs[1].table[n].type = "n"
      <4>1. \A j \in 1..Len(i.secs) : o.secs[j].table[n].type = i.secs[j].table[n].type
        BY <1>9, <1>12, <3>2
      <4> QED BY <1>2, <1>12, <1>14, <4>1, TypesTidy DEF Tidy
    <3>3. CASE i.secs[1].table[n].type # "n"
      <4>1. \/ \E j \in 2..Len(i.secs) : i.secs[j].table[n].type = "n"
            \/ Beyond(i, 1, n)
        <5>1. CASE InUse(d, n)
          <6> DEFINE k == Find(d, 1, n)
          <6>1. k \in 1..Len(d.secs) /\ d.secs[k].table[n].type = "n" /\ Len(d.secs) \in Nat
            BY <5>1, FindFacts, InUseFacts, DocFacts DEF InUse
          <6> DEFINE w == k + s
          <6>2. i.secs[w].table[n].type = "n" /\ Len(i.secs) = Len(d.secs) + s
            BY <1>4, <6>1 DEF SameAs
          <6> HIDE DEF k
          <6>3. w \in 1..Len(i.secs)
            BY <1>4, <6>1, <6>2
          <6> HIDE DEF w
          <6>4. w \in 2..Len(i.secs)
            BY <1>3, <3>3, <6>2, <6>3
          <6> QED BY <6>2, <6>4
        <5>2. CASE Opened(d) /\ Beyond(d, 1, n)
          <6> SUFFICES ASSUME NEW j \in 1..Len(i.secs), j > 1 PROVE n > i.secs[j].len
            BY DEF Beyond
          <6>1. SameAs(d, i, n, 0)
            BY <1>4, <5>2
          <6>2. Len(d.secs) \in Nat
            BY DocFacts
          <6>3. Len(i.secs) = Len(d.secs) + 0
            BY <6>1 DEF SameAs
          <6>4. j \in 1..Len(d.secs) /\ j + 0 = j /\ j + 0 > 1
            BY <6>2, <6>3
          <6>5. i.secs[j].len = d.secs[j].len
            BY <6>1, <6>4 DEF SameAs
          <6> QED BY <5>2, <6>4, <6>5 DEF Beyond
        <5> QED BY <5>1, <5>2
      <4>2. o.secs[1].table[n].type = "n"
        BY <1>9, <1>12
      <4> QED BY <1>2, <1>12, <1>14, <3>1, <4>1, <4>2, NewestTidy DEF Tidy
    <3> QED BY <3>2, <3>3
  <2>2. c \in Unused(i, n)
    BY <1>1, <1>2 DEF Unused
  <2>3. /\ \A j \in 1..Len(i.secs) : i.secs[j].table[n].obj # c
        /\ \A j \in 1..Len(i.secs) : i.secs[j].table[n].obj \in Cells \cup {None}
    <3>1. \A j \in 1..Len(i.secs) : i.secs[j].table[n].obj # c
      BY <1>2, <1>14, <2>2, FreshCell DEF Tidy
    <3> QED BY <1>2, <3>1, DocFacts DEF Entry
  <2>4. \A j \in 1..Len(i.secs) : j # 1 =>
            /\ o.secs[j].table[n] = i.secs[j].table[n]
            /\ i.secs[j].table[n].obj # None =>
                  /\ o.heap[n][i.secs[j].table[n].obj] = i.heap[n][i.secs[j].table[n].obj]
                  /\ o.secs[1].table[n].obj # i.secs[j].table[n].obj
    BY <1>9, <1>12, <2>3
  <2>5. LET y == o.secs[1].table[n] IN
            /\ y.type # "unset"
            /\ y.type = "n" /\ (y.obj = None \/ 1 > i.inc) => y.ofs # None
            /\ y.obj # None => o.heap[n][y.obj] # None
    <3>1. edits + 1 # None
      BY BoundsAssumption DEF Stamp
    <3>2. ~(1 > i.inc)
      BY <1>2, <1>3
    <3>3. o.heap[n][c] = edits + 1
      BY <1>1, <1>12
    <3> QED BY <1>1, <1>9, <1>12, <3>1, <3>2, <3>3
  <2>6. /\ Alive(i, n) => Alive(o, n)
        /\ Unshared(i, n) => Unshared(o, n)
        /\ 1 <= i.inc => (FileTrue(i, n) => FileTrue(o, n))
    BY <1>2, <1>3, <1>11, <1>12, <2>4, <2>5, EntryTidy
  <2>7. 1 <= i.inc
    BY <1>2, <1>3
  <2> QED BY <1>14, <2>1, <2>6, <2>7 DEF Tidy
<1>15. \A m \in Num : Preserves(i, o, m)
  BY <1>13, <1>14 DEF Preserves, Carries
<1>16. \A m \in Num : Preserves(d, o, m)
  BY <1>5, <1>15, PreservesTwice
<1>17. o.frozen = d.frozen
  BY <1>2, <1>8, <1>11
<1> QED BY <1>6, <1>7, <1>16, <1>17 DEF o, x, old, g

\* A number beyond the end is taken: no section has anything there.
LEMMA CreateTidy ==
  ASSUME NEW d, Fits(d), d.len < MaxNum
  PROVE  LET o == CreateObject(d) IN
         /\ Opened(o) /\ o.frozen = d.frozen /\ Beyond(o, 1, d.len + 1)
         /\ \A m \in Num : Preserves(d, o, m)
<1> DEFINE n == d.len + 1
           i == IncrementalEntry(d, n)
           o == Put(i, 1, n, Freed)
           s == Ahead(d)
<1>1. n \in Num /\ n \in Nat /\ d.len \in Nat /\ n > d.len
  BY DocFacts, BoundsAssumption DEF Num
<1>2. CreateObject(d) = o
  BY DEF CreateObject
<1> HIDE DEF n
<1>3. /\ Fits(i) /\ i.heap = d.heap /\ i.frozen = d.frozen /\ i.inc # 0 /\ n <= i.secs[1].len
  BY <1>1, IncrementalEntryOK
<1>4. /\ Len(i.secs) \in Nat \ {0} /\ 1 \in 1..Len(i.secs) /\ i.inc \in Nat /\ i.inc < Len(i.secs)
  <2>1. Len(i.secs) \in Nat \ {0} /\ i.inc \in Nat /\ i.inc < Len(i.secs)
    BY <1>3, DocFacts
  <2>2. 1 \in 1..Len(i.secs)
    BY <2>1
  <2> QED BY <2>1, <2>2
<1>5. SameAs(d, i, n, s) /\ s \in {0, 1} /\ Opened(i)
  BY <1>1, IncrementalSame DEF Ahead
<1>6. \A m \in Num : Preserves(d, i, m)
  BY <1>1, IncrementalTidy
<1> HIDE DEF i
<1>7. /\ Fits(o) /\ o.heap = i.heap /\ o.frozen = i.frozen /\ o.inc = i.inc
      /\ Len(o.secs) = Len(i.secs)
      /\ \A j \in 1..Len(i.secs) :
            /\ o.secs[j].len = i.secs[j].len /\ o.secs[j].signed = i.secs[j].signed
            /\ \A m \in Num : o.secs[j].table[m] =
                  IF j = 1 /\ m = n THEN Freed ELSE i.secs[j].table[m]
  <2>1. /\ Freed \in Entry /\ Freed.type # "n"
        /\ Freed.type # "unset" => n <= i.secs[1].len
    BY <1>3, UnsetFacts
  <2>2. n \in Num /\ Fits(i) /\ 1 \in 1..Len(i.secs)
    BY <1>1, <1>3, <1>4
  <2> QED BY <2>1, <2>2, PutOK
<1> HIDE DEF o
<1>8. Opened(o) /\ o.frozen = d.frozen /\ Frame(i, o)
  <2>1. \A j \in 2..Len(i.secs) : j \in 1..Len(i.secs)
    BY <1>4
  <2> QED BY <1>3, <1>4, <1>5, <1>7, <2>1 DEF Opened, Frame
<1>9. \A j \in 1..Len(i.secs) :
         /\ i.secs[j].table[n].type = "unset"
         /\ j > 1 => n > i.secs[j].len
  <2> SUFFICES ASSUME NEW j \in 1..Len(i.secs)
               PROVE  /\ i.secs[j].table[n].type = "unset"
                      /\ j > 1 => n > i.secs[j].len
    OBVIOUS
  <2>1. CASE j = 1 /\ s = 1 /\ i.secs[j].table[n] = Unset
    BY <2>1, UnsetFacts
  <2>2. CASE /\ j - s \in 1..Len(d.secs) /\ i.secs[j].table[n] = d.secs[j - s].table[n]
             /\ j > 1 => i.secs[j].len = d.secs[j - s].len
    <3>1. d.secs[j - s].len <= d.len /\ d.secs[j - s].len \in Int
          /\ (d.secs[j - s].table[n].type # "unset" => n <= d.secs[j - s].len)
      BY <1>1, <2>2, DocFacts DEF Fits, Within
    <3>2. n > d.secs[j - s].len
      BY <1>1, <3>1
    <3> QED BY <1>1, <2>2, <3>1, <3>2
  <2> HIDE DEF s
  <2>3. Fits(i) /\ n \in Num /\ s \in {0, 1} /\ SameAs(d, i, n, s)
    BY <1>1, <1>3, <1>5
  <2>4. \A k \in 1..Len(i.secs) :
            \/ k = 1 /\ s = 1 /\ i.secs[k].table[n] = Unset
            \/ /\ k - s \in 1..Len(d.secs) /\ i.secs[k].table[n] = d.secs[k - s].table[n]
               /\ k > 1 => i.secs[k].len = d.secs[k - s].len
    BY <2>3, SameSections
  <2> QED BY <2>1, <2>2, <2>4
<1>10. Beyond(o, 1, n)
  BY <1>7, <1>9 DEF Beyond
<1>11. ASSUME NEW m \in Num, m # n PROVE Preserves(i, o, m)
  <2>1. \A j \in 1..Len(i.secs) : o.secs[j].table[m] = i.secs[j].table[m]
    BY <1>7, <1>11
  <2>2. \A j \in 2..Len(i.secs) : o.secs[j].len = i.secs[j].len
    BY <1>8 DEF Frame
  <2> QED BY <1>3, <1>7, <2>1, <2>2, EqualTidy
<1>12. ASSUME Tidy(i, n)
       PROVE  Tidy(o, n) /\ Grown(o, n) /\ (FileTrue(i, n) => FileTrue(o, n))
  <2>1. Freed.type = "f" /\ Freed.obj = None
    BY DEF Freed, Unset
  <2>2. \A j \in 1..Len(i.secs) : o.secs[j].table[n].type # "n"
    BY <1>1, <1>7, <1>9, <2>1
  <2>3. Above(o, n) /\ Grown(o, n)
    <3>1. \A k \in 1..i.inc : k \in 1..Len(i.secs)
      BY <1>4
    <3> QED BY <1>7, <2>2, <3>1 DEF Above, Grown
  <2>4. o.secs[1].table[n] = Freed
    BY <1>1, <1>4, <1>7
  <2>5. \A j \in 1..Len(i.secs) : j # 1 =>
            /\ o.secs[j].table[n] = i.secs[j].table[n]
            /\ i.secs[j].table[n].obj # None =>
                  /\ o.heap[n][i.secs[j].table[n].obj] = i.heap[n][i.secs[j].table[n].obj]
                  /\ o.secs[1].table[n].obj # i.secs[j].table[n].obj
    BY <1>1, <1>7, <2>1, <2>4
  <2>6. 1 <= i.inc
    BY <1>3, <1>4
  <2>7. /\ Alive(i, n) => Alive(o, n)
        /\ Unshared(i, n) => Unshared(o, n)
        /\ 1 <= i.inc => (FileTrue(i, n) => FileTrue(o, n))
    BY <1>1, <1>3, <1>4, <1>7, <1>8, <2>1, <2>4, <2>5, EntryTidy
  <2> QED BY <1>12, <2>3, <2>6, <2>7 DEF Tidy
<1>13. \A m \in Num : Preserves(i, o, m)
  BY <1>11, <1>12 DEF Preserves, Carries
<1>14. \A m \in Num : Preserves(d, o, m)
  BY <1>6, <1>13, PreservesTwice
<1> QED BY <1>2, <1>8, <1>10, <1>14 DEF n

\* A stream replaced where the object is found: the section is the exception.
LEMMA StreamTidy ==
  ASSUME NEW d, Fits(d), NEW n \in Num, InUse(d, n), edits + 1 \in Stamp
  PROVE  LET k == Find(d, 1, n)
             o == [d EXCEPT !.secs[k].table[n].buf = edits + 1]
         IN  /\ Fits(o) /\ InUse(o, n) /\ ObjectOf(o, n) = ObjectOf(d, n)
             /\ Unused(o, n) = Unused(d, n)
             /\ Find(o, 1, n) = k /\ o.frozen = d.frozen
             /\ \A m \in Num : m # n => Preserves(d, o, m)
             /\ Carries(d, o, n)
             /\ Tidy(d, n) /\ FileTrue(d, n) => TrueBut(o, n, k)
<1> DEFINE k == Find(d, 1, n)
           old == d.secs[k].table[n]
           x == [old EXCEPT !.buf = edits + 1]
           o == Put(d, k, n, x)
<1>1. /\ k \in 1..Len(d.secs) /\ old \in Entry /\ n <= d.secs[k].len
      /\ k \in d.index[n]..Len(d.secs) /\ old.type = "n" /\ old.obj = ObjectOf(d, n)
  BY FindFacts, InUseFacts, DocFacts DEF InUse, ObjectOf
<1>2. [d EXCEPT !.secs[k].table[n].buf = edits + 1] = o
  BY DEF Put
<1>3. /\ x \in Entry /\ x.type = "n" /\ x.obj = old.obj /\ x.ofs = old.ofs
  BY <1>1 DEF Entry
<1>4. /\ Len(d.secs) \in Nat /\ d.index[n] \in Nat
      /\ \A j \in 1..Len(d.secs) : d.secs[j].table[n].obj \in Cells \cup {None}
  BY DocFacts DEF Entry
<1>5. d.secs[k].table[n] = old
  OBVIOUS
<1> HIDE DEF k, x, old
<1>6. /\ Fits(o) /\ o.heap = d.heap /\ o.frozen = d.frozen /\ o.inc = d.inc /\ o.index = d.index
      /\ Len(o.secs) = Len(d.secs)
      /\ \A j \in 1..Len(d.secs) :
            /\ o.secs[j].len = d.secs[j].len
            /\ \A m \in Num : o.secs[j].table[m] =
                  IF j = k /\ m = n THEN x ELSE d.secs[j].table[m]
  <2>1. (x.type # "unset" => n <= d.secs[k].len) /\ (x.type = "n" => d.index[n] <= k)
    BY <1>1
  <2> QED BY <1>1, <1>3, <2>1, PutOK
<1> HIDE DEF o
<1>7. /\ o.secs[k].table[n] = x
      /\ \A j \in 1..Len(d.secs) : j # k => o.secs[j].table[n] = d.secs[j].table[n]
      /\ \A j \in 1..Len(d.secs) : o.secs[j].table[n].type = d.secs[j].table[n].type
  BY <1>1, <1>3, <1>5, <1>6
<1>8. Find(o, 1, n) = k /\ InUse(o, n)
  BY <1>6, <1>7, FindAlike DEF k
<1>9. ObjectOf(o, n) = ObjectOf(d, n) /\ Unused(o, n) = Unused(d, n)
  BY <1>1, <1>3, <1>6, <1>7, <1>8 DEF ObjectOf, Found, Unused
<1>10. Frame(d, o)
  <2>1. \A j \in 2..Len(d.secs) : j \in 1..Len(d.secs)
    BY <1>4
  <2> QED BY <1>6, <2>1 DEF Frame
<1>11. ASSUME NEW m \in Num, m # n PROVE Preserves(d, o, m)
  <2>1. \A j \in 1..Len(d.secs) : o.secs[j].table[m] = d.secs[j].table[m]
    BY <1>6, <1>11
  <2>2. \A j \in 2..Len(d.secs) : o.secs[j].len = d.secs[j].len
    BY <1>10 DEF Frame
  <2> QED BY <1>6, <2>1, <2>2, EqualTidy
<1>12. ASSUME Tidy(d, n)
       PROVE  /\ Tidy(o, n) /\ (Grown(d, n) => Grown(o, n))
              /\ FileTrue(d, n) => TrueBut(o, n, k)
  <2>1. Above(o, n) /\ (Grown(d, n) => Grown(o, n))
    BY <1>7, <1>10, <1>12, TypesTidy DEF Tidy
  <2>2. \A j \in 1..Len(d.secs) : j # k =>
            /\ o.secs[j].table[n] = d.secs[j].table[n]
            /\ d.secs[j].table[n].obj # None =>
                  /\ o.heap[n][d.secs[j].table[n].obj] = d.heap[n][d.secs[j].table[n].obj]
                  /\ o.secs[k].table[n].obj # d.secs[j].table[n].obj
    <3>1. \A j \in 1..Len(d.secs) : j # k /\ d.secs[j].table[n].obj # None =>
             d.secs[j].table[n].obj # d.secs[k].table[n].obj
      BY <1>1, <1>12 DEF Tidy, Unshared
    <3> QED BY <1>3, <1>5, <1>6, <1>7, <3>1
  <2>3. LET y == o.secs[k].table[n] IN
            /\ y.type # "unset"
            /\ y.type = "n" /\ (y.obj = None \/ k > d.inc) => y.ofs # None
            /\ y.obj # None => o.heap[n][y.obj] # None
    <3>1. /\ old.type = "n" /\ (old.obj = None \/ k > d.inc) => old.ofs # None
          /\ old.obj # None => d.heap[n][old.obj] # None
      BY <1>1, <1>5, <1>12 DEF Tidy, Alive
    <3> QED BY <1>1, <1>3, <1>6, <1>7, <3>1
  <2>4. /\ Alive(d, n) => Alive(o, n)
        /\ Unshared(d, n) => Unshared(o, n)
        /\ \A y \in {0, k} : TrueBut(d, n, y) => TrueBut(o, n, k)
    BY <1>1, <1>6, <1>10, <2>2, <2>3, EntryTidy
  <2> QED BY <1>12, <2>1, <2>4 DEF Tidy, FileTrue
<1> QED BY <1>2, <1>6, <1>8, <1>9, <1>11, <1>12 DEF k, Carries

-----------------------------------------------------------------------------
(* Drawing, saving and opening *)

\* What is drawn is dropped again where it was not in memory before: the file
\* has it.
LEMMA RenderTidy ==
  ASSUME NEW d, Fits(d), NEW n \in Num, InUse(d, n), Unused(d, n) # {}, NEW m \in Num
  PROVE  LET o == ClearToMark(CacheObject(d, n), Loaded(d)) IN
         Preserves(d, o, m) /\ o.frozen = d.frozen
<1> DEFINE c == CacheObject(d, n)
           o == ClearToMark(c, Loaded(d))
           L == Len(d.secs)
<1>1. Fits(c) /\ c.frozen = d.frozen /\ Preserves(d, c, m)
  BY CacheObjectOK, CacheTidy
<1>2. PICK p : Fits(p) /\ Cleared(c, p, Loaded(d)) /\ o = Collect(p, held)
  BY <1>1, ClearShape
<1>3. Preserves(p, o, m) /\ o.frozen = p.frozen
  BY <1>2, CollectTidy
<1>4. /\ Len(c.secs) = L /\ c.inc = d.inc
      /\ \A j \in 1..L :
            /\ c.secs[j].table[m].obj = None \/ c.secs[j].table[m] = d.secs[j].table[m]
               \/ d.secs[j].table[m].obj = None
            /\ c.secs[j].table[m].type = d.secs[j].table[m].type
            /\ c.secs[j].table[m].ofs = d.secs[j].table[m].ofs
  <2> DEFINE k == Find(d, 1, n)
             e == d.secs[k].table[n]
             b == NewCell(d, n)
  <2>1. /\ k \in 1..L /\ e \in Entry /\ b \in Cells
        /\ Len(c.secs) = L /\ c.inc = d.inc
        /\ \A j \in 1..L : c.secs[j].table[m] =
              IF j = k /\ m = n /\ e.obj = None THEN [e EXCEPT !.obj = b]
              ELSE d.secs[j].table[m]
    BY CacheShape
  <2> HIDE DEF c, k, b
  <2>2. [e EXCEPT !.obj = b].type = e.type /\ [e EXCEPT !.obj = b].ofs = e.ofs
    BY <2>1 DEF Entry
  <2> QED BY <2>1, <2>2
<1>5. L \in Nat /\ DOMAIN d.secs = 1..L
      /\ \A j \in 1..L : c.secs[j].table[m] \in Entry
  BY <1>1, <1>4, DocFacts
<1> HIDE DEF c, o, L
<1>6. /\ p.heap = c.heap /\ p.inc = c.inc /\ p.frozen = c.frozen /\ Len(p.secs) = L
      /\ \A j \in 1..L :
            /\ p.secs[j].len = c.secs[j].len
            /\ \/ p.secs[j].table[m] = c.secs[j].table[m]
               \/ /\ <<j, m>> \notin Loaded(d) /\ c.secs[j].table[m].buf = None
                  /\ p.secs[j].table[m] = [c.secs[j].table[m] EXCEPT !.obj = None]
  BY <1>2, <1>4 DEF Cleared
<1>7. ASSUME NEW j \in 1..L, <<j, m>> \notin Loaded(d) PROVE d.secs[j].table[m].obj = None
  BY <1>5, <1>7 DEF Loaded
<1>8. ASSUME NEW j \in 1..L
      PROVE  /\ p.secs[j].table[m].type = c.secs[j].table[m].type
             /\ p.secs[j].table[m].ofs = c.secs[j].table[m].ofs
             /\ p.secs[j].table[m].buf = c.secs[j].table[m].buf
             /\ \/ p.secs[j].table[m] = c.secs[j].table[m]
                \/ p.secs[j].table[m].obj = None /\ d.secs[j].table[m].obj = None
  <2>1. CASE p.secs[j].table[m] = c.secs[j].table[m]
    BY <2>1
  <2>2. CASE /\ <<j, m>> \notin Loaded(d)
             /\ p.secs[j].table[m] = [c.secs[j].table[m] EXCEPT !.obj = None]
    BY <1>5, <1>7, <2>2 DEF Entry
  <2> QED BY <1>6, <2>1, <2>2
<1>9. ASSUME Tidy(d, m)
      PROVE  /\ Tidy(p, m) /\ (Grown(d, m) => Grown(p, m))
             /\ FileTrue(d, m) => FileTrue(p, m)
  <2>1. /\ Tidy(c, m) /\ (Grown(d, m) => Grown(c, m))
        /\ FileTrue(d, m) => FileTrue(c, m)
    BY <1>1, <1>9 DEF Preserves, Carries
  <2>2. Above(p, m) /\ (Grown(d, m) => Grown(p, m))
    <3>1. \A j \in 2..L : j \in 1..L
      BY <1>5
    <3>2. Frame(c, p)
      BY <1>4, <1>6, <3>1 DEF Frame, L
    <3>3. \A j \in 1..Len(c.secs) : p.secs[j].table[m].type = c.secs[j].table[m].type
      BY <1>4, <1>8
    <3> QED BY <1>1, <2>1, <3>2, <3>3, TypesTidy DEF Tidy
  <2>3. Alive(p, m)
    <3> SUFFICES ASSUME NEW j \in 1..L
                 PROVE  LET x == p.secs[j].table[m] IN
                        /\ x.type = "n" /\ (x.obj = None \/ j > p.inc) => x.ofs # None
                        /\ x.obj # None => p.heap[m][x.obj] # None
                        /\ x.type = "unset" /\ j <= p.inc => x = Unset
      BY <1>6 DEF Alive
    <3>1. CASE p.secs[j].table[m] = c.secs[j].table[m]
      BY <1>4, <1>6, <2>1, <3>1 DEF Tidy, Alive
    <3>2. CASE p.secs[j].table[m].obj = None /\ d.secs[j].table[m].obj = None
      <4>1. d.secs[j].table[m].type = "n" => d.secs[j].table[m].ofs # None
        BY <1>9, <3>2 DEF Tidy, Alive, L
      <4>2. ASSUME p.secs[j].table[m].type = "unset", j <= p.inc
            PROVE  p.secs[j].table[m] = Unset
        <5>1. c.secs[j].table[m] = Unset
          BY <1>4, <1>6, <1>8, <2>1, <4>2 DEF Tidy, Alive
        <5>2. [Unset EXCEPT !.obj = None] = Unset
          BY DEF Unset
        <5> QED BY <1>6, <5>1, <5>2
      <4> QED BY <1>4, <1>8, <3>2, <4>1, <4>2
    <3> QED BY <1>8, <3>1, <3>2
  <2>4. Unshared(p, m)
    <3> SUFFICES ASSUME NEW i \in 1..L, NEW j \in 1..L, i # j, p.secs[i].table[m].obj # None,
                        p.secs[i].table[m].obj = p.secs[j].table[m].obj
                 PROVE  FALSE
      BY <1>6 DEF Unshared
    <3>1. p.secs[i].table[m] = c.secs[i].table[m] /\ p.secs[j].table[m] = c.secs[j].table[m]
      BY <1>8
    <3> QED BY <1>4, <2>1, <3>1 DEF Tidy, Unshared
  <2>5. ASSUME FileTrue(c, m) PROVE FileTrue(p, m)
    <3> SUFFICES ASSUME NEW j \in 1..L, j > p.inc
                 PROVE  LET x == p.secs[j].table[m] IN
                        x.buf = None /\ (x.obj # None => p.heap[m][x.obj] = x.ofs)
      BY <1>6 DEF FileTrue, TrueBut
    <3>1. LET x == c.secs[j].table[m] IN
          x.buf = None /\ (x.obj # None => c.heap[m][x.obj] = x.ofs)
      <4>1. j # 0 /\ j > c.inc
        BY <1>6
      <4> QED BY <1>4, <2>5, <4>1 DEF FileTrue, TrueBut
    <3> QED BY <1>6, <1>8, <3>1
  <2> QED BY <2>1, <2>2, <2>3, <2>4, <2>5 DEF Tidy
<1>10. Preserves(d, p, m)
  BY <1>9 DEF Preserves, Carries
<1>11. Preserves(d, o, m) /\ o.frozen = d.frozen
  BY <1>1, <1>3, <1>6, <1>10, PreservesTwice
<1> QED BY <1>11 DEF o, c

\* A save of a copy leaves all objects, and the document not frozen.
LEMMA SavedTidy ==
  ASSUME NEW d, Fits(d), program # "full", NEW n \in Num
  PROVE  Preserves(d, Saved(d), n) /\ ~Saved(d).frozen
<1> DEFINE o == Saved(d)
<1>1. /\ Fits(o) /\ Len(o.secs) = Len(d.secs) /\ o.inc = d.inc /\ o.heap = d.heap /\ ~o.frozen
      /\ \A k \in 1..Len(d.secs) :
            o.secs[k].table = d.secs[k].table /\ o.secs[k].len = d.secs[k].len
  BY SavedOK
<1>2. \A k \in 2..Len(d.secs) : k \in 1..Len(d.secs)
  BY DocFacts
<1> HIDE DEF o
<1>3. Preserves(d, o, n)
  BY <1>1, <1>2, EqualTidy
<1> QED BY <1>1, <1>3 DEF o

\* A file whose entries are as a file has them opens in order, when it has no
\* object in use below a free entry.
LEMMA OpenTidy ==
  ASSUME NEW f, Sections(f), NEW n \in Num,
         n \notin Revived => \A j, k \in 1..Len(f) :
            j < k /\ f[j].table[n].type = "f" => f[k].table[n].type # "n",
         \A k \in 1..Len(f) : LET e == f[k].table[n] IN
            /\ e.obj = None /\ e.buf = None
            /\ e.type = "n" => e.ofs # None
  PROVE  LET o == OpenDocument(f) IN
         Tidy(o, n) /\ Grown(o, n) /\ FileTrue(o, n) /\ ~o.frozen
<1> DEFINE o == OpenDocument(f)
<1>1. o.secs = f /\ o.inc = 0 /\ ~o.frozen
  BY DEF OpenDocument
<1> HIDE DEF o
<1>2. Above(o, n)
  <2>1. \A j \in 1..Len(f) : ~(j <= o.inc)
    BY <1>1
  <2> QED BY <1>1, <2>1 DEF Above
<1>3. Grown(o, n)
  <2>1. 1..o.inc = {}
    BY <1>1
  <2> QED BY <2>1 DEF Grown
<1>4. Alive(o, n) /\ Unshared(o, n) /\ FileTrue(o, n)
  <2>1. \A k \in 1..Len(f) : ~(k <= o.inc)
    BY <1>1
  <2> QED BY <1>1, <2>1 DEF Alive, Unshared, FileTrue, TrueBut
<1> QED BY <1>1, <1>2, <1>3, <1>4 DEF Tidy, o

-----------------------------------------------------------------------------
(* What an incremental save writes *)

\* Where a section or an older one has an object in use, the search from that
\* section on ends at one that has it in use.
LEMMA FoundBelow ==
  ASSUME NEW d, Fits(d), NEW n \in Num, Above(d, n), NEW b \in 1..Len(d.secs),
         NEW l \in b..Len(d.secs), d.secs[l].table[n].type = "n",
         l <= d.inc \/ n \notin Revived
  PROVE  /\ Find(d, b, n) \in b..l /\ d.secs[Find(d, b, n)].table[n].type = "n"
         /\ \A j \in b..(Find(d, b, n) - 1) :
               j >= d.index[n] => d.secs[j].table[n].type = "unset"
<1> DEFINE L == Len(d.secs)
           i == Later(d.index[n], b)
           H == Holders(d, i, n)
           h == Min(H)
<1>1. L \in Nat /\ d.index[n] \in 1..L /\ l \in 1..L
  BY DocFacts
<1>2. ~(l < d.index[n])
  BY <1>1, DocFacts DEF Fits, Sound
<1>3. i \in b..L /\ l \in i..L /\ i >= d.index[n]
  BY <1>1, <1>2 DEF Later
<1>4. l \in H
  BY <1>1, <1>3, DefinedIs DEF Holders
<1>5. H \in SUBSET Nat
  BY <1>3 DEF Holders
<1>6. Find(d, b, n) = h
  BY <1>4 DEF Find
<1>7. H \subseteq i..L /\ \A j \in i..L : j \notin H => ~Defined(d, j, n)
  BY DEF Holders
<1>8. \A j \in H : Defined(d, j, n)
  BY DEF Holders
<1> HIDE DEF H
<1>9. h \in H /\ \A j \in H : h <= j
  BY <1>4, <1>5, MinIs
<1> HIDE DEF h
<1>10. h \in b..l /\ h \in 1..L
  BY <1>1, <1>3, <1>4, <1>7, <1>9
<1>11. d.secs[h].table[n].type \in {"f", "n"}
  <2>1. d.secs[h].table[n] \in Entry /\ d.secs[h].table[n].type # "unset"
    BY <1>8, <1>9, <1>10, DocFacts DEF Defined
  <2> QED BY <2>1 DEF Entry
<1>12. d.secs[h].table[n].type = "n"
  <2> SUFFICES ASSUME d.secs[h].table[n].type = "f" PROVE FALSE
    BY <1>11
  <2>1. h # l
    OBVIOUS
  <2>2. h < l /\ (h <= d.inc \/ n \notin Revived)
    BY <1>1, <1>10, <2>1, DocFacts
  <2> QED BY <1>1, <1>10, <2>2 DEF Above
<1>13. ASSUME NEW j \in b..(h - 1), j >= d.index[n] PROVE d.secs[j].table[n].type = "unset"
  <2>1. j \in i..L /\ ~(h <= j) /\ j \in 1..L
    BY <1>1, <1>10, <1>13 DEF Later
  <2>2. ~Defined(d, j, n)
    BY <1>7, <1>9, <2>1
  <2> QED BY <2>1, <2>2, DefinedIs
<1> QED BY <1>6, <1>10, <1>12, <1>13

\* An object that an increment defines, and that is found in use from there on,
\* is in use there.
LEMMA FoundThere ==
  ASSUME NEW d, Fits(d), NEW n \in Num, Above(d, n), NEW b \in 1..d.inc,
         d.secs[b].table[n].type # "unset", Found(d, b, n).type = "n"
  PROVE  d.secs[b].table[n].type = "n" /\ Find(d, b, n) = b
<1> DEFINE L == Len(d.secs)
           f == Find(d, b, n)
<1>1. /\ L \in Nat /\ d.index[n] \in 1..L /\ d.inc \in Nat /\ d.inc < L /\ b \in 1..L
      /\ f \in 1..L /\ d.secs[f].table[n].type = "n"
  <2>1. L \in Nat /\ d.index[n] \in 1..L /\ d.inc \in Nat /\ d.inc < L
    BY DocFacts
  <2>2. b \in 1..L
    BY <2>1
  <2> QED BY <2>1, <2>2, FoundOK DEF Found
<1>2. d.secs[b].table[n].type = "n"
  <2> SUFFICES ASSUME d.secs[b].table[n].type # "n" PROVE FALSE
    OBVIOUS
  <2>1. d.secs[b].table[n].type = "f"
    <3>1. d.secs[b].table[n] \in Entry
      BY <1>1, DocFacts
    <3> QED BY <3>1 DEF Entry
  <2>2. ~(b < f) /\ f # b
    BY <1>1, <2>1 DEF Above
  <2> DEFINE H == Holders(d, Later(d.index[n], b), n)
  <2>3. Later(d.index[n], b) \in b..L
    BY <1>1 DEF Later
  <2>4. H \in SUBSET (b..L)
    BY <2>3 DEF Holders
  <2>5. H = {}
    <3> SUFFICES ASSUME H # {} PROVE FALSE
      OBVIOUS
    <3>1. f = Min(H)
      BY DEF Find
    <3>2. H \in SUBSET Nat
      BY <2>4
    <3> HIDE DEF H, f
    <3>3. f \in H
      BY <3>1, <3>2, MinIs
    <3>4. f \in b..L
      BY <2>4, <3>3
    <3> QED BY <2>2, <3>4
  <2>6. f = 1
    <3>1. f \in {b, 1}
      BY <2>5 DEF Find
    <3> QED BY <2>2, <3>1
  <2>7. b < d.index[n]
    <3> SUFFICES ASSUME ~(b < d.index[n]) PROVE FALSE
      OBVIOUS
    <3>1. b \in Later(d.index[n], b)..L
      BY <1>1 DEF Later
    <3>2. b \in H
      BY <3>1, DefinedIs DEF Holders
    <3> QED BY <2>5, <3>2
  <2>8. 1 < d.index[n] /\ 1 \in 1..L
    BY <1>1, <2>7
  <2>9. d.secs[1].table[n].type # "n"
    BY <2>8, DocFacts DEF Fits, Sound
  <2> QED BY <1>1, <2>6, <2>9
<1>3. b \in b..L
  BY <1>1
<1>4. f \in b..b
  BY <1>2, <1>3, FoundBelow
<1> QED BY <1>2, <1>4

\* An incremental save, entry by entry.
LEMMA WrittenEntry ==
  ASSUME NEW d, Fits(d), program # "full", NEW k \in 1..Len(d.secs), NEW n \in Num
  PROVE  /\ Len(Written(d)) = Len(d.secs)
         /\ Written(d)[k].table[n] =
              IF k > d.inc THEN [d.secs[k].table[n] EXCEPT !.obj = None, !.buf = None]
              ELSE IF d.secs[k].table[n].type = "unset" THEN Unset
              ELSE IF Used(d, k, n) THEN InFile(Content(d, k, n)) ELSE Freed
<1> DEFINE L == Len(d.secs)
           w == [j \in DOMAIN d.secs |-> IF j <= d.inc THEN Increment(d, j) ELSE Original(d, j)]
<1>1. L \in Nat /\ DOMAIN d.secs = 1..L /\ d.inc \in Nat /\ d.inc < L
  BY DocFacts
<1>2. Written(d) = w /\ DOMAIN w = 1..L
  BY <1>1 DEF Written
<1>3. Len(w) = L
  <2>1. w = [j \in 1..L |-> w[j]]
    BY <1>2
  <2> HIDE DEF w, L
  <2> QED BY <1>1, <2>1
<1>4. CASE k > d.inc
  <2>1. w[k] = Original(d, k)
    BY <1>1, <1>4
  <2>2. w[k].table[n] = [d.secs[k].table[n] EXCEPT !.obj = None, !.buf = None]
    <3> DEFINE t == [m \in Num |-> [d.secs[k].table[m] EXCEPT !.obj = None, !.buf = None]]
    <3>1. t[n] = [d.secs[k].table[n] EXCEPT !.obj = None, !.buf = None]
      OBVIOUS
    <3>2. w[k] = Revision(t)
      <4> HIDE DEF w
      <4> QED BY <2>1 DEF Original
    <3> HIDE DEF t, w
    <3>3. Revision(t).table = t
      BY DEF Revision
    <3> QED BY <3>1, <3>2, <3>3
  <2> HIDE DEF w
  <2> QED BY <1>2, <1>3, <1>4, <2>2
<1>5. CASE ~(k > d.inc)
  <2>1. w[k] = Increment(d, k)
    BY <1>1, <1>5
  <2>2. Defined(d, k, n) <=> d.secs[k].table[n].type # "unset"
    BY DefinedIs
  <2>3. w[k].table[n] = IF ~Defined(d, k, n) THEN Unset
                        ELSE IF Used(d, k, n) THEN InFile(Content(d, k, n)) ELSE Freed
    <3> HIDE DEF w
    <3> QED BY <2>1 DEF Increment, Revision
  <2> HIDE DEF w
  <2> QED BY <1>2, <1>3, <1>5, <2>2, <2>3
<1> QED BY <1>4, <1>5

\* What is written of an object that is alive is in the file.
LEMMA WrittenContent ==
  ASSUME NEW d, Fits(d), NEW n \in Num, Alive(d, n), NEW b \in 1..Len(d.secs),
         Found(d, b, n).type = "n"
  PROVE  LET x == InFile(Content(d, b, n)) IN
         /\ x.type = "n" /\ x.obj = None /\ x.buf = None /\ x.ofs # None
         /\ x.ofs = Content(d, b, n).dict /\ x.stm = Content(d, b, n).stm
<1> DEFINE e == Found(d, b, n)
           c == Content(d, b, n)
<1>1. Find(d, b, n) \in 1..Len(d.secs) /\ e = d.secs[Find(d, b, n)].table[n]
  BY FoundOK DEF Found
<1>2. /\ e.obj = None => e.ofs # None
      /\ e.obj # None => d.heap[n][e.obj] # None
  BY <1>1 DEF Alive
<1>3. c = [dict |-> IF e.obj # None THEN d.heap[n][e.obj] ELSE e.ofs,
           stm  |-> IF e.buf # None THEN e.buf ELSE e.stm]
  BY DEF Content, Read
<1> HIDE DEF e
<1>4. c.dict # None
  BY <1>2, <1>3
<1> HIDE DEF c
<1>5. /\ InFile(c).type = "n" /\ InFile(c).obj = None /\ InFile(c).buf = None
      /\ InFile(c).ofs = c.dict /\ InFile(c).stm = c.stm
  BY DEF InFile, Unset
<1> QED BY <1>4, <1>5 DEF c

\* The types an incremental save writes: an object in use may be freed in an
\* increment, and nothing else changes.
LEMMA WrittenTypes ==
  ASSUME NEW d, Fits(d), program # "full", NEW k \in 1..Len(d.secs), NEW n \in Num, Tidy(d, n)
  PROVE  LET x == Written(d)[k].table[n]
             e == d.secs[k].table[n]
         IN  /\ x.obj = None /\ x.buf = None
             /\ x.type = "unset" <=> e.type = "unset"
             /\ x.type = "n" => e.type = "n" /\ x.ofs # None /\ (k <= d.inc => Used(d, k, n))
             /\ x.type = "f" => \/ e.type = "f"
                                \/ k <= d.inc /\ ~Used(d, k, n)
<1> DEFINE x == Written(d)[k].table[n]
           e == d.secs[k].table[n]
<1>1. x = IF k > d.inc THEN [e EXCEPT !.obj = None, !.buf = None]
          ELSE IF e.type = "unset" THEN Unset
          ELSE IF Used(d, k, n) THEN InFile(Content(d, k, n)) ELSE Freed
  BY WrittenEntry
<1>2. e \in Entry /\ e = d.secs[k].table[n] /\ d.inc \in Nat /\ k \in Nat
  BY DocFacts
<1>3. /\ Unset.type = "unset" /\ Unset.obj = None /\ Unset.buf = None
      /\ Freed.type = "f" /\ Freed.obj = None /\ Freed.buf = None
  BY DEF Unset, Freed
<1> HIDE DEF x, e
<1>4. CASE k > d.inc
  <2>1. x = [e EXCEPT !.obj = None, !.buf = None]
    BY <1>1, <1>4
  <2>2. x.type = e.type /\ x.ofs = e.ofs /\ x.obj = None /\ x.buf = None
    BY <1>2, <2>1 DEF Entry
  <2>3. e.type = "n" => e.ofs # None
    BY <1>2, <1>4 DEF Tidy, Alive
  <2>4. ~(k <= d.inc)
    BY <1>2, <1>4
  <2> QED BY <2>2, <2>3, <2>4 DEF x, e
<1>5. CASE ~(k > d.inc) /\ e.type = "unset"
  <2>1. x = Unset
    BY <1>1, <1>5
  <2> QED BY <1>3, <1>5, <2>1 DEF x, e
<1>6. CASE ~(k > d.inc) /\ e.type # "unset" /\ Used(d, k, n)
  <2>1. x = InFile(Content(d, k, n))
    BY <1>1, <1>6
  <2>2. k \in k..d.inc /\ k \in 1..d.inc
    BY <1>2, <1>6
  <2>3. Found(d, k, n).type = "n"
    BY <1>6, <2>2 DEF Used
  <2>4. e.type = "n"
    BY <1>2, <1>6, <2>2, <2>3, FoundThere DEF Tidy
  <2>5. x.type = "n" /\ x.obj = None /\ x.buf = None /\ x.ofs # None
    BY <2>1, <2>3, WrittenContent DEF Tidy
  <2> QED BY <1>6, <2>4, <2>5 DEF x, e
<1>7. CASE ~(k > d.inc) /\ e.type # "unset" /\ ~Used(d, k, n)
  <2>1. x = Freed /\ k <= d.inc
    BY <1>1, <1>2, <1>7
  <2> QED BY <1>3, <1>7, <2>1 DEF x, e
<1> QED BY <1>4, <1>5, <1>6, <1>7

\* What is saved incrementally and opened again is in order.
LEMMA ReopenTidy ==
  ASSUME NEW d, Fits(d), program # "full", NEW n \in Num, Tidy(d, n)
  PROVE  LET o == OpenDocument(Written(d)) IN
         Tidy(o, n) /\ Grown(o, n) /\ FileTrue(o, n) /\ ~o.frozen
<1> DEFINE w == Written(d)
           L == Len(d.secs)
<1>1. L \in Nat \ {0} /\ d.inc \in Nat /\ d.inc < L
  BY DocFacts
<1>2. Sections(w) /\ Len(w) = L
  <2>1. 1 \in 1..L
    BY <1>1
  <2> QED BY <2>1, WrittenOK, WrittenEntry
<1>3. \A k \in 1..L :
         /\ w[k].table[n].obj = None /\ w[k].table[n].buf = None
         /\ w[k].table[n].type = "n" =>
               /\ d.secs[k].table[n].type = "n" /\ w[k].table[n].ofs # None
               /\ k <= d.inc => Used(d, k, n)
         /\ w[k].table[n].type = "f" =>
               d.secs[k].table[n].type = "f" \/ (k <= d.inc /\ ~Used(d, k, n))
  BY WrittenTypes
<1> HIDE DEF w
<1>4. ASSUME n \notin Revived, NEW j \in 1..L, NEW k \in 1..L, j < k, w[j].table[n].type = "f",
             w[k].table[n].type = "n"
      PROVE  FALSE
  <2>1. d.secs[k].table[n].type = "n" /\ (k <= d.inc => Used(d, k, n))
    BY <1>3, <1>4
  <2>2. d.secs[j].table[n].type # "f"
    BY <1>4, <2>1 DEF Tidy, Above
  <2>3. j <= d.inc /\ ~Used(d, j, n)
    BY <1>3, <1>4, <2>2
  <2>4. PICK b \in j..d.inc : Found(d, b, n).type # "n"
    BY <2>3 DEF Used
  <2>5. ~(b \in k..d.inc)
    <3> SUFFICES ASSUME b \in k..d.inc PROVE FALSE
      OBVIOUS
    <3>1. k <= d.inc
      BY <1>1
    <3> QED BY <2>1, <2>4, <3>1 DEF Used
  <2>6. b \in 1..L /\ k \in b..L
    BY <1>1, <2>4, <2>5
  <2>7. Find(d, b, n) \in b..k /\ d.secs[Find(d, b, n)].table[n].type = "n"
    BY <1>4, <2>1, <2>6, FoundBelow DEF Tidy
  <2> QED BY <2>4, <2>7 DEF Found
<1>5. n \notin Revived => \A j, k \in 1..Len(w) : j < k /\ w[j].table[n].type = "f" => w[k].table[n].type # "n"
  BY <1>2, <1>4
<1>6. \A k \in 1..Len(w) : LET e == w[k].table[n] IN
         /\ e.obj = None /\ e.buf = None
         /\ e.type = "n" => e.ofs # None
  BY <1>2, <1>3
<1> QED BY <1>2, <1>5, <1>6, OpenTidy DEF w

-----------------------------------------------------------------------------
(* Every call keeps the order *)

\* The objects N of a document are in order; and, while no save of it has
\* stopped early, so is what it shows of the file.  For programs that save
\* incrementally (g) the objects of increments are in older sections too.
Orderly(d, s, N, g) ==
    /\ \A n \in N : Tidy(d, n) /\ (g => Grown(d, n))
    /\ ~s => ~d.frozen /\ \A n \in N : FileTrue(d, n)

\* What preserves every object preserves their order.
LEMMA PreservesAll ==
  ASSUME NEW d, NEW e, NEW s, NEW N \in SUBSET Num, NEW g, Orderly(d, s, N, g), e.frozen = d.frozen,
         \A n \in Num : Preserves(d, e, n)
  PROVE  Orderly(e, s, N, g)
  BY DEF Orderly, Preserves, Carries

\* An alteration of one object, which need not preserve what the file has of
\* it.
LEMMA PreservesButOne ==
  ASSUME NEW d, NEW e, NEW s \in BOOLEAN, NEW N \in SUBSET Num, NEW g \in BOOLEAN,
         Orderly(d, s, N, g), e.frozen = d.frozen, NEW n \in N,
         \A m \in Num : m # n => Preserves(d, e, m),
         Carries(d, e, n),
         Tidy(d, n) /\ ~d.frozen /\ FileTrue(d, n) => FileTrue(e, n)
  PROVE  Orderly(e, s, N, g)
<1>1. \A m \in N : Tidy(e, m) /\ (g => Grown(e, m))
  BY DEF Orderly, Preserves, Carries
<1>2. ASSUME ~s PROVE ~e.frozen /\ \A m \in N : FileTrue(e, m)
  BY <1>2 DEF Orderly, Preserves
<1> QED BY <1>1, <1>2 DEF Orderly

\* Freeing memory.
LEMMA CollectOrder ==
  ASSUME NEW d, Fits(d), NEW h, NEW s, NEW N \in SUBSET Num, NEW g, Orderly(d, s, N, g)
  PROVE  Orderly(Collect(d, h), s, N, g)
<1>1. \A n \in Num : Preserves(d, Collect(d, h), n) /\ Collect(d, h).frozen = d.frozen
  BY CollectTidy
<1>2. Collect(d, h).frozen = d.frozen
  BY CollectOK
<1> QED BY <1>1, <1>2, PreservesAll

\* What the calls below start from.
Before(N, g) == /\ N \in SUBSET Num /\ g \in BOOLEAN
                /\ IInv /\ Orderly(doc, stopped, N, g)

\* What is known of them.
LEMMA BeforeIs ==
  ASSUME NEW N, NEW g, Before(N, g)
  PROVE  N \in SUBSET Num /\ g \in BOOLEAN /\ Fits(doc) /\ TypesOK /\ stopped \in BOOLEAN /\ Points(doc, held)
  BY DEF Before, IInv, TypesOK

\* A caller gets a pointer to an object.
LEMMA HoldOrder ==
  ASSUME NEW N, NEW g, Before(N, g), NEW n \in Num, Hold(n)
  PROVE  Orderly(doc', stopped, N, g)
<1>1. InUse(doc, n) /\ Unused(doc, n) # {} /\ Fits(doc)
  BY LiveIs, RoomIs, BeforeIs DEF Hold
<1>2. \A m \in Num : Preserves(doc, CacheObject(doc, n), m)
  BY <1>1, CacheTidy
<1>3. CacheObject(doc, n).frozen = doc.frozen
  BY <1>1, CacheObjectOK
<1>4. doc' = CacheObject(doc, n)
  BY DEF Hold
<1> QED BY <1>2, <1>3, <1>4, PreservesAll DEF Before

\* The caller lets go of it.
LEMMA ReleaseOrder ==
  ASSUME NEW N, NEW g, Before(N, g), Release
  PROVE  Orderly(doc', stopped, N, g)
<1>1. doc' = Collect(doc, None)
  BY DEF Release
<1> QED BY <1>1, BeforeIs, CollectOrder DEF Before

\* Drawing reads an object and drops what it read.
LEMMA RenderOrder ==
  ASSUME NEW N, NEW g, Before(N, g), NEW n \in Num, Render(n)
  PROVE  Orderly(doc', stopped, N, g)
<1> DEFINE o == ClearToMark(CacheObject(doc, n), Loaded(doc))
<1>1. InUse(doc, n) /\ Unused(doc, n) # {} /\ Fits(doc)
  BY LiveIs, RoomIs, BeforeIs DEF Render
<1>2. \A m \in Num : Preserves(doc, o, m) /\ o.frozen = doc.frozen
  BY <1>1, RenderTidy
<1>3. o.frozen = doc.frozen
  BY <1>2
<1>4. doc' = o
  BY DEF Render
<1> HIDE DEF o
<1> QED BY <1>2, <1>3, <1>4, PreservesAll DEF Before

\* A change of a dictionary.
LEMMA AlterDictOrder ==
  ASSUME NEW N, NEW g, Before(N, g), NEW n \in Num, n \in N, AlterDict(n)
  PROVE  Orderly(doc', stopped, N, g)
<1> DEFINE o == AlterObject(doc, n)
<1>1. Edit(doc') /\ Live(n) /\ doc' = Collect(o, held)
  BY DEF AlterDict
<1>2. Room /\ edits + 1 \in Stamp
  BY <1>1, EditIs, BeforeIs
<1>3. InUse(doc, n) /\ Fits(doc) /\ Spare(doc, n)
  BY <1>1, <1>2, LiveIs, RoomIs, BeforeIs
<1>4. /\ o.frozen = doc.frozen
      /\ \A m \in Num : m # n => Preserves(doc, o, m)
      /\ Carries(doc, o, n)
      /\ Tidy(doc, n) /\ ~doc.frozen /\ FileTrue(doc, n) => FileTrue(o, n)
  BY <1>2, <1>3, AlterObjectTidy
<1>5. Fits(o)
  BY <1>2, <1>3, AlterObjectOK
<1> HIDE DEF o
<1>6. Orderly(o, stopped, N, g)
  BY <1>3, <1>4, BeforeIs, PreservesButOne DEF Before
<1> QED BY <1>1, <1>5, <1>6, BeforeIs, CollectOrder

\* A change through the pointer that is kept.
LEMMA AlterHeldOrder ==
  ASSUME NEW N, NEW g, Before(N, g), AlterHeld, held.num \in N
  PROVE  Orderly(doc', stopped, N, g)
<1> DEFINE n == held.num
           o == Alter(doc, n, held.cell)
<1>1. Edit(doc') /\ held # None /\ doc' = Collect(o, held)
  BY DEF AlterHeld
<1>2. Room /\ edits + 1 \in Stamp
  BY <1>1, EditIs, BeforeIs
<1>3. /\ n \in Num /\ held.cell \in Cells /\ InUse(doc, n) /\ Fits(doc)
      /\ held.cell = ObjectOf(doc, n)
  BY <1>1, BeforeIs DEF TypesOK, Points
<1>4. Unused(doc, n) # {}
  BY <1>2, <1>3, RoomIs
<1>5. /\ o.frozen = doc.frozen
      /\ \A m \in Num : m # n => Preserves(doc, o, m)
      /\ Carries(doc, o, n)
      /\ Tidy(doc, n) /\ ~doc.frozen /\ TrueBut(doc, n, Find(doc, 1, n)) => FileTrue(o, n)
  BY <1>2, <1>3, <1>4, AlterTidy
<1>6. Fits(o)
  BY <1>2, <1>3, <1>4, AlterOK
<1>9. n \in N
  OBVIOUS
<1> HIDE DEF o, n
<1>7. Tidy(doc, n) /\ ~doc.frozen /\ FileTrue(doc, n) => FileTrue(o, n)
  BY <1>5, TrueAll
<1>8. Orderly(o, stopped, N, g)
  BY <1>3, <1>5, <1>7, <1>9, BeforeIs, PreservesButOne DEF Before
<1> QED BY <1>1, <1>6, <1>8, BeforeIs, CollectOrder

\* A stream that is replaced: until its dictionary is altered too, the section
\* of the file where it was found no longer shows what the file has.
LEMMA UpdateStreamOrder ==
  ASSUME NEW N, NEW g, Before(N, g), NEW n \in Num, n \in N, UpdateStream(n)
  PROVE  Orderly(doc', stopped, N, g)
<1> DEFINE d == CacheObject(doc, n)
           k == Find(d, 1, n)
           p == [d EXCEPT !.secs[k].table[n].buf = edits + 1]
           o == AlterObject(p, n)
<1>1. Edit(doc') /\ Live(n) /\ doc' = Collect(o, held)
  BY DEF UpdateStream
<1>2. Room /\ edits + 1 \in Stamp
  BY <1>1, EditIs, BeforeIs
<1>3. InUse(doc, n) /\ Fits(doc) /\ Spare(doc, n) /\ Unused(doc, n) # {}
  BY <1>1, <1>2, LiveIs, RoomIs, BeforeIs
<1>4. /\ Fits(d) /\ InUse(d, n) /\ ObjectOf(d, n) \in Cells
      /\ d.frozen = doc.frozen
      /\ \E c \in Cells \cup {None} : Unused(doc, n) \ {c} \subseteq Unused(d, n)
  BY <1>3, CacheObjectOK
<1>5. Unused(d, n) # {}
  BY <1>3, <1>4 DEF Spare
<1>6. \A m \in Num : Preserves(doc, d, m)
  BY <1>3, CacheTidy
<1> HIDE DEF d
<1>7. /\ Fits(p) /\ InUse(p, n) /\ ObjectOf(p, n) = ObjectOf(d, n)
      /\ Unused(p, n) = Unused(d, n) /\ Find(p, 1, n) = k /\ p.frozen = d.frozen
      /\ \A m \in Num : m # n => Preserves(d, p, m)
      /\ Carries(d, p, n)
      /\ Tidy(d, n) /\ FileTrue(d, n) => TrueBut(p, n, k)
  BY <1>2, <1>4, StreamTidy
<1> HIDE DEF k, p
<1>8. ObjectOf(p, n) # None /\ Unused(p, n) # {}
  BY <1>4, <1>5, <1>7, BoundsAssumption
<1>9. /\ o.frozen = p.frozen
      /\ \A m \in Num : m # n => Preserves(p, o, m)
      /\ Carries(p, o, n)
      /\ Tidy(p, n) /\ ~p.frozen /\ TrueBut(p, n, Find(p, 1, n)) => FileTrue(o, n)
  BY <1>2, <1>7, <1>8, AlterObjectTidy
<1>10. Fits(o)
  BY <1>2, <1>7, <1>8, AlterObjectOK
<1> HIDE DEF o
<1>11. \A m \in Num : m # n => Preserves(doc, o, m)
  BY <1>6, <1>7, <1>9, PreservesTwice
<1>12. Carries(doc, o, n)
  BY <1>1, <1>6, <1>7, <1>9 DEF Preserves, Carries
<1>13. Tidy(doc, n) /\ ~doc.frozen /\ FileTrue(doc, n) => FileTrue(o, n)
  BY <1>1, <1>4, <1>6, <1>7, <1>9 DEF Preserves, Carries
<1>14. o.frozen = doc.frozen
  BY <1>4, <1>7, <1>9
<1>15. Orderly(o, stopped, N, g)
  BY <1>11, <1>12, <1>13, <1>14, BeforeIs, PreservesButOne DEF Before
<1> QED BY <1>1, <1>10, <1>15, BeforeIs, CollectOrder

\* An object is written anew.
LEMMA ReplaceOrder ==
  ASSUME NEW N, NEW g, Before(N, g), NEW n \in Num, n \in N, ReplaceObject(n)
  PROVE  Orderly(doc', stopped, N, g)
<1> DEFINE o == UpdateObject(doc, n)
<1>1. Edit(doc') /\ Live(n) /\ doc' = Collect(o, held')
  BY DEF ReplaceObject
<1>2. Room /\ edits + 1 \in Stamp
  BY <1>1, EditIs, BeforeIs
<1>3. Fits(doc) /\ Unused(doc, n) # {} /\ InUse(doc, n)
  BY <1>1, <1>2, LiveIs, RoomIs, BeforeIs
<1>4. o.frozen = doc.frozen /\ \A m \in Num : Preserves(doc, o, m)
  BY <1>2, <1>3, UpdateTidy
<1>5. Fits(o)
  BY <1>2, <1>3, UpdateObjectOK
<1> HIDE DEF o
<1>6. Orderly(o, stopped, N, g)
  BY <1>4, PreservesAll DEF Before
<1> QED BY <1>1, <1>5, <1>6, BeforeIs, CollectOrder

\* A new object.
LEMMA NewObjectOrder ==
  ASSUME NEW N, NEW g, Before(N, g), NewObject, doc.len + 1 \in N
  PROVE  Orderly(doc', stopped, N, g)
<1> DEFINE n == doc.len + 1
           d == CreateObject(doc)
           o == UpdateObject(d, n)
<1>1. Edit(doc') /\ doc.len < MaxNum /\ doc' = o
  BY DEF NewObject
<1>2. Room /\ edits + 1 \in Stamp
  BY <1>1, EditIs, BeforeIs
<1>3. n \in Num /\ Fits(d) /\ Unused(d, n) = Unused(doc, n) /\ Fits(doc)
  BY <1>1, CreateObjectOK, BeforeIs
<1>4. /\ Opened(d) /\ d.frozen = doc.frozen /\ Beyond(d, 1, n)
      /\ \A m \in Num : Preserves(doc, d, m)
  BY <1>1, <1>3, CreateTidy
<1> HIDE DEF n, d
<1>5. Unused(d, n) # {}
  BY <1>2, <1>3, RoomIs
<1>6. o.frozen = d.frozen /\ \A m \in Num : Preserves(d, o, m)
  BY <1>2, <1>3, <1>4, <1>5, UpdateTidy
<1> HIDE DEF o
<1>7. \A m \in Num : Preserves(doc, o, m)
  BY <1>4, <1>6, PreservesTwice
<1> QED BY <1>1, <1>4, <1>6, <1>7, PreservesAll DEF Before

\* A signature: the field stays in the increment that the value opened, so the
\* value lies beyond all older sections still.
LEMMA SignOrder ==
  ASSUME NEW N, NEW g, Before(N, g), NEW f \in Num, f \in N, SignField(f)
  PROVE  Orderly(doc', stopped, N, g)
<1> DEFINE n == doc.len + 1
           d == CreateObject(doc)
           p == AlterObject(d, f)
           q == UpdateObject(p, n)
           r == [q EXCEPT !.secs[1].signed = TRUE]
<1>1. Edit(doc') /\ Live(f) /\ doc.len < MaxNum /\ doc' = Collect(r, held)
  BY DEF SignField
<1>2. Room /\ edits + 1 \in Stamp
  BY <1>1, EditIs, BeforeIs
<1>3. /\ n \in Num /\ Fits(d) /\ Fits(doc)
      /\ \A m \in Num : Unused(d, m) = Unused(doc, m)
      /\ \A m \in Num : m # n => Keeps(doc, d, m)
  BY <1>1, CreateObjectOK, BeforeIs
<1>4. /\ Opened(d) /\ d.frozen = doc.frozen /\ Beyond(d, 1, n)
      /\ \A m \in Num : Preserves(doc, d, m)
  BY <1>1, <1>3, CreateTidy
<1>5. InUse(doc, f) /\ f # n /\ Spare(doc, f)
  <2>1. InUse(doc, f) /\ f \in Int /\ doc.len \in Int /\ f <= doc.len
    BY <1>1, <1>3, LiveIs, InUseFacts, DocFacts DEF Num
  <2> QED BY <1>2, <2>1, RoomIs
<1> HIDE DEF n, d
<1>6. InUse(d, f) /\ Spare(d, f)
  <2>1. Keeps(doc, d, f)
    BY <1>3, <1>5
  <2>2. Spare(d, f)
    BY <1>3, <1>5 DEF Spare
  <2> QED BY <1>5, <2>1, <2>2 DEF Keeps
<1>7. /\ Fits(p) /\ \A m \in Num : m # f => Unused(p, m) = Unused(d, m)
  BY <1>2, <1>3, <1>6, AlterObjectOK
<1>8. /\ p.frozen = d.frozen /\ Opened(p) /\ Frame(d, p)
      /\ \A m \in Num : m # f => Preserves(d, p, m)
      /\ Carries(d, p, f)
      /\ Tidy(d, f) /\ ~d.frozen /\ FileTrue(d, f) => FileTrue(p, f)
  BY <1>2, <1>3, <1>4, <1>6, AlterObjectTidy
<1> HIDE DEF p
<1>9. Unused(p, n) # {}
  <2>1. Unused(p, n) = Unused(doc, n)
    BY <1>3, <1>5, <1>7
  <2> QED BY <1>2, <1>3, <2>1, RoomIs
<1>10. Beyond(p, 1, n)
  <2>1. Len(p.secs) = Len(d.secs) /\ \A k \in 2..Len(d.secs) : p.secs[k].len = d.secs[k].len
    BY <1>8 DEF Frame
  <2>2. Len(d.secs) \in Nat
    BY <1>3, DocFacts
  <2>3. ASSUME NEW j \in 1..Len(p.secs), j > 1 PROVE n > p.secs[j].len
    <3>1. j \in 2..Len(d.secs)
      BY <2>1, <2>2, <2>3
    <3>2. n > d.secs[j].len
      BY <1>4, <2>1, <2>3 DEF Beyond
    <3> QED BY <2>1, <3>1, <3>2
  <2> QED BY <2>3 DEF Beyond
<1>11. Orderly(d, stopped, N, g)
  BY <1>4, PreservesAll DEF Before
<1>12. Orderly(p, stopped, N, g)
  BY <1>8, <1>11, BeforeIs, PreservesButOne
<1>13. q.frozen = p.frozen /\ \A m \in Num : Preserves(p, q, m)
  BY <1>2, <1>3, <1>7, <1>8, <1>9, <1>10, UpdateTidy
<1>14. Fits(q)
  BY <1>2, <1>3, <1>7, <1>9, UpdateObjectOK
<1> HIDE DEF q
<1>15. Orderly(q, stopped, N, g)
  BY <1>12, <1>13, BeforeIs, PreservesAll
<1>16. Fits(r)
  BY <1>14, MarkOK
<1>17. \A m \in Num : Preserves(q, r, m) /\ r.frozen = q.frozen
  BY <1>14, MarkTidy
<1>18. r.frozen = q.frozen
  BY <1>3, <1>17
<1> HIDE DEF r
<1>19. Orderly(r, stopped, N, g)
  BY <1>15, <1>17, <1>18, BeforeIs, PreservesAll
<1> QED BY <1>1, <1>16, <1>19, BeforeIs, CollectOrder

\* A save that stops early.
LEMMA StopOrder ==
  ASSUME NEW N, NEW g, Before(N, g), SaveStops
  PROVE  Orderly(doc', stopped', N, g)
<1>1. doc' = [doc EXCEPT !.frozen = TRUE] /\ stopped'
  BY DEF SaveStops
<1>2. doc \in Docs /\ Fits(doc)
  BY BeforeIs, DocFacts
<1>3. doc'.secs = doc.secs /\ doc'.heap = doc.heap /\ doc'.inc = doc.inc
  BY <1>1, <1>2 DEF Docs
<1>4. ASSUME NEW n \in N PROVE Tidy(doc', n) /\ (g => Grown(doc', n))
  <2>1. Tidy(doc, n) /\ (g => Grown(doc, n))
    BY DEF Before, Orderly
  <2> QED BY SMTT(30), <1>3, <2>1 DEF Tidy, Above, Grown, Beyond, Alive, Unshared
<1> QED BY <1>1, <1>4 DEF Orderly

\* A save of a copy.
LEMMA SaveCopyOrder ==
  ASSUME NEW N, NEW g, Before(N, g), program # "full" \/ ~g, SaveCopy
  PROVE  Orderly(doc', stopped, N, g)
<1> DEFINE o == Saved(doc)
<1>1. doc' = o /\ Fits(doc) /\ N \in SUBSET Num /\ ~o.frozen
  BY BeforeIs, SavedOK DEF SaveCopy
<1>2. CASE program # "full"
  <2>1. \A n \in Num : Preserves(doc, o, n)
    BY <1>1, <1>2, SavedTidy
  <2> QED BY <1>1, <2>1 DEF Before, Orderly, Preserves, Carries
<1>3. CASE ~g
  <2>1. /\ Len(o.secs) = Len(doc.secs) /\ o.inc = doc.inc /\ o.heap = doc.heap
        /\ \A k \in 1..Len(doc.secs) : o.secs[k].table = doc.secs[k].table
    BY <1>1, SavedOK
  <2> HIDE DEF o
  <2>2. ASSUME NEW n \in N
        PROVE  (Tidy(doc, n) => Tidy(o, n)) /\ (FileTrue(doc, n) => FileTrue(o, n))
    <3>1. Above(doc, n) => Above(o, n)
      BY <2>1 DEF Above
    <3>2. Alive(doc, n) => Alive(o, n)
      BY <2>1 DEF Alive
    <3>3. Unshared(doc, n) => Unshared(o, n)
      BY <2>1 DEF Unshared
    <3>4. FileTrue(doc, n) => FileTrue(o, n)
      BY <2>1 DEF FileTrue, TrueBut
    <3> QED BY <3>1, <3>2, <3>3, <3>4 DEF Tidy
  <2> QED BY <1>1, <1>3, <2>2 DEF Before, Orderly
<1> QED BY <1>2, <1>3

\* A save in place, with the file opened again.
LEMMA ReopenOrder ==
  ASSUME NEW N, NEW g, Before(N, g), program # "full", SaveAndReopen
  PROVE  Orderly(doc', stopped', N, g)
<1>1. doc' = OpenDocument(Written(doc)) /\ Fits(doc) /\ N \in SUBSET Num
  BY BeforeIs DEF SaveAndReopen
<1>2. ~OpenDocument(Written(doc)).frozen
  BY DEF OpenDocument
<1>3. \A n \in N : Tidy(doc', n) /\ Grown(doc', n) /\ FileTrue(doc', n)
  BY <1>1, ReopenTidy DEF Before, Orderly
<1> QED BY <1>1, <1>2, <1>3 DEF Orderly

-----------------------------------------------------------------------------
(* What is saved incrementally *)

\* What saving incrementally keeps.
SavInv == program = "incremental" => Orderly(doc, stopped, Num, TRUE)

\* Every file to open is in order.
LEMMA InitOrder == Init => SavInv
<1> SUFFICES ASSUME Init, program = "incremental" PROVE Orderly(doc, stopped, Num, TRUE)
  BY DEF SavInv
<1>1. PICK s \in Starts : doc = OpenDocument(s.file) /\ program = s.program
  BY DEF Init
<1> DEFINE f == s.file
<1>2. File(f)
  BY StartsAssumption
<1>3. Sections(f)
  BY <1>2 DEF File, Sections
<1>4. DOMAIN f = 1..Len(f)
  BY <1>3 DEF Sections
<1>5. \A n \in Num \ Revived, j, k \in 1..Len(f) :
         j < k /\ f[j].table[n].type = "f" => f[k].table[n].type # "n"
  BY <1>1, <1>4 DEF Revived
<1>6. \A n \in Num, k \in 1..Len(f) :
         /\ f[k].table[n].obj = None /\ f[k].table[n].buf = None
         /\ f[k].table[n].type = "n" => f[k].table[n].ofs # None
  BY <1>2, <1>4 DEF File
<1>7. doc = OpenDocument(f)
  BY <1>1
<1> HIDE DEF f
<1>8. ASSUME NEW n \in Num PROVE Tidy(doc, n) /\ Grown(doc, n) /\ FileTrue(doc, n)
  BY <1>3, <1>5, <1>6, <1>7, OpenTidy
<1>9. ~doc.frozen
  BY <1>7 DEF OpenDocument
<1> QED BY <1>8, <1>9 DEF Orderly

\* Every call keeps them in order.
LEMMA StepOrder == IInv /\ SavInv /\ [Next]_vars => SavInv'
<1> SUFFICES ASSUME IInv, SavInv, [Next]_vars PROVE SavInv'
  OBVIOUS
<1>1. program' = program
  BY DEF Next, Hold, Render, AlterDict, UpdateStream, ReplaceObject, DeleteObject, SignField,
         Release, AlterHeld, NewObject, SaveStops, SaveCopy, SaveAndReopen, Edit, vars
<1> SUFFICES ASSUME program = "incremental" PROVE Orderly(doc', stopped', Num, TRUE)
  BY <1>1 DEF SavInv
<1>2. Before(Num, TRUE) /\ program # "full"
  BY DEF Before, SavInv
<1>3. CASE Next
  <2>1. ASSUME NEW n \in Num, Hold(n) PROVE Orderly(doc', stopped', Num, TRUE)
    BY <1>2, <2>1, HoldOrder DEF Hold
  <2>2. ASSUME NEW n \in Num, Render(n) PROVE Orderly(doc', stopped', Num, TRUE)
    BY <1>2, <2>2, RenderOrder DEF Render
  <2>3. ASSUME NEW n \in Num, AlterDict(n) PROVE Orderly(doc', stopped', Num, TRUE)
    BY <1>2, <2>3, AlterDictOrder DEF AlterDict, Edit
  <2>4. ASSUME NEW n \in Num, UpdateStream(n) PROVE Orderly(doc', stopped', Num, TRUE)
    BY <1>2, <2>4, UpdateStreamOrder DEF UpdateStream, Edit
  <2>5. ASSUME NEW n \in Num, ReplaceObject(n) PROVE Orderly(doc', stopped', Num, TRUE)
    BY <1>2, <2>5, ReplaceOrder DEF ReplaceObject, Edit
  <2>6. ASSUME NEW n \in Num, DeleteObject(n) PROVE Orderly(doc', stopped', Num, TRUE)
    BY <2>6 DEF DeleteObject
  <2>7. ASSUME NEW n \in Num, SignField(n) PROVE Orderly(doc', stopped', Num, TRUE)
    BY <1>2, <2>7, SignOrder DEF SignField, Edit
  <2>8. CASE Release
    BY <1>2, <2>8, ReleaseOrder DEF Release
  <2>9. CASE AlterHeld
    <3>1. held.num \in Num
      BY <2>9 DEF AlterHeld, IInv, TypesOK
    <3> QED BY <1>2, <2>9, <3>1, AlterHeldOrder DEF AlterHeld, Edit
  <2>10. CASE NewObject
    <3>1. doc.len + 1 \in Num
      BY <2>10, CreateObjectOK DEF NewObject, IInv
    <3> QED BY <1>2, <2>10, <3>1, NewObjectOrder DEF NewObject, Edit
  <2>11. CASE SaveStops
    BY <1>2, <2>11, StopOrder
  <2>12. CASE SaveCopy
    BY <1>2, <2>12, SaveCopyOrder DEF SaveCopy
  <2>13. CASE SaveAndReopen
    BY <1>2, <2>13, ReopenOrder
  <2> QED
    BY <1>3, <2>1, <2>2, <2>3, <2>4, <2>5, <2>6, <2>7, <2>8, <2>9, <2>10, <2>11, <2>12, <2>13
       DEF Next
<1>4. CASE UNCHANGED vars
  <2>1. doc' = doc /\ stopped' = stopped
    BY <1>4 DEF vars
  <2> QED BY SMTT(30), <1>2, <2>1 DEF Before, Orderly, Tidy, Above, Grown, Beyond, Alive, Unshared,
                           FileTrue, TrueBut
<1> QED BY <1>3, <1>4

-----------------------------------------------------------------------------
(* What is read back *)

\* A file that is opened shows of an object what its newest section where it
\* is in use has, whether or not a newer one has it free.
LEMMA ReadsBack ==
  ASSUME NEW f, Sections(f), NEW n \in Num, NEW k \in 1..Len(f), f[k].table[n].type = "n",
         \A j \in 1..Len(f) : j < k => f[j].table[n].type # "n"
  PROVE  LET o == OpenDocument(f) IN
         n <= o.len /\ Content(o, 1, n) = Read(o, n, f[k].table[n])
<1> DEFINE o == OpenDocument(f)
           L == Len(f)
           T == {j \in DOMAIN f : f[j].table[n].type = "n"} \cup {L + 1}
           m == Min(T)
<1>1. L \in Nat \ {0} /\ DOMAIN f = 1..L
  BY DEF Sections
<1>2. T \in SUBSET Nat /\ k \in T /\ \A j \in T : ~(j < k)
  BY <1>1
<1>3. PrimeIndex(f)[n] = m % (L + 1)
  BY DEF PrimeIndex
<1> HIDE DEF T
<1>4. m \in T /\ m <= k
  BY <1>2, MinIs
<1>5. m = k
  <2>1. m \in Nat /\ ~(m < k) /\ k \in Nat
    BY <1>1, <1>2, <1>4
  <2> QED BY <1>4, <2>1
<1> HIDE DEF m
<1>6. PrimeIndex(f)[n] = k
  <2>1. k % (L + 1) = k
    BY <1>1
  <2> QED BY <1>3, <1>5, <2>1
<1>7. o.index[n] = k
  <2>1. Later(k, 1) = k
    BY <1>1 DEF Later
  <2>2. o.index = [i \in Num |-> Later(PrimeIndex(f)[i], 1)]
    BY DEF OpenDocument
  <2> QED BY <1>6, <2>1, <2>2
<1>8. Fits(o) /\ o.secs = f
  BY OpenOK
<1> HIDE DEF o
<1>9. k \in o.index[n]..Len(o.secs) /\ o.index[n]..(k - 1) = {}
  BY <1>1, <1>7, <1>8
<1>10. Find(o, 1, n) = k
  BY <1>8, <1>9, FindIs
<1>11. Found(o, 1, n) = f[k].table[n]
  BY <1>8, <1>10 DEF Found
<1>12. n <= o.len
  BY <1>8, <1>11, InUseFacts DEF InUse
<1> QED BY <1>11, <1>12 DEF Content, o

\* What is written of an object is what is read of it.
LEMMA ReadInFile ==
  ASSUME NEW d, Fits(d), NEW n \in Num, NEW b \in 1..Len(d.secs), NEW o,
         Found(d, b, n).type = "n"
  PROVE  /\ InFile(Content(d, b, n)).type = "n"
         /\ Read(o, n, InFile(Content(d, b, n))) = Content(d, b, n)
<1> DEFINE e == Found(d, b, n)
           c == Content(d, b, n)
           x == InFile(c)
           dict == IF e.obj # None THEN d.heap[n][e.obj] ELSE e.ofs
           stm == IF e.buf # None THEN e.buf ELSE e.stm
<1>1. c = [dict |-> dict, stm |-> stm]
  BY DEF Content, Read
<1> HIDE DEF dict, stm
<1>2. c.dict = dict /\ c.stm = stm
  BY <1>1
<1> HIDE DEF c
<1>3. x.type = "n" /\ x.obj = None /\ x.buf = None /\ x.ofs = c.dict /\ x.stm = c.stm
  BY DEF InFile, Unset
<1> HIDE DEF x
<1>4. Read(o, n, x) = [dict |-> x.ofs, stm |-> x.stm]
  BY <1>3 DEF Read
<1>5. Read(o, n, x) = c
  BY <1>1, <1>2, <1>3, <1>4
<1> QED BY <1>3, <1>5 DEF x, c

\* A full save writes every object there is.
LEMMA FullReadsBack ==
  ASSUME NEW d, Fits(d), program = "full", NEW n \in Num, InUse(d, n)
  PROVE  LET o == OpenDocument(Written(d)) IN
         n <= o.len /\ Content(o, 1, n) = Content(d, 1, n)
<1> DEFINE f == Written(d)
           t == [m \in Num |-> IF m > d.len THEN Unset
                               ELSE IF Content(d, 1, m) = None THEN Freed
                               ELSE InFile(Content(d, 1, m))]
<1>1. 1 \in 1..Len(d.secs) /\ Found(d, 1, n).type = "n" /\ Found(d, 1, n) \in Entry
  BY DocFacts, InUseFacts DEF InUse
<1>2. Content(d, 1, n) # None
  BY <1>1, ReadOK DEF Content
<1>3. ~(n > d.len)
  <2>1. n <= d.len /\ n \in Int /\ d.len \in Int
    BY InUseFacts, DocFacts DEF Num
  <2> QED BY <2>1
<1>4. t[n] = InFile(Content(d, 1, n))
  BY <1>2, <1>3
<1>5. f = <<Revision(t)>>
  BY DEF Written, Everything
<1> HIDE DEF t
<1>6. Len(f) = 1 /\ f[1] = Revision(t)
  BY <1>5
<1>7. Sections(f)
  BY WrittenOK
<1> HIDE DEF f
<1>8. f[1].table[n] = InFile(Content(d, 1, n))
  BY <1>4, <1>6 DEF Revision
<1>9. 1 \in 1..Len(f) /\ \A j \in 1..Len(f) : ~(j < 1)
  BY <1>6
<1>10. \A o : f[1].table[n].type = "n" /\ Read(o, n, f[1].table[n]) = Content(d, 1, n)
  BY <1>1, <1>8, ReadInFile
<1>11. f[1].table[n].type = "n"
  BY <1>10
<1>12. LET o == OpenDocument(f) IN
       n <= o.len /\ Content(o, 1, n) = Read(o, n, f[1].table[n])
  BY <1>7, <1>9, <1>11, ReadsBack
<1> QED BY <1>10, <1>12 DEF f

\* With at most two increments, the newest place of an object in use is
\* written with what it shows.
LEMMA UsedWhenFew ==
  ASSUME NEW d, Fits(d), NEW n \in Num, Tidy(d, n), Grown(d, n), InUse(d, n),
         d.inc <= (IF n \in Revived THEN 1 ELSE 2),
         Find(d, 1, n) <= d.inc
  PROVE  Used(d, Find(d, 1, n), n) /\ Find(d, Find(d, 1, n), n) = Find(d, 1, n)
<1> DEFINE k == Find(d, 1, n)
           L == Len(d.secs)
<1>1. /\ L \in Nat /\ d.inc \in Nat /\ d.inc < L /\ k \in 1..L /\ k <= d.inc
      /\ d.secs[k].table[n].type = "n"
  BY DocFacts, FindFacts, InUseFacts DEF InUse
<1> HIDE DEF k
<1>2. Find(d, k, n) = k
  <2>1. k \in k..L
    BY <1>1
  <2>2. Find(d, k, n) \in k..k
    BY <1>1, <2>1, FoundBelow DEF Tidy
  <2> QED BY <1>1, <2>2
<1>3. ASSUME NEW b \in k..d.inc, b # k PROVE Found(d, b, n).type = "n"
  <2>1. n \notin Revived /\ k = 1 /\ b = 2 /\ 2 \in 1..L /\ 1 \in 1..d.inc /\ L > 2
    BY <1>1, <1>3 DEF k
  <2>2. d.secs[1].table[n].type = "n"
    BY <1>1, <2>1
  <2>3. CASE \E j \in 1..L : j > 1 /\ d.secs[j].table[n].type = "n"
    <3>1. PICK j \in 2..L : d.secs[j].table[n].type = "n"
      BY <2>3
    <3>2. d.secs[Find(d, 2, n)].table[n].type = "n"
      BY <2>1, <3>1, FoundBelow DEF Tidy
    <3> QED BY <2>1, <3>2 DEF Found
  <2>4. CASE Beyond(d, 1, n)
    <3> DEFINE i == Later(d.index[n], 2)
    <3>1. i \in Nat /\ i >= 2
      BY DocFacts DEF Later
    <3> HIDE DEF i
    <3>2. \A j \in i..L : ~Defined(d, j, n)
      <4> SUFFICES ASSUME NEW j \in i..L PROVE ~(n <= d.secs[j].len)
        BY DEF Defined
      <4>1. j \in 1..L /\ j > 1
        BY <1>1, <3>1
      <4>2. n > d.secs[j].len /\ n \in Int /\ d.secs[j].len \in Int
        BY <2>4, <4>1, DocFacts DEF Beyond, Num
      <4> QED BY <4>2
    <3>3. Holders(d, i, n) = {}
      BY <3>2 DEF Holders
    <3>4. ~(n <= d.secs[L].len)
      <4>1. L \in 1..L /\ L > 1
        BY <1>1, <2>1
      <4>2. n > d.secs[L].len /\ n \in Int /\ d.secs[L].len \in Int
        BY <2>4, <4>1, DocFacts DEF Beyond, Num
      <4> QED BY <4>2
    <3>5. Find(d, 2, n) = 1
      BY <3>3, <3>4 DEF Find, i
    <3> QED BY <2>1, <2>2, <3>5 DEF Found
  <2> QED BY <2>1, <2>2, <2>3, <2>4 DEF Grown
<1>4. Found(d, k, n).type = "n"
  BY <1>1, <1>2 DEF Found
<1>5. Used(d, k, n)
  BY <1>3, <1>4 DEF Used
<1> QED BY <1>2, <1>5 DEF k

\* An incremental save of at most two increments writes what they show; of one,
\* whatever the file has free.
LEMMA FewReadBack ==
  ASSUME NEW d, Fits(d), program # "full", NEW n \in Num, Tidy(d, n), Grown(d, n),
         FileTrue(d, n), InUse(d, n), d.inc <= (IF n \in Revived THEN 1 ELSE 2)
  PROVE  LET o == OpenDocument(Written(d)) IN
         n <= o.len /\ Content(o, 1, n) = Content(d, 1, n)
<1> DEFINE k == Find(d, 1, n)
           L == Len(d.secs)
           e == d.secs[k].table[n]
           f == Written(d)
<1>1. /\ L \in Nat /\ d.inc \in Nat /\ k \in 1..L /\ e.type = "n" /\ e \in Entry
      /\ Found(d, 1, n) = e /\ k \in d.index[n]..L
      /\ \A j \in d.index[n]..(k - 1) : d.secs[j].table[n].type = "unset"
      /\ d.index[n] \in 1..L
  BY DocFacts, FindFacts, InUseFacts DEF InUse
<1>2. Sections(f) /\ Len(f) = L
  <2>1. 1 \in 1..L
    BY <1>1
  <2> QED BY <2>1, WrittenOK, WrittenEntry
<1>3. ASSUME NEW j \in 1..L, j < k PROVE f[j].table[n].type # "n"
  <2>1. f[j].table[n].type = "n" => d.secs[j].table[n].type = "n"
    BY WrittenTypes
  <2>2. CASE j < d.index[n]
    BY <2>1, <2>2, DocFacts DEF Fits, Sound
  <2>3. CASE ~(j < d.index[n])
    <3>1. j \in d.index[n]..(k - 1)
      BY <1>1, <1>3, <2>3
    <3> QED BY <1>1, <2>1, <3>1
  <2> QED BY <2>2, <2>3
<1>4. f[k].table[n].type = "n" /\ \A o : Read(o, n, f[k].table[n]) = Content(d, 1, n)
  <2>1. CASE k > d.inc
    <3> DEFINE x == f[k].table[n]
    <3>1. x = [e EXCEPT !.obj = None, !.buf = None]
      BY <1>1, <2>1, WrittenEntry
    <3>2. x.type = "n" /\ x.ofs = e.ofs /\ x.stm = e.stm /\ x.obj = None /\ x.buf = None
      <4> HIDE DEF x, e
      <4> QED BY <1>1, <3>1 DEF Entry
    <3> HIDE DEF x
    <3>3. \A o : Read(o, n, x) = [dict |-> e.ofs, stm |-> e.stm]
      BY <3>2 DEF Read
    <3>4. e.buf = None /\ (e.obj # None => d.heap[n][e.obj] = e.ofs)
      <4>1. k # 0
        BY <1>1
      <4> QED BY <1>1, <2>1, <4>1 DEF FileTrue, TrueBut
    <3> HIDE DEF e
    <3>5. Content(d, 1, n) = [dict |-> e.ofs, stm |-> e.stm]
      BY <1>1, <3>4 DEF Content, Read
    <3> QED BY <3>2, <3>3, <3>5 DEF x
  <2>2. CASE ~(k > d.inc)
    <3>1. k <= d.inc
      BY <1>1, <2>2
    <3>2. Used(d, k, n) /\ Find(d, k, n) = k
      BY <3>1, UsedWhenFew
    <3>3. f[k].table[n] = InFile(Content(d, k, n))
      BY <1>1, <2>2, <3>2, WrittenEntry
    <3>4. Found(d, k, n) = Found(d, 1, n) /\ Content(d, k, n) = Content(d, 1, n)
      BY <3>2 DEF Found, Content
    <3>5. \A o : InFile(Content(d, k, n)).type = "n"
                 /\ Read(o, n, InFile(Content(d, k, n))) = Content(d, k, n)
      BY <1>1, <3>4, ReadInFile
    <3> HIDE DEF f, k
    <3> QED BY <3>3, <3>4, <3>5
  <2> QED BY <2>1, <2>2
<1> HIDE DEF f, e, k
<1>5. k \in 1..Len(f) /\ \A j \in 1..Len(f) : j < k => f[j].table[n].type # "n"
  BY <1>1, <1>2, <1>3
<1>6. LET o == OpenDocument(f) IN
      n <= o.len /\ Content(o, 1, n) = Read(o, n, f[k].table[n])
  BY <1>2, <1>4, <1>5, ReadsBack
<1> QED BY <1>4, <1>6 DEF f

\* What was edited is what the saved file reads back, for every object in use:
\* always after a full save; after an incremental one of at most two
\* increments, or one if opening the file had revived the object, of a document
\* none of whose saves has stopped.
THEOREM SavesWhatWasEdited == Spec => SavedAsEdited
<1> DEFINE Both == IInv /\ SavInv
           Step == SaveAndReopen => \A n \in Num :
                      Live(n) /\ (program = "full" \/ (~stopped /\ doc.inc <= (IF n \in Revived THEN 1 ELSE 2)))
                          => Current'[n] = Current[n]
<1>1. Init => Both
  BY InitInv, InitOrder
<1>2. Both /\ [Next]_vars => Both'
  BY StepInv, StepOrder
<1>3. Both => Step
  <2> SUFFICES ASSUME IInv, SavInv, SaveAndReopen, NEW n \in Num, Live(n),
                      program = "full" \/ (~stopped /\ doc.inc <= (IF n \in Revived THEN 1 ELSE 2))
               PROVE  Current'[n] = Current[n]
    OBVIOUS
  <2>1. doc' = OpenDocument(Written(doc)) /\ Fits(doc)
    BY DEF SaveAndReopen, IInv
  <2>2. InUse(doc, n)
    BY <2>1, LiveIs
  <2>3. n <= doc'.len /\ Content(doc', 1, n) = Content(doc, 1, n)
    <3>1. CASE program = "full"
      BY <2>1, <2>2, <3>1, FullReadsBack
    <3>2. CASE program # "full"
      <4>1. program = "incremental"
        BY <3>2 DEF IInv, TypesOK
      <4>2. Tidy(doc, n) /\ Grown(doc, n) /\ FileTrue(doc, n)
            /\ doc.inc <= (IF n \in Revived THEN 1 ELSE 2)
        BY <3>2, <4>1 DEF SavInv, Orderly
      <4> QED BY <2>1, <2>2, <3>2, <4>2, FewReadBack
    <3> QED BY <3>1, <3>2
  <2>4. n <= doc.len
    BY <2>1, <2>2, InUseFacts
  <2>5. Current[n] = Content(doc, 1, n)
    BY <2>4 DEF Current
  <2>6. Current'[n] = Content(doc', 1, n)
    BY <2>3 DEF Current
  <2> QED BY <2>3, <2>5, <2>6
<1> HIDE DEF Both
<1>4. Both /\ [Next]_vars => [Step]_vars
  BY <1>3
<1> HIDE DEF Step
<1>5. Spec => [][Step]_vars
  BY <1>1, <1>2, <1>4, PTL DEF Spec
<1> QED BY <1>5 DEF SavedAsEdited, Step

-----------------------------------------------------------------------------
(* What has been signed stays as it was *)

\* The sections e has in front of those of d: no section is signed by the way.
Shift(d, e) == Len(e.secs) - Len(d.secs)
Onward(d, e) ==
    /\ Shift(d, e) \in Nat
    /\ \A k \in 1..Shift(d, e) : ~e.secs[k].signed
    /\ \A k \in 1..Len(d.secs) : e.secs[k + Shift(d, e)].signed = d.secs[k].signed

\* A section that a signed version is made of, and the dictionary of an object
\* that a section has in use.
Bound(d, k) == \E j \in 1..k : d.secs[j].signed
DictAt(d, k, n) == Read(d, n, d.secs[k].table[n]).dict

\* The signed versions have the object as before; and so has the document.
Steady(d, e, n) == \A k \in 1..Len(d.secs) : Bound(d, k) =>
    LET j == k + Shift(d, e) IN
    /\ e.secs[j].table[n].type = d.secs[k].table[n].type
    /\ d.secs[k].table[n].type = "n" => DictAt(e, j, n) = DictAt(d, k, n)
Shows(d, e, n) == Content(e, 1, n) = Content(d, 1, n)
Alike(d, e, n) == Steady(d, e, n) /\ Shows(d, e, n)

\* One thing after the other.
LEMMA OnwardTwice ==
  ASSUME NEW d, Fits(d), NEW e, Fits(e), NEW o, Fits(o), Onward(d, e), Onward(e, o)
  PROVE  /\ Onward(d, o)
         /\ \A n : Steady(d, e, n) /\ Steady(e, o, n) => Steady(d, o, n)
<1> DEFINE s == Shift(d, e)
           t == Shift(e, o)
           L == Len(d.secs)
<1>1. /\ s \in Nat /\ t \in Nat /\ L \in Nat /\ Len(e.secs) = L + s /\ Len(o.secs) = L + s + t
      /\ Shift(d, o) = s + t
  <2> DEFINE M == Len(e.secs)
             N == Len(o.secs)
  <2>1. L \in Nat /\ M \in Nat /\ N \in Nat
    BY DocFacts
  <2>2. s \in Nat /\ t \in Nat
    BY DEF Onward
  <2>3. s = M - L /\ t = N - M /\ Shift(d, o) = N - L
    BY DEF Shift
  <2> HIDE DEF L, M, N, s, t
  <2>4. M = L + s /\ N = L + s + t /\ Shift(d, o) = s + t
    BY <2>1, <2>2, <2>3
  <2> QED BY <2>1, <2>2, <2>4 DEF M, N
<1>2. /\ \A k \in 1..s : ~e.secs[k].signed
      /\ \A k \in 1..L : e.secs[k + s].signed = d.secs[k].signed
      /\ \A k \in 1..t : ~o.secs[k].signed
      /\ \A k \in 1..Len(e.secs) : o.secs[k + t].signed = e.secs[k].signed
  BY DEF Onward
<1>3. ASSUME NEW n, Steady(d, e, n), Steady(e, o, n), NEW k \in 1..L, Bound(d, k)
      PROVE  /\ o.secs[k + (s + t)].table[n].type = d.secs[k].table[n].type
             /\ d.secs[k].table[n].type = "n" => DictAt(o, k + (s + t), n) = DictAt(d, k, n)
  <2>1. PICK j \in 1..k : d.secs[j].signed
    BY <1>3 DEF Bound
  <2>2. /\ e.secs[k + s].table[n].type = d.secs[k].table[n].type
        /\ d.secs[k].table[n].type = "n" => DictAt(e, k + s, n) = DictAt(d, k, n)
    BY <1>3 DEF Steady
  <2> HIDE DEF s, t, L
  <2>3. j + s \in 1..(k + s) /\ j \in 1..L /\ k + s \in 1..Len(e.secs) /\ (k + s) + t = k + (s + t)
    BY <1>1, <2>1
  <2>4. Bound(e, k + s)
    BY <1>2, <2>1, <2>3 DEF Bound
  <2>5. /\ o.secs[(k + s) + t].table[n].type = e.secs[k + s].table[n].type
        /\ e.secs[k + s].table[n].type = "n" => DictAt(o, (k + s) + t, n) = DictAt(e, k + s, n)
    BY <1>3, <2>3, <2>4 DEF Steady, t
  <2> QED BY <2>2, <2>3, <2>5
<1> HIDE DEF s, t, L
<1>4. \A k \in 1..(s + t) : ~o.secs[k].signed
  <2> SUFFICES ASSUME NEW k \in 1..(s + t) PROVE ~o.secs[k].signed
    OBVIOUS
  <2>1. CASE k \in 1..t
    BY <1>2, <2>1
  <2>2. CASE k \notin 1..t
    <3>1. k - t \in 1..s /\ k - t \in 1..Len(e.secs) /\ (k - t) + t = k
      BY <1>1, <2>2
    <3>2. o.secs[(k - t) + t].signed = e.secs[k - t].signed
      BY <1>2, <3>1
    <3> QED BY <1>2, <3>1, <3>2
  <2> QED BY <2>1, <2>2
<1>5. ASSUME NEW k \in 1..L PROVE o.secs[k + (s + t)].signed = d.secs[k].signed
  <2>1. k + s \in 1..Len(e.secs) /\ (k + s) + t = k + (s + t)
    BY <1>1
  <2>2. o.secs[(k + s) + t].signed = e.secs[k + s].signed
    BY <1>2, <2>1
  <2> QED BY <1>2, <2>1, <2>2
<1>6. Onward(d, o)
  BY <1>1, <1>4, <1>5 DEF Onward, L
<1>7. ASSUME NEW n, Steady(d, e, n), Steady(e, o, n) PROVE Steady(d, o, n)
  BY <1>1, <1>3, <1>7 DEF Steady, L
<1> QED BY <1>6, <1>7

\* Nothing about the object has changed, but for a section in front.
LEMMA SameAlike ==
  ASSUME NEW d, Fits(d), NEW e, Fits(e), NEW n \in Num, NEW s \in {0, 1}, SameAs(d, e, n, s)
  PROVE  Steady(d, e, n) /\ (Keeps(d, e, n) => Shows(d, e, n))
<1>1. /\ Len(e.secs) = Len(d.secs) + s /\ e.heap[n] = d.heap[n] /\ Len(d.secs) \in Nat
      /\ \A k \in 1..Len(d.secs) : e.secs[k + s].table[n] = d.secs[k].table[n]
  BY DocFacts DEF SameAs
<1>2. Shift(d, e) = s
  BY <1>1 DEF Shift
<1>3. \A x : Read(e, n, x) = Read(d, n, x)
  BY <1>1 DEF Read
<1>4. Steady(d, e, n)
  BY <1>1, <1>2, <1>3 DEF Steady, DictAt
<1>5. ASSUME Keeps(d, e, n) PROVE Shows(d, e, n)
  <2>1. CASE InUse(d, n)
    BY <1>3, <1>5, <2>1 DEF Keeps, Shows, Content
  <2>2. CASE ~InUse(d, n)
    BY <1>5, <2>2 DEF Keeps, Shows, Content, InUse, Read
  <2> QED BY <2>1, <2>2
<1> QED BY <1>4, <1>5

\* Two documents of the same sections that read the same of an object.
Level(d, e, n) ==
    /\ Len(e.secs) = Len(d.secs)
    /\ \A k \in 1..Len(d.secs) :
          /\ e.secs[k].table[n].type = d.secs[k].table[n].type
          /\ Read(e, n, e.secs[k].table[n]) = Read(d, n, d.secs[k].table[n])
Flags(d, e) == /\ Len(e.secs) = Len(d.secs)
               /\ \A k \in 1..Len(d.secs) : e.secs[k].signed = d.secs[k].signed

\* They have the same signed versions, and show the same where the object in
\* use is found at one place.
LEMMA LevelAlike ==
  ASSUME NEW d, Fits(d), NEW e, Fits(e), NEW n \in Num, Level(d, e, n)
  PROVE  /\ Steady(d, e, n)
         /\ Find(e, 1, n) = Find(d, 1, n) => Shows(d, e, n)
         /\ (InUse(d, n) <=> InUse(e, n)) /\ (InUse(d, n) => Find(e, 1, n) = Find(d, 1, n))
            => Shows(d, e, n)
<1>1. Len(d.secs) \in Nat /\ Len(e.secs) = Len(d.secs)
  BY DocFacts DEF Level
<1>2. Shift(d, e) = 0 /\ \A k \in 1..Len(d.secs) : k + 0 = k
  BY <1>1 DEF Shift
<1>3. Steady(d, e, n)
  BY <1>2 DEF Steady, Level, DictAt
<1>4. Find(d, 1, n) \in 1..Len(d.secs)
  BY FindFacts
<1>5. ASSUME Find(e, 1, n) = Find(d, 1, n) PROVE Shows(d, e, n)
  BY <1>4, <1>5 DEF Shows, Content, Found, Level
<1>6. ASSUME ~InUse(d, n), ~InUse(e, n) PROVE Shows(d, e, n)
  BY <1>6 DEF Shows, Content, InUse, Read
<1> QED BY <1>3, <1>5, <1>6

\* And they go on from each other.
LEMMA FlagsOnward ==
  ASSUME NEW d, Fits(d), NEW e, Flags(d, e)
  PROVE  Onward(d, e) /\ Shift(d, e) = 0
<1>1. Len(d.secs) \in Nat /\ Len(e.secs) = Len(d.secs)
  BY DocFacts DEF Flags
<1>2. Shift(d, e) = 0 /\ (\A k \in 1..Len(d.secs) : k + 0 = k) /\ \A k \in 1..0 : FALSE
  BY <1>1 DEF Shift
<1> QED BY <1>2 DEF Onward, Flags

\* An increment that is not signed is no part of a signed version.
LEMMA OpenedFree ==
  ASSUME NEW d, Fits(d), Opened(d)
  PROVE  1 \in 1..Len(d.secs) /\ ~Bound(d, 1)
<1>1. Len(d.secs) \in Nat \ {0}
  BY DocFacts
<1> QED BY <1>1 DEF Bound, Opened

\* An increment that is opened changes no version.
LEMMA OpenOnward ==
  ASSUME NEW d, Fits(d)
  PROVE  LET o == OpenIncrement(d) IN
         Onward(d, o) /\ \A n \in Num : Alike(d, o, n)
<1> DEFINE o == OpenIncrement(d)
           L == Len(d.secs)
           new == [len |-> d.secs[1].len, signed |-> FALSE, table |-> UnsetTable]
<1>1. /\ Fits(o) /\ Ahead(d) \in {0, 1}
      /\ \A n \in Num : SameAs(d, o, n, Ahead(d)) /\ Keeps(d, o, n)
  BY OpenIncrementOK, OpenSame DEF Ahead
<1>2. \A n \in Num : Alike(d, o, n)
  BY <1>1, SameAlike DEF Alike
<1>3. Onward(d, o)
  <2>1. CASE Opened(d)
    <3>1. o = d
      BY <2>1 DEF OpenIncrement, Opened
    <3> QED BY <3>1, FlagsOnward DEF Flags
  <2>2. CASE ~Opened(d)
    <3>1. d \in Docs /\ d.secs \in Seq(Section) /\ L \in Nat /\ d.secs[1].len \in 0..MaxNum
      BY DocFacts
    <3>2. new \in Section /\ ~new.signed
      BY <3>1, UnsetFacts DEF Section, UnsetTable
    <3>3. o = [d EXCEPT !.secs = <<new>> \o d.secs, !.inc = @ + 1,
                        !.index = [n \in Num |-> d.index[n] + 1]]
      BY <2>2 DEF OpenIncrement, UnsetTable, Opened
    <3> HIDE DEF new, o
    <3>4. o.secs = <<new>> \o d.secs
      BY <3>1, <3>3 DEF Docs
    <3>5. Len(o.secs) = L + 1 /\ o.secs[1] = new /\ \A k \in 1..L : o.secs[k + 1] = d.secs[k]
      BY <3>1, <3>2, <3>4
    <3>6. Shift(d, o) = 1
      <4> HIDE DEF L
      <4>1. (L + 1) - L = 1
        BY <3>1
      <4> QED BY <3>5, <4>1 DEF Shift, L
    <3>7. \A k \in 1..1 : k = 1
      OBVIOUS
    <3> QED BY <3>2, <3>5, <3>6, <3>7 DEF Onward
  <2> QED BY <2>1, <2>2
<1> QED BY <1>2, <1>3

\* Nor does a place that is made for an object in it.
LEMMA IncrementalOnward ==
  ASSUME NEW d, Fits(d), NEW n \in Num
  PROVE  LET o == IncrementalEntry(d, n) IN
         /\ Fits(o) /\ Opened(o) /\ Onward(d, o)
         /\ \A m \in Num : Steady(d, o, m) /\ (m # n => Shows(d, o, m))
<1> DEFINE p == OpenIncrement(d)
           o == IncrementalEntry(d, n)
<1>1. /\ Fits(o) /\ Opened(o) /\ Ahead(d) \in {0, 1}
      /\ \A m \in Num : SameAs(d, o, m, Ahead(d)) /\ (m # n => Keeps(d, o, m))
  BY IncrementalEntryOK, IncrementalSame DEF Ahead
<1>2. \A m \in Num : Steady(d, o, m) /\ (m # n => Shows(d, o, m))
  BY <1>1, SameAlike
<1>3. Fits(p) /\ Onward(d, p)
  BY OpenIncrementOK, OpenOnward
<1>4. Flags(p, o)
  BY IncrementalFlags DEF Flags
<1>5. Onward(p, o)
  BY <1>3, <1>4, FlagsOnward
<1> HIDE DEF p, o
<1> QED BY <1>1, <1>2, <1>3, <1>5, OnwardTwice DEF o

\* The sections of the file have in memory what the file has.
Filed(d, n) == \A k \in 1..Len(d.secs) : k > d.inc /\ d.secs[k].table[n].obj # None =>
    d.heap[n][d.secs[k].table[n].obj] = d.secs[k].table[n].ofs

\* So they have where the document shows what the file has.
LEMMA TrueFiled ==
  ASSUME NEW d, NEW n, FileTrue(d, n)
  PROVE  Filed(d, n)
<1>1. \A k \in 1..Len(d.secs) : k # 0
  OBVIOUS
<1> QED BY <1>1 DEF FileTrue, TrueBut, Filed

\* What is found where it was, and is in memory as it was, is shown as it was.
LEMMA KeepsShows ==
  ASSUME NEW d, NEW e, NEW n, Keeps(d, e, n), e.heap[n] = d.heap[n]
  PROVE  Shows(d, e, n)
<1>1. CASE InUse(d, n)
  BY <1>1 DEF Keeps, Shows, Content, Read
<1>2. CASE ~InUse(d, n)
  BY <1>2 DEF Keeps, Shows, Content, InUse, Read
<1> QED BY <1>1, <1>2

\* Reading an object into memory.
LEMMA CacheLevel ==
  ASSUME NEW d, Fits(d), NEW n \in Num, InUse(d, n), Unused(d, n) # {}
  PROVE  LET o == CacheObject(d, n) IN
         /\ Flags(d, o)
         /\ \A m \in Num : m # n => Level(d, o, m)
         /\ Alive(d, n) => Level(d, o, n) /\ (Filed(d, n) => Filed(o, n))
<1> DEFINE o == CacheObject(d, n)
           k == Find(d, 1, n)
           e == d.secs[k].table[n]
           c == NewCell(d, n)
           L == Len(d.secs)
<1>1. /\ k \in 1..L /\ e \in Entry /\ e.type = "n" /\ c \in Unused(d, n) /\ c \in Cells
      /\ Len(o.secs) = L /\ o.inc = d.inc
      /\ \A j \in 1..L :
            /\ o.secs[j].signed = d.secs[j].signed
            /\ \A m \in Num : o.secs[j].table[m] =
                  IF j = k /\ m = n /\ e.obj = None THEN [e EXCEPT !.obj = c]
                  ELSE d.secs[j].table[m]
      /\ \A m \in Num, b \in Cells : o.heap[m][b] =
            IF m = n /\ b = c /\ e.obj = None THEN e.ofs ELSE d.heap[m][b]
      /\ \A m \in Num : m # n => o.heap[m] = d.heap[m]
  BY CacheShape
<1>2. \A j \in 1..L : d.secs[j].table[n].obj \in Cells \cup {None} /\ d.secs[j].table[n] \in Entry
  BY DocFacts DEF Entry
<1> HIDE DEF o, k, e, c
<1>3. Flags(d, o)
  BY <1>1 DEF Flags
<1>4. ASSUME NEW m \in Num, m # n PROVE Level(d, o, m)
  <2>1. \A x : Read(o, m, x) = Read(d, m, x)
    BY <1>1, <1>4 DEF Read
  <2> QED BY <1>1, <1>4, <2>1 DEF Level
<1>5. ASSUME Alive(d, n) PROVE Level(d, o, n) /\ (Filed(d, n) => Filed(o, n))
  <2>1. c # None /\ \A j \in 1..L : d.secs[j].table[n].obj # c
    BY <1>1, <1>5, FreshCell
  <2>2. ASSUME NEW j \in 1..L
        PROVE  /\ o.secs[j].table[n].type = d.secs[j].table[n].type
               /\ Read(o, n, o.secs[j].table[n]) = Read(d, n, d.secs[j].table[n])
               /\ Filed(d, n) /\ j > d.inc /\ o.secs[j].table[n].obj # None
                  => o.heap[n][o.secs[j].table[n].obj] = o.secs[j].table[n].ofs
    <3>1. CASE j = k /\ e.obj = None
      <4>1. o.secs[j].table[n] = [e EXCEPT !.obj = c] /\ d.secs[j].table[n] = e /\ o.heap[n][c] = e.ofs
        BY <1>1, <3>1 DEF e
      <4>2. LET x == [e EXCEPT !.obj = c] IN
            x.type = e.type /\ x.ofs = e.ofs /\ x.stm = e.stm /\ x.buf = e.buf /\ x.obj = c
        BY <1>1 DEF Entry
      <4> QED BY <2>1, <3>1, <4>1, <4>2 DEF Read
    <3>2. CASE ~(j = k /\ e.obj = None)
      <4> DEFINE x == d.secs[j].table[n]
      <4>1. o.secs[j].table[n] = x /\ x.obj \in Cells \cup {None} /\ x.obj # c
        BY <1>1, <1>2, <2>1, <3>2
      <4>2. x.obj # None => o.heap[n][x.obj] = d.heap[n][x.obj]
        BY <1>1, <4>1
      <4>3. Filed(d, n) /\ j > d.inc /\ x.obj # None => d.heap[n][x.obj] = x.ofs
        BY DEF Filed
      <4> HIDE DEF x
      <4>4. Read(o, n, x) = Read(d, n, x)
        BY <4>2 DEF Read
      <4> QED BY <4>1, <4>2, <4>3, <4>4 DEF x
    <3> QED BY <3>1, <3>2
  <2> QED BY <1>1, <2>2 DEF Level, Filed
<1> QED BY <1>3, <1>4, <1>5 DEF o

\* So it changes no version.
LEMMA CacheAlike ==
  ASSUME NEW d, Fits(d), NEW n \in Num, InUse(d, n), Unused(d, n) # {}, Alive(d, n)
  PROVE  LET o == CacheObject(d, n) IN
         Onward(d, o) /\ \A m \in Num : Alike(d, o, m)
<1> DEFINE o == CacheObject(d, n)
<1>1. /\ Fits(o) /\ Find(o, 1, n) = Find(d, 1, n)
      /\ \A m \in Num : m # n => Keeps(d, o, m) /\ o.heap[m] = d.heap[m]
  BY CacheObjectOK, CacheShape
<1>2. Flags(d, o) /\ \A m \in Num : Level(d, o, m)
  BY CacheLevel
<1> HIDE DEF o
<1>3. Onward(d, o)
  BY <1>2, FlagsOnward
<1>4. Alike(d, o, n)
  BY <1>1, <1>2, LevelAlike DEF Alike
<1>5. ASSUME NEW m \in Num, m # n PROVE Alike(d, o, m)
  <2>1. Level(d, o, m) /\ Keeps(d, o, m)
    BY <1>1, <1>2, <1>5
  <2>2. Steady(d, o, m)
    BY <1>1, <2>1, LevelAlike
  <2>3. Shows(d, o, m)
    BY <1>1, <1>5, <2>1, KeepsShows
  <2> QED BY <2>2, <2>3 DEF Alike
<1> QED BY <1>3, <1>4, <1>5 DEF o

\* A section more in front leaves what the sections of the file have.
LEMMA SameFiled ==
  ASSUME NEW d, Fits(d), NEW e, Fits(e), NEW n \in Num, NEW s \in {0, 1}, SameAs(d, e, n, s),
         Filed(d, n)
  PROVE  Filed(e, n)
<1> SUFFICES ASSUME NEW k \in 1..Len(e.secs), k > e.inc, e.secs[k].table[n].obj # None
             PROVE  e.heap[n][e.secs[k].table[n].obj] = e.secs[k].table[n].ofs
  BY DEF Filed
<1>1. e.inc = d.inc + s /\ d.inc \in Nat /\ e.heap[n] = d.heap[n]
  BY DocFacts DEF SameAs
<1>2. k - s \in 1..Len(d.secs) /\ e.secs[k].table[n] = d.secs[k - s].table[n]
  BY SameSections, UnsetFacts
<1>3. k - s > d.inc
  BY <1>1, <1>2
<1> QED BY <1>1, <1>2, <1>3 DEF Filed

\* An object that moves to the newest increment leaves its dictionary behind:
\* a copy in an increment, what the file has in a section of the file.
LEMMA MovedAlike ==
  ASSUME NEW d, Fits(d), NEW n \in Num, InUse(d, n), Unused(d, n) # {}, Opened(d),
         NEW at, at = Find(d, 1, n), at # 1, NEW e, e = Moved(d, n, at)
  PROVE  /\ Onward(d, e)
         /\ \A m \in Num : m # n => Steady(d, e, m) /\ e.heap[m] = d.heap[m]
         /\ Alive(d, n) => Shows(d, e, n) /\ (Filed(d, n) => Steady(d, e, n))
<1> DEFINE was == d.secs[at].table[n]
           left == e.secs[at].table[n]
           c == NewCell(d, n)
           L == Len(d.secs)
<1>1. /\ Fits(e) /\ Opened(e) /\ Frame(d, e) /\ Find(e, 1, n) = 1
      /\ at \in 2..L /\ was.type = "n" /\ was \in Entry /\ c \in Unused(d, n)
      /\ \A j \in 1..L : e.secs[j].signed = d.secs[j].signed
      /\ e.secs[1].table[n] = was
      /\ left \in Entry /\ left.type = "n" /\ left.ofs = was.ofs
      /\ left.obj = IF at <= d.inc /\ was.obj # None THEN c ELSE None
  BY SMTT(30), MovedShape
<1>2. /\ \A j \in 1..L, m \in Num :
            m # n \/ (j # 1 /\ j # at) => e.secs[j].table[m] = d.secs[j].table[m]
      /\ \A m \in Num, b \in Cells : e.heap[m][b] =
            IF m = n /\ b = c /\ at <= d.inc /\ was.obj # None
            THEN d.heap[n][was.obj] ELSE d.heap[m][b]
      /\ \A m \in Num : m # n => e.heap[m] = d.heap[m]
  BY SMTT(30), MovedShape
<1>3. /\ L \in Nat \ {0} /\ d.inc \in Nat
      /\ \A j \in 1..L : d.secs[j].table[n].obj \in Cells \cup {None}
  BY DocFacts DEF Entry
<1>4. Found(d, 1, n) = was
  BY InUseFacts
<1> HIDE DEF was, left, c
<1>5. Flags(d, e)
  BY <1>1 DEF Flags, Frame
<1>6. Onward(d, e) /\ Shift(d, e) = 0
  BY <1>5, FlagsOnward
<1>7. ASSUME NEW m \in Num, m # n PROVE Steady(d, e, m)
  <2>1. \A x : Read(e, m, x) = Read(d, m, x)
    BY <1>2, <1>7 DEF Read
  <2>2. Level(d, e, m)
    BY <1>1, <1>2, <1>7, <2>1 DEF Level, Frame
  <2> QED BY <1>1, <2>2, LevelAlike
<1>8. ASSUME Alive(d, n) PROVE Shows(d, e, n) /\ (Filed(d, n) => Steady(d, e, n))
  <2>1. c # None /\ \A j \in 1..L : d.secs[j].table[n].obj # c
    BY <1>1, <1>8, FreshCell
  <2>2. at \in 1..L /\ d.secs[at].table[n] = was
    BY <1>1, <1>3 DEF was
  <2>3. \A j \in 1..L : d.secs[j].table[n].obj # None =>
           e.heap[n][d.secs[j].table[n].obj] = d.heap[n][d.secs[j].table[n].obj]
    BY <1>2, <1>3, <2>1
  <2>4. \A j \in 1..L : Read(e, n, d.secs[j].table[n]) = Read(d, n, d.secs[j].table[n])
    BY <2>3 DEF Read
  <2>5. Shows(d, e, n)
    <3>1. Found(e, 1, n) = was
      BY <1>1 DEF Found
    <3> QED BY <1>4, <2>2, <2>4, <3>1 DEF Shows, Content
  <2>6. ASSUME Filed(d, n), NEW j \in 1..L, Bound(d, j)
        PROVE  /\ e.secs[j].table[n].type = d.secs[j].table[n].type
               /\ d.secs[j].table[n].type = "n" => DictAt(e, j, n) = DictAt(d, j, n)
    <3>1. j # 1
      BY <2>6, OpenedFree
    <3>2. CASE j # at
      <4>1. e.secs[j].table[n] = d.secs[j].table[n]
        BY <1>2, <3>1, <3>2
      <4> QED BY <2>4, <4>1 DEF DictAt
    <3>3. CASE j = at
      <4>1. e.secs[j].table[n] = left /\ d.secs[j].table[n] = was
        BY <2>2, <3>3 DEF left
      <4>2. /\ DictAt(e, j, n) = IF left.obj # None THEN e.heap[n][left.obj] ELSE left.ofs
            /\ DictAt(d, j, n) = IF was.obj # None THEN d.heap[n][was.obj] ELSE was.ofs
        BY <1>1, <4>1 DEF DictAt, Read
      <4>3. CASE at <= d.inc /\ was.obj # None
        <5>1. c \in Cells
          BY <1>1 DEF Unused
        <5>2. e.heap[n][c] = d.heap[n][was.obj]
          BY <1>2, <4>3, <5>1
        <5> QED BY <1>1, <2>1, <4>1, <4>2, <4>3, <5>2
      <4>4. CASE ~(at <= d.inc /\ was.obj # None)
        <5>1. was.obj # None => at > d.inc
          BY <1>1, <1>3, <4>4
        <5>2. was.obj # None => d.heap[n][was.obj] = was.ofs
          BY <2>2, <2>6, <5>1 DEF Filed
        <5>3. left.obj = None
          BY <1>1, <4>4
        <5> QED BY <1>1, <4>1, <4>2, <5>2, <5>3
      <4> QED BY <4>3, <4>4
    <3> QED BY <3>2, <3>3
  <2>7. \A j \in 1..L : j + 0 = j
    OBVIOUS
  <2> QED BY <1>6, <2>5, <2>6, <2>7 DEF Steady
<1> QED BY <1>2, <1>6, <1>7, <1>8

\* pdf_xref_ensure_incremental_object changes no version.
LEMMA EnsureAlike ==
  ASSUME NEW d, Fits(d), NEW n \in Num, InUse(d, n), Unused(d, n) # {}
  PROVE  LET o == EnsureIncremental(d, n) IN
         /\ Onward(d, o)
         /\ \A m \in Num : m # n => Alike(d, o, m)
         /\ Tidy(d, n) => Shows(d, o, n) /\ (Filed(d, n) => Steady(d, o, n))
<1> DEFINE a == OpenIncrement(d)
           s == Ahead(d)
           k == Find(a, 1, n)
           H == Holders(a, a.index[n], n)
           o == EnsureIncremental(d, n)
<1>1. /\ Fits(a) /\ a.heap = d.heap /\ Opened(a) /\ InUse(a, n) /\ s \in {0, 1}
      /\ SameAs(d, a, n, s) /\ Preserves(d, a, n)
  BY OpenIncrementOK, OpenSame, IncrementalTidy DEF Opened, Keeps, Ahead
<1>2. Onward(d, a) /\ \A m \in Num : Alike(d, a, m)
  BY OpenOnward
<1>3. /\ k \in 1..Len(a.secs) /\ k = Min(H) /\ k \in H /\ Len(a.secs) \in Nat
  BY <1>1, FindFacts, InUseFacts, DocFacts
<1>4. Unused(a, n) # {}
  BY <1>1 DEF Unused
<1>5. 1 \in H <=> k = 1
  <2>1. H \in SUBSET Nat
    <3>1. a.index[n] \in Nat
      BY <1>1, DocFacts
    <3> QED BY <1>3, <3>1 DEF Holders
  <2>2. \A j \in H : k <= j
    BY <1>3, <2>1, MinIs
  <2> QED BY <1>3, <2>2
<1>6. o = IF k = 1 THEN a ELSE Moved(a, n, k)
  BY <1>3, <1>5 DEF EnsureIncremental
<1>7. Fits(o) /\ \A m \in Num : m # n => Keeps(d, o, m)
  BY EnsureIncrementalOK
<1>8. Filed(d, n) => Filed(a, n)
  BY <1>1, SameFiled
<1>9. Tidy(d, n) => Alive(a, n)
  BY <1>1 DEF Preserves, Carries, Tidy
<1> HIDE DEF s, H
<1>10. CASE k = 1
  <2>1. o = a
    BY <1>6, <1>10
  <2> HIDE DEF o, a
  <2> QED BY <1>2, <2>1 DEF Alike, o
<1>11. CASE k # 1
  <2>1. o = Moved(a, n, k) /\ k = Find(a, 1, n)
    BY <1>6, <1>11
  <2> HIDE DEF o, a, k
  <2>2. /\ Onward(a, o)
        /\ \A m \in Num : m # n => Steady(a, o, m) /\ o.heap[m] = a.heap[m]
        /\ Alive(a, n) => Shows(a, o, n) /\ (Filed(a, n) => Steady(a, o, n))
    BY <1>1, <1>4, <1>11, <2>1, MovedAlike
  <2>3. /\ Onward(d, o)
        /\ \A m : Steady(d, a, m) /\ Steady(a, o, m) => Steady(d, o, m)
    BY <1>1, <1>2, <1>7, <2>2, OnwardTwice
  <2>4. ASSUME NEW m \in Num, m # n PROVE Alike(d, o, m)
    <3>1. Steady(d, o, m)
      BY <1>2, <2>2, <2>3, <2>4 DEF Alike
    <3>2. Keeps(d, o, m) /\ o.heap[m] = d.heap[m]
      BY <1>1, <1>7, <2>2, <2>4
    <3> QED BY <3>1, <3>2, KeepsShows DEF Alike
  <2>5. ASSUME Tidy(d, n) PROVE Shows(d, o, n) /\ (Filed(d, n) => Steady(d, o, n))
    BY <1>2, <1>8, <1>9, <2>2, <2>3, <2>5 DEF Alike, Shows
  <2> QED BY <2>3, <2>4, <2>5 DEF o
<1> QED BY <1>10, <1>11

\* An alteration writes the dictionary and leaves the stream.
Rewritten(d, o, n) == Content(o, 1, n) = [dict |-> edits + 1, stm |-> Content(d, 1, n).stm]

\* Writing an object through the pointer that everybody reads: no signed
\* version has it, if it is in an increment that is not signed.
LEMMA WriteAlike ==
  ASSUME NEW d, Fits(d), NEW n \in Num, InUse(d, n), NEW cell \in Cells, cell = ObjectOf(d, n),
         edits + 1 \in Stamp
  PROVE  LET o == [d EXCEPT !.heap[n][cell] = edits + 1] IN
         /\ Fits(o) /\ Onward(d, o)
         /\ \A m \in Num : m # n => Alike(d, o, m)
         /\ Rewritten(d, o, n)
         /\ Opened(d) /\ Find(d, 1, n) = 1 /\ Unshared(d, n) => Steady(d, o, n)
<1> DEFINE o == [d EXCEPT !.heap[n][cell] = edits + 1]
           k == Find(d, 1, n)
           L == Len(d.secs)
<1>1. /\ Fits(o) /\ o.secs = d.secs /\ o.index = d.index
      /\ \A m \in Num, b \in Cells :
            o.heap[m][b] = IF m = n /\ b = cell THEN edits + 1 ELSE d.heap[m][b]
  <2>1. edits + 1 \in Stamp \cup {None}
    OBVIOUS
  <2> QED BY <2>1, HeapOK
<1>2. /\ k \in 1..L /\ d.secs[k].table[n].type = "n" /\ d.secs[k].table[n].obj = cell
      /\ Found(d, 1, n) = d.secs[k].table[n] /\ cell # None
      /\ \A j \in 1..L : d.secs[j].table[n].obj \in Cells \cup {None}
  <2>1. k \in 1..L /\ d.secs[k].table[n].type = "n" /\ d.secs[k].table[n].obj = cell
        /\ Found(d, 1, n) = d.secs[k].table[n]
    BY FindFacts, InUseFacts DEF InUse, ObjectOf
  <2>2. cell # None
    BY BoundsAssumption
  <2> QED BY <2>1, <2>2, DocFacts DEF Entry
<1> HIDE DEF o
<1>3. Onward(d, o) /\ Shift(d, o) = 0
  BY <1>1, FlagsOnward DEF Flags
<1>4. \A m : Find(o, 1, m) = Find(d, 1, m) /\ Found(o, 1, m) = Found(d, 1, m)
  BY <1>1, FindSame
<1>5. ASSUME NEW m \in Num, m # n PROVE Alike(d, o, m)
  <2>1. o.heap[m] = d.heap[m]
    BY <1>1, <1>5, SameHeap
  <2>2. Level(d, o, m)
    BY <1>1, <2>1 DEF Level, Read
  <2> QED BY <1>1, <1>4, <2>2, LevelAlike DEF Alike
<1>6. Rewritten(d, o, n)
  <2> DEFINE e == d.secs[k].table[n]
             stm == IF e.buf # None THEN e.buf ELSE e.stm
  <2>1. Content(d, 1, n) = Read(d, n, e) /\ Content(o, 1, n) = Read(o, n, e)
    BY <1>2, <1>4 DEF Content
  <2>2. e.type = "n" /\ e.obj = cell /\ e.obj # None
    BY <1>2
  <2> HIDE DEF e
  <2>3. Read(o, n, e) = [dict |-> edits + 1, stm |-> stm]
    BY <1>1, <2>2 DEF Read
  <2>4. Read(d, n, e).stm = stm
    BY <2>2 DEF Read
  <2> QED BY <2>1, <2>3, <2>4 DEF Rewritten
<1>7. ASSUME Opened(d), k = 1, Unshared(d, n) PROVE Steady(d, o, n)
  <2> SUFFICES ASSUME NEW j \in 1..L, Bound(d, j), d.secs[j].table[n].type = "n"
               PROVE  DictAt(o, j, n) = DictAt(d, j, n)
    <3>1. \A j \in 1..L : j + 0 = j
      OBVIOUS
    <3> QED BY <1>1, <1>3, <3>1 DEF Steady
  <2>1. j # k
    BY <1>7, OpenedFree
  <2>2. d.secs[j].table[n].obj # cell
    BY <1>2, <1>7, <2>1 DEF Unshared
  <2> QED BY <1>1, <1>2, <2>2 DEF DictAt, Read
<1> QED BY <1>1, <1>3, <1>5, <1>6, <1>7 DEF o, k

\* Changing an object through that pointer.
LEMMA AlterAlike ==
  ASSUME NEW d, Fits(d), NEW n \in Num, InUse(d, n), Unused(d, n) # {},
         NEW cell \in Cells, cell = ObjectOf(d, n), edits + 1 \in Stamp, Tidy(d, n)
  PROVE  LET o == Alter(d, n, cell) IN
         /\ Onward(d, o)
         /\ \A m \in Num : m # n => Alike(d, o, m)
         /\ Rewritten(d, o, n)
         /\ ~d.frozen /\ Filed(d, n) => Steady(d, o, n)
<1> DEFINE e == EnsureIncremental(d, n)
           p == IF d.frozen THEN d ELSE e
           o == [p EXCEPT !.heap[n][cell] = edits + 1]
<1>1. /\ Fits(e) /\ InUse(e, n) /\ ObjectOf(e, n) = cell
      /\ Opened(e) /\ Find(e, 1, n) = 1 /\ Tidy(e, n)
  BY EnsureIncrementalOK, EnsureTidy DEF Carries
<1>2. /\ Onward(d, e) /\ Shows(d, e, n)
      /\ \A m \in Num : m # n => Alike(d, e, m)
      /\ Filed(d, n) => Steady(d, e, n)
  BY EnsureAlike
<1>3. /\ Fits(p) /\ InUse(p, n) /\ ObjectOf(p, n) = cell /\ Tidy(p, n)
      /\ Onward(d, p) /\ Shows(d, p, n)
      /\ \A m \in Num : m # n => Alike(d, p, m)
      /\ ~d.frozen => p = e
  <2>1. CASE d.frozen
    <3>1. Level(d, d, n) /\ (\A m \in Num : Level(d, d, m)) /\ Flags(d, d)
      BY DEF Level, Flags
    <3> QED BY <2>1, <3>1, LevelAlike, FlagsOnward DEF Alike
  <2>2. CASE ~d.frozen
    <3>1. p = e
      BY <2>2
    <3> HIDE DEF p, e
    <3> QED BY <1>1, <1>2, <3>1
  <2> QED BY <2>1, <2>2
<1>4. Alter(d, n, cell) = o
  BY DEF Alter
<1> HIDE DEF p, e
<1>5. /\ Fits(o) /\ Onward(p, o)
      /\ \A m \in Num : m # n => Alike(p, o, m)
      /\ Rewritten(p, o, n)
      /\ Opened(p) /\ Find(p, 1, n) = 1 /\ Unshared(p, n) => Steady(p, o, n)
  BY <1>3, WriteAlike
<1> HIDE DEF o
<1>6. Onward(d, o) /\ \A m : Steady(d, p, m) /\ Steady(p, o, m) => Steady(d, o, m)
  BY <1>3, <1>5, OnwardTwice
<1>7. \A m \in Num : m # n => Alike(d, o, m)
  BY <1>3, <1>5, <1>6 DEF Alike, Shows
<1>8. Rewritten(d, o, n)
  BY <1>3, <1>5 DEF Rewritten, Shows
<1>9. ASSUME ~d.frozen, Filed(d, n) PROVE Steady(d, o, n)
  BY <1>1, <1>2, <1>3, <1>5, <1>6, <1>9 DEF Tidy
<1> QED BY <1>4, <1>6, <1>7, <1>8, <1>9

\* The same for an object that is read first.
LEMMA AlterObjectAlike ==
  ASSUME NEW d, Fits(d), NEW n \in Num, InUse(d, n), edits + 1 \in Stamp, Tidy(d, n),
         Spare(d, n) \/ (Unused(d, n) # {} /\ ObjectOf(d, n) # None)
  PROVE  LET o == AlterObject(d, n) IN
         /\ Onward(d, o)
         /\ \A m \in Num : m # n => Alike(d, o, m)
         /\ Rewritten(d, o, n)
         /\ ~d.frozen /\ Filed(d, n) => Steady(d, o, n)
<1> DEFINE c == CacheObject(d, n)
           a == ObjectOf(c, n)
           o == AlterObject(d, n)
<1>1. Unused(d, n) # {}
  BY BoundsAssumption DEF Spare
<1>2. /\ Fits(c) /\ InUse(c, n) /\ a \in Cells /\ c.frozen = d.frozen
      /\ ObjectOf(d, n) # None => Unused(c, n) = Unused(d, n)
      /\ \E b \in Cells \cup {None} : Unused(d, n) \ {b} \subseteq Unused(c, n)
  BY <1>1, CacheObjectOK
<1>3. Unused(c, n) # {}
  BY <1>2 DEF Spare
<1>4. Tidy(c, n) /\ Alive(d, n)
  BY <1>1, CacheTidy DEF Preserves, Carries, Tidy
<1>5. Onward(d, c) /\ \A m \in Num : Alike(d, c, m)
  BY <1>1, <1>4, CacheAlike
<1>6. Filed(d, n) => Filed(c, n)
  BY <1>1, <1>4, CacheLevel
<1>7. o = Alter(c, n, a) /\ Fits(o)
  BY AlterObjectOK DEF AlterObject
<1> HIDE DEF c, o
<1>8. /\ Onward(c, o)
      /\ \A m \in Num : m # n => Alike(c, o, m)
      /\ Rewritten(c, o, n)
      /\ ~c.frozen /\ Filed(c, n) => Steady(c, o, n)
  BY <1>2, <1>3, <1>4, <1>7, AlterAlike
<1>9. Onward(d, o) /\ \A m : Steady(d, c, m) /\ Steady(c, o, m) => Steady(d, o, m)
  BY <1>2, <1>5, <1>7, <1>8, OnwardTwice
<1>10. \A m \in Num : m # n => Alike(d, o, m)
  BY <1>5, <1>8, <1>9 DEF Alike, Shows
<1>11. Rewritten(d, o, n)
  BY <1>5, <1>8 DEF Rewritten, Alike, Shows
<1>12. ~d.frozen /\ Filed(d, n) => Steady(d, o, n)
  BY <1>2, <1>5, <1>6, <1>8, <1>9 DEF Alike
<1> QED BY <1>9, <1>10, <1>11, <1>12 DEF o

\* What is done to an object in an increment that is not signed is no part of
\* a signed version.
LEMMA NewestAlike ==
  ASSUME NEW d, Fits(d), Opened(d), NEW e, Fits(e), Flags(d, e), NEW n \in Num,
         \A j \in 1..Len(d.secs), m \in Num :
            j # 1 \/ m # n => e.secs[j].table[m] = d.secs[j].table[m],
         \A m \in Num : m # n => e.heap[m] = d.heap[m],
         \A j \in 1..Len(d.secs) : j # 1 /\ d.secs[j].table[n].obj # None =>
            e.heap[n][d.secs[j].table[n].obj] = d.heap[n][d.secs[j].table[n].obj]
  PROVE  Onward(d, e) /\ \A m \in Num : Steady(d, e, m)
<1>1. Onward(d, e) /\ Shift(d, e) = 0
  BY FlagsOnward
<1>2. ASSUME NEW m \in Num, NEW j \in 1..Len(d.secs), Bound(d, j)
      PROVE  /\ e.secs[j].table[m].type = d.secs[j].table[m].type
             /\ d.secs[j].table[m].type = "n" => DictAt(e, j, m) = DictAt(d, j, m)
  <2>1. j # 1
    BY <1>2, OpenedFree
  <2>2. e.secs[j].table[m] = d.secs[j].table[m]
    BY <2>1
  <2>3. d.secs[j].table[m].obj # None =>
           e.heap[m][d.secs[j].table[m].obj] = d.heap[m][d.secs[j].table[m].obj]
    BY <2>1
  <2> QED BY <2>2, <2>3 DEF DictAt, Read
<1>3. \A j \in 1..Len(d.secs) : j + 0 = j
  OBVIOUS
<1> QED BY <1>1, <1>2, <1>3 DEF Steady

\* pdf_update_object changes no version, and writes a dictionary without a
\* stream: none is left in the place that it takes.
LEMMA UpdateAlike ==
  ASSUME NEW d, Fits(d), NEW n \in Num, Unused(d, n) # {}, edits + 1 \in Stamp, Tidy(d, n),
         \/ InUse(d, n) /\ Content(d, 1, n).stm = None
         \/ Opened(d) /\ d.secs[1].table[n] = Freed
  PROVE  LET o == UpdateObject(d, n) IN
         /\ Onward(d, o)
         /\ \A m \in Num : m # n => Alike(d, o, m)
         /\ Steady(d, o, n)
         /\ Content(o, 1, n) = [dict |-> edits + 1, stm |-> None]
<1> DEFINE i == IncrementalEntry(d, n)
           c == NewCell(d, n)
           g == [i EXCEPT !.heap[n][c] = edits + 1]
           old == i.secs[1].table[n]
           x == [old EXCEPT !.type = "n", !.ofs = None, !.obj = c]
           o == Put(g, 1, n, x)
           s == Ahead(d)
<1>1. c \in Cells /\ c \in Unused(d, n) /\ c # None
  BY NewCellOK, BoundsAssumption
<1>2. /\ Fits(i) /\ i.heap = d.heap /\ i.frozen = d.frozen /\ i.inc # 0
      /\ n <= i.secs[1].len /\ i.index[n] = 1
      /\ \A m \in Num : m # n => Keeps(d, i, m)
  BY IncrementalEntryOK
<1>3. /\ Len(i.secs) \in Nat \ {0} /\ 1 \in 1..Len(i.secs) /\ old \in Entry
  <2>1. Len(i.secs) \in Nat \ {0} /\ i.inc \in Nat /\ i.inc < Len(i.secs)
    BY <1>2, DocFacts
  <2>2. 1 \in 1..Len(i.secs)
    BY <2>1
  <2> QED BY <1>2, <2>1, <2>2, DocFacts
<1>4. SameAs(d, i, n, s) /\ s \in {0, 1} /\ (Opened(d) => s = 0) /\ (~Opened(d) => s = 1)
  BY IncrementalSame DEF Ahead
<1>5. Opened(i) /\ Onward(d, i) /\ \A m \in Num : Steady(d, i, m)
  BY IncrementalOnward
<1>6. UpdateObject(d, n) = [i EXCEPT !.heap[n][c] = edits + 1, !.secs[1].table[n] = x]
  BY DEF UpdateObject
<1>7. [i EXCEPT !.heap[n][c] = edits + 1, !.secs[1].table[n] = x] = o
  <2>1. i \in Docs
    BY <1>2, DocFacts
  <2> QED BY <2>1 DEF Put, Docs
<1>8. Alive(i, n)
  <2>1. Preserves(d, i, n)
    BY IncrementalTidy
  <2> QED BY <2>1 DEF Preserves, Carries, Tidy
<1> HIDE DEF i, c
<1>9. old.buf = None /\ old.stm = None
  <2>1. CASE ~Opened(d)
    BY <1>4, <2>1 DEF SameAs, Unset
  <2>2. CASE Opened(d)
    <3>1. 1 \in 1..Len(d.secs) /\ Len(d.secs) \in Nat
      BY <2>2, OpenedFree, DocFacts
    <3> DEFINE y == d.secs[1].table[n]
    <3>2. old = y /\ y \in Entry
      <4>1. i.secs[1 + s].table[n] = d.secs[1].table[n] /\ 1 + s = 1
        BY <1>4, <2>2, <3>1 DEF SameAs
      <4> QED BY <3>1, <4>1, DocFacts
    <3>3. CASE y = Freed
      BY <3>2, <3>3 DEF Freed, Unset
    <3>4. CASE InUse(d, n) /\ Content(d, 1, n).stm = None
      <4>1. CASE y.type = "n"
        <5>1. d.index[n] = 1
          <6>1. d.index[n] \in 1..Len(d.secs) /\ ~(1 < d.index[n])
            BY <3>1, <4>1, DocFacts DEF Fits, Sound
          <6> QED BY <6>1
        <5>2. Content(d, 1, n) = Read(d, n, y)
          BY <4>1, <5>1, FoundFirst DEF Content
        <5> HIDE DEF y
        <5>3. Read(d, n, y).stm = IF y.buf # None THEN y.buf ELSE y.stm
          BY <4>1 DEF Read
        <5> QED BY <3>2, <3>4, <5>2, <5>3
      <4>2. CASE y.type = "unset"
        <5>1. y = Unset
          <6>1. d.inc \in Nat /\ d.inc # 0
            BY <2>2, DocFacts DEF Opened
          <6>2. 1 <= d.inc
            BY <6>1
          <6> QED BY <3>1, <4>2, <6>2 DEF Tidy, Alive
        <5> QED BY <3>2, <5>1 DEF Unset
      <4>3. CASE y.type = "f"
        <5> DEFINE k == Find(d, 1, n)
        <5>1. k \in 1..Len(d.secs) /\ d.secs[k].table[n].type = "n"
          BY <3>4, FindFacts, InUseFacts DEF InUse
        <5> HIDE DEF k
        <5>2. k # 1
          BY <4>3, <5>1
        <5>3. 1 < k
          BY <5>1, <5>2
        <5>4. 1 <= d.inc
          <6>1. d.inc \in Nat /\ d.inc # 0
            BY <2>2, DocFacts DEF Opened
          <6> QED BY <6>1
        <5> QED BY <3>1, <4>3, <5>1, <5>3, <5>4 DEF Tidy, Above
      <4> QED BY <3>2, <4>1, <4>2, <4>3 DEF Entry
    <3> QED BY <2>2, <3>3, <3>4
  <2> QED BY <2>1, <2>2
<1>10. /\ Fits(g) /\ g.index = i.index /\ g.secs = i.secs
       /\ \A m \in Num, b \in Cells : g.heap[m][b] = IF m = n /\ b = c THEN edits + 1 ELSE i.heap[m][b]
  <2>1. edits + 1 \in Stamp \cup {None}
    OBVIOUS
  <2> QED BY <1>1, <1>2, <2>1, HeapOK
<1>11. x \in Entry /\ x.type = "n" /\ x.obj = c /\ x.buf = None /\ x.stm = None
  BY <1>1, <1>3, <1>9 DEF Entry
<1>12. g.secs[1].len = i.secs[1].len /\ g.index[n] = 1 /\ 1 \in 1..Len(g.secs)
  BY <1>2, <1>3, <1>10
<1> HIDE DEF g, x, old
<1>13. /\ Fits(o) /\ o.heap = g.heap /\ o.index = g.index
       /\ Len(o.secs) = Len(g.secs)
       /\ \A j \in 1..Len(g.secs) :
             /\ o.secs[j].signed = g.secs[j].signed
             /\ \A m \in Num : o.secs[j].table[m] =
                   IF j = 1 /\ m = n THEN x ELSE g.secs[j].table[m]
       /\ \A m \in Num : m # n => Keeps(g, o, m)
  <2>1. (x.type # "unset" => n <= g.secs[1].len) /\ (x.type = "n" => g.index[n] <= 1)
    BY <1>2, <1>12
  <2> QED BY <1>10, <1>11, <1>12, <2>1, PutOK
<1> HIDE DEF o
<1>14. /\ Flags(i, o) /\ o.secs[1].table[n] = x /\ o.index[n] = 1
       /\ \A j \in 1..Len(i.secs), m \in Num : j # 1 \/ m # n =>
             o.secs[j].table[m] = i.secs[j].table[m]
       /\ \A m \in Num, b \in Cells : o.heap[m][b] = IF m = n /\ b = c THEN edits + 1 ELSE i.heap[m][b]
  BY <1>3, <1>10, <1>12, <1>13 DEF Flags
<1>15. \A m \in Num : m # n => o.heap[m] = i.heap[m]
  <2> SUFFICES ASSUME NEW m \in Num, m # n PROVE o.heap[m] = i.heap[m]
    OBVIOUS
  <2>1. \A b \in Cells : o.heap[m][b] = i.heap[m][b]
    BY <1>14
  <2> QED BY <1>2, <1>13, <2>1, SameHeap
<1>16. \A j \in 1..Len(i.secs) : i.secs[j].table[n].obj # None =>
          o.heap[n][i.secs[j].table[n].obj] = i.heap[n][i.secs[j].table[n].obj]
  <2>1. c \in Unused(i, n)
    BY <1>1, <1>2 DEF Unused
  <2>2. \A j \in 1..Len(i.secs) : i.secs[j].table[n].obj # c
    BY <1>2, <1>8, <2>1, FreshCell
  <2>3. \A j \in 1..Len(i.secs) : i.secs[j].table[n].obj \in Cells \cup {None}
    BY <1>2, DocFacts DEF Entry
  <2> QED BY <1>14, <2>2, <2>3
<1>17. Onward(i, o) /\ \A m \in Num : Steady(i, o, m)
  BY <1>2, <1>5, <1>13, <1>14, <1>15, <1>16, NewestAlike
<1>18. Onward(d, o) /\ \A m \in Num : Steady(d, o, m)
  BY <1>2, <1>5, <1>13, <1>17, OnwardTwice
<1>19. ASSUME NEW m \in Num, m # n PROVE Alike(d, o, m)
  <2>1. Keeps(i, g, m)
    BY <1>10, FindSame DEF Keeps, InUse
  <2>2. Keeps(d, o, m)
    BY <1>2, <1>13, <1>19, <2>1, KeepsTwice
  <2>3. o.heap[m] = d.heap[m]
    BY <1>2, <1>15, <1>19
  <2> QED BY <1>18, <2>2, <2>3, KeepsShows DEF Alike
<1>20. Content(o, 1, n) = [dict |-> edits + 1, stm |-> None]
  <2>1. Found(o, 1, n) = x
    BY <1>11, <1>13, <1>14, FoundFirst
  <2>2. o.heap[n][c] = edits + 1
    BY <1>1, <1>14
  <2> QED BY <1>1, <1>11, <2>1, <2>2 DEF Content, Read
<1> QED BY <1>6, <1>7, <1>18, <1>19, <1>20

\* An object that is freed in the newest increment is gone from the document,
\* not from the signed versions.
LEMMA FreeAlike ==
  ASSUME NEW d, Fits(d), NEW n \in Num
  PROVE  LET o == Put(IncrementalEntry(d, n), 1, n, Freed) IN
         /\ Onward(d, o)
         /\ \A m \in Num : m # n => Alike(d, o, m)
         /\ Steady(d, o, n)
         /\ Content(o, 1, n) = None /\ Opened(o) /\ o.secs[1].table[n] = Freed
         /\ o.heap = d.heap /\ o.frozen = d.frozen
<1> DEFINE i == IncrementalEntry(d, n)
           o == Put(i, 1, n, Freed)
<1>1. /\ Fits(i) /\ i.heap = d.heap /\ i.frozen = d.frozen /\ i.inc # 0
      /\ n <= i.secs[1].len /\ i.index[n] = 1 /\ Opened(i)
      /\ \A m \in Num : m # n => Keeps(d, i, m)
  BY IncrementalEntryOK, IncrementalOnward
<1>2. Onward(d, i) /\ \A m \in Num : Steady(d, i, m)
  BY IncrementalOnward
<1> HIDE DEF i
<1>3. 1 \in 1..Len(i.secs)
  BY <1>1, OpenedFree
<1>4. /\ Fits(o) /\ o.heap = i.heap /\ o.index = i.index /\ o.inc = i.inc /\ o.frozen = i.frozen
      /\ Len(o.secs) = Len(i.secs)
      /\ \A j \in 1..Len(i.secs) :
            /\ o.secs[j].signed = i.secs[j].signed
            /\ \A m \in Num : o.secs[j].table[m] =
                  IF j = 1 /\ m = n THEN Freed ELSE i.secs[j].table[m]
      /\ \A m \in Num : m # n => Keeps(i, o, m)
  <2>1. Freed \in Entry /\ (Freed.type # "unset" => n <= i.secs[1].len) /\ ~(Freed.type = "n")
    BY <1>1, UnsetFacts
  <2> QED BY <1>1, <1>3, <2>1, PutOK
<1> HIDE DEF o
<1>5. Flags(i, o) /\ o.secs[1].table[n] = Freed /\ Opened(o)
  BY <1>1, <1>3, <1>4 DEF Flags, Opened
<1>6. Onward(i, o) /\ \A m \in Num : Steady(i, o, m)
  BY <1>1, <1>4, <1>5, NewestAlike
<1>7. Onward(d, o) /\ \A m \in Num : Steady(d, o, m)
  BY <1>1, <1>2, <1>4, <1>6, OnwardTwice
<1>8. \A m \in Num : m # n => Alike(d, o, m)
  BY <1>1, <1>4, <1>7, KeepsTwice, KeepsShows DEF Alike
<1>9. Content(o, 1, n) = None
  <2>1. Freed.type = "f"
    BY UnsetFacts
  <2>2. Found(o, 1, n) = Freed
    BY <1>1, <1>4, <1>5, <2>1, FoundFirst
  <2> QED BY <2>1, <2>2 DEF Content, Read
<1> QED BY <1>1, <1>4, <1>5, <1>7, <1>8, <1>9 DEF o, i

\* pdf_create_object: nothing is shown of the number yet.
LEMMA CreateAlike ==
  ASSUME NEW d, Fits(d), d.len < MaxNum
  PROVE  LET o == CreateObject(d) IN
         /\ Onward(d, o) /\ \A m \in Num : Alike(d, o, m)
         /\ Opened(o) /\ o.secs[1].table[d.len + 1] = Freed
         /\ o.frozen = d.frozen
         /\ Content(d, 1, d.len + 1) = None
<1> DEFINE n == d.len + 1
           o == CreateObject(d)
<1>1. n \in Num /\ ~(n <= d.len)
  <2>1. d.len \in 0..MaxNum /\ MaxNum \in Nat
    BY DocFacts, BoundsAssumption
  <2> QED BY <2>1 DEF Num
<1>2. o = Put(IncrementalEntry(d, n), 1, n, Freed)
  BY DEF CreateObject
<1> HIDE DEF n, o
<1>3. /\ Onward(d, o) /\ \A m \in Num : m # n => Alike(d, o, m)
      /\ Steady(d, o, n) /\ Content(o, 1, n) = None /\ Opened(o) /\ o.secs[1].table[n] = Freed
      /\ o.frozen = d.frozen
  BY <1>1, <1>2, FreeAlike
<1>4. Content(d, 1, n) = None
  <2>1. ~InUse(d, n)
    BY <1>1, InUseFacts
  <2> QED BY <2>1 DEF InUse, Content, Read
<1> QED BY <1>3, <1>4 DEF Alike, Shows, n, o

\* What an alteration leaves of the other objects in the newest increment.
LEMMA AlterObjectRest ==
  ASSUME NEW d, Fits(d), NEW n \in Num, InUse(d, n), edits + 1 \in Stamp, Opened(d),
         Spare(d, n) \/ (Unused(d, n) # {} /\ ObjectOf(d, n) # None),
         NEW m \in Num, m # n
  PROVE  AlterObject(d, n).secs[1].table[m] = d.secs[1].table[m]
<1> DEFINE c == CacheObject(d, n)
           a == ObjectOf(c, n)
           e == EnsureIncremental(c, n)
           H == Holders(c, c.index[n], n)
<1>1. Unused(d, n) # {}
  BY BoundsAssumption DEF Spare
<1>2. /\ Fits(c) /\ InUse(c, n) /\ a \in Cells /\ c.frozen = d.frozen
      /\ ObjectOf(d, n) # None => Unused(c, n) = Unused(d, n)
      /\ \E b \in Cells \cup {None} : Unused(d, n) \ {b} \subseteq Unused(c, n)
  BY <1>1, CacheObjectOK
<1>3. Unused(c, n) # {}
  BY <1>2 DEF Spare
<1>4. /\ Len(c.secs) = Len(d.secs) /\ c.inc = d.inc
      /\ \A j \in 1..Len(d.secs) : c.secs[j].signed = d.secs[j].signed
                                   /\ c.secs[j].table[m] = d.secs[j].table[m]
  <2> DEFINE k == Find(d, 1, n)
             y == d.secs[k].table[n]
             b == NewCell(d, n)
  <2>1. /\ Len(c.secs) = Len(d.secs) /\ c.inc = d.inc
        /\ \A j \in 1..Len(d.secs) :
              /\ c.secs[j].len = d.secs[j].len /\ c.secs[j].signed = d.secs[j].signed
              /\ \A i \in Num : c.secs[j].table[i] =
                    IF j = k /\ i = n /\ y.obj = None THEN [y EXCEPT !.obj = b]
                    ELSE d.secs[j].table[i]
    BY <1>1, CacheShape
  <2> HIDE DEF c, k, y, b
  <2> QED BY <2>1
<1>5. 1 \in 1..Len(d.secs) /\ Opened(c)
  BY <1>4, OpenedFree DEF Opened
<1> HIDE DEF c
<1>6. e.secs[1].table[m] = c.secs[1].table[m] /\ e \in Docs
  <2>1. OpenIncrement(c) = c
    BY <1>5 DEF OpenIncrement, Opened
  <2>2. e = IF H = {} \/ 1 \in H THEN c ELSE Moved(c, n, Min(H))
    BY <2>1 DEF EnsureIncremental
  <2>3. CASE H = {} \/ 1 \in H
    BY <1>2, <2>2, <2>3, DocFacts
  <2>4. CASE ~(H = {} \/ 1 \in H)
    <3> DEFINE k == Find(c, 1, n)
    <3>1. k = Min(H) /\ k \in H
      BY <1>2, FindFacts, InUseFacts
    <3> HIDE DEF k, H
    <3>2. e = Moved(c, n, k) /\ k # 1
      BY <2>2, <2>4, <3>1
    <3> HIDE DEF e
    <3>3. Fits(e) /\ \A j \in 1..Len(c.secs) : e.secs[j].table[m] = c.secs[j].table[m]
      BY <1>2, <1>3, <1>5, <3>2, MovedShape DEF k
    <3> QED BY <1>4, <1>5, <3>3, DocFacts
  <2> QED BY <2>3, <2>4
<1>7. AlterObject(d, n).secs = (IF c.frozen THEN c ELSE e).secs
  <2> DEFINE p == IF c.frozen THEN c ELSE e
  <2>1. AlterObject(d, n) = [p EXCEPT !.heap[n][a] = edits + 1]
    BY DEF AlterObject, Alter, c
  <2>2. p \in Docs
    BY <1>2, <1>6, DocFacts
  <2> HIDE DEF p, e
  <2>3. AlterObject(d, n).secs = p.secs
    BY <2>1, <2>2 DEF Docs
  <2> QED BY <2>3 DEF p
<1> QED BY <1>4, <1>5, <1>6, <1>7

\* A stream that is replaced where the object is found.
LEMMA StreamAlike ==
  ASSUME NEW d, Fits(d), NEW n \in Num, InUse(d, n), edits + 1 \in Stamp
  PROVE  LET o == [d EXCEPT !.secs[Find(d, 1, n)].table[n].buf = edits + 1] IN
         /\ Onward(d, o)
         /\ \A m \in Num : m # n => Alike(d, o, m)
         /\ Steady(d, o, n)
         /\ Content(o, 1, n) = [dict |-> Content(d, 1, n).dict, stm |-> edits + 1]
         /\ Filed(d, n) => Filed(o, n)
<1> DEFINE k == Find(d, 1, n)
           old == d.secs[k].table[n]
           x == [old EXCEPT !.buf = edits + 1]
           o == Put(d, k, n, x)
<1>1. /\ k \in 1..Len(d.secs) /\ old \in Entry /\ n <= d.secs[k].len
      /\ k \in d.index[n]..Len(d.secs) /\ old.type = "n" /\ Found(d, 1, n) = old
  BY FindFacts, InUseFacts, DocFacts DEF InUse
<1>2. [d EXCEPT !.secs[k].table[n].buf = edits + 1] = o
  BY DEF Put
<1>3. /\ x \in Entry /\ x.type = "n" /\ x.obj = old.obj /\ x.ofs = old.ofs /\ x.buf = edits + 1
      /\ edits + 1 # None
  <2>1. edits + 1 # None
    BY BoundsAssumption DEF Stamp
  <2> QED BY <1>1, <2>1 DEF Entry
<1>4. d.secs[k].table[n] = old /\ Len(d.secs) \in Nat /\ d.index[n] \in Nat
  BY DocFacts
<1> HIDE DEF k, x, old
<1>5. /\ Fits(o) /\ o.heap = d.heap /\ o.inc = d.inc /\ o.index = d.index
      /\ Len(o.secs) = Len(d.secs)
      /\ \A j \in 1..Len(d.secs) :
            /\ o.secs[j].signed = d.secs[j].signed
            /\ \A m \in Num : o.secs[j].table[m] =
                  IF j = k /\ m = n THEN x ELSE d.secs[j].table[m]
      /\ \A m \in Num : m # n => Keeps(d, o, m)
  <2>1. (x.type # "unset" => n <= d.secs[k].len) /\ (x.type = "n" => d.index[n] <= k)
    BY <1>1, <1>4
  <2> QED BY <1>1, <1>3, <2>1, PutOK
<1> HIDE DEF o
<1>6. Onward(d, o) /\ Shift(d, o) = 0
  BY <1>5, FlagsOnward DEF Flags
<1>7. \A m, y : Read(o, m, y) = Read(d, m, y)
  BY <1>5 DEF Read
<1>8. ASSUME NEW m \in Num PROVE Steady(d, o, m)
  <2> SUFFICES ASSUME NEW j \in 1..Len(d.secs)
               PROVE  /\ o.secs[j].table[m].type = d.secs[j].table[m].type
                      /\ d.secs[j].table[m].type = "n" => DictAt(o, j, m) = DictAt(d, j, m)
    <3>1. \A j \in 1..Len(d.secs) : j + 0 = j
      OBVIOUS
    <3> QED BY <1>6, <3>1 DEF Steady
  <2>1. CASE j = k /\ m = n
    <3>1. o.secs[j].table[m] = x /\ d.secs[j].table[m] = old
      BY <1>1, <1>4, <1>5, <2>1
    <3> QED BY <1>1, <1>3, <1>5, <3>1 DEF DictAt, Read
  <2>2. CASE ~(j = k /\ m = n)
    <3>1. o.secs[j].table[m] = d.secs[j].table[m]
      BY <1>5, <2>2
    <3> QED BY <1>7, <3>1 DEF DictAt
  <2> QED BY <2>1, <2>2
<1>9. ASSUME NEW m \in Num, m # n PROVE Alike(d, o, m)
  BY <1>5, <1>8, <1>9, KeepsShows DEF Alike
<1>10. Content(o, 1, n) = [dict |-> Content(d, 1, n).dict, stm |-> edits + 1]
  <2>1. \A j \in 1..Len(d.secs) : o.secs[j].table[n].type = d.secs[j].table[n].type
    BY <1>1, <1>3, <1>4, <1>5
  <2>2. Find(o, 1, n) = k
    BY <1>5, <2>1, FindAlike DEF k
  <2>3. Found(o, 1, n) = x
    BY <1>1, <1>5, <2>2 DEF Found
  <2> QED BY <1>1, <1>3, <1>5, <2>3 DEF Content, Read
<1>11. Filed(d, n) => Filed(o, n)
  <2> SUFFICES ASSUME Filed(d, n), NEW j \in 1..Len(d.secs), j > d.inc, o.secs[j].table[n].obj # None
               PROVE  o.heap[n][o.secs[j].table[n].obj] = o.secs[j].table[n].ofs
    BY <1>5 DEF Filed
  <2>1. o.secs[j].table[n].obj = d.secs[j].table[n].obj /\ o.secs[j].table[n].ofs = d.secs[j].table[n].ofs
    BY <1>1, <1>3, <1>4, <1>5
  <2> QED BY <1>5, <2>1 DEF Filed
<1> QED BY <1>2, <1>6, <1>8, <1>9, <1>10, <1>11 DEF k

\* Freeing the memory that nobody refers to changes no version.
LEMMA CollectAlike ==
  ASSUME NEW d, Fits(d), NEW h
  PROVE  LET o == Collect(d, h) IN
         Onward(d, o) /\ \A m \in Num : Alike(d, o, m)
<1> DEFINE o == Collect(d, h)
           L == Len(d.secs)
<1>1. Fits(o) /\ o.secs = d.secs /\ o.index = d.index
  BY CollectOK
<1>2. DOMAIN d.secs = 1..L /\ \A k \in 1..L, n \in Num : d.secs[k].table[n].obj \in Cells \cup {None}
  BY DocFacts DEF Entry
<1>3. ASSUME NEW n \in Num, NEW k \in 1..L, d.secs[k].table[n].obj # None
      PROVE  o.heap[n][d.secs[k].table[n].obj] = d.heap[n][d.secs[k].table[n].obj]
  <2>1. d \in Docs
    BY DocFacts
  <2>2. o.heap = [m \in Num |-> [c \in Cells |->
                     IF c \in Referenced(d, h, m) THEN d.heap[m][c] ELSE None]]
    BY <2>1 DEF Collect, Docs
  <2>3. d.secs[k].table[n].obj \in Referenced(d, h, n)
    BY <1>2 DEF Referenced
  <2>4. d.secs[k].table[n].obj \in Cells
    BY <1>2, <1>3
  <2> HIDE DEF o
  <2> QED BY <2>2, <2>3, <2>4
<1> HIDE DEF o
<1>4. Onward(d, o)
  BY <1>1, FlagsOnward DEF Flags
<1>5. ASSUME NEW n \in Num PROVE Alike(d, o, n)
  <2>1. Level(d, o, n)
    BY <1>1, <1>3 DEF Level, Read
  <2>2. Find(o, 1, n) = Find(d, 1, n)
    BY <1>1, FindSame
  <2> QED BY <1>1, <2>1, <2>2, LevelAlike DEF Alike
<1> QED BY <1>4, <1>5 DEF o

\* Nor does drawing: what it drops again the file has.
LEMMA RenderAlike ==
  ASSUME NEW d, Fits(d), NEW n \in Num, InUse(d, n), Unused(d, n) # {}, Alive(d, n)
  PROVE  LET o == ClearToMark(CacheObject(d, n), Loaded(d)) IN
         Onward(d, o) /\ \A m \in Num : Alike(d, o, m)
<1> DEFINE c == CacheObject(d, n)
           o == ClearToMark(c, Loaded(d))
           L == Len(d.secs)
<1>1. Fits(c) /\ Onward(d, c) /\ Flags(d, c) /\ \A m \in Num : Alike(d, c, m) /\ Level(d, c, m)
  BY CacheObjectOK, CacheAlike, CacheLevel
<1>2. PICK p : Fits(p) /\ Cleared(c, p, Loaded(d)) /\ o = Collect(p, held)
  BY <1>1, ClearShape
<1>3. Fits(o) /\ Onward(p, o) /\ \A m \in Num : Alike(p, o, m)
  BY <1>2, CollectOK, CollectAlike
<1>4. /\ Len(c.secs) = L /\ L \in Nat /\ DOMAIN d.secs = 1..L
      /\ \A j \in 1..L, m \in Num :
            /\ c.secs[j].table[m] \in Entry
            /\ c.secs[j].table[m].type = d.secs[j].table[m].type
            /\ c.secs[j].table[m].ofs = d.secs[j].table[m].ofs
            /\ c.secs[j].table[m].stm = d.secs[j].table[m].stm
            /\ c.secs[j].table[m].buf = d.secs[j].table[m].buf
  <2> DEFINE k == Find(d, 1, n)
             e == d.secs[k].table[n]
             b == NewCell(d, n)
  <2>1. /\ k \in 1..L /\ e \in Entry /\ b \in Cells
        /\ Len(c.secs) = L
        /\ \A j \in 1..L, m \in Num : c.secs[j].table[m] =
              IF j = k /\ m = n /\ e.obj = None THEN [e EXCEPT !.obj = b]
              ELSE d.secs[j].table[m]
    BY CacheShape
  <2>2. \A j \in 1..L, m \in Num : c.secs[j].table[m] \in Entry
    BY <1>1, <2>1, DocFacts
  <2> HIDE DEF c, k, b
  <2>3. LET y == [e EXCEPT !.obj = b] IN
        y.type = e.type /\ y.ofs = e.ofs /\ y.stm = e.stm /\ y.buf = e.buf
    BY <2>1 DEF Entry
  <2> QED BY <2>1, <2>2, <2>3, DocFacts
<1> HIDE DEF c, o, L
<1>5. /\ p.heap = c.heap /\ p.index = c.index /\ Len(p.secs) = L
      /\ \A j \in 1..L :
            /\ p.secs[j].signed = c.secs[j].signed
            /\ \A m \in Num :
               \/ p.secs[j].table[m] = c.secs[j].table[m]
               \/ /\ <<j, m>> \notin Loaded(d)
                  /\ p.secs[j].table[m] = [c.secs[j].table[m] EXCEPT !.obj = None]
  BY <1>2, <1>4 DEF Cleared
<1>6. ASSUME NEW m \in Num PROVE Level(c, p, m)
  <2> SUFFICES ASSUME NEW j \in 1..L
               PROVE  /\ p.secs[j].table[m].type = c.secs[j].table[m].type
                      /\ Read(p, m, p.secs[j].table[m]) = Read(c, m, c.secs[j].table[m])
    BY <1>4, <1>5 DEF Level
  <2>1. CASE p.secs[j].table[m] = c.secs[j].table[m]
    BY <1>5, <2>1 DEF Read
  <2>2. CASE <<j, m>> \notin Loaded(d) /\ p.secs[j].table[m] = [c.secs[j].table[m] EXCEPT !.obj = None]
    <3> DEFINE x == c.secs[j].table[m]
               y == d.secs[j].table[m]
               z == p.secs[j].table[m]
    <3>1. y.obj = None
      BY <1>4, <2>2 DEF Loaded
    <3>2. x \in Entry /\ x.type = y.type /\ x.ofs = y.ofs /\ x.stm = y.stm /\ x.buf = y.buf
      BY <1>4
    <3>3. z = [x EXCEPT !.obj = None]
      BY <2>2
    <3>4. Read(c, m, x) = Read(d, m, y)
      BY <1>1, <1>4 DEF Level, L
    <3> HIDE DEF x, y, z
    <3>5. z.type = y.type /\ z.ofs = y.ofs /\ z.stm = y.stm /\ z.buf = y.buf /\ z.obj = None
      BY <3>2, <3>3 DEF Entry
    <3>6. Read(p, m, z) = Read(d, m, y)
      BY <3>1, <3>5 DEF Read
    <3> QED BY <3>2, <3>4, <3>5, <3>6 DEF x, y, z
  <2> QED BY <1>5, <2>1, <2>2
<1>7. Onward(c, p)
  BY <1>1, <1>4, <1>5, FlagsOnward DEF Flags
<1>8. ASSUME NEW m \in Num PROVE Alike(c, p, m)
  <2>1. /\ InUse(c, m) => Find(p, 1, m) = Find(c, 1, m) /\ InUse(p, m)
        /\ InUse(p, m) => InUse(c, m)
    <3>1. \A j \in 1..Len(c.secs) : p.secs[j].table[m].type = c.secs[j].table[m].type
      BY <1>6 DEF Level
    <3>2. Len(p.secs) = Len(c.secs) /\ p.index[m] = c.index[m]
      BY <1>4, <1>5
    <3> QED BY <1>1, <1>2, <3>1, <3>2, FindAlike
  <2> QED BY <1>1, <1>2, <1>6, <2>1, LevelAlike DEF Alike
<1>9. Onward(d, p) /\ \A m \in Num : Alike(d, p, m)
  <2>1. Onward(d, p) /\ \A m : Steady(d, c, m) /\ Steady(c, p, m) => Steady(d, p, m)
    BY <1>1, <1>2, <1>7, OnwardTwice
  <2> QED BY <1>1, <1>8, <2>1 DEF Alike, Shows
<1>10. Onward(d, o) /\ \A m \in Num : Alike(d, o, m)
  <2>1. Onward(d, o) /\ \A m : Steady(d, p, m) /\ Steady(p, o, m) => Steady(d, o, m)
    BY <1>2, <1>3, <1>9, OnwardTwice
  <2> QED BY <1>3, <1>9, <2>1 DEF Alike, Shows
<1> QED BY <1>10 DEF o, c

-----------------------------------------------------------------------------
(* The signed versions *)

\* A version has the dictionary of the first section from its own on that
\* defines the object.
LEMMA VersionIs ==
  ASSUME NEW d, Fits(d), NEW k \in 1..Len(d.secs), NEW n \in Num \ Revived
  PROVE  /\ (\A j \in k..Len(d.secs) : d.secs[j].table[n].type = "unset") => Version(d, k)[n] = None
         /\ \A h \in k..Len(d.secs) :
               d.secs[h].table[n].type # "unset"
               /\ (\A j \in k..(h - 1) : d.secs[j].table[n].type = "unset")
               => Version(d, k)[n] = IF d.secs[h].table[n].type = "n" THEN DictAt(d, h, n) ELSE None
<1> DEFINE H == Holders(d, k, n)
           L == Len(d.secs)
           c == Read(d, n, d.secs[Min(H)].table[n])
<1>1. L \in Nat /\ \A j \in k..L : j \in 1..L
  BY DocFacts
<1>2. H = {j \in k..L : d.secs[j].table[n].type # "unset"}
  BY <1>1, DefinedIs DEF Holders
<1>3. Version(d, k)[n] = IF H = {} \/ c = None THEN None ELSE c.dict
  BY SMTT(30) DEF Version
<1>4. ASSUME \A j \in k..L : d.secs[j].table[n].type = "unset"
      PROVE  Version(d, k)[n] = None
  BY <1>2, <1>3, <1>4
<1>5. ASSUME NEW h \in k..L, d.secs[h].table[n].type # "unset",
             \A j \in k..(h - 1) : d.secs[j].table[n].type = "unset"
      PROVE  Version(d, k)[n] = IF d.secs[h].table[n].type = "n" THEN DictAt(d, h, n) ELSE None
  <2>1. h \in H /\ H \in SUBSET Nat
    BY <1>1, <1>2, <1>5
  <2>2. \A j \in H : h <= j
    BY <1>1, <1>2, <1>5
  <2>3. Min(H) \in H /\ \A j \in H : Min(H) <= j
    BY <2>1, MinIs
  <2>4. Min(H) = h
    BY <2>1, <2>2, <2>3
  <2> DEFINE x == d.secs[h].table[n]
  <2>5. c = Read(d, n, x) /\ x \in Entry
    BY <1>1, <2>4, DocFacts
  <2>6. c = None <=> x.type # "n"
    BY <2>5, ReadOK
  <2> QED BY <1>3, <2>1, <2>5, <2>6 DEF DictAt
<1> QED BY <1>4, <1>5

\* A signed version is the same where each object is steady.
LEMMA VersionSame ==
  ASSUME NEW d, Fits(d), NEW e, Fits(e), Onward(d, e), NEW k \in 1..Len(d.secs), Bound(d, k),
         \A n \in Num : Steady(d, e, n)
  PROVE  Version(e, k + Shift(d, e)) = Version(d, k)
<1> DEFINE s == Shift(d, e)
           L == Len(d.secs)
<1>1. s \in Nat /\ L \in Nat /\ Len(e.secs) = L + s
  <2> DEFINE M == Len(e.secs)
  <2>1. L \in Nat /\ M \in Nat /\ s \in Nat /\ s = M - L
    BY DocFacts DEF Onward, Shift
  <2> HIDE DEF s, L, M
  <2>2. M = L + s
    BY <2>1
  <2> QED BY <2>1, <2>2 DEF M
<1> HIDE DEF s
<1>2. ASSUME NEW n \in Num \ Revived PROVE Version(e, k + s)[n] = Version(d, k)[n]
  <2>1. ASSUME NEW j \in k..L
        PROVE  /\ j \in 1..L /\ e.secs[j + s].table[n].type = d.secs[j].table[n].type
               /\ d.secs[j].table[n].type = "n" => DictAt(e, j + s, n) = DictAt(d, j, n)
    <3>1. j \in 1..L /\ 1..k \subseteq 1..j
      BY <1>1
    <3>2. Bound(d, j)
      BY <3>1 DEF Bound
    <3> QED BY <3>1, <3>2 DEF Steady, s
  <2>2. k + s \in 1..Len(e.secs) /\ k \in Nat
    BY <1>1
  <2> HIDE DEF L
  <2>3. CASE \A j \in k..L : d.secs[j].table[n].type = "unset"
    <3>1. \A j \in (k + s)..Len(e.secs) : j - s \in k..L /\ (j - s) + s = j
      BY <1>1
    <3>2. \A j \in (k + s)..Len(e.secs) : e.secs[j].table[n].type = "unset"
      <4> SUFFICES ASSUME NEW j \in (k + s)..Len(e.secs) PROVE e.secs[j].table[n].type = "unset"
        OBVIOUS
      <4>1. e.secs[(j - s) + s].table[n].type = "unset"
        BY <2>1, <2>3, <3>1
      <4> QED BY <3>1, <4>1
    <3> QED BY <2>2, <2>3, <3>2, VersionIs DEF L
  <2>4. CASE \E j \in k..L : d.secs[j].table[n].type # "unset"
    <3> DEFINE T == {j \in k..L : d.secs[j].table[n].type # "unset"}
               h == Min(T)
    <3>1. T # {} /\ T \in SUBSET Nat
      BY <1>1, <2>4
    <3>2. h \in T /\ \A j \in T : h <= j
      BY <3>1, MinIs
    <3>3. h \in k..L /\ d.secs[h].table[n].type # "unset"
      BY <3>2
    <3>4. \A j \in k..(h - 1) : d.secs[j].table[n].type = "unset"
      <4> HIDE DEF h
      <4> SUFFICES ASSUME NEW j \in k..(h - 1) PROVE j \in k..L /\ j \notin T
        OBVIOUS
      <4> HIDE DEF T
      <4>1. h \in Nat /\ j \in Nat
        BY <1>1, <2>2, <3>3
      <4>2. j \in k..L /\ ~(h <= j)
        BY <1>1, <2>2, <3>3, <4>1
      <4> QED BY <3>2, <4>2
    <3> HIDE DEF T, h
    <3> DEFINE w == h + s
               b == k + s
    <3>5. w \in b..Len(e.secs) /\ b \in 1..Len(e.secs)
          /\ \A j \in b..(w - 1) : j - s \in k..(h - 1) /\ j - s \in k..L /\ (j - s) + s = j
      BY <1>1, <2>2, <3>3
    <3>6. e.secs[w].table[n].type = d.secs[h].table[n].type
          /\ (d.secs[h].table[n].type = "n" => DictAt(e, w, n) = DictAt(d, h, n))
      BY <2>1, <3>3
    <3> HIDE DEF w, b
    <3>7. \A j \in b..(w - 1) : e.secs[j].table[n].type = "unset"
      <4> SUFFICES ASSUME NEW j \in b..(w - 1) PROVE e.secs[j].table[n].type = "unset"
        OBVIOUS
      <4>1. e.secs[(j - s) + s].table[n].type = "unset"
        BY <2>1, <3>4, <3>5
      <4> QED BY <3>5, <4>1
    <3>8. Version(e, b)[n] = IF e.secs[w].table[n].type = "n" THEN DictAt(e, w, n) ELSE None
      BY <3>3, <3>5, <3>6, <3>7, VersionIs
    <3>9. Version(d, k)[n] = IF d.secs[h].table[n].type = "n" THEN DictAt(d, h, n) ELSE None
      BY <3>3, <3>4, VersionIs DEF L
    <3> QED BY <3>6, <3>8, <3>9 DEF b
  <2> QED BY <2>3, <2>4
<1> QED BY <1>2 DEF Version, s

\* The versions, one section after the other, the oldest first.
Signs(d, i) ==
    LET k == Len(d.secs) + 1 - i
    IN  IF d.secs[k].signed THEN <<Version(d, k)>> ELSE <<>>
Collected(d, f) ==
    /\ f[0] = <<>>
    /\ \A i \in 1..Len(d.secs) : f[i] = f[i - 1] \o Signs(d, i)
    /\ \E S : \A i \in 0..Len(d.secs) : f[i] \in Seq(S)

\* VersionsOf goes through the sections that way.
LEMMA VersionsAre ==
  ASSUME NEW d, Fits(d)
  PROVE  \E f : Collected(d, f) /\ VersionsOf(d) = f[Len(d.secs)]
<1> DEFINE L == Len(d.secs)
           T == {Version(d, k) : k \in 1..L}
           S == Seq(T)
           F(h) == [i \in 0..L |-> IF i = 0 THEN <<>> ELSE h[i - 1] \o Signs(d, i)]
           g == [i \in 1..L |-> [x \in S |-> x \o Signs(d, i)]]
           v == CHOOSE h : h = F(h)
<1>1. L \in Nat
  BY DocFacts
<1>2. \A i \in 1..L : Signs(d, i) \in S
  <2> SUFFICES ASSUME NEW i \in 1..L PROVE Signs(d, i) \in S
    OBVIOUS
  <2>1. L + 1 - i \in 1..L
    BY <1>1
  <2>2. Version(d, L + 1 - i) \in T
    BY <2>1
  <2> HIDE DEF T
  <2> QED BY <2>2 DEF Signs
<1>3. VersionsOf(d) = v[L]
  BY DEF VersionsOf, Signs
<1> HIDE DEF T
<1>4. <<>> \in S /\ g \in [1..L -> [S -> S]]
  BY <1>2
<1> HIDE DEF S, L
<1>5. PICK f \in [0..L -> S] : Iterates(f, L, <<>>, g)
  BY <1>1, <1>4, Recursion
<1>6. f[0] = <<>> /\ \A i \in 1..L : f[i] = f[i - 1] \o Signs(d, i)
  <2>1. \A i \in 1..L : i - 1 \in 0..L
    BY <1>1
  <2> QED BY <1>5, <2>1 DEF Iterates
<1>7. f = F(f)
  <2>1. \A i \in 0..L : f[i] = F(f)[i]
    BY <1>1, <1>6
  <2>2. DOMAIN f = 0..L /\ f \in [0..L -> S]
    BY <1>5
  <2> QED BY <2>1, <2>2
<1>8. v = F(v)
  <2> HIDE DEF F
  <2> QED BY <1>7
<1> HIDE DEF v
<1>9. 0 \in 0..L /\ v[0] = <<>> /\ \A i \in 1..L : v[i] = v[i - 1] \o Signs(d, i)
  <2>1. \A i \in 0..L : v[i] = F(v)[i]
    BY <1>8
  <2>2. 0 \in 0..L /\ \A i \in 1..L : i \in 0..L /\ i # 0
    BY <1>1
  <2> QED BY <2>1, <2>2
<1>10. \A i \in 0..L : i \in {j \in 0..L : v[j] = f[j]}
  <2> DEFINE B == {j \in 0..L : v[j] = f[j]}
  <2>1. 0 \in B
    BY <1>6, <1>9
  <2>2. ASSUME NEW i \in 1..L, i - 1 \in B PROVE i \in B
    <3>1. v[i - 1] = f[i - 1] /\ i \in 0..L
      BY <1>1, <2>2
    <3>2. v[i] = f[i]
      BY <1>6, <1>9, <3>1
    <3> QED BY <3>1, <3>2
  <2> HIDE DEF B
  <2>3. \A i \in 0..L : i \in B
    BY <1>1, <2>1, <2>2, Climb
  <2> QED BY <2>3 DEF B
<1>11. Collected(d, v)
  <2>1. \A i \in 0..L : v[i] \in Seq(T)
    BY <1>5, <1>10 DEF S
  <2> QED BY <1>9, <2>1 DEF Collected, L
<1> QED BY <1>3, <1>11 DEF L

\* The signed versions are the same where each object is steady.
LEMMA VersionsSame ==
  ASSUME NEW d, Fits(d), NEW e, Fits(e), Onward(d, e), \A n \in Num : Steady(d, e, n)
  PROVE  VersionsOf(e) = VersionsOf(d)
<1> DEFINE s == Shift(d, e)
           L == Len(d.secs)
           M == Len(e.secs)
<1>1. s \in Nat /\ L \in Nat /\ M \in Nat /\ M = L + s
  <2>1. L \in Nat /\ M \in Nat /\ s \in Nat /\ s = M - L
    BY DocFacts DEF Onward, Shift
  <2> HIDE DEF s, L, M
  <2> QED BY <2>1
<1>2. PICK f : Collected(d, f) /\ VersionsOf(d) = f[L]
  BY VersionsAre
<1>3. PICK g : Collected(e, g) /\ VersionsOf(e) = g[M]
  BY VersionsAre
<1>4. PICK S : \A i \in 0..M : g[i] \in Seq(S)
  BY <1>3 DEF Collected
<1>5. /\ f[0] = <<>> /\ \A i \in 1..L : f[i] = f[i - 1] \o Signs(d, i)
      /\ g[0] = <<>> /\ \A i \in 1..M : g[i] = g[i - 1] \o Signs(e, i)
  BY <1>2, <1>3 DEF Collected
<1>6. ASSUME NEW i \in 1..L PROVE Signs(e, i) = Signs(d, i)
  <2> DEFINE k == L + 1 - i
             j == M + 1 - i
  <2>1. k \in 1..L
    BY <1>1
  <2>2. j = k + s
    <3> HIDE DEF s, L, M
    <3> QED BY <1>1
  <2> HIDE DEF k, j
  <2>3. e.secs[j].signed = d.secs[k].signed
    BY <2>1, <2>2 DEF Onward, s
  <2>4. d.secs[k].signed => Version(e, j) = Version(d, k)
    <3>1. k \in 1..k
      BY <2>1
    <3>2. d.secs[k].signed => Bound(d, k)
      BY <3>1 DEF Bound
    <3> QED BY <2>1, <2>2, <3>2, VersionSame DEF s, L
  <2> QED BY <2>3, <2>4 DEF Signs, k, j
<1>7. ASSUME NEW i \in (L + 1)..M PROVE Signs(e, i) = <<>>
  <2> DEFINE j == M + 1 - i
  <2>1. j \in 1..s
    <3> HIDE DEF s, L, M
    <3> QED BY <1>1
  <2> HIDE DEF j
  <2>2. ~e.secs[j].signed
    BY <2>1 DEF Onward, s
  <2> QED BY <2>2 DEF Signs, j
<1> HIDE DEF s, L, M
<1>8. \A i \in 0..L : i \in {j \in 0..L : g[j] = f[j]}
  <2> DEFINE B == {j \in 0..L : g[j] = f[j]}
  <2>1. 0 \in B
    BY <1>1, <1>5
  <2>2. ASSUME NEW i \in 1..L, i - 1 \in B PROVE i \in B
    <3>1. g[i - 1] = f[i - 1] /\ i \in 0..L /\ i \in 1..M
      BY <1>1, <2>2
    <3>2. g[i] = f[i]
      BY <1>5, <1>6, <3>1
    <3> QED BY <3>1, <3>2
  <2> HIDE DEF B
  <2>3. \A i \in 0..L : i \in B
    BY <1>1, <2>1, <2>2, Climb
  <2> QED BY <2>3 DEF B
<1>9. \A i \in 0..s : i \in {j \in 0..s : g[L + j] = f[L]}
  <2> DEFINE B == {j \in 0..s : g[L + j] = f[L]}
  <2>1. 0 \in B
    <3>1. L \in 0..L /\ L + 0 = L /\ 0 \in 0..s
      BY <1>1
    <3> QED BY <1>8, <3>1
  <2>2. ASSUME NEW i \in 1..s, i - 1 \in B PROVE i \in B
    <3> DEFINE a == L + i
               b == L + (i - 1)
    <3>1. g[b] = f[L] /\ i \in 0..s /\ a \in 1..M /\ a \in (L + 1)..M /\ b = a - 1 /\ b \in 0..M
      BY <1>1, <2>2
    <3> HIDE DEF a, b
    <3>2. g[a] = g[b] \o <<>> /\ g[b] \in Seq(S)
      BY <1>4, <1>5, <1>7, <3>1
    <3>3. g[a] = f[L]
      BY <3>1, <3>2
    <3> QED BY <3>1, <3>3 DEF a
  <2> HIDE DEF B
  <2>3. \A i \in 0..s : i \in B
    BY <1>1, <2>1, <2>2, Climb
  <2> QED BY <2>3 DEF B
<1>10. g[M] = f[L]
  <2>1. s \in 0..s
    BY <1>1
  <2> QED BY <1>1, <1>9, <2>1
<1> QED BY <1>2, <1>3, <1>10

\* Where no section is signed there is none.
LEMMA NoVersions ==
  ASSUME NEW d, Fits(d), \A k \in 1..Len(d.secs) : ~d.secs[k].signed
  PROVE  VersionsOf(d) = <<>>
<1> DEFINE L == Len(d.secs)
<1>1. L \in Nat
  BY DocFacts
<1>2. PICK f : Collected(d, f) /\ VersionsOf(d) = f[L]
  BY VersionsAre
<1>3. f[0] = <<>> /\ \A i \in 1..L : f[i] = f[i - 1] \o Signs(d, i)
  BY <1>2 DEF Collected
<1>4. ASSUME NEW i \in 1..L PROVE Signs(d, i) = <<>>
  <2>1. L + 1 - i \in 1..L
    BY <1>1
  <2> QED BY <2>1 DEF Signs
<1> HIDE DEF L
<1> DEFINE B == {j \in 0..L : f[j] = <<>>}
<1>5. 0 \in B
  BY <1>1, <1>3
<1>6. ASSUME NEW i \in 1..L, i - 1 \in B PROVE i \in B
  <2>1. f[i - 1] = <<>> /\ i \in 0..L
    BY <1>1, <1>6
  <2>2. f[i] = <<>> \o <<>>
    BY <1>3, <1>4, <2>1
  <2> QED BY <2>1, <2>2
<1>7. L \in B
  <2> HIDE DEF B
  <2>1. \A i \in 0..L : i \in B
    BY <1>1, <1>5, <1>6, Climb
  <2> QED BY <1>1, <2>1
<1> QED BY <1>2, <1>7

\* Marking the newest increment as signed adds the version it has.
LEMMA MarkVersions ==
  ASSUME NEW d, Fits(d), ~d.secs[1].signed
  PROVE  LET o == [d EXCEPT !.secs[1].signed = TRUE] IN
         /\ VersionsOf(o) = Append(VersionsOf(d), Version(o, 1))
         /\ \A n \in Num : Shows(d, o, n)
         /\ o.len = d.len
<1> DEFINE L == Len(d.secs)
           s == [d.secs[1] EXCEPT !.signed = TRUE]
           z == [d.secs EXCEPT ![1] = s]
           o == [d EXCEPT !.secs[1].signed = TRUE]
<1>1. L \in Nat \ {0} /\ 1 \in 1..L
  <2>1. L \in Nat \ {0}
    BY DocFacts
  <2> QED BY <2>1
<1>2. d \in Docs /\ d.secs \in Seq(Section) /\ d.secs[1] \in Section
  BY <1>1, DocFacts
<1>3. s \in Section /\ s.len = d.secs[1].len /\ s.table = d.secs[1].table /\ s.signed
  BY <1>2 DEF Section
<1>4. o = [d EXCEPT !.secs = z]
  OBVIOUS
<1>5. Fits(o) /\ \A n \in Num : Keeps(d, o, n)
  BY MarkOK
<1> HIDE DEF s, o
<1>6. /\ Len(z) = L /\ z[1].signed
      /\ \A k \in 1..L : /\ z[k].len = d.secs[k].len /\ z[k].table = d.secs[k].table
                         /\ k # 1 => z[k].signed = d.secs[k].signed
  BY <1>1, <1>2, <1>3
<1> HIDE DEF z
<1>7. o.secs = z /\ o.heap = d.heap /\ o.len = d.len
  BY <1>2, <1>4 DEF Docs
<1>8. ASSUME NEW k \in 1..L PROVE Version(o, k) = Version(d, k)
  <2>1. \A n \in Num : Holders(o, k, n) = Holders(d, k, n)
    <3>1. \A j \in k..L, n \in Num : Defined(o, j, n) <=> Defined(d, j, n)
      <4>1. \A j \in k..L : j \in 1..L
        BY <1>1
      <4> QED BY <1>6, <1>7, <4>1 DEF Defined
    <3> QED BY <1>6, <1>7, <3>1 DEF Holders
  <2>2. ASSUME NEW n \in Num \ Revived PROVE Version(o, k)[n] = Version(d, k)[n]
    <3> DEFINE H == Holders(d, k, n)
    <3>1. H # {} => o.secs[Min(H)].table[n] = d.secs[Min(H)].table[n]
      <4>1. H \in SUBSET (1..L) /\ H \in SUBSET Nat
        BY <1>1 DEF Holders
      <4> HIDE DEF H
      <4>2. H # {} => Min(H) \in 1..L
        BY <4>1, MinIs
      <4> QED BY <1>6, <1>7, <4>2
    <3>2. \A x : Read(o, n, x) = Read(d, n, x)
      BY <1>7 DEF Read
    <3> QED BY <2>1, <3>1, <3>2 DEF Version
  <2> QED BY <2>2 DEF Version
<1>9. PICK f : Collected(d, f) /\ VersionsOf(d) = f[L]
  BY VersionsAre
<1>10. PICK g : Collected(o, g) /\ VersionsOf(o) = g[L]
  BY <1>5, <1>6, <1>7, VersionsAre
<1>11. PICK S : \A i \in 0..L : f[i] \in Seq(S)
  BY <1>9 DEF Collected
<1>12. /\ f[0] = <<>> /\ \A i \in 1..L : f[i] = f[i - 1] \o Signs(d, i)
       /\ g[0] = <<>> /\ \A i \in 1..L : g[i] = g[i - 1] \o Signs(o, i)
  BY <1>6, <1>7, <1>9, <1>10 DEF Collected
<1>13. ASSUME NEW i \in 1..(L - 1) PROVE Signs(o, i) = Signs(d, i)
  <2> DEFINE k == L + 1 - i
  <2>1. k \in 1..L /\ k # 1
    BY <1>1
  <2>2. Signs(o, i) = (IF o.secs[k].signed THEN <<Version(o, k)>> ELSE <<>>)
        /\ Signs(d, i) = (IF d.secs[k].signed THEN <<Version(d, k)>> ELSE <<>>)
    BY <1>6, <1>7 DEF Signs
  <2> HIDE DEF k
  <2> QED BY <1>6, <1>7, <1>8, <2>1, <2>2
<1>14. Signs(o, L) = <<Version(d, 1)>> /\ Signs(d, L) = <<>>
  <2>1. L + 1 - L = 1
    <3> HIDE DEF L
    <3> QED BY <1>1
  <2>2. Signs(o, L) = (IF o.secs[1].signed THEN <<Version(o, 1)>> ELSE <<>>)
        /\ Signs(d, L) = (IF d.secs[1].signed THEN <<Version(d, 1)>> ELSE <<>>)
    BY <1>6, <1>7, <2>1 DEF Signs
  <2> QED BY <1>1, <1>6, <1>7, <1>8, <2>2
<1> HIDE DEF L
<1>15. g[L - 1] = f[L - 1]
  <2> DEFINE B == {j \in 0..(L - 1) : g[j] = f[j]}
  <2>1. 0 \in B
    BY <1>1, <1>12
  <2>2. ASSUME NEW i \in 1..(L - 1), i - 1 \in B PROVE i \in B
    <3>1. g[i - 1] = f[i - 1] /\ i \in 0..(L - 1) /\ i \in 1..L
      BY <1>1, <2>2
    <3>2. g[i] = f[i]
      BY <1>12, <1>13, <3>1
    <3> QED BY <3>1, <3>2
  <2> HIDE DEF B
  <2>3. L - 1 \in Nat /\ L - 1 \in 0..(L - 1)
    BY <1>1
  <2>4. \A i \in 0..(L - 1) : i \in B
    <3> DEFINE K == L - 1
    <3>1. K \in Nat /\ 0 \in B /\ \A i \in 1..K : i - 1 \in B => i \in B
      BY <2>1, <2>2, <2>3
    <3> HIDE DEF K
    <3>2. \A i \in 0..K : i \in B
      BY <3>1, Climb
    <3> QED BY <3>2 DEF K
  <2> QED BY <2>3, <2>4 DEF B
<1>16. VersionsOf(o) = Append(VersionsOf(d), Version(d, 1))
  <2>1. L \in 1..L /\ L - 1 \in 0..L
    BY <1>1
  <2>2. f[L - 1] \in Seq(S)
    BY <1>11, <2>1
  <2>3. f[L] = f[L - 1] \o <<>> /\ g[L] = f[L - 1] \o <<Version(d, 1)>>
    BY <1>12, <1>14, <1>15, <2>1
  <2>4. f[L] = f[L - 1]
    BY <2>2, <2>3
  <2> DEFINE t == f[L - 1]
             v == Version(d, 1)
  <2>5. t \o <<v>> = Append(t, v)
    <3>1. t \in Seq(S \cup {v})
      BY <2>2
    <3> HIDE DEF t, v
    <3> QED BY <3>1
  <2> QED BY <1>9, <1>10, <2>3, <2>4, <2>5
<1>17. \A n \in Num : Shows(d, o, n)
  BY <1>5, <1>7, KeepsShows
<1> QED BY <1>1, <1>7, <1>8, <1>16, <1>17 DEF o

\* The version of the newest section is what the document shows, where no
\* free entry is above an object in use.
LEMMA VersionNow ==
  ASSUME NEW d, Fits(d), NEW n \in Num \ Revived, InUse(d, n) => Above(d, n)
  PROVE  Version(d, 1)[n] = IF Content(d, 1, n) = None THEN None ELSE Content(d, 1, n).dict
<1> DEFINE L == Len(d.secs)
           k == Find(d, 1, n)
<1>1. L \in Nat \ {0} /\ 1 \in 1..L /\ d.index[n] \in 1..L
  <2>1. L \in Nat \ {0} /\ d.index[n] \in 1..L
    BY DocFacts
  <2> QED BY <2>1
<1>2. Found(d, 1, n) = d.secs[k].table[n] /\ d.secs[k].table[n] \in Entry /\ k \in 1..L
  BY InUseFacts, FindFacts
<1>3. \A j \in 1..L : j < d.index[n] => d.secs[j].table[n].type # "n"
  BY DocFacts DEF Fits, Sound
<1>4. Content(d, 1, n) = None <=> d.secs[k].table[n].type # "n"
  BY <1>2, ReadOK DEF Content
<1>5. CASE InUse(d, n)
  <2>1. d.secs[k].table[n].type = "n" /\ k \in d.index[n]..L
        /\ \A j \in d.index[n]..(k - 1) : d.secs[j].table[n].type = "unset"
    <3>1. d.secs[k].table[n].type = "n" /\ k \in d.index[n]..L
      BY <1>2, <1>5, InUseFacts DEF InUse
    <3> HIDE DEF k, L
    <3>2. \A j \in d.index[n]..(k - 1) : d.secs[j].table[n].type = "unset"
      <4>1. CASE Holders(d, d.index[n], n) = {}
        BY <1>5, <4>1, InUseFacts
      <4>2. CASE Holders(d, d.index[n], n) # {}
        BY <4>2, FindFacts DEF k
      <4> QED BY <4>1, <4>2
    <3> QED BY <3>1, <3>2
  <2> HIDE DEF k, L
  <2>2. \A j \in 1..(k - 1) : d.secs[j].table[n].type = "unset"
    <3> SUFFICES ASSUME NEW j \in 1..(k - 1) PROVE d.secs[j].table[n].type = "unset"
      OBVIOUS
    <3>1. j \in 1..L /\ j < k /\ (j >= d.index[n] => j \in d.index[n]..(k - 1))
          /\ (~(j >= d.index[n]) => j < d.index[n])
      BY <1>1, <1>2
    <3>2. d.secs[j].table[n].type # "f"
      BY <1>2, <1>5, <2>1, <3>1 DEF Above, L
    <3>3. d.secs[j].table[n].type # "n"
      BY <1>3, <2>1, <3>1
    <3>4. d.secs[j].table[n] \in Entry
      BY <3>1, DocFacts DEF L
    <3> QED BY <3>2, <3>3, <3>4 DEF Entry
  <2>3. Version(d, 1)[n] = DictAt(d, k, n)
    BY <1>1, <1>2, <2>1, <2>2, VersionIs DEF L
  <2> QED BY <1>2, <1>4, <2>1, <2>3 DEF Content, DictAt
<1>6. CASE ~InUse(d, n)
  <2>1. d.secs[k].table[n].type # "n"
    BY <1>2, <1>6 DEF InUse
  <2> HIDE DEF k
  <2>2. CASE \A j \in 1..L : d.secs[j].table[n].type = "unset"
    BY <1>1, <1>4, <2>1, <2>2, VersionIs
  <2>3. CASE \E j \in 1..L : d.secs[j].table[n].type # "unset"
    <3> DEFINE T == {j \in 1..L : d.secs[j].table[n].type # "unset"}
               h == Min(T)
    <3>1. T # {} /\ T \in SUBSET Nat
      BY <2>3
    <3>2. h \in T /\ \A j \in T : h <= j
      <4> HIDE DEF T
      <4> QED BY SMTT(30), <3>1, MinIs
    <3>3. h \in 1..L /\ d.secs[h].table[n].type # "unset"
      BY <3>2
    <3> HIDE DEF h
    <3>4. \A j \in 1..(h - 1) : d.secs[j].table[n].type = "unset"
      <4> SUFFICES ASSUME NEW j \in 1..(h - 1) PROVE j \in 1..L /\ j \notin T
        OBVIOUS
      <4> HIDE DEF T, L
      <4>1. j \in 1..L /\ ~(h <= j)
        BY <1>1, <3>3
      <4> QED BY <3>2, <4>1
    <3> HIDE DEF T
    <3>5. Version(d, 1)[n] = IF d.secs[h].table[n].type = "n" THEN DictAt(d, h, n) ELSE None
      BY <1>1, <3>3, <3>4, VersionIs
    <3>6. d.secs[h].table[n].type # "n"
      <4> SUFFICES ASSUME d.secs[h].table[n].type = "n" PROVE FALSE
        OBVIOUS
      <4> HIDE DEF L
      <4>1. ~(h < d.index[n])
        BY <1>3, <3>3
      <4>2. h \in d.index[n]..L /\ \A j \in d.index[n]..(h - 1) : j \in 1..(h - 1)
        BY <1>1, <3>3, <4>1
      <4>3. \A j \in d.index[n]..(h - 1) : d.secs[j].table[n].type = "unset"
        BY <3>4, <4>2
      <4>4. k = h
        BY <3>3, <4>2, <4>3, FindIs DEF k, L
      <4> QED BY <2>1, <4>4
    <3> QED BY <1>4, <2>1, <3>5, <3>6
  <2> QED BY <2>2, <2>3
<1> QED BY <1>5, <1>6

-----------------------------------------------------------------------------
(* What is shown after a call *)

\* An object that is shown is one in use.
LEMMA ShownIs ==
  ASSUME NEW d, Fits(d), NEW n \in Num
  PROVE  /\ InUse(d, n) <=> Content(d, 1, n) # None
         /\ InUse(d, n) => n <= d.len
  BY InUseFacts, ReadOK DEF InUse, Content

\* The objects in use, and the numbers that are not taken yet.
Present(d) == {n \in Num : InUse(d, n) \/ n > d.len}

\* No other comes to be present.
LEMMA PresentLess ==
  ASSUME NEW d, Fits(d), NEW e, Fits(e), d.len <= e.len, NEW X \in SUBSET Num,
         \A n \in Num : n \notin X => Shows(d, e, n)
  PROVE  Present(e) \subseteq Present(d) \cup X
<1> SUFFICES ASSUME NEW n \in Num, n \in Present(e), n \notin X PROVE n \in Present(d)
  BY DEF Present
<1>1. CASE InUse(e, n)
  BY <1>1, ShownIs DEF Shows, Present
<1>2. CASE n > e.len
  <2>1. d.len \in Int /\ e.len \in Int /\ n \in Int
    BY DocFacts DEF Num
  <2>2. n > d.len
    BY <1>2, <2>1
  <2> QED BY <2>2 DEF Present
<1> QED BY <1>1, <1>2 DEF Present

\* Objects in order are in order when there are less of them.
LEMMA OrderlyLess ==
  ASSUME NEW d, NEW s, NEW N, NEW M, N \subseteq M, NEW g, Orderly(d, s, M, g)
  PROVE  Orderly(d, s, N, g) /\ Orderly(d, s, N, FALSE)
  BY DEF Orderly

\* The current contents are what the sections show: beyond the end, nothing.
LEMMA CurrentIs ==
  ASSUME Fits(doc)
  PROVE  /\ Current = [n \in Num |-> Content(doc, 1, n)]
         /\ \A n \in Num : Current[n] = Content(doc, 1, n)
<1>1. \A n \in Num : (IF n <= doc.len THEN Content(doc, 1, n) ELSE None) = Content(doc, 1, n)
  BY ShownIs
<1> QED BY <1>1 DEF Current

\* A call that leaves all contents and signed versions.
Untouched == /\ Fits(doc') /\ doc.len <= doc'.len /\ Onward(doc, doc')
             /\ \A n \in Num : Alike(doc, doc', n)

\* Then nothing that is promised has changed.
LEMMA UntouchedIs ==
  ASSUME Fits(doc), Untouched
  PROVE  Current' = Current /\ Versions' = Versions /\ Present(doc') \subseteq Present(doc)
<1>1. Current' = [n \in Num |-> Content(doc', 1, n)]
  <2>1. \A n \in Num : (IF n <= doc'.len THEN Content(doc', 1, n) ELSE None) = Content(doc', 1, n)
    BY ShownIs DEF Untouched
  <2> QED BY <2>1 DEF Current
<1>2. \A n \in Num : Shows(doc, doc', n) /\ Steady(doc, doc', n)
  BY DEF Untouched, Alike
<1>3. Current' = Current
  BY <1>1, <1>2, CurrentIs DEF Shows
<1>4. VersionsOf(doc') = VersionsOf(doc)
  BY <1>2, VersionsSame DEF Untouched
<1>5. Present(doc') \subseteq Present(doc) \cup {}
  BY <1>2, PresentLess DEF Untouched
<1> QED BY <1>3, <1>4, <1>5 DEF Versions

\* A call that writes c as the content of the object n, and leaves the others;
\* the signed versions are the same, while no save has stopped early.
Touched(n, c) ==
    /\ Fits(doc') /\ doc.len <= doc'.len /\ Onward(doc, doc')
    /\ \A m \in Num : m # n => Alike(doc, doc', m)
    /\ ~stopped => Steady(doc, doc', n)
    /\ Content(doc', 1, n) = c

\* Then one content has changed, and no signed version.
LEMMA TouchedIs ==
  ASSUME Fits(doc), NEW n \in Num, NEW c, Touched(n, c)
  PROVE  /\ Current' = [Current EXCEPT ![n] = c]
         /\ stopped \/ Versions' = Versions
         /\ Present(doc') \subseteq Present(doc) \cup {n}
<1>1. Current' = [m \in Num |-> Content(doc', 1, m)]
  <2>1. \A m \in Num : (IF m <= doc'.len THEN Content(doc', 1, m) ELSE None) = Content(doc', 1, m)
    BY ShownIs DEF Touched
  <2> QED BY <2>1 DEF Current
<1>2. \A m \in Num : m # n => Shows(doc, doc', m) /\ Steady(doc, doc', m)
  BY DEF Touched, Alike
<1>3. Current' = [Current EXCEPT ![n] = c]
  BY <1>1, <1>2, CurrentIs DEF Shows, Touched
<1>4. ~stopped => VersionsOf(doc') = VersionsOf(doc)
  BY <1>2, VersionsSame DEF Touched
<1>5. Present(doc') \subseteq Present(doc) \cup {n}
  BY <1>2, PresentLess DEF Touched
<1> QED BY <1>3, <1>4, <1>5 DEF Versions

\* Memory that is freed after the change.
LEMMA TouchedCollect ==
  ASSUME Fits(doc), NEW n \in Num, NEW c, NEW o, Fits(o), doc.len <= o.len, NEW h,
         doc' = Collect(o, h), Onward(doc, o),
         \A m \in Num : m # n => Alike(doc, o, m),
         ~stopped => Steady(doc, o, n), Content(o, 1, n) = c
  PROVE  Touched(n, c)
<1>1. Fits(doc') /\ doc'.len = o.len
  BY CollectOK
<1>2. Onward(o, doc') /\ \A m \in Num : Alike(o, doc', m)
  BY CollectAlike
<1>3. Onward(doc, doc') /\ \A m : Steady(doc, o, m) /\ Steady(o, doc', m) => Steady(doc, doc', m)
  BY <1>1, <1>2, OnwardTwice
<1>4. \A m \in Num : m # n => Alike(doc, doc', m)
  BY <1>2, <1>3 DEF Alike, Shows
<1> QED BY <1>1, <1>2, <1>3, <1>4 DEF Touched, Alike, Shows

-----------------------------------------------------------------------------
(* What each call does to what is shown *)

\* The calls start from a document whose objects in use are in order.
Kept == Before(Present(doc), FALSE)

\* What is known of such a document.
LEMMA KeptIs ==
  ASSUME Kept
  PROVE  /\ IInv /\ Fits(doc) /\ TypesOK /\ Points(doc, held)
         /\ \A n \in Num : InUse(doc, n) =>
               Tidy(doc, n) /\ (~stopped => ~doc.frozen /\ Filed(doc, n))
  BY TrueFiled, BeforeIs DEF Kept, Before, Orderly, Present

\* A caller gets a pointer to an object: nothing that is shown changes.
LEMMA HoldTouch ==
  ASSUME Kept, NEW n \in Num, Hold(n)
  PROVE  Untouched
<1>1. InUse(doc, n) /\ Unused(doc, n) # {} /\ Fits(doc) /\ Alive(doc, n)
  BY LiveIs, RoomIs, KeptIs DEF Hold, Tidy
<1>2. doc' = CacheObject(doc, n)
  BY DEF Hold
<1>3. Fits(doc') /\ doc'.len = doc.len
  BY <1>1, <1>2, CacheObjectOK
<1>4. Onward(doc, doc') /\ \A m \in Num : Alike(doc, doc', m)
  BY <1>1, <1>2, CacheAlike
<1>5. doc.len \in Int
  BY <1>1, DocFacts
<1> QED BY <1>3, <1>4, <1>5 DEF Untouched

\* The caller lets go of it.
LEMMA ReleaseTouch ==
  ASSUME Kept, Release
  PROVE  Untouched
<1>1. Fits(doc) /\ doc' = Collect(doc, None)
  BY KeptIs DEF Release
<1>2. Fits(doc') /\ doc'.len = doc.len
  BY <1>1, CollectOK
<1>3. Onward(doc, doc') /\ \A m \in Num : Alike(doc, doc', m)
  BY <1>1, CollectAlike
<1>4. doc.len \in Int
  BY <1>1, DocFacts
<1> QED BY <1>2, <1>3, <1>4 DEF Untouched

\* Drawing drops objects, not sections: the end stays where it was.
LEMMA ClearLen ==
  ASSUME NEW d, Fits(d), NEW marked
  PROVE  ClearToMark(d, marked).len = d.len
<1> DEFINE z == [k \in DOMAIN d.secs |-> [d.secs[k] EXCEPT !.table =
                   [n \in Num |-> LET e == d.secs[k].table[n]
                                      kept == \/ <<k, n>> \in marked \/ e.buf # None
                                              \/ held = [num |-> n, cell |-> e.obj]
                                  IN  IF kept THEN e ELSE [e EXCEPT !.obj = None]]]]
           p == [d EXCEPT !.secs = z]
<1>1. ClearToMark(d, marked) = Collect(p, held)
  BY DEF ClearToMark
<1>2. d \in Docs
  BY DocFacts
<1> HIDE DEF z
<1>3. p.len = d.len
  BY <1>2 DEF Docs
<1>4. Collect(p, held).len = p.len
  BY <1>2 DEF Docs, Collect
<1> QED BY <1>1, <1>3, <1>4

\* Drawing an object.
LEMMA RenderTouch ==
  ASSUME Kept, NEW n \in Num, Render(n)
  PROVE  Untouched
<1> DEFINE d == CacheObject(doc, n)
           marked == Loaded(doc)
<1>1. InUse(doc, n) /\ Unused(doc, n) # {} /\ Fits(doc) /\ Alive(doc, n)
  BY LiveIs, RoomIs, KeptIs DEF Render, Tidy
<1>2. doc' = ClearToMark(d, marked)
  BY DEF Render
<1>3. Onward(doc, doc') /\ \A m \in Num : Alike(doc, doc', m)
  BY <1>1, <1>2, RenderAlike
<1>4. Fits(d) /\ d.len = doc.len
  BY <1>1, CacheObjectOK
<1> HIDE DEF d, marked
<1>5. Fits(doc') /\ doc'.len = doc.len
  BY <1>2, <1>4, ClearOK, ClearLen
<1>6. doc.len \in Int
  BY <1>1, DocFacts
<1> QED BY <1>3, <1>5, <1>6 DEF Untouched

\* What an alteration writes.
Altering(n) == [dict |-> edits + 1, stm |-> Content(doc, 1, n).stm]

\* A change of a dictionary writes it and nothing else.
LEMMA AlterDictTouch ==
  ASSUME Kept, NEW n \in Num, AlterDict(n)
  PROVE  InUse(doc, n) /\ Touched(n, Altering(n))
<1> DEFINE o == AlterObject(doc, n)
<1>1. Edit(doc') /\ Live(n) /\ doc' = Collect(o, held)
  BY DEF AlterDict
<1>2. Room /\ edits + 1 \in Stamp
  BY <1>1, EditIs, KeptIs
<1>3. InUse(doc, n) /\ Fits(doc) /\ Spare(doc, n)
  BY <1>1, <1>2, LiveIs, RoomIs, KeptIs
<1>4. Tidy(doc, n) /\ (~stopped => ~doc.frozen /\ Filed(doc, n))
  BY <1>3, KeptIs
<1>5. Fits(o) /\ doc.len <= o.len
  BY <1>2, <1>3, AlterObjectOK
<1>6. /\ Onward(doc, o) /\ \A m \in Num : m # n => Alike(doc, o, m)
      /\ Rewritten(doc, o, n)
      /\ ~doc.frozen /\ Filed(doc, n) => Steady(doc, o, n)
  BY <1>2, <1>3, <1>4, AlterObjectAlike
<1> HIDE DEF o
<1> QED BY <1>1, <1>3, <1>4, <1>5, <1>6, TouchedCollect DEF Rewritten, Altering

\* Through the pointer that is kept, the same.
LEMMA AlterHeldTouch ==
  ASSUME Kept, AlterHeld
  PROVE  /\ held.num \in Num /\ InUse(doc, held.num)
         /\ Touched(held.num, Altering(held.num))
<1> DEFINE n == held.num
           o == Alter(doc, n, held.cell)
<1>1. Edit(doc') /\ held # None /\ doc' = Collect(o, held)
  BY DEF AlterHeld
<1>2. Room /\ edits + 1 \in Stamp
  BY <1>1, EditIs, KeptIs
<1>3. /\ n \in Num /\ held.cell \in Cells /\ InUse(doc, n) /\ Fits(doc)
      /\ held.cell = ObjectOf(doc, n)
  BY <1>1, KeptIs DEF TypesOK, Points
<1>4. Unused(doc, n) # {}
  BY <1>2, <1>3, RoomIs
<1>5. Tidy(doc, n) /\ (~stopped => ~doc.frozen /\ Filed(doc, n))
  BY <1>3, KeptIs
<1>6. Fits(o) /\ doc.len <= o.len
  BY <1>2, <1>3, <1>4, AlterOK
<1>7. /\ Onward(doc, o) /\ \A m \in Num : m # n => Alike(doc, o, m)
      /\ Rewritten(doc, o, n)
      /\ ~doc.frozen /\ Filed(doc, n) => Steady(doc, o, n)
  BY <1>2, <1>3, <1>4, <1>5, AlterAlike
<1> HIDE DEF o, n
<1>8. Touched(n, Altering(n))
  BY <1>1, <1>3, <1>5, <1>6, <1>7, TouchedCollect DEF Rewritten, Altering
<1> QED BY <1>3, <1>8 DEF n

\* A stream that is replaced: the buffer and the dictionary are written.
LEMMA UpdateStreamTouch ==
  ASSUME Kept, NEW n \in Num, UpdateStream(n)
  PROVE  InUse(doc, n) /\ Touched(n, [dict |-> edits + 1, stm |-> edits + 1])
<1> DEFINE d == CacheObject(doc, n)
           k == Find(d, 1, n)
           p == [d EXCEPT !.secs[k].table[n].buf = edits + 1]
           o == AlterObject(p, n)
<1>1. Edit(doc') /\ Live(n) /\ doc' = Collect(o, held)
  BY DEF UpdateStream
<1>2. Room /\ edits + 1 \in Stamp
  BY <1>1, EditIs, KeptIs
<1>3. InUse(doc, n) /\ Fits(doc) /\ Spare(doc, n) /\ Unused(doc, n) # {}
  BY <1>1, <1>2, LiveIs, RoomIs, KeptIs
<1>4. /\ Fits(d) /\ InUse(d, n) /\ ObjectOf(d, n) \in Cells
      /\ d.frozen = doc.frozen /\ d.len = doc.len
      /\ \E c \in Cells \cup {None} : Unused(doc, n) \ {c} \subseteq Unused(d, n)
  BY <1>3, CacheObjectOK
<1>5. Unused(d, n) # {}
  BY <1>3, <1>4 DEF Spare
<1>6. Tidy(doc, n) /\ (~stopped => ~doc.frozen /\ Filed(doc, n))
  BY <1>3, KeptIs
<1>7. Tidy(d, n)
  BY <1>3, <1>6, CacheTidy DEF Preserves, Carries
<1>8. /\ Onward(doc, d) /\ \A m \in Num : Alike(doc, d, m)
      /\ Filed(doc, n) => Filed(d, n)
  BY <1>3, <1>6, CacheAlike, CacheLevel DEF Tidy
<1> HIDE DEF d
<1>9. /\ Fits(p) /\ InUse(p, n) /\ ObjectOf(p, n) = ObjectOf(d, n)
      /\ Unused(p, n) = Unused(d, n) /\ p.frozen = d.frozen
      /\ Carries(d, p, n)
  BY <1>2, <1>4, StreamTidy
<1>10. p.len = d.len
  <2>1. d \in Docs
    BY <1>4, DocFacts
  <2> QED BY <2>1 DEF Docs
<1>11. /\ Onward(d, p) /\ \A m \in Num : m # n => Alike(d, p, m)
       /\ Steady(d, p, n)
       /\ Content(p, 1, n) = [dict |-> Content(d, 1, n).dict, stm |-> edits + 1]
       /\ Filed(d, n) => Filed(p, n)
  BY <1>2, <1>4, StreamAlike
<1> HIDE DEF k, p
<1>12. ObjectOf(p, n) # None /\ Unused(p, n) # {} /\ Tidy(p, n)
  BY <1>4, <1>5, <1>7, <1>9, BoundsAssumption DEF Carries
<1>13. Fits(o) /\ p.len <= o.len
  BY <1>2, <1>9, <1>12, AlterObjectOK
<1>14. /\ Onward(p, o) /\ \A m \in Num : m # n => Alike(p, o, m)
       /\ Rewritten(p, o, n)
       /\ ~p.frozen /\ Filed(p, n) => Steady(p, o, n)
  BY <1>2, <1>9, <1>12, AlterObjectAlike
<1> HIDE DEF o
<1>15. /\ Onward(doc, p)
       /\ \A m : Steady(doc, d, m) /\ Steady(d, p, m) => Steady(doc, p, m)
  BY <1>3, <1>4, <1>8, <1>9, <1>11, OnwardTwice
<1>16. /\ Onward(doc, o)
       /\ \A m : Steady(doc, p, m) /\ Steady(p, o, m) => Steady(doc, o, m)
  BY <1>3, <1>9, <1>13, <1>14, <1>15, OnwardTwice
<1>17. \A m \in Num : m # n => Alike(doc, o, m)
  BY <1>8, <1>11, <1>14, <1>15, <1>16 DEF Alike, Shows
<1>18. ~stopped => Steady(doc, o, n)
  BY <1>4, <1>6, <1>8, <1>9, <1>11, <1>14, <1>15, <1>16 DEF Alike
<1>19. Content(o, 1, n) = [dict |-> edits + 1, stm |-> edits + 1]
  BY <1>11, <1>14 DEF Rewritten
<1>20. doc.len <= o.len
  BY <1>4, <1>10, <1>13
<1>21. Touched(n, [dict |-> edits + 1, stm |-> edits + 1])
  BY <1>1, <1>3, <1>13, <1>16, <1>17, <1>18, <1>19, <1>20, TouchedCollect
<1> QED BY <1>3, <1>21

\* An object that is written anew.
LEMMA ReplaceTouch ==
  ASSUME Kept, NEW n \in Num, ReplaceObject(n)
  PROVE  InUse(doc, n) /\ Touched(n, Altering(n))
<1> DEFINE o == UpdateObject(doc, n)
<1>1. Edit(doc') /\ Live(n) /\ doc' = Collect(o, held') /\ Content(doc, 1, n).stm = None
  BY DEF ReplaceObject, IsStream
<1>2. Room /\ edits + 1 \in Stamp
  BY <1>1, EditIs, KeptIs
<1>3. InUse(doc, n) /\ Fits(doc) /\ Unused(doc, n) # {}
  BY <1>1, <1>2, LiveIs, RoomIs, KeptIs
<1>4. Tidy(doc, n)
  BY <1>3, KeptIs
<1>5. Fits(o) /\ doc.len <= o.len
  BY <1>2, <1>3, UpdateObjectOK
<1>6. /\ Onward(doc, o) /\ \A m \in Num : m # n => Alike(doc, o, m)
      /\ Steady(doc, o, n) /\ Content(o, 1, n) = [dict |-> edits + 1, stm |-> None]
  BY <1>1, <1>2, <1>3, <1>4, UpdateAlike
<1> HIDE DEF o
<1>7. Content(o, 1, n) = Altering(n)
  BY <1>1, <1>6 DEF Altering
<1> QED BY <1>1, <1>3, <1>5, <1>6, <1>7, TouchedCollect

\* An object that is freed is gone, and its number with it.
LEMMA DeleteTouch ==
  ASSUME Kept, NEW n \in Num, DeleteObject(n)
  PROVE  InUse(doc, n) /\ Touched(n, None) /\ n \notin Present(doc')
<1> DEFINE o == Put(IncrementalEntry(doc, n), 1, n, Freed)
<1>1. Edit(doc') /\ Live(n) /\ doc' = Collect(o, held')
  BY DEF DeleteObject
<1>2. InUse(doc, n) /\ Fits(doc)
  BY <1>1, LiveIs, KeptIs
<1>3. Fits(o) /\ doc.len <= o.len /\ n <= o.len
  BY <1>2, FreeOK
<1>4. /\ Onward(doc, o) /\ \A m \in Num : m # n => Alike(doc, o, m)
      /\ Steady(doc, o, n) /\ Content(o, 1, n) = None
  BY <1>2, FreeAlike
<1> HIDE DEF o
<1>5. Touched(n, None)
  BY <1>1, <1>2, <1>3, <1>4, TouchedCollect
<1>6. ~InUse(doc', n)
  BY <1>5, ShownIs DEF Touched
<1>7. doc'.len = o.len
  BY <1>1, <1>3, CollectOK
<1>8. n \in Int /\ o.len \in Int /\ n <= doc'.len
  BY <1>3, <1>7, DocFacts DEF Num
<1>9. ~(n > doc'.len)
  BY <1>7, <1>8
<1> QED BY <1>2, <1>5, <1>6, <1>9 DEF Present

\* The next number is not taken: it is in order.
LEMMA NextNumber ==
  ASSUME Kept, doc.len < MaxNum
  PROVE  LET n == doc.len + 1 IN n \in Num /\ n \in Present(doc) /\ Tidy(doc, n)
<1>1. doc.len + 1 \in Num /\ doc.len \in Int
  BY KeptIs, CreateObjectOK, DocFacts
<1>2. doc.len + 1 \in Present(doc)
  BY <1>1 DEF Present
<1> QED BY <1>1, <1>2 DEF Kept, Before, Orderly

\* A new object takes the next number, of which nothing was shown.
LEMMA NewObjectTouch ==
  ASSUME Kept, NewObject
  PROVE  LET n == doc.len + 1 IN
         /\ n \in Num /\ n \in Present(doc) /\ Content(doc, 1, n) = None
         /\ Touched(n, [dict |-> edits + 1, stm |-> None])
<1> DEFINE n == doc.len + 1
           d == CreateObject(doc)
           o == UpdateObject(d, n)
<1>1. Edit(doc') /\ doc.len < MaxNum /\ doc' = o
  BY DEF NewObject
<1>2. Room /\ edits + 1 \in Stamp /\ Fits(doc)
  BY <1>1, EditIs, KeptIs
<1>3. n \in Num /\ n \in Present(doc) /\ Tidy(doc, n)
  BY <1>1, NextNumber
<1>4. Fits(d) /\ n <= d.len /\ Unused(d, n) = Unused(doc, n)
  BY <1>1, <1>2, <1>3, CreateObjectOK
<1>5. /\ Onward(doc, d) /\ \A m \in Num : Alike(doc, d, m)
      /\ Opened(d) /\ d.secs[1].table[n] = Freed
      /\ Content(doc, 1, n) = None
  BY <1>1, <1>2, CreateAlike
<1>6. Tidy(d, n)
  BY <1>1, <1>2, <1>3, CreateTidy DEF Preserves, Carries
<1>7. doc.len <= d.len
  BY <1>2, <1>4, DocFacts
<1> HIDE DEF n, d
<1>8. Unused(d, n) # {}
  BY <1>2, <1>3, <1>4, RoomIs
<1>9. Fits(o) /\ d.len <= o.len
  BY <1>2, <1>3, <1>4, <1>8, UpdateObjectOK
<1>10. /\ Onward(d, o) /\ \A m \in Num : m # n => Alike(d, o, m)
       /\ Steady(d, o, n) /\ Content(o, 1, n) = [dict |-> edits + 1, stm |-> None]
  BY <1>2, <1>3, <1>4, <1>5, <1>6, <1>8, UpdateAlike
<1> HIDE DEF o
<1>11. /\ Onward(doc, o)
       /\ \A m : Steady(doc, d, m) /\ Steady(d, o, m) => Steady(doc, o, m)
  BY <1>2, <1>4, <1>5, <1>9, <1>10, OnwardTwice
<1>12. \A m \in Num : m # n => Alike(doc, o, m)
  BY <1>5, <1>10, <1>11 DEF Alike, Shows
<1>13. Steady(doc, o, n)
  BY <1>3, <1>5, <1>10, <1>11 DEF Alike
<1>14. doc.len <= o.len
  BY <1>2, <1>4, <1>7, <1>9, DocFacts
<1>15. Touched(n, [dict |-> edits + 1, stm |-> None])
  BY <1>1, <1>9, <1>10, <1>11, <1>12, <1>13, <1>14 DEF Touched
<1> QED BY <1>3, <1>5, <1>15 DEF n

\* The newest section is not signed if it was not before.
LEMMA OnwardFirst ==
  ASSUME NEW d, Fits(d), NEW e, Fits(e), Onward(d, e), ~d.secs[1].signed
  PROVE  ~e.secs[1].signed
<1> DEFINE s == Shift(d, e)
<1>1. Len(d.secs) \in Nat \ {0}
  BY DocFacts
<1>2. 1 \in 1..Len(d.secs)
  BY <1>1
<1>3. s \in Nat /\ (\A k \in 1..s : ~e.secs[k].signed)
      /\ \A k \in 1..Len(d.secs) : e.secs[k + s].signed = d.secs[k].signed
  BY DEF Onward
<1> HIDE DEF s
<1>4. CASE s = 0
  <2>1. e.secs[1 + 0].signed = d.secs[1].signed
    BY <1>2, <1>3, <1>4
  <2> QED BY <2>1
<1>5. CASE s # 0
  BY <1>3, <1>5
<1> QED BY <1>4, <1>5

\* A signature writes the field and a new object, and the version that is
\* shown then is kept.
LEMMA SignTouch ==
  ASSUME Kept, NEW f \in Num, SignField(f)
  PROVE  LET n == doc.len + 1 IN
         /\ InUse(doc, f) /\ n \in Num /\ n \in Present(doc) /\ Content(doc, 1, n) = None
         /\ Fits(doc') /\ doc.len <= doc'.len
         /\ \A m \in Num : m \notin {f, n} => Shows(doc, doc', m)
         /\ Content(doc', 1, f) = Altering(f)
         /\ Content(doc', 1, n) = [dict |-> edits + 1, stm |-> None]
         /\ stopped \/ VersionsOf(doc') = Append(VersionsOf(doc),
               [m \in Num \ Revived |->
                 IF Content(doc', 1, m) = None THEN None ELSE Content(doc', 1, m).dict])
<1> DEFINE n == doc.len + 1
           d == CreateObject(doc)
           p == AlterObject(d, f)
           q == UpdateObject(p, n)
           r == [q EXCEPT !.secs[1].signed = TRUE]
<1>1. Edit(doc') /\ Live(f) /\ doc.len < MaxNum /\ doc' = Collect(r, held)
  BY DEF SignField
<1>2. Room /\ edits + 1 \in Stamp /\ Fits(doc)
  BY <1>1, EditIs, KeptIs
<1>3. n \in Num /\ n \in Present(doc) /\ Tidy(doc, n)
  BY <1>1, NextNumber
<1>4. /\ Fits(d) /\ n <= d.len
      /\ \A m \in Num : Unused(d, m) = Unused(doc, m)
      /\ \A m \in Num : m # n => Keeps(doc, d, m)
  BY <1>1, <1>2, <1>3, CreateObjectOK
<1>5. /\ Onward(doc, d) /\ \A m \in Num : Alike(doc, d, m)
      /\ Opened(d) /\ d.secs[1].table[n] = Freed /\ d.frozen = doc.frozen
      /\ Content(doc, 1, n) = None
  BY <1>1, <1>2, CreateAlike
<1>6. \A m \in Num : Preserves(doc, d, m)
  BY <1>1, <1>2, CreateTidy
<1>7. doc.len <= d.len
  BY <1>2, <1>4, DocFacts
<1>8. InUse(doc, f) /\ f # n /\ Spare(doc, f)
  <2>1. InUse(doc, f) /\ f \in Int /\ doc.len \in Int /\ f <= doc.len
    BY <1>1, <1>2, LiveIs, InUseFacts, DocFacts DEF Num
  <2> QED BY <1>2, <2>1, RoomIs
<1>9. Tidy(doc, f) /\ (~stopped => ~doc.frozen /\ FileTrue(doc, f))
  BY <1>8 DEF Kept, Before, Orderly, Present
<1> HIDE DEF n, d
<1>10. InUse(d, f) /\ Spare(d, f)
  <2>1. Keeps(doc, d, f)
    BY <1>4, <1>8
  <2>2. Spare(d, f)
    BY <1>4, <1>8 DEF Spare
  <2> QED BY <1>8, <2>1, <2>2 DEF Keeps
<1>11. Tidy(d, f) /\ Tidy(d, n) /\ (~stopped => ~d.frozen /\ Filed(d, f))
  BY <1>3, <1>5, <1>6, <1>9, TrueFiled DEF Preserves, Carries
<1>12. Fits(p) /\ d.len <= p.len /\ \A m \in Num : m # f => Unused(p, m) = Unused(d, m)
  BY <1>2, <1>4, <1>10, AlterObjectOK
<1>13. /\ Onward(d, p) /\ \A m \in Num : m # f => Alike(d, p, m)
       /\ Rewritten(d, p, f)
       /\ ~d.frozen /\ Filed(d, f) => Steady(d, p, f)
  BY <1>2, <1>4, <1>10, <1>11, AlterObjectAlike
<1>14. Opened(p) /\ \A m \in Num : m # f => Preserves(d, p, m)
  BY <1>2, <1>4, <1>5, <1>10, AlterObjectTidy
<1>15. p.secs[1].table[n] = Freed
  BY <1>2, <1>3, <1>4, <1>5, <1>8, <1>10, AlterObjectRest
<1> HIDE DEF p
<1>16. Unused(p, n) # {} /\ Tidy(p, n)
  <2>1. Unused(p, n) = Unused(doc, n)
    BY <1>3, <1>4, <1>8, <1>12
  <2>2. Tidy(p, n)
    BY <1>3, <1>8, <1>11, <1>14 DEF Preserves, Carries
  <2> QED BY <1>2, <1>3, <2>1, <2>2, RoomIs
<1>17. /\ Onward(p, q) /\ \A m \in Num : m # n => Alike(p, q, m)
       /\ Steady(p, q, n) /\ Content(q, 1, n) = [dict |-> edits + 1, stm |-> None]
  BY <1>2, <1>3, <1>12, <1>14, <1>15, <1>16, UpdateAlike
<1>18. Fits(q) /\ p.len <= q.len
  BY <1>2, <1>3, <1>12, <1>16, UpdateObjectOK
<1> HIDE DEF q
<1>19. ~q.secs[1].signed
  BY <1>12, <1>14, <1>17, <1>18, OnwardFirst DEF Opened
<1>20. /\ Onward(doc, p)
       /\ \A m : Steady(doc, d, m) /\ Steady(d, p, m) => Steady(doc, p, m)
  BY <1>2, <1>4, <1>5, <1>12, <1>13, OnwardTwice
<1>21. /\ Onward(doc, q)
       /\ \A m : Steady(doc, p, m) /\ Steady(p, q, m) => Steady(doc, q, m)
  BY <1>2, <1>12, <1>17, <1>18, <1>20, OnwardTwice
<1>22. \A m \in Num : m \notin {f, n} => Shows(doc, q, m)
  BY <1>5, <1>13, <1>17 DEF Alike, Shows
<1>23. Content(q, 1, f) = Altering(f)
  <2>1. Content(q, 1, f) = Content(p, 1, f) /\ Content(d, 1, f) = Content(doc, 1, f)
    BY <1>5, <1>8, <1>17 DEF Alike, Shows
  <2> QED BY <1>13, <2>1 DEF Rewritten, Altering
<1>24. ~stopped => \A m \in Num : Steady(doc, q, m)
  BY <1>5, <1>11, <1>13, <1>17, <1>20, <1>21 DEF Alike
<1>25. ~stopped => VersionsOf(q) = VersionsOf(doc)
  BY <1>2, <1>18, <1>21, <1>24, VersionsSame
<1>26. /\ Fits(r) /\ VersionsOf(r) = Append(VersionsOf(q), Version(r, 1))
       /\ \A m \in Num : Shows(q, r, m)
       /\ r.len = q.len
  BY <1>18, <1>19, MarkOK, MarkVersions
<1> HIDE DEF r
<1>27. /\ Fits(doc') /\ doc'.len = r.len /\ doc'.secs = r.secs
       /\ Onward(r, doc') /\ \A m \in Num : Alike(r, doc', m)
  BY <1>1, <1>26, CollectOK, CollectAlike
<1>28. VersionsOf(doc') = VersionsOf(r)
  BY <1>26, <1>27, VersionsSame DEF Alike
<1>29. \A m \in Num : Content(doc', 1, m) = Content(q, 1, m) /\ Content(doc', 1, m) = Content(r, 1, m)
  BY <1>26, <1>27 DEF Alike, Shows
<1>30. doc.len <= doc'.len
  BY <1>2, <1>4, <1>7, <1>12, <1>18, <1>26, <1>27, DocFacts
<1>31. \A m \in Num : m \notin {f, n} => Shows(doc, doc', m)
  BY <1>22, <1>29 DEF Shows
<1>32. f \in Present(doc)
  BY <1>8 DEF Present
<1>33. Present(doc') \subseteq Present(doc)
  <2> DEFINE X == {f, n}
  <2>1. X \in SUBSET Num /\ X \subseteq Present(doc)
    BY <1>3, <1>32
  <2>2. \A m \in Num : m \notin X => Shows(doc, doc', m)
    BY <1>31
  <2> HIDE DEF X
  <2>3. Present(doc') \subseteq Present(doc) \cup X
    BY <1>2, <1>27, <1>30, <2>1, <2>2, PresentLess
  <2> QED BY <2>1, <2>3
<1>34. \A m \in Present(doc) : Above(doc', m)
  <2>1. Orderly(doc', stopped, Present(doc), FALSE)
    BY <1>32, SignOrder DEF Kept
  <2> QED BY <2>1 DEF Orderly, Tidy
<1>35. ASSUME NEW m \in Num \ Revived
       PROVE  Version(r, 1)[m] = IF Content(doc', 1, m) = None THEN None ELSE Content(doc', 1, m).dict
  <2>1. InUse(r, m) => Above(r, m)
    <3>1. InUse(r, m) => InUse(doc', m)
      BY <1>26, <1>27, <1>29, ShownIs
    <3>2. InUse(doc', m) => Above(doc', m)
      BY <1>33, <1>34 DEF Present
    <3> QED BY <1>27, <3>1, <3>2 DEF Above
  <2> QED BY <1>26, <1>29, <2>1, VersionNow
<1>36. Version(r, 1) = [m \in Num \ Revived |-> IF Content(doc', 1, m) = None THEN None
                                     ELSE Content(doc', 1, m).dict]
  BY <1>35 DEF Version
<1>37. stopped \/ VersionsOf(doc') = Append(VersionsOf(doc),
          [m \in Num \ Revived |->
                 IF Content(doc', 1, m) = None THEN None ELSE Content(doc', 1, m).dict])
  BY <1>25, <1>26, <1>28, <1>36
<1>38. Content(doc', 1, f) = Altering(f)
       /\ Content(doc', 1, n) = [dict |-> edits + 1, stm |-> None]
  BY <1>3, <1>17, <1>23, <1>29
<1> QED BY <1>3, <1>5, <1>8, <1>27, <1>30, <1>31, <1>37, <1>38 DEF n

-----------------------------------------------------------------------------
(* Saving and opening *)

\* A save that stops early shows all as before.
LEMMA StopTouch ==
  ASSUME Kept, SaveStops
  PROVE  Untouched
<1>1. doc' = [doc EXCEPT !.frozen = TRUE] /\ Fits(doc) /\ doc \in Docs
  BY KeptIs, DocFacts DEF SaveStops
<1>2. /\ doc'.secs = doc.secs /\ doc'.heap = doc.heap /\ doc'.index = doc.index
      /\ doc'.len = doc.len
  BY <1>1 DEF Docs
<1>3. Fits(doc')
  BY StopStep, KeptIs DEF Good
<1>4. Flags(doc, doc')
  BY <1>2 DEF Flags
<1>5. ASSUME NEW n \in Num PROVE Alike(doc, doc', n)
  <2>1. Level(doc, doc', n)
    BY <1>2 DEF Level, Read
  <2>2. Find(doc', 1, n) = Find(doc, 1, n)
    BY <1>2, FindSame
  <2> QED BY <1>1, <1>3, <2>1, <2>2, LevelAlike DEF Alike
<1>6. Onward(doc, doc')
  BY <1>1, <1>4, FlagsOnward
<1>7. doc.len \in Int
  BY <1>1, DocFacts
<1> QED BY <1>2, <1>3, <1>5, <1>6, <1>7 DEF Untouched

\* complete_signatures: what is saved is shown as before, and nothing is signed.
LEMMA SavedShows ==
  ASSUME NEW d, Fits(d)
  PROVE  LET o == Saved(d) IN
         /\ o.len = d.len
         /\ \A k \in 1..Len(o.secs) : ~o.secs[k].signed
         /\ \A n \in Num : Shows(d, o, n)
<1> DEFINE L == Len(d.secs)
           s == [k \in DOMAIN d.secs |-> [d.secs[k] EXCEPT
                   !.signed = FALSE,
                   !.len = IF program = "full" /\ k = L THEN d.len ELSE @]]
           x == [n \in Num |-> IF n <= d.len THEN Find(d, 1, n) ELSE d.index[n]]
           o == Saved(d)
<1>1. /\ d \in Docs /\ L \in Nat /\ DOMAIN d.secs = 1..L
      /\ \A k \in 1..L : d.secs[k] \in Section
  BY DocFacts
<1>2. o = [d EXCEPT !.frozen = FALSE, !.secs = s, !.index = x]
  BY DEF Saved
<1>3. \A k \in 1..L : ~s[k].signed
  BY <1>1 DEF Section
<1> HIDE DEF s, x
<1>4. o.len = d.len /\ o.secs = s /\ o.index = x
  BY <1>1, <1>2 DEF Docs
<1>5. /\ Fits(o) /\ Len(o.secs) = L /\ o.heap = d.heap
      /\ \A k \in 1..L : o.secs[k].table = d.secs[k].table
      /\ \A n \in Num : InUse(d, n) => InUse(o, n) /\ Found(o, 1, n) = Found(d, 1, n)
  BY SavedOK
<1> HIDE DEF o
<1>6. ASSUME NEW n \in Num, InUse(o, n) PROVE InUse(d, n)
  <2> DEFINE h == Find(o, 1, n)
             k == Find(d, 1, n)
  <2>1. o.index[n] = k
    <3>1. n <= d.len
      BY <1>4, <1>5, <1>6, ShownIs
    <3> QED BY <1>4, <3>1 DEF x
  <2>2. h \in 1..L /\ o.secs[h].table[n].type = "n" /\ h \in k..L
    BY <1>5, <1>6, <2>1, InUseFacts, FindFacts DEF InUse
  <2>3. d.secs[h].table[n].type = "n"
    BY <1>5, <2>2
  <2>4. d.index[n] \in 1..L /\ k \in 1..L
    BY DocFacts, FindFacts
  <2>5. ~(h < d.index[n])
    BY <1>1, <2>2, <2>3 DEF Fits, Sound
  <2> HIDE DEF h, L
  <2>6. h \in d.index[n]..L
    BY <1>1, <2>2, <2>4, <2>5
  <2>7. d.secs[k].table[n].type # "unset"
    BY <2>3, <2>6, FindFacts DEF L
  <2>8. k = h
    <3>1. o.secs[k].table[n].type # "unset" /\ k \in o.index[n]..L
      BY <1>1, <1>5, <2>1, <2>4, <2>7
    <3>2. \A j \in o.index[n]..(k - 1) : o.secs[j].table[n].type = "unset"
      BY <2>1, <2>4
    <3> QED BY <1>5, <3>1, <3>2, FindIs DEF L, h
  <2> QED BY <2>3, <2>8, InUseFacts DEF InUse
<1>7. \A n \in Num : Keeps(d, o, n)
  BY <1>5, <1>6 DEF Keeps
<1>8. \A n \in Num : Shows(d, o, n)
  BY <1>5, <1>7, KeepsShows
<1> QED BY <1>3, <1>4, <1>5, <1>8 DEF o

\* A save of a copy shows all as before; the signed versions are in the copy.
LEMMA SaveCopyTouch ==
  ASSUME Kept, SaveCopy
  PROVE  Current' = Current /\ Versions' = <<>> /\ Present(doc') \subseteq Present(doc)
<1>1. doc' = Saved(doc) /\ Fits(doc)
  BY KeptIs DEF SaveCopy
<1>2. Fits(doc') /\ doc'.len = doc.len
      /\ (\A k \in 1..Len(doc'.secs) : ~doc'.secs[k].signed)
      /\ \A n \in Num : Shows(doc, doc', n)
  BY <1>1, SavedOK, SavedShows
<1>3. VersionsOf(doc') = <<>>
  BY <1>2, NoVersions
<1>4. doc.len <= doc'.len
  BY <1>1, <1>2, DocFacts
<1>5. Present(doc') \subseteq Present(doc) \cup {}
  BY <1>1, <1>2, <1>4, PresentLess
<1>6. \A n \in Num : Content(doc', 1, n) = Content(doc, 1, n)
  BY <1>2 DEF Shows
<1>7. Current' = Current
  BY <1>2, <1>6 DEF Current
<1> QED BY <1>3, <1>5, <1>7 DEF Versions

\* A file that is written has no signature to be made.
LEMMA WrittenUnsigned ==
  ASSUME NEW d, Fits(d)
  PROVE  VersionsOf(OpenDocument(Written(d))) = <<>>
<1> DEFINE f == Written(d)
<1>1. Sections(f)
  BY WrittenOK
<1>2. DOMAIN d.secs = 1..Len(d.secs) /\ Len(d.secs) \in Nat
  BY DocFacts
<1>3. \A k \in 1..Len(f) : ~f[k].signed
  <2>1. \A t : ~Revision(t).signed
    BY DEF Revision
  <2>2. CASE program = "full"
    <3>1. Written(d) = <<Everything(d)>>
      BY <2>2 DEF Written
    <3> QED BY <2>1, <3>1 DEF Everything
  <2>3. CASE program # "full"
    <3>1. Written(d) = [k \in DOMAIN d.secs |->
                          IF k <= d.inc THEN Increment(d, k) ELSE Original(d, k)]
      BY <2>3 DEF Written
    <3>2. Len(f) = Len(d.secs)
      BY <1>2, <3>1
    <3>3. ASSUME NEW k \in 1..Len(f) PROVE ~f[k].signed
      <4>1. f[k] = Increment(d, k) \/ f[k] = Original(d, k)
        BY <1>2, <3>1, <3>2
      <4> QED BY <2>1, <4>1 DEF Increment, Original
    <3> QED BY <3>3
  <2> QED BY <2>2, <2>3
<1> HIDE DEF f
<1>4. Fits(OpenDocument(f)) /\ OpenDocument(f).secs = f
  BY <1>1, OpenOK
<1>5. VersionsOf(OpenDocument(f)) = <<>>
  BY <1>3, <1>4, NoVersions
<1> QED BY <1>5 DEF f

\* What is saved in full and opened again is in order.
LEMMA FullOrder ==
  ASSUME Kept, program = "full", SaveAndReopen
  PROVE  Orderly(doc', stopped', Num, FALSE)
<1> DEFINE f == Written(doc)
<1>1. doc' = OpenDocument(f) /\ Fits(doc) /\ Sections(f)
  BY KeptIs, WrittenOK DEF SaveAndReopen
<1>2. f = <<Everything(doc)>>
  BY DEF Written
<1>3. Len(f) = 1 /\ f[1] = Everything(doc)
  BY <1>2
<1>4. 1 \in 1..Len(doc.secs)
  BY <1>1, DocFacts
<1>5. ASSUME NEW n \in Num
      PROVE  LET e == f[1].table[n] IN
             /\ e.obj = None /\ e.buf = None
             /\ e.type = "n" => e.ofs # None
  <2>1. f[1].table[n] = IF n > doc.len THEN Unset
                        ELSE IF Content(doc, 1, n) = None THEN Freed
                        ELSE InFile(Content(doc, 1, n))
    BY <1>3 DEF Everything, Revision
  <2>2. CASE n > doc.len \/ Content(doc, 1, n) = None
    BY <2>1, <2>2 DEF Unset, Freed
  <2>3. CASE ~(n > doc.len) /\ Content(doc, 1, n) # None
    <3>1. InUse(doc, n) /\ Alive(doc, n)
      BY <1>1, <2>3, ShownIs, KeptIs DEF Tidy
    <3> QED BY <1>1, <1>4, <2>1, <2>3, <3>1, WrittenContent DEF InUse
  <2> QED BY <2>2, <2>3
<1> HIDE DEF f
<1>6. ASSUME NEW n \in Num PROVE Tidy(doc', n) /\ FileTrue(doc', n)
  <2>1. \A j, k \in 1..Len(f) :
           j < k /\ f[j].table[n].type = "f" => f[k].table[n].type # "n"
    BY <1>3
  <2>2. \A k \in 1..Len(f) : LET e == f[k].table[n] IN
           /\ e.obj = None /\ e.buf = None
           /\ e.type = "n" => e.ofs # None
    BY <1>3, <1>5
  <2> QED BY <1>1, <2>1, <2>2, OpenTidy
<1>7. ~doc'.frozen
  BY <1>1 DEF OpenDocument
<1> QED BY <1>6, <1>7 DEF Orderly

\* An object that is freed: the others are in order.
LEMMA DeleteOrder ==
  ASSUME NEW P, Before(P, FALSE), NEW n \in Num, DeleteObject(n)
  PROVE  Orderly(doc', stopped, P \ {n}, FALSE)
<1> DEFINE i == IncrementalEntry(doc, n)
           o == Put(i, 1, n, Freed)
           N == P \ {n}
<1>1. doc' = Collect(o, held') /\ Fits(doc) /\ P \in SUBSET Num
  BY BeforeIs DEF DeleteObject
<1>2. /\ Fits(i) /\ i.heap = doc.heap /\ i.frozen = doc.frozen /\ i.inc # 0
      /\ n <= i.secs[1].len /\ i.index[n] = 1
  BY <1>1, IncrementalEntryOK
<1>3. \A m \in Num : Preserves(doc, i, m)
  BY <1>1, IncrementalTidy
<1>4. Len(i.secs) \in Nat \ {0} /\ 1 \in 1..Len(i.secs)
  <2>1. Len(i.secs) \in Nat \ {0}
    BY <1>2, DocFacts
  <2> QED BY <2>1
<1> HIDE DEF i
<1>5. /\ Fits(o) /\ o.heap = i.heap /\ o.frozen = i.frozen /\ o.inc = i.inc
      /\ Len(o.secs) = Len(i.secs)
      /\ \A j \in 1..Len(i.secs) :
            /\ o.secs[j].len = i.secs[j].len
            /\ \A m \in Num : o.secs[j].table[m] =
                  IF j = 1 /\ m = n THEN Freed ELSE i.secs[j].table[m]
  BY <1>2, <1>4, UnsetFacts, PutOK
<1> HIDE DEF o
<1>6. ASSUME NEW m \in Num, m # n PROVE Preserves(doc, o, m)
  <2>1. /\ \A k \in 1..Len(i.secs) : o.secs[k].table[m] = i.secs[k].table[m]
        /\ \A k \in 2..Len(i.secs) : o.secs[k].len = i.secs[k].len
    BY <1>4, <1>5, <1>6
  <2>2. Preserves(i, o, m)
    BY <1>2, <1>5, <2>1, EqualTidy
  <2> QED BY <1>3, <2>2, PreservesTwice
<1>7. Orderly(o, stopped, N, FALSE)
  BY <1>1, <1>2, <1>5, <1>6 DEF Before, Orderly, Preserves, Carries
<1> HIDE DEF N
<1>8. N \in SUBSET Num
  BY <1>1 DEF N
<1>9. Orderly(Collect(o, held'), stopped, N, FALSE)
  BY <1>5, <1>7, <1>8, CollectOrder
<1> QED BY <1>1, <1>9 DEF N

-----------------------------------------------------------------------------
(* The sections keep what is promised *)

\* What the signed versions rest on: the objects in use are in order.
KeepInv == SavInv /\ Orderly(doc, stopped, Present(doc), FALSE)

\* Every file to open is in order, and nothing of it is signed in memory.
LEMMA StartKeeps == Init => KeepInv /\ Versions = <<>>
<1> SUFFICES ASSUME Init PROVE KeepInv /\ Versions = <<>>
  OBVIOUS
<1>1. PICK s \in Starts : doc = OpenDocument(s.file) /\ program = s.program
  BY DEF Init
<1> DEFINE f == s.file
<1>2. File(f)
  BY StartsAssumption
<1>3. Sections(f) /\ \A k \in 1..Len(f) : ~f[k].signed
  BY <1>2 DEF File, Sections
<1>4. DOMAIN f = 1..Len(f)
  BY <1>3 DEF Sections
<1>5. \A n \in Num \ Revived, j, k \in 1..Len(f) :
         j < k /\ f[j].table[n].type = "f" => f[k].table[n].type # "n"
  BY <1>1, <1>4 DEF Revived
<1>6. \A n \in Num, k \in 1..Len(f) :
         /\ f[k].table[n].obj = None /\ f[k].table[n].buf = None
         /\ f[k].table[n].type = "n" => f[k].table[n].ofs # None
  BY <1>2, <1>4 DEF File
<1>7. doc = OpenDocument(f)
  BY <1>1
<1> HIDE DEF f
<1>8. ASSUME NEW n \in Num PROVE Tidy(doc, n) /\ FileTrue(doc, n)
  BY <1>3, <1>5, <1>6, <1>7, OpenTidy
<1>9. ~doc.frozen
  BY <1>7 DEF OpenDocument
<1>10. Orderly(doc, stopped, Present(doc), FALSE)
  BY <1>8, <1>9 DEF Orderly, Present
<1>11. SavInv
  BY InitOrder
<1>12. VersionsOf(doc) = <<>>
  BY <1>3, <1>7, OpenOK, NoVersions
<1> QED BY <1>10, <1>11, <1>12 DEF KeepInv, Versions

\* What the actions of the abstract specification are, in the variables here.
LEMMA PromiseChanged ==
  ASSUME Fits(doc), NEW n \in Num, InUse(doc, n), NEW t, t \in {edits + 1, Content(doc, 1, n).stm},
         edits' = edits + 1, Touched(n, [dict |-> edits + 1, stm |-> t]), stopped' = stopped
  PROVE  Promise!VNext
<1>1. Current[n] # None /\ Current[n] = Content(doc, 1, n)
  BY CurrentIs, ShownIs
<1>2. /\ Current' = [Current EXCEPT ![n] = [dict |-> edits', stm |-> t]]
      /\ stopped \/ Versions' = Versions
  BY TouchedIs
<1>3. t \in {edits', Current[n].stm}
  BY <1>1
<1>4. Promise!Changed(Current, Current')
  BY <1>1, <1>2, <1>3 DEF Promise!Changed
<1> QED BY <1>2, <1>4 DEF Promise!VNext, Promise!Edit

\* What is shown of an object is a dictionary and a stream.
LEMMA ContentForm ==
  ASSUME NEW d, NEW n, InUse(d, n)
  PROVE  \E a, b : Content(d, 1, n) = [dict |-> a, stm |-> b]
  BY DEF Content, Read, InUse

\* A call that touches nothing is a stuttering step.
LEMMA PromiseSame ==
  ASSUME Fits(doc), Untouched, edits' = edits, stopped' = stopped
  PROVE  UNCHANGED Promise!vvars
  BY UntouchedIs DEF Promise!vvars

\* Every call is an action of the abstract specification or none of it.
LEMMA StepPromise ==
  ASSUME Kept, Next
  PROVE  [Promise!VNext]_(Promise!vvars)
<1>1. Fits(doc)
  BY KeptIs
<1>2. ASSUME NEW n \in Num, Hold(n) PROVE UNCHANGED Promise!vvars
  BY <1>1, <1>2, HoldTouch, PromiseSame DEF Hold
<1>3. ASSUME NEW n \in Num, Render(n) PROVE UNCHANGED Promise!vvars
  BY <1>1, <1>3, RenderTouch, PromiseSame DEF Render
<1>4. CASE Release
  BY <1>1, <1>4, ReleaseTouch, PromiseSame DEF Release
<1>5. ASSUME NEW n \in Num, AlterDict(n) PROVE Promise!VNext
  <2>1. edits' = edits + 1 /\ stopped' = stopped
    BY <1>5 DEF AlterDict, Edit
  <2> QED BY <1>1, <1>5, <2>1, AlterDictTouch, PromiseChanged DEF Altering
<1>6. CASE AlterHeld
  <2>1. edits' = edits + 1 /\ stopped' = stopped
    BY <1>6 DEF AlterHeld, Edit
  <2> DEFINE n == held.num
  <2>2. n \in Num /\ InUse(doc, n) /\ Touched(n, Altering(n))
    BY <1>6, AlterHeldTouch
  <2> HIDE DEF n
  <2> QED BY <1>1, <2>1, <2>2, PromiseChanged DEF Altering
<1>7. ASSUME NEW n \in Num, UpdateStream(n) PROVE Promise!VNext
  <2>1. edits' = edits + 1 /\ stopped' = stopped
    BY <1>7 DEF UpdateStream, Edit
  <2> QED BY <1>1, <1>7, <2>1, UpdateStreamTouch, PromiseChanged
<1>8. ASSUME NEW n \in Num, ReplaceObject(n) PROVE Promise!VNext
  <2>1. edits' = edits + 1 /\ stopped' = stopped
    BY <1>8 DEF ReplaceObject, Edit
  <2> QED BY <1>1, <1>8, <2>1, ReplaceTouch, PromiseChanged DEF Altering
<1>9. ASSUME NEW n \in Num, DeleteObject(n) PROVE Promise!VNext
  <2>1. edits' = edits + 1 /\ stopped' = stopped
    BY <1>9 DEF DeleteObject, Edit
  <2>2. InUse(doc, n) /\ Touched(n, None)
    BY <1>9, DeleteTouch
  <2>3. Current[n] # None
    BY <1>1, <2>2, CurrentIs, ShownIs
  <2>4. /\ Current' = [Current EXCEPT ![n] = None]
        /\ stopped \/ Versions' = Versions
    BY <1>1, <2>2, TouchedIs
  <2>5. Promise!Deleted(Current, Current')
    BY <2>3, <2>4 DEF Promise!Deleted
  <2> QED BY <2>1, <2>4, <2>5 DEF Promise!VNext, Promise!Edit
<1>10. CASE NewObject
  <2> DEFINE n == doc.len + 1
  <2>1. edits' = edits + 1 /\ stopped' = stopped
    BY <1>10 DEF NewObject, Edit
  <2>2. /\ n \in Num /\ Content(doc, 1, n) = None
        /\ Touched(n, [dict |-> edits', stm |-> None])
    BY <1>10, <2>1, NewObjectTouch
  <2> HIDE DEF n
  <2>3. Current[n] = None
    BY <1>1, <2>2, CurrentIs
  <2>4. /\ Current' = [Current EXCEPT ![n] = [dict |-> edits', stm |-> None]]
        /\ stopped \/ Versions' = Versions
    BY <1>1, <2>2, TouchedIs
  <2>5. Promise!Created(Current, Current')
    BY <2>2, <2>3, <2>4 DEF Promise!Created, Promise!Plain
  <2> QED BY <2>1, <2>4, <2>5 DEF Promise!VNext, Promise!Edit
<1>11. ASSUME NEW f \in Num, SignField(f) PROVE Promise!VNext
  <2> DEFINE n == doc.len + 1
             e == edits'
  <2>1. edits' = edits + 1 /\ stopped' = stopped
    BY <1>11 DEF SignField, Edit
  <2>2. /\ InUse(doc, f) /\ n \in Num /\ Content(doc, 1, n) = None /\ Fits(doc')
        /\ \A m \in Num : m \notin {f, n} => Content(doc', 1, m) = Content(doc, 1, m)
        /\ Content(doc', 1, f) = [dict |-> edits', stm |-> Content(doc, 1, f).stm]
        /\ Content(doc', 1, n) = [dict |-> edits', stm |-> None]
        /\ stopped \/ VersionsOf(doc') = Append(VersionsOf(doc),
             [m \in Num \ Revived |->
                 IF Content(doc', 1, m) = None THEN None ELSE Content(doc', 1, m).dict])
    BY <1>11, <2>1, SignTouch DEF Shows, Altering
  <2> HIDE DEF n
  <2>3. Current[f] # None /\ Current[n] = None /\ f # n
    BY <1>1, <2>2, CurrentIs, ShownIs
  <2>4. /\ Current' = [m \in Num |-> Content(doc', 1, m)]
        /\ Current = [m \in Num |-> Content(doc, 1, m)]
    <3>1. \A m \in Num : (IF m <= doc'.len THEN Content(doc', 1, m) ELSE None) = Content(doc', 1, m)
      BY <2>2, ShownIs
    <3>2. Current' = [m \in Num |-> Content(doc', 1, m)]
      BY <3>1 DEF Current
    <3> QED BY <1>1, <3>2, CurrentIs
  <2>5. \E a, b : Content(doc, 1, f) = [dict |-> a, stm |-> b]
    BY <2>2, ContentForm
  <2>6. [Content(doc, 1, f) EXCEPT !.dict = edits'] = [dict |-> edits', stm |-> Content(doc, 1, f).stm]
    BY <2>5
  <2>7. Current' = [Current EXCEPT ![f].dict = edits', ![n] = Promise!Plain(edits')]
    <3>1. [Current EXCEPT ![f].dict = edits', ![n] = Promise!Plain(edits')]
          = [m \in Num |-> IF m = n THEN [dict |-> edits', stm |-> None]
                           ELSE IF m = f THEN [Content(doc, 1, f) EXCEPT !.dict = edits']
                           ELSE Content(doc, 1, m)]
      BY <2>2, <2>3, <2>4 DEF Promise!Plain
    <3>2. \A m \in Num : Content(doc', 1, m) =
            IF m = n THEN [dict |-> edits', stm |-> None]
            ELSE IF m = f THEN [Content(doc, 1, f) EXCEPT !.dict = edits']
            ELSE Content(doc, 1, m)
      BY <2>2, <2>6
    <3> QED BY <2>4, <3>1, <3>2
  <2>8. stopped \/ Versions' = Append(Versions, Promise!Dicts(Current'))
    BY <2>2, <2>4 DEF Versions, Promise!Dicts
  <2>9. Promise!Sign(Current, Current')
    BY <2>1, <2>2, <2>3, <2>7, <2>8 DEF Promise!Sign
  <2> QED BY <2>9 DEF Promise!VNext
<1>12. CASE SaveStops
  <2>1. Current' = Current /\ Versions' = Versions
    BY <1>1, <1>12, StopTouch, UntouchedIs
  <2> QED BY <1>12, <2>1 DEF SaveStops, Promise!VNext, Promise!Save
<1>13. CASE SaveCopy
  <2>1. Current' = Current /\ Versions' = <<>>
    BY <1>13, SaveCopyTouch
  <2> QED BY <1>13, <2>1 DEF SaveCopy, Promise!VNext, Promise!Save
<1>14. CASE SaveAndReopen
  <2>1. Versions' = <<>>
    BY <1>1, <1>14, WrittenUnsigned DEF SaveAndReopen, Versions
  <2> QED BY <1>14, <2>1 DEF SaveAndReopen, Promise!VNext, Promise!Reopen
<1> QED
  BY <1>2, <1>3, <1>4, <1>5, <1>6, <1>7, <1>8, <1>9, <1>10, <1>11, <1>12, <1>13, <1>14 DEF Next

\* The objects in use stay in order.
LEMMA KeepStep == IInv /\ KeepInv /\ [Next]_vars => KeepInv'
<1> SUFFICES ASSUME IInv, KeepInv, [Next]_vars PROVE KeepInv'
  OBVIOUS
<1> DEFINE P == Present(doc)
           Goal == Orderly(doc', stopped', Present(doc'), FALSE)
<1>1. SavInv'
  BY StepOrder DEF KeepInv
<1> SUFFICES Goal
  BY <1>1 DEF KeepInv
<1>2. P \in SUBSET Num /\ Orderly(doc, stopped, P, FALSE)
  BY DEF KeepInv, Present
<1>3. Kept /\ Before(P, FALSE)
  BY <1>2 DEF Kept, Before
<1>4. Fits(doc) /\ \A n \in Num : InUse(doc, n) => n \in P
  BY DEF IInv, Present
<1> HIDE DEF P
<1>5. ASSUME Untouched \/ Present(doc') \subseteq P, Orderly(doc', stopped', P, FALSE) PROVE Goal
  BY <1>4, <1>5, UntouchedIs, OrderlyLess DEF P
<1>6. ASSUME NEW n \in Num, NEW c, n \in P, Touched(n, c), Orderly(doc', stopped', P, FALSE) PROVE Goal
  <2>1. Present(doc') \subseteq P
    BY <1>4, <1>6, TouchedIs DEF P
  <2> QED BY <1>6, <2>1, OrderlyLess
<1> HIDE DEF Goal
<1>7. CASE Next
  <2>1. ASSUME NEW n \in Num, Hold(n) PROVE Goal
    <3>1. Orderly(doc', stopped', P, FALSE)
      BY <1>3, <2>1, HoldOrder DEF Hold
    <3> QED BY <1>3, <1>5, <2>1, <3>1, HoldTouch
  <2>2. ASSUME NEW n \in Num, Render(n) PROVE Goal
    <3>1. Orderly(doc', stopped', P, FALSE)
      BY <1>3, <2>2, RenderOrder DEF Render
    <3> QED BY <1>3, <1>5, <2>2, <3>1, RenderTouch
  <2>3. ASSUME NEW n \in Num, AlterDict(n) PROVE Goal
    <3>1. n \in P /\ Touched(n, Altering(n))
      BY <1>3, <1>4, <2>3, AlterDictTouch
    <3>2. Orderly(doc', stopped', P, FALSE)
      BY <1>3, <2>3, <3>1, AlterDictOrder DEF AlterDict, Edit
    <3> QED BY <1>6, <3>1, <3>2
  <2>4. ASSUME NEW n \in Num, UpdateStream(n) PROVE Goal
    <3>1. n \in P /\ Touched(n, [dict |-> edits + 1, stm |-> edits + 1])
      BY <1>3, <1>4, <2>4, UpdateStreamTouch
    <3>2. Orderly(doc', stopped', P, FALSE)
      BY <1>3, <2>4, <3>1, UpdateStreamOrder DEF UpdateStream, Edit
    <3> QED BY <1>6, <3>1, <3>2
  <2>5. ASSUME NEW n \in Num, ReplaceObject(n) PROVE Goal
    <3>1. n \in P /\ Touched(n, Altering(n))
      BY <1>3, <1>4, <2>5, ReplaceTouch
    <3>2. Orderly(doc', stopped', P, FALSE)
      BY <1>3, <2>5, <3>1, ReplaceOrder DEF ReplaceObject, Edit
    <3> QED BY <1>6, <3>1, <3>2
  <2>6. ASSUME NEW n \in Num, DeleteObject(n) PROVE Goal
    <3>1. n \in P /\ Touched(n, None) /\ n \notin Present(doc')
      BY <1>3, <1>4, <2>6, DeleteTouch
    <3>2. Present(doc') \subseteq P \ {n}
      BY <1>4, <3>1, TouchedIs DEF P
    <3>3. Orderly(doc', stopped', P \ {n}, FALSE)
      BY <1>3, <2>6, DeleteOrder DEF DeleteObject, Edit
    <3> QED BY <3>2, <3>3, OrderlyLess DEF Goal
  <2>7. ASSUME NEW n \in Num, SignField(n) PROVE Goal
    <3> DEFINE v == doc.len + 1
    <3>1. /\ InUse(doc, n) /\ v \in Num /\ v \in Present(doc)
          /\ Fits(doc') /\ doc.len <= doc'.len
          /\ \A m \in Num : m \notin {n, v} => Shows(doc, doc', m)
      BY <1>3, <2>7, SignTouch
    <3> HIDE DEF v
    <3>2. n \in P
      BY <1>4, <3>1
    <3>3. Orderly(doc', stopped', P, FALSE)
      BY <1>3, <2>7, <3>2, SignOrder DEF SignField, Edit
    <3>4. Present(doc') \subseteq P
      <4> DEFINE X == {n, v}
      <4>1. X \in SUBSET Num /\ X \subseteq P /\ \A m \in Num : m \notin X => Shows(doc, doc', m)
        BY <3>1, <3>2 DEF P
      <4> HIDE DEF X
      <4>2. Present(doc') \subseteq Present(doc) \cup X
        BY <1>4, <3>1, <4>1, PresentLess
      <4> QED BY <4>1, <4>2 DEF P
    <3> QED BY <1>5, <3>3, <3>4
  <2>8. CASE Release
    <3>1. Orderly(doc', stopped', P, FALSE)
      BY <1>3, <2>8, ReleaseOrder DEF Release
    <3> QED BY <1>3, <1>5, <2>8, <3>1, ReleaseTouch
  <2>9. CASE AlterHeld
    <3>1. held.num \in Num /\ held.num \in P /\ Touched(held.num, Altering(held.num))
      BY <1>3, <1>4, <2>9, AlterHeldTouch
    <3>2. Orderly(doc', stopped', P, FALSE)
      BY <1>3, <2>9, <3>1, AlterHeldOrder DEF AlterHeld, Edit
    <3> QED BY <1>6, <3>1, <3>2
  <2>10. CASE NewObject
    <3> DEFINE v == doc.len + 1
    <3>1. v \in Num /\ v \in P /\ Touched(v, [dict |-> edits + 1, stm |-> None])
      BY <1>3, <2>10, NewObjectTouch DEF P
    <3>2. Orderly(doc', stopped', P, FALSE)
      BY <1>3, <2>10, <3>1, NewObjectOrder DEF NewObject, Edit
    <3> HIDE DEF v
    <3> QED BY <1>6, <3>1, <3>2
  <2>11. CASE SaveStops
    <3>1. Orderly(doc', stopped', P, FALSE)
      BY <1>3, <2>11, StopOrder
    <3> QED BY <1>3, <1>5, <2>11, <3>1, StopTouch
  <2>12. CASE SaveCopy
    <3>1. Orderly(doc', stopped', P, FALSE)
      BY <1>3, <2>12, SaveCopyOrder DEF SaveCopy
    <3>2. Present(doc') \subseteq P
      BY <1>3, <2>12, SaveCopyTouch DEF P
    <3> QED BY <1>5, <3>1, <3>2
  <2>13. CASE SaveAndReopen
    <3>1. Present(doc') \subseteq Num
      BY DEF Present
    <3>2. CASE program = "full"
      BY <1>3, <2>13, <3>1, <3>2, FullOrder, OrderlyLess DEF Goal
    <3>3. CASE program # "full"
      <4>1. program' = "incremental"
        BY <2>13, <3>3 DEF SaveAndReopen, IInv, TypesOK
      <4>2. Orderly(doc', stopped', Num, TRUE)
        BY <1>1, <4>1 DEF SavInv
      <4> QED BY <3>1, <4>2, OrderlyLess DEF Goal
    <3> QED BY <3>2, <3>3
  <2> QED
    BY <1>7, <2>1, <2>2, <2>3, <2>4, <2>5, <2>6, <2>7, <2>8, <2>9, <2>10, <2>11, <2>12, <2>13
       DEF Next
<1>8. CASE UNCHANGED vars
  <2>1. doc' = doc /\ stopped' = stopped
    BY <1>8 DEF vars
  <2>2. Present(doc') \subseteq P
    BY <2>1 DEF P
  <2>3. Orderly(doc', stopped', P, FALSE)
    BY <1>2, <2>1
  <2> QED BY <1>5, <2>2, <2>3
<1> QED BY <1>7, <1>8

\* The sections, the index and the objects that move between them act as a
\* store of current contents and signed versions: every edit changes what it
\* names and no other object, and no later edit reaches what has been signed.
THEOREM XrefKeepsVersions == Spec => KeepsVersions
<1>1. Init => IInv /\ KeepInv /\ Promise!VInit
  <2> SUFFICES ASSUME Init PROVE IInv /\ KeepInv /\ Promise!VInit
    OBVIOUS
  <2>1. IInv /\ KeepInv /\ Versions = <<>>
    BY InitInv, StartKeeps
  <2>2. stopped = FALSE /\ edits \in Nat
    BY <2>1, BoundsAssumption DEF Init, IInv, TypesOK, Stamp
  <2> QED BY <2>1, <2>2 DEF Promise!VInit
<1>2. IInv /\ KeepInv /\ [Next]_vars => IInv' /\ KeepInv' /\ [Promise!VNext]_(Promise!vvars)
  <2> SUFFICES ASSUME IInv, KeepInv, [Next]_vars
               PROVE  IInv' /\ KeepInv' /\ [Promise!VNext]_(Promise!vvars)
    OBVIOUS
  <2>1. IInv' /\ KeepInv'
    BY StepInv, KeepStep
  <2>2. Kept
    BY DEF Kept, Before, KeepInv, Present
  <2>3. CASE Next
    BY <2>1, <2>2, <2>3, StepPromise
  <2>4. CASE UNCHANGED vars
    <3>1. doc' = doc /\ edits' = edits /\ stopped' = stopped
      BY <2>4 DEF vars
    <3>2. Current' = Current /\ Versions' = Versions
      BY <3>1 DEF Current, Versions
    <3> QED BY <2>1, <3>1, <3>2 DEF Promise!vvars
  <2> QED BY <2>3, <2>4
<1> QED BY <1>1, <1>2, PTL DEF Spec, KeepsVersions, Promise!VSpec
=============================================================================
