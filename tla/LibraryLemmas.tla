--------------------------- MODULE LibraryLemmas ---------------------------
(***************************************************************************)
(* Facts about the operators of the community modules that the models are  *)
(* built from, for the proofs to cite.  Where an induction is needed it is *)
(* made with the least element of a set of natural numbers: the induction  *)
(* rules of the proof library take an operator as a parameter.             *)
(***************************************************************************)
EXTENDS Integers, SequencesExt, FiniteSetTheorems, SequenceTheorems,
        WellFoundedInduction, TLAPS

\* A nonempty set of natural numbers has a least element.
LEMMA NatMin ==
  ASSUME NEW T \in SUBSET Nat, T # {}
  PROVE  \E m \in T : \A n \in T : m <= n
<1> DEFINE R == {pair \in Nat \X Nat : pair[1] < pair[2]}
<1>1. IsWellFoundedOn(R, Nat)
  BY NatLessThanWellFounded DEF OpToRel
<1> HIDE DEF R
<1>2. PICK x \in T : \A y \in T : ~ (<<y, x>> \in R)
  BY <1>1, WFMin
<1>3. ASSUME NEW y \in T PROVE x <= y
  <2>1. <<y, x>> \in Nat \X Nat /\ ~(<<y, x>>[1] < <<y, x>>[2])
    BY <1>2 DEF R
  <2> QED BY <2>1
<1> QED BY <1>3

\* A nonempty set of integers with an upper bound has a greatest element.
LEMMA IntMax ==
  ASSUME NEW T \in SUBSET Int, T # {}, NEW b \in Int, \A n \in T : n <= b
  PROVE  \E m \in T : \A n \in T : n <= m
<1> DEFINE D == {k \in Nat : b - k \in T}
<1>1. ASSUME NEW n \in T PROVE b - n \in D
  <2>1. b - n \in Nat /\ b - (b - n) = n
    OBVIOUS
  <2> QED BY <2>1
<1>2. D \in SUBSET Nat /\ D # {}
  BY <1>1
<1>3. PICK d \in D : \A e \in D : d <= e
  BY <1>2, NatMin
<1>4. ASSUME NEW n \in T PROVE n <= b - d
  <2>1. d <= b - n /\ n \in Int /\ d \in Nat
    BY <1>1, <1>3
  <2> QED BY <2>1
<1>5. b - d \in T
  BY <1>3
<1> QED BY <1>4, <1>5

----------------------------------------------------------------------------
(* Sequences *)

\* An element in front.
LEMMA FrontIs ==
  ASSUME NEW S, NEW s \in Seq(S), NEW e \in S
  PROVE  /\ <<e>> \o s \in Seq(S) /\ Len(<<e>> \o s) = Len(s) + 1 /\ (<<e>> \o s)[1] = e
         /\ \A i \in 2..Len(s) + 1 : (<<e>> \o s)[i] = s[i - 1]
         /\ Head(<<e>> \o s) = e /\ <<e>> \o s # <<>>
  OBVIOUS

\* An element in front, and away again.
LEMMA TailOfFront ==
  ASSUME NEW S, NEW s \in Seq(S), NEW e \in S
  PROVE  Tail(<<e>> \o s) = s
<1> DEFINE t == <<e>> \o s
<1>1. t \in Seq(S) /\ Len(t) = Len(s) + 1 /\ \A i \in 2..Len(s) + 1 : t[i] = s[i - 1]
  BY FrontIs
<1> HIDE DEF t
<1>2. Tail(t) \in Seq(S) /\ Len(Tail(t)) = Len(s) /\ \A i \in 1..Len(s) : Tail(t)[i] = t[i + 1]
  BY <1>1
<1>3. ASSUME NEW i \in 1..Len(s) PROVE Tail(t)[i] = s[i]
  <2>1. i + 1 \in 2..Len(s) + 1 /\ (i + 1) - 1 = i
    OBVIOUS
  <2> QED BY <1>1, <1>2, <2>1
<1> QED BY <1>2, <1>3 DEF t

\* All but the first element.
LEMMA TailIs ==
  ASSUME NEW S, NEW s \in Seq(S), s # <<>>
  PROVE  /\ Head(s) \in S /\ Head(s) = s[1] /\ 1 \in DOMAIN s
         /\ Tail(s) \in Seq(S) /\ Len(Tail(s)) = Len(s) - 1
         /\ \A i \in 1..Len(s) - 1 : i + 1 \in DOMAIN s /\ Tail(s)[i] = s[i + 1]
         /\ Len(s) \in Nat \ {0}
  OBVIOUS

\* A first element and the rest.
LEMMA FrontOfTail ==
  ASSUME NEW S, NEW s \in Seq(S), s # <<>>
  PROVE  s = <<Head(s)>> \o Tail(s) /\ Head(s) \in S /\ Tail(s) \in Seq(S)
<1>1. /\ Head(s) \in S /\ Head(s) = s[1] /\ Tail(s) \in Seq(S) /\ Len(Tail(s)) = Len(s) - 1
      /\ \A i \in 1..Len(s) - 1 : Tail(s)[i] = s[i + 1]
      /\ Len(s) \in Nat \ {0}
  BY TailIs
<1> DEFINE t == <<Head(s)>> \o Tail(s)
<1>2. t \in Seq(S) /\ Len(t) = Len(s) /\ t[1] = s[1] /\ \A i \in 2..Len(s) : t[i] = Tail(s)[i - 1]
  BY <1>1, FrontIs
<1> HIDE DEF t
<1>3. ASSUME NEW i \in 1..Len(s) PROVE t[i] = s[i]
  <2>1. CASE i = 1
    BY <1>2, <2>1
  <2>2. CASE i # 1
    <3>1. i \in 2..Len(s) /\ i - 1 \in 1..Len(s) - 1 /\ (i - 1) + 1 = i
      BY <1>1, <2>2
    <3> QED BY <1>1, <1>2, <3>1
  <2> QED BY <2>1, <2>2
<1>4. t = s
  BY <1>2, <1>3, SeqEqual
<1> QED BY <1>1, <1>4 DEF t

\* Min of a nonempty set of natural numbers is its least element.
LEMMA MinIs ==
  ASSUME NEW T \in SUBSET Nat, T # {}
  PROVE  Min(T) \in T /\ \A n \in T : Min(T) <= n
  BY NatMin DEF Min

\* Max of a nonempty bounded set of integers is its greatest element.
LEMMA MaxIs ==
  ASSUME NEW T \in SUBSET Int, T # {}, NEW b \in Int, \A n \in T : n <= b
  PROVE  Max(T) \in T /\ \A n \in T : n <= Max(T)
<1>1. \E m \in T : \A n \in T : n <= m
  BY IntMax
<1>2. \E m \in T : \A n \in T : m >= n
  <2>1. PICK m \in T : \A n \in T : n <= m
    BY <1>1
  <2>2. \A n \in T : m >= n
    BY <2>1
  <2> QED BY <2>2
<1>3. Max(T) \in T /\ \A n \in T : Max(T) >= n
  BY <1>2 DEF Max
<1>4. \A n \in T : n <= Max(T)
  BY <1>3
<1> QED BY <1>3, <1>4

\* RemoveAt takes one element out and closes the gap.
LEMMA RemoveAtFacts ==
  ASSUME NEW S, NEW s \in Seq(S), NEW i \in 1..Len(s)
  PROVE  /\ RemoveAt(s, i) \in Seq(S)
         /\ Len(RemoveAt(s, i)) = Len(s) - 1
         /\ \A j \in 1..Len(s)-1 : RemoveAt(s, i)[j] = IF j < i THEN s[j] ELSE s[j+1]
<1> DEFINE a == SubSeq(s, 1, i-1)
           b == SubSeq(s, i+1, Len(s))
<1>1. a \in Seq(S) /\ Len(a) = i-1 /\ \A j \in 1..(i-1) : a[j] = s[j]
  OBVIOUS
<1>2. b \in Seq(S) /\ Len(b) = Len(s)-i /\ \A j \in 1..(Len(s)-i) : b[j] = s[j+i]
  OBVIOUS
<1>3. RemoveAt(s, i) = a \o b
  BY DEF RemoveAt
<1> HIDE DEF a, b
<1>4. a \o b \in Seq(S) /\ Len(a \o b) = Len(s) - 1
  <2>1. a \o b \in Seq(S) /\ Len(a \o b) = Len(a) + Len(b)
    BY <1>1, <1>2, ConcatProperties
  <2>2. Len(a) + Len(b) = Len(s) - 1
    BY <1>1, <1>2
  <2> QED BY <2>1, <2>2
<1>5. ASSUME NEW j \in 1..Len(s)-1
      PROVE  (a \o b)[j] = IF j < i THEN s[j] ELSE s[j+1]
  <2>1. CASE j < i
    BY <1>1, <1>2, <2>1
  <2>2. CASE ~(j < i)
    <3>1. (a \o b)[j] = b[j - (i-1)] /\ j - (i-1) \in 1..(Len(s)-i)
      BY <1>1, <1>2, <2>2
    <3>2. b[j - (i-1)] = s[j - (i-1) + i] /\ j - (i-1) + i = j + 1
      BY <1>2, <3>1
    <3> QED BY <2>2, <3>1, <3>2
  <2> QED BY <2>1, <2>2
<1> QED BY <1>3, <1>4, <1>5

\* RemoveFirst takes one element out, if it is there at all.
LEMMA RemoveFirstIs ==
  ASSUME NEW S, NEW s \in Seq(S), NEW e
  PROVE  \/ e \notin ToSet(s) /\ RemoveFirst(s, e) = s
         \/ \E i \in 1..Len(s) : s[i] = e /\ RemoveFirst(s, e) = RemoveAt(s, i)
<1>1. CASE \A i \in 1..Len(s) : s[i] # e
  <2>1. RemoveFirst(s, e) = s
    BY <1>1 DEF RemoveFirst, SelectInSeq
  <2>2. e \notin ToSet(s)
    BY <1>1 DEF ToSet
  <2> QED BY <2>1, <2>2
<1>2. CASE \E i \in 1..Len(s) : s[i] = e
  <2> DEFINE I == {i \in 1..Len(s) : s[i] = e}
  <2>1. I # {} /\ I \in SUBSET Nat
    BY <1>2
  <2>2. PICK m \in I : \A n \in I : m <= n
    BY <2>1, NatMin
  <2> DEFINE min == CHOOSE x \in I : \A y \in I : x =< y
  <2>3. min \in I
    BY <2>2
  <2>4. RemoveFirst(s, e) = RemoveAt(s, min)
    BY <1>2, <2>1 DEF RemoveFirst, SelectInSeq, Min
  <2> QED BY <2>3, <2>4
<1> QED BY <1>1, <1>2

\* Of a sequence without repetitions RemoveFirst removes exactly that element.
LEMMA RemoveFirstFacts ==
  ASSUME NEW S, NEW s \in Seq(S), IsInjective(s), NEW e
  PROVE  /\ RemoveFirst(s, e) \in Seq(S)
         /\ IsInjective(RemoveFirst(s, e))
         /\ ToSet(RemoveFirst(s, e)) = ToSet(s) \ {e}
<1>1. CASE e \notin ToSet(s) /\ RemoveFirst(s, e) = s
  BY <1>1
<1>2. ASSUME NEW i \in 1..Len(s), s[i] = e, RemoveFirst(s, e) = RemoveAt(s, i)
      PROVE  /\ RemoveFirst(s, e) \in Seq(S)
             /\ IsInjective(RemoveFirst(s, e))
             /\ ToSet(RemoveFirst(s, e)) = ToSet(s) \ {e}
  <2> DEFINE r == RemoveAt(s, i)
  <2>1. /\ r \in Seq(S) /\ Len(r) = Len(s) - 1
        /\ \A j \in 1..Len(s)-1 : r[j] = IF j < i THEN s[j] ELSE s[j+1]
    BY RemoveAtFacts
  <2> HIDE DEF r
  <2>2. DOMAIN r = 1..Len(s)-1 /\ DOMAIN s = 1..Len(s) /\ Len(s) \in Nat
    BY <2>1
  <2>3. \A a, b \in 1..Len(s) : s[a] = s[b] => a = b
    BY <2>2 DEF IsInjective
  <2>4. ASSUME NEW a \in 1..Len(s)-1, NEW b \in 1..Len(s)-1, r[a] = r[b]
        PROVE  a = b
    <3>1. a \in Int /\ b \in Int /\ i \in Int
      OBVIOUS
    <3>2. CASE a < i /\ b < i
      BY <2>1, <2>2, <2>3, <2>4, <3>1, <3>2
    <3>3. CASE a < i /\ ~(b < i)
      BY <2>1, <2>2, <2>3, <2>4, <3>1, <3>3
    <3>4. CASE ~(a < i) /\ b < i
      BY <2>1, <2>2, <2>3, <2>4, <3>1, <3>4
    <3>5. CASE ~(a < i) /\ ~(b < i)
      BY <2>1, <2>2, <2>3, <2>4, <3>1, <3>5
    <3> QED BY <3>2, <3>3, <3>4, <3>5
  <2>5. ASSUME NEW a \in 1..Len(s)-1 PROVE r[a] \in ToSet(s) \ {e}
    BY <1>2, <2>1, <2>2, <2>3 DEF ToSet
  <2>6. ASSUME NEW b \in 1..Len(s), s[b] # e PROVE s[b] \in ToSet(r)
    <3>1. CASE b < i
      BY <2>1, <2>2, <3>1 DEF ToSet
    <3>2. CASE b > i
      <4>1. b - 1 \in 1..Len(s)-1 /\ ~(b - 1 < i) /\ (b - 1) + 1 = b
        BY <3>2
      <4>2. r[b - 1] = s[b]
        BY <2>1, <4>1
      <4> QED BY <2>2, <4>1, <4>2 DEF ToSet
    <3> QED BY <1>2, <2>6, <3>1, <3>2
  <2>7. IsInjective(r)
    BY <2>2, <2>4 DEF IsInjective
  <2>8. ToSet(r) = ToSet(s) \ {e}
    BY <2>2, <2>5, <2>6 DEF ToSet
  <2> QED BY <1>2, <2>1, <2>7, <2>8 DEF r
<1> QED BY <1>1, <1>2, RemoveFirstIs

\* Putting an element in front.
LEMMA ConsFacts ==
  ASSUME NEW S, NEW s \in Seq(S), IsInjective(s), NEW e \in S, e \notin ToSet(s)
  PROVE  /\ <<e>> \o s \in Seq(S)
         /\ IsInjective(<<e>> \o s)
         /\ ToSet(<<e>> \o s) = {e} \cup ToSet(s)
<1> DEFINE r == <<e>> \o s
<1>1. /\ r \in Seq(S) /\ Len(r) = Len(s) + 1 /\ r[1] = e
      /\ \A j \in 2..Len(s)+1 : r[j] = s[j-1]
  OBVIOUS
<1> HIDE DEF r
<1>2. DOMAIN r = 1..Len(s)+1 /\ DOMAIN s = 1..Len(s) /\ Len(s) \in Nat
  BY <1>1
<1>3. ASSUME NEW j \in 2..Len(s)+1 PROVE j - 1 \in 1..Len(s) /\ r[j] = s[j-1]
  BY <1>1, <1>2
<1>4. ASSUME NEW a \in DOMAIN r, NEW b \in DOMAIN r, r[a] = r[b] PROVE a = b
  <2>1. CASE a = 1 /\ b = 1
    BY <2>1
  <2>2. CASE a = 1 /\ b # 1
    <3>1. b \in 2..Len(s)+1
      BY <1>2, <2>2
    <3> QED BY <1>1, <1>2, <1>3, <1>4, <2>2, <3>1 DEF ToSet
  <2>3. CASE a # 1 /\ b = 1
    <3>1. a \in 2..Len(s)+1
      BY <1>2, <2>3
    <3> QED BY <1>1, <1>2, <1>3, <1>4, <2>3, <3>1 DEF ToSet
  <2>4. CASE a # 1 /\ b # 1
    <3>1. a \in 2..Len(s)+1 /\ b \in 2..Len(s)+1
      BY <1>2, <2>4
    <3>2. a - 1 \in DOMAIN s /\ b - 1 \in DOMAIN s /\ s[a-1] = s[b-1]
      BY <1>2, <1>3, <1>4, <3>1
    <3>3. a - 1 = b - 1
      BY <3>2 DEF IsInjective
    <3> QED BY <3>1, <3>3
  <2> QED BY <2>1, <2>2, <2>3, <2>4
<1>5. ASSUME NEW x \in ToSet(r) PROVE x \in {e} \cup ToSet(s)
  <2>1. PICK j \in DOMAIN r : x = r[j]
    BY DEF ToSet
  <2>2. CASE j = 1
    BY <1>1, <2>1, <2>2
  <2>3. CASE j # 1
    <3>1. j \in 2..Len(s)+1
      BY <1>2, <2>3
    <3> QED BY <1>2, <1>3, <2>1, <3>1 DEF ToSet
  <2> QED BY <2>2, <2>3
<1>6. ASSUME NEW x \in {e} \cup ToSet(s) PROVE x \in ToSet(r)
  <2>1. CASE x = e
    <3>1. 1 \in DOMAIN r /\ r[1] = x
      BY <1>1, <1>2, <2>1
    <3> QED BY <3>1 DEF ToSet
  <2>2. CASE x # e
    <3>1. PICK j \in DOMAIN s : x = s[j]
      BY <2>2 DEF ToSet
    <3>2. j + 1 \in 2..Len(s)+1 /\ (j + 1) - 1 = j
      BY <1>2
    <3>3. j + 1 \in DOMAIN r /\ r[j + 1] = x
      BY <1>1, <1>2, <3>1, <3>2
    <3> QED BY <3>3 DEF ToSet
  <2> QED BY <2>1, <2>2
<1>7. IsInjective(r)
  BY <1>4 DEF IsInjective
<1> QED BY <1>1, <1>5, <1>6, <1>7 DEF r

\* x comes before y in s.
Precedes(s, x, y) == \E i, j \in DOMAIN s : i < j /\ s[i] = x /\ s[j] = y

\* RemoveFirst puts nothing before anything else.
LEMMA RemoveFirstOrder ==
  ASSUME NEW S, NEW s \in Seq(S), NEW e, NEW x, NEW y, Precedes(RemoveFirst(s, e), x, y)
  PROVE  Precedes(s, x, y)
<1>1. CASE RemoveFirst(s, e) = s
  BY <1>1
<1>2. ASSUME NEW k \in 1..Len(s), RemoveFirst(s, e) = RemoveAt(s, k) PROVE Precedes(s, x, y)
  <2> DEFINE r == RemoveAt(s, k)
  <2>1. /\ r \in Seq(S) /\ Len(r) = Len(s) - 1
        /\ \A j \in 1..Len(s)-1 : r[j] = IF j < k THEN s[j] ELSE s[j+1]
    BY RemoveAtFacts
  <2>2. PICK i, j \in DOMAIN r : i < j /\ r[i] = x /\ r[j] = y
    BY <1>2 DEF Precedes
  <2> HIDE DEF r
  <2>3. i \in 1..Len(s)-1 /\ j \in 1..Len(s)-1 /\ DOMAIN s = 1..Len(s) /\ Len(s) \in Nat
    BY <2>1
  <2>4. CASE j < k
    <3>1. r[i] = s[i] /\ r[j] = s[j] /\ i \in DOMAIN s /\ j \in DOMAIN s
      BY <2>1, <2>2, <2>3, <2>4
    <3> QED BY <2>2, <3>1 DEF Precedes
  <2>5. CASE ~(j < k) /\ i < k
    <3>1. r[i] = s[i] /\ r[j] = s[j+1] /\ i \in DOMAIN s /\ j + 1 \in DOMAIN s /\ i < j + 1
      BY <2>1, <2>2, <2>3, <2>5
    <3> QED BY <2>2, <3>1 DEF Precedes
  <2>6. CASE ~(j < k) /\ ~(i < k)
    <3>1. r[i] = s[i+1] /\ r[j] = s[j+1] /\ i + 1 \in DOMAIN s /\ j + 1 \in DOMAIN s /\ i + 1 < j + 1
      BY <2>1, <2>2, <2>3, <2>6
    <3> QED BY <2>2, <3>1 DEF Precedes
  <2> QED BY <2>4, <2>5, <2>6
<1> QED BY <1>1, <1>2, RemoveFirstIs

\* What is put in front comes before the others, which keep their order.
LEMMA ConsOrder ==
  ASSUME NEW S, NEW s \in Seq(S), NEW e \in S, NEW x, NEW y, Precedes(<<e>> \o s, x, y)
  PROVE  (x = e /\ y \in ToSet(s)) \/ Precedes(s, x, y)
<1> DEFINE r == <<e>> \o s
<1>1. /\ r \in Seq(S) /\ Len(r) = Len(s) + 1 /\ r[1] = e
      /\ \A j \in 2..Len(s)+1 : r[j] = s[j-1]
  OBVIOUS
<1>2. PICK i, j \in DOMAIN r : i < j /\ r[i] = x /\ r[j] = y
  BY DEF Precedes
<1> HIDE DEF r
<1>3. i \in 1..Len(s)+1 /\ j \in 2..Len(s)+1 /\ Len(s) \in Nat /\ DOMAIN s = 1..Len(s)
  BY <1>1, <1>2
<1>4. j - 1 \in DOMAIN s /\ s[j-1] = y
  BY <1>1, <1>2, <1>3
<1>5. CASE i = 1
  BY <1>1, <1>2, <1>4, <1>5 DEF ToSet
<1>6. CASE i # 1
  <2>1. i - 1 \in DOMAIN s /\ s[i-1] = x /\ i - 1 < j - 1
    BY <1>1, <1>2, <1>3, <1>6
  <2> QED BY <1>4, <2>1 DEF Precedes
<1> QED BY <1>5, <1>6

----------------------------------------------------------------------------
(* Sums of a function over finite sets *)

\* The recursion of the fold: a sum is computed by taking out a chosen element.
Picked(s) == CHOOSE x \in s : TRUE
Sums(f, S, g) ==
    g = [s \in SUBSET S |-> IF s = {} THEN 0 ELSE f[Picked(s)] + g[s \ {Picked(s)}]]

\* A function that computes sums exists for every finite set.
LEMMA SumsExist ==
  ASSUME NEW f, NEW S, IsFiniteSet(S)
  PROVE  \E g : Sums(f, S, g)
<1> DEFINE Small(n) == {s \in SUBSET S : Cardinality(s) <= n}
           Upto(n, g) == g = [s \in Small(n) |->
                                IF s = {} THEN 0 ELSE f[Picked(s)] + g[s \ {Picked(s)}]]
           Bad == {n \in Nat : ~ \E g : Upto(n, g)}
<1>1. ASSUME NEW s \in SUBSET S
      PROVE  /\ IsFiniteSet(s) /\ Cardinality(s) \in Nat /\ (Cardinality(s) = 0 <=> s = {})
             /\ s # {} => /\ Picked(s) \in s
                          /\ Cardinality(s \ {Picked(s)}) = Cardinality(s) - 1
  <2>1. IsFiniteSet(s) /\ Cardinality(s) \in Nat /\ (Cardinality(s) = 0 <=> s = {})
    BY FS_Subset, FS_CardinalityType, FS_EmptySet
  <2>2. s # {} => Picked(s) \in s
    BY DEF Picked
  <2> QED BY <2>1, <2>2, FS_RemoveElement
<1>2. \E g : Upto(0, g)
  <2> DEFINE g == [s \in Small(0) |-> 0]
  <2>1. ASSUME NEW s \in Small(0) PROVE s = {}
    <3>1. Cardinality(s) <= 0 /\ Cardinality(s) \in Nat
      BY <1>1
    <3>2. Cardinality(s) = 0
      BY <3>1
    <3> QED BY <1>1, <3>2
  <2>2. Upto(0, g)
    BY <2>1
  <2> QED BY <2>2
<1>3. ASSUME NEW n \in Nat, NEW g, Upto(n, g) PROVE \E h : Upto(n + 1, h)
  <2> DEFINE h == [s \in Small(n + 1) |-> IF s = {} THEN 0 ELSE f[Picked(s)] + g[s \ {Picked(s)}]]
  <2>1. ASSUME NEW s \in Small(n + 1), s # {}
        PROVE  h[s] = f[Picked(s)] + h[s \ {Picked(s)}]
    <3> DEFINE r == s \ {Picked(s)}
    <3>1. r \in Small(n) /\ r \in Small(n + 1)
      BY <1>1, <2>1
    <3>2. h[r] = g[r]
      <4>1. g[r] = IF r = {} THEN 0 ELSE f[Picked(r)] + g[r \ {Picked(r)}]
        BY <1>3, <3>1
      <4> QED BY <3>1, <4>1
    <3> QED BY <2>1, <3>2
  <2>2. \A s \in Small(n + 1) : s = {} => h[s] = 0
    OBVIOUS
  <2>3. Upto(n + 1, h)
    BY <2>1, <2>2
  <2> QED BY <2>3
<1> HIDE DEF Upto
<1>4. Bad = {}
  <2> SUFFICES ASSUME Bad # {} PROVE FALSE
    OBVIOUS
  <2>1. PICK m \in Bad : \A n \in Bad : m <= n
    BY NatMin
  <2>2. m # 0 /\ m \in Nat
    BY <1>2, <2>1
  <2>3. m - 1 \in Nat /\ (m - 1) + 1 = m /\ ~(m <= m - 1)
    BY <2>2
  <2>4. m - 1 \notin Bad
    BY <2>1, <2>3
  <2> QED BY <1>3, <2>1, <2>3, <2>4
<1>5. Cardinality(S) \in Nat /\ Small(Cardinality(S)) = SUBSET S
  BY FS_CardinalityType, FS_Subset
<1>6. PICK g : Upto(Cardinality(S), g)
  BY <1>4, <1>5
<1>7. Sums(f, S, g)
  BY <1>5, <1>6 DEF Sums, Upto
<1> QED BY <1>7

\* The sum over a function is computed by such a function.
LEMMA SumIs ==
  ASSUME NEW f, NEW S, IsFiniteSet(S)
  PROVE  \E g : Sums(f, S, g) /\ SumFunctionOnSet(f, S) = g[S]
<1> DEFINE iter == CHOOSE g : g = [s \in SUBSET S |->
                       IF s = {} THEN 0 ELSE f[Picked(s)] + g[s \ {Picked(s)}]]
<1>1. SumFunctionOnSet(f, S) = iter[S]
  BY DEF SumFunctionOnSet, FoldFunctionOnSet, MapThenFoldSet, Picked
<1>2. PICK g : Sums(f, S, g)
  BY SumsExist
<1>3. g = [s \in SUBSET S |-> IF s = {} THEN 0 ELSE f[Picked(s)] + g[s \ {Picked(s)}]]
  BY <1>2 DEF Sums
<1>4. iter = [s \in SUBSET S |-> IF s = {} THEN 0 ELSE f[Picked(s)] + iter[s \ {Picked(s)}]]
  BY <1>3
<1> HIDE DEF iter
<1>5. Sums(f, S, iter)
  BY <1>4 DEF Sums
<1> QED BY <1>1, <1>5

\* Two such functions agree on the sets on which their arguments do.
LEMMA SumsAgree ==
  ASSUME NEW f, NEW S, NEW g, Sums(f, S, g),
         NEW h, NEW T, NEW k, Sums(h, T, k),
         NEW R, R \subseteq S, R \subseteq T, IsFiniteSet(R),
         \A x \in R : f[x] = h[x]
  PROVE  g[R] = k[R]
<1> DEFINE Bad == {n \in Nat : \E s \in SUBSET R : Cardinality(s) = n /\ g[s] # k[s]}
<1>1. Bad = {}
  <2> SUFFICES ASSUME Bad # {} PROVE FALSE
    OBVIOUS
  <2>1. PICK m \in Bad : \A n \in Bad : m <= n
    BY NatMin
  <2>2. PICK s \in SUBSET R : Cardinality(s) = m /\ g[s] # k[s]
    BY <2>1
  <2>3. /\ g[s] = IF s = {} THEN 0 ELSE f[Picked(s)] + g[s \ {Picked(s)}]
        /\ k[s] = IF s = {} THEN 0 ELSE h[Picked(s)] + k[s \ {Picked(s)}]
    BY DEF Sums
  <2>4. s # {} /\ Picked(s) \in s
    BY <2>2, <2>3 DEF Picked
  <2> DEFINE r == s \ {Picked(s)}
  <2>5. IsFiniteSet(s) /\ m \in Nat
    BY FS_Subset, <2>1
  <2>6. Cardinality(r) = m - 1
    BY <2>2, <2>4, <2>5, FS_RemoveElement
  <2>7. Cardinality(r) \in Nat
    BY <2>5, FS_RemoveElement, FS_CardinalityType
  <2>8. m - 1 \notin Bad
    BY <2>1, <2>5
  <2>9. g[r] = k[r]
    BY <2>6, <2>7, <2>8
  <2> QED BY <2>2, <2>3, <2>4, <2>9
<1>2. Cardinality(R) \in Nat
  BY FS_CardinalityType
<1> QED BY <1>1, <1>2

\* The order in which the elements are taken does not matter.
LEMMA SumsAnyOrder ==
  ASSUME NEW S, IsFiniteSet(S), NEW f, \A x \in S : f[x] \in Int, NEW g, Sums(f, S, g)
  PROVE  /\ \A s \in SUBSET S : g[s] \in Int
         /\ \A s \in SUBSET S : \A x \in s : g[s] = f[x] + g[s \ {x}]
<1> DEFINE Fine(s) == g[s] \in Int /\ \A x \in s : g[s] = f[x] + g[s \ {x}]
           Bad == {n \in Nat : \E s \in SUBSET S : Cardinality(s) = n /\ ~Fine(s)}
<1>1. ASSUME NEW s \in SUBSET S
      PROVE  /\ IsFiniteSet(s) /\ Cardinality(s) \in Nat
             /\ \A x \in s : Cardinality(s \ {x}) = Cardinality(s) - 1
             /\ s # {} => Picked(s) \in s
             /\ g[s] = IF s = {} THEN 0 ELSE f[Picked(s)] + g[s \ {Picked(s)}]
  <2>1. IsFiniteSet(s) /\ Cardinality(s) \in Nat
    BY FS_Subset, FS_CardinalityType
  <2>2. s # {} => Picked(s) \in s
    BY DEF Picked
  <2>3. g[s] = IF s = {} THEN 0 ELSE f[Picked(s)] + g[s \ {Picked(s)}]
    BY DEF Sums
  <2> QED BY <2>1, <2>2, <2>3, FS_RemoveElement
<1>2. Bad = {}
  <2> SUFFICES ASSUME Bad # {} PROVE FALSE
    OBVIOUS
  <2>1. PICK m \in Bad : \A n \in Bad : m <= n
    BY NatMin
  <2>2. PICK s \in SUBSET S : Cardinality(s) = m /\ ~Fine(s)
    BY <2>1
  <2>3. s # {}
    <3>1. g[s] = 0 => g[s] \in Int
      OBVIOUS
    <3> QED BY <1>1, <2>2, <3>1
  <2>4. m \in Nat /\ m - 1 < m
    BY <2>1
  <2>5. ASSUME NEW r \in SUBSET S, Cardinality(r) < m PROVE Fine(r)
    <3>1. Cardinality(r) \notin Bad
      BY <1>1, <2>1, <2>4, <2>5
    <3> QED BY <1>1, <3>1
  <2> DEFINE p == Picked(s)
  <2>6. p \in s /\ g[s] = f[p] + g[s \ {p}] /\ f[p] \in Int
    BY <1>1, <2>3
  <2>7. ASSUME NEW x \in s PROVE s \ {x} \in SUBSET S /\ Fine(s \ {x})
    BY <1>1, <2>2, <2>4, <2>5
  <2>8. g[s] \in Int
    <3>1. g[s \ {p}] \in Int
      BY <2>6, <2>7
    <3> HIDE DEF p
    <3> QED BY <2>6, <3>1
  <2>9. ASSUME NEW x \in s PROVE g[s] = f[x] + g[s \ {x}]
    <3>1. CASE x = p
      BY <2>6, <3>1
    <3>2. CASE x # p
      <4> DEFINE r == (s \ {x}) \ {p}
      <4>1. r = (s \ {p}) \ {x} /\ p \in s \ {x} /\ x \in s \ {p}
        BY <2>6, <3>2
      <4>2. g[s \ {x}] = f[p] + g[r]
        BY <2>7, <4>1
      <4>3. g[s \ {p}] = f[x] + g[r]
        BY <2>6, <2>7, <4>1
      <4>4. r \in SUBSET S /\ Cardinality(r) < m
        <5>1. Cardinality(s \ {x}) = m - 1
          BY <1>1, <2>2
        <5>2. \A y \in s \ {x} : Cardinality((s \ {x}) \ {y}) = Cardinality(s \ {x}) - 1
          BY <1>1, <2>7
        <5>3. Cardinality(r) = Cardinality(s \ {x}) - 1
          BY <4>1, <5>2
        <5>4. m - 1 \in Int /\ (m - 1) - 1 < m
          BY <2>4
        <5>5. r \in SUBSET S
          OBVIOUS
        <5> QED BY <5>1, <5>3, <5>4, <5>5
      <4>5. g[r] \in Int /\ f[x] \in Int
        BY <2>5, <4>4
      <4> HIDE DEF p, r
      <4> QED BY <2>6, <4>2, <4>3, <4>5
    <3> QED BY <3>1, <3>2
  <2> QED BY <2>2, <2>8, <2>9
<1>3. \A s \in SUBSET S : Fine(s)
  BY <1>1, <1>2
<1> QED BY <1>3

\* Among the sums over a set is the one that takes a given element last.
LEMMA SumsTake ==
  ASSUME NEW S, IsFiniteSet(S), NEW f, \A y \in S : f[y] \in Int, NEW g, Sums(f, S, g),
         NEW x \in S
  PROVE  g[S] = f[x] + g[S \ {x}]
  BY SumsAnyOrder

\* What the proofs about sums cite.
LEMMA SumEmpty == ASSUME NEW f PROVE SumFunctionOnSet(f, {}) = 0
<1>1. PICK g : Sums(f, {}, g) /\ SumFunctionOnSet(f, {}) = g[{}]
  BY SumIs, FS_EmptySet
<1> QED BY <1>1 DEF Sums

\* A sum of integers is one.
LEMMA SumInt ==
  ASSUME NEW S, IsFiniteSet(S), NEW f, \A x \in S : f[x] \in Int
  PROVE  SumFunctionOnSet(f, S) \in Int
<1>1. PICK g : Sums(f, S, g) /\ SumFunctionOnSet(f, S) = g[S]
  BY SumIs
<1> QED BY <1>1, SumsAnyOrder

\* A sum without one of its elements.
LEMMA SumRemove ==
  ASSUME NEW S, IsFiniteSet(S), NEW f, \A x \in S : f[x] \in Int, NEW x \in S
  PROVE  SumFunctionOnSet(f, S \ {x}) = SumFunctionOnSet(f, S) - f[x]
<1>1. PICK g : Sums(f, S, g) /\ SumFunctionOnSet(f, S) = g[S]
  BY SumIs
<1>2. IsFiniteSet(S \ {x})
  BY FS_RemoveElement
<1>3. PICK h : Sums(f, S \ {x}, h) /\ SumFunctionOnSet(f, S \ {x}) = h[S \ {x}]
  BY <1>2, SumIs
<1>4. h[S \ {x}] = g[S \ {x}]
  BY <1>1, <1>2, <1>3, SumsAgree
<1>5. g[S \ {x}] \in Int
  BY <1>1, SumsAnyOrder
<1>6. g[S] = f[x] + g[S \ {x}]
  <2>1. Sums(f, S, g)
    BY <1>1
  <2> QED BY <2>1, SumsTake
<1>7. f[x] \in Int
  OBVIOUS
<1> QED BY <1>1, <1>3, <1>4, <1>5, <1>6, <1>7

\* A sum with one more element.
LEMMA SumAdd ==
  ASSUME NEW S, IsFiniteSet(S), NEW x, x \notin S, NEW f, \A y \in S \cup {x} : f[y] \in Int
  PROVE  SumFunctionOnSet(f, S \cup {x}) = SumFunctionOnSet(f, S) + f[x]
<1>1. IsFiniteSet(S \cup {x}) /\ (S \cup {x}) \ {x} = S
  BY FS_AddElement
<1>2. SumFunctionOnSet(f, S) = SumFunctionOnSet(f, S \cup {x}) - f[x]
  BY <1>1, SumRemove
<1>3. SumFunctionOnSet(f, S \cup {x}) \in Int /\ f[x] \in Int
  BY <1>1, SumInt
<1> QED BY <1>2, <1>3

\* The sum depends only on the values of the function on the set.
LEMMA SumSame ==
  ASSUME NEW S, IsFiniteSet(S), NEW f, NEW h, \A x \in S : f[x] = h[x]
  PROVE  SumFunctionOnSet(f, S) = SumFunctionOnSet(h, S)
<1>1. PICK g : Sums(f, S, g) /\ SumFunctionOnSet(f, S) = g[S]
  BY SumIs
<1>2. PICK k : Sums(h, S, k) /\ SumFunctionOnSet(h, S) = k[S]
  BY SumIs
<1> QED BY <1>1, <1>2, SumsAgree

----------------------------------------------------------------------------
(* Recursion and induction over 0 .. n *)

\* A set of numbers that has 0 and each next number has them all.
LEMMA Climb ==
  ASSUME NEW n \in Nat, NEW T, 0 \in T, \A i \in 1 .. n : i - 1 \in T => i \in T
  PROVE  \A i \in 0 .. n : i \in T
<1> DEFINE Bad == {i \in 0 .. n : i \notin T}
<1> SUFFICES ASSUME Bad # {} PROVE FALSE
  OBVIOUS
<1>1. Bad \in SUBSET Nat
  OBVIOUS
<1>2. PICK m \in Bad : \A i \in Bad : m <= i
  <2> HIDE DEF Bad
  <2> QED BY <1>1, NatMin
<1>3. m \in 1 .. n
  BY <1>2
<1>4. m - 1 \in 0 .. n /\ m - 1 < m
  BY <1>3
<1>5. m - 1 \notin Bad
  <2> HIDE DEF Bad
  <2> QED BY <1>1, <1>2, <1>4
<1> QED BY <1>2, <1>3, <1>4, <1>5

\* f starts with base and takes the n steps of g.
Iterates(f, n, base, g) == f[0] = base /\ \A i \in 1 .. n : f[i] = g[i][f[i - 1]]

\* The function that starts with base and takes step after step exists.
LEMMA Recursion ==
  ASSUME NEW S, NEW n \in Nat, NEW base \in S, NEW g \in [1 .. n -> [S -> S]]
  PROVE  \E f \in [0 .. n -> S] : Iterates(f, n, base, g)
<1> DEFINE Upto(m, f) == Iterates(f, m, base, g)
           T == {m \in 0 .. n : \E f \in [0 .. m -> S] : Upto(m, f)}
<1>1. 0 \in T
  <2> DEFINE f == [i \in 0 .. 0 |-> base]
  <2>1. f \in [0 .. 0 -> S] /\ Upto(0, f)
    BY DEF Iterates
  <2> HIDE DEF f, Upto
  <2>2. \E h \in [0 .. 0 -> S] : Upto(0, h)
    BY <2>1
  <2> QED BY <2>2
<1>2. ASSUME NEW m \in 1 .. n, m - 1 \in T PROVE m \in T
  <2>1. PICK f \in [0 .. m - 1 -> S] : Upto(m - 1, f)
    BY <1>2
  <2> DEFINE h == [i \in 0 .. m |-> IF i < m THEN f[i] ELSE g[m][f[m - 1]]]
  <2>2. f[m - 1] \in S /\ g[m][f[m - 1]] \in S
    BY <2>1
  <2>3. h \in [0 .. m -> S]
    BY <2>1, <2>2
  <2>4. \A i \in 0 .. m - 1 : h[i] = f[i]
    OBVIOUS
  <2>5. h[m] = g[m][h[m - 1]]
    BY <2>4
  <2>6. h[0] = base
    <3>1. 0 \in 0 .. m - 1
      OBVIOUS
    <3> HIDE DEF h
    <3> QED BY <2>1, <2>4, <3>1 DEF Iterates
  <2>7. ASSUME NEW i \in 1 .. m PROVE h[i] = g[i][h[i - 1]]
    <3>1. CASE i = m
      BY <3>1, <2>5
    <3>2. CASE i # m
      <4>1. i \in 1 .. m - 1 /\ i - 1 \in 0 .. m - 1
        BY <3>2
      <4> HIDE DEF h
      <4>2. h[i] = f[i] /\ h[i - 1] = f[i - 1]
        BY <4>1, <2>4
      <4> QED BY <4>1, <4>2, <2>1 DEF Iterates
    <3> QED BY <3>1, <3>2
  <2> HIDE DEF h
  <2>8. Upto(m, h)
    BY <2>6, <2>7 DEF Iterates
  <2> QED BY <2>3, <2>8
<1> HIDE DEF T
<1>3. \A i \in 0 .. n : i \in T
  BY <1>1, <1>2, Climb
<1>4. n \in T
  BY <1>3
<1> QED BY <1>4 DEF T
=============================================================================
