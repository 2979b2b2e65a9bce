---------------------------- MODULE Fitz_proofs ----------------------------
(***************************************************************************)
(* Proofs about two parts of fitz (source/fitz).                           *)
(*                                                                         *)
(* The hash table: it is sound for every hash function, number of threads  *)
(* and size.  First the probe, then what each operation does to a sound    *)
(* table, then the actions.                                                *)
(*                                                                         *)
(* The exception stack: it implements structured exception handling, for a *)
(* stack of any size and blocks nested to any depth.                       *)
(***************************************************************************)
EXTENDS FzHash, FzError, LibraryLemmas

----------------------------------------------------------------------------
(* Slots in a circle *)

\* Whether q is passed on the way from a to p, p itself excluded.
On(a, q, p) == IF a <= p THEN a <= q /\ q < p ELSE a <= q \/ q < p

\* How many steps lead from a to q in a circle of n.
Dist(n, a, q) == IF a <= q THEN q - a ELSE q + n - a

\* The slot j steps from a.
Around(n, a, j) == IF a + j < n THEN a + j ELSE a + j - n

\* A remainder is below the divisor.
LEMMA ModRange ==
  ASSUME NEW n \in Nat, n > 0, NEW h \in Nat
  PROVE  h % n \in 0 .. n - 1
  OBVIOUS

\* Division with a remainder.
LEMMA ModDivides ==
  ASSUME NEW n \in Nat, n > 0, NEW h \in Nat
  PROVE  h = n * (h \div n) + (h % n) /\ h \div n \in Nat
  OBVIOUS

\* The remainder is the only number below n that differs by a multiple of n.
LEMMA ModUnique ==
  ASSUME NEW n \in Nat, n > 0, NEW r \in 0 .. n - 1, NEW q \in Int
  PROVE  (n * q + r) % n = r
  OBVIOUS

\* Products of integers.
LEMMA TimesInt ==
  ASSUME NEW a \in Int, NEW b \in Int
  PROVE  a * b \in Int
  OBVIOUS

\* Products of integers distribute over the next one.
LEMMA TimesNext ==
  ASSUME NEW a \in Int, NEW b \in Int
  PROVE  a * (b + 1) = a * b + a
  OBVIOUS

\* Where the probe of hash.c is after j steps: it wraps round at most once.
LEMMA ModAround ==
  ASSUME NEW n \in Nat, n > 0, NEW h \in Nat, NEW j \in 0 .. n - 1
  PROVE  (h + j) % n = Around(n, h % n, j)
<1> DEFINE q == h \div n
           r == h % n
<1>1. h = n * q + r /\ q \in Nat /\ r \in 0 .. n - 1
  BY ModDivides, ModRange
<1> HIDE DEF q, r
<1>2. CASE r + j < n
  <2>1. r + j \in 0 .. n - 1
    BY <1>1, <1>2
  <2>2. (n * q + (r + j)) % n = r + j
    BY <1>1, <2>1, ModUnique
  <2>3. n * q \in Int
    BY <1>1, TimesInt
  <2>4. h + j = n * q + (r + j)
    BY <1>1, <2>3
  <2>5. (h + j) % n = r + j
    BY <2>2, <2>4
  <2> QED BY <1>2, <2>5 DEF r, Around
<1>3. CASE ~ (r + j < n)
  <2>1. r + j - n \in 0 .. n - 1
    BY <1>1, <1>3
  <2>2. n \in Int /\ q \in Int /\ q + 1 \in Int
    BY <1>1
  <2>3. (n * (q + 1) + (r + j - n)) % n = r + j - n
    BY <2>1, <2>2, ModUnique
  <2>4. n * q \in Int /\ n * (q + 1) = n * q + n
    BY <2>2, TimesInt, TimesNext
  <2>5. h + j = n * (q + 1) + (r + j - n)
    BY <1>1, <2>4
  <2>6. (h + j) % n = r + j - n
    BY <2>3, <2>5
  <2> QED BY <1>3, <2>6 DEF r, Around
<1> QED BY <1>2, <1>3

\* Steps and distances are inverse to each other.
LEMMA AroundDist ==
  ASSUME NEW n \in Nat, n > 0, NEW a \in 0 .. n - 1
  PROVE  /\ \A j \in 0 .. n - 1 : Around(n, a, j) \in 0 .. n - 1 /\ Dist(n, a, Around(n, a, j)) = j
         /\ \A q \in 0 .. n - 1 : Dist(n, a, q) \in 0 .. n - 1 /\ Around(n, a, Dist(n, a, q)) = q
  BY DEF Around, Dist

\* What is passed is nearer.
LEMMA OnDist ==
  ASSUME NEW n \in Nat, n > 0, NEW a \in 0 .. n - 1, NEW p \in 0 .. n - 1, NEW q \in 0 .. n - 1
  PROVE  On(a, q, p) <=> Dist(n, a, q) < Dist(n, a, p)
  BY DEF On, Dist

----------------------------------------------------------------------------
(* The probe *)

Home(k, n) == hash[k] % n
Table(n) == [0 .. n - 1 -> Entry \cup {None}]
Hashes == hash \in [Keys -> HashValues]

\* Some probe for a key would stop here.
Stops(e, p, k) == e[p] = None \/ e[p].key = k

\* Where the probe for k stops: nothing before it would have stopped it.
StopsFirst(e, n, k, p) ==
    /\ p \in 0 .. n - 1 /\ Stops(e, p, k)
    /\ \A q \in 0 .. n - 1 : On(Home(k, n), q, p) => ~ Stops(e, q, k)

\* No table is without an empty slot, or the probes would not end.
Gap(e, n) == \E p \in 0 .. n - 1 : e[p] = None

\* A home position is a slot.
LEMMA HomeSlot ==
  ASSUME NEW n \in Nat, n > 0, Hashes, NEW k \in Keys
  PROVE  Home(k, n) \in 0 .. n - 1 /\ hash[k] \in Nat
<1>1. hash[k] \in Nat
  BY HashAssumption DEF Hashes
<1> QED BY <1>1, ModRange DEF Home

\* The probe of do_hash_insert, fz_hash_find and fz_hash_remove stops at the
\* first slot that is empty or has the key, if there is a gap.
LEMMA ProbeStops ==
  ASSUME NEW n \in Nat, n > 0, Hashes, NEW k \in Keys, NEW e, Gap(e, n)
  PROVE  StopsFirst(e, n, k, Probe(e, n, k))
<1> DEFINE a == Home(k, n)
           J == ProbeOffsets(e, n, k)
           m == CHOOSE j \in J : \A i \in J : j <= i
<1>1. a \in 0 .. n - 1 /\ hash[k] \in Nat
  BY HomeSlot
<1>2. \A j \in 0 .. n - 1 : (hash[k] + j) % n = Around(n, a, j)
  BY <1>1, ModAround DEF Home
<1>3. \A j \in 0 .. n - 1 : j \in J <=> Stops(e, Around(n, a, j), k)
  BY <1>2 DEF ProbeOffsets, Stops
<1>4. J \in SUBSET Nat /\ J \subseteq 0 .. n - 1
  BY DEF ProbeOffsets
<1>5. J # {}
  <2>1. PICK p \in 0 .. n - 1 : e[p] = None
    BY DEF Gap
  <2>2. Dist(n, a, p) \in 0 .. n - 1 /\ Around(n, a, Dist(n, a, p)) = p
    BY <1>1, AroundDist
  <2> QED BY <2>1, <2>2, <1>3 DEF Stops
<1>6. m \in J /\ \A i \in J : m <= i
  <2> HIDE DEF J
  <2> QED BY <1>4, <1>5, NatMin
<1>7. Probe(e, n, k) = Around(n, a, m)
  <2>1. m \in 0 .. n - 1
    BY <1>4, <1>6
  <2>2. Probe(e, n, k) = (hash[k] + m) % n
    BY DEF Probe
  <2> QED BY <1>2, <2>1, <2>2
<1> HIDE DEF J, m
<1>8. m \in 0 .. n - 1
  BY <1>4, <1>6
<1>9. Around(n, a, m) \in 0 .. n - 1 /\ Dist(n, a, Around(n, a, m)) = m
  BY <1>1, <1>8, AroundDist
<1> HIDE DEF a
<1>10. ASSUME NEW q \in 0 .. n - 1, On(a, q, Around(n, a, m)), Stops(e, q, k)
       PROVE  FALSE
  <2>1. Dist(n, a, q) \in 0 .. n - 1 /\ Around(n, a, Dist(n, a, q)) = q
    BY <1>1, AroundDist
  <2>2. Dist(n, a, q) < m
    BY <1>1, <1>9, <1>10, OnDist
  <2>3. Dist(n, a, q) \in J
    BY <1>3, <1>10, <2>1
  <2> QED BY <1>6, <1>8, <2>1, <2>2, <2>3
<1>11. Stops(e, Around(n, a, m), k)
  BY <1>3, <1>6, <1>8
<1> QED BY <1>7, <1>9, <1>10, <1>11 DEF StopsFirst, a

\* There is one such slot.
LEMMA StopsOnce ==
  ASSUME NEW n \in Nat, n > 0, Hashes, NEW k \in Keys, NEW e,
         NEW p, NEW q, StopsFirst(e, n, k, p), StopsFirst(e, n, k, q)
  PROVE  p = q
<1>1. Home(k, n) \in 0 .. n - 1
  BY HomeSlot
<1>2. p \in 0 .. n - 1 /\ q \in 0 .. n - 1
  BY DEF StopsFirst
<1>3. p = q \/ On(Home(k, n), p, q) \/ On(Home(k, n), q, p)
  BY <1>1, <1>2 DEF On
<1> QED BY <1>2, <1>3 DEF StopsFirst

----------------------------------------------------------------------------
(* Sound tables *)

\* Every entry is on its probe path.
Path(e, n) ==
    \A p, q \in 0 .. n - 1 : e[p] # None /\ On(Home(e[p].key, n), q, p) => e[q] # None

\* No key has two entries.
Unique(e, n) ==
    \A p, q \in 0 .. n - 1 : e[p] # None /\ e[q] # None /\ e[p].key = e[q].key => p = q

Sound(e, n) == e \in Table(n) /\ Path(e, n) /\ Unique(e, n)

Full(e, n) == {p \in 0 .. n - 1 : e[p] # None}

Has(e, n, c) == \E p \in 0 .. n - 1 : e[p] = c

\* What fz_hash_find returns in the table e of size n.
Value(e, n, k) == LET c == e[Probe(e, n, k)] IN IF c = None THEN None ELSE c.val

\* An entry is a key with a value, and none of them is None.
LEMMA EntryIs ==
  ASSUME NEW c \in Entry
  PROVE  /\ c # None /\ c.key \in Keys /\ c.val \in Vals /\ c.val # None
         /\ c = [key |-> c.key, val |-> c.val]
<1>1. c.key \in Keys /\ c.val \in Vals /\ c = [key |-> c.key, val |-> c.val]
  BY DEF Entry
<1>2. c # None
  BY <1>1, NoRecordAssumption
<1> QED BY <1>1, <1>2, HashAssumption

\* What a full slot of a table holds.
LEMMA SlotIs ==
  ASSUME NEW n \in Nat, NEW e \in Table(n), NEW p \in 0 .. n - 1, e[p] # None
  PROVE  e[p] \in Entry /\ e[p].key \in Keys /\ e[p].val \in Vals /\ e[p].val # None
<1>1. e[p] \in Entry
  BY DEF Table
<1> QED BY <1>1, EntryIs

\* The probe for the key of an entry stops at the entry.
LEMMA Reached ==
  ASSUME NEW n \in Nat, n > 0, Hashes, NEW e, Sound(e, n), Gap(e, n),
         NEW p \in 0 .. n - 1, e[p] # None
  PROVE  Probe(e, n, e[p].key) = p
<1> DEFINE k == e[p].key
<1>1. k \in Keys
  BY SlotIs DEF Sound
<1>2. StopsFirst(e, n, k, Probe(e, n, k))
  BY <1>1, ProbeStops
<1>3. Home(k, n) \in 0 .. n - 1
  BY <1>1, HomeSlot
<1>4. ASSUME NEW q \in 0 .. n - 1, On(Home(k, n), q, p) PROVE ~ Stops(e, q, k)
  <2>1. q # p
    BY <1>3, <1>4 DEF On
  <2>2. e[q] # None
    BY <1>4 DEF Sound, Path
  <2> QED BY <2>1, <2>2 DEF Sound, Unique, Stops
<1>5. StopsFirst(e, n, k, p)
  BY <1>4 DEF StopsFirst, Stops
<1> HIDE DEF k
<1>6. Probe(e, n, k) = p
  BY <1>1, <1>2, <1>5, StopsOnce
<1> QED BY <1>6 DEF k

\* The probe for an absent key stops at an empty slot, and for a present key
\* at its entry.
LEMMA ProbeFinds ==
  ASSUME NEW n \in Nat, n > 0, Hashes, NEW e, Sound(e, n), Gap(e, n), NEW k \in Keys
  PROVE  /\ Probe(e, n, k) \in 0 .. n - 1
         /\ e[Probe(e, n, k)] = None \/ e[Probe(e, n, k)].key = k
         /\ e[Probe(e, n, k)] = None => \A p \in 0 .. n - 1 : e[p] # None => e[p].key # k
<1> DEFINE pos == Probe(e, n, k)
<1>1. StopsFirst(e, n, k, pos)
  BY ProbeStops
<1>2. ASSUME NEW p \in 0 .. n - 1, e[p] # None, e[p].key = k PROVE pos = p
  BY <1>2, Reached
<1> QED BY <1>1, <1>2 DEF StopsFirst, Stops

\* fz_hash_find returns the value of the entry of its key, or none.
LEMMA ValueIs ==
  ASSUME NEW n \in Nat, n > 0, Hashes, NEW e, Sound(e, n), Gap(e, n), NEW k \in Keys
  PROVE  \/ /\ Value(e, n, k) = None
            /\ \A p \in 0 .. n - 1 : e[p] # None => e[p].key # k
         \/ /\ Value(e, n, k) # None
            /\ \E p \in 0 .. n - 1 : e[p] # None /\ e[p].key = k /\ Value(e, n, k) = e[p].val
<1> DEFINE pos == Probe(e, n, k)
<1>1. /\ pos \in 0 .. n - 1
      /\ e[pos] = None \/ e[pos].key = k
      /\ e[pos] = None => \A p \in 0 .. n - 1 : e[p] # None => e[p].key # k
  BY ProbeFinds
<1>2. CASE e[pos] = None
  BY <1>1, <1>2 DEF Value
<1>3. CASE e[pos] # None
  <2>1. e[pos].val # None
    BY <1>1, <1>3, SlotIs DEF Sound
  <2>2. Value(e, n, k) = e[pos].val
    BY <1>3 DEF Value
  <2> HIDE DEF pos
  <2> QED BY <1>1, <1>3, <2>1, <2>2
<1> QED BY <1>2, <1>3

\* The value of a key is that of its entry.
LEMMA ValueOf ==
  ASSUME NEW n \in Nat, n > 0, Hashes, NEW e, Sound(e, n), Gap(e, n),
         NEW p \in 0 .. n - 1, e[p] # None
  PROVE  Value(e, n, e[p].key) = e[p].val
  BY Reached DEF Value

\* Tables with the same entries of a key give it the same value.
LEMMA ValueSame ==
  ASSUME NEW n \in Nat, n > 0, Hashes, NEW e, Sound(e, n), Gap(e, n),
         NEW m \in Nat, m > 0, NEW f, Sound(f, m), Gap(f, m), NEW k \in Keys,
         \A c \in Entry : c.key = k => (Has(e, n, c) <=> Has(f, m, c))
  PROVE  Value(e, n, k) = Value(f, m, k)
<1>1. CASE \A p \in 0 .. n - 1 : e[p] # None => e[p].key # k
  <2>1. ASSUME NEW q \in 0 .. m - 1, f[q] # None, f[q].key = k PROVE FALSE
    <3>1. f[q] \in Entry
      BY <2>1, SlotIs DEF Sound
    <3>2. Has(f, m, f[q])
      BY DEF Has
    <3>3. PICK p \in 0 .. n - 1 : e[p] = f[q]
      BY <3>1, <3>2, <2>1 DEF Has
    <3> QED BY <1>1, <2>1, <3>3
  <2>2. Value(e, n, k) = None
    BY <1>1, ValueIs
  <2>3. Value(f, m, k) = None
    BY <2>1, ValueIs
  <2> QED BY <2>2, <2>3
<1>2. CASE ~ \A p \in 0 .. n - 1 : e[p] # None => e[p].key # k
  <2>1. PICK p \in 0 .. n - 1 : e[p] # None /\ e[p].key = k
    BY <1>2
  <2>2. e[p] \in Entry
    BY <2>1, SlotIs DEF Sound
  <2>3. Has(e, n, e[p])
    BY DEF Has
  <2>4. PICK q \in 0 .. m - 1 : f[q] = e[p]
    BY <2>1, <2>2, <2>3 DEF Has
  <2>5. Value(e, n, k) = e[p].val
    BY <2>1, ValueOf
  <2>6. Value(f, m, k) = f[q].val
    BY <2>1, <2>4, ValueOf
  <2> QED BY <2>4, <2>5, <2>6
<1> QED BY <1>1, <1>2

----------------------------------------------------------------------------
(* Insertion *)

\* An entry of an absent key goes where its probe stops (do_hash_insert).
LEMMA PlaceOK ==
  ASSUME NEW n \in Nat, n > 0, Hashes, NEW e, Sound(e, n), Gap(e, n), NEW c \in Entry,
         e[Probe(e, n, c.key)] = None
  PROVE  /\ Sound(Place(e, n, c), n)
         /\ Probe(e, n, c.key) \in (0 .. n - 1) \ Full(e, n)
         /\ Full(Place(e, n, c), n) = Full(e, n) \cup {Probe(e, n, c.key)}
         /\ \A d \in Entry : Has(Place(e, n, c), n, d) <=> d = c \/ Has(e, n, d)
<1> DEFINE k == c.key
           pos == Probe(e, n, k)
           f == Place(e, n, c)
<1>1. c # None /\ k \in Keys
  BY EntryIs
<1>2. StopsFirst(e, n, k, pos)
  BY <1>1, ProbeStops
<1>3. pos \in 0 .. n - 1
  BY <1>2 DEF StopsFirst
<1>4. \A p \in 0 .. n - 1 : e[p] # None => e[p].key # k
  BY <1>1, ProbeFinds
<1>5. e \in Table(n)
  BY DEF Sound
<1>6. f \in Table(n) /\ f[pos] = c /\ \A p \in (0 .. n - 1) \ {pos} : f[p] = e[p]
  <2>1. f = [e EXCEPT ![pos] = c]
    BY DEF Place
  <2> HIDE DEF pos, f
  <2> QED BY <1>3, <1>5, <2>1 DEF Table
<1>7. e[pos] = None
  OBVIOUS
<1>8. Home(k, n) \in 0 .. n - 1
  BY <1>1, HomeSlot
<1> HIDE DEF pos, f, k
<1>9. Path(f, n)
  <2> SUFFICES ASSUME NEW p \in 0 .. n - 1, NEW q \in 0 .. n - 1, f[p] # None,
                      On(Home(f[p].key, n), q, p)
               PROVE  f[q] # None
    BY DEF Path
  <2>1. CASE q = pos
    BY <2>1, <1>1, <1>6
  <2>2. CASE q # pos /\ p = pos
    <3>1. On(Home(k, n), q, pos)
      BY <2>2, <1>6 DEF k
    <3>2. e[q] # None
      BY <3>1, <1>2 DEF StopsFirst, Stops
    <3> QED BY <3>2, <2>2, <1>6
  <2>3. CASE q # pos /\ p # pos
    <3>1. f[p] = e[p] /\ f[q] = e[q]
      BY <2>3, <1>6
    <3> QED BY <3>1 DEF Sound, Path
  <2> QED BY <2>1, <2>2, <2>3
<1>10. Unique(f, n)
  <2> SUFFICES ASSUME NEW p \in 0 .. n - 1, NEW q \in 0 .. n - 1, f[p] # None, f[q] # None,
                      f[p].key = f[q].key
               PROVE  p = q
    BY DEF Unique
  <2>1. CASE p # pos /\ q # pos
    <3>1. f[p] = e[p] /\ f[q] = e[q]
      BY <2>1, <1>6
    <3> QED BY <3>1 DEF Sound, Unique
  <2>2. CASE p = pos /\ q # pos
    <3>1. f[p].key = k /\ f[q] = e[q]
      BY <2>2, <1>6 DEF k
    <3> QED BY <3>1, <1>4
  <2>3. CASE q = pos /\ p # pos
    <3>1. f[q].key = k /\ f[p] = e[p]
      BY <2>3, <1>6 DEF k
    <3> QED BY <3>1, <1>4
  <2> QED BY <2>1, <2>2, <2>3
<1>11. \A d \in Entry : Has(f, n, d) <=> d = c \/ Has(e, n, d)
  <2> SUFFICES ASSUME NEW d \in Entry PROVE Has(f, n, d) <=> d = c \/ Has(e, n, d)
    OBVIOUS
  <2>1. d # None
    BY EntryIs
  <2> QED BY <2>1, <1>3, <1>6, <1>7 DEF Has
<1>12. Full(f, n) = Full(e, n) \cup {pos} /\ pos \notin Full(e, n)
  BY <1>1, <1>3, <1>6, <1>7 DEF Full
<1> QED BY <1>3, <1>6, <1>9, <1>10, <1>11, <1>12 DEF Sound, pos, f, k

----------------------------------------------------------------------------
(* Removal *)

\* The slot j steps behind a slot, as do_removal computes it.
LEMMA WrapIs ==
  ASSUME NEW n \in Nat, n > 0, NEW a \in 0 .. n - 1, NEW j \in 0 .. n - 1
  PROVE  (a + j) % n = Around(n, a, j)
<1>1. (n * 0 + a) % n = a
  BY ModUnique
<1>2. n * 0 + a = a
  OBVIOUS
<1>3. a % n = a
  BY <1>1, <1>2
<1> QED BY <1>3, ModAround

\* The three comparisons of do_removal say that the hole is on the probe path
\* of the entry at look.
LEMMA MayMoveIs ==
  ASSUME NEW origin \in Nat, NEW hole \in Nat, NEW look \in Nat
  PROVE  MayMove(origin, hole, look) <=> On(origin, hole, look)
  BY DEF MayMove, On

\* A path over h to a slot that comes before h, or after g, also passes g.
LEMMA OnOver ==
  ASSUME NEW n \in Nat, n > 0, NEW first \in 0 .. n - 1, NEW a \in 0 .. n - 1,
         NEW h \in 0 .. n - 1, NEW g \in 0 .. n - 1, NEW p \in 0 .. n - 1,
         On(a, h, p), Dist(n, first, h) < Dist(n, first, g),
         Dist(n, first, p) < Dist(n, first, h) \/ Dist(n, first, g) < Dist(n, first, p)
  PROVE  On(a, g, p)
  BY DEF On, Dist

\* The run behind a removed entry ends before it comes round.
LEMMA RunEnds ==
  ASSUME size \in Nat, size > 0, NEW e, NEW first \in 0 .. size - 1,
         e[first] # None, Gap(e, size)
  PROVE  /\ RunLength(e, first) \in Nat /\ RunLength(e, first) + 1 <= size - 1
         /\ \A j \in 1 .. RunLength(e, first) : e[Around(size, first, j)] # None
         /\ e[Around(size, first, RunLength(e, first) + 1)] = None
<1> DEFINE n == size
           D == {d \in 1 .. n - 1 : e[Around(n, first, d)] = None}
           Ends(l) == /\ \A j \in 1 .. l : e[(first + j) % n] # None
                      /\ l = n - 1 \/ e[(first + l + 1) % n] = None
           run == RunLength(e, first)
<1>1. \A j \in 0 .. n - 1 : (first + j) % n = Around(n, first, j)
  BY WrapIs
<1>2. D # {} /\ D \in SUBSET Nat
  <2>1. PICK p \in 0 .. n - 1 : e[p] = None
    BY DEF Gap
  <2>2. Dist(n, first, p) \in 0 .. n - 1 /\ Around(n, first, Dist(n, first, p)) = p
    BY AroundDist
  <2>3. Dist(n, first, p) # 0
    BY <2>1 DEF Dist
  <2> QED BY <2>1, <2>2, <2>3
<1>3. PICK m \in D : \A d \in D : m <= d
  <2> HIDE DEF D
  <2> QED BY <1>2, NatMin
<1>4. m \in 1 .. n - 1 /\ e[Around(n, first, m)] = None
  OBVIOUS
<1>5. \A j \in 1 .. m - 1 : e[Around(n, first, j)] # None
  <2> SUFFICES ASSUME NEW j \in 1 .. m - 1, e[Around(n, first, j)] = None PROVE FALSE
    OBVIOUS
  <2>1. j \in D /\ j < m
    BY <1>4
  <2> HIDE DEF D
  <2> QED BY <2>1, <1>2, <1>3
<1> HIDE DEF D
<1>6. Ends(m - 1)
  <2>1. \A j \in 1 .. m - 1 : (first + j) % n = Around(n, first, j)
    BY <1>1, <1>4
  <2>2. first + (m - 1) + 1 = first + m
    BY <1>4
  <2>3. (first + m) % n = Around(n, first, m)
    BY <1>1, <1>4
  <2> QED BY <1>4, <1>5, <2>1, <2>2, <2>3
<1>7. run = CHOOSE l \in 0 .. n - 1 : Ends(l)
  BY DEF RunLength
<1>8. run \in 0 .. n - 1 /\ Ends(run)
  <2>1. m - 1 \in 0 .. n - 1
    BY <1>4
  <2> HIDE DEF Ends, run
  <2> QED BY <1>6, <1>7, <2>1
<1> HIDE DEF run
<1>9. \A j \in 1 .. run : e[Around(n, first, j)] # None
  <2> SUFFICES ASSUME NEW j \in 1 .. run PROVE e[Around(n, first, j)] # None
    OBVIOUS
  <2>1. j \in 0 .. n - 1
    BY <1>8
  <2> QED BY <1>1, <1>8, <2>1
<1>10. run # n - 1
  <2> SUFFICES ASSUME run = n - 1 PROVE FALSE
    OBVIOUS
  <2>1. m \in 1 .. run
    BY <1>4
  <2> QED BY <1>4, <1>9, <2>1
<1>11. run + 1 \in 0 .. n - 1 /\ first + run + 1 = first + (run + 1)
  BY <1>8, <1>10
<1>12. e[Around(n, first, run + 1)] = None
  BY <1>1, <1>8, <1>10, <1>11
<1> QED BY <1>8, <1>9, <1>11, <1>12 DEF run

\* The loop of do_removal after j steps behind first: all slots up to there
\* are full but for the hole, the rest is as it was, and only the hole
\* interrupts probe paths, none of an entry the loop has passed behind it.
ShiftInv(e, first, j, s) ==
    /\ s.e \in Table(size) /\ s.hole \in 0 .. size - 1 /\ s.e[s.hole] = None
    /\ Dist(size, first, s.hole) <= j
    /\ \A q \in 0 .. size - 1 : Dist(size, first, q) > j => s.e[q] = e[q]
    /\ \A q \in 0 .. size - 1 : Dist(size, first, q) <= j /\ q # s.hole => s.e[q] # None
    /\ Unique(s.e, size)
    /\ \A p, q \in 0 .. size - 1 :
          s.e[p] # None /\ On(Home(s.e[p].key, size), q, p) /\ s.e[q] = None => q = s.hole
    /\ \A p \in 0 .. size - 1 :
          s.e[p] # None /\ Dist(size, first, s.hole) < Dist(size, first, p) /\ Dist(size, first, p) <= j
             => ~ On(Home(s.e[p].key, size), s.hole, p)
    /\ \A c \in Entry : Has(s.e, size, c) <=> Has(e, size, c) /\ c # e[first]

\* The loop begins with a hole in the place of the entry.
LEMMA ShiftBegins ==
  ASSUME size \in Nat, size > 0, Hashes, NEW e, Sound(e, size), NEW first \in 0 .. size - 1,
         e[first] # None
  PROVE  ShiftInv(e, first, 0, [e |-> [e EXCEPT ![first] = None], hole |-> first])
<1> DEFINE n == size
           f == [e EXCEPT ![first] = None]
           s == [e |-> f, hole |-> first]
<1>1. s.e = f /\ s.hole = first
  OBVIOUS
<1>2. e \in Table(n)
  BY DEF Sound
<1>3. f \in Table(n) /\ f[first] = None /\ \A q \in (0 .. n - 1) \ {first} : f[q] = e[q]
  BY <1>2 DEF Table
<1> HIDE DEF f, s
<1>4. Dist(n, first, first) = 0
  BY DEF Dist
<1>5. \A q \in 0 .. n - 1 : Dist(n, first, q) \in 0 .. n - 1 /\ (Dist(n, first, q) <= 0 => q = first)
  BY DEF Dist
<1>6. \A q \in 0 .. n - 1 : Dist(n, first, q) > 0 => f[q] = e[q]
  BY <1>3, <1>4
<1>7. Unique(f, n)
  BY <1>3 DEF Sound, Unique
<1>8. ASSUME NEW p \in 0 .. n - 1, NEW q \in 0 .. n - 1,
             f[p] # None, On(Home(f[p].key, n), q, p), f[q] = None
      PROVE  q = first
  <2>1. p # first /\ f[p] = e[p]
    BY <1>3, <1>8
  <2>2. e[q] # None
    BY <1>8, <2>1 DEF Sound, Path
  <2> QED BY <1>3, <1>8, <2>2
<1>9. ASSUME NEW c \in Entry PROVE Has(f, n, c) <=> Has(e, n, c) /\ c # e[first]
  <2>1. c # None
    BY EntryIs
  <2>2. ASSUME NEW p \in 0 .. n - 1, f[p] = c PROVE Has(e, n, c) /\ c # e[first]
    <3>1. p # first /\ e[p] = c
      BY <1>3, <2>1, <2>2
    <3>2. e[first] # c
      BY <2>1, <3>1 DEF Sound, Unique
    <3> QED BY <3>1, <3>2 DEF Has
  <2>3. ASSUME NEW p \in 0 .. n - 1, e[p] = c, c # e[first] PROVE Has(f, n, c)
    <3>1. f[p] = c
      BY <1>3, <2>3
    <3> QED BY <3>1 DEF Has
  <2> QED BY <2>2, <2>3 DEF Has
<1>10. \A q \in 0 .. n - 1 : ~ (Dist(n, first, first) < Dist(n, first, q) /\ Dist(n, first, q) <= 0)
  BY <1>4, <1>5
<1>11. \A q \in 0 .. n - 1 : Dist(n, first, q) <= 0 /\ q # first => f[q] # None
  BY <1>5
<1> HIDE DEF n
<1>12. ShiftInv(e, first, 0, s)
  <2>1. Dist(n, first, first) <= 0
    BY <1>4
  <2> QED BY <1>1, <1>3, <1>6, <1>7, <1>8, <1>9, <1>10, <1>11, <2>1 DEF ShiftInv, n
<1> QED BY <1>12 DEF s, f

\* One step of the loop: the entry at look moves into the hole if the hole is
\* on its probe path, and leaves one.
LEMMA ShiftStep ==
  ASSUME size \in Nat, size > 0, Hashes, NEW e, NEW first \in 0 .. size - 1,
         NEW j \in 1 .. size - 1, e[Around(size, first, j)] # None,
         NEW s, ShiftInv(e, first, j - 1, s)
  PROVE  ShiftInv(e, first, j, Shift(s, Around(size, first, j)))
<1> DEFINE n == size
           look == Around(n, first, j)
           f == s.e
           hole == s.hole
           origin == Home(f[look].key, n)
           R(q) == Dist(n, first, q)
<1>1. look \in 0 .. n - 1 /\ R(look) = j
  BY AroundDist
<1>2. /\ f \in Table(n) /\ hole \in 0 .. n - 1 /\ f[hole] = None /\ R(hole) <= j - 1
      /\ \A q \in 0 .. n - 1 : R(q) > j - 1 => f[q] = e[q]
      /\ \A q \in 0 .. n - 1 : R(q) <= j - 1 /\ q # hole => f[q] # None
      /\ Unique(f, n)
  BY DEF ShiftInv
<1>3. \A p, q \in 0 .. n - 1 :
          f[p] # None /\ On(Home(f[p].key, n), q, p) /\ f[q] = None => q = hole
  BY DEF ShiftInv
<1>4. \A p \in 0 .. n - 1 :
          f[p] # None /\ R(hole) < R(p) /\ R(p) <= j - 1 => ~ On(Home(f[p].key, n), hole, p)
  BY DEF ShiftInv
<1>5. \A c \in Entry : Has(f, n, c) <=> Has(e, n, c) /\ c # e[first]
  BY DEF ShiftInv
<1>6. \A q \in 0 .. n - 1 : R(q) \in 0 .. n - 1 /\ (R(q) = j => q = look)
  <2>1. \A q \in 0 .. n - 1 : R(q) \in 0 .. n - 1 /\ Around(n, first, R(q)) = q
    BY AroundDist
  <2> HIDE DEF R
  <2> QED BY <2>1
<1>7. f[look] = e[look] /\ f[look] # None /\ hole # look
  <2> HIDE DEF R, look
  <2>1. R(look) > j - 1 /\ R(hole) # R(look)
    BY <1>1, <1>2, <1>6
  <2>2. f[look] = e[look] /\ hole # look
    BY <1>1, <1>2, <2>1
  <2> QED BY <2>2 DEF look
<1>8. origin \in 0 .. n - 1 /\ f[look] \in Entry
  <2> HIDE DEF look
  <2>1. f[look] \in Entry /\ f[look].key \in Keys
    BY <1>1, <1>2, <1>7, SlotIs
  <2> QED BY <2>1, HomeSlot
<1>9. Shift(s, look) = IF MayMove(origin, hole, look)
                       THEN [e |-> [f EXCEPT ![hole] = f[look], ![look] = None], hole |-> look]
                       ELSE s
  BY DEF Shift, Home
<1>10. MayMove(origin, hole, look) <=> On(origin, hole, look)
  <2> HIDE DEF look, hole, origin, n
  <2>1. origin \in Nat /\ hole \in Nat /\ look \in Nat
    BY <1>1, <1>2, <1>8
  <2> QED BY <2>1, MayMoveIs
<1>11. CASE ~ On(origin, hole, look)
  <2> HIDE DEF look, hole, origin, f, R, n
  <2>1. Shift(s, look) = s
    BY <1>9, <1>10, <1>11
  <2>2. R(hole) <= j
    BY <1>2, <1>6
  <2>3. \A q \in 0 .. n - 1 : R(q) > j => f[q] = e[q]
    BY <1>2, <1>6
  <2>4. \A q \in 0 .. n - 1 : R(q) <= j /\ q # hole => f[q] # None
    <3>1. \A q \in 0 .. n - 1 : R(q) <= j => R(q) <= j - 1 \/ R(q) = j
      BY <1>6
    <3> QED BY <1>2, <1>6, <1>7, <3>1
  <2>5. \A p \in 0 .. n - 1 :
           f[p] # None /\ R(hole) < R(p) /\ R(p) <= j => ~ On(Home(f[p].key, n), hole, p)
    <3> SUFFICES ASSUME NEW p \in 0 .. n - 1, f[p] # None, R(hole) < R(p), R(p) <= j
                 PROVE  ~ On(Home(f[p].key, n), hole, p)
      OBVIOUS
    <3>1. CASE p = look
      BY <3>1, <1>11 DEF origin
    <3>2. CASE p # look
      <4>1. R(p) <= j - 1
        BY <3>2, <1>6
      <4> QED BY <4>1, <1>4
    <3> QED BY <3>1, <3>2
  <2>6. ShiftInv(e, first, j, s)
    BY <1>2, <1>3, <1>5, <2>2, <2>3, <2>4, <2>5 DEF ShiftInv, f, hole, R, n
  <2> QED BY <2>1, <2>6 DEF look, n
<1>12. CASE On(origin, hole, look)
  <2> DEFINE g == [f EXCEPT ![hole] = f[look], ![look] = None]
             t == [e |-> g, hole |-> look]
  <2>1. Shift(s, look) = t
    <3> HIDE DEF look, hole, origin, f, R
    <3> QED BY <1>9, <1>10, <1>12
  <2>2. /\ g \in Table(n) /\ g[hole] = f[look] /\ g[look] = None
        /\ \A q \in (0 .. n - 1) \ {hole, look} : g[q] = f[q]
    <3> HIDE DEF look, hole, origin, f, R, n
    <3> QED BY <1>1, <1>2, <1>7, <1>8 DEF Table
  <2>3. t.e = g /\ t.hole = look
    OBVIOUS
  <2> HIDE DEF look, hole, origin, f, R, n, g, t
  <2>4. \A q \in 0 .. n - 1 : R(q) > j => g[q] = e[q]
    <3> SUFFICES ASSUME NEW q \in 0 .. n - 1, R(q) > j PROVE g[q] = e[q]
      OBVIOUS
    <3>1. q # hole /\ q # look /\ R(q) > j - 1
      BY <1>1, <1>2, <1>6
    <3> QED BY <3>1, <1>2, <2>2
  <2>5. \A q \in 0 .. n - 1 : R(q) <= j /\ q # look => g[q] # None
    <3> SUFFICES ASSUME NEW q \in 0 .. n - 1, R(q) <= j, q # look PROVE g[q] # None
      OBVIOUS
    <3>1. CASE q = hole
      BY <3>1, <2>2, <1>7
    <3>2. CASE q # hole
      <4>1. R(q) <= j - 1
        BY <1>6
      <4> QED BY <4>1, <3>2, <1>2, <2>2
    <3> QED BY <3>1, <3>2
  <2>6. Unique(g, n)
    <3> SUFFICES ASSUME NEW p \in 0 .. n - 1, NEW q \in 0 .. n - 1, g[p] # None, g[q] # None,
                        g[p].key = g[q].key
                 PROVE  p = q
      BY DEF Unique
    <3>1. p # look /\ q # look
      BY <2>2
    <3>2. CASE p # hole /\ q # hole
      <4>1. g[p] = f[p] /\ g[q] = f[q]
        BY <3>1, <3>2, <2>2
      <4> QED BY <4>1, <1>2 DEF Unique
    <3>3. CASE p = hole /\ q # hole
      <4>1. g[p] = f[look] /\ g[q] = f[q]
        BY <3>1, <3>3, <2>2
      <4>2. q = look
        BY <4>1, <1>1, <1>2, <1>7 DEF Unique
      <4> QED BY <4>2, <3>1
    <3>4. CASE q = hole /\ p # hole
      <4>1. g[q] = f[look] /\ g[p] = f[p]
        BY <3>1, <3>4, <2>2
      <4>2. p = look
        BY <4>1, <1>1, <1>2, <1>7 DEF Unique
      <4> QED BY <4>2, <3>1
    <3> QED BY <3>2, <3>3, <3>4
  <2>7. \A p, q \in 0 .. n - 1 :
          g[p] # None /\ On(Home(g[p].key, n), q, p) /\ g[q] = None => q = look
    <3> SUFFICES ASSUME NEW p \in 0 .. n - 1, NEW q \in 0 .. n - 1, g[p] # None,
                        On(Home(g[p].key, n), q, p), g[q] = None, q # look
                 PROVE  FALSE
      OBVIOUS
    <3>1. q # hole /\ g[q] = f[q] /\ f[q] = None
      BY <2>2, <1>7
    <3>2. p # look
      BY <2>2
    <3>3. CASE p = hole
      <4>1. On(origin, q, hole)
        BY <3>3, <2>2 DEF origin
      <4>2. On(origin, q, look)
        <5>1. n \in Nat /\ n > 0
          BY DEF n
        <5> QED BY <4>1, <1>12, <1>1, <1>2, <1>8, <5>1 DEF On
      <4> QED BY <3>1, <4>2, <1>1, <1>3, <1>7 DEF origin
    <3>4. CASE p # hole
      <4>1. g[p] = f[p]
        BY <3>2, <3>4, <2>2
      <4> QED BY <3>1, <4>1, <1>3
    <3> QED BY <3>3, <3>4
  <2>8. \A p \in 0 .. n - 1 : ~ (R(look) < R(p) /\ R(p) <= j)
    BY <1>1, <1>6
  <2>9. \A c \in Entry : Has(g, n, c) <=> Has(f, n, c)
    <3> SUFFICES ASSUME NEW c \in Entry PROVE Has(g, n, c) <=> Has(f, n, c)
      OBVIOUS
    <3>1. c # None
      BY EntryIs
    <3>2. ASSUME NEW p \in 0 .. n - 1, g[p] = c PROVE Has(f, n, c)
      <4>1. p # look
        BY <2>2, <3>1, <3>2
      <4>2. CASE p = hole
        BY <4>2, <3>2, <2>2, <1>1 DEF Has
      <4>3. CASE p # hole
        BY <4>1, <4>3, <3>2, <2>2 DEF Has
      <4> QED BY <4>2, <4>3
    <3>3. ASSUME NEW p \in 0 .. n - 1, f[p] = c PROVE Has(g, n, c)
      <4>1. p # hole
        BY <1>2, <3>1, <3>3
      <4>2. CASE p = look
        BY <4>2, <3>3, <2>2, <1>2 DEF Has
      <4>3. CASE p # look
        BY <4>1, <4>3, <3>3, <2>2 DEF Has
      <4> QED BY <4>2, <4>3
    <3> QED BY <3>2, <3>3 DEF Has
  <2>10. R(look) <= j
    BY <1>1, <1>6
  <2>11. \A c \in Entry : Has(g, n, c) <=> Has(e, n, c) /\ c # e[first]
    BY <1>5, <2>9
  <2>12. ShiftInv(e, first, j, t)
    BY <1>1, <2>2, <2>3, <2>4, <2>5, <2>6, <2>7, <2>8, <2>10, <2>11 DEF ShiftInv, R, n
  <2> QED BY <2>1, <2>12 DEF look, n
<1> QED BY <1>11, <1>12

\* do_removal is its loop: the states it goes through, one after the other.
LEMMA ShiftBackIs ==
  ASSUME size \in Nat, size > 0, NEW e \in Table(size), NEW first \in 0 .. size - 1,
         RunLength(e, first) \in Nat, RunLength(e, first) + 1 <= size - 1
  PROVE  \E f : /\ f[0] = [e |-> [e EXCEPT ![first] = None], hole |-> first]
                /\ \A j \in 1 .. RunLength(e, first) :
                      f[j] = Shift(f[j - 1], Around(size, first, j))
                /\ ShiftBack(e, first) = f[RunLength(e, first)].e
<1> DEFINE n == size
           run == RunLength(e, first)
           S == [e : Table(n), hole : 0 .. n - 1]
           base == [e |-> [e EXCEPT ![first] = None], hole |-> first]
           next(f, j) == IF j = 0 THEN base ELSE Shift(f[j - 1], (first + j) % n)
           steps == CHOOSE f : f = [j \in 0 .. run |-> next(f, j)]
           g == [j \in 1 .. run |-> [s \in S |-> Shift(s, (first + j) % n)]]
<1>1. ShiftBack(e, first) = steps[run].e
  BY DEF ShiftBack
<1>2. base \in S
  BY DEF Table
<1>3. ASSUME NEW s \in S, NEW look \in 0 .. n - 1 PROVE Shift(s, look) \in S
  <2>1. s.e \in Table(n) /\ s.hole \in 0 .. n - 1
    OBVIOUS
  <2>2. [s.e EXCEPT ![s.hole] = s.e[look], ![look] = None] \in Table(n)
    BY <2>1, <1>3 DEF Table
  <2>3. [e |-> [s.e EXCEPT ![s.hole] = s.e[look], ![look] = None], hole |-> look] \in S
    BY <2>2
  <2> HIDE DEF S
  <2> QED BY <1>3, <2>3 DEF Shift
<1>4. \A j \in 1 .. run : (first + j) % n = Around(n, first, j) /\ Around(n, first, j) \in 0 .. n - 1
  <2> SUFFICES ASSUME NEW j \in 1 .. run
               PROVE  (first + j) % n = Around(n, first, j) /\ Around(n, first, j) \in 0 .. n - 1
    OBVIOUS
  <2>1. j \in 0 .. n - 1
    OBVIOUS
  <2> QED BY <2>1, WrapIs, AroundDist
<1>5. g \in [1 .. run -> [S -> S]]
  <2> HIDE DEF S, run, n
  <2>1. \A j \in 1 .. run, s \in S : Shift(s, (first + j) % n) \in S
    BY <1>3, <1>4
  <2> QED BY <2>1
<1> HIDE DEF S
<1>6. PICK f \in [0 .. run -> S] : Iterates(f, run, base, g)
  <2>1. run \in Nat
    OBVIOUS
  <2> HIDE DEF g, base, run, next, steps, n
  <2> QED BY <1>2, <1>5, <2>1, Recursion
<1>7. \A j \in 0 .. run : f[j] = next(f, j)
  <2> SUFFICES ASSUME NEW j \in 0 .. run PROVE f[j] = next(f, j)
    OBVIOUS
  <2>1. CASE j = 0
    BY <1>6, <2>1 DEF Iterates
  <2>2. CASE j # 0
    <3>1. j \in 1 .. run /\ j - 1 \in 0 .. run
      BY <2>2
    <3>2. f[j - 1] \in S
      BY <3>1, <1>6
    <3>3. g[j][f[j - 1]] = Shift(f[j - 1], (first + j) % n)
      BY <3>1, <3>2
    <3> HIDE DEF g
    <3> QED BY <1>6, <2>2, <3>1, <3>3 DEF Iterates
  <2> QED BY <2>1, <2>2
<1> HIDE DEF g
<1>8. f = [j \in 0 .. run |-> next(f, j)]
  <2> HIDE DEF next
  <2>1. f = [j \in 0 .. run |-> f[j]]
    BY <1>6
  <2> QED BY <1>7, <2>1
<1>9. steps = [j \in 0 .. run |-> next(steps, j)]
  <2> HIDE DEF next
  <2> QED BY <1>8
<1> HIDE DEF steps
<1>10. \A j \in 0 .. run : steps[j] = next(steps, j)
  <2> HIDE DEF next
  <2> QED BY <1>9
<1>11. steps[0] = base
  <2>1. 0 \in 0 .. run
    OBVIOUS
  <2> QED BY <1>10, <2>1
<1>12. ASSUME NEW j \in 1 .. run PROVE steps[j] = Shift(steps[j - 1], Around(n, first, j))
  <2>1. j \in 0 .. run /\ j # 0
    OBVIOUS
  <2>2. steps[j] = Shift(steps[j - 1], (first + j) % n)
    BY <1>10, <2>1
  <2> QED BY <2>2, <1>4
<1> QED BY <1>1, <1>11, <1>12

\* do_removal takes one entry out of a sound table and leaves a sound table
\* with the other entries.
LEMMA ShiftBackOK ==
  ASSUME size \in Nat, size > 0, Hashes, NEW e, Sound(e, size), Gap(e, size),
         NEW first \in 0 .. size - 1, e[first] # None
  PROVE  /\ Sound(ShiftBack(e, first), size)
         /\ \E h \in Full(e, size) : Full(ShiftBack(e, first), size) = Full(e, size) \ {h}
         /\ \A c \in Entry :
               Has(ShiftBack(e, first), size, c) <=> Has(e, size, c) /\ c # e[first]
<1> DEFINE n == size
           run == RunLength(e, first)
           R(q) == Dist(n, first, q)
           out == ShiftBack(e, first)
<1>1. /\ run \in Nat /\ run + 1 <= n - 1
      /\ \A j \in 1 .. run : e[Around(n, first, j)] # None
      /\ e[Around(n, first, run + 1)] = None
  BY RunEnds
<1>2. e \in Table(n)
  BY DEF Sound
<1>3. PICK f : /\ f[0] = [e |-> [e EXCEPT ![first] = None], hole |-> first]
               /\ \A j \in 1 .. run : f[j] = Shift(f[j - 1], Around(n, first, j))
               /\ out = f[run].e
  BY <1>1, <1>2, ShiftBackIs
<1> HIDE DEF run, out
<1>4. \A j \in 0 .. run : ShiftInv(e, first, j, f[j])
  <2> DEFINE T == {j \in 0 .. run : ShiftInv(e, first, j, f[j])}
  <2>1. 0 \in T
    <3>1. ShiftInv(e, first, 0, f[0])
      BY <1>3, ShiftBegins
    <3> QED BY <1>1, <3>1
  <2>2. ASSUME NEW j \in 1 .. run, j - 1 \in T PROVE j \in T
    <3>1. j \in 1 .. n - 1 /\ e[Around(n, first, j)] # None
      BY <1>1
    <3>2. ShiftInv(e, first, j - 1, f[j - 1])
      BY <2>2
    <3>3. ShiftInv(e, first, j, Shift(f[j - 1], Around(n, first, j)))
      BY <3>1, <3>2, ShiftStep
    <3>4. ShiftInv(e, first, j, f[j])
      BY <1>3, <3>3
    <3> QED BY <3>4
  <2> HIDE DEF T
  <2>3. \A j \in 0 .. run : j \in T
    BY <1>1, <2>1, <2>2, Climb
  <2> QED BY <2>3 DEF T
<1>5. ShiftInv(e, first, run, f[run])
  BY <1>1, <1>4
<1> DEFINE hole == f[run].hole
<1>6. /\ out \in Table(n) /\ hole \in 0 .. n - 1 /\ out[hole] = None /\ R(hole) <= run
      /\ \A q \in 0 .. n - 1 : R(q) > run => out[q] = e[q]
      /\ \A q \in 0 .. n - 1 : R(q) <= run /\ q # hole => out[q] # None
      /\ Unique(out, n)
  BY <1>3, <1>5 DEF ShiftInv
<1>7. \A p, q \in 0 .. n - 1 :
          out[p] # None /\ On(Home(out[p].key, n), q, p) /\ out[q] = None => q = hole
  BY <1>3, <1>5 DEF ShiftInv
<1>8. \A p \in 0 .. n - 1 :
          out[p] # None /\ R(hole) < R(p) /\ R(p) <= run => ~ On(Home(out[p].key, n), hole, p)
  BY <1>3, <1>5 DEF ShiftInv
<1>9. \A c \in Entry : Has(out, n, c) <=> Has(e, n, c) /\ c # e[first]
  BY <1>3, <1>5 DEF ShiftInv
<1>10. \A q \in 0 .. n - 1 : R(q) \in 0 .. n - 1 /\ Around(n, first, R(q)) = q
  BY AroundDist
<1> DEFINE gap == Around(n, first, run + 1)
<1>11. gap \in 0 .. n - 1 /\ R(gap) = run + 1 /\ e[gap] = None
  <2>1. run + 1 \in 0 .. n - 1
    BY <1>1
  <2> QED BY <1>1, <2>1, AroundDist
<1>12. n \in Nat /\ n > 0
  OBVIOUS
<1> HIDE DEF hole, R, gap, n
<1>13. out[gap] = None /\ gap # hole
  BY <1>1, <1>6, <1>11
<1>14. Path(out, n)
  <2> SUFFICES ASSUME NEW p \in 0 .. n - 1, NEW q \in 0 .. n - 1, out[p] # None,
                      On(Home(out[p].key, n), q, p), out[q] = None
               PROVE  FALSE
    BY DEF Path
  <2> DEFINE a == Home(out[p].key, n)
  <2>1. q = hole
    BY <1>7
  <2>2. a \in 0 .. n - 1
    BY <1>6, <1>12, SlotIs, HomeSlot
  <2>3. On(a, hole, p)
    BY <2>1
  <2>4. ~ On(a, gap, p)
    BY <1>7, <1>11, <1>13
  <2>5. R(hole) < R(gap)
    BY <1>1, <1>6, <1>10, <1>11
  <2> HIDE DEF a
  <2>6. ~ (R(p) < R(hole)) /\ ~ (R(gap) < R(p))
    BY <1>6, <1>11, <1>12, <2>2, <2>3, <2>4, <2>5, OnOver DEF R, n
  <2>7. R(p) # R(hole)
    BY <1>6, <1>10
  <2>8. R(p) # R(gap)
    BY <1>10, <1>11, <1>13
  <2>9. R(hole) < R(p) /\ R(p) <= run
    BY <1>1, <1>6, <1>10, <1>11, <2>6, <2>7, <2>8
  <2> QED BY <1>8, <2>3, <2>9 DEF a
<1>15. \A j \in 1 .. run : e[Around(n, first, j)] # None
  BY <1>1
<1>16. \A q \in 0 .. n - 1 : R(q) <= run => e[q] # None
  <2> SUFFICES ASSUME NEW q \in 0 .. n - 1, R(q) <= run PROVE e[q] # None
    OBVIOUS
  <2>1. CASE R(q) = 0
    <3>1. Around(n, first, 0) = first
      BY DEF Around, n
    <3>2. q = first
      BY <1>10, <2>1, <3>1
    <3> QED BY <3>2
  <2>2. CASE R(q) # 0
    <3>1. R(q) \in 1 .. run
      BY <1>1, <1>10, <2>2
    <3> QED BY <1>10, <1>15, <3>1
  <2> QED BY <2>1, <2>2
<1>17. Full(out, n) = Full(e, n) \ {hole} /\ hole \in Full(e, n)
  <2>1. ASSUME NEW q \in 0 .. n - 1 PROVE out[q] # None <=> e[q] # None /\ q # hole
    <3>1. CASE R(q) <= run
      BY <1>6, <1>16, <3>1
    <3>2. CASE R(q) > run
      BY <1>1, <1>6, <1>10, <3>2
    <3> QED BY <1>1, <1>10, <3>1, <3>2
  <2>2. e[hole] # None
    BY <1>6, <1>16
  <2> QED BY <2>1, <2>2, <1>6 DEF Full
<1> QED BY <1>6, <1>9, <1>14, <1>17 DEF Sound, n, out

----------------------------------------------------------------------------
(* Counting and growth *)

\* The full slots are finitely many, at most n.
LEMMA FullFacts ==
  ASSUME NEW n \in Nat, NEW e
  PROVE  /\ IsFiniteSet(Full(e, n)) /\ Cardinality(Full(e, n)) \in 0 .. n
         /\ Cardinality(Full(e, n)) < n => Gap(e, n)
<1>1. IsFiniteSet(0 .. n - 1) /\ Cardinality(0 .. n - 1) = n
  <2>1. IsFiniteSet(0 .. n - 1)
    BY FS_Interval
  <2>2. CASE n = 0
    <3>1. 0 .. n - 1 = {}
      BY <2>2
    <3> QED BY <2>1, <2>2, <3>1, FS_EmptySet
  <2>3. CASE n # 0
    <3>1. 0 \in Int /\ n - 1 \in Int /\ 0 <= n - 1
      BY <2>3
    <3>2. Cardinality(0 .. n - 1) = (n - 1) - 0 + 1
      BY <3>1, FS_Interval
    <3> QED BY <2>1, <3>2
  <2> QED BY <2>2, <2>3
<1>2. Full(e, n) \subseteq 0 .. n - 1
  BY DEF Full
<1>3. IsFiniteSet(Full(e, n)) /\ Cardinality(Full(e, n)) <= n
  BY <1>1, <1>2, FS_Subset
<1>4. Cardinality(Full(e, n)) \in Nat
  BY <1>3, FS_CardinalityType
<1>5. ASSUME ~ Gap(e, n) PROVE Cardinality(Full(e, n)) = n
  <2>1. Full(e, n) = 0 .. n - 1
    BY <1>5 DEF Full, Gap
  <2> QED BY <1>1, <2>1
<1> QED BY <1>3, <1>4, <1>5

\* An empty table.
LEMMA EmptyOK ==
  ASSUME NEW n \in Nat, n > 0
  PROVE  /\ Sound(Empties(n), n) /\ Gap(Empties(n), n)
         /\ Full(Empties(n), n) = {} /\ Cardinality(Full(Empties(n), n)) = 0
         /\ \A c \in Entry : ~ Has(Empties(n), n, c)
<1>1. Empties(n) \in Table(n) /\ \A p \in 0 .. n - 1 : Empties(n)[p] = None
  BY DEF Empties, Table
<1>2. Full(Empties(n), n) = {}
  BY <1>1 DEF Full
<1>3. Cardinality(Full(Empties(n), n)) = 0
  BY <1>2, FS_EmptySet
<1>4. Gap(Empties(n), n)
  BY <1>1 DEF Gap
<1>5. \A c \in Entry : c # None
  BY EntryIs
<1> QED BY <1>1, <1>2, <1>3, <1>4, <1>5 DEF Sound, Path, Unique, Has

\* fz_resize_hash goes through the old array and inserts what it meets.
LEMMA RehashIs ==
  ASSUME NEW old \in Nat, NEW new \in Nat, new > 0, NEW e \in Table(old)
  PROVE  \E f : /\ f[0] = Empties(new)
                /\ \A i \in 1 .. old :
                      f[i] = IF e[i - 1] = None THEN f[i - 1] ELSE Place(f[i - 1], new, e[i - 1])
                /\ Rehash(e, old, new) = f[old]
<1> DEFINE S == Table(new)
           base == Empties(new)
           add(s, i) == IF e[i - 1] = None THEN s ELSE Place(s, new, e[i - 1])
           next(f, i) == IF i = 0 THEN base
                         ELSE IF e[i - 1] = None THEN f[i - 1]
                         ELSE Place(f[i - 1], new, e[i - 1])
           steps == CHOOSE f : f = [i \in 0 .. old |-> next(f, i)]
           g == [i \in 1 .. old |-> [s \in S |-> add(s, i)]]
<1>1. Rehash(e, old, new) = steps[old]
  BY DEF Rehash
<1>2. base \in S
  BY DEF Table, Empties
<1>3. ASSUME NEW s \in S, NEW i \in 1 .. old PROVE add(s, i) \in S
  <2>1. CASE e[i - 1] = None
    BY <2>1
  <2>2. CASE e[i - 1] # None
    <3>1. i - 1 \in 0 .. old - 1
      OBVIOUS
    <3>2. e[i - 1] \in Entry
      BY <2>2, <3>1, SlotIs
    <3>3. Place(s, new, e[i - 1]) \in S
      BY <3>2 DEF Place, Table
    <3> QED BY <2>2, <3>3
  <2> QED BY <2>1, <2>2
<1>4. g \in [1 .. old -> [S -> S]]
  <2> HIDE DEF S, add
  <2> QED BY <1>3
<1> HIDE DEF S
<1>5. PICK f \in [0 .. old -> S] : Iterates(f, old, base, g)
  <2> HIDE DEF g, base, next, steps
  <2> QED BY <1>2, <1>4, Recursion
<1>6. \A i \in 0 .. old : f[i] = next(f, i)
  <2> SUFFICES ASSUME NEW i \in 0 .. old PROVE f[i] = next(f, i)
    OBVIOUS
  <2>1. CASE i = 0
    BY <1>5, <2>1 DEF Iterates
  <2>2. CASE i # 0
    <3>1. i \in 1 .. old /\ i - 1 \in 0 .. old
      BY <2>2
    <3>2. f[i - 1] \in S
      BY <3>1, <1>5
    <3> HIDE DEF base
    <3>3. g[i][f[i - 1]] = add(f[i - 1], i)
      <4> HIDE DEF add
      <4> QED BY <3>1, <3>2
    <3> HIDE DEF g
    <3> QED BY <1>5, <2>2, <3>1, <3>3 DEF Iterates
  <2> QED BY <2>1, <2>2
<1> HIDE DEF g
<1>7. f = [i \in 0 .. old |-> next(f, i)]
  <2> HIDE DEF next
  <2>1. f = [i \in 0 .. old |-> f[i]]
    BY <1>5
  <2> QED BY <1>6, <2>1
<1>8. steps = [i \in 0 .. old |-> next(steps, i)]
  <2> HIDE DEF next
  <2> QED BY <1>7
<1> HIDE DEF steps
<1>9. \A i \in 0 .. old : steps[i] = next(steps, i)
  <2> HIDE DEF next
  <2> QED BY <1>8
<1>10. steps[0] = base
  <2>1. 0 \in 0 .. old
    OBVIOUS
  <2> QED BY <1>9, <2>1
<1>11. ASSUME NEW i \in 1 .. old
       PROVE  steps[i] = IF e[i - 1] = None THEN steps[i - 1]
                         ELSE Place(steps[i - 1], new, e[i - 1])
  <2>1. i \in 0 .. old /\ i # 0
    OBVIOUS
  <2> QED BY <1>9, <2>1
<1> QED BY <1>1, <1>10, <1>11

\* The loop of fz_resize_hash after i slots of the old array.
RehashInv(e, i, new, f) ==
    /\ Sound(f, new)
    /\ Cardinality(Full(f, new)) = Cardinality(Full(e, i))
    /\ \A c \in Entry : Has(f, new, c) <=> Has(e, i, c)

\* One step of the loop: the entry of a slot has a key that is not in the new
\* array yet.
LEMMA RehashStep ==
  ASSUME NEW old \in Nat, NEW new \in Nat, old < new, Hashes, NEW e, Sound(e, old),
         NEW i \in 1 .. old, NEW f, RehashInv(e, i - 1, new, f)
  PROVE  RehashInv(e, i, new,
                   IF e[i - 1] = None THEN f ELSE Place(f, new, e[i - 1]))
<1> DEFINE c == e[i - 1]
<1>1. i - 1 \in 0 .. old - 1 /\ i - 1 \in Nat /\ i \in Nat /\ new > 0
  OBVIOUS
<1>2. \A p \in 0 .. i - 1 : p = i - 1 \/ p \in 0 .. (i - 1) - 1
  OBVIOUS
<1>3. \A p \in 0 .. (i - 1) - 1 : p \in 0 .. i - 1 /\ p # i - 1 /\ p \in 0 .. old - 1
  OBVIOUS
<1>4. i - 1 \in 0 .. i - 1
  OBVIOUS
<1>5. CASE c = None
  <2>1. Full(e, i) = Full(e, i - 1)
    BY <1>2, <1>3, <1>5 DEF Full
  <2>2. \A d \in Entry : Has(e, i, d) <=> Has(e, i - 1, d)
    <3> SUFFICES ASSUME NEW d \in Entry PROVE Has(e, i, d) <=> Has(e, i - 1, d)
      OBVIOUS
    <3>1. d # None
      BY EntryIs
    <3> QED BY <3>1, <1>2, <1>3, <1>5 DEF Has
  <2>3. RehashInv(e, i, new, f)
    BY <2>1, <2>2 DEF RehashInv
  <2> QED BY <1>5, <2>3
<1>6. CASE c # None
  <2> DEFINE g == Place(f, new, c)
             pos == Probe(f, new, c.key)
  <2>1. c \in Entry /\ c.key \in Keys
    BY <1>1, <1>6, SlotIs DEF Sound
  <2>2. Sound(f, new)
    BY DEF RehashInv
  <2>3. /\ IsFiniteSet(Full(e, i - 1)) /\ Cardinality(Full(e, i - 1)) \in 0 .. i - 1
        /\ IsFiniteSet(Full(f, new)) /\ Cardinality(Full(f, new)) = Cardinality(Full(e, i - 1))
    BY <1>1, FullFacts DEF RehashInv
  <2>4. Gap(f, new)
    <3>1. Cardinality(Full(f, new)) < new
      BY <2>3
    <3> QED BY <3>1, FullFacts
  <2>5. ASSUME NEW p \in 0 .. new - 1, f[p] # None, f[p].key = c.key PROVE FALSE
    <3>1. f[p] \in Entry
      BY <2>2, <2>5, SlotIs DEF Sound
    <3>2. Has(f, new, f[p])
      BY DEF Has
    <3>3. Has(e, i - 1, f[p])
      BY <3>1, <3>2 DEF RehashInv
    <3>4. PICK q \in 0 .. (i - 1) - 1 : e[q] = f[p]
      BY <3>3 DEF Has
    <3>5. q = i - 1
      BY <1>1, <1>3, <1>6, <2>5, <3>4 DEF Sound, Unique
    <3> QED BY <1>3, <3>5
  <2> HIDE DEF c
  <2>6. f[pos] = None
    <3>1. /\ pos \in 0 .. new - 1
          /\ f[pos] = None \/ f[pos].key = c.key
      BY <1>1, <2>1, <2>2, <2>4, ProbeFinds
    <3> HIDE DEF pos
    <3> QED BY <2>5, <3>1
  <2>7. /\ Sound(g, new)
        /\ pos \in (0 .. new - 1) \ Full(f, new)
        /\ Full(g, new) = Full(f, new) \cup {pos}
        /\ \A d \in Entry : Has(g, new, d) <=> d = c \/ Has(f, new, d)
    BY <1>1, <2>1, <2>2, <2>4, <2>6, PlaceOK
  <2> HIDE DEF pos, g
  <2>8. Cardinality(Full(g, new)) = Cardinality(Full(f, new)) + 1
    BY <2>3, <2>7, FS_AddElement
  <2>9. Full(e, i) = Full(e, i - 1) \cup {i - 1} /\ i - 1 \notin Full(e, i - 1)
    BY <1>2, <1>3, <1>4, <1>6 DEF Full, c
  <2>10. Cardinality(Full(e, i)) = Cardinality(Full(e, i - 1)) + 1
    BY <2>3, <2>9, FS_AddElement
  <2>11. \A d \in Entry : Has(e, i, d) <=> d = c \/ Has(e, i - 1, d)
    BY <1>2, <1>3, <1>4 DEF Has, c
  <2>12. \A d \in Entry : Has(g, new, d) <=> Has(e, i, d)
    BY <2>7, <2>11 DEF RehashInv
  <2>13. RehashInv(e, i, new, g)
    BY <2>3, <2>7, <2>8, <2>10, <2>12 DEF RehashInv
  <2> QED BY <1>6, <2>13 DEF g, c
<1> QED BY <1>5, <1>6

\* Growth keeps the entries and leaves a sound table.
LEMMA RehashOK ==
  ASSUME NEW old \in Nat, NEW new \in Nat, old < new, Hashes, NEW e, Sound(e, old)
  PROVE  /\ Sound(Rehash(e, old, new), new)
         /\ Cardinality(Full(Rehash(e, old, new), new)) = Cardinality(Full(e, old))
         /\ \A c \in Entry : Has(Rehash(e, old, new), new, c) <=> Has(e, old, c)
<1>1. e \in Table(old) /\ new > 0
  BY DEF Sound
<1>2. PICK f : /\ f[0] = Empties(new)
               /\ \A i \in 1 .. old :
                     f[i] = IF e[i - 1] = None THEN f[i - 1] ELSE Place(f[i - 1], new, e[i - 1])
               /\ Rehash(e, old, new) = f[old]
  BY <1>1, RehashIs
<1> DEFINE T == {i \in 0 .. old : RehashInv(e, i, new, f[i])}
<1>3. 0 \in T
  <2>1. Full(e, 0) = {}
    BY DEF Full
  <2>2. \A c : ~ Has(e, 0, c)
    BY DEF Has
  <2>3. RehashInv(e, 0, new, Empties(new))
    BY <1>1, <2>1, <2>2, EmptyOK, FS_EmptySet DEF RehashInv
  <2> QED BY <1>2, <2>3
<1>4. ASSUME NEW i \in 1 .. old, i - 1 \in T PROVE i \in T
  <2>1. RehashInv(e, i - 1, new, f[i - 1])
    BY <1>4
  <2>2. RehashInv(e, i, new, IF e[i - 1] = None THEN f[i - 1] ELSE Place(f[i - 1], new, e[i - 1]))
    BY <2>1, RehashStep
  <2>3. RehashInv(e, i, new, f[i])
    BY <1>2, <2>2
  <2> QED BY <2>3
<1> HIDE DEF T
<1>5. \A i \in 0 .. old : i \in T
  BY <1>3, <1>4, Climb
<1>6. RehashInv(e, old, new, f[old])
  <2>1. old \in T
    BY <1>5
  <2> QED BY <2>1 DEF T
<1> QED BY <1>2, <1>6 DEF RehashInv

----------------------------------------------------------------------------
(* The inductive invariant *)

Limit(n) == (n * 8) \div 10

\* The threads that will insert without another look at the load.
Late == {t \in Threads : \/ pc[t] = "free"
                         \/ pc[t] = "malloc" /\ arg[t].newsize <= size}

Sizes ==
    /\ Hashes /\ size \in Nat
    /\ size = InitSize \/ (size >= 2 * InitSize /\ size <= MaxSize)

\* A table that has never grown is checked at every insertion; in one that has
\* grown, each thread may have inserted once without a check.
LoadBound ==
    /\ load = Cardinality(Full(ents, size))
    /\ size = InitSize => load <= Limit(size) + 1
    /\ size # InitSize => load + Cardinality(Late) <= Limit(size) + Cardinality(Threads)

\* A thread in a gap still has an insertion to make, and no table smaller than
\* half of what it asks for.
Waits ==
    /\ pc \in [Threads -> {"idle", "malloc", "free"}]
    /\ arg \in [Threads -> {None} \cup [key : Keys, val : Vals, newsize : Nat]]
    /\ \A t \in Threads :
          /\ pc[t] # "idle" => arg[t] \in [key : Keys, val : Vals, newsize : Nat]
          /\ pc[t] = "malloc" => /\ 2 * InitSize <= arg[t].newsize /\ arg[t].newsize <= MaxSize
                                 /\ arg[t].newsize <= size \/ arg[t].newsize = 2 * size
          /\ pc[t] = "free" => size # InitSize

Positions ==
    /\ inserted \in [Threads -> [key : Keys \cup {None}, pos : Nat]]
    /\ \A t \in Threads : inserted[t] # NoPos =>
          inserted[t].key \in Keys /\ inserted[t].pos \in 0 .. size - 1

IInv == Sizes /\ Sound(ents, size) /\ LoadBound /\ Waits /\ Positions

\* Eight tenths, rounded down.
LEMMA LimitIs ==
  ASSUME NEW n \in Nat
  PROVE  Limit(n) \in Nat /\ 10 * Limit(n) <= 8 * n /\ 8 * n < 10 * Limit(n) + 10
  BY DEF Limit

\* The late threads are some of the threads.
LEMMA LateCount ==
  /\ IsFiniteSet(Threads) /\ Cardinality(Threads) \in Nat
  /\ IsFiniteSet(Late) /\ Cardinality(Late) \in 0 .. Cardinality(Threads)
  /\ \A t \in Threads \ Late : Cardinality(Late) + 1 <= Cardinality(Threads)
<1>1. IsFiniteSet(Threads) /\ Cardinality(Threads) \in Nat
  BY ThreadsAssumption, FS_CardinalityType
<1>2. Late \subseteq Threads
  BY DEF Late
<1> HIDE DEF Late
<1>3. IsFiniteSet(Late) /\ Cardinality(Late) <= Cardinality(Threads)
  BY <1>1, <1>2, FS_Subset
<1>4. Cardinality(Late) \in Nat
  BY <1>3, FS_CardinalityType
<1>5. ASSUME NEW t \in Threads \ Late PROVE Cardinality(Late) + 1 <= Cardinality(Threads)
  <2>1. Late \subseteq Threads \ {t}
    BY <1>2
  <2>2. IsFiniteSet(Threads \ {t}) /\ Cardinality(Threads \ {t}) = Cardinality(Threads) - 1
    BY <1>1, FS_RemoveElement
  <2>3. Cardinality(Late) <= Cardinality(Threads \ {t})
    BY <2>1, <2>2, FS_Subset
  <2> QED BY <1>1, <1>4, <2>2, <2>3
<1> QED BY <1>1, <1>3, <1>4, <1>5

\* A table whose load is bounded has room left, so every probe ends.
LEMMA RoomLeft ==
  ASSUME Sizes, LoadBound
  PROVE  /\ size \in Nat /\ size > 0 /\ size >= InitSize /\ InitSize >= 6 /\ InitSize \in Nat
         /\ Hashes /\ load \in Nat /\ load < size /\ Gap(ents, size)
<1>1. size \in Nat /\ InitSize \in Nat /\ InitSize >= 6 /\ Hashes
      /\ (size = InitSize \/ size >= 2 * InitSize)
  BY HashAssumption DEF Sizes
<1>2. load \in 0 .. size
  BY <1>1, FullFacts DEF LoadBound
<1>3. Limit(size) \in Nat /\ 10 * Limit(size) <= 8 * size
  BY <1>1, LimitIs
<1>4. CASE size = InitSize
  <2>1. load <= Limit(size) + 1
    BY <1>4 DEF LoadBound
  <2>2. load < size
    BY <1>1, <1>2, <1>3, <1>4, <2>1
  <2>3. Gap(ents, size)
    BY <1>1, <2>2, FullFacts DEF LoadBound
  <2> QED BY <1>1, <1>2, <2>2, <2>3
<1>5. CASE size # InitSize
  <2>1. load + Cardinality(Late) <= Limit(size) + Cardinality(Threads)
    BY <1>5 DEF LoadBound
  <2>2. Cardinality(Threads) \in Nat /\ Cardinality(Late) \in Nat
    BY LateCount
  <2>3. 5 * Cardinality(Threads) < 2 * InitSize /\ size >= 2 * InitSize
    BY <1>1, <1>5, ThreadsAssumption
  <2> DEFINE C == Cardinality(Threads)
             L == Cardinality(Late)
             M == Limit(size)
  <2>4. load + L <= M + C /\ C \in Nat /\ L \in Nat /\ 5 * C < 2 * InitSize
        /\ M \in Nat /\ 10 * M <= 8 * size
    BY <1>3, <2>1, <2>2, <2>3
  <2> HIDE DEF C, L, M
  <2>5. load < size
    BY <1>1, <1>2, <2>3, <2>4
  <2>6. Gap(ents, size)
    BY <1>1, <2>5, FullFacts DEF LoadBound
  <2> QED BY <1>1, <1>2, <2>5, <2>6
<1> QED BY <1>4, <1>5

\* The table of the next state is sound if its array is, for the same hashes.
LEMMA SoundNext ==
  ASSUME hash' = hash, Sound(ents', size')
  PROVE  Sound(ents, size)'
  BY DEF Sound, Path, Unique, Table, Home

\* The invariant holds at the start.
LEMMA InitOK == Init => IInv
<1> SUFFICES ASSUME Init PROVE IInv
  OBVIOUS
<1>1. InitSize \in Nat /\ InitSize >= 6
  BY HashAssumption
<1>2. Sizes
  <2>1. Hashes /\ size = InitSize
    BY DEF Init, Hashes
  <2>2. size \in Nat
    BY <1>1, <2>1
  <2> QED BY <2>1, <2>2 DEF Sizes
<1>3. ents = Empties(size) /\ size = InitSize /\ load = 0
  BY DEF Init
<1>4. /\ Sound(Empties(size), size) /\ Cardinality(Full(Empties(size), size)) = 0
  BY <1>1, <1>3, EmptyOK
<1>5. Sound(ents, size)
  BY <1>3, <1>4
<1>6. LoadBound
  BY <1>1, <1>3, <1>4, LimitIs DEF LoadBound
<1>7. Waits
  BY DEF Init, Waits
<1>8. Positions
  BY DEF Init, Positions, NoPos
<1> QED BY <1>2, <1>5, <1>6, <1>7, <1>8 DEF IInv

\* The types of the variables.
LEMMA TypeFollows == IInv => TypeOK
<1> SUFFICES ASSUME IInv PROVE TypeOK
  OBVIOUS
<1>1. load \in 0 .. size /\ size >= InitSize /\ size \in Nat /\ InitSize \in Nat
  BY RoomLeft DEF IInv
<1>2. size \in InitSize .. (IF MaxSize > InitSize THEN MaxSize ELSE InitSize)
  BY <1>1, HashAssumption DEF IInv, Sizes
<1>3. ents \in [0 .. size - 1 -> Entry \cup {None}]
  BY DEF IInv, Sound, Table
<1>4. hash \in [Keys -> HashValues]
  BY DEF IInv, Sizes, Hashes
<1>5. /\ pc \in [Threads -> {"idle", "malloc", "free"}]
      /\ \A t \in Threads : pc[t] # "idle" => /\ arg[t].key \in Keys /\ arg[t].val \in Vals
                                              /\ arg[t].newsize \in Nat
  BY DEF IInv, Waits
<1>6. inserted \in [Threads -> [key : Keys \cup {None}, pos : Nat]]
  BY DEF IInv, Positions
<1> QED BY <1>1, <1>2, <1>3, <1>4, <1>5, <1>6 DEF TypeOK

\* Probes end.
LEMMA EndFollows == IInv => ProbesEnd
<1> SUFFICES ASSUME IInv PROVE ProbesEnd
  OBVIOUS
<1>1. load < size
  BY RoomLeft DEF IInv
<1>2. DOMAIN ents = 0 .. size - 1
  BY DEF IInv, Sound, Table
<1>3. {i \in DOMAIN ents : ents[i] # None} = Full(ents, size)
  BY <1>2 DEF Full
<1> QED BY <1>1, <1>3 DEF ProbesEnd, IInv, LoadBound

\* Entries are reachable.
LEMMA ReachFollows == IInv => EntriesReachable
<1> SUFFICES ASSUME IInv PROVE EntriesReachable
  OBVIOUS
<1>1. size \in Nat /\ size > 0 /\ Hashes /\ Gap(ents, size)
  BY RoomLeft DEF IInv
<1>2. Sound(ents, size)
  BY DEF IInv
<1>3. DOMAIN ents = 0 .. size - 1
  BY <1>2 DEF Sound, Table
<1> QED BY <1>1, <1>2, <1>3, Reached DEF EntriesReachable

----------------------------------------------------------------------------
(* What the operations do *)

\* do_hash_insert: the table is unchanged when the key is present, and has one
\* more entry when it was absent.
LEMMA InsertEffect ==
  ASSUME IInv, NEW t \in Threads, NEW k \in Keys, NEW v \in Vals, DoInsert(t, k, v)
  PROVE  /\ Sound(ents', size) /\ load' = Cardinality(Full(ents', size))
         /\ load' = load \/ load' = load + 1
         /\ \/ ents' = ents /\ Value(ents, size, k) # None
            \/ /\ Value(ents, size, k) = None
               /\ \A d \in Entry :
                     Has(ents', size, d) <=> d = [key |-> k, val |-> v] \/ Has(ents, size, d)
         /\ \E p \in 0 .. size - 1 :
               inserted' = IF t \in PosUsers
                           THEN [inserted EXCEPT ![t] = [key |-> k, pos |-> p]] ELSE inserted
<1> DEFINE pos == Probe(ents, size, k)
           c == [key |-> k, val |-> v]
<1>1. /\ size \in Nat /\ size > 0 /\ Hashes /\ Gap(ents, size) /\ Sound(ents, size)
      /\ load = Cardinality(Full(ents, size))
  BY RoomLeft DEF IInv, LoadBound
<1>2. /\ pos \in 0 .. size - 1
      /\ ents[pos] = None \/ ents[pos].key = k
  BY <1>1, ProbeFinds
<1>3. inserted' = IF t \in PosUsers
                  THEN [inserted EXCEPT ![t] = [key |-> k, pos |-> pos]] ELSE inserted
  BY DEF DoInsert
<1>4. CASE ents[pos] # None
  <2>1. ents' = ents /\ load' = load
    BY <1>4 DEF DoInsert
  <2>2. ents[pos].val # None
    BY <1>1, <1>2, <1>4, SlotIs DEF Sound
  <2>3. Value(ents, size, k) # None
    BY <1>4, <2>2 DEF Value
  <2> HIDE DEF pos
  <2> QED BY <1>1, <1>2, <1>3, <2>1, <2>3
<1>5. CASE ents[pos] = None
  <2>1. c \in Entry /\ c.key = k
    BY DEF Entry
  <2>2. ents' = Place(ents, size, c) /\ load' = load + 1
    BY <1>5, <2>1 DEF DoInsert, Place
  <2>3. Value(ents, size, k) = None
    BY <1>5 DEF Value
  <2> HIDE DEF c
  <2>4. /\ Sound(ents', size)
        /\ pos \in (0 .. size - 1) \ Full(ents, size)
        /\ Full(ents', size) = Full(ents, size) \cup {pos}
        /\ \A d \in Entry : Has(ents', size, d) <=> d = c \/ Has(ents, size, d)
    BY <1>1, <1>5, <2>1, <2>2, PlaceOK
  <2> HIDE DEF pos
  <2>5. IsFiniteSet(Full(ents, size))
    BY <1>1, FullFacts
  <2>6. load' = Cardinality(Full(ents', size))
    BY <1>1, <2>2, <2>4, <2>5, FS_AddElement
  <2> QED BY <1>2, <1>3, <2>2, <2>3, <2>4, <2>6 DEF c
<1> QED BY <1>4, <1>5

\* do_removal at a full slot takes out its entry.
LEMMA RemoveEffect ==
  ASSUME IInv, NEW first \in 0 .. size - 1, ents[first] # None, RemoveEntry(first)
  PROVE  /\ Sound(ents', size) /\ load' = Cardinality(Full(ents', size)) /\ load' <= load
         /\ \A d \in Entry : Has(ents', size, d) <=> Has(ents, size, d) /\ d # ents[first]
<1>1. /\ size \in Nat /\ size > 0 /\ Hashes /\ Gap(ents, size) /\ Sound(ents, size)
      /\ load = Cardinality(Full(ents, size)) /\ load \in Nat
  BY RoomLeft DEF IInv, LoadBound
<1>2. ents' = ShiftBack(ents, first) /\ load' = load - 1
  BY DEF RemoveEntry
<1>3. /\ Sound(ents', size)
      /\ \E h \in Full(ents, size) : Full(ents', size) = Full(ents, size) \ {h}
      /\ \A d \in Entry : Has(ents', size, d) <=> Has(ents, size, d) /\ d # ents[first]
  BY <1>1, <1>2, ShiftBackOK
<1>4. PICK h \in Full(ents, size) : Full(ents', size) = Full(ents, size) \ {h}
  BY <1>3
<1>5. IsFiniteSet(Full(ents, size))
  BY <1>1, FullFacts
<1>6. Cardinality(Full(ents', size)) = Cardinality(Full(ents, size)) - 1
  BY <1>4, <1>5, FS_RemoveElement
<1> QED BY <1>1, <1>2, <1>3, <1>6

\* fz_hash_remove takes out the entry of its key, if there is one.
LEMMA HashRemoveEffect ==
  ASSUME IInv, NEW k \in Keys, HashRemove(k)
  PROVE  \/ ents' = ents /\ load' = load
         \/ \E first \in 0 .. size - 1 :
               ents[first] # None /\ ents[first].key = k /\ RemoveEntry(first)
<1> DEFINE pos == Probe(ents, size, k)
<1>1. pos \in 0 .. size - 1 /\ (ents[pos] = None \/ ents[pos].key = k)
  BY RoomLeft, ProbeFinds DEF IInv
<1>2. IF ents[pos] = None THEN UNCHANGED <<ents, load>> ELSE RemoveEntry(pos)
  BY DEF HashRemove
<1> HIDE DEF pos
<1> QED BY <1>1, <1>2

\* fz_hash_remove_fast does the same for the key it is given.
LEMMA RemoveFastEffect ==
  ASSUME IInv, NEW t \in Threads, RemoveFast(t)
  PROVE  /\ inserted[t].key \in Keys
         /\ \/ ents' = ents /\ load' = load
            \/ \E first \in 0 .. size - 1 :
                  ents[first] # None /\ ents[first].key = inserted[t].key /\ RemoveEntry(first)
<1> DEFINE k == inserted[t].key
           c == ents[inserted[t].pos]
<1>1. k \in Keys /\ inserted[t].pos \in 0 .. size - 1
  BY DEF IInv, Positions, RemoveFast
<1>2. IF c = None \/ c.key # k THEN HashRemove(k) ELSE RemoveEntry(inserted[t].pos)
  BY DEF RemoveFast
<1>3. CASE c = None \/ c.key # k
  BY <1>1, <1>2, <1>3, HashRemoveEffect
<1>4. CASE c # None /\ c.key = k
  BY <1>1, <1>2, <1>4
<1> QED BY <1>3, <1>4

----------------------------------------------------------------------------
(* The actions preserve the invariant *)

\* The slots of a table are slots of a larger one.
LEMMA IntervalGrows ==
  ASSUME NEW a \in Nat, NEW b \in Nat, b >= a
  PROVE  \A p \in 0 .. a - 1 : p \in 0 .. b - 1
  OBVIOUS

\* Remembered positions stay inside a table that only grows.
LEMMA PositionsNext ==
  ASSUME Positions, size \in Nat, size' \in Nat, size' >= size,
         \/ inserted' = inserted
         \/ \E t \in Threads : inserted' = [inserted EXCEPT ![t] = NoPos]
         \/ \E t \in Threads, k \in Keys, p \in 0 .. size - 1 :
               inserted' = [inserted EXCEPT ![t] = [key |-> k, pos |-> p]]
  PROVE  Positions'
<1>1. NoPos \in [key : Keys \cup {None}, pos : Nat]
  BY DEF NoPos
<1>2. inserted \in [Threads -> [key : Keys \cup {None}, pos : Nat]]
  BY DEF Positions
<1>3. \A t \in Threads : inserted[t] # NoPos =>
          inserted[t].key \in Keys /\ inserted[t].pos \in 0 .. size' - 1
  BY DEF Positions
<1>7. \A p \in 0 .. size - 1 : p \in 0 .. size' - 1
  BY IntervalGrows
<1>4. CASE inserted' = inserted
  BY <1>2, <1>3, <1>4 DEF Positions
<1>5. ASSUME NEW t \in Threads, inserted' = [inserted EXCEPT ![t] = NoPos] PROVE Positions'
  <2>1. inserted' \in [Threads -> [key : Keys \cup {None}, pos : Nat]]
    BY <1>1, <1>2, <1>5
  <2>2. \A u \in Threads : inserted'[u] = IF u = t THEN NoPos ELSE inserted[u]
    BY <1>2, <1>5
  <2> QED BY <1>3, <2>1, <2>2 DEF Positions
<1>6. ASSUME NEW t \in Threads, NEW k \in Keys, NEW p \in 0 .. size - 1,
             inserted' = [inserted EXCEPT ![t] = [key |-> k, pos |-> p]]
      PROVE  Positions'
  <2> DEFINE r == [key |-> k, pos |-> p]
  <2>1. r \in [key : Keys \cup {None}, pos : Nat] /\ r.key = k /\ r.pos = p
    OBVIOUS
  <2> HIDE DEF r
  <2>2. inserted' = [inserted EXCEPT ![t] = r]
    BY <1>6 DEF r
  <2>3. inserted' \in [Threads -> [key : Keys \cup {None}, pos : Nat]]
    BY <1>2, <2>1, <2>2
  <2>4. \A u \in Threads : inserted'[u] = IF u = t THEN r ELSE inserted[u]
    BY <1>2, <2>2
  <2>5. p \in 0 .. size' - 1
    BY <1>7
  <2> QED BY <1>3, <2>1, <2>3, <2>4, <2>5 DEF Positions
<1> QED BY <1>4, <1>5, <1>6

\* A step that touches neither sizes nor waiting threads keeps who is late.
LEMMA WaitsSame ==
  ASSUME Sizes, Waits, UNCHANGED <<hash, size, pc, arg>>
  PROVE  Sizes' /\ Waits' /\ Late' = Late
<1>1. hash' = hash /\ size' = size /\ pc' = pc /\ arg' = arg
  OBVIOUS
<1>2. Sizes'
  BY <1>1 DEF Sizes, Hashes
<1>3. Waits'
  BY <1>1 DEF Waits
<1>4. Late' = Late
  BY <1>1 DEF Late
<1> QED BY <1>2, <1>3, <1>4

\* A step that only takes entries out of the table.
LEMMA ShrinkOK ==
  ASSUME IInv, UNCHANGED <<hash, size, pc, arg>>, Positions',
         Sound(ents', size), load' = Cardinality(Full(ents', size)), load' <= load
  PROVE  IInv'
<1>1. Sizes' /\ Waits' /\ Late' = Late
  BY WaitsSame DEF IInv
<1>2. Sound(ents, size)'
  BY SoundNext
<1>3. size \in Nat /\ load \in Nat
  BY RoomLeft DEF IInv
<1>4. load' \in Nat
  BY <1>3, FullFacts
<1>5. Limit(size) \in Nat /\ Cardinality(Threads) \in Nat /\ Cardinality(Late) \in Nat
  BY <1>3, LimitIs, LateCount
<1>6. LoadBound'
  <2>1. size' = size
    OBVIOUS
  <2>2. size = InitSize => load' <= Limit(size) + 1
    <3>1. size = InitSize => load <= Limit(size) + 1
      BY DEF IInv, LoadBound
    <3> QED BY <1>3, <1>4, <1>5, <3>1
  <2>3. size # InitSize => load' + Cardinality(Late) <= Limit(size) + Cardinality(Threads)
    <3>1. size # InitSize => load + Cardinality(Late) <= Limit(size) + Cardinality(Threads)
      BY DEF IInv, LoadBound
    <3> QED BY <1>3, <1>4, <1>5, <3>1
  <2>4. load' = Cardinality(Full(ents', size'))
    BY <2>1
  <2> QED BY <1>1, <2>1, <2>2, <2>3, <2>4 DEF LoadBound, Full
<1> QED BY <1>1, <1>2, <1>6 DEF IInv

\* Removing an entry, or none, keeps the invariant.
LEMMA RemoveOK ==
  ASSUME IInv, UNCHANGED <<hash, size, pc, arg>>, Positions',
         \/ ents' = ents /\ load' = load
         \/ \E first \in 0 .. size - 1 : ents[first] # None /\ RemoveEntry(first)
  PROVE  IInv'
<1>1. CASE ents' = ents /\ load' = load
  <2>1. size \in Nat /\ load \in Nat
    BY RoomLeft DEF IInv
  <2>2. Sound(ents', size) /\ load' = Cardinality(Full(ents', size)) /\ load' <= load
    BY <1>1, <2>1 DEF IInv, LoadBound
  <2> QED BY <2>2, ShrinkOK
<1>2. ASSUME NEW first \in 0 .. size - 1, ents[first] # None, RemoveEntry(first)
      PROVE  IInv'
  <2>1. Sound(ents', size) /\ load' = Cardinality(Full(ents', size)) /\ load' <= load
    BY <1>2, RemoveEffect
  <2> QED BY <2>1, ShrinkOK
<1> QED BY <1>1, <1>2

\* An insertion changes the remembered position of its thread at most.
LEMMA InsertPositions ==
  ASSUME IInv, NEW t \in Threads, NEW k \in Keys, NEW v \in Vals, DoInsert(t, k, v), size' = size
  PROVE  Positions'
<1>1. \E p \in 0 .. size - 1 :
         inserted' = IF t \in PosUsers
                     THEN [inserted EXCEPT ![t] = [key |-> k, pos |-> p]] ELSE inserted
  BY InsertEffect
<1>2. size \in Nat /\ size' \in Nat /\ size' >= size
  BY RoomLeft DEF IInv
<1>3. Positions
  BY DEF IInv
<1> QED BY <1>1, <1>2, <1>3, PositionsNext

\* An insertion under the limit.
LEMMA InsertOK ==
  ASSUME IInv, NEW t \in Threads, NEW k \in Keys, NEW v \in Vals, Insert(t, k, v)
  PROVE  IInv'
<1>1. /\ pc[t] = "idle" /\ ~ Crowded /\ DoInsert(t, k, v)
      /\ UNCHANGED <<hash, size, pc, arg>>
  BY DEF Insert, Ready
<1>2. Sizes' /\ Waits' /\ Late' = Late
  BY <1>1, WaitsSame DEF IInv
<1>3. /\ Sound(ents', size) /\ load' = Cardinality(Full(ents', size))
      /\ load' = load \/ load' = load + 1
  BY <1>1, InsertEffect
<1>4. Sound(ents, size)'
  BY <1>1, <1>3, SoundNext
<1>5. Positions'
  BY <1>1, InsertPositions
<1>6. /\ size \in Nat /\ load \in Nat /\ Limit(size) \in Nat
      /\ Cardinality(Threads) \in Nat /\ Cardinality(Late) \in Nat
  BY RoomLeft, LimitIs, LateCount DEF IInv
<1>7. load <= Limit(size)
  BY <1>1, <1>6 DEF Crowded, Limit
<1>8. Cardinality(Late) + 1 <= Cardinality(Threads)
  <2>1. t \notin Late
    BY <1>1 DEF Late
  <2> QED BY <2>1, LateCount
<1>9. LoadBound'
  <2>1. size' = size
    BY <1>1
  <2>2. load' <= Limit(size) + 1
    BY <1>3, <1>6, <1>7
  <2>3. load' + Cardinality(Late) <= Limit(size) + Cardinality(Threads)
    BY <1>3, <1>6, <1>7, <1>8
  <2>4. load' = Cardinality(Full(ents', size'))
    BY <1>3, <2>1
  <2> QED BY <1>2, <2>1, <2>2, <2>3, <2>4 DEF LoadBound, Full
<1> QED BY <1>2, <1>4, <1>5, <1>9 DEF IInv

\* A step that only moves waiting threads, and lets none become late.
LEMMA WaitOK ==
  ASSUME IInv, UNCHANGED <<hash, ents, size, load, inserted>>, Waits', Late' = Late
  PROVE  IInv'
<1>1. hash' = hash /\ ents' = ents /\ size' = size /\ load' = load /\ inserted' = inserted
  OBVIOUS
<1>2. Sizes'
  BY <1>1 DEF IInv, Sizes, Hashes
<1>3. Sound(ents, size)'
  BY <1>1, SoundNext DEF IInv
<1>4. LoadBound'
  BY <1>1 DEF IInv, LoadBound, Full
<1>5. Positions'
  BY <1>1 DEF IInv, Positions
<1> QED BY <1>2, <1>3, <1>4, <1>5 DEF IInv

\* A crowded table: the thread that finds it waits for memory.
LEMMA InsertCrowdedOK ==
  ASSUME IInv, NEW t \in Threads, NEW k \in Keys, NEW v \in Vals, InsertCrowded(t, k, v)
  PROVE  IInv'
<1> DEFINE a == [key |-> k, val |-> v, newsize |-> size * 2]
<1>1. /\ pc[t] = "idle" /\ size * 2 <= MaxSize
      /\ pc' = [pc EXCEPT ![t] = "malloc"] /\ arg' = [arg EXCEPT ![t] = a]
      /\ UNCHANGED <<hash, ents, size, load, inserted>>
  BY DEF InsertCrowded, Ready
<1>2. size \in Nat /\ size > 0 /\ size >= InitSize /\ InitSize \in Nat /\ size' = size
  BY <1>1, RoomLeft DEF IInv
<1>3. /\ a \in [key : Keys, val : Vals, newsize : Nat] /\ a.newsize = 2 * size
      /\ 2 * InitSize <= a.newsize /\ a.newsize <= MaxSize /\ ~ (a.newsize <= size)
  BY <1>1, <1>2
<1>4. Waits
  BY DEF IInv
<1> HIDE DEF a
<1>5. \A u \in Threads : /\ pc'[u] = IF u = t THEN "malloc" ELSE pc[u]
                         /\ arg'[u] = IF u = t THEN a ELSE arg[u]
  BY <1>1, <1>4 DEF Waits
<1>6. /\ pc' \in [Threads -> {"idle", "malloc", "free"}]
      /\ arg' \in [Threads -> {None} \cup [key : Keys, val : Vals, newsize : Nat]]
  BY <1>1, <1>3, <1>4 DEF Waits
<1>7. Waits'
  BY <1>2, <1>3, <1>4, <1>5, <1>6 DEF Waits
<1>8. Late' = Late
  BY <1>1, <1>2, <1>3, <1>5 DEF Late
<1> QED BY <1>1, <1>7, <1>8, WaitOK

\* The race is lost: the thread frees its array and is as late as before.
LEMMA ResizeLostOK ==
  ASSUME IInv, NEW t \in Threads, ResizeLost(t)
  PROVE  IInv'
<1>1. /\ pc[t] = "malloc" /\ size >= arg[t].newsize
      /\ pc' = [pc EXCEPT ![t] = "free"]
      /\ UNCHANGED <<hash, ents, size, load, arg, inserted>>
  BY DEF ResizeLost
<1>2. size \in Nat /\ InitSize \in Nat /\ InitSize >= 6 /\ size' = size /\ arg' = arg
  BY <1>1, RoomLeft DEF IInv
<1>3. Waits
  BY DEF IInv
<1>4. \A u \in Threads : pc'[u] = IF u = t THEN "free" ELSE pc[u]
  BY <1>1, <1>3 DEF Waits
<1>5. pc' \in [Threads -> {"idle", "malloc", "free"}]
  BY <1>1, <1>3 DEF Waits
<1>6. arg[t].newsize \in Nat /\ 2 * InitSize <= arg[t].newsize
  BY <1>1, <1>3 DEF Waits
<1>7. size # InitSize /\ arg[t].newsize <= size
  BY <1>1, <1>2, <1>6
<1>8. Waits'
  BY <1>1, <1>2, <1>3, <1>4, <1>5, <1>7 DEF Waits
<1>9. Late' = Late
  BY <1>1, <1>2, <1>4, <1>7 DEF Late
<1> QED BY <1>1, <1>8, <1>9, WaitOK

\* Out of memory: the thread gives up, and was not late.
LEMMA ResizeFailOK ==
  ASSUME IInv, NEW t \in Threads, ResizeFail(t)
  PROVE  IInv'
<1>1. /\ pc[t] = "malloc" /\ size < arg[t].newsize
      /\ pc' = [pc EXCEPT ![t] = "idle"] /\ arg' = [arg EXCEPT ![t] = None]
      /\ UNCHANGED <<hash, ents, size, load, inserted>>
  BY DEF ResizeFail
<1>2. size \in Nat /\ size' = size
  BY <1>1, RoomLeft DEF IInv
<1>3. Waits
  BY DEF IInv
<1>4. \A u \in Threads : /\ pc'[u] = IF u = t THEN "idle" ELSE pc[u]
                         /\ arg'[u] = IF u = t THEN None ELSE arg[u]
  BY <1>1, <1>3 DEF Waits
<1>5. /\ pc' \in [Threads -> {"idle", "malloc", "free"}]
      /\ arg' \in [Threads -> {None} \cup [key : Keys, val : Vals, newsize : Nat]]
  BY <1>1, <1>3 DEF Waits
<1>6. Waits'
  BY <1>1, <1>2, <1>3, <1>4, <1>5 DEF Waits
<1>7. ~ (arg[t].newsize <= size)
  <2>1. arg[t].newsize \in Nat
    BY <1>1, <1>3 DEF Waits
  <2> QED BY <1>1, <1>2, <2>1
<1>8. Late' = Late
  BY <1>1, <1>2, <1>4, <1>7 DEF Late
<1> QED BY <1>1, <1>6, <1>8, WaitOK

\* Growth: what was below one size is below eight tenths of its double, and at
\* worst every thread is late.
LEMMA ResizeOK ==
  ASSUME IInv, NEW t \in Threads, Resize(t)
  PROVE  IInv'
<1>1. /\ pc[t] = "malloc" /\ size < arg[t].newsize
      /\ ents' = Rehash(ents, size, arg[t].newsize) /\ size' = arg[t].newsize
      /\ load' = Cardinality({i \in DOMAIN ents' : ents'[i] # None})
      /\ pc' = [pc EXCEPT ![t] = "free"]
      /\ hash' = hash /\ arg' = arg /\ inserted' = inserted
  BY DEF Resize
<1>2. /\ size \in Nat /\ size > 0 /\ size >= InitSize /\ InitSize \in Nat /\ InitSize >= 6
      /\ Hashes /\ load \in Nat /\ load < size
  BY RoomLeft DEF IInv
<1>3. Waits
  BY DEF IInv
<1>4. /\ size' \in Nat /\ size' = 2 * size /\ size' <= MaxSize /\ size < size'
      /\ 2 * InitSize <= size' /\ size' # InitSize
  <2>1. /\ arg[t].newsize \in Nat /\ 2 * InitSize <= arg[t].newsize /\ arg[t].newsize <= MaxSize
        /\ arg[t].newsize <= size \/ arg[t].newsize = 2 * size
    BY <1>1, <1>3 DEF Waits
  <2> QED BY <1>1, <1>2, <2>1
<1>5. Sound(ents, size) /\ load = Cardinality(Full(ents, size))
  BY DEF IInv, LoadBound
<1>6. Sound(ents', size') /\ Cardinality(Full(ents', size')) = load
  BY <1>1, <1>2, <1>4, <1>5, RehashOK
<1>7. load' = load
  <2>1. DOMAIN ents' = 0 .. size' - 1
    BY <1>6 DEF Sound, Table
  <2> QED BY <1>1, <1>6, <2>1 DEF Full
<1>8. Sizes'
  BY <1>1, <1>2, <1>4 DEF Sizes, Hashes
<1>9. Sound(ents, size)'
  BY <1>1, <1>6, SoundNext
<1>10. Positions'
  BY <1>1, <1>2, <1>4, PositionsNext DEF IInv
<1>11. \A u \in Threads : pc'[u] = IF u = t THEN "free" ELSE pc[u]
  BY <1>1, <1>3 DEF Waits
<1>12. pc' \in [Threads -> {"idle", "malloc", "free"}]
  BY <1>1, <1>3 DEF Waits
<1>13. ASSUME NEW u \in Threads, pc'[u] = "malloc"
       PROVE  /\ 2 * InitSize <= arg[u].newsize /\ arg[u].newsize <= MaxSize
              /\ arg[u].newsize <= size'
  <2>1. pc[u] = "malloc"
    BY <1>11, <1>13
  <2>2. /\ arg[u].newsize \in Nat /\ 2 * InitSize <= arg[u].newsize /\ arg[u].newsize <= MaxSize
        /\ arg[u].newsize <= size \/ arg[u].newsize = 2 * size
    BY <2>1, <1>3 DEF Waits
  <2> QED BY <1>2, <1>4, <2>2
<1>14. \A u \in Threads : pc'[u] # "idle" => pc[u] # "idle"
  BY <1>1, <1>11
<1>15. Waits'
  BY <1>1, <1>3, <1>4, <1>12, <1>13, <1>14 DEF Waits
<1>16. LoadBound'
  <2>1. (Cardinality(Late) \in 0 .. Cardinality(Threads))' /\ Cardinality(Threads) \in Nat
    BY LateCount, PTL
  <2>2. Limit(size') \in Nat /\ 8 * size' < 10 * Limit(size') + 10
    BY <1>4, LimitIs
  <2>3. load' <= Limit(size')
    BY <1>2, <1>4, <1>7, <2>2
  <2>4. Cardinality(Late') <= Cardinality(Threads) /\ Cardinality(Late') \in Nat
    BY <2>1
  <2>5. load' + Cardinality(Late') <= Limit(size') + Cardinality(Threads)
    BY <1>2, <1>7, <2>1, <2>2, <2>3, <2>4
  <2>6. load' = Cardinality(Full(ents', size'))
    BY <1>6, <1>7
  <2> QED BY <1>4, <2>5, <2>6 DEF LoadBound, Full
<1> QED BY <1>8, <1>9, <1>10, <1>15, <1>16 DEF IInv

\* The insertion after growth: a thread that was late no longer is.
LEMMA InsertGrownOK ==
  ASSUME IInv, NEW t \in Threads, InsertGrown(t)
  PROVE  IInv'
<1>1. /\ pc[t] = "free" /\ DoInsert(t, arg[t].key, arg[t].val)
      /\ pc' = [pc EXCEPT ![t] = "idle"] /\ arg' = [arg EXCEPT ![t] = None]
      /\ hash' = hash /\ size' = size
  BY DEF InsertGrown
<1>2. Waits
  BY DEF IInv
<1>3. arg[t].key \in Keys /\ arg[t].val \in Vals /\ size # InitSize
  BY <1>1, <1>2 DEF Waits
<1>4. /\ Sound(ents', size) /\ load' = Cardinality(Full(ents', size))
      /\ load' = load \/ load' = load + 1
  BY <1>1, <1>3, InsertEffect
<1>5. Positions'
  BY <1>1, <1>3, InsertPositions
<1>6. Sizes'
  BY <1>1 DEF IInv, Sizes, Hashes
<1>7. Sound(ents, size)'
  BY <1>1, <1>4, SoundNext
<1>8. \A u \in Threads : /\ pc'[u] = IF u = t THEN "idle" ELSE pc[u]
                         /\ arg'[u] = IF u = t THEN None ELSE arg[u]
  BY <1>1, <1>2 DEF Waits
<1>9. /\ pc' \in [Threads -> {"idle", "malloc", "free"}]
      /\ arg' \in [Threads -> {None} \cup [key : Keys, val : Vals, newsize : Nat]]
  BY <1>1, <1>2 DEF Waits
<1>10. Waits'
  BY <1>1, <1>2, <1>8, <1>9 DEF Waits
<1>11. t \in Late /\ Late' = Late \ {t}
  BY <1>1, <1>8 DEF Late
<1>12. /\ size \in Nat /\ load \in Nat /\ Limit(size) \in Nat
       /\ Cardinality(Threads) \in Nat /\ Cardinality(Late) \in Nat /\ IsFiniteSet(Late)
  BY RoomLeft, LimitIs, LateCount DEF IInv
<1>13. Cardinality(Late') = Cardinality(Late) - 1
  BY <1>11, <1>12, FS_RemoveElement
<1>14. LoadBound'
  <2>1. load + Cardinality(Late) <= Limit(size) + Cardinality(Threads)
    BY <1>3 DEF IInv, LoadBound
  <2>2. load' + Cardinality(Late') <= Limit(size) + Cardinality(Threads)
    BY <1>4, <1>12, <1>13, <2>1
  <2>3. load' = Cardinality(Full(ents', size'))
    BY <1>1, <1>4
  <2> QED BY <1>1, <1>3, <2>2, <2>3 DEF LoadBound, Full
<1> QED BY <1>5, <1>6, <1>7, <1>10, <1>14 DEF IInv

\* fz_hash_remove.
LEMMA RemoveKeyOK ==
  ASSUME IInv, NEW t \in Threads, NEW k \in Keys, RemoveKey(t, k)
  PROVE  IInv'
<1>1. HashRemove(k) /\ UNCHANGED <<hash, size, pc, arg>> /\ inserted' = inserted
  BY DEF RemoveKey
<1>2. Positions'
  <2>1. size \in Nat /\ size' \in Nat /\ size' >= size
    BY <1>1, RoomLeft DEF IInv
  <2> QED BY <1>1, <2>1, PositionsNext DEF IInv
<1>3. \/ ents' = ents /\ load' = load
      \/ \E first \in 0 .. size - 1 : ents[first] # None /\ RemoveEntry(first)
  BY <1>1, HashRemoveEffect
<1> QED BY <1>1, <1>2, <1>3, RemoveOK

\* fz_hash_remove_fast.
LEMMA RemoveFastOK ==
  ASSUME IInv, NEW t \in Threads, RemoveFast(t)
  PROVE  IInv'
<1>1. inserted' = [inserted EXCEPT ![t] = NoPos] /\ UNCHANGED <<hash, size, pc, arg>>
  BY DEF RemoveFast
<1>2. Positions'
  <2>1. size \in Nat /\ size' \in Nat /\ size' >= size
    BY <1>1, RoomLeft DEF IInv
  <2> QED BY <1>1, <2>1, PositionsNext DEF IInv
<1>3. \/ ents' = ents /\ load' = load
      \/ \E first \in 0 .. size - 1 : ents[first] # None /\ RemoveEntry(first)
  BY RemoveFastEffect
<1> QED BY <1>1, <1>2, <1>3, RemoveOK

\* The caller forgets a position.
LEMMA SettleOK ==
  ASSUME IInv, NEW t \in Threads, Settle(t)
  PROVE  IInv'
<1>1. /\ inserted' = [inserted EXCEPT ![t] = NoPos] /\ UNCHANGED <<hash, size, pc, arg>>
      /\ ents' = ents /\ load' = load
  BY DEF Settle
<1>2. Positions'
  <2>1. size \in Nat /\ size' \in Nat /\ size' >= size
    BY <1>1, RoomLeft DEF IInv
  <2> QED BY <1>1, <2>1, PositionsNext DEF IInv
<1> QED BY <1>1, <1>2, RemoveOK

\* fz_empty_hash.
LEMMA ClearOK ==
  ASSUME IInv, NEW t \in Threads, Clear(t)
  PROVE  IInv'
<1>1. /\ ents' = Empties(size) /\ load' = 0 /\ inserted' = inserted
      /\ UNCHANGED <<hash, size, pc, arg>>
  BY DEF Clear
<1>2. size \in Nat /\ size > 0 /\ load \in Nat
  BY RoomLeft DEF IInv
<1>3. Positions'
  <2>1. size' \in Nat /\ size' >= size
    BY <1>1, <1>2
  <2> QED BY <1>1, <1>2, <2>1, PositionsNext DEF IInv
<1>4. Sound(ents', size) /\ load' = Cardinality(Full(ents', size)) /\ load' <= load
  BY <1>1, <1>2, EmptyOK
<1> QED BY <1>1, <1>3, <1>4, ShrinkOK

\* Every step preserves the invariant.
LEMMA NextOK == IInv /\ [Next]_vars => IInv'
<1> SUFFICES ASSUME IInv, [Next]_vars PROVE IInv'
  OBVIOUS
<1>1. CASE UNCHANGED vars
  <2>1. UNCHANGED <<hash, ents, size, load, inserted>> /\ pc' = pc /\ arg' = arg
    BY <1>1 DEF vars
  <2>2. Waits' /\ Late' = Late
    BY <2>1, WaitsSame DEF IInv
  <2> QED BY <2>1, <2>2, WaitOK
<1>2. ASSUME NEW t \in Threads,
             \/ \E k \in Keys, v \in Vals : Insert(t, k, v) \/ InsertCrowded(t, k, v)
             \/ ResizeLost(t) \/ ResizeFail(t) \/ Resize(t) \/ InsertGrown(t)
             \/ \E k \in Keys : RemoveKey(t, k)
             \/ RemoveFast(t) \/ Settle(t) \/ Clear(t)
      PROVE  IInv'
  BY <1>2, InsertOK, InsertCrowdedOK, ResizeLostOK, ResizeFailOK, ResizeOK, InsertGrownOK,
     RemoveKeyOK, RemoveFastOK, SettleOK, ClearOK
<1> QED BY <1>1, <1>2 DEF Next

\* The inductive invariant holds of every behaviour.
THEOREM Invariance == Spec => []IInv
<1> QED BY InitOK, NextOK, PTL DEF Spec

\* Type correctness, for every number of threads, keys and values and every
\* hash function: sizes stay between the initial and the largest one.
THEOREM TypeCorrect == Spec => []TypeOK
<1> QED BY Invariance, TypeFollows, PTL

\* load counts the entries and leaves one slot empty at least, so the probe
\* loops of do_hash_insert, fz_hash_find and fz_hash_remove end, whatever the
\* other threads inserted in the gaps of fz_resize_hash.
THEOREM EveryProbeEnds == Spec => []ProbesEnd
<1> QED BY Invariance, EndFollows, PTL

\* No removal or growth cuts an entry off from its probe path.
THEOREM EntriesStayReachable == Spec => []EntriesReachable
<1> QED BY Invariance, ReachFollows, PTL

----------------------------------------------------------------------------
(* The table as a map *)

\* What fz_hash_find returns in the next state.
LEMMA FindNext ==
  ASSUME hash' = hash, NEW k \in Keys
  PROVE  Find(k) = Value(ents, size, k) /\ Find(k)' = Value(ents', size', k)
  BY DEF Find, Value, Probe, ProbeOffsets

\* A table with a slot to spare.
Roomy == /\ size \in Nat /\ load = Cardinality(Full(ents, size)) /\ load < size

\* The invariant leaves a slot to spare.
LEMMA RoomyFollows == IInv => Roomy
  BY RoomLeft DEF IInv, LoadBound, Roomy

\* So does the next state.
LEMMA RoomNext ==
  ASSUME IInv'
  PROVE  size' \in Nat /\ load' = Cardinality(Full(ents', size')) /\ load' < size'
<1>1. Roomy'
  BY RoomyFollows, PTL
<1> QED BY <1>1 DEF Roomy, Full

\* do_hash_insert changes at most the value of its key, from none to the given
\* one.
LEMMA InsertFinds ==
  ASSUME IInv, IInv', NEW t \in Threads, NEW k \in Keys, NEW v \in Vals, DoInsert(t, k, v),
         hash' = hash, size' = size
  PROVE  \/ \A l \in Keys : Find(l)' = Find(l)
         \/ Find(k) = None /\ Find(k)' = v /\ \A l \in Keys \ {k} : Find(l)' = Find(l)
<1>1. size \in Nat /\ size > 0 /\ Hashes /\ Gap(ents, size) /\ Sound(ents, size)
  BY RoomLeft DEF IInv
<1>2. load' = Cardinality(Full(ents', size')) /\ load' < size'
  BY RoomNext
<1>3. Gap(ents', size)
  BY <1>1, <1>2, FullFacts
<1>4. /\ Sound(ents', size)
      /\ \/ ents' = ents
         \/ /\ Value(ents, size, k) = None
            /\ \A d \in Entry :
                  Has(ents', size, d) <=> d = [key |-> k, val |-> v] \/ Has(ents, size, d)
  BY InsertEffect
<1>5. CASE ents' = ents
  BY <1>5, FindNext
<1>6. CASE /\ Value(ents, size, k) = None
           /\ \A d \in Entry :
                 Has(ents', size, d) <=> d = [key |-> k, val |-> v] \/ Has(ents, size, d)
  <2> DEFINE c == [key |-> k, val |-> v]
  <2>1. c \in Entry /\ c.key = k /\ c.val = v /\ c # None
    BY NoRecordAssumption DEF Entry
  <2> HIDE DEF c
  <2>2. \A d \in Entry : Has(ents', size, d) <=> d = c \/ Has(ents, size, d)
    BY <1>6 DEF c
  <2>3. Value(ents', size, k) = v
    <3>1. Has(ents', size, c)
      BY <2>1, <2>2
    <3>2. PICK p \in 0 .. size - 1 : ents'[p] = c
      BY <3>1 DEF Has
    <3>3. Value(ents', size, ents'[p].key) = ents'[p].val
      BY <1>1, <1>3, <1>4, <2>1, <3>2, ValueOf
    <3> QED BY <2>1, <3>2, <3>3
  <2>4. ASSUME NEW l \in Keys \ {k} PROVE Value(ents', size, l) = Value(ents, size, l)
    <3>1. \A d \in Entry : d.key = l => (Has(ents', size, d) <=> Has(ents, size, d))
      BY <2>1, <2>2
    <3> QED BY <1>1, <1>3, <1>4, <3>1, ValueSame
  <2>5. Value(ents, size, k) = None
    BY <1>6
  <2> QED BY <2>3, <2>4, <2>5, FindNext
<1> QED BY <1>4, <1>5, <1>6

\* do_removal changes the value of the key of the entry to none, and no other.
LEMMA RemoveFinds ==
  ASSUME IInv, IInv', NEW first \in 0 .. size - 1, ents[first] # None, RemoveEntry(first),
         hash' = hash, size' = size, NEW k \in Keys, ents[first].key = k
  PROVE  /\ Find(k) # None /\ Find(k)' = None
         /\ \A l \in Keys \ {k} : Find(l)' = Find(l)
<1> DEFINE c == ents[first]
<1>1. size \in Nat /\ size > 0 /\ Hashes /\ Gap(ents, size) /\ Sound(ents, size)
  BY RoomLeft DEF IInv
<1>2. load' = Cardinality(Full(ents', size')) /\ load' < size'
  BY RoomNext
<1>3. Gap(ents', size)
  BY <1>1, <1>2, FullFacts
<1>4. /\ Sound(ents', size)
      /\ \A d \in Entry : Has(ents', size, d) <=> Has(ents, size, d) /\ d # c
  BY RemoveEffect
<1>5. c.key = k /\ c.val # None /\ c \in Entry
  BY <1>1, SlotIs DEF Sound
<1>6. Value(ents, size, k) = c.val
  BY <1>1, ValueOf
<1> HIDE DEF c
<1>7. ASSUME NEW p \in 0 .. size - 1, ents'[p] # None, ents'[p].key = k PROVE FALSE
  <2>1. ents'[p] \in Entry
    BY <1>1, <1>4, <1>7, SlotIs DEF Sound
  <2>2. Has(ents', size, ents'[p])
    BY DEF Has
  <2>3. Has(ents, size, ents'[p]) /\ ents'[p] # c
    BY <1>4, <2>1, <2>2
  <2>4. PICK q \in 0 .. size - 1 : ents[q] = ents'[p]
    BY <2>3 DEF Has
  <2>5. q = first
    BY <1>1, <1>5, <1>7, <2>4 DEF Sound, Unique, c
  <2> QED BY <2>3, <2>4, <2>5 DEF c
<1>8. Value(ents', size, k) = None
  BY <1>1, <1>3, <1>4, <1>5, <1>7, ValueIs
<1>9. ASSUME NEW l \in Keys \ {k} PROVE Value(ents', size, l) = Value(ents, size, l)
  <2>1. \A d \in Entry : d.key = l => (Has(ents', size, d) <=> Has(ents, size, d))
    BY <1>4, <1>5
  <2> QED BY <1>1, <1>3, <1>4, <2>1, ValueSame
<1>10. Find(k) # None /\ Find(k)' = None
  BY <1>5, <1>6, <1>8, FindNext
<1>11. ASSUME NEW l \in Keys \ {k} PROVE Find(l)' = Find(l)
  BY <1>9, FindNext
<1> QED BY <1>10, <1>11

\* Growth changes no value.
LEMMA ResizeFinds ==
  ASSUME IInv, IInv', NEW t \in Threads, Resize(t)
  PROVE  \A l \in Keys : Find(l)' = Find(l)
<1>1. /\ size < arg[t].newsize /\ ents' = Rehash(ents, size, arg[t].newsize)
      /\ size' = arg[t].newsize /\ hash' = hash
  BY DEF Resize
<1>2. size \in Nat /\ size > 0 /\ Hashes /\ Gap(ents, size) /\ Sound(ents, size)
  BY RoomLeft DEF IInv
<1>3. size' \in Nat /\ load' = Cardinality(Full(ents', size')) /\ load' < size'
  BY RoomNext
<1>4. size' \in Nat /\ size' > 0 /\ size < size' /\ Gap(ents', size')
  <2>1. size' \in Nat /\ size < size'
    BY <1>1, <1>3
  <2>2. Gap(ents', size')
    BY <1>3, <2>1, FullFacts
  <2> QED BY <1>2, <2>1, <2>2
<1>5. /\ Sound(ents', size')
      /\ \A c \in Entry : Has(ents', size', c) <=> Has(ents, size, c)
  BY <1>1, <1>2, <1>4, RehashOK
<1>6. ASSUME NEW l \in Keys PROVE Value(ents', size', l) = Value(ents, size, l)
  BY <1>2, <1>4, <1>5, ValueSame
<1> QED BY <1>1, <1>6, FindNext

\* fz_empty_hash leaves no key a value.
LEMMA ClearFinds ==
  ASSUME IInv, NEW t \in Threads, Clear(t)
  PROVE  \A l \in Keys : Find(l)' = None
<1>1. ents' = Empties(size) /\ size' = size /\ hash' = hash
  BY DEF Clear
<1>2. size \in Nat /\ size > 0 /\ Hashes
  BY RoomLeft DEF IInv
<1>3. Sound(ents', size') /\ Gap(ents', size')
  BY <1>1, <1>2, EmptyOK
<1>4. \A p \in 0 .. size' - 1 : ents'[p] = None
  BY <1>1 DEF Empties
<1>5. ASSUME NEW l \in Keys PROVE Value(ents', size', l) = None
  BY <1>1, <1>2, <1>3, <1>4, ValueIs
<1> QED BY <1>1, <1>5, FindNext

\* A key that gets a value it had not is inserted into the map.
LEMMA MapInsert ==
  ASSUME NEW k \in Keys, NEW v \in Vals, Find(k) = None, Find(k)' = v,
         \A l \in Keys \ {k} : Find(l)' = Find(l)
  PROVE  Map!Insert(k, v)
  BY DEF Map!Insert, Content

\* A key that loses its value is removed from the map.
LEMMA MapRemove ==
  ASSUME NEW k \in Keys, Find(k) # None, Find(k)' = None,
         \A l \in Keys \ {k} : Find(l)' = Find(l)
  PROVE  Map!Remove(k)
<1>1. \A l \in Keys : Find(l)' = IF l = k THEN None ELSE Find(l)
  OBVIOUS
<1>2. Content' = [Content EXCEPT ![k] = None]
  BY <1>1 DEF Content
<1> QED BY <1>2 DEF Map!Remove, Content

\* A table in which every key keeps its value is the same map.
LEMMA MapSame ==
  ASSUME \A l \in Keys : Find(l)' = Find(l)
  PROVE  UNCHANGED Content
  BY DEF Content

\* do_hash_insert is an insertion into the map, or nothing.
LEMMA InsertMaps ==
  ASSUME IInv, IInv', NEW t \in Threads, NEW k \in Keys, NEW v \in Vals, DoInsert(t, k, v),
         hash' = hash, size' = size
  PROVE  [Map!Next]_Content
<1>1. CASE \A l \in Keys : Find(l)' = Find(l)
  BY <1>1, MapSame
<1>2. CASE Find(k) = None /\ Find(k)' = v /\ \A l \in Keys \ {k} : Find(l)' = Find(l)
  BY <1>2, MapInsert DEF Map!Next
<1> QED BY <1>1, <1>2, InsertFinds

\* A removal of one key, or of nothing, is one of the map.
LEMMA RemoveMaps ==
  ASSUME IInv, IInv', hash' = hash, size' = size, NEW k \in Keys,
         \/ ents' = ents
         \/ \E first \in 0 .. size - 1 :
               ents[first] # None /\ ents[first].key = k /\ RemoveEntry(first)
  PROVE  /\ [Map!Next]_Content
         /\ \A l \in Keys \ {k} : Find(l)' = Find(l)
<1>1. CASE ents' = ents
  <2>1. \A l \in Keys : Find(l)' = Find(l)
    BY <1>1, FindNext
  <2> QED BY <2>1, MapSame
<1>2. ASSUME NEW first \in 0 .. size - 1, ents[first] # None, ents[first].key = k,
             RemoveEntry(first)
      PROVE  /\ Map!Remove(k)
             /\ \A l \in Keys \ {k} : Find(l)' = Find(l)
  BY <1>2, RemoveFinds, MapRemove
<1> QED BY <1>1, <1>2 DEF Map!Next

\* A step that leaves the table alone leaves the map alone.
LEMMA StillMaps ==
  ASSUME hash' = hash, ents' = ents, size' = size
  PROVE  \A l \in Keys : Find(l)' = Find(l)
  BY FindNext

\* The new table is the empty map.
LEMMA InitMaps == Init => Map!Init
<1> SUFFICES ASSUME Init PROVE Map!Init
  OBVIOUS
<1>1. ents = Empties(size) /\ size \in Nat /\ size > 0
  BY HashAssumption DEF Init
<1>2. Hashes /\ Sound(ents, size) /\ Gap(ents, size)
  BY <1>1, InitOK, EmptyOK DEF IInv, Sizes
<1>3. ASSUME NEW k \in Keys PROVE Value(ents, size, k) = None
  <2>1. \A p \in 0 .. size - 1 : ents[p] = None
    BY <1>1 DEF Empties
  <2> QED BY <1>1, <1>2, <2>1, ValueIs
<1>4. \A k \in Keys : Find(k) = None
  BY <1>3 DEF Find, Value, Probe, ProbeOffsets
<1> QED BY <1>4 DEF Map!Init, Content

\* Every step of the table is one of the map, or none, and a removal by
\* position touches no other key.
LEMMA StepMaps ==
  IInv /\ IInv' /\ [Next]_vars => [Map!Next]_Content
<1> SUFFICES ASSUME IInv, IInv', [Next]_vars
             PROVE  [Map!Next]_Content
  OBVIOUS
<1>1. CASE UNCHANGED vars
  BY <1>1, StillMaps, MapSame DEF vars
<1>2. ASSUME NEW t \in Threads, NEW k \in Keys, NEW v \in Vals, Insert(t, k, v)
      PROVE  [Map!Next]_Content
  BY <1>2, InsertMaps DEF Insert
<1>3. ASSUME NEW t \in Threads, NEW k \in Keys, NEW v \in Vals, InsertCrowded(t, k, v)
      PROVE  [Map!Next]_Content
  BY <1>3, StillMaps, MapSame DEF InsertCrowded
<1>4. ASSUME NEW t \in Threads, ResizeLost(t) \/ ResizeFail(t) \/ Settle(t)
      PROVE  [Map!Next]_Content
  <2>1. hash' = hash /\ ents' = ents /\ size' = size
    BY <1>4 DEF ResizeLost, ResizeFail, Settle
  <2> QED BY <2>1, StillMaps, MapSame
<1>5. ASSUME NEW t \in Threads, Resize(t)
      PROVE  [Map!Next]_Content
  BY <1>5, ResizeFinds, MapSame
<1>6. ASSUME NEW t \in Threads, InsertGrown(t)
      PROVE  [Map!Next]_Content
  <2>1. /\ arg[t].key \in Keys /\ arg[t].val \in Vals
        /\ DoInsert(t, arg[t].key, arg[t].val) /\ hash' = hash /\ size' = size
    BY <1>6 DEF InsertGrown, IInv, Waits
  <2>2. PICK k \in Keys, v \in Vals : k = arg[t].key /\ v = arg[t].val
    BY <2>1
  <2>3. DoInsert(t, k, v)
    BY <2>1, <2>2
  <2> QED BY <2>1, <2>3, InsertMaps
<1>7. ASSUME NEW t \in Threads, NEW k \in Keys, RemoveKey(t, k)
      PROVE  [Map!Next]_Content
  <2>1. HashRemove(k) /\ hash' = hash /\ size' = size
    BY <1>7 DEF RemoveKey
  <2>2. \/ ents' = ents
        \/ \E first \in 0 .. size - 1 :
              ents[first] # None /\ ents[first].key = k /\ RemoveEntry(first)
    BY <2>1, HashRemoveEffect
  <2> QED BY <2>1, <2>2, RemoveMaps
<1>8. ASSUME NEW t \in Threads, RemoveFast(t)
      PROVE  [Map!Next]_Content
  <2>1. PICK k \in Keys : k = inserted[t].key
    BY <1>8, RemoveFastEffect
  <2>2. \/ ents' = ents
        \/ \E first \in 0 .. size - 1 :
              ents[first] # None /\ ents[first].key = k /\ RemoveEntry(first)
    BY <1>8, <2>1, RemoveFastEffect
  <2>3. hash' = hash /\ size' = size
    BY <1>8 DEF RemoveFast
  <2> QED BY <2>2, <2>3, RemoveMaps
<1>9. ASSUME NEW t \in Threads, Clear(t)
      PROVE  [Map!Next]_Content
  <2>1. Map!Empty
    BY <1>9, ClearFinds DEF Map!Empty, Content
  <2> QED BY <2>1 DEF Map!Next
<1> QED BY <1>1, <1>2, <1>3, <1>4, <1>5, <1>6, <1>7, <1>8, <1>9 DEF Next

\* Whatever is shifted, grown or inserted in the gaps, the table is the partial
\* map its callers take it for.
THEOREM HashIsMap == Spec => IsMap
<1>1. Init => Map!Init
  BY InitMaps
<1>2. IInv /\ IInv' /\ [Next]_vars => [Map!Next]_Content
  BY StepMaps
<1> QED BY <1>1, <1>2, Invariance, PTL DEF Spec, Map!Spec, IsMap

\* Only the removal by position and Settle end a thread's hold on a position.
LEMMA PositionEnds ==
  ASSUME IInv, [Next]_vars, NEW t \in PosUsers, inserted[t] # NoPos, inserted'[t] = NoPos
  PROVE  RemoveFast(t) \/ Settle(t)
<1>1. t \in Threads /\ inserted \in [Threads -> [key : Keys \cup {None}, pos : Nat]]
  BY HashAssumption DEF IInv, Positions
<1>2. ASSUME NEW u \in Threads, NEW k \in Keys, NEW v \in Vals, DoInsert(u, k, v) PROVE FALSE
  <2>1. PICK p \in 0 .. size - 1 :
          inserted' = IF u \in PosUsers
                      THEN [inserted EXCEPT ![u] = [key |-> k, pos |-> p]] ELSE inserted
    BY <1>2, InsertEffect
  <2>2. [key |-> k, pos |-> p] # NoPos
    BY HashAssumption DEF NoPos
  <2> QED BY <1>1, <2>1, <2>2
<1>3. ASSUME inserted' = inserted PROVE FALSE
  BY <1>3
<1>4. CASE UNCHANGED vars
  BY <1>3, <1>4 DEF vars
<1>5. ASSUME NEW u \in Threads, NEW k \in Keys, NEW v \in Vals,
             Insert(u, k, v) \/ InsertCrowded(u, k, v)
      PROVE  FALSE
  BY <1>2, <1>3, <1>5 DEF Insert, InsertCrowded
<1>6. ASSUME NEW u \in Threads, ResizeLost(u) \/ ResizeFail(u) \/ Resize(u) \/ Clear(u)
      PROVE  FALSE
  BY <1>3, <1>6 DEF ResizeLost, ResizeFail, Resize, Clear
<1>7. ASSUME NEW u \in Threads, InsertGrown(u) PROVE FALSE
  BY <1>2, <1>7 DEF InsertGrown, IInv, Waits
<1>8. ASSUME NEW u \in Threads, NEW k \in Keys, RemoveKey(u, k) PROVE FALSE
  BY <1>3, <1>8 DEF RemoveKey
<1>9. ASSUME NEW u \in Threads, RemoveFast(u) \/ Settle(u) PROVE u = t
  BY <1>1, <1>9 DEF RemoveFast, Settle
<1> QED BY <1>4, <1>5, <1>6, <1>7, <1>8, <1>9 DEF Next

\* fz_hash_remove_fast and Settle change no key but the one of the position.
LEMMA FastStep ==
  IInv /\ IInv' /\ [Next]_vars =>
     \A t \in PosUsers :
        inserted[t] # NoPos /\ inserted'[t] = NoPos
           => \A k \in Keys \ {inserted[t].key} : Find(k)' = Find(k)
<1> SUFFICES ASSUME IInv, IInv', [Next]_vars, NEW t \in PosUsers,
                    inserted[t] # NoPos, inserted'[t] = NoPos
             PROVE  \A k \in Keys \ {inserted[t].key} : Find(k)' = Find(k)
  OBVIOUS
<1>1. t \in Threads
  BY HashAssumption
<1>2. CASE RemoveFast(t)
  <2>1. PICK k \in Keys : k = inserted[t].key
    BY <1>1, <1>2, RemoveFastEffect
  <2>2. \/ ents' = ents
        \/ \E first \in 0 .. size - 1 :
              ents[first] # None /\ ents[first].key = k /\ RemoveEntry(first)
    BY <1>1, <1>2, <2>1, RemoveFastEffect
  <2>3. hash' = hash /\ size' = size
    BY <1>2 DEF RemoveFast
  <2>4. \A l \in Keys \ {k} : Find(l)' = Find(l)
    BY <2>2, <2>3, RemoveMaps
  <2> QED BY <2>1, <2>4
<1>3. CASE Settle(t)
  BY <1>3, StillMaps DEF Settle
<1> QED BY <1>2, <1>3, PositionEnds

\* A removal by position takes out the key it was inserted for, or nothing,
\* whatever has since come to lie at that position.
THEOREM FastRemovesOwnKey == Spec => FastRemovesItsKey
<1> QED BY FastStep, Invariance, PTL DEF Spec, FastRemovesItsKey

-----------------------------------------------------------------------------
(* Exceptions *)

\* The values the comment above throw (error.c:53-80) gives the code in each
\* clause: 0 in the try, then 1 or, after a throw, 3 in the always clause.
CodesFit ==
    \A f \in 0 .. top :
        /\ block[buffer[f]].at = "try" => code[f] = 0
        /\ block[buffer[f]].at = "always" => code[f] \in {1, 3} /\ block[buffer[f]].always

ErrorInv == ErrorTypeOK /\ Balanced /\ CodesFit

\* A code with which control reaches the fz_always of block k.
Reaches(k, c) ==
    \/ block[k].at = "try" /\ c \in {0, 2}
    \/ block[k].at = "always" /\ c \in {3, 5} /\ block[k].always

----------------------------------------------------------------------------
(* The entry on top *)

\* The entry on top belongs to the innermost block not in its catch clause.
LEMMA TopEntry ==
    ASSUME ErrorInv, top >= 0
    PROVE  /\ top \in Frames /\ buffer[top] \in Open
           /\ \A b \in buffer[top] + 1 .. depth : block[b].at = "catch"
           /\ \A f \in 0 .. top - 1 : buffer[f] < buffer[top]
<1>1. top \in Frames /\ top \in 0 .. top  BY FzErrorAssumption DEF ErrorInv, ErrorTypeOK, Frames
<1>2. buffer[top] \in Open  BY <1>1 DEF ErrorInv, Balanced
<1>3. \A f \in 0 .. top - 1 : buffer[f] < buffer[top]
  BY <1>1 DEF ErrorInv, ErrorTypeOK, Balanced
<1>4. ASSUME NEW b \in buffer[top] + 1 .. depth, block[b].at # "catch" PROVE FALSE
  <2>1. buffer[top] \in 1 .. depth  BY <1>2 DEF Open
  <2>2. b \in Open  BY <1>4, <2>1 DEF Open, ErrorInv, ErrorTypeOK
  <2>3. PICK g \in 0 .. top : buffer[g] = b  BY <2>2 DEF ErrorInv, Balanced
  <2>4. g = top \/ g \in 0 .. top - 1  BY <1>1, <2>3 DEF ErrorInv, ErrorTypeOK
  <2> QED  BY <1>3, <2>1, <2>3, <2>4
<1> QED  BY <1>1, <1>2, <1>3, <1>4

\* In a try or always clause the entry on top is that of the block itself.
LEMMA TopIsInnermost ==
    ASSUME ErrorInv, depth > 0, block[depth].at # "catch"
    PROVE  top >= 0 /\ buffer[top] = depth
<1>1. depth \in Open  BY DEF ErrorInv, ErrorTypeOK, Open
<1>2. PICK g \in 0 .. top : buffer[g] = depth  BY <1>1 DEF ErrorInv, Balanced
<1>3. top >= 0  BY <1>2 DEF ErrorInv, ErrorTypeOK
<1>4. buffer[top] \in 1 .. depth  BY <1>3, TopEntry DEF Open
<1>5. ASSUME g # top PROVE FALSE
  <2>1. g \in 0 .. top - 1  BY <1>2, <1>5 DEF ErrorInv, ErrorTypeOK
  <2>2. buffer[g] < buffer[top]  BY <1>3, <2>1, TopEntry
  <2> QED  BY <1>2, <1>4, <2>2 DEF ErrorInv, ErrorTypeOK
<1> QED  BY <1>2, <1>3, <1>5

----------------------------------------------------------------------------
(* Arriving at fz_always and fz_catch *)

Blocks(n) == [1 .. n -> [at : {"try", "always", "catch"}, always : BOOLEAN]]

\* Going to a step keeps the invariant.
LEMMA MoveToKeeps ==
    ASSUME ErrorTypeOK, NEW k \in 1 .. depth, NEW place \in {"try", "always", "catch"}, MoveTo(k, place)
    PROVE  /\ depth' = k /\ block' \in Blocks(k)
           /\ \A b \in 1 .. k - 1 : block'[b] = block[b]
           /\ block'[k].at = place /\ block'[k].always = block[k].always
           /\ block'[k] = [block[k] EXCEPT !.at = place]
<1>1. depth \in Int /\ block \in Blocks(depth)  BY DEF ErrorTypeOK, Blocks
<1>2. [block[k] EXCEPT !.at = place] \in [at : {"try", "always", "catch"}, always : BOOLEAN]
  BY <1>1 DEF Blocks
<1>3. block' \in Blocks(k) /\ block'[k] = [block[k] EXCEPT !.at = place]
  BY <1>1, <1>2 DEF MoveTo, Blocks
<1>4. \A b \in 1 .. k - 1 : block'[b] = block[b]  BY <1>1 DEF MoveTo
<1>5. block[k] \in [at : {"try", "always", "catch"}, always : BOOLEAN]  BY <1>1 DEF Blocks
<1> QED  BY <1>3, <1>4, <1>5 DEF MoveTo

\* Returning to a step keeps the invariant.
LEMMA ReturnToKeeps ==
    ASSUME ErrorTypeOK, NEW k \in 0 .. depth, ReturnTo(k)
    PROVE  /\ depth' = k /\ block' \in Blocks(k)
           /\ \A b \in 1 .. k : block'[b] = block[b]
BY DEF ReturnTo, ErrorTypeOK, Blocks

\* fz_catch keeps the invariant.
LEMMA CatchTestKeeps ==
    ASSUME ErrorInv, top >= 0, NEW c \in 0 .. 5, CatchTest(buffer[top], c), UNCHANGED exited
    PROVE  ErrorInv'
<1> DEFINE k == buffer[top]
<1>1. /\ top \in Frames /\ top \in Int /\ k \in 1 .. depth /\ k \in Int /\ depth \in 0 .. MaxBlocks
      /\ \A f \in 0 .. top - 1 : buffer[f] < k
  BY TopEntry, FzErrorAssumption DEF Open, ErrorInv, ErrorTypeOK
<1>2. /\ top' = top - 1 /\ code' = [code EXCEPT ![top] = c] /\ buffer' = buffer
      /\ depth' \in {k - 1, k}
      /\ block' \in Blocks(depth')
      /\ \A b \in 1 .. k - 1 : block'[b] = block[b]
      /\ depth' = k => block'[k].at = "catch"
  <2>1. CASE c > 1
    BY <1>1, <2>1, MoveToKeeps DEF CatchTest, ErrorInv
  <2>2. CASE ~(c > 1)
    <3>1. k - 1 \in 0 .. depth  BY <1>1
    <3> QED  BY <1>1, <2>2, <3>1, ReturnToKeeps DEF CatchTest, ErrorInv
  <2> QED  BY <2>1, <2>2
<1>3. ErrorTypeOK'  BY <1>1, <1>2, FzErrorAssumption DEF ErrorInv, ErrorTypeOK, Frames, Blocks
<1>4. Open' = {b \in 1 .. k - 1 : block[b].at # "catch"}
  <2>1. CASE depth' = k  BY <1>1, <1>2, <2>1 DEF Open
  <2>2. CASE depth' = k - 1  BY <1>1, <1>2, <2>2 DEF Open
  <2> QED  BY <1>2, <2>1, <2>2
<1>5. {buffer'[f] : f \in 0 .. top'} = Open'
  <2>1. ASSUME NEW f \in 0 .. top - 1 PROVE buffer[f] \in Open'
    <3>1. buffer[f] \in Open /\ buffer[f] < k  BY <1>1, <2>1 DEF ErrorInv, Balanced
    <3> QED  BY <1>1, <1>4, <3>1 DEF Open
  <2>2. ASSUME NEW b \in Open' PROVE \E f \in 0 .. top - 1 : buffer[f] = b
    <3>1. b \in Open /\ b < k  BY <1>1, <1>4, <2>2 DEF Open
    <3>2. PICK f \in 0 .. top : buffer[f] = b  BY <3>1 DEF ErrorInv, Balanced
    <3>3. f # top  BY <3>1, <3>2, <1>1
    <3> QED  BY <1>1, <3>2, <3>3
  <2> QED  BY <1>2, <2>1, <2>2
<1>6. \A f, g \in 0 .. top' : f < g => buffer'[f] < buffer'[g]
  BY <1>1, <1>2 DEF ErrorInv, Balanced
<1>7. CodesFit'
  <2> SUFFICES ASSUME NEW f \in 0 .. top - 1
               PROVE  /\ block'[buffer[f]].at = "try" => code[f] = 0
                      /\ block'[buffer[f]].at = "always" => code[f] \in {1, 3} /\ block'[buffer[f]].always
    BY <1>1, <1>2 DEF CodesFit, ErrorInv, ErrorTypeOK, Frames
  <2>1. buffer[f] \in 1 .. k - 1  BY <1>1 DEF ErrorInv, Balanced, Open
  <2>2. f \in 0 .. top  BY <1>1
  <2> QED  BY <1>2, <2>1, <2>2 DEF ErrorInv, CodesFit
<1> QED  BY <1>3, <1>5, <1>6, <1>7 DEF ErrorInv, Balanced

\* fz_always keeps the invariant.
LEMMA AlwaysTestKeeps ==
    ASSUME ErrorInv, top >= 0, NEW c \in 0 .. 5, Reaches(buffer[top], c),
           AlwaysTest(buffer[top], c), UNCHANGED exited
    PROVE  ErrorInv'
<1> DEFINE k == buffer[top]
<1>1. CASE ~(block[k].always /\ c < 3)
  BY <1>1, CatchTestKeeps DEF AlwaysTest
<1>2. CASE block[k].always /\ c < 3
  <2>1. /\ top \in Frames /\ top \in Int /\ k \in 1 .. depth /\ k \in Int /\ depth \in 0 .. MaxBlocks
        /\ \A f \in 0 .. top - 1 : buffer[f] < k
        /\ block[k].at # "catch" /\ \A b \in k + 1 .. depth : block[b].at = "catch"
    BY TopEntry, FzErrorAssumption DEF Open, ErrorInv, ErrorTypeOK
  <2>2. block[k].at = "try" /\ c \in {0, 2}  BY <1>2 DEF Reaches
  <2>3. /\ code' = [code EXCEPT ![top] = c + 1] /\ top' = top /\ buffer' = buffer
        /\ MoveTo(k, "always")
    BY <1>2 DEF AlwaysTest
  <2>4. /\ depth' = k /\ block' \in Blocks(k)
        /\ \A b \in 1 .. k - 1 : block'[b] = block[b]
        /\ block'[k].at = "always" /\ block'[k].always
    BY <1>2, <2>1, <2>3, MoveToKeeps DEF ErrorInv
  <2>5. ErrorTypeOK'
    <3>1. code' \in [Frames -> 0 .. 5]  BY <2>1, <2>2, <2>3 DEF ErrorInv, ErrorTypeOK
    <3> QED  BY <2>1, <2>3, <2>4, <3>1 DEF ErrorInv, ErrorTypeOK, Blocks
  <2>6. Open' = Open
    <3>1. Open' = {b \in 1 .. k - 1 : block[b].at # "catch"} \cup {k}
      BY <2>1, <2>4 DEF Open
    <3>2. Open = {b \in 1 .. k - 1 : block[b].at # "catch"} \cup {k}
      BY <2>1 DEF Open
    <3> QED  BY <3>1, <3>2
  <2>7. Balanced'  BY <2>3, <2>6 DEF ErrorInv, Balanced
  <2>8. CodesFit'
    <3> SUFFICES ASSUME NEW f \in 0 .. top
                 PROVE  /\ block'[buffer[f]].at = "try" => code'[f] = 0
                        /\ block'[buffer[f]].at = "always"
                              => code'[f] \in {1, 3} /\ block'[buffer[f]].always
      BY <2>3 DEF CodesFit
    <3>1. CASE f = top  BY <2>1, <2>2, <2>3, <2>4, <3>1 DEF ErrorInv, ErrorTypeOK
    <3>2. CASE f # top
      <4>1. f \in 0 .. top - 1 /\ f \in Frames  BY <2>1, <3>2, FzErrorAssumption DEF ErrorInv, ErrorTypeOK, Frames
      <4>2. buffer[f] \in 1 .. k - 1  BY <2>1, <4>1 DEF ErrorInv, Balanced, Open
      <4>3. code'[f] = code[f]  BY <2>3, <3>2, <4>1 DEF ErrorInv, ErrorTypeOK
      <4> QED  BY <2>4, <4>2, <4>3 DEF ErrorInv, CodesFit
    <3> QED  BY <3>1, <3>2
  <2> QED  BY <2>5, <2>7, <2>8 DEF ErrorInv
<1> QED  BY <1>1, <1>2

\* The code with which throw and the end of a clause arrive.
LEMMA TopCode ==
    ASSUME ErrorInv, top >= 0
    PROVE  /\ code[top] \in {0, 1, 3}
           /\ code[top] + 2 \in 0 .. 5 /\ Reaches(buffer[top], code[top] + 2)
           /\ block[buffer[top]].at = "try" => Reaches(buffer[top], code[top])
<1>1. top \in 0 .. top /\ buffer[top] \in Open  BY TopEntry DEF ErrorInv, ErrorTypeOK, Frames
<1>2. block[buffer[top]].at \in {"try", "always"}  BY <1>1 DEF Open, ErrorInv, ErrorTypeOK
<1> QED  BY <1>1, <1>2 DEF ErrorInv, CodesFit, Reaches

\* A longjmp to the top frame keeps the invariant.
LEMMA JumpTopKeeps ==
    ASSUME ErrorInv, JumpTop
    PROVE  ErrorInv'
<1>1. CASE top >= 0
  BY <1>1, TopCode, AlwaysTestKeeps DEF JumpTop
<1>2. CASE ~(top >= 0)
  BY <1>2 DEF JumpTop, ex, ErrorInv, ErrorTypeOK, Balanced, CodesFit, Open
<1> QED  BY <1>1, <1>2

----------------------------------------------------------------------------
(* The invariant *)

\* Entering a try keeps the invariant.
LEMMA EnterTryKeeps ==
    ASSUME ErrorInv, NEW always \in BOOLEAN, EnterTry(always)
    PROVE  ErrorInv'
<1>1. /\ top \in Int /\ top + 1 \in Frames /\ top + 1 <= StackSize - 2
      /\ depth \in Int /\ depth + 1 \in 1 .. MaxBlocks
  BY FzErrorAssumption DEF EnterTry, HasRoom, ErrorInv, ErrorTypeOK, Frames
<1>2. /\ top' = top + 1 /\ depth' = depth + 1
      /\ code' = [code EXCEPT ![top + 1] = 0] /\ buffer' = [buffer EXCEPT ![top + 1] = depth + 1]
  BY DEF EnterTry
<1>3. /\ block' \in Blocks(depth + 1)
      /\ \A b \in 1 .. depth : block'[b] = block[b]
      /\ block'[depth + 1].at = "try"
  BY <1>1 DEF EnterTry, ErrorInv, ErrorTypeOK, Blocks
<1>4. ErrorTypeOK'
  <2>1. code' \in [Frames -> 0 .. 5] /\ buffer' \in [Frames -> 0 .. MaxBlocks]
    BY <1>1, <1>2 DEF ErrorInv, ErrorTypeOK
  <2>2. top' \in -1 .. StackSize - 2 /\ exited' \in BOOLEAN
    BY <1>1, <1>2, FzErrorAssumption DEF EnterTry, ErrorInv, ErrorTypeOK
  <2> QED  BY <1>1, <1>2, <1>3, <2>1, <2>2 DEF ErrorInv, ErrorTypeOK, Blocks
<1>5. \A f \in 0 .. top : f \in Frames /\ buffer'[f] = buffer[f] /\ code'[f] = code[f] /\ buffer[f] \in 1 .. depth
  <2> SUFFICES ASSUME NEW f \in 0 .. top
               PROVE  f \in Frames /\ buffer'[f] = buffer[f] /\ code'[f] = code[f] /\ buffer[f] \in 1 .. depth
    OBVIOUS
  <2>1. f \in Frames /\ f # top + 1  BY <1>1, FzErrorAssumption DEF Frames
  <2>2. buffer[f] \in Open  BY DEF ErrorInv, Balanced
  <2> QED  BY <1>2, <2>1, <2>2 DEF Open, ErrorInv, ErrorTypeOK
<1>6. buffer'[top + 1] = depth + 1 /\ code'[top + 1] = 0  BY <1>1, <1>2 DEF ErrorInv, ErrorTypeOK
<1>7. Open' = Open \cup {depth + 1}  BY <1>1, <1>2, <1>3 DEF Open
<1>8. {buffer'[f] : f \in 0 .. top + 1} = {buffer[f] : f \in 0 .. top} \cup {depth + 1}
  <2>1. 0 .. top + 1 = (0 .. top) \cup {top + 1}
    BY <1>1 DEF ErrorInv, ErrorTypeOK
  <2> QED  BY <1>5, <1>6, <2>1
<1>9. \A f, g \in 0 .. top + 1 : f < g => buffer'[f] < buffer'[g]
  <2> SUFFICES ASSUME NEW f \in 0 .. top + 1, NEW g \in 0 .. top + 1, f < g
               PROVE  buffer'[f] < buffer'[g]
    OBVIOUS
  <2>1. f \in 0 .. top  BY <1>1
  <2>2. CASE g = top + 1  BY <1>1, <1>5, <1>6, <2>1, <2>2
  <2>3. CASE g # top + 1
    <3>1. g \in 0 .. top  BY <1>1, <2>3
    <3> QED  BY <1>5, <2>1, <3>1 DEF ErrorInv, Balanced
  <2> QED  BY <2>2, <2>3
<1>10. CodesFit'
  <2> SUFFICES ASSUME NEW f \in 0 .. top + 1
               PROVE  /\ block'[buffer'[f]].at = "try" => code'[f] = 0
                      /\ block'[buffer'[f]].at = "always"
                            => code'[f] \in {1, 3} /\ block'[buffer'[f]].always
    BY <1>2 DEF CodesFit
  <2>1. CASE f = top + 1  BY <1>3, <1>6, <2>1
  <2>2. CASE f # top + 1
    <3>1. f \in 0 .. top  BY <1>1, <2>2
    <3> QED  BY <1>3, <1>5, <3>1 DEF ErrorInv, CodesFit
  <2> QED  BY <2>1, <2>2
<1> QED  BY <1>2, <1>4, <1>7, <1>8, <1>9, <1>10 DEF ErrorInv, Balanced

\* Leaving a catch keeps the invariant.
LEMMA FinishCatchKeeps ==
    ASSUME ErrorInv, FinishCatch
    PROVE  ErrorInv'
<1>1. /\ depth \in Int /\ depth > 0 /\ block[depth].at = "catch"
      /\ depth - 1 \in 0 .. depth /\ ReturnTo(depth - 1) /\ UNCHANGED <<ex, exited>>
  BY DEF FinishCatch, Inside, ErrorInv, ErrorTypeOK
<1>2. /\ depth' = depth - 1 /\ block' \in Blocks(depth - 1)
      /\ \A b \in 1 .. depth - 1 : block'[b] = block[b]
  BY <1>1, ReturnToKeeps DEF ErrorInv
<1>3. ErrorTypeOK'
  <2>1. UNCHANGED <<top, code, buffer, exited>>  BY <1>1 DEF ex
  <2>2. depth' \in 0 .. MaxBlocks  BY <1>1, <1>2, FzErrorAssumption DEF ErrorInv, ErrorTypeOK
  <2>3. block' \in [1 .. depth' -> [at : {"try", "always", "catch"}, always : BOOLEAN]]
    BY <1>2 DEF Blocks
  <2> QED  BY <2>1, <2>2, <2>3 DEF ErrorInv, ErrorTypeOK
<1>4. Open' = Open  BY <1>1, <1>2 DEF Open
<1>5. \A f \in 0 .. top : buffer[f] \in 1 .. depth - 1
  BY <1>1, <1>2, <1>4 DEF ErrorInv, Balanced, Open
<1>6. CodesFit'  BY <1>1, <1>2, <1>5 DEF ex, ErrorInv, CodesFit
<1> QED  BY <1>1, <1>3, <1>4, <1>6 DEF ex, ErrorInv, Balanced

\* fz_always and fz_catch find their own frame on the top, no error in it.
LEMMA FinishTryArrives ==
    ASSUME ErrorInv, FinishTry
    PROVE  /\ top >= 0 /\ buffer[top] = depth
           /\ code[top] = 0 /\ Reaches(buffer[top], code[top])
<1>1. block[depth].at = "try" /\ depth > 0  BY DEF FinishTry, Inside
<1>2. top >= 0 /\ buffer[top] = depth  BY <1>1, TopIsInnermost
<1>3. top \in 0 .. top  BY <1>2 DEF ErrorInv, ErrorTypeOK
<1> QED  BY <1>1, <1>2, <1>3, TopCode DEF ErrorInv, CodesFit

\* fz_catch finds its own frame on the top, behind its always block.
LEMMA FinishAlwaysArrives ==
    ASSUME ErrorInv, FinishAlways
    PROVE  top >= 0 /\ buffer[top] = depth /\ code[top] \in {1, 3}
<1>1. block[depth].at = "always" /\ depth > 0  BY DEF FinishAlways, Inside
<1>2. top >= 0 /\ buffer[top] = depth  BY <1>1, TopIsInnermost
<1>3. top \in 0 .. top  BY <1>2 DEF ErrorInv, ErrorTypeOK
<1> QED  BY <1>1, <1>2, <1>3 DEF ErrorInv, CodesFit

\* The invariant holds at first ...
THEOREM ErrorInitOK == ErrorInit => ErrorInv
BY FzErrorAssumption DEF ErrorInit, ErrorInv, ErrorTypeOK, Balanced, CodesFit, Open, Frames

\* ... and after each step.
THEOREM ErrorNextOK == ErrorInv /\ [ErrorNext]_errorVars => ErrorInv'
<1> SUFFICES ASSUME ErrorInv, [ErrorNext]_errorVars PROVE ErrorInv'
  OBVIOUS
<1>1. ASSUME NEW always \in BOOLEAN, EnterTry(always) PROVE ErrorInv'
  BY <1>1, EnterTryKeeps
<1>2. CASE EnterTryOverflow  BY <1>2, JumpTopKeeps DEF EnterTryOverflow
<1>3. CASE FinishTry
  BY <1>3, FinishTryArrives, AlwaysTestKeeps DEF FinishTry
<1>4. CASE FinishAlways
  BY <1>4, FinishAlwaysArrives, CatchTestKeeps DEF FinishAlways
<1>5. CASE FinishCatch  BY <1>5, FinishCatchKeeps
<1>6. CASE Throw  BY <1>6, JumpTopKeeps DEF Throw
<1>7. CASE UNCHANGED errorVars
  BY <1>7 DEF errorVars, ex, ErrorInv, ErrorTypeOK, Balanced, CodesFit, Open
<1> QED  BY <1>1, <1>2, <1>3, <1>4, <1>5, <1>6, <1>7 DEF ErrorNext

----------------------------------------------------------------------------
(* The refinement *)

\* A block below the entry on top looks the same when that entry changes.
LEMMA BelowTop ==
    ASSUME ErrorInv, top >= 0, NEW b \in 1 .. buffer[top] - 1,
           b <= depth', depth' \in Int, block'[b] = block[b],
           buffer' = buffer, top' \in {top - 1, top},
           \A f \in 0 .. top - 1 : code'[f] = code[f],
           top' = top => buffer[top] # b
    PROVE  MappedBlock'[b] = MappedBlock[b]
<1>1. /\ top \in Int /\ b \in 1 .. depth /\ b \in 1 .. depth'
      /\ \A f \in 0 .. top : buffer[f] = b => f \in 0 .. top - 1
  <2>1. buffer[top] \in 1 .. depth /\ top \in Int /\ depth \in Int
    BY TopEntry DEF Open, ErrorInv, ErrorTypeOK
  <2> QED  BY <2>1
<1>2. Unwinding(b)' <=> Unwinding(b)
  <2>1. (\E f \in 0 .. top' : buffer'[f] = b /\ code'[f] > 1)
          <=> (\E f \in 0 .. top - 1 : buffer[f] = b /\ code[f] > 1)
    BY <1>1
  <2>2. (\E f \in 0 .. top : buffer[f] = b /\ code[f] > 1)
          <=> (\E f \in 0 .. top - 1 : buffer[f] = b /\ code[f] > 1)
    BY <1>1
  <2> QED  BY <2>1, <2>2 DEF Unwinding
<1> QED  BY <1>1, <1>2 DEF MappedBlock

\* A block whose code leads past its catch clause, or into it.
LEMMA UnwindingTop ==
    ASSUME ErrorInv, top >= 0
    PROVE  Unwinding(buffer[top]) <=> block[buffer[top]].at = "always" /\ code[top] > 1
<1>1. top \in 0 .. top /\ top \in Int  BY DEF ErrorInv, ErrorTypeOK
<1>2. \A f \in 0 .. top : buffer[f] = buffer[top] => f = top
  <2>1. \A f \in 0 .. top - 1 : buffer[f] < buffer[top]  BY TopEntry
  <2>2. \A f \in 0 .. top : f = top \/ f \in 0 .. top - 1  BY <1>1
  <2>3. buffer[top] \in Int  BY TopEntry DEF Open, ErrorInv, ErrorTypeOK
  <2>4. \A f \in 0 .. top - 1 : buffer[f] # buffer[top]
    <3> SUFFICES ASSUME NEW f \in 0 .. top - 1, buffer[f] = buffer[top] PROVE FALSE
      OBVIOUS
    <3> QED  BY <2>1, <2>3
  <2> QED  BY <2>2, <2>4
<1> QED  BY <1>1, <1>2 DEF Unwinding

\* The two ways out of fz_catch.
LEMMA CatchTestMaps ==
    ASSUME ErrorInv, top >= 0, NEW c \in 0 .. 5, CatchTest(buffer[top], c), UNCHANGED exited
    PROVE  IF c > 1 THEN Exception!MoveTo(buffer[top], "catch")
                    ELSE Exception!ReturnTo(buffer[top] - 1)
<1> DEFINE k == buffer[top]
<1>1. top \in Frames /\ top \in Int /\ k \in 1 .. depth /\ k \in Int /\ depth \in Int
  BY TopEntry DEF Open, ErrorInv, ErrorTypeOK, Frames
<1>2. top' = top - 1 /\ buffer' = buffer /\ \A f \in 0 .. top - 1 : code'[f] = code[f]
  BY <1>1, FzErrorAssumption DEF CatchTest, ErrorInv, ErrorTypeOK, Frames
<1>3. CASE c > 1
  <2>1. /\ depth' = k /\ \A b \in 1 .. k - 1 : block'[b] = block[b]
        /\ block'[k] = [block[k] EXCEPT !.at = "catch"]
    BY <1>1, <1>3, MoveToKeeps DEF CatchTest, ErrorInv
  <2>2. \A b \in 1 .. k - 1 : MappedBlock'[b] = MappedBlock[b]
    BY <1>1, <1>2, <2>1, BelowTop
  <2>3. MappedBlock'[k] = [MappedBlock[k] EXCEPT !.at = "catch"]
    <3>1. block[k] \in [at : {"try", "always", "catch"}, always : BOOLEAN]  BY <1>1 DEF ErrorInv, ErrorTypeOK
    <3>2. block'[k].at = "catch"  BY <2>1, <3>1
    <3>3. MappedBlock'[k] = block'[k]  BY <1>1, <2>1, <3>2 DEF MappedBlock, Unwinding
    <3>4. MappedBlock[k] = block[k] \/ MappedBlock[k] = [block[k] EXCEPT !.at = "unwinding"]
      BY <1>1 DEF MappedBlock
    <3> QED  BY <2>1, <3>1, <3>3, <3>4
  <2>4. MappedBlock' = [b \in 1 .. k |-> MappedBlock'[b]]  BY <2>1 DEF MappedBlock
  <2>5. MappedBlock' = [b \in 1 .. k |-> IF b = k THEN [MappedBlock[b] EXCEPT !.at = "catch"]
                                                  ELSE MappedBlock[b]]
    <3>1. \A b \in 1 .. k : b = k \/ b \in 1 .. k - 1  BY <1>1
    <3> QED  BY <2>2, <2>3, <2>4, <3>1
  <2> QED  BY <1>3, <2>1, <2>5 DEF Exception!MoveTo
<1>4. CASE ~(c > 1)
  <2>1. depth' = k - 1 /\ \A b \in 1 .. k - 1 : block'[b] = block[b]
    <3>1. k - 1 \in 0 .. depth  BY <1>1
    <3> QED  BY <1>4, <3>1, ReturnToKeeps DEF CatchTest, ErrorInv
  <2>2. \A b \in 1 .. k - 1 : MappedBlock'[b] = MappedBlock[b]
    BY <1>1, <1>2, <2>1, BelowTop
  <2>3. MappedBlock' = [b \in 1 .. k - 1 |-> MappedBlock'[b]]  BY <2>1 DEF MappedBlock
  <2> QED  BY <1>4, <2>1, <2>2, <2>3 DEF Exception!ReturnTo
<1> QED  BY <1>3, <1>4

\* fz_always either enters the clause, or goes on to fz_catch.
LEMMA AlwaysTestMaps ==
    ASSUME ErrorInv, top >= 0, NEW c \in 0 .. 5, Reaches(buffer[top], c),
           AlwaysTest(buffer[top], c), UNCHANGED exited
    PROVE  IF block[buffer[top]].at = "try" /\ block[buffer[top]].always
           THEN Exception!MoveTo(buffer[top], IF c > 1 THEN "unwinding" ELSE "always")
           ELSE IF c > 1 THEN Exception!MoveTo(buffer[top], "catch")
                         ELSE Exception!ReturnTo(buffer[top] - 1)
<1> DEFINE k == buffer[top]
<1>1. CASE ~(block[k].at = "try" /\ block[k].always)
  <2>1. ~(block[k].always /\ c < 3)  BY <1>1 DEF Reaches
  <2> QED  BY <1>1, <2>1, CatchTestMaps DEF AlwaysTest
<1>2. CASE block[k].at = "try" /\ block[k].always
  <2>1. /\ top \in Frames /\ top \in 0 .. top /\ top \in Int
        /\ k \in 1 .. depth /\ k \in Int /\ depth \in Int /\ c \in {0, 2}
    BY <1>2, TopEntry DEF Open, ErrorInv, ErrorTypeOK, Frames, Reaches
  <2>2. /\ code' = [code EXCEPT ![top] = c + 1] /\ top' = top /\ buffer' = buffer
        /\ MoveTo(k, "always")
    BY <1>2, <2>1 DEF AlwaysTest
  <2>3. /\ depth' = k /\ \A b \in 1 .. k - 1 : block'[b] = block[b]
        /\ block'[k] = [block[k] EXCEPT !.at = "always"] /\ block'[k].at = "always"
    BY <2>1, <2>2, MoveToKeeps DEF ErrorInv
  <2>4. code'[top] = c + 1 /\ \A f \in 0 .. top - 1 : code'[f] = code[f]
    BY <2>1, <2>2, FzErrorAssumption DEF ErrorInv, ErrorTypeOK, Frames
  <2>5. \A b \in 1 .. k - 1 : MappedBlock'[b] = MappedBlock[b]
    BY <2>1, <2>2, <2>3, <2>4, BelowTop
  <2>6. (\E f \in 0 .. top : buffer[f] = k /\ code'[f] > 1) <=> c > 1
    <3>1. \A f \in 0 .. top : buffer[f] = k => f = top
      <4>1. \A f \in 0 .. top - 1 : buffer[f] < k  BY TopEntry
      <4>2. \A f \in 0 .. top : f = top \/ f \in 0 .. top - 1  BY <2>1
      <4> QED  BY <2>1, <4>1, <4>2 DEF ErrorInv, Balanced, Open
    <3> QED  BY <2>1, <2>4, <3>1
  <2>7. MappedBlock[k] = block[k]  BY <1>2, <2>1 DEF MappedBlock, Unwinding
  <2>8. MappedBlock'[k] = [MappedBlock[k] EXCEPT !.at = IF c > 1 THEN "unwinding" ELSE "always"]
    <3>1. block[k] \in [at : {"try", "always", "catch"}, always : BOOLEAN]  BY <2>1 DEF ErrorInv, ErrorTypeOK
    <3>2. MappedBlock'[k] = IF c > 1 THEN [block'[k] EXCEPT !.at = "unwinding"] ELSE block'[k]
      <4>1. \A b \in 1 .. k : MappedBlock'[b] =
               IF block'[b].at = "always" /\ (\E f \in 0 .. top : buffer[f] = b /\ code'[f] > 1)
               THEN [block'[b] EXCEPT !.at = "unwinding"] ELSE block'[b]
        BY <2>2, <2>3 DEF MappedBlock, Unwinding
      <4>2. k \in 1 .. k  BY <2>1
      <4>3. MappedBlock'[k] =
               IF block'[k].at = "always" /\ (\E f \in 0 .. top : buffer[f] = k /\ code'[f] > 1)
               THEN [block'[k] EXCEPT !.at = "unwinding"] ELSE block'[k]
        BY <4>1, <4>2, Zenon
      <4>4. block'[k].at = "always"  BY <2>3
      <4> QED  BY <2>6, <4>3, <4>4, Zenon
    <3> QED  BY <2>3, <2>7, <3>1, <3>2
  <2>9. MappedBlock' = [b \in 1 .. k |-> MappedBlock'[b]]  BY <2>3 DEF MappedBlock
  <2>10. MappedBlock' = [b \in 1 .. k |->
                            IF b = k THEN [MappedBlock[b] EXCEPT !.at = IF c > 1 THEN "unwinding" ELSE "always"]
                            ELSE MappedBlock[b]]
    <3>1. \A b \in 1 .. k : b = k \/ b \in 1 .. k - 1  BY <2>1
    <3> QED  BY <2>5, <2>8, <2>9, <3>1
  <2> QED  BY <1>2, <2>3, <2>10 DEF Exception!MoveTo
<1> QED  BY <1>1, <1>2

\* What a mapped block says of the block itself.
LEMMA MappedAt ==
    ASSUME ErrorInv, NEW b \in 1 .. depth
    PROVE  /\ MappedBlock[b].always = block[b].always
           /\ MappedBlock[b].at \in {"try", "catch"} => MappedBlock[b].at = block[b].at
           /\ block[b].at \in {"try", "catch"} => MappedBlock[b] = block[b]
           /\ block[b].at = "always" => MappedBlock[b].at = IF Unwinding(b) THEN "unwinding" ELSE "always"
<1>1. block[b] \in [at : {"try", "always", "catch"}, always : BOOLEAN]  BY DEF ErrorInv, ErrorTypeOK
<1> QED  BY <1>1 DEF MappedBlock, Unwinding

\* A throw, from wherever, is a throw of the structured program.
LEMMA JumpTopMaps ==
    ASSUME ErrorInv, ~exited, JumpTop
    PROVE  Exception!Throw \/ Exception!Uncaught
<1>1. CASE top >= 0
  <2> DEFINE k == buffer[top]
  <2>1. k \in 1 .. depth /\ k \in Open /\ \A b \in k + 1 .. depth : block[b].at = "catch"
    BY <1>1, TopEntry DEF Open
  <2>2. Exception!Catches(k)
    <3>1. MappedBlock[k].at # "catch"  BY <2>1, MappedAt DEF Open
    <3>2. \A b \in k + 1 .. depth : b \in 1 .. depth  BY <2>1 DEF ErrorInv, ErrorTypeOK
    <3>3. \A b \in k + 1 .. depth : MappedBlock[b].at = "catch"  BY <2>1, <3>2, MappedAt
    <3> QED  BY <3>1, <3>3 DEF Exception!Catches
  <2>3. /\ code[top] + 2 \in 0 .. 5 /\ code[top] + 2 > 1 /\ Reaches(k, code[top] + 2)
    BY <1>1, TopCode
  <2>4. AlwaysTest(k, code[top] + 2) /\ UNCHANGED exited  BY <1>1 DEF JumpTop
  <2>5. IF block[k].at = "try" /\ block[k].always
        THEN Exception!MoveTo(k, "unwinding") ELSE Exception!MoveTo(k, "catch")
    BY <1>1, <2>3, <2>4, AlwaysTestMaps
  <2>6. (MappedBlock[k].at = "try" /\ MappedBlock[k].always) <=> (block[k].at = "try" /\ block[k].always)
    BY <2>1, MappedAt
  <2> QED  BY <2>1, <2>2, <2>5, <2>6 DEF Exception!Throw
<1>2. CASE ~(top >= 0)
  <2>1. exited' = TRUE /\ UNCHANGED <<top, code, buffer, depth, block>>
    BY <1>2 DEF JumpTop, ex
  <2>2. MappedBlock' = MappedBlock  BY <2>1 DEF MappedBlock, Unwinding
  <2>3. Open = {}  BY <1>2 DEF ErrorInv, ErrorTypeOK, Balanced
  <2>4. \A b \in 1 .. depth : MappedBlock[b].at = "catch"  BY <2>3, MappedAt DEF Open
  <2> QED  BY <2>1, <2>2, <2>4 DEF Exception!Uncaught
<1> QED  BY <1>1, <1>2

\* Each step is one of FzException, or changes nothing that it sees.
THEOREM ErrorStepMaps == ErrorInv /\ [ErrorNext]_errorVars => [Exception!Next]_(Exception!vars)
<1> SUFFICES ASSUME ErrorInv, [ErrorNext]_errorVars PROVE Exception!Next \/ UNCHANGED Exception!vars
  OBVIOUS
<1>1. ASSUME NEW always \in BOOLEAN, EnterTry(always) PROVE Exception!EnterTry(always)
  <2>1. /\ top \in Int /\ depth \in Int /\ depth >= 0 /\ depth' = depth + 1
        /\ top' = top + 1 /\ block' \in Blocks(depth + 1) /\ ~exited /\ exited' = exited /\ depth < MaxBlocks
        /\ code' = [code EXCEPT ![top + 1] = 0] /\ buffer' = [buffer EXCEPT ![top + 1] = depth + 1]
    BY <1>1 DEF EnterTry, ErrorInv, ErrorTypeOK, Blocks
  <2>2. /\ block'[depth + 1] = [at |-> "try", always |-> always]
        /\ \A b \in 1 .. depth : block'[b] = block[b]
    BY <1>1, <2>1 DEF EnterTry
  <2>3. /\ top + 1 \in Frames
        /\ \A f \in 0 .. top : f \in Frames /\ f # top + 1
    BY <1>1, <2>1, FzErrorAssumption DEF EnterTry, HasRoom, ErrorInv, ErrorTypeOK, Frames
  <2>4. /\ \A f \in 0 .. top : buffer'[f] = buffer[f] /\ code'[f] = code[f]
        /\ buffer'[top + 1] = depth + 1
    BY <2>1, <2>3 DEF ErrorInv, ErrorTypeOK
  <2>5. ASSUME NEW b \in 1 .. depth PROVE MappedBlock'[b] = MappedBlock[b]
    <3>1. b \in 1 .. depth' /\ b # depth + 1  BY <2>1
    <3>2. (\E f \in 0 .. top' : buffer'[f] = b /\ code'[f] > 1)
            <=> (\E f \in 0 .. top : buffer[f] = b /\ code[f] > 1)
      <4>1. 0 .. top' = (0 .. top) \cup {top + 1}  BY <2>1 DEF ErrorInv, ErrorTypeOK
      <4> QED  BY <2>4, <3>1, <4>1
    <3>3. Unwinding(b)' <=> Unwinding(b)  BY <2>2, <3>2 DEF Unwinding
    <3> QED  BY <2>2, <3>1, <3>3 DEF MappedBlock
  <2>6. MappedBlock'[depth + 1] = [at |-> "try", always |-> always]
    <3>1. depth + 1 \in 1 .. depth' /\ depth + 1 = depth'  BY <2>1
    <3> QED  BY <2>2, <3>1 DEF MappedBlock, Unwinding
  <2>7. MappedBlock' = [b \in 1 .. depth + 1 |-> MappedBlock'[b]]  BY <2>1 DEF MappedBlock
  <2>8. MappedBlock' = [b \in 1 .. depth + 1 |->
                           IF b = depth + 1 THEN [at |-> "try", always |-> always] ELSE MappedBlock[b]]
    <3>1. \A b \in 1 .. depth + 1 : b = depth + 1 \/ b \in 1 .. depth  BY <2>1
    <3> QED  BY <2>5, <2>6, <2>7, <3>1
  <2> QED  BY <2>1, <2>8 DEF Exception!EnterTry
<1>2. CASE EnterTryOverflow
  BY <1>2, JumpTopMaps DEF EnterTryOverflow, Exception!Next
<1>3. CASE FinishTry
  <2>1. /\ top >= 0 /\ buffer[top] = depth /\ code[top] = 0 /\ Reaches(buffer[top], code[top])
    BY <1>3, FinishTryArrives
  <2>2. depth \in 1 .. depth /\ block[depth].at = "try" /\ ~exited /\ depth > 0
    BY <1>3 DEF FinishTry, Inside, ErrorInv, ErrorTypeOK
  <2>3. IF block[depth].always THEN Exception!MoveTo(depth, "always") ELSE Exception!ReturnTo(depth - 1)
    BY <1>3, <2>1, <2>2, AlwaysTestMaps DEF FinishTry
  <2>4. MappedBlock[depth] = block[depth]  BY <2>2, MappedAt
  <2>5. Exception!FinishTry  BY <2>2, <2>3, <2>4 DEF Exception!FinishTry, Exception!Inside
  <2> QED  BY <2>5 DEF Exception!Next
<1>4. CASE FinishAlways
  <2>1. top >= 0 /\ buffer[top] = depth /\ code[top] \in {1, 3}
    BY <1>4, FinishAlwaysArrives
  <2>2. depth \in 1 .. depth /\ block[depth].at = "always" /\ ~exited /\ depth > 0
    BY <1>4 DEF FinishAlways, Inside, ErrorInv, ErrorTypeOK
  <2>3. IF code[top] > 1 THEN Exception!MoveTo(depth, "catch") ELSE Exception!ReturnTo(depth - 1)
    BY <1>4, <2>1, CatchTestMaps DEF FinishAlways
  <2>4. MappedBlock[depth].at = IF code[top] > 1 THEN "unwinding" ELSE "always"
    <3>1. Unwinding(depth) <=> code[top] > 1  BY <2>1, <2>2, UnwindingTop
    <3> QED  BY <2>2, <3>1, MappedAt
  <2>5. CASE code[top] > 1
    BY <2>2, <2>3, <2>4, <2>5 DEF Exception!Next, Exception!FinishUnwinding, Exception!Inside
  <2>6. CASE ~(code[top] > 1)
    BY <2>2, <2>3, <2>4, <2>6 DEF Exception!Next, Exception!FinishAlways, Exception!Inside
  <2> QED  BY <2>5, <2>6
<1>5. CASE FinishCatch
  <2>1. /\ depth \in Int /\ depth > 0 /\ depth \in 1 .. depth /\ block[depth].at = "catch"
        /\ ~exited /\ exited' = exited /\ UNCHANGED <<top, code, buffer>>
        /\ depth - 1 \in 0 .. depth /\ ReturnTo(depth - 1)
    BY <1>5 DEF FinishCatch, Inside, ErrorInv, ErrorTypeOK, ex
  <2>2. depth' = depth - 1 /\ \A b \in 1 .. depth - 1 : block'[b] = block[b]
    BY <2>1, ReturnToKeeps DEF ErrorInv
  <2>3. ASSUME NEW b \in 1 .. depth - 1 PROVE MappedBlock'[b] = MappedBlock[b]
    <3>1. b \in 1 .. depth /\ b \in 1 .. depth'  BY <2>1, <2>2
    <3>2. Unwinding(b)' <=> Unwinding(b)  BY <2>1, <2>2 DEF Unwinding
    <3> QED  BY <2>2, <3>1, <3>2 DEF MappedBlock
  <2>4. MappedBlock' = [b \in 1 .. depth - 1 |-> MappedBlock'[b]]  BY <2>2 DEF MappedBlock
  <2>5. Exception!ReturnTo(depth - 1)
    BY <2>1, <2>2, <2>3, <2>4 DEF Exception!ReturnTo
  <2>6. MappedBlock[depth].at = "catch"  BY <2>1, MappedAt
  <2> QED  BY <2>1, <2>5, <2>6 DEF Exception!Next, Exception!FinishCatch, Exception!Inside
<1>6. CASE Throw  BY <1>6, JumpTopMaps DEF Throw, Exception!Next
<1>7. CASE UNCHANGED errorVars
  BY <1>7 DEF errorVars, ex, Exception!vars, MappedBlock, Unwinding
<1> QED  BY <1>1, <1>2, <1>3, <1>4, <1>5, <1>6, <1>7 DEF ErrorNext, Exception!Next

\* The initial states are initial states of FzException.
THEOREM ErrorInitMaps == ErrorInit => Exception!Init
BY DEF ErrorInit, Exception!Init, MappedBlock

\* The inductive invariant holds of every behaviour.
THEOREM ErrorInvariance == ErrorSpec => []ErrorInv
<1>1. ErrorInit => ErrorInv  BY ErrorInitOK
<1>2. ErrorInv /\ [ErrorNext]_errorVars => ErrorInv'  BY ErrorNextOK
<1> QED  BY <1>1, <1>2, PTL DEF ErrorSpec

\* Type correctness: the code never leaves 0 .. 5, top never the stack.
THEOREM ErrorTypeCorrect == ErrorSpec => []ErrorTypeOK
<1>1. ErrorInv => ErrorTypeOK  BY DEF ErrorInv
<1> QED  BY <1>1, ErrorInvariance, PTL

\* The stack mirrors the open blocks.
THEOREM StackBalanced == ErrorSpec => []Balanced
<1>1. ErrorInv => Balanced  BY DEF ErrorInv
<1> QED  BY <1>1, ErrorInvariance, PTL

\* The macros over the stack of codes are structured exception handling.
THEOREM ErrorImplements == ErrorSpec => Implements
<1>1. ErrorInit => Exception!Init  BY ErrorInitMaps
<1>2. ErrorInv /\ [ErrorNext]_errorVars => [Exception!Next]_(Exception!vars)  BY ErrorStepMaps
<1> QED  BY <1>1, <1>2, ErrorInvariance, PTL DEF ErrorSpec, Exception!Spec, Implements
=============================================================================
