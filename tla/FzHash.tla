------------------------------- MODULE FzHash -------------------------------
(***************************************************************************)
(* The open-addressing hash table of source/fitz/hash.c: linear probing,   *)
(* removal that shifts the entries of the probe run back, and growth that  *)
(* drops the allocator's lock around malloc and free.                      *)
(*                                                                         *)
(* Every operation runs under the lock; the only points where another      *)
(* thread can come in are the two gaps of fz_resize_hash, so the parts     *)
(* between them are single actions and the lock is not a variable.         *)
(***************************************************************************)
EXTENDS Naturals, FiniteSets, SequencesExt

CONSTANTS
    Threads, Keys, Vals,
    PosUsers,       \* threads that call fz_hash_insert_with_pos, not fz_hash_insert
    HashValues,     \* values of the hash function before "% size"
    InitSize,       \* initialsize given to fz_new_hash_table
    MaxSize,        \* bound of the model: the table grows no further
    None

ASSUME HashAssumption ==
    /\ InitSize \in Nat /\ InitSize >= 6   \* smaller tables fill up before they grow
    /\ MaxSize \in Nat
    /\ HashValues \subseteq Nat
    /\ PosUsers \subseteq Threads
    /\ None \notin Vals /\ None \notin Keys
ASSUME NoRecordAssumption ==
    \A k \in Keys, v \in Vals : [key |-> k, val |-> v] # None

\* Every thread may insert once after a gap without another look at the load:
\* with more threads than this a table that has grown could fill up.  The one
\* table whose lock is dropped, the store's, starts with 4096 entries.
ASSUME ThreadsAssumption ==
    IsFiniteSet(Threads) /\ 5 * Cardinality(Threads) < 2 * InitSize

VARIABLES
    hash,           \* the hash function: never changes
    ents, size, load,
    pc,             \* "idle", or in a gap of fz_resize_hash: "malloc", "free"
    arg,            \* the insertion a thread in a gap has still to make
    inserted        \* key and position of a thread's last insertion (pos_ptr)

vars == <<hash, ents, size, load, pc, arg, inserted>>

Entry == [key : Keys, val : Vals]
NoPos == [key |-> None, pos |-> 0]

Empties(n) == [i \in 0 .. n - 1 |-> None]

\* The position where the probe for k stops: its entry, or an empty one.
ProbeOffsets(e, n, k) ==
    {j \in 0 .. n - 1 : LET c == e[(hash[k] + j) % n] IN c = None \/ c.key = k}
Probe(e, n, k) ==
    (hash[k] + (CHOOSE j \in ProbeOffsets(e, n, k) :
                    \A i \in ProbeOffsets(e, n, k) : j <= i)) % n

\* fz_hash_find; a probe that never stops is not a value of the table.
Find(k) ==
    LET c == ents[Probe(ents, size, k)] IN IF c = None THEN None ELSE c.val

Init ==
    /\ hash \in [Keys -> HashValues]
    /\ ents = Empties(InitSize) /\ size = InitSize /\ load = 0
    /\ pc = [t \in Threads |-> "idle"]
    /\ arg = [t \in Threads |-> None]
    /\ inserted = [t \in Threads |-> NoPos]

----------------------------------------------------------------------------
(* Insertion *)

\* do_hash_insert: an existing entry is left alone.
DoInsert(t, k, v) ==
    LET pos == Probe(ents, size, k) IN
    /\ IF ents[pos] = None
       THEN ents' = [ents EXCEPT ![pos] = [key |-> k, val |-> v]] /\ load' = load + 1
       ELSE UNCHANGED <<ents, load>>
    /\ inserted' = IF t \in PosUsers THEN [inserted EXCEPT ![t] = [key |-> k, pos |-> pos]]
                   ELSE inserted

\* A thread in no gap, and not between an insertion and the use of its position.
Ready(t) == pc[t] = "idle" /\ inserted[t] = NoPos

Crowded == load > (size * 8) \div 10

Insert(t, k, v) ==
    /\ Ready(t) /\ ~Crowded
    /\ DoInsert(t, k, v)
    /\ UNCHANGED <<hash, size, pc, arg>>

\* Too full: drop the lock and allocate a table twice as large.
InsertCrowded(t, k, v) ==
    /\ Ready(t) /\ Crowded /\ size * 2 <= MaxSize
    /\ pc' = [pc EXCEPT ![t] = "malloc"]
    /\ arg' = [arg EXCEPT ![t] = [key |-> k, val |-> v, newsize |-> size * 2]]
    /\ UNCHANGED <<hash, ents, size, load, inserted>>

\* "Someone else fixed it before we could lock!": the new array is freed.
ResizeLost(t) ==
    /\ pc[t] = "malloc" /\ size >= arg[t].newsize
    /\ pc' = [pc EXCEPT ![t] = "free"]
    /\ UNCHANGED <<hash, ents, size, load, arg, inserted>>

\* Out of memory: the exception ends the insertion.
ResizeFail(t) ==
    /\ pc[t] = "malloc" /\ size < arg[t].newsize
    /\ pc' = [pc EXCEPT ![t] = "idle"]
    /\ arg' = [arg EXCEPT ![t] = None]
    /\ UNCHANGED <<hash, ents, size, load, inserted>>

Place(e, n, c) == [e EXCEPT ![Probe(e, n, c.key)] = c]

\* Every old entry inserted again, in the order of the old array.
Rehash(e, old, new) ==
    LET moved[i \in 0 .. old] ==
            IF i = 0 THEN Empties(new)
            ELSE IF e[i - 1] = None THEN moved[i - 1]
            ELSE Place(moved[i - 1], new, e[i - 1])
    IN  moved[old]

\* Mutant of Resize: the winner of a race is not noticed, the table shrinks
\* back to the size computed before the lock was dropped.
ResizeStale(t) ==
    /\ pc[t] = "malloc"
    /\ LET new == arg[t].newsize IN
        /\ ents' = Rehash(ents, IF size < new THEN size ELSE new \div 2, new)
        /\ size' = new
        /\ load' = Cardinality({i \in DOMAIN ents' : ents'[i] # None})
    /\ pc' = [pc EXCEPT ![t] = "free"]
    /\ UNCHANGED <<hash, arg, inserted>>

Resize(t) ==
    /\ pc[t] = "malloc" /\ size < arg[t].newsize
    /\ ents' = Rehash(ents, size, arg[t].newsize)
    /\ size' = arg[t].newsize
    /\ load' = Cardinality({i \in DOMAIN ents' : ents'[i] # None})
    /\ pc' = [pc EXCEPT ![t] = "free"]
    /\ UNCHANGED <<hash, arg, inserted>>

\* The lock is back after fz_free: the entry goes in without another check.
InsertGrown(t) ==
    /\ pc[t] = "free"
    /\ DoInsert(t, arg[t].key, arg[t].val)
    /\ pc' = [pc EXCEPT ![t] = "idle"]
    /\ arg' = [arg EXCEPT ![t] = None]
    /\ UNCHANGED <<hash, size>>

----------------------------------------------------------------------------
(* Removal *)

\* The length of the run of full entries behind the hole.
RunLength(e, hole) ==
    CHOOSE l \in 0 .. size - 1 :
        /\ \A j \in 1 .. l : e[(hole + j) % size] # None
        /\ l = size - 1 \/ e[(hole + l + 1) % size] = None

\* Whether an entry whose probe starts at code may move from look to hole.
MayMove(code, hole, look) ==
    \/ code <= hole /\ hole < look
    \/ look < code /\ code <= hole
    \/ hole < look /\ look < code

\* Mutant of Shift: the wrap-around cases are forgotten.
ShiftNoWrap(s, look) ==
    LET code == hash[s.e[look].key] % size
    IN  IF code <= s.hole /\ s.hole < look
        THEN [e |-> [s.e EXCEPT ![s.hole] = s.e[look], ![look] = None], hole |-> look]
        ELSE s

\* One step of do_removal: the entry at look fills the hole if it may.
Shift(s, look) ==
    LET code == hash[s.e[look].key] % size
    IN  IF MayMove(code, s.hole, look)
        THEN [e |-> [s.e EXCEPT ![s.hole] = s.e[look], ![look] = None], hole |-> look]
        ELSE s

\* do_removal: the run behind the hole is shifted back entry by entry.
ShiftBack(e, first) ==
    LET run == RunLength(e, first)
        shifted[j \in 0 .. run] ==
            IF j = 0 THEN [e |-> [e EXCEPT ![first] = None], hole |-> first]
            ELSE Shift(shifted[j - 1], (first + j) % size)
    IN  shifted[run].e

RemoveEntry(pos) == ents' = ShiftBack(ents, pos) /\ load' = load - 1

\* Mutant of HashRemove: load goes down for an absent key too.
HashRemoveUncounted(k) ==
    LET pos == Probe(ents, size, k) IN
    IF ents[pos] = None THEN ents' = ents /\ load' = load - 1 ELSE RemoveEntry(pos)

\* fz_hash_remove; an absent key only draws a warning.
HashRemove(k) ==
    LET pos == Probe(ents, size, k) IN
    IF ents[pos] = None THEN UNCHANGED <<ents, load>> ELSE RemoveEntry(pos)

RemoveKey(t, k) ==
    /\ Ready(t)
    /\ HashRemove(k)
    /\ UNCHANGED <<hash, size, pc, arg, inserted>>

\* Mutant of RemoveFast: the remembered position is trusted.
RemoveFastTrusting(t) ==
    /\ pc[t] = "idle" /\ inserted[t] # NoPos
    /\ IF ents[inserted[t].pos] = None THEN UNCHANGED <<ents, load>> ELSE RemoveEntry(inserted[t].pos)
    /\ inserted' = [inserted EXCEPT ![t] = NoPos]
    /\ UNCHANGED <<hash, size, pc, arg>>

\* fz_hash_remove_fast: use the position returned at insertion if the entry is
\* still there, otherwise search for it.
RemoveFast(t) ==
    /\ pc[t] = "idle" /\ inserted[t] # NoPos
    /\ LET k == inserted[t].key
           c == ents[inserted[t].pos]
       IN IF c = None \/ c.key # k THEN HashRemove(k) ELSE RemoveEntry(inserted[t].pos)
    /\ inserted' = [inserted EXCEPT ![t] = NoPos]
    /\ UNCHANGED <<hash, size, pc, arg>>

\* The caller found room for what it inserted: the position is of no more use.
Settle(t) ==
    /\ pc[t] = "idle" /\ inserted[t] # NoPos
    /\ inserted' = [inserted EXCEPT ![t] = NoPos]
    /\ UNCHANGED <<hash, ents, size, load, pc, arg>>

\* Mutant of Clear: load is not reset.
ClearKeepingLoad(t) ==
    /\ Ready(t)
    /\ ents' = Empties(size)
    /\ UNCHANGED <<hash, size, load, pc, arg, inserted>>

\* fz_empty_hash
Clear(t) ==
    /\ Ready(t)
    /\ ents' = Empties(size) /\ load' = 0
    /\ UNCHANGED <<hash, size, pc, arg, inserted>>

Next ==
    \E t \in Threads :
        \/ \E k \in Keys, v \in Vals : Insert(t, k, v) \/ InsertCrowded(t, k, v)
        \/ ResizeLost(t) \/ ResizeFail(t) \/ Resize(t) \/ InsertGrown(t)
        \/ \E k \in Keys : RemoveKey(t, k)
        \/ RemoveFast(t) \/ Settle(t) \/ Clear(t)

Spec == Init /\ [][Next]_vars

----------------------------------------------------------------------------
TypeOK ==
    /\ hash \in [Keys -> HashValues]
    /\ size \in InitSize .. (IF MaxSize > InitSize THEN MaxSize ELSE InitSize)
    /\ ents \in [0 .. size - 1 -> Entry \cup {None}]
    /\ load \in 0 .. size
    /\ pc \in [Threads -> {"idle", "malloc", "free"}]
    /\ \A t \in Threads : pc[t] # "idle" => /\ arg[t].key \in Keys /\ arg[t].val \in Vals
                                            /\ arg[t].newsize \in Nat
    /\ inserted \in [Threads -> [key : Keys \cup {None}, pos : Nat]]

\* load counts the entries and never reaches the size, so every probe loop
\* (while (1) in do_hash_insert, fz_hash_find, fz_hash_remove) meets an empty
\* entry and ends.
ProbesEnd ==
    /\ load = Cardinality({i \in DOMAIN ents : ents[i] # None})
    /\ load < size

\* Every entry is where a probe for its key stops: removals and growth never
\* cut an entry off from its probe path, nor leave a second entry of a key.
EntriesReachable ==
    \A i \in DOMAIN ents : ents[i] # None => Probe(ents, size, ents[i].key) = i

\* The value of each key, None when absent.
Content == [k \in Keys |-> Find(k)]

\* The table is the map its callers think it is, whatever was shifted, grown
\* or inserted by other threads in the gaps.
Map == INSTANCE FzMap WITH content <- Content
IsMap == Map!Spec

\* A removal by position takes out the key it was inserted for, or nothing:
\* the position may have been given to another key by a removal that shifted
\* entries, by growth or by fz_empty_hash.
FastRemovesItsKey ==
    [][\A t \in PosUsers :
          inserted[t] # NoPos /\ inserted'[t] = NoPos
             => \A k \in Keys \ {inserted[t].key} : Find(k)' = Find(k)]_vars
=============================================================================
