------------------------------- MODULE FzMap -------------------------------
(***************************************************************************)
(* What a hash table promises its callers (source/fitz/hash.c): a partial  *)
(* map from keys to values.  Inserting a present key changes nothing and   *)
(* returns the value already there.                                        *)
(***************************************************************************)
CONSTANTS Keys, Vals, None

VARIABLE content    \* the value of each key, None when absent

Init == content = [k \in Keys |-> None]

Insert(k, v) == content[k] = None /\ content' = [content EXCEPT ![k] = v]

Remove(k) == content[k] # None /\ content' = [content EXCEPT ![k] = None]

Empty == content' = [k \in Keys |-> None]

Next == Empty \/ \E k \in Keys : Remove(k) \/ \E v \in Vals : Insert(k, v)

Spec == Init /\ [][Next]_content
=============================================================================
