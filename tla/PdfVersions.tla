---------------------------- MODULE PdfVersions ----------------------------
(***************************************************************************)
(* What the cross-reference sections of an open PDF promise to the code    *)
(* that edits it: every object has one current content, an edit changes    *)
(* the objects it names and no other, and a version that has been signed   *)
(* is kept until it is saved, whatever is edited afterwards.               *)
(***************************************************************************)
EXTENDS Naturals, Sequences

CONSTANTS
    Num,        \* the objects
    Covered,    \* those whose signed contents are kept
    Absent

VARIABLES
    current,    \* the content of each object, or Absent
    signed,     \* the signed versions not yet saved, oldest first
    stopped,    \* a save has stopped early: signed versions are kept no longer
    edits       \* the number of edits made; each writes its own number

vvars == <<current, signed, stopped, edits>>

Dicts(c) == [n \in Covered |-> IF c[n] = Absent THEN Absent ELSE c[n].dict]
Plain(s) == [dict |-> s, stm |-> Absent]

VInit == signed = <<>> /\ stopped = FALSE /\ edits \in Nat

\* An edit writes its number; one object is changed, created or freed.  The
\* contents before and after a step are c and d.
Changed(c, d) == \E n \in Num :
    /\ c[n] # Absent
    /\ \E s \in {edits', c[n].stm} : d = [c EXCEPT ![n] = [dict |-> edits', stm |-> s]]
Created(c, d) == \E n \in Num : c[n] = Absent /\ d = [c EXCEPT ![n] = Plain(edits')]
Deleted(c, d) == \E n \in Num : c[n] # Absent /\ d = [c EXCEPT ![n] = Absent]

Edit(c, d) ==
    /\ edits' = edits + 1
    /\ Changed(c, d) \/ Created(c, d) \/ Deleted(c, d)
    /\ stopped' = stopped
    /\ stopped \/ signed' = signed

\* Signing writes the field and a new value object; the result is kept.
Sign(c, d) ==
    /\ edits' = edits + 1
    /\ \E f, v \in Num :
          /\ c[f] # Absent /\ c[v] = Absent
          /\ d = [c EXCEPT ![f].dict = edits', ![v] = Plain(edits')]
    /\ stopped' = stopped
    /\ stopped \/ signed' = Append(signed, Dicts(d))

\* Saving ends the promise for the versions it has written; a save that
\* stops early writes nothing and ends it for all that follow.
Save == /\ UNCHANGED <<edits, current>>
        /\ \/ signed' = <<>> /\ stopped' = stopped
           \/ signed' = signed /\ stopped' = TRUE

\* Another document is opened in its place.
Reopen == signed' = <<>> /\ stopped' = FALSE /\ edits' = edits

VNext == Edit(current, current') \/ Sign(current, current') \/ Save \/ Reopen
VSpec == VInit /\ [][VNext]_vvars
=============================================================================
