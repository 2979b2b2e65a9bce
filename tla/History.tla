------------------------------- MODULE History -------------------------------
(***************************************************************************)
(* What a document with undo and redo promises its user: an edit can be    *)
(* undone and an undo redone, each leading to exactly the document it left *)
(* and an edit forgets what could be redone.                               *)
(***************************************************************************)
EXTENDS Sequences

CONSTANTS Docs

VARIABLES doc, past, future

vars == <<doc, past, future>>

Init == doc \in Docs /\ past = <<>> /\ future = <<>>

Edit ==
    /\ doc' \in Docs
    /\ past' = <<doc>> \o past
    /\ future' = <<>>

Undo ==
    /\ past # <<>>
    /\ doc' = Head(past) /\ past' = Tail(past)
    /\ future' = <<doc>> \o future

Redo ==
    /\ future # <<>>
    /\ doc' = Head(future) /\ future' = Tail(future)
    /\ past' = <<doc>> \o past

\* The document opened anew, or replaced from outside.
Restart == doc' \in Docs /\ past' = <<>> /\ future' = <<>>

Next == Edit \/ Undo \/ Redo \/ Restart

Spec == Init /\ [][Next]_vars
=============================================================================
