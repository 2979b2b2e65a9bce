----------------------------- MODULE MCPageUndo -----------------------------
(* A page with one stroke and one text in the file. *)
EXTENDS PageUndo

MCFileAnnots == <<[id |-> 1, kind |-> "text", what |-> [name |-> 1, style |-> "plain"]],
                  [id |-> 2, kind |-> "ink", what |-> <<2>>]>>

\* The history of text is promised while OneFate holds: the search goes no further.
Untangled == OneFate
=============================================================================
