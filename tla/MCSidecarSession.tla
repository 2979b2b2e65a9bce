-------------------------- MODULE MCSidecarSession --------------------------
EXTENDS SidecarSession, TLC

\* An older or a newer version of a note, and a highlight of another layout.
MCBundle == {r \in Annotation : \/ r.id \in Notes /\ r.page \in Pages
                                \/ r.id \in Highlights /\ r.page = Other}

\* What is promised ends when the session is disturbed, and so does the search.
Undisturbed == ~disturbed

Symmetry == Permutations(Ink) \cup Permutations(Pages)
=============================================================================
