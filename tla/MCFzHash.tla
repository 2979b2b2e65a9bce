------------------------------ MODULE MCFzHash ------------------------------
EXTENDS FzHash

\* The keys are numbers only so that hash functions equal up to a renaming of
\* the keys are tried once.
MCKeys == 1 .. 5
Sorted == \A k, l \in Keys : k < l => hash[k] <= hash[l]

\* In a table of 6 the two probe runs meet and wrap round; in one of 12 they
\* are apart.
TwoRuns == Sorted /\ hash[2] = 5 /\ hash[4] = 10

MCInit == Init /\ TwoRuns

MCSpec == MCInit /\ [][Next]_vars
=============================================================================
