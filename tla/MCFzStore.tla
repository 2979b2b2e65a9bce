------------------------------ MODULE MCFzStore ------------------------------
EXTENDS FzStore, TLC

CONSTANTS v1, v2, v3

\* Two small values and one that needs both their places.
MCVals == {v1, v2, v3}
Sizes == v1 :> 1 @@ v2 :> 1 @@ v3 :> 2

\* What two threads, or one, do to a store of some limit.
Setup(limit, f) == [max |-> limit, calls |-> f]
Both(limit, S) == {Setup(limit, [t \in Threads |-> S])}
Beside(limit, R, S) == {Setup(limit, [u \in Threads |-> IF u = t THEN R ELSE S]) : t \in Threads}
Alone(limit, S) == Beside(limit, S, {})

\* Both threads store, and find or shrink; one stores beside one that empties,
\* removes or scavenges; one makes every call there is.
MCSetups ==
    Both(2, {"store", "find"}) \cup Both(2, {"store", "shrink"})
    \cup Beside(2, {"store", "find"}, {"find", "empty"})
    \cup Beside(2, {"store", "find"}, {"find", "remove"})
    \cup Beside(2, {"store"}, {"malloc"})
    \cup Alone(2, Calls) \cup Alone(2, Calls \ {"remove"})
    \cup Alone(Unlimited, Calls \ {"remove"})

\* Where every call returns: a small value and one that needs both places.
LiveVals == {v1, v3}
LiveSizes == v1 :> 1 @@ v3 :> 2
OneOf(S) == {CHOOSE s \in S : TRUE}
LiveSetups ==
    OneOf(Beside(2, {"store", "find"}, {"store", "shrink"}))
    \cup OneOf(Beside(2, {"store", "find"}, {"malloc", "remove", "empty"}))

\* The setups are closed under the exchange of threads.
MCSymmetry == Permutations(Threads) \cup Permutations(Items)
=============================================================================
