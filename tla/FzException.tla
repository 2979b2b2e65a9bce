---------------------------- MODULE FzException ----------------------------
(***************************************************************************)
(* What fz_try, fz_always and fz_catch promise (docs/overview.txt, "Error  *)
(* handling"): structured exception handling.  The blocks a thread is in   *)
(* form a stack, innermost last; `always` says whether the block has an    *)
(* always clause.                                                          *)
(***************************************************************************)
EXTENDS Integers

CONSTANT MaxBlocks      \* bound of the model: how deep blocks nest

VARIABLES
    depth,      \* number of blocks the thread is in
    block,      \* of each: where the thread is, [at, always]; "unwinding" is the
                \* always clause on the way to the catch clause
    exited      \* an exception nobody catches ends the process

vars == <<depth, block, exited>>

Init == depth = 0 /\ block = [b \in 1 .. 0 |-> {}] /\ exited = FALSE

\* The first k blocks, the k-th of them now at `place`.
MoveTo(k, place) ==
    /\ depth' = k
    /\ block' = [b \in 1 .. k |-> IF b = k THEN [block[b] EXCEPT !.at = place] ELSE block[b]]
    /\ UNCHANGED exited

\* The first k blocks, as they are.
ReturnTo(k) ==
    /\ depth' = k
    /\ block' = [b \in 1 .. k |-> block[b]]
    /\ UNCHANGED exited

Inside(place) == ~exited /\ depth > 0 /\ block[depth].at = place

EnterTry(always) ==
    /\ ~exited /\ depth < MaxBlocks
    /\ depth' = depth + 1
    /\ block' = [b \in 1 .. depth + 1 |->
                    IF b = depth + 1 THEN [at |-> "try", always |-> always] ELSE block[b]]
    /\ UNCHANGED exited

FinishTry ==
    /\ Inside("try")
    /\ IF block[depth].always THEN MoveTo(depth, "always") ELSE ReturnTo(depth - 1)

FinishAlways == Inside("always") /\ ReturnTo(depth - 1)

FinishUnwinding == Inside("unwinding") /\ MoveTo(depth, "catch")

FinishCatch == Inside("catch") /\ ReturnTo(depth - 1)

\* An exception goes to the innermost block that is not in its catch clause;
\* from an always clause it goes on to the catch clause of the same block.
Catches(k) == block[k].at # "catch" /\ \A b \in k + 1 .. depth : block[b].at = "catch"

Throw ==
    /\ ~exited
    /\ \E k \in 1 .. depth :
          /\ Catches(k)
          /\ IF block[k].at = "try" /\ block[k].always
             THEN MoveTo(k, "unwinding") ELSE MoveTo(k, "catch")

Uncaught ==
    /\ ~exited
    /\ \A b \in 1 .. depth : block[b].at = "catch"
    /\ exited' = TRUE
    /\ UNCHANGED <<depth, block>>

Next ==
    \/ \E always \in BOOLEAN : EnterTry(always)
    \/ FinishTry \/ FinishAlways \/ FinishUnwinding \/ FinishCatch
    \/ Throw \/ Uncaught

Spec == Init /\ [][Next]_vars
=============================================================================
