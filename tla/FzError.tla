------------------------------ MODULE FzError ------------------------------
(***************************************************************************)
(* The exception stack of a fitz context (source/fitz/error.c and the      *)
(* fz_try, fz_always and fz_catch macros of include/mupdf/fitz/context.h): *)
(* one code and one jump buffer per open try, and a top that the macros    *)
(* keep by hand.  FzException says what the macros promise.                *)
(*                                                                         *)
(* `block` is the thread's control state: the blocks it is in, innermost   *)
(* last.  A block in its catch clause has no entry of the stack any more.  *)
(***************************************************************************)
EXTENDS Integers

CONSTANTS
    StackSize,      \* nelem(ex->stack): 256
    MaxBlocks       \* bound of the model: how deep blocks nest

ASSUME FzErrorAssumption == StackSize \in Nat \ {0} /\ MaxBlocks \in Nat

VARIABLES
    top, code, buffer,      \* ex->top, ex->stack[].code, the block ex->stack[].buffer jumps to
    depth, block,           \* the blocks the thread is in
    exited                  \* throw called exit

ex == <<top, code, buffer>>
errorVars == <<ex, depth, block, exited>>

Frames == 0 .. StackSize - 1

ErrorInit ==
    /\ top = -1
    /\ code = [f \in Frames |-> 0]
    /\ buffer = [f \in Frames |-> 0]
    /\ depth = 0 /\ block = [b \in 1 .. 0 |-> {}]
    /\ exited = FALSE

----------------------------------------------------------------------------
(* Where control goes *)

MoveTo(k, place) ==
    /\ depth' = k
    /\ block' = [b \in 1 .. k |-> IF b = k THEN [block[b] EXCEPT !.at = place] ELSE block[b]]

ReturnTo(k) == depth' = k /\ block' = [b \in 1 .. k |-> block[b]]

\* Mutant of CatchTest: a try that ends well keeps its entry.
CatchTestKeepingTop(k, c) ==
    /\ top' = IF c > 1 THEN top - 1 ELSE top
    /\ code' = [code EXCEPT ![top] = c]
    /\ UNCHANGED buffer
    /\ IF c > 1 THEN MoveTo(k, "catch") ELSE ReturnTo(k - 1)

\* fz_catch: pops the entry; the clause runs if its code is above 1.
CatchTest(k, c) ==
    /\ top' = top - 1
    /\ code' = [code EXCEPT ![top] = c]
    /\ UNCHANGED buffer
    /\ IF c > 1 THEN MoveTo(k, "catch") ELSE ReturnTo(k - 1)

\* Mutant of AlwaysTest: the clause is entered again after a throw inside it.
AlwaysTestAgain(k, c) ==
    IF block[k].always
    THEN /\ code' = [code EXCEPT ![top] = c + 1]
         /\ UNCHANGED <<top, buffer>>
         /\ MoveTo(k, "always")
    ELSE CatchTest(k, c)

\* fz_always, where the block has one: entered once, while the code is below 3.
AlwaysTest(k, c) ==
    IF block[k].always /\ c < 3
    THEN /\ code' = [code EXCEPT ![top] = c + 1]
         /\ UNCHANGED <<top, buffer>>
         /\ MoveTo(k, "always")
    ELSE CatchTest(k, c)

\* throw: to the setjmp of the entry on top, and on from there; without an
\* entry the process ends.
JumpTop ==
    IF top >= 0
    THEN AlwaysTest(buffer[top], code[top] + 2) /\ UNCHANGED exited
    ELSE exited' = TRUE /\ UNCHANGED <<ex, depth, block>>

----------------------------------------------------------------------------
(* What the thread does *)

Inside(place) == ~exited /\ depth > 0 /\ block[depth].at = place

\* Mutant of HasRoom: the entry kept in reserve for an overflow is used.
HasRoomForAll == top + 1 < StackSize

\* fz_push_try keeps one entry in reserve.
HasRoom == top + 1 < StackSize - 1

\* fz_try: fz_push_try and setjmp.
EnterTry(always) ==
    /\ ~exited /\ depth < MaxBlocks /\ HasRoom
    /\ top' = top + 1
    /\ code' = [code EXCEPT ![top + 1] = 0]
    /\ buffer' = [buffer EXCEPT ![top + 1] = depth + 1]
    /\ depth' = depth + 1
    /\ block' = [b \in 1 .. depth + 1 |->
                    IF b = depth + 1 THEN [at |-> "try", always |-> always] ELSE block[b]]
    /\ UNCHANGED exited

\* fz_try with the stack full, assertions off: throws to the block around it.
EnterTryOverflow == ~exited /\ ~HasRoom /\ JumpTop

FinishTry == Inside("try") /\ AlwaysTest(depth, code[top]) /\ UNCHANGED exited

FinishAlways == Inside("always") /\ CatchTest(depth, code[top]) /\ UNCHANGED exited

FinishCatch == Inside("catch") /\ ReturnTo(depth - 1) /\ UNCHANGED <<ex, exited>>

\* fz_throw, fz_rethrow and the like, from any clause
Throw == ~exited /\ JumpTop

ErrorNext ==
    \/ \E always \in BOOLEAN : EnterTry(always)
    \/ EnterTryOverflow
    \/ FinishTry \/ FinishAlways \/ FinishCatch
    \/ Throw

ErrorSpec == ErrorInit /\ [][ErrorNext]_errorVars

----------------------------------------------------------------------------
ErrorTypeOK ==
    /\ top \in -1 .. StackSize - 2
    /\ code \in [Frames -> 0 .. 5]
    /\ buffer \in [Frames -> 0 .. MaxBlocks]
    /\ depth \in 0 .. MaxBlocks
    /\ block \in [1 .. depth -> [at : {"try", "always", "catch"}, always : BOOLEAN]]
    /\ exited \in BOOLEAN

Open == {b \in 1 .. depth : block[b].at # "catch"}

\* The stack mirrors the blocks: one entry for every block whose catch clause
\* is still ahead, in the same order.  fz_drop_context asserts what follows for
\* a thread outside all blocks: ex->top = -1 (context.c:104).
Balanced ==
    /\ {buffer[f] : f \in 0 .. top} = Open
    /\ \A f, g \in 0 .. top : f < g => buffer[f] < buffer[g]

\* The refinement mapping: an always clause is unwinding when its block's code
\* leads to the catch clause.
Unwinding(b) ==
    /\ block[b].at = "always"
    /\ \E f \in 0 .. top : buffer[f] = b /\ code[f] > 1

MappedBlock ==
    [b \in 1 .. depth |->
        IF Unwinding(b) THEN [block[b] EXCEPT !.at = "unwinding"] ELSE block[b]]

Exception == INSTANCE FzException WITH block <- MappedBlock

\* fz_try, fz_always and fz_catch are structured exception handling: an always
\* clause runs once on every way out, the catch clause runs just when something
\* was thrown since the try, and a throw reaches the innermost block whose catch
\* clause is still ahead.
Implements == Exception!Spec
=============================================================================
