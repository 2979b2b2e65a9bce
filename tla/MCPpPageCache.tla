--------------------------- MODULE MCPpPageCache ---------------------------
EXTENDS PpPageCache, TLC

MCSlots == 0 .. 2
MCSymmetry == Permutations(Threads) \cup Permutations(Pages)
=============================================================================
