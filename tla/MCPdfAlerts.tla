----------------------------- MODULE MCPdfAlerts -----------------------------
EXTENDS PdfAlerts, TLC

ThreadSymmetry == Permutations(Showers) \cup Permutations(Waiters) \cup Permutations(Users)
=============================================================================
