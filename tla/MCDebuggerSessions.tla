------------------------- MODULE MCDebuggerSessions -------------------------
EXTENDS DebuggerSessions, TLC

IdSymmetry == Permutations(Ids)
=============================================================================
