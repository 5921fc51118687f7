------------------------- MODULE MCTerminalRecovery -------------------------
EXTENDS TerminalRecovery, TLC

CONSTANTS t1, t2

\* The ticks are alike, and no state orders them.
TickSymmetry == Permutations(Ticks)
=============================================================================
