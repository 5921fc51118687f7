------------------------- MODULE MCStateProjection -------------------------
(* Small instances of StateProjection for TLC.                             *)
EXTENDS StateProjection, TLC

Symmetry == Permutations(Workers) \cup Permutations(Operators) \cup Permutations(Tickets)
=============================================================================
