------------------------- MODULE MCSchedulerClaims -------------------------
(* Small instances of SchedulerClaims for TLC.                             *)
EXTENDS SchedulerClaims, TLC

CONSTANTS w1, w2

MCWorkers == {w1, w2}
Symmetry == Permutations(MCWorkers)

\* Claim 1 runs the model, claim 2 is deterministic.
MCFamily == 1 :> "implementation" @@ 2 :> "validation"
=============================================================================
