---------------------------- MODULE MCPaidCalls ----------------------------
(* PaidCalls for TLC: callers and requests are interchangeable.            *)
EXTENDS PaidCalls, TLC

Symmetry == Permutations(Callers) \cup Permutations(Requests)
=============================================================================
