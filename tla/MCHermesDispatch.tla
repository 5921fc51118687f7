-------------------------- MODULE MCHermesDispatch --------------------------
EXTENDS HermesDispatch, TLC
CONSTANTS P, C

Chain == (P :> {}) @@ (C :> {P})
=============================================================================
