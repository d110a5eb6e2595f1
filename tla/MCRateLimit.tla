----------------------------- MODULE MCRateLimit -----------------------------
(* An instance of RateLimit for TLC.                                       *)
EXTENDS RateLimit, TLC

CONSTANTS a, b, c

ThreeProcesses == {a, b, c}
Symmetry == Permutations(Process)
=============================================================================
