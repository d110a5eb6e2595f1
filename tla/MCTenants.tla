------------------------------ MODULE MCTenants ------------------------------
(* Instances of Tenants for TLC.                                           *)
EXTENDS Tenants, TLC

CONSTANTS t1, s1, s2, c1, w1, w2, null

OneTenant == {t1}
TwoSubs == {s1, s2}
OneCustomer == [s \in TwoSubs |-> c1]
TwoWorkers == {w1, w2}
Symmetry == Permutations(Worker) \cup Permutations(ProviderSub)
=============================================================================
