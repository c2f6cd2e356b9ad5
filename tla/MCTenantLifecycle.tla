------------------------- MODULE MCTenantLifecycle -------------------------
(* Instances of TenantLifecycle for TLC.                                     *)
EXTENDS TenantLifecycle, TLC

Symmetry == Permutations(Uuids)
=============================================================================
