----------------------- MODULE MCTenantProvisioning -----------------------
(* Small instances of TenantProvisioning. *)
EXTENDS TenantProvisioning, TLC

Symmetry == Permutations(Requests) \cup Permutations(Tenants)
=============================================================================
