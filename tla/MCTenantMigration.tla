-------------------------- MODULE MCTenantMigration --------------------------
(***************************************************************************)
(* TenantMigration for TLC: three calls over two tenants, so that at least *)
(* two calls share a tenant.                                               *)
(***************************************************************************)
EXTENDS TenantMigration, TLC

Symmetry == Permutations(Migrations) \cup Permutations(Tenants)
=============================================================================
