\* Overlapping migrations; UPDATEs fail and the process stops.
SPECIFICATION LiveSpec
CONSTANTS
  Migrations = {m1, m2, m3}
  Tenants = {t1, t2}
INVARIANTS
  TypeOK
  FrozenHasOwner
PROPERTY TenantReopens
CHECK_DEADLOCK FALSE
