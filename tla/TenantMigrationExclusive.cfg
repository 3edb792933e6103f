\* One migration of a tenant at a time; UPDATEs fail and the process stops.
SPECIFICATION ExclusiveSpec
CONSTANTS
  Migrations = {m1, m2, m3}
  Tenants = {t1, t2}
INVARIANT SyncIsFrozen
SYMMETRY Symmetry
CHECK_DEADLOCK FALSE
