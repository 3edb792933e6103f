\* Four overlapping requests on a task of the backlog and on new ones.
SPECIFICATION Spec
CONSTANTS
  Requests = {r1, r2, r3, r4}
  t1 = t1
  t2 = t2
  t3 = t3
  Tasks = {t1, t2, t3}
  Backlog = {t1}
  Users = {u1, u2}
  Keys = {k1}
  Nobody = Nobody
  NoKey = NoKey
INVARIANTS
  TypeOK
  OneTaskPerKey
  ClaimedByAssignee
  AssigneeIsInTrail
SYMMETRY Symmetry
CHECK_DEADLOCK FALSE
