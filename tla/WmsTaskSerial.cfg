\* One request at a time: the aggregate's state machine.
SPECIFICATION SerialSpec
CONSTANTS
  Requests = {r1, r2, r3, r4, r5}
  t1 = t1
  t2 = t2
  t3 = t3
  Tasks = {t1, t2}
  Backlog = {t1}
  Users = {u1, u2}
  Keys = {k1}
  Nobody = Nobody
  NoKey = NoKey
PROPERTY ObeysLifecycle
CHECK_DEADLOCK FALSE
