\* Two overlapping requests of any kind.
SPECIFICATION BackOfficeSpec
CONSTANTS
  s1 = s1
  p1 = p1
  p2 = p2
  c1 = c1
  ar = ar
  ap = ap
  a1 = a1
  a2 = a2
  t1 = t1
  t2 = t2
  cu = cu
  qu = qu
  so1 = so1
  so2 = so2
  st = st
  py1 = py1
  py2 = py2
  pr = pr
  po1 = po1
  po2 = po2
  sr = sr
  rt = rt
  gov = gov
  mod = mod
  sub = sub
  v1 = v1
  v2 = v2
  NoKey = NoKey
  NoEntry = NoEntry
  NoDoc = NoDoc
  NoRow = NoRow
  Null = Null
  Settlements = {s1}
  Payments = {p1, p2}
  Receipts = {c1}
  Vouchers = {ar, ap}
  Issues <- MCIssues
  Due <- MCDue
  PayLine <- MCPayLine
  Arrived <- MCArrived
  WriteOffs <- MCWriteOffs
  Accounts = {a1, a2}
  Transfers = {t1, t2}
  Opening <- MCOpening
  Carries <- MCCarries
  Freezes = {1}
  Docs = {cu, qu, so1, so2, st, py1, py2, pr, po1, po2, sr, rt, gov}
  Kind <- MCKind
  Origin <- MCOrigin
  Ids = {u1}
  FinRequests = {r1, r2}
  TreRequests = {r1, r2}
  DocRequests = {r1, r2}
  SwitchKeys = {mod, sub}
  ParentOf <- MCParentOf
  SwitchRequests = {r1, r2}
  Servers = {v1, v2}
  TTL = 2
  MaxClock = 2
INVARIANTS
  NeverOverpaid
  VouchersMatchMoney
  FrozenIsCovered
  BalancesMatchTransfers
  StatusIsBacked
  SuccessorsAgree
  SwitchesObeyed
SYMMETRY Symmetry
CHECK_DEADLOCK FALSE
