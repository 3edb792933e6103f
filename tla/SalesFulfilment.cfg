\* Two requests at a time, in any order and as many as clients like.
SPECIFICATION CarefulSpec
CONSTANTS
  a = a
  b = b
  part = part
  whole = whole
  empty = empty
  Lines = {a, b}
  Shipments = {part, empty}
  Nameless = {part}
  NoShipment = NoShipment
  Ordered <- MCOrdered
  ShipQty <- MCShipQty
  Requests = {r1, r2}
INVARIANTS
  TypeOK
  ShippedWasIssued
  RecordedWasGranted
  GoodsBehindStatus
  LinesMatchAudit
SYMMETRY Symmetry
CHECK_DEADLOCK FALSE
