\* One request at a time.
SPECIFICATION Spec
CONSTANTS
  a = a
  b = b
  part = part
  whole = whole
  empty = empty
  Lines = {a, b}
  Shipments = {part, whole}
  Nameless = {}
  NoShipment = NoShipment
  Ordered <- MCOrdered
  ShipQty <- MCShipQty
  Requests = {r1}
INVARIANT NothingOverShipped
CHECK_DEADLOCK FALSE
