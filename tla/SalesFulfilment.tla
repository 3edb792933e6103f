---------------------------- MODULE SalesFulfilment ----------------------------
(***************************************************************************)
(* From order to delivery (application/sales/sal_app_services.py):         *)
(* SalesOrderAppSvc and ShipmentAppSvc on one order, its lines and the      *)
(* shipments created for it.                                               *)
(*                                                                         *)
(* A request checks the status it has read, without a lock, calls the      *)
(* inventory or the warehouse service over HTTP, and then writes the       *)
(* columns it has changed, whatever the rows say by now.  The callers'     *)
(* routes commit.  An UPDATE and the commit after it are one step here,    *)
(* since nobody sees what lies between, except where the request reads     *)
(* again before it commits (Lock, ReadLines).  A request may fail at any   *)
(* point before its commit; what the other services did stays.             *)
(*                                                                         *)
(* Not distinguished: amounts, versions, the per-line copies of the        *)
(* reservation, packing records, and which of the reservations it has      *)
(* granted the inventory service still holds, since nothing here asks it.  *)
(* change_order is the call without lines: with lines, the flush inserts   *)
(* line 1 before it deletes the old line 1, and UNIQUE (order_id,          *)
(* line_number) fails the request.                                         *)
(***************************************************************************)
EXTENDS Integers, FiniteSets, Functions

CONSTANTS
  Lines,        \* the order's lines
  Ordered,      \* Lines -> ordered_quantity
  Shipments,    \* ids of the shipments a client may create for the order
  ShipQty,      \* Shipments -> (the lines of the order it carries -> ship_quantity)
  Nameless,     \* shipments the warehouse may answer without an identifier
  Requests,     \* requests in flight at the same time
  NoShipment    \* what a request about the order itself names

\* What the schemas guarantee: quantities are positive, and the shipment's id
\* is a UUID.  A shipment may carry no line of the order it names: its lines
\* default to none, and lines of other orders are passed over.
ASSUME OrderAssumption == Ordered \in [Lines -> Nat \ {0}]
ASSUME ShipmentsAssumption ==
  /\ NoShipment \notin Shipments
  /\ IsFiniteSet(Shipments)
  /\ \A s \in Shipments :
       /\ DOMAIN ShipQty[s] \subseteq Lines
       /\ \A l \in DOMAIN ShipQty[s] : ShipQty[s][l] \in Nat \ {0}

VARIABLES
  status,     \* sal_sales_order.status
  recorded,   \* sal_sales_order.reservation_ids, named by line
  shipped,    \* sal_sales_order_line.shipped_quantity
  ship,       \* sal_shipment_order.status
  wmsId,      \* shipments whose wms_shipping_id is set
  audit,      \* SHIPMENT_CONFIRMED records per shipment
  granted,    \* inventory service: reservations it has granted, named by line
  issued,     \* warehouse service: shipments that have left
  unnamed,    \* warehouse service: shipments it answered without an identifier
  req         \* what each request does and where it is

order    == <<status, recorded>>
sales    == <<order, shipped, ship, wmsId, audit>>
external == <<granted, issued, unnamed>>
vars     == <<sales, external, req>>

OrderStatuses == {"draft", "submitted", "approved", "rejected", "reserved",
                  "partial_shipped", "shipped", "completed", "cancelled", "closed"}
ShipStatuses  == {"absent", "draft", "picking", "packed", "shipped", "cancelled"}

\* The requests that only move a status: where it may be, and where it goes.
OrderFrom == [submit  |-> {"draft"},
              approve |-> {"submitted"},
              reject  |-> {"submitted"},
              change  |-> {"reserved", "partial_shipped"},
              close   |-> {"completed", "shipped"}]
OrderTo   == [submit |-> "submitted", approve |-> "approved", reject |-> "rejected",
              change |-> "submitted", close |-> "closed"]

ShipFrom == [create |-> {"absent"},
             pick   |-> {"draft"},
             pack   |-> {"picking"},
             void   |-> {"draft", "picking", "packed"},
             repair |-> ShipStatuses \ {"shipped"}]
ShipTo   == [create |-> "draft", pick |-> "picking", pack |-> "packed",
             void |-> "cancelled", repair |-> "shipped"]

OrderMoves == {"submit", "approve", "reject", "change", "close"}
ShipMoves  == {"create", "pick", "pack", "void", "repair"}

Ops    == OrderMoves \cup ShipMoves \cup {"fulfil", "cancel", "cancelAgain", "confirm", "none"}
Points == {"idle", "write", "calls", "issue", "lock", "read", "count"}

NothingRead == [l \in Lines |-> 0]

\* had, knew: the order's reservations, and whether the shipment had a
\* wms_shipping_id, when the request loaded the row.  named: whether the
\* warehouse's answer has one.
Request(op, s, at, todo, had) ==
  [op |-> op, ship |-> s, at |-> at, todo |-> todo, had |-> had, seen |-> NothingRead,
   knew |-> op = "confirm" /\ s \in wmsId, named |-> FALSE]

Goto(r, at) == req' = [req EXCEPT ![r].at = at]

Idle == Request("none", NoShipment, "idle", {}, {})

\* The answer is sent and what the request knew is forgotten.
Ended(r) == req' = [req EXCEPT ![r] = Idle]

Init ==
  /\ status = "draft" /\ recorded = {}
  /\ shipped = [l \in Lines |-> 0]
  /\ ship = [s \in Shipments |-> "absent"]
  /\ wmsId = {} /\ audit = [s \in Shipments |-> 0]
  /\ granted = {} /\ issued = {} /\ unnamed = {}
  /\ req = [r \in Requests |-> Idle]

-------------------------------------------------------------------------------
(***************************************************************************)
(* What each request checks before it does anything                        *)
(***************************************************************************)
MayFulfil == status = "approved"

MayCancel == \A l \in Lines : shipped[l] = 0

MayCreate == status \in {"reserved", "partial_shipped"}

MayConfirm(s) == ship[s] \in {"picking", "packed"}

Starts(r, request) ==
  /\ req[r].at = "idle"
  /\ req' = [req EXCEPT ![r] = request]
  /\ UNCHANGED <<sales, external>>

\* Mutant: the status is not checked.
MoveOrderUnchecked(r, op) == Starts(r, Request(op, NoShipment, "write", {}, {}))

MoveOrder(r, op) ==
  /\ status \in OrderFrom[op]
  /\ Starts(r, Request(op, NoShipment, "write", {}, {}))

MoveShipment(r, op, s) ==
  /\ ship[s] \in ShipFrom[op]
  /\ op = "create" => MayCreate
  /\ op = "repair" => s \in wmsId
  /\ Starts(r, Request(op, s, "write", {}, {}))

\* confirm_order and cancel_order have a call to make for every line or
\* reservation they found, in no particular order (list_lines sorts nothing).
\* A cancelled order can be cancelled again: its status is then not written.
Fulfil(r) ==
  /\ MayFulfil
  /\ Starts(r, Request("fulfil", NoShipment, "calls", Lines, recorded))

Cancel(r) ==
  /\ MayCancel
  /\ Starts(r, Request(IF status = "cancelled" THEN "cancelAgain" ELSE "cancel",
                       NoShipment, "calls", recorded, recorded))

ConfirmShipment(r, s) ==
  /\ MayConfirm(s)
  /\ Starts(r, Request("confirm", s, "issue", {}, {}))

Begin(r) ==
  \/ \E op \in OrderMoves : MoveOrder(r, op)
  \/ \E op \in ShipMoves, s \in Shipments : MoveShipment(r, op, s)
  \/ Fulfil(r) \/ Cancel(r)
  \/ \E s \in Shipments : ConfirmShipment(r, s)

-------------------------------------------------------------------------------
(***************************************************************************)
(* The short requests                                                      *)
(***************************************************************************)
\* A confirmation has written the shipment's row and not committed yet.
Locked(s) == \E q \in Requests : req[q].ship = s /\ req[q].at \in {"read", "count"}

WriteOrder(r) ==
  /\ req[r].at = "write" /\ req[r].op \in OrderMoves
  /\ status' = OrderTo[req[r].op]
  /\ Ended(r)
  /\ UNCHANGED <<recorded, shipped, ship, wmsId, audit, external>>

\* A shipment's code is unique: the second of two creations fails.
WriteShipment(r) ==
  LET s == req[r].ship IN
  /\ req[r].at = "write" /\ req[r].op \in ShipMoves
  /\ ~ Locked(s)
  /\ ship' = [ship EXCEPT ![s] =
                IF req[r].op = "create" /\ @ # "absent" THEN @ ELSE ShipTo[req[r].op]]
  /\ Ended(r)
  /\ UNCHANGED <<order, shipped, wmsId, audit, external>>

-------------------------------------------------------------------------------
(***************************************************************************)
(* confirm_order and cancel_order: one call per line                       *)
(***************************************************************************)
Cancels == {"cancel", "cancelAgain"}

Calling(r, ops) == req[r].at = "calls" /\ req[r].op \in ops

Tick(r, l) == req' = [req EXCEPT ![r].todo = @ \ {l}]

\* The key of the reservation names order and line, so a repeated call is
\* answered with the first reservation.
Reserve(r, l) ==
  /\ Calling(r, {"fulfil"}) /\ l \in req[r].todo
  /\ granted' = granted \cup {l}
  /\ Tick(r, l)
  /\ UNCHANGED <<sales, issued, unnamed>>

\* Nobody looks at the answer to a release, which may be a refusal: the
\* request goes on either way.
Release(r, l) ==
  /\ Calling(r, Cancels) /\ l \in req[r].todo
  /\ Tick(r, l)
  /\ UNCHANGED <<sales, external>>

Called(r, ops) == Calling(r, ops) /\ req[r].todo = {}

\* A column is written only if the new value differs from the loaded one; two
\* lists of the same reservations may differ in their order.
StoresReservations(r, new) ==
  recorded' \in IF req[r].had # new THEN {new}
                ELSE IF new = {} THEN {recorded} ELSE {recorded, new}

\* Mutant: the reservations are stored although calls are left to make.
EndFulfilEarly(r) ==
  /\ Calling(r, {"fulfil"})
  /\ status' = "reserved"
  /\ StoresReservations(r, Lines)
  /\ Ended(r)
  /\ UNCHANGED <<shipped, ship, wmsId, audit, external>>

EndFulfil(r) ==
  /\ Called(r, {"fulfil"})
  /\ status' = "reserved"
  /\ StoresReservations(r, Lines)
  /\ Ended(r)
  /\ UNCHANGED <<shipped, ship, wmsId, audit, external>>

EndCancel(r) ==
  /\ Called(r, Cancels)
  /\ status' = IF req[r].op = "cancel" THEN "cancelled" ELSE status
  /\ StoresReservations(r, {})
  /\ Ended(r)
  /\ UNCHANGED <<shipped, ship, wmsId, audit, external>>

-------------------------------------------------------------------------------
(***************************************************************************)
(* confirm_shipment                                                        *)
(***************************************************************************)
\* Mutant: the warehouse service is not called.
IssueSkipped(r) ==
  /\ req[r].at = "issue"
  /\ Goto(r, "lock")
  /\ UNCHANGED <<sales, external>>

Answered(r, named) == req' = [req EXCEPT ![r].at = "lock", ![r].named = named]

\* The warehouse creates its shipping order, and a second call confirms that:
\* the goods leave.
Issue(r) ==
  /\ req[r].at = "issue"
  /\ issued' = issued \cup {req[r].ship}
  /\ Answered(r, TRUE)
  /\ UNCHANGED <<sales, granted, unnamed>>

\* The shipping order's answer carries no wms_shipping_id, and the request
\* goes on without confirming it.
IssueUnnamed(r) ==
  /\ req[r].at = "issue" /\ req[r].ship \in Nameless
  /\ unnamed' = unnamed \cup {req[r].ship}
  /\ Answered(r, FALSE)
  /\ UNCHANGED <<sales, granted, issued>>

\* The flush that writes status and wms_shipping_id.
Lock(r) ==
  /\ req[r].at = "lock"
  /\ ~ Locked(req[r].ship)
  /\ Goto(r, "read")
  /\ UNCHANGED <<sales, external>>

ReadLines(r) ==
  /\ req[r].at = "read"
  /\ req' = [req EXCEPT ![r].at = "count", ![r].seen = shipped]
  /\ UNCHANGED <<sales, external>>

\* What the lines have shipped after this shipment, from what was read.
NewShipped(r, l) == req[r].seen[l] + ShipQty[req[r].ship][l]

\* Mutant: a status the column's readers do not know.
StatusMisspelt(r) ==
  IF \A l \in DOMAIN ShipQty[req[r].ship] : NewShipped(r, l) >= Ordered[l]
  THEN "shipped" ELSE "partially_shipped"

\* The order is "shipped" when the lines of this shipment are complete.
StatusAfter(r) ==
  IF \A l \in DOMAIN ShipQty[req[r].ship] : NewShipped(r, l) >= Ordered[l]
  THEN "shipped" ELSE "partial_shipped"

\* Mutant: the lines of the shipment overwrite what was shipped before.
CountedAlone(r) ==
  [l \in Lines |-> IF l \in DOMAIN ShipQty[req[r].ship]
                   THEN ShipQty[req[r].ship][l] ELSE shipped[l]]

Counted(r) ==
  [l \in Lines |-> IF l \in DOMAIN ShipQty[req[r].ship] THEN NewShipped(r, l) ELSE shipped[l]]

\* The identifier answered replaces the one loaded, or its absence does.
IdsAfter(r) ==
  IF req[r].named = req[r].knew THEN wmsId
  ELSE IF req[r].named THEN wmsId \cup {req[r].ship} ELSE wmsId \ {req[r].ship}

\* _update_order_four_state, the audit record and the commit.
Count(r) ==
  LET s == req[r].ship IN
  /\ req[r].at = "count"
  /\ shipped' = Counted(r)
  /\ status' = StatusAfter(r)
  /\ ship' = [ship EXCEPT ![s] = "shipped"]
  /\ wmsId' = IdsAfter(r)
  /\ audit' = [audit EXCEPT ![s] = @ + 1]
  /\ Ended(r)
  /\ UNCHANGED <<recorded, external>>

-------------------------------------------------------------------------------
\* An exception, a refusal of another service, a lost connection.
Fail(r) ==
  /\ req[r].at # "idle"
  /\ Ended(r)
  /\ UNCHANGED <<sales, external>>

Step(r) ==
  \/ WriteOrder(r) \/ WriteShipment(r)
  \/ \E l \in Lines : Reserve(r, l) \/ Release(r, l)
  \/ EndFulfil(r) \/ EndCancel(r)
  \/ Issue(r) \/ IssueUnnamed(r) \/ Lock(r) \/ ReadLines(r) \/ Count(r)

Next == \E r \in Requests : Begin(r) \/ Step(r) \/ Fail(r)

Spec == Init /\ [][Next]_vars

\* Confirmations of shipments do not overlap: each adds to the quantities it
\* has read, so two at a time lose one (everything else may overlap).
Confirming(r) == req[r].op = "confirm" /\ req[r].at # "idle"

OneConfirmation == \A q, r \in Requests : Confirming(q) /\ Confirming(r) => q = r

CarefulSpec == Init /\ [][Next /\ OneConfirmation']_vars

-------------------------------------------------------------------------------
TypeOK ==
  /\ status \in OrderStatuses
  /\ recorded \subseteq Lines
  /\ shipped \in [Lines -> Nat]
  /\ ship \in [Shipments -> ShipStatuses]
  /\ wmsId \subseteq Shipments
  /\ audit \in [Shipments -> Nat]
  /\ granted \subseteq Lines
  /\ issued \subseteq Shipments /\ unnamed \subseteq Shipments
  /\ req \in [Requests -> [op : Ops, ship : Shipments \cup {NoShipment}, at : Points, todo : SUBSET Lines,
                           had : SUBSET Lines, seen : [Lines -> Nat],
                           knew : BOOLEAN, named : BOOLEAN]]

\* The warehouse is the fact layer ("red line one", lines 602 and 689): a
\* shipment has a wms_shipping_id, and is recorded as shipped by a confirmation
\* or a repair, only after the warehouse has issued it, wherever requests fail
\* or overlap.  The one way round it is the code's own (line 719): a shipment
\* whose shipping order was answered without an identifier is recorded as
\* shipped although nobody has confirmed it.
ShippedWasIssued ==
  /\ wmsId \subseteq issued
  /\ \A s \in Shipments : ship[s] = "shipped" => s \in issued \cup unnamed

\* The reservations an order names were all granted, although the calls may
\* stop half way and confirmations, changes and cancellations overlap
\* (lines 504-530 and 579-586).
RecordedWasGranted == recorded \subseteq granted

\* An order is never advanced to a shipping status by a request that shipped
\* nothing, nor do overlapping requests bring the shipped quantities of such
\* an order back to zero (lines 597 and 752-762), except by a shipment that
\* carries nothing of the order: confirming it makes the order "shipped".
NothingOf(s) == DOMAIN ShipQty[s] = {}

GoodsBehindStatus ==
  status \in {"partial_shipped", "shipped", "completed", "closed"} =>
    \/ \E l \in Lines : shipped[l] > 0
    \/ \E s \in Shipments : NothingOf(s) /\ audit[s] > 0

\* The lines' shipped quantities are what the audit trail accounts for: a
\* shipment that is cancelled, picked or repaired by an overlapping request is
\* neither lost nor counted twice (lines 725-737 and 743-763).
CountedFor(l) ==
  [s \in Shipments |-> IF l \in DOMAIN ShipQty[s] THEN audit[s] * ShipQty[s][l] ELSE 0]

Audited(l) == SumFunction(CountedFor(l))

LinesMatchAudit == \A l \in Lines : shipped[l] = Audited(l)

-------------------------------------------------------------------------------
\* Nothing is shipped beyond what was ordered (partial_fulfillment_service.py
\* line 18 and sales_order_vo.py lines 64-68).
NothingOverShipped == \A l \in Lines : shipped[l] <= Ordered[l]

===============================================================================
