------------------------- MODULE SalesFulfilment_proofs -------------------------
(***************************************************************************)
(* What holds of any order, any shipments and any number of overlapping    *)
(* requests, confirmations of shipments included: a shipment recorded as   *)
(* shipped has left the warehouse or was answered without an identifier, a *)
(* reservation the order names was granted, and an order in a shipping     *)
(* status has shipped something or had an empty shipment confirmed.  While *)
(* confirmations do not overlap, the lines agree with the audit trail; one *)
(* request at a time ships no more than the shipments were made for.       *)
(***************************************************************************)
EXTENDS SalesFulfilment, Sums, TLAPS

USE OrderAssumption, ShipmentsAssumption

USE DEF Ops, OrderMoves, ShipMoves, Points, OrderStatuses, ShipStatuses

LEMMA OrderTables ==
  \A op \in OrderMoves : OrderTo[op] \in OrderStatuses /\ OrderFrom[op] \subseteq OrderStatuses
  BY DEF OrderTo, OrderFrom

LEMMA ShipTables == \A op \in ShipMoves : ShipTo[op] \in ShipStatuses
  BY DEF ShipTo

RequestType == [op : Ops, ship : Shipments \cup {NoShipment}, at : Points,
                todo : SUBSET Lines, had : SUBSET Lines, seen : [Lines -> Nat],
                knew : BOOLEAN, named : BOOLEAN]

LEMMA IdleType == Idle \in RequestType
  BY DEF Idle, Request, NothingRead, RequestType

(* A field of one request changes within its type.                         *)
LEMMA FieldTypes ==
  \A q \in RequestType :
    /\ \A at \in Points : [q EXCEPT !.at = at] \in RequestType
    /\ \A named \in BOOLEAN : [q EXCEPT !.at = "lock", !.named = named] \in RequestType
    /\ \A todo \in SUBSET Lines : [q EXCEPT !.todo = todo] \in RequestType
    /\ \A at \in Points, seen \in [Lines -> Nat] :
         [q EXCEPT !.at = at, !.seen = seen] \in RequestType
<1>1. ASSUME NEW q \in RequestType, NEW at \in Points PROVE [q EXCEPT !.at = at] \in RequestType
  BY DEF RequestType
<1>2. ASSUME NEW q \in RequestType, NEW todo \in SUBSET Lines
      PROVE  [q EXCEPT !.todo = todo] \in RequestType
  BY DEF RequestType
<1>3. ASSUME NEW q \in RequestType, NEW at \in Points, NEW seen \in [Lines -> Nat]
      PROVE  [q EXCEPT !.at = at, !.seen = seen] \in RequestType
  BY DEF RequestType
<1>4. ASSUME NEW q \in RequestType, NEW named \in BOOLEAN
      PROVE  [q EXCEPT !.at = "lock", !.named = named] \in RequestType
  BY DEF RequestType
<1>5. QED
  BY <1>1, <1>2, <1>3, <1>4, Zenon

LEMMA Replaced ==
  ASSUME req \in [Requests -> RequestType], NEW r \in Requests, NEW new \in RequestType,
         req' = [req EXCEPT ![r] = new]
  PROVE  req' \in [Requests -> RequestType]
  OBVIOUS

LEMMA GotoType ==
  ASSUME req \in [Requests -> RequestType], NEW r \in Requests, NEW at \in Points, Goto(r, at)
  PROVE  req' \in [Requests -> RequestType]
<1>1. req[r] \in RequestType
  OBVIOUS
<1>2. [req[r] EXCEPT !.at = at] \in RequestType
  BY <1>1, FieldTypes, Zenon
<1>3. req' = [req EXCEPT ![r] = [req[r] EXCEPT !.at = at]]
  BY Zenon DEF Goto
<1>4. QED
  BY <1>2, <1>3, Replaced, Zenon

LEMMA AnsweredType ==
  ASSUME req \in [Requests -> RequestType], NEW r \in Requests, NEW named \in BOOLEAN,
         Answered(r, named)
  PROVE  req' \in [Requests -> RequestType]
<1>1. req[r] \in RequestType
  OBVIOUS
<1>2. [req[r] EXCEPT !.at = "lock", !.named = named] \in RequestType
  BY <1>1, FieldTypes, Zenon
<1>3. req' = [req EXCEPT ![r] = [req[r] EXCEPT !.at = "lock", !.named = named]]
  BY Zenon DEF Answered
<1>4. QED
  BY <1>2, <1>3, Replaced, Zenon

(* What a request can rely on at each point of its way.                    *)
SomethingShipped ==
  \/ \E l \in Lines : shipped[l] > 0
  \/ \E s \in Shipments : NothingOf(s) /\ audit[s] > 0

Confirms(r)    == req[r].at \in {"issue", "lock", "read", "count"} => req[r].ship \in Shipments
AfterIssue(r)  == req[r].at \in {"lock", "read", "count"} =>
                    req[r].ship \in IF req[r].named THEN issued ELSE unnamed
Repairs(r)     == req[r].at = "write" /\ req[r].op = "repair" => req[r].ship \in issued
Reserves(r)    == req[r].at = "calls" /\ req[r].op = "fulfil" => Lines \ req[r].todo \subseteq granted
Closes(r)      == req[r].at = "write" /\ req[r].op = "close" => SomethingShipped

Ready == \A r \in Requests : Confirms(r) /\ AfterIssue(r) /\ Repairs(r) /\ Reserves(r) /\ Closes(r)

Inv == TypeOK /\ Ready /\ ShippedWasIssued /\ RecordedWasGranted /\ GoodsBehindStatus

LEMMA InitInv == Init => Inv
  BY IdleType
  DEF Init, Inv, TypeOK, RequestType, Ready, Confirms, AfterIssue, Repairs, Reserves, Closes,
      ShippedWasIssued, RecordedWasGranted, GoodsBehindStatus, Idle, Request

LEMMA TypeStep == TypeOK /\ Ready /\ [Next]_vars => TypeOK'
<1>0. SUFFICES ASSUME TypeOK, Ready, [Next]_vars PROVE TypeOK'
  OBVIOUS
<1> USE DEF TypeOK, sales, order, external
<1>1. req \in [Requests -> RequestType]
  BY <1>0 DEF RequestType
<1>2. ASSUME NEW r \in Requests, NEW new \in RequestType, Starts(r, new) PROVE TypeOK'
  BY <1>0, <1>2 DEF Starts, RequestType
<1>3. ASSUME NEW r \in Requests, Begin(r) PROVE TypeOK'
  <2>1. ASSUME NEW op \in OrderMoves, MoveOrder(r, op) PROVE TypeOK'
    <3>1. Request(op, NoShipment, "write", {}, {}) \in RequestType
      BY DEF Request, NothingRead, RequestType
    <3>2. QED
      BY <2>1, <3>1, <1>2 DEF MoveOrder
  <2>2. ASSUME NEW op \in ShipMoves, NEW s \in Shipments, MoveShipment(r, op, s) PROVE TypeOK'
    <3>1. Request(op, s, "write", {}, {}) \in RequestType
      BY DEF Request, NothingRead, RequestType
    <3>2. QED
      BY <2>2, <3>1, <1>2 DEF MoveShipment
  <2>3. CASE Fulfil(r) \/ Cancel(r)
    <3>1. /\ Request("fulfil", NoShipment, "calls", Lines, recorded) \in RequestType
          /\ \A op \in Cancels : Request(op, NoShipment, "calls", recorded, recorded) \in RequestType
      BY <1>0 DEF Request, NothingRead, RequestType, Cancels
    <3>2. QED
      BY <2>3, <3>1, <1>2 DEF Fulfil, Cancel, Cancels
  <2>4. ASSUME NEW s \in Shipments, ConfirmShipment(r, s) PROVE TypeOK'
    <3>1. Request("confirm", s, "issue", {}, {}) \in RequestType
      BY DEF Request, NothingRead, RequestType
    <3>2. QED
      BY <2>4, <3>1, <1>2 DEF ConfirmShipment
  <2>5. QED
    BY <1>3, <2>1, <2>2, <2>3, <2>4 DEF Begin
<1>4. ASSUME NEW r \in Requests, Ended(r) PROVE req' \in [Requests -> RequestType]
  BY <1>1, <1>4, IdleType DEF Ended
<1>5. ASSUME NEW r \in Requests, WriteOrder(r) PROVE TypeOK'
  BY <1>0, <1>4, <1>5, OrderTables DEF WriteOrder, RequestType
<1>6. ASSUME NEW r \in Requests, WriteShipment(r) PROVE TypeOK'
  BY <1>0, <1>4, <1>6, ShipTables DEF WriteShipment, RequestType
<1>7. ASSUME NEW r \in Requests, NEW l \in Lines, Reserve(r, l) \/ Release(r, l) PROVE TypeOK'
  <2>1. req[r].todo \ {l} \in SUBSET Lines
    BY <1>1 DEF RequestType
  <2>2. req' \in [Requests -> RequestType]
    <3>1. [req[r] EXCEPT !.todo = req[r].todo \ {l}] \in RequestType
      BY <1>1, <2>1, FieldTypes, Zenon
    <3>2. req' = [req EXCEPT ![r] = [req[r] EXCEPT !.todo = req[r].todo \ {l}]]
      BY <1>7, Zenon DEF Reserve, Release, Tick
    <3>3. QED
      BY <1>1, <3>1, <3>2, Replaced, Zenon
  <2>3. QED
    BY <1>0, <1>7, <2>2 DEF Reserve, Release, RequestType
<1>8. ASSUME NEW r \in Requests, EndFulfil(r) \/ EndCancel(r) PROVE TypeOK'
  BY <1>0, <1>4, <1>8 DEF EndFulfil, EndCancel, StoresReservations, RequestType
<1>9. ASSUME NEW r \in Requests, Issue(r) \/ IssueUnnamed(r) PROVE TypeOK'
  <2>1. req' \in [Requests -> RequestType]
    BY <1>1, <1>9, AnsweredType DEF Issue, IssueUnnamed
  <2>2. req[r].ship \in Shipments
    BY <1>0, <1>9 DEF Issue, IssueUnnamed, Ready, Confirms
  <2>3. QED
    BY <1>0, <1>9, <2>1, <2>2 DEF Issue, IssueUnnamed, RequestType
<1>10. ASSUME NEW r \in Requests, Lock(r) \/ ReadLines(r) PROVE TypeOK'
  <2>1. CASE Lock(r)
    BY <1>0, <1>1, <2>1, GotoType DEF Lock, RequestType
  <2>2. CASE ReadLines(r)
    <3>1. [req[r] EXCEPT !.at = "count", !.seen = shipped] \in RequestType
      <4>1. req[r] \in RequestType /\ "count" \in Points /\ shipped \in [Lines -> Nat]
        BY <1>0, <1>1
      <4>2. QED
        BY <4>1, FieldTypes, Zenon
    <3>2. req' = [req EXCEPT ![r] = [req[r] EXCEPT !.at = "count", !.seen = shipped]]
      BY <2>2, Zenon DEF ReadLines
    <3>3. QED
      <4>1. req' \in [Requests -> RequestType]
        BY <1>1, <3>1, <3>2, Replaced, Zenon
      <4>2. QED
        BY <1>0, <2>2, <4>1 DEF ReadLines, RequestType
  <2>3. QED
    BY <1>10, <2>1, <2>2
<1>11. ASSUME NEW r \in Requests, Count(r) PROVE TypeOK'
  <2>1. req[r].ship \in Shipments
    BY <1>0, <1>11 DEF Count, Ready, Confirms
  <2>2. \A l \in DOMAIN ShipQty[req[r].ship] : NewShipped(r, l) \in Nat \ {0}
    BY <1>0, <2>1 DEF NewShipped
  <2>3. Counted(r) \in [Lines -> Nat]
    BY <1>0, <2>2 DEF Counted
  <2>4. QED
    BY <1>0, <1>4, <1>11, <2>1, <2>3 DEF Count, StatusAfter, IdsAfter, RequestType
<1>12. ASSUME NEW r \in Requests, Fail(r) PROVE TypeOK'
  BY <1>0, <1>4, <1>12 DEF Fail, RequestType
<1>13. CASE UNCHANGED vars
  BY <1>0, <1>13 DEF vars
<1>14. QED
  BY <1>0, <1>3, <1>5, <1>6, <1>7, <1>8, <1>9, <1>10, <1>11, <1>12, <1>13 DEF Next, Step

LEMMA CountShips ==
  ASSUME TypeOK, Ready, NEW r \in Requests, Count(r)
  PROVE  SomethingShipped'
<1> DEFINE s == req[r].ship
<1>1. s \in Shipments /\ req[r].seen \in [Lines -> Nat]
  BY DEF Count, Ready, Confirms, TypeOK
<1>2. CASE NothingOf(s)
  <2>1. audit'[s] = audit[s] + 1 /\ audit[s] \in Nat
    BY <1>1 DEF Count, TypeOK
  <2>2. QED
    BY <1>1, <1>2, <2>1 DEF SomethingShipped, NothingOf
<1>3. CASE ~ NothingOf(s)
  <2>1. PICK l \in DOMAIN ShipQty[s] : TRUE
    BY <1>3 DEF NothingOf
  <2>2. l \in Lines /\ NewShipped(r, l) > 0
    BY <1>1, <2>1 DEF NewShipped
  <2>3. shipped'[l] = NewShipped(r, l)
    BY <2>1, <2>2 DEF Count, Counted
  <2>4. QED
    BY <2>2, <2>3 DEF SomethingShipped
<1>4. QED
  BY <1>2, <1>3

(* Nothing that has happened is undone: what left the warehouse or was     *)
(* answered without an identifier, what was granted, that something        *)
(* shipped.                                                                *)
LEMMA Monotone ==
  ASSUME TypeOK, Ready, [Next]_vars
  PROVE  /\ issued \subseteq issued' /\ granted \subseteq granted' /\ unnamed \subseteq unnamed'
         /\ SomethingShipped => SomethingShipped'
<1> USE DEF sales, order, external, SomethingShipped
<1>1. ASSUME NEW r \in Requests, Begin(r) \/ Fail(r)
      PROVE  UNCHANGED <<sales, external>>
  BY <1>1 DEF Begin, Fail, MoveOrder, MoveShipment, Fulfil, Cancel, ConfirmShipment, Starts
<1>2. ASSUME NEW r \in Requests, WriteOrder(r) \/ WriteShipment(r) \/ EndFulfil(r) \/ EndCancel(r)
      PROVE  UNCHANGED <<shipped, audit, external>>
  BY <1>2 DEF WriteOrder, WriteShipment, EndFulfil, EndCancel
<1>3. ASSUME NEW r \in Requests, NEW l \in Lines, Reserve(r, l) \/ Release(r, l)
      PROVE  UNCHANGED <<shipped, audit, issued, unnamed>> /\ granted \subseteq granted'
  BY <1>3 DEF Reserve, Release
<1>4. ASSUME NEW r \in Requests, Issue(r) \/ IssueUnnamed(r) \/ Lock(r) \/ ReadLines(r)
      PROVE  /\ UNCHANGED <<shipped, audit, granted>>
             /\ issued \subseteq issued' /\ unnamed \subseteq unnamed'
  BY <1>4 DEF Issue, IssueUnnamed, Lock, ReadLines
<1>5. ASSUME NEW r \in Requests, Count(r)
      PROVE  UNCHANGED <<granted, issued, unnamed>> /\ SomethingShipped'
  BY <1>5, CountShips DEF Count
<1>6. CASE UNCHANGED vars
  BY <1>6 DEF vars
<1>7. QED
  BY <1>1, <1>2, <1>3, <1>4, <1>5, <1>6 DEF Next, Step

LEMMA ReadyStep == Inv /\ [Next]_vars => Ready'
<1>0. SUFFICES ASSUME Inv, [Next]_vars PROVE Ready'
  OBVIOUS
<1> USE DEF Confirms, AfterIssue, Repairs, Reserves, Closes
<1>1. TypeOK /\ Ready /\ GoodsBehindStatus /\ ShippedWasIssued
  BY <1>0 DEF Inv
<1>2. /\ issued \subseteq issued' /\ granted \subseteq granted' /\ unnamed \subseteq unnamed'
      /\ SomethingShipped => SomethingShipped'
  BY <1>0, <1>1, Monotone
<1>3. ASSUME NEW q \in Requests, req'[q] = req[q]
      PROVE  (Confirms(q) /\ AfterIssue(q) /\ Repairs(q) /\ Reserves(q) /\ Closes(q))'
  BY <1>1, <1>2, <1>3 DEF Ready
<1>4. ASSUME NEW r \in Requests, \A q \in Requests \ {r} : req'[q] = req[q],
             (Confirms(r) /\ AfterIssue(r) /\ Repairs(r) /\ Reserves(r) /\ Closes(r))'
      PROVE  Ready'
  BY <1>3, <1>4 DEF Ready
<1>5. ASSUME NEW r \in Requests, Begin(r) PROVE Ready'
  <2>1. \A q \in Requests \ {r} : req'[q] = req[q]
    BY <1>1, <1>5 DEF Begin, MoveOrder, MoveShipment, Fulfil, Cancel, ConfirmShipment, Starts, TypeOK
  <2>2. (Confirms(r) /\ AfterIssue(r) /\ Repairs(r) /\ Reserves(r))'
    BY <1>1, <1>5 DEF Inv, Begin, MoveOrder, MoveShipment, Fulfil, Cancel, ConfirmShipment, Starts,
       TypeOK, Request, sales, order, external, ShippedWasIssued
  <2>3. Closes(r)'
    <3>1. ASSUME NEW op \in OrderMoves, MoveOrder(r, op) PROVE Closes(r)'
      <4>1. req'[r].op = op
        BY <1>1, <3>1 DEF MoveOrder, Starts, Request, TypeOK
      <4>2. CASE op = "close"
        <5>1. status \in {"completed", "shipped"}
          BY <3>1, <4>2 DEF MoveOrder, OrderFrom
        <5>2. QED
          BY <1>1, <1>2, <5>1 DEF GoodsBehindStatus, SomethingShipped
      <4>3. QED
        BY <4>1, <4>2
    <3>2. QED
      BY <1>1, <1>5, <3>1 DEF Begin, MoveShipment, Fulfil, Cancel, ConfirmShipment, Starts, Request, TypeOK
  <2>4. QED
    BY <1>4, <2>1, <2>2, <2>3
<1>6. ASSUME NEW r \in Requests, Ended(r) PROVE Ready'
  <2>1. req' = [req EXCEPT ![r] = Idle] /\ req'[r].at = "idle"
    BY <1>1, <1>6 DEF Ended, Idle, Request, TypeOK
  <2>2. QED
    BY <1>1, <1>4, <2>1 DEF TypeOK
<1>7. ASSUME NEW r \in Requests, NEW l \in Lines, Reserve(r, l) \/ Release(r, l) PROVE Ready'
  <2>1. \A q \in Requests \ {r} : req'[q] = req[q]
    BY <1>1, <1>7 DEF Reserve, Release, Tick, TypeOK
  <2>2. /\ req[r].at = "calls" /\ req'[r].at = "calls" /\ req'[r].op = req[r].op
        /\ req'[r].todo = req[r].todo \ {l}
    BY <1>1, <1>7 DEF Reserve, Release, Calling, Tick, TypeOK
  <2>3. Reserves(r)'
    BY <1>1, <1>7, <2>2 DEF Ready, Reserve, Release, Calling, Cancels
  <2>4. QED
    BY <1>4, <2>1, <2>2, <2>3
<1>8. ASSUME NEW r \in Requests, Issue(r) \/ IssueUnnamed(r) \/ Lock(r) \/ ReadLines(r)
      PROVE  Ready'
  <2>1. \A q \in Requests \ {r} : req'[q] = req[q]
    BY <1>1, <1>8 DEF Issue, IssueUnnamed, Answered, Lock, ReadLines, Goto, TypeOK
  <2>2. /\ req[r].at \in {"issue", "lock", "read"} /\ req'[r].at \in {"lock", "read", "count"}
        /\ req'[r].ship = req[r].ship
    BY <1>1, <1>8 DEF Issue, IssueUnnamed, Answered, Lock, ReadLines, Goto, TypeOK
  <2>3. req'[r].ship \in IF req'[r].named THEN issued' ELSE unnamed'
    <3>1. CASE Issue(r)
      BY <1>1, <2>2, <3>1 DEF Issue, Answered, TypeOK
    <3>2. CASE IssueUnnamed(r)
      BY <1>1, <2>2, <3>2 DEF IssueUnnamed, Answered, TypeOK
    <3>3. CASE Lock(r) \/ ReadLines(r)
      <4>1. req[r].at \in {"lock", "read"} /\ req'[r].named = req[r].named
        BY <1>1, <3>3 DEF Lock, ReadLines, Goto, TypeOK
      <4>2. QED
        BY <1>1, <1>2, <2>2, <4>1 DEF Ready
    <3>4. QED
      BY <1>8, <3>1, <3>2, <3>3
  <2>4. req'[r].ship \in Shipments
    BY <1>1, <2>2 DEF Ready
  <2>5. QED
    BY <1>4, <2>1, <2>2, <2>3, <2>4
<1>9. CASE UNCHANGED vars
  BY <1>1, <1>2, <1>3, <1>9 DEF vars, Ready
<1>10. QED
  BY <1>0, <1>5, <1>6, <1>7, <1>8, <1>9
  DEF Next, Step, WriteOrder, WriteShipment, EndFulfil, EndCancel, Count, Fail

LEMMA InvStep == Inv /\ [Next]_vars => Inv'
<1>0. SUFFICES ASSUME Inv, [Next]_vars PROVE Inv'
  OBVIOUS
<1> USE DEF sales, order, external
<1>1. TypeOK /\ Ready /\ ShippedWasIssued /\ RecordedWasGranted /\ GoodsBehindStatus
  BY <1>0 DEF Inv
<1>2. TypeOK' /\ Ready'
  BY <1>0, <1>1, TypeStep, ReadyStep
<1>3. /\ issued \subseteq issued' /\ granted \subseteq granted' /\ unnamed \subseteq unnamed'
      /\ SomethingShipped => SomethingShipped'
  BY <1>0, <1>1, Monotone
<1>4. ShippedWasIssued'
  <2>1. ASSUME NEW r \in Requests, WriteShipment(r) PROVE ShippedWasIssued'
    <3>1. ASSUME ShipTo[req[r].op] = "shipped", req[r].op \in ShipMoves PROVE req[r].op = "repair"
      BY <3>1 DEF ShipTo
    <3>2. \A s \in Shipments :
            ship'[s] = "shipped" => ship[s] = "shipped" \/ (s = req[r].ship /\ req[r].op = "repair")
      BY <1>1, <2>1, <3>1 DEF WriteShipment, TypeOK
    <3>3. req[r].op = "repair" => req[r].ship \in issued
      BY <1>1, <2>1 DEF WriteShipment, Ready, Repairs
    <3>4. QED
      BY <1>1, <1>3, <2>1, <3>2, <3>3 DEF ShippedWasIssued, WriteShipment
  <2>2. ASSUME NEW r \in Requests, Count(r) PROVE ShippedWasIssued'
    <3>1. req[r].ship \in IF req[r].named THEN issued ELSE unnamed
      BY <1>1, <2>2 DEF Count, Ready, AfterIssue
    <3>2. wmsId' \subseteq issued
      BY <1>1, <2>2, <3>1 DEF Count, IdsAfter, ShippedWasIssued
    <3>3. \A s \in Shipments : ship'[s] = "shipped" => s \in issued \cup unnamed
      BY <1>1, <2>2, <3>1 DEF Count, ShippedWasIssued, TypeOK
    <3>4. QED
      BY <1>3, <3>2, <3>3 DEF ShippedWasIssued
  <2>3. ASSUME ship' = ship, wmsId' = wmsId PROVE ShippedWasIssued'
    BY <1>1, <1>3, <2>3 DEF ShippedWasIssued
  <2>4. QED
    BY <1>0, <2>1, <2>2, <2>3
    DEF Next, Step, Begin, MoveOrder, MoveShipment, Fulfil, Cancel, ConfirmShipment, Starts, WriteOrder,
        Reserve, Release, EndFulfil, EndCancel, Issue, IssueUnnamed, Answered, Lock, ReadLines, Fail, vars
<1>5. RecordedWasGranted'
  <2>1. ASSUME NEW r \in Requests, EndFulfil(r) PROVE RecordedWasGranted'
    <3>1. Lines \subseteq granted
      BY <1>1, <2>1 DEF EndFulfil, Called, Calling, Ready, Reserves
    <3>2. QED
      BY <1>1, <2>1, <3>1 DEF EndFulfil, StoresReservations, RecordedWasGranted
  <2>2. ASSUME NEW r \in Requests, EndCancel(r) PROVE RecordedWasGranted'
    BY <1>1, <2>2 DEF EndCancel, StoresReservations, RecordedWasGranted
  <2>3. ASSUME recorded' = recorded PROVE RecordedWasGranted'
    BY <1>1, <1>3, <2>3 DEF RecordedWasGranted
  <2>4. QED
    BY <1>0, <2>1, <2>2, <2>3
    DEF Next, Step, Begin, MoveOrder, MoveShipment, Fulfil, Cancel, ConfirmShipment, Starts, WriteOrder,
        WriteShipment, Reserve, Release, Issue, IssueUnnamed, Answered, Lock, ReadLines, Count, Fail, vars
<1>6. GoodsBehindStatus'
  <2>1. ASSUME NEW r \in Requests, WriteOrder(r) PROVE GoodsBehindStatus'
    <3>1. \A op \in OrderMoves : OrderTo[op] \in {"partial_shipped", "shipped", "completed", "closed"} => op = "close"
      BY DEF OrderTo
    <3>2. status' \in {"partial_shipped", "shipped", "completed", "closed"} => SomethingShipped
      BY <1>1, <2>1, <3>1 DEF WriteOrder, Ready, Closes
    <3>3. QED
      BY <1>3, <3>2 DEF GoodsBehindStatus, SomethingShipped
  <2>2. ASSUME NEW r \in Requests, EndFulfil(r) \/ EndCancel(r) PROVE GoodsBehindStatus'
    BY <1>1, <2>2 DEF EndFulfil, EndCancel, GoodsBehindStatus
  <2>3. ASSUME NEW r \in Requests, Count(r) PROVE GoodsBehindStatus'
    BY <1>1, <2>3, CountShips DEF GoodsBehindStatus, SomethingShipped, NothingOf
  <2>4. ASSUME status' = status PROVE GoodsBehindStatus'
    BY <1>1, <1>3, <2>4 DEF GoodsBehindStatus, SomethingShipped
  <2>5. QED
    BY <1>0, <2>1, <2>2, <2>3, <2>4
    DEF Next, Step, Begin, MoveOrder, MoveShipment, Fulfil, Cancel, ConfirmShipment, Starts,
        WriteShipment, Reserve, Release, Issue, IssueUnnamed, Answered, Lock, ReadLines, Fail, vars
<1>7. QED
  BY <1>2, <1>4, <1>5, <1>6 DEF Inv

(* Every variable keeps its type.                                          *)
THEOREM SalesTypeCorrect == Spec => []TypeOK
  BY InitInv, InvStep, PTL DEF Spec, Inv

(* A shipment has a wms_shipping_id, and is recorded as shipped, only      *)
(* after the warehouse has issued it, however many requests overlap and    *)
(* wherever they fail; or the warehouse answered its shipping order        *)
(* without an identifier, and the code went on without confirming it.      *)
THEOREM ShippedOnlyIfIssued == Spec => []ShippedWasIssued
  BY InitInv, InvStep, PTL DEF Spec, Inv

(* Every reservation an order names was granted by the inventory service.  *)
THEOREM ReservationsAreGranted == Spec => []RecordedWasGranted
  BY InitInv, InvStep, PTL DEF Spec, Inv

(* An order in a shipping status has shipped something, or a shipment that *)
(* carries nothing of it was confirmed.                                    *)
THEOREM ShippingStatusHasGoods == Spec => []GoodsBehindStatus
  BY InitInv, InvStep, PTL DEF Spec, Inv

-------------------------------------------------------------------------------
(***************************************************************************)
(* The lines and the audit trail, while confirmations do not overlap       *)
(***************************************************************************)
\* Only a confirmation is at a confirmation's points, and what it has read is
\* what the lines say.
CountInv ==
  /\ \A r \in Requests : req[r].at \in {"issue", "lock", "read", "count"} => req[r].op = "confirm"
  /\ OneConfirmation
  /\ \A r \in Requests : req[r].at = "count" => req[r].seen = shipped
  /\ LinesMatchAudit

LEMMA CountedType ==
  ASSUME TypeOK, NEW l \in Lines
  PROVE  /\ \A s \in Shipments : CountedFor(l)[s] \in Int
         /\ Audited(l) = SumFunctionOnSet(CountedFor(l), Shipments)
         /\ Audited(l) \in Int
<1> DEFINE f == CountedFor(l)
<1>1. ASSUME NEW s \in Shipments PROVE f[s] \in Int
  <2>1. CASE l \in DOMAIN ShipQty[s]
    <3>1. audit[s] \in Nat /\ ShipQty[s][l] \in Nat
      BY <2>1 DEF TypeOK
    <3>2. audit[s] * ShipQty[s][l] \in Int
      BY <3>1
    <3> QED
      BY <2>1, <3>2 DEF CountedFor
  <2>2. CASE l \notin DOMAIN ShipQty[s]
    BY <2>2 DEF CountedFor
  <2> QED
    BY <2>1, <2>2
<1>2. Audited(l) = SumFunctionOnSet(f, Shipments)
  <2>1. DOMAIN f = Shipments
    BY DEF CountedFor
  <2> QED
    BY <2>1 DEF Audited, SumFunction
<1> HIDE DEF f
<1>3. SumFunctionOnSet(f, Shipments) \in Int
  BY <1>1, SumType
<1> QED
  BY <1>1, <1>2, <1>3 DEF f

LEMMA CountedTypeAfter ==
  ASSUME TypeOK', NEW l \in Lines
  PROVE  /\ \A s \in Shipments : CountedFor(l)'[s] \in Int
         /\ Audited(l)' = SumFunctionOnSet(CountedFor(l)', Shipments)
<1> DEFINE f == CountedFor(l)'
<1>1. ASSUME NEW s \in Shipments PROVE f[s] \in Int
  <2>1. CASE l \in DOMAIN ShipQty[s]
    <3>1. audit'[s] \in Nat /\ ShipQty[s][l] \in Nat
      BY <2>1 DEF TypeOK
    <3>2. audit'[s] * ShipQty[s][l] \in Int
      BY <3>1
    <3> QED
      BY <2>1, <3>2 DEF CountedFor
  <2>2. CASE l \notin DOMAIN ShipQty[s]
    BY <2>2 DEF CountedFor
  <2> QED
    BY <2>1, <2>2
<1> QED
  BY <1>1 DEF Audited, SumFunction, CountedFor

LEMMA CountInit == Init => CountInv
<1> SUFFICES ASSUME Init PROVE CountInv
  OBVIOUS
<1>1. ASSUME NEW l \in Lines PROVE shipped[l] = Audited(l)
  <2> DEFINE f == CountedFor(l)
  <2>1. \A s \in Shipments : f[s] = 0
    BY DEF Init, CountedFor
  <2>2. Audited(l) = SumFunctionOnSet(f, Shipments)
    BY InitInv, CountedType DEF Inv
  <2> HIDE DEF f
  <2>3. SumFunctionOnSet(f, Shipments) = 0
    BY <2>1, SumZero
  <2> QED
    BY <2>2, <2>3 DEF Init
<1> QED
  BY <1>1 DEF Init, CountInv, OneConfirmation, Confirming, LinesMatchAudit, Idle, Request

\* A confirmation adds to the lines what its audit record accounts for.
LEMMA CountMatches ==
  ASSUME TypeOK, TypeOK', Ready, CountInv, NEW r \in Requests, Count(r)
  PROVE  LinesMatchAudit'
<1> DEFINE s == req[r].ship
<1>1. /\ s \in Shipments /\ req[r].seen = shipped
      /\ audit' = [audit EXCEPT ![s] = @ + 1] /\ shipped' = Counted(r)
  BY DEF Count, Ready, Confirms, CountInv
<1>2. \A z \in Shipments : audit'[z] = IF z = s THEN audit[s] + 1 ELSE audit[z]
  BY <1>1 DEF TypeOK
<1> HIDE DEF s
<1>3. ASSUME NEW l \in Lines PROVE shipped'[l] = Audited(l)'
  <2> DEFINE f == CountedFor(l)
             g == CountedFor(l)'
             more == IF l \in DOMAIN ShipQty[s] THEN ShipQty[s][l] ELSE 0
  <2>1. /\ \A z \in Shipments : f[z] \in Int /\ g[z] \in Int
        /\ Audited(l) = SumFunctionOnSet(f, Shipments) /\ Audited(l) \in Int
        /\ Audited(l)' = SumFunctionOnSet(g, Shipments)
    <3>1. /\ \A z \in Shipments : CountedFor(l)[z] \in Int
          /\ Audited(l) = SumFunctionOnSet(CountedFor(l), Shipments) /\ Audited(l) \in Int
      BY CountedType
    <3>2. /\ \A z \in Shipments : CountedFor(l)'[z] \in Int
          /\ Audited(l)' = SumFunctionOnSet(CountedFor(l)', Shipments)
      BY CountedTypeAfter
    <3> QED
      BY <3>1, <3>2
  <2>2. more \in Int
    BY <1>1
  <2>3. g[s] = f[s] + more
    <3>1. CASE l \in DOMAIN ShipQty[s]
      <4>1. audit[s] \in Nat /\ ShipQty[s][l] \in Nat
        BY <1>1, <3>1 DEF TypeOK
      <4>2. (audit[s] + 1) * ShipQty[s][l] = audit[s] * ShipQty[s][l] + ShipQty[s][l]
        BY <4>1
      <4> QED
        BY <1>1, <1>2, <3>1, <4>2 DEF CountedFor
    <3>2. CASE l \notin DOMAIN ShipQty[s]
      BY <1>1, <3>2 DEF CountedFor
    <3> QED
      BY <3>1, <3>2
  <2>4. \A z \in Shipments \ {s} : g[z] = f[z]
    BY <1>2 DEF CountedFor
  <2>5. shipped'[l] = shipped[l] + more
    BY <1>1 DEF Counted, NewShipped, TypeOK, s
  <2>6. shipped[l] = Audited(l)
    BY DEF CountInv, LinesMatchAudit
  <2> HIDE DEF f, g, more
  <2>7. SumFunctionOnSet(g, Shipments) = SumFunctionOnSet(f, Shipments) - f[s] + g[s]
    BY <1>1, <2>1, <2>4, SumChanges
  <2>8. f[s] \in Int
    BY <1>1, <2>1
  <2> QED
    BY <2>1, <2>2, <2>3, <2>5, <2>6, <2>7, <2>8
<1> QED
  BY <1>3 DEF LinesMatchAudit

LEMMA CountStep ==
  ASSUME Inv, Inv', CountInv, [Next /\ OneConfirmation']_vars
  PROVE  CountInv'
<1> USE DEF sales, order, external
<1>1. TypeOK /\ TypeOK' /\ Ready /\ req \in [Requests -> RequestType]
  BY DEF Inv, TypeOK, RequestType
<1>2. OneConfirmation'
  BY DEF CountInv, OneConfirmation, Confirming, vars
\* A step that leaves lines and audit records alone.
<1>3. ASSUME UNCHANGED <<shipped, audit>>,
             \A q \in Requests :
               \/ req'[q] = req[q]
               \/ req'[q].at \notin {"issue", "lock", "read", "count"}
               \/ req'[q].op = "confirm" /\ (req'[q].at = "count" => req'[q].seen = shipped)
      PROVE  CountInv'
  <2>1. LinesMatchAudit'
    BY <1>3 DEF CountInv, LinesMatchAudit, Audited, CountedFor
  <2> QED
    BY <1>2, <1>3, <2>1 DEF CountInv
<1>4. ASSUME NEW r \in Requests, NEW new, req' = [req EXCEPT ![r] = new],
             UNCHANGED <<shipped, audit>>,
             \/ new.at \notin {"issue", "lock", "read", "count"}
             \/ new.op = "confirm" /\ (new.at = "count" => new.seen = shipped)
      PROVE  CountInv'
  BY <1>1, <1>3, <1>4
<1>5. Idle.at = "idle"
  BY DEF Idle, Request
<1>6. ASSUME NEW r \in Requests, Begin(r) PROVE CountInv'
  <2> DEFINE new == req'[r]
  <2>1. /\ UNCHANGED <<shipped, audit>> /\ \A q \in Requests \ {r} : req'[q] = req[q]
        /\ new.at \in {"write", "calls", "issue"}
        /\ new.at = "issue" => new.op = "confirm"
    BY <1>1, <1>6 DEF Begin, MoveOrder, MoveShipment, Fulfil, Cancel, ConfirmShipment, Starts, Request
  <2> QED
    BY <1>3, <2>1
<1>7. ASSUME NEW r \in Requests,
             WriteOrder(r) \/ WriteShipment(r) \/ EndFulfil(r) \/ EndCancel(r) \/ Fail(r)
      PROVE  CountInv'
  <2>1. req' = [req EXCEPT ![r] = Idle] /\ UNCHANGED <<shipped, audit>>
    BY <1>7 DEF WriteOrder, WriteShipment, EndFulfil, EndCancel, Fail, Ended
  <2> QED
    BY <1>4, <1>5, <2>1
<1>8. ASSUME NEW r \in Requests, NEW l \in Lines, Reserve(r, l) \/ Release(r, l) PROVE CountInv'
  <2>1. PICK new : req' = [req EXCEPT ![r] = new] /\ new.at = "calls"
    <3>1. req' = [req EXCEPT ![r] = [req[r] EXCEPT !.todo = req[r].todo \ {l}]]
      BY <1>8 DEF Reserve, Release, Tick
    <3>2. [req[r] EXCEPT !.todo = req[r].todo \ {l}].at = "calls"
      BY <1>1, <1>8 DEF Reserve, Release, Calling, RequestType
    <3> QED
      BY <3>1, <3>2
  <2>2. UNCHANGED <<shipped, audit>>
    BY <1>8 DEF Reserve, Release
  <2> QED
    BY <1>4, <2>1, <2>2
<1>9. ASSUME NEW r \in Requests, Issue(r) \/ IssueUnnamed(r) \/ Lock(r) \/ ReadLines(r)
      PROVE  CountInv'
  <2>1. UNCHANGED <<shipped, audit>> /\ req[r].op = "confirm"
    BY <1>9 DEF Issue, IssueUnnamed, Lock, ReadLines, CountInv
  <2>2. /\ \A q \in Requests \ {r} : req'[q] = req[q]
        /\ req'[r].op = req[r].op /\ (req'[r].at = "count" => req'[r].seen = shipped)
    BY <1>1, <1>9 DEF Issue, IssueUnnamed, Answered, Lock, ReadLines, Goto, RequestType
  <2> QED
    BY <1>3, <2>1, <2>2
<1>10. ASSUME NEW r \in Requests, Count(r) PROVE CountInv'
  <2>1. req'[r] = Idle /\ \A q \in Requests \ {r} : req'[q] = req[q]
    BY <1>1, <1>10 DEF Count, Ended
  <2>2. Confirming(r)
    BY <1>10 DEF Count, Confirming, CountInv
  <2>3. ASSUME NEW q \in Requests PROVE req'[q].at # "count"
    <3>1. CASE q = r
      BY <1>5, <2>1, <3>1
    <3>2. CASE q # r
      <4>1. ~ Confirming(q)
        BY <2>2, <3>2 DEF CountInv, OneConfirmation
      <4> QED
        BY <2>1, <3>2, <4>1 DEF CountInv, Confirming
    <3> QED
      BY <3>1, <3>2
  <2>4. LinesMatchAudit'
    BY <1>1, <1>10, CountMatches
  <2>5. \A q \in Requests :
          req'[q].at \in {"issue", "lock", "read", "count"} => req'[q].op = "confirm"
    BY <1>5, <2>1 DEF CountInv
  <2> QED
    BY <1>2, <2>3, <2>4, <2>5 DEF CountInv
<1>11. CASE UNCHANGED vars
  BY <1>3, <1>11 DEF vars
<1> QED
  BY <1>6, <1>7, <1>8, <1>9, <1>10, <1>11 DEF Next, Step

\* The lines' shipped quantities are what the audit trail accounts for, for
\* any number of lines and shipments of any quantities, as long as
\* confirmations do not overlap: a shipment that an overlapping request
\* cancels, picks or repairs is neither lost nor counted twice
\* (lines 725-737 and 743-763).
THEOREM LinesAreAudited == CarefulSpec => []LinesMatchAudit
<1>1. Init => Inv /\ CountInv
  BY InitInv, CountInit
<1>2. Inv /\ CountInv /\ [Next /\ OneConfirmation']_vars => Inv' /\ CountInv'
  BY InvStep, CountStep
<1>3. Inv /\ CountInv => LinesMatchAudit
  BY DEF CountInv
<1> QED
  BY <1>1, <1>2, <1>3, PTL DEF CarefulSpec
-------------------------------------------------------------------------------
(***************************************************************************)
(* What the missing check against the ordered quantities leaves to clients *)
(***************************************************************************)
\* What all shipments a client makes of the order carry of a line.
PlannedFor(l) == [s \in Shipments |-> IF l \in DOMAIN ShipQty[s] THEN ShipQty[s][l] ELSE 0]

Planned(l) == SumFunction(PlannedFor(l))

\* A shipment is counted once and stays shipped; whoever works on a shipment
\* finds it as it was when the request began.
OnceInv ==
  /\ \A s \in Shipments : /\ audit[s] \in {0, 1}
                          /\ audit[s] = 1 \/ s \in wmsId => ship[s] = "shipped"
  /\ \A r \in Requests : req[r].at # "idle" =>
       /\ req[r].op = "confirm" => ship[req[r].ship] \in {"picking", "packed"}
       /\ req[r].op \in ShipMoves => /\ req[r].ship \in Shipments \ wmsId
                                     /\ ship[req[r].ship] \in ShipFrom[req[r].op]

LEMMA OnceInit == Init => OnceInv
BY DEF Init, OnceInv, Idle, Request

LEMMA OnceStep ==
  ASSUME \A q, r \in Requests : q = r, Inv, CountInv, OnceInv, [Next]_vars
  PROVE  OnceInv'
<1> USE DEF sales, order, external
<1>1. TypeOK /\ req \in [Requests -> RequestType]
  BY DEF Inv, TypeOK, RequestType
<1>2. Idle.at = "idle"
  BY DEF Idle, Request
\* A step that leaves the shipments alone.
<1>3. ASSUME UNCHANGED <<ship, wmsId, audit>>,
             \A r \in Requests : \/ req'[r] = req[r]
                                 \/ req'[r].at = "idle"
                                 \/ req'[r].op \notin ShipMoves \cup {"confirm"}
                                 \/ /\ req[r].at # "idle"
                                    /\ req'[r].op = req[r].op /\ req'[r].ship = req[r].ship
      PROVE  OnceInv'
  BY <1>3 DEF OnceInv
<1>4. ASSUME NEW r \in Requests, Begin(r) PROVE OnceInv'
  <2>1. UNCHANGED <<ship, wmsId, audit>> /\ \A q \in Requests : q = r
    BY <1>4 DEF Begin, MoveOrder, MoveShipment, Fulfil, Cancel, ConfirmShipment, Starts
  <2>2. ASSUME NEW op \in ShipMoves, NEW s \in Shipments, MoveShipment(r, op, s) PROVE OnceInv'
    <3>1. req'[r].op = op /\ req'[r].ship = s
      BY <1>1, <2>2 DEF MoveShipment, Starts, Request
    <3>2. ship[s] \in ShipFrom[op]
      BY <2>2 DEF MoveShipment
    <3>3. s \notin wmsId
      BY <3>2 DEF OnceInv, ShipFrom
    <3> QED
      BY <2>1, <3>1, <3>2, <3>3 DEF OnceInv
  <2>3. ASSUME NEW s \in Shipments, ConfirmShipment(r, s) PROVE OnceInv'
    <3>1. req'[r].op = "confirm" /\ req'[r].ship = s /\ ship[s] \in {"picking", "packed"}
      BY <1>1, <2>3 DEF ConfirmShipment, MayConfirm, Starts, Request
    <3> QED
      BY <2>1, <3>1 DEF OnceInv
  <2>4. CASE (\E op \in OrderMoves : MoveOrder(r, op)) \/ Fulfil(r) \/ Cancel(r)
    <3>1. req'[r].op \notin ShipMoves \cup {"confirm"}
      BY <1>1, <2>4 DEF MoveOrder, Fulfil, Cancel, Starts, Request
    <3> QED
      BY <1>3, <2>1, <3>1
  <2> QED
    BY <1>4, <2>2, <2>3, <2>4 DEF Begin
<1>5. ASSUME NEW r \in Requests, WriteOrder(r) \/ EndFulfil(r) \/ EndCancel(r) \/ Fail(r) PROVE OnceInv'
  <2>1. req' = [req EXCEPT ![r] = Idle] /\ UNCHANGED <<ship, wmsId, audit>>
    BY <1>5 DEF WriteOrder, EndFulfil, EndCancel, Fail, Ended
  <2> QED
    BY <1>1, <1>2, <1>3, <2>1
<1>6. ASSUME NEW r \in Requests, NEW l \in Lines, Reserve(r, l) \/ Release(r, l) PROVE OnceInv'
  <2>1. req' = [req EXCEPT ![r] = [req[r] EXCEPT !.todo = req[r].todo \ {l}]]
    BY <1>6 DEF Reserve, Release, Tick
  <2>2. UNCHANGED <<ship, wmsId, audit>> /\ req[r].at # "idle"
    BY <1>6 DEF Reserve, Release, Calling
  <2>3. req'[r].op = req[r].op /\ req'[r].ship = req[r].ship
    BY <1>1, <2>1 DEF RequestType
  <2>4. \A q \in Requests \ {r} : req'[q] = req[q]
    BY <1>1, <2>1
  <2> QED
    BY <1>3, <2>2, <2>3, <2>4
<1>7. ASSUME NEW r \in Requests, Issue(r) \/ IssueUnnamed(r) \/ Lock(r) \/ ReadLines(r)
      PROVE  OnceInv'
  <2>1. /\ UNCHANGED <<ship, wmsId, audit>> /\ req[r].at # "idle"
        /\ \A q \in Requests \ {r} : req'[q] = req[q]
        /\ req'[r].op = req[r].op /\ req'[r].ship = req[r].ship
    BY <1>1, <1>7 DEF Issue, IssueUnnamed, Answered, Lock, ReadLines, Goto, RequestType
  <2> QED
    BY <1>3, <2>1
\* A shipment that is written has not been counted.
<1>8. ASSUME NEW r \in Requests, WriteShipment(r) PROVE OnceInv'
  <2> DEFINE s == req[r].ship
  <2>1. /\ req[r].at = "write" /\ req[r].op \in ShipMoves
        /\ s \in Shipments \ wmsId /\ ship[s] \in ShipFrom[req[r].op]
    BY <1>8 DEF WriteShipment, OnceInv
  <2>2. ship[s] # "shipped" /\ audit[s] # 1
    BY <2>1 DEF OnceInv, ShipFrom
  <2>3. /\ \A z \in Shipments \ {s} : ship'[z] = ship[z]
        /\ UNCHANGED <<wmsId, audit>>
        /\ req'[r] = Idle /\ \A q \in Requests : q = r
    BY <1>1, <1>8 DEF WriteShipment, Ended, TypeOK
  <2> QED
    BY <1>2, <2>1, <2>2, <2>3 DEF OnceInv
<1>9. ASSUME NEW r \in Requests, Count(r) PROVE OnceInv'
  <2> DEFINE s == req[r].ship
  <2>1. s \in Shipments /\ req[r].op = "confirm" /\ req[r].at = "count"
    BY <1>9 DEF Count, Inv, Ready, Confirms, CountInv
  <2>2. audit[s] = 0
    BY <2>1 DEF OnceInv
  <2>3. /\ ship' = [ship EXCEPT ![s] = "shipped"] /\ wmsId' \subseteq wmsId \cup {s}
        /\ audit' = [audit EXCEPT ![s] = audit[s] + 1]
        /\ req'[r] = Idle /\ \A q \in Requests : q = r
    BY <1>1, <1>9 DEF Count, IdsAfter, Ended
  <2>4. /\ ship'[s] = "shipped" /\ audit'[s] = 1
        /\ \A z \in Shipments \ {s} : ship'[z] = ship[z] /\ audit'[z] = audit[z]
    BY <1>1, <2>1, <2>2, <2>3 DEF TypeOK
  <2> QED
    BY <1>2, <2>3, <2>4 DEF OnceInv
<1>10. CASE UNCHANGED vars
  BY <1>3, <1>10 DEF vars
<1> QED
  BY <1>4, <1>5, <1>6, <1>7, <1>8, <1>9, <1>10 DEF Next, Step

\* Lines never get more than the shipments are made for.
LEMMA ShippedAsPlanned ==
  ASSUME Inv, CountInv, OnceInv, NEW l \in Lines
  PROVE  shipped[l] <= Planned(l)
<1> DEFINE f == CountedFor(l)
           g == PlannedFor(l)
<1>1. TypeOK /\ shipped[l] = Audited(l)
  BY DEF Inv, CountInv, LinesMatchAudit
<1>2. (\A s \in Shipments : f[s] \in Int) /\ Audited(l) = SumFunctionOnSet(f, Shipments)
  BY <1>1, CountedType
<1>3. ASSUME NEW s \in Shipments PROVE g[s] \in Int /\ f[s] <= g[s]
  <2>1. CASE l \in DOMAIN ShipQty[s]
    <3>1. ShipQty[s][l] \in Nat /\ audit[s] \in {0, 1}
      BY <2>1 DEF OnceInv
    <3>2. 0 * ShipQty[s][l] = 0 /\ 1 * ShipQty[s][l] = ShipQty[s][l]
      BY <3>1
    <3>3. audit[s] * ShipQty[s][l] <= ShipQty[s][l]
      BY <3>1, <3>2
    <3> QED
      BY <2>1, <3>1, <3>3 DEF CountedFor, PlannedFor
  <2>2. CASE l \notin DOMAIN ShipQty[s]
    BY <2>2 DEF CountedFor, PlannedFor
  <2> QED
    BY <2>1, <2>2
<1>4. Planned(l) = SumFunctionOnSet(g, Shipments)
  BY DEF Planned, PlannedFor, SumFunction
<1> HIDE DEF f, g
<1>5. SumFunctionOnSet(f, Shipments) <= SumFunctionOnSet(g, Shipments)
  BY <1>2, <1>3, SumMonotone
<1> QED
  BY <1>1, <1>2, <1>4, <1>5

\* Nothing is shipped beyond what was ordered (partial_fulfillment_service.py
\* line 18), although no handler compares the two: if requests come one at a
\* time, and the client makes no shipments that together carry more of a line
\* than was ordered.  Neither hypothesis can be spared: two shipments planned
\* too large both leave, and a packing that began before a confirmation puts
\* the shipment back to packed, so that it can be confirmed again.
THEOREM PlannedShipmentsFit ==
  ASSUME \A q, r \in Requests : q = r,
         \A l \in Lines : Planned(l) <= Ordered[l]
  PROVE  Spec => []NothingOverShipped
<1>1. Init => Inv /\ CountInv /\ OnceInv
  BY InitInv, CountInit, OnceInit
<1>2. OneConfirmation'
  BY DEF OneConfirmation
<1>3. Inv /\ CountInv /\ OnceInv /\ [Next]_vars => Inv' /\ CountInv' /\ OnceInv'
  BY <1>2, InvStep, CountStep, OnceStep
<1>4. ASSUME Inv, CountInv, OnceInv PROVE NothingOverShipped
  <2> SUFFICES ASSUME NEW l \in Lines PROVE shipped[l] <= Ordered[l]
    BY DEF NothingOverShipped
  <2>1. shipped[l] <= Planned(l) /\ Planned(l) <= Ordered[l]
    BY <1>4, ShippedAsPlanned
  <2>2. shipped[l] \in Int /\ Ordered[l] \in Int
    BY <1>4 DEF Inv, TypeOK
  <2>3. Planned(l) \in Int
    <3> DEFINE g == PlannedFor(l)
    <3>1. Planned(l) = SumFunctionOnSet(g, Shipments) /\ \A s \in Shipments : g[s] \in Int
      BY DEF Planned, PlannedFor, SumFunction
    <3> HIDE DEF g
    <3> QED
      BY <3>1, SumType
  <2> QED
    BY <2>1, <2>2, <2>3
<1> QED
  BY <1>1, <1>3, <1>4, PTL DEF Spec
=============================================================================
