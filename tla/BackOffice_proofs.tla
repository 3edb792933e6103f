------------------------- MODULE BackOffice_proofs -------------------------
(***************************************************************************)
(* What holds of any accounts, transfers, vouchers, payments, receipts,    *)
(* documents and switches and any number of overlapping requests: no       *)
(* account has more frozen than it holds, no voucher is paid beyond its    *)
(* amount, an account says what its transfers moved and a voucher what its *)
(* payments and receipts settled unless requests overlapped on it, no      *)
(* document is past an approval that is not on record or names another     *)
(* successor than its own, and no answer about a feature contradicts its   *)
(* switches for longer than the cache keeps it after the last update or    *)
(* the last check it disturbed.  Overlapping requests lose each other's    *)
(* writes; what they write has passed the check against what they read,    *)
(* and that carries the results.                                           *)
(***************************************************************************)
EXTENDS FinVouchers, FinTreasury, Approvals, FeatureSwitches, Sums, TLAPS

-----------------------------------------------------------------------------
(***************************************************************************)
(* Vouchers                                                                *)
(***************************************************************************)
FinRows == [status : FinStatuses, lines : Seq(PayLines)]

FinPoints == {"idle", "save", "line", "apply"}

\* The vouchers a transaction has written are not overpaid.
WroteOK(wrote) ==
  /\ DOMAIN wrote \subseteq Vouchers
  /\ \A v \in DOMAIN wrote : wrote[v] \in Nat /\ wrote[v] <= Due[v]

\* Between the check of a line and the write, the line exists and fits what
\* was read.
Checked(q) ==
  q.at = "apply" =>
    /\ q.next <= Len(q.row.lines)
    /\ q.seen + q.row.lines[q.next].amount <= Due[q.row.lines[q.next].voucher]

FinRequestOK(q) ==
  /\ q = [op |-> q.op, doc |-> q.doc, at |-> q.at, row |-> q.row, seen |-> q.seen,
          next |-> q.next, wrote |-> q.wrote]
  /\ q.op \in FinOps /\ q.doc \in FinDocs \cup {NoDoc} /\ q.at \in FinPoints
  /\ q.row \in FinRows /\ q.seen \in Nat /\ q.next \in Nat \ {0}
  /\ q.at # "idle" => q.doc \in FinDocs
  /\ q.op = "settle" => q.doc \in Settlements
  /\ WroteOK(q.wrote) /\ Checked(q)

\* What is stored, without the requests.
FinStoreOK ==
  /\ fdoc \in [FinDocs -> FinRows]
  /\ issued \subseteq Vouchers /\ disputed \subseteq Vouchers
  /\ paid \in [Vouchers -> Nat] /\ NeverOverpaid

FinRequestsOK ==
  /\ freq = [r \in FinRequests |-> freq[r]]
  /\ \A r \in FinRequests : FinRequestOK(freq[r])

FinVouchersInv == FinStoreOK /\ FinRequestsOK

LEMMA FinTables ==
  \A op \in DOMAIN FinFrom : op \in FinOps /\ FinTo[op] \in FinStatuses
  BY DEF FinFrom, FinTo, FinOps, FinStatuses

LEMMA MovesAreOps == ASSUME NEW d \in FinDocs PROVE Moves(d) \subseteq DOMAIN FinFrom
  BY DEF Moves, FinFrom

LEMMA FinRowType ==
  ASSUME NEW status \in FinStatuses, NEW lines \in Seq(PayLines)
  PROVE  FinRow(status, lines) \in FinRows
  BY DEF FinRow, FinRows

LEMMA NoLines == <<>> \in Seq(PayLines)
  OBVIOUS

LEMMA FinRequestNew ==
  ASSUME NEW op \in FinOps, NEW d \in FinDocs, NEW row \in FinRows,
         op = "settle" => d \in Settlements
  PROVE  FinRequestOK(FinRequest(op, d, "save", row))
  BY DEF FinRequest, FinRequestOK, FinPoints, WroteOK, Checked

LEMMA FinIdleOK == FinRequestOK(FinIdle)
<1>1. FinRow("absent", <<>>) \in FinRows
  BY FinRowType, NoLines DEF FinStatuses
<1>2. QED
  BY <1>1 DEF FinIdle, FinRequest, FinRequestOK, FinPoints, WroteOK, Checked, FinOps

LEMMA FinVouchersInitInv == FinVouchersInit => FinVouchersInv
<1>0. SUFFICES ASSUME FinVouchersInit PROVE FinVouchersInv
  OBVIOUS
<1>1. FinRequestsOK
  BY <1>0, FinIdleOK DEF FinVouchersInit, FinRequestsOK
<1>2. \A status \in {"PENDING_CONFIRM", "absent"} : FinRow(status, <<>>) \in FinRows
  BY FinRowType, NoLines DEF FinStatuses
<1>3. fdoc \in [FinDocs -> FinRows]
  BY <1>0, <1>2 DEF FinVouchersInit
<1>4. paid \in [Vouchers -> Nat] /\ NeverOverpaid
  BY <1>0, FinVouchersAssumption DEF FinVouchersInit, NeverOverpaid
<1>5. QED
  BY <1>0, <1>1, <1>3, <1>4 DEF FinVouchersInit, FinVouchersInv, FinStoreOK

(* One request changes, and what it becomes is in order.                   *)
LEMMA FinRequestReplaced ==
  ASSUME FinRequestsOK, NEW r \in FinRequests, NEW new, FinRequestOK(new),
         freq' = [freq EXCEPT ![r] = new]
  PROVE  FinRequestsOK'
<1>1. ASSUME NEW q \in FinRequests PROVE freq'[q] = IF q = r THEN new ELSE freq[q]
  BY DEF FinRequestsOK
<1>2. freq' = [q \in FinRequests |-> freq'[q]]
  BY DEF FinRequestsOK
<1>3. ASSUME NEW q \in FinRequests PROVE FinRequestOK(freq'[q])
  <2>1. FinRequestOK(freq[q])
    BY DEF FinRequestsOK
  <2>2. CASE q = r
    BY <1>1, <2>2
  <2>3. CASE q # r
    BY <1>1, <2>1, <2>3
  <2>4. QED
    BY <2>2, <2>3
<1>4. \A q \in FinRequests : FinRequestOK(freq'[q])
  BY <1>3
<1>5. QED
  BY <1>2, <1>4 DEF FinRequestsOK, FinRequestOK, WroteOK, Checked

LEMMA FinEndsOK ==
  ASSUME FinRequestsOK, NEW r \in FinRequests, FinEnds(r) PROVE FinRequestsOK'
  BY FinIdleOK, FinRequestReplaced DEF FinEnds

LEMMA ReachVouchers == ASSUME NEW d \in FinDocs PROVE Reach(d) \subseteq Vouchers
<1>1. CASE d \in Settlements
  BY <1>1, FinVouchersAssumption DEF Reach
<1>2. CASE d \notin Settlements /\ d \in Payments
  BY <1>2, FinVouchersAssumption DEF Reach, PayLines
<1>3. CASE d \notin Settlements /\ d \notin Payments
  <2>1. d \in Receipts
    BY <1>3 DEF FinDocs, SettleDocs
  <2>2. ASSUME NEW lines \in WriteOffs[d] PROVE Named(lines) \subseteq Vouchers
    <3>1. lines \in Seq(PayLines)
      BY <2>1, FinVouchersAssumption
    <3>2. \A k \in DOMAIN lines : lines[k] \in PayLines
      BY <3>1
    <3>3. QED
      BY <3>2 DEF Named, PayLines
  <2>3. QED
    BY <1>3, <2>2 DEF Reach
<1>4. QED
  BY <1>1, <1>2, <1>3

(* A request that reads leaves the store alone.                            *)
LEMMA FinReadKeepsInv ==
  ASSUME FinVouchersInv, NEW r \in FinRequests, NEW op \in FinOps, NEW d \in FinDocs,
         op = "settle" => d \in Settlements, NEW row \in FinRows, FinRead(r, op, d, row)
  PROVE  FinVouchersInv'
<1>1. FinRequestsOK'
  BY FinRequestNew, FinRequestReplaced DEF FinRead, FinVouchersInv
<1>2. Overlaps(d) \subseteq Vouchers
  BY ReachVouchers DEF Overlaps
<1>3. FinStoreOK'
  BY <1>2 DEF FinRead, FinVouchersInv, FinStoreOK, NeverOverpaid
<1>4. QED
  BY <1>1, <1>3 DEF FinVouchersInv

(* A step inside a request changes at most the disputed vouchers.          *)
LEMMA FinInsideKeepsInv ==
  ASSUME FinVouchersInv, NEW r \in FinRequests, NEW new, FinRequestOK(new),
         freq' = [freq EXCEPT ![r] = new],
         UNCHANGED <<fdoc, issued, paid>>, disputed' \subseteq Vouchers
  PROVE  FinVouchersInv'
<1>1. FinRequestsOK'
  BY FinRequestReplaced DEF FinVouchersInv
<1>2. FinStoreOK'
  BY DEF FinVouchersInv, FinStoreOK, NeverOverpaid
<1>3. QED
  BY <1>1, <1>2 DEF FinVouchersInv

LEMMA SeesOK ==
  ASSUME FinVouchersInv, NEW r \in FinRequests, NEW v \in Vouchers
  PROVE  Sees(r, v) \in Nat /\ Sees(r, v) <= Due[v]
<1>1. WroteOK(freq[r].wrote) /\ paid[v] \in Nat /\ paid[v] <= Due[v]
  BY DEF FinVouchersInv, FinRequestsOK, FinRequestOK, FinStoreOK, NeverOverpaid
<1>2. QED
  BY <1>1 DEF Sees, WroteOK

LEMMA LineType ==
  ASSUME FinVouchersInv, NEW r \in FinRequests, freq[r].next <= Len(freq[r].row.lines)
  PROVE  /\ Line(r) \in PayLines /\ Line(r).voucher \in Vouchers /\ Line(r).amount \in Nat
         /\ Due[Line(r).voucher] \in Nat
<1>1. freq[r].row.lines \in Seq(PayLines) /\ freq[r].next \in Nat \ {0}
  BY DEF FinVouchersInv, FinRequestsOK, FinRequestOK, FinRows
<1>2. freq[r].next \in 1 .. Len(freq[r].row.lines)
  BY <1>1
<1>3. Line(r) \in PayLines
  BY <1>1, <1>2 DEF Line
<1>4. QED
  BY <1>3, FinVouchersAssumption DEF PayLines

LEMMA FinReadsInv ==
  ASSUME FinVouchersInv, NEW r \in FinRequests,
         \/ \E d \in Settlements : ReadSettle(r, d)
         \/ \E d \in FinDocs, op \in FinOps : ReadMove(r, op, d)
         \/ \E d \in Payments : ReadPaymentRequest(r, d) \/ ReadCallback(r, d)
         \/ \E d \in Receipts : \E lines \in WriteOffs[d] : ReadWriteOff(r, d, lines)
  PROVE  FinVouchersInv'
<1>0. /\ Settlements \subseteq FinDocs /\ Payments \subseteq FinDocs /\ Receipts \subseteq FinDocs
      /\ {"settle", "request", "paid", "writeOff"} \subseteq FinOps
      /\ {"CONFIRMED", "PENDING_APPROVAL", "SUCCESS", "WRITE_OFF"} \subseteq FinStatuses
  BY DEF FinDocs, SettleDocs, FinOps, FinFrom, FinStatuses
<1>1. ASSUME NEW d \in Settlements, ReadSettle(r, d) PROVE FinVouchersInv'
  <2>1. FinRow("CONFIRMED", <<>>) \in FinRows
    BY <1>0, FinRowType, NoLines
  <2>2. QED
    BY <1>0, <1>1, <2>1, FinReadKeepsInv DEF ReadSettle
<1>2. ASSUME NEW d \in FinDocs, NEW op \in FinOps, ReadMove(r, op, d) PROVE FinVouchersInv'
  <2>1. FinTo[op] \in FinStatuses
    BY <1>2, MovesAreOps, FinTables DEF ReadMove
  <2>2. fdoc[d].lines \in Seq(PayLines)
    BY DEF FinVouchersInv, FinStoreOK, FinRows
  <2>3. FinRow(FinTo[op], fdoc[d].lines) \in FinRows
    BY <2>1, <2>2, FinRowType
  <2>4. op # "settle"
    BY <1>2 DEF ReadMove, Moves
  <2>5. QED
    BY <1>2, <2>3, <2>4, FinReadKeepsInv DEF ReadMove
<1>3. ASSUME NEW d \in Payments, ReadPaymentRequest(r, d) PROVE FinVouchersInv'
  <2>1. FinRow("PENDING_APPROVAL", <<>>) \in FinRows
    BY <1>0, FinRowType, NoLines
  <2>2. FinRead(r, "request", d, FinRow("PENDING_APPROVAL", <<>>))
    BY <1>3 DEF ReadPaymentRequest
  <2>3. QED
    BY <1>0, <2>1, <2>2, FinReadKeepsInv
<1>4. ASSUME NEW d \in Payments, ReadCallback(r, d) PROVE FinVouchersInv'
  <2>1. <<PayLine[d]>> \in Seq(PayLines)
    BY FinVouchersAssumption
  <2>2. FinRow("SUCCESS", <<PayLine[d]>>) \in FinRows
    BY <1>0, <2>1, FinRowType
  <2>3. QED
    BY <1>0, <1>4, <2>2, FinReadKeepsInv DEF ReadCallback
<1>5. ASSUME NEW d \in Receipts, NEW lines \in WriteOffs[d], ReadWriteOff(r, d, lines)
      PROVE  FinVouchersInv'
  <2>1. lines \in Seq(PayLines)
    BY FinVouchersAssumption
  <2>2. FinRow("WRITE_OFF", lines) \in FinRows
    BY <1>0, <2>1, FinRowType
  <2>3. QED
    BY <1>0, <1>5, <2>2, FinReadKeepsInv DEF ReadWriteOff
<1>6. QED
  BY <1>1, <1>2, <1>3, <1>4, <1>5

LEMMA FinSavesInv ==
  ASSUME FinVouchersInv, NEW r \in FinRequests, SaveMove(r) \/ SaveSettlement(r)
  PROVE  FinVouchersInv'
<1>1. FinRequestsOK'
  BY FinEndsOK DEF SaveMove, SaveSettlement, FinVouchersInv
<1>2. freq[r].row \in FinRows /\ (freq[r].at # "idle" => freq[r].doc \in FinDocs)
  BY DEF FinVouchersInv, FinRequestsOK, FinRequestOK
<1>3. CASE SaveMove(r)
  BY <1>1, <1>2, <1>3 DEF SaveMove, FinVouchersInv, FinStoreOK, NeverOverpaid
<1>4. CASE SaveSettlement(r)
  <2> DEFINE d == freq[r].doc
  <2>1. freq[r].op = "settle" /\ d \in FinDocs
    BY <1>2, <1>4 DEF SaveSettlement
  <2>2. fdoc' \in [FinDocs -> FinRows]
    BY <1>2, <1>4, <2>1 DEF SaveSettlement, FinVouchersInv, FinStoreOK
  <2>3. issued' \subseteq Vouchers
    <3>1. d \in Settlements
      BY <2>1 DEF FinVouchersInv, FinRequestsOK, FinRequestOK
    <3>2. Issues[d] \subseteq Vouchers
      BY <3>1, FinVouchersAssumption
    <3>3. QED
      BY <1>4, <3>2 DEF SaveSettlement, FinVouchersInv, FinStoreOK
  <2>4. paid' \in [Vouchers -> Nat] /\ \A v \in Vouchers : paid'[v] <= Due[v]
    BY <1>4, FinVouchersAssumption DEF SaveSettlement, FinVouchersInv, FinStoreOK, NeverOverpaid
  <2>5. QED
    BY <1>1, <1>4, <2>2, <2>3, <2>4
    DEF SaveSettlement, FinVouchersInv, FinStoreOK, NeverOverpaid
<1>5. QED
  BY <1>3, <1>4

LEMMA ReadVoucherFields ==
  ASSUME NEW q, NEW seen,
         q = [op |-> q.op, doc |-> q.doc, at |-> q.at, row |-> q.row, seen |-> q.seen,
              next |-> q.next, wrote |-> q.wrote]
  PROVE  [q EXCEPT !.at = "apply", !.seen = seen] =
           [op |-> q.op, doc |-> q.doc, at |-> "apply", row |-> q.row, seen |-> seen,
            next |-> q.next, wrote |-> q.wrote]
<1> DEFINE one == [q EXCEPT !.at = "apply"]
<1>1. one = [op |-> q.op, doc |-> q.doc, at |-> "apply", row |-> q.row, seen |-> q.seen,
             next |-> q.next, wrote |-> q.wrote]
  OBVIOUS
<1>2. [q EXCEPT !.at = "apply", !.seen = seen] = [one EXCEPT !.seen = seen]
  OBVIOUS
<1> HIDE DEF one
<1>3. QED
  BY <1>1, <1>2

LEMMA SaveVoucherFields ==
  ASSUME NEW q, NEW wrote,
         q = [op |-> q.op, doc |-> q.doc, at |-> q.at, row |-> q.row, seen |-> q.seen,
              next |-> q.next, wrote |-> q.wrote]
  PROVE  [q EXCEPT !.at = "line", !.next = @ + 1, !.wrote = wrote] =
           [op |-> q.op, doc |-> q.doc, at |-> "line", row |-> q.row, seen |-> q.seen,
            next |-> q.next + 1, wrote |-> wrote]
<1> DEFINE one == [q EXCEPT !.at = "line"]
           two == [one EXCEPT !.next = q.next + 1]
<1>1. one = [op |-> q.op, doc |-> q.doc, at |-> "line", row |-> q.row, seen |-> q.seen,
             next |-> q.next, wrote |-> q.wrote]
  OBVIOUS
<1>2. [q EXCEPT !.at = "line", !.next = @ + 1, !.wrote = wrote] = [two EXCEPT !.wrote = wrote]
  BY <1>1
<1> HIDE DEF one
<1>3. two = [op |-> q.op, doc |-> q.doc, at |-> "line", row |-> q.row, seen |-> q.seen,
             next |-> q.next + 1, wrote |-> q.wrote]
  BY <1>1
<1> HIDE DEF two
<1>4. QED
  BY <1>2, <1>3

LEMMA FinLinesInv ==
  ASSUME FinVouchersInv, NEW r \in FinRequests,
         SaveSettling(r) \/ ReadVoucher(r) \/ SkipVoucher(r) \/ SaveVoucher(r)
  PROVE  FinVouchersInv'
<1> DEFINE q == freq[r]
<1>0. FinRequestOK(q) /\ freq = [p \in FinRequests |-> freq[p]]
  BY DEF FinVouchersInv, FinRequestsOK
<1>1. CASE SaveSettling(r)
  <2> DEFINE new == [q EXCEPT !.at = "line"]
  <2>1. FinRequestOK(new)
    BY <1>0, <1>1 DEF SaveSettling, FinRequestOK, FinPoints, WroteOK, Checked
  <2>2. freq' = [freq EXCEPT ![r] = new]
    BY <1>0, <1>1 DEF SaveSettling
  <2>3. QED
    BY <1>1, <2>1, <2>2, FinInsideKeepsInv DEF SaveSettling, FinVouchersInv, FinStoreOK
<1>2. CASE ReadVoucher(r)
  <2> DEFINE seen == Sees(r, Line(r).voucher)
             new == [q EXCEPT !.at = "apply", !.seen = seen]
  <2>1. q.next <= Len(q.row.lines) /\ Line(r).voucher \in Vouchers /\ Line(r).amount \in Nat
    BY <1>2, LineType DEF ReadVoucher, LinesLeft
  <2>2. seen \in Nat /\ seen <= Due[Line(r).voucher] /\ Due[Line(r).voucher] \in Nat
    BY <2>1, SeesOK, FinVouchersAssumption
  <2>3. seen + Line(r).amount <= Due[Line(r).voucher]
    <3>1. Line(r).amount <= Due[Line(r).voucher] - seen
      BY <1>2 DEF ReadVoucher, Fits
    <3>2. QED
      BY <2>1, <2>2, <3>1
  <2>4. FinRequestOK(new)
    <3>1. new = [op |-> q.op, doc |-> q.doc, at |-> "apply", row |-> q.row, seen |-> seen,
                 next |-> q.next, wrote |-> q.wrote]
      BY <1>0, ReadVoucherFields, Zenon DEF FinRequestOK
    <3>2. Line(r) = q.row.lines[q.next] /\ q.at = "line"
      BY <1>2 DEF ReadVoucher, LinesLeft, Line
    <3> HIDE DEF seen, new
    <3>3. Checked(new) /\ new.seen \in Nat
      BY <2>1, <2>2, <2>3, <3>1, <3>2 DEF Checked
    <3>4. QED
      BY <1>0, <3>1, <3>2, <3>3 DEF FinRequestOK, FinPoints
  <2>5. freq' = [freq EXCEPT ![r] = new]
    BY <1>0, <1>2 DEF ReadVoucher
  <2>6. QED
    BY <1>2, <2>4, <2>5, FinInsideKeepsInv DEF ReadVoucher, FinVouchersInv, FinStoreOK
<1>3. CASE SkipVoucher(r)
  <2> DEFINE new == [q EXCEPT !.next = @ + 1]
  <2>1. FinRequestOK(new)
    BY <1>0, <1>3 DEF SkipVoucher, LinesLeft, FinRequestOK, FinPoints, WroteOK, Checked
  <2>2. freq' = [freq EXCEPT ![r] = new]
    BY <1>0, <1>3 DEF SkipVoucher
  <2>3. Line(r).voucher \in Vouchers
    BY <1>3, LineType DEF SkipVoucher, LinesLeft
  <2>4. QED
    BY <1>3, <2>1, <2>2, <2>3, FinInsideKeepsInv DEF SkipVoucher, FinVouchersInv, FinStoreOK
<1>4. CASE SaveVoucher(r)
  <2> DEFINE wrote == Written(r)
             new == [q EXCEPT !.at = "line", !.next = @ + 1, !.wrote = wrote]
  <2>1. /\ q.next <= Len(q.row.lines) /\ Line(r).voucher \in Vouchers /\ Line(r).amount \in Nat
        /\ q.seen \in Nat /\ q.seen + Line(r).amount <= Due[Line(r).voucher]
    <3>1. q.next <= Len(q.row.lines)
      BY <1>0, <1>4 DEF SaveVoucher, FinRequestOK, Checked
    <3>2. QED
      BY <1>0, <1>4, <3>1, LineType DEF SaveVoucher, FinRequestOK, Checked, Line
  <2>2. WroteOK(wrote)
    BY <1>0, <2>1 DEF FinRequestOK, WroteOK, Written
  <2>3. FinRequestOK(new)
    <3>1. new = [op |-> q.op, doc |-> q.doc, at |-> "line", row |-> q.row, seen |-> q.seen,
                 next |-> q.next + 1, wrote |-> wrote]
      BY <1>0, SaveVoucherFields, Zenon DEF FinRequestOK
    <3>2. q.at = "apply" /\ q.next \in Nat \ {0}
      BY <1>0, <1>4 DEF SaveVoucher, FinRequestOK
    <3> HIDE DEF wrote, new
    <3>3. Checked(new) /\ new.next \in Nat \ {0}
      BY <3>1, <3>2 DEF Checked
    <3>4. QED
      BY <1>0, <2>2, <3>1, <3>2, <3>3 DEF FinRequestOK, FinPoints
  <2>4. freq' = [freq EXCEPT ![r] = new]
    BY <1>0, <1>4 DEF SaveVoucher
  <2>5. QED
    BY <1>4, <2>3, <2>4, FinInsideKeepsInv DEF SaveVoucher, FinVouchersInv, FinStoreOK
<1>5. QED
  BY <1>1, <1>2, <1>3, <1>4

LEMMA FinCommitInv ==
  ASSUME FinVouchersInv, NEW r \in FinRequests, CommitSettling(r)
  PROVE  FinVouchersInv'
<1>1. FinRequestsOK'
  BY FinEndsOK DEF CommitSettling, FinVouchersInv
<1>2. freq[r].row \in FinRows /\ freq[r].doc \in FinDocs
  BY DEF CommitSettling, FinVouchersInv, FinRequestsOK, FinRequestOK
<1>3. \A v \in Vouchers : Sees(r, v) \in Nat /\ Sees(r, v) <= Due[v]
  BY SeesOK
<1>4. paid' \in [Vouchers -> Nat] /\ \A v \in Vouchers : paid'[v] <= Due[v]
  BY <1>3 DEF CommitSettling
<1>5. fdoc' \in [FinDocs -> FinRows]
  BY <1>2 DEF CommitSettling, FinVouchersInv, FinStoreOK
<1>6. QED
  BY <1>1, <1>4, <1>5 DEF CommitSettling, FinVouchersInv, FinStoreOK, NeverOverpaid

LEMMA FinVouchersStepInv == FinVouchersInv /\ [FinVouchersNext]_finVouchersVars => FinVouchersInv'
<1>0. SUFFICES ASSUME FinVouchersInv, [FinVouchersNext]_finVouchersVars PROVE FinVouchersInv'
  OBVIOUS
<1>1. ASSUME NEW r \in FinRequests, FinVouchersStep(r) PROVE FinVouchersInv'
  <2>1. CASE FinRollback(r)
    BY <1>0, <2>1, FinEndsOK DEF FinRollback, FinVouchersInv, FinStoreOK, NeverOverpaid
  <2>2. QED
    BY <1>0, <1>1, <2>1, FinReadsInv, FinSavesInv, FinLinesInv, FinCommitInv DEF FinVouchersStep
<1>2. CASE UNCHANGED finVouchersVars
  BY <1>0, <1>2
  DEF finVouchersVars, FinVouchersInv, FinStoreOK, NeverOverpaid, FinRequestsOK, FinRequestOK,
      WroteOK, Checked
<1>3. QED
  BY <1>0, <1>1, <1>2 DEF FinVouchersNext

(* However callbacks, write-offs and confirmations of settlements overlap, *)
(* no voucher is paid beyond its amount (ap_voucher_aggregate 68-95,       *)
(* ar_voucher_aggregate 62-95).                                            *)
THEOREM VouchersNeverOverpaid == FinVouchersSpec => []NeverOverpaid
<1>1. FinVouchersInv => NeverOverpaid
  BY DEF FinVouchersInv, FinStoreOK
<1>2. QED
  BY <1>1, FinVouchersInitInv, FinVouchersStepInv, PTL DEF FinVouchersSpec

-----------------------------------------------------------------------------
(***************************************************************************)
(* Vouchers and money.  A voucher that no two requests dispute is still as *)
(* the one request about it has read it, but for what that request wrote   *)
(* of it line by line; so the commit adds to the voucher what the document *)
(* says of it.                                                             *)
(***************************************************************************)
Settles == {"SUCCESS", "WRITE_OFF"}

Share(line, v) == IF line.voucher = v THEN line.amount ELSE 0
Shares(lines, v) == [k \in DOMAIN lines |-> Share(lines[k], v)]

\* The lines a request has settled, and those whose voucher it has read.
Before(q) == {k \in DOMAIN q.row.lines : k < q.next}
Met(q) == {k \in DOMAIN q.row.lines : k < q.next \/ (k = q.next /\ q.at = "apply")}

\* What a request has settled of a voucher so far.
SoFar(q, v) == SumFunctionOnSet(Shares(q.row.lines, v), Before(q))

\* Requests that overlap on a voucher have it disputed.
VouchersApart ==
  \A q, r \in FinRequests :
    q # r /\ FinOpen(q) /\ FinOpen(r) => Reach(freq[q].doc) \cap Reach(freq[r].doc) \subseteq disputed

\* A document names vouchers of its own; those of a settled document exist.
DocumentOK(d) ==
  /\ Named(fdoc[d].lines) \subseteq Reach(d)
  /\ fdoc[d].status \in Settles => Named(fdoc[d].lines) \subseteq issued \cup disputed
  /\ d \in Settlements /\ fdoc[d].status \notin {"CONFIRMED", "CANCELLED"} =>
       Issues[d] \cap issued \subseteq disputed

\* What a request does, by its name.
OpOK(q) ==
  /\ q.op \in DOMAIN FinFrom /\ q.row.status = FinTo[q.op]
  /\ q.op \in {"paid", "writeOff"} => q.doc \in SettleDocs
  /\ q.at \in {"line", "apply"} => q.op \in {"paid", "writeOff"}
  /\ Named(q.row.lines) \subseteq Reach(q.doc) /\ DOMAIN q.wrote \subseteq Reach(q.doc)
  /\ \A k \in Met(q) : q.row.lines[k].voucher \in issued \cup disputed

Has(q, v) == IF v \in DOMAIN q.wrote THEN q.wrote[v] ELSE paid[v]

\* What it knows of a voucher that is its alone.
KnowsVoucher(q, v) ==
  /\ fdoc[q.doc].status \notin Settles
  /\ q.doc \in Settlements /\ q.op # "cancel" => v \notin issued
  /\ Has(q, v) = paid[v] + SoFar(q, v)
  /\ q.at = "apply" /\ q.row.lines[q.next].voucher = v => q.seen = Has(q, v)

KnowsVouchers(r) ==
  FinOpen(r) => OpOK(freq[r]) /\ \A v \in Reach(freq[r].doc) \ disputed : KnowsVoucher(freq[r], v)

Money(v) == [d \in SettleDocs |-> SettledOn(d, v)]
AllMoney(v) == SumFunctionOnSet(Money(v), SettleDocs)

PaidIsSettled == \A v \in Vouchers \ disputed : paid[v] = AllMoney(v)

MoneyInv ==
  /\ FinVouchersInv /\ VouchersApart
  /\ \A d \in FinDocs : DocumentOK(d)
  /\ \A r \in FinRequests : KnowsVouchers(r)
  /\ PaidIsSettled

LEMMA PaidIsTheProperty == PaidIsSettled <=> VouchersMatchMoney
<1>1. \A v : SumFunction([d \in SettleDocs |-> SettledOn(d, v)]) = AllMoney(v)
  BY DEF SumFunction, AllMoney, Money
<1> QED BY <1>1 DEF PaidIsSettled, VouchersMatchMoney

LEMMA SettleDocsFinite == IsFiniteSet(SettleDocs) /\ SettleDocs \subseteq FinDocs
<1>1. IsFiniteSet(Payments) /\ IsFiniteSet(Receipts)
  BY FinVouchersAssumption
<1> QED BY <1>1, FS_Union DEF SettleDocs, FinDocs

LEMMA LinesFinite ==
  ASSUME NEW lines \in Seq(PayLines)
  PROVE  /\ IsFiniteSet(DOMAIN lines) /\ \A k \in DOMAIN lines : lines[k] \in PayLines
         /\ \A v : \A k \in DOMAIN lines : Shares(lines, v)[k] \in Int
<1>1. DOMAIN lines = 1 .. Len(lines) /\ Len(lines) \in Nat
  OBVIOUS
<1>2. IsFiniteSet(1 .. Len(lines))
  BY <1>1, FS_Interval
<1>3. \A k \in DOMAIN lines : lines[k] \in PayLines
  OBVIOUS
<1>4. \A v : \A k \in DOMAIN lines : Shares(lines, v)[k] \in Int
  BY <1>3 DEF Shares, Share, PayLines
<1> QED BY <1>1, <1>2, <1>3, <1>4

\* What a row settles of a voucher.
Worth(row, v) ==
  IF row.status \in Settles THEN SumFunctionOnSet(Shares(row.lines, v), DOMAIN row.lines) ELSE 0

LEMMA SettledIsWorth ==
  ASSUME NEW d, NEW v
  PROVE  SettledOn(d, v) = Worth(fdoc[d], v) /\ SettledOn(d, v)' = Worth(fdoc'[d], v)
<1>1. \A lines : DOMAIN Shares(lines, v) = DOMAIN lines
  BY DEF Shares
<1> QED BY <1>1 DEF SettledOn, SumFunction, Shares, Share, Settles, Worth

LEMMA WorthType == ASSUME NEW row \in FinRows, NEW v PROVE Worth(row, v) \in Int
<1> DEFINE lines == row.lines
<1>1. lines \in Seq(PayLines)
  BY DEF FinRows
<1> HIDE DEF lines
<1>2. SumFunctionOnSet(Shares(lines, v), DOMAIN lines) \in Int
  BY <1>1, LinesFinite, SumType
<1> QED BY <1>2 DEF Worth, lines

\* A row that does not name a voucher settles nothing of it.
LEMMA WorthNothing ==
  ASSUME NEW row \in FinRows, NEW v, row.status \in Settles => v \notin Named(row.lines)
  PROVE  Worth(row, v) = 0
<1> DEFINE lines == row.lines
<1>1. lines \in Seq(PayLines) /\ (row.status \in Settles => \A k \in DOMAIN lines : lines[k].voucher # v)
  BY DEF FinRows, Named
<1> HIDE DEF lines
<1>2. CASE row.status \in Settles
  <2>1. \A k \in DOMAIN lines : Shares(lines, v)[k] = 0
    BY <1>1, <1>2 DEF Shares, Share
  <2>2. SumFunctionOnSet(Shares(lines, v), DOMAIN lines) = 0
    BY <1>1, <2>1, LinesFinite, SumZero
  <2> QED BY <2>2 DEF Worth, lines
<1> QED BY <1>2 DEF Worth

LEMMA MoneySame ==
  ASSUME NEW v, \A d \in SettleDocs : SettledOn(d, v)' = SettledOn(d, v)
  PROVE  AllMoney(v)' = AllMoney(v)
<1>1. Money(v)' = Money(v)
  BY DEF Money
<1> QED BY <1>1 DEF AllMoney

LEMMA MoneyZero ==
  ASSUME NEW v, \A d \in SettleDocs : SettledOn(d, v) = 0 PROVE AllMoney(v) = 0
<1>1. \A d \in SettleDocs : Money(v)[d] = 0
  BY DEF Money
<1> QED BY <1>1, SumZero, SettleDocsFinite DEF AllMoney

LEMMA MoneyType == ASSUME fdoc \in [FinDocs -> FinRows], NEW v PROVE AllMoney(v) \in Int
<1>1. \A d \in SettleDocs : Money(v)[d] \in Int
  BY SettledIsWorth, WorthType, SettleDocsFinite DEF Money
<1> QED BY <1>1, SumType, SettleDocsFinite DEF AllMoney

LEMMA MoneyChange ==
  ASSUME fdoc \in [FinDocs -> FinRows], fdoc' \in [FinDocs -> FinRows],
         NEW v, NEW d \in SettleDocs, SettledOn(d, v) = 0,
         \A e \in SettleDocs \ {d} : SettledOn(e, v)' = SettledOn(e, v)
  PROVE  AllMoney(v)' = AllMoney(v) + SettledOn(d, v)'
<1> DEFINE f == Money(v)
           g == [e \in SettleDocs |-> SettledOn(e, v)']
<1>1. \A e \in FinDocs : SettledOn(e, v) \in Int /\ SettledOn(e, v)' \in Int
  BY SettledIsWorth, WorthType
<1>3. /\ \A e \in SettleDocs : f[e] \in Int /\ g[e] \in Int
      /\ \A e \in SettleDocs \ {d} : g[e] = f[e]
      /\ f[d] = 0 /\ g[d] = SettledOn(d, v)'
  BY <1>1, SettleDocsFinite DEF Money
<1>4. AllMoney(v) = SumFunctionOnSet(f, SettleDocs) /\ AllMoney(v)' = SumFunctionOnSet(g, SettleDocs)
  BY DEF AllMoney, Money
<1> HIDE DEF f, g
<1>5. SumFunctionOnSet(g, SettleDocs) = SumFunctionOnSet(f, SettleDocs) - f[d] + g[d]
  BY <1>3, SumChanges, SettleDocsFinite
<1>6. SumFunctionOnSet(f, SettleDocs) \in Int /\ g[d] \in Int
  BY <1>3, SumType, SettleDocsFinite
<1> QED BY <1>3, <1>4, <1>5, <1>6

LEMMA MoneyInitInv == FinVouchersInit => MoneyInv
<1> SUFFICES ASSUME FinVouchersInit PROVE MoneyInv
  OBVIOUS
<1>1. FinVouchersInv
  BY FinVouchersInitInv
<1>2. \A r \in FinRequests : ~ FinOpen(r)
  BY DEF FinVouchersInit, FinOpen, FinIdle, FinRequest
<1>3. VouchersApart /\ \A r \in FinRequests : KnowsVouchers(r)
  BY <1>2 DEF VouchersApart, KnowsVouchers
<1>4. \A d \in FinDocs : /\ fdoc[d].lines = <<>> /\ Named(fdoc[d].lines) = {}
                         /\ fdoc[d].status \notin Settles
  BY DEF FinVouchersInit, FinRow, Named, Settles
<1>5. \A d \in FinDocs : DocumentOK(d)
  BY <1>4 DEF DocumentOK, FinVouchersInit
<1>6. ASSUME NEW v \in Vouchers PROVE paid[v] = AllMoney(v)
  <2>1. \A d \in SettleDocs : SettledOn(d, v) = 0
    BY <1>4, SettleDocsFinite, SettledIsWorth DEF Worth
  <2> QED BY <2>1, MoneyZero DEF FinVouchersInit
<1> QED BY <1>1, <1>3, <1>5, <1>6 DEF MoneyInv, PaidIsSettled

\* What the other requests know stays true when one works on its own rows.
LEMMA OthersKnowVouchers ==
  ASSUME MoneyInv, NEW r \in FinRequests, NEW new, freq' = [freq EXCEPT ![r] = new],
         FinOpen(r), new.at # "idle" => new.doc = freq[r].doc,
         disputed \subseteq disputed', issued \subseteq issued',
         \A d \in FinDocs : d # freq[r].doc => fdoc'[d] = fdoc[d],
         \A v \in Vouchers \ Reach(freq[r].doc) : paid'[v] = paid[v] /\ (v \in issued' => v \in issued),
         new.at # "idle" => OpOK(new)' /\ \A v \in Reach(new.doc) \ disputed' : KnowsVoucher(new, v)'
  PROVE  VouchersApart' /\ \A q \in FinRequests : KnowsVouchers(q)'
<1>1. \A q \in FinRequests : freq'[q] = IF q = r THEN new ELSE freq[q]
  BY DEF MoneyInv, FinVouchersInv, FinRequestsOK
<1>2. \A q \in FinRequests : FinOpen(q) => freq[q].doc \in FinDocs
  BY DEF MoneyInv, FinVouchersInv, FinRequestsOK, FinRequestOK, FinOpen
<1>3. \A q \in FinRequests : FinOpen(q)' => FinOpen(q) /\ freq'[q].doc = freq[q].doc
  BY <1>1 DEF FinOpen
<1>4. VouchersApart'
  BY <1>3 DEF VouchersApart, MoneyInv, Reach
<1>5. ASSUME NEW q \in FinRequests PROVE KnowsVouchers(q)'
  <2>1. CASE q = r
    <3>1. freq'[q] = new
      BY <1>1, <2>1
    <3> QED BY <3>1 DEF KnowsVouchers, FinOpen, OpOK, KnowsVoucher, Has, Met, Reach
  <2>2. CASE q # r /\ FinOpen(q)
    <3>1. freq'[q] = freq[q] /\ OpOK(freq[q]) /\ freq[q].doc \in FinDocs
          /\ \A v \in Reach(freq[q].doc) \ disputed : KnowsVoucher(freq[q], v)
      BY <1>1, <1>2, <2>2 DEF MoneyInv, KnowsVouchers
    <3>2. OpOK(freq[q])'
      BY <3>1 DEF OpOK, Met, Reach
    <3>3. ASSUME NEW v \in Reach(freq[q].doc) \ disputed' PROVE KnowsVoucher(freq[q], v)'
      <4>1. KnowsVoucher(freq[q], v) /\ v \in Vouchers
        BY <3>1, ReachVouchers
      <4>2. v \notin Reach(freq[r].doc)
        BY <2>2 DEF MoneyInv, VouchersApart
      <4>3. paid'[v] = paid[v] /\ (v \in issued' => v \in issued)
        BY <4>1, <4>2
      <4>4. fdoc'[freq[q].doc] = fdoc[freq[q].doc]
        BY <3>1, <4>2
      <4> QED BY <3>1, <4>1, <4>3, <4>4 DEF KnowsVoucher, Has, SoFar, Before
    <3> QED BY <3>1, <3>2, <3>3 DEF KnowsVouchers, Reach
  <2>3. CASE ~ FinOpen(q)
    BY <1>3, <2>3 DEF KnowsVouchers
  <2> QED BY <2>1, <2>2, <2>3
<1> QED BY <1>4, <1>5

\* A request that begins, on a document it has just read.
LEMMA ReadKnowsVouchers ==
  ASSUME MoneyInv, FinVouchersInv', NEW r \in FinRequests, NEW op \in FinOps, NEW d \in FinDocs,
         NEW row, FinRead(r, op, d, row), OpOK(FinRequest(op, d, "save", row)),
         \A v \in Reach(d) \ disputed : fdoc[d].status \notin Settles
                                        /\ (d \in Settlements /\ op # "cancel" => v \notin issued)
  PROVE  MoneyInv'
<1> DEFINE new == FinRequest(op, d, "save", row)
<1>0. /\ disputed' = disputed \cup Overlaps(d) /\ UNCHANGED <<fdoc, issued, paid>> /\ ~ FinOpen(r)
      /\ \A q \in FinRequests : freq'[q] = IF q = r THEN new ELSE freq[q]
  BY DEF MoneyInv, FinVouchersInv, FinRequestsOK, FinRead
<1>1. new.at = "save" /\ new.doc = d /\ new.op = op /\ new.row = row /\ new.next = 1 /\ new.wrote = <<>>
  BY DEF FinRequest
<1> HIDE DEF new
<1>2. VouchersApart'
  <2>1. ASSUME NEW q \in FinRequests, q # r, FinOpen(q)'
        PROVE  FinOpen(q) /\ freq'[q] = freq[q] /\ Reach(d) \cap Reach(freq[q].doc) \subseteq disputed'
    <3>1. FinOpen(q) /\ freq'[q] = freq[q]
      BY <1>0, <2>1 DEF FinOpen
    <3> QED BY <3>1, <1>0 DEF Overlaps
  <2>2. freq'[r].doc = d
    BY <1>0, <1>1
  <2>3. \A q, p \in FinRequests : q # p /\ FinOpen(q)' /\ FinOpen(p)' =>
           Reach(freq'[q].doc) \cap Reach(freq'[p].doc) \subseteq disputed'
    <3> SUFFICES ASSUME NEW q \in FinRequests, NEW p \in FinRequests, q # p, FinOpen(q)', FinOpen(p)'
                 PROVE  Reach(freq'[q].doc) \cap Reach(freq'[p].doc) \subseteq disputed'
      OBVIOUS
    <3>1. CASE q = r
      BY <2>1, <2>2, <3>1
    <3>2. CASE p = r
      BY <2>1, <2>2, <3>2
    <3>3. CASE q # r /\ p # r
      BY <1>0, <2>1, <3>3 DEF MoneyInv, VouchersApart
    <3> QED BY <3>1, <3>2, <3>3
  <2> QED BY <2>3 DEF VouchersApart, Reach
<1>3. ASSUME NEW q \in FinRequests PROVE KnowsVouchers(q)'
  <2>1. CASE q = r
    <3>1. freq'[q] = new /\ OpOK(new)
      BY <1>0, <2>1 DEF new
    <3>2. OpOK(new)'
      BY <3>1, <1>0 DEF OpOK, Met, Reach
    <3>3. ASSUME NEW v \in Reach(d) \ disputed' PROVE KnowsVoucher(new, v)'
      <4>1. Before(new) = {}
        <5>1. fdoc[d].lines \in Seq(PayLines) /\ row.lines \in Seq(PayLines)
          <6>1. freq'[r].row \in FinRows
            BY DEF FinVouchersInv, FinRequestsOK, FinRequestOK
          <6> QED BY <6>1, <1>0, <1>1 DEF FinRows, MoneyInv, FinVouchersInv, FinStoreOK
        <5>2. DOMAIN row.lines \subseteq Nat \ {0}
          BY <5>1
        <5> QED BY <5>2, <1>1 DEF Before
      <4>2. SoFar(new, v) = 0
        BY <4>1, SumEmpty DEF SoFar
      <4>3. paid[v] \in Nat
        BY ReachVouchers DEF MoneyInv, FinVouchersInv, FinStoreOK
      <4>4. Has(new, v)' = paid[v] /\ SoFar(new, v)' = 0
        BY <1>0, <1>1, <4>2 DEF Has, SoFar, Before
      <4>5. v \in Reach(d) \ disputed
        BY <1>0
      <4> QED BY <4>3, <4>4, <4>5, <1>0, <1>1 DEF KnowsVoucher
    <3> QED BY <3>1, <3>2, <3>3, <1>1 DEF KnowsVouchers, Reach
  <2>2. CASE q # r
    <3>1. freq'[q] = freq[q] /\ KnowsVouchers(q) /\ disputed \subseteq disputed'
      BY <1>0, <2>2 DEF MoneyInv
    <3> QED BY <3>1, <1>0 DEF KnowsVouchers, FinOpen, OpOK, Met, Reach, KnowsVoucher, Has, SoFar, Before
  <2> QED BY <2>1, <2>2
<1>4. \A e \in FinDocs : DocumentOK(e)'
  BY <1>0 DEF MoneyInv, DocumentOK, Reach
<1>5. PaidIsSettled'
  <2>1. \A v : AllMoney(v)' = AllMoney(v)
    BY <1>0 DEF AllMoney, Money, SettledOn
  <2> QED BY <2>1, <1>0 DEF PaidIsSettled, MoneyInv
<1> QED BY <1>2, <1>3, <1>4, <1>5 DEF MoneyInv

LEMMA FinFromNotSettled ==
  \A op \in DOMAIN FinFrom : \A status \in FinFrom[op] : status \notin Settles
  BY DEF FinFrom, Settles

\* What a request is called when it begins.
LEMMA OpOKNew ==
  ASSUME NEW op \in DOMAIN FinFrom, NEW d \in FinDocs, NEW lines \in Seq(PayLines),
         op \in {"paid", "writeOff"} => d \in SettleDocs, Named(lines) \subseteq Reach(d)
  PROVE  OpOK(FinRequest(op, d, "save", FinRow(FinTo[op], lines)))
<1> DEFINE new == FinRequest(op, d, "save", FinRow(FinTo[op], lines))
<1>1. /\ new.at = "save" /\ new.doc = d /\ new.op = op /\ new.next = 1 /\ DOMAIN new.wrote = {}
      /\ new.row.lines = lines /\ new.row.status = FinTo[op]
  BY DEF FinRequest, FinRow
<1> HIDE DEF new
<1>2. DOMAIN lines \subseteq Nat \ {0}
  OBVIOUS
<1>3. Met(new) = {}
  BY <1>1, <1>2 DEF Met
<1>4. OpOK(new)
  BY <1>1, <1>3 DEF OpOK
<1> QED BY <1>4 DEF new

LEMMA MoneyReadInv ==
  ASSUME MoneyInv, NEW r \in FinRequests,
         \/ \E d \in Settlements : ReadSettle(r, d)
         \/ \E d \in FinDocs, op \in FinOps : ReadMove(r, op, d)
         \/ \E d \in Payments : ReadPaymentRequest(r, d) \/ ReadCallback(r, d)
         \/ \E d \in Receipts : \E lines \in WriteOffs[d] : ReadWriteOff(r, d, lines)
  PROVE  MoneyInv'
<1>1. FinVouchersInv'
  BY FinReadsInv DEF MoneyInv
<1>2. /\ Settlements \subseteq FinDocs /\ Payments \subseteq SettleDocs /\ Receipts \subseteq SettleDocs
      /\ SettleDocs \subseteq FinDocs /\ DOMAIN FinFrom \subseteq FinOps
      /\ Settlements \cap SettleDocs = {} /\ Payments \cap Receipts = {}
  BY FinVouchersAssumption DEF FinDocs, SettleDocs, FinOps
<1>3. /\ FinTo["settle"] = "CONFIRMED" /\ FinTo["request"] = "PENDING_APPROVAL"
      /\ FinTo["paid"] = "SUCCESS" /\ FinTo["writeOff"] = "WRITE_OFF"
      /\ {"settle", "request", "paid", "writeOff", "draft", "cancel"} \subseteq DOMAIN FinFrom
      /\ FinFrom["settle"] = {"DRAFT"} /\ FinFrom["draft"] = {"absent"}
  BY DEF FinTo, FinFrom
<1>4. Named(<<>>) = {} /\ <<>> \in Seq(PayLines)
  BY DEF Named
\* All of them: what is left to show of a request that reads.
<1>5. ASSUME NEW op \in DOMAIN FinFrom, NEW d \in FinDocs, NEW lines \in Seq(PayLines),
             Asks(op, d), FinRead(r, op, d, FinRow(FinTo[op], lines)),
             op \in {"paid", "writeOff"} => d \in SettleDocs, Named(lines) \subseteq Reach(d),
             d \in Settlements => op \in {"settle", "draft", "cancel"}
      PROVE  MoneyInv'
  <2>1. fdoc[d].status \notin Settles
    BY <1>5, FinFromNotSettled DEF Asks
  <2>2. ASSUME NEW v \in Reach(d) \ disputed, d \in Settlements, op # "cancel" PROVE v \notin issued
    <3>1. fdoc[d].status \in {"DRAFT", "absent"} /\ Reach(d) = Issues[d]
      BY <1>3, <1>5, <2>2 DEF Asks, Reach
    <3>2. Issues[d] \cap issued \subseteq disputed
      BY <2>2, <3>1 DEF MoneyInv, DocumentOK
    <3> QED BY <2>2, <3>1, <3>2
  <2>3. OpOK(FinRequest(op, d, "save", FinRow(FinTo[op], lines)))
    BY <1>5, OpOKNew
  <2>4. op \in FinOps
    BY <1>2
  <2> QED BY <1>1, <1>5, <2>1, <2>2, <2>3, <2>4, ReadKnowsVouchers
<1>6. ASSUME NEW d \in Settlements, ReadSettle(r, d) PROVE MoneyInv'
  BY <1>2, <1>3, <1>4, <1>5, <1>6 DEF ReadSettle
<1>7. ASSUME NEW d \in FinDocs, NEW op \in FinOps, ReadMove(r, op, d) PROVE MoneyInv'
  <2>1. op \in DOMAIN FinFrom /\ op \notin {"paid", "writeOff"} /\ (d \in Settlements => op \in {"draft", "cancel"})
    BY <1>7, MovesAreOps DEF ReadMove, Moves
  <2>2. fdoc[d].lines \in Seq(PayLines)
    BY DEF MoneyInv, FinVouchersInv, FinStoreOK, FinRows
  <2>3. Named(fdoc[d].lines) \subseteq Reach(d)
    BY DEF MoneyInv, DocumentOK
  <2> QED BY <1>5, <1>7, <2>1, <2>2, <2>3 DEF ReadMove
<1>8. ASSUME NEW d \in Payments, ReadPaymentRequest(r, d) PROVE MoneyInv'
  BY <1>2, <1>3, <1>4, <1>5, <1>8 DEF ReadPaymentRequest
<1>9. ASSUME NEW d \in Payments, ReadCallback(r, d) PROVE MoneyInv'
  <2>1. <<PayLine[d]>> \in Seq(PayLines)
    BY FinVouchersAssumption
  <2>2. Named(<<PayLine[d]>>) \subseteq Reach(d)
    BY <1>2 DEF Named, Reach
  <2> QED BY <1>2, <1>3, <1>5, <1>9, <2>1, <2>2 DEF ReadCallback
<1>10. ASSUME NEW d \in Receipts, NEW lines \in WriteOffs[d], ReadWriteOff(r, d, lines) PROVE MoneyInv'
  <2>1. lines \in Seq(PayLines)
    BY FinVouchersAssumption
  <2>2. Named(lines) \subseteq Reach(d)
    BY <1>2 DEF Reach
  <2> QED BY <1>2, <1>3, <1>5, <1>10, <2>1, <2>2 DEF ReadWriteOff
<1> QED BY <1>6, <1>7, <1>8, <1>9, <1>10

\* A document that is written is written over a row of which a voucher that
\* is not disputed has got nothing yet.
LEMMA NothingBefore ==
  ASSUME MoneyInv, NEW r \in FinRequests, FinOpen(r), NEW d, d = freq[r].doc,
         NEW v \in Vouchers \ disputed
  PROVE  d \in SettleDocs => SettledOn(d, v) = 0
<1>1. d \in FinDocs /\ fdoc[d] \in FinRows
  BY DEF MoneyInv, FinVouchersInv, FinRequestsOK, FinRequestOK, FinStoreOK, FinOpen
<1>2. CASE v \in Reach(d)
  BY <1>1, <1>2, SettledIsWorth, WorthNothing DEF MoneyInv, KnowsVouchers, KnowsVoucher
<1>3. CASE v \notin Reach(d)
  <2>1. v \notin Named(fdoc[d].lines)
    BY <1>1, <1>3 DEF MoneyInv, DocumentOK
  <2> QED BY <1>1, <2>1, SettledIsWorth, WorthNothing
<1> QED BY <1>2, <1>3

LEMMA MoneyMoveInv ==
  ASSUME MoneyInv, NEW r \in FinRequests, SaveMove(r), NEW d, d = freq[r].doc PROVE MoneyInv'
<1> DEFINE q == freq[r]
           row == q.row
<1>0. /\ FinVouchersInv' /\ d \in FinDocs /\ row \in FinRows /\ FinOpen(r) /\ OpOK(q)
      /\ fdoc \in [FinDocs -> FinRows] /\ fdoc' \in [FinDocs -> FinRows]
  <2>1. FinVouchersInv' /\ FinOpen(r)
    BY FinSavesInv DEF MoneyInv, SaveMove, FinOpen
  <2> QED BY <2>1 DEF MoneyInv, FinVouchersInv, FinRequestsOK, FinRequestOK, FinOpen, FinStoreOK, KnowsVouchers
<1>1. /\ \A e \in FinDocs : fdoc'[e] = IF e = d THEN row ELSE fdoc[e]
      /\ freq' = [freq EXCEPT ![r] = FinIdle] /\ UNCHANGED <<issued, paid, disputed>>
  BY <1>0 DEF SaveMove, FinEnds
<1>2. row.status \notin Settles /\ Named(row.lines) \subseteq Reach(d)
      /\ (row.status \notin {"CONFIRMED", "CANCELLED"} => q.op # "cancel")
  BY <1>0 DEF OpOK, SaveMove, FinTo, FinFrom, Settles
<1>3. VouchersApart' /\ \A p \in FinRequests : KnowsVouchers(p)'
  BY <1>0, <1>1, OthersKnowVouchers DEF FinIdle, FinRequest
<1>4. ASSUME NEW e \in FinDocs PROVE DocumentOK(e)'
  <2>1. CASE e = d
    <3>1. d \in Settlements /\ row.status \notin {"CONFIRMED", "CANCELLED"} =>
            Issues[d] \cap issued \subseteq disputed
      <4> SUFFICES ASSUME d \in Settlements, row.status \notin {"CONFIRMED", "CANCELLED"},
                          NEW v \in Issues[d], v \notin disputed
                   PROVE  v \notin issued
        OBVIOUS
      <4>1. v \in Reach(d) /\ q.op # "cancel"
        BY <1>2 DEF Reach
      <4> QED BY <1>0, <4>1 DEF MoneyInv, KnowsVouchers, KnowsVoucher
    <3>2. fdoc'[e] = row
      BY <1>1, <2>1
    <3> QED BY <1>1, <1>2, <2>1, <3>1, <3>2 DEF DocumentOK, Reach
  <2>2. CASE e # d
    BY <1>1, <2>2 DEF MoneyInv, DocumentOK, Reach
  <2> QED BY <2>1, <2>2
<1>5. ASSUME NEW v \in Vouchers \ disputed PROVE AllMoney(v)' = AllMoney(v)
  <2>1. \A e \in SettleDocs \ {d} : SettledOn(e, v)' = SettledOn(e, v)
    BY <1>1, SettleDocsFinite DEF SettledOn
  <2>2. d \in SettleDocs => SettledOn(d, v)' = SettledOn(d, v)
    <3>1. SettledOn(d, v)' = 0
      <4>1. fdoc'[d] = row
        BY <1>0, <1>1
      <4> QED BY <1>0, <1>2, <4>1, SettledIsWorth, WorthNothing
    <3> QED BY <1>0, <3>1, NothingBefore
  <2> QED BY <2>1, <2>2, MoneySame
<1>6. PaidIsSettled'
  BY <1>1, <1>5 DEF PaidIsSettled, MoneyInv
<1> QED BY <1>0, <1>3, <1>4, <1>6 DEF MoneyInv

\* A settlement issues vouchers that nobody has paid anything of.
LEMMA MoneySettlementInv ==
  ASSUME MoneyInv, NEW r \in FinRequests, SaveSettlement(r), NEW d, d = freq[r].doc PROVE MoneyInv'
<1> DEFINE q == freq[r]
           row == q.row
<1>0. /\ FinVouchersInv' /\ d \in Settlements /\ d \in FinDocs /\ d \notin SettleDocs
      /\ row \in FinRows /\ FinOpen(r) /\ OpOK(q) /\ q.op = "settle" /\ Reach(d) = Issues[d]
  <2>1. FinVouchersInv' /\ FinOpen(r) /\ q.op = "settle"
    BY FinSavesInv DEF MoneyInv, SaveSettlement, FinOpen
  <2>2. d \in Settlements
    BY <2>1 DEF MoneyInv, FinVouchersInv, FinRequestsOK, FinRequestOK
  <2> QED BY <2>1, <2>2, FinVouchersAssumption
          DEF MoneyInv, FinVouchersInv, FinRequestsOK, FinRequestOK, FinOpen, KnowsVouchers, FinDocs, Reach
<1>1. /\ \A e \in FinDocs : fdoc'[e] = IF e = d THEN row ELSE fdoc[e]
      /\ freq' = [freq EXCEPT ![r] = FinIdle] /\ disputed' = disputed
      /\ issued' = issued \cup Issues[d]
      /\ paid' = [v \in Vouchers |-> IF v \in Issues[d] THEN 0 ELSE paid[v]]
  BY <1>0 DEF SaveSettlement, FinEnds, MoneyInv, FinVouchersInv, FinStoreOK
<1>2. row.status = "CONFIRMED" /\ Named(row.lines) \subseteq Reach(d)
  BY <1>0 DEF OpOK, FinTo
<1>3. VouchersApart' /\ \A p \in FinRequests : KnowsVouchers(p)'
  <2>1. \A v \in Vouchers \ Reach(d) : paid'[v] = paid[v] /\ (v \in issued' => v \in issued)
    BY <1>0, <1>1
  <2> QED BY <1>0, <1>1, <2>1, OthersKnowVouchers DEF FinIdle, FinRequest
<1>4. ASSUME NEW e \in FinDocs PROVE DocumentOK(e)'
  <2>1. CASE e = d
    <3>1. fdoc'[e] = row
      BY <1>1, <2>1
    <3> QED BY <1>2, <2>1, <3>1 DEF DocumentOK, Reach, Settles
  <2>2. CASE e # d
    <3>1. e \in Settlements => Issues[e] \cap Issues[d] = {}
      BY <1>0, <2>2, FinVouchersAssumption
    <3> QED BY <1>1, <2>2, <3>1 DEF MoneyInv, DocumentOK, Reach
  <2> QED BY <2>1, <2>2
<1>5. ASSUME NEW v \in Vouchers \ disputed PROVE AllMoney(v)' = AllMoney(v)
  <2>1. \A e \in SettleDocs : SettledOn(e, v)' = SettledOn(e, v)
    BY <1>0, <1>1, SettleDocsFinite DEF SettledOn
  <2> QED BY <2>1, MoneySame
<1>6. ASSUME NEW v \in Vouchers \ disputed, v \in Issues[d] PROVE AllMoney(v) = 0
  <2>1. v \notin issued
    BY <1>0, <1>6 DEF MoneyInv, KnowsVouchers, KnowsVoucher
  <2>2. ASSUME NEW e \in SettleDocs PROVE SettledOn(e, v) = 0
    <3>1. e \in FinDocs /\ fdoc[e] \in FinRows
      BY SettleDocsFinite DEF MoneyInv, FinVouchersInv, FinStoreOK
    <3>2. fdoc[e].status \in Settles => v \notin Named(fdoc[e].lines)
      BY <1>6, <2>1, <3>1 DEF MoneyInv, DocumentOK
    <3> QED BY <3>1, <3>2, SettledIsWorth, WorthNothing
  <2> QED BY <2>2, MoneyZero
<1>7. PaidIsSettled'
  BY <1>1, <1>5, <1>6 DEF PaidIsSettled, MoneyInv
<1> QED BY <1>0, <1>3, <1>4, <1>7 DEF MoneyInv

\* A step inside a request changes no row; disputed vouchers may become more.
LEMMA MoneyInsideInv ==
  ASSUME MoneyInv, FinVouchersInv', NEW r \in FinRequests, NEW new, freq' = [freq EXCEPT ![r] = new],
         FinOpen(r), new.at # "idle" => new.doc = freq[r].doc,
         UNCHANGED <<fdoc, issued, paid>>, disputed \subseteq disputed',
         new.at # "idle" => OpOK(new)' /\ \A v \in Reach(new.doc) \ disputed' : KnowsVoucher(new, v)'
  PROVE  MoneyInv'
<1>1. VouchersApart' /\ \A q \in FinRequests : KnowsVouchers(q)'
  BY OthersKnowVouchers
<1>2. \A d \in FinDocs : DocumentOK(d)'
  BY DEF MoneyInv, DocumentOK, Reach
<1>3. PaidIsSettled'
  <2>1. \A v : AllMoney(v)' = AllMoney(v)
    BY DEF AllMoney, Money, SettledOn
  <2> QED BY <2>1 DEF PaidIsSettled, MoneyInv
<1> QED BY <1>1, <1>2, <1>3 DEF MoneyInv

LEMMA RequestFields ==
  ASSUME FinVouchersInv, NEW r \in FinRequests
  PROVE  LET q == freq[r] IN
         /\ q = [op |-> q.op, doc |-> q.doc, at |-> q.at, row |-> q.row, seen |-> q.seen,
                 next |-> q.next, wrote |-> q.wrote]
         /\ q.next \in Nat \ {0} /\ q.row \in FinRows /\ q.row.lines \in Seq(PayLines)
         /\ DOMAIN q.row.lines = 1 .. Len(q.row.lines) /\ Len(q.row.lines) \in Nat
         /\ \A p \in FinRequests : freq[p] = [freq EXCEPT ![r] = q][p]
<1>1. FinRequestOK(freq[r])
  BY DEF FinVouchersInv, FinRequestsOK
<1>2. freq[r].row.lines \in Seq(PayLines)
  BY <1>1 DEF FinRequestOK, FinRows
<1> QED BY <1>1, <1>2 DEF FinRequestOK, FinVouchersInv, FinRequestsOK

\* The next line adds its share to what has been settled.
LEMMA NextShare ==
  ASSUME NEW lines \in Seq(PayLines), NEW n \in 1 .. Len(lines), NEW v
  PROVE  /\ SumFunctionOnSet(Shares(lines, v), {k \in DOMAIN lines : k < n + 1}) =
              SumFunctionOnSet(Shares(lines, v), {k \in DOMAIN lines : k < n}) + Share(lines[n], v)
         /\ SumFunctionOnSet(Shares(lines, v), {k \in DOMAIN lines : k < n}) \in Int
         /\ Share(lines[n], v) \in Int
<1> DEFINE f == Shares(lines, v)
           A == {k \in DOMAIN lines : k < n}
           B == {k \in DOMAIN lines : k < n + 1}
<1>1. DOMAIN lines = 1 .. Len(lines) /\ Len(lines) \in Nat
  OBVIOUS
<1>2. n \in B /\ B \ {n} = A /\ A \subseteq DOMAIN lines /\ B \subseteq DOMAIN lines
  BY <1>1
<1>3. IsFiniteSet(A) /\ IsFiniteSet(B)
  BY <1>2, LinesFinite, FS_Subset
<1>4. \A k \in DOMAIN lines : f[k] \in Int
  BY LinesFinite
<1>5. f[n] = Share(lines[n], v)
  BY <1>2 DEF Shares
<1> HIDE DEF f, A, B
<1>6. SumFunctionOnSet(f, B) = f[n] + SumFunctionOnSet(f, A)
  <2>1. SumFunctionOnSet(f, B) = f[n] + SumFunctionOnSet(f, B \ {n})
    BY <1>2, <1>3, <1>4, SumTakeOut
  <2> QED BY <2>1, <1>2
<1>7. SumFunctionOnSet(f, A) \in Int /\ f[n] \in Int
  BY <1>2, <1>3, <1>4, SumType
<1>8. /\ SumFunctionOnSet(f, B) = SumFunctionOnSet(f, A) + Share(lines[n], v)
      /\ SumFunctionOnSet(f, A) \in Int /\ Share(lines[n], v) \in Int
  BY <1>5, <1>6, <1>7
<1> QED BY <1>8 DEF f, A, B

LEMMA SoFarNext ==
  ASSUME NEW q, NEW new, q.row.lines \in Seq(PayLines), q.next \in 1 .. Len(q.row.lines),
         new.row = q.row, new.next = q.next + 1, NEW v
  PROVE  /\ SoFar(new, v) = SoFar(q, v) + Share(q.row.lines[q.next], v)
         /\ SoFar(q, v) \in Int /\ Share(q.row.lines[q.next], v) \in Int
<1> DEFINE lines == q.row.lines
           n == q.next
<1>1. /\ SoFar(new, v) = SumFunctionOnSet(Shares(lines, v), {k \in DOMAIN lines : k < n + 1})
      /\ SoFar(q, v) = SumFunctionOnSet(Shares(lines, v), {k \in DOMAIN lines : k < n})
  BY DEF SoFar, Before
<1>2. lines \in Seq(PayLines) /\ n \in 1 .. Len(lines)
  OBVIOUS
<1> HIDE DEF lines, n
<1>3. /\ SumFunctionOnSet(Shares(lines, v), {k \in DOMAIN lines : k < n + 1}) =
           SumFunctionOnSet(Shares(lines, v), {k \in DOMAIN lines : k < n}) + Share(lines[n], v)
      /\ SumFunctionOnSet(Shares(lines, v), {k \in DOMAIN lines : k < n}) \in Int
      /\ Share(lines[n], v) \in Int
  BY <1>2, NextShare
<1>4. /\ SoFar(new, v) = SoFar(q, v) + Share(lines[n], v)
      /\ SoFar(q, v) \in Int /\ Share(lines[n], v) \in Int
  BY <1>1, <1>3
<1> QED BY <1>4 DEF lines, n

LEMMA MoneySettlingInv ==
  ASSUME MoneyInv, NEW r \in FinRequests, SaveSettling(r),
         NEW new, new = [freq[r] EXCEPT !.at = "line"]
  PROVE  MoneyInv'
<1> DEFINE q == freq[r]
<1>1. /\ FinVouchersInv' /\ FinOpen(r) /\ OpOK(q) /\ q.op \in {"paid", "writeOff"} /\ q.at = "save"
      /\ q.next \in Nat \ {0}
  BY FinLinesInv, RequestFields DEF MoneyInv, SaveSettling, FinOpen, KnowsVouchers
<1>2. /\ new.at = "line" /\ new.op = q.op /\ new.doc = q.doc /\ new.row = q.row /\ new.next = q.next
      /\ new.wrote = q.wrote /\ new.seen = q.seen
  BY RequestFields DEF MoneyInv
<1>3. freq' = [freq EXCEPT ![r] = new] /\ UNCHANGED <<fdoc, issued, paid, disputed>>
  BY RequestFields DEF SaveSettling, MoneyInv
<1>4. Met(new) = Met(q) /\ Before(new) = Before(q)
  BY <1>1, <1>2 DEF Met, Before
<1>5. OpOK(new)'
  BY <1>1, <1>2, <1>3, <1>4 DEF OpOK, Met, Reach
<1>6. ASSUME NEW v \in Reach(new.doc) \ disputed PROVE KnowsVoucher(new, v)'
  <2>1. KnowsVoucher(q, v)
    BY <1>1, <1>2 DEF MoneyInv, KnowsVouchers
  <2> QED BY <2>1, <1>2, <1>3, <1>4 DEF KnowsVoucher, Has, SoFar, Before
<1> QED BY <1>1, <1>2, <1>3, <1>5, <1>6, MoneyInsideInv

LEMMA MoneyReadVoucherInv ==
  ASSUME MoneyInv, NEW r \in FinRequests, ReadVoucher(r), NEW seen, seen = Sees(r, Line(r).voucher),
         NEW new, new = [freq[r] EXCEPT !.at = "apply", !.seen = seen]
  PROVE  MoneyInv'
<1> DEFINE q == freq[r]
<1>1. /\ FinVouchersInv' /\ FinOpen(r) /\ OpOK(q) /\ q.at = "line"
      /\ q.next \in Nat \ {0} /\ Line(r).voucher \in issued
  BY FinLinesInv, RequestFields DEF MoneyInv, ReadVoucher, LinesLeft, FinOpen, KnowsVouchers
<1>2. /\ new.at = "apply" /\ new.op = q.op /\ new.doc = q.doc /\ new.row = q.row /\ new.next = q.next
      /\ new.wrote = q.wrote /\ new.seen = seen
  BY RequestFields DEF MoneyInv
<1>3. freq' = [freq EXCEPT ![r] = new] /\ UNCHANGED <<fdoc, issued, paid, disputed>>
  BY RequestFields DEF ReadVoucher, MoneyInv
<1>0. Line(r) = q.row.lines[q.next] /\ seen = Has(q, Line(r).voucher)
  BY DEF Line, Sees, Has
<1>4. Before(new) = Before(q) /\ \A k \in Met(new) : k \in Met(q) \/ k = q.next
  BY <1>1, <1>2 DEF Met, Before
<1>5. OpOK(new)'
  <2>1. q.op \in {"paid", "writeOff"} /\ \A k \in Met(new) : q.row.lines[k].voucher \in issued \cup disputed
    BY <1>0, <1>1, <1>4 DEF OpOK
  <2> QED BY <2>1, <1>1, <1>2, <1>3 DEF OpOK, Met, Reach
<1>6. ASSUME NEW v \in Reach(new.doc) \ disputed PROVE KnowsVoucher(new, v)'
  <2>1. KnowsVoucher(q, v)
    BY <1>1, <1>2, <1>6 DEF MoneyInv, KnowsVouchers
  <2>2. Has(new, v)' = Has(q, v) /\ SoFar(new, v)' = SoFar(q, v)
    <3>1. Has(new, v)' = Has(new, v) /\ SoFar(new, v)' = SoFar(new, v)
      BY <1>3 DEF Has, SoFar, Before
    <3>2. Has(new, v) = Has(q, v) /\ SoFar(new, v) = SoFar(q, v)
      BY <1>2, <1>4 DEF Has, SoFar
    <3> QED BY <3>1, <3>2
  <2>3. new.row.lines[new.next].voucher = v => new.seen = Has(q, v)
    BY <1>0, <1>2
  <2>4. fdoc'[new.doc] = fdoc[q.doc] /\ issued' = issued /\ paid' = paid
    BY <1>2, <1>3
  <2> QED BY <2>1, <2>2, <2>3, <2>4, <1>2 DEF KnowsVoucher
<1> QED BY <1>1, <1>2, <1>3, <1>5, <1>6, MoneyInsideInv

LEMMA MoneySkipInv ==
  ASSUME MoneyInv, NEW r \in FinRequests, SkipVoucher(r),
         NEW new, new = [freq[r] EXCEPT !.next = @ + 1]
  PROVE  MoneyInv'
<1> DEFINE q == freq[r]
<1>1. /\ FinVouchersInv' /\ FinOpen(r) /\ OpOK(q) /\ q.at = "line" /\ q.row.lines \in Seq(PayLines)
      /\ q.next \in 1 .. Len(q.row.lines) /\ q.next \in Nat
  <2>1. FinVouchersInv' /\ q.at = "line" /\ q.next <= Len(q.row.lines)
    BY FinLinesInv DEF MoneyInv, SkipVoucher, LinesLeft
  <2>2. q.row.lines \in Seq(PayLines) /\ q.next \in Nat \ {0} /\ Len(q.row.lines) \in Nat
    BY RequestFields DEF MoneyInv
  <2> QED BY <2>1, <2>2 DEF MoneyInv, FinOpen, KnowsVouchers
<1>2. /\ new.at = "line" /\ new.op = q.op /\ new.doc = q.doc /\ new.row = q.row /\ new.next = q.next + 1
      /\ new.wrote = q.wrote /\ new.seen = q.seen
  BY <1>1, RequestFields DEF MoneyInv
<1>3. freq' = [freq EXCEPT ![r] = new] /\ UNCHANGED <<fdoc, issued, paid>>
      /\ disputed' = disputed \cup {Line(r).voucher}
  BY RequestFields DEF SkipVoucher, MoneyInv
<1>0. Line(r) = q.row.lines[q.next]
  BY DEF Line
<1>4. \A k \in Met(new) : k \in Met(q) \/ k = q.next
  <2>1. DOMAIN q.row.lines \subseteq Nat
    BY <1>1
  <2> QED BY <2>1, <1>1, <1>2 DEF Met
<1>5. OpOK(new)'
  <2>1. \A k \in Met(new) : q.row.lines[k].voucher \in issued' \cup disputed'
    BY <1>0, <1>1, <1>3, <1>4 DEF OpOK
  <2> QED BY <2>1, <1>1, <1>2, <1>3 DEF OpOK, Met, Reach
<1>6. ASSUME NEW v \in Reach(new.doc) \ disputed' PROVE KnowsVoucher(new, v)'
  <2>1. KnowsVoucher(q, v) /\ q.row.lines[q.next].voucher # v
    BY <1>0, <1>1, <1>2, <1>3, <1>6 DEF MoneyInv, KnowsVouchers
  <2>2. SoFar(new, v) = SoFar(q, v)
    <3>1. Share(q.row.lines[q.next], v) = 0
      BY <2>1 DEF Share
    <3>2. SoFar(new, v) = SoFar(q, v) + Share(q.row.lines[q.next], v) /\ SoFar(q, v) \in Int
      <4>1. /\ q.row.lines \in Seq(PayLines) /\ q.next \in 1 .. Len(q.row.lines)
            /\ new.row = q.row /\ new.next = q.next + 1
        BY <1>1, <1>2
      <4> HIDE DEF q
      <4> QED BY <4>1, SoFarNext
    <3> QED BY <3>1, <3>2
  <2> QED BY <2>1, <2>2, <1>2, <1>3 DEF KnowsVoucher, Has, SoFar, Before
<1> QED BY <1>1, <1>2, <1>3, <1>5, <1>6, MoneyInsideInv

LEMMA MoneyVoucherInv ==
  ASSUME MoneyInv, NEW r \in FinRequests, SaveVoucher(r), NEW wrote, wrote = Written(r),
         NEW new, new = [freq[r] EXCEPT !.at = "line", !.next = @ + 1, !.wrote = wrote]
  PROVE  MoneyInv'
<1> DEFINE q == freq[r]
           line == q.row.lines[q.next]
<1>1. /\ FinVouchersInv' /\ FinOpen(r) /\ OpOK(q) /\ q.at = "apply" /\ q.row.lines \in Seq(PayLines)
      /\ q.next \in 1 .. Len(q.row.lines) /\ q.next \in Nat
  <2>1. FinVouchersInv' /\ q.at = "apply"
    BY FinLinesInv DEF MoneyInv, SaveVoucher
  <2>2. Checked(q) /\ q.next \in Nat \ {0}
    BY DEF MoneyInv, FinVouchersInv, FinRequestsOK, FinRequestOK
  <2>3. q.row.lines \in Seq(PayLines) /\ Len(q.row.lines) \in Nat
    BY RequestFields DEF MoneyInv
  <2>4. q.next <= Len(q.row.lines)
    BY <2>1, <2>2 DEF Checked
  <2> QED BY <2>1, <2>2, <2>3, <2>4 DEF MoneyInv, FinOpen, KnowsVouchers
<1>2. /\ new.at = "line" /\ new.op = q.op /\ new.doc = q.doc /\ new.row = q.row /\ new.next = q.next + 1
      /\ new.wrote = wrote
  BY <1>1, RequestFields DEF MoneyInv
<1>3. freq' = [freq EXCEPT ![r] = new] /\ UNCHANGED <<fdoc, issued, paid, disputed>>
  BY RequestFields DEF SaveVoucher, MoneyInv
<1>0. /\ DOMAIN wrote = DOMAIN q.wrote \cup {line.voucher}
      /\ \A w \in DOMAIN wrote : wrote[w] = IF w = line.voucher THEN q.seen + line.amount ELSE q.wrote[w]
  BY DEF Line, Written
<1>4. \A k \in Met(new) : k \in Met(q)
  <2>1. DOMAIN q.row.lines \subseteq Nat
    BY <1>1
  <2> QED BY <2>1, <1>1, <1>2 DEF Met
<1>5. OpOK(new)'
  <2>1. line.voucher \in Named(q.row.lines)
    BY <1>1 DEF Named
  <2>2. DOMAIN wrote \subseteq Reach(q.doc)
    BY <2>1, <1>0, <1>1 DEF OpOK
  <2>3. q.op \in {"paid", "writeOff"} /\ \A k \in Met(new) : q.row.lines[k].voucher \in issued \cup disputed
    BY <1>1, <1>4 DEF OpOK
  <2> QED BY <2>2, <2>3, <1>1, <1>2, <1>3 DEF OpOK, Met, Reach
<1>6. ASSUME NEW v \in Reach(new.doc) \ disputed PROVE KnowsVoucher(new, v)'
  <2>1. KnowsVoucher(q, v) /\ v \in Vouchers
    <3>1. q.doc \in FinDocs
      BY <1>1 DEF MoneyInv, FinVouchersInv, FinRequestsOK, FinRequestOK
    <3> QED BY <3>1, <1>1, <1>2, <1>6, ReachVouchers DEF MoneyInv, KnowsVouchers
  <2>2. /\ SoFar(new, v) = SoFar(q, v) + Share(line, v)
        /\ SoFar(q, v) \in Int /\ Share(line, v) \in Int /\ paid[v] \in Int
    <3>1. paid[v] \in Int
      BY <2>1 DEF MoneyInv, FinVouchersInv, FinStoreOK
    <3>2. /\ q.row.lines \in Seq(PayLines) /\ q.next \in 1 .. Len(q.row.lines)
          /\ new.row = q.row /\ new.next = q.next + 1
      BY <1>1, <1>2
    <3> HIDE DEF q
    <3> QED BY <3>1, <3>2, SoFarNext
  <2>3. Has(new, v) = Has(q, v) + Share(line, v)
    <3>1. CASE v = line.voucher
      BY <2>1, <3>1, <1>0, <1>1, <1>2 DEF KnowsVoucher, Has, Share
    <3>2. CASE v # line.voucher
      <4>1. Share(line, v) = 0 /\ Has(q, v) \in Int
        BY <2>1, <2>2, <3>2 DEF Share, KnowsVoucher
      <4>2. Has(new, v) = Has(q, v)
        BY <3>2, <1>0, <1>2 DEF Has
      <4> QED BY <4>1, <4>2
    <3> QED BY <3>1, <3>2
  <2>4. Has(q, v) = paid[v] + SoFar(q, v)
    BY <2>1 DEF KnowsVoucher
  <2>5. Has(new, v) = paid[v] + SoFar(new, v)
    BY <2>2, <2>3, <2>4
  <2> QED BY <2>1, <2>5, <1>2, <1>3 DEF KnowsVoucher, Has, SoFar, Before
<1> QED BY <1>1, <1>2, <1>3, <1>5, <1>6, MoneyInsideInv

LEMMA MoneyCommitInv ==
  ASSUME MoneyInv, NEW r \in FinRequests, CommitSettling(r), NEW d, d = freq[r].doc PROVE MoneyInv'
<1> DEFINE q == freq[r]
           row == q.row
<1>0. /\ FinVouchersInv' /\ d \in FinDocs /\ row \in FinRows /\ FinOpen(r) /\ OpOK(q)
      /\ q.next \in Nat /\ q.next > Len(row.lines) /\ row.lines \in Seq(PayLines) /\ q.at = "line"
      /\ fdoc \in [FinDocs -> FinRows] /\ fdoc' \in [FinDocs -> FinRows] /\ paid \in [Vouchers -> Nat]
  <2>1. FinVouchersInv' /\ FinOpen(r) /\ q.at = "line" /\ q.next > Len(row.lines)
    BY FinCommitInv DEF MoneyInv, CommitSettling, FinOpen
  <2> QED BY <2>1, RequestFields
          DEF MoneyInv, FinVouchersInv, FinRequestsOK, FinRequestOK, FinOpen, FinStoreOK, KnowsVouchers
<1>1. /\ \A e \in FinDocs : fdoc'[e] = IF e = d THEN row ELSE fdoc[e]
      /\ freq' = [freq EXCEPT ![r] = FinIdle] /\ UNCHANGED <<issued, disputed>>
      /\ \A v \in Vouchers : paid'[v] = Has(q, v)
  BY <1>0 DEF CommitSettling, FinEnds, Sees, Has
<1>2. /\ Before(q) = DOMAIN row.lines /\ Met(q) = DOMAIN row.lines
      /\ row.status \in Settles /\ d \in SettleDocs /\ Named(row.lines) \subseteq Reach(d)
      /\ DOMAIN q.wrote \subseteq Reach(d)
  <2>1. DOMAIN row.lines = 1 .. Len(row.lines) /\ Len(row.lines) \in Nat
    BY <1>0
  <2>2. \A k \in DOMAIN row.lines : k < q.next
    BY <1>0, <2>1
  <2> QED BY <2>2, <1>0 DEF Before, Met, OpOK, FinTo, Settles
<1>3. VouchersApart' /\ \A p \in FinRequests : KnowsVouchers(p)'
  <2>1. \A v \in Vouchers \ Reach(d) : paid'[v] = paid[v]
    BY <1>1, <1>2 DEF Has
  <2> QED BY <1>0, <1>1, <2>1, OthersKnowVouchers DEF FinIdle, FinRequest
<1>4. ASSUME NEW e \in FinDocs PROVE DocumentOK(e)'
  <2>1. CASE e = d
    <3>1. fdoc'[e] = row /\ e \notin Settlements
      BY <1>1, <1>2, <2>1, FinVouchersAssumption
    <3>2. Named(row.lines) \subseteq issued \cup disputed
      BY <1>0, <1>2 DEF OpOK, Named
    <3> QED BY <1>1, <1>2, <2>1, <3>1, <3>2 DEF DocumentOK, Reach
  <2>2. CASE e # d
    BY <1>1, <2>2 DEF MoneyInv, DocumentOK, Reach
  <2> QED BY <2>1, <2>2
<1>5. ASSUME NEW v \in Vouchers \ disputed PROVE paid'[v] = AllMoney(v)'
  <2>1. \A e \in SettleDocs \ {d} : SettledOn(e, v)' = SettledOn(e, v)
    BY <1>1, SettleDocsFinite DEF SettledOn
  <2>2. SettledOn(d, v) = 0
    BY <1>0, <1>2, NothingBefore
  <2>3. AllMoney(v)' = AllMoney(v) + SettledOn(d, v)'
    BY <1>0, <1>2, <2>1, <2>2, MoneyChange
  <2>4. SettledOn(d, v)' = Worth(row, v) /\ Worth(row, v) \in Int
    BY <1>0, <1>1, SettledIsWorth, WorthType
  <2>5. paid[v] = AllMoney(v) /\ paid[v] \in Int
    BY <1>0 DEF MoneyInv, PaidIsSettled
  <2>6. paid'[v] = paid[v] + Worth(row, v)
    <3>1. CASE v \in Reach(d)
      <4>1. Has(q, v) = paid[v] + SoFar(q, v)
        BY <1>0, <3>1 DEF MoneyInv, KnowsVouchers, KnowsVoucher
      <4>2. SoFar(q, v) = Worth(row, v)
        BY <1>2 DEF SoFar, Worth
      <4> QED BY <1>1, <4>1, <4>2
    <3>2. CASE v \notin Reach(d)
      <4>1. Worth(row, v) = 0
        BY <1>0, <1>2, <3>2, WorthNothing
      <4>2. paid'[v] = paid[v]
        BY <1>1, <1>2, <3>2 DEF Has
      <4> QED BY <2>5, <4>1, <4>2
    <3> QED BY <3>1, <3>2
  <2> QED BY <2>3, <2>4, <2>5, <2>6
<1>6. PaidIsSettled'
  BY <1>1, <1>5 DEF PaidIsSettled
<1> QED BY <1>0, <1>3, <1>4, <1>6 DEF MoneyInv

LEMMA MoneyStepInv == MoneyInv /\ [FinVouchersNext]_finVouchersVars => MoneyInv'
<1> SUFFICES ASSUME MoneyInv, [FinVouchersNext]_finVouchersVars PROVE MoneyInv'
  OBVIOUS
<1>0. FinVouchersInv'
  BY FinVouchersStepInv DEF MoneyInv
<1>1. ASSUME NEW r \in FinRequests, FinVouchersStep(r) PROVE MoneyInv'
  <2>1. CASE FinRollback(r)
    BY <1>0, <2>1, MoneyInsideInv DEF FinRollback, FinEnds, FinIdle, FinRequest
  <2> QED BY <1>1, <2>1, MoneyReadInv, MoneyMoveInv, MoneySettlementInv, MoneySettlingInv,
             MoneyReadVoucherInv, MoneySkipInv, MoneyVoucherInv, MoneyCommitInv
          DEF FinVouchersStep
<1>2. CASE UNCHANGED finVouchersVars
  <2>1. \A v : AllMoney(v)' = AllMoney(v)
    BY <1>2 DEF finVouchersVars, AllMoney, Money, SettledOn
  <2>2. VouchersApart' /\ \A d \in FinDocs : DocumentOK(d)'
    BY <1>2 DEF finVouchersVars, MoneyInv, VouchersApart, FinOpen, Reach, DocumentOK
  <2>3. ASSUME NEW r \in FinRequests PROVE KnowsVouchers(r)'
    <3>1. KnowsVouchers(r)
      BY DEF MoneyInv
    <3> QED BY <3>1, <1>2 DEF finVouchersVars, KnowsVouchers, FinOpen, Reach, OpOK, Met,
                              KnowsVoucher, Has, SoFar, Before
  <2>4. PaidIsSettled'
    BY <2>1, <1>2 DEF finVouchersVars, PaidIsSettled, MoneyInv
  <2> QED BY <1>0, <2>2, <2>3, <2>4 DEF MoneyInv
<1> QED BY <1>1, <1>2 DEF FinVouchersNext

\* However often the bank repeats a callback, whatever fails half way and
\* whatever happens to other vouchers at the same time: a voucher that no two
\* overlapping requests dispute says exactly what the payments and receipts
\* that ended say of it, line by line.
THEOREM VouchersAreMoney == FinVouchersSpec => []VouchersMatchMoney
<1>1. MoneyInv => VouchersMatchMoney
  BY PaidIsTheProperty DEF MoneyInv
<1> QED BY <1>1, MoneyInitInv, MoneyStepInv, PTL DEF FinVouchersSpec

-----------------------------------------------------------------------------
(***************************************************************************)
(* Treasury                                                                *)
(***************************************************************************)
\* The types of a request, by where it is.
TreRequestType ==
  [op : TreOps, row : Accounts \cup Transfers \cup {NoRow},
   at : {"idle", "save", "from", "to", "withdraw", "deposit"},
   from : AccountRows, to : AccountRows]

OnTransfer(q) ==
  q.op \in {"request", "approve", "execute"} \/ q.at \notin {"idle", "save"} => q.row \in Transfers
OnAccount(q)  == q.op \in {"open", "freeze"} => q.row \in Accounts

Covered(row) == row.frozen <= row.balance

TreRequestOK(q) ==
  /\ q \in TreRequestType /\ OnTransfer(q) /\ OnAccount(q)
  /\ Covered(q.from) /\ Covered(q.to)

TreasuryInv == TreasuryTypeOK /\ FrozenIsCovered /\ \A r \in TreRequests : TreRequestOK(treq[r])

LEMMA TreIdleOK == TreRequestOK(TreIdle)
  BY DEF TreIdle, TreRequestOK, TreRequestType, OnTransfer, OnAccount, Covered, NoAccount,
         AccountRows, TreOps

LEMMA TreasuryInitInv == TreasuryInit => TreasuryInv
  BY TreIdleOK, TreasuryAssumption
  DEF TreasuryInit, TreasuryInv, TreasuryTypeOK, FrozenIsCovered, NoAccount, AccountRows,
      TransferStatuses, TreRequestOK, TreRequestType

(* One request changes, and what it becomes is in order.                   *)
LEMMA TreRequestReplaced ==
  ASSUME TreasuryInv, NEW r \in TreRequests, NEW new, TreRequestOK(new),
         treq' = [treq EXCEPT ![r] = new]
  PROVE  /\ treq' \in [TreRequests -> TreRequestType]
         /\ \A q \in TreRequests : TreRequestOK(treq'[q])
  BY DEF TreasuryInv, TreasuryTypeOK, TreRequestOK, TreRequestType

LEMMA ConcernsAccounts ==
  ASSUME NEW row \in Accounts \cup Transfers \cup {NoRow}
  PROVE  Concerns(row) \subseteq Accounts
  BY TreasuryAssumption DEF Concerns

LEMMA HoldingOK ==
  ASSUME NEW op \in TreOps, NEW row \in Accounts \cup Transfers, NEW new \in AccountRows,
         Covered(new),
         op \in {"request", "approve", "execute"} => row \in Transfers,
         op \in {"open", "freeze"} => row \in Accounts
  PROVE  TreRequestOK(Holding(op, row, new))
  BY DEF Holding, NoAccount, AccountRows, Covered, TreRequestOK, TreRequestType, OnTransfer, OnAccount

(* A request that reads leaves the accounts alone.                         *)
LEMMA ReadKeepsInv ==
  ASSUME TreasuryInv, NEW r \in TreRequests, NEW new, TreRequestOK(new), TreReads(r, new)
  PROVE  TreasuryInv'
<1>1. treq' \in [TreRequests -> TreRequestType] /\ \A q \in TreRequests : TreRequestOK(treq'[q])
  BY TreRequestReplaced DEF TreReads
<1>2. contended' \subseteq Accounts
  <2>1. Contends(new.row) \subseteq Accounts
    BY ConcernsAccounts DEF Contends, TreRequestOK, TreRequestType
  <2>2. QED
    BY <2>1 DEF TreReads, TreasuryInv, TreasuryTypeOK
<1>3. QED
  BY <1>1, <1>2
  DEF TreReads, TreasuryInv, TreasuryTypeOK, FrozenIsCovered, TreRequestType

(* A step inside a request leaves everything else alone.                   *)
LEMMA InsideKeepsInv ==
  ASSUME TreasuryInv, NEW r \in TreRequests, NEW new, TreRequestOK(new),
         treq' = [treq EXCEPT ![r] = new], UNCHANGED <<account, transfer, contended>>
  PROVE  TreasuryInv'
<1>1. treq' \in [TreRequests -> TreRequestType] /\ \A q \in TreRequests : TreRequestOK(treq'[q])
  BY TreRequestReplaced
<1>2. QED
  BY <1>1 DEF TreasuryInv, TreasuryTypeOK, FrozenIsCovered, TreRequestType

LEMMA TreasuryStepInv == TreasuryInv /\ [TreasuryNext]_treasuryVars => TreasuryInv'
<1>0. SUFFICES ASSUME TreasuryInv, [TreasuryNext]_treasuryVars PROVE TreasuryInv'
  OBVIOUS
<1>a. /\ account \in [Accounts -> AccountRows] /\ \A a \in Accounts : Covered(account[a])
      /\ treq \in [TreRequests -> TreRequestType] /\ \A q \in TreRequests : TreRequestOK(treq[q])
      /\ transfer \in [Transfers -> TransferStatuses]
      /\ contended \subseteq Accounts
  BY <1>0 DEF TreasuryInv, TreasuryTypeOK, FrozenIsCovered, Covered, TreRequestOK, TreRequestType
<1>b. /\ Opening \in [Accounts -> Nat]
      /\ \A t \in Transfers : /\ Carries[t].from \in Accounts /\ Carries[t].to \in Accounts
                              /\ Carries[t].amount \in Nat /\ Carries[t].from # Carries[t].to
      /\ Freezes \subseteq Nat
  BY TreasuryAssumption
<1>1. ASSUME NEW r \in TreRequests, NEW a \in Accounts, ReadOpen(r, a) PROVE TreasuryInv'
  <2>1. AccountRow(Opening[a], 0) \in AccountRows /\ Covered(AccountRow(Opening[a], 0))
    BY <1>b DEF AccountRow, AccountRows, Covered
  <2>2. TreRequestOK(Holding("open", a, AccountRow(Opening[a], 0)))
    BY <2>1, HoldingOK DEF TreOps
  <2>3. QED
    BY <1>0, <1>1, <2>2, ReadKeepsInv DEF ReadOpen
<1>2. ASSUME NEW r \in TreRequests, NEW a \in Accounts, NEW n \in Freezes,
             ReadFreeze(r, a, n) \/ ReadUnfreeze(r, a, n)
      PROVE TreasuryInv'
  <2> DEFINE more == AccountRow(account[a].balance, account[a].frozen + n)
             less == AccountRow(account[a].balance, account[a].frozen - n)
  <2>0. n \in Nat /\ account[a].balance \in Nat /\ account[a].frozen \in Nat /\ Covered(account[a])
    BY <1>a, <1>b DEF AccountRows
  <2>1. CASE ReadFreeze(r, a, n)
    <3>1. more \in AccountRows /\ Covered(more)
      BY <2>0, <2>1 DEF ReadFreeze, MayFreeze, AccountRow, AccountRows, Covered
    <3>2. TreRequestOK(Holding("freeze", a, more))
      BY <3>1, HoldingOK DEF TreOps
    <3>3. QED
      BY <1>0, <2>1, <3>2, ReadKeepsInv DEF ReadFreeze
  <2>2. CASE ReadUnfreeze(r, a, n)
    <3>1. less \in AccountRows /\ Covered(less)
      BY <2>0, <2>2 DEF ReadUnfreeze, MayUnfreeze, AccountRow, AccountRows, Covered
    <3>2. TreRequestOK(Holding("freeze", a, less))
      BY <3>1, HoldingOK DEF TreOps
    <3>3. QED
      BY <1>0, <2>2, <3>2, ReadKeepsInv DEF ReadUnfreeze
  <2>3. QED
    BY <1>2, <2>1, <2>2
<1>3. ASSUME NEW r \in TreRequests, NEW t \in Transfers,
             ReadRequest(r, t) \/ ReadApprove(r, t) \/ ReadExecute(r, t)
      PROVE TreasuryInv'
  <2>1. NoAccount \in AccountRows /\ Covered(NoAccount)
    BY DEF NoAccount, AccountRows, Covered
  <2>2. \A op \in {"request", "approve", "execute"} : TreRequestOK(Holding(op, t, NoAccount))
    BY <2>1, HoldingOK DEF TreOps
  <2>3. QED
    BY <1>0, <1>3, <2>2, ReadKeepsInv DEF ReadRequest, ReadApprove, ReadExecute
<1>4. ASSUME NEW r \in TreRequests, SaveAccount(r) PROVE TreasuryInv'
  <2>1. treq' \in [TreRequests -> TreRequestType] /\ \A q \in TreRequests : TreRequestOK(treq'[q])
    BY <1>0, <1>4, TreIdleOK, TreRequestReplaced DEF SaveAccount, TreEnds
  <2>2. TreRequestOK(treq[r])
    BY <1>a
  <2>3. account' \in [Accounts -> AccountRows] /\ \A a \in Accounts : Covered(account'[a])
    BY <1>a, <1>4, <2>2 DEF SaveAccount, TreRequestOK, TreRequestType, Covered
  <2>4. QED
    BY <1>a, <1>4, <2>1, <2>3
    DEF SaveAccount, TreasuryInv, TreasuryTypeOK, FrozenIsCovered, Covered, TreRequestType
<1>5. ASSUME NEW r \in TreRequests, SaveTransfer(r) PROVE TreasuryInv'
  <2>1. treq' \in [TreRequests -> TreRequestType] /\ \A q \in TreRequests : TreRequestOK(treq'[q])
    BY <1>0, <1>5, TreIdleOK, TreRequestReplaced DEF SaveTransfer, TreEnds
  <2>2. transfer' \in [Transfers -> TransferStatuses]
    BY <1>a, <1>5 DEF SaveTransfer, TransferStatuses
  <2>3. QED
    BY <1>a, <1>5, <2>1, <2>2
    DEF SaveTransfer, TreasuryInv, TreasuryTypeOK, FrozenIsCovered, Covered, TreRequestType
<1>6. ASSUME NEW r \in TreRequests, SaveExecuting(r) PROVE TreasuryInv'
  <2> DEFINE new == [treq[r] EXCEPT !.at = "from"]
  <2>1. TreRequestOK(new)
    BY <1>a, <1>6 DEF SaveExecuting, TreRequestOK, TreRequestType, OnTransfer, OnAccount, Covered
  <2>2. treq' = [treq EXCEPT ![r] = new]
    BY <1>6 DEF SaveExecuting, TreGoto
  <2>3. QED
    BY <1>0, <1>6, <2>1, <2>2, InsideKeepsInv DEF SaveExecuting
<1>7. ASSUME NEW r \in TreRequests, ReadFrom(r) PROVE TreasuryInv'
  <2> DEFINE row == account[Carries[treq[r].row].from]
             new == [treq[r] EXCEPT !.at = "to", !.from = row]
  <2>1. treq[r].row \in Transfers /\ row \in AccountRows /\ Covered(row)
    BY <1>a, <1>b, <1>7 DEF ReadFrom, TreRequestOK, OnTransfer
  <2>2. TreRequestOK(new)
    <3> HIDE DEF row
    <3>1. QED
      BY <1>a, <1>7, <2>1 DEF TreRequestOK, TreRequestType, OnTransfer, OnAccount, Covered
  <2>3. treq' = [treq EXCEPT ![r] = new]
    BY <1>a, <1>7 DEF ReadFrom
  <2>4. QED
    BY <1>0, <1>7, <2>2, <2>3, InsideKeepsInv DEF ReadFrom
<1>8. ASSUME NEW r \in TreRequests, ReadTo(r) PROVE TreasuryInv'
  <2> DEFINE n == Carries[treq[r].row].amount
             row == account[Carries[treq[r].row].to]
             from == treq[r].from
             less == AccountRow(from.balance - n, from.frozen)
             more == AccountRow(row.balance + n, row.frozen)
             new == [treq[r] EXCEPT !.at = "withdraw", !.from = less, !.to = more]
  <2>1. /\ treq[r].row \in Transfers /\ row \in AccountRows /\ Covered(row)
        /\ from \in AccountRows /\ Covered(from)
        /\ n \in Nat /\ MayWithdraw(from, n)
    BY <1>a, <1>b, <1>8 DEF ReadTo, TreRequestOK, TreRequestType, OnTransfer
  <2>2. less \in AccountRows /\ Covered(less) /\ more \in AccountRows /\ Covered(more)
    <3> HIDE DEF row, from, n
    <3>1. QED
      BY <2>1 DEF AccountRow, AccountRows, Covered, MayWithdraw, Available
  <2>3. TreRequestOK(new)
    <3> HIDE DEF less, more
    <3>1. QED
      BY <1>a, <2>1, <2>2 DEF TreRequestOK, TreRequestType, OnTransfer, OnAccount
  <2>4. treq' = [treq EXCEPT ![r] = new]
    BY <1>a, <1>8 DEF ReadTo
  <2>5. QED
    BY <1>0, <1>8, <2>3, <2>4, InsideKeepsInv DEF ReadTo
<1>9. ASSUME NEW r \in TreRequests, SaveWithdrawn(r) PROVE TreasuryInv'
  <2> DEFINE new == [treq[r] EXCEPT !.at = "deposit"]
  <2>1. TreRequestOK(new)
    BY <1>a, <1>9 DEF SaveWithdrawn, TreRequestOK, TreRequestType, OnTransfer, OnAccount, Covered
  <2>2. treq' = [treq EXCEPT ![r] = new]
    BY <1>9 DEF SaveWithdrawn, TreGoto
  <2>3. QED
    BY <1>0, <1>9, <2>1, <2>2, InsideKeepsInv DEF SaveWithdrawn
<1>10. ASSUME NEW r \in TreRequests, SaveDeposited(r) PROVE TreasuryInv'
  <2>1. treq' \in [TreRequests -> TreRequestType] /\ \A q \in TreRequests : TreRequestOK(treq'[q])
    BY <1>0, <1>10, TreIdleOK, TreRequestReplaced DEF SaveDeposited, TreEnds
  <2>2. TreRequestOK(treq[r])
    BY <1>a
  <2>3. account' \in [Accounts -> AccountRows] /\ \A a \in Accounts : Covered(account'[a])
    BY <1>a, <1>10, <2>2 DEF SaveDeposited, TreRequestOK, TreRequestType, Covered
  <2>4. transfer' \in [Transfers -> TransferStatuses]
    BY <1>a, <1>10 DEF SaveDeposited, TransferStatuses
  <2>5. QED
    BY <1>a, <1>10, <2>1, <2>3, <2>4
    DEF SaveDeposited, TreasuryInv, TreasuryTypeOK, FrozenIsCovered, Covered, TreRequestType
<1>11. ASSUME NEW r \in TreRequests, TreRollback(r) PROVE TreasuryInv'
  BY <1>0, <1>11, TreIdleOK, InsideKeepsInv DEF TreRollback, TreEnds
<1>12. CASE UNCHANGED treasuryVars
  BY <1>0, <1>12
  DEF treasuryVars, TreasuryInv, TreasuryTypeOK, FrozenIsCovered
<1>13. QED
  BY <1>0, <1>1, <1>2, <1>3, <1>4, <1>5, <1>6, <1>7, <1>8, <1>9, <1>10, <1>11, <1>12
  DEF TreasuryNext, TreasuryStep

(* However freezes and transfers overwrite each other, an account never    *)
(* has more frozen than it holds (treasury_account_aggregate 52-102).      *)
THEOREM FrozenMoneyIsCovered == TreasurySpec => []FrozenIsCovered
<1>1. TreasuryInv => FrozenIsCovered
  BY DEF TreasuryInv
<1>2. QED
  BY <1>1, TreasuryInitInv, TreasuryStepInv, PTL DEF TreasurySpec

-----------------------------------------------------------------------------
(***************************************************************************)
(* Balances and transfers.  An account that no two requests contend for is *)
(* still as the one request about it has read it, so that what the request *)
(* writes is the balance and what the transfer moves.                      *)
(***************************************************************************)
Movements(a) == [t \in Transfers |-> Moved(t, a)]
Books(a) == SumFunctionOnSet(Movements(a), Transfers)

Balanced ==
  \A a \in Accounts \ contended :
    account[a].open => account[a].balance = Opening[a] + Books(a)

\* Requests that overlap on an account have it contended.
Apart ==
  \A q, r \in TreRequests :
    q # r => Concerns(treq[q].row) \cap Concerns(treq[r].row) \subseteq contended

\* What a request writes back is an open account.
WritesOpen(q) ==
  /\ q.at = "save" /\ q.op \in {"open", "freeze"} => q.from.open
  /\ q.at \in {"withdraw", "deposit"} => q.from.open /\ q.to.open

\* What a request knows of an account that is its alone.
KnowsAccount(q, a) ==
  /\ q.at = "save" /\ q.op = "open" => ~ account[a].open /\ q.from.balance = Opening[a]
  /\ q.at = "save" /\ q.op = "freeze" => account[a].open /\ q.from.balance = account[a].balance

KnowsTransfer(q, a) ==
  /\ transfer[q.row] # "SUCCESS"
  /\ q.at = "to" /\ a = Carries[q.row].from =>
       account[a].open /\ q.from.balance = account[a].balance
  /\ q.at \in {"withdraw", "deposit"} /\ a = Carries[q.row].from =>
       account[a].open /\ q.from.balance = account[a].balance - Carries[q.row].amount
  /\ q.at \in {"withdraw", "deposit"} /\ a = Carries[q.row].to =>
       account[a].open /\ q.to.balance = account[a].balance + Carries[q.row].amount

Knows(q, a) ==
  /\ q.row \in Accounts => KnowsAccount(q, a)
  /\ q.row \in Transfers => KnowsTransfer(q, a)

Knowing(r) ==
  WritesOpen(treq[r]) /\ \A a \in Concerns(treq[r].row) \ contended : Knows(treq[r], a)

KnowWhatIsTheirs == \A r \in TreRequests : Knowing(r)

\* Money has moved between accounts that are open.
MovedIsOpen ==
  \A t \in Transfers : transfer[t] = "SUCCESS" =>
    account[Carries[t].from].open /\ account[Carries[t].to].open

BooksInv == TreasuryInv /\ Apart /\ KnowWhatIsTheirs /\ MovedIsOpen /\ Balanced

LEMMA BalancedIsTheProperty == Balanced <=> BalancesMatchTransfers
<1>1. \A a : SumFunction([t \in Transfers |-> Moved(t, a)]) = Books(a)
  BY DEF SumFunction, Books, Movements
<1> QED BY <1>1 DEF Balanced, BalancesMatchTransfers

LEMMA MovedType ==
  ASSUME NEW a \in Accounts PROVE \A t \in Transfers : Moved(t, a) \in Int /\ Moved(t, a)' \in Int
  BY TreasuryAssumption DEF Moved

LEMMA MovedNothing ==
  ASSUME NEW a \in Accounts, NEW t \in Transfers, a \notin Concerns(t) PROVE Moved(t, a) = 0 /\ Moved(t, a)' = 0
  BY DEF Moved, Concerns

LEMMA BooksZero ==
  ASSUME NEW a \in Accounts, \A t \in Transfers : Moved(t, a) = 0
  PROVE  Books(a) = 0
<1>1. \A t \in Transfers : Movements(a)[t] = 0
  BY DEF Movements
<1> QED BY <1>1, SumZero, TreasuryAssumption DEF Books

LEMMA BooksType == ASSUME NEW a \in Accounts PROVE Books(a) \in Int
<1>1. \A t \in Transfers : Movements(a)[t] \in Int
  BY MovedType DEF Movements
<1> QED BY <1>1, SumType, TreasuryAssumption DEF Books

LEMMA BooksSame ==
  ASSUME NEW a \in Accounts, \A t \in Transfers : Moved(t, a)' = Moved(t, a)
  PROVE  Books(a)' = Books(a)
<1>1. Movements(a)' = Movements(a)
  BY DEF Movements
<1> QED BY <1>1 DEF Books

LEMMA BooksChange ==
  ASSUME NEW a \in Accounts, NEW s \in Transfers, Moved(s, a) = 0,
         \A t \in Transfers \ {s} : Moved(t, a)' = Moved(t, a)
  PROVE  Books(a)' = Books(a) + Moved(s, a)'
<1> DEFINE f == Movements(a)
           g == [t \in Transfers |-> Moved(t, a)']
<1>1. /\ \A t \in Transfers : f[t] \in Int /\ g[t] \in Int
      /\ \A t \in Transfers \ {s} : g[t] = f[t]
      /\ f[s] = 0 /\ g[s] = Moved(s, a)'
  BY MovedType DEF Movements
<1>2. Books(a) = SumFunctionOnSet(f, Transfers) /\ Books(a)' = SumFunctionOnSet(g, Transfers)
  BY DEF Books, Movements
<1> HIDE DEF f, g
<1>3. SumFunctionOnSet(g, Transfers) = SumFunctionOnSet(f, Transfers) - f[s] + g[s]
  BY <1>1, SumChanges, TreasuryAssumption
<1>4. SumFunctionOnSet(f, Transfers) \in Int /\ g[s] \in Int
  BY <1>1, SumType, TreasuryAssumption
<1> QED BY <1>1, <1>2, <1>3, <1>4

LEMMA ConcernsOf ==
  /\ \A a \in Accounts : Concerns(a) = {a}
  /\ \A t \in Transfers : Concerns(t) = {Carries[t].from, Carries[t].to}
  /\ Concerns(NoRow) = {}
  BY TreasuryAssumption DEF Concerns

LEMMA BooksInitInv == TreasuryInit => BooksInv
<1> SUFFICES ASSUME TreasuryInit PROVE BooksInv
  OBVIOUS
<1>1. \A r \in TreRequests : treq[r] = TreIdle
  BY DEF TreasuryInit
<1>2. Apart /\ KnowWhatIsTheirs
  BY <1>1, ConcernsOf DEF Apart, KnowWhatIsTheirs, Knowing, WritesOpen, TreIdle
<1>3. MovedIsOpen /\ Balanced
  BY DEF TreasuryInit, MovedIsOpen, Balanced, NoAccount
<1> QED BY <1>2, <1>3, TreasuryInitInv DEF BooksInv

\* What the other requests know stays true when one works on its own rows.
LEMMA OthersKnow ==
  ASSUME TreasuryInv, Apart, KnowWhatIsTheirs, NEW r \in TreRequests, NEW new,
         treq' = [treq EXCEPT ![r] = new], new.row = treq[r].row \/ new = TreIdle,
         contended' = contended,
         \A a \in Accounts \ Concerns(treq[r].row) : account'[a] = account[a],
         \A t \in Transfers : t # treq[r].row => transfer'[t] = transfer[t],
         WritesOpen(new), \A a \in Concerns(new.row) \ contended : Knows(new, a)'
  PROVE  Apart' /\ KnowWhatIsTheirs'
<1>1. \A q \in TreRequests : treq'[q] = IF q = r THEN new ELSE treq[q]
  BY DEF TreasuryInv, TreasuryTypeOK
<1>2. Concerns(new.row) \subseteq Concerns(treq[r].row)
  BY ConcernsOf DEF TreIdle
<1>3. \A q \in TreRequests : treq[q] \in TreRequestType /\ Concerns(treq[q].row) \subseteq Accounts
  BY ConcernsAccounts DEF TreasuryInv, TreasuryTypeOK, TreRequestType
<1>4. Apart'
  <2>1. \A q \in TreRequests : Concerns(treq'[q].row) \subseteq Concerns(treq[q].row)
    BY <1>1, <1>2
  <2>2. \A q, p \in TreRequests : q # p =>
           Concerns(treq'[q].row) \cap Concerns(treq'[p].row) \subseteq contended
    BY <2>1 DEF Apart
  <2> QED BY <2>2 DEF Apart, Concerns
<1>5. ASSUME NEW q \in TreRequests PROVE Knowing(q)'
  <2>1. CASE q = r
    <3>1. treq'[q] = new
      BY <2>1, <1>1
    <3> QED BY <3>1 DEF Knowing, WritesOpen, Concerns, Knows, KnowsAccount, KnowsTransfer
  <2>2. CASE q # r
    <3>1. treq'[q] = treq[q] /\ Knowing(q)
      BY <2>2, <1>1 DEF KnowWhatIsTheirs
    <3>2. ASSUME NEW a \in Concerns(treq[q].row) \ contended PROVE Knows(treq[q], a)'
      <4>1. Knows(treq[q], a)
        BY <3>1 DEF Knowing
      <4>2. a \notin Concerns(treq[r].row) /\ a \in Accounts
        BY <2>2, <1>3 DEF Apart
      <4>3. account'[a] = account[a] /\ treq[q].row # treq[r].row
        BY <4>2
      <4>4. treq[q].row \in Transfers => transfer'[treq[q].row] = transfer[treq[q].row]
        BY <4>3
      <4> QED BY <3>1, <4>1, <4>3, <4>4 DEF Knows, KnowsAccount, KnowsTransfer
    <3> QED BY <3>1, <3>2 DEF Knowing, WritesOpen, Concerns
  <2> QED BY <2>1, <2>2
<1> QED BY <1>4, <1>5 DEF KnowWhatIsTheirs

\* A request that begins, on rows it has just read.
LEMMA ReadKnows ==
  ASSUME BooksInv, NEW r \in TreRequests, NEW new, TreRequestOK(new), TreReads(r, new),
         WritesOpen(new), \A a \in Concerns(new.row) \ contended : Knows(new, a)
  PROVE  BooksInv'
<1>0. TreasuryInv' /\ contended \subseteq contended' /\ account' = account /\ transfer' = transfer
  BY ReadKeepsInv DEF BooksInv, TreReads
<1>1. \A q \in TreRequests : treq'[q] = IF q = r THEN new ELSE treq[q]
  BY DEF BooksInv, TreasuryInv, TreasuryTypeOK, TreReads
<1>2. Apart'
  <2>1. \A q \in TreRequests : Concerns(new.row) \cap Concerns(treq[q].row) \subseteq contended'
    BY DEF TreReads, Contends
  <2>2. \A q, p \in TreRequests : q # p =>
           Concerns(treq'[q].row) \cap Concerns(treq'[p].row) \subseteq contended'
    BY <1>0, <1>1, <2>1 DEF Apart, BooksInv
  <2> QED BY <2>2 DEF Apart, Concerns
<1>3. ASSUME NEW q \in TreRequests PROVE Knowing(q)'
  <2>1. CASE q = r
    <3>1. treq'[q] = new
      BY <2>1, <1>1
    <3> QED BY <3>1, <1>0 DEF Knowing, WritesOpen, Concerns, Knows, KnowsAccount, KnowsTransfer
  <2>2. CASE q # r
    <3>1. treq'[q] = treq[q] /\ Knowing(q)
      BY <2>2, <1>1 DEF KnowWhatIsTheirs, BooksInv
    <3> QED BY <3>1, <1>0 DEF Knowing, WritesOpen, Concerns, Knows, KnowsAccount, KnowsTransfer
  <2> QED BY <2>1, <2>2
<1>4. MovedIsOpen'
  BY <1>0 DEF MovedIsOpen, BooksInv
<1>5. Balanced'
  <2>1. \A a : Books(a)' = Books(a)
    BY <1>0 DEF Books, Movements, Moved
  <2> QED BY <2>1, <1>0 DEF Balanced, BooksInv
<1> QED BY <1>0, <1>2, <1>3, <1>4, <1>5 DEF BooksInv, KnowWhatIsTheirs

LEMMA BooksReadInv ==
  ASSUME BooksInv, NEW r \in TreRequests,
         \/ \E a \in Accounts : ReadOpen(r, a)
         \/ \E a \in Accounts, n \in Freezes : ReadFreeze(r, a, n) \/ ReadUnfreeze(r, a, n)
         \/ \E t \in Transfers : ReadRequest(r, t) \/ ReadApprove(r, t) \/ ReadExecute(r, t)
  PROVE  BooksInv'
<1>1. TreasuryInv'
  BY TreasuryStepInv DEF BooksInv, TreasuryNext, TreasuryStep
<1>2. \A new : TreReads(r, new) => TreRequestOK(new)
  <2> SUFFICES ASSUME NEW new, TreReads(r, new) PROVE TreRequestOK(new)
    OBVIOUS
  <2>1. treq'[r] = new
    BY DEF TreReads, BooksInv, TreasuryInv, TreasuryTypeOK
  <2>2. TreRequestOK(treq[r])'
    BY <1>1 DEF TreasuryInv
  <2> QED BY <2>1, <2>2 DEF TreRequestOK, OnTransfer, OnAccount, Covered
<1> USE DEF Holding, WritesOpen, AccountRow, NoAccount
<1>3. ASSUME NEW a \in Accounts, NEW new, TreReads(r, new), new.row = a, WritesOpen(new),
             KnowsAccount(new, a)
      PROVE  BooksInv'
  <2>1. \A b \in Concerns(new.row) \ contended : Knows(new, b)
    BY <1>3, ConcernsOf, TreasuryAssumption DEF Knows
  <2> QED BY <1>2, <1>3, <2>1, ReadKnows
<1>4. ASSUME NEW t \in Transfers, NEW op \in {"request", "approve", "execute"},
             TreReads(r, Holding(op, t, NoAccount)), transfer[t] # "SUCCESS"
      PROVE  BooksInv'
  <2> DEFINE new == Holding(op, t, NoAccount)
  <2>1. new.row = t /\ new.at = "save" /\ new.op = op
    OBVIOUS
  <2> HIDE DEF new
  <2>2. \A b \in Concerns(new.row) \ contended : Knows(new, b)
    BY <1>4, <2>1, TreasuryAssumption DEF Knows, KnowsTransfer
  <2>3. WritesOpen(new) /\ TreReads(r, new)
    BY <1>4, <2>1 DEF new
  <2> QED BY <1>2, <2>2, <2>3, ReadKnows
<1>5. ASSUME NEW a \in Accounts, ReadOpen(r, a) PROVE BooksInv'
  BY <1>3, <1>5 DEF ReadOpen, KnowsAccount
<1>6. ASSUME NEW a \in Accounts, NEW n \in Freezes, ReadFreeze(r, a, n) \/ ReadUnfreeze(r, a, n)
      PROVE BooksInv'
  BY <1>3, <1>6 DEF ReadFreeze, ReadUnfreeze, KnowsAccount
<1>7. ASSUME NEW t \in Transfers, ReadRequest(r, t) \/ ReadApprove(r, t) \/ ReadExecute(r, t)
      PROVE BooksInv'
  BY <1>4, <1>7 DEF ReadRequest, ReadApprove, ReadExecute
<1> QED BY <1>5, <1>6, <1>7

\* A step inside a request, which changes no row.
LEMMA BooksInsideInv ==
  ASSUME BooksInv, NEW r \in TreRequests, NEW new, TreRequestOK(new),
         treq' = [treq EXCEPT ![r] = new], UNCHANGED <<account, transfer, contended>>,
         new.row = treq[r].row \/ new = TreIdle,
         WritesOpen(new), \A a \in Concerns(new.row) \ contended : Knows(new, a)
  PROVE  BooksInv'
<1>1. TreasuryInv'
  BY InsideKeepsInv DEF BooksInv
<1>2. \A a \in Concerns(new.row) \ contended : Knows(new, a)'
  BY DEF Knows, KnowsAccount, KnowsTransfer
<1>3. Apart' /\ KnowWhatIsTheirs'
  BY <1>2, OthersKnow DEF BooksInv
<1>4. MovedIsOpen' /\ \A a : Books(a)' = Books(a)
  BY DEF MovedIsOpen, BooksInv, Books, Movements, Moved
<1> QED BY <1>1, <1>3, <1>4 DEF Balanced, BooksInv

\* A request that ends has rows no more.
LEMMA IdleKnows ==
  WritesOpen(TreIdle) /\ Concerns(TreIdle.row) = {}
  BY ConcernsOf DEF WritesOpen, TreIdle

LEMMA NoBooksBeforeOpen ==
  ASSUME BooksInv, NEW a \in Accounts, ~ account[a].open
  PROVE  Books(a) = 0
<1>1. \A t \in Transfers : Moved(t, a) = 0
  BY DEF BooksInv, MovedIsOpen, Moved
<1> QED BY <1>1, BooksZero

LEMMA BooksAccountInv ==
  ASSUME BooksInv, NEW r \in TreRequests, SaveAccount(r) PROVE BooksInv'
<1> DEFINE q == treq[r]
           a == q.row
<1>1. /\ TreasuryInv /\ TreRequestOK(q) /\ a \in Accounts /\ Knowing(r) /\ q.from.open
      /\ account \in [Accounts -> AccountRows]
  BY DEF BooksInv, TreasuryInv, TreasuryTypeOK, TreRequestOK, OnAccount, SaveAccount,
         KnowWhatIsTheirs, Knowing, WritesOpen
<1>2. TreasuryInv'
  BY TreasuryStepInv DEF BooksInv, TreasuryNext, TreasuryStep
<1>3. /\ \A b \in Accounts : account'[b] = IF b = a THEN q.from ELSE account[b]
      /\ transfer' = transfer /\ contended' = contended /\ treq' = [treq EXCEPT ![r] = TreIdle]
  BY <1>1 DEF SaveAccount, TreEnds
<1>4. Apart' /\ KnowWhatIsTheirs'
  <2>1. \A b \in Accounts \ Concerns(q.row) : account'[b] = account[b]
    BY <1>1, <1>3, ConcernsOf
  <2> QED BY <1>3, <2>1, IdleKnows, OthersKnow DEF BooksInv
<1>5. MovedIsOpen'
  BY <1>1, <1>3, TreasuryAssumption DEF BooksInv, MovedIsOpen
<1>6. \A b : Books(b)' = Books(b)
  BY <1>3 DEF Books, Movements, Moved
<1>7. ASSUME NEW b \in Accounts \ contended, account'[b].open
      PROVE  account'[b].balance = Opening[b] + Books(b)
  <2>1. CASE b = a
    <3>1. a \in Concerns(q.row) /\ a \notin Transfers
      BY <1>1, ConcernsOf, TreasuryAssumption
    <3>2. KnowsAccount(q, a)
      BY <1>1, <1>7, <2>1, <3>1 DEF Knowing, Knows
    <3>3. CASE q.op = "open"
      <4>1. ~ account[a].open /\ account'[a].balance = Opening[a]
        BY <1>1, <1>3, <3>2, <3>3 DEF KnowsAccount, SaveAccount
      <4>2. Books(a) = 0 /\ Opening[a] \in Int
        BY <1>1, <4>1, NoBooksBeforeOpen, TreasuryAssumption
      <4> QED BY <2>1, <4>1, <4>2
    <3>4. CASE q.op = "freeze"
      <4>1. account[a].open /\ account'[a].balance = account[a].balance
        BY <1>1, <1>3, <3>2, <3>4 DEF KnowsAccount, SaveAccount
      <4> QED BY <2>1, <4>1, <1>7 DEF BooksInv, Balanced
    <3> QED BY <3>3, <3>4 DEF SaveAccount
  <2>2. CASE b # a
    BY <1>3, <1>7, <2>2 DEF BooksInv, Balanced
  <2> QED BY <2>1, <2>2
<1>8. Balanced'
  BY <1>3, <1>6, <1>7 DEF Balanced
<1> QED BY <1>2, <1>4, <1>5, <1>8 DEF BooksInv

\* A transfer that is requested or approved has moved nothing.
LEMMA BooksTransferInv ==
  ASSUME BooksInv, NEW r \in TreRequests, SaveTransfer(r), NEW s, s = treq[r].row
  PROVE  BooksInv'
<1> DEFINE q == treq[r]
<1>1. /\ TreasuryInv /\ TreRequestOK(q) /\ s \in Transfers /\ Knowing(r)
      /\ transfer \in [Transfers -> TransferStatuses]
  BY DEF BooksInv, TreasuryInv, TreasuryTypeOK, TreRequestOK, OnTransfer, SaveTransfer,
         KnowWhatIsTheirs
<1>2. TreasuryInv'
  BY TreasuryStepInv DEF BooksInv, TreasuryNext, TreasuryStep
<1>3. /\ \A t \in Transfers : t # s => transfer'[t] = transfer[t]
      /\ transfer'[s] # "SUCCESS"
      /\ account' = account /\ contended' = contended /\ treq' = [treq EXCEPT ![r] = TreIdle]
  BY <1>1 DEF SaveTransfer, TreEnds
<1>4. Apart' /\ KnowWhatIsTheirs'
  BY <1>3, IdleKnows, OthersKnow DEF BooksInv
<1>5. MovedIsOpen'
  BY <1>1, <1>3 DEF BooksInv, MovedIsOpen
<1>6. ASSUME NEW b \in Accounts \ contended PROVE Books(b)' = Books(b)
  <2>1. Moved(s, b)' = Moved(s, b)
    <3>1. CASE b \in Concerns(s)
      <4>1. transfer[s] # "SUCCESS"
        BY <1>1, <1>6, <3>1 DEF Knowing, Knows, KnowsTransfer
      <4> QED BY <4>1, <1>3 DEF Moved
    <3>2. CASE b \notin Concerns(s)
      BY <1>1, <3>2, MovedNothing
    <3> QED BY <3>1, <3>2
  <2>2. \A t \in Transfers : Moved(t, b)' = Moved(t, b)
    BY <2>1, <1>3 DEF Moved
  <2> QED BY <2>2, BooksSame
<1>7. Balanced'
  BY <1>3, <1>6 DEF BooksInv, Balanced
<1> QED BY <1>2, <1>4, <1>5, <1>7 DEF BooksInv

\* Both accounts are written with what the transfer moves, and the transfer.
LEMMA BooksDepositInv ==
  ASSUME BooksInv, NEW r \in TreRequests, SaveDeposited(r), NEW s, s = treq[r].row
  PROVE  BooksInv'
<1> DEFINE q == treq[r]
           x == Carries[s].from
           y == Carries[s].to
           n == Carries[s].amount
<1>1. /\ TreasuryInv /\ TreRequestOK(q) /\ s \in Transfers /\ Knowing(r) /\ q.at = "deposit"
      /\ q.from.open /\ q.to.open
      /\ account \in [Accounts -> AccountRows] /\ transfer \in [Transfers -> TransferStatuses]
  BY DEF BooksInv, TreasuryInv, TreasuryTypeOK, TreRequestOK, OnTransfer, SaveDeposited,
         KnowWhatIsTheirs, Knowing, WritesOpen
<1>2. TreasuryInv'
  BY TreasuryStepInv DEF BooksInv, TreasuryNext, TreasuryStep
<1>0. x \in Accounts /\ y \in Accounts /\ x # y /\ n \in Nat /\ Concerns(s) = {x, y}
  BY <1>1, TreasuryAssumption, ConcernsOf
<1>3. /\ \A b \in Accounts : account'[b] = IF b = y THEN q.to ELSE IF b = x THEN q.from ELSE account[b]
      /\ \A t \in Transfers : transfer'[t] = IF t = s THEN "SUCCESS" ELSE transfer[t]
      /\ contended' = contended /\ treq' = [treq EXCEPT ![r] = TreIdle]
  BY <1>0, <1>1 DEF SaveDeposited, TreEnds
<1>4. Apart' /\ KnowWhatIsTheirs'
  <2>1. \A b \in Accounts \ Concerns(q.row) : account'[b] = account[b]
    BY <1>0, <1>3
  <2> QED BY <1>3, <2>1, IdleKnows, OthersKnow DEF BooksInv
<1>5. MovedIsOpen'
  <2>1. \A b \in Accounts : account[b].open => account'[b].open
    BY <1>1, <1>3
  <2> QED BY <1>0, <1>1, <1>3, <2>1, TreasuryAssumption DEF BooksInv, MovedIsOpen
<1>6. ASSUME NEW b \in Accounts \ contended, account'[b].open
      PROVE  account'[b].balance = Opening[b] + Books(b)'
  <2>1. \A t \in Transfers \ {s} : Moved(t, b)' = Moved(t, b)
    BY <1>3 DEF Moved
  <2>2. CASE b \in {x, y}
    <3>1. transfer[s] # "SUCCESS" /\ KnowsTransfer(q, b)
      BY <1>0, <1>1, <1>6, <2>2 DEF Knowing, Knows, KnowsTransfer
    <3>2. Moved(s, b) = 0
      BY <3>1 DEF Moved
    <3>3. Moved(s, b)' = IF b = y THEN n ELSE - n
      BY <1>0, <1>1, <1>3, <2>2 DEF Moved
    <3>4. account[b].open /\ account'[b].balance = account[b].balance + Moved(s, b)'
      <4>1. account[b].balance \in Nat
        BY <1>1 DEF AccountRows
      <4>2. CASE b = y
        BY <1>0, <1>1, <1>3, <3>1, <3>3, <4>2 DEF KnowsTransfer
      <4>3. CASE b = x
        <5>1. account[b].open /\ q.from.balance = account[b].balance - n
          BY <1>1, <3>1, <4>3 DEF KnowsTransfer
        <5>2. account'[b] = q.from /\ Moved(s, b)' = - n
          BY <1>0, <1>3, <3>3, <4>3
        <5> QED BY <1>0, <4>1, <5>1, <5>2
      <4> QED BY <2>2, <4>2, <4>3
    <3>5. account[b].balance = Opening[b] + Books(b)
      BY <3>4, <1>6 DEF BooksInv, Balanced
    <3>6. Books(b)' = Books(b) + Moved(s, b)'
      BY <1>1, <2>1, <3>2, BooksChange
    <3>7. Books(b) \in Int /\ Opening[b] \in Int /\ Moved(s, b)' \in Int
      BY <1>0, <1>1, <3>3, BooksType, TreasuryAssumption
    <3> QED BY <3>4, <3>5, <3>6, <3>7
  <2>3. CASE b \notin {x, y}
    <3>1. Moved(s, b)' = Moved(s, b)
      BY <1>0, <1>1, <2>3, MovedNothing
    <3>2. Books(b)' = Books(b)
      BY <2>1, <3>1, BooksSame
    <3> QED BY <1>3, <1>6, <2>3, <3>2 DEF BooksInv, Balanced
  <2> QED BY <2>2, <2>3
<1>7. Balanced'
  BY <1>3, <1>6 DEF Balanced
<1> QED BY <1>2, <1>4, <1>5, <1>7 DEF BooksInv

LEMMA BooksStepInv == BooksInv /\ [TreasuryNext]_treasuryVars => BooksInv'
<1> SUFFICES ASSUME BooksInv, [TreasuryNext]_treasuryVars PROVE BooksInv'
  OBVIOUS
<1>0. TreasuryInv'
  BY TreasuryStepInv DEF BooksInv
<1>1. ASSUME NEW r \in TreRequests, NEW new, treq' = [treq EXCEPT ![r] = new],
             UNCHANGED <<account, transfer, contended>>,
             new.row = treq[r].row \/ new = TreIdle,
             WritesOpen(new), \A a \in Concerns(new.row) \ contended : Knows(new, a)
      PROVE  BooksInv'
  <2>1. treq'[r] = new
    BY <1>1 DEF BooksInv, TreasuryInv, TreasuryTypeOK
  <2>2. TreRequestOK(treq[r])'
    BY <1>0 DEF TreasuryInv
  <2>3. TreRequestOK(new)
    BY <2>1, <2>2 DEF TreRequestOK, OnTransfer, OnAccount, Covered
  <2> QED BY <1>1, <2>3, BooksInsideInv
<1>2. ASSUME NEW r \in TreRequests PROVE treq[r] \in TreRequestType /\ Knowing(r) /\ TreRequestOK(treq[r])
  BY DEF BooksInv, TreasuryInv, TreRequestOK, KnowWhatIsTheirs
<1>3. ASSUME NEW r \in TreRequests, SaveExecuting(r) PROVE BooksInv'
  <2> DEFINE new == [treq[r] EXCEPT !.at = "from"]
  <2>1. new.at = "from" /\ new.row = treq[r].row
    BY <1>2 DEF TreRequestType
  <2>2. treq' = [treq EXCEPT ![r] = new] /\ treq[r].row \in Transfers
    BY <1>2, <1>3 DEF SaveExecuting, TreGoto, TreRequestOK, OnTransfer
  <2> HIDE DEF new
  <2>3. WritesOpen(new) /\ \A a \in Concerns(new.row) \ contended : Knows(new, a)
    BY <1>2, <2>1, <2>2, TreasuryAssumption DEF Knowing, WritesOpen, Knows, KnowsTransfer
  <2> QED BY <1>1, <1>3, <2>1, <2>2, <2>3 DEF SaveExecuting
<1>4. ASSUME NEW r \in TreRequests, ReadFrom(r) PROVE BooksInv'
  <2> DEFINE row == account[Carries[treq[r].row].from]
             new == [treq[r] EXCEPT !.at = "to", !.from = row]
  <2>1. new.at = "to" /\ new.row = treq[r].row /\ new.from = row
    BY <1>2 DEF TreRequestType
  <2>2. treq' = [treq EXCEPT ![r] = new] /\ treq[r].row \in Transfers /\ row.open
    BY <1>2, <1>4 DEF ReadFrom, TreRequestOK, OnTransfer
  <2> HIDE DEF new
  <2>3. WritesOpen(new) /\ \A a \in Concerns(new.row) \ contended : Knows(new, a)
    BY <1>2, <2>1, <2>2, TreasuryAssumption DEF Knowing, WritesOpen, Knows, KnowsTransfer
  <2> QED BY <1>1, <1>4, <2>1, <2>2, <2>3 DEF ReadFrom
<1>5. ASSUME NEW r \in TreRequests, ReadTo(r) PROVE BooksInv'
  <2> DEFINE q == treq[r]
             n == Carries[q.row].amount
             row == account[Carries[q.row].to]
             less == AccountRow(q.from.balance - n, q.from.frozen)
             more == AccountRow(row.balance + n, row.frozen)
             new == [q EXCEPT !.at = "withdraw", !.from = less, !.to = more]
  <2>1. new.at = "withdraw" /\ new.row = q.row /\ new.from = less /\ new.to = more
    BY <1>2 DEF TreRequestType
  <2>2. treq' = [treq EXCEPT ![r] = new] /\ q.row \in Transfers /\ row.open /\ q.at = "to"
    BY <1>2, <1>5 DEF ReadTo, TreRequestOK, OnTransfer
  <2> HIDE DEF new
  <2>3. /\ new.from.open /\ new.from.balance = q.from.balance - n
        /\ new.to.open /\ new.to.balance = row.balance + n
    BY <2>1 DEF AccountRow
  <2> HIDE DEF less, more
  <2>4. WritesOpen(new)
    BY <2>1, <2>3 DEF WritesOpen
  <2>5. ASSUME NEW a \in Concerns(new.row) \ contended PROVE Knows(new, a)
    <3>1. KnowsTransfer(q, a)
      BY <1>2, <2>1, <2>2 DEF Knowing, Knows
    <3>2. q.row \notin Accounts
      BY <2>2, TreasuryAssumption
    <3> QED BY <2>1, <2>2, <2>3, <3>1, <3>2 DEF Knows, KnowsTransfer
  <2> QED BY <1>1, <2>5, <1>5, <2>1, <2>2, <2>4 DEF ReadTo
<1>6. ASSUME NEW r \in TreRequests, SaveWithdrawn(r) PROVE BooksInv'
  <2> DEFINE new == [treq[r] EXCEPT !.at = "deposit"]
  <2>1. /\ new.at = "deposit" /\ new.row = treq[r].row
        /\ new.from = treq[r].from /\ new.to = treq[r].to
    BY <1>2 DEF TreRequestType
  <2>2. treq' = [treq EXCEPT ![r] = new] /\ treq[r].row \in Transfers /\ treq[r].at = "withdraw"
    BY <1>2, <1>6 DEF SaveWithdrawn, TreGoto, TreRequestOK, OnTransfer
  <2> HIDE DEF new
  <2>3. WritesOpen(new) /\ \A a \in Concerns(new.row) \ contended : Knows(new, a)
    BY <1>2, <2>1, <2>2, TreasuryAssumption DEF Knowing, WritesOpen, Knows, KnowsTransfer
  <2> QED BY <1>1, <1>6, <2>1, <2>2, <2>3 DEF SaveWithdrawn
<1>7. ASSUME NEW r \in TreRequests, TreRollback(r) PROVE BooksInv'
  BY <1>1, <1>7, IdleKnows DEF TreRollback, TreEnds
<1>8. CASE UNCHANGED treasuryVars
  <2>1. \A a : Books(a)' = Books(a)
    BY <1>8 DEF treasuryVars, Books, Movements, Moved
  <2> QED BY <1>0, <1>8, <2>1
     DEF treasuryVars, BooksInv, Apart, KnowWhatIsTheirs, Knowing, WritesOpen, Concerns, Knows,
         KnowsAccount, KnowsTransfer, MovedIsOpen, Balanced
<1> QED BY <1>3, <1>4, <1>5, <1>6, <1>7, <1>8, BooksReadInv, BooksAccountInv, BooksTransferInv,
           BooksDepositInv DEF TreasuryNext, TreasuryStep

\* Whatever fails and however many requests are under way, the balance of an
\* account that no two of them contend for is what it was opened with and the
\* transfers that succeeded; money moved is written on both sides or on none.
THEOREM BalancesAreTransfers == TreasurySpec => []BalancesMatchTransfers
<1>1. BooksInv => BalancesMatchTransfers
  BY BalancedIsTheProperty DEF BooksInv
<1> QED BY <1>1, BooksInitInv, BooksStepInv, PTL DEF TreasurySpec

-----------------------------------------------------------------------------
(***************************************************************************)
(* Documents.  A request's plan is backed by what it read, and what it     *)
(* read stays on record, since nothing but the rejection of a purchase     *)
(* return clears a column; so the mixture of two writers' columns is       *)
(* backed as well.                                                         *)
(***************************************************************************)
DocWorks ==
  [at : {"idle", "ready", "payment", "above"}, doc : Docs \cup {Null}, child : Docs \cup {Null},
   was : DocStatuses, to : DocStatuses, above : DocStatuses,
   seen : [DocColumns -> DocValues], sets : [DocColumns -> DocValues]]

\* A request writes no column back to NULL that others rely on, and what it
\* read is still there.
Remembers(w) ==
  IF Kind[w.doc] = "pur_return"
  THEN w.doc \notin contested => w.seen = docCols[w.doc] /\ w.was = docStatus[w.doc]
  ELSE \A col \in DocColumns :
         w.seen[col] # Null => docCols[w.doc][col] # Null /\ w.sets[col] # Null

PlanBacked(w) == Reliable(w.doc) => \A col \in Needed(w.to) : w.sets[col] # Null

MakesOK(w) ==
  w.child # Null =>
    /\ w.child \in Docs /\ Origin[w.child] = w.doc
    /\ Kind[w.child] = "payment" => w.to = "payment_requested"

WorkOK(w) ==
  w.at # "idle" =>
    /\ w.doc \in Docs /\ docStatus[w.doc] # "absent"
    /\ w.to \in Existing \ {"payment_completed"}
    /\ (w.at = "ready") <=> (Kind[w.doc] # "payment")
    /\ Kind[w.doc] = "payment" => w.to = "completed"
    /\ MakesOK(w) /\ Remembers(w) /\ PlanBacked(w)

WorksOK == \A r \in DocRequests : WorkOK(docWork[r])

\* Two requests about one document contest it.
OverlapIsContested ==
  \A r, q \in DocRequests :
    r # q /\ DocOpen(r) /\ DocOpen(q) /\ docWork[r].doc = docWork[q].doc
      => docWork[r].doc \in contested

ColumnsBacked ==
  \A d \in Docs : Reliable(d) => \A col \in Needed(docStatus[d]) : docCols[d][col] # Null

\* A payment exists only where its settlement has been reconciled and invoiced.
PaymentsBacked ==
  \A p \in Docs : Kind[p] = "payment" /\ docStatus[p] # "absent" =>
    \A col \in Needed("payment_completed") : docCols[Origin[p]][col] # Null

PaidByPayment ==
  \A d \in Docs : docStatus[d] = "payment_completed" =>
    \E p \in Docs : Kind[p] = "payment" /\ Origin[p] = d /\ docStatus[p] = "completed"

ApprovalsInv ==
  /\ ApprovalsTypeOK /\ WorksOK /\ OverlapIsContested
  /\ ColumnsBacked /\ PaymentsBacked /\ PaidByPayment

\* What the table says, rule by rule.
RuleOK(k, rule) ==
  /\ rule = [op |-> rule.op, from |-> rule.from, to |-> rule.to, signs |-> rule.signs]
  /\ rule.from \subseteq Existing /\ rule.to \in Existing \ {"payment_completed"}
  /\ rule.signs \subseteq DocColumns
  /\ rule.op = "clear" => k = "pur_return" /\ rule.to = "rejected"
  /\ "next" \in rule.signs => rule.op \in {"convert", "request"}
  /\ k = "payment" => rule.to = "completed"
  /\ k = "settlement" /\ rule.op \in {"quote", "convert", "request"} => rule.to = "payment_requested"
  /\ k # "customer" => \A s \in rule.from : Needed(rule.to) \subseteq Needed(s) \cup rule.signs

LEMMA RulesOK == \A k \in DocKinds : \A rule \in DocRules[k] : RuleOK(k, rule)
<1> USE DEF RuleOK, DocRule, Existing, DocStatuses, DocColumns, Needed, Decided
<1>1. \A rule \in CustomerRules : RuleOK("customer", rule) BY DEF CustomerRules
<1>2. \A rule \in QuotationRules : RuleOK("quotation", rule) BY DEF QuotationRules
<1>3. \A rule \in SalesReturnRules : RuleOK("sales_return", rule) BY DEF SalesReturnRules
<1>4. \A rule \in SettlementRules : RuleOK("settlement", rule) BY DEF SettlementRules
<1>5. \A rule \in PaymentRules : RuleOK("payment", rule) BY DEF PaymentRules
<1>6. \A rule \in PurRequestRules : RuleOK("pur_request", rule) BY DEF PurRequestRules
<1>7. \A rule \in PurOrderRules : RuleOK("pur_order", rule) BY DEF PurOrderRules
<1>8. \A rule \in PurReturnRules : RuleOK("pur_return", rule) BY DEF PurReturnRules
<1>9. \A rule \in GovernanceRules : RuleOK("governance", rule) BY DEF GovernanceRules
<1> HIDE DEF RuleOK, DocRule, Existing, DocStatuses, DocColumns, Needed, Decided
<1> QED BY <1>1, <1>2, <1>3, <1>4, <1>5, <1>6, <1>7, <1>8, <1>9 DEF DocKinds, DocRules

LEMMA NeededType == \A s \in DocStatuses : Needed(s) \subseteq DocColumns
  BY DEF Needed, DocColumns

LEMMA FirstNeedsNothing ==
  \A k \in DocKinds : FirstStatus(k) \in Existing \ {"payment_completed", "completed"} /\ Needed(FirstStatus(k)) = {}
  BY DEF FirstStatus, Needed, Decided, Existing, DocStatuses

LEMMA BlankType == Blank \in [DocColumns -> DocValues]
  BY DEF Blank, DocValues

LEMMA NoWorkOK == NoWork \in DocWorks /\ NoWork.at = "idle"
  BY BlankType DEF NoWork, Work, DocWorks, DocStatuses

LEMMA ApprovalsInitInv == ApprovalsInit => ApprovalsInv
<1> SUFFICES ASSUME ApprovalsInit PROVE ApprovalsInv
  OBVIOUS
<1>1. PICK there \in SUBSET {d \in Docs : Origin[d] = Null} :
        docStatus = [d \in Docs |-> IF d \in there THEN FirstStatus(Kind[d]) ELSE "absent"]
  BY DEF ApprovalsInit
<1>2. docStatus \in [Docs -> DocStatuses]
  BY <1>1, FirstNeedsNothing, ApprovalsAssumption DEF Existing, DocStatuses
<1>3. ApprovalsTypeOK
  BY <1>2, BlankType, NoWorkOK DEF ApprovalsInit, ApprovalsTypeOK, DocWorks
<1>4. WorksOK /\ OverlapIsContested
  BY NoWorkOK DEF ApprovalsInit, WorksOK, WorkOK, OverlapIsContested, DocOpen
<1>5. \A d \in Docs : Needed(docStatus[d]) = {} /\ docStatus[d] # "payment_completed"
  <2> SUFFICES ASSUME NEW d \in Docs
               PROVE Needed(docStatus[d]) = {} /\ docStatus[d] # "payment_completed"
    OBVIOUS
  <2>1. Needed("absent") = {}
    BY DEF Needed, Decided
  <2> QED BY <1>1, <2>1, FirstNeedsNothing, ApprovalsAssumption
<1>6. PaymentsBacked
  BY <1>1, ApprovalsAssumption DEF PaymentsBacked
<1> QED BY <1>3, <1>4, <1>5, <1>6 DEF ApprovalsInv, ColumnsBacked, PaidByPayment

LEMMA TargetsOK ==
  ASSUME NEW d \in Docs, NEW rule, NEW c \in Targets(rule, d)
  PROVE  /\ c \in Docs \cup {Null}
         /\ c # Null => c \in Docs /\ Origin[c] = d /\ rule.op \in {"quote", "convert", "request"}
         /\ rule.op \in {"quote", "convert", "request"} => c # Null
<1>1. Successors(d) \subseteq Docs /\ \A x \in Successors(d) : Origin[x] = d
  BY DEF Successors
<1>2. Candidates(d) \subseteq Successors(d)
  BY DEF Candidates
<1>3. Null \notin Docs
  BY ApprovalsAssumption
<1> QED BY <1>1, <1>2, <1>3 DEF Targets

\* The plan of a request that has just read its document.
LEMMA PlanOK ==
  ASSUME ApprovalsInv, NEW d \in Docs, NEW rule \in DocRules[Kind[d]], NEW c \in Targets(rule, d),
         NEW id \in Ids, Accepts(rule, d), NEW w \in DocWorks, w.at # "idle",
         w.doc = d, w.child = c, w.was = docStatus[d], w.to = rule.to, w.seen = docCols[d],
         w.sets = Signed(rule, d, c, id), (w.at = "ready") <=> (Kind[d] # "payment")
  PROVE  WorkOK(w)
<1>1. Kind[d] \in DocKinds /\ RuleOK(Kind[d], rule)
  BY RulesOK, ApprovalsAssumption
<1>2. docStatus[d] \in rule.from /\ docStatus[d] # "absent" /\ docStatus[d] \in DocStatuses
  BY <1>1 DEF Accepts, RuleOK, Existing
<1>3. /\ c \in Docs \cup {Null}
      /\ c # Null => c \in Docs /\ Origin[c] = d /\ rule.op \in {"quote", "convert", "request"}
      /\ rule.op \in {"quote", "convert", "request"} => c # Null
  BY TargetsOK
<1>4. id # Null
  BY ApprovalsAssumption
<1>5. \A col \in DocColumns :
        /\ col \notin rule.signs => w.sets[col] = docCols[d][col]
        /\ col \in rule.signs /\ rule.op # "clear" => w.sets[col] # Null
  BY <1>1, <1>3, <1>4 DEF Signed, RuleOK
<1>6. Remembers(w)
  BY <1>1, <1>5 DEF Remembers, RuleOK
<1>7. MakesOK(w)
  BY <1>1, <1>3, ApprovalsAssumption DEF MakesOK, RuleOK
<1>8. PlanBacked(w)
  <2>1. SUFFICES ASSUME Reliable(d), NEW col \in Needed(rule.to) PROVE w.sets[col] # Null
    BY DEF PlanBacked
  <2>2. col \in DocColumns
    BY <1>1, NeededType DEF RuleOK, Existing
  <2>3. CASE rule.op = "clear"
    BY <2>1, <2>3, <1>1 DEF RuleOK, Needed, Decided
  <2>4. CASE rule.op # "clear" /\ col \in rule.signs
    BY <2>2, <2>4, <1>5
  <2>5. CASE col \notin rule.signs
    <3>1. col \in Needed(docStatus[d])
      BY <2>1, <2>5, <1>1, <1>2 DEF RuleOK, Reliable
    <3>2. docCols[d][col] # Null
      BY <2>1, <3>1 DEF ApprovalsInv, ColumnsBacked
    <3> QED BY <2>2, <2>5, <3>2, <1>5
  <2> QED BY <2>3, <2>4, <2>5
<1> QED BY <1>1, <1>2, <1>6, <1>7, <1>8 DEF WorkOK, RuleOK

LEMMA ReadDocInv ==
  ASSUME ApprovalsInv, NEW r \in DocRequests, NEW d \in Docs, NEW rule \in DocRules[Kind[d]],
         NEW id \in Ids, NEW c \in Targets(rule, d), ReadDoc(r, d, rule, c, id)
  PROVE  ApprovalsInv'
<1> DEFINE w == Work(IF Kind[d] = "payment" THEN "payment" ELSE "ready", d, c,
                     docStatus[d], rule.to, docCols[d], Signed(rule, d, c, id))
<1>0. ApprovalsTypeOK
  BY DEF ApprovalsInv
<1>1. /\ docWork' = [docWork EXCEPT ![r] = w] /\ docStatus' = docStatus /\ docCols' = docCols
      /\ contested \subseteq contested' /\ contested' \subseteq Docs
      /\ Accepts(rule, d) /\ ~ DocOpen(r)
      /\ contested' = contested \cup (About(d) \cap AboutAny)
  BY <1>0, ApprovalsAssumption DEF ReadDoc, ApprovalsTypeOK, About
<1>2. RuleOK(Kind[d], rule) /\ c \in Docs \cup {Null} /\ id \in DocValues
  BY RulesOK, TargetsOK, ApprovalsAssumption DEF DocValues
<1>3. Signed(rule, d, c, id) \in [DocColumns -> DocValues]
  BY <1>0, <1>2 DEF Signed, ApprovalsTypeOK, DocValues
<1>4. /\ w \in DocWorks /\ w.at # "idle" /\ w.doc = d /\ w.child = c /\ w.was = docStatus[d]
      /\ w.to = rule.to /\ w.seen = docCols[d] /\ w.sets = Signed(rule, d, c, id)
      /\ (w.at = "ready") <=> (Kind[d] # "payment")
  BY <1>0, <1>2, <1>3 DEF Work, DocWorks, ApprovalsTypeOK, RuleOK, Existing, DocStatuses
<1> HIDE DEF w
<1>5. WorkOK(w)
  BY <1>1, <1>4, PlanOK
<1>6. ApprovalsTypeOK'
  BY <1>0, <1>1, <1>4 DEF ApprovalsTypeOK, DocWorks
<1>7. docWork'[r] = w /\ \A q \in DocRequests \ {r} : docWork'[q] = docWork[q]
  BY <1>0, <1>1 DEF ApprovalsTypeOK
<1>8. WorksOK'
  <2> SUFFICES ASSUME NEW q \in DocRequests PROVE WorkOK(docWork[q])'
    BY DEF WorksOK
  <2>1. WorkOK(docWork'[q])
    BY <1>5, <1>7 DEF ApprovalsInv, WorksOK
  <2> DEFINE v == docWork'[q]
  <2>2. ASSUME v.at # "idle" PROVE MakesOK(docWork[q])' /\ Remembers(docWork[q])' /\ PlanBacked(docWork[q])'
    BY <2>1, <2>2, <1>1 DEF WorkOK, MakesOK, Remembers, PlanBacked, Reliable
  <2> QED BY <2>1, <2>2, <1>1 DEF WorkOK
<1>9. OverlapIsContested'
  <2> SUFFICES ASSUME NEW q \in DocRequests, NEW s \in DocRequests, q # s, DocOpen(q)', DocOpen(s)',
                      docWork'[q].doc = docWork'[s].doc
               PROVE docWork'[q].doc \in contested'
    BY DEF OverlapIsContested
  <2>1. CASE q # r /\ s # r
    BY <2>1, <1>1, <1>7 DEF ApprovalsInv, OverlapIsContested, DocOpen
  <2>2. CASE q = r
    <3>1. DocOpen(s) /\ docWork[s].doc = d
      BY <2>2, <1>4, <1>7 DEF DocOpen
    <3> QED BY <2>2, <3>1, <1>1, <1>4, <1>7 DEF AboutAny, About
  <2>3. CASE s = r
    <3>1. DocOpen(q) /\ docWork[q].doc = d
      BY <2>3, <1>4, <1>7 DEF DocOpen
    <3> QED BY <2>3, <3>1, <1>1, <1>4, <1>7 DEF AboutAny, About
  <2> QED BY <2>1, <2>2, <2>3
<1>10. (ColumnsBacked /\ PaymentsBacked /\ PaidByPayment)'
  BY <1>1 DEF ApprovalsInv, ColumnsBacked, PaymentsBacked, PaidByPayment, Reliable
<1> QED BY <1>6, <1>8, <1>9, <1>10 DEF ApprovalsInv

\* A request that goes on, or gives up, without touching a row.
LEMMA WorkOnlyInv ==
  ASSUME ApprovalsInv, UNCHANGED <<docStatus, docCols, contested>>,
         docWork' \in [DocRequests -> DocWorks],
         \A q \in DocRequests : docWork'[q].at # "idle" =>
           /\ docWork[q].at # "idle"
           /\ (docWork'[q].at = "ready") <=> (docWork[q].at = "ready")
           /\ docWork'[q].doc = docWork[q].doc /\ docWork'[q].child = docWork[q].child
           /\ docWork'[q].was = docWork[q].was /\ docWork'[q].to = docWork[q].to
           /\ docWork'[q].seen = docWork[q].seen /\ docWork'[q].sets = docWork[q].sets
  PROVE  ApprovalsInv'
<1>1. ApprovalsTypeOK'
  BY DEF ApprovalsInv, ApprovalsTypeOK, DocWorks
<1>2. WorksOK'
  <2> SUFFICES ASSUME NEW q \in DocRequests, docWork'[q].at # "idle" PROVE WorkOK(docWork[q])'
    BY DEF WorksOK, WorkOK
  <2>1. WorkOK(docWork[q])
    BY DEF ApprovalsInv, WorksOK
  <2>2. MakesOK(docWork[q])' /\ Remembers(docWork[q])' /\ PlanBacked(docWork[q])'
    BY <2>1 DEF WorkOK, MakesOK, Remembers, PlanBacked, Reliable
  <2> QED BY <2>1, <2>2 DEF WorkOK
<1>3. OverlapIsContested'
  BY DEF ApprovalsInv, OverlapIsContested, DocOpen
<1>4. (ColumnsBacked /\ PaymentsBacked /\ PaidByPayment)'
  BY DEF ApprovalsInv, ColumnsBacked, PaymentsBacked, PaidByPayment, Reliable
<1> QED BY <1>1, <1>2, <1>3, <1>4 DEF ApprovalsInv

LEMMA ReadAboveInv ==
  ASSUME ApprovalsInv, NEW r \in DocRequests, ReadAbove(r)
  PROVE  ApprovalsInv'
<1> DEFINE w == docWork[r]
           n == [w EXCEPT !.at = "above", !.above = docStatus[Origin[w.doc]]]
<1>1. ApprovalsTypeOK /\ w \in DocWorks /\ WorkOK(w) /\ w.at = "payment"
  BY DEF ApprovalsInv, WorksOK, ReadAbove, ApprovalsTypeOK, DocWorks
<1>2. Origin[w.doc] \in Docs
  BY <1>1, ApprovalsAssumption DEF WorkOK
<1>3. docWork' = [docWork EXCEPT ![r] = n]
  BY DEF ReadAbove
<1>4. n \in DocWorks
  BY <1>1, <1>2 DEF DocWorks, ApprovalsTypeOK
<1>5. docWork' \in [DocRequests -> DocWorks]
      /\ \A q \in DocRequests : docWork'[q] = IF q = r THEN n ELSE docWork[q]
  BY <1>1, <1>3, <1>4 DEF ApprovalsTypeOK, DocWorks
<1>6. /\ n.at = "above" /\ n.doc = w.doc /\ n.child = w.child /\ n.was = w.was /\ n.to = w.to
      /\ n.seen = w.seen /\ n.sets = w.sets
  BY <1>1 DEF DocWorks
<1>7. UNCHANGED <<docStatus, docCols, contested>>
  BY DEF ReadAbove
<1> HIDE DEF n
<1>8. docWork[r].at = "payment" /\ n.at # "idle" /\ n.at # "ready"
  BY <1>1, <1>6
<1>9. ASSUME NEW q \in DocRequests, docWork'[q].at # "idle"
      PROVE  /\ docWork[q].at # "idle"
             /\ (docWork'[q].at = "ready") <=> (docWork[q].at = "ready")
             /\ docWork'[q].doc = docWork[q].doc /\ docWork'[q].child = docWork[q].child
             /\ docWork'[q].was = docWork[q].was /\ docWork'[q].to = docWork[q].to
             /\ docWork'[q].seen = docWork[q].seen /\ docWork'[q].sets = docWork[q].sets
  <2>1. CASE q = r
    BY <2>1, <1>5, <1>6, <1>8
  <2>2. CASE q # r
    BY <2>2, <1>5, <1>9
  <2> QED BY <2>1, <2>2
<1> QED BY <1>5, <1>7, <1>9, WorkOnlyInv

LEMMA AbandonDocInv ==
  ASSUME ApprovalsInv, NEW r \in DocRequests, AbandonDoc(r)
  PROVE  ApprovalsInv'
<1>1. docWork' \in [DocRequests -> DocWorks]
      /\ \A q \in DocRequests : docWork'[q] = IF q = r THEN NoWork ELSE docWork[q]
  BY NoWorkOK DEF ApprovalsInv, ApprovalsTypeOK, AbandonDoc, DocWorks
<1> QED BY <1>1, NoWorkOK, WorkOnlyInv DEF AbandonDoc

\* What a committing request leaves in the columns of its document.
LEMMA ColumnsKept ==
  ASSUME ApprovalsInv, NEW w \in DocWorks, WorkOK(w), w.at # "idle", Kind[w.doc] # "pur_return",
         NEW col \in DocColumns
  PROVE  /\ docCols[w.doc][col] # Null => ColsNow(w)[col] # Null
         /\ Kind[w.doc] # "customer" /\ col \in Needed(w.to) => ColsNow(w)[col] # Null
<1>1. w.seen[col] # Null => docCols[w.doc][col] # Null /\ w.sets[col] # Null
  BY DEF WorkOK, Remembers
<1>2. Kind[w.doc] # "customer" /\ col \in Needed(w.to) => w.sets[col] # Null
  BY DEF WorkOK, PlanBacked, Reliable
<1>3. ColsNow(w)[col] = IF w.sets[col] # w.seen[col] THEN w.sets[col] ELSE docCols[w.doc][col]
  BY DEF ColsNow
<1> QED BY <1>1, <1>2, <1>3

LEMMA CommitDocInv ==
  ASSUME ApprovalsInv, NEW r \in DocRequests, CommitDoc(r)
  PROVE  ApprovalsInv'
<1> DEFINE w == docWork[r]
<1>1. ApprovalsTypeOK /\ w \in DocWorks /\ WorkOK(w) /\ w.at = "ready"
  BY DEF ApprovalsInv, WorksOK, CommitDoc, ApprovalsTypeOK, DocWorks
<1>2. /\ w.doc \in Docs /\ Kind[w.doc] # "payment" /\ docStatus[w.doc] # "absent"
      /\ w.to \in Existing \ {"payment_completed"} /\ docStatus \in [Docs -> DocStatuses]
      /\ w.child \in Docs \cup {Null} /\ w.doc # Null /\ Null \notin Docs
      /\ w.child # Null => w.child \in Docs /\ docStatus[w.child] = "absent" /\ w.child # w.doc
                           /\ Origin[w.child] = w.doc
                           /\ (Kind[w.child] = "payment" => w.to = "payment_requested")
  BY <1>1, ApprovalsAssumption DEF WorkOK, MakesOK, CommitDoc, ApprovalsTypeOK, DocWorks
<1>3. /\ StatusNow(w) \in Existing
      /\ StatusNow(w) = "payment_completed" => docStatus[w.doc] = "payment_completed"
      /\ StatusNow(w) \in {w.to, docStatus[w.doc]}
  BY <1>2 DEF StatusNow, Existing
<1>4. /\ docStatus' = [d \in Docs |-> IF d = w.doc THEN StatusNow(w)
                                      ELSE IF d = w.child THEN FirstStatus(Kind[d]) ELSE docStatus[d]]
      /\ contested' = contested
      /\ docCols' = [docCols EXCEPT ![w.doc] = ColsNow(w)]
      /\ docWork' = [docWork EXCEPT ![r] = NoWork]
  BY DEF CommitDoc
<1>5. ColsNow(w) \in [DocColumns -> DocValues]
  BY <1>1, <1>2 DEF ColsNow, ApprovalsTypeOK, DocWorks
<1>6. \A d \in Docs : FirstStatus(Kind[d]) \in Existing \ {"payment_completed"} /\ Needed(FirstStatus(Kind[d])) = {}
  BY FirstNeedsNothing, ApprovalsAssumption
<1>7. /\ docStatus'[w.doc] = StatusNow(w)
      /\ w.child # Null => docStatus'[w.child] = FirstStatus(Kind[w.child])
      /\ \A d \in Docs \ {w.doc, w.child} : docStatus'[d] = docStatus[d]
      /\ docCols'[w.doc] = ColsNow(w)
      /\ \A d \in Docs \ {w.doc} : docCols'[d] = docCols[d]
      /\ docWork'[r] = NoWork
      /\ \A q \in DocRequests \ {r} : docWork'[q] = docWork[q]
  BY <1>1, <1>2, <1>4 DEF ApprovalsTypeOK
<1>8. ApprovalsTypeOK'
  <2>1. docStatus' \in [Docs -> DocStatuses]
    BY <1>2, <1>3, <1>4, <1>6 DEF Existing
  <2>2. docCols' \in [Docs -> [DocColumns -> DocValues]]
    BY <1>1, <1>4, <1>5 DEF ApprovalsTypeOK
  <2>3. docWork' \in [DocRequests -> DocWorks]
    BY <1>1, <1>4, NoWorkOK DEF ApprovalsTypeOK, DocWorks
  <2> QED BY <2>1, <2>2, <2>3, <1>1, <1>4 DEF ApprovalsTypeOK, DocWorks
<1>9. \A d \in Docs : Kind[d] # "pur_return" =>
        \A col \in DocColumns : docCols[d][col] # Null => docCols'[d][col] # Null
  BY <1>1, <1>7, ColumnsKept
<1>10. \A d \in Docs : docStatus[d] # "absent" => docStatus'[d] # "absent"
  BY <1>2, <1>3, <1>7 DEF Existing
<1>11. WorksOK'
  <2> SUFFICES ASSUME NEW q \in DocRequests, docWork'[q].at # "idle" PROVE WorkOK(docWork[q])'
    BY DEF WorksOK, WorkOK
  <2> DEFINE v == docWork[q]
  <2>1. q # r /\ docWork'[q] = v /\ WorkOK(v) /\ v.at # "idle"
    BY <1>7, NoWorkOK DEF ApprovalsInv, WorksOK
  <2>2. v.doc \in Docs /\ docStatus[v.doc] # "absent"
    BY <2>1 DEF WorkOK
  <2>3. MakesOK(docWork[q])' /\ PlanBacked(docWork[q])'
    BY <2>1, <1>4 DEF WorkOK, MakesOK, PlanBacked, Reliable
  <2>4. Remembers(docWork[q])'
    <3>1. CASE Kind[v.doc] # "pur_return"
      BY <3>1, <2>1, <2>2, <1>9 DEF WorkOK, Remembers
    <3>2. CASE Kind[v.doc] = "pur_return" /\ v.doc = w.doc
      <4>1. v.doc \in contested
        BY <3>2, <2>1, <1>1 DEF ApprovalsInv, OverlapIsContested, DocOpen
      <4> QED BY <4>1, <3>2, <2>1, <1>4 DEF Remembers
    <3>3. CASE Kind[v.doc] = "pur_return" /\ v.doc # w.doc
      <4>1. v.doc # w.child
        BY <1>2, <2>2
      <4>2. docStatus'[v.doc] = docStatus[v.doc] /\ docCols'[v.doc] = docCols[v.doc]
        BY <4>1, <3>3, <2>2, <1>7
      <4> QED BY <4>2, <3>3, <2>1, <1>4 DEF WorkOK, Remembers
    <3> QED BY <3>1, <3>2, <3>3
  <2> QED BY <2>1, <2>2, <2>3, <2>4, <1>10 DEF WorkOK
<1>12. OverlapIsContested'
  BY <1>4, <1>7, NoWorkOK DEF ApprovalsInv, OverlapIsContested, DocOpen
<1>13. ASSUME Reliable(w.doc), NEW col \in Needed(StatusNow(w)) PROVE ColsNow(w)[col] # Null
  <2>1. col \in DocColumns
    BY <1>3, <1>13, NeededType DEF Existing
  <2>2. CASE Kind[w.doc] = "pur_return"
    <3>1. w.seen = docCols[w.doc] /\ w.was = docStatus[w.doc]
      BY <2>2, <1>1, <1>13 DEF WorkOK, Remembers, Reliable
    <3>2. StatusNow(w) = w.to
      BY <3>1 DEF StatusNow
    <3>3. ColsNow(w)[col] = w.sets[col]
      BY <2>1, <3>1 DEF ColsNow
    <3> QED BY <3>2, <3>3, <1>1, <1>13 DEF WorkOK, PlanBacked
  <2>3. CASE Kind[w.doc] # "pur_return" /\ StatusNow(w) = w.to
    BY <2>1, <2>3, <1>1, <1>13, ColumnsKept DEF Reliable
  <2>4. CASE Kind[w.doc] # "pur_return" /\ StatusNow(w) = docStatus[w.doc]
    <3>1. docCols[w.doc][col] # Null
      BY <2>4, <1>2, <1>13 DEF ApprovalsInv, ColumnsBacked
    <3> QED BY <3>1, <2>1, <2>4, <1>1, ColumnsKept
  <2> QED BY <2>2, <2>3, <2>4, <1>3
<1>14. ColumnsBacked'
  <2> SUFFICES ASSUME NEW d \in Docs, Reliable(d), NEW col \in Needed(docStatus'[d])
               PROVE docCols'[d][col] # Null
    BY <1>4 DEF ColumnsBacked, Reliable
  <2>1. CASE d = w.doc
    BY <2>1, <1>7, <1>13
  <2>2. CASE d # w.doc /\ d = w.child
    BY <2>2, <1>2, <1>6, <1>7
  <2>3. CASE d # w.doc /\ d # w.child
    BY <2>3, <1>7 DEF ApprovalsInv, ColumnsBacked
  <2> QED BY <2>1, <2>2, <2>3
<1>15. PaymentsBacked'
  <2> SUFFICES ASSUME NEW p \in Docs, Kind[p] = "payment", docStatus'[p] # "absent",
                      NEW col \in Needed("payment_completed")
               PROVE docCols'[Origin[p]][col] # Null
    BY DEF PaymentsBacked
  <2>1. col \in DocColumns /\ Needed("payment_completed") = Needed("payment_requested")
    BY NeededType DEF Needed, Decided, DocStatuses
  <2>2. Origin[p] \in Docs /\ Kind[Origin[p]] = "settlement" /\ p # w.doc
    BY <1>2, ApprovalsAssumption
  <2>3. CASE p = w.child
    BY <2>1, <2>2, <2>3, <1>1, <1>2, <1>7, ColumnsKept
  <2>4. CASE p # w.child
    <3>1. docCols[Origin[p]][col] # Null
      BY <2>2, <2>4, <1>7 DEF ApprovalsInv, PaymentsBacked
    <3> QED BY <3>1, <2>1, <2>2, <1>9
  <2> QED BY <2>3, <2>4
<1>16. PaidByPayment'
  <2> SUFFICES ASSUME NEW d \in Docs, docStatus'[d] = "payment_completed"
               PROVE \E p \in Docs : Kind[p] = "payment" /\ Origin[p] = d /\ docStatus'[p] = "completed"
    BY DEF PaidByPayment
  <2>1. docStatus[d] = "payment_completed"
    BY <1>2, <1>3, <1>6, <1>7
  <2>2. PICK p \in Docs : Kind[p] = "payment" /\ Origin[p] = d /\ docStatus[p] = "completed"
    BY <2>1 DEF ApprovalsInv, PaidByPayment
  <2>3. p # w.doc /\ p # w.child
    BY <2>2, <1>2
  <2> QED BY <2>2, <2>3, <1>7
<1> QED BY <1>8, <1>11, <1>12, <1>14, <1>15, <1>16 DEF ApprovalsInv

LEMMA CommitPaymentInv ==
  ASSUME ApprovalsInv, NEW r \in DocRequests, CommitPayment(r)
  PROVE  ApprovalsInv'
<1> DEFINE w == docWork[r]
           o == Origin[w.doc]
<1>1. ApprovalsTypeOK /\ w \in DocWorks /\ WorkOK(w) /\ w.at = "above"
  BY DEF ApprovalsInv, WorksOK, CommitPayment, ApprovalsTypeOK, DocWorks
<1>2. /\ w.doc \in Docs /\ Kind[w.doc] = "payment" /\ docStatus[w.doc] # "absent"
      /\ w.to = "completed" /\ docStatus \in [Docs -> DocStatuses]
      /\ o \in Docs \ {w.doc} /\ Kind[o] = "settlement"
  BY <1>1, ApprovalsAssumption DEF WorkOK, ApprovalsTypeOK
<1>3. /\ docStatus' = [d \in Docs |-> IF d = w.doc THEN w.to
                                      ELSE IF d = o /\ w.above # "payment_completed"
                                           THEN "payment_completed" ELSE docStatus[d]]
      /\ docWork' = [docWork EXCEPT ![r] = NoWork]
      /\ docCols' = docCols /\ contested' = contested
  BY DEF CommitPayment
<1>4. /\ docStatus'[w.doc] = "completed"
      /\ docStatus'[o] \in {"payment_completed", docStatus[o]}
      /\ \A d \in Docs \ {w.doc, o} : docStatus'[d] = docStatus[d]
      /\ docWork'[r] = NoWork /\ \A q \in DocRequests \ {r} : docWork'[q] = docWork[q]
  BY <1>1, <1>2, <1>3 DEF ApprovalsTypeOK
<1>5. ApprovalsTypeOK'
  <2>1. docStatus' \in [Docs -> DocStatuses]
    BY <1>2, <1>3 DEF DocStatuses
  <2>2. docWork' \in [DocRequests -> DocWorks]
    BY <1>1, <1>3, NoWorkOK DEF ApprovalsTypeOK, DocWorks
  <2> QED BY <2>1, <2>2, <1>1, <1>3 DEF ApprovalsTypeOK, DocWorks
<1>6. WorksOK'
  <2> SUFFICES ASSUME NEW q \in DocRequests, docWork'[q].at # "idle" PROVE WorkOK(docWork[q])'
    BY DEF WorksOK, WorkOK
  <2>1. docWork'[q] = docWork[q] /\ WorkOK(docWork[q])
    BY <1>4, NoWorkOK DEF ApprovalsInv, WorksOK
  <2>2. MakesOK(docWork[q])' /\ PlanBacked(docWork[q])'
    BY <2>1, <1>3 DEF WorkOK, MakesOK, PlanBacked, Reliable
  <2>3. Remembers(docWork[q])'
    BY <2>1, <1>2, <1>3, <1>4 DEF WorkOK, Remembers
  <2>4. docStatus'[docWork[q].doc] # "absent"
    BY <2>1, <1>2, <1>4 DEF WorkOK
  <2> QED BY <2>1, <2>2, <2>3, <2>4 DEF WorkOK
<1>7. OverlapIsContested'
  BY <1>3, <1>4, NoWorkOK DEF ApprovalsInv, OverlapIsContested, DocOpen
<1>8. \A col \in Needed("payment_completed") : docCols[o][col] # Null
  BY <1>2 DEF ApprovalsInv, PaymentsBacked
<1>9. ColumnsBacked'
  <2> SUFFICES ASSUME NEW d \in Docs, Reliable(d), NEW col \in Needed(docStatus'[d])
               PROVE docCols[d][col] # Null
    BY <1>3 DEF ColumnsBacked, Reliable
  <2>1. Needed("completed") = {}
    BY DEF Needed, Decided
  <2>2. CASE docStatus'[d] = docStatus[d]
    BY <2>2 DEF ApprovalsInv, ColumnsBacked
  <2>3. CASE d = w.doc
    BY <2>1, <2>3, <1>4
  <2>4. CASE d = o /\ docStatus'[d] = "payment_completed"
    BY <2>4, <1>8
  <2> QED BY <2>2, <2>3, <2>4, <1>4
<1>10. PaymentsBacked'
  BY <1>2, <1>3, <1>4 DEF ApprovalsInv, PaymentsBacked
<1>11. PaidByPayment'
  <2> SUFFICES ASSUME NEW d \in Docs, docStatus'[d] = "payment_completed"
               PROVE \E p \in Docs : Kind[p] = "payment" /\ Origin[p] = d /\ docStatus'[p] = "completed"
    BY DEF PaidByPayment
  <2>1. CASE d = o
    BY <2>1, <1>2, <1>4
  <2>2. CASE d # o
    <3>1. docStatus[d] = "payment_completed"
      BY <2>2, <1>4
    <3>2. PICK p \in Docs : Kind[p] = "payment" /\ Origin[p] = d /\ docStatus[p] = "completed"
      BY <3>1 DEF ApprovalsInv, PaidByPayment
    <3> QED BY <3>2, <1>2, <1>4
  <2> QED BY <2>1, <2>2
<1> QED BY <1>5, <1>6, <1>7, <1>9, <1>10, <1>11 DEF ApprovalsInv

LEMMA ApprovalsStepInv == ApprovalsInv /\ [ApprovalsNext]_approvalsVars => ApprovalsInv'
<1> SUFFICES ASSUME ApprovalsInv, [ApprovalsNext]_approvalsVars PROVE ApprovalsInv'
  OBVIOUS
<1>1. ASSUME NEW r \in DocRequests, DocStep(r) PROVE ApprovalsInv'
  <2>1. ASSUME NEW d \in Docs, NEW rule \in DocRules[Kind[d]], NEW id \in Ids,
               NEW c \in Targets(rule, d), ReadDoc(r, d, rule, c, id)
        PROVE ApprovalsInv'
    BY <2>1, ReadDocInv
  <2>2. CASE ReadAbove(r)
    BY <2>2, ReadAboveInv
  <2>3. CASE CommitDoc(r)
    BY <2>3, CommitDocInv
  <2>4. CASE CommitPayment(r)
    BY <2>4, CommitPaymentInv
  <2>5. CASE AbandonDoc(r)
    BY <2>5, AbandonDocInv
  <2> QED BY <1>1, <2>1, <2>2, <2>3, <2>4, <2>5 DEF DocStep
<1>2. CASE UNCHANGED approvalsVars
  <2>1. UNCHANGED <<docStatus, docCols, contested>> /\ docWork' = docWork
    BY <1>2 DEF approvalsVars
  <2>2. docWork \in [DocRequests -> DocWorks]
    BY DEF ApprovalsInv, ApprovalsTypeOK, DocWorks
  <2> QED BY <2>1, <2>2, WorkOnlyInv
<1> QED BY <1>1, <1>2 DEF ApprovalsNext

\* However the requests about a document overlap, a status past an approval
\* has its approver on record, and a paid settlement its completed payment.
THEOREM StatusesAreBacked == ApprovalsSpec => []StatusIsBacked
<1>1. ApprovalsInv => StatusIsBacked
  BY DEF ApprovalsInv, ColumnsBacked, PaidByPayment, StatusIsBacked, Reliable, Successors
<1> QED BY <1>1, ApprovalsInitInv, ApprovalsStepInv, PTL DEF ApprovalsSpec

-----------------------------------------------------------------------------
(***************************************************************************)
(* Documents and what they were turned into.  A request about a document   *)
(* nobody else is about finds it as it read it.  For purchase requests     *)
(* that is not needed: there is one candidate, and a document that exists  *)
(* stays.                                                                  *)
(***************************************************************************)
Present(d) == docStatus[d] # "absent"

Asked == {"payment_requested", "payment_completed"}
Quotable == {"active", "disabled"}

\* What the table says of the rules that make a document.
MakerOK(k, rule) ==
  /\ rule.op \in {"convert", "request"} <=> "next" \in rule.signs
  /\ rule.op = "quote" => k = "customer" /\ rule.from = {"active"} /\ rule.to = "active"
  /\ k = "customer" => /\ rule.op \notin {"convert", "request"}
                       /\ rule.from \cap Quotable # {} => rule.to \in Quotable
                       /\ rule.from \subseteq Quotable \/ rule.from \cap Quotable = {}
  /\ k = "quotation" => /\ "converted" \notin rule.from
                        /\ rule.to = "converted" <=> rule.op \in {"convert", "request"}
  /\ k = "settlement" => /\ rule.from \cap Asked = {}
                         /\ rule.to \in Asked <=> rule.op \in {"convert", "request"}

LEMMA MakersOK == \A k \in DocKinds : \A rule \in DocRules[k] : MakerOK(k, rule)
<1> USE DEF MakerOK, DocRule, Existing, DocStatuses, Asked, Quotable
<1>1. \A rule \in CustomerRules : MakerOK("customer", rule) BY DEF CustomerRules
<1>2. \A rule \in QuotationRules : MakerOK("quotation", rule) BY DEF QuotationRules
<1>3. \A rule \in SalesReturnRules : MakerOK("sales_return", rule) BY DEF SalesReturnRules
<1>4. \A rule \in SettlementRules : MakerOK("settlement", rule) BY DEF SettlementRules
<1>5. \A rule \in PaymentRules : MakerOK("payment", rule) BY DEF PaymentRules
<1>6. \A rule \in PurRequestRules : MakerOK("pur_request", rule) BY DEF PurRequestRules
<1>7. \A rule \in PurOrderRules : MakerOK("pur_order", rule) BY DEF PurOrderRules
<1>8. \A rule \in PurReturnRules : MakerOK("pur_return", rule) BY DEF PurReturnRules
<1>9. \A rule \in GovernanceRules : MakerOK("governance", rule) BY DEF GovernanceRules
<1> HIDE DEF MakerOK, DocRule, Existing, DocStatuses, Asked, Quotable
<1> QED BY <1>1, <1>2, <1>3, <1>4, <1>5, <1>6, <1>7, <1>8, <1>9 DEF DocKinds, DocRules

\* The document is as the request read it, unless somebody else was about it.
StillAsRead(w) ==
  Kind[w.doc] # "payment" /\ w.doc \notin contested
    => w.seen = docCols[w.doc] /\ w.was = docStatus[w.doc]

\* The column "next" is set by the requests that make a document, and by no
\* other; what stood in it for a purchase request exists.
NamesChild(w) ==
  /\ w.child = Null => w.sets["next"] = w.seen["next"]
  /\ w.child # Null => w.child \in Candidates(w.doc) /\ (Kind[w.doc] # "customer" => w.sets["next"] = w.child)
  /\ Kind[w.doc] = "pur_request" /\ w.seen["next"] # Null => w.seen["next"] \in Made(w.doc)

\* Which statuses a request comes from and goes to.
StatusFits(w) ==
  /\ Kind[w.doc] = "customer" => /\ w.child # Null => w.was = "active" /\ w.to = "active"
                                 /\ w.was \in Quotable => w.to \in Quotable
  /\ Kind[w.doc] = "quotation" => w.was # "converted" /\ (w.to = "converted" <=> w.child # Null)
  /\ Kind[w.doc] = "settlement" => w.was \notin Asked /\ (w.to \in Asked <=> w.child # Null)

MakesWork(w) == w.at # "idle" => StillAsRead(w) /\ NamesChild(w) /\ StatusFits(w)

SharedIsContested ==
  \A r, q \in DocRequests : r # q /\ DocOpen(r) /\ DocOpen(q)
    => About(docWork[r].doc) \cap About(docWork[q].doc) \subseteq contested

OriginsPresent == \A c \in Docs : Present(c) /\ Origin[c] # Null => Origin[c] \in Docs /\ Present(Origin[c])

MadeIsNext(d) == Made(d) = {docCols[d]["next"]} \ {Null}

OrdersNamed(d) == Kind[d] = "pur_request" => MadeIsNext(d) /\ Made(d) \subseteq Candidates(d)

SuccessorNamed(d) ==
  d \notin contested =>
    /\ Kind[d] = "quotation" => MadeIsNext(d) /\ (docCols[d]["next"] # Null <=> docStatus[d] = "converted")
    /\ Kind[d] = "settlement" => MadeIsNext(d) /\ (docCols[d]["next"] # Null <=> docStatus[d] \in Asked)
    /\ Kind[d] = "customer" /\ Made(d) # {} => docStatus[d] \in Quotable

SuccessorsInv ==
  /\ \A r \in DocRequests : MakesWork(docWork[r])
  /\ SharedIsContested /\ OriginsPresent
  /\ \A d \in Docs : OrdersNamed(d) /\ SuccessorNamed(d)

LEMMA SuccessorsInitInv == ApprovalsInit => SuccessorsInv
<1> SUFFICES ASSUME ApprovalsInit PROVE SuccessorsInv
  OBVIOUS
<1>1. PICK there \in SUBSET {d \in Docs : Origin[d] = Null} :
        docStatus = [d \in Docs |-> IF d \in there THEN FirstStatus(Kind[d]) ELSE "absent"]
  BY DEF ApprovalsInit
<1>2. \A d \in Docs : Made(d) = {} /\ docCols[d]["next"] = Null
  BY <1>1, ApprovalsAssumption DEF Made, Successors, ApprovalsInit, Blank, DocColumns
<1>3. \A d \in Docs : docStatus[d] # "converted" /\ docStatus[d] \notin Asked
  BY <1>1 DEF FirstStatus, Asked
<1>4. \A r \in DocRequests : docWork[r].at = "idle"
  BY NoWorkOK DEF ApprovalsInit
<1>5. OriginsPresent
  BY <1>1, ApprovalsAssumption DEF OriginsPresent, Present
<1> QED BY <1>2, <1>3, <1>4, <1>5
        DEF SuccessorsInv, MakesWork, SharedIsContested, DocOpen, OrdersNamed, SuccessorNamed, MadeIsNext

\* The plan of a request that has just read its document.
LEMMA MakesPlanOK ==
  ASSUME ApprovalsInv, SuccessorsInv, NEW d \in Docs, NEW rule \in DocRules[Kind[d]],
         NEW c \in Targets(rule, d), NEW id \in Ids, Accepts(rule, d), NEW w,
         w.doc = d, w.child = c, w.was = docStatus[d], w.to = rule.to, w.seen = docCols[d],
         w.sets = Signed(rule, d, c, id)
  PROVE  MakesWork(w)
<1>1. MakerOK(Kind[d], rule) /\ RuleOK(Kind[d], rule)
  BY MakersOK, RulesOK, ApprovalsAssumption
<1>2. /\ c # Null <=> rule.op \in {"quote", "convert", "request"}
      /\ c # Null => c \in Candidates(d)
  BY TargetsOK DEF Targets
<1>3. docStatus[d] \in rule.from
  BY DEF Accepts
<1>4. "next" \in DocColumns
  BY DEF DocColumns
<1>5. w.sets["next"] = IF "next" \notin rule.signs THEN docCols[d]["next"]
                       ELSE IF rule.op = "clear" THEN Null ELSE c
  BY <1>4 DEF Signed
<1>6. NamesChild(w)
  <2>1. c = Null => w.sets["next"] = w.seen["next"]
    BY <1>1, <1>2, <1>5 DEF MakerOK
  <2>2. c # Null => c \in Candidates(d) /\ (Kind[d] # "customer" => w.sets["next"] = c)
    BY <1>1, <1>2, <1>5 DEF MakerOK
  <2>3. Kind[d] = "pur_request" /\ docCols[d]["next"] # Null => docCols[d]["next"] \in Made(d)
    BY DEF SuccessorsInv, OrdersNamed, MadeIsNext
  <2> QED BY <2>1, <2>2, <2>3 DEF NamesChild
<1>7. StatusFits(w)
  BY <1>1, <1>2, <1>3 DEF StatusFits, MakerOK
<1> QED BY <1>6, <1>7 DEF MakesWork, StillAsRead

LEMMA ReadDocMakes ==
  ASSUME ApprovalsInv, SuccessorsInv, NEW r \in DocRequests, NEW d \in Docs,
         NEW rule \in DocRules[Kind[d]], NEW id \in Ids, NEW c \in Targets(rule, d),
         ReadDoc(r, d, rule, c, id)
  PROVE  SuccessorsInv'
<1> DEFINE w == Work(IF Kind[d] = "payment" THEN "payment" ELSE "ready", d, c,
                     docStatus[d], rule.to, docCols[d], Signed(rule, d, c, id))
<1>1. /\ docWork' = [docWork EXCEPT ![r] = w] /\ docStatus' = docStatus /\ docCols' = docCols
      /\ contested' = contested \cup (About(d) \cap AboutAny)
      /\ Accepts(rule, d) /\ ~ DocOpen(r)
  BY DEF ReadDoc
<1>2. /\ w.at # "idle" /\ w.doc = d /\ w.child = c /\ w.was = docStatus[d] /\ w.to = rule.to
      /\ w.seen = docCols[d] /\ w.sets = Signed(rule, d, c, id)
  BY DEF Work
<1> HIDE DEF w
<1>3. MakesWork(w)
  BY <1>1, <1>2, MakesPlanOK
<1>4. docWork'[r] = w /\ \A q \in DocRequests \ {r} : docWork'[q] = docWork[q]
  BY <1>1 DEF ApprovalsInv, ApprovalsTypeOK
<1>5. \A e \in Docs : Made(e)' = Made(e)
  BY <1>1 DEF Made, Successors
<1>6. ASSUME NEW q \in DocRequests PROVE MakesWork(docWork[q])'
  <2>1. MakesWork(docWork'[q])
    BY <1>3, <1>4 DEF SuccessorsInv
  <2>2. docWork'[q].at # "idle" => docWork'[q].doc \in Docs
    BY <1>2, <1>4 DEF ApprovalsInv, WorksOK, WorkOK
  <2> QED BY <2>1, <2>2, <1>1, <1>5 DEF MakesWork, StillAsRead, NamesChild, StatusFits, Candidates, Successors
<1>7. SharedIsContested'
  <2> SUFFICES ASSUME NEW q \in DocRequests, NEW s \in DocRequests, q # s, DocOpen(q)', DocOpen(s)'
               PROVE About(docWork'[q].doc) \cap About(docWork'[s].doc) \subseteq contested'
    BY DEF SharedIsContested, About
  <2>1. CASE q # r /\ s # r
    BY <2>1, <1>1, <1>4 DEF SuccessorsInv, SharedIsContested, DocOpen
  <2>2. CASE q = r
    <3>1. DocOpen(s) /\ docWork'[s].doc = docWork[s].doc
      BY <2>2, <1>4 DEF DocOpen
    <3>2. About(docWork[s].doc) \subseteq AboutAny
      BY <3>1 DEF AboutAny
    <3> QED BY <2>2, <3>1, <3>2, <1>1, <1>2, <1>4
  <2>3. CASE s = r
    <3>1. DocOpen(q) /\ docWork'[q].doc = docWork[q].doc
      BY <2>3, <1>4 DEF DocOpen
    <3>2. About(docWork[q].doc) \subseteq AboutAny
      BY <3>1 DEF AboutAny
    <3> QED BY <2>3, <3>1, <3>2, <1>1, <1>2, <1>4
  <2> QED BY <2>1, <2>2, <2>3
<1>8. OriginsPresent'
  BY <1>1 DEF SuccessorsInv, OriginsPresent, Present
<1>9. ASSUME NEW e \in Docs PROVE (OrdersNamed(e) /\ SuccessorNamed(e))'
  BY <1>1, <1>5 DEF SuccessorsInv, OrdersNamed, SuccessorNamed, MadeIsNext, Candidates, Successors
<1> QED BY <1>6, <1>7, <1>8, <1>9 DEF SuccessorsInv

\* A request that goes on, or gives up, without touching a row.
LEMMA WorkOnlyMakes ==
  ASSUME ApprovalsInv, SuccessorsInv, UNCHANGED <<docStatus, docCols, contested>>,
         \A q \in DocRequests : docWork'[q].at # "idle" =>
           /\ docWork[q].at # "idle"
           /\ docWork'[q].doc = docWork[q].doc /\ docWork'[q].child = docWork[q].child
           /\ docWork'[q].was = docWork[q].was /\ docWork'[q].to = docWork[q].to
           /\ docWork'[q].seen = docWork[q].seen /\ docWork'[q].sets = docWork[q].sets
  PROVE  SuccessorsInv'
<1>1. \A e \in Docs : Made(e)' = Made(e)
  BY DEF Made, Successors
<1>2. ASSUME NEW q \in DocRequests PROVE MakesWork(docWork[q])'
  <2> SUFFICES ASSUME docWork'[q].at # "idle"
               PROVE (StillAsRead(docWork[q]) /\ NamesChild(docWork[q]) /\ StatusFits(docWork[q]))'
    BY DEF MakesWork
  <2>1. MakesWork(docWork[q]) /\ docWork[q].at # "idle" /\ docWork[q].doc \in Docs
    BY DEF SuccessorsInv, ApprovalsInv, WorksOK, WorkOK
  <2> QED BY <2>1, <1>1 DEF MakesWork, StillAsRead, NamesChild, StatusFits, Candidates, Successors
<1>3. SharedIsContested'
  BY DEF SuccessorsInv, SharedIsContested, DocOpen, About
<1>4. OriginsPresent'
  BY DEF SuccessorsInv, OriginsPresent, Present
<1>5. ASSUME NEW e \in Docs PROVE (OrdersNamed(e) /\ SuccessorNamed(e))'
  BY <1>1 DEF SuccessorsInv, OrdersNamed, SuccessorNamed, MadeIsNext, Candidates, Successors
<1> QED BY <1>2, <1>3, <1>4, <1>5 DEF SuccessorsInv

LEMMA ReadAboveMakes ==
  ASSUME ApprovalsInv, SuccessorsInv, NEW r \in DocRequests, ReadAbove(r)
  PROVE  SuccessorsInv'
<1> DEFINE n == [docWork[r] EXCEPT !.at = "above", !.above = docStatus[Origin[docWork[r].doc]]]
<1>1. docWork \in [DocRequests -> DocWorks] /\ docWork[r].at = "payment"
      /\ docWork' = [docWork EXCEPT ![r] = n]
  BY DEF ReadAbove, ApprovalsInv, ApprovalsTypeOK, DocWorks
<1>2. \A q \in DocRequests : docWork'[q] = IF q = r THEN n ELSE docWork[q]
  BY <1>1
<1>3. /\ n.doc = docWork[r].doc /\ n.child = docWork[r].child /\ n.was = docWork[r].was
      /\ n.to = docWork[r].to /\ n.seen = docWork[r].seen /\ n.sets = docWork[r].sets
  BY <1>1 DEF DocWorks
<1> HIDE DEF n
<1>4. ASSUME NEW q \in DocRequests, docWork'[q].at # "idle"
      PROVE  /\ docWork[q].at # "idle"
             /\ docWork'[q].doc = docWork[q].doc /\ docWork'[q].child = docWork[q].child
             /\ docWork'[q].was = docWork[q].was /\ docWork'[q].to = docWork[q].to
             /\ docWork'[q].seen = docWork[q].seen /\ docWork'[q].sets = docWork[q].sets
  <2>1. CASE q = r
    BY <2>1, <1>1, <1>2, <1>3
  <2>2. CASE q # r
    BY <2>2, <1>2, <1>4
  <2> QED BY <2>1, <2>2
<1>5. UNCHANGED <<docStatus, docCols, contested>>
  BY DEF ReadAbove
<1> QED BY <1>4, <1>5, WorkOnlyMakes

LEMMA AbandonDocMakes ==
  ASSUME ApprovalsInv, SuccessorsInv, NEW r \in DocRequests, AbandonDoc(r)
  PROVE  SuccessorsInv'
<1>1. \A q \in DocRequests : docWork'[q] = IF q = r THEN NoWork ELSE docWork[q]
  BY DEF ApprovalsInv, ApprovalsTypeOK, AbandonDoc
<1> QED BY <1>1, NoWorkOK, WorkOnlyMakes DEF AbandonDoc

\* What a committing request leaves in a document nobody else was about, and
\* in a purchase request whoever was.
LEMMA CommitNames ==
  ASSUME ApprovalsInv, SuccessorsInv, NEW r \in DocRequests, CommitDoc(r),
         NEW d \in Docs, docWork[r].doc = d,
         Made(d)' = Made(d) \cup ({docWork[r].child} \ {Null}),
         docStatus'[d] = StatusNow(docWork[r]), docCols'[d] = ColsNow(docWork[r]),
         contested' = contested
  PROVE  (OrdersNamed(d) /\ SuccessorNamed(d))'
<1> DEFINE w == docWork[r]
<1>1. MakesWork(w) /\ w.at = "ready" /\ WorkOK(w)
  BY DEF SuccessorsInv, ApprovalsInv, WorksOK, CommitDoc
<1>2. StillAsRead(w) /\ NamesChild(w) /\ StatusFits(w)
  BY <1>1 DEF MakesWork
<1>3. Kind[d] # "payment" /\ Null \notin Docs
  BY <1>1, ApprovalsAssumption DEF WorkOK
<1>4. w.child # Null => w.child \notin Made(d)
  BY DEF CommitDoc, Made
<1>5. docCols'[d]["next"] = IF w.sets["next"] # w.seen["next"] THEN w.sets["next"] ELSE docCols[d]["next"]
  BY DEF ColsNow, DocColumns
<1>6. docStatus'[d] = IF w.to # w.was THEN w.to ELSE docStatus[d]
  BY DEF StatusNow
<1>7. Candidates(d)' = Candidates(d)
  BY DEF Candidates, Successors
<1>8. OrdersNamed(d)'
  <2> SUFFICES ASSUME Kind[d] = "pur_request" PROVE (MadeIsNext(d) /\ Made(d) \subseteq Candidates(d))'
    BY DEF OrdersNamed
  <2>1. MadeIsNext(d) /\ Made(d) \subseteq Candidates(d)
    BY DEF SuccessorsInv, OrdersNamed
  <2>2. CASE w.child = Null
    BY <2>1, <2>2, <1>2, <1>5, <1>7 DEF NamesChild, MadeIsNext
  <2>3. CASE w.child # Null
    <3>1. w.child \in Candidates(d) /\ w.sets["next"] = w.child
      BY <2>3, <1>2 DEF NamesChild
    <3>2. \A x, y \in Candidates(d) : x = y
      BY DEF Candidates
    <3>3. Made(d) = {}
      BY <2>1, <2>3, <3>1, <3>2, <1>4
    <3>4. w.seen["next"] = Null /\ docCols[d]["next"] = Null
      BY <2>1, <3>3, <1>2 DEF NamesChild, MadeIsNext
    <3>5. docCols'[d]["next"] = w.child /\ Made(d)' = {w.child}
      BY <2>3, <3>1, <3>3, <3>4, <1>5
    <3> QED BY <2>3, <3>1, <3>5, <1>7 DEF MadeIsNext
  <2> QED BY <2>2, <2>3
<1>9. SuccessorNamed(d)'
  <2> SUFFICES ASSUME d \notin contested PROVE SuccessorNamed(d)'
    BY DEF SuccessorNamed
  <2>1. w.seen = docCols[d] /\ w.was = docStatus[d] /\ SuccessorNamed(d)
    BY <1>2, <1>3 DEF StillAsRead, SuccessorsInv
  <2>2. docCols'[d]["next"] = w.sets["next"] /\ docStatus'[d] = w.to
    BY <2>1, <1>5, <1>6
  <2>3. CASE Kind[d] = "customer"
    <3>1. Made(d)' # {} => Made(d) # {} \/ w.child # Null
      OBVIOUS
    <3>2. Made(d)' # {} => docStatus'[d] \in Quotable
      BY <2>1, <2>2, <2>3, <3>1, <1>2 DEF SuccessorNamed, StatusFits, Quotable
    <3> QED BY <2>3, <3>2 DEF SuccessorNamed
  <2>4. CASE Kind[d] \in {"quotation", "settlement"}
    <3>1. docCols[d]["next"] = Null /\ Made(d) = {}
      BY <2>1, <2>4, <1>2 DEF SuccessorNamed, StatusFits, MadeIsNext
    <3>2. CASE w.child = Null
      <4>1. docCols'[d]["next"] = Null /\ Made(d)' = {}
        BY <2>1, <2>2, <3>1, <3>2, <1>2 DEF NamesChild
      <4> QED BY <2>2, <2>4, <3>2, <4>1, <1>2 DEF SuccessorNamed, StatusFits, MadeIsNext
    <3>3. CASE w.child # Null
      <4>1. docCols'[d]["next"] = w.child /\ Made(d)' = {w.child}
        BY <2>2, <2>4, <3>1, <3>3, <1>2 DEF NamesChild
      <4> QED BY <2>2, <2>4, <3>3, <4>1, <1>2 DEF SuccessorNamed, StatusFits, MadeIsNext
    <3> QED BY <3>2, <3>3
  <2>5. CASE Kind[d] \notin {"customer", "quotation", "settlement"}
    BY <2>5 DEF SuccessorNamed
  <2> QED BY <2>3, <2>4, <2>5
<1> QED BY <1>8, <1>9

LEMMA CommitDocMakes ==
  ASSUME ApprovalsInv, SuccessorsInv, NEW r \in DocRequests, CommitDoc(r)
  PROVE  SuccessorsInv'
<1> DEFINE w == docWork[r]
<1>1. ApprovalsTypeOK /\ w \in DocWorks /\ WorkOK(w) /\ w.at = "ready" /\ MakesWork(w)
  BY DEF ApprovalsInv, WorksOK, CommitDoc, ApprovalsTypeOK, DocWorks, SuccessorsInv
<1>2. /\ w.doc \in Docs /\ Present(w.doc) /\ w.to \in Existing /\ Null \notin Docs
      /\ docStatus \in [Docs -> DocStatuses]
      /\ w.child # Null => w.child \in Docs /\ ~ Present(w.child) /\ Origin[w.child] = w.doc
      /\ w.child # w.doc
  BY <1>1, ApprovalsAssumption DEF WorkOK, MakesOK, CommitDoc, ApprovalsTypeOK, Present
<1>3. StatusNow(w) \in Existing
  BY <1>2 DEF StatusNow, Present, Existing
<1>4. \A d \in Docs : FirstStatus(Kind[d]) \in Existing \ {"payment_completed"}
  BY FirstNeedsNothing, ApprovalsAssumption
<1>5. /\ docStatus'[w.doc] = StatusNow(w)
      /\ w.child # Null => docStatus'[w.child] = FirstStatus(Kind[w.child])
      /\ \A d \in Docs \ {w.doc, w.child} : docStatus'[d] = docStatus[d]
      /\ docCols'[w.doc] = ColsNow(w)
      /\ \A d \in Docs \ {w.doc} : docCols'[d] = docCols[d]
      /\ docWork'[r] = NoWork
      /\ \A q \in DocRequests \ {r} : docWork'[q] = docWork[q]
      /\ contested' = contested
  BY <1>1, <1>2 DEF CommitDoc, ApprovalsTypeOK
<1>6. \A d \in Docs : Present(d)' <=> (Present(d) \/ d = w.child)
  BY <1>2, <1>3, <1>4, <1>5 DEF Present, Existing
<1>7. \A d \in Docs : Made(d) = {c \in Docs : Origin[c] = d /\ Present(c)}
                      /\ Made(d)' = {c \in Docs : Origin[c] = d /\ Present(c)'}
  BY DEF Made, Successors, Present
<1>8. \A d \in Docs : Made(d)' = Made(d) \cup (IF d = w.doc THEN {w.child} \ {Null} ELSE {})
  <2> SUFFICES ASSUME NEW d \in Docs
               PROVE Made(d)' = Made(d) \cup (IF d = w.doc THEN {w.child} \ {Null} ELSE {})
    OBVIOUS
  <2>1. CASE w.child = Null
    BY <2>1, <1>2, <1>6, <1>7
  <2>2. CASE w.child # Null
    BY <2>2, <1>2, <1>6, <1>7
  <2> QED BY <2>1, <2>2
<1>9. ASSUME NEW q \in DocRequests PROVE MakesWork(docWork[q])'
  <2> SUFFICES ASSUME docWork'[q].at # "idle"
               PROVE (StillAsRead(docWork[q]) /\ NamesChild(docWork[q]) /\ StatusFits(docWork[q]))'
    BY DEF MakesWork
  <2> DEFINE v == docWork[q]
  <2>1. q # r /\ docWork'[q] = v /\ v.at # "idle" /\ MakesWork(v) /\ v.doc \in Docs /\ Present(v.doc)
    BY <1>5, NoWorkOK DEF ApprovalsInv, WorksOK, WorkOK, SuccessorsInv, Present
  <2>2. ASSUME v.doc \notin contested
        PROVE docStatus'[v.doc] = docStatus[v.doc] /\ docCols'[v.doc] = docCols[v.doc]
    <3>1. v.doc # w.doc
      BY <2>1, <2>2, <1>1 DEF ApprovalsInv, OverlapIsContested, DocOpen
    <3>2. v.doc # w.child
      BY <2>1, <1>2
    <3> QED BY <2>1, <3>1, <3>2, <1>5
  <2>3. StillAsRead(docWork[q])'
    BY <2>1, <2>2, <1>5 DEF MakesWork, StillAsRead
  <2>4. NamesChild(docWork[q])'
    BY <2>1, <1>8 DEF MakesWork, NamesChild, Candidates, Successors
  <2>5. StatusFits(docWork[q])'
    BY <2>1 DEF MakesWork, StatusFits
  <2> QED BY <2>3, <2>4, <2>5
<1>10. SharedIsContested'
  BY <1>5, NoWorkOK DEF SuccessorsInv, SharedIsContested, DocOpen, About
<1>11. OriginsPresent'
  <2> SUFFICES ASSUME NEW c \in Docs, Present(c)', Origin[c] # Null
               PROVE Origin[c] \in Docs /\ Present(Origin[c])'
    BY DEF OriginsPresent
  <2>1. Origin[c] \in Docs /\ Present(Origin[c])
    BY <1>2, <1>6 DEF SuccessorsInv, OriginsPresent
  <2> QED BY <2>1, <1>6
<1>12. ASSUME NEW d \in Docs PROVE (OrdersNamed(d) /\ SuccessorNamed(d))'
  <2>1. CASE d = w.doc
    <3>1. Made(d)' = Made(d) \cup ({w.child} \ {Null})
      BY <2>1, <1>8
    <3>2. docStatus'[d] = StatusNow(w) /\ docCols'[d] = ColsNow(w) /\ contested' = contested
      BY <2>1, <1>5
    <3> QED BY <2>1, <3>1, <3>2, CommitNames
  <2>2. CASE d # w.doc
    <3>1. Made(d)' = Made(d) /\ docCols'[d] = docCols[d] /\ Candidates(d)' = Candidates(d)
      BY <2>2, <1>5, <1>8 DEF Candidates, Successors
    <3>2. OrdersNamed(d) /\ SuccessorNamed(d)
      BY DEF SuccessorsInv
    <3>3. OrdersNamed(d)'
      BY <3>1, <3>2 DEF OrdersNamed, MadeIsNext
    <3>4. CASE d # w.child
      <4>1. docStatus'[d] = docStatus[d] /\ contested' = contested
        BY <2>2, <3>4, <1>5
      <4> QED BY <3>1, <3>2, <3>3, <4>1 DEF SuccessorNamed, MadeIsNext
    <3>5. CASE d = w.child
      <4>1. docStatus[d] = "absent" /\ docStatus'[d] = FirstStatus(Kind[d])
        BY <3>5, <1>2, <1>5, ApprovalsAssumption DEF Present
      <4>2. docStatus'[d] # "converted" /\ docStatus'[d] \notin Asked
        BY <4>1 DEF FirstStatus, Asked
      <4>3. contested' = contested /\ docStatus[d] # "converted" /\ docStatus[d] \notin Asked \cup Quotable
        BY <4>1, <1>5 DEF Asked, Quotable
      <4> QED BY <3>1, <3>2, <3>3, <4>2, <4>3 DEF SuccessorNamed, MadeIsNext
    <3> QED BY <3>3, <3>4, <3>5
  <2> QED BY <2>1, <2>2
<1> QED BY <1>9, <1>10, <1>11, <1>12 DEF SuccessorsInv

\* A confirmed payment exists, so that its settlement has asked for one.
LEMMA CommitPaymentMakes ==
  ASSUME ApprovalsInv, SuccessorsInv, NEW r \in DocRequests, CommitPayment(r)
  PROVE  SuccessorsInv'
<1> DEFINE w == docWork[r]
           o == Origin[w.doc]
<1>1. ApprovalsTypeOK /\ w \in DocWorks /\ WorkOK(w) /\ w.at = "above"
  BY DEF ApprovalsInv, WorksOK, CommitPayment, ApprovalsTypeOK, DocWorks
<1>2. /\ w.doc \in Docs /\ Kind[w.doc] = "payment" /\ Present(w.doc) /\ w.to = "completed"
      /\ docStatus \in [Docs -> DocStatuses] /\ Null \notin Docs
      /\ o \in Docs \ {w.doc} /\ Kind[o] = "settlement"
  BY <1>1, ApprovalsAssumption DEF WorkOK, ApprovalsTypeOK, Present
<1>3. Present(o)
  BY <1>2 DEF SuccessorsInv, OriginsPresent
<1>4. /\ docStatus'[w.doc] = "completed"
      /\ docStatus'[o] \in {"payment_completed", docStatus[o]}
      /\ \A d \in Docs \ {w.doc, o} : docStatus'[d] = docStatus[d]
      /\ docWork'[r] = NoWork /\ \A q \in DocRequests \ {r} : docWork'[q] = docWork[q]
      /\ docCols' = docCols /\ contested' = contested
  BY <1>1, <1>2 DEF CommitPayment, ApprovalsTypeOK
<1>5. \A d \in Docs : Present(d)' <=> Present(d)
  BY <1>2, <1>3, <1>4 DEF Present
<1>6. \A d \in Docs : Made(d)' = Made(d)
  BY <1>5 DEF Made, Successors, Present
<1>7. ASSUME NEW q \in DocRequests PROVE MakesWork(docWork[q])'
  <2> SUFFICES ASSUME docWork'[q].at # "idle"
               PROVE (StillAsRead(docWork[q]) /\ NamesChild(docWork[q]) /\ StatusFits(docWork[q]))'
    BY DEF MakesWork
  <2> DEFINE v == docWork[q]
  <2>1. q # r /\ docWork'[q] = v /\ v.at # "idle" /\ MakesWork(v) /\ v.doc \in Docs
    BY <1>4, NoWorkOK DEF ApprovalsInv, WorksOK, WorkOK, SuccessorsInv
  <2>2. ASSUME v.doc \notin contested, Kind[v.doc] # "payment"
        PROVE docStatus'[v.doc] = docStatus[v.doc]
    <3>1. About(v.doc) \cap About(w.doc) \subseteq contested
      BY <2>1, <1>1 DEF SuccessorsInv, SharedIsContested, DocOpen
    <3>2. v.doc # o
      BY <2>2, <3>1, <1>2 DEF About
    <3> QED BY <2>1, <2>2, <3>2, <1>2, <1>4
  <2>3. StillAsRead(docWork[q])'
    BY <2>1, <2>2, <1>4 DEF MakesWork, StillAsRead
  <2>4. NamesChild(docWork[q])'
    BY <2>1, <1>6 DEF MakesWork, NamesChild, Candidates, Successors
  <2>5. StatusFits(docWork[q])'
    BY <2>1 DEF MakesWork, StatusFits
  <2> QED BY <2>3, <2>4, <2>5
<1>8. SharedIsContested'
  BY <1>4, NoWorkOK DEF SuccessorsInv, SharedIsContested, DocOpen, About
<1>9. OriginsPresent'
  BY <1>5 DEF SuccessorsInv, OriginsPresent
<1>10. ASSUME NEW d \in Docs PROVE (OrdersNamed(d) /\ SuccessorNamed(d))'
  <2>1. OrdersNamed(d) /\ SuccessorNamed(d) /\ Candidates(d)' = Candidates(d)
    BY DEF SuccessorsInv, Candidates, Successors
  <2>2. OrdersNamed(d)'
    BY <2>1, <1>4, <1>6 DEF OrdersNamed, MadeIsNext
  <2>3. CASE d = o
    <3>1. w.doc \in Made(d)
      BY <2>3, <1>2 DEF Made, Successors, Present
    <3>2. d \notin contested => docCols[d]["next"] # Null /\ docStatus[d] \in Asked
      BY <2>1, <2>3, <3>1, <1>2 DEF SuccessorNamed, MadeIsNext
    <3>3. d \notin contested => docStatus'[d] \in Asked
      BY <2>3, <3>2, <1>4 DEF Asked
    <3> QED BY <2>1, <2>2, <2>3, <3>2, <3>3, <1>2, <1>4, <1>6 DEF SuccessorNamed, MadeIsNext
  <2>4. CASE d # o
    <3>1. Kind[d] # "payment" => docStatus'[d] = docStatus[d]
      BY <2>4, <1>2, <1>4
    <3> QED BY <2>1, <2>2, <3>1, <1>4, <1>6 DEF SuccessorNamed, MadeIsNext
  <2> QED BY <2>3, <2>4
<1> QED BY <1>7, <1>8, <1>9, <1>10 DEF SuccessorsInv

LEMMA SuccessorsStepInv ==
  ApprovalsInv /\ SuccessorsInv /\ [ApprovalsNext]_approvalsVars => SuccessorsInv'
<1> SUFFICES ASSUME ApprovalsInv, SuccessorsInv, [ApprovalsNext]_approvalsVars PROVE SuccessorsInv'
  OBVIOUS
<1>1. ASSUME NEW r \in DocRequests, DocStep(r) PROVE SuccessorsInv'
  <2>1. ASSUME NEW d \in Docs, NEW rule \in DocRules[Kind[d]], NEW id \in Ids,
               NEW c \in Targets(rule, d), ReadDoc(r, d, rule, c, id)
        PROVE SuccessorsInv'
    BY <2>1, ReadDocMakes
  <2>2. CASE ReadAbove(r)
    BY <2>2, ReadAboveMakes
  <2>3. CASE CommitDoc(r)
    BY <2>3, CommitDocMakes
  <2>4. CASE CommitPayment(r)
    BY <2>4, CommitPaymentMakes
  <2>5. CASE AbandonDoc(r)
    BY <2>5, AbandonDocMakes
  <2> QED BY <1>1, <2>1, <2>2, <2>3, <2>4, <2>5 DEF DocStep
<1>2. CASE UNCHANGED approvalsVars
  <2>1. UNCHANGED <<docStatus, docCols, contested>> /\ docWork' = docWork
    BY <1>2 DEF approvalsVars
  <2> QED BY <2>1, WorkOnlyMakes
<1> QED BY <1>1, <1>2 DEF ApprovalsNext

\* A document that was turned into another names it and there is no second:
\* for purchase requests whatever overlaps, for quotations and settlements as
\* long as requests about one do not; nothing is quoted to a customer that
\* was never published.
THEOREM DocumentsHaveOneSuccessor == ApprovalsSpec => []SuccessorsAgree
<1>1. SuccessorsInv => SuccessorsAgree
  <2> SUFFICES ASSUME SuccessorsInv, NEW d \in Docs
               PROVE /\ Kind[d] = "pur_request" \/ (Kind[d] \in {"quotation", "settlement"} /\ d \notin contested)
                          => Made(d) = {docCols[d]["next"]} \ {Null}
                     /\ Kind[d] = "quotation" /\ d \notin contested /\ Made(d) # {} => docStatus[d] = "converted"
                     /\ Kind[d] = "customer" /\ d \notin contested /\ Made(d) # {}
                          => docStatus[d] \in {"active", "disabled"}
    BY DEF SuccessorsAgree
  <2>1. OrdersNamed(d) /\ SuccessorNamed(d)
    BY DEF SuccessorsInv
  <2> QED BY <2>1 DEF OrdersNamed, SuccessorNamed, MadeIsNext, Quotable
<1> QED BY <1>1, ApprovalsInitInv, ApprovalsStepInv, SuccessorsInitInv, SuccessorsStepInv, PTL DEF ApprovalsSpec
-----------------------------------------------------------------------------
(***************************************************************************)
(* Switches.  What an answer rests on is still so unless it is marked      *)
(* unsure, and an entry that contradicts the rows is not younger than the  *)
(* last disturbance of its feature.                                        *)
(***************************************************************************)
SwitchRowsOK == [is : {"absent", "on", "off"}, under : SwitchKeys \cup {NoKey}]

AskPoints == {"idle", "own", "parent", "store", "write", "clear", "done"}

SwitchAsks == [at : AskPoints, server : Servers \cup {NoKey}, key : SwitchKeys \cup {NoKey},
         row : SwitchRowsOK, want : SwitchRowsOK, result : {"on", "off"}, sure : BOOLEAN]

SwitchesTypeOK ==
  /\ switch \in [SwitchKeys -> SwitchRowsOK]
  /\ cached \in [Servers -> [SwitchKeys -> Entries \cup {NoEntry}]]
  /\ asks \in [SwitchRequests -> SwitchAsks]
  /\ clock \in Nat
  /\ disturbed \in [SwitchKeys -> Int]
  /\ knows \in [Servers -> SUBSET SwitchKeys]

\* What a row alone says of its feature.
Own(row) == IF row.is = "off" THEN "off" ELSE "on"

AskOK(q) ==
  /\ q.at \notin {"idle", "done"} => q.server \in Servers /\ q.key \in SwitchKeys
  /\ q.at = "parent" => /\ q.row.under \in SwitchKeys /\ q.result = Own(q.row)
                        /\ q.sure => q.row = switch[q.key]
  /\ q.at = "store" /\ q.sure => q.result = Effective(q.key)
  /\ q.at \in {"own", "parent", "store"} => q.key # NoKey

EntryOK(s, k) ==
  cached[s][k] # NoEntry =>
    /\ cached[s][k].at <= clock
    /\ cached[s][k].value # Effective(k) => cached[s][k].at <= disturbed[k] /\ k \notin knows[s]

SwitchesInv ==
  /\ SwitchesTypeOK
  /\ \A r \in SwitchRequests : AskOK(asks[r])
  /\ \A s \in Servers, k \in SwitchKeys : EntryOK(s, k)

LEMMA EffectiveValue == \A k : Effective(k) \in {"on", "off"}
  BY DEF Effective

LEMMA ForgottenOK == Forgotten \in [SwitchKeys -> Entries \cup {NoEntry}]
  BY DEF Forgotten

LEMMA NoAskOK == NoAsk \in SwitchAsks /\ NoAsk.at = "idle" /\ Served \in SwitchAsks /\ Served.at = "done"
  BY DEF NoAsk, Served, SwitchAsks, AskPoints, NoRowYet, SwitchRowsOK

LEMMA SwitchesInitInv == SwitchesInit => SwitchesInv
<1> SUFFICES ASSUME SwitchesInit PROVE SwitchesInv
  OBVIOUS
<1>1. ASSUME NEW k \in SwitchKeys PROVE SwitchRows(k) \subseteq SwitchRowsOK
  BY SwitchesAssumption DEF SwitchRows, SwitchRowsOK, NoRowYet
<1>2. switch \in [SwitchKeys -> SwitchRowsOK]
  BY <1>1 DEF SwitchesInit
<1>3. disturbed \in [SwitchKeys -> Int] /\ clock \in Nat
  BY SwitchesAssumption DEF SwitchesInit
<1>4. SwitchesTypeOK
  BY <1>2, <1>3, ForgottenOK, NoAskOK DEF SwitchesInit, SwitchesTypeOK
<1>5. \A r \in SwitchRequests : AskOK(asks[r])
  BY NoAskOK DEF SwitchesInit, AskOK
<1>6. \A s \in Servers, k \in SwitchKeys : EntryOK(s, k)
  BY DEF SwitchesInit, EntryOK, Forgotten
<1> QED BY <1>4, <1>5, <1>6 DEF SwitchesInv

\* A step of a request that changes neither rows nor cache.
LEMMA AskOnlyInv ==
  ASSUME SwitchesInv, UNCHANGED <<switch, cached, clock, disturbed, knows>>,
         NEW r \in SwitchRequests, NEW q \in SwitchAsks, AskOK(q), asks' = [asks EXCEPT ![r] = q]
  PROVE  SwitchesInv'
<1>1. SwitchesTypeOK'
  BY DEF SwitchesInv, SwitchesTypeOK
<1>2. ASSUME NEW i \in SwitchRequests PROVE AskOK(asks[i])'
  <2>1. AskOK(asks'[i])
    BY DEF SwitchesInv, SwitchesTypeOK
  <2> QED BY <2>1 DEF AskOK, Effective
<1>3. ASSUME NEW s \in Servers, NEW k \in SwitchKeys PROVE EntryOK(s, k)'
  BY DEF SwitchesInv, EntryOK, Effective
<1> QED BY <1>1, <1>2, <1>3 DEF SwitchesInv

LEMMA AsksInv ==
  ASSUME SwitchesInv, NEW r \in SwitchRequests,
         \/ \E s \in Servers, k \in SwitchKeys :
              Check(r, s, k) \/ \E row \in Wanted(k) : ReadSwitch(r, s, k, row)
         \/ ReadOwn(r) \/ ReadParent(r) \/ CheckFails(r) \/ AbandonSwitch(r)
  PROVE  SwitchesInv'
<1>1. SwitchesTypeOK /\ asks[r] \in SwitchAsks /\ AskOK(asks[r])
  BY DEF SwitchesInv, SwitchesTypeOK
<1>2. ASSUME NEW s \in Servers, NEW k \in SwitchKeys, Check(r, s, k) PROVE SwitchesInv'
  <2> DEFINE q == [NoAsk EXCEPT !.at = "own", !.server = s, !.key = k]
  <2>1. q \in SwitchAsks /\ AskOK(q)
    BY NoAskOK, SwitchesAssumption DEF SwitchAsks, AskPoints, AskOK
  <2>2. asks' = [asks EXCEPT ![r] = q] /\ UNCHANGED <<switch, cached, clock, disturbed, knows>>
    BY <1>2 DEF Check
  <2> HIDE DEF q
  <2> QED BY <2>1, <2>2, AskOnlyInv
<1>3. ASSUME NEW s \in Servers, NEW k \in SwitchKeys, NEW row \in Wanted(k), ReadSwitch(r, s, k, row)
      PROVE SwitchesInv'
  <2> DEFINE q == [NoAsk EXCEPT !.at = "write", !.server = s, !.key = k, !.row = switch[k], !.want = row]
  <2>1. switch[k] \in SwitchRowsOK /\ row \in SwitchRowsOK
    BY <1>1, SwitchesAssumption DEF SwitchesTypeOK, Wanted, SwitchRowsOK
  <2>2. q \in SwitchAsks /\ AskOK(q)
    BY <2>1, NoAskOK, SwitchesAssumption DEF SwitchAsks, AskPoints, AskOK
  <2>3. asks' = [asks EXCEPT ![r] = q] /\ UNCHANGED <<switch, cached, clock, disturbed, knows>>
    BY <1>3 DEF ReadSwitch
  <2> HIDE DEF q
  <2> QED BY <2>2, <2>3, AskOnlyInv
<1>4. CASE ReadOwn(r)
  <2> DEFINE row == switch[asks[r].key]
             q == [asks[r] EXCEPT !.at = IF row.under = NoKey THEN "store" ELSE "parent",
                                  !.row = row, !.result = IF row.is = "off" THEN "off" ELSE "on"]
  <2>1. asks[r].at = "own" /\ asks[r].key \in SwitchKeys /\ asks[r].server \in Servers /\ asks[r].key # NoKey
    BY <1>1, <1>4 DEF ReadOwn, AskOK
  <2>2. row \in SwitchRowsOK
    BY <1>1, <2>1 DEF SwitchesTypeOK
  <2>3. /\ q \in SwitchAsks /\ q.key = asks[r].key /\ q.server = asks[r].server /\ q.row = row
        /\ q.at = (IF row.under = NoKey THEN "store" ELSE "parent")
        /\ q.result = Own(row)
    BY <1>1, <2>2 DEF SwitchAsks, AskPoints, Own
  <2>4. row.under = NoKey => q.result = Effective(q.key)
    BY <2>3 DEF Effective, Own
  <2>5. row.under # NoKey => row.under \in SwitchKeys
    BY <2>2 DEF SwitchRowsOK
  <2>6. asks' = [asks EXCEPT ![r] = q] /\ UNCHANGED <<switch, cached, clock, disturbed, knows>>
    BY <1>4 DEF ReadOwn
  <2> HIDE DEF q, row
  <2>7. row = switch[asks[r].key]
    BY DEF row
  <2>8. AskOK(q)
    BY <2>1, <2>3, <2>4, <2>5, <2>7 DEF AskOK
  <2> QED BY <2>3, <2>6, <2>8, AskOnlyInv
<1>5. CASE ReadParent(r)
  <2> DEFINE p == asks[r]
             q == [p EXCEPT !.at = "store", !.result = IF switch[p.row.under].is = "off" THEN "off" ELSE p.result]
  <2>1. p.at = "parent" /\ p.key \in SwitchKeys /\ p.server \in Servers /\ p.key # NoKey
        /\ p.row.under \in SwitchKeys /\ p.result = Own(p.row) /\ (p.sure => p.row = switch[p.key])
    BY <1>1, <1>5 DEF ReadParent, AskOK
  <2>2. /\ q \in SwitchAsks /\ q.key = p.key /\ q.server = p.server /\ q.at = "store" /\ q.sure = p.sure
        /\ q.result = IF switch[p.row.under].is = "off" THEN "off" ELSE p.result
    BY <1>1 DEF SwitchAsks, AskPoints
  <2>3. q.sure => q.result = Effective(q.key)
    BY <2>1, <2>2, SwitchesAssumption DEF Effective, Own
  <2>4. asks' = [asks EXCEPT ![r] = q] /\ UNCHANGED <<switch, cached, clock, disturbed, knows>>
    BY <1>5 DEF ReadParent
  <2> HIDE DEF q
  <2>5. AskOK(q)
    BY <2>1, <2>2, <2>3 DEF AskOK
  <2> QED BY <2>2, <2>4, <2>5, AskOnlyInv
<1>6. CASE CheckFails(r)
  <2> DEFINE q == [asks[r] EXCEPT !.at = "store", !.result = "on", !.sure = FALSE]
  <2>1. asks[r].at \in {"own", "parent"} /\ asks[r].key \in SwitchKeys /\ asks[r].server \in Servers
        /\ asks[r].key # NoKey
    BY <1>1, <1>6 DEF CheckFails, AskOK
  <2>2. q \in SwitchAsks /\ q.key = asks[r].key /\ q.server = asks[r].server /\ q.at = "store" /\ q.sure = FALSE
    BY <1>1 DEF SwitchAsks, AskPoints
  <2>3. asks' = [asks EXCEPT ![r] = q] /\ UNCHANGED <<switch, cached, clock, disturbed, knows>>
    BY <1>6 DEF CheckFails
  <2> HIDE DEF q
  <2>4. AskOK(q)
    BY <2>1, <2>2 DEF AskOK
  <2> QED BY <2>2, <2>3, <2>4, AskOnlyInv
<1>7. CASE AbandonSwitch(r)
  <2>1. Served \in SwitchAsks /\ AskOK(Served)
    BY NoAskOK DEF AskOK
  <2> QED BY <2>1, <1>7, AskOnlyInv DEF AbandonSwitch
<1> QED BY <1>2, <1>3, <1>4, <1>5, <1>6, <1>7

LEMMA StoreAnswerInv ==
  ASSUME SwitchesInv, NEW r \in SwitchRequests, StoreAnswer(r)
  PROVE  SwitchesInv'
<1> DEFINE q == asks[r]
           e == [value |-> q.result, at |-> clock]
<1>1. SwitchesTypeOK /\ q \in SwitchAsks /\ AskOK(q) /\ q.at = "store"
  BY DEF SwitchesInv, SwitchesTypeOK, StoreAnswer
<1>2. q.server \in Servers /\ q.key \in SwitchKeys /\ q.result \in {"on", "off"} /\ q.sure \in BOOLEAN
      /\ (q.sure => q.result = Effective(q.key))
  BY <1>1 DEF AskOK, SwitchAsks
<1>3. e \in Entries /\ e # NoEntry /\ e.value = q.result /\ e.at = clock
  BY <1>1, <1>2, SwitchesAssumption DEF Entries, SwitchesTypeOK
<1>4. /\ cached' = [cached EXCEPT ![q.server][q.key] = e]
      /\ disturbed' = IF q.sure THEN disturbed ELSE [disturbed EXCEPT ![q.key] = clock]
      /\ knows' = IF q.sure THEN knows ELSE [knows EXCEPT ![q.server] = @ \ {q.key}]
      /\ asks' = [asks EXCEPT ![r] = Served] /\ switch' = switch /\ clock' = clock
  BY DEF StoreAnswer
<1> HIDE DEF e
<1>5. /\ \A s \in Servers, k \in SwitchKeys :
           cached'[s][k] = IF s = q.server /\ k = q.key THEN e ELSE cached[s][k]
      /\ \A k \in SwitchKeys : disturbed'[k] = IF ~ q.sure /\ k = q.key THEN clock ELSE disturbed[k]
      /\ \A s \in Servers : knows'[s] = IF ~ q.sure /\ s = q.server THEN knows[s] \ {q.key} ELSE knows[s]
  BY <1>1, <1>2, <1>4 DEF SwitchesTypeOK
<1>6. SwitchesTypeOK'
  <2>1. cached' \in [Servers -> [SwitchKeys -> Entries \cup {NoEntry}]]
    BY <1>1, <1>2, <1>3, <1>4 DEF SwitchesTypeOK
  <2>2. disturbed' \in [SwitchKeys -> Int] /\ knows' \in [Servers -> SUBSET SwitchKeys]
    BY <1>1, <1>2, <1>4 DEF SwitchesTypeOK
  <2> QED BY <2>1, <2>2, <1>1, <1>4, NoAskOK DEF SwitchesTypeOK
<1>7. \A k : Effective(k)' = Effective(k)
  BY <1>4 DEF Effective
<1>8. ASSUME NEW i \in SwitchRequests PROVE AskOK(asks[i])'
  <2>1. asks'[i] = asks[i] \/ asks'[i] = Served
    BY <1>1, <1>4 DEF SwitchesTypeOK
  <2>2. AskOK(asks[i])
    BY DEF SwitchesInv
  <2> QED BY <2>1, <2>2, <1>4, <1>7, NoAskOK DEF AskOK, Effective
<1>9. ASSUME NEW s \in Servers, NEW k \in SwitchKeys PROVE EntryOK(s, k)'
  <2>1. EntryOK(s, k) /\ clock \in Nat /\ disturbed[k] \in Int
        /\ (cached[s][k] # NoEntry => cached[s][k].at \in Nat)
    BY <1>1 DEF SwitchesInv, SwitchesTypeOK, Entries
  <2>2. CASE s = q.server /\ k = q.key
    BY <2>1, <2>2, <1>2, <1>3, <1>4, <1>5, <1>7 DEF EntryOK
  <2>3. CASE ~ (s = q.server /\ k = q.key)
    <3>1. cached'[s][k] = cached[s][k] /\ (k \notin knows[s] => k \notin knows'[s])
      BY <2>3, <1>5
    <3>2. cached[s][k] # NoEntry /\ cached[s][k].at <= disturbed[k] => cached[s][k].at <= disturbed'[k]
      BY <2>1, <1>5 DEF EntryOK
    <3> QED BY <3>1, <3>2, <2>1, <1>4, <1>7 DEF EntryOK
  <2> QED BY <2>2, <2>3
<1> QED BY <1>6, <1>8, <1>9 DEF SwitchesInv

LEMMA CommitSwitchInv ==
  ASSUME SwitchesInv, NEW r \in SwitchRequests, CommitSwitch(r)
  PROVE  SwitchesInv'
<1> DEFINE q == asks[r]
           c == [q EXCEPT !.at = "clear"]
<1>1. SwitchesTypeOK /\ q \in SwitchAsks /\ AskOK(q) /\ q.at = "write"
  BY DEF SwitchesInv, SwitchesTypeOK, CommitSwitch
<1>2. q.server \in Servers /\ q.key \in SwitchKeys /\ q.want \in SwitchRowsOK
  BY <1>1 DEF AskOK, SwitchAsks
<1>3. /\ switch' = IF q.want.is = q.row.is THEN switch ELSE [switch EXCEPT ![q.key] = q.want]
      /\ disturbed' = [k \in SwitchKeys |-> IF k \in Affected(q.key) THEN clock ELSE disturbed[k]]
      /\ knows' = [s \in Servers |-> knows[s] \ Affected(q.key)]
      /\ asks' = [i \in SwitchRequests |->
           IF i = r THEN c
           ELSE IF asks[i].key \in Affected(q.key) /\ asks[i].at \in {"parent", "store"}
                THEN [asks[i] EXCEPT !.sure = FALSE] ELSE asks[i]]
      /\ cached' = cached /\ clock' = clock
  BY DEF CommitSwitch
<1>4. c \in SwitchAsks /\ c.at = "clear" /\ c.server = q.server /\ c.key = q.key
  BY <1>1 DEF SwitchAsks, AskPoints
<1> HIDE DEF c
<1>5. \A k \in SwitchKeys : k # q.key => switch'[k] = switch[k]
  BY <1>1, <1>3 DEF SwitchesTypeOK
<1>6. \A k \in SwitchKeys \ Affected(q.key) : Effective(k)' = Effective(k) /\ switch'[k] = switch[k]
  <2> SUFFICES ASSUME NEW k \in SwitchKeys \ Affected(q.key)
               PROVE Effective(k)' = Effective(k) /\ switch'[k] = switch[k]
    OBVIOUS
  <2>1. k # q.key /\ switch[k].under # q.key /\ switch[k].under \in SwitchKeys \cup {NoKey}
    BY <1>1, <1>2 DEF Affected, SwitchesTypeOK, SwitchRowsOK
  <2>2. switch'[k] = switch[k]
    BY <2>1, <1>5
  <2>3. switch[k].under # NoKey => switch'[switch[k].under] = switch[switch[k].under]
    BY <2>1, <1>5
  <2> QED BY <2>2, <2>3 DEF Effective
<1>7. SwitchesTypeOK'
  <2>1. switch' \in [SwitchKeys -> SwitchRowsOK]
    BY <1>1, <1>2, <1>3 DEF SwitchesTypeOK
  <2>2. asks' \in [SwitchRequests -> SwitchAsks]
    <3>1. \A i \in SwitchRequests : [asks[i] EXCEPT !.sure = FALSE] \in SwitchAsks
      BY <1>1 DEF SwitchesTypeOK, SwitchAsks
    <3> QED BY <3>1, <1>1, <1>3, <1>4 DEF SwitchesTypeOK
  <2>3. disturbed' \in [SwitchKeys -> Int] /\ knows' \in [Servers -> SUBSET SwitchKeys]
    BY <1>1, <1>3 DEF SwitchesTypeOK
  <2> QED BY <2>1, <2>2, <2>3, <1>1, <1>3 DEF SwitchesTypeOK
<1>8. ASSUME NEW i \in SwitchRequests PROVE AskOK(asks[i])'
  <2>1. AskOK(asks[i]) /\ asks[i] \in SwitchAsks
    BY <1>1 DEF SwitchesInv, SwitchesTypeOK
  <2>2. CASE i = r
    <3>1. asks'[i] = c
      BY <2>2, <1>3
    <3> QED BY <3>1, <1>2, <1>4, SwitchesAssumption DEF AskOK
  <2>3. CASE i # r /\ asks[i].key \in Affected(q.key) /\ asks[i].at \in {"parent", "store"}
    <3> DEFINE u == [asks[i] EXCEPT !.sure = FALSE]
    <3>1. asks'[i] = u
      BY <2>3, <1>3
    <3>2. u.at = asks[i].at /\ u.server = asks[i].server /\ u.key = asks[i].key
          /\ u.row = asks[i].row /\ u.result = asks[i].result /\ u.sure = FALSE
      BY <2>1 DEF SwitchAsks
    <3> HIDE DEF u
    <3> QED BY <3>1, <3>2, <2>1 DEF AskOK
  <2>4. CASE i # r /\ ~ (asks[i].key \in Affected(q.key) /\ asks[i].at \in {"parent", "store"})
    <3>1. asks'[i] = asks[i]
      BY <2>4, <1>3
    <3>2. CASE asks[i].at \in {"parent", "store"}
      <4>1. asks[i].key \in SwitchKeys \ Affected(q.key)
        BY <2>1, <2>4, <3>2 DEF AskOK
      <4>2. ASSUME NEW k \in SwitchKeys \ Affected(q.key), k = asks[i].key
            PROVE AskOK(asks[i])'
        <5>1. Effective(k)' = Effective(k) /\ switch'[k] = switch[k]
          BY <1>6
        <5> QED BY <5>1, <4>2, <3>1, <2>1 DEF AskOK, Effective
      <4> QED BY <4>1, <4>2
    <3>3. CASE asks[i].at \notin {"parent", "store"}
      BY <3>1, <3>3, <2>1 DEF AskOK
    <3> QED BY <3>2, <3>3
  <2> QED BY <2>2, <2>3, <2>4
<1>9. ASSUME NEW s \in Servers, NEW k \in SwitchKeys PROVE EntryOK(s, k)'
  <2>1. EntryOK(s, k) /\ cached'[s][k] = cached[s][k] /\ clock' = clock
        /\ disturbed'[k] = (IF k \in Affected(q.key) THEN clock ELSE disturbed[k])
        /\ knows'[s] = knows[s] \ Affected(q.key)
    BY <1>3 DEF SwitchesInv
  <2>2. CASE k \in Affected(q.key)
    BY <2>1, <2>2 DEF EntryOK
  <2>3. CASE k \notin Affected(q.key)
    <3>1. Effective(k)' = Effective(k)
      BY <2>3, <1>6
    <3> QED BY <2>1, <2>3, <3>1 DEF EntryOK
  <2> QED BY <2>2, <2>3
<1> QED BY <1>7, <1>8, <1>9 DEF SwitchesInv

\* A cache that is cleared has nothing to contradict the rows.
LEMMA ClearedInv ==
  ASSUME SwitchesInv, NEW s \in Servers, cached' = [cached EXCEPT ![s] = Forgotten],
         knows' = [knows EXCEPT ![s] = SwitchKeys], UNCHANGED <<switch, clock, disturbed>>,
         asks' \in [SwitchRequests -> SwitchAsks],
         \A i \in SwitchRequests : asks'[i] \in {asks[i], Served}
  PROVE  SwitchesInv'
<1>1. SwitchesTypeOK
  BY DEF SwitchesInv
<1>2. SwitchesTypeOK'
  BY <1>1, ForgottenOK DEF SwitchesTypeOK
<1>3. ASSUME NEW i \in SwitchRequests PROVE AskOK(asks[i])'
  <2>1. AskOK(asks'[i])
    BY NoAskOK DEF SwitchesInv, AskOK
  <2> QED BY <2>1 DEF AskOK, Effective
<1>4. ASSUME NEW p \in Servers, NEW k \in SwitchKeys PROVE EntryOK(p, k)'
  <2>1. CASE p = s
    BY <2>1, <1>1 DEF EntryOK, Forgotten, SwitchesTypeOK
  <2>2. CASE p # s
    <3>1. EntryOK(p, k) /\ cached'[p] = cached[p] /\ knows'[p] = knows[p]
      BY <2>2, <1>1 DEF SwitchesInv, SwitchesTypeOK
    <3> QED BY <3>1 DEF EntryOK, Effective
  <2> QED BY <2>1, <2>2
<1> QED BY <1>2, <1>3, <1>4 DEF SwitchesInv

LEMMA SwitchesStepInv == SwitchesInv /\ [SwitchesNext]_switchesVars => SwitchesInv'
<1> SUFFICES ASSUME SwitchesInv, [SwitchesNext]_switchesVars PROVE SwitchesInv'
  OBVIOUS
<1>0. SwitchesTypeOK
  BY DEF SwitchesInv
<1>1. ASSUME NEW r \in SwitchRequests, SwitchStep(r) PROVE SwitchesInv'
  <2>1. CASE StoreAnswer(r)
    BY <2>1, StoreAnswerInv
  <2>2. CASE CommitSwitch(r)
    BY <2>2, CommitSwitchInv
  <2>3. CASE Invalidate(r)
    <3>1. asks[r].server \in Servers
      BY <2>3 DEF Invalidate, SwitchesInv, AskOK
    <3>2. asks' \in [SwitchRequests -> SwitchAsks] /\ \A i \in SwitchRequests : asks'[i] \in {asks[i], Served}
      BY <2>3, <1>0, NoAskOK DEF Invalidate, SwitchesTypeOK
    <3> QED BY <2>3, <3>1, <3>2, ClearedInv DEF Invalidate
  <2> QED BY <1>1, <2>1, <2>2, <2>3, AsksInv DEF SwitchStep
<1>2. ASSUME NEW s \in Servers, Restart(s) PROVE SwitchesInv'
  <2>1. asks' \in [SwitchRequests -> SwitchAsks] /\ \A i \in SwitchRequests : asks'[i] \in {asks[i], Served}
    BY <1>0, <1>2, NoAskOK DEF Restart, SwitchesTypeOK
  <2> QED BY <1>2, <2>1, ClearedInv DEF Restart
<1>3. CASE Tick
  <2>1. SwitchesTypeOK' /\ clock <= clock' /\ \A k : Effective(k)' = Effective(k)
    BY <1>0, <1>3 DEF Tick, SwitchesTypeOK, Effective
  <2>2. ASSUME NEW i \in SwitchRequests PROVE AskOK(asks[i])'
    BY <1>3 DEF Tick, SwitchesInv, AskOK, Effective
  <2>3. ASSUME NEW s \in Servers, NEW k \in SwitchKeys PROVE EntryOK(s, k)'
    <3>1. EntryOK(s, k) /\ (cached[s][k] # NoEntry => cached[s][k].at \in Nat)
          /\ clock \in Nat /\ clock' = clock + 1
      BY <1>0, <1>3 DEF Tick, SwitchesInv, SwitchesTypeOK, Entries
    <3> QED BY <3>1, <2>1, <1>3 DEF Tick, EntryOK
  <2> QED BY <2>1, <2>2, <2>3 DEF SwitchesInv
<1>4. CASE UNCHANGED switchesVars
  BY <1>4 DEF switchesVars, SwitchesInv, SwitchesTypeOK, AskOK, EntryOK, Effective
<1> QED BY <1>1, <1>2, <1>3, <1>4 DEF SwitchesNext

\* However checks, updates, failures and restarts overlap, an answer
\* contradicts the switches for at most TTL after the last update or the last
\* check it disturbed, and not at all where the cache was cleared in between.
THEOREM SwitchesAreObeyed == SwitchesSpec => []SwitchesObeyed
<1>1. SwitchesInv => SwitchesObeyed
  <2> SUFFICES ASSUME SwitchesInv PROVE SwitchesObeyed
    OBVIOUS
  <2>1. \A r \in SwitchRequests :
          asks[r].at = "store" /\ asks[r].sure => asks[r].result = Effective(asks[r].key)
    BY DEF SwitchesInv, AskOK
  <2>2. ASSUME NEW s \in Servers, NEW k \in SwitchKeys, Live(s, k), cached[s][k].value # Effective(k)
        PROVE clock - disturbed[k] < TTL
    <3>1. cached[s][k] # NoEntry /\ clock - cached[s][k].at < TTL
      BY <2>2 DEF Live
    <3>2. cached[s][k].at \in Nat /\ clock \in Nat /\ disturbed[k] \in Int /\ TTL \in Nat
      BY <3>1, SwitchesAssumption DEF SwitchesInv, SwitchesTypeOK, Entries
    <3>3. cached[s][k].at <= disturbed[k]
      BY <2>2, <3>1 DEF SwitchesInv, EntryOK
    <3> QED BY <3>1, <3>2, <3>3
  <2>3. ASSUME NEW s \in Servers, NEW k \in knows[s], cached[s][k] # NoEntry
        PROVE cached[s][k].value = Effective(k)
    <3>1. k \in SwitchKeys
      BY DEF SwitchesInv, SwitchesTypeOK
    <3> QED BY <2>3, <3>1 DEF SwitchesInv, EntryOK
  <2> QED BY <2>1, <2>2, <2>3 DEF SwitchesObeyed
<1> QED BY <1>1, SwitchesInitInv, SwitchesStepInv, PTL DEF SwitchesSpec
=============================================================================
