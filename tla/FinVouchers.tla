----------------------------- MODULE FinVouchers -----------------------------
(***************************************************************************)
(* Settlements, vouchers, payments and receipts (application/fin/          *)
(* settlement_service.py, payment_service.py, receipt_service.py).         *)
(*                                                                         *)
(* A settlement that is confirmed issues its vouchers.  A payment that the *)
(* bank reports as made, and a receipt that is written off, settle lines:  *)
(* each line reads a voucher, checks the amount against what is open and   *)
(* writes the whole row back.  A request is one transaction (READ          *)
(* COMMITTED, no SELECT ... FOR UPDATE, no version column): it reads its   *)
(* document once, and every save is an upsert that waits for the row lock  *)
(* of another transaction and then overwrites what that one wrote.         *)
(*                                                                         *)
(* Not distinguished: currencies, tax, payment methods, who may approve    *)
(* (PaymentApprovalPolicy only refuses), the order read views that may     *)
(* refuse a settlement.  Receipts are registered outside of this code.     *)
(***************************************************************************)
EXTENDS Integers, FiniteSets, Sequences, Functions

CONSTANTS
  Settlements, Payments, Receipts, Vouchers,
  Issues,       \* Settlements -> the vouchers AR-<no>, AP-<no> they issue
  Due,          \* Vouchers -> receivable_amount or payable_amount
  PayLine,      \* Payments -> [voucher, amount]
  Arrived,      \* Receipts -> receipt_amount
  WriteOffs,    \* Receipts -> the lists of lines a client may send
  FinRequests,  \* requests in flight at the same time
  NoDoc         \* what an idle request is about

SettleDocs == Payments \cup Receipts
FinDocs    == Settlements \cup SettleDocs
PayLines   == [voucher : Vouchers, amount : Nat]

ASSUME FinVouchersAssumption ==
  /\ NoDoc \notin FinDocs /\ IsFiniteSet(Payments) /\ IsFiniteSet(Receipts)
  /\ Settlements \cap SettleDocs = {} /\ Payments \cap Receipts = {}
  /\ Issues \in [Settlements -> SUBSET Vouchers]
  \* A voucher's number contains its settlement's, which is unique.
  /\ \A d, e \in Settlements : d # e => Issues[d] \cap Issues[e] = {}
  /\ Due \in [Vouchers -> Nat]
  /\ PayLine \in [Payments -> PayLines]
  /\ Arrived \in [Receipts -> Nat]
  /\ WriteOffs \in [Receipts -> SUBSET Seq(PayLines)]

VARIABLES
  fdoc,     \* the documents' rows: status, and the lines they settle
  issued,   \* vouchers that have a row
  paid,     \* received_amount, paid_amount
  freq,     \* what each request has read and written
  disputed  \* vouchers touched by two overlapping requests, or skipped

finVouchersVars == <<fdoc, issued, paid, freq, disputed>>

FinStatuses == {"absent", "DRAFT", "CONFIRMED", "CANCELLED", "PENDING_APPROVAL", "APPROVED",
                "EXECUTING", "SUCCESS", "FAILED", "PENDING_CONFIRM", "WRITE_OFF"}

FinRow(status, lines) == [status |-> status, lines |-> lines]

\* Which status each request asks for, and the one it leaves.
FinFrom == [settle  |-> {"DRAFT"},             cancel  |-> {"DRAFT", "CONFIRMED"},
            draft   |-> {"absent"},            request |-> {"absent"},
            approve |-> {"PENDING_APPROVAL"},  reject  |-> {"PENDING_APPROVAL"},
            execute |-> {"APPROVED"},          paid    |-> {"EXECUTING"},
            unpaid  |-> {"EXECUTING"},         confirm |-> {"PENDING_CONFIRM"},
            writeOff |-> {"CONFIRMED"}]
FinTo   == [settle  |-> "CONFIRMED",  cancel |-> "CANCELLED",  draft   |-> "DRAFT",
            request |-> "PENDING_APPROVAL",  approve |-> "APPROVED",  reject |-> "DRAFT",
            execute |-> "EXECUTING",  paid |-> "SUCCESS",  unpaid |-> "FAILED",
            confirm |-> "CONFIRMED",  writeOff |-> "WRITE_OFF"]

\* The requests that only move a status, by the documents they are about.
Moves(d) == IF d \in Settlements THEN {"draft", "cancel"}
            ELSE IF d \in Payments THEN {"approve", "reject", "execute", "unpaid"}
            ELSE {"confirm"}

FinOps == DOMAIN FinFrom \cup {"none"}

FinRequest(op, d, at, row) ==
  [op |-> op, doc |-> d, at |-> at, row |-> row, seen |-> 0, next |-> 1, wrote |-> <<>>]

FinIdle == FinRequest("none", NoDoc, "idle", FinRow("absent", <<>>))

FinVouchersInit ==
  /\ fdoc = [d \in FinDocs |->
               FinRow(IF d \in Receipts THEN "PENDING_CONFIRM" ELSE "absent", <<>>)]
  /\ issued = {} /\ disputed = {}
  /\ paid = [v \in Vouchers |-> 0]
  /\ freq = [r \in FinRequests |-> FinIdle]

-----------------------------------------------------------------------------
(***************************************************************************)
(* A request reads its document and checks it                              *)
(***************************************************************************)
Named(lines) == {lines[k].voucher : k \in DOMAIN lines}

\* The vouchers a document is about.
Reach(d) ==
  IF d \in Settlements THEN Issues[d]
  ELSE IF d \in Payments THEN {PayLine[d].voucher}
  ELSE UNION {Named(lines) : lines \in WriteOffs[d]}

FinOpen(r) == freq[r].at # "idle"

\* Requests that overlap and have a voucher in common dispute it.
Overlaps(d) ==
  UNION {Reach(d) \cap Reach(freq[q].doc) : q \in {p \in FinRequests : FinOpen(p)}}

FinRead(r, op, d, row) ==
  /\ ~ FinOpen(r)
  /\ freq' = [freq EXCEPT ![r] = FinRequest(op, d, "save", row)]
  /\ disputed' = disputed \cup Overlaps(d)
  /\ UNCHANGED <<fdoc, issued, paid>>

\* _check_transition of the aggregate.
Asks(op, d) == fdoc[d].status \in FinFrom[op]

ReadMove(r, op, d) ==
  /\ op \in Moves(d) /\ Asks(op, d)
  /\ FinRead(r, op, d, FinRow(FinTo[op], fdoc[d].lines))

ReadSettle(r, d) == Asks("settle", d) /\ FinRead(r, "settle", d, FinRow("CONFIRMED", <<>>))

Unpaid(v) == Due[v] - paid[v]

ReadPaymentRequest(r, d) ==
  LET line == PayLine[d] IN
  /\ Asks("request", d)
  /\ line.voucher \in issued /\ line.amount <= Unpaid(line.voucher)
  /\ FinRead(r, "request", d, FinRow("PENDING_APPROVAL", <<>>))

\* bank_callback with a successful payload.
ReadCallback(r, d) == Asks("paid", d) /\ FinRead(r, "paid", d, FinRow("SUCCESS", <<PayLine[d]>>))

WriteOffTotal(lines) == SumFunction([k \in DOMAIN lines |-> lines[k].amount])

ReadWriteOff(r, d, lines) ==
  /\ Asks("writeOff", d)
  /\ lines # <<>> /\ WriteOffTotal(lines) <= Arrived[d]
  /\ FinRead(r, "writeOff", d, FinRow("WRITE_OFF", lines))

-----------------------------------------------------------------------------
(***************************************************************************)
(* It saves the document, and then line by line the vouchers               *)
(***************************************************************************)
HasDocument(q, d) == freq[q].doc = d /\ freq[q].at \in {"line", "apply"}

\* No other transaction holds the row's lock.
DocumentFree(d) == \A q \in FinRequests : ~ HasDocument(q, d)
VoucherFree(r, v) == \A q \in FinRequests \ {r} : v \notin DOMAIN freq[q].wrote

FinEnds(r) == freq' = [freq EXCEPT ![r] = FinIdle]

SaveMove(r) ==
  /\ freq[r].at = "save" /\ freq[r].op \notin {"settle", "paid", "writeOff"}
  /\ DocumentFree(freq[r].doc)
  /\ fdoc' = [fdoc EXCEPT ![freq[r].doc] = freq[r].row]
  /\ FinEnds(r)
  /\ UNCHANGED <<issued, paid, disputed>>

\* confirm_settlement: the document, and its vouchers with nothing paid.
SaveSettlement(r) ==
  LET d == freq[r].doc IN
  /\ freq[r].at = "save" /\ freq[r].op = "settle"
  /\ DocumentFree(d) /\ \A v \in Issues[d] : VoucherFree(r, v)
  /\ fdoc' = [fdoc EXCEPT ![d] = freq[r].row]
  /\ issued' = issued \cup Issues[d]
  /\ paid' = [v \in Vouchers |-> IF v \in Issues[d] THEN 0 ELSE paid[v]]
  /\ FinEnds(r)
  /\ UNCHANGED disputed

SaveSettling(r) ==
  /\ freq[r].at = "save" /\ freq[r].op \in {"paid", "writeOff"}
  /\ DocumentFree(freq[r].doc)
  /\ freq' = [freq EXCEPT ![r].at = "line"]
  /\ UNCHANGED <<fdoc, issued, paid, disputed>>

LinesLeft(r) == freq[r].at = "line" /\ freq[r].next <= Len(freq[r].row.lines)
Line(r)      == freq[r].row.lines[freq[r].next]

\* A transaction sees what others have committed and what it wrote itself.
Sees(r, v) == IF v \in DOMAIN freq[r].wrote THEN freq[r].wrote[v] ELSE paid[v]

\* Mutant: the open amount is not compared.
FitsAlways(r) == TRUE

\* apply_payment and apply_receipt refuse more than what is open.
Fits(r) == Line(r).amount <= Due[Line(r).voucher] - Sees(r, Line(r).voucher)

ReadVoucher(r) ==
  /\ LinesLeft(r) /\ Line(r).voucher \in issued /\ Fits(r)
  /\ freq' = [freq EXCEPT ![r].at = "apply", ![r].seen = Sees(r, Line(r).voucher)]
  /\ UNCHANGED <<fdoc, issued, paid, disputed>>

\* A voucher that does not exist is passed over without an error.
SkipVoucher(r) ==
  /\ LinesLeft(r) /\ Line(r).voucher \notin issued
  /\ freq' = [freq EXCEPT ![r].next = @ + 1]
  /\ disputed' = disputed \cup {Line(r).voucher}
  /\ UNCHANGED <<fdoc, issued, paid>>

\* The rows the transaction has written when this line is done.
Written(r) ==
  LET v == Line(r).voucher
  IN [w \in DOMAIN freq[r].wrote \cup {v} |->
        IF w = v THEN freq[r].seen + Line(r).amount ELSE freq[r].wrote[w]]

SaveVoucher(r) ==
  /\ freq[r].at = "apply"
  /\ VoucherFree(r, Line(r).voucher)
  /\ freq' = [freq EXCEPT ![r].at = "line", ![r].next = @ + 1, ![r].wrote = Written(r)]
  /\ UNCHANGED <<fdoc, issued, paid, disputed>>

\* Mutant: the last line is left out.
CommitEarly(r) ==
  /\ freq[r].at = "line" /\ freq[r].next >= Len(freq[r].row.lines)
  /\ fdoc' = [fdoc EXCEPT ![freq[r].doc] = freq[r].row]
  /\ paid' = [v \in Vouchers |-> Sees(r, v)]
  /\ FinEnds(r)
  /\ UNCHANGED <<issued, disputed>>

CommitSettling(r) ==
  /\ freq[r].at = "line" /\ freq[r].next > Len(freq[r].row.lines)
  /\ fdoc' = [fdoc EXCEPT ![freq[r].doc] = freq[r].row]
  /\ paid' = [v \in Vouchers |-> Sees(r, v)]
  /\ FinEnds(r)
  /\ UNCHANGED <<issued, disputed>>

\* A refused amount, an exception, a deadlock's victim: all is rolled back.
FinRollback(r) ==
  /\ FinOpen(r)
  /\ FinEnds(r)
  /\ UNCHANGED <<fdoc, issued, paid, disputed>>

FinVouchersStep(r) ==
  \/ \E d \in Settlements : ReadSettle(r, d)
  \/ \E d \in FinDocs, op \in FinOps : ReadMove(r, op, d)
  \/ \E d \in Payments : ReadPaymentRequest(r, d) \/ ReadCallback(r, d)
  \/ \E d \in Receipts : \E lines \in WriteOffs[d] : ReadWriteOff(r, d, lines)
  \/ SaveMove(r) \/ SaveSettlement(r) \/ SaveSettling(r)
  \/ ReadVoucher(r) \/ SkipVoucher(r) \/ SaveVoucher(r) \/ CommitSettling(r)
  \/ FinRollback(r)

FinVouchersNext == \E r \in FinRequests : FinVouchersStep(r)

FinVouchersSpec == FinVouchersInit /\ [][FinVouchersNext]_finVouchersVars

-----------------------------------------------------------------------------
FinVouchersTypeOK ==
  /\ fdoc \in [FinDocs -> [status : FinStatuses, lines : Seq(PayLines)]]
  /\ issued \subseteq Vouchers /\ disputed \subseteq Vouchers
  /\ paid \in [Vouchers -> Nat]
  /\ DOMAIN freq = FinRequests
  /\ \A r \in FinRequests :
       /\ freq[r].op \in FinOps
       /\ freq[r].doc \in FinDocs \cup {NoDoc}
       /\ freq[r].at \in {"idle", "save", "line", "apply"}
       /\ freq[r].row \in [status : FinStatuses, lines : Seq(PayLines)]
       /\ freq[r].seen \in Nat /\ freq[r].next \in Nat \ {0}
       /\ DOMAIN freq[r].wrote \subseteq Vouchers
       /\ \A v \in DOMAIN freq[r].wrote : freq[r].wrote[v] \in Nat

\* However callbacks, write-offs and confirmations of settlements overlap, no
\* voucher is paid beyond its amount: every write is the value of one read
\* that has passed the check (ap_voucher_aggregate lines 68-90).
NeverOverpaid == \A v \in Vouchers : paid[v] <= Due[v]

\* What a payment or receipt that has ended says of a voucher.
SettledOn(d, v) ==
  IF fdoc[d].status \in {"SUCCESS", "WRITE_OFF"}
  THEN SumFunction([k \in DOMAIN fdoc[d].lines |->
                      IF fdoc[d].lines[k].voucher = v THEN fdoc[d].lines[k].amount ELSE 0])
  ELSE 0

\* A voucher says what the payments and receipts of it say, however often the
\* bank repeats a callback, whatever fails half way and whatever happens to
\* other vouchers at the same time; only requests that overlap on the voucher
\* itself can make the two disagree (payment_service lines 156-188,
\* receipt_service lines 63-94).
VouchersMatchMoney ==
  \A v \in Vouchers \ disputed :
    paid[v] = SumFunction([d \in SettleDocs |-> SettledOn(d, v)])
=============================================================================
