------------------------------ MODULE Approvals ------------------------------
(***************************************************************************)
(* Documents that are approved and turned into others: sales customers,    *)
(* quotations, returns and settlements (application/sales/                 *)
(* sal_app_services.py), purchase requests, orders and returns             *)
(* (interfaces/api/v1/pur/ with application/purchasing/), and governance   *)
(* requests (application/governance/).                                     *)
(*                                                                         *)
(* All of them are handled alike.  A request reads a row without a lock,   *)
(* looks at its status (some handlers do not), changes the object and      *)
(* commits.  The ORM writes only the columns whose value differs from the  *)
(* one that was read, over whatever the row holds by then.  A row lock     *)
(* only delays the second of two writers, so that writing and committing   *)
(* are one step; calls to the warehouse, which take place before it, are   *)
(* left out.  What differs between the documents is the table DocRules.    *)
(*                                                                         *)
(* Not distinguished: amounts and lines, who may approve, columns no       *)
(* status depends on.  Sales orders are SalesFulfilment's from here on.    *)
(***************************************************************************)
EXTENDS Integers, FiniteSets

CONSTANTS
  Docs,
  Kind,         \* Docs -> DocKinds
  Origin,       \* Docs -> the document one may be made from, or Null
  DocRequests,  \* requests in flight at the same time
  Ids,          \* what a request may write: its user, an invoice
  Null

DocKinds == {"customer", "quotation", "sales_order", "sales_return", "settlement", "payment",
             "pur_request", "pur_order", "pur_return", "governance"}

ASSUME ApprovalsAssumption ==
  /\ Null \notin Docs \cup Ids
  /\ Kind \in [Docs -> DocKinds]
  /\ Origin \in [Docs -> Docs \cup {Null}]
  /\ \A d \in Docs : Kind[d] = "payment" =>
       /\ Origin[d] \in Docs \ {d} /\ Kind[Origin[d]] = "settlement"

VARIABLES
  docStatus,
  docCols,      \* the columns that say who approved, and what came of it
  docWork,      \* what each request has read and is going to write
  contested     \* documents that overlapping requests were about

approvalsVars == <<docStatus, docCols, docWork, contested>>

DocStatuses == {"absent", "draft", "submitted", "approved", "rejected", "active", "disabled",
                "converted", "cancelled", "receiving", "completed", "pending", "reconciled",
                "invoice_matched", "payment_requested", "payment_completed", "requested",
                "sent", "closed", "shipped", "published", "rolled_back"}

Existing == DocStatuses \ {"absent"}

\* "next" stands for converted_order_id and payment_receipt_id.
DocColumns == {"approved_by", "reconciled_by", "invoice_id", "published_by", "rollback_by", "next"}

DocValues == Docs \cup Ids \cup {Null}

-----------------------------------------------------------------------------
(***************************************************************************)
(* What the handlers ask for and what they write                           *)
(***************************************************************************)
DocRule(op, from, to, signs) == [op |-> op, from |-> from, to |-> to, signs |-> signs]

\* Customers have no column approved_by; what approve_customer assigns to it
\* is not stored.
CustomerRules ==
  {DocRule("submit",  {"draft"},     "submitted", {}),
   DocRule("approve", {"submitted"}, "approved",  {}),
   DocRule("return",  {"submitted"}, "draft",     {}),
   DocRule("publish", {"approved"},  "active",    {}),
   DocRule("disable", {"active"},    "disabled",  {}),
   DocRule("quote",   {"active"},    "active",    {})}

QuotationRules ==
  {DocRule("submit",  {"draft"},     "submitted", {}),
   DocRule("approve", {"submitted"}, "approved",  {"approved_by"}),
   DocRule("return",  {"submitted"}, "draft",     {}),
   DocRule("convert", {"approved"},  "converted", {"next"}),
   DocRule("cancel",  Existing \ {"converted"}, "cancelled", {})}

SalesReturnRules ==
  {DocRule("submit",  {"draft"},     "submitted", {}),
   DocRule("approve", {"submitted"}, "approved",  {"approved_by"}),
   DocRule("reject",  {"submitted"}, "rejected",  {}),
   DocRule("execute", {"approved"},  "receiving", {}),
   DocRule("dispose", Existing,      "completed", {})}

SettlementRules ==
  {DocRule("reconcile", {"pending"},         "reconciled",        {"reconciled_by"}),
   DocRule("match",     {"reconciled"},      "invoice_matched",   {"invoice_id"}),
   DocRule("request",   {"invoice_matched"}, "payment_requested", {"next"})}

PaymentRules == {DocRule("confirm", {"requested"}, "completed", {})}

\* submit, reject and cancel of purchasing look at no status.
PurRequestRules ==
  {DocRule("submit",  Existing,      "submitted", {}),
   DocRule("approve", {"submitted"}, "approved",  {"approved_by"}),
   DocRule("reject",  Existing,      "rejected",  {}),
   DocRule("convert", {"approved"},  "converted", {"next"}),
   DocRule("cancel",  Existing,      "cancelled", {})}

PurOrderRules ==
  {DocRule("submit",  Existing,      "submitted", {}),
   DocRule("approve", {"submitted"}, "approved",  {"approved_by"}),
   DocRule("reject",  Existing,      "rejected",  {}),
   DocRule("send",    {"approved"},  "sent",      {}),
   DocRule("cancel",  Existing,      "cancelled", {}),
   DocRule("close",   Existing,      "closed",    {})}

\* A rejection clears approved_by.
PurReturnRules ==
  {DocRule("submit",  Existing,     "submitted", {}),
   DocRule("approve", Existing,     "approved",  {"approved_by"}),
   DocRule("clear",   Existing,     "rejected",  {"approved_by"}),
   DocRule("ship",    {"approved"}, "shipped",   {})}

\* A rejection, too, is signed in approved_by.
GovernanceRules ==
  {DocRule("submit",   {"draft"},     "submitted",   {}),
   DocRule("approve",  {"submitted"}, "approved",    {"approved_by"}),
   DocRule("reject",   {"submitted"}, "rejected",    {"approved_by"}),
   DocRule("publish",  {"approved"},  "published",   {"published_by"}),
   DocRule("rollback", {"published"}, "rolled_back", {"rollback_by"})}

DocRules ==
  [customer    |-> CustomerRules,   quotation  |-> QuotationRules, sales_order |-> {},
   sales_return |-> SalesReturnRules, settlement |-> SettlementRules, payment   |-> PaymentRules,
   pur_request |-> PurRequestRules, pur_order  |-> PurOrderRules,  pur_return  |-> PurReturnRules,
   governance  |-> GovernanceRules]

FirstStatus(k) == IF k = "settlement" THEN "pending"
                  ELSE IF k = "payment" THEN "requested" ELSE "draft"

Blank == [c \in DocColumns |-> Null]

-----------------------------------------------------------------------------
Successors(d) == {c \in Docs : Origin[c] = d}

\* Mutant: the caller chooses the order's code.
CandidatesFree(d) == Successors(d)

\* The order code of a purchase request is "PO-" and its own; other codes are
\* the caller's, and the ids of payments are new.
Candidates(d) ==
  IF Kind[d] = "pur_request" /\ Successors(d) # {}
  THEN {CHOOSE c \in Successors(d) : TRUE}
  ELSE Successors(d)

\* The document a handler makes.
Targets(rule, d) == IF rule.op \in {"quote", "convert", "request"} THEN Candidates(d) ELSE {Null}

Work(at, d, c, was, to, seen, sets) ==
  [at |-> at, doc |-> d, child |-> c, was |-> was, to |-> to, seen |-> seen, sets |-> sets,
   above |-> "absent"]

NoWork == Work("idle", Null, Null, "absent", "absent", Blank, Blank)

\* Documents that nothing precedes are there or not; the others are made.
ApprovalsInit ==
  /\ \E there \in SUBSET {d \in Docs : Origin[d] = Null} :
       docStatus = [d \in Docs |-> IF d \in there THEN FirstStatus(Kind[d]) ELSE "absent"]
  /\ docCols = [d \in Docs |-> Blank]
  /\ docWork = [r \in DocRequests |-> NoWork]
  /\ contested = {}

DocOpen(r) == docWork[r].at # "idle"

\* A confirmation is about the payment and about its settlement.
About(d) == {d} \cup (IF Kind[d] = "payment" THEN {Origin[d]} ELSE {})

AboutAny == UNION {About(docWork[r].doc) : r \in {q \in DocRequests : DocOpen(q)}}

Accepts(rule, d) == docStatus[d] \in rule.from

Signed(rule, d, c, id) ==
  [col \in DocColumns |->
     IF col \notin rule.signs THEN docCols[d][col]
     ELSE IF rule.op = "clear" THEN Null ELSE IF col = "next" THEN c ELSE id]

ReadDoc(r, d, rule, c, id) ==
  /\ ~ DocOpen(r)
  /\ Accepts(rule, d)
  /\ docWork' = [docWork EXCEPT ![r] =
       Work(IF Kind[d] = "payment" THEN "payment" ELSE "ready", d, c,
            docStatus[d], rule.to, docCols[d], Signed(rule, d, c, id))]
  /\ contested' = contested \cup (About(d) \cap AboutAny)
  /\ UNCHANGED <<docStatus, docCols>>

\* Whoever has written a payment and not committed holds its lock.
PaymentFree(r) == \A q \in DocRequests \ {r} : docWork[q].at = "above" => docWork[q].doc # docWork[r].doc

\* confirm_payment writes the payment before it reads the settlement.
ReadAbove(r) ==
  /\ docWork[r].at = "payment" /\ PaymentFree(r)
  /\ docWork' = [docWork EXCEPT ![r] =
       [@ EXCEPT !.at = "above", !.above = docStatus[Origin[docWork[r].doc]]]]
  /\ UNCHANGED <<docStatus, docCols, contested>>

\* Only what differs from the value that was read is written.
StatusNow(w) == IF w.to # w.was THEN w.to ELSE docStatus[w.doc]

\* Mutant: the whole row is written back.
ColsRead(w) == w.sets

ColsNow(w) == [col \in DocColumns |->
                 IF w.sets[col] # w.seen[col] THEN w.sets[col] ELSE docCols[w.doc][col]]

CommitDoc(r) ==
  LET w == docWork[r] IN
  /\ w.at = "ready"
  /\ w.child # Null => docStatus[w.child] = "absent"
  /\ docStatus' = [d \in Docs |-> IF d = w.doc THEN StatusNow(w)
                                  ELSE IF d = w.child THEN FirstStatus(Kind[d]) ELSE docStatus[d]]
  /\ docCols' = [docCols EXCEPT ![w.doc] = ColsNow(w)]
  /\ docWork' = [docWork EXCEPT ![r] = NoWork]
  /\ UNCHANGED contested

CommitPayment(r) ==
  LET w == docWork[r] IN
  /\ w.at = "above"
  /\ docStatus' = [d \in Docs |-> IF d = w.doc THEN w.to
                                  ELSE IF d = Origin[w.doc] /\ w.above # "payment_completed"
                                       THEN "payment_completed" ELSE docStatus[d]]
  /\ docWork' = [docWork EXCEPT ![r] = NoWork]
  /\ UNCHANGED <<docCols, contested>>

\* An error, a refused code, a failed call to the warehouse.
AbandonDoc(r) ==
  /\ DocOpen(r)
  /\ docWork' = [docWork EXCEPT ![r] = NoWork]
  /\ UNCHANGED <<docStatus, docCols, contested>>

DocStep(r) ==
  \/ \E d \in Docs : \E rule \in DocRules[Kind[d]], id \in Ids :
       \E c \in Targets(rule, d) : ReadDoc(r, d, rule, c, id)
  \/ ReadAbove(r) \/ CommitDoc(r) \/ CommitPayment(r) \/ AbandonDoc(r)

ApprovalsNext == \E r \in DocRequests : DocStep(r)

ApprovalsSpec == ApprovalsInit /\ [][ApprovalsNext]_approvalsVars

-----------------------------------------------------------------------------
ApprovalsTypeOK ==
  /\ docStatus \in [Docs -> DocStatuses]
  /\ docCols \in [Docs -> [DocColumns -> DocValues]]
  /\ contested \subseteq Docs
  /\ docWork \in [DocRequests ->
       [at : {"idle", "ready", "payment", "above"}, doc : Docs \cup {Null}, child : Docs \cup {Null},
        was : DocStatuses, to : DocStatuses, above : DocStatuses,
        seen : [DocColumns -> DocValues], sets : [DocColumns -> DocValues]]]

\* What has to be on record before a status is reached.
Decided == {"approved", "active", "disabled", "converted", "receiving", "sent", "shipped",
            "published", "rolled_back"}

Needed(s) ==
  (IF s \in Decided THEN {"approved_by"} ELSE {})
  \cup (IF s = "converted" THEN {"next"} ELSE {})
  \cup (IF s \in {"published", "rolled_back"} THEN {"published_by"} ELSE {})
  \cup (IF s = "rolled_back" THEN {"rollback_by"} ELSE {})
  \cup (IF s \in {"reconciled", "invoice_matched", "payment_requested", "payment_completed"}
        THEN {"reconciled_by"} ELSE {})
  \cup (IF s \in {"invoice_matched", "payment_requested", "payment_completed"}
        THEN {"invoice_id"} ELSE {})
  \cup (IF s \in {"payment_requested", "payment_completed"} THEN {"next"} ELSE {})

\* Whose columns can be relied on: customers have none, and purchase returns
\* clear the approver, so that overlapping requests can mix both decisions.
Reliable(d) == Kind[d] # "customer" /\ (Kind[d] = "pur_return" => d \notin contested)

\* However requests overlap and overwrite each other's columns, a status past
\* an approval has its approver on record, a settlement its reconciliation,
\* invoice and payment, and one that is paid has a payment that is completed
\* (sal_app_services lines 318-361, 887-932, 1014-1073, 1176-1202;
\* pur_app_services lines 127-186; governance_workflow_aggregate 175-235).
StatusIsBacked ==
  \A d \in Docs :
    /\ Reliable(d) => \A col \in Needed(docStatus[d]) : docCols[d][col] # Null
    /\ docStatus[d] = "payment_completed"
         => \E p \in Successors(d) : docStatus[p] = "completed"

Made(d) == {c \in Successors(d) : docStatus[c] # "absent"}

\* A document that was turned into another names it and there is no second:
\* for purchase requests whatever overlaps and however often they are
\* submitted again, since the order's code is taken (request_routes lines
\* 145-165); for quotations and settlements as long as requests about one do
\* not overlap.  Nor is anything quoted to a customer never published.
SuccessorsAgree ==
  \A d \in Docs :
    /\ Kind[d] = "pur_request" \/ (Kind[d] \in {"quotation", "settlement"} /\ d \notin contested)
         => Made(d) = {docCols[d]["next"]} \ {Null}
    /\ Kind[d] = "quotation" /\ d \notin contested /\ Made(d) # {} => docStatus[d] = "converted"
    /\ Kind[d] = "customer" /\ d \notin contested /\ Made(d) # {}
         => docStatus[d] \in {"active", "disabled"}
=============================================================================
