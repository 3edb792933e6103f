------------------------------ MODULE InvBalance ------------------------------
(***************************************************************************)
(* The stock record of one (tenant, SKU, warehouse) and the twelve         *)
(* inventory transaction types that change it.  Every type moves a         *)
(* quantity from one place to another; "outside" is a place that is not a  *)
(* column of the record (a supplier, a customer, scrap).                   *)
(*                                                                         *)
(* Source: backend/app/domain/inventory (aggregates, services and value    *)
(* objects).  Quantities, floats in the program, are integers here.        *)
(***************************************************************************)
EXTENDS Integers

\* The quantity columns of inv_inventory_balance.
Columns == {"onHand", "reserved", "inTransit", "inspection", "blocked"}

Balance == [Columns -> Int]

\* The row get_or_create inserts: every quantity column defaults to zero.
ZeroBalance == [c \in Columns |-> 0]

\* _TRANSACTION_DIRECTION_MAP
Inbound  == {"purchase_receipt", "transfer_in", "adjustment_in", "return_in",
             "inspect_pass", "unblock"}
Outbound == {"sales_issue", "transfer_out", "adjustment_out", "return_out",
             "inspect_fail", "block"}

TransactionTypes == Inbound \cup Outbound

\* apply_transaction, read column by column: the transaction types that add
\* their quantity to a column ...
PutsInto(c) ==
  [ onHand     |-> {"purchase_receipt", "adjustment_in", "return_in", "transfer_in",
                    "inspect_pass", "unblock"},
    reserved   |-> {},
    inTransit  |-> {"transfer_out"},
    inspection |-> {},
    blocked    |-> {"block"} ][c]

\* ... and those that take it away.
TakesFrom(c) ==
  [ onHand     |-> {"sales_issue", "adjustment_out", "return_out", "transfer_out", "block"},
    reserved   |-> {},
    inTransit  |-> {"transfer_in"},
    inspection |-> {"inspect_pass", "inspect_fail"},
    blocked    |-> {"unblock"} ][c]

\* Mutant: the rebuilt record loses the reserved column.
ApplyTransactionLosesReserved(b, t, n) ==
  [c \in Columns \ {"reserved"} |->
     b[c] + (IF t \in PutsInto(c) THEN n ELSE 0) - (IF t \in TakesFrom(c) THEN n ELSE 0)]

\* What a transaction adds to a column, or takes from it.
Moved(c, t, n) == (IF t \in PutsInto(c) THEN n ELSE 0) - (IF t \in TakesFrom(c) THEN n ELSE 0)

\* InventoryBalanceAggregate.apply_transaction; a quantity that is not
\* positive raises before any column changes, so callers pass n > 0.
ApplyTransaction(b, t, n) == [c \in Columns |-> b[c] + Moved(c, t, n)]

\* Mutant: the stock check is skipped for transfers out.
StockSufficesForSalesOnly(b, t, n) == t \in Outbound \ {"transfer_out"} => b["onHand"] >= n

\* InventoryTransactionExecutor._check_stock_sufficiency, made for outbound
\* types only and against on_hand, whatever is reserved.
StockSuffices(b, t, n) == t \in Outbound => b["onHand"] >= n
===============================================================================
