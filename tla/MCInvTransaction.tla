--------------------------- MODULE MCInvTransaction ---------------------------
(* Small instances of InvTransaction for TLC. *)
EXTENDS InvTransaction

\* Two keys; a receipt and an issue that both move on_hand, an inspection that
\* moves it to another column, and a quantity the aggregate refuses.
MCCalls ==
  { [key |-> "k1", type |-> "purchase_receipt", qty |-> 2],
    [key |-> "k1", type |-> "sales_issue",      qty |-> 2],
    [key |-> "k2", type |-> "sales_issue",      qty |-> 1],
    [key |-> "k2", type |-> "transfer_out",     qty |-> 2],
    [key |-> "k2", type |-> "inspect_fail",     qty |-> 1],
    [key |-> "k1", type |-> "adjustment_in",    qty |-> 0] }

\* Every transaction type under one key, and another key, for the serial service.
AllCalls ==
  { [key |-> "k1", type |-> t, qty |-> 1] : t \in TransactionTypes }
    \cup { [key |-> "k2", type |-> "sales_issue", qty |-> 2] }

\* A retried receipt and a concurrent issue, for the runs about retries.
RetryCalls ==
  { [key |-> "k1", type |-> "purchase_receipt", qty |-> 2],
    [key |-> "k2", type |-> "sales_issue",      qty |-> 1] }

MCStocks == {[ZeroBalance EXCEPT !["onHand"] = 2, !["inspection"] = 1]}

\* Requests that are no retries of each other: every one its own movement.
DistinctKeys == \A r, s \in Requests : KeyOf(r) = KeyOf(s) => r = s
DistinctSpec == Init /\ DistinctKeys /\ [][Next]_vars

===============================================================================
