------------------------------ MODULE InvAccount ------------------------------
(***************************************************************************)
(* What the inventory service promises for one (tenant, SKU, warehouse): a *)
(* stock account.  A movement is posted under its idempotency key, at most *)
(* once, only when the stock on hand suffices, and moves exactly its own   *)
(* quantity.                                                               *)
(***************************************************************************)
EXTENDS InvBalance

CONSTANTS Keys, Calls, Stocks

VARIABLES stock, posted

Init == stock \in Stocks \cup {ZeroBalance} /\ posted = {}

Post(c) ==
  /\ c.qty > 0
  /\ c.key \notin posted
  /\ StockSuffices(stock, c.type, c.qty)
  /\ stock' = ApplyTransaction(stock, c.type, c.qty)
  /\ posted' = posted \cup {c.key}

Next == \E c \in Calls : Post(c)

Spec == Init /\ [][Next]_<<stock, posted>>
===============================================================================
