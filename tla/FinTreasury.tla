----------------------------- MODULE FinTreasury -----------------------------
(***************************************************************************)
(* Treasury accounts and transfers between them                            *)
(* (application/fin/treasury_service.py).  Every request is a transaction: *)
(* it reads an account as a whole and writes it back as a whole, balance   *)
(* and frozen amount together, over whatever another transaction wrote in  *)
(* between; nothing is locked for reading and no version is compared.  The *)
(* execution of a transfer saves the transfer twice: the first save holds  *)
(* the transfer's row until the commit.                                    *)
(*                                                                         *)
(* Not distinguished: currencies, account types, the list of approvers.    *)
(***************************************************************************)
EXTENDS Integers, FiniteSets, Functions

CONSTANTS
  Accounts, Transfers,
  Opening,       \* Accounts -> opening_balance
  Carries,       \* Transfers -> [from, to, amount]
  Freezes,       \* the amounts somebody freezes or unfreezes
  TreRequests,   \* requests in flight at the same time
  NoRow          \* what an idle request is about

ASSUME TreasuryAssumption ==
  /\ IsFiniteSet(Transfers)
  /\ NoRow \notin Accounts \cup Transfers /\ Accounts \cap Transfers = {}
  /\ Opening \in [Accounts -> Nat]
  /\ Carries \in [Transfers -> [from : Accounts, to : Accounts, amount : Nat]]
  \* TreasuryTransferAggregate.create refuses one account on both sides.
  /\ \A t \in Transfers : Carries[t].from # Carries[t].to
  /\ Freezes \subseteq Nat

VARIABLES
  account,    \* the accounts' rows: opened, balance, frozen_amount
  transfer,   \* fin_treasury_transfer.status
  treq,       \* what each request has read
  contended   \* accounts that two overlapping requests touched

treasuryVars == <<account, transfer, treq, contended>>

TransferStatuses == {"absent", "PENDING_APPROVAL", "APPROVED", "SUCCESS"}
AccountRow(balance, frozen) == [open |-> TRUE, balance |-> balance, frozen |-> frozen]
NoAccount == [open |-> FALSE, balance |-> 0, frozen |-> 0]

TreOps == {"none", "open", "request", "approve", "execute", "freeze"}

TreIdle == [op |-> "none", row |-> NoRow, at |-> "idle", from |-> NoAccount, to |-> NoAccount]

TreasuryInit ==
  /\ account = [a \in Accounts |-> NoAccount]
  /\ transfer = [t \in Transfers |-> "absent"]
  /\ treq = [r \in TreRequests |-> TreIdle]
  /\ contended = {}

-----------------------------------------------------------------------------
(***************************************************************************)
(* The account's own rules (treasury_account_aggregate)                    *)
(***************************************************************************)
Available(row) == row.balance - row.frozen

\* Mutant: what is frozen may be withdrawn.
MayWithdrawFrozen(row, n) == n <= row.balance

MayWithdraw(row, n) == n <= Available(row)

MayFreeze(row, n)   == row.frozen + n <= row.balance
MayUnfreeze(row, n) == n <= row.frozen

-----------------------------------------------------------------------------
(***************************************************************************)
(* A request begins: it reads and checks                                   *)
(***************************************************************************)
\* The accounts a row is about.
Concerns(row) ==
  IF row \in Transfers THEN {Carries[row].from, Carries[row].to} ELSE {row} \cap Accounts

Contends(row) ==
  UNION {Concerns(row) \cap Concerns(treq[q].row) : q \in TreRequests}

TreReads(r, request) ==
  /\ treq[r].at = "idle"
  /\ treq' = [treq EXCEPT ![r] = request]
  /\ contended' = contended \cup Contends(request.row)
  /\ UNCHANGED <<account, transfer>>

Holding(op, row, new) == [op |-> op, row |-> row, at |-> "save", from |-> new, to |-> NoAccount]

ReadOpen(r, a) ==
  /\ ~ account[a].open
  /\ TreReads(r, Holding("open", a, AccountRow(Opening[a], 0)))

ReadFreeze(r, a, n) ==
  /\ account[a].open /\ MayFreeze(account[a], n)
  /\ TreReads(r, Holding("freeze", a, AccountRow(account[a].balance, account[a].frozen + n)))

ReadUnfreeze(r, a, n) ==
  /\ account[a].open /\ MayUnfreeze(account[a], n)
  /\ TreReads(r, Holding("freeze", a, AccountRow(account[a].balance, account[a].frozen - n)))

ReadRequest(r, t) ==
  /\ transfer[t] = "absent"
  /\ account[Carries[t].from].open
  /\ MayWithdraw(account[Carries[t].from], Carries[t].amount)
  /\ TreReads(r, Holding("request", t, NoAccount))

ReadApprove(r, t) ==
  /\ transfer[t] = "PENDING_APPROVAL"
  /\ TreReads(r, Holding("approve", t, NoAccount))

ReadExecute(r, t) ==
  /\ transfer[t] = "APPROVED"
  /\ TreReads(r, Holding("execute", t, NoAccount))

-----------------------------------------------------------------------------
(***************************************************************************)
(* It saves                                                                *)
(***************************************************************************)
\* Rows that a transfer under execution has written and not committed.
TransferFree(t) ==
  \A q \in TreRequests : ~ (treq[q].row = t /\ treq[q].at \in {"from", "to", "withdraw", "deposit"})
AccountFree(a) ==
  \A q \in TreRequests : ~ (treq[q].at = "deposit" /\ Carries[treq[q].row].from = a)

TreEnds(r) == treq' = [treq EXCEPT ![r] = TreIdle]

SaveAccount(r) ==
  LET a == treq[r].row IN
  /\ treq[r].at = "save" /\ treq[r].op \in {"open", "freeze"}
  /\ AccountFree(a)
  /\ account' = [account EXCEPT ![a] = treq[r].from]
  /\ TreEnds(r)
  /\ UNCHANGED <<transfer, contended>>

SaveTransfer(r) ==
  LET t == treq[r].row IN
  /\ treq[r].at = "save" /\ treq[r].op \in {"request", "approve"}
  /\ TransferFree(t)
  /\ transfer' = [transfer EXCEPT ![t] = IF treq[r].op = "approve" THEN "APPROVED"
                                         ELSE "PENDING_APPROVAL"]
  /\ TreEnds(r)
  /\ UNCHANGED <<account, contended>>

TreGoto(r, at) == treq' = [treq EXCEPT ![r].at = at]

\* The first save: EXECUTING, seen by nobody before it becomes SUCCESS.
SaveExecuting(r) ==
  /\ treq[r].at = "save" /\ treq[r].op = "execute"
  /\ TransferFree(treq[r].row)
  /\ TreGoto(r, "from")
  /\ UNCHANGED <<account, transfer, contended>>

ReadFrom(r) ==
  LET row == account[Carries[treq[r].row].from] IN
  /\ treq[r].at = "from" /\ row.open
  /\ treq' = [treq EXCEPT ![r].at = "to", ![r].from = row]
  /\ UNCHANGED <<account, transfer, contended>>

\* Reading the other account, withdraw and deposit on what was read.
ReadTo(r) ==
  LET carries == Carries[treq[r].row]
      row     == account[carries.to]
      from    == treq[r].from
  IN /\ treq[r].at = "to" /\ row.open /\ MayWithdraw(from, carries.amount)
     /\ treq' = [treq EXCEPT ![r].at = "withdraw",
                             ![r].from = AccountRow(from.balance - carries.amount, from.frozen),
                             ![r].to = AccountRow(row.balance + carries.amount, row.frozen)]
     /\ UNCHANGED <<account, transfer, contended>>

SaveWithdrawn(r) ==
  /\ treq[r].at = "withdraw"
  /\ AccountFree(Carries[treq[r].row].from)
  /\ TreGoto(r, "deposit")
  /\ UNCHANGED <<account, transfer, contended>>

\* Mutant: only the account that pays is saved.
SaveWithdrawnOnly(r) ==
  LET carries == Carries[treq[r].row] IN
  /\ treq[r].at = "deposit"
  /\ AccountFree(carries.to)
  /\ account' = [account EXCEPT ![carries.from] = treq[r].from]
  /\ transfer' = [transfer EXCEPT ![treq[r].row] = "SUCCESS"]
  /\ TreEnds(r)
  /\ UNCHANGED contended

\* The other account, SUCCESS and the commit.
SaveDeposited(r) ==
  LET carries == Carries[treq[r].row] IN
  /\ treq[r].at = "deposit"
  /\ AccountFree(carries.to)
  /\ account' = [account EXCEPT ![carries.from] = treq[r].from, ![carries.to] = treq[r].to]
  /\ transfer' = [transfer EXCEPT ![treq[r].row] = "SUCCESS"]
  /\ TreEnds(r)
  /\ UNCHANGED contended

\* An account that is missing, too little money, an exception, a deadlock.
TreRollback(r) ==
  /\ treq[r].at # "idle"
  /\ TreEnds(r)
  /\ UNCHANGED <<account, transfer, contended>>

TreasuryStep(r) ==
  \/ \E a \in Accounts : ReadOpen(r, a)
  \/ \E a \in Accounts, n \in Freezes : ReadFreeze(r, a, n) \/ ReadUnfreeze(r, a, n)
  \/ \E t \in Transfers : ReadRequest(r, t) \/ ReadApprove(r, t) \/ ReadExecute(r, t)
  \/ SaveAccount(r) \/ SaveTransfer(r)
  \/ SaveExecuting(r) \/ ReadFrom(r) \/ ReadTo(r) \/ SaveWithdrawn(r) \/ SaveDeposited(r)
  \/ TreRollback(r)

TreasuryNext == \E r \in TreRequests : TreasuryStep(r)

TreasurySpec == TreasuryInit /\ [][TreasuryNext]_treasuryVars

-----------------------------------------------------------------------------
AccountRows == [open : BOOLEAN, balance : Nat, frozen : Nat]

TreasuryTypeOK ==
  /\ account \in [Accounts -> AccountRows]
  /\ transfer \in [Transfers -> TransferStatuses]
  /\ treq \in [TreRequests ->
                 [op : TreOps, row : Accounts \cup Transfers \cup {NoRow},
                  at : {"idle", "save", "from", "to", "withdraw", "deposit"},
                  from : AccountRows, to : AccountRows]]
  /\ contended \subseteq Accounts

\* However freezes and transfers overwrite each other, an account never has
\* more frozen than it holds: balance and frozen amount are checked together
\* and written together (treasury_account_aggregate lines 53-98).
FrozenIsCovered == \A a \in Accounts : account[a].frozen <= account[a].balance

Moved(t, a) ==
  IF transfer[t] # "SUCCESS" THEN 0
  ELSE IF a = Carries[t].to THEN Carries[t].amount
  ELSE IF a = Carries[t].from THEN - Carries[t].amount
  ELSE 0

\* The balance of an account is its opening balance and the transfers that
\* succeeded, both of whose sides are written or none, wherever a request
\* fails; only requests that overlap on the account can make it differ
\* (treasury_service lines 243-260).
BalancesMatchTransfers ==
  \A a \in Accounts \ contended :
    account[a].open =>
      account[a].balance = Opening[a] + SumFunction([t \in Transfers |-> Moved(t, a)])
=============================================================================
