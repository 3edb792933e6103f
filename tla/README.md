# EITP: models, checks and proofs

EITP is a multi-tenant trade and inventory platform: a Python backend (FastAPI,
SQLAlchemy on PostgreSQL, Redis), a Go control plane, a Rust agent skeleton and a
React frontend. Its interesting behaviour is not in any single handler, most of
which read, check and write one aggregate, but in what happens when handlers
overlap, fail half way or are repeated. Nearly every service follows one
pattern: read rows without a lock, check, call another service (which may commit
on its own), write absolute values, commit in the route. The modules here model
that pattern in the services that move goods and money-like quantities, show
with TLC what it guarantees on small instances, and prove with TLAPS what holds
for every number of requests and every quantity.

Paths below are relative to `src/`; `app/` is `src/backend/app/`.

## 1. Inventory of the system

| Component | State it keeps | Operations | Hard behaviour | What makes it correct |
|---|---|---|---|---|
| **INV transactions** (`app/application/inv`, `app/domain/inventory`) | balance row per tenant/SKU/warehouse, idempotency records, Redis markers | `execute_transaction` for 12 types | overlapping read-modify-write, two idempotency layers, swallowed errors, Redis outages | never oversold; record and movement atomic; a key applies once; duplicates are real |
| INV reservations and scheduler | reservation rows, `reserved` column | reserve, release, consume, expiry scan | expiry against consumption, nothing keeps the two tables together | reserved equals the active reservations |
| **WMS movements** (`receiving`, `putaway`, `picking`, `transfer_app_svc.py`) | order lines, positions, approval | `execute_*`, submit, approve | posting commits before positions do; two-legged movements; retries by key | positions and balance agree again after a retry; lines within limits |
| WMS shipping, reconcile, positions | shipping orders, difference rows | record_logistics, confirm, reconcile | comparison of two tables that are committed one after the other | a difference is a real one |
| **WMS tasks** (`wms_task_app_svc.py`) | task rows, operation audit | create, assign, claim, cancel | check on unlocked read, unconditional UPDATE | one task per key; a worker was assigned; the trail names the row's assignee |
| **SAL orders and shipments** (`sal_app_services.py`) | order, lines, shipments, audit | submit … close, create/pick/pack/confirm/cancel shipment | HTTP calls in the middle, absolute sums, partial reservation | shipped goods have left unless the warehouse named no shipping order; named reservations exist; lines agree with trail |
| **SAL customers, quotations, returns, settlements, payments** (same file) | rows per document | some twenty handlers that move a status | unlocked check, one document made from another, a payment that moves its settlement | a status has behind it what it says; one successor per document |
| **Saga orchestrator** (`app/application/platform/consistency`) | saga record | execute, compensate | handlers, compensations and saves that raise before or after their effect | compensated means undone; record never ahead |
| **Outbox dispatcher** (same package) | outbox events | poll, handle, mark, count attempts | a stop between handling and marking, several dispatchers, events that always fail | at least once where a handler is registered, no starvation |
| Unified audit | buffer in memory, audit rows | write, flush | failed writes re-queued behind younger ones | no record lost or reordered |
| **Control-plane migration** (`control-plane/internal/orchestrator/migration.go`) | tenant status, map of tasks | Migrate, GetTask, IsWriteFrozen | overlapping migrations, lost answers, restarts | closed while data moves, reopened after unless an answer or the process is lost |
| Control-plane provisioning, placement, backup | tenant status | Provision, Place, Backup | saga without a record | failed tenants are not active |
| **FIN treasury** (`app/application/fin/treasury_service.py`) | accounts, transfers | open, freeze, unfreeze, request, approve, execute | rows read without a lock and written back whole | frozen money is covered; balances are what transfers made them |
| **FIN settlements, vouchers, payments, receipts** (same package) | settlements, vouchers, payments, receipts | confirm, request, approve, callback, write off | repeated bank callbacks, several payments of one voucher, write-offs that fail half way | no voucher paid beyond its amount; vouchers agree with payments |
| FIN accounting, invoices, reconciliation | general-ledger vouchers, invoices | match, post, reconcile | comparisons of amounts | debit equals credit |
| **Purchasing** (`app/interfaces/api/v1/pur`, `app/application/purchasing`) | requests, orders, returns; receipts, suppliers | as sales; many handlers look at no status | as sales | as sales |
| **Governance workflow** (`app/application/governance`) | requests | submit, approve, publish, roll back | overlapping decisions | a published request was approved |
| Master data, group catalogue | versions, caches | record keeping | caches that expire | — |
| **Feature switches** (`app/application/biz_ops/feature_switch_guard.py`, `.../biz_ops/routes/strategy_routes.py`) | switch rows, a cache of answers per process | check, create, update | an answer read before an update and stored after it, caches of several processes | a stale answer does not outlive the cache's time |
| Business orchestrators, IAM, tenants, placement domain, SEC/PROD/REL tools, frontend, HTTP layer, alembic | own rows | mostly single-row writes | little interaction | — |

**Bold** components are modelled, in whole or in part; `PROJECT.json` says which
part. How they interact: WMS movements and sales
call the inventory service; inside the backend the call shares the caller's
database session, so its commit commits the caller's pending writes; sales
reaches inventory and warehouse over HTTP, where an answer can be lost. Routes
commit, sessions roll back on an exception (`app/infrastructure/db/session.py`
47-55). The control plane talks to the backend's data only through the tenant's
status row. Finance, the documents of sales and purchasing, governance and the switches share
no row with goods or with each other.

## 2. Modules

| Module | Models | Extends / instantiates |
|---|---|---|
| `InvBalance` | the balance record, the twelve transaction types, what each moves, the stock check | — |
| `InvAccount` | **abstract**: a stock account in which a movement is posted at most once per key, when stock suffices | `InvBalance` |
| `InvTransaction` | `execute_transaction` await by await, for overlapping requests | `InvBalance`; refines `InvAccount` when serial |
| `WmsMovement` | receiving, putaway, picking, transfer and the approval of transfers | instantiates `InvAccount` as the inventory service |
| `WmsClients` | the movements with their clients, which are careful in half of the behaviours | `WmsMovement` |
| `WmsTaskLifecycle` | **abstract**: the state machine of `WmsTaskAggregate` | — |
| `WmsTask` | the task service's requests against rows and trail | refines `WmsTaskLifecycle` when serial |
| `SalesFulfilment` | the order and shipment services | — |
| `Saga` | `SagaOrchestrator.execute` and `_compensate` | — |
| `Outbox` | `OutboxDispatcher.start` and `dispatch_batch` with publishers and several dispatchers | — |
| `TenantMigration` | `Migrate` of the control plane | — |
| `FinVouchers` | settlements, the vouchers they issue, payments and receipts that settle them | — |
| `FinTreasury` | accounts and transfers between them | — |
| `Approvals` | documents that are approved and turned into others: sales, purchasing, governance | — |
| `FeatureSwitches` | the guard of the feature switches with the updates that clear its cache | — |
| `MC*` | finite instances for TLC | each its module; `MCSaga` composes `Saga` and `Outbox`, `MCBackOffice` composes `FinVouchers`, `FinTreasury`, `Approvals` and `FeatureSwitches` |
| `Sums` | lemmas about sums over finite sets | `Functions`, `FiniteSetTheorems` |
| `*_proofs` | theorems and proofs | each its module, where it adds something up `Sums`, and `TLAPS`; `Saga_proofs` covers `Saga` and `Outbox`, `BackOffice_proofs` the four back-office modules, `WmsMovement_proofs` also `WmsClients` |

### State and actions against the code

*InvTransaction.* `rows`, `idem` and `redis` are what others can see: committed
balance rows, committed idempotency records, markers. Everything else is private
to a request until its commit: the columns its session has loaded (`read`), its
in-memory aggregate (`work`), whether the executor found it to be a duplicate
(`answered`), whether its insert of the record took effect (`inserted`), and whether
a swallowed error has left its PostgreSQL transaction aborted (`poisoned`). `marked`
is a history variable: the requests that have set the Redis marker of their key
themselves. A request is `Begin → CheckRedis → CheckDb* → RecordKey → MarkRedis → Reload →
SaveBalance → Commit`, one action per stretch between two awaits that reach
PostgreSQL or Redis; a duplicate goes from its answer straight to `Reload` and ends
in `CommitDuplicate`. `Reload` is the SELECT with which `save` begins. A session
refers to its objects weakly and `get_or_create` keeps none, so that the SELECT
loads the row as it is by then, or finds the object of the first SELECT where it
has not been collected: both are allowed. The flush then sends the columns in
which the aggregate differs from that object (`Updates`, `Saved`), with the
aggregate's values, which may be older than the row. `SaveBalance` waits for the
row lock and `RecordKey` for an uncommitted record of the same key, as PostgreSQL
does. The balance row is unique only up to nullable columns, so two first requests
can create two rows; `BeginRefused` is the error every later request then gets.
Records never expire: the clean-up job names a column no migration creates, and
only logs an error. The ledger is not state of this module: `LedgerAppender.append`
builds an entry, and `execute_transaction` stores none.

*WmsMovement, WmsClients.* A posting (`PostOut`, `PostIn`) is one step of `InvAccount`,
because `execute_transaction` commits; positions and line follow in `Write`. Before
it comes `Mark`: the executor sets the Redis marker of the key while the posting is
still to be committed, so that a request which fails between the two leaves a
marker behind. Whoever repeats the movement may then be answered as a duplicate
(`CallInventory`, by a posted key or by `Marked`), or not, since Redis may have lost
the marker; the warehouse services do not tell the two answers apart and go on.
What was read before and is written back afterwards is in `line`, `from`, `onto`.
The key of a posting names line, leg and quantity (`Key`), as the services build it.
`Overdrawn` and `InsertClashes` are the two constraints of
`032_wms_inventory_position_table.py`.

*WmsTask.* A request reads and checks (`Reads`), its UPDATE takes the row lock
(`Update`), its commit publishes row and audit record together. The trail of a task is
a set, not a sequence: `operated_at` is the start of the transaction and `audit_id` is
random, so that nothing in the table tells in which order the records were
committed. Each record carries, as history, whose assignments were committed when its
request read the task (`after`). Creation is
guarded by the unique index on the key (`KeyFree`, `KeyTaken`).

*SalesFulfilment.* One order, its lines, its shipments. Short requests are check
and write; `confirm_order` and `cancel_order` call inventory once per line
(`Reserve`, `Release`); `confirm_shipment` is `Issue` (the warehouse creates a shipping
order and confirms it) or `IssueUnnamed` (the answer has no `wms_shipping_id`, and the
request goes on without confirming), then `Lock` (the flush of the shipment),
`ReadLines`, `Count`. `granted`, `issued` and `unnamed` are the other
services' state, modelled from the calls; which of the granted reservations are still
held is left out, since nothing here asks for it and a release is never checked. `ShipQty` is what a shipment carries of this
order, which may be nothing: `lines` defaults to an empty list, and lines of other
orders are passed over.

*Saga.* `saga` is the aggregate in memory, `stored` the saved record, `done`,
`undone` and `torn` what happened in the world; `torn` are the steps whose handler
raised after its effect had taken place, which the orchestrator cannot know. Every save
and handler is a step that can raise before or after its effect; the process can stop
anywhere.

*Outbox.* `delivery` is the status column, `batch` what a dispatcher has left of the
events it fetched, `consumed` whose handlers have had their effect. `handlers` are the
dispatchers created with a `delivery_handler`; one without it, which is the default,
marks what it has called nobody for (`PassOn`, recorded in `unheard`). Handler,
`mark_delivered` and `increment_attempts` are one action each and raise before or
after their effect; `Abandon` ends a batch as an exception out of
`increment_attempts` does, or the death of the process.

*FinVouchers.* A request reads its document and checks it (`Read*`), saves it
(`Save*`), and a callback or write-off then takes line by line: `ReadVoucher` with the
check of the open amount, `SaveVoucher` with the row lock, and one commit at the
end (`CommitSettling`). What a transaction has written and not committed is in
`freq[r].wrote`. `issued` and `paid` are the vouchers' rows. `disputed` is a history
variable: the vouchers two overlapping requests had in common.

*FinTreasury.* The same pattern statement by statement: the execution of a transfer
reads and writes two accounts and saves its own row first, which holds off a
second execution. `contended` is the history variable.

*Approvals.* What differs between the handlers is data: `DocRules` gives for each
kind of document the operations with the statuses they accept, the status they
write and the columns they sign. The handlers are two steps, `ReadDoc` and
`CommitDoc`; `ColsNow` and `StatusNow` write only what differs from what was read, as
the ORM does when the handler keeps the object it loaded. `confirm_payment` writes
the payment before it reads the settlement (`ReadAbove`, `CommitPayment`).

*FeatureSwitches.* A check that finds nothing in the cache is four steps: its miss
(`Check`), the two reads and the store; an update is three: its read, its commit and
the clearing of the cache (`ReadSwitch`, `CommitSwitch`, `Invalidate`). Creating a switch is the
update of one that has no row. An answer from the cache changes nothing, so the
property speaks of the entries that could be answered (`Live`). `disturbed` and `knows` are
history variables: when a feature was last updated or answered by a check that an
update overlapped, and which processes have cleared their cache since.

*TenantMigration.* `status` is the database's tenant status, `phase` the task in
the orchestrator's map, `point` where the goroutine is. Every UPDATE can fail, with or
without effect, and the process can stop. `lost` is a history variable: the calls
that have ended, since their tenant was last active, and left it closed.

## 3. What the runs check

| Run | Question and answer |
|---|---|
| `inv_concurrent` | Two overlapping requests, failures at every await, a Redis that comes and goes. No interleaving commits negative stock (`NeverOversold`); recorded keys are exactly those of committed movements (`RecordedIffApplied`); a duplicate answer has a cause, and what was refused or died before it set the marker is none (`DuplicateIsJustified`); a recorded key is not applied again by a request that has yet to look (`LateRetryNeverApplies`); key lock and row lock leave nobody waiting (`EveryRequestSettles`). |
| `inv_serial` | One request at a time, all twelve types: the service implements `InvAccount` (`ImplementsAccount`). |
| `inv_lost_update` | *Violation.* Two movements of different keys that overlap both complete, and the second save overwrites the first: the balance is not the sum of the completed movements. |
| `wms_concurrent` | Three overlapping movements that may die anywhere. A line's own books stay within its limit (`LineWithinLimit`); nothing moves in that has not moved out (`InFollowsOut`); progress is recorded only after the posting is committed (`ProgressIsPosted`); both but for legs answered from the Redis marker of a call that has not committed, which is there to name; in the half of the behaviours that are careful (one movement at a time, repeated only until it is told to have succeeded), repeating every movement to success brings positions and balance together again, apart by exactly the legs answered from such a marker and never posted (`RetryHeals`). |
| `task_concurrent` | Four overlapping requests: one task per key; a claim had read a committed assignment to the same user (`ClaimedByAssignee`); the row's assignee is named by the trail, which names several only if none of those assignments was committed when another read the task (`AssigneeIsInTrail`). |
| `task_serial` | One request at a time, the service obeys the aggregate's state machine (`ObeysLifecycle`). |
| `sales` | Two overlapping requests at a time, as many as clients like, confirmations of shipments one at a time: a shipment with a `wms_shipping_id` was issued, and so was what is recorded as shipped unless the warehouse's answer had no identifier (`ShippedWasIssued`); named reservations were granted; shipping statuses have goods behind them unless a shipment that carries nothing of the order was confirmed (`GoodsBehindStatus`); lines agree with the trail. |
| `sales_over_shipped` | *Violation.* Two shipments may together ship more than was ordered; the service that would refuse it is never called. |
| `saga` | A saga of four steps, every set of handlers and compensations, every failure and stop: compensated means undone, in reverse, but for the effect of a handler that raised after it took place, which the orchestrator leaves and compensates beneath (`CompensatedMeansUndone`, `UndoneInReverse`); the record counts no step that did not take place and names no compensation that has not run (`RecordIsReliable`); every call settles. Two outbox dispatchers with batches of two and an event that always fails: nothing is marked before its handler ran unless a dispatcher without a handler had it, and the good events arrive (`GoodEventsArrive`). |
| `migration` | Three overlapping migrations of two tenants, with failing UPDATEs and stops of the process: a closed tenant has a running migration that will open it (`FrozenHasOwner`), and reopens (`TenantReopens`), unless since it was last active the answer to a freeze was lost, the error of an unfreeze was dropped or the process stopped over a migration. |
| `migration_exclusive` | Failures and stops, one migration per tenant at a time: the tenant is closed while its data moves. |
| `back_office` | Two overlapping requests of any kind, at one desk at a time. No voucher is paid beyond its amount (`NeverOverpaid`), and vouchers agree with payments and receipts unless requests overlapped on that very voucher (`VouchersMatchMoney`); frozen money is covered (`FrozenIsCovered`) and balances are what succeeded transfers made them (`BalancesMatchTransfers`); a status past an approval has the approver, invoice or payment it implies on record (`StatusIsBacked`), and a converted document names its one successor (`SuccessorsAgree`); an answer about a feature contradicts its switches for no longer than the cache keeps it after the last update or the last check an update overlapped, and not at all in a process that cleared its cache since (`SwitchesObeyed`). |

### Bounds, and why they are enough

- *Requests.* The races here are pairwise: on one key, one row, one line, one
  shipment. Two requests show each of them; three are used for movements (a
  two-legged movement, its repeat, and a third that disturbs them) and four for
  tasks (create, assign, claim, cancel). Sales requests end and begin again, so
  two slots give unboundedly many requests; that state space is finite because
  the status guards end it: a shipped shipment is put back only by a request that
  began before its confirmation.
- *Quantities.* One to three, chosen so that stock suffices for one request and
  not for both, that a line can be filled in two parts and overfilled, and that
  two shipments together exceed an order line. The run `sales` has one shipment of a part
  of the order, which a second confirmation completes and the warehouse may leave
  without an identifier (`Nameless`), and one that carries nothing; a second shipment of
  goods multiplies the states several times over, and the theorems hold for any number.
  `adjustment_in` with quantity 0
  reaches `BeginRefused`.
- *Back office.* One settlement that issues a payable and a receivable, two payments
  that together exceed the payable, a receipt that may name its voucher twice; two
  transfers in opposite directions, one of which empties its account; every kind of
  document, with two candidates for each successor. Payments and receipts settle
  different vouchers, so a behaviour takes one or the other. One user id suffices:
  it includes the approval that writes the very value the row holds, which the ORM
  leaves out of its UPDATE.
- *Switches.* A module with one sub-feature, two processes and two requests, each used
  once: a check and an update of the module or of the feature is the race, and the
  second process is the one whose cache is not cleared. Switches that exist at the start
  name their module; one that does not is created. Answers live for two ticks of
  a clock that stops at two, so that one is stored between update and expiry.
- *Outbox.* Two dispatchers hold one event at the same time; batches of two hold one
  event that always fails and one that does not; a third event waits behind them. One of
  the dispatchers may have no handler (`Silent`); the third event is then left out
  (`Further`), since where events go unheard there is nothing left to wait for.
- *Steps of a saga.* Four: first, last and two in between, which is what "in
  reverse" and "stops half way" need.
- *Symmetry* is used for interchangeable requests, tasks not yet created,
  migrations and tenants, and only in runs without liveness properties.
- `CHECK_DEADLOCK FALSE` stands where all requests may be finished and nothing
  else can happen; the inventory and warehouse runs never stop, because Redis and
  approvals always can change.

The theorems below remove the bounds for the safety properties they name.

### Fairness

`EveryRequestSettles`, `EveryCallSettles` and `TenantReopens` assume weak
fairness of each request's own steps: the event loop resumes a coroutine whose
await has returned, the Go scheduler a runnable goroutine, and PostgreSQL hands
a freed lock to a waiter. Nothing is assumed of clients (they need not send or
repeat anything), of Redis (it may stay down for ever), of failures (they need
not happen), or of the database answering where the model says it may not.

`GoodEventsArrive` needs more, because an event can be raised over and over: weak
fairness of polling (`start` polls for ever), and strong fairness of what the handler
does when nothing disturbs it (`Answers`), of `Mark` and of `CountAttempt`, for each
event. That says: a handler or database call that is tried again and again is
one day left alone. A dispatcher may still die and handlers may still raise any
number of times; without the assumption they could do so for ever and nothing
would ever be delivered.

## 4. What is proved

Every theorem holds for any number of requests, keys, lines, slots, shipments,
migrations, steps, events, dispatchers, vouchers, accounts, documents, features and processes, and for
any quantities, under the ASSUMEs of its module: payloads are well formed,
distinguished values are distinct, initial stock is not negative. Where rows are added up, they are
finitely many: the position rows at the start are a table, and transfers,
payments, receipts and shipments are rows that requests create. A safety property
that fails has failed after finitely many requests, so that this leaves out no counterexample.
Two settlements issue different vouchers because the number of a
voucher contains that of its settlement, which is unique. The other hypotheses are
in the statements of the theorems.

| Theorem | States | Argument |
|---|---|---|
| `TypeCorrect` (inventory) | types | directly inductive; `ApplyTransaction` and `Saved` return stock records |
| `StockNeverNegative` | `NeverOversold` | Not inductive alone: a commit writes what was computed long before. `StockInv` carries the bound to the copies a request read and to its aggregate, and remembers that only positive quantities got past the constructor. |
| `RecordAndMovementAtomic` | `RecordedIffApplied` | `RecordInv`: past its INSERT a request holds the record, has found it committed, or is in an aborted transaction that cannot commit; an answered request has inserted nothing |
| `DuplicateHasCause` | `DuplicateIsJustified` | What the answers rest on, the markers rest on (`MarkersAreJustified`): a request in `marked`, past its marker and unanswered, or a record; a request leaves the justifying points only through a commit that records its key (`JustificationStays`, from `RecordInv`) |
| `LateRetryIsHarmless` | `LateRetryNeverApplies` | `Late(r)` is stable: ahead of the look-up, answered, dead, or in an aborted transaction |
| `SerialIsAccount` | `ImplementsAccount` | Refinement. `SerialInv`: the one request in flight has read the account as it is and holds the movement it will post (`InTouch`), or is answered and holds the account unchanged. Reloading keeps it so, alone as it is. Then `Commit` is `Post`, every other step stutters. |
| `SerialLosesNoMovement` | `BalanceIsSumOfMovements` for `SerialSpec` | `BooksInv`, on top of `SerialInv`: a commit of a request in touch moves the row by what its type moves and adds one movement to the sum, case by case over all twelve types; a duplicate moves neither. The one hypothesis is exact: `inv_lost_update` shows it. |
| `LineNeverOverLimit` | `LineWithinLimit` | `LineInv`: what an in-flight request has read plus its quantity is within the limit |
| `InAfterOut`, `ProgressAfterPosting` | `InFollowsOut`, `ProgressIsPosted` | `PostedInv`: which legs of each request are posted, or answered for by a marked call, by the time it stands at each await. A call that has marked its key either posts it or stays at that leg or fails there, so that what was accounted for stays so. |
| `MovementTypes` | types, and no position below zero | `ReadOK`: what a request has read and is going to decrease held enough when it was checked, so that whatever it overwrites, it writes no negative quantity |
| `RetriesHeal` | `RetryHeals` | Not inductive: it speaks of the end. `BooksAgree` speaks of every moment between: the balance is the positions plus what is owed to them, the sum over movements posted and not yet told (`Debts`). It needs that the rows a careful request has read are still so (`RowsAsRead`), and that every posted key belongs to a request that can repeat it (`PostedByRequest`). A posting moves balance and debts, `Write` debts and positions. The legs of movements that were told, and are not posted, are what a marker answered; at the end nothing else is owed. |
| `TaskTypeCorrect` | types | directly inductive |
| `OnlyAssigneesClaim` | `ClaimedByAssignee` | The assignment that a claim read is in the trail, which only grows, and was committed when the claim read it (`AssigneeHasRecord`, `ClaimIsJustified`) |
| `CreateIsIdempotent`, `RowAgreesWithTrail` | `OneTaskPerKey`, `AssigneeIsInTrail` | `RowInv`: a task being created is its creator's alone and has no trail yet, every other request works on a row that exists, an inserted key is on no committed row and in no other transaction; whoever is going to assign a task had read it with no assignment committed (`FirstAssigns`), and the row's assignee is on record (`RowNamed`) |
| `SerialObeysLifecycle` | `ObeysLifecycle` | Refinement. What the one active request has read is still so when it commits (`Fresh`), so its commit is one method of the aggregate. |
| `SagaTypeCorrect`, `SagaCompensates`, `SagaCompensatesInReverse`, `SagaRecordIsReliable` | types, `CompensatedMeansUndone`, `UndoneInReverse`, `RecordIsReliable` | One invariant with a predicate per await that says how record, loop index and effects relate there; an effect that is left is below the loop, or the torn one just above the steps counted |
| `EventsAreHandledFirst` | `DeliveredAtLeastOnce` | A dispatcher that is about to mark has run the handler of the first event of its batch, or has none and has passed it on; what is consumed or unheard stays so |
| `VouchersNeverOverpaid` | `NeverOverpaid` | `FinRequestOK`: the rows a transaction has written fit the amounts due, and between check and write a line fits what was read (`Checked`); whoever overwrites whom, every value written is of that kind |
| `VouchersAreMoney` | `VouchersMatchMoney` | `MoneyInv`: a voucher nobody disputes is in the hands of one request at most, which knows its row as it is, apart from what it has itself written in its open transaction (`KnowsVoucher`); `PaidIsSettled` then moves at the commit, with all lines of the document at once. An open transaction that writes one voucher twice is why the shares of a document are sums themselves. |
| `BalancesAreTransfers` | `BalancesMatchTransfers` | `BooksInv`: the same for accounts (`Knows`); an execution between its two writes is the only one that knows both, and an account that has taken part in a transfer is open |
| `FrozenMoneyIsCovered` | `FrozenIsCovered` | The rows requests hold in memory are covered too, so that writing one back over a newer row leaves a covered row |
| `StatusesAreBacked` | `StatusIsBacked` | For each request in flight, what it is going to leave behind is backed whatever the row has become meanwhile: signed columns are never cleared again outside purchase returns, so that a status and a column written by different requests still fit. For purchase returns the two are related only while nobody overlaps. |
| `DocumentsHaveOneSuccessor` | `SuccessorsAgree` | `SuccessorsInv`, on top of the invariant of `StatusesAreBacked`: a document nobody else is about is still as its request read it (`StillAsRead`, from `SharedIsContested`), and it comes from a status in which nothing was made. For purchase requests overlaps are harmless: there is one candidate order, a row that exists stays, and so the request that makes it had read an empty column. |
| `SwitchesAreObeyed` | `SwitchesObeyed` | `SwitchesInv`: what a check has read is still so unless an update overlapped it and marked it, and an entry that contradicts the rows is not younger than the last disturbance of its feature and stands in no process that has cleared its cache since |
| `MigrationTypeCorrect` | types | directly inductive |
| `ClosedTenantHasOwner` | `FrozenHasOwner`, failures and stops included | `OwnerInv`: the phase follows the program point, and a disabled tenant is held by a migration past its freeze or has been left by a lost one. `lost` forgets a tenant's calls when it is opened, so that the exception is no wider than that. |
| `ExclusiveMigrationIsFrozen` | `SyncIsFrozen` for `ExclusiveSpec` | `ExclusiveInv`: one live migration per tenant; whoever is past the freeze holds the tenant, and it is disabled |
| `SalesTypeCorrect`, `ShippedOnlyIfIssued`, `ReservationsAreGranted`, `ShippingStatusHasGoods` | types, `ShippedWasIssued`, `RecordedWasGranted`, `GoodsBehindStatus` | One invariant that carries what each in-flight request has been told by the other services: after `Issue` its shipment has left, after `IssueUnnamed` it was answered without an identifier. An identifier can be overwritten by its absence, so that a repair rests on the goods having left, not on the column. Proved for `Spec`, that is with overlapping confirmations, which the run `sales` leaves out. |
| `LinesAreAudited` | `LinesMatchAudit` for `CarefulSpec` | `CountInv`: the one confirmation that has read the lines is going to add to what they still say; then line and trail grow by the same quantity. That no other request can change a line while it waits is why nothing but confirmations must be kept apart. |
| `PlannedShipmentsFit` | `NothingOverShipped` for one request at a time and shipments that together carry no more than was ordered | `OnceInv`: a counted shipment is shipped for good, so that it is counted once; then by `LinesAreAudited` a line is at most the sum over all shipments. It says how far the finding `sales_over_shipped` reaches: the comparison the code does not make is the client's. |

*Sums.* Six theorems compare sums, which the community modules define by picking
one element after the other. `Sums` proves that the order does not matter
(`SumTakeOut`), and from it how sums compare, add up and change with one row. The induction
over finite sets that this takes cannot be cited from the library, whose theorem
has an operator as parameter; it is done as the choice of a smallest counterexample,
from the fact that strict inclusion among the subsets of a finite set is
well-founded (`SmallestSubset`). The recursive function behind the sum is tied
to a table of its values on all subsets (`Partial`), which exists and is unique.

The theorems use no lemma that is not proved, and no assumption
beyond the modules' own ASSUMEs and the hypotheses they state.

*What the proofs changed in the models.* Sums are written with `SumFunction` rather than
other folds, so that one set of lemmas serves all of them, and `PlacesAfter` of `WmsMovement`
as one function with a row per slot; TLC finds the same states as before. `WmsClients` was
part of the instance for TLC, where nothing can be proved about it.

*Only model-checked.* The liveness properties (`EveryRequestSettles`,
`EveryCallSettles`, `TenantReopens`, `GoodEventsArrive`): liveness under fairness and ENABLED are out
of the prover's reach. Every safety property of a passing run is also a
theorem. The two violations are counterexamples and need none; each has a theorem
that says where the property does hold. No module uses a RECURSIVE operator, which
the prover would not accept.

## 5. What the models show about the code

### Races the code does not guard

The properties that hold are stated so that they are true of this code; these
overlaps are why some of them are not stronger.

- *Lost update of a balance.* `repositories.py` 150-169 writes absolute values read
  without a lock. Two movements of one balance both commit and one disappears
  (`inv_lost_update`). What survives is
  `NeverOversold`. Not even other columns are safe: `save` loads the row afresh and
  then overwrites every column in which it differs from the older aggregate.
- *A duplicate that undoes others.* `execute_transaction` saves the balance of a
  duplicate as well, as it was when the request began. If somebody committed in
  between, that movement disappears although the duplicate moved nothing.
- *One key twice.* Two requests with one key that overlap are both past the look-up
  before either commits; the second INSERT does nothing and its movement is
  applied as well. So `RecordedIffApplied` speaks of sets of keys, and exactly-once
  is claimed for the serial service only.
- *A marker before the commit.* Redis is marked before the transaction commits; if
  it then rolls back, repeats are answered as duplicates until the marker expires,
  though nothing was applied. `DuplicateIsJustified` names that case. The warehouse
  services look at no status: repeating a movement after such a failure writes
  position and line although nothing was posted, and a transfer can post its `in`
  after an `out` that never was. `InFollowsOut`, `ProgressIsPosted` and `RetryHeals`
  except just those legs.
- *Two balance rows.* The unique key has nullable columns, so two first requests can
  both insert; afterwards every request for the key fails.
- *Equal part receipts.* The posting key of a receiving line names line and
  quantity, so two intended receipts of equal parts of a line post once but count
  twice. A careful client (`careful` in
  `WmsClients`) repeats only what it was not told succeeded.
- *Cancel against confirm* of an order: the reservations of the one can survive the
  other. *Two confirmations of a shipment*: the lines and the trail part ways.
- *A late packing.* `complete_packing` checks that the shipment is being picked and then
  writes `packed`; a confirmation in between has shipped it, and the shipment can be
  confirmed once more. Lines and trail count it twice, the warehouse, which
  knows the key, ships it once. `PlannedShipmentsFit` therefore needs one request at a time.
- *A ledger that is not kept.* `execute_transaction` builds the ledger entry and stores it
  nowhere, so that nothing could show a lost movement afterwards. The entry built
  for `inspect_fail` would take its quantity from the stock on hand
  (`ledger_appender.py` 44-49), while the aggregate takes it from the goods under
  inspection.
- *A step that was torn.* A handler that raises after its effect took place leaves that
  effect behind: compensation begins one step below (`saga_orchestrator.py` 63), and the
  saga ends as COMPENSATED although the step has a registered compensation.
  `CompensatedMeansUndone` says that this is the only effect left.
- *Events nobody heard.* A dispatcher without a `delivery_handler`, the default, marks every
  event as delivered (`outbox_dispatcher.py` 27, 59-61), although delivery is promised
  at least once.
- *A shipment the warehouse did not name.* If the answer to the shipping order has no
  `wms_shipping_id`, the confirmation in the warehouse is skipped and the shipment is
  recorded as shipped all the same (`sal_app_services.py` 716-731); an identifier from
  an earlier confirmation is then overwritten with none.
- *An empty shipment.* A shipment without lines of the order, when it is confirmed, sets the
  order to shipped (lines 750-760), and the order can be closed with nothing shipped.
- *Money.* Two callbacks, write-offs or treasury requests that overlap on a voucher or an
  account overwrite one another; `VouchersMatchMoney` and `BalancesMatchTransfers`
  except just those (`disputed`, `contended`). Several payments of one voucher can
  all be approved; the last callback is refused after the bank has paid. A line of
  a write-off that names a voucher nobody issued is passed over.
- *Documents.* A cancelled quotation can have been turned into an order by an
  overlapping conversion, and a settlement can ask for two payments (`contested`). The
  approver of a customer is assigned to an attribute no column stores. Submitting,
  rejecting, cancelling and closing in purchasing look at no status, although
  `PurchaseOrderAggregate` has a table of transitions (lines 45-56) and
  `tests/unit/test_pur_purchase_order_aggregate.py` calls rejected and cancelled
  terminal; the aggregate is not what the routes use. A converted purchase request
  can be submitted and approved again; only the code of its first order, which is
  taken, refuses a second (`SuccessorsAgree`). An approval and a rejection of a
  purchase return that overlap can leave it approved by nobody. `ship_return` marks
  the return as shipped even if inventory refuses, and two that overlap post twice.
- *Stale answers about features.* An update clears the cache of its own process after it
  has committed; other processes answer from theirs until the entry expires, and
  a check that an update overlapped stores its old answer after the cache was cleared.
  The guard's documentation (lines 21-25) promises a cache in Redis that all processes
  share; the client it is given is never used. The deployment starts one process.
- *A sub-feature without its module.* `FeatureSwitchAggregate` says a sub-feature must have
  a parent (line 24), but `validate` accepts one without; closing the module then
  leaves it open. `Effective` follows the code.
- *Overlapping migrations* of one tenant: the first to finish opens the tenant while
  the second still copies; hence `ExclusiveSpec`.
- *A tenant left closed.* `unfreezeWrites` drops its error and the migration reports
  completed (`migration.go` 126); a freeze whose answer is lost returns without
  rollback (line 80); after a restart nobody knows of the migration (line 40). In each
  case the tenant stays disabled until another migration of it succeeds.
  `FrozenHasOwner` says that there is no fourth.
- *Who was assigned last.* The trail orders its records by the start of their transaction.
  If two assignments overlap, both are in it, and it does not tell whose the task is.
- *A late assignment* takes a task that has meanwhile been claimed, because the UPDATE
  does not look at the status; hence the lifecycle is promised serially only.

### Findings

- `inv_lost_update`: `inventory_balance_aggregate.py` (lines 3-4) says that the balance is a
  snapshot and that every update goes through `apply_transaction`; of two overlapping
  movements with different keys, both recorded and both answered as completed, the
  first is missing from the balance (`SerialLosesNoMovement` is the converse).
- `sales_over_shipped`: the partial fulfilment service refuses shipments beyond the
  ordered quantity, but no handler calls it; two shipments of one order can
  together ship more than was ordered, without any overlap.

Both are in `PROJECT.json` with the line they refute.

### Not modelled, and why

- *Inventory.* Lots, and the ledger as a table: nothing writes it. Reservations and
  the scheduler's jobs: they name a column (`expires_at`) and a table
  (`inv_negative_stock_request`) that no migration creates, so they fail and log.
- *Warehouse.* A posting is one step of `InvAccount`: the overlaps inside it are
  `InvTransaction`'s. `cancel_task` writes a `before_state` that nothing reads.
- *Sales.* `change_order` with lines always fails on a missing attribute; voiding a
  cancelled shipment does nothing; a picking task left in the warehouse by a failed
  `submit_shipment` has no effect on order or shipment. Credit is released in several
  places and occupied nowhere. Invoices are single inserts.
- *Outbox.* `retry_dead_letters`: nothing turns an event into a dead letter.
- *Finance.* Amounts are natural numbers, without currencies and tax. The accounting
  service posts general-ledger vouchers that balance by construction and nobody
  calls the update of account balances; a voucher can be posted into a period that
  is being closed. Matching and the scan of overdue vouchers compare amounts and
  write nothing others read. Receipts are registered by an import outside this code.
- *Purchasing.* Receipts, suppliers and settlements move between statuses nobody
  checks; a payment is completed from a status nothing sets.
- *Governance.* Publishing changes the request only, never the version it is about.
  `MdmScheduler` is to roll back requests that nobody decided, but its statement
  (`mdm_scheduler.py` 213-222) names a column `state` the table does not have: it fails,
  is logged, and no request ever times out.
- *Business operations.* The orchestrators check a switch and pass the call on; the audit
  rows they write are flushed and never committed. Their scheduler of approval
  timeouts is a stub. The guard's strategy `deny` is chosen by nobody. The other guard,
  `interfaces/middleware/feature_flag_guard.py`, refuses only what is in a cache nobody fills.
- *Provisioning, placement, backup* of the control plane only log; the one status
  update of provisioning is about a tenant id it has just drawn, which no row has.
- *Saga.* A saga without steps, and executing a finished saga again.
- *Migration.* The rollback of the orchestrator is never reached.
- *Audit.* The writer that buffers is installed by no caller, and nothing flushes it.
- *IAM, HTTP layer, frontend, reports, the SEC/PROD/REL tools.* Requests are taken as
  authenticated and authorised; the rest is single-row writes, reports and tools
  that run tests. These are most of the source by lines, which is why the modules
  stand for a small share of it.
- *Whole components* are listed, with the reason, in `PROJECT.json`.

### Assumptions about the surroundings

- The migrations 070 to 078 name columns that several finance repositories do not use,
  and lack some they do. The models take the tables as the repositories use them.
- Executing a treasury transfer and unfreezing an account are services without a route;
  they are modelled as if they were called.
- Codes of purchase orders that clients choose do not begin with `PO-`, the prefix of
  those that are derived from a request.

## 6. Plan

What would extend the project, the most valuable first:

1. A composition of `WmsMovement` with `InvTransaction` in place of `InvAccount`, so that
   overlapping movements meet the races of section 5; the positions then agree
   with the balance only while postings of one SKU do not overlap. Three movements
   of four awaits each are at the edge of what TLC explores, so that this needs a
   coarser `InvTransaction` that is first shown to be implemented by the detailed one.
2. The reservation aggregate and its expiry, once a service calls it.
3. General-ledger posting against the closing of a period.
4. Proofs: that composition refines `WmsMovement` while postings of one SKU do not overlap;
   an abstract voucher and an abstract account that `FinVouchers` and `FinTreasury` implement
   where requests do not overlap, as `InvTransaction` implements `InvAccount`.

## 7. Running it

In this directory:

    tlc -workers 2 -config InvTransaction.cfg MCInvTransaction
    tlapm InvTransaction_proofs.tla

The module of each configuration is in the `runs` of `PROJECT.json`, which also lists,
for every property, a plausible bug in the code (a mutant of one definition) that
breaks it.
