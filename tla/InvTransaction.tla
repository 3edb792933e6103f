---------------------------- MODULE InvTransaction ----------------------------
(***************************************************************************)
(* POST /inv/inventory/transactions (and every call the warehouse services *)
(* make to the same application service): one request runs the eleven step *)
(* InventoryTransactionExecutor inside one PostgreSQL transaction (READ     *)
(* COMMITTED), with Redis in front of the idempotency table.               *)
(*                                                                         *)
(* A request is a coroutine; it gives way to the others at every await, so *)
(* its steps here are the stretches of code between two statements that    *)
(* reach PostgreSQL or Redis.  All requests of the model address the same  *)
(* (tenant, SKU, warehouse), the only case in which they interact.         *)
(*                                                                         *)
(* Committed state: rows, idem, redis.  State private to a request until   *)
(* its commit: pc, target, read, work, answered, inserted, poisoned.       *)
(* marked is history, for DuplicateIsJustified.                            *)
(***************************************************************************)
EXTENDS InvBalance, FiniteSets, Functions

CONSTANTS
  Requests,    \* the HTTP requests (or warehouse calls) of the run
  Keys,        \* the idempotency keys clients use
  Calls,       \* the payloads a request may carry
  FirstRow,    \* the id of the balance row that exists at the start, if any
  Stocks       \* the contents that row may have

ASSUME CallsAssumption ==
  Calls \subseteq [key : Keys, type : TransactionTypes, qty : Int]
ASSUME FirstRowAssumption == FirstRow \notin Requests
ASSUME StocksAssumption == Stocks \subseteq {b \in Balance : b["onHand"] >= 0}

VARIABLES
  rows,        \* inv_inventory_balance: committed rows, id -> columns
  idem,        \* inv_idempotency_record: committed keys
  redis,       \* keys that have a marker in Redis
  redisUp,     \* whether Redis answers
  marked,      \* history: the requests that have set the marker of their key
  call,        \* the payload of each request
  pc,          \* where each request is
  target,      \* the balance row the request works on
  read,        \* the columns its session has last loaded from there
  work,        \* the in-memory InventoryBalanceAggregate
  answered,    \* it was found to be a duplicate
  inserted,    \* its INSERT into inv_idempotency_record took effect
  poisoned     \* a statement of its transaction failed and was swallowed

db    == <<rows, idem>>
cache == <<redis, redisUp, marked>>
tx    == <<target, read, work, answered, inserted, poisoned>>
vars  == <<rows, idem, redis, redisUp, marked, call, pc, tx>>

\* A request that creates the balance row names it: row ids are requests.
RowIds == Requests \cup {FirstRow}

InFlightPoints == {"checkRedis", "checkDb", "record", "mark", "reload", "save", "commit"}
Outcomes       == {"completed", "duplicate", "failed"}
Points         == {"idle"} \cup InFlightPoints \cup Outcomes

InFlight(r)  == pc[r] \in InFlightPoints
KeyOf(r)     == call[r].key

Init ==
  /\ rows \in UNION {[R -> Stocks] : R \in {{}, {FirstRow}}}
  /\ idem = {}
  /\ redis = {}
  /\ marked = {}
  /\ redisUp \in BOOLEAN
  /\ call \in [Requests -> Calls]
  /\ pc = [r \in Requests |-> "idle"]
  /\ target = [r \in Requests |-> FirstRow]
  /\ read = [r \in Requests |-> ZeroBalance]
  /\ work = [r \in Requests |-> ZeroBalance]
  /\ answered = [r \in Requests |-> FALSE]
  /\ inserted = [r \in Requests |-> FALSE]
  /\ poisoned = [r \in Requests |-> FALSE]

Goto(r, point) == pc' = [pc EXCEPT ![r] = point]

-------------------------------------------------------------------------------
(***************************************************************************)
(* execute_transaction: build the transaction aggregate, get_or_create the *)
(* balance row, INSERT the transaction row.                                *)
(***************************************************************************)

\* get_or_create reads with a plain SELECT, keyed by tenant, SKU and
\* warehouse.  A missing row is inserted and stays private until the commit.
Begin(r) ==
  /\ pc[r] = "idle"
  /\ call[r].qty > 0
  /\ \/ /\ DOMAIN rows = {}
        /\ target' = [target EXCEPT ![r] = r]
        /\ read' = [read EXCEPT ![r] = ZeroBalance]
        /\ work' = [work EXCEPT ![r] = ZeroBalance]
     \/ \E b \in DOMAIN rows :
          /\ DOMAIN rows = {b}
          /\ target' = [target EXCEPT ![r] = b]
          /\ read' = [read EXCEPT ![r] = rows[b]]
          /\ work' = [work EXCEPT ![r] = rows[b]]
  /\ Goto(r, "checkRedis")
  /\ UNCHANGED <<db, cache, call, answered, inserted, poisoned>>

\* The aggregate refuses a quantity that is not positive, and
\* scalar_one_or_none refuses two rows for the same key.
BeginRefused(r) ==
  /\ pc[r] = "idle"
  /\ \/ call[r].qty <= 0
     \/ \E a, b \in DOMAIN rows : a # b
  /\ Goto(r, "failed")
  /\ UNCHANGED <<db, cache, call, tx>>

-------------------------------------------------------------------------------
(***************************************************************************)
(* InventoryTransactionExecutor.execute                                    *)
(***************************************************************************)

\* The executor returns: what is left is to save the balance it was given.
Answer(r) ==
  /\ answered' = [answered EXCEPT ![r] = TRUE]
  /\ Goto(r, "reload")

\* Mutant: the marker is claimed (SET NX) when the key is first looked up.
CheckRedisClaims(r) ==
  /\ pc[r] = "checkRedis"
  /\ \/ redisUp /\ KeyOf(r) \in redis /\ Answer(r)
     \/ ~ (redisUp /\ KeyOf(r) \in redis) /\ Goto(r, "checkDb") /\ UNCHANGED answered
  /\ redis' = IF redisUp THEN redis \cup {KeyOf(r)} ELSE redis
  /\ UNCHANGED <<db, redisUp, marked, call, target, read, work, inserted, poisoned>>

\* _check_idempotency, step 1: a marker in Redis answers the request.
CheckRedis(r) ==
  /\ pc[r] = "checkRedis"
  /\ \/ redisUp /\ KeyOf(r) \in redis /\ Answer(r)
     \/ ~ (redisUp /\ KeyOf(r) \in redis) /\ Goto(r, "checkDb") /\ UNCHANGED answered
  /\ UNCHANGED <<db, cache, call, target, read, work, inserted, poisoned>>

\* _check_idempotency, step 2: a committed record answers the request.
CheckDbHit(r) ==
  /\ pc[r] = "checkDb"
  /\ KeyOf(r) \in idem
  /\ Answer(r)
  /\ UNCHANGED <<db, cache, call, target, read, work, inserted, poisoned>>

\* No record: the stock check, then the aggregate and the ledger entry are
\* computed in memory, without another await.
Execute(r) ==
  LET c == call[r] IN
  /\ StockSuffices(work[r], c.type, c.qty)
  /\ work' = [work EXCEPT ![r] = ApplyTransaction(@, c.type, c.qty)]
  /\ Goto(r, "record")

Refuse(r) ==
  /\ ~ StockSuffices(work[r], call[r].type, call[r].qty)
  /\ Goto(r, "failed")
  /\ UNCHANGED work

\* Mutant: only Redis is consulted, never the table.
CheckDbSkipped(r) ==
  /\ pc[r] = "checkDb"
  /\ Execute(r) \/ Refuse(r)
  /\ UNCHANGED <<db, cache, call, target, read, answered, inserted, poisoned>>

CheckDbMiss(r) ==
  /\ pc[r] = "checkDb"
  /\ KeyOf(r) \notin idem
  /\ Execute(r) \/ Refuse(r)
  /\ UNCHANGED <<db, cache, call, target, read, answered, inserted, poisoned>>

\* Mutant: the look-up runs in a connection of its own and fails open.
CheckDbErrorFailsOpen(r) ==
  /\ pc[r] = "checkDb"
  /\ Execute(r) \/ Refuse(r)
  /\ UNCHANGED <<db, cache, call, target, read, answered, inserted, poisoned>>

\* The SELECT fails: the exception is swallowed and the request goes on, but
\* PostgreSQL refuses every further statement of the transaction.
CheckDbError(r) ==
  /\ pc[r] = "checkDb"
  /\ poisoned' = [poisoned EXCEPT ![r] = TRUE]
  /\ Execute(r) \/ Refuse(r)
  /\ UNCHANGED <<db, cache, call, target, read, answered, inserted>>

\* Mutant: the lock on a key outlives the transaction that took it.
HoldsKeyForEver(r) == inserted[r]

\* Between its INSERT and the end of its transaction a request locks its key.
HoldsKey(r) == inserted[r] /\ pc[r] \in {"mark", "reload", "save", "commit"}

\* _save_idempotency, step 1: INSERT ... ON CONFLICT DO NOTHING.  It waits for
\* a transaction that holds the same key, then inserts if the key is still
\* free; in a failed transaction its error is swallowed.
RecordKey(r) ==
  /\ pc[r] = "record"
  /\ \A s \in Requests \ {r} : HoldsKey(s) => KeyOf(s) # KeyOf(r)
  /\ inserted' = [inserted EXCEPT ![r] = ~ poisoned[r] /\ KeyOf(r) \notin idem]
  /\ Goto(r, "mark")
  /\ UNCHANGED <<db, cache, call, target, read, work, answered, poisoned>>

\* _save_idempotency, step 2: SET in Redis, best effort, before the commit.
MarkRedis(r) ==
  /\ pc[r] = "mark"
  /\ IF redisUp THEN redis' = redis \cup {KeyOf(r)} /\ marked' = marked \cup {r}
                ELSE UNCHANGED <<redis, marked>>
  /\ Goto(r, "reload")
  /\ UNCHANGED <<db, redisUp, call, tx>>

-------------------------------------------------------------------------------
(***************************************************************************)
(* execute_transaction, after the executor: save the balance, update the   *)
(* transaction row, commit.                                                *)
(***************************************************************************)

\* InventoryBalanceRepository.save, for duplicates as well: a SELECT of the row
\* by its id.  The session holds objects weakly and nothing refers to the one
\* get_or_create loaded, so that the SELECT makes a new one of what the row
\* holds by now, or finds the old one where it has not been collected.
Reload(r) ==
  /\ pc[r] = "reload"
  /\ ~ poisoned[r]
  /\ \E row \in {read[r]} \cup {rows[b] : b \in DOMAIN rows \cap {target[r]}} :
       read' = [read EXCEPT ![r] = row]
  /\ Goto(r, "save")
  /\ UNCHANGED <<db, cache, call, target, work, answered, inserted, poisoned>>

ReloadRefused(r) ==
  /\ pc[r] = "reload"
  /\ poisoned[r]
  /\ Goto(r, "failed")
  /\ UNCHANGED <<db, cache, call, tx>>

\* The flush sends an UPDATE for what differs from the object, if anything.
Updates(r) == work[r] # read[r]

\* Between the flush of its UPDATE and the commit a request locks its row.
HoldsRow(r) == pc[r] = "commit" /\ Updates(r)

SaveBalance(r) ==
  /\ pc[r] = "save"
  /\ Updates(r) => \A s \in Requests \ {r} : HoldsRow(s) => target[s] # target[r]
  /\ Goto(r, "commit")
  /\ UNCHANGED <<db, cache, call, tx>>

\* The row as the commit leaves it: the columns in the UPDATE take the values of
\* the aggregate, stale as they may be, the others keep what is there; a row of
\* its own becomes visible.
Saved(r) ==
  [c \in Columns |->
     IF target[r] \in DOMAIN rows /\ work[r][c] = read[r][c]
     THEN rows[target[r]][c]
     ELSE work[r][c]]

WriteRow(r) ==
  rows' = [b \in DOMAIN rows \cup {target[r]} |->
             IF b = target[r] THEN Saved(r) ELSE rows[b]]

Commit(r) ==
  /\ pc[r] = "commit" /\ ~ answered[r]
  /\ WriteRow(r)
  /\ idem' = IF inserted[r] THEN idem \cup {KeyOf(r)} ELSE idem
  /\ Goto(r, "completed")
  /\ UNCHANGED <<cache, call, tx>>

\* A duplicate commits as well: a row it created appears, its transaction row
\* stays pending, and whatever others have written into the balance since it
\* was read may be overwritten by the aggregate it never touched.
CommitDuplicate(r) ==
  /\ pc[r] = "commit" /\ answered[r]
  /\ WriteRow(r)
  /\ Goto(r, "duplicate")
  /\ UNCHANGED <<idem, cache, call, tx>>

-------------------------------------------------------------------------------
(***************************************************************************)
(* The environment                                                         *)
(***************************************************************************)

\* Mutant: the idempotency record is committed in a session of its own.
FailKeepsRecord(r) ==
  /\ InFlight(r)
  /\ idem' = IF HoldsKey(r) THEN idem \cup {KeyOf(r)} ELSE idem
  /\ Goto(r, "failed")
  /\ UNCHANGED <<rows, cache, call, tx>>

\* The worker dies, the client disconnects, a statement or the COMMIT itself
\* fails: PostgreSQL rolls back, Redis does not.
Fail(r) ==
  /\ InFlight(r)
  /\ Goto(r, "failed")
  /\ UNCHANGED <<db, cache, call, tx>>

RedisTurns ==
  /\ redisUp' = ~ redisUp
  /\ UNCHANGED <<db, redis, marked, call, pc, tx>>

\* IDEMPOTENCY_TTL passes, or Redis evicts the marker.
MarkerExpires(k) ==
  /\ k \in redis
  /\ redis' = redis \ {k}
  /\ UNCHANGED <<db, redisUp, marked, call, pc, tx>>

\* What the event loop runs of a request that has begun.
Step(r) ==
  \/ CheckRedis(r) \/ CheckDbHit(r) \/ CheckDbMiss(r) \/ CheckDbError(r)
  \/ RecordKey(r)  \/ MarkRedis(r)  \/ Reload(r) \/ ReloadRefused(r) \/ SaveBalance(r)
  \/ Commit(r)     \/ CommitDuplicate(r)

Next ==
  \/ \E r \in Requests : Begin(r) \/ BeginRefused(r) \/ Step(r) \/ Fail(r)
  \/ \E k \in Keys : MarkerExpires(k)
  \/ RedisTurns

Spec == Init /\ [][Next]_vars

\* The event loop keeps running every coroutine that can proceed.  Nothing
\* obliges a client to send its request, or Redis to recover.
FairSpec == Spec /\ \A r \in Requests : WF_vars(Step(r))

-------------------------------------------------------------------------------
TypeOK ==
  /\ DOMAIN rows \subseteq RowIds
  /\ \A b \in DOMAIN rows : rows[b] \in Balance
  /\ idem \subseteq Keys
  /\ redis \subseteq Keys
  /\ redisUp \in BOOLEAN
  /\ marked \subseteq Requests
  /\ call \in [Requests -> Calls]
  /\ pc \in [Requests -> Points]
  /\ target \in [Requests -> RowIds]
  /\ read \in [Requests -> Balance]
  /\ work \in [Requests -> Balance]
  /\ answered \in [Requests -> BOOLEAN]
  /\ inserted \in [Requests -> BOOLEAN]
  /\ poisoned \in [Requests -> BOOLEAN]

-------------------------------------------------------------------------------
(***************************************************************************)
(* Safety                                                                  *)
(***************************************************************************)

\* No committed row ever shows negative stock on hand, however the requests
\* interleave: each one checks, and overwrites with an absolute value computed
\* from, the very copy it read, and so does a duplicate, though it checks
\* nothing (executor lines 62-78, repositories.py 150-169).
NeverOversold == \A b \in DOMAIN rows : rows[b]["onHand"] >= 0

\* The idempotency record and the balance change of a request stand or fall
\* together: the recorded keys are exactly the keys of the requests that
\* completed, whatever statements failed in between ("fact layer", executor
\* lines 162-187 and 231-249).
RecordedIffApplied == idem = {KeyOf(r) : r \in {s \in Requests : pc[s] = "completed"}}

\* A duplicate answer is never invented: its key is recorded, or another
\* request of the key has itself set the Redis marker and has since died or is
\* on its way to the commit (executor lines 140-158 and 251-260).  A request
\* that died before the marker, or was refused, answers nobody.
DuplicateIsJustified ==
  \A r \in Requests :
    answered[r] =>
      \/ KeyOf(r) \in idem
      \/ \E s \in marked \ {r} :
           /\ KeyOf(s) = KeyOf(r) /\ ~ answered[s]
           /\ pc[s] \in {"reload", "save", "commit", "failed"}

\* Never fail-open (executor line 162): once a key is recorded, a request that
\* has not yet looked for it will not apply it again, even if Redis has lost
\* the marker and the look-up in the database fails.
LateRetryNeverApplies ==
  \A r \in Requests :
    [](pc[r] \in {"idle", "checkRedis", "checkDb"} /\ KeyOf(r) \in idem
         => [](pc[r] # "completed"))

\* Neither the key lock nor the row lock leaves a request waiting for ever.
EveryRequestSettles == \A r \in Requests : InFlight(r) ~> pc[r] \in Outcomes

-------------------------------------------------------------------------------
(***************************************************************************)
(* With one request at a time the service is the exactly-once account.     *)
(***************************************************************************)
OneAtATime == \A r, s \in Requests : InFlight(r) /\ InFlight(s) => r = s

SerialSpec == Init /\ [][Next /\ OneAtATime']_vars

Account ==
  INSTANCE InvAccount WITH
    stock  <- IF DOMAIN rows = {} THEN ZeroBalance ELSE rows[CHOOSE b \in DOMAIN rows : TRUE],
    posted <- idem

\* Every step of the serial service is one movement of the account, posted
\* once per key, or leaves the account alone.
ImplementsAccount == Account!Spec

-------------------------------------------------------------------------------
(***************************************************************************)
(* What comments and tests say of the service, and concurrency refutes.    *)
(***************************************************************************)

\* No movement gets lost: the stock on hand is the initial stock and what each
\* completed request moved.  "All updates must go through apply_transaction"
\* and the balance is a snapshot of them (inventory_balance_aggregate.py lines
\* 3-4).
SumOfMovements(initial) ==
  initial + SumFunctionOnSet([r \in Requests |-> Moved("onHand", call[r].type, call[r].qty)],
                             {r \in Requests : pc[r] = "completed"})

BalanceIsSumOfMovements ==
  \A initial \in Stocks :
    (Stocks = {initial} /\ FirstRow \in DOMAIN rows)
      => rows[FirstRow]["onHand"] = SumOfMovements(initial["onHand"])

===============================================================================
