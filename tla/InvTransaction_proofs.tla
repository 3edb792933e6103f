------------------------- MODULE InvTransaction_proofs -------------------------
(***************************************************************************)
(* Theorems about InvTransaction, for any number of requests, any keys and *)
(* any payloads: what overlapping requests still guarantee, and that       *)
(* requests which do not overlap are the movements of an account, none of  *)
(* them lost.                                                              *)
(***************************************************************************)
EXTENDS InvTransaction, Sums, TLAPS

\* What one movement does to a stock record, column by column.
LEMMA ApplyIsBalance ==
  ASSUME NEW b \in Balance, NEW t \in TransactionTypes, NEW n \in Int
  PROVE  ApplyTransaction(b, t, n) \in Balance
BY DEF ApplyTransaction, Moved, Balance

\* A movement the stock check lets through keeps the stock on hand at or above
\* zero: an outbound type takes at most what is there, an inbound one takes none.
LEMMA ApplyKeepsOnHand ==
  ASSUME NEW b \in Balance, NEW t \in TransactionTypes, NEW n \in Int,
         n > 0, b["onHand"] >= 0, StockSuffices(b, t, n)
  PROVE  ApplyTransaction(b, t, n)["onHand"] >= 0
<1>1. b["onHand"] \in Int /\ "onHand" \in Columns
  BY DEF Balance, Columns
<1>2. CASE t \in Outbound
  <2>1. b["onHand"] >= n
    BY <1>2 DEF StockSuffices
  <2>2. t \notin PutsInto("onHand")
    BY <1>2 DEF Outbound, PutsInto
  <2> QED BY <1>1, <2>1, <2>2 DEF ApplyTransaction, Moved
<1>3. CASE t \in Inbound
  <2>1. t \notin TakesFrom("onHand")
    BY <1>3 DEF Inbound, TakesFrom
  <2> QED BY <1>1, <2>1 DEF ApplyTransaction, Moved
<1> QED BY <1>2, <1>3 DEF TransactionTypes

-------------------------------------------------------------------------------
(***************************************************************************)
(* Type correctness                                                        *)
(***************************************************************************)

LEMMA ZeroIsBalance == ZeroBalance \in Balance
BY DEF ZeroBalance, Balance

\* The row a committing request leaves behind is a stock record again.
LEMMA SavedIsBalance ==
  ASSUME TypeOK, NEW r \in Requests
  PROVE  Saved(r) \in Balance
<1>1. work[r] \in Balance
  BY DEF TypeOK
<1>2. target[r] \in DOMAIN rows => rows[target[r]] \in Balance
  BY DEF TypeOK
<1> QED BY <1>1, <1>2 DEF Saved, Balance

LEMMA WriteRowKeepsType ==
  ASSUME TypeOK, NEW r \in Requests, WriteRow(r)
  PROVE  /\ (DOMAIN rows)' \subseteq RowIds
         /\ \A b \in (DOMAIN rows)' : rows'[b] \in Balance
<1>1. (DOMAIN rows)' = DOMAIN rows \cup {target[r]}
  BY DEF WriteRow
<1>2. target[r] \in RowIds
  BY DEF TypeOK
<1>3. ASSUME NEW b \in (DOMAIN rows)' PROVE rows'[b] \in Balance
  <2>1. rows'[b] = IF b = target[r] THEN Saved(r) ELSE rows[b]
    BY <1>1, <1>3 DEF WriteRow
  <2> QED BY <1>1, <1>3, <2>1, SavedIsBalance DEF TypeOK
<1> QED BY <1>1, <1>2, <1>3 DEF TypeOK

\* What a request loads again is a stock record.
LEMMA ReloadedIsBalance ==
  ASSUME TypeOK, NEW r \in Requests, Reload(r)
  PROVE  \E row \in Balance : read' = [read EXCEPT ![r] = row]
<1>1. PICK row \in {read[r]} \cup {rows[b] : b \in DOMAIN rows \cap {target[r]}} :
        read' = [read EXCEPT ![r] = row]
  BY DEF Reload
<1>2. row \in Balance
  BY <1>1 DEF TypeOK
<1> QED BY <1>1, <1>2

\* Every step keeps every variable in its type.
LEMMA TypeStep == TypeOK /\ [Next]_vars => TypeOK'
<1> SUFFICES ASSUME TypeOK, [Next]_vars PROVE TypeOK'
  OBVIOUS
<1> USE DEF InFlightPoints, Outcomes, Points, Goto, db, cache, tx
<1>1. ASSUME NEW r \in Requests, Begin(r) PROVE TypeOK'
  <2>1. CASE DOMAIN rows = {}
    BY <1>1, <2>1, ZeroIsBalance DEF Begin, TypeOK, RowIds
  <2>2. CASE DOMAIN rows # {}
    BY <1>1, <2>2 DEF Begin, TypeOK
  <2> QED BY <2>1, <2>2
<1>2. ASSUME NEW r \in Requests, BeginRefused(r) PROVE TypeOK'
  BY <1>2 DEF BeginRefused, TypeOK
<1>3. ASSUME NEW r \in Requests, CheckRedis(r) PROVE TypeOK'
  BY <1>3 DEF CheckRedis, Answer, TypeOK
<1>4. ASSUME NEW r \in Requests, CheckDbHit(r) PROVE TypeOK'
  BY <1>4 DEF CheckDbHit, Answer, TypeOK
<1>5. ASSUME NEW r \in Requests, Execute(r) \/ Refuse(r)
      PROVE  work' \in [Requests -> Balance] /\ pc' \in [Requests -> Points]
  <2>1. call[r].type \in TransactionTypes /\ call[r].qty \in Int
    BY CallsAssumption DEF TypeOK
  <2>2. ApplyTransaction(work[r], call[r].type, call[r].qty) \in Balance
    BY <2>1, ApplyIsBalance DEF TypeOK
  <2>3. CASE Execute(r)
    BY <2>2, <2>3 DEF Execute, TypeOK
  <2>4. CASE Refuse(r)
    BY <2>4 DEF Refuse, TypeOK
  <2> QED BY <1>5, <2>3, <2>4
<1>6. ASSUME NEW r \in Requests, CheckDbMiss(r) PROVE TypeOK'
  BY <1>5, <1>6 DEF CheckDbMiss, TypeOK
<1>7. ASSUME NEW r \in Requests, CheckDbError(r) PROVE TypeOK'
  BY <1>5, <1>7 DEF CheckDbError, TypeOK
<1>8. ASSUME NEW r \in Requests, RecordKey(r) PROVE TypeOK'
  BY <1>8 DEF RecordKey, TypeOK
<1>9. ASSUME NEW r \in Requests, MarkRedis(r) PROVE TypeOK'
  <2>1. KeyOf(r) \in Keys
    BY CallsAssumption DEF TypeOK, KeyOf
  <2> QED BY <1>9, <2>1 DEF MarkRedis, TypeOK
<1>10. ASSUME NEW r \in Requests, SaveBalance(r) \/ ReloadRefused(r) PROVE TypeOK'
  BY <1>10 DEF SaveBalance, ReloadRefused, TypeOK
<1>17. ASSUME NEW r \in Requests, Reload(r) PROVE TypeOK'
  <2>1. PICK row \in Balance : read' = [read EXCEPT ![r] = row]
    BY <1>17, ReloadedIsBalance
  <2> QED BY <1>17, <2>1 DEF Reload, TypeOK
<1>11. ASSUME NEW r \in Requests, Commit(r) PROVE TypeOK'
  <2>1. KeyOf(r) \in Keys
    BY CallsAssumption DEF TypeOK, KeyOf
  <2>2. WriteRow(r)
    BY <1>11 DEF Commit
  <2> QED BY <1>11, <2>1, <2>2, WriteRowKeepsType DEF Commit, TypeOK
<1>12. ASSUME NEW r \in Requests, CommitDuplicate(r) PROVE TypeOK'
  <2>1. WriteRow(r)
    BY <1>12 DEF CommitDuplicate
  <2> QED BY <1>12, <2>1, WriteRowKeepsType DEF CommitDuplicate, TypeOK
<1>13. ASSUME NEW r \in Requests, Fail(r) PROVE TypeOK'
  BY <1>13 DEF Fail, TypeOK
<1>14. ASSUME NEW k \in Keys, MarkerExpires(k) PROVE TypeOK'
  BY <1>14 DEF MarkerExpires, TypeOK
<1>15. CASE RedisTurns
  BY <1>15 DEF RedisTurns, TypeOK
<1>16. CASE UNCHANGED vars
  BY <1>16 DEF vars, TypeOK
<1> QED BY <1>1, <1>2, <1>3, <1>4, <1>6, <1>7, <1>8, <1>9, <1>10, <1>11, <1>12,
           <1>13, <1>14, <1>15, <1>16, <1>17 DEF Next, Step

\* The initial states are well typed.
LEMMA TypeInit == Init => TypeOK
<1> SUFFICES ASSUME Init PROVE TypeOK
  OBVIOUS
<1>1. PICK R \in {{}, {FirstRow}} : rows \in [R -> Stocks]
  BY DEF Init
<1>2. DOMAIN rows \subseteq RowIds /\ \A b \in DOMAIN rows : rows[b] \in Balance
  BY <1>1, StocksAssumption DEF RowIds
<1> QED BY <1>2, ZeroIsBalance DEF Init, TypeOK, RowIds, Points

\* Type correctness, for every number of requests, keys and payloads.
THEOREM TypeCorrect == Spec => []TypeOK
BY TypeInit, TypeStep, PTL DEF Spec

-------------------------------------------------------------------------------
(***************************************************************************)
(* No interleaving oversells                                               *)
(***************************************************************************)

\* NeverOversold is not inductive: a commit writes what the request computed
\* long before.  The strengthening carries the same bound through the copy a
\* request read and the aggregate it keeps in memory, and remembers that only
\* positive quantities get past the aggregate's constructor.
CopiesNeverOversold ==
  \A r \in Requests :
    /\ read[r]["onHand"] >= 0
    /\ work[r]["onHand"] >= 0
    /\ InFlight(r) => call[r].qty > 0

StockInv == NeverOversold /\ CopiesNeverOversold

LEMMA StockInit == Init => StockInv
<1> SUFFICES ASSUME Init PROVE StockInv
  OBVIOUS
<1>1. PICK R \in {{}, {FirstRow}} : rows \in [R -> Stocks]
  BY DEF Init
<1>2. NeverOversold
  BY <1>1, StocksAssumption DEF NeverOversold
<1>3. ZeroBalance["onHand"] >= 0
  BY DEF ZeroBalance, Columns
<1> QED BY <1>2, <1>3 DEF Init, StockInv, CopiesNeverOversold, InFlight, InFlightPoints

\* A row written by a commit is either left with the stock it had or gets the
\* stock of the request's aggregate.
LEMMA WriteRowKeepsStock ==
  ASSUME TypeOK, StockInv, NEW r \in Requests, WriteRow(r)
  PROVE  NeverOversold'
<1>1. ASSUME NEW b \in (DOMAIN rows)' PROVE rows'[b]["onHand"] >= 0
  <2>1. b \in DOMAIN rows \cup {target[r]} /\ rows'[b] = IF b = target[r] THEN Saved(r) ELSE rows[b]
    BY <1>1 DEF WriteRow
  <2>2. Saved(r)["onHand"] >= 0
    <3>1. Saved(r)["onHand"] = IF target[r] \in DOMAIN rows /\ work[r]["onHand"] = read[r]["onHand"]
                               THEN rows[target[r]]["onHand"] ELSE work[r]["onHand"]
      BY DEF Saved, Columns
    <3> QED BY <3>1 DEF StockInv, NeverOversold, CopiesNeverOversold
  <2> QED BY <2>1, <2>2 DEF StockInv, NeverOversold
<1> QED BY <1>1 DEF NeverOversold

LEMMA StockStep == TypeOK /\ StockInv /\ [Next]_vars => StockInv'
<1> SUFFICES ASSUME TypeOK, StockInv, [Next]_vars PROVE StockInv'
  OBVIOUS
<1> USE DEF InFlight, InFlightPoints, Goto, db, cache, tx
<1>1. ASSUME NEW r \in Requests, Begin(r) PROVE StockInv'
  <2>1. ZeroBalance["onHand"] >= 0
    BY DEF ZeroBalance, Columns
  <2> QED BY <1>1, <2>1 DEF Begin, TypeOK, StockInv, NeverOversold, CopiesNeverOversold
<1>2. ASSUME NEW r \in Requests, Execute(r) \/ Refuse(r), pc[r] = "checkDb",
             UNCHANGED <<rows, read, call>>
      PROVE  StockInv'
  <2>1. work[r] \in Balance /\ call[r].type \in TransactionTypes /\ call[r].qty \in Int /\ call[r].qty > 0
    BY <1>2, CallsAssumption DEF TypeOK, StockInv, CopiesNeverOversold
  <2>2. CASE Execute(r)
    <3>1. ApplyTransaction(work[r], call[r].type, call[r].qty)["onHand"] >= 0
      BY <2>1, <2>2, ApplyKeepsOnHand DEF Execute, StockInv, CopiesNeverOversold
    <3> QED BY <1>2, <2>2, <3>1 DEF Execute, TypeOK, StockInv, NeverOversold, CopiesNeverOversold
  <2>3. CASE Refuse(r)
    BY <1>2, <2>3 DEF Refuse, TypeOK, StockInv, NeverOversold, CopiesNeverOversold
  <2> QED BY <1>2, <2>2, <2>3
<1>3. ASSUME NEW r \in Requests, CheckDbMiss(r) \/ CheckDbError(r) PROVE StockInv'
  BY <1>2, <1>3 DEF CheckDbMiss, CheckDbError
<1>4. ASSUME NEW r \in Requests, Commit(r) \/ CommitDuplicate(r) PROVE StockInv'
  <2>1. NeverOversold'
    BY <1>4, WriteRowKeepsStock DEF Commit, CommitDuplicate
  <2> QED BY <1>4, <2>1 DEF Commit, CommitDuplicate, TypeOK, StockInv, CopiesNeverOversold
<1>5. ASSUME NEW r \in Requests,
             \/ BeginRefused(r) \/ CheckRedis(r) \/ CheckDbHit(r) \/ RecordKey(r)
             \/ MarkRedis(r) \/ SaveBalance(r) \/ ReloadRefused(r) \/ Fail(r)
      PROVE  StockInv'
  BY <1>5 DEF BeginRefused, CheckRedis, CheckDbHit, Answer, RecordKey, MarkRedis, SaveBalance,
              ReloadRefused, Fail, TypeOK, StockInv, NeverOversold, CopiesNeverOversold
<1>8. ASSUME NEW r \in Requests, Reload(r) PROVE StockInv'
  <2>1. PICK row \in {read[r]} \cup {rows[b] : b \in DOMAIN rows \cap {target[r]}} :
          read' = [read EXCEPT ![r] = row]
    BY <1>8 DEF Reload
  <2>2. row["onHand"] >= 0
    BY <2>1 DEF StockInv, NeverOversold, CopiesNeverOversold
  <2> QED
    BY <1>8, <2>1, <2>2 DEF Reload, TypeOK, StockInv, NeverOversold, CopiesNeverOversold
<1>6. ASSUME NEW k \in Keys, MarkerExpires(k) PROVE StockInv'
  BY <1>6 DEF MarkerExpires, StockInv, NeverOversold, CopiesNeverOversold
<1>7. CASE RedisTurns \/ UNCHANGED vars
  BY <1>7 DEF RedisTurns, vars, StockInv, NeverOversold, CopiesNeverOversold
<1> QED BY <1>1, <1>3, <1>4, <1>5, <1>6, <1>7, <1>8 DEF Next, Step

\* No interleaving of requests, failures, retries and Redis outages commits a
\* negative stock on hand.
THEOREM StockNeverNegative == Spec => []NeverOversold
<1>1. StockInv => NeverOversold
  BY DEF StockInv
<1> QED BY <1>1, TypeCorrect, StockInit, StockStep, PTL DEF Spec

-------------------------------------------------------------------------------
(***************************************************************************)
(* The record of a key and the movement stand or fall together             *)
(***************************************************************************)

\* The strengthening: past its INSERT a request either holds the record itself,
\* or found it committed, or runs in a failed transaction that cannot commit.
\* Only a request that skips the INSERT is answered as a duplicate.
RecordInv ==
  /\ RecordedIffApplied
  /\ \A r \in Requests :
       /\ pc[r] \in {"idle", "checkRedis", "checkDb", "record", "mark"} => ~ answered[r]
       /\ pc[r] \in {"mark", "reload", "save", "commit"} /\ ~ answered[r]
            => inserted[r] \/ poisoned[r] \/ KeyOf(r) \in idem
       /\ pc[r] \in {"save", "commit"} => ~ poisoned[r]

LEMMA RecordStep == TypeOK /\ RecordInv /\ [Next]_vars => RecordInv'
<1> SUFFICES ASSUME TypeOK, RecordInv, [Next]_vars PROVE RecordInv'
  OBVIOUS
<1> USE DEF Goto, db, cache, tx, KeyOf, TypeOK, RecordInv, RecordedIffApplied
<1>1. ASSUME NEW r \in Requests,
             \/ Begin(r) \/ BeginRefused(r) \/ CheckRedis(r) \/ CheckDbHit(r)
      PROVE  RecordInv'
  BY <1>1 DEF Begin, BeginRefused, CheckRedis, CheckDbHit, Answer
<1>2. ASSUME NEW r \in Requests, CheckDbMiss(r) \/ CheckDbError(r) PROVE RecordInv'
  BY <1>2 DEF CheckDbMiss, CheckDbError, Execute, Refuse
<1>3. ASSUME NEW r \in Requests, RecordKey(r) PROVE RecordInv'
  BY <1>3 DEF RecordKey
<1>4. ASSUME NEW r \in Requests,
             \/ MarkRedis(r) \/ Reload(r) \/ ReloadRefused(r) \/ SaveBalance(r) \/ CommitDuplicate(r)
      PROVE  RecordInv'
  BY <1>4 DEF MarkRedis, Reload, ReloadRefused, SaveBalance, CommitDuplicate
<1>5. ASSUME NEW r \in Requests, Commit(r) PROVE RecordInv'
  <2>1. idem' = idem \cup {KeyOf(r)}
    BY <1>5 DEF Commit
  <2>2. pc' = [pc EXCEPT ![r] = "completed"] /\ call' = call
    BY <1>5 DEF Commit
  <2>3. RecordedIffApplied'
    BY <2>1, <2>2
  <2> QED BY <1>5, <2>1, <2>2, <2>3 DEF Commit
<1>6. ASSUME NEW r \in Requests, Fail(r) PROVE RecordInv'
  BY <1>6 DEF Fail, InFlight, InFlightPoints
<1>7. ASSUME NEW k \in Keys, MarkerExpires(k) PROVE RecordInv'
  BY <1>7 DEF MarkerExpires
<1>8. CASE RedisTurns \/ UNCHANGED vars
  BY <1>8 DEF RedisTurns, vars
<1> QED BY <1>1, <1>2, <1>3, <1>4, <1>5, <1>6, <1>7, <1>8 DEF Next, Step

\* The recorded keys are exactly the keys whose movement was committed.
THEOREM RecordAndMovementAtomic == Spec => []RecordedIffApplied
<1>1. Init => RecordInv
  BY DEF Init, RecordInv, RecordedIffApplied
<1>2. RecordInv => RecordedIffApplied
  BY DEF RecordInv
<1> QED BY <1>1, <1>2, TypeCorrect, RecordStep, PTL DEF Spec

-------------------------------------------------------------------------------
(***************************************************************************)
(* What a duplicate answer rests on                                        *)
(***************************************************************************)

\* Request s has set the marker of key k, and has neither been answered nor
\* left the key unrecorded after its commit.
Marks(s, k) ==
  s \in marked /\ KeyOf(s) = k /\ ~ answered[s] /\ pc[s] \in {"reload", "save", "commit", "failed"}

\* The strengthening: what the answers rest on, the markers in Redis rest on.
MarkersAreJustified ==
  \A k \in redis : k \in idem \/ \E s \in Requests : Marks(s, k)

DuplicateInv == RecordInv /\ MarkersAreJustified /\ DuplicateIsJustified

\* What has been marked has been marked.
LEMMA MarkedStays == [Next]_vars => marked \subseteq marked'
BY DEF Next, Step, Begin, BeginRefused, CheckRedis, CheckDbHit, CheckDbMiss, CheckDbError,
       RecordKey, MarkRedis, SaveBalance, Reload, ReloadRefused, Commit, CommitDuplicate, Fail,
       MarkerExpires, RedisTurns, vars, cache

\* A key that is recorded or marked stays so: the only way out of Marks is a
\* commit, and a commit records its key or has found it recorded.
LEMMA JustificationStays ==
  ASSUME TypeOK, RecordInv, [Next]_vars, NEW s \in Requests, NEW k, Marks(s, k)
  PROVE  k \in idem' \/ Marks(s, k)'
<1> USE DEF TypeOK, Goto, db, cache, tx, Marks, KeyOf
<1>1. ASSUME NEW r \in Requests, Commit(r) PROVE k \in idem' \/ Marks(s, k)'
  <2>1. idem' = idem \cup {KeyOf(r)}
    BY <1>1 DEF Commit, RecordInv
  <2> QED
    BY <1>1, <2>1 DEF Commit
<1>2. ASSUME NEW r \in Requests,
             \/ Begin(r) \/ BeginRefused(r) \/ CheckRedis(r) \/ CheckDbHit(r) \/ CheckDbMiss(r)
             \/ CheckDbError(r) \/ RecordKey(r) \/ MarkRedis(r) \/ Reload(r) \/ ReloadRefused(r)
             \/ SaveBalance(r) \/ CommitDuplicate(r) \/ Fail(r)
      PROVE  Marks(s, k)'
  <2>1. call' = call
    BY <1>2 DEF Begin, BeginRefused, CheckRedis, CheckDbHit, CheckDbMiss, CheckDbError, RecordKey,
                MarkRedis, SaveBalance, Reload, ReloadRefused, CommitDuplicate, Fail
  <2>2. \E p \in Points : pc' = [pc EXCEPT ![r] = p]
                          /\ (pc[r] \in {"reload", "save", "commit", "failed"} /\ ~ answered[r]
                                => p \in {"save", "commit", "failed"})
    BY <1>2 DEF Begin, BeginRefused, CheckRedis, CheckDbHit, CheckDbMiss, CheckDbError, RecordKey,
                MarkRedis, SaveBalance, Reload, ReloadRefused, CommitDuplicate, Fail, Execute, Refuse,
                Answer, InFlight, InFlightPoints, Outcomes, Points
  <2>3. answered' = answered
        \/ (answered' = [answered EXCEPT ![r] = TRUE] /\ pc[r] \in {"checkRedis", "checkDb"})
    BY <1>2 DEF Begin, BeginRefused, CheckRedis, CheckDbHit, CheckDbMiss, CheckDbError, RecordKey,
                MarkRedis, SaveBalance, Reload, ReloadRefused, CommitDuplicate, Fail, Answer
  <2> QED
    BY <2>1, <2>2, <2>3, MarkedStays
<1>3. CASE RedisTurns \/ (\E q \in Keys : MarkerExpires(q)) \/ UNCHANGED vars
  BY <1>3 DEF RedisTurns, MarkerExpires, vars
<1> QED
  BY <1>1, <1>2, <1>3 DEF Next, Step

\* Recorded keys stay recorded.
LEMMA RecordedStays == [Next]_vars => idem \subseteq idem'
BY DEF Next, Step, Begin, BeginRefused, CheckRedis, CheckDbHit, CheckDbMiss, CheckDbError,
       RecordKey, MarkRedis, SaveBalance, Reload, ReloadRefused, Commit, CommitDuplicate, Fail,
       MarkerExpires, RedisTurns, vars, db

LEMMA MarkersStep ==
  TypeOK /\ RecordInv /\ MarkersAreJustified /\ [Next]_vars => MarkersAreJustified'
<1> SUFFICES ASSUME TypeOK, RecordInv, MarkersAreJustified, [Next]_vars, NEW k \in redis'
             PROVE  k \in idem' \/ \E s \in Requests : Marks(s, k)'
  BY DEF MarkersAreJustified, Marks, KeyOf
<1>1. CASE k \in redis
  BY <1>1, JustificationStays, RecordedStays DEF MarkersAreJustified
<1>2. CASE k \notin redis
  <2>1. PICK r \in Requests : MarkRedis(r)
    BY <1>2 DEF Next, Step, Begin, BeginRefused, CheckRedis, CheckDbHit, CheckDbMiss, CheckDbError,
                RecordKey, SaveBalance, Reload, ReloadRefused, Commit, CommitDuplicate, Fail,
                MarkerExpires, RedisTurns, vars, cache
  <2>2. /\ KeyOf(r) = k /\ call' = call /\ pc' = [pc EXCEPT ![r] = "reload"]
        /\ answered' = answered /\ r \in marked'
    BY <1>2, <2>1 DEF MarkRedis, Goto, tx
  <2>3. ~ answered[r]
    BY <2>1 DEF MarkRedis, RecordInv
  <2> QED BY <2>2, <2>3 DEF TypeOK, Marks, KeyOf
<1> QED
  BY <1>1, <1>2

LEMMA DuplicateStep == TypeOK /\ DuplicateInv /\ [Next]_vars => DuplicateIsJustified'
<1> SUFFICES ASSUME TypeOK, DuplicateInv, [Next]_vars,
                    NEW r \in Requests, answered'[r]
             PROVE  KeyOf(r)' \in idem' \/ \E s \in Requests \ {r} : Marks(s, KeyOf(r))'
  BY DEF DuplicateIsJustified, Marks, KeyOf
<1>1. KeyOf(r)' = KeyOf(r)
  BY DEF Next, Step, Begin, BeginRefused, CheckRedis, CheckDbHit, CheckDbMiss, CheckDbError,
         RecordKey, MarkRedis, SaveBalance, Reload, ReloadRefused, Commit, CommitDuplicate, Fail,
         MarkerExpires, RedisTurns, vars, KeyOf
<1>2. CASE KeyOf(r) \in idem
  BY <1>1, <1>2, RecordedStays
<1>3. CASE KeyOf(r) \notin idem
  <2>1. PICK s \in Requests \ {r} : Marks(s, KeyOf(r))
    <3>1. CASE answered[r]
      BY <1>3, <3>1 DEF DuplicateInv, DuplicateIsJustified, Marks, TypeOK
    <3>2. CASE ~ answered[r]
      <4>1. ~ UNCHANGED answered
        BY <3>2
      <4>2. PICK q \in Requests : CheckRedis(q) \/ CheckDbHit(q)
        BY <4>1 DEF Next, Step, Begin, BeginRefused, CheckDbMiss, CheckDbError, RecordKey,
                MarkRedis, SaveBalance, Reload, ReloadRefused, Commit, CommitDuplicate, Fail,
                MarkerExpires, RedisTurns, vars, cache, tx
      <4>3. CheckRedis(r) \/ CheckDbHit(r)
        BY <3>2, <4>2 DEF CheckRedis, CheckDbHit, Answer, TypeOK
      <4>4. KeyOf(r) \in redis /\ pc[r] = "checkRedis"
        BY <1>3, <3>2, <4>1, <4>3 DEF CheckRedis, CheckDbHit
      <4> QED
        BY <1>3, <4>4 DEF DuplicateInv, MarkersAreJustified, Marks
    <3> QED
      BY <3>1, <3>2
  <2> QED
    BY <1>1, <2>1, JustificationStays DEF DuplicateInv
<1> QED
  BY <1>2, <1>3

\* A request is only answered as a duplicate when its key is recorded or
\* another request of that key has set the marker, and died or is to commit.
THEOREM DuplicateHasCause == Spec => []DuplicateIsJustified
<1>1. Init => DuplicateInv
  BY DEF Init, DuplicateInv, RecordInv, RecordedIffApplied, MarkersAreJustified, DuplicateIsJustified
<1>2. TypeOK /\ DuplicateInv /\ [Next]_vars => DuplicateInv'
  BY RecordStep, MarkersStep, DuplicateStep DEF DuplicateInv
<1>3. DuplicateInv => DuplicateIsJustified
  BY DEF DuplicateInv
<1> QED
  BY <1>1, <1>2, <1>3, TypeCorrect, PTL DEF Spec

-------------------------------------------------------------------------------
(***************************************************************************)
(* Never fail-open                                                         *)
(***************************************************************************)

\* Where a request of a recorded key can still be: ahead of the look-up,
\* answered, dead, or in a transaction PostgreSQL has already given up.
Late(r) ==
  /\ KeyOf(r) \in idem
  /\ \/ pc[r] \in {"idle", "checkRedis", "checkDb", "duplicate", "failed"}
     \/ answered[r] /\ pc[r] \in {"reload", "save", "commit"}
     \/ poisoned[r] /\ pc[r] \in {"record", "mark", "reload"}

LEMMA LateStep ==
  ASSUME NEW r \in Requests
  PROVE  TypeOK /\ Late(r) /\ [Next]_vars => Late(r)'
<1> SUFFICES ASSUME TypeOK, Late(r), [Next]_vars PROVE Late(r)'
  OBVIOUS
<1> USE DEF TypeOK, Late, KeyOf, Goto, db, cache, tx
<1>1. ASSUME NEW s \in Requests,
             \/ Begin(s) \/ BeginRefused(s) \/ CheckRedis(s) \/ CheckDbHit(s)
      PROVE  Late(r)'
  BY <1>1 DEF Begin, BeginRefused, CheckRedis, CheckDbHit, Answer
<1>2. ASSUME NEW s \in Requests, CheckDbMiss(s) PROVE Late(r)'
  BY <1>2 DEF CheckDbMiss, Execute, Refuse
<1>3. ASSUME NEW s \in Requests, CheckDbError(s) PROVE Late(r)'
  BY <1>3 DEF CheckDbError, Execute, Refuse
<1>4. ASSUME NEW s \in Requests,
             RecordKey(s) \/ MarkRedis(s) \/ Reload(s) \/ ReloadRefused(s) \/ SaveBalance(s)
      PROVE  Late(r)'
  BY <1>4 DEF RecordKey, MarkRedis, Reload, ReloadRefused, SaveBalance
<1>5. ASSUME NEW s \in Requests, Commit(s) \/ CommitDuplicate(s) \/ Fail(s) PROVE Late(r)'
  BY <1>5 DEF Commit, CommitDuplicate, Fail, InFlight, InFlightPoints
<1>6. CASE RedisTurns \/ (\E k \in Keys : MarkerExpires(k)) \/ UNCHANGED vars
  BY <1>6 DEF RedisTurns, MarkerExpires, vars
<1> QED
  BY <1>1, <1>2, <1>3, <1>4, <1>5, <1>6 DEF Next, Step

\* Once its key is recorded, a request that has not looked yet never applies
\* it again, though Redis has lost the marker and the look-up fails.
THEOREM LateRetryIsHarmless == Spec => LateRetryNeverApplies
<1>1. ASSUME NEW r \in Requests
      PROVE  Spec => [](pc[r] \in {"idle", "checkRedis", "checkDb"} /\ KeyOf(r) \in idem
                          => [](pc[r] # "completed"))
  <2>1. TypeOK /\ Late(r) /\ [Next]_vars => Late(r)'
    BY LateStep
  <2>2. pc[r] \in {"idle", "checkRedis", "checkDb"} /\ KeyOf(r) \in idem => Late(r)
    BY DEF Late
  <2>3. Late(r) => pc[r] # "completed"
    BY DEF Late
  <2> QED
    BY <2>1, <2>2, <2>3, TypeCorrect, PTL DEF Spec
<1> QED
  BY <1>1 DEF LateRetryNeverApplies

-------------------------------------------------------------------------------
(***************************************************************************)
(* With one request at a time the service implements the account           *)
(***************************************************************************)

\* The account's stock: the refinement mapping of Account.
Stock == IF DOMAIN rows = {} THEN ZeroBalance ELSE rows[CHOOSE b \in DOMAIN rows : TRUE]

LEMMA StockOfRow ==
  ASSUME NEW b, DOMAIN rows = {b}
  PROVE  Stock = rows[b]
BY DEF Stock

\* What the request in flight knows is still so: it has read the account as it
\* is, works on its only row, and holds the movement it will post.
InTouch(r) ==
  /\ read[r] = Stock
  /\ DOMAIN rows \subseteq {target[r]}
  /\ pc[r] \in {"checkRedis", "checkDb"} \/ answered[r] => work[r] = read[r]
  /\ pc[r] \in {"record", "mark", "reload", "save", "commit"} /\ ~ answered[r] =>
       /\ StockSuffices(read[r], call[r].type, call[r].qty)
       /\ work[r] = ApplyTransaction(read[r], call[r].type, call[r].qty)
       /\ KeyOf(r) \notin idem \/ poisoned[r]

SerialInv ==
  /\ OneAtATime
  /\ \A a, b \in DOMAIN rows : a = b
  /\ \A r \in Requests : InFlight(r) => InTouch(r)

LEMMA SerialInit == Init => SerialInv
<1> SUFFICES ASSUME Init PROVE SerialInv
  OBVIOUS
<1>1. PICK R \in {{}, {FirstRow}} : rows \in [R -> Stocks]
  BY DEF Init
<1>2. \A r \in Requests : ~ InFlight(r)
  BY DEF Init, InFlight, InFlightPoints
<1> QED
  BY <1>1, <1>2 DEF SerialInv, OneAtATime

\* The row a request in touch commits is its aggregate.
LEMMA SavedIsWork ==
  ASSUME TypeOK, NEW r \in Requests, InTouch(r)
  PROVE  Saved(r) = work[r]
<1>1. work[r] \in Balance
  BY DEF TypeOK
<1>2. target[r] \in DOMAIN rows => rows[target[r]] = read[r]
  <2>1. target[r] \in DOMAIN rows => DOMAIN rows = {target[r]}
    BY DEF InTouch
  <2> QED
    BY <2>1, StockOfRow DEF InTouch
<1>3. \A c \in Columns : Saved(r)[c] = work[r][c]
  BY <1>2 DEF Saved
<1> QED
  BY <1>1, <1>3 DEF Saved, Balance

\* After the commit of a request in touch its aggregate is the account.
LEMMA WriteRowIsWork ==
  ASSUME TypeOK, NEW r \in Requests, InTouch(r), WriteRow(r)
  PROVE  (DOMAIN rows)' = {target[r]} /\ Stock' = work[r]
<1>1. (DOMAIN rows)' = {target[r]}
  BY DEF WriteRow, InTouch
<1>2. rows'[target[r]] = Saved(r)
  BY <1>1 DEF WriteRow
<1>3. Stock' = rows'[target[r]]
  BY <1>1 DEF Stock
<1> QED
  BY <1>1, <1>2, <1>3, SavedIsWork

\* A request in touch loads again what it has read.
LEMMA ReloadKeepsTouch ==
  ASSUME TypeOK, NEW r \in Requests, InTouch(r), Reload(r)
  PROVE  read' = read
<1>1. PICK row \in {read[r]} \cup {rows[b] : b \in DOMAIN rows \cap {target[r]}} :
        read' = [read EXCEPT ![r] = row]
  BY DEF Reload
<1>2. ASSUME target[r] \in DOMAIN rows PROVE rows[target[r]] = read[r]
  <2>1. DOMAIN rows = {target[r]}
    BY <1>2 DEF InTouch
  <2> QED
    BY <2>1, StockOfRow DEF InTouch
<1>3. row = read[r]
  BY <1>1, <1>2
<1> QED
  BY <1>1, <1>3 DEF TypeOK

LEMMA SerialStep ==
  TypeOK /\ RecordInv /\ SerialInv /\ [Next /\ OneAtATime']_vars => SerialInv'
<1> SUFFICES ASSUME TypeOK, RecordInv, SerialInv, [Next /\ OneAtATime']_vars PROVE SerialInv'
  OBVIOUS
<1> USE DEF Goto, db, cache, tx
<1>1. CASE UNCHANGED vars
  BY <1>1 DEF vars, SerialInv, OneAtATime, InFlight, InTouch, Stock, KeyOf
<1>2. ASSUME OneAtATime', UNCHANGED rows,
             \A r \in Requests : InFlight(r)' => InTouch(r)'
      PROVE  SerialInv'
  BY <1>2 DEF SerialInv
\* Steps of a request that leave the other requests where they are.
<1>3. ASSUME OneAtATime', UNCHANGED <<rows, call, idem>>, NEW r \in Requests,
             \A s \in Requests \ {r} : /\ pc'[s] = pc[s] /\ read'[s] = read[s]
                                       /\ target'[s] = target[s] /\ work'[s] = work[s]
                                       /\ poisoned'[s] = poisoned[s] /\ answered'[s] = answered[s],
             InFlight(r)' => InTouch(r)'
      PROVE  SerialInv'
  <2>1. ASSUME NEW s \in Requests \ {r}, InFlight(s)' PROVE InTouch(s)'
    <3>1. InTouch(s)
      BY <1>3, <2>1 DEF SerialInv, InFlight
    <3> QED
      BY <1>3, <3>1 DEF InTouch, Stock, KeyOf
  <2> QED
    BY <1>2, <1>3, <2>1
<1>4. ASSUME NEW r \in Requests, Begin(r), OneAtATime' PROVE SerialInv'
  <2>1. InTouch(r)'
    <3>1. pc'[r] = "checkRedis" /\ rows' = rows
      BY <1>4 DEF Begin, TypeOK
    <3>2. CASE DOMAIN rows = {}
      <4>1. read'[r] = ZeroBalance /\ work'[r] = ZeroBalance
        BY <1>4, <3>2 DEF Begin, TypeOK
      <4> QED
        BY <3>1, <3>2, <4>1 DEF InTouch, Stock
    <3>3. CASE DOMAIN rows # {}
      <4>1. PICK b \in DOMAIN rows : /\ DOMAIN rows = {b}
                                     /\ target' = [target EXCEPT ![r] = b]
                                     /\ read' = [read EXCEPT ![r] = rows[b]]
                                     /\ work' = [work EXCEPT ![r] = rows[b]]
        BY <1>4, <3>3 DEF Begin
      <4>2. Stock' = rows[b]
        BY <3>1, <4>1, StockOfRow DEF Stock
      <4> QED
        BY <3>1, <4>1, <4>2 DEF InTouch, TypeOK
    <3> QED
      BY <3>2, <3>3
  <2>2. \A s \in Requests \ {r} : /\ pc'[s] = pc[s] /\ read'[s] = read[s]
                                  /\ target'[s] = target[s] /\ work'[s] = work[s]
                                  /\ poisoned'[s] = poisoned[s] /\ answered'[s] = answered[s]
    BY <1>4 DEF Begin, TypeOK
  <2>3. UNCHANGED <<rows, call, idem>>
    BY <1>4 DEF Begin
  <2> QED
    BY <1>3, <1>4, <2>1, <2>2, <2>3
<1>5. ASSUME NEW r \in Requests, CheckDbMiss(r) \/ CheckDbError(r), OneAtATime' PROVE SerialInv'
  <2>1. InTouch(r) /\ work[r] = read[r] /\ ~ answered[r]
    BY <1>5 DEF SerialInv, CheckDbMiss, CheckDbError, InFlight, InFlightPoints, InTouch, RecordInv
  <2>2. UNCHANGED <<rows, call, idem, read, target, answered>>
    BY <1>5 DEF CheckDbMiss, CheckDbError
  <2>3. InFlight(r)' => InTouch(r)'
    <3>1. CASE Execute(r)
      <4>1. /\ pc'[r] = "record" /\ StockSuffices(work[r], call[r].type, call[r].qty)
            /\ work'[r] = ApplyTransaction(work[r], call[r].type, call[r].qty)
        BY <3>1 DEF Execute, TypeOK
      <4>2. KeyOf(r) \notin idem \/ poisoned'[r]
        BY <1>5 DEF CheckDbMiss, CheckDbError, TypeOK
      <4> QED
        BY <2>1, <2>2, <4>1, <4>2 DEF InTouch, Stock, KeyOf
    <3>2. CASE Refuse(r)
      BY <3>2 DEF Refuse, TypeOK, InFlight, InFlightPoints
    <3> QED
      BY <1>5, <3>1, <3>2 DEF CheckDbMiss, CheckDbError
  <2>4. \A s \in Requests \ {r} : /\ pc'[s] = pc[s] /\ work'[s] = work[s]
                                  /\ poisoned'[s] = poisoned[s] /\ answered'[s] = answered[s]
    BY <1>5 DEF CheckDbMiss, CheckDbError, Execute, Refuse, TypeOK
  <2> QED
    BY <1>3, <1>5, <2>2, <2>3, <2>4
<1>6. ASSUME NEW r \in Requests,
             \/ RecordKey(r) \/ MarkRedis(r) \/ SaveBalance(r) \/ ReloadRefused(r)
             \/ Fail(r) \/ BeginRefused(r),
             OneAtATime'
      PROVE  SerialInv'
  <2>1. UNCHANGED <<rows, call, idem, read, target, work, answered, poisoned>>
    BY <1>6 DEF RecordKey, MarkRedis, SaveBalance, ReloadRefused, Fail, BeginRefused
  <2>2. \A s \in Requests \ {r} : pc'[s] = pc[s]
    BY <1>6 DEF RecordKey, MarkRedis, SaveBalance, ReloadRefused, Fail, BeginRefused, TypeOK
  <2>3. InFlight(r)' =>
          /\ InFlight(r) /\ pc'[r] \notin {"checkRedis", "checkDb"}
          /\ pc[r] \in {"record", "mark", "reload", "save", "commit"}
    BY <1>6 DEF RecordKey, MarkRedis, SaveBalance, ReloadRefused, Fail, BeginRefused, TypeOK, InFlight, InFlightPoints
  <2>4. InFlight(r)' => InTouch(r)'
    BY <2>1, <2>3 DEF SerialInv, InTouch, Stock, KeyOf
  <2> QED
    BY <1>3, <1>6, <2>1, <2>2, <2>4
<1>10. ASSUME NEW r \in Requests, CheckRedis(r) \/ CheckDbHit(r), OneAtATime' PROVE SerialInv'
  <2>1. UNCHANGED <<rows, call, idem, read, target, work, poisoned>>
    BY <1>10 DEF CheckRedis, CheckDbHit
  <2>2. \A s \in Requests \ {r} : pc'[s] = pc[s] /\ answered'[s] = answered[s]
    BY <1>10 DEF CheckRedis, CheckDbHit, Answer, TypeOK
  <2>3. InTouch(r) /\ work[r] = read[r]
    BY <1>10 DEF CheckRedis, CheckDbHit, SerialInv, InFlight, InFlightPoints, InTouch
  <2>4. pc'[r] = "checkDb" \/ (pc'[r] = "reload" /\ answered'[r])
    BY <1>10 DEF CheckRedis, CheckDbHit, Answer, TypeOK
  <2>5. InTouch(r)'
    BY <2>1, <2>3, <2>4 DEF InTouch, Stock
  <2> QED
    BY <1>3, <1>10, <2>1, <2>2, <2>5
\* What is loaded again is what had been read.
<1>11. ASSUME NEW r \in Requests, Reload(r), OneAtATime' PROVE SerialInv'
  <2>1. InTouch(r)
    BY <1>11 DEF Reload, SerialInv, InFlight, InFlightPoints
  <2>2. read' = read
    BY <1>11, <2>1, ReloadKeepsTouch
  <2>3. UNCHANGED <<rows, call, idem, target, work, answered, poisoned>>
    BY <1>11 DEF Reload
  <2>4. pc[r] = "reload" /\ pc' = [pc EXCEPT ![r] = "save"]
    BY <1>11 DEF Reload
  <2>5. InTouch(r)'
    BY <2>1, <2>2, <2>3, <2>4 DEF InTouch, Stock, KeyOf, TypeOK
  <2> QED
    BY <1>3, <1>11, <2>2, <2>3, <2>4, <2>5 DEF TypeOK
\* A commit ends the only request in flight.
<1>7. ASSUME NEW r \in Requests, Commit(r) \/ CommitDuplicate(r), OneAtATime' PROVE SerialInv'
  <2>1. InFlight(r) /\ InTouch(r) /\ WriteRow(r)
    BY <1>7 DEF Commit, CommitDuplicate, SerialInv, InFlight, InFlightPoints
  <2>2. (DOMAIN rows)' = {target[r]}
    BY <2>1, WriteRowIsWork
  <2>3. \A s \in Requests : ~ InFlight(s)'
    BY <1>7, <2>1 DEF Commit, CommitDuplicate, SerialInv, OneAtATime, InFlight, InFlightPoints, TypeOK
  <2> QED
    BY <1>7, <2>2, <2>3 DEF SerialInv
<1>8. ASSUME UNCHANGED <<rows, call, idem, pc, read, target, work, answered, poisoned>> PROVE SerialInv'
  BY <1>8 DEF SerialInv, OneAtATime, InFlight, InTouch, Stock, KeyOf
<1>9. CASE RedisTurns \/ (\E k \in Keys : MarkerExpires(k))
  BY <1>8, <1>9 DEF RedisTurns, MarkerExpires
<1> QED
  BY <1>1, <1>4, <1>5, <1>6, <1>7, <1>9, <1>10, <1>11 DEF Next, Step

\* The account counts stock with the same operators as the service.
LEMMA SameOperators ==
  /\ Account!ZeroBalance = ZeroBalance
  /\ \A b, t, n : /\ Account!StockSuffices(b, t, n) <=> StockSuffices(b, t, n)
                 /\ Account!ApplyTransaction(b, t, n) = ApplyTransaction(b, t, n)
<1>1. Account!Columns = Columns /\ Account!Outbound = Outbound
  BY DEF Account!Columns, Columns, Account!Outbound, Outbound
<1>2. \A c : Account!PutsInto(c) = PutsInto(c) /\ Account!TakesFrom(c) = TakesFrom(c)
  BY DEF Account!PutsInto, PutsInto, Account!TakesFrom, TakesFrom
<1>3. Account!ZeroBalance = ZeroBalance
  BY <1>1 DEF Account!ZeroBalance, ZeroBalance
<1>4. ASSUME NEW b, NEW t, NEW n
      PROVE  Account!StockSuffices(b, t, n) <=> StockSuffices(b, t, n)
  BY <1>1 DEF Account!StockSuffices, StockSuffices
<1>5. ASSUME NEW b, NEW t, NEW n
      PROVE  Account!ApplyTransaction(b, t, n) = ApplyTransaction(b, t, n)
  BY <1>1, <1>2 DEF Account!ApplyTransaction, ApplyTransaction, Account!Moved, Moved
<1> QED
  BY <1>3, <1>4, <1>5

\* A commit posts the movement of its request; every other step leaves the
\* account alone.
LEMMA AccountStep ==
  TypeOK /\ StockInv /\ RecordInv /\ SerialInv /\ [Next]_vars
    => [Account!Next]_<<Stock, idem>>
<1> SUFFICES ASSUME TypeOK, StockInv, RecordInv, SerialInv, [Next]_vars
             PROVE  Account!Next \/ (Stock' = Stock /\ idem' = idem)
  OBVIOUS
<1>1. ASSUME NEW r \in Requests, Commit(r) PROVE Account!Next
  <2>1. pc[r] = "commit" /\ WriteRow(r)
    BY <1>1 DEF Commit
  <2>2. InTouch(r) /\ call[r].qty > 0
    BY <2>1 DEF SerialInv, StockInv, CopiesNeverOversold, InFlight, InFlightPoints
  <2>3. idem' = idem \cup {KeyOf(r)} /\ ~ poisoned[r]
    BY <1>1 DEF Commit, RecordInv
  <2>4. /\ KeyOf(r) \notin idem
        /\ StockSuffices(Stock, call[r].type, call[r].qty)
        /\ work[r] = ApplyTransaction(Stock, call[r].type, call[r].qty)
    BY <1>1, <2>1, <2>2, <2>3 DEF InTouch, Commit
  <2>5. Stock' = work[r]
    BY <2>1, <2>2, WriteRowIsWork
  <2>6. call[r] \in Calls
    BY DEF TypeOK
  <2>7. Account!Post(call[r])
    BY <2>2, <2>3, <2>4, <2>5, SameOperators DEF Account!Post, Stock, KeyOf
  <2> QED
    BY <2>6, <2>7 DEF Account!Next
<1>2. ASSUME NEW r \in Requests, CommitDuplicate(r) PROVE Stock' = Stock /\ idem' = idem
  <2>1. pc[r] = "commit" /\ answered[r] /\ WriteRow(r) /\ idem' = idem
    BY <1>2 DEF CommitDuplicate
  <2>2. InTouch(r)
    BY <2>1 DEF SerialInv, InFlight, InFlightPoints
  <2>3. work[r] = Stock
    BY <2>1, <2>2 DEF InTouch
  <2> QED
    BY <2>1, <2>2, <2>3, WriteRowIsWork
<1>3. ASSUME UNCHANGED <<rows, idem>> PROVE Stock' = Stock /\ idem' = idem
  BY <1>3 DEF Stock
<1> QED
  BY <1>1, <1>2, <1>3 DEF Next, Step, Begin, BeginRefused, CheckRedis, CheckDbHit, CheckDbMiss,
     CheckDbError, RecordKey, MarkRedis, SaveBalance, Reload, ReloadRefused, Fail, MarkerExpires, RedisTurns,
     vars, db

\* One request at a time, the service with its Redis markers, its records and
\* its failures is the account that posts each key at most once.
THEOREM SerialIsAccount == SerialSpec => ImplementsAccount
<1>1. Init => Account!Init
  <2> SUFFICES ASSUME Init PROVE Account!Init
    OBVIOUS
  <2>1. PICK R \in {{}, {FirstRow}} : rows \in [R -> Stocks]
    BY DEF Init
  <2>2. Stock \in Stocks \cup {ZeroBalance}
    BY <2>1 DEF Stock
  <2> QED
    BY <2>2, SameOperators DEF Account!Init, Stock, Init
<1>2. Init => RecordInv
  BY DEF Init, RecordInv, RecordedIffApplied
<1>3. [Next /\ OneAtATime']_vars => [Next]_vars
  OBVIOUS
<1>4. SerialSpec => [](TypeOK /\ StockInv /\ RecordInv /\ SerialInv)
  BY <1>2, <1>3, TypeInit, TypeStep, StockInit, StockStep, RecordStep, SerialInit, SerialStep,
     PTL DEF SerialSpec
<1>5. TypeOK /\ StockInv /\ RecordInv /\ SerialInv /\ [Next]_vars
        => [Account!Next]_<<IF DOMAIN rows = {} THEN ZeroBalance
                            ELSE rows[CHOOSE b \in DOMAIN rows : TRUE], idem>>
  BY AccountStep DEF Stock
<1> QED
  BY <1>1, <1>3, <1>4, <1>5, PTL DEF SerialSpec, ImplementsAccount, Account!Spec
-------------------------------------------------------------------------------
(***************************************************************************)
(* With one request at a time no movement gets lost                          *)
(***************************************************************************)

\* What a movement does to the stock on hand is its Moved.
LEMMA ApplyMoves ==
  ASSUME NEW b \in Balance, NEW t \in TransactionTypes, NEW n \in Int
  PROVE  ApplyTransaction(b, t, n)["onHand"] = b["onHand"] + Moved("onHand", t, n)
BY DEF ApplyTransaction, Columns

Completed == {r \in Requests : pc[r] = "completed"}
Movements == [r \in Requests |-> Moved("onHand", call[r].type, call[r].qty)]

\* No more requests have completed than can be counted, and a row of its own
\* is all a request creates.
BooksInv ==
  /\ IsFiniteSet(Completed)
  /\ FirstRow \notin DOMAIN rows => \A r \in Requests : InFlight(r) => target[r] # FirstRow
  /\ BalanceIsSumOfMovements

LEMMA MovementType ==
  ASSUME TypeOK
  PROVE  \A r \in Requests : Movements[r] \in Int
<1> SUFFICES ASSUME NEW r \in Requests PROVE Movements[r] \in Int
  OBVIOUS
<1>1. call[r].qty \in Int
  BY CallsAssumption DEF TypeOK
<1> QED BY <1>1 DEF Movements, Moved

LEMMA BooksInit == Init => BooksInv
<1> SUFFICES ASSUME Init PROVE BooksInv
  OBVIOUS
<1>1. Completed = {} /\ IsFiniteSet(Completed)
  BY FS_EmptySet DEF Init, Completed
<1>2. \A r \in Requests : ~ InFlight(r)
  BY DEF Init, InFlight, InFlightPoints
<1>3. ASSUME NEW initial \in Stocks, Stocks = {initial}, FirstRow \in DOMAIN rows
      PROVE  rows[FirstRow]["onHand"] = SumOfMovements(initial["onHand"])
  <2>1. rows[FirstRow] = initial
    <3>1. PICK R \in {{}, {FirstRow}} : rows \in [R -> Stocks]
      BY DEF Init
    <3> QED BY <1>3, <3>1
  <2>2. initial["onHand"] \in Int
    BY StocksAssumption DEF Balance, Columns
  <2>3. SumFunctionOnSet(Movements, Completed) = 0
    BY <1>1, SumEmpty
  <2> QED BY <2>1, <2>2, <2>3 DEF SumOfMovements, Movements, Completed
<1> QED BY <1>1, <1>2, <1>3 DEF BooksInv, BalanceIsSumOfMovements

\* A commit that was not a duplicate moves the row by what it adds to the sum.
LEMMA BooksAfterCommit ==
  ASSUME TypeOK, StockInv, RecordInv, SerialInv, BooksInv, NEW r \in Requests, Commit(r)
  PROVE  IsFiniteSet(Completed') /\ BalanceIsSumOfMovements'
<1>1. pc[r] = "commit" /\ ~ answered[r] /\ WriteRow(r) /\ pc' = [pc EXCEPT ![r] = "completed"]
      /\ call' = call
  BY DEF Commit, Goto
<1>2. InTouch(r) /\ InFlight(r)
  BY <1>1 DEF SerialInv, InFlight, InFlightPoints
<1>3. r \notin Completed /\ Completed' = Completed \cup {r} /\ Movements' = Movements
  BY <1>1 DEF Completed, Movements, TypeOK
<1>4. IsFiniteSet(Completed) /\ IsFiniteSet(Completed')
  BY <1>3, FS_AddElement DEF BooksInv
<1>5. SumFunctionOnSet(Movements, Completed) \in Int
  BY <1>4, MovementType, SumType DEF Completed
<1>6. SumFunctionOnSet(Movements, Completed') = Movements[r] + SumFunctionOnSet(Movements, Completed)
  <2>1. Completed' \ {r} = Completed /\ r \in Completed'
    BY <1>3
  <2>2. \A x \in Completed \cup {r} : Movements[x] \in Int
    BY MovementType DEF Completed
  <2>3. \A x \in Completed' : Movements[x] \in Int
    BY <1>3, <2>2
  <2>4. SumFunctionOnSet(Movements, Completed') = Movements[r] + SumFunctionOnSet(Movements, Completed' \ {r})
    BY <1>4, <2>1, <2>3, SumTakeOut
  <2> QED BY <2>1, <2>4
<1>7. ASSUME NEW initial \in Stocks, Stocks = {initial}, FirstRow \in DOMAIN rows'
      PROVE  rows'[FirstRow]["onHand"] = SumOfMovements(initial["onHand"])'
  <2>1. (DOMAIN rows)' = {target[r]} /\ Stock' = work[r]
    BY <1>1, <1>2, WriteRowIsWork
  <2>2. FirstRow = target[r]
    BY <1>7, <2>1
  <2>3. FirstRow \in DOMAIN rows
    BY <1>2, <2>2 DEF BooksInv
  <2>4. DOMAIN rows = {FirstRow}
    BY <1>2, <2>2, <2>3 DEF InTouch
  <2>5. Stock = rows[FirstRow]
    BY <2>4, StockOfRow
  <2>6. rows'[FirstRow] = work[r]
    BY <2>1, <2>2 DEF Stock
  <2>7. work[r] = ApplyTransaction(rows[FirstRow], call[r].type, call[r].qty)
    BY <1>1, <1>2, <2>5 DEF InTouch
  <2>8. /\ rows[FirstRow] \in Balance /\ rows[FirstRow]["onHand"] \in Int
        /\ call[r].type \in TransactionTypes /\ call[r].qty \in Int
    BY <2>3, CallsAssumption DEF TypeOK, Balance, Columns
  <2>9. work[r]["onHand"] = rows[FirstRow]["onHand"] + Moved("onHand", call[r].type, call[r].qty)
    BY <2>7, <2>8, ApplyMoves
  <2>10. Movements[r] = Moved("onHand", call[r].type, call[r].qty) /\ Movements[r] \in Int
    BY MovementType DEF Movements
  <2>11. rows[FirstRow]["onHand"] = initial["onHand"] + SumFunctionOnSet(Movements, Completed)
    BY <1>7, <2>3 DEF BooksInv, BalanceIsSumOfMovements, SumOfMovements, Movements, Completed
  <2>12. initial["onHand"] \in Int
    BY StocksAssumption DEF Balance, Columns
  <2>13. work[r]["onHand"] = initial["onHand"] + SumFunctionOnSet(Movements, Completed')
    BY <1>5, <1>6, <2>9, <2>10, <2>11, <2>12
  <2>14. SumOfMovements(initial["onHand"])' = initial["onHand"] + SumFunctionOnSet(Movements, Completed')
    BY <1>1 DEF SumOfMovements, Movements, Completed
  <2> QED BY <2>6, <2>13, <2>14
<1> QED BY <1>4, <1>7 DEF BalanceIsSumOfMovements

\* A step after which the first row and the completed requests are the same.
LEMMA BooksUndisturbed ==
  ASSUME BooksInv, Completed' = Completed, call' = call,
         FirstRow \in DOMAIN rows' => FirstRow \in DOMAIN rows /\ rows'[FirstRow] = rows[FirstRow]
  PROVE  IsFiniteSet(Completed') /\ BalanceIsSumOfMovements'
BY DEF BooksInv, BalanceIsSumOfMovements, SumOfMovements, Completed

LEMMA BooksStep ==
  ASSUME TypeOK, StockInv, RecordInv, SerialInv, BooksInv, [Next]_vars
  PROVE  BooksInv'
<1> USE DEF Goto, db, cache, tx
<1>1. ASSUME NEW r \in Requests, Commit(r) PROVE BooksInv'
  <2>1. IsFiniteSet(Completed') /\ BalanceIsSumOfMovements'
    BY <1>1, BooksAfterCommit
  <2>2. /\ target' = target /\ DOMAIN rows' = DOMAIN rows \cup {target[r]}
        /\ \A q \in Requests : InFlight(q)' => InFlight(q)
    BY <1>1 DEF Commit, WriteRow, InFlight, InFlightPoints, TypeOK
  <2> QED BY <2>1, <2>2 DEF BooksInv
<1>2. ASSUME NEW r \in Requests, CommitDuplicate(r) PROVE BooksInv'
  <2>1. /\ target' = target /\ DOMAIN rows' = DOMAIN rows \cup {target[r]} /\ call' = call
        /\ \A q \in Requests : InFlight(q)' => InFlight(q)
        /\ Completed' = Completed
    BY <1>2 DEF CommitDuplicate, WriteRow, InFlight, InFlightPoints, Completed, TypeOK
  <2>2. InTouch(r) /\ InFlight(r) /\ WriteRow(r) /\ work[r] = read[r]
    BY <1>2 DEF CommitDuplicate, SerialInv, InFlight, InFlightPoints, InTouch
  <2>3. ASSUME FirstRow \in DOMAIN rows'
        PROVE  FirstRow \in DOMAIN rows /\ rows'[FirstRow] = rows[FirstRow]
    <3>1. (DOMAIN rows)' = {target[r]} /\ Stock' = work[r]
      BY <2>2, WriteRowIsWork
    <3>2. FirstRow = target[r]
      BY <2>3, <3>1
    <3>3. FirstRow \in DOMAIN rows
      BY <2>2, <3>2 DEF BooksInv
    <3>4. DOMAIN rows = {FirstRow}
      BY <2>2, <3>2, <3>3 DEF InTouch
    <3>5. Stock = rows[FirstRow]
      BY <3>4, StockOfRow
    <3>6. rows'[FirstRow] = work[r]
      BY <3>1, <3>2 DEF Stock
    <3> QED BY <2>2, <3>3, <3>5, <3>6 DEF InTouch
  <2>4. IsFiniteSet(Completed') /\ BalanceIsSumOfMovements'
    BY <2>1, <2>3, BooksUndisturbed
  <2> QED BY <2>1, <2>4 DEF BooksInv
<1>3. ASSUME NEW r \in Requests, Begin(r) PROVE BooksInv'
  <2>1. UNCHANGED <<rows, call>> /\ Completed' = Completed
    BY <1>3 DEF Begin, Completed, TypeOK
  <2>2. IsFiniteSet(Completed') /\ BalanceIsSumOfMovements'
    BY <2>1, BooksUndisturbed
  <2>3. /\ \A q \in Requests \ {r} : target'[q] = target[q] /\ (InFlight(q)' => InFlight(q))
        /\ target'[r] = r \/ target'[r] \in DOMAIN rows
    BY <1>3 DEF Begin, InFlight, InFlightPoints, TypeOK
  <2> QED BY <2>1, <2>2, <2>3, FirstRowAssumption DEF BooksInv
<1>4. ASSUME UNCHANGED <<rows, call, target>>, Completed' = Completed,
             \A q \in Requests : InFlight(q)' => InFlight(q)
      PROVE  BooksInv'
  <2>1. IsFiniteSet(Completed') /\ BalanceIsSumOfMovements'
    BY <1>4, BooksUndisturbed
  <2> QED BY <1>4, <2>1 DEF BooksInv
<1>5. ASSUME NEW r \in Requests,
             \/ BeginRefused(r) \/ CheckRedis(r) \/ CheckDbHit(r) \/ CheckDbMiss(r) \/ CheckDbError(r)
             \/ RecordKey(r) \/ MarkRedis(r) \/ Reload(r) \/ ReloadRefused(r) \/ SaveBalance(r)
             \/ Fail(r)
      PROVE  BooksInv'
  <2>1. UNCHANGED <<rows, call, target>>
    BY <1>5 DEF BeginRefused, CheckRedis, CheckDbHit, CheckDbMiss, CheckDbError, RecordKey,
       MarkRedis, Reload, ReloadRefused, SaveBalance, Fail
  <2>2. /\ pc[r] # "completed" /\ pc'[r] # "completed"
        /\ \A q \in Requests \ {r} : pc'[q] = pc[q]
        /\ InFlight(r)' => InFlight(r)
    BY <1>5 DEF BeginRefused, CheckRedis, CheckDbHit, CheckDbMiss, CheckDbError, RecordKey,
       MarkRedis, Reload, ReloadRefused, SaveBalance, Fail, Answer, Execute, Refuse,
       InFlight, InFlightPoints, TypeOK
  <2>3. Completed' = Completed
    BY <2>2 DEF Completed
  <2>4. \A q \in Requests : InFlight(q)' => InFlight(q)
    BY <2>2 DEF InFlight
  <2> QED BY <1>4, <2>1, <2>3, <2>4
<1>6. ASSUME UNCHANGED <<rows, call, target, pc>> PROVE BooksInv'
  BY <1>4, <1>6 DEF Completed, InFlight
<1> QED
  BY <1>1, <1>2, <1>3, <1>5, <1>6 DEF Next, Step, vars, RedisTurns, MarkerExpires

\* "All updates must go through apply_transaction" (inventory_balance_aggregate.py
\* line 4) is true of requests that do not overlap, whatever fails, is repeated
\* or is lost from Redis: the stock on hand is what they moved.
THEOREM SerialLosesNoMovement == SerialSpec => []BalanceIsSumOfMovements
<1>1. Init => RecordInv
  BY DEF Init, RecordInv, RecordedIffApplied
<1>2. [Next /\ OneAtATime']_vars => [Next]_vars
  OBVIOUS
<1>3. TypeOK /\ StockInv /\ RecordInv /\ SerialInv /\ BooksInv /\ [Next]_vars => BooksInv'
  BY BooksStep
<1>4. BooksInv => BalanceIsSumOfMovements
  BY DEF BooksInv
<1> QED
  BY <1>1, <1>2, <1>3, <1>4, TypeInit, TypeStep, StockInit, StockStep, RecordStep, SerialInit,
     SerialStep, BooksInit, PTL DEF SerialSpec
================================================================================
