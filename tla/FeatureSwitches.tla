--------------------------- MODULE FeatureSwitches ---------------------------
(***************************************************************************)
(* Switches of features and the guard that answers whether a feature is    *)
(* on (application/biz_ops/feature_switch_guard.py, the switch routes of   *)
(* interfaces/api/v1/biz_ops/routes/strategy_routes.py).                   *)
(*                                                                         *)
(* Each server process keeps the guard's answers for TTL ticks.  Between   *)
(* the two reads of a check and the store of its answer other requests     *)
(* run; an update commits first and clears the cache of its own process    *)
(* afterwards.  The client of Redis the guard accepts is never used.  An   *)
(* answer from the cache changes nothing and is no step of its own.        *)
(*                                                                         *)
(* One tenant: keys of others are cached and cleared apart.  The strategy  *)
(* "deny" is left out, since nobody builds a guard with it.                *)
(***************************************************************************)
EXTENDS Integers

CONSTANTS
  SwitchKeys,      \* features asked about
  ParentOf,        \* the module of a sub-feature, or NoKey
  SwitchRequests,  \* checks that miss the cache, and updates
  Servers,         \* processes
  TTL,             \* _CACHE_TTL in ticks
  MaxClock,        \* bound on the ticks
  NoKey, NoEntry

ASSUME SwitchesAssumption ==
  /\ NoKey \notin SwitchKeys
  /\ ParentOf \in [SwitchKeys -> SwitchKeys \cup {NoKey}]
  /\ TTL \in Nat \ {0} /\ MaxClock \in Nat
  /\ NoEntry \notin [value : {"on", "off"}, at : Nat]

VARIABLES
  switch,     \* the rows
  cached,     \* the guard's _cache of each process
  asks,       \* the requests
  clock,
  disturbed,  \* when a feature was last updated, or answered by a check that an
              \* update overlapped or whose database failed
  knows       \* per process the features whose last update it has cleared
              \* its cache after, and for which it has stored no such answer since

switchesVars == <<switch, cached, asks, clock, disturbed, knows>>

NoRowYet == [is |-> "absent", under |-> NoKey]

\* A sub-feature may be created without its parent key.
SwitchRows(k) == {NoRowYet} \cup [is : {"on", "off"}, under : {NoKey, ParentOf[k]}]

Entries == [value : {"on", "off"}, at : Nat]

NoAsk == [at |-> "idle", server |-> NoKey, key |-> NoKey, row |-> NoRowYet,
          want |-> NoRowYet, result |-> "on", sure |-> TRUE]

Served == [NoAsk EXCEPT !.at = "done"]

\* resolve_effective: a module that is off forces its sub-features off.  What
\* has no row is on.
Effective(k) ==
  LET row == switch[k] IN
  IF row.is = "off" \/ (row.under # NoKey /\ switch[row.under].is = "off") THEN "off" ELSE "on"

\* The features whose answer the row of k is a part of.
Affected(k) == {k} \cup {j \in SwitchKeys : switch[j].under = k}

Forgotten == [k \in SwitchKeys |-> NoEntry]

SwitchesInit ==
  /\ switch \in [SwitchKeys -> UNION {SwitchRows(k) : k \in SwitchKeys}]
  /\ \A k \in SwitchKeys : switch[k] \in SwitchRows(k)
  /\ cached = [s \in Servers |-> Forgotten]
  /\ asks = [r \in SwitchRequests |-> NoAsk]
  /\ clock = 0
  /\ disturbed = [k \in SwitchKeys |-> 0 - TTL]
  /\ knows = [s \in Servers |-> SwitchKeys]

-----------------------------------------------------------------------------
(***************************************************************************)
(* FeatureSwitchGuard.check                                                *)
(***************************************************************************)
Live(s, k) == cached[s][k] # NoEntry /\ clock - cached[s][k].at < TTL

Check(r, s, k) ==
  /\ asks[r].at = "idle" /\ ~ Live(s, k)
  /\ asks' = [asks EXCEPT ![r] = [NoAsk EXCEPT !.at = "own", !.server = s, !.key = k]]
  /\ UNCHANGED <<switch, cached, clock, disturbed, knows>>

ReadOwn(r) ==
  LET row == switch[asks[r].key] IN
  /\ asks[r].at = "own"
  /\ asks' = [asks EXCEPT ![r] =
       [@ EXCEPT !.at = IF row.under = NoKey THEN "store" ELSE "parent",
                 !.row = row, !.result = IF row.is = "off" THEN "off" ELSE "on"]]
  /\ UNCHANGED <<switch, cached, clock, disturbed, knows>>

ReadParent(r) ==
  LET q == asks[r] IN
  /\ q.at = "parent"
  /\ asks' = [asks EXCEPT ![r] =
       [q EXCEPT !.at = "store",
                 !.result = IF switch[q.row.under].is = "off" THEN "off" ELSE q.result]]
  /\ UNCHANGED <<switch, cached, clock, disturbed, knows>>

\* Whatever the reads raise, the feature counts as on.
CheckFails(r) ==
  /\ asks[r].at \in {"own", "parent"}
  /\ asks' = [asks EXCEPT ![r] = [@ EXCEPT !.at = "store", !.result = "on", !.sure = FALSE]]
  /\ UNCHANGED <<switch, cached, clock, disturbed, knows>>

StoreAnswer(r) ==
  LET q == asks[r] IN
  /\ q.at = "store"
  /\ cached' = [cached EXCEPT ![q.server][q.key] = [value |-> q.result, at |-> clock]]
  /\ disturbed' = IF q.sure THEN disturbed ELSE [disturbed EXCEPT ![q.key] = clock]
  /\ knows' = IF q.sure THEN knows ELSE [knows EXCEPT ![q.server] = @ \ {q.key}]
  /\ asks' = [asks EXCEPT ![r] = Served]
  /\ UNCHANGED <<switch, clock>>

-----------------------------------------------------------------------------
(***************************************************************************)
(* create_feature_switch and update_feature_switch                         *)
(***************************************************************************)
\* A switch that is there keeps its parent key.
Wanted(k) ==
  IF switch[k].is = "absent" THEN [is : {"on", "off"}, under : {NoKey, ParentOf[k]}]
  ELSE [is : {"on", "off"}, under : {switch[k].under}]

ReadSwitch(r, s, k, row) ==
  /\ asks[r].at = "idle"
  /\ asks' = [asks EXCEPT ![r] = [NoAsk EXCEPT !.at = "write", !.server = s, !.key = k,
                                                !.row = switch[k], !.want = row]]
  /\ UNCHANGED <<switch, cached, clock, disturbed, knows>>

\* A second row of one key is refused.  The row was loaded before, so that a
\* value equal to the one then read is not written.
CommitSwitch(r) ==
  LET q == asks[r] IN
  /\ q.at = "write"
  /\ q.row.is = "absent" => switch[q.key].is = "absent"
  /\ switch' = IF q.want.is = q.row.is THEN switch ELSE [switch EXCEPT ![q.key] = q.want]
  /\ disturbed' = [k \in SwitchKeys |-> IF k \in Affected(q.key) THEN clock ELSE disturbed[k]]
  /\ knows' = [s \in Servers |-> knows[s] \ Affected(q.key)]
  /\ asks' = [i \in SwitchRequests |->
       IF i = r THEN [q EXCEPT !.at = "clear"]
       ELSE IF asks[i].key \in Affected(q.key) /\ asks[i].at \in {"parent", "store"}
            THEN [asks[i] EXCEPT !.sure = FALSE] ELSE asks[i]]
  /\ UNCHANGED <<cached, clock>>

\* Mutant: only the entry of the key itself is dropped.
InvalidateKey(r) ==
  LET q == asks[r] IN
  /\ q.at = "clear"
  /\ cached' = [cached EXCEPT ![q.server][q.key] = NoEntry]
  /\ knows' = [knows EXCEPT ![q.server] = SwitchKeys]
  /\ asks' = [asks EXCEPT ![r] = Served]
  /\ UNCHANGED <<switch, clock, disturbed>>

Invalidate(r) ==
  LET q == asks[r] IN
  /\ q.at = "clear"
  /\ cached' = [cached EXCEPT ![q.server] = Forgotten]
  /\ knows' = [knows EXCEPT ![q.server] = SwitchKeys]
  /\ asks' = [asks EXCEPT ![r] = Served]
  /\ UNCHANGED <<switch, clock, disturbed>>

\* An error, a client that is gone.
AbandonSwitch(r) ==
  /\ asks[r].at \notin {"idle", "done"}
  /\ asks' = [asks EXCEPT ![r] = Served]
  /\ UNCHANGED <<switch, cached, clock, disturbed, knows>>

Restart(s) ==
  /\ cached' = [cached EXCEPT ![s] = Forgotten]
  /\ knows' = [knows EXCEPT ![s] = SwitchKeys]
  /\ asks' = [r \in SwitchRequests |-> IF asks[r].server = s THEN Served ELSE asks[r]]
  /\ UNCHANGED <<switch, clock, disturbed>>

Tick ==
  /\ clock < MaxClock
  /\ clock' = clock + 1
  /\ UNCHANGED <<switch, cached, asks, disturbed, knows>>

SwitchStep(r) ==
  \/ \E s \in Servers, k \in SwitchKeys :
       Check(r, s, k) \/ \E row \in Wanted(k) : ReadSwitch(r, s, k, row)
  \/ ReadOwn(r) \/ ReadParent(r) \/ CheckFails(r) \/ StoreAnswer(r)
  \/ CommitSwitch(r) \/ Invalidate(r) \/ AbandonSwitch(r)

SwitchesNext ==
  \/ \E r \in SwitchRequests : SwitchStep(r)
  \/ \E s \in Servers : Restart(s)
  \/ Tick

SwitchesSpec == SwitchesInit /\ [][SwitchesNext]_switchesVars

-----------------------------------------------------------------------------
\* However checks, updates, failures and restarts overlap:
\* an answer read from the database is what the switches say, unless an update
\* overlapped the check or the database failed;
\* a cached answer that contradicts the switches is gone TTL after the last
\* update of the feature or its module, or after the last such check;
\* and a process that has cleared its cache after the last update has no
\* contradicting answer at all, unless such a check has stored one
\* (feature_switch_guard lines 43-80, 94-102; strategy_routes 131-139).
SwitchesObeyed ==
  /\ \A r \in SwitchRequests :
       asks[r].at = "store" /\ asks[r].sure => asks[r].result = Effective(asks[r].key)
  /\ \A s \in Servers, k \in SwitchKeys :
       Live(s, k) /\ cached[s][k].value # Effective(k) => clock - disturbed[k] < TTL
  /\ \A s \in Servers : \A k \in knows[s] :
       cached[s][k] # NoEntry => cached[s][k].value = Effective(k)
=============================================================================
