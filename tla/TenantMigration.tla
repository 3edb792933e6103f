--------------------------- MODULE TenantMigration ---------------------------
(***************************************************************************)
(* Moving a tenant's data in the control plane: MigrationOrchestrator      *)
(* (control-plane/internal/orchestrator/migration.go).  Every POST         *)
(* /tenants/{id}/migrate runs Migrate in a goroutine of its own: it        *)
(* disables the tenant, synchronises, verifies, switches and activates the *)
(* tenant again.  The task's phase lives in the process, the tenant's      *)
(* status in the database.                                                 *)
(*                                                                         *)
(* The four phases in the middle only log and return nil, so the rollback  *)
(* after them never runs.  The database calls can fail (the request's      *)
(* context ends with the client's connection), after the UPDATE took       *)
(* effect or before.                                                       *)
(***************************************************************************)
EXTENDS Integers

CONSTANTS
  Migrations,   \* calls of Migrate
  Tenants

VARIABLES
  status,     \* tenant_state.status
  tenant,     \* the tenant of each call
  phase,      \* the phase of each task in the orchestrator's map
  point,      \* what each call does next
  lost        \* calls that have ended with their tenant still closed

vars == <<status, tenant, phase, point, lost>>

(* The phases between freezing and unfreezing, each with its successor. *)
Syncs == {"full_sync", "incremental_sync", "verifying", "switching"}

After == [full_sync |-> "incremental_sync", incremental_sync |-> "verifying",
          verifying |-> "switching", switching |-> "unfreeze"]

(* The phases in which IsWriteFrozen answers yes. *)
FrozenPhases == Syncs \cup {"freezing"}

Points == Syncs \cup {"new", "freeze", "unfreeze", "finish", "ended"}

Init ==
  /\ status = [t \in Tenants |-> "active"]
  /\ tenant \in [Migrations -> Tenants]
  /\ phase = [m \in Migrations |-> "none"]
  /\ point = [m \in Migrations |-> "new"]
  /\ lost = {}

Goes(m, p) == point' = [point EXCEPT ![m] = p]
Enters(m, p) == phase' = [phase EXCEPT ![m] = p]
SetStatus(m, s) == status' = [status EXCEPT ![tenant[m]] = s]

(* A call that has disabled its tenant and has not activated it again. *)
Holds(m) == point[m] \in Syncs \cup {"unfreeze"}

(* The tenant is active, and what earlier calls left is forgotten. *)
Opens(m) ==
  /\ SetStatus(m, "active")
  /\ lost' = {n \in lost : tenant[n] # tenant[m]}

-----------------------------------------------------------------------------
(* Migrate, from the new task to the UPDATE of freezeWrites. *)
Begin(m) ==
  /\ point[m] = "new"
  /\ Enters(m, "freezing")
  /\ Goes(m, "freeze")
  /\ UNCHANGED <<status, tenant, lost>>

(* Mutant: the tenant is not disabled. *)
FreezeSkipped(m) ==
  /\ point[m] = "freeze"
  /\ Goes(m, "full_sync")
  /\ UNCHANGED <<status, tenant, phase, lost>>

Freeze(m) ==
  /\ point[m] = "freeze"
  /\ SetStatus(m, "disabled")
  /\ Goes(m, "full_sync")
  /\ UNCHANGED <<tenant, phase, lost>>

(* freezeWrites returns an error and Migrate returns it, without rollback;  *)
(* the UPDATE may have taken effect all the same.                          *)
FreezeFails(m) ==
  /\ point[m] = "freeze"
  /\ \/ SetStatus(m, "disabled") /\ lost' = lost \cup {m}
     \/ UNCHANGED <<status, lost>>
  /\ Goes(m, "ended")
  /\ UNCHANGED <<tenant, phase>>

(* Mutant: switchPlacement never returns. *)
SwitchHangs(m) ==
  /\ point[m] \in Syncs \ {"switching"}
  /\ Enters(m, point[m])
  /\ Goes(m, After[point[m]])
  /\ UNCHANGED <<status, tenant, lost>>

(* fullSync, incrementalSync, verifyIntegrity, switchPlacement. *)
Sync(m) ==
  /\ point[m] \in Syncs
  /\ Enters(m, point[m])
  /\ Goes(m, After[point[m]])
  /\ UNCHANGED <<status, tenant, lost>>

(* Mutant: the task completes without unfreezing. *)
UnfreezeForgotten(m) ==
  /\ point[m] = "unfreeze"
  /\ Goes(m, "finish")
  /\ UNCHANGED <<status, tenant, phase, lost>>

Unfreeze(m) ==
  /\ point[m] = "unfreeze"
  /\ Opens(m)
  /\ Goes(m, "finish")
  /\ UNCHANGED <<tenant, phase>>

(* unfreezeWrites drops the error: the task completes all the same. *)
UnfreezeFails(m) ==
  /\ point[m] = "unfreeze"
  /\ \/ Opens(m)
     \/ /\ lost' = lost \cup {n \in {m} : status[tenant[n]] = "disabled"}
        /\ UNCHANGED status
  /\ Goes(m, "finish")
  /\ UNCHANGED <<tenant, phase>>

(* Mutant: the phase is a name the type does not have. *)
FinishDone(m) ==
  /\ point[m] = "finish"
  /\ Enters(m, "migrated")
  /\ Goes(m, "ended")
  /\ UNCHANGED <<status, tenant, lost>>

Finish(m) ==
  /\ point[m] = "finish"
  /\ Enters(m, "completed")
  /\ Goes(m, "ended")
  /\ UNCHANGED <<status, tenant, lost>>

(* The process stops: calls and tasks are gone, the database stays. *)
Stop ==
  /\ \E m \in Migrations : point[m] \notin {"new", "ended"}
  /\ point' = [m \in Migrations |-> IF point[m] = "new" THEN "new" ELSE "ended"]
  /\ phase' = [m \in Migrations |-> "none"]
  /\ lost' = lost \cup {m \in Migrations : Holds(m) /\ status[tenant[m]] = "disabled"}
  /\ UNCHANGED <<status, tenant>>

Continue(m) ==
  \/ Freeze(m) \/ FreezeFails(m) \/ Sync(m)
  \/ Unfreeze(m) \/ UnfreezeFails(m) \/ Finish(m)

Step(m) == Begin(m) \/ Continue(m)

Next == Stop \/ \E m \in Migrations : Step(m)

Spec == Init /\ [][Next]_vars

(* A goroutine that can run does run. *)
LiveSpec == Spec /\ \A m \in Migrations : WF_vars(Step(m))

(* One migration of a tenant at a time, which the code leaves to its caller. *)
Running(m) == point[m] \notin {"new", "ended"}

AloneOnTenant(m) ==
  \A n \in Migrations \ {m} : tenant[n] = tenant[m] => ~ Running(n)

BeginAlone(m) == AloneOnTenant(m) /\ Begin(m)

ExclusiveNext == Stop \/ \E m \in Migrations : BeginAlone(m) \/ Continue(m)

ExclusiveSpec == Init /\ [][ExclusiveNext]_vars

-----------------------------------------------------------------------------
(* Properties. *)

TypeOK ==
  /\ status \in [Tenants -> {"active", "disabled"}]
  /\ tenant \in [Migrations -> Tenants]
  /\ phase \in [Migrations -> FrozenPhases \cup {"none", "completed"}]
  /\ point \in [Migrations -> Points]
  /\ lost \subseteq Migrations

(* IsWriteFrozen. *)
IsWriteFrozen(t) ==
  \E m \in Migrations : tenant[m] = t /\ phase[m] \in FrozenPhases

(* C-MIG-02: while a tenant's data is copied, verified and switched, the   *)
(* tenant takes no writes: its status in the database is disabled.         *)
SyncIsFrozen ==
  \A m \in Migrations :
    (Running(m) /\ phase[m] \in Syncs /\ point[m] # "finish")
      => status[tenant[m]] = "disabled"

(* A disabled tenant is one whose migration the orchestrator knows to be   *)
(* under way, even when migrations of one tenant overlap.  It is left      *)
(* closed with nobody about to open it in three ways only, each of them    *)
(* since it was last active: the answer to the freeze was lost (line 80),  *)
(* the error of the unfreeze was dropped (line 126), or the process        *)
(* stopped over a migration (line 40).                                     *)
LeftClosed(t) == \E m \in lost : tenant[m] = t

FrozenHasOwner ==
  \A t \in Tenants : status[t] = "disabled" =>
    \/ IsWriteFrozen(t) /\ \E m \in Migrations : tenant[m] = t /\ Holds(m)
    \/ LeftClosed(t)

(* Step 6 of Migrate restores writing: a closed tenant opens again, unless *)
(* a call is lost in one of those three ways.                              *)
TenantReopens ==
  \A t \in Tenants : status[t] = "disabled" ~> status[t] = "active" \/ LeftClosed(t)
=============================================================================
