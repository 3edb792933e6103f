----------------------- MODULE TenantMigration_proofs -----------------------
(***************************************************************************)
(* Two facts about any number of migrations of any number of tenants,      *)
(* whatever UPDATEs fail and wherever the process stops.  A closed tenant  *)
(* has a migration that will open it, overlapping or not, unless a call    *)
(* was lost in one of three ways.  With one migration of a tenant at a     *)
(* time, the tenant is closed while its data moves.                        *)
(***************************************************************************)
EXTENDS TenantMigration, TLAPS

PhaseFollowsPoint ==
  \A m \in Migrations :
    /\ point[m] = "new" => phase[m] = "none"
    /\ point[m] = "freeze" => phase[m] = "freezing"
    /\ Holds(m) => phase[m] \in FrozenPhases

ClosedIsHeld ==
  \A t \in Tenants : status[t] = "disabled" =>
    (\E m \in Migrations : tenant[m] = t /\ Holds(m)) \/ LeftClosed(t)

OwnerInv == TypeOK /\ PhaseFollowsPoint /\ ClosedIsHeld

USE DEF Syncs, FrozenPhases, Points

LEMMA AfterIsPoint == \A p \in Syncs : After[p] \in Syncs \cup {"unfreeze"}
  BY DEF After

LEMMA TypeStep == TypeOK /\ [Next]_vars => TypeOK'
<1>0. SUFFICES ASSUME TypeOK, [Next]_vars PROVE TypeOK'
  OBVIOUS
<1> USE DEF TypeOK
<1>1. CASE Stop
  <2>1. \A m \in Migrations : point'[m] \in {"new", "ended"}
    BY <1>1 DEF Stop
  <2>2. point' \in [Migrations -> Points]
    BY <1>1, <2>1 DEF Stop
  <2>3. QED
    BY <1>0, <1>1, <2>2 DEF Stop
<1>2. ASSUME NEW m \in Migrations, Step(m) PROVE TypeOK'
  <2>1. CASE Sync(m)
    BY <1>0, <2>1, AfterIsPoint DEF Sync, Enters, Goes
  <2>2. CASE Begin(m) \/ Finish(m)
    BY <1>0, <2>2 DEF Begin, Finish, Enters, Goes
  <2>3. CASE Freeze(m) \/ FreezeFails(m) \/ Unfreeze(m) \/ UnfreezeFails(m)
    BY <1>0, <2>3 DEF Freeze, FreezeFails, Unfreeze, UnfreezeFails, SetStatus, Goes, Opens
  <2>4. QED
    BY <1>2, <2>1, <2>2, <2>3 DEF Step, Continue
<1>3. CASE UNCHANGED vars
  BY <1>0, <1>3 DEF vars
<1>4. QED
  BY <1>0, <1>1, <1>2, <1>3 DEF Next

LEMMA InitType == Init => TypeOK
  BY DEF Init, TypeOK

(* Every variable keeps its type. *)
THEOREM MigrationTypeCorrect == Spec => []TypeOK
  BY InitType, TypeStep, PTL DEF Spec

LEMMA PhaseStep == TypeOK /\ PhaseFollowsPoint /\ [Next]_vars => PhaseFollowsPoint'
<1>0. SUFFICES ASSUME TypeOK, PhaseFollowsPoint, [Next]_vars PROVE PhaseFollowsPoint'
  OBVIOUS
<1> USE DEF TypeOK, PhaseFollowsPoint, Holds
<1>1. CASE Stop
  BY <1>0, <1>1 DEF Stop
<1>2. ASSUME NEW m \in Migrations, Step(m) PROVE PhaseFollowsPoint'
  <2>1. CASE Sync(m)
    BY <1>0, <2>1, AfterIsPoint DEF Sync, Enters, Goes
  <2>2. CASE Begin(m) \/ Finish(m)
    BY <1>0, <2>2 DEF Begin, Finish, Enters, Goes
  <2>3. CASE Freeze(m) \/ FreezeFails(m) \/ Unfreeze(m) \/ UnfreezeFails(m)
    BY <1>0, <2>3 DEF Freeze, FreezeFails, Unfreeze, UnfreezeFails, Goes
  <2>4. QED
    BY <1>2, <2>1, <2>2, <2>3 DEF Step, Continue
<1>3. CASE UNCHANGED vars
  BY <1>0, <1>3 DEF vars
<1>4. QED
  BY <1>0, <1>1, <1>2, <1>3 DEF Next

(* A call that opens its tenant leaves the other tenants as they are.      *)
LEMMA OpensOne ==
  ASSUME OwnerInv, NEW m \in Migrations, point[m] = "unfreeze", Opens(m), Goes(m, "finish"),
         tenant' = tenant
  PROVE  ClosedIsHeld'
<1> USE DEF OwnerInv, TypeOK
<1>0. SUFFICES ASSUME NEW t \in Tenants, status'[t] = "disabled"
               PROVE  (\E n \in Migrations : tenant'[n] = t /\ Holds(n)') \/ LeftClosed(t)'
  BY DEF ClosedIsHeld
<1>1. t # tenant[m] /\ status[t] = "disabled"
  BY <1>0 DEF Opens, SetStatus
<1>2. CASE LeftClosed(t)
  BY <1>1, <1>2 DEF LeftClosed, Opens
<1>3. CASE \E n \in Migrations : tenant[n] = t /\ Holds(n)
  <2>1. PICK n \in Migrations : tenant[n] = t /\ Holds(n)
    BY <1>3
  <2>2. point'[n] = point[n]
    BY <1>1, <2>1 DEF Goes
  <2>3. QED
    BY <2>1, <2>2 DEF Holds
<1>4. QED
  BY <1>1, <1>2, <1>3 DEF ClosedIsHeld

(* Nothing is forgotten unless a tenant is opened: it is enough to look at *)
(* the one call that steps.                                                *)
LEMMA HeldByOthers ==
  ASSUME OwnerInv, NEW m \in Migrations, tenant' = tenant, lost \subseteq lost',
         \A n \in Migrations \ {m} : point'[n] = point[n],
         \A t \in Tenants : status'[t] = "disabled" => status[t] = "disabled" \/ t = tenant[m],
         status'[tenant[m]] = "disabled" =>
           Holds(m)' \/ m \in lost' \/ (~ Holds(m) /\ status[tenant[m]] = "disabled")
  PROVE  ClosedIsHeld'
<1> USE DEF OwnerInv, TypeOK
<1>0. SUFFICES ASSUME NEW t \in Tenants, status'[t] = "disabled"
               PROVE  (\E n \in Migrations : tenant[n] = t /\ Holds(n)') \/ LeftClosed(t)'
  BY DEF ClosedIsHeld
<1>1. CASE t = tenant[m] /\ (Holds(m)' \/ m \in lost')
  BY <1>1 DEF LeftClosed
<1>2. CASE ~ (t = tenant[m] /\ (Holds(m)' \/ m \in lost'))
  <2>1. status[t] = "disabled" /\ (t = tenant[m] => ~ Holds(m))
    BY <1>0, <1>2
  <2>2. CASE LeftClosed(t)
    BY <2>2 DEF LeftClosed
  <2>3. CASE \E n \in Migrations : tenant[n] = t /\ Holds(n)
    <3>1. PICK n \in Migrations : tenant[n] = t /\ Holds(n)
      BY <2>3
    <3>2. n # m
      BY <2>1, <3>1
    <3>3. QED
      BY <3>1, <3>2 DEF Holds
  <2>4. QED
    BY <2>1, <2>2, <2>3 DEF ClosedIsHeld
<1>3. QED
  BY <1>1, <1>2

LEMMA HeldStep == OwnerInv /\ [Next]_vars => ClosedIsHeld'
<1>0. SUFFICES ASSUME OwnerInv, [Next]_vars PROVE ClosedIsHeld'
  OBVIOUS
<1> USE DEF OwnerInv, TypeOK
<1>1. ASSUME NEW m \in Migrations, Step(m) PROVE ClosedIsHeld'
  <2>1. tenant' = tenant /\ \A n \in Migrations \ {m} : point'[n] = point[n]
    BY <1>0, <1>1 DEF Step, Continue, Begin, Freeze, FreezeFails, Sync, Unfreeze, UnfreezeFails,
       Finish, Goes
  <2>2. CASE (Unfreeze(m) \/ UnfreezeFails(m)) /\ Opens(m)
    BY <1>0, <2>1, <2>2, OpensOne DEF Unfreeze, UnfreezeFails
  <2>3. CASE UnfreezeFails(m) /\ UNCHANGED status
    <3>1. CASE Opens(m)
      BY <2>2, <2>3, <3>1
    <3>2. CASE ~ Opens(m)
      <4>1. lost' = lost \cup {n \in {m} : status[tenant[n]] = "disabled"}
        BY <2>3, <3>2 DEF UnfreezeFails
      <4>2. QED
        BY <1>0, <2>1, <2>3, <4>1, HeldByOthers
    <3>3. QED
      BY <3>1, <3>2
  <2>4. CASE Freeze(m) \/ FreezeFails(m)
    <3>1. point[m] = "freeze" /\ lost \subseteq lost' /\ ~ Holds(m)
      BY <2>4 DEF Freeze, FreezeFails, Holds
    <3>2. /\ \A t \in Tenants : status'[t] = "disabled" => status[t] = "disabled" \/ t = tenant[m]
          /\ status'[tenant[m]] = "disabled" =>
               Holds(m)' \/ m \in lost' \/ status[tenant[m]] = "disabled"
      BY <1>0, <2>4 DEF Freeze, FreezeFails, SetStatus, Goes, Holds
    <3>3. QED
      BY <1>0, <2>1, <3>1, <3>2, HeldByOthers
  <2>5. CASE Begin(m) \/ Sync(m) \/ Finish(m)
    <3>1. status' = status /\ lost' = lost
      BY <2>5 DEF Begin, Sync, Finish
    <3>2. Holds(m) => Holds(m)'
      BY <1>0, <2>5, AfterIsPoint DEF Begin, Sync, Finish, Goes, Holds
    <3>3. QED
      BY <1>0, <2>1, <3>1, <3>2, HeldByOthers
  <2>6. QED
    BY <1>1, <2>2, <2>3, <2>4, <2>5 DEF Step, Continue, Unfreeze, UnfreezeFails
<1>2. CASE Stop
  BY <1>0, <1>2 DEF Stop, ClosedIsHeld, LeftClosed
<1>3. CASE UNCHANGED vars
  BY <1>0, <1>3 DEF vars, ClosedIsHeld, LeftClosed, Holds
<1>4. QED
  BY <1>0, <1>1, <1>2, <1>3 DEF Next

(* No tenant is left closed but in the three ways the code has: whoever    *)
(* sees it disabled, a migration of it is running and will open it,        *)
(* however the migrations of that tenant overlap, or since the tenant was  *)
(* last active a freeze took effect whose answer was lost, the error of an *)
(* unfreeze was dropped, or the process stopped over a migration.          *)
THEOREM ClosedTenantHasOwner == Spec => []FrozenHasOwner
<1>1. Init => OwnerInv
  BY InitType DEF Init, OwnerInv, PhaseFollowsPoint, ClosedIsHeld, Holds
<1>2. OwnerInv /\ [Next]_vars => OwnerInv'
  BY TypeStep, PhaseStep, HeldStep DEF OwnerInv
<1>3. OwnerInv => FrozenHasOwner
  BY DEF OwnerInv, PhaseFollowsPoint, ClosedIsHeld, FrozenHasOwner, IsWriteFrozen
<1>4. QED
  BY <1>1, <1>2, <1>3, PTL DEF Spec

-----------------------------------------------------------------------------
(* One migration of a tenant at a time. *)

Exclusive ==
  \A m, n \in Migrations :
    m # n /\ tenant[m] = tenant[n] => ~ (Running(m) /\ Running(n))

HeldIsClosed == \A m \in Migrations : Holds(m) => status[tenant[m]] = "disabled"

(* Once its phase is a synchronising one, a running call holds its tenant  *)
(* until it has unfrozen it.                                               *)
SyncIsHeld ==
  \A m \in Migrations :
    Running(m) /\ phase[m] \in Syncs /\ point[m] # "finish" => Holds(m)

ExclusiveInv == TypeOK /\ PhaseFollowsPoint /\ Exclusive /\ HeldIsClosed /\ SyncIsHeld

LEMMA ExclusiveIsNext == ExclusiveNext => Next
  BY DEF ExclusiveNext, BeginAlone, Step, Next

(* A call that goes on has begun, so it is the only one of its tenant.     *)
LEMMA StepsAlone ==
  ASSUME TypeOK, Exclusive, NEW m \in Migrations, BeginAlone(m) \/ Continue(m)
  PROVE  AloneOnTenant(m) /\ Step(m)
<1>1. CASE BeginAlone(m)
  BY <1>1 DEF BeginAlone, Step
<1>2. CASE Continue(m)
  <2>1. Running(m)
    BY <1>2 DEF Continue, Freeze, FreezeFails, Sync, Unfreeze, UnfreezeFails,
       Finish, Running
  <2>2. AloneOnTenant(m)
    BY <2>1 DEF AloneOnTenant, Exclusive
  <2>3. QED
    BY <1>2, <2>2 DEF Step
<1>3. QED
  BY <1>1, <1>2

LEMMA ExclusiveStep == ExclusiveInv /\ [ExclusiveNext]_vars => ExclusiveInv'
<1>0. SUFFICES ASSUME ExclusiveInv, [ExclusiveNext]_vars PROVE ExclusiveInv'
  OBVIOUS
<1>1. TypeOK' /\ PhaseFollowsPoint'
  BY <1>0, ExclusiveIsNext, TypeStep, PhaseStep DEF ExclusiveInv
<1> USE DEF ExclusiveInv, TypeOK
<1>2. CASE Stop
  BY <1>0, <1>1, <1>2 DEF Stop, Exclusive, HeldIsClosed, SyncIsHeld, Holds, Running
<1>3. ASSUME NEW m \in Migrations, AloneOnTenant(m), Step(m) PROVE ExclusiveInv'
  <2>1. tenant' = tenant
    BY <1>3 DEF Step, Continue, Begin, Freeze, FreezeFails, Sync, Unfreeze, UnfreezeFails, Finish
  <2>2. \A n \in Migrations \ {m} : point'[n] = point[n]
    BY <1>0, <1>3 DEF Step, Continue, Begin, Freeze, FreezeFails, Sync, Unfreeze,
       UnfreezeFails, Finish, Goes
  <2>3. Exclusive'
    BY <1>0, <1>3, <2>1, <2>2 DEF Exclusive, AloneOnTenant, Running
  <2>4. \A n \in Migrations \ {m} : Holds(n) => status'[tenant[n]] = status[tenant[n]]
    <3>1. \A n \in Migrations \ {m} : Holds(n) => tenant[n] # tenant[m]
      BY <1>3 DEF AloneOnTenant, Holds, Running
    <3>2. QED
      BY <1>0, <1>3, <3>1 DEF Step, Continue, Begin, Freeze, FreezeFails, Sync, Unfreeze,
         UnfreezeFails, Finish, SetStatus, Opens
  <2>5. HeldIsClosed'
    <3>1. SUFFICES ASSUME NEW n \in Migrations, Holds(n)'
                   PROVE  status'[tenant'[n]] = "disabled"
      BY DEF HeldIsClosed
    <3>2. CASE n # m
      BY <1>0, <2>1, <2>2, <2>4, <3>1, <3>2 DEF HeldIsClosed, Holds
    <3>3. CASE n = m
      <4>1. CASE Freeze(m)
        BY <1>0, <2>1, <3>3, <4>1 DEF Freeze, SetStatus
      <4>2. CASE Sync(m)
        BY <1>0, <2>1, <3>3, <4>2 DEF Sync, HeldIsClosed, Holds
      <4>3. CASE Begin(m) \/ FreezeFails(m) \/ Unfreeze(m) \/ UnfreezeFails(m) \/ Finish(m)
        BY <1>0, <3>1, <3>3, <4>3 DEF Begin, FreezeFails, Unfreeze,
           UnfreezeFails, Finish, Goes, Holds
      <4>4. QED
        BY <1>3, <4>1, <4>2, <4>3 DEF Step, Continue
    <3>4. QED
      BY <3>2, <3>3
  <2>6. SyncIsHeld'
    <3>1. SUFFICES ASSUME NEW n \in Migrations,
                          Running(n)', phase'[n] \in Syncs, point'[n] # "finish"
                   PROVE  Holds(n)'
      BY DEF SyncIsHeld
    <3>2. CASE n # m
      <4>1. phase'[n] = phase[n]
        BY <1>0, <1>3, <3>2 DEF Step, Continue, Begin, Freeze, FreezeFails, Sync,
           Unfreeze, UnfreezeFails, Finish, Enters
      <4>2. QED
        BY <1>0, <2>2, <3>1, <3>2, <4>1 DEF SyncIsHeld, Holds, Running
    <3>3. CASE n = m
      <4>1. CASE Freeze(m)
        BY <1>0, <3>3, <4>1 DEF Freeze, Goes, Holds
      <4>2. CASE Sync(m)
        BY <1>0, <3>3, <4>2, AfterIsPoint DEF Sync, Goes, Holds
      <4>3. CASE Begin(m) \/ FreezeFails(m) \/ Unfreeze(m) \/ UnfreezeFails(m) \/ Finish(m)
        BY <1>0, <3>1, <3>3, <4>3 DEF Begin, FreezeFails, Unfreeze,
           UnfreezeFails, Finish, Goes, Enters, Running
      <4>4. QED
        BY <1>3, <4>1, <4>2, <4>3 DEF Step, Continue
    <3>4. QED
      BY <3>2, <3>3
  <2>7. QED
    BY <1>1, <2>3, <2>5, <2>6
<1>4. CASE UNCHANGED vars
  BY <1>0, <1>1, <1>4 DEF vars, Exclusive, HeldIsClosed, SyncIsHeld, Holds, Running
<1>5. QED
  BY <1>0, <1>2, <1>3, <1>4, StepsAlone DEF ExclusiveNext

(* If migrations of one tenant do not overlap, the tenant takes no writes  *)
(* while its data moves, whatever UPDATEs fail and wherever the process    *)
(* stops.                                                                  *)
THEOREM ExclusiveMigrationIsFrozen == ExclusiveSpec => []SyncIsFrozen
<1>1. Init => ExclusiveInv
  BY InitType DEF Init, ExclusiveInv, PhaseFollowsPoint, Exclusive,
     HeldIsClosed, SyncIsHeld, Holds, Running
<1>2. ExclusiveInv => SyncIsFrozen
  BY DEF ExclusiveInv, HeldIsClosed, SyncIsHeld, SyncIsFrozen
<1>3. QED
  BY <1>1, ExclusiveStep, <1>2, PTL DEF ExclusiveSpec
=============================================================================
