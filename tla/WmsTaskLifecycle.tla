-------------------------- MODULE WmsTaskLifecycle --------------------------
(***************************************************************************)
(* What a warehouse task promises: the state machine of WmsTaskAggregate   *)
(* (domain/warehouse/aggregates/wms_task_aggregate.py).  Every method is   *)
(* one atomic action guarded by _require_status.                           *)
(***************************************************************************)
CONSTANTS Tasks, Users, Nobody

VARIABLES
  status,     \* "absent" before the aggregate is created
  assignee

lifecycleVars == <<status, assignee>>

LifecycleInit ==
  /\ status \in [Tasks -> {"absent", "created"}]
  /\ assignee = [t \in Tasks |-> Nobody]

Moves(t, from, to) ==
  /\ status[t] \in from
  /\ status' = [status EXCEPT ![t] = to]

Create(t) ==
  /\ Moves(t, {"absent"}, "created")
  /\ UNCHANGED assignee

(* A task that is assigned may be handed to somebody else. *)
AssignTo(t, u) ==
  /\ Moves(t, {"created", "assigned"}, "assigned")
  /\ assignee' = [assignee EXCEPT ![t] = u]

Claim(t, u) ==
  /\ assignee[t] \in {u, Nobody}
  /\ Moves(t, {"assigned"}, "in_progress")
  /\ UNCHANGED assignee

Complete(t) == Moves(t, {"in_progress"}, "completed") /\ UNCHANGED assignee

FailTask(t) == Moves(t, {"in_progress"}, "failed") /\ UNCHANGED assignee

Cancel(t) ==
  /\ Moves(t, {"created", "assigned", "in_progress"}, "cancelled")
  /\ UNCHANGED assignee

RetryTask(t) ==
  /\ Moves(t, {"failed"}, "created")
  /\ assignee' = [assignee EXCEPT ![t] = Nobody]

LifecycleNext ==
  \E t \in Tasks :
    \/ Create(t) \/ Complete(t) \/ FailTask(t) \/ Cancel(t) \/ RetryTask(t)
    \/ \E u \in Users : AssignTo(t, u) \/ Claim(t, u)

LifecycleSpec == LifecycleInit /\ [][LifecycleNext]_lifecycleVars
=============================================================================
