------------------------------- MODULE WmsTask -------------------------------
(***************************************************************************)
(* The task service of the warehouse (application/warehouse/               *)
(* wms_task_app_svc.py with wms_task_repository.py): create, assign, claim *)
(* and cancel as requests that overlap.                                    *)
(*                                                                         *)
(* A request reads the task without a lock and checks what it read; its    *)
(* UPDATE then waits for the row and writes whatever the row says by now   *)
(* (update_status has no status in its WHERE); the row stays locked until  *)
(* the commit, which publishes the new status and the audit record         *)
(* together.  A request may fail at any point before its commit.           *)
(*                                                                         *)
(* The trail of a task is a set: its records have random ids, and their    *)
(* operated_at is now(), the start of the transaction that wrote them, so  *)
(* that no column tells in which order overlapping requests committed.     *)
(***************************************************************************)
EXTENDS Integers, FiniteSets

CONSTANTS
  Requests,   \* one HTTP request each
  Tasks,      \* task ids
  Users,
  Keys,       \* idempotency keys of create requests
  Backlog,    \* tasks created earlier, without a key
  Nobody, NoKey

ASSUME TaskAssumption ==
  /\ Backlog \subseteq Tasks
  /\ Nobody \notin Users \cup Requests
  /\ NoKey \notin Keys

VARIABLES
  tasks,      \* the committed rows: Tasks -> row, status "absent" if none
  locked,     \* the request whose open transaction has written the row
  requests,   \* what each request does and where it is
  audit       \* per task, the committed records of wms_operation_audit

vars == <<tasks, locked, requests, audit>>

Row(status, assignee, key) ==
  [status |-> status, assignee |-> assignee, key |-> key]

NoTask == Row("absent", Nobody, NoKey)
Created(key) == Row("created", Nobody, key)

Ops == {"create", "assign", "claim", "cancel"}

Idle == [at |-> "idle"]
Done == [at |-> "done"]
\* "after" is no column: the requests whose assignments of the task had been
\* committed when this one read it.
Active(at, op, t, who, key, after) ==
  [at |-> at, op |-> op, task |-> t, who |-> who, key |-> key, after |-> after]

Init ==
  /\ tasks = [t \in Tasks |-> IF t \in Backlog THEN Created(NoKey) ELSE NoTask]
  /\ locked = [t \in Tasks |-> Nobody]
  /\ requests = [r \in Requests |-> Idle]
  /\ audit = [t \in Tasks |-> {}]

Goes(r, state) == requests' = [requests EXCEPT ![r] = state]
At(r, point) == requests[r].at = point
Open(t) == {r \in Requests : requests[r].at \in {"write", "commit"}
                              /\ requests[r].task = t}

-----------------------------------------------------------------------------
(* create_task. *)

Unused(t) == tasks[t] = NoTask /\ Open(t) = {}
HasKey(k) == {t \in Tasks : tasks[t].status # "absent" /\ tasks[t].key = k}

(* With a key that exists the task of that key is returned. *)
CreateFinds(r) ==
  /\ At(r, "idle")
  /\ \E k \in Keys : HasKey(k) # {}
  /\ Goes(r, Done)
  /\ UNCHANGED <<tasks, locked, audit>>

CreateReads(r) ==
  /\ At(r, "idle")
  /\ \E t \in Tasks, k \in Keys \cup {NoKey} :
       /\ Unused(t)
       /\ k \in Keys => HasKey(k) = {}
       /\ Goes(r, Active("write", "create", t, Nobody, k, {}))
  /\ UNCHANGED <<tasks, locked, audit>>

(* Requests whose insert of the same key is not committed yet: the unique *)
(* index makes the second insert wait for the first.                      *)
Inserting(k) == {q \in Requests : /\ At(q, "commit")
                                  /\ requests[q].op = "create"
                                  /\ requests[q].key = k}

(* Mutant: no unique index on the key. *)
AlwaysFree(k) == TRUE

KeyFree(k) == k = NoKey \/ (Inserting(k) = {} /\ HasKey(k) = {})

KeyTaken(k) == k # NoKey /\ Inserting(k) = {} /\ HasKey(k) # {}

Insert(r) ==
  /\ At(r, "write") /\ requests[r].op = "create"
  /\ KeyFree(requests[r].key)
  /\ Goes(r, [requests[r] EXCEPT !.at = "commit"])
  /\ UNCHANGED <<tasks, locked, audit>>

(* IntegrityError: the loser of two creates with one key fails. *)
InsertClashes(r) ==
  /\ At(r, "write") /\ requests[r].op = "create"
  /\ KeyTaken(requests[r].key)
  /\ Goes(r, Done)
  /\ UNCHANGED <<tasks, locked, audit>>

-----------------------------------------------------------------------------
(* assign_task, claim_task and cancel_task: read and check. *)

(* Mutant: assign refuses cancelled tasks only. *)
MayAssignAny(row) == row.status # "cancelled"

MayAssign(row) == row.status = "created"

(* Mutant: a claim is open to everybody. *)
MayClaimAny(row, u) == row.status = "assigned"

MayClaim(row, u) == row.status = "assigned" /\ row.assignee = u
MayCancel(row) == row.status \notin {"completed", "cancelled"}

May(op, row, u) ==
  \/ op = "assign" /\ MayAssign(row)
  \/ op = "claim" /\ MayClaim(row, u)
  \/ op = "cancel" /\ MayCancel(row)

Known(t) == tasks[t].status # "absent"

Events(t, op) == {a \in audit[t] : a.event = op}
Assigners(t)  == {a.by : a \in Events(t, "assign")}

Reads(r) ==
  /\ At(r, "idle")
  /\ \E op \in Ops \ {"create"}, t \in Tasks, u \in Users :
       /\ Known(t) /\ May(op, tasks[t], u)
       /\ op = "cancel" => u = CHOOSE v \in Users : TRUE
       /\ Goes(r, Active("write", op, t, u, NoKey, Assigners(t)))
  /\ UNCHANGED <<tasks, locked, audit>>

(* The task does not exist, its status forbids it, or it is another's. *)
Refused(r) ==
  /\ At(r, "idle")
  /\ \E op \in Ops \ {"create"}, t \in Tasks, u \in Users :
       ~ (Known(t) /\ May(op, tasks[t], u))
  /\ Goes(r, Done)
  /\ UNCHANGED <<tasks, locked, audit>>

(* update_status: waits for the row, whatever it says by then. *)
Update(r) ==
  /\ At(r, "write") /\ requests[r].op # "create"
  /\ locked[requests[r].task] = Nobody
  /\ locked' = [locked EXCEPT ![requests[r].task] = r]
  /\ Goes(r, [requests[r] EXCEPT !.at = "commit"])
  /\ UNCHANGED <<tasks, audit>>

-----------------------------------------------------------------------------
(* The end of a request. *)

(* Mutant: a status the table's CHECK does not know. *)
StatusMisspelt == [assign |-> "assigned", claim |-> "in_progress",
                   cancel |-> "canceled"]

StatusAfter == [assign |-> "assigned", claim |-> "in_progress",
                cancel |-> "cancelled"]

(* update_status, and the assignee of assign_task. *)
Written(row, op, u) ==
  [row EXCEPT !.status = StatusAfter[op],
              !.assignee = IF op = "assign" THEN u ELSE @]

(* The user of an assignment's record is the assignee (after_state). *)
Record(r) == [event |-> requests[r].op, user |-> requests[r].who,
              by |-> r, after |-> requests[r].after]

Release(r) == [t \in Tasks |-> IF locked[t] = r THEN Nobody ELSE locked[t]]

Commit(r) ==
  LET q == requests[r]
  IN /\ At(r, "commit")
     /\ \/ /\ q.op = "create"
           /\ tasks' = [tasks EXCEPT ![q.task] = Created(q.key)]
           /\ UNCHANGED audit
        \/ /\ q.op # "create"
           /\ tasks' = [tasks EXCEPT ![q.task] = Written(@, q.op, q.who)]
           /\ audit' = [audit EXCEPT ![q.task] = @ \cup {Record(r)}]
     /\ locked' = Release(r)
     /\ Goes(r, Done)

(* An error, a lost connection or a stopped worker: rolled back. *)
Fail(r) ==
  /\ requests[r].at \in {"write", "commit"}
  /\ locked' = Release(r)
  /\ Goes(r, Done)
  /\ UNCHANGED <<tasks, audit>>

Step(r) ==
  \/ CreateFinds(r) \/ CreateReads(r) \/ Insert(r) \/ InsertClashes(r)
  \/ Reads(r) \/ Refused(r) \/ Update(r) \/ Commit(r) \/ Fail(r)

Next == \E r \in Requests : Step(r)

Spec == Init /\ [][Next]_vars

(* One request at a time. *)
Alone(r) == \A q \in Requests \ {r} : requests[q].at \in {"idle", "done"}

SerialSpec == Init /\ [][\E r \in Requests : Alone(r) /\ Step(r)]_vars

-----------------------------------------------------------------------------
(* Properties. *)

Rows == [status : {"absent", "created", "assigned", "in_progress", "cancelled"},
         assignee : Users \cup {Nobody}, key : Keys \cup {NoKey}]

Actives == [at : {"write", "commit"}, op : Ops, task : Tasks,
            who : Users \cup {Nobody}, key : Keys \cup {NoKey}, after : SUBSET Requests]

Records == [event : Ops, user : Users \cup {Nobody}, by : Requests, after : SUBSET Requests]

TypeOK ==
  /\ tasks \in [Tasks -> Rows]
  /\ locked \in [Tasks -> Requests \cup {Nobody}]
  /\ requests \in [Requests -> {Idle, Done} \cup Actives]
  /\ audit \in [Tasks -> SUBSET Records]

(* A retried or doubled create makes one task. *)
OneTaskPerKey == \A k \in Keys : Cardinality(HasKey(k)) <= 1

(* A task is only ever claimed by somebody it had been assigned to: when   *)
(* the claim read the task, an assignment to the same user was committed.  *)
ClaimedByAssignee ==
  \A t \in Tasks : \A c \in Events(t, "claim") :
    \E a \in Events(t, "assign") : a.user = c.user /\ a.by \in c.after

(* Row and audit trail agree on who has the task: the assignee is a user   *)
(* the trail assigns it to, and nobody if it names none.  That it names    *)
(* several takes assignments that overlap (line 80): none of them had been *)
(* committed when another read the task.  Which of them is the last, the   *)
(* trail does not say.                                                     *)
AssigneeIsInTrail ==
  \A t \in Tasks :
    /\ IF Events(t, "assign") = {}
       THEN tasks[t].assignee = Nobody
       ELSE \E a \in Events(t, "assign") : a.user = tasks[t].assignee
    /\ \A a, b \in Events(t, "assign") : a.by \notin b.after

(* One request at a time, the service obeys the aggregate's state machine. *)
Lifecycle == INSTANCE WmsTaskLifecycle WITH
  status <- [t \in Tasks |-> tasks[t].status],
  assignee <- [t \in Tasks |-> tasks[t].assignee]

ObeysLifecycle == Lifecycle!LifecycleSpec
=============================================================================
