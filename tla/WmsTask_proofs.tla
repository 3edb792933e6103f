--------------------------- MODULE WmsTask_proofs ---------------------------
(***************************************************************************)
(* The task service for any number of overlapping requests, tasks and      *)
(* users.                                                                  *)
(***************************************************************************)
EXTENDS WmsTask, FiniteSetTheorems, TLAPS

-----------------------------------------------------------------------------
(***************************************************************************)
(* Who works on a task.  A claim checks the assignee long before its       *)
(* commit; what keeps the check true is the audit trail, which only grows: *)
(* the invariant carries the assignment that justified a claim from its    *)
(* read to its commit.                                                     *)
(***************************************************************************)

Assigned(t, u) == \E a \in Events(t, "assign") : a.user = u

(* The assignee a row names has an assignment in the trail. *)
AssigneeHasRecord ==
  \A t \in Tasks :
    tasks[t].assignee # Nobody => Assigned(t, tasks[t].assignee)

(* A claim under way has passed the check on its assignee. *)
Justified(t, u, after) == \E a \in Events(t, "assign") : a.user = u /\ a.by \in after

ClaimIsJustified ==
  \A r \in Requests :
    requests[r] \in Actives /\ requests[r].op = "claim"
      => Justified(requests[r].task, requests[r].who, requests[r].after)

Inv == /\ TypeOK
       /\ AssigneeHasRecord
       /\ ClaimIsJustified
       /\ ClaimedByAssignee

LEMMA InvInit == Init => Inv
<1>0. SUFFICES ASSUME Init PROVE Inv
  OBVIOUS
<1>1. TypeOK
  BY <1>0 DEF Init, TypeOK, Rows, Row, NoTask, Created, Idle, Records
<1>2. \A t \in Tasks : audit[t] = {} /\ tasks[t].assignee = Nobody
  BY <1>0 DEF Init, Row, NoTask, Created
<1>3. \A r \in Requests : requests[r] \notin Actives
  BY <1>0 DEF Init, Idle, Actives
<1>4. QED
  BY <1>1, <1>2, <1>3
  DEF Inv, AssigneeHasRecord, ClaimIsJustified, ClaimedByAssignee, Events

LEMMA TypeStep ==
  ASSUME TypeOK, NEW r \in Requests, Step(r)
  PROVE  TypeOK'
<1> USE DEF TypeOK
<1>1. \A q \in Actives : [q EXCEPT !.at = "commit"] \in Actives
  BY DEF Actives
<1>2. \A op \in Ops, t \in Tasks, w \in Users \cup {Nobody}, k \in Keys \cup {NoKey},
         x \in SUBSET Requests :
        Active("write", op, t, w, k, x) \in Actives
  BY DEF Active, Actives
<1>3. At(r, "write") \/ At(r, "commit") => requests[r] \in Actives
  BY DEF At, Idle, Done, Actives
<1>4. CASE CreateFinds(r) \/ InsertClashes(r) \/ Refused(r)
  BY <1>4 DEF CreateFinds, InsertClashes, Refused, Goes
<1>5. CASE CreateReads(r) \/ Reads(r)
  <2>1. PICK q \in Actives : Goes(r, q)
    <3>1. "create" \in Ops
      BY DEF Ops
    <3>2. CASE CreateReads(r)
      <4>1. PICK t \in Tasks, k \in Keys \cup {NoKey} :
              Goes(r, Active("write", "create", t, Nobody, k, {}))
        BY <3>2 DEF CreateReads
      <4>2. QED
        BY <1>2, <3>1, <4>1
    <3>3. CASE Reads(r)
      <4>1. PICK op \in Ops, t \in Tasks, u \in Users :
              Goes(r, Active("write", op, t, u, NoKey, Assigners(t)))
        BY <3>3 DEF Reads
      <4>2. Assigners(t) \in SUBSET Requests
        BY DEF Assigners, Events, Records
      <4>3. QED
        BY <1>2, <4>1, <4>2
    <3>4. QED
      BY <1>5, <3>2, <3>3
  <2>2. UNCHANGED <<tasks, locked, audit>>
    BY <1>5 DEF CreateReads, Reads
  <2>3. QED
    BY <2>1, <2>2 DEF Goes
<1>6. CASE Insert(r)
  BY <1>1, <1>3, <1>6 DEF Insert, Goes
<1>7. CASE Update(r)
  BY <1>1, <1>3, <1>7 DEF Update, Goes
<1>8. CASE Commit(r)
  <2>1. requests[r] \in Actives
    BY <1>3, <1>8 DEF Commit
  <2>2. locked' \in [Tasks -> Requests \cup {Nobody}] /\ requests' \in [Requests -> {Idle, Done} \cup Actives]
    BY <1>8 DEF Commit, Release, Goes
  <2>3. CASE requests[r].op = "create"
    <3>1. Created(requests[r].key) \in Rows
      BY <2>1 DEF Created, Row, Rows, Actives
    <3>2. QED
      BY <1>8, <2>1, <2>2, <2>3, <3>1 DEF Commit
  <2>4. CASE requests[r].op # "create"
    <3>1. Written(tasks[requests[r].task], requests[r].op, requests[r].who) \in Rows
      <4>1. requests[r].op \in {"assign", "claim", "cancel"} /\ tasks[requests[r].task] \in Rows
        BY <2>1, <2>4 DEF Actives, Ops
      <4>2. StatusAfter[requests[r].op] \in {"assigned", "in_progress", "cancelled"}
        BY <4>1 DEF StatusAfter
      <4>3. requests[r].who \in Users \cup {Nobody}
        BY <2>1 DEF Actives
      <4>4. QED
        BY <4>1, <4>2, <4>3 DEF Written, Rows
    <3>2. Record(r) \in Records
      BY <2>1 DEF Record, Records, Actives
    <3>3. audit[requests[r].task] \cup {Record(r)} \in SUBSET Records
      BY <2>1, <3>2 DEF Actives
    <3>4. /\ tasks' = [tasks EXCEPT ![requests[r].task] =
                         Written(@, requests[r].op, requests[r].who)]
          /\ audit' = [audit EXCEPT ![requests[r].task] = @ \cup {Record(r)}]
      BY <1>8, <2>4 DEF Commit
    <3>5. tasks' \in [Tasks -> Rows]
      BY <3>1, <3>4
    <3>6. audit' \in [Tasks -> SUBSET Records]
      BY <3>3, <3>4
    <3>7. QED
      BY <2>2, <3>5, <3>6
  <2>5. QED
    BY <2>3, <2>4
<1>9. CASE Fail(r)
  BY <1>9 DEF Fail, Release, Goes
<1>10. QED
  BY <1>4, <1>5, <1>6, <1>7, <1>8, <1>9 DEF Step

(* The trail only grows, so what is in it stays in it. *)
LEMMA TrailGrows ==
  ASSUME TypeOK, NEW r \in Requests, Step(r), NEW t \in Tasks, NEW op
  PROVE  Events(t, op) \subseteq Events(t, op)'
<1>1. audit[t] \subseteq audit'[t]
  BY DEF Step, CreateFinds, CreateReads, Insert, InsertClashes, Reads, Refused,
     Update, Commit, Fail, TypeOK
<1> QED
  BY <1>1 DEF Events

LEMMA AssignedStays ==
  ASSUME TypeOK, NEW r \in Requests, Step(r),
         NEW t \in Tasks, NEW u, Assigned(t, u)
  PROVE  Assigned(t, u)'
BY TrailGrows DEF Assigned

LEMMA JustifiedStays ==
  ASSUME TypeOK, NEW r \in Requests, Step(r),
         NEW t \in Tasks, NEW u, NEW after, Justified(t, u, after)
  PROVE  Justified(t, u, after)'
BY TrailGrows DEF Justified

(* A commit of an assignment, a claim or a cancellation adds its record. *)
LEMMA CommitRecords ==
  ASSUME TypeOK, NEW r \in Requests, Commit(r), requests[r].op # "create",
         NEW t, t = requests[r].task
  PROVE  /\ requests[r] \in Actives /\ t \in Tasks
         /\ audit'[t] = audit[t] \cup {Record(r)}
         /\ \A s \in Tasks \ {t} : audit'[s] = audit[s]
         /\ Record(r).event = requests[r].op /\ Record(r).user = requests[r].who
         /\ Record(r).by = r /\ Record(r).after = requests[r].after
<1>1. requests[r] \in Actives
  BY DEF TypeOK, Commit, At, Idle, Done, Actives
<1>2. t \in Tasks
  BY <1>1 DEF Actives
<1>3. audit' = [audit EXCEPT ![t] = @ \cup {Record(r)}]
  BY DEF Commit
<1> QED
  BY <1>1, <1>2, <1>3 DEF TypeOK, Record

LEMMA AssigneeStep ==
  ASSUME Inv, NEW r \in Requests, Step(r)
  PROVE  AssigneeHasRecord'
<1> USE DEF Inv
<1>0. SUFFICES ASSUME NEW t \in Tasks, tasks'[t].assignee # Nobody
               PROVE  Assigned(t, tasks[t].assignee)'
  BY DEF AssigneeHasRecord
<1>1. CASE tasks'[t].assignee = tasks[t].assignee
  BY <1>0, <1>1, AssignedStays DEF AssigneeHasRecord
<1>2. CASE tasks'[t].assignee # tasks[t].assignee
  <2>1. Commit(r)
    BY <1>2 DEF Step, CreateFinds, CreateReads, Insert, InsertClashes, Reads,
       Refused, Update, Fail
  <2>2. requests[r].op # "create" /\ requests[r].task = t
    <3>1. requests[r] \in Actives
      BY <2>1 DEF TypeOK, Commit, At, Idle, Done, Actives
    <3>2. requests[r].op = "create" => tasks' = [tasks EXCEPT ![requests[r].task] = Created(requests[r].key)]
      BY <2>1 DEF Commit
    <3>3. Created(requests[r].key).assignee = Nobody
      BY DEF Created, Row
    <3>4. requests[r].op # "create"
      BY <1>0, <1>2, <3>1, <3>2, <3>3 DEF TypeOK, Actives
    <3>5. tasks' = [tasks EXCEPT ![requests[r].task] = Written(@, requests[r].op, requests[r].who)]
      BY <2>1, <3>4 DEF Commit
    <3>6. QED
      BY <1>2, <3>1, <3>4, <3>5 DEF TypeOK, Actives
  <2>3. requests[r] \in Actives /\ tasks[t] \in Rows
    BY <2>1, <2>2, CommitRecords DEF TypeOK
  <2>4. tasks'[t] = Written(tasks[t], requests[r].op, requests[r].who)
    BY <2>1, <2>2 DEF Commit, TypeOK
  <2>5. requests[r].op = "assign" /\ tasks'[t].assignee = requests[r].who
    BY <1>2, <2>3, <2>4 DEF Written, Rows
  <2>6. Record(r) \in Events(t, "assign")' /\ Record(r).user = requests[r].who
    BY <2>1, <2>2, <2>5, CommitRecords DEF Events
  <2>7. QED
    BY <2>5, <2>6 DEF Assigned
<1>3. QED
  BY <1>1, <1>2

LEMMA JustifiedStep ==
  ASSUME Inv, NEW r \in Requests, Step(r)
  PROVE  ClaimIsJustified'
<1> USE DEF Inv
<1>0. SUFFICES ASSUME NEW q \in Requests, requests'[q] \in Actives,
                      requests'[q].op = "claim"
               PROVE  Justified(requests[q].task, requests[q].who, requests[q].after)'
  BY DEF ClaimIsJustified
<1>1. CASE /\ requests[q] \in Actives /\ requests[q].op = "claim"
           /\ requests'[q].task = requests[q].task
           /\ requests'[q].who = requests[q].who
           /\ requests'[q].after = requests[q].after
  <2>1. PICK t, u, x : /\ t = requests[q].task /\ u = requests[q].who
                       /\ x = requests[q].after
    OBVIOUS
  <2>2. t \in Tasks /\ Justified(t, u, x)
    BY <1>1, <2>1 DEF ClaimIsJustified, Actives
  <2>3. Justified(t, u, x)'
    BY <2>2, JustifiedStays
  <2> QED
    BY <1>1, <2>1, <2>3
<1>2. CASE Reads(r) /\ q = r
  <2>1. PICK op \in Ops, t \in Tasks, u \in Users :
          /\ May(op, tasks[t], u)
          /\ Goes(r, Active("write", op, t, u, NoKey, Assigners(t)))
    BY <1>2 DEF Reads
  <2>2. requests'[q] = Active("write", op, t, u, NoKey, Assigners(t)) /\ audit' = audit
    BY <1>2, <2>1 DEF Goes, TypeOK, Reads
  <2>3. /\ op = "claim" /\ requests'[q].task = t /\ requests'[q].who = u
        /\ requests'[q].after = Assigners(t)
    BY <1>0, <2>2 DEF Active
  <2>4. tasks[t].assignee = u /\ u # Nobody
    BY <2>1, <2>3, TaskAssumption DEF May, MayClaim
  <2>5. PICK a \in Events(t, "assign") : a.user = u
    BY <2>4 DEF AssigneeHasRecord, Assigned
  <2>6. a.by \in Assigners(t) /\ a \in Events(t, "assign")'
    BY <2>2, <2>5 DEF Assigners, Events
  <2>7. QED
    BY <2>3, <2>5, <2>6 DEF Justified
<1>3. CASE q # r
  <2>1. requests'[q] = requests[q]
    BY <1>3 DEF Step, CreateFinds, CreateReads, Insert, InsertClashes, Reads,
       Refused, Update, Commit, Fail, Goes, TypeOK
  <2>2. QED
    BY <1>0, <1>1, <2>1
<1>4. CASE q = r /\ (Insert(r) \/ Update(r))
  <2>1. At(r, "write") /\ requests'[r] = [requests[r] EXCEPT !.at = "commit"]
    BY <1>4 DEF Insert, Update, Goes, TypeOK
  <2>2. requests[r] \in Actives
    BY <2>1 DEF At, TypeOK, Idle, Done, Actives
  <2>3. QED
    BY <1>0, <1>1, <1>4, <2>1, <2>2 DEF Actives
<1>5. CASE q = r /\ CreateReads(r)
  <2>1. requests'[r].op = "create"
    BY <1>5 DEF CreateReads, Goes, Active, TypeOK
  <2>2. QED
    BY <1>0, <1>5, <2>1
<1>6. CASE q = r /\ (CreateFinds(r) \/ InsertClashes(r) \/ Refused(r)
                     \/ Commit(r) \/ Fail(r))
  <2>1. requests'[r] = Done
    BY <1>6 DEF CreateFinds, InsertClashes, Refused, Commit, Fail, Goes, TypeOK
  <2>2. QED
    BY <1>0, <1>6, <2>1 DEF Done, Actives
<1>7. QED
  BY <1>2, <1>3, <1>4, <1>5, <1>6 DEF Step

LEMMA ClaimedStep ==
  ASSUME Inv, NEW r \in Requests, Step(r)
  PROVE  ClaimedByAssignee'
<1> USE DEF Inv
<1>1. CASE audit' = audit
  BY <1>1 DEF ClaimedByAssignee, Events
<1>2. CASE Commit(r) /\ requests[r].op # "create"
  <2>1. PICK t : t = requests[r].task
    OBVIOUS
  <2>2. /\ requests[r] \in Actives /\ t \in Tasks
        /\ audit'[t] = audit[t] \cup {Record(r)}
        /\ \A s \in Tasks \ {t} : audit'[s] = audit[s]
        /\ Record(r).event = requests[r].op /\ Record(r).user = requests[r].who
        /\ Record(r).after = requests[r].after
    BY <1>2, <2>1, CommitRecords
  <2>3. ASSUME NEW s \in Tasks, NEW c \in Events(s, "claim")'
        PROVE  Justified(s, c.user, c.after)
    <3>1. CASE c \in Events(s, "claim")
      BY <3>1 DEF ClaimedByAssignee, Justified
    <3>2. CASE c \notin Events(s, "claim")
      <4>1. s = t /\ c = Record(r) /\ requests[r].op = "claim"
        BY <2>2, <2>3, <3>2 DEF Events
      <4> QED
        BY <2>1, <2>2, <4>1 DEF ClaimIsJustified
    <3> QED
      BY <3>1, <3>2
  <2>4. ASSUME NEW s \in Tasks, NEW c \in Events(s, "claim")'
        PROVE  \E a \in Events(s, "assign")' : a.user = c.user /\ a.by \in c.after
    BY <2>3, <2>4, TrailGrows DEF Justified
  <2> QED
    BY <2>4 DEF ClaimedByAssignee
<1>3. QED
  BY <1>1, <1>2 DEF Step, CreateFinds, CreateReads, Insert, InsertClashes,
     Reads, Refused, Update, Commit, Fail

LEMMA TaskInvariant == Spec => []Inv
<1>1. Inv /\ [Next]_vars => Inv'
  <2>1. ASSUME Inv, Next PROVE Inv'
    BY <2>1, TypeStep, AssigneeStep, JustifiedStep, ClaimedStep DEF Next, Inv
  <2>2. ASSUME Inv, UNCHANGED vars PROVE Inv'
    BY <2>2 DEF Inv, vars, TypeOK, AssigneeHasRecord, ClaimIsJustified,
       ClaimedByAssignee, Assigned, Justified, Events
  <2>3. QED
    BY <2>1, <2>2
<1>2. QED
  BY InvInit, <1>1, PTL DEF Spec

(* Every variable keeps its type; no overlap of requests gives a task a    *)
(* status the table's CHECK constraint refuses.                            *)
THEOREM TaskTypeCorrect == Spec => []TypeOK
<1>1. Inv => TypeOK
  BY DEF Inv
<1>2. QED
  BY TaskInvariant, <1>1, PTL

(* Whoever claimed a task had been assigned to it by an assignment that was *)
(* committed when the claim read the task, for any number of requests,     *)
(* tasks and users and any overlap of their steps.                         *)
THEOREM OnlyAssigneesClaim == Spec => []ClaimedByAssignee
<1>1. Inv => ClaimedByAssignee
  BY DEF Inv
<1>2. QED
  BY TaskInvariant, <1>1, PTL

-----------------------------------------------------------------------------
(***************************************************************************)
(* One task per key, and the row agrees with the trail.  Both rest on who  *)
(* has a row open: a task being created is its creator's alone and has no  *)
(* trail yet, every other request works on a row that exists, and a key    *)
(* inserted but not committed is on no row and in no other transaction.    *)
(***************************************************************************)

IsActive(r) == requests[r] \in Actives
Creates(r) == IsActive(r) /\ requests[r].op = "create"

AbsentIsBlank ==
  \A t \in Tasks : tasks[t].status = "absent" => tasks[t].assignee = Nobody /\ audit[t] = {}

OthersWorkOnKnown ==
  \A r \in Requests :
    IsActive(r) /\ requests[r].op # "create" => tasks[requests[r].task].status # "absent"

CreatesAlone ==
  \A r \in Requests :
    Creates(r) => /\ tasks[requests[r].task].status = "absent"
                  /\ \A q \in Requests :
                       Creates(q) /\ requests[q].task = requests[r].task => q = r

InsertedKeyIsNew ==
  \A k \in Keys : \A r \in Inserting(k) :
    HasKey(k) = {} /\ \A q \in Inserting(k) : q = r

KeyIsUnique == \A k \in Keys : \A s, t \in HasKey(k) : s = t

(* An assignment begins on a task nobody has been assigned to. *)
FirstAssigns ==
  /\ \A t \in Tasks : Events(t, "assign") # {} => tasks[t].status \notin {"absent", "created"}
  /\ \A t \in Tasks : \A a \in Events(t, "assign") : a.after = {}
  /\ \A r \in Requests : IsActive(r) /\ requests[r].op = "assign" => requests[r].after = {}

(* The assignee is somebody the trail names. *)
RowNamed ==
  \A t \in Tasks :
    IF Events(t, "assign") = {} THEN tasks[t].assignee = Nobody ELSE Assigned(t, tasks[t].assignee)

RowInv == /\ AbsentIsBlank
          /\ OthersWorkOnKnown
          /\ CreatesAlone
          /\ InsertedKeyIsNew
          /\ KeyIsUnique
          /\ FirstAssigns
          /\ RowNamed

LEMMA RowInit == Init => RowInv
<1>0. SUFFICES ASSUME Init PROVE RowInv
  OBVIOUS
<1>1. \A t \in Tasks : /\ audit[t] = {} /\ tasks[t].assignee = Nobody
                       /\ tasks[t].key = NoKey
  BY <1>0 DEF Init, Row, NoTask, Created
<1>2. \A r \in Requests : requests[r] \notin Actives /\ ~ At(r, "commit")
  BY <1>0 DEF Init, Idle, Actives, At
<1>3. \A k \in Keys : HasKey(k) = {} /\ Inserting(k) = {}
  BY <1>1, <1>2, TaskAssumption DEF HasKey, Inserting
<1>4. QED
  BY <1>1, <1>2, <1>3
  DEF RowInv, AbsentIsBlank, OthersWorkOnKnown, CreatesAlone, InsertedKeyIsNew,
      KeyIsUnique, FirstAssigns, RowNamed, Events, IsActive, Creates

LEMMA PointMeansActive ==
  ASSUME TypeOK, NEW r \in Requests
  PROVE  requests[r].at \in {"write", "commit"} <=> IsActive(r)
BY DEF TypeOK, IsActive, Idle, Done, Actives

(* Steps that end a request without a commit. *)
LEMMA RowStepEnds ==
  ASSUME TypeOK, RowInv, NEW r \in Requests, UNCHANGED <<tasks, audit>>,
         requests' = [requests EXCEPT ![r] = Done]
  PROVE  RowInv'
<1>1. \A q \in Requests : IsActive(q)' => q # r /\ requests'[q] = requests[q]
  BY DEF TypeOK, IsActive, Done, Actives
<1>2. \A q \in Requests : At(q, "commit")' => q # r /\ requests'[q] = requests[q]
  BY DEF TypeOK, At, Done
<1>3. \A k \in Keys : HasKey(k)' = HasKey(k) /\ Inserting(k)' \subseteq Inserting(k)
  BY <1>2 DEF HasKey, Inserting, At
<1>4. OthersWorkOnKnown' /\ CreatesAlone'
  BY <1>1 DEF RowInv, OthersWorkOnKnown, CreatesAlone, Creates, IsActive
<1>5. InsertedKeyIsNew' /\ KeyIsUnique'
  BY <1>3 DEF RowInv, InsertedKeyIsNew, KeyIsUnique
<1>6. FirstAssigns'
  BY <1>1 DEF RowInv, FirstAssigns, Events, IsActive
<1>7. QED
  BY <1>4, <1>5, <1>6 DEF RowInv, AbsentIsBlank, RowNamed, Assigned, Events

(* Steps that read and check. *)
LEMMA RowStepReads ==
  ASSUME TypeOK, RowInv, NEW r \in Requests, CreateReads(r) \/ Reads(r)
  PROVE  RowInv'
<1>1. PICK op \in Ops, t \in Tasks, u \in Users \cup {Nobody}, k \in Keys \cup {NoKey},
           x \in SUBSET Requests :
        /\ Goes(r, Active("write", op, t, u, k, x))
        /\ op = "create" => Unused(t)
        /\ op # "create" => Known(t)
        /\ op = "assign" => tasks[t].status = "created" /\ x = Assigners(t)
  <2>1. CASE CreateReads(r)
    <3>1. "create" \in Ops
      BY DEF Ops
    <3>2. QED
      BY <2>1, <3>1 DEF CreateReads
  <2>2. CASE Reads(r)
    <3>1. PICK op \in Ops \ {"create"}, t \in Tasks, u \in Users :
            Known(t) /\ May(op, tasks[t], u) /\ Goes(r, Active("write", op, t, u, NoKey, Assigners(t)))
      BY <2>2 DEF Reads
    <3>2. op = "assign" => tasks[t].status = "created"
      BY <3>1 DEF May, MayAssign
    <3>3. Assigners(t) \in SUBSET Requests
      BY DEF Assigners, Events, TypeOK, Records
    <3> QED
      BY <3>1, <3>2, <3>3
  <2>3. QED
    BY <2>1, <2>2
<1>2. UNCHANGED <<tasks, audit, locked>> /\ At(r, "idle")
  BY DEF CreateReads, Reads
<1>3. /\ requests'[r] = Active("write", op, t, u, k, x)
      /\ \A q \in Requests \ {r} : requests'[q] = requests[q]
  BY <1>1 DEF Goes, TypeOK
<1>4. /\ requests'[r].op = op /\ requests'[r].task = t
      /\ requests'[r].at = "write" /\ requests'[r].after = x
  BY <1>3 DEF Active
<1>5. \A kk \in Keys : HasKey(kk)' = HasKey(kk) /\ Inserting(kk)' = Inserting(kk)
  BY <1>2, <1>3, <1>4 DEF HasKey, Inserting, At
<1>6. op = "create" =>
        /\ tasks[t].status = "absent"
        /\ \A q \in Requests : IsActive(q) => requests[q].task # t
  BY <1>1, PointMeansActive DEF Unused, Open, NoTask, Row
<1>7. OthersWorkOnKnown'
  BY <1>1, <1>2, <1>3, <1>4 DEF RowInv, OthersWorkOnKnown, IsActive, Known
<1>8. CreatesAlone'
  BY <1>2, <1>3, <1>4, <1>6 DEF RowInv, CreatesAlone, Creates, IsActive
<1>9. InsertedKeyIsNew' /\ KeyIsUnique'
  BY <1>5 DEF RowInv, InsertedKeyIsNew, KeyIsUnique
<1>10. FirstAssigns'
  <2>1. op = "assign" => x = {}
    <3>1. op = "assign" => Events(t, "assign") = {}
      BY <1>1 DEF RowInv, FirstAssigns
    <3> QED
      BY <1>1, <3>1 DEF Assigners
  <2> QED
    BY <1>2, <1>3, <1>4, <2>1 DEF RowInv, FirstAssigns, Events, IsActive
<1>11. QED
  BY <1>2, <1>7, <1>8, <1>9, <1>10 DEF RowInv, AbsentIsBlank, RowNamed, Assigned, Events

(* The flush of an INSERT or an UPDATE. *)
LEMMA RowStepFlushes ==
  ASSUME TypeOK, RowInv, NEW r \in Requests, Insert(r) \/ Update(r)
  PROVE  RowInv'
<1>1. /\ UNCHANGED <<tasks, audit>> /\ At(r, "write")
      /\ requests' = [requests EXCEPT ![r] = [requests[r] EXCEPT !.at = "commit"]]
      /\ requests[r].op = "create" => KeyFree(requests[r].key)
  BY DEF Insert, Update, Goes
<1>2. IsActive(r)
  BY <1>1, PointMeansActive DEF At
<1>3. /\ requests'[r].op = requests[r].op /\ requests'[r].task = requests[r].task
      /\ requests'[r].key = requests[r].key /\ requests'[r].at = "commit"
      /\ requests'[r].after = requests[r].after
      /\ \A q \in Requests \ {r} : requests'[q] = requests[q]
  BY <1>1, <1>2 DEF TypeOK, IsActive, Actives
<1>4. \A q \in Requests : IsActive(q)' => /\ IsActive(q)
                                          /\ requests'[q].op = requests[q].op
                                          /\ requests'[q].task = requests[q].task
                                          /\ requests'[q].after = requests[q].after
  BY <1>2, <1>3 DEF IsActive
<1>5. OthersWorkOnKnown' /\ CreatesAlone'
  BY <1>1, <1>4 DEF RowInv, OthersWorkOnKnown, CreatesAlone, Creates
<1>6. \A k \in Keys : HasKey(k)' = HasKey(k)
  BY <1>1 DEF HasKey
<1>7. \A k \in Keys :
        \/ Inserting(k)' = Inserting(k)
        \/ Inserting(k)' = {r} /\ HasKey(k) = {}
  <2>1. TAKE k \in Keys
  <2>2. CASE requests[r].op = "create" /\ requests[r].key = k
    <3>1. Inserting(k) = {} /\ HasKey(k) = {}
      BY <1>1, <2>2, TaskAssumption DEF KeyFree
    <3>2. QED
      BY <1>3, <2>2, <3>1 DEF Inserting, At
  <2>3. CASE ~ (requests[r].op = "create" /\ requests[r].key = k)
    BY <1>3, <2>3 DEF Inserting, At
  <2>4. QED
    BY <2>2, <2>3
<1>8. InsertedKeyIsNew' /\ KeyIsUnique'
  BY <1>6, <1>7 DEF RowInv, InsertedKeyIsNew, KeyIsUnique
<1>9. FirstAssigns'
  BY <1>1, <1>4 DEF RowInv, FirstAssigns, Events
<1>10. QED
  BY <1>1, <1>5, <1>8, <1>9 DEF RowInv, AbsentIsBlank, RowNamed, Assigned, Events

(* The commit of a create. *)
LEMMA RowStepCreates ==
  ASSUME TypeOK, RowInv, NEW r \in Requests, Commit(r), requests[r].op = "create"
  PROVE  RowInv'
<1> DEFINE t == requests[r].task
           k == requests[r].key
<1>1. At(r, "commit") /\ Creates(r) /\ t \in Tasks
  <2>1. At(r, "commit")
    BY DEF Commit
  <2>2. IsActive(r)
    BY <2>1, PointMeansActive DEF At
  <2>3. QED
    BY <2>1, <2>2 DEF Creates, IsActive, Actives
<1>2. /\ audit' = audit
      /\ tasks' = [tasks EXCEPT ![t] = Created(k)]
      /\ requests' = [requests EXCEPT ![r] = Done]
  BY DEF Commit, Goes
<1>3. /\ tasks'[t].status = "created" /\ tasks'[t].assignee = Nobody /\ tasks'[t].key = k
      /\ \A s \in Tasks \ {t} : tasks'[s] = tasks[s]
  BY <1>1, <1>2 DEF TypeOK, Created, Row
<1>4. tasks[t].status = "absent" /\ audit[t] = {}
  BY <1>1 DEF RowInv, CreatesAlone, AbsentIsBlank
<1>5. \A q \in Requests : IsActive(q)' => q # r /\ requests'[q] = requests[q] /\ IsActive(q)
  BY <1>2 DEF TypeOK, IsActive, Done, Actives
<1>6. AbsentIsBlank'
  BY <1>2, <1>3 DEF RowInv, AbsentIsBlank
<1>7. OthersWorkOnKnown'
  <2>1. SUFFICES ASSUME NEW q \in Requests, IsActive(q)', requests'[q].op # "create"
                 PROVE  tasks'[requests'[q].task].status # "absent"
    BY DEF OthersWorkOnKnown
  <2>2. /\ IsActive(q) /\ requests'[q] = requests[q]
        /\ requests[q].task \in Tasks /\ tasks[requests[q].task].status # "absent"
    BY <1>5, <2>1 DEF RowInv, OthersWorkOnKnown, IsActive, Actives
  <2>3. QED
    BY <1>3, <2>2
<1>8. CreatesAlone'
  <2>1. SUFFICES ASSUME NEW q \in Requests, Creates(q)'
                 PROVE  /\ tasks'[requests'[q].task].status = "absent"
                        /\ \A p \in Requests :
                             Creates(p)' /\ requests'[p].task = requests'[q].task => p = q
    BY DEF CreatesAlone
  <2>2. q # r /\ requests'[q] = requests[q] /\ Creates(q) /\ requests[q].task \in Tasks
    BY <1>5, <2>1 DEF Creates, IsActive, Actives
  <2>3. requests[q].task # t
    BY <1>1, <2>2 DEF RowInv, CreatesAlone
  <2>4. tasks'[requests'[q].task].status = "absent"
    BY <1>3, <2>2, <2>3 DEF RowInv, CreatesAlone
  <2>5. QED
    BY <1>5, <2>2, <2>4 DEF RowInv, CreatesAlone, Creates
<1>9. \A j \in Keys : /\ Inserting(j)' \subseteq Inserting(j) \ {r}
                      /\ HasKey(j)' = IF j = k THEN HasKey(j) \cup {t} ELSE HasKey(j)
  <2>1. TAKE j \in Keys
  <2>2. Inserting(j)' \subseteq Inserting(j) \ {r}
    BY <1>2 DEF TypeOK, Inserting, At, Done
  <2>3. HasKey(j)' = IF j = k THEN HasKey(j) \cup {t} ELSE HasKey(j)
    BY <1>1, <1>3, <1>4 DEF HasKey
  <2>4. QED
    BY <2>2, <2>3
<1>10. k \in Keys => r \in Inserting(k) /\ HasKey(k) = {}
  BY <1>1 DEF RowInv, InsertedKeyIsNew, Inserting
<1>11. InsertedKeyIsNew'
  BY <1>9, <1>10 DEF RowInv, InsertedKeyIsNew
<1>12. KeyIsUnique'
  BY <1>9, <1>10 DEF RowInv, KeyIsUnique
<1>13. RowNamed' /\ FirstAssigns'
  <2>1. Events(t, "assign") = {}
    BY <1>4 DEF Events
  <2>2. RowNamed'
    BY <1>2, <1>3, <2>1 DEF RowInv, RowNamed, Assigned, Events
  <2>3. QED
    BY <1>2, <1>3, <1>5, <2>1, <2>2 DEF RowInv, FirstAssigns, Events
<1>14. QED
  BY <1>6, <1>7, <1>8, <1>11, <1>12, <1>13 DEF RowInv

(* The commit of an assignment, a claim or a cancellation. *)
LEMMA RowStepWrites ==
  ASSUME TypeOK, RowInv, NEW r \in Requests, Commit(r), requests[r].op # "create"
  PROVE  RowInv'
<1> DEFINE t == requests[r].task
<1>1. /\ requests[r] \in Actives /\ t \in Tasks
      /\ audit'[t] = audit[t] \cup {Record(r)}
      /\ \A s \in Tasks \ {t} : audit'[s] = audit[s]
      /\ Record(r).event = requests[r].op /\ Record(r).user = requests[r].who
      /\ Record(r).after = requests[r].after
  BY CommitRecords
<1>2. /\ tasks' = [tasks EXCEPT ![t] = Written(@, requests[r].op, requests[r].who)]
      /\ requests' = [requests EXCEPT ![r] = Done]
  BY DEF Commit, Goes
<1>3. /\ tasks'[t].status \notin {"absent", "created"} /\ tasks'[t].key = tasks[t].key
      /\ tasks'[t].assignee = IF requests[r].op = "assign" THEN requests[r].who
                              ELSE tasks[t].assignee
      /\ \A s \in Tasks \ {t} : tasks'[s] = tasks[s]
  <2>1. requests[r].op \in {"assign", "claim", "cancel"} /\ tasks[t] \in Rows
    BY <1>1 DEF Actives, Ops, TypeOK
  <2>2. StatusAfter[requests[r].op] \notin {"absent", "created"}
    BY <2>1 DEF StatusAfter
  <2>3. tasks'[t] = Written(tasks[t], requests[r].op, requests[r].who)
    BY <1>1, <1>2 DEF TypeOK
  <2>4. \A s \in Tasks \ {t} : tasks'[s] = tasks[s]
    BY <1>2 DEF TypeOK
  <2>5. QED
    BY <2>1, <2>2, <2>3, <2>4 DEF Written, Rows
<1>4. tasks[t].status # "absent"
  BY <1>1 DEF RowInv, OthersWorkOnKnown, IsActive
<1>5. \A q \in Requests : IsActive(q)' => q # r /\ requests'[q] = requests[q] /\ IsActive(q)
  BY <1>2 DEF TypeOK, IsActive, Done, Actives
<1>6. \A s \in Tasks : tasks'[s].status = "absent" <=> tasks[s].status = "absent"
  BY <1>3, <1>4
<1>7. AbsentIsBlank'
  BY <1>1, <1>3 DEF RowInv, AbsentIsBlank
<1>8. OthersWorkOnKnown' /\ CreatesAlone'
  BY <1>5, <1>6 DEF RowInv, OthersWorkOnKnown, CreatesAlone, Creates, IsActive, Actives
<1>9. \A j \in Keys : HasKey(j)' = HasKey(j) /\ Inserting(j)' \subseteq Inserting(j)
  <2>1. TAKE j \in Keys
  <2>2. \A s \in Tasks : tasks'[s].key = tasks[s].key
    BY <1>3
  <2>3. HasKey(j)' = HasKey(j)
    BY <1>6, <2>2 DEF HasKey
  <2>4. Inserting(j)' \subseteq Inserting(j)
    BY <1>2 DEF TypeOK, Inserting, At, Done
  <2>5. QED
    BY <2>3, <2>4
<1>10. InsertedKeyIsNew' /\ KeyIsUnique'
  BY <1>9 DEF RowInv, InsertedKeyIsNew, KeyIsUnique
<1>11. ASSUME NEW s \in Tasks
       PROVE  Events(s, "assign")' = IF s = t /\ requests[r].op = "assign"
                                     THEN Events(s, "assign") \cup {Record(r)}
                                     ELSE Events(s, "assign")
  BY <1>1 DEF Events
<1>12. RowNamed'
  <2>1. ASSUME NEW s \in Tasks
        PROVE  IF Events(s, "assign")' = {} THEN tasks'[s].assignee = Nobody
               ELSE \E a \in Events(s, "assign")' : a.user = tasks'[s].assignee
    <3>1. CASE s = t /\ requests[r].op = "assign"
      BY <1>1, <1>3, <1>11, <3>1
    <3>2. CASE ~ (s = t /\ requests[r].op = "assign")
      <4>1. Events(s, "assign")' = Events(s, "assign") /\ tasks'[s].assignee = tasks[s].assignee
        BY <1>3, <1>11, <3>2
      <4> QED
        BY <4>1 DEF RowInv, RowNamed, Assigned
    <3> QED
      BY <3>1, <3>2
  <2> QED
    BY <2>1 DEF RowNamed, Assigned
<1>13. FirstAssigns'
  <2>1. requests[r].op = "assign" => Record(r).after = {}
    BY <1>1 DEF RowInv, FirstAssigns, IsActive
  <2>2. ASSUME NEW s \in Tasks
        PROVE  /\ Events(s, "assign")' # {} => tasks'[s].status \notin {"absent", "created"}
               /\ \A a \in Events(s, "assign")' : a.after = {}
    BY <1>3, <1>11, <2>1 DEF RowInv, FirstAssigns
  <2>3. \A q \in Requests : IsActive(q)' /\ requests'[q].op = "assign" => requests'[q].after = {}
    BY <1>5 DEF RowInv, FirstAssigns
  <2> QED
    BY <2>2, <2>3 DEF FirstAssigns
<1>14. QED
  BY <1>7, <1>8, <1>10, <1>12, <1>13 DEF RowInv

LEMMA RowInvariant == Spec => []RowInv
<1>1. TypeOK /\ RowInv /\ [Next]_vars => RowInv'
  <2>1. ASSUME TypeOK, RowInv, NEW r \in Requests, Step(r) PROVE RowInv'
    <3>1. CASE CreateFinds(r) \/ InsertClashes(r) \/ Refused(r) \/ Fail(r)
      BY <2>1, <3>1, RowStepEnds DEF CreateFinds, InsertClashes, Refused, Fail, Goes
    <3>2. QED
      BY <2>1, <3>1, RowStepReads, RowStepFlushes, RowStepCreates, RowStepWrites DEF Step
  <2>2. ASSUME RowInv, UNCHANGED vars PROVE RowInv'
    BY <2>2 DEF vars, RowInv, AbsentIsBlank, OthersWorkOnKnown, CreatesAlone, InsertedKeyIsNew,
       KeyIsUnique, FirstAssigns, RowNamed, Assigned, Events, IsActive, Creates, HasKey, Inserting, At
  <2>3. QED
    BY <2>1, <2>2 DEF Next
<1>2. QED
  BY RowInit, <1>1, TaskTypeCorrect, PTL DEF Spec

(* A retried or doubled create makes one task, for any number of requests. *)
THEOREM CreateIsIdempotent == Spec => []OneTaskPerKey
<1>1. RowInv => OneTaskPerKey
  <2>1. SUFFICES ASSUME RowInv, NEW k \in Keys PROVE Cardinality(HasKey(k)) <= 1
    BY DEF OneTaskPerKey
  <2>2. CASE HasKey(k) = {}
    BY <2>2, FS_EmptySet
  <2>3. CASE HasKey(k) # {}
    <3>1. PICK t : HasKey(k) = {t}
      BY <2>1, <2>3 DEF RowInv, KeyIsUnique
    <3>2. QED
      BY <3>1, FS_Singleton
  <2>4. QED
    BY <2>2, <2>3
<1>2. QED
  BY RowInvariant, <1>1, PTL

(* Row and trail agree on who has the task, under every overlap: the       *)
(* assignee is a user the trail names, and the trail names several only if *)
(* all of those assignments had read the task before any was committed.    *)
THEOREM RowAgreesWithTrail == Spec => []AssigneeIsInTrail
<1>1. RowInv => AssigneeIsInTrail
  BY DEF RowInv, RowNamed, Assigned, FirstAssigns, AssigneeIsInTrail
<1>2. QED
  BY RowInvariant, <1>1, PTL

-----------------------------------------------------------------------------
(***************************************************************************)
(* One request at a time, the service obeys the aggregate's state machine: *)
(* what a request has read is still so when it commits.                    *)
(***************************************************************************)

Fresh(r) ==
  IF requests[r].op = "create"
  THEN tasks[requests[r].task] = NoTask
  ELSE /\ requests[r].who \in Users
       /\ Known(requests[r].task)
       /\ May(requests[r].op, tasks[requests[r].task], requests[r].who)

OneActive == \A q, r \in Requests : IsActive(q) /\ IsActive(r) => q = r

SerialInv == OneActive /\ \A r \in Requests : IsActive(r) => Fresh(r)

AloneStep == \E r \in Requests : Alone(r) /\ Step(r)

LEMMA SerialInit == Init => SerialInv
BY DEF Init, SerialInv, OneActive, IsActive, Idle, Actives

LEMMA SerialStep == TypeOK /\ SerialInv /\ [AloneStep]_vars => SerialInv'
<1>0. SUFFICES ASSUME TypeOK, SerialInv, [AloneStep]_vars PROVE SerialInv'
  OBVIOUS
<1>1. CASE UNCHANGED vars
  BY <1>0, <1>1 DEF vars, SerialInv, OneActive, IsActive, Fresh, Known
<1>2. ASSUME NEW r \in Requests, Alone(r), Step(r) PROVE SerialInv'
  <2>1. \A q \in Requests \ {r} : ~ IsActive(q) /\ requests'[q] = requests[q]
    <3>1. \A q \in Requests \ {r} : ~ IsActive(q)
      BY <1>2 DEF Alone, IsActive, Actives
    <3>2. \A q \in Requests \ {r} : requests'[q] = requests[q]
      BY <1>0, <1>2 DEF Step, CreateFinds, CreateReads, Insert, InsertClashes, Reads, Refused,
         Update, Commit, Fail, Goes, TypeOK
    <3>3. QED
      BY <3>1, <3>2
  <2>2. SUFFICES ASSUME IsActive(r)' PROVE Fresh(r)'
    BY <2>1 DEF SerialInv, OneActive, IsActive
  <2>3. requests'[r] # Done
    BY <2>2 DEF IsActive, Done, Actives
  <2>4. CreateReads(r) \/ Reads(r) \/ Insert(r) \/ Update(r)
    BY <1>0, <1>2, <2>3 DEF Step, CreateFinds, InsertClashes, Refused, Commit, Fail, Goes, TypeOK
  <2>5. CASE CreateReads(r)
    <3>1. PICK t \in Tasks, k \in Keys \cup {NoKey} :
            Unused(t) /\ Goes(r, Active("write", "create", t, Nobody, k, {}))
      BY <2>5 DEF CreateReads
    <3>2. requests'[r].op = "create" /\ requests'[r].task = t
      BY <1>0, <3>1 DEF Goes, Active, TypeOK
    <3>3. QED
      BY <2>5, <3>1, <3>2 DEF CreateReads, Fresh, Unused, NoTask, Row
  <2>6. CASE Reads(r)
    <3>1. PICK op \in Ops \ {"create"}, t \in Tasks, u \in Users :
            /\ Known(t) /\ May(op, tasks[t], u)
            /\ Goes(r, Active("write", op, t, u, NoKey, Assigners(t)))
      BY <2>6 DEF Reads
    <3>2. requests'[r].op = op /\ requests'[r].task = t /\ requests'[r].who = u
      BY <1>0, <3>1 DEF Goes, Active, TypeOK
    <3>3. tasks' = tasks
      BY <2>6 DEF Reads
    <3>4. QED
      BY <3>1, <3>2, <3>3 DEF Fresh, Known
  <2>7. CASE Insert(r) \/ Update(r)
    <3>1. /\ At(r, "write") /\ tasks' = tasks
          /\ requests' = [requests EXCEPT ![r] = [requests[r] EXCEPT !.at = "commit"]]
      BY <2>7 DEF Insert, Update, Goes
    <3>2. IsActive(r)
      BY <1>0, <3>1, PointMeansActive DEF At
    <3>3. /\ requests'[r].op = requests[r].op /\ requests'[r].task = requests[r].task
          /\ requests'[r].who = requests[r].who
      BY <1>0, <3>1, <3>2 DEF TypeOK, IsActive, Actives
    <3>4. QED
      BY <1>0, <3>1, <3>2, <3>3 DEF SerialInv, Fresh, Known
  <2>8. QED
    BY <2>4, <2>5, <2>6, <2>7
<1>3. QED
  BY <1>0, <1>1, <1>2 DEF AloneStep

(* A commit is one method of the aggregate; no other step changes a task. *)
LEMMA LifecycleStep ==
  TypeOK /\ SerialInv /\ [AloneStep]_vars => [Lifecycle!LifecycleNext]_Lifecycle!lifecycleVars
<1>0. SUFFICES ASSUME TypeOK, SerialInv, [AloneStep]_vars
               PROVE  Lifecycle!LifecycleNext \/ UNCHANGED Lifecycle!lifecycleVars
  OBVIOUS
<1>1. CASE tasks' = tasks
  BY <1>1 DEF Lifecycle!lifecycleVars
<1>2. ASSUME NEW r \in Requests, Commit(r) PROVE Lifecycle!LifecycleNext
  <2>0. requests[r] \in Actives
    BY <1>0, <1>2, PointMeansActive DEF Commit, At, IsActive
  <2>1. PICK t \in Tasks, u \in Users \cup {Nobody} : t = requests[r].task /\ u = requests[r].who /\ tasks[t] \in Rows
    BY <1>0, <2>0 DEF Actives, TypeOK
  <2> DEFINE status == [s \in Tasks |-> tasks[s].status]
             assignee == [s \in Tasks |-> tasks[s].assignee]
  <2>2. Fresh(r)
    BY <1>0, <2>0 DEF SerialInv, IsActive
  <2>3. CASE requests[r].op = "create"
    <3>1. tasks' = [tasks EXCEPT ![t] = Created(requests[r].key)] /\ tasks[t] = NoTask
      BY <1>2, <2>1, <2>2, <2>3 DEF Commit, Fresh
    <3>2. status[t] = "absent" /\ assignee[t] = Nobody
      BY <2>1, <3>1 DEF NoTask, Row
    <3>3. /\ status' = [status EXCEPT ![t] = "created"]
          /\ assignee' = [assignee EXCEPT ![t] = Nobody]
      BY <1>0, <2>1, <3>1 DEF TypeOK, Created, Row
    <3>4. assignee' = assignee
      BY <2>1, <3>2, <3>3
    <3>5. Lifecycle!Create(t)
      BY <3>2, <3>3, <3>4 DEF Lifecycle!Create, Lifecycle!Moves
    <3>6. QED
      BY <2>1, <3>5 DEF Lifecycle!LifecycleNext
  <2>4. CASE requests[r].op # "create"
    <3>1. /\ tasks' = [tasks EXCEPT ![t] = Written(@, requests[r].op, u)]
          /\ u \in Users /\ Known(t) /\ May(requests[r].op, tasks[t], u)
      BY <1>2, <2>1, <2>2, <2>4 DEF Commit, Fresh
    <3>2. requests[r].op \in {"assign", "claim", "cancel"}
      BY <2>0, <2>4 DEF Actives, Ops
    <3>3. /\ Written(tasks[t], requests[r].op, u).status = StatusAfter[requests[r].op]
          /\ Written(tasks[t], requests[r].op, u).assignee
               = IF requests[r].op = "assign" THEN u ELSE tasks[t].assignee
      BY <2>1 DEF Written, Rows
    <3>4. /\ status' = [status EXCEPT ![t] = StatusAfter[requests[r].op]]
          /\ assignee' = [assignee EXCEPT ![t] = IF requests[r].op = "assign" THEN u ELSE assignee[t]]
      BY <1>0, <2>1, <3>1, <3>3 DEF TypeOK
    <3>5. CASE requests[r].op = "assign"
      <4>1. status[t] = "created" /\ StatusAfter["assign"] = "assigned"
        BY <2>1, <3>1, <3>5 DEF May, MayAssign, StatusAfter
      <4>2. Lifecycle!AssignTo(t, u)
        BY <3>4, <3>5, <4>1 DEF Lifecycle!AssignTo, Lifecycle!Moves
      <4>3. QED
        BY <2>1, <3>1, <4>2 DEF Lifecycle!LifecycleNext
    <3>6. CASE requests[r].op = "claim"
      <4>1. status[t] = "assigned" /\ assignee[t] = u /\ StatusAfter["claim"] = "in_progress"
        BY <2>1, <3>1, <3>6 DEF May, MayClaim, StatusAfter
      <4>2. assignee' = assignee
        BY <2>1, <3>4, <3>6
      <4>3. Lifecycle!Claim(t, u)
        BY <3>4, <3>6, <4>1, <4>2 DEF Lifecycle!Claim, Lifecycle!Moves
      <4>4. QED
        BY <2>1, <3>1, <4>3 DEF Lifecycle!LifecycleNext
    <3>7. CASE requests[r].op = "cancel"
      <4>1. /\ status[t] \in {"created", "assigned", "in_progress"}
            /\ StatusAfter["cancel"] = "cancelled"
        BY <2>1, <3>1, <3>7 DEF May, MayCancel, Known, Rows, StatusAfter
      <4>2. assignee' = assignee
        BY <2>1, <3>4, <3>7
      <4>3. Lifecycle!Cancel(t)
        BY <3>4, <3>7, <4>1, <4>2 DEF Lifecycle!Cancel, Lifecycle!Moves
      <4>4. QED
        BY <2>1, <4>3 DEF Lifecycle!LifecycleNext
    <3>8. QED
      BY <3>2, <3>5, <3>6, <3>7
  <2>5. QED
    BY <2>3, <2>4
<1>3. QED
  BY <1>0, <1>1, <1>2 DEF AloneStep, vars, Step, CreateFinds, CreateReads, Insert, InsertClashes,
     Reads, Refused, Update, Fail

(* The service, one request at a time, implements the state machine of the *)
(* task aggregate.                                                         *)
THEOREM SerialObeysLifecycle == SerialSpec => ObeysLifecycle
<1>1. Init => Lifecycle!LifecycleInit
  BY DEF Init, Lifecycle!LifecycleInit, NoTask, Created, Row
<1>2. TypeOK /\ [AloneStep]_vars => TypeOK'
  <2>1. ASSUME TypeOK, AloneStep PROVE TypeOK'
    BY <2>1, TypeStep DEF AloneStep
  <2>2. ASSUME TypeOK, UNCHANGED vars PROVE TypeOK'
    BY <2>2 DEF vars, TypeOK
  <2>3. QED
    BY <2>1, <2>2
<1>3. Init => TypeOK
  BY InvInit DEF Inv
<1>4. SerialSpec => Init /\ [][AloneStep]_vars
  BY DEF SerialSpec, AloneStep
<1>5. QED
  BY <1>1, <1>2, <1>3, <1>4, SerialInit, SerialStep, LifecycleStep, PTL
  DEF ObeysLifecycle, Lifecycle!LifecycleSpec
=============================================================================
