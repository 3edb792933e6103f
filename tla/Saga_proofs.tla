---------------------------- MODULE Saga_proofs ----------------------------
(***************************************************************************)
(* The platform's consistency package: the safety of Saga for a saga of    *)
(* any length and any set of registered handlers and compensations, and    *)
(* the outbox's "at least once" for any events, batches and number of      *)
(* dispatchers.  The four safety properties of the saga are not inductive: *)
(* At... say what the loop index, the aggregate and the record mean at     *)
(* each await of execute and _compensate.                                  *)
(***************************************************************************)
EXTENDS Saga, Outbox, TLAPS

(* The properties, as one. *)
Safe == /\ CompensatedMeansUndone
        /\ UndoneInReverse
        /\ RecordedBeforeUndone
        /\ RecordNeverAhead

NothingUndone == undone = {} /\ torn = {}

AtBegin == pc = "begin" =>
  /\ NothingUndone
  /\ i = 1 /\ done = {}
  /\ saga = [status |-> "RUNNING", current |-> 0]
  /\ stored = None

AtStep == pc = "step" =>
  /\ NothingUndone
  /\ i = saga.current + 1 /\ done = 1..saga.current
  /\ saga.status \in {"RUNNING", "COMPLETED"}
  /\ saga.status = "COMPLETED" => saga.current = N
  /\ stored = saga

AtSaveStep == pc = "saveStep" =>
  /\ NothingUndone
  /\ i = saga.current /\ done = 1..saga.current
  /\ saga.status \in {"RUNNING", "COMPLETED"}
  /\ saga.status = "COMPLETED" => saga.current = N
  /\ stored.status = "RUNNING" /\ stored.current = saga.current - 1

AtSaveUnregistered == pc = "saveUnregistered" =>
  /\ NothingUndone
  /\ done = 1..saga.current
  /\ saga.status = "MANUAL_INTERVENTION"

(* A torn step is the one after the last finished step. *)
Counted == /\ done = (1..saga.current) \cup torn
           /\ torn \subseteq {saga.current + 1}

AtSaveFailure == pc = "saveFailure" =>
  /\ Counted /\ undone = {}
  /\ saga.status = "COMPENSATING"

AtUndo == pc = "undo" =>
  /\ Counted
  /\ stored = saga /\ saga.status = "COMPENSATING"
  /\ i <= saga.current
  /\ undone = ((i + 1)..saga.current) \cap undoers

AtSaveOutcome == pc = "saveOutcome" =>
  /\ saga.status \in {"COMPENSATED", "MANUAL_INTERVENTION"}
  /\ saga.status = "COMPENSATED" => Left \subseteq torn \cap {saga.current + 1}
  /\ 1..saga.current \subseteq done

Inv == /\ TypeOK /\ Safe
       /\ AtBegin /\ AtStep /\ AtSaveStep /\ AtSaveUnregistered
       /\ AtSaveFailure /\ AtUndo /\ AtSaveOutcome

USE DEF Steps, Points, Ended, Sagas, Statuses, None, registered, effects

LEMMA InvInit == Init => Inv
  BY SagaAssumption
  DEF Init, Inv, TypeOK, Safe, CompensatedMeansUndone, UndoneInReverse,
      RecordedBeforeUndone, RecordNeverAhead, Left, NothingUndone, AtBegin,
      AtStep, AtSaveStep, AtSaveUnregistered, AtSaveFailure, AtUndo,
      AtSaveOutcome

LEMMA TypeStep == Inv /\ [Next]_vars => TypeOK'
<1>0. SUFFICES ASSUME Inv, [Next]_vars PROVE TypeOK'
  OBVIOUS
<1> USE SagaAssumption DEF TypeOK
<1>1. TypeOK
  BY <1>0 DEF Inv
<1>2. CASE Begin
  BY <1>1, <1>2 DEF Begin, Saves, SaveRaises
<1>3. CASE AllDone \/ Unregistered \/ SaveUnregistered
  BY <1>1, <1>3 DEF AllDone, Unregistered, SaveUnregistered, Saves, SaveRaises,
     RequireManualIntervention
<1>4. CASE StepSucceeds
  <2>1. i = saga.current + 1 /\ i \in 1..N
    BY <1>0, <1>1, <1>4 DEF Inv, AtStep, StepSucceeds
  <2>2. saga' \in Sagas
    BY <1>1, <1>4, <2>1 DEF StepSucceeds, AdvanceStep
  <2>3. QED
    BY <1>1, <1>4, <2>1, <2>2 DEF StepSucceeds
<1>5. CASE StepFails
  BY <1>1, <1>5 DEF StepFails, StartCompensation
<1>6. CASE SaveStep
  BY <1>0, <1>1, <1>6 DEF SaveStep, Saves, Inv, AtSaveStep
<1>7. CASE SaveStepFails
  BY <1>1, <1>7 DEF SaveStepFails, SaveRaises, StartCompensation
<1>8. CASE SaveFailure
  BY <1>1, <1>8 DEF SaveFailure, Saves, SaveRaises
<1>9. CASE UndoSucceeds \/ UndoSkipped \/ UndoFails
  BY <1>1, <1>9 DEF UndoSucceeds, UndoSkipped, UndoFails, RequireManualIntervention
<1>10. CASE AllUndone \/ SaveOutcome
  BY <1>1, <1>10 DEF AllUndone, SaveOutcome, Saves, SaveRaises, CompleteCompensation
<1>11. CASE Stop
  BY <1>1, <1>11 DEF Stop
<1>12. CASE UNCHANGED vars
  BY <1>1, <1>12 DEF vars
<1>13. QED
  BY <1>0, <1>2, <1>3, <1>4, <1>5, <1>6, <1>7, <1>8, <1>9, <1>10, <1>11, <1>12
  DEF Next, Execute, Forward, Backward

LEMMA SafeStep == Inv /\ [Next]_vars => Safe'
<1>0. SUFFICES ASSUME Inv, [Next]_vars PROVE Safe'
  OBVIOUS
<1> USE SagaAssumption DEF Safe, CompensatedMeansUndone, UndoneInReverse,
       RecordedBeforeUndone, RecordNeverAhead, Left, TypeOK, NothingUndone,
       RequireManualIntervention, CompleteCompensation
<1>1. TypeOK /\ Safe
  BY <1>0 DEF Inv
<1>2. CASE Begin
  BY <1>0, <1>1, <1>2 DEF Begin, Saves, SaveRaises, Inv, AtBegin
<1>3. CASE AllDone
  BY <1>1, <1>3 DEF AllDone
<1>4. CASE Unregistered
  BY <1>1, <1>4 DEF Unregistered
<1>5. CASE SaveUnregistered
  BY <1>0, <1>1, <1>5 DEF SaveUnregistered, Saves, SaveRaises, Inv, AtSaveUnregistered
<1>6. CASE StepSucceeds
  BY <1>0, <1>1, <1>6 DEF StepSucceeds, Inv, AtStep
<1>7. CASE StepFails
  BY <1>0, <1>1, <1>7 DEF StepFails, Inv, AtStep
<1>8. CASE SaveStep
  BY <1>0, <1>1, <1>8 DEF SaveStep, Saves, Inv, AtSaveStep
<1>9. CASE SaveStepFails
  BY <1>0, <1>1, <1>9 DEF SaveStepFails, SaveRaises, Inv, AtSaveStep
<1>10. CASE SaveFailure
  BY <1>0, <1>1, <1>10 DEF SaveFailure, Saves, SaveRaises, Inv, AtSaveFailure, Counted
<1>11. CASE UndoSucceeds
  BY <1>0, <1>1, <1>11 DEF UndoSucceeds, Inv, AtUndo, Counted
<1>12. CASE UndoSkipped
  BY <1>1, <1>12 DEF UndoSkipped
<1>13. CASE UndoFails
  BY <1>0, <1>1, <1>13 DEF UndoFails, Inv, AtUndo, Counted
<1>14. CASE AllUndone
  BY <1>1, <1>14 DEF AllUndone
<1>15. CASE SaveOutcome
  BY <1>0, <1>1, <1>15 DEF SaveOutcome, Saves, SaveRaises, Inv, AtSaveOutcome
<1>16. CASE Stop
  BY <1>1, <1>16 DEF Stop
<1>17. CASE UNCHANGED vars
  BY <1>1, <1>17 DEF vars
<1>18. QED
  BY <1>0, <1>2, <1>3, <1>4, <1>5, <1>6, <1>7, <1>8, <1>9, <1>10, <1>11, <1>12,
     <1>13, <1>14, <1>15, <1>16, <1>17
  DEF Next, Execute, Forward, Backward

LEMMA PointStep == Inv /\ [Next]_vars =>
                     (/\ AtBegin /\ AtStep /\ AtSaveStep /\ AtSaveUnregistered
                      /\ AtSaveFailure /\ AtUndo /\ AtSaveOutcome)'
<1>0. SUFFICES ASSUME Inv, [Next]_vars
               PROVE  (/\ AtBegin /\ AtStep /\ AtSaveStep /\ AtSaveUnregistered
                       /\ AtSaveFailure /\ AtUndo /\ AtSaveOutcome)'
  OBVIOUS
<1> USE SagaAssumption
    DEF AtBegin, AtStep, AtSaveStep, AtSaveUnregistered, AtSaveFailure, AtUndo,
        AtSaveOutcome, NothingUndone, Counted, TypeOK
<1>1. TypeOK
  BY <1>0 DEF Inv
<1>2. CASE Begin
  <2>1. CASE Saves("begin", "step")
    <3>1. 1..0 = {} /\ 0 + 1 = 1
      OBVIOUS
    <3>2. UNCHANGED <<i, saga, done, undone, torn>>
      BY <1>2 DEF Begin
    <3>3. stored' = saga' /\ pc' = "step"
      BY <2>1, <3>2 DEF Saves
    <3>4. saga'.current = 0 /\ saga'.status = "RUNNING" /\ i' = 1 /\ done' = {}
          /\ undone' = {} /\ torn' = {}
      BY <1>0, <2>1, <3>2 DEF Inv, Saves
    <3>5. AtStep'
      BY <3>1, <3>3, <3>4
    <3>6. QED
      BY <3>3, <3>5
  <2>2. CASE SaveRaises("begin", "raised")
    BY <2>2 DEF SaveRaises
  <2>3. QED
    BY <1>2, <2>1, <2>2 DEF Begin
<1>3. CASE AllDone
  BY <1>3 DEF AllDone
<1>4. CASE Unregistered
  BY <1>0, <1>1, <1>4 DEF Unregistered, RequireManualIntervention, Inv
<1>5. CASE SaveUnregistered
  BY <1>5 DEF SaveUnregistered, Saves, SaveRaises
<1>6. CASE StepSucceeds
  BY <1>0, <1>1, <1>6 DEF StepSucceeds, AdvanceStep, Inv
<1>7. CASE StepFails
  BY <1>0, <1>1, <1>7 DEF StepFails, StartCompensation, Inv
<1>8. CASE SaveStep
  BY <1>0, <1>1, <1>8 DEF SaveStep, Saves, Inv
<1>9. CASE SaveStepFails
  BY <1>0, <1>1, <1>9 DEF SaveStepFails, SaveRaises, StartCompensation, Inv
<1>10. CASE SaveFailure
  <2>1. CASE Saves("saveFailure", "undo") /\ i' = saga.current
    <3>1. saga.current \in Nat /\ (saga.current + 1)..saga.current = {}
      BY <1>1
    <3>2. UNCHANGED <<undoers, saga, done, undone, torn>>
      BY <1>10 DEF SaveFailure
    <3>3. stored' = saga' /\ pc' = "undo"
      BY <2>1, <3>2 DEF Saves
    <3>4. Counted' /\ undone' = {} /\ saga'.status = "COMPENSATING"
      BY <1>0, <2>1, <3>2 DEF Inv, Saves
    <3>5. i' <= saga'.current /\ ((i' + 1)..saga'.current) \cap undoers' = {}
      BY <2>1, <3>1, <3>2
    <3>6. AtUndo'
      BY <3>3, <3>4, <3>5
    <3>7. QED
      BY <3>3, <3>6
  <2>2. CASE SaveRaises("saveFailure", "raised")
    BY <2>2 DEF SaveRaises
  <2>3. QED
    BY <1>10, <2>1, <2>2 DEF SaveFailure
<1>11. CASE UndoSucceeds
  BY <1>0, <1>1, <1>11 DEF UndoSucceeds, Inv
<1>12. CASE UndoSkipped
  BY <1>0, <1>1, <1>12 DEF UndoSkipped, Inv
<1>13. CASE UndoFails
  BY <1>0, <1>1, <1>13 DEF UndoFails, RequireManualIntervention, Inv, Left
<1>14. CASE AllUndone
  BY <1>0, <1>1, <1>14 DEF AllUndone, CompleteCompensation, Inv, Left
<1>15. CASE SaveOutcome
  BY <1>15 DEF SaveOutcome, Saves, SaveRaises
<1>16. CASE Stop
  BY <1>16 DEF Stop
<1>17. CASE UNCHANGED vars
  BY <1>0, <1>17 DEF vars, Inv, Left
<1>18. QED
  BY <1>0, <1>2, <1>3, <1>4, <1>5, <1>6, <1>7, <1>8, <1>9, <1>10, <1>11, <1>12,
     <1>13, <1>14, <1>15, <1>16, <1>17
  DEF Next, Execute, Forward, Backward

LEMMA SagaInvariant == Spec => []Inv
<1>1. Inv /\ [Next]_vars => Inv'
  BY TypeStep, SafeStep, PointStep DEF Inv
<1>2. QED
  BY InvInit, <1>1, PTL DEF Spec

(* Every variable keeps its type: the loop index stays within the steps and *)
(* current_step never exceeds their number.                                 *)
THEOREM SagaTypeCorrect == Spec => []TypeOK
<1>1. Inv => TypeOK
  BY DEF Inv
<1>2. QED
  BY SagaInvariant, <1>1, PTL

(* A saga recorded as COMPENSATED has taken back every effect that has a   *)
(* compensation, whatever handlers, compensations and saves failed, but    *)
(* for at most one: that of the step after the last one it counts, whose   *)
(* handler raised after the effect took place.                             *)
THEOREM SagaCompensates == Spec => []CompensatedMeansUndone
<1>1. Inv => CompensatedMeansUndone
  BY DEF Inv, Safe
<1>2. QED
  BY SagaInvariant, <1>1, PTL

(* Compensation runs strictly backwards over the steps that were counted;  *)
(* only the effect of a handler that raised after it can stay above them.  *)
THEOREM SagaCompensatesInReverse == Spec => []UndoneInReverse
<1>1. Inv => UndoneInReverse
  BY DEF Inv, Safe
<1>2. QED
  BY SagaInvariant, <1>1, PTL

(* What the record says can be relied on after a stop: no compensation has *)
(* run before it says COMPENSATING, and no step it counts is missing.      *)
THEOREM SagaRecordIsReliable == Spec => []RecordIsReliable
<1>1. Inv => RecordIsReliable
  BY DEF Inv, Safe, RecordIsReliable
<1>2. QED
  BY SagaInvariant, <1>1, PTL

-----------------------------------------------------------------------------
(***************************************************************************)
(* The outbox.  What a batch contains does not matter: a dispatcher that   *)
(* is about to mark an event has seen its handler return, and nothing      *)
(* takes the effect back; or it has no handler at all.                     *)
(***************************************************************************)
MarksHandled ==
  \A w \in Dispatchers :
    dpc[w] = "mark" =>
      IF w \in handlers THEN Head(batch[w]) \in consumed ELSE Head(batch[w]) \in unheard

OutboxInv ==
  /\ delivery \in [Events -> {"absent", "PENDING", "DELIVERED"}]
  /\ dpc \in [Dispatchers -> {"sleep", "handle", "mark", "count"}]
  /\ batch = [w \in Dispatchers |-> batch[w]]
  /\ MarksHandled /\ DeliveredAtLeastOnce

LEMMA OutboxInitInv == OutboxInit => OutboxInv
  BY DEF OutboxInit, OutboxInv, MarksHandled, DeliveredAtLeastOnce

\* A dispatcher that does not go on to mark keeps the invariant.
LEMMA GoesElsewhere ==
  ASSUME OutboxInv, NEW w \in Dispatchers, NEW point \in {"sleep", "handle", "count"},
         DispatcherGoto(w, point), NEW rest,
         batch' = [batch EXCEPT ![w] = rest],
         UNCHANGED <<delivery, consumed, handlers, unheard>>
  PROVE  OutboxInv'
  BY DEF OutboxInv, MarksHandled, DeliveredAtLeastOnce, DispatcherGoto

LEMMA OutboxStepInv == OutboxInv /\ [OutboxNext]_outboxVars => OutboxInv'
<1>0. SUFFICES ASSUME OutboxInv, [OutboxNext]_outboxVars PROVE OutboxInv'
  OBVIOUS
<1> USE DEF OutboxInv, MarksHandled, DeliveredAtLeastOnce, DispatcherGoto, At
<1>1. ASSUME NEW e \in Events, Publish(e) PROVE OutboxInv'
  BY <1>0, <1>1 DEF Publish
<1>2. ASSUME NEW w \in Dispatchers, NEW e \in Events, Handle(w, e) PROVE OutboxInv'
  BY <1>0, <1>2 DEF Handle
<1>10. ASSUME NEW w \in Dispatchers, NEW e \in Events, PassOn(w, e) PROVE OutboxInv'
  BY <1>0, <1>10 DEF PassOn
<1>3. ASSUME NEW w \in Dispatchers, NEW e \in Events, HandleRaises(w, e) PROVE OutboxInv'
  BY <1>0, <1>3 DEF HandleRaises
<1>4. ASSUME NEW w \in Dispatchers, NEW e \in Events, Mark(w, e) PROVE OutboxInv'
  <2>1. IF w \in handlers THEN e \in consumed ELSE e \in unheard /\ handlers # Dispatchers
    BY <1>0, <1>4 DEF Mark
  <2>2. PICK point \in {"sleep", "handle"} : DispatcherGoto(w, point)
    BY <1>4 DEF Mark, NextEvent
  <2>3. QED
    BY <1>0, <1>4, <2>1, <2>2 DEF Mark, NextEvent
<1>5. ASSUME NEW w \in Dispatchers, NEW e \in Events, MarkRaises(w, e) PROVE OutboxInv'
  BY <1>0, <1>5 DEF MarkRaises
<1>6. ASSUME NEW w \in Dispatchers, NEW e \in Events, CountAttempt(w, e) PROVE OutboxInv'
  <2>1. PICK point \in {"sleep", "handle"} : DispatcherGoto(w, point)
    BY <1>6 DEF CountAttempt, NextEvent
  <2>2. QED
    BY <1>0, <1>6, <2>1, GoesElsewhere DEF CountAttempt, NextEvent
<1>7. ASSUME NEW w \in Dispatchers, Fetch(w) PROVE OutboxInv'
  <2>1. DispatcherGoto(w, "handle")
    BY <1>7 DEF Fetch
  <2>2. QED
    BY <1>0, <1>7, <2>1, GoesElsewhere DEF Fetch
<1>8. ASSUME NEW w \in Dispatchers, Abandon(w) PROVE OutboxInv'
  BY <1>0, <1>8, GoesElsewhere DEF Abandon
<1>9. CASE UNCHANGED outboxVars
  BY <1>0, <1>9 DEF outboxVars
<1>11. QED
  BY <1>0, <1>1, <1>2, <1>3, <1>4, <1>5, <1>6, <1>7, <1>8, <1>9, <1>10 DEF OutboxNext

(* Whatever raises, and wherever dispatchers die or overlap, no event is   *)
(* marked as delivered before its handler has run, unless a dispatcher     *)
(* without a handler had it in its batch (outbox_dispatcher lines 59-69).  *)
THEOREM EventsAreHandledFirst == OutboxSpec => []DeliveredAtLeastOnce
<1>1. OutboxInv => DeliveredAtLeastOnce
  BY DEF OutboxInv
<1>2. QED
  BY <1>1, OutboxInitInv, OutboxStepInv, PTL DEF OutboxSpec
=============================================================================
