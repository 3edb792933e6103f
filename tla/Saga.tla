-------------------------------- MODULE Saga --------------------------------
(***************************************************************************)
(* One call of SagaOrchestrator.execute (application/platform/consistency/ *)
(* saga_orchestrator.py) on a freshly created saga of N steps.             *)
(*                                                                         *)
(* The program runs the handlers of the steps in order and saves the saga  *)
(* after each one.  When a handler or that save raises, it marks the saga  *)
(* COMPENSATING, saves it, and runs the registered compensations backwards.*)
(* An await can raise, so every handler call and every save is a step of   *)
(* its own with its failures: a handler may raise before or after its      *)
(* effect took place, a save may raise before or after the record was      *)
(* written.  The process may stop at any point; nothing reads the record   *)
(* back, so a stopped saga stays as it is.                                 *)
(***************************************************************************)
EXTENDS Integers

CONSTANTS N,           \* number of steps of the saga
          SavesFail    \* whether repository.save may raise

ASSUME SagaAssumption == N \in Nat /\ SavesFail \in BOOLEAN

Steps == 1..N

(* The orchestrator never uses the aggregate's FAILED. *)
Statuses == {"RUNNING", "COMPLETED", "COMPENSATING", "COMPENSATED",
             "MANUAL_INTERVENTION"}

Points == {"begin", "step", "saveStep", "saveFailure", "undo", "saveOutcome",
           "saveUnregistered", "returned", "raised", "stopped"}

Ended == {"returned", "raised", "stopped"}

None == [status |-> "NONE", current |-> 0]

VARIABLES
  doers,     \* steps with a registered handler
  undoers,   \* steps with a registered compensation
  pc,        \* the await the call is at
  i,         \* the loop index, one-based
  saga,      \* the aggregate in memory: status and current_step
  stored,    \* the aggregate the repository holds
  done,      \* steps whose effect took place
  undone,    \* steps whose effect was taken back
  torn       \* steps whose handler raised after its effect took place

vars == <<doers, undoers, pc, i, saga, stored, done, undone, torn>>

registered == <<doers, undoers>>
effects == <<done, undone, torn>>

Sagas == [status : Statuses, current : 0..N]

Init ==
  /\ doers \in SUBSET Steps
  /\ undoers \in SUBSET Steps
  /\ pc = "begin"
  /\ i = 1
  /\ saga = [status |-> "RUNNING", current |-> 0]
  /\ stored = None
  /\ done = {} /\ undone = {} /\ torn = {}

-----------------------------------------------------------------------------
(* The aggregate's transitions. *)

AdvanceStep(s) ==
  [status |-> IF s.current + 1 >= N THEN "COMPLETED" ELSE s.status,
   current |-> s.current + 1]

StartCompensation(s) == [s EXCEPT !.status = "COMPENSATING"]
CompleteCompensation(s) == [s EXCEPT !.status = "COMPENSATED"]

(* Mutant: the saga is failed where it should ask for a person. *)
FailInstead(s) == [s EXCEPT !.status = "FAILED"]

RequireManualIntervention(s) == [s EXCEPT !.status = "MANUAL_INTERVENTION"]

-----------------------------------------------------------------------------
(* repository.save(saga) at the point p: it returns and the call goes on at *)
(* next, or it raises, with the record written or not, and the call goes on *)
(* at onError.                                                              *)

Saves(p, next) ==
  /\ pc = p
  /\ stored' = saga
  /\ pc' = next

SaveRaises(p, onError) ==
  /\ SavesFail
  /\ pc = p
  /\ stored' \in {stored, saga}
  /\ pc' = onError

(* The first save of execute; nothing catches its failure. *)
Begin ==
  /\ Saves("begin", "step") \/ SaveRaises("begin", "raised")
  /\ UNCHANGED <<registered, i, saga, effects>>

(* All steps are done: return. *)
AllDone ==
  /\ pc = "step" /\ i > N
  /\ pc' = "returned"
  /\ UNCHANGED <<registered, i, saga, stored, effects>>

(* No handler is registered: ask for manual intervention, save and raise. *)
Unregistered ==
  /\ pc = "step" /\ i <= N /\ i \notin doers
  /\ saga' = RequireManualIntervention(saga)
  /\ pc' = "saveUnregistered"
  /\ UNCHANGED <<registered, i, stored, effects>>

SaveUnregistered ==
  /\ \/ Saves("saveUnregistered", "raised")
     \/ SaveRaises("saveUnregistered", "raised")
  /\ UNCHANGED <<registered, i, saga, effects>>

(* The handler returns: advance_step, then the save inside the same try. *)
StepSucceeds ==
  /\ pc = "step" /\ i \in doers
  /\ done' = done \cup {i}
  /\ saga' = AdvanceStep(saga)
  /\ pc' = "saveStep"
  /\ UNCHANGED <<registered, i, stored, undone, torn>>

(* Mutant: advance_step runs before the handler. *)
StepFailsAdvanced ==
  /\ pc = "step" /\ i \in doers
  /\ UNCHANGED effects
  /\ saga' = StartCompensation(AdvanceStep(saga))
  /\ pc' = "saveFailure"
  /\ UNCHANGED <<registered, i, stored>>

(* The handler raises, before or after its effect took place. *)
StepFails ==
  /\ pc = "step" /\ i \in doers
  /\ \/ UNCHANGED effects
     \/ /\ done' = done \cup {i}
        /\ torn' = torn \cup {i}
        /\ UNCHANGED undone
  /\ saga' = StartCompensation(saga)
  /\ pc' = "saveFailure"
  /\ UNCHANGED <<registered, i, stored>>

SaveStep ==
  /\ Saves("saveStep", "step")
  /\ i' = i + 1
  /\ UNCHANGED <<registered, saga, effects>>

(* The save of a finished step raises: this step is compensated too, since *)
(* the aggregate in memory has already advanced.                           *)
SaveStepFails ==
  /\ SaveRaises("saveStep", "saveFailure")
  /\ saga' = StartCompensation(saga)
  /\ UNCHANGED <<registered, i, effects>>

(* Mutant: the first compensation runs before COMPENSATING is saved. *)
SaveFailureAfterUndo ==
  /\ \/ Saves("saveFailure", "undo") /\ i' = saga.current
     \/ SaveRaises("saveFailure", "raised") /\ UNCHANGED i
  /\ undone' = undone \cup ({saga.current} \cap undoers)
  /\ UNCHANGED <<registered, saga, done, torn>>

(* The record says COMPENSATING before the first compensation runs. *)
SaveFailure ==
  /\ \/ Saves("saveFailure", "undo") /\ i' = saga.current
     \/ SaveRaises("saveFailure", "raised") /\ UNCHANGED i
  /\ UNCHANGED <<registered, saga, effects>>

-----------------------------------------------------------------------------
(* _compensate: from current_step - 1 down to the first step. *)

(* Mutant: the compensations run in the order of the steps. *)
UndoForward ==
  LET k == saga.current + 1 - i
  IN /\ pc = "undo" /\ i >= 1 /\ k \in undoers
     /\ undone' = undone \cup {k}
     /\ i' = i - 1
     /\ UNCHANGED <<registered, pc, saga, stored, done, torn>>

(* The compensation of step i runs. *)
UndoSucceeds ==
  /\ pc = "undo" /\ i >= 1 /\ i \in undoers
  /\ undone' = undone \cup {i}
  /\ i' = i - 1
  /\ UNCHANGED <<registered, pc, saga, stored, done, torn>>

(* Mutant: a passed-over step does not count down. *)
UndoSkippedForEver ==
  /\ pc = "undo" /\ i >= 1 /\ i \notin undoers
  /\ UNCHANGED vars

(* A step without a registered compensation is passed over. *)
UndoSkipped ==
  /\ pc = "undo" /\ i >= 1 /\ i \notin undoers
  /\ i' = i - 1
  /\ UNCHANGED <<registered, pc, saga, stored, effects>>

(* A compensation raises, before or after its effect: the loop stops. *)
UndoFails ==
  /\ pc = "undo" /\ i >= 1 /\ i \in undoers
  /\ undone' \in {undone, undone \cup {i}}
  /\ saga' = RequireManualIntervention(saga)
  /\ pc' = "saveOutcome"
  /\ UNCHANGED <<registered, i, stored, done, torn>>

(* Mutant: the backward loop stops one step short of the first. *)
AllUndoneButOne ==
  /\ pc = "undo" /\ i <= 1
  /\ saga' = CompleteCompensation(saga)
  /\ pc' = "saveOutcome"
  /\ UNCHANGED <<registered, i, stored, effects>>

AllUndone ==
  /\ pc = "undo" /\ i < 1
  /\ saga' = CompleteCompensation(saga)
  /\ pc' = "saveOutcome"
  /\ UNCHANGED <<registered, i, stored, effects>>

SaveOutcome ==
  /\ Saves("saveOutcome", "returned") \/ SaveRaises("saveOutcome", "raised")
  /\ UNCHANGED <<registered, i, saga, effects>>

(* The process stops. *)
Stop ==
  /\ pc \notin Ended
  /\ pc' = "stopped"
  /\ UNCHANGED <<registered, i, saga, stored, effects>>

Forward == Begin \/ AllDone \/ Unregistered \/ SaveUnregistered
           \/ StepSucceeds \/ StepFails \/ SaveStep \/ SaveStepFails
Backward == SaveFailure \/ UndoSucceeds \/ UndoSkipped \/ UndoFails
            \/ AllUndone \/ SaveOutcome

Execute == Forward \/ Backward
Next == Execute \/ Stop

Spec == Init /\ [][Next]_vars

(* A coroutine whose awaits come back is scheduled again. *)
LiveSpec == Spec /\ WF_vars(Execute)

-----------------------------------------------------------------------------
(* Properties. *)

TypeOK ==
  /\ doers \subseteq Steps /\ undoers \subseteq Steps
  /\ pc \in Points
  /\ i \in 0..(N + 1)
  /\ saga \in Sagas
  /\ stored \in Sagas \cup {None}
  /\ done \subseteq Steps /\ undone \subseteq Steps /\ torn \subseteq Steps

(* Effects still in place although their compensation is registered. *)
Left == (done \ undone) \cap undoers

(* The record never says COMPENSATED while an effect that has a            *)
(* compensation is still in place, however handlers and saves failed, but  *)
(* for one: compensation starts below the step that failed (line 63), so   *)
(* that the effect of a handler that took place before it raised stays.    *)
(* It is the effect of the step after the last one the record counts.      *)
CompensatedMeansUndone ==
  stored.status = "COMPENSATED" => Left \subseteq torn \cap {stored.current + 1}

(* Effects are taken back last first: an earlier step is never undone while *)
(* a later one with a compensation is still in place, but for the effect of *)
(* the step that failed, under which the compensations run.                 *)
UndoneInReverse ==
  \A k \in undone : \A l \in Left : l <= k \/ (l \in torn /\ l = saga.current + 1)

(* Nothing is taken back before the record says so: whoever reads RUNNING  *)
(* or COMPLETED after a stop knows that no compensation has run.           *)
RecordedBeforeUndone ==
  undone # {} => stored.status \in
                   {"COMPENSATING", "COMPENSATED", "MANUAL_INTERVENTION"}

(* The record is never ahead of the world: every step it counts has taken  *)
(* place, and COMPLETED means that all of them are in place.               *)
RecordNeverAhead ==
  /\ 1..stored.current \subseteq done
  /\ stored.status = "COMPLETED" => done = Steps /\ undone = {}

(* Whoever finds the record after a stop can believe it.                   *)
RecordIsReliable == RecordedBeforeUndone /\ RecordNeverAhead

Settled == {"COMPLETED", "COMPENSATED", "MANUAL_INTERVENTION"}

(* The call ends, and one that returns has settled its record.  (A saga    *)
(* without steps returns as RUNNING, so N > 0.)                            *)
CallSettles ==
  <>(pc \in Ended /\ (pc = "returned" /\ N > 0 => stored.status \in Settled))
=============================================================================
