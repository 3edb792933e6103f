------------------------------- MODULE MCSaga -------------------------------
(***************************************************************************)
(* The platform's consistency package for TLC: a saga of up to four steps  *)
(* with every set of registered handlers and compensations, and two outbox *)
(* dispatchers.  The two have nothing in common, so a behaviour exercises  *)
(* one of them; "desk" says which.                                         *)
(***************************************************************************)
EXTENDS Saga, Outbox

CONSTANTS
  Silent,     \* the dispatchers that may have no handler
  Further     \* events created only where every dispatcher has one

VARIABLE desk

consistencyVars == <<vars, outboxVars, desk>>

ConsistencyInit ==
  /\ Init /\ OutboxInit
  /\ desk \in {"saga", "outbox"}
  /\ desk = "outbox" => doers = {} /\ undoers = {}
  /\ handlers \in {Dispatchers} \cup {Dispatchers \ Silent}
  /\ desk = "saga" => handlers = Dispatchers

AtSaga(step)   == desk = "saga" /\ step /\ UNCHANGED <<outboxVars, desk>>
AtOutbox(step) ==
  /\ desk = "outbox" /\ step /\ UNCHANGED <<vars, desk>>
  /\ handlers # Dispatchers => \A e \in Further : delivery'[e] = "absent"

ConsistencyNext == AtSaga(Next) \/ AtOutbox(OutboxNext)

\* A coroutine whose awaits come back is scheduled again; an event whose
\* handler or database call is tried for ever succeeds one day.
ConsistencySpec ==
  /\ ConsistencyInit /\ [][ConsistencyNext]_consistencyVars
  /\ WF_consistencyVars(AtSaga(Execute))
  /\ WF_consistencyVars(AtOutbox(\E w \in Dispatchers : Fetch(w)))
  /\ \A e \in Events :
       /\ SF_consistencyVars(AtOutbox(\E w \in Dispatchers : Answers(w, e)))
       /\ SF_consistencyVars(AtOutbox(\E w \in Dispatchers : Mark(w, e)))
       /\ SF_consistencyVars(AtOutbox(\E w \in Dispatchers : CountAttempt(w, e)))

\* Every call ends, and one that returns has settled its record: all steps
\* done, all compensations run, or handed over to a person (saga_orchestrator
\* lines 34-78).
EveryCallSettles == desk = "saga" => CallSettles
=============================================================================
