------------------------------- MODULE Outbox -------------------------------
(***************************************************************************)
(* The outbox dispatcher (application/platform/consistency/                *)
(* outbox_dispatcher.py).  A business transaction leaves an event; every   *)
(* worker polls for pending events, hands a batch of them to the handler   *)
(* one by one and marks what has been handled.  Handler and repository may *)
(* raise at every await, also after they had their effect, and a worker    *)
(* may die between any two of them and start again.  A dispatcher that was *)
(* created without a handler marks what it fetches.                        *)
(*                                                                         *)
(* Events are numbered by created_at, by which the index of pending events *)
(* (alembic 056 line 24) sorts them; the repository itself is outside of   *)
(* this code.  delivery_attempts is left out: the dispatcher only          *)
(* increments it, and never makes an event a dead letter.                  *)
(***************************************************************************)
EXTENDS Integers, FiniteSets, SequencesExt

CONSTANTS
  Events,        \* a set of numbers: the events by the time they were created
  Poison,        \* those whose handler always raises
  BatchSize,     \* batch_size
  Dispatchers    \* the processes that run a dispatcher

ASSUME OutboxAssumption ==
  /\ Events \subseteq Nat /\ Poison \subseteq Events
  /\ BatchSize \in Nat \ {0}

VARIABLES
  delivery,   \* plt_outbox_event.delivery_status
  batch,      \* what each dispatcher has left of its batch
  dpc,        \* where each dispatcher is
  consumed,   \* events whose handler has had its effect
  handlers,   \* the dispatchers that were given a delivery_handler
  unheard     \* events a dispatcher without one has passed on to be marked

outboxVars == <<delivery, batch, dpc, consumed, handlers, unheard>>

OutboxInit ==
  /\ delivery = [e \in Events |-> "absent"]
  /\ batch = [w \in Dispatchers |-> <<>>]
  /\ dpc = [w \in Dispatchers |-> "sleep"]
  /\ consumed = {}
  /\ handlers \in SUBSET Dispatchers
  /\ unheard = {}

\* OutboxEventAggregate.create, in the transaction of the business change.
Publish(e) ==
  /\ delivery[e] = "absent"
  /\ delivery' = [delivery EXCEPT ![e] = "PENDING"]
  /\ UNCHANGED <<batch, dpc, consumed, handlers, unheard>>

-----------------------------------------------------------------------------
Pending == {e \in Events : delivery[e] = "PENDING"}

\* get_pending_events(limit): the oldest ones first.
OldestPending ==
  LET oldest == SetToSortSeq(Pending, <)
  IN SubSeq(oldest, 1, IF Len(oldest) < BatchSize THEN Len(oldest) ELSE BatchSize)

Fetch(w) ==
  /\ dpc[w] = "sleep" /\ Pending # {}
  /\ batch' = [batch EXCEPT ![w] = OldestPending]
  /\ dpc' = [dpc EXCEPT ![w] = "handle"]
  /\ UNCHANGED <<delivery, consumed, handlers, unheard>>

At(w, point, e) == dpc[w] = point /\ e = Head(batch[w])

DispatcherGoto(w, point) == dpc' = [dpc EXCEPT ![w] = point]

\* On to the next event of the batch, or to sleep.
NextEvent(w) ==
  /\ batch' = [batch EXCEPT ![w] = Tail(@)]
  /\ DispatcherGoto(w, IF Len(batch[w]) = 1 THEN "sleep" ELSE "handle")

Handle(w, e) ==
  /\ At(w, "handle", e) /\ w \in handlers /\ e \notin Poison
  /\ consumed' = consumed \cup {e}
  /\ DispatcherGoto(w, "mark")
  /\ UNCHANGED <<delivery, batch, handlers, unheard>>

\* delivery_handler is None: nothing is called before the event is marked.
PassOn(w, e) ==
  /\ At(w, "handle", e) /\ w \notin handlers
  /\ unheard' = unheard \cup {e}
  /\ DispatcherGoto(w, "mark")
  /\ UNCHANGED <<delivery, batch, consumed, handlers>>

\* Mutant: the exception leaves the loop over the batch.
HandleRaisesOut(w, e) ==
  /\ At(w, "handle", e) /\ w \in handlers
  /\ batch' = [batch EXCEPT ![w] = <<>>]
  /\ DispatcherGoto(w, "sleep")
  /\ UNCHANGED <<delivery, consumed, handlers, unheard>>

HandleRaises(w, e) ==
  /\ At(w, "handle", e) /\ w \in handlers
  /\ consumed' \in {consumed} \cup {consumed \cup ({e} \ Poison)}
  /\ DispatcherGoto(w, "count")
  /\ UNCHANGED <<delivery, batch, handlers, unheard>>

\* What becomes of an event if handler and process are left alone.
Answers(w, e) == Handle(w, e) \/ PassOn(w, e) \/ (e \in Poison /\ HandleRaises(w, e))

\* Mutant: the event is marked when it is fetched.
MarkFirst(w, e) ==
  /\ At(w, "handle", e) \/ At(w, "mark", e)
  /\ delivery' = [delivery EXCEPT ![e] = "DELIVERED"]
  /\ NextEvent(w)
  /\ UNCHANGED <<consumed, handlers, unheard>>

Mark(w, e) ==
  /\ At(w, "mark", e)
  /\ delivery' = [delivery EXCEPT ![e] = "DELIVERED"]
  /\ NextEvent(w)
  /\ UNCHANGED <<consumed, handlers, unheard>>

\* mark_delivered raises, with the status written or not.
MarkRaises(w, e) ==
  /\ At(w, "mark", e)
  /\ delivery' \in {delivery, [delivery EXCEPT ![e] = "DELIVERED"]}
  /\ DispatcherGoto(w, "count")
  /\ UNCHANGED <<batch, consumed, handlers, unheard>>

\* increment_attempts, after whatever was raised.
CountAttempt(w, e) ==
  /\ At(w, "count", e)
  /\ NextEvent(w)
  /\ UNCHANGED <<delivery, consumed, handlers, unheard>>

\* increment_attempts raises, which ends the batch (start catches it), or the
\* process dies and is started again.
Abandon(w) ==
  /\ dpc[w] # "sleep"
  /\ batch' = [batch EXCEPT ![w] = <<>>]
  /\ DispatcherGoto(w, "sleep")
  /\ UNCHANGED <<delivery, consumed, handlers, unheard>>

OutboxNext ==
  \/ \E e \in Events : Publish(e)
  \/ \E w \in Dispatchers, e \in Events :
       \/ Handle(w, e) \/ PassOn(w, e) \/ HandleRaises(w, e)
       \/ Mark(w, e) \/ MarkRaises(w, e) \/ CountAttempt(w, e)
  \/ \E w \in Dispatchers : Fetch(w) \/ Abandon(w)

OutboxSpec == OutboxInit /\ [][OutboxNext]_outboxVars

-----------------------------------------------------------------------------
OutboxTypeOK ==
  /\ delivery \in [Events -> {"absent", "PENDING", "DELIVERED"}]
  /\ batch \in [Dispatchers -> Seq(Events)]
  /\ dpc \in [Dispatchers -> {"sleep", "handle", "mark", "count"}]
  /\ consumed \subseteq Events
  /\ handlers \subseteq Dispatchers
  /\ unheard \subseteq Events

\* At least once: whatever raises and wherever dispatchers die or overlap, an
\* event is not marked as delivered before its handler has run
\* (outbox_dispatcher lines 59-69), unless a dispatcher that was created without
\* a handler, which is the default (line 27), had the event in its batch.
DeliveredAtLeastOnce ==
  \A e \in Events :
    delivery[e] = "DELIVERED"
      => e \in consumed \/ (handlers # Dispatchers /\ e \in unheard)

\* A failing event is counted and stays in the way.  Fewer of them than a
\* batch holds do not keep the others from being delivered in the end, although
\* every batch is full of failures, dispatchers die and the events come late
\* (outbox_dispatcher lines 53-75).
GoodEventsArrive ==
  \A e \in Events \ Poison :
    Cardinality(Poison) < BatchSize => [](delivery[e] = "PENDING" => <>(delivery[e] = "DELIVERED"))
=============================================================================
