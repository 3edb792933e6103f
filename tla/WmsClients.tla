------------------------------ MODULE WmsClients ------------------------------
(***************************************************************************)
(* The warehouse movements with their clients.  Half of the behaviours are *)
(* careful: movements do not overlap, and a client repeats a request only  *)
(* while it has not been told that it succeeded.                           *)
(***************************************************************************)
EXTENDS WmsMovement

VARIABLE careful

MovementInit == Init /\ careful \in BOOLEAN

MovementNext ==
  /\ Next /\ UNCHANGED careful
  /\ careful => OneAtATime' /\ NoRepeats'

MovementSpec == MovementInit /\ [][MovementNext]_<<vars, careful>>

\* With one movement at a time, a client that repeats what failed brings
\* positions and balance together again, wherever the failed request died:
\* the key keeps the inventory service from posting twice, and the positions
\* are written exactly once ("idempotency key ... supports retry",
\* test_wms_rollback_idempotency_integration lines 513-514).  What stays apart
\* are exactly the legs a retry was told of because a call had marked its key
\* and then failed to commit.
RetryHeals == careful => Healed
===============================================================================
