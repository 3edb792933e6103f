------------------------------ MODULE MCWmsTask ------------------------------
(***************************************************************************)
(* WmsTask for TLC.  Requests are interchangeable, and so are the tasks    *)
(* that do not exist yet; a cancel is recorded under one fixed user, so the *)
(* users are not.                                                          *)
(***************************************************************************)
EXTENDS WmsTask, TLC

CONSTANTS t1, t2, t3

Symmetry == Permutations(Requests) \cup Permutations({t2, t3})
=============================================================================
