-------------------------- MODULE MCSalesFulfilment --------------------------
(***************************************************************************)
(* SalesFulfilment for TLC: an order of two lines, a shipment of a part of *)
(* it, one of all of it, so that the two together carry more than was      *)
(* ordered, and one that carries nothing of it.                            *)
(***************************************************************************)
EXTENDS SalesFulfilment, TLC

CONSTANTS a, b, part, whole, empty

MCOrdered == (a :> 2) @@ (b :> 1)

MCShipQty == (part :> ((a :> 1) @@ (b :> 1))) @@ (whole :> MCOrdered) @@ (empty :> <<>>)

Symmetry == Permutations(Requests)
=============================================================================
