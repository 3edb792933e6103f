---------------------------- MODULE MCWmsMovement -----------------------------
(* Small instances of WmsMovement for TLC: a dock and a shelf. *)
EXTENDS WmsClients

Dock   == <<"dock", "available">>
DockQC == <<"dock", "in_qc">>
Shelf  == <<"shelf", "available">>

MCSlots == {Dock, DockQC, Shelf}
MCDocs  == {"receiving", "putaway", "picking", "transfer"}
MCKind  == [d \in MCDocs |-> d]
MCLimit == [d \in MCDocs |-> IF d = "receiving" THEN 3 ELSE 2]
MCSources ==
  [d \in MCDocs |->
     CASE d = "receiving" -> {}
       [] d = "putaway"   -> {Dock, DockQC}
       [] OTHER           -> {Shelf}]
MCIssue == [d \in MCDocs |-> IF d = "picking" THEN "sales_issue" ELSE "transfer_out"]

MCPayloads ==
  { [doc |-> "receiving", qty |-> 1, to |-> DockQC],
    [doc |-> "receiving", qty |-> 2, to |-> DockQC],
    [doc |-> "putaway",   qty |-> 1, to |-> Shelf],
    [doc |-> "putaway",   qty |-> 1, to |-> Dock],
    [doc |-> "picking",   qty |-> 2, to |-> Shelf],
    [doc |-> "transfer",  qty |-> 1, to |-> Dock] }

MCFirstPlaces == (Shelf :> 2) @@ (Dock :> 1)

RequestSymmetry == Permutations(Requests)

===============================================================================
