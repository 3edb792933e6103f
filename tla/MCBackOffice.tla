---------------------------- MODULE MCBackOffice ----------------------------
(***************************************************************************)
(* Vouchers, treasury, documents and switches for TLC.  They share no row, *)
(* so a behaviour exercises one of them; "desk" says which, for documents  *)
(* by the one it begins with.  Payments and receipts have no voucher in    *)
(* common: one behaviour pays, another collects.                           *)
(***************************************************************************)
EXTENDS FinVouchers, FinTreasury, Approvals, FeatureSwitches, TLC

CONSTANTS s1, p1, p2, c1, ar, ap, a1, a2, t1, t2,
          cu, qu, so1, so2, st, py1, py2, pr, po1, po2, sr, rt, gov, mod, sub

\* A settlement between tenants issues both vouchers; the two payments
\* together exceed theirs; a receipt may name one voucher twice.
MCIssues    == s1 :> {ap, ar}
MCDue       == (ap :> 2) @@ (ar :> 2)
MCPayLine   == (p1 :> [voucher |-> ap, amount |-> 1]) @@ (p2 :> [voucher |-> ap, amount |-> 2])
MCArrived   == c1 :> 2
OnReceivable == [voucher |-> ar, amount |-> 1]
MCWriteOffs == c1 :> {<<OnReceivable>>, <<OnReceivable, OnReceivable>>}

\* Two transfers in opposite directions.
MCOpening == (a1 :> 2) @@ (a2 :> 1)
MCCarries == (t1 :> [from |-> a1, to |-> a2, amount |-> 2])
          @@ (t2 :> [from |-> a2, to |-> a1, amount |-> 1])

\* Every document that is turned into another has two it may become.
MCKind == cu :> "customer" @@ qu :> "quotation" @@ so1 :> "sales_order" @@ so2 :> "sales_order"
       @@ st :> "settlement" @@ py1 :> "payment" @@ py2 :> "payment"
       @@ pr :> "pur_request" @@ po1 :> "pur_order" @@ po2 :> "pur_order"
       @@ sr :> "sales_return" @@ rt :> "pur_return" @@ gov :> "governance"
MCOrigin == qu :> cu @@ so1 :> qu @@ so2 :> qu @@ py1 :> st @@ py2 :> st @@ po1 :> pr @@ po2 :> pr
         @@ cu :> Null @@ st :> Null @@ pr :> Null @@ sr :> Null @@ rt :> Null @@ gov :> Null

\* A module and one sub-feature of it.
MCParentOf == mod :> NoKey @@ sub :> mod

VARIABLE desk

backOfficeVars == <<finVouchersVars, treasuryVars, approvalsVars, switchesVars, desk>>

Roots == {d \in Docs : Origin[d] = Null}

BackOfficeInit ==
  /\ FinVouchersInit /\ TreasuryInit /\ ApprovalsInit /\ SwitchesInit
  /\ desk \in {"payables", "receivables", "treasury", "switches"} \cup Roots
  /\ \A d \in Roots : (docStatus[d] # "absent") <=> (d = desk)
  /\ \A k \in SwitchKeys : switch[k] # NoRowYet => desk = "switches" /\ switch[k].under = ParentOf[k]

AtVouchers ==
  /\ desk \in {"payables", "receivables"} /\ FinVouchersNext
  /\ \A r \in FinRequests :
       freq'[r].doc \notin IF desk = "payables" THEN Receipts ELSE Payments
  /\ UNCHANGED <<treasuryVars, approvalsVars, switchesVars, desk>>
AtTreasury ==
  desk = "treasury" /\ TreasuryNext /\ UNCHANGED <<finVouchersVars, approvalsVars, switchesVars, desk>>
AtDocuments ==
  desk \in Roots /\ ApprovalsNext /\ UNCHANGED <<finVouchersVars, treasuryVars, switchesVars, desk>>
AtSwitches ==
  desk = "switches" /\ SwitchesNext /\ UNCHANGED <<finVouchersVars, treasuryVars, approvalsVars, desk>>

BackOfficeNext == AtVouchers \/ AtTreasury \/ AtDocuments \/ AtSwitches

BackOfficeSpec == BackOfficeInit /\ [][BackOfficeNext]_backOfficeVars

Symmetry == Permutations(FinRequests) \cup Permutations(Servers)
=============================================================================
