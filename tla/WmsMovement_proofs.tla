-------------------------- MODULE WmsMovement_proofs --------------------------
(***************************************************************************)
(* What holds of the warehouse movements for every set of requests,        *)
(* document lines, slots and quantities: whatever overlaps, lines stay     *)
(* within their limits, goods move in after they have moved out, and       *)
(* success follows the posting, or the marker of a call that failed to     *)
(* commit it.  With one movement at a time, repeated until it succeeds,    *)
(* positions and balance differ by nothing but such markers.               *)
(***************************************************************************)
EXTENDS WmsClients, Sums, TLAPS

USE DocsAssumption, PayloadsAssumption, FirstPlacesAssumption

\* A request that has passed its check still fits what it read.
LineInv ==
  /\ done \in [Docs -> Nat]
  /\ line \in [Requests -> Nat]
  /\ req \in [Requests -> Payloads]
  /\ pc \in [Requests -> Points]
  /\ \A d \in Docs : done[d] <= Limit[d]
  /\ \A r \in Requests : InFlight(r) => line[r] + Qty(r) <= Limit[Doc(r)]

LEMMA PayloadShape ==
  ASSUME NEW r \in Requests, req \in [Requests -> Payloads]
  PROVE  Doc(r) \in Docs /\ Qty(r) \in Nat /\ Limit[Doc(r)] \in Nat
BY DEF Doc, Qty

LEMMA LineInit == Init => LineInv
BY DEF Init, LineInv, Points, InFlight, InFlightPoints, Doc, Qty

LEMMA LineStep == LineInv /\ [Next]_vars => LineInv'
<1> SUFFICES ASSUME LineInv, [Next]_vars PROVE LineInv'
  OBVIOUS
<1> USE DEF LineInv
<1>1. ASSUME NEW r \in Requests, Check(r) PROVE LineInv'
  <2>1. Doc(r) \in Docs /\ Qty(r) \in Nat /\ Limit[Doc(r)] \in Nat
    BY PayloadShape
  <2>2. line' = [line EXCEPT ![r] = done[Doc(r)]] /\ UNCHANGED <<done, req>>
    BY <1>1 DEF Check, wms
  <2>3. \E p \in {"out", "in"} : pc' = [pc EXCEPT ![r] = p]
    BY <1>1 DEF Check, Goto
  <2>4. done[Doc(r)] + Qty(r) <= Limit[Doc(r)]
    BY <1>1 DEF Check, Fits
  <2> QED
    BY <2>1, <2>2, <2>3, <2>4 DEF Points, InFlight, InFlightPoints, Doc, Qty
<1>2. ASSUME NEW r \in Requests, Write(r) PROVE LineInv'
  <2>1. Doc(r) \in Docs /\ Qty(r) \in Nat /\ Limit[Doc(r)] \in Nat
    BY PayloadShape
  <2>2. /\ done' = [done EXCEPT ![Doc(r)] = line[r] + Qty(r)]
        /\ pc' = [pc EXCEPT ![r] = "done"]
        /\ UNCHANGED <<line, req>>
    BY <1>2 DEF Write, Goto, mem
  <2>3. line[r] + Qty(r) <= Limit[Doc(r)]
    BY <1>2 DEF Write, InFlight, InFlightPoints
  <2> QED
    BY <2>1, <2>2, <2>3 DEF Points, Outcomes, InFlight, InFlightPoints, Doc, Qty
\* The other steps of a request leave the line alone and do not start one.
<1>3. ASSUME NEW r \in Requests, InFlight(r) \/ pc[r] = "idle",
             UNCHANGED <<done, line, req>>,
             \E p \in Points : pc' = [pc EXCEPT ![r] = p] /\ (p \in InFlightPoints => InFlight(r))
      PROVE  LineInv'
  BY <1>3 DEF InFlight, Doc, Qty
<1>4. ASSUME NEW r \in Requests,
             CheckRefused(r) \/ PostOut(r) \/ PostIn(r) \/ PostRefused(r) \/ ReadSource(r)
               \/ ReadTarget(r) \/ WriteRefused(r) \/ Fail(r)
      PROVE  LineInv'
  <2>1. InFlight(r) \/ pc[r] = "idle"
    BY <1>4 DEF CheckRefused, PostOut, PostIn, PostRefused, ReadSource, ReadTarget,
                WriteRefused, Fail, InFlight, InFlightPoints
  <2>2. UNCHANGED <<done, line, req>>
    BY <1>4 DEF CheckRefused, PostOut, PostIn, PostRefused, ReadSource, ReadTarget,
                WriteRefused, Fail, wms, mem
  <2>3. \E p \in Points : pc' = [pc EXCEPT ![r] = p] /\ (p \in InFlightPoints => InFlight(r))
    BY <1>4 DEF CheckRefused, PostOut, PostIn, PostRefused, ReadSource, ReadTarget,
                WriteRefused, Fail, Goto, Points, Outcomes, InFlight, InFlightPoints
  <2> QED
    BY <1>3, <2>1, <2>2, <2>3
<1>5. ASSUME NEW d \in NeedsApproval, Submit(d) \/ Approve(d) PROVE LineInv'
  <2>1. UNCHANGED <<done, line, req, pc>>
    BY <1>5 DEF Submit, Approve, SetApproval, mem
  <2> QED
    BY <2>1 DEF InFlight, Doc, Qty
<1>6. CASE UNCHANGED vars
  BY <1>6 DEF vars, wms, mem, InFlight, Doc, Qty
<1>7. ASSUME NEW r \in Requests, Mark(r) PROVE LineInv'
  <2>1. UNCHANGED <<done, line, req, pc>>
    BY <1>7 DEF Mark, wms, mem
  <2> QED
    BY <2>1 DEF InFlight, Doc, Qty
<1> QED
  BY <1>1, <1>2, <1>4, <1>5, <1>6, <1>7 DEF Next, Step

\* No line ever records more than it orders, requires or holds, whatever the
\* interleaving and wherever requests die: over-receiving happens beside the
\* line's own books, never in them (receiving_app_svc lines 72-74, 110-112).
THEOREM LineNeverOverLimit == Spec => []LineWithinLimit
<1>1. LineInv => LineWithinLimit
  BY DEF LineInv, LineWithinLimit
<1> QED
  BY LineInit, LineStep, <1>1, PTL DEF Spec
-------------------------------------------------------------------------------
(***************************************************************************)
(* The inventory service comes first                                       *)
(***************************************************************************)

\* What stands behind a request at each of its points.
OutStands(r) ==
  TakesOut(Doc(r)) /\ pc[r] \in {"in", "source", "target", "write", "done"}
    => Accounted(Movement(r), "out")
InStands(r) ==
  PutsIn(Doc(r)) /\ pc[r] \in {"source", "target", "write", "done"}
    => Accounted(Movement(r), "in")

\* A marker stands for a posting that is made, about to be made, or lost.
MarkersStand ==
  \A r \in Requests, leg \in {"out", "in"} :
    <<r, leg>> \in marked => Accounted(Movement(r), leg)

PostedInv ==
  /\ req \in [Requests -> Payloads]
  /\ pc \in [Requests -> Points]
  /\ MarkersStand
  /\ \A r \in Requests : OutStands(r) /\ InStands(r)
  /\ InFollowsOut

LEMMA PostedInit == Init => PostedInv
BY DEF Init, PostedInv, Points, MarkersStand, OutStands, InStands, InFollowsOut, Key

\* A call of the inventory service finds its leg accounted for, or posts it.
LEMMA CallPosts ==
  ASSUME NEW r \in Requests, NEW leg, CallInventory(r, leg)
  PROVE  /\ marked' = marked /\ posted \subseteq posted'
         /\ posted' \subseteq posted \cup {Key(Doc(r), leg, Qty(r))}
BY DEF CallInventory, Inv!Post, Posting, inv

\* The call that has marked a key and is not answered yet posts it when it is.
LEMMA OwnCallPosts ==
  ASSUME NEW r \in Requests, NEW leg, CallInventory(r, leg), <<r, leg>> \in marked
  PROVE  Key(Doc(r), leg, Qty(r)) \in posted'
BY DEF CallInventory, Inv!Post, Posting, inv

\* What is accounted for stays so when posted and marked keys stay and the one
\* request that moves on, if it vouches for the leg, fails or has it posted.
LEMMA AccountStays ==
  ASSUME pc \in [Requests -> Points], NEW m, NEW leg, Accounted(m, leg), req' = req,
         posted \subseteq posted', marked \subseteq marked',
         pc' = pc \/ \E r \in Requests, x \in Points :
           /\ pc' = [pc EXCEPT ![r] = x]
           /\ <<r, leg>> \in marked /\ pc[r] \in {leg, "failed"} /\ Movement(r) = m
                => x = "failed" \/ Key(m[1], leg, m[2]) \in posted'
  PROVE  Accounted(m, leg)'
<1>1. CASE Key(m[1], leg, m[2]) \in posted
  BY <1>1 DEF Accounted, Key
<1>2. CASE Vouched(m, leg)
  <2>1. PICK q \in Requests :
          Movement(q) = m /\ <<q, leg>> \in marked /\ pc[q] \in {leg, "failed"}
    BY <1>2 DEF Vouched
  <2>2. Movement(q)' = m /\ <<q, leg>> \in marked'
    BY <2>1 DEF Movement, Doc, Qty
  <2>3. pc'[q] \in {leg, "failed"} \/ Key(m[1], leg, m[2]) \in posted'
    BY <2>1
  <2> QED
    BY <2>2, <2>3 DEF Accounted, Vouched, Key
<1> QED
  BY <1>1, <1>2 DEF Accounted

\* A movement that does not change is accounted for after a step if it is so
\* under its old name.
LEMMA SameMovement ==
  ASSUME NEW q \in Requests, req' = req, NEW leg,
         \A m : m = Movement(q) => Accounted(m, leg)'
  PROVE  Accounted(Movement(q), leg)'
<1>1. PICK m : m = Movement(q)
  OBVIOUS
<1>2. Movement(q)' = m /\ Accounted(m, leg)'
  BY <1>1 DEF Movement, Doc, Qty
<1> QED
  BY <1>2 DEF Accounted, Vouched

\* A call leaves what is accounted for so, and accounts for its own leg.
LEMMA CallAccounts ==
  ASSUME PostedInv, NEW r \in Requests, NEW leg \in {"out", "in"}, CallInventory(r, leg),
         pc[r] = leg, req' = req, NEW x \in Points, pc' = [pc EXCEPT ![r] = x]
  PROVE  /\ \A m, l : l \in {"out", "in"} /\ Accounted(m, l) => Accounted(m, l)'
         /\ Accounted(Movement(r), leg)'
<1>1. ASSUME NEW m, NEW l \in {"out", "in"}, Accounted(m, l) PROVE Accounted(m, l)'
  <2>1. posted \subseteq posted' /\ marked \subseteq marked'
    BY CallPosts
  <2>2. <<r, l>> \in marked /\ pc[r] \in {l, "failed"} /\ Movement(r) = m
          => Key(m[1], l, m[2]) \in posted'
    <3>1. SUFFICES ASSUME <<r, l>> \in marked, pc[r] \in {l, "failed"}, Movement(r) = m
                   PROVE  Key(m[1], l, m[2]) \in posted'
      OBVIOUS
    <3>2. l = leg /\ m[1] = Doc(r) /\ m[2] = Qty(r)
      BY <3>1 DEF Movement
    <3> QED
      BY <3>1, <3>2, OwnCallPosts
  <2> QED
    BY <1>1, <2>1, <2>2, AccountStays DEF PostedInv
<1>2. Accounted(Movement(r), leg)'
  <2>1. Movement(r)[1] = Doc(r) /\ Movement(r)[2] = Qty(r) /\ Movement(r)' = Movement(r)
    BY DEF Movement, Doc, Qty
  <2>2. CASE Key(Doc(r), leg, Qty(r)) \in posted'
    BY <2>1, <2>2 DEF Accounted, Key
  <2>3. CASE Key(Doc(r), leg, Qty(r)) \notin posted'
    <3>1. Marked(r, leg) /\ <<r, leg>> \notin marked /\ posted' = posted
      BY <2>3 DEF CallInventory, Inv!Post, Posting, inv
    <3>2. PICK q \in Requests \ {r} : <<q, leg>> \in marked /\ Movement(q) = Movement(r)
      BY <3>1 DEF Marked
    <3>3. Accounted(Movement(r), leg)
      BY <3>2 DEF PostedInv, MarkersStand
    <3> QED
      BY <1>1, <3>3, SameMovement
  <2> QED
    BY <2>2, <2>3
<1> QED
  BY <1>1, <1>2

\* A request moves to x, and what is accounted for stays so.
LEMMA RequestMoves ==
  ASSUME PostedInv, NEW r \in Requests, NEW x \in Points,
         req' = req, marked' = marked, pc' = [pc EXCEPT ![r] = x],
         \A m, l : l \in {"out", "in"} /\ Accounted(m, l) => Accounted(m, l)',
         TakesOut(Doc(r)) /\ x \in {"in", "source", "target", "write", "done"}
           => Accounted(Movement(r), "out")',
         PutsIn(Doc(r)) /\ x \in {"source", "target", "write", "done"}
           => Accounted(Movement(r), "in")'
  PROVE  /\ pc' \in [Requests -> Points] /\ MarkersStand'
         /\ \A q \in Requests : OutStands(q)' /\ InStands(q)'
<1>1. ASSUME NEW q \in Requests, NEW l \in {"out", "in"}, Accounted(Movement(q), l)
      PROVE  Accounted(Movement(q), l)'
  BY <1>1, SameMovement
<1>2. pc' \in [Requests -> Points] /\ pc'[r] = x /\ \A q \in Requests \ {r} : pc'[q] = pc[q]
  BY DEF PostedInv
<1>3. MarkersStand'
  BY <1>1 DEF PostedInv, MarkersStand
<1>4. \A q \in Requests : Doc(q)' = Doc(q)
  BY DEF Doc
<1>5. ASSUME NEW q \in Requests, q # r PROVE OutStands(q)' /\ InStands(q)'
  BY <1>1, <1>2, <1>4, <1>5 DEF PostedInv, OutStands, InStands, TakesOut, PutsIn
<1>6. OutStands(r)' /\ InStands(r)'
  BY <1>2, <1>4 DEF OutStands, InStands, TakesOut, PutsIn
<1> QED
  BY <1>2, <1>3, <1>5, <1>6

LEMMA PostedStep == PostedInv /\ [Next]_vars => PostedInv'
<1> SUFFICES ASSUME PostedInv, [Next]_vars PROVE PostedInv'
  OBVIOUS
<1> USE DEF Goto, inv, wms, mem
\* Stock that is in stays behind stock that is accounted for.
<1>1. ASSUME \A m, l : l \in {"out", "in"} /\ Accounted(m, l) => Accounted(m, l)',
             \A d \in Docs, n \in {p.qty : p \in Payloads} :
               Kind[d] \in {"putaway", "transfer"} /\ Key(d, "in", n) \in posted' \ posted
                 => Accounted(<<d, n>>, "out")
      PROVE  InFollowsOut'
  <2>1. SUFFICES ASSUME NEW d \in Docs, NEW n \in {p.qty : p \in Payloads},
                        Kind[d] \in {"putaway", "transfer"}, Key(d, "in", n) \in posted'
                 PROVE  Accounted(<<d, n>>, "out")'
    BY DEF InFollowsOut, Key
  <2>2. Accounted(<<d, n>>, "out")
    BY <1>1, <2>1 DEF PostedInv, InFollowsOut
  <2> QED
    BY <1>1, <2>2
<1>2. ASSUME NEW r \in Requests, PostOut(r) PROVE PostedInv'
  <2> DEFINE x == IF PutsIn(Doc(r)) THEN "in" ELSE "write"
  <2>1. /\ CallInventory(r, "out") /\ pc[r] = "out" /\ req' = req
        /\ pc' = [pc EXCEPT ![r] = x] /\ x \in Points
        /\ PutsIn(Doc(r)) => x \notin {"source", "target", "write", "done"}
    BY <1>2 DEF PostOut, Points, InFlightPoints
  <2> HIDE DEF x
  <2>2. /\ \A m, l : l \in {"out", "in"} /\ Accounted(m, l) => Accounted(m, l)'
        /\ Accounted(Movement(r), "out")'
    BY <2>1, CallAccounts
  <2>3. marked' = marked /\ posted' \subseteq posted \cup {Key(Doc(r), "out", Qty(r))}
    BY <2>1, CallPosts
  <2>4. /\ pc' \in [Requests -> Points] /\ MarkersStand'
        /\ \A q \in Requests : OutStands(q)' /\ InStands(q)'
    BY <2>1, <2>2, <2>3, RequestMoves
  <2>5. InFollowsOut'
    BY <1>1, <2>2, <2>3 DEF Key
  <2> QED
    BY <2>1, <2>4, <2>5 DEF PostedInv
<1>3. ASSUME NEW r \in Requests, PostIn(r) PROVE PostedInv'
  <2> DEFINE x == IF TakesOut(Doc(r)) THEN "source" ELSE "target"
  <2>1. /\ CallInventory(r, "in") /\ pc[r] = "in" /\ req' = req
        /\ pc' = [pc EXCEPT ![r] = x] /\ x \in Points
    BY <1>3 DEF PostIn, Points, InFlightPoints
  <2> HIDE DEF x
  <2>2. /\ \A m, l : l \in {"out", "in"} /\ Accounted(m, l) => Accounted(m, l)'
        /\ Accounted(Movement(r), "in")'
    BY <2>1, CallAccounts
  <2>3. marked' = marked /\ posted' \subseteq posted \cup {Key(Doc(r), "in", Qty(r))}
    BY <2>1, CallPosts
  <2>4. TakesOut(Doc(r)) => Accounted(Movement(r), "out")
    BY <2>1 DEF PostedInv, OutStands
  <2>5. TakesOut(Doc(r)) => Accounted(Movement(r), "out")'
    BY <2>1, <2>2, <2>4, SameMovement
  <2>6. /\ pc' \in [Requests -> Points] /\ MarkersStand'
        /\ \A q \in Requests : OutStands(q)' /\ InStands(q)'
    BY <2>1, <2>2, <2>3, <2>5, RequestMoves
  <2>7. InFollowsOut'
    <3>1. ASSUME NEW d \in Docs, NEW n \in {p.qty : p \in Payloads},
                 Kind[d] \in {"putaway", "transfer"}, Key(d, "in", n) \in posted' \ posted
          PROVE  Accounted(<<d, n>>, "out")
      <4>1. <<d, n>> = Movement(r) /\ TakesOut(Doc(r))
        BY <2>3, <3>1 DEF Key, Movement, TakesOut
      <4> QED
        BY <2>4, <4>1
    <3> QED
      BY <1>1, <2>2, <3>1
  <2> QED
    BY <2>1, <2>6, <2>7 DEF PostedInv
\* The other steps of a request post nothing; it goes on to a point where no
\* more stands behind it, or fails.
<1>4. ASSUME NEW r \in Requests, NEW x \in Points,
             req' = req, posted' = posted, marked' = marked, pc' = [pc EXCEPT ![r] = x],
             pc[r] \in {"out", "in"} => x = "failed", pc[r] # "failed",
             TakesOut(Doc(r)) /\ x \in {"in", "source", "target", "write", "done"}
               => pc[r] \in {"in", "source", "target", "write", "done"},
             PutsIn(Doc(r)) /\ x \in {"source", "target", "write", "done"}
               => pc[r] \in {"source", "target", "write", "done"}
      PROVE  PostedInv'
  <2>1. ASSUME NEW m, NEW l \in {"out", "in"}, Accounted(m, l) PROVE Accounted(m, l)'
    BY <1>4, <2>1, AccountStays DEF PostedInv
  <2>2. \A q \in Requests, l \in {"out", "in"} :
          Accounted(Movement(q), l) => Accounted(Movement(q), l)'
    BY <1>4, <2>1, SameMovement
  <2>3. OutStands(r) /\ InStands(r)
    BY DEF PostedInv
  <2>4. /\ pc' \in [Requests -> Points] /\ MarkersStand'
        /\ \A q \in Requests : OutStands(q)' /\ InStands(q)'
    BY <1>4, <2>1, <2>2, <2>3, RequestMoves DEF OutStands, InStands
  <2>5. InFollowsOut'
    BY <1>1, <1>4, <2>1
  <2> QED
    BY <1>4, <2>4, <2>5 DEF PostedInv
<1>5. ASSUME NEW r \in Requests,
             \/ Check(r) \/ CheckRefused(r) \/ PostRefused(r) \/ ReadSource(r)
             \/ ReadTarget(r) \/ Write(r) \/ WriteRefused(r) \/ Fail(r)
      PROVE  PostedInv'
  <2>1. req' = req /\ posted' = posted /\ marked' = marked /\ pc[r] # "failed"
    BY <1>5 DEF Check, CheckRefused, PostRefused, ReadSource, ReadTarget, Write, WriteRefused, Fail,
                InFlight, InFlightPoints
  <2>2. PICK x \in Points :
          /\ pc' = [pc EXCEPT ![r] = x]
          /\ pc[r] \in {"out", "in"} => x = "failed"
          /\ x = "in" => ~ TakesOut(Doc(r))
          /\ x \in {"source", "target", "write", "done"}
               => pc[r] \in {"source", "target", "write", "done"}
    BY <1>5 DEF Check, CheckRefused, PostRefused, ReadSource, ReadTarget, Write, WriteRefused, Fail,
                Points, InFlightPoints, Outcomes
  <2> QED
    BY <1>4, <2>1, <2>2
\* A marker is set by the call it vouches for.
<1>6. ASSUME UNCHANGED <<posted, req, pc>>, marked \subseteq marked',
             \A q \in Requests, l \in {"out", "in"} :
               <<q, l>> \in marked' \ marked => pc[q] = l
      PROVE  PostedInv'
  <2>1. ASSUME NEW m, NEW l \in {"out", "in"}, Accounted(m, l) PROVE Accounted(m, l)'
    BY <1>6, <2>1, AccountStays DEF PostedInv
  <2>2. \A q \in Requests, l \in {"out", "in"} :
          Accounted(Movement(q), l) => Accounted(Movement(q), l)'
    BY <1>6, <2>1, SameMovement
  <2>3. ASSUME NEW q \in Requests, NEW l \in {"out", "in"}, <<q, l>> \in marked' \ marked
        PROVE  Accounted(Movement(q), l)'
    BY <1>6, <2>3 DEF Accounted, Vouched
  <2>4. MarkersStand'
    BY <2>2, <2>3 DEF PostedInv, MarkersStand
  <2>5. ASSUME NEW q \in Requests PROVE OutStands(q)' /\ InStands(q)'
    BY <1>6, <2>2 DEF PostedInv, OutStands, InStands, Doc, TakesOut, PutsIn
  <2>6. InFollowsOut'
    BY <1>1, <1>6, <2>1
  <2> QED
    BY <1>6, <2>4, <2>5, <2>6 DEF PostedInv
<1>7. ASSUME NEW r \in Requests, Mark(r) PROVE PostedInv'
  BY <1>6, <1>7 DEF Mark
<1>8. ASSUME NEW d \in NeedsApproval, Submit(d) \/ Approve(d) PROVE PostedInv'
  BY <1>6, <1>8 DEF Submit, Approve, SetApproval
<1>9. CASE UNCHANGED vars
  BY <1>6, <1>9 DEF vars
<1> QED
  BY <1>2, <1>3, <1>5, <1>7, <1>8, <1>9 DEF Next, Step

\* Stock that a putaway or transfer has posted in it has posted out before, for
\* any overlap, death and repetition, unless the out leg was answered from a
\* marker whose call had not committed (putaway 70-89, transfer 107-126).
THEOREM InAfterOut == Spec => []InFollowsOut
<1>1. PostedInv => InFollowsOut
  BY DEF PostedInv
<1> QED
  BY PostedInit, PostedStep, <1>1, PTL DEF Spec

\* No request reports success unless every leg of its movement is committed or
\* was answered from the marker of another call (receiving 76-112, picking
\* 76-96).
THEOREM ProgressAfterPosting == Spec => []ProgressIsPosted
<1>1. PostedInv => ProgressIsPosted
  BY DEF PostedInv, ProgressIsPosted, OutStands, InStands, Legs
<1> QED
  BY PostedInit, PostedStep, <1>1, PTL DEF Spec
-------------------------------------------------------------------------------
(***************************************************************************)
(* Positions, stock and what a request has read                            *)
(***************************************************************************)

\* A request keeps at most one row to take from and one to add to; the row it
\* takes from has been found large enough before the request can write.
ReadOK(r) ==
  /\ from[r] = {} \/ \E v \in from[r] : v \in Slots \X Nat /\ from[r] = {v}
  /\ onto[r] = {} \/ \E n \in onto[r] : n \in Nat /\ onto[r] = {n}
  /\ pc[r] = "write" \/ pc[r] = "out" => \A v \in from[r] : v[2] >= Qty(r)
  /\ pc[r] = "idle" => from[r] = {}

PlacesOK ==
  /\ DOMAIN places \subseteq Slots
  /\ \A s \in DOMAIN places : places[s] \in Nat
  /\ IsFiniteSet(DOMAIN places)
  /\ DOMAIN FirstPlaces \subseteq DOMAIN places

TypeInv ==
  /\ stock \in Balance
  /\ marked \subseteq Requests \X {"out", "in"}
  /\ done \in [Docs -> Nat]
  /\ PlacesOK
  /\ approval \in [NeedsApproval -> {"draft", "submitted", "approved"}]
  /\ req \in [Requests -> Payloads]
  /\ pc \in [Requests -> Points]
  /\ line \in [Requests -> Nat]
  /\ from = [r \in Requests |-> from[r]] /\ onto = [r \in Requests |-> onto[r]]
  /\ \A r \in Requests : ReadOK(r)

LEMMA FirstTotal == SumFunction(FirstPlaces) \in Nat
<1> DEFINE D == DOMAIN FirstPlaces
<1>1. IsFiniteSet(D) /\ \A s \in D : FirstPlaces[s] \in Nat
  OBVIOUS
<1> HIDE DEF D
<1> QED
  BY <1>1, SumNat DEF SumFunction, D

LEMMA TypeInit == Init => TypeInv
BY FirstTotal DEF Init, TypeInv, PlacesOK, ReadOK, FirstStock, Balance, ZeroBalance, Columns, Points

\* A posting changes every column by a whole quantity.
LEMMA BalanceAfter ==
  ASSUME NEW b \in Balance, NEW t, NEW n \in Int
  PROVE  Inv!ApplyTransaction(b, t, n) \in Balance
BY DEF Inv!ApplyTransaction, Inv!Moved, Inv!Columns, Balance, Columns

LEMMA CallKeepsBalance ==
  ASSUME NEW r \in Requests, NEW leg, CallInventory(r, leg),
         req \in [Requests -> Payloads], stock \in Balance
  PROVE  stock' \in Balance
<1>1. Qty(r) \in Int
  BY PayloadShape
<1>2. CASE UNCHANGED inv
  BY <1>2 DEF inv
<1>3. CASE Inv!Post(Posting(r, leg))
  <2>1. stock' = Inv!ApplyTransaction(stock, Posting(r, leg).type, Qty(r))
    BY <1>3 DEF Inv!Post, Posting
  <2> QED
    BY <1>1, <2>1, BalanceAfter
<1> QED
  BY <1>2, <1>3 DEF CallInventory

\* A request moves on: what it has read stays in order, and so does what the
\* other requests have read.
LEMMA ReadsStay ==
  ASSUME TypeInv, NEW r \in Requests, NEW p \in Points, NEW f, NEW o,
         req' = req, pc' = [pc EXCEPT ![r] = p],
         from' = [from EXCEPT ![r] = f], onto' = [onto EXCEPT ![r] = o],
         f = {} \/ \E v \in f : v \in Slots \X Nat /\ f = {v},
         o = {} \/ \E n \in o : n \in Nat /\ o = {n},
         p # "idle", p \in {"write", "out"} => \A v \in f : v[2] >= Qty(r)
  PROVE  /\ pc' \in [Requests -> Points]
         /\ (from = [q \in Requests |-> from[q]])' /\ (onto = [q \in Requests |-> onto[q]])'
         /\ \A q \in Requests : ReadOK(q)'
<1>1. \A q \in Requests : Qty(q)' = Qty(q)
  BY DEF Qty
<1>2. pc'[r] = p /\ from'[r] = f /\ onto'[r] = o
  BY DEF TypeInv
<1>3. ReadOK(r)'
  BY <1>1, <1>2 DEF ReadOK
<1>4. ASSUME NEW q \in Requests, q # r PROVE ReadOK(q)'
  <2>1. pc'[q] = pc[q] /\ from'[q] = from[q] /\ onto'[q] = onto[q]
    BY <1>4 DEF TypeInv
  <2>2. ReadOK(q)
    BY DEF TypeInv
  <2> QED
    BY <1>1, <2>1, <2>2 DEF ReadOK
<1> QED
  BY <1>3, <1>4 DEF TypeInv

\* The row a request writes: never below zero, because the request has found
\* the row it takes from large enough.
LEMMA WrittenRow ==
  ASSUME TypeInv, NEW r \in Requests, pc[r] = "write",
         NEW s, s \in DOMAIN places \/ (PutsIn(Doc(r)) /\ s = To(r))
  PROVE  RowAfter(r, s) \in Nat
<1>1. Qty(r) \in Nat /\ ReadOK(r)
  BY PayloadShape DEF TypeInv
<1>2. CASE PutsIn(Doc(r)) /\ s = To(r)
  <2>1. FoundThere(r) \in Nat
    BY <1>1 DEF ReadOK, FoundThere
  <2> QED
    BY <1>1, <1>2, <2>1 DEF RowAfter
<1>3. CASE ~ (PutsIn(Doc(r)) /\ s = To(r)) /\ \E v \in from[r] : v[1] = s
  <2>1. PICK v \in from[r] : v \in Slots \X Nat /\ from[r] = {v}
    BY <1>1, <1>3 DEF ReadOK
  <2>2. (CHOOSE w \in from[r] : w[1] = s) = v
    BY <1>3, <2>1
  <2>3. v[2] \in Nat /\ v[2] >= Qty(r)
    BY <1>1, <2>1 DEF ReadOK
  <2>4. RowAfter(r, s) = v[2] - Qty(r)
    BY <1>3, <2>2 DEF RowAfter
  <2> HIDE DEF RowAfter
  <2> QED
    BY <1>1, <2>3, <2>4
<1>4. CASE ~ (PutsIn(Doc(r)) /\ s = To(r)) /\ ~ \E v \in from[r] : v[1] = s
  BY <1>4 DEF RowAfter, TypeInv, PlacesOK
<1> QED
  BY <1>2, <1>3, <1>4

LEMMA WrittenPlaces ==
  ASSUME TypeInv, NEW r \in Requests, pc[r] = "write", places' = PlacesAfter(r)
  PROVE  PlacesOK'
<1> DEFINE new == IF PutsIn(Doc(r)) THEN {To(r)} ELSE {}
<1>1. places' = [s \in DOMAIN places \cup new |-> RowAfter(r, s)]
  BY DEF PlacesAfter
<1>2. new \subseteq Slots /\ IsFiniteSet(DOMAIN places \cup new)
  <2>1. req[r] \in Payloads
    BY DEF TypeInv
  <2>2. To(r) \in Slots
    BY <2>1 DEF To
  <2>3. IsFiniteSet(DOMAIN places) /\ IsFiniteSet(DOMAIN places \cup {To(r)})
    BY FS_AddElement DEF TypeInv, PlacesOK
  <2>4. DOMAIN places \cup {} = DOMAIN places
    OBVIOUS
  <2> QED
    BY <2>2, <2>3, <2>4
<1>3. \A s \in DOMAIN places \cup new : RowAfter(r, s) \in Nat
  BY WrittenRow
<1>4. DOMAIN places' = DOMAIN places \cup new /\ \A s \in DOMAIN places' : places'[s] \in Nat
  BY <1>1, <1>3
<1> HIDE DEF new
<1> QED
  BY <1>2, <1>4 DEF TypeInv, PlacesOK

LEMMA TypeStep == TypeInv /\ [Next]_vars => TypeInv'
<1> SUFFICES ASSUME TypeInv, [Next]_vars PROVE TypeInv'
  OBVIOUS
<1> USE DEF Goto, inv, wms, mem
\* Most steps leave the books alone and only move the request on.
<1>1. ASSUME NEW r \in Requests, NEW p \in Points, NEW f, NEW o,
             UNCHANGED <<marked, done, places, approval, req>>,
             stock' \in Balance, line' \in [Requests -> Nat],
             pc' = [pc EXCEPT ![r] = p],
             from' = [from EXCEPT ![r] = f], onto' = [onto EXCEPT ![r] = o],
             f = {} \/ \E v \in f : v \in Slots \X Nat /\ f = {v},
             o = {} \/ \E n \in o : n \in Nat /\ o = {n},
             p # "idle", p \in {"write", "out"} => \A v \in f : v[2] >= Qty(r)
      PROVE  TypeInv'
  <2>1. /\ pc' \in [Requests -> Points]
        /\ (from = [q \in Requests |-> from[q]])' /\ (onto = [q \in Requests |-> onto[q]])'
        /\ \A q \in Requests : ReadOK(q)'
    BY <1>1, ReadsStay
  <2>2. PlacesOK'
    BY <1>1 DEF TypeInv, PlacesOK
  <2> QED
    BY <1>1, <2>1, <2>2 DEF TypeInv
<1>2. ASSUME NEW r \in Requests PROVE
        /\ from[r] = {} \/ \E v \in from[r] : v \in Slots \X Nat /\ from[r] = {v}
        /\ onto[r] = {} \/ \E n \in onto[r] : n \in Nat /\ onto[r] = {n}
        /\ pc[r] = "write" \/ pc[r] = "out" => \A v \in from[r] : v[2] >= Qty(r)
        /\ pc[r] = "idle" => from[r] = {}
        /\ from = [from EXCEPT ![r] = from[r]] /\ onto = [onto EXCEPT ![r] = onto[r]]
  BY DEF TypeInv, ReadOK
<1>3. ASSUME NEW r \in Requests, Check(r) PROVE TypeInv'
  <2>1. /\ UNCHANGED <<stock, marked, done, places, approval, req>>
        /\ onto' = [onto EXCEPT ![r] = onto[r]]
        /\ line' \in [Requests -> Nat]
    BY <1>2, <1>3, PayloadShape DEF TypeInv, Check
  <2>2. PICK p \in {"out", "in"} : pc' = [pc EXCEPT ![r] = p]
    BY <1>3 DEF Check
  <2>3. p \in Points /\ p # "idle"
    BY DEF Points, InFlightPoints
  <2>4. CASE Kind[Doc(r)] = "picking"
    <3>1. PICK s \in Sources[Doc(r)] :
            Stocked(s, Qty(r)) /\ from' = [from EXCEPT ![r] = {<<s, places[s]>>}]
      BY <1>3, <2>4 DEF Check
    <3>2. s \in Slots /\ places[s] \in Nat /\ places[s] >= Qty(r)
      BY <3>1 DEF Stocked, TypeInv, PlacesOK
    <3> DEFINE f == {<<s, places[s]>>}
    <3>3. (\E v \in f : v \in Slots \X Nat /\ f = {v}) /\ \A v \in f : v[2] >= Qty(r)
      BY <3>2
    <3>4. from' = [from EXCEPT ![r] = f] /\ stock' \in Balance
      BY <2>1, <3>1 DEF TypeInv
    <3> HIDE DEF f
    <3> QED
      BY <1>1, <1>2, <2>1, <2>2, <2>3, <3>3, <3>4
  <2>5. CASE Kind[Doc(r)] # "picking"
    <3>1. from' = [from EXCEPT ![r] = from[r]] /\ from[r] = {} /\ stock' \in Balance
      BY <1>2, <1>3, <2>1, <2>5 DEF Check, TypeInv
    <3> QED
      BY <1>1, <1>2, <2>1, <2>2, <2>3, <3>1
  <2> QED
    BY <2>4, <2>5
<1>4. ASSUME NEW r \in Requests, PostOut(r) \/ PostIn(r) PROVE TypeInv'
  <2>1. /\ UNCHANGED <<marked, done, places, approval, req, line>>
        /\ from' = [from EXCEPT ![r] = from[r]] /\ onto' = [onto EXCEPT ![r] = onto[r]]
    BY <1>2, <1>4, CallPosts DEF PostOut, PostIn
  <2>2. stock' \in Balance
    BY <1>4, CallKeepsBalance DEF PostOut, PostIn, TypeInv
  <2>3. PICK p \in {"in", "write", "source", "target"} :
          pc' = [pc EXCEPT ![r] = p] /\ (p = "write" => pc[r] = "out")
    BY <1>4 DEF PostOut, PostIn
  <2>4. p \in Points /\ p # "idle" /\ (p \in {"write", "out"} => \A v \in from[r] : v[2] >= Qty(r))
    BY <1>2, <2>3 DEF Points, InFlightPoints
  <2>5. line' \in [Requests -> Nat]
    BY <2>1 DEF TypeInv
  <2> QED
    BY <1>1, <1>2, <2>1, <2>2, <2>3, <2>4, <2>5
<1>5. ASSUME NEW r \in Requests,
             CheckRefused(r) \/ PostRefused(r) \/ WriteRefused(r) \/ Fail(r)
      PROVE  TypeInv'
  <2>1. /\ UNCHANGED <<marked, done, places, approval, req>> /\ stock' \in Balance
        /\ line' \in [Requests -> Nat] /\ pc' = [pc EXCEPT ![r] = "failed"]
        /\ from' = [from EXCEPT ![r] = from[r]] /\ onto' = [onto EXCEPT ![r] = onto[r]]
    BY <1>2, <1>5 DEF CheckRefused, PostRefused, WriteRefused, Fail, TypeInv
  <2>2. "failed" \in Points /\ "failed" # "idle" /\ "failed" \notin {"write", "out"}
    BY DEF Points, Outcomes
  <2> QED
    BY <1>1, <1>2, <2>1, <2>2
<1>6. ASSUME NEW r \in Requests, ReadSource(r) PROVE TypeInv'
  <2>1. /\ UNCHANGED <<marked, done, places, approval, req>> /\ stock' \in Balance
        /\ line' \in [Requests -> Nat] /\ pc' = [pc EXCEPT ![r] = "target"]
        /\ onto' = [onto EXCEPT ![r] = onto[r]]
    BY <1>2, <1>6 DEF ReadSource, TypeInv
  <2>2. "target" \in Points /\ "target" # "idle" /\ "target" \notin {"write", "out"}
    BY DEF Points, InFlightPoints
  <2>3. CASE UNCHANGED from
    <3>1. from' = [from EXCEPT ![r] = from[r]]
      BY <1>2, <2>3
    <3> QED
      BY <1>1, <1>2, <2>1, <2>2, <3>1
  <2>4. CASE \E s \in Sources[Doc(r)] \cap DOMAIN places :
               from' = [from EXCEPT ![r] = {<<s, places[s]>>}]
    <3>1. PICK s \in Sources[Doc(r)] \cap DOMAIN places :
            from' = [from EXCEPT ![r] = {<<s, places[s]>>}]
      BY <2>4
    <3>2. s \in Slots /\ places[s] \in Nat
      BY <3>1 DEF TypeInv, PlacesOK
    <3> DEFINE f == {<<s, places[s]>>}
    <3>3. \E v \in f : v \in Slots \X Nat /\ f = {v}
      BY <3>2
    <3>4. from' = [from EXCEPT ![r] = f]
      BY <3>1
    <3> HIDE DEF f
    <3> QED
      BY <1>1, <1>2, <2>1, <2>2, <3>3, <3>4
  <2> QED
    BY <1>6, <2>3, <2>4 DEF ReadSource
<1>7. ASSUME NEW r \in Requests, ReadTarget(r) PROVE TypeInv'
  <2>1. /\ UNCHANGED <<marked, done, places, approval, req>> /\ stock' \in Balance
        /\ line' \in [Requests -> Nat] /\ pc' = [pc EXCEPT ![r] = "write"]
        /\ from' = [from EXCEPT ![r] = from[r]]
    BY <1>2, <1>7 DEF ReadTarget, TypeInv
  <2>2. \A v \in from[r] : v[2] >= Qty(r)
    <3>1. Qty(r) \in Nat
      BY PayloadShape DEF TypeInv
    <3>2. \A v \in from[r] : v[2] \in Nat
      BY <1>2
    <3> QED
      BY <1>7, <3>1, <3>2 DEF ReadTarget, Overdrawn
  <2>3. "write" \in Points /\ "write" # "idle"
    BY DEF Points, InFlightPoints
  <2>4. CASE \E v \in from[r] : v[1] = To(r)
    <3>1. PICK v \in from[r] : v \in Slots \X Nat /\ from[r] = {v}
      BY <1>2, <2>4
    <3>2. onto' = [onto EXCEPT ![r] = {v[2] - Qty(r)}]
      <4>1. {w[2] - Qty(r) : w \in from[r]} = {v[2] - Qty(r)}
        BY <3>1
      <4> QED
        BY <1>7, <2>4, <4>1 DEF ReadTarget
    <3>3. v[2] - Qty(r) \in Nat
      BY <2>2, <3>1, PayloadShape DEF TypeInv
    <3> DEFINE o == {v[2] - Qty(r)}
    <3>4. onto' = [onto EXCEPT ![r] = o] /\ \E n \in o : n \in Nat /\ o = {n}
      BY <3>2, <3>3
    <3> HIDE DEF o
    <3> QED
      BY <1>1, <1>2, <2>1, <2>2, <2>3, <3>4
  <2>5. CASE ~ \E v \in from[r] : v[1] = To(r)
    <3> DEFINE o == {places[s] : s \in {To(r)} \cap DOMAIN places}
    <3>1. onto' = [onto EXCEPT ![r] = o]
      BY <1>7, <2>5 DEF ReadTarget
    <3>2. o = {} \/ \E n \in o : n \in Nat /\ o = {n}
      <4>1. CASE To(r) \in DOMAIN places
        BY <4>1 DEF TypeInv, PlacesOK
      <4>2. CASE To(r) \notin DOMAIN places
        BY <4>2
      <4> QED
        BY <4>1, <4>2
    <3> HIDE DEF o
    <3> QED
      BY <1>1, <1>2, <2>1, <2>2, <2>3, <3>1, <3>2
  <2> QED
    BY <2>4, <2>5
<1>8. ASSUME NEW r \in Requests, Write(r) PROVE TypeInv'
  <2>1. /\ UNCHANGED <<stock, marked, approval, req, line>> /\ pc[r] = "write"
        /\ places' = PlacesAfter(r) /\ pc' = [pc EXCEPT ![r] = "done"]
        /\ done' = [done EXCEPT ![Doc(r)] = line[r] + Qty(r)]
        /\ from' = [from EXCEPT ![r] = from[r]] /\ onto' = [onto EXCEPT ![r] = onto[r]]
    BY <1>2, <1>8 DEF Write
  <2>2. PlacesOK'
    BY <2>1, WrittenPlaces
  <2>3. "done" \in Points /\ "done" # "idle" /\ "done" \notin {"write", "out"}
    BY DEF Points, Outcomes
  <2>4. /\ pc' \in [Requests -> Points]
        /\ (from = [q \in Requests |-> from[q]])' /\ (onto = [q \in Requests |-> onto[q]])'
        /\ \A q \in Requests : ReadOK(q)'
    BY <1>2, <2>1, <2>3, ReadsStay
  <2>5. done' \in [Docs -> Nat]
    BY <2>1, PayloadShape DEF TypeInv
  <2> QED
    BY <2>1, <2>2, <2>4, <2>5 DEF TypeInv
<1>9. ASSUME UNCHANGED <<stock, done, places, req, pc, line, from, onto>>,
             marked' \subseteq Requests \X {"out", "in"},
             approval' \in [NeedsApproval -> {"draft", "submitted", "approved"}]
      PROVE  TypeInv'
  <2>1. PlacesOK' /\ \A r \in Requests : ReadOK(r)'
    BY <1>9 DEF TypeInv, PlacesOK, ReadOK, Qty
  <2> QED
    BY <1>9, <2>1 DEF TypeInv
<1>10. ASSUME NEW d \in NeedsApproval, Submit(d) \/ Approve(d) PROVE TypeInv'
  <2>1. approval' \in [NeedsApproval -> {"draft", "submitted", "approved"}]
    BY <1>10 DEF Submit, Approve, SetApproval, TypeInv
  <2> QED
    BY <1>9, <1>10, <2>1 DEF Submit, Approve, SetApproval, TypeInv
<1>12. ASSUME NEW r \in Requests, Mark(r) PROVE TypeInv'
  BY <1>9, <1>12 DEF Mark, TypeInv
<1>11. CASE UNCHANGED vars
  BY <1>9, <1>11 DEF vars, TypeInv
<1> QED
  BY <1>3, <1>4, <1>5, <1>6, <1>7, <1>8, <1>10, <1>11, <1>12 DEF Next, Step

\* At most one row is locked and written per side of a movement.
LEMMA AtMostOne ==
  ASSUME NEW S, S = {} \/ \E x \in S : S = {x} PROVE Cardinality(S) <= 1
<1>1. CASE S = {}
  BY <1>1, FS_EmptySet
<1>2. CASE \E x \in S : S = {x}
  <2>1. PICK x \in S : S = {x}
    BY <1>2
  <2>2. Cardinality({x}) = 1
    BY FS_Singleton
  <2> QED
    BY <2>1, <2>2
<1> QED
  BY <1>1, <1>2

\* No position goes below zero, whatever overlaps, dies and is repeated: the
\* values that picking and the transfers write were computed from a row that
\* held enough when it was read (picking 58-96, transfer 128-160).
THEOREM MovementTypes == Spec => []TypeOK
<1>1. TypeInv => TypeOK
  <2> SUFFICES ASSUME TypeInv PROVE TypeOK
    OBVIOUS
  <2>1. ASSUME NEW r \in Requests
        PROVE  /\ \A v \in from[r] : v[1] \in Slots /\ v[2] \in Nat
               /\ \A n \in onto[r] : n \in Nat
               /\ Cardinality(from[r]) <= 1 /\ Cardinality(onto[r]) <= 1
    <3>1. ReadOK(r)
      BY DEF TypeInv
    <3>2. Cardinality(from[r]) <= 1 /\ Cardinality(onto[r]) <= 1
      BY <3>1, AtMostOne DEF ReadOK
    <3> QED
      BY <3>1, <3>2 DEF ReadOK
  <2> QED
    BY <2>1 DEF TypeInv, TypeOK, PlacesOK
<1> QED
  BY TypeInit, TypeStep, <1>1, PTL DEF Spec
-------------------------------------------------------------------------------
(***************************************************************************)
(* Retrying heals: what a failed movement has left behind                  *)
(***************************************************************************)

\* The movements that have posted a leg, or that a client was told of.
Movements == {<<k[1], k[3]>> : k \in posted} \cup ToldMovements

\* What a movement adds to the positions, and what it has added to the balance
\* ahead of them: by the legs posted, less what its write has brought.
Moves(p)    == (IF PutsIn(p[1]) THEN p[2] ELSE 0) - (IF TakesOut(p[1]) THEN p[2] ELSE 0)
Leg(p, leg) == IF Key(p[1], leg, p[2]) \in posted THEN p[2] ELSE 0
Owed(p)     == Leg(p, "in") - Leg(p, "out") - (IF Told(p) THEN Moves(p) ELSE 0)
Debts == [p \in Movements |-> Owed(p)]

BooksAgree == stock["onHand"] = SumFunction(places) + SumFunction(Debts)

PointFits(r) ==
  /\ pc[r] \in {"out", "source"} => TakesOut(Doc(r))
  /\ pc[r] \in {"in", "source", "target"} => PutsIn(Doc(r))

PostedByRequest ==
  \A k \in posted : \E r \in Requests :
    \/ k = Key(Doc(r), "out", Qty(r)) /\ TakesOut(Doc(r))
    \/ k = Key(Doc(r), "in", Qty(r)) /\ PutsIn(Doc(r))

\* The rows a careful request has read are still what the table holds.
Holding(r) == pc[r] \in {"target", "write"} \/ (Kind[Doc(r)] = "picking" /\ InFlight(r))

RowsAsRead(r) ==
  /\ ~ TakesOut(Doc(r)) => from[r] = {}
  /\ TakesOut(Doc(r)) /\ Holding(r) => \E s \in DOMAIN places : from[r] = {<<s, places[s]>>}
  /\ pc[r] = "write" /\ PutsIn(Doc(r)) =>
       onto[r] = IF \E v \in from[r] : v[1] = To(r)
                 THEN {v[2] - Qty(r) : v \in from[r]}
                 ELSE {places[s] : s \in {To(r)} \cap DOMAIN places}

HealInv ==
  /\ IsFiniteSet(Movements)
  /\ \A r \in Requests : PointFits(r)
  /\ PostedByRequest
  /\ careful /\ SourceFound =>
       /\ OneAtATime /\ NoRepeats
       /\ \A r \in Requests : RowsAsRead(r)
       /\ BooksAgree

LEMMA HealInit == Init => HealInv
<1> SUFFICES ASSUME Init PROVE HealInv
  OBVIOUS
<1>1. posted = {} /\ places = FirstPlaces /\ stock = FirstStock
  BY DEF Init
<1>6. \A r \in Requests : pc[r] = "idle" /\ from[r] = {}
  BY DEF Init
<1>2. Movements = {} /\ IsFiniteSet(Movements)
  <2>1. Movements = {}
    BY <1>1, <1>6 DEF Movements, ToldMovements
  <2> QED
    BY <2>1, FS_EmptySet
<1>3. SumFunction(Debts) = 0
  <2>1. DOMAIN Debts = {}
    BY <1>2 DEF Debts
  <2> HIDE DEF Debts
  <2> QED
    BY <2>1, SumEmpty DEF SumFunction
<1>4. stock["onHand"] = SumFunction(places)
  BY <1>1 DEF FirstStock, ZeroBalance, Columns
<1>5. BooksAgree
  <2> SUFFICES ASSUME TRUE PROVE stock["onHand"] = SumFunction(places) + SumFunction(Debts)
    BY DEF BooksAgree
  <2>1. SumFunction(places) \in Nat
    BY <1>1, FirstTotal
  <2> HIDE DEF Debts
  <2> QED
    BY <1>3, <1>4, <2>1
<1>7. OneAtATime /\ NoRepeats /\ \A r \in Requests : RowsAsRead(r) /\ PointFits(r)
  BY <1>6 DEF OneAtATime, NoRepeats, RowsAsRead, PointFits, Holding, InFlight, InFlightPoints
<1>8. PostedByRequest
  BY <1>1 DEF PostedByRequest
<1> QED
  BY <1>2, <1>5, <1>7, <1>8 DEF HealInv

\* The table of debts is a finite table of integers.
LEMMA DebtsType ==
  ASSUME TypeInv, HealInv
  PROVE  /\ DOMAIN Debts = Movements /\ IsFiniteSet(DOMAIN Debts)
         /\ \A p \in Movements : p[2] \in Nat /\ Owed(p) \in Int /\ Debts[p] = Owed(p)
<1>1. ASSUME NEW p \in Movements PROVE p[2] \in Nat
  <2>1. CASE p \in ToldMovements
    BY <2>1, PayloadShape DEF TypeInv, ToldMovements, Movement
  <2>2. CASE p \notin ToldMovements
    <3>1. PICK k \in posted : p = <<k[1], k[3]>>
      BY <2>2 DEF Movements
    <3>2. PICK r \in Requests : k[3] = Qty(r)
      BY DEF HealInv, PostedByRequest, Key
    <3> QED
      BY <3>1, <3>2, PayloadShape DEF TypeInv
  <2> QED
    BY <2>1, <2>2
<1>2. ASSUME NEW p \in Movements PROVE Owed(p) \in Int
  BY <1>1 DEF Owed, Leg, Moves
<1> QED
  BY <1>1, <1>2 DEF Debts, HealInv

LEMMA PlacesTotal ==
  ASSUME TypeInv
  PROVE  /\ IsFiniteSet(DOMAIN places) /\ \A s \in DOMAIN places : places[s] \in Int
         /\ SumFunction(places) \in Int
<1> DEFINE D == DOMAIN places
<1>1. IsFiniteSet(D) /\ \A s \in D : places[s] \in Int
  BY DEF TypeInv, PlacesOK
<1> HIDE DEF D
<1>2. SumFunctionOnSet(places, D) \in Int
  BY <1>1, SumType
<1> QED
  BY <1>1, <1>2 DEF D, SumFunction

\* What nobody has posted or was told of is not owed.
LEMMA NothingOwed ==
  ASSUME NEW r \in Requests, Movement(r) \notin Movements
  PROVE  /\ \A leg : Key(Doc(r), leg, Qty(r)) \notin posted
         /\ Owed(Movement(r)) = 0
<1>1. ASSUME NEW leg PROVE Key(Doc(r), leg, Qty(r)) \notin posted
  <2>1. ASSUME Key(Doc(r), leg, Qty(r)) \in posted PROVE FALSE
    <3>1. <<Key(Doc(r), leg, Qty(r))[1], Key(Doc(r), leg, Qty(r))[3]>> = Movement(r)
      BY DEF Key, Movement
    <3> QED
      BY <2>1, <3>1 DEF Movements
  <2> QED
    BY <2>1
<1>2. ~ Told(Movement(r))
  BY DEF Told, Movements, ToldMovements
<1> QED
  BY <1>1, <1>2 DEF Owed, Leg, Movement

\* A posting under a new key moves its quantity on the stock on hand.
LEMMA OnHandAfter ==
  ASSUME NEW r \in Requests, NEW leg \in {"out", "in"}, stock \in Balance,
         req \in [Requests -> Payloads], Inv!Post(Posting(r, leg))
  PROVE  stock'["onHand"] = stock["onHand"] + (IF leg = "in" THEN Qty(r) ELSE - Qty(r))
<1> DEFINE t == Posting(r, leg).type
<1>1. stock' = Inv!ApplyTransaction(stock, t, Qty(r)) /\ Qty(r) \in Nat /\ Doc(r) \in Docs
  BY PayloadShape DEF Inv!Post, Posting
<1>2. /\ leg = "out" => t \in {"sales_issue", "transfer_out"}
      /\ leg = "in" => t \in {"purchase_receipt", "transfer_in"}
  BY <1>1 DEF Posting
<1>3. stock["onHand"] \in Int
  BY DEF Balance, Columns
<1>4. stock'["onHand"] = stock["onHand"]
                         + (IF t \in Inv!PutsInto("onHand") THEN Qty(r) ELSE 0)
                         - (IF t \in Inv!TakesFrom("onHand") THEN Qty(r) ELSE 0)
  <2> HIDE DEF t
  <2> QED
    BY <1>1 DEF Inv!ApplyTransaction, Inv!Moved, Inv!Columns
<1> HIDE DEF t
<1>5. CASE leg = "out"
  <2>1. t \notin Inv!PutsInto("onHand") /\ t \in Inv!TakesFrom("onHand")
    BY <1>2, <1>5 DEF Inv!PutsInto, Inv!TakesFrom
  <2> QED
    BY <1>1, <1>3, <1>4, <1>5, <2>1
<1>6. CASE leg = "in"
  <2>1. t \in Inv!PutsInto("onHand") /\ t \notin Inv!TakesFrom("onHand")
    BY <1>2, <1>6 DEF Inv!PutsInto, Inv!TakesFrom
  <2> QED
    BY <1>1, <1>3, <1>4, <1>6, <2>1
<1> QED
  BY <1>5, <1>6

\* The movements after a step: nothing else is posted or told.
LEMMA MovementsAfter ==
  ASSUME NEW r \in Requests, NEW leg, NEW m, m = Movement(r),
         posted \subseteq posted', posted' \subseteq posted \cup {Key(Doc(r), leg, Qty(r))},
         ToldMovements \subseteq ToldMovements', ToldMovements' \subseteq ToldMovements \cup {m}
  PROVE  /\ Movements \subseteq Movements' /\ Movements' \subseteq Movements \cup {m}
         /\ Key(Doc(r), leg, Qty(r)) \in posted' => m \in Movements'
<1> DEFINE k == Key(Doc(r), leg, Qty(r))
<1>1. <<k[1], k[3]>> = m
  BY DEF Key, Movement
<1>2. k \in posted' => <<k[1], k[3]>> \in Movements'
  BY DEF Movements
<1> HIDE DEF k
<1>3. Movements' \subseteq Movements \cup {m}
  <2>1. ASSUME NEW p \in Movements' PROVE p \in Movements \cup {m}
    <3>1. CASE p \in ToldMovements'
      BY <3>1 DEF Movements
    <3>2. CASE p \notin ToldMovements'
      <4>1. PICK x \in posted' : p = <<x[1], x[3]>>
        BY <2>1, <3>2 DEF Movements
      <4>2. CASE x = k
        BY <1>1, <4>1, <4>2
      <4>3. CASE x \in posted
        BY <4>1, <4>3 DEF Movements
      <4> QED
        BY <4>2, <4>3 DEF k
    <3> QED
      BY <3>1, <3>2
  <2> QED
    BY <2>1
<1> QED
  BY <1>1, <1>2, <1>3 DEF Movements, k

\* The books stay balanced by a posting for a movement nobody was told of: what
\* the balance moves by is owed to the positions.
LEMMA PostingBooked ==
  ASSUME TypeInv, HealInv, BooksAgree, NEW r \in Requests, NEW leg \in {"out", "in"},
         CallInventory(r, leg), places' = places, NEW m, m = Movement(r), ~ Told(m),
         ToldMovements' = ToldMovements, \A p : Told(p)' <=> Told(p)
  PROVE  BooksAgree'
<1> DEFINE d == IF leg = "in" THEN Qty(r) ELSE - Qty(r)
<1>1. CASE UNCHANGED inv
  <2>1. stock' = stock /\ posted' = posted
    BY <1>1 DEF inv
  <2>2. Movements' = Movements
    BY <2>1 DEF Movements
  <2>3. ASSUME NEW p \in Movements PROVE Owed(p)' = Owed(p)
    BY <2>1, <2>3 DEF Owed, Leg, Moves, PutsIn, TakesOut
  <2>4. Debts' = Debts
    BY <2>2, <2>3 DEF Debts
  <2> QED
    BY <2>1, <2>4 DEF BooksAgree
<1>2. CASE Inv!Post(Posting(r, leg))
  <2>1. /\ Key(Doc(r), leg, Qty(r)) \notin posted
        /\ posted' = posted \cup {Key(Doc(r), leg, Qty(r))}
    BY <1>2 DEF Inv!Post, Posting
  <2>2. Movements' = Movements \cup {m}
    BY <2>1, MovementsAfter
  <2>3. Qty(r) \in Nat /\ m[1] = Doc(r) /\ m[2] = Qty(r)
    BY PayloadShape DEF TypeInv, Movement
  <2>4. Owed(m)' = Owed(m) + d
    <3>1. ~ Told(m) /\ ~ Told(m)'
      OBVIOUS
    <3>2. \A l \in {"out", "in"} :
            Leg(m, l)' = IF l = leg THEN Qty(r) ELSE Leg(m, l)
      BY <2>1, <2>3 DEF Leg, Key
    <3>3. Leg(m, leg) = 0
      BY <2>1, <2>3 DEF Leg
    <3>4. \A l \in {"out", "in"} : Leg(m, l) \in Nat
      BY <2>3 DEF Leg
    <3>5. /\ Owed(m) = Leg(m, "in") - Leg(m, "out") - 0
          /\ Owed(m)' = Leg(m, "in")' - Leg(m, "out")' - 0
      BY <3>1 DEF Owed
    <3> QED
      BY <2>3, <3>2, <3>3, <3>4, <3>5
  <2>5. ASSUME NEW p \in Movements, p # m PROVE Owed(p)' = Owed(p)
    <3>1. \A l \in {"out", "in"} : Key(p[1], l, p[2]) # Key(Doc(r), leg, Qty(r))
      BY <2>5 DEF Key, Movements, ToldMovements, Movement
    <3>2. \A l \in {"out", "in"} : Leg(p, l)' = Leg(p, l)
      BY <2>1, <3>1 DEF Leg
    <3>3. Told(p)' <=> Told(p)
      OBVIOUS
    <3> QED
      BY <3>2, <3>3 DEF Owed, Moves, PutsIn, TakesOut
  <2>6. Debts' = Updated(Debts, m, Owed(m) + d)
    <3>1. Debts' = [p \in Movements \cup {m} |-> Owed(p)']
      BY <2>2 DEF Debts
    <3>2. Updated(Debts, m, Owed(m) + d)
            = [p \in Movements \cup {m} |-> IF p = m THEN Owed(m) + d ELSE Debts[p]]
      BY DEF Updated, Debts
    <3>3. \A p \in Movements \cup {m} :
            Owed(p)' = IF p = m THEN Owed(m) + d ELSE Debts[p]
      BY <2>4, <2>5 DEF Debts
    <3> QED
      BY <3>1, <3>2, <3>3
  <2>7. Owed(m) \in Int /\ d \in Int
    BY <2>3 DEF Owed, Leg, Moves
  <2>8. /\ SumFunction(Debts) \in Int
        /\ SumFunction(Debts') = SumFunction(Debts) + (Owed(m) + d)
                                 - (IF m \in Movements THEN Owed(m) ELSE 0)
    <3>1. /\ IsFiniteSet(DOMAIN Debts) /\ DOMAIN Debts = Movements
          /\ \A p \in DOMAIN Debts : Debts[p] \in Int /\ Debts[p] = Owed(p)
      BY DebtsType
    <3>2. Owed(m) + d \in Int
      BY <2>7
    <3> HIDE DEF d
    <3>3. /\ SumFunction(Debts) \in Int
          /\ SumFunction(Updated(Debts, m, Owed(m) + d))
               = SumFunction(Debts) + (Owed(m) + d) - (IF m \in DOMAIN Debts THEN Debts[m] ELSE 0)
      BY <3>1, <3>2, SumUpdated
    <3> QED
      BY <2>6, <3>1, <3>3
  <2>9. m \notin Movements => Owed(m) = 0
    BY NothingOwed
  <2>10. SumFunction(Debts') = SumFunction(Debts) + d
    <3> HIDE DEF d
    <3> QED
      BY <2>7, <2>8, <2>9
  <2>11. stock'["onHand"] = stock["onHand"] + d
    BY <1>2, OnHandAfter DEF TypeInv
  <2>12. SumFunction(places) \in Int
    BY PlacesTotal
  <2> HIDE DEF d
  <2> QED
    BY <2>7, <2>8, <2>10, <2>11, <2>12 DEF BooksAgree
<1> QED
  BY <1>1, <1>2 DEF CallInventory

\* Nothing is posted or written, and nobody is told.
LEMMA BooksStay ==
  ASSUME BooksAgree, UNCHANGED <<stock, posted, places>>,
         ToldMovements' = ToldMovements, \A p : Told(p)' <=> Told(p)
  PROVE  BooksAgree'
<1>1. Movements' = Movements
  BY DEF Movements
<1>2. \A p \in Movements : Owed(p)' = Owed(p)
  BY DEF Owed, Leg, Moves, PutsIn, TakesOut
<1>3. Debts' = Debts
  BY <1>1, <1>2 DEF Debts
<1> QED
  BY <1>3 DEF BooksAgree

LEMMA RowHeld ==
  ASSUME NEW r \in Requests, RowsAsRead(r), TakesOut(Doc(r)), Holding(r)
  PROVE  \E s \in DOMAIN places : from[r] = {<<s, places[s]>>}
BY DEF RowsAsRead

\* The positions move by exactly the quantity when the rows read are current.
LEMMA TotalAfter ==
  ASSUME TypeInv, NEW r \in Requests, pc[r] = "write", RowsAsRead(r), places' = PlacesAfter(r)
  PROVE  SumFunction(places')
           = SumFunction(places) + (IF PutsIn(Doc(r)) THEN Qty(r) ELSE 0)
                                 - (IF TakesOut(Doc(r)) THEN Qty(r) ELSE 0)
<1> DEFINE f == places
           D == DOMAIN places
           n == Qty(r)
           t == To(r)
           found == FoundThere(r)
<1>1. n \in Nat /\ IsFiniteSet(D) /\ (\A x \in D : f[x] \in Int) /\ SumFunction(f) \in Int
  BY PayloadShape, PlacesTotal DEF TypeInv
<1>2. CASE ~ TakesOut(Doc(r))
  <2>1. PutsIn(Doc(r)) /\ from[r] = {}
    BY <1>2 DEF RowsAsRead, TakesOut, PutsIn
  <2>2. found = IF t \in D THEN f[t] ELSE 0
    <3>1. onto[r] = {places[s] : s \in {To(r)} \cap DOMAIN places}
      BY <2>1 DEF RowsAsRead
    <3>2. CASE t \in D
      BY <3>1, <3>2 DEF FoundThere
    <3>3. CASE t \notin D
      BY <3>1, <3>3 DEF FoundThere
    <3> QED
      BY <3>2, <3>3
  <2>3. places' = Updated(f, t, found + n)
    BY <2>1 DEF PlacesAfter, RowAfter, Updated
  <2>4. found \in Int
    BY <1>1, <2>2
  <2> HIDE DEF f, D, n, t, found
  <2>5. found + n \in Int
    BY <1>1, <2>4
  <2>6. IsFiniteSet(DOMAIN f) /\ \A x \in DOMAIN f : f[x] \in Int
    BY <1>1 DEF f, D
  <2>7. SumFunction(Updated(f, t, found + n))
          = SumFunction(f) + (found + n) - (IF t \in DOMAIN f THEN f[t] ELSE 0)
    BY <2>5, <2>6, SumUpdated
  <2>8. SumFunction(places') = SumFunction(f) + n
    BY <1>1, <2>2, <2>3, <2>4, <2>7 DEF f, D
  <2> QED
    BY <1>1, <1>2, <2>1, <2>8 DEF f, n
<1>3. CASE TakesOut(Doc(r)) /\ ~ PutsIn(Doc(r))
  <2>1. PICK s \in DOMAIN places : from[r] = {<<s, places[s]>>}
    BY <1>3, RowHeld DEF Holding
  <2>2. (CHOOSE v \in from[r] : v[1] = s)[2] = f[s]
    <3>1. \E v \in from[r] : v[1] = s
      BY <2>1
    <3>2. (CHOOSE v \in from[r] : v[1] = s) \in from[r]
      BY <3>1
    <3> QED
      BY <2>1, <3>2
  <2>3. places' = Updated(f, s, f[s] - n)
    <3>1. RowAfter(r, s) = f[s] - n /\ \A x \in D \ {s} : RowAfter(r, x) = f[x]
      BY <1>3, <2>1, <2>2 DEF RowAfter
    <3>2. places' = [x \in D \cup {s} |-> RowAfter(r, x)]
      <4>1. D \cup {} = D \cup {s}
        BY <2>1
      <4> QED
        BY <1>3, <4>1 DEF PlacesAfter
    <3> QED
      BY <3>1, <3>2 DEF Updated
  <2>4. f[s] - n \in Int /\ f[s] \in Int
    BY <1>1
  <2> HIDE DEF f, D, n, t, found
  <2>6. IsFiniteSet(DOMAIN f) /\ (\A x \in DOMAIN f : f[x] \in Int) /\ s \in DOMAIN f
    BY <1>1 DEF f, D
  <2>7. SumFunction(Updated(f, s, f[s] - n))
          = SumFunction(f) + (f[s] - n) - (IF s \in DOMAIN f THEN f[s] ELSE 0)
    BY <2>4, <2>6, SumUpdated
  <2>8. SumFunction(places') = SumFunction(f) - n
    BY <1>1, <2>3, <2>4, <2>6, <2>7
  <2> QED
    BY <1>1, <1>3, <2>8 DEF f, n
<1>4. CASE TakesOut(Doc(r)) /\ PutsIn(Doc(r))
  <2>1. PICK s \in DOMAIN places : from[r] = {<<s, places[s]>>}
    BY <1>4, RowHeld DEF Holding
  <2>2. (CHOOSE v \in from[r] : v[1] = s)[2] = f[s]
    <3>1. \E v \in from[r] : v[1] = s
      BY <2>1
    <3>2. (CHOOSE v \in from[r] : v[1] = s) \in from[r]
      BY <3>1
    <3> QED
      BY <2>1, <3>2
  <2>3. f[s] - n \in Int /\ f[s] \in Int
    BY <1>1
  \* The row added to is the very row taken from.
  <2>4. CASE t = s
    <3>1. onto[r] = {f[s] - n}
      <4>1. {v[2] - Qty(r) : v \in from[r]} = {f[s] - n}
        BY <2>1
      <4>2. \E v \in from[r] : v[1] = To(r)
        BY <2>1, <2>4
      <4> QED
        BY <1>4, <4>1, <4>2 DEF RowsAsRead
    <3>2. found = f[s] - n
      BY <3>1 DEF FoundThere
    <3>3. found + n = f[s]
      BY <1>1, <2>3, <3>2
    <3>4. places' = Updated(f, s, f[s])
      <4>1. \A x \in D : x = s => RowAfter(r, x) = f[s]
        BY <1>4, <2>4, <3>3 DEF RowAfter
      <4>2. \A x \in D : x # s => RowAfter(r, x) = f[x]
        BY <2>1, <2>4 DEF RowAfter
      <4>3. D \cup {t} = D \cup {s} /\ D \cup {s} = D
        BY <2>1, <2>4
      <4>4. places' = [x \in D \cup {t} |-> RowAfter(r, x)]
        BY <1>4 DEF PlacesAfter
      <4> QED
        BY <4>1, <4>2, <4>3, <4>4 DEF Updated
    <3> HIDE DEF f, D, n, t, found
    <3>5. IsFiniteSet(DOMAIN f) /\ (\A x \in DOMAIN f : f[x] \in Int) /\ s \in DOMAIN f
      BY <1>1 DEF f, D
    <3>6. SumFunction(Updated(f, s, f[s]))
            = SumFunction(f) + f[s] - (IF s \in DOMAIN f THEN f[s] ELSE 0)
      BY <2>3, <3>5, SumUpdated
    <3>7. SumFunction(places') = SumFunction(f)
      BY <1>1, <2>3, <3>4, <3>5, <3>6
    <3> QED
      BY <1>1, <1>4, <3>7 DEF f, n
  <2>5. CASE t # s
    <3>1. onto[r] = {places[x] : x \in {To(r)} \cap DOMAIN places}
      BY <1>4, <2>1, <2>5 DEF RowsAsRead
    <3>2. found = IF t \in D THEN f[t] ELSE 0
      <4>1. CASE t \in D
        BY <3>1, <4>1 DEF FoundThere
      <4>2. CASE t \notin D
        BY <3>1, <4>2 DEF FoundThere
      <4> QED
        BY <4>1, <4>2
    <3>3. found \in Int
      BY <1>1, <3>2
    <3> DEFINE g == Updated(f, s, f[s] - n)
    <3>4. DOMAIN g = D /\ g[s] = f[s] - n /\ \A x \in D \ {s} : g[x] = f[x]
      BY <2>1 DEF Updated
    <3>5. \A x \in D : g[x] \in Int
      BY <1>1, <2>3, <3>4
    <3>6. places' = Updated(g, t, found + n)
      <4>1. RowAfter(r, t) = found + n
        BY <1>4 DEF RowAfter
      <4>2. RowAfter(r, s) = f[s] - n
        BY <1>4, <2>1, <2>2, <2>5 DEF RowAfter
      <4>3. \A x \in D \ {s, t} : RowAfter(r, x) = f[x]
        BY <2>1 DEF RowAfter
      <4>4. places' = [x \in D \cup {t} |-> RowAfter(r, x)]
        BY <1>4 DEF PlacesAfter
      <4>5. \A x \in D \cup {t} : RowAfter(r, x) = IF x = t THEN found + n ELSE g[x]
        BY <2>5, <3>4, <4>1, <4>2, <4>3
      <4> HIDE DEF g, found, n, D, t
      <4> QED
        BY <3>4, <4>4, <4>5 DEF Updated
    <3>7. t \in D => g[t] = f[t]
      BY <2>5, <3>4
    <3> HIDE DEF f, D, n, t, found
    <3>8. IsFiniteSet(DOMAIN f) /\ (\A x \in DOMAIN f : f[x] \in Int) /\ s \in DOMAIN f /\ D = DOMAIN f
      BY <1>1 DEF f, D
    <3>9. SumFunction(g) = SumFunction(f) + (f[s] - n) - (IF s \in DOMAIN f THEN f[s] ELSE 0)
      BY <2>3, <3>8, SumUpdated
    <3>10. found + n \in Int /\ IsFiniteSet(DOMAIN g)
      BY <1>1, <3>3, <3>4
    <3> HIDE DEF g
    <3>11. SumFunction(Updated(g, t, found + n))
             = SumFunction(g) + (found + n) - (IF t \in DOMAIN g THEN g[t] ELSE 0)
      BY <3>4, <3>5, <3>10, SumUpdated
    <3>12. (IF t \in DOMAIN g THEN g[t] ELSE 0) = found
      BY <3>2, <3>4, <3>7
    <3>13. SumFunction(places') = SumFunction(f)
      BY <1>1, <2>3, <3>3, <3>6, <3>8, <3>9, <3>11, <3>12
    <3> QED
      BY <1>1, <1>4, <3>13 DEF f, n
  <2> QED
    BY <2>4, <2>5
<1> QED
  BY <1>2, <1>3, <1>4

\* The write brings to the positions what the movement moves, once.
LEMMA WriteBooked ==
  ASSUME TypeInv, HealInv, BooksAgree, NEW r \in Requests, pc[r] = "write",
         RowsAsRead(r), places' = PlacesAfter(r), UNCHANGED inv,
         NEW m, m = Movement(r), ~ Told(m), Told(m)',
         ToldMovements' = ToldMovements \cup {m},
         \A p : p # m => (Told(p)' <=> Told(p))
  PROVE  BooksAgree'
<1>1. Qty(r) \in Nat /\ m[1] = Doc(r) /\ m[2] = Qty(r) /\ stock' = stock /\ posted' = posted
  BY PayloadShape DEF TypeInv, Movement, inv
<1>2. /\ Moves(m) \in Int /\ Owed(m) \in Int /\ Owed(m)' = Owed(m) - Moves(m)
      /\ Moves(m) = (IF PutsIn(Doc(r)) THEN Qty(r) ELSE 0) - (IF TakesOut(Doc(r)) THEN Qty(r) ELSE 0)
  <2>1. Leg(m, "in") \in Nat /\ Leg(m, "out") \in Nat
    BY <1>1 DEF Leg
  <2>2. Leg(m, "in")' = Leg(m, "in") /\ Leg(m, "out")' = Leg(m, "out") /\ Moves(m)' = Moves(m)
    BY <1>1 DEF Leg, Moves, PutsIn, TakesOut
  <2>3. Owed(m) = Leg(m, "in") - Leg(m, "out") - 0
    BY DEF Owed
  <2>4. Owed(m)' = Leg(m, "in") - Leg(m, "out") - Moves(m)
    BY <2>2 DEF Owed
  <2>5. Moves(m) \in Int
    BY <1>1 DEF Moves
  <2> QED
    BY <1>1, <2>1, <2>3, <2>4, <2>5 DEF Moves
<1>3. Movements' = Movements \cup {m}
  BY <1>1 DEF Movements
<1>4. ASSUME NEW p \in Movements, p # m PROVE Owed(p)' = Owed(p)
  BY <1>1, <1>4 DEF Owed, Leg, Moves, PutsIn, TakesOut
<1>5. Debts' = Updated(Debts, m, Owed(m) - Moves(m))
  <2>1. \A p \in Movements \cup {m} :
          Owed(p)' = IF p = m THEN Owed(m) - Moves(m) ELSE Debts[p]
    BY <1>2, <1>4 DEF Debts
  <2>2. Debts' = [p \in Movements \cup {m} |-> Owed(p)']
    BY <1>3 DEF Debts
  <2> QED
    BY <2>1, <2>2 DEF Updated, Debts
<1>6. /\ SumFunction(Debts) \in Int
      /\ SumFunction(Debts') = SumFunction(Debts) - Moves(m)
  <2>1. /\ IsFiniteSet(DOMAIN Debts) /\ DOMAIN Debts = Movements
        /\ \A p \in DOMAIN Debts : Debts[p] \in Int /\ Debts[p] = Owed(p)
    BY DebtsType
  <2>2. Owed(m) - Moves(m) \in Int
    BY <1>2
  <2>3. /\ SumFunction(Debts) \in Int
        /\ SumFunction(Updated(Debts, m, Owed(m) - Moves(m)))
             = SumFunction(Debts) + (Owed(m) - Moves(m))
               - (IF m \in DOMAIN Debts THEN Debts[m] ELSE 0)
    BY <2>1, <2>2, SumUpdated
  <2>4. (IF m \in DOMAIN Debts THEN Debts[m] ELSE 0) = Owed(m)
    BY <2>1, NothingOwed
  <2> QED
    BY <1>2, <1>5, <2>3, <2>4
<1>7. SumFunction(places) \in Int /\ SumFunction(places') = SumFunction(places) + Moves(m)
  <2> DEFINE added == IF PutsIn(Doc(r)) THEN Qty(r) ELSE 0
             taken == IF TakesOut(Doc(r)) THEN Qty(r) ELSE 0
  <2>1. SumFunction(places) \in Int /\ SumFunction(places') = SumFunction(places) + added - taken
    BY TotalAfter, PlacesTotal
  <2>2. added \in Int /\ taken \in Int /\ Moves(m) = added - taken
    BY <1>1, <1>2
  <2> HIDE DEF added, taken
  <2> QED
    BY <2>1, <2>2
<1> QED
  BY <1>1, <1>2, <1>6, <1>7 DEF BooksAgree

\* Telling a client is what makes a movement told.
LEMMA ToldAfter ==
  ASSUME TypeInv, NEW r \in Requests, NEW x, pc' = [pc EXCEPT ![r] = x], req' = req,
         pc[r] # "done"
  PROVE  /\ \A p : Told(p)' <=> (Told(p) \/ (x = "done" /\ p = Movement(r)))
         /\ ToldMovements' = IF x = "done" THEN ToldMovements \cup {Movement(r)} ELSE ToldMovements
<1>1. \A q \in Requests : Movement(q)' = Movement(q)
  BY DEF Movement, Doc, Qty
<1>2. pc'[r] = x /\ \A q \in Requests \ {r} : pc'[q] = pc[q]
  BY DEF TypeInv
<1>3. \A p : Told(p)' <=> (Told(p) \/ (x = "done" /\ p = Movement(r)))
  BY <1>1, <1>2 DEF Told
<1>4. \A p : (p \in ToldMovements <=> Told(p)) /\ (p \in ToldMovements' <=> Told(p)')
  BY DEF Told, ToldMovements
<1> QED
  BY <1>3, <1>4

\* A careful client does not repeat what it has been told succeeded.
LEMMA NotTold ==
  ASSUME NoRepeats, NEW r \in Requests, InFlight(r) PROVE ~ Told(Movement(r))
<1>1. pc[r] # "done"
  BY DEF InFlight, InFlightPoints
<1>2. ASSUME NEW q \in Requests, pc[q] = "done", Movement(q) = Movement(r) PROVE FALSE
  <2>1. q # r
    BY <1>1, <1>2
  <2> QED
    BY <1>2, <2>1 DEF NoRepeats, Repeats
<1> QED
  BY <1>2 DEF Told

\* The rows of a request whose point, rows and positions do not change.
LEMMA RowsStay ==
  ASSUME NEW q \in Requests, RowsAsRead(q), req' = req, places' = places,
         pc'[q] = pc[q], from'[q] = from[q], onto'[q] = onto[q]
  PROVE  RowsAsRead(q)'
<1>1. /\ Doc(q)' = Doc(q) /\ Qty(q)' = Qty(q) /\ To(q)' = To(q)
      /\ Holding(q)' = Holding(q)
  BY DEF Doc, Qty, To, Holding, InFlight
<1>2. /\ TakesOut(Doc(q))' = TakesOut(Doc(q)) /\ PutsIn(Doc(q))' = PutsIn(Doc(q))
  BY <1>1 DEF TakesOut, PutsIn
<1> QED
  BY <1>1, <1>2 DEF RowsAsRead

LEMMA OthersRows ==
  ASSUME TypeInv, \A q \in Requests : RowsAsRead(q), NEW r \in Requests, NEW x, NEW f, NEW o,
         req' = req, places' = places, pc' = [pc EXCEPT ![r] = x],
         from' = [from EXCEPT ![r] = f], onto' = [onto EXCEPT ![r] = o]
  PROVE  /\ pc'[r] = x /\ from'[r] = f /\ onto'[r] = o
         /\ \A q \in Requests \ {r} : RowsAsRead(q)'
<1>1. pc'[r] = x /\ from'[r] = f /\ onto'[r] = o
  BY DEF TypeInv
<1>2. ASSUME NEW q \in Requests \ {r} PROVE RowsAsRead(q)'
  <2>1. pc'[q] = pc[q] /\ from'[q] = from[q] /\ onto'[q] = onto[q]
    BY DEF TypeInv
  <2> QED
    BY <2>1, RowsStay
<1> QED
  BY <1>1, <1>2

\* What holds of every client, careful or not.
FitInv ==
  /\ IsFiniteSet(Movements)
  /\ \A r \in Requests : PointFits(r)
  /\ PostedByRequest

\* A step of one request adds at most its own movement to the movements.
LEMMA MovementsFinite ==
  ASSUME TypeInv, HealInv, req' = req, NEW r \in Requests, NEW leg,
         posted \subseteq posted', posted' \subseteq posted \cup {Key(Doc(r), leg, Qty(r))},
         pc' = pc \/ \E x : pc' = [pc EXCEPT ![r] = x]
  PROVE  IsFiniteSet(Movements')
<1>1. PICK m : m = Movement(r)
  OBVIOUS
<1>2. \A p \in ToldMovements' : p \in ToldMovements \cup {m}
  <2>1. \A q \in Requests : Movement(q)' = Movement(q) /\ (pc'[q] = "done" => pc[q] = "done" \/ q = r)
    BY DEF TypeInv, Movement, Doc, Qty
  <2> QED
    BY <1>1, <2>1 DEF ToldMovements
<1>3. \A p \in Movements' : p \in Movements \cup {m}
  <2>1. ASSUME NEW k \in posted' PROVE <<k[1], k[3]>> \in Movements \cup {m}
    <3>1. CASE k \in posted
      BY <3>1 DEF Movements
    <3>2. CASE k = Key(Doc(r), leg, Qty(r))
      BY <1>1, <3>2 DEF Key, Movement
    <3> QED
      BY <3>1, <3>2
  <2> QED
    BY <1>2, <2>1 DEF Movements
<1>4. IsFiniteSet(Movements \cup {m}) /\ Movements' \subseteq Movements \cup {m}
  BY <1>3, FS_AddElement DEF HealInv
<1> QED
  BY <1>4, FS_Subset

LEMMA FitStep ==
  ASSUME TypeInv, HealInv, [Next]_vars
  PROVE  FitInv'
<1> USE DEF Goto, inv, wms, mem
\* Most steps post nothing.
<1>1. ASSUME posted' = posted, req' = req,
             \/ pc' = pc
             \/ \E r \in Requests : \E x :
                  /\ pc' = [pc EXCEPT ![r] = x]
                  /\ x \in {"out", "source"} => TakesOut(Doc(r))
                  /\ x \in {"in", "source", "target"} => PutsIn(Doc(r))
      PROVE  FitInv'
  <2>1. IsFiniteSet(Movements')
    <3>1. CASE Requests # {}
      BY <1>1, <3>1, MovementsFinite
    <3>2. CASE Requests = {}
      <4>1. Movements' = {}
        BY <1>1, <3>2 DEF HealInv, PostedByRequest, Movements, ToldMovements
      <4> QED
        BY <4>1, FS_EmptySet
    <3> QED
      BY <3>1, <3>2
  <2>2. \A q \in Requests : Doc(q)' = Doc(q) /\ Qty(q)' = Qty(q)
    BY <1>1 DEF Doc, Qty
  <2>3. PostedByRequest'
    BY <1>1, <2>2 DEF HealInv, PostedByRequest, TakesOut, PutsIn, Key
  <2>4. \A q \in Requests : PointFits(q)'
    BY <1>1, <2>2 DEF HealInv, PointFits, TakesOut, PutsIn, TypeInv
  <2> QED
    BY <2>1, <2>3, <2>4 DEF HealInv, FitInv
<1>2. ASSUME NEW r \in Requests, NEW leg \in {"out", "in"}, NEW x,
             CallInventory(r, leg), req' = req, pc' = [pc EXCEPT ![r] = x],
             leg = "out" => TakesOut(Doc(r)), leg = "in" => PutsIn(Doc(r)),
             x \in {"out", "source"} => TakesOut(Doc(r)),
             x \in {"in", "source", "target"} => PutsIn(Doc(r))
      PROVE  FitInv'
  <2>1. IsFiniteSet(Movements')
    BY <1>2, CallPosts, MovementsFinite
  <2>2. \A q \in Requests : Doc(q)' = Doc(q) /\ Qty(q)' = Qty(q)
    BY <1>2 DEF Doc, Qty
  <2>3. posted' \subseteq posted \cup {Key(Doc(r), leg, Qty(r))}
    BY <1>2, CallPosts
  <2>4. PostedByRequest'
    BY <1>2, <2>2, <2>3 DEF HealInv, PostedByRequest, TakesOut, PutsIn, Key
  <2>5. \A q \in Requests : PointFits(q)'
    BY <1>2, <2>2 DEF HealInv, PointFits, TakesOut, PutsIn, TypeInv
  <2> QED
    BY <2>1, <2>4, <2>5 DEF FitInv
<1>3. ASSUME NEW r \in Requests, PostOut(r) PROVE FitInv'
  <2>1. TakesOut(Doc(r))
    BY <1>3 DEF PostOut, HealInv, PointFits
  <2> DEFINE x == IF PutsIn(Doc(r)) THEN "in" ELSE "write"
  <2>2. CallInventory(r, "out") /\ req' = req /\ pc' = [pc EXCEPT ![r] = x]
    BY <1>3 DEF PostOut
  <2>3. x \notin {"out", "source", "target"} /\ (x = "in" => PutsIn(Doc(r)))
    OBVIOUS
  <2> HIDE DEF x
  <2> QED
    BY <1>2, <2>1, <2>2, <2>3
<1>4. ASSUME NEW r \in Requests, PostIn(r) PROVE FitInv'
  <2>1. PutsIn(Doc(r))
    BY <1>4 DEF PostIn, HealInv, PointFits
  <2> DEFINE x == IF TakesOut(Doc(r)) THEN "source" ELSE "target"
  <2>2. CallInventory(r, "in") /\ req' = req /\ pc' = [pc EXCEPT ![r] = x]
    BY <1>4 DEF PostIn
  <2>3. x \notin {"out", "in"} /\ (x = "source" => TakesOut(Doc(r)))
    OBVIOUS
  <2> HIDE DEF x
  <2> QED
    BY <1>2, <2>1, <2>2, <2>3
<1>5. ASSUME NEW r \in Requests, Check(r) PROVE FitInv'
  <2> DEFINE x == IF TakesOut(Doc(r)) THEN "out" ELSE "in"
  <2>1. posted' = posted /\ req' = req /\ pc' = [pc EXCEPT ![r] = x]
    BY <1>5 DEF Check
  <2>2. /\ x \in {"out", "source"} => TakesOut(Doc(r))
        /\ x \in {"in", "source", "target"} => PutsIn(Doc(r))
    BY DEF TakesOut, PutsIn
  <2> HIDE DEF x
  <2> QED
    BY <1>1, <2>1, <2>2
<1>6. ASSUME NEW r \in Requests,
             \/ CheckRefused(r) \/ PostRefused(r) \/ ReadSource(r) \/ ReadTarget(r)
             \/ Write(r) \/ WriteRefused(r) \/ Fail(r)
      PROVE  FitInv'
  <2>1. posted' = posted /\ req' = req
    BY <1>6 DEF CheckRefused, PostRefused, ReadSource, ReadTarget, Write, WriteRefused, Fail
  <2>2. PICK x : /\ pc' = [pc EXCEPT ![r] = x]
                 /\ x \in {"failed", "done", "write", "target"}
                 /\ x = "target" => pc[r] = "source"
    <3>1. CASE ReadSource(r)
      BY <3>1 DEF ReadSource
    <3>2. CASE ~ ReadSource(r)
      <4>1. \/ pc' = [pc EXCEPT ![r] = "failed"]
            \/ pc' = [pc EXCEPT ![r] = "done"]
            \/ pc' = [pc EXCEPT ![r] = "write"]
        BY <1>6, <3>2 DEF CheckRefused, PostRefused, ReadTarget, Write, WriteRefused, Fail
      <4> QED
        BY <4>1
    <3> QED
      BY <3>1, <3>2
  <2>3. x \notin {"out", "source", "in"} /\ (x = "target" => PutsIn(Doc(r)))
    BY <2>2 DEF HealInv, PointFits
  <2> QED
    BY <1>1, <2>1, <2>2, <2>3
<1>7. ASSUME NEW d \in NeedsApproval, Submit(d) \/ Approve(d) PROVE FitInv'
  BY <1>1, <1>7 DEF Submit, Approve, SetApproval
<1>8. CASE UNCHANGED vars
  BY <1>1, <1>8 DEF vars
<1>9. ASSUME NEW r \in Requests, Mark(r) PROVE FitInv'
  BY <1>1, <1>9 DEF Mark
<1> QED
  BY <1>3, <1>4, <1>5, <1>6, <1>7, <1>8, <1>9 DEF Next, Step

\* What holds while the client is careful and every source has a row.
CarefulInv ==
  /\ OneAtATime /\ NoRepeats
  /\ \A r \in Requests : RowsAsRead(r)
  /\ BooksAgree

LEMMA CarefulStep ==
  ASSUME TypeInv, HealInv, CarefulInv, SourceFound, Next, OneAtATime', NoRepeats'
  PROVE  CarefulInv'
<1> USE DEF Goto, inv, wms, mem
<1>1. \A r \in Requests :
        /\ RowsAsRead(r)
        /\ from = [from EXCEPT ![r] = from[r]] /\ onto = [onto EXCEPT ![r] = onto[r]]
  BY DEF CarefulInv, TypeInv
\* A step that leaves balance and positions alone and tells nobody.
<1>2. ASSUME NEW r \in Requests, NEW x, NEW f, NEW o,
             UNCHANGED <<stock, posted, places, req>>, pc[r] # "done", x # "done",
             pc' = [pc EXCEPT ![r] = x],
             from' = [from EXCEPT ![r] = f], onto' = [onto EXCEPT ![r] = o],
             pc'[r] = x /\ from'[r] = f /\ onto'[r] = o => RowsAsRead(r)'
      PROVE  CarefulInv'
  <2>1. \A q \in Requests : RowsAsRead(q)'
    BY <1>1, <1>2, OthersRows
  <2>2. ToldMovements' = ToldMovements /\ \A p : Told(p)' <=> Told(p)
    BY <1>2, ToldAfter
  <2>3. BooksAgree'
    BY <1>2, <2>2, BooksStay DEF CarefulInv
  <2> QED
    BY <2>1, <2>3 DEF CarefulInv
<1>3. ASSUME NEW r \in Requests, req' = req
      PROVE  /\ Doc(r)' = Doc(r) /\ Qty(r)' = Qty(r) /\ To(r)' = To(r)
             /\ TakesOut(Doc(r))' = TakesOut(Doc(r)) /\ PutsIn(Doc(r))' = PutsIn(Doc(r))
  BY <1>3 DEF Doc, Qty, To, TakesOut, PutsIn
<1>4. ASSUME NEW r \in Requests, Check(r) PROVE CarefulInv'
  <2> DEFINE x == IF TakesOut(Doc(r)) THEN "out" ELSE "in"
  <2>1. /\ UNCHANGED <<stock, posted, places, req>> /\ pc[r] = "idle" /\ x # "done"
        /\ pc' = [pc EXCEPT ![r] = x] /\ onto' = [onto EXCEPT ![r] = onto[r]]
        /\ x \notin {"target", "write"}
    BY <1>1, <1>4 DEF Check
  <2>2. CASE Kind[Doc(r)] = "picking"
    <3>1. PICK s \in Sources[Doc(r)] :
            Stocked(s, Qty(r)) /\ from' = [from EXCEPT ![r] = {<<s, places[s]>>}]
      BY <1>4, <2>2 DEF Check
    <3> DEFINE f == {<<s, places[s]>>}
    <3>2. ASSUME pc'[r] = x /\ from'[r] = f PROVE RowsAsRead(r)'
      <4>1. from'[r] = {<<s, places'[s]>>} /\ s \in DOMAIN places' /\ TakesOut(Doc(r))'
        BY <1>3, <2>1, <2>2, <3>1, <3>2 DEF Stocked, TakesOut
      <4>2. pc'[r] # "write"
        BY <2>1, <3>2
      <4> QED
        BY <4>1, <4>2 DEF RowsAsRead
    <3>3. from' = [from EXCEPT ![r] = f] /\ pc[r] # "done"
      BY <2>1, <3>1
    <3> HIDE DEF x, f
    <3> QED
      BY <1>2, <2>1, <3>2, <3>3
  <2>3. CASE Kind[Doc(r)] # "picking"
    <3>1. from' = [from EXCEPT ![r] = from[r]] /\ pc[r] # "done"
      BY <1>1, <1>4, <2>1, <2>3 DEF Check
    <3>2. ASSUME pc'[r] = x /\ from'[r] = from[r] PROVE RowsAsRead(r)'
      <4>1. ~ Holding(r)' /\ pc'[r] # "write"
        BY <1>3, <2>1, <2>3, <3>2 DEF Holding
      <4>2. ~ TakesOut(Doc(r))' => from'[r] = {}
        BY <1>1, <1>3, <2>1, <3>2 DEF RowsAsRead
      <4> QED
        BY <4>1, <4>2 DEF RowsAsRead
    <3> HIDE DEF x
    <3> QED
      BY <1>2, <2>1, <3>1, <3>2
  <2> QED
    BY <2>2, <2>3
\* A posting: the request has not been answered, so nobody has been told.
<1>5. ASSUME NEW r \in Requests, NEW leg \in {"out", "in"}, NEW x, CallInventory(r, leg),
             InFlight(r), x # "done", UNCHANGED <<places, req, from, onto>>,
             pc' = [pc EXCEPT ![r] = x],
             pc'[r] = x /\ from'[r] = from[r] /\ onto'[r] = onto[r] => RowsAsRead(r)'
      PROVE  CarefulInv'
  <2>1. from' = [from EXCEPT ![r] = from[r]] /\ onto' = [onto EXCEPT ![r] = onto[r]]
    BY <1>1, <1>5
  <2>2. \A q \in Requests : RowsAsRead(q)'
    <3>1. /\ pc'[r] = x /\ from'[r] = from[r] /\ onto'[r] = onto[r]
          /\ \A q \in Requests \ {r} : RowsAsRead(q)'
      BY <1>1, <1>5, <2>1, OthersRows
    <3>2. RowsAsRead(r)'
      BY <1>5, <3>1
    <3> QED
      BY <3>1, <3>2
  <2>3. pc[r] # "done"
    BY <1>5 DEF InFlight, InFlightPoints
  <2>4. PICK m : m = Movement(r)
    OBVIOUS
  <2>5. ~ Told(m)
    BY <1>5, <2>4, NotTold DEF CarefulInv
  <2>6. ToldMovements' = ToldMovements /\ \A p : Told(p)' <=> Told(p)
    BY <1>5, <2>3, ToldAfter
  <2>7. BooksAgree'
    BY <1>5, <2>4, <2>5, <2>6, PostingBooked DEF CarefulInv
  <2> QED
    BY <2>2, <2>7 DEF CarefulInv
<1>6. ASSUME NEW r \in Requests, PostOut(r) PROVE CarefulInv'
  <2> DEFINE x == IF PutsIn(Doc(r)) THEN "in" ELSE "write"
  <2>1. /\ CallInventory(r, "out") /\ UNCHANGED <<places, req, from, onto>>
        /\ pc' = [pc EXCEPT ![r] = x] /\ x # "done" /\ pc[r] = "out" /\ InFlight(r)
    BY <1>6 DEF PostOut, InFlight, InFlightPoints
  <2>2. ASSUME pc'[r] = x /\ from'[r] = from[r] PROVE RowsAsRead(r)'
    <3>1. ~ TakesOut(Doc(r))' => from'[r] = {}
      BY <1>1, <1>3, <2>1, <2>2 DEF RowsAsRead
    <3>2. pc'[r] = "write" => ~ PutsIn(Doc(r))'
      BY <1>3, <2>1, <2>2
    <3>3. ASSUME TakesOut(Doc(r))', Holding(r)'
          PROVE  \E s \in DOMAIN places' : from'[r] = {<<s, places'[s]>>}
      <4>1. Kind[Doc(r)] = "picking"
        BY <1>3, <2>1, <2>2, <3>3 DEF Holding, PutsIn
      <4>2. \E s \in DOMAIN places : from[r] = {<<s, places[s]>>}
        BY <1>1, <2>1, <4>1, RowHeld DEF Holding, TakesOut
      <4> QED
        BY <2>1, <4>2
    <3> QED
      BY <3>1, <3>2, <3>3 DEF RowsAsRead
  <2> HIDE DEF x
  <2> QED
    BY <1>5, <2>1, <2>2
<1>7. ASSUME NEW r \in Requests, PostIn(r) PROVE CarefulInv'
  <2> DEFINE x == IF TakesOut(Doc(r)) THEN "source" ELSE "target"
  <2>1. /\ CallInventory(r, "in") /\ UNCHANGED <<places, req, from, onto>>
        /\ pc' = [pc EXCEPT ![r] = x] /\ x # "done" /\ pc[r] = "in" /\ InFlight(r)
    BY <1>7 DEF PostIn, InFlight, InFlightPoints
  <2>2. ASSUME pc'[r] = x /\ from'[r] = from[r] PROVE RowsAsRead(r)'
    <3>1. ~ TakesOut(Doc(r))' => from'[r] = {}
      BY <1>1, <1>3, <2>1, <2>2 DEF RowsAsRead
    <3>2. pc'[r] # "write"
      BY <2>2
    <3>3. TakesOut(Doc(r))' => ~ Holding(r)'
      <4>1. Kind[Doc(r)] # "picking"
        BY <2>1 DEF HealInv, PointFits, PutsIn
      <4> QED
        BY <1>3, <2>1, <2>2, <4>1 DEF Holding
    <3> QED
      BY <3>1, <3>2, <3>3 DEF RowsAsRead
  <2> HIDE DEF x
  <2> QED
    BY <1>5, <2>1, <2>2
<1>8. ASSUME NEW r \in Requests,
             CheckRefused(r) \/ PostRefused(r) \/ WriteRefused(r) \/ Fail(r)
      PROVE  CarefulInv'
  <2>1. /\ UNCHANGED <<stock, posted, places, req, from, onto>> /\ pc[r] # "done"
        /\ pc' = [pc EXCEPT ![r] = "failed"]
    BY <1>8 DEF CheckRefused, PostRefused, WriteRefused, Fail, InFlight, InFlightPoints
  <2>2. from' = [from EXCEPT ![r] = from[r]] /\ onto' = [onto EXCEPT ![r] = onto[r]]
    BY <1>1, <2>1
  <2>3. ASSUME pc'[r] = "failed" /\ from'[r] = from[r] PROVE RowsAsRead(r)'
    <3>1. ~ TakesOut(Doc(r))' => from'[r] = {}
      BY <1>1, <1>3, <2>1, <2>3 DEF RowsAsRead
    <3>2. ~ Holding(r)'
      BY <2>3 DEF Holding, InFlight, InFlightPoints
    <3> QED
      BY <2>3, <3>1, <3>2 DEF RowsAsRead
  <2> QED
    BY <1>2, <2>1, <2>2, <2>3
<1>9. ASSUME NEW r \in Requests, ReadSource(r) PROVE CarefulInv'
  <2>1. /\ UNCHANGED <<stock, posted, places, req>> /\ pc[r] = "source"
        /\ pc' = [pc EXCEPT ![r] = "target"] /\ onto' = [onto EXCEPT ![r] = onto[r]]
    BY <1>1, <1>9 DEF ReadSource
  <2>2. Sources[Doc(r)] \cap DOMAIN places # {} /\ TakesOut(Doc(r))
    <3>1. TakesOut(Doc(r)) /\ Doc(r) \in Docs
      BY <2>1, PayloadShape DEF HealInv, PointFits, TypeInv
    <3> QED
      BY <3>1 DEF SourceFound, TypeInv, PlacesOK
  <2>3. PICK s \in DOMAIN places : from' = [from EXCEPT ![r] = {<<s, places[s]>>}]
    BY <1>9, <2>2 DEF ReadSource
  <2> DEFINE f == {<<s, places[s]>>}
  <2>4. ASSUME pc'[r] = "target" /\ from'[r] = f PROVE RowsAsRead(r)'
    <3>1. from'[r] = {<<s, places'[s]>>} /\ s \in DOMAIN places' /\ TakesOut(Doc(r))'
      BY <1>3, <2>1, <2>2, <2>4
    <3> QED
      BY <2>4, <3>1 DEF RowsAsRead
  <2>5. from' = [from EXCEPT ![r] = f] /\ pc[r] # "done"
    BY <2>1, <2>3
  <2> HIDE DEF f
  <2> QED
    BY <1>2, <2>1, <2>4, <2>5
<1>10. ASSUME NEW r \in Requests, ReadTarget(r) PROVE CarefulInv'
  <2> DEFINE o == IF \E v \in from[r] : v[1] = To(r)
                  THEN {v[2] - Qty(r) : v \in from[r]}
                  ELSE {places[s] : s \in {To(r)} \cap DOMAIN places}
  <2>1. /\ UNCHANGED <<stock, posted, places, req>> /\ pc[r] = "target"
        /\ pc' = [pc EXCEPT ![r] = "write"] /\ onto' = [onto EXCEPT ![r] = o]
        /\ from' = [from EXCEPT ![r] = from[r]]
    BY <1>1, <1>10 DEF ReadTarget
  <2>2. ASSUME pc'[r] = "write" /\ from'[r] = from[r] /\ onto'[r] = o PROVE RowsAsRead(r)'
    <3>1. ~ TakesOut(Doc(r))' => from'[r] = {}
      BY <1>1, <1>3, <2>1, <2>2 DEF RowsAsRead
    <3>2. TakesOut(Doc(r))' => \E s \in DOMAIN places' : from'[r] = {<<s, places'[s]>>}
      BY <1>1, <1>3, <2>1, <2>2, RowHeld DEF Holding
    <3>3. onto'[r] = IF \E v \in from'[r] : v[1] = To(r)'
                     THEN {v[2] - Qty(r)' : v \in from'[r]}
                     ELSE {places'[s] : s \in {To(r)'} \cap DOMAIN places'}
      <4>1. Qty(r)' = Qty(r) /\ To(r)' = To(r) /\ places' = places
        BY <1>3, <2>1
      <4>2. {v[2] - Qty(r)' : v \in from'[r]} = {v[2] - Qty(r) : v \in from[r]}
        BY <2>2, <4>1
      <4>3. {places'[s] : s \in {To(r)'} \cap DOMAIN places'}
              = {places[s] : s \in {To(r)} \cap DOMAIN places}
        BY <4>1
      <4>4. (\E v \in from'[r] : v[1] = To(r)') <=> (\E v \in from[r] : v[1] = To(r))
        BY <2>2, <4>1
      <4> QED
        BY <2>2, <4>2, <4>3, <4>4
    <3> QED
      BY <3>1, <3>2, <3>3 DEF RowsAsRead
  <2> HIDE DEF o
  <2> QED
    BY <1>2, <2>1, <2>2
<1>11. ASSUME NEW r \in Requests, Write(r) PROVE CarefulInv'
  <2>1. /\ UNCHANGED <<stock, posted, marked, req, from, onto>> /\ pc[r] = "write"
        /\ places' = PlacesAfter(r) /\ pc' = [pc EXCEPT ![r] = "done"]
    BY <1>11 DEF Write
  <2>2. InFlight(r)
    BY <2>1 DEF InFlight, InFlightPoints
  <2>3. PICK m : m = Movement(r)
    OBVIOUS
  <2>4. ~ Told(m)
    BY <2>2, <2>3, NotTold DEF CarefulInv
  <2>5. /\ ToldMovements' = ToldMovements \cup {m}
        /\ Told(m)' /\ \A p : p # m => (Told(p)' <=> Told(p))
    BY <2>1, <2>3, ToldAfter
  <2>6. BooksAgree'
    <3>1. UNCHANGED inv /\ RowsAsRead(r) /\ BooksAgree
      BY <1>1, <2>1 DEF CarefulInv
    <3> QED
      BY <2>1, <2>3, <2>4, <2>5, <3>1, WriteBooked
  <2>7. ASSUME NEW q \in Requests PROVE RowsAsRead(q)'
    <3>1. pc'[q] \notin InFlightPoints
      <4>1. pc'[r] = "done" /\ (q # r => pc'[q] = pc[q])
        BY <2>1 DEF TypeInv
      <4>2. q # r => ~ InFlight(q)
        BY <2>2 DEF CarefulInv, OneAtATime
      <4> QED
        BY <4>1, <4>2 DEF InFlight, InFlightPoints
    <3>2. ~ Holding(q)' /\ pc'[q] # "write"
      BY <3>1 DEF Holding, InFlight, InFlightPoints
    <3>3. ~ TakesOut(Doc(q))' => from'[q] = {}
      BY <1>1, <1>3, <2>1 DEF RowsAsRead
    <3> QED
      BY <3>2, <3>3 DEF RowsAsRead
  <2> QED
    BY <2>6, <2>7 DEF CarefulInv
<1>12. ASSUME \/ \E d \in NeedsApproval : Submit(d) \/ Approve(d)
              \/ \E r \in Requests : Mark(r)
       PROVE  CarefulInv'
  <2>1. UNCHANGED <<stock, posted, places, req, pc, from, onto>>
    BY <1>12 DEF Submit, Approve, SetApproval, Mark
  <2>2. \A q \in Requests : RowsAsRead(q)'
    BY <1>1, <2>1, RowsStay
  <2>3. ToldMovements' = ToldMovements /\ \A p : Told(p)' <=> Told(p)
    BY <2>1 DEF Told, ToldMovements, Movement, Doc, Qty
  <2> QED
    BY <2>1, <2>2, <2>3, BooksStay DEF CarefulInv
<1> QED
  BY <1>4, <1>6, <1>7, <1>8, <1>9, <1>10, <1>11, <1>12 DEF Next, Step

LEMMA HealStep ==
  ASSUME TypeInv, HealInv, [MovementNext]_<<vars, careful>>
  PROVE  HealInv'
<1>1. FitInv'
  BY FitStep DEF MovementNext
<1>2. CASE MovementNext
  <2>1. ASSUME careful', SourceFound PROVE CarefulInv'
    <3>1. Next /\ careful /\ OneAtATime' /\ NoRepeats'
      BY <1>2, <2>1 DEF MovementNext
    <3>2. CarefulInv
      BY <2>1, <3>1 DEF HealInv, CarefulInv
    <3> QED
      BY <2>1, <3>1, <3>2, CarefulStep
  <2>2. SourceFound' <=> SourceFound
    BY DEF SourceFound, TakesOut
  <2> QED
    BY <1>1, <2>1, <2>2 DEF FitInv, CarefulInv, HealInv
<1>3. CASE UNCHANGED <<vars, careful>>
  <2>1. UNCHANGED <<stock, posted, places, req, pc, from, onto, careful>>
    BY <1>3 DEF vars, inv, wms, mem
  <2>2. \A q \in Requests : RowsAsRead(q) => RowsAsRead(q)'
    BY <2>1, RowsStay
  <2>3. ToldMovements' = ToldMovements /\ \A p : Told(p)' <=> Told(p)
    BY <2>1 DEF Told, ToldMovements, Movement, Doc, Qty
  <2>4. BooksAgree => BooksAgree'
    BY <2>1, <2>3, BooksStay
  <2>5. (OneAtATime => OneAtATime') /\ (NoRepeats => NoRepeats')
    BY <2>1 DEF OneAtATime, NoRepeats, Repeats, InFlight, Movement, Doc, Qty
  <2>6. SourceFound' <=> SourceFound
    BY DEF SourceFound, TakesOut
  <2> QED
    BY <1>1, <2>1, <2>2, <2>4, <2>5, <2>6 DEF FitInv, HealInv
<1> QED
  BY <1>2, <1>3

\* With one movement at a time, a client that repeats what failed until it is
\* told of success brings positions and balance together, for any lines,
\* quantities and slots and however many requests die between the commit of
\* the inventory service and their own; what stays apart are exactly the legs
\* that were answered from the marker of a call whose commit failed (receiving
\* 76-128, putaway 67-117, picking 74-97, transfer 104-175).
THEOREM RetriesHeal == MovementSpec => []RetryHeals
<1>1. MovementInit => TypeInv /\ HealInv
  BY TypeInit, HealInit DEF MovementInit
<1>2. TypeInv /\ HealInv /\ [MovementNext]_<<vars, careful>> => TypeInv' /\ HealInv'
  BY TypeStep, HealStep DEF MovementNext, vars
<1>3. TypeInv /\ HealInv => RetryHeals
  <2> SUFFICES ASSUME TypeInv, HealInv, careful, Settled, SourceFound
               PROVE  stock["onHand"] = Total + SumFunction([p \in ToldMovements |-> Unposted(p)])
    BY DEF RetryHeals, Healed
  <2>1. ASSUME NEW p \in Movements PROVE p \in ToldMovements /\ Told(p)
    <3>1. CASE p \in ToldMovements
      BY <3>1 DEF ToldMovements, Told
    <3>2. CASE p \notin ToldMovements
      <4>1. PICK k \in posted : p = <<k[1], k[3]>>
        BY <3>2 DEF Movements
      <4>2. PICK r \in Requests, leg \in {"out", "in"} : k = Key(Doc(r), leg, Qty(r))
        BY DEF HealInv, PostedByRequest
      <4>3. PostedBy(r) # {} /\ p = Movement(r)
        BY <4>1, <4>2 DEF PostedBy, Movement, Key
      <4>4. Told(p)
        BY <4>3 DEF Settled
      <4> QED
        BY <4>4 DEF Told, ToldMovements
    <3> QED
      BY <3>1, <3>2
  <2>2. Movements = ToldMovements
    BY <2>1 DEF Movements
  \* What is told and still owed are the legs nobody posted.
  <2>3. ASSUME NEW p \in Movements PROVE Owed(p) = Unposted(p)
    <3>1. p[2] \in Nat /\ Told(p)
      BY <2>1, DebtsType
    <3>2. \A leg \in {"out", "in"} : Key(p[1], leg, p[2]) \in posted => leg \in Legs(p[1])
      <4>1. ASSUME NEW leg \in {"out", "in"}, Key(p[1], leg, p[2]) \in posted
            PROVE  leg \in Legs(p[1])
        <5>1. PICK r \in Requests :
                \/ Key(p[1], leg, p[2]) = Key(Doc(r), "out", Qty(r)) /\ TakesOut(Doc(r))
                \/ Key(p[1], leg, p[2]) = Key(Doc(r), "in", Qty(r)) /\ PutsIn(Doc(r))
          BY <4>1 DEF HealInv, PostedByRequest
        <5> QED
          BY <5>1 DEF Key, Legs
      <4> QED
        BY <4>1
    <3>3. /\ "in" \in Legs(p[1]) <=> PutsIn(p[1])
          /\ "out" \in Legs(p[1]) <=> TakesOut(p[1])
      BY DEF Legs
    <3>4. Leg(p, "in") - (IF PutsIn(p[1]) THEN p[2] ELSE 0) = 0 - Missing(p, "in")
      BY <3>1, <3>2, <3>3 DEF Leg, Missing
    <3>5. (IF TakesOut(p[1]) THEN p[2] ELSE 0) - Leg(p, "out") = Missing(p, "out")
      BY <3>1, <3>2, <3>3 DEF Leg, Missing
    <3>6. /\ Leg(p, "in") \in Int /\ Leg(p, "out") \in Int
          /\ Missing(p, "in") \in Int /\ Missing(p, "out") \in Int
      BY <3>1 DEF Leg, Missing
    <3>7. Owed(p) = Leg(p, "in") - Leg(p, "out")
                    - ((IF PutsIn(p[1]) THEN p[2] ELSE 0) - (IF TakesOut(p[1]) THEN p[2] ELSE 0))
      BY <3>1 DEF Owed, Moves
    <3> DEFINE a == IF PutsIn(p[1]) THEN p[2] ELSE 0
               b == IF TakesOut(p[1]) THEN p[2] ELSE 0
    <3>8. a \in Int /\ b \in Int
      BY <3>1
    <3>9. Owed(p) = Leg(p, "in") - Leg(p, "out") - (a - b)
      BY <3>7
    <3>10. Leg(p, "in") - a = 0 - Missing(p, "in") /\ b - Leg(p, "out") = Missing(p, "out")
      BY <3>4, <3>5
    <3> HIDE DEF a, b
    <3> QED
      BY <3>6, <3>8, <3>9, <3>10 DEF Unposted
  <2>4. Debts = [p \in ToldMovements |-> Unposted(p)]
    BY <2>2, <2>3 DEF Debts
  <2>5. BooksAgree
    BY DEF HealInv
  <2> QED
    BY <2>4, <2>5 DEF BooksAgree, Total
<1> QED
  BY <1>1, <1>2, <1>3, PTL DEF MovementSpec

===============================================================================
