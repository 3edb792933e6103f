------------------------------ MODULE WmsMovement -----------------------------
(***************************************************************************)
(* Receiving, putaway, picking and transfer: the warehouse services that   *)
(* move goods.  Each one checks its document line, lets the inventory      *)
(* service post one or two transactions - every one of them commits - and  *)
(* then brings the positions and the line up to date in a transaction of   *)
(* its own.  The idempotency key of a posting names the line and the       *)
(* quantity.                                                               *)
(*                                                                         *)
(* The inventory service is the account of InvAccount, with the marker it  *)
(* leaves in Redis before it commits; one SKU in one warehouse.  A slot is *)
(* a location together with an inventory status: the unique index          *)
(* uk_wms_position_compound allows it one position row.                    *)
(***************************************************************************)
EXTENDS InvBalance, FiniteSets, Functions, TLC

CONSTANTS
  Requests,         \* HTTP requests
  Docs,             \* document lines
  Kind,             \* Docs -> Kinds
  Limit,            \* Docs -> Nat: ordered (with tolerance) or required quantity
  Sources,          \* Docs -> sets of slots a movement may take from
  Issue,            \* Docs -> the transaction type that takes the goods out
  NeedsApproval,    \* the transfers with require_approval
  Slots,
  Payloads,         \* [doc, qty, to]: what a request may ask for
  FirstPlaces       \* the positions at the start

Kinds == {"receiving", "putaway", "picking", "transfer"}

ASSUME PayloadsAssumption == Payloads \subseteq [doc : Docs, qty : Nat \ {0}, to : Slots]
ASSUME DocsAssumption ==
  /\ Kind \in [Docs -> Kinds]
  /\ Limit \in [Docs -> Nat]
  /\ Sources \in [Docs -> SUBSET Slots]
  /\ Issue \in [Docs -> {"sales_issue", "transfer_out"}]
  /\ NeedsApproval \subseteq {d \in Docs : Kind[d] = "transfer"}
ASSUME FirstPlacesAssumption ==
  /\ DOMAIN FirstPlaces \subseteq Slots
  /\ IsFiniteSet(DOMAIN FirstPlaces)
  /\ \A s \in DOMAIN FirstPlaces : FirstPlaces[s] \in Nat

VARIABLES
  stock,      \* the balance of the inventory service
  posted,     \* the keys it has posted
  marked,     \* the calls, request and leg, that have set their Redis marker
  done,       \* received, putaway, picked or transferred quantity of a line
  places,     \* wms_inventory_position: slot -> quantity, where a row exists
  approval,   \* the status of a transfer order
  req,        \* the payload of each request
  pc,
  line,       \* the progress of its line as the request read it
  from,       \* the position row it takes from, as read: at most one
  onto        \* the quantity of the row it adds to, as read: at most one

inv  == <<stock, posted, marked>>
wms  == <<done, places, approval>>
mem  == <<line, from, onto>>
vars == <<inv, wms, req, pc, mem>>

Doc(r)  == req[r].doc
Qty(r)  == req[r].qty
To(r)   == req[r].to

\* What the keys of a movement's postings share: the line and the quantity.
Movement(r) == <<Doc(r), Qty(r)>>

TakesOut(d) == Kind[d] # "receiving"
PutsIn(d)   == Kind[d] # "picking"
Legs(d)     == {leg \in {"out", "in"} : IF leg = "out" THEN TakesOut(d) ELSE PutsIn(d)}

InFlightPoints == {"out", "in", "source", "target", "write"}
Outcomes       == {"done", "failed"}
Points         == {"idle"} \cup InFlightPoints \cup Outcomes
InFlight(r)    == pc[r] \in InFlightPoints

\* Mutant: the key does not name the leg of the movement.
KeyWithoutLeg(d, leg, n) == <<d, n>>

\* f"wms:{kind}:{document}:{line}:{out|in}:{quantity}"
Key(d, leg, n) == <<d, leg, n>>

Posting(r, leg) ==
  [ key  |-> Key(Doc(r), leg, Qty(r)),
    type |-> IF leg = "out" THEN Issue[Doc(r)]
             ELSE IF Kind[Doc(r)] = "receiving" THEN "purchase_receipt" ELSE "transfer_in",
    qty  |-> Qty(r) ]

FirstStock == [ZeroBalance EXCEPT !["onHand"] = SumFunction(FirstPlaces)]

Inv == INSTANCE InvAccount
         WITH Keys <- {Key(p.doc, leg, p.qty) : p \in Payloads, leg \in {"out", "in"}},
              Calls <- {}, Stocks <- {FirstStock}

Init ==
  /\ stock = FirstStock
  /\ posted = {}
  /\ marked = {}
  /\ done = [d \in Docs |-> 0]
  /\ places = FirstPlaces
  /\ approval = [d \in NeedsApproval |-> "draft"]
  /\ req \in [Requests -> Payloads]
  /\ pc = [r \in Requests |-> "idle"]
  /\ line = [r \in Requests |-> 0]
  /\ from = [r \in Requests |-> {}]
  /\ onto = [r \in Requests |-> {}]

Goto(r, point) == pc' = [pc EXCEPT ![r] = point]

\* Mutant: the check forgets the quantity being moved.
FitsBeforeMoving(r) == done[Doc(r)] <= Limit[Doc(r)]

\* The movement stays within what the line orders, requires or holds.
Fits(r) == done[Doc(r)] + Qty(r) <= Limit[Doc(r)]

\* execute_picking has read its source row by the time it checks.
Stocked(s, n) == s \in DOMAIN places /\ places[s] >= n

-------------------------------------------------------------------------------
\* The checks before the first posting.  Picking also reads the position here
\* and keeps what it read.
Check(r) ==
  /\ pc[r] = "idle"
  /\ Doc(r) \in NeedsApproval => approval[Doc(r)] = "approved"
  /\ Fits(r)
  /\ line' = [line EXCEPT ![r] = done[Doc(r)]]
  /\ IF Kind[Doc(r)] = "picking"
     THEN \E s \in Sources[Doc(r)] :
            /\ Stocked(s, Qty(r))
            /\ from' = [from EXCEPT ![r] = {<<s, places[s]>>}]
     ELSE UNCHANGED from
  /\ Goto(r, IF TakesOut(Doc(r)) THEN "out" ELSE "in")
  /\ UNCHANGED <<inv, wms, req, onto>>

CheckRefused(r) ==
  /\ pc[r] = "idle"
  /\ \/ Doc(r) \in NeedsApproval /\ approval[Doc(r)] # "approved"
     \/ ~ Fits(r)
     \/ Kind[Doc(r)] = "picking" /\ \A s \in Sources[Doc(r)] : ~ Stocked(s, Qty(r))
  /\ Goto(r, "failed")
  /\ UNCHANGED <<inv, wms, req, mem>>

\* The executor has found no record and enough stock; it sets the marker of
\* the key in Redis while the posting is still to be committed.
Mark(r) ==
  \E leg \in {"out", "in"} :
    /\ pc[r] = leg /\ <<r, leg>> \notin marked
    /\ Posting(r, leg).key \notin posted
    /\ StockSuffices(stock, Posting(r, leg).type, Qty(r))
    /\ marked' = marked \cup {<<r, leg>>}
    /\ UNCHANGED <<stock, posted, wms, req, pc, mem>>

\* The key has been marked by another call, whose posting may never commit.
Marked(r, leg) ==
  \E q \in Requests \ {r} : <<q, leg>> \in marked /\ Movement(q) = Movement(r)

\* execute_transaction of the inventory service: a new key is posted and
\* committed.  A posted key, or one whose marker Redis still holds, is
\* answered as a duplicate; the warehouse services do not tell the answers
\* apart.  Redis may have lost the marker, or be down, at any look-up.
CallInventory(r, leg) ==
  \/ Inv!Post(Posting(r, leg)) /\ UNCHANGED marked
  \/ /\ \/ Posting(r, leg).key \in posted
        \/ Marked(r, leg) /\ <<r, leg>> \notin marked
     /\ UNCHANGED inv

\* Mutant: stock moved in before it has moved out.
PostInFirst(r) ==
  /\ pc[r] = "out"
  /\ IF PutsIn(Doc(r))
     THEN CallInventory(r, "in") /\ Goto(r, "in")
     ELSE CallInventory(r, "out") /\ Goto(r, "write")
  /\ UNCHANGED <<wms, req, mem>>

PostOut(r) ==
  /\ pc[r] = "out"
  /\ CallInventory(r, "out")
  /\ Goto(r, IF PutsIn(Doc(r)) THEN "in" ELSE "write")
  /\ UNCHANGED <<wms, req, mem>>

PostIn(r) ==
  /\ pc[r] = "in"
  /\ CallInventory(r, "in")
  /\ Goto(r, IF TakesOut(Doc(r)) THEN "source" ELSE "target")
  /\ UNCHANGED <<wms, req, mem>>

\* Mutant: picking goes on when its posting is refused.
PostRefusedIgnored(r) ==
  /\ pc[r] = "out"
  /\ Posting(r, "out").key \notin posted
  /\ <<r, "out">> \notin marked
  /\ ~ StockSuffices(stock, Issue[Doc(r)], Qty(r))
  /\ Goto(r, IF PutsIn(Doc(r)) THEN "failed" ELSE "write")
  /\ UNCHANGED <<inv, wms, req, mem>>

PostRefused(r) ==
  /\ pc[r] = "out"
  /\ Posting(r, "out").key \notin posted
  /\ <<r, "out">> \notin marked
  /\ ~ StockSuffices(stock, Issue[Doc(r)], Qty(r))
  /\ Goto(r, "failed")
  /\ UNCHANGED <<inv, wms, req, mem>>

-------------------------------------------------------------------------------
\* A row is locked from the flush of its UPDATE to the commit.
Holds(q, s) == pc[q] = "write" /\ Kind[Doc(q)] # "picking" /\ \E v \in from[q] : v[1] = s
Free(r, s)  == \A q \in Requests \ {r} : ~ Holds(q, s)

\* The first suitable row at the source; without one, nothing is taken.
ReadSource(r) ==
  /\ pc[r] = "source"
  /\ LET rows == Sources[Doc(r)] \cap DOMAIN places IN
       \/ rows = {} /\ UNCHANGED from
       \/ \E s \in rows : from' = [from EXCEPT ![r] = {<<s, places[s]>>}]
  /\ Goto(r, "target")
  /\ UNCHANGED <<inv, wms, req, line, onto>>

\* Mutant: a position may go below zero.
NeverOverdrawn(r) == FALSE

Overdrawn(r) == \E v \in from[r] : v[2] < Qty(r)

\* The source row is flushed (CHECK (quantity >= 0) may refuse it), then the
\* row at the target is read; it may be the very row just written.
ReadTarget(r) ==
  /\ pc[r] = "target"
  /\ ~ Overdrawn(r)
  /\ \A v \in from[r] : Free(r, v[1])
  /\ onto' = [onto EXCEPT ![r] =
       IF \E v \in from[r] : v[1] = To(r)
       THEN {v[2] - Qty(r) : v \in from[r]}
       ELSE {places[s] : s \in {To(r)} \cap DOMAIN places}]
  /\ Goto(r, "write")
  /\ UNCHANGED <<inv, wms, req, line, from>>

\* The position at the target has gone from absent to present since it was
\* read: the INSERT breaks the unique index.
InsertClashes(r) == PutsIn(Doc(r)) /\ onto[r] = {} /\ To(r) \in DOMAIN places

\* What stands in the row it adds to, as read; a new row starts at zero.
FoundThere(r) == IF onto[r] = {} THEN 0 ELSE CHOOSE n \in onto[r] : TRUE

RowAfter(r, s) ==
  IF PutsIn(Doc(r)) /\ s = To(r) THEN FoundThere(r) + Qty(r)
  ELSE IF \E v \in from[r] : v[1] = s THEN (CHOOSE v \in from[r] : v[1] = s)[2] - Qty(r)
  ELSE places[s]

PlacesAfter(r) ==
  [s \in DOMAIN places \cup (IF PutsIn(Doc(r)) THEN {To(r)} ELSE {}) |-> RowAfter(r, s)]

\* Positions, line and audit record are flushed and committed, all with
\* absolute values computed from what was read.
Write(r) ==
  /\ pc[r] = "write"
  /\ ~ InsertClashes(r)
  /\ Free(r, To(r)) \/ ~ PutsIn(Doc(r))
  /\ \A v \in from[r] : Free(r, v[1])
  /\ places' = PlacesAfter(r)
  /\ done' = [done EXCEPT ![Doc(r)] = line[r] + Qty(r)]
  /\ Goto(r, "done")
  /\ UNCHANGED <<inv, approval, req, mem>>

WriteRefused(r) ==
  /\ \/ pc[r] = "target" /\ Overdrawn(r)
     \/ pc[r] = "write" /\ InsertClashes(r)
  /\ Goto(r, "failed")
  /\ UNCHANGED <<inv, wms, req, mem>>

\* The worker dies or the client goes away: the open transaction is rolled
\* back, what the inventory service committed stays.
Fail(r) ==
  /\ InFlight(r)
  /\ Goto(r, "failed")
  /\ UNCHANGED <<inv, wms, req, mem>>

\* submit_for_approval and approve look at no earlier status.
SetApproval(d, status) ==
  /\ approval[d] # status
  /\ approval' = [approval EXCEPT ![d] = status]
  /\ UNCHANGED <<inv, done, places, req, pc, mem>>

Submit(d)  == SetApproval(d, "submitted")
Approve(d) == SetApproval(d, "approved")

Step(r) ==
  \/ Check(r) \/ CheckRefused(r)
  \/ Mark(r) \/ PostOut(r) \/ PostIn(r) \/ PostRefused(r)
  \/ ReadSource(r) \/ ReadTarget(r) \/ Write(r) \/ WriteRefused(r)

Next ==
  \/ \E r \in Requests : Step(r) \/ Fail(r)
  \/ \E d \in NeedsApproval : Submit(d) \/ Approve(d)

Spec == Init /\ [][Next]_vars

\* One movement at a time, and a client that repeats a request only while it
\* has not been told that the request succeeded.
Repeats(r) == \E q \in Requests \ {r} : pc[q] = "done" /\ Movement(q) = Movement(r)

OneAtATime == \A q, r \in Requests : InFlight(q) /\ InFlight(r) => q = r

NoRepeats == \A r \in Requests : InFlight(r) => ~ Repeats(r)

-------------------------------------------------------------------------------
TypeOK ==
  /\ stock \in Balance
  /\ marked \subseteq Requests \X {"out", "in"}
  /\ done \in [Docs -> Nat]
  /\ DOMAIN places \subseteq Slots /\ \A s \in DOMAIN places : places[s] \in Nat
  /\ approval \in [NeedsApproval -> {"draft", "submitted", "approved"}]
  /\ req \in [Requests -> Payloads]
  /\ pc \in [Requests -> Points]
  /\ line \in [Requests -> Nat]
  /\ \A r \in Requests :
       /\ \A v \in from[r] : v[1] \in Slots /\ v[2] \in Nat
       /\ \A n \in onto[r] : n \in Nat
       /\ Cardinality(from[r]) <= 1 /\ Cardinality(onto[r]) <= 1

\* However requests interleave and wherever they die, no line ever records
\* more than it may: each request writes the value it has checked
\* (receiving 72-74 and 110-112, picking 58 and 96).
LineWithinLimit == \A d \in Docs : done[d] <= Limit[d]

\* A leg of a movement is accounted for when it is posted, or when a call has
\* marked its key and has not been answered: it is about to commit, or it has
\* failed and left the marker behind.
Vouched(p, leg) ==
  \E q \in Requests :
    Movement(q) = p /\ <<q, leg>> \in marked /\ pc[q] \in {leg, "failed"}

Accounted(p, leg) == Key(p[1], leg, p[2]) \in posted \/ Vouched(p, leg)

\* Stock moves in after it has moved out: what a putaway or transfer has posted
\* in it has posted out before, also when the worker died in between and the
\* movement was repeated (putaway 70-89, transfer 107-126).  The exception is
\* named: the out leg was answered from the marker of a call that had not
\* committed (inventory_transaction_executor 251-260 before inv_app_svc 135).
InFollowsOut ==
  \A d \in Docs, n \in {p.qty : p \in Payloads} :
    Kind[d] \in {"putaway", "transfer"} /\ Key(d, "in", n) \in posted
      => Accounted(<<d, n>>, "out")

\* The inventory service is the fact layer: a request reports success only
\* after the inventory service has committed every leg of its movement, or has
\* answered one from the marker of another call; never after a refusal
\* (receiving 76-112, picking 76-96).
ProgressIsPosted ==
  \A r \in Requests :
    pc[r] = "done" => \A leg \in Legs(Doc(r)) : Accounted(Movement(r), leg)

-------------------------------------------------------------------------------
Total == SumFunction(places)

\* The movements some client has been told of.
Told(p)       == \E q \in Requests : pc[q] = "done" /\ Movement(q) = p
ToldMovements == {Movement(q) : q \in {r \in Requests : pc[r] = "done"}}

\* What the balance is told and never got: the legs answered from a marker
\* whose call did not commit.
Missing(p, leg) == IF leg \in Legs(p[1]) /\ Key(p[1], leg, p[2]) \notin posted THEN p[2] ELSE 0
Unposted(p)     == Missing(p, "out") - Missing(p, "in")

\* The postings of every request that got one have reached the positions.
PostedBy(r) == {Key(Doc(r), leg, Qty(r)) : leg \in {"out", "in"}} \cap posted

Settled == \A r \in Requests : ~ InFlight(r) /\ (PostedBy(r) # {} => Told(Movement(r)))

\* Every movement finds a position row to take from (rows are never deleted).
SourceFound == \A d \in Docs : TakesOut(d) => Sources[d] \cap DOMAIN FirstPlaces # {}

\* Once nothing is left to repeat, balance and positions agree, but for the
\* legs that were answered from a marker and never posted.
Healed ==
  Settled /\ SourceFound
    => stock["onHand"] = Total + SumFunction([p \in ToldMovements |-> Unposted(p)])

===============================================================================
