----------------------- MODULE OrderDispatch_proofs ------------------------
(***************************************************************************)
(* Proofs about OrderDispatch, for any number of couriers, customers,      *)
(* admins, webhook deliveries, matchers, crashes and operations in flight. *)
(*                                                                         *)
(* The argument: a step leaves the row alone, or is a raw write of one of  *)
(* four statuses that are not final, or is the transaction of the          *)
(* transition boundary for a request of the shape the callers build        *)
(* (RowStep).  Each property of the row then has to be shown for these     *)
(* three cases only, and not for every action.                             *)
(*                                                                         *)
(* Four properties relate the calls in flight to the row they have read.   *)
(* They do not hold of every instance of the module (see ReturnedWork), so *)
(* each theorem names what it needs: OnePayment, that paid webhooks do not *)
(* overlap and StartMatching reads the primary; OfferedOnce, that moreover *)
(* nothing brings the order back into a search.                            *)
(***************************************************************************)
EXTENDS OrderDispatch, TLAPS

RawTarget == {"pending_assignment", "searching", "no_courier_found", "accepted"}

(* What the callers of TransitionOrder ask for. *)
Requests ==
    { req \in [actor : OrderActor, to : OrderStatus, key : Calls,
               courier : Couriers \cup {Nobody}, clear : BOOLEAN, photo : BOOLEAN] :
        /\ req.courier # Nobody => req.to = "assigned"
        /\ req.clear => req.to = "searching" }

Answers == [op : Op \cup {"none"}, by : Caller, to : OrderStatus, ok : BOOLEAN]

RowOK ==
    /\ status \in OrderStatus
    /\ leg \in [courier : Couriers \cup {Nobody}, final : BOOLEAN]
    /\ keys \subseteq Calls
    /\ proof \in BOOLEAN
    /\ journals \in Nat

RowStep ==
    \/ UNCHANGED row
    \/ \E to \in RawTarget : RawUpdateStatus(to)
    \/ \E req \in Requests : TransitionOrder(req)

RestOK ==
    /\ lock \in Starters \cup {Nobody}
    /\ calls \subseteq Calls
    /\ answer \in Answers
    /\ crashes \in 0 .. MaxCrashes

-----------------------------------------------------------------------------
(***************************************************************************)
(* The lifecycle table leads from a status only to declared statuses.      *)
(***************************************************************************)
LEMMA TableType == ASSUME NEW s \in OrderStatus PROVE allowedOrderTransitions[s] \subseteq OrderStatus
BY DEF allowedOrderTransitions, OrderStatus

(***************************************************************************)
(* A call that is put together from its parts is a call, and its answer an *)
(* answer.                                                                 *)
(***************************************************************************)
LEMMA CallType ==
    ASSUME NEW op \in Op, NEW by \in Caller, NEW to \in OrderStatus, NEW ok \in BOOLEAN
    PROVE  Call(op, by, to) \in Calls /\ Answer(Call(op, by, to), ok) \in Answers
BY DEF Call, Calls, Answer, Answers

(***************************************************************************)
(* The silent answer and the default key are well typed.                   *)
(***************************************************************************)
LEMMA ConstantsType == Silent \in Answers /\ NoKey \in Calls
BY DEF Silent, Answers, NoKey, Call, Calls, Caller, Op, OrderStatus

(***************************************************************************)
(* A plain request of an actor, for a declared status, is a request.       *)
(***************************************************************************)
LEMMA RequestType ==
    ASSUME NEW actor \in OrderActor, NEW to \in OrderStatus, NEW key \in Calls
    PROVE  /\ Request(actor, to, key) \in Requests
           /\ [Request(actor, to, key) EXCEPT !.photo = TRUE] \in Requests
BY DEF Request, Requests

(***************************************************************************)
(* An assignment and a ghost release are requests.                         *)
(***************************************************************************)
LEMMA SpecialRequestType ==
    ASSUME NEW c \in Couriers
    PROVE  AssignRequest(c) \in Requests /\ ReleaseRequest \in Requests
<1>1. Call("accept", c, "assigned") \in Calls /\ Call("ghost", Nobody, "searching") \in Calls
  BY CallType DEF Op, Caller, Users, OrderStatus
<1>2. QED
  BY <1>1 DEF AssignRequest, ReleaseRequest, Request, Requests, OrderActor, OrderStatus

(***************************************************************************)
(* A request that the boundary applies starts from an order that is not    *)
(* final, follows an edge, and delivers only with a photo.                 *)
(***************************************************************************)
LEMMA AppliedIsLawful ==
    ASSUME NEW req, Outcome(req) = "applied"
    PROVE  /\ status # req.to
           /\ ~IsTerminalOrderStatus(status)
           /\ req.to \in allowedOrderTransitions[status]
           /\ req.to = "delivered" => (req.photo \/ proof)
BY DEF Outcome, FindTransitionReplay, ValidateDeliveredProof, ValidateOrderTransition

-----------------------------------------------------------------------------
(***************************************************************************)
(* Whatever a step does to the row, the row stays well typed.              *)
(***************************************************************************)
LEMMA RowStepType == RowOK /\ RowStep => RowOK'
<1> SUFFICES ASSUME RowOK, RowStep PROVE RowOK'
  OBVIOUS
<1>1. CASE UNCHANGED row
  BY <1>1 DEF RowOK, row
<1>2. ASSUME NEW to \in RawTarget, RawUpdateStatus(to) PROVE RowOK'
  BY <1>2 DEF RowOK, RawUpdateStatus, RawTarget, OrderStatus
<1>3. ASSUME NEW req \in Requests, TransitionOrder(req) PROVE RowOK'
  <2>1. CASE Outcome(req) = "applied"
    <3>1. ApplyTransition(req)
      BY <1>3, <2>1 DEF TransitionOrder
    <3>2. status' \in OrderStatus /\ keys' \subseteq Calls /\ journals' \in Nat
      BY <3>1 DEF ApplyTransition, LegCourier, TransitionProof, DeliveryLedger, RowOK, Requests
    <3>3. proof' \in BOOLEAN
      BY <3>1 DEF ApplyTransition, LegCourier, TransitionProof, DeliveryLedger
    <3>4. leg' \in [courier : Couriers \cup {Nobody}, final : BOOLEAN]
      <4>1. LegFinal(req.to) \in BOOLEAN
        BY DEF LegFinal
      <4>2. QED
        BY <3>1, <4>1 DEF ApplyTransition, LegCourier, TransitionProof, DeliveryLedger, RowOK, Requests
    <3>5. QED
      BY <3>2, <3>3, <3>4 DEF RowOK
  <2>2. CASE Outcome(req) # "applied"
    BY <1>3, <2>2 DEF TransitionOrder, RowOK, row
  <2>3. QED
    BY <2>1, <2>2
<1>4. QED
  BY <1>1, <1>2, <1>3 DEF RowStep

(***************************************************************************)
(* Every step is a RowStep.  One step of the proof per action that touches *)
(* the row, in the order of Next.                                          *)
(***************************************************************************)
LEMMA NextIsRowStep == TypeOK /\ [Next]_vars => RowStep
<1> SUFFICES ASSUME TypeOK, [Next]_vars PROVE RowStep
  OBVIOUS
<1> USE DEF RowStep
<1>1. CASE UNCHANGED vars
  BY <1>1 DEF vars, row
<1>2. CASE Payment
  <2>1. CASE ExpiryReads
    BY <2>1 DEF ExpiryReads
  <2>2. CASE ExpiryCancels
    <3>1. Request("platform", "cancelled", Call("timeout", Nobody, "cancelled")) \in Requests
      BY CallType, RequestType DEF Op, Caller, OrderActor, OrderStatus
    <3>2. QED
      BY <2>2, <3>1 DEF ExpiryCancels
  <2>3. ASSUME NEW d \in Deliveries, WebhookReads(d) PROVE RowStep
    BY <2>3 DEF WebhookReads
  <2>4. ASSUME NEW d \in Deliveries, WebhookWrites(d) PROVE RowStep
    BY <2>4 DEF WebhookWrites, RawTarget
  <2>5. QED
    BY <1>2, <2>1, <2>2, <2>3, <2>4 DEF Payment
<1>3. CASE Matching
  <2>1. ASSUME NEW s \in Starters,
               ReplicaLags(s) \/ StartReads(s) \/ MatcherSeesTaken(s) \/ MatcherExhausted(s)
        PROVE  RowStep
    BY <2>1 DEF ReplicaLags, StartReads, MatcherSeesTaken, MatcherExhausted
  <2>2. ASSUME NEW s \in Starters, StartLaunches(s) \/ MatcherGivesUp(s) PROVE RowStep
    BY <2>2 DEF StartLaunches, MatcherGivesUp, RawTarget
  <2>3. ASSUME NEW u \in Customers \cup Admins, RetryMatching(u) PROVE RowStep
    BY <2>3 DEF RetryMatching
  <2>4. CASE LockExpires
    BY <2>4 DEF LockExpires
  <2>5. QED
    BY <1>3, <2>1, <2>2, <2>3, <2>4 DEF Matching
<1>4. CASE Background
  <2>1. CASE GhostReads \/ MonitorReads
    BY <2>1 DEF GhostReads, MonitorReads
  <2>2. ASSUME NEW c \in Couriers, GhostReleases(c) PROVE RowStep
    BY <2>2, SpecialRequestType DEF GhostReleases
  <2>3. CASE MonitorExpires
    <3>1. Request("platform", "no_courier_found", NoKey) \in Requests
      BY ConstantsType, RequestType DEF OrderActor, OrderStatus
    <3>2. QED
      BY <2>3, <3>1 DEF MonitorExpires
  <2>4. QED
    BY <1>4, <2>1, <2>2, <2>3 DEF Background
<1>5. ASSUME NEW c \in Couriers, Courier(c) PROVE RowStep
  <2>1. CASE AcceptReads(c)
    BY <2>1 DEF AcceptReads
  <2>2. CASE AssignCourier(c)
    BY <2>2, SpecialRequestType DEF AssignCourier
  <2>3. CASE AcceptWrites(c)
    BY <2>3 DEF AcceptWrites, RawTarget
  <2>4. ASSUME NEW to \in Scans, ScanReads(c, to) PROVE RowStep
    BY <2>4 DEF ScanReads
  <2>5. ASSUME NEW to \in Scans, ScanWrites(c, to) PROVE RowStep
    <3>1. [Request("courier", to, Call("scan", c, to)) EXCEPT !.photo = TRUE] \in Requests
      BY BoundsAssumption, CallType, RequestType DEF Op, Caller, Users, OrderActor
    <3>2. QED
      BY <2>5, <3>1 DEF ScanWrites
  <2>6. QED
    BY <1>5, <2>1, <2>2, <2>3, <2>4, <2>5 DEF Courier
<1>6. ASSUME NEW u \in Users, NEW to \in Targets, StatusReads(u, to) \/ StatusWrites(u, to)
      PROVE  RowStep
  <2>1. CASE StatusReads(u, to)
    BY <2>1 DEF StatusReads
  <2>2. CASE StatusWrites(u, to)
    <3>1. Request(RoleOf(u), to, NoKey) \in Requests
      BY BoundsAssumption, ConstantsType, RequestType DEF RoleOf, OrderActor
    <3>2. QED
      BY <2>2, <3>1 DEF StatusWrites
  <2>3. QED
    BY <1>6, <2>1, <2>2
<1>7. CASE Crash
  BY <1>7 DEF Crash
<1>8. QED
  BY <1>1, <1>2, <1>3, <1>4, <1>5, <1>6, <1>7 DEF Next, Endpoint

-----------------------------------------------------------------------------
(***************************************************************************)
(* A step keeps the operations in flight, the lock and the answer well     *)
(* typed.                                                                  *)
(***************************************************************************)
LEMMA RestType == TypeOK /\ [Next]_vars => RestOK'
<1> SUFFICES ASSUME TypeOK, [Next]_vars PROVE RestOK'
  OBVIOUS
<1>1. RestOK
  BY DEF TypeOK, RestOK, Answers
<1>2. CASE UNCHANGED vars
  BY <1>1, <1>2 DEF vars, RestOK
<1> USE CallType, ConstantsType DEF RestOK
<1>3. CASE Payment
  <2>1. Call("timeout", Nobody, "cancelled") \in Calls
    BY DEF Op, Caller, OrderStatus
  <2>2. CASE ExpiryReads
    BY <1>1, <2>1, <2>2 DEF ExpiryReads, Begin
  <2>3. CASE ExpiryCancels
    <3>1. \A ok \in BOOLEAN : Answer(Call("timeout", Nobody, "cancelled"), ok) \in Answers
      BY DEF Op, Caller, OrderStatus
    <3> DEFINE ok == Outcome(Request("platform", "cancelled", Call("timeout", Nobody, "cancelled"))) \in {"applied", "replayed"}
    <3>2. answer' = Answer(Call("timeout", Nobody, "cancelled"), ok)
      BY <2>3 DEF ExpiryCancels
    <3>3. ok \in BOOLEAN
      OBVIOUS
    <3>4. answer' \in Answers
      <4> HIDE DEF ok
      <4> QED
        BY <3>1, <3>2, <3>3
    <3>5. QED
      BY <1>1, <2>3, <3>4 DEF ExpiryCancels, End
  <2>4. ASSUME NEW d \in Deliveries, WebhookReads(d) \/ WebhookWrites(d) PROVE RestOK'
    <3>1. Call("settle", d, "pending_assignment") \in Calls
      BY DEF Op, Caller, OrderStatus
    <3>2. Answer(Call("settle", d, "pending_assignment"), TRUE) \in Answers
      BY DEF Op, Caller, OrderStatus
    <3>3. QED
      BY <1>1, <2>4, <3>1, <3>2 DEF WebhookReads, WebhookWrites, Begin, End
  <2>5. QED
    BY <1>3, <2>2, <2>3, <2>4 DEF Payment
<1>4. CASE Matching
  <2>1. ASSUME NEW s \in Starters,
               \/ ReplicaLags(s) \/ StartReads(s) \/ StartLaunches(s) \/ MatcherSeesTaken(s)
               \/ MatcherExhausted(s) \/ MatcherGivesUp(s)
        PROVE  RestOK'
    <3>1. /\ Call("snapshot", s, "searching") \in Calls
          /\ Call("start", s, "searching") \in Calls
          /\ Call("match", s, "searching") \in Calls
          /\ Call("giveUp", s, "no_courier_found") \in Calls
          /\ Answer(Call("start", s, "searching"), TRUE) \in Answers
          /\ Answer(Call("giveUp", s, "no_courier_found"), TRUE) \in Answers
      BY DEF Op, Caller, OrderStatus
    <3>2. QED
      BY <1>1, <2>1, <3>1 DEF ReplicaLags, StartReads, SeesWaiting, StartLaunches, MatcherSeesTaken,
                              MatcherExhausted, MatcherGivesUp, Begin, End, Continue
  <2>2. ASSUME NEW u \in Customers \cup Admins, RetryMatching(u) PROVE RestOK'
    BY <1>1, <2>2 DEF RetryMatching, Op, Caller, Users, OrderStatus
  <2>3. CASE LockExpires
    BY <1>1, <2>3 DEF LockExpires
  <2>4. QED
    BY <1>4, <2>1, <2>2, <2>3 DEF Matching
<1>5. CASE Background
  <2>1. CASE GhostReads
    <3>1. Call("ghost", leg.courier, "searching") \in Calls
      BY <2>1 DEF GhostReads, TypeOK, Op, Caller, Users, OrderStatus
    <3>2. QED
      BY <1>1, <2>1, <3>1 DEF GhostReads, Begin
  <2>2. ASSUME NEW c \in Couriers, GhostReleases(c) PROVE RestOK'
    <3>1. \A ok \in BOOLEAN : Answer(Call("ghost", c, "searching"), ok) \in Answers
      BY DEF Op, Caller, Users, OrderStatus
    <3> DEFINE ok == Outcome(ReleaseRequest) \in {"applied", "replayed"}
    <3>2. answer' = Answer(Call("ghost", c, "searching"), ok)
      BY <2>2 DEF GhostReleases
    <3>3. ok \in BOOLEAN
      OBVIOUS
    <3>4. answer' \in Answers
      <4> HIDE DEF ok
      <4> QED
        BY <3>1, <3>2, <3>3
    <3>5. QED
      BY <1>1, <2>2, <3>4 DEF GhostReleases, End
  <2>3. CASE MonitorReads
    BY <1>1, <2>3 DEF MonitorReads, Begin, Op, Caller, OrderStatus
  <2>4. CASE MonitorExpires
    BY <1>1, <2>4 DEF MonitorExpires, End, Op, Caller, OrderStatus
  <2>5. QED
    BY <1>5, <2>1, <2>2, <2>3, <2>4 DEF Background
<1>6. ASSUME NEW c \in Couriers, Courier(c) PROVE RestOK'
  <2>1. /\ Call("accept", c, "assigned") \in Calls
        /\ Call("accepted", c, "accepted") \in Calls
        /\ Answer(Call("accept", c, "assigned"), FALSE) \in Answers
        /\ Answer(Call("accepted", c, "accepted"), TRUE) \in Answers
    BY DEF Op, Caller, Users, OrderStatus
  <2>2. CASE AcceptReads(c)
    BY <1>1, <2>1, <2>2 DEF AcceptReads, Begin
  <2>3. CASE AssignCourier(c)
    BY <1>1, <2>1, <2>3 DEF AssignCourier, ContinueOne, EndOne
  <2>4. CASE AcceptWrites(c)
    BY <1>1, <2>1, <2>4 DEF AcceptWrites, EndOne
  <2>5. ASSUME NEW to \in Scans, ScanReads(c, to) \/ ScanWrites(c, to) PROVE RestOK'
    <3>1. Call("scan", c, to) \in Calls /\ \A ok \in BOOLEAN : Answer(Call("scan", c, to), ok) \in Answers
      BY BoundsAssumption DEF Op, Caller, Users
    <3>2. QED
      BY <1>1, <2>5, <3>1 DEF ScanReads, ScanWrites, Begin, End
  <2>6. QED
    BY <1>6, <2>2, <2>3, <2>4, <2>5 DEF Courier
<1>7. ASSUME NEW u \in Users, NEW to \in Targets, StatusReads(u, to) \/ StatusWrites(u, to)
      PROVE  RestOK'
  <2>1. Call("status", u, to) \in Calls /\ \A ok \in BOOLEAN : Answer(Call("status", u, to), ok) \in Answers
    BY BoundsAssumption DEF Op, Caller
  <2>2. QED
    BY <1>1, <1>7, <2>1 DEF StatusReads, StatusWrites, Begin, End
<1>8. CASE Crash
  BY <1>1, <1>8, BoundsAssumption DEF Crash, End
<1>9. QED
  BY <1>2, <1>3, <1>4, <1>5, <1>6, <1>7, <1>8 DEF Next, Endpoint

(***************************************************************************)
(* Type correctness: the row, the keys, the calls in flight and the        *)
(* answers hold only what their columns and requests can hold.             *)
(***************************************************************************)
THEOREM TypeCorrect == Spec => []TypeOK
<1>1. Init => TypeOK
  <2> SUFFICES ASSUME Init PROVE TypeOK
    OBVIOUS
  <2>1. RowOK
    BY DEF Init, RowOK, OrderStatus
  <2>2. RestOK
    BY BoundsAssumption, ConstantsType DEF Init, RestOK
  <2>3. QED
    BY <2>1, <2>2 DEF TypeOK, RowOK, RestOK, Answers
<1>2. TypeOK /\ [Next]_vars => TypeOK'
  <2> SUFFICES ASSUME TypeOK, [Next]_vars PROVE TypeOK'
    OBVIOUS
  <2>1. RowOK'
    BY NextIsRowStep, RowStepType DEF TypeOK, RowOK
  <2>2. RestOK'
    BY RestType
  <2>3. QED
    BY <2>1, <2>2 DEF TypeOK, RowOK, RestOK, Answers
<1>3. QED
  BY <1>1, <1>2, PTL DEF Spec

-----------------------------------------------------------------------------
(***************************************************************************)
(* A final order is left alone by every step: the raw write asks for a     *)
(* status that is not final, the boundary validates under the row lock.    *)
(***************************************************************************)
THEOREM FinalOrderStays == Spec => TerminalStays
<1>1. TypeOK /\ [Next]_vars => [IsTerminalOrderStatus(status) => UNCHANGED row]_vars
  <2> SUFFICES ASSUME TypeOK, [Next]_vars, IsTerminalOrderStatus(status) PROVE UNCHANGED row
    OBVIOUS
  <2>1. ASSUME NEW to \in RawTarget, RawUpdateStatus(to) PROVE UNCHANGED row
    BY <2>1 DEF RawUpdateStatus, row
  <2>2. ASSUME NEW req \in Requests, TransitionOrder(req) PROVE UNCHANGED row
    BY <2>2, AppliedIsLawful DEF TransitionOrder
  <2>3. QED
    BY <2>1, <2>2, NextIsRowStep DEF RowStep
<1>2. QED
  BY <1>1, TypeCorrect, PTL DEF Spec, TerminalStays

(***************************************************************************)
(* The delivery and its effects go together: photo proof and revenue       *)
(* journal exist, the journal once, exactly when the order is delivered,   *)
(* and the leg is closed exactly when the order is final.                  *)
(***************************************************************************)
THEOREM DeliveryIsCoupled == Spec => []DeliveredOnce
<1>1. Init => DeliveredOnce
  BY DEF Init, DeliveredOnce, IsTerminalOrderStatus
<1>2. TypeOK /\ DeliveredOnce /\ [Next]_vars => DeliveredOnce'
  <2> SUFFICES ASSUME TypeOK, DeliveredOnce, RowStep PROVE DeliveredOnce'
    BY NextIsRowStep
  <2>1. CASE UNCHANGED row
    BY <2>1 DEF DeliveredOnce, IsTerminalOrderStatus, row
  <2>2. ASSUME NEW to \in RawTarget, RawUpdateStatus(to) PROVE DeliveredOnce'
    BY <2>2 DEF DeliveredOnce, RawUpdateStatus, RawTarget, IsTerminalOrderStatus
  <2>3. ASSUME NEW req \in Requests, TransitionOrder(req) PROVE DeliveredOnce'
    <3>1. CASE Outcome(req) = "applied"
      <4>1. ApplyTransition(req) /\ ~IsTerminalOrderStatus(status)
        BY <2>3, <3>1, AppliedIsLawful DEF TransitionOrder
      <4>2. journals = 0 /\ ~proof /\ ~leg.final
        BY <4>1 DEF DeliveredOnce, IsTerminalOrderStatus
      <4>3. journals' = IF status' = "delivered" THEN 1 ELSE 0
        BY <4>1, <4>2 DEF ApplyTransition, LegCourier, TransitionProof, DeliveryLedger
      <4>4. proof' <=> status' = "delivered"
        BY <3>1, <4>1, <4>2, AppliedIsLawful DEF ApplyTransition, LegCourier, TransitionProof, DeliveryLedger
      <4>5. leg'.final <=> IsTerminalOrderStatus(status')
        BY <4>1, <4>2 DEF ApplyTransition, LegCourier, TransitionProof, DeliveryLedger, LegFinal
      <4>6. QED
        BY <4>3, <4>4, <4>5 DEF DeliveredOnce, IsTerminalOrderStatus
    <3>2. CASE Outcome(req) # "applied"
      BY <2>3, <3>2 DEF TransitionOrder, DeliveredOnce, IsTerminalOrderStatus, row
    <3>3. QED
      BY <3>1, <3>2
  <2>4. QED
    BY <2>1, <2>2, <2>3 DEF RowStep
<1>3. QED
  BY <1>1, <1>2, TypeCorrect, PTL DEF Spec

(***************************************************************************)
(* Goods that are being carried stay with their courier and the order is   *)
(* not cancelled: the table has no edge from a carried status to one that  *)
(* an assignment, a ghost release or a cancellation asks for.              *)
(***************************************************************************)
THEOREM CarriedStaysWithCourier == Spec => CustodyKept
<1> DEFINE Kept == (status \in CarriedStatus) => leg'.courier = leg.courier /\ status' # "cancelled"
<1>1. TypeOK /\ [Next]_vars => [Kept]_vars
  <2> SUFFICES ASSUME TypeOK, RowStep, status \in CarriedStatus
               PROVE  leg'.courier = leg.courier /\ status' # "cancelled"
    BY NextIsRowStep
  <2>1. allowedOrderTransitions[status] \cap {"assigned", "searching", "cancelled"} = {}
    BY DEF allowedOrderTransitions, CarriedStatus, OrderStatus
  <2>2. CASE UNCHANGED row
    BY <2>2 DEF row, CarriedStatus
  <2>3. ASSUME NEW to \in RawTarget, RawUpdateStatus(to)
        PROVE  leg'.courier = leg.courier /\ status' # "cancelled"
    BY <2>3 DEF RawUpdateStatus, RawTarget, IsTerminalOrderStatus, CarriedStatus
  <2>4. ASSUME NEW req \in Requests, TransitionOrder(req)
        PROVE  leg'.courier = leg.courier /\ status' # "cancelled"
    <3>1. CASE Outcome(req) = "applied"
      <4>1. ApplyTransition(req) /\ req.to \notin {"assigned", "searching", "cancelled"}
        BY <2>1, <2>4, <3>1, AppliedIsLawful DEF TransitionOrder
      <4>2. QED
        BY <4>1 DEF ApplyTransition, LegCourier, TransitionProof, DeliveryLedger, Requests
    <3>2. CASE Outcome(req) # "applied"
      BY <2>4, <3>2 DEF TransitionOrder, row, CarriedStatus
    <3>3. QED
      BY <3>1, <3>2
  <2>5. QED
    BY <2>2, <2>3, <2>4 DEF RowStep
<1>2. QED
  BY <1>1, TypeCorrect, PTL DEF Spec, CustodyKept

(***************************************************************************)
(* From the assignment to the pickup no courier replaces another: an       *)
(* assignment is applied only to a searching or a failed order.            *)
(***************************************************************************)
THEOREM NoCourierOverwritten == Spec => NoTakeover
<1> DEFINE Before == {"assigned", "accepted", "pickup_arrived", "picking_up"}
           Kept == (status \in Before) => leg'.courier \in {leg.courier, Nobody}
<1>1. TypeOK /\ [Next]_vars => [Kept]_vars
  <2> SUFFICES ASSUME TypeOK, RowStep, status \in Before
               PROVE  leg'.courier \in {leg.courier, Nobody}
    BY NextIsRowStep
  <2>1. "assigned" \notin allowedOrderTransitions[status]
    BY DEF allowedOrderTransitions, OrderStatus
  <2>2. CASE UNCHANGED row
    BY <2>2 DEF row
  <2>3. ASSUME NEW to \in RawTarget, RawUpdateStatus(to)
        PROVE  leg'.courier \in {leg.courier, Nobody}
    BY <2>3 DEF RawUpdateStatus
  <2>4. ASSUME NEW req \in Requests, TransitionOrder(req)
        PROVE  leg'.courier \in {leg.courier, Nobody}
    <3>1. CASE Outcome(req) = "applied"
      <4>1. ApplyTransition(req) /\ req.to # "assigned"
        BY <2>1, <2>4, <3>1, AppliedIsLawful DEF TransitionOrder
      <4>2. QED
        BY <4>1 DEF ApplyTransition, LegCourier, TransitionProof, DeliveryLedger, Requests
    <3>2. CASE Outcome(req) # "applied"
      BY <2>4, <3>2 DEF TransitionOrder, row
    <3>3. QED
      BY <3>1, <3>2
  <2>5. QED
    BY <2>2, <2>3, <2>4 DEF RowStep
<1>2. QED
  BY <1>1, TypeCorrect, PTL DEF Spec, NoTakeover

-----------------------------------------------------------------------------
(* One matcher                                                             *)
(*                                                                         *)
(* Two deliveries of the paid webhook that overlap may both read an order  *)
(* that awaits payment, and the later write then puts an order that is     *)
(* already searching back to where a second search starts.  So the theorem *)
(* says when one matcher is kept: no two deliveries overlap, StartMatching *)
(* reads the primary under its lock, and no admin sets pending_assignment  *)
(* by hand.  SecondMatcher shows what a lagging replica does.              *)

OnePayment ==
    /\ ~ReadReplica
    /\ \A d, e \in Deliveries : d = e
    /\ "pending_assignment" \in Targets => Admins = {}

\* From these statuses StartMatching begins, or a payment leads to it.
Entry == {"pending_payment", "pending_assignment", "pending"}

IsSearch(call) == call.op \in {"start", "match", "giveUp"}

\* The payment, the start of the search and the matcher exclude one another.
SettleInv(call) ==
    /\ \E d \in Deliveries : call = Call("settle", d, "pending_assignment")
    /\ status \notin {"pending_assignment", "pending"}
    /\ \A other \in calls : ~IsSearch(other)
StartInv(call) ==
    /\ lock # Nobody /\ call = Call("start", lock, "searching")
    /\ status # "pending_payment"
    /\ \A other \in calls : ~IsMatcher(other)

MatchInv ==
    /\ \A call \in calls : call.op # "snapshot"
    /\ \A call \in calls : call.op = "settle" => SettleInv(call)
    /\ \A call \in calls : call.op = "start" => StartInv(call)
    /\ \A call \in calls : IsMatcher(call) => status \notin Entry
    /\ OneMatcher

(***************************************************************************)
(* What the boundary makes of a request: nothing, or an edge its actor may *)
(* drive.                                                                  *)
(***************************************************************************)
LEMMA TransitionCases ==
    ASSUME NEW req, TransitionOrder(req)
    PROVE  \/ Outcome(req) # "applied" /\ UNCHANGED row
           \/ /\ Outcome(req) = "applied" /\ ApplyTransition(req) /\ req.key \notin keys
              /\ status' = req.to /\ status # req.to /\ ~IsTerminalOrderStatus(status)
              /\ req.to \in allowedOrderTransitions[status]
              /\ actorMayTransition(req.actor, req.to, category)
BY DEF TransitionOrder, Outcome, ApplyTransition, FindTransitionReplay, ValidateOrderTransition

(***************************************************************************)
(* No edge leads to pending or pending_payment.                            *)
(***************************************************************************)
LEMMA NoEdgeToPending ==
    ASSUME NEW s \in OrderStatus
    PROVE  allowedOrderTransitions[s] \cap {"pending_payment", "pending"} = {}
BY DEF allowedOrderTransitions, OrderStatus

(***************************************************************************)
(* A request for another status than pending_assignment, or of an actor    *)
(* who may not ask for it, never puts an order where a search starts.      *)
(***************************************************************************)
LEMMA TransitionEntersNot ==
    ASSUME TypeOK, NEW req, TransitionOrder(req),
           req.to # "pending_assignment" \/ req.actor \in {"courier", "customer"}
    PROVE  status' \in Entry => status' = status
<1>1. CASE UNCHANGED row
  BY <1>1 DEF row
<1>2. CASE /\ status' = req.to /\ req.to \in allowedOrderTransitions[status]
           /\ actorMayTransition(req.actor, req.to, category)
  <2>1. req.to \notin {"pending_payment", "pending"}
    BY <1>2, NoEdgeToPending DEF TypeOK
  <2>2. req.to # "pending_assignment"
    BY <1>2 DEF actorMayTransition, category, courierTransitions, customerTransitions
  <2>3. QED
    BY <1>2, <2>1, <2>2 DEF Entry
<1>3. QED
  BY <1>1, <1>2, TransitionCases

(***************************************************************************)
(* A step that opens no payment or search, leaves the lock alone and puts  *)
(* the order nowhere a search starts, keeps the invariant.                 *)
(***************************************************************************)
LEMMA OthersKeepMatch ==
    ASSUME MatchInv, lock' = lock,
           \A call \in calls' : call.op \in {"settle", "snapshot"} \/ IsSearch(call) => call \in calls,
           status' \in Entry => status' = status
    PROVE  MatchInv'
<1>1. \A call \in calls' : IsMatcher(call) => call \in calls
  BY DEF IsMatcher, IsSearch
<1>2. ASSUME NEW call \in calls', call.op = "settle" PROVE SettleInv(call)'
  BY <1>2 DEF MatchInv, SettleInv, Entry
<1>3. ASSUME NEW call \in calls', call.op = "start" PROVE StartInv(call)'
  BY <1>1, <1>3 DEF MatchInv, StartInv, Entry, IsSearch
<1>4. ASSUME NEW call \in calls', IsMatcher(call) PROVE status' \notin Entry
  BY <1>1, <1>4 DEF MatchInv
<1>5. OneMatcher'
  BY <1>1 DEF MatchInv, OneMatcher
<1>6. \A call \in calls' : call.op # "snapshot"
  BY DEF MatchInv
<1>7. QED
  BY <1>2, <1>3, <1>4, <1>5, <1>6 DEF MatchInv

(***************************************************************************)
(* The paid webhook opens no payment beside a search, and when it writes,  *)
(* no search has begun.                                                    *)
(***************************************************************************)
LEMMA WebhookKeepsMatch ==
    ASSUME OnePayment, MatchInv, NEW d \in Deliveries, WebhookReads(d) \/ WebhookWrites(d)
    PROVE  MatchInv'
<1> DEFINE settle == Call("settle", d, "pending_assignment")
<1>1. CASE WebhookReads(d)
  <2>1. calls' = calls \cup {settle} /\ status = "pending_payment" /\ UNCHANGED <<status, lock>>
    BY <1>1 DEF WebhookReads, Begin, row
  <2>2. \A call \in calls : ~IsSearch(call)
    BY <2>1 DEF MatchInv, StartInv, IsSearch, IsMatcher, Entry
  <2>3. \A call \in calls' : ~IsSearch(call) /\ ~IsMatcher(call) /\ call.op # "snapshot"
    BY <2>1, <2>2 DEF IsSearch, IsMatcher, Call, MatchInv
  <2>4. ASSUME NEW call \in calls', call.op = "settle" PROVE SettleInv(call)'
    BY <2>1, <2>3, <2>4 DEF SettleInv, MatchInv, Call
  <2>5. QED
    BY <2>3, <2>4 DEF MatchInv, OneMatcher, IsSearch
<1>2. CASE WebhookWrites(d)
  <2>1. settle \in calls /\ calls' = calls \ {settle} /\ settle.op = "settle"
    BY <1>2 DEF WebhookWrites, End, Call
  <2>2. \A call \in calls' : ~IsSearch(call) /\ call.op # "snapshot"
    BY <2>1 DEF MatchInv, SettleInv
  <2>3. ASSUME NEW call \in calls', call.op = "settle" PROVE FALSE
    BY <2>1, <2>3 DEF MatchInv, SettleInv, OnePayment
  <2>4. QED
    BY <2>2, <2>3 DEF MatchInv, OneMatcher, IsSearch, IsMatcher
<1>3. QED
  BY <1>1, <1>2

(***************************************************************************)
(* StartMatching reads under the lock, so it is the only start, and it     *)
(* becomes the only matcher; a matcher gives up in its own place.          *)
(***************************************************************************)
LEMMA SearchKeepsMatch ==
    ASSUME OnePayment, MatchInv, NEW s \in Starters,
           \/ ReplicaLags(s) \/ StartReads(s) \/ StartLaunches(s)
           \/ MatcherSeesTaken(s) \/ MatcherExhausted(s) \/ MatcherGivesUp(s)
    PROVE  MatchInv'
<1> DEFINE start == Call("start", s, "searching")
           match == Call("match", s, "searching")
           giveUp == Call("giveUp", s, "no_courier_found")
<1>0. CASE ReplicaLags(s)
  BY <1>0 DEF ReplicaLags, OnePayment
<1>1. CASE StartReads(s)
  <2>0. Call("snapshot", s, "searching") \notin calls
    BY DEF MatchInv, Call
  <2>1. /\ calls' = calls \cup {start} /\ lock = Nobody /\ lock' = s /\ status' = status
        /\ status \in {"pending_assignment", "pending"}
    BY <1>1, <2>0 DEF StartReads, SeesWaiting, Begin, Continue, row
  <2>2. \A call \in calls : ~IsSearch(call) /\ call.op # "settle" /\ ~IsMatcher(call)
    BY <2>1 DEF MatchInv, SettleInv, StartInv, IsSearch, IsMatcher, Entry
  <2>3. \A call \in calls' : ~IsMatcher(call) /\ (call \in calls \/ call = start)
    BY <2>1, <2>2 DEF IsMatcher, Call
  <2>4. s # Nobody /\ start.op = "start"
    BY ActorsAssumption DEF Call
  <2>5. ASSUME NEW call \in calls', call.op = "start" PROVE StartInv(call)'
    BY <2>1, <2>2, <2>3, <2>4, <2>5 DEF StartInv, IsSearch
  <2>6. \A call \in calls' : call.op \notin {"settle", "snapshot"}
    BY <2>2, <2>3, <2>4 DEF MatchInv
  <2>7. QED
    BY <2>3, <2>5, <2>6 DEF MatchInv, OneMatcher
<1>2. CASE StartLaunches(s)
  <2>1. start \in calls /\ calls' = (calls \ {start}) \cup {match} /\ start.op = "start"
    BY <1>2 DEF StartLaunches, Continue, Call
  <2>2. \A call \in calls : /\ call.op \notin {"settle", "snapshot"} /\ ~IsMatcher(call)
                            /\ call.op = "start" => call = start
    BY <2>1 DEF MatchInv, SettleInv, StartInv, IsSearch
  <2>3. status' \notin Entry
    BY <1>2 DEF StartLaunches, RawUpdateStatus, IsTerminalOrderStatus, Entry
  <2>4. \A call \in calls' : /\ call.op \notin {"settle", "snapshot", "start"}
                             /\ IsMatcher(call) => call = match
    BY <2>1, <2>2 DEF Call
  <2>5. QED
    BY <2>3, <2>4 DEF MatchInv, OneMatcher
<1>3. CASE MatcherExhausted(s)
  <2>1. /\ match \in calls /\ calls' = (calls \ {match}) \cup {giveUp} /\ IsMatcher(match)
        /\ status = "searching" /\ status' = status /\ lock' = lock
    BY <1>3 DEF MatcherExhausted, Continue, Call, IsMatcher, row
  <2>2. \A call \in calls : /\ call.op \notin {"settle", "snapshot", "start"}
                            /\ IsMatcher(call) => call = match
    BY <2>1 DEF MatchInv, OneMatcher, SettleInv, StartInv, IsSearch, IsMatcher
  <2>3. \A call \in calls' : /\ call.op \notin {"settle", "snapshot", "start"}
                             /\ IsMatcher(call) => call = giveUp
    BY <2>1, <2>2 DEF Call
  <2>4. QED
    BY <2>1, <2>3 DEF MatchInv, OneMatcher, Entry
<1>4. CASE MatcherSeesTaken(s)
  BY <1>4, OthersKeepMatch DEF MatcherSeesTaken, End, row
<1>5. CASE MatcherGivesUp(s)
  <2>1. status' \in Entry => status' = status
    BY <1>5 DEF MatcherGivesUp, RawUpdateStatus, Entry
  <2>2. QED
    BY <1>5, <2>1, OthersKeepMatch DEF MatcherGivesUp, End
<1>6. QED
  BY <1>0, <1>1, <1>2, <1>3, <1>4, <1>5

(***************************************************************************)
(* Every step keeps the invariant, one action at a time.                   *)
(***************************************************************************)
LEMMA NextKeepsMatch == ASSUME OnePayment, TypeOK, MatchInv, Next PROVE MatchInv'
<1> DEFINE Quiet == \A call \in calls' :
                      call.op \in {"settle", "snapshot"} \/ IsSearch(call) => call \in calls
           Still == status' \in Entry => status' = status
<1>1. CASE Payment
  <2>1. CASE ExpiryReads
    <3>1. Quiet /\ Still /\ lock' = lock
      BY <2>1 DEF ExpiryReads, Begin, Call, IsSearch, row
    <3>2. QED
      BY <3>1, OthersKeepMatch
  <2>2. CASE ExpiryCancels
    <3>1. Quiet /\ lock' = lock
      BY <2>2 DEF ExpiryCancels, End
    <3>2. Still
      BY <2>2, TransitionEntersNot DEF ExpiryCancels, Request
    <3>3. QED
      BY <3>1, <3>2, OthersKeepMatch
  <2>3. QED
    BY <1>1, <2>1, <2>2, WebhookKeepsMatch DEF Payment
<1>2. CASE Matching
  <2>1. CASE LockExpires
    <3>1. \A call \in calls : call.op # "start"
      BY <2>1 DEF LockExpires, MatchInv, StartInv
    <3>2. QED
      BY <2>1, <3>1 DEF LockExpires, row, MatchInv, SettleInv, OneMatcher
  <2>2. ASSUME NEW u \in Customers \cup Admins, RetryMatching(u) PROVE MatchInv'
    BY <2>2, OthersKeepMatch DEF RetryMatching, row
  <2>3. QED
    BY <1>2, <2>1, <2>2, SearchKeepsMatch DEF Matching
<1>3. CASE Background
  <2>1. CASE GhostReads \/ MonitorReads
    <3>1. Quiet /\ Still /\ lock' = lock
      BY <2>1 DEF GhostReads, MonitorReads, Begin, Call, IsSearch, row
    <3>2. QED
      BY <3>1, OthersKeepMatch
  <2>2. ASSUME NEW c \in Couriers, GhostReleases(c) PROVE MatchInv'
    <3>1. Quiet /\ lock' = lock
      BY <2>2 DEF GhostReleases, End
    <3>2. Still
      BY <2>2, TransitionEntersNot DEF GhostReleases, ReleaseRequest, Request
    <3>3. QED
      BY <3>1, <3>2, OthersKeepMatch
  <2>3. CASE MonitorExpires
    <3>1. Quiet /\ lock' = lock
      BY <2>3 DEF MonitorExpires, End
    <3>2. Still
      BY <2>3, TransitionEntersNot DEF MonitorExpires, Request
    <3>3. QED
      BY <3>1, <3>2, OthersKeepMatch
  <2>4. QED
    BY <1>3, <2>1, <2>2, <2>3 DEF Background
<1>4. ASSUME NEW c \in Couriers, Courier(c) PROVE MatchInv'
  <2>1. Quiet /\ lock' = lock
    <3> DEFINE Own == \A call \in calls' : call \in calls \/ call.op \in {"accept", "accepted", "scan"}
    <3>1. CASE AcceptReads(c)
      <4>1. calls' = calls \cup {Call("accept", c, "assigned")} /\ lock' = lock
        BY <3>1 DEF AcceptReads, Begin
      <4>2. Own /\ lock' = lock
        BY <4>1 DEF Call
      <4>3. QED
        BY <4>2 DEF IsSearch
    <3>2. CASE AssignCourier(c)
      <4>1. calls' \subseteq calls \cup {Call("accepted", c, "accepted")} /\ lock' = lock
        BY <3>2 DEF AssignCourier, EndOne, ContinueOne
      <4>2. Own /\ lock' = lock
        BY <4>1 DEF Call
      <4>3. QED
        BY <4>2 DEF IsSearch
    <3>3. ASSUME NEW to \in Scans, ScanReads(c, to) PROVE Quiet /\ lock' = lock
      <4>1. calls' = calls \cup {Call("scan", c, to)} /\ lock' = lock
        BY <3>3 DEF ScanReads, Begin
      <4>2. Own /\ lock' = lock
        BY <4>1 DEF Call
      <4>3. QED
        BY <4>2 DEF IsSearch
    <3>4. CASE AcceptWrites(c) \/ \E to \in Scans : ScanWrites(c, to)
      BY <3>4 DEF AcceptWrites, ScanWrites, EndOne, End
    <3>5. QED
      BY <1>4, <3>1, <3>2, <3>3, <3>4 DEF Courier
  <2>2. CASE AcceptReads(c) \/ \E to \in Scans : ScanReads(c, to)
    BY <2>1, <2>2, OthersKeepMatch DEF AcceptReads, ScanReads, row
  <2>3. CASE AssignCourier(c)
    <3>1. AssignRequest(c).to = "assigned"
      BY DEF AssignRequest, Request
    <3>2. Still
      BY <2>3, <3>1, TransitionEntersNot DEF AssignCourier
    <3>3. QED
      BY <2>1, <3>2, OthersKeepMatch
  <2>4. CASE AcceptWrites(c)
    <3>1. Still
      BY <2>4 DEF AcceptWrites, RawUpdateStatus, Entry, row
    <3>2. QED
      BY <2>1, <3>1, OthersKeepMatch
  <2>5. ASSUME NEW to \in Scans, ScanWrites(c, to) PROVE MatchInv'
    <3>1. Still
      BY <2>5, TransitionEntersNot DEF ScanWrites, Request
    <3>2. QED
      BY <2>1, <3>1, OthersKeepMatch
  <2>6. QED
    BY <1>4, <2>2, <2>3, <2>4, <2>5 DEF Courier
<1>5. ASSUME NEW u \in Users, NEW to \in Targets, StatusReads(u, to) \/ StatusWrites(u, to)
      PROVE  MatchInv'
  <2>1. Quiet /\ lock' = lock
    BY <1>5 DEF StatusReads, StatusWrites, Begin, End, Call, IsSearch
  <2>2. CASE StatusReads(u, to)
    BY <2>1, <2>2, OthersKeepMatch DEF StatusReads, row
  <2>3. CASE StatusWrites(u, to)
    <3>1. to # "pending_assignment" \/ RoleOf(u) \in {"courier", "customer"}
      BY DEF OnePayment, RoleOf
    <3>2. Still
      BY <2>3, <3>1, TransitionEntersNot DEF StatusWrites, Request
    <3>3. QED
      BY <2>1, <3>2, OthersKeepMatch
  <2>4. QED
    BY <1>5, <2>2, <2>3
<1>6. CASE Crash
  BY <1>6, OthersKeepMatch DEF Crash, End, row
<1>7. QED
  BY <1>1, <1>2, <1>3, <1>4, <1>5, <1>6 DEF Next, Endpoint

(***************************************************************************)
(* While payments do not overlap and the primary is read, at most one      *)
(* matching goroutine runs for an order, however many callers start it,    *)
(* crash in it or outlive the lock.                                        *)
(***************************************************************************)
THEOREM OneMatcherRuns == ASSUME OnePayment PROVE Spec => []OneMatcher
<1>1. Init => MatchInv
  BY DEF Init, MatchInv, OneMatcher
<1>2. TypeOK /\ MatchInv /\ [Next]_vars => MatchInv'
  <2> SUFFICES ASSUME TypeOK, MatchInv, [Next]_vars PROVE MatchInv'
    OBVIOUS
  <2>1. CASE UNCHANGED vars
    BY <2>1, OthersKeepMatch DEF vars
  <2>2. QED
    BY <2>1, NextKeepsMatch
<1>3. MatchInv => OneMatcher
  BY DEF MatchInv
<1>4. QED
  BY <1>1, <1>2, <1>3, TypeCorrect, PTL DEF Spec

-----------------------------------------------------------------------------
(* An order that is offered once                                           *)
(*                                                                         *)
(* The ownership check of the status endpoint and the key of an assignment *)
(* are read without the row's lock and outlive the search they belong to.  *)
(* They are safe while an order is offered once: no ghost release, failed  *)
(* delivery or second payment brings it back into the search.  ReturnedWork *)
(* shows what happens once one does.  Repeated accepts, whose raw write    *)
(* may take back any status but a final one, do no harm to them.           *)

Progress == {"pickup_arrived", "picking_up"} \cup CarriedStatus \cup {"delivered", "return_to_sender"}

OfferedOnce ==
    /\ \A d, e \in Deliveries : d = e
    /\ ~ReadReplica
    /\ "ghost" \notin Workers
    /\ Targets \subseteq Progress \cup {"cancelled"}
    /\ Scans \subseteq Progress

\* A late matcher writes no_courier_found over an order that was taken.
Taken == Progress \cup {"assigned", "accepted", "no_courier_found", "cancelled"}
Flow  == Taken \cup {"pending_payment", "pending_assignment", "searching"}

\* What a call in flight has read is still true, or its write is harmless.
CallInv(call) ==
    /\ call.op # "ghost"
    /\ call.op = "settle" => status \in {"pending_payment", "cancelled"}
    /\ call.op = "start" => status \in {"pending_assignment", "cancelled"}
    /\ call.op = "accepted" => call.by \in Couriers /\ leg.courier = call.by
    /\ call.op = "status" /\ call.by \in Couriers /\ call.to \in courierOnlyStatuses =>
          leg.courier = call.by

\* Whose assignment is on record is the courier of the leg.
EventInv(key) == key.op = "accept" => key.by \in Couriers /\ leg.courier = key.by

OfferInv ==
    /\ status \in Flow
    /\ leg.courier # Nobody => status \in Taken
    /\ \A call \in calls : CallInv(call)
    /\ \A key \in keys : EventInv(key)

(***************************************************************************)
(* The edges the endpoint and the scans follow start from an order that    *)
(* somebody took.                                                          *)
(***************************************************************************)
LEMMA EdgesForward ==
    ASSUME NEW s \in Flow, NEW t \in Progress, t \in allowedOrderTransitions[s]
    PROVE  s \in Taken \ {"cancelled"}
BY DEF Flow, Taken, Progress, CarriedStatus, allowedOrderTransitions, OrderStatus

(***************************************************************************)
(* A step that leaves the leg's courier alone keeps the invariant, if it   *)
(* leaves the status, cancels, or moves an order that no payment or search *)
(* still has to write to.                                                  *)
(***************************************************************************)
LEMMA StepKeeps ==
    ASSUME OfferInv, leg'.courier = leg.courier,
           \A key \in keys' : key.op = "accept" => key \in keys,
           \A call \in calls' : call \in calls \/ CallInv(call)',
           \/ status' \in {status, "cancelled"}
           \/ /\ status' \in Flow /\ (leg.courier # Nobody => status' \in Taken)
              /\ \A call \in calls' : call.op \notin {"settle", "start"}
    PROVE  OfferInv'
<1>1. status' \in Flow /\ (leg.courier # Nobody => status' \in Taken)
  BY DEF OfferInv, Flow, Taken
<1>2. ASSUME NEW call \in calls', call \in calls PROVE CallInv(call)'
  <2>1. CallInv(call)
    BY <1>2 DEF OfferInv
  <2>2. call.op \in {"settle", "start"} => status' \in {status, "cancelled"}
    OBVIOUS
  <2>3. QED
    BY <2>1, <2>2 DEF CallInv
<1>3. ASSUME NEW key \in keys' PROVE EventInv(key)'
  BY DEF OfferInv, EventInv
<1>4. QED
  BY <1>1, <1>2, <1>3 DEF OfferInv

(***************************************************************************)
(* An operation that reads keeps the invariant, if what it has read is     *)
(* enough for its write.                                                   *)
(***************************************************************************)
LEMMA ReadKeeps ==
    ASSUME OfferInv, UNCHANGED row, NEW call, CallInv(call), calls' \subseteq calls \cup {call}
    PROVE  OfferInv'
<1>1. CallInv(call)'
  BY DEF CallInv, row
<1>2. QED
  BY <1>1, StepKeeps DEF row

(***************************************************************************)
(* A request that neither assigns nor releases leaves the leg's courier.   *)
(***************************************************************************)
LEMMA PlainRequestKeepsCourier ==
    ASSUME NEW req, TransitionOrder(req), req.courier = Nobody, ~req.clear
    PROVE  leg'.courier = leg.courier /\ keys' \subseteq keys \cup ({req.key} \ {NoKey})
<1>1. CASE UNCHANGED row
  BY <1>1 DEF row
<1>2. CASE ApplyTransition(req)
  BY <1>2 DEF ApplyTransition, LegCourier
<1>3. QED
  BY <1>1, <1>2, TransitionCases

(***************************************************************************)
(* A request of the endpoint, of a scan or of the payment's timeout keeps  *)
(* the invariant.                                                          *)
(***************************************************************************)
LEMMA RequestKeeps ==
    ASSUME OfferInv, NEW req, TransitionOrder(req), req.to \in Progress \cup {"cancelled"},
           req.courier = Nobody, ~req.clear, req.key = NoKey \/ req.key.op # "accept",
           calls' \subseteq calls
    PROVE  OfferInv'
<1>1. leg'.courier = leg.courier /\ \A key \in keys' : key.op = "accept" => key \in keys
  BY PlainRequestKeepsCourier
<1>2. CASE status' \in {status, "cancelled"}
  BY <1>1, <1>2, StepKeeps
<1>3. CASE status' = req.to /\ req.to \in Progress /\ req.to \in allowedOrderTransitions[status]
  <2>1. status \in Taken \ {"cancelled"} /\ status \in Flow /\ status' \in Taken
    BY <1>3, EdgesForward DEF OfferInv, Taken
  <2>2. \A call \in calls' : call.op \notin {"settle", "start"}
    BY <2>1 DEF OfferInv, CallInv, Taken, Progress, CarriedStatus
  <2>3. QED
    BY <1>1, <2>1, <2>2, StepKeeps DEF Flow
<1>4. QED
  BY <1>2, <1>3, TransitionCases DEF row

(***************************************************************************)
(* The payment and its timeout keep the invariant.                         *)
(***************************************************************************)
LEMMA PaymentKeepsOffer ==
    ASSUME OfferedOnce, TypeOK, MatchInv, OfferInv, Payment PROVE OfferInv'
<1>1. CASE ExpiryReads
  <2> DEFINE call == Call("timeout", Nobody, "cancelled")
  <2>1. CallInv(call) /\ calls' = calls \cup {call} /\ UNCHANGED row
    BY <1>1 DEF ExpiryReads, Begin, Call, CallInv
  <2>2. QED
    BY <2>1, ReadKeeps
<1>2. CASE ExpiryCancels
  <2> DEFINE req == Request("platform", "cancelled", Call("timeout", Nobody, "cancelled"))
  <2>1. TransitionOrder(req) /\ calls' \subseteq calls
    BY <1>2 DEF ExpiryCancels, End
  <2>2. req.to = "cancelled" /\ req.courier = Nobody /\ ~req.clear /\ req.key.op = "timeout"
    BY DEF Request, Call
  <2> HIDE DEF req
  <2>3. QED
    BY <2>1, <2>2, RequestKeeps
<1>3. ASSUME NEW d \in Deliveries, WebhookReads(d) PROVE OfferInv'
  <2> DEFINE call == Call("settle", d, "pending_assignment")
  <2>1. CallInv(call) /\ calls' = calls \cup {call} /\ UNCHANGED row
    BY <1>3 DEF WebhookReads, Begin, Call, CallInv
  <2>2. QED
    BY <2>1, ReadKeeps
<1>4. ASSUME NEW d \in Deliveries, WebhookWrites(d) PROVE OfferInv'
  <2> DEFINE settle == Call("settle", d, "pending_assignment")
  <2>1. settle \in calls /\ settle.op = "settle" /\ calls' = calls \ {settle} /\ UNCHANGED <<leg, keys>>
    BY <1>4 DEF WebhookWrites, End, Call, RawUpdateStatus
  <2>2. status \in {"pending_payment", "cancelled"}
    BY <2>1 DEF OfferInv, CallInv
  <2>3. status' = IF status = "cancelled" THEN status ELSE "pending_assignment"
    BY <1>4, <2>2 DEF WebhookWrites, RawUpdateStatus, IsTerminalOrderStatus
  <2>4. CASE status = "cancelled"
    BY <2>1, <2>3, <2>4, StepKeeps
  <2>5. CASE status = "pending_payment"
    <3>1. \A call \in calls' : call.op \notin {"settle", "start"}
      BY <2>1, <2>5 DEF MatchInv, SettleInv, StartInv, OfferedOnce
    <3>2. leg.courier = Nobody
      BY <2>5 DEF OfferInv, Taken, Progress, CarriedStatus
    <3>3. QED
      BY <2>1, <2>3, <2>5, <3>1, <3>2, StepKeeps DEF Flow
  <2>6. QED
    BY <2>2, <2>4, <2>5
<1>5. QED
  BY <1>1, <1>2, <1>3, <1>4 DEF Payment

(***************************************************************************)
(* The search keeps the invariant: it starts before anybody took the       *)
(* order, and a matcher gives up when no payment or start is under way.    *)
(***************************************************************************)
LEMMA MatchingKeepsOffer ==
    ASSUME OfferedOnce, TypeOK, MatchInv, OfferInv, Matching PROVE OfferInv'
<1>1. ASSUME UNCHANGED row, calls' \subseteq calls PROVE OfferInv'
  BY <1>1, StepKeeps DEF row
<1>2. CASE LockExpires \/ \E u \in Customers \cup Admins : RetryMatching(u)
  BY <1>1, <1>2 DEF LockExpires, RetryMatching
<1>3. ASSUME NEW s \in Starters, StartReads(s) PROVE OfferInv'
  <2> DEFINE call == Call("start", s, "searching")
  <2>1. Call("snapshot", s, "searching") \notin calls
    BY DEF MatchInv, Call
  <2>2. status \in {"pending_assignment", "pending"} /\ calls' = calls \cup {call} /\ UNCHANGED row
    BY <1>3, <2>1 DEF StartReads, SeesWaiting, Begin, Continue
  <2>3. CallInv(call)
    BY <2>2 DEF OfferInv, Flow, Taken, Progress, CarriedStatus, Call, CallInv
  <2>4. QED
    BY <2>2, <2>3, ReadKeeps
<1>4. ASSUME NEW s \in Starters, StartLaunches(s) PROVE OfferInv'
  <2> DEFINE start == Call("start", s, "searching")
             match == Call("match", s, "searching")
  <2>1. /\ start \in calls /\ calls' = (calls \ {start}) \cup {match} /\ UNCHANGED <<leg, keys>>
        /\ start.op = "start" /\ match.op = "match"
    BY <1>4 DEF StartLaunches, Continue, Call, RawUpdateStatus
  <2>2. status \in {"pending_assignment", "cancelled"}
    BY <2>1 DEF OfferInv, CallInv
  <2>3. \A call \in calls' : call.op \notin {"settle", "start"}
    BY <2>1 DEF MatchInv, SettleInv, StartInv, IsSearch
  <2>4. CallInv(match)'
    BY <2>1 DEF CallInv
  <2>5. status' = IF status = "cancelled" THEN status ELSE "searching"
    BY <1>4, <2>2 DEF StartLaunches, RawUpdateStatus, IsTerminalOrderStatus
  <2>6. status # "cancelled" => leg.courier = Nobody
    BY <2>2 DEF OfferInv, Taken, Progress, CarriedStatus
  <2>7. QED
    BY <2>1, <2>3, <2>4, <2>5, <2>6, StepKeeps DEF Flow
<1>5. ASSUME NEW s \in Starters, MatcherSeesTaken(s) PROVE OfferInv'
  BY <1>1, <1>5 DEF MatcherSeesTaken, End
<1>6. ASSUME NEW s \in Starters, MatcherExhausted(s) PROVE OfferInv'
  <2> DEFINE giveUp == Call("giveUp", s, "no_courier_found")
  <2>1. CallInv(giveUp) /\ calls' \subseteq calls \cup {giveUp} /\ UNCHANGED row
    BY <1>6 DEF MatcherExhausted, Continue, Call, CallInv
  <2>2. QED
    BY <2>1, ReadKeeps
<1>7. ASSUME NEW s \in Starters, MatcherGivesUp(s) PROVE OfferInv'
  <2> DEFINE giveUp == Call("giveUp", s, "no_courier_found")
  <2>1. giveUp \in calls /\ IsSearch(giveUp) /\ IsMatcher(giveUp)
    BY <1>7 DEF MatcherGivesUp, End, Call, IsSearch, IsMatcher
  <2>2. \A call \in calls : call.op \notin {"settle", "start"}
    BY <2>1 DEF MatchInv, SettleInv, StartInv
  <2>3. calls' \subseteq calls /\ UNCHANGED <<leg, keys>> /\ status' \in {status, "no_courier_found"}
    BY <1>7 DEF MatcherGivesUp, End, RawUpdateStatus
  <2>4. QED
    BY <2>2, <2>3, StepKeeps DEF Flow, Taken
<1>8. ASSUME NEW s \in Starters, ReplicaLags(s) PROVE OfferInv'
  BY <1>8 DEF ReplicaLags, OfferedOnce
<1>9. QED
  BY <1>2, <1>3, <1>4, <1>5, <1>6, <1>7, <1>8 DEF Matching

(***************************************************************************)
(* The monitor ends a search nobody took; the ghost worker does not run.   *)
(***************************************************************************)
LEMMA BackgroundKeepsOffer ==
    ASSUME OfferedOnce, TypeOK, OfferInv, Background PROVE OfferInv'
<1>1. CASE GhostReads
  BY <1>1 DEF GhostReads, OfferedOnce
<1>2. ASSUME NEW c \in Couriers, GhostReleases(c) PROVE OfferInv'
  <2>1. Call("ghost", c, "searching") \in calls /\ Call("ghost", c, "searching").op = "ghost"
    BY <1>2 DEF GhostReleases, End, Call
  <2>2. QED
    BY <2>1 DEF OfferInv, CallInv
<1>3. CASE MonitorReads
  <2> DEFINE call == Call("expire", Nobody, "no_courier_found")
  <2>1. CallInv(call) /\ calls' = calls \cup {call} /\ UNCHANGED row
    BY <1>3 DEF MonitorReads, Begin, Call, CallInv
  <2>2. QED
    BY <2>1, ReadKeeps
<1>4. CASE MonitorExpires
  <2> DEFINE req == Request("platform", "no_courier_found", NoKey)
  <2>1. TransitionOrder(req) /\ calls' \subseteq calls
    BY <1>4 DEF MonitorExpires, End
  <2>2. req.to = "no_courier_found" /\ req.courier = Nobody /\ ~req.clear /\ req.key = NoKey
    BY DEF Request
  <2> HIDE DEF req
  <2>3. leg'.courier = leg.courier /\ keys' \subseteq keys
    BY <2>1, <2>2, PlainRequestKeepsCourier
  <2>4. CASE UNCHANGED row
    BY <2>1, <2>4, StepKeeps DEF row
  <2>5. CASE /\ status' = "no_courier_found" /\ status \in OrderStatus
             /\ "no_courier_found" \in allowedOrderTransitions[status]
    <3>1. status = "searching"
      BY <2>5 DEF allowedOrderTransitions, OrderStatus
    <3>2. \A call \in calls : call.op \notin {"settle", "start"}
      BY <3>1 DEF OfferInv, CallInv
    <3>3. QED
      BY <2>1, <2>3, <2>5, <3>2, StepKeeps DEF Flow, Taken
  <2>6. QED
    BY <2>1, <2>2, <2>4, <2>5, TransitionCases DEF TypeOK
<1>5. QED
  BY <1>1, <1>2, <1>3, <1>4 DEF Background

(***************************************************************************)
(* An assignment is applied to an order that is being searched for, and    *)
(* its courier is then the leg's; a replayed one is that courier's own.    *)
(***************************************************************************)
LEMMA AssignKeepsOffer ==
    ASSUME OfferedOnce, TypeOK, DeliveredOnce, OfferInv, NEW c \in Couriers, AssignCourier(c)
    PROVE  OfferInv'
<1> DEFINE req == AssignRequest(c)
           accept == Call("accept", c, "assigned")
           accepted == Call("accepted", c, "accepted")
<1>1. /\ req.to = "assigned" /\ req.courier = c /\ req.key = accept /\ accept # NoKey
      /\ accept.op = "accept" /\ accept.by = c /\ accepted.op = "accepted" /\ accepted.by = c
  BY DEF AssignRequest, Request, Call, NoKey
<1>2. accept \in calls /\ TransitionOrder(req) /\ calls' \subseteq calls \cup {accepted}
  BY DEF AssignCourier, EndOne, ContinueOne
<1>3. CASE Outcome(req) # "applied"
  <2>1. UNCHANGED row
    BY <1>2, <1>3, TransitionCases
  <2>2. CASE Outcome(req) = "replayed"
    <3>1. accept \in keys
      BY <1>1, <2>2 DEF Outcome, FindTransitionReplay
    <3>2. leg.courier = c
      BY <1>1, <3>1 DEF OfferInv, EventInv
    <3>3. CallInv(accepted)
      BY <1>1, <3>2 DEF CallInv
    <3>4. QED
      BY <1>2, <2>1, <3>3, ReadKeeps
  <2>3. CASE Outcome(req) # "replayed"
    <3>1. calls' \subseteq calls
      BY <1>3, <2>3 DEF AssignCourier, EndOne
    <3>2. QED
      BY <2>1, <3>1, StepKeeps DEF row
  <2>4. QED
    BY <2>2, <2>3
<1>4. CASE Outcome(req) = "applied"
  <2>1. /\ ApplyTransition(req) /\ status' = "assigned"
        /\ "assigned" \in allowedOrderTransitions[status]
    BY <1>1, <1>2, <1>4, TransitionCases
  <2>2. status = "searching" /\ ~IsTerminalOrderStatus(status)
    BY <2>1 DEF OfferInv, Flow, Taken, Progress, CarriedStatus, allowedOrderTransitions,
                OrderStatus, IsTerminalOrderStatus
  <2>3. leg.courier = Nobody /\ c # Nobody
    BY <2>2, ActorsAssumption DEF OfferInv, Taken, Progress, CarriedStatus
  <2>4. leg'.courier = c /\ keys' = keys \cup {accept}
    BY <1>1, <2>1, <2>2, <2>3 DEF ApplyTransition, LegCourier, DeliveredOnce
  <2>5. \A key \in keys : key.op # "accept"
    BY <2>3, ActorsAssumption DEF OfferInv, EventInv
  <2>6. ASSUME NEW call \in calls' PROVE CallInv(call)'
    <3>1. CASE call = accepted
      BY <1>1, <2>4, <3>1 DEF CallInv
    <3>2. CASE call # accepted
      <4>1. call \in calls /\ CallInv(call)
        BY <1>2, <3>2 DEF OfferInv
      <4>2. call.op \notin {"settle", "start"}
        BY <2>2, <4>1 DEF CallInv
      <4>3. call.op # "accepted" /\ ~(call.op = "status" /\ call.by \in Couriers /\ call.to \in courierOnlyStatuses)
        BY <2>3, <4>1, ActorsAssumption DEF CallInv
      <4>4. QED
        BY <4>1, <4>2, <4>3 DEF CallInv
    <3>3. QED
      BY <3>1, <3>2
  <2>7. \A key \in keys' : EventInv(key)'
    BY <1>1, <2>4, <2>5 DEF EventInv
  <2>8. QED
    BY <2>1, <2>6, <2>7 DEF OfferInv, Flow, Taken
<1>5. QED
  BY <1>3, <1>4

(***************************************************************************)
(* A courier's acceptance keeps the invariant: its raw write of accepted   *)
(* finds that courier on the leg.                                          *)
(***************************************************************************)
LEMMA AcceptKeepsOffer ==
    ASSUME OfferedOnce, TypeOK, OfferInv, NEW c \in Couriers, AcceptReads(c) \/ AcceptWrites(c)
    PROVE  OfferInv'
<1>1. CASE AcceptReads(c)
  <2> DEFINE accept == Call("accept", c, "assigned")
  <2>1. CallInv(accept) /\ calls' = calls \cup {accept} /\ UNCHANGED row
    BY <1>1 DEF AcceptReads, Begin, Call, CallInv
  <2>2. QED
    BY <2>1, ReadKeeps
<1>2. CASE AcceptWrites(c)
  <2> DEFINE accepted == Call("accepted", c, "accepted")
  <2>1. accepted \in calls /\ calls' \subseteq calls /\ UNCHANGED <<leg, keys>>
    BY <1>2 DEF AcceptWrites, EndOne, RawUpdateStatus, row
  <2>2. leg.courier = c /\ c # Nobody
    BY <2>1, ActorsAssumption DEF OfferInv, CallInv, Call
  <2>3. status \in Taken
    BY <2>2 DEF OfferInv
  <2>4. status' = status \/ (status' = "accepted" /\ status # "cancelled")
    BY <1>2 DEF AcceptWrites, RawUpdateStatus, IsTerminalOrderStatus, row
  <2>5. status # "cancelled" => \A call \in calls' : call.op \notin {"settle", "start"}
    BY <2>1, <2>3 DEF OfferInv, CallInv, Taken, Progress, CarriedStatus
  <2>6. QED
    BY <2>1, <2>4, <2>5, StepKeeps DEF Flow, Taken
<1>3. QED
  BY <1>1, <1>2

(***************************************************************************)
(* A scan moves the order on and leaves its courier.                       *)
(***************************************************************************)
LEMMA ScanKeepsOffer ==
    ASSUME OfferedOnce, TypeOK, OfferInv, NEW c \in Couriers, NEW to \in Scans,
           ScanReads(c, to) \/ ScanWrites(c, to)
    PROVE  OfferInv'
<1> DEFINE scan == Call("scan", c, to)
           req == [Request("courier", to, scan) EXCEPT !.photo = TRUE]
<1>1. CASE ScanReads(c, to)
  <2>1. CallInv(scan) /\ calls' = calls \cup {scan} /\ UNCHANGED row
    BY <1>1 DEF ScanReads, Begin, Call, CallInv
  <2>2. QED
    BY <2>1, ReadKeeps
<1>2. CASE ScanWrites(c, to)
  <2>1. calls' \subseteq calls /\ TransitionOrder(req)
    BY <1>2 DEF ScanWrites, End
  <2>2. req.to \in Progress /\ req.key.op = "scan" /\ req.courier = Nobody /\ ~req.clear
    BY DEF Request, Call, OfferedOnce
  <2> HIDE DEF req
  <2>3. QED
    BY <2>1, <2>2, RequestKeeps
<1>3. QED
  BY <1>1, <1>2

(***************************************************************************)
(* The endpoint moves the order on; a courier's check of ownership stays   *)
(* true.                                                                   *)
(***************************************************************************)
LEMMA EndpointKeepsOffer ==
    ASSUME OfferedOnce, TypeOK, OfferInv, NEW u \in Users, NEW to \in Targets,
           StatusReads(u, to) \/ StatusWrites(u, to)
    PROVE  OfferInv'
<1>1. CASE StatusReads(u, to)
  <2> DEFINE call == Call("status", u, to)
  <2>1. call.op = "status" /\ call.by = u /\ call.to = to /\ calls' = calls \cup {call} /\ UNCHANGED row
    BY <1>1 DEF StatusReads, Begin, Call
  <2>2. u \in Couriers /\ to \in courierOnlyStatuses => leg.courier = u
    BY <1>1, ActorsAssumption DEF StatusReads, MayRequest
  <2>3. CallInv(call)
    BY <2>1, <2>2 DEF CallInv
  <2>4. QED
    BY <2>1, <2>3, ReadKeeps
<1>2. CASE StatusWrites(u, to)
  <2> DEFINE req == Request(RoleOf(u), to, NoKey)
  <2>1. TransitionOrder(req) /\ calls' \subseteq calls
    BY <1>2 DEF StatusWrites, End
  <2>2. req.to \in Progress \cup {"cancelled"} /\ req.courier = Nobody /\ ~req.clear /\ req.key = NoKey
    BY DEF Request, OfferedOnce
  <2> HIDE DEF req
  <2>3. QED
    BY <2>1, <2>2, RequestKeeps
<1>3. QED
  BY <1>1, <1>2

(***************************************************************************)
(* The invariant of an order that is offered once.                         *)
(***************************************************************************)
LEMMA NextKeepsOffer ==
    ASSUME OfferedOnce, TypeOK, DeliveredOnce, MatchInv, OfferInv, [Next]_vars PROVE OfferInv'
<1>1. CASE UNCHANGED vars
  BY <1>1, StepKeeps DEF vars
<1>2. ASSUME NEW c \in Couriers, Courier(c) PROVE OfferInv'
  BY <1>2, AcceptKeepsOffer, AssignKeepsOffer, ScanKeepsOffer DEF Courier
<1>3. CASE Endpoint
  BY <1>3, EndpointKeepsOffer DEF Endpoint
<1>4. CASE Crash
  BY <1>4, StepKeeps DEF Crash, End, row
<1>5. QED
  BY <1>1, <1>2, <1>3, <1>4, PaymentKeepsOffer, MatchingKeepsOffer, BackgroundKeepsOffer DEF Next

(***************************************************************************)
(* The invariant holds throughout: whoever is in the middle of accepting   *)
(* the order or of moving it on is the courier on its leg, and a payment   *)
(* or a search that was begun still finds the order where it read it.      *)
(***************************************************************************)
THEOREM OfferedOnceSafe == ASSUME OfferedOnce PROVE Spec => [](MatchInv /\ OfferInv)
<1>1. OnePayment
  BY DEF OfferedOnce, OnePayment, Progress, CarriedStatus
<1>2. Init => MatchInv /\ OfferInv
  BY DEF Init, MatchInv, OneMatcher, OfferInv, Flow
<1>3. TypeOK /\ DeliveredOnce /\ MatchInv /\ OfferInv /\ [Next]_vars => (MatchInv /\ OfferInv)'
  <2> SUFFICES ASSUME TypeOK, DeliveredOnce, MatchInv, OfferInv, [Next]_vars
               PROVE  MatchInv' /\ OfferInv'
    OBVIOUS
  <2>1. OfferInv'
    BY NextKeepsOffer
  <2>2. CASE UNCHANGED vars
    BY <2>1, <2>2, OthersKeepMatch DEF vars
  <2>3. QED
    BY <1>1, <2>1, <2>2, NextKeepsMatch
<1>4. QED
  BY <1>2, <1>3, TypeCorrect, DeliveryIsCoupled, PTL DEF Spec

(***************************************************************************)
(* An answer names the operation that gives it.                            *)
(***************************************************************************)
Told == {"accepted", "scan", "status"}

LEMMA AnswerNamesOp ==
    ASSUME NEW op, NEW by, NEW to, NEW ok, answer' = Answer(Call(op, by, to), ok)
    PROVE  answer'.op = op
BY DEF Answer, Call

(***************************************************************************)
(* Silence names no operation.                                             *)
(***************************************************************************)
LEMMA SilentNamesNone == ASSUME answer' = Silent PROVE answer'.op = "none"
BY DEF Silent

(***************************************************************************)
(* The webhook and the payment timeout answer no acceptance, scan or       *)
(* status request.                                                         *)
(***************************************************************************)
LEMMA PaymentTellsNobody == ASSUME Payment PROVE answer'.op \notin Told
<1>1. CASE ExpiryReads
  BY <1>1, SilentNamesNone DEF ExpiryReads, Told
<1>2. CASE ExpiryCancels
  <2>1. PICK ok : answer' = Answer(Call("timeout", Nobody, "cancelled"), ok)
    BY <1>2 DEF ExpiryCancels
  <2>2. QED
    BY <2>1, AnswerNamesOp DEF Told
<1>3. ASSUME NEW d \in Deliveries, WebhookReads(d) PROVE answer'.op \notin Told
  BY <1>3, SilentNamesNone DEF WebhookReads, Told
<1>4. ASSUME NEW d \in Deliveries, WebhookWrites(d) PROVE answer'.op \notin Told
  <2>1. answer' = Answer(Call("settle", d, "pending_assignment"), TRUE)
    BY <1>4 DEF WebhookWrites
  <2>2. QED
    BY <2>1, AnswerNamesOp DEF Told
<1>5. QED
  BY <1>1, <1>2, <1>3, <1>4 DEF Payment

(***************************************************************************)
(* Nor does the search.                                                    *)
(***************************************************************************)
LEMMA MatchingTellsNobody == ASSUME Matching PROVE answer'.op \notin Told
<1>1. ASSUME NEW s \in Starters,
             ReplicaLags(s) \/ StartReads(s) \/ MatcherSeesTaken(s) \/ MatcherExhausted(s)
      PROVE  answer'.op \notin Told
  <2>1. answer' = Silent
    BY <1>1 DEF ReplicaLags, StartReads, MatcherSeesTaken, MatcherExhausted
  <2>2. QED
    BY <2>1, SilentNamesNone DEF Told
<1>2. ASSUME NEW s \in Starters, StartLaunches(s) PROVE answer'.op \notin Told
  <2>1. answer' = Answer(Call("start", s, "searching"), TRUE)
    BY <1>2 DEF StartLaunches
  <2>2. QED
    BY <2>1, AnswerNamesOp DEF Told
<1>3. ASSUME NEW s \in Starters, MatcherGivesUp(s) PROVE answer'.op \notin Told
  <2>1. answer' = Answer(Call("giveUp", s, "no_courier_found"), TRUE)
    BY <1>3 DEF MatcherGivesUp
  <2>2. QED
    BY <2>1, AnswerNamesOp DEF Told
<1>4. ASSUME NEW u \in Customers \cup Admins, RetryMatching(u) PROVE answer'.op \notin Told
  <2>1. PICK ok : answer' = Answer(Call("retry", u, "searching"), ok)
    BY <1>4 DEF RetryMatching
  <2>2. QED
    BY <2>1, AnswerNamesOp DEF Told
<1>5. CASE LockExpires
  BY <1>5, SilentNamesNone DEF LockExpires, Told
<1>6. QED
  BY <1>1, <1>2, <1>3, <1>4, <1>5 DEF Matching

(***************************************************************************)
(* Nor do the workers.                                                     *)
(***************************************************************************)
LEMMA BackgroundTellsNobody == ASSUME Background PROVE answer'.op \notin Told
<1>1. CASE GhostReads \/ MonitorReads
  <2>1. answer' = Silent
    BY <1>1 DEF GhostReads, MonitorReads
  <2>2. QED
    BY <2>1, SilentNamesNone DEF Told
<1>2. ASSUME NEW c \in Couriers, GhostReleases(c) PROVE answer'.op \notin Told
  <2>1. PICK ok : answer' = Answer(Call("ghost", c, "searching"), ok)
    BY <1>2 DEF GhostReleases
  <2>2. QED
    BY <2>1, AnswerNamesOp DEF Told
<1>3. CASE MonitorExpires
  <2>1. PICK ok : answer' = Answer(Call("expire", Nobody, "no_courier_found"), ok)
    BY <1>3 DEF MonitorExpires
  <2>2. QED
    BY <2>1, AnswerNamesOp DEF Told
<1>4. QED
  BY <1>1, <1>2, <1>3 DEF Background

(***************************************************************************)
(* Nor does an acceptance or a scan before its last step.                  *)
(***************************************************************************)
LEMMA ReadsTellNobody ==
    ASSUME NEW c \in Couriers, AcceptReads(c) \/ AssignCourier(c) \/ \E to \in Scans : ScanReads(c, to)
    PROVE  answer'.op \notin Told
<1>1. CASE AcceptReads(c) \/ \E to \in Scans : ScanReads(c, to)
  <2>1. answer' = Silent
    BY <1>1 DEF AcceptReads, ScanReads
  <2>2. QED
    BY <2>1, SilentNamesNone DEF Told
<1>2. CASE AssignCourier(c)
  <2>1. answer' = Silent \/ answer' = Answer(Call("accept", c, "assigned"), FALSE)
    BY <1>2 DEF AssignCourier
  <2>2. QED
    BY <2>1, SilentNamesNone, AnswerNamesOp DEF Told
<1>3. QED
  BY <1>1, <1>2

(***************************************************************************)
(* So whoever is told of an acceptance, a scan or a status request is      *)
(* told by the step that ends it.                                          *)
(***************************************************************************)
LEMMA WhoTells ==
    ASSUME Next, answer'.op \in Told
    PROVE  \/ answer'.op = "accepted" /\ \E c \in Couriers : AcceptWrites(c)
           \/ answer'.op = "scan" /\ \E c \in Couriers, to \in Scans : ScanWrites(c, to)
           \/ answer'.op = "status" /\ \E u \in Users, to \in Targets : StatusWrites(u, to)
<1>1. ASSUME NEW c \in Couriers, AcceptWrites(c) PROVE answer'.op = "accepted"
  <2>1. answer' = Answer(Call("accepted", c, "accepted"), TRUE)
    BY <1>1 DEF AcceptWrites
  <2>2. QED
    BY <2>1, AnswerNamesOp
<1>2. ASSUME NEW c \in Couriers, NEW to \in Scans, ScanWrites(c, to) PROVE answer'.op = "scan"
  <2>1. PICK ok : answer' = Answer(Call("scan", c, to), ok)
    BY <1>2 DEF ScanWrites
  <2>2. QED
    BY <2>1, AnswerNamesOp
<1>3. ASSUME NEW u \in Users, NEW to \in Targets, StatusWrites(u, to) PROVE answer'.op = "status"
  <2>1. PICK ok : answer' = Answer(Call("status", u, to), ok)
    BY <1>3 DEF StatusWrites
  <2>2. QED
    BY <2>1, AnswerNamesOp
<1>4. ASSUME NEW u \in Users, NEW to \in Targets, StatusReads(u, to) PROVE FALSE
  BY <1>4, SilentNamesNone DEF StatusReads, Told
<1>5. CASE Crash
  BY <1>5, SilentNamesNone DEF Crash, Told
<1>6. QED
  BY <1>1, <1>2, <1>3, <1>4, <1>5, PaymentTellsNobody, MatchingTellsNobody, BackgroundTellsNobody,
     ReadsTellNobody DEF Next, Courier, Endpoint

(***************************************************************************)
(* The courier who is told that the order is theirs is the one on its leg, *)
(* however many couriers accept at once.                                   *)
(***************************************************************************)
THEOREM WinnerIsOnLeg == ASSUME OfferedOnce PROVE Spec => []SoleWinner
<1>1. Init => SoleWinner
  BY DEF Init, SoleWinner, Silent
<1>2. TypeOK /\ OfferInv /\ SoleWinner /\ [Next]_vars => SoleWinner'
  <2> SUFFICES ASSUME TypeOK, OfferInv, SoleWinner, [Next]_vars, answer'.op = "accepted"
               PROVE  leg'.courier = answer'.by \/ ~answer'.ok
    BY DEF SoleWinner
  <2>1. CASE UNCHANGED vars
    BY <2>1 DEF vars, SoleWinner
  <2>2. ASSUME NEW c \in Couriers, AcceptWrites(c) PROVE leg'.courier = answer'.by
    <3> DEFINE accepted == Call("accepted", c, "accepted")
    <3>1. accepted \in calls /\ leg' = leg /\ answer' = Answer(accepted, TRUE)
      BY <2>2 DEF AcceptWrites, EndOne, RawUpdateStatus, row
    <3>2. accepted.op = "accepted" /\ accepted.by = c
      BY DEF Call
    <3>3. leg.courier = c
      BY <3>1, <3>2 DEF OfferInv, CallInv
    <3>4. QED
      BY <3>1, <3>2, <3>3 DEF Answer
  <2>3. QED
    BY <2>1, <2>2, WhoTells DEF Told
<1>3. QED
  BY <1>1, <1>2, OfferedOnceSafe, TypeCorrect, PTL DEF Spec

(***************************************************************************)
(* A courier moves an order through the delivery statuses only while it is *)
(* that courier's order, although the endpoint checks that without a lock. *)
(***************************************************************************)
THEOREM OwnerProgresses == ASSUME OfferedOnce PROVE Spec => ProgressByOwner
<1> DEFINE Step == answer'.op = "status" /\ answer'.by \in Couriers /\ answer'.to \in courierOnlyStatuses
                      /\ status' # status
                   => leg.courier = answer'.by
<1>1. ASSUME TypeOK, OfferInv, Next, answer'.op = "status", answer'.by \in Couriers,
             answer'.to \in courierOnlyStatuses
      PROVE  leg.courier = answer'.by
  <2>1. PICK u \in Users, to \in Targets : StatusWrites(u, to)
    BY <1>1, WhoTells DEF Told
  <2> DEFINE call == Call("status", u, to)
  <2>2. call \in calls /\ call.op = "status" /\ call.by = u /\ call.to = to
    BY <2>1 DEF StatusWrites, End, Call
  <2>3. answer'.by = u /\ answer'.to = to
    BY <2>1 DEF StatusWrites, Answer, Call
  <2>4. QED
    BY <1>1, <2>2, <2>3 DEF OfferInv, CallInv
<1>2. TypeOK /\ OfferInv /\ [Next]_vars => [Step]_vars
  BY <1>1
<1>3. QED
  BY <1>2, OfferedOnceSafe, TypeCorrect, PTL DEF Spec, ProgressByOwner

=============================================================================
