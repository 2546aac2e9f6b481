--------------------------- MODULE OrderDispatch ---------------------------
(***************************************************************************)
(* One on-demand parcel order from payment to its end, as order-service    *)
(* runs it: the order's row and leg, the transition boundary               *)
(* (TransitionOrder) that locks, validates and audits, the raw UpdateStatus *)
(* that does neither, and everything that calls them concurrently.         *)
(*                                                                         *)
(* Every operation of the service reads the row without a lock, decides,   *)
(* and writes later.  The operations in flight are the set `calls': the    *)
(* read step of an operation adds a call with what it decided, its write   *)
(* step takes the call out.  Any number of steps of others come between,   *)
(* so such a read may as well be one from a replica that lags.  Only the   *)
(* read that StartMatching makes under its lock is told apart.             *)
(***************************************************************************)
EXTENDS OrderStateMachine, Integers, FiniteSets

CONSTANTS
    Couriers,    \* couriers who may call AcceptOrder, ScanPackage, UpdateStatus
    Customers,   \* the order's customer, or nobody
    Admins,      \* admins who use the generic status endpoint
    Deliveries,  \* deliveries of the paid webhook that may be in progress at once
    Starters,    \* callers of StartMatching that may be in progress at once
    Workers,     \* the background workers that run: {"ghost", "monitor", "expiry"}
    Targets,     \* statuses the generic endpoint is asked for
    Scans,       \* statuses that ScanPackage is asked for
    ReadReplica, \* GetByID reads a replica that may lag (READ_DATABASE_URL)
    MaxCrashes,  \* bound: how many operations a crash of an instance cuts off
    Nobody       \* no courier, no caller

ASSUME ActorsAssumption ==
    /\ Nobody \notin Couriers \cup Customers \cup Admins \cup Deliveries \cup Starters
    /\ Couriers \cap (Customers \cup Admins) = {}
    /\ Customers \cap Admins = {}

ASSUME BoundsAssumption ==
    /\ Workers \subseteq {"ghost", "monitor", "expiry"}
    /\ Targets \subseteq OrderStatus
    /\ Scans \subseteq OrderStatus
    /\ ReadReplica \in BOOLEAN
    /\ MaxCrashes \in Nat

VARIABLES
    status,    \* orders.status
    leg,       \* order_legs of leg 1: its courier, and whether its status is final
    keys,      \* idempotency keys of order_events
    proof,     \* a package_scans row of type delivered exists
    journals,  \* number of LEDGER-DELIVERED journals of the order
    lock,      \* holder of the Redis lock lock:relay:match, or Nobody
    calls,     \* operations between their read and their write
    answer,    \* what the last step answered its caller
    crashes

row == <<status, leg, keys, proof, journals>>
vars == <<status, leg, keys, proof, journals, lock, calls, answer, crashes>>

Users == Couriers \cup Customers \cup Admins
Op == { "settle", "snapshot", "start", "match", "giveUp", "accept", "accepted", "status", "scan",
        "ghost", "expire", "timeout", "retry" }
Caller == Users \cup Deliveries \cup Starters \cup {Nobody}
Call(op, by, to) == [op |-> op, by |-> by, to |-> to]
Calls == [op : Op, by : Caller, to : OrderStatus]

(* The answer of an operation: ok is the HTTP 200 or the nil error. *)
Answer(call, ok) == [op |-> call.op, by |-> call.by, to |-> call.to, ok |-> ok]
Silent == [op |-> "none", by |-> Nobody, to |-> "pending", ok |-> TRUE]

category == "package_on_demand"

courierOnlyStatuses ==
    { "picking_up", "picked_up", "inbound_origin", "outbound_origin", "inbound_destination",
      "outbound_destination", "delivering", "delivered" }

cancellableStatuses ==
    { "pending", "pending_payment", "pending_assignment", "searching", "no_courier_found",
      "scheduled", "failed_delivery", "return_to_sender", "pending_merchant" }

-----------------------------------------------------------------------------
(***************************************************************************)
(* The two write paths to the order's row.                                 *)
(***************************************************************************)

(* Fault: no final guard. *)
RawUpdateStatusUnguarded(to) == status' = to /\ UNCHANGED <<leg, keys, proof, journals>>

(* postgresRepo.UpdateStatus: no lock, no validation, no event. *)
RawUpdateStatus(to) ==
    /\ status' = IF IsTerminalOrderStatus(status) THEN status ELSE to
    /\ UNCHANGED <<leg, keys, proof, journals>>

(***************************************************************************)
(* A transition request.  An idempotency key is the call it stands for;    *)
(* NoKey asks for the default key, which holds the row's version and so    *)
(* never meets an earlier one.                                             *)
(***************************************************************************)
NoKey == Call("status", Nobody, "pending")
Request(actor, to, key) ==
    [actor |-> actor, to |-> to, key |-> key, courier |-> Nobody, clear |-> FALSE, photo |-> FALSE]

(* Faults: the caller's own check is trusted; no test for a repeated status. *)
OutcomeUnvalidated(req) ==
    IF req.key \in keys THEN "replayed" ELSE IF status = req.to THEN "unchanged" ELSE "applied"

OutcomeRepeats(req) ==
    IF req.key \in keys THEN "replayed"
    ELSE IF ValidateOrderTransition(status, req.to, req.actor, category) THEN "applied"
    ELSE "refused"

(* An event with the request's idempotency key is on record. *)
FindTransitionReplay(req) == req.key \in keys

(* A delivery brings its photo, or finds one on record. *)
ValidateDeliveredProof(req) == req.to = "delivered" => (req.photo \/ proof)

Outcome(req) ==
    IF FindTransitionReplay(req) THEN "replayed"
    ELSE IF status = req.to THEN "unchanged"
    ELSE IF ValidateOrderTransition(status, req.to, req.actor, category) /\ ValidateDeliveredProof(req)
         THEN "applied"
         ELSE "refused"

(* Fault: only a delivery closes the leg. *)
LegFinalOnDelivery(to) == leg.final \/ to = "delivered"

(* The leg's status counts as final once the order's does. *)
LegFinal(to) == leg.final \/ IsTerminalOrderStatus(to)

(* The courier of a leg that is not final is set, or cleared, on request. *)
LegCourier(req) ==
    IF leg.final THEN leg.courier
    ELSE IF req.courier # Nobody THEN req.courier
    ELSE IF req.clear THEN Nobody
    ELSE leg.courier

(* What is on record of the scan that proves the delivery. *)
TransitionProof(req) == proof \/ (req.to = "delivered" /\ req.photo)

(* A delivery writes its journal unless the journal's key is taken. *)
DeliveryLedger(req) == IF req.to = "delivered" /\ journals = 0 THEN 1 ELSE journals

ApplyTransition(req) ==
    /\ status' = req.to
    /\ leg' = [courier |-> LegCourier(req), final |-> LegFinal(req.to)]
    /\ keys' = keys \cup ({req.key} \ {NoKey})
    /\ proof' = TransitionProof(req)
    /\ journals' = DeliveryLedger(req)

(* The whole transaction, on the locked row. *)
TransitionOrder(req) ==
    IF Outcome(req) = "applied" THEN ApplyTransition(req) ELSE UNCHANGED row

-----------------------------------------------------------------------------
Begin(call) == call \notin calls /\ calls' = calls \cup {call}
End(call) == call \in calls /\ calls' = calls \ {call}
Continue(call, next) == call \in calls /\ calls' = (calls \ {call}) \cup {next}

(* The same, of a request that was sent more than once: others like it may *)
(* be as far as this one.                                                  *)
EndOne(call) == call \in calls /\ calls' \in {calls, calls \ {call}}
ContinueOne(call, next) ==
    call \in calls /\ calls' \in {calls \cup {next}, (calls \ {call}) \cup {next}}

Init ==
    /\ status \in {"pending_payment", "pending_assignment"}
    /\ leg = [courier |-> Nobody, final |-> FALSE]
    /\ keys = {}
    /\ proof = FALSE
    /\ journals = 0
    /\ lock = Nobody
    /\ calls = {}
    /\ answer = Silent
    /\ crashes = 0

(***************************************************************************)
(* The paid webhook: reads the order, and only if it still awaits payment  *)
(* moves it to pending_assignment.                                         *)
(***************************************************************************)
WebhookReads(d) ==
    /\ status = "pending_payment"
    /\ Begin(Call("settle", d, "pending_assignment"))
    /\ answer' = Silent
    /\ UNCHANGED <<row, lock, crashes>>

WebhookWrites(d) ==
    LET call == Call("settle", d, "pending_assignment") IN
    /\ End(call)
    /\ RawUpdateStatus("pending_assignment")
    /\ answer' = Answer(call, TRUE)
    /\ UNCHANGED <<lock, crashes>>

(* CancelExpiredOrders: the payment timed out. *)
ExpiryReads ==
    /\ "expiry" \in Workers
    /\ status = "pending_payment"
    /\ Begin(Call("timeout", Nobody, "cancelled"))
    /\ answer' = Silent
    /\ UNCHANGED <<row, lock, crashes>>

ExpiryCancels ==
    LET call == Call("timeout", Nobody, "cancelled")
        req == Request("platform", "cancelled", call)
    IN  /\ End(call)
        /\ TransitionOrder(req)
        /\ answer' = Answer(call, Outcome(req) \in {"applied", "replayed"})
        /\ UNCHANGED <<lock, crashes>>

(* The replica will go on to show s the order as it is now. *)
ReplicaLags(s) ==
    /\ ReadReplica
    /\ status \in {"pending_assignment", "pending"}
    /\ Begin(Call("snapshot", s, "searching"))
    /\ answer' = Silent
    /\ UNCHANGED <<row, lock, crashes>>

(* GetByID shows s an order that still waits for its search. *)
SeesWaiting(s) ==
    LET start == Call("start", s, "searching") IN
    \/ status \in {"pending_assignment", "pending"} /\ Begin(start)
    \/ Continue(Call("snapshot", s, "searching"), start)

(* Fault: the order is read without the lock. *)
StartReadsUnlocked(s) ==
    /\ SeesWaiting(s)
    /\ lock' = s
    /\ answer' = Silent
    /\ UNCHANGED <<row, crashes>>

(***************************************************************************)
(* StartMatching takes the lock and then reads the order; in any other     *)
(* status it answers and releases the lock without a change.               *)
(***************************************************************************)
StartReads(s) ==
    /\ lock = Nobody
    /\ SeesWaiting(s)
    /\ lock' = s
    /\ answer' = Silent
    /\ UNCHANGED <<row, crashes>>

(* It writes searching, launches the matcher and releases the lock. *)
StartLaunches(s) ==
    LET call == Call("start", s, "searching") IN
    /\ Continue(call, Call("match", s, "searching"))
    /\ RawUpdateStatus("searching")
    /\ lock' = Nobody
    /\ answer' = Answer(call, TRUE)
    /\ UNCHANGED crashes

(* Fault: a lock without a time to live. *)
LockNeverExpires == FALSE /\ UNCHANGED vars

(* The lock's two minutes outlast its holder's call, unless that crashed. *)
LockExpires ==
    /\ lock # Nobody
    /\ Call("start", lock, "searching") \notin calls
    /\ lock' = Nobody
    /\ answer' = Silent
    /\ UNCHANGED <<row, calls, crashes>>

(***************************************************************************)
(* RetryMatching lets no_courier_found and searching through, then calls   *)
(* StartMatching, which refuses the first and does nothing for the second, *)
(* or for either while the lock is taken.                                  *)
(***************************************************************************)
RetryMatching(u) ==
    /\ u \in Customers \cup Admins
    /\ status \in {"no_courier_found", "searching"}
    /\ answer' = Answer(Call("retry", u, "searching"), lock # Nobody \/ status = "searching")
    /\ UNCHANGED <<row, lock, calls, crashes>>

(***************************************************************************)
(* FindAndAssignCourier, the matcher: offers, and polls the status.  A     *)
(* replica may show it a status of before the search, which ends it too.   *)
(***************************************************************************)
MatcherSeesTaken(s) ==
    /\ End(Call("match", s, "searching"))
    /\ status # "searching" \/ ReadReplica
    /\ answer' = Silent
    /\ UNCHANGED <<row, lock, crashes>>

(* Its last poll found the order unclaimed, and no radius is left. *)
MatcherExhausted(s) ==
    /\ status = "searching"
    /\ Continue(Call("match", s, "searching"), Call("giveUp", s, "no_courier_found"))
    /\ answer' = Silent
    /\ UNCHANGED <<row, lock, crashes>>

MatcherGivesUp(s) ==
    LET call == Call("giveUp", s, "no_courier_found") IN
    /\ End(call)
    /\ RawUpdateStatus("no_courier_found")
    /\ answer' = Answer(call, TRUE)
    /\ UNCHANGED <<lock, crashes>>

(***************************************************************************)
(* AcceptOrder: a status check on an unlocked read, AssignCourier through  *)
(* the boundary, then a raw write of accepted.  A courier may send it more *)
(* than once: every one of those requests goes all the way.                *)
(***************************************************************************)
AcceptReads(c) ==
    /\ status \in {"searching", "failed_delivery"}
    /\ Begin(Call("accept", c, "assigned"))
    /\ answer' = Silent
    /\ UNCHANGED <<row, lock, crashes>>

AssignRequest(c) ==
    [Request("platform", "assigned", Call("accept", c, "assigned")) EXCEPT !.courier = c]

(* A replayed assignment counts as made; any other refusal ends the call. *)
AssignCourier(c) ==
    LET call == Call("accept", c, "assigned") IN
    /\ call \in calls
    /\ TransitionOrder(AssignRequest(c))
    /\ IF Outcome(AssignRequest(c)) \in {"applied", "replayed"}
       THEN ContinueOne(call, Call("accepted", c, "accepted")) /\ answer' = Silent
       ELSE EndOne(call) /\ answer' = Answer(call, FALSE)
    /\ UNCHANGED <<lock, crashes>>

(* The courier is told of success even when this write fails. *)
AcceptWrites(c) ==
    LET call == Call("accepted", c, "accepted") IN
    /\ EndOne(call)
    /\ RawUpdateStatus("accepted") \/ UNCHANGED row
    /\ answer' = Answer(call, TRUE)
    /\ UNCHANGED <<lock, crashes>>

(***************************************************************************)
(* GhostDetectionWorker, one instance of it: an accepted order that makes  *)
(* no progress is released.  (The courier's penalty is not modelled.)      *)
(***************************************************************************)
GhostReads ==
    /\ "ghost" \in Workers
    /\ status = "accepted"
    /\ leg.courier # Nobody
    /\ \A call \in calls : call.op # "ghost"
    /\ Begin(Call("ghost", leg.courier, "searching"))
    /\ answer' = Silent
    /\ UNCHANGED <<row, lock, crashes>>

ReleaseRequest ==
    [Request("platform", "searching", Call("ghost", Nobody, "searching")) EXCEPT !.clear = TRUE]

(* ReleaseGhostedOrder: a replay is reported as a release. *)
GhostReleases(c) ==
    LET call == Call("ghost", c, "searching") IN
    /\ End(call)
    /\ TransitionOrder(ReleaseRequest)
    /\ answer' = Answer(call, Outcome(ReleaseRequest) \in {"applied", "replayed"})
    /\ UNCHANGED <<lock, crashes>>

(* Fault: the monitor selects by the search's name of before the lifecycle. *)
MonitorReadsLegacyName ==
    /\ status = "dispatching"
    /\ Begin(Call("expire", Nobody, "no_courier_found"))
    /\ answer' = Silent
    /\ UNCHANGED <<row, lock, crashes>>

(* OrderMonitorWorker: the search outlived its configured window. *)
MonitorReads ==
    /\ "monitor" \in Workers
    /\ status = "searching"
    /\ Begin(Call("expire", Nobody, "no_courier_found"))
    /\ answer' = Silent
    /\ UNCHANGED <<row, lock, crashes>>

MonitorExpires ==
    LET call == Call("expire", Nobody, "no_courier_found")
        req == Request("platform", "no_courier_found", NoKey)
    IN  /\ End(call)
        /\ TransitionOrder(req)
        /\ answer' = Answer(call, Outcome(req) # "refused")
        /\ UNCHANGED <<lock, crashes>>

(***************************************************************************)
(* The generic endpoint POST /orders/status: role, ownership, eligibility  *)
(* and lifecycle are checked on an unlocked read; the boundary repeats     *)
(* only the lifecycle check.                                               *)
(***************************************************************************)
RoleOf(u) ==
    IF u \in Couriers THEN "courier" ELSE IF u \in Admins THEN "admin" ELSE "customer"

(* Fault: a courier may move any order. *)
MayRequestUnowned(u, to) ==
    /\ to \in courierOnlyStatuses => u \in Admins \cup Couriers
    /\ to = "cancelled" =>
          /\ u \in Couriers => leg.courier = u
          /\ status \in cancellableStatuses
    /\ ValidateOrderTransition(status, to, RoleOf(u), category)

MayRequest(u, to) ==
    /\ to \in courierOnlyStatuses =>
          \/ u \in Admins
          \/ u \in Couriers /\ leg.courier = u
    /\ to = "cancelled" =>
          /\ u \in Couriers => leg.courier = u
          /\ status \in cancellableStatuses
    /\ ValidateOrderTransition(status, to, RoleOf(u), category)

StatusReads(u, to) ==
    /\ MayRequest(u, to)
    /\ \A call \in calls : ~(call.op = "status" /\ call.by = u)
    /\ Begin(Call("status", u, to))
    /\ answer' = Silent
    /\ UNCHANGED <<row, lock, crashes>>

StatusWrites(u, to) ==
    LET call == Call("status", u, to)
        req == Request(RoleOf(u), to, NoKey)
    IN  /\ End(call)
        /\ TransitionOrder(req)
        /\ answer' = Answer(call, Outcome(req) # "refused")
        /\ UNCHANGED <<lock, crashes>>

(***************************************************************************)
(* ScanPackage: a scan drives the order to the status it stands for.       *)
(***************************************************************************)
ScannedFrom(to) ==
    CASE to = "picked_up" -> {"pickup_arrived"}
      [] to = "inbound_origin" -> {"picked_up"}
      [] to = "outbound_origin" -> {"inbound_origin"}
      [] to = "inbound_destination" -> {"outbound_origin"}
      [] to = "outbound_destination" -> {"inbound_destination"}
      [] to = "delivering" -> {"outbound_destination"}
      [] to = "delivered" -> {"delivering", "failed_delivery"}
      [] to = "failed_delivery" -> {"delivering", "outbound_destination"}
      [] to = "return_to_sender" -> {"failed_delivery"}
      [] OTHER -> {}

ScanReads(c, to) ==
    /\ status \in ScannedFrom(to)
    /\ \A call \in calls : ~(call.op = "scan" /\ call.by = c)
    /\ Begin(Call("scan", c, to))
    /\ answer' = Silent
    /\ UNCHANGED <<row, lock, crashes>>

(* Without a client key the key is the order, the scan and the courier. *)
ScanWrites(c, to) ==
    LET call == Call("scan", c, to)
        req == [Request("courier", to, call) EXCEPT !.photo = TRUE]
    IN  /\ End(call)
        /\ TransitionOrder(req)
        /\ answer' = Answer(call, Outcome(req) # "refused")
        /\ UNCHANGED <<lock, crashes>>

(***************************************************************************)
(* A crash of the instance that runs an operation: what it wrote stays.    *)
(***************************************************************************)
Crash ==
    /\ crashes < MaxCrashes
    /\ \E call \in calls : End(call)
    /\ crashes' = crashes + 1
    /\ answer' = Silent
    /\ UNCHANGED <<row, lock>>

Payment == ExpiryReads \/ ExpiryCancels \/ \E d \in Deliveries : WebhookReads(d) \/ WebhookWrites(d)

Matching ==
    \/ \E s \in Starters : \/ ReplicaLags(s)
                           \/ StartReads(s)
                           \/ StartLaunches(s)
                           \/ MatcherSeesTaken(s)
                           \/ MatcherExhausted(s)
                           \/ MatcherGivesUp(s)
    \/ \E u \in Customers \cup Admins : RetryMatching(u)
    \/ LockExpires

Background == GhostReads \/ (\E c \in Couriers : GhostReleases(c)) \/ MonitorReads \/ MonitorExpires

Courier(c) ==
    \/ AcceptReads(c) \/ AssignCourier(c) \/ AcceptWrites(c)
    \/ \E to \in Scans : ScanReads(c, to) \/ ScanWrites(c, to)

Endpoint == \E u \in Users, to \in Targets : StatusReads(u, to) \/ StatusWrites(u, to)

Next ==
    \/ Payment
    \/ Matching
    \/ Background
    \/ \E c \in Couriers : Courier(c)
    \/ Endpoint
    \/ Crash

Spec == Init /\ [][Next]_vars

(***************************************************************************)
(* The monitor ticks every minute while the service runs, a Redis key      *)
(* expires, and a StartMatching that was begun goes on unless it crashes.  *)
(* Nothing else is fair: no courier, customer or provider must act.        *)
(***************************************************************************)
Fairness ==
    /\ WF_vars(MonitorReads)
    /\ WF_vars(MonitorExpires)
    /\ WF_vars(LockExpires)
    /\ \A s \in Starters : WF_vars(StartLaunches(s))

FairSpec == Spec /\ Fairness

-----------------------------------------------------------------------------
(***************************************************************************)
(* Properties.                                                             *)
(***************************************************************************)

(* Every variable holds what its column, key or request can hold. *)
TypeOK ==
    /\ status \in OrderStatus
    /\ leg \in [courier : Couriers \cup {Nobody}, final : BOOLEAN]
    /\ keys \subseteq Calls
    /\ proof \in BOOLEAN
    /\ journals \in Nat
    /\ lock \in Starters \cup {Nobody}
    /\ calls \subseteq Calls
    /\ answer \in [op : Op \cup {"none"}, by : Caller, to : OrderStatus, ok : BOOLEAN]
    /\ crashes \in 0 .. MaxCrashes

(***************************************************************************)
(* A delivered or cancelled order is final: no late matcher, accept,       *)
(* webhook, worker or scan that read it earlier changes its row, its leg,  *)
(* its audit or its ledger (the NOT IN guard of UpdateStatus, and the      *)
(* terminal check of ValidateOrderTransition under the row lock).          *)
(***************************************************************************)
TerminalStays == [][IsTerminalOrderStatus(status) => UNCHANGED row]_vars

(***************************************************************************)
(* TransitionOrder couples the delivery to its effects: an order is        *)
(* delivered exactly when its photo proof exists and its revenue journal   *)
(* was written, once; and its leg stops counting as an active job of the   *)
(* courier exactly when the order is final.                                *)
(***************************************************************************)
DeliveredOnce ==
    /\ journals = IF status = "delivered" THEN 1 ELSE 0
    /\ proof <=> status = "delivered"
    /\ leg.final <=> IsTerminalOrderStatus(status)

(***************************************************************************)
(* While a courier carries the goods, nothing takes the order from that    *)
(* courier and nothing cancels it: not an assignment, ghost release or     *)
(* cancellation whose check passed before the pickup.                      *)
(***************************************************************************)
CustodyKept ==
    [][ (status \in CarriedStatus) =>
          /\ leg'.courier = leg.courier
          /\ status' # "cancelled" ]_vars

(***************************************************************************)
(* From its assignment to the pickup an order passes from one courier to   *)
(* another only through a release: an accept that was checked before       *)
(* another courier's assignment never overwrites that courier.             *)
(***************************************************************************)
NoTakeover ==
    [][ (status \in {"assigned", "accepted", "pickup_arrived", "picking_up"}) =>
          leg'.courier \in {leg.courier, Nobody} ]_vars

(***************************************************************************)
(* The match lock and StartMatching's status check under it let at most    *)
(* one matching goroutine run for an order, whichever callers start it,    *)
(* crash holding the lock, or wait for it to expire.  That rests on the    *)
(* check reading the primary: behind a replica that lags it fails.         *)
(***************************************************************************)
IsMatcher(call) == call.op \in {"match", "giveUp"}
OneMatcher == \A a, b \in calls : IsMatcher(a) /\ IsMatcher(b) => a = b

(***************************************************************************)
(* AcceptOrder: the courier who is told that the order is theirs is the    *)
(* one on its leg.  AssignCourier "makes the first accept the sole winner  *)
(* when multiple courier requests arrive concurrently".                    *)
(***************************************************************************)
SoleWinner == answer.op = "accepted" /\ answer.ok => leg.courier = answer.by

(***************************************************************************)
(* A search ends, even when its matcher dies: the order is accepted, is    *)
(* cancelled, or becomes no_courier_found through OrderMonitorWorker.      *)
(***************************************************************************)
SearchEnds == status = "searching" ~> status # "searching"

(***************************************************************************)
(* The match lock of a crashed StartMatching does not stay: a later        *)
(* StartMatching can take it.                                              *)
(***************************************************************************)
LockFreed == lock # Nobody ~> lock = Nobody

(***************************************************************************)
(* POST /orders/status: a courier moves an order through the delivery      *)
(* statuses only while it is that courier's order.  The ownership check is *)
(* not repeated under the row lock, so this rests on nobody else taking    *)
(* the order in between, and fails once ghost releases do.                 *)
(***************************************************************************)
ProgressByOwner ==
    [][ answer'.op = "status" /\ answer'.by \in Couriers /\ answer'.to \in courierOnlyStatuses
           /\ status' # status
        => leg.courier = answer'.by ]_vars

=============================================================================
