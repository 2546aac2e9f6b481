---------------------------- MODULE CourierOffer ----------------------------
(***************************************************************************)
(* On-demand offers of admin-service: the dispatch queue that offers a     *)
(* waiting order to one courier at a time, the courier's answer, the       *)
(* cancellations that can meet it, duty and account suspension.            *)
(*                                                                         *)
(* A handler that is one database transaction is one action, except        *)
(* acceptMobileCourierOffer, whose locks order it against the others and   *)
(* which takes four steps.  cancelCustomerOrder works through the queue   *)
(* on a connection without BEGIN: there every statement is a step.         *)
(***************************************************************************)
EXTENDS Integers, FiniteSets

CONSTANTS
    Order, Courier,
    Customer,     \* the customer of an order
    MaxActive,    \* max_active_orders_on_demand
    SameCustomer, \* same_customer_batching_required
    WhilePickup,  \* allow_new_offer_while_pickup
    WhileDelivery,\* allow_new_offer_while_delivery
    Call          \* concurrent calls of acceptMobileCourierOffer

ASSUME OfferAssumption ==
    /\ "none" \notin Order \cup Courier /\ IsFiniteSet(Order)
    /\ DOMAIN Customer = Order /\ MaxActive \in Nat
    /\ {SameCustomer, WhilePickup, WhileDelivery} \subseteq BOOLEAN

Row == Order \X Courier      \* unique (order_id, courier_id)

OrderStatus == {"scheduled", "pending", "offered", "accepted", "in_transit",
                "delivered", "cancelled"}
LegStatus == {"none", "pending", "accepted", "in_transit", "delivered", "cancelled"}
\* "lapsed" is a row still marked offered whose expires_at has passed.
OfferStatus == {"none", "offered", "lapsed", "expired", "rejected", "accepted",
                "lost", "cancelled"}
Open   == {"offered", "lapsed"}
Ready  == {"pending", "offered"}          \* ON_DEMAND_DISPATCH_READY_STATUSES
Closed == {"none", "delivered", "cancelled"}

VARIABLES
    order,      \* orders.status
    leg,        \* order_legs.courier_id of leg 1, "none" for no row or NULL
    legStatus,  \* order_legs.status, "none" for no row
    offer,      \* courier_offer_dispatches.status
    online,     \* courier_profiles.is_online
    suspended,  \* the courier's account is suspended
    action,     \* status of the courier's account suspension: "active" from the
                \* start, "stopped" at once, or "finalized" after waiting
    call,       \* acceptMobileCourierOffer in progress
    tail        \* the queue run of cancelCustomerOrder in progress

jobs  == <<order, leg, legStatus>>
staff == <<online, suspended, action>>
vars  == <<jobs, offer, staff, call, tail>>

-----------------------------------------------------------------------------
(* Jobs and eligibility                                                    *)

ActiveJobs(c) == {o \in Order : /\ leg[o] = c
                                /\ order[o] \notin Closed /\ legStatus[o] \notin Closed}

\* Whether courier c, with the jobs it has, may be given order o.
MayTake(c, o) ==
    LET J == ActiveJobs(c) \ {o}
    IN  /\ Cardinality(J) < MaxActive
        /\ (\E x \in J : legStatus[x] = "accepted") => WhilePickup
        /\ (\E x \in J : legStatus[x] = "in_transit") => WhileDelivery
        /\ SameCustomer => \A x \in J : Customer[x] = Customer[o]

\* An enforcement action in force blocks matching.
Matchable(c) == online[c] /\ ~suspended[c] /\ action[c] = "none"

\* A leg update lets a pending suspension begin when the courier has no open
\* leg left.
Finalizes(c) == action[c] = "pending_safe_completion"
                /\ \A o \in Order : leg'[o] = c => legStatus'[o] \in Closed
finalize_pending_courier_enforcement_actions ==
    /\ action' = [c \in Courier |-> IF Finalizes(c) THEN "finalized" ELSE action[c]]
    /\ suspended' = [c \in Courier |-> suspended[c] \/ Finalizes(c)]
    /\ online' = [c \in Courier |-> online[c] /\ ~Finalizes(c)]

-----------------------------------------------------------------------------
(* The queue: operators on a set of offers `of' and order statuses `os'    *)

Candidates(of, os, o) ==
    IF os[o] \in Ready /\ \A c \in Courier : of[<<o, c>>] \notin Open \cup {"accepted"}
    THEN {c \in Courier : Matchable(c) /\ MayTake(c, o)} ELSE {}

\* dispatchNextOnDemandCourier for each order of S: the offers it can lead to.
\* The score that ranks the candidates is left out.
dispatchNextOnDemandCourier(of, os, S) ==
    LET D == {o \in S : Candidates(of, os, o) # {}}
    IN  {[r \in Row |-> IF r[1] \in D /\ f[r[1]] = r[2] THEN "offered" ELSE of[r]] :
            f \in {g \in [D -> Courier] : \A o \in D : g[o] \in Candidates(of, os, o)}}

Stale(of) == {r \in Row : of[r] = "lapsed"}
Orders(R) == {r[1] : r \in R}

expireStaleOnDemandOffers(of, os) ==
    dispatchNextOnDemandCourier(
        [r \in Row |-> IF r \in Stale(of) THEN "expired" ELSE of[r]], os, Orders(Stale(of)))

Waiting(of, os) == {o \in Order : /\ os[o] \in Ready
                                  /\ \A c \in Courier : of[<<o, c>>] \notin Open \cup {"accepted"}}

advanceOnDemandDispatchQueue(of, os) ==
    UNION {dispatchNextOnDemandCourier(g, os, Waiting(g, os)) :
               g \in expireStaleOnDemandOffers(of, os)}

\* Fault: the order of a new offer is marked whatever its status.
OfferedAnyway(s) == "offered"
Offered(s) == IF s \in Ready THEN "offered" ELSE s

\* The orders of new offers are marked.
Marked(of, os) ==
    [o \in Order |->
        IF \E c \in Courier : of[<<o, c>>] = "offered" /\ offer[<<o, c>>] # "offered"
        THEN Offered(os[o]) ELSE os[o]]

-----------------------------------------------------------------------------
(* Locks                                                                   *)

\* The rows an acceptance has written or locked.
Locked(p) == IF call[p].pc = "idle" THEN {}
             ELSE DOMAIN call[p].writes \cup {<<call[p].order, call[p].courier>>}
RowsFree(R) == \A p \in Call : Locked(p) \cap R = {}
OffersOf(o) == {r \in Row : r[1] = o /\ offer[r] # "none"}

\* Fault: the acceptance does not lock the profile.
ProfileUnlocked(c) == TRUE
ProfileFree(c) == \A p \in Call : call[p].pc = "checked" => call[p].courier # c

\* Fault: acceptances of one courier are not serialised.
NoAdvisoryLock(c) == TRUE
AdvisoryLockFree(c) ==
    \A p \in Call : call[p].pc \in {"read", "checked"} => call[p].courier # c

IdleCall == [pc |-> "idle", courier |-> "none", order |-> "none", writes |-> <<>>]
IdleTail == [pc |-> "idle", todo |-> {}, order |-> "none", courier |-> "none"]

-----------------------------------------------------------------------------
(* The courier's app                                                       *)

getMobileCourierOffers ==
    /\ RowsFree(Stale(offer))
    /\ \E of \in advanceOnDemandDispatchQueue(offer, order) :
          offer' = of /\ order' = Marked(of, order)
    /\ UNCHANGED <<leg, legStatus, staff, call, tail>>

rejectMobileCourierOffer(c, o) ==
    LET r == <<o, c>>
    IN  /\ RowsFree(Stale(offer) \cup {r})
        /\ \E g \in expireStaleOnDemandOffers(offer, order) :
              /\ g[r] = "offered"
              /\ \E of \in dispatchNextOnDemandCourier([g EXCEPT ![r] = "rejected"], order, {o}) :
                    offer' = of /\ order' = Marked(of, order)
        /\ UNCHANGED <<leg, legStatus, staff, call, tail>>

\* The acceptance expires stale offers, locks its own and finds it open.
acceptLocksOffer(p, c, o) ==
    /\ call[p].pc = "idle" /\ offer[<<o, c>>] # "none"
    /\ RowsFree(Stale(offer) \cup {<<o, c>>})
    /\ \E of \in expireStaleOnDemandOffers(offer, order) :
          /\ of[<<o, c>>] = "offered"
          /\ call' = [call EXCEPT ![p] =
                [pc |-> "locked", courier |-> c, order |-> o,
                 writes |-> [r \in {x \in Row : of[x] # offer[x]} |-> of[r]]]]
    /\ UNCHANGED <<jobs, offer, staff, tail>>

\* It takes the advisory lock and reads the courier's jobs.
acceptReadsJobs(p) ==
    LET a == call[p]
    IN  /\ a.pc = "locked" /\ AdvisoryLockFree(a.courier)
        /\ call' = [call EXCEPT ![p] =
              IF Matchable(a.courier) /\ MayTake(a.courier, a.order)
              THEN [a EXCEPT !.pc = "read"] ELSE IdleCall]
        /\ UNCHANGED <<jobs, offer, staff, tail>>

\* The same statement locks the profile: what it read of other tables stands,
\* only the profile is looked at again.
acceptLocksProfile(p) ==
    LET a == call[p]
    IN  /\ a.pc = "read" /\ ProfileFree(a.courier)
        /\ call' = [call EXCEPT ![p] =
              IF online[a.courier] /\ ~suspended[a.courier]
              THEN [a EXCEPT !.pc = "checked"] ELSE IdleCall]
        /\ UNCHANGED <<jobs, offer, staff, tail>>

\* Fault: a leg of another courier is overwritten.
LegNotRead(c, o) == TRUE
LegFree(c, o) == leg[o] \in {c, "none"}

\* The offers as an acceptance sees them.
Overlaid(w) == [r \in Row |-> IF r \in DOMAIN w THEN w[r] ELSE offer[r]]

\* It writes the leg, the offers and the order.  The order row is read FOR
\* UPDATE with a condition on its status, but the answer is not looked at.
acceptCommits(p) ==
    LET a  == call[p]
        of == Overlaid(a.writes)
    IN  /\ a.pc = "checked" /\ LegFree(a.courier, a.order)
        /\ leg' = [leg EXCEPT ![a.order] = a.courier]
        /\ legStatus' = [legStatus EXCEPT ![a.order] = "accepted"]
        /\ offer' = [r \in Row |->
              CASE r = <<a.order, a.courier>> -> "accepted"
                [] r[1] = a.order /\ r[2] # a.courier /\ of[r] \in Open -> "lost"
                [] OTHER -> of[r]]
        /\ order' = [Marked(of, order) EXCEPT ![a.order] = "accepted"]
        /\ call' = [call EXCEPT ![p] = IdleCall]
        /\ finalize_pending_courier_enforcement_actions
        /\ UNCHANGED tail

\* A failed statement, a refused vehicle or leg, a deadlock victim, a crash.
acceptRollsBack(p) ==
    /\ call[p].pc # "idle"
    /\ call' = [call EXCEPT ![p] = IdleCall]
    /\ UNCHANGED <<jobs, offer, staff, tail>>

OfferLapses(r) ==
    /\ offer[r] = "offered"
    /\ offer' = [offer EXCEPT ![r] = "lapsed"]
    /\ UNCHANGED <<jobs, staff, call, tail>>

\* Proof of pickup, proof of delivery.
verifyOnDemandStep(o) ==
    /\ leg[o] # "none"
    /\ \E s \in {<<"accepted", "in_transit">>, <<"in_transit", "delivered">>} :
          /\ order[o] = s[1]
          /\ order' = [order EXCEPT ![o] = s[2]]
          /\ legStatus' = [legStatus EXCEPT ![o] = s[2]]
    /\ UNCHANGED <<leg, offer, call, tail>>
    /\ finalize_pending_courier_enforcement_actions

updateDutyOn(c) ==
    /\ ~suspended[c] /\ ~online[c] /\ ProfileFree(c)
    /\ online' = [online EXCEPT ![c] = TRUE]
    /\ UNCHANGED <<jobs, offer, suspended, action, call, tail>>

\* Going off duty reads the active jobs in an earlier statement: by the time it
\* writes there may be one.
updateDutyOff(c) ==
    /\ online[c] /\ ProfileFree(c)
    /\ online' = [online EXCEPT ![c] = FALSE]
    /\ UNCHANGED <<jobs, offer, suspended, action, call, tail>>

-----------------------------------------------------------------------------
(* Cancellations and the scheduled orders                                  *)

Closes(o) ==
    /\ order' = [order EXCEPT ![o] = "cancelled"]
    /\ legStatus' = [legStatus EXCEPT ![o] = IF @ \in Closed THEN @ ELSE "cancelled"]
    /\ offer' = [r \in Row |-> IF r[1] = o /\ offer[r] \in Open THEN "expired" ELSE offer[r]]
    /\ UNCHANGED leg
    /\ finalize_pending_courier_enforcement_actions

\* The customer cancels a parcel order; then the queue is advanced.
cancelCustomerOrder(o) ==
    /\ order[o] \in {"scheduled", "pending", "offered"} /\ RowsFree(OffersOf(o))
    /\ Closes(o)
    /\ tail' = IF tail.pc = "idle" THEN [IdleTail EXCEPT !.pc = "expire"] ELSE tail
    /\ UNCHANGED call

forceCancelOrder(o) ==
    /\ order[o] \notin {"cancelled", "delivered"} /\ RowsFree(OffersOf(o))
    /\ Closes(o)
    /\ UNCHANGED <<call, tail>>

\* The courier gives the pickup up.
cancelMobileCourierOnDemandPickup(o) ==
    LET r == <<o, leg[o]>>
    IN  /\ leg[o] # "none" /\ order[o] \notin {"in_transit", "delivered"} /\ RowsFree({r})
        /\ order' = [order EXCEPT ![o] = "cancelled"]
        /\ legStatus' = [legStatus EXCEPT ![o] = "cancelled"]
        /\ offer' = [offer EXCEPT ![r] = IF @ = "accepted" THEN "cancelled" ELSE @]
        /\ UNCHANGED <<leg, call, tail>>
        /\ finalize_pending_courier_enforcement_actions

\* The worker puts scheduled orders that are due into the queue.
processDueCustomerScheduledOrders ==
    \E S \in SUBSET {o \in Order : order[o] = "scheduled"} :
        LET os == [o \in Order |-> IF o \in S THEN "pending" ELSE order[o]]
        IN  /\ S # {} /\ RowsFree(Stale(offer))
            /\ \E of \in advanceOnDemandDispatchQueue(offer, os) :
                  offer' = of /\ order' = Marked(of, os)
            /\ UNCHANGED <<leg, legStatus, staff, call, tail>>

-----------------------------------------------------------------------------
(* Account suspension                                                      *)

Unpicked(c) == {o \in ActiveJobs(c) : legStatus[o] = "accepted"}

\* A suspension waits for the active jobs, takes the unpicked ones away, or
\* stops the courier at once.
createAdminCourierEnforcementAction(c, policy) ==
    LET gone == IF policy = "reassign_unpicked_jobs" THEN Unpicked(c) ELSE {}
        rest == ActiveJobs(c) \ gone
        now  == policy = "immediate_safety_stop" \/ rest = {}
    IN  /\ action[c] = "none" /\ ProfileFree(c)
        /\ leg' = [o \in Order |-> IF o \in gone THEN "none" ELSE leg[o]]
        /\ legStatus' = [o \in Order |-> IF o \in gone THEN "pending" ELSE legStatus[o]]
        /\ action' = [action EXCEPT ![c] =
              IF ~now THEN "pending_safe_completion"
              ELSE IF rest = {} THEN "active" ELSE "stopped"]
        /\ suspended' = [suspended EXCEPT ![c] = @ \/ now]
        /\ online' = [online EXCEPT ![c] = @ /\ ~now]
        /\ UNCHANGED <<order, offer, call, tail>>

\* An approved appeal revokes the action.
reviewAdminCourierEnforcementAppeal(c) ==
    /\ action[c] # "none" /\ ProfileFree(c)
    /\ action' = [action EXCEPT ![c] = "none"]
    /\ suspended' = [suspended EXCEPT ![c] = FALSE]
    /\ UNCHANGED <<jobs, offer, online, call, tail>>

-----------------------------------------------------------------------------
(* The queue run after a customer's cancellation, statement by statement   *)

tailExpires ==
    /\ tail.pc = "expire" /\ RowsFree(Stale(offer))
    /\ offer' = [r \in Row |-> IF r \in Stale(offer) THEN "expired" ELSE offer[r]]
    /\ tail' = [tail EXCEPT !.pc = "expired", !.todo = Orders(Stale(offer))]
    /\ UNCHANGED <<jobs, staff, call>>

tailReadsQueue ==
    /\ tail.pc = "expired" /\ tail.todo = {}
    /\ tail' = [tail EXCEPT !.pc = "queued", !.todo = Waiting(offer, order)]
    /\ UNCHANGED <<jobs, offer, staff, call>>

\* The checks and the choice of a courier for one order.
tailPicks(o) ==
    /\ tail.pc \in {"expired", "queued"} /\ o \in tail.todo
    /\ IF Candidates(offer, order, o) = {}
       THEN tail' = [tail EXCEPT !.todo = @ \ {o}]
       ELSE \E c \in Candidates(offer, order, o) :
               tail' = [pc |-> IF tail.pc = "expired" THEN "insert1" ELSE "insert2",
                        todo |-> tail.todo \ {o}, order |-> o, courier |-> c]
    /\ UNCHANGED <<jobs, offer, staff, call>>

\* Fault: the table has no index of one open offer for an order.
NoIndex(r) == TRUE
UniqueOffer(r) == \A x \in OffersOf(r[1]) : offer[x] \in Open => x = r

\* The row is written whatever its status is by now; a second open offer of
\* the order breaks the index and ends the run.
tailInserts ==
    LET r == <<tail.order, tail.courier>>
    IN  /\ tail.pc \in {"insert1", "insert2"} /\ RowsFree(OffersOf(tail.order) \cup {r})
        /\ IF UniqueOffer(r)
           THEN /\ offer' = [offer EXCEPT ![r] = "offered"]
                /\ tail' = [tail EXCEPT !.pc = IF @ = "insert1" THEN "mark1" ELSE "mark2"]
           ELSE offer' = offer /\ tail' = IdleTail
        /\ UNCHANGED <<jobs, staff, call>>

tailMarks ==
    /\ tail.pc \in {"mark1", "mark2"}
    /\ order' = [order EXCEPT ![tail.order] = Offered(@)]
    /\ tail' = [IdleTail EXCEPT !.todo = tail.todo,
                   !.pc = IF tail.pc = "mark1" THEN "expired" ELSE "queued"]
    /\ UNCHANGED <<leg, legStatus, offer, staff, call>>

\* The end of the run, a failed statement or a crash.
tailEnds ==
    /\ tail.pc # "idle" /\ tail' = IdleTail
    /\ UNCHANGED <<jobs, offer, staff, call>>

-----------------------------------------------------------------------------
(* Specification                                                           *)

Init ==
    /\ order \in [Order -> {"scheduled", "pending"}]
    /\ leg = [o \in Order |-> "none"] /\ legStatus = [o \in Order |-> "none"]
    /\ offer = [r \in Row |-> "none"]
    /\ online = [c \in Courier |-> TRUE]
    /\ suspended = [c \in Courier |-> FALSE] /\ action = [c \in Courier |-> "none"]
    /\ call = [p \in Call |-> IdleCall] /\ tail = IdleTail

SafeJobPolicy == {"allow_active_job_completion", "reassign_unpicked_jobs",
                  "immediate_safety_stop"}

Next ==
    \/ getMobileCourierOffers \/ processDueCustomerScheduledOrders
    \/ \E c \in Courier, o \in Order : rejectMobileCourierOffer(c, o)
    \/ \E p \in Call, c \in Courier, o \in Order : acceptLocksOffer(p, c, o)
    \/ \E p \in Call : acceptReadsJobs(p) \/ acceptLocksProfile(p)
                         \/ acceptCommits(p) \/ acceptRollsBack(p)
    \/ \E r \in Row : OfferLapses(r)
    \/ \E o \in Order : \/ verifyOnDemandStep(o) \/ cancelCustomerOrder(o)
                        \/ forceCancelOrder(o) \/ cancelMobileCourierOnDemandPickup(o)
                        \/ tailPicks(o)
    \/ \E c \in Courier : \/ updateDutyOn(c) \/ updateDutyOff(c)
                          \/ reviewAdminCourierEnforcementAppeal(c)
                          \/ \E policy \in SafeJobPolicy :
                                createAdminCourierEnforcementAction(c, policy)
    \/ tailExpires \/ tailReadsQueue \/ tailInserts \/ tailMarks \/ tailEnds

Spec == Init /\ [][Next]_vars

-----------------------------------------------------------------------------
(* Properties                                                              *)

TypeOK ==
    /\ order \in [Order -> OrderStatus]
    /\ leg \in [Order -> Courier \cup {"none"}] /\ legStatus \in [Order -> LegStatus]
    /\ offer \in [Row -> OfferStatus]
    /\ {online, suspended} \subseteq [Courier -> BOOLEAN]
    /\ action \in [Courier -> {"none", "pending_safe_completion", "active", "stopped",
                            "finalized"}]

\* An order has at most one open offer, whatever transactions and bare
\* statements of the queue meet (dispatchNextOnDemandCourier and the index
\* idx_courier_offer_dispatches_one_active_order).
OneOpenOffer ==
    \A o \in Order : Cardinality({c \in Courier : offer[<<o, c>>] \in Open}) <= 1

\* However a courier's acceptances overlap, its active jobs stay within the
\* number and the customer the product allows (the lock courier-accept of
\* acceptMobileCourierOffer).
BatchPolicy ==
    \A c \in Courier :
        /\ Cardinality(ActiveJobs(c)) <= MaxActive
        /\ SameCustomer => \A x, y \in ActiveJobs(c) : Customer[x] = Customer[y]

\* A suspension that finds the courier free, or takes its jobs away, and an
\* acceptance that meets it never leave the suspended courier with a job
\* (FOR UPDATE OF cp in createAdminCourierEnforcementAction and
\* acceptMobileCourierOffer).
SuspendedIdle ==
    \A c \in Courier : action[c] = "active" => suspended[c] /\ ActiveJobs(c) = {}

\* An order in a courier's hands goes to another courier only after it was
\* taken away, even when the queue offers it again by mistake (the check of
\* the existing leg in acceptMobileCourierOffer).
CustodyStays ==
    [][\A o \in Order : leg[o] # "none" => leg'[o] \in {leg[o], "none"}]_vars

\* The queue never gets an order back that a courier holds, although its
\* statements after a cancellation may find the order accepted meanwhile (the
\* CASE of the UPDATE in dispatchNextOnDemandCourier).
QueuedIsFree ==
    \A o \in Order : order[o] \in Ready => leg[o] = "none"

\* Work taken from a suspended courier waits in the dispatch queue
\* (createAdminCourierEnforcementAction).
ReturnedWorkWaits ==
    \A o \in Order : legStatus[o] = "pending" => order[o] \in Ready \cup Closed

=============================================================================
