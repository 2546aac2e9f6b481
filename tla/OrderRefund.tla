---------------------------- MODULE OrderRefund ----------------------------
(***************************************************************************)
(* The money of one prepaid order when the order is called off: the paid   *)
(* webhook, everything that cancels, CalculateAndTriggerRefund under its   *)
(* Redis lock, ProcessPendingRefunds, and the credit payment-service books *)
(* to the customer's wallet.  How a courier is found is OrderDispatch; here *)
(* the order advances along the lifecycle by itself.                       *)
(*                                                                         *)
(* A caller runs one operation at a time; at[b] is where caller b stands   *)
(* and job[b] is what it carries from step to step.                        *)
(***************************************************************************)
EXTENDS OrderStateMachine, Integers

CONSTANTS
    Customers,   \* callers of the cancel endpoint
    Merchants,   \* callers of RejectByMerchant, for the order's one merchant
    SlaWorkers,  \* ProcessFoodPrepTransitions: merchants that do not answer
    Expirers,    \* CancelExpiredOrders
    Deliveries,  \* deliveries of the verified paid webhook
    Admins,      \* callers of CreateRefund: the refund of one order, or of all pending
    Named,       \* statuses an admin's refund names; `cancelled' is the order's own
    FoodOrders,  \* subset of BOOLEAN: whether the order is a food order
    Paid,        \* subset of BOOLEAN: whether the order starts paid and settled
    Advances,    \* statuses the order advances to by itself
    Price,       \* payments.amount_minor
    PlatformFee, \* orders.platform_fee_minor
    Lag,         \* the read replica may lag
    Slow,        \* a refund may outlive the 30 seconds of its lock
    Faulty,      \* the call of payment-service may fail or time out
    Unbooked,    \* the write of a journal may fail, or its answer be lost
    MaxCrashes,  \* bound: how many operations a crash of an instance cuts off
    Nobody       \* no caller

Callers == Customers \cup Merchants \cup SlaWorkers \cup Expirers \cup Deliveries \cup Admins

ASSUME CallersAssumption ==
    LET roles == <<Customers, Merchants, SlaWorkers, Expirers, Deliveries, Admins>>
    IN  /\ Nobody \notin Callers
        /\ \A i, j \in 1 .. 6 : i # j => roles[i] \cap roles[j] = {}

ASSUME MoneyAssumption ==
    /\ Price \in Nat \ {0}
    /\ PlatformFee \in 0 .. Price

ASSUME ScopeAssumption ==
    /\ FoodOrders \subseteq BOOLEAN /\ Paid \subseteq BOOLEAN
    /\ Lag \in BOOLEAN /\ Slow \in BOOLEAN /\ Faulty \in BOOLEAN /\ Unbooked \in BOOLEAN
    /\ Advances \subseteq OrderStatus /\ Named \subseteq OrderStatus
    /\ MaxCrashes \in Nat

VARIABLES
    food,       \* service_sub_type = food_delivery
    status,     \* orders.status
    courier,    \* order_legs.courier_id is set
    cancelled,  \* the order_events row of the cancellation: from_status, caller
    payment,    \* payments.status
    refund,     \* the order's row of refunds: status, amount, whether the merchant
                \* is charged, an admin asked for it, and it names its journal
    journals,   \* REFUND-JRN journals of the order: 0, 1, or 2 for more than one
    credited,   \* sum of the REFUND rows of customer_wallet_transactions
    lock,       \* holder of lock:refund_lock, or Nobody
    replica,    \* what the read replica has of orders, order_legs and refunds
    notices,    \* webhook deliveries the provider has still to make
    at, job,
    crashes

order == <<food, status, courier, cancelled>>
money == <<payment, refund, journals, credited>>
rest == <<lock, replica, notices, crashes>>
vars == <<order, money, rest, at, job>>

Stage == { "idle", "paid", "settle", "reject", "expire", "refund", "check", "journal",
           "create", "list", "wallet", "credit", "processed", "failed", "release" }
RefundStatus == {"none", "pending", "processed", "failed"}
Amounts == 0 .. Price

NoRefund == [status |-> "none", amount |-> 0, charged |-> FALSE, manual |-> FALSE,
             booked |-> FALSE]
NoJob == [from |-> "cancelled", charged |-> FALSE, amount |-> 0, booked |-> FALSE]
category == IF food THEN "food" ELSE "package_on_demand"

(* What a query of readDB returns. *)
Primary == [status |-> status, courier |-> courier, refund |-> refund.status]
Seen == IF Lag THEN replica ELSE Primary

(* Caller b moves on to a stage; the refund it asks for starts from a job. *)
Go(b, stage) == at' = [at EXCEPT ![b] = stage] /\ UNCHANGED job
GoWith(b, stage, j) == at' = [at EXCEPT ![b] = stage] /\ job' = [job EXCEPT ![b] = j]
Leave(b) == GoWith(b, "idle", NoJob)

-----------------------------------------------------------------------------
(***************************************************************************)
(* cancellationDecision: what the policy gives back, by the status that    *)
(* the order is cancelled from; four fifths are rounded half up.           *)
(***************************************************************************)
FreeStatus(isFood) ==
    { "pending_payment", "pending", "pending_assignment", "searching", "no_courier_found" }
    \cup (IF isFood THEN {"pending_merchant", "preparing", "ready_for_pickup", "scheduled"}
                    ELSE {"cancelled"})

LateStatus == {"accepted", "picking_up"}

PolicyAmount(isFood, from, assigned) ==
    IF from \in LateStatus \/ (isFood /\ from = "searching" /\ assigned)
    THEN IF isFood THEN Price - PlatformFee ELSE (Price * 8 + 5) \div 10
    ELSE IF from \in FreeStatus(isFood) THEN Price ELSE 0

(* What the merchant is charged for is refunded in full, if at all. *)
RefundAmount(charged, isFood, from, assigned) ==
    IF charged /\ from \in FreeStatus(isFood) \cup LateStatus THEN Price
    ELSE PolicyAmount(isFood, from, assigned)

Init ==
    /\ food \in FoodOrders
    /\ \E paid \in Paid :
         /\ payment = IF paid THEN "paid" ELSE "pending"
         /\ status = IF ~paid THEN "pending_payment"
                     ELSE IF food THEN "pending_merchant" ELSE "pending_assignment"
    /\ courier = FALSE
    /\ cancelled = [from |-> "cancelled", by |-> Nobody]
    /\ refund = NoRefund
    /\ journals = 0
    /\ credited = 0
    /\ lock = Nobody
    /\ replica = Primary
    /\ notices = Deliveries
    /\ at = [b \in Callers |-> "idle"]
    /\ job = [b \in Callers |-> NoJob]
    /\ crashes = 0

(* The replica applies what the primary has committed. *)
Replicate ==
    /\ Lag
    /\ replica' = Primary
    /\ UNCHANGED <<order, money, lock, notices, crashes, at, job>>

(* The order gets on its way: merchant, matching and couriers. *)
Advance(to) ==
    /\ status # "pending_payment"
    /\ to # "cancelled"
    /\ to \in allowedOrderTransitions[status]
    /\ status' = to
    /\ courier' = (to = "assigned" \/ (courier /\ ~(status = "accepted" /\ to = "searching")))
    /\ UNCHANGED <<food, cancelled, money, rest, at, job>>

-----------------------------------------------------------------------------
(***************************************************************************)
(* HandleWebhook: ApplyVerifiedPayment in one transaction, then a read of  *)
(* the order, then what its status asks for.                               *)
(***************************************************************************)
ApplyVerifiedPayment(d) ==
    /\ d \in notices
    /\ at[d] = "idle"
    /\ notices' = notices \ {d}
    /\ payment' = "paid"
    /\ Go(d, "paid")
    /\ UNCHANGED <<order, refund, journals, credited, lock, replica, crashes>>

(* A late payment of a cancelled order asks for a refund from `cancelled'. *)
WebhookReads(d) ==
    /\ at[d] = "paid"
    /\ CASE Seen.status = "cancelled" -> GoWith(d, "refund", NoJob)
         [] Seen.status = "pending_payment" -> Go(d, "settle")
         [] OTHER -> Leave(d)
    /\ UNCHANGED <<order, money, rest>>

(* The raw UpdateStatus; a final order is left as it is, without an error. *)
WebhookSettles(d) ==
    /\ at[d] = "settle"
    /\ status' = IF IsTerminalOrderStatus(status) THEN status
                 ELSE IF food THEN "pending_merchant" ELSE "pending_assignment"
    /\ Leave(d)
    /\ UNCHANGED <<food, courier, cancelled, money, rest>>

-----------------------------------------------------------------------------
(***************************************************************************)
(* Cancellations, all through TransitionOrder, which writes the event.     *)
(***************************************************************************)
MayCancel(actor) ==
    status # "cancelled" /\ ValidateOrderTransition(status, "cancelled", actor, category)

CancelBy(b, actor) ==
    /\ MayCancel(actor)
    /\ status' = "cancelled"
    /\ cancelled' = [from |-> status, by |-> b]
    /\ UNCHANGED <<food, courier>>

(* Fault: the refund is asked for with the status after the commit. *)
CancelOrderNoOriginal(c) ==
    /\ at[c] = "idle"
    /\ CancelBy(c, "customer")
    /\ GoWith(c, "refund", NoJob)
    /\ UNCHANGED <<money, rest>>

(* updateStatusThroughBoundary: a cancellation that applied is refunded    *)
(* from the status that the transaction replaced.                          *)
CancelOrder(c) ==
    /\ at[c] = "idle"
    /\ CancelBy(c, "customer")
    /\ GoWith(c, "refund", [NoJob EXCEPT !.from = status])
    /\ UNCHANGED <<money, rest>>

(* The order is a food order that waits for its merchant. *)
AwaitsMerchant == food /\ Seen.status = "pending_merchant"

(* RejectByMerchant, and the worker for merchants that do not answer: both *)
(* look for pending_merchant first.                                        *)
RejectReads(m) ==
    /\ m \in Merchants \cup SlaWorkers
    /\ at[m] = "idle"
    /\ AwaitsMerchant
    /\ Go(m, "reject")
    /\ UNCHANGED <<order, money, rest>>

(* triggerRefundOnCancel after a rejection: in full, at the merchant's cost. *)
ChargedToMerchant == [NoJob EXCEPT !.from = "pending_merchant", !.charged = TRUE]

(* An error ends it, and so does a replay of the merchant's rejection; but *)
(* an order found cancelled otherwise is refunded once more, in full, with *)
(* the fee charged to the merchant.                                        *)
RejectWrites(m) ==
    LET actor == IF m \in Merchants THEN "merchant" ELSE "platform"
    IN  /\ at[m] = "reject"
        /\ \/ /\ ~({m, cancelled.by} \subseteq Merchants)
              /\ CancelBy(m, actor) \/ (status = "cancelled" /\ UNCHANGED order)
              /\ GoWith(m, "refund", ChargedToMerchant)
           \/ /\ \/ ~ValidateOrderTransition(status, "cancelled", actor, category)
                 \/ {m, cancelled.by} \subseteq Merchants
              /\ Leave(m)
              /\ UNCHANGED order
        /\ UNCHANGED <<money, rest>>

(* CancelExpiredOrders: lists the unpaid orders, then cancels each. *)
ExpiryReads(w) ==
    /\ w \in Expirers
    /\ at[w] = "idle"
    /\ Seen.status = "pending_payment"
    /\ Go(w, "expire")
    /\ UNCHANGED <<order, money, rest>>

ExpiryCancels(w) ==
    /\ at[w] = "expire"
    /\ IF MayCancel("platform") THEN CancelBy(w, "platform") ELSE UNCHANGED order
    /\ Leave(w)
    /\ UNCHANGED <<money, rest>>

-----------------------------------------------------------------------------
(***************************************************************************)
(* CalculateAndTriggerRefund.  A busy lock is an error, which every caller *)
(* only logs.  The status is the caller's, or the order's own where that   *)
(* is empty or `cancelled'.                                                *)
(***************************************************************************)
Holding == { "check", "journal", "create", "list", "wallet", "credit", "processed", "failed", "release" }

(* The refund goes on if it is worth something. *)
Decides(b) ==
    LET from == IF job[b].from = "cancelled" THEN Seen.status ELSE job[b].from
        amount == RefundAmount(job[b].charged, food, from, Seen.courier)
    IN  GoWith(b, IF amount = 0 THEN "release" ELSE "check", [job[b] EXCEPT !.amount = amount])

(* Fault: no lock. *)
AcquireLockNever(b) ==
    /\ at[b] = "refund"
    /\ Decides(b)
    /\ UNCHANGED <<order, money, rest>>

AcquireLock(b) ==
    /\ at[b] = "refund"
    /\ IF lock # Nobody THEN Leave(b) /\ UNCHANGED lock
       ELSE lock' = b /\ Decides(b)
    /\ UNCHANGED <<order, money, replica, notices, crashes>>

(* Fault: whether the payment was made is not asked. *)
ChecksRefundsOnly(b) ==
    /\ at[b] = "check"
    /\ Go(b, IF Seen.refund = "none" THEN "journal" ELSE "release")
    /\ UNCHANGED <<order, money, rest>>

ChecksPayment(b) ==
    /\ at[b] = "check"
    /\ Go(b, IF payment = "paid" /\ Seen.refund = "none" THEN "journal" ELSE "release")
    /\ UNCHANGED <<order, money, rest>>

(* The journal has a key of its own, so it is written before the index     *)
(* refuses a second refund of the order.  An error is only logged: the     *)
(* refund goes on without naming a journal, which may be there.            *)
OneMore == IF journals = 2 THEN 2 ELSE journals + 1

WritesJournal(b) ==
    /\ at[b] = "journal"
    /\ \/ /\ journals' = OneMore
          /\ GoWith(b, "create", [job[b] EXCEPT !.booked = TRUE])
       \/ Unbooked /\ journals' \in {journals, OneMore} /\ Go(b, "create")
    /\ UNCHANGED <<order, payment, refund, credited, rest>>

CreateRefund(b) ==
    /\ at[b] = "create"
    /\ IF refund.status # "none" THEN Go(b, "release") /\ UNCHANGED refund
       ELSE /\ refund' = [status |-> "pending", amount |-> job[b].amount, charged |-> job[b].charged,
                          manual |-> b \in Admins, booked |-> job[b].booked]
            /\ Go(b, "list")
    /\ UNCHANGED <<order, payment, journals, credited, rest>>

-----------------------------------------------------------------------------
(***************************************************************************)
(* ProcessPendingRefunds: at the end of every refund, or asked for by an   *)
(* admin, without the lock.                                                *)
(***************************************************************************)
\* A batch that an admin asked for carries no amount.
Afterwards(b) == IF job[b].amount = 0 THEN "idle" ELSE "release"

(* The handler CreateRefund, with an order and without one. *)
RefundOneStarts(b) ==
    /\ b \in Admins
    /\ at[b] = "idle"
    /\ \E from \in Named, charged \in BOOLEAN :
         GoWith(b, "refund", [NoJob EXCEPT !.from = from, !.charged = charged])
    /\ UNCHANGED <<order, money, rest>>

BatchStarts(b) ==
    /\ b \in Admins
    /\ at[b] = "idle"
    /\ Go(b, "list")
    /\ UNCHANGED <<order, money, rest>>

ListsPending(b) ==
    /\ at[b] = "list"
    /\ Go(b, IF Seen.refund = "pending" THEN "wallet" ELSE Afterwards(b))
    /\ UNCHANGED <<order, money, rest>>

(* Whether payment-service, that looks for an earlier REFUND row of the     *)
(* order on its own replica, may find one, or none.                        *)
IsRefundProcessed(found) == IF found THEN credited > 0 ELSE credited = 0 \/ Lag

(* The request of the wallet gateway may also fail or time out on the way. *)
WalletChecks(b) ==
    /\ at[b] = "wallet"
    /\ \/ IsRefundProcessed(TRUE) /\ Go(b, "processed")
       \/ IsRefundProcessed(FALSE) /\ Go(b, "credit")
       \/ Faulty /\ Go(b, "failed")
    /\ UNCHANGED <<order, money, rest>>

(* Fault: the ledger journal of the credit without a key per order. *)
WalletCreditsAgain(b) ==
    /\ at[b] = "credit"
    /\ credited < 2 * Price
    /\ credited' = credited + refund.amount
    /\ Go(b, "processed")
    /\ UNCHANGED <<order, payment, refund, journals, rest>>

(* One transaction: balance, REFUND row, and the journal LEDGER-REFUND of  *)
(* the order, whose key is unique.  The answer may be lost.                *)
WalletCredits(b) ==
    /\ at[b] = "credit"
    /\ IF credited > 0 THEN Go(b, "failed") /\ UNCHANGED credited
       ELSE /\ credited' = refund.amount
            /\ Go(b, "processed") \/ (Faulty /\ Go(b, "failed"))
    /\ UNCHANGED <<order, payment, refund, journals, rest>>

(* Fault: whatever the gateway answered. *)
UpdateRefundStatusBlindly(b) ==
    /\ at[b] \in {"processed", "failed"}
    /\ refund' = [refund EXCEPT !.status = "processed"]
    /\ Go(b, Afterwards(b))
    /\ UNCHANGED <<order, payment, journals, credited, rest>>

(* UpdateRefundStatus asks for no earlier status. *)
UpdateRefundStatus(b) ==
    /\ at[b] \in {"processed", "failed"}
    /\ refund' = [refund EXCEPT !.status = at[b]]
    /\ Go(b, Afterwards(b))
    /\ UNCHANGED <<order, payment, journals, credited, rest>>

(* The key is deleted, whoever holds it by now. *)
ReleaseLock(b) ==
    /\ at[b] = "release"
    /\ lock' = Nobody
    /\ Leave(b)
    /\ UNCHANGED <<order, money, replica, notices, crashes>>

LockExpires ==
    /\ lock # Nobody
    /\ Slow \/ at[lock] \notin Holding
    /\ lock' = Nobody
    /\ UNCHANGED <<order, money, replica, notices, crashes, at, job>>

(* An operation is cut off; the provider repeats a webhook it saw no answer to. *)
Crash(b) ==
    /\ crashes < MaxCrashes
    /\ at[b] # "idle"
    /\ Leave(b)
    /\ notices' = notices \cup ({b} \cap Deliveries)
    /\ crashes' = crashes + 1
    /\ UNCHANGED <<order, money, lock, replica>>

-----------------------------------------------------------------------------
(* The steps of an operation that has begun. *)
Proceed(b) ==
    \/ WebhookReads(b) \/ WebhookSettles(b)
    \/ RejectWrites(b) \/ ExpiryCancels(b)
    \/ AcquireLock(b) \/ ChecksPayment(b) \/ WritesJournal(b) \/ CreateRefund(b)
    \/ ListsPending(b) \/ WalletChecks(b) \/ WalletCredits(b) \/ UpdateRefundStatus(b)
    \/ ReleaseLock(b)

Start(b) ==
    \/ b \in Deliveries /\ ApplyVerifiedPayment(b)
    \/ b \in Customers /\ CancelOrder(b)
    \/ RejectReads(b) \/ ExpiryReads(b) \/ BatchStarts(b) \/ RefundOneStarts(b)

Next ==
    \/ Replicate
    \/ \E to \in Advances : Advance(to)
    \/ LockExpires
    \/ \E b \in Callers : Start(b) \/ Proceed(b) \/ Crash(b)

Spec == Init /\ [][Next]_vars

(* What has begun goes on unless it crashes, and Redis expires its keys.   *)
(* Nobody has to pay, to cancel, or to ask for a refund.                   *)
Fairness == WF_vars(LockExpires) /\ \A b \in Callers : WF_vars(Proceed(b))

FairSpec == Spec /\ Fairness

-----------------------------------------------------------------------------
(***************************************************************************)
(* Properties.                                                             *)
(***************************************************************************)

(* Every variable holds what its column, key or call can hold. *)
TypeOK ==
    /\ food \in BOOLEAN
    /\ status \in OrderStatus
    /\ courier \in BOOLEAN
    /\ cancelled \in [from : OrderStatus, by : Callers \cup {Nobody}]
    /\ payment \in {"pending", "paid"}
    /\ refund \in [status : RefundStatus, amount : Amounts, charged : BOOLEAN,
                  manual : BOOLEAN, booked : BOOLEAN]
    /\ journals \in 0 .. 2
    /\ credited \in Amounts
    /\ lock \in Callers \cup {Nobody}
    /\ replica \in [status : OrderStatus, courier : BOOLEAN, refund : RefundStatus]
    /\ notices \subseteq Deliveries
    /\ at \in [Callers -> Stage]
    /\ job \in [Callers -> [from : OrderStatus, charged : BOOLEAN, amount : Amounts,
                            booked : BOOLEAN]]
    /\ crashes \in 0 .. MaxCrashes

(***************************************************************************)
(* CalculateAndTriggerRefund and ProcessPendingRefunds keep the promise of *)
(* RefundPromise: with the lock expired, the replica behind, answers lost  *)
(* and instances crashing, one refund is granted, only when owed, and its  *)
(* amount is given once and never taken back.                              *)
(***************************************************************************)
AdminAsks == \E b \in Admins : at[b] \in {"refund", "check", "journal", "create"}

Promise == INSTANCE RefundPromise WITH
    owed <- payment = "paid" /\ (status = "cancelled" \/ refund.manual \/ AdminAsks),
    granted <- refund.amount,
    given <- credited,
    shown <- refund.status = "processed"

KeepsPromise == Promise!Spec

(***************************************************************************)
(* However many callers refund the order, with the lock expired, the       *)
(* replica behind, answers lost and instances crashing, the wallet gets    *)
(* the amount of its one refund, once.                                     *)
(***************************************************************************)
CreditedOnce == credited \in {0, refund.amount}

(***************************************************************************)
(* However late a payment or a cancellation is seen, only a paid order is  *)
(* given money back, and only if it was called off or an admin asked       *)
(* ("manual admin trigger"): the webhook that finds the order cancelled    *)
(* and the handlers that cancelled it act on what they read before.        *)
(***************************************************************************)
RefundsAreOwed ==
    refund.status # "none" => payment = "paid" /\ (status = "cancelled" \/ refund.manual)

(***************************************************************************)
(* A refund is shown as processed only if the customer has the money.      *)
(***************************************************************************)
ProcessedMeansCredited == refund.status = "processed" => credited > 0

(***************************************************************************)
(* Unless the merchant is charged or an admin names a status, the refund   *)
(* is what the policy gives for the status that the cancelling transaction *)
(* replaced ("prefer dari opts, fallback ke status DB kalau bukan          *)
(* cancelled").                                                            *)
(***************************************************************************)
Due == PolicyAmount(food, cancelled.from, courier)
RefundMatchesPolicy ==
    refund.status # "none" /\ ~refund.charged /\ ~refund.manual => refund.amount = Due

(***************************************************************************)
(* While the lock covers a refund, however many callers ask for it at most *)
(* one journal REFUND-JRN is booked for the order, and where the order's   *)
(* refund names a journal, which is what ReconcileRefund looks at, that is *)
(* the one.  A refund without a journal is possible.                       *)
(***************************************************************************)
OneJournal == journals <= 1 /\ (refund.booked => journals = 1)

(***************************************************************************)
(* The customer of a paid order that was cancelled gets what is due.       *)
(***************************************************************************)
Owed == status = "cancelled" /\ payment = "paid" /\ Due > 0
OwedIsCredited == Owed ~> credited > 0

=============================================================================
