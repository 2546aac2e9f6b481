---------------------------- MODULE PromoCheckout ----------------------------
(***************************************************************************)
(* Promotion budgets of admin-service: a checkout quotes the campaigns of  *)
(* its codes, reserves each of them in a transaction of its own and then   *)
(* creates the order; payment redeems the reservations, a cancellation or  *)
(* a failed payment gives the budget back.  Retries come through the       *)
(* idempotency middleware.  A database transaction is one step, as is a    *)
(* statement outside one; a process may stop between any two steps.        *)
(***************************************************************************)
EXTENDS Integers, Sequences, FiniteSets

CONSTANTS
    Campaign, Order,
    Key,       \* X-Idempotency-Key of an order creation; one customer each
    DirectKey, \* key of the app's own reserve, redeem and release calls
    Attempt,   \* requests in progress
    Customer,  \* the customer of a key
    Codes,     \* the campaigns named in the requests of a key, in the order of
               \* selectCanonicalPromoStack
    Discount,  \* the discount of a campaign
    Budget,    \* the values of total_budget_idr of a campaign
    UserLimit  \* per_user_limit

ASSUME PromoAssumption ==
    /\ "none" \notin Order /\ "none" \notin Key \cup DirectKey
    /\ Key \cap DirectKey = {}
    /\ Codes \in [Key \cup DirectKey -> Seq(Campaign)]
    /\ DOMAIN Customer = Key \cup DirectKey
    /\ Discount \in [Campaign -> Nat] /\ UserLimit \in Nat
    /\ Budget \in [Campaign -> SUBSET (Nat \ {0})]
    /\ IsFiniteSet(Campaign) /\ IsFiniteSet(Key \cup DirectKey)

\* The unique key (campaign_id, idempotency_key) of a redemption, and with a
\* ledger type of a ledger entry.
Named(k) == {Codes[k][i] : i \in 1..Len(Codes[k])}
Row == {r \in Campaign \X (Key \cup DirectKey) : r[1] \in Named(r[2])}

VARIABLES
    total,     \* promo_campaigns.total_budget_idr
    reserved,  \* promo_campaigns.reserved_budget_idr
    redeemed,  \* promo_campaigns.redeemed_budget_idr
    reserve,   \* status of the ledger entry of type reserve, "none" for no entry
    redeem,    \* rows with a ledger entry of type redeem
    release,   \* rows with a ledger entry of type release
    promo,     \* promo_redemptions.status
    link,      \* order_id of the redemption and its reserve entry
    order,     \* orders.status
    orderKey,  \* the key of the request that created the order
    idem,      \* api_idempotency_keys.state, "lapsed" once locked_until is past
    attempt    \* the requests in progress

budget == <<reserved, redeemed>>
ledger == <<reserve, redeem, release, promo>>
orders == <<link, order, orderKey>>
vars   == <<total, budget, ledger, orders, idem, attempt>>

\* done: the codes of the stack dealt with; undone: those of them given back.
Idle == [pc |-> "idle", key |-> "none", done |-> 0, undone |-> 0]

-----------------------------------------------------------------------------
(* Budget                                                                  *)

Available(c) == total[c] - reserved[c] - redeemed[c]
Rows(o) == {r \in Row : link[r] = o}
Less(a, b) == IF a < b THEN 0 ELSE a - b        \* GREATEST(0, a - b)

Used == {r \in Row : promo[r] \in {"reserved", "redeemed"}}

\* The read before a quote, or before the transaction of the rows in own: the
\* budget and the customer's limit.  A replay needs no room.  The campaign's
\* status and window are left out: what they refuse is refused below as well.
Eligible(c, k, own) ==
    /\ reserved[c] + redeemed[c] < total[c]
    /\ Cardinality({r \in Used \ own : r[1] = c /\ Customer[r[2]] = Customer[k]}) < UserLimit
    /\ own \cap Used # {} \/ Available(c) >= Discount[c]

\* Fault: the budget is not looked at again under the lock of the campaign.
NotRechecked(c, entry) == TRUE
RoomUnderLock(c, entry) == entry \/ Available(c) >= Discount[c]

\* Fault: the counter moves although the ledger entry was there already.
EveryCall(r) == TRUE
EntryIsNew(r) == reserve[r] = "none"

\* The reserve transaction of validatePromoForCheckout.
Reserves(r) ==
    /\ reserve' = [reserve EXCEPT ![r] = IF @ = "none" THEN "active" ELSE @]
    /\ reserved' = [reserved EXCEPT ![r[1]] = @ + IF EntryIsNew(r) THEN Discount[r[1]] ELSE 0]
    /\ promo' = [promo EXCEPT ![r] = IF @ = "none" THEN "reserved" ELSE @]
    /\ UNCHANGED <<redeemed, redeem, release>>

\* The redeem transaction of validatePromoForCheckout.
Redeems(r) ==
    /\ redeem' = redeem \cup {r}
    /\ redeemed' = [redeemed EXCEPT ![r[1]] = @ + IF r \in redeem THEN 0 ELSE Discount[r[1]]]
    /\ promo' = [promo EXCEPT ![r] = "redeemed"]
    /\ UNCHANGED <<reserved, reserve, release>>

\* Fault: the redemption is left as it was.
RedemptionStays(r) == promo
Freed(r) == [promo EXCEPT ![r] = IF @ = "reserved" THEN "released" ELSE @]

releasePromoReservation(r) ==
    IF reserve[r] = "active"
    THEN /\ reserve' = [reserve EXCEPT ![r] = "released"]
         /\ reserved' = [reserved EXCEPT ![r[1]] = Less(@, Discount[r[1]])]
         /\ promo' = Freed(r)
         /\ UNCHANGED <<redeemed, redeem, release>>
    ELSE UNCHANGED <<budget, ledger>>

\* The discount of the rows in R that belong to campaign c.  An order has one
\* redemption of a campaign.
Sum(c, R) == Discount[c] * Cardinality({r \in R : r[1] = c})

\* A row of no discount is passed over by a payment and by an order's end: it
\* stays as it is.
OfWorth(r) == Discount[r[1]] > 0
ReservedRows(o) == {r \in Rows(o) : promo[r] = "reserved" /\ OfWorth(r)}

redeemReservedPromosForPaidOrder(o) ==
    LET R == ReservedRows(o)
    IN  /\ promo' = [r \in Row |-> IF r \in R THEN "redeemed" ELSE promo[r]]
        /\ reserve' = [r \in Row |-> IF r \in R /\ reserve[r] = "active"
                                     THEN "redeemed" ELSE reserve[r]]
        /\ redeem' = redeem \cup R
        /\ reserved' = [c \in Campaign |-> Less(reserved[c], Sum(c, R))]
        /\ redeemed' = [c \in Campaign |-> redeemed[c] + Sum(c, R)]
        /\ UNCHANGED release

\* Fault: a cancellation gives back reservations only.
KeepRedeemed(o) == {}
RedeemedRows(o) == {r \in Rows(o) : promo[r] = "redeemed" /\ OfWorth(r)}

\* releaseReservedPromosForOrders gives back the reservations H of an order,
\* reverseRedeemedPromosForOrders its redemptions R.
GivesBack(H, R) ==
    /\ promo' = [r \in Row |-> IF r \in H \cup R THEN "released" ELSE promo[r]]
    /\ reserve' = [r \in Row |-> IF r \in H /\ reserve[r] = "active"
                                 THEN "released" ELSE reserve[r]]
    /\ release' = release \cup R
    /\ reserved' = [c \in Campaign |-> Less(reserved[c], Sum(c, H))]
    /\ redeemed' = [c \in Campaign |-> Less(redeemed[c], Sum(c, R \ release))]
    /\ UNCHANGED redeem

releaseReservedPromosForOrders(o) == GivesBack(ReservedRows(o), {})

-----------------------------------------------------------------------------
(* requireIdempotencyKey                                                   *)

acquireInserts(a, k) ==
    /\ attempt[a].pc = "idle" /\ idem[k] = "none"
    /\ idem' = [idem EXCEPT ![k] = "processing"]
    /\ attempt' = [attempt EXCEPT ![a] = [Idle EXCEPT !.pc = "quote", !.key = k]]
    /\ UNCHANGED <<total, budget, ledger, orders>>

\* A failed request, or one whose lock has lapsed, is taken over: the state is
\* read in one statement and written in the next, whatever it is by then.
acquireReads(a, k) ==
    /\ attempt[a].pc = "idle" /\ idem[k] \in {"failed", "lapsed"}
    /\ attempt' = [attempt EXCEPT ![a] = [Idle EXCEPT !.pc = "takeover", !.key = k]]
    /\ UNCHANGED <<total, budget, ledger, orders, idem>>

acquireTakesOver(a) ==
    /\ attempt[a].pc = "takeover"
    /\ idem' = [idem EXCEPT ![attempt[a].key] = "processing"]
    /\ attempt' = [attempt EXCEPT ![a].pc = "quote"]
    /\ UNCHANGED <<total, budget, ledger, orders>>

lockLapses(k) ==
    /\ idem[k] = "processing"
    /\ idem' = [idem EXCEPT ![k] = "lapsed"]
    /\ UNCHANGED <<total, budget, ledger, orders, attempt>>

\* persistResponse: an answer of the server's fault may be retried.
Answers(a, state) ==
    /\ idem' = [idem EXCEPT ![attempt[a].key] = state]
    /\ attempt' = [attempt EXCEPT ![a] = Idle]

-----------------------------------------------------------------------------
(* createCustomerOrder with validatePromoStackForCheckout                  *)

\* Every code is quoted, with the request's key and not the reservation's.
quotes(a) ==
    LET k == attempt[a].key
    IN  /\ attempt[a].pc = "quote"
        /\ IF \A c \in Named(k) : Eligible(c, k, {})
           THEN /\ attempt' = [attempt EXCEPT ![a].pc = "reserve"]
                /\ UNCHANGED idem
           ELSE Answers(a, "completed")
        /\ UNCHANGED <<total, budget, ledger, orders>>

\* The reservation of the i-th code of a request.
Code(p, i) == <<Codes[p.key][i], p.key>>
Complete(p) == p.pc = "reserve" /\ p.done = Len(Codes[p.key])

\* A reservation is checked before its transaction.  A campaign that has
\* become ineligible is not reserved, and counted among those that are.
reservationChecks(a) ==
    LET p == attempt[a]
        r == Code(p, p.done + 1)
    IN  /\ p.pc = "reserve" /\ ~Complete(p)
        /\ attempt' = [attempt EXCEPT ![a] =
              IF Eligible(r[1], p.key, {r}) THEN [p EXCEPT !.pc = "take"]
                                            ELSE [p EXCEPT !.done = @ + 1]]
        /\ UNCHANGED <<total, budget, ledger, orders, idem>>

\* The transaction.  Without room it throws, and the reservations made before
\* are given back.
reservationCommits(a) ==
    LET p == attempt[a]
        r == Code(p, p.done + 1)
    IN  /\ p.pc = "take"
        /\ IF RoomUnderLock(r[1], reserve[r] # "none")
           THEN /\ Reserves(r)
                /\ attempt' = [attempt EXCEPT ![a] =
                      [p EXCEPT !.pc = "reserve", !.done = @ + 1]]
           ELSE /\ attempt' = [attempt EXCEPT ![a].pc = "undo"]
                /\ UNCHANGED <<budget, ledger>>
        /\ UNCHANGED <<total, orders, idem>>

\* Fault: what an earlier request of the key used is linked to the new order.
EverNamed(k) == {r \in Row : r[2] = k /\ promo[r] # "none"}
ToLink(k) == {r \in Row : r[2] = k /\ promo[r] = "reserved"}

\* The order is committed with its reservations linked to it.
orderCommits(a, o) ==
    LET p == attempt[a]
    IN  /\ Complete(p) /\ order[o] = "none"
        /\ order' = [order EXCEPT ![o] = "pending_payment"]
        /\ orderKey' = [orderKey EXCEPT ![o] = p.key]
        /\ link' = [r \in Row |-> IF r \in ToLink(p.key) THEN o ELSE link[r]]
        /\ attempt' = [attempt EXCEPT ![a].pc = "answer"]
        /\ UNCHANGED <<total, budget, ledger, idem>>

answers(a) ==
    /\ attempt[a].pc = "answer" /\ Answers(a, "completed")
    /\ UNCHANGED <<total, budget, ledger, orders>>

\* A failed statement, here or in the transaction of a reservation.
creationFails(a) ==
    /\ attempt[a].pc \in {"reserve", "take"}
    /\ attempt' = [attempt EXCEPT ![a].pc = "undo"]
    /\ UNCHANGED <<total, budget, ledger, orders, idem>>

\* The errors of a release are ignored.
undoes(a) ==
    LET p == attempt[a]
    IN  /\ p.pc = "undo" /\ p.undone < p.done
        /\ \/ releasePromoReservation(Code(p, p.undone + 1))
           \/ UNCHANGED <<budget, ledger>>
        /\ attempt' = [attempt EXCEPT ![a].undone = @ + 1]
        /\ UNCHANGED <<total, orders, idem>>

undone(a) ==
    /\ attempt[a].pc = "undo" /\ attempt[a].undone = attempt[a].done
    /\ Answers(a, "failed")
    /\ UNCHANGED <<total, budget, ledger, orders>>

processStops(a) ==
    /\ attempt[a].pc # "idle"
    /\ attempt' = [attempt EXCEPT ![a] = Idle]
    /\ UNCHANGED <<total, budget, ledger, orders, idem>>

-----------------------------------------------------------------------------
(* The app's own calls, payment, cancellation, administration              *)

\* reserveCustomerPromo and redeemCustomerPromo.  What they read before the
\* transaction can only refuse, on values that may be old by then.
reserveCustomerPromo(c, k) ==
    /\ RoomUnderLock(c, reserve[<<c, k>>] # "none") /\ Reserves(<<c, k>>)
    /\ UNCHANGED <<total, orders, idem, attempt>>

redeemCustomerPromo(c, k) ==
    /\ RoomUnderLock(c, <<c, k>> \in redeem) /\ Redeems(<<c, k>>)
    /\ UNCHANGED <<total, orders, idem, attempt>>

releaseCustomerPromoReservation(c, k) ==
    /\ releasePromoReservation(<<c, k>>)
    /\ UNCHANGED <<total, orders, idem, attempt>>

\* A confirmed payment.  The provider's notice may come at any time and twice.
paymentSucceeds(o) ==
    /\ order[o] # "none"
    /\ order' = [order EXCEPT ![o] = IF @ = "pending_payment" THEN "paid" ELSE @]
    /\ redeemReservedPromosForPaidOrder(o)
    /\ UNCHANGED <<total, link, orderKey, idem, attempt>>

paymentFails(o) ==
    /\ order[o] # "none"
    /\ order' = [order EXCEPT ![o] = IF @ = "pending_payment" THEN "payment_failed" ELSE @]
    /\ releaseReservedPromosForOrders(o)
    /\ UNCHANGED <<total, link, orderKey, idem, attempt>>

cancelCustomerOrder(o) ==
    /\ order[o] \in {"pending_payment", "paid"}
    /\ order' = [order EXCEPT ![o] = "cancelled"]
    /\ GivesBack(ReservedRows(o), RedeemedRows(o))
    /\ UNCHANGED <<total, link, orderKey, idem, attempt>>

\* An administrator's cancellation leaves the promotions alone.
forceCancelOrder(o) ==
    /\ order[o] \in {"pending_payment", "paid", "payment_failed"}
    /\ order' = [order EXCEPT ![o] = "force_cancelled"]
    /\ UNCHANGED <<total, budget, ledger, link, orderKey, idem, attempt>>

\* order-service ends an order of the same table when its payment has taken too
\* long, and leaves the promotions alone.  What it read on its replica may be
\* old: a paid order may still be ended.
CancelExpiredOrders(o) ==
    /\ order[o] \in {"pending_payment", "paid"}
    /\ order' = [order EXCEPT ![o] = "timed_out"]
    /\ UNCHANGED <<total, budget, ledger, link, orderKey, idem, attempt>>

\* The status that was checked may have changed since.
updatePromoCampaign(c, b) ==
    /\ total' = [total EXCEPT ![c] = b]
    /\ UNCHANGED <<budget, ledger, orders, idem, attempt>>

-----------------------------------------------------------------------------
(* Specification                                                           *)

Init ==
    /\ total \in {t \in [Campaign -> UNION {Budget[c] : c \in Campaign}] :
                   \A c \in Campaign : t[c] \in Budget[c]}
    /\ reserved = [c \in Campaign |-> 0] /\ redeemed = [c \in Campaign |-> 0]
    /\ reserve = [r \in Row |-> "none"] /\ redeem = {} /\ release = {}
    /\ promo = [r \in Row |-> "none"] /\ link = [r \in Row |-> "none"]
    /\ order = [o \in Order |-> "none"] /\ orderKey = [o \in Order |-> "none"]
    /\ idem = [k \in Key |-> "none"] /\ attempt = [a \in Attempt |-> Idle]

Next ==
    \/ \E a \in Attempt :
          \/ \E k \in Key : acquireInserts(a, k) \/ acquireReads(a, k)
          \/ acquireTakesOver(a) \/ quotes(a) \/ reservationChecks(a)
          \/ reservationCommits(a) \/ undoes(a) \/ answers(a)
          \/ creationFails(a) \/ undone(a) \/ processStops(a)
          \/ \E o \in Order : orderCommits(a, o)
    \/ \E k \in Key : lockLapses(k)
    \/ \E k \in DirectKey : \E c \in Named(k) :
          \/ reserveCustomerPromo(c, k) \/ redeemCustomerPromo(c, k)
          \/ releaseCustomerPromoReservation(c, k)
    \/ \E c \in Campaign : \E b \in Budget[c] : updatePromoCampaign(c, b)
    \/ \E o \in Order : \/ paymentSucceeds(o) \/ paymentFails(o)
                        \/ cancelCustomerOrder(o) \/ forceCancelOrder(o)
                        \/ CancelExpiredOrders(o)

Spec == Init /\ [][Next]_vars

-----------------------------------------------------------------------------
(* Properties                                                              *)

TypeOK ==
    /\ total \in [Campaign -> Nat]
    /\ reserved \in [Campaign -> Nat] /\ redeemed \in [Campaign -> Nat]
    /\ reserve \in [Row -> {"none", "active", "released", "redeemed"}]
    /\ redeem \subseteq Row /\ release \subseteq Row
    /\ promo \in [Row -> {"none", "reserved", "redeemed", "released"}]
    /\ link \in [Row -> Order \cup {"none"}]
    /\ order \in [Order -> {"none", "pending_payment", "paid", "payment_failed",
                            "cancelled", "force_cancelled", "timed_out"}]
    /\ orderKey \in [Order -> Key \cup {"none"}]
    /\ idem \in [Key -> {"none", "processing", "lapsed", "failed", "completed"}]
    /\ attempt \in [Attempt ->
          [pc : {"idle", "takeover", "quote", "reserve", "take", "undo", "answer"},
           key : Key \cup {"none"}, done : Nat, undone : Nat]]

\* The two counters of a campaign are what its ledger adds up to, through
\* replays, concurrent requests of one key, releases that meet a payment and
\* notices that come twice (the rowCount tests of validatePromoForCheckout and
\* reverseRedeemedPromosForOrders, the status tests everywhere else).
CountersReconcile ==
    \A c \in Campaign :
        /\ reserved[c] = Sum(c, {r \in Row : reserve[r] = "active"})
        /\ redeemed[c] = Sum(c, redeem) - Sum(c, release)

\* However requests interleave with each other and with the administrator, no
\* step commits budget that a campaign does not have (the second look at the
\* budget under FOR UPDATE in validatePromoForCheckout).
NeverOverspends ==
    [][\A c \in Campaign : reserved'[c] + redeemed'[c] > reserved[c] + redeemed[c]
                           => reserved'[c] + redeemed'[c] <= total[c]]_vars

\* A redemption made for an order and its ledger entries tell the same story
\* (every transaction that moves one moves the other).
LedgerAgrees ==
    \A r \in Row : r[2] \in Key =>
        /\ promo[r] = "reserved" <=> reserve[r] = "active"
        /\ promo[r] = "redeemed" <=> r \in redeem \ release

\* A discount that a paid order was given is not still only reserved, and an
\* order that its customer cancelled or whose payment failed holds no budget, in
\* whichever order payment, its failure, the cancellation and a second creation
\* with the same key arrive (cancelCustomerOrder, handleMidtransWebhook).
PromosFollowOrder ==
    \A o \in Order, r \in Row : link[r] = o /\ OfWorth(r) =>
        /\ order[o] = "paid" => promo[r] # "reserved"
        /\ order[o] \in {"cancelled", "payment_failed"} => promo[r] = "released"

\* Budget is spent on a creation's promotion only if its order is paid, or was
\* ended by an administrator or the payment timeout, which give nothing back;
\* it comes back when the customer cancels, however often the creation was
\* retried (redeemReservedPromosForPaidOrder, reverseRedeemedPromosForOrders).
SpentForPaidOrder ==
    \A r \in Row : promo[r] = "redeemed" /\ r[2] \in Key =>
        link[r] # "none" /\ order[link[r]] \in {"paid", "force_cancelled", "timed_out"}
=============================================================================
