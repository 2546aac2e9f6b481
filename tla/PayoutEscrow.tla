---------------------------- MODULE PayoutEscrow ----------------------------
(***************************************************************************)
(* What the payout subsystem promises about a courier's money: the amount  *)
(* of a request is held against what the courier has earned, is given back *)
(* at most once, and is paid out at most once and never before it was      *)
(* held.  Risk rules, reviews, dispatchers, the poll and the webhook do    *)
(* not appear: CourierPayout is the system that keeps this promise.        *)
(***************************************************************************)
EXTENDS Integers

CONSTANTS
    Courier, Key, Owner, Amount, Earned,
    Sum(_)   \* the amounts of a set of requests together

VARIABLES
    money,   \* of a request: free, then held, then returned to the courier
    paid     \* transfers of a request's amount that the provider has paid

vars == <<money, paid>>

Holding(c) == {k \in Key : Owner[k] = c /\ money[k] = "held"}

Init ==
    /\ money = [k \in Key |-> "free"]
    /\ paid = [k \in Key |-> 0]

\* A request is granted; one that is refused at once gets its money back in
\* the same transaction.
Grants(k) ==
    /\ money[k] = "free"
    /\ Sum(Holding(Owner[k])) + Amount[k] <= Earned[Owner[k]]
    /\ \E s \in {"held", "returned"} : money' = [money EXCEPT ![k] = s]
    /\ UNCHANGED paid

\* The requests of a batch or of a poll return their money together.
Returns(S) ==
    /\ \A k \in S : money[k] = "held"
    /\ money' = [k \in Key |-> IF k \in S THEN "returned" ELSE money[k]]
    /\ UNCHANGED paid

Pays(k) ==
    /\ money[k] # "free" /\ paid[k] = 0
    /\ paid' = [paid EXCEPT ![k] = 1]
    /\ UNCHANGED money

Next ==
    \/ \E k \in Key : Grants(k) \/ Pays(k)
    \/ \E S \in SUBSET Key : Returns(S)

Spec == Init /\ [][Next]_vars

\* A courier's open requests never hold more than the courier has earned.
Solvent == \A c \in Courier : Sum(Holding(c)) <= Earned[c]
=============================================================================
