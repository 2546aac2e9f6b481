--------------------------- MODULE RefundPromise ---------------------------
(***************************************************************************)
(* What the refund of an order promises its customer: money is owed while  *)
(* the order is paid and either called off or granted a refund by an       *)
(* admin, one refund of it is granted, and the wallet is given that amount *)
(* once, for good.  The refund may be shown as made only then.  Locks,     *)
(* replicas, batches and crashes do not appear: OrderRefund is the system  *)
(* that keeps the promise.                                                 *)
(***************************************************************************)
EXTENDS Integers

CONSTANT Price

VARIABLES
    owed,     \* the order is paid, and called off or an admin asks
    granted,  \* the amount of its refund, or 0
    given,    \* what the customer's wallet has received
    shown     \* the refund is shown as made

vars == <<owed, granted, given, shown>>

Init == ~owed /\ granted = 0 /\ given = 0 /\ ~shown

\* An admin's request may come to nothing.
Owe == owed' = ~owed /\ UNCHANGED <<granted, given, shown>>

Grant == owed /\ granted = 0 /\ granted' \in 1 .. Price /\ UNCHANGED <<owed, given, shown>>

Give == granted > 0 /\ given = 0 /\ given' = granted /\ UNCHANGED <<owed, granted, shown>>

Show == ~shown /\ given > 0 /\ shown' /\ UNCHANGED <<owed, granted, given>>

\* A second batch may take back what is shown, but not what was given.
Hide == shown /\ ~shown' /\ UNCHANGED <<owed, granted, given>>

Next == Owe \/ Grant \/ Give \/ Show \/ Hide

Spec == Init /\ [][Next]_vars

=============================================================================
