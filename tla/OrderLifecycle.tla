--------------------------- MODULE OrderLifecycle ---------------------------
(***************************************************************************)
(* An order whose status changes only through ValidateOrderTransition, by  *)
(* any actor, whatever its service category: the lifecycle the transition  *)
(* boundary (TransitionOrder) enforces.  OrderDispatch adds the writers    *)
(* that go around the boundary.                                            *)
(***************************************************************************)
EXTENDS OrderStateMachine

VARIABLES
    status,     \* orders.status
    category    \* orders.service_category, fixed when the order is created

vars == <<status, category>>

(* The statuses CreateOrder writes: unpaid, or payments switched off. *)
InitialStatus == {"pending_payment", "pending_assignment"}

Init ==
    /\ status \in InitialStatus
    /\ category \in ServiceCategory

Transition(actor, target) ==
    /\ target # status
    /\ ValidateOrderTransition(status, target, actor, category)
    /\ status' = target
    /\ UNCHANGED category

Next == \E actor \in OrderActor, target \in OrderStatus : Transition(actor, target)

Spec == Init /\ [][Next]_vars

-----------------------------------------------------------------------------

PhaseOf(s) ==
    CASE s \in CarriedStatus -> "carried"
      [] s \in {"failed_delivery", "return_to_sender"} -> "stalled"
      [] s \in {"delivered", "cancelled"} -> s
      [] OTHER -> "booking"

(* Every status and category is one of the declared ones. *)
TypeOK == status \in OrderStatus /\ category \in ServiceCategory

Custody == INSTANCE OrderCustody WITH phase <- PhaseOf(status)

(***************************************************************************)
(* allowedOrderTransitions and the actor policy keep the promise of        *)
(* OrderCustody: no sequence of edges, by any mix of actors, calls off or  *)
(* re-offers goods that are being carried, or leaves a final status.       *)
(***************************************************************************)
ImplementsCustody == Custody!Spec

=============================================================================
