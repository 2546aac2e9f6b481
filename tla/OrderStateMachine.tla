------------------------- MODULE OrderStateMachine -------------------------
(***************************************************************************)
(* The lifecycle table of an order and the policy of who may drive it:     *)
(* order-service/internal/domain/order_state_machine.go.  Constant level:  *)
(* the modules that hold an order's row EXTEND this one.                   *)
(***************************************************************************)

OrderStatus ==
    { "pending_payment", "pending_merchant", "scheduled", "preparing", "pending",
      "pending_assignment", "ready_for_pickup", "searching", "assigned", "accepted",
      "pickup_arrived", "picking_up", "picked_up", "inbound_origin", "outbound_origin",
      "inbound_destination", "outbound_destination", "delivering", "delivered",
      "failed_delivery", "return_to_sender", "cancelled", "no_courier_found" }

OrderActor == {"platform", "admin", "courier", "merchant", "customer", "carrier"}

ServiceCategory == {"package_on_demand", "food", "tambal_ban", "aggregator", "towing"}

IsTerminalOrderStatus(s) == s \in {"delivered", "cancelled"}

(***************************************************************************)
(* The edges, by the status they leave.  No edge leaves a terminal status. *)
(***************************************************************************)
allowedOrderTransitions == [s \in OrderStatus |->
    CASE s = "pending_payment" ->
            {"pending_assignment", "pending_merchant", "scheduled", "ready_for_pickup", "cancelled"}
      [] s = "scheduled" -> {"pending_merchant", "cancelled"}
      [] s = "pending_merchant" -> {"preparing", "cancelled"}
      [] s = "preparing" -> {"searching", "cancelled"}
      [] s = "pending" -> {"pending_assignment", "searching", "ready_for_pickup", "cancelled"}
      [] s = "pending_assignment" -> {"searching", "ready_for_pickup", "cancelled"}
      [] s = "ready_for_pickup" -> {"picked_up", "searching", "cancelled"}
      [] s = "searching" -> {"assigned", "accepted", "no_courier_found", "cancelled"}
      [] s = "no_courier_found" -> {"searching", "cancelled"}
      [] s = "assigned" -> {"accepted", "searching", "cancelled"}
      [] s = "accepted" -> {"pickup_arrived", "picked_up", "searching", "cancelled"}
      [] s = "pickup_arrived" -> {"picking_up", "picked_up", "cancelled"}
      [] s = "picking_up" -> {"picked_up", "cancelled"}
      [] s = "picked_up" -> {"inbound_origin", "delivering", "failed_delivery"}
      [] s = "inbound_origin" -> {"outbound_origin", "failed_delivery"}
      [] s = "outbound_origin" -> {"inbound_destination", "failed_delivery"}
      [] s = "inbound_destination" -> {"outbound_destination", "failed_delivery"}
      [] s = "outbound_destination" -> {"delivering", "failed_delivery"}
      [] s = "delivering" -> {"delivered", "failed_delivery", "return_to_sender"}
      [] s = "failed_delivery" -> {"searching", "assigned", "return_to_sender", "cancelled"}
      [] s = "return_to_sender" -> {"cancelled"}
      [] OTHER -> {}]

courierTransitions ==
    { "accepted", "pickup_arrived", "picking_up", "picked_up", "inbound_origin",
      "outbound_origin", "inbound_destination", "outbound_destination", "delivering",
      "delivered", "failed_delivery", "return_to_sender" }

merchantTransitions == {"preparing", "cancelled"}

customerTransitions == {"cancelled"}

carrierTransitions ==
    { "ready_for_pickup", "picked_up", "delivering", "delivered", "failed_delivery",
      "return_to_sender", "cancelled" }

actorMayTransition(actor, target, category) ==
    \/ actor \in {"platform", "admin"}
    \/ actor = "courier" /\ target \in courierTransitions
    \/ actor = "merchant" /\ category = "food" /\ target \in merchantTransitions
    \/ actor = "customer" /\ target \in customerTransitions
    \/ actor = "carrier" /\ category = "aggregator" /\ target \in carrierTransitions

(* Fault: an order that is not final can always be called off. *)
ValidateOrderTransitionCancelAnytime(current, target, actor, category) ==
    \/ current = target
    \/ /\ ~IsTerminalOrderStatus(current)
       /\ target \in allowedOrderTransitions[current] \cup {"cancelled"}
       /\ actorMayTransition(actor, target, category)

(* TRUE where the Go function returns nil. *)
ValidateOrderTransition(current, target, actor, category) ==
    \/ current = target
    \/ /\ ~IsTerminalOrderStatus(current)
       /\ target \in allowedOrderTransitions[current]
       /\ actorMayTransition(actor, target, category)

(* Statuses in which a courier or a hub holds the goods and moves them. *)
CarriedStatus ==
    { "picked_up", "inbound_origin", "outbound_origin", "inbound_destination",
      "outbound_destination", "delivering" }

=============================================================================
