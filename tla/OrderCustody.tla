---------------------------- MODULE OrderCustody ----------------------------
(***************************************************************************)
(* What the lifecycle of an order promises about the goods, abstracted     *)
(* from its twenty-three statuses to where the goods are:                  *)
(*   "booking"    still with the sender or the merchant                    *)
(*   "carried"    picked up and moving towards the recipient               *)
(*   "stalled"    picked up, but the delivery failed or is being returned  *)
(*   "delivered"  handed to the recipient, for good                        *)
(*   "cancelled"  called off, for good                                     *)
(* An order whose goods are moving can be neither called off nor offered   *)
(* to another courier: it must be delivered, or fail, first.               *)
(***************************************************************************)
VARIABLE phase

Phase == {"booking", "carried", "stalled", "delivered", "cancelled"}

Init == phase = "booking"

PickUp == phase = "booking" /\ phase' = "carried"

Deliver == phase = "carried" /\ phase' = "delivered"

Fail == phase = "carried" /\ phase' = "stalled"

Rebook == phase = "stalled" /\ phase' = "booking"

Cancel == phase \in {"booking", "stalled"} /\ phase' = "cancelled"

Next == PickUp \/ Deliver \/ Fail \/ Rebook \/ Cancel

Spec == Init /\ [][Next]_phase

=============================================================================
