----------------------- MODULE OrderLifecycle_proofs -----------------------
(* Proofs about OrderLifecycle: type correctness, and that the lifecycle   *)
(* table and the actor policy implement OrderCustody.                      *)
EXTENDS OrderLifecycle, TLAPS

(***************************************************************************)
(* The lifecycle table leads from a status only to declared statuses, and  *)
(* from a final status nowhere.                                            *)
(***************************************************************************)
LEMMA TableType ==
    ASSUME NEW s \in OrderStatus
    PROVE  /\ allowedOrderTransitions[s] \subseteq OrderStatus
           /\ IsTerminalOrderStatus(s) => allowedOrderTransitions[s] = {}
BY DEF allowedOrderTransitions, OrderStatus, IsTerminalOrderStatus

(***************************************************************************)
(* Every edge of the lifecycle table is a move of OrderCustody, or leaves  *)
(* the goods where they are.                                               *)
(***************************************************************************)
LEMMA EdgeKeepsCustody ==
    ASSUME NEW s \in OrderStatus, NEW t \in allowedOrderTransitions[s]
    PROVE  \/ PhaseOf(t) = PhaseOf(s)
           \/ PhaseOf(s) = "booking" /\ PhaseOf(t) \in {"carried", "cancelled"}
           \/ PhaseOf(s) = "carried" /\ PhaseOf(t) \in {"delivered", "stalled"}
           \/ PhaseOf(s) = "stalled" /\ PhaseOf(t) \in {"booking", "cancelled"}
BY DEF allowedOrderTransitions, OrderStatus, PhaseOf, CarriedStatus

(***************************************************************************)
(* What the boundary applies is an edge of the lifecycle table.            *)
(***************************************************************************)
LEMMA TransitionIsEdge ==
    ASSUME NEW actor, NEW target, Transition(actor, target)
    PROVE  target \in allowedOrderTransitions[status]
BY DEF Transition, ValidateOrderTransition

(***************************************************************************)
(* An order created by CreateOrder and moved only through the boundary     *)
(* always has a declared status, and keeps its service category.           *)
(***************************************************************************)
THEOREM TypeCorrect == Spec => []TypeOK
<1>1. Init => TypeOK
  BY DEF Init, InitialStatus, TypeOK, OrderStatus
<1>2. TypeOK /\ [Next]_vars => TypeOK'
  <2>1. CASE UNCHANGED vars
    BY <2>1 DEF TypeOK, vars
  <2>2. ASSUME TypeOK, NEW actor \in OrderActor, NEW target \in OrderStatus,
               Transition(actor, target)
        PROVE  TypeOK'
    BY <2>2 DEF TypeOK, Transition
  <2>3. QED
    BY <2>1, <2>2 DEF Next
<1>3. QED
  BY <1>1, <1>2, PTL DEF Spec

(***************************************************************************)
(* The boundary implements the promise about the goods: no sequence of     *)
(* edges, by any mix of actors and for any service category, calls off or  *)
(* re-offers goods that are being carried, or leaves a final status.       *)
(***************************************************************************)
THEOREM CustodyImplemented == Spec => ImplementsCustody
<1>1. Init => Custody!Init
  BY DEF Init, InitialStatus, Custody!Init, PhaseOf, CarriedStatus
<1>2. TypeOK /\ [Next]_vars => [Custody!Next]_(PhaseOf(status))
  <2>1. CASE UNCHANGED vars
    BY <2>1 DEF vars
  <2>2. ASSUME TypeOK, NEW actor \in OrderActor, NEW target \in OrderStatus,
               Transition(actor, target)
        PROVE  [Custody!Next]_(PhaseOf(status))
    <3>1. status' = target /\ status \in OrderStatus
      BY <2>2 DEF Transition, TypeOK
    <3>2. PhaseOf(status)' = PhaseOf(target)
      BY <3>1 DEF PhaseOf
    <3>3. \/ PhaseOf(target) = PhaseOf(status)
          \/ PhaseOf(status) = "booking" /\ PhaseOf(target) \in {"carried", "cancelled"}
          \/ PhaseOf(status) = "carried" /\ PhaseOf(target) \in {"delivered", "stalled"}
          \/ PhaseOf(status) = "stalled" /\ PhaseOf(target) \in {"booking", "cancelled"}
      BY <2>2, <3>1, TransitionIsEdge, EdgeKeepsCustody
    <3>4. QED
      BY <3>2, <3>3 DEF Custody!Next, Custody!PickUp, Custody!Deliver, Custody!Fail,
                        Custody!Rebook, Custody!Cancel
  <2>3. QED
    BY <2>1, <2>2 DEF Next
<1>3. QED
  BY <1>1, <1>2, TypeCorrect, PTL DEF Spec, ImplementsCustody, Custody!Spec

=============================================================================
