-------------------------- MODULE MCCourierPayout --------------------------
(* One courier, two requests, the worker of an instance and an admin's run. *)
EXTENDS CourierPayout, TLC

CONSTANTS rina, k1, k2, wk, ep

TheOwner  == [k \in Key |-> rina]
TheAmount == [k \in Key |-> 2]
TheEarned == [c \in Courier |-> 3]

\* Both keys ask for the same amount.
KeySymmetry == Permutations({k1, k2})
=============================================================================
