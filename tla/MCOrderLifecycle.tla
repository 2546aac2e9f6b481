-------------------------- MODULE MCOrderLifecycle --------------------------
(* All actors, all categories and all statuses: the instance is exact.     *)
EXTENDS OrderLifecycle

(* A final order has no edge left, so the run states where it may stop. *)
Finished == IsTerminalOrderStatus(status) /\ UNCHANGED vars

MCSpec == Init /\ [][Next \/ Finished]_vars
=============================================================================
