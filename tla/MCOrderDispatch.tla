-------------------------- MODULE MCOrderDispatch --------------------------
(* The actors of the instances; each .cfg chooses the sets they form.      *)
EXTENDS OrderDispatch, TLC

CONSTANTS c1, c2, cust, adm, d1, d2, s1, s2

(* Couriers and starters are interchangeable: no definition tells them apart. *)
Interchangeable == Permutations(Couriers) \cup Permutations(Starters)
=============================================================================
