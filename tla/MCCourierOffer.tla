--------------------------- MODULE MCCourierOffer ---------------------------
(* Small instances of CourierOffer for TLC. *)
EXTENDS CourierOffer, TLC

CONSTANTS o1, o2, c1, c2, p1, p2

\* Two orders of two customers.
MCCustomer == o1 :> "ann" @@ o2 :> "bob"
CourierSymmetry == Permutations({c1, c2})
Symmetry == CourierSymmetry \cup Permutations({p1, p2})
=============================================================================
