--------------------------- MODULE MCPromoCheckout ---------------------------
(* Small instances of PromoCheckout for TLC. *)
EXTENDS PromoCheckout, TLC

CONSTANTS m, z, k1, d1, a1, a2, o1, o2

\* One customer's checkout names both campaigns; another uses the app's calls.
MCCodes == k1 :> <<z, m>> @@ d1 :> <<m>>
MCCustomer == k1 :> "ann" @@ d1 :> "bob"
MCBudget == m :> {1, 2} @@ z :> {1}
MCDiscount == m :> 1 @@ z :> 0
Symmetry == Permutations({a1, a2}) \cup Permutations({o1, o2})
=============================================================================
