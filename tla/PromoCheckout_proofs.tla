------------------------ MODULE PromoCheckout_proofs ------------------------
(***************************************************************************)
(* Proofs about PromoCheckout, for any campaigns, budgets, orders, keys    *)
(* and stacks of codes, any limit of a customer and any number of requests *)
(* in progress.                                                            *)
(*                                                                         *)
(* The counters of a campaign are sums over the rows of its ledger.  They  *)
(* stay so because every transaction that moves a row moves it once: the   *)
(* rows made for orders tell in all their columns the same story (RowInv). *)
(***************************************************************************)
EXTENDS PromoCheckout, FiniteSetTheorems, TLAPS

LedgerType ==
    /\ reserved \in [Campaign -> Nat] /\ redeemed \in [Campaign -> Nat]
    /\ reserve \in [Row -> {"none", "active", "released", "redeemed"}]
    /\ redeem \subseteq Row /\ release \subseteq Row
    /\ promo \in [Row -> {"none", "reserved", "redeemed", "released"}]

\* The columns of a row.
RowInv(r) ==
    /\ r \in release => r \in redeem /\ r[2] \in Key
    /\ r[2] \in Key =>
         /\ promo[r] = "reserved" <=> reserve[r] = "active"
         /\ promo[r] = "redeemed" <=> r \in redeem \ release
         /\ promo[r] = "none" <=> reserve[r] = "none"
         /\ r \in redeem => promo[r] \in {"redeemed", "released"}

LedgerInv == LedgerType /\ (\A r \in Row : RowInv(r)) /\ CountersReconcile

\* Orders are linked to rows of order creations only.
Linked == \A r \in Row : link[r] # "none" => r[2] \in Key

\* What the transactions outside an order's payment and end may do to a
\* redemption.
PromoMoves ==
    \A r \in Row : \/ promo'[r] = promo[r]
                   \/ promo[r] = "none" /\ promo'[r] = "reserved"
                   \/ r[2] \notin Key
                   \/ promo[r] = "reserved" /\ promo'[r] = "released"

\* No campaign commits more than it has.
Affordable ==
    \A c \in Campaign : reserved'[c] + redeemed'[c] > reserved[c] + redeemed[c]
                        => reserved'[c] + redeemed'[c] <= total[c]

Active == {r \in Row : reserve[r] = "active"}

-----------------------------------------------------------------------------
(* Sums                                                                    *)

\* There are finitely many rows.
LEMMA RowFinite == IsFiniteSet(Row) /\ \A r \in Row : r[1] \in Campaign
<1>1. IsFiniteSet(Campaign \X (Key \cup DirectKey))
  BY PromoAssumption, FS_Product
<1>2. Row \subseteq Campaign \X (Key \cup DirectKey)
  BY DEF Row
<1>3. QED
  BY <1>1, <1>2, FS_Subset

\* A sum is a natural number.
LEMMA SumType ==
    ASSUME NEW c \in Campaign, NEW R \in SUBSET Row
    PROVE  Sum(c, R) \in Nat
<1> DEFINE A == {r \in R : r[1] = c}
<1>1. IsFiniteSet(A)
  BY RowFinite, FS_Subset
<1>2. Cardinality(A) \in Nat /\ Discount[c] \in Nat
  BY <1>1, FS_CardinalityType, PromoAssumption
<1> HIDE DEF A
<1>3. Discount[c] * Cardinality(A) \in Nat
  BY <1>2
<1>4. QED
  BY <1>3 DEF Sum, A

\* The sum of two sets without a common row.
LEMMA SumUnion ==
    ASSUME NEW c \in Campaign, NEW R \in SUBSET Row, NEW S \in SUBSET Row, R \cap S = {}
    PROVE  Sum(c, R \cup S) = Sum(c, R) + Sum(c, S)
<1> DEFINE A == {r \in R : r[1] = c}
           B == {r \in S : r[1] = c}
           U == {r \in R \cup S : r[1] = c}
<1>1. IsFiniteSet(A) /\ IsFiniteSet(B) /\ A \cap B = {} /\ U = A \cup B
  BY RowFinite, FS_Subset
<1> HIDE DEF A, B, U
<1>2. Cardinality(U) = Cardinality(A) + Cardinality(B)
  <2>1. Cardinality(A \cap B) = 0
    BY <1>1, FS_EmptySet
  <2>2. Cardinality(A \cup B) = Cardinality(A) + Cardinality(B) - Cardinality(A \cap B)
    BY <1>1, FS_Union
  <2>3. Cardinality(A) \in Nat /\ Cardinality(B) \in Nat
    BY <1>1, FS_CardinalityType
  <2>4. QED
    BY <1>1, <2>1, <2>2, <2>3
<1>3. Cardinality(A) \in Nat /\ Cardinality(B) \in Nat /\ Discount[c] \in Nat
  BY <1>1, FS_CardinalityType, PromoAssumption
<1>4. \A d, x, y \in Nat : d * (x + y) = d * x + d * y
  OBVIOUS
<1>5. Discount[c] * Cardinality(U) = Discount[c] * Cardinality(A) + Discount[c] * Cardinality(B)
  BY <1>2, <1>3, <1>4
<1>6. QED
  BY <1>5 DEF Sum, A, B, U

\* The sum of what is left when rows are taken out.
LEMMA SumMinus ==
    ASSUME NEW c \in Campaign, NEW R \in SUBSET Row, NEW S \in SUBSET R
    PROVE  /\ Sum(c, R \ S) = Sum(c, R) - Sum(c, S) /\ Sum(c, S) <= Sum(c, R)
           /\ Sum(c, S) \in Nat /\ Sum(c, R) \in Nat
<1>1. (R \ S) \cup S = R /\ (R \ S) \cap S = {} /\ R \ S \in SUBSET Row /\ S \in SUBSET Row
  OBVIOUS
<1>2. Sum(c, R) = Sum(c, R \ S) + Sum(c, S)
  BY <1>1, SumUnion
<1>3. Sum(c, R) \in Nat /\ Sum(c, R \ S) \in Nat /\ Sum(c, S) \in Nat
  BY <1>1, SumType
<1>4. QED
  BY <1>2, <1>3

\* The sum of one row.
LEMMA SumOne ==
    ASSUME NEW c \in Campaign, NEW r \in Row
    PROVE  Sum(c, {r}) = IF c = r[1] THEN Discount[c] ELSE 0
<1>1. CASE c = r[1]
  <2>1. {x \in {r} : x[1] = c} = {r}
    BY <1>1
  <2>2. Cardinality({r}) = 1
    BY FS_Singleton, Zenon
  <2>3. Discount[c] \in Nat
    BY PromoAssumption
  <2>4. QED
    BY <1>1, <2>1, <2>2, <2>3 DEF Sum
<1>2. CASE c # r[1]
  <2>1. {x \in {r} : x[1] = c} = {}
    BY <1>2
  <2>2. Cardinality({}) = 0
    BY FS_EmptySet, Zenon
  <2>3. Discount[c] \in Nat
    BY PromoAssumption
  <2>4. QED
    BY <1>2, <2>1, <2>2, <2>3 DEF Sum
<1>3. QED
  BY <1>1, <1>2

\* The counters as sums.
LEMMA Counters ==
    ASSUME LedgerInv, NEW c \in Campaign
    PROVE  /\ reserved[c] = Sum(c, Active)
           /\ redeemed[c] = Sum(c, redeem) - Sum(c, release)
           /\ Sum(c, redeem \ release) = redeemed[c]
           /\ Active \in SUBSET Row /\ redeem \in SUBSET Row /\ release \in SUBSET redeem
           /\ Sum(c, redeem) \in Nat /\ Sum(c, release) \in Nat
           /\ reserved[c] \in Nat /\ redeemed[c] \in Nat /\ Discount[c] \in Nat
<1>1. /\ reserved[c] = Sum(c, Active)
      /\ redeemed[c] = Sum(c, redeem) - Sum(c, release)
  BY DEF LedgerInv, CountersReconcile, Active
<1>2. Active \in SUBSET Row /\ redeem \in SUBSET Row /\ release \in SUBSET redeem
  BY DEF LedgerInv, LedgerType, RowInv, Active
<1>3. Sum(c, redeem \ release) = redeemed[c] /\ Sum(c, redeem) \in Nat /\ Sum(c, release) \in Nat
  BY <1>1, <1>2, SumMinus
<1>4. reserved[c] \in Nat /\ redeemed[c] \in Nat /\ Discount[c] \in Nat
  BY PromoAssumption DEF LedgerInv, LedgerType
<1>5. QED
  BY <1>1, <1>2, <1>3, <1>4

-----------------------------------------------------------------------------
(* The transactions                                                        *)

\* A step that leaves the ledger alone.
LEMMA LedgerUnmoved ==
    ASSUME LedgerInv, UNCHANGED <<budget, ledger>>
    PROVE  LedgerInv' /\ PromoMoves /\ Affordable
<1>1. /\ reserved' = reserved /\ redeemed' = redeemed /\ reserve' = reserve
      /\ redeem' = redeem /\ release' = release /\ promo' = promo
  BY DEF budget, ledger
<1>2. LedgerType' /\ \A r \in Row : RowInv(r)'
  BY <1>1 DEF LedgerInv, LedgerType, RowInv
<1>3. CountersReconcile'
  BY <1>1 DEF LedgerInv, CountersReconcile
<1>4. \A c \in Campaign : reserved[c] + redeemed[c] \in Nat
  BY DEF LedgerInv, LedgerType
<1>5. PromoMoves /\ Affordable
  BY <1>1, <1>4 DEF PromoMoves, Affordable
<1>6. QED
  BY <1>2, <1>3, <1>5 DEF LedgerInv

\* A reservation that found room, or its entry.
LEMMA Reserving ==
    ASSUME LedgerInv, total \in [Campaign -> Nat], NEW r \in Row, Reserves(r),
           RoomUnderLock(r[1], reserve[r] # "none")
    PROVE  LedgerInv' /\ PromoMoves /\ Affordable
<1>0. /\ LedgerType /\ r[1] \in Campaign
      /\ \A c \in Campaign : reserved[c] \in Nat /\ redeemed[c] \in Nat /\ Discount[c] \in Nat
  BY RowFinite, Counters DEF LedgerInv
<1>1. /\ \A x \in Row : reserve'[x] = IF x = r /\ reserve[r] = "none" THEN "active" ELSE reserve[x]
      /\ \A x \in Row : promo'[x] = IF x = r /\ promo[r] = "none" THEN "reserved" ELSE promo[x]
      /\ \A c \in Campaign : reserved'[c] = reserved[c] +
            IF c = r[1] /\ reserve[r] = "none" THEN Discount[c] ELSE 0
      /\ redeemed' = redeemed /\ redeem' = redeem /\ release' = release
  BY <1>0 DEF Reserves, EntryIsNew, LedgerType
<1>2. LedgerType'
  BY <1>0, <1>1 DEF Reserves, LedgerType
<1>3. \A x \in Row : RowInv(x)'
  BY <1>1 DEF LedgerInv, RowInv
<1>4. CountersReconcile'
  <2> SUFFICES ASSUME NEW c \in Campaign
               PROVE  reserved'[c] = Sum(c, Active') /\ redeemed'[c] = Sum(c, redeem') - Sum(c, release')
    BY DEF CountersReconcile, Active, Sum
  <2>1. redeemed'[c] = Sum(c, redeem') - Sum(c, release')
    BY <1>1, Counters
  <2>2. CASE reserve[r] = "none"
    <3>1. Active' = Active \cup {r} /\ Active \cap {r} = {} /\ Active \in SUBSET Row
             /\ {r} \in SUBSET Row
      BY <1>1, <2>2 DEF Active
    <3>2. Sum(c, Active') = Sum(c, Active) + Sum(c, {r})
      BY <3>1, SumUnion
    <3>3. reserved[c] = Sum(c, Active)
      BY Counters
    <3>4. QED
      BY <1>1, <2>1, <2>2, <3>2, <3>3, SumOne
  <2>3. CASE reserve[r] # "none"
    <3>1. Active' = Active
      BY <1>1, <2>3 DEF Active
    <3>2. reserved'[c] = reserved[c]
      BY <1>0, <1>1, <2>3
    <3>3. QED
      BY <2>1, <3>1, <3>2, Counters
  <2>4. QED
    BY <2>2, <2>3
<1>5. PromoMoves
  BY <1>1 DEF PromoMoves
<1>6. Affordable
  BY <1>0, <1>1 DEF Affordable, RoomUnderLock, Available
<1>7. QED
  BY <1>2, <1>3, <1>4, <1>5, <1>6 DEF LedgerInv

\* A redemption by the app's own call.
LEMMA Redeeming ==
    ASSUME LedgerInv, total \in [Campaign -> Nat], NEW r \in Row, r[2] \notin Key, Redeems(r),
           RoomUnderLock(r[1], r \in redeem)
    PROVE  LedgerInv' /\ PromoMoves /\ Affordable
<1>0. /\ LedgerType /\ r[1] \in Campaign
      /\ \A c \in Campaign : reserved[c] \in Nat /\ redeemed[c] \in Nat /\ Discount[c] \in Nat
  BY RowFinite, Counters DEF LedgerInv
<1>1. /\ \A x \in Row : promo'[x] = IF x = r THEN "redeemed" ELSE promo[x]
      /\ \A c \in Campaign : redeemed'[c] = redeemed[c] +
            IF c = r[1] /\ r \notin redeem THEN Discount[c] ELSE 0
      /\ reserved' = reserved /\ reserve' = reserve /\ release' = release
      /\ redeem' = redeem \cup {r}
  BY <1>0 DEF Redeems, LedgerType
<1>2. LedgerType'
  BY <1>0, <1>1 DEF Redeems, LedgerType
<1>3. \A x \in Row : RowInv(x)'
  BY <1>1 DEF LedgerInv, RowInv
<1>4. CountersReconcile'
  <2> SUFFICES ASSUME NEW c \in Campaign
               PROVE  reserved'[c] = Sum(c, Active') /\ redeemed'[c] = Sum(c, redeem') - Sum(c, release')
    BY DEF CountersReconcile, Active, Sum
  <2>1. Active' = Active
    BY <1>1 DEF Active
  <2>2. reserved'[c] = Sum(c, Active')
    BY <1>1, <2>1, Counters
  <2>3. /\ redeemed[c] = Sum(c, redeem) - Sum(c, release)
        /\ Sum(c, redeem) \in Nat /\ Sum(c, release) \in Nat
        /\ redeem \in SUBSET Row /\ {r} \in SUBSET Row
    BY Counters
  <2>4. CASE r \in redeem
    <3>1. redeem' = redeem
      BY <1>1, <2>4
    <3>2. redeemed'[c] = redeemed[c]
      BY <1>0, <1>1, <2>4
    <3>3. QED
      BY <1>1, <2>2, <2>3, <3>1, <3>2
  <2>5. CASE r \notin redeem
    <3>1. redeem \cap {r} = {}
      BY <2>5
    <3>2. Sum(c, redeem') = Sum(c, redeem) + Sum(c, {r})
      BY <1>1, <2>3, <3>1, SumUnion
    <3>3. Sum(c, {r}) = IF c = r[1] THEN Discount[c] ELSE 0
      BY SumOne
    <3>4. redeemed'[c] = redeemed[c] + IF c = r[1] THEN Discount[c] ELSE 0
      BY <1>1, <2>5
    <3>5. redeemed'[c] = Sum(c, redeem') - Sum(c, release')
      BY <1>0, <1>1, <2>3, <3>2, <3>3, <3>4
    <3>6. QED
      BY <2>2, <3>5
  <2>6. QED
    BY <2>4, <2>5
<1>5. PromoMoves
  BY <1>1 DEF PromoMoves
<1>6. Affordable
  BY <1>0, <1>1 DEF Affordable, RoomUnderLock, Available
<1>7. QED
  BY <1>2, <1>3, <1>4, <1>5, <1>6 DEF LedgerInv

\* A reservation that is released gives back what it took.
LEMMA Releasing ==
    ASSUME LedgerInv, NEW r \in Row, releasePromoReservation(r)
    PROVE  LedgerInv' /\ PromoMoves /\ Affordable
<1>0. /\ LedgerType /\ r[1] \in Campaign
      /\ \A c \in Campaign : reserved[c] \in Nat /\ redeemed[c] \in Nat /\ Discount[c] \in Nat
  BY RowFinite, Counters DEF LedgerInv
<1>1. CASE reserve[r] # "active"
  <2>1. UNCHANGED <<budget, ledger>>
    BY <1>1 DEF releasePromoReservation
  <2>2. QED
    BY <2>1, LedgerUnmoved
<1>2. CASE reserve[r] = "active"
  <2>1. /\ \A x \in Row : reserve'[x] = IF x = r THEN "released" ELSE reserve[x]
        /\ \A x \in Row : promo'[x] = IF x = r /\ promo[r] = "reserved" THEN "released" ELSE promo[x]
        /\ \A c \in Campaign : reserved'[c] =
              IF c = r[1] THEN Less(reserved[c], Discount[c]) ELSE reserved[c]
        /\ redeemed' = redeemed /\ redeem' = redeem /\ release' = release
    BY <1>0, <1>2 DEF releasePromoReservation, Freed, LedgerType
  <2>2. LedgerType'
    BY <1>0, <1>2, <2>1 DEF releasePromoReservation, Freed, LedgerType, Less
  <2>3. \A x \in Row : RowInv(x)'
    BY <1>2, <2>1 DEF LedgerInv, RowInv
  <2>4. \A c \in Campaign :
           /\ reserved'[c] = Sum(c, Active')
           /\ reserved'[c] <= reserved[c] /\ reserved'[c] \in Nat
    <3> SUFFICES ASSUME NEW c \in Campaign
                 PROVE  /\ reserved'[c] = Sum(c, Active')
                        /\ reserved'[c] <= reserved[c] /\ reserved'[c] \in Nat
      OBVIOUS
    <3>1. Active' = Active \ {r} /\ Active \in SUBSET Row /\ {r} \in SUBSET Active
      BY <1>2, <2>1 DEF Active
    <3>2. /\ Sum(c, Active') = Sum(c, Active) - Sum(c, {r})
          /\ Sum(c, {r}) <= Sum(c, Active)
          /\ Sum(c, {r}) \in Nat /\ Sum(c, Active) \in Nat
      BY <3>1, SumMinus
    <3>3. Sum(c, {r}) = IF c = r[1] THEN Discount[c] ELSE 0
      BY SumOne
    <3>4. reserved[c] = Sum(c, Active)
      BY Counters
    <3>5. QED
      BY <1>0, <2>1, <3>2, <3>3, <3>4 DEF Less
  <2>5. CountersReconcile'
    BY <2>1, <2>4, Counters DEF CountersReconcile, Active, Sum
  <2>6. PromoMoves
    BY <2>1 DEF PromoMoves
  <2>7. Affordable
    BY <1>0, <2>1, <2>4 DEF Affordable
  <2>8. QED
    BY <2>2, <2>3, <2>5, <2>6, <2>7 DEF LedgerInv
<1>3. QED
  BY <1>1, <1>2

\* A payment turns an order's reservations into redemptions and moves as much
\* from the one counter to the other.
LEMMA Paying ==
    ASSUME LedgerInv, Linked, NEW o \in Order, redeemReservedPromosForPaidOrder(o)
    PROVE  /\ LedgerInv' /\ Affordable
           /\ \A r \in Row : promo'[r] = IF link[r] = o /\ promo[r] = "reserved" /\ OfWorth(r)
                                         THEN "redeemed" ELSE promo[r]
<1> DEFINE R == ReservedRows(o)
<1>0. /\ LedgerType /\ o # "none"
      /\ \A c \in Campaign : reserved[c] \in Nat /\ redeemed[c] \in Nat
  BY Counters, PromoAssumption DEF LedgerInv
<1>1. \A r \in R : r \in Row /\ r[2] \in Key /\ reserve[r] = "active" /\ r \notin redeem
  BY <1>0 DEF Rows, ReservedRows, Linked, LedgerInv, RowInv
<1>2. /\ \A x \in Row : promo'[x] = IF x \in R THEN "redeemed" ELSE promo[x]
      /\ \A x \in Row : reserve'[x] = IF x \in R THEN "redeemed" ELSE reserve[x]
      /\ \A c \in Campaign : /\ reserved'[c] = Less(reserved[c], Sum(c, R))
                             /\ redeemed'[c] = redeemed[c] + Sum(c, R)
      /\ redeem' = redeem \cup R /\ release' = release
  BY <1>1 DEF redeemReservedPromosForPaidOrder
<1>3. \A c \in Campaign :
         /\ reserved'[c] = Sum(c, Active') /\ redeemed'[c] = Sum(c, redeem') - Sum(c, release')
         /\ reserved'[c] \in Nat /\ redeemed'[c] \in Nat
         /\ reserved'[c] + redeemed'[c] = reserved[c] + redeemed[c]
  <2> SUFFICES ASSUME NEW c \in Campaign
               PROVE  /\ reserved'[c] = Sum(c, Active')
                      /\ redeemed'[c] = Sum(c, redeem') - Sum(c, release')
                      /\ reserved'[c] \in Nat /\ redeemed'[c] \in Nat
                      /\ reserved'[c] + redeemed'[c] = reserved[c] + redeemed[c]
    OBVIOUS
  <2>1. Active' = Active \ R /\ R \in SUBSET Active /\ Active \in SUBSET Row /\ R \in SUBSET Row
    BY <1>1, <1>2 DEF Active
  <2>2. R \cap redeem = {} /\ redeem \in SUBSET Row
    BY <1>0, <1>1 DEF LedgerType
  <2> HIDE DEF R
  <2>3. /\ Sum(c, Active') = Sum(c, Active) - Sum(c, R) /\ Sum(c, R) <= Sum(c, Active)
        /\ Sum(c, R) \in Nat
    BY <2>1, SumMinus
  <2>4. Sum(c, redeem') = Sum(c, redeem) + Sum(c, R)
    <3>1. redeem \cap R = {}
      BY <2>2
    <3>2. QED
      BY <1>2, <2>1, <2>2, <3>1, SumUnion
  <2>5. /\ reserved[c] = Sum(c, Active) /\ redeemed[c] = Sum(c, redeem) - Sum(c, release)
        /\ Sum(c, redeem) \in Nat /\ Sum(c, release) \in Nat
        /\ reserved[c] \in Nat /\ redeemed[c] \in Nat
    BY Counters
  <2>6. release' = release /\ reserved'[c] = Less(reserved[c], Sum(c, R))
           /\ redeemed'[c] = redeemed[c] + Sum(c, R)
    BY <1>2
  <2>7. reserved'[c] = reserved[c] - Sum(c, R)
    BY <2>3, <2>5, <2>6 DEF Less
  <2>8. QED
    BY <2>3, <2>4, <2>5, <2>6, <2>7
<1>4. CountersReconcile'
  BY <1>3 DEF CountersReconcile, Active, Sum
<1>5. LedgerType'
  <2>1. R \subseteq Row
    BY <1>1
  <2>2. /\ reserved' = [c \in Campaign |-> Less(reserved[c], Sum(c, R))]
        /\ redeemed' = [c \in Campaign |-> redeemed[c] + Sum(c, R)]
        /\ reserve' = [r \in Row |-> IF r \in R /\ reserve[r] = "active"
                                     THEN "redeemed" ELSE reserve[r]]
        /\ promo' = [r \in Row |-> IF r \in R THEN "redeemed" ELSE promo[r]]
    BY DEF redeemReservedPromosForPaidOrder
  <2> HIDE DEF R
  <2>3. /\ reserved' \in [Campaign -> Nat] /\ redeemed' \in [Campaign -> Nat]
    BY <1>3, <2>2
  <2>4. QED
    BY <1>0, <1>2, <2>1, <2>2, <2>3 DEF LedgerType
<1>6. \A x \in Row : RowInv(x)'
  BY <1>1, <1>2 DEF LedgerInv, RowInv
<1>7. Affordable
  BY <1>0, <1>3 DEF Affordable
<1>8. \A r \in Row : promo'[r] = IF link[r] = o /\ promo[r] = "reserved" /\ OfWorth(r)
                                 THEN "redeemed" ELSE promo[r]
  BY <1>2 DEF Rows, ReservedRows
<1>9. QED
  BY <1>4, <1>5, <1>6, <1>7, <1>8 DEF LedgerInv

\* A cancelled or unpaid order gives back reservations and redemptions, each
\* from its counter.
LEMMA GivingBack ==
    ASSUME LedgerInv, Linked, NEW o \in Order, NEW R \in {{}, RedeemedRows(o)},
           GivesBack(ReservedRows(o), R)
    PROVE  /\ LedgerInv' /\ Affordable
           /\ \A r \in Row : promo'[r] = IF \/ link[r] = o /\ promo[r] = "reserved" /\ OfWorth(r)
                                            \/ r \in R
                                         THEN "released" ELSE promo[r]
<1> DEFINE H == ReservedRows(o)
<1>0. /\ LedgerType /\ o # "none"
      /\ \A c \in Campaign : reserved[c] \in Nat /\ redeemed[c] \in Nat
  BY Counters, PromoAssumption DEF LedgerInv
<1>1. /\ \A r \in H : /\ r \in Row /\ r[2] \in Key /\ reserve[r] = "active"
                      /\ r \notin redeem /\ r \notin release
      /\ \A r \in R : r \in Row /\ r[2] \in Key /\ r \in redeem /\ r \notin release
                      /\ reserve[r] # "active" /\ reserve[r] # "none"
  BY <1>0 DEF Rows, ReservedRows, RedeemedRows, Linked, LedgerInv, RowInv
<1>2. /\ \A x \in Row : promo'[x] = IF x \in H \/ x \in R THEN "released" ELSE promo[x]
      /\ \A x \in Row : reserve'[x] = IF x \in H THEN "released" ELSE reserve[x]
      /\ redeem' = redeem /\ release' = release \cup R /\ R \ release = R
      /\ \A c \in Campaign : /\ reserved'[c] = Less(reserved[c], Sum(c, H))
                             /\ redeemed'[c] = Less(redeemed[c], Sum(c, R \ release))
  BY <1>1 DEF GivesBack
<1>3. \A c \in Campaign :
         /\ reserved'[c] = Sum(c, Active') /\ redeemed'[c] = Sum(c, redeem') - Sum(c, release')
         /\ reserved'[c] \in Nat /\ redeemed'[c] \in Nat
         /\ reserved'[c] <= reserved[c] /\ redeemed'[c] <= redeemed[c]
  <2> SUFFICES ASSUME NEW c \in Campaign
               PROVE  /\ reserved'[c] = Sum(c, Active')
                      /\ redeemed'[c] = Sum(c, redeem') - Sum(c, release')
                      /\ reserved'[c] \in Nat /\ redeemed'[c] \in Nat
                      /\ reserved'[c] <= reserved[c] /\ redeemed'[c] <= redeemed[c]
    OBVIOUS
  <2>1. Active' = Active \ H /\ H \in SUBSET Active /\ Active \in SUBSET Row
    BY <1>1, <1>2 DEF Active
  <2>2. /\ R \in SUBSET (redeem \ release) /\ redeem \ release \in SUBSET Row
        /\ R \in SUBSET Row /\ release \in SUBSET Row /\ release \cap R = {}
    BY <1>0, <1>1 DEF LedgerType
  <2> HIDE DEF H
  <2>3. /\ Sum(c, Active') = Sum(c, Active) - Sum(c, H) /\ Sum(c, H) <= Sum(c, Active)
        /\ Sum(c, H) \in Nat
    BY <2>1, SumMinus
  <2>4. Sum(c, R) <= Sum(c, redeem \ release) /\ Sum(c, R) \in Nat
    BY <2>2, SumMinus
  <2>5. Sum(c, release') = Sum(c, release) + Sum(c, R)
    BY <1>2, <2>2, SumUnion
  <2>6. /\ reserved[c] = Sum(c, Active) /\ redeemed[c] = Sum(c, redeem) - Sum(c, release)
        /\ Sum(c, redeem \ release) = redeemed[c]
        /\ Sum(c, redeem) \in Nat /\ Sum(c, release) \in Nat
        /\ reserved[c] \in Nat /\ redeemed[c] \in Nat
    BY Counters
  <2>7. /\ redeem' = redeem /\ reserved'[c] = Less(reserved[c], Sum(c, H))
        /\ redeemed'[c] = Less(redeemed[c], Sum(c, R))
    BY <1>2
  <2>8. reserved'[c] = reserved[c] - Sum(c, H)
    BY <2>3, <2>6, <2>7 DEF Less
  <2>9. redeemed'[c] = redeemed[c] - Sum(c, R)
    BY <2>4, <2>6, <2>7 DEF Less
  <2>10. QED
    BY <2>3, <2>4, <2>5, <2>6, <2>7, <2>8, <2>9
<1>4. CountersReconcile'
  BY <1>3 DEF CountersReconcile, Active, Sum
<1>5. LedgerType'
  <2>1. R \subseteq Row
    BY <1>1
  <2>2. /\ reserved' = [c \in Campaign |-> Less(reserved[c], Sum(c, H))]
        /\ redeemed' = [c \in Campaign |-> Less(redeemed[c], Sum(c, R \ release))]
        /\ reserve' = [r \in Row |-> IF r \in H /\ reserve[r] = "active"
                                     THEN "released" ELSE reserve[r]]
        /\ promo' = [r \in Row |-> IF r \in H \cup R THEN "released" ELSE promo[r]]
    BY DEF GivesBack
  <2> HIDE DEF H
  <2>3. /\ reserved' \in [Campaign -> Nat] /\ redeemed' \in [Campaign -> Nat]
    BY <1>3, <2>2
  <2>4. QED
    BY <1>0, <1>2, <2>1, <2>2, <2>3 DEF LedgerType
<1>6. \A x \in Row : RowInv(x)'
  BY <1>1, <1>2 DEF LedgerInv, RowInv
<1>7. Affordable
  BY <1>0, <1>3 DEF Affordable
<1>8. \A r \in Row : promo'[r] = IF \/ link[r] = o /\ promo[r] = "reserved" /\ OfWorth(r)
                                    \/ r \in R
                                 THEN "released" ELSE promo[r]
  BY <1>2 DEF Rows, ReservedRows
<1>9. QED
  BY <1>4, <1>5, <1>6, <1>7, <1>8 DEF LedgerInv

-----------------------------------------------------------------------------
(* Requests and orders                                                     *)

AttemptType ==
    [pc : {"idle", "takeover", "quote", "reserve", "take", "undo", "answer"},
     key : Key \cup {"none"}, done : Nat, undone : Nat]

RestType ==
    /\ total \in [Campaign -> Nat]
    /\ link \in [Row -> Order \cup {"none"}]
    /\ order \in [Order -> {"none", "pending_payment", "paid", "payment_failed",
                            "cancelled", "force_cancelled", "timed_out"}]
    /\ orderKey \in [Order -> Key \cup {"none"}]
    /\ idem \in [Key -> {"none", "processing", "lapsed", "failed", "completed"}]
    /\ attempt \in [Attempt -> AttemptType]

\* A request works on the codes of its key.
AttemptInv(p) ==
    /\ p.pc # "idle" => p.key \in Key /\ p.done <= Len(Codes[p.key])
    /\ p.pc = "take" => p.done < Len(Codes[p.key])

\* A row that belongs to an order has what the order's status allows; what an
\* administrator or the payment timeout ended says nothing about it.
LinkInv(r) ==
    /\ r[2] \in Key /\ promo[r] = "redeemed" => link[r] # "none" /\ OfWorth(r)
    /\ link[r] # "none" =>
        /\ r[2] \in Key /\ promo[r] # "none" /\ order[link[r]] # "none"
        /\ order[link[r]] = "pending_payment" => promo[r] \in {"reserved", "released"}
        /\ OfWorth(r) /\ order[link[r]] = "paid" => promo[r] # "reserved"
        /\ OfWorth(r) /\ order[link[r]] \in {"cancelled", "payment_failed"}
              => promo[r] = "released"

PromoInv ==
    /\ LedgerInv /\ RestType
    /\ \A a \in Attempt : AttemptInv(attempt[a])
    /\ \A r \in Row : LinkInv(r)

\* The code a request is at, going on or going back, is a row of its key.
LEMMA CodeIsRow ==
    ASSUME PromoInv, NEW a \in Attempt, NEW i \in Nat, i > 0,
           attempt[a].pc # "idle", i <= Len(Codes[attempt[a].key])
    PROVE  Code(attempt[a], i) \in Row /\ Code(attempt[a], i)[2] \in Key
<1>1. PICK k \in Key : k = attempt[a].key
  BY DEF PromoInv, AttemptInv
<1>2. Codes[k] \in Seq(Campaign) /\ i \in 1 .. Len(Codes[k])
  BY <1>1, PromoAssumption
<1>3. Codes[k][i] \in Campaign /\ Codes[k][i] \in Named(k)
  BY <1>2 DEF Named
<1>4. Code(attempt[a], i) = <<Codes[k][i], k>>
  BY <1>1 DEF Code
<1>5. QED
  BY <1>1, <1>3, <1>4 DEF Row

\* What leaves orders and links alone keeps them in agreement.
LEMMA LinksKeep ==
    ASSUME PromoInv, PromoMoves, UNCHANGED <<link, order>>
    PROVE  \A r \in Row : LinkInv(r)'
<1> SUFFICES ASSUME NEW r \in Row PROVE LinkInv(r)'
  OBVIOUS
<1>1. LinkInv(r) /\ link' = link /\ order' = order
  BY DEF PromoInv
<1>2. \/ promo'[r] = promo[r] \/ r[2] \notin Key
      \/ (promo[r] = "none" /\ promo'[r] = "reserved")
      \/ promo[r] = "reserved" /\ promo'[r] = "released"
  BY DEF PromoMoves
<1>3. LinkInv(r) => link[r] = "none" \/ (r[2] \in Key /\ promo[r] # "none")
  BY DEF LinkInv
<1>4. CASE link[r] = "none"
  BY <1>1, <1>2, <1>4 DEF LinkInv
<1>5. CASE promo'[r] = promo[r]
  BY <1>1, <1>5 DEF LinkInv
<1>6. CASE link[r] # "none" /\ promo[r] = "reserved" /\ promo'[r] = "released"
  BY <1>1, <1>6 DEF LinkInv
<1>7. QED
  BY <1>1, <1>2, <1>3, <1>4, <1>5, <1>6

\* Orders are linked to rows of order creations only.
LEMMA LinkedRows == PromoInv => Linked
BY DEF PromoInv, Linked, LinkInv

\* The request of one attempt moves.
LEMMA AttemptMoves ==
    ASSUME PromoInv, NEW a \in Attempt, NEW p \in AttemptType, AttemptInv(p),
           attempt' = [attempt EXCEPT ![a] = p]
    PROVE  /\ attempt' \in [Attempt -> AttemptType]
           /\ \A b \in Attempt : AttemptInv(attempt'[b])
<1>1. attempt \in [Attempt -> AttemptType] /\ \A b \in Attempt : AttemptInv(attempt[b])
  BY DEF PromoInv, RestType
<1>2. \A b \in Attempt : attempt'[b] = IF b = a THEN p ELSE attempt[b]
  BY <1>1
<1>3. QED
  BY <1>1, <1>2

\* A request that is over, or not begun.
LEMMA IdleType == Idle \in AttemptType /\ AttemptInv(Idle)
BY DEF Idle, AttemptType, AttemptInv

\* Every action keeps what the requests rely on.
LEMMA RestStep ==
    ASSUME PromoInv, [Next]_vars
    PROVE  RestType' /\ \A b \in Attempt : AttemptInv(attempt'[b])
<1> DEFINE Goal == RestType' /\ \A b \in Attempt : AttemptInv(attempt'[b])
           AttemptsOK == /\ attempt' \in [Attempt -> AttemptType]
                         /\ \A b \in Attempt : AttemptInv(attempt'[b])
<1>0. RestType /\ attempt \in [Attempt -> AttemptType] /\ \A b \in Attempt : AttemptInv(attempt[b])
  BY DEF PromoInv, RestType
<1>1. ASSUME NEW a \in Attempt, NEW k \in Key, acquireInserts(a, k) \/ acquireReads(a, k)
      PROVE  Goal
  <2>1. PICK s \in {"quote", "takeover"} :
           attempt' = [attempt EXCEPT ![a] = [Idle EXCEPT !.pc = s, !.key = k]]
    BY <1>1 DEF acquireInserts, acquireReads
  <2> DEFINE p == [Idle EXCEPT !.pc = s, !.key = k]
  <2>2. p \in AttemptType
    BY IdleType DEF AttemptType
  <2>3. p.pc # "take" /\ p.key = k /\ p.done = 0
    BY DEF Idle
  <2>4. Codes[k] \in Seq(Campaign)
    BY PromoAssumption
  <2> HIDE DEF p
  <2>5. AttemptInv(p)
    BY <2>3, <2>4 DEF AttemptInv
  <2>6. AttemptsOK
    BY <2>1, <2>2, <2>5, AttemptMoves DEF p
  <2>7. QED
    BY <1>0, <1>1, <2>6 DEF acquireInserts, acquireReads, RestType, orders
<1>2. ASSUME NEW a \in Attempt, acquireTakesOver(a) PROVE Goal
  <2> DEFINE p == [attempt[a] EXCEPT !.pc = "quote"]
  <2>1. p \in AttemptType /\ AttemptInv(p) /\ attempt' = [attempt EXCEPT ![a] = p]
    BY <1>0, <1>2 DEF acquireTakesOver, AttemptType, AttemptInv
  <2> HIDE DEF p
  <2>2. AttemptsOK
    BY <2>1, AttemptMoves
  <2>3. QED
    BY <1>0, <1>2, <2>2 DEF acquireTakesOver, RestType, orders
<1>3. ASSUME NEW a \in Attempt, attempt' = [attempt EXCEPT ![a] = Idle] PROVE AttemptsOK
  BY <1>3, IdleType, AttemptMoves
<1>4. ASSUME NEW a \in Attempt, attempt' = [attempt EXCEPT ![a].pc = "reserve"]
                                \/ attempt' = [attempt EXCEPT ![a].pc = "answer"]
                                \/ attempt' = [attempt EXCEPT ![a].pc = "undo"],
             attempt[a].pc # "idle"
      PROVE  AttemptsOK
  <2>1. PICK s \in {"reserve", "answer", "undo"} : attempt' = [attempt EXCEPT ![a].pc = s]
    BY <1>4
  <2> DEFINE p == [attempt[a] EXCEPT !.pc = s]
  <2>2. p \in AttemptType /\ AttemptInv(p) /\ attempt' = [attempt EXCEPT ![a] = p]
    BY <1>0, <1>4, <2>1 DEF AttemptType, AttemptInv
  <2> HIDE DEF p
  <2>3. QED
    BY <2>2, AttemptMoves
<1>5. ASSUME NEW a \in Attempt, quotes(a) PROVE Goal
  <2>1. attempt[a].pc # "idle"
    BY <1>5 DEF quotes
  <2>2. attempt' = [attempt EXCEPT ![a].pc = "reserve"] \/ attempt' = [attempt EXCEPT ![a] = Idle]
    BY <1>5 DEF quotes, Answers
  <2>3. AttemptsOK
    BY <1>3, <1>4, <2>1, <2>2
  <2>4. idem' \in [Key -> {"none", "processing", "lapsed", "failed", "completed"}]
    BY <1>0, <1>5 DEF quotes, Answers, RestType
  <2>5. QED
    BY <1>0, <1>5, <2>3, <2>4 DEF quotes, RestType, orders
<1>6. ASSUME NEW a \in Attempt, reservationChecks(a) PROVE Goal
  <2> DEFINE p == IF attempt'[a].pc = "take" THEN [attempt[a] EXCEPT !.pc = "take"]
                                             ELSE [attempt[a] EXCEPT !.done = @ + 1]
  <2>1. attempt[a] \in AttemptType /\ AttemptInv(attempt[a]) /\ attempt[a].pc = "reserve"
           /\ attempt[a].done # Len(Codes[attempt[a].key])
    BY <1>0, <1>6 DEF reservationChecks, Complete
  <2>2. attempt[a].key \in Key /\ attempt[a].done \in Nat
           /\ attempt[a].done <= Len(Codes[attempt[a].key])
    BY <2>1 DEF AttemptType, AttemptInv
  <2>3. Len(Codes[attempt[a].key]) \in Nat
    BY <2>2, PromoAssumption
  <2>4. PICK q \in {[attempt[a] EXCEPT !.pc = "take"], [attempt[a] EXCEPT !.done = @ + 1]} :
           attempt' = [attempt EXCEPT ![a] = q]
    BY <1>6 DEF reservationChecks
  <2>5. q \in AttemptType
    BY <2>1, <2>2 DEF AttemptType
  <2>6. /\ q.key = attempt[a].key /\ q.done \in {attempt[a].done, attempt[a].done + 1}
        /\ q.pc = "take" => q.done = attempt[a].done
    BY <2>1, <2>2 DEF AttemptType
  <2>7. AttemptInv(q)
    BY <2>1, <2>2, <2>3, <2>6 DEF AttemptInv
  <2>8. AttemptsOK
    BY <2>4, <2>5, <2>7, AttemptMoves
  <2>9. QED
    BY <1>0, <1>6, <2>8 DEF reservationChecks, RestType, orders
<1>7. ASSUME NEW a \in Attempt, reservationCommits(a) PROVE Goal
  <2>1. /\ attempt[a] \in AttemptType /\ AttemptInv(attempt[a]) /\ attempt[a].pc = "take"
        /\ attempt[a].key \in Key /\ attempt[a].done \in Nat
        /\ attempt[a].done < Len(Codes[attempt[a].key])
    BY <1>0, <1>7 DEF reservationCommits, AttemptType, AttemptInv
  <2>2. Len(Codes[attempt[a].key]) \in Nat
    BY <2>1, PromoAssumption
  <2> DEFINE p == [attempt[a] EXCEPT !.pc = "reserve", !.done = @ + 1]
  <2> DEFINE q == [attempt[a] EXCEPT !.pc = "reserve"]
  <2>3. p \in AttemptType /\ p.pc = "reserve" /\ p.key = attempt[a].key
           /\ p.done = attempt[a].done + 1
    <3>1. q \in AttemptType /\ q.pc = "reserve" /\ q.key = attempt[a].key
             /\ q.done = attempt[a].done
      BY <2>1 DEF AttemptType
    <3>2. p = [q EXCEPT !.done = attempt[a].done + 1]
      OBVIOUS
    <3>3. attempt[a].done + 1 \in Nat
      BY <2>1
    <3> HIDE DEF p, q
    <3>4. QED
      BY <3>1, <3>2, <3>3 DEF AttemptType
  <2>4. attempt' = [attempt EXCEPT ![a] = p] \/ attempt' = [attempt EXCEPT ![a].pc = "undo"]
    BY <1>7 DEF reservationCommits
  <2> HIDE DEF p
  <2>5. AttemptInv(p)
    BY <2>1, <2>2, <2>3 DEF AttemptInv
  <2>6. AttemptsOK
    BY <1>4, <2>1, <2>3, <2>4, <2>5, AttemptMoves
  <2>7. QED
    BY <1>0, <1>7, <2>6 DEF reservationCommits, RestType, orders
<1>8. ASSUME NEW a \in Attempt, NEW o \in Order, orderCommits(a, o) PROVE Goal
  <2>1. attempt[a].pc # "idle" /\ attempt' = [attempt EXCEPT ![a].pc = "answer"]
    BY <1>8 DEF orderCommits, Complete
  <2>2. AttemptsOK
    BY <1>4, <2>1
  <2>3. attempt[a].key \in Key
    BY <1>0, <2>1 DEF AttemptInv
  <2>4. QED
    BY <1>0, <1>8, <2>2, <2>3 DEF orderCommits, RestType
<1>9. ASSUME NEW a \in Attempt, answers(a) \/ undone(a) PROVE Goal
  <2>1. attempt' = [attempt EXCEPT ![a] = Idle]
    BY <1>9 DEF answers, undone, Answers
  <2>2. AttemptsOK
    BY <1>3, <2>1
  <2>3. idem' \in [Key -> {"none", "processing", "lapsed", "failed", "completed"}]
    BY <1>0, <1>9 DEF answers, undone, Answers, RestType
  <2>4. QED
    BY <1>0, <1>9, <2>2, <2>3 DEF answers, undone, RestType, orders
<1>10. ASSUME NEW a \in Attempt, creationFails(a) \/ processStops(a) PROVE Goal
  <2>1. AttemptsOK
    BY <1>3, <1>4, <1>10 DEF creationFails, processStops
  <2>2. QED
    BY <1>0, <1>10, <2>1 DEF creationFails, processStops, RestType, orders
<1>11. ASSUME NEW a \in Attempt, undoes(a) PROVE Goal
  <2> DEFINE p == [attempt[a] EXCEPT !.undone = @ + 1]
  <2>1. p \in AttemptType /\ AttemptInv(p) /\ attempt' = [attempt EXCEPT ![a] = p]
    BY <1>0, <1>11 DEF undoes, AttemptType, AttemptInv
  <2> HIDE DEF p
  <2>2. AttemptsOK
    BY <2>1, AttemptMoves
  <2>3. QED
    BY <1>0, <1>11, <2>2 DEF undoes, RestType, orders
<1>12. ASSUME NEW k \in Key, lockLapses(k) PROVE Goal
  BY <1>0, <1>12 DEF lockLapses, RestType, orders
<1>13. ASSUME NEW c \in Campaign, NEW b \in Budget[c], updatePromoCampaign(c, b) PROVE Goal
  <2>1. b \in Nat
    BY PromoAssumption
  <2>2. QED
    BY <1>0, <1>13, <2>1 DEF updatePromoCampaign, RestType, orders
<1>14. ASSUME NEW o \in Order,
              \/ paymentSucceeds(o) \/ paymentFails(o) \/ cancelCustomerOrder(o)
              \/ forceCancelOrder(o) \/ CancelExpiredOrders(o)
       PROVE  Goal
  <2>1. UNCHANGED <<total, link, orderKey, idem, attempt>>
    BY <1>14 DEF paymentSucceeds, paymentFails, cancelCustomerOrder, forceCancelOrder,
                 CancelExpiredOrders
  <2>2. \E s \in {order[o], "paid", "payment_failed", "cancelled", "force_cancelled",
               "timed_out"} :
           order' = [order EXCEPT ![o] = s]
    BY <1>14 DEF paymentSucceeds, paymentFails, cancelCustomerOrder, forceCancelOrder,
                 CancelExpiredOrders
  <2>3. QED
    BY <1>0, <2>1, <2>2 DEF RestType
<1>15. CASE UNCHANGED <<total, orders, idem, attempt>>
  BY <1>0, <1>15 DEF RestType, orders
<1>16. QED
  <2>1. \A k \in DirectKey : \A c \in Named(k) :
           reserveCustomerPromo(c, k) \/ redeemCustomerPromo(c, k)
              \/ releaseCustomerPromoReservation(c, k)
           => UNCHANGED <<total, orders, idem, attempt>>
    BY DEF reserveCustomerPromo, redeemCustomerPromo, releaseCustomerPromoReservation
  <2>2. UNCHANGED vars => UNCHANGED <<total, orders, idem, attempt>>
    BY DEF vars
  <2>3. QED
    BY <1>1, <1>2, <1>5, <1>6, <1>7, <1>8, <1>9, <1>10, <1>11, <1>12, <1>13, <1>14, <1>15,
       <2>1, <2>2 DEF Next

\* Every action keeps the counters in agreement with the ledger, and commits
\* no budget that a campaign does not have.
LEMMA PromoStep ==
    ASSUME PromoInv, [Next]_vars
    PROVE  PromoInv' /\ Affordable
<1> DEFINE Links == \A r \in Row : LinkInv(r)'
           Goal == LedgerInv' /\ Links /\ Affordable
<1>0. /\ LedgerInv /\ Linked /\ RestType /\ total \in [Campaign -> Nat]
      /\ \A a \in Attempt : AttemptInv(attempt[a]) /\ attempt[a] \in AttemptType
      /\ \A r \in Row : LinkInv(r)
  BY LinkedRows DEF PromoInv, RestType
<1>1. ASSUME UNCHANGED <<budget, ledger, link, order>> PROVE Goal
  <2>1. LedgerInv' /\ PromoMoves /\ Affordable
    BY <1>0, <1>1, LedgerUnmoved
  <2>2. UNCHANGED <<link, order>>
    BY <1>1
  <2>3. QED
    BY <2>1, <2>2, LinksKeep
<1>2. ASSUME NEW r \in Row, Reserves(r), RoomUnderLock(r[1], reserve[r] # "none"),
             UNCHANGED <<link, order>>
      PROVE  Goal
  BY <1>0, <1>2, Reserving, LinksKeep
<1>3. ASSUME NEW r \in Row, releasePromoReservation(r), UNCHANGED <<link, order>>
      PROVE  Goal
  BY <1>0, <1>3, Releasing, LinksKeep
<1>4. ASSUME NEW a \in Attempt, reservationCommits(a) PROVE Goal
  <2> DEFINE r == Code(attempt[a], attempt[a].done + 1)
  <2>1. /\ attempt[a].pc = "take" /\ attempt[a].done \in Nat
        /\ attempt[a].key \in Key /\ attempt[a].done < Len(Codes[attempt[a].key])
    BY <1>0, <1>4 DEF reservationCommits, AttemptType, AttemptInv
  <2>2. Len(Codes[attempt[a].key]) \in Nat
    BY <2>1, PromoAssumption
  <2>3. r \in Row
    BY <2>1, <2>2, CodeIsRow
  <2>4. UNCHANGED <<link, order>>
    BY <1>4 DEF reservationCommits, orders
  <2>5. \/ Reserves(r) /\ RoomUnderLock(r[1], reserve[r] # "none")
        \/ UNCHANGED <<budget, ledger>>
    BY <1>4 DEF reservationCommits
  <2> HIDE DEF r
  <2>6. CASE Reserves(r) /\ RoomUnderLock(r[1], reserve[r] # "none")
    BY <1>2, <2>3, <2>4, <2>6
  <2>7. CASE UNCHANGED <<budget, ledger>>
    BY <1>1, <2>4, <2>7
  <2>8. QED
    BY <2>5, <2>6, <2>7
<1>5. ASSUME NEW a \in Attempt, undoes(a) PROVE Goal
  <2> DEFINE r == Code(attempt[a], attempt[a].undone + 1)
  <2>1. /\ attempt[a].pc = "undo" /\ attempt[a].done \in Nat /\ attempt[a].undone \in Nat
        /\ attempt[a].key \in Key /\ attempt[a].done <= Len(Codes[attempt[a].key])
        /\ attempt[a].undone < attempt[a].done
    BY <1>0, <1>5 DEF undoes, AttemptType, AttemptInv
  <2>2. Len(Codes[attempt[a].key]) \in Nat
    BY <2>1, PromoAssumption
  <2>3. r \in Row
    BY <2>1, <2>2, CodeIsRow
  <2>4. UNCHANGED <<link, order>>
    BY <1>5 DEF undoes, orders
  <2>5. releasePromoReservation(r) \/ UNCHANGED <<budget, ledger>>
    BY <1>5 DEF undoes
  <2> HIDE DEF r
  <2>6. CASE releasePromoReservation(r)
    BY <1>3, <2>3, <2>4, <2>6
  <2>7. CASE UNCHANGED <<budget, ledger>>
    BY <1>1, <2>4, <2>7
  <2>8. QED
    BY <2>5, <2>6, <2>7
<1>6. ASSUME NEW k \in DirectKey, NEW c \in Named(k)
      PROVE  /\ <<c, k>> \in Row /\ <<c, k>>[1] = c /\ <<c, k>>[2] \notin Key
  <2>1. Codes[k] \in Seq(Campaign) /\ k \notin Key
    BY PromoAssumption
  <2>2. c \in Campaign
    BY <2>1 DEF Named
  <2>3. QED
    BY <2>1, <2>2 DEF Row
<1>7. ASSUME NEW k \in DirectKey, NEW c \in Named(k),
             \/ reserveCustomerPromo(c, k) \/ redeemCustomerPromo(c, k)
             \/ releaseCustomerPromoReservation(c, k)
      PROVE  Goal
  <2> DEFINE r == <<c, k>>
  <2>1. r \in Row /\ r[1] = c /\ r[2] \notin Key
    BY <1>6
  <2>2. UNCHANGED <<link, order>>
    BY <1>7 DEF reserveCustomerPromo, redeemCustomerPromo,
                releaseCustomerPromoReservation, orders
  <2>3. CASE reserveCustomerPromo(c, k)
    <3>1. Reserves(r) /\ RoomUnderLock(c, reserve[r] # "none")
      BY <2>3 DEF reserveCustomerPromo
    <3> HIDE DEF r
    <3>2. QED
      BY <1>2, <2>1, <2>2, <3>1
  <2>4. CASE redeemCustomerPromo(c, k)
    <3>1. Redeems(r) /\ RoomUnderLock(c, r \in redeem)
      BY <2>4 DEF redeemCustomerPromo
    <3> HIDE DEF r
    <3>2. LedgerInv' /\ PromoMoves /\ Affordable
      BY <1>0, <2>1, <3>1, Redeeming
    <3>3. QED
      BY <2>2, <3>2, LinksKeep
  <2>5. CASE releaseCustomerPromoReservation(c, k)
    <3>1. releasePromoReservation(r)
      BY <2>5 DEF releaseCustomerPromoReservation
    <3> HIDE DEF r
    <3>2. QED
      BY <1>3, <2>1, <2>2, <3>1
  <2>6. QED
    BY <1>7, <2>3, <2>4, <2>5
<1>8. ASSUME NEW a \in Attempt, NEW o \in Order, orderCommits(a, o) PROVE Goal
  <2>1. LedgerInv' /\ PromoMoves /\ Affordable /\ promo' = promo
    BY <1>0, <1>8, LedgerUnmoved DEF orderCommits, ledger
  <2>2. attempt[a].key \in Key /\ o # "none"
    BY <1>0, <1>8, PromoAssumption DEF orderCommits, Complete, AttemptInv
  <2>3. /\ \A x \in Order : order'[x] = IF x = o THEN "pending_payment" ELSE order[x]
        /\ \A r \in Row : link'[r] = IF r[2] = attempt[a].key /\ promo[r] = "reserved"
                                     THEN o ELSE link[r]
        /\ order[o] = "none"
    BY <1>0, <1>8 DEF orderCommits, ToLink, RestType
  <2>4. Links
    <3> SUFFICES ASSUME NEW r \in Row PROVE LinkInv(r)'
      OBVIOUS
    <3>1. CASE r[2] = attempt[a].key /\ promo[r] = "reserved"
      BY <2>1, <2>2, <2>3, <3>1 DEF LinkInv
    <3>2. CASE ~(r[2] = attempt[a].key /\ promo[r] = "reserved")
      <4>1. LinkInv(r) /\ link'[r] = link[r] /\ promo'[r] = promo[r]
        BY <1>0, <2>1, <2>3, <3>2
      <4>2. link[r] # "none" => link[r] \in Order /\ link[r] # o
        BY <1>0, <2>3, <4>1 DEF RestType, LinkInv
      <4>3. link[r] # "none" => order'[link[r]] = order[link[r]]
        BY <2>3, <4>2
      <4>4. QED
        BY <4>1, <4>3 DEF LinkInv
    <3>3. QED
      BY <3>1, <3>2
  <2>5. QED
    BY <2>1, <2>4
<1>9. ASSUME NEW o \in Order, paymentSucceeds(o) PROVE Goal
  <2>1. /\ LedgerInv' /\ Affordable
        /\ \A r \in Row : promo'[r] = IF link[r] = o /\ promo[r] = "reserved" /\ OfWorth(r)
                                      THEN "redeemed" ELSE promo[r]
    BY <1>0, <1>9, Paying DEF paymentSucceeds
  <2>2. /\ link' = link /\ order[o] # "none"
        /\ \A x \in Order : order'[x] = IF x = o /\ order[x] = "pending_payment"
                                        THEN "paid" ELSE order[x]
    BY <1>0, <1>9 DEF paymentSucceeds, RestType
  <2>3. Links
    <3> SUFFICES ASSUME NEW r \in Row, link[r] # "none" PROVE LinkInv(r)'
      BY <1>0, <2>1, <2>2, PromoAssumption DEF LinkInv
    <3>1. LinkInv(r) /\ link'[r] = link[r] /\ link[r] \in Order
      BY <1>0, <2>2 DEF RestType
    <3>2. CASE link[r] = o
      BY <2>1, <2>2, <3>1, <3>2 DEF LinkInv
    <3>3. CASE link[r] # o
      BY <2>1, <2>2, <3>1, <3>3 DEF LinkInv
    <3>4. QED
      BY <3>2, <3>3
  <2>4. QED
    BY <2>1, <2>3
<1>10. ASSUME NEW o \in Order, paymentFails(o) PROVE Goal
  <2>1. /\ LedgerInv' /\ Affordable
        /\ \A r \in Row : promo'[r] = IF link[r] = o /\ promo[r] = "reserved" /\ OfWorth(r)
                                      THEN "released" ELSE promo[r]
    BY <1>0, <1>10, GivingBack DEF paymentFails, releaseReservedPromosForOrders
  <2>2. /\ link' = link /\ order[o] # "none"
        /\ \A x \in Order : order'[x] = IF x = o /\ order[x] = "pending_payment"
                                        THEN "payment_failed" ELSE order[x]
    BY <1>0, <1>10 DEF paymentFails, RestType
  <2>3. Links
    <3> SUFFICES ASSUME NEW r \in Row, link[r] # "none" PROVE LinkInv(r)'
      BY <1>0, <2>1, <2>2 DEF LinkInv
    <3>1. LinkInv(r) /\ link'[r] = link[r] /\ link[r] \in Order
      BY <1>0, <2>2 DEF RestType
    <3>2. CASE link[r] = o
      BY <2>1, <2>2, <3>1, <3>2 DEF LinkInv
    <3>3. CASE link[r] # o
      BY <2>1, <2>2, <3>1, <3>3 DEF LinkInv
    <3>4. QED
      BY <3>2, <3>3
  <2>4. QED
    BY <2>1, <2>3
<1>11. ASSUME NEW o \in Order, cancelCustomerOrder(o) PROVE Goal
  <2>1. /\ LedgerInv' /\ Affordable
        /\ \A r \in Row : promo'[r] = IF \/ link[r] = o /\ promo[r] = "reserved" /\ OfWorth(r)
                                         \/ r \in RedeemedRows(o)
                                      THEN "released" ELSE promo[r]
    BY <1>0, <1>11, GivingBack DEF cancelCustomerOrder
  <2>2. /\ link' = link
        /\ \A x \in Order : order'[x] = IF x = o THEN "cancelled" ELSE order[x]
    BY <1>0, <1>11 DEF cancelCustomerOrder, RestType
  <2>3. \A r \in Row :
           r \in RedeemedRows(o) <=> link[r] = o /\ promo[r] = "redeemed" /\ OfWorth(r)
    BY DEF RedeemedRows, Rows
  <2>4. Links
    <3> SUFFICES ASSUME NEW r \in Row, link[r] # "none" PROVE LinkInv(r)'
      BY <1>0, <2>1, <2>2 DEF LinkInv
    <3>1. /\ LinkInv(r) /\ link'[r] = link[r] /\ link[r] \in Order
          /\ promo[r] \in {"none", "reserved", "redeemed", "released"}
      BY <1>0, <2>2 DEF RestType, LedgerInv, LedgerType
    <3>2. CASE link[r] = o
      <4>1. /\ OfWorth(r) => promo'[r] = "released"
            /\ promo'[r] \in {promo[r], "released"} /\ order'[link[r]] = "cancelled"
        BY <2>1, <2>2, <2>3, <3>1, <3>2 DEF LinkInv
      <4>2. QED
        BY <3>1, <4>1 DEF LinkInv
    <3>3. CASE link[r] # o
      BY <2>1, <2>2, <2>3, <3>1, <3>3 DEF LinkInv
    <3>4. QED
      BY <3>2, <3>3
  <2>5. QED
    BY <2>1, <2>4
<1>12. ASSUME NEW o \in Order, forceCancelOrder(o) \/ CancelExpiredOrders(o) PROVE Goal
  <2>1. LedgerInv' /\ Affordable /\ promo' = promo
    BY <1>0, <1>12, LedgerUnmoved DEF forceCancelOrder, CancelExpiredOrders, ledger
  <2>2. PICK s \in {"force_cancelled", "timed_out"} :
           /\ link' = link
           /\ \A x \in Order : order'[x] = IF x = o THEN s ELSE order[x]
    BY <1>0, <1>12 DEF forceCancelOrder, CancelExpiredOrders, RestType
  <2>3. Links
    <3> SUFFICES ASSUME NEW r \in Row, link[r] # "none" PROVE LinkInv(r)'
      BY <1>0, <2>1, <2>2 DEF LinkInv
    <3>1. LinkInv(r) /\ link'[r] = link[r] /\ link[r] \in Order /\ promo'[r] = promo[r]
      BY <1>0, <2>1, <2>2 DEF RestType
    <3>2. CASE link[r] = o
      BY <2>2, <3>1, <3>2 DEF LinkInv
    <3>3. CASE link[r] # o
      BY <2>2, <3>1, <3>3 DEF LinkInv
    <3>4. QED
      BY <3>2, <3>3
  <2>4. QED
    BY <2>1, <2>3
<1>13. Goal
  <2>1. \A a \in Attempt : \A k \in Key : acquireInserts(a, k) \/ acquireReads(a, k)
           => UNCHANGED <<budget, ledger, link, order>>
    BY DEF acquireInserts, acquireReads, orders
  <2>2. \A a \in Attempt : acquireTakesOver(a) \/ quotes(a) \/ reservationChecks(a)
              \/ answers(a) \/ creationFails(a) \/ undone(a) \/ processStops(a)
           => UNCHANGED <<budget, ledger, link, order>>
    BY DEF acquireTakesOver, quotes, reservationChecks, answers, creationFails, undone,
           processStops, orders
  <2>3. \A k \in Key : lockLapses(k) => UNCHANGED <<budget, ledger, link, order>>
    BY DEF lockLapses, orders
  <2>4. \A c \in Campaign : \A b \in Budget[c] : updatePromoCampaign(c, b)
           => UNCHANGED <<budget, ledger, link, order>>
    BY DEF updatePromoCampaign, orders
  <2>5. UNCHANGED vars => UNCHANGED <<budget, ledger, link, order>>
    BY DEF vars, orders
  <2>6. CASE Next
    BY <1>1, <1>4, <1>5, <1>7, <1>8, <1>9, <1>10, <1>11, <1>12,
       <2>1, <2>2, <2>3, <2>4, <2>6 DEF Next
  <2>7. QED
    BY <1>1, <2>5, <2>6
<1>14. QED
  BY <1>13, RestStep DEF PromoInv

\* Nothing is reserved at the start.
LEMMA PromoStart == Init => PromoInv
<1> SUFFICES ASSUME Init PROVE PromoInv
  OBVIOUS
<1>1. total \in [Campaign -> Nat]
  <2>1. PICK t \in [Campaign -> UNION {Budget[c] : c \in Campaign}] : total = t
    BY DEF Init
  <2>2. \A c \in Campaign : Budget[c] \subseteq Nat
    BY PromoAssumption
  <2>3. UNION {Budget[c] : c \in Campaign} \subseteq Nat
    BY <2>2
  <2>4. QED
    BY <2>1, <2>3
<1>2. RestType /\ \A a \in Attempt : AttemptInv(attempt[a])
  BY <1>1, IdleType DEF Init, RestType
<1>3. /\ LedgerType /\ \A r \in Row : RowInv(r)
      /\ \A r \in Row : LinkInv(r)
  BY DEF Init, LedgerType, RowInv, LinkInv
<1>4. CountersReconcile
  <2>1. \A c \in Campaign : Sum(c, {}) = 0
    <3> SUFFICES ASSUME NEW c \in Campaign PROVE Sum(c, {}) = 0
      OBVIOUS
    <3>1. {r \in {} : r[1] = c} = {}
      OBVIOUS
    <3>2. Cardinality({}) = 0
      BY FS_EmptySet, Zenon
    <3>3. Discount[c] \in Nat
      BY PromoAssumption
    <3>4. QED
      BY <3>1, <3>2, <3>3 DEF Sum
  <2>2. {r \in Row : reserve[r] = "active"} = {} /\ redeem = {} /\ release = {}
    BY DEF Init
  <2>3. \A c \in Campaign : reserved[c] = 0 /\ redeemed[c] = 0
    BY DEF Init
  <2>4. QED
    BY <2>1, <2>2, <2>3 DEF CountersReconcile
<1>5. QED
  BY <1>2, <1>3, <1>4 DEF PromoInv, LedgerInv

-----------------------------------------------------------------------------
(* Theorems                                                                *)

\* What every state of the promotions keeps (validatePromoForCheckout,
\* createCustomerOrder, requireIdempotencyKey).
THEOREM PromoSafe == Spec => []PromoInv
<1>1. PromoInv /\ [Next]_vars => PromoInv'
  BY PromoStep
<1>2. QED
  BY <1>1, PromoStart, PTL DEF Spec

\* Every variable of the promotions keeps its type.
THEOREM TypeCorrect == Spec => []TypeOK
<1>1. PromoInv => TypeOK
  BY DEF PromoInv, LedgerInv, LedgerType, RestType, AttemptType, TypeOK
<1>2. QED
  BY <1>1, PromoSafe, PTL

\* The counters of a campaign are what its ledger adds up to.
THEOREM CountersAlwaysReconcile == Spec => []CountersReconcile
<1>1. PromoInv => CountersReconcile
  BY DEF PromoInv, LedgerInv
<1>2. QED
  BY <1>1, PromoSafe, PTL

\* The redemption of an order and its ledger entries agree.
THEOREM LedgerAlwaysAgrees == Spec => []LedgerAgrees
<1>1. PromoInv => LedgerAgrees
  BY DEF PromoInv, LedgerInv, RowInv, LedgerAgrees
<1>2. QED
  BY <1>1, PromoSafe, PTL

\* The promotions of an order follow its payment, failure and cancellation.
THEOREM PromosFollow == Spec => []PromosFollowOrder
<1>1. PromoInv => PromosFollowOrder
  BY PromoAssumption DEF PromoInv, LinkInv, PromosFollowOrder
<1>2. QED
  BY <1>1, PromoSafe, PTL

\* Budget is spent on the promotion of an order only if it was paid.
THEOREM SpentForPaid == Spec => []SpentForPaidOrder
<1>1. PromoInv => SpentForPaidOrder
  BY DEF PromoInv, RestType, LinkInv, SpentForPaidOrder
<1>2. QED
  BY <1>1, PromoSafe, PTL

\* No step commits budget that a campaign does not have (the second look at
\* the budget under the lock of the campaign).
THEOREM NeverOverspent == Spec => NeverOverspends
<1>1. PromoInv /\ [Next]_vars =>
        [\A c \in Campaign : reserved'[c] + redeemed'[c] > reserved[c] + redeemed[c]
                             => reserved'[c] + redeemed'[c] <= total[c]]_vars
  BY PromoStep DEF Affordable
<1>2. QED
  BY <1>1, PromoSafe, PTL DEF Spec, NeverOverspends
=============================================================================
