------------------------- MODULE CourierOffer_proofs -------------------------
(***************************************************************************)
(* Proofs about CourierOffer, for any orders, couriers, overlapping calls, *)
(* and any setting of the batching policy.                                 *)
(*                                                                         *)
(* Four invariants, one for each thing that protects the offers:           *)
(*   TypeInv   what an acceptance carries is well typed;                   *)
(*   OfferInv  rows an acceptance has written or locked belong to it       *)
(*             alone, and an order whose rows it rewrote still shows       *)
(*             others a lapsed, locked row;                                *)
(*   JobInv    between the read of a courier's jobs and the commit nobody  *)
(*             else can give that courier a job, or suspend it unseen;     *)
(*   HandsInv  an order that a courier holds is past the statuses the      *)
(*             queue works on.                                             *)
(***************************************************************************)
EXTENDS CourierOffer, FiniteSetTheorems, TLAPS

Offers == [Row -> OfferStatus]
\* What an acceptance may have written.
Writes == UNION {[D -> OfferStatus] : D \in SUBSET Row}

CallType ==
    [pc : {"idle", "locked", "read", "checked"}, courier : Courier \cup {"none"},
     order : Order \cup {"none"}, writes : Writes]

CallOK ==
    /\ call \in [Call -> CallType]
    /\ \A p \in Call : call[p].pc # "idle" =>
          call[p].courier \in Courier /\ call[p].order \in Order

TypeInv == TypeOK /\ CallOK

\* Of an order's offers one at most is open.
Single(of) ==
    \A o \in Order : \A c, d \in Courier :
        of[<<o, c>>] \in Open /\ of[<<o, d>>] \in Open => c = d

-----------------------------------------------------------------------------
(* The queue                                                               *)

\* One round of offers makes new offers only for orders without an open one.
LEMMA DispatchLemma ==
    ASSUME NEW of \in Offers, NEW os, NEW S \in SUBSET Order,
           NEW h \in dispatchNextOnDemandCourier(of, os, S)
    PROVE  /\ h \in Offers
           /\ \A r \in Row : h[r] # of[r] =>
                 /\ h[r] = "offered" /\ r[1] \in S
                 /\ \A c \in Courier : of[<<r[1], c>>] \notin Open
           /\ Single(of) => Single(h)
<1> DEFINE D == {o \in S : Candidates(of, os, o) # {}}
<1>1. PICK f \in {g \in [D -> Courier] : \A o \in D : g[o] \in Candidates(of, os, o)} :
         h = [r \in Row |-> IF r[1] \in D /\ f[r[1]] = r[2] THEN "offered" ELSE of[r]]
  BY Zenon DEF dispatchNextOnDemandCourier
<1>2. h \in Offers
  BY <1>1 DEF Offers, OfferStatus
<1>3. \A o \in D : \A c \in Courier : of[<<o, c>>] \notin Open
  BY DEF Candidates
<1>4. \A r \in Row : r = <<r[1], r[2]>> /\ r[1] \in Order /\ r[2] \in Courier
  BY DEF Row
<1>5. ASSUME NEW r \in Row, h[r] # of[r]
      PROVE  h[r] = "offered" /\ r[1] \in D
  BY <1>1, <1>5
<1>6. ASSUME Single(of) PROVE Single(h)
  <2> SUFFICES ASSUME NEW o \in Order, NEW c \in Courier, NEW d \in Courier,
                      h[<<o, c>>] \in Open, h[<<o, d>>] \in Open
               PROVE  c = d
    BY DEF Single
  <2>1. <<o, c>> \in Row /\ <<o, d>> \in Row
    BY DEF Row
  <2>2. CASE o \in D
    <3>1. h[<<o, c>>] = IF f[o] = c THEN "offered" ELSE of[<<o, c>>]
      BY <1>1, <2>1, <2>2
    <3>2. h[<<o, d>>] = IF f[o] = d THEN "offered" ELSE of[<<o, d>>]
      BY <1>1, <2>1, <2>2
    <3>3. QED
      BY <3>1, <3>2, <1>3, <2>2
  <2>3. CASE o \notin D
    <3>1. h[<<o, c>>] = of[<<o, c>>] /\ h[<<o, d>>] = of[<<o, d>>]
      BY <1>1, <2>1, <2>3
    <3>2. QED
      BY <3>1, <1>6 DEF Single
  <2>4. QED
    BY <2>2, <2>3
<1>7. QED
  BY <1>2, <1>3, <1>5, <1>6

\* Expiring stale offers changes lapsed rows, and offers anew only orders that
\* had a lapsed row; offers still open stay.
LEMMA ExpireLemma ==
    ASSUME NEW of \in Offers, NEW os,
           NEW h \in expireStaleOnDemandOffers(of, os)
    PROVE  /\ h \in Offers
           /\ \A r \in Row : of[r] = "offered" => h[r] = "offered"
           /\ \A r \in Row : h[r] # of[r] =>
                 /\ h[r] \in {"expired", "offered"}
                 /\ h[r] = "expired" => of[r] = "lapsed"
                 /\ \E s \in Row : s[1] = r[1] /\ of[s] = "lapsed" /\ h[s] # of[s]
           /\ Single(of) => Single(h)
<1> DEFINE E == [r \in Row |-> IF r \in Stale(of) THEN "expired" ELSE of[r]]
<1>1. E \in Offers
  BY DEF Offers, OfferStatus
<1>2. \A r \in Row : r[1] \in Order
  BY DEF Row
<1>3. Orders(Stale(of)) \in SUBSET Order
  BY <1>2 DEF Orders, Stale
<1>4. h \in dispatchNextOnDemandCourier(E, os, Orders(Stale(of)))
  BY DEF expireStaleOnDemandOffers
<1>5. /\ h \in Offers
      /\ \A r \in Row : h[r] # E[r] =>
            /\ h[r] = "offered" /\ r[1] \in Orders(Stale(of))
            /\ \A c \in Courier : E[<<r[1], c>>] \notin Open
      /\ Single(E) => Single(h)
  <2> HIDE DEF E
  <2>1. QED
    BY <1>1, <1>3, <1>4, DispatchLemma
<1>6. Single(of) => Single(E)
  <2> SUFFICES ASSUME Single(of), NEW o \in Order, NEW c \in Courier, NEW d \in Courier,
                      E[<<o, c>>] \in Open, E[<<o, d>>] \in Open
               PROVE  c = d
    BY DEF Single
  <2>1. <<o, c>> \in Row /\ <<o, d>> \in Row
    BY DEF Row
  <2>2. QED
    BY <2>1 DEF Single, Open
<1>7. \A s \in Row : of[s] = "lapsed" => h[s] # of[s]
  <2> SUFFICES ASSUME NEW s \in Row, of[s] = "lapsed" PROVE h[s] # of[s]
    OBVIOUS
  <2>1. E[s] = "expired"
    BY DEF Stale
  <2>2. QED
    BY <1>5, <2>1
<1>8. ASSUME NEW r \in Row, h[r] # of[r]
      PROVE  /\ h[r] \in {"expired", "offered"}
             /\ h[r] = "expired" => of[r] = "lapsed"
             /\ \E s \in Row : s[1] = r[1] /\ of[s] = "lapsed" /\ h[s] # of[s]
  <2>1. CASE h[r] = E[r]
    <3>1. of[r] = "lapsed" /\ h[r] = "expired"
      BY <1>8, <2>1 DEF Stale
    <3>2. QED
      BY <3>1, <1>7
  <2>2. CASE h[r] # E[r]
    <3>1. h[r] = "offered" /\ r[1] \in Orders(Stale(of))
      BY <1>5, <2>2
    <3>2. \E s \in Row : s[1] = r[1] /\ of[s] = "lapsed"
      BY <3>1 DEF Orders, Stale
    <3>3. QED
      BY <3>1, <3>2, <1>7
  <2>3. QED
    BY <2>1, <2>2
<1>9. ASSUME NEW r \in Row, of[r] = "offered" PROVE h[r] = "offered"
  <2>1. E[r] = "offered"
    BY <1>9 DEF Stale
  <2>2. QED
    BY <1>5, <2>1
<1>10. QED
  BY <1>5, <1>6, <1>8, <1>9

\* A whole run of the queue keeps open offers and never opens a second one.
LEMMA AdvanceLemma ==
    ASSUME NEW of \in Offers, NEW os,
           NEW h \in advanceOnDemandDispatchQueue(of, os)
    PROVE  /\ h \in Offers
           /\ \A r \in Row : of[r] = "offered" => h[r] = "offered"
           /\ Single(of) => Single(h)
<1>1. PICK g \in expireStaleOnDemandOffers(of, os) :
         h \in dispatchNextOnDemandCourier(g, os, Waiting(g, os))
  BY Zenon DEF advanceOnDemandDispatchQueue
<1>2. /\ g \in Offers
      /\ \A r \in Row : of[r] = "offered" => g[r] = "offered"
      /\ Single(of) => Single(g)
  BY <1>1, ExpireLemma
<1>3. Waiting(g, os) \in SUBSET Order
  BY DEF Waiting
<1>4. /\ h \in Offers
      /\ \A r \in Row : h[r] # g[r] => h[r] = "offered"
      /\ Single(g) => Single(h)
  BY <1>1, <1>2, <1>3, DispatchLemma
<1>5. QED
  BY <1>2, <1>4

-----------------------------------------------------------------------------
(* Types                                                                   *)

\* A row is an order and a courier.
LEMMA RowsType == \A r \in Row : r = <<r[1], r[2]>> /\ r[1] \in Order /\ r[2] \in Courier
BY DEF Row

\* An acceptance begins with nothing written.
LEMMA NoWrites == <<>> \in Writes /\ DOMAIN <<>> = {}
<1>1. <<>> \in [{} -> OfferStatus]
  OBVIOUS
<1>2. QED
  BY <1>1 DEF Writes

\* What has been written are rows.
LEMMA WritesType ==
    ASSUME NEW w \in Writes
    PROVE  /\ DOMAIN w \subseteq Row /\ \A r \in DOMAIN w : w[r] \in OfferStatus
BY DEF Writes

\* Marking an order as offered touches pending orders only.
LEMMA MarkedType ==
    ASSUME NEW of, NEW os \in [Order -> OrderStatus]
    PROVE  /\ Marked(of, os) \in [Order -> OrderStatus]
           /\ \A o \in Order : /\ Marked(of, os)[o] # os[o] => os[o] = "pending"
                               /\ Marked(of, os)[o] \in {os[o], "offered"}
BY DEF Marked, Offered, Ready, OrderStatus

\* The trigger that lets a pending suspension begin keeps the types.
LEMMA FinalizeType ==
    ASSUME TypeOK, finalize_pending_courier_enforcement_actions
    PROVE  /\ {online', suspended'} \subseteq [Courier -> BOOLEAN]
           /\ action' \in [Courier -> {"none", "pending_safe_completion", "active",
                                       "stopped", "finalized"}]
BY DEF TypeOK, finalize_pending_courier_enforcement_actions

\* A call that ends leaves the others well typed.
LEMMA EndedCall ==
    ASSUME CallOK, NEW p \in Call
    PROVE  /\ IdleCall \in CallType
           /\ call' = [call EXCEPT ![p] = IdleCall] => CallOK'
<1>1. IdleCall \in CallType
  BY NoWrites DEF IdleCall, CallType
<1>2. QED
  BY <1>1 DEF CallOK, IdleCall

\* What an acceptance has by the time it commits.
LEMMA OverlayType ==
    ASSUME NEW w \in Writes, offer \in Offers
    PROVE  Overlaid(w) \in Offers
BY WritesType DEF Overlaid, Offers

\* What an acceptance leaves in the offers when it commits.
LEMMA CommitShape ==
    ASSUME TypeInv, NEW p \in Call, acceptCommits(p)
    PROVE  /\ offer' \in Offers
           /\ \A r \in Row : LET of == Overlaid(call[p].writes)
                             IN  offer'[r] = IF r = <<call[p].order, call[p].courier>>
                                             THEN "accepted"
                                             ELSE IF r[1] = call[p].order /\ of[r] \in Open
                                             THEN "lost" ELSE of[r]
           /\ order' \in [Order -> OrderStatus]
<1> DEFINE a == call[p]
           of == Overlaid(a.writes)
<1>1. a.writes \in Writes /\ offer \in Offers
  BY DEF TypeInv, TypeOK, CallOK, CallType, Offers
<1>2. of \in Offers
  BY <1>1, OverlayType
<1>3. a.order \in Order /\ a.courier \in Courier
  BY DEF TypeInv, CallOK, acceptCommits
<1>4. offer' = [r \in Row |->
              CASE r = <<a.order, a.courier>> -> "accepted"
                [] r[1] = a.order /\ r[2] # a.courier /\ of[r] \in Open -> "lost"
                [] OTHER -> of[r]]
  BY DEF acceptCommits
<1> HIDE DEF of
<1>5. \A r \in Row : offer'[r] = IF r = <<a.order, a.courier>> THEN "accepted"
                                 ELSE IF r[1] = a.order /\ of[r] \in Open
                                 THEN "lost" ELSE of[r]
  BY <1>4, RowsType
<1>6. offer' \in Offers
  BY <1>2, <1>4, <1>5 DEF Offers, OfferStatus
<1>7. order' \in [Order -> OrderStatus]
  <2>1. Marked(of, order) \in [Order -> OrderStatus]
    BY MarkedType DEF TypeInv, TypeOK
  <2>2. order' = [Marked(of, order) EXCEPT ![a.order] = "accepted"]
    BY DEF acceptCommits, of
  <2>3. QED
    BY <2>1, <2>2 DEF OrderStatus
<1>8. QED
  BY <1>5, <1>6, <1>7 DEF of

\* Every action keeps the types.
LEMMA TypeStep == TypeInv /\ [Next]_vars => TypeInv'
<1> SUFFICES ASSUME TypeInv, [Next]_vars PROVE TypeInv'
  OBVIOUS
<1> USE DEF TypeInv
<1>0. offer \in Offers /\ order \in [Order -> OrderStatus]
  BY DEF TypeOK, Offers
<1>1. CASE getMobileCourierOffers
  <2>1. PICK of \in advanceOnDemandDispatchQueue(offer, order) :
           offer' = of /\ order' = Marked(of, order)
    BY <1>1 DEF getMobileCourierOffers
  <2>2. offer' \in Offers /\ order' \in [Order -> OrderStatus]
    BY <1>0, <2>1, AdvanceLemma, MarkedType
  <2>3. QED
    BY <1>1, <2>2 DEF getMobileCourierOffers, TypeOK, CallOK, Offers, staff
<1>2. CASE processDueCustomerScheduledOrders
  <2>1. PICK S \in SUBSET {o \in Order : order[o] = "scheduled"} :
           LET os == [o \in Order |-> IF o \in S THEN "pending" ELSE order[o]]
           IN  \E of \in advanceOnDemandDispatchQueue(offer, os) :
                 offer' = of /\ order' = Marked(of, os)
    BY <1>2 DEF processDueCustomerScheduledOrders
  <2> DEFINE os == [o \in Order |-> IF o \in S THEN "pending" ELSE order[o]]
  <2>2. os \in [Order -> OrderStatus]
    BY <1>0 DEF OrderStatus
  <2>3. PICK of \in advanceOnDemandDispatchQueue(offer, os) :
           offer' = of /\ order' = Marked(of, os)
    BY <2>1
  <2> HIDE DEF os
  <2>4. offer' \in Offers /\ order' \in [Order -> OrderStatus]
    BY <1>0, <2>2, <2>3, AdvanceLemma, MarkedType
  <2>5. QED
    BY <1>2, <2>4 DEF processDueCustomerScheduledOrders, TypeOK, CallOK, Offers, staff
<1>3. ASSUME NEW c \in Courier, NEW o \in Order, rejectMobileCourierOffer(c, o)
      PROVE  TypeInv'
  <2>1. PICK g \in expireStaleOnDemandOffers(offer, order) :
           \E of \in dispatchNextOnDemandCourier([g EXCEPT ![<<o, c>>] = "rejected"],
                                                 order, {o}) :
              offer' = of /\ order' = Marked(of, order)
    BY <1>3 DEF rejectMobileCourierOffer
  <2>2. [g EXCEPT ![<<o, c>>] = "rejected"] \in Offers
    BY <1>0, <2>1, ExpireLemma DEF Offers, OfferStatus
  <2>3. PICK of \in dispatchNextOnDemandCourier([g EXCEPT ![<<o, c>>] = "rejected"],
                                                order, {o}) :
           offer' = of /\ order' = Marked(of, order)
    BY <2>1
  <2>4. offer' \in Offers /\ order' \in [Order -> OrderStatus]
    BY <1>0, <2>2, <2>3, DispatchLemma, MarkedType
  <2>5. QED
    BY <1>3, <2>4 DEF rejectMobileCourierOffer, TypeOK, CallOK, Offers, staff
<1>4. ASSUME NEW p \in Call, NEW c \in Courier, NEW o \in Order, acceptLocksOffer(p, c, o)
      PROVE  TypeInv'
  <2>1. PICK of \in expireStaleOnDemandOffers(offer, order) :
           call' = [call EXCEPT ![p] =
                [pc |-> "locked", courier |-> c, order |-> o,
                 writes |-> [r \in {x \in Row : of[x] # offer[x]} |-> of[r]]]]
    BY <1>4 DEF acceptLocksOffer
  <2>2. of \in Offers
    BY <1>0, <2>1, ExpireLemma
  <2>3. [r \in {x \in Row : of[x] # offer[x]} |-> of[r]] \in Writes
    <3> DEFINE D == {x \in Row : of[x] # offer[x]}
    <3>1. [r \in D |-> of[r]] \in [D -> OfferStatus]
      BY <2>2 DEF Offers
    <3>2. D \in SUBSET Row
      OBVIOUS
    <3> HIDE DEF D
    <3>3. [r \in D |-> of[r]] \in Writes
      BY <3>1, <3>2 DEF Writes
    <3>4. QED
      BY <3>3 DEF D
  <2>4. CallOK'
    BY <2>1, <2>3 DEF CallOK, CallType
  <2>5. QED
    BY <1>4, <2>4 DEF acceptLocksOffer, TypeOK, jobs, staff
<1>5. ASSUME NEW p \in Call, acceptReadsJobs(p) \/ acceptLocksProfile(p) \/ acceptRollsBack(p)
      PROVE  TypeInv'
  <2>1. CallOK'
    <3>1. call' = [call EXCEPT ![p] = IdleCall] \/ call' = [call EXCEPT ![p].pc = "read"]
            \/ call' = [call EXCEPT ![p].pc = "checked"]
      BY <1>5 DEF acceptReadsJobs, acceptLocksProfile, acceptRollsBack
    <3>2. call[p].pc # "idle"
      BY <1>5 DEF acceptReadsJobs, acceptLocksProfile, acceptRollsBack
    <3>3. CASE call' = [call EXCEPT ![p] = IdleCall]
      BY <3>3, EndedCall
    <3>4. CASE call' = [call EXCEPT ![p].pc = "read"] \/ call' = [call EXCEPT ![p].pc = "checked"]
      BY <3>2, <3>4 DEF CallOK, CallType
    <3>5. QED
      BY <3>1, <3>3, <3>4
  <2>2. QED
    BY <1>5, <2>1 DEF acceptReadsJobs, acceptLocksProfile, acceptRollsBack, TypeOK, jobs, staff
<1>6. ASSUME NEW p \in Call, acceptCommits(p) PROVE TypeInv'
  <2>1. offer' \in Offers /\ order' \in [Order -> OrderStatus]
    BY <1>6, CommitShape
  <2>2. CallOK'
    BY <1>6, EndedCall DEF acceptCommits
  <2>3. call[p].courier \in Courier
    BY <1>6 DEF CallOK, acceptCommits
  <2>4. leg' \in [Order -> Courier \cup {"none"}] /\ legStatus' \in [Order -> LegStatus]
    BY <1>6, <2>3 DEF acceptCommits, TypeOK, LegStatus
  <2>5. finalize_pending_courier_enforcement_actions
    BY <1>6 DEF acceptCommits
  <2>6. QED
    BY <2>1, <2>2, <2>4, <2>5, FinalizeType DEF TypeOK, Offers
<1>7. ASSUME NEW r \in Row, OfferLapses(r) PROVE TypeInv'
  BY <1>7 DEF OfferLapses, TypeOK, CallOK, OfferStatus, jobs, staff
<1>8. ASSUME NEW o \in Order, verifyOnDemandStep(o) PROVE TypeInv'
  <2>1. order' \in [Order -> OrderStatus] /\ legStatus' \in [Order -> LegStatus]
    BY <1>8 DEF verifyOnDemandStep, TypeOK, OrderStatus, LegStatus
  <2>2. QED
    BY <1>8, <2>1, FinalizeType DEF verifyOnDemandStep, TypeOK, CallOK
<1>9. ASSUME NEW o \in Order, Closes(o), UNCHANGED call PROVE TypeInv'
  <2>1. order' \in [Order -> OrderStatus] /\ legStatus' \in [Order -> LegStatus]
    BY <1>9 DEF Closes, TypeOK, OrderStatus, LegStatus
  <2>2. offer' \in Offers
    BY <1>0, <1>9 DEF Closes, Offers, OfferStatus
  <2>3. QED
    BY <1>9, <2>1, <2>2, FinalizeType DEF Closes, TypeOK, CallOK, Offers
<1>10. ASSUME NEW o \in Order, cancelMobileCourierOnDemandPickup(o) PROVE TypeInv'
  <2>1. order' \in [Order -> OrderStatus] /\ legStatus' \in [Order -> LegStatus]
    BY <1>10 DEF cancelMobileCourierOnDemandPickup, TypeOK, OrderStatus, LegStatus
  <2>2. offer' \in Offers
    BY <1>0, <1>10 DEF cancelMobileCourierOnDemandPickup, Offers, OfferStatus
  <2>3. QED
    BY <1>10, <2>1, <2>2, FinalizeType
    DEF cancelMobileCourierOnDemandPickup, TypeOK, CallOK, Offers
<1>11. ASSUME NEW c \in Courier, updateDutyOn(c) \/ updateDutyOff(c) PROVE TypeInv'
  BY <1>11 DEF updateDutyOn, updateDutyOff, TypeOK, CallOK, jobs
<1>12. ASSUME NEW c \in Courier, reviewAdminCourierEnforcementAppeal(c) PROVE TypeInv'
  BY <1>12 DEF reviewAdminCourierEnforcementAppeal, TypeOK, CallOK, jobs
<1>13. ASSUME NEW c \in Courier, NEW policy \in SafeJobPolicy,
              createAdminCourierEnforcementAction(c, policy)
       PROVE  TypeInv'
  <2>1. leg' \in [Order -> Courier \cup {"none"}] /\ legStatus' \in [Order -> LegStatus]
    BY <1>13 DEF createAdminCourierEnforcementAction, TypeOK, LegStatus
  <2>2. /\ {online', suspended'} \subseteq [Courier -> BOOLEAN]
        /\ action' \in [Courier -> {"none", "pending_safe_completion", "active",
                                    "stopped", "finalized"}]
    BY <1>13 DEF createAdminCourierEnforcementAction, TypeOK
  <2>3. QED
    BY <1>13, <2>1, <2>2 DEF createAdminCourierEnforcementAction, TypeOK, CallOK
<1>14. CASE tailExpires
  BY <1>14 DEF tailExpires, TypeOK, CallOK, OfferStatus, jobs, staff
<1>15. CASE tailInserts
  BY <1>15 DEF tailInserts, TypeOK, CallOK, OfferStatus, jobs, staff
<1>16. CASE tailMarks
  BY <1>16 DEF tailMarks, Offered, TypeOK, CallOK, OrderStatus, staff
<1>17. CASE UNCHANGED <<jobs, offer, staff, call>>
  BY <1>17 DEF TypeOK, CallOK, jobs, staff
<1>18. QED
  <2>1. \A o \in Order : cancelCustomerOrder(o) \/ forceCancelOrder(o) => Closes(o) /\ UNCHANGED call
    BY DEF cancelCustomerOrder, forceCancelOrder
  <2>2. tailReadsQueue \/ tailEnds \/ (\E o \in Order : tailPicks(o)) \/ UNCHANGED vars
           => UNCHANGED <<jobs, offer, staff, call>>
    BY DEF tailReadsQueue, tailEnds, tailPicks, vars
  <2>3. QED
    BY <1>1, <1>2, <1>3, <1>4, <1>5, <1>6, <1>7, <1>8, <1>9, <1>10, <1>11, <1>12, <1>13,
       <1>14, <1>15, <1>16, <1>17, <2>1, <2>2 DEF Next

\* The types hold at the start.
LEMMA TypeInit == Init => TypeInv
<1>1. IdleCall \in CallType /\ IdleCall.pc = "idle"
  BY NoWrites DEF IdleCall, CallType
<1>2. QED
  BY <1>1 DEF Init, TypeInv, TypeOK, CallOK, OrderStatus, LegStatus, OfferStatus

\* Every variable keeps its type: the status columns hold no value but those
\* of their CHECK constraints, whatever the queue, the acceptances and the
\* administrators do.
THEOREM TypeCorrect == Spec => []TypeOK
<1>1. TypeInv => TypeOK
  BY DEF TypeInv
<1>2. QED
  BY <1>1, TypeInit, TypeStep, PTL DEF Spec

-----------------------------------------------------------------------------
(* Custody                                                                 *)

\* An order in a courier's hands goes to another courier only after it was
\* taken away (the check of the existing leg in acceptMobileCourierOffer).
THEOREM CustodyKept == Spec => CustodyStays
<1>1. TypeInv /\ [Next]_vars =>
         [\A o \in Order : leg[o] # "none" => leg'[o] \in {leg[o], "none"}]_vars
  <2> SUFFICES ASSUME TypeInv, [Next]_vars
               PROVE  \A o \in Order : leg'[o] \in {leg[o], "none"} \/ leg[o] = "none"
    OBVIOUS
  <2>1. leg \in [Order -> Courier \cup {"none"}]
    BY DEF TypeInv, TypeOK
  <2>2. CASE UNCHANGED leg
    BY <2>2
  <2>3. ASSUME NEW p \in Call, acceptCommits(p)
        PROVE  \A o \in Order : leg'[o] \in {leg[o], "none"} \/ leg[o] = "none"
    BY <2>1, <2>3 DEF acceptCommits, LegFree
  <2>4. ASSUME NEW c \in Courier, NEW policy \in SafeJobPolicy,
               createAdminCourierEnforcementAction(c, policy)
        PROVE  \A o \in Order : leg'[o] \in {leg[o], "none"}
    BY <2>4 DEF createAdminCourierEnforcementAction
  <2>5. QED
    BY <2>2, <2>3, <2>4
    DEF Next, getMobileCourierOffers, processDueCustomerScheduledOrders,
        rejectMobileCourierOffer, acceptLocksOffer, acceptReadsJobs, acceptLocksProfile,
        acceptRollsBack, OfferLapses, verifyOnDemandStep, cancelCustomerOrder,
        forceCancelOrder, Closes, cancelMobileCourierOnDemandPickup, tailPicks,
        updateDutyOn, updateDutyOff, reviewAdminCourierEnforcementAppeal, tailExpires,
        tailReadsQueue, tailInserts, tailMarks, tailEnds, vars, jobs
<1>2. QED
  <2>1. Init => TypeInv
    BY TypeInit
  <2>2. QED
    BY <1>1, <2>1, TypeStep, PTL DEF Spec, CustodyStays

-----------------------------------------------------------------------------
(* One open offer                                                          *)

Busy(p) == call[p].pc # "idle"
Own(p) == <<call[p].order, call[p].courier>>

\* An acceptance has expired lapsed rows, offered anew orders of which it holds
\* a lapsed row, and holds its own row open.
CallInv(p) ==
    LET w == call[p].writes
    IN  Busy(p) =>
          /\ \A r \in DOMAIN w :
                /\ w[r] \in {"expired", "offered"}
                /\ w[r] = "expired" => offer[r] = "lapsed"
                /\ \E s \in DOMAIN w : s[1] = r[1] /\ offer[s] = "lapsed"
          /\ \A r, s \in DOMAIN w :
                w[r] = "offered" /\ w[s] = "offered" /\ r[1] = s[1] => r = s
          /\ IF Own(p) \in DOMAIN w THEN w[Own(p)] = "offered" ELSE offer[Own(p)] \in Open

\* Two acceptances hold different rows, and one of them has written nothing.
Apart ==
    \A p, q \in Call : p # q =>
        /\ Locked(p) \cap Locked(q) = {}
        /\ Busy(p) /\ Busy(q) => DOMAIN call[p].writes = {} \/ DOMAIN call[q].writes = {}

OfferInv == TypeInv /\ Single(offer) /\ (\A p \in Call : CallInv(p)) /\ Apart

\* One open offer for an order, as a number.
LEMMA SingleIsOne == ASSUME Single(offer) PROVE OneOpenOffer
<1> SUFFICES ASSUME NEW o \in Order
             PROVE  Cardinality({c \in Courier : offer[<<o, c>>] \in Open}) <= 1
  BY DEF OneOpenOffer
<1> DEFINE S == {c \in Courier : offer[<<o, c>>] \in Open}
<1>1. CASE S = {}
  <2>1. Cardinality(S) = 0
    BY <1>1, FS_EmptySet, Zenon
  <2>2. QED
    BY <2>1
<1>2. CASE S # {}
  <2>1. PICK c \in S : TRUE
    BY <1>2
  <2>2. S = {c}
    BY <2>1 DEF Single
  <2>3. Cardinality(S) = 1
    BY <2>2, FS_Singleton, Zenon
  <2>4. QED
    BY <2>3
<1>3. QED
  BY <1>1, <1>2

\* A busy acceptance has locked its own row and what it has written.
LEMMA LockedRows ==
    ASSUME TypeInv, NEW p \in Call
    PROVE  /\ Locked(p) \subseteq Row
           /\ Busy(p) => Own(p) \in Locked(p) /\ DOMAIN call[p].writes \subseteq Locked(p)
                         /\ Own(p) \in Row
<1>1. call[p].writes \in Writes
  BY DEF TypeInv, CallOK, CallType
<1>2. Busy(p) => Own(p) \in Row
  BY DEF TypeInv, CallOK, Row, Busy, Own
<1>3. QED
  BY <1>1, <1>2, WritesType DEF Locked, Own, Busy

\* Where no stale row is locked no acceptance has written any.
LEMMA NothingWritten ==
    ASSUME OfferInv, RowsFree(Stale(offer)), NEW p \in Call, Busy(p)
    PROVE  /\ DOMAIN call[p].writes = {} /\ Locked(p) = {Own(p)}
           /\ offer[Own(p)] = "offered"
<1>1. \A r \in Locked(p) : offer[r] # "lapsed"
  BY LockedRows DEF RowsFree, Stale, OfferInv
<1>2. DOMAIN call[p].writes = {}
  BY <1>1, LockedRows DEF OfferInv, CallInv
<1>3. Locked(p) = {Own(p)}
  BY <1>2 DEF Locked, Own, Busy
<1>4. QED
  BY <1>1, <1>2, <1>3, LockedRows DEF OfferInv, CallInv, Open

\* What the other transactions do to the rows that are not locked.
LEMMA OffersMove ==
    ASSUME OfferInv, TypeInv', UNCHANGED call, Single(offer'),
           \A q \in Call : \A r \in Locked(q) :
               /\ offer[r] = "lapsed" => offer'[r] = "lapsed"
               /\ offer[r] = "offered" => offer'[r] \in Open
    PROVE  OfferInv'
<1>1. Apart'
  BY DEF OfferInv, Apart, Locked, Busy
<1>2. ASSUME NEW p \in Call PROVE CallInv(p)'
  <2> SUFFICES ASSUME Busy(p) PROVE CallInv(p)'
    BY DEF CallInv, Busy
  <2>1. Own(p) \in Locked(p) /\ DOMAIN call[p].writes \subseteq Locked(p)
    BY LockedRows DEF OfferInv
  <2>2. CallInv(p)
    BY DEF OfferInv
  <2>3. QED
    BY <2>1, <2>2 DEF CallInv, Busy, Own, Open
<1>3. QED
  BY <1>1, <1>2 DEF OfferInv

\* A run of the queue that found the stale rows free.
LEMMA QueueMoves ==
    ASSUME OfferInv, TypeInv', UNCHANGED call, Single(offer'), RowsFree(Stale(offer)),
           \A q \in Call : \A r \in Locked(q) : offer[r] = "offered" => offer'[r] \in Open
    PROVE  OfferInv'
<1>1. \A q \in Call : \A r \in Locked(q) : offer[r] # "lapsed"
  BY LockedRows DEF RowsFree, Stale, OfferInv
<1>2. QED
  BY <1>1, OffersMove

\* An acceptance that goes on or is rolled back.
LEMMA AcceptanceMoves ==
    ASSUME OfferInv, TypeInv', UNCHANGED offer, NEW p \in Call, Busy(p),
           call' = [call EXCEPT ![p] = IdleCall] \/ call' = [call EXCEPT ![p].pc = "read"]
              \/ call' = [call EXCEPT ![p].pc = "checked"]
    PROVE  OfferInv'
<1>1. call \in [Call -> CallType]
  BY DEF OfferInv, TypeInv, CallOK
<1>2. \A q \in Call : Busy(q)' => /\ Busy(q) /\ call'[q].writes = call[q].writes
                                  /\ call'[q].order = call[q].order
                                  /\ call'[q].courier = call[q].courier
  BY <1>1 DEF Busy, IdleCall, CallType
<1>3. ASSUME NEW q \in Call, Busy(q)' PROVE CallInv(q)'
  <2>1. CallInv(q) /\ Busy(q) /\ Own(q)' = Own(q) /\ call'[q].writes = call[q].writes
    BY <1>2, <1>3 DEF OfferInv, Own
  <2>2. QED
    BY <2>1 DEF CallInv
<1>4. \A q \in Call : Locked(q)' \subseteq Locked(q)
  BY <1>2 DEF Locked, Busy
<1>5. Apart'
  BY <1>2, <1>4 DEF OfferInv, Apart
<1>6. \A q \in Call : CallInv(q)'
  BY <1>3 DEF CallInv
<1>7. QED
  BY <1>5, <1>6 DEF OfferInv, Single

\* An acceptance that begins finds its row free, and nobody else has written.
LEMMA AcceptanceLocks ==
    ASSUME OfferInv, TypeInv', NEW p \in Call, NEW c \in Courier, NEW o \in Order,
           acceptLocksOffer(p, c, o)
    PROVE  OfferInv'
<1>1. offer \in Offers /\ call \in [Call -> CallType]
  BY DEF OfferInv, TypeInv, TypeOK, CallOK, Offers
<1>2. PICK of \in expireStaleOnDemandOffers(offer, order) :
         /\ of[<<o, c>>] = "offered"
         /\ call' = [call EXCEPT ![p] =
              [pc |-> "locked", courier |-> c, order |-> o,
               writes |-> [r \in {x \in Row : of[x] # offer[x]} |-> of[r]]]]
  BY DEF acceptLocksOffer
<1>3. /\ of \in Offers
      /\ \A r \in Row : of[r] # offer[r] =>
            /\ of[r] \in {"expired", "offered"}
            /\ of[r] = "expired" => offer[r] = "lapsed"
            /\ \E s \in Row : s[1] = r[1] /\ offer[s] = "lapsed" /\ of[s] # offer[s]
      /\ Single(of)
  BY <1>1, <1>2, ExpireLemma DEF OfferInv
<1>4. UNCHANGED offer /\ ~Busy(p) /\ RowsFree(Stale(offer)) /\ RowsFree({<<o, c>>})
  BY DEF acceptLocksOffer, Busy, RowsFree
<1> DEFINE D == {x \in Row : of[x] # offer[x]}
           w == [r \in D |-> of[r]]
<1>5. /\ call'[p].pc = "locked" /\ call'[p].courier = c /\ call'[p].order = o
      /\ call'[p].writes = w
      /\ \A q \in Call \ {p} : call'[q] = call[q]
  BY <1>1, <1>2
<1>6. <<o, c>> \in Row
  BY DEF Row
<1>7. CallInv(p)'
  <2>1. \A r \in D : /\ w[r] \in {"expired", "offered"}
                     /\ w[r] = "expired" => offer[r] = "lapsed"
                     /\ \E s \in D : s[1] = r[1] /\ offer[s] = "lapsed"
    BY <1>3
  <2>2. ASSUME NEW r \in D, NEW s \in D, w[r] = "offered", w[s] = "offered", r[1] = s[1]
        PROVE  r = s
    <3>1. r = <<r[1], r[2]>> /\ s = <<r[1], s[2]>> /\ r[1] \in Order
             /\ r[2] \in Courier /\ s[2] \in Courier
      BY <2>2, RowsType
    <3>2. of[<<r[1], r[2]>>] \in Open /\ of[<<r[1], s[2]>>] \in Open
      BY <3>1, <2>2 DEF Open
    <3>3. r[2] = s[2]
      BY <1>3, <3>1, <3>2 DEF Single
    <3>4. QED
      BY <3>1, <3>3
  <2>3. IF <<o, c>> \in D THEN w[<<o, c>>] = "offered" ELSE offer[<<o, c>>] \in Open
    BY <1>2, <1>6 DEF Open
  <2>4. DOMAIN w = D
    OBVIOUS
  <2> HIDE DEF D, w
  <2>5. QED
    BY <2>1, <2>2, <2>3, <2>4, <1>4, <1>5 DEF CallInv, Own
<1>8. ASSUME NEW q \in Call \ {p} PROVE CallInv(q)'
  <2>1. CallInv(q) /\ call'[q] = call[q] /\ offer' = offer
    BY <1>4, <1>5 DEF OfferInv
  <2>2. (Busy(q)' <=> Busy(q)) /\ Own(q)' = Own(q)
    BY <2>1 DEF Busy, Own
  <2>3. QED
    BY <2>1, <2>2 DEF CallInv
<1>9. Apart'
  <2>1. ASSUME NEW q \in Call \ {p}
        PROVE  /\ Locked(q)' = Locked(q) /\ Locked(q) \cap Locked(p)' = {}
               /\ Busy(q) => DOMAIN call[q].writes = {}
    <3>1. Locked(q)' = Locked(q)
      BY <1>5 DEF Locked
    <3>2. CASE Busy(q)
      <4>1. /\ DOMAIN call[q].writes = {} /\ Locked(q) = {Own(q)}
            /\ offer[Own(q)] = "offered" /\ Own(q) \in Row
        BY <1>4, <3>2, NothingWritten, LockedRows DEF OfferInv
      <4>2. Own(q) \notin D
        BY <4>1, <1>1, <1>2, ExpireLemma
      <4>3. Own(q) # <<o, c>>
        BY <4>1, <1>4 DEF RowsFree
      <4>4. Locked(p)' = D \cup {<<o, c>>}
        BY <1>5 DEF Locked
      <4>5. QED
        BY <3>1, <4>1, <4>2, <4>3, <4>4
    <3>3. CASE ~Busy(q)
      BY <3>1, <3>3 DEF Locked, Busy
    <3>4. QED
      BY <3>2, <3>3
  <2>2. \A q \in Call \ {p} : Busy(q)' <=> Busy(q)
    BY <1>5 DEF Busy
  <2>3. QED
    BY <2>1, <2>2, <1>5 DEF OfferInv, Apart
<1>10. QED
  BY <1>4, <1>7, <1>8, <1>9 DEF OfferInv

\* An acceptance that commits closes the offers of its order, and what it
\* writes for others meets no row of another acceptance.
LEMMA AcceptanceCommits ==
    ASSUME OfferInv, TypeInv', NEW p \in Call, acceptCommits(p)
    PROVE  OfferInv'
<1> DEFINE a == call[p]
           of == Overlaid(a.writes)
<1>1. /\ Busy(p) /\ a.order \in Order /\ a.courier \in Courier
      /\ a.writes \in Writes /\ call \in [Call -> CallType]
  BY DEF acceptCommits, Busy, OfferInv, TypeInv, CallOK, CallType
<1>2. \A r \in Row : offer'[r] = IF r = Own(p) THEN "accepted"
                                 ELSE IF r[1] = a.order /\ of[r] \in Open
                                 THEN "lost" ELSE of[r]
  BY CommitShape DEF OfferInv, Own
<1>3. \A r \in Row : of[r] = IF r \in DOMAIN a.writes THEN a.writes[r] ELSE offer[r]
  BY DEF Overlaid
<1>4. Own(p) \in Row /\ DOMAIN a.writes \subseteq Row /\ DOMAIN a.writes \subseteq Locked(p)
         /\ Own(p) \in Locked(p)
  BY <1>1, LockedRows, WritesType DEF OfferInv
<1>5. CallInv(p) /\ Single(offer) /\ Apart
  BY DEF OfferInv
<1> HIDE DEF of
<1>6. \* an order of which rows were written has a lapsed one among them
      \A r \in DOMAIN a.writes : \E s \in DOMAIN a.writes : s[1] = r[1] /\ offer[s] = "lapsed"
  BY <1>1, <1>5 DEF CallInv
<1>7. ASSUME NEW r \in Row, NEW s \in Row, r[1] = s[1],
             offer[r] \in Open, offer[s] \in Open
      PROVE  r = s
  <2>1. r = <<r[1], r[2]>> /\ s = <<r[1], s[2]>> /\ r[1] \in Order
           /\ r[2] \in Courier /\ s[2] \in Courier
    BY <1>7, RowsType
  <2>2. r[2] = s[2]
    BY <1>5, <1>7, <2>1 DEF Single
  <2>3. QED
    BY <2>1, <2>2
<1>8. \* an order of which rows were written has no open row beside them
      ASSUME NEW r \in DOMAIN a.writes, NEW s \in Row \ DOMAIN a.writes, r[1] = s[1]
      PROVE  offer[s] \notin Open
  BY <1>4, <1>6, <1>7, <1>8 DEF Open
<1>9. Single(offer')
  <2> SUFFICES ASSUME NEW o \in Order, NEW c \in Courier, NEW d \in Courier,
                      offer'[<<o, c>>] \in Open, offer'[<<o, d>>] \in Open
               PROVE  c = d
    BY DEF Single
  <2> DEFINE r == <<o, c>>
             s == <<o, d>>
  <2>1. r \in Row /\ s \in Row /\ r[1] = o /\ s[1] = o
    BY DEF Row
  <2>2. offer'[r] = of[r] /\ offer'[s] = of[s]
    BY <1>2, <2>1 DEF Open
  <2>3. r = s
    <3> HIDE DEF r, s
    <3>1. CASE r \in DOMAIN a.writes /\ s \in DOMAIN a.writes
      BY <1>1, <1>3, <1>5, <2>1, <2>2, <3>1 DEF CallInv, Open, r, s
    <3>2. CASE r \in DOMAIN a.writes /\ s \notin DOMAIN a.writes
      BY <1>3, <1>8, <2>1, <2>2, <3>2 DEF r, s
    <3>3. CASE r \notin DOMAIN a.writes /\ s \in DOMAIN a.writes
      BY <1>3, <1>8, <2>1, <2>2, <3>3 DEF r, s
    <3>4. CASE r \notin DOMAIN a.writes /\ s \notin DOMAIN a.writes
      BY <1>3, <1>7, <2>1, <2>2, <3>4 DEF r, s
    <3>5. QED
      BY <3>1, <3>2, <3>3, <3>4
  <2>4. QED
    BY <2>3
<1>10. call' = [call EXCEPT ![p] = IdleCall]
  BY DEF acceptCommits
<1>11. ~Busy(p)' /\ Locked(p)' = {}
  BY <1>1, <1>10 DEF Busy, IdleCall, Locked
<1>12. \A q \in Call \ {p} : call'[q] = call[q]
  BY <1>1, <1>10
<1>13. Apart'
  BY <1>5, <1>11, <1>12 DEF Apart, Busy, Locked
<1>14. ASSUME NEW q \in Call \ {p}, Busy(q) PROVE CallInv(q)'
  <2>1. /\ Own(q) \in Row /\ Own(q) \in Locked(q) /\ DOMAIN call[q].writes \subseteq Locked(q)
        /\ Locked(q) \cap Locked(p) = {} /\ Locked(q) \subseteq Row
    BY <1>5, <1>14, LockedRows DEF OfferInv, Apart
  <2>2. CallInv(q)
    BY DEF OfferInv
  <2>3. CASE DOMAIN call[q].writes # {}
    <3>1. DOMAIN a.writes = {}
      BY <1>1, <1>5, <1>14, <2>3 DEF Apart
    <3>2. offer[Own(p)] \in Open
      BY <1>1, <1>5, <3>1 DEF CallInv
    <3>3. \A r \in Row : r # Own(p) => offer'[r] = offer[r]
      BY <1>2, <1>3, <1>4, <1>7, <3>1, <3>2 DEF Own
    <3>4. \A r \in Locked(q) : offer'[r] = offer[r]
      BY <1>4, <2>1, <3>3
    <3>5. QED
      BY <1>12, <2>1, <2>2, <3>4 DEF CallInv, Own, Busy
  <2>4. CASE DOMAIN call[q].writes = {}
    <3>1. offer[Own(q)] \in Open
      BY <1>14, <2>2, <2>4 DEF CallInv
    <3>2. Own(q) \notin DOMAIN a.writes /\ Own(q) # Own(p)
      BY <1>4, <2>1
    <3>3. Own(q)[1] # a.order
      <4> SUFFICES ASSUME Own(q)[1] = a.order PROVE FALSE
        OBVIOUS
      <4>1. Own(p)[1] = Own(q)[1]
        BY DEF Own
      <4>2. CASE Own(p) \in DOMAIN a.writes
        BY <1>8, <2>1, <3>1, <3>2, <4>1, <4>2
      <4>3. CASE Own(p) \notin DOMAIN a.writes
        <5>1. offer[Own(p)] \in Open
          BY <1>1, <1>5, <4>3 DEF CallInv
        <5>2. QED
          BY <1>4, <1>7, <2>1, <3>1, <3>2, <4>1, <5>1
      <4>4. QED
        BY <4>2, <4>3
    <3>4. offer'[Own(q)] \in Open
      BY <1>2, <1>3, <2>1, <3>1, <3>2, <3>3
    <3>5. QED
      BY <1>12, <2>4, <3>4 DEF CallInv, Own, Busy
  <2>5. QED
    BY <2>3, <2>4
<1>15. \A q \in Call : CallInv(q)'
  BY <1>11, <1>12, <1>14 DEF CallInv, Busy
<1>16. QED
  BY <1>9, <1>13, <1>15 DEF OfferInv

\* Every action keeps the rows of the acceptances apart.
LEMMA OfferStep == OfferInv /\ [Next]_vars => OfferInv'
<1> SUFFICES ASSUME OfferInv, [Next]_vars PROVE OfferInv'
  OBVIOUS
<1>0. /\ TypeInv /\ TypeInv' /\ Single(offer) /\ offer \in Offers
      /\ \A q \in Call : Locked(q) \subseteq Row
  BY TypeStep, LockedRows DEF OfferInv, TypeInv, TypeOK, Offers
<1>1. CASE getMobileCourierOffers
  <2>1. PICK of \in advanceOnDemandDispatchQueue(offer, order) : offer' = of
    BY <1>1 DEF getMobileCourierOffers
  <2>2. Single(offer') /\ \A r \in Row : offer[r] = "offered" => offer'[r] = "offered"
    BY <1>0, <2>1, AdvanceLemma
  <2>3. QED
    BY <1>0, <1>1, <2>2, QueueMoves DEF getMobileCourierOffers, Open
<1>2. CASE processDueCustomerScheduledOrders
  <2>1. PICK S \in SUBSET {o \in Order : order[o] = "scheduled"} :
           LET os == [o \in Order |-> IF o \in S THEN "pending" ELSE order[o]]
           IN  \E of \in advanceOnDemandDispatchQueue(offer, os) : offer' = of
    BY <1>2 DEF processDueCustomerScheduledOrders
  <2> DEFINE os == [o \in Order |-> IF o \in S THEN "pending" ELSE order[o]]
  <2>2. PICK of \in advanceOnDemandDispatchQueue(offer, os) : offer' = of
    BY <2>1
  <2> HIDE DEF os
  <2>3. Single(offer') /\ \A r \in Row : offer[r] = "offered" => offer'[r] = "offered"
    BY <1>0, <2>2, AdvanceLemma
  <2>4. RowsFree(Stale(offer)) /\ UNCHANGED call
    BY <1>2 DEF processDueCustomerScheduledOrders
  <2>5. QED
    BY <1>0, <2>3, <2>4, QueueMoves DEF Open
<1>3. ASSUME NEW c \in Courier, NEW o \in Order, rejectMobileCourierOffer(c, o)
      PROVE  OfferInv'
  <2>1. PICK g \in expireStaleOnDemandOffers(offer, order) :
           /\ g[<<o, c>>] = "offered"
           /\ \E of \in dispatchNextOnDemandCourier([g EXCEPT ![<<o, c>>] = "rejected"],
                                                    order, {o}) : offer' = of
    BY <1>3 DEF rejectMobileCourierOffer
  <2> DEFINE k == [g EXCEPT ![<<o, c>>] = "rejected"]
  <2>2. /\ g \in Offers /\ Single(g)
        /\ \A r \in Row : offer[r] = "offered" => g[r] = "offered"
    BY <1>0, <2>1, ExpireLemma
  <2>3. k \in Offers /\ \A r \in Row : k[r] = IF r = <<o, c>> THEN "rejected" ELSE g[r]
    BY <2>2 DEF Offers, OfferStatus
  <2>4. PICK of \in dispatchNextOnDemandCourier(k, order, {o}) : offer' = of
    BY <2>1
  <2> HIDE DEF k
  <2>5. Single(k)
    <3> SUFFICES ASSUME NEW x \in Order, NEW d \in Courier, NEW e \in Courier,
                        k[<<x, d>>] \in Open, k[<<x, e>>] \in Open
                 PROVE  d = e
      BY DEF Single
    <3>1. <<x, d>> \in Row /\ <<x, e>> \in Row
      BY DEF Row
    <3>2. g[<<x, d>>] \in Open /\ g[<<x, e>>] \in Open
      BY <2>3, <3>1 DEF Open
    <3>3. QED
      BY <2>2, <3>2 DEF Single
  <2>6. Single(offer') /\ \A r \in Row : offer'[r] # k[r] => offer'[r] = "offered"
    BY <2>3, <2>4, <2>5, DispatchLemma
  <2>7. UNCHANGED call /\ RowsFree(Stale(offer)) /\ RowsFree({<<o, c>>})
    BY <1>3 DEF rejectMobileCourierOffer, RowsFree
  <2>8. \A r \in Row : offer[r] = "offered" /\ r # <<o, c>> => offer'[r] = "offered"
    BY <2>2, <2>3, <2>6
  <2>9. \A q \in Call : \A r \in Locked(q) : offer[r] = "offered" => offer'[r] \in Open
    BY <1>0, <2>7, <2>8 DEF RowsFree, Open
  <2>10. QED
    BY <1>0, <2>6, <2>7, <2>9, QueueMoves
<1>4. ASSUME NEW p \in Call, NEW c \in Courier, NEW o \in Order, acceptLocksOffer(p, c, o)
      PROVE  OfferInv'
  BY <1>0, <1>4, AcceptanceLocks
<1>5. ASSUME NEW p \in Call, acceptReadsJobs(p) \/ acceptLocksProfile(p) \/ acceptRollsBack(p)
      PROVE  OfferInv'
  <2>1. Busy(p) /\ UNCHANGED offer
    BY <1>5 DEF acceptReadsJobs, acceptLocksProfile, acceptRollsBack, Busy
  <2>2. call' = [call EXCEPT ![p] = IdleCall] \/ call' = [call EXCEPT ![p].pc = "read"]
          \/ call' = [call EXCEPT ![p].pc = "checked"]
    BY <1>5 DEF acceptReadsJobs, acceptLocksProfile, acceptRollsBack
  <2>3. QED
    BY <1>0, <2>1, <2>2, AcceptanceMoves
<1>6. ASSUME NEW p \in Call, acceptCommits(p) PROVE OfferInv'
  BY <1>0, <1>6, AcceptanceCommits
<1>7. ASSUME NEW r \in Row, OfferLapses(r) PROVE OfferInv'
  <2>1. \A x \in Row : offer'[x] = IF x = r THEN "lapsed" ELSE offer[x]
    BY <1>0, <1>7 DEF OfferLapses, Offers
  <2>2. \A x \in Row : offer'[x] \in Open => offer[x] \in Open
    BY <1>7, <2>1 DEF OfferLapses, Open
  <2>3. Single(offer')
    BY <1>0, <2>2 DEF Single, Row
  <2>4. UNCHANGED call
    BY <1>7 DEF OfferLapses
  <2>5. QED
    BY <1>0, <2>1, <2>3, <2>4, OffersMove DEF Open
<1>8. ASSUME NEW o \in Order, Closes(o), UNCHANGED call, RowsFree(OffersOf(o)) PROVE OfferInv'
  <2>1. \A x \in Row : offer'[x] = IF x[1] = o /\ offer[x] \in Open THEN "expired" ELSE offer[x]
    BY <1>8 DEF Closes
  <2>2. \A x \in Row : offer'[x] \in Open => offer[x] \in Open
    BY <2>1 DEF Open
  <2>3. Single(offer')
    BY <1>0, <2>2 DEF Single, Row
  <2>4. \A q \in Call : \A x \in Locked(q) : offer[x] \in Open => offer'[x] = offer[x]
    BY <1>0, <1>8, <2>1 DEF RowsFree, OffersOf, Open
  <2>5. QED
    BY <1>0, <1>8, <2>3, <2>4, OffersMove DEF Open
<1>9. ASSUME NEW o \in Order, cancelMobileCourierOnDemandPickup(o) PROVE OfferInv'
  <2>1. /\ \A x \in Row : offer[x] \in Open => offer'[x] = offer[x]
        /\ \A x \in Row : offer'[x] \in Open => offer[x] \in Open
    BY <1>0, <1>9 DEF cancelMobileCourierOnDemandPickup, Open, Offers
  <2>2. Single(offer')
    BY <1>0, <2>1 DEF Single, Row
  <2>3. UNCHANGED call
    BY <1>9 DEF cancelMobileCourierOnDemandPickup
  <2>4. QED
    BY <1>0, <2>1, <2>2, <2>3, OffersMove DEF Open
<1>10. CASE tailExpires
  <2>1. \A x \in Row : offer'[x] = IF offer[x] = "lapsed" THEN "expired" ELSE offer[x]
    BY <1>10 DEF tailExpires, Stale
  <2>2. Single(offer')
    BY <1>0, <2>1 DEF Single, Row, Open
  <2>3. UNCHANGED call /\ RowsFree(Stale(offer))
    BY <1>10 DEF tailExpires
  <2>4. QED
    BY <1>0, <2>1, <2>2, <2>3, QueueMoves DEF Open
<1>11. CASE tailInserts
  <2> DEFINE r == <<tail.order, tail.courier>>
  <2>1. UNCHANGED call /\ RowsFree({r})
    BY <1>11 DEF tailInserts, RowsFree
  <2>2. CASE UNCHANGED offer
    BY <1>0, <2>1, <2>2, OffersMove DEF Open
  <2>3. CASE offer' = [offer EXCEPT ![r] = "offered"] /\ UniqueOffer(r)
    <3> HIDE DEF r
    <3>1. \A x \in Row : offer'[x] = IF x = r THEN "offered" ELSE offer[x]
      BY <1>0, <2>3 DEF Offers
    <3>2. \A x \in Row : offer[x] \in Open /\ x[1] = r[1] => x = r
      BY <2>3 DEF UniqueOffer, OffersOf, Open
    <3>3. Single(offer')
      <4> SUFFICES ASSUME NEW o \in Order, NEW c \in Courier, NEW d \in Courier,
                          offer'[<<o, c>>] \in Open, offer'[<<o, d>>] \in Open
                   PROVE  c = d
        BY DEF Single
      <4>1. <<o, c>> \in Row /\ <<o, d>> \in Row
        BY DEF Row
      <4>2. CASE <<o, c>> = r
        BY <3>1, <3>2, <4>1, <4>2
      <4>3. CASE <<o, d>> = r
        BY <3>1, <3>2, <4>1, <4>3
      <4>4. CASE <<o, c>> # r /\ <<o, d>> # r
        BY <1>0, <3>1, <4>1, <4>4 DEF Single
      <4>5. QED
        BY <4>2, <4>3, <4>4
    <3>4. \A q \in Call : \A x \in Locked(q) : offer'[x] = offer[x]
      BY <1>0, <2>1, <3>1 DEF RowsFree
    <3>5. QED
      BY <1>0, <2>1, <3>3, <3>4, OffersMove DEF Open
  <2>4. QED
    BY <1>11, <2>2, <2>3 DEF tailInserts
<1>12. CASE UNCHANGED <<offer, call>>
  BY <1>0, <1>12, OffersMove DEF Open
<1>13. QED
  <2>1. \A o \in Order : cancelCustomerOrder(o) \/ forceCancelOrder(o) =>
           Closes(o) /\ UNCHANGED call /\ RowsFree(OffersOf(o))
    BY DEF cancelCustomerOrder, forceCancelOrder
  <2>2. \A c \in Courier :
           (\/ updateDutyOn(c) \/ updateDutyOff(c) \/ reviewAdminCourierEnforcementAppeal(c)
            \/ \E policy \in SafeJobPolicy : createAdminCourierEnforcementAction(c, policy))
           => UNCHANGED <<offer, call>>
    BY DEF updateDutyOn, updateDutyOff, reviewAdminCourierEnforcementAppeal,
           createAdminCourierEnforcementAction
  <2>3. tailReadsQueue \/ tailEnds \/ tailMarks \/ UNCHANGED vars
           \/ (\E o \in Order : tailPicks(o) \/ verifyOnDemandStep(o))
           => UNCHANGED <<offer, call>>
    BY DEF tailReadsQueue, tailEnds, tailMarks, tailPicks, verifyOnDemandStep, vars
  <2>4. QED
    BY <1>1, <1>2, <1>3, <1>4, <1>5, <1>6, <1>7, <1>8, <1>9, <1>10, <1>11, <1>12,
       <2>1, <2>2, <2>3 DEF Next

\* An order never has two open offers, although the queue runs in transactions
\* and in bare statements, and an acceptance works on rows it has expired
\* itself (dispatchNextOnDemandCourier and its unique index).
THEOREM OneOfferOpen == Spec => []OneOpenOffer
<1>1. Init => OfferInv
  <2> SUFFICES ASSUME Init PROVE OfferInv
    OBVIOUS
  <2>1. TypeInv
    BY TypeInit
  <2>2. Single(offer)
    BY DEF Init, Single, Row, Open
  <2>3. \A p \in Call : ~Busy(p) /\ Locked(p) = {}
    BY DEF Init, Busy, IdleCall, Locked
  <2>4. QED
    BY <2>1, <2>2, <2>3 DEF OfferInv, CallInv, Apart
<1>2. OfferInv => OneOpenOffer
  BY SingleIsOne DEF OfferInv
<1>3. QED
  BY <1>1, <1>2, OfferStep, PTL DEF Spec

-----------------------------------------------------------------------------
(* Jobs                                                                    *)

Serving(p) == call[p].pc \in {"read", "checked"}

\* The courier has room for one more order, o.
RoomFor(c, o) ==
    /\ Cardinality(ActiveJobs(c) \ {o}) < MaxActive
    /\ SameCustomer => \A x \in ActiveJobs(c) \ {o} : Customer[x] = Customer[o]

\* Order and leg agree while a courier is at work.
JobsAgree ==
    \A o \in Order : leg[o] # "none" /\ order[o] \in {"accepted", "in_transit"}
                     => legStatus[o] = order[o]

\* What an acceptance has read of the jobs still gives room.
ServingInv(p) ==
    /\ Serving(p) => RoomFor(call[p].courier, call[p].order)
    /\ call[p].pc = "checked" => action[call[p].courier] # "active"

\* The advisory lock.
OnePerCourier ==
    \A p, q \in Call : p # q /\ Serving(p) /\ Serving(q) => call[p].courier # call[q].courier

JobInv ==
    /\ TypeInv /\ JobsAgree /\ SuspendedIdle /\ BatchPolicy /\ OnePerCourier
    /\ \A p \in Call : ServingInv(p)

\* A courier has finitely many jobs.
LEMMA JobsFinite == \A c \in Courier : ActiveJobs(c) \subseteq Order /\ IsFiniteSet(ActiveJobs(c))
<1>1. IsFiniteSet(Order)
  BY OfferAssumption
<1>2. \A c \in Courier : ActiveJobs(c) \subseteq Order
  BY DEF ActiveJobs
<1>3. QED
  BY <1>1, <1>2, FS_Subset

\* And so has it after a step.
LEMMA JobsFiniteNext ==
    \A c \in Courier : ActiveJobs(c)' \subseteq Order /\ IsFiniteSet(ActiveJobs(c)')
<1>1. IsFiniteSet(Order)
  BY OfferAssumption
<1>2. \A c \in Courier : ActiveJobs(c)' \subseteq Order
  BY DEF ActiveJobs
<1>3. QED
  BY <1>1, <1>2, FS_Subset

\* A smaller set has no more elements.
LEMMA FewerIsLess ==
    ASSUME NEW S, IsFiniteSet(S), NEW T \in SUBSET S
    PROVE  /\ IsFiniteSet(T) /\ Cardinality(S) \in Nat /\ Cardinality(T) \in Nat
           /\ Cardinality(T) <= Cardinality(S)
BY FS_Subset, FS_CardinalityType

\* A courier with fewer jobs has room where it had.
LEMMA RoomStays ==
    ASSUME NEW c \in Courier, NEW o \in Order, RoomFor(c, o),
           ActiveJobs(c)' \subseteq ActiveJobs(c) \cup {o}
    PROVE  RoomFor(c, o)'
<1> DEFINE S == ActiveJobs(c) \ {o}
           T == ActiveJobs(c)' \ {o}
<1>1. IsFiniteSet(S) /\ T \subseteq S
  BY JobsFinite, FS_Subset
<1>2. Cardinality(T) <= Cardinality(S) /\ Cardinality(S) \in Nat /\ Cardinality(T) \in Nat
  <2> HIDE DEF S, T
  <2>1. QED
    BY <1>1, FewerIsLess
<1>3. Cardinality(T) < MaxActive
  <2>1. Cardinality(S) < MaxActive /\ MaxActive \in Nat
    BY OfferAssumption DEF RoomFor
  <2> HIDE DEF S, T
  <2>2. QED
    BY <1>2, <2>1
<1>4. QED
  BY <1>1, <1>3 DEF RoomFor

\* Where a courier has room, the order makes it no batch the policy forbids.
LEMMA RoomIsPolicy ==
    ASSUME NEW c \in Courier, NEW o \in Order, RoomFor(c, o),
           ActiveJobs(c)' \subseteq ActiveJobs(c) \cup {o}
    PROVE  /\ Cardinality(ActiveJobs(c)') <= MaxActive
           /\ SameCustomer => \A x, y \in ActiveJobs(c)' : Customer[x] = Customer[y]
<1> DEFINE S == ActiveJobs(c) \ {o}
           T == ActiveJobs(c)'
<1>1. IsFiniteSet(S) /\ T \subseteq S \cup {o} /\ o \notin S
  BY JobsFinite, FS_Subset
<1>2. IsFiniteSet(S \cup {o}) /\ Cardinality(S \cup {o}) = Cardinality(S) + 1
  <2> HIDE DEF S, T
  <2>1. QED
    BY <1>1, FS_AddElement
<1>3. /\ Cardinality(T) <= Cardinality(S \cup {o}) /\ Cardinality(S) \in Nat
      /\ Cardinality(T) \in Nat
  <2> HIDE DEF S, T
  <2>1. Cardinality(S) \in Nat
    BY <1>1, FS_CardinalityType
  <2>2. QED
    BY <1>1, <1>2, <2>1, FewerIsLess
<1>4. Cardinality(T) <= MaxActive
  <2>1. Cardinality(S) < MaxActive /\ MaxActive \in Nat
    BY OfferAssumption DEF RoomFor
  <2> HIDE DEF S, T
  <2>2. QED
    BY <1>2, <1>3, <2>1
<1>5. SameCustomer => \A x \in T : Customer[x] = Customer[o]
  BY <1>1 DEF RoomFor
<1>6. QED
  BY <1>4, <1>5

\* A step that gives no courier a job.
LEMMA PolicyStays ==
    ASSUME BatchPolicy, NEW c \in Courier, ActiveJobs(c)' \subseteq ActiveJobs(c)
    PROVE  /\ Cardinality(ActiveJobs(c)') <= MaxActive
           /\ SameCustomer => \A x, y \in ActiveJobs(c)' : Customer[x] = Customer[y]
<1> DEFINE S == ActiveJobs(c)
           T == ActiveJobs(c)'
<1>1. IsFiniteSet(S) /\ T \subseteq S
  BY JobsFinite
<1>2. Cardinality(T) <= Cardinality(S) /\ Cardinality(S) \in Nat /\ Cardinality(T) \in Nat
  <2> HIDE DEF S, T
  <2>1. QED
    BY <1>1, FewerIsLess
<1>3. Cardinality(S) <= MaxActive /\ MaxActive \in Nat
  BY OfferAssumption DEF BatchPolicy
<1>4. Cardinality(T) <= MaxActive
  <2> HIDE DEF S, T
  <2>1. QED
    BY <1>2, <1>3
<1>5. QED
  BY <1>1, <1>4 DEF BatchPolicy

\* A run of the queue gives nobody a job.
LEMMA MarkedJobs ==
    ASSUME TypeInv, NEW of, NEW os, UNCHANGED <<leg, legStatus>>, order' = Marked(of, os),
           os \in [Order -> OrderStatus],
           \A o \in Order : os[o] # order[o] => order[o] = "scheduled" /\ os[o] = "pending"
    PROVE  JobsAgree => JobsAgree' /\ \A c \in Courier : ActiveJobs(c)' \subseteq ActiveJobs(c)
<1>1. \A o \in Order : \/ order'[o] = order[o]
                       \/ order[o] \in {"scheduled", "pending"}
                          /\ order'[o] \in {"pending", "offered"}
  BY MarkedType
<1>2. \A c \in Courier : ActiveJobs(c)' \subseteq ActiveJobs(c)
  BY <1>1 DEF ActiveJobs, Closed
<1>3. QED
  BY <1>1, <1>2 DEF JobsAgree

\* Only an acceptance gives a courier a job.
LEMMA JobsShrink ==
    ASSUME JobInv, [Next]_vars, \A p \in Call : ~acceptCommits(p)
    PROVE  JobsAgree' /\ \A c \in Courier : ActiveJobs(c)' \subseteq ActiveJobs(c)
<1> DEFINE Goal == JobsAgree' /\ \A c \in Courier : ActiveJobs(c)' \subseteq ActiveJobs(c)
<1>0. /\ TypeInv /\ JobsAgree /\ order \in [Order -> OrderStatus]
      /\ leg \in [Order -> Courier \cup {"none"}] /\ legStatus \in [Order -> LegStatus]
  BY DEF JobInv, TypeInv, TypeOK
<1>1. CASE getMobileCourierOffers \/ \E c \in Courier, o \in Order : rejectMobileCourierOffer(c, o)
  <2>1. UNCHANGED <<leg, legStatus>> /\ \E of : order' = Marked(of, order)
    BY <1>1 DEF getMobileCourierOffers, rejectMobileCourierOffer
  <2>2. QED
    BY <1>0, <2>1, MarkedJobs
<1>2. CASE processDueCustomerScheduledOrders
  <2>1. PICK S \in SUBSET {o \in Order : order[o] = "scheduled"} :
           LET os == [o \in Order |-> IF o \in S THEN "pending" ELSE order[o]]
           IN  \E of : order' = Marked(of, os)
    BY <1>2 DEF processDueCustomerScheduledOrders
  <2> DEFINE os == [o \in Order |-> IF o \in S THEN "pending" ELSE order[o]]
  <2>2. /\ os \in [Order -> OrderStatus]
        /\ \A o \in Order : os[o] # order[o] => order[o] = "scheduled" /\ os[o] = "pending"
    BY <1>0 DEF OrderStatus
  <2>3. PICK of : order' = Marked(of, os)
    BY <2>1
  <2>4. UNCHANGED <<leg, legStatus>>
    BY <1>2 DEF processDueCustomerScheduledOrders
  <2> HIDE DEF os
  <2>5. QED
    BY <1>0, <2>2, <2>3, <2>4, MarkedJobs
<1>3. ASSUME NEW o \in Order, verifyOnDemandStep(o) PROVE Goal
  <2>1. PICK s \in {<<"accepted", "in_transit">>, <<"in_transit", "delivered">>} :
           /\ order[o] = s[1]
           /\ order' = [order EXCEPT ![o] = s[2]]
           /\ legStatus' = [legStatus EXCEPT ![o] = s[2]]
    BY <1>3 DEF verifyOnDemandStep
  <2>2. UNCHANGED leg /\ leg[o] # "none" /\ legStatus[o] = order[o]
           /\ order[o] \in {"accepted", "in_transit"}
    BY <1>0, <1>3, <2>1 DEF verifyOnDemandStep, JobsAgree
  <2>3. /\ order'[o] = s[2] /\ legStatus'[o] = s[2] /\ s[2] \in {"in_transit", "delivered"}
        /\ \A x \in Order \ {o} : order'[x] = order[x] /\ legStatus'[x] = legStatus[x]
    BY <1>0, <2>1
  <2>4. JobsAgree'
    BY <1>0, <2>2, <2>3 DEF JobsAgree
  <2>5. \A c \in Courier : ActiveJobs(c)' \subseteq ActiveJobs(c)
    BY <2>2, <2>3 DEF ActiveJobs, Closed
  <2>6. QED
    BY <2>4, <2>5
<1>4. ASSUME NEW o \in Order, Closes(o) \/ cancelMobileCourierOnDemandPickup(o) PROVE Goal
  <2>1. /\ UNCHANGED leg
        /\ order' = [order EXCEPT ![o] = "cancelled"]
        /\ legStatus' = [legStatus EXCEPT ![o] = IF @ \in Closed THEN @ ELSE "cancelled"]
             \/ legStatus' = [legStatus EXCEPT ![o] = "cancelled"]
    BY <1>4 DEF Closes, cancelMobileCourierOnDemandPickup
  <2>2. /\ order'[o] = "cancelled"
        /\ \A x \in Order \ {o} : order'[x] = order[x] /\ legStatus'[x] = legStatus[x]
    BY <1>0, <2>1
  <2>3. QED
    BY <1>0, <2>1, <2>2 DEF JobsAgree, ActiveJobs, Closed
<1>5. ASSUME NEW c \in Courier, NEW policy \in SafeJobPolicy,
             createAdminCourierEnforcementAction(c, policy)
      PROVE  Goal
  <2>1. UNCHANGED order /\ \A o \in Order : \/ leg'[o] = "none"
                                            \/ leg'[o] = leg[o] /\ legStatus'[o] = legStatus[o]
    BY <1>5 DEF createAdminCourierEnforcementAction
  <2>2. "none" \notin Courier
    BY OfferAssumption
  <2>3. QED
    BY <1>0, <2>1, <2>2 DEF JobsAgree, ActiveJobs
<1>6. CASE tailMarks
  <2>1. order' = [order EXCEPT ![tail.order] = IF @ \in Ready THEN "offered" ELSE @]
           /\ UNCHANGED <<leg, legStatus>>
    BY <1>6 DEF tailMarks, Offered
  <2> DEFINE x == tail.order
  <2>2. \A o \in Order : order'[o] = IF o = x /\ order[o] \in Ready
                                     THEN "offered" ELSE order[o]
    <3> HIDE DEF x
    <3>1. order' = [order EXCEPT ![x] = IF @ \in Ready THEN "offered" ELSE @]
      BY <2>1 DEF x
    <3>2. QED
      BY <1>0, <3>1
  <2>3. QED
    BY <1>0, <2>1, <2>2 DEF JobsAgree, ActiveJobs, Closed, Ready
<1>7. CASE UNCHANGED jobs
  BY <1>0, <1>7 DEF JobsAgree, ActiveJobs, jobs
<1>8. QED
  <2>1. \A o \in Order : cancelCustomerOrder(o) \/ forceCancelOrder(o) => Closes(o)
    BY DEF cancelCustomerOrder, forceCancelOrder
  <2>2. \A c \in Courier :
           updateDutyOn(c) \/ updateDutyOff(c) \/ reviewAdminCourierEnforcementAppeal(c)
           => UNCHANGED jobs
    BY DEF updateDutyOn, updateDutyOff, reviewAdminCourierEnforcementAppeal
  <2>3. \/ tailReadsQueue \/ tailEnds \/ tailExpires \/ tailInserts \/ UNCHANGED vars
        \/ \E o \in Order : tailPicks(o)
        \/ \E r \in Row : OfferLapses(r)
        \/ \E p \in Call : acceptReadsJobs(p) \/ acceptLocksProfile(p) \/ acceptRollsBack(p)
        \/ \E p \in Call, c \in Courier, o \in Order : acceptLocksOffer(p, c, o)
        => UNCHANGED jobs
    BY DEF tailReadsQueue, tailEnds, tailExpires, tailInserts, tailPicks, vars, OfferLapses,
           acceptReadsJobs, acceptLocksProfile, acceptRollsBack, acceptLocksOffer
  <2>4. QED
    BY <1>1, <1>2, <1>3, <1>4, <1>5, <1>6, <1>7, <2>1, <2>2, <2>3 DEF Next

\* An acceptance gives its courier its order, and nobody else anything.
LEMMA CommitJobs ==
    ASSUME JobInv, NEW p \in Call, acceptCommits(p)
    PROVE  /\ JobsAgree'
           /\ \A c \in Courier : ActiveJobs(c)' \subseteq
                 ActiveJobs(c) \cup (IF c = call[p].courier THEN {call[p].order} ELSE {})
<1> DEFINE a == call[p]
<1>1. /\ TypeInv /\ JobsAgree /\ order \in [Order -> OrderStatus]
      /\ leg \in [Order -> Courier \cup {"none"}] /\ legStatus \in [Order -> LegStatus]
      /\ a.order \in Order
  BY DEF JobInv, TypeInv, TypeOK, CallOK, acceptCommits
<1>2. PICK of : order' = [Marked(of, order) EXCEPT ![a.order] = "accepted"]
  BY DEF acceptCommits
<1>3. \A o \in Order \ {a.order} :
         \/ order'[o] = order[o]
         \/ order[o] = "pending" /\ order'[o] = "offered"
  BY <1>1, <1>2, MarkedType
<1>4. order'[a.order] = "accepted"
  BY <1>1, <1>2, MarkedType
<1>5. /\ leg'[a.order] = a.courier /\ legStatus'[a.order] = "accepted"
      /\ \A o \in Order \ {a.order} : leg'[o] = leg[o] /\ legStatus'[o] = legStatus[o]
  BY <1>1 DEF acceptCommits
<1>6. JobsAgree'
  BY <1>1, <1>3, <1>4, <1>5 DEF JobsAgree
<1>7. \A c \in Courier : ActiveJobs(c)' \subseteq
         ActiveJobs(c) \cup (IF c = a.courier THEN {a.order} ELSE {})
  BY <1>3, <1>4, <1>5 DEF ActiveJobs, Closed
<1>8. QED
  BY <1>6, <1>7

\* An action comes into force on a courier without jobs.
LEMMA ActiveFrom ==
    ASSUME JobInv, [Next]_vars, NEW c \in Courier, action'[c] = "active"
    PROVE  \/ action[c] = "active" /\ (suspended[c] => suspended'[c])
           \/ /\ suspended'[c] /\ ActiveJobs(c)' = {} /\ ProfileFree(c)
              /\ UNCHANGED call
<1> DEFINE Goal == \/ action[c] = "active" /\ (suspended[c] => suspended'[c])
                   \/ /\ suspended'[c] /\ ActiveJobs(c)' = {} /\ ProfileFree(c)
                      /\ UNCHANGED call
<1>0. /\ online \in [Courier -> BOOLEAN] /\ suspended \in [Courier -> BOOLEAN]
      /\ action \in [Courier -> {"none", "pending_safe_completion", "active",
                                 "stopped", "finalized"}]
      /\ "none" \notin Courier
  BY OfferAssumption DEF JobInv, TypeInv, TypeOK
<1>1. CASE finalize_pending_courier_enforcement_actions
  <2>1. action'[c] = (IF Finalizes(c) THEN "finalized" ELSE action[c])
           /\ suspended'[c] = (suspended[c] \/ Finalizes(c))
    BY <1>1 DEF finalize_pending_courier_enforcement_actions
  <2>2. action[c] = "active" /\ suspended'[c] = (suspended[c] \/ Finalizes(c))
    BY <2>1
  <2>3. QED
    BY <2>2
<1>2. CASE UNCHANGED <<suspended, action>>
  BY <1>2
<1>3. ASSUME NEW d \in Courier, reviewAdminCourierEnforcementAppeal(d) PROVE Goal
  BY <1>0, <1>3 DEF reviewAdminCourierEnforcementAppeal
<1>4. ASSUME NEW d \in Courier, NEW policy \in SafeJobPolicy,
             createAdminCourierEnforcementAction(d, policy)
      PROVE  Goal
  <2>1. CASE c # d
    BY <1>0, <1>4, <2>1 DEF createAdminCourierEnforcementAction
  <2>2. CASE c = d
    <3> DEFINE gone == IF policy = "reassign_unpicked_jobs" THEN Unpicked(c) ELSE {}
               rest == ActiveJobs(c) \ gone
               now  == policy = "immediate_safety_stop" \/ rest = {}
    <3>1. /\ action'[c] = IF ~now THEN "pending_safe_completion"
                          ELSE IF rest = {} THEN "active" ELSE "stopped"
          /\ suspended'[c] = (suspended[c] \/ now)
          /\ \A o \in Order : leg'[o] = IF o \in gone THEN "none" ELSE leg[o]
          /\ \A o \in Order : o \notin gone => legStatus'[o] = legStatus[o]
          /\ UNCHANGED order /\ UNCHANGED call /\ ProfileFree(c)
      BY <1>0, <1>4, <2>2 DEF createAdminCourierEnforcementAction
    <3>2. rest = {} /\ now
      BY <3>1
    <3> HIDE DEF gone
    <3>3. ActiveJobs(c)' = {}
      BY <1>0, <3>1, <3>2 DEF ActiveJobs
    <3> HIDE DEF now
    <3>4. QED
      BY <3>1, <3>2, <3>3
  <2>3. QED
    BY <2>1, <2>2
<1>5. QED
  <2>1. \A o \in Order :
           verifyOnDemandStep(o) \/ cancelCustomerOrder(o) \/ forceCancelOrder(o)
              \/ cancelMobileCourierOnDemandPickup(o)
           => finalize_pending_courier_enforcement_actions
    BY DEF verifyOnDemandStep, cancelCustomerOrder, forceCancelOrder, Closes,
           cancelMobileCourierOnDemandPickup
  <2>2. \A p \in Call : acceptCommits(p) => finalize_pending_courier_enforcement_actions
    BY DEF acceptCommits
  <2>3. \/ tailReadsQueue \/ tailEnds \/ tailExpires \/ tailInserts \/ tailMarks
        \/ UNCHANGED vars \/ getMobileCourierOffers \/ processDueCustomerScheduledOrders
        \/ \E o \in Order : tailPicks(o)
        \/ \E r \in Row : OfferLapses(r)
        \/ \E d \in Courier : updateDutyOn(d) \/ updateDutyOff(d)
        \/ \E d \in Courier, o \in Order : rejectMobileCourierOffer(d, o)
        \/ \E p \in Call : acceptReadsJobs(p) \/ acceptLocksProfile(p) \/ acceptRollsBack(p)
        \/ \E p \in Call, d \in Courier, o \in Order : acceptLocksOffer(p, d, o)
        => UNCHANGED <<suspended, action>>
    BY DEF tailReadsQueue, tailEnds, tailExpires, tailInserts, tailMarks, tailPicks, vars,
           getMobileCourierOffers, processDueCustomerScheduledOrders, OfferLapses,
           updateDutyOn, updateDutyOff, rejectMobileCourierOffer, acceptReadsJobs,
           acceptLocksProfile, acceptRollsBack, acceptLocksOffer, staff
  <2>4. QED
    BY <1>1, <1>2, <1>3, <1>4, <2>1, <2>2, <2>3 DEF Next

\* The step that reads the jobs.
Enters(p) ==
    /\ UNCHANGED <<jobs, action>>
    /\ RoomFor(call[p].courier, call[p].order)
    /\ \A q \in Call \ {p} : /\ call'[q] = call[q]
                             /\ Serving(q) => call[q].courier # call[p].courier

\* Who serves an acceptance has read the jobs under the advisory lock.
LEMMA ServingFrom ==
    ASSUME JobInv, [Next]_vars, NEW p \in Call, Serving(p)'
    PROVE  /\ call'[p].courier = call[p].courier /\ call'[p].order = call[p].order
           /\ call[p].pc # "idle" /\ (Serving(p) \/ Enters(p))
           /\ call'[p].pc = "checked" =>
                 \/ call[p].pc = "checked"
                 \/ UNCHANGED action /\ ~suspended[call[p].courier]
<1> DEFINE Goal ==
           /\ call'[p].courier = call[p].courier /\ call'[p].order = call[p].order
           /\ call[p].pc # "idle" /\ (Serving(p) \/ Enters(p))
           /\ call'[p].pc = "checked" =>
                 \/ call[p].pc = "checked"
                 \/ UNCHANGED action /\ ~suspended[call[p].courier]
<1>0. call \in [Call -> CallType]
  BY DEF JobInv, TypeInv, CallOK
<1>1. CASE call'[p] = call[p]
  BY <1>1 DEF Serving
<1>2. CASE acceptReadsJobs(p)
  <2>1. /\ call' = [call EXCEPT ![p].pc = "read"]
        /\ MayTake(call[p].courier, call[p].order) /\ AdvisoryLockFree(call[p].courier)
        /\ UNCHANGED <<jobs, action>>
    BY <1>0, <1>2 DEF acceptReadsJobs, Serving, IdleCall, staff
  <2>2. RoomFor(call[p].courier, call[p].order)
    BY <2>1 DEF MayTake, RoomFor
  <2>3. /\ call'[p].pc = "read" /\ call'[p].courier = call[p].courier
        /\ call'[p].order = call[p].order /\ \A q \in Call \ {p} : call'[q] = call[q]
    BY <1>0, <2>1 DEF CallType
  <2>4. \A q \in Call : Serving(q) => call[q].courier # call[p].courier
    BY <2>1 DEF AdvisoryLockFree, Serving
  <2>5. Enters(p) /\ call[p].pc # "idle"
    BY <1>2, <2>1, <2>2, <2>3, <2>4 DEF Enters, acceptReadsJobs
  <2>6. QED
    BY <2>3, <2>5
<1>3. CASE acceptLocksProfile(p)
  <2>1. /\ call' = [call EXCEPT ![p].pc = "checked"] /\ call[p].pc = "read"
        /\ ~suspended[call[p].courier] /\ UNCHANGED action
    BY <1>0, <1>3 DEF acceptLocksProfile, Serving, IdleCall, staff
  <2>2. QED
    BY <1>0, <2>1 DEF CallType, Serving
<1>4. ASSUME NEW q \in Call, NEW c \in Courier, NEW o \in Order, acceptLocksOffer(q, c, o)
      PROVE  Goal
  BY <1>0, <1>1, <1>4 DEF acceptLocksOffer, Serving
<1>5. ASSUME NEW q \in Call, acceptCommits(q) \/ acceptRollsBack(q) PROVE Goal
  BY <1>0, <1>1, <1>5 DEF acceptCommits, acceptRollsBack, IdleCall, Serving
<1>6. ASSUME NEW q \in Call \ {p}, acceptReadsJobs(q) \/ acceptLocksProfile(q) PROVE Goal
  <2>1. call'[p] = call[p]
    BY <1>0, <1>6 DEF acceptReadsJobs, acceptLocksProfile
  <2>2. QED
    BY <1>1, <2>1
<1>7. CASE UNCHANGED call
  BY <1>1, <1>7
<1>8. QED
  <2>1. \/ tailReadsQueue \/ tailEnds \/ tailExpires \/ tailInserts \/ tailMarks
        \/ UNCHANGED vars \/ getMobileCourierOffers \/ processDueCustomerScheduledOrders
        \/ \E o \in Order : \/ tailPicks(o) \/ verifyOnDemandStep(o) \/ cancelCustomerOrder(o)
                            \/ forceCancelOrder(o) \/ cancelMobileCourierOnDemandPickup(o)
        \/ \E r \in Row : OfferLapses(r)
        \/ \E d \in Courier : \/ updateDutyOn(d) \/ updateDutyOff(d)
                              \/ reviewAdminCourierEnforcementAppeal(d)
                              \/ \E policy \in SafeJobPolicy :
                                    createAdminCourierEnforcementAction(d, policy)
        \/ \E d \in Courier, o \in Order : rejectMobileCourierOffer(d, o)
        => UNCHANGED call
    BY DEF tailReadsQueue, tailEnds, tailExpires, tailInserts, tailMarks, tailPicks, vars,
           getMobileCourierOffers, processDueCustomerScheduledOrders, OfferLapses,
           updateDutyOn, updateDutyOff, rejectMobileCourierOffer, verifyOnDemandStep,
           cancelCustomerOrder, forceCancelOrder, cancelMobileCourierOnDemandPickup,
           reviewAdminCourierEnforcementAppeal, createAdminCourierEnforcementAction
  <2>2. QED
    BY <1>2, <1>3, <1>4, <1>5, <1>6, <1>7, <2>1 DEF Next

\* Every action keeps JobInv.
LEMMA JobStep == JobInv /\ [Next]_vars => JobInv'
<1> SUFFICES ASSUME JobInv, [Next]_vars PROVE JobInv'
  OBVIOUS
<1>0. TypeInv /\ TypeInv' /\ call \in [Call -> CallType]
  BY TypeStep DEF JobInv, TypeInv, CallOK
<1>1. \* what a courier gains
      /\ JobsAgree'
      /\ \A c \in Courier :
            \/ ActiveJobs(c)' \subseteq ActiveJobs(c)
            \/ \E p \in Call :
                  /\ call[p].pc = "checked" /\ call[p].courier = c /\ call'[p] = IdleCall
                  /\ ActiveJobs(c)' \subseteq ActiveJobs(c) \cup {call[p].order}
  <2>1. CASE \A p \in Call : ~acceptCommits(p)
    BY <2>1, JobsShrink
  <2>2. ASSUME NEW p \in Call, acceptCommits(p)
        PROVE  /\ JobsAgree'
               /\ \A c \in Courier :
                    \/ ActiveJobs(c)' \subseteq ActiveJobs(c)
                    \/ /\ call[p].pc = "checked" /\ call[p].courier = c /\ call'[p] = IdleCall
                       /\ ActiveJobs(c)' \subseteq ActiveJobs(c) \cup {call[p].order}
    <3>1. call[p].pc = "checked" /\ call'[p] = IdleCall
      BY <1>0, <2>2 DEF acceptCommits
    <3>2. QED
      BY <2>2, <3>1, CommitJobs
  <2>3. QED
    BY <2>1, <2>2
<1>2. SuspendedIdle'
  <2> SUFFICES ASSUME NEW c \in Courier, action'[c] = "active"
               PROVE  suspended'[c] /\ ActiveJobs(c)' = {}
    BY DEF SuspendedIdle
  <2>1. CASE action[c] = "active" /\ (suspended[c] => suspended'[c])
    <3>1. suspended'[c] /\ ActiveJobs(c) = {}
      BY <2>1 DEF JobInv, SuspendedIdle
    <3>2. \A p \in Call : ~(call[p].pc = "checked" /\ call[p].courier = c)
      BY <2>1 DEF JobInv, ServingInv
    <3>3. QED
      BY <1>1, <3>1, <3>2
  <2>2. QED
    BY <2>1, ActiveFrom
<1>3. BatchPolicy'
  <2> SUFFICES ASSUME NEW c \in Courier
               PROVE  /\ Cardinality(ActiveJobs(c)') <= MaxActive
                      /\ SameCustomer => \A x, y \in ActiveJobs(c)' : Customer[x] = Customer[y]
    BY DEF BatchPolicy
  <2>1. CASE ActiveJobs(c)' \subseteq ActiveJobs(c)
    BY <2>1, PolicyStays DEF JobInv
  <2>2. ASSUME NEW p \in Call, call[p].pc = "checked", call[p].courier = c,
               ActiveJobs(c)' \subseteq ActiveJobs(c) \cup {call[p].order}
        PROVE  /\ Cardinality(ActiveJobs(c)') <= MaxActive
               /\ SameCustomer => \A x, y \in ActiveJobs(c)' : Customer[x] = Customer[y]
    <3>1. RoomFor(c, call[p].order) /\ call[p].order \in Order
      BY <1>0, <2>2 DEF JobInv, ServingInv, Serving, TypeInv, CallOK
    <3>2. QED
      BY <2>2, <3>1, RoomIsPolicy
  <2>3. QED
    BY <1>1, <2>1, <2>2
<1>4. OnePerCourier'
  <2> SUFFICES ASSUME NEW p \in Call, NEW q \in Call, p # q, Serving(p)', Serving(q)'
               PROVE  call'[p].courier # call'[q].courier
    BY DEF OnePerCourier
  <2>1. call'[p].courier = call[p].courier /\ call'[q].courier = call[q].courier
    BY ServingFrom
  <2>2. CASE Serving(p) /\ Serving(q)
    BY <2>1, <2>2 DEF JobInv, OnePerCourier
  <2>3. CASE ~Serving(p)
    <3>1. \A x \in Call \ {p} : /\ call'[x] = call[x]
                                /\ Serving(x) => call[x].courier # call[p].courier
      BY <2>3, ServingFrom DEF Enters
    <3>2. call'[q] = call[q]
      BY <3>1
    <3>3. Serving(q)
      BY <3>2 DEF Serving
    <3>4. QED
      BY <2>1, <3>1, <3>3
  <2>4. CASE ~Serving(q)
    <3>1. \A x \in Call \ {q} : /\ call'[x] = call[x]
                                /\ Serving(x) => call[x].courier # call[q].courier
      BY <2>4, ServingFrom DEF Enters
    <3>2. call'[p] = call[p]
      BY <3>1
    <3>3. Serving(p)
      BY <3>2 DEF Serving
    <3>4. QED
      BY <2>1, <3>1, <3>3
  <2>5. QED
    BY <2>2, <2>3, <2>4
<1>5. ASSUME NEW p \in Call, Serving(p)' PROVE ServingInv(p)'
  <2>1. /\ call'[p].courier = call[p].courier /\ call'[p].order = call[p].order
        /\ call[p].pc # "idle"
    BY <1>5, ServingFrom
  <2>2. PICK c \in Courier, o \in Order : c = call[p].courier /\ o = call[p].order
    BY <1>0, <2>1 DEF TypeInv, CallOK
  <2>3. RoomFor(c, o)'
    <3>1. CASE Serving(p)
      <4>1. RoomFor(c, o)
        BY <2>2, <3>1 DEF JobInv, ServingInv
      <4>2. ActiveJobs(c)' \subseteq ActiveJobs(c)
        <5>1. ASSUME NEW q \in Call, call[q].pc = "checked", call[q].courier = c,
                     call'[q] = IdleCall
              PROVE  FALSE
          <6>1. q = p
            BY <2>2, <3>1, <5>1 DEF JobInv, OnePerCourier, Serving
          <6>2. QED
            BY <1>5, <5>1, <6>1 DEF Serving, IdleCall
        <5>2. QED
          BY <1>1, <2>2, <5>1
      <4>3. QED
        BY <2>2, <4>1, <4>2, RoomStays
    <3>2. CASE ~Serving(p)
      <4>1. RoomFor(c, o) /\ UNCHANGED jobs
        BY <1>5, <2>2, <3>2, ServingFrom DEF Enters
      <4>2. ActiveJobs(c)' = ActiveJobs(c)
        BY <4>1 DEF ActiveJobs, jobs
      <4>3. QED
        BY <2>2, <4>1, <4>2, RoomStays
    <3>3. QED
      BY <3>1, <3>2
  <2>4. call'[p].pc = "checked" => action'[c] # "active"
    <3> SUFFICES ASSUME call'[p].pc = "checked", action'[c] = "active" PROVE FALSE
      OBVIOUS
    <3>1. action[c] # "active"
      <4>1. call[p].pc = "checked" \/ (UNCHANGED action /\ ~suspended[c])
        BY <1>5, <2>2, ServingFrom
      <4>2. CASE call[p].pc = "checked"
        BY <2>2, <4>2 DEF JobInv, ServingInv
      <4>3. CASE UNCHANGED action /\ ~suspended[c]
        BY <2>2, <4>3 DEF JobInv, SuspendedIdle
      <4>4. QED
        BY <4>1, <4>2, <4>3
    <3>2. ProfileFree(c) /\ UNCHANGED call
      BY <2>2, <3>1, ActiveFrom
    <3>3. call[p].pc # "checked"
      BY <2>2, <3>2 DEF ProfileFree
    <3>4. QED
      BY <3>2, <3>3
  <2>5. QED
    BY <2>1, <2>2, <2>3, <2>4 DEF ServingInv, RoomFor
<1>6. \A p \in Call : ServingInv(p)'
  BY <1>5 DEF ServingInv, Serving
<1>7. QED
  BY <1>0, <1>1, <1>2, <1>3, <1>4, <1>6 DEF JobInv

\* JobInv holds at the start.
LEMMA JobInit == Init => JobInv
<1> SUFFICES ASSUME Init PROVE JobInv
  OBVIOUS
<1>1. TypeInv
  BY TypeInit
<1>2. \A c \in Courier : ActiveJobs(c) = {}
  BY OfferAssumption DEF Init, ActiveJobs
<1>3. JobsAgree /\ SuspendedIdle
  BY DEF Init, JobsAgree, SuspendedIdle
<1>4. BatchPolicy
  <2>1. Cardinality({}) = 0 /\ MaxActive \in Nat
    BY FS_EmptySet, OfferAssumption
  <2>2. QED
    BY <1>2, <2>1 DEF BatchPolicy
<1>5. \A p \in Call : ~Serving(p) /\ call[p].pc # "checked"
  BY DEF Init, Serving, IdleCall
<1>6. QED
  BY <1>1, <1>3, <1>4, <1>5 DEF JobInv, OnePerCourier, ServingInv

\* However acceptances of a courier overlap, the active jobs stay within the
\* number and the customer the policy allows (the advisory lock courier-
\* accept).
THEOREM BatchesInPolicy == Spec => []BatchPolicy
<1>1. JobInv => BatchPolicy
  BY DEF JobInv
<1>2. QED
  BY <1>1, JobInit, JobStep, PTL DEF Spec

\* A courier whose suspension began with no job keeps having none (the locks
\* on the profile in createAdminCourierEnforcementAction and
\* acceptMobileCourierOffer).
THEOREM SuspendedAreIdle == Spec => []SuspendedIdle
<1>1. JobInv => SuspendedIdle
  BY DEF JobInv
<1>2. QED
  BY <1>1, JobInit, JobStep, PTL DEF Spec

-----------------------------------------------------------------------------
(* Orders in a courier's hands                                             *)

\* The queue has not been given, and will not be given, an order that a
\* courier holds.
HandsInv ==
    TypeInv /\ \A o \in Order : leg[o] # "none" => order[o] \notin Ready \cup {"scheduled"}

\* A run of the queue, with orders that have become due, marks orders that
\* nobody holds.
LEMMA MarkingHands ==
    ASSUME HandsInv, NEW of, NEW os \in [Order -> OrderStatus],
           \A o \in Order : os[o] = order[o] \/ order[o] = "scheduled",
           order' = Marked(of, os), leg' = leg
    PROVE  \A o \in Order : leg'[o] # "none" => order'[o] \notin Ready \cup {"scheduled"}
<1>1. \A o \in Order : leg[o] # "none" => os[o] = order[o] /\ os[o] # "pending"
  BY DEF HandsInv, Ready
<1>2. \A o \in Order : Marked(of, os)[o] # os[o] => os[o] = "pending"
  BY MarkedType
<1>3. QED
  BY <1>1, <1>2 DEF HandsInv

\* Every action keeps HandsInv.
LEMMA HandsStep == HandsInv /\ [Next]_vars => HandsInv'
<1> SUFFICES ASSUME HandsInv, [Next]_vars PROVE HandsInv'
  OBVIOUS
<1> DEFINE Hands == \A o \in Order : leg'[o] # "none" => order'[o] \notin Ready \cup {"scheduled"}
<1>0. /\ TypeInv /\ TypeInv' /\ order \in [Order -> OrderStatus]
      /\ leg \in [Order -> Courier \cup {"none"}]
      /\ \A o \in Order : leg[o] # "none" => order[o] \notin Ready \cup {"scheduled"}
  BY TypeStep DEF HandsInv, TypeInv, TypeOK
<1> SUFFICES Hands
  BY <1>0 DEF HandsInv
<1>1. ASSUME getMobileCourierOffers \/ \E c \in Courier, o \in Order : rejectMobileCourierOffer(c, o)
      PROVE  Hands
  <2>1. UNCHANGED leg /\ \E of : order' = Marked(of, order)
    BY <1>1 DEF getMobileCourierOffers, rejectMobileCourierOffer
  <2>2. PICK of : order' = Marked(of, order)
    BY <2>1
  <2>3. QED
    BY <1>0, <2>1, <2>2, MarkingHands
<1>2. ASSUME processDueCustomerScheduledOrders PROVE Hands
  <2>1. PICK S \in SUBSET {o \in Order : order[o] = "scheduled"} :
           LET os == [o \in Order |-> IF o \in S THEN "pending" ELSE order[o]]
           IN  \E of : order' = Marked(of, os)
    BY <1>2 DEF processDueCustomerScheduledOrders
  <2> DEFINE os == [o \in Order |-> IF o \in S THEN "pending" ELSE order[o]]
  <2>2. /\ os \in [Order -> OrderStatus] /\ leg' = leg
        /\ \A o \in Order : os[o] = order[o] \/ order[o] = "scheduled"
    BY <1>0, <1>2 DEF processDueCustomerScheduledOrders, OrderStatus
  <2>3. PICK of : order' = Marked(of, os)
    BY <2>1
  <2> HIDE DEF os
  <2>4. QED
    BY <2>2, <2>3, MarkingHands
<1>3. ASSUME NEW p \in Call, acceptCommits(p) PROVE Hands
  <2>1. PICK of : order' = [Marked(of, order) EXCEPT ![call[p].order] = "accepted"]
    BY <1>3 DEF acceptCommits
  <2>2. call[p].order \in Order /\ leg' = [leg EXCEPT ![call[p].order] = call[p].courier]
    BY <1>0, <1>3 DEF acceptCommits, TypeInv, CallOK
  <2>3. /\ Marked(of, order) \in [Order -> OrderStatus]
        /\ \A o \in Order : Marked(of, order)[o] # order[o] => order[o] = "pending"
    BY <1>0, MarkedType
  <2>4. QED
    BY <1>0, <2>1, <2>2, <2>3 DEF Ready
<1>4. ASSUME NEW o \in Order, Closes(o) \/ cancelMobileCourierOnDemandPickup(o) PROVE Hands
  BY <1>0, <1>4 DEF Closes, cancelMobileCourierOnDemandPickup, Ready
<1>5. ASSUME NEW o \in Order, verifyOnDemandStep(o) PROVE Hands
  BY <1>0, <1>5 DEF verifyOnDemandStep, Ready
<1>6. ASSUME NEW c \in Courier, NEW policy \in SafeJobPolicy,
             createAdminCourierEnforcementAction(c, policy)
      PROVE  Hands
  BY <1>0, <1>6 DEF createAdminCourierEnforcementAction
<1>7. CASE tailMarks
  BY <1>0, <1>7 DEF tailMarks, Offered
<1>8. CASE UNCHANGED <<order, leg>>
  BY <1>0, <1>8
<1>9. QED
  <2>1. \/ tailReadsQueue \/ tailEnds \/ tailExpires \/ tailInserts \/ UNCHANGED vars
        \/ \E o \in Order : tailPicks(o)
        \/ \E r \in Row : OfferLapses(r)
        \/ \E d \in Courier : \/ updateDutyOn(d) \/ updateDutyOff(d)
                              \/ reviewAdminCourierEnforcementAppeal(d)
        \/ \E p \in Call : acceptReadsJobs(p) \/ acceptLocksProfile(p) \/ acceptRollsBack(p)
        \/ \E p \in Call, d \in Courier, o \in Order : acceptLocksOffer(p, d, o)
        => UNCHANGED <<order, leg>>
    BY DEF tailReadsQueue, tailEnds, tailExpires, tailInserts, tailPicks, vars, OfferLapses,
           updateDutyOn, updateDutyOff, reviewAdminCourierEnforcementAppeal, acceptReadsJobs,
           acceptLocksProfile, acceptRollsBack, acceptLocksOffer, jobs
  <2>2. \A o \in Order : cancelCustomerOrder(o) \/ forceCancelOrder(o) => Closes(o)
    BY DEF cancelCustomerOrder, forceCancelOrder
  <2>3. QED
    BY <1>1, <1>2, <1>3, <1>4, <1>5, <1>6, <1>7, <1>8, <2>1, <2>2 DEF Next

\* The queue never gets an order back that a courier holds (the CASE of the
\* UPDATE in dispatchNextOnDemandCourier).
THEOREM QueuedAreFree == Spec => []QueuedIsFree
<1>1. Init => HandsInv
  BY TypeInit DEF HandsInv, Init
<1>2. HandsInv => QueuedIsFree
  BY DEF HandsInv, TypeInv, TypeOK, QueuedIsFree
<1>3. QED
  BY <1>1, <1>2, HandsStep, PTL DEF Spec
=============================================================================
