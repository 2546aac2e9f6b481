------------------------ MODULE OrderRefund_proofs -------------------------
(***************************************************************************)
(* Proofs about OrderRefund, for any number of callers, any price and fee, *)
(* and every setting of Named, Lag, Slow, Faulty, Unbooked and MaxCrashes.  *)
(*                                                                         *)
(* The safety properties are not inductive: a caller about to write relies *)
(* on what it found several steps before.  RefundInv says, for every stage *)
(* a caller may stand at, what it has established and nobody can undo.     *)
(*                                                                         *)
(* Two properties need more of the instance and say what: that the refund  *)
(* is what the policy gives needs OneSettlement, and that its journal is   *)
(* single needs LockCovers.                                                *)
(***************************************************************************)
EXTENDS OrderRefund, TLAPS

Asking == {"refund", "check", "journal", "create"}

CallerInv(b) ==
    /\ at[b] \in Asking => status = "cancelled" \/ b \in Admins
    /\ at[b] \in {"check", "journal", "create"} => job[b].amount > 0
    /\ at[b] \in {"journal", "create"} => payment = "paid"
    /\ at[b] \in {"wallet", "credit", "processed", "failed"} => refund.status # "none"
    /\ at[b] = "processed" => credited > 0

ReplicaInv ==
    /\ replica.status = "cancelled" => status = "cancelled"
    /\ replica.refund # "none" => refund.status # "none"

MoneyInv ==
    /\ refund.status = "none" => refund.amount = 0 /\ credited = 0
    /\ refund.status # "none" =>
          refund.amount > 0 /\ payment = "paid" /\ (status = "cancelled" \/ refund.manual)
    /\ credited \in {0, refund.amount}
    /\ refund.status = "processed" => credited > 0

RefundInv == ReplicaInv /\ MoneyInv /\ \A b \in Callers : CallerInv(b)

-----------------------------------------------------------------------------
(***************************************************************************)
(* The lifecycle table: only to declared statuses, from a cancelled order  *)
(* nowhere.                                                                *)
(***************************************************************************)
LEMMA TableType ==
    ASSUME NEW s \in OrderStatus
    PROVE  /\ allowedOrderTransitions[s] \subseteq OrderStatus
           /\ s = "cancelled" => allowedOrderTransitions[s] = {}
BY DEF allowedOrderTransitions, OrderStatus

(***************************************************************************)
(* The policy never gives back more than was paid.                         *)
(***************************************************************************)
LEMMA PolicyType ==
    ASSUME NEW isFood \in BOOLEAN, NEW from \in OrderStatus, NEW assigned \in BOOLEAN
    PROVE  /\ PolicyAmount(isFood, from, assigned) \in Amounts
           /\ \A charged \in BOOLEAN : RefundAmount(charged, isFood, from, assigned) \in Amounts
<1>1. Price \in Amounts /\ Price - PlatformFee \in Amounts /\ (Price * 8 + 5) \div 10 \in Amounts
      /\ 0 \in Amounts
  BY MoneyAssumption DEF Amounts
<1>2. QED
  BY <1>1 DEF PolicyAmount, RefundAmount

(***************************************************************************)
(* Jobs and stages of a caller that moves on stay well typed.              *)
(***************************************************************************)
Jobs == [from : OrderStatus, charged : BOOLEAN, amount : Amounts, booked : BOOLEAN]

LEMMA GoType ==
    ASSUME TypeOK, NEW b \in Callers, NEW stage \in Stage, Go(b, stage)
    PROVE  at' \in [Callers -> Stage] /\ job' \in [Callers -> Jobs]
BY DEF TypeOK, Go, Jobs

(***************************************************************************)
(* The same for a caller that moves on with a new job.                     *)
(***************************************************************************)
LEMMA GoWithType ==
    ASSUME TypeOK, NEW b \in Callers, NEW stage \in Stage, NEW j \in Jobs, GoWith(b, stage, j)
    PROVE  at' \in [Callers -> Stage] /\ job' \in [Callers -> Jobs]
BY DEF TypeOK, GoWith, Jobs

(***************************************************************************)
(* The empty job is a job.                                                 *)
(***************************************************************************)
LEMMA NoJobType == NoJob \in Jobs /\ "idle" \in Stage
BY MoneyAssumption DEF NoJob, Jobs, OrderStatus, Amounts, Stage

(***************************************************************************)
(* A caller whose operation ends stays well typed.                         *)
(***************************************************************************)
LEMMA LeaveType ==
    ASSUME TypeOK, NEW b \in Callers, Leave(b)
    PROVE  at' \in [Callers -> Stage] /\ job' \in [Callers -> Jobs]
BY GoWithType, NoJobType DEF Leave

-----------------------------------------------------------------------------
(***************************************************************************)
(* The steps of an operation that has begun keep every variable well       *)
(* typed.                                                                  *)
(***************************************************************************)
LEMMA ProceedType == ASSUME TypeOK, NEW b \in Callers, Proceed(b) PROVE TypeOK'
<1> USE GoType, GoWithType, LeaveType, NoJobType DEF Stage, Jobs
<1>a. TypeOK
  OBVIOUS
<1>1. CASE WebhookReads(b)
  <2>1. at' \in [Callers -> Stage] /\ job' \in [Callers -> Jobs]
    BY <1>1 DEF WebhookReads
  <2>2. QED
    BY <1>1, <1>a, <2>1 DEF WebhookReads, TypeOK, order, money, rest
<1>2. CASE WebhookSettles(b)
  <2>1. at' \in [Callers -> Stage] /\ job' \in [Callers -> Jobs]
    BY <1>2 DEF WebhookSettles
  <2>2. QED
    BY <1>2, <1>a, <2>1 DEF WebhookSettles, TypeOK, money, rest, OrderStatus
<1>3. CASE RejectWrites(b)
  <2>1. ChargedToMerchant \in Jobs
    BY MoneyAssumption DEF ChargedToMerchant, NoJob, OrderStatus, Amounts
  <2>2. at' \in [Callers -> Stage] /\ job' \in [Callers -> Jobs]
    BY <1>3, <2>1 DEF RejectWrites
  <2>3. QED
    BY <1>3, <1>a, <2>2 DEF RejectWrites, CancelBy, TypeOK, order, money, rest, OrderStatus
<1>4. CASE ExpiryCancels(b)
  <2>1. at' \in [Callers -> Stage] /\ job' \in [Callers -> Jobs]
    BY <1>4 DEF ExpiryCancels
  <2>2. QED
    BY <1>4, <1>a, <2>1 DEF ExpiryCancels, CancelBy, TypeOK, order, money, rest, OrderStatus
<1>5. CASE AcquireLock(b)
  <2> DEFINE from == IF job[b].from = "cancelled" THEN Seen.status ELSE job[b].from
             amount == RefundAmount(job[b].charged, food, from, Seen.courier)
             next == [job[b] EXCEPT !.amount = amount]
  <2>1. from \in OrderStatus /\ Seen.courier \in BOOLEAN
    BY DEF TypeOK, Seen, Primary
  <2>2. amount \in Amounts
    BY <2>1, PolicyType DEF TypeOK
  <2>3. next \in Jobs
    BY <2>2 DEF TypeOK
  <2>4. at' \in [Callers -> Stage] /\ job' \in [Callers -> Jobs]
    BY <1>5, <2>3 DEF AcquireLock, Decides
  <2>5. QED
    BY <1>5, <1>a, <2>4 DEF AcquireLock, TypeOK, order, money
<1>6. CASE ChecksPayment(b)
  <2>1. at' \in [Callers -> Stage] /\ job' \in [Callers -> Jobs]
    BY <1>6 DEF ChecksPayment
  <2>2. QED
    BY <1>6, <1>a, <2>1 DEF ChecksPayment, TypeOK, order, money, rest
<1>7. CASE WritesJournal(b)
  <2>1. [job[b] EXCEPT !.booked = TRUE] \in Jobs
    BY DEF TypeOK
  <2>2. at' \in [Callers -> Stage] /\ job' \in [Callers -> Jobs]
    BY <1>7, <2>1 DEF WritesJournal
  <2>3. journals' \in 0 .. 2
    BY <1>7 DEF WritesJournal, OneMore, TypeOK
  <2>4. QED
    BY <1>7, <1>a, <2>2, <2>3 DEF WritesJournal, TypeOK, order, rest
<1>8. CASE CreateRefund(b)
  <2>1. at' \in [Callers -> Stage] /\ job' \in [Callers -> Jobs]
    BY <1>8 DEF CreateRefund
  <2>2. refund' \in [status : RefundStatus, amount : Amounts, charged : BOOLEAN,
                     manual : BOOLEAN, booked : BOOLEAN]
    <3>1. job[b] \in Jobs
      BY DEF TypeOK
    <3>2. \A manual \in BOOLEAN :
             [status |-> "pending", amount |-> job[b].amount, charged |-> job[b].charged,
              manual |-> manual, booked |-> job[b].booked]
             \in [status : RefundStatus, amount : Amounts, charged : BOOLEAN,
                  manual : BOOLEAN, booked : BOOLEAN]
      BY <3>1 DEF RefundStatus
    <3>3. (b \in Admins) \in BOOLEAN
      OBVIOUS
    <3>4. QED
      BY <1>8, <3>2, <3>3 DEF CreateRefund, TypeOK
  <2>3. QED
    BY <1>8, <1>a, <2>1, <2>2 DEF CreateRefund, TypeOK, order, rest
<1>9. CASE ListsPending(b)
  <2>1. at' \in [Callers -> Stage] /\ job' \in [Callers -> Jobs]
    BY <1>9 DEF ListsPending, Afterwards
  <2>2. QED
    BY <1>9, <1>a, <2>1 DEF ListsPending, TypeOK, order, money, rest
<1>10. CASE WalletChecks(b)
  <2>1. at' \in [Callers -> Stage] /\ job' \in [Callers -> Jobs]
    BY <1>10 DEF WalletChecks
  <2>2. QED
    BY <1>10, <1>a, <2>1 DEF WalletChecks, TypeOK, order, money, rest
<1>11. CASE WalletCredits(b)
  <2>1. at' \in [Callers -> Stage] /\ job' \in [Callers -> Jobs]
    BY <1>11 DEF WalletCredits
  <2>2. QED
    BY <1>11, <1>a, <2>1 DEF WalletCredits, TypeOK, order, rest
<1>12. CASE UpdateRefundStatus(b)
  <2>1. at' \in [Callers -> Stage] /\ job' \in [Callers -> Jobs]
    BY <1>12 DEF UpdateRefundStatus, Afterwards
  <2>2. QED
    BY <1>12, <1>a, <2>1 DEF UpdateRefundStatus, TypeOK, order, rest, RefundStatus
<1>13. CASE ReleaseLock(b)
  <2>1. at' \in [Callers -> Stage] /\ job' \in [Callers -> Jobs]
    BY <1>13 DEF ReleaseLock
  <2>2. QED
    BY <1>13, <1>a, <2>1 DEF ReleaseLock, TypeOK, order, money
<1>14. QED
  BY <1>1, <1>2, <1>3, <1>4, <1>5, <1>6, <1>7, <1>8, <1>9, <1>10, <1>11, <1>12, <1>13 DEF Proceed

(***************************************************************************)
(* The first step of an operation, and a crash, keep every variable well   *)
(* typed.                                                                  *)
(***************************************************************************)
LEMMA StartType == ASSUME TypeOK, NEW b \in Callers, Start(b) \/ Crash(b) PROVE TypeOK'
<1> USE GoType, GoWithType, LeaveType, NoJobType DEF Stage, Jobs
<1>a. TypeOK
  OBVIOUS
<1>1. CASE b \in Deliveries /\ ApplyVerifiedPayment(b)
  <2>1. at' \in [Callers -> Stage] /\ job' \in [Callers -> Jobs]
    BY <1>1 DEF ApplyVerifiedPayment
  <2>2. QED
    BY <1>1, <1>a, <2>1 DEF ApplyVerifiedPayment, TypeOK, order
<1>2. CASE b \in Customers /\ CancelOrder(b)
  <2>1. [NoJob EXCEPT !.from = status] \in Jobs
    BY MoneyAssumption DEF NoJob, TypeOK, Amounts
  <2>2. at' \in [Callers -> Stage] /\ job' \in [Callers -> Jobs]
    BY <1>2, <2>1 DEF CancelOrder
  <2>3. QED
    BY <1>2, <1>a, <2>2 DEF CancelOrder, CancelBy, TypeOK, money, rest, OrderStatus
<1>3. CASE RejectReads(b) \/ ExpiryReads(b) \/ BatchStarts(b)
  <2>1. at' \in [Callers -> Stage] /\ job' \in [Callers -> Jobs]
    BY <1>3 DEF RejectReads, ExpiryReads, BatchStarts
  <2>2. QED
    BY <1>3, <1>a, <2>1 DEF RejectReads, ExpiryReads, BatchStarts, TypeOK, order, money, rest
<1>4. CASE Crash(b)
  <2>1. at' \in [Callers -> Stage] /\ job' \in [Callers -> Jobs]
    BY <1>4 DEF Crash
  <2>2. QED
    BY <1>4, <1>a, <2>1, ScopeAssumption DEF Crash, TypeOK, order, money
<1>5. CASE RefundOneStarts(b)
  <2>1. \A from \in Named, charged \in BOOLEAN :
           [NoJob EXCEPT !.from = from, !.charged = charged] \in Jobs
    BY MoneyAssumption, ScopeAssumption DEF NoJob, Amounts
  <2>2. at' \in [Callers -> Stage] /\ job' \in [Callers -> Jobs]
    BY <1>5, <2>1 DEF RefundOneStarts
  <2>3. QED
    BY <1>5, <1>a, <2>2 DEF RefundOneStarts, TypeOK, order, money, rest
<1>6. QED
  BY <1>1, <1>2, <1>3, <1>4, <1>5 DEF Start

(***************************************************************************)
(* Type correctness; in particular the wallet is never credited with more  *)
(* than the order's price.                                                 *)
(***************************************************************************)
THEOREM TypeCorrect == Spec => []TypeOK
<1>1. Init => TypeOK
  <2> SUFFICES ASSUME Init PROVE TypeOK
    OBVIOUS
  <2>1. food \in BOOLEAN /\ status \in OrderStatus /\ payment \in {"pending", "paid"}
    BY ScopeAssumption DEF Init, OrderStatus
  <2>2. at \in [Callers -> Stage] /\ job \in [Callers -> Jobs]
    BY NoJobType DEF Init
  <2>3. cancelled \in [from : OrderStatus, by : Callers \cup {Nobody}]
    BY DEF Init, OrderStatus
  <2>4. /\ refund \in [status : RefundStatus, amount : Amounts, charged : BOOLEAN,
                      manual : BOOLEAN, booked : BOOLEAN]
        /\ credited \in Amounts
    BY MoneyAssumption DEF Init, NoRefund, RefundStatus, Amounts
  <2>5. refund.status \in RefundStatus
    BY <2>4
  <2>6. replica \in [status : OrderStatus, courier : BOOLEAN, refund : RefundStatus]
    <3>1. replica = Primary /\ courier = FALSE
      BY DEF Init
    <3>2. QED
      BY <2>1, <2>5, <3>1 DEF Primary
  <2>7. journals \in 0 .. 2 /\ crashes \in 0 .. MaxCrashes /\ lock = Nobody /\ notices = Deliveries
        /\ courier = FALSE
    BY ScopeAssumption DEF Init
  <2>8. QED
    BY <2>1, <2>2, <2>3, <2>4, <2>6, <2>7 DEF TypeOK, Jobs
<1>2. TypeOK /\ [Next]_vars => TypeOK'
  <2> SUFFICES ASSUME TypeOK, [Next]_vars PROVE TypeOK'
    OBVIOUS
  <2>1. CASE UNCHANGED vars
    BY <2>1 DEF vars, order, money, rest, TypeOK
  <2>2. CASE Replicate
    BY <2>2 DEF Replicate, Primary, TypeOK, order, money
  <2>3. ASSUME NEW to \in Advances, Advance(to) PROVE TypeOK'
    <3>1. status' \in OrderStatus
      BY <2>3, TableType DEF Advance, TypeOK
    <3>2. courier' \in BOOLEAN
      BY <2>3 DEF Advance
    <3>3. QED
      BY <2>3, <3>1, <3>2 DEF Advance, TypeOK, money, rest
  <2>4. CASE LockExpires
    BY <2>4 DEF LockExpires, TypeOK, order, money
  <2>5. QED
    BY <2>1, <2>2, <2>3, <2>4, ProceedType, StartType DEF Next
<1>3. QED
  BY <1>1, <1>2, PTL DEF Spec

-----------------------------------------------------------------------------
(***************************************************************************)
(* What no step takes back: a cancellation, a payment, the existence of    *)
(* the refund, and the credit.                                             *)
(***************************************************************************)
Monotone ==
    /\ status = "cancelled" => status' = "cancelled"
    /\ payment = "paid" => payment' = "paid"
    /\ refund.status # "none" => refund'.status # "none"
    /\ credited > 0 => credited' > 0

OthersWait(b) == \A c \in Callers \ {b} : at'[c] = at[c] /\ job'[c] = job[c]

(***************************************************************************)
(* Caller b's move is visible at b and leaves the other callers in place.  *)
(***************************************************************************)
LEMMA GoMoves ==
    ASSUME TypeOK, NEW b \in Callers, NEW stage, Go(b, stage)
    PROVE  OthersWait(b) /\ at'[b] = stage /\ job'[b] = job[b]
BY DEF TypeOK, Go, OthersWait

(***************************************************************************)
(* The same for a move with a new job.                                     *)
(***************************************************************************)
LEMMA GoWithMoves ==
    ASSUME TypeOK, NEW b \in Callers, NEW stage, NEW j, GoWith(b, stage, j)
    PROVE  OthersWait(b) /\ at'[b] = stage /\ job'[b] = j
BY DEF TypeOK, GoWith, OthersWait

(***************************************************************************)
(* And for the end of an operation.                                        *)
(***************************************************************************)
LEMMA LeaveMoves ==
    ASSUME TypeOK, NEW b \in Callers, Leave(b)
    PROVE  OthersWait(b) /\ at'[b] = "idle" /\ job'[b] = NoJob
BY GoWithMoves DEF Leave

(***************************************************************************)
(* A step of caller b that takes nothing back keeps RefundInv if it keeps  *)
(* the money right and b's own part of the invariant.                      *)
(***************************************************************************)
LEMMA OneMoves ==
    ASSUME RefundInv, NEW b \in Callers, Monotone, UNCHANGED replica, OthersWait(b),
           MoneyInv', CallerInv(b)'
    PROVE  RefundInv'
<1>1. ReplicaInv'
  BY DEF RefundInv, ReplicaInv, Monotone
<1>2. ASSUME NEW c \in Callers PROVE CallerInv(c)'
  <2>1. CASE c = b
    BY <2>1
  <2>2. CASE c # b
    BY <2>2 DEF RefundInv, CallerInv, Monotone, OthersWait
  <2>3. QED
    BY <2>1, <2>2
<1>3. QED
  BY <1>1, <1>2 DEF RefundInv

(***************************************************************************)
(* A step that touches neither the order's status nor the money takes      *)
(* nothing back and keeps the money right.                                 *)
(***************************************************************************)
LEMMA QuietIsMonotone ==
    ASSUME RefundInv, UNCHANGED <<status, payment, refund, credited>>
    PROVE  Monotone /\ MoneyInv'
BY DEF RefundInv, Monotone, MoneyInv

(***************************************************************************)
(* A cancellation takes nothing back and keeps the money right.            *)
(***************************************************************************)
LEMMA CancelIsMonotone ==
    ASSUME RefundInv, NEW b, NEW actor, CancelBy(b, actor), UNCHANGED money
    PROVE  Monotone /\ MoneyInv' /\ status' = "cancelled"
BY DEF RefundInv, Monotone, MoneyInv, CancelBy, MayCancel, money

(***************************************************************************)
(* What the replica shows of a cancellation and of a refund is so.         *)
(***************************************************************************)
LEMMA SeenIsSo ==
    ASSUME RefundInv
    PROVE  /\ Seen.status = "cancelled" => status = "cancelled"
           /\ Seen.refund # "none" => refund.status # "none"
BY DEF RefundInv, ReplicaInv, Seen, Primary

-----------------------------------------------------------------------------
(***************************************************************************)
(* The steps of an operation that has begun keep RefundInv.                *)
(***************************************************************************)
LEMMA ProceedInv == ASSUME TypeOK, RefundInv, NEW b \in Callers, Proceed(b) PROVE RefundInv'
<1>a. TypeOK /\ RefundInv /\ CallerInv(b) /\ MoneyInv
  BY DEF RefundInv
<1> USE OneMoves, QuietIsMonotone DEF Asking
<1>1. CASE WebhookReads(b)
  <2>1. UNCHANGED <<status, payment, refund, credited, replica>>
    BY <1>1 DEF WebhookReads, order, money, rest
  <2>2. OthersWait(b) /\ at'[b] \in {"refund", "settle", "idle"}
    BY <1>1, <1>a, GoMoves, GoWithMoves, LeaveMoves DEF WebhookReads
  <2>3. at'[b] = "refund" => status' = "cancelled"
    BY <1>1, <1>a, <2>1, GoMoves, GoWithMoves, LeaveMoves, SeenIsSo DEF WebhookReads
  <2>4. QED
    BY <1>a, <2>1, <2>2, <2>3 DEF CallerInv, Asking
<1>2. CASE WebhookSettles(b)
  <2>1. OthersWait(b) /\ at'[b] = "idle"
    BY <1>2, <1>a, LeaveMoves DEF WebhookSettles
  <2>2. Monotone /\ MoneyInv' /\ UNCHANGED replica
    BY <1>2, <1>a DEF WebhookSettles, IsTerminalOrderStatus, Monotone, MoneyInv, money, rest
  <2>3. QED
    BY <1>a, <2>1, <2>2 DEF CallerInv
<1>3. CASE RejectWrites(b)
  <2>1. OthersWait(b) /\ at'[b] \in {"refund", "idle"} /\ (at'[b] = "refund" => status' = "cancelled")
    BY <1>3, <1>a, GoWithMoves, LeaveMoves DEF RejectWrites, CancelBy, order
  <2>2. UNCHANGED money /\ UNCHANGED replica
    BY <1>3 DEF RejectWrites, rest
  <2>3. Monotone /\ MoneyInv'
    <3>1. CASE UNCHANGED order
      BY <1>a, <2>2, <3>1 DEF order, money
    <3>2. CASE \E actor : CancelBy(b, actor)
      BY <1>a, <2>2, <3>2, CancelIsMonotone
    <3>3. QED
      BY <1>3, <3>1, <3>2 DEF RejectWrites
  <2>4. QED
    BY <1>a, <2>1, <2>2, <2>3 DEF CallerInv
<1>4. CASE ExpiryCancels(b)
  <2>1. OthersWait(b) /\ at'[b] = "idle" /\ UNCHANGED money /\ UNCHANGED replica
    BY <1>4, <1>a, LeaveMoves DEF ExpiryCancels, rest
  <2>2. Monotone /\ MoneyInv'
    BY <1>4, <1>a, <2>1, CancelIsMonotone DEF ExpiryCancels, order, money
  <2>3. QED
    BY <1>a, <2>1, <2>2 DEF CallerInv
<1>5. CASE AcquireLock(b)
  <2>1. UNCHANGED <<status, payment, refund, credited, replica>>
    BY <1>5 DEF AcquireLock, order, money
  <2>2. CASE lock # Nobody
    <3>1. OthersWait(b) /\ at'[b] = "idle"
      BY <1>5, <1>a, <2>2, LeaveMoves DEF AcquireLock
    <3>2. QED
      BY <1>a, <2>1, <3>1 DEF CallerInv
  <2>3. CASE lock = Nobody
    <3> DEFINE from == IF job[b].from = "cancelled" THEN Seen.status ELSE job[b].from
               amount == RefundAmount(job[b].charged, food, from, Seen.courier)
               stage == IF amount = 0 THEN "release" ELSE "check"
               next == [job[b] EXCEPT !.amount = amount]
    <3>1. GoWith(b, stage, next)
      BY <1>5, <2>3 DEF AcquireLock, Decides
    <3>2. OthersWait(b) /\ at'[b] = stage /\ job'[b] = next
      BY <1>a, <3>1, GoWithMoves
    <3>3. amount \in Amounts
      <4>1. from \in OrderStatus /\ Seen.courier \in BOOLEAN /\ food \in BOOLEAN
        BY DEF TypeOK, Seen, Primary
      <4>2. job[b].charged \in BOOLEAN
        BY DEF TypeOK
      <4>3. QED
        BY <4>1, <4>2, PolicyType
    <3>4. stage = "check" => next.amount > 0
      BY <3>3, MoneyAssumption DEF TypeOK, Amounts
    <3>5. status' = "cancelled" \/ b \in Admins
      BY <1>5, <1>a, <2>1 DEF AcquireLock, CallerInv, Asking
    <3> HIDE DEF next
    <3>6. at'[b] \in {"release", "check"} /\ (at'[b] = "check" => job'[b].amount > 0)
      BY <3>2, <3>4
    <3>7. QED
      BY <1>a, <2>1, <3>2, <3>5, <3>6 DEF CallerInv
  <2>4. QED
    BY <2>2, <2>3
<1>6. CASE ChecksPayment(b)
  <2>1. UNCHANGED <<status, payment, refund, credited, replica>>
    BY <1>6 DEF ChecksPayment, order, money, rest
  <2>2. /\ OthersWait(b) /\ job'[b] = job[b]
        /\ at'[b] = IF payment = "paid" /\ Seen.refund = "none" THEN "journal" ELSE "release"
    BY <1>6, <1>a, GoMoves DEF ChecksPayment
  <2>3. QED
    BY <1>6, <1>a, <2>1, <2>2 DEF ChecksPayment, CallerInv, Asking
<1>7. CASE WritesJournal(b)
  <2>1. UNCHANGED <<status, payment, refund, credited, replica>>
    BY <1>7 DEF WritesJournal, order, rest
  <2>2. OthersWait(b) /\ job'[b].amount = job[b].amount /\ at'[b] = "create"
    BY <1>7, <1>a, GoMoves, GoWithMoves DEF WritesJournal, TypeOK
  <2>3. QED
    BY <1>7, <1>a, <2>1, <2>2 DEF WritesJournal, CallerInv, Asking
<1>8. CASE CreateRefund(b)
  <2>1. UNCHANGED <<status, payment, credited, replica>>
    BY <1>8 DEF CreateRefund, order, rest
  <2>2. CASE refund.status # "none"
    <3>1. OthersWait(b) /\ at'[b] = "release" /\ UNCHANGED refund
      BY <1>8, <1>a, <2>2, GoMoves DEF CreateRefund
    <3>2. QED
      BY <1>a, <2>1, <3>1 DEF CallerInv
  <2>3. CASE refund.status = "none"
    <3>1. /\ OthersWait(b) /\ at'[b] = "list"
          /\ refund'.status = "pending" /\ refund'.amount = job[b].amount
          /\ refund'.manual = (b \in Admins)
      BY <1>8, <1>a, <2>3, GoMoves DEF CreateRefund
    <3>2. job[b].amount > 0 /\ payment = "paid" /\ (status = "cancelled" \/ b \in Admins)
      BY <1>8, <1>a DEF CreateRefund, CallerInv, Asking
    <3>3. Monotone /\ MoneyInv'
      BY <1>a, <2>1, <2>3, <3>1, <3>2 DEF Monotone, MoneyInv
    <3>4. QED
      BY <1>a, <2>1, <3>1, <3>3 DEF CallerInv
  <2>4. QED
    BY <2>2, <2>3
<1>9. CASE ListsPending(b)
  <2>1. UNCHANGED <<status, payment, refund, credited, replica>>
    BY <1>9 DEF ListsPending, order, money, rest
  <2>2. OthersWait(b) /\ at'[b] = IF Seen.refund = "pending" THEN "wallet" ELSE Afterwards(b)
    BY <1>9, <1>a, GoMoves DEF ListsPending
  <2>3. Seen.refund = "pending" => refund'.status # "none"
    BY <1>a, <2>1, SeenIsSo
  <2>4. QED
    BY <1>a, <2>1, <2>2, <2>3 DEF CallerInv, Afterwards
<1>10. CASE WalletChecks(b)
  <2>1. UNCHANGED <<status, payment, refund, credited, replica>>
    BY <1>10 DEF WalletChecks, order, money, rest
  <2>2. /\ OthersWait(b) /\ at'[b] \in {"processed", "credit", "failed"}
        /\ at'[b] = "processed" => credited > 0
    BY <1>10, <1>a, GoMoves DEF WalletChecks, IsRefundProcessed
  <2>3. QED
    BY <1>10, <1>a, <2>1, <2>2 DEF WalletChecks, CallerInv
<1>11. CASE WalletCredits(b)
  <2>1. UNCHANGED <<status, payment, refund, replica>> /\ refund.status # "none" /\ refund.amount > 0
    BY <1>11, <1>a DEF WalletCredits, order, rest, CallerInv, MoneyInv
  <2>2. CASE credited > 0
    <3>1. OthersWait(b) /\ at'[b] = "failed" /\ UNCHANGED credited
      BY <1>11, <1>a, <2>2, GoMoves DEF WalletCredits
    <3>2. QED
      BY <1>a, <2>1, <3>1 DEF CallerInv
  <2>3. CASE ~(credited > 0)
    <3>1. OthersWait(b) /\ at'[b] \in {"processed", "failed"} /\ credited' = refund.amount
      BY <1>11, <1>a, <2>3, GoMoves DEF WalletCredits
    <3>2. Monotone /\ MoneyInv'
      BY <1>a, <2>1, <2>3, <3>1 DEF Monotone, MoneyInv
    <3>3. QED
      BY <1>a, <2>1, <3>1, <3>2 DEF CallerInv
  <2>4. QED
    BY <2>2, <2>3
<1>12. CASE UpdateRefundStatus(b)
  <2>1. UNCHANGED <<status, payment, credited, replica>>
    BY <1>12 DEF UpdateRefundStatus, order, rest
  <2>2. OthersWait(b) /\ at'[b] \in {"idle", "release"}
    BY <1>12, <1>a, GoMoves DEF UpdateRefundStatus, Afterwards
  <2>3. /\ refund'.status = at[b] /\ refund'.amount = refund.amount /\ refund'.manual = refund.manual
        /\ refund.status # "none" /\ at[b] \in {"processed", "failed"}
        /\ at[b] = "processed" => credited > 0
    BY <1>12, <1>a DEF UpdateRefundStatus, CallerInv, TypeOK
  <2>4. Monotone /\ MoneyInv'
    BY <1>a, <2>1, <2>3 DEF Monotone, MoneyInv
  <2>5. QED
    BY <1>a, <2>1, <2>2, <2>4 DEF CallerInv
<1>13. CASE ReleaseLock(b)
  <2>1. UNCHANGED <<status, payment, refund, credited, replica>> /\ OthersWait(b) /\ at'[b] = "idle"
    BY <1>13, <1>a, LeaveMoves DEF ReleaseLock, order, money
  <2>2. QED
    BY <1>a, <2>1 DEF CallerInv
<1>14. QED
  BY <1>1, <1>2, <1>3, <1>4, <1>5, <1>6, <1>7, <1>8, <1>9, <1>10, <1>11, <1>12, <1>13 DEF Proceed

(***************************************************************************)
(* The first step of an operation, and a crash, keep RefundInv: a customer *)
(* who asks for a refund has cancelled the order in the same step.         *)
(***************************************************************************)
LEMMA StartInv ==
    ASSUME TypeOK, RefundInv, NEW b \in Callers, Start(b) \/ Crash(b)
    PROVE  RefundInv'
<1>a. TypeOK /\ RefundInv /\ CallerInv(b) /\ MoneyInv
  BY DEF RefundInv
<1> USE OneMoves, QuietIsMonotone DEF Asking
<1>1. CASE b \in Deliveries /\ ApplyVerifiedPayment(b)
  <2>1. UNCHANGED <<status, refund, credited, replica>> /\ payment' = "paid"
    BY <1>1 DEF ApplyVerifiedPayment, order
  <2>2. OthersWait(b) /\ at'[b] = "paid"
    BY <1>1, <1>a, GoMoves DEF ApplyVerifiedPayment
  <2>3. Monotone /\ MoneyInv'
    BY <1>a, <2>1 DEF Monotone, MoneyInv
  <2>4. QED
    BY <1>a, <2>1, <2>2, <2>3 DEF CallerInv
<1>2. CASE b \in Customers /\ CancelOrder(b)
  <2>1. OthersWait(b) /\ at'[b] = "refund"
    BY <1>2, <1>a, GoWithMoves DEF CancelOrder
  <2>2. UNCHANGED money /\ UNCHANGED replica
    BY <1>2 DEF CancelOrder, rest
  <2>3. Monotone /\ MoneyInv' /\ status' = "cancelled"
    BY <1>2, <1>a, <2>2, CancelIsMonotone DEF CancelOrder
  <2>4. QED
    BY <1>a, <2>1, <2>2, <2>3 DEF CallerInv
<1>3. CASE RejectReads(b) \/ ExpiryReads(b) \/ BatchStarts(b)
  <2>1. UNCHANGED <<status, payment, refund, credited, replica>>
    BY <1>3 DEF RejectReads, ExpiryReads, BatchStarts, order, money, rest
  <2>2. OthersWait(b) /\ at'[b] \in {"reject", "expire", "list"}
    BY <1>3, <1>a, GoMoves DEF RejectReads, ExpiryReads, BatchStarts
  <2>3. QED
    BY <1>a, <2>1, <2>2 DEF CallerInv
<1>4. CASE Crash(b)
  <2>1. UNCHANGED <<status, payment, refund, credited, replica>>
    BY <1>4 DEF Crash, order, money
  <2>2. OthersWait(b) /\ at'[b] = "idle"
    BY <1>4, <1>a, LeaveMoves DEF Crash
  <2>3. QED
    BY <1>a, <2>1, <2>2 DEF CallerInv
<1>5. CASE RefundOneStarts(b)
  <2>1. UNCHANGED <<status, payment, refund, credited, replica>> /\ b \in Admins
    BY <1>5 DEF RefundOneStarts, order, money, rest
  <2>2. OthersWait(b) /\ at'[b] = "refund"
    BY <1>5, <1>a, GoWithMoves DEF RefundOneStarts
  <2>3. QED
    BY <1>a, <2>1, <2>2 DEF CallerInv
<1>6. QED
  BY <1>1, <1>2, <1>3, <1>4, <1>5 DEF Start

(***************************************************************************)
(* RefundInv is an invariant: however long ago a caller found the order    *)
(* cancelled, paid, and without a refund or with one, it still is.         *)
(***************************************************************************)
THEOREM RefundSafe == Spec => []RefundInv
<1>1. Init => RefundInv
  <2> SUFFICES ASSUME Init PROVE RefundInv
    OBVIOUS
  <2>1. status # "cancelled" /\ refund = NoRefund /\ credited = 0
    BY DEF Init
  <2>2. replica.status = status /\ replica.refund = "none"
    BY <2>1 DEF Init, Primary, NoRefund
  <2>3. \A b \in Callers : at[b] = "idle"
    BY DEF Init
  <2>4. QED
    BY <2>1, <2>2, <2>3 DEF RefundInv, ReplicaInv, MoneyInv, CallerInv, NoRefund, Asking
<1>2. TypeOK /\ RefundInv /\ [Next]_vars => RefundInv'
  <2> SUFFICES ASSUME TypeOK, RefundInv, [Next]_vars PROVE RefundInv'
    OBVIOUS
  <2>1. CASE UNCHANGED vars
    BY <2>1 DEF vars, order, money, rest, RefundInv, ReplicaInv, MoneyInv, CallerInv
  <2>2. CASE Replicate
    <3>1. UNCHANGED <<status, payment, refund, credited, at, job>> /\ replica' = Primary
      BY <2>2 DEF Replicate, order, money
    <3>2. replica'.status = status /\ replica'.refund = refund.status
      BY <3>1 DEF Primary
    <3>3. QED
      BY <3>1, <3>2 DEF RefundInv, ReplicaInv, MoneyInv, CallerInv
  <2>3. ASSUME NEW to \in Advances, Advance(to) PROVE RefundInv'
    <3>1. status # "cancelled"
      BY <2>3, TableType DEF Advance, TypeOK
    <3>2. UNCHANGED <<payment, refund, credited, replica, at, job>>
      BY <2>3 DEF Advance, money, rest
    <3>3. QED
      BY <3>1, <3>2 DEF RefundInv, ReplicaInv, MoneyInv, CallerInv
  <2>4. CASE LockExpires
    BY <2>4 DEF LockExpires, order, money, RefundInv, ReplicaInv, MoneyInv, CallerInv
  <2>5. QED
    BY <2>1, <2>2, <2>3, <2>4, ProceedInv, StartInv DEF Next
<1>3. QED
  BY <1>1, <1>2, TypeCorrect, PTL DEF Spec

(***************************************************************************)
(* The wallet of the customer gets the amount of the order's one refund,   *)
(* once, whatever the callers of refunds, batches and retries do.          *)
(***************************************************************************)
THEOREM NeverCreditedTwice == Spec => []CreditedOnce
<1>1. RefundInv => CreditedOnce
  BY DEF RefundInv, MoneyInv, CreditedOnce
<1>2. QED
  BY <1>1, RefundSafe, PTL

(***************************************************************************)
(* Whoever asks, and however stale what it read, a refund exists only for  *)
(* a paid order, and only if that was cancelled or an admin asked for it.  *)
(***************************************************************************)
THEOREM OnlyOwedRefunds == Spec => []RefundsAreOwed
<1>1. RefundInv => RefundsAreOwed
  BY DEF RefundInv, MoneyInv, RefundsAreOwed
<1>2. QED
  BY <1>1, RefundSafe, PTL

(***************************************************************************)
(* A refund that UpdateRefundStatus marked processed was credited.         *)
(***************************************************************************)
THEOREM NoEmptyRefund == Spec => []ProcessedMeansCredited
<1>1. RefundInv => ProcessedMeansCredited
  BY DEF RefundInv, MoneyInv, ProcessedMeansCredited
<1>2. QED
  BY <1>1, RefundSafe, PTL

-----------------------------------------------------------------------------
(* The promise to the customer                                             *)

(***************************************************************************)
(* A step that touches neither the refund nor the wallet is a stutter of   *)
(* RefundPromise or changes what is owed.                                  *)
(***************************************************************************)
Owed_ == payment = "paid" /\ (status = "cancelled" \/ refund.manual \/ AdminAsks)

LEMMA OweOrStutter ==
    ASSUME UNCHANGED <<refund, credited>>
    PROVE  [Promise!Next]_Promise!vars
<1>1. CASE Owed_' <=> Owed_
  BY <1>1 DEF Promise!vars, Owed_
<1>2. CASE ~(Owed_' <=> Owed_)
  BY <1>2 DEF Promise!Next, Promise!Owe, Owed_
<1>3. QED
  BY <1>1, <1>2

(***************************************************************************)
(* What is owed does not change when a caller after its refund goes on.    *)
(***************************************************************************)
LEMMA OwedStays ==
    ASSUME NEW b \in Callers, OthersWait(b), UNCHANGED <<status, payment>>,
           refund'.manual = refund.manual, at[b] \notin Asking, at'[b] \notin Asking
    PROVE  Owed_' <=> Owed_
BY DEF OthersWait, Callers, AdminAsks, Asking, Owed_

(***************************************************************************)
(* The one refund row is granted when it is owed.                          *)
(***************************************************************************)
LEMMA CreateGrants ==
    ASSUME TypeOK, RefundInv, NEW b \in Callers, CreateRefund(b)
    PROVE  [Promise!Next]_Promise!vars
<1>1. UNCHANGED <<status, payment, credited>> /\ at[b] = "create"
  BY DEF CreateRefund, order
<1>2. CASE refund.status # "none"
  BY <1>1, <1>2, OweOrStutter DEF CreateRefund
<1>3. CASE refund.status = "none"
  <2>1. refund'.status = "pending" /\ refund'.amount = job[b].amount
    BY <1>3 DEF CreateRefund
  <2>2. /\ job[b].amount > 0 /\ payment = "paid" /\ refund.amount = 0
        /\ status = "cancelled" \/ b \in Admins
    BY <1>1, <1>3 DEF RefundInv, CallerInv, MoneyInv, Asking
  <2>3. job[b].amount \in 1 .. Price
    BY <2>2, MoneyAssumption DEF TypeOK, Amounts
  <2>4. Owed_ /\ Owed_'
    <3>1. CASE status = "cancelled"
      BY <1>1, <2>2, <3>1 DEF Owed_
    <3>2. CASE b \in Admins
      <4>1. AdminAsks
        BY <1>1, <3>2 DEF AdminAsks
      <4>2. refund'.manual = (b \in Admins)
        BY <1>3 DEF CreateRefund
      <4>3. QED
        BY <1>1, <2>2, <3>2, <4>1, <4>2 DEF Owed_
    <3>3. QED
      BY <2>2, <3>1, <3>2
  <2>5. Promise!Grant
    BY <1>1, <1>3, <2>1, <2>2, <2>3, <2>4 DEF Promise!Grant, Owed_
  <2>6. QED
    BY <2>5 DEF Promise!Next
<1>4. QED
  BY <1>2, <1>3

(***************************************************************************)
(* The unique journal of the wallet gives its amount once.                 *)
(***************************************************************************)
LEMMA CreditGives ==
    ASSUME TypeOK, RefundInv, NEW b \in Callers, WalletCredits(b)
    PROVE  [Promise!Next]_Promise!vars
<1>1. UNCHANGED <<status, payment, refund>> /\ at[b] = "credit"
  BY DEF WalletCredits, order
<1>2. CASE credited > 0
  BY <1>1, <1>2, OweOrStutter DEF WalletCredits
<1>3. CASE ~(credited > 0)
  <2>1. credited' = refund.amount
    BY <1>3 DEF WalletCredits
  <2>2. refund.amount > 0 /\ credited = 0
    BY <1>1, <1>3 DEF RefundInv, CallerInv, MoneyInv
  <2>3. OthersWait(b) /\ at'[b] \in {"processed", "failed"}
    BY <1>3, GoMoves DEF WalletCredits
  <2>4. Owed_' <=> Owed_
    BY <1>1, <2>3, OwedStays DEF Asking
  <2>5. Promise!Give
    BY <1>1, <2>1, <2>2, <2>4 DEF Promise!Give, Owed_
  <2>6. QED
    BY <2>5 DEF Promise!Next
<1>4. QED
  BY <1>2, <1>3

(***************************************************************************)
(* A refund is shown as made after its credit.                             *)
(***************************************************************************)
LEMMA UpdateShows ==
    ASSUME TypeOK, RefundInv, NEW b \in Callers, UpdateRefundStatus(b)
    PROVE  [Promise!Next]_Promise!vars
<1> DEFINE Processed == refund.status = "processed"
<1>1. UNCHANGED <<status, payment, credited>> /\ refund'.amount = refund.amount
  BY DEF UpdateRefundStatus, order, TypeOK
<1>2. refund'.status = at[b] /\ (at[b] = "processed" => credited > 0)
  BY DEF UpdateRefundStatus, RefundInv, CallerInv, TypeOK
<1>3. /\ OthersWait(b) /\ at[b] \in {"processed", "failed"} /\ at'[b] \in {"idle", "release"}
      /\ refund'.manual = refund.manual
  BY GoMoves DEF UpdateRefundStatus, Afterwards, TypeOK
<1>4. Owed_' <=> Owed_
  BY <1>1, <1>3, OwedStays DEF Asking
<1>5. CASE Processed' <=> Processed
  BY <1>1, <1>4, <1>5 DEF Promise!vars, Owed_
<1>6. CASE ~Processed /\ Processed'
  BY <1>1, <1>2, <1>4, <1>6 DEF Promise!Next, Promise!Show, Owed_
<1>7. CASE Processed /\ ~Processed'
  BY <1>1, <1>4, <1>7 DEF Promise!Next, Promise!Hide, Owed_
<1>8. QED
  BY <1>5, <1>6, <1>7

(***************************************************************************)
(* Every step is a step of RefundPromise or a stutter.                     *)
(***************************************************************************)
LEMMA StepKeepsPromise ==
    ASSUME TypeOK, RefundInv, [Next]_vars
    PROVE  [Promise!Next]_Promise!vars
<1>1. CASE UNCHANGED vars
  BY <1>1, OweOrStutter DEF vars, money
<1>2. CASE Replicate \/ LockExpires
  BY <1>2, OweOrStutter DEF Replicate, LockExpires, money
<1>3. ASSUME NEW to \in Advances, Advance(to) PROVE [Promise!Next]_Promise!vars
  BY <1>3, OweOrStutter DEF Advance, money
<1>4. ASSUME NEW b \in Callers, Start(b) \/ Crash(b) PROVE [Promise!Next]_Promise!vars
  <2>1. UNCHANGED <<refund, credited>>
    BY <1>4 DEF Start, ApplyVerifiedPayment, CancelOrder, RejectReads, ExpiryReads, BatchStarts,
                RefundOneStarts, Crash, money
  <2>2. QED
    BY <2>1, OweOrStutter
<1>5. ASSUME NEW b \in Callers, Proceed(b) PROVE [Promise!Next]_Promise!vars
  <2>1. CASE CreateRefund(b) \/ WalletCredits(b) \/ UpdateRefundStatus(b)
    BY <2>1, CreateGrants, CreditGives, UpdateShows
  <2>2. CASE ~(CreateRefund(b) \/ WalletCredits(b) \/ UpdateRefundStatus(b))
    <3>1. UNCHANGED <<refund, credited>>
      BY <1>5, <2>2 DEF Proceed, WebhookReads, WebhookSettles, RejectWrites, ExpiryCancels,
           AcquireLock, ChecksPayment, WritesJournal, ListsPending, WalletChecks, ReleaseLock, money
    <3>2. QED
      BY <3>1, OweOrStutter
  <2>3. QED
    BY <2>1, <2>2
<1>6. QED
  BY <1>1, <1>2, <1>3, <1>4, <1>5 DEF Next

(***************************************************************************)
(* OrderRefund implements RefundPromise, for any number of callers and     *)
(* crashes, under lag, with locks that expire and answers that are lost.   *)
(***************************************************************************)
THEOREM PromiseKept == Spec => KeepsPromise
<1>1. Init => Promise!Init
  <2> SUFFICES ASSUME Init PROVE Promise!Init
    OBVIOUS
  <2>1. status # "cancelled" /\ refund = NoRefund /\ credited = 0 /\ ~AdminAsks
    BY DEF Init, AdminAsks, Callers
  <2>2. QED
    BY <2>1 DEF Promise!Init, NoRefund
<1>2. QED
  BY <1>1, StepKeepsPromise, TypeCorrect, RefundSafe, PTL DEF Spec, KeepsPromise, Promise!Spec

-----------------------------------------------------------------------------
(* What the policy gives back                                              *)
(*                                                                         *)
(* A refund is computed from the status that its caller hands over, but a  *)
(* webhook that finds the order cancelled hands over `cancelled', for      *)
(* which a parcel is refunded in full.  That is what is due only if the    *)
(* order was cancelled before it was paid.  A second webhook of a settled  *)
(* parcel breaks it, and so does a replica that has not seen the release   *)
(* of a food order's courier.                                              *)

OneSettlement ==
    /\ Lag => FoodOrders \subseteq {FALSE}
    /\ FALSE \in FoodOrders /\ Deliveries # {} =>
          Paid \subseteq {FALSE} /\ \A d, e \in Deliveries : d = e

\* The payment has not reached the order, and no longer can.
Unsettled ==
    \/ status = "pending_payment"
    \/ status = "cancelled" /\ cancelled.from = "pending_payment"

JobInv(b) ==
    /\ at[b] \in {"paid", "settle"} => b \in Deliveries
    /\ at[b] = "refund" /\ ~job[b].charged /\ b \notin Admins =>
          \/ job[b].from = cancelled.from /\ job[b].from # "cancelled"
          \/ /\ job[b].from = "cancelled" /\ Seen.status = "cancelled"
             /\ food \/ cancelled.from = "pending_payment"
    /\ at[b] \in {"check", "journal", "create"} /\ ~job[b].charged /\ b \notin Admins =>
          job[b].amount = Due

NoticeInv(d) ==
    /\ at[d] # "idle" => d \notin notices
    /\ ~food /\ (at[d] # "idle" \/ d \in notices) => Unsettled

PolicyInv ==
    /\ food \in FoodOrders
    /\ \A b \in Callers : JobInv(b)
    /\ \A d \in Deliveries : NoticeInv(d)
    /\ RefundMatchesPolicy

(***************************************************************************)
(* A parcel's refund does not look at the courier, a cancelled food order  *)
(* gets nothing back, and an unpaid parcel is refunded like a cancelled    *)
(* one; what is not charged is what the policy gives.                      *)
(***************************************************************************)
LEMMA PolicyFacts ==
    ASSUME NEW x \in BOOLEAN, NEW y \in BOOLEAN
    PROVE  /\ \A from \in OrderStatus : PolicyAmount(FALSE, from, x) = PolicyAmount(FALSE, from, y)
           /\ PolicyAmount(TRUE, "cancelled", x) = 0
           /\ PolicyAmount(FALSE, "cancelled", x) = PolicyAmount(FALSE, "pending_payment", y)
           /\ \A isFood \in BOOLEAN, from \in OrderStatus :
                 RefundAmount(FALSE, isFood, from, x) = PolicyAmount(isFood, from, x)
BY DEF PolicyAmount, RefundAmount, FreeStatus, LateStatus

(***************************************************************************)
(* A cancelled order and the row of its cancellation stay, on the primary  *)
(* and on the replica.                                                     *)
(***************************************************************************)
KeepsCancelled ==
    /\ UNCHANGED food
    /\ status = "cancelled" => status' = "cancelled" /\ UNCHANGED <<courier, cancelled>>
    /\ replica.status = "cancelled" => replica'.status = "cancelled"

(***************************************************************************)
(* What a caller has computed stays right while it waits.                  *)
(***************************************************************************)
LEMMA WaitsKeepAmount ==
    ASSUME TypeOK, RefundInv, PolicyInv, KeepsCancelled,
           NEW c \in Callers, at'[c] = at[c], job'[c] = job[c]
    PROVE  JobInv(c)'
<1>1. JobInv(c) /\ CallerInv(c)
  BY DEF PolicyInv, RefundInv
<1>2. Seen.status = "cancelled" => Seen'.status = "cancelled"
  BY DEF KeepsCancelled, Seen, Primary
<1>3. status = "cancelled" => Due' = Due
  BY DEF KeepsCancelled, Due
<1>4. at[c] \in Asking /\ c \notin Admins => UNCHANGED <<food, cancelled>> /\ Due' = Due
  BY <1>1, <1>3 DEF CallerInv, KeepsCancelled
<1>5. QED
  BY <1>1, <1>2, <1>4 DEF JobInv, Asking

(***************************************************************************)
(* A refund that exists stays what the policy gives.                       *)
(***************************************************************************)
LEMMA RefundStaysRight ==
    ASSUME RefundInv, PolicyInv, KeepsCancelled,
           refund'.status # "none" => refund.status # "none",
           refund'.amount = refund.amount, refund'.charged = refund.charged,
           refund'.manual = refund.manual
    PROVE  RefundMatchesPolicy'
<1>1. refund.status # "none" /\ ~refund.manual => status = "cancelled"
  BY DEF RefundInv, MoneyInv
<1>2. status = "cancelled" => Due' = Due
  BY DEF KeepsCancelled, Due
<1>3. QED
  BY <1>1, <1>2 DEF PolicyInv, RefundMatchesPolicy

(***************************************************************************)
(* A step of caller b that settles no payment keeps the invariant if it    *)
(* keeps the refund right and computes the amount that is due.             *)
(***************************************************************************)
LEMMA PolicyFrame ==
    ASSUME TypeOK, RefundInv, PolicyInv, NEW b \in Callers, OthersWait(b), KeepsCancelled,
           UNCHANGED notices, at[b] # "idle" \/ b \notin Deliveries,
           Unsettled => Unsettled', JobInv(b)', RefundMatchesPolicy'
    PROVE  PolicyInv'
<1>1. ASSUME NEW c \in Callers PROVE JobInv(c)'
  <2>1. CASE c = b
    BY <2>1
  <2>2. CASE c # b
    BY <2>2, WaitsKeepAmount DEF OthersWait
  <2>3. QED
    BY <2>1, <2>2
<1>2. ASSUME NEW d \in Deliveries PROVE NoticeInv(d)'
  <2>1. NoticeInv(d) /\ UNCHANGED food
    BY DEF PolicyInv, KeepsCancelled
  <2>2. at[d] # "idle" \/ at'[d] = at[d]
    BY DEF OthersWait, Callers
  <2>3. QED
    BY <2>1, <2>2 DEF NoticeInv
<1>3. QED
  BY <1>1, <1>2 DEF PolicyInv, KeepsCancelled

(***************************************************************************)
(* A step that leaves the order and the replica alone takes no             *)
(* cancellation back.                                                      *)
(***************************************************************************)
LEMMA QuietKeeps ==
    ASSUME UNCHANGED order, UNCHANGED replica
    PROVE  KeepsCancelled /\ (Unsettled => Unsettled')
BY DEF order, KeepsCancelled, Unsettled

(***************************************************************************)
(* Nor does a cancellation, which is of an order that was not cancelled.   *)
(***************************************************************************)
LEMMA CancelKeeps ==
    ASSUME NEW b, NEW actor, CancelBy(b, actor), UNCHANGED replica
    PROVE  /\ KeepsCancelled /\ (Unsettled => Unsettled')
           /\ status # "cancelled" /\ cancelled' = [from |-> status, by |-> b]
BY DEF CancelBy, MayCancel, KeepsCancelled, Unsettled

(***************************************************************************)
(* The steps of an operation that has begun keep the amount right.         *)
(***************************************************************************)
LEMMA ProceedPolicy ==
    ASSUME OneSettlement, TypeOK, RefundInv, PolicyInv, NEW b \in Callers, Proceed(b)
    PROVE  PolicyInv'
<1>a. TypeOK /\ RefundInv /\ PolicyInv /\ CallerInv(b) /\ JobInv(b)
  BY DEF RefundInv, PolicyInv
<1> DEFINE Minded == {"paid", "settle", "refund", "check", "journal", "create"}
<1>b. at'[b] \notin Minded => JobInv(b)'
  BY DEF JobInv
<1>c. UNCHANGED refund /\ KeepsCancelled => RefundMatchesPolicy'
  BY <1>a, RefundStaysRight
<1>1. CASE WebhookReads(b)
  <2>1. UNCHANGED order /\ UNCHANGED <<refund, replica, notices>> /\ at[b] = "paid"
    BY <1>1 DEF WebhookReads, money, rest
  <2>2. KeepsCancelled /\ (Unsettled => Unsettled')
    BY <2>1, QuietKeeps
  <2>3. CASE Seen.status = "cancelled"
    <3>1. OthersWait(b) /\ at'[b] = "refund" /\ job'[b] = NoJob
      BY <1>1, <1>a, <2>3, GoWithMoves DEF WebhookReads
    <3>2. Seen'.status = "cancelled"
      BY <2>1, <2>3 DEF Seen, Primary, order
    <3>3. food \/ cancelled.from = "pending_payment"
      <4>1. status = "cancelled"
        BY <1>a, <2>3, SeenIsSo
      <4>2. food \/ Unsettled
        BY <1>a, <2>1 DEF PolicyInv, JobInv, NoticeInv
      <4>3. QED
        BY <4>1, <4>2 DEF Unsettled
    <3>4. JobInv(b)'
      BY <2>1, <3>1, <3>2, <3>3 DEF JobInv, NoJob, order
    <3>5. QED
      BY <1>a, <1>c, <2>1, <2>2, <3>1, <3>4, PolicyFrame
  <2>4. CASE Seen.status # "cancelled"
    <3>1. OthersWait(b) /\ at'[b] \in {"settle", "idle"}
      BY <1>1, <1>a, <2>4, GoMoves, LeaveMoves DEF WebhookReads
    <3>2. JobInv(b)'
      BY <1>a, <2>1, <3>1 DEF JobInv
    <3>3. QED
      BY <1>a, <1>c, <2>1, <2>2, <3>1, <3>2, PolicyFrame
  <2>5. QED
    BY <2>3, <2>4
<1>2. CASE WebhookSettles(b)
  <2>1. /\ at[b] = "settle" /\ b \in Deliveries
        /\ UNCHANGED <<food, courier, cancelled, refund, notices, replica>>
    BY <1>2, <1>a DEF WebhookSettles, JobInv, money, rest
  <2>2. OthersWait(b) /\ at'[b] = "idle"
    BY <1>2, <1>a, LeaveMoves DEF WebhookSettles
  <2>3. KeepsCancelled
    BY <1>2, <2>1 DEF WebhookSettles, IsTerminalOrderStatus, KeepsCancelled
  <2>4. ASSUME NEW c \in Callers PROVE JobInv(c)'
    BY <1>a, <1>b, <2>2, <2>3, WaitsKeepAmount DEF OthersWait
  <2>5. ASSUME NEW d \in Deliveries PROVE NoticeInv(d)'
    <3>1. CASE d = b
      BY <1>a, <2>1, <2>2, <3>1 DEF PolicyInv, NoticeInv
    <3>2. CASE d # b
      <4>1. food /\ UNCHANGED food
        BY <1>a, <2>1, <3>2, ScopeAssumption DEF OneSettlement, PolicyInv, TypeOK
      <4>2. at'[d] = at[d]
        BY <2>2, <3>2 DEF OthersWait, Callers
      <4>3. QED
        BY <1>a, <2>1, <4>1, <4>2 DEF PolicyInv, NoticeInv
    <3>3. QED
      BY <3>1, <3>2
  <2>6. QED
    BY <1>a, <1>c, <2>1, <2>3, <2>4, <2>5 DEF PolicyInv
<1>3. CASE RejectWrites(b)
  <2>1. UNCHANGED <<refund, notices, replica>> /\ at[b] # "idle"
    BY <1>3 DEF RejectWrites, money, rest
  <2>2. OthersWait(b) /\ (at'[b] = "idle" \/ (at'[b] = "refund" /\ job'[b].charged))
    <3>1. ChargedToMerchant.charged
      BY DEF ChargedToMerchant, NoJob
    <3>2. QED
      BY <1>3, <1>a, <3>1, GoWithMoves, LeaveMoves DEF RejectWrites
  <2>3. KeepsCancelled /\ (Unsettled => Unsettled')
    BY <1>3, <2>1, QuietKeeps, CancelKeeps DEF RejectWrites
  <2>4. JobInv(b)'
    BY <2>2 DEF JobInv
  <2>5. QED
    BY <1>a, <1>c, <2>1, <2>2, <2>3, <2>4, PolicyFrame
<1>4. CASE ExpiryCancels(b)
  <2>1. UNCHANGED <<refund, notices, replica>> /\ at[b] # "idle"
    BY <1>4 DEF ExpiryCancels, money, rest
  <2>2. OthersWait(b) /\ at'[b] = "idle"
    BY <1>4, <1>a, LeaveMoves DEF ExpiryCancels
  <2>3. KeepsCancelled /\ (Unsettled => Unsettled')
    BY <1>4, <2>1, QuietKeeps, CancelKeeps DEF ExpiryCancels
  <2>4. QED
    BY <1>a, <1>b, <1>c, <2>1, <2>2, <2>3, PolicyFrame
<1>5. CASE AcquireLock(b)
  <2>1. UNCHANGED order /\ UNCHANGED <<refund, replica, notices>> /\ at[b] = "refund"
    BY <1>5 DEF AcquireLock, money
  <2>2. KeepsCancelled /\ (Unsettled => Unsettled')
    BY <2>1, QuietKeeps
  <2>3. CASE lock # Nobody
    <3>1. OthersWait(b) /\ at'[b] = "idle"
      BY <1>5, <1>a, <2>3, LeaveMoves DEF AcquireLock
    <3>2. QED
      BY <1>a, <1>b, <1>c, <2>1, <2>2, <3>1, PolicyFrame
  <2>4. CASE lock = Nobody
    <3> DEFINE from == IF job[b].from = "cancelled" THEN Seen.status ELSE job[b].from
               amount == RefundAmount(job[b].charged, food, from, Seen.courier)
               stage == IF amount = 0 THEN "release" ELSE "check"
               next == [job[b] EXCEPT !.amount = amount]
    <3>1. GoWith(b, stage, next)
      BY <1>5, <2>4 DEF AcquireLock, Decides
    <3>2. OthersWait(b) /\ at'[b] = stage /\ job'[b] = next
      BY <1>a, <3>1, GoWithMoves
    <3>3. next.charged = job[b].charged /\ next.amount = amount
      BY DEF TypeOK
    <3>4. ASSUME stage = "check", ~job[b].charged, b \notin Admins PROVE amount = Due
      <4> DEFINE due == PolicyAmount(food, from, Seen.courier)
      <4>0. from \in OrderStatus
        BY DEF TypeOK, Seen, Primary
      <4>1. food \in BOOLEAN /\ courier \in BOOLEAN /\ Seen.courier \in BOOLEAN
            /\ cancelled.from \in OrderStatus /\ job[b].charged = FALSE
        BY <3>4 DEF TypeOK, Seen, Primary
      <4>7. amount = due
        BY <4>0, <4>1, PolicyFacts
      <4>2. food => Seen.courier = courier
        BY ScopeAssumption DEF OneSettlement, PolicyInv, Seen, Primary
      <4>3. CASE job[b].from = cancelled.from /\ job[b].from # "cancelled"
        <5>1. from = cancelled.from
          BY <4>3
        <5>2. QED
          BY <4>1, <4>2, <4>7, <5>1, PolicyFacts DEF Due
      <4>4. CASE from = "cancelled" /\ food
        <5>1. due = 0
          BY <4>1, <4>4, PolicyFacts
        <5>2. QED
          BY <3>4, <4>7, <5>1
      <4>5. CASE from = "cancelled" /\ ~food /\ cancelled.from = "pending_payment"
        BY <4>1, <4>5, <4>7, PolicyFacts DEF Due
      <4>6. QED
        BY <1>a, <2>1, <3>4, <4>3, <4>4, <4>5 DEF JobInv
    <3> HIDE DEF stage, next
    <3>5. at'[b] \in {"release", "check"}
      BY <3>2 DEF stage
    <3>6. Due' = Due
      BY <2>1 DEF Due, order
    <3>7. JobInv(b)'
      BY <3>2, <3>3, <3>4, <3>5, <3>6 DEF JobInv
    <3>8. QED
      BY <1>a, <1>c, <2>1, <2>2, <3>2, <3>7, PolicyFrame
  <2>5. QED
    BY <2>3, <2>4
<1>6. CASE ChecksPayment(b) \/ WritesJournal(b)
  <2>1. UNCHANGED order /\ UNCHANGED <<refund, replica, notices>> /\ at[b] \in {"check", "journal"}
    BY <1>6 DEF ChecksPayment, WritesJournal, money, rest
  <2>2. /\ OthersWait(b) /\ at'[b] \in {"journal", "create", "release"}
        /\ job'[b].amount = job[b].amount /\ job'[b].charged = job[b].charged
    BY <1>6, <1>a, GoMoves, GoWithMoves DEF ChecksPayment, WritesJournal, TypeOK
  <2>3. Due' = Due
    BY <2>1 DEF Due, order
  <2>4. JobInv(b)'
    BY <1>a, <2>1, <2>2, <2>3 DEF JobInv
  <2>5. QED
    BY <1>a, <1>c, <2>1, <2>2, <2>4, QuietKeeps, PolicyFrame
<1>7. CASE CreateRefund(b)
  <2>1. UNCHANGED order /\ UNCHANGED <<replica, notices>> /\ at[b] = "create"
    BY <1>7 DEF CreateRefund, rest
  <2>2. OthersWait(b) /\ at'[b] \in {"release", "list"}
    BY <1>7, <1>a, GoMoves DEF CreateRefund
  <2>3. RefundMatchesPolicy'
    <3>1. CASE refund.status # "none"
      BY <1>7, <1>c, <2>1, <3>1, QuietKeeps DEF CreateRefund
    <3>2. CASE refund.status = "none"
      <4>1. refund'.charged = job[b].charged /\ refund'.amount = job[b].amount
            /\ refund'.manual = (b \in Admins)
        BY <1>7, <3>2 DEF CreateRefund
      <4>2. ~job[b].charged /\ b \notin Admins => job[b].amount = Due
        BY <1>a, <2>1 DEF JobInv
      <4>3. Due' = Due
        BY <2>1 DEF Due, order
      <4>4. QED
        BY <4>1, <4>2, <4>3 DEF RefundMatchesPolicy
    <3>3. QED
      BY <3>1, <3>2
  <2>4. QED
    BY <1>a, <1>b, <2>1, <2>2, <2>3, QuietKeeps, PolicyFrame
<1>8. CASE ListsPending(b) \/ WalletChecks(b) \/ WalletCredits(b) \/ ReleaseLock(b)
  <2>1. UNCHANGED order /\ UNCHANGED <<refund, replica, notices>>
        /\ at[b] \in {"list", "wallet", "credit", "release"}
    BY <1>8 DEF ListsPending, WalletChecks, WalletCredits, ReleaseLock, money, rest
  <2>2. OthersWait(b) /\ at'[b] \in {"wallet", "idle", "release", "processed", "credit", "failed"}
    <3>1. CASE ListsPending(b)
      BY <3>1, <1>a, GoMoves DEF ListsPending, Afterwards
    <3>2. CASE WalletChecks(b)
      BY <3>2, <1>a, GoMoves DEF WalletChecks
    <3>3. CASE WalletCredits(b)
      BY <3>3, <1>a, GoMoves DEF WalletCredits
    <3>4. CASE ReleaseLock(b)
      BY <3>4, <1>a, LeaveMoves DEF ReleaseLock
    <3>5. QED
      BY <1>8, <3>1, <3>2, <3>3, <3>4
  <2>3. QED
    BY <1>a, <1>b, <1>c, <2>1, <2>2, QuietKeeps, PolicyFrame
<1>9. CASE UpdateRefundStatus(b)
  <2>1. UNCHANGED order /\ UNCHANGED <<replica, notices>> /\ at[b] \in {"processed", "failed"}
    BY <1>9 DEF UpdateRefundStatus, rest
  <2>2. OthersWait(b) /\ at'[b] \in {"idle", "release"}
    BY <1>9, <1>a, GoMoves DEF UpdateRefundStatus, Afterwards
  <2>3. refund.status # "none" /\ refund'.amount = refund.amount /\ refund'.charged = refund.charged
        /\ refund'.manual = refund.manual
    BY <1>9, <1>a, <2>1 DEF UpdateRefundStatus, CallerInv, TypeOK
  <2>4. QED
    BY <1>a, <1>b, <2>1, <2>2, <2>3, QuietKeeps, RefundStaysRight, PolicyFrame
<1>10. QED
  BY <1>1, <1>2, <1>3, <1>4, <1>5, <1>6, <1>7, <1>8, <1>9 DEF Proceed

(***************************************************************************)
(* Only a delivery of the webhook has a notice to answer for.              *)
(***************************************************************************)
LEMMA DeliveriesApart ==
    Deliveries \cap (Customers \cup Merchants \cup SlaWorkers \cup Expirers \cup Admins) = {}
<1> DEFINE roles == <<Customers, Merchants, SlaWorkers, Expirers, Deliveries, Admins>>
<1>1. \A i \in 1 .. 6 : i # 5 => roles[i] \cap roles[5] = {}
  BY CallersAssumption
<1>2. roles[1] = Customers /\ roles[2] = Merchants /\ roles[3] = SlaWorkers /\ roles[4] = Expirers
      /\ roles[5] = Deliveries /\ roles[6] = Admins
  OBVIOUS
<1> HIDE DEF roles
<1>3. Customers \cap Deliveries = {} /\ Merchants \cap Deliveries = {}
  BY <1>1, <1>2
<1>4. SlaWorkers \cap Deliveries = {} /\ Expirers \cap Deliveries = {} /\ Admins \cap Deliveries = {}
  BY <1>1, <1>2
<1>5. QED
  BY <1>3, <1>4

(***************************************************************************)
(* So do the first step of an operation and a crash.                       *)
(***************************************************************************)
LEMMA StartPolicy ==
    ASSUME TypeOK, RefundInv, PolicyInv, NEW b \in Callers, Start(b) \/ Crash(b)
    PROVE  PolicyInv'
<1>a. TypeOK /\ RefundInv /\ PolicyInv
  OBVIOUS
<1>c. UNCHANGED refund /\ KeepsCancelled => RefundMatchesPolicy'
  BY <1>a, RefundStaysRight
<1>1. CASE b \in Customers /\ CancelOrder(b)
  <2>1. PICK actor : CancelBy(b, actor)
    BY <1>1 DEF CancelOrder
  <2>2. UNCHANGED <<refund, replica, notices>> /\ b \notin Deliveries
    BY <1>1, DeliveriesApart DEF CancelOrder, money, rest
  <2>3. OthersWait(b) /\ at'[b] = "refund" /\ job'[b] = [NoJob EXCEPT !.from = status]
    BY <1>1, <1>a, GoWithMoves DEF CancelOrder
  <2>4. /\ KeepsCancelled /\ (Unsettled => Unsettled')
        /\ status # "cancelled" /\ cancelled' = [from |-> status, by |-> b]
    BY <2>1, <2>2, CancelKeeps
  <2>5. JobInv(b)'
    BY <2>3, <2>4 DEF JobInv, NoJob
  <2>6. QED
    BY <1>a, <1>c, <2>2, <2>3, <2>4, <2>5, PolicyFrame
<1>2. CASE RejectReads(b) \/ ExpiryReads(b) \/ BatchStarts(b)
  <2>1. UNCHANGED order /\ UNCHANGED <<refund, replica, notices>> /\ b \notin Deliveries
    BY <1>2, DeliveriesApart DEF RejectReads, ExpiryReads, BatchStarts, money, rest
  <2>2. OthersWait(b) /\ at'[b] \in {"reject", "expire", "list"}
    BY <1>2, <1>a, GoMoves DEF RejectReads, ExpiryReads, BatchStarts
  <2>3. JobInv(b)'
    BY <2>2 DEF JobInv
  <2>4. QED
    BY <1>a, <1>c, <2>1, <2>2, <2>3, QuietKeeps, PolicyFrame
<1>3. ASSUME NEW stage \in {"paid", "idle"}, UNCHANGED order, UNCHANGED <<refund, replica>>,
             OthersWait(b), at'[b] = stage, stage = "paid" => b \in Deliveries,
             b \in Deliveries => at[b] # "idle" \/ b \in notices,
             notices' \ {b} = notices \ {b}, stage = "paid" => b \notin notices'
      PROVE  PolicyInv'
  <2>1. KeepsCancelled /\ (Unsettled => Unsettled')
    BY <1>3, QuietKeeps
  <2>2. ASSUME NEW c \in Callers PROVE JobInv(c)'
    <3>1. CASE c = b
      BY <1>3, <3>1 DEF JobInv
    <3>2. CASE c # b
      BY <1>a, <1>3, <2>1, <3>2, WaitsKeepAmount DEF OthersWait
    <3>3. QED
      BY <3>1, <3>2
  <2>3. ASSUME NEW d \in Deliveries PROVE NoticeInv(d)'
    <3>1. CASE d = b
      BY <1>a, <1>3, <2>1, <3>1 DEF PolicyInv, NoticeInv, KeepsCancelled
    <3>2. CASE d # b
      <4>1. at'[d] = at[d] /\ (d \in notices' <=> d \in notices)
        BY <1>3, <3>2 DEF OthersWait, Callers
      <4>2. QED
        BY <1>a, <2>1, <4>1 DEF PolicyInv, NoticeInv, KeepsCancelled
    <3>3. QED
      BY <3>1, <3>2
  <2>4. QED
    BY <1>a, <1>c, <1>3, <2>1, <2>2, <2>3 DEF PolicyInv, KeepsCancelled
<1>4. CASE b \in Deliveries /\ ApplyVerifiedPayment(b)
  <2>1. UNCHANGED order /\ UNCHANGED <<refund, replica>> /\ b \in notices /\ notices' = notices \ {b}
    BY <1>4 DEF ApplyVerifiedPayment
  <2>2. OthersWait(b) /\ at'[b] = "paid"
    BY <1>4, <1>a, GoMoves DEF ApplyVerifiedPayment
  <2>3. notices' \ {b} = notices \ {b} /\ b \notin notices'
    BY <2>1
  <2>4. QED
    BY <1>3, <1>4, <2>1, <2>2, <2>3
<1>5. CASE Crash(b)
  <2>1. UNCHANGED order /\ UNCHANGED <<refund, replica>> /\ at[b] # "idle"
        /\ notices' = notices \cup ({b} \cap Deliveries)
    BY <1>5 DEF Crash, money
  <2>2. OthersWait(b) /\ at'[b] = "idle"
    BY <1>5, <1>a, LeaveMoves DEF Crash
  <2>3. notices' \ {b} = notices \ {b}
    BY <2>1
  <2>4. QED
    BY <1>3, <2>1, <2>2, <2>3
<1>6. CASE RefundOneStarts(b)
  <2>1. UNCHANGED order /\ UNCHANGED <<refund, replica, notices>> /\ b \in Admins /\ b \notin Deliveries
    BY <1>6, DeliveriesApart DEF RefundOneStarts, money, rest
  <2>2. OthersWait(b) /\ at'[b] = "refund"
    BY <1>6, <1>a, GoWithMoves DEF RefundOneStarts
  <2>3. JobInv(b)'
    BY <2>1, <2>2 DEF JobInv
  <2>4. QED
    BY <1>a, <1>c, <2>1, <2>2, <2>3, QuietKeeps, PolicyFrame
<1>7. QED
  BY <1>1, <1>2, <1>4, <1>5, <1>6 DEF Start

(***************************************************************************)
(* Unless the merchant pays, the customer gets what the policy gives for   *)
(* the status that was cancelled, whoever triggers the refund, and however *)
(* late, slow or interrupted it is.                                        *)
(***************************************************************************)
THEOREM PolicyIsPaid == ASSUME OneSettlement PROVE Spec => []RefundMatchesPolicy
<1>1. Init => PolicyInv
  <2> SUFFICES ASSUME Init PROVE PolicyInv
    OBVIOUS
  <2>1. food \in FoodOrders /\ refund.status = "none" /\ (\A b \in Callers : at[b] = "idle")
    BY DEF Init, NoRefund
  <2>2. ASSUME NEW d \in Deliveries, ~food PROVE status = "pending_payment"
    <3>1. FALSE \in FoodOrders
      BY <2>1, <2>2, ScopeAssumption
    <3>2. Paid \subseteq {FALSE}
      BY <2>2, <3>1 DEF OneSettlement
    <3>3. QED
      BY <3>2 DEF Init
  <2>3. \A b \in Callers : JobInv(b)
    BY <2>1 DEF JobInv
  <2>4. \A d \in Deliveries : NoticeInv(d)
    BY <2>1, <2>2 DEF NoticeInv, Unsettled, Callers
  <2>5. QED
    BY <2>1, <2>3, <2>4 DEF PolicyInv, RefundMatchesPolicy
<1>2. TypeOK /\ RefundInv /\ PolicyInv /\ [Next]_vars => PolicyInv'
  <2> SUFFICES ASSUME TypeOK, RefundInv, PolicyInv, [Next]_vars PROVE PolicyInv'
    OBVIOUS
  <2>1. ASSUME KeepsCancelled, Unsettled => Unsettled', UNCHANGED <<refund, notices, at, job>>
        PROVE  PolicyInv'
    <3>1. \A c \in Callers : JobInv(c)'
      BY <2>1, WaitsKeepAmount
    <3>2. \A d \in Deliveries : NoticeInv(d)'
      BY <2>1 DEF PolicyInv, NoticeInv, KeepsCancelled
    <3>3. RefundMatchesPolicy'
      BY <2>1, RefundStaysRight
    <3>4. QED
      BY <2>1, <3>1, <3>2, <3>3 DEF PolicyInv, KeepsCancelled
  <2>2. CASE UNCHANGED vars
    BY <2>1, <2>2, QuietKeeps DEF vars, money, rest
  <2>3. CASE Replicate
    <3>1. KeepsCancelled /\ (Unsettled => Unsettled')
      BY <2>3 DEF Replicate, KeepsCancelled, Unsettled, RefundInv, ReplicaInv, Primary, order
    <3>2. QED
      BY <2>1, <2>3, <3>1 DEF Replicate, money
  <2>4. ASSUME NEW to \in Advances, Advance(to) PROVE PolicyInv'
    <3>1. status # "cancelled" /\ status # "pending_payment"
      BY <2>4, TableType DEF Advance, TypeOK
    <3>2. KeepsCancelled /\ (Unsettled => Unsettled')
      BY <2>4, <3>1 DEF Advance, KeepsCancelled, Unsettled, rest
    <3>3. QED
      BY <2>1, <2>4, <3>2 DEF Advance, money, rest
  <2>5. CASE LockExpires
    BY <2>1, <2>5, QuietKeeps DEF LockExpires, money
  <2>6. QED
    BY <2>2, <2>3, <2>4, <2>5, ProceedPolicy, StartPolicy DEF Next
<1>3. PolicyInv => RefundMatchesPolicy
  BY DEF PolicyInv
<1>4. QED
  BY <1>1, <1>2, <1>3, TypeCorrect, RefundSafe, PTL DEF Spec

-----------------------------------------------------------------------------
(* One journal                                                             *)
(*                                                                         *)
(* The journal is written before the unique index refuses a second refund, *)
(* so only the Redis lock keeps it single: while the holder is within the  *)
(* lock's time, reads what the last holder wrote, and is not cut off       *)
(* between its journal and its refund.                                     *)

LockCovers == ~Lag /\ ~Slow /\ MaxCrashes = 0

Batching == {"list", "wallet", "credit", "processed", "failed"}

\* Caller b is within CalculateAndTriggerRefund; a batch carries no amount.
Within(b) == at[b] \in Holding /\ (at[b] \in Batching => job[b].amount > 0)

HolderInv(b) ==
    /\ at[b] = "idle" => job[b].amount = 0
    /\ job[b].booked => journals > 0
    /\ Within(b) => lock = b
    /\ at[b] = "journal" => journals = 0
    /\ at[b] \in {"journal", "create"} => refund.status = "none"

LockInv ==
    /\ lock # Nobody => lock \in Callers /\ Within(lock)
    /\ journals > 0 => \/ refund.status # "none"
                       \/ lock # Nobody /\ at[lock] = "create"
    /\ refund.status = "none" => ~refund.booked
    /\ OneJournal

JournalInv == LockInv /\ \A b \in Callers : HolderInv(b)

(***************************************************************************)
(* A caller is not nobody.                                                 *)
(***************************************************************************)
LEMMA CallersAreSomebody == Nobody \notin Callers
BY CallersAssumption

(***************************************************************************)
(* A step of caller b that leaves the lock and the journal alone keeps the *)
(* invariant.                                                              *)
(***************************************************************************)
LEMMA JournalFrame ==
    ASSUME JournalInv, NEW b \in Callers, OthersWait(b), UNCHANGED <<lock, journals>>,
           (refund'.status = "none") <=> (refund.status = "none"), refund'.booked = refund.booked,
           at[b] # "create", HolderInv(b)', lock = b => Within(b)'
    PROVE  JournalInv'
<1>1. ASSUME NEW c \in Callers PROVE HolderInv(c)'
  <2>1. CASE c = b
    BY <2>1
  <2>2. CASE c # b
    BY <2>2 DEF JournalInv, HolderInv, Within, OthersWait
  <2>3. QED
    BY <2>1, <2>2
<1>2. LockInv'
  <2>1. lock # Nobody => lock \in Callers /\ Within(lock)'
    BY DEF JournalInv, LockInv, Within, OthersWait
  <2>2. QED
    BY <2>1 DEF JournalInv, LockInv, OneJournal, OthersWait, Within
<1>3. QED
  BY <1>1, <1>2 DEF JournalInv

(***************************************************************************)
(* While caller b holds the lock, or takes it, no other caller is within a *)
(* refund, so only b's own part of the invariant has to be shown.          *)
(***************************************************************************)
LEMMA HolderFrame ==
    ASSUME TypeOK, JournalInv, NEW b \in Callers, OthersWait(b), lock \in {Nobody, b},
           journals > 0 => journals' > 0, HolderInv(b)', LockInv'
    PROVE  JournalInv'
<1>1. ASSUME NEW c \in Callers \ {b} PROVE HolderInv(c)'
  <2>1. at'[c] = at[c] /\ job'[c] = job[c] /\ HolderInv(c)
    BY DEF OthersWait, JournalInv
  <2>2. ~Within(c)
    BY <2>1, CallersAreSomebody DEF HolderInv
  <2>3. ~Within(c)' /\ at[c] \notin {"journal", "create"}
    BY <2>1, <2>2 DEF Within, Holding, Batching
  <2>4. QED
    BY <2>1, <2>3 DEF HolderInv
<1>2. QED
  BY <1>1 DEF JournalInv

(***************************************************************************)
(* The steps of an operation that has begun keep the journal single.       *)
(***************************************************************************)
LEMMA ProceedJournal ==
    ASSUME LockCovers, TypeOK, RefundInv, JournalInv, NEW b \in Callers, Proceed(b)
    PROVE  JournalInv'
<1>a. TypeOK /\ RefundInv /\ JournalInv /\ HolderInv(b) /\ LockInv /\ CallerInv(b)
  BY DEF JournalInv, RefundInv
<1>b. Seen = Primary /\ journals \in {0, 1}
  BY <1>a DEF LockCovers, Seen, LockInv, OneJournal, TypeOK
<1>c. lock = b => Within(b)
  BY <1>a, CallersAreSomebody DEF LockInv
<1>d. NoJob.amount = 0 /\ NoJob.booked = FALSE
  BY DEF NoJob
<1>1. CASE WebhookReads(b) \/ WebhookSettles(b) \/ RejectWrites(b) \/ ExpiryCancels(b)
  <2>1. UNCHANGED <<lock, journals, refund>> /\ at[b] \in {"paid", "settle", "reject", "expire"}
    BY <1>1 DEF WebhookReads, WebhookSettles, RejectWrites, ExpiryCancels, money, rest
  <2>2. /\ OthersWait(b) /\ at'[b] \in {"refund", "settle", "idle"}
        /\ at'[b] = "idle" => job'[b].amount = 0
        /\ job'[b].booked => job[b].booked
    <3>1. CASE WebhookReads(b)
      BY <3>1, <1>a, <1>d, GoMoves, GoWithMoves, LeaveMoves DEF WebhookReads
    <3>2. CASE WebhookSettles(b) \/ ExpiryCancels(b)
      BY <3>2, <1>a, <1>d, LeaveMoves DEF WebhookSettles, ExpiryCancels
    <3>3. CASE RejectWrites(b)
      <4>1. ChargedToMerchant.booked = FALSE
        BY DEF ChargedToMerchant, NoJob
      <4>2. QED
        BY <3>3, <4>1, <1>a, <1>d, GoWithMoves, LeaveMoves DEF RejectWrites
    <3>4. QED
      BY <1>1, <3>1, <3>2, <3>3
  <2>3. lock # b
    BY <1>c, <2>1 DEF Within, Holding
  <2>4. HolderInv(b)'
    BY <1>a, <2>1, <2>2 DEF HolderInv, Within, Holding
  <2>5. QED
    BY <1>a, <2>1, <2>2, <2>3, <2>4, JournalFrame
<1>2. CASE AcquireLock(b)
  <2>1. UNCHANGED <<journals, refund>> /\ at[b] = "refund"
    BY <1>2 DEF AcquireLock, money
  <2>2. lock # b
    BY <1>c, <2>1 DEF Within, Holding
  <2>3. CASE lock # Nobody
    <3>1. OthersWait(b) /\ at'[b] = "idle" /\ job'[b] = NoJob /\ UNCHANGED lock
      BY <1>2, <1>a, <2>3, LeaveMoves DEF AcquireLock
    <3>2. HolderInv(b)'
      BY <1>d, <3>1 DEF HolderInv, Within, Holding
    <3>3. QED
      BY <1>a, <2>1, <2>2, <3>1, <3>2, JournalFrame
  <2>4. CASE lock = Nobody
    <3>1. /\ lock' = b /\ OthersWait(b) /\ at'[b] \in {"release", "check"}
          /\ job'[b].booked = job[b].booked
      BY <1>2, <1>a, <2>4, GoWithMoves DEF AcquireLock, Decides, TypeOK
    <3>2. HolderInv(b)' /\ Within(b)'
      BY <1>a, <2>1, <3>1 DEF HolderInv, Within, Holding, Batching
    <3>3. LockInv'
      BY <1>a, <2>1, <2>4, <3>1, <3>2 DEF LockInv, OneJournal, Within
    <3>4. QED
      BY <1>a, <2>1, <2>4, <3>1, <3>2, <3>3, HolderFrame
  <2>5. QED
    BY <2>3, <2>4
<1>3. CASE ChecksPayment(b)
  <2>1. UNCHANGED <<lock, journals, refund>> /\ at[b] = "check"
    BY <1>3 DEF ChecksPayment, money, rest
  <2>2. lock = b
    BY <1>a, <2>1 DEF HolderInv, Within, Holding, Batching
  <2>3. /\ OthersWait(b) /\ job'[b] = job[b]
        /\ at'[b] = IF payment = "paid" /\ Seen.refund = "none" THEN "journal" ELSE "release"
    BY <1>3, <1>a, GoMoves DEF ChecksPayment
  <2>4. at'[b] = "journal" => journals = 0 /\ refund.status = "none"
    BY <1>a, <1>b, <2>1, <2>2, <2>3 DEF LockInv, Primary
  <2>5. at'[b] \in {"journal", "release"}
    BY <2>3
  <2>6. HolderInv(b)' /\ Within(b)'
    BY <1>a, <2>1, <2>2, <2>3, <2>4, <2>5 DEF HolderInv, Within, Holding, Batching
  <2>7. QED
    BY <1>a, <2>1, <2>3, <2>6, JournalFrame
<1>4. CASE WritesJournal(b)
  <2>1. UNCHANGED <<lock, refund>> /\ at[b] = "journal"
    BY <1>4 DEF WritesJournal, rest
  <2>2. lock = b /\ journals = 0 /\ refund.status = "none"
    BY <1>a, <2>1 DEF HolderInv, Within, Holding, Batching
  <2>3. /\ OthersWait(b) /\ at'[b] = "create" /\ journals' \in {0, 1}
        /\ job'[b].booked => job[b].booked \/ journals' = 1
    BY <1>4, <1>a, <2>2, GoMoves, GoWithMoves DEF WritesJournal, OneMore, TypeOK
  <2>4. HolderInv(b)' /\ Within(b)'
    BY <1>a, <2>1, <2>2, <2>3 DEF HolderInv, Within, Holding, Batching
  <2>5. LockInv'
    BY <1>a, <2>1, <2>2, <2>3, <2>4, CallersAreSomebody DEF LockInv, OneJournal
  <2>6. QED
    BY <1>a, <2>2, <2>3, <2>4, <2>5, HolderFrame
<1>5. CASE CreateRefund(b)
  <2>1. UNCHANGED <<lock, journals>> /\ at[b] = "create"
    BY <1>5 DEF CreateRefund, rest
  <2>2. lock = b /\ refund.status = "none" /\ job[b].amount > 0
    BY <1>a, <2>1 DEF HolderInv, Within, Holding, Batching, CallerInv
  <2>3. OthersWait(b) /\ at'[b] = "list" /\ job'[b] = job[b] /\ refund'.status = "pending"
        /\ refund'.booked = job[b].booked
    BY <1>5, <1>a, <2>2, GoMoves DEF CreateRefund
  <2>4. HolderInv(b)' /\ Within(b)'
    BY <1>a, <2>1, <2>2, <2>3 DEF HolderInv, Within, Holding
  <2>5. LockInv'
    BY <1>a, <1>b, <2>1, <2>2, <2>3, <2>4 DEF LockInv, OneJournal, HolderInv
  <2>6. QED
    BY <1>a, <2>1, <2>2, <2>3, <2>4, <2>5, HolderFrame
<1>6. CASE ListsPending(b) \/ WalletChecks(b) \/ WalletCredits(b) \/ UpdateRefundStatus(b)
  <2>1. UNCHANGED <<lock, journals>> /\ at[b] \in Batching
    BY <1>6 DEF ListsPending, WalletChecks, WalletCredits, UpdateRefundStatus, money, rest, Batching
  <2>2. ((refund'.status = "none") <=> (refund.status = "none")) /\ refund'.booked = refund.booked
    <3>1. CASE UpdateRefundStatus(b)
      <4>1. refund'.status = at[b] /\ at[b] \in {"processed", "failed"} /\ refund.status # "none"
            /\ refund'.booked = refund.booked
        BY <3>1, <1>a DEF UpdateRefundStatus, CallerInv, TypeOK
      <4>2. QED
        BY <4>1
    <3>2. QED
      BY <1>6, <3>1 DEF ListsPending, WalletChecks, WalletCredits, money
  <2>3. /\ OthersWait(b) /\ job'[b] = job[b]
        /\ at'[b] \in Batching \cup {Afterwards(b)}
    <3>1. CASE ListsPending(b)
      BY <3>1, <1>a, GoMoves DEF ListsPending, Batching
    <3>2. CASE WalletChecks(b)
      <4>1. OthersWait(b) /\ job'[b] = job[b] /\ at'[b] \in {"processed", "credit", "failed"}
        BY <3>2, <1>a, GoMoves DEF WalletChecks
      <4>2. QED
        BY <4>1 DEF Batching
    <3>3. CASE WalletCredits(b)
      BY <3>3, <1>a, GoMoves DEF WalletCredits, Batching
    <3>4. CASE UpdateRefundStatus(b)
      BY <3>4, <1>a, GoMoves DEF UpdateRefundStatus
    <3>5. QED
      BY <1>6, <3>1, <3>2, <3>3, <3>4
  <2>4. job[b].amount \in Nat
    BY MoneyAssumption DEF TypeOK, Amounts
  <2>5. CASE job[b].amount = 0
    <3>1. at'[b] \in Batching \cup {"idle"} /\ lock # b
      BY <1>c, <2>1, <2>3, <2>5 DEF Afterwards, Within
    <3>2. HolderInv(b)'
      BY <1>a, <2>1, <2>3, <2>5, <3>1 DEF HolderInv, Within, Holding, Batching
    <3>3. QED
      BY <1>a, <2>1, <2>2, <2>3, <3>1, <3>2, JournalFrame DEF Batching
  <2>6. CASE job[b].amount > 0
    <3>1. at'[b] \in Batching \cup {"release"} /\ lock = b
      BY <1>a, <2>1, <2>3, <2>6 DEF Afterwards, Batching, Holding, HolderInv, Within
    <3>2. HolderInv(b)' /\ Within(b)'
      BY <1>a, <2>1, <2>3, <2>6, <3>1 DEF HolderInv, Within, Holding, Batching
    <3>3. QED
      BY <1>a, <2>1, <2>2, <2>3, <3>1, <3>2, JournalFrame DEF Batching
  <2>7. QED
    BY <2>4, <2>5, <2>6
<1>7. CASE ReleaseLock(b)
  <2>1. UNCHANGED <<journals, refund>> /\ at[b] = "release" /\ lock' = Nobody
    BY <1>7 DEF ReleaseLock, money
  <2>2. lock = b
    BY <1>a, <2>1 DEF HolderInv, Within, Holding, Batching
  <2>3. OthersWait(b) /\ at'[b] = "idle" /\ job'[b] = NoJob
    BY <1>7, <1>a, LeaveMoves DEF ReleaseLock
  <2>4. HolderInv(b)' /\ LockInv'
    BY <1>a, <1>d, <2>1, <2>2, <2>3 DEF HolderInv, LockInv, OneJournal, Within, Holding
  <2>5. QED
    BY <1>a, <2>1, <2>2, <2>3, <2>4, HolderFrame
<1>8. QED
  BY <1>1, <1>2, <1>3, <1>4, <1>5, <1>6, <1>7 DEF Proceed

(***************************************************************************)
(* So does the first step of an operation; nothing crashes.                *)
(***************************************************************************)
LEMMA StartJournal ==
    ASSUME LockCovers, TypeOK, JournalInv, NEW b \in Callers, Start(b) \/ Crash(b)
    PROVE  JournalInv'
<1>a. TypeOK /\ JournalInv /\ HolderInv(b) /\ LockInv
  BY DEF JournalInv
<1>1. ~Crash(b)
  BY <1>a DEF LockCovers, Crash, TypeOK
<1>2. UNCHANGED <<lock, journals, refund>> /\ at[b] = "idle"
  BY <1>1 DEF Start, ApplyVerifiedPayment, CancelOrder, RejectReads, ExpiryReads, BatchStarts,
              RefundOneStarts, money, rest
<1>3. /\ OthersWait(b) /\ at'[b] \in {"paid", "refund", "reject", "expire", "list"}
      /\ at'[b] = "list" => job'[b] = job[b]
      /\ job'[b].booked => job[b].booked
  <2>1. CASE ApplyVerifiedPayment(b)
    BY <2>1, <1>a, GoMoves DEF ApplyVerifiedPayment
  <2>2. CASE CancelOrder(b)
    BY <2>2, <1>a, GoWithMoves DEF CancelOrder, NoJob
  <2>3. CASE RejectReads(b) \/ ExpiryReads(b) \/ BatchStarts(b)
    BY <2>3, <1>a, GoMoves DEF RejectReads, ExpiryReads, BatchStarts
  <2>4. CASE RefundOneStarts(b)
    <3>1. PICK from \in Named, charged \in BOOLEAN :
             GoWith(b, "refund", [NoJob EXCEPT !.from = from, !.charged = charged])
      BY <2>4 DEF RefundOneStarts
    <3>2. [NoJob EXCEPT !.from = from, !.charged = charged].booked = FALSE
      BY DEF NoJob
    <3>3. QED
      BY <3>1, <3>2, <1>a, GoWithMoves
  <2>5. QED
    BY <1>1, <2>1, <2>2, <2>3, <2>4 DEF Start
<1>4. lock # b
  BY <1>a, <1>2, CallersAreSomebody DEF LockInv, Within, Holding
<1>5. HolderInv(b)'
  BY <1>a, <1>2, <1>3 DEF HolderInv, Within, Holding, Batching
<1>6. QED
  BY <1>a, <1>2, <1>3, <1>4, <1>5, JournalFrame

(***************************************************************************)
(* However many callers trigger the refund of an order, at most one        *)
(* REFUND-JRN is booked for it, and a refund that names a journal names    *)
(* that one, whether or not the writes of journals succeed.                *)
(***************************************************************************)
THEOREM JournalIsSingle == ASSUME LockCovers PROVE Spec => []OneJournal
<1>1. Init => JournalInv
  <2> SUFFICES ASSUME Init PROVE JournalInv
    OBVIOUS
  <2>1. /\ journals = 0 /\ refund.status = "none" /\ refund.booked = FALSE /\ lock = Nobody
        /\ \A b \in Callers : at[b] = "idle" /\ job[b] = NoJob
    BY DEF Init, NoRefund
  <2>2. NoJob.amount = 0 /\ NoJob.booked = FALSE
    BY DEF NoJob
  <2>3. QED
    BY <2>1, <2>2 DEF JournalInv, LockInv, OneJournal, HolderInv, Within, Holding
<1>2. TypeOK /\ RefundInv /\ JournalInv /\ [Next]_vars => JournalInv'
  <2> SUFFICES ASSUME TypeOK, RefundInv, JournalInv, [Next]_vars PROVE JournalInv'
    OBVIOUS
  <2>1. ASSUME UNCHANGED <<lock, journals, refund, at, job>> PROVE JournalInv'
    BY <2>1 DEF JournalInv, LockInv, OneJournal, HolderInv, Within
  <2>2. CASE UNCHANGED vars
    BY <2>1, <2>2 DEF vars, money, rest
  <2>3. CASE Replicate
    BY <2>1, <2>3 DEF Replicate, money
  <2>4. ASSUME NEW to \in Advances, Advance(to) PROVE JournalInv'
    BY <2>1, <2>4 DEF Advance, money, rest
  <2>5. ~LockExpires
    BY DEF LockExpires, LockCovers, JournalInv, LockInv, Within
  <2>6. QED
    BY <2>2, <2>3, <2>4, <2>5, ProceedJournal, StartJournal DEF Next
<1>3. JournalInv => OneJournal
  BY DEF JournalInv, LockInv
<1>4. QED
  BY <1>1, <1>2, <1>3, TypeCorrect, RefundSafe, PTL DEF Spec

=============================================================================
