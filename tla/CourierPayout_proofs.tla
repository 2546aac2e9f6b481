----------------------- MODULE CourierPayout_proofs ------------------------
(***************************************************************************)
(* Proofs about CourierPayout, for any couriers, keys, amounts, instances, *)
(* numbers of admins' acts and of faults.                                  *)
(*                                                                         *)
(* The properties rest on what an open transaction of the dispatcher has   *)
(* locked: while a request is in a batch nobody else moves it or takes its *)
(* account's verification away.  PayoutInv says that, and what the rows of *)
(* a request have in common between any two transactions.                  *)
(*                                                                         *)
(* From it every step maps to a grant, a return, a payment or a stutter of *)
(* PayoutEscrow.  That a courier is never paid more than was earned is     *)
(* proved of the abstract specification and inherited through the mapping. *)
(***************************************************************************)
EXTENDS CourierPayout, FiniteSetTheorems, TLAPS

KeyInv(k) ==
    /\ debited[k] = IF status[k] = "none" THEN 0 ELSE 1
    /\ returned[k] <= debited[k]
    /\ status[k] \in ReturningStatus => returned[k] = 1
    /\ dispatch[k] # "none" \/ transfer[<<k, 1>>] # "none" => status[k] # "none"
    /\ transfer[<<k, 2>>] = "none"

DispatcherInv(d) ==
    /\ pc[d] # "sending" => batch[d] = {}
    /\ todo[d] \subseteq batch[d]
    /\ \A k \in Key : outcome[d][k] # "none" => k \in batch[d]
    /\ \A k \in batch[d] : status[k] \in {"approved_auto", "approved"} /\ verified[Owner[k]]

PayoutInv ==
    /\ \A k \in Key : KeyInv(k)
    /\ \A d \in Dispatcher : DispatcherInv(d)
    /\ SeparateBatches

-----------------------------------------------------------------------------
(***************************************************************************)
(* What an administrator may choose is a status, and nothing for a request *)
(* that does not exist.                                                    *)
(***************************************************************************)
LEMMA TransitionsType ==
    ASSUME NEW s \in RequestStatus \cup {"none"}
    PROVE  /\ AllowedTransitions(s) \subseteq RequestStatus
           /\ s = "none" => AllowedTransitions(s) = {}
BY DEF AllowedTransitions, RequestStatus, ActiveStatus, TerminalStatus

(***************************************************************************)
(* A request that moves stays well typed.                                  *)
(***************************************************************************)
LEMMA MovesType ==
    ASSUME TypeOK, NEW k \in Key, NEW s \in RequestStatus, Moves(k, s)
    PROVE  /\ status' \in [Key -> RequestStatus \cup {"none"}]
           /\ returned' \in [Key -> 0 .. 1]
<1>1. Reversal(k) \in 0 .. 1
  BY DEF TypeOK, Reversal
<1>2. QED
  BY <1>1 DEF TypeOK, Moves

(***************************************************************************)
(* A call of the provider leaves the other transfers alone and never       *)
(* touches a second key of a request.                                      *)
(***************************************************************************)
LEMMA AcceptsType ==
    ASSUME TypeOK, NEW k \in Key, NEW s, ProviderAccepts(k, s)
    PROVE  /\ s \in TransferState \ {"none"}
           /\ transfer' \in [TransferKey -> TransferState]
           /\ \A i \in TransferKey : i # <<k, 1>> => transfer'[i] = transfer[i]
BY DEF TypeOK, ProviderAccepts, providerIdempotencyKey, TransferKey

(***************************************************************************)
(* A transaction that ends leaves its variables well typed.                *)
(***************************************************************************)
LEMMA ClosesType ==
    ASSUME TypeOK, NEW d \in Dispatcher, NEW next \in {"idle", "polling"}, Closes(d, next)
    PROVE  /\ pc' \in [Dispatcher -> {"idle", "sending", "polling"}]
           /\ batch' \in [Dispatcher -> SUBSET Key] /\ todo' \in [Dispatcher -> SUBSET Key]
           /\ outcome' \in [Dispatcher -> [Key -> TransferState]]
BY DEF TypeOK, Closes, TransferState

(***************************************************************************)
(* The bounds hold.                                                        *)
(***************************************************************************)
LEMMA BoundsType ==
    ASSUME TypeOK
    PROVE  /\ Acts => acts' \in 0 .. MaxActs
           /\ Fails => faults' \in 0 .. MaxFaults
BY AmountsAssumption DEF TypeOK, Acts, Fails

-----------------------------------------------------------------------------
(***************************************************************************)
(* Type correctness, action by action.                                     *)
(***************************************************************************)
LEMMA CreateType ==
    ASSUME TypeOK, NEW k \in Key, createMobileCourierPayoutRequest(k) PROVE TypeOK'
<1>1. answered' \subseteq Key /\ faults' \in 0 .. MaxFaults
  BY BoundsType DEF createMobileCourierPayoutRequest, requireIdempotencyKey, TypeOK
<1>2. CASE UNCHANGED <<status, ledger>>
  BY <1>1, <1>2 DEF createMobileCourierPayoutRequest, TypeOK, ledger, sending
<1>3. CASE evaluateCourierPayoutRisk(k)
  <2>1. PICK s \in RiskDecision(Owner[k]) : Moves(k, s)
    BY <1>3 DEF evaluateCourierPayoutRisk
  <2>2. s \in RequestStatus
    BY DEF RiskDecision, RequestStatus, ActiveStatus, TerminalStatus
  <2>3. debited' \in [Key -> 0 .. 1]
    BY DEF createMobileCourierPayoutRequest, TypeOK, ledger
  <2>4. QED
    BY <1>1, <2>1, <2>2, <2>3, MovesType DEF createMobileCourierPayoutRequest, TypeOK, sending
<1>4. QED
  BY <1>2, <1>3 DEF createMobileCourierPayoutRequest

(***************************************************************************)
(* What the administrators do keeps every variable well typed.             *)
(***************************************************************************)
LEMMA AdminType == ASSUME TypeOK, AdminNext PROVE TypeOK'
<1>1. ASSUME NEW k \in Key, updateCourierPayoutRequestStatus(k) PROVE TypeOK'
  <2>1. PICK s \in AllowedTransitions(status[k]) : Moves(k, s)
    BY <1>1 DEF updateCourierPayoutRequestStatus
  <2>2. s \in RequestStatus
    BY TransitionsType DEF TypeOK
  <2>3. QED
    BY <1>1, <2>1, <2>2, MovesType, BoundsType
       DEF updateCourierPayoutRequestStatus, TypeOK, sending
<1>2. ASSUME NEW k \in Key, reviewAnswered(k) PROVE TypeOK'
  <2>1. PICK s \in {"approved", "rejected", "under_review"} : Moves(k, s)
    BY <1>2 DEF reviewAnswered
  <2>2. s \in RequestStatus
    BY DEF RequestStatus, ActiveStatus, TerminalStatus
  <2>3. QED
    BY <1>2, <2>1, <2>2, MovesType, BoundsType DEF reviewAnswered, TypeOK, sending
<1>3. ASSUME NEW k \in Key, reviewSuspendsAccount(k) PROVE TypeOK'
  <2>1. Reversal(k) \in 0 .. 1 /\ "risk_hold" \in RequestStatus
    BY DEF TypeOK, Reversal, RequestStatus, ActiveStatus
  <2>2. QED
    BY <1>3, <2>1, BoundsType DEF reviewSuspendsAccount, TypeOK, sending
<1>4. ASSUME NEW c \in Courier, updateCourierPayoutAccountStatus(c) PROVE TypeOK'
  BY <1>4, BoundsType DEF updateCourierPayoutAccountStatus, TypeOK, ledger, sending
<1>5. QED
  BY <1>1, <1>2, <1>3, <1>4 DEF AdminNext

(***************************************************************************)
(* Whatever the provider answers, the request takes a status it can have.  *)
(***************************************************************************)
LEMMA AnsweredType ==
    ASSUME NEW s PROVE AnsweredStatus(s) \in RequestStatus
BY DEF AnsweredStatus, RequestStatus, ActiveStatus, TerminalStatus

(***************************************************************************)
(* A settlement and a webhook keep every variable well typed.              *)
(***************************************************************************)
LEMMA ProviderType == ASSUME TypeOK, ProviderNext PROVE TypeOK'
<1>1. ASSUME NEW i \in TransferKey, ProviderSettles(i) PROVE TypeOK'
  BY <1>1 DEF ProviderSettles, TypeOK, ledger, sending, TransferState
<1>2. ASSUME NEW k \in Key, handleCourierPayoutProviderWebhook(k) PROVE TypeOK'
  <2>1. PICK s \in Emitted(k) : applyProviderCallback(k, s) /\ seen' = seen \cup {<<k, s>>}
    BY <1>2 DEF handleCourierPayoutProviderWebhook
  <2>2. s \in ProviderStatus
    BY AmountsAssumption DEF Emitted, ProviderStatus
  <2>3. status' \in [Key -> RequestStatus \cup {"none"}] /\ returned' \in [Key -> 0 .. 1]
    BY <2>1, MovesType, AnsweredType DEF applyProviderCallback
  <2>4. dispatch' \in [Key -> ProviderStatus \cup {"none"}] /\ seen' \subseteq Key \X ProviderStatus
    BY <2>1, <2>2 DEF applyProviderCallback, TypeOK
  <2>5. QED
    BY <1>2, <2>3, <2>4 DEF handleCourierPayoutProviderWebhook, TypeOK, sending
<1>3. QED
  BY <1>1, <1>2 DEF ProviderNext

(***************************************************************************)
(* What the provider says when it is asked.                                *)
(***************************************************************************)
LEMMA AnswerType ==
    ASSUME TypeOK, NEW k \in Key, NEW unclear
    PROVE  Answer(k, unclear) \in ProviderStatus \cup {"none"}
BY DEF TypeOK, Answer, providerIdempotencyKey, TransferKey, TransferState, ProviderStatus

(***************************************************************************)
(* The dispatcher and its poll keep every variable well typed.             *)
(***************************************************************************)
LEMMA DispatcherType == ASSUME TypeOK, NEW d \in Dispatcher, DispatcherNext(d) PROVE TypeOK'
<1>1. CASE dispatchClaims(d)
  BY <1>1, BoundsType DEF dispatchClaims, TypeOK, ledger
<1>2. CASE dispatchSkips(d)
  BY <1>2 DEF dispatchSkips, TypeOK, ledger
<1>3. CASE dispatchSends(d)
  <2>1. PICK k \in todo[d], s \in TransferState \ {"none"} :
           /\ ProviderAccepts(k, s)
           /\ outcome' = [outcome EXCEPT ![d][k] = s]
           /\ todo' = [todo EXCEPT ![d] = @ \ {k}]
    BY <1>3 DEF dispatchSends
  <2>2. k \in Key
    BY DEF TypeOK
  <2>3. outcome' \in [Dispatcher -> [Key -> TransferState]]
    BY <2>1, <2>2 DEF TypeOK
  <2>4. QED
    BY <1>3, <2>1, <2>2, <2>3, AcceptsType DEF dispatchSends, TypeOK, ledger
<1>4. CASE dispatchSendFails(d)
  <2>1. transfer' \in [TransferKey -> TransferState]
    BY <1>4, AcceptsType DEF dispatchSendFails, TypeOK
  <2>2. QED
    BY <1>4, <2>1, ClosesType, BoundsType DEF dispatchSendFails, TypeOK, ledger
<1>9. CASE dispatchRefused(d)
  <2>1. transfer' \in [TransferKey -> TransferState]
    BY <1>9, AcceptsType DEF dispatchRefused, TypeOK
  <2>2. QED
    BY <1>9, <2>1, ClosesType DEF dispatchRefused, TypeOK, ledger
<1>5. CASE dispatchAborts(d)
  BY <1>5, ClosesType, BoundsType DEF dispatchAborts, TypeOK, ledger
<1>6. CASE dispatchCommits(d)
  <2>1. TransferState \ {"none"} \subseteq RequestStatus \cap ProviderStatus
    BY DEF TransferState, RequestStatus, ProviderStatus, ActiveStatus, TerminalStatus
  <2>2. \A k \in Key : Reversal(k) \in 0 .. 1
    BY DEF TypeOK, Reversal
  <2>3. PICK next \in {"idle", "polling"} : Closes(d, next)
    BY <1>6 DEF dispatchCommits
  <2>4. /\ status' \in [Key -> RequestStatus \cup {"none"}]
        /\ returned' \in [Key -> 0 .. 1]
        /\ dispatch' \in [Key -> ProviderStatus \cup {"none"}]
    BY <1>6, <2>1, <2>2 DEF dispatchCommits, TypeOK
  <2>5. QED
    BY <1>6, <2>3, <2>4, ClosesType DEF dispatchCommits, TypeOK
<1>7. CASE pollUnknownPayouts(d)
  <2>1. PICK told \in SUBSET Asked, unclear \in SUBSET Asked :
           /\ dispatch' = [k \in Key |-> IF k \in told THEN Answer(k, unclear) ELSE dispatch[k]]
           /\ status' = [k \in Key |->
                  IF k \in told THEN AnsweredStatus(Answer(k, unclear)) ELSE status[k]]
           /\ returned' = [k \in Key |->
                  IF k \in told /\ Answer(k, unclear) = "failed" THEN Reversal(k) ELSE returned[k]]
    BY <1>7 DEF pollUnknownPayouts
  <2>2. \A k \in Key : Reversal(k) \in 0 .. 1 /\ Answer(k, unclear) \in ProviderStatus \cup {"none"}
    BY AnswerType DEF TypeOK, Reversal
  <2>3. /\ status' \in [Key -> RequestStatus \cup {"none"}]
        /\ returned' \in [Key -> 0 .. 1]
        /\ dispatch' \in [Key -> ProviderStatus \cup {"none"}]
    BY <2>1, <2>2, AnsweredType DEF TypeOK
  <2>4. QED
    BY <1>7, <2>3, BoundsType DEF pollUnknownPayouts, TypeOK
<1>8. QED
  BY <1>1, <1>2, <1>3, <1>4, <1>5, <1>6, <1>7, <1>9 DEF DispatcherNext

(***************************************************************************)
(* Every variable holds what its column or process can hold.               *)
(***************************************************************************)
THEOREM TypeCorrect == Spec => []TypeOK
<1>1. Init => TypeOK
  BY AmountsAssumption
     DEF Init, TypeOK, TransferState, TransferKey, ProviderStatus
<1>2. TypeOK /\ [Next]_vars => TypeOK'
  <2> SUFFICES ASSUME TypeOK, [Next]_vars PROVE TypeOK'
    OBVIOUS
  <2>1. CASE Next
    BY <2>1, CreateType, AdminType, ProviderType, DispatcherType DEF Next, CourierNext
  <2>2. CASE UNCHANGED vars
    BY <2>2 DEF vars, ledger, sending, TypeOK
  <2>3. QED
    BY <2>1, <2>2
<1>3. QED
  BY <1>1, <1>2, PTL DEF Spec

-----------------------------------------------------------------------------
(***************************************************************************)
(* A step of others that respects the locks of the open transactions       *)
(* leaves what the dispatchers have read true.                             *)
(***************************************************************************)
LEMMA LocksRespected ==
    ASSUME TypeOK, PayoutInv, UNCHANGED sending,
           \A k \in Key : RequestLocked(k) => status'[k] = status[k],
           \A c \in Courier : AccountLocked(c) => verified'[c] = verified[c]
    PROVE  (\A d \in Dispatcher : DispatcherInv(d))' /\ SeparateBatches'
<1>1. SeparateBatches'
  BY DEF PayoutInv, SeparateBatches, sending
<1>2. ASSUME NEW d \in Dispatcher PROVE DispatcherInv(d)'
  <2>1. DispatcherInv(d) /\ batch[d] \subseteq Key /\ batch'[d] = batch[d]
    BY DEF PayoutInv, TypeOK, sending
  <2>2. ASSUME NEW k \in batch[d] PROVE status'[k] = status[k] /\ verified'[Owner[k]] = verified[Owner[k]]
    <3>1. RequestLocked(k) /\ AccountLocked(Owner[k]) /\ k \in Key
      BY <2>1 DEF RequestLocked, AccountLocked
    <3>2. QED
      BY <3>1, OwnersAssumption
  <2>3. QED
    BY <2>1, <2>2 DEF DispatcherInv, sending
<1>3. QED
  BY <1>1, <1>2

(***************************************************************************)
(* A request that exists, or is created with its debit, keeps its rows in  *)
(* agreement when it moves.                                                *)
(***************************************************************************)
LEMMA MovesKeepRows ==
    ASSUME TypeOK, PayoutInv, NEW k \in Key, NEW s \in RequestStatus, Moves(k, s),
           \/ debited' = debited /\ status[k] # "none"
           \/ debited' = [debited EXCEPT ![k] = 1],
           \A l \in Key \ {k} : dispatch'[l] = dispatch[l],
           transfer' = transfer
    PROVE  (\A l \in Key : KeyInv(l))'
<1>1. s # "none"
  BY DEF RequestStatus, ActiveStatus, TerminalStatus
<1>2. \A l \in Key : KeyInv(l)
  BY DEF PayoutInv
<1>3. ASSUME NEW l \in Key \ {k} PROVE KeyInv(l)'
  BY <1>2, <1>3 DEF KeyInv, Moves, TypeOK
<1>4. KeyInv(k)'
  <2>1. debited'[k] = 1 /\ status'[k] = s
    BY <1>2 DEF KeyInv, Moves, TypeOK
  <2>2. returned[k] \in 0 .. 1 /\ returned'[k] = IF s \in ReturningStatus THEN Reversal(k) ELSE returned[k]
    BY DEF Moves, TypeOK
  <2>3. returned'[k] \in 0 .. 1 /\ (s \in ReturningStatus => returned'[k] = 1)
    BY <2>2 DEF Reversal
  <2>4. QED
    BY <1>1, <1>2, <2>1, <2>3 DEF KeyInv
<1>5. QED
  BY <1>3, <1>4

(***************************************************************************)
(* The courier's request keeps the invariant: it waits for the locks of    *)
(* its row and account.                                                    *)
(***************************************************************************)
LEMMA CreateSafe ==
    ASSUME TypeOK, PayoutInv, NEW k \in Key, createMobileCourierPayoutRequest(k)
    PROVE  PayoutInv'
<1>1. /\ UNCHANGED <<verified, dispatch, transfer, sending>> /\ ~RequestLocked(k)
      /\ UNCHANGED <<status, ledger>> \/ evaluateCourierPayoutRisk(k)
  BY DEF createMobileCourierPayoutRequest
<1>2. CASE UNCHANGED <<status, ledger>>
  BY <1>1, <1>2 DEF PayoutInv, KeyInv, DispatcherInv, SeparateBatches, ledger, sending
<1>3. CASE evaluateCourierPayoutRisk(k)
  <2>1. PICK s \in RiskDecision(Owner[k]) : Moves(k, s)
    BY <1>3 DEF evaluateCourierPayoutRisk
  <2>2. s \in RequestStatus
    BY DEF RiskDecision, RequestStatus, ActiveStatus, TerminalStatus
  <2>3. debited' = [debited EXCEPT ![k] = 1] \/ (status[k] # "none" /\ UNCHANGED debited)
    <3>1. status[k] = "none" => status'[k] # "none"
      BY <2>1, <2>2 DEF Moves, TypeOK, RequestStatus, ActiveStatus, TerminalStatus
    <3>2. QED
      BY <3>1 DEF createMobileCourierPayoutRequest
  <2>4. (\A l \in Key : KeyInv(l))'
    BY <1>1, <2>1, <2>2, <2>3, MovesKeepRows
  <2>5. \A l \in Key : RequestLocked(l) => status'[l] = status[l]
    BY <1>1, <2>1 DEF Moves, TypeOK
  <2>6. QED
    BY <1>1, <2>4, <2>5, LocksRespected DEF PayoutInv
<1>4. QED
  BY <1>1, <1>2, <1>3

(***************************************************************************)
(* A review, an administrator's status and a change of the account keep    *)
(* the invariant.                                                          *)
(***************************************************************************)
LEMMA AdminSafe == ASSUME TypeOK, PayoutInv, AdminNext PROVE PayoutInv'
<1>1. ASSUME NEW k \in Key, NEW s \in RequestStatus, Moves(k, s), status[k] # "none",
             ~RequestLocked(k), UNCHANGED <<debited, verified, dispatch, transfer, sending>>
      PROVE  PayoutInv'
  <2>1. (\A l \in Key : KeyInv(l))'
    BY <1>1, MovesKeepRows
  <2>2. \A l \in Key : RequestLocked(l) => status'[l] = status[l]
    BY <1>1 DEF Moves, TypeOK
  <2>3. QED
    BY <1>1, <2>1, <2>2, LocksRespected DEF PayoutInv
<1>2. ASSUME NEW k \in Key, updateCourierPayoutRequestStatus(k) PROVE PayoutInv'
  <2>1. PICK s \in AllowedTransitions(status[k]) : Moves(k, s)
    BY <1>2 DEF updateCourierPayoutRequestStatus
  <2>2. s \in RequestStatus /\ status[k] # "none"
    BY TransitionsType DEF TypeOK
  <2>3. QED
    BY <1>1, <1>2, <2>1, <2>2 DEF updateCourierPayoutRequestStatus
<1>3. ASSUME NEW k \in Key, reviewAnswered(k) PROVE PayoutInv'
  <2>1. PICK s \in {"approved", "rejected", "under_review"} : Moves(k, s)
    BY <1>3 DEF reviewAnswered
  <2>2. s \in RequestStatus
    BY DEF RequestStatus, ActiveStatus, TerminalStatus
  <2>3. QED
    BY <1>1, <1>3, <2>1, <2>2 DEF reviewAnswered, Reviewable
<1>4. ASSUME NEW k \in Key, reviewSuspendsAccount(k) PROVE PayoutInv'
  <2>1. ASSUME NEW l \in Key PROVE KeyInv(l)'
    BY <1>4 DEF PayoutInv, KeyInv, reviewSuspendsAccount, Reviewable, Reversal, TypeOK,
                ReturningStatus, TerminalStatus
  <2>2. /\ \A l \in Key : RequestLocked(l) => status'[l] = status[l]
        /\ \A c \in Courier : AccountLocked(c) => verified'[c] = verified[c]
    BY <1>4 DEF reviewSuspendsAccount, Reviewable, TypeOK
  <2>3. QED
    BY <1>4, <2>1, <2>2, LocksRespected DEF PayoutInv, reviewSuspendsAccount
<1>5. ASSUME NEW c \in Courier, updateCourierPayoutAccountStatus(c) PROVE PayoutInv'
  <2>1. \A k \in Key : KeyInv(k)'
    BY <1>5 DEF PayoutInv, KeyInv, updateCourierPayoutAccountStatus, ledger
  <2>2. \A b \in Courier : AccountLocked(b) => verified'[b] = verified[b]
    BY <1>5 DEF updateCourierPayoutAccountStatus, TypeOK
  <2>3. QED
    BY <1>5, <2>1, <2>2, LocksRespected DEF PayoutInv, updateCourierPayoutAccountStatus
<1>6. QED
  BY <1>2, <1>3, <1>4, <1>5 DEF AdminNext

(***************************************************************************)
(* A settlement touches no row, and a webhook a request that was           *)
(* dispatched and that no dispatcher has locked.                           *)
(***************************************************************************)
LEMMA ProviderSafe == ASSUME TypeOK, PayoutInv, ProviderNext PROVE PayoutInv'
<1>1. ASSUME NEW i \in TransferKey, ProviderSettles(i) PROVE PayoutInv'
  <2>1. \A k \in Key : <<k, 1>> \in TransferKey /\ <<k, 2>> \in TransferKey
    BY DEF TransferKey
  <2>2. ASSUME NEW k \in Key PROVE KeyInv(k)'
    BY <1>1, <2>1 DEF PayoutInv, KeyInv, ProviderSettles, ledger, TypeOK
  <2>3. QED
    BY <1>1, <2>2, LocksRespected DEF PayoutInv, ProviderSettles
<1>2. ASSUME NEW k \in Key, handleCourierPayoutProviderWebhook(k) PROVE PayoutInv'
  <2>1. PICK s : applyProviderCallback(k, s)
    BY <1>2 DEF handleCourierPayoutProviderWebhook
  <2>2. status[k] # "none"
    BY <1>2 DEF handleCourierPayoutProviderWebhook, PayoutInv, KeyInv
  <2>3. Moves(k, AnsweredStatus(s)) /\ \A l \in Key \ {k} : dispatch'[l] = dispatch[l]
    BY <2>1 DEF applyProviderCallback, TypeOK
  <2>4. (\A l \in Key : KeyInv(l))'
    BY <1>2, <2>2, <2>3, AnsweredType, MovesKeepRows DEF handleCourierPayoutProviderWebhook
  <2>5. \A l \in Key : RequestLocked(l) => status'[l] = status[l]
    BY <1>2, <2>3 DEF handleCourierPayoutProviderWebhook, Moves, TypeOK
  <2>6. QED
    BY <1>2, <2>4, <2>5, LocksRespected DEF PayoutInv, handleCourierPayoutProviderWebhook
<1>3. QED
  BY <1>1, <1>2 DEF ProviderNext

-----------------------------------------------------------------------------
(***************************************************************************)
(* A transfer is opened for a request of the batch, which exists, and      *)
(* under its first key.                                                    *)
(***************************************************************************)
LEMMA SendsApproved ==
    ASSUME TypeOK, PayoutInv, NEW d \in Dispatcher, NEW k \in todo[d], NEW s,
           ProviderAccepts(k, s)
    PROVE  \A l \in Key : /\ transfer'[<<l, 2>>] = transfer[<<l, 2>>]
                          /\ transfer'[<<l, 1>>] # transfer[<<l, 1>>] => status[l] # "none"
<1>1. k \in Key /\ status[k] # "none"
  BY DEF TypeOK, PayoutInv, DispatcherInv
<1>2. \A i \in TransferKey : i # <<k, 1>> => transfer'[i] = transfer[i]
  BY <1>1, AcceptsType
<1>3. ASSUME NEW l \in Key
      PROVE  /\ transfer'[<<l, 2>>] = transfer[<<l, 2>>]
             /\ transfer'[<<l, 1>>] # transfer[<<l, 1>>] => status[l] # "none"
  <2>1. <<l, 1>> \in TransferKey /\ <<l, 2>> \in TransferKey /\ <<l, 2>> # <<k, 1>>
    BY DEF TransferKey
  <2>2. <<l, 1>> # <<k, 1>> \/ l = k
    OBVIOUS
  <2>3. QED
    BY <1>1, <1>2, <2>1, <2>2
<1>4. QED
  BY <1>3

(***************************************************************************)
(* A transaction that ends without writing leaves the rows as they are and *)
(* the other transactions what they were.                                  *)
(***************************************************************************)
LEMMA RollsBack ==
    ASSUME TypeOK, PayoutInv, NEW d \in Dispatcher, Closes(d, "idle"),
           UNCHANGED <<status, ledger, verified, dispatch>>,
           \A k \in Key : /\ transfer'[<<k, 2>>] = transfer[<<k, 2>>]
                          /\ transfer'[<<k, 1>>] # transfer[<<k, 1>>] => status[k] # "none"
    PROVE  PayoutInv'
<1>1. \A k \in Key : KeyInv(k)'
  BY DEF PayoutInv, KeyInv, ledger
<1>2. ASSUME NEW e \in Dispatcher PROVE DispatcherInv(e)'
  BY DEF PayoutInv, DispatcherInv, Closes, TypeOK
<1>3. SeparateBatches'
  BY DEF PayoutInv, SeparateBatches, Closes, TypeOK
<1>4. QED
  BY <1>1, <1>2, <1>3 DEF PayoutInv

(***************************************************************************)
(* A claim passes over what the other transactions have locked.            *)
(***************************************************************************)
LEMMA ClaimsSafe ==
    ASSUME TypeOK, PayoutInv, NEW d \in Dispatcher, dispatchClaims(d) PROVE PayoutInv'
<1> DEFINE claimed == {k \in Key : Claimable(k)}
<1>1. /\ batch' = [batch EXCEPT ![d] = claimed] /\ todo' = [todo EXCEPT ![d] = claimed]
      /\ pc' = [pc EXCEPT ![d] = "sending"] /\ pc[d] = "idle"
      /\ UNCHANGED <<status, ledger, verified, dispatch, transfer, outcome>>
  BY DEF dispatchClaims
<1> HIDE DEF claimed
<1>2. \A k \in claimed :
         /\ k \in Key /\ status[k] \in {"approved_auto", "approved"} /\ verified[Owner[k]]
         /\ \A e \in Dispatcher : \A l \in batch[e] : Owner[l] # Owner[k]
  BY DEF claimed, Claimable, Candidates, AccountLocked
<1>3. \A k \in Key : KeyInv(k)'
  BY <1>1 DEF PayoutInv, KeyInv, ledger
<1>4. ASSUME NEW e \in Dispatcher PROVE DispatcherInv(e)'
  <2>1. CASE e = d
    BY <1>1, <1>2, <2>1 DEF PayoutInv, DispatcherInv, TypeOK
  <2>2. CASE e # d
    BY <1>1, <2>2 DEF PayoutInv, DispatcherInv, TypeOK
  <2>3. QED
    BY <2>1, <2>2
<1>5. ASSUME NEW e \in Dispatcher, NEW f \in Dispatcher, e # f,
             NEW k \in batch'[e], NEW l \in batch'[f]
      PROVE  Owner[k] # Owner[l]
  <2>1. CASE e = d
    BY <1>1, <1>2, <1>5, <2>1 DEF TypeOK
  <2>2. CASE f = d
    BY <1>1, <1>2, <1>5, <2>2 DEF TypeOK
  <2>3. CASE e # d /\ f # d
    BY <1>1, <1>5, <2>3 DEF PayoutInv, SeparateBatches, TypeOK
  <2>4. QED
    BY <2>1, <2>2, <2>3
<1>6. QED
  BY <1>3, <1>4, <1>5 DEF PayoutInv, SeparateBatches

(***************************************************************************)
(* A commit writes the requests of its own batch, which exist and are in   *)
(* no other.                                                               *)
(***************************************************************************)
LEMMA CommitsSafe ==
    ASSUME TypeOK, PayoutInv, NEW d \in Dispatcher, dispatchCommits(d) PROVE PayoutInv'
<1> DEFINE sent == {k \in Key : outcome[d][k] # "none"}
<1>1. /\ status' = [k \in Key |-> IF k \in sent THEN outcome[d][k] ELSE status[k]]
      /\ returned' = [k \in Key |->
             IF k \in sent /\ outcome[d][k] = "failed" THEN Reversal(k) ELSE returned[k]]
      /\ dispatch' = [k \in Key |->
             IF k \in sent /\ dispatch[k] = "none" THEN outcome[d][k] ELSE dispatch[k]]
      /\ UNCHANGED <<debited, verified, transfer>>
  BY DEF dispatchCommits
<1>2. PICK next \in {"idle", "polling"} : Closes(d, next)
  BY DEF dispatchCommits
<1>3. \A k \in sent : k \in Key /\ k \in batch[d] /\ status[k] \in {"approved_auto", "approved"}
                    /\ outcome[d][k] \in {"processing", "paid", "failed"}
  BY DEF PayoutInv, DispatcherInv, TypeOK, TransferState
<1> HIDE DEF sent
<1>4. ASSUME NEW k \in Key PROVE KeyInv(k)'
  <2>1. KeyInv(k) /\ returned[k] \in 0 .. 1
    BY DEF PayoutInv, TypeOK
  <2>2. CASE k \in sent
    <3>1. Reversal(k) = 1
      BY <2>1 DEF Reversal
    <3>2. status'[k] = outcome[d][k] /\ debited'[k] = 1 /\ transfer'[<<k, 2>>] = "none"
      BY <1>1, <1>3, <2>1, <2>2 DEF KeyInv
    <3>3. returned'[k] \in 0 .. 1 /\ (outcome[d][k] = "failed" => returned'[k] = 1)
      BY <1>1, <2>1, <2>2, <3>1
    <3>4. QED
      BY <1>3, <2>2, <3>2, <3>3 DEF KeyInv, ReturningStatus, TerminalStatus
  <2>3. CASE k \notin sent
    BY <1>1, <2>1, <2>3 DEF KeyInv
  <2>4. QED
    BY <2>2, <2>3
<1>5. ASSUME NEW e \in Dispatcher PROVE DispatcherInv(e)'
  <2>1. CASE e = d
    BY <1>2, <2>1 DEF Closes, DispatcherInv, TypeOK
  <2>2. CASE e # d
    <3>1. batch[e] \cap sent = {}
      BY <1>3, <2>2 DEF PayoutInv, SeparateBatches
    <3>2. batch'[e] = batch[e] /\ todo'[e] = todo[e] /\ pc'[e] = pc[e] /\ outcome'[e] = outcome[e]
      BY <1>2, <2>2 DEF Closes, TypeOK
    <3>3. batch[e] \subseteq Key /\ DispatcherInv(e)
      BY DEF TypeOK, PayoutInv
    <3>4. \A k \in batch[e] : status'[k] = status[k]
      BY <1>1, <3>1, <3>3
    <3>5. QED
      BY <1>1, <3>2, <3>3, <3>4 DEF DispatcherInv
  <2>3. QED
    BY <2>1, <2>2
<1>6. SeparateBatches'
  BY <1>2 DEF PayoutInv, SeparateBatches, Closes, TypeOK
<1>7. QED
  BY <1>4, <1>5, <1>6 DEF PayoutInv

(***************************************************************************)
(* The poll answers for requests that were dispatched and that nobody has  *)
(* locked.                                                                 *)
(***************************************************************************)
LEMMA PollSafe ==
    ASSUME TypeOK, PayoutInv, NEW d \in Dispatcher, pollUnknownPayouts(d) PROVE PayoutInv'
<1>1. PICK told \in SUBSET Asked, unclear \in SUBSET Asked :
         /\ dispatch' = [k \in Key |-> IF k \in told THEN Answer(k, unclear) ELSE dispatch[k]]
         /\ status' = [k \in Key |->
                IF k \in told THEN AnsweredStatus(Answer(k, unclear)) ELSE status[k]]
         /\ returned' = [k \in Key |->
                IF k \in told /\ Answer(k, unclear) = "failed" THEN Reversal(k) ELSE returned[k]]
  BY DEF pollUnknownPayouts
<1>2. /\ UNCHANGED <<debited, verified, transfer, batch, todo, outcome>>
      /\ pc' = [pc EXCEPT ![d] = "idle"] /\ pc[d] = "polling"
  BY DEF pollUnknownPayouts
<1>3. \A k \in told : k \in Key /\ dispatch[k] = "unknown" /\ ~RequestLocked(k)
  BY <1>1 DEF Asked, Ambiguous
<1>4. ASSUME NEW k \in Key PROVE KeyInv(k)'
  <2>1. KeyInv(k) /\ returned[k] \in 0 .. 1
    BY DEF PayoutInv, TypeOK
  <2>2. CASE k \in told
    <3> DEFINE s == Answer(k, unclear)
    <3>1. debited'[k] = 1 /\ transfer'[<<k, 2>>] = "none" /\ status'[k] = AnsweredStatus(s)
      BY <1>1, <1>2, <1>3, <2>1, <2>2 DEF KeyInv
    <3>2. returned'[k] \in 0 .. 1 /\ (s = "failed" => returned'[k] = 1)
      BY <1>1, <2>1, <2>2 DEF Reversal
    <3>3. status'[k] \in {"paid", "failed", "processing"} /\ (status'[k] = "failed" => s = "failed")
      BY <3>1 DEF AnsweredStatus
    <3>4. QED
      BY <3>1, <3>2, <3>3 DEF KeyInv, ReturningStatus, TerminalStatus
  <2>3. CASE k \notin told
    BY <1>1, <1>2, <2>1, <2>3 DEF KeyInv
  <2>4. QED
    BY <2>2, <2>3
<1>5. ASSUME NEW e \in Dispatcher PROVE DispatcherInv(e)'
  <2>1. DispatcherInv(e) /\ batch[e] \subseteq Key
    BY DEF PayoutInv, TypeOK
  <2>2. \A k \in batch[e] : status'[k] = status[k]
    BY <1>1, <1>3, <2>1 DEF RequestLocked
  <2>3. pc'[e] = "sending" <=> pc[e] = "sending"
    BY <1>2 DEF TypeOK
  <2>4. QED
    BY <1>2, <2>1, <2>2, <2>3 DEF DispatcherInv
<1>6. QED
  BY <1>2, <1>4, <1>5 DEF PayoutInv, SeparateBatches

(***************************************************************************)
(* The dispatcher and its poll keep the invariant.                         *)
(***************************************************************************)
LEMMA DispatcherSafe ==
    ASSUME TypeOK, PayoutInv, NEW d \in Dispatcher, DispatcherNext(d) PROVE PayoutInv'
<1>1. CASE dispatchClaims(d)
  BY <1>1, ClaimsSafe
<1>2. CASE dispatchSkips(d)
  <2>1. \A k \in Key : KeyInv(k)'
    BY <1>2 DEF dispatchSkips, PayoutInv, KeyInv, ledger
  <2>2. \A e \in Dispatcher : DispatcherInv(e)'
    BY <1>2 DEF dispatchSkips, PayoutInv, DispatcherInv, TypeOK
  <2>3. QED
    BY <1>2, <2>1, <2>2 DEF dispatchSkips, PayoutInv, SeparateBatches
<1>3. CASE dispatchSends(d)
  <2>1. PICK k \in todo[d], s \in TransferState \ {"none"} :
           /\ ProviderAccepts(k, s)
           /\ outcome' = [outcome EXCEPT ![d][k] = s]
           /\ todo' = [todo EXCEPT ![d] = @ \ {k}]
    BY <1>3 DEF dispatchSends
  <2>2. k \in Key /\ k \in batch[d]
    BY DEF TypeOK, PayoutInv, DispatcherInv
  <2>3. \A l \in Key : /\ transfer'[<<l, 2>>] = transfer[<<l, 2>>]
                       /\ transfer'[<<l, 1>>] # transfer[<<l, 1>>] => status[l] # "none"
    BY <2>1, <2>2, SendsApproved
  <2>4. \A l \in Key : KeyInv(l)'
    BY <1>3, <2>3 DEF dispatchSends, PayoutInv, KeyInv, ledger
  <2>5. ASSUME NEW e \in Dispatcher PROVE DispatcherInv(e)'
    BY <1>3, <2>1, <2>2 DEF dispatchSends, PayoutInv, DispatcherInv, TypeOK
  <2>6. QED
    BY <1>3, <2>4, <2>5 DEF dispatchSends, PayoutInv, SeparateBatches
<1>4. CASE dispatchSendFails(d)
  <2>1. PICK k \in todo[d] : \/ UNCHANGED transfer
                            \/ \E s \in TransferState \ {"none"} : ProviderAccepts(k, s)
    BY <1>4 DEF dispatchSendFails
  <2>2. \A l \in Key : /\ transfer'[<<l, 2>>] = transfer[<<l, 2>>]
                       /\ transfer'[<<l, 1>>] # transfer[<<l, 1>>] => status[l] # "none"
    BY <2>1, SendsApproved
  <2>3. QED
    BY <1>4, <2>2, RollsBack DEF dispatchSendFails
<1>9. CASE dispatchRefused(d)
  <2>1. PICK k \in todo[d], s \in TransferState \ {"none"} : ProviderAccepts(k, s)
    BY <1>9 DEF dispatchRefused, TransferState
  <2>2. \A l \in Key : /\ transfer'[<<l, 2>>] = transfer[<<l, 2>>]
                       /\ transfer'[<<l, 1>>] # transfer[<<l, 1>>] => status[l] # "none"
    BY <2>1, SendsApproved
  <2>3. QED
    BY <1>9, <2>2, RollsBack DEF dispatchRefused
<1>5. CASE dispatchAborts(d)
  BY <1>5, RollsBack DEF dispatchAborts
<1>6. CASE dispatchCommits(d)
  BY <1>6, CommitsSafe
<1>7. CASE pollUnknownPayouts(d)
  BY <1>7, PollSafe
<1>8. QED
  BY <1>1, <1>2, <1>3, <1>4, <1>5, <1>6, <1>7, <1>9 DEF DispatcherNext

-----------------------------------------------------------------------------
(***************************************************************************)
(* The invariant: the rows of every request agree, and what an open        *)
(* transaction has read stays true until it ends.                          *)
(***************************************************************************)
THEOREM PayoutSafe == Spec => [](TypeOK /\ PayoutInv)
<1>1. Init => PayoutInv
  BY DEF Init, PayoutInv, KeyInv, DispatcherInv, SeparateBatches, TransferKey,
         ReturningStatus, TerminalStatus
<1>2. TypeOK /\ PayoutInv /\ [Next]_vars => PayoutInv'
  <2> SUFFICES ASSUME TypeOK, PayoutInv, [Next]_vars PROVE PayoutInv'
    OBVIOUS
  <2>1. CASE Next
    BY <2>1, CreateSafe, AdminSafe, ProviderSafe, DispatcherSafe DEF Next, CourierNext
  <2>2. CASE UNCHANGED vars
    BY <2>2 DEF vars, ledger, sending, PayoutInv, KeyInv, DispatcherInv, SeparateBatches
  <2>3. QED
    BY <2>1, <2>2
<1>3. QED
  BY <1>1, <1>2, TypeCorrect, PTL DEF Spec

(***************************************************************************)
(* A request's amount is taken once and given back once at the most.       *)
(***************************************************************************)
THEOREM MoneyReturnsOnce == Spec => []HeldMoneyReturnsOnce
<1>1. TypeOK /\ PayoutInv => HeldMoneyReturnsOnce
  BY DEF PayoutInv, KeyInv, HeldMoneyReturnsOnce
<1>2. QED
  BY <1>1, PayoutSafe, PTL

(***************************************************************************)
(* The ledger checks of a reconciliation run find nothing between any two  *)
(* steps.                                                                  *)
(***************************************************************************)
THEOREM LedgerAlwaysReconciles == Spec => []LedgerReconciles
<1>1. TypeOK /\ PayoutInv => LedgerReconciles
  <2> SUFFICES ASSUME TypeOK, PayoutInv PROVE LedgerReconciles
    OBVIOUS
  <2>1. ASSUME NEW k \in Key
        PROVE  /\ status[k] # "none" => debited[k] = 1
               /\ status[k] \in ReturningStatus => returned[k] = 1
    BY DEF PayoutInv, KeyInv
  <2>2. LedgerMismatch = {} /\ PaidLedgerMismatch = {}
    BY <2>1 DEF LedgerMismatch, PaidLedgerMismatch
  <2>3. FailureWithoutReversal = {}
    BY <2>1 DEF FailureWithoutReversal, ReturningStatus, TerminalStatus
  <2>4. QED
    BY <2>1, <2>2, <2>3 DEF LedgerReconciles
<1>2. QED
  BY <1>1, PayoutSafe, PTL

(***************************************************************************)
(* Two dispatchers never work for one courier at once, however many        *)
(* instances and admins there are.                                         *)
(***************************************************************************)
THEOREM BatchesSeparate == Spec => []SeparateBatches
<1>1. PayoutInv => SeparateBatches
  BY DEF PayoutInv
<1>2. QED
  BY <1>1, PayoutSafe, PTL

(***************************************************************************)
(* A request is paid by one transfer, since all its attempts have one      *)
(* idempotency key.                                                        *)
(***************************************************************************)
THEOREM PaidOnce == Spec => []PaysOnce
<1>1. PayoutInv => PaysOnce
  BY DEF PayoutInv, KeyInv, PaysOnce
<1>2. QED
  BY <1>1, PayoutSafe, PTL

(***************************************************************************)
(* A transfer is opened only for an approved request of an account that is *)
(* verified at that moment.                                                *)
(***************************************************************************)
THEOREM OnlyVerifiedSent == Spec => SentToVerified
<1> DEFINE Step == \A k \in Key :
        (\A n \in {1, 2} : transfer[<<k, n>>] = "none") /\ (\E n \in {1, 2} : transfer'[<<k, n>>] # "none")
        => verified[Owner[k]] /\ status[k] \in {"approved_auto", "approved"}
<1>1. ASSUME TypeOK, PayoutInv, [Next]_vars PROVE Step
  <2> SUFFICES ASSUME NEW k \in Key, NEW n \in {1, 2}, transfer[<<k, n>>] = "none",
                      transfer'[<<k, n>>] # "none"
               PROVE  verified[Owner[k]] /\ status[k] \in {"approved_auto", "approved"}
    OBVIOUS
  <2>1. <<k, n>> \in TransferKey
    BY DEF TransferKey
  <2>2. ASSUME NEW d \in Dispatcher, NEW l \in todo[d],
               NEW s \in TransferState \ {"none"}, ProviderAccepts(l, s)
        PROVE  verified[Owner[k]] /\ status[k] \in {"approved_auto", "approved"}
    <3>1. l \in Key /\ l \in batch[d]
      BY <1>1 DEF TypeOK, PayoutInv, DispatcherInv
    <3>2. l = k
      BY <1>1, <2>1, <2>2, <3>1, AcceptsType
    <3>3. QED
      BY <1>1, <3>1, <3>2 DEF PayoutInv, DispatcherInv
  <2>3. ASSUME NEW d \in Dispatcher, DispatcherNext(d)
        PROVE  verified[Owner[k]] /\ status[k] \in {"approved_auto", "approved"}
    <3>1. CASE dispatchSends(d)
      BY <3>1, <2>2 DEF dispatchSends
    <3>2. CASE dispatchSendFails(d)
      BY <3>2, <2>2 DEF dispatchSendFails
    <3>3. CASE dispatchRefused(d)
      BY <3>3, <2>2 DEF dispatchRefused, TransferState
    <3>4. QED
      BY <2>3, <3>1, <3>2, <3>3 DEF DispatcherNext, dispatchClaims, dispatchSkips, dispatchAborts,
         dispatchCommits, pollUnknownPayouts
  <2>4. ASSUME NEW i \in TransferKey, ProviderSettles(i)
        PROVE  transfer'[<<k, n>>] = transfer[<<k, n>>]
    BY <1>1, <2>1, <2>4 DEF ProviderSettles, TypeOK
  <2>5. QED
    BY <1>1, <2>3, <2>4 DEF vars, Next, CourierNext, AdminNext, ProviderNext,
       createMobileCourierPayoutRequest, updateCourierPayoutRequestStatus, reviewAnswered,
       reviewSuspendsAccount, updateCourierPayoutAccountStatus,
       handleCourierPayoutProviderWebhook
<1>2. ASSUME TypeOK, PayoutInv, [Next]_vars PROVE [Step]_vars
  BY <1>1, <1>2
<1>3. QED
  BY <1>2, PayoutSafe, PTL DEF Spec, SentToVerified

-----------------------------------------------------------------------------
(* The courier's money                                                     *)

(***************************************************************************)
(* What a set of requests holds is a number, nothing for no request.       *)
(***************************************************************************)
LEMMA SumType ==
    ASSUME NEW S \in SUBSET Key
    PROVE  Sum(S) \in Nat /\ IsFiniteSet(UNION {{k} \X (1 .. Amount[k]) : k \in S})
<1> DEFINE rupiah(k) == {k} \X (1 .. Amount[k])
<1>1. IsFiniteSet({rupiah(k) : k \in S})
  <2>1. IsFiniteSet(S)
    BY OwnersAssumption, FS_Subset
  <2>2. [k \in S |-> rupiah(k)] \in Surjection(S, {rupiah(k) : k \in S})
    BY DEF Surjection
  <2>3. QED
    BY <2>1, <2>2, FS_Surjection
<1>2. ASSUME NEW k \in S PROVE IsFiniteSet(rupiah(k))
  <2>1. 1 \in Int /\ Amount[k] \in Int
    BY AmountsAssumption
  <2>2. IsFiniteSet({k}) /\ IsFiniteSet(1 .. Amount[k])
    BY <2>1, FS_Singleton, FS_Interval
  <2>3. QED
    BY <2>2, FS_Product
<1>3. IsFiniteSet(UNION {rupiah(k) : k \in S})
  BY <1>1, <1>2, FS_UNION
<1>4. QED
  BY <1>3, FS_CardinalityType DEF Sum

(***************************************************************************)
(* One more request holds its amount more.                                 *)
(***************************************************************************)
LEMMA SumAdds ==
    ASSUME NEW S \in SUBSET Key, NEW k \in Key \ S
    PROVE  Sum(S \cup {k}) = Sum(S) + Amount[k]
<1> DEFINE A == UNION {{l} \X (1 .. Amount[l]) : l \in S}
           B == {k} \X (1 .. Amount[k])
<1>1. UNION {{l} \X (1 .. Amount[l]) : l \in S \cup {k}} = A \cup B
  OBVIOUS
<1>2. A \cap B = {}
  OBVIOUS
<1>3. IsFiniteSet(B) /\ Cardinality(B) = Amount[k]
  <2>1. IsFiniteSet({k}) /\ Cardinality({k}) = 1
    BY FS_Singleton
  <2>2. 1 \in Int /\ Amount[k] \in Int /\ Amount[k] >= 1
    BY AmountsAssumption
  <2>3. IsFiniteSet(1 .. Amount[k]) /\ Cardinality(1 .. Amount[k]) = Amount[k] - 1 + 1
    BY <2>2, FS_Interval
  <2>4. IsFiniteSet(B) /\ Cardinality(B) = Cardinality({k}) * Cardinality(1 .. Amount[k])
    BY <2>1, <2>3, FS_Product
  <2>5. QED
    BY <2>1, <2>2, <2>3, <2>4
<1>4. IsFiniteSet(A) /\ Cardinality(A) = Sum(S)
  BY SumType DEF Sum
<1> HIDE DEF A, B
<1>5. Cardinality(A \cup B) = Cardinality(A) + Cardinality(B) - Cardinality(A \cap B)
  BY <1>3, <1>4, FS_Union
<1>6. Cardinality(A \cap B) = 0
  BY <1>2, FS_EmptySet
<1>7. Sum(S \cup {k}) = Cardinality(A \cup B)
  BY <1>1 DEF Sum
<1>8. Sum(S) \in Nat /\ Amount[k] \in Nat
  BY SumType, AmountsAssumption
<1>9. QED
  BY <1>3, <1>4, <1>5, <1>6, <1>7, <1>8

(***************************************************************************)
(* Fewer requests hold no more.                                            *)
(***************************************************************************)
LEMMA SumMonotone ==
    ASSUME NEW S \in SUBSET Key, NEW R \in SUBSET S PROVE Sum(R) <= Sum(S)
<1>1. UNION {{k} \X (1 .. Amount[k]) : k \in R} \subseteq UNION {{k} \X (1 .. Amount[k]) : k \in S}
  OBVIOUS
<1>2. QED
  BY <1>1, SumType, FS_Subset DEF Sum

(***************************************************************************)
(* The refinement                                                          *)
(*                                                                         *)
(* Money and Paid are a request's part of the abstract state.  The money   *)
(* of a request leaves "free" only when its debit is booked, which one     *)
(* action does; every other transaction books credits, if anything, and a  *)
(* batch or a poll books several of them in one step.                      *)
(***************************************************************************)
Money == [k \in Key |-> IF debited[k] = 0 THEN "free"
                        ELSE IF debited[k] > returned[k] THEN "held" ELSE "returned"]
Paid  == [k \in Key |-> Cardinality({n \in {1, 2} : transfer[<<k, n>>] = "paid"})]

(***************************************************************************)
(* What a courier's requests hold in the two specifications is the same.   *)
(***************************************************************************)
LEMMA EscrowHolds ==
    ASSUME TypeOK, PayoutInv, NEW c
    PROVE  Escrow!Holding(c) = Held(c) /\ Held(c) = {k \in Key : Owner[k] = c /\ Money[k] = "held"}
<1>1. \A k \in Key : Money[k] = "held" <=> debited[k] > returned[k]
  BY DEF Money, TypeOK, PayoutInv, KeyInv
<1>2. Held(c) = {k \in Key : Owner[k] = c /\ Money[k] = "held"}
  BY <1>1 DEF Held, KeysOf
<1>3. Escrow!Holding(c) = {k \in Key : Owner[k] = c /\ Money[k] = "held"}
  BY DEF Escrow!Holding, Money
<1>4. QED
  BY <1>2, <1>3

(***************************************************************************)
(* A second key is never paid, so a request is paid when its first key is. *)
(***************************************************************************)
LEMMA PaidByFirstKey ==
    ASSUME NEW P \in SUBSET {1, 2}, 2 \notin P
    PROVE  Cardinality(P) = IF 1 \in P THEN 1 ELSE 0
<1>1. P = {} \/ P = {1}
  OBVIOUS
<1>2. QED
  BY <1>1, FS_Singleton, FS_EmptySet

(***************************************************************************)
(* A request that moves keeps the credit it has.                           *)
(***************************************************************************)
LEMMA MovesCredits ==
    ASSUME TypeOK, NEW k \in Key, NEW s, Moves(k, s)
    PROVE  \A l \in Key : returned[l] <= returned'[l]
<1>1. \A l \in Key : returned[l] \in 0 .. 1
  BY DEF TypeOK
<1>2. returned' = [returned EXCEPT ![k] = IF s \in ReturningStatus THEN Reversal(k) ELSE returned[k]]
  BY DEF Moves
<1>3. returned \in [Key -> 0 .. 1]
  BY DEF TypeOK
<1>4. QED
  BY <1>1, <1>2, <1>3 DEF Reversal

(***************************************************************************)
(* A transaction that debits nothing returns the money of the requests it  *)
(* credits for the first time.                                             *)
(***************************************************************************)
LEMMA CreditsReturn ==
    ASSUME TypeOK, PayoutInv, TypeOK', PayoutInv', UNCHANGED <<debited, transfer>>,
           \A k \in Key : returned[k] <= returned'[k]
    PROVE  Escrow!Next
<1>1. PICK S \in SUBSET Key : S = {k \in Key : Money[k] = "held" /\ Money'[k] = "returned"}
  OBVIOUS
<1>2. ASSUME NEW k \in Key
      PROVE  Money'[k] = IF k \in S THEN "returned" ELSE Money[k]
  <2>1. /\ debited[k] \in 0 .. 1 /\ returned[k] \in 0 .. 1 /\ returned'[k] \in 0 .. 1
        /\ debited'[k] = debited[k] /\ returned[k] <= returned'[k] /\ returned'[k] <= debited[k]
    BY DEF TypeOK, PayoutInv, KeyInv
  <2>2. QED
    BY <1>1, <2>1 DEF Money
<1>3. \A k \in S : Money[k] = "held"
  BY <1>1
<1>4. Money' = [k \in Key |-> IF k \in S THEN "returned" ELSE Money[k]]
  BY <1>2 DEF Money
<1>5. Escrow!Returns(S)
  BY <1>3, <1>4 DEF Escrow!Returns, Money
<1>6. QED
  BY <1>5 DEF Escrow!Next

(***************************************************************************)
(* A transfer that is paid was opened for a request whose money was held.  *)
(***************************************************************************)
LEMMA TransferPays ==
    ASSUME TypeOK, PayoutInv, TypeOK', PayoutInv', UNCHANGED ledger,
           NEW k \in Key, status[k] # "none",
           transfer[<<k, 1>>] = "paid" => transfer'[<<k, 1>>] = "paid",
           \A l \in Key \ {k} : transfer'[<<l, 1>>] = transfer[<<l, 1>>]
    PROVE  [Escrow!Next]_Escrow!vars
<1>1. Money' = Money
  BY DEF Money, ledger
<1>2. \A l \in Key : /\ Paid[l] = IF transfer[<<l, 1>>] = "paid" THEN 1 ELSE 0
                     /\ Paid'[l] = IF transfer'[<<l, 1>>] = "paid" THEN 1 ELSE 0
  <2>1. \A l \in Key : transfer[<<l, 2>>] = "none" /\ transfer'[<<l, 2>>] = "none"
    BY DEF PayoutInv, KeyInv
  <2>2. \A l \in Key : /\ Paid[l] = Cardinality({n \in {1, 2} : transfer[<<l, n>>] = "paid"})
                       /\ Paid'[l] = Cardinality({n \in {1, 2} : transfer'[<<l, n>>] = "paid"})
    BY DEF Paid
  <2>3. QED
    BY <2>1, <2>2, PaidByFirstKey
<1>3. CASE transfer[<<k, 1>>] = "paid" \/ transfer'[<<k, 1>>] # "paid"
  <2>1. \A l \in Key : Paid'[l] = Paid[l]
    BY <1>2, <1>3
  <2>2. Paid' = Paid
    BY <2>1 DEF Paid
  <2>3. QED
    BY <1>1, <2>2 DEF Escrow!vars, Money, Paid
<1>4. CASE transfer[<<k, 1>>] # "paid" /\ transfer'[<<k, 1>>] = "paid"
  <2>1. Money[k] # "free"
    <3>1. debited[k] = 1
      BY DEF PayoutInv, KeyInv
    <3>2. QED
      BY <3>1 DEF Money
  <2>2. Paid[k] = 0 /\ \A l \in Key : Paid'[l] = [Paid EXCEPT ![k] = 1][l]
    BY <1>2, <1>4 DEF Paid
  <2>3. Paid' = [Paid EXCEPT ![k] = 1]
    BY <2>2 DEF Paid
  <2>4. Escrow!Pays(k)
    BY <1>1, <2>1, <2>2, <2>3 DEF Escrow!Pays, Money, Paid
  <2>5. QED
    BY <2>4 DEF Escrow!Next
<1>5. QED
  BY <1>3, <1>4

(***************************************************************************)
(* A request that is granted debits what its courier still has; one that   *)
(* is sent again returns what it holds, if it is blocked this time.        *)
(***************************************************************************)
LEMMA CreateGrants ==
    ASSUME TypeOK, PayoutInv, TypeOK', PayoutInv', NEW k \in Key,
           createMobileCourierPayoutRequest(k), evaluateCourierPayoutRisk(k)
    PROVE  Escrow!Next
<1>1. PICK s : Moves(k, s)
  BY DEF evaluateCourierPayoutRisk
<1>2. transfer' = transfer
  BY DEF createMobileCourierPayoutRequest
<1>3. CASE status[k] # "none"
  <2>1. debited' = debited
    BY <1>3 DEF createMobileCourierPayoutRequest
  <2>2. \A l \in Key : returned[l] <= returned'[l]
    BY <1>1, MovesCredits
  <2>3. QED
    BY <1>2, <2>1, <2>2, CreditsReturn
<1>4. CASE status[k] = "none"
  <2>1. MayDraw(k) /\ debited' = [debited EXCEPT ![k] = 1]
    <3>1. status'[k] # "none"
      BY <1>4 DEF evaluateCourierPayoutRisk, RiskDecision, Moves, TypeOK
    <3>2. QED
      BY <1>4, <3>1 DEF createMobileCourierPayoutRequest
  <2>2. debited[k] = 0
    BY <1>4 DEF PayoutInv, KeyInv
  <2>3. Sum(Escrow!Holding(Owner[k])) + Amount[k] <= Earned[Owner[k]]
    <3>1. Escrow!Holding(Owner[k]) = Held(Owner[k]) /\ Held(Owner[k]) \in SUBSET Key
      BY EscrowHolds DEF Held, KeysOf
    <3>2. Sum(Held(Owner[k])) \in Nat /\ Amount[k] \in Nat /\ Earned[Owner[k]] \in Nat
      BY <3>1, SumType, OwnersAssumption, AmountsAssumption
    <3>3. QED
      BY <2>1, <3>1, <3>2 DEF MayDraw, AvailableBalance
  <2>4. \E m \in {"held", "returned"} : Money' = [Money EXCEPT ![k] = m]
    <3>1. Money'[k] \in {"held", "returned"}
      BY <2>1 DEF Money, TypeOK
    <3>2. \A l \in Key \ {k} : debited'[l] = debited[l] /\ returned'[l] = returned[l]
      BY <1>1, <2>1 DEF Moves, TypeOK
    <3>3. \A l \in Key : Money'[l] = [Money EXCEPT ![k] = Money'[k]][l]
      BY <3>2 DEF Money
    <3>4. Money' = [Money EXCEPT ![k] = Money'[k]]
      BY <3>3 DEF Money
    <3>5. QED
      BY <3>1, <3>4
  <2>5. Escrow!Grants(k)
    BY <1>2, <2>2, <2>3, <2>4 DEF Escrow!Grants, Money
  <2>6. QED
    BY <2>5 DEF Escrow!Next
<1>5. QED
  BY <1>3, <1>4

(***************************************************************************)
(* No other step debits a request, and each leaves the transfers alone or  *)
(* the money.                                                              *)
(***************************************************************************)
LEMMA StepKeepsEscrow ==
    ASSUME TypeOK, PayoutInv, TypeOK', PayoutInv', [Next]_vars
    PROVE  [Escrow!Next]_Escrow!vars
<1>1. ASSUME NEW k \in Key, createMobileCourierPayoutRequest(k)
      PROVE  [Escrow!Next]_Escrow!vars
  <2>1. CASE UNCHANGED <<status, ledger>>
    BY <1>1, <2>1 DEF createMobileCourierPayoutRequest, ledger, Escrow!vars
  <2>2. QED
    BY <1>1, <2>1, CreateGrants DEF createMobileCourierPayoutRequest
<1>2. ASSUME AdminNext PROVE Escrow!Next
  <2>1. UNCHANGED <<debited, transfer>> /\ \A l \in Key : returned[l] <= returned'[l]
    <3> \A l \in Key : returned[l] \in 0 .. 1
      BY DEF TypeOK
    <3>1. ASSUME NEW k \in Key, reviewSuspendsAccount(k)
          PROVE  \A l \in Key : returned[l] <= returned'[l]
      <4>1. returned' = [returned EXCEPT ![k] = Reversal(k)] /\ returned \in [Key -> 0 .. 1]
        BY <3>1 DEF reviewSuspendsAccount, TypeOK
      <4>2. QED
        BY <4>1 DEF Reversal
    <3>2. ASSUME NEW c \in Courier, updateCourierPayoutAccountStatus(c)
          PROVE  \A l \in Key : returned[l] <= returned'[l]
      <4>1. returned' = returned
        BY <3>2 DEF updateCourierPayoutAccountStatus, ledger
      <4>2. QED
        BY <4>1
    <3>3. ASSUME NEW k \in Key, updateCourierPayoutRequestStatus(k) \/ reviewAnswered(k)
          PROVE  \A l \in Key : returned[l] <= returned'[l]
      BY <3>3, MovesCredits DEF updateCourierPayoutRequestStatus, reviewAnswered
    <3>4. UNCHANGED <<debited, transfer>>
      BY <1>2 DEF AdminNext, updateCourierPayoutRequestStatus, reviewAnswered,
                  reviewSuspendsAccount, updateCourierPayoutAccountStatus, ledger
    <3>5. QED
      BY <1>2, <3>1, <3>2, <3>3, <3>4 DEF AdminNext
  <2>2. QED
    BY <2>1, CreditsReturn
<1>3. ASSUME ProviderNext PROVE [Escrow!Next]_Escrow!vars
  <2>1. ASSUME NEW i \in TransferKey, ProviderSettles(i) PROVE [Escrow!Next]_Escrow!vars
    <3>1. PICK k \in Key, n \in {1, 2} : i = <<k, n>>
      BY DEF TransferKey
    <3>2. i = <<k, 1>> /\ status[k] # "none"
      BY <2>1, <3>1 DEF ProviderSettles, PayoutInv, KeyInv
    <3>3. \A l \in Key \ {k} : transfer'[<<l, 1>>] = transfer[<<l, 1>>]
      BY <2>1, <3>2 DEF ProviderSettles, TypeOK, TransferKey
    <3>4. QED
      BY <2>1, <3>2, <3>3, TransferPays DEF ProviderSettles
  <2>2. ASSUME NEW k \in Key, handleCourierPayoutProviderWebhook(k) PROVE Escrow!Next
    <3>1. UNCHANGED <<debited, transfer>> /\ \A l \in Key : returned[l] <= returned'[l]
      BY <2>2, MovesCredits DEF handleCourierPayoutProviderWebhook, applyProviderCallback
    <3>2. QED
      BY <3>1, CreditsReturn
  <2>3. QED
    BY <1>3, <2>1, <2>2 DEF ProviderNext
<1>4. ASSUME NEW d \in Dispatcher, NEW k \in todo[d], NEW s, ProviderAccepts(k, s),
             UNCHANGED ledger
      PROVE  [Escrow!Next]_Escrow!vars
  <2>1. k \in Key /\ status[k] # "none"
    BY DEF TypeOK, PayoutInv, DispatcherInv
  <2>2. transfer[<<k, 1>>] = "paid" => transfer'[<<k, 1>>] = "paid"
    BY <1>4, <2>1 DEF ProviderAccepts, providerIdempotencyKey, TransferKey, TypeOK
  <2>3. \A l \in Key \ {k} : transfer'[<<l, 1>>] = transfer[<<l, 1>>]
    BY <1>4, <2>1, AcceptsType DEF TransferKey
  <2>4. QED
    BY <1>4, <2>1, <2>2, <2>3, TransferPays
<1>5. ASSUME NEW d \in Dispatcher, DispatcherNext(d) PROVE [Escrow!Next]_Escrow!vars
  <2>1. CASE UNCHANGED <<ledger, transfer>>
    BY <2>1 DEF Escrow!vars, ledger
  <2>2. CASE dispatchSends(d)
    BY <2>2, <1>4 DEF dispatchSends
  <2>3. CASE dispatchSendFails(d)
    BY <2>1, <2>3, <1>4 DEF dispatchSendFails
  <2>6. CASE dispatchRefused(d)
    BY <2>6, <1>4 DEF dispatchRefused
  <2>4. CASE dispatchCommits(d) \/ pollUnknownPayouts(d)
    <3>1. UNCHANGED <<debited, transfer>> /\ \A l \in Key : returned[l] <= returned'[l]
      BY <2>4 DEF dispatchCommits, pollUnknownPayouts, Reversal, TypeOK
    <3>2. QED
      BY <3>1, CreditsReturn
  <2>5. QED
    BY <1>5, <2>1, <2>2, <2>3, <2>4, <2>6
       DEF DispatcherNext, dispatchClaims, dispatchSkips, dispatchAborts
<1>6. CASE UNCHANGED vars
  BY <1>6 DEF vars, ledger, Escrow!vars
<1>7. QED
  BY <1>1, <1>2, <1>3, <1>5, <1>6 DEF Next, CourierNext

(***************************************************************************)
(* CourierPayout implements PayoutEscrow: whoever moves a request, its     *)
(* money is held within what the courier earned, goes back once and is     *)
(* paid once.                                                              *)
(***************************************************************************)
THEOREM EscrowKept == Spec => KeepsEscrow
<1>1. Init => Escrow!Init
  <2> SUFFICES ASSUME Init PROVE Escrow!Init
    OBVIOUS
  <2>1. \A k \in Key : {n \in {1, 2} : transfer[<<k, n>>] = "paid"} = {}
    BY DEF Init, TransferKey
  <2>2. Cardinality({}) = 0
    BY FS_EmptySet
  <2>3. QED
    BY <2>1, <2>2 DEF Init, Escrow!Init
<1>2. QED
  BY <1>1, StepKeepsEscrow, PayoutSafe, PTL DEF Spec, KeepsEscrow, Escrow!Spec

(***************************************************************************)
(* The promise keeps every courier solvent: money that goes back holds     *)
(* less, and a request is held only within what is left.                   *)
(***************************************************************************)
THEOREM EscrowSolvent == Escrow!Spec => []Escrow!Solvent
<1>1. ASSUME NEW c \in Courier, NEW H \in SUBSET Key, NEW G \in SUBSET H, Sum(H) <= Earned[c]
      PROVE  Sum(G) <= Earned[c]
  <2>1. Sum(G) <= Sum(H) /\ Sum(G) \in Nat /\ Sum(H) \in Nat /\ Earned[c] \in Nat
    BY SumMonotone, SumType, AmountsAssumption
  <2>2. QED
    BY <1>1, <2>1
<1>2. Escrow!Init => Escrow!Solvent
  <2> SUFFICES ASSUME Escrow!Init, NEW c \in Courier PROVE Sum(Escrow!Holding(c)) <= Earned[c]
    BY DEF Escrow!Solvent
  <2>1. Escrow!Holding(c) = {}
    BY DEF Escrow!Init, Escrow!Holding
  <2>2. Sum({}) = 0
    BY FS_EmptySet DEF Sum
  <2>3. QED
    BY <2>1, <2>2, AmountsAssumption
<1>3. Escrow!Solvent /\ [Escrow!Next]_Escrow!vars => Escrow!Solvent'
  <2> SUFFICES ASSUME Escrow!Solvent, [Escrow!Next]_Escrow!vars, NEW c \in Courier
               PROVE  Sum(Escrow!Holding(c)') <= Earned[c]
    BY DEF Escrow!Solvent
  <2>1. /\ Escrow!Holding(c) = {k \in Key : Owner[k] = c /\ Money[k] = "held"}
        /\ Escrow!Holding(c)' = {k \in Key : Owner[k] = c /\ Money'[k] = "held"}
    BY DEF Escrow!Holding, Money
  <2>2. Sum(Escrow!Holding(c)) <= Earned[c]
    BY DEF Escrow!Solvent
  <2>3. CASE \A k \in Key : Money'[k] = "held" => Money[k] = "held"
    BY <1>1, <2>1, <2>2, <2>3
  <2>4. ASSUME NEW k \in Key, Escrow!Grants(k) PROVE Sum(Escrow!Holding(c)') <= Earned[c]
    <3>1. PICK m \in {"held", "returned"} : Money' = [Money EXCEPT ![k] = m]
      BY <2>4 DEF Escrow!Grants, Money
    <3>2. Money[k] = "free" /\ Sum(Escrow!Holding(Owner[k])) + Amount[k] <= Earned[Owner[k]]
      BY <2>4 DEF Escrow!Grants, Money
    <3>3. \A l \in Key : Money'[l] = IF l = k THEN m ELSE Money[l]
      BY <3>1 DEF Money
    <3>4. CASE m = "held" /\ Owner[k] = c
      <4>1. Escrow!Holding(c)' = Escrow!Holding(c) \cup {k} /\ k \in Key \ Escrow!Holding(c)
        BY <2>1, <3>2, <3>3, <3>4
      <4>2. Escrow!Holding(c) \in SUBSET Key
        BY <2>1
      <4>3. Sum(Escrow!Holding(c)') = Sum(Escrow!Holding(c)) + Amount[k]
        BY <4>1, <4>2, SumAdds
      <4>4. QED
        BY <3>2, <3>4, <4>3
    <3>5. CASE m # "held" \/ Owner[k] # c
      <4>1. Escrow!Holding(c)' \in SUBSET Escrow!Holding(c) /\ Escrow!Holding(c) \in SUBSET Key
        BY <2>1, <3>3, <3>5
      <4>2. QED
        BY <1>1, <2>2, <4>1
    <3>6. QED
      BY <3>4, <3>5
  <2>5. ASSUME NEW S \in SUBSET Key, Escrow!Returns(S)
        PROVE  \A k \in Key : Money'[k] = "held" => Money[k] = "held"
    <3>1. Money' = [k \in Key |-> IF k \in S THEN "returned" ELSE Money[k]]
      BY <2>5 DEF Escrow!Returns, Money
    <3>2. QED
      BY <3>1
  <2>6. ASSUME Money' = Money PROVE \A k \in Key : Money'[k] = "held" => Money[k] = "held"
    BY <2>6
  <2>7. QED
    BY <2>3, <2>4, <2>5, <2>6 DEF Escrow!Next, Escrow!Pays, Escrow!vars, Money
<1>4. QED
  BY <1>2, <1>3, PTL DEF Escrow!Spec

(***************************************************************************)
(* A courier's open requests never hold more than the courier has earned,  *)
(* whatever the amounts and however many requests there are.               *)
(***************************************************************************)
THEOREM NobodyOverdrawn == Spec => []NeverOverdrawn
<1>1. TypeOK /\ PayoutInv /\ Escrow!Solvent => NeverOverdrawn
  BY EscrowHolds DEF Escrow!Solvent, NeverOverdrawn
<1>2. QED
  BY <1>1, PayoutSafe, EscrowKept, EscrowSolvent, PTL DEF KeepsEscrow

=============================================================================
