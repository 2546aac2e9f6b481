--------------------------- MODULE CourierPayout ---------------------------
(***************************************************************************)
(* A courier draws earnings: the request and its risk decision, the admins *)
(* who review it, the dispatcher that hands approved requests to the       *)
(* payout provider, the recovery poll and the provider's webhook.          *)
(*                                                                         *)
(* A payout request is named by the courier's idempotency key.  A handler  *)
(* of one database transaction is one action; the dispatcher, which calls  *)
(* the provider while its transaction is open, takes one step per call.    *)
(***************************************************************************)
EXTENDS Integers, FiniteSets

CONSTANTS
    Courier,
    Key,          \* idempotency keys couriers send with a request
    Owner,        \* the courier of a key
    Amount,       \* the amount asked for under a key
    Earned,       \* what a courier has earned and may draw
    MaxPending,   \* payout_max_pending_requests
    DailyLimit,   \* payout_daily_limit_idr
    Worker,       \* instances that run startPayoutDispatcherWorker
    Endpoint,     \* calls of the admins' runCourierPayoutDispatcher
    Event,        \* statuses the provider's webhook reports
    Verdict,      \* what PostgreSQL does with a statement that assigns a parameter
                  \* to a VARCHAR and compares it with a literal: it refuses it
    MaxActs,      \* bound: what admins do
    MaxFaults     \* bound: calls that fail, answers that are ambiguous, crashes

ASSUME OwnersAssumption ==
    /\ IsFiniteSet(Key) /\ Owner \in [Key -> Courier]
    /\ Worker \cap Endpoint = {} /\ "none" \notin Key
ASSUME AmountsAssumption ==
    /\ Amount \in [Key -> Nat \ {0}] /\ Earned \in [Courier -> Nat]
    /\ MaxPending \in Nat /\ DailyLimit \in Nat
    /\ Event \subseteq {"processing", "unknown", "paid", "failed"}
    /\ Verdict \subseteq {"accepts", "refuses"}
    /\ MaxActs \in Nat /\ MaxFaults \in Nat

Dispatcher == Worker \cup Endpoint

ActiveStatus == {"requested", "risk_screening", "approved_auto", "risk_hold",
                 "manual_review", "under_review", "approved", "processing"}
TerminalStatus == {"paid", "failed", "rejected", "blocked", "cancelled"}
RequestStatus == ActiveStatus \cup TerminalStatus

\* The statuses whose request gives the held amount back to the courier.
ReturningStatus == TerminalStatus \ {"paid"}

ProviderStatus == {"processing", "unknown", "paid", "failed"}

VARIABLES
    answered,  \* keys whose answer is in api_idempotency_keys
    status,    \* courier_payout_requests.status, "none" before the request
    debited,   \* number of payout_requested debits of the request's ledger
    returned,  \* number of its payout_failed credits
    verified,  \* the courier's payout account is verified
    dispatch,  \* courier_payout_dispatches.provider_status, "none" for no row
    seen,      \* courier_payout_provider_webhook_events
    transfer,  \* provider: the transfer it made under an idempotency key
    pc, batch, todo, outcome,  \* the dispatchers' open transactions
    acts, faults

ledger  == <<debited, returned>>
sending == <<pc, batch, todo, outcome>>
vars    == <<answered, status, ledger, verified, dispatch, seen, transfer, sending, acts, faults>>

-----------------------------------------------------------------------------
(* The provider                                                            *)

TransferKey == Key \X {1, 2}

\* Fault: a retry goes out under a key of its own.
providerIdempotencyKeyPerAttempt(k) == <<k, IF dispatch[k] = "none" THEN 1 ELSE 2>>
\* One key for all attempts at a request.
providerIdempotencyKey(k) == <<k, 1>>

TransferState == {"none", "processing", "paid", "failed"}

\* A call opens the transfer of a new key and repeats what an old key has.
ProviderAccepts(k, s) ==
    LET i == providerIdempotencyKey(k)
    IN  /\ s \in TransferState \ {"none"}
        /\ transfer[i] # "none" => s = transfer[i]
        /\ transfer' = [transfer EXCEPT ![i] = s]

ProviderSettles(i) ==
    /\ transfer[i] = "processing"
    /\ \E s \in {"paid", "failed"} : transfer' = [transfer EXCEPT ![i] = s]
    /\ UNCHANGED <<answered, status, ledger, verified, dispatch, seen, sending, acts, faults>>

\* The events the provider has sent about a request.
Emitted(k) == Event \cap UNION {
    CASE transfer[<<k, n>>] = "none" -> {}
      [] transfer[<<k, n>>] = "processing" -> {"processing", "unknown"}
      [] OTHER -> {"processing", "unknown", transfer[<<k, n>>]} : n \in {1, 2}}

-----------------------------------------------------------------------------
(* Rows and balances                                                       *)

\* The amounts of the requests in S, counted rupiah by rupiah.
Sum(S) == Cardinality(UNION {{k} \X (1 .. Amount[k]) : k \in S})

KeysOf(c) == {k \in Key : Owner[k] = c}

Held(c) == {k \in KeysOf(c) : debited[k] > returned[k]}
AvailableBalance(c) == Earned[c] - Sum(Held(c))

\* The rows of a claimed request are locked until the dispatcher's
\* transaction ends, and with them its courier's account.
RequestLocked(k) == \E d \in Dispatcher : k \in batch[d]
\* Fault: FOR UPDATE OF pr alone.
AccountUnlocked(c) == FALSE
AccountLocked(c) == \E d \in Dispatcher : \E k \in batch[d] : Owner[k] = c

\* Fault: the existing credit is not looked up.
ReversalAgain(k) == returned[k] + 1
\* The payout_failed credit, unless the request has one.
Reversal(k) == IF returned[k] = 0 THEN 1 ELSE returned[k]

\* Request k goes to status s.
Moves(k, s) ==
    /\ status' = [status EXCEPT ![k] = s]
    /\ returned' = [returned EXCEPT ![k] =
           IF s \in ReturningStatus THEN Reversal(k) ELSE @]

Acts == acts < MaxActs /\ acts' = acts + 1
Fails == faults < MaxFaults /\ faults' = faults + 1

-----------------------------------------------------------------------------
(* The courier                                                             *)

\* The decisions the risk rules can come to; an unverified account blocks.
RiskDecision(c) ==
    IF verified[c] THEN {"approved_auto", "manual_review", "risk_hold", "blocked"}
                   ELSE {"blocked"}

evaluateCourierPayoutRisk(k) ==
    \E s \in RiskDecision(Owner[k]) : Moves(k, s)

Pending(c) == {k \in KeysOf(c) : status[k] \in ActiveStatus}
RequestedToday(c) ==
    {k \in KeysOf(c) : status[k] \notin ReturningStatus \cup {"none"}}

\* Fault: the balance is the sum of the credits.
MayDrawEarned(k) ==
    LET c == Owner[k]
    IN  /\ verified[c]
        /\ Cardinality(Pending(c)) < MaxPending
        /\ Sum(RequestedToday(c)) + Amount[k] <= DailyLimit
        /\ Earned[c] >= Amount[k]
\* What request_courier_payout asks of a request it has not seen.
MayDraw(k) ==
    LET c == Owner[k]
    IN  /\ verified[c]
        /\ Cardinality(Pending(c)) < MaxPending
        /\ Sum(RequestedToday(c)) + Amount[k] <= DailyLimit
        /\ AvailableBalance(c) >= Amount[k]

\* A key whose answer is stored is answered from the store.  The handler runs
\* again when there is none: it failed or died after its transaction, or the
\* answer could not be stored.
requireIdempotencyKey(k) ==
    /\ k \notin answered
    /\ \/ answered' = answered \cup {k} /\ UNCHANGED faults
       \/ Fails /\ UNCHANGED answered

createMobileCourierPayoutRequest(k) ==
    /\ requireIdempotencyKey(k)
    /\ ~AccountLocked(Owner[k]) /\ ~RequestLocked(k)
    /\ \/ status[k] = "none" /\ ~MayDraw(k) /\ UNCHANGED <<status, ledger>>
       \/ /\ status[k] = "none" /\ MayDraw(k) /\ debited' = [debited EXCEPT ![k] = 1]
          /\ evaluateCourierPayoutRisk(k)
       \/ status[k] # "none" /\ UNCHANGED debited /\ evaluateCourierPayoutRisk(k)
    /\ UNCHANGED <<verified, dispatch, seen, transfer, sending, acts>>

-----------------------------------------------------------------------------
(* The admins                                                              *)

AllowedTransitions(s) ==
    CASE s = "requested"     -> {"under_review", "approved", "processing", "paid",
                                 "failed", "rejected", "cancelled"}
      [] s = "risk_screening" -> {"risk_hold", "manual_review", "approved", "processing",
                                 "paid", "failed", "rejected", "blocked", "cancelled"}
      [] s = "approved_auto" -> {"processing", "paid", "failed", "cancelled"}
      [] s = "risk_hold"     -> {"manual_review", "under_review", "approved", "failed",
                                 "rejected", "blocked", "cancelled"}
      [] s = "manual_review" -> {"under_review", "approved", "failed", "rejected",
                                 "blocked", "cancelled"}
      [] s = "under_review"  -> {"approved", "processing", "paid", "failed",
                                 "rejected", "blocked", "cancelled"}
      [] s = "approved"      -> {"processing", "paid", "failed", "cancelled"}
      [] s = "processing"    -> {"paid", "failed"}
      [] s \in TerminalStatus -> {s}
      [] OTHER               -> {}

updateCourierPayoutRequestStatus(k) ==
    /\ ~RequestLocked(k)
    /\ \E s \in AllowedTransitions(status[k]) : Moves(k, s)
    /\ Acts
    /\ UNCHANGED <<answered, debited, verified, dispatch, seen, transfer, sending, faults>>

\* Where an admin may review: blocked is not among the terminal statuses here.
Reviewable(k) ==
    /\ ~RequestLocked(k)
    /\ status[k] \notin {"none", "paid", "failed", "rejected", "cancelled"}

reviewAnswered(k) ==
    /\ Reviewable(k)
    /\ \/ status[k] # "blocked" /\ Moves(k, "approved")
       \/ Moves(k, "rejected")
       \/ Moves(k, "under_review")
    /\ Acts
    /\ UNCHANGED <<answered, debited, verified, dispatch, seen, transfer, sending, faults>>

reviewSuspendsAccount(k) ==
    /\ Reviewable(k) /\ ~AccountLocked(Owner[k])
    /\ status' = [status EXCEPT ![k] = "risk_hold"]
    /\ returned' = [returned EXCEPT ![k] = Reversal(k)]
    /\ verified' = [verified EXCEPT ![Owner[k]] = FALSE]
    /\ Acts
    /\ UNCHANGED <<answered, debited, dispatch, seen, transfer, sending, faults>>

updateCourierPayoutAccountStatus(c) ==
    /\ ~AccountLocked(c)
    /\ verified' = [verified EXCEPT ![c] = ~@]
    /\ Acts
    /\ UNCHANGED <<answered, status, ledger, dispatch, seen, transfer, sending, faults>>

-----------------------------------------------------------------------------
(* The provider's answers                                                  *)

\* What an answer makes of a request, whatever its status.
AnsweredStatus(s) == IF s \in {"paid", "failed"} THEN s ELSE "processing"

\* Fault: a failure sets the status and returns nothing.
applyProviderCallbackUnreturned(k, s) ==
    /\ dispatch' = [dispatch EXCEPT ![k] = s]
    /\ status' = [status EXCEPT ![k] = AnsweredStatus(s)]
    /\ UNCHANGED returned
applyProviderCallback(k, s) ==
    /\ "accepts" \in Verdict
    /\ dispatch' = [dispatch EXCEPT ![k] = s]
    /\ Moves(k, AnsweredStatus(s))

\* The webhook; before the dispatch is committed, or with its statement refused,
\* it fails and is sent again.
handleCourierPayoutProviderWebhook(k) ==
    /\ dispatch[k] # "none" /\ ~RequestLocked(k)
    /\ \E s \in Emitted(k) :
         /\ <<k, s>> \notin seen
         /\ applyProviderCallback(k, s)
         /\ seen' = seen \cup {<<k, s>>}
    /\ UNCHANGED <<answered, debited, verified, transfer, sending, acts, faults>>

-----------------------------------------------------------------------------
(* The dispatcher                                                          *)

Candidates ==
    {k \in Key : /\ status[k] \in {"approved_auto", "approved"}
                 /\ verified[Owner[k]]
                 /\ dispatch[k] \notin {"processing", "paid"}}

\* Fault: a plain read claims rows others have claimed.
ClaimableUnlocked(k) == k \in Candidates
\* SKIP LOCKED passes over what another dispatcher has claimed.
Claimable(k) == k \in Candidates /\ ~AccountLocked(Owner[k])

dispatchClaims(d) ==
    /\ pc[d] = "idle"
    /\ IF d \in Worker THEN UNCHANGED acts ELSE Acts
    /\ LET claimed == {k \in Key : Claimable(k)}
       IN  /\ batch' = [batch EXCEPT ![d] = claimed]
           /\ todo' = [todo EXCEPT ![d] = claimed]
    /\ pc' = [pc EXCEPT ![d] = "sending"]
    /\ UNCHANGED <<answered, status, ledger, verified, dispatch, seen, transfer, outcome,
                   faults>>

\* Over the provider's daily limit, as the transaction has read the usage, or
\* with its account number out of reach, a request stays as it is.
dispatchSkips(d) ==
    /\ pc[d] = "sending"
    /\ \E k \in todo[d] : todo' = [todo EXCEPT ![d] = @ \ {k}]
    /\ UNCHANGED <<answered, status, ledger, verified, dispatch, seen, transfer, pc, batch,
                   outcome, acts, faults>>

\* The provider answers with a status the request can take; the statement that
\* records it is one PostgreSQL refuses, but for a failure.
dispatchSends(d) ==
    /\ pc[d] = "sending"
    /\ \E k \in todo[d] :
         /\ \E s \in TransferState \ {"none"} :
              /\ ProviderAccepts(k, s)
              /\ s = "failed" \/ "accepts" \in Verdict
              /\ outcome' = [outcome EXCEPT ![d][k] = s]
         /\ todo' = [todo EXCEPT ![d] = @ \ {k}]
    /\ UNCHANGED <<answered, status, ledger, verified, dispatch, seen, pc, batch, acts, faults>>

\* The transaction of dispatcher d ends with nothing of it left.
Closes(d, next) ==
    /\ pc' = [pc EXCEPT ![d] = next]
    /\ batch' = [batch EXCEPT ![d] = {}]
    /\ todo' = [todo EXCEPT ![d] = {}]
    /\ outcome' = [outcome EXCEPT ![d] = [k \in Key |-> "none"]]

\* The statement is refused: the batch is rolled back, the provider has taken the
\* transfer.
dispatchRefused(d) ==
    /\ pc[d] = "sending" /\ "refuses" \in Verdict
    /\ \E k \in todo[d], s \in {"processing", "paid"} : ProviderAccepts(k, s)
    /\ Closes(d, "idle")
    /\ UNCHANGED <<answered, status, ledger, verified, dispatch, seen, acts, faults>>

\* The call throws, or its answer is ambiguous and the request's row refuses
\* the status unknown: the batch is rolled back, the provider may have taken
\* the transfer.
dispatchSendFails(d) ==
    /\ pc[d] = "sending"
    /\ \E k \in todo[d] :
         /\ \/ UNCHANGED transfer
            \/ \E s \in TransferState \ {"none"} : ProviderAccepts(k, s)
    /\ Closes(d, "idle") /\ Fails
    /\ UNCHANGED <<answered, status, ledger, verified, dispatch, seen, acts>>

\* The instance dies, or the database ends the transaction.
dispatchAborts(d) ==
    /\ pc[d] = "sending"
    /\ Closes(d, "idle") /\ Fails
    /\ UNCHANGED <<answered, status, ledger, verified, dispatch, seen, transfer, acts>>

\* The first attempt's row keeps its provider status.
dispatchCommits(d) ==
    /\ pc[d] = "sending" /\ todo[d] = {}
    /\ LET sent == {k \in Key : outcome[d][k] # "none"}
       IN  /\ status' = [k \in Key |-> IF k \in sent THEN outcome[d][k] ELSE status[k]]
           /\ returned' = [k \in Key |->
                  IF k \in sent /\ outcome[d][k] = "failed" THEN Reversal(k) ELSE returned[k]]
           /\ dispatch' = [k \in Key |->
                  IF k \in sent /\ dispatch[k] = "none" THEN outcome[d][k] ELSE dispatch[k]]
    /\ Closes(d, IF d \in Worker THEN "polling" ELSE "idle")
    /\ UNCHANGED <<answered, debited, verified, seen, transfer, acts, faults>>

Ambiguous == {k \in Key : dispatch[k] = "unknown"}

\* The dispatches the poll asks about, and what the provider says of one.
Asked == {k \in Ambiguous : ~RequestLocked(k)}
Answer(k, unclear) == IF k \in unclear THEN "unknown" ELSE transfer[providerIdempotencyKey(k)]

\* The worker asks the provider; an answer may be unclear again, and a query
\* that fails leaves its dispatch as it is; a statement that is refused leaves all.
pollUnknownPayouts(d) ==
    /\ pc[d] = "polling"
    /\ pc' = [pc EXCEPT ![d] = "idle"]
    /\ \E told \in SUBSET Asked : \E unclear \in SUBSET told :
         /\ told = {} \/ "accepts" \in Verdict
         /\ IF (told = Asked /\ unclear = {}) \/ (told = {} /\ "refuses" \in Verdict)
            THEN UNCHANGED faults ELSE Fails
         /\ dispatch' = [k \in Key |-> IF k \in told THEN Answer(k, unclear) ELSE dispatch[k]]
         /\ status' = [k \in Key |->
                IF k \in told THEN AnsweredStatus(Answer(k, unclear)) ELSE status[k]]
         /\ returned' = [k \in Key |->
                IF k \in told /\ Answer(k, unclear) = "failed" THEN Reversal(k) ELSE returned[k]]
    /\ UNCHANGED <<answered, debited, verified, seen, transfer, batch, todo, outcome, acts>>

-----------------------------------------------------------------------------
Init ==
    /\ answered = {} /\ status = [k \in Key |-> "none"]
    /\ debited = [k \in Key |-> 0] /\ returned = [k \in Key |-> 0]
    /\ verified = [c \in Courier |-> TRUE]
    /\ dispatch = [k \in Key |-> "none"]
    /\ seen = {}
    /\ transfer = [i \in TransferKey |-> "none"]
    /\ pc = [d \in Dispatcher |-> "idle"]
    /\ batch = [d \in Dispatcher |-> {}] /\ todo = [d \in Dispatcher |-> {}]
    /\ outcome = [d \in Dispatcher |-> [k \in Key |-> "none"]]
    /\ acts = 0 /\ faults = 0

CourierNext == \E k \in Key : createMobileCourierPayoutRequest(k)
AdminNext ==
    \/ \E k \in Key : \/ updateCourierPayoutRequestStatus(k)
                      \/ reviewAnswered(k)
                      \/ reviewSuspendsAccount(k)
    \/ \E c \in Courier : updateCourierPayoutAccountStatus(c)
DispatcherNext(d) ==
    \/ dispatchClaims(d) \/ dispatchSkips(d) \/ dispatchSends(d)
    \/ dispatchRefused(d) \/ dispatchSendFails(d) \/ dispatchAborts(d) \/ dispatchCommits(d)
    \/ pollUnknownPayouts(d)
ProviderNext ==
    \/ \E i \in TransferKey : ProviderSettles(i)
    \/ \E k \in Key : handleCourierPayoutProviderWebhook(k)

Next ==
    \/ CourierNext \/ AdminNext \/ ProviderNext
    \/ \E d \in Dispatcher : DispatcherNext(d)

Spec == Init /\ [][Next]_vars

-----------------------------------------------------------------------------
(* Reconciliation: the requests each critical check of a run reports.      *)

LedgerMismatch ==
    {k \in Key : /\ status[k] \notin {"none", "blocked", "rejected", "cancelled"}
                 /\ debited[k] = 0}
FailureWithoutReversal == {k \in Key : status[k] = "failed" /\ returned[k] = 0}
PaidLedgerMismatch == {k \in Key : status[k] = "paid" /\ debited[k] = 0}

-----------------------------------------------------------------------------
(* Properties                                                              *)

TypeOK ==
    /\ answered \subseteq Key
    /\ status \in [Key -> RequestStatus \cup {"none"}]
    /\ debited \in [Key -> 0 .. 1] /\ returned \in [Key -> 0 .. 1]
    /\ verified \in [Courier -> BOOLEAN]
    /\ dispatch \in [Key -> ProviderStatus \cup {"none"}]
    /\ seen \subseteq Key \X ProviderStatus
    /\ transfer \in [TransferKey -> TransferState]
    /\ pc \in [Dispatcher -> {"idle", "sending", "polling"}]
    /\ batch \in [Dispatcher -> SUBSET Key] /\ todo \in [Dispatcher -> SUBSET Key]
    /\ outcome \in [Dispatcher -> [Key -> TransferState]]
    /\ acts \in 0 .. MaxActs /\ faults \in 0 .. MaxFaults

\* Whatever the courier, admins, dispatchers, poll and webhook do to a request
\* and in whatever order - the five of them book the credit - its amount is
\* taken once and given back once at the most.
HeldMoneyReturnsOnce ==
    \A k \in Key : /\ debited[k] = IF status[k] = "none" THEN 0 ELSE 1
                   /\ returned[k] <= debited[k]

\* The requests that hold money never hold more than the courier earned,
\* although each is granted against the balance of its own transaction.
NeverOverdrawn == \A c \in Courier : Sum(Held(c)) <= Earned[c]

\* The critical ledger checks of a reconciliation run have nothing to report
\* between any two steps of the handlers, and what they leave out - a rejected,
\* blocked or cancelled request that kept the courier's money - is as clean.
LedgerReconciles ==
    /\ LedgerMismatch \cup FailureWithoutReversal \cup PaidLedgerMismatch = {}
    /\ \A k \in Key : status[k] \in ReturningStatus => returned[k] = 1

\* Two dispatchers never work for the same courier at once: SKIP LOCKED keeps
\* the worker of one instance away from what the admins' run has claimed.
SeparateBatches ==
    \A d, e \in Dispatcher : d # e =>
        \A k \in batch[d], l \in batch[e] : Owner[k] # Owner[l]

\* However often a request is sent - after a rollback, an ambiguous answer or a
\* second approval - the provider makes one transfer for it.
PaysOnce == \A k \in Key : ~(transfer[<<k, 1>>] = "paid" /\ transfer[<<k, 2>>] = "paid")

\* The provider is only given a request whose account is verified at that
\* moment: the claim keeps the account's row until the transaction ends.
SentToVerified ==
    [][\A k \in Key : (\A n \in {1, 2} : transfer[<<k, n>>] = "none")
            /\ (\E n \in {1, 2} : transfer'[<<k, n>>] # "none")
        => verified[Owner[k]] /\ status[k] \in {"approved_auto", "approved"}]_vars

\* What the courier is promised of the money: the row pairs of a request as
\* one state, and the transfers made for it under any key.
Escrow == INSTANCE PayoutEscrow WITH
    money <- [k \in Key |-> IF debited[k] = 0 THEN "free"
                            ELSE IF debited[k] > returned[k] THEN "held" ELSE "returned"],
    paid  <- [k \in Key |-> Cardinality({n \in {1, 2} : transfer[<<k, n>>] = "paid"})]

\* Every handler of the courier, the admins, the dispatchers, the poll and the
\* webhook does to the money what the promise allows, or nothing.
KeepsEscrow == Escrow!Spec

\* A request that has ended stays as it ended; a blocked one may be reviewed.
TerminalRequestStays ==
    [][\A k \in Key : status[k] \in TerminalStatus \ {"blocked"} => status'[k] = status[k]]_vars
=============================================================================
