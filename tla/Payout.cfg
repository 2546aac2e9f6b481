CONSTANTS
    rina = rina
    k1 = k1
    k2 = k2
    wk = wk
    ep = ep
    Courier = {rina}
    Key = {k1, k2}
    Owner <- TheOwner
    Amount <- TheAmount
    Earned <- TheEarned
    MaxPending = 2
    DailyLimit = 4
    Worker = {wk}
    Endpoint = {ep}
    Event = {"unknown", "paid", "failed"}
    Verdict = {"accepts", "refuses"}
    MaxActs = 2
    MaxFaults = 1
SYMMETRY KeySymmetry
SPECIFICATION Spec
INVARIANTS HeldMoneyReturnsOnce NeverOverdrawn LedgerReconciles SeparateBatches
PROPERTIES SentToVerified KeepsEscrow
CHECK_DEADLOCK FALSE
