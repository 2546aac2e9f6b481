CONSTANTS
    cust = cust
    adm = adm
    toko = toko
    sla = sla
    exp = exp
    d1 = d1
    d2 = d2
    Nobody = Nobody
    Customers = {cust}
    Merchants = {}
    SlaWorkers = {}
    Expirers = {exp}
    Deliveries = {d1}
    Admins = {adm}
    Named = {"accepted", "cancelled"}
    FoodOrders = {FALSE}
    Paid = {FALSE}
    Advances = {"searching", "accepted"}
    Price = 7
    PlatformFee = 2
    Lag = TRUE
    Slow = TRUE
    Faulty = TRUE
    Unbooked = FALSE
    MaxCrashes = 1
SPECIFICATION Spec
INVARIANTS CreditedOnce RefundsAreOwed
PROPERTIES KeepsPromise
CHECK_DEADLOCK FALSE
