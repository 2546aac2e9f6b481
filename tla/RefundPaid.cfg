CONSTANTS
    cust = cust
    adm = adm
    toko = toko
    sla = sla
    exp = exp
    d1 = d1
    d2 = d2
    Nobody = Nobody
    Customers = {cust}
    Merchants = {toko}
    SlaWorkers = {sla}
    Expirers = {}
    Deliveries = {}
    Admins = {adm}
    Named = {"accepted"}
    FoodOrders = {TRUE, FALSE}
    Paid = {TRUE}
    Advances = {"preparing", "searching", "assigned", "accepted"}
    Price = 7
    PlatformFee = 2
    Lag = FALSE
    Slow = FALSE
    Faulty = FALSE
    Unbooked = TRUE
    MaxCrashes = 0
SPECIFICATION FairSpec
INVARIANTS RefundMatchesPolicy 
 
CHECK_DEADLOCK FALSE
