CONSTANTS
    c1 = c1
    c2 = c2
    cust = cust
    adm = adm
    d1 = d1
    d2 = d2
    s1 = s1
    s2 = s2
    Nobody = Nobody
    Couriers = {c1}
    Customers = {}
    Admins = {adm}
    Deliveries = {d1}
    Starters = {s1}
    Workers = {"monitor", "ghost", "expiry"}
    Targets = {"cancelled", "searching", "picked_up"}
    Scans = {}
    ReadReplica = TRUE
    MaxCrashes = 1
SPECIFICATION FairSpec
PROPERTIES SearchEnds LockFreed CustodyKept
CHECK_DEADLOCK FALSE
