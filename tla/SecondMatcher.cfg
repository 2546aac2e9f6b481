CONSTANTS
    c1 = c1
    c2 = c2
    cust = cust
    adm = adm
    d1 = d1
    d2 = d2
    s1 = s1
    s2 = s2
    Nobody = Nobody
    Couriers = {c1}
    Customers = {}
    Admins = {}
    Deliveries = {d1}
    Starters = {s1, s2}
    Workers = {}
    Targets = {}
    Scans = {}
    ReadReplica = TRUE
    MaxCrashes = 0
SPECIFICATION Spec
INVARIANT OneMatcher
CHECK_DEADLOCK FALSE
SYMMETRY Interchangeable
