CONSTANTS
    c1 = c1
    c2 = c2
    cust = cust
    adm = adm
    d1 = d1
    d2 = d2
    s1 = s1
    s2 = s2
    Nobody = Nobody
    Couriers = {c1, c2}
    Customers = {cust}
    Admins = {}
    Deliveries = {d1}
    Starters = {s1, s2}
    Workers = {"monitor"}
    Targets = {"cancelled", "pickup_arrived", "delivering"}
    Scans = {"picked_up", "delivered"}
    ReadReplica = FALSE
    MaxCrashes = 1
SPECIFICATION Spec
INVARIANTS OneMatcher SoleWinner DeliveredOnce
PROPERTIES ProgressByOwner TerminalStays NoTakeover
CHECK_DEADLOCK FALSE
SYMMETRY Interchangeable
