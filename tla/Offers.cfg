CONSTANTS
    o1 = o1
    o2 = o2
    c1 = c1
    c2 = c2
    p1 = p1
    p2 = p2
    Order = {o1, o2}
    Courier = {c1, c2}
    Call = {p1, p2}
    Customer <- MCCustomer
    MaxActive = 2
    SameCustomer = TRUE
    WhilePickup = TRUE
    WhileDelivery = FALSE
SPECIFICATION Spec
SYMMETRY Symmetry
INVARIANTS OneOpenOffer BatchPolicy SuspendedIdle QueuedIsFree
PROPERTY CustodyStays
CHECK_DEADLOCK FALSE
