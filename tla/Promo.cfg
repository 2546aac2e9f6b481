CONSTANTS
    m = m
    z = z
    k1 = k1
    d1 = d1
    a1 = a1
    a2 = a2
    o1 = o1
    o2 = o2
    Campaign = {m, z}
    Order = {o1, o2}
    Key = {k1}
    DirectKey = {d1}
    Attempt = {a1, a2}
    Customer <- MCCustomer
    Codes <- MCCodes
    Discount <- MCDiscount
    Budget <- MCBudget
    UserLimit = 1
SPECIFICATION Spec
SYMMETRY Symmetry
INVARIANTS CountersReconcile LedgerAgrees PromosFollowOrder SpentForPaidOrder
PROPERTY NeverOverspends
CHECK_DEADLOCK FALSE
