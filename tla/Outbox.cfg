CONSTANTS
    e1 = e1
    e2 = e2
    w1 = w1
    w2 = w2
    Event = {e1, e2}
    Process = {w1, w2}
    MaxFaults = 1
SPECIFICATION FairSpec
INVARIANTS SentOnceUndisturbed OnItsWay
PROPERTIES EveryRowEnds ClientsAreTold
CHECK_DEADLOCK FALSE
