SPECIFICATION Spec
CONSTANTS
    Cancels = {c1}
    Faults = {"stop"}
INVARIANT HistoryRecovers
CHECK_DEADLOCK FALSE
