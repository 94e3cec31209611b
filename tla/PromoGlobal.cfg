SPECIFICATION Spec
CONSTANTS
    User = {u1, u2}
    Order = {o1, o2}
    NoOrder = NoOrder
    Free = Free
    AccountLimit = 1
    GlobalLimit = 1
    Deactivates = FALSE
    MaxFaults = 0
    MaxLate = 0
INVARIANT GlobalLimitKept
CHECK_DEADLOCK FALSE
