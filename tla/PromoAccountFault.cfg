SPECIFICATION Spec
CONSTANTS
    User = {u1}
    Order = {o1, o2}
    NoOrder = NoOrder
    Free = Free
    AccountLimit = 1
    GlobalLimit = 2
    Deactivates = FALSE
    MaxFaults = 1
    MaxLate = 0
INVARIANT AccountLimitKept
CHECK_DEADLOCK FALSE
