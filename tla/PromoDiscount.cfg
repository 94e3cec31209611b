SPECIFICATION Spec
CONSTANTS
    User = {u1}
    Order = {o1}
    NoOrder = NoOrder
    Free = Free
    AccountLimit = 1
    GlobalLimit = 1
    Deactivates = TRUE
    MaxFaults = 0
    MaxLate = 0
INVARIANT DiscountIsAccounted
CHECK_DEADLOCK FALSE
