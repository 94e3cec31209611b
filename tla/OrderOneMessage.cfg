SPECIFICATION Spec
CONSTANTS
    Payment = {p1, p2}
    NoPayment = NoPayment
    MaxTaps = 2
    MaxFaults = 1
    MaxRestarts = 0
    MaxStrays = 0
PROPERTY MessageKeepsItsOrder
CHECK_DEADLOCK FALSE
