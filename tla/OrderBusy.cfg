SPECIFICATION Spec
CONSTANTS
    Payment = {p1}
    NoPayment = NoPayment
    MaxTaps = 2
    MaxFaults = 1
    MaxRestarts = 0
    MaxStrays = 1
PROPERTY BusyMeansCreating
CHECK_DEADLOCK FALSE
