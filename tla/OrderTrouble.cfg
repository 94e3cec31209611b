SPECIFICATION Spec
CONSTANTS
    Payment = {p1}
    NoPayment = NoPayment
    MaxTaps = 1
    MaxFaults = 1
    MaxRestarts = 0
    MaxStrays = 0
PROPERTY GatewayTroubleIsTold
CHECK_DEADLOCK FALSE
