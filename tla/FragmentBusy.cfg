SPECIFICATION Spec
CONSTANTS
    Order = {o1, o2}
    Wallet = 1
    MaxAttempts = 1
    MaxRuns = 3
    MaxFaults = 1
    Worst = {"busy", "busy for n"}
PROPERTY BusyIsRetried
CHECK_DEADLOCK FALSE
