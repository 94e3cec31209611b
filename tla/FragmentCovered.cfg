SPECIFICATION Spec
CONSTANTS
    Order = {o1, o2}
    Wallet = 1
    MaxAttempts = 1
    MaxRuns = 3
    MaxFaults = 0
    Worst = {}
INVARIANT CheckedIsCovered
CHECK_DEADLOCK FALSE
