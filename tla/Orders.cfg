SPECIFICATION OrdersSpec
CONSTANTS
    Task = {1, 2}
    Free = 0
    Dead = 9
    News = {"PROCESSING", "SUCCESS", "CANCELLED"}
    Typed = {"PROCESSING", "FAILED"}
    MaxForms = 1
    MaxFaults = 1
    MaxDeaths = 1
    Payment = {p1, p2}
    NoPayment = NoPayment
    MaxTaps = 2
    MaxMishaps = 2
    MaxRestarts = 1
    MaxStrays = 1
    Order = {1, 2}
    Wallet = 2
    MaxAttempts = 2
    MaxRuns = 2
    MaxBadAnswers = 2
    Worst = {"no connection", "no answer", "busy", "busy for n", "refused", "empty"}
    User = {u1, u2}
    Media = {m1}
    None = None
    MaxSubmits = 2
    MaxMoves = 2
    MaxBreakdowns = 1
INVARIANTS OrdersInv BehindForAReason PaymentsAreKnown OrderedOnce EachUserIsServedOnce
PROPERTIES NoOldNews StepsAreJustified WorkEnds
CHECK_DEADLOCK FALSE
