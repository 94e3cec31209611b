SPECIFICATION Spec
CONSTANTS
    Tx = {t1}
    Worker = {w1, w2}
    Nobody = Nobody
    Crashed = Crashed
    NoTask = NoTask
    PaymentReports <- EveryReport
    Replies = {"CREATED", "FAILED"}
    LockOutlivesCall = FALSE
    MaxNews = 3
    MaxCrashes = 1
    MaxFaults = 1
    MaxRetries = 1
SYMMETRY WorkerSymmetry
INVARIANTS IInv AtMostOneOrder OrderHasCommittedRow
PROPERTIES StatusFollowsMatrix NoWayBack ImplementsStarsOrder
CHECK_DEADLOCK FALSE
