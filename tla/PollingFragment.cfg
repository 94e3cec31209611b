SPECIFICATION FairPollingSpec
CONSTANTS
    Tx = {t1}
    Worker = {w1, w2}
    Nobody = Nobody
    Crashed = Crashed
    NoTask = NoTask
    NotListed = NotListed
    PaymentReports <- PayPearReports
    Replies = {"CREATED"}
    LockOutlivesCall = TRUE
    MaxNews = 1
    MaxCrashes = 1
    MaxFaults = 1
    MaxRetries = 0
    MaxQueue = 1
    Polls = {"fragment", "command"}
INVARIANTS PollingInv
PROPERTIES ClosedOrderIsNoticed
CHECK_DEADLOCK FALSE
