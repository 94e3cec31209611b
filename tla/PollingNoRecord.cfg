SPECIFICATION PollingSpec
CONSTANTS
    Tx = {t1}
    Worker = {w1}
    Nobody = Nobody
    Crashed = Crashed
    NoTask = NoTask
    NotListed = NotListed
    PaymentReports <- PayPearReports
    Replies = {"CREATED"}
    LockOutlivesCall = TRUE
    MaxNews = 1
    MaxCrashes = 0
    MaxFaults = 0
    MaxRetries = 0
    MaxQueue = 1
    Polls = {"fragment"}
INVARIANTS NoRecordNoOrder
CHECK_DEADLOCK FALSE
