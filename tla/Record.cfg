SPECIFICATION RecordSpec
CONSTANTS
    Tx = {t1}
    Worker = {w1, w2}
    Nobody = Nobody
    Dead = Dead
    AnswerComesFirst = FALSE
    InOrder = FALSE
    MaxWebhooks = 2
    MaxPolls = 1
    MaxFaults = 1
    MaxCrashes = 1
INVARIANTS IInv WritersExclude
PROPERTIES KeysAreEmptied InOrderRecordFollows InOrderRecordStays
CHECK_DEADLOCK FALSE
