SPECIFICATION Spec
CONSTANTS
    Tx = {t1}
    Worker = {w1, w2}
    Nobody = Nobody
    Dead = Dead
    AnswerComesFirst = FALSE
    InOrder = TRUE
    MaxWebhooks = 2
    MaxPolls = 0
    MaxFaults = 0
    MaxCrashes = 0
PROPERTIES AnswerGoesLast
CHECK_DEADLOCK FALSE
