SPECIFICATION Spec
CONSTANTS
    Task = {t1, t2}
    Free = Free
    Dead = Dead
    News = {"PROCESSING", "CANCELLED"}
    Typed = {}
    MaxForms = 0
    MaxFaults = 0
    MaxDeaths = 0
INVARIANT DuplicateCanLeave
CHECK_DEADLOCK FALSE
