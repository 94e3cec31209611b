SPECIFICATION Spec
CONSTANTS
    User = {u1}
    Media = {m1}
    None = None
    MaxSubmits = 2
    MaxMoves = 0
    MaxFaults = 1
PROPERTY AcceptedReachesTheBot
CHECK_DEADLOCK FALSE
