SPECIFICATION Spec
CONSTANTS
    User = {u1}
    Media = {m1, m2}
    None = None
    MaxSubmits = 2
    MaxMoves = 0
    MaxFaults = 0
INVARIANT PreviewIsOfTheMedia
CHECK_DEADLOCK FALSE
