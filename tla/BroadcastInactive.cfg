SPECIFICATION Spec
CONSTANTS
    User = {u1}
    Media = {m1}
    None = None
    MaxSubmits = 2
    MaxMoves = 2
    MaxFaults = 0
INVARIANT InactiveIsUnreachable
CHECK_DEADLOCK FALSE
