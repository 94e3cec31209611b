SPECIFICATION BotSpec
CONSTANTS
    User = {u1, u2}
    Order = {o1, o2}
    NoOrder = NoOrder
    Free = Free
    AccountLimit = 1
    GlobalLimit = 1
    Deactivates = TRUE
    MaxFaults = 1
    MaxLate = 1
    Quantity = {50, 1000}
    Friend = {friend}
    Self = Self
    MaxMessages = 3
    MaxFailures = 1
    MaxMoves = 1
SYMMETRY UserAndOrderSymmetry
INVARIANTS BotInv HoldersWithinLimit UsedCodeGaveDiscount UndisturbedLimitKept
INVARIANTS NoDeadEnd
PROPERTIES WhatIsShownIsOrdered LinkStays
CHECK_DEADLOCK FALSE
