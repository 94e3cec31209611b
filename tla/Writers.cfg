SPECIFICATION WritersSpec
CONSTANTS
    Setter = {s1, s2}
    Noter = {n1, n2}
    Key = {k1, k2}
    None = None
    News = {"PENDING", "PROCESSING", "SENDING"}
    Target = {t1, t2}
    MaxForms = 1
    MaxFaults = 1
    Typed = t1
    Tx = {x1}
    Request = {r1, r2}
    MaxDeliveries = 3
    MaxTasks = 2
    MaxBreaks = 2
SYMMETRY Symmetry
INVARIANTS WritersInv NotesAreLostInOverlapOnly
INVARIANTS KeyedNewsActsOnce AcceptedNewsIsQueued StatusHasItsTask KeysTellTheSame
PROPERTIES OnlyFormsTakeBack
CHECK_DEADLOCK FALSE
