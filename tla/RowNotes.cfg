SPECIFICATION Spec
CONSTANTS
    Setter = {s1}
    Noter = {n1, n2}
    Key = {k1, k2}
    None = None
    News = {"PROCESSING"}
    Target = {t1}
    MaxForms = 0
    MaxFaults = 0
INVARIANT NotesAreMerged
CHECK_DEADLOCK FALSE
