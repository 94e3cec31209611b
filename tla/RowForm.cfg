SPECIFICATION Spec
CONSTANTS
    Setter = {s1, s2, s3}
    Noter = {n1}
    Key = {k1}
    None = None
    News = {"PROCESSING", "SENDING"}
    Target = {t1, t2}
    MaxForms = 1
    MaxFaults = 0
INVARIANT SendsOnce
CHECK_DEADLOCK FALSE
