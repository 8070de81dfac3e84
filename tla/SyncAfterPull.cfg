SPECIFICATION Spec
CONSTANTS
    p1 = p1
    p2 = p2
    p3 = p3
    a = a
    b = b
    Procs = {p1, p2, p3}
    Command <- Pullers
    Accounts = {a}
    None = None
    MaxWrites = 2
    MaxFaults = 0
INVARIANT AheadIsVisible
