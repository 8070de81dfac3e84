SPECIFICATION FairSpec
CONSTANTS
    p1 = p1
    p2 = p2
    p3 = p3
    a = a
    b = b
    Procs = {p1, p2, p3}
    Command <- Restorers
    Accounts = {a, b}
    None = None
    MaxWrites = 2
    MaxFaults = 1
INVARIANTS TypeOK AheadIsVisible
PROPERTY EventuallyCurrent
