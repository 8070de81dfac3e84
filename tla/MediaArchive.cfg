SPECIFICATION Spec
CONSTANTS
    p1 = p1
    p2 = p2
    p3 = p3
    p4 = p4
    Messages = {m}
    Attachments = {a1}
    Identifiable = {a1}
    Bytes = {b1, b2}
    Torn = Torn
    None = None
    Procs = {p1, p2, p3, p4}
    Command <- Commands
    MaxWrites = 1
    MaxCrossings = 1
    MaxFaults = 1
SYMMETRY MediaSymmetry
INVARIANTS TypeOK NoTornObjects RowsHaveMedia NothingIsLost BackupsCarryMedia
PROPERTIES CopiesAreKept
