SPECIFICATION Spec
CONSTANTS
    s1 = s1
    s2 = s2
    r1 = r1
    r2 = r2
    lid = lid
    pn = pn
    part = part
    Stores = {s1, s2}
    Rows = {r1, r2}
    Cores = {lid, pn, part}
    Complete = {lid, pn}
    PN <- Numbers
    Worlds <- SomeWorlds
    None = None
    MaxEvents = 2
SYMMETRY SourceSymmetry
INVARIANTS TypeOK OneRowPerEvent SameMessage ImportsAreAccepted ReloginKeepsEvents AdoptionKeepsEvents
