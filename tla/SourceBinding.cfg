SPECIFICATION Spec
CONSTANTS
    a = a
    b = b
    legacy = legacy
    in_a = in_a
    out_a = out_a
    in_b = in_b
    Accounts = {a, b}
    LegacyIds = {legacy}
    Leftovers = {a, legacy}
    Person <- Persons
    Messages = {in_a, out_a, in_b}
    Owner <- Owners
    Incoming = {in_a, in_b}
    Stores = {s1, s2}
    Paths = {p1, p2}
    None = None
SYMMETRY BindingSymmetry
INVARIANTS TypeOK MessagesAreOwned NeverLockedOut
