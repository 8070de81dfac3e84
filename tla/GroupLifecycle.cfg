SPECIFICATION Spec
CONSTANTS
    g = g
    m = m
    Chats = {g}
    Groups = {g}
    Users = {u}
    Msgs = {m}
    ChatOf <- GroupChatOf
    Links = {}
    Payloads = {p1, p2}
    Empty = Empty
    MaxTime = 3
    MaxRevisions = 2
    MaxRestores = 0
INVARIANTS TypeOK NoOrphans LiveIndexed RestoreIsExact ImportIsIdempotent
PROPERTIES NothingLost TombstonesAreSticky DeathHasCause
