SPECIFICATION Spec
CONSTANTS
    pn = pn
    lid = lid
    other = other
    m = m
    Chats = {pn, lid}
    Groups = {}
    Users = {}
    Msgs = {m}
    ChatOf <- AliasChatOf
    Links <- AliasLinks
    Payloads = {p1}
    Empty = Empty
    MaxTime = 2
    MaxRevisions = 1
    MaxRestores = 0
PROPERTY NewLifecycleIsLive
