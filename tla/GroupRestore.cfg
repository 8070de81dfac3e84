SPECIFICATION Spec
CONSTANTS
    g = g
    m = m
    Chats = {g}
    Groups = {g}
    Users = {}
    Msgs = {m}
    ChatOf <- GroupChatOf
    Links = {}
    Payloads = {p1}
    Empty = Empty
    MaxTime = 2
    MaxRevisions = 1
    MaxRestores = 1
PROPERTY PullRestoresBackup
