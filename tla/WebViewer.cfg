SPECIFICATION FairSpec
CONSTANTS
    pn = pn
    lid = lid
    m1 = m1
    m2 = m2
    m3 = m3
    undated = undated
    Chats = {pn, lid}
    Alias <- Aliases
    Messages = {m1, m2, m3, undated}
    Chat <- ChatOf
    Sent <- SentAt
    Pk <- PkOf
    Archives <- SomeArchives
    FetchLimit = 1
    None = None
    MaxViews = 3
    MaxImports = 1
    MaxFaults = 1
INVARIANTS TypeOK ShowsAnInterval NothingIsLeftOut
PROPERTY EverythingIsReached
