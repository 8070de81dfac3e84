SPECIFICATION FairSpec
CONSTANTS
    rows = rows
    media = media
    Shards = {rows, media}
    Exports <- Snapshots
    Plain = Plain
    Tags = {v1}
    None = None
    Concurrent = FALSE
    MaxPending = 2
    MaxCommits = 3
    MaxOthers = 1
    MaxHand = 1
    MaxFaults = 1
INVARIANTS
    TypeOK
    OwnCommitsVerify
    StaleAreRemoved
    TagsNameSnapshots
PROPERTIES
    PublishesSoundly
    EventuallyPublished
