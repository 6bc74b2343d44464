CONSTANTS
    NumRecords = 2
    k1 = k1
    h1 = h1
    h2 = h2
    Keys = {k1}
    NoKey = NoKey
    Hashes = {h1, h2}
    NoHash = NoHash
    ArgKey <- SameKey
    MetaKey <- NoKeys
    HashOf <- DistinctHashes
    Lease = 1
    DedupWindow = 2
    MaxClock = 2
    Replayers = {a, b}
    Commands <- AllCommands
    Marked = {2}
    Limit = 2
    ConnectBound = 0
    Timeout <- LongTimeout
    Slack = 0
SPECIFICATION FairSpec
INVARIANTS ReportIsTrue OneAuditPerReplay
PROPERTIES DedupHonoured EveryRunEnds
CHECK_DEADLOCK FALSE
