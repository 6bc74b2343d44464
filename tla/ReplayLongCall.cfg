CONSTANTS
    NumRecords = 1
    k1 = k1
    h1 = h1
    h2 = h2
    Keys = {}
    NoKey = NoKey
    Hashes = {h1, h2}
    NoHash = NoHash
    ArgKey <- NoKeys
    MetaKey <- NoKeys
    HashOf <- DistinctHashes
    Lease = 1
    DedupWindow = 2
    MaxClock = 4
    Replayers = {a, b}
    Commands <- SingleOrBatch
    Marked = {}
    Limit = 2
    ConnectBound = 0
    Timeout <- LongTimeout
    Slack = 1
SPECIFICATION Spec
SYMMETRY Symmetry
INVARIANTS AtMostOnceUnlessCrash
CHECK_DEADLOCK FALSE
