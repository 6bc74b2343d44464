CONSTANTS
    NumRecords = 2
    k1 = k1
    h1 = h1
    h2 = h2
    Keys = {k1}
    NoKey = NoKey
    Hashes = {h1, h2}
    NoHash = NoHash
    ArgKey <- SameKey
    MetaKey <- NoKeys
    HashOf <- DistinctHashes
    Lease = 3
    DedupWindow = 2
    MaxClock = 5
    Replayers = {a, b}
    Commands <- JustRun
    Marked = {}
    Limit = 2
    ConnectBound = 1
    Timeout <- ShortTimeout
    Slack = 1
SPECIFICATION Spec
SYMMETRY Symmetry
PROPERTIES CallsAreGuarded
CHECK_DEADLOCK FALSE
