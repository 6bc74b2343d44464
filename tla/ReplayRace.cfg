CONSTANTS
    NumRecords = 2
    k1 = k1
    h1 = h1
    h2 = h2
    Keys = {}
    NoKey = NoKey
    Hashes = {h1, h2}
    NoHash = NoHash
    ArgKey <- NoKeys
    MetaKey <- NoKeys
    HashOf <- DistinctHashes
    Lease = 3
    DedupWindow = 2
    MaxClock = 5
    Replayers = {a, b}
    Commands <- SingleOrBatch
    Marked = {}
    Limit = 2
    ConnectBound = 1
    Timeout <- ShortTimeout
    Slack = 1
SPECIFICATION Spec
SYMMETRY Symmetry
INVARIANTS OneHolder AtMostOnceUnlessCrash OutcomeIsKept
PROPERTIES ImplementsRedrive
CHECK_DEADLOCK FALSE
