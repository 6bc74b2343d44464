CONSTANTS
    Writers = {v, w}
    Reports = {r}
    Files <- SomeFiles
    Retentions = {0, 1}
    Second = 2
    Day = 4
    Slack = 1
    CallKinds <- SomeKinds
    Requests <- SomeRequests
    Default = Default
    MaxClock = 2
    MaxCalls = 4
    MaxReplays = 1
    Nothing = Nothing
SPECIFICATION Spec
SYMMETRY Symmetry
INVARIANTS RecentIsKept ExpiredIsGone ReportIsExact
PROPERTIES ReportIsComplete
CHECK_DEADLOCK FALSE
