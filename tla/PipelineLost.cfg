CONSTANTS
    Calls = {a, b}
    Profiles <- JustIdempotent
    MaxAttempts = 2
    Links = {"stdio"}
    Provider = "sqlite"
    Faults = FALSE
SPECIFICATION Spec
SYMMETRY Symmetry
INVARIANTS FailureIsCaptured
CHECK_DEADLOCK FALSE
