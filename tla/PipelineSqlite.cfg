CONSTANTS
    Calls = {a, b}
    Profiles <- Mixed
    MaxAttempts = 3
    Links = {"stdio"}
    Provider = "sqlite"
    Faults = FALSE
SPECIFICATION Spec
SYMMETRY Symmetry
INVARIANTS CaptureBeforeError SendsAreBounded ExitCodeHonest InFlightErrorsFlush
PROPERTIES LinkAndSignalAreObeyed
CHECK_DEADLOCK FALSE
