SPECIFICATION Spec
CONSTANTS
    Tools = {"read", "write"}
    Identities = {"local", "bot"}
    Paths = {"path", "count"}
    Texts = {"in", "out"}
    AnyCaller = AnyCaller
    MaxMatchInput = 8
    FileRules <- SomeRules
    MaxRules = 3
    Credentials = {"known", "unknown"}
    Calls <- SomeCalls
    Settings <- SomeSettings
    Nobody = Nobody
INVARIANTS MostSpecificWins CallerIsEarned OnlyAdmittedIsSent
CHECK_DEADLOCK FALSE
