CONSTANTS
    Calls = {a}
    Profiles <- AllProfiles
    MaxAttempts = 2
    Links = {"stdio", "http"}
    Provider = "rabbitmq"
    Faults = TRUE
SPECIFICATION ResponsiveBrokerSpec
INVARIANTS DatabasesAgree OneEventPerCall
PROPERTIES CallsAreAnswered EveryCallEnds SessionCloses
CHECK_DEADLOCK FALSE
