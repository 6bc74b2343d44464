CONSTANTS
    Lines <- SomeLines
    Files <- SomeFiles
    Calls <- SomeCalls
    Ids = {"r1"}
    Chars <- SomeChars
    Numbers <- SomeNumbers
    Pairs <- SomePairs
    Urls = {"http://a", "http://b"}
    Dates = {"2026-01-01"}
    JsonTexts = {"{}"}
    AmqpUrls = {"amqp://broker", "amqp://localhost"}
    SafeRegexes = {"^a"}
    Durations <- SomeDurations
    Inside <- SomeInside
    MaxDepth = 6
    Nothing = Nothing
SPECIFICATION Spec
INVARIANTS ServerAsTyped OnlySecretsAreRedacted ReplayIsComplete SettingsByPrecedence NoSettingIsDropped BadInputTouchesNothing
CHECK_DEADLOCK FALSE
