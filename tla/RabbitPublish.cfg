SPECIFICATION FairSpec
CONSTANTS
    Captures = {c1, c2}
    Nobody = Nobody
INVARIANTS NoSilentLoss ConnectionIsNotForgotten
PROPERTIES LiveChannelIsKept EnqueueEnds
CHECK_DEADLOCK FALSE
