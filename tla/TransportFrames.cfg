SPECIFICATION FairSpec
CONSTANTS
    Kinds = {"response", "notification", "batch", "garbage"}
    MaxFrames = 3
INVARIANTS FramesInOrder ProgressNotOvertaken
PROPERTIES OneEndOneCause FramesArrive DeathCloses
CHECK_DEADLOCK FALSE
