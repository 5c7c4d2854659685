SPECIFICATION FairSpec
CONSTANTS
    Capacity = 1
    MaxLines = 3
    MaxErrors = 2
    Length = 2
    NoPercent = NoPercent
    NoTime = NoTime
    NoDuration = NoDuration
    Faults = {"kill", "pipe", "redis"}
INVARIANTS TypeOK WholeStory NoStrayEncoder NobodyStuck
PROPERTIES TranscodeEnds LeftShrinks
