SPECIFICATION FairSpec
CONSTANTS
    Targets = {"aac_224"}
    Workers = {w1}
    NoTier = NoTier
    NotListed = NotListed
    NoAnswer = NoAnswer
    MaxAttempts = 1
    Backlog = 1
    Faults = {}
PROPERTIES RefreshHeals
