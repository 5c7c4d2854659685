SPECIFICATION FairSpec
CONSTANTS
    Targets = {"aac_224"}
    Workers = {w1, w2}
    NoTier = NoTier
    NotListed = NotListed
    NoAnswer = NoAnswer
    MaxAttempts = 2
    Backlog = 2
    Faults = {"crash", "drop", "redis"}
INVARIANTS FailedIsTrue
PROPERTIES SelfHeals EndIsFinal
