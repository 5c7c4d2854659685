SPECIFICATION Spec
CONSTANTS
    Files = {1, 2}
    Targets = {"aac_224"}
    Workers = {w1, w2}
    NoWorker = NoWorker
    NoJob = NoJob
    Content <- MCContent
    MaxAttempts = 1
    Batch = 2
    Refused = {}
    Faults = {"abandon", "garage", "postgres"}
SYMMETRY Replicas
INVARIANTS DuplicateLeavesNothing
PROPERTIES ImplementsLibrary DiscardKeepsACopy
