SPECIFICATION Spec
CONSTANTS
    Files = {1}
    Targets = {"aac_224"}
    Workers = {w1}
    NoWorker = NoWorker
    NoJob = NoJob
    Content <- MCContent
    MaxAttempts = 1
    Batch = 1
    Refused = {}
    Faults = {}
INVARIANTS DeletedLeavesNoSource
