SPECIFICATION BacklogSpec
CONSTANTS
    Files = {1, 2}
    Targets = {"aac_224"}
    Workers = {w1, w2}
    NoWorker = NoWorker
    NoJob = NoJob
    Content <- MCContent
    MaxAttempts = 2
    Batch = 2
    Refused = {1}
    Faults = {"abandon", "crash", "garage", "postgres", "stall"}
PROPERTIES DeleteConverges ClaimResolvesBelowCap LateDeleteLeavesNoSource
