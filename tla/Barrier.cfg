SPECIFICATION Spec
CONSTANTS
    Files = {1}
    Targets = {"aac_64", "aac_224"}
    Workers = {w1, w2}
    NoWorker = NoWorker
    NoJob = NoJob
    Content <- MCContent
    MaxAttempts = 2
    Batch = 1
    Refused = {}
    Faults = {"abandon", "crash", "garage", "postgres"}
SYMMETRY Replicas
INVARIANTS BarrierHolds DeletedLeavesNoDerivative PendingIsClaimable
