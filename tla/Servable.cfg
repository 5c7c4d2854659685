SPECIFICATION DownloadSpec
CONSTANTS
    Files = {1}
    Targets = {"aac_224"}
    Workers = {w1, w2, w3}
    NoWorker = NoWorker
    NoJob = NoJob
    Content <- MCContent
    MaxAttempts = 3
    Batch = 1
    Refused = {}
    Faults = {"abandon", "crash", "garage", "postgres", "stall"}
SYMMETRY Replicas
INVARIANTS TypeOK LiveServable LiveQueueConsistent OfferHolds CreatedMeansPublished RunsNumbered
PROPERTIES StatusOnlyAdvances FreedStaysFree
