SPECIFICATION AppSpec
CONSTANTS
    Accounts = {"alice", "bob"}
    NoOne = NoOne
    MaxSessions = 2
    Faults = {"loss"}
    Files = {f1, f2}
    NoFile = NoFile
    NoAnswer = NoAnswer
    Slots = 1
    Fetches = 1
    Tracks = {t1, t2}
    NoTrack = NoTrack
    MinStep <- MCMinStep
    MaxStep <- MCMaxStep
    NoSpeed = NoSpeed
    Typed <- MCTyped
INVARIANTS AppTypeOK ShownIsOwn ServedAsShown LinkKeepsItsWord SaysWhy
PROPERTIES PoolDrains
