SPECIFICATION Spec
CONSTANTS
    Accounts = {"alice", "bob"}
    NoOne = NoOne
    MaxSessions = 2
    Faults = {}
    Files = {f1, f2}
    NoFile = NoFile
    NoAnswer = NoAnswer
    Slots = 1
    Fetches = 2
INVARIANTS SignedInWorks
