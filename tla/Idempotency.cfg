SPECIFICATION FairSpec
CONSTANTS
    Requests = {"r1", "r2", "other"}
    Nobody = "nobody"
    Hashes = {"a", "b"}
    Hash <- HashMixed
    LockTTL = 1
    RecordTTL = 3
    BeginTime = 1
    Life = 2
    MaxTime = 8
    Faults = {"store", "crash", "disconnect"}
INVARIANTS HoldersExclusive ReplaySameBody
PROPERTY EventuallyForgotten
CHECK_DEADLOCK FALSE
