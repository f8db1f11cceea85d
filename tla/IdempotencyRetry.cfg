\* A client that leaves before Complete and retries after the lock.
SPECIFICATION Spec
CONSTANTS
    Requests = {"r1", "r2"}
    Nobody = "nobody"
    Hashes = {"a", "b"}
    Hash <- HashMixed
    LockTTL = 1
    RecordTTL = 4
    BeginTime = 1
    Life = 1
    MaxTime = 7
    Faults = {"disconnect"}
INVARIANT NeverReexecutes
CHECK_DEADLOCK FALSE
