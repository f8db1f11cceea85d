SPECIFICATION FairSpec
CONSTANTS
    Events = {1, 2, 3, 4}
    Kind <- Kinds4
    Order <- Orders4
    Dispatchers = {"d1", "d2"}
    Limit = 1
    MaxFailures = 2
    MaxFaults = 1
INVARIANTS PublishedHandled HandledBound OnceUnderLock RebateCompensated
PROPERTY EventuallyPublished
