SPECIFICATION FairSpec
CONSTANTS
    o1 = o1
    o2 = o2
    f1 = f1
    Owners <- MCOwners
    Functions <- MCFunctions
    MaxTime = 2
    MaxReq = 2
    MaxNote = 2
    MaxRevision = 3
INVARIANTS SoleOwner ServedOnce
PROPERTIES NoSendInLockdown RequestsEnd
CHECK_DEADLOCK FALSE
