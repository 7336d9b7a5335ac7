\* A query listened to again before the server has answered the end of its first listen.
SPECIFICATION Spec
CONSTANTS
    Docs = {w1}
    MaxReads = 2
    MaxWrites = 0
    MaxFaults = 0
INVARIANT SyncIsOfThisListen
CHECK_DEADLOCK FALSE
