CONSTANTS
    s1 = s1
    s2 = s2
    w1 = w1
    w2 = w2
    NoScan = NoScan
    Scans <- MCOneScan
    Workers <- MCWorkers
    MaxRetries = 2
    MaxErrors = 0
    MaxLostReplies = 0
    MaxStops = 1
SPECIFICATION FairSpec
PROPERTIES
    PendingIsPickedUp
CHECK_DEADLOCK FALSE
