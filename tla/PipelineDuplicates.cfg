CONSTANTS
    s1 = s1
    s2 = s2
    w1 = w1
    w2 = w2
    NoScan = NoScan
    Scans <- MCOneScan
    Workers <- MCWorkers
    MaxRetries = 2
    MaxErrors = 1
    MaxLostReplies = 1
    MaxStops = 1
SPECIFICATION FairSpec
INVARIANTS
    TypeOK
    RowConsistent
    CompletedEventTruthful
PROPERTIES
    JobsEnd
    AcceptedScansSettle
CHECK_DEADLOCK FALSE
