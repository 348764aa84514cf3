CONSTANTS
    s1 = s1
    s2 = s2
    w1 = w1
    w2 = w2
    NoScan = NoScan
    Scans <- MCScans
    Workers <- MCWorkers
    MaxRetries = 2
    MaxErrors = 1
    MaxLostReplies = 0
    MaxStops = 1
SPECIFICATION Spec
SYMMETRY Symmetry
INVARIANTS
    SingleOwner
    CompletedPhaseTruthful
    SingleErrorNeverStrands
    QuiescentTruth
PROPERTIES
    CompletedIsFinal
    PullFailureIsFinal
    ImplementsLifecycle
CHECK_DEADLOCK FALSE
