\* Pages of two findings, a subscription that holds one event, two attempts.
CONSTANTS
    s1 = s1
    s2 = s2
    i1 = i1
    i2 = i2
    c1 = c1
    c2 = c2
    p1 = p1
    p2 = p2
    Any = Any
    Scans = {s1, s2}
    Images = {i1, i2}
    ImageOf <- MCImageOf
    Vulns <- MCVulns
    Rules <- MCRules
    Exploited <- MCExploited
    FailOn = 4
    PerPage = 2
    Attempts = 2
    Buffer = 1
    Scenes <- MCScenes
SPECIFICATION Spec
INVARIANTS
    TypeOK
    ListedIsFlagged
    GateMissesNothing
    GateIgnoresSuppressed
PROPERTIES
    EnrichedInTheEnd
    GateEnds
CHECK_DEADLOCK FALSE
