CONSTANTS
    i1 = i1
    s1 = s1
    s2 = s2
    s3 = s3
    periodic = periodic
    target = target
    detection = detection
    detection2 = detection2
    hook = hook
    NoImage = NoImage
    NoScan = NoScan
    Images <- MCImages
    Scans <- Two
    ManualScans <- None
    PeriodicTasks <- MCPeriodic
    TargetTasks <- None
    DetectionTasks <- None
    Hooks <- None
    MaxAttempts = 1
    MaxPushes = 0
    MaxUpsets = 1
SPECIFICATION FairSpec
PROPERTIES
    StaleImagesAreRescanned
CHECK_DEADLOCK FALSE
