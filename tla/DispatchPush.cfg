CONSTANTS
    i1 = i1
    s1 = s1
    s2 = s2
    s3 = s3
    periodic = periodic
    target = target
    detection = detection
    detection2 = detection2
    hook = hook
    NoImage = NoImage
    NoScan = NoScan
    Images <- MCImages
    Scans <- Three
    ManualScans <- Manual
    PeriodicTasks <- None
    TargetTasks <- None
    DetectionTasks <- None
    Hooks <- MCHooks
    MaxAttempts = 1
    MaxPushes = 2
    MaxUpsets = 0
SPECIFICATION FairSpec
PROPERTIES
    PushIsScanned
CHECK_DEADLOCK FALSE
