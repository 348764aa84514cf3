CONSTANTS
    i1 = i1
    s1 = s1
    s2 = s2
    s3 = s3
    periodic = periodic
    target = target
    detection = detection
    detection2 = detection2
    hook = hook
    NoImage = NoImage
    NoScan = NoScan
    Images <- MCImages
    Scans <- Three
    ManualScans <- Manual
    PeriodicTasks <- None
    TargetTasks <- None
    DetectionTasks <- MCDetection
    Hooks <- None
    MaxAttempts = 2
    MaxPushes = 1
    MaxUpsets = 1
SPECIFICATION Spec
SYMMETRY Symmetry
INVARIANTS
    ChangesAreScanned
CHECK_DEADLOCK FALSE
