SPECIFICATION Spec
CONSTANTS
    Steps <- RunSteps
    Histories <- RunHistories
    LeaseTime = 1
    MaxTime = 1
    MaxCrashes = 0
    MaxQueued = 1
    MaxFaults = 0
INVARIANT ScanIsBoundToKind
CHECK_DEADLOCK FALSE
