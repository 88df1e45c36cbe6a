SPECIFICATION Spec
CONSTANTS
    Steps <- RunSteps
    Histories <- RunHistories
    LeaseTime = 1
    MaxTime = 1
    MaxCrashes = 2
    MaxQueued = 1
    MaxFaults = 0
INVARIANTS NamesAreFresh ReadsAgree
PROPERTIES StoreIsFold MemoryRefines RocksRefines
CHECK_DEADLOCK FALSE
