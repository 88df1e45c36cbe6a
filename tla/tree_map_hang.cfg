SPECIFICATION FairSpec
CONSTANTS
    Machine <- ThreeByTwo
    StartAt = "M"
    HasTimeout = FALSE
    DebugAssertions = TRUE
    Reports = {"CompleteTask"}
    MaxCancels = 0
    MaxDup = 1
PROPERTIES RunSettles
CHECK_DEADLOCK FALSE
