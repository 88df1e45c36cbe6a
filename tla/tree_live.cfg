SPECIFICATION FairSpec
CONSTANTS
    Machine <- EveryByOne
    StartAt = "A"
    HasTimeout = FALSE
    DebugAssertions = TRUE
    Reports = {"CompleteTask", "FailTask"}
    MaxCancels = 1
    MaxDup = 1
PROPERTIES TeardownFinishes RunSettles
CHECK_DEADLOCK FALSE
