SPECIFICATION Spec
CONSTANTS
    Machine <- Every
    StartAt = "A"
    HasTimeout = TRUE
    DebugAssertions = TRUE
    Reports = {"CompleteTask", "FailTask"}
    MaxCancels = 1
    MaxDup = 1
INVARIANTS PanicsOnlyUnvalidated EdgesAreLiveNodes RunSettlesWhole FanOutIsWhole CancelledOnlyByClient
PROPERTIES VerdictIsFinal
CHECK_DEADLOCK FALSE
