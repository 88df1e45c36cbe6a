SPECIFICATION FairSpec
CONSTANTS
    Outcomes <- AllOutcomes
    MaxAttempts = 3
    MaxCommands = 3
    MaxRestarts = 2
INVARIANTS ProjectionIsPrefix NoneSkippedAboveWatermark AnsweredAtMostOnce HookReportsOwnBatch
PROPERTIES RefinesProjection EveryCommandAnswered EveryOutcomeReported
CHECK_DEADLOCK FALSE
