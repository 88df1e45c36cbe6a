SPECIFICATION FairSpec
CONSTANTS
    Outcomes <- SomeOutcomes
    MaxLog = 9
    MaxUnsent = 2
    MaxRestarts = 2
INVARIANT StreamHasNoGap
PROPERTIES RefinesProjection Converges
CHECK_DEADLOCK FALSE
