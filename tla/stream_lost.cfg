SPECIFICATION Spec
CONSTANTS
    Outcomes <- AllOutcomes
    MaxAttempts = 3
    MaxCommands = 3
    MaxRestarts = 1
INVARIANT NoCommandSkipped
CHECK_DEADLOCK FALSE
