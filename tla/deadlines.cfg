SPECIFICATION Spec
CONSTANTS
    Owners = {"o1", "o2"}
    Settings <- SomeSettings
    MaxWaitSeconds = 1
    MaxTime = 1
    MaxQueued = 2
    MaxRestarts = 1
INVARIANT FiresOnceWhenDue
PROPERTY DeadlineActs
CHECK_DEADLOCK FALSE
