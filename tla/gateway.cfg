SPECIFICATION FairSpec
CONSTANTS
    Callers = {"c1", "c2", "c3"}
    Inputs <- ThreeCalls
    Flows = {"f"}
    Executions = {"x"}
    Tasks = {"t1", "t2"}
    Workers = {"w1", "w2", ""}
    EmptyId = ""
    MaxLapses = 1
    CanHalt = TRUE
    CanMisread = FALSE
INVARIANTS NoAckMissed OneCreator AnswerIsVisible GrantsAreAccountedFor
PROPERTIES EveryCallReturns
CHECK_DEADLOCK FALSE
