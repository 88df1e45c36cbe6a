SPECIFICATION PoolSpec
CONSTANTS
    Workers = {w1, w2}
    NoWorker = NoWorker
    Errors = {"e1", "e2"}
    Plan <- TwoRetriers
    Width = 16
    LeaseTime = 1
    EmptyId = EmptyId
    LastInstant = 20
    MaxTime = 20
    MaxGrants = 4
    MaxFaults = 1
INVARIANTS LeaseIsLastGrant LeasesDoNotOverlap RetriesWithinBudget ClaimsAreAccountedFor
PROPERTIES RefinesLease StaleReportNeedsReuse TaskSettles
CHECK_DEADLOCK FALSE
