\* One key, one model, two processes: outages, tests, batch changes, edits, the task
\* that follows the upstream, deletions.  Nothing here reads the cache.
CONSTANTS
    p1 = p1
    p2 = p2
    j1 = j1
    j2 = j2
    j3 = j3
    j4 = j4
    m1 = m1
    m2 = m2
    Models = {m1}
    Procs = {p1, p2}
    Jobs = {j1, j2, j3}
    ProcOf <- Spread
    NoJob = NoJob
    NoRow = NoRow
    KeyCount = 1
    MultiKey = FALSE
    Kinds = {"call", "test", "batch", "edit", "upstream", "apply", "delete"}
    InitList <- AllOn
    InitStatus = "enabled"
    BatchStatuses = {"enabled", "manual"}
    Scope = {"enabled", "manual", "auto"}
    CacheOn = FALSE
    MaxFaults = 1
SPECIFICATION FairSpec
ACTION_CONSTRAINT FirstJobFirst
INVARIANTS AbilitiesAgree
PROPERTIES AlertPerOutage HandlersEnd
CHECK_DEADLOCK FALSE
