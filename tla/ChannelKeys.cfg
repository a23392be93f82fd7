\* Two keys: failing and succeeding calls, tests, toggles, purges, deletions, the
\* periodic load of the cache, a fault.
CONSTANTS
    p1 = p1
    p2 = p2
    j1 = j1
    j2 = j2
    j3 = j3
    j4 = j4
    m1 = m1
    m2 = m2
    Models = {m1}
    Procs = {p1}
    Jobs = {j1, j2, j3}
    ProcOf <- OneProc
    NoJob = NoJob
    NoRow = NoRow
    KeyCount = 2
    MultiKey = TRUE
    Kinds = {"call", "use", "test", "toggle", "purge", "sync", "delete"}
    InitList <- AllOn
    InitStatus = "enabled"
    BatchStatuses = {"manual"}
    Scope = {"auto"}
    CacheOn = TRUE
    MaxFaults = 1
SPECIFICATION Spec
INVARIANTS ErrorsStick
PROPERTIES LastKeyTakesChannel
CHECK_DEADLOCK FALSE
