\* A BFL task and a Replicate task, two goroutines, a crash or a database fault.
CONSTANTS
    b1 = b1
    r1 = r1
    w1 = w1
    w2 = w2
    Tasks = {b1, r1}
    Replicate = {r1}
    NoTask = NoTask
    Workers = {w1, w2}
    Quotas = {0, 2}
    Price = 3
    QuerySlots = 1
    MaxJobs = 2
    MaxFaults = 1
SPECIFICATION FairSpec
ACTION_CONSTRAINT FirstWorkerFirst
INVARIANTS ChargedAsRecorded
PROPERTIES ResultsAreFinal ImplementsBilling SubmittedEnds
