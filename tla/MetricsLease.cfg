\* Two workers and an administrator, two buckets that make an hour, two logs
\* of the first and pages of one log; one disturbance.
CONSTANTS
    w1 = w1
    w2 = w2
    a1 = a1
    Workers = {w1, w2}
    Admins = {a1}
    Nobody = Nobody
    Logs = {1, 2}
    BucketOf <- OneBucket
    Last = 2
    Page = 1
    Rollups = {"1h"}
    Size <- Hour
    MaxEvents = 1
SPECIFICATION FairSpec
ACTION_CONSTRAINT FirstWorkerFirst
INVARIANTS CountedOnce RollupsAgree SnapshotIsCurrent
PROPERTIES ImplementsBoard EveryBucketCloses
