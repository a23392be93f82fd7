\* Two calls on one token while its owner edits or deletes it, or another
\* call's quota comes back to it, twice in all.
CONSTANTS
    c1 = c1
    c2 = c2
    c3 = c3
    t1 = t1
    t2 = t2
    Calls = {c1, c2}
    Tokens = {t1}
    TokenOf <- OneToken
    Reservations = {2}
    Costs = {0, 3}
    InitQuota = 4
    InitRemain = 2
    EditRemain = {0, 2}
    TopUps = {1}
    Returns = {2}
    MaxTopUps = 0
    MaxEdits = 2
    MaxFaults = 0
    RetryTimes = 0
SPECIFICATION Spec
ACTION_CONSTRAINT FirstCallFirst
INVARIANTS TokenNoOverdraft UsageExplained
PROPERTIES OnlyOwnerStrands OnlyOwnerRevives 
