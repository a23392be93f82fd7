\* Two calls on two tokens of one user, each possibly retried, a top-up, and a
\* crash or a database fault.
CONSTANTS
    c1 = c1
    c2 = c2
    c3 = c3
    t1 = t1
    t2 = t2
    Calls = {c1, c2}
    Tokens = {t1, t2}
    TokenOf <- TwoTokens
    Reservations = {0, 2}
    Costs = {0, 1, 3}
    InitQuota = 3
    InitRemain = 2
    EditRemain = {0, 2}
    TopUps = {1}
    Returns = {}
    MaxTopUps = 1
    MaxEdits = 0
    MaxFaults = 1
    RetryTimes = 1
SPECIFICATION FairSpec
INVARIANTS NoOverdraft TablesAgree
PROPERTIES ImplementsLedger ReservationsEnd
