\* Two calls of different kinds, one small and one large estimate, with Redis,
\* with batch updates, with an unlimited token and with none of these; one
\* fault or crash.
CONSTANTS
    c1 = c1
    c2 = c2
    Calls = {c1, c2}
    Setups <- SmallSetups
    Estimates = {1, 3}
    Costs = {0, 2}
    Balance = 5
    Allowance = 4
    Threshold = 1
    Trust = 4
    NoKey = NoKey
    MaxFaults = 1
SPECIFICATION FairSpec
INVARIANTS Balanced ChargedExactly
PROPERTIES RowsSettle
