\* A call to an audio model and one that holds nothing, without Redis and
\* batch updates: "roll back" on failure.
CONSTANTS
    c1 = c1
    c2 = c2
    Calls = {c1, c2}
    Setups <- AudioSetups
    Estimates = {1, 3}
    Costs = {0, 2}
    Balance = 5
    Allowance = 4
    Threshold = 1
    Trust = 4
    NoKey = NoKey
    MaxFaults = 0
SPECIFICATION Spec
INVARIANT RollbackRestores
