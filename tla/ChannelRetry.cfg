\* Two channels of one priority and one below, a row that changes once, two calls one after the other.
CONSTANTS
    c1 = c1
    c2 = c2
    c3 = c3
    k1 = k1
    k2 = k2
    x = x
    y = y
    Off = Off
    NoKey = NoKey
    Raw = Raw
    NoHome = NoHome
    NoEntry = NoEntry
    r1 = r1
    Channels = {c1, c2, c3}
    Priority <- SmallPriority
    Keys = {k1, k2}
    Providers = {"p", "q"}
    Start <- SmallStart
    Rows <- SmallRows
    Ids = {x, y}
    BoundIds = {x}
    Histories <- SmallHistories
    Loops <- EveryLoop
    Calls = {r1}
    RetryTimes = 2
    MaxCalls = 2
    MaxEdits = 1
    MaxFaults = 1
CONSTRAINT OriginsAreRead
SPECIFICATION Spec
INVARIANTS HistoryStaysHome BindIgnoresOrder AttemptsAreBounded
PROPERTIES StaysInProvider NoEarlyRepeat
CHECK_DEADLOCK FALSE
