SPECIFICATION VideoSpec
ACTION_CONSTRAINT FirstHandlerFirst
CONSTANTS
    h1 = h1
    h2 = h2
    None = None
    TaskIds <- MCTaskIds
    Asked <- MCAsked
    Handlers <- MCHandlers
    Hold = 2
    Cost = 1
    DefaultImageQuota = 3
    PageSize = 1
    MaxMishaps = 1
    MaxErrors = 1
INVARIANTS SettledExactly OneSettler
PROPERTY FinishedIsSettled
CHECK_DEADLOCK FALSE
