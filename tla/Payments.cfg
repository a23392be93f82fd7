SPECIFICATION Spec
CONSTANTS
    h1 = h1
    h2 = h2
    o1 = o1
    o2 = o2
    buyer = buyer
    inviter = inviter
    None = None
    Orders <- MCOrders
    KindsOf <- MCKindsOf
    Handlers <- MCHandlers
    Users <- MCUsers
    Buyer = buyer
    Inviter = inviter
    ProcOf <- MCProcOf
    Amount = 2
    Commissions = {0, 1}
    Thresholds <- MCThresholds
    MaxFaults = 1
    MaxCopies = 1
    MaxSpends = 1
INVARIANTS CreditedOnce BooksBalance CommissionFollowsPayment AnsweredIsHandled
CHECK_DEADLOCK FALSE
