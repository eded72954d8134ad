CONSTANTS
    Operators = {o1, o2}
    Amounts = {1}
    Spans = {"Day"}
    Currencies = {"BTC"}
    MaxRequests = 1
    MaxIds = 1
    MaxInbox = 2
    MaxSpent = 2
    None = None
SPECIFICATION LimitsSpec
INVARIANT SpendingWithinLimit
CHECK_DEADLOCK FALSE
