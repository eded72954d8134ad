CONSTANTS
    RequestIds = {w1}
    Operators = {o1, o2, o3}
    Kinds = {"OverLimit"}
    Currencies = {"BTC"}
    MaxUpdates = 4
    MaxClock = 4
    MaxInFlight = 2
    Ties = FALSE
    NoRequest = NoRequest
    Abort = Abort
SYMMETRY Symmetry
SPECIFICATION LogSpec
INVARIANT Restartable
CHECK_DEADLOCK FALSE
