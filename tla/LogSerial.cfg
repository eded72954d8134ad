CONSTANTS
    RequestIds = {w1}
    Operators = {o1, o2, o3, o4}
    Kinds = {"OverLimit"}
    Currencies = {"BTC"}
    MaxUpdates = 5
    MaxClock = 6
    MaxInFlight = 1
    Ties = FALSE
    NoRequest = NoRequest
    Abort = Abort
SPECIFICATION LogSpec
INVARIANTS TallyIsNetVote DecidedByQuorum DecidedAtThreshold ReplayRestores
PROPERTY ImplementsVoting
CHECK_DEADLOCK FALSE
