CONSTANTS
    Operators = {o1, o2, o3}
    Amounts = {1, 2}
    Spans = {"Day"}
    Currencies = {"BTC", "ERC20"}
    MaxRequests = 2
    MaxIds = 3
    MaxInbox = 2
    MaxSpent = 1
    None = None
SPECIFICATION LimitsSpec
SYMMETRY Symmetry
INVARIANTS VotesAreCounted ChangeHasCurrency DecisionsAreForThisRequest
PROPERTY LimitTakesTwo
CHECK_DEADLOCK FALSE
