CONSTANTS
    RequestIds = {w1, w2}
    Operators = {o1, o2}
    Kinds = {"UnderLimit", "OverLimit"}
    Currencies = {"BTC", "ETH"}
    Scenarios <- EachSideAndAll
    NoRequest = NoRequest
    Idle = Idle
SPECIFICATION FairPayoutSpec
INVARIANTS PaidOnlyIfApproved RejectedIsUnpaid ConfirmedIsUnsent
PROPERTIES SettlementIsFinal KeepsPromise EverySettled
CHECK_DEADLOCK FALSE
