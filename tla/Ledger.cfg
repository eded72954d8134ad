CONSTANTS
    UserTxs = {t1}
    ExchangeTxs = {x1}
    OrderIds = {e1, e2}
    RequestIds = {w1}
    Tokens = {"USDT"}
    Supported = {"BTC", "USDT"}
    Amounts = {1, 2}
    Fees = {0}
    Scenarios <- OneEvent
    None = None
SPECIFICATION LedgerSpec
SYMMETRY Symmetry
INVARIANTS RunningBalance ExchangeConserves OrdersAreCovered
CHECK_DEADLOCK FALSE
