CONSTANTS
    UserTxs = {t1}
    ExchangeTxs = {}
    OrderIds = {}
    RequestIds = {w1, w2}
    Tokens = {"USDT"}
    Supported = {"BTC", "USDT"}
    Amounts = {1, 2}
    Fees = {0}
    Scenarios <- Quiet
    None = None
SYMMETRY Symmetry
SPECIFICATION LedgerSpec
INVARIANT NoOverdraft
CHECK_DEADLOCK FALSE
