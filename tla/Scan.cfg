CONSTANTS
    Txs = {t1}
    MaxBlocks = 3
    MaxPending = 4
    Scenarios <- MCScenarios
SPECIFICATION FairScanSpec
INVARIANTS SeesTheChain NothingIsMissed NothingTooEarly
PROPERTIES ConfirmationsOnlyGrow DepositArrives
CHECK_DEADLOCK FALSE
