CONSTANTS
    d1 = d1
    d2 = d2
    o1 = o1
    NoMsg = NoMsg
    NoTx = NoTx
    Deposits <- MCDeposits
    OtherTxs <- MCOtherTxs
    MaxHead = 2
    MaxCrashes = 2
    FetchOutcomes = {TRUE, FALSE}

SPECIFICATION Spec
CHECK_DEADLOCK FALSE

INVARIANT BalanceNotAboveDeposits
