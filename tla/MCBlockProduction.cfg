CONSTANTS
    A = A
    B = B
    C = C
    V = V
    K = K
    NoAddr = NoAddr
    BadSender = BadSender
    Accounts <- MCAccounts
    Self = C
    Validators <- MCValidators
    Txs <- MCTxs
    InitState <- MCInitState
    NoAddress = NoAddr
    InvalidSender = BadSender
    CreateAddress <- MCCreateAddress
    TxGas = 2
    TxGasContractCreation = 3
    TxDataNonZeroGas = 4
    TxDataZeroGas = 1
    MaxUint64 = 15
    BlockGasLimit = 5
    EpochLength = 4
    MaxHeight = 3
SPECIFICATION Spec
INVARIANTS
    TypeOK
    BlocksAccepted
    SupplyConserved
    NonceCountsIncluded
    IncludedAtMostOnce
