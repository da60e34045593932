CONSTANTS
    alice = alice
    bob = bob
    t1 = t1
    t2 = t2
    NoAgent = NoAgent
    Monitors = {m1, m2}
    Agents <- MCAgents
    Transfers <- MCTransfers
    TxHash <- MCTxHash
    Owner <- MCOwner
    Amount <- MCAmount
    MinConfirmations = 2
    TopHeight = 3
SPECIFICATION FairSpec
INVARIANTS
    TypeOK
    LedgerMatchesRows
    FirstTransfersAreRecorded
PROPERTIES
    LatestDepositIsCredited
CHECK_DEADLOCK FALSE
