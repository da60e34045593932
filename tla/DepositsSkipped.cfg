CONSTANTS
    alice = alice
    bob = bob
    t1 = t1
    t2 = t2
    NoAgent = NoAgent
    Monitors = {m1}
    Agents <- MCAgents
    Transfers <- MCSkippedTransfers
    TxHash <- MCSkippedTxHash
    Owner <- MCSkippedOwner
    Amount <- MCSkippedAmount
    MinConfirmations = 2
    TopHeight = 4
SPECIFICATION FairSpec
PROPERTIES
    EveryDepositIsCredited
CHECK_DEADLOCK FALSE
