CONSTANTS
    r1 = r1
    r2 = r2
    r3 = r3
    withdrawKey = withdrawKey
    payKey = payKey
    w1 = w1
    w2 = w2
    None = None
    Requests <- MCRequests
    Keys = {withdrawKey, payKey}
    WithdrawKeys = {withdrawKey}
    Workers = {w1, w2}
    Plans <- TriplePlan
    Start = 4
    Attempts = 1
    MaxCrashes = 1
SPECIFICATION Spec
INVARIANT
    KeyChargedOnce
CHECK_DEADLOCK FALSE
