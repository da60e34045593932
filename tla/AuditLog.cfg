CONSTANTS
    p1 = p1
    p2 = p2
    Contracts = {c1, c2}
    Processes = {p1, p2}
    Fleets <- MCFleets
    MaxLog = 3
    MaxErrors = 1
SPECIFICATION FairSpec
INVARIANTS
    LogIsFaithful
    OneProcessKeepsAnswers
PROPERTIES
    EveryTransactionEnds
CHECK_DEADLOCK FALSE
