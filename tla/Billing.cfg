CONSTANTS
    alice = alice
    Agents <- MCAgents
    Workers = {w1}
    Requests = {q1}
    Tiers <- MCTiers
    Price <- MCPrice
    Rank <- MCRank
    DaysInMonth = 3
    GraceDays = 1
    TopUps <- MCTopUps
    MaxBalance = 5
    InitialTier <- MCInitialTier
    InitialBalance <- MCInitialBalance
SPECIFICATION FairSpec
INVARIANTS
    TypeOK
    OneMonthlyCharge
PROPERTIES
    GraceKeepsTier
    ArrearsAreCollected
