CONSTANTS
    alice = alice
    Agents <- MCAgents
    Workers = {w1, w2}
    Requests = {q1}
    Tiers <- MCTiers
    Price <- MCPrice
    Rank <- MCRank
    DaysInMonth = 3
    GraceDays = 1
    TopUps <- MCTopUps
    MaxBalance = 5
    InitialTier <- MCInitialTier
    InitialBalance <- MCInitialBalance
SPECIFICATION Spec
PROPERTY
    GraceEnds
