CONSTANTS
    alice = alice
    bob = bob
    mallory = mallory
    Agents <- MCAgents
    Active <- MCActive
    Deals = {d1}
    Workers = {w1, w2}
    MaxMilestones = 3
    Offers <- MCOffers
    ReleaseAmounts <- MCReleaseAmounts
    Funds <- MCFunds
    InitialTrust <- MCTrust
    Terms <- MCTerms
    Requests = {wanted}
SPECIFICATION FairOrdersSpec
INVARIANTS
    EveryOrderIsHeld
PROPERTIES
    SettlesOnce
    EveryDealSettles
    ContractsEndOnce
    OverdueContractsEnd
CHECK_DEADLOCK FALSE
