CONSTANTS
    alice = alice
    bob = bob
    mallory = mallory
    Agents <- MCAgents
    Active <- MCActive
    Deals = {d1, d2}
    Workers = {w1}
    MaxMilestones = 2
    Offers <- MCOffers
    ReleaseAmounts <- MCReleaseAmounts
    Funds <- MCFunds
    InitialTrust <- MCTrust
SPECIFICATION Spec
INVARIANTS
    TypeOK
    Custody
    MilestonesInOrder
    TotalsMatchMilestones
PROPERTIES
    PaidForDelivery
    ImplementsContract
