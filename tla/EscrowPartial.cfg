CONSTANTS
    alice = alice
    bob = bob
    mallory = mallory
    Agents <- MCAgents
    Active <- MCActive
    Deals = {d1}
    Workers = {w1, w2}
    MaxMilestones = 3
    Offers <- MCOneOffers
    ReleaseAmounts <- MCReleaseAmounts
    Funds <- MCFunds
    InitialTrust <- MCTrust
SPECIFICATION Spec
INVARIANT
    PartialCompletionPaysOut
