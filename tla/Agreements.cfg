\* One process with agreements of both kinds, or two with two of them
SPECIFICATION FairSpec
CONSTANTS
    ann = ann  bob = bob  eve = eve
    p1 = p1  p2 = p2
    onEvent = onEvent  onBalance = onBalance  onHook = onHook
    joint = joint  each = each
    Agents = {ann, bob, eve}
    Processes = {p1, p2}
    Conditionals = {onEvent, onBalance, onHook}
    Multis = {joint, each}
    AllOrNothing = {joint}
    Agreements = {onEvent, onBalance, onHook, joint, each}
    Payer <- MCPayer
    Payee <- MCPayee
    Locked <- MCLocked
    Condition <- MCCondition
    Watched <- MCWatched
    Threshold <- MCThreshold
    Sender <- MCSender
    Share <- MCShare
    Funds <- MCFunds
    Deployments <- MCDeployments
INVARIANTS
    TypeOK
    AccountsMatchAgreements
    NobodyComesShort
PROPERTIES
    EndsAreFinal
    
CHECK_DEADLOCK FALSE
