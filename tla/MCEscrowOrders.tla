--------------------------- MODULE MCEscrowOrders ---------------------------
(* MCEscrow's parties with one service on offer and one match request *)
EXTENDS EscrowOrders

CONSTANTS alice, bob, mallory

MCAgents == {alice, bob, mallory}
MCActive == {alice, bob}

Body(buyer, seller, amount, milestones) ==
    [buyer |-> buyer, seller |-> seller, amount |-> amount, milestones |-> milestones]

\* A single delivery, or a list of three milestones
MCOffers ==
    {Body(alice, bob, 200, <<>>), Body(alice, bob, 500, <<200, 100, 200>>)}

MCTerms == {Body(alice, bob, 200, <<>>)}

MCReleaseAmounts == {0, 100}
MCFunds == [a \in MCAgents |-> IF a = alice THEN 500 ELSE 0]
MCTrust == [a \in MCAgents |-> IF a = alice THEN 100 ELSE 2]
=============================================================================
