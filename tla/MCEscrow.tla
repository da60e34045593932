------------------------------ MODULE MCEscrow ------------------------------
(***************************************************************************)
(* Small instances of Escrow: one buyer, one seller, a bystander who is    *)
(* not active, and the request bodies that exercise every check.           *)
(***************************************************************************)
EXTENDS Escrow, TLC

Interchangeable == Permutations(Workers)

CONSTANTS alice, bob, mallory

MCAgents == {alice, bob, mallory}
MCActive == {alice, bob}

Body(buyer, seller, amount, milestones) ==
    [buyer |-> buyer, seller |-> seller, amount |-> amount, milestones |-> milestones]

\* Two deals at once: one single delivery, one list of two milestones, and
\* bodies that are refused (to oneself, sum mismatch, inactive seller)
MCOffers ==
    {Body(alice, bob, 200, <<>>), Body(alice, bob, 300, <<100, 200>>),
     Body(alice, alice, 200, <<>>), Body(alice, bob, 300, <<100, 100>>),
     Body(alice, mallory, 200, <<>>)}

\* One deal, with up to three milestones, for the runs about time
MCOneOffers ==
    {Body(alice, bob, 200, <<>>), Body(alice, bob, 500, <<200, 100, 200>>)}

MCReleaseAmounts == {0, 100}
MCFunds == [a \in MCAgents |-> IF a = alice THEN 500 ELSE 0]
MCTrust == [a \in MCAgents |-> IF a = alice THEN 100 ELSE 2]
=============================================================================
