----------------------- MODULE MCSubscriptionBilling -----------------------
(***************************************************************************)
(* Small instances of SubscriptionBilling: a month of three days with one  *)
(* day of grace, and two paid tiers whose prices are not multiples of the  *)
(* month's length.                                                         *)
(***************************************************************************)
EXTENDS SubscriptionBilling

CONSTANTS alice

MCAgents == {alice}
MCTiers == {"free", "verified", "premium"}
MCPrice == [t \in MCTiers |-> CASE t = "free" -> 0 [] t = "verified" -> 2 [] t = "premium" -> 4]
MCRank == [t \in MCTiers |-> CASE t = "free" -> 0 [] t = "verified" -> 1 [] t = "premium" -> 2]
MCInitialTier == [a \in MCAgents |-> "verified"]
MCInitialBalance == [a \in MCAgents |-> 1]
MCTopUps == {2}
=============================================================================
