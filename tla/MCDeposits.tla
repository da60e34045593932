----------------------------- MODULE MCDeposits -----------------------------
(***************************************************************************)
(* Small instances of Deposits: a transaction that pays two agents, and    *)
(* one that pays an address of nobody's and an agent.                      *)
(***************************************************************************)
EXTENDS Deposits

CONSTANTS alice, bob, t1, t2

MCAgents == {alice, bob}
MCTransfers == 1..4
MCTxHash == <<t1, t1, t2, t2>>
MCOwner == <<alice, bob, NoAgent, alice>>
MCAmount == <<1, 2, 1, 4>>

\* One deposit that waits for its confirmations, and a later transfer
MCSkippedTransfers == 1..2
MCSkippedTxHash == <<t1, t2>>
MCSkippedOwner == <<alice, bob>>
MCSkippedAmount == <<1, 2>>
=============================================================================
