---------------------------- MODULE MCAgreements ----------------------------
(* Three agents, three conditional payments and two multi-party ones *)
EXTENDS Agreements, TLC

CONSTANTS ann, bob, eve, p1, p2, onEvent, onBalance, onHook, joint, each

MCFunds == [a \in Agents |-> 3]

MCPayer == (onEvent :> ann) @@ (onBalance :> bob) @@ (onHook :> ann)
MCPayee == (onEvent :> bob) @@ (onBalance :> ann) @@ (onHook :> eve)
MCLocked == (onEvent :> 2) @@ (onBalance :> 1) @@ (onHook :> 1)
MCCondition == (onEvent :> "event") @@ (onBalance :> "balance_threshold") @@ (onHook :> "webhook")
MCWatched == (onEvent :> ann) @@ (onBalance :> bob) @@ (onHook :> ann)
MCThreshold == (onEvent :> 0) @@ (onBalance :> 3) @@ (onHook :> 0)

MCSender == (joint :> ann) @@ (each :> bob)
MCShare == (joint :> ((ann :> 0) @@ (bob :> 1) @@ (eve :> 1)))
        @@ (each :> ((ann :> 2) @@ (bob :> 0) @@ (eve :> 1)))

\* One process with agreements of both kinds; two with two agreements
MCDeployments ==
    LET runs(processes, agreements) == [fleet |-> processes, agreements |-> agreements]
    IN  { runs({p1}, {onEvent, onBalance, onHook}),
          runs({p1}, {onEvent, joint, each}), runs({p1}, {onBalance, joint, each}),
          runs({p1, p2}, {onEvent, onBalance}),
          runs({p1, p2}, {onHook, joint}), runs({p1, p2}, {onHook, each}),
          runs({p1, p2}, {joint, each}) }
=============================================================================
