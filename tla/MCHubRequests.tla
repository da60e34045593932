---------------------------- MODULE MCHubRequests ----------------------------
(***************************************************************************)
(* Small instances of HubRequests: three requests with two keys, on one or *)
(* two workers, and a balance that covers some of what they ask for.       *)
(***************************************************************************)
EXTENDS HubRequests, TLC

CONSTANTS r1, r2, r3, withdrawKey, payKey, w1, w2

MCRequests == {r1, r2, r3}

Ask(k, n, w) == [key |-> k, amount |-> n, worker |-> w]

Requested(first, second, third) == (r1 :> first) @@ (r2 :> second) @@ (r3 :> third)

\* Withdrawals with one key: a retry, and a retry with another body
Retries == Requested(Ask(withdrawKey, 2, w1), Ask(withdrawKey, 2, w2), Ask(withdrawKey, 3, w2))

\* A withdrawal next to a payment and its retry
Mixed == Requested(Ask(withdrawKey, 2, w1), Ask(payKey, 3, w2), Ask(payKey, 3, w1))

\* One payment, asked for three times
Repeated == Requested(Ask(payKey, 2, w1), Ask(payKey, 2, w2), Ask(payKey, 2, w2))

\* One worker process, as railway.toml deploys
Single == Requested(Ask(withdrawKey, 2, w1), Ask(withdrawKey, 2, w1), Ask(payKey, 3, w1))

\* One withdrawal, asked for three times
Triple == Requested(Ask(withdrawKey, 2, w1), Ask(withdrawKey, 2, w2), Ask(withdrawKey, 2, w2))

AllPlans == {Retries, Mixed, Repeated, Single}
MixedPlan == {Mixed}
TriplePlan == {Triple}
SinglePlan == {Single}
=============================================================================
