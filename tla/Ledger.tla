------------------------------- MODULE Ledger -------------------------------
(***************************************************************************)
(* What the agreements between agents share: the balances they take money  *)
(* from and pay it back to (sthrip/db/balance_repo.py), and the API        *)
(* processes that work on them.                                            *)
(*                                                                         *)
(* The endpoints and loops concerned are coroutines that never await       *)
(* inside a transaction: one process works on one transaction at a time,   *)
(* and only the transactions of different processes interleave.  A         *)
(* transaction that decides on rows it has read without a lock appears in  *)
(* two steps, its reading and its committing; in between it is its         *)
(* process's work.  The others lock the row first and are one step.        *)
(***************************************************************************)
EXTENDS Integers, FiniteSets, Functions

CONSTANTS
    Agents,
    Funds,         \* what each agent starts with
    Processes,
    Agreements,    \* conditional and multi-party payments
    Deployments    \* the processes that may run, and the agreements they see

ASSUME LedgerAssumption ==
    /\ IsFiniteSet(Agents) /\ IsFiniteSet(Agreements)
    /\ Funds \in [Agents -> Nat]
    /\ Deployments \subseteq [fleet : SUBSET Processes, agreements : SUBSET Agreements]

VARIABLES
    deployment,    \* the one of this behaviour
    balance,       \* agent_balances.available
    work,          \* per process: the transaction between its two steps, or Idle
    overtaken      \* history: the agreements for which a transaction has moved
                   \* money on a row that another one had changed since it was read

fleet == deployment.fleet
Idle == [kind |-> "idle"]

Free(w) == w \in fleet /\ work[w] = Idle
Starts(w, job) == Free(w) /\ work' = [work EXCEPT ![w] = job]
Ends(w) == work' = [work EXCEPT ![w] = Idle]

Overtakes(late) == overtaken' = overtaken \cup late

\* A transaction that is one step
Serves(w) == Free(w) /\ UNCHANGED work

\* One process sees its own writes only
Alone == \A v, w \in fleet : v = w

\* Mutant: the balance is not looked at
AffordsAnything(a, amount) == a \in Agents

\* BalanceRepository.deduct, under the balance's row lock
Affords(a, amount) == balance[a] >= amount

Deduct(a, amount) ==
    /\ Affords(a, amount)
    /\ balance' = [balance EXCEPT ![a] = @ - amount]

Credit(a, amount) == balance' = [balance EXCEPT ![a] = @ + amount]

\* Every agent gets what "due" says
CreditAll(due) == balance' = [a \in Agents |-> balance[a] + due[a]]
=============================================================================
