------------------------ MODULE ConditionalPayments ------------------------
(***************************************************************************)
(* Conditional payments                                                    *)
(* (sthrip/services/conditional_payment_service.py with its repository,    *)
(* router and the loop of api/main_v2.py).                                 *)
(*                                                                         *)
(* The sender's money is held from the start.  A pass of the loop executes *)
(* the payments whose condition is met and gives the stale ones back, all  *)
(* in one transaction that reads its two lists without locks.  Triggering  *)
(* and cancelling lock the row first.  The lease of the loop fails open,   *)
(* so passes of two processes may overlap.  PENDING -> TRIGGERED ->        *)
(* EXECUTED happens inside one transaction: TRIGGERED is never seen.       *)
(***************************************************************************)
EXTENDS Ledger

CONSTANTS
    Conditionals,
    Payer, Payee, Locked,   \* from_agent_id, to_agent_id, locked_amount
    Condition,              \* time_lock and escrow_completed are an "event"
    Watched, Threshold      \* of a balance_threshold condition

ASSUME ConditionalsAssumption ==
    /\ Conditionals \subseteq Agreements
    /\ Payer \in [Conditionals -> Agents]
    /\ Payee \in [Conditionals -> Agents]
    /\ Locked \in [Conditionals -> Nat \ {0}]
    /\ Condition \in [Conditionals -> {"event", "balance_threshold", "webhook"}]
    /\ Watched \in [Conditionals -> Agents]
    /\ Threshold \in [Conditionals -> Nat]

VARIABLES
    conditional,   \* conditional_payments
    occurred       \* the payments whose event has taken place

conditionalVars == <<conditional, occurred>>

ConditionalRow ==
    [state : {"NONE", "PENDING", "EXECUTED", "EXPIRED", "CANCELLED"}, overdue : BOOLEAN]
PassJob == [kind : {"pass"}, met : SUBSET Conditionals, stale : SUBSET Conditionals]

ConditionalsType ==
    /\ conditional \in [Conditionals -> ConditionalRow]
    /\ occurred \subseteq Conditionals

ConditionalsInit ==
    /\ conditional = [c \in Conditionals |-> [state |-> "NONE", overdue |-> FALSE]]
    /\ occurred = {}

Pending(c) == conditional[c].state = "PENDING"
Moves(c, state) == conditional' = [conditional EXCEPT ![c].state = state]

-----------------------------------------------------------------------------
(* The world *)

\* expires_at is reached
ConditionalOverdue(c) ==
    /\ Pending(c) /\ ~conditional[c].overdue
    /\ conditional' = [conditional EXCEPT ![c].overdue = TRUE]
    /\ UNCHANGED <<balance, work, occurred>>

\* The release time comes, or the escrow deal reaches the required status
Occurs(c) ==
    /\ Condition[c] = "event" /\ c \notin occurred
    /\ conditional[c].state # "NONE"
    /\ occurred' = occurred \cup {c}
    /\ UNCHANGED <<balance, work, conditional>>

-----------------------------------------------------------------------------
(* Requests *)

CreateConditional(w, c) ==
    /\ Serves(w)
    /\ c \in deployment.agreements
    /\ conditional[c].state = "NONE"
    /\ Deduct(Payer[c], Locked[c])
    /\ Moves(c, "PENDING")
    /\ UNCHANGED occurred

\* POST .../trigger by the sender: any condition type, expired or not
TriggerConditional(w, c) ==
    /\ Serves(w)
    /\ Pending(c)
    /\ Credit(Payee[c], Locked[c])
    /\ Moves(c, "EXECUTED")
    /\ UNCHANGED occurred

CancelConditional(w, c) ==
    /\ Serves(w)
    /\ Pending(c)
    /\ Credit(Payer[c], Locked[c])
    /\ Moves(c, "CANCELLED")
    /\ UNCHANGED occurred

-----------------------------------------------------------------------------
(* The loop *)

BalanceBelow(c) == Condition[c] = "balance_threshold" /\ balance[Watched[c]] < Threshold[c]

\* A threshold is compared after the payments the pass has executed before it:
\* one that is not met was lifted by them.
LiftedBy(c, met) ==
    balance[Watched[c]]
        + SumFunctionOnSet(Locked, {d \in met : Payee[d] = Watched[c]}) >= Threshold[c]

MetSets ==
    LET sure == {c \in Conditionals : Pending(c) /\ c \in occurred}
        below == {c \in Conditionals : Pending(c) /\ BalanceBelow(c)}
    IN  {sure \cup more : more \in
            {T \in SUBSET below : \A c \in below \ T : LiftedBy(c, sure \cup T)}}


\* get_pending_expired, after the payments in "met" were executed
Stale(met) == {c \in Conditionals \ met : Pending(c) /\ conditional[c].overdue}

\* The reads of evaluate_conditions and expire_stale
BeginPass(w) ==
    /\ \E met \in MetSets :
        /\ met \cup Stale(met) # {}
        /\ Starts(w, [kind |-> "pass", met |-> met, stale |-> Stale(met)])
    /\ UNCHANGED <<balance, conditionalVars>>

\* Mutant: the status is not looked at when the condition is met
ExecutesAnyway(met) == met

\* The guarded update PENDING -> TRIGGERED
Executes(met) == {c \in met : Pending(c)}

\* Mutant: the test of the update's row count is inverted
RefundsNone(stale) == {c \in stale : ~Pending(c)}

\* expire_stale credits the payer first; the credit stays when the guarded
\* update PENDING -> EXPIRED then finds another state
Refunds(stale) == stale

\* The writes, which commit together
FinishPass(w) ==
    /\ work[w].kind = "pass"
    /\ LET executed == Executes(work[w].met)
           refunded == Refunds(work[w].stale)
           expired == {c \in work[w].stale : Pending(c)}
       IN  /\ CreditAll([a \in Agents |->
                  SumFunctionOnSet(Locked, {c \in executed : Payee[c] = a})
                + SumFunctionOnSet(Locked, {c \in refunded : Payer[c] = a})])
           /\ conditional' = [c \in Conditionals |->
                  CASE c \in executed -> [conditional[c] EXCEPT !.state = "EXECUTED"]
                    [] c \in expired  -> [conditional[c] EXCEPT !.state = "EXPIRED"]
                    [] OTHER -> conditional[c]]
           /\ Overtakes(refunded \ expired)
    /\ Ends(w)
    /\ UNCHANGED occurred

ConditionalsNext ==
    \/ \E w \in fleet : FinishPass(w)
    \/ /\ \/ \E c \in Conditionals : ConditionalOverdue(c) \/ Occurs(c)
          \/ \E w \in fleet : BeginPass(w)
          \/ \E w \in fleet, c \in Conditionals :
              CreateConditional(w, c) \/ TriggerConditional(w, c) \/ CancelConditional(w, c)
       /\ UNCHANGED overtaken

-----------------------------------------------------------------------------
(* What the payments say about the money *)

\* What the rows say an agent has got, less what it has given
ConditionalsNet(a) ==
    SumFunctionOnSet(Locked,
        {c \in Conditionals : Payee[c] = a /\ conditional[c].state = "EXECUTED"})
  - SumFunctionOnSet(Locked,
        {c \in Conditionals : Payer[c] = a /\ conditional[c].state \in {"PENDING", "EXECUTED"}})

=============================================================================
