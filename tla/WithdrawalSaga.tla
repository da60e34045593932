--------------------------- MODULE WithdrawalSaga ---------------------------
(***************************************************************************)
(* What a withdrawal promises, whatever becomes of the request that asked  *)
(* for it: its amount is debited and journaled at one moment, money leaves *)
(* the wallet only for a journaled withdrawal, and the journal entry is    *)
(* closed once, as completed only against a transfer of that amount.       *)
(***************************************************************************)
EXTENDS Integers

CONSTANT Requests

VARIABLES
    amount,     \* what each request asks for
    journal,    \* pending_withdrawals.status of each request
    transfers   \* how often the wallet paid each request

vars == <<amount, journal, transfers>>

Init ==
    /\ amount \in [Requests -> Nat]
    /\ journal = [r \in Requests |-> "none"]
    /\ transfers = [r \in Requests |-> 0]

Debit(r) ==
    /\ journal[r] = "none"
    /\ journal' = [journal EXCEPT ![r] = "pending"]
    /\ UNCHANGED <<amount, transfers>>

Transfer(r) ==
    /\ journal[r] # "none"
    /\ transfers' = [transfers EXCEPT ![r] = @ + 1]
    /\ UNCHANGED <<amount, journal>>

Completable(r) == \E q \in Requests : transfers[q] > 0 /\ amount[q] = amount[r]

\* One entry by its request, or several at once by a recovery pass
Close(R) ==
    /\ \A r \in R : journal[r] = "pending"
    /\ \E outcome \in [R -> {"completed", "needs_review"}] :
          /\ \A r \in R : outcome[r] = "completed" => Completable(r)
          /\ journal' = [r \in Requests |-> IF r \in R THEN outcome[r] ELSE journal[r]]
    /\ UNCHANGED <<amount, transfers>>

Next ==
    \/ \E r \in Requests : Debit(r) \/ Transfer(r)
    \/ \E R \in SUBSET Requests : Close(R)

Spec == Init /\ [][Next]_vars

=============================================================================
