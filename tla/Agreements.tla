----------------------------- MODULE Agreements -----------------------------
(***************************************************************************)
(* Conditional and multi-party payments over the balances they share.      *)
(*                                                                         *)
(* What one process guarantees and several do not: the expiry passes       *)
(* credit before their guarded updates and keep the credit when these find *)
(* that another transaction has settled the payment.  "overtaken" names    *)
(* the agreements that this has happened to.  The balances are those of    *)
(* the rows for everybody it has not happened to, however many processes   *)
(* run, and no agreement ever ends twice.                                  *)
(***************************************************************************)
EXTENDS ConditionalPayments, MultiPartyPayments

vars == <<deployment, balance, work, overtaken, conditionalVars, multi>>

TypeOK ==
    /\ deployment \in Deployments
    /\ balance \in [Agents -> Nat]
    /\ work \in [Processes -> {Idle} \cup PassJob \cup ExpiryJob]
    /\ overtaken \subseteq Agreements
    /\ ConditionalsType /\ MultisType

Init ==
    /\ deployment \in Deployments
    /\ balance = Funds
    /\ work = [w \in Processes |-> Idle]
    /\ overtaken = {}
    /\ ConditionalsInit /\ MultisInit

\* A deadlock, or the loss of the database, rolls a transaction back
Abort(w) ==
    /\ work[w] # Idle
    /\ Ends(w)
    /\ UNCHANGED <<balance, overtaken, conditionalVars, multi>>

Next ==
    /\ \/ ConditionalsNext /\ UNCHANGED multi
       \/ MultisNext /\ UNCHANGED conditionalVars
       \/ \E w \in fleet : Abort(w)
    /\ UNCHANGED deployment

Spec == Init /\ [][Next]_vars

\* Transactions end.  The loop of the conditional payments runs for ever, in
\* some process, and not every pass of it is rolled back.  Nothing is assumed
\* of the requests.
ElseUnchanged == UNCHANGED <<deployment, multi>>
EndsSome == \E w \in fleet : work[w] # Idle /\ work'[w] = Idle
FairSpec ==
    /\ Spec
    /\ WF_vars(Next /\ EndsSome)
    /\ SF_vars((\E w \in fleet : BeginPass(w)) /\ ElseUnchanged /\ UNCHANGED overtaken)
    /\ SF_vars((\E w \in fleet : FinishPass(w)) /\ ElseUnchanged)

-----------------------------------------------------------------------------

\* What the rows say that an agent should have
Account(a) == Funds[a] + ConditionalsNet(a) + MultisNet(a)

\* Whom the hub may have given money twice: the payers of conditional payments
\* and the senders of multi-party payments that were overtaken, and the senders
\* of expired payments some of whose shares had been returned before
RefundedTwice(a) ==
    \/ \E c \in overtaken \cap Conditionals : Payer[c] = a
    \/ \E m \in Multis : Sender[m] = a /\ (m \in overtaken \/ ReturnsTwice(m))

\* What an agent has is what the rows of all agreements say, whatever requests,
\* passes and rollbacks came in between and however many processes run, except
\* where an expiry gives back what has been given already: nothing else is paid
\* twice, refunded and paid, or kept.  With one process no transaction moves
\* money on a row that has changed since it was read.
AccountsMatchAgreements ==
    /\ Alone => overtaken = {}
    /\ \A a \in Agents : RefundedTwice(a) \/ balance[a] = Account(a)

\* The hub's double payments are at its own expense: no agent ever has less
\* than the rows say.
NobodyComesShort == \A a \in Agents : balance[a] >= Account(a)

EndsStay ==
    /\ \A c \in Conditionals :
        conditional[c].state \notin {"NONE", "PENDING"} => conditional'[c] = conditional[c]
    /\ \A m \in Multis :
        multi[m].state \notin {"NONE", "PENDING"} => multi'[m] = multi[m]

\* No agreement leaves an end it has reached, although overlapping passes and
\* requests decide on rows they read before another one ended it.
EndsAreFinal == [][EndsStay]_vars
=============================================================================
