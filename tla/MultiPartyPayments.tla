------------------------- MODULE MultiPartyPayments -------------------------
(***************************************************************************)
(* Payments to several recipients                                          *)
(* (sthrip/services/multi_party_service.py with its repository and router).*)
(*                                                                         *)
(* The sender's total is held from the start.  With require_all_accept the *)
(* last acceptance pays everybody and the first rejection returns          *)
(* everything; without it each recipient settles their own share.          *)
(* Accepting and rejecting lock the payment's row; expiry reads the        *)
(* payments and the answers without a lock.                                *)
(***************************************************************************)
EXTENDS Ledger

CONSTANTS
    Multis,
    Sender,
    Share,          \* per payment, the amount of each agent; 0 for the others
    AllOrNothing    \* the payments with require_all_accept

ASSUME MultisAssumption ==
    /\ Multis \subseteq Agreements
    /\ Sender \in [Multis -> Agents]
    /\ Share \in [Multis -> [Agents -> Nat]]
    /\ AllOrNothing \subseteq Multis

VARIABLE multi    \* multi_party_payments, with the answers of its recipients

MultiRow ==
    [state : {"NONE", "PENDING", "COMPLETED", "REJECTED", "EXPIRED"},
     answers : [Agents -> {"none", "accepted", "rejected"}],
     overdue : BOOLEAN]
ExpiryJob ==
    [kind : {"expiry"}, stale : SUBSET Multis,
     answers : [Multis -> [Agents -> {"none", "accepted", "rejected"}]]]

MultisType == multi \in [Multis -> MultiRow]

MultisInit ==
    multi = [m \in Multis |->
                [state |-> "NONE", answers |-> [a \in Agents |-> "none"], overdue |-> FALSE]]

Recipients(m) == {a \in Agents : Share[m][a] > 0}
TotalOf(m) == SumFunctionOnSet(Share[m], Recipients(m))
Waiting(m) == multi[m].state = "PENDING"

\* Mutant: an answer may be given again
MayAnswerAgain(m, r) == r \in Recipients(m)

\* accept_recipient and reject_recipient update rows without an answer only
MayAnswer(m, r) == r \in Recipients(m) /\ multi[m].answers[r] = "none"

Answered(m, r, answer) == [multi[m].answers EXCEPT ![r] = answer]

Saves(m, answers, state) ==
    multi' = [multi EXCEPT ![m].answers = answers, ![m].state = state]

\* A payment without require_all_accept completes with the last answer
OnceAnswered(m, answers) ==
    IF \A r \in Recipients(m) : answers[r] # "none" THEN "COMPLETED" ELSE "PENDING"

-----------------------------------------------------------------------------

\* accept_deadline is reached.  Only expiry looks at it.
MultiOverdue(m) ==
    /\ Waiting(m) /\ ~multi[m].overdue
    /\ multi' = [multi EXCEPT ![m].overdue = TRUE]
    /\ UNCHANGED <<balance, work>>

CreateMulti(w, m) ==
    /\ Serves(w)
    /\ m \in deployment.agreements
    /\ multi[m].state = "NONE"
    /\ Deduct(Sender[m], TotalOf(m))
    /\ multi' = [multi EXCEPT ![m].state = "PENDING"]

AcceptTogether(w, m, r) ==
    /\ Serves(w)
    /\ m \in AllOrNothing /\ Waiting(m) /\ MayAnswer(m, r)
    /\ LET answers == Answered(m, r, "accepted")
       IN  \/ /\ \A s \in Recipients(m) : answers[s] = "accepted"
              /\ CreditAll(Share[m])
              /\ Saves(m, answers, "COMPLETED")
           \/ /\ \E s \in Recipients(m) : answers[s] # "accepted"
              /\ Saves(m, answers, "PENDING")
              /\ UNCHANGED balance

AcceptShare(w, m, r) ==
    /\ Serves(w)
    /\ m \notin AllOrNothing /\ Waiting(m) /\ MayAnswer(m, r)
    /\ Credit(r, Share[m][r])
    /\ LET answers == Answered(m, r, "accepted")
       IN  Saves(m, answers, OnceAnswered(m, answers))

RejectTogether(w, m, r) ==
    /\ Serves(w)
    /\ m \in AllOrNothing /\ Waiting(m) /\ MayAnswer(m, r)
    /\ Credit(Sender[m], TotalOf(m))
    /\ Saves(m, Answered(m, r, "rejected"), "REJECTED")

RejectShare(w, m, r) ==
    /\ Serves(w)
    /\ m \notin AllOrNothing /\ Waiting(m) /\ MayAnswer(m, r)
    /\ Credit(Sender[m], Share[m][r])
    /\ LET answers == Answered(m, r, "rejected")
       IN  Saves(m, answers, OnceAnswered(m, answers))

-----------------------------------------------------------------------------
(* expire_stale.  No loop of the program calls it yet. *)

BeginMultiExpiry(w) ==
    /\ LET stale == {m \in Multis : Waiting(m) /\ multi[m].overdue}
       IN  /\ stale # {}
           /\ Starts(w, [kind |-> "expiry", stale |-> stale,
                         answers |-> [m \in Multis |-> multi[m].answers]])
    /\ UNCHANGED <<balance, multi>>

\* The whole total, or every share that was not accepted as the answers were
\* read: a share that was rejected has been returned already, and is again.
ReturnedBy(m, answers) ==
    IF m \in AllOrNothing
    THEN TotalOf(m)
    ELSE SumFunctionOnSet(Share[m], {r \in Recipients(m) : answers[r] # "accepted"})

FinishMultiExpiry(w) ==
    /\ work[w].kind = "expiry"
    /\ CreditAll([a \in Agents |->
           SumFunction([m \in {m \in work[w].stale : Sender[m] = a} |->
                            ReturnedBy(m, work[w].answers[m])])])
    /\ multi' = [m \in Multis |->
           IF m \in work[w].stale /\ Waiting(m)
           THEN [multi[m] EXCEPT !.state = "EXPIRED"]
           ELSE multi[m]]
    /\ Overtakes({m \in work[w].stale :
           \/ ~Waiting(m)
           \/ ReturnedBy(m, work[w].answers[m]) # ReturnedBy(m, multi[m].answers)})
    /\ Ends(w)

MultisNext ==
    \/ \E w \in fleet : FinishMultiExpiry(w)
    \/ /\ \/ \E m \in Multis : MultiOverdue(m)
          \/ \E w \in fleet : BeginMultiExpiry(w)
          \/ \E w \in fleet, m \in Multis :
              \/ CreateMulti(w, m)
              \/ \E r \in Agents :
                  \/ AcceptTogether(w, m, r) \/ AcceptShare(w, m, r)
                  \/ RejectTogether(w, m, r) \/ RejectShare(w, m, r)
       /\ UNCHANGED overtaken

-----------------------------------------------------------------------------
(* What the payments say about the money *)

SharesWith(m, answer) ==
    SumFunctionOnSet(Share[m], {r \in Recipients(m) : multi[m].answers[r] = answer})

\* What the row says the recipients hold
PaidTo(m, a) ==
    IF /\ multi[m].answers[a] = "accepted"
       /\ m \in AllOrNothing => multi[m].state = "COMPLETED"
    THEN Share[m][a] ELSE 0

\* What the row says the sender is out of: the total, less what was returned
SpentOn(m) ==
    IF multi[m].state = "NONE" THEN 0
    ELSE IF m \in AllOrNothing
    THEN IF multi[m].state \in {"REJECTED", "EXPIRED"} THEN 0 ELSE TotalOf(m)
    ELSE SharesWith(m, "accepted")
       + (IF multi[m].state = "EXPIRED" THEN 0 ELSE SharesWith(m, "none"))

\* Expiry has returned shares that their rejection had returned already
ReturnsTwice(m) ==
    /\ m \notin AllOrNothing /\ multi[m].state = "EXPIRED"
    /\ \E r \in Recipients(m) : multi[m].answers[r] = "rejected"

MultisNet(a) ==
    SumFunction([m \in Multis |-> PaidTo(m, a)])
  - SumFunction([m \in {m \in Multis : Sender[m] = a} |-> SpentOn(m)])
=============================================================================
