-------------------------- MODULE AgreementsProofs --------------------------
(***************************************************************************)
(* Proofs about Agreements for any agents, amounts, agreements, processes  *)
(* and deployments.                                                        *)
(*                                                                         *)
(* First the rows and the transactions that decide on them, then the money:*)
(* what the rows say that each agent has got and given is the "account" of *)
(* each kind, and every step changes an agent's part of one account by     *)
(* what it moves in the agent's balance, or, where a transaction was       *)
(* overtaken, by less than that.                                           *)
(***************************************************************************)
EXTENDS Agreements, SumsProofs, TLAPS

Job == {Idle} \cup PassJob \cup ExpiryJob

\* The part of the type invariant that does not depend on sums, and nothing
\* runs outside the deployment's processes
RowsTypeOK ==
    /\ deployment \in Deployments
    /\ work \in [Processes -> Job]
    /\ \A w \in Processes \ fleet : work[w] = Idle
    /\ overtaken \subseteq Agreements
    /\ ConditionalsType /\ MultisType

(***************************************************************************)
(* The transactions under way                                              *)
(***************************************************************************)

\* What a process works on is told apart by its kind.
LEMMA Jobs ==
    ASSUME NEW job \in Job
    PROVE  /\ job.kind = "pass" => job \in PassJob
           /\ job.kind = "expiry" => job \in ExpiryJob
           /\ job = Idle <=> job.kind = "idle"
<1>1. CASE job = Idle
  BY <1>1 DEF Idle
<1>2. CASE job \in PassJob
  BY <1>2 DEF PassJob, Idle
<1>3. CASE job \in ExpiryJob
  BY <1>3 DEF ExpiryJob, Idle
<1>. QED
  BY <1>1, <1>2, <1>3 DEF Job

\* What the steps do to "work"
LEMMA WorkSteps ==
    ASSUME RowsTypeOK, UNCHANGED deployment, NEW w
    PROVE  /\ w \in fleet => w \in Processes
           /\ Serves(w) => work' = work
           /\ \A job \in Job : Starts(w, job) =>
                /\ work' \in [Processes -> Job] /\ work'[w] = job
                /\ \A v \in Processes \ fleet : work'[v] = Idle
           /\ w \in fleet /\ Ends(w) =>
                /\ work' \in [Processes -> Job] /\ work'[w] = Idle
                /\ \A v \in Processes \ fleet : work'[v] = Idle
<1>1. w \in fleet => w \in Processes
  BY LedgerAssumption DEF RowsTypeOK, fleet
<1>2. Idle \in Job
  BY DEF Job
<1>. QED
  BY <1>1, <1>2 DEF Serves, Starts, Ends, Free, RowsTypeOK

\* A process of the fleet is idle or has one of the jobs.
LEMMA AtWork ==
    ASSUME RowsTypeOK, NEW w \in fleet
    PROVE  w \in Processes /\ work[w] \in Job
  BY LedgerAssumption DEF RowsTypeOK, fleet

\* The jobs that the readings of a transaction start
LEMMA JobTypes ==
    ASSUME RowsTypeOK
    PROVE  /\ \A met \in MetSets :
                [kind |-> "pass", met |-> met, stale |-> Stale(met)] \in Job
           /\ [kind |-> "expiry",
               stale |-> {m \in Multis : Waiting(m) /\ multi[m].overdue},
               answers |-> [m \in Multis |-> multi[m].answers]] \in Job
<1>1. ASSUME NEW met \in MetSets
      PROVE  [kind |-> "pass", met |-> met, stale |-> Stale(met)] \in PassJob
  <2>1. met \in SUBSET Conditionals
    BY <1>1 DEF MetSets
  <2>2. Stale(met) \in SUBSET Conditionals
    BY DEF Stale
  <2>. QED
    BY <2>1, <2>2 DEF PassJob
<1>2. [kind |-> "expiry",
       stale |-> {m \in Multis : Waiting(m) /\ multi[m].overdue},
       answers |-> [m \in Multis |-> multi[m].answers]] \in ExpiryJob
  <2>1. \A m \in Multis : multi[m].answers \in [Agents -> {"none", "accepted", "rejected"}]
    BY DEF RowsTypeOK, MultisType, MultiRow
  <2>. QED
    BY <2>1 DEF ExpiryJob
<1>. QED
  BY <1>1, <1>2 DEF Job

(***************************************************************************)
(* The steps of the two kinds of agreements                                *)
(***************************************************************************)

\* A row whose state is replaced is still a row.
LEMMA ConditionalRows ==
    ASSUME RowsTypeOK, NEW c \in Conditionals
    PROVE  /\ [conditional[c] EXCEPT !.overdue = TRUE] \in ConditionalRow
           /\ \A s \in {"PENDING", "EXECUTED", "EXPIRED", "CANCELLED"} :
                [conditional[c] EXCEPT !.state = s] \in ConditionalRow
<1>1. conditional[c] \in ConditionalRow
  BY DEF RowsTypeOK, ConditionalsType
<1>. QED
  BY <1>1 DEF ConditionalRow

\* The conditional payments keep the types and the ends.
LEMMA ConditionalsStep ==
    ASSUME RowsTypeOK, ConditionalsNext, UNCHANGED <<deployment, multi>>
    PROVE  RowsTypeOK' /\ EndsStay
<1>1. /\ conditional \in [Conditionals -> ConditionalRow]
      /\ occurred \in SUBSET Conditionals
  BY DEF RowsTypeOK, ConditionalsType
<1>0. overtaken' \in SUBSET Agreements
  <2>1. ASSUME NEW w \in fleet, FinishPass(w)
        PROVE  overtaken' \in SUBSET Agreements
    <3>1. work[w] \in PassJob
      BY <2>1, AtWork, Jobs DEF FinishPass
    <3>. QED
      BY <2>1, <3>1, ConditionalsAssumption
         DEF FinishPass, Overtakes, Refunds, PassJob, RowsTypeOK
  <2>. QED
    BY <2>1 DEF ConditionalsNext, RowsTypeOK
<1>. SUFFICES /\ conditional' \in [Conditionals -> ConditionalRow]
              /\ occurred' \in SUBSET Conditionals
              /\ \A c \in Conditionals :
                    conditional[c].state \notin {"NONE", "PENDING"}
                        => conditional'[c] = conditional[c]
              /\ work' \in [Processes -> Job]
              /\ \A w \in Processes \ fleet : work'[w] = Idle
  BY <1>0 DEF RowsTypeOK, ConditionalsType, MultisType, EndsStay, fleet
<1>2. ASSUME work' = work
      PROVE  /\ work' \in [Processes -> Job]
             /\ \A w \in Processes \ fleet : work'[w] = Idle
  BY <1>2 DEF RowsTypeOK
<1>3. CASE \E c \in Conditionals : ConditionalOverdue(c) \/ Occurs(c)
  BY <1>1, <1>2, <1>3, ConditionalRows DEF ConditionalOverdue, Occurs, Pending
<1>4. CASE \E w \in fleet, c \in Conditionals :
            CreateConditional(w, c) \/ TriggerConditional(w, c) \/ CancelConditional(w, c)
  BY <1>1, <1>2, <1>4, ConditionalRows
     DEF CreateConditional, TriggerConditional, CancelConditional, Moves, Pending, Serves
<1>5. ASSUME NEW w \in fleet, BeginPass(w)
      PROVE  /\ work' \in [Processes -> Job]
             /\ \A v \in Processes \ fleet : work'[v] = Idle
             /\ UNCHANGED conditionalVars
  <2>1. PICK met \in MetSets : Starts(w, [kind |-> "pass", met |-> met, stale |-> Stale(met)])
    BY <1>5 DEF BeginPass
  <2>. DEFINE job == [kind |-> "pass", met |-> met, stale |-> Stale(met)]
  <2>2. job \in Job /\ job.kind = "pass"
    BY JobTypes
  <2>. HIDE DEF job
  <2>3. Starts(w, job) /\ w \in Processes
    BY <2>1, WorkSteps DEF job
  <2>. QED
    BY <1>5, <2>2, <2>3, WorkSteps DEF BeginPass
<1>6. ASSUME NEW w \in fleet, FinishPass(w)
      PROVE  /\ work' \in [Processes -> Job]
             /\ \A v \in Processes \ fleet : work'[v] = Idle
             /\ occurred' = occurred
             /\ conditional' \in [Conditionals -> ConditionalRow]
             /\ \A c \in Conditionals :
                    conditional[c].state \notin {"NONE", "PENDING"}
                        => conditional'[c] = conditional[c]
  <2>1. Ends(w) /\ w \in Processes
    BY <1>6, WorkSteps DEF FinishPass
  <2>. DEFINE executed == Executes(work[w].met)
              expired == {c \in work[w].stale : Pending(c)}
  <2>3. \A c \in executed \cup expired : Pending(c)
    BY DEF Executes
  <2>4. conditional' = [c \in Conditionals |->
            CASE c \in executed -> [conditional[c] EXCEPT !.state = "EXECUTED"]
              [] c \in expired  -> [conditional[c] EXCEPT !.state = "EXPIRED"]
              [] OTHER -> conditional[c]]
    BY <1>6 DEF FinishPass
  <2>. HIDE DEF executed, expired
  <2>5. conditional' \in [Conditionals -> ConditionalRow]
    BY <1>1, <2>4, ConditionalRows
  <2>6. \A c \in Conditionals \ (executed \cup expired) : conditional'[c] = conditional[c]
    BY <2>4
  <2>. QED
    BY <1>6, <2>1, <2>3, <2>5, <2>6, WorkSteps DEF FinishPass, Pending
<1>. QED
  BY <1>1, <1>3, <1>4, <1>5, <1>6 DEF ConditionalsNext, conditionalVars

\* A row whose state or answers are replaced is still a row.
LEMMA MultiRows ==
    ASSUME RowsTypeOK, NEW m \in Multis
    PROVE  /\ [multi[m] EXCEPT !.overdue = TRUE] \in MultiRow
           /\ \A s \in {"PENDING", "COMPLETED", "REJECTED", "EXPIRED"} :
                [multi[m] EXCEPT !.state = s] \in MultiRow
           /\ \A s \in {"PENDING", "COMPLETED", "REJECTED"}, r \in Agents,
                 answer \in {"accepted", "rejected"} :
                [multi EXCEPT ![m].answers = Answered(m, r, answer), ![m].state = s]
                    \in [Multis -> MultiRow]
<1>1. multi[m] \in MultiRow
  BY DEF RowsTypeOK, MultisType
<1>2. ASSUME NEW s \in {"PENDING", "COMPLETED", "REJECTED"}, NEW r \in Agents,
             NEW answer \in {"accepted", "rejected"}
      PROVE  [multi EXCEPT ![m].answers = Answered(m, r, answer), ![m].state = s]
                 \in [Multis -> MultiRow]
  <2>. DEFINE answers == Answered(m, r, answer)
  <2>1. answers \in [Agents -> {"none", "accepted", "rejected"}]
    BY <1>1 DEF Answered, MultiRow
  <2>. HIDE DEF answers
  <2>2. [multi[m] EXCEPT !.answers = answers, !.state = s] \in MultiRow
    BY <1>1, <2>1 DEF MultiRow
  <2>3. [multi EXCEPT ![m].answers = answers, ![m].state = s]
            = [multi EXCEPT ![m] = [multi[m] EXCEPT !.answers = answers, !.state = s]]
    BY DEF RowsTypeOK, MultisType
  <2>4. [multi EXCEPT ![m].answers = answers, ![m].state = s] \in [Multis -> MultiRow]
    BY <2>2, <2>3 DEF RowsTypeOK, MultisType
  <2>. QED
    BY <2>4 DEF answers
<1>3. [multi[m] EXCEPT !.overdue = TRUE] \in MultiRow
  BY <1>1 DEF MultiRow
<1>4. \A s \in {"PENDING", "COMPLETED", "REJECTED", "EXPIRED"} :
          [multi[m] EXCEPT !.state = s] \in MultiRow
  BY <1>1 DEF MultiRow
<1>. QED
  BY <1>2, <1>3, <1>4

\* An answer to a payment that waits changes its row only.
LEMMA AnswerStep ==
    ASSUME RowsTypeOK, NEW m \in Multis, NEW r \in Agents, Waiting(m),
           NEW s \in {"PENDING", "COMPLETED", "REJECTED"},
           NEW answer \in {"accepted", "rejected"},
           Saves(m, Answered(m, r, answer), s)
    PROVE  /\ multi' \in [Multis -> MultiRow]
           /\ \A n \in Multis : multi[n].state \notin {"NONE", "PENDING"} => multi'[n] = multi[n]
<1>1. multi' \in [Multis -> MultiRow]
  BY MultiRows DEF Saves
<1>2. \A n \in Multis \ {m} : multi'[n] = multi[n]
  BY DEF Saves, RowsTypeOK, MultisType
<1>. QED
  BY <1>1, <1>2 DEF Waiting

\* The multi-party payments keep the types and the ends.
LEMMA MultisStep ==
    ASSUME RowsTypeOK, MultisNext, UNCHANGED <<deployment, conditionalVars>>
    PROVE  RowsTypeOK' /\ EndsStay
<1>1. multi \in [Multis -> MultiRow]
  BY DEF RowsTypeOK, MultisType
<1>. DEFINE Good ==
        /\ multi' \in [Multis -> MultiRow]
        /\ \A m \in Multis : multi[m].state \notin {"NONE", "PENDING"} => multi'[m] = multi[m]
        /\ work' \in [Processes -> Job]
        /\ \A w \in Processes \ fleet : work'[w] = Idle
<1>0. overtaken' \in SUBSET Agreements
  <2>1. ASSUME NEW w \in fleet, FinishMultiExpiry(w)
        PROVE  overtaken' \in SUBSET Agreements
    <3>1. work[w] \in ExpiryJob
      BY <2>1, AtWork, Jobs DEF FinishMultiExpiry
    <3>. QED
      BY <2>1, <3>1, MultisAssumption DEF FinishMultiExpiry, Overtakes, ExpiryJob, RowsTypeOK
  <2>. QED
    BY <2>1 DEF MultisNext, RowsTypeOK
<1>. SUFFICES Good
  BY <1>0 DEF RowsTypeOK, ConditionalsType, MultisType, EndsStay,
              conditionalVars, fleet
<1>2. ASSUME work' = work
      PROVE  /\ work' \in [Processes -> Job]
             /\ \A w \in Processes \ fleet : work'[w] = Idle
  BY <1>2 DEF RowsTypeOK
<1>3. ASSUME NEW m \in Multis, MultiOverdue(m)
      PROVE  Good
  BY <1>1, <1>2, <1>3, MultiRows DEF MultiOverdue, Waiting
<1>4. ASSUME NEW w \in fleet, NEW m \in Multis, CreateMulti(w, m)
      PROVE  Good
  <2>1. multi' = [multi EXCEPT ![m] = [multi[m] EXCEPT !.state = "PENDING"]] /\ work' = work
    BY <1>1, <1>4 DEF CreateMulti, Serves
  <2>2. [multi[m] EXCEPT !.state = "PENDING"] \in MultiRow
    BY MultiRows
  <2>3. multi' \in [Multis -> MultiRow]
    BY <1>1, <2>1, <2>2
  <2>4. multi[m].state = "NONE" /\ \A n \in Multis \ {m} : multi'[n] = multi[n]
    BY <1>1, <1>4, <2>1 DEF CreateMulti
  <2>. QED
    BY <1>2, <2>1, <2>3, <2>4
<1>5. ASSUME NEW w \in fleet, NEW m \in Multis, NEW r \in Agents,
             \/ AcceptTogether(w, m, r) \/ AcceptShare(w, m, r)
             \/ RejectTogether(w, m, r) \/ RejectShare(w, m, r)
      PROVE  Good
  <2>1. Waiting(m) /\ work' = work
    BY <1>5 DEF AcceptTogether, AcceptShare, RejectTogether, RejectShare, Serves
  <2>2. \E s \in {"PENDING", "COMPLETED", "REJECTED"}, answer \in {"accepted", "rejected"} :
            Saves(m, Answered(m, r, answer), s)
    <3>1. CASE AcceptTogether(w, m, r)
      BY <3>1 DEF AcceptTogether
    <3>2. CASE AcceptShare(w, m, r)
      BY <3>2 DEF AcceptShare, OnceAnswered
    <3>3. CASE RejectTogether(w, m, r)
      BY <3>3 DEF RejectTogether
    <3>4. CASE RejectShare(w, m, r)
      BY <3>4 DEF RejectShare, OnceAnswered
    <3>. QED
      BY <1>5, <3>1, <3>2, <3>3, <3>4
  <2>. QED
    BY <1>2, <2>1, <2>2, AnswerStep
<1>6. ASSUME NEW w \in fleet, BeginMultiExpiry(w)
      PROVE  Good
  <2>. DEFINE job == [kind |-> "expiry",
                      stale |-> {m \in Multis : Waiting(m) /\ multi[m].overdue},
                      answers |-> [m \in Multis |-> multi[m].answers]]
  <2>1. job \in Job /\ job.kind = "expiry"
    BY JobTypes
  <2>2. Starts(w, job) /\ multi' = multi
    BY <1>6 DEF BeginMultiExpiry
  <2>. HIDE DEF job
  <2>. QED
    BY <1>1, <2>1, <2>2, WorkSteps
<1>7. ASSUME NEW w \in fleet, FinishMultiExpiry(w)
      PROVE  Good
  <2>1. Ends(w) /\ w \in Processes
    BY <1>7, WorkSteps DEF FinishMultiExpiry
  <2>3. multi' = [m \in Multis |->
           IF m \in work[w].stale /\ Waiting(m)
           THEN [multi[m] EXCEPT !.state = "EXPIRED"]
           ELSE multi[m]]
    BY <1>7 DEF FinishMultiExpiry
  <2>4. multi' \in [Multis -> MultiRow]
    BY <1>1, <2>3, MultiRows
  <2>5. \A m \in Multis : ~Waiting(m) => multi'[m] = multi[m]
    BY <2>3
  <2>. QED
    BY <2>1, <2>4, <2>5, WorkSteps DEF Waiting
<1>. QED
  BY <1>3, <1>4, <1>5, <1>6, <1>7 DEF MultisNext

(***************************************************************************)
(* What it comes to                                                        *)
(***************************************************************************)

\* The first rows are rows.
LEMMA RowsInit == Init => RowsTypeOK
<1>. SUFFICES ASSUME Init PROVE RowsTypeOK
  OBVIOUS
<1>1. ConditionalsType
  BY DEF Init, ConditionalsInit, ConditionalsType, ConditionalRow
<1>2. MultisType
  BY DEF Init, MultisInit, MultisType, MultiRow
<1>3. /\ deployment \in Deployments
      /\ work \in [Processes -> Job]
      /\ \A w \in Processes \ fleet : work[w] = Idle
      /\ overtaken \subseteq Agreements
  BY DEF Init, Job
<1>. QED
  BY <1>1, <1>2, <1>3 DEF RowsTypeOK

\* A rollback changes no row.
LEMMA AbortStep ==
    ASSUME RowsTypeOK, NEW w \in fleet, Abort(w), UNCHANGED deployment
    PROVE  RowsTypeOK' /\ EndsStay
<1>1. Ends(w) /\ UNCHANGED <<overtaken, conditionalVars, multi>>
  BY DEF Abort
<1>2. work' \in [Processes -> Job] /\ \A v \in Processes \ fleet : work'[v] = Idle
  BY <1>1, WorkSteps
<1>. QED
  BY <1>1, <1>2 DEF RowsTypeOK, ConditionalsType, MultisType, EndsStay,
                    conditionalVars, fleet

\* Every step keeps the types and the ends.
LEMMA RowsStep ==
    ASSUME RowsTypeOK, [Next]_vars
    PROVE  RowsTypeOK' /\ EndsStay
<1>1. CASE ConditionalsNext /\ UNCHANGED <<deployment, multi>>
  BY <1>1, ConditionalsStep
<1>2. CASE MultisNext /\ UNCHANGED <<deployment, conditionalVars>>
  BY <1>2, MultisStep
<1>3. CASE \E w \in fleet : Abort(w) /\ UNCHANGED deployment
  BY <1>3, AbortStep
<1>4. CASE UNCHANGED vars
  BY <1>4 DEF vars, RowsTypeOK, ConditionalsType, MultisType, EndsStay,
              conditionalVars, fleet
<1>. QED
  BY <1>1, <1>2, <1>3, <1>4 DEF Next

\* Every row of an agreement is always one the tables can hold.
THEOREM RowsCorrect == Spec => []RowsTypeOK
<1>1. RowsTypeOK /\ [Next]_vars => RowsTypeOK'
  BY RowsStep
<1>. QED
  BY <1>1, RowsInit, PTL DEF Spec

\* However many processes interleave their readings and their guarded updates,
\* and whatever is rolled back: no agreement leaves an end it has reached.
THEOREM EndsAreFinalSafe == Spec => EndsAreFinal
<1>1. RowsTypeOK /\ [Next]_vars => RowsTypeOK' /\ [EndsStay]_vars
  BY RowsStep
<1>. QED
  BY <1>1, RowsInit, PTL DEF Spec, EndsAreFinal

(***************************************************************************)
(* Money that moves between agents and agreements                          *)
(*                                                                         *)
(* The account of some agreements is what their rows say: per agreement,   *)
(* what each agent has got and given by it.                                *)
(***************************************************************************)

Accounts(X) == [got : [Agents -> [X -> Nat]], gave : [Agents -> [X -> Nat]]]

\* From account q and balances b to r and d, an agent's balance grows by what
\* the account says it got more, less what it gave more ...
Agrees(X, q, r, b, d, a) ==
    d[a] + SumFunctionOnSet(r.gave[a], X) + SumFunctionOnSet(q.got[a], X)
      = b[a] + SumFunctionOnSet(q.gave[a], X) + SumFunctionOnSet(r.got[a], X)

\* ... or by that at least.
Covers(X, q, r, b, d, a) ==
    d[a] + SumFunctionOnSet(r.gave[a], X) + SumFunctionOnSet(q.got[a], X)
      >= b[a] + SumFunctionOnSet(q.gave[a], X) + SumFunctionOnSet(r.got[a], X)

\* Sums are over finite sets.
LEMMA FiniteAgreements ==
    IsFiniteSet(Agents) /\ IsFiniteSet(Conditionals) /\ IsFiniteSet(Multis)
  BY LedgerAssumption, ConditionalsAssumption, MultisAssumption, FS_Subset

\* The entries of an account are amounts.
LEMMA AccountFields ==
    ASSUME NEW X, NEW q \in Accounts(X)
    PROVE  \A a \in Agents, x \in X : q.got[a][x] \in Nat /\ q.gave[a][x] \in Nat
  BY DEF Accounts

\* So are its sums.
LEMMA AccountSums ==
    ASSUME NEW X, IsFiniteSet(X), NEW q \in Accounts(X)
    PROVE  \A a \in Agents : /\ SumFunctionOnSet(q.got[a], X) \in Nat
                             /\ SumFunctionOnSet(q.gave[a], X) \in Nat
  BY AccountFields, SumNat

\* What agrees covers.
LEMMA AgreesCovers ==
    ASSUME NEW X, IsFiniteSet(X), NEW q \in Accounts(X), NEW r \in Accounts(X),
           NEW b \in [Agents -> Nat], NEW d \in [Agents -> Nat], NEW a \in Agents,
           Agrees(X, q, r, b, d, a)
    PROVE  Covers(X, q, r, b, d, a)
<1>. DEFINE s == SumFunctionOnSet(q.got[a], X)
            t == SumFunctionOnSet(r.gave[a], X)
            u == SumFunctionOnSet(q.gave[a], X)
            v == SumFunctionOnSet(r.got[a], X)
<1>1. s \in Nat /\ t \in Nat /\ u \in Nat /\ v \in Nat
  BY AccountSums
<1>2. d[a] \in Nat /\ b[a] \in Nat /\ d[a] + t + s = b[a] + u + v
  BY DEF Agrees
<1>. HIDE DEF s, t, u, v
<1>3. d[a] + t + s >= b[a] + u + v
  BY <1>1, <1>2
<1>. QED
  BY <1>3 DEF Covers, s, t, u, v

\* An account and balances that stay as they are
LEMMA NothingMoves ==
    ASSUME NEW X, IsFiniteSet(X), NEW q \in Accounts(X), NEW b \in [Agents -> Nat]
    PROVE  \A a \in Agents : Agrees(X, q, q, b, b, a)
  BY AccountSums DEF Agrees

\* One agreement changes, and gives agents money and takes money from them,
\* what its account says it has given and got.
OneChanges(X, x, q, r) ==
    \A y \in X : y # x =>
        \A a \in Agents : r.got[a][y] = q.got[a][y] /\ r.gave[a][y] = q.gave[a][y]
Moved(b, d, give, take, a) == d[a] + take[a] = b[a] + give[a]
Booked(x, q, r, give, take, a) ==
    r.gave[a][x] + q.got[a][x] + give[a] = q.gave[a][x] + r.got[a][x] + take[a]

\* When what one agreement moves in an agent's balance is booked, the balance
\* goes on agreeing with the account.
LEMMA OneMoves ==
    ASSUME NEW X, IsFiniteSet(X), NEW x \in X, NEW q \in Accounts(X), NEW r \in Accounts(X),
           NEW b \in [Agents -> Nat], NEW d \in [Agents -> Nat],
           NEW give \in [Agents -> Nat], NEW take \in [Agents -> Nat],
           OneChanges(X, x, q, r), NEW a \in Agents,
           Moved(b, d, give, take, a), Booked(x, q, r, give, take, a)
    PROVE  Agrees(X, q, r, b, d, a)
<1>. DEFINE got1 == q.got[a]
            got2 == r.got[a]
            gave1 == q.gave[a]
            gave2 == r.gave[a]
<1>1. \A y \in X : /\ got1[y] \in Int /\ got2[y] \in Int
                   /\ gave1[y] \in Int /\ gave2[y] \in Int
  BY AccountFields
<1>2. \A y \in X : y # x => got2[y] = got1[y] /\ gave2[y] = gave1[y]
  BY DEF OneChanges
<1>3. gave2[x] + got1[x] + give[a] = gave1[x] + got2[x] + take[a]
  BY DEF Booked
<1>. HIDE DEF got1, got2, gave1, gave2
<1>4. SumFunctionOnSet(got2, X) = SumFunctionOnSet(got1, X) - got1[x] + got2[x]
  BY <1>1, <1>2, SumChange
<1>5. SumFunctionOnSet(gave2, X) = SumFunctionOnSet(gave1, X) - gave1[x] + gave2[x]
  BY <1>1, <1>2, SumChange
<1>6. /\ SumFunctionOnSet(got1, X) \in Int /\ SumFunctionOnSet(gave1, X) \in Int
      /\ got1[x] \in Int /\ got2[x] \in Int /\ gave1[x] \in Int /\ gave2[x] \in Int
  BY <1>1, SumType
<1>7. /\ d[a] \in Int /\ b[a] \in Int /\ give[a] \in Int /\ take[a] \in Int
      /\ d[a] + take[a] = b[a] + give[a]
  BY DEF Moved
<1>8. d[a] + SumFunctionOnSet(gave2, X) + SumFunctionOnSet(got1, X)
        = b[a] + SumFunctionOnSet(gave1, X) + SumFunctionOnSet(got2, X)
  BY ONLY <1>3, <1>4, <1>5, <1>6, <1>7
<1>. QED
  BY <1>8 DEF Agrees, got1, got2, gave1, gave2

\* The amount, to one agent
To(p, amount) == [a \in Agents |-> IF a = p THEN amount ELSE 0]

\* An amount to one agent is nothing to the others.
LEMMA ToOne ==
    ASSUME NEW p \in Agents, NEW amount \in Nat
    PROVE  /\ To(p, amount) \in [Agents -> Nat]
           /\ \A a \in Agents : To(p, amount)[a] = IF a = p THEN amount ELSE 0
  BY DEF To

\* Several agreements give an agent money.
LEMMA AllMove ==
    ASSUME NEW X, IsFiniteSet(X), NEW q \in Accounts(X), NEW r \in Accounts(X),
           NEW b \in [Agents -> Nat], NEW d \in [Agents -> Nat],
           NEW a \in Agents, NEW g \in [X -> Nat],
           d[a] = b[a] + SumFunctionOnSet(g, X)
    PROVE  /\ (\A x \in X : r.gave[a][x] + q.got[a][x] + g[x] = q.gave[a][x] + r.got[a][x])
                => Agrees(X, q, r, b, d, a)
           /\ (\A x \in X : r.gave[a][x] + q.got[a][x] + g[x] >= q.gave[a][x] + r.got[a][x])
                => Covers(X, q, r, b, d, a)
<1>. DEFINE got1 == q.got[a]
            got2 == r.got[a]
            gave1 == q.gave[a]
            gave2 == r.gave[a]
            part == [x \in X |-> gave2[x] + got1[x]]
            all == [x \in X |-> gave2[x] + got1[x] + g[x]]
            due == [x \in X |-> gave1[x] + got2[x]]
<1>1. \A x \in X : /\ got1[x] \in Int /\ got2[x] \in Int
                   /\ gave1[x] \in Int /\ gave2[x] \in Int /\ g[x] \in Int
  BY AccountFields
<1>2. b[a] \in Int /\ d[a] \in Int
  OBVIOUS
<1>. HIDE DEF got1, got2, gave1, gave2
<1>3. \A x \in X : /\ part[x] = gave2[x] + got1[x] /\ part[x] \in Int
                   /\ all[x] = part[x] + g[x] /\ all[x] = gave2[x] + got1[x] + g[x]
                   /\ all[x] \in Int
                   /\ due[x] = gave1[x] + got2[x] /\ due[x] \in Int
  BY <1>1
<1>. HIDE DEF part, all, due
<1>4. SumFunctionOnSet(part, X) = SumFunctionOnSet(gave2, X) + SumFunctionOnSet(got1, X)
  BY <1>1, <1>3, SumPlus
<1>5. SumFunctionOnSet(all, X) = SumFunctionOnSet(part, X) + SumFunctionOnSet(g, X)
  BY <1>1, <1>3, SumPlus
<1>6. SumFunctionOnSet(due, X) = SumFunctionOnSet(gave1, X) + SumFunctionOnSet(got2, X)
  BY <1>1, <1>3, SumPlus
<1>7. /\ SumFunctionOnSet(g, X) \in Int /\ SumFunctionOnSet(got1, X) \in Int
      /\ SumFunctionOnSet(got2, X) \in Int
  BY <1>1, SumType
<1>8. SumFunctionOnSet(gave1, X) \in Int /\ SumFunctionOnSet(gave2, X) \in Int
  BY <1>1, SumType
<1>9. ASSUME \A x \in X : gave2[x] + got1[x] + g[x] = gave1[x] + got2[x]
      PROVE  d[a] + SumFunctionOnSet(gave2, X) + SumFunctionOnSet(got1, X)
               = b[a] + SumFunctionOnSet(gave1, X) + SumFunctionOnSet(got2, X)
  <2>1. \A x \in X : due[x] = part[x] + g[x]
    BY <1>3, <1>9
  <2>2. SumFunctionOnSet(due, X) = SumFunctionOnSet(part, X) + SumFunctionOnSet(g, X)
    BY <1>1, <1>3, <2>1, SumPlus
  <2>. QED
    BY <1>2, <1>4, <1>6, <1>7, <1>8, <2>2
<1>10. ASSUME \A x \in X : gave2[x] + got1[x] + g[x] >= gave1[x] + got2[x]
       PROVE  d[a] + SumFunctionOnSet(gave2, X) + SumFunctionOnSet(got1, X)
                >= b[a] + SumFunctionOnSet(gave1, X) + SumFunctionOnSet(got2, X)
  <2>1. \A x \in X : due[x] <= all[x]
    BY <1>3, <1>10
  <2>2. SumFunctionOnSet(due, X) <= SumFunctionOnSet(all, X)
    BY <1>3, <2>1, SumMonotone
  <2>. QED
    BY <1>2, <1>4, <1>5, <1>6, <1>7, <1>8, <2>2
<1>. QED
  BY <1>9, <1>10 DEF Agrees, Covers, got1, got2, gave1, gave2

(***************************************************************************)
(* Conditional payments and the money                                      *)
(***************************************************************************)

ConditionalAccount(rows) ==
    [got |-> [a \in Agents |-> [c \in Conditionals |->
                IF Payee[c] = a /\ rows[c].state = "EXECUTED" THEN Locked[c] ELSE 0]],
     gave |-> [a \in Agents |-> [c \in Conditionals |->
                IF Payer[c] = a /\ rows[c].state \in {"PENDING", "EXECUTED"}
                THEN Locked[c] ELSE 0]]]

\* The account of the conditional payments, entry by entry.
LEMMA ConditionalCounts ==
    ASSUME NEW rows
    PROVE  /\ ConditionalAccount(rows) \in Accounts(Conditionals)
           /\ \A c \in Conditionals, a \in Agents :
                /\ ConditionalAccount(rows).got[a][c]
                      = IF Payee[c] = a /\ rows[c].state = "EXECUTED"
                        THEN Locked[c] ELSE 0
                /\ ConditionalAccount(rows).gave[a][c]
                      = IF Payer[c] = a /\ rows[c].state \in {"PENDING", "EXECUTED"}
                        THEN Locked[c] ELSE 0
<1>1. \A c \in Conditionals : Locked[c] \in Nat
  BY ConditionalsAssumption
<1>. QED
  BY <1>1 DEF ConditionalAccount, Accounts

\* The sums of the account are those of the model.
LEMMA ConditionalSums ==
    ASSUME NEW rows, NEW a \in Agents
    PROVE  /\ SumFunctionOnSet(Locked,
                  {c \in Conditionals : Payee[c] = a /\ rows[c].state = "EXECUTED"})
                = SumFunctionOnSet(ConditionalAccount(rows).got[a], Conditionals)
           /\ SumFunctionOnSet(Locked,
                  {c \in Conditionals : Payer[c] = a /\ rows[c].state \in {"PENDING", "EXECUTED"}})
                = SumFunctionOnSet(ConditionalAccount(rows).gave[a], Conditionals)
<1>1. \A c \in Conditionals : Locked[c] \in Int
  BY ConditionalsAssumption
<1>3. SumFunctionOnSet(Locked, {c \in Conditionals : Payee[c] = a /\ rows[c].state = "EXECUTED"})
        = SumFunctionOnSet(ConditionalAccount(rows).got[a], Conditionals)
  <2>. DEFINE T == {c \in Conditionals : Payee[c] = a /\ rows[c].state = "EXECUTED"}
              g == ConditionalAccount(rows).got[a]
  <2>1. \A c \in Conditionals : g[c] = IF c \in T THEN Locked[c] ELSE 0
    BY ConditionalCounts
  <2>2. T \in SUBSET Conditionals
    OBVIOUS
  <2>. HIDE DEF T, g
  <2>3. SumFunctionOnSet(Locked, T) = SumFunctionOnSet(g, Conditionals)
    BY <1>1, <2>1, <2>2, FiniteAgreements, SumPart
  <2>. QED
    BY <2>3 DEF T, g
<1>4. SumFunctionOnSet(Locked,
          {c \in Conditionals : Payer[c] = a /\ rows[c].state \in {"PENDING", "EXECUTED"}})
        = SumFunctionOnSet(ConditionalAccount(rows).gave[a], Conditionals)
  <2>. DEFINE T == {c \in Conditionals : Payer[c] = a /\ rows[c].state \in {"PENDING", "EXECUTED"}}
              g == ConditionalAccount(rows).gave[a]
  <2>1. \A c \in Conditionals : g[c] = IF c \in T THEN Locked[c] ELSE 0
    BY ConditionalCounts
  <2>2. T \in SUBSET Conditionals
    OBVIOUS
  <2>. HIDE DEF T, g
  <2>3. SumFunctionOnSet(Locked, T) = SumFunctionOnSet(g, Conditionals)
    BY <1>1, <2>1, <2>2, FiniteAgreements, SumPart
  <2>. QED
    BY <2>3 DEF T, g
<1>. QED
  BY <1>3, <1>4

Balances == balance \in [Agents -> Nat]

\* What a step of the conditional payments does to an agent's money
ConditionalsAgree(a) ==
    Agrees(Conditionals, ConditionalAccount(conditional), ConditionalAccount(conditional'),
           balance, balance', a)
ConditionalsCover(a) ==
    Covers(Conditionals, ConditionalAccount(conditional), ConditionalAccount(conditional'),
           balance, balance', a)

\* One agent gets and gives, and what the account says changes by that.
Pays(p, give, take) ==
    \A a \in Agents : balance'[a] = IF a = p THEN balance[a] + give - take ELSE balance[a]
BooksSo(c, p, give, take) ==
    \A a \in Agents :
        ConditionalAccount(conditional').gave[a][c] + ConditionalAccount(conditional).got[a][c]
              + (IF a = p THEN give ELSE 0)
          = ConditionalAccount(conditional).gave[a][c] + ConditionalAccount(conditional').got[a][c]
              + (IF a = p THEN take ELSE 0)

\* A payment changes its state, and gives an agent money or takes it.
LEMMA ConditionalMoves ==
    ASSUME Balances, Balances', NEW c \in Conditionals, NEW p \in Agents,
           NEW give \in Nat, NEW take \in Nat,
           \A e \in Conditionals : e # c => conditional'[e].state = conditional[e].state,
           Pays(p, give, take), BooksSo(c, p, give, take)
    PROVE  \A a \in Agents : ConditionalsAgree(a)
<1>. TAKE a \in Agents
<1>. DEFINE q == ConditionalAccount(conditional)
            r == ConditionalAccount(conditional')
            b == balance
            d == balance'
            g == To(p, give)
            t == To(p, take)
<1>1. q \in Accounts(Conditionals) /\ r \in Accounts(Conditionals)
  BY ConditionalCounts
<1>2. b \in [Agents -> Nat] /\ d \in [Agents -> Nat]
  BY DEF Balances
<1>3. /\ g \in [Agents -> Nat] /\ t \in [Agents -> Nat]
      /\ g[a] = (IF a = p THEN give ELSE 0)
      /\ t[a] = (IF a = p THEN take ELSE 0)
  BY ToOne
<1>4. OneChanges(Conditionals, c, q, r)
  BY ConditionalCounts DEF OneChanges
<1>5. Moved(b, d, g, t, a)
  <2>. HIDE DEF g, t, q, r
  <2>. QED
    BY <1>2, <1>3 DEF Moved, Pays
<1>6. Booked(c, q, r, g, t, a)
  <2>1. r.gave[a][c] + q.got[a][c] + (IF a = p THEN give ELSE 0)
          = q.gave[a][c] + r.got[a][c] + (IF a = p THEN take ELSE 0)
    BY DEF BooksSo
  <2>. HIDE DEF g, t, q, r
  <2>. QED
    BY <1>3, <2>1 DEF Booked
<1>. HIDE DEF q, r, b, d, g, t
<1>7. Agrees(Conditionals, q, r, b, d, a)
  BY <1>1, <1>2, <1>3, <1>4, <1>5, <1>6, FiniteAgreements, OneMoves
<1>. QED
  BY <1>7 DEF ConditionalsAgree, q, r, b, d

\* Nothing moves as long as no state changes.
LEMMA ConditionalsStill ==
    ASSUME Balances, balance' = balance,
           \A c \in Conditionals : conditional'[c].state = conditional[c].state
    PROVE  Balances' /\ \A a \in Agents : ConditionalsAgree(a)
<1>1. ConditionalAccount(conditional') = ConditionalAccount(conditional)
  BY DEF ConditionalAccount
<1>2. ConditionalAccount(conditional) \in Accounts(Conditionals)
  BY ConditionalCounts
<1>. QED
  BY <1>1, <1>2, FiniteAgreements, NothingMoves DEF Balances, ConditionalsAgree

\* The requests about a conditional payment
LEMMA ConditionalRequests ==
    ASSUME RowsTypeOK, Balances, NEW w \in fleet, NEW c \in Conditionals,
           CreateConditional(w, c) \/ TriggerConditional(w, c) \/ CancelConditional(w, c)
    PROVE  Balances' /\ \A a \in Agents : ConditionalsAgree(a)
<1>. DEFINE q == ConditionalAccount(conditional)
            r == ConditionalAccount(conditional')
            amount == Locked[c]
            payer == Payer[c]
            payee == Payee[c]
<1>1. /\ payer \in Agents /\ payee \in Agents /\ amount \in Nat
      /\ conditional \in [Conditionals -> ConditionalRow] /\ balance \in [Agents -> Nat]
  BY ConditionalsAssumption DEF RowsTypeOK, ConditionalsType, Balances
<1>2. \A s : Moves(c, s) =>
          /\ conditional'[c].state = s
          /\ \A e \in Conditionals : e # c => conditional'[e].state = conditional[e].state
  BY <1>1 DEF Moves, ConditionalRow
<1>4. ASSUME NEW a \in Agents
      PROVE  /\ q.got[a][c]
                  = (IF payee = a /\ conditional[c].state = "EXECUTED" THEN amount ELSE 0)
             /\ q.gave[a][c]
                  = (IF payer = a /\ conditional[c].state \in {"PENDING", "EXECUTED"}
                     THEN amount ELSE 0)
             /\ r.got[a][c]
                  = (IF payee = a /\ conditional'[c].state = "EXECUTED" THEN amount ELSE 0)
             /\ r.gave[a][c]
                  = (IF payer = a /\ conditional'[c].state \in {"PENDING", "EXECUTED"}
                     THEN amount ELSE 0)
  BY <1>4, ConditionalCounts
<1>5. CASE CreateConditional(w, c)
  <2>1. conditional[c].state = "NONE" /\ Moves(c, "PENDING")
    BY <1>5 DEF CreateConditional
  <2>2. balance' = [balance EXCEPT ![payer] = @ - amount] /\ balance[payer] >= amount
    BY <1>5 DEF CreateConditional, Deduct, Affords
  <2>. HIDE DEF q, r, amount, payer, payee
  <2>3. Balances' /\ Pays(payer, 0, amount)
    BY <1>1, <2>2 DEF Balances, Pays
  <2>4. 0 \in Nat /\ amount \in Nat
    BY <1>1
  <2>6. BooksSo(c, payer, 0, amount)
    <3>1. \A a \in Agents : r.gave[a][c] + q.got[a][c] + (IF a = payer THEN 0 ELSE 0)
                            = q.gave[a][c] + r.got[a][c] + (IF a = payer THEN amount ELSE 0)
      BY <1>1, <1>2, <1>4, <2>1
    <3>. QED
      BY <3>1 DEF BooksSo, q, r
  <2>. QED
    BY <1>1, <1>2, <2>1, <2>3, <2>4, <2>6, ConditionalMoves
<1>6. CASE TriggerConditional(w, c)
  <2>1. conditional[c].state = "PENDING" /\ Moves(c, "EXECUTED")
    BY <1>6 DEF TriggerConditional, Pending
  <2>2. balance' = [balance EXCEPT ![payee] = @ + amount]
    BY <1>6 DEF TriggerConditional, Credit
  <2>. HIDE DEF q, r, amount, payer, payee
  <2>3. Balances' /\ Pays(payee, amount, 0)
    BY <1>1, <2>2 DEF Balances, Pays
  <2>4. amount \in Nat /\ 0 \in Nat
    BY <1>1
  <2>6. BooksSo(c, payee, amount, 0)
    <3>1. \A a \in Agents : r.gave[a][c] + q.got[a][c] + (IF a = payee THEN amount ELSE 0)
                            = q.gave[a][c] + r.got[a][c] + (IF a = payee THEN 0 ELSE 0)
      BY <1>1, <1>2, <1>4, <2>1
    <3>. QED
      BY <3>1 DEF BooksSo, q, r
  <2>. QED
    BY <1>1, <1>2, <2>1, <2>3, <2>4, <2>6, ConditionalMoves
<1>7. CASE CancelConditional(w, c)
  <2>1. conditional[c].state = "PENDING" /\ Moves(c, "CANCELLED")
    BY <1>7 DEF CancelConditional, Pending
  <2>2. balance' = [balance EXCEPT ![payer] = @ + amount]
    BY <1>7 DEF CancelConditional, Credit
  <2>. HIDE DEF q, r, amount, payer, payee
  <2>3. Balances' /\ Pays(payer, amount, 0)
    BY <1>1, <2>2 DEF Balances, Pays
  <2>4. amount \in Nat /\ 0 \in Nat
    BY <1>1
  <2>6. BooksSo(c, payer, amount, 0)
    <3>1. \A a \in Agents : r.gave[a][c] + q.got[a][c] + (IF a = payer THEN amount ELSE 0)
                            = q.gave[a][c] + r.got[a][c] + (IF a = payer THEN 0 ELSE 0)
      BY <1>1, <1>2, <1>4, <2>1
    <3>. QED
      BY <3>1 DEF BooksSo, q, r
  <2>. QED
    BY <1>1, <1>2, <2>1, <2>3, <2>4, <2>6, ConditionalMoves
<1>. QED
  BY <1>5, <1>6, <1>7

\* However many processes run: a pass does not both execute a payment and give
\* it back, and an answer that an expiry has read is not replaced.
ReadsHold ==
    \A w \in fleet :
        /\ work[w].kind = "pass" => work[w].met \cap work[w].stale = {}
        /\ work[w].kind = "expiry" =>
              \A m \in Multis, a \in Agents :
                  work[w].answers[m][a] # "none" => multi[m].answers[a] = work[w].answers[m][a]

\* With one process, what a transaction has read is still so when it writes.
ReadsAreCurrent ==
    Alone => \A w \in fleet :
        /\ work[w].kind = "pass" => \A c \in work[w].met \cup work[w].stale : Pending(c)
        /\ work[w].kind = "expiry" =>
              /\ \A m \in work[w].stale : Waiting(m)
              /\ work[w].answers = [m \in Multis |-> multi[m].answers]

\* An agent none of whose conditional payments was refunded after it had ended
NoneOvertaken(a) == \A c \in Conditionals : c \in overtaken' => Payer[c] # a

\* The writes of a pass
LEMMA ConditionalPass ==
    ASSUME RowsTypeOK, Balances, ReadsHold, NEW w \in fleet, FinishPass(w)
    PROVE  /\ Balances'
           /\ \A a \in Agents : /\ ConditionalsCover(a)
                                /\ NoneOvertaken(a) => ConditionalsAgree(a)
<1>. DEFINE q == ConditionalAccount(conditional)
            r == ConditionalAccount(conditional')
            b == balance
            d == balance'
            executed == Executes(work[w].met)
            refunded == Refunds(work[w].stale)
            expired == {c \in work[w].stale : Pending(c)}
            Pay(c) == IF c \in executed THEN Locked[c] ELSE 0
            Back(c) == IF c \in refunded THEN Locked[c] ELSE 0
            give == [c \in Conditionals |-> [a \in Agents |->
                        (IF a = Payee[c] THEN Pay(c) ELSE 0)
                      + (IF a = Payer[c] THEN Back(c) ELSE 0)]]
<1>1. /\ executed \in SUBSET Conditionals /\ refunded \in SUBSET Conditionals
      /\ executed = {c \in work[w].met : Pending(c)}
      /\ refunded = work[w].stale /\ expired \subseteq refunded
      /\ executed \cap refunded = {}
  <2>1. work[w] \in PassJob
    BY AtWork, Jobs DEF FinishPass
  <2>. QED
    BY <2>1 DEF PassJob, Executes, Refunds, ReadsHold, FinishPass
<1>2. \A c \in Conditionals :
          /\ Locked[c] \in Nat /\ Payer[c] \in Agents /\ Payee[c] \in Agents
          /\ Pay(c) \in Nat /\ Back(c) \in Nat
  BY ConditionalsAssumption
<1>3. \A c \in Conditionals :
          conditional'[c].state = IF c \in executed THEN "EXECUTED"
                                  ELSE IF c \in expired THEN "EXPIRED" ELSE conditional[c].state
  <2>1. conditional' = [c \in Conditionals |->
            CASE c \in executed -> [conditional[c] EXCEPT !.state = "EXECUTED"]
              [] c \in expired  -> [conditional[c] EXCEPT !.state = "EXPIRED"]
              [] OTHER -> conditional[c]]
    BY DEF FinishPass
  <2>2. \A c \in Conditionals : \A s : [conditional[c] EXCEPT !.state = s].state = s
    BY DEF RowsTypeOK, ConditionalsType, ConditionalRow
  <2>. TAKE c \in Conditionals
  <2>. HIDE DEF executed, expired
  <2>3. CASE c \in executed
    BY <1>1, <2>1, <2>2, <2>3
  <2>4. CASE c \notin executed /\ c \in expired
    BY <2>1, <2>2, <2>4
  <2>5. CASE c \notin executed /\ c \notin expired
    BY <2>1, <2>5
  <2>. QED
    BY <2>3, <2>4, <2>5
<1>4. balance' = [a \in Agents |-> balance[a]
            + (SumFunctionOnSet(Locked, {c \in executed : Payee[c] = a})
                + SumFunctionOnSet(Locked, {c \in refunded : Payer[c] = a}))]
  BY DEF FinishPass, CreditAll
<1>. HIDE DEF executed, refunded, expired
<1>5. give \in [Conditionals -> [Agents -> Nat]]
  <2>. HIDE DEF Pay, Back
  <2>. QED
    BY <1>2
<1>6. \A a \in Agents :
          /\ d[a] = b[a] + SumFunctionOnSet([c \in Conditionals |-> give[c][a]], Conditionals)
          /\ d[a] \in Nat
  <2>. TAKE a \in Agents
  <2>. DEFINE E == {c \in executed : Payee[c] = a}
              R == {c \in refunded : Payer[c] = a}
              f == [c \in Conditionals |-> IF c \in E THEN Locked[c] ELSE 0]
              g == [c \in Conditionals |-> IF c \in R THEN Locked[c] ELSE 0]
              h == [c \in Conditionals |-> give[c][a]]
  <2>1. E \in SUBSET Conditionals /\ R \in SUBSET Conditionals
    BY <1>1
  <2>2. \A c \in Conditionals : h[c] = f[c] + g[c]
    BY <1>2
  <2>3. d[a] = b[a] + (SumFunctionOnSet(Locked, E) + SumFunctionOnSet(Locked, R))
    BY <1>4
  <2>4. /\ \A c \in Conditionals : f[c] = (IF c \in E THEN Locked[c] ELSE 0) /\ f[c] \in Nat
        /\ \A c \in Conditionals : g[c] = (IF c \in R THEN Locked[c] ELSE 0) /\ g[c] \in Nat
    BY <1>2
  <2>. HIDE DEF E, R, f, g, h
  <2>5. SumFunctionOnSet(Locked, E) = SumFunctionOnSet(f, Conditionals)
    BY <1>2, <2>1, <2>4, FiniteAgreements, SumPart
  <2>6. SumFunctionOnSet(Locked, R) = SumFunctionOnSet(g, Conditionals)
    BY <1>2, <2>1, <2>4, FiniteAgreements, SumPart
  <2>7. SumFunctionOnSet(h, Conditionals)
          = SumFunctionOnSet(f, Conditionals) + SumFunctionOnSet(g, Conditionals)
    BY <2>2, <2>4, FiniteAgreements, SumPlus
  <2>8. /\ SumFunctionOnSet(f, Conditionals) \in Nat /\ SumFunctionOnSet(g, Conditionals) \in Nat
        /\ b[a] \in Nat
    BY <2>4, FiniteAgreements, SumNat DEF Balances
  <2>9. d[a] = b[a] + SumFunctionOnSet(h, Conditionals) /\ d[a] \in Nat
    BY <2>3, <2>5, <2>6, <2>7, <2>8
  <2>. QED
    BY <2>9 DEF h
<1>8. /\ q \in Accounts(Conditionals) /\ r \in Accounts(Conditionals)
      /\ b \in [Agents -> Nat] /\ d \in [Agents -> Nat]
  BY <1>4, <1>6, ConditionalCounts DEF Balances
<1>9. \A c \in Conditionals : c \in refunded => c \in expired \/ c \in overtaken'
  BY DEF FinishPass, Overtakes, refunded, expired
<1>10. ASSUME NEW a \in Agents
       PROVE  /\ Covers(Conditionals, q, r, b, d, a)
              /\ NoneOvertaken(a) => Agrees(Conditionals, q, r, b, d, a)
  <2>. DEFINE g == [c \in Conditionals |-> give[c][a]]
  <2>1. ASSUME NEW c \in Conditionals
        PROVE  /\ r.gave[a][c] + q.got[a][c] + g[c] >= q.gave[a][c] + r.got[a][c]
               /\ NoneOvertaken(a) =>
                    r.gave[a][c] + q.got[a][c] + g[c] = q.gave[a][c] + r.got[a][c]
    <3>1. /\ q.got[a][c]
              = (IF Payee[c] = a /\ conditional[c].state = "EXECUTED" THEN Locked[c] ELSE 0)
          /\ q.gave[a][c]
              = (IF Payer[c] = a /\ conditional[c].state \in {"PENDING", "EXECUTED"}
                 THEN Locked[c] ELSE 0)
          /\ r.got[a][c]
              = (IF Payee[c] = a /\ conditional'[c].state = "EXECUTED" THEN Locked[c] ELSE 0)
          /\ r.gave[a][c]
              = (IF Payer[c] = a /\ conditional'[c].state \in {"PENDING", "EXECUTED"}
                 THEN Locked[c] ELSE 0)
      BY ConditionalCounts
    <3>2. /\ c \in executed => conditional[c].state = "PENDING"
          /\ ~(c \in executed /\ c \in refunded)
          /\ c \in expired <=> c \in refunded /\ conditional[c].state = "PENDING"
      BY <1>1 DEF Pending, expired, refunded
    <3>3. g[c] = (IF a = Payee[c] THEN Pay(c) ELSE 0) + (IF a = Payer[c] THEN Back(c) ELSE 0)
      OBVIOUS
    <3>4. NoneOvertaken(a) /\ Payer[c] = a => c \notin overtaken'
      BY DEF NoneOvertaken
    <3>. HIDE DEF q, r, give, g
    <3>5. conditional'[c].state = IF c \in executed THEN "EXECUTED"
                                  ELSE IF c \in expired THEN "EXPIRED" ELSE conditional[c].state
      BY <1>3
    <3>6. CASE c \in executed
      BY <1>2, <3>1, <3>2, <3>3, <3>5, <3>6
    <3>7. CASE c \in expired
      BY <1>2, <3>1, <3>2, <3>3, <3>5, <3>7
    <3>8. CASE c \in refunded /\ c \notin expired
      BY <1>2, <1>9, <3>1, <3>2, <3>3, <3>4, <3>5, <3>8
    <3>9. CASE c \notin executed /\ c \notin refunded
      BY <1>2, <3>1, <3>2, <3>3, <3>5, <3>9
    <3>. QED
      BY <3>6, <3>7, <3>8, <3>9
  <2>2. g \in [Conditionals -> Nat] /\ d[a] = b[a] + SumFunctionOnSet(g, Conditionals)
    BY <1>5, <1>6
  <2>. HIDE DEF q, r, b, d, g, give
  <2>. QED
    BY <1>8, <2>1, <2>2, FiniteAgreements, AllMove
<1>11. Balances'
  BY <1>8 DEF Balances
<1>. QED
  BY <1>10, <1>11 DEF ConditionalsCover, ConditionalsAgree

\* Every step of the conditional payments
LEMMA ConditionalsMoney ==
    ASSUME RowsTypeOK, Balances, ReadsHold, ConditionalsNext
    PROVE  /\ Balances'
           /\ \A a \in Agents : /\ ConditionalsCover(a)
                                /\ NoneOvertaken(a) => ConditionalsAgree(a)
<1>1. ASSUME NEW c \in Conditionals, ConditionalOverdue(c) \/ Occurs(c)
      PROVE  Balances' /\ \A a \in Agents : ConditionalsAgree(a)
  <2>1. balance' = balance /\ \A e \in Conditionals : conditional'[e].state = conditional[e].state
    BY <1>1 DEF ConditionalOverdue, Occurs, RowsTypeOK, ConditionalsType, ConditionalRow
  <2>. QED
    BY <2>1, ConditionalsStill
<1>2. ASSUME NEW w \in fleet, BeginPass(w)
      PROVE  Balances' /\ \A a \in Agents : ConditionalsAgree(a)
  BY <1>2, ConditionalsStill DEF BeginPass, conditionalVars
<1>3. ASSUME Balances', NEW a \in Agents, ConditionalsAgree(a)
      PROVE  ConditionalsCover(a)
  <2>1. /\ ConditionalAccount(conditional) \in Accounts(Conditionals)
        /\ ConditionalAccount(conditional') \in Accounts(Conditionals)
    BY ConditionalCounts
  <2>. QED
    BY <1>3, <2>1, FiniteAgreements, AgreesCovers
       DEF Balances, ConditionalsAgree, ConditionalsCover
<1>. QED
  BY <1>1, <1>2, <1>3, ConditionalRequests, ConditionalPass DEF ConditionalsNext

(***************************************************************************)
(* Multi-party payments and the money                                      *)
(***************************************************************************)

\* The shares of those who answered so, and what PaidTo and SpentOn say of a row
Part(m, answers, answer) ==
    SumFunctionOnSet(Share[m], {x \in Recipients(m) : answers[x] = answer})
RowPaid(row, m, a) ==
    IF row.answers[a] = "accepted" /\ (m \in AllOrNothing => row.state = "COMPLETED")
    THEN Share[m][a] ELSE 0
RowSpent(row, m) ==
    IF row.state = "NONE" THEN 0
    ELSE IF m \in AllOrNothing
    THEN IF row.state \in {"REJECTED", "EXPIRED"} THEN 0 ELSE TotalOf(m)
    ELSE Part(m, row.answers, "accepted")
       + (IF row.state = "EXPIRED" THEN 0 ELSE Part(m, row.answers, "none"))
MultiAccount(rows) ==
    [got |-> [a \in Agents |-> [m \in Multis |-> RowPaid(rows[m], m, a)]],
     gave |-> [a \in Agents |-> [m \in Multis |->
                IF Sender[m] = a THEN RowSpent(rows[m], m) ELSE 0]]]

\* The shares of a payment are amounts, and all of them are its total.
LEMMA ShareFacts ==
    ASSUME NEW m \in Multis
    PROVE  /\ Sender[m] \in Agents /\ Share[m] \in [Agents -> Nat]
           /\ Recipients(m) \in SUBSET Agents
           /\ \A a \in Agents : Share[m][a] \in Nat
           /\ \A S \in SUBSET Recipients(m) :
                IsFiniteSet(S) /\ SumFunctionOnSet(Share[m], S) \in Nat
           /\ TotalOf(m) \in Nat
<1>1. /\ Sender[m] \in Agents /\ Share[m] \in [Agents -> Nat]
      /\ Recipients(m) \in SUBSET Agents
      /\ \A a \in Agents : Share[m][a] \in Nat
  BY MultisAssumption DEF Recipients
<1>2. ASSUME NEW S \in SUBSET Recipients(m)
      PROVE  IsFiniteSet(S) /\ SumFunctionOnSet(Share[m], S) \in Nat
  <2>1. IsFiniteSet(S)
    BY <1>1, FiniteAgreements, FS_Subset
  <2>2. \A a \in S : Share[m][a] \in Nat
    BY <1>1
  <2>. QED
    BY <2>1, <2>2, SumNat
<1>3. TotalOf(m) \in Nat
  BY <1>2 DEF TotalOf
<1>. QED
  BY <1>1, <1>2, <1>3

\* The shares of those who answered so are an amount.
LEMMA PartIsNat ==
    ASSUME NEW m \in Multis, NEW answers, NEW answer
    PROVE  Part(m, answers, answer) \in Nat
  BY ShareFacts DEF Part

\* What a row says of the money are amounts.
LEMMA RowCounts ==
    ASSUME NEW m \in Multis, NEW row, NEW a \in Agents
    PROVE  RowPaid(row, m, a) \in Nat /\ RowSpent(row, m) \in Nat
  BY ShareFacts, PartIsNat DEF RowPaid, RowSpent

\* The account of the multi-party payments, entry by entry.
LEMMA MultiCounts ==
    ASSUME NEW rows
    PROVE  /\ MultiAccount(rows) \in Accounts(Multis)
           /\ \A m \in Multis, a \in Agents :
                /\ MultiAccount(rows).got[a][m] = RowPaid(rows[m], m, a)
                /\ MultiAccount(rows).gave[a][m] = IF Sender[m] = a THEN RowSpent(rows[m], m) ELSE 0
<1>1. \A m \in Multis, a \in Agents : RowPaid(rows[m], m, a) \in Nat /\ RowSpent(rows[m], m) \in Nat
  BY RowCounts
<1>. QED
  BY <1>1 DEF MultiAccount, Accounts

\* The sums of the account are those of the model.
LEMMA MultiSums ==
    ASSUME NEW rows, NEW a \in Agents
    PROVE  /\ SumFunction([m \in Multis |-> RowPaid(rows[m], m, a)])
                = SumFunctionOnSet(MultiAccount(rows).got[a], Multis)
           /\ SumFunction([m \in {m \in Multis : Sender[m] = a} |-> RowSpent(rows[m], m)])
                = SumFunctionOnSet(MultiAccount(rows).gave[a], Multis)
<1>. DEFINE S == {m \in Multis : Sender[m] = a}
            paid == [m \in Multis |-> RowPaid(rows[m], m, a)]
            spent == [m \in S |-> RowSpent(rows[m], m)]
            gave == MultiAccount(rows).gave[a]
<1>1. MultiAccount(rows).got[a] = paid
  BY DEF MultiAccount
<1>2. /\ \A m \in Multis : gave[m] = IF m \in S THEN spent[m] ELSE 0
      /\ \A m \in S : spent[m] \in Int
  BY MultiCounts, RowCounts
<1>3. S \in SUBSET Multis /\ DOMAIN paid = Multis /\ DOMAIN spent = S
  OBVIOUS
<1>. HIDE DEF S, paid, spent, gave
<1>4. SumFunctionOnSet(spent, S) = SumFunctionOnSet(gave, Multis)
  BY <1>2, <1>3, FiniteAgreements, SumPart
<1>5. /\ SumFunction(paid) = SumFunctionOnSet(MultiAccount(rows).got[a], Multis)
      /\ SumFunction(spent) = SumFunctionOnSet(gave, Multis)
  BY <1>1, <1>3, <1>4 DEF SumFunction
<1>. QED
  BY <1>5 DEF S, paid, spent, gave

\* An answer moves the recipient's share from those without an answer to those
\* who gave it.
LEMMA PartsChange ==
    ASSUME NEW m \in Multis, NEW x \in Recipients(m), NEW old, NEW new,
           NEW answer \in {"accepted", "rejected"},
           old \in [Agents -> {"none", "accepted", "rejected"}],
           old[x] = "none", new = [old EXCEPT ![x] = answer]
    PROVE  /\ Part(m, old, "none") = Part(m, new, "none") + Share[m][x]
           /\ Part(m, new, answer) = Part(m, old, answer) + Share[m][x]
           /\ \A other \in {"accepted", "rejected"} :
                other # answer => Part(m, new, other) = Part(m, old, other)
<1>. DEFINE f == Share[m]
            without == {y \in Recipients(m) : old[y] = "none"}
            still == {y \in Recipients(m) : new[y] = "none"}
            before == {y \in Recipients(m) : old[y] = answer}
            after == {y \in Recipients(m) : new[y] = answer}
<1>1. /\ x \in Agents /\ f[x] \in Nat /\ Recipients(m) \in SUBSET Agents
      /\ \A y \in Agents : f[y] \in Int
  BY ShareFacts
<1>2. /\ \A y \in Recipients(m) : y # x => new[y] = old[y]
      /\ new[x] = answer /\ answer # "none"
  BY <1>1
<1>3. x \in without /\ still = without \ {x}
  BY <1>2
<1>4. x \in after /\ before = after \ {x}
  BY <1>2
<1>5. \A other \in {"accepted", "rejected"} : other # answer =>
          {y \in Recipients(m) : new[y] = other} = {y \in Recipients(m) : old[y] = other}
  BY <1>2
<1>6. /\ without \in SUBSET Agents /\ after \in SUBSET Agents
      /\ IsFiniteSet(without) /\ IsFiniteSet(after)
      /\ SumFunctionOnSet(f, still) \in Nat /\ SumFunctionOnSet(f, before) \in Nat
  BY <1>1, ShareFacts
<1>. HIDE DEF without, still, before, after, f
<1>7. SumFunctionOnSet(f, without) = f[x] + SumFunctionOnSet(f, still)
  <2>1. \A y \in without : f[y] \in Int
    BY <1>1, <1>6
  <2>2. SumFunctionOnSet(f, without) = f[x] + SumFunctionOnSet(f, without \ {x})
    BY <1>3, <1>6, <2>1, SumRemove
  <2>. QED
    BY <1>3, <2>2
<1>8. SumFunctionOnSet(f, after) = f[x] + SumFunctionOnSet(f, before)
  <2>1. \A y \in after : f[y] \in Int
    BY <1>1, <1>6
  <2>2. SumFunctionOnSet(f, after) = f[x] + SumFunctionOnSet(f, after \ {x})
    BY <1>4, <1>6, <2>1, SumRemove
  <2>. QED
    BY <1>4, <2>2
<1>9. Part(m, old, "none") = Part(m, new, "none") + Share[m][x]
  BY <1>1, <1>6, <1>7 DEF Part, f, without, still
<1>10. Part(m, new, answer) = Part(m, old, answer) + Share[m][x]
  BY <1>1, <1>6, <1>8 DEF Part, f, before, after
<1>. QED
  BY <1>5, <1>9, <1>10 DEF Part

\* Before anybody has answered
LEMMA NoPart ==
    ASSUME NEW m \in Multis, NEW answers, \A x \in Agents : answers[x] = "none"
    PROVE  /\ Part(m, answers, "none") = TotalOf(m)
           /\ Part(m, answers, "accepted") = 0 /\ Part(m, answers, "rejected") = 0
<1>1. Recipients(m) \in SUBSET Agents
  BY ShareFacts
<1>2. /\ {x \in Recipients(m) : answers[x] = "none"} = Recipients(m)
      /\ {x \in Recipients(m) : answers[x] = "accepted"} = {}
      /\ {x \in Recipients(m) : answers[x] = "rejected"} = {}
  BY <1>1
<1>. QED
  BY <1>2, SumEmpty DEF Part, TotalOf

\* When nobody has answered so
LEMMA NoneLeft ==
    ASSUME NEW m \in Multis, NEW answers, NEW answer,
           \A x \in Recipients(m) : answers[x] # answer
    PROVE  Part(m, answers, answer) = 0
<1>1. {x \in Recipients(m) : answers[x] = answer} = {}
  OBVIOUS
<1>. QED
  BY <1>1, SumEmpty DEF Part

\* What a step of the multi-party payments does to an agent's money
MultisAgree(a) ==
    Agrees(Multis, MultiAccount(multi), MultiAccount(multi'), balance, balance', a)
MultisCover(a) ==
    Covers(Multis, MultiAccount(multi), MultiAccount(multi'), balance, balance', a)

\* Row and row2 say that the payment has given and taken that.
RowBooks(m, row, row2, give, take) ==
    \A a \in Agents :
        (IF Sender[m] = a THEN RowSpent(row2, m) ELSE 0) + RowPaid(row, m, a) + give[a]
        = (IF Sender[m] = a THEN RowSpent(row, m) ELSE 0) + RowPaid(row2, m, a) + take[a]

AllMoved(give, take) == \A a \in Agents : Moved(balance, balance', give, take, a)

\* A payment changes its row, and moves what the row says.
LEMMA MultiMoves ==
    ASSUME Balances, Balances', NEW m \in Multis,
           NEW give \in [Agents -> Nat], NEW take \in [Agents -> Nat],
           AllMoved(give, take),
           \A n \in Multis : n # m => multi'[n] = multi[n],
           RowBooks(m, multi[m], multi'[m], give, take)
    PROVE  \A a \in Agents : MultisAgree(a)
<1>. TAKE a \in Agents
<1>. DEFINE q == MultiAccount(multi)
            r == MultiAccount(multi')
            b == balance
            d == balance'
<1>1. q \in Accounts(Multis) /\ r \in Accounts(Multis)
  BY MultiCounts
<1>2. b \in [Agents -> Nat] /\ d \in [Agents -> Nat]
  BY DEF Balances
<1>3. OneChanges(Multis, m, q, r)
  BY MultiCounts DEF OneChanges
<1>4. Booked(m, q, r, give, take, a)
  <2>1. /\ r.gave[a][m] = (IF Sender[m] = a THEN RowSpent(multi'[m], m) ELSE 0)
        /\ q.gave[a][m] = (IF Sender[m] = a THEN RowSpent(multi[m], m) ELSE 0)
        /\ q.got[a][m] = RowPaid(multi[m], m, a)
        /\ r.got[a][m] = RowPaid(multi'[m], m, a)
    BY MultiCounts
  <2>. QED
    BY <2>1 DEF RowBooks, Booked
<1>5. Moved(b, d, give, take, a)
  BY DEF AllMoved
<1>. HIDE DEF q, r, b, d
<1>6. Agrees(Multis, q, r, b, d, a)
  BY <1>1, <1>2, <1>3, <1>4, <1>5, FiniteAgreements, OneMoves
<1>. QED
  BY <1>6 DEF MultisAgree, q, r, b, d

\* Nothing moves as long as no state and no answer changes.
LEMMA MultisStill ==
    ASSUME Balances, balance' = balance,
           \A m \in Multis : multi'[m].state = multi[m].state /\ multi'[m].answers = multi[m].answers
    PROVE  Balances' /\ \A a \in Agents : MultisAgree(a)
<1>1. MultiAccount(multi') = MultiAccount(multi)
  <2>1. \A m \in Multis : RowSpent(multi'[m], m) = RowSpent(multi[m], m)
    BY DEF RowSpent
  <2>2. \A m \in Multis, a \in Agents : RowPaid(multi'[m], m, a) = RowPaid(multi[m], m, a)
    BY DEF RowPaid
  <2>. QED
    BY <2>1, <2>2 DEF MultiAccount
<1>2. MultiAccount(multi) \in Accounts(Multis)
  BY MultiCounts
<1>. QED
  BY <1>1, <1>2, FiniteAgreements, NothingMoves DEF Balances, MultisAgree

\* A payment that was not made yet has no answers.
NewIsUnanswered ==
    \A m \in Multis :
        multi[m].state = "NONE" => \A a \in Agents : multi[m].answers[a] = "none"

\* A new payment takes its total from the sender.
LEMMA CreateMultiMoney ==
    ASSUME RowsTypeOK, Balances, NewIsUnanswered, NEW w \in fleet, NEW m \in Multis, CreateMulti(w, m)
    PROVE  Balances' /\ \A a \in Agents : MultisAgree(a)
<1>. DEFINE row == multi[m]
            row2 == multi'[m]
            p == Sender[m]
            total == TotalOf(m)
            give == To(p, 0)
            take == To(p, total)
<1>1. /\ row.state = "NONE" /\ row2.state = "PENDING" /\ row2.answers = row.answers
      /\ \A n \in Multis : n # m => multi'[n] = multi[n]
  BY DEF CreateMulti, RowsTypeOK, MultisType, MultiRow
<1>2. \A a \in Agents : row.answers[a] = "none"
  BY <1>1 DEF NewIsUnanswered
<1>3. p \in Agents /\ total \in Nat /\ balance \in [Agents -> Nat]
  BY ShareFacts DEF Balances
<1>4. /\ give \in [Agents -> Nat]
      /\ \A a \in Agents : give[a] = 0
  BY <1>3, ToOne
<1>5. /\ take \in [Agents -> Nat]
      /\ \A a \in Agents : take[a] = (IF a = p THEN total ELSE 0)
  <2>. HIDE DEF p, total
  <2>. QED
    BY <1>3, ToOne
<1>6. balance' = [balance EXCEPT ![p] = @ - total] /\ balance[p] >= total
  BY DEF CreateMulti, Deduct, Affords
<1>7. /\ Part(m, row.answers, "none") = total
      /\ Part(m, row.answers, "accepted") = 0 /\ Part(m, row.answers, "rejected") = 0
  BY <1>2, NoPart
<1>8. RowSpent(row, m) = 0 /\ RowSpent(row2, m) = total
  <2>. HIDE DEF row, row2
  <2>1. RowSpent(row, m) = 0
    BY <1>1 DEF RowSpent
  <2>2. RowSpent(row2, m) = total
    <3>1. CASE m \in AllOrNothing
      BY <1>1, <3>1 DEF RowSpent
    <3>2. CASE m \notin AllOrNothing
      <4>1. RowSpent(row2, m) = Part(m, row2.answers, "accepted") + Part(m, row2.answers, "none")
        BY <1>1, <3>2 DEF RowSpent
      <4>. HIDE DEF total
      <4>. QED
        BY <1>1, <1>3, <1>7, <4>1
    <3>. QED
      BY <3>1, <3>2
  <2>. QED
    BY <2>1, <2>2
<1>9. \A a \in Agents : RowPaid(row, m, a) = 0 /\ RowPaid(row2, m, a) = 0
  BY <1>1, <1>2 DEF RowPaid
<1>. HIDE DEF row, row2, p, total, give, take
<1>10. Balances' /\ AllMoved(give, take)
  BY <1>3, <1>4, <1>5, <1>6 DEF Balances, AllMoved, Moved
<1>12. RowBooks(m, row, row2, give, take)
  BY <1>3, <1>4, <1>5, <1>8, <1>9 DEF RowBooks, p
<1>. QED
  BY <1>1, <1>4, <1>5, <1>10, <1>12, MultiMoves DEF row, row2

\* The last acceptance pays everybody.
LEMMA AcceptTogetherMoney ==
    ASSUME RowsTypeOK, Balances, NEW w \in fleet, NEW m \in Multis, NEW x \in Agents,
           AcceptTogether(w, m, x)
    PROVE  Balances' /\ \A a \in Agents : MultisAgree(a)
<1>. DEFINE row == multi[m]
            row2 == multi'[m]
            total == TotalOf(m)
            answers == Answered(m, x, "accepted")
<1>1. m \in AllOrNothing /\ row.state = "PENDING" /\ balance \in [Agents -> Nat]
  BY DEF AcceptTogether, Waiting, Balances
<1>2. total \in Nat /\ Share[m] \in [Agents -> Nat]
  BY ShareFacts
<1>3. \A s : Saves(m, answers, s) =>
          /\ row2.state = s /\ row2.answers = answers
          /\ \A n \in Multis : n # m => multi'[n] = multi[n]
  BY DEF Saves, RowsTypeOK, MultisType, MultiRow
<1>4. CASE /\ \A s \in Recipients(m) : answers[s] = "accepted"
           /\ CreditAll(Share[m]) /\ Saves(m, answers, "COMPLETED")
  <2>. DEFINE give == Share[m]
              take == To(Sender[m], 0)
  <2>1. /\ take \in [Agents -> Nat]
        /\ \A a \in Agents : take[a] = 0
    BY ShareFacts, ToOne
  <2>2. balance' = [a \in Agents |-> balance[a] + give[a]]
    BY <1>4 DEF CreditAll
  <2>3. \A a \in Agents : RowPaid(row, m, a) = 0 /\ RowPaid(row2, m, a) = give[a]
    <3>1. \A a \in Agents : RowPaid(row, m, a) = 0
      BY <1>1 DEF RowPaid
    <3>2. \A a \in Agents : a \in Recipients(m) \/ give[a] = 0
      BY <1>2 DEF Recipients
    <3>3. \A a \in Agents : RowPaid(row2, m, a) = give[a]
      BY <1>3, <1>4, <3>2 DEF RowPaid
    <3>. QED
      BY <3>1, <3>3
  <2>4. RowSpent(row, m) = total /\ RowSpent(row2, m) = total
    BY <1>1, <1>3, <1>4 DEF RowSpent
  <2>5. give \in [Agents -> Nat]
    BY <1>2
  <2>. HIDE DEF row, row2, total, answers, give, take
  <2>6. Balances' /\ AllMoved(give, take)
    BY <1>1, <2>1, <2>2, <2>5 DEF Balances, AllMoved, Moved
  <2>8. RowBooks(m, row, row2, give, take)
    BY <1>2, <2>1, <2>3, <2>4, <2>5 DEF RowBooks
  <2>. QED
    BY <1>3, <1>4, <2>1, <2>5, <2>6, <2>8, MultiMoves DEF row, row2
<1>5. CASE Saves(m, answers, "PENDING") /\ UNCHANGED balance
  <2>. DEFINE none == To(Sender[m], 0)
  <2>1. /\ none \in [Agents -> Nat]
        /\ \A a \in Agents : none[a] = 0
    BY ShareFacts, ToOne
  <2>2. \A a \in Agents : RowPaid(row, m, a) = 0 /\ RowPaid(row2, m, a) = 0
    BY <1>1, <1>3, <1>5 DEF RowPaid
  <2>3. RowSpent(row, m) = total /\ RowSpent(row2, m) = total
    BY <1>1, <1>3, <1>5 DEF RowSpent
  <2>. HIDE DEF row, row2, total, answers, none
  <2>4. Balances' /\ AllMoved(none, none)
    BY <1>1, <1>5, <2>1 DEF Balances, AllMoved, Moved
  <2>6. RowBooks(m, row, row2, none, none)
    BY <1>2, <2>1, <2>2, <2>3 DEF RowBooks
  <2>. QED
    BY <1>3, <1>5, <2>1, <2>4, <2>6, MultiMoves DEF row, row2
<1>. QED
  BY <1>4, <1>5 DEF AcceptTogether

\* The first rejection returns everything.
LEMMA RejectTogetherMoney ==
    ASSUME RowsTypeOK, Balances, NEW w \in fleet, NEW m \in Multis, NEW x \in Agents,
           RejectTogether(w, m, x)
    PROVE  Balances' /\ \A a \in Agents : MultisAgree(a)
<1>. DEFINE row == multi[m]
            row2 == multi'[m]
            p == Sender[m]
            total == TotalOf(m)
            give == To(p, total)
            take == To(p, 0)
<1>1. /\ m \in AllOrNothing /\ row.state = "PENDING" /\ row2.state = "REJECTED"
      /\ \A n \in Multis : n # m => multi'[n] = multi[n]
  BY DEF RejectTogether, Waiting, Saves, RowsTypeOK, MultisType, MultiRow
<1>2. p \in Agents /\ total \in Nat /\ balance \in [Agents -> Nat]
  BY ShareFacts DEF Balances
<1>3. /\ take \in [Agents -> Nat]
      /\ \A a \in Agents : take[a] = 0
  BY <1>2, ToOne
<1>4. /\ give \in [Agents -> Nat]
      /\ \A a \in Agents : give[a] = (IF a = p THEN total ELSE 0)
  <2>. HIDE DEF p, total
  <2>. QED
    BY <1>2, ToOne
<1>5. balance' = [balance EXCEPT ![p] = @ + total]
  BY DEF RejectTogether, Credit
<1>6. RowSpent(row, m) = total /\ RowSpent(row2, m) = 0
  BY <1>1 DEF RowSpent
<1>7. \A a \in Agents : RowPaid(row, m, a) = 0 /\ RowPaid(row2, m, a) = 0
  BY <1>1 DEF RowPaid
<1>. HIDE DEF row, row2, p, total, give, take
<1>8. Balances' /\ AllMoved(give, take)
  BY <1>2, <1>3, <1>4, <1>5 DEF Balances, AllMoved, Moved
<1>10. RowBooks(m, row, row2, give, take)
  BY <1>2, <1>3, <1>4, <1>6, <1>7 DEF RowBooks, p
<1>. QED
  BY <1>1, <1>3, <1>4, <1>8, <1>10, MultiMoves DEF row, row2

\* A recipient accepts or rejects their own share.
LEMMA ShareMoney ==
    ASSUME RowsTypeOK, Balances, NEW w \in fleet, NEW m \in Multis, NEW x \in Agents,
           AcceptShare(w, m, x) \/ RejectShare(w, m, x)
    PROVE  Balances' /\ \A a \in Agents : MultisAgree(a)
<1>. DEFINE row == multi[m]
            row2 == multi'[m]
            p == Sender[m]
            share == Share[m][x]
            old == row.answers
            new == row2.answers
            taken == To(p, 0)
<1>1. /\ m \notin AllOrNothing /\ row.state = "PENDING"
      /\ x \in Recipients(m) /\ old[x] = "none"
  BY DEF AcceptShare, RejectShare, Waiting, MayAnswer
<1>2. /\ p \in Agents /\ share \in Nat /\ balance \in [Agents -> Nat]
      /\ old \in [Agents -> {"none", "accepted", "rejected"}]
  BY ShareFacts DEF Balances, RowsTypeOK, MultisType, MultiRow
<1>3. \A answer, s : Saves(m, Answered(m, x, answer), s) =>
          /\ row2.state = s /\ new = [old EXCEPT ![x] = answer]
          /\ \A n \in Multis : n # m => multi'[n] = multi[n]
  BY DEF Saves, Answered, RowsTypeOK, MultisType, MultiRow
<1>4. /\ taken \in [Agents -> Nat]
      /\ \A a \in Agents : taken[a] = 0
  BY <1>2, ToOne
<1>5. \A a, v : Part(m, a, v) \in Nat
  BY PartIsNat
\* What the row counts for, before and after
<1>6. ASSUME NEW answer \in {"accepted", "rejected"},
             Saves(m, Answered(m, x, answer), OnceAnswered(m, Answered(m, x, answer)))
      PROVE  /\ new = [old EXCEPT ![x] = answer]
             /\ \A n \in Multis : n # m => multi'[n] = multi[n]
             /\ RowSpent(row, m) = Part(m, old, "accepted") + Part(m, old, "none")
             /\ RowSpent(row2, m) = Part(m, new, "accepted") + Part(m, new, "none")
             /\ \A a \in Agents :
                   /\ RowPaid(row, m, a) = (IF old[a] = "accepted" THEN Share[m][a] ELSE 0)
                   /\ RowPaid(row2, m, a) = (IF new[a] = "accepted" THEN Share[m][a] ELSE 0)
  <2>1. /\ new = Answered(m, x, answer) /\ new = [old EXCEPT ![x] = answer]
        /\ row2.state = OnceAnswered(m, new)
        /\ \A n \in Multis : n # m => multi'[n] = multi[n]
    BY <1>3, <1>6 DEF Answered
  <2>2. /\ row2.state \in {"PENDING", "COMPLETED"}
        /\ row2.state = "COMPLETED" => \A y \in Recipients(m) : new[y] # "none"
    BY <2>1 DEF OnceAnswered
  <2>6. /\ RowSpent(row, m) = Part(m, old, "accepted") + Part(m, old, "none")
        /\ RowSpent(row2, m) = Part(m, new, "accepted") + Part(m, new, "none")
    BY <1>1, <2>2 DEF RowSpent
  <2>8. \A a \in Agents :
            /\ RowPaid(row, m, a) = (IF old[a] = "accepted" THEN Share[m][a] ELSE 0)
            /\ RowPaid(row2, m, a) = (IF new[a] = "accepted" THEN Share[m][a] ELSE 0)
    BY <1>1 DEF RowPaid
  <2>. QED
    BY <2>1, <2>6, <2>8
<1>7. CASE AcceptShare(w, m, x)
  <2>. DEFINE give == To(x, share)
  <2>1. Saves(m, Answered(m, x, "accepted"), OnceAnswered(m, Answered(m, x, "accepted")))
    BY <1>7 DEF AcceptShare
  <2>2. balance' = [balance EXCEPT ![x] = @ + share]
    BY <1>7 DEF AcceptShare, Credit
  <2>3. /\ give \in [Agents -> Nat]
        /\ \A a \in Agents : give[a] = (IF a = x THEN share ELSE 0)
    <3>. HIDE DEF share
    <3>. QED
      BY <1>2, ToOne
  <2>4. /\ new = [old EXCEPT ![x] = "accepted"]
        /\ \A n \in Multis : n # m => multi'[n] = multi[n]
    BY <1>6, <2>1
  <2>5. RowSpent(row, m) = RowSpent(row2, m) /\ RowSpent(row, m) \in Nat
    <3>1. /\ Part(m, old, "none") = Part(m, new, "none") + share
          /\ Part(m, new, "accepted") = Part(m, old, "accepted") + share
      BY <1>1, <1>2, <2>4, PartsChange
    <3>2. /\ RowSpent(row, m) = Part(m, old, "accepted") + Part(m, old, "none")
          /\ RowSpent(row2, m) = Part(m, new, "accepted") + Part(m, new, "none")
      BY <1>6, <2>1
    <3>. HIDE DEF row, row2, share, old, new
    <3>. QED
      BY <1>2, <1>5, <3>1, <3>2
  <2>6. \A a \in Agents : /\ RowPaid(row, m, a) \in Nat
                          /\ RowPaid(row2, m, a) = RowPaid(row, m, a) + give[a]
    <3>. TAKE a \in Agents
    <3>1. /\ RowPaid(row, m, a) = (IF old[a] = "accepted" THEN Share[m][a] ELSE 0)
          /\ RowPaid(row2, m, a) = (IF new[a] = "accepted" THEN Share[m][a] ELSE 0)
          /\ Share[m][a] \in Nat
      BY <1>6, <2>1, ShareFacts
    <3>. HIDE DEF row, row2, old, new, give
    <3>2. CASE a = x
      BY <1>1, <1>2, <2>3, <2>4, <3>1, <3>2
    <3>3. CASE a # x
      <4>1. new[a] = old[a] /\ give[a] = 0
        BY <1>2, <2>3, <2>4, <3>3
      <4>. QED
        BY <3>1, <4>1
    <3>. QED
      BY <3>2, <3>3
  <2>. HIDE DEF row, row2, p, share, old, new, give, taken
  <2>7. Balances' /\ AllMoved(give, taken)
    BY <1>2, <1>4, <2>2, <2>3 DEF Balances, AllMoved, Moved
  <2>9. RowBooks(m, row, row2, give, taken)
    BY <1>4, <2>3, <2>4, <2>5, <2>6 DEF RowBooks
  <2>. QED
    BY <1>4, <2>3, <2>4, <2>7, <2>9, MultiMoves DEF row, row2
<1>8. CASE RejectShare(w, m, x)
  <2>. DEFINE give == To(p, share)
  <2>1. Saves(m, Answered(m, x, "rejected"), OnceAnswered(m, Answered(m, x, "rejected")))
    BY <1>8 DEF RejectShare
  <2>2. balance' = [balance EXCEPT ![p] = @ + share]
    BY <1>8 DEF RejectShare, Credit
  <2>3. /\ give \in [Agents -> Nat]
        /\ \A a \in Agents : give[a] = (IF a = p THEN share ELSE 0)
    <3>. HIDE DEF share, p
    <3>. QED
      BY <1>2, ToOne
  <2>4. /\ new = [old EXCEPT ![x] = "rejected"]
        /\ \A n \in Multis : n # m => multi'[n] = multi[n]
    BY <1>6, <2>1
  <2>5. RowSpent(row, m) = RowSpent(row2, m) + share /\ RowSpent(row2, m) \in Nat
    <3>1. /\ Part(m, old, "none") = Part(m, new, "none") + share
          /\ Part(m, new, "accepted") = Part(m, old, "accepted")
      BY <1>1, <1>2, <2>4, PartsChange
    <3>2. /\ RowSpent(row, m) = Part(m, old, "accepted") + Part(m, old, "none")
          /\ RowSpent(row2, m) = Part(m, new, "accepted") + Part(m, new, "none")
      BY <1>6, <2>1
    <3>. HIDE DEF row, row2, share, old, new
    <3>. QED
      BY <1>2, <1>5, <3>1, <3>2
  <2>6. \A a \in Agents : RowPaid(row, m, a) \in Nat /\ RowPaid(row2, m, a) = RowPaid(row, m, a)
    <3>. TAKE a \in Agents
    <3>1. /\ RowPaid(row, m, a) = (IF old[a] = "accepted" THEN Share[m][a] ELSE 0)
          /\ RowPaid(row2, m, a) = (IF new[a] = "accepted" THEN Share[m][a] ELSE 0)
          /\ Share[m][a] \in Nat
      BY <1>6, <2>1, ShareFacts
    <3>2. new[a] = "accepted" <=> old[a] = "accepted"
      BY <1>1, <1>2, <2>4
    <3>. HIDE DEF row, row2, old, new, give
    <3>. QED
      BY <3>1, <3>2
  <2>. HIDE DEF row, row2, p, share, old, new, give, taken
  <2>7. Balances' /\ AllMoved(give, taken)
    BY <1>2, <1>4, <2>2, <2>3 DEF Balances, AllMoved, Moved
  <2>9. RowBooks(m, row, row2, give, taken)
    BY <1>2, <1>4, <2>3, <2>4, <2>5, <2>6 DEF RowBooks, p
  <2>. QED
    BY <1>4, <2>3, <2>4, <2>7, <2>9, MultiMoves DEF row, row2
<1>. QED
  BY <1>7, <1>8

\* What expiry returns, as its parts
LEMMA ReturnedParts ==
    ASSUME NEW m \in Multis, NEW answers \in [Agents -> {"none", "accepted", "rejected"}]
    PROVE  SumFunctionOnSet(Share[m], {x \in Recipients(m) : answers[x] # "accepted"})
             = Part(m, answers, "none") + Part(m, answers, "rejected")
<1>. DEFINE f == Share[m]
            R == Recipients(m)
            B == {x \in R : answers[x] # "accepted"}
            N == {x \in R : answers[x] = "none"}
            J == {x \in R : answers[x] = "rejected"}
            b == [x \in R |-> IF x \in B THEN f[x] ELSE 0]
            n == [x \in R |-> IF x \in N THEN f[x] ELSE 0]
            j == [x \in R |-> IF x \in J THEN f[x] ELSE 0]
<1>1. /\ IsFiniteSet(R) /\ R \in SUBSET Agents
      /\ B \in SUBSET R /\ N \in SUBSET R /\ J \in SUBSET R
      /\ \A x \in R : f[x] \in Int
  BY ShareFacts
<1>2. \A x \in R : b[x] = n[x] + j[x] /\ n[x] \in Int /\ j[x] \in Int
  <2>1. \A x \in R : answers[x] \in {"none", "accepted", "rejected"} /\ f[x] \in Int
    BY <1>1
  <2>. HIDE DEF R, f
  <2>. QED
    BY <2>1
<1>3. \A x \in R : /\ b[x] = (IF x \in B THEN f[x] ELSE 0)
                   /\ n[x] = (IF x \in N THEN f[x] ELSE 0)
                   /\ j[x] = (IF x \in J THEN f[x] ELSE 0)
  OBVIOUS
<1>. HIDE DEF f, R, B, N, J, b, n, j
<1>4. SumFunctionOnSet(f, B) = SumFunctionOnSet(b, R)
  BY <1>1, <1>3, SumPart
<1>5. SumFunctionOnSet(f, N) = SumFunctionOnSet(n, R)
  BY <1>1, <1>3, SumPart
<1>6. SumFunctionOnSet(f, J) = SumFunctionOnSet(j, R)
  BY <1>1, <1>3, SumPart
<1>7. SumFunctionOnSet(b, R) = SumFunctionOnSet(n, R) + SumFunctionOnSet(j, R)
  BY <1>1, <1>2, SumPlus
<1>8. SumFunctionOnSet(f, B) = SumFunctionOnSet(f, N) + SumFunctionOnSet(f, J)
  BY <1>4, <1>5, <1>6, <1>7
<1>. QED
  BY <1>8 DEF Part, f, R, B, N, J

\* It is never less than what is still without an answer.
LEMMA ReturnsEnough ==
    ASSUME NEW m \in Multis, NEW read, NEW answers,
           \A x \in Agents : read[x] # "none" => answers[x] = read[x]
    PROVE  Part(m, answers, "none") <= SumFunctionOnSet(Share[m], {x \in Recipients(m) : read[x] # "accepted"})
<1>. DEFINE f == Share[m]
            R == Recipients(m)
            B == {x \in R : read[x] # "accepted"}
            N == {x \in R : answers[x] = "none"}
            b == [x \in R |-> IF x \in B THEN f[x] ELSE 0]
            n == [x \in R |-> IF x \in N THEN f[x] ELSE 0]
<1>1. /\ IsFiniteSet(R) /\ R \in SUBSET Agents
      /\ B \in SUBSET R /\ N \in SUBSET R
      /\ \A x \in R : f[x] \in Nat
  BY ShareFacts
<1>2. \A x \in R : x \in N => x \in B
  BY <1>1
<1>3. \A x \in R : /\ b[x] = (IF x \in B THEN f[x] ELSE 0)
                   /\ n[x] = (IF x \in N THEN f[x] ELSE 0)
  OBVIOUS
<1>. HIDE DEF f, R, B, N, b, n
<1>4. \A x \in R : f[x] \in Int /\ n[x] \in Int /\ b[x] \in Int /\ n[x] <= b[x]
  BY <1>1, <1>2, <1>3
<1>5. SumFunctionOnSet(f, B) = SumFunctionOnSet(b, R)
  BY <1>1, <1>3, <1>4, SumPart
<1>6. SumFunctionOnSet(f, N) = SumFunctionOnSet(n, R)
  BY <1>1, <1>3, <1>4, SumPart
<1>7. SumFunctionOnSet(n, R) <= SumFunctionOnSet(b, R)
  BY <1>1, <1>4, SumMonotone
<1>8. SumFunctionOnSet(f, N) <= SumFunctionOnSet(f, B)
  BY <1>5, <1>6, <1>7
<1>. QED
  BY <1>8 DEF Part, f, R, B, N

\* What expiry returns is an amount.
LEMMA ReturnedIsNat ==
    ASSUME NEW m \in Multis, NEW answers
    PROVE  ReturnedBy(m, answers) \in Nat
  BY ShareFacts DEF ReturnedBy

\* An agent none of whose payments was returned after it had ended, or twice
NoneReturnedTwice(a) ==
    \A m \in Multis : m \in overtaken' \/ ReturnsTwice(m)' => Sender[m] # a

\* What expiry takes off what the sender is out of is what it returns, or less.
LEMMA ReturnedRow ==
    ASSUME NEW m \in Multis, NEW row \in MultiRow, NEW row2,
           row.state = "PENDING", row2.state = "EXPIRED", row2.answers = row.answers,
           NEW read \in [Agents -> {"none", "accepted", "rejected"}],
           \A x \in Agents : read[x] # "none" => row.answers[x] = read[x]
    PROVE  /\ RowSpent(row, m) <= RowSpent(row2, m) + ReturnedBy(m, read)
           /\ \/ ReturnedBy(m, read) # ReturnedBy(m, row.answers)
              \/ m \notin AllOrNothing /\ \E x \in Recipients(m) : row.answers[x] = "rejected"
              \/ RowSpent(row, m) = RowSpent(row2, m) + ReturnedBy(m, read)
<1>1. row.answers \in [Agents -> {"none", "accepted", "rejected"}]
  BY DEF MultiRow
<1>2. CASE m \in AllOrNothing
  <2>1. /\ RowSpent(row, m) = TotalOf(m) /\ RowSpent(row2, m) = 0
        /\ ReturnedBy(m, read) = TotalOf(m) /\ TotalOf(m) \in Nat
    BY <1>2, ShareFacts DEF RowSpent, ReturnedBy
  <2>. QED
    BY <2>1
<1>3. CASE m \notin AllOrNothing
  <2>. DEFINE accepted == Part(m, row.answers, "accepted")
              none == Part(m, row.answers, "none")
              rejected == Part(m, row.answers, "rejected")
              back == ReturnedBy(m, read)
  <2>1. RowSpent(row, m) = accepted + none /\ RowSpent(row2, m) = accepted + 0
    BY <1>3 DEF RowSpent
  <2>2. none <= back
    BY <1>3, ReturnsEnough DEF ReturnedBy
  <2>3. ReturnedBy(m, row.answers) = none + rejected
    BY <1>1, <1>3, ReturnedParts DEF ReturnedBy
  <2>4. (\A x \in Recipients(m) : row.answers[x] # "rejected") => rejected = 0
    BY NoneLeft
  <2>5. accepted \in Nat /\ none \in Nat /\ rejected \in Nat /\ back \in Nat
    BY PartIsNat, ReturnedIsNat
  <2>. HIDE DEF accepted, none, rejected, back
  <2>6. RowSpent(row, m) <= RowSpent(row2, m) + back
    BY <2>1, <2>2, <2>5
  <2>7. ASSUME back = ReturnedBy(m, row.answers),
               \A x \in Recipients(m) : row.answers[x] # "rejected"
        PROVE  RowSpent(row, m) = RowSpent(row2, m) + back
    BY <2>1, <2>3, <2>4, <2>5, <2>7
  <2>. QED
    BY <1>3, <2>6, <2>7 DEF back
<1>. QED
  BY <1>2, <1>3

\* Expiry
LEMMA MultiExpiryMoney ==
    ASSUME RowsTypeOK, Balances, ReadsHold, NEW w \in fleet, FinishMultiExpiry(w)
    PROVE  /\ Balances'
           /\ \A a \in Agents : /\ MultisCover(a)
                                /\ NoneReturnedTwice(a) => MultisAgree(a)
<1>. DEFINE q == MultiAccount(multi)
            r == MultiAccount(multi')
            b == balance
            d == balance'
            stale == work[w].stale
            read == work[w].answers
            Back(m) == IF m \in stale THEN ReturnedBy(m, read[m]) ELSE 0
            give == [m \in Multis |-> To(Sender[m], Back(m))]
<1>1. /\ stale \in SUBSET Multis
      /\ \A m \in Multis : read[m] \in [Agents -> {"none", "accepted", "rejected"}]
  <2>1. work[w] \in ExpiryJob
    BY AtWork, Jobs DEF FinishMultiExpiry
  <2>. QED
    BY <2>1 DEF ExpiryJob
<1>2. \A m \in Multis : Back(m) \in Nat /\ Sender[m] \in Agents
  BY ReturnedIsNat, ShareFacts
<1>3. \A m \in Multis :
          /\ m \in stale /\ multi[m].state = "PENDING" =>
                multi'[m].state = "EXPIRED" /\ multi'[m].answers = multi[m].answers
          /\ ~(m \in stale /\ multi[m].state = "PENDING") => multi'[m] = multi[m]
  BY DEF FinishMultiExpiry, RowsTypeOK, MultisType, MultiRow, Waiting
<1>4. balance' = [a \in Agents |-> balance[a]
            + SumFunction([m \in {m \in stale : Sender[m] = a} |-> ReturnedBy(m, read[m])])]
  BY DEF FinishMultiExpiry, CreditAll
<1>5. \A m \in Multis : /\ give[m] \in [Agents -> Nat]
                        /\ \A a \in Agents : give[m][a] = (IF a = Sender[m] THEN Back(m) ELSE 0)
  <2>1. \A m \in Multis : give[m] = To(Sender[m], Back(m))
    OBVIOUS
  <2>. HIDE DEF Back, give
  <2>. QED
    BY <1>2, <2>1, ToOne
<1>6. give \in [Multis -> [Agents -> Nat]]
  BY <1>5
<1>7. \A a \in Agents :
          /\ d[a] = b[a] + SumFunctionOnSet([m \in Multis |-> give[m][a]], Multis)
          /\ d[a] \in Nat
  <2>. TAKE a \in Agents
  <2>. DEFINE S == {m \in stale : Sender[m] = a}
              f == [m \in S |-> ReturnedBy(m, read[m])]
              h == [m \in Multis |-> give[m][a]]
  <2>1. S \in SUBSET Multis /\ DOMAIN f = S
    BY <1>1
  <2>2. /\ \A m \in Multis : h[m] = IF m \in S THEN f[m] ELSE 0
        /\ \A m \in S : f[m] \in Nat
    BY <1>1, <1>5, ReturnedIsNat
  <2>3. d[a] = b[a] + SumFunction(f)
    BY <1>4
  <2>. HIDE DEF S, f, h, give
  <2>4. SumFunctionOnSet(f, S) = SumFunctionOnSet(h, Multis)
    BY <2>1, <2>2, FiniteAgreements, SumPart
  <2>5. SumFunctionOnSet(h, Multis) \in Nat
    BY <2>2, FiniteAgreements, SumNat
  <2>6. d[a] = b[a] + SumFunctionOnSet(h, Multis) /\ d[a] \in Nat
    BY <2>1, <2>3, <2>4, <2>5 DEF SumFunction, Balances
  <2>. QED
    BY <2>6 DEF h
<1>8. /\ q \in Accounts(Multis) /\ r \in Accounts(Multis)
      /\ b \in [Agents -> Nat] /\ d \in [Agents -> Nat]
  BY <1>4, <1>7, MultiCounts DEF Balances
<1>9. \A m \in stale : ~(multi[m].state = "PENDING"
                              /\ ReturnedBy(m, read[m]) = ReturnedBy(m, multi[m].answers))
                         => m \in overtaken'
  BY DEF FinishMultiExpiry, Overtakes, Waiting
<1>10. ASSUME NEW a \in Agents
       PROVE  /\ Covers(Multis, q, r, b, d, a)
              /\ NoneReturnedTwice(a) => Agrees(Multis, q, r, b, d, a)
  <2>. DEFINE g == [m \in Multis |-> give[m][a]]
  <2>1. ASSUME NEW m \in Multis
        PROVE  /\ r.gave[a][m] + q.got[a][m] + g[m] >= q.gave[a][m] + r.got[a][m]
               /\ NoneReturnedTwice(a) =>
                    r.gave[a][m] + q.got[a][m] + g[m] = q.gave[a][m] + r.got[a][m]
    <3>. DEFINE row == multi[m]
                row2 == multi'[m]
    <3>1. /\ q.got[a][m] = RowPaid(row, m, a) /\ r.got[a][m] = RowPaid(row2, m, a)
          /\ q.gave[a][m] = (IF Sender[m] = a THEN RowSpent(row, m) ELSE 0)
          /\ r.gave[a][m] = (IF Sender[m] = a THEN RowSpent(row2, m) ELSE 0)
      BY MultiCounts
    <3>2. g[m] = (IF a = Sender[m] THEN Back(m) ELSE 0)
      BY <1>5
    <3>3. /\ RowPaid(row, m, a) \in Nat /\ RowSpent(row, m) \in Nat
          /\ RowPaid(row2, m, a) \in Nat /\ RowSpent(row2, m) \in Nat /\ Back(m) \in Nat
      BY <1>2, RowCounts
    <3>4. CASE m \notin stale
      <4>1. row2 = row /\ Back(m) = 0
        BY <1>3, <3>4
      <4>. HIDE DEF q, r, give, g, Back, row, row2
      <4>. QED
        BY <3>1, <3>2, <3>3, <4>1
    <3>5. CASE m \in stale /\ row.state # "PENDING"
      <4>1. row2 = row /\ (NoneReturnedTwice(a) => Sender[m] # a)
        BY <1>3, <1>9, <3>5 DEF NoneReturnedTwice
      <4>. HIDE DEF q, r, give, g, Back, row, row2
      <4>. QED
        BY <3>1, <3>2, <3>3, <4>1
    <3>6. CASE m \in stale /\ row.state = "PENDING"
      <4>1. row2.state = "EXPIRED" /\ row2.answers = row.answers /\ row \in MultiRow
        BY <1>3, <3>6 DEF RowsTypeOK, MultisType
      <4>2. \A x \in Agents : read[m][x] # "none" => row.answers[x] = read[m][x]
        BY DEF ReadsHold, FinishMultiExpiry
      <4>3. Back(m) = ReturnedBy(m, read[m])
        BY <3>6
      <4>4. /\ RowSpent(row, m) <= RowSpent(row2, m) + Back(m)
            /\ \/ ReturnedBy(m, read[m]) # ReturnedBy(m, row.answers)
               \/ m \notin AllOrNothing /\ \E x \in Recipients(m) : row.answers[x] = "rejected"
               \/ RowSpent(row, m) = RowSpent(row2, m) + Back(m)
        <5>. HIDE DEF row, row2, read, Back
        <5>. QED
          BY <1>1, <3>6, <4>1, <4>2, <4>3, ReturnedRow
      <4>5. ASSUME NoneReturnedTwice(a), Sender[m] = a
            PROVE  RowSpent(row, m) = RowSpent(row2, m) + Back(m)
        <5>1. m \notin overtaken' /\ ~ReturnsTwice(m)'
          BY <4>5 DEF NoneReturnedTwice
        <5>2. ReturnedBy(m, read[m]) = ReturnedBy(m, row.answers)
          BY <1>9, <3>6, <5>1
        <5>3. ~(m \notin AllOrNothing /\ \E x \in Recipients(m) : row.answers[x] = "rejected")
          BY <4>1, <5>1 DEF ReturnsTwice
        <5>. QED
          BY <4>4, <5>2, <5>3
      <4>6. RowPaid(row2, m, a) = RowPaid(row, m, a)
        BY <3>6, <4>1 DEF RowPaid
      <4>. HIDE DEF q, r, give, g, Back, row, row2
      <4>. QED
        BY <3>1, <3>2, <3>3, <4>4, <4>5, <4>6
    <3>. QED
      BY <3>4, <3>5, <3>6
  <2>2. g \in [Multis -> Nat] /\ d[a] = b[a] + SumFunctionOnSet(g, Multis)
    BY <1>6, <1>7
  <2>. HIDE DEF q, r, b, d, g, give
  <2>. QED
    BY <1>8, <2>1, <2>2, FiniteAgreements, AllMove
<1>11. Balances'
  BY <1>8 DEF Balances
<1>. QED
  BY <1>10, <1>11 DEF MultisCover, MultisAgree

\* Every step of the multi-party payments
LEMMA MultisMoney ==
    ASSUME RowsTypeOK, Balances, ReadsHold, NewIsUnanswered, MultisNext
    PROVE  /\ Balances'
           /\ \A a \in Agents : /\ MultisCover(a)
                                /\ NoneReturnedTwice(a) => MultisAgree(a)
<1>1. ASSUME NEW m \in Multis, MultiOverdue(m)
      PROVE  Balances' /\ \A a \in Agents : MultisAgree(a)
  <2>1. /\ balance' = balance
        /\ \A n \in Multis : multi'[n].state = multi[n].state /\ multi'[n].answers = multi[n].answers
    BY <1>1 DEF MultiOverdue, RowsTypeOK, MultisType, MultiRow
  <2>. QED
    BY <2>1, MultisStill
<1>2. ASSUME NEW w \in fleet, BeginMultiExpiry(w)
      PROVE  Balances' /\ \A a \in Agents : MultisAgree(a)
  BY <1>2, MultisStill DEF BeginMultiExpiry
<1>3. ASSUME Balances', NEW a \in Agents, MultisAgree(a)
      PROVE  MultisCover(a)
  <2>1. MultiAccount(multi) \in Accounts(Multis) /\ MultiAccount(multi') \in Accounts(Multis)
    BY MultiCounts
  <2>. QED
    BY <1>3, <2>1, FiniteAgreements, AgreesCovers DEF Balances, MultisAgree, MultisCover
<1>. QED
  BY <1>1, <1>2, <1>3, CreateMultiMoney, AcceptTogetherMoney, RejectTogetherMoney, ShareMoney,
     MultiExpiryMoney DEF MultisNext

(***************************************************************************)
(* What the transactions under way have read                               *)
(***************************************************************************)

\* An answer stays, and a payment that is not created yet has not been touched.
AnswersStay ==
    \A m \in Multis :
        /\ \A a \in Agents : multi[m].answers[a] # "none"
                                => multi'[m].answers[a] = multi[m].answers[a]
        /\ multi'[m].state = "NONE"
                => multi[m].state = "NONE" /\ multi'[m].answers = multi[m].answers

\* Only the begin of a pass or of an expiry adds one.
NoReadStarts ==
    \A v \in fleet : work'[v] = work[v] \/ work'[v].kind \notin {"pass", "expiry"}

\* An answer is saved once.
LEMMA SavedAnswersStay ==
    ASSUME RowsTypeOK, NEW m \in Multis, NEW x \in Agents, MayAnswer(m, x),
           NEW answer, NEW s \in {"PENDING", "COMPLETED", "REJECTED"},
           Saves(m, Answered(m, x, answer), s)
    PROVE  AnswersStay
<1>1. multi \in [Multis -> MultiRow] /\ multi[m].answers \in [Agents -> {"none", "accepted", "rejected"}]
  BY DEF RowsTypeOK, MultisType, MultiRow
<1>2. multi[m].answers[x] = "none"
  BY DEF MayAnswer
<1>3. /\ multi'[m].state = s
      /\ multi'[m].answers = [multi[m].answers EXCEPT ![x] = answer]
      /\ \A n \in Multis : n # m => multi'[n] = multi[n]
  BY <1>1 DEF Saves, Answered, MultiRow
<1>4. \A a \in Agents : multi[m].answers[a] # "none"
                           => multi'[m].answers[a] = multi[m].answers[a]
  BY <1>1, <1>2, <1>3
<1>. QED
  BY <1>3, <1>4 DEF AnswersStay

\* No step of the multi-party payments replaces an answer.
LEMMA MultisAnswersStay ==
    ASSUME RowsTypeOK, MultisNext
    PROVE  AnswersStay
<1>1. multi \in [Multis -> MultiRow]
  BY DEF RowsTypeOK, MultisType
<1>2. ASSUME NEW m \in Multis, MultiOverdue(m)
      PROVE  AnswersStay
  <2>1. \A n \in Multis : multi'[n].state = multi[n].state /\ multi'[n].answers = multi[n].answers
    BY <1>1, <1>2 DEF MultiOverdue, MultiRow
  <2>. QED
    BY <2>1 DEF AnswersStay
<1>3. ASSUME NEW w \in fleet, BeginMultiExpiry(w)
      PROVE  AnswersStay
  BY <1>3 DEF BeginMultiExpiry, AnswersStay
<1>4. ASSUME NEW w \in fleet, FinishMultiExpiry(w)
      PROVE  AnswersStay
  <2>1. \A n \in Multis : /\ multi'[n].state \in {multi[n].state, "EXPIRED"}
                          /\ multi'[n].answers = multi[n].answers
    BY <1>1, <1>4 DEF FinishMultiExpiry, MultiRow
  <2>. QED
    BY <2>1 DEF AnswersStay
<1>5. ASSUME NEW w \in fleet, NEW m \in Multis, CreateMulti(w, m)
      PROVE  AnswersStay
  <2>1. \A n \in Multis : /\ multi'[n].state \in {multi[n].state, "PENDING"}
                          /\ multi'[n].answers = multi[n].answers
    BY <1>1, <1>5 DEF CreateMulti, MultiRow
  <2>. QED
    BY <2>1 DEF AnswersStay
<1>6. ASSUME NEW w \in fleet, NEW m \in Multis, NEW x \in Agents,
             \/ AcceptTogether(w, m, x) \/ AcceptShare(w, m, x)
             \/ RejectTogether(w, m, x) \/ RejectShare(w, m, x)
      PROVE  AnswersStay
  <2>1. MayAnswer(m, x)
    BY <1>6 DEF AcceptTogether, AcceptShare, RejectTogether, RejectShare
  <2>2. \E s \in {"PENDING", "COMPLETED", "REJECTED"}, answer \in {"accepted", "rejected"} :
            Saves(m, Answered(m, x, answer), s)
    <3>1. CASE AcceptTogether(w, m, x)
      BY <3>1 DEF AcceptTogether
    <3>2. CASE AcceptShare(w, m, x)
      BY <3>2 DEF AcceptShare, OnceAnswered
    <3>3. CASE RejectTogether(w, m, x)
      BY <3>3 DEF RejectTogether
    <3>4. CASE RejectShare(w, m, x)
      BY <3>4 DEF RejectShare, OnceAnswered
    <3>. QED
      BY <1>6, <3>1, <3>2, <3>3, <3>4
  <2>. QED
    BY <2>1, <2>2, SavedAnswersStay
<1>. QED
  BY <1>2, <1>3, <1>4, <1>5, <1>6 DEF MultisNext

\* What a transaction has read goes on holding as long as answers stay.
LEMMA HoldStays ==
    ASSUME UNCHANGED deployment, ReadsHold, AnswersStay, NoReadStarts
    PROVE  ReadsHold'
<1>1. fleet' = fleet
  BY DEF fleet
<1>. SUFFICES ASSUME NEW v \in fleet
              PROVE  /\ work'[v].kind = "pass" => work'[v].met \cap work'[v].stale = {}
                     /\ work'[v].kind = "expiry" =>
                          \A m \in Multis, a \in Agents :
                              work'[v].answers[m][a] # "none"
                                => multi'[m].answers[a] = work'[v].answers[m][a]
  BY <1>1 DEF ReadsHold
<1>2. CASE work'[v] = work[v]
  BY <1>2 DEF ReadsHold, AnswersStay
<1>3. CASE work'[v].kind \notin {"pass", "expiry"}
  BY <1>3
<1>. QED
  BY <1>2, <1>3 DEF NoReadStarts

\* A payment that is not created yet goes on having no answers.
LEMMA UnansweredStays ==
    ASSUME NewIsUnanswered, AnswersStay
    PROVE  NewIsUnanswered'
  BY DEF NewIsUnanswered, AnswersStay

\* With one process, nothing else is under way when a request is served or a
\* transaction ends.
LEMMA NothingRead ==
    ASSUME RowsTypeOK, UNCHANGED deployment, NEW w \in fleet, Serves(w) \/ Ends(w)
    PROVE  ReadsAreCurrent' /\ NoReadStarts
<1>1. fleet' = fleet /\ (Alone' <=> Alone)
  BY DEF fleet, Alone
<1>2. work'[w].kind = "idle"
  BY AtWork DEF Serves, Ends, Free, Idle, RowsTypeOK
<1>3. NoReadStarts
  BY <1>2, AtWork DEF NoReadStarts, Serves, Ends, RowsTypeOK
<1>4. Alone => \A v \in fleet : v = w
  BY DEF Alone
<1>. QED
  BY <1>1, <1>2, <1>3, <1>4 DEF ReadsAreCurrent

\* A step that leaves what is read as it is
RowsAsRead ==
    /\ \A c \in Conditionals : conditional'[c].state = conditional[c].state
    /\ \A m \in Multis : multi'[m].state = multi[m].state /\ multi'[m].answers = multi[m].answers

\* What a transaction has read is still so after a step that leaves it as it is.
LEMMA CurrentStays ==
    ASSUME RowsTypeOK, UNCHANGED deployment, ReadsAreCurrent, RowsAsRead,
           NEW v \in fleet, work'[v] = work[v], Alone
    PROVE  /\ work'[v].kind = "pass" =>
                \A c \in work'[v].met \cup work'[v].stale : conditional'[c].state = "PENDING"
           /\ work'[v].kind = "expiry" =>
                /\ \A m \in work'[v].stale : multi'[m].state = "PENDING"
                /\ work'[v].answers = [m \in Multis |-> multi'[m].answers]
<1>1. work[v] \in Job
  BY AtWork
<1>2. ASSUME work[v].kind = "pass"
      PROVE  \A c \in work[v].met \cup work[v].stale : conditional'[c].state = "PENDING"
  <2>1. work[v].met \cup work[v].stale \subseteq Conditionals
    BY <1>1, <1>2, Jobs DEF PassJob
  <2>. QED
    BY <1>2, <2>1 DEF ReadsAreCurrent, RowsAsRead, Pending
<1>3. ASSUME work[v].kind = "expiry"
      PROVE  /\ \A m \in work[v].stale : multi'[m].state = "PENDING"
             /\ work[v].answers = [m \in Multis |-> multi'[m].answers]
  <2>1. work[v].stale \subseteq Multis
    BY <1>1, <1>3, Jobs DEF ExpiryJob
  <2>. QED
    BY <1>3, <2>1 DEF ReadsAreCurrent, RowsAsRead, Waiting
<1>. QED
  BY <1>2, <1>3

\* The world turns while a transaction is under way.
LEMMA WorldTurns ==
    ASSUME RowsTypeOK, ReadsAreCurrent, RowsAsRead, UNCHANGED <<deployment, work>>
    PROVE  ReadsAreCurrent' /\ NoReadStarts
<1>1. fleet' = fleet /\ (Alone' <=> Alone)
  BY DEF fleet, Alone
<1>2. NoReadStarts
  BY DEF NoReadStarts
<1>3. ASSUME Alone, NEW v \in fleet
      PROVE  /\ work'[v].kind = "pass" =>
                \A c \in work'[v].met \cup work'[v].stale : conditional'[c].state = "PENDING"
             /\ work'[v].kind = "expiry" =>
                /\ \A m \in work'[v].stale : multi'[m].state = "PENDING"
                /\ work'[v].answers = [m \in Multis |-> multi'[m].answers]
  BY <1>3, CurrentStays
<1>. QED
  BY <1>1, <1>2, <1>3 DEF ReadsAreCurrent, Pending, Waiting

\* The steps of the conditional payments and what was read
LEMMA ConditionalsReads ==
    ASSUME RowsTypeOK, ReadsHold, ReadsAreCurrent, NewIsUnanswered, ConditionalsNext,
           UNCHANGED <<deployment, multi>>
    PROVE  ReadsHold' /\ ReadsAreCurrent' /\ NewIsUnanswered'
<1>1. AnswersStay /\ NewIsUnanswered'
  BY DEF AnswersStay, NewIsUnanswered
<1>2. conditional \in [Conditionals -> ConditionalRow]
  BY DEF RowsTypeOK, ConditionalsType
<1>3. ASSUME NEW c \in Conditionals, ConditionalOverdue(c) \/ Occurs(c)
      PROVE  ReadsHold' /\ ReadsAreCurrent'
  <2>1. RowsAsRead /\ work' = work
    BY <1>2, <1>3 DEF ConditionalOverdue, Occurs, RowsAsRead, ConditionalRow
  <2>. QED
    BY <1>1, <2>1, WorldTurns, HoldStays
<1>4. ASSUME NEW w \in fleet, BeginPass(w)
      PROVE  ReadsHold' /\ ReadsAreCurrent'
  <2>1. PICK met \in MetSets : Starts(w, [kind |-> "pass", met |-> met, stale |-> Stale(met)])
    BY <1>4 DEF BeginPass
  <2>. DEFINE job == [kind |-> "pass", met |-> met, stale |-> Stale(met)]
  <2>2. /\ \A c \in met \cup Stale(met) : conditional'[c].state = "PENDING"
        /\ met \cap Stale(met) = {}
    BY <1>4 DEF BeginPass, MetSets, Stale, Pending, conditionalVars
  <2>3. /\ job.kind = "pass" /\ job.met \cap job.stale = {}
        /\ \A c \in job.met \cup job.stale : conditional'[c].state = "PENDING"
    BY <2>2
  <2>. HIDE DEF job
  <2>4. work'[w] = job /\ \A v \in fleet : v # w => work'[v] = work[v]
    BY <2>1, AtWork DEF Starts, RowsTypeOK, job
  <2>5. fleet' = fleet /\ (Alone' <=> Alone)
    BY DEF fleet, Alone
  <2>6. ReadsHold'
    BY <2>3, <2>4, <2>5 DEF ReadsHold
  <2>7. ReadsAreCurrent'
    <3>1. Alone => \A v \in fleet : v = w
      BY DEF Alone
    <3>. QED
      BY <2>3, <2>4, <2>5, <3>1 DEF ReadsAreCurrent, Pending
  <2>. QED
    BY <2>6, <2>7
<1>5. ASSUME NEW w \in fleet, FinishPass(w)
      PROVE  ReadsHold' /\ ReadsAreCurrent'
  BY <1>1, <1>5, NothingRead, HoldStays DEF FinishPass
<1>6. ASSUME NEW w \in fleet, NEW c \in Conditionals,
             CreateConditional(w, c) \/ TriggerConditional(w, c) \/ CancelConditional(w, c)
      PROVE  ReadsHold' /\ ReadsAreCurrent'
  BY <1>1, <1>6, NothingRead, HoldStays
     DEF CreateConditional, TriggerConditional, CancelConditional
<1>. QED
  BY <1>1, <1>3, <1>4, <1>5, <1>6 DEF ConditionalsNext

\* The steps of the multi-party payments and what was read
LEMMA MultisReads ==
    ASSUME RowsTypeOK, ReadsHold, ReadsAreCurrent, NewIsUnanswered, MultisNext,
           UNCHANGED <<deployment, conditionalVars>>
    PROVE  ReadsHold' /\ ReadsAreCurrent' /\ NewIsUnanswered'
<1>1. AnswersStay /\ NewIsUnanswered'
  BY MultisAnswersStay, UnansweredStays
<1>2. multi \in [Multis -> MultiRow]
  BY DEF RowsTypeOK, MultisType
<1>3. ASSUME NEW m \in Multis, MultiOverdue(m)
      PROVE  ReadsHold' /\ ReadsAreCurrent'
  <2>1. RowsAsRead /\ work' = work
    BY <1>2, <1>3 DEF MultiOverdue, RowsAsRead, conditionalVars, MultiRow
  <2>. QED
    BY <1>1, <2>1, WorldTurns, HoldStays
<1>4. ASSUME NEW w \in fleet, BeginMultiExpiry(w)
      PROVE  ReadsHold' /\ ReadsAreCurrent'
  <2>. DEFINE stale == {m \in Multis : Waiting(m) /\ multi[m].overdue}
              answers == [m \in Multis |-> multi[m].answers]
              job == [kind |-> "expiry", stale |-> stale, answers |-> answers]
  <2>1. /\ job.kind = "expiry" /\ job.stale \subseteq Multis
        /\ \A m \in job.stale : multi[m].state = "PENDING"
        /\ job.answers = [m \in Multis |-> multi[m].answers]
    BY DEF Waiting
  <2>2. Starts(w, job) /\ multi' = multi
    BY <1>4 DEF BeginMultiExpiry
  <2>. HIDE DEF job
  <2>3. work'[w] = job /\ \A v \in fleet : v # w => work'[v] = work[v]
    BY <2>2, AtWork DEF Starts, RowsTypeOK
  <2>4. fleet' = fleet /\ (Alone' <=> Alone)
    BY DEF fleet, Alone
  <2>5. ReadsHold'
    BY <2>1, <2>2, <2>3, <2>4 DEF ReadsHold
  <2>6. ReadsAreCurrent'
    <3>1. Alone => \A v \in fleet : v = w
      BY DEF Alone
    <3>. QED
      BY <2>1, <2>2, <2>3, <2>4, <3>1 DEF ReadsAreCurrent, Waiting
  <2>. QED
    BY <2>5, <2>6
<1>5. ASSUME NEW w \in fleet, FinishMultiExpiry(w)
      PROVE  ReadsHold' /\ ReadsAreCurrent'
  BY <1>1, <1>5, NothingRead, HoldStays DEF FinishMultiExpiry
<1>6. ASSUME NEW w \in fleet, NEW m \in Multis,
             \/ CreateMulti(w, m)
             \/ \E x \in Agents : \/ AcceptTogether(w, m, x) \/ AcceptShare(w, m, x)
                                  \/ RejectTogether(w, m, x) \/ RejectShare(w, m, x)
      PROVE  ReadsHold' /\ ReadsAreCurrent'
  <2>1. Serves(w)
    BY <1>6 DEF CreateMulti, AcceptTogether, AcceptShare, RejectTogether, RejectShare
  <2>. QED
    BY <1>1, <2>1, NothingRead, HoldStays
<1>. QED
  BY <1>1, <1>3, <1>4, <1>5, <1>6 DEF MultisNext

\* What the transactions have read stays so, step by step.
LEMMA ReadsStep ==
    ASSUME RowsTypeOK, ReadsHold, ReadsAreCurrent, NewIsUnanswered, [Next]_vars
    PROVE  ReadsHold' /\ ReadsAreCurrent' /\ NewIsUnanswered'
<1>1. CASE \E w \in fleet : Abort(w) /\ UNCHANGED deployment
  <2>1. PICK w \in fleet : Ends(w) /\ UNCHANGED <<multi, conditionalVars>>
    BY <1>1 DEF Abort
  <2>2. AnswersStay /\ NewIsUnanswered'
    BY <2>1 DEF AnswersStay, NewIsUnanswered
  <2>. QED
    BY <1>1, <2>1, <2>2, NothingRead, HoldStays
<1>2. CASE UNCHANGED vars
  <2>1. /\ RowsAsRead /\ AnswersStay /\ NewIsUnanswered'
        /\ UNCHANGED <<deployment, work>>
    BY <1>2 DEF vars, conditionalVars, RowsAsRead, AnswersStay, NewIsUnanswered
  <2>. QED
    BY <2>1, WorldTurns, HoldStays
<1>. QED
  BY <1>1, <1>2, ConditionalsReads, MultisReads DEF Next

(***************************************************************************)
(* The money of all agreements                                             *)
(***************************************************************************)

\* An agent's balance in b is what the accounts of the two kinds say ...
AllAgree(b, c, m, a) ==
    b[a] + SumFunctionOnSet(c.gave[a], Conditionals) + SumFunctionOnSet(m.gave[a], Multis)
      = Funds[a] + SumFunctionOnSet(c.got[a], Conditionals) + SumFunctionOnSet(m.got[a], Multis)

\* ... or that at least.
AllCover(b, c, m, a) ==
    b[a] + SumFunctionOnSet(c.gave[a], Conditionals) + SumFunctionOnSet(m.gave[a], Multis)
      >= Funds[a] + SumFunctionOnSet(c.got[a], Conditionals) + SumFunctionOnSet(m.got[a], Multis)

\* What an agent starts with is an amount.
LEMMA FundsAreNat == \A a \in Agents : Funds[a] \in Nat
  BY LedgerAssumption

\* What one kind does to an agent's balance and its own account is right for both.
LEMMA OneKindMoves ==
    ASSUME NEW b \in [Agents -> Nat], NEW d \in [Agents -> Nat], NEW a \in Agents,
           NEW c \in Accounts(Conditionals), NEW e \in Accounts(Conditionals),
           NEW m \in Accounts(Multis), NEW n \in Accounts(Multis),
           \/ e = c /\ Covers(Multis, m, n, b, d, a)
           \/ n = m /\ Covers(Conditionals, c, e, b, d, a)
    PROVE  /\ AllCover(b, c, m, a) => AllCover(d, e, n, a)
           /\ \/ e = c /\ Agrees(Multis, m, n, b, d, a)
              \/ n = m /\ Agrees(Conditionals, c, e, b, d, a)
              => (AllAgree(b, c, m, a) => AllAgree(d, e, n, a))
<1>. DEFINE cg == SumFunctionOnSet(c.gave[a], Conditionals)
            ct == SumFunctionOnSet(c.got[a], Conditionals)
            eg == SumFunctionOnSet(e.gave[a], Conditionals)
            et == SumFunctionOnSet(e.got[a], Conditionals)
            mg == SumFunctionOnSet(m.gave[a], Multis)
            mt == SumFunctionOnSet(m.got[a], Multis)
            ng == SumFunctionOnSet(n.gave[a], Multis)
            nt == SumFunctionOnSet(n.got[a], Multis)
            f == Funds[a]
            x == b[a]
            y == d[a]
<1>1. /\ cg \in Nat /\ ct \in Nat /\ eg \in Nat /\ et \in Nat
      /\ mg \in Nat /\ mt \in Nat /\ ng \in Nat /\ nt \in Nat
      /\ f \in Nat /\ x \in Nat /\ y \in Nat
  BY FundsAreNat, FiniteAgreements, AccountSums
<1>2. /\ e = c => eg = cg /\ et = ct
      /\ n = m => ng = mg /\ nt = mt
  OBVIOUS
<1>3. /\ Agrees(Conditionals, c, e, b, d, a) => y + eg + ct = x + cg + et
      /\ Agrees(Multis, m, n, b, d, a) => y + ng + mt = x + mg + nt
      /\ Covers(Conditionals, c, e, b, d, a) => y + eg + ct >= x + cg + et
      /\ Covers(Multis, m, n, b, d, a) => y + ng + mt >= x + mg + nt
  BY DEF Agrees, Covers
<1>4. /\ AllAgree(b, c, m, a) <=> x + cg + mg = f + ct + mt
      /\ AllAgree(d, e, n, a) <=> y + eg + ng = f + et + nt
      /\ AllCover(b, c, m, a) <=> x + cg + mg >= f + ct + mt
      /\ AllCover(d, e, n, a) <=> y + eg + ng >= f + et + nt
  BY DEF AllAgree, AllCover
<1>. HIDE DEF cg, ct, eg, et, mg, mt, ng, nt, f, x, y
<1>5. ASSUME e = c, Covers(Multis, m, n, b, d, a)
      PROVE  AllCover(b, c, m, a) => AllCover(d, e, n, a)
  BY <1>1, <1>2, <1>3, <1>4, <1>5
<1>6. ASSUME n = m, Covers(Conditionals, c, e, b, d, a)
      PROVE  AllCover(b, c, m, a) => AllCover(d, e, n, a)
  BY <1>1, <1>2, <1>3, <1>4, <1>6
<1>7. ASSUME e = c, Agrees(Multis, m, n, b, d, a)
      PROVE  AllAgree(b, c, m, a) => AllAgree(d, e, n, a)
  BY <1>1, <1>2, <1>3, <1>4, <1>7
<1>8. ASSUME n = m, Agrees(Conditionals, c, e, b, d, a)
      PROVE  AllAgree(b, c, m, a) => AllAgree(d, e, n, a)
  BY <1>1, <1>2, <1>3, <1>4, <1>8
<1>. QED
  BY <1>5, <1>6, <1>7, <1>8

(***************************************************************************)
(* Who was overtaken                                                       *)
(***************************************************************************)

\* The doubts about an agent's money do not go away: "overtaken" grows, and a
\* payment that has expired keeps its answers.
LEMMA DoubtsStay ==
    ASSUME RowsTypeOK, [Next]_vars
    PROVE  \A a \in Agents : RefundedTwice(a) => RefundedTwice(a)'
<1>1. overtaken \subseteq overtaken'
  <2>1. ConditionalsNext => overtaken \subseteq overtaken'
    BY DEF ConditionalsNext, FinishPass, Overtakes
  <2>2. MultisNext => overtaken \subseteq overtaken'
    BY DEF MultisNext, FinishMultiExpiry, Overtakes
  <2>. QED
    BY <2>1, <2>2 DEF Next, Abort, vars
<1>2. \A m \in Multis : ReturnsTwice(m) => ReturnsTwice(m)'
  <2>1. EndsStay
    BY RowsStep
  <2>. QED
    BY <2>1 DEF EndsStay, ReturnsTwice
<1>. QED
  BY <1>1, <1>2 DEF RefundedTwice

\* With one process no transaction is overtaken.
NothingOvertaken == Alone => overtaken = {}

LEMMA NothingIsOvertaken ==
    ASSUME RowsTypeOK, ReadsAreCurrent, NothingOvertaken, [Next]_vars
    PROVE  NothingOvertaken'
<1>1. Alone' <=> Alone
  BY DEF Next, vars, Alone, fleet
<1>. SUFFICES ASSUME Alone PROVE overtaken' = {}
  BY <1>1 DEF NothingOvertaken
<1>2. overtaken = {}
  BY DEF NothingOvertaken
<1>3. ASSUME NEW w \in fleet, FinishPass(w)
      PROVE  overtaken' = {}
  BY <1>2, <1>3 DEF FinishPass, Overtakes, Refunds, ReadsAreCurrent
<1>4. ASSUME NEW w \in fleet, FinishMultiExpiry(w)
      PROVE  overtaken' = {}
  <2>1. work[w] \in ExpiryJob
    BY <1>4, AtWork, Jobs DEF FinishMultiExpiry
  <2>2. /\ work[w].stale \in SUBSET Multis
        /\ \A m \in work[w].stale : Waiting(m)
        /\ work[w].answers = [m \in Multis |-> multi[m].answers]
    <3>1. work[w].kind = "expiry" /\ work[w].stale \in SUBSET Multis
      BY <2>1 DEF ExpiryJob
    <3>. QED
      BY <3>1 DEF ReadsAreCurrent
  <2>. QED
    BY <1>2, <1>4, <2>2 DEF FinishMultiExpiry, Overtakes
<1>. QED
  BY <1>2, <1>3, <1>4 DEF Next, ConditionalsNext, MultisNext, Abort, vars

(***************************************************************************)
(* The inductive invariant                                                 *)
(***************************************************************************)

\* The two properties of the money, over the accounts
AccountsAgree ==
    \A a \in Agents :
        RefundedTwice(a)
          \/ AllAgree(balance, ConditionalAccount(conditional), MultiAccount(multi), a)
AccountsCover ==
    \A a \in Agents : AllCover(balance, ConditionalAccount(conditional), MultiAccount(multi), a)

MoneyInv ==
    /\ RowsTypeOK /\ Balances
    /\ ReadsHold /\ ReadsAreCurrent /\ NewIsUnanswered
    /\ NothingOvertaken /\ AccountsAgree /\ AccountsCover

\* At first the balances are what was put in and every account is empty.
LEMMA MoneyInit == Init => MoneyInv
<1>. SUFFICES ASSUME Init PROVE MoneyInv
  OBVIOUS
<1>1. RowsTypeOK /\ Balances
  BY RowsInit, LedgerAssumption DEF Init, Balances
<1>2. ReadsHold /\ ReadsAreCurrent
  BY <1>1, AtWork DEF Init, ReadsHold, ReadsAreCurrent, Idle
<1>3. NewIsUnanswered /\ NothingOvertaken
  BY DEF Init, MultisInit, NewIsUnanswered, NothingOvertaken
<1>. DEFINE c == ConditionalAccount(conditional)
            m == MultiAccount(multi)
<1>5. \A x \in Conditionals, a \in Agents : c.got[a][x] = 0 /\ c.gave[a][x] = 0
  BY ConditionalCounts DEF Init, ConditionalsInit
<1>6. \A x \in Multis, a \in Agents : m.got[a][x] = 0 /\ m.gave[a][x] = 0
  <2>. TAKE x \in Multis, a \in Agents
  <2>1. multi[x].state = "NONE" /\ multi[x].answers[a] = "none"
    BY DEF Init, MultisInit
  <2>2. RowSpent(multi[x], x) = 0 /\ RowPaid(multi[x], x, a) = 0
    BY <2>1 DEF RowSpent, RowPaid
  <2>3. /\ m.got[a][x] = RowPaid(multi[x], x, a)
        /\ m.gave[a][x] = IF Sender[x] = a THEN RowSpent(multi[x], x) ELSE 0
    BY MultiCounts
  <2>. HIDE DEF m
  <2>. QED
    BY <2>2, <2>3
<1>. HIDE DEF c, m
<1>8. \A a \in Agents :
          /\ SumFunctionOnSet(c.got[a], Conditionals) = 0
          /\ SumFunctionOnSet(c.gave[a], Conditionals) = 0
          /\ SumFunctionOnSet(m.got[a], Multis) = 0
          /\ SumFunctionOnSet(m.gave[a], Multis) = 0
  BY <1>5, <1>6, FiniteAgreements, SumZero
<1>9. balance = Funds
  BY DEF Init
<1>10. \A a \in Agents : AllAgree(balance, c, m, a) /\ AllCover(balance, c, m, a)
  BY <1>8, <1>9, FundsAreNat DEF AllAgree, AllCover
<1>. QED
  BY <1>1, <1>2, <1>3, <1>10 DEF MoneyInv, AccountsAgree, AccountsCover, c, m

\* Every step keeps the invariant.
LEMMA MoneyStep ==
    ASSUME MoneyInv, [Next]_vars
    PROVE  MoneyInv'
<1>. USE DEF MoneyInv
<1>1. /\ RowsTypeOK' /\ ReadsHold' /\ ReadsAreCurrent' /\ NewIsUnanswered'
      /\ NothingOvertaken'
  BY RowsStep, ReadsStep, NothingIsOvertaken
<1>. DEFINE c == ConditionalAccount(conditional)
            e == ConditionalAccount(conditional')
            m == MultiAccount(multi)
            n == MultiAccount(multi')
<1>2. /\ c \in Accounts(Conditionals) /\ e \in Accounts(Conditionals)
      /\ m \in Accounts(Multis) /\ n \in Accounts(Multis)
  BY ConditionalCounts, MultiCounts
<1>3. balance \in [Agents -> Nat]
  BY DEF Balances
\* What the step does to the money of an agent
<1>. DEFINE Moves2(a) ==
                \/ /\ n = m /\ Covers(Conditionals, c, e, balance, balance', a)
                   /\ RefundedTwice(a)' \/ Agrees(Conditionals, c, e, balance, balance', a)
                \/ /\ e = c /\ Covers(Multis, m, n, balance, balance', a)
                   /\ RefundedTwice(a)' \/ Agrees(Multis, m, n, balance, balance', a)
            Right == Balances' /\ \A a \in Agents : Moves2(a)
<1>4. ASSUME ConditionalsNext /\ UNCHANGED multi
      PROVE  Right
  <2>1. /\ Balances'
        /\ \A a \in Agents :
             /\ Covers(Conditionals, c, e, balance, balance', a)
             /\ NoneOvertaken(a) => Agrees(Conditionals, c, e, balance, balance', a)
    <3>1. /\ Balances'
          /\ \A a \in Agents : ConditionalsCover(a) /\ (NoneOvertaken(a) => ConditionalsAgree(a))
      BY <1>4, ConditionalsMoney
    <3>2. \A a \in Agents :
             /\ ConditionalsCover(a) <=> Covers(Conditionals, c, e, balance, balance', a)
             /\ ConditionalsAgree(a) <=> Agrees(Conditionals, c, e, balance, balance', a)
      BY DEF ConditionalsCover, ConditionalsAgree
    <3>. HIDE DEF c, e
    <3>. QED
      BY <3>1, <3>2
  <2>2. n = m
    BY <1>4
  <2>3. \A a \in Agents : RefundedTwice(a)' \/ NoneOvertaken(a)
    BY DEF RefundedTwice, NoneOvertaken
  <2>. HIDE DEF c, e, m, n
  <2>. QED
    BY <2>1, <2>2, <2>3
<1>5. ASSUME MultisNext /\ UNCHANGED conditionalVars
      PROVE  Right
  <2>1. /\ Balances'
        /\ \A a \in Agents :
             /\ Covers(Multis, m, n, balance, balance', a)
             /\ NoneReturnedTwice(a) => Agrees(Multis, m, n, balance, balance', a)
    <3>1. /\ Balances'
          /\ \A a \in Agents : MultisCover(a) /\ (NoneReturnedTwice(a) => MultisAgree(a))
      BY <1>5, MultisMoney
    <3>2. \A a \in Agents :
             /\ MultisCover(a) <=> Covers(Multis, m, n, balance, balance', a)
             /\ MultisAgree(a) <=> Agrees(Multis, m, n, balance, balance', a)
      BY DEF MultisCover, MultisAgree
    <3>. HIDE DEF m, n
    <3>. QED
      BY <3>1, <3>2
  <2>2. e = c
    BY <1>5 DEF conditionalVars
  <2>3. \A a \in Agents : RefundedTwice(a)' \/ NoneReturnedTwice(a)
    BY DEF RefundedTwice, NoneReturnedTwice
  <2>. HIDE DEF c, e, m, n
  <2>. QED
    BY <2>1, <2>2, <2>3
<1>6. ASSUME (\E w \in fleet : Abort(w)) \/ UNCHANGED vars
      PROVE  Right
  <2>1. balance' = balance /\ e = c /\ n = m
    BY <1>6 DEF Abort, vars, conditionalVars
  <2>. HIDE DEF c, e, m, n
  <2>2. \A a \in Agents : /\ Agrees(Multis, m, n, balance, balance', a)
                          /\ Covers(Multis, m, n, balance, balance', a)
    BY <1>2, <1>3, <2>1, FiniteAgreements, NothingMoves, AgreesCovers
  <2>. QED
    BY <2>1, <2>2 DEF Balances
<1>7. Right
  BY <1>4, <1>5, <1>6 DEF Next
<1>8. /\ \A a \in Agents : RefundedTwice(a) \/ AllAgree(balance, c, m, a)
      /\ \A a \in Agents : AllCover(balance, c, m, a)
  BY DEF AccountsAgree, AccountsCover
<1>9. ASSUME NEW a \in Agents
      PROVE  /\ RefundedTwice(a)' \/ AllAgree(balance', e, n, a)
             /\ AllCover(balance', e, n, a)
  <2>1. RefundedTwice(a) => RefundedTwice(a)'
    BY DoubtsStay
  <2>2. /\ RefundedTwice(a) \/ AllAgree(balance, c, m, a)
        /\ AllCover(balance, c, m, a)
    BY <1>8
  <2>3. Moves2(a) /\ balance' \in [Agents -> Nat]
    BY <1>7 DEF Balances
  <2>. HIDE DEF c, e, m, n
  <2>4. AllCover(balance', e, n, a)
    BY <1>2, <1>3, <2>2, <2>3, OneKindMoves
  <2>5. ASSUME ~RefundedTwice(a)'
        PROVE  AllAgree(balance', e, n, a)
    BY <1>2, <1>3, <2>1, <2>2, <2>3, <2>5, OneKindMoves
  <2>. QED
    BY <2>4, <2>5
<1>10. AccountsAgree' /\ AccountsCover'
  BY <1>9 DEF AccountsAgree, AccountsCover
<1>. QED
  BY <1>1, <1>7, <1>10

\* The accounts are what the model says of the money.
LEMMA AccountsMean ==
    ASSUME MoneyInv
    PROVE  AccountsMatchAgreements /\ NobodyComesShort
<1>. USE DEF MoneyInv
<1>. DEFINE c == ConditionalAccount(conditional)
            m == MultiAccount(multi)
<1>2. c \in Accounts(Conditionals) /\ m \in Accounts(Multis)
  BY ConditionalCounts, MultiCounts
<1>3. ASSUME NEW a \in Agents
      PROVE  ConditionalsNet(a) = SumFunctionOnSet(c.got[a], Conditionals)
                                    - SumFunctionOnSet(c.gave[a], Conditionals)
  BY ConditionalSums DEF ConditionalsNet
<1>4. ASSUME NEW a \in Agents
      PROVE  MultisNet(a) = SumFunctionOnSet(m.got[a], Multis)
                              - SumFunctionOnSet(m.gave[a], Multis)
  <2>. DEFINE own == {x \in Multis : Sender[x] = a}
  <2>1. \A x \in Multis : /\ PaidTo(x, a) = RowPaid(multi[x], x, a)
                          /\ SpentOn(x) = RowSpent(multi[x], x)
    BY DEF PaidTo, SpentOn, RowPaid, RowSpent, SharesWith, Part
  <2>2. /\ [x \in Multis |-> PaidTo(x, a)] = [x \in Multis |-> RowPaid(multi[x], x, a)]
        /\ [x \in own |-> SpentOn(x)] = [x \in own |-> RowSpent(multi[x], x)]
    BY <2>1
  <2>. QED
    BY <2>2, MultiSums DEF MultisNet
<1>5. /\ \A a \in Agents : RefundedTwice(a) \/ AllAgree(balance, c, m, a)
      /\ \A a \in Agents : AllCover(balance, c, m, a)
      /\ Alone => overtaken = {}
  BY DEF AccountsAgree, AccountsCover, NothingOvertaken
<1>6. balance \in [Agents -> Nat]
  BY DEF Balances
<1>. HIDE DEF c, m, MoneyInv
<1>7. ASSUME NEW a \in Agents
      PROVE  /\ AllAgree(balance, c, m, a) => balance[a] = Account(a)
             /\ AllCover(balance, c, m, a) => balance[a] >= Account(a)
  <2>1. /\ SumFunctionOnSet(c.got[a], Conditionals) \in Nat
        /\ SumFunctionOnSet(c.gave[a], Conditionals) \in Nat
        /\ SumFunctionOnSet(m.got[a], Multis) \in Nat
        /\ SumFunctionOnSet(m.gave[a], Multis) \in Nat
        /\ Funds[a] \in Nat /\ balance[a] \in Nat
    BY <1>2, <1>6, FundsAreNat, FiniteAgreements, AccountSums
  <2>. DEFINE ct == SumFunctionOnSet(c.got[a], Conditionals)
              cg == SumFunctionOnSet(c.gave[a], Conditionals)
              mt == SumFunctionOnSet(m.got[a], Multis)
              mg == SumFunctionOnSet(m.gave[a], Multis)
              x == balance[a]
              f == Funds[a]
  <2>2. Account(a) = f + (ct - cg) + (mt - mg)
    BY <1>3, <1>4 DEF Account
  <2>3. /\ AllAgree(balance, c, m, a) <=> x + cg + mg = f + ct + mt
        /\ AllCover(balance, c, m, a) <=> x + cg + mg >= f + ct + mt
    BY DEF AllAgree, AllCover
  <2>. HIDE DEF ct, cg, mt, mg, x, f
  <2>4. /\ AllAgree(balance, c, m, a) => x = Account(a)
        /\ AllCover(balance, c, m, a) => x >= Account(a)
    BY <2>1, <2>2, <2>3 DEF ct, cg, mt, mg, x, f
  <2>. QED
    BY <2>4 DEF x
<1>. QED
  BY <1>5, <1>7 DEF AccountsMatchAgreements, NobodyComesShort

\* The types of the whole state, the balances among them: no request and no
\* loop takes from a balance what is not there.
THEOREM TypeCorrect == Spec => []TypeOK
<1>1. MoneyInv /\ [Next]_vars => MoneyInv'
  BY MoneyStep
<1>2. MoneyInv => TypeOK
  BY DEF MoneyInv, RowsTypeOK, Balances, TypeOK, Job
<1>. QED
  BY <1>1, <1>2, MoneyInit, PTL DEF Spec

\* However many processes run, and whatever is rolled back: what an agent has
\* is what the rows of all agreements say, except for those to whom an expiry
\* gave money that had been given before; with one process no expiry is
\* overtaken.
THEOREM AccountsSafe == Spec => []AccountsMatchAgreements
<1>1. MoneyInv /\ [Next]_vars => MoneyInv'
  BY MoneyStep
<1>2. MoneyInv => AccountsMatchAgreements
  BY AccountsMean
<1>. QED
  BY <1>1, <1>2, MoneyInit, PTL DEF Spec

\* However many processes run, and whatever is rolled back: no agent ever has
\* less than the rows say.
THEOREM NobodyShortSafe == Spec => []NobodyComesShort
<1>1. MoneyInv /\ [Next]_vars => MoneyInv'
  BY MoneyStep
<1>2. MoneyInv => NobodyComesShort
  BY AccountsMean
<1>. QED
  BY <1>1, <1>2, MoneyInit, PTL DEF Spec
=============================================================================
