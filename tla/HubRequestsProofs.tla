-------------------------- MODULE HubRequestsProofs --------------------------
(***************************************************************************)
(* Proofs about HubRequests for any requests, keys, workers, plans, number *)
(* of wallet attempts and of crashes: types, rows and charges, retries,    *)
(* payment ids, one process, and the saga of a withdrawal.                 *)
(***************************************************************************)
EXTENDS HubRequests, SumsProofs, TLAPS

Withdrawing == {"read", "debit", "commit"}
Paying == {"route", "insert", "pay", "confirm"}

\* Nobody is charged before its own commit; a journal entry stays pending while
\* its request waits for the wallet, and is what it said when it moves on.
Stages ==
    \A r \in Requests :
        /\ pc[r] \in {"new", "look", "again", "check"} \cup Withdrawing \cup Paying => ~Charged(r)
        /\ pc[r] = "wallet" => journal[r] = "pending"
        /\ pc[r] = "promote" => journal[r] = "completed"
        /\ pc[r] \in Withdrawing \cup {"wallet", "promote"} => Withdraws(r)
        /\ pc[r] \in Paying => ~Withdraws(r)

\* The wallet is called for journaled withdrawals, and "ok" means a transfer.
Calls ==
    \A r \in Requests :
        /\ rpc[r] # "idle" => journal[r] # "none"
        /\ rpc[r] = "ok" => transfers[r] > 0

\* Who is about to commit holds the balance row and has found enough in it.
Locking ==
    \A r \in Requests :
        /\ pc[r] \in {"commit", "confirm"} => lock = r
        /\ pc[r] = "commit" => Covers(seen[r], r)
        /\ pc[r] = "confirm" => Covers(available, r)

(***************************************************************************)
(* Type correctness                                                        *)
(***************************************************************************)

\* What a request asks for.
LEMMA PlanTypes ==
    ASSUME TypeOK, NEW r \in Requests
    PROVE  Key(r) \in Keys /\ Amount(r) \in Nat \ {0} /\ plan[r].worker \in Workers
<1>1. plan \in [Requests -> [key : Keys, amount : Nat \ {0}, worker : Workers]]
  BY PlansAssumption DEF TypeOK
<1>. QED
  BY <1>1 DEF Key, Amount

\* The moves through the key store keep the types and the balance lock.
LEMMA StoreKeepsTypes ==
    ASSUME TypeOK, Locking, NEW r \in Requests,
           Reserve(r) \/ Look(r) \/ ReserveAgain(r) \/ CheckRow(r) \/ Release(r)
    PROVE  TypeOK' /\ Locking'
<1>. USE DEF database, wallet, Goto, CacheWrite, StoreInCache, Covers, Amount
<1>1. Key(r) \in Keys
  BY PlanTypes
<1>2. CASE Reserve(r)
  BY <1>1, <1>2 DEF Reserve, SetIfAbsent, TypeOK, Locking
<1>3. CASE Look(r)
  BY <1>1, <1>3 DEF Look, TypeOK, Locking
<1>4. CASE ReserveAgain(r)
  BY <1>1, <1>4 DEF ReserveAgain, SetIfAbsent, TypeOK, Locking
<1>5. CASE CheckRow(r)
  BY <1>1, <1>5 DEF CheckRow, TypeOK, Locking
<1>6. CASE Release(r)
  BY <1>1, <1>6 DEF Release, TypeOK, Locking
<1>. QED
  BY <1>2, <1>3, <1>4, <1>5, <1>6

\* So do the sections of a withdrawal: a debit is covered by what its session
\* loaded.
LEMMA WithdrawalKeepsTypes ==
    ASSUME TypeOK, Locking, NEW r \in Requests,
           ReadBalance(r) \/ Debit(r) \/ CommitDebit(r) \/ Mark(r) \/ CommitFinal(r)
    PROVE  TypeOK' /\ Locking'
<1>. USE DEF database, wallet, Goto, CacheWrite, StoreInCache, CloseSession, Covers, Amount
<1>1. Key(r) \in Keys /\ Amount(r) \in Nat \ {0}
  BY PlanTypes
<1>2. CASE ReadBalance(r)
  BY <1>1, <1>2 DEF ReadBalance, TypeOK, Locking
<1>3. CASE Debit(r)
  <2>1. TypeOK'
    BY <1>1, <1>3 DEF Debit, TypeOK
  <2>2. CASE pc'[r] = "commit"
    BY <1>1, <1>3, <2>2, PlansAssumption DEF Debit, Balance, TypeOK, Locking
  <2>3. CASE pc'[r] = "release"
    BY <1>1, <1>3, <2>3, PlansAssumption DEF Debit, Balance, TypeOK, Locking
  <2>. QED
    BY <1>3, <2>1, <2>2, <2>3 DEF Debit, TypeOK
<1>4. CASE CommitDebit(r)
  <2>1. seen[r] - Amount(r) \in Nat
    BY <1>1, <1>4 DEF CommitDebit, TypeOK, Locking
  <2>2. rows' \in [Keys -> {None} \cup [amount : Nat \ {0}, by : Requests, final : BOOLEAN]]
    BY <1>1, <1>4 DEF CommitDebit, Stored, TypeOK
  <2>3. TypeOK'
    BY <1>1, <1>4, <2>1, <2>2 DEF CommitDebit, Balance, TypeOK
  <2>4. Locking'
    BY <1>1, <1>4, <2>1, PlansAssumption DEF CommitDebit, Balance, TypeOK, Locking
  <2>. QED
    BY <2>3, <2>4
<1>5. CASE Mark(r)
  BY <1>1, <1>5 DEF Mark, TypeOK, Locking
<1>6. CASE CommitFinal(r)
  <2>1. rows' \in [Keys -> {None} \cup [amount : Nat \ {0}, by : Requests, final : BOOLEAN]]
    BY <1>1, <1>6 DEF CommitFinal, Stored, TypeOK
  <2>. QED
    BY <1>1, <1>6, <2>1 DEF CommitFinal, TypeOK, Locking
<1>. QED
  BY <1>2, <1>3, <1>4, <1>5, <1>6

\* And those of a payment.
LEMMA PaymentKeepsTypes ==
    ASSUME TypeOK, Locking, NEW r \in Requests,
           FindRoute(r) \/ InsertRoute(r) \/ Pay(r) \/ CommitPayment(r)
    PROVE  TypeOK' /\ Locking'
<1>. USE DEF database, wallet, Goto, CacheWrite, StoreInCache, CloseSession, Covers, Amount
<1>1. Key(r) \in Keys /\ Amount(r) \in Nat \ {0}
  BY PlanTypes
<1>2. CASE FindRoute(r)
  BY <1>1, <1>2 DEF FindRoute, TypeOK, Locking
<1>3. CASE InsertRoute(r)
  BY <1>1, <1>3 DEF InsertRoute, TypeOK, Locking
<1>4. CASE Pay(r)
  <2>1. TypeOK'
    BY <1>1, <1>4 DEF Pay, TypeOK
  <2>2. \A q \in Requests : pc[q] \notin {"commit", "confirm"}
    BY <1>4, PlansAssumption DEF Pay, Locking
  <2>3. \A q \in Requests : q # r => pc'[q] = pc[q]
    BY <1>4 DEF Pay, TypeOK
  <2>4. /\ pc'[r] \in {"confirm", "release"}
        /\ pc'[r] = "confirm" => lock' = r /\ available' >= plan'[r].amount
    BY <1>4 DEF Pay, TypeOK
  <2>. QED
    BY <2>1, <2>2, <2>3, <2>4 DEF Locking
<1>5. CASE CommitPayment(r)
  <2>1. available - Amount(r) \in Nat
    BY <1>1, <1>5 DEF CommitPayment, TypeOK, Locking
  <2>2. rows' \in [Keys -> {None} \cup [amount : Nat \ {0}, by : Requests, final : BOOLEAN]]
    BY <1>1, <1>5 DEF CommitPayment, Stored, TypeOK
  <2>3. TypeOK'
    BY <1>1, <1>5, <2>1, <2>2 DEF CommitPayment, TypeOK
  <2>4. Locking'
    BY <1>1, <1>5, <2>1, PlansAssumption DEF CommitPayment, TypeOK, Locking
  <2>. QED
    BY <2>3, <2>4
<1>. QED
  BY <1>2, <1>3, <1>4, <1>5

\* A repeated wallet call stays within the attempts it has.
LEMMA CallsKeepTypes ==
    ASSUME TypeOK, Locking, NEW r \in Requests, Transmit(r) \/ NotTransmitted(r)
    PROVE  TypeOK' /\ Locking'
<1>1. /\ retries' \in [Requests -> 0..Attempts - 1]
      /\ rpc' \in [Requests -> {"idle", "calling", "ok", "error"}]
  <2>1. CASE TryAgain(r)
    <3>1. retries[r] + 1 < Attempts => retries[r] + 1 \in 0..Attempts - 1
      BY PlansAssumption DEF TypeOK
    <3>. QED
      BY <2>1, <3>1 DEF TryAgain, TypeOK
  <2>2. CASE UNCHANGED retries /\ rpc' \in {[rpc EXCEPT ![r] = "ok"], [rpc EXCEPT ![r] = "error"]}
    BY <2>2 DEF TypeOK
  <2>. QED
    BY <2>1, <2>2 DEF Transmit, NotTransmitted
<1>2. transfers' \in [Requests -> Nat]
  BY DEF Transmit, NotTransmitted, TypeOK
<1>. QED
  BY <1>1, <1>2 DEF Transmit, NotTransmitted, TypeOK, Locking, Covers, Amount, database

\* Types and locks together are inductive.
LEMMA TypesAndLocks == Spec => [](TypeOK /\ Locking)
<1>1. Init => TypeOK /\ Locking
  <2>. SUFFICES ASSUME Init PROVE TypeOK /\ Locking
    OBVIOUS
  <2>1. 0 \in 0..Attempts - 1 /\ 0 \in 0..MaxCrashes
    BY PlansAssumption
  <2>. QED
    BY <2>1, PlansAssumption DEF Init, TypeOK, Locking
<1>2. TypeOK /\ Locking /\ [Next]_vars => TypeOK' /\ Locking'
  <2>. SUFFICES ASSUME TypeOK, Locking, [Next]_vars PROVE TypeOK' /\ Locking'
    OBVIOUS
  <2>1. ASSUME NEW r \in Requests, Reserve(r) \/ Section(r) PROVE TypeOK' /\ Locking'
    BY <2>1, StoreKeepsTypes, WithdrawalKeepsTypes, PaymentKeepsTypes DEF Section
  <2>2. ASSUME NEW r \in Requests, Fails(r) PROVE TypeOK' /\ Locking'
    BY <2>2, PlansAssumption DEF Fails, CloseSession, Goto, TypeOK, Locking, Covers, Amount,
                                 database, wallet
  <2>3. ASSUME NEW r \in Requests, Transmit(r) \/ NotTransmitted(r) PROVE TypeOK' /\ Locking'
    BY <2>3, CallsKeepTypes
  <2>4. ASSUME NEW k \in Keys, Expire(k) PROVE TypeOK' /\ Locking'
    BY <2>4 DEF Expire, CacheWrite, TypeOK, Locking, Covers, Amount, database, wallet
  <2>5. ASSUME NEW w \in Workers, Crash(w) PROVE TypeOK' /\ Locking'
    BY <2>5, PlansAssumption DEF Crash, InFlight, Ended, TypeOK, Locking, Covers, Amount,
                                 database
  <2>6. CASE Recover
    BY <2>6 DEF Recover, TypeOK, Locking, Covers, Amount, wallet
  <2>7. CASE UNCHANGED vars
    BY <2>7 DEF vars, TypeOK, Locking, Covers, Amount
  <2>. QED
    BY <2>1, <2>2, <2>3, <2>4, <2>5, <2>6, <2>7 DEF Next
<1>. QED
  BY <1>1, <1>2, PTL DEF Spec

\* Every variable keeps its type.  In particular the balance never goes negative,
\* even where a stale read overwrites another spend.
THEOREM RequestsTypeCorrect == Spec => []TypeOK
BY TypesAndLocks, PTL

(***************************************************************************)
(* Stages of a request                                                     *)
(***************************************************************************)

\* A step that charges nobody and leaves the wallet alone keeps the stages when
\* the one request it moves moves forward.
LEMMA MoveKeepsStages ==
    ASSUME TypeOK, Stages, Calls, NEW r \in Requests,
           UNCHANGED <<plan, journal, paid, rpc, transfers>>,
           NEW label, Goto(r, label),
           \/ label \in {"release", "done"}
           \/ label \in {"look", "again", "check"} /\ pc[r] \in {"new", "look", "again"}
           \/ label \in Withdrawing /\ Withdraws(r) /\ pc[r] \in {"check"} \cup Withdrawing
           \/ label \in Paying /\ ~Withdraws(r) /\ pc[r] \in {"check"} \cup Paying
    PROVE  Stages' /\ Calls'
<1>1. \A q \in Requests : (Charged(q) <=> Charged(q)') /\ (Withdraws(q) <=> Withdraws(q)')
  BY DEF Charged, Withdraws, Key
<1>2. /\ pc'[r] = label
      /\ \A q \in Requests : q # r => pc'[q] = pc[q]
  BY DEF Goto, TypeOK
<1>3. Stages'
  <2>. SUFFICES ASSUME NEW q \in Requests
                PROVE  /\ pc'[q] \in {"new", "look", "again", "check"}
                                       \cup Withdrawing \cup Paying => ~Charged(q)'
                       /\ pc'[q] = "wallet" => journal'[q] = "pending"
                       /\ pc'[q] = "promote" => journal'[q] = "completed"
                       /\ pc'[q] \in Withdrawing \cup {"wallet", "promote"} => Withdraws(q)'
                       /\ pc'[q] \in Paying => ~Withdraws(q)'
    BY DEF Stages
  <2>1. CASE q # r
    BY <1>1, <1>2, <2>1 DEF Stages
  <2>2. CASE q = r
    BY <1>1, <1>2, <2>2 DEF Stages, Withdrawing, Paying
  <2>. QED
    BY <2>1, <2>2
<1>4. Calls'
  BY DEF Calls
<1>. QED
  BY <1>3, <1>4

\* The sections that move a request without charging it.
LEMMA SectionKeepsStages ==
    ASSUME TypeOK, Stages, Calls, NEW r \in Requests,
           \/ Reserve(r) \/ Look(r) \/ ReserveAgain(r) \/ CheckRow(r) \/ Release(r)
           \/ ReadBalance(r) \/ Debit(r) \/ CommitFinal(r)
           \/ FindRoute(r) \/ InsertRoute(r) \/ Pay(r) \/ Fails(r)
    PROVE  Stages' /\ Calls'
<1>. USE DEF database, wallet, Withdrawing, Paying
<1>1. UNCHANGED <<plan, journal, paid, rpc, transfers>>
  BY DEF Reserve, Look, ReserveAgain, CheckRow, Release, ReadBalance, Debit, CommitFinal,
         FindRoute, InsertRoute, Pay, Fails
<1>2. CASE Reserve(r) \/ Look(r) \/ ReserveAgain(r)
  <2>1. \E label \in {"look", "again", "check", "release", "done"} : Goto(r, label)
    BY <1>2 DEF Reserve, Look, ReserveAgain, SetIfAbsent
  <2>2. pc[r] \in {"new", "look", "again"}
    BY <1>2 DEF Reserve, Look, ReserveAgain
  <2>. QED
    BY <1>1, <2>1, <2>2, MoveKeepsStages
<1>3. CASE CheckRow(r)
  <2>1. \/ Goto(r, "release") \/ Goto(r, "done")
        \/ Withdraws(r) /\ Goto(r, "read")
        \/ ~Withdraws(r) /\ Goto(r, "route")
    BY <1>3 DEF CheckRow
  <2>2. pc[r] = "check"
    BY <1>3 DEF CheckRow
  <2>. QED
    BY <1>1, <2>1, <2>2, MoveKeepsStages
<1>4. CASE Release(r) \/ CommitFinal(r) \/ Fails(r)
  <2>1. Goto(r, "release") \/ Goto(r, "done")
    BY <1>4 DEF Release, CommitFinal, Fails
  <2>. QED
    BY <1>1, <2>1, MoveKeepsStages
<1>5. CASE ReadBalance(r) \/ Debit(r)
  <2>1. \E label \in {"debit", "commit", "release"} : Goto(r, label)
    BY <1>5 DEF ReadBalance, Debit
  <2>2. pc[r] \in Withdrawing /\ Withdraws(r)
    BY <1>5 DEF ReadBalance, Debit, Stages
  <2>. QED
    BY <1>1, <2>1, <2>2, MoveKeepsStages
<1>6. CASE FindRoute(r) \/ InsertRoute(r) \/ Pay(r)
  <2>1. \E label \in {"insert", "pay", "confirm", "release", "done"} : Goto(r, label)
    BY <1>6 DEF FindRoute, InsertRoute, Pay
  <2>2. pc[r] \in Paying /\ ~Withdraws(r)
    BY <1>6 DEF FindRoute, InsertRoute, Pay, Stages
  <2>. QED
    BY <1>1, <2>1, <2>2, MoveKeepsStages
<1>. QED
  BY <1>2, <1>3, <1>4, <1>5, <1>6

\* Stages and wallet calls are inductive.
LEMMA StagesAndCalls == Spec => [](Stages /\ Calls)
<1>. USE DEF database, wallet
<1>1. Init => Stages /\ Calls
  BY DEF Init, Stages, Calls, Charged, Withdrawing, Paying
<1>2. TypeOK /\ Stages /\ Calls /\ [Next]_vars => Stages' /\ Calls'
  <2>. SUFFICES ASSUME TypeOK, Stages, Calls, [Next]_vars PROVE Stages' /\ Calls'
    OBVIOUS
  <2>1. ASSUME NEW r \in Requests,
               \/ Reserve(r) \/ Look(r) \/ ReserveAgain(r) \/ CheckRow(r) \/ Release(r)
               \/ ReadBalance(r) \/ Debit(r) \/ CommitFinal(r)
               \/ FindRoute(r) \/ InsertRoute(r) \/ Pay(r) \/ Fails(r)
        PROVE  Stages' /\ Calls'
    BY <2>1, SectionKeepsStages
  <2>2. ASSUME NEW r \in Requests, CommitDebit(r) PROVE Stages' /\ Calls'
    <3>1. Withdraws(r)
      BY <2>2 DEF CommitDebit, Stages, Withdrawing
    <3>. QED
      BY <2>2, <3>1 DEF CommitDebit, Goto, TypeOK, Stages, Calls, Charged, Withdraws, Key,
                        Withdrawing, Paying
  <2>3. ASSUME NEW r \in Requests, Mark(r) PROVE Stages' /\ Calls'
    <3>1. Withdraws(r)
      BY <2>3 DEF Mark, Stages
    <3>. QED
      BY <2>3, <3>1 DEF Mark, Goto, TypeOK, Stages, Calls, Charged, Withdraws, Key,
                        Withdrawing, Paying
  <2>4. ASSUME NEW r \in Requests, CommitPayment(r) PROVE Stages' /\ Calls'
    BY <2>4 DEF CommitPayment, Goto, TypeOK, Stages, Calls, Charged, Withdraws, Key,
                Withdrawing, Paying
  <2>5. ASSUME NEW r \in Requests, Transmit(r) \/ NotTransmitted(r) PROVE Stages' /\ Calls'
    <3>1. Stages'
      BY <2>5 DEF Transmit, NotTransmitted, Stages, Charged, Withdraws, Key
    <3>2. Calls'
      BY <2>5 DEF Transmit, NotTransmitted, TryAgain, TypeOK, Calls
    <3>. QED
      BY <3>1, <3>2
  <2>6. CASE Recover
    BY <2>6 DEF Recover, Stale, Ended, TypeOK, Stages, Calls, Charged, Withdraws, Key,
                Withdrawing, Paying
  <2>7. ASSUME NEW k \in Keys, Expire(k) PROVE Stages' /\ Calls'
    BY <2>7 DEF Expire, Stages, Calls, Charged, Withdraws, Key
  <2>8. ASSUME NEW w \in Workers, Crash(w) PROVE Stages' /\ Calls'
    <3>1. Stages'
      BY <2>8 DEF Crash, TypeOK, Stages, Charged, Withdraws, Key, Withdrawing, Paying
    <3>2. Calls'
      BY <2>8 DEF Crash, TypeOK, Calls
    <3>. QED
      BY <3>1, <3>2
  <2>9. CASE UNCHANGED vars
    BY <2>9 DEF vars, Stages, Calls, Charged, Withdraws, Key
  <2>. QED
    BY <2>1, <2>2, <2>3, <2>4, <2>5, <2>6, <2>7, <2>8, <2>9 DEF Next, Section
<1>. QED
  BY <1>1, <1>2, TypesAndLocks, PTL DEF Spec

\* An uncommitted route is the only one of its payment id.
Routes ==
    \A r \in Requests : HoldsRoute(r) =>
        /\ ~RouteExists(r)
        /\ \A q \in Requests : HoldsRoute(q) /\ PaymentId(q) = PaymentId(r) => q = r

\* A late request gets no further than the row of its key.
Latecomers ==
    \A r \in late :
        /\ KnownKey(r)
        /\ pc[r] \in {"look", "again", "check", "release", "done", "crashed"}
        /\ ~Charged(r)

\* In one process nothing comes between the look at a key and its commit.
Undisturbed ==
    OneProcess =>
        /\ \A r, q \in Requests : Busy(r) /\ Busy(q) => r = q
        /\ \A r \in Requests : pc[r] \in Withdrawing \cup Paying => ~KnownKey(r)

(***************************************************************************)
(* Steps                                                                   *)
(***************************************************************************)

\* The steps that touch no row, journal entry or payment.
LEMMA Quiet ==
    ASSUME [Next]_vars,
           ~\E r \in Requests : CommitDebit(r) \/ Mark(r) \/ CommitFinal(r) \/ CommitPayment(r),
           ~Recover
    PROVE  UNCHANGED <<plan, rows, journal, paid>>
<1>. USE DEF database, wallet
<1>1. ASSUME NEW r \in Requests, Reserve(r) \/ Look(r) \/ ReserveAgain(r) \/ CheckRow(r)
                                 \/ Release(r) \/ ReadBalance(r) \/ Debit(r)
      PROVE  UNCHANGED <<plan, rows, journal, paid>>
  BY <1>1 DEF Reserve, Look, ReserveAgain, CheckRow, Release, ReadBalance, Debit
<1>2. ASSUME NEW r \in Requests, FindRoute(r) \/ InsertRoute(r) \/ Pay(r) \/ Fails(r)
                                 \/ Transmit(r) \/ NotTransmitted(r)
      PROVE  UNCHANGED <<plan, rows, journal, paid>>
  BY <1>2 DEF FindRoute, InsertRoute, Pay, Fails, Transmit, NotTransmitted
<1>3. ASSUME NEW k \in Keys, Expire(k) PROVE UNCHANGED <<plan, rows, journal, paid>>
  BY <1>3 DEF Expire
<1>4. ASSUME NEW w \in Workers, Crash(w) PROVE UNCHANGED <<plan, rows, journal, paid>>
  BY <1>4 DEF Crash
<1>5. CASE UNCHANGED vars
  BY <1>5 DEF vars
<1>. QED
  BY <1>1, <1>2, <1>3, <1>4, <1>5 DEF Next, Section

\* What a response leaves in the table.
LEMMA StoredRow ==
    ASSUME TypeOK, NEW r \in Requests, NEW final \in BOOLEAN, rows' = Stored(r, final)
    PROVE  /\ rows'[Key(r)] = [amount |-> Amount(r), by |-> r, final |-> final]
           /\ rows'[Key(r)] # None
           /\ \A k \in Keys : k # Key(r) => rows'[k] = rows[k]
<1>1. Key(r) \in Keys /\ Amount(r) \in Nat \ {0}
  BY PlanTypes
<1>2. [amount |-> Amount(r), by |-> r, final |-> final]
          \in [amount : Nat \ {0}, by : Requests, final : BOOLEAN]
  BY <1>1
<1>. QED
  BY <1>1, <1>2, PlansAssumption DEF Stored, TypeOK

\* A key that has a row keeps one, and who is charged stays charged.
LEMMA RowsAndChargesStay ==
    ASSUME TypeOK, Stages, [Next]_vars, NEW q \in Requests
    PROVE  /\ Key(q)' = Key(q)
           /\ KnownKey(q) => KnownKey(q)'
           /\ Charged(q) => Charged(q)'
<1>. USE DEF database, wallet
<1>1. Key(q) \in Keys
  BY PlanTypes
<1>2. ASSUME NEW r \in Requests, CommitDebit(r) \/ CommitFinal(r) \/ CommitPayment(r)
      PROVE  /\ Key(q)' = Key(q)
             /\ KnownKey(q) => KnownKey(q)'
             /\ Charged(q) => Charged(q)'
  <2>1. \E final \in BOOLEAN : rows' = Stored(r, final)
    BY <1>2 DEF CommitDebit, CommitFinal, CommitPayment
  <2>2. plan' = plan
    BY <1>2 DEF CommitDebit, CommitFinal, CommitPayment
  <2>3. KnownKey(q) => KnownKey(q)'
    BY <1>1, <2>1, <2>2, StoredRow DEF KnownKey, Key
  <2>4. Charged(q) => Charged(q)'
    BY <1>2 DEF CommitDebit, CommitFinal, CommitPayment, Charged, TypeOK
  <2>. QED
    BY <2>2, <2>3, <2>4 DEF Key
<1>3. ASSUME (\E r \in Requests : Mark(r)) \/ Recover
      PROVE  /\ Key(q)' = Key(q)
             /\ KnownKey(q) => KnownKey(q)'
             /\ Charged(q) => Charged(q)'
  BY <1>3 DEF Mark, Recover, Charged, KnownKey, Key, TypeOK
<1>4. CASE UNCHANGED <<plan, rows, journal, paid>>
  BY <1>4 DEF Charged, KnownKey, Key
<1>. QED
  BY <1>2, <1>3, <1>4, Quiet

(***************************************************************************)
(* Rows and charges                                                        *)
(***************************************************************************)

\* Whatever fails, and however many workers there are, a charge and the row of
\* its key are one.
THEOREM RowsFollowCharges == Spec => []RowPerCharge
<1>. USE DEF database, wallet
<1>1. Init => RowPerCharge
  <2>. SUFFICES ASSUME Init, NEW r \in Requests PROVE ~Charged(r)
    BY DEF Init, RowPerCharge
  <2>. QED
    BY DEF Init, Charged
<1>2. TypeOK /\ Stages /\ RowPerCharge /\ [Next]_vars => RowPerCharge'
  <2>. SUFFICES ASSUME TypeOK, Stages, RowPerCharge, [Next]_vars PROVE RowPerCharge'
    OBVIOUS
  <2>1. ASSUME NEW r \in Requests, CommitDebit(r) \/ CommitFinal(r) \/ CommitPayment(r)
        PROVE  RowPerCharge'
    <3>1. PICK final \in BOOLEAN :
            /\ rows' = Stored(r, final)
            /\ final /\ Withdraws(r) => journal'[r] = "completed"
      <4>1. CASE CommitDebit(r)
        BY <4>1 DEF CommitDebit
      <4>2. CASE CommitFinal(r)
        BY <4>2 DEF CommitFinal, Stages
      <4>3. CASE CommitPayment(r)
        BY <4>3 DEF CommitPayment, Stages, Paying
      <4>. QED
        BY <2>1, <4>1, <4>2, <4>3
    <3>2. /\ rows'[Key(r)] = [amount |-> Amount(r), by |-> r, final |-> final]
          /\ rows'[Key(r)] # None
          /\ \A k \in Keys : k # Key(r) => rows'[k] = rows[k]
      BY <3>1, StoredRow
    <3>3. plan' = plan
      BY <2>1 DEF CommitDebit, CommitFinal, CommitPayment
    <3>4. /\ Charged(r)'
          /\ \A q \in Requests : q # r => (Charged(q)' <=> Charged(q)) /\ journal'[q] = journal[q]
      BY <2>1 DEF CommitDebit, CommitFinal, CommitPayment, Charged, TypeOK, Stages
    <3>5. ASSUME NEW q \in Requests, Charged(q)' PROVE KnownKey(q)'
      <4>1. Key(q) \in Keys
        BY PlanTypes
      <4>. QED
        BY <3>2, <3>3, <3>4, <3>5, <4>1 DEF RowPerCharge, KnownKey, Key
    <3>6. ASSUME NEW k \in Keys, rows'[k] # None PROVE \E q \in Requests : IsOf(rows[k], k, q)'
      <4>1. CASE k = Key(r)
        <5>1. IsOf(rows[k], k, r)'
          BY <3>1, <3>2, <3>3, <3>4, <4>1 DEF IsOf, Key, Amount, Withdraws
        <5>. QED
          BY <5>1
      <4>2. CASE k # Key(r)
        <5>1. rows'[k] = rows[k] /\ rows[k] # None
          BY <3>2, <3>6, <4>2
        <5>2. PICK q \in Requests : IsOf(rows[k], k, q)
          BY <5>1 DEF RowPerCharge
        <5>3. q # r
          BY <4>2, <5>2 DEF IsOf
        <5>4. IsOf(rows[k], k, q)'
          BY <3>3, <3>4, <5>1, <5>2, <5>3 DEF IsOf, Key, Amount, Withdraws
        <5>. QED
          BY <5>4
      <4>. QED
        BY <4>1, <4>2
    <3>. QED
      BY <3>5, <3>6 DEF RowPerCharge
  <2>2. ASSUME (\E r \in Requests : Mark(r)) \/ Recover PROVE RowPerCharge'
    <3>1. /\ UNCHANGED <<plan, rows, paid>>
          /\ \A q \in Requests :
                /\ Charged(q)' <=> Charged(q)
                /\ journal[q] = "completed" => journal'[q] = "completed"
      BY <2>2 DEF Mark, Recover, Stale, Stages, Charged, TypeOK
    <3>2. ASSUME NEW k \in Keys, rows'[k] # None PROVE \E q \in Requests : IsOf(rows[k], k, q)'
      <4>1. PICK q \in Requests : IsOf(rows[k], k, q)
        BY <3>1, <3>2 DEF RowPerCharge
      <4>2. rows'[k] = rows[k] /\ plan' = plan /\ Charged(q)'
        BY <3>1, <4>1 DEF IsOf
      <4>3. IsOf(rows[k], k, q)'
        BY <3>1, <4>1, <4>2 DEF IsOf, Key, Amount, Withdraws
      <4>. QED
        BY <4>3
    <3>3. ASSUME NEW q \in Requests, Charged(q)' PROVE KnownKey(q)'
      BY <3>1, <3>3 DEF RowPerCharge, KnownKey, Key
    <3>. QED
      BY <3>2, <3>3 DEF RowPerCharge
  <2>3. CASE UNCHANGED <<plan, rows, journal, paid>>
    BY <2>3 DEF RowPerCharge, IsOf, KnownKey, Key, Amount, Withdraws, Charged
  <2>. QED
    BY <2>1, <2>2, <2>3, Quiet
<1>. QED
  BY <1>1, <1>2, TypesAndLocks, StagesAndCalls, PTL DEF Spec

(***************************************************************************)
(* Retries                                                                 *)
(***************************************************************************)

\* A request that comes after the row of its key is never charged, with any number
\* of workers, expired keys and deleted sentinels.
THEOREM RetriesAreFree == Spec => []NeverAgain
<1>. USE DEF database, wallet, Goto
<1>1. Init => Latecomers
  BY DEF Init, Latecomers
<1>2. TypeOK /\ Stages /\ Latecomers /\ [Next]_vars => Latecomers'
  <2>. SUFFICES ASSUME TypeOK, Stages, Latecomers, [Next]_vars,
                       NEW q \in late'
                PROVE  /\ KnownKey(q)'
                       /\ pc'[q] \in {"look", "again", "check", "release", "done", "crashed"}
                       /\ ~Charged(q)'
    BY DEF Latecomers
  <2>1. ASSUME NEW r \in Requests, Reserve(r)
        PROVE  /\ KnownKey(q)'
               /\ pc'[q] \in {"look", "again", "check", "release", "done", "crashed"}
               /\ ~Charged(q)'
    <3>1. UNCHANGED <<plan, rows, journal, paid>> /\ q \in Requests
      BY <2>1 DEF Reserve, TypeOK
    <3>2. CASE q = r
      <4>1. KnownKey(q) \/ q \in late
        BY <2>1, <3>2 DEF Reserve
      <4>2. ~Charged(q)
        BY <2>1, <3>2 DEF Reserve, Stages
      <4>3. pc'[q] \in {"look", "check"}
        BY <2>1, <3>1, <3>2 DEF Reserve, SetIfAbsent, TypeOK
      <4>. QED
        BY <3>1, <4>1, <4>2, <4>3 DEF Latecomers, KnownKey, Charged, Key
    <3>3. CASE q # r
      <4>1. q \in late /\ pc'[q] = pc[q]
        BY <2>1, <3>1, <3>3 DEF Reserve, SetIfAbsent, TypeOK
      <4>. QED
        BY <3>1, <4>1 DEF Latecomers, KnownKey, Charged, Key
    <3>. QED
      BY <3>2, <3>3
  <2>2. ASSUME ~\E r \in Requests : Reserve(r)
        PROVE  /\ KnownKey(q)'
               /\ pc'[q] \in {"look", "again", "check", "release", "done", "crashed"}
               /\ ~Charged(q)'
    <3>1. late' = late
      BY <2>2 DEF Next, Section, Look, ReserveAgain, CheckRow, Release, ReadBalance, Debit,
                  CommitDebit, Mark, CommitFinal, FindRoute, InsertRoute, Pay, CommitPayment,
                  Fails, Transmit, NotTransmitted, Expire, Crash, Recover, vars
    <3>2. /\ q \in Requests /\ KnownKey(q) /\ ~Charged(q)
          /\ pc[q] \in {"look", "again", "check", "release", "done", "crashed"}
      BY <3>1 DEF Latecomers, TypeOK
    <3>3. KnownKey(q)'
      BY <3>2, RowsAndChargesStay
    <3>4. /\ pc'[q] \in {"look", "again", "check", "release", "done", "crashed"}
          /\ ~Charged(q)'
      <4>1. ASSUME NEW r \in Requests, Look(r) \/ ReserveAgain(r) \/ CheckRow(r) \/ Release(r)
                                       \/ Fails(r)
            PROVE  /\ pc'[q] \in {"look", "again", "check", "release", "done", "crashed"}
                   /\ ~Charged(q)'
        BY <3>2, <4>1 DEF Look, ReserveAgain, SetIfAbsent, CheckRow, Existing, KnownKey, Release,
                          Fails, Charged, TypeOK
      <4>2. ASSUME NEW r \in Requests, ReadBalance(r) \/ Debit(r) \/ CommitDebit(r) \/ Mark(r)
                                       \/ CommitFinal(r)
            PROVE  /\ pc'[q] \in {"look", "again", "check", "release", "done", "crashed"}
                   /\ ~Charged(q)'
        BY <3>2, <4>2 DEF ReadBalance, Debit, CommitDebit, Mark, CommitFinal, Charged, TypeOK
      <4>3. ASSUME NEW r \in Requests, FindRoute(r) \/ InsertRoute(r) \/ Pay(r)
                                       \/ CommitPayment(r)
            PROVE  /\ pc'[q] \in {"look", "again", "check", "release", "done", "crashed"}
                   /\ ~Charged(q)'
        BY <3>2, <4>3 DEF FindRoute, InsertRoute, Pay, CommitPayment, Charged, TypeOK
      <4>4. ASSUME NEW r \in Requests, Transmit(r) \/ NotTransmitted(r)
            PROVE  /\ pc'[q] \in {"look", "again", "check", "release", "done", "crashed"}
                   /\ ~Charged(q)'
        BY <3>2, <4>4 DEF Transmit, NotTransmitted, Charged
      <4>5. CASE \/ \E k \in Keys : Expire(k)
                 \/ \E w \in Workers : Crash(w)
                 \/ Recover
                 \/ UNCHANGED vars
        BY <3>2, <4>5 DEF Expire, Crash, Recover, Stale, Charged, TypeOK, vars
      <4>. QED
        BY <2>2, <4>1, <4>2, <4>3, <4>4, <4>5 DEF Next, Section
    <3>. QED
      BY <3>3, <3>4
  <2>. QED
    BY <2>1, <2>2
<1>3. Latecomers => NeverAgain
  BY DEF Latecomers, NeverAgain
<1>. QED
  BY <1>1, <1>2, <1>3, TypesAndLocks, StagesAndCalls, PTL DEF Spec

(***************************************************************************)
(* Payment ids                                                             *)
(***************************************************************************)

\* Only an insert adds an uncommitted route, and only its commit a payment.
LEMMA RoutesShrink ==
    ASSUME TypeOK, [Next]_vars,
           ~\E r \in Requests : InsertRoute(r) \/ CommitPayment(r)
    PROVE  /\ plan' = plan /\ paid' = paid
           /\ \A q \in Requests : HoldsRoute(q)' => HoldsRoute(q)
<1>. USE DEF database, wallet, Goto, HoldsRoute
<1>. DEFINE Goal == /\ plan' = plan /\ paid' = paid
                    /\ \A q \in Requests : HoldsRoute(q)' => HoldsRoute(q)
<1>1. ASSUME NEW r \in Requests, Reserve(r) \/ Look(r) \/ ReserveAgain(r) \/ CheckRow(r)
                                 \/ Release(r)
      PROVE  Goal
  BY <1>1 DEF Reserve, Look, ReserveAgain, SetIfAbsent, CheckRow, Release, TypeOK
<1>2. ASSUME NEW r \in Requests, ReadBalance(r) \/ Debit(r) \/ CommitDebit(r) \/ Mark(r)
                                 \/ CommitFinal(r)
      PROVE  Goal
  <2>1. CASE ReadBalance(r) \/ Debit(r)
    BY <2>1 DEF ReadBalance, Debit, TypeOK
  <2>2. CASE CommitDebit(r)
    BY <2>2 DEF CommitDebit, TypeOK
  <2>3. CASE Mark(r)
    BY <2>3 DEF Mark, TypeOK
  <2>4. CASE CommitFinal(r)
    BY <2>4 DEF CommitFinal, TypeOK
  <2>. QED
    BY <1>2, <2>1, <2>2, <2>3, <2>4
<1>3. ASSUME NEW r \in Requests, FindRoute(r) \/ Pay(r) \/ Fails(r)
                                 \/ Transmit(r) \/ NotTransmitted(r)
      PROVE  Goal
  BY <1>3 DEF FindRoute, Pay, Fails, Transmit, NotTransmitted, TypeOK
<1>4. CASE \/ \E k \in Keys : Expire(k)
           \/ \E w \in Workers : Crash(w)
           \/ Recover
           \/ UNCHANGED vars
  BY <1>4 DEF Expire, Crash, Recover, vars, TypeOK
<1>. QED
  BY <1>1, <1>2, <1>3, <1>4 DEF Next, Section

\* One payment per payment id, by the unique constraint and the wait of a second
\* insert for the first.
THEOREM OnePaymentPerId == Spec => []PaidOnce
<1>. USE DEF database, wallet, Goto
<1>1. Init => Routes /\ PaidOnce
  BY DEF Init, Routes, HoldsRoute, PaidOnce
<1>2. TypeOK /\ Routes /\ PaidOnce /\ [Next]_vars => Routes' /\ PaidOnce'
  <2>. SUFFICES ASSUME TypeOK, Routes, PaidOnce, [Next]_vars PROVE Routes' /\ PaidOnce'
    OBVIOUS
  <2>1. ASSUME NEW r \in Requests, InsertRoute(r) PROVE Routes' /\ PaidOnce'
    <3>1. plan' = plan /\ paid' = paid
      BY <2>1 DEF InsertRoute
    <3>2. \A q \in Requests : q # r => pc'[q] = pc[q]
      BY <2>1 DEF InsertRoute, TypeOK
    <3>3. HoldsRoute(r)' => /\ ~RouteExists(r)
                            /\ \A q \in Requests : HoldsRoute(q) => PaymentId(q) # PaymentId(r)
      BY <2>1 DEF InsertRoute, HoldsRoute, TypeOK
    <3>4. PaidOnce'
      BY <3>1 DEF PaidOnce, PaymentId, Key, Amount
    <3>5. \A q \in Requests :
            /\ PaymentId(q)' = PaymentId(q)
            /\ RouteExists(q)' <=> RouteExists(q)
            /\ q # r => (HoldsRoute(q)' <=> HoldsRoute(q))
      BY <3>1, <3>2 DEF PaymentId, Key, Amount, RouteExists, HoldsRoute
    <3>6. Routes'
      BY <3>3, <3>5 DEF Routes
    <3>. QED
      BY <3>4, <3>6
  <2>2. ASSUME NEW r \in Requests, CommitPayment(r) PROVE Routes' /\ PaidOnce'
    <3>1. plan' = plan /\ paid' = paid \cup {r}
      BY <2>2 DEF CommitPayment
    <3>2. /\ HoldsRoute(r) /\ ~HoldsRoute(r)'
          /\ \A q \in Requests : q # r => pc'[q] = pc[q]
      BY <2>2 DEF CommitPayment, HoldsRoute, TypeOK
    <3>3. \A q \in Requests : PaymentId(q)' = PaymentId(q)
      BY <3>1 DEF PaymentId, Key, Amount
    <3>4. PaidOnce'
      BY <3>1, <3>2, <3>3 DEF PaidOnce, Routes, RouteExists, TypeOK
    <3>5. ASSUME NEW q \in Requests, HoldsRoute(q)'
          PROVE  /\ ~RouteExists(q)'
                 /\ \A p \in Requests : HoldsRoute(p)' /\ PaymentId(p)' = PaymentId(q)' => p = q
      <4>1. q # r /\ HoldsRoute(q)
        BY <3>2, <3>5 DEF HoldsRoute
      <4>2. ~RouteExists(q) /\ PaymentId(r) # PaymentId(q)
        BY <3>2, <4>1 DEF Routes
      <4>3. ~RouteExists(q)'
        BY <3>1, <3>3, <4>2 DEF RouteExists, TypeOK
      <4>4. ASSUME NEW p \in Requests, HoldsRoute(p)', PaymentId(p)' = PaymentId(q)' PROVE p = q
        <5>1. HoldsRoute(p) /\ PaymentId(p) = PaymentId(q)
          BY <3>2, <3>3, <4>4 DEF HoldsRoute
        <5>. QED
          BY <4>1, <5>1 DEF Routes
      <4>. QED
        BY <4>3, <4>4
    <3>. QED
      BY <3>4, <3>5 DEF Routes
  <2>3. ASSUME ~\E r \in Requests : InsertRoute(r) \/ CommitPayment(r)
        PROVE  Routes' /\ PaidOnce'
    <3>1. /\ plan' = plan /\ paid' = paid
          /\ \A q \in Requests : HoldsRoute(q)' => HoldsRoute(q)
      BY <2>3, RoutesShrink
    <3>2. \A q \in Requests :
            /\ PaymentId(q)' = PaymentId(q)
            /\ RouteExists(q)' <=> RouteExists(q)
      BY <3>1 DEF PaymentId, Key, Amount, RouteExists
    <3>. QED
      BY <3>1, <3>2 DEF Routes, PaidOnce, TypeOK
  <2>. QED
    BY <2>1, <2>2, <2>3
<1>. QED
  BY <1>1, <1>2, RequestsTypeCorrect, PTL DEF Spec

(***************************************************************************)
(* The saga of a withdrawal                                                *)
(***************************************************************************)

\* Every step of a withdrawal request, of its wallet thread and of the recovery is
\* one the saga allows: a debit and its journal entry are one, the wallet pays only
\* what is journaled, and an entry is closed once.
THEOREM WithdrawalsFollowTheSaga == Spec => ImplementsSaga
<1>. USE DEF database, wallet
<1>1. Init => Saga!Init
  <2>. SUFFICES ASSUME Init PROVE Saga!Init
    OBVIOUS
  <2>1. plan \in [Requests -> [key : Keys, amount : Nat \ {0}, worker : Workers]]
    BY PlansAssumption DEF Init
  <2>. QED
    BY <2>1 DEF Init, Saga!Init, Amount
<1>2. TypeOK /\ Stages /\ Calls /\ [Next]_vars => [Saga!Next]_(Saga!vars)
  <2>. SUFFICES ASSUME TypeOK, Stages, Calls, [Next]_vars PROVE [Saga!Next]_(Saga!vars)
    OBVIOUS
  <2>1. CASE UNCHANGED <<plan, journal, transfers>>
    BY <2>1 DEF Saga!vars, Amount
  <2>2. ASSUME NEW r \in Requests, CommitDebit(r) PROVE Saga!Debit(r)
    BY <2>2 DEF CommitDebit, Saga!Debit, Amount, Stages, Withdrawing, Charged
  <2>3. ASSUME NEW r \in Requests, Transmit(r) PROVE Saga!Transfer(r)
    BY <2>3 DEF Transmit, Saga!Transfer, Amount, Calls
  <2>4. ASSUME NEW r \in Requests, Mark(r) PROVE Saga!Close({r})
    <3>1. journal[r] = "pending" /\ UNCHANGED <<plan, transfers>>
      BY <2>4 DEF Mark, Stages
    <3>2. CASE rpc[r] = "ok" /\ journal' = [journal EXCEPT ![r] = "completed"]
      <4>1. transfers[r] > 0
        BY <3>2 DEF Calls
      <4>2. Saga!Completable(r)
        BY <4>1 DEF Saga!Completable
      <4>3. [q \in {r} |-> "completed"] \in [{r} -> {"completed", "needs_review"}]
        OBVIOUS
      <4>4. journal' = [q \in Requests |->
                            IF q \in {r} THEN [p \in {r} |-> "completed"][q] ELSE journal[q]]
        BY <3>2 DEF TypeOK
      <4>. QED
        BY <3>1, <4>2, <4>3, <4>4 DEF Saga!Close, Amount
    <3>3. CASE journal' = [journal EXCEPT ![r] = "needs_review"]
      <4>1. [q \in {r} |-> "needs_review"] \in [{r} -> {"completed", "needs_review"}]
        OBVIOUS
      <4>2. journal' = [q \in Requests |->
                            IF q \in {r} THEN [p \in {r} |-> "needs_review"][q] ELSE journal[q]]
        BY <3>3 DEF TypeOK
      <4>. QED
        BY <3>1, <4>1, <4>2 DEF Saga!Close, Amount
    <3>. QED
      BY <2>4, <3>2, <3>3 DEF Mark
  <2>5. CASE Recover
    <3>. DEFINE outcome == [r \in Stale |-> IF Matched(r) THEN "completed" ELSE "needs_review"]
    <3>1. UNCHANGED <<plan, transfers>> /\ Stale \subseteq Requests
      BY <2>5 DEF Recover, Stale
    <3>2. outcome \in [Stale -> {"completed", "needs_review"}]
      OBVIOUS
    <3>3. \A r \in Stale : journal[r] = "pending"
      BY DEF Stale
    <3>4. \A r \in Stale : outcome[r] = "completed" => Saga!Completable(r)
      BY <3>1 DEF Matched, Saga!Completable
    <3>5. journal' = [r \in Requests |-> IF r \in Stale THEN outcome[r] ELSE journal[r]]
      BY <2>5 DEF Recover
    <3>6. Saga!Close(Stale)
      BY <3>1, <3>2, <3>3, <3>4, <3>5 DEF Saga!Close, Amount
    <3>. QED
      BY <3>1, <3>6 DEF Saga!Next
  <2>6. CASE ~\E r \in Requests : CommitDebit(r) \/ Mark(r) \/ Transmit(r)
    <3>1. ASSUME ~Recover PROVE UNCHANGED <<plan, journal, transfers>>
      BY <2>6, <3>1 DEF Next, Section, Reserve, Look, ReserveAgain, CheckRow, Release,
                        ReadBalance, Debit, CommitFinal, FindRoute, InsertRoute, Pay,
                        CommitPayment, Fails, NotTransmitted, Expire, Crash, vars
    <3>. QED
      BY <2>1, <2>5, <3>1
  <2>. QED
    BY <2>2, <2>3, <2>4, <2>6 DEF Saga!Next
<1>. QED
  BY <1>1, <1>2, TypesAndLocks, StagesAndCalls, PTL DEF Spec, Saga!Spec, ImplementsSaga

(***************************************************************************)
(* One process                                                             *)
(***************************************************************************)

\* A handler runs only where no other handler of its process runs: it starts, and
\* comes back from its wallet call, on a free event loop.
LEMMA OneHandlerAtATime ==
    ASSUME TypeOK, Undisturbed, OneProcess, [Next]_vars, NEW r \in Requests, Busy(r)'
    PROVE  \A q \in Requests : q # r => ~Busy(q) /\ ~Busy(q)'
<1>. USE DEF database, wallet, Goto, Waiting, Ended, Busy
<1>1. \A q \in Requests : plan[q].worker = plan[r].worker
  BY DEF OneProcess
<1>2. ASSUME NEW p \in Requests, Reserve(p) \/ Mark(p) \/ (Fails(p) /\ pc[p] = "wallet")
      PROVE  \A q \in Requests : q # r => ~Busy(q) /\ ~Busy(q)'
  <2>1. \A q \in Requests : ~Busy(q)
    BY <1>1, <1>2 DEF Reserve, Mark, Fails, LoopFree, OneProcess
  <2>2. \A q \in Requests : q # p => pc'[q] = pc[q]
    BY <1>2 DEF Reserve, SetIfAbsent, Mark, Fails, TypeOK
  <2>. QED
    BY <2>1, <2>2
<1>3. ASSUME ~\E p \in Requests : Reserve(p) \/ Mark(p) \/ (Fails(p) /\ pc[p] = "wallet")
      PROVE  \A q \in Requests : Busy(q)' => Busy(q)
  <2>. DEFINE Goal == \A q \in Requests : Busy(q)' => Busy(q)
  <2>1. ASSUME NEW p \in Requests, Look(p) \/ ReserveAgain(p) \/ CheckRow(p) \/ Release(p)
                                   \/ ReadBalance(p) \/ Debit(p) \/ CommitDebit(p)
                                   \/ CommitFinal(p)
        PROVE  Goal
    BY <2>1 DEF Look, ReserveAgain, SetIfAbsent, CheckRow, Release, ReadBalance, Debit,
                CommitDebit, CommitFinal, TypeOK
  <2>2. ASSUME NEW p \in Requests, FindRoute(p) \/ InsertRoute(p) \/ Pay(p) \/ CommitPayment(p)
                                   \/ Transmit(p) \/ NotTransmitted(p)
        PROVE  Goal
    BY <2>2 DEF FindRoute, InsertRoute, Pay, CommitPayment, Transmit, NotTransmitted, TypeOK
  <2>3. ASSUME NEW p \in Requests, Fails(p), pc[p] # "wallet" PROVE Goal
    BY <2>3 DEF Fails, InFlight, TypeOK
  <2>4. CASE \/ \E k \in Keys : Expire(k)
             \/ \E w \in Workers : Crash(w)
             \/ Recover
             \/ UNCHANGED vars
    BY <2>4 DEF Expire, Crash, Recover, vars, TypeOK
  <2>. QED
    BY <1>3, <2>1, <2>2, <2>3, <2>4 DEF Next, Section
<1>4. CASE \A q \in Requests : Busy(q)' => Busy(q)
  BY <1>4 DEF Undisturbed
<1>. QED
  BY <1>2, <1>3, <1>4

\* Where a single process serves the requests, as deployed, a key is charged at most
\* once, although a refused duplicate frees the key's sentinel.
LEMMA NothingBetween == Spec => [](Undisturbed /\ (OneProcess => KeyChargedOnce))
<1>. USE DEF database, wallet, Goto
<1>1. Init => Undisturbed /\ (OneProcess => KeyChargedOnce)
  BY DEF Init, Undisturbed, Busy, Waiting, Ended, Withdrawing, Paying, KeyChargedOnce, Charged
<1>2. TypeOK /\ Stages /\ RowPerCharge /\ Undisturbed /\ (OneProcess => KeyChargedOnce)
          /\ [Next]_vars
        => Undisturbed' /\ (OneProcess => KeyChargedOnce)'
  <2>. SUFFICES ASSUME TypeOK, Stages, RowPerCharge, Undisturbed, [Next]_vars,
                       OneProcess => KeyChargedOnce, OneProcess'
                PROVE  /\ \A r, q \in Requests : Busy(r)' /\ Busy(q)' => r = q
                       /\ \A r \in Requests :
                             pc'[r] \in Withdrawing \cup Paying => ~KnownKey(r)'
                       /\ KeyChargedOnce'
    BY DEF Undisturbed
  <2>1. plan' = plan
    <3>1. CASE \/ Recover
               \/ \E r \in Requests : CommitDebit(r) \/ Mark(r) \/ CommitFinal(r)
                                       \/ CommitPayment(r)
      BY <3>1 DEF Recover, CommitDebit, Mark, CommitFinal, CommitPayment
    <3>. QED
      BY <3>1, Quiet
  <2>2. OneProcess /\ KeyChargedOnce
    BY <2>1 DEF OneProcess
  <2>3. \A r, q \in Requests : Busy(r)' /\ Busy(q)' => r = q
    BY <2>2, OneHandlerAtATime
  <2>4. ASSUME NEW r \in Requests, pc'[r] \in Withdrawing \cup Paying PROVE ~KnownKey(r)'
    <3>1. Busy(r)'
      BY <2>4 DEF Busy, Waiting, Ended, Withdrawing, Paying
    <3>2. \A q \in Requests : q # r => ~Busy(q) /\ ~Busy(q)'
      BY <2>2, <3>1, OneHandlerAtATime
    <3>3. ~\E q \in Requests : CommitDebit(q) \/ Mark(q) \/ CommitFinal(q) \/ CommitPayment(q)
      <4>. USE DEF Busy, Waiting, Ended, Withdrawing, Paying, TypeOK
      <4>1. ASSUME NEW q \in Requests, CommitDebit(q) \/ CommitFinal(q) \/ CommitPayment(q)
            PROVE  FALSE
        <5>1. Busy(q) /\ pc'[q] \in {"wallet", "done"}
          BY <4>1 DEF CommitDebit, CommitFinal, CommitPayment
        <5>. QED
          BY <2>4, <3>2, <5>1
      <4>2. ASSUME NEW q \in Requests, Mark(q) PROVE FALSE
        <5>1. pc'[q] \in {"promote", "release"}
          BY <4>2 DEF Mark
        <5>. QED
          BY <2>4, <3>2, <5>1
      <4>. QED
        BY <4>1, <4>2
    <3>4. rows' = rows
      BY <3>3, Quiet DEF Recover
    <3>5. pc[r] \in Withdrawing \cup Paying \/ (CheckRow(r) /\ rows[Key(r)] = None)
      <4>. USE DEF Withdrawing, Paying
      <4>1. ASSUME NEW p \in Requests, Reserve(p) \/ Look(p) \/ ReserveAgain(p) \/ CheckRow(p)
                                       \/ Release(p) \/ Fails(p)
            PROVE  pc[r] \in Withdrawing \cup Paying \/ (CheckRow(r) /\ rows[Key(r)] = None)
        BY <2>4, <4>1 DEF Reserve, Look, ReserveAgain, SetIfAbsent, CheckRow, Existing, Release,
                          Fails, TypeOK
      <4>2. ASSUME NEW p \in Requests, ReadBalance(p) \/ Debit(p) \/ FindRoute(p)
                                       \/ InsertRoute(p) \/ Pay(p)
                                       \/ Transmit(p) \/ NotTransmitted(p)
            PROVE  pc[r] \in Withdrawing \cup Paying
        BY <2>4, <4>2 DEF ReadBalance, Debit, FindRoute, InsertRoute, Pay, Transmit,
                          NotTransmitted, TypeOK
      <4>3. CASE \/ \E k \in Keys : Expire(k)
                 \/ \E w \in Workers : Crash(w)
                 \/ Recover
                 \/ UNCHANGED vars
        BY <2>4, <4>3 DEF Expire, Crash, Recover, vars, TypeOK
      <4>. QED
        BY <3>3, <4>1, <4>2, <4>3 DEF Next, Section
    <3>. QED
      BY <2>1, <2>2, <3>4, <3>5 DEF Undisturbed, KnownKey, Key
  <2>5. KeyChargedOnce'
    <3>1. ASSUME NEW r \in Requests, CommitDebit(r) \/ CommitPayment(r) PROVE KeyChargedOnce'
      <4>1. pc[r] \in Withdrawing \cup Paying
        BY <3>1 DEF CommitDebit, CommitPayment, Withdrawing, Paying
      <4>2. \A q \in Requests : Key(q) = Key(r) => ~Charged(q)
        BY <2>2, <4>1 DEF Undisturbed, RowPerCharge, KnownKey
      <4>3. \A q \in Requests : q # r => (Charged(q)' <=> Charged(q))
        <5>1. CASE CommitDebit(r)
          BY <5>1 DEF CommitDebit, Charged, TypeOK
        <5>2. CASE CommitPayment(r)
          BY <5>2 DEF CommitPayment, Charged, TypeOK
        <5>. QED
          BY <3>1, <5>1, <5>2
      <4>. QED
        BY <2>1, <2>2, <4>2, <4>3 DEF KeyChargedOnce, Key
    <3>2. ASSUME ~\E r \in Requests : CommitDebit(r) \/ CommitPayment(r) PROVE KeyChargedOnce'
      <4>1. \A q \in Requests : Charged(q)' <=> Charged(q)
        <5>1. CASE Recover
          BY <5>1 DEF Recover, Stale, Charged, TypeOK
        <5>2. ASSUME NEW r \in Requests, Mark(r) PROVE \A q \in Requests : Charged(q)' <=> Charged(q)
          BY <5>2 DEF Mark, Charged, Stages, TypeOK
        <5>3. ASSUME NEW r \in Requests, CommitFinal(r)
              PROVE  \A q \in Requests : Charged(q)' <=> Charged(q)
          BY <5>3 DEF CommitFinal, Charged
        <5>4. CASE UNCHANGED <<plan, rows, journal, paid>>
          BY <5>4 DEF Charged
        <5>. QED
          BY <3>2, <5>1, <5>2, <5>3, <5>4, Quiet
      <4>. QED
        BY <2>1, <2>2, <4>1 DEF KeyChargedOnce, Key
    <3>. QED
      BY <3>1, <3>2
  <2>. QED
    BY <2>3, <2>4, <2>5
<1>. QED
  BY <1>1, <1>2, TypesAndLocks, StagesAndCalls, RowsFollowCharges, PTL DEF Spec

(***************************************************************************)
(* The balance                                                             *)
(***************************************************************************)

Price == [r \in Requests |-> Amount(r)]
ChargedOnes == {r \in Requests : Charged(r)}

\* In one process nothing comes between the read of the balance and the write
\* that depends on it
Current ==
    OneProcess => \A r \in Requests : pc[r] \in {"debit", "commit"} => seen[r] = available

\* What has left the balance; only finitely many requests have been charged
Accounted ==
    OneProcess => IsFiniteSet(ChargedOnes)
                      /\ available = Start - SumFunctionOnSet(Price, ChargedOnes)

\* A step that is not a commit leaves the balance, and who was charged.
LEMMA BalanceSteps ==
    ASSUME TypeOK, Stages, [Next]_vars,
           ~\E r \in Requests : CommitDebit(r) \/ CommitPayment(r)
    PROVE  plan' = plan /\ available' = available /\ ChargedOnes' = ChargedOnes
<1>. USE DEF database, wallet
<1>. DEFINE Goal == plan' = plan /\ available' = available /\ ChargedOnes' = ChargedOnes
<1>1. ASSUME NEW r \in Requests, Reserve(r) \/ Look(r) \/ ReserveAgain(r) \/ CheckRow(r)
                                 \/ Release(r) \/ ReadBalance(r) \/ Debit(r) \/ CommitFinal(r)
      PROVE  Goal
  BY <1>1 DEF Reserve, Look, ReserveAgain, CheckRow, Release, ReadBalance, Debit, CommitFinal,
              ChargedOnes, Charged
<1>2. ASSUME NEW r \in Requests, FindRoute(r) \/ InsertRoute(r) \/ Pay(r) \/ Fails(r)
                                 \/ Transmit(r) \/ NotTransmitted(r)
      PROVE  Goal
  BY <1>2 DEF FindRoute, InsertRoute, Pay, Fails, Transmit, NotTransmitted, ChargedOnes, Charged
<1>3. ASSUME NEW r \in Requests, Mark(r) PROVE Goal
  BY <1>3 DEF Mark, Stages, TypeOK, ChargedOnes, Charged
<1>4. CASE Recover
  BY <1>4 DEF Recover, Stale, TypeOK, ChargedOnes, Charged
<1>5. ASSUME NEW k \in Keys, Expire(k) PROVE Goal
  BY <1>5 DEF Expire, ChargedOnes, Charged
<1>6. ASSUME NEW w \in Workers, Crash(w) PROVE Goal
  BY <1>6 DEF Crash, ChargedOnes, Charged
<1>7. CASE UNCHANGED vars
  BY <1>7 DEF vars, ChargedOnes, Charged
<1>. QED
  BY <1>1, <1>2, <1>3, <1>4, <1>5, <1>6, <1>7 DEF Next, Section

\* A balance that was read is not changed before it is written back.
LEMMA CurrentStep ==
    TypeOK /\ Stages /\ Undisturbed /\ Current /\ [Next]_vars => Current'
<1>. USE DEF database, wallet, Goto
<1>. SUFFICES ASSUME TypeOK, Stages, Undisturbed, Current, [Next]_vars, OneProcess',
                     NEW r \in Requests, pc'[r] \in {"debit", "commit"}
              PROVE  seen'[r] = available'
  BY DEF Current
<1>1. ~\E p \in Requests : CommitDebit(p) \/ CommitPayment(p)
  <2>. SUFFICES ASSUME NEW p \in Requests, CommitDebit(p) \/ CommitPayment(p) PROVE FALSE
    OBVIOUS
  <2>1. plan' = plan
    BY DEF CommitDebit, CommitPayment
  <2>2. OneProcess /\ Busy(r)'
    BY <2>1 DEF OneProcess, Busy, Waiting, Ended
  <2>3. \A q \in Requests : q # r => ~Busy(q)
    BY <2>2, OneHandlerAtATime
  <2>4. Busy(p) /\ pc'[p] \in {"wallet", "done"}
    BY DEF CommitDebit, CommitPayment, Busy, Waiting, Ended, TypeOK
  <2>. QED
    BY <2>3, <2>4
<1>2. available' = available /\ plan' = plan
  BY <1>1, BalanceSteps
<1>3. OneProcess /\ Busy(r)'
  BY <1>2 DEF OneProcess, Busy, Waiting, Ended
<1>4. \A q \in Requests : q # r => ~Busy(q) /\ ~Busy(q)'
  BY <1>3, OneHandlerAtATime
<1>5. seen'[r] = available \/ (pc[r] \in {"debit", "commit"} /\ seen'[r] = seen[r])
  <2>. DEFINE Goal == seen'[r] = available \/ (pc[r] \in {"debit", "commit"} /\ seen'[r] = seen[r])
  <2>1. ASSUME NEW p \in Requests, Reserve(p) \/ Look(p) \/ ReserveAgain(p) \/ CheckRow(p)
                                   \/ Release(p) \/ Mark(p) \/ CommitFinal(p)
        PROVE  Goal
    BY <2>1 DEF Reserve, Look, ReserveAgain, SetIfAbsent, CheckRow, Release, Mark, CommitFinal,
                TypeOK
  <2>2. ASSUME NEW p \in Requests, ReadBalance(p) PROVE Goal
    BY <2>2 DEF ReadBalance, TypeOK
  <2>3. ASSUME NEW p \in Requests, Debit(p) PROVE Goal
    <3>1. p = r
      <4>1. Busy(p)
        BY <2>3 DEF Debit, Busy, Waiting, Ended
      <4>. QED
        BY <1>4, <4>1
    <3>2. pc[r] = "debit" /\ UNCHANGED seen
      BY <2>3, <3>1 DEF Debit, TypeOK
    <3>. QED
      BY <3>2
  <2>4. ASSUME NEW p \in Requests, FindRoute(p) \/ InsertRoute(p) \/ Pay(p)
        PROVE  Goal
    <3>1. p = r
      <4>1. Busy(p)
        BY <2>4 DEF FindRoute, InsertRoute, Pay, Busy, Waiting, Ended
      <4>. QED
        BY <1>4, <4>1
    <3>. QED
      BY <2>4, <3>1 DEF FindRoute, InsertRoute, Pay, TypeOK
  <2>5. ASSUME NEW p \in Requests, Transmit(p) \/ NotTransmitted(p) PROVE Goal
    BY <2>5 DEF Transmit, NotTransmitted
  <2>6. ASSUME NEW p \in Requests, Fails(p) PROVE Goal
    BY <2>6 DEF Fails, CloseSession, TypeOK
  <2>7. CASE \/ \E k \in Keys : Expire(k)
             \/ \E w \in Workers : Crash(w)
             \/ Recover
             \/ UNCHANGED vars
    BY <2>7 DEF Expire, Crash, Recover, vars, TypeOK
  <2>. QED
    BY <1>1, <2>1, <2>2, <2>3, <2>4, <2>5, <2>6, <2>7 DEF Next, Section
<1>. QED
  BY <1>2, <1>3, <1>5 DEF Current

\* A commit takes what the one request costs off the balance.
LEMMA AccountedStep ==
    TypeOK /\ Locking /\ Stages /\ Current /\ Accounted /\ [Next]_vars => Accounted'
<1>. SUFFICES ASSUME TypeOK, Stages, Current, Accounted, [Next]_vars, OneProcess'
              PROVE  /\ IsFiniteSet(ChargedOnes)'
                     /\ available' = Start - SumFunctionOnSet(Price', ChargedOnes')
  BY DEF Accounted
<1>1. CASE ~\E r \in Requests : CommitDebit(r) \/ CommitPayment(r)
  <2>1. plan' = plan /\ available' = available /\ ChargedOnes' = ChargedOnes
    BY <1>1, BalanceSteps
  <2>2. OneProcess /\ Price' = Price
    BY <2>1 DEF OneProcess, Price, Amount
  <2>. QED
    BY <2>1, <2>2 DEF Accounted
<1>2. ASSUME NEW r \in Requests, CommitDebit(r) \/ CommitPayment(r)
      PROVE  /\ IsFiniteSet(ChargedOnes)'
             /\ available' = Start - SumFunctionOnSet(Price', ChargedOnes')
  <2>1. plan' = plan
    BY <1>2 DEF CommitDebit, CommitPayment
  <2>2. OneProcess /\ Price' = Price
    BY <2>1 DEF OneProcess, Price, Amount
  <2>3. r \notin ChargedOnes /\ ChargedOnes' = ChargedOnes \cup {r}
    <3>1. ~Charged(r)
      BY <1>2 DEF CommitDebit, CommitPayment, Stages, Withdrawing, Paying
    <3>2. \A q \in Requests : Charged(q)' <=> Charged(q) \/ q = r
      <4>1. CASE CommitDebit(r)
        BY <4>1 DEF CommitDebit, Charged, TypeOK
      <4>2. CASE CommitPayment(r)
        BY <4>2 DEF CommitPayment, Charged, TypeOK
      <4>. QED
        BY <1>2, <4>1, <4>2
    <3>. QED
      BY <3>1, <3>2 DEF ChargedOnes
  <2>4. available' = available - Amount(r)
    <3>1. CASE CommitDebit(r)
      BY <2>2, <3>1 DEF CommitDebit, Current, Balance
    <3>2. CASE CommitPayment(r)
      BY <3>2 DEF CommitPayment
    <3>. QED
      BY <1>2, <3>1, <3>2
  <2>5. /\ IsFiniteSet(ChargedOnes)
        /\ available = Start - SumFunctionOnSet(Price, ChargedOnes)
    BY <2>2 DEF Accounted
  <2>6. IsFiniteSet(ChargedOnes \cup {r})
    BY <2>5, FS_AddElement
  <2>7. \A q \in Requests : Price[q] \in Int /\ Price[q] = Amount(q)
    BY PlanTypes DEF Price
  <2>8. \A q \in ChargedOnes \cup {r} : Price[q] \in Int
    BY <2>7 DEF ChargedOnes
  <2>. DEFINE all == ChargedOnes \cup {r}
  <2>9. all \ {r} = ChargedOnes /\ r \in all
    BY <2>3
  <2>10. SumFunctionOnSet(Price, ChargedOnes) \in Int
    BY <2>5, <2>8, SumType
  <2>. HIDE DEF all
  <2>11. SumFunctionOnSet(Price, all) = Price[r] + SumFunctionOnSet(Price, all \ {r})
    <3>1. IsFiniteSet(all) /\ \A q \in all : Price[q] \in Int
      BY <2>6, <2>8 DEF all
    <3>. QED
      BY <2>9, <3>1, SumRemove
  <2>12. SumFunctionOnSet(Price', ChargedOnes') = Price[r] + SumFunctionOnSet(Price, ChargedOnes)
    BY <2>2, <2>3, <2>9, <2>11 DEF all
  <2>13. Start \in Nat /\ Price[r] \in Int /\ Price[r] = Amount(r)
    BY <2>7, PlansAssumption
  <2>14. available' = Start - SumFunctionOnSet(Price', ChargedOnes')
    BY <2>4, <2>5, <2>10, <2>12, <2>13
  <2>. QED
    BY <2>3, <2>6, <2>14
<1>. QED
  BY <1>1, <1>2

\* Where a single process serves the requests, as deployed, the balance is
\* always what the charged requests have left of it.
LEMMA OneProcessConserves == Spec => [](OneProcess => Conserved)
<1>1. Init => Current /\ Accounted
  <2>. SUFFICES ASSUME Init PROVE Current /\ Accounted
    OBVIOUS
  <2>1. ChargedOnes = {}
    BY DEF Init, ChargedOnes, Charged
  <2>2. available = Start /\ Start \in Nat
    BY PlansAssumption DEF Init
  <2>3. IsFiniteSet(ChargedOnes) /\ SumFunctionOnSet(Price, ChargedOnes) = 0
    BY <2>1, FS_EmptySet, SumEmpty
  <2>4. Current
    BY DEF Init, Current
  <2>. QED
    BY <2>2, <2>3, <2>4 DEF Accounted
<1>2. Accounted => (OneProcess => Conserved)
  BY DEF Accounted, Conserved, Price, ChargedOnes
<1>. QED
  BY <1>1, <1>2, CurrentStep, AccountedStep, TypesAndLocks, StagesAndCalls, NothingBetween,
     PTL DEF Spec

\* With a single worker process, as deployed, the balance adds up and a key is
\* charged once, whatever fails, crashes, expires or is retried.
THEOREM OneProcessSafety == Spec => []OneProcessIsSafe
<1>1. (OneProcess => Conserved) /\ (OneProcess => KeyChargedOnce) => OneProcessIsSafe
  BY DEF OneProcessIsSafe
<1>. QED
  BY <1>1, OneProcessConserves, NothingBetween, PTL
=============================================================================
