---------------------------- MODULE BillingProofs ----------------------------
(***************************************************************************)
(* Proofs about SubscriptionBilling for any agents, tiers, prices, number  *)
(* of API instances and of requests under way.                             *)
(***************************************************************************)
EXTENDS SubscriptionBilling, TLAPS

\* A prorated charge is a whole, non-negative amount.
LEMMA ProrateType ==
    ASSUME NEW price \in Nat, NEW d \in 1..DaysInMonth
    PROVE  ProrateCharge(price, d) \in Nat
<1>1. DaysInMonth \in Nat /\ DaysInMonth > 0 /\ DaysInMonth - d + 1 \in Nat
  BY CalendarAssumption
<1>2. 2 * price * (DaysInMonth - d + 1) \in Nat
  BY <1>1
<1>3. \A x, y \in Nat : y > 0 => x \div y \in Nat
  OBVIOUS
<1>. QED
  BY <1>1, <1>2, <1>3 DEF ProrateCharge

\* The requests and runs that are not idle are records of their kind.
LEMMA Busy ==
    ASSUME TypeOK
    PROVE  /\ \A q \in Requests : request[q].kind \in {"upgrade", "downgrade"} =>
                  request[q] \in TierChange
           /\ \A w \in Workers, l \in Loops : run[w][l].kind = "reading" =>
                  run[w][l] \in BillingRun
           /\ \A w \in Workers, l \in Loops : run[w][l].kind = "billed" =>
                  run[w][l] \in BilledRun
BY DEF TypeOK, Idle, BillingRun, BilledRun

\* What a run has read or billed, and the grace periods it leaves, have their types.
LEMMA BilledType ==
    ASSUME TypeOK, NEW r \in BillingRun \cup BilledRun, NEW billed, NEW l \in Loops
    PROVE  /\ r.due \subseteq Agents /\ r.seen \in [Agents -> Tiers] /\ r.graced \subseteq Agents
           /\ Billed(r) \subseteq r.due
           /\ Expired(l, r, billed) \subseteq Agents
           /\ \A a \in Agents : GraceAfterBilling(r, billed, a) \in NoGrace..GraceDays
<1>1. r.due \subseteq Agents /\ r.seen \in [Agents -> Tiers] /\ r.graced \subseteq Agents
  BY DEF BillingRun, BilledRun
<1>2. grace \in [Agents -> NoGrace..GraceDays]
  BY DEF TypeOK
<1>3. ASSUME NEW a \in Agents PROVE GraceAfterBilling(r, billed, a) \in NoGrace..GraceDays
  BY <1>2, CalendarAssumption DEF GraceAfterBilling, NoGrace
<1>. QED
  BY <1>1, <1>3 DEF Billed, Expired

\* A request that commits leaves tiers, grace periods and requests well-typed.
LEMMA WriteBackType ==
    ASSUME TypeOK, NEW q \in Requests, NEW r \in TierChange, WriteBack(q, r)
    PROVE  /\ tier' \in [Agents -> Tiers]
           /\ grace' \in [Agents -> NoGrace..GraceDays]
           /\ unpaidDays' \in [Agents -> 0..GraceDays + 2]
           /\ request' \in [Requests -> {Idle} \cup TierChange]
<1>1. tier' \in [Agents -> Tiers]
  BY DEF WriteBack, TypeOK, TierChange
<1>2. grace' \in [Agents -> NoGrace..GraceDays]
  <2>1. NoGrace \in NoGrace..GraceDays
    BY CalendarAssumption DEF NoGrace
  <2>. QED
    BY <2>1 DEF WriteBack, TypeOK
<1>3. unpaidDays' \in [Agents -> 0..GraceDays + 2]
  <2>1. 0 \in 0..GraceDays + 2
    BY CalendarAssumption
  <2>. QED
    BY <2>1 DEF WriteBack, TypeOK
<1>4. request' \in [Requests -> {Idle} \cup TierChange]
  BY DEF WriteBack, TypeOK
<1>. QED
  BY <1>1, <1>2, <1>3, <1>4


(***************************************************************************)
(* Type correctness                                                        *)
(***************************************************************************)

\* What a run has charged is there until it commits: it holds the locks of the balances,
\* which no other run holds.
Covered ==
    \A w \in Workers, l \in Loops : run[w][l].kind = "billed" =>
        /\ run[w][l].billed \subseteq run[w][l].due
        /\ \A a \in run[w][l].billed : balance[a] >= Price[run[w][l].seen[a]]
        /\ \A v \in Workers, m \in Loops :
               run[v][m].kind = "billed" /\ run[w][l].due \cap run[v][m].due # {} => v = w /\ m = l

\* A billing run that bills stores what it charges and lists, and locks what nobody has.
LEMMA RunBillsType ==
    ASSUME TypeOK, Covered, NEW w \in Workers, NEW l \in Loops, RunBills(w, l)
    PROVE  TypeOK' /\ Covered'
<1>. DEFINE r == run[w][l]
            b == [kind |-> "billed", due |-> r.due, seen |-> r.seen, graced |-> r.graced,
                  billed |-> Billed(r), expired |-> Expired(l, r, Billed(r))]
<1>1. r \in BillingRun
  BY Busy DEF RunBills
<1>2. /\ r.due \subseteq Agents /\ r.seen \in [Agents -> Tiers] /\ r.graced \subseteq Agents
      /\ Billed(r) \subseteq r.due
      /\ Expired(l, r, Billed(r)) \subseteq Agents
  <2>. HIDE DEF r
  <2>. QED
    BY <1>1, BilledType
<1>3. b \in BilledRun
  BY <1>2 DEF BilledRun
<1>4. /\ run' = [run EXCEPT ![w][l] = b]
      /\ UNCHANGED <<day, tier, grace, balance, monthly, request, history>>
      /\ \A a \in r.due : ~BalanceLocked(a)
  BY DEF RunBills
<1>5. /\ b.kind = "billed" /\ b.due = r.due /\ b.seen = r.seen /\ b.billed = Billed(r)
  OBVIOUS
<1>6. \A a \in Billed(r) : balance[a] >= Price[r.seen[a]]
  BY DEF Billed, Affords
<1>. HIDE DEF r, b
<1>7. TypeOK'
  BY <1>3, <1>4 DEF TypeOK, history
<1>8. \A v \in Workers, m \in Loops : run'[v][m] = IF v = w /\ m = l THEN b ELSE run[v][m]
  BY <1>4 DEF TypeOK
<1>9. \A v \in Workers, m \in Loops : run[v][m].kind = "billed" => r.due \cap run[v][m].due = {}
  BY <1>4 DEF BalanceLocked
<1>10. ASSUME NEW v \in Workers, NEW m \in Loops, run'[v][m].kind = "billed"
       PROVE  /\ run'[v][m].billed \subseteq run'[v][m].due
              /\ \A a \in run'[v][m].billed : balance'[a] >= Price[run'[v][m].seen[a]]
              /\ \A u \in Workers, k \in Loops :
                     run'[u][k].kind = "billed" /\ run'[v][m].due \cap run'[u][k].due # {}
                         => u = v /\ k = m
  <2>1. CASE v = w /\ m = l
    BY <1>2, <1>4, <1>5, <1>6, <1>8, <1>9, <2>1
  <2>2. CASE ~(v = w /\ m = l)
    BY <1>4, <1>5, <1>8, <1>9, <1>10, <2>2 DEF Covered
  <2>. QED
    BY <2>1, <2>2
<1>. QED
  BY <1>7, <1>10 DEF Covered

\* A billing run that commits keeps the types: what it charges is still there.
LEMMA RunCommitsType ==
    ASSUME TypeOK, Covered, NEW w \in Workers, NEW l \in Loops, RunCommits(w, l)
    PROVE  TypeOK' /\ Covered'
<1>. DEFINE r == run[w][l]
<1>1. r \in BilledRun /\ r.billed \subseteq r.due
  BY Busy DEF RunCommits, Covered
<1>2. r.due \subseteq Agents /\ r.seen \in [Agents -> Tiers] /\ r.billed \subseteq Agents
  BY <1>1 DEF BilledRun
<1>3. \A a \in Agents : Price[r.seen[a]] \in Nat
  BY <1>2, TiersAssumption
<1>4. \A a \in r.billed : balance[a] - Price[r.seen[a]] \in Nat
  <2>1. \A a \in r.billed : balance[a] >= Price[r.seen[a]]
    BY DEF RunCommits, Covered
  <2>. QED
    BY <1>2, <1>3, <2>1 DEF TypeOK
<1>5. \A a \in Agents : GraceAfterBilling(r, r.billed, a) \in NoGrace..GraceDays
  <2>. HIDE DEF r
  <2>. QED
    BY <1>1, BilledType DEF Loops
<1>. HIDE DEF r
<1>6. balance' \in [Agents -> Nat]
  BY <1>4 DEF RunCommits, TypeOK, r
<1>7. monthly' \subseteq Agents
  BY <1>2 DEF RunCommits, TypeOK, r
<1>8. grace' \in [Agents -> NoGrace..GraceDays]
  <2>1. NoGrace \in NoGrace..GraceDays
    BY CalendarAssumption DEF NoGrace
  <2>. QED
    BY <1>5, <2>1 DEF RunCommits, r
<1>9. tier' \in [Agents -> Tiers]
  BY TiersAssumption DEF RunCommits, TypeOK
<1>10. run' \in [Workers -> [Loops -> {Idle} \cup BillingRun \cup BilledRun]]
  BY DEF RunCommits, TypeOK
<1>11. cronTotal' \in [Agents -> Nat]
  <2>1. \A a \in Agents : cronTotal[a] + Price[r.seen[a]] \in Nat
    BY <1>3 DEF TypeOK
  <2>. QED
    BY <2>1 DEF RunCommits, TypeOK, r
<1>12. unpaidDays' \in [Agents -> 0..GraceDays + 2]
  <2>1. 0 \in 0..GraceDays + 2 /\ 1 \in 0..GraceDays + 2
    BY CalendarAssumption
  <2>. QED
    BY <2>1 DEF RunCommits, TypeOK
<1>13. TypeOK'
  BY <1>6, <1>7, <1>8, <1>9, <1>10, <1>11, <1>12 DEF RunCommits, TypeOK
<1>14. \A v \in Workers, m \in Loops : run'[v][m] = IF v = w /\ m = l THEN Idle ELSE run[v][m]
  BY DEF RunCommits, TypeOK
<1>15. ASSUME NEW v \in Workers, NEW m \in Loops, run'[v][m].kind = "billed"
       PROVE  /\ run'[v][m].billed \subseteq run'[v][m].due
              /\ \A a \in run'[v][m].billed : balance'[a] >= Price[run'[v][m].seen[a]]
              /\ \A u \in Workers, k \in Loops :
                     run'[u][k].kind = "billed" /\ run'[v][m].due \cap run'[u][k].due # {}
                         => u = v /\ k = m
  <2>1. ~(v = w /\ m = l) /\ run'[v][m] = run[v][m] /\ run[v][m].kind = "billed"
    BY <1>14, <1>15 DEF Idle
  <2>2. run[v][m].billed \subseteq run[v][m].due /\ run[v][m].due \subseteq Agents
    BY <2>1, Busy DEF Covered, BilledRun
  <2>3. ASSUME NEW a \in run[v][m].billed PROVE balance'[a] >= Price[run[v][m].seen[a]]
    <3>1. r.kind = "billed"
      BY DEF RunCommits, r
    <3>2. run[v][m].due \cap r.due = {}
      BY <2>1, <3>1 DEF Covered, r
    <3>3. a \in Agents /\ a \notin r.billed
      BY <1>1, <2>2, <3>2
    <3>4. balance'[a] = balance[a]
      BY <3>3 DEF RunCommits, r
    <3>. QED
      BY <2>1, <3>4 DEF Covered
  <2>4. ASSUME NEW u \in Workers, NEW k \in Loops, run'[u][k].kind = "billed",
               run'[v][m].due \cap run'[u][k].due # {}
        PROVE  u = v /\ k = m
    <3>1. run'[u][k] = run[u][k]
      BY <1>14, <2>4 DEF Idle
    <3>. QED
      BY <2>1, <2>4, <3>1 DEF Covered
  <2>. QED
    BY <2>1, <2>2, <2>3, <2>4
<1>. QED
  BY <1>13, <1>15 DEF Covered

\* A step that leaves the runs alone or ends one, and takes nothing from a locked balance,
\* keeps what runs have charged.
LEMMA StaysCovered ==
    ASSUME TypeOK, Covered,
           \A v \in Workers, m \in Loops : run'[v][m].kind = "billed" => run'[v][m] = run[v][m],
           \A a \in Agents : BalanceLocked(a) => balance'[a] >= balance[a],
           balance' \in [Agents -> Nat]
    PROVE  Covered'
<1>1. ASSUME NEW v \in Workers, NEW m \in Loops, run'[v][m].kind = "billed"
      PROVE  /\ run'[v][m].billed \subseteq run'[v][m].due
             /\ \A a \in run'[v][m].billed : balance'[a] >= Price[run'[v][m].seen[a]]
             /\ \A u \in Workers, k \in Loops :
                    run'[u][k].kind = "billed" /\ run'[v][m].due \cap run'[u][k].due # {}
                        => u = v /\ k = m
  <2>1. run'[v][m] = run[v][m] /\ run[v][m].kind = "billed"
    BY <1>1
  <2>2. /\ run[v][m].billed \subseteq run[v][m].due
        /\ run[v][m].due \subseteq Agents /\ run[v][m].seen \in [Agents -> Tiers]
    BY <2>1, Busy DEF Covered, BilledRun
  <2>3. ASSUME NEW a \in run[v][m].billed PROVE balance'[a] >= Price[run[v][m].seen[a]]
    <3>1. balance[a] >= Price[run[v][m].seen[a]]
      BY <2>1 DEF Covered
    <3>2. balance'[a] >= balance[a]
      BY <2>1, <2>2 DEF BalanceLocked
    <3>3. balance[a] \in Nat /\ balance'[a] \in Nat /\ Price[run[v][m].seen[a]] \in Nat
      BY <2>2, TiersAssumption DEF TypeOK
    <3>. QED
      BY <3>1, <3>2, <3>3
  <2>. QED
    BY <1>1, <2>1, <2>2, <2>3 DEF Covered
<1>. QED
  BY <1>1 DEF Covered

\* A committed tier change keeps the types: the charge is covered and rounded to
\* a whole amount.
LEMMA ChangeCommitsType ==
    ASSUME TypeOK, NEW q \in Requests, UpgradeCommits(q) \/ DowngradeCommits(q)
    PROVE  /\ TypeOK' /\ UNCHANGED run
           /\ \A a \in Agents : BalanceLocked(a) => balance'[a] >= balance[a]
<1>. DEFINE r == request[q]
<1>1. r \in TierChange /\ WriteBack(q, r)
  BY Busy DEF UpgradeCommits, DowngradeCommits
<1>2. r.agent \in Agents /\ r.from \in Tiers /\ r.to \in Tiers
  BY <1>1 DEF TierChange
<1>3. /\ ProrateCharge(Price[r.to], day) \in Nat
      /\ ProrateCharge(Price[r.from], day) \in Nat
  <2>1. Price[r.to] \in Nat /\ Price[r.from] \in Nat /\ day \in 1..DaysInMonth
    BY <1>2, TiersAssumption DEF TypeOK
  <2>. QED
    BY <2>1, ProrateType
<1>4. /\ tier' \in [Agents -> Tiers]
      /\ grace' \in [Agents -> NoGrace..GraceDays]
      /\ unpaidDays' \in [Agents -> 0..GraceDays + 2]
      /\ request' \in [Requests -> {Idle} \cup TierChange]
  BY <1>1, WriteBackType
<1>. HIDE DEF r
<1>5. CASE UpgradeCommits(q)
  <2>1. balance' \in [Agents -> Nat]
    <3>1. balance[r.agent] - ProrateCharge(Price[r.to], day) \in Nat
      BY <1>2, <1>3, <1>5 DEF UpgradeCommits, Affords, TypeOK, r
    <3>. QED
      BY <1>5, <3>1 DEF UpgradeCommits, TypeOK, r
  <2>2. \A a \in Agents : BalanceLocked(a) => balance'[a] = balance[a]
    BY <1>5 DEF UpgradeCommits, TypeOK
  <2>. QED
    BY <1>1, <1>4, <1>5, <2>1, <2>2 DEF UpgradeCommits, WriteBack, TypeOK
<1>6. CASE DowngradeCommits(q)
  <2>1. balance' \in [Agents -> Nat]
    BY <1>2, <1>3, <1>6 DEF DowngradeCommits, TypeOK, r
  <2>2. \A a \in Agents : balance'[a] >= balance[a]
    <3>1. PICK refund \in {0, ProrateCharge(Price[r.from], day)} :
              balance' = [balance EXCEPT ![r.agent] = @ + refund]
      BY <1>6 DEF DowngradeCommits, r
    <3>2. refund \in Nat
      BY <1>3, <3>1
    <3>. QED
      BY <3>1, <3>2 DEF TypeOK
  <2>. QED
    BY <1>1, <1>4, <1>6, <2>1, <2>2 DEF DowngradeCommits, WriteBack, TypeOK
<1>. QED
  BY <1>5, <1>6

\* Types and charges that are covered: inductive together.
LEMMA TypesAndLocks == Spec => [](TypeOK /\ Covered)
<1>1. Init => TypeOK /\ Covered
  <2>1. 1 \in 1..DaysInMonth /\ NoGrace \in NoGrace..GraceDays /\ 0 \in 0..GraceDays + 2
    BY CalendarAssumption DEF NoGrace
  <2>2. \A a \in Agents : InitialBalance[a] \in Nat
    BY CalendarAssumption
  <2>3. Init => TypeOK
    BY <2>1, <2>2, CalendarAssumption DEF Init, TypeOK
  <2>4. Init => Covered
    BY DEF Init, Covered, Idle
  <2>. QED
    BY <2>3, <2>4
<1>2. TypeOK /\ Covered /\ [Next]_vars => TypeOK' /\ Covered'
  <2>. SUFFICES ASSUME TypeOK, Covered, [Next]_vars PROVE TypeOK' /\ Covered'
    OBVIOUS
  <2>0. ASSUME TypeOK', UNCHANGED run,
               \A a \in Agents : BalanceLocked(a) => balance'[a] >= balance[a]
        PROVE  Covered'
    BY <2>0, StaysCovered DEF TypeOK
  <2>00. ASSUME UNCHANGED balance
         PROVE  \A a \in Agents : BalanceLocked(a) => balance'[a] >= balance[a]
    BY <2>00 DEF TypeOK
  <2>1. CASE NextDay
    <3>1. day' \in 1..DaysInMonth
      BY <2>1, CalendarAssumption DEF NextDay, TypeOK
    <3>2. grace' \in [Agents -> NoGrace..GraceDays]
      BY <2>1, CalendarAssumption DEF NextDay, TypeOK, NoGrace
    <3>3. unpaidDays' \in [Agents -> 0..GraceDays + 2]
      BY <2>1, CalendarAssumption DEF NextDay, TypeOK
    <3>4. /\ monthly' \subseteq Agents
          /\ cronTotal' \in [Agents -> Nat]
          /\ overAtDawn' \subseteq Agents
      BY <2>1 DEF NextDay, TypeOK
    <3>5. UNCHANGED <<tier, balance, request, run>>
      BY <2>1 DEF NextDay
    <3>6. TypeOK'
      BY <3>1, <3>2, <3>3, <3>4, <3>5 DEF TypeOK
    <3>. QED
      BY <2>0, <2>00, <3>5, <3>6
  <2>2. ASSUME NEW a \in Agents, NEW amount \in TopUps, TopUp(a, amount)
        PROVE  TypeOK' /\ Covered'
    <3>1. balance[a] + amount \in Nat /\ balance[a] + amount >= balance[a]
      BY CalendarAssumption DEF TypeOK
    <3>2. TypeOK'
      BY <2>2, <3>1 DEF TopUp, TypeOK, history
    <3>3. \A b \in Agents : balance'[b] >= balance[b]
      BY <2>2, <3>1 DEF TopUp, TypeOK
    <3>. QED
      BY <2>0, <2>2, <3>2, <3>3 DEF TopUp
  <2>3. ASSUME NEW q \in Requests, NEW a \in Agents, NEW t \in Tiers,
               UpgradeReads(q, a, t) \/ DowngradeReads(q, a, t)
        PROVE  TypeOK' /\ Covered'
    <3>1. Loaded("upgrade", a, t) \in TierChange /\ Loaded("downgrade", a, t) \in TierChange
      BY DEF Loaded, TierChange, TypeOK
    <3>2. TypeOK' /\ UNCHANGED <<balance, run>>
      BY <2>3, <3>1 DEF UpgradeReads, DowngradeReads, TypeOK, history
    <3>. QED
      BY <2>0, <2>00, <3>2
  <2>4. ASSUME NEW q \in Requests, UpgradeCommits(q) \/ DowngradeCommits(q)
        PROVE  TypeOK' /\ Covered'
    BY <2>0, <2>4, ChangeCommitsType
  <2>5. ASSUME NEW q \in Requests, RequestFails(q) PROVE TypeOK' /\ Covered'
    <3>1. TypeOK' /\ UNCHANGED <<balance, run>>
      BY <2>5 DEF RequestFails, TypeOK, history
    <3>. QED
      BY <2>0, <2>00, <3>1
  <2>6. ASSUME NEW w \in Workers, NEW l \in Loops, RunReads(w, l) PROVE TypeOK' /\ Covered'
    <3>1. [kind |-> "reading", due |-> Due, seen |-> tier,
           graced |-> {a \in Agents : grace[a] # NoGrace}] \in BillingRun
      BY DEF BillingRun, Due, TypeOK
    <3>2. TypeOK' /\ UNCHANGED balance
      BY <2>6, <3>1 DEF RunReads, TypeOK, history
    <3>3. \A v \in Workers, m \in Loops : run'[v][m].kind = "billed" => run'[v][m] = run[v][m]
      BY <2>6 DEF RunReads, TypeOK
    <3>. QED
      BY <2>00, <3>2, <3>3, StaysCovered DEF TypeOK
  <2>7. ASSUME NEW w \in Workers, NEW l \in Loops, RunBills(w, l) PROVE TypeOK' /\ Covered'
    BY <2>7, RunBillsType
  <2>8. ASSUME NEW w \in Workers, NEW l \in Loops, RunCommits(w, l) PROVE TypeOK' /\ Covered'
    BY <2>8, RunCommitsType
  <2>9. ASSUME NEW w \in Workers, NEW l \in Loops, RunAborts(w, l) PROVE TypeOK' /\ Covered'
    <3>1. TypeOK' /\ UNCHANGED balance
      BY <2>9 DEF RunAborts, TypeOK, history
    <3>2. \A v \in Workers, m \in Loops : run'[v][m].kind = "billed" => run'[v][m] = run[v][m]
      BY <2>9 DEF RunAborts, TypeOK, Idle
    <3>. QED
      BY <2>00, <3>1, <3>2, StaysCovered DEF TypeOK
  <2>10. CASE UNCHANGED vars
    <3>1. TypeOK' /\ UNCHANGED <<balance, run>>
      BY <2>10 DEF vars, TypeOK
    <3>. QED
      BY <2>0, <2>00, <3>1
  <2>. QED
    BY <2>1, <2>2, <2>3, <2>4, <2>5, <2>6, <2>7, <2>8, <2>9, <2>10 DEF Next
<1>. QED
  BY <1>1, <1>2, PTL DEF Spec

\* Every variable keeps its type; a balance is never negative, whatever requests
\* and runs charge it at the same time.
THEOREM BillingTypeCorrect == Spec => []TypeOK
BY TypesAndLocks, PTL

(***************************************************************************)
(* One monthly charge                                                      *)
(***************************************************************************)

\* The inductive invariant: what has no monthly_charge row has not been charged
ChargeInv ==
    \A a \in Agents :
        /\ cronTotal[a] \in {Price[t] : t \in Tiers}
        /\ a \notin monthly => cronTotal[a] = 0

\* However many runs overlap, are retried or aborted, they charge an agent at most
\* one monthly price in a month: the unique index stops the second.
THEOREM AtMostOneCharge == Spec => []OneMonthlyCharge
<1>1. Init => ChargeInv
  BY TiersAssumption DEF Init, ChargeInv
<1>2. TypeOK /\ ChargeInv /\ [Next]_vars => ChargeInv'
  <2>. SUFFICES ASSUME TypeOK, ChargeInv, [Next]_vars PROVE ChargeInv'
    OBVIOUS
  <2>1. CASE UNCHANGED <<monthly, cronTotal>>
    BY <2>1 DEF ChargeInv
  <2>2. CASE NextDay
    <3>1. CASE day = DaysInMonth
      BY <2>2, <3>1, TiersAssumption DEF NextDay, ChargeInv
    <3>2. CASE day # DaysInMonth
      BY <2>1, <2>2, <3>2 DEF NextDay
    <3>. QED
      BY <3>1, <3>2
  <2>3. ASSUME NEW w \in Workers, NEW l \in Loops, RunCommits(w, l), NEW a \in Agents
        PROVE  /\ cronTotal'[a] \in {Price[t] : t \in Tiers}
               /\ a \notin monthly' => cronTotal'[a] = 0
    <3>. DEFINE r == run[w][l]
    <3>1. r \in BilledRun
      BY <2>3, Busy DEF RunCommits
    <3>2. r.seen[a] \in Tiers /\ Price[r.seen[a]] \in Nat
      BY <3>1, TiersAssumption DEF BilledRun
    <3>. HIDE DEF r
    <3>3. CASE a \in r.billed
      <4>1. a \notin monthly
        BY <2>3, <3>3 DEF RunCommits, NoDuplicate, r
      <4>2. cronTotal'[a] = 0 + Price[r.seen[a]] /\ a \in monthly'
        BY <2>3, <3>3, <4>1 DEF RunCommits, ChargeInv, r
      <4>. QED
        BY <3>2, <4>2
    <3>4. CASE a \notin r.billed
      BY <2>3, <3>4 DEF RunCommits, ChargeInv, r
    <3>. QED
      BY <3>3, <3>4
  <2>4. ASSUME NEW w \in Workers, NEW l \in Loops, RunCommits(w, l) PROVE ChargeInv'
    BY <2>3, <2>4 DEF ChargeInv
  <2>5. CASE \/ \E a \in Agents : \E amount \in TopUps : TopUp(a, amount)
             \/ \E q \in Requests, a \in Agents, t \in Tiers :
                   UpgradeReads(q, a, t) \/ DowngradeReads(q, a, t)
             \/ \E q \in Requests : UpgradeCommits(q) \/ DowngradeCommits(q) \/ RequestFails(q)
             \/ \E w \in Workers, l \in Loops : RunReads(w, l) \/ RunBills(w, l) \/ RunAborts(w, l)
             \/ UNCHANGED vars
    <3>1. UNCHANGED <<monthly, cronTotal>>
      BY <2>5 DEF TopUp, UpgradeReads, DowngradeReads, UpgradeCommits, DowngradeCommits,
                  RequestFails, RunReads, RunBills, RunAborts, vars, history
    <3>. QED
      BY <2>1, <3>1
  <2>. QED
    BY <2>2, <2>4, <2>5 DEF Next
<1>3. ChargeInv => OneMonthlyCharge
  BY DEF ChargeInv, OneMonthlyCharge
<1>. QED
  BY <1>1, <1>2, <1>3, BillingTypeCorrect, PTL DEF Spec

(***************************************************************************)
(* Grace                                                                   *)
(***************************************************************************)

\* The inductive invariant.  A grace period that is over was over when the day began; an
\* agent that a run read as not in grace is in none that is over; and whom a run has
\* listed was over when the day began and not due in that run.
GraceInv ==
    /\ \A a \in Agents : grace[a] = Elapsed => a \in overAtDawn
    /\ \A w \in Workers, l \in Loops : run[w][l] # Idle =>
           \A a \in run[w][l].due \ run[w][l].graced : grace[a] # Elapsed
    /\ \A w \in Workers, l \in Loops : run[w][l].kind = "billed" =>
           run[w][l].expired \subseteq overAtDawn \ run[w][l].due

\* Within a day no grace period comes to be over: a step that keeps the runs or ends one
\* keeps the invariant.
LEMMA GraceStaysOver ==
    ASSUME GraceInv, TypeOK, UNCHANGED overAtDawn,
           \A a \in Agents : grace'[a] = Elapsed => grace[a] = Elapsed,
           \A v \in Workers, m \in Loops : run'[v][m] \in {run[v][m], Idle}
    PROVE  GraceInv'
<1>1. \A a \in Agents : grace'[a] = Elapsed => a \in overAtDawn'
  BY DEF GraceInv
<1>2. ASSUME NEW v \in Workers, NEW m \in Loops, run'[v][m] # Idle,
             NEW a \in run'[v][m].due \ run'[v][m].graced
      PROVE  grace'[a] # Elapsed
  <2>1. run'[v][m] = run[v][m]
    BY <1>2
  <2>2. run[v][m] \in BillingRun \cup BilledRun
    BY <1>2, <2>1 DEF TypeOK
  <2>3. a \in Agents
    BY <1>2, <2>1, <2>2 DEF BillingRun, BilledRun
  <2>. QED
    BY <1>2, <2>1, <2>3 DEF GraceInv
<1>3. ASSUME NEW v \in Workers, NEW m \in Loops, run'[v][m].kind = "billed"
      PROVE  run'[v][m].expired \subseteq overAtDawn' \ run'[v][m].due
  BY <1>3 DEF GraceInv, Idle
<1>. QED
  BY <1>1, <1>2, <1>3 DEF GraceInv

\* A run takes a tier only from an agent whose grace period was over when the day began and
\* whom it has not tried to charge: restarting the period in the same run saves the agent.
THEOREM GraceIsKept == Spec => GraceKeepsTier
<1>1. Init => GraceInv
  BY DEF Init, GraceInv, Idle, NoGrace, Elapsed
<1>2. TypeOK /\ GraceInv /\ [Next]_vars => GraceInv'
  <2>. SUFFICES ASSUME TypeOK, GraceInv, [Next]_vars PROVE GraceInv'
    OBVIOUS
  <2>1. CASE NextDay
    BY <2>1 DEF NextDay, GraceInv, Idle
  <2>2. ASSUME NEW w \in Workers, NEW l \in Loops, RunReads(w, l) PROVE GraceInv'
    <3>. DEFINE b == [kind |-> "reading", due |-> Due, seen |-> tier,
                      graced |-> {a \in Agents : grace[a] # NoGrace}]
    <3>1. \A v \in Workers, m \in Loops : run'[v][m] = IF v = w /\ m = l THEN b ELSE run[v][m]
      BY <2>2 DEF RunReads, TypeOK
    <3>2. UNCHANGED <<grace, overAtDawn>>
      BY <2>2 DEF RunReads, history
    <3>3. b.kind = "reading" /\ \A a \in b.due \ b.graced : grace[a] # Elapsed
      BY DEF Due, NoGrace, Elapsed
    <3>. HIDE DEF b
    <3>. QED
      BY <3>1, <3>2, <3>3 DEF GraceInv
  <2>3. ASSUME NEW w \in Workers, NEW l \in Loops, RunBills(w, l) PROVE GraceInv'
    <3>. DEFINE r == run[w][l]
                b == [kind |-> "billed", due |-> r.due, seen |-> r.seen, graced |-> r.graced,
                      billed |-> Billed(r), expired |-> Expired(l, r, Billed(r))]
    <3>1. \A v \in Workers, m \in Loops : run'[v][m] = IF v = w /\ m = l THEN b ELSE run[v][m]
      BY <2>3 DEF RunBills, TypeOK
    <3>2. UNCHANGED <<grace, overAtDawn>>
      BY <2>3 DEF RunBills, history
    <3>3. r # Idle /\ r.kind = "reading"
      BY <2>3 DEF RunBills, Idle
    <3>4. \A a \in b.due \ b.graced : grace[a] # Elapsed
      BY <3>3 DEF GraceInv
    <3>5. ASSUME NEW a \in b.expired PROVE a \in overAtDawn \ b.due
      <4>1. a \in Agents /\ GraceAfterBilling(r, Billed(r), a) = Elapsed
        BY <3>5 DEF Expired
      <4>2. NoGrace # Elapsed /\ GraceDays # Elapsed
        BY CalendarAssumption DEF NoGrace, Elapsed
      <4>3. /\ a \notin Billed(r) \cap r.graced /\ a \notin r.due \ Billed(r)
            /\ grace[a] = Elapsed
        BY <4>1, <4>2 DEF GraceAfterBilling
      <4>. QED
        BY <3>4, <4>1, <4>3 DEF GraceInv
    <3>6. b.kind = "billed"
      OBVIOUS
    <3>. HIDE DEF b
    <3>. QED
      BY <3>1, <3>2, <3>4, <3>5, <3>6 DEF GraceInv
  <2>4. ASSUME NEW w \in Workers, NEW l \in Loops, RunCommits(w, l) PROVE GraceInv'
    <3>1. \A v \in Workers, m \in Loops : run'[v][m] \in {run[v][m], Idle}
      BY <2>4 DEF RunCommits, TypeOK
    <3>2. NoGrace # Elapsed /\ GraceDays # Elapsed
      BY CalendarAssumption DEF NoGrace, Elapsed
    <3>3. \A a \in Agents : grace'[a] = Elapsed => grace[a] = Elapsed
      BY <2>4, <3>2 DEF RunCommits, GraceAfterBilling
    <3>4. UNCHANGED overAtDawn
      BY <2>4 DEF RunCommits
    <3>. QED
      BY <3>1, <3>3, <3>4, GraceStaysOver
  <2>5. ASSUME NEW q \in Requests, UpgradeCommits(q) \/ DowngradeCommits(q) PROVE GraceInv'
    <3>1. UNCHANGED <<run, overAtDawn>> /\ WriteBack(q, request[q])
      BY <2>5 DEF UpgradeCommits, DowngradeCommits, WriteBack
    <3>2. \A a \in Agents : grace'[a] = Elapsed => grace[a] = Elapsed
      BY <3>1 DEF WriteBack, TypeOK, NoGrace, Elapsed
    <3>. QED
      BY <3>1, <3>2, GraceStaysOver
  <2>6. CASE \/ \E a \in Agents : \E amount \in TopUps : TopUp(a, amount)
             \/ \E q \in Requests, a \in Agents, t \in Tiers :
                   UpgradeReads(q, a, t) \/ DowngradeReads(q, a, t)
             \/ \E q \in Requests : RequestFails(q)
             \/ UNCHANGED vars
    <3>1. UNCHANGED <<grace, run, overAtDawn>>
      BY <2>6 DEF TopUp, UpgradeReads, DowngradeReads, RequestFails, vars, history
    <3>. QED
      BY <3>1, GraceStaysOver
  <2>7. ASSUME NEW w \in Workers, NEW l \in Loops, RunAborts(w, l) PROVE GraceInv'
    <3>1. \A v \in Workers, m \in Loops : run'[v][m] \in {run[v][m], Idle}
      BY <2>7 DEF RunAborts, TypeOK
    <3>2. UNCHANGED <<grace, overAtDawn>>
      BY <2>7 DEF RunAborts, history
    <3>. QED
      BY <3>1, <3>2, GraceStaysOver
  <2>. QED
    BY <2>1, <2>2, <2>3, <2>4, <2>5, <2>6, <2>7 DEF Next
<1>3. GraceInv => \A w \in Workers, l \in Loops : RunCommits(w, l) =>
          \A a \in Agents : tier'[a] # tier[a] => a \in overAtDawn /\ a \notin run[w][l].due
  BY DEF GraceInv, RunCommits
<1>4. GraceInv /\ [Next]_vars =>
        [\A w \in Workers, l \in Loops : RunCommits(w, l) =>
             \A a \in Agents : tier'[a] # tier[a] =>
                 a \in overAtDawn /\ a \notin run[w][l].due]_vars
  BY <1>3
<1>. QED
  BY <1>1, <1>2, <1>4, BillingTypeCorrect, PTL DEF Spec, GraceKeepsTier

=============================================================================
