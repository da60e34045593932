------------------------- MODULE SubscriptionBilling -------------------------
(***************************************************************************)
(* Subscription tiers and their billing                                    *)
(* (sthrip/services/subscription_billing_service.py, the upgrade and       *)
(* downgrade endpoints of api/routers/agents.py, and the two cron loops of *)
(* api/main_v2.py).                                                        *)
(*                                                                         *)
(* A request reads the agent's tier without a lock and commits later.  A   *)
(* billing run reads the paid agents, charges them under the locks of      *)
(* their balances, lists the agents whose grace period is over, and writes *)
(* what it decided.  Requests and runs overlap, and with the lease failing *)
(* open so do runs of several API instances.  Time is the day of the       *)
(* month; what a row says about days is kept relative to today, so that    *)
(* time never stops.  Prices are in cents and one exchange rate holds; a   *)
(* rate that is not available aborts a run.                                *)
(***************************************************************************)
EXTENDS Integers, FiniteSets

CONSTANTS
    Agents,        \* agents with is_active set
    Workers,       \* API instances running the cron loops
    Requests,      \* request handlers that may be busy at the same time
    Tiers,         \* subscription tiers, "free" among them
    Price,         \* monthly price of each tier
    Rank,          \* order of the tiers
    DaysInMonth,
    GraceDays,     \* GRACE_PERIOD_DAYS
    TopUps,        \* amounts an agent deposits
    MaxBalance,    \* bound on an agent's balance
    InitialTier, InitialBalance

ASSUME TiersAssumption ==
    /\ "free" \in Tiers
    /\ Price \in [Tiers -> Nat]
    /\ Price["free"] = 0
    /\ Rank \in [Tiers -> Nat]
    /\ \A t \in Tiers \ {"free"} : Price[t] > 0 /\ Rank[t] > Rank["free"]

ASSUME CalendarAssumption ==
    /\ DaysInMonth \in Nat \ {0}
    /\ GraceDays \in Nat
    /\ MaxBalance \in Nat
    /\ TopUps \subseteq Nat
    /\ InitialTier \in [Agents -> Tiers]
    /\ InitialBalance \in [Agents -> 0..MaxBalance]

VARIABLES
    day,        \* day of the month
    tier,       \* agents.tier
    grace,      \* agents.tier_grace_until: days left, Elapsed or NoGrace
    balance,    \* agent_balances.available
    monthly,    \* agents with a monthly_charge row for this month
    request,    \* per handler: the upgrade or downgrade it works on, or Idle
    run,        \* per worker and loop: the run in progress, or Idle
    cronTotal,  \* history: what the runs of this month took from each agent
    unpaidDays, \* history: days since the first failed attempt, 0 if none
    overAtDawn  \* history: agents whose grace period was over when the day began

vars == <<day, tier, grace, balance, monthly, request, run,
          cronTotal, unpaidDays, overAtDawn>>

history == <<cronTotal, unpaidDays, overAtDawn>>

NoGrace == -2
Elapsed == -1
Idle == [kind |-> "idle"]
Paid == Tiers \ {"free"}
Loops == {"monthly", "daily"}

\* What a request has read, what a run has read, and what it has then done
TierChange == [kind : {"upgrade", "downgrade"}, agent : Agents,
               from : Tiers, to : Tiers, graced : BOOLEAN]
BillingRun == [kind : {"reading"}, due : SUBSET Agents,
               seen : [Agents -> Tiers], graced : SUBSET Agents]
BilledRun == [kind : {"billed"}, due : SUBSET Agents,
              seen : [Agents -> Tiers], graced : SUBSET Agents,
              billed : SUBSET Agents, expired : SUBSET Agents]

\* Proration to whole cents, half up: day and everything after it is charged
ProrateCharge(price, d) ==
    (2 * price * (DaysInMonth - d + 1) + DaysInMonth) \div (2 * DaysInMonth)

Init ==
    /\ day = 1
    /\ tier = InitialTier
    /\ grace = [a \in Agents |-> NoGrace]
    /\ balance = InitialBalance
    /\ monthly = {}
    /\ request = [q \in Requests |-> Idle]
    /\ run = [w \in Workers |-> [l \in Loops |-> Idle]]
    /\ cronTotal = [a \in Agents |-> 0]
    /\ unpaidDays = [a \in Agents |-> 0]
    /\ overAtDawn = {}

-----------------------------------------------------------------------------
(* Time and deposits *)

\* The first day of a month opens a new account
NextDay ==
    /\ day' = IF day = DaysInMonth THEN 1 ELSE day + 1
    /\ grace' = [a \in Agents |-> IF grace[a] >= 0 THEN grace[a] - 1 ELSE grace[a]]
    /\ overAtDawn' = {a \in Agents : grace'[a] = Elapsed}
    /\ unpaidDays' = [a \in Agents |->
                         IF unpaidDays[a] \in 1..GraceDays + 1
                         THEN unpaidDays[a] + 1 ELSE unpaidDays[a]]
    /\ IF day = DaysInMonth
       THEN /\ monthly' = {}
            /\ cronTotal' = [a \in Agents |-> 0]
       ELSE UNCHANGED <<monthly, cronTotal>>
    /\ \A w \in Workers, l \in Loops : run[w][l] = Idle
    /\ \A q \in Requests : request[q] = Idle
    /\ UNCHANGED <<tier, balance, request, run>>

\* A run that has charged or warned an agent keeps what it locked until it ends:
\* the balance of each agent that was due, the agent's row where it wrote it
BalanceLocked(a) ==
    \E w \in Workers, l \in Loops : run[w][l].kind = "billed" /\ a \in run[w][l].due

RowLocked(a) ==
    \E w \in Workers, l \in Loops :
        /\ run[w][l].kind = "billed"
        /\ a \in (run[w][l].due \ run[w][l].billed) \cup (run[w][l].billed \cap run[w][l].graced)

TopUp(a, amount) ==
    /\ ~BalanceLocked(a)
    /\ balance[a] + amount <= MaxBalance
    /\ balance' = [balance EXCEPT ![a] = @ + amount]
    /\ UNCHANGED <<day, tier, grace, monthly, request, run, history>>

-----------------------------------------------------------------------------
(* POST /v2/me/upgrade and /v2/me/downgrade *)

\* The handler loads the agent's row: what it decides on from here on is old
Loaded(kind, a, t) ==
    [kind |-> kind, agent |-> a, from |-> tier[a], to |-> t, graced |-> grace[a] # NoGrace]

UpgradeReads(q, a, t) ==
    /\ request[q] = Idle
    /\ Rank[t] > Rank[tier[a]]
    /\ request' = [request EXCEPT ![q] = Loaded("upgrade", a, t)]
    /\ UNCHANGED <<day, tier, grace, balance, monthly, run, history>>

DowngradeReads(q, a, t) ==
    /\ request[q] = Idle
    /\ Rank[t] < Rank[tier[a]]
    /\ request' = [request EXCEPT ![q] = Loaded("downgrade", a, t)]
    /\ UNCHANGED <<day, tier, grace, balance, monthly, run, history>>

\* Mutant: the balance is not looked at
AffordsAnything(a, amount) == a \in Agents

\* BalanceRepository.deduct, under the balance's row lock
Affords(a, amount) == balance[a] >= amount

\* The row is written back with the columns that differ from what was loaded
WriteBack(q, r) ==
    /\ tier' = [tier EXCEPT ![r.agent] = r.to]
    /\ grace' = IF r.graced THEN [grace EXCEPT ![r.agent] = NoGrace] ELSE grace
    /\ ~RowLocked(r.agent)
    /\ unpaidDays' = [unpaidDays EXCEPT ![r.agent] = 0]
    /\ request' = [request EXCEPT ![q] = Idle]
    /\ UNCHANGED overAtDawn

UpgradeCommits(q) ==
    LET r      == request[q]
        charge == ProrateCharge(Price[r.to], day)
    IN  /\ r.kind = "upgrade"
        /\ ~BalanceLocked(r.agent)
        /\ Affords(r.agent, charge)
        /\ balance' = [balance EXCEPT ![r.agent] = @ - charge]
        /\ WriteBack(q, r)
        /\ UNCHANGED <<day, monthly, run, cronTotal>>

\* The unused days of the old tier are refunded, or nothing without a rate
DowngradeCommits(q) ==
    LET r == request[q]
    IN  /\ r.kind = "downgrade"
        /\ \E refund \in {0, ProrateCharge(Price[r.from], day)} :
              /\ refund > 0 => ~BalanceLocked(r.agent)
              /\ balance[r.agent] + refund <= MaxBalance
              /\ balance' = [balance EXCEPT ![r.agent] = @ + refund]
        /\ WriteBack(q, r)
        /\ UNCHANGED <<day, monthly, run, cronTotal>>

\* 402, 503, or the process dies
RequestFails(q) ==
    /\ request[q] # Idle
    /\ request' = [request EXCEPT ![q] = Idle]
    /\ UNCHANGED <<day, tier, grace, balance, monthly, run, history>>

-----------------------------------------------------------------------------
(* The billing runs *)

\* Mutant: agents in grace are not retried
DueOutsideGrace == {a \in Agents : tier[a] \in Paid /\ a \notin monthly /\ grace[a] = NoGrace}

Due == {a \in Agents : tier[a] \in Paid /\ a \notin monthly}

\* bill_pro_subscriptions loads the paid agents; those already charged are
\* skipped.  The monthly loop fires on the first, the daily one every day.
RunReads(w, l) ==
    /\ run[w][l] = Idle
    /\ l = "monthly" => day = 1
    /\ run' = [run EXCEPT ![w][l] =
           [kind |-> "reading",
            due |-> Due, seen |-> tier,
            graced |-> {a \in Agents : grace[a] # NoGrace}]]
    /\ UNCHANGED <<day, tier, grace, balance, monthly, request, history>>

\* Mutant: no unique index on the month's monthly_charge row
NoConflict(charged) == charged \subseteq Agents

\* The partial unique index lets the inserted rows in
NoDuplicate(charged) == charged \cap monthly = {}

Billed(r) == {a \in r.due : Affords(a, Price[r.seen[a]])}

\* Mutant: a charge that succeeds leaves the grace period as it is
GraceStays(r, billed, a) == IF a \in r.due \ billed THEN GraceDays ELSE grace[a]

\* Grace after billing: cleared by a charge if one was loaded, restarted by a failure
GraceAfterBilling(r, billed, a) ==
    IF a \in billed \cap r.graced THEN NoGrace
    ELSE IF a \in r.due \ billed THEN GraceDays
    ELSE grace[a]

\* The SELECT of handle_grace_expiry, after the billing of the daily loop
Expired(l, r, billed) ==
    {a \in Agents : /\ l = "daily"
                    /\ tier[a] \in Paid
                    /\ GraceAfterBilling(r, billed, a) = Elapsed}

\* The agents that are due are charged or warned, one balance lock after the other;
\* the agents to be downgraded are listed
RunBills(w, l) ==
    LET r == run[w][l]
    IN  /\ r.kind = "reading"
        /\ \A a \in r.due : ~BalanceLocked(a)
        /\ run' = [run EXCEPT ![w][l] =
               [kind |-> "billed", due |-> r.due, seen |-> r.seen, graced |-> r.graced,
                billed |-> Billed(r), expired |-> Expired(l, r, Billed(r))]]
        /\ UNCHANGED <<day, tier, grace, balance, monthly, request, history>>

\* The listed agents are written "free" by their id, whatever their rows say by now
RunCommits(w, l) ==
    LET r == run[w][l]
    IN  /\ r.kind = "billed"
        /\ NoDuplicate(r.billed)
        /\ balance' = [a \in Agents |->
               IF a \in r.billed THEN balance[a] - Price[r.seen[a]] ELSE balance[a]]
        /\ monthly' = monthly \cup r.billed
        /\ grace' = [a \in Agents |->
               IF a \in r.expired THEN NoGrace ELSE GraceAfterBilling(r, r.billed, a)]
        /\ tier' = [a \in Agents |-> IF a \in r.expired THEN "free" ELSE tier[a]]
        /\ run' = [run EXCEPT ![w][l] = Idle]
        /\ cronTotal' = [a \in Agents |->
               IF a \in r.billed THEN cronTotal[a] + Price[r.seen[a]] ELSE cronTotal[a]]
        /\ unpaidDays' = [a \in Agents |->
               IF a \in r.billed \cup r.expired THEN 0
               ELSE IF a \in r.due /\ unpaidDays[a] = 0 THEN 1 ELSE unpaidDays[a]]
        /\ UNCHANGED <<day, request, overAtDawn>>

\* No rate, a duplicate row, or the process dies: the transaction rolls back
RunAborts(w, l) ==
    /\ run[w][l] # Idle
    /\ run' = [run EXCEPT ![w][l] = Idle]
    /\ UNCHANGED <<day, tier, grace, balance, monthly, request, history>>

-----------------------------------------------------------------------------

Next ==
    \/ NextDay
    \/ \E a \in Agents : \E amount \in TopUps : TopUp(a, amount)
    \/ \E q \in Requests, a \in Agents, t \in Tiers :
          UpgradeReads(q, a, t) \/ DowngradeReads(q, a, t)
    \/ \E q \in Requests : UpgradeCommits(q) \/ DowngradeCommits(q) \/ RequestFails(q)
    \/ \E w \in Workers, l \in Loops :
          RunReads(w, l) \/ RunBills(w, l) \/ RunCommits(w, l) \/ RunAborts(w, l)

Spec == Init /\ [][Next]_vars

\* The daily loop keeps running, at times (on any day but the first) without another
\* run in its way; not every run of it aborts; and a run of either loop ends
Fairness ==
    \A w \in Workers :
        /\ SF_vars(RunReads(w, "daily") /\ \A a \in Agents : ~BalanceLocked(a))
        /\ SF_vars(RunBills(w, "daily"))
        /\ SF_vars(RunCommits(w, "daily"))
        /\ \A l \in Loops : WF_vars(RunCommits(w, l) \/ RunAborts(w, l))

FairSpec == Spec /\ Fairness

-----------------------------------------------------------------------------
(* Properties *)

TypeOK ==
    /\ day \in 1..DaysInMonth
    /\ tier \in [Agents -> Tiers]
    /\ grace \in [Agents -> NoGrace..GraceDays]
    /\ balance \in [Agents -> Nat]
    /\ monthly \subseteq Agents
    /\ request \in [Requests -> {Idle} \cup TierChange]
    /\ run \in [Workers -> [Loops -> {Idle} \cup BillingRun \cup BilledRun]]
    /\ cronTotal \in [Agents -> Nat]
    /\ unpaidDays \in [Agents -> 0..GraceDays + 2]
    /\ overAtDawn \subseteq Agents

\* However many billing runs overlap, are retried or are aborted, together they
\* take at most one monthly price from an agent in a month.
OneMonthlyCharge ==
    \A a \in Agents : cronTotal[a] \in {Price[t] : t \in Tiers}

\* Billing trouble of today downgrades nobody: a run, however old its list, takes a
\* tier only where a grace period was over before the day began, and never from an
\* agent it has just tried to charge, which "gets a successful retry first"
\* (subscription_billing_service.py:356).
GraceKeepsTier ==
    [][\A w \in Workers, l \in Loops : RunCommits(w, l) =>
           \A a \in Agents : tier'[a] # tier[a] =>
               a \in overAtDawn /\ a \notin run[w][l].due]_vars

\* An agent in arrears that has the money is eventually charged for its month
\* (or spends the money, or leaves the paid tiers): the daily retry works.
ArrearsAreCollected ==
    \A a \in Agents :
        tier[a] \in Paid /\ a \notin monthly /\ Affords(a, Price[tier[a]])
            ~> a \in monthly \/ tier[a] = "free" \/ ~Affords(a, Price[tier[a]])

\* Claimed of the daily pass: it downgrades every agent whose grace window has
\* fully elapsed since the first failed charge.
GraceEnds ==
    [][\A w \in Workers : RunCommits(w, "daily") =>
           \A a \in Agents : tier'[a] \in Paid => unpaidDays'[a] <= GraceDays + 1]_vars

=============================================================================
