------------------------------- MODULE Escrow -------------------------------
(***************************************************************************)
(* Hub-held escrow (sthrip/services/escrow_service.py).  A buyer's funds   *)
(* are deducted when a deal is created and leave the hub when the deal is  *)
(* released, cancelled or expired.  A deal has one delivery, or a list of  *)
(* milestones that are delivered and released one after the other.         *)
(*                                                                         *)
(* An API request is one database transaction that locks the deal's row    *)
(* first, so it is one action; accept_escrow is two, because its checks    *)
(* and its commit straddle a deadline.  The expiry loop is a process of    *)
(* its own per API instance: it lists what is past its deadline, then      *)
(* visits the list, deciding by the status it read while listing.          *)
(*                                                                         *)
(* Wall-clock time is a flag per deal and per milestone, due: expires_at   *)
(* lies in the past.  Amounts are whole numbers of which 1% is whole.      *)
(***************************************************************************)
EXTENDS Integers, Sequences, FiniteSets, FiniteSetsExt

CONSTANTS
    Agents,          \* registered agents
    Active,          \* those with is_active set
    Deals,           \* escrow deal ids
    Workers,         \* API instances running the expiry loop
    MaxMilestones,   \* schema limit on the length of a milestone list
    Offers,          \* bodies of POST /v2/escrow
    ReleaseAmounts,  \* amounts a buyer asks to release
    Funds,           \* available balance of each agent before the first deal
    InitialTrust     \* trust score of each agent before the first deal

Slots == 1..MaxMilestones

ASSUME ActiveAssumption ==
    /\ Active \subseteq Agents
    /\ IsFiniteSet(Agents)
    /\ IsFiniteSet(Deals)

\* milestones = <<>> stands for a body without a milestone list
ASSUME OffersAssumption ==
    /\ MaxMilestones \in Nat
    /\ Offers \subseteq [buyer : Agents, seller : Agents, amount : Nat,
                         milestones : Seq(Nat \ {0})]
    /\ \A o \in Offers : Len(o.milestones) <= MaxMilestones

ASSUME AmountsAssumption ==
    /\ ReleaseAmounts \subseteq Nat
    /\ Funds \in [Agents -> Nat]
    /\ InitialTrust \in [Agents -> 0..100]

VARIABLES
    deal,       \* row of escrow_deals per deal id, or NoDeal
    ms,         \* rows of escrow_milestones per deal id and sequence number
    balance,    \* agent_balances.available
    fees,       \* fee_collections recorded for each deal
    trust,      \* agent_reputation.trust_score
    accepting,  \* deals whose accept request is between its checks and commit
    sweep,      \* per worker: where its pass over expired rows is
    paid        \* history: what each deal has credited to its two parties

vars == <<deal, ms, balance, fees, trust, accepting, sweep, paid>>

-----------------------------------------------------------------------------
(* Rows *)

Open == {"CREATED", "ACCEPTED", "DELIVERED"}
Settled == {"COMPLETED", "CANCELLED", "EXPIRED", "PARTIALLY_COMPLETED"}

NoDeal == [status |-> "NONE"]

DealRow == [status : Open \cup Settled, due : BOOLEAN,
            buyer : Agents, seller : Agents, amount : Nat,
            milestone_count : 0..MaxMilestones, current_milestone : Nat,
            total_released : Nat, total_fees : Nat,
            release_amount : Nat, fee_amount : Nat]

MilestoneRow == [status : {"NONE", "PENDING", "ACTIVE", "DELIVERED",
                           "COMPLETED", "EXPIRED", "CANCELLED"},
                 due : BOOLEAN, amount : Nat,
                 release_amount : Nat, fee_amount : Nat]

NoMilestone == [status |-> "NONE", due |-> FALSE, amount |-> 0,
                release_amount |-> 0, fee_amount |-> 0]

\* Entries of the two lists an expiry pass works off
DealTicket == [deal : Deals, seen : Open]
MilestoneTicket == [deal : Deals, seq : Slots, seen : {"ACTIVE", "DELIVERED"}]
Pass == [phase : {"idle", "deals"}, todo : SUBSET DealTicket]
            \cup [phase : {"idle", "milestones"}, todo : SUBSET MilestoneTicket]

Exists(d) == deal[d].status # "NONE"
IsMulti(d) == deal[d].milestone_count > 0
Sequence(d) == 1..deal[d].milestone_count

Init ==
    /\ deal = [d \in Deals |-> NoDeal]
    /\ ms = [d \in Deals |-> [i \in Slots |-> NoMilestone]]
    /\ balance = Funds
    /\ fees = [d \in Deals |-> 0]
    /\ trust = InitialTrust
    /\ accepting = {}
    /\ sweep = [w \in Workers |-> [phase |-> "idle", todo |-> {}]]
    /\ paid = [d \in Deals |-> [buyer |-> 0, seller |-> 0]]

-----------------------------------------------------------------------------
(* Money and reputation *)

Fee(amount) == amount \div 100

\* Mutant: the fee is recorded but not taken off the seller's credit
SellerShareGross(released) == released

SellerShare(released) == released - Fee(released)

\* The two credits and the fee record of one transaction
Pay(d, toBuyer, toSeller, fee) ==
    /\ balance' = [a \in Agents |-> balance[a]
                                     + (IF a = deal[d].buyer THEN toBuyer ELSE 0)
                                     + (IF a = deal[d].seller THEN toSeller ELSE 0)]
    /\ fees' = [fees EXCEPT ![d] = @ + fee]
    /\ paid' = [paid EXCEPT ![d] = [buyer |-> @.buyer + toBuyer,
                                    seller |-> @.seller + toSeller]]

\* Mutant: the score is not kept within 0..100
ClampNothing(score) == score

Clamp(score) == IF score < 0 THEN 0 ELSE IF score > 100 THEN 100 ELSE score

AdjustTrust(score, a, delta) == [score EXCEPT ![a] = Clamp(@ + delta)]

CompletionTrust(d, released) ==
    LET seller == deal[d].seller
        amount == deal[d].amount
    IN  IF released = amount
        THEN AdjustTrust(AdjustTrust(trust, seller, 1), deal[d].buyer, 1)
        ELSE AdjustTrust(trust, seller,
                         IF released = 0 THEN -2
                         ELSE IF 2 * released > amount THEN 1 ELSE -1)

-----------------------------------------------------------------------------
(* Requests of the two parties *)

Row(o) ==
    LET multi == Len(o.milestones) > 0
    IN  [status |-> "CREATED", due |-> FALSE,
         buyer |-> o.buyer, seller |-> o.seller, amount |-> o.amount,
         milestone_count |-> Len(o.milestones),
         current_milestone |-> IF multi THEN 1 ELSE 0,
         total_released |-> 0, total_fees |-> 0,
         release_amount |-> 0, fee_amount |-> 0]

MilestoneRows(o) ==
    [i \in Slots |-> IF i <= Len(o.milestones)
                     THEN [NoMilestone EXCEPT !.status = "PENDING",
                                              !.amount = o.milestones[i]]
                     ELSE NoMilestone]

\* Mutant: milestone amounts are not compared with the deal's
ValidWithoutSum(o) ==
    /\ o.buyer # o.seller
    /\ o.amount > 0
    /\ {o.buyer, o.seller} \subseteq Active

Valid(o) ==
    /\ o.buyer # o.seller
    /\ o.amount > 0
    /\ Len(o.milestones) > 0 =>
           SumFunction(o.milestones) = o.amount
    /\ {o.buyer, o.seller} \subseteq Active

CreateEscrow(d, o) ==
    /\ deal[d] = NoDeal
    /\ Valid(o)
    /\ balance[o.buyer] >= o.amount
    /\ balance' = [balance EXCEPT ![o.buyer] = @ - o.amount]
    /\ deal' = [deal EXCEPT ![d] = Row(o)]
    /\ ms' = [ms EXCEPT ![d] = MilestoneRows(o)]
    /\ UNCHANGED <<fees, trust, accepting, sweep, paid>>

\* Mutant: the row is read without FOR UPDATE
LockableAlways(d) == Exists(d)

\* The deal's row can be locked: no accept request holds it
Lockable(d) == Exists(d) /\ d \notin accepting

\* accept_escrow up to its last check, the row lock held from here on
AcceptChecks(d) ==
    /\ Lockable(d)
    /\ deal[d].seller \in Active
    /\ deal[d].status = "CREATED"
    /\ ~deal[d].due
    /\ accepting' = accepting \cup {d}
    /\ UNCHANGED <<deal, ms, balance, fees, trust, sweep, paid>>

\* A new status with a new deadline
Restart(row, status) == [row EXCEPT !.status = status, !.due = FALSE]

Activate(m, i) ==
    IF i \in Slots /\ m[i].status = "PENDING"
    THEN [m EXCEPT ![i] = Restart(@, "ACTIVE")]
    ELSE m

AcceptCommits(d) ==
    /\ d \in accepting
    /\ accepting' = accepting \ {d}
    /\ deal' = [deal EXCEPT ![d] = Restart(@, "ACCEPTED")]
    /\ ms' = IF IsMulti(d) THEN [ms EXCEPT ![d] = Activate(@, 1)] ELSE ms
    /\ UNCHANGED <<balance, fees, trust, sweep, paid>>

\* The request fails or its process dies: the transaction is rolled back
AcceptRollsBack(d) ==
    /\ d \in accepting
    /\ accepting' = accepting \ {d}
    /\ UNCHANGED <<deal, ms, balance, fees, trust, sweep, paid>>

DeliverEscrow(d) ==
    /\ Lockable(d)
    /\ ~IsMulti(d)
    /\ deal[d].seller \in Active
    /\ deal[d].status = "ACCEPTED"
    /\ deal' = [deal EXCEPT ![d] = Restart(@, "DELIVERED")]
    /\ UNCHANGED <<ms, balance, fees, trust, accepting, sweep, paid>>

\* Mutant: the fee is left out of the row
CompletedWithoutFee(row, released, fee) ==
    [row EXCEPT !.status = "COMPLETED", !.release_amount = released]

Completed(row, released, fee) ==
    [row EXCEPT !.status = "COMPLETED",
                !.release_amount = released, !.fee_amount = fee]

ReleaseEscrow(d, released) ==
    /\ Lockable(d)
    /\ ~IsMulti(d)
    /\ deal[d].buyer \in Active
    /\ deal[d].status = "DELIVERED"
    /\ released <= deal[d].amount
    /\ Pay(d, deal[d].amount - released, SellerShare(released), Fee(released))
    /\ deal' = [deal EXCEPT ![d] = Completed(@, released, Fee(released))]
    /\ trust' = CompletionTrust(d, released)
    /\ UNCHANGED <<ms, accepting, sweep>>

CancelEscrow(d) ==
    /\ Lockable(d)
    /\ deal[d].buyer \in Active
    /\ deal[d].status = "CREATED"
    /\ Pay(d, deal[d].amount, 0, 0)
    /\ deal' = [deal EXCEPT ![d].status = "CANCELLED"]
    /\ UNCHANGED <<ms, trust, accepting, sweep>>

DeliverMilestone(d, i) ==
    /\ Lockable(d)
    /\ IsMulti(d)
    /\ deal[d].seller \in Active
    /\ deal[d].status = "ACCEPTED"
    /\ ms[d][i].status = "ACTIVE"
    /\ ms' = [ms EXCEPT ![d][i] = Restart(@, "DELIVERED")]
    /\ UNCHANGED <<deal, balance, fees, trust, accepting, sweep, paid>>

CancelPending(m) ==
    [i \in Slots |-> IF m[i].status = "PENDING"
                     THEN [m[i] EXCEPT !.status = "CANCELLED"] ELSE m[i]]

\* Mutant: one milestone too early
IsLastButOne(d, i) == i + 1 >= deal[d].milestone_count

\* Every other milestone is done, in the order the rows were written
IsLast(d, i) == \A j \in Sequence(d) : j = i \/ ms[d][j].status = "COMPLETED"

\* What release_milestone and the review timeout do to a DELIVERED milestone:
\* pay the parties, close it, and open the next one or complete the deal
SettleMilestone(d, i, released) ==
    LET fee   == Fee(released)
        total == [deal[d] EXCEPT !.total_released = @ + released,
                                 !.total_fees = @ + fee]
        done  == [ms[d] EXCEPT ![i] = [@ EXCEPT !.status = "COMPLETED",
                                                !.release_amount = released,
                                                !.fee_amount = fee]]
    IN  /\ Pay(d, ms[d][i].amount - released, SellerShare(released), fee)
        /\ \/ /\ IsLast(d, i)
              /\ deal' = [deal EXCEPT ![d] =
                             Completed(total, total.total_released, total.total_fees)]
              /\ ms' = [ms EXCEPT ![d] = CancelPending(done)]
              /\ trust' = CompletionTrust(d, total.total_released)
           \/ /\ ~IsLast(d, i)
              /\ deal' = [deal EXCEPT ![d] = [total EXCEPT !.current_milestone = i + 1]]
              /\ ms' = [ms EXCEPT ![d] = Activate(done, i + 1)]
              /\ UNCHANGED trust

ReleaseMilestone(d, i, released) ==
    /\ Lockable(d)
    /\ IsMulti(d)
    /\ deal[d].buyer \in Active
    /\ deal[d].status = "ACCEPTED"
    /\ ms[d][i].status = "DELIVERED"
    /\ released <= ms[d][i].amount
    /\ SettleMilestone(d, i, released)
    /\ UNCHANGED <<accepting, sweep>>

-----------------------------------------------------------------------------
(* Time *)

DealDeadline(d) ==
    /\ deal[d].status \in Open
    /\ ~deal[d].due
    /\ deal' = [deal EXCEPT ![d].due = TRUE]
    /\ UNCHANGED <<ms, balance, fees, trust, accepting, sweep, paid>>

MilestoneDeadline(d, i) ==
    /\ ms[d][i].status \in {"ACTIVE", "DELIVERED"}
    /\ ~ms[d][i].due
    /\ ms' = [ms EXCEPT ![d][i].due = TRUE]
    /\ UNCHANGED <<deal, balance, fees, trust, accepting, sweep, paid>>

-----------------------------------------------------------------------------
(* The expiry loop, resolve_expired.  The rows found past their deadline   *)
(* stay loaded, so SELECT ... FOR UPDATE returns them with the status they *)
(* had when they were listed; only the guarded UPDATE sees the present.    *)

\* Mutant: deliveries awaiting review are never listed
OverdueBeforeDelivery(d) == deal[d].status \in {"CREATED", "ACCEPTED"} /\ deal[d].due

\* EscrowRepository.get_pending_expiry
Overdue(d) == deal[d].status \in Open /\ deal[d].due

ListDeals(w) ==
    /\ sweep[w].phase = "idle"
    /\ sweep' = [sweep EXCEPT ![w] =
           [phase |-> "deals",
            todo |-> {[deal |-> d, seen |-> deal[d].status] :
                         d \in {e \in Deals : Overdue(e)}}]]
    /\ UNCHANGED <<deal, ms, balance, fees, trust, accepting, paid>>

\* Mutant: the UPDATE has no condition on the status
MatchesAny(seen) == Open \cup Settled

\* The statuses the guarded UPDATE still matches, for a deal listed as seen:
\* EscrowRepository.expire, or release for a deal seen as delivered
Matches(seen) == IF seen = "DELIVERED" THEN {"DELIVERED"} ELSE {"CREATED", "ACCEPTED"}

ExpireNotAccepted(d) ==
    /\ deal' = [deal EXCEPT ![d].status = "EXPIRED"]
    /\ Pay(d, deal[d].amount, 0, 0)
    /\ UNCHANGED trust

ExpireNotDelivered(d) ==
    /\ deal' = [deal EXCEPT ![d].status = "EXPIRED"]
    /\ Pay(d, deal[d].amount, 0, 0)
    /\ trust' = AdjustTrust(trust, deal[d].seller, -3)

AutoReleaseFull(d) ==
    LET amount == deal[d].amount
    IN  /\ deal' = [deal EXCEPT ![d] = Completed(@, amount, Fee(amount))]
        /\ Pay(d, 0, SellerShare(amount), Fee(amount))
        /\ trust' = CompletionTrust(d, amount)

\* The guarded UPDATE matches no row
ResolvedElsewhere == UNCHANGED <<deal, balance, fees, trust, paid>>

ResolveDeal(w, t) ==
    LET d == t.deal
    IN  /\ sweep[w].phase = "deals"
        /\ t \in sweep[w].todo
        /\ Lockable(d)
        /\ sweep' = [sweep EXCEPT ![w].todo = @ \ {t}]
        /\ \/ /\ deal[d].status \in Matches(t.seen)
              /\ \/ t.seen = "CREATED" /\ ExpireNotAccepted(d)
                 \/ t.seen = "ACCEPTED" /\ ExpireNotDelivered(d)
                 \/ t.seen = "DELIVERED" /\ AutoReleaseFull(d)
           \/ deal[d].status \notin Matches(t.seen) /\ ResolvedElsewhere
        /\ UNCHANGED <<ms, accepting>>

ListMilestones(w) ==
    /\ sweep[w].phase = "deals"
    /\ sweep[w].todo = {}
    /\ sweep' = [sweep EXCEPT ![w] =
           [phase |-> "milestones",
            todo |-> {[deal |-> di[1], seq |-> di[2], seen |-> ms[di[1]][di[2]].status] :
                         di \in {ej \in Deals \X Slots :
                                    /\ ms[ej[1]][ej[2]].status \in {"ACTIVE", "DELIVERED"}
                                    /\ ms[ej[1]][ej[2]].due}}]]
    /\ UNCHANGED <<deal, ms, balance, fees, trust, accepting, paid>>

\* What is left of the deal by the expiry's arithmetic, if anything is
Remaining(d) ==
    LET left == deal[d].amount - deal[d].total_released - deal[d].total_fees
    IN  IF left > 0 THEN left ELSE 0

ExpireActiveMilestone(d, i) ==
    /\ ms' = [ms EXCEPT ![d] = CancelPending([@ EXCEPT ![i].status = "EXPIRED"])]
    /\ Pay(d, Remaining(d), 0, 0)
    /\ deal' = [deal EXCEPT ![d].status =
                   IF i = 1 THEN "EXPIRED" ELSE "PARTIALLY_COMPLETED"]
    /\ trust' = AdjustTrust(trust, deal[d].seller, -3)

\* Mutant: the milestone's UPDATE has no condition on its status
StillOpenByDeal(t) == deal[t.deal].status = "ACCEPTED"

\* The deal is read under its lock, the milestone as it was listed; the guarded
\* UPDATE of the milestone matches only if that is still its status
StillOpen(t) ==
    /\ deal[t.deal].status = "ACCEPTED"
    /\ ms[t.deal][t.seq].status = t.seen

ResolveMilestone(w, t) ==
    LET d == t.deal
        i == t.seq
    IN  /\ sweep[w].phase = "milestones"
        /\ t \in sweep[w].todo
        /\ Lockable(d)
        /\ sweep' = [sweep EXCEPT ![w].todo = @ \ {t}]
        /\ \/ /\ StillOpen(t)
              /\ \/ t.seen = "ACTIVE" /\ ExpireActiveMilestone(d, i)
                 \/ t.seen = "DELIVERED" /\ SettleMilestone(d, i, ms[d][i].amount)
           \/ ~StillOpen(t) /\ ResolvedElsewhere /\ UNCHANGED ms
        /\ UNCHANGED accepting

EndPass(w) ==
    /\ sweep[w].phase = "milestones"
    /\ sweep[w].todo = {}
    /\ sweep' = [sweep EXCEPT ![w].phase = "idle"]
    /\ UNCHANGED <<deal, ms, balance, fees, trust, accepting, paid>>

Sweep(w) ==
    \/ ListDeals(w)
    \/ \E t \in sweep[w].todo : ResolveDeal(w, t) \/ ResolveMilestone(w, t)
    \/ ListMilestones(w)
    \/ EndPass(w)

-----------------------------------------------------------------------------

Next ==
    \/ \E d \in Deals :
          \/ \E o \in Offers : CreateEscrow(d, o)
          \/ AcceptChecks(d)
          \/ AcceptCommits(d)
          \/ AcceptRollsBack(d)
          \/ DeliverEscrow(d)
          \/ \E r \in ReleaseAmounts : ReleaseEscrow(d, r)
          \/ CancelEscrow(d)
          \/ \E i \in Slots : DeliverMilestone(d, i)
          \/ \E i \in Slots, r \in ReleaseAmounts : ReleaseMilestone(d, i, r)
          \/ DealDeadline(d)
          \/ \E i \in Slots : MilestoneDeadline(d, i)
    \/ \E w \in Workers : Sweep(w)

Spec == Init /\ [][Next]_vars

\* Time passes, a transaction ends, and the loops of api/main_v2.py keep running
Fairness ==
    /\ \A d \in Deals : WF_vars(DealDeadline(d))
    /\ \A d \in Deals, i \in Slots : WF_vars(MilestoneDeadline(d, i))
    /\ \A d \in Deals : WF_vars(AcceptCommits(d) \/ AcceptRollsBack(d))
    /\ \A w \in Workers : WF_vars(Sweep(w))

FairSpec == Spec /\ Fairness

-----------------------------------------------------------------------------
(* Properties *)

TypeOK ==
    /\ deal \in [Deals -> DealRow \cup {NoDeal}]
    /\ ms \in [Deals -> [Slots -> MilestoneRow]]
    /\ balance \in [Agents -> Nat]
    /\ fees \in [Deals -> Nat]
    /\ trust \in [Agents -> 0..100]
    /\ accepting \subseteq {d \in Deals : deal[d].status = "CREATED"}
    /\ sweep \in [Workers -> Pass]
    /\ paid \in [Deals -> [buyer : Nat, seller : Nat]]

\* What the hub still holds of a deal: the deposit less everything paid out
Held(d) == deal[d].amount - paid[d].buyer - paid[d].seller - fees[d]

\* The work of a deal that is not paid for yet
Outstanding(d) ==
    IF deal[d].status \in Settled THEN 0
    ELSE IF IsMulti(d)
         THEN SumFunction([i \in Sequence(d) |-> IF ms[d][i].status = "COMPLETED"
                                                 THEN 0 ELSE ms[d][i].amount])
         ELSE deal[d].amount

\* A list of milestones that was cut short by a deadline
CutShort(d) == IsMulti(d) /\ deal[d].status \in {"EXPIRED", "PARTIALLY_COMPLETED"}

\* At every moment the hub holds exactly the unpaid part of every deal: no
\* interleaving of releases, cancellations and expiry passes pays a milestone
\* twice or leaves money behind.  (Milestone lists cut short by a deadline do
\* not satisfy this: PartialCompletionPaysOut.)
HoldsWhatIsOutstanding ==
    \A d \in Deals : Exists(d) /\ ~CutShort(d) => Held(d) = Outstanding(d)

\* Across all agents and deals no money appears or vanishes: balances, fees
\* and unpaid work add up to the initial funds.
Custody ==
    (\A d \in Deals : Exists(d) => ~CutShort(d)) =>
        SumFunction(balance) + SumFunction(fees)
            + SumFunction([d \in {e \in Deals : Exists(e)} |-> Outstanding(d)])
        = SumFunction(Funds)

\* Milestones are worked on strictly in order: while a deal is accepted there
\* is one open milestone, the one current_milestone names, everything before
\* it is completed and everything after it untouched.
MilestonesInOrder ==
    \A d \in Deals :
        Exists(d) /\ IsMulti(d) =>
            /\ deal[d].status = "ACCEPTED" =>
                   /\ deal[d].current_milestone \in Sequence(d)
                   /\ \A i \in Sequence(d) :
                          ms[d][i].status \in
                              IF i < deal[d].current_milestone THEN {"COMPLETED"}
                              ELSE IF i = deal[d].current_milestone
                                   THEN {"ACTIVE", "DELIVERED"}
                                   ELSE {"PENDING"}
            /\ deal[d].status = "COMPLETED" =>
                   \A i \in Sequence(d) : ms[d][i].status = "COMPLETED"

\* The totals stored on the deal are those of its completed milestones, and the
\* recorded fees are those the deal shows: the statement agrees with the ledger.
TotalsMatchMilestones ==
    \A d \in Deals :
        /\ Exists(d) /\ IsMulti(d) =>
               /\ deal[d].total_released =
                      SumFunction([i \in Sequence(d) |-> ms[d][i].release_amount])
               /\ deal[d].total_fees = fees[d]
               /\ paid[d].seller = deal[d].total_released - deal[d].total_fees
        /\ deal[d].status = "COMPLETED" =>
               /\ deal[d].fee_amount = fees[d]
               /\ paid[d].seller = deal[d].release_amount - deal[d].fee_amount

IsSettled(d) == deal[d].status \in Settled

\* A settled deal is final: a late release, a second expiry pass working from
\* an old list, or a lapsed lease never changes it or pays it again.
SettlesOnce ==
    [][\A d \in Deals : IsSettled(d) =>
           /\ deal'[d] = deal[d]
           /\ paid'[d] = paid[d]
           /\ fees'[d] = fees[d]]_vars

\* The seller is paid only for delivered work: a step that credits the seller
\* starts with the deal, or one of its milestones, marked as delivered.
PaidForDelivery ==
    [][\A d \in Deals : paid'[d].seller # paid[d].seller =>
           \/ deal[d].status = "DELIVERED"
           \/ /\ deal[d].status = "ACCEPTED"
              /\ \E i \in Slots : /\ ms[d][i].status = "DELIVERED"
                                  /\ ms'[d][i].status = "COMPLETED"]_vars

\* No funds stay locked for ever: every deal is settled, whatever the two
\* parties do or omit, because deadlines pass and the loop keeps running.
EveryDealSettles ==
    \A d \in Deals : deal[d].status \in Open ~> IsSettled(d)

\* Claimed of a milestone that misses its deadline after others were released:
\* "remaining funds refunded to buyer", so nothing of the deal stays with, or
\* is missing from, the hub.
PartialCompletionPaysOut ==
    \A d \in Deals : deal[d].status = "PARTIALLY_COMPLETED" => Held(d) = 0

-----------------------------------------------------------------------------
(* Escrow implements EscrowContract *)

Stage(d) == IF deal[d].status \in Open THEN "open"
            ELSE IF CutShort(d) THEN "cut" ELSE "closed"

Contract == INSTANCE EscrowContract WITH
    contract <- [d \in Deals |->
                    IF Exists(d)
                    THEN [stage |-> Stage(d), buyer |-> deal[d].buyer,
                          seller |-> deal[d].seller, left |-> Outstanding(d)]
                    ELSE [stage |-> "none"]]

\* Every behaviour of the escrow service is one the contract allows: the parties
\* and the fee account receive the deposit and nothing else, stage by stage.
ImplementsContract == Contract!Spec

=============================================================================
