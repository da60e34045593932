---------------------------- MODULE EscrowProofs ----------------------------
(***************************************************************************)
(* Proofs about Escrow for any number of agents, deals, milestones and     *)
(* expiry loops, any request bodies and any amounts.                       *)
(***************************************************************************)
EXTENDS EscrowOrders, SumsProofs, TLAPS

(***************************************************************************)
(* Facts about the helpers                                                 *)
(***************************************************************************)

\* A fee is part of the amount it is taken from, so the seller's share is too.
LEMMA FeeType ==
    ASSUME NEW x \in Nat
    PROVE  Fee(x) \in Nat /\ Fee(x) <= x /\ SellerShare(x) \in Nat
                /\ SellerShare(x) + Fee(x) = x
BY DEF Fee, SellerShare

\* A score is brought back into its range, whatever was added to it.
LEMMA ClampType == ASSUME NEW x \in Int PROVE Clamp(x) \in 0..100
BY DEF Clamp

\* Scores stay in range under any adjustment of one agent.
LEMMA AdjustTrustType ==
    ASSUME NEW score \in [Agents -> 0..100], NEW a \in Agents, NEW delta \in Int
    PROVE  AdjustTrust(score, a, delta) \in [Agents -> 0..100]
BY ClampType DEF AdjustTrust

\* The penalty for a missed deadline keeps the scores in range.
LEMMA PenaltyType ==
    ASSUME TypeOK, NEW a \in Agents
    PROVE  AdjustTrust(trust, a, -3) \in [Agents -> 0..100]
<1>1. trust \in [Agents -> 0..100]
  BY DEF TypeOK
<1>. QED
  BY <1>1, AdjustTrustType, -3 \in Int

\* So do the rewards and penalties of a completed deal.
LEMMA CompletionTrustType ==
    ASSUME TypeOK, NEW d \in Deals, Exists(d), NEW r \in Nat
    PROVE  CompletionTrust(d, r) \in [Agents -> 0..100]
<1>1. deal[d] \in DealRow
  BY DEF TypeOK, Exists, NoDeal
<1>2. deal[d].seller \in Agents /\ deal[d].buyer \in Agents /\ deal[d].amount \in Nat
  BY <1>1 DEF DealRow
<1>3. trust \in [Agents -> 0..100]
  BY DEF TypeOK
<1>4. \A delta \in Int : AdjustTrust(trust, deal[d].seller, delta) \in [Agents -> 0..100]
  BY <1>2, <1>3, AdjustTrustType
<1>5. AdjustTrust(AdjustTrust(trust, deal[d].seller, 1), deal[d].buyer, 1)
         \in [Agents -> 0..100]
  <2>. DEFINE rewarded == AdjustTrust(trust, deal[d].seller, 1)
  <2>1. rewarded \in [Agents -> 0..100]
    BY <1>4
  <2>. HIDE DEF rewarded
  <2>2. \A score \in [Agents -> 0..100], a \in Agents, delta \in Int :
           AdjustTrust(score, a, delta) \in [Agents -> 0..100]
    BY AdjustTrustType
  <2>3. AdjustTrust(rewarded, deal[d].buyer, 1) \in [Agents -> 0..100]
    <3>1. 1 \in Int /\ deal[d].buyer \in Agents
      BY <1>2
    <3>. QED
      BY <2>1, <2>2, <3>1
  <2>. QED
    BY <2>3 DEF rewarded
<1>6. CASE r = deal[d].amount
  BY <1>5, <1>6 DEF CompletionTrust
<1>7. CASE r # deal[d].amount
  <2>. DEFINE delta == IF r = 0 THEN -2 ELSE IF 2 * r > deal[d].amount THEN 1 ELSE -1
  <2>1. delta \in Int
    OBVIOUS
  <2>2. CompletionTrust(d, r) = AdjustTrust(trust, deal[d].seller, delta)
    BY <1>7 DEF CompletionTrust
  <2>. QED
    BY <1>4, <2>1, <2>2
<1>. QED
  BY <1>6, <1>7

\* The rows the operations write are rows.
LEMMA RowTypes ==
    ASSUME NEW row \in DealRow
    PROVE  /\ \A s \in Open \cup Settled : [row EXCEPT !.status = s] \in DealRow
           /\ \A s \in Open \cup Settled : Restart(row, s) \in DealRow
           /\ \A r, f \in Nat : Completed(row, r, f) \in DealRow
           /\ [row EXCEPT !.due = TRUE] \in DealRow
BY DEF DealRow, Restart, Completed, Open, Settled

\* A milestone's row stays a row when it expires, is delivered or falls due.
LEMMA MilestoneRowTypes ==
    ASSUME NEW row \in MilestoneRow
    PROVE  /\ [row EXCEPT !.status = "EXPIRED"] \in MilestoneRow
           /\ [row EXCEPT !.due = TRUE] \in MilestoneRow
           /\ Restart(row, "DELIVERED") \in MilestoneRow
BY DEF MilestoneRow, Restart

\* Cancelling the pending milestones, or activating one, leaves rows.
LEMMA MilestoneTypes ==
    ASSUME NEW m \in [Slots -> MilestoneRow]
    PROVE  /\ CancelPending(m) \in [Slots -> MilestoneRow]
           /\ \A i \in Int : Activate(m, i) \in [Slots -> MilestoneRow]
<1>1. \A i \in Slots : [m[i] EXCEPT !.status = "CANCELLED"] \in MilestoneRow
  BY DEF MilestoneRow
<1>2. \A i \in Slots : Restart(m[i], "ACTIVE") \in MilestoneRow
  BY DEF MilestoneRow, Restart
<1>. QED
  BY <1>1, <1>2 DEF CancelPending, Activate

\* Bodies of a request that creates a deal, offered to the escrow API or not
Bodies == {o \in [buyer : Agents, seller : Agents, amount : Nat, milestones : Seq(Nat \ {0})] :
              Len(o.milestones) <= MaxMilestones}

\* Those of POST /v2/escrow are among them.
LEMMA OffersAreBodies == Offers \subseteq Bodies
BY OffersAssumption DEF Bodies

\* What create_escrow writes for a body are rows.
LEMMA CreationTypes ==
    ASSUME NEW o \in Bodies
    PROVE  Row(o) \in DealRow /\ MilestoneRows(o) \in [Slots -> MilestoneRow]
<1>1. /\ o \in [buyer : Agents, seller : Agents, amount : Nat,
                milestones : Seq(Nat \ {0})]
      /\ Len(o.milestones) \in 0..MaxMilestones
  BY OffersAssumption DEF Bodies
<1>2. Row(o) \in DealRow
  BY <1>1 DEF Row, DealRow, Open
<1>3. ASSUME NEW i \in Slots, i <= Len(o.milestones)
      PROVE  o.milestones[i] \in Nat
  BY <1>1, <1>3 DEF Slots
<1>4. NoMilestone \in MilestoneRow
  BY DEF NoMilestone, MilestoneRow
<1>5. ASSUME NEW a \in Nat
      PROVE  [NoMilestone EXCEPT !.status = "PENDING", !.amount = a] \in MilestoneRow
  BY DEF NoMilestone, MilestoneRow
<1>. QED
  BY <1>2, <1>3, <1>4, <1>5 DEF MilestoneRows

\* Paying out non-negative amounts keeps the ledger well-typed.
LEMMA PayType ==
    ASSUME TypeOK, NEW d \in Deals, Exists(d),
           NEW b \in Nat, NEW s \in Nat, NEW f \in Nat, Pay(d, b, s, f)
    PROVE  /\ balance' \in [Agents -> Nat]
           /\ fees' \in [Deals -> Nat]
           /\ paid' \in [Deals -> [buyer : Nat, seller : Nat]]
<1>1. deal[d] \in DealRow
  BY DEF TypeOK, Exists, NoDeal
<1>2. deal[d].seller \in Agents /\ deal[d].buyer \in Agents
  BY <1>1 DEF DealRow
<1>3. balance' \in [Agents -> Nat]
  BY <1>2 DEF Pay, TypeOK
<1>4. fees' \in [Deals -> Nat]
  BY DEF Pay, TypeOK
<1>5. paid' \in [Deals -> [buyer : Nat, seller : Nat]]
  BY DEF Pay, TypeOK
<1>. QED
  BY <1>3, <1>4, <1>5

(***************************************************************************)
(* Type correctness                                                        *)
(***************************************************************************)

\* Settling a milestone, by its buyer or by its review deadline, keeps the types.
LEMMA SettleMilestoneType ==
    ASSUME TypeOK, NEW d \in Deals, Exists(d), NEW i \in Slots, NEW r \in Nat,
           r <= ms[d][i].amount, SettleMilestone(d, i, r)
    PROVE  /\ deal' \in [Deals -> DealRow \cup {NoDeal}]
           /\ ms' \in [Deals -> [Slots -> MilestoneRow]]
           /\ balance' \in [Agents -> Nat]
           /\ fees' \in [Deals -> Nat]
           /\ trust' \in [Agents -> 0..100]
           /\ paid' \in [Deals -> [buyer : Nat, seller : Nat]]
           /\ \A e \in Deals : e # d => deal'[e] = deal[e]
<1>. DEFINE fee   == Fee(r)
            total == [deal[d] EXCEPT !.total_released = @ + r, !.total_fees = @ + fee]
            done  == [ms[d] EXCEPT ![i] = [@ EXCEPT !.status = "COMPLETED",
                                                    !.release_amount = r,
                                                    !.fee_amount = fee]]
<1>1. deal[d] \in DealRow /\ ms[d] \in [Slots -> MilestoneRow]
  BY DEF TypeOK, Exists, NoDeal
<1>2. fee \in Nat /\ SellerShare(r) \in Nat
  BY FeeType
<1>3. ms[d][i].amount - r \in Nat
  BY <1>1 DEF MilestoneRow
<1>4. Pay(d, ms[d][i].amount - r, SellerShare(r), fee)
  BY DEF SettleMilestone
<1>5. /\ balance' \in [Agents -> Nat]
      /\ fees' \in [Deals -> Nat]
      /\ paid' \in [Deals -> [buyer : Nat, seller : Nat]]
  BY <1>2, <1>3, <1>4, PayType
<1>6. total \in DealRow /\ total.total_released \in Nat /\ total.total_fees \in Nat
  <2>1. deal[d].total_released + r \in Nat /\ deal[d].total_fees + fee \in Nat
    BY <1>1, <1>2 DEF DealRow
  <2>2. total \in DealRow
    BY <1>1, <2>1 DEF DealRow
  <2>. QED
    BY <2>2 DEF DealRow
<1>7. done \in [Slots -> MilestoneRow]
  <2>1. [ms[d][i] EXCEPT !.status = "COMPLETED", !.release_amount = r,
                         !.fee_amount = fee] \in MilestoneRow
    BY <1>1, <1>2 DEF MilestoneRow
  <2>. QED
    BY <1>1, <2>1
<1>. HIDE DEF fee, total, done
<1>8. CASE IsLast(d, i)
  <2>1. /\ deal' = [deal EXCEPT ![d] =
                       Completed(total, total.total_released, total.total_fees)]
        /\ ms' = [ms EXCEPT ![d] = CancelPending(done)]
        /\ trust' = CompletionTrust(d, total.total_released)
    BY <1>8 DEF SettleMilestone, fee, total, done
  <2>2. Completed(total, total.total_released, total.total_fees) \in DealRow
    BY <1>6, RowTypes
  <2>3. CancelPending(done) \in [Slots -> MilestoneRow]
    BY <1>7, MilestoneTypes
  <2>4. CompletionTrust(d, total.total_released) \in [Agents -> 0..100]
    BY <1>6, CompletionTrustType
  <2>. QED
    BY <1>5, <2>1, <2>2, <2>3, <2>4 DEF TypeOK
<1>9. CASE ~IsLast(d, i)
  <2>1. /\ deal' = [deal EXCEPT ![d] = [total EXCEPT !.current_milestone = i + 1]]
        /\ ms' = [ms EXCEPT ![d] = Activate(done, i + 1)]
        /\ trust' = trust
    BY <1>9 DEF SettleMilestone, fee, total, done
  <2>2. [total EXCEPT !.current_milestone = i + 1] \in DealRow
    BY <1>6, OffersAssumption DEF DealRow, Slots
  <2>3. Activate(done, i + 1) \in [Slots -> MilestoneRow]
    BY <1>7, MilestoneTypes, OffersAssumption DEF Slots
  <2>. QED
    BY <1>5, <2>1, <2>2, <2>3 DEF TypeOK
<1>. QED
  BY <1>8, <1>9

\* A step of the expiry loop keeps the types.
LEMMA SweepType ==
    ASSUME TypeOK, NEW w \in Workers, Sweep(w)
    PROVE  TypeOK'
<1>1. CASE ListDeals(w)
  <2>. DEFINE todo == {[deal |-> d, seen |-> deal[d].status] :
                          d \in {e \in Deals : Overdue(e)}}
  <2>1. todo \subseteq DealTicket
    BY DEF DealTicket, Overdue
  <2>2. sweep' = [sweep EXCEPT ![w] = [phase |-> "deals", todo |-> todo]]
    BY <1>1 DEF ListDeals
  <2>. HIDE DEF todo
  <2>3. sweep' \in [Workers -> Pass]
    BY <2>1, <2>2 DEF Pass, TypeOK
  <2>. QED
    BY <1>1, <2>3 DEF ListDeals, TypeOK
<1>2. CASE ListMilestones(w)
  <2>. DEFINE todo == {[deal |-> di[1], seq |-> di[2], seen |-> ms[di[1]][di[2]].status] :
                          di \in {ej \in Deals \X Slots :
                                     /\ ms[ej[1]][ej[2]].status \in {"ACTIVE", "DELIVERED"}
                                     /\ ms[ej[1]][ej[2]].due}}
  <2>1. todo \subseteq MilestoneTicket
    BY DEF MilestoneTicket
  <2>2. sweep' = [sweep EXCEPT ![w] = [phase |-> "milestones", todo |-> todo]]
    BY <1>2 DEF ListMilestones
  <2>. HIDE DEF todo
  <2>3. sweep' \in [Workers -> Pass]
    BY <2>1, <2>2 DEF Pass, TypeOK
  <2>. QED
    BY <1>2, <2>3 DEF ListMilestones, TypeOK
<1>3. CASE EndPass(w)
  BY <1>3 DEF EndPass, TypeOK, Pass
<1>4. ASSUME NEW t \in sweep[w].todo, ResolveDeal(w, t) PROVE TypeOK'
  <2>. DEFINE d == t.deal
  <2>1. d \in Deals /\ Exists(d) /\ d \notin accepting /\ deal[d] \in DealRow
    BY <1>4 DEF TypeOK, Pass, DealTicket, ResolveDeal, Lockable, Exists, NoDeal
  <2>2. /\ sweep' \in [Workers -> Pass]
        /\ ms' = ms /\ accepting' = accepting
    BY <1>4 DEF ResolveDeal, TypeOK, Pass
  <2>3. /\ deal[d].amount \in Nat /\ Fee(deal[d].amount) \in Nat
        /\ SellerShare(deal[d].amount) \in Nat /\ deal[d].seller \in Agents
    BY <2>1, FeeType DEF DealRow
  <2>4. CASE ExpireNotAccepted(d) \/ ExpireNotDelivered(d)
    <3>1. [deal[d] EXCEPT !.status = "EXPIRED"] \in DealRow
      BY <2>1, RowTypes DEF Settled
    <3>2. deal' = [deal EXCEPT ![d] = [deal[d] EXCEPT !.status = "EXPIRED"]]
      BY <2>4 DEF ExpireNotAccepted, ExpireNotDelivered
    <3>3. Pay(d, deal[d].amount, 0, 0)
      BY <2>4 DEF ExpireNotAccepted, ExpireNotDelivered
    <3>4. trust' \in [Agents -> 0..100]
      BY <2>3, <2>4, PenaltyType DEF ExpireNotAccepted, ExpireNotDelivered, TypeOK
    <3>5. /\ balance' \in [Agents -> Nat]
          /\ fees' \in [Deals -> Nat]
          /\ paid' \in [Deals -> [buyer : Nat, seller : Nat]]
      BY <2>1, <2>3, <3>3, PayType
    <3>. QED
      BY <2>1, <2>2, <3>1, <3>2, <3>4, <3>5 DEF TypeOK
  <2>5. CASE AutoReleaseFull(d)
    <3>1. Completed(deal[d], deal[d].amount, Fee(deal[d].amount)) \in DealRow
      BY <2>1, <2>3, RowTypes
    <3>2. CompletionTrust(d, deal[d].amount) \in [Agents -> 0..100]
      BY <2>1, <2>3, CompletionTrustType
    <3>3. /\ balance' \in [Agents -> Nat]
          /\ fees' \in [Deals -> Nat]
          /\ paid' \in [Deals -> [buyer : Nat, seller : Nat]]
      BY <2>1, <2>3, <2>5, PayType DEF AutoReleaseFull
    <3>. QED
      BY <2>1, <2>2, <2>5, <3>1, <3>2, <3>3 DEF AutoReleaseFull, TypeOK
  <2>6. CASE ResolvedElsewhere
    BY <2>2, <2>6 DEF ResolvedElsewhere, TypeOK
  <2>. QED
    BY <1>4, <2>4, <2>5, <2>6 DEF ResolveDeal
<1>5. ASSUME NEW t \in sweep[w].todo, ResolveMilestone(w, t) PROVE TypeOK'
  <2>. DEFINE d == t.deal
              i == t.seq
  <2>1. d \in Deals /\ Exists(d) /\ d \notin accepting /\ deal[d] \in DealRow
    BY <1>5 DEF TypeOK, Pass, MilestoneTicket, ResolveMilestone, Lockable, Exists, NoDeal
  <2>2. /\ sweep' \in [Workers -> Pass]
        /\ accepting' = accepting /\ i \in Slots
    BY <1>5 DEF ResolveMilestone, TypeOK, Pass, MilestoneTicket
  <2>3. ASSUME ExpireActiveMilestone(d, i) PROVE TypeOK'
    <3>1. CancelPending([ms[d] EXCEPT ![i].status = "EXPIRED"]) \in [Slots -> MilestoneRow]
      <4>1. ms[d][i] \in MilestoneRow
        BY <2>1, <2>2 DEF TypeOK
      <4>2. [ms[d][i] EXCEPT !.status = "EXPIRED"] \in MilestoneRow
        BY <4>1, MilestoneRowTypes
      <4>3. [ms[d] EXCEPT ![i].status = "EXPIRED"] \in [Slots -> MilestoneRow]
        BY <2>1, <4>2 DEF TypeOK
      <4>. QED
        BY <4>3, MilestoneTypes
    <3>2. Remaining(d) \in Nat /\ deal[d].seller \in Agents
      BY <2>1 DEF Remaining, DealRow
    <3>3. /\ balance' \in [Agents -> Nat]
          /\ fees' \in [Deals -> Nat]
          /\ paid' \in [Deals -> [buyer : Nat, seller : Nat]]
      BY <2>1, <2>3, <3>2, PayType DEF ExpireActiveMilestone
    <3>4. [deal[d] EXCEPT !.status = IF i = 1 THEN "EXPIRED" ELSE "PARTIALLY_COMPLETED"] \in DealRow
      BY <2>1, RowTypes DEF Settled
    <3>5. trust' \in [Agents -> 0..100]
      BY <2>3, <3>2, PenaltyType DEF ExpireActiveMilestone
    <3>. QED
      BY <2>1, <2>2, <2>3, <3>1, <3>3, <3>4, <3>5 DEF ExpireActiveMilestone, TypeOK
  <2>4. ASSUME SettleMilestone(d, i, ms[d][i].amount) PROVE TypeOK'
    <3>1. ms[d][i].amount \in Nat
      BY <2>1, <2>2 DEF TypeOK, MilestoneRow
    <3>2. /\ deal' \in [Deals -> DealRow \cup {NoDeal}]
          /\ ms' \in [Deals -> [Slots -> MilestoneRow]]
          /\ balance' \in [Agents -> Nat]
          /\ fees' \in [Deals -> Nat]
          /\ trust' \in [Agents -> 0..100]
          /\ paid' \in [Deals -> [buyer : Nat, seller : Nat]]
          /\ \A e \in Deals : e # d => deal'[e] = deal[e]
      BY <2>1, <2>2, <2>4, <3>1, SettleMilestoneType
    <3>3. accepting' \subseteq {e \in Deals : deal'[e].status = "CREATED"}
      BY <2>1, <2>2, <3>2 DEF TypeOK
    <3>. QED
      BY <2>2, <3>2, <3>3 DEF TypeOK
  <2>5. CASE ResolvedElsewhere /\ UNCHANGED ms
    BY <2>2, <2>5 DEF ResolvedElsewhere, TypeOK
  <2>. QED
    BY <1>5, <2>3, <2>4, <2>5 DEF ResolveMilestone
<1>. QED
  BY <1>1, <1>2, <1>3, <1>4, <1>5 DEF Sweep

\* A new deal keeps every variable's type.
LEMMA CreateType ==
    ASSUME TypeOK, NEW d \in Deals, NEW o \in Bodies, CreateEscrow(d, o)
    PROVE  TypeOK'
<1>1. Row(o) \in DealRow /\ MilestoneRows(o) \in [Slots -> MilestoneRow]
  BY CreationTypes
<1>2. o.buyer \in Agents /\ o.amount \in Nat
  BY DEF Bodies
<1>3. balance' \in [Agents -> Nat]
  BY <1>2 DEF CreateEscrow, TypeOK
<1>4. accepting' \subseteq {e \in Deals : deal'[e].status = "CREATED"}
  BY DEF CreateEscrow, TypeOK, Row
<1>. QED
  BY <1>1, <1>3, <1>4 DEF CreateEscrow, TypeOK

\* Every step keeps every variable's type.
LEMMA TypeStep == TypeOK /\ [Next]_vars => TypeOK'
<1>. SUFFICES ASSUME TypeOK, [Next]_vars PROVE TypeOK'
  OBVIOUS
<1>1. ASSUME NEW d \in Deals, NEW o \in Offers, CreateEscrow(d, o) PROVE TypeOK'
  BY <1>1, CreateType, OffersAreBodies
<1>2. ASSUME NEW d \in Deals, AcceptChecks(d) PROVE TypeOK'
  BY <1>2 DEF AcceptChecks, TypeOK
<1>3. ASSUME NEW d \in Deals, AcceptCommits(d) PROVE TypeOK'
  <2>1. deal[d] \in DealRow /\ ms[d] \in [Slots -> MilestoneRow]
    BY <1>3 DEF AcceptCommits, TypeOK, NoDeal
  <2>2. Restart(deal[d], "ACCEPTED") \in DealRow
    BY <2>1, RowTypes DEF Open
  <2>3. Activate(ms[d], 1) \in [Slots -> MilestoneRow]
    BY <2>1, MilestoneTypes
  <2>4. accepting' \subseteq {e \in Deals : deal'[e].status = "CREATED"}
    BY <1>3 DEF AcceptCommits, TypeOK
  <2>. QED
    BY <1>3, <2>2, <2>3, <2>4 DEF AcceptCommits, TypeOK
<1>4. ASSUME NEW d \in Deals, AcceptRollsBack(d) PROVE TypeOK'
  BY <1>4 DEF AcceptRollsBack, TypeOK
<1>5. ASSUME NEW d \in Deals, DeliverEscrow(d) PROVE TypeOK'
  <2>1. deal[d] \in DealRow /\ d \notin accepting
    BY <1>5 DEF DeliverEscrow, Lockable, Exists, TypeOK, NoDeal
  <2>2. Restart(deal[d], "DELIVERED") \in DealRow
    BY <2>1, RowTypes DEF Open
  <2>3. accepting' \subseteq {e \in Deals : deal'[e].status = "CREATED"}
    BY <1>5, <2>1 DEF DeliverEscrow, TypeOK
  <2>. QED
    BY <1>5, <2>2, <2>3 DEF DeliverEscrow, TypeOK
<1>6. ASSUME NEW d \in Deals, NEW r \in ReleaseAmounts, ReleaseEscrow(d, r) PROVE TypeOK'
  <2>1. deal[d] \in DealRow /\ d \notin accepting /\ Exists(d)
    BY <1>6 DEF ReleaseEscrow, Lockable, Exists, TypeOK, NoDeal
  <2>2. r \in Nat /\ Fee(r) \in Nat /\ SellerShare(r) \in Nat
    BY FeeType, AmountsAssumption
  <2>3. deal[d].amount - r \in Nat
    BY <1>6, <2>1, <2>2 DEF ReleaseEscrow, DealRow
  <2>4. Completed(deal[d], r, Fee(r)) \in DealRow
    BY <2>1, <2>2, RowTypes
  <2>5. CompletionTrust(d, r) \in [Agents -> 0..100]
    BY <2>1, <2>2, CompletionTrustType
  <2>6. Pay(d, deal[d].amount - r, SellerShare(r), Fee(r))
    BY <1>6 DEF ReleaseEscrow
  <2>7. /\ balance' \in [Agents -> Nat]
        /\ fees' \in [Deals -> Nat]
        /\ paid' \in [Deals -> [buyer : Nat, seller : Nat]]
    BY <2>1, <2>2, <2>3, <2>6, PayType
  <2>8. accepting' \subseteq {e \in Deals : deal'[e].status = "CREATED"}
    BY <1>6, <2>1 DEF ReleaseEscrow, TypeOK
  <2>. QED
    BY <1>6, <2>4, <2>5, <2>7, <2>8 DEF ReleaseEscrow, TypeOK
<1>7. ASSUME NEW d \in Deals, CancelEscrow(d) PROVE TypeOK'
  <2>1. deal[d] \in DealRow /\ d \notin accepting /\ Exists(d)
    BY <1>7 DEF CancelEscrow, Lockable, Exists, TypeOK, NoDeal
  <2>2. deal[d].amount \in Nat
    BY <2>1 DEF DealRow
  <2>3. [deal[d] EXCEPT !.status = "CANCELLED"] \in DealRow
    BY <2>1, RowTypes DEF Settled
  <2>4. /\ balance' \in [Agents -> Nat]
        /\ fees' \in [Deals -> Nat]
        /\ paid' \in [Deals -> [buyer : Nat, seller : Nat]]
    BY <1>7, <2>1, <2>2, PayType DEF CancelEscrow
  <2>5. accepting' \subseteq {e \in Deals : deal'[e].status = "CREATED"}
    BY <1>7, <2>1 DEF CancelEscrow, TypeOK
  <2>. QED
    BY <1>7, <2>3, <2>4, <2>5 DEF CancelEscrow, TypeOK
<1>8. ASSUME NEW d \in Deals, NEW i \in Slots, DeliverMilestone(d, i) PROVE TypeOK'
  <2>1. ms[d][i] \in MilestoneRow
    BY DEF TypeOK
  <2>2. Restart(ms[d][i], "DELIVERED") \in MilestoneRow
    BY <2>1, MilestoneRowTypes
  <2>. QED
    BY <1>8, <2>2 DEF DeliverMilestone, TypeOK
<1>9. ASSUME NEW d \in Deals, NEW i \in Slots, NEW r \in ReleaseAmounts,
             ReleaseMilestone(d, i, r)
      PROVE TypeOK'
  <2>1. Exists(d) /\ d \notin accepting /\ r \in Nat /\ r <= ms[d][i].amount
    BY <1>9, AmountsAssumption DEF ReleaseMilestone, Lockable
  <2>2. SettleMilestone(d, i, r) /\ UNCHANGED <<accepting, sweep>>
    BY <1>9 DEF ReleaseMilestone
  <2>3. /\ deal' \in [Deals -> DealRow \cup {NoDeal}]
        /\ ms' \in [Deals -> [Slots -> MilestoneRow]]
        /\ balance' \in [Agents -> Nat]
        /\ fees' \in [Deals -> Nat]
        /\ trust' \in [Agents -> 0..100]
        /\ paid' \in [Deals -> [buyer : Nat, seller : Nat]]
        /\ \A e \in Deals : e # d => deal'[e] = deal[e]
    BY <2>1, <2>2, SettleMilestoneType
  <2>4. accepting' \subseteq {e \in Deals : deal'[e].status = "CREATED"}
    BY <2>1, <2>2, <2>3 DEF TypeOK
  <2>. QED
    BY <2>2, <2>3, <2>4 DEF TypeOK
<1>10. ASSUME NEW d \in Deals, DealDeadline(d) PROVE TypeOK'
  <2>1. deal[d] \in DealRow
    BY <1>10 DEF DealDeadline, Open, TypeOK, NoDeal
  <2>2. [deal[d] EXCEPT !.due = TRUE] \in DealRow
    BY <2>1, RowTypes
  <2>3. \A e \in Deals : deal'[e].status = deal[e].status
    BY <1>10, <2>1 DEF DealDeadline, TypeOK, DealRow
  <2>. QED
    BY <1>10, <2>2, <2>3 DEF DealDeadline, TypeOK
<1>11. ASSUME NEW d \in Deals, NEW i \in Slots, MilestoneDeadline(d, i) PROVE TypeOK'
  <2>1. ms[d][i] \in MilestoneRow
    BY DEF TypeOK
  <2>2. [ms[d][i] EXCEPT !.due = TRUE] \in MilestoneRow
    BY <2>1, MilestoneRowTypes
  <2>. QED
    BY <1>11, <2>2 DEF MilestoneDeadline, TypeOK
<1>12. ASSUME NEW w \in Workers, Sweep(w) PROVE TypeOK'
  BY <1>12, SweepType
<1>13. CASE UNCHANGED vars
  BY <1>13 DEF vars, TypeOK
<1>. QED
  BY <1>1, <1>2, <1>3, <1>4, <1>5, <1>6, <1>7, <1>8, <1>9, <1>10, <1>11, <1>12, <1>13
     DEF Next

\* The initial values have their types.
LEMMA InitType == Init => TypeOK
<1>. SUFFICES ASSUME Init PROVE TypeOK
  OBVIOUS
<1>1. deal \in [Deals -> DealRow \cup {NoDeal}]
  BY DEF Init
<1>2. ms \in [Deals -> [Slots -> MilestoneRow]]
  <2>1. NoMilestone \in MilestoneRow
    BY DEF NoMilestone, MilestoneRow
  <2>. QED
    BY <2>1 DEF Init
<1>3. /\ balance \in [Agents -> Nat]
      /\ trust \in [Agents -> 0..100]
      /\ fees \in [Deals -> Nat]
      /\ paid \in [Deals -> [buyer : Nat, seller : Nat]]
  BY AmountsAssumption DEF Init
<1>4. sweep \in [Workers -> Pass]
  BY DEF Init, Pass
<1>5. accepting \subseteq {d \in Deals : deal[d].status = "CREATED"}
  BY DEF Init
<1>. QED
  BY <1>1, <1>2, <1>3, <1>4, <1>5 DEF TypeOK

\* Every variable keeps its type: in particular no balance, fee or payment is
\* ever negative, no trust score leaves 0..100, and an accept request between
\* its checks and its commit finds the deal still in CREATED.
THEOREM TypeCorrect == Spec => []TypeOK
BY InitType, TypeStep, PTL DEF Spec

(***************************************************************************)
(* Finality                                                                *)
(***************************************************************************)

\* Settling a milestone of a deal touches no other deal.
LEMMA SettleElsewhere ==
    ASSUME TypeOK, NEW e \in Deals, NEW d \in Deals, e # d, NEW i \in Slots, NEW r,
           SettleMilestone(e, i, r)
    PROVE  deal'[d] = deal[d] /\ ms'[d] = ms[d] /\ paid'[d] = paid[d] /\ fees'[d] = fees[d]
BY DEF SettleMilestone, Pay, TypeOK

\* A settled deal is final: neither a late request nor an expiry pass working
\* from a list that has gone stale changes it or pays for it again.
LEMMA SettledStays ==
    ASSUME TypeOK, [Next]_vars, NEW d \in Deals, IsSettled(d)
    PROVE  deal'[d] = deal[d] /\ paid'[d] = paid[d] /\ fees'[d] = fees[d]
<1>. DEFINE Same(e) == deal'[e] = deal[e] /\ paid'[e] = paid[e] /\ fees'[e] = fees[e]
<1>1. /\ deal[d] # NoDeal /\ d \notin accepting
      /\ deal[d].status \notin Open
  BY DEF IsSettled, Settled, NoDeal, Open, TypeOK
<1>2. ASSUME NEW e \in Deals, NEW o \in Offers, CreateEscrow(e, o) PROVE Same(d)
  BY <1>1, <1>2 DEF CreateEscrow, TypeOK
<1>3. ASSUME NEW e \in Deals, AcceptChecks(e) \/ AcceptCommits(e) \/ AcceptRollsBack(e)
      PROVE Same(d)
  BY <1>1, <1>3 DEF AcceptChecks, AcceptCommits, AcceptRollsBack, TypeOK
<1>4. ASSUME NEW e \in Deals, DeliverEscrow(e) \/ DealDeadline(e) PROVE Same(d)
  BY <1>1, <1>4 DEF DeliverEscrow, DealDeadline, TypeOK, Open
<1>5. ASSUME NEW e \in Deals, NEW r \in ReleaseAmounts, ReleaseEscrow(e, r) PROVE Same(d)
  BY <1>1, <1>5 DEF ReleaseEscrow, Pay, TypeOK, Open
<1>6. ASSUME NEW e \in Deals, CancelEscrow(e) PROVE Same(d)
  BY <1>1, <1>6 DEF CancelEscrow, Pay, TypeOK, Open
<1>7. ASSUME NEW e \in Deals, NEW i \in Slots, DeliverMilestone(e, i) \/ MilestoneDeadline(e, i)
      PROVE Same(d)
  BY <1>7 DEF DeliverMilestone, MilestoneDeadline
<1>8. ASSUME NEW e \in Deals, NEW i \in Slots, NEW r \in ReleaseAmounts,
             ReleaseMilestone(e, i, r)
      PROVE Same(d)
  <2>1. e # d
    BY <1>1, <1>8 DEF ReleaseMilestone, Open
  <2>. QED
    BY <1>8, <2>1, SettleElsewhere DEF ReleaseMilestone
<1>9. ASSUME NEW w \in Workers, ListDeals(w) \/ ListMilestones(w) \/ EndPass(w) PROVE Same(d)
  BY <1>9 DEF ListDeals, ListMilestones, EndPass
<1>10. ASSUME NEW w \in Workers, NEW t \in sweep[w].todo, ResolveDeal(w, t) PROVE Same(d)
  <2>1. t.deal \in Deals
    BY <1>10 DEF ResolveDeal, TypeOK, Pass, DealTicket
  <2>2. CASE ResolvedElsewhere
    BY <2>2 DEF ResolvedElsewhere
  <2>3. CASE /\ deal[t.deal].status \in Matches(t.seen)
             /\ \/ ExpireNotAccepted(t.deal) \/ ExpireNotDelivered(t.deal)
                \/ AutoReleaseFull(t.deal)
    <3>1. t.deal # d
      BY <1>1, <2>3 DEF Matches, Open
    <3>. QED
      BY <2>1, <2>3, <3>1
         DEF ExpireNotAccepted, ExpireNotDelivered, AutoReleaseFull, Pay, TypeOK
  <2>. QED
    BY <1>10, <2>2, <2>3 DEF ResolveDeal
<1>11. ASSUME NEW w \in Workers, NEW t \in sweep[w].todo, ResolveMilestone(w, t) PROVE Same(d)
  <2>1. t.deal \in Deals /\ t.seq \in Slots
    BY <1>11 DEF ResolveMilestone, TypeOK, Pass, MilestoneTicket
  <2>2. CASE ResolvedElsewhere
    BY <2>2 DEF ResolvedElsewhere
  <2>3. CASE StillOpen(t) /\ ExpireActiveMilestone(t.deal, t.seq)
    <3>1. t.deal # d
      BY <1>1, <2>3 DEF StillOpen, Open
    <3>. QED
      BY <2>1, <2>3, <3>1 DEF ExpireActiveMilestone, Pay, TypeOK
  <2>4. CASE StillOpen(t) /\ SettleMilestone(t.deal, t.seq, ms[t.deal][t.seq].amount)
    <3>1. t.deal # d
      BY <1>1, <2>4 DEF StillOpen, Open
    <3>. QED
      BY <2>1, <2>4, <3>1, SettleElsewhere
  <2>. QED
    BY <1>11, <2>2, <2>3, <2>4 DEF ResolveMilestone
<1>12. CASE UNCHANGED vars
  BY <1>12 DEF vars
<1>. QED
  BY <1>2, <1>3, <1>4, <1>5, <1>6, <1>7, <1>8, <1>9, <1>10, <1>11, <1>12 DEF Next, Sweep

\* No later request, visit of an old list or lapsed lease changes a settled deal.
THEOREM Finality == Spec => SettlesOnce
<1>1. TypeOK /\ [Next]_vars =>
        [\A d \in Deals : IsSettled(d) =>
            /\ deal'[d] = deal[d]
            /\ paid'[d] = paid[d]
            /\ fees'[d] = fees[d]]_vars
  BY SettledStays
<1>. QED
  BY <1>1, TypeCorrect, PTL DEF Spec, SettlesOnce

(***************************************************************************)
(* The inductive invariant behind MilestonesInOrder: it adds what holds    *)
(* before the deal is accepted, that the rows beyond the list do not       *)
(* exist, and that a deal with milestones is never itself delivered, which *)
(* is what keeps the loop's automatic release away from it.                *)
(***************************************************************************)

\* Milestones before the current one are done, those after it untouched
Progress(d) ==
    /\ deal[d].current_milestone \in Sequence(d)
    /\ \A i \in Sequence(d) :
          ms[d][i].status \in IF i < deal[d].current_milestone THEN {"COMPLETED"}
                              ELSE IF i = deal[d].current_milestone
                                   THEN {"ACTIVE", "DELIVERED"}
                                   ELSE {"PENDING"}

InOrder(d) ==
    Exists(d) =>
        /\ \A i \in Slots \ Sequence(d) : ms[d][i].status = "NONE"
        /\ IsMulti(d) =>
               /\ deal[d].status # "DELIVERED"
               /\ deal[d].status = "CREATED" =>
                      /\ deal[d].current_milestone = 1
                      /\ \A i \in Sequence(d) : ms[d][i].status = "PENDING"
               /\ deal[d].status = "ACCEPTED" => Progress(d)
               /\ deal[d].status = "COMPLETED" =>
                      \A i \in Sequence(d) : ms[d][i].status = "COMPLETED"

OrderInv == \A d \in Deals : InOrder(d)

\* Changing a deal's status, deadline or result leaves its other columns alone.
LEMMA SameTerms ==
    ASSUME NEW row \in DealRow
    PROVE  /\ \A s : /\ [row EXCEPT !.status = s].amount = row.amount
                     /\ [row EXCEPT !.status = s].milestone_count = row.milestone_count
                     /\ [row EXCEPT !.status = s].current_milestone = row.current_milestone
                     /\ [row EXCEPT !.status = s].status = s
           /\ \A s : /\ Restart(row, s).amount = row.amount
                     /\ Restart(row, s).milestone_count = row.milestone_count
                     /\ Restart(row, s).current_milestone = row.current_milestone
                     /\ Restart(row, s).status = s
           /\ \A r, f : /\ Completed(row, r, f).amount = row.amount
                        /\ Completed(row, r, f).milestone_count = row.milestone_count
                        /\ Completed(row, r, f).status = "COMPLETED"
           /\ [row EXCEPT !.due = TRUE].amount = row.amount
           /\ [row EXCEPT !.due = TRUE].milestone_count = row.milestone_count
           /\ [row EXCEPT !.due = TRUE].current_milestone = row.current_milestone
           /\ [row EXCEPT !.due = TRUE].status = row.status
BY DEF DealRow, Restart, Completed

\* The list of a deal is no longer than the table of its milestones.
LEMMA ListFits ==
    ASSUME TypeOK, NEW d \in Deals, Exists(d)
    PROVE  deal[d].milestone_count \in 0..MaxMilestones /\ Sequence(d) \subseteq Slots
<1>1. deal[d] \in DealRow
  BY DEF TypeOK, Exists, NoDeal
<1>2. deal[d].milestone_count \in 0..MaxMilestones
  BY <1>1 DEF DealRow
<1>. QED
  BY <1>2, OffersAssumption DEF Sequence, Slots

\* What settling a milestone does to the list: that one is completed, and
\* either the deal is completed or the next one is opened.
LEMMA SettleEffect ==
    ASSUME TypeOK, NEW d \in Deals, Exists(d), NEW i \in Slots, NEW r \in Nat,
           SettleMilestone(d, i, r)
    PROVE  /\ deal'[d].milestone_count = deal[d].milestone_count
           /\ deal'[d].amount = deal[d].amount
           /\ IF IsLast(d, i) THEN deal'[d].status = "COMPLETED"
              ELSE /\ deal'[d].status = deal[d].status
                   /\ deal'[d].current_milestone = i + 1
           /\ \A j \in Slots : ms'[d][j].status =
                  IF j = i THEN "COMPLETED"
                  ELSE IF ms[d][j].status # "PENDING" THEN ms[d][j].status
                  ELSE IF IsLast(d, i) THEN "CANCELLED"
                  ELSE IF j = i + 1 THEN "ACTIVE" ELSE "PENDING"
<1>1. deal[d] \in DealRow /\ ms[d] \in [Slots -> MilestoneRow] /\ Fee(r) \in Nat
  <2>1. deal[d] \in DealRow
    BY DEF TypeOK, Exists, NoDeal
  <2>2. ms[d] \in [Slots -> MilestoneRow]
    BY DEF TypeOK
  <2>3. Fee(r) \in Nat
    BY FeeType
  <2>. QED
    BY <2>1, <2>2, <2>3
<1>. DEFINE total == [deal[d] EXCEPT !.total_released = @ + r, !.total_fees = @ + Fee(r)]
            done  == [ms[d] EXCEPT ![i] = [@ EXCEPT !.status = "COMPLETED",
                                                    !.release_amount = r,
                                                    !.fee_amount = Fee(r)]]
<1>2. /\ total.milestone_count = deal[d].milestone_count
      /\ total.amount = deal[d].amount /\ total.status = deal[d].status
      /\ total \in DealRow
  <2>1. deal[d].total_released + r \in Nat /\ deal[d].total_fees + Fee(r) \in Nat
    BY <1>1 DEF DealRow
  <2>. QED
    BY <1>1, <2>1 DEF DealRow
<1>3. /\ done \in [Slots -> MilestoneRow]
      /\ \A j \in Slots : done[j].status = IF j = i THEN "COMPLETED" ELSE ms[d][j].status
  <2>1. ms[d][i] \in MilestoneRow
    BY <1>1
  <2>2. [ms[d][i] EXCEPT !.status = "COMPLETED", !.release_amount = r,
                         !.fee_amount = Fee(r)] \in MilestoneRow
    BY <1>1, <2>1 DEF MilestoneRow
  <2>3. [ms[d][i] EXCEPT !.status = "COMPLETED", !.release_amount = r,
                         !.fee_amount = Fee(r)].status = "COMPLETED"
    BY <2>1 DEF MilestoneRow
  <2>. QED
    BY <1>1, <2>2, <2>3
<1>. HIDE DEF done, total
<1>4. CASE IsLast(d, i)
  <2>1. /\ deal'[d] = Completed(total, total.total_released, total.total_fees)
        /\ ms'[d] = CancelPending(done)
    BY <1>4 DEF SettleMilestone, total, done, TypeOK
  <2>2. \A j \in Slots : ms'[d][j].status =
            IF done[j].status = "PENDING" THEN "CANCELLED" ELSE done[j].status
    BY <1>3, <2>1 DEF CancelPending, MilestoneRow
  <2>3. /\ deal'[d].milestone_count = deal[d].milestone_count
        /\ deal'[d].amount = deal[d].amount /\ deal'[d].status = "COMPLETED"
    BY <1>2, <2>1, SameTerms
  <2>. QED
    BY <1>3, <1>4, <2>2, <2>3
<1>5. CASE ~IsLast(d, i)
  <2>1. /\ deal'[d] = [total EXCEPT !.current_milestone = i + 1]
        /\ ms'[d] = Activate(done, i + 1)
    BY <1>5 DEF SettleMilestone, total, done, TypeOK
  <2>2. \A j \in Slots : ms'[d][j].status =
            IF j = i + 1 /\ done[j].status = "PENDING" THEN "ACTIVE" ELSE done[j].status
    BY <1>3, <2>1 DEF Activate, Restart, MilestoneRow
  <2>3. /\ deal'[d].milestone_count = deal[d].milestone_count
        /\ deal'[d].amount = deal[d].amount
        /\ deal'[d].status = deal[d].status /\ deal'[d].current_milestone = i + 1
    BY <1>2, <2>1 DEF DealRow
  <2>. QED
    BY <1>3, <1>5, <2>2, <2>3 DEF Slots
<1>. QED
  BY <1>4, <1>5

(***************************************************************************)
(* The order of milestones                                                 *)
(***************************************************************************)

\* Settling the delivered milestone of an accepted deal keeps the order: it is
\* the current one, and counting what is completed finds the last exactly when
\* no milestone is left.
LEMMA SettleKeepsOrder ==
    ASSUME TypeOK, NEW d \in Deals, Exists(d), InOrder(d), NEW i \in Slots, NEW r \in Nat,
           deal[d].status = "ACCEPTED", ms[d][i].status = "DELIVERED",
           SettleMilestone(d, i, r)
    PROVE  IsMulti(d) /\ InOrder(d)'
<1>1. /\ deal[d].milestone_count \in 0..MaxMilestones
      /\ deal[d].current_milestone \in Nat
      /\ ms[d] \in [Slots -> MilestoneRow]
  BY DEF TypeOK, Exists, NoDeal, DealRow
<1>2. i \in Sequence(d) /\ IsMulti(d)
  BY <1>1 DEF InOrder, Sequence, IsMulti, Slots
<1>3. Progress(d) /\ i = deal[d].current_milestone
  BY <1>1, <1>2 DEF InOrder, Progress, Sequence
<1>4. Sequence(d)' = Sequence(d) /\ Sequence(d) \subseteq Slots /\ MaxMilestones \in Nat
  BY <1>1, SettleEffect, OffersAssumption DEF Sequence, Slots
<1>5. \A j \in Slots \ Sequence(d) : ms'[d][j].status = "NONE"
  BY <1>2, SettleEffect DEF InOrder
<1>6. CASE IsLast(d, i)
  <2>1. \A j \in Sequence(d) : ms'[d][j].status = "COMPLETED"
    BY <1>4, <1>6, SettleEffect DEF IsLast
  <2>2. deal'[d].status = "COMPLETED"
    BY <1>6, SettleEffect
  <2>. QED
    BY <1>2, <1>4, <1>5, <2>1, <2>2 DEF InOrder
<1>7. CASE ~IsLast(d, i)
  <2>1. PICK k \in Sequence(d) : k # i /\ ms[d][k].status # "COMPLETED"
    BY <1>7 DEF IsLast
  <2>2. k > i
    BY <1>3, <2>1 DEF Progress, Sequence
  <2>3. i + 1 \in Sequence(d)
    BY <1>1, <1>2, <2>1, <2>2 DEF Sequence
  <2>4. deal'[d].status = "ACCEPTED" /\ deal'[d].current_milestone = i + 1
    BY <1>7, SettleEffect
  <2>5. ASSUME NEW j \in Sequence(d)
        PROVE  ms'[d][j].status \in IF j < i + 1 THEN {"COMPLETED"}
                                    ELSE IF j = i + 1 THEN {"ACTIVE", "DELIVERED"}
                                    ELSE {"PENDING"}
    <3>1. j \in Slots /\ j \in Int /\ i \in Int
      BY <1>2, <1>4 DEF Sequence
    <3>2. ms[d][j].status \in IF j < i THEN {"COMPLETED"}
                              ELSE IF j = i THEN {"ACTIVE", "DELIVERED"}
                              ELSE {"PENDING"}
      BY <1>3 DEF Progress
    <3>3. ms'[d][j].status = IF j = i THEN "COMPLETED"
                             ELSE IF ms[d][j].status # "PENDING" THEN ms[d][j].status
                             ELSE IF j = i + 1 THEN "ACTIVE" ELSE "PENDING"
      BY <1>7, <3>1, SettleEffect
    <3>. QED
      BY <3>1, <3>2, <3>3
  <2>. QED
    BY <1>2, <1>4, <1>5, <2>3, <2>4, <2>5 DEF InOrder, Progress
<1>. QED
  BY <1>2, <1>6, <1>7

\* A new deal has its milestones in order, and leaves the other deals alone.
LEMMA CreateOrder ==
    ASSUME TypeOK, OrderInv, NEW e \in Deals, NEW o \in Bodies, CreateEscrow(e, o)
    PROVE  OrderInv'
<1>. SUFFICES ASSUME NEW d \in Deals PROVE InOrder(d)'
  BY DEF OrderInv
<1>1. CASE e # d
  BY <1>1 DEF CreateEscrow, TypeOK, OrderInv, InOrder, Progress, Sequence, IsMulti, Exists
<1>2. CASE e = d
  <2>1. deal'[d] = Row(o) /\ ms'[d] = MilestoneRows(o)
    BY <1>2 DEF CreateEscrow, TypeOK
  <2>2. Len(o.milestones) \in 0..MaxMilestones
    BY OffersAssumption DEF Bodies
  <2>3. ASSUME NEW i \in Slots
        PROVE  ms'[d][i].status = IF i <= Len(o.milestones) THEN "PENDING" ELSE "NONE"
    <3>1. \A a : [NoMilestone EXCEPT !.status = "PENDING", !.amount = a].status = "PENDING"
      BY DEF NoMilestone
    <3>2. NoMilestone.status = "NONE"
      BY DEF NoMilestone
    <3>3. ms'[d][i] = IF i <= Len(o.milestones)
                      THEN [NoMilestone EXCEPT !.status = "PENDING", !.amount = o.milestones[i]]
                      ELSE NoMilestone
      BY <2>1 DEF MilestoneRows
    <3>. QED
      BY <3>1, <3>2, <3>3
  <2>4. /\ deal'[d].status = "CREATED"
        /\ deal'[d].milestone_count = Len(o.milestones)
        /\ Len(o.milestones) > 0 => deal'[d].current_milestone = 1
    BY <2>1 DEF Row
  <2>5. Sequence(d)' = 1..Len(o.milestones) /\ Sequence(d)' \subseteq Slots
    BY <2>2, <2>4, OffersAssumption DEF Sequence, Slots
  <2>6. \A i \in Slots : ms'[d][i].status = IF i \in Sequence(d)' THEN "PENDING" ELSE "NONE"
    BY <2>2, <2>3, <2>5 DEF Slots
  <2>. QED
    BY <2>4, <2>5, <2>6 DEF InOrder, IsMulti
<1>. QED
  BY <1>1, <1>2

\* Every step keeps every deal's milestones in order.
LEMMA OrderStep == TypeOK /\ OrderInv /\ [Next]_vars => OrderInv'
<1>. SUFFICES ASSUME TypeOK, OrderInv, [Next]_vars, NEW d \in Deals PROVE InOrder(d)'
  BY DEF OrderInv
<1>1. InOrder(d)
  BY DEF OrderInv
<1>2. ASSUME deal'[d] = deal[d], ms'[d] = ms[d] PROVE InOrder(d)'
  BY <1>1, <1>2 DEF InOrder, Progress, Sequence, IsMulti, Exists
\* a deal that leaves the stages in which the order is followed
<1>3. ASSUME Exists(d), ms'[d] = ms[d], deal'[d].milestone_count = deal[d].milestone_count,
             deal'[d].status \in {"EXPIRED", "CANCELLED"}
      PROVE  InOrder(d)'
  BY <1>1, <1>3 DEF InOrder, Sequence, IsMulti
\* a change of a deal without milestones
<1>4. ASSUME Exists(d), ~IsMulti(d), ms'[d] = ms[d],
             deal'[d].milestone_count = deal[d].milestone_count
      PROVE  InOrder(d)'
  BY <1>1, <1>4 DEF InOrder, Sequence, IsMulti
<1>5. ASSUME NEW e \in Deals, NEW o \in Offers, CreateEscrow(e, o) PROVE InOrder(d)'
  BY <1>5, CreateOrder, OffersAreBodies DEF OrderInv
<1>6. ASSUME NEW e \in Deals, AcceptChecks(e) \/ AcceptRollsBack(e) PROVE InOrder(d)'
  BY <1>2, <1>6 DEF AcceptChecks, AcceptRollsBack
<1>7. ASSUME NEW e \in Deals, AcceptCommits(e) PROVE InOrder(d)'
  <2>1. CASE e # d
    BY <1>2, <1>7, <2>1 DEF AcceptCommits, TypeOK
  <2>2. CASE e = d
    <3>1. deal[d] \in DealRow /\ deal[d].status = "CREATED" /\ Exists(d)
      BY <1>7, <2>2 DEF AcceptCommits, TypeOK, NoDeal, Exists
    <3>2. deal'[d] = Restart(deal[d], "ACCEPTED")
      BY <1>7, <2>2 DEF AcceptCommits, TypeOK
    <3>3. /\ deal'[d].milestone_count = deal[d].milestone_count
          /\ deal'[d].current_milestone = deal[d].current_milestone
          /\ deal'[d].status = "ACCEPTED"
      BY <3>1, <3>2, SameTerms
    <3>4. CASE ~IsMulti(d)
      BY <1>4, <1>7, <2>2, <3>1, <3>3, <3>4 DEF AcceptCommits, TypeOK
    <3>5. CASE IsMulti(d)
      <4>1. ms'[d] = Activate(ms[d], 1) /\ ms[d] \in [Slots -> MilestoneRow]
        BY <1>7, <2>2, <3>5 DEF AcceptCommits, TypeOK
      <4>2. deal[d].milestone_count \in 1..MaxMilestones /\ MaxMilestones \in Nat
        BY <3>1, <3>5, OffersAssumption DEF DealRow, IsMulti
      <4>3. 1 \in Sequence(d) /\ Sequence(d) \subseteq Slots
        BY <4>2 DEF Sequence, Slots
      <4>4. \A j \in Slots : ms'[d][j].status =
                IF j = 1 /\ ms[d][j].status = "PENDING" THEN "ACTIVE" ELSE ms[d][j].status
        BY <4>1 DEF Activate, Restart, MilestoneRow
      <4>5. \A j \in Sequence(d) : ms[d][j].status = "PENDING"
        BY <1>1, <3>1, <3>5 DEF InOrder
      <4>6. deal[d].current_milestone = 1 /\ Sequence(d)' = Sequence(d)
        BY <1>1, <3>1, <3>3, <3>5 DEF InOrder, Sequence
      <4>7. \A j \in Sequence(d) :
                ms'[d][j].status \in IF j < 1 THEN {"COMPLETED"}
                                     ELSE IF j = 1 THEN {"ACTIVE", "DELIVERED"}
                                     ELSE {"PENDING"}
        BY <4>3, <4>4, <4>5 DEF Sequence
      <4>8. \A j \in Slots \ Sequence(d) : ms'[d][j].status = "NONE"
        BY <1>1, <3>1, <4>3, <4>4 DEF InOrder
      <4>. QED
        BY <3>3, <4>3, <4>6, <4>7, <4>8 DEF InOrder, Progress
    <3>. QED
      BY <3>4, <3>5
  <2>. QED
    BY <2>1, <2>2
<1>8. ASSUME NEW e \in Deals, DeliverEscrow(e) PROVE InOrder(d)'
  <2>1. CASE e # d
    BY <1>2, <1>8, <2>1 DEF DeliverEscrow, TypeOK
  <2>2. CASE e = d
    <3>1. deal[d] \in DealRow /\ Exists(d) /\ ~IsMulti(d)
      BY <1>8, <2>2 DEF DeliverEscrow, Lockable, TypeOK, NoDeal, Exists
    <3>2. deal'[d] = Restart(deal[d], "DELIVERED") /\ ms' = ms
      BY <1>8, <2>2 DEF DeliverEscrow, TypeOK
    <3>. QED
      BY <1>4, <3>1, <3>2, SameTerms
  <2>. QED
    BY <2>1, <2>2
<1>9. ASSUME NEW e \in Deals, NEW r \in ReleaseAmounts, ReleaseEscrow(e, r) PROVE InOrder(d)'
  <2>1. CASE e # d
    BY <1>2, <1>9, <2>1 DEF ReleaseEscrow, TypeOK
  <2>2. CASE e = d
    <3>1. deal[d] \in DealRow /\ Exists(d) /\ ~IsMulti(d)
      BY <1>9, <2>2 DEF ReleaseEscrow, Lockable, TypeOK, NoDeal, Exists
    <3>2. deal'[d] = Completed(deal[d], r, Fee(r)) /\ ms' = ms
      BY <1>9, <2>2 DEF ReleaseEscrow, TypeOK
    <3>. QED
      BY <1>4, <3>1, <3>2, SameTerms
  <2>. QED
    BY <2>1, <2>2
<1>10. ASSUME NEW e \in Deals, Exists(e), ms' = ms,
              NEW s \in {"EXPIRED", "CANCELLED"}, deal' = [deal EXCEPT ![e].status = s]
       PROVE  InOrder(d)'
  <2>1. CASE e # d
    BY <1>2, <1>10, <2>1 DEF TypeOK
  <2>2. CASE e = d
    <3>1. deal[d] \in DealRow
      BY <1>10, <2>2 DEF TypeOK, NoDeal, Exists
    <3>2. deal'[d] = [deal[d] EXCEPT !.status = s]
      BY <1>10, <2>2 DEF TypeOK
    <3>3. deal'[d].milestone_count = deal[d].milestone_count /\ deal'[d].status = s
      BY <3>1, <3>2, SameTerms
    <3>. QED
      BY <1>3, <1>10, <2>2, <3>3
  <2>. QED
    BY <2>1, <2>2
<1>11. ASSUME NEW e \in Deals, CancelEscrow(e) PROVE InOrder(d)'
  BY <1>10, <1>11 DEF CancelEscrow, Lockable
<1>12. ASSUME NEW e \in Deals, NEW i \in Slots, DeliverMilestone(e, i) PROVE InOrder(d)'
  <2>1. CASE e # d
    BY <1>2, <1>12, <2>1 DEF DeliverMilestone, TypeOK
  <2>2. CASE e = d
    <3>1. /\ Exists(d) /\ IsMulti(d) /\ deal' = deal /\ deal[d].status = "ACCEPTED"
          /\ ms[d][i].status = "ACTIVE"
          /\ ms[d] \in [Slots -> MilestoneRow]
          /\ ms'[d] = [ms[d] EXCEPT ![i] = Restart(ms[d][i], "DELIVERED")]
      BY <1>12, <2>2 DEF DeliverMilestone, Lockable, TypeOK
    <3>2. \A j \in Slots : ms'[d][j].status = IF j = i THEN "DELIVERED" ELSE ms[d][j].status
      BY <3>1 DEF Restart, MilestoneRow
    <3>3. Sequence(d) \subseteq Slots
      BY <3>1, ListFits
    <3>4. i \in Sequence(d) /\ Progress(d)
      BY <1>1, <3>1 DEF InOrder
    <3>5. i = deal[d].current_milestone
      BY <3>1, <3>4 DEF Progress
    <3>6. \A j \in Sequence(d) :
              ms'[d][j].status \in IF j < deal[d].current_milestone THEN {"COMPLETED"}
                                   ELSE IF j = deal[d].current_milestone
                                        THEN {"ACTIVE", "DELIVERED"}
                                        ELSE {"PENDING"}
      BY <3>2, <3>3, <3>4, <3>5 DEF Progress, Sequence
    <3>7. \A j \in Slots \ Sequence(d) : ms'[d][j].status = "NONE"
      BY <1>1, <3>1, <3>2, <3>4 DEF InOrder
    <3>. QED
      BY <3>1, <3>4, <3>6, <3>7 DEF InOrder, Progress, Sequence, Exists, IsMulti
  <2>. QED
    BY <2>1, <2>2
<1>13. ASSUME NEW e \in Deals, NEW i \in Slots, NEW r \in ReleaseAmounts,
              ReleaseMilestone(e, i, r)
       PROVE  InOrder(d)'
  <2>1. CASE e # d
    BY <1>2, <1>13, <2>1, SettleElsewhere DEF ReleaseMilestone
  <2>2. CASE e = d
    BY <1>1, <1>13, <2>2, SettleKeepsOrder, AmountsAssumption DEF ReleaseMilestone, Lockable
  <2>. QED
    BY <2>1, <2>2
<1>14. ASSUME NEW e \in Deals, DealDeadline(e) PROVE InOrder(d)'
  <2>1. CASE e # d
    BY <1>2, <1>14, <2>1 DEF DealDeadline, TypeOK
  <2>2. CASE e = d
    <3>1. deal[d] \in DealRow /\ Exists(d)
      BY <1>14, <2>2 DEF DealDeadline, TypeOK, NoDeal, Exists, Open
    <3>2. deal'[d] = [deal[d] EXCEPT !.due = TRUE] /\ ms' = ms
      BY <1>14, <2>2 DEF DealDeadline, TypeOK
    <3>3. /\ deal'[d].milestone_count = deal[d].milestone_count
          /\ deal'[d].current_milestone = deal[d].current_milestone
          /\ deal'[d].status = deal[d].status
      BY <3>1, <3>2, SameTerms
    <3>. QED
      BY <1>1, <3>1, <3>2, <3>3 DEF InOrder, Progress, Sequence, IsMulti
  <2>. QED
    BY <2>1, <2>2
<1>15. ASSUME NEW e \in Deals, NEW i \in Slots, MilestoneDeadline(e, i) PROVE InOrder(d)'
  <2>1. deal' = deal /\ \A j \in Slots : ms'[d][j].status = ms[d][j].status
    BY <1>15 DEF MilestoneDeadline, TypeOK, MilestoneRow
  <2>2. Exists(d) => Sequence(d) \subseteq Slots
    BY ListFits
  <2>. QED
    BY <1>1, <2>1, <2>2 DEF InOrder, Progress, Sequence, IsMulti, Exists
<1>16. ASSUME NEW w \in Workers, ListDeals(w) \/ ListMilestones(w) \/ EndPass(w)
       PROVE  InOrder(d)'
  BY <1>2, <1>16 DEF ListDeals, ListMilestones, EndPass
<1>17. ASSUME NEW w \in Workers, NEW t \in sweep[w].todo, ResolveDeal(w, t) PROVE InOrder(d)'
  <2>. DEFINE e == t.deal
  <2>1. e \in Deals /\ Exists(e) /\ ms' = ms
    BY <1>17 DEF ResolveDeal, TypeOK, Pass, DealTicket, Lockable
  <2>2. CASE ResolvedElsewhere
    BY <1>2, <2>1, <2>2 DEF ResolvedElsewhere
  <2>3. CASE ExpireNotAccepted(e) \/ ExpireNotDelivered(e)
    BY <1>10, <2>1, <2>3 DEF ExpireNotAccepted, ExpireNotDelivered
  <2>4. CASE deal[e].status = "DELIVERED" /\ AutoReleaseFull(e)
    <3>1. CASE e # d
      BY <1>2, <2>1, <2>4, <3>1 DEF AutoReleaseFull, TypeOK
    <3>2. CASE e = d
      <4>1. deal[d] \in DealRow /\ ~IsMulti(d)
        BY <1>1, <2>1, <2>4, <3>2 DEF InOrder, TypeOK, NoDeal, Exists
      <4>2. deal'[d] = Completed(deal[d], deal[d].amount, Fee(deal[d].amount))
        BY <2>4, <3>2 DEF AutoReleaseFull, TypeOK
      <4>. QED
        BY <1>4, <2>1, <3>2, <4>1, <4>2, SameTerms
    <3>. QED
      BY <3>1, <3>2
  <2>. QED
    BY <1>17, <2>2, <2>3, <2>4 DEF ResolveDeal, Matches
<1>18. ASSUME NEW w \in Workers, NEW t \in sweep[w].todo, ResolveMilestone(w, t)
       PROVE  InOrder(d)'
  <2>. DEFINE e == t.deal
              i == t.seq
  <2>1. e \in Deals /\ i \in Slots /\ Exists(e)
    BY <1>18 DEF ResolveMilestone, TypeOK, Pass, MilestoneTicket, Lockable
  <2>2. CASE ResolvedElsewhere /\ UNCHANGED ms
    BY <1>2, <2>2 DEF ResolvedElsewhere
  <2>3. CASE StillOpen(t) /\ t.seen = "ACTIVE" /\ ExpireActiveMilestone(e, i)
    <3>1. CASE e # d
      BY <1>2, <2>1, <2>3, <3>1 DEF ExpireActiveMilestone, TypeOK
    <3>2. CASE e = d
      <4>1. deal[d] \in DealRow /\ ms[d] \in [Slots -> MilestoneRow]
        BY <2>1, <3>2 DEF TypeOK, NoDeal, Exists
      <4>2. i \in Sequence(d) /\ Sequence(d) \subseteq Slots
        BY <1>1, <2>1, <2>3, <3>2, <4>1, OffersAssumption
           DEF InOrder, StillOpen, Sequence, Slots, DealRow
      <4>3. /\ deal'[d].milestone_count = deal[d].milestone_count
            /\ deal'[d].status \in {"EXPIRED", "PARTIALLY_COMPLETED"}
        BY <2>3, <3>2, <4>1, SameTerms DEF ExpireActiveMilestone, TypeOK
      <4>4. \A j \in Slots \ Sequence(d) : ms'[d][j].status = "NONE"
        <5>. DEFINE closed == [ms[d] EXCEPT ![i].status = "EXPIRED"]
        <5>1. ms'[d] = CancelPending(closed)
          BY <2>1, <2>3, <3>2 DEF ExpireActiveMilestone, TypeOK
        <5>2. \A j \in Slots \ Sequence(d) : closed[j].status = "NONE"
          BY <1>1, <2>1, <3>2, <4>1, <4>2 DEF InOrder
        <5>. HIDE DEF closed
        <5>. QED
          BY <5>1, <5>2 DEF CancelPending
      <4>. QED
        BY <4>3, <4>4 DEF InOrder, Sequence
    <3>. QED
      BY <3>1, <3>2
  <2>4. CASE /\ StillOpen(t) /\ t.seen = "DELIVERED"
             /\ SettleMilestone(e, i, ms[e][i].amount)
    <3>1. ms[e][i].amount \in Nat
      BY <2>1 DEF TypeOK, MilestoneRow
    <3>2. CASE e # d
      BY <1>2, <2>1, <2>4, <3>2, SettleElsewhere
    <3>3. CASE e = d
      BY <1>1, <2>1, <2>4, <3>1, <3>3, SettleKeepsOrder DEF StillOpen
    <3>. QED
      BY <3>2, <3>3
  <2>. QED
    BY <1>18, <2>2, <2>3, <2>4 DEF ResolveMilestone
<1>19. CASE UNCHANGED vars
  BY <1>2, <1>19 DEF vars
<1>. QED
  BY <1>5, <1>6, <1>7, <1>8, <1>9, <1>11, <1>12, <1>13, <1>14, <1>15, <1>16, <1>17, <1>18, <1>19
     DEF Next, Sweep

\* The inductive invariant holds throughout.
LEMMA OrderHolds == Spec => []OrderInv
<1>1. Init => OrderInv
  BY DEF Init, OrderInv, InOrder, Exists, NoDeal
<1>. QED
  BY <1>1, OrderStep, TypeCorrect, PTL DEF Spec

\* Milestones are delivered, released and closed strictly in order, whatever
\* requests and expiry loops interleave: the count that completes a deal and
\* the number that opens the next milestone always agree.
THEOREM MilestoneOrder == Spec => []MilestonesInOrder
<1>1. OrderInv => MilestonesInOrder
  BY DEF OrderInv, InOrder, Progress, MilestonesInOrder
<1>. QED
  BY <1>1, OrderHolds, PTL

(***************************************************************************)
(* Payment for delivery                                                    *)
(***************************************************************************)

\* The seller is credited only in a step that starts with the deal, or one of
\* its milestones, delivered: no deadline, cancellation or stale list pays it.
THEOREM DeliveryBeforePay == Spec => PaidForDelivery
<1>. DEFINE Earned(d) ==
        paid'[d].seller # paid[d].seller =>
           \/ deal[d].status = "DELIVERED"
           \/ /\ deal[d].status = "ACCEPTED"
              /\ \E i \in Slots : /\ ms[d][i].status = "DELIVERED"
                                  /\ ms'[d][i].status = "COMPLETED"
<1>1. TypeOK /\ [Next]_vars => \A d \in Deals : Earned(d)
  <2>. SUFFICES ASSUME TypeOK, [Next]_vars, NEW d \in Deals PROVE Earned(d)
    OBVIOUS
  <2>1. ASSUME NEW e \in Deals, NEW b, NEW f, Pay(e, b, 0, f) PROVE paid'[d].seller = paid[d].seller
    BY <2>1 DEF Pay, TypeOK
  <2>2. ASSUME NEW e \in Deals, NEW i \in Slots, NEW r \in Nat, Exists(e),
               deal[e].status = "ACCEPTED", ms[e][i].status = "DELIVERED",
               SettleMilestone(e, i, r)
        PROVE  Earned(d)
    <3>1. CASE e = d
      BY <2>2, <3>1, SettleEffect
    <3>2. CASE e # d
      BY <2>2, <3>2, SettleElsewhere
    <3>. QED
      BY <3>1, <3>2
  <2>3. ASSUME NEW e \in Deals,
               \/ \E o \in Offers : CreateEscrow(e, o)
               \/ AcceptChecks(e) \/ AcceptCommits(e) \/ AcceptRollsBack(e)
               \/ DeliverEscrow(e) \/ DealDeadline(e)
               \/ \E i \in Slots : DeliverMilestone(e, i) \/ MilestoneDeadline(e, i)
        PROVE  Earned(d)
    BY <2>3 DEF CreateEscrow, AcceptChecks, AcceptCommits, AcceptRollsBack, DeliverEscrow,
                DealDeadline, DeliverMilestone, MilestoneDeadline
  <2>4. ASSUME NEW e \in Deals, NEW r \in ReleaseAmounts, ReleaseEscrow(e, r) PROVE Earned(d)
    BY <2>4 DEF ReleaseEscrow, Pay, TypeOK
  <2>5. ASSUME NEW e \in Deals, CancelEscrow(e) PROVE Earned(d)
    BY <2>1, <2>5 DEF CancelEscrow
  <2>6. ASSUME NEW e \in Deals, NEW i \in Slots, NEW r \in ReleaseAmounts,
               ReleaseMilestone(e, i, r)
        PROVE  Earned(d)
    BY <2>2, <2>6, AmountsAssumption DEF ReleaseMilestone, Lockable
  <2>7. ASSUME NEW w \in Workers, ListDeals(w) \/ ListMilestones(w) \/ EndPass(w) PROVE Earned(d)
    BY <2>7 DEF ListDeals, ListMilestones, EndPass
  <2>8. ASSUME NEW w \in Workers, NEW t \in sweep[w].todo, ResolveDeal(w, t) PROVE Earned(d)
    <3>1. t.deal \in Deals
      BY <2>8 DEF ResolveDeal, TypeOK, Pass, DealTicket
    <3>2. CASE ResolvedElsewhere
      BY <3>2 DEF ResolvedElsewhere
    <3>3. CASE ExpireNotAccepted(t.deal) \/ ExpireNotDelivered(t.deal)
      BY <2>1, <3>1, <3>3 DEF ExpireNotAccepted, ExpireNotDelivered
    <3>4. CASE deal[t.deal].status = "DELIVERED" /\ AutoReleaseFull(t.deal)
      BY <3>1, <3>4 DEF AutoReleaseFull, Pay, TypeOK
    <3>. QED
      BY <2>8, <3>2, <3>3, <3>4 DEF ResolveDeal, Matches
  <2>9. ASSUME NEW w \in Workers, NEW t \in sweep[w].todo, ResolveMilestone(w, t) PROVE Earned(d)
    <3>1. t.deal \in Deals /\ t.seq \in Slots /\ Exists(t.deal)
      BY <2>9 DEF ResolveMilestone, TypeOK, Pass, MilestoneTicket, Lockable
    <3>2. CASE ResolvedElsewhere
      BY <3>2 DEF ResolvedElsewhere
    <3>3. CASE ExpireActiveMilestone(t.deal, t.seq)
      BY <2>1, <3>1, <3>3 DEF ExpireActiveMilestone
    <3>4. CASE /\ StillOpen(t) /\ t.seen = "DELIVERED"
               /\ SettleMilestone(t.deal, t.seq, ms[t.deal][t.seq].amount)
      <4>1. ms[t.deal][t.seq].amount \in Nat
        BY <3>1 DEF TypeOK, MilestoneRow
      <4>. QED
        BY <2>2, <3>1, <3>4, <4>1 DEF StillOpen
    <3>. QED
      BY <2>9, <3>2, <3>3, <3>4 DEF ResolveMilestone
  <2>10. CASE UNCHANGED vars
    BY <2>10 DEF vars
  <2>. QED
    BY <2>3, <2>4, <2>5, <2>6, <2>7, <2>8, <2>9, <2>10 DEF Next, Sweep
<1>2. TypeOK /\ [Next]_vars =>
        [\A d \in Deals : paid'[d].seller # paid[d].seller =>
           \/ deal[d].status = "DELIVERED"
           \/ /\ deal[d].status = "ACCEPTED"
              /\ \E i \in Slots : /\ ms[d][i].status = "DELIVERED"
                                  /\ ms'[d][i].status = "COMPLETED"]_vars
  BY <1>1
<1>. QED
  BY <1>2, TypeCorrect, PTL DEF Spec, PaidForDelivery



(***************************************************************************)
(* What a step does to the money of the deals                              *)
(***************************************************************************)

KeepsTerms(d) ==
    /\ deal'[d].buyer = deal[d].buyer
    /\ deal'[d].seller = deal[d].seller
    /\ deal'[d].amount = deal[d].amount
    /\ deal'[d].milestone_count = deal[d].milestone_count

KeepsTotals(d) ==
    /\ deal'[d].total_released = deal[d].total_released
    /\ deal'[d].total_fees = deal[d].total_fees

KeepsMilestones(d) ==
    \A i \in Slots : /\ ms'[d][i].amount = ms[d][i].amount
                     /\ ms'[d][i].release_amount = ms[d][i].release_amount
                     /\ ms'[d][i].status = "COMPLETED" <=> ms[d][i].status = "COMPLETED"

Undisturbed(d) ==
    /\ Exists(d)' <=> Exists(d)
    /\ Exists(d) =>
           /\ KeepsTerms(d) /\ KeepsTotals(d) /\ KeepsMilestones(d)
           /\ deal'[d].release_amount = deal[d].release_amount
           /\ deal'[d].fee_amount = deal[d].fee_amount
           /\ \/ deal'[d].status = deal[d].status
              \/ /\ deal[d].status \in Open
                 /\ deal'[d].status \in Open \ {"CREATED"}

Elsewhere(d) == \A e \in Deals : e # d => deal'[e] = deal[e] /\ ms'[e] = ms[e]

\* The whole deposit is paid out in one step
Closes(d, b, s, f) ==
    /\ Exists(d) /\ Elsewhere(d)
    /\ KeepsTerms(d) /\ KeepsTotals(d) /\ KeepsMilestones(d)
    /\ deal[d].status \in Open /\ deal'[d].status \in Settled
    /\ IsMulti(d) => /\ deal[d].status = "CREATED" /\ deal'[d].status = "CANCELLED"
                     /\ s = 0 /\ f = 0
    /\ Pay(d, b, s, f)
    /\ b + s + f = deal[d].amount
    /\ deal'[d].status = "COMPLETED" =>
           /\ deal'[d].fee_amount = f
           /\ deal'[d].release_amount = s + f

\* A list of milestones ends at a deadline
CutsShort(d, b) ==
    /\ Exists(d) /\ Elsewhere(d)
    /\ KeepsTerms(d) /\ KeepsTotals(d) /\ KeepsMilestones(d)
    /\ IsMulti(d)
    /\ deal[d].status \in Open /\ deal'[d].status \in {"EXPIRED", "PARTIALLY_COMPLETED"}
    /\ Pay(d, b, 0, 0)

\* A delivered milestone is paid for
PaysMilestone(d, i, r) ==
    /\ Exists(d) /\ Elsewhere(d) /\ IsMulti(d)
    /\ deal[d].status = "ACCEPTED"
    /\ i \in Sequence(d) /\ ms[d][i].status = "DELIVERED"
    /\ r <= ms[d][i].amount
    /\ SettleMilestone(d, i, r)

\* The terms of a deal survive every change of its row.
LEMMA RowKeeps ==
    ASSUME NEW row \in DealRow, NEW new,
           \/ \E s : new = [row EXCEPT !.status = s]
           \/ \E s : new = Restart(row, s)
           \/ \E r, f : new = Completed(row, r, f)
           \/ new = [row EXCEPT !.due = TRUE]
    PROVE  /\ new.buyer = row.buyer /\ new.seller = row.seller /\ new.amount = row.amount
           /\ new.milestone_count = row.milestone_count
           /\ new.total_released = row.total_released /\ new.total_fees = row.total_fees
BY DEF DealRow, Restart, Completed

\* A change of status or deadline does not touch what was released.
LEMMA RowKeepsResult ==
    ASSUME NEW row \in DealRow, NEW new,
           \/ \E s : new = [row EXCEPT !.status = s]
           \/ \E s : new = Restart(row, s)
           \/ new = [row EXCEPT !.due = TRUE]
    PROVE  new.release_amount = row.release_amount /\ new.fee_amount = row.fee_amount
BY DEF DealRow, Restart

\* What completing a deal writes.
LEMMA CompletedRow ==
    ASSUME NEW row \in DealRow, NEW r, NEW f
    PROVE  /\ Completed(row, r, f).status = "COMPLETED"
           /\ Completed(row, r, f).release_amount = r /\ Completed(row, r, f).fee_amount = f
BY DEF DealRow, Completed

\* A milestone's amounts survive a new status or deadline.
LEMMA MilestoneKeeps ==
    ASSUME NEW m \in MilestoneRow
    PROVE  /\ \A s : /\ Restart(m, s).amount = m.amount
                     /\ Restart(m, s).release_amount = m.release_amount
                     /\ Restart(m, s).status = s
           /\ [m EXCEPT !.due = TRUE].amount = m.amount
           /\ [m EXCEPT !.due = TRUE].release_amount = m.release_amount
           /\ [m EXCEPT !.due = TRUE].status = m.status
BY DEF MilestoneRow, Restart

\* The amounts that settling a milestone writes.
LEMMA SettleAmounts ==
    ASSUME TypeOK, NEW d \in Deals, Exists(d), NEW i \in Slots, NEW r \in Nat,
           SettleMilestone(d, i, r)
    PROVE  /\ KeepsTerms(d)
           /\ deal'[d].total_released = deal[d].total_released + r
           /\ deal'[d].total_fees = deal[d].total_fees + Fee(r)
           /\ IsLast(d, i) => /\ deal'[d].release_amount = deal'[d].total_released
                              /\ deal'[d].fee_amount = deal'[d].total_fees
           /\ \A j \in Slots : /\ ms'[d][j].amount = ms[d][j].amount
                               /\ ms'[d][j].release_amount =
                                      IF j = i THEN r ELSE ms[d][j].release_amount
<1>1. deal[d] \in DealRow /\ ms[d] \in [Slots -> MilestoneRow] /\ Fee(r) \in Nat
  <2>1. deal[d] \in DealRow /\ ms[d] \in [Slots -> MilestoneRow]
    BY DEF TypeOK, Exists, NoDeal
  <2>2. Fee(r) \in Nat
    BY FeeType
  <2>. QED
    BY <2>1, <2>2
<1>. DEFINE total == [deal[d] EXCEPT !.total_released = @ + r, !.total_fees = @ + Fee(r)]
            done  == [ms[d] EXCEPT ![i] = [@ EXCEPT !.status = "COMPLETED",
                                                    !.release_amount = r,
                                                    !.fee_amount = Fee(r)]]
<1>2. /\ total.buyer = deal[d].buyer /\ total.seller = deal[d].seller
      /\ total.milestone_count = deal[d].milestone_count /\ total.amount = deal[d].amount
      /\ total.total_released = deal[d].total_released + r
      /\ total.total_fees = deal[d].total_fees + Fee(r)
      /\ total \in DealRow
  <2>1. deal[d].total_released + r \in Nat /\ deal[d].total_fees + Fee(r) \in Nat
    BY <1>1 DEF DealRow
  <2>. QED
    BY <1>1, <2>1 DEF DealRow
<1>3. /\ done \in [Slots -> MilestoneRow]
      /\ \A j \in Slots : /\ done[j].amount = ms[d][j].amount
                          /\ done[j].release_amount = IF j = i THEN r ELSE ms[d][j].release_amount
  <2>. DEFINE new == [ms[d][i] EXCEPT !.status = "COMPLETED", !.release_amount = r,
                                      !.fee_amount = Fee(r)]
  <2>1. new \in MilestoneRow /\ new.amount = ms[d][i].amount /\ new.release_amount = r
    BY <1>1 DEF MilestoneRow
  <2>2. done = [ms[d] EXCEPT ![i] = new]
    OBVIOUS
  <2>. HIDE DEF done, new
  <2>. QED
    BY <1>1, <2>1, <2>2
<1>. HIDE DEF done, total
<1>4. CASE IsLast(d, i)
  <2>1. /\ deal'[d] = Completed(total, total.total_released, total.total_fees)
        /\ ms'[d] = CancelPending(done)
    BY <1>4 DEF SettleMilestone, total, done, TypeOK
  <2>2. \A j \in Slots : /\ ms'[d][j].amount = done[j].amount
                         /\ ms'[d][j].release_amount = done[j].release_amount
    BY <1>3, <2>1 DEF CancelPending, MilestoneRow
  <2>3. /\ deal'[d].release_amount = total.total_released
        /\ deal'[d].fee_amount = total.total_fees
    BY <1>2, <2>1, CompletedRow
  <2>4. /\ deal'[d].buyer = total.buyer /\ deal'[d].seller = total.seller
        /\ deal'[d].amount = total.amount
        /\ deal'[d].milestone_count = total.milestone_count
        /\ deal'[d].total_released = total.total_released
        /\ deal'[d].total_fees = total.total_fees
    BY <1>2, <2>1, RowKeeps
  <2>. QED
    BY <1>2, <1>3, <2>2, <2>3, <2>4 DEF KeepsTerms
<1>5. CASE ~IsLast(d, i)
  <2>1. /\ deal'[d] = [total EXCEPT !.current_milestone = i + 1]
        /\ ms'[d] = Activate(done, i + 1)
    BY <1>5 DEF SettleMilestone, total, done, TypeOK
  <2>2. \A j \in Slots : /\ ms'[d][j].amount = done[j].amount
                         /\ ms'[d][j].release_amount = done[j].release_amount
    BY <1>3, <2>1 DEF Activate, Restart, MilestoneRow
  <2>3. /\ deal'[d].buyer = total.buyer /\ deal'[d].seller = total.seller
        /\ deal'[d].amount = total.amount
        /\ deal'[d].milestone_count = total.milestone_count
        /\ deal'[d].total_released = total.total_released
        /\ deal'[d].total_fees = total.total_fees
    BY <1>2, <2>1 DEF DealRow
  <2>. QED
    BY <1>2, <1>3, <1>5, <2>2, <2>3 DEF KeepsTerms
<1>. QED
  BY <1>4, <1>5

\* Every step leaves the money alone, funds a deal, pays the whole of one, ends
\* a list of milestones, or pays for one delivered milestone.
LEMMA MoneySteps ==
    ASSUME TypeOK, OrderInv, [Next]_vars
    PROVE  \/ UNCHANGED <<balance, fees, paid>> /\ \A d \in Deals : Undisturbed(d)
           \/ \E d \in Deals, o \in Offers : CreateEscrow(d, o)
           \/ \E d \in Deals, b, s, f \in Nat : Closes(d, b, s, f)
           \/ \E d \in Deals, b \in Nat : CutsShort(d, b)
           \/ \E d \in Deals, i \in Slots, r \in Nat : PaysMilestone(d, i, r)
<1>. DEFINE Quiet == UNCHANGED <<balance, fees, paid>> /\ \A d \in Deals : Undisturbed(d)
            Goal == \/ Quiet
                    \/ \E d \in Deals, o \in Offers : CreateEscrow(d, o)
                    \/ \E d \in Deals, b, s, f \in Nat : Closes(d, b, s, f)
                    \/ \E d \in Deals, b \in Nat : CutsShort(d, b)
                    \/ \E d \in Deals, i \in Slots, r \in Nat : PaysMilestone(d, i, r)
<1>1. ASSUME NEW d \in Deals, deal'[d] = deal[d], ms'[d] = ms[d] PROVE Undisturbed(d)
  BY <1>1 DEF Undisturbed, Exists, KeepsTerms, KeepsTotals, KeepsMilestones
<1>2. ASSUME deal' = deal, ms' = ms, UNCHANGED <<balance, fees, paid>> PROVE Quiet
  BY <1>1, <1>2
\* a new deadline, status or mark on an open deal
<1>3. ASSUME NEW d \in Deals, Exists(d), NEW row, deal' = [deal EXCEPT ![d] = row],
             \/ row = Restart(deal[d], "ACCEPTED")
             \/ row = Restart(deal[d], "DELIVERED")
             \/ row = [deal[d] EXCEPT !.due = TRUE],
             deal[d].status \in Open,
             KeepsMilestones(d), \A e \in Deals : e # d => ms'[e] = ms[e],
             UNCHANGED <<balance, fees, paid>>
      PROVE  Quiet
  <2>1. deal[d] \in DealRow /\ deal'[d] = row
    BY <1>3 DEF TypeOK, Exists, NoDeal
  <2>2. \A e \in Deals : e # d => Undisturbed(e)
    BY <1>1, <1>3 DEF TypeOK
  <2>3. KeepsTerms(d) /\ KeepsTotals(d)
    BY <1>3, <2>1, RowKeeps DEF KeepsTerms, KeepsTotals
  <2>4. row.release_amount = deal[d].release_amount /\ row.fee_amount = deal[d].fee_amount
    BY <1>3, <2>1, RowKeepsResult
  <2>5. row.status = deal[d].status \/ row.status \in Open \ {"CREATED"}
    <3>1. CASE row = [deal[d] EXCEPT !.due = TRUE]
      BY <2>1, <3>1, SameTerms
    <3>2. CASE row = Restart(deal[d], "ACCEPTED") \/ row = Restart(deal[d], "DELIVERED")
      <4>1. row.status \in {"ACCEPTED", "DELIVERED"}
        BY <2>1, <3>2, SameTerms
      <4>. QED
        BY <4>1 DEF Open
    <3>. QED
      BY <1>3, <3>1, <3>2
  <2>6. Exists(d)'
    BY <1>3, <2>1, <2>5 DEF Exists, Open
  <2>7. Undisturbed(d)
    BY <1>3, <2>1, <2>3, <2>4, <2>5, <2>6 DEF Undisturbed
  <2>. QED
    BY <1>3, <2>2, <2>7
\* an open deal whose deposit goes back to the buyer
<1>4. ASSUME NEW d \in Deals, Exists(d), deal[d].status \in Open,
             NEW s \in {"CANCELLED", "EXPIRED"}, deal' = [deal EXCEPT ![d].status = s],
             s = "CANCELLED" => deal[d].status = "CREATED",
             Pay(d, deal[d].amount, 0, 0), ms' = ms
      PROVE  Goal
  <2>1. deal[d] \in DealRow /\ deal'[d] = [deal[d] EXCEPT !.status = s]
    BY <1>4 DEF TypeOK, Exists, NoDeal
  <2>2. KeepsTerms(d) /\ KeepsTotals(d) /\ deal'[d].status = s
    BY <2>1, RowKeeps, SameTerms DEF KeepsTerms, KeepsTotals
  <2>3. Elsewhere(d) /\ KeepsMilestones(d)
    BY <1>4 DEF Elsewhere, KeepsMilestones, TypeOK
  <2>4. deal[d].amount \in Nat /\ deal[d].amount + 0 + 0 = deal[d].amount
    BY <2>1 DEF DealRow
  <2>5. CASE s = "CANCELLED" \/ ~IsMulti(d)
    <3>1. Closes(d, deal[d].amount, 0, 0)
      BY <1>4, <2>2, <2>3, <2>4, <2>5 DEF Closes, Settled
    <3>. QED
      BY <2>4, <3>1
  <2>6. CASE s = "EXPIRED" /\ IsMulti(d)
    <3>1. CutsShort(d, deal[d].amount)
      BY <1>4, <2>2, <2>3, <2>6 DEF CutsShort
    <3>. QED
      BY <2>4, <3>1
  <2>. QED
    BY <2>5, <2>6
\* a single delivery that is paid for
<1>5. ASSUME NEW d \in Deals, Exists(d), ~IsMulti(d), deal[d].status \in Open,
             NEW r \in Nat, r <= deal[d].amount,
             deal' = [deal EXCEPT ![d] = Completed(deal[d], r, Fee(r))],
             Pay(d, deal[d].amount - r, SellerShare(r), Fee(r)), ms' = ms
      PROVE  Goal
  <2>1. deal[d] \in DealRow /\ deal'[d] = Completed(deal[d], r, Fee(r))
    BY <1>5 DEF TypeOK, Exists, NoDeal
  <2>2. KeepsTerms(d) /\ KeepsTotals(d)
    BY <2>1, RowKeeps DEF KeepsTerms, KeepsTotals
  <2>3. Elsewhere(d) /\ KeepsMilestones(d)
    BY <1>5 DEF Elsewhere, KeepsMilestones, TypeOK
  <2>4. /\ deal[d].amount \in Nat /\ deal[d].amount - r \in Nat
        /\ Fee(r) \in Nat /\ SellerShare(r) \in Nat /\ SellerShare(r) + Fee(r) = r
        /\ (deal[d].amount - r) + SellerShare(r) + Fee(r) = deal[d].amount
    <3>1. deal[d].amount \in Nat
      BY <2>1 DEF DealRow
    <3>2. Fee(r) \in Nat /\ SellerShare(r) \in Nat /\ SellerShare(r) + Fee(r) = r
      BY FeeType
    <3>. QED
      BY <1>5, <3>1, <3>2
  <2>5. /\ deal'[d].status = "COMPLETED"
        /\ deal'[d].release_amount = r /\ deal'[d].fee_amount = Fee(r)
    BY <2>1, CompletedRow
  <2>6. Closes(d, deal[d].amount - r, SellerShare(r), Fee(r))
    BY <1>5, <2>2, <2>3, <2>4, <2>5 DEF Closes, Settled
  <2>. QED
    BY <2>4, <2>6
\* a milestone that is paid for
<1>6. ASSUME NEW d \in Deals, NEW i \in Slots, NEW r \in Nat, Exists(d),
             deal[d].status = "ACCEPTED", ms[d][i].status = "DELIVERED",
             r <= ms[d][i].amount, SettleMilestone(d, i, r)
      PROVE  Goal
  <2>1. Elsewhere(d)
    BY <1>6, SettleElsewhere DEF Elsewhere
  <2>2. i \in Sequence(d)
    BY <1>6 DEF OrderInv, InOrder
  <2>3. IsMulti(d)
    BY <1>6, SettleKeepsOrder DEF OrderInv
  <2>4. PaysMilestone(d, i, r)
    BY <1>6, <2>1, <2>2, <2>3 DEF PaysMilestone
  <2>. QED
    BY <2>4
<1>7. ASSUME NEW d \in Deals, AcceptChecks(d) \/ AcceptRollsBack(d) PROVE Goal
  BY <1>2, <1>7 DEF AcceptChecks, AcceptRollsBack
<1>8. ASSUME NEW d \in Deals, AcceptCommits(d) PROVE Goal
  <2>1. Exists(d) /\ deal[d].status \in Open
    BY <1>8 DEF AcceptCommits, TypeOK, Exists, Open
  <2>2. KeepsMilestones(d) /\ \A e \in Deals : e # d => ms'[e] = ms[e]
    <3>1. ms'[d] = ms[d] \/ ms'[d] = Activate(ms[d], 1)
      BY <1>8 DEF AcceptCommits, TypeOK
    <3>2. ms[d] \in [Slots -> MilestoneRow]
      BY DEF TypeOK
    <3>3. \A j \in Slots : \/ ms'[d][j] = ms[d][j]
                           \/ /\ ms[d][j].status = "PENDING"
                              /\ ms'[d][j] = Restart(ms[d][j], "ACTIVE")
      BY <3>1, <3>2 DEF Activate
    <3>4. KeepsMilestones(d)
      BY <3>2, <3>3, MilestoneKeeps DEF KeepsMilestones
    <3>. QED
      BY <1>8, <3>4 DEF AcceptCommits, TypeOK
  <2>. QED
    BY <1>3, <1>8, <2>1, <2>2 DEF AcceptCommits
<1>9. ASSUME NEW d \in Deals, DeliverEscrow(d) \/ DealDeadline(d) PROVE Goal
  <2>1. Exists(d) /\ deal[d].status \in Open
    BY <1>9 DEF DeliverEscrow, DealDeadline, Lockable, Exists, Open
  <2>2. /\ KeepsMilestones(d) /\ \A e \in Deals : e # d => ms'[e] = ms[e]
        /\ UNCHANGED <<balance, fees, paid>>
    BY <1>9 DEF DeliverEscrow, DealDeadline, KeepsMilestones
  <2>3. \/ deal' = [deal EXCEPT ![d] = Restart(deal[d], "DELIVERED")]
        \/ deal' = [deal EXCEPT ![d] = [deal[d] EXCEPT !.due = TRUE]]
    BY <1>9 DEF DeliverEscrow, DealDeadline
  <2>. QED
    BY <1>3, <2>1, <2>2, <2>3
<1>10. ASSUME NEW d \in Deals, NEW r \in ReleaseAmounts, ReleaseEscrow(d, r) PROVE Goal
  <2>1. /\ Exists(d) /\ ~IsMulti(d) /\ deal[d].status \in Open /\ r \in Nat
        /\ r <= deal[d].amount /\ ms' = ms
    BY <1>10, AmountsAssumption DEF ReleaseEscrow, Lockable, Open
  <2>2. /\ deal' = [deal EXCEPT ![d] = Completed(deal[d], r, Fee(r))]
        /\ Pay(d, deal[d].amount - r, SellerShare(r), Fee(r))
    BY <1>10 DEF ReleaseEscrow
  <2>. QED
    BY <1>5, <2>1, <2>2
<1>11. ASSUME NEW d \in Deals, CancelEscrow(d) PROVE Goal
  BY <1>4, <1>11 DEF CancelEscrow, Lockable, Open
<1>12. ASSUME NEW d \in Deals, NEW i \in Slots, DeliverMilestone(d, i) \/ MilestoneDeadline(d, i)
       PROVE  Goal
  <2>1. deal' = deal /\ UNCHANGED <<balance, fees, paid>>
    BY <1>12 DEF DeliverMilestone, MilestoneDeadline
  <2>2. ASSUME NEW e \in Deals PROVE KeepsMilestones(e)
    <3>. SUFFICES ASSUME NEW j \in Slots
                  PROVE  /\ ms'[e][j].amount = ms[e][j].amount
                         /\ ms'[e][j].release_amount = ms[e][j].release_amount
                         /\ ms'[e][j].status = "COMPLETED" <=> ms[e][j].status = "COMPLETED"
      BY DEF KeepsMilestones
    <3>1. ms[e][j] \in MilestoneRow
      BY DEF TypeOK
    <3>2. CASE DeliverMilestone(d, i)
      <4>1. ms[d][i].status = "ACTIVE" /\ ms' = [ms EXCEPT ![d][i] = Restart(ms[d][i], "DELIVERED")]
        BY <3>2 DEF DeliverMilestone
      <4>2. CASE e = d /\ j = i
        <5>1. ms'[e][j] = Restart(ms[e][j], "DELIVERED")
          BY <4>1, <4>2 DEF TypeOK
        <5>. QED
          BY <3>1, <4>1, <4>2, <5>1, MilestoneKeeps
      <4>3. CASE ~(e = d /\ j = i)
        BY <4>1, <4>3 DEF TypeOK
      <4>. QED
        BY <4>2, <4>3
    <3>3. CASE MilestoneDeadline(d, i)
      <4>1. ms' = [ms EXCEPT ![d][i] = [ms[d][i] EXCEPT !.due = TRUE]]
        BY <3>3 DEF MilestoneDeadline
      <4>2. CASE e = d /\ j = i
        <5>1. ms'[e][j] = [ms[e][j] EXCEPT !.due = TRUE]
          BY <4>1, <4>2 DEF TypeOK
        <5>. QED
          BY <3>1, <5>1, MilestoneKeeps
      <4>3. CASE ~(e = d /\ j = i)
        BY <4>1, <4>3 DEF TypeOK
      <4>. QED
        BY <4>2, <4>3
    <3>. QED
      BY <1>12, <3>2, <3>3
  <2>3. \A e \in Deals : Undisturbed(e)
    BY <2>1, <2>2 DEF Undisturbed, Exists, KeepsTerms, KeepsTotals
  <2>. QED
    BY <2>1, <2>3
<1>13. ASSUME NEW d \in Deals, NEW i \in Slots, NEW r \in ReleaseAmounts,
              ReleaseMilestone(d, i, r)
       PROVE  Goal
  BY <1>6, <1>13, AmountsAssumption DEF ReleaseMilestone, Lockable
<1>14. ASSUME NEW w \in Workers, ListDeals(w) \/ ListMilestones(w) \/ EndPass(w) PROVE Goal
  BY <1>2, <1>14 DEF ListDeals, ListMilestones, EndPass
<1>15. ASSUME NEW w \in Workers, NEW t \in sweep[w].todo, ResolveDeal(w, t) PROVE Goal
  <2>. DEFINE d == t.deal
  <2>1. d \in Deals /\ Exists(d) /\ ms' = ms
    BY <1>15 DEF ResolveDeal, TypeOK, Pass, DealTicket, Lockable
  <2>2. CASE ResolvedElsewhere
    BY <1>2, <2>1, <2>2 DEF ResolvedElsewhere
  <2>3. CASE deal[d].status \in Open /\ (ExpireNotAccepted(d) \/ ExpireNotDelivered(d))
    BY <1>4, <2>1, <2>3 DEF ExpireNotAccepted, ExpireNotDelivered
  <2>4. CASE deal[d].status = "DELIVERED" /\ AutoReleaseFull(d)
    <3>. DEFINE amount == deal[d].amount
    <3>1. ~IsMulti(d)
      BY <2>1, <2>4 DEF OrderInv, InOrder
    <3>2. amount \in Nat /\ amount - amount = 0
      BY <2>1 DEF TypeOK, Exists, NoDeal, DealRow
    <3>3. /\ deal' = [deal EXCEPT ![d] = Completed(deal[d], amount, Fee(amount))]
          /\ Pay(d, amount - amount, SellerShare(amount), Fee(amount))
      BY <2>4, <3>2 DEF AutoReleaseFull
    <3>4. deal[d].status \in Open /\ amount <= deal[d].amount
      BY <2>4, <3>2 DEF Open
    <3>. QED
      BY <1>5, <2>1, <3>1, <3>2, <3>3, <3>4
  <2>. QED
    BY <1>15, <2>2, <2>3, <2>4 DEF ResolveDeal, Matches, Open
<1>16. ASSUME NEW w \in Workers, NEW t \in sweep[w].todo, ResolveMilestone(w, t) PROVE Goal
  <2>. DEFINE d == t.deal
              i == t.seq
  <2>1. d \in Deals /\ i \in Slots /\ Exists(d)
    BY <1>16 DEF ResolveMilestone, TypeOK, Pass, MilestoneTicket, Lockable
  <2>2. CASE ResolvedElsewhere /\ UNCHANGED ms
    BY <1>2, <2>2 DEF ResolvedElsewhere
  <2>3. CASE StillOpen(t) /\ t.seen = "ACTIVE" /\ ExpireActiveMilestone(d, i)
    <3>1. deal[d] \in DealRow /\ ms[d] \in [Slots -> MilestoneRow]
      BY <2>1 DEF TypeOK, Exists, NoDeal
    <3>2. IsMulti(d)
      <4>1. i \in Sequence(d)
        BY <2>1, <2>3 DEF StillOpen, OrderInv, InOrder
      <4>. QED
        BY <2>1, <4>1, ListFits DEF Sequence, IsMulti
    <3>3. Elsewhere(d)
      BY <2>1, <2>3 DEF ExpireActiveMilestone, Elsewhere, TypeOK
    <3>4. \E s \in {"EXPIRED", "PARTIALLY_COMPLETED"} : deal'[d] = [deal[d] EXCEPT !.status = s]
      BY <2>1, <2>3 DEF ExpireActiveMilestone, TypeOK
    <3>5. KeepsTerms(d) /\ KeepsTotals(d)
      BY <3>1, <3>4, RowKeeps DEF KeepsTerms, KeepsTotals
    <3>6. deal'[d].status \in {"EXPIRED", "PARTIALLY_COMPLETED"}
      BY <3>1, <3>4, SameTerms
    <3>7. KeepsMilestones(d)
      <4>. DEFINE closed == [ms[d] EXCEPT ![i].status = "EXPIRED"]
      <4>1. ms'[d] = CancelPending(closed)
        BY <2>1, <2>3 DEF ExpireActiveMilestone, TypeOK
      <4>2. \A j \in Slots : /\ closed[j].amount = ms[d][j].amount
                             /\ closed[j].release_amount = ms[d][j].release_amount
                             /\ closed[j].status = "COMPLETED" <=> ms[d][j].status = "COMPLETED"
                             /\ closed[j] \in MilestoneRow
        BY <2>3, <3>1 DEF StillOpen, MilestoneRow
      <4>. HIDE DEF closed
      <4>. QED
        BY <4>1, <4>2 DEF KeepsMilestones, CancelPending, MilestoneRow
    <3>8. Pay(d, Remaining(d), 0, 0) /\ Remaining(d) \in Nat
      BY <2>3, <3>1 DEF ExpireActiveMilestone, Remaining, DealRow
    <3>9. CutsShort(d, Remaining(d))
      BY <2>1, <2>3, <3>2, <3>3, <3>5, <3>6, <3>7, <3>8 DEF CutsShort, StillOpen, Open
    <3>. QED
      BY <2>1, <3>8, <3>9
  <2>4. CASE /\ StillOpen(t) /\ t.seen = "DELIVERED"
             /\ SettleMilestone(d, i, ms[d][i].amount)
    <3>1. ms[d][i].amount \in Nat
      BY <2>1 DEF TypeOK, MilestoneRow
    <3>. QED
      BY <1>6, <2>1, <2>4, <3>1 DEF StillOpen
  <2>. QED
    BY <1>16, <2>2, <2>3, <2>4 DEF ResolveMilestone
<1>17. CASE UNCHANGED vars
  BY <1>2, <1>17 DEF vars
<1>. QED
  BY <1>7, <1>8, <1>9, <1>10, <1>11, <1>12, <1>13, <1>14, <1>15, <1>16, <1>17 DEF Next, Sweep

(***************************************************************************)
(* What is outstanding                                                     *)
(***************************************************************************)

\* What each milestone still has to bring; its sum is Outstanding
Unpaid(d) ==
    [i \in Sequence(d) |-> IF ms[d][i].status = "COMPLETED" THEN 0 ELSE ms[d][i].amount]

\* While a list is open, what is outstanding is the sum of its unpaid milestones.
LEMMA UnpaidSum ==
    ASSUME NEW d \in Deals, IsMulti(d), deal[d].status \notin Settled
    PROVE  Outstanding(d) = SumFunctionOnSet(Unpaid(d), Sequence(d))
BY DEF Outstanding, Unpaid, SumFunction

\* A list is finite, and no milestone owes less than nothing.
LEMMA UnpaidType ==
    ASSUME TypeOK, NEW d \in Deals, Exists(d)
    PROVE  /\ IsFiniteSet(Sequence(d))
           /\ \A i \in Sequence(d) : Unpaid(d)[i] \in Nat
<1>1. deal[d].milestone_count \in Nat /\ Sequence(d) \subseteq Slots
  BY ListFits, OffersAssumption
<1>2. IsFiniteSet(Sequence(d))
  BY <1>1, FS_Interval DEF Sequence
<1>3. \A i \in Sequence(d) : ms[d][i] \in MilestoneRow
  BY <1>1 DEF TypeOK
<1>. QED
  BY <1>2, <1>3 DEF Unpaid, MilestoneRow

\* What is outstanding is never negative.
LEMMA OutstandingType ==
    ASSUME TypeOK, NEW d \in Deals, Exists(d)
    PROVE  Outstanding(d) \in Nat
<1>1. deal[d].amount \in Nat
  BY DEF TypeOK, Exists, NoDeal, DealRow
<1>2. CASE IsMulti(d) /\ deal[d].status \notin Settled
  BY <1>2, UnpaidSum, UnpaidType, SumNat
<1>. QED
  BY <1>1, <1>2 DEF Outstanding

\* An undisturbed deal has as much outstanding as before.
LEMMA OutstandingKept ==
    ASSUME TypeOK, NEW d \in Deals, Exists(d), Undisturbed(d)
    PROVE  /\ Outstanding(d)' = Outstanding(d)
           /\ CutShort(d)' <=> CutShort(d)
           /\ deal'[d].status \in Settled <=> deal[d].status \in Settled
<1>1. /\ deal'[d].amount = deal[d].amount /\ deal'[d].milestone_count = deal[d].milestone_count
      /\ Sequence(d)' = Sequence(d) /\ (IsMulti(d)' <=> IsMulti(d))
  BY DEF Undisturbed, KeepsTerms, Sequence, IsMulti
<1>2. /\ deal'[d].status \in Settled <=> deal[d].status \in Settled
      /\ deal'[d].status # deal[d].status =>
             deal'[d].status \notin Settled /\ deal[d].status \notin Settled
  BY DEF Undisturbed, Open, Settled
<1>3. Sequence(d) \subseteq Slots
  BY ListFits
<1>4. Unpaid(d)' = Unpaid(d)
  BY <1>1, <1>3 DEF Unpaid, Undisturbed, KeepsMilestones
<1>5. CASE IsMulti(d) /\ deal[d].status \notin Settled
  <2>1. Outstanding(d) = SumFunctionOnSet(Unpaid(d), Sequence(d))
    BY <1>5 DEF Outstanding, Unpaid, SumFunction
  <2>2. Outstanding(d)' = SumFunctionOnSet(Unpaid(d)', Sequence(d)')
    BY <1>1, <1>2, <1>5 DEF Outstanding, Unpaid, SumFunction
  <2>. QED
    BY <1>1, <1>2, <1>4, <2>1, <2>2 DEF CutShort, Settled
<1>6. CASE ~(IsMulti(d) /\ deal[d].status \notin Settled)
  BY <1>1, <1>2, <1>6 DEF Outstanding, CutShort, Settled
<1>. QED
  BY <1>5, <1>6

\* Settling a milestone takes its amount, and nothing else, off what is
\* outstanding; the deal is complete exactly when nothing is left.
LEMMA OutstandingPaid ==
    ASSUME TypeOK, NEW d \in Deals, NEW i \in Slots, NEW r \in Nat, PaysMilestone(d, i, r)
    PROVE  /\ Outstanding(d)' = Outstanding(d) - ms[d][i].amount
           /\ Exists(d)' /\ ~CutShort(d)' /\ deal'[d].status # "CREATED"
<1>. USE DEF PaysMilestone
<1>1. /\ deal[d].status \notin Settled
      /\ deal'[d].milestone_count = deal[d].milestone_count
      /\ deal'[d].status = IF IsLast(d, i) THEN "COMPLETED" ELSE "ACCEPTED"
      /\ \A j \in Slots : ms'[d][j].status = "COMPLETED" <=>
                              (j = i \/ ms[d][j].status = "COMPLETED")
  BY SettleEffect DEF Settled
<1>2. \A j \in Slots : ms'[d][j].amount = ms[d][j].amount
  BY SettleAmounts
<1>3. Sequence(d)' = Sequence(d) /\ Sequence(d) \subseteq Slots /\ IsMulti(d)'
  BY <1>1, ListFits DEF Sequence, IsMulti
<1>4. Outstanding(d) = SumFunctionOnSet(Unpaid(d), Sequence(d))
  BY <1>1, UnpaidSum
<1>5. /\ IsFiniteSet(Sequence(d))
      /\ \A j \in Sequence(d) : Unpaid(d)[j] \in Nat
  BY UnpaidType
<1>6. Unpaid(d)[i] = ms[d][i].amount /\ ms[d][i].amount \in Int
  BY <1>5 DEF Unpaid
<1>7. CASE IsLast(d, i)
  <2>1. \A j \in Sequence(d) : j # i => Unpaid(d)[j] = 0
    BY <1>7 DEF IsLast, Unpaid
  <2>2. SumFunctionOnSet(Unpaid(d), Sequence(d)) = Unpaid(d)[i]
    BY <1>5, <1>6, <2>1, SumSingle
  <2>3. Outstanding(d)' = 0
    BY <1>1, <1>7 DEF Outstanding, Settled
  <2>. QED
    BY <1>1, <1>4, <1>6, <1>7, <2>2, <2>3 DEF Exists, CutShort
<1>8. CASE ~IsLast(d, i)
  <2>. DEFINE new == [j \in Sequence(d) |-> IF ms'[d][j].status = "COMPLETED"
                                            THEN 0 ELSE ms'[d][j].amount]
  <2>1. Outstanding(d)' = SumFunctionOnSet(new, Sequence(d))
    BY <1>1, <1>3, <1>8 DEF Outstanding, Settled, SumFunction
  <2>2. new[i] = 0 /\ \A j \in Sequence(d) : j # i => new[j] = Unpaid(d)[j]
    BY <1>1, <1>2, <1>3 DEF Unpaid
  <2>3. \A j \in Sequence(d) : new[j] \in Int
    BY <1>5, <2>2
  <2>. HIDE DEF new
  <2>4. SumFunctionOnSet(new, Sequence(d))
          = SumFunctionOnSet(Unpaid(d), Sequence(d)) - Unpaid(d)[i] + new[i]
    BY <1>5, <2>2, <2>3, SumChange
  <2>5. SumFunctionOnSet(Unpaid(d), Sequence(d)) \in Int
    BY <1>5, SumType
  <2>. QED
    BY <1>1, <1>4, <1>6, <1>8, <2>1, <2>2, <2>4, <2>5 DEF Exists, CutShort
<1>. QED
  BY <1>7, <1>8

(***************************************************************************)
(* What is held                                                            *)
(***************************************************************************)

\* A payment hands out its three parts, of this deal and no other.
LEMMA PayAdds ==
    ASSUME TypeOK, NEW d \in Deals, NEW b \in Nat, NEW s \in Nat, NEW f \in Nat,
           Pay(d, b, s, f)
    PROVE  /\ paid'[d].buyer = paid[d].buyer + b
           /\ paid'[d].seller = paid[d].seller + s
           /\ fees'[d] = fees[d] + f
           /\ \A e \in Deals : e # d => paid'[e] = paid[e] /\ fees'[e] = fees[e]
BY DEF Pay, TypeOK

\* What a deal has paid and charged are natural numbers, what is held an integer.
LEMMA LedgerTypes ==
    ASSUME TypeOK, NEW d \in Deals
    PROVE  /\ paid[d].buyer \in Nat /\ paid[d].seller \in Nat /\ fees[d] \in Nat
           /\ Exists(d) => deal[d].amount \in Nat /\ Held(d) \in Int
<1>1. /\ paid[d].buyer \in Nat /\ paid[d].seller \in Nat /\ fees[d] \in Nat
  BY DEF TypeOK
<1>2. Exists(d) => deal[d].amount \in Nat
  BY DEF TypeOK, Exists, NoDeal, DealRow
<1>. QED
  BY <1>1, <1>2 DEF Held

\* The hub holds what is outstanding of the deal, less what was taken from it
\* when it was created (0 but for a multisig deal, see EscrowOrders)
HeldInv(d, upfront) ==
    Exists(d) /\ ~CutShort(d) =>
        /\ Held(d) = Outstanding(d) - upfront
        /\ deal[d].status = "CREATED" => Outstanding(d) = deal[d].amount

\* Every step keeps what is held of a deal in line with what is outstanding of it.
LEMMA HeldStep ==
    ASSUME TypeOK, OrderInv, [Next]_vars, NEW d \in Deals, Exists(d),
           NEW upfront \in Nat, HeldInv(d, upfront)
    PROVE  Exists(d)' /\ deal'[d].amount = deal[d].amount /\ HeldInv(d, upfront)'
<1>. DEFINE Goal == Exists(d)' /\ deal'[d].amount = deal[d].amount /\ HeldInv(d, upfront)'
<1>0. /\ paid[d].buyer \in Nat /\ paid[d].seller \in Nat /\ fees[d] \in Nat
      /\ deal[d].amount \in Nat /\ Outstanding(d) \in Nat
  BY LedgerTypes, OutstandingType
<1>1. ASSUME Undisturbed(d), paid'[d] = paid[d], fees'[d] = fees[d] PROVE Goal
  <2>1. /\ Outstanding(d)' = Outstanding(d)
        /\ CutShort(d)' <=> CutShort(d)
    BY <1>1, OutstandingKept
  <2>2. /\ deal'[d].amount = deal[d].amount /\ Exists(d)'
        /\ deal'[d].status = "CREATED" => deal[d].status = "CREATED"
    BY <1>1 DEF Undisturbed, KeepsTerms
  <2>. QED
    BY <1>1, <2>1, <2>2 DEF HeldInv, Held
<1>2. ASSUME NEW e \in Deals, e # d, Elsewhere(e), NEW b \in Nat, NEW s \in Nat, NEW f \in Nat,
             Pay(e, b, s, f)
      PROVE  Goal
  <2>1. deal'[d] = deal[d] /\ ms'[d] = ms[d] /\ paid'[d] = paid[d] /\ fees'[d] = fees[d]
    BY <1>2, PayAdds DEF Elsewhere
  <2>2. Undisturbed(d)
    BY <2>1 DEF Undisturbed, Exists, KeepsTerms, KeepsTotals, KeepsMilestones
  <2>. QED
    BY <1>1, <2>1, <2>2
<1>3. CASE UNCHANGED <<balance, fees, paid>> /\ \A e \in Deals : Undisturbed(e)
  BY <1>1, <1>3
<1>4. ASSUME NEW e \in Deals, NEW o \in Offers, CreateEscrow(e, o) PROVE Goal
  <2>1. deal'[d] = deal[d] /\ ms'[d] = ms[d] /\ paid'[d] = paid[d] /\ fees'[d] = fees[d]
    BY <1>4 DEF CreateEscrow, TypeOK, Exists, NoDeal
  <2>2. Undisturbed(d)
    BY <2>1 DEF Undisturbed, Exists, KeepsTerms, KeepsTotals, KeepsMilestones
  <2>. QED
    BY <1>1, <2>1, <2>2
<1>5. ASSUME NEW e \in Deals, NEW b \in Nat, NEW s \in Nat, NEW f \in Nat, Closes(e, b, s, f)
      PROVE  Goal
  <2>1. CASE e # d
    BY <1>2, <1>5, <2>1 DEF Closes
  <2>2. CASE e = d
    <3>1. /\ deal'[d].amount = deal[d].amount /\ Exists(d)' /\ ~CutShort(d)
          /\ deal'[d].status \in Settled /\ deal[d].status \notin Settled
      BY <1>5, <2>2 DEF Closes, KeepsTerms, Settled, Open, Exists, CutShort
    <3>2. /\ paid'[d].buyer = paid[d].buyer + b /\ paid'[d].seller = paid[d].seller + s
          /\ fees'[d] = fees[d] + f /\ b + s + f = deal[d].amount
      BY <1>5, <2>2, PayAdds DEF Closes
    <3>3. Outstanding(d)' = 0
      BY <3>1 DEF Outstanding
    <3>4. Outstanding(d) = deal[d].amount
      BY <1>5, <2>2, <3>1 DEF Closes, HeldInv, Outstanding
    <3>5. Held(d) = Outstanding(d) - upfront
      BY <3>1 DEF HeldInv
    <3>6. Held(d)' = Held(d) - deal[d].amount
      BY <1>0, <3>1, <3>2 DEF Held
    <3>7. Held(d)' = Outstanding(d)' - upfront
      BY <1>0, <3>3, <3>4, <3>5, <3>6
    <3>8. deal'[d].status # "CREATED"
      BY <3>1 DEF Settled
    <3>. QED
      BY <3>1, <3>7, <3>8 DEF HeldInv
  <2>. QED
    BY <2>1, <2>2
<1>6. ASSUME NEW e \in Deals, NEW b \in Nat, CutsShort(e, b) PROVE Goal
  <2>1. CASE e # d
    BY <1>2, <1>6, <2>1 DEF CutsShort
  <2>2. CASE e = d
    BY <1>6, <2>2 DEF CutsShort, HeldInv, CutShort, KeepsTerms, IsMulti, Exists
  <2>. QED
    BY <2>1, <2>2
<1>7. ASSUME NEW e \in Deals, NEW i \in Slots, NEW r \in Nat, PaysMilestone(e, i, r) PROVE Goal
  <2>1. /\ Fee(r) \in Nat /\ SellerShare(r) \in Nat /\ SellerShare(r) + Fee(r) = r
        /\ ms[e][i].amount \in Nat /\ ms[e][i].amount - r \in Nat
    <3>1. ms[e][i] \in MilestoneRow
      BY DEF TypeOK
    <3>2. ms[e][i].amount \in Nat
      BY <3>1 DEF MilestoneRow
    <3>3. r <= ms[e][i].amount
      BY <1>7 DEF PaysMilestone
    <3>4. ms[e][i].amount - r \in Nat
      BY <3>2, <3>3
    <3>. QED
      BY <3>2, <3>4, FeeType
  <2>2. Pay(e, ms[e][i].amount - r, SellerShare(r), Fee(r))
    BY <1>7 DEF PaysMilestone, SettleMilestone
  <2>3. CASE e # d
    BY <1>2, <1>7, <2>1, <2>2, <2>3 DEF PaysMilestone
  <2>4. CASE e = d
    <3>1. ~CutShort(d) /\ deal'[d].amount = deal[d].amount
      BY <1>7, <2>4, SettleAmounts DEF PaysMilestone, CutShort, KeepsTerms
    <3>2. /\ Outstanding(d)' = Outstanding(d) - ms[d][i].amount
          /\ Exists(d)' /\ ~CutShort(d)' /\ deal'[d].status # "CREATED"
      BY <1>7, <2>4, OutstandingPaid
    <3>3. /\ paid'[d].buyer = paid[d].buyer + (ms[d][i].amount - r)
          /\ paid'[d].seller = paid[d].seller + SellerShare(r)
          /\ fees'[d] = fees[d] + Fee(r)
      BY <2>1, <2>2, <2>4, PayAdds
    <3>4. Held(d)' = Held(d) - ms[d][i].amount
      <4>1. Held(d)' = deal[d].amount - (paid[d].buyer + (ms[d][i].amount - r))
                           - (paid[d].seller + SellerShare(r)) - (fees[d] + Fee(r))
        BY <3>1, <3>3 DEF Held
      <4>2. ms[d][i].amount \in Nat
        BY <2>1, <2>4
      <4>3. /\ Fee(r) \in Nat /\ SellerShare(r) \in Nat /\ SellerShare(r) + Fee(r) = r
        BY <2>1
      <4>4. Held(d) = deal[d].amount - paid[d].buyer - paid[d].seller - fees[d]
        BY DEF Held
      <4>. QED
        BY <1>0, <4>1, <4>2, <4>3, <4>4
    <3>5. Held(d) = Outstanding(d) - upfront
      BY <3>1 DEF HeldInv
    <3>6. Held(d)' = Outstanding(d)' - upfront
      BY <1>0, <2>1, <2>4, <3>2, <3>4, <3>5
    <3>. QED
      BY <3>1, <3>2, <3>6 DEF HeldInv
  <2>. QED
    BY <2>3, <2>4
<1>. QED
  BY <1>3, <1>4, <1>5, <1>6, <1>7, MoneySteps

\* What a deal that does not exist has paid: nothing
Unfunded(d) == ~Exists(d) => paid[d].buyer = 0 /\ paid[d].seller = 0 /\ fees[d] = 0

\* A new deal is owed in full, whether its amount is one sum or a list.
LEMMA CreationOwes ==
    ASSUME TypeOK, NEW d \in Deals, NEW o \in Bodies, CreateEscrow(d, o)
    PROVE  /\ ~Exists(d) /\ Exists(d)' /\ ~CutShort(d)' /\ Elsewhere(d)
           /\ deal'[d] = Row(o) /\ ms'[d] = MilestoneRows(o)
           /\ deal'[d].amount = o.amount /\ Outstanding(d)' = o.amount /\ o.amount \in Nat
           /\ o.buyer \in Agents /\ balance[o.buyer] >= o.amount
           /\ balance' = [balance EXCEPT ![o.buyer] = @ - o.amount]
           /\ paid' = paid /\ fees' = fees
<1>1. /\ ~Exists(d) /\ Elsewhere(d) /\ deal'[d] = Row(o) /\ ms'[d] = MilestoneRows(o)
      /\ balance[o.buyer] >= o.amount
      /\ balance' = [balance EXCEPT ![o.buyer] = @ - o.amount]
      /\ paid' = paid /\ fees' = fees
  BY DEF CreateEscrow, TypeOK, Exists, NoDeal, Elsewhere
<1>2. /\ o.buyer \in Agents /\ o.amount \in Nat /\ o.milestones \in Seq(Nat \ {0})
      /\ Len(o.milestones) \in 0..MaxMilestones
  BY DEF Bodies
<1>3. /\ deal'[d].status = "CREATED" /\ deal'[d].amount = o.amount
      /\ deal'[d].milestone_count = Len(o.milestones)
  BY <1>1 DEF Row
<1>4. Exists(d)' /\ ~CutShort(d)'
  BY <1>3 DEF Exists, CutShort
<1>5. Outstanding(d)' = o.amount
  <2>1. CASE Len(o.milestones) > 0
    <3>. DEFINE unpaid == [i \in 1..Len(o.milestones) |->
                              IF ms'[d][i].status = "COMPLETED" THEN 0 ELSE ms'[d][i].amount]
    <3>1. Outstanding(d)' = SumFunction(unpaid)
      BY <1>3, <2>1 DEF Outstanding, Settled, IsMulti, Sequence
    <3>2. \A i \in 1..Len(o.milestones) : unpaid[i] = o.milestones[i]
      <4>. SUFFICES ASSUME NEW i \in 1..Len(o.milestones) PROVE unpaid[i] = o.milestones[i]
        OBVIOUS
      <4>1. i \in Slots
        BY <1>2, OffersAssumption DEF Slots
      <4>2. ms'[d][i] = [NoMilestone EXCEPT !.status = "PENDING", !.amount = o.milestones[i]]
        <5>1. i <= Len(o.milestones)
          OBVIOUS
        <5>2. ms'[d] = MilestoneRows(o)
          BY <1>1
        <5>. QED
          BY <4>1, <5>1, <5>2 DEF MilestoneRows
      <4>3. ms'[d][i].status = "PENDING" /\ ms'[d][i].amount = o.milestones[i]
        BY <4>2 DEF NoMilestone
      <4>. QED
        BY <4>3
    <3>3. unpaid = o.milestones
      <4>1. o.milestones = [i \in 1..Len(o.milestones) |-> o.milestones[i]]
        BY <1>2
      <4>2. unpaid = [i \in 1..Len(o.milestones) |-> unpaid[i]]
        OBVIOUS
      <4>. HIDE DEF unpaid
      <4>. QED
        BY <3>2, <4>1, <4>2
    <3>4. SumFunction(o.milestones) = o.amount
      BY <2>1 DEF CreateEscrow, Valid
    <3>. QED
      BY <3>1, <3>3, <3>4
  <2>2. CASE ~(Len(o.milestones) > 0)
    BY <1>3, <2>2 DEF Outstanding, Settled, IsMulti
  <2>. QED
    BY <2>1, <2>2
<1>. QED
  BY <1>1, <1>2, <1>3, <1>4, <1>5

\* Nothing is paid for a deal before it is created.
LEMMA UnfundedStep ==
    ASSUME TypeOK, OrderInv, [Next]_vars, NEW d \in Deals, Unfunded(d)
    PROVE  Unfunded(d)'
<1>1. ASSUME NEW e \in Deals, Elsewhere(e), Exists(e), Exists(e)',
             NEW b \in Nat, NEW s \in Nat, NEW f \in Nat, Pay(e, b, s, f)
      PROVE  Unfunded(d)'
  BY <1>1, PayAdds DEF Unfunded, Elsewhere, Exists
<1>2. CASE UNCHANGED <<balance, fees, paid>> /\ \A e \in Deals : Undisturbed(e)
  BY <1>2 DEF Unfunded, Undisturbed
<1>3. ASSUME NEW e \in Deals, NEW o \in Offers, CreateEscrow(e, o) PROVE Unfunded(d)'
  <2>1. o \in Bodies
    BY OffersAreBodies
  <2>2. Exists(e)' /\ Elsewhere(e) /\ paid' = paid /\ fees' = fees
    BY <1>3, <2>1, CreationOwes
  <2>. QED
    BY <2>2 DEF Unfunded, Elsewhere, Exists
<1>4. ASSUME NEW e \in Deals, NEW b \in Nat, NEW s \in Nat, NEW f \in Nat, Closes(e, b, s, f)
      PROVE  Unfunded(d)'
  BY <1>1, <1>4 DEF Closes, Exists, Settled
<1>5. ASSUME NEW e \in Deals, NEW b \in Nat, CutsShort(e, b) PROVE Unfunded(d)'
  <2>1. Exists(e)' /\ Exists(e) /\ Elsewhere(e) /\ Pay(e, b, 0, 0)
    BY <1>5 DEF CutsShort, Exists
  <2>. QED
    BY <1>1, <2>1
<1>6. ASSUME NEW e \in Deals, NEW i \in Slots, NEW r \in Nat, PaysMilestone(e, i, r)
      PROVE  Unfunded(d)'
  <2>1. Exists(e)'
    BY <1>6, OutstandingPaid
  <2>2. (deal'[d] = deal[d] /\ paid'[d] = paid[d] /\ fees'[d] = fees[d]) \/ d = e
    BY <1>6, SettleElsewhere DEF PaysMilestone
  <2>. QED
    BY <2>1, <2>2 DEF Unfunded, Exists
<1>. QED
  BY <1>2, <1>3, <1>4, <1>5, <1>6, MoneySteps

MoneyInv == \A d \in Deals : HeldInv(d, 0) /\ Unfunded(d)

\* What holds of a new deal, and what its creation leaves of the others.
LEMMA CreationHeld ==
    ASSUME TypeOK, NEW d \in Deals, NEW o \in Bodies, CreateEscrow(d, o), Unfunded(d)
    PROVE  HeldInv(d, 0)' /\ Unfunded(d)'
<1>1. /\ ~Exists(d) /\ Exists(d)' /\ deal'[d].amount = o.amount
      /\ Outstanding(d)' = o.amount /\ o.amount \in Nat /\ paid' = paid /\ fees' = fees
  BY CreationOwes
<1>2. paid[d].buyer = 0 /\ paid[d].seller = 0 /\ fees[d] = 0
  BY <1>1 DEF Unfunded
<1>3. Held(d)' = Outstanding(d)' - 0
  BY <1>1, <1>2 DEF Held
<1>. QED
  BY <1>1, <1>3 DEF HeldInv, Unfunded

\* Whatever step a deal appears in, it is held in full.
LEMMA CreatedHeld ==
    ASSUME TypeOK, OrderInv, [Next]_vars, NEW d \in Deals, ~Exists(d), Unfunded(d)
    PROVE  HeldInv(d, 0)'
<1>1. CASE ~Exists(d)'
  BY <1>1 DEF HeldInv
<1>2. CASE Exists(d)'
  <2>1. ASSUME NEW e \in Deals, Elsewhere(e), Exists(e) PROVE FALSE
    BY <1>2, <2>1 DEF Elsewhere, Exists
  <2>2. PICK e \in Deals, o \in Offers : CreateEscrow(e, o)
    BY <1>2, <2>1, MoneySteps DEF Undisturbed, Closes, CutsShort, PaysMilestone
  <2>3. e = d
    <3>1. Elsewhere(e)
      BY <2>2, CreationOwes, OffersAreBodies
    <3>. QED
      BY <1>2, <3>1 DEF Elsewhere, Exists
  <2>. QED
    BY <2>2, <2>3, CreationHeld, OffersAreBodies
<1>. QED
  BY <1>1, <1>2

\* Every step keeps what is held in line with what is owed.
LEMMA MoneyStep == TypeOK /\ OrderInv /\ MoneyInv /\ [Next]_vars => MoneyInv'
<1>. SUFFICES ASSUME TypeOK, OrderInv, MoneyInv, [Next]_vars, NEW d \in Deals
              PROVE  HeldInv(d, 0)' /\ Unfunded(d)'
  BY DEF MoneyInv
<1>1. Unfunded(d)'
  BY UnfundedStep DEF MoneyInv
<1>2. CASE Exists(d)
  BY <1>1, <1>2, HeldStep DEF MoneyInv
<1>3. CASE ~Exists(d)
  BY <1>1, <1>3, CreatedHeld DEF MoneyInv
<1>. QED
  BY <1>2, <1>3

\* It is so at every moment.
LEMMA MoneyHolds == Spec => []MoneyInv
<1>1. Init => MoneyInv
  BY DEF Init, MoneyInv, HeldInv, Unfunded, Exists, NoDeal
<1>. QED
  BY <1>1, MoneyStep, TypeCorrect, OrderHolds, PTL DEF Spec

\* The hub holds exactly the unpaid part of every deal, single or in
\* milestones, whichever requests and expiry passes interleave.
THEOREM HeldIsOutstanding == Spec => []HoldsWhatIsOutstanding
<1>1. TypeOK /\ MoneyInv => HoldsWhatIsOutstanding
  <2>. SUFFICES ASSUME TypeOK, MoneyInv, NEW d \in Deals, Exists(d), ~CutShort(d)
                PROVE  Held(d) = Outstanding(d)
    BY DEF HoldsWhatIsOutstanding
  <2>1. Outstanding(d) \in Nat
    BY OutstandingType
  <2>. QED
    BY <2>1 DEF MoneyInv, HeldInv
<1>. QED
  BY <1>1, MoneyHolds, TypeCorrect, PTL

(***************************************************************************)
(* The deal's totals                                                       *)
(***************************************************************************)

\* What each milestone has released; total_released is its sum
Releases(d) == [i \in Sequence(d) |-> ms[d][i].release_amount]

\* The inductive form of TotalsMatchMilestones: it adds what is recorded of a
\* deal before it is completed, and that a milestone has released nothing
\* before it is.
TotalsInv(d) ==
    Exists(d) =>
        /\ IsMulti(d) =>
               /\ deal[d].total_released = SumFunctionOnSet(Releases(d), Sequence(d))
               /\ deal[d].total_fees = fees[d]
               /\ paid[d].seller = deal[d].total_released - deal[d].total_fees
               /\ \A i \in Sequence(d) : ms[d][i].status # "COMPLETED" =>
                                             ms[d][i].release_amount = 0
        /\ ~IsMulti(d) /\ deal[d].status \in Open => fees[d] = 0 /\ paid[d].seller = 0
        /\ deal[d].status = "COMPLETED" =>
               /\ deal[d].fee_amount = fees[d]
               /\ paid[d].seller = deal[d].release_amount - deal[d].fee_amount

\* A deal whose totals, milestones and payments stay as they are.
LEMMA TotalsKept ==
    ASSUME TypeOK, NEW d \in Deals, Exists(d), TotalsInv(d),
           KeepsTerms(d), KeepsTotals(d), KeepsMilestones(d),
           paid'[d].seller = paid[d].seller, fees'[d] = fees[d],
           deal'[d].status \in Open => deal[d].status \in Open,
           deal'[d].status = "COMPLETED" =>
               /\ deal[d].status = "COMPLETED"
               /\ deal'[d].fee_amount = deal[d].fee_amount
               /\ deal'[d].release_amount = deal[d].release_amount
    PROVE  TotalsInv(d)'
<1>1. Sequence(d)' = Sequence(d) /\ Sequence(d) \subseteq Slots /\ (IsMulti(d)' <=> IsMulti(d))
  BY ListFits DEF KeepsTerms, Sequence, IsMulti
<1>2. Releases(d)' = Releases(d)
  BY <1>1 DEF Releases, KeepsMilestones
<1>3. \A i \in Sequence(d) : /\ ms'[d][i].release_amount = ms[d][i].release_amount
                             /\ ms'[d][i].status # "COMPLETED" => ms[d][i].status # "COMPLETED"
  BY <1>1 DEF KeepsMilestones
<1>4. /\ deal'[d].total_released = deal[d].total_released
      /\ deal'[d].total_fees = deal[d].total_fees
  BY DEF KeepsTotals
<1>. QED
  BY <1>1, <1>2, <1>3, <1>4 DEF TotalsInv

\* A settled milestone adds what it releases, and its fee, to the totals.
LEMMA TotalsPaid ==
    ASSUME TypeOK, NEW d \in Deals, NEW i \in Slots, NEW r \in Nat, PaysMilestone(d, i, r),
           TotalsInv(d)
    PROVE  TotalsInv(d)'
<1>. USE DEF PaysMilestone
<1>1. /\ deal'[d].milestone_count = deal[d].milestone_count
      /\ deal'[d].status = IF IsLast(d, i) THEN "COMPLETED" ELSE "ACCEPTED"
      /\ \A j \in Slots : ms'[d][j].status = "COMPLETED" <=>
                              (j = i \/ ms[d][j].status = "COMPLETED")
  BY SettleEffect
<1>2. /\ deal'[d].total_released = deal[d].total_released + r
      /\ deal'[d].total_fees = deal[d].total_fees + Fee(r)
      /\ IsLast(d, i) => /\ deal'[d].release_amount = deal'[d].total_released
                         /\ deal'[d].fee_amount = deal'[d].total_fees
      /\ \A j \in Slots : ms'[d][j].release_amount = IF j = i THEN r ELSE ms[d][j].release_amount
  BY SettleAmounts
<1>3. Sequence(d)' = Sequence(d) /\ Sequence(d) \subseteq Slots /\ IsMulti(d)'
  BY <1>1, ListFits DEF Sequence, IsMulti
<1>4. deal[d].total_released \in Nat /\ deal[d].total_fees \in Nat
  BY DEF TypeOK, Exists, NoDeal, DealRow
<1>5. /\ deal[d].total_released = SumFunctionOnSet(Releases(d), Sequence(d))
      /\ deal[d].total_fees = fees[d]
      /\ paid[d].seller = deal[d].total_released - deal[d].total_fees
      /\ \A j \in Sequence(d) : ms[d][j].status # "COMPLETED" => ms[d][j].release_amount = 0
  BY DEF TotalsInv
<1>6. /\ Fee(r) \in Nat /\ SellerShare(r) \in Nat /\ SellerShare(r) + Fee(r) = r
      /\ ms[d][i].amount - r \in Nat
  <2>1. ms[d][i] \in MilestoneRow
    BY DEF TypeOK
  <2>2. ms[d][i].amount \in Nat
    BY <2>1 DEF MilestoneRow
  <2>3. ms[d][i].amount - r \in Nat
    BY <2>2
  <2>. QED
    BY <2>3, FeeType
<1>7. paid'[d].seller = paid[d].seller + SellerShare(r) /\ fees'[d] = fees[d] + Fee(r)
  <2>1. Pay(d, ms[d][i].amount - r, SellerShare(r), Fee(r))
    BY DEF SettleMilestone
  <2>. QED
    BY <1>6, <2>1, PayAdds
<1>8. deal'[d].total_released = SumFunctionOnSet(Releases(d)', Sequence(d)')
  <2>. DEFINE new == [j \in Sequence(d) |-> ms'[d][j].release_amount]
  <2>1. Releases(d)' = new
    BY <1>3 DEF Releases
  <2>2. \A j \in Sequence(d) : Releases(d)[j] \in Int /\ new[j] \in Int
    BY <1>2, <1>3 DEF Releases, TypeOK, MilestoneRow
  <2>3. \A j \in Sequence(d) : j # i => new[j] = Releases(d)[j]
    BY <1>2, <1>3 DEF Releases
  <2>4. new[i] = r /\ Releases(d)[i] = 0
    BY <1>2, <1>3, <1>5 DEF Releases
  <2>5. IsFiniteSet(Sequence(d))
    BY UnpaidType
  <2>. HIDE DEF new
  <2>6. SumFunctionOnSet(new, Sequence(d))
          = SumFunctionOnSet(Releases(d), Sequence(d)) - Releases(d)[i] + new[i]
    BY <2>2, <2>3, <2>5, SumChange
  <2>. QED
    BY <1>2, <1>3, <1>4, <1>5, <2>1, <2>4, <2>6
<1>9. \A j \in Sequence(d)' : ms'[d][j].status # "COMPLETED" => ms'[d][j].release_amount = 0
  BY <1>1, <1>2, <1>3, <1>5
<1>10. /\ deal'[d].total_fees = fees'[d]
       /\ paid'[d].seller = deal'[d].total_released - deal'[d].total_fees
  <2>1. SellerShare(r) = r - Fee(r)
    BY <1>6
  <2>2. paid'[d].seller = (deal[d].total_released - deal[d].total_fees) + (r - Fee(r))
    BY <1>5, <1>7, <2>1
  <2>. QED
    BY <1>2, <1>4, <1>5, <1>6, <1>7, <2>2
<1>. QED
  BY <1>1, <1>2, <1>3, <1>8, <1>9, <1>10 DEF TotalsInv

\* A new deal starts with empty totals.
LEMMA TotalsCreated ==
    ASSUME TypeOK, NEW d \in Deals, NEW o \in Bodies, CreateEscrow(d, o), Unfunded(d)
    PROVE  TotalsInv(d)'
<1>1. /\ deal'[d] = Row(o) /\ ms'[d] = MilestoneRows(o) /\ paid' = paid /\ fees' = fees
      /\ ~Exists(d)
  BY CreationOwes
<1>2. /\ deal'[d].status = "CREATED" /\ deal'[d].milestone_count = Len(o.milestones)
      /\ deal'[d].total_released = 0 /\ deal'[d].total_fees = 0
  BY <1>1 DEF Row
<1>3. paid'[d].seller = 0 /\ fees'[d] = 0
  BY <1>1 DEF Unfunded
<1>4. Len(o.milestones) \in 0..MaxMilestones
  BY DEF Bodies
<1>5. Sequence(d)' = 1..Len(o.milestones) /\ 1..Len(o.milestones) \subseteq Slots
  BY <1>2, <1>4, OffersAssumption DEF Sequence, Slots
<1>6. \A i \in Slots : ms'[d][i].release_amount = 0
  <2>1. \A a : [NoMilestone EXCEPT !.status = "PENDING", !.amount = a].release_amount = 0
    BY DEF NoMilestone
  <2>2. NoMilestone.release_amount = 0
    BY DEF NoMilestone
  <2>. SUFFICES ASSUME NEW i \in Slots PROVE ms'[d][i].release_amount = 0
    OBVIOUS
  <2>3. ms'[d][i] = IF i <= Len(o.milestones)
                    THEN [NoMilestone EXCEPT !.status = "PENDING", !.amount = o.milestones[i]]
                    ELSE NoMilestone
    BY <1>1 DEF MilestoneRows
  <2>. QED
    BY <2>1, <2>2, <2>3
<1>7. SumFunctionOnSet(Releases(d)', Sequence(d)') = 0
  <2>1. IsFiniteSet(Sequence(d)')
    BY <1>4, <1>5, FS_Interval
  <2>2. \A i \in Sequence(d)' : Releases(d)'[i] = 0
    BY <1>5, <1>6 DEF Releases
  <2>. QED
    BY <2>1, <2>2, SumZero
<1>. QED
  BY <1>2, <1>3, <1>5, <1>6, <1>7 DEF TotalsInv

TotalsHold == \A d \in Deals : TotalsInv(d)

\* Every step keeps the totals in line with the milestones and the ledger.
LEMMA TotalsStep == TypeOK /\ OrderInv /\ MoneyInv /\ TotalsHold /\ [Next]_vars => TotalsHold'
<1>. SUFFICES ASSUME TypeOK, OrderInv, MoneyInv, TotalsHold, [Next]_vars, NEW d \in Deals
              PROVE  TotalsInv(d)'
  BY DEF TotalsHold
<1>0. TotalsInv(d) /\ Unfunded(d)
  BY DEF TotalsHold, MoneyInv
<1>1. ASSUME Undisturbed(d), paid'[d] = paid[d], fees'[d] = fees[d] PROVE TotalsInv(d)'
  <2>1. CASE Exists(d)
    <3>1. /\ deal'[d].status \in Open => deal[d].status \in Open
          /\ deal'[d].status = "COMPLETED" => deal[d].status = "COMPLETED"
      BY <1>1, <2>1 DEF Undisturbed, Open
    <3>. QED
      BY <1>0, <1>1, <2>1, <3>1, TotalsKept DEF Undisturbed
  <2>2. CASE ~Exists(d)
    BY <1>1, <2>2 DEF TotalsInv, Undisturbed
  <2>. QED
    BY <2>1, <2>2
<1>2. ASSUME NEW e \in Deals, e # d, Elsewhere(e), paid'[d] = paid[d], fees'[d] = fees[d]
      PROVE  TotalsInv(d)'
  <2>1. Undisturbed(d)
    BY <1>2 DEF Elsewhere, Undisturbed, Exists, KeepsTerms, KeepsTotals, KeepsMilestones
  <2>. QED
    BY <1>1, <1>2, <2>1
<1>3. CASE UNCHANGED <<balance, fees, paid>> /\ \A e \in Deals : Undisturbed(e)
  BY <1>1, <1>3
<1>4. ASSUME NEW e \in Deals, NEW o \in Offers, CreateEscrow(e, o) PROVE TotalsInv(d)'
  <2>1. o \in Bodies
    BY OffersAreBodies
  <2>2. CASE e = d
    BY <1>0, <1>4, <2>1, <2>2, TotalsCreated
  <2>3. CASE e # d
    <3>1. Elsewhere(e) /\ paid' = paid /\ fees' = fees
      BY <1>4, <2>1, CreationOwes
    <3>. QED
      BY <1>2, <2>3, <3>1
  <2>. QED
    BY <2>2, <2>3
<1>5. ASSUME NEW e \in Deals, NEW b \in Nat, NEW s \in Nat, NEW f \in Nat, Closes(e, b, s, f)
      PROVE  TotalsInv(d)'
  <2>1. /\ Elsewhere(e) /\ Exists(e)
        /\ paid'[e].seller = paid[e].seller + s /\ fees'[e] = fees[e] + f
        /\ \A x \in Deals : x # e => paid'[x] = paid[x] /\ fees'[x] = fees[x]
    BY <1>5, PayAdds DEF Closes
  <2>2. CASE e # d
    BY <1>2, <2>1, <2>2
  <2>3. CASE e = d /\ IsMulti(d)
    <3>1. s = 0 /\ f = 0 /\ deal'[d].status = "CANCELLED"
      BY <1>5, <2>3 DEF Closes
    <3>2. paid'[d].seller = paid[d].seller /\ fees'[d] = fees[d]
      BY <2>1, <2>3, <3>1, LedgerTypes
    <3>. QED
      BY <1>0, <1>5, <2>3, <3>1, <3>2, TotalsKept DEF Closes, Open
  <2>4. CASE e = d /\ ~IsMulti(d)
    <3>1. /\ ~IsMulti(d)' /\ deal[d].status \in Open /\ deal'[d].status \notin Open
          /\ deal'[d].status = "COMPLETED" =>
                 deal'[d].fee_amount = f /\ deal'[d].release_amount = s + f
      BY <1>5, <2>4 DEF Closes, KeepsTerms, IsMulti, Open, Settled
    <3>2. fees[d] = 0 /\ paid[d].seller = 0
      BY <1>0, <2>1, <2>4, <3>1 DEF TotalsInv
    <3>3. fees'[d] = f /\ paid'[d].seller = s
      BY <2>1, <2>4, <3>2
    <3>4. s = (s + f) - f
      OBVIOUS
    <3>. QED
      BY <3>1, <3>3, <3>4 DEF TotalsInv
  <2>. QED
    BY <2>2, <2>3, <2>4
<1>6. ASSUME NEW e \in Deals, NEW b \in Nat, CutsShort(e, b) PROVE TotalsInv(d)'
  <2>1. /\ Elsewhere(e) /\ Exists(e)
        /\ paid'[e].seller = paid[e].seller + 0 /\ fees'[e] = fees[e] + 0
        /\ \A x \in Deals : x # e => paid'[x] = paid[x] /\ fees'[x] = fees[x]
    <3>1. Elsewhere(e) /\ Exists(e) /\ Pay(e, b, 0, 0)
      BY <1>6 DEF CutsShort
    <3>. QED
      BY <3>1, PayAdds
  <2>2. CASE e # d
    BY <1>2, <2>1, <2>2
  <2>3. CASE e = d
    <3>1. paid'[d].seller = paid[d].seller /\ fees'[d] = fees[d]
      BY <2>1, <2>3, LedgerTypes
    <3>. QED
      BY <1>0, <1>6, <2>3, <3>1, TotalsKept DEF CutsShort, Open
  <2>. QED
    BY <2>2, <2>3
<1>7. ASSUME NEW e \in Deals, NEW i \in Slots, NEW r \in Nat, PaysMilestone(e, i, r)
      PROVE  TotalsInv(d)'
  <2>1. CASE e = d
    BY <1>0, <1>7, <2>1, TotalsPaid
  <2>2. CASE e # d
    <3>1. Elsewhere(e) /\ paid'[d] = paid[d] /\ fees'[d] = fees[d]
      BY <1>7, <2>2, SettleElsewhere DEF PaysMilestone
    <3>. QED
      BY <1>2, <2>2, <3>1
  <2>. QED
    BY <2>1, <2>2
<1>. QED
  BY <1>3, <1>4, <1>5, <1>6, <1>7, MoneySteps

\* The statement a deal shows agrees with the ledger at every moment: its
\* totals are those of its completed milestones, its fee is the recorded one.
THEOREM TotalsAgree == Spec => []TotalsMatchMilestones
<1>1. Init => TotalsHold
  BY DEF Init, TotalsHold, TotalsInv, Exists, NoDeal
<1>2. TotalsHold => TotalsMatchMilestones
  BY DEF TotalsHold, TotalsInv, TotalsMatchMilestones, Releases, SumFunction, Exists
<1>. QED
  BY <1>1, <1>2, TotalsStep, TypeCorrect, OrderHolds, MoneyHolds, PTL DEF Spec

(***************************************************************************)
(* Custody                                                                 *)
(***************************************************************************)

\* What the hub holds of a deal that may not exist yet
InHand(d) == IF Exists(d) THEN Held(d) ELSE 0

\* All there is: with the agents, collected as fees, and in hand
Everything ==
    SumFunctionOnSet(balance, Agents) + SumFunctionOnSet(fees, Deals)
        + SumFunctionOnSet([d \in Deals |-> InHand(d)], Deals)

\* The parts of that sum are integers.
LEMMA InHandTypes ==
    ASSUME TypeOK
    PROVE  /\ \A d \in Deals : InHand(d) \in Int /\ fees[d] \in Int
           /\ \A a \in Agents : balance[a] \in Int
           /\ SumFunctionOnSet(balance, Agents) \in Int
           /\ SumFunctionOnSet(fees, Deals) \in Int
           /\ SumFunctionOnSet([d \in Deals |-> InHand(d)], Deals) \in Int
<1>1. \A d \in Deals : InHand(d) \in Int /\ fees[d] \in Int
  BY LedgerTypes DEF InHand
<1>2. \A a \in Agents : balance[a] \in Int
  BY DEF TypeOK
<1>3. IsFiniteSet(Agents) /\ IsFiniteSet(Deals)
  BY ActiveAssumption
<1>4. \A d \in Deals : [e \in Deals |-> InHand(e)][d] \in Int
  BY <1>1
<1>. QED
  BY <1>1, <1>2, <1>3, <1>4, SumType

\* Money that changes hands within one deal is not made or lost.
LEMMA OneDealConserves ==
    ASSUME TypeOK, TypeOK', NEW d \in Deals, NEW b \in Int, NEW f \in Int,
           SumFunctionOnSet(balance', Agents) = SumFunctionOnSet(balance, Agents) + b,
           fees'[d] = fees[d] + f,
           InHand(d)' = InHand(d) - b - f,
           \A e \in Deals : e # d => fees'[e] = fees[e] /\ InHand(e)' = InHand(e)
    PROVE  Everything' = Everything
<1>. DEFINE hand == [e \in Deals |-> InHand(e)]
            then == [e \in Deals |-> InHand(e)']
<1>1. /\ \A e \in Deals : /\ fees[e] \in Int /\ fees'[e] \in Int
                          /\ hand[e] \in Int /\ then[e] \in Int
      /\ \A e \in Deals : e # d => fees'[e] = fees[e] /\ then[e] = hand[e]
      /\ then[d] = hand[d] - b - f
  <2>1. \A e \in Deals : fees[e] \in Int /\ InHand(e) \in Int
    BY InHandTypes
  <2>2. \A e \in Deals : fees'[e] \in Int
    BY DEF TypeOK
  <2>. QED
    BY <2>1, <2>2
<1>2. IsFiniteSet(Deals)
  BY ActiveAssumption
<1>3. SumFunctionOnSet(fees', Deals) = SumFunctionOnSet(fees, Deals) - fees[d] + fees'[d]
  BY <1>1, <1>2, SumChange
<1>4. Everything' = SumFunctionOnSet(balance', Agents) + SumFunctionOnSet(fees', Deals)
                        + SumFunctionOnSet(then, Deals)
  BY DEF Everything
<1>5. Everything = SumFunctionOnSet(balance, Agents) + SumFunctionOnSet(fees, Deals)
                        + SumFunctionOnSet(hand, Deals)
  BY DEF Everything
<1>6. /\ SumFunctionOnSet(balance, Agents) \in Int /\ SumFunctionOnSet(fees, Deals) \in Int
      /\ SumFunctionOnSet(hand, Deals) \in Int
  BY InHandTypes
<1>. HIDE DEF hand, then
<1>7. SumFunctionOnSet(then, Deals) = SumFunctionOnSet(hand, Deals) - hand[d] + then[d]
  BY <1>1, <1>2, SumChange
<1>8. SumFunctionOnSet(fees', Deals) = SumFunctionOnSet(fees, Deals) + f
  BY <1>1, <1>3, <1>6
<1>9. SumFunctionOnSet(then, Deals) = SumFunctionOnSet(hand, Deals) - b - f
  BY <1>1, <1>6, <1>7
<1>. QED
  BY <1>4, <1>5, <1>6, <1>8, <1>9

\* What a payment gives the two parties is what the balances grow by.
LEMMA PayBalances ==
    ASSUME TypeOK, NEW d \in Deals, Exists(d),
           NEW b \in Nat, NEW s \in Nat, NEW f \in Nat, Pay(d, b, s, f)
    PROVE  SumFunctionOnSet(balance', Agents) = SumFunctionOnSet(balance, Agents) + (b + s)
<1>. DEFINE bought == [a \in Agents |-> IF a = deal[d].buyer THEN b ELSE 0]
            sold == [a \in Agents |-> IF a = deal[d].seller THEN s ELSE 0]
            both == [a \in Agents |-> bought[a] + sold[a]]
<1>1. deal[d].buyer \in Agents /\ deal[d].seller \in Agents
  BY DEF TypeOK, Exists, NoDeal, DealRow
<1>2. IsFiniteSet(Agents) /\ \A a \in Agents : balance[a] \in Int
  BY ActiveAssumption DEF TypeOK
<1>3. \A a \in Agents : bought[a] \in Int /\ sold[a] \in Int /\ both[a] = bought[a] + sold[a]
  OBVIOUS
<1>4. \A a \in Agents : balance'[a] = balance[a] + both[a]
  <2>. SUFFICES ASSUME NEW a \in Agents PROVE balance'[a] = balance[a] + both[a]
    OBVIOUS
  <2>1. balance'[a] = balance[a] + bought[a] + sold[a]
    BY DEF Pay
  <2>. QED
    BY <1>2, <1>3, <2>1
<1>5. bought[deal[d].buyer] = b /\ \A a \in Agents : a # deal[d].buyer => bought[a] = 0
  BY <1>1
<1>6. sold[deal[d].seller] = s /\ \A a \in Agents : a # deal[d].seller => sold[a] = 0
  BY <1>1
<1>. HIDE DEF bought, sold, both
<1>7. SumFunctionOnSet(bought, Agents) = b
  BY <1>1, <1>2, <1>5, SumSingle
<1>8. SumFunctionOnSet(sold, Agents) = s
  BY <1>1, <1>2, <1>6, SumSingle
<1>9. SumFunctionOnSet(both, Agents) = b + s
  <2>1. SumFunctionOnSet(both, Agents)
          = SumFunctionOnSet(bought, Agents) + SumFunctionOnSet(sold, Agents)
    BY <1>2, <1>3, SumPlus
  <2>. QED
    BY <1>7, <1>8, <2>1
<1>10. \A a \in Agents : both[a] \in Int /\ balance'[a] \in Int
  BY <1>2, <1>3, <1>4
<1>11. SumFunctionOnSet(balance', Agents)
         = SumFunctionOnSet(balance, Agents) + SumFunctionOnSet(both, Agents)
  BY <1>2, <1>4, <1>10, SumPlus
<1>. QED
  BY <1>9, <1>11

\* A payment from a deal that leaves the other deals alone makes no money.
LEMMA PayConserves ==
    ASSUME TypeOK, TypeOK', NEW d \in Deals, Exists(d), Exists(d)', Elsewhere(d),
           deal'[d].amount = deal[d].amount,
           NEW b \in Nat, NEW s \in Nat, NEW f \in Nat, Pay(d, b, s, f)
    PROVE  Everything' = Everything
<1>1. SumFunctionOnSet(balance', Agents) = SumFunctionOnSet(balance, Agents) + (b + s)
  BY PayBalances
<1>2. /\ paid'[d].buyer = paid[d].buyer + b /\ paid'[d].seller = paid[d].seller + s
      /\ fees'[d] = fees[d] + f
      /\ \A e \in Deals : e # d => paid'[e] = paid[e] /\ fees'[e] = fees[e]
  BY PayAdds
<1>3. InHand(d)' = InHand(d) - (b + s) - f
  <2>1. /\ deal[d].amount \in Nat /\ paid[d].buyer \in Nat /\ paid[d].seller \in Nat
        /\ fees[d] \in Nat
    BY LedgerTypes
  <2>2. InHand(d) = deal[d].amount - paid[d].buyer - paid[d].seller - fees[d]
    BY DEF InHand, Held
  <2>3. InHand(d)' = deal[d].amount - (paid[d].buyer + b) - (paid[d].seller + s) - (fees[d] + f)
    BY <1>2 DEF InHand, Held
  <2>. QED
    BY <2>1, <2>2, <2>3
<1>4. \A e \in Deals : e # d => InHand(e)' = InHand(e)
  BY <1>2 DEF InHand, Held, Exists, Elsewhere
<1>5. b + s \in Int /\ f \in Int
  OBVIOUS
<1>. QED
  BY <1>1, <1>2, <1>3, <1>4, <1>5, OneDealConserves

\* No step makes or loses money.
LEMMA EverythingKept ==
    ASSUME TypeOK, TypeOK', OrderInv, MoneyInv, [Next]_vars
    PROVE  Everything' = Everything
<1>1. CASE UNCHANGED <<balance, fees, paid>> /\ \A e \in Deals : Undisturbed(e)
  <2>1. \A e \in Deals : InHand(e)' = InHand(e)
    BY <1>1 DEF InHand, Held, Undisturbed, KeepsTerms
  <2>2. [e \in Deals |-> InHand(e)]' = [e \in Deals |-> InHand(e)]
    BY <2>1
  <2>. QED
    BY <1>1, <2>2 DEF Everything
<1>2. ASSUME NEW e \in Deals, NEW o \in Offers, CreateEscrow(e, o) PROVE Everything' = Everything
  <2>1. /\ ~Exists(e) /\ Exists(e)' /\ Elsewhere(e) /\ deal'[e].amount = o.amount
        /\ o.amount \in Nat /\ o.buyer \in Agents
        /\ balance' = [balance EXCEPT ![o.buyer] = @ - o.amount]
        /\ paid' = paid /\ fees' = fees
    BY <1>2, CreationOwes, OffersAreBodies
  <2>. DEFINE b == -o.amount
  <2>2. SumFunctionOnSet(balance', Agents) = SumFunctionOnSet(balance, Agents) + b
    <3>1. \A a \in Agents : balance[a] \in Int /\ balance'[a] \in Int
      BY DEF TypeOK
    <3>2. /\ \A a \in Agents : a # o.buyer => balance'[a] = balance[a]
          /\ balance'[o.buyer] = balance[o.buyer] - o.amount
      BY <2>1 DEF TypeOK
    <3>3. SumFunctionOnSet(balance', Agents)
            = SumFunctionOnSet(balance, Agents) - balance[o.buyer] + balance'[o.buyer]
      <4>1. IsFiniteSet(Agents) /\ o.buyer \in Agents
        BY <2>1, ActiveAssumption
      <4>. QED
        BY <3>1, <3>2, <4>1, SumChange
    <3>4. SumFunctionOnSet(balance, Agents) \in Int
      BY InHandTypes
    <3>. QED
      BY <2>1, <3>1, <3>2, <3>3, <3>4
  <2>3. InHand(e)' = InHand(e) - b - 0
    <3>1. Unfunded(e)
      BY DEF MoneyInv
    <3>. QED
      BY <2>1, <3>1 DEF InHand, Held, Unfunded
  <2>4. \A x \in Deals : x # e => InHand(x)' = InHand(x)
    BY <2>1 DEF InHand, Held, Exists, Elsewhere
  <2>5. b \in Int /\ 0 \in Int /\ fees'[e] = fees[e] + 0
    BY <2>1, LedgerTypes
  <2>6. \A x \in Deals : x # e => fees'[x] = fees[x] /\ InHand(x)' = InHand(x)
    BY <2>1, <2>4
  <2>. HIDE DEF b
  <2>. QED
    BY <2>2, <2>3, <2>5, <2>6, OneDealConserves
<1>3. ASSUME NEW e \in Deals, NEW b \in Nat, NEW s \in Nat, NEW f \in Nat, Closes(e, b, s, f)
      PROVE  Everything' = Everything
  <2>1. Exists(e)'
    BY <1>3 DEF Closes, Exists, Settled
  <2>. QED
    BY <1>3, <2>1, PayConserves DEF Closes, KeepsTerms
<1>4. ASSUME NEW e \in Deals, NEW b \in Nat, CutsShort(e, b) PROVE Everything' = Everything
  <2>1. Exists(e)' /\ Exists(e) /\ Elsewhere(e) /\ deal'[e].amount = deal[e].amount
        /\ Pay(e, b, 0, 0)
    BY <1>4 DEF CutsShort, Exists, KeepsTerms
  <2>. QED
    BY <2>1, PayConserves
<1>5. ASSUME NEW e \in Deals, NEW i \in Slots, NEW r \in Nat, PaysMilestone(e, i, r)
      PROVE  Everything' = Everything
  <2>1. /\ Exists(e) /\ Elsewhere(e) /\ r <= ms[e][i].amount
        /\ Pay(e, ms[e][i].amount - r, SellerShare(r), Fee(r))
    BY <1>5 DEF PaysMilestone, SettleMilestone
  <2>2. ms[e][i].amount \in Nat
    BY DEF TypeOK, MilestoneRow
  <2>3. ms[e][i].amount - r \in Nat /\ SellerShare(r) \in Nat /\ Fee(r) \in Nat
    BY <2>1, <2>2, FeeType
  <2>4. Exists(e)' /\ deal'[e].amount = deal[e].amount
    BY <1>5, OutstandingPaid, SettleEffect DEF PaysMilestone
  <2>. QED
    BY <2>1, <2>3, <2>4, PayConserves
<1>. QED
  BY <1>1, <1>2, <1>3, <1>4, <1>5, MoneySteps

\* Across all agents and deals no money appears or vanishes.
THEOREM NothingIsLost == Spec => []Custody
<1>. DEFINE Total == Everything = SumFunctionOnSet(Funds, Agents)
<1>1. Init => Total
  <2>. SUFFICES ASSUME Init PROVE Total
    OBVIOUS
  <2>1. \A d \in Deals : InHand(d) = 0 /\ fees[d] = 0
    BY DEF Init, InHand, Exists, NoDeal
  <2>2. SumFunctionOnSet(fees, Deals) = 0
    BY <2>1, SumZero, ActiveAssumption
  <2>3. SumFunctionOnSet([d \in Deals |-> InHand(d)], Deals) = 0
    <3>. DEFINE hand == [d \in Deals |-> InHand(d)]
    <3>1. \A d \in Deals : hand[d] = 0
      BY <2>1
    <3>. HIDE DEF hand
    <3>2. SumFunctionOnSet(hand, Deals) = 0
      BY <3>1, SumZero, ActiveAssumption
    <3>. QED
      BY <3>2 DEF hand
  <2>4. SumFunctionOnSet(Funds, Agents) \in Int
    BY SumType, ActiveAssumption, AmountsAssumption
  <2>. QED
    BY <2>2, <2>3, <2>4 DEF Init, Everything
<1>2. TypeOK /\ TypeOK' /\ OrderInv /\ MoneyInv /\ Total /\ [Next]_vars => Total'
  BY EverythingKept
<1>3. TypeOK /\ MoneyInv /\ Total => Custody
  <2>. SUFFICES ASSUME TypeOK, MoneyInv, Total, \A d \in Deals : Exists(d) => ~CutShort(d)
                PROVE  SumFunction(balance) + SumFunction(fees)
                         + SumFunction([d \in {e \in Deals : Exists(e)} |-> Outstanding(d)])
                       = SumFunction(Funds)
    BY DEF Custody
  <2>. DEFINE T == {e \in Deals : Exists(e)}
              owed == [d \in T |-> Outstanding(d)]
              hand == [d \in Deals |-> InHand(d)]
  <2>1. \A d \in T : owed[d] \in Int /\ Outstanding(d) = Held(d)
    BY OutstandingType DEF MoneyInv, HeldInv
  <2>2. \A d \in Deals : hand[d] = IF d \in T THEN owed[d] ELSE 0
    BY <2>1 DEF InHand
  <2>3. /\ SumFunction(balance) = SumFunctionOnSet(balance, Agents)
        /\ SumFunction(fees) = SumFunctionOnSet(fees, Deals)
        /\ SumFunction(Funds) = SumFunctionOnSet(Funds, Agents)
        /\ SumFunction(owed) = SumFunctionOnSet(owed, T)
    BY AmountsAssumption DEF SumFunction, TypeOK
  <2>4. T \in SUBSET Deals
    OBVIOUS
  <2>5. Everything = SumFunctionOnSet(balance, Agents) + SumFunctionOnSet(fees, Deals)
                       + SumFunctionOnSet(hand, Deals)
    BY DEF Everything
  <2>. HIDE DEF T, owed, hand
  <2>6. SumFunctionOnSet(owed, T) = SumFunctionOnSet(hand, Deals)
    BY <2>1, <2>2, <2>4, SumPart, ActiveAssumption
  <2>. QED
    BY <2>3, <2>5, <2>6 DEF owed, T
<1>4. Spec => []TypeOK
  BY TypeCorrect
<1>. HIDE DEF Total
<1>. QED
  BY <1>1, <1>2, <1>3, <1>4, OrderHolds, MoneyHolds, PTL DEF Spec

(***************************************************************************)
(* The contract                                                            *)
(***************************************************************************)

\* Every payment a deal can make is a payment of something, to two parties
Worthwhile(d) ==
    Exists(d) => /\ deal[d].amount > 0 /\ deal[d].buyer # deal[d].seller
                 /\ \A i \in Sequence(d) : ms[d][i].amount > 0

\* What is checked when a deal is created stays true of it.
LEMMA WorthwhileStep ==
    TypeOK /\ OrderInv /\ (\A d \in Deals : Worthwhile(d)) /\ [Next]_vars
        => (\A d \in Deals : Worthwhile(d))'
<1>. SUFFICES ASSUME TypeOK, OrderInv, \A d \in Deals : Worthwhile(d), [Next]_vars,
                     NEW d \in Deals
              PROVE  Worthwhile(d)'
  OBVIOUS
<1>1. ASSUME Exists(d), KeepsTerms(d), \A i \in Slots : ms'[d][i].amount = ms[d][i].amount
      PROVE  Worthwhile(d)'
  <2>1. Sequence(d)' = Sequence(d) /\ Sequence(d) \subseteq Slots
    BY <1>1, ListFits DEF KeepsTerms, Sequence
  <2>. QED
    BY <1>1, <2>1 DEF Worthwhile, KeepsTerms
<1>2. ASSUME Undisturbed(d) PROVE Worthwhile(d)'
  BY <1>1, <1>2 DEF Undisturbed, KeepsMilestones, Worthwhile
<1>3. ASSUME NEW e \in Deals, e # d, Elsewhere(e) PROVE Worthwhile(d)'
  BY <1>2, <1>3 DEF Elsewhere, Undisturbed, Exists, KeepsTerms, KeepsTotals, KeepsMilestones
<1>4. ASSUME NEW e \in Deals, NEW o \in Offers, CreateEscrow(e, o) PROVE Worthwhile(d)'
  <2>1. o \in Bodies
    BY OffersAreBodies
  <2>2. Elsewhere(e) /\ deal'[e] = Row(o) /\ ms'[e] = MilestoneRows(o)
    BY <1>4, <2>1, CreationOwes
  <2>3. CASE e = d
    <3>1. /\ deal'[d].amount = o.amount /\ deal'[d].buyer = o.buyer
          /\ deal'[d].seller = o.seller /\ Sequence(d)' = 1..Len(o.milestones)
      BY <2>2, <2>3 DEF Row, Sequence
    <3>2. o.amount > 0 /\ o.buyer # o.seller
      BY <1>4 DEF CreateEscrow, Valid
    <3>3. ASSUME NEW i \in 1..Len(o.milestones) PROVE ms'[d][i].amount > 0
      <4>1. o.milestones \in Seq(Nat \ {0}) /\ Len(o.milestones) \in 0..MaxMilestones
        BY <2>1 DEF Bodies
      <4>2. o.milestones[i] \in Nat \ {0} /\ i \in Slots /\ i <= Len(o.milestones)
        BY <4>1, OffersAssumption DEF Slots
      <4>3. ms'[d] = MilestoneRows(o)
        BY <2>2, <2>3
      <4>4. ms'[d][i] = [NoMilestone EXCEPT !.status = "PENDING", !.amount = o.milestones[i]]
        BY <4>2, <4>3 DEF MilestoneRows
      <4>5. ms'[d][i].amount = o.milestones[i]
        BY <4>4 DEF NoMilestone
      <4>. QED
        BY <4>2, <4>5
    <3>. QED
      BY <3>1, <3>2, <3>3 DEF Worthwhile
  <2>. QED
    BY <1>3, <2>2, <2>3
<1>5. ASSUME NEW e \in Deals, Elsewhere(e), Exists(e), KeepsTerms(e), KeepsMilestones(e)
      PROVE  Worthwhile(d)'
  BY <1>1, <1>3, <1>5 DEF KeepsMilestones
<1>6. ASSUME NEW e \in Deals, NEW i \in Slots, NEW r \in Nat, PaysMilestone(e, i, r)
      PROVE  Worthwhile(d)'
  <2>1. /\ Exists(e) /\ Elsewhere(e) /\ KeepsTerms(e)
        /\ \A j \in Slots : ms'[e][j].amount = ms[e][j].amount
    BY <1>6, SettleAmounts DEF PaysMilestone
  <2>. QED
    BY <1>1, <1>3, <2>1
<1>. QED
  BY <1>2, <1>4, <1>5, <1>6, MoneySteps DEF Closes, CutsShort

\* The contract's view of a deal
Book == [d \in Deals |-> IF Exists(d)
                         THEN [stage |-> Stage(d), buyer |-> deal[d].buyer,
                               seller |-> deal[d].seller, left |-> Outstanding(d)]
                         ELSE [stage |-> "none"]]

\* The deals a step leaves alone look the same afterwards.
LEMMA SameBook ==
    ASSUME TypeOK, NEW d \in Deals, Undisturbed(d)
    PROVE  Book'[d] = Book[d]
<1>1. CASE ~Exists(d)
  BY <1>1 DEF Undisturbed, Book
<1>2. CASE Exists(d)
  <2>1. /\ Outstanding(d)' = Outstanding(d)
        /\ CutShort(d)' <=> CutShort(d)
        /\ deal'[d].status \in Settled <=> deal[d].status \in Settled
    BY <1>2, OutstandingKept
  <2>2. deal'[d].status \in Open <=> deal[d].status \in Open
    BY <1>2 DEF Undisturbed
  <2>3. Stage(d)' = Stage(d)
    BY <2>1, <2>2 DEF Stage
  <2>. QED
    BY <1>2, <2>1, <2>3 DEF Undisturbed, KeepsTerms, Book
<1>. QED
  BY <1>1, <1>2

\* So does the rest of the book when one deal is changed.
LEMMA BookElsewhere ==
    ASSUME TypeOK, NEW d \in Deals, Elsewhere(d)
    PROVE  Book' = [Book EXCEPT ![d] = Book'[d]]
<1>1. \A e \in Deals : e # d => Undisturbed(e)
  BY DEF Elsewhere, Undisturbed, Exists, KeepsTerms, KeepsTotals, KeepsMilestones
<1>2. \A e \in Deals : e # d => Book'[e] = Book[e]
  BY <1>1, SameBook
<1>3. Book' = [e \in Deals |-> Book'[e]] /\ Book = [e \in Deals |-> Book[e]]
  BY DEF Book
<1>. HIDE DEF Book
<1>. QED
  BY <1>2, <1>3

\* A payment hands the two parties and the fee account their parts.
LEMMA HandsOut ==
    ASSUME TypeOK, NEW d \in Deals, Exists(d), deal[d].buyer # deal[d].seller,
           NEW b \in Nat, NEW s \in Nat, NEW f \in Nat, Pay(d, b, s, f)
    PROVE  Contract!HandsOut(d) /\ Contract!Payment(d) = b + s + f
<1>. DEFINE buyer == deal[d].buyer
            seller == deal[d].seller
<1>1. buyer \in Agents /\ seller \in Agents
  BY DEF TypeOK, Exists, NoDeal, DealRow
<1>2. /\ balance[buyer] \in Nat /\ balance[seller] \in Nat /\ fees[d] \in Nat
      /\ balance \in [Agents -> Nat] /\ fees \in [Deals -> Nat]
  BY <1>1 DEF TypeOK
<1>3. /\ balance'[buyer] = balance[buyer] + b /\ balance'[seller] = balance[seller] + s
      /\ \A a \in Agents : a # buyer /\ a # seller => balance'[a] = balance[a]
      /\ DOMAIN balance' = Agents /\ balance' = [a \in Agents |-> balance'[a]]
  <2>1. \A a \in Agents : balance'[a] = balance[a] + (IF a = buyer THEN b ELSE 0)
                                                   + (IF a = seller THEN s ELSE 0)
    BY DEF Pay
  <2>2. balance' = [a \in Agents |-> balance'[a]]
    BY DEF Pay
  <2>3. \A a \in Agents : balance[a] \in Nat
    BY DEF TypeOK
  <2>. QED
    BY <1>1, <1>2, <2>1, <2>2, <2>3
<1>4. fees' = [fees EXCEPT ![d] = fees[d] + f] /\ fees'[d] = fees[d] + f
  BY <1>2 DEF Pay
<1>5. balance' = [balance EXCEPT ![buyer] = balance'[buyer], ![seller] = balance'[seller]]
  BY <1>1, <1>2, <1>3
<1>6. fees' = [fees EXCEPT ![d] = fees'[d]]
  BY <1>4
<1>7. /\ balance'[buyer] >= balance[buyer] /\ balance'[seller] >= balance[seller]
      /\ fees'[d] >= fees[d]
  BY <1>2, <1>3, <1>4
<1>8. (balance'[buyer] - balance[buyer]) + (balance'[seller] - balance[seller])
          + (fees'[d] - fees[d]) = b + s + f
  BY <1>2, <1>3, <1>4
<1>9. Book[d].buyer = buyer /\ Book[d].seller = seller
  BY DEF Book
<1>. HIDE DEF buyer, seller
<1>10. Contract!HandsOut(d)
  BY <1>5, <1>6, <1>7, <1>9 DEF Contract!HandsOut, Book
<1>11. Contract!Payment(d) = b + s + f
  BY <1>8, <1>9 DEF Contract!Payment, Book
<1>. QED
  BY <1>10, <1>11

\* A payment that leaves less, and closes the deal when nothing is left.
LEMMA PaysOut ==
    ASSUME TypeOK, NEW d \in Deals, Exists(d), Exists(d)', Elsewhere(d), KeepsTerms(d),
           deal[d].buyer # deal[d].seller, deal[d].status \in Open,
           NEW b \in Nat, NEW s \in Nat, NEW f \in Nat, Pay(d, b, s, f),
           Outstanding(d) \in Nat, b + s + f > 0, b + s + f <= Outstanding(d),
           Outstanding(d)' = Outstanding(d) - (b + s + f),
           Stage(d)' = IF b + s + f = Outstanding(d) THEN "closed" ELSE "open"
    PROVE  Contract!PayOut(d)
<1>1. Contract!HandsOut(d) /\ Contract!Payment(d) = b + s + f
  BY HandsOut
<1>2. Book[d] = [stage |-> "open", buyer |-> deal[d].buyer, seller |-> deal[d].seller,
                 left |-> Outstanding(d)]
  BY DEF Book, Stage
<1>3. Book'[d] = [stage |-> IF b + s + f = Outstanding(d) THEN "closed" ELSE "open",
                  buyer |-> deal[d].buyer, seller |-> deal[d].seller,
                  left |-> Outstanding(d) - (b + s + f)]
  BY DEF Book, KeepsTerms
<1>4. Book' = [Book EXCEPT ![d] = Book'[d]]
  BY BookElsewhere
<1>5. Book \in [Deals -> {Book[e] : e \in Deals}] /\ DOMAIN Book = Deals
  BY DEF Book
<1>. DEFINE new == [Book[d] EXCEPT !.left = @ - (b + s + f),
                                   !.stage = IF b + s + f = Book[d].left THEN "closed" ELSE "open"]
<1>6. Book'[d] = new
  <2>1. DOMAIN new = {"stage", "buyer", "seller", "left"} /\ new = [x \in DOMAIN new |-> new[x]]
    BY <1>2
  <2>2. /\ new["stage"] = IF b + s + f = Outstanding(d) THEN "closed" ELSE "open"
        /\ new["buyer"] = deal[d].buyer /\ new["seller"] = deal[d].seller
        /\ new["left"] = Outstanding(d) - (b + s + f)
    BY <1>2
  <2>. HIDE DEF new
  <2>. QED
    BY <1>3, <2>1, <2>2
<1>7. Book' = [Book EXCEPT ![d].left = @ - (b + s + f),
                           ![d].stage = IF b + s + f = Book[d].left THEN "closed" ELSE "open"]
  <2>1. Book' = [Book EXCEPT ![d] = new]
    BY <1>4, <1>6
  <2>. HIDE DEF Book
  <2>. QED
    BY <1>5, <2>1
<1>8. Book[d].stage = "open" /\ Book[d].left = Outstanding(d)
  BY <1>2
<1>. QED
  BY <1>1, <1>7, <1>8 DEF Contract!PayOut, Book

\* With a milestone unpaid besides the one at hand, more is outstanding than
\* its amount.
LEMMA MoreIsOwed ==
    ASSUME TypeOK, NEW d \in Deals, Worthwhile(d), NEW i \in Slots, NEW r \in Nat,
           PaysMilestone(d, i, r), ~IsLast(d, i)
    PROVE  Outstanding(d)' > 0
<1>. USE DEF PaysMilestone
<1>1. PICK k \in Sequence(d) : k # i /\ ms[d][k].status # "COMPLETED"
  BY DEF IsLast
<1>2. /\ deal'[d].milestone_count = deal[d].milestone_count
      /\ deal'[d].status = "ACCEPTED"
      /\ \A j \in Slots : ms'[d][j].status = "COMPLETED" <=>
                              (j = i \/ ms[d][j].status = "COMPLETED")
  BY SettleEffect
<1>3. \A j \in Slots : ms'[d][j].amount = ms[d][j].amount
  BY SettleAmounts
<1>4. Sequence(d)' = Sequence(d) /\ Sequence(d) \subseteq Slots /\ IsMulti(d)'
  BY <1>2, ListFits DEF Sequence, IsMulti
<1>. DEFINE new == [j \in Sequence(d) |-> IF ms'[d][j].status = "COMPLETED"
                                          THEN 0 ELSE ms'[d][j].amount]
<1>5. Outstanding(d)' = SumFunctionOnSet(new, Sequence(d))
  BY <1>2, <1>4 DEF Outstanding, Settled, SumFunction
<1>6. \A j \in Sequence(d) : new[j] \in Nat
  <2>1. \A j \in Sequence(d) : ms[d][j].amount \in Nat
    BY <1>4 DEF TypeOK, MilestoneRow
  <2>. QED
    BY <1>3, <1>4, <2>1
<1>7. new[k] > 0
  BY <1>1, <1>2, <1>3, <1>4 DEF Worthwhile
<1>8. IsFiniteSet(Sequence(d)) /\ IsFiniteSet(Sequence(d) \ {k})
  BY UnpaidType, FS_Subset
<1>. HIDE DEF new
<1>9. SumFunctionOnSet(new, Sequence(d)) = new[k] + SumFunctionOnSet(new, Sequence(d) \ {k})
  BY <1>1, <1>6, <1>8, SumRemove
<1>10. SumFunctionOnSet(new, Sequence(d) \ {k}) \in Nat
  BY <1>6, <1>8, SumNat
<1>. QED
  BY <1>1, <1>5, <1>6, <1>7, <1>9, <1>10

\* Every behaviour of the escrow service is one the contract allows.
THEOREM EscrowImplementsContract == Spec => ImplementsContract
<1>. DEFINE AllWorthwhile == \A d \in Deals : Worthwhile(d)
<1>1. Init => Contract!Init
  BY DEF Init, Contract!Init, Contract!None, Exists, NoDeal
<1>2. Init => AllWorthwhile
  BY DEF Init, Worthwhile, Exists, NoDeal
<1>3. TypeOK /\ OrderInv /\ AllWorthwhile /\ [Next]_vars => AllWorthwhile'
  BY WorthwhileStep
<1>4. ASSUME TypeOK, OrderInv, MoneyInv, AllWorthwhile, [Next]_vars
      PROVE  [Contract!Next]_(Contract!vars)
  <2>1. CASE UNCHANGED <<balance, fees, paid>> /\ \A d \in Deals : Undisturbed(d)
    <3>1. \A d \in Deals : Book'[d] = Book[d]
      BY <1>4, <2>1, SameBook
    <3>2. Book' = [d \in Deals |-> Book'[d]] /\ Book = [d \in Deals |-> Book[d]]
      BY DEF Book
    <3>3. Book' = Book
      <4>. HIDE DEF Book
      <4>. QED
        BY <3>1, <3>2
    <3>. QED
      BY <2>1, <3>3 DEF Contract!vars, Book
  <2>2. ASSUME NEW d \in Deals, NEW o \in Offers, CreateEscrow(d, o) PROVE Contract!Fund(d)
    <3>1. o \in Bodies
      BY OffersAreBodies
    <3>2. /\ ~Exists(d) /\ Exists(d)' /\ Elsewhere(d) /\ deal'[d] = Row(o)
          /\ Outstanding(d)' = o.amount /\ o.amount \in Nat
          /\ balance[o.buyer] >= o.amount
          /\ balance' = [balance EXCEPT ![o.buyer] = @ - o.amount]
          /\ fees' = fees
      BY <1>4, <2>2, <3>1, CreationOwes
    <3>3. Stage(d)' = "open" /\ deal'[d].buyer = o.buyer /\ deal'[d].seller = o.seller
      BY <3>2 DEF Stage, Row, Open
    <3>4. Book[d] = [stage |-> "none"]
      BY <3>2 DEF Book
    <3>5. Book'[d] = [stage |-> "open", buyer |-> o.buyer, seller |-> o.seller,
                      left |-> o.amount]
      BY <3>2, <3>3 DEF Book
    <3>6. Book' = [Book EXCEPT ![d] = Book'[d]]
      BY <1>4, <3>2, BookElsewhere
    <3>7. o.amount > 0 /\ o.buyer # o.seller
      BY <2>2 DEF CreateEscrow, Valid
    <3>8. /\ Book'[d].stage = "open" /\ Book'[d].left = o.amount
          /\ Book'[d].buyer = o.buyer /\ Book'[d].seller = o.seller
      BY <3>5
    <3>9. o.amount <= balance[o.buyer]
      <4>1. balance[o.buyer] \in Nat
        BY <1>4, <3>1 DEF TypeOK, Bodies
      <4>. QED
        BY <3>2, <4>1
    <3>10. /\ Book[d] = Contract!None
           /\ Book'[d].left > 0 /\ Book'[d].buyer # Book'[d].seller
           /\ Book'[d].left <= balance[Book'[d].buyer]
           /\ balance' = [balance EXCEPT ![Book'[d].buyer] = @ - Book'[d].left]
      BY <3>2, <3>4, <3>7, <3>8, <3>9 DEF Contract!None
    <3>. QED
      BY <3>2, <3>6, <3>8, <3>10 DEF Contract!Fund, Book
  <2>3. ASSUME NEW d \in Deals, NEW b \in Nat, NEW s \in Nat, NEW f \in Nat, Closes(d, b, s, f)
        PROVE  Contract!PayOut(d)
    <3>1. /\ Exists(d) /\ Exists(d)' /\ Elsewhere(d) /\ KeepsTerms(d)
          /\ deal[d].status \in Open /\ deal'[d].status \in Settled
          /\ Pay(d, b, s, f) /\ b + s + f = deal[d].amount /\ ~CutShort(d) /\ ~CutShort(d)'
      BY <2>3 DEF Closes, Exists, Settled, Open, CutShort, KeepsTerms, IsMulti
    <3>2. deal[d].buyer # deal[d].seller /\ deal[d].amount > 0 /\ deal[d].amount \in Nat
      BY <1>4, <3>1, LedgerTypes DEF Worthwhile
    <3>3. Outstanding(d) = deal[d].amount
      BY <1>4, <2>3, <3>1 DEF Closes, MoneyInv, HeldInv, Outstanding, Open, Settled
    <3>4. Outstanding(d)' = 0
      BY <3>1 DEF Outstanding
    <3>5. Stage(d)' = "closed"
      BY <3>1 DEF Stage, Open, Settled
    <3>6. /\ Outstanding(d) \in Nat /\ b + s + f > 0 /\ b + s + f <= Outstanding(d)
          /\ Outstanding(d)' = Outstanding(d) - (b + s + f)
          /\ Stage(d)' = IF b + s + f = Outstanding(d) THEN "closed" ELSE "open"
      BY <3>1, <3>2, <3>3, <3>4, <3>5
    <3>. QED
      BY <1>4, <3>1, <3>2, <3>6, PaysOut
  <2>4. ASSUME NEW d \in Deals, NEW b \in Nat, CutsShort(d, b) PROVE Contract!CutShort(d)
    <3>1. /\ Exists(d) /\ Exists(d)' /\ Elsewhere(d) /\ KeepsTerms(d) /\ CutShort(d)'
          /\ deal[d].status \in Open /\ deal'[d].status \in Settled \ Open
          /\ Pay(d, b, 0, 0)
      BY <2>4 DEF CutsShort, Exists, Settled, Open, CutShort, KeepsTerms, IsMulti
    <3>2. deal[d].buyer # deal[d].seller
      BY <1>4, <3>1 DEF Worthwhile
    <3>3. Contract!HandsOut(d)
      BY <1>4, <3>1, <3>2, HandsOut
    <3>4. Book[d] = [stage |-> "open", buyer |-> deal[d].buyer, seller |-> deal[d].seller,
                     left |-> Outstanding(d)]
      BY <3>1 DEF Book, Stage
    <3>5. Book'[d] = [stage |-> "cut", buyer |-> deal[d].buyer, seller |-> deal[d].seller,
                      left |-> 0]
      BY <3>1 DEF Book, Stage, KeepsTerms, Outstanding
    <3>6. Book'[d] = [Book[d] EXCEPT !.stage = "cut", !.left = 0] /\ Book[d].stage = "open"
      <4>. DEFINE new == [Book[d] EXCEPT !.stage = "cut", !.left = 0]
      <4>1. /\ DOMAIN new = {"stage", "buyer", "seller", "left"}
            /\ new = [x \in DOMAIN new |-> new[x]]
        BY <3>4
      <4>2. /\ new["stage"] = "cut" /\ new["buyer"] = deal[d].buyer
            /\ new["seller"] = deal[d].seller /\ new["left"] = 0
        BY <3>4
      <4>3. Book[d].stage = "open"
        BY <3>4
      <4>. HIDE DEF new
      <4>4. Book'[d] = new
        BY <3>5, <4>1, <4>2
      <4>. QED
        BY <4>3, <4>4 DEF new
    <3>7. Book' = [Book EXCEPT ![d] = Book'[d]] /\ DOMAIN Book = Deals
      BY <1>4, <3>1, BookElsewhere DEF Book
    <3>8. Book' = [Book EXCEPT ![d].stage = "cut", ![d].left = 0]
      <4>. HIDE DEF Book
      <4>. QED
        BY <3>6, <3>7
    <3>. QED
      BY <3>3, <3>6, <3>8 DEF Contract!CutShort, Book
  <2>5. ASSUME NEW d \in Deals, NEW i \in Slots, NEW r \in Nat, PaysMilestone(d, i, r)
        PROVE  Contract!PayOut(d)
    <3>. DEFINE a == ms[d][i].amount
    <3>1. /\ Exists(d) /\ Elsewhere(d) /\ r <= a /\ i \in Sequence(d) /\ IsMulti(d)
          /\ Pay(d, a - r, SellerShare(r), Fee(r)) /\ deal[d].status = "ACCEPTED"
          /\ ms[d][i].status = "DELIVERED"
      BY <2>5 DEF PaysMilestone, SettleMilestone
    <3>2. Outstanding(d)' = Outstanding(d) - a /\ Exists(d)' /\ ~CutShort(d)'
      BY <1>4, <2>5, OutstandingPaid
    <3>3. deal'[d].status = (IF IsLast(d, i) THEN "COMPLETED" ELSE "ACCEPTED") /\ KeepsTerms(d)
      BY <1>4, <2>5, SettleEffect, SettleAmounts DEF PaysMilestone
    <3>4. a \in Nat /\ a > 0 /\ deal[d].buyer # deal[d].seller
      BY <1>4, <3>1 DEF TypeOK, MilestoneRow, Worthwhile
    <3>5. Outstanding(d) \in Nat
      BY <1>4, <3>1, OutstandingType
    <3>6. /\ a - r \in Nat /\ SellerShare(r) \in Nat /\ Fee(r) \in Nat
          /\ (a - r) + SellerShare(r) + Fee(r) = a
      <4>1. SellerShare(r) \in Nat /\ Fee(r) \in Nat /\ SellerShare(r) + Fee(r) = r
        BY FeeType
      <4>. HIDE DEF a
      <4>. QED
        BY <3>1, <3>4, <4>1
    <3>7. IsLast(d, i) => Outstanding(d)' = 0
      BY <3>3 DEF Outstanding, Settled
    <3>8. ~IsLast(d, i) => Outstanding(d)' > 0
      BY <1>4, <2>5, MoreIsOwed
    <3>9. Stage(d)' = IF IsLast(d, i) THEN "closed" ELSE "open"
      BY <3>2, <3>3 DEF Stage, Open
    <3>10. /\ a > 0 /\ a <= Outstanding(d)
           /\ Stage(d)' = IF a = Outstanding(d) THEN "closed" ELSE "open"
      <4>. HIDE DEF a
      <4>. QED
        BY <3>2, <3>4, <3>5, <3>7, <3>8, <3>9
    <3>11. deal[d].status \in Open
      BY <3>1 DEF Open
    <3>. HIDE DEF a
    <3>12. /\ (a - r) + SellerShare(r) + Fee(r) > 0
           /\ (a - r) + SellerShare(r) + Fee(r) <= Outstanding(d)
           /\ Outstanding(d)' = Outstanding(d) - ((a - r) + SellerShare(r) + Fee(r))
           /\ Stage(d)' = IF (a - r) + SellerShare(r) + Fee(r) = Outstanding(d)
                          THEN "closed" ELSE "open"
      BY <3>2, <3>6, <3>10
    <3>. QED
      BY <1>4, <3>1, <3>2, <3>3, <3>4, <3>5, <3>6, <3>11, <3>12, PaysOut
  <2>. QED
    BY <1>4, <2>1, <2>2, <2>3, <2>4, <2>5, MoneySteps DEF Contract!Next
<1>5. Spec => []TypeOK
  BY TypeCorrect
<1>. HIDE DEF AllWorthwhile
<1>. QED
  BY <1>1, <1>2, <1>3, <1>4, <1>5, OrderHolds, MoneyHolds, PTL
     DEF Spec, Contract!Spec, ImplementsContract

(***************************************************************************)
(* Orders                                                                  *)
(***************************************************************************)

\* What the invariant needs of the requests and key exchanges: a matched agent
\* is one that exists, and a key exchange, once begun, belongs to a deal
OrdersTypes ==
    /\ request \in [Requests -> RequestRow]
    /\ multisig \in [Deals -> MultisigRow]
    /\ \A d \in Deals : multisig[d] = NoMultisig \/ (multisig[d].state # "NONE" /\ Exists(d))

\* A deal that does not exist has no milestones
NoRows(d) == ~Exists(d) => \A i \in Slots : ms[d][i].status = "NONE"

\* The hub holds what is outstanding less the fee taken at creation
OrdersInv ==
    /\ TypeOK /\ OrderInv /\ OrdersTypes
    /\ \A d \in Deals : HeldInv(d, Upfront(d)) /\ Unfunded(d) /\ NoRows(d)

\* No step gives a milestone to a deal that does not exist.
LEMMA RowsUntouched ==
    ASSUME TypeOK, NEW d \in Deals, ~Exists(d), NoRows(d), [Next]_vars
    PROVE  ms'[d] = ms[d] \/ Exists(d)'
<1>1. ASSUME NEW e \in Deals, NEW o \in Offers, CreateEscrow(e, o)
      PROVE  ms'[d] = ms[d] \/ Exists(d)'
  BY <1>1, CreationOwes, OffersAreBodies DEF Elsewhere
<1>2. ASSUME NEW e \in Deals,
             \/ AcceptChecks(e) \/ AcceptRollsBack(e) \/ DeliverEscrow(e) \/ CancelEscrow(e)
             \/ DealDeadline(e) \/ \E r \in ReleaseAmounts : ReleaseEscrow(e, r)
      PROVE  ms'[d] = ms[d]
  BY <1>2 DEF AcceptChecks, AcceptRollsBack, DeliverEscrow, CancelEscrow, DealDeadline,
              ReleaseEscrow
<1>3. ASSUME NEW e \in Deals, AcceptCommits(e) PROVE ms'[d] = ms[d]
  BY <1>3 DEF AcceptCommits, TypeOK, Exists
<1>4. ASSUME NEW e \in Deals, NEW i \in Slots, DeliverMilestone(e, i) PROVE ms'[d] = ms[d]
  BY <1>4 DEF DeliverMilestone, Lockable, TypeOK
<1>5. ASSUME NEW e \in Deals, NEW i \in Slots, NEW r, Exists(e), SettleMilestone(e, i, r)
      PROVE  ms'[d] = ms[d]
  BY <1>5, SettleElsewhere
<1>6. ASSUME NEW e \in Deals, NEW i \in Slots, NEW r \in ReleaseAmounts,
             ReleaseMilestone(e, i, r)
      PROVE  ms'[d] = ms[d]
  BY <1>5, <1>6 DEF ReleaseMilestone, Lockable
<1>7. ASSUME NEW e \in Deals, NEW i \in Slots, MilestoneDeadline(e, i) PROVE ms'[d] = ms[d]
  BY <1>7 DEF MilestoneDeadline, NoRows, TypeOK
<1>8. ASSUME NEW w \in Workers, NEW t \in sweep[w].todo, ResolveMilestone(w, t)
      PROVE  ms'[d] = ms[d]
  <2>1. t.deal \in Deals /\ t.seq \in Slots /\ Exists(t.deal)
    BY <1>8 DEF ResolveMilestone, TypeOK, Pass, MilestoneTicket, Lockable
  <2>2. CASE UNCHANGED ms
    BY <2>2
  <2>3. CASE ExpireActiveMilestone(t.deal, t.seq)
    BY <2>1, <2>3 DEF ExpireActiveMilestone, TypeOK
  <2>4. CASE SettleMilestone(t.deal, t.seq, ms[t.deal][t.seq].amount)
    BY <1>5, <2>1, <2>4
  <2>. QED
    BY <1>8, <2>2, <2>3, <2>4 DEF ResolveMilestone
<1>9. ASSUME NEW w \in Workers,
             \/ ListDeals(w) \/ ListMilestones(w) \/ EndPass(w)
             \/ \E t \in sweep[w].todo : ResolveDeal(w, t)
      PROVE  ms'[d] = ms[d]
  BY <1>9 DEF ListDeals, ListMilestones, EndPass, ResolveDeal
<1>10. CASE UNCHANGED vars
  BY <1>10 DEF vars
<1>. QED
  BY <1>1, <1>2, <1>3, <1>4, <1>6, <1>7, <1>8, <1>9, <1>10 DEF Next, Sweep

\* A contract's terms are a body without milestones.
LEMMA TermsAreBodies == \A t \in Terms : t \in Bodies /\ t.milestones = <<>>
<1>1. \A t \in Terms : t \in [buyer : Agents, seller : Agents, amount : Nat, milestones : {<<>>}]
  BY TermsAssumption
<1>2. <<>> \in Seq(Nat \ {0}) /\ Len(<<>>) = 0
  OBVIOUS
<1>3. 0 <= MaxMilestones
  BY OffersAssumption
<1>. QED
  BY <1>1, <1>2, <1>3 DEF Bodies

\* Beside the steps of Escrow itself, orders create deals and exchange keys.
LEMMA OrdersSteps ==
    ASSUME OrdersTypes, [OrdersNext]_allVars
    PROVE  /\ request' \in [Requests -> RequestRow]
           /\ \/ [Next]_vars /\ multisig' = multisig
              \/ vars' = vars /\ \E d \in Deals :
                     \/ \E n \in Rounds, p \in Participants : SubmitRound(d, n, p)
                     \/ DisputeMultisig(d)
              \/ multisig' = multisig /\ \E d \in Deals, t \in Terms : CreateEscrow(d, t)
              \/ \E d \in Deals, t \in Terms : CreateMultisig(d, t)
<1>. DEFINE Goal ==
       /\ request' \in [Requests -> RequestRow]
       /\ \/ [Next]_vars /\ multisig' = multisig
          \/ vars' = vars /\ \E d \in Deals :
                 \/ \E n \in Rounds, p \in Participants : SubmitRound(d, n, p)
                 \/ DisputeMultisig(d)
          \/ multisig' = multisig /\ \E d \in Deals, t \in Terms : CreateEscrow(d, t)
          \/ \E d \in Deals, t \in Terms : CreateMultisig(d, t)
<1>1. CASE UNCHANGED allVars \/ (Next /\ UNCHANGED orderVars)
  BY <1>1 DEF OrdersTypes, allVars, orderVars
<1>2. ASSUME NEW d \in Deals, NEW t \in Terms, CreateContract(d, t) \/ CreateMultisig(d, t)
      PROVE  Goal
  BY <1>2 DEF CreateContract, Orders, CreateMultisig, OrdersTypes
<1>3. ASSUME NEW d \in Deals,
             \/ AcceptContract(d) \/ DeliverContract(d) \/ VerifyContract(d)
             \/ DisputeContract(d) \/ ContractDeadline(d)
      PROVE  Goal
  BY <1>3 DEF AcceptContract, DeliverContract, VerifyContract, DisputeContract,
              ContractDeadline, MoveContract, OrdersTypes
<1>4. ASSUME NEW w \in Workers, ListContracts(w) \/ Enforce(w) \/ EnforceRollsBack(w)
      PROVE  Goal
  BY <1>4 DEF ListContracts, Enforce, EnforceRollsBack, OrdersTypes
<1>5. ASSUME NEW d \in Deals,
             \/ \E n \in Rounds, p \in Participants : SubmitRound(d, n, p)
             \/ DisputeMultisig(d)
      PROVE  Goal
  <2>1. vars' = vars /\ request' = request
    BY <1>5 DEF SubmitRound, DisputeMultisig
  <2>. QED
    BY <1>5, <2>1 DEF OrdersTypes
<1>6. ASSUME NEW r \in Requests, NEW t \in Terms, Assign(r, t) PROVE Goal
  <2>1. request' \in [Requests -> RequestRow]
    BY <1>6 DEF Assign, OrdersTypes, RequestRow
  <2>2. multisig' = multisig /\ (vars' = vars \/ \E d \in Deals : CreateEscrow(d, t))
    BY <1>6 DEF Assign, Orders
  <2>. QED
    BY <2>1, <2>2
<1>7. ASSUME NEW r \in Requests, CreateRequest(r) PROVE Goal
  <2>1. ASSUME request' = [request EXCEPT ![r].state = "SEARCHING"], UNCHANGED <<vars, multisig>>
        PROVE  Goal
    BY <2>1 DEF OrdersTypes, RequestRow
  <2>2. ASSUME NEW t \in Terms,
               request' = [request EXCEPT ![r] = [state |-> "MATCHED", chosen |-> {t}]],
               UNCHANGED <<vars, multisig>>
        PROVE  Goal
    BY <2>2 DEF OrdersTypes, RequestRow
  <2>. QED
    BY <1>6, <1>7, <2>1, <2>2 DEF CreateRequest
<1>8. ASSUME NEW r \in Requests, AcceptMatch(r) PROVE Goal
  <2>1. request[r].chosen \subseteq Terms
    BY DEF OrdersTypes, RequestRow
  <2>. QED
    BY <1>6, <1>8, <2>1 DEF AcceptMatch
<1>. QED
  BY <1>1, <1>2, <1>3, <1>4, <1>5, <1>6, <1>7, <1>8 DEF OrdersNext

\* A step of a key exchange moves it on; it never undoes that there is one.
LEMMA KeyExchange ==
    ASSUME OrdersTypes, vars' = vars, NEW d \in Deals,
           \/ \E n \in Rounds, p \in Participants : SubmitRound(d, n, p)
           \/ DisputeMultisig(d)
    PROVE  /\ multisig' \in [Deals -> MultisigRow]
           /\ \A e \in Deals : e # d => multisig'[e] = multisig[e]
           /\ multisig[d].state # "NONE" /\ multisig'[d].state # "NONE"
<1>1. multisig[d] \in MultisigRow
  BY DEF OrdersTypes
<1>2. \A n \in Rounds : SetupRound(n) # "NONE"
  BY DEF Rounds, SetupRound
<1>3. CASE DisputeMultisig(d)
  <2>1. [multisig[d] EXCEPT !.state = "disputed"] \in MultisigRow
    BY <1>1 DEF MultisigRow
  <2>2. [multisig[d] EXCEPT !.state = "disputed"].state = "disputed"
    BY <1>1 DEF MultisigRow
  <2>3. multisig' = [multisig EXCEPT ![d] = [multisig[d] EXCEPT !.state = "disputed"]]
    BY <1>3 DEF DisputeMultisig
  <2>. QED
    BY <1>3, <2>1, <2>2, <2>3 DEF DisputeMultisig, OrdersTypes
<1>4. ASSUME NEW n \in Rounds, NEW p \in Participants, SubmitRound(d, n, p)
      PROVE  /\ multisig' \in [Deals -> MultisigRow]
             /\ \A e \in Deals : e # d => multisig'[e] = multisig[e]
             /\ multisig[d].state # "NONE" /\ multisig'[d].state # "NONE"
  <2>. DEFINE rows == multisig[d].rounds \cup {<<n, p>>}
              new == IF ~RoundComplete(rows, n) THEN [multisig[d] EXCEPT !.rounds = rows]
                     ELSE IF n = 3 THEN [state |-> "funded", rounds |-> rows]
                     ELSE [state |-> SetupRound(n + 1), rounds |-> rows \cup {<<n + 1, "hub">>}]
  <2>1. multisig' = [multisig EXCEPT ![d] = new] /\ multisig[d].state = SetupRound(n)
    BY <1>4 DEF SubmitRound
  <2>2. multisig[d].rounds \subseteq Rounds \X Participants
    BY <1>1 DEF MultisigRow
  <2>3. rows \subseteq Rounds \X Participants
    BY <2>2
  <2>4. n # 3 => n + 1 \in Rounds /\ <<n + 1, "hub">> \in Rounds \X Participants
    BY DEF Rounds, Participants
  <2>. HIDE DEF rows
  <2>5. [multisig[d] EXCEPT !.rounds = rows] \in MultisigRow
    BY <1>1, <2>3 DEF MultisigRow
  <2>6. [multisig[d] EXCEPT !.rounds = rows].state = multisig[d].state
    BY <1>1 DEF MultisigRow
  <2>7. [state |-> "funded", rounds |-> rows] \in MultisigRow
    BY <2>3 DEF MultisigRow
  <2>8. n # 3 => [state |-> SetupRound(n + 1), rounds |-> rows \cup {<<n + 1, "hub">>}] \in MultisigRow
    BY <2>3, <2>4 DEF MultisigRow
  <2>9. new \in MultisigRow /\ new.state # "NONE"
    BY <1>2, <2>1, <2>4, <2>5, <2>6, <2>7, <2>8
  <2>. HIDE DEF new
  <2>. QED
    BY <1>2, <2>1, <2>9 DEF OrdersTypes
<1>. QED
  BY <1>3, <1>4

\* A deal that a step leaves alone is held as before.
LEMMA OthersHeld ==
    ASSUME TypeOK, NEW d \in Deals, Undisturbed(d), paid'[d] = paid[d], fees'[d] = fees[d],
           multisig'[d] = multisig[d], HeldInv(d, Upfront(d)), Unfunded(d)
    PROVE  HeldInv(d, Upfront(d))' /\ Unfunded(d)' /\ (Exists(d)' <=> Exists(d))
<1>1. CASE ~Exists(d)
  BY <1>1 DEF Undisturbed, HeldInv, Unfunded
<1>2. CASE Exists(d)
  <2>1. /\ Outstanding(d)' = Outstanding(d)
        /\ CutShort(d)' <=> CutShort(d)
    BY <1>2, OutstandingKept
  <2>2. /\ deal'[d].amount = deal[d].amount /\ Exists(d)'
        /\ deal'[d].status = "CREATED" => deal[d].status = "CREATED"
    BY <1>2 DEF Undisturbed, KeepsTerms
  <2>3. Upfront(d)' = Upfront(d) /\ Held(d)' = Held(d)
    BY <2>2 DEF Upfront, Held
  <2>. QED
    BY <1>2, <2>1, <2>2, <2>3 DEF HeldInv, Unfunded
<1>. QED
  BY <1>1, <1>2

\* Creating a multisig deal writes an ordinary row without milestones.
LEMMA MultisigCreated ==
    ASSUME TypeOK, OrderInv, NEW d \in Deals, NEW t \in Terms, CreateMultisig(d, t),
           Unfunded(d), NoRows(d)
    PROVE  /\ TypeOK' /\ OrderInv' /\ Elsewhere(d) /\ Exists(d)'
           /\ HeldInv(d, Fee(t.amount))' /\ Unfunded(d)' /\ deal'[d].amount = t.amount
           /\ \A e \in Deals : e # d => paid'[e] = paid[e] /\ fees'[e] = fees[e]
<1>1. /\ ~Exists(d) /\ deal' = [deal EXCEPT ![d] = Row(t)] /\ deal'[d] = Row(t)
      /\ balance[t.buyer] >= t.amount
      /\ balance' = [balance EXCEPT ![t.buyer] = @ - t.amount]
      /\ fees' = [fees EXCEPT ![d] = Fee(t.amount)] /\ UNCHANGED <<ms, trust, accepting, sweep, paid>>
  BY DEF CreateMultisig, TypeOK, Exists, NoDeal
<1>2. /\ t \in Bodies /\ t.milestones = <<>> /\ t.amount \in Nat /\ t.buyer \in Agents
      /\ Len(t.milestones) = 0
  BY TermsAreBodies DEF Bodies
<1>3. /\ deal'[d].status = "CREATED" /\ deal'[d].amount = t.amount
      /\ deal'[d].milestone_count = 0
  BY <1>1, <1>2 DEF Row
<1>4. Elsewhere(d) /\ \A e \in Deals : e # d => paid'[e] = paid[e] /\ fees'[e] = fees[e]
  BY <1>1 DEF TypeOK, Elsewhere
<1>5. Exists(d)' /\ ~IsMulti(d)'
  BY <1>3 DEF Exists, IsMulti
<1>6. Fee(t.amount) \in Nat /\ fees'[d] = Fee(t.amount)
  BY <1>1, <1>2, FeeType DEF TypeOK
<1>7. TypeOK'
  <2>1. Row(t) \in DealRow
    BY <1>2, CreationTypes
  <2>2. balance' \in [Agents -> Nat]
    BY <1>1, <1>2 DEF TypeOK
  <2>3. accepting' \subseteq {e \in Deals : deal'[e].status = "CREATED"}
    BY <1>1, <1>3 DEF TypeOK
  <2>4. deal' \in [Deals -> DealRow \cup {NoDeal}] /\ fees' \in [Deals -> Nat]
    BY <1>1, <1>6, <2>1 DEF TypeOK
  <2>. QED
    BY <1>1, <2>2, <2>3, <2>4 DEF TypeOK
<1>8. OrderInv'
  <2>. SUFFICES ASSUME NEW e \in Deals PROVE InOrder(e)'
    BY DEF OrderInv
  <2>1. CASE e # d
    BY <1>4, <2>1 DEF Elsewhere, OrderInv, InOrder, Progress, Sequence, IsMulti, Exists
  <2>2. CASE e = d
    BY <1>1, <1>5, <2>2 DEF InOrder, NoRows
  <2>. QED
    BY <2>1, <2>2
<1>9. HeldInv(d, Fee(t.amount))'
  <2>1. paid'[d].buyer = 0 /\ paid'[d].seller = 0
    BY <1>1 DEF Unfunded
  <2>2. Outstanding(d)' = t.amount
    BY <1>3, <1>5 DEF Outstanding, Settled
  <2>3. Held(d)' = t.amount - Fee(t.amount)
    BY <1>2, <1>3, <1>6, <2>1 DEF Held
  <2>. QED
    BY <1>3, <2>2, <2>3 DEF HeldInv
<1>. QED
  BY <1>3, <1>4, <1>5, <1>7, <1>8, <1>9 DEF Unfunded

\* The invariant of the orders is kept by every step.
LEMMA OrdersInvStep == OrdersInv /\ [OrdersNext]_allVars => OrdersInv'
<1>. SUFFICES ASSUME OrdersInv, [OrdersNext]_allVars PROVE OrdersInv'
  OBVIOUS
<1>0. /\ TypeOK /\ OrderInv /\ OrdersTypes
      /\ \A d \in Deals : HeldInv(d, Upfront(d)) /\ Unfunded(d) /\ NoRows(d)
      /\ request' \in [Requests -> RequestRow]
      /\ multisig \in [Deals -> MultisigRow]
  BY OrdersSteps DEF OrdersInv, OrdersTypes
<1>1. \A d \in Deals : ~Exists(d) => multisig[d] = NoMultisig
  BY <1>0 DEF OrdersTypes
<1>2. CASE [Next]_vars /\ multisig' = multisig
  <2>1. TypeOK' /\ OrderInv'
    BY <1>0, <1>2, TypeStep, OrderStep
  <2>2. ASSUME NEW d \in Deals
        PROVE  /\ HeldInv(d, Upfront(d))' /\ Unfunded(d)' /\ NoRows(d)'
               /\ Exists(d) => Exists(d)'
    <3>1. Unfunded(d)'
      BY <1>0, <1>2, UnfundedStep
    <3>2. CASE Exists(d)
      <4>1. PICK u \in Nat : u = Upfront(d)
        BY <1>0, <3>2, LedgerTypes, FeeType DEF Upfront
      <4>2. HeldInv(d, u)
        BY <1>0, <4>1
      <4>3. Exists(d)' /\ deal'[d].amount = deal[d].amount /\ HeldInv(d, u)'
        BY <1>0, <1>2, <3>2, <4>2, HeldStep
      <4>4. Upfront(d)' = u
        BY <1>2, <4>1, <4>3 DEF Upfront
      <4>5. HeldInv(d, Upfront(d))'
        BY <4>3, <4>4 DEF HeldInv
      <4>. QED
        BY <3>1, <4>3, <4>5 DEF NoRows
    <3>3. CASE ~Exists(d)
      <4>1. Upfront(d)' = 0
        BY <1>1, <1>2, <3>3 DEF Upfront
      <4>2. HeldInv(d, 0)'
        BY <1>0, <1>2, <3>3, CreatedHeld
      <4>3. HeldInv(d, Upfront(d))'
        BY <4>1, <4>2 DEF HeldInv
      <4>4. NoRows(d)'
        BY <1>0, <1>2, <3>3, RowsUntouched DEF NoRows
      <4>. QED
        BY <3>1, <3>3, <4>3, <4>4
    <3>. QED
      BY <3>2, <3>3
  <2>3. OrdersTypes'
    BY <1>0, <1>2, <2>2 DEF OrdersTypes
  <2>. QED
    BY <2>1, <2>2, <2>3 DEF OrdersInv
<1>3. ASSUME vars' = vars, NEW d \in Deals,
             \/ \E n \in Rounds, p \in Participants : SubmitRound(d, n, p)
             \/ DisputeMultisig(d)
      PROVE  OrdersInv'
  <2>1. UNCHANGED <<deal, ms, balance, fees, trust, accepting, sweep, paid>>
    BY <1>3 DEF vars
  <2>2. /\ multisig' \in [Deals -> MultisigRow]
        /\ \A e \in Deals : e # d => multisig'[e] = multisig[e]
        /\ multisig[d].state # "NONE" /\ multisig'[d].state # "NONE"
    BY <1>0, <1>3, KeyExchange
  <2>3. ASSUME NEW e \in Deals PROVE multisig'[e] = NoMultisig <=> multisig[e] = NoMultisig
    <3>1. CASE e = d
      <4>1. NoMultisig.state = "NONE"
        BY DEF NoMultisig
      <4>. QED
        BY <2>2, <3>1, <4>1
    <3>2. CASE e # d
      BY <2>2, <3>2
    <3>. QED
      BY <3>1, <3>2
  <2>4. OrdersTypes'
    BY <1>0, <2>1, <2>2, <2>3 DEF OrdersTypes, Exists, NoMultisig
  <2>5. TypeOK' /\ OrderInv'
    BY <1>0, <2>1 DEF TypeOK, OrderInv, InOrder, Progress, Sequence, IsMulti, Exists
  <2>6. \A e \in Deals : HeldInv(e, Upfront(e))' /\ Unfunded(e)' /\ NoRows(e)'
    <3>. SUFFICES ASSUME NEW e \in Deals
                  PROVE  HeldInv(e, Upfront(e))' /\ Unfunded(e)' /\ NoRows(e)'
      OBVIOUS
    <3>1. Upfront(e)' = Upfront(e)
      BY <2>1, <2>3 DEF Upfront
    <3>2. /\ Held(e)' = Held(e) /\ (CutShort(e)' <=> CutShort(e)) /\ (Exists(e)' <=> Exists(e))
      BY <2>1 DEF Held, CutShort, IsMulti, Exists
    <3>3. Outstanding(e)' = Outstanding(e)
      BY <2>1 DEF Outstanding, IsMulti, Sequence
    <3>. QED
      BY <1>0, <2>1, <3>1, <3>2, <3>3 DEF HeldInv, Unfunded, NoRows
  <2>. QED
    BY <2>4, <2>5, <2>6 DEF OrdersInv
\* what a step that creates deal d leaves of the others
<1>4. ASSUME NEW d \in Deals, Elsewhere(d), NEW e \in Deals, e # d,
             paid'[e] = paid[e], fees'[e] = fees[e], multisig'[e] = multisig[e]
      PROVE  /\ HeldInv(e, Upfront(e))' /\ Unfunded(e)' /\ NoRows(e)'
             /\ Exists(e)' <=> Exists(e)
  <2>1. Undisturbed(e) /\ ms'[e] = ms[e]
    BY <1>4 DEF Elsewhere, Undisturbed, Exists, KeepsTerms, KeepsTotals, KeepsMilestones
  <2>2. HeldInv(e, Upfront(e))' /\ Unfunded(e)' /\ (Exists(e)' <=> Exists(e))
    BY <1>0, <1>4, <2>1, OthersHeld
  <2>3. NoRows(e)'
    BY <1>0, <2>1, <2>2 DEF NoRows
  <2>. QED
    BY <2>2, <2>3
<1>5. ASSUME multisig' = multisig, NEW d \in Deals, NEW t \in Terms, CreateEscrow(d, t)
      PROVE  OrdersInv'
  <2>1. t \in Bodies
    BY TermsAreBodies
  <2>2. TypeOK' /\ OrderInv'
    BY <1>0, <1>5, <2>1, CreateType, CreateOrder
  <2>3. Elsewhere(d) /\ ~Exists(d) /\ Exists(d)' /\ paid' = paid /\ fees' = fees
    BY <1>0, <1>5, <2>1, CreationOwes
  <2>4. HeldInv(d, 0)' /\ Unfunded(d)'
    BY <1>0, <1>5, <2>1, CreationHeld
  <2>5. Upfront(d)' = 0
    BY <1>1, <1>5, <2>3 DEF Upfront
  <2>6. HeldInv(d, Upfront(d))' /\ NoRows(d)'
    BY <2>3, <2>4, <2>5 DEF HeldInv, NoRows
  <2>7. \A e \in Deals : e # d => /\ HeldInv(e, Upfront(e))' /\ Unfunded(e)' /\ NoRows(e)'
                                  /\ Exists(e)' <=> Exists(e)
    BY <1>4, <1>5, <2>3
  <2>8. OrdersTypes'
    BY <1>0, <1>5, <2>3, <2>7 DEF OrdersTypes
  <2>. QED
    BY <2>2, <2>4, <2>6, <2>7, <2>8 DEF OrdersInv
<1>6. ASSUME NEW d \in Deals, NEW t \in Terms, CreateMultisig(d, t) PROVE OrdersInv'
  <2>1. /\ TypeOK' /\ OrderInv' /\ Elsewhere(d) /\ Exists(d)'
        /\ HeldInv(d, Fee(t.amount))' /\ Unfunded(d)' /\ deal'[d].amount = t.amount
        /\ \A e \in Deals : e # d => paid'[e] = paid[e] /\ fees'[e] = fees[e]
    BY <1>0, <1>6, MultisigCreated
  <2>. DEFINE new == [state |-> SetupRound(1), rounds |-> {<<1, "hub">>}]
  <2>2. multisig' = [multisig EXCEPT ![d] = new]
    BY <1>6 DEF CreateMultisig
  <2>3. new \in MultisigRow /\ new.state # "NONE"
    <3>1. 1 \in Rounds /\ "hub" \in Participants /\ SetupRound(1) = "setup_round_1"
      BY DEF Rounds, Participants, SetupRound
    <3>. QED
      BY <3>1 DEF MultisigRow
  <2>. HIDE DEF new
  <2>4. /\ multisig' \in [Deals -> MultisigRow] /\ multisig'[d] = new
        /\ \A e \in Deals : e # d => multisig'[e] = multisig[e]
    BY <1>0, <2>2, <2>3
  <2>5. multisig'[d] # NoMultisig
    BY <2>3, <2>4 DEF NoMultisig
  <2>6. Upfront(d)' = Fee(t.amount)
    BY <2>1, <2>5 DEF Upfront
  <2>7. HeldInv(d, Upfront(d))' /\ NoRows(d)'
    BY <2>1, <2>6 DEF HeldInv, NoRows
  <2>8. \A e \in Deals : e # d => /\ HeldInv(e, Upfront(e))' /\ Unfunded(e)' /\ NoRows(e)'
                                  /\ Exists(e)' <=> Exists(e)
    BY <1>4, <2>1, <2>4
  <2>9. OrdersTypes'
    BY <1>0, <2>1, <2>3, <2>4, <2>8 DEF OrdersTypes
  <2>. QED
    BY <2>1, <2>7, <2>8, <2>9 DEF OrdersInv
<1>. QED
  BY <1>0, <1>2, <1>3, <1>5, <1>6, OrdersSteps

\* The invariant of the orders holds always.
LEMMA OrdersHold == OrdersSpec => []OrdersInv
<1>1. OrdersInit => OrdersInv
  <2>. SUFFICES ASSUME OrdersInit PROVE OrdersInv
    OBVIOUS
  <2>1. TypeOK
    BY InitType DEF OrdersInit
  <2>2. OrderInv
    BY DEF OrdersInit, Init, OrderInv, InOrder, Exists, NoDeal
  <2>3. OrdersTypes
    BY DEF OrdersInit, OrdersTypes, NoRequest, RequestRow, NoMultisig, MultisigRow
  <2>4. \A d \in Deals : HeldInv(d, Upfront(d)) /\ Unfunded(d) /\ NoRows(d)
    BY DEF OrdersInit, Init, HeldInv, Unfunded, NoRows, Exists, NoDeal, NoMilestone
  <2>. QED
    BY <2>1, <2>2, <2>3, <2>4 DEF OrdersInv
<1>. QED
  BY <1>1, OrdersInvStep, PTL DEF OrdersSpec

\* Whatever an order goes through, the hub holds exactly the unpaid part of
\* its deal, less the fee that a multisig deal has recorded ahead.
THEOREM OrdersAreHeld == OrdersSpec => []EveryOrderIsHeld
<1>1. OrdersInv => EveryOrderIsHeld
  BY DEF OrdersInv, HeldInv, EveryOrderIsHeld
<1>. QED
  BY <1>1, OrdersHold, PTL

\* Beside an order, too, a settled deal is final.
THEOREM OrdersSettleOnce == OrdersSpec => SettlesOnce
<1>1. OrdersInv /\ [OrdersNext]_allVars =>
        [\A d \in Deals : IsSettled(d) =>
            /\ deal'[d] = deal[d]
            /\ paid'[d] = paid[d]
            /\ fees'[d] = fees[d]]_vars
  <2>. SUFFICES ASSUME OrdersInv, [OrdersNext]_allVars, NEW d \in Deals, IsSettled(d)
                PROVE  deal'[d] = deal[d] /\ paid'[d] = paid[d] /\ fees'[d] = fees[d]
    OBVIOUS
  <2>1. TypeOK /\ OrdersTypes /\ deal[d] # NoDeal
    BY DEF OrdersInv, IsSettled, Settled, NoDeal
  <2>2. CASE [Next]_vars
    BY <2>1, <2>2, SettledStays
  <2>3. CASE vars' = vars
    BY <2>3 DEF vars
  <2>4. ASSUME NEW e \in Deals, NEW t \in Terms, CreateEscrow(e, t) \/ CreateMultisig(e, t)
        PROVE  deal'[d] = deal[d] /\ paid'[d] = paid[d] /\ fees'[d] = fees[d]
    BY <2>1, <2>4 DEF CreateEscrow, CreateMultisig, TypeOK
  <2>. QED
    BY <2>1, <2>2, <2>3, <2>4, OrdersSteps
<1>. QED
  BY <1>1, OrdersHold, PTL DEF OrdersSpec, SettlesOnce

\* A deal, once created, stays.
LEMMA DealsStay ==
    ASSUME OrdersInv, [OrdersNext]_allVars, NEW d \in Deals, Exists(d)
    PROVE  Exists(d)'
<1>1. /\ TypeOK /\ OrderInv /\ OrdersTypes /\ HeldInv(d, Upfront(d))
      /\ multisig \in [Deals -> MultisigRow]
  BY DEF OrdersInv, OrdersTypes
<1>2. CASE [Next]_vars
  <2>1. PICK u \in Nat : u = Upfront(d)
    BY <1>1, LedgerTypes, FeeType DEF Upfront
  <2>. QED
    BY <1>1, <1>2, <2>1, HeldStep
<1>3. CASE vars' = vars
  BY <1>3 DEF vars, Exists
<1>4. ASSUME NEW e \in Deals, NEW t \in Terms, CreateEscrow(e, t) \/ CreateMultisig(e, t)
      PROVE  Exists(d)'
  BY <1>1, <1>4 DEF CreateEscrow, CreateMultisig, TypeOK, Exists, NoDeal
<1>5. \/ [Next]_vars \/ vars' = vars
      \/ \E e \in Deals, t \in Terms : CreateEscrow(e, t) \/ CreateMultisig(e, t)
  BY <1>1, OrdersSteps
<1>. QED
  BY <1>2, <1>3, <1>4, <1>5

\* A contract belongs to a deal.  Whoever orders one needs an identifier no
\* deal has, so no contract is ever written over.
ContractsHaveDeals ==
    /\ contract \in [Deals -> ContractRow]
    /\ \A d \in Deals : contract[d].state # "NONE" => Exists(d)

\* What one step does to a contract
ContractMoves(d) ==
    \/ contract'[d] = contract[d]
    \/ ~Exists(d) /\ Exists(d)' /\ contract'[d] = [contract[d] EXCEPT !.state = "PROPOSED"]
    \/ /\ Exists(d) /\ contract'[d] \in ContractRow
       /\ \/ contract[d].state \in {"PROPOSED", "ACTIVE"}
          \/ contract[d].state = "DELIVERED" /\ contract'[d].state \in {"COMPLETED", "DISPUTED"}

\* Every action moves a contract by one of its transitions, if at all.
LEMMA ContractSteps ==
    ASSUME OrdersInv, ContractsHaveDeals, [OrdersNext]_allVars
    PROVE  /\ contract' \in [Deals -> ContractRow]
           /\ \A d \in Deals : ContractMoves(d)
<1>. DEFINE Goal == /\ contract' \in [Deals -> ContractRow]
                   /\ \A d \in Deals : ContractMoves(d)
<1>0. /\ contract \in [Deals -> ContractRow] /\ TypeOK
      /\ \A d \in Deals : contract[d].state # "NONE" => Exists(d)
  BY DEF ContractsHaveDeals, OrdersInv
<1>1. ASSUME UNCHANGED contract PROVE Goal
  BY <1>0, <1>1 DEF ContractMoves
<1>2. ASSUME NEW d \in Deals, NEW t \in Terms, Orders(d, t) PROVE Goal
  <2>1. ~Exists(d) /\ Exists(d)'
    BY <1>0, <1>2, TermsAreBodies, CreationOwes DEF Orders
  <2>2. [contract[d] EXCEPT !.state = "PROPOSED"] \in ContractRow
    BY <1>0 DEF ContractRow
  <2>. QED
    BY <1>0, <1>2, <2>1, <2>2 DEF Orders, ContractMoves
<1>3. ASSUME NEW d \in Deals, NEW from, NEW to, MoveContract(d, from, to),
             \/ from = {"PROPOSED"} /\ to = "ACTIVE"
             \/ from = {"ACTIVE"} /\ to = "DELIVERED"
             \/ from = {"DELIVERED"} /\ to = "COMPLETED"
             \/ from = {"ACTIVE", "DELIVERED"} /\ to = "DISPUTED"
      PROVE  Goal
  <2>1. contract' = [contract EXCEPT ![d].state = to] /\ contract[d].state \in from
    BY <1>3 DEF MoveContract
  <2>2. /\ [contract[d] EXCEPT !.state = to] \in ContractRow
        /\ [contract[d] EXCEPT !.state = to].state = to
    BY <1>0, <1>3 DEF ContractRow
  <2>3. Exists(d)
    BY <1>0, <1>3, <2>1
  <2>4. /\ contract'[d] = [contract[d] EXCEPT !.state = to]
        /\ \A e \in Deals : e # d => contract'[e] = contract[e]
        /\ contract' \in [Deals -> ContractRow]
    BY <1>0, <2>1, <2>2
  <2>. QED
    BY <1>3, <2>1, <2>2, <2>3, <2>4 DEF ContractMoves
<1>4. ASSUME NEW d \in Deals, ContractDeadline(d) PROVE Goal
  <2>1. [contract[d] EXCEPT !.overdue = TRUE] \in ContractRow
    BY <1>0 DEF ContractRow
  <2>. QED
    BY <1>0, <1>4, <2>1 DEF ContractDeadline, ContractMoves
<1>5. ASSUME NEW w \in Workers, Enforce(w) PROVE Goal
  <2>1. \A d \in Deals : [contract[d] EXCEPT !.state = "BREACHED"] \in ContractRow
    BY <1>0 DEF ContractRow
  <2>2. contract' = [d \in Deals |->
             IF d \in enforcing[w] /\ Breachable(d)
             THEN [contract[d] EXCEPT !.state = "BREACHED"] ELSE contract[d]]
    BY <1>5 DEF Enforce
  <2>3. contract' \in [Deals -> ContractRow]
    BY <1>0, <2>1, <2>2
  <2>4. ASSUME NEW d \in Deals PROVE ContractMoves(d)
    BY <1>0, <2>1, <2>2 DEF ContractMoves, Breachable
  <2>. QED
    BY <2>3, <2>4
<1>6. ASSUME NEW d \in Deals,
             AcceptContract(d) \/ DeliverContract(d) \/ VerifyContract(d) \/ DisputeContract(d)
      PROVE  Goal
  BY <1>3, <1>6 DEF AcceptContract, DeliverContract, VerifyContract, DisputeContract
<1>7. ASSUME NEW d \in Deals, NEW t \in Terms, CreateContract(d, t) \/ CreateMultisig(d, t)
      PROVE  Goal
  BY <1>1, <1>2, <1>7 DEF CreateContract, CreateMultisig
<1>8. ASSUME NEW r \in Requests, NEW t \in Terms, Assign(r, t) PROVE Goal
  BY <1>1, <1>2, <1>8 DEF Assign
<1>9. ASSUME NEW r \in Requests, CreateRequest(r) \/ AcceptMatch(r) PROVE Goal
  <2>1. \A t \in request[r].chosen : t \in Terms
    BY DEF OrdersInv, OrdersTypes, RequestRow
  <2>. QED
    BY <1>1, <1>8, <1>9, <2>1 DEF CreateRequest, AcceptMatch
<1>10. ASSUME \/ UNCHANGED allVars
              \/ Next /\ UNCHANGED orderVars
              \/ \E d \in Deals : \/ \E n \in Rounds, p \in Participants : SubmitRound(d, n, p)
                                 \/ DisputeMultisig(d)
              \/ \E w \in Workers : ListContracts(w) \/ EnforceRollsBack(w)
       PROVE  Goal
  BY <1>1, <1>10 DEF allVars, orderVars, SubmitRound, DisputeMultisig, ListContracts,
                     EnforceRollsBack
<1>11. CASE OrdersNext
  <2>1. CASE \E d \in Deals :
                \/ \E t \in Terms : CreateContract(d, t) \/ CreateMultisig(d, t)
                \/ AcceptContract(d) \/ DeliverContract(d)
                \/ VerifyContract(d) \/ DisputeContract(d)
                \/ ContractDeadline(d)
                \/ \E n \in Rounds, p \in Participants : SubmitRound(d, n, p)
                \/ DisputeMultisig(d)
    BY <1>4, <1>6, <1>7, <1>10, <2>1
  <2>2. CASE \E w \in Workers : ListContracts(w) \/ Enforce(w) \/ EnforceRollsBack(w)
    BY <1>5, <1>10, <2>2
  <2>3. CASE \E r \in Requests : CreateRequest(r) \/ AcceptMatch(r)
    BY <1>9, <2>3
  <2>. QED
    BY <1>10, <1>11, <2>1, <2>2, <2>3 DEF OrdersNext
<1>12. Goal
  BY <1>10, <1>11
<1>. QED
  BY <1>12

\* A contract that was delivered before an enforcement pass commits is not
\* breached by it, nor is one that has ended, however old the pass's list is.
THEOREM ContractsAreFinal == OrdersSpec => ContractsEndOnce
<1>1. OrdersInit => ContractsHaveDeals
  BY DEF OrdersInit, ContractsHaveDeals, NoContract, ContractRow
<1>2. OrdersInv /\ ContractsHaveDeals /\ [OrdersNext]_allVars => ContractsHaveDeals'
  BY ContractSteps, DealsStay DEF ContractsHaveDeals, ContractMoves
<1>3. OrdersInv /\ ContractsHaveDeals /\ [OrdersNext]_allVars
        => [\A d \in Deals : ContractStays(d)]_allVars
  <2>. SUFFICES ASSUME OrdersInv, ContractsHaveDeals, [OrdersNext]_allVars, NEW d \in Deals
                PROVE  ContractStays(d)
    OBVIOUS
  <2>1. ContractMoves(d) /\ (contract[d].state # "NONE" => Exists(d))
    BY ContractSteps DEF ContractsHaveDeals
  <2>2. CASE contract[d].state \in {"COMPLETED", "BREACHED", "DISPUTED"}
    BY <2>1, <2>2 DEF ContractStays, ContractMoves
  <2>3. CASE contract[d].state = "DELIVERED"
    BY <2>1, <2>3 DEF ContractStays, ContractMoves
  <2>. QED
    BY <2>2, <2>3 DEF ContractStays
<1>. QED
  BY <1>1, <1>2, <1>3, OrdersHold, PTL DEF OrdersSpec, ContractsEndOnce
=============================================================================
