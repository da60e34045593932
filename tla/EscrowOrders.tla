---------------------------- MODULE EscrowOrders ----------------------------
(***************************************************************************)
(* What is built on hub-held escrow: service-level contracts               *)
(* (sthrip/services/sla_service.py), the match requests that end in one    *)
(* (matchmaking_service.py), and 2-of-3 multisig deals                     *)
(* (multisig_coordinator.py).                                              *)
(*                                                                         *)
(* Each of them creates an ordinary row of escrow_deals and keeps a state  *)
(* of its own beside it.  Nothing joins the two from then on: the parties, *)
(* deadlines and expiry loops of Escrow work on the deal, and the actions  *)
(* below on the contract or the key exchange, each as if alone.            *)
(*                                                                         *)
(* Left out are the operations nothing in the program calls:               *)
(* initiate_release, without which cosign_release always refuses, and the  *)
(* expiry of match requests.                                               *)
(***************************************************************************)
EXTENDS Escrow

CONSTANTS
    Terms,       \* bodies of POST /v2/sla/contracts and multisig escrows
    Requests     \* match requests

ASSUME TermsAssumption ==
    Terms \subseteq [buyer : Agents, seller : Agents, amount : Nat, milestones : {<<>>}]

VARIABLES
    contract,    \* the SLA contract of each deal, if any
    enforcing,   \* per worker: the overdue contracts its pass has listed
    request,     \* match_requests
    multisig     \* multisig_escrows and multisig_rounds of each deal, if any

orderVars == <<contract, enforcing, request, multisig>>
allVars == <<vars, orderVars>>

NoContract == [state |-> "NONE", overdue |-> FALSE]
ContractRow ==
    [state : {"NONE", "PROPOSED", "ACTIVE", "DELIVERED", "COMPLETED", "BREACHED", "DISPUTED"},
     overdue : BOOLEAN]

\* chosen: the template of the agent that matched
NoRequest == [state |-> "NONE", chosen |-> {}]
RequestRow ==
    [state : {"NONE", "SEARCHING", "MATCHED", "ASSIGNED"},
     chosen : SUBSET Terms]

Participants == {"buyer", "seller", "hub"}
Rounds == 1..3
NoMultisig == [state |-> "NONE", rounds |-> {}]
SetupRound(n) == <<"setup_round_1", "setup_round_2", "setup_round_3">>[n]
MultisigRow ==
    [state : {"NONE", "funded", "disputed"} \cup {SetupRound(n) : n \in Rounds},
     rounds : SUBSET (Rounds \X Participants)]

OrdersInit ==
    /\ Init
    /\ contract = [d \in Deals |-> NoContract]
    /\ enforcing = [w \in Workers |-> {}]
    /\ request = [r \in Requests |-> NoRequest]
    /\ multisig = [d \in Deals |-> NoMultisig]

-----------------------------------------------------------------------------
(* Service-level contracts *)

\* SLAService.create_contract: the deal, then the contract, in one transaction
Orders(d, t) ==
    /\ CreateEscrow(d, t)
    /\ contract' = [contract EXCEPT ![d].state = "PROPOSED"]

CreateContract(d, t) ==
    /\ Orders(d, t)
    /\ UNCHANGED <<enforcing, request, multisig>>

MoveContract(d, from, to) ==
    /\ contract[d].state \in from
    /\ contract' = [contract EXCEPT ![d].state = to]
    /\ UNCHANGED <<vars, enforcing, request, multisig>>

\* accept and activate at once; the escrow deal is accepted by itself, or not
AcceptContract(d) == MoveContract(d, {"PROPOSED"}, "ACTIVE") /\ deal[d].seller \in Active
DeliverContract(d) == MoveContract(d, {"ACTIVE"}, "DELIVERED") /\ deal[d].seller \in Active
VerifyContract(d) == MoveContract(d, {"DELIVERED"}, "COMPLETED") /\ deal[d].buyer \in Active
DisputeContract(d) == MoveContract(d, {"ACTIVE", "DELIVERED"}, "DISPUTED")

\* The response time or the delivery time is over
ContractDeadline(d) ==
    /\ contract[d].state = "ACTIVE"
    /\ ~contract[d].overdue
    /\ contract' = [contract EXCEPT ![d].overdue = TRUE]
    /\ UNCHANGED <<vars, enforcing, request, multisig>>

\* Mutant: contracts whose deal is settled are not looked at
PastDeadlineWithDeal ==
    {d \in Deals : contract[d].state = "ACTIVE" /\ contract[d].overdue /\ deal[d].status \in Open}

\* SLAContractRepository.get_active_past_deadline
PastDeadline == {d \in Deals : contract[d].state = "ACTIVE" /\ contract[d].overdue}

ListContracts(w) ==
    /\ enforcing[w] = {}
    /\ PastDeadline # {}
    /\ enforcing' = [enforcing EXCEPT ![w] = PastDeadline]
    /\ UNCHANGED <<vars, contract, request, multisig>>

\* Mutant: the update has no condition on the state
BreachableAny(d) == d \in Deals

\* The guarded update of SLAContractRepository.breach
Breachable(d) == contract[d].state = "ACTIVE"

\* The breaches of a pass commit together
Enforce(w) ==
    /\ enforcing[w] # {}
    /\ contract' = [d \in Deals |->
           IF d \in enforcing[w] /\ Breachable(d)
           THEN [contract[d] EXCEPT !.state = "BREACHED"] ELSE contract[d]]
    /\ enforcing' = [enforcing EXCEPT ![w] = {}]
    /\ UNCHANGED <<vars, request, multisig>>

EnforceRollsBack(w) ==
    /\ enforcing[w] # {}
    /\ enforcing' = [enforcing EXCEPT ![w] = {}]
    /\ UNCHANGED <<vars, contract, request, multisig>>

-----------------------------------------------------------------------------
(* Match requests *)

\* _create_sla_for_match: if the template is withdrawn by now, or the contract
\* refused, that is logged and the request is assigned all the same
Assign(r, t) ==
    /\ \/ \E d \in Deals : Orders(d, t)
       \/ UNCHANGED <<vars, contract>>
    /\ request' = [request EXCEPT ![r] = [state |-> "ASSIGNED", chosen |-> {t}]]
    /\ UNCHANGED <<enforcing, multisig>>

\* Whether an agent's template fits the request, and whether it is to be
\* assigned at once, are the request's own data
CreateRequest(r) ==
    /\ request[r] = NoRequest
    /\ \/ /\ request' = [request EXCEPT ![r].state = "SEARCHING"]
          /\ UNCHANGED <<vars, contract, enforcing, multisig>>
       \/ \E t \in Terms :
            \/ Assign(r, t)
            \/ /\ request' = [request EXCEPT ![r] = [state |-> "MATCHED", chosen |-> {t}]]
               /\ UNCHANGED <<vars, contract, enforcing, multisig>>

\* The only condition is that an agent has matched
AcceptMatch(r) == \E t \in request[r].chosen : Assign(r, t)

-----------------------------------------------------------------------------
(* Multisig deals *)

\* The whole amount is deducted and owed by the deal, and 1% of it recorded as
\* a fee that is collected already; the hub submits its part of round 1
CreateMultisig(d, t) ==
    /\ deal[d] = NoDeal
    /\ Valid(t)
    /\ balance[t.buyer] >= t.amount
    /\ balance' = [balance EXCEPT ![t.buyer] = @ - t.amount]
    /\ deal' = [deal EXCEPT ![d] = Row(t)]
    /\ fees' = [fees EXCEPT ![d] = Fee(t.amount)]
    /\ multisig' = [multisig EXCEPT ![d] =
           [state |-> SetupRound(1), rounds |-> {<<1, "hub">>}]]
    /\ UNCHANGED <<ms, trust, accepting, sweep, paid, contract, enforcing, request>>

Submitted(rows, n) == {p \in Participants : <<n, p>> \in rows}

\* count_round_submissions >= 3
RoundComplete(rows, n) == Cardinality(Submitted(rows, n)) >= 3

\* The last part of a round opens the next one, with the hub's part of it, or
\* ends the exchange.  One part per participant and round is unique.
SubmitRound(d, n, p) ==
    /\ multisig[d].state = SetupRound(n)
    /\ <<n, p>> \notin multisig[d].rounds
    /\ LET rows == multisig[d].rounds \cup {<<n, p>>}
       IN  multisig' = [multisig EXCEPT ![d] =
               IF ~RoundComplete(rows, n) THEN [@ EXCEPT !.rounds = rows]
               ELSE IF n = 3 THEN [state |-> "funded", rounds |-> rows]
               ELSE [state |-> SetupRound(n + 1), rounds |-> rows \cup {<<n + 1, "hub">>}]]
    /\ UNCHANGED <<vars, contract, enforcing, request>>

DisputeMultisig(d) ==
    /\ multisig[d].state # "NONE"
    /\ multisig' = [multisig EXCEPT ![d].state = "disputed"]
    /\ UNCHANGED <<vars, contract, enforcing, request>>

-----------------------------------------------------------------------------

OrdersNext ==
    \/ Next /\ UNCHANGED orderVars
    \/ \E d \in Deals :
          \/ \E t \in Terms : CreateContract(d, t) \/ CreateMultisig(d, t)
          \/ AcceptContract(d) \/ DeliverContract(d)
          \/ VerifyContract(d) \/ DisputeContract(d)
          \/ ContractDeadline(d)
          \/ \E n \in Rounds, p \in Participants : SubmitRound(d, n, p)
          \/ DisputeMultisig(d)
    \/ \E w \in Workers : ListContracts(w) \/ Enforce(w) \/ EnforceRollsBack(w)
    \/ \E r \in Requests : CreateRequest(r) \/ AcceptMatch(r)

OrdersSpec == OrdersInit /\ [][OrdersNext]_allVars

\* Besides the fairness of Escrow: the loop of main_v2.py lists overdue
\* contracts again and again, and not every pass of it is rolled back.
Beside(A) == A /\ UNCHANGED orderVars
OrdersFairness ==
    /\ \A d \in Deals : WF_allVars(Beside(DealDeadline(d)))
    /\ \A d \in Deals, i \in Slots : WF_allVars(Beside(MilestoneDeadline(d, i)))
    /\ \A d \in Deals : WF_allVars(Beside(AcceptCommits(d) \/ AcceptRollsBack(d)))
    /\ \A w \in Workers : WF_allVars(Beside(Sweep(w)))
    /\ WF_allVars(\E w \in Workers : ListContracts(w))
    /\ SF_allVars(\E w \in Workers : Enforce(w))

FairOrdersSpec == OrdersSpec /\ OrdersFairness

-----------------------------------------------------------------------------
(* Properties *)

\* The fee a multisig deal has paid before its release is paid for
Upfront(d) == IF multisig[d] = NoMultisig THEN 0 ELSE Fee(deal[d].amount)

\* Whatever the order a deal belongs to goes through, and however the expiry
\* loops overlap with it: the hub holds exactly the unpaid part of the deal,
\* less the fee that a multisig deal has recorded ahead, which the release
\* records once more.
EveryOrderIsHeld ==
    \A d \in Deals : Exists(d) /\ ~CutShort(d) => Held(d) = Outstanding(d) - Upfront(d)

ContractStays(d) ==
    CASE contract[d].state \in {"COMPLETED", "BREACHED", "DISPUTED"} -> contract'[d] = contract[d]
      [] contract[d].state = "DELIVERED" -> contract'[d].state \in {"DELIVERED", "COMPLETED", "DISPUTED"}
      [] OTHER -> TRUE

\* A contract that was delivered before an enforcement pass commits is not
\* breached by it, nor is one that has ended, however old the pass's list is.
ContractsEndOnce == [][\A d \in Deals : ContractStays(d)]_allVars

\* A contract whose deadline has gone by does not stay active for ever, also
\* when its deal is settled before it.
OverdueContractsEnd ==
    \A d \in Deals : d \in PastDeadline ~> contract[d].state # "ACTIVE"
=============================================================================
