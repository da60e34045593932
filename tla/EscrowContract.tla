--------------------------- MODULE EscrowContract ---------------------------
(***************************************************************************)
(* What an escrow promises its two parties, without milestones, deadlines  *)
(* or expiry loops: the buyer's deposit is handed out in one or more       *)
(* payments that never exceed what is left, and the contract closes        *)
(* exactly when nothing is left.  Only a list of milestones cut short by a *)
(* deadline is excused from paying out exactly (stage "cut").              *)
(***************************************************************************)
EXTENDS Integers

CONSTANTS Agents, Deals, Funds

VARIABLES
    contract,   \* per deal: its stage, its parties and what is left to pay
    balance,    \* money of each agent outside escrow
    fees        \* fees taken from each deal

vars == <<contract, balance, fees>>

None == [stage |-> "none"]

Init ==
    /\ contract = [d \in Deals |-> None]
    /\ balance = Funds
    /\ fees = [d \in Deals |-> 0]

Fund(d) ==
    /\ contract[d] = None
    /\ contract'[d].stage = "open"
    /\ LET c == contract'[d]
       IN  /\ c.left > 0
           /\ c.buyer # c.seller
           /\ c.left <= balance[c.buyer]
           /\ balance' = [balance EXCEPT ![c.buyer] = @ - c.left]
           /\ contract' = [contract EXCEPT ![d] = c]
    /\ UNCHANGED fees

\* The parties' money changes by what the contract hands out, and only theirs
HandsOut(d) ==
    LET c == contract[d]
    IN  /\ balance'[c.buyer] >= balance[c.buyer]
        /\ balance'[c.seller] >= balance[c.seller]
        /\ balance' = [balance EXCEPT ![c.buyer] = balance'[c.buyer],
                                      ![c.seller] = balance'[c.seller]]
        /\ fees' = [fees EXCEPT ![d] = fees'[d]]
        /\ fees'[d] >= fees[d]

Payment(d) ==
    LET c == contract[d]
    IN  (balance'[c.buyer] - balance[c.buyer])
            + (balance'[c.seller] - balance[c.seller]) + (fees'[d] - fees[d])

PayOut(d) ==
    /\ contract[d].stage = "open"
    /\ HandsOut(d)
    /\ Payment(d) > 0
    /\ Payment(d) <= contract[d].left
    /\ contract' = [contract EXCEPT ![d].left = @ - Payment(d),
                                    ![d].stage = IF Payment(d) = contract[d].left
                                                 THEN "closed" ELSE "open"]

CutShort(d) ==
    /\ contract[d].stage = "open"
    /\ HandsOut(d)
    /\ contract' = [contract EXCEPT ![d].stage = "cut", ![d].left = 0]

Next == \E d \in Deals : Fund(d) \/ PayOut(d) \/ CutShort(d)

Spec == Init /\ [][Next]_vars
=============================================================================
