------------------------------ MODULE Deposits ------------------------------
(***************************************************************************)
(* The deposit monitor (sthrip/services/deposit_monitor.py) with the       *)
(* wallet query it is built on and the balances it credits.                *)
(*                                                                         *)
(* Every API instance runs a monitor.  A poll takes the Redis lock, asks   *)
(* the wallet for the transfers at or above its own height cursor, records *)
(* and credits them in one transaction, and only after the commit raises   *)
(* the cursor it keeps in memory; a copy of the cursor goes into the       *)
(* transaction for the next start.  The lock lives twice as long as the    *)
(* interval between polls: a poll that takes longer loses it and another   *)
(* monitor polls at the same time.  A monitor may crash at any point.      *)
(*                                                                         *)
(* A transfer is an output of a transaction of the chain: a transaction    *)
(* may have several, to several agents, or one to an address no agent has. *)
(* Blocks are not reorganised: the code has no step for it.                *)
(***************************************************************************)
EXTENDS Integers, FiniteSetsExt

CONSTANTS
    Monitors,          \* API instances
    Agents,
    Transfers,         \* positions in the wallet's list of transfers
    TxHash,            \* the transaction each transfer belongs to
    Owner,             \* the agent with the transfer's address, or NoAgent
    Amount,
    NoAgent,
    MinConfirmations,
    TopHeight          \* bound on the height of the chain

TxHashes == {TxHash[t] : t \in Transfers}
Free == "free"     \* the lock has no holder

ASSUME TransfersAssumption ==
    /\ Transfers \subseteq Nat
    /\ IsFiniteSet(Transfers)
    /\ IsFiniteSet(Agents)
    /\ NoAgent \notin Agents
    /\ Free \notin Monitors
    /\ Owner \in [Transfers -> Agents \cup {NoAgent}]
    /\ Amount \in [Transfers -> Nat \ {0}]
    /\ DOMAIN TxHash = Transfers
    /\ MinConfirmations \in Nat
    /\ TopHeight \in Nat

VARIABLES
    top,         \* height of the chain
    height,      \* block of each transfer, 0 while it is in none
    row,         \* transactions: one row per transaction hash
    available,   \* agent_balances.available, what deposits brought
    pending,     \* agent_balances.pending
    saved,       \* SystemState["last_scanned_height"]
    lock,        \* holder of the Redis lock, or Free
    monitor,     \* per instance: DepositMonitor and the poll it is in
    overlapped   \* history: a poll has outlived its lock

vars == <<top, height, row, available, pending, saved, lock, monitor, overlapped>>
ledger == <<row, available, pending, saved>>

NoRow == [status |-> "NONE"]
RowOf(t, status) == [status |-> status, agent |-> Owner[t], amount |-> Amount[t]]
Row == {NoRow} \cup {RowOf(t, s) : t \in Transfers, s \in {"PENDING", "CONFIRMED"}}

Down == [pc |-> "down"]
Waiting(cursor) == [pc |-> "waiting", cursor |-> cursor]
\* batch: the wallet's answer, at a height of the chain; seen: the rows when it came
Polling(cursor, at, batch) ==
    [pc |-> "polling", cursor |-> cursor, at |-> at, batch |-> batch, seen |-> row]

Heights == 0..TopHeight
MonitorState ==
    {Down} \cup {Waiting(c) : c \in Heights}
           \cup [pc : {"polling"}, cursor : Heights, at : Heights,
                batch : SUBSET Transfers, seen : [TxHashes -> Row]]

TypeOK ==
    /\ top \in Heights
    /\ height \in [Transfers -> Heights]
    /\ row \in [TxHashes -> Row]
    /\ available \in [Agents -> Nat]
    /\ pending \in [Agents -> Nat]
    /\ saved \in Heights
    /\ lock \in Monitors \cup {Free}
    /\ monitor \in [Monitors -> MonitorState]
    /\ overlapped \in BOOLEAN

Init ==
    /\ top = 0
    /\ height = [t \in Transfers |-> 0]
    /\ row = [h \in TxHashes |-> NoRow]
    /\ available = [a \in Agents |-> 0]
    /\ pending = [a \in Agents |-> 0]
    /\ saved = 0
    /\ lock = Free
    /\ monitor = [m \in Monitors |-> Down]
    /\ overlapped = FALSE

-----------------------------------------------------------------------------
(* The chain *)

\* A block with the transactions ts: all transfers of one are in one block
Mine(hashes) ==
    /\ top < TopHeight
    /\ \A t \in Transfers : TxHash[t] \in hashes => height[t] = 0
    /\ top' = top + 1
    /\ height' = [t \in Transfers |-> IF TxHash[t] \in hashes THEN top + 1 ELSE height[t]]
    /\ UNCHANGED <<ledger, lock, monitor, overlapped>>

\* Mutant: only transfers above the cursor
IncomingAbove(cursor) == {t \in Transfers : height[t] > cursor}

\* WalletService.get_incoming_transfers(min_height) at a height of the chain
Incoming(cursor) == {t \in Transfers : height[t] # 0 /\ height[t] >= cursor}

Confirmed(t, at) == at - height[t] >= MinConfirmations

-----------------------------------------------------------------------------
(* One poll *)

\* start, load_persisted_height
Start(m) ==
    /\ monitor[m] = Down
    /\ monitor' = [monitor EXCEPT ![m] = Waiting(saved)]
    /\ UNCHANGED <<top, height, ledger, lock, overlapped>>

\* SET NX, then the wallet's answer; a poll that finds nothing ends at once
BeginPoll(m) ==
    /\ monitor[m].pc = "waiting"
    /\ lock = Free
    /\ Incoming(monitor[m].cursor) # {}
    /\ lock' = m
    /\ monitor' = [monitor EXCEPT ![m] = Polling(@.cursor, top, Incoming(@.cursor))]
    /\ UNCHANGED <<top, height, ledger, overlapped>>

\* compare-and-delete: only one's own lock is given back
Unlocked(m) == IF lock = m THEN Free ELSE lock

\* What the transfers of one transaction come to, in the order of the wallet's
\* list, when the poll reads its row as "seen".  The first transfer creates the
\* row; an insertion that meets another monitor's row is skipped, and the next
\* transfer of the same transaction finds that row.
Matched(h, batch) == {t \in batch : TxHash[t] = h /\ Owner[t] # NoAgent}
Inserts(h, batch, seen) == Matched(h, batch) # {} /\ seen[h] = NoRow /\ row[h] = NoRow
LostInsert(h, batch, seen) == Matched(h, batch) # {} /\ seen[h] = NoRow /\ row[h] # NoRow
Handled(h, batch, seen) ==
    IF LostInsert(h, batch, seen)
    THEN Matched(h, batch) \ {Min(Matched(h, batch))}
    ELSE Matched(h, batch)
Found(h, seen) == IF seen[h] = NoRow THEN row[h] ELSE seen[h]

\* Mutant: a row that is already confirmed is credited again
ConfirmsAny(h, batch, at, seen) ==
    /\ Handled(h, batch, seen) # {}
    /\ Found(h, seen) # NoRow
    /\ Confirmed(Min(Handled(h, batch, seen)), at)

\* _handle_existing_transfer decides on the row as it read it, without a lock
Confirms(h, batch, at, seen) ==
    /\ Handled(h, batch, seen) # {}
    /\ Found(h, seen).status = "PENDING"
    /\ Confirmed(Min(Handled(h, batch, seen)), at)

NewRow(h, batch, at) ==
    LET first == Min(Matched(h, batch))
    IN  RowOf(first, IF Confirmed(first, at) THEN "CONFIRMED" ELSE "PENDING")

\* The rows after _process_transfers
RowsAfter(batch, at, seen) ==
    [h \in TxHashes |->
        CASE Inserts(h, batch, seen) -> NewRow(h, batch, at)
          [] Confirms(h, batch, at, seen) -> [row[h] EXCEPT !.status = "CONFIRMED"]
          [] OTHER -> row[h]]

\* Transactions by the balance they change: of a new row its agent's, of one
\* confirmed that of the agent whose transfer was matched
Created(a, status, batch, at, seen) ==
    {h \in TxHashes : /\ Inserts(h, batch, seen)
                      /\ NewRow(h, batch, at).status = status
                      /\ NewRow(h, batch, at).agent = a}
ConfirmedFor(a, batch, at, seen) ==
    {h \in TxHashes : /\ Confirms(h, batch, at, seen)
                      /\ Owner[Min(Handled(h, batch, seen))] = a}

\* The deposits an agent gets
Deposited(a, batch, at, seen) ==
    SumFunction([h \in Created(a, "CONFIRMED", batch, at, seen) |-> NewRow(h, batch, at).amount])
  + SumFunction([h \in ConfirmedFor(a, batch, at, seen) |-> Found(h, seen).amount])

Added(a, batch, at, seen) ==
    SumFunction([h \in Created(a, "PENDING", batch, at, seen) |-> NewRow(h, batch, at).amount])

\* What clear_pending_on_confirm takes from pending
Cleared(a, batch, at, seen) ==
    SumFunction([h \in ConfirmedFor(a, batch, at, seen) |-> Found(h, seen).amount])

\* Mutant: the underflow is not caught
Unchecked(amount) == amount

\* clear_pending_on_confirm stops at 0
AtLeastZero(amount) == Max({amount, 0})

\* The cursor after the batch: the highest block seen, matched or not
MaxHeight(cursor, batch) == Max({cursor} \cup {height[t] : t \in batch})

\* Mutant: the cursor in memory is raised although the transaction failed
RaisedAnyway(m) == Waiting(MaxHeight(monitor[m].cursor, monitor[m].batch))

\* _last_height after a poll that did not commit
AfterFailure(m) == Waiting(monitor[m].cursor)

\* Each row is read at some moment between the wallet's answer and the commit
Readings(old) ==
    {[h \in TxHashes |-> IF h \in late THEN row[h] ELSE old[h]] :
        late \in SUBSET {h \in TxHashes : row[h] # old[h]}}

\* The transaction commits: a poll beside another may act on old rows
CommitPoll(m) ==
    /\ monitor[m].pc = "polling"
    /\ LET p == monitor[m]
           reached == MaxHeight(p.cursor, p.batch)
       IN  \E seen \in Readings(p.seen) :
             /\ row' = RowsAfter(p.batch, p.at, seen)
             /\ available' = [a \in Agents |->
                    available[a] + Deposited(a, p.batch, p.at, seen)]
             /\ pending' = [a \in Agents |->
                    AtLeastZero(pending[a] + Added(a, p.batch, p.at, seen)
                                           - Cleared(a, p.batch, p.at, seen))]
             /\ saved' = reached
             /\ monitor' = [monitor EXCEPT ![m] = Waiting(reached)]
    /\ lock' = Unlocked(m)
    /\ UNCHANGED <<top, height, overlapped>>

\* The wallet, the database or a lock fails: rolled back, polled again later
PollFails(m) ==
    /\ monitor[m].pc = "polling"
    /\ monitor' = [monitor EXCEPT ![m] = AfterFailure(m)]
    /\ lock' = Unlocked(m)
    /\ UNCHANGED <<top, height, ledger, overlapped>>

\* The lock of a poll that takes too long, or of a monitor that crashed
LockExpires ==
    /\ lock # Free
    /\ lock' = Free
    /\ overlapped' = (overlapped \/ monitor[lock].pc = "polling")
    /\ UNCHANGED <<top, height, ledger, monitor>>

Crash(m) ==
    /\ monitor[m] # Down
    /\ monitor' = [monitor EXCEPT ![m] = Down]
    /\ UNCHANGED <<top, height, ledger, lock, overlapped>>

Next ==
    \/ \E hashes \in SUBSET TxHashes : Mine(hashes)
    \/ LockExpires
    \/ \E m \in Monitors :
        Start(m) \/ BeginPoll(m) \/ CommitPoll(m) \/ PollFails(m) \/ Crash(m)

Spec == Init /\ [][Next]_vars

\* The chain grows, the lock has a time to live, a stopped instance is started
\* again, and the loop of start() retries: polls do not fail for ever.
Fairness ==
    /\ WF_vars(\E hashes \in SUBSET TxHashes : Mine(hashes))
    /\ WF_vars(LockExpires)
    /\ WF_vars(\E m \in Monitors : Start(m))
    /\ SF_vars(\E m \in Monitors : BeginPoll(m))
    /\ SF_vars(\E m \in Monitors : CommitPoll(m))

FairSpec == Spec /\ Fairness

-----------------------------------------------------------------------------
(* Properties *)

RowsOf(a, status) == {h \in TxHashes : row[h].status = status /\ row[h].agent = a}
Due(a, status) == SumFunction([h \in RowsOf(a, status) |-> row[h].amount])

\* As long as no poll outlives its lock, what an agent has available and what
\* it has pending is exactly what the rows of its transactions say, through
\* failed polls, crashes and cursors that differ between instances: no deposit
\* is credited twice, none leaves pending without becoming available.  A poll
\* that does outlive its lock may credit a deposit twice, or to the agent of
\* another output of its transaction, but never loses one.
LedgerMatchesRows ==
    /\ ~overlapped => \A a \in Agents : /\ available[a] = Due(a, "CONFIRMED")
                                        /\ pending[a] = Due(a, "PENDING")
    /\ SumFunction(available) >= SumFunction([a \in Agents |-> Due(a, "CONFIRMED")])

\* A transaction has one row, that of its first transfer to an agent: the others find
\* it by the hash and are taken for recorded (deposit_monitor.py:257).  So what
\* follows is about first transfers, as the row tells them by agent and amount.
First(h) == Min(Matched(h, Transfers))
IsFirst(t) == Owner[t] # NoAgent /\ t = First(TxHash[t])
Recorded(t) == row[TxHash[t]] \in {RowOf(t, "PENDING"), RowOf(t, "CONFIRMED")}
Credited(t) == row[TxHash[t]] = RowOf(t, "CONFIRMED")

\* The first transfer of a transaction, once below the cursor of any monitor or the
\* one saved for the next start, has a row for its own agent and amount, not for
\* another output's: whichever polls fail, crash or overlap, and whichever output
\* a lost insertion leaves the row to.
CursorPassed(cursor) ==
    \A t \in Transfers : height[t] \in 1..cursor - 1 /\ IsFirst(t) => Recorded(t)
FirstTransfersAreRecorded ==
    /\ CursorPassed(saved)
    /\ \A m \in Monitors : monitor[m] # Down => CursorPassed(monitor[m].cursor)

CanConfirm(t) == height[t] # 0 /\ height[t] + MinConfirmations <= TopHeight /\ Owner[t] # NoAgent

\* The first transfer of a transaction has its row confirmed once it has its
\* confirmations, or there is a transfer in a later block by then.  That the
\* confirmed amount is its agent's is LedgerMatchesRows.
LatestDepositIsCredited ==
    \A t \in Transfers : IsFirst(t) =>
        (CanConfirm(t) ~> (Credited(t) \/ \E u \in Transfers : height[u] > height[t]))

\* "Credit balance when confirmations >= min_confirmations", of each transfer that
\* is fetched: every deposit is credited in the end.
EveryDepositIsCredited == \A t \in Transfers : CanConfirm(t) ~> Credited(t)
=============================================================================
