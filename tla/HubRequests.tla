----------------------------- MODULE HubRequests -----------------------------
(***************************************************************************)
(* Requests that spend an agent's balance under an Idempotency-Key:        *)
(* POST /v2/balance/withdraw (api/routers/balance.py, onchain mode) and    *)
(* POST /v2/payments/hub-routing (api/routers/payments.py), with the key   *)
(* store (sthrip/services/idempotency.py), the balance row, the wallet     *)
(* client and the recovery of stale withdrawals.                           *)
(*                                                                         *)
(* A handler runs without yielding up to its wallet call, so two requests  *)
(* interleave inside their sections only when two worker processes serve   *)
(* them.  A database transaction is its reads, then its commit; the        *)
(* balance row stays locked in between.  All requests are of one agent:    *)
(* keys and balances of different agents never meet.  Withdrawals go to    *)
(* one address, and amounts include the fee.                               *)
(***************************************************************************)
EXTENDS Integers, FiniteSets, FiniteSetsExt

CONSTANTS
    Requests,
    Keys,           \* idempotency keys, each of one endpoint
    WithdrawKeys,   \* those of the withdraw endpoint; the rest are hub-routing
    Workers,        \* API worker processes
    Plans,          \* what the requests may be: a set of functions
    Start,          \* the agent's balance to begin with
    Attempts,       \* stop_after_attempt of the wallet client
    MaxCrashes,     \* bound on worker crashes
    None

ASSUME PlansAssumption ==
    /\ WithdrawKeys \subseteq Keys
    /\ Plans \subseteq [Requests -> [key : Keys, amount : Nat \ {0}, worker : Workers]]
    /\ Start \in Nat
    /\ Attempts \in Nat \ {0}
    /\ MaxCrashes \in Nat
    /\ None \notin [amount : Nat \ {0}, by : Requests, final : BOOLEAN]
    /\ None \notin Requests

VARIABLES
    plan,       \* key, amount and worker of each request
    pc,         \* where each request's handler is
    seen,       \* the available balance its session loaded
    cache,      \* Redis, per key: "empty", "processing" or "stored"
    rows,       \* idempotency_keys, per key
    available,  \* agent_balances.available
    lock,       \* the request that holds the balance row, or None
    journal,    \* pending_withdrawals.status of each request
    paid,       \* requests with a confirmed hub route and transaction
    rpc,        \* wallet thread of each request
    retries,    \* transfer calls it has repeated
    transfers,  \* transfers the wallet made for each request
    crashes,
    late        \* history: requests that arrived when their key had a row

vars == <<plan, pc, seen, cache, rows, available, lock,
          journal, paid, rpc, retries, transfers, crashes, late>>

database == <<rows, available, journal, paid>>
wallet == <<rpc, retries, transfers>>

Key(r) == plan[r].key
Amount(r) == plan[r].amount
Withdraws(r) == Key(r) \in WithdrawKeys
PaymentId(r) == <<Key(r), Amount(r)>>

Ended == {"done", "crashed"}
Waiting == {"new", "wallet"} \cup Ended
Busy(r) == pc[r] \notin Waiting
InFlight(r) == pc[r] \notin {"new"} \cup Ended

\* Mutant: handlers run in a pool of threads
LoopFreeAlways(r) == r \in Requests

\* The event loop of the request's worker is not inside another handler
LoopFree(r) == \A q \in Requests : Busy(q) => plan[q].worker # plan[r].worker

KnownKey(r) == rows[Key(r)] # None

Charged(r) == journal[r] # "none" \/ r \in paid

Init ==
    /\ plan \in Plans
    /\ pc = [r \in Requests |-> "new"]
    /\ seen = [r \in Requests |-> 0]
    /\ cache = [k \in Keys |-> "empty"]
    /\ rows = [k \in Keys |-> None]
    /\ available = Start
    /\ lock = None
    /\ journal = [r \in Requests |-> "none"]
    /\ paid = {}
    /\ rpc = [r \in Requests |-> "idle"]
    /\ retries = [r \in Requests |-> 0]
    /\ transfers = [r \in Requests |-> 0]
    /\ crashes = 0
    /\ late = {}

-----------------------------------------------------------------------------
(* The idempotency store *)

\* Mutant: a session that is not closed keeps its row lock
LeakSession(r) == seen' = [seen EXCEPT ![r] = 0] /\ UNCHANGED lock

\* get_db: committed or rolled back, the session gives up its lock
CloseSession(r) ==
    /\ seen' = [seen EXCEPT ![r] = 0]
    /\ lock' = IF lock = r THEN None ELSE lock

Goto(r, label) == pc' = [pc EXCEPT ![r] = label]

CacheWrite(k, value) == cache' = [cache EXCEPT ![k] = value]

\* store_response: a failure of the Redis write is logged and swallowed
StoreInCache(k) == CacheWrite(k, "stored") \/ UNCHANGED cache

\* SET NX of the sentinel
SetIfAbsent(r, otherwise) ==
    \/ /\ cache[Key(r)] = "empty"
       /\ CacheWrite(Key(r), "processing")
       /\ Goto(r, "check")
    \/ /\ cache[Key(r)] # "empty"
       /\ otherwise
       /\ UNCHANGED cache

Reserve(r) ==
    /\ pc[r] = "new"
    /\ LoopFree(r)
    /\ SetIfAbsent(r, Goto(r, "look"))
    /\ late' = IF KnownKey(r) THEN late \cup {r} ELSE late
    /\ UNCHANGED <<plan, seen, lock, database, wallet, crashes>>

\* What the key holds when the sentinel could not be set
Look(r) ==
    /\ pc[r] = "look"
    /\ \/ cache[Key(r)] = "processing" /\ Goto(r, "release")
       \/ cache[Key(r)] = "stored" /\ Goto(r, "done")
       \/ cache[Key(r)] = "empty" /\ Goto(r, "again")
    /\ UNCHANGED <<plan, seen, cache, lock, database, wallet, crashes, late>>

ReserveAgain(r) ==
    /\ pc[r] = "again"
    /\ SetIfAbsent(r, Goto(r, "release"))
    /\ UNCHANGED <<plan, seen, lock, database, wallet, crashes, late>>

\* Mutant: only Redis is asked
ExistingNever(r) == None

Existing(r) == rows[Key(r)]

\* _check_db_after_redis_miss: the row decides once Redis has forgotten
CheckRow(r) ==
    /\ pc[r] = "check"
    /\ \/ /\ Existing(r) = None
          /\ Goto(r, IF Withdraws(r) THEN "read" ELSE "route")
          /\ UNCHANGED cache
       \/ /\ Existing(r) # None
          /\ Existing(r).amount # Amount(r)
          /\ Goto(r, "release")
          /\ UNCHANGED cache
       \/ /\ Existing(r) # None
          /\ Existing(r).amount = Amount(r)
          /\ StoreInCache(Key(r))
          /\ Goto(r, "done")
    /\ UNCHANGED <<plan, seen, lock, database, wallet, crashes, late>>

\* release, from the except clause of the endpoint: deletes the sentinel that
\* is there, whichever request set it.  (A delete that fails leaves the key as a
\* crash would.)
Release(r) ==
    /\ pc[r] = "release"
    /\ IF cache[Key(r)] = "processing"
       THEN CacheWrite(Key(r), "empty")
       ELSE UNCHANGED cache
    /\ Goto(r, "done")
    /\ UNCHANGED <<plan, seen, lock, database, wallet, crashes, late>>

\* Redis drops what is older than an hour, which nothing is that a request under
\* way has written
Expire(k) ==
    /\ cache[k] # "empty"
    /\ \A r \in Requests : Key(r) = k => pc[r] \in {"new", "look", "again"} \cup Ended
    /\ CacheWrite(k, "empty")
    /\ UNCHANGED <<plan, pc, seen, lock, database, wallet, crashes, late>>

\* Mutant: the response is only cached
StoredNot(r, final) == rows

\* The key's row after store_response: upsert overwrites what is there
Stored(r, final) ==
    [rows EXCEPT ![Key(r)] = [amount |-> Amount(r), by |-> r, final |-> final]]

-----------------------------------------------------------------------------
(* POST /v2/balance/withdraw *)

\* get_or_create for the self-send check loads the row, unlocked
ReadBalance(r) ==
    /\ pc[r] = "read"
    /\ seen' = [seen EXCEPT ![r] = available]
    /\ Goto(r, "debit")
    /\ UNCHANGED <<plan, cache, lock, database, wallet, crashes, late>>

\* SELECT ... FOR UPDATE returns the row the session already holds, with the
\* balance loaded before the lock
Balance(r) == seen[r]

\* Mutant: the balance is not looked at
CoversAnything(balance, r) == r \in Requests

Covers(balance, r) == balance >= Amount(r)

\* The 202 response is in Redis before the transaction commits
Debit(r) ==
    /\ pc[r] = "debit"
    /\ lock = None
    /\ \/ /\ ~Covers(Balance(r), r)
          /\ Goto(r, "release")
          /\ CloseSession(r)
          /\ UNCHANGED cache
       \/ /\ Covers(Balance(r), r)
          /\ lock' = r
          /\ StoreInCache(Key(r))
          /\ Goto(r, "commit")
          /\ UNCHANGED seen
    /\ UNCHANGED <<plan, database, wallet, crashes, late>>

\* Then asyncio.to_thread: the handler yields its worker to wait for the wallet
CommitDebit(r) ==
    /\ pc[r] = "commit"
    /\ available' = Balance(r) - Amount(r)
    /\ journal' = [journal EXCEPT ![r] = "pending"]
    /\ rows' = Stored(r, FALSE)
    /\ CloseSession(r)
    /\ rpc' = [rpc EXCEPT ![r] = "calling"]
    /\ Goto(r, "wallet")
    /\ UNCHANGED <<plan, cache, paid, retries, transfers, crashes, late>>

\* MoneroWalletRPC._call, retried on timeouts and connection errors: a transfer
\* whose response is lost is requested again
TryAgain(r) ==
    IF retries[r] + 1 < Attempts
    THEN retries' = [retries EXCEPT ![r] = @ + 1] /\ UNCHANGED rpc
    ELSE rpc' = [rpc EXCEPT ![r] = "error"] /\ UNCHANGED retries

Transmit(r) ==
    /\ rpc[r] = "calling"
    /\ transfers' = [transfers EXCEPT ![r] = @ + 1]
    /\ \/ rpc' = [rpc EXCEPT ![r] = "ok"] /\ UNCHANGED retries
       \/ TryAgain(r)
    /\ UNCHANGED <<plan, pc, seen, cache, lock, database, crashes, late>>

\* The wallet is not reached, or answers with an error
NotTransmitted(r) ==
    /\ rpc[r] = "calling"
    /\ \/ rpc' = [rpc EXCEPT ![r] = "error"] /\ UNCHANGED retries
       \/ TryAgain(r)
    /\ UNCHANGED <<plan, pc, seen, cache, lock, database, transfers, crashes, late>>

\* mark_completed, or mark_needs_review when the call failed or wait_for gave
\* up on it, which leaves the thread running
Mark(r) ==
    /\ pc[r] = "wallet"
    /\ LoopFree(r)
    /\ \/ /\ rpc[r] = "ok"
          /\ journal' = [journal EXCEPT ![r] = "completed"]
          /\ Goto(r, "promote")
       \/ /\ journal' = [journal EXCEPT ![r] = "needs_review"]
          /\ Goto(r, "release")
    /\ UNCHANGED <<plan, seen, cache, lock, rows, available, paid, wallet, crashes, late>>

\* The second store_response, in a session of its own
CommitFinal(r) ==
    /\ pc[r] = "promote"
    /\ StoreInCache(Key(r))
    /\ rows' = Stored(r, TRUE)
    /\ Goto(r, "done")
    /\ UNCHANGED <<plan, seen, lock, available, journal, paid, wallet, crashes, late>>

-----------------------------------------------------------------------------
(* Recovery of withdrawals, at startup and every five minutes *)

\* _find_matching_transfer compares address, amount and time, which is within
\* half an hour for all of these
Matched(r) == \E q \in Requests : transfers[q] > 0 /\ Amount(q) = Amount(r)

\* Mutant: no minimum age
StaleAtOnce == {r \in Requests : journal[r] = "pending"}

\* Mutant: what has no transfer is left alone
StaleMatched == {r \in Requests : journal[r] = "pending" /\ pc[r] \in Ended /\ Matched(r)}

\* Pending for five minutes: the handler, which waits 45 seconds for its
\* wallet, has ended one way or the other
Stale == {r \in Requests : journal[r] = "pending" /\ pc[r] \in Ended}

Recover ==
    /\ Stale # {}
    /\ journal' = [r \in Requests |->
           IF r \in Stale THEN IF Matched(r) THEN "completed" ELSE "needs_review"
           ELSE journal[r]]
    /\ UNCHANGED <<plan, pc, seen, cache, rows, available, lock, paid, wallet, crashes, late>>

-----------------------------------------------------------------------------
(* POST /v2/payments/hub-routing *)

\* Mutant: payment ids are not looked up and not unique
RouteForgotten(r) == r \in paid

RouteExists(r) == \E q \in paid : PaymentId(q) = PaymentId(r)

\* Flushed but not committed: another insert of the same id waits
HoldsRoute(r) == pc[r] \in {"pay", "confirm"}

\* create_hub_route looks for the deterministic payment id; a duplicate leaves
\* its own sentinel behind
FindRoute(r) ==
    /\ pc[r] = "route"
    /\ IF RouteExists(r) THEN Goto(r, "done") ELSE Goto(r, "insert")
    /\ UNCHANGED <<plan, seen, cache, lock, database, wallet, crashes, late>>

\* The unique constraint on payment_id
InsertRoute(r) ==
    /\ pc[r] = "insert"
    /\ \A q \in Requests : HoldsRoute(q) => PaymentId(q) # PaymentId(r)
    /\ IF RouteExists(r) THEN Goto(r, "release") ELSE Goto(r, "pay")
    /\ UNCHANGED <<plan, seen, cache, lock, database, wallet, crashes, late>>

\* create_with_commission locks the row before it loads it.  (Its look-up by
\* tx_hash finds nothing: transaction and route commit together.)
Pay(r) ==
    /\ pc[r] = "pay"
    /\ lock = None
    /\ \/ /\ ~Covers(available, r)
          /\ Goto(r, "release")
          /\ CloseSession(r)
          /\ UNCHANGED cache
       \/ /\ Covers(available, r)
          /\ lock' = r
          /\ StoreInCache(Key(r))
          /\ Goto(r, "confirm")
          /\ UNCHANGED seen
    /\ UNCHANGED <<plan, database, wallet, crashes, late>>

CommitPayment(r) ==
    /\ pc[r] = "confirm"
    /\ available' = available - Amount(r)
    /\ paid' = paid \cup {r}
    /\ rows' = Stored(r, TRUE)
    /\ CloseSession(r)
    /\ Goto(r, "done")
    /\ UNCHANGED <<plan, cache, journal, wallet, crashes, late>>

-----------------------------------------------------------------------------
(* Failures *)

\* Any exception inside the endpoint's try: the open transaction rolls back
Fails(r) ==
    /\ InFlight(r)
    /\ pc[r] # "release"
    /\ pc[r] = "wallet" => LoopFree(r)
    /\ Goto(r, "release")
    /\ CloseSession(r)
    /\ UNCHANGED <<plan, cache, database, wallet, crashes, late>>

\* A worker dies with its handlers, its transactions and its wallet threads
Crash(w) ==
    /\ crashes < MaxCrashes
    /\ crashes' = crashes + 1
    /\ LET mine == {r \in Requests : plan[r].worker = w}
       IN  /\ \E r \in mine : InFlight(r) \/ rpc[r] = "calling"
           /\ pc' = [r \in Requests |->
                  IF r \in mine /\ InFlight(r) THEN "crashed" ELSE pc[r]]
           /\ lock' = IF lock \in mine THEN None ELSE lock
           /\ rpc' = [r \in Requests |->
                  IF r \in mine /\ rpc[r] = "calling" THEN "error" ELSE rpc[r]]
    /\ UNCHANGED <<plan, seen, cache, database, retries, transfers, late>>

-----------------------------------------------------------------------------

Section(r) ==
    \/ Look(r) \/ ReserveAgain(r) \/ CheckRow(r) \/ Release(r)
    \/ ReadBalance(r) \/ Debit(r) \/ CommitDebit(r)
    \/ Mark(r) \/ CommitFinal(r)
    \/ FindRoute(r) \/ InsertRoute(r) \/ Pay(r) \/ CommitPayment(r)

Next ==
    \/ \E r \in Requests : Reserve(r) \/ Section(r) \/ Fails(r)
    \/ \E r \in Requests : Transmit(r) \/ NotTransmitted(r)
    \/ \E k \in Keys : Expire(k)
    \/ \E w \in Workers : Crash(w)
    \/ Recover

Spec == Init /\ [][Next]_vars

\* Handlers run on, their waits are bounded, and the recovery loop keeps going
Fairness ==
    /\ \A r \in Requests : WF_vars(Section(r))
    /\ WF_vars(Recover)

FairSpec == Spec /\ Fairness

-----------------------------------------------------------------------------
(* Properties *)

TypeOK ==
    /\ plan \in Plans
    /\ pc \in [Requests -> {"new", "look", "again", "check", "release", "read", "debit",
                             "commit", "wallet", "promote", "route", "insert", "pay",
                             "confirm", "done", "crashed"}]
    /\ seen \in [Requests -> Nat]
    /\ cache \in [Keys -> {"empty", "processing", "stored"}]
    /\ rows \in [Keys -> {None} \cup [amount : Nat \ {0}, by : Requests, final : BOOLEAN]]
    /\ available \in Nat
    /\ lock \in {None} \cup Requests
    /\ journal \in [Requests -> {"none", "pending", "completed", "needs_review"}]
    /\ paid \subseteq Requests
    /\ rpc \in [Requests -> {"idle", "calling", "ok", "error"}]
    /\ retries \in [Requests -> 0..Attempts - 1]
    /\ transfers \in [Requests -> Nat]
    /\ crashes \in 0..MaxCrashes
    /\ late \subseteq Requests

IsOf(row, k, r) ==
    /\ row.by = r /\ Key(r) = k /\ row.amount = Amount(r)
    /\ Charged(r)
    /\ row.final /\ Withdraws(r) => journal[r] = "completed"

\* A debit and the idempotency row of its key are one: whoever was charged has
\* a row to be replayed from, every row is of a request that was charged, and it
\* says "sent" only of a completed withdrawal.
RowPerCharge ==
    /\ \A r \in Requests : Charged(r) => KnownKey(r)
    /\ \A k \in Keys : rows[k] # None => \E r \in Requests : IsOf(rows[k], k, r)

\* A request that arrives once its key has a row never spends anything, whatever
\* Redis has forgotten and whichever sentinels were deleted.
NeverAgain == \A r \in late : ~Charged(r)

\* However many requests with one key run at once, one payment is made per
\* payment id.
PaidOnce == \A r, q \in paid : PaymentId(r) = PaymentId(q) => r = q

\* Claimed of the row lock: money that leaves the balance is a withdrawal or a
\* payment, and each is counted.
Conserved ==
    available = Start - SumFunctionOnSet([r \in Requests |-> Amount(r)],
                                         {r \in Requests : Charged(r)})

OneProcess == \A r, q \in Requests : plan[r].worker = plan[q].worker

\* Claimed of the sentinel, the in-flight lock of a key: no key is charged twice.
KeyChargedOnce ==
    \A r, q \in Requests : Charged(r) /\ Charged(q) /\ Key(r) = Key(q) => r = q

\* With a single worker process, as deployed, the balance adds up and a key is
\* charged once.
OneProcessIsSafe == OneProcess => Conserved /\ KeyChargedOnce

\* A debited withdrawal is completed or put up for review, even when its request
\* dies at any point.
EveryWithdrawalResolves ==
    \A r \in Requests : journal[r] = "pending" ~> journal[r] \in {"completed", "needs_review"}

\* No request waits for ever: for the balance row, for another insert of its
\* payment id, for its wallet, or for its own event loop.
EveryRequestEnds == \A r \in Requests : InFlight(r) ~> pc[r] \in Ended

Saga == INSTANCE WithdrawalSaga WITH amount <- [r \in Requests |-> Amount(r)]

\* A withdrawal's journal entry is opened with its debit and closed once, and the
\* wallet pays only what is journaled.
ImplementsSaga == Saga!Spec

=============================================================================
