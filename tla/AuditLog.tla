------------------------------ MODULE AuditLog ------------------------------
(***************************************************************************)
(* The audit log (sthrip/services/audit_logger.py) between the             *)
(* transactions that write to it, here those of service-level contracts    *)
(* (sla_service.py).  An entry that is given the caller's session is part  *)
(* of the caller's transaction: it commits or rolls back with the change   *)
(* it describes.  Each entry carries the HMAC of the one before, read      *)
(* under a lock of the whole chain which PostgreSQL keeps until the        *)
(* transaction ends.                                                       *)
(*                                                                         *)
(* A request locks its contract and then waits for the chain; a pass of    *)
(* the enforcement loop has the chain from its first breach on and then    *)
(* waits for contracts.  Two processes can wait for each other, until the  *)
(* database cancels a statement.  log_event swallows what happens in it: a *)
(* request goes on with a transaction the database has already aborted, or *)
(* commits a change whose entry a Python error kept out.                   *)
(*                                                                         *)
(* To accept a contract is logged whatever state the contract is in; the   *)
(* other entries are written only when the contract was moved.             *)
(*                                                                         *)
(* External: the locks, PostgreSQL's READ COMMITTED, and that the COMMIT   *)
(* of an aborted transaction is a rollback without an error.  The HMAC     *)
(* stands for what it covers, and the clocks the entries are stamped with  *)
(* are taken to agree.                                                     *)
(***************************************************************************)
EXTENDS Naturals, Sequences, FiniteSets

CONSTANTS
    Contracts,      \* rows of sla_contracts, proposed before the model starts
    Processes,      \* worker processes
    Fleets,         \* the sets of them that may be running
    MaxLog,         \* entries after which no transaction begins
    MaxErrors       \* Python errors that keep an entry out

ASSUME FleetsAssumption == Fleets \subseteq SUBSET Processes

VARIABLES
    fleet,       \* the processes running
    row,         \* committed state of each contract
    log,         \* committed rows of audit_log, by created_at
    unlogged,    \* history: committed changes whose entry an error kept out
    work,        \* the transaction under way in each session
    answered     \* what the latest caller was told had been done

vars == <<fleet, row, log, unlogged, work, answered>>

\* The states a contract may be moved from.  accept and activate together move
\* it from PROPOSED to ACTIVE.
From ==
    [ACTIVE |-> {"PROPOSED"},
     DELIVERED |-> {"ACTIVE"},
     COMPLETED |-> {"DELIVERED"},
     DISPUTED |-> {"ACTIVE", "DELIVERED"},
     BREACHED |-> {"ACTIVE"}]

\* An entry is [change, prev]: a contract with the state it was to be moved to,
\* and the HMAC of the entry before
Genesis == <<>>
Hmac(e) == e.change

\* A process serves requests and runs the loop
Sessions == Processes \X {"request", "loop"}

\* to: where the transaction moves its contracts, NONE outside a transaction;
\* todo, held: contracts it has still to look at, and has locked and gone on with;
\* owes: the one of them whose entry is due; missed: those whose entry was lost;
\* chain: whether it has the lock of the chain; entries: its rows of audit_log
Idle == [to |-> "NONE", todo |-> {}, held |-> {}, owes |-> {}, missed |-> {},
         chain |-> FALSE, entries |-> <<>>]

Init ==
    /\ fleet \in Fleets
    /\ row = [c \in Contracts |-> "PROPOSED"]
    /\ log = <<>>
    /\ unlogged = {}
    /\ work = [s \in Sessions |-> Idle]
    /\ answered = {}

-----------------------------------------------------------------------------
(* Locks, which are held until the transaction ends *)

Others(s) == Sessions \ {s}
RowFree(s, c) == \A o \in Others(s) : c \notin work[o].held

\* Mutant: the lock is let go once the entry is inserted
ChainFreeAtOnce(s) == s \in Sessions

ChainFree(s) == \A o \in Others(s) : ~work[o].chain

Waits(s) ==
    \/ work[s].owes # {} /\ ~ChainFree(s)
    \/ work[s].owes = {} /\ \E c \in work[s].todo : ~RowFree(s, c)

-----------------------------------------------------------------------------
(* Transactions *)

\* Mutant: requests run in threads beside the loops
ThreadFree(s) == s[1] \in fleet /\ work[s] = Idle

\* Handlers and loops do not await inside a transaction, so that a process has
\* one at a time
Free(s) == s[1] \in fleet /\ \A kind \in {"request", "loop"} : work[<<s[1], kind>>] = Idle

Begin(s, to, todo) ==
    /\ Free(s)
    /\ Len(log) < MaxLog
    /\ work' = [work EXCEPT ![s].to = to, ![s].todo = todo]
    /\ UNCHANGED <<fleet, row, log, unlogged, answered>>

\* accept_contract, deliver_contract, verify_contract, dispute_contract
Request(s, c, to) ==
    /\ s[2] = "request"
    /\ to # "BREACHED"
    /\ Begin(s, to, {c})

\* enforce_sla: any of the active contracts may be past its deadline
Enforce(s, overdue) ==
    /\ s[2] = "loop"
    /\ overdue # {}
    /\ \A c \in overdue : row[c] = "ACTIVE"
    /\ Begin(s, "BREACHED", overdue)

\* accept_contract does not ask how many rows its updates found
GoesOn(s, c) == work[s].to = "ACTIVE" \/ row[c] \in From[work[s].to]

\* Mutant: the updates do not ask for the state of the row
MovedAnyway(s) == work[s].held

\* What the guarded updates moved; a row that is held stays as it was found
Moved(s) == {c \in work[s].held : row[c] \in From[work[s].to]}

\* The row is locked, and the updates find it as it should be, or are not asked
Take(s, c) ==
    /\ c \in work[s].todo
    /\ work[s].owes = {}
    /\ RowFree(s, c)
    /\ GoesOn(s, c)
    /\ work' = [work EXCEPT ![s].todo = @ \ {c}, ![s].held = @ \cup {c}, ![s].owes = {c}]
    /\ UNCHANGED <<fleet, row, log, unlogged, answered>>

\* A request is refused, and rolls back; a pass goes on with its next contract
Refuse(s, c) ==
    /\ c \in work[s].todo
    /\ work[s].owes = {}
    /\ RowFree(s, c)
    /\ ~GoesOn(s, c)
    /\ work' = IF s[2] = "request" THEN [work EXCEPT ![s] = Idle]
               ELSE [work EXCEPT ![s].todo = @ \ {c}]
    /\ UNCHANGED <<fleet, row, log, unlogged, answered>>

\* _get_prev_hmac: the latest row the transaction sees, its own included
PrevHmac(s) ==
    LET seen == log \o work[s].entries
    IN IF seen = <<>> THEN Genesis ELSE Hmac(seen[Len(seen)])

\* log_event in the caller's session
WriteEntry(s) ==
    /\ ChainFree(s)
    /\ \E c \in work[s].owes :
           work' = [work EXCEPT
               ![s].entries = Append(@, [change |-> <<c, work[s].to>>, prev |-> PrevHmac(s)]),
               ![s].owes = {}, ![s].chain = TRUE]
    /\ UNCHANGED <<fleet, row, log, unlogged, answered>>

\* log_event swallows a Python error, before or under the lock
MissEntry(s) ==
    /\ work[s].owes # {}
    /\ Cardinality(UNION {work[o].missed : o \in Sessions}) + Cardinality(unlogged) < MaxErrors
    /\ \E locked \in BOOLEAN :
           /\ locked => ChainFree(s)
           /\ work' = [work EXCEPT ![s].missed = @ \cup work[s].owes, ![s].owes = {},
                                  ![s].chain = @ \/ locked]
    /\ UNCHANGED <<fleet, row, log, unlogged, answered>>

\* What a caller is told; of a repeated acceptance, that the contract is accepted
Done(s) == {<<c, work[s].to>> : c \in work[s].held}

Commit(s) ==
    /\ work[s].to # "NONE" /\ work[s].todo = {} /\ work[s].owes = {}
    /\ row' = [c \in Contracts |-> IF c \in Moved(s) THEN work[s].to ELSE row[c]]
    /\ log' = log \o work[s].entries
    /\ unlogged' = unlogged \cup {<<c, work[s].to>> : c \in Moved(s) \cap work[s].missed}
    /\ work' = [work EXCEPT ![s] = Idle]
    /\ answered' = IF s[2] = "request" THEN Done(s) ELSE answered
    /\ UNCHANGED fleet

\* Mutant: the change outlives its entry, as behind a savepoint
KeepsChange(s) ==
    [c \in Contracts |-> IF c \in work[s].owes /\ s[2] = "request" THEN work[s].to ELSE row[c]]

\* An aborted transaction commits nothing, whatever it was
Aborted(s) == row

\* Mutant: the cancelled statement is tried again in its transaction
TriesAgain(s) == work[s]

\* The session is returned to the pool
AfterCancel(s) == Idle

\* The deadlock detector or the statement timeout cancels a wait.  A request
\* waiting for its row fails.  One waiting for the chain does not learn of it,
\* and answers as if it had committed.  A pass fails at its next statement.
Cancel(s) ==
    /\ Waits(s)
    /\ row' = Aborted(s)
    /\ work' = [work EXCEPT ![s] = AfterCancel(s)]
    /\ answered' = IF s[2] = "request" THEN Done(s) ELSE answered
    /\ UNCHANGED <<fleet, log, unlogged>>

\* Any other failure, before the commit or of it, rolls back
Abort(s) ==
    /\ work[s] # Idle
    /\ work' = [work EXCEPT ![s] = Idle]
    /\ UNCHANGED <<fleet, row, log, unlogged, answered>>

-----------------------------------------------------------------------------
Step(s) ==
    \/ \E c \in Contracts : Take(s, c) \/ Refuse(s, c)
    \/ WriteEntry(s)
    \/ MissEntry(s)
    \/ Commit(s)
    \/ Cancel(s)

Next ==
    \E s \in Sessions :
        \/ \E c \in Contracts, to \in DOMAIN From : Request(s, c, to)
        \/ \E overdue \in SUBSET Contracts : Enforce(s, overdue)
        \/ Step(s)
        \/ Abort(s)

Spec == Init /\ [][Next]_vars

\* A statement gets its locks or is cancelled: statement_timeout bounds its wait
FairSpec == Spec /\ \A s \in Sessions : WF_vars(Step(s))

-----------------------------------------------------------------------------
(* Properties *)

\* verify_chain: every row names the HMAC of the row before
Verifies ==
    \A i \in 1..Len(log) : log[i].prev = IF i = 1 THEN Genesis ELSE Hmac(log[i - 1])

Logged == {log[i].change : i \in 1..Len(log)}

\* Acceptances may be repeated, and a repeated one tells of no change
Acceptance(i) == log[i].change[2] = "ACTIVE"
Silent(c, i) == log[i].change[1] = c => Acceptance(i)

\* The latest entry about a contract, acceptances aside, tells of the state it
\* is in, unless the entry of that state is the one that is missing
UpToDate(c) ==
    /\ row[c] = "PROPOSED" <=> <<c, "ACTIVE">> \notin Logged \cup unlogged
    /\ \/ <<c, row[c]>> \in unlogged
       \/ row[c] \in {"PROPOSED", "ACTIVE"} /\ \A i \in 1..Len(log) : Silent(c, i)
       \/ \E i \in 1..Len(log) :
             /\ log[i].change = <<c, row[c]>>
             /\ \A j \in i + 1..Len(log) : Silent(c, j)

\* However transactions overlap, fail and are cancelled, the committed log
\* verifies.  Acceptances aside, it tells of every committed change once, in
\* order, and of no other, but for those whose entry a Python error kept out; an
\* entry whose statement failed takes its change with it.  A contract has been
\* accepted exactly if an acceptance is logged or was kept out.
LogIsFaithful ==
    /\ Verifies
    /\ \A i, j \in 1..Len(log) : log[i].change = log[j].change => i = j \/ Acceptance(i)
    /\ \A i \in 1..Len(log) : log[i].change \in unlogged => Acceptance(i)
    /\ \A c \in Contracts : UpToDate(c)

\* With a single process no caller is told of a change that was not made: the
\* answer to an aborted transaction needs a second process that has the chain
OneProcessKeepsAnswers == (\A p, q \in fleet : p = q) => answered \subseteq Logged \cup unlogged

\* Requests and passes that wait for each other all come to an end
EveryTransactionEnds == \A s \in Sessions : work[s].to # "NONE" ~> work[s].to = "NONE"
=============================================================================
