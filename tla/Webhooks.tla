------------------------------ MODULE Webhooks ------------------------------
(***************************************************************************)
(* Delivery of webhook events (sthrip/services/webhook_service.py,         *)
(* sthrip/db/webhook_repo.py, sthrip/db/webhook_endpoint_repo.py).         *)
(*                                                                         *)
(* Every API process runs a worker.  A pass of the worker takes the events *)
(* that are due and handles all of them concurrently, each in three parts: *)
(* a transaction that reads the event and the agent's endpoints, the HTTP  *)
(* calls without any transaction, and a transaction that records what the  *)
(* calls returned.  Either transaction may fail: it is rolled back, and    *)
(* the pass goes on without the event.  The row lock of the first          *)
(* transaction ends with it, so the workers of two processes may handle    *)
(* one event at a time.  Inside one process only the HTTP calls interleave.*)
(*                                                                         *)
(* All events and endpoints are of one agent, which exists: nothing        *)
(* deletes agents, so the event of an unknown agent is left out.  The      *)
(* receivers are external: any of them may fail any call.                  *)
(***************************************************************************)
EXTENDS Integers, FiniteSets

CONSTANTS
    Workers,         \* API processes
    Events,
    Deployments,     \* the processes that may be deployed, the events they get and
                     \* the endpoints whose URL cannot be decrypted any more
    Endpoints,
    Filter,          \* the events an endpoint's filters let through
    MaxAttempts,     \* webhook_events.max_attempts
    MaxFailures,     \* _MAX_ENDPOINT_FAILURES
    AckBound         \* bound on the counts of acknowledged calls and lost answers

ASSUME WebhooksAssumption ==
    /\ IsFiniteSet(Workers)
    /\ Deployments \subseteq
            [fleet : SUBSET Workers, traffic : SUBSET Events, unreadable : SUBSET Endpoints]
    /\ Filter \in [Endpoints -> SUBSET Events]
    /\ MaxAttempts \in Nat \ {0}
    /\ MaxFailures \in Nat \ {0}
    /\ AckBound \in Nat \ {0}

VARIABLES
    deployment,  \* the one of this behaviour
    event,       \* webhook_events
    endpoint,    \* webhook_endpoints
    task,        \* per worker and event: process_event
    acks,        \* history: calls each endpoint acknowledged, per event
    lost,        \* history: deliveries of an event that some endpoint took and that
                 \* ended without a record of it
    crashed,     \* history: a process has died in the middle of its tasks
    noTarget     \* history: events that found no endpoint to be sent to

fleet == deployment.fleet
vars == <<deployment, event, endpoint, task, acks, lost, crashed, noTarget>>
history == <<acks, lost, crashed, noTarget>>

Status == {"NONE", "PENDING", "RETRYING", "DELIVERED"}
Unfinished == {"PENDING", "RETRYING"}
EventRow == [status : Status, attempts : Nat, due : BOOLEAN]
EndpointRow == [state : {"active", "disabled", "deleted"}, failures : Nat]

Idle == [pc |-> "idle"]
Queued == [pc |-> "queued"]
Sending(targets) == [pc |-> "sending", targets |-> targets]
\* The calls are over: which were made and which succeeded
Answered(targets, ok) == [pc |-> "answered", targets |-> targets, ok |-> ok]
\* The event was read again and was unfinished, with so many attempts
Rechecked(targets, ok, attempts) ==
    [pc |-> "rechecked", targets |-> targets, ok |-> ok, attempts |-> attempts]

Task ==
    {Idle, Queued}
    \cup [pc : {"sending"}, targets : SUBSET Endpoints]
    \cup [pc : {"answered"}, targets : SUBSET Endpoints, ok : SUBSET Endpoints]
    \cup [pc : {"rechecked"}, targets : SUBSET Endpoints, ok : SUBSET Endpoints, attempts : Nat]

TypeOK ==
    /\ deployment \in Deployments
    /\ event \in [Events -> EventRow]
    /\ endpoint \in [Endpoints -> EndpointRow]
    /\ task \in [Workers -> [Events -> Task]]
    /\ acks \in [Events -> [Endpoints -> 0..AckBound]]
    /\ lost \in [Events -> 0..AckBound]
    /\ crashed \in BOOLEAN
    /\ noTarget \subseteq Events

Init ==
    /\ deployment \in Deployments
    /\ event = [e \in Events |-> [status |-> "NONE", attempts |-> 0, due |-> FALSE]]
    /\ endpoint = [p \in Endpoints |-> [state |-> "active", failures |-> 0]]
    /\ task = [w \in Workers |-> [e \in Events |-> Idle]]
    /\ acks = [e \in Events |-> [p \in Endpoints |-> 0]]
    /\ lost = [e \in Events |-> 0]
    /\ crashed = FALSE
    /\ noTarget = {}

-----------------------------------------------------------------------------
(* Events and endpoints *)

\* Mutant: attempts are counted from one below zero
CountsFromBelow == [status |-> "PENDING", attempts |-> -1, due |-> TRUE]

\* create_event
NewEvent == [status |-> "PENDING", attempts |-> 0, due |-> TRUE]

\* queue_event, in a transaction of its own
Queue(e) ==
    /\ e \in deployment.traffic
    /\ event[e].status = "NONE"
    /\ event' = [event EXCEPT ![e] = NewEvent]
    /\ UNCHANGED <<deployment, endpoint, task, history>>

\* next_attempt_at is reached
BecomesDue(e) ==
    /\ event[e].status = "RETRYING"
    /\ ~event[e].due
    /\ event' = [event EXCEPT ![e].due = TRUE]
    /\ UNCHANGED <<deployment, endpoint, task, history>>

\* DELETE /v2/webhooks/{id}
DeleteEndpoint(p) ==
    /\ endpoint[p].state # "deleted"
    /\ endpoint' = [endpoint EXCEPT ![p].state = "deleted"]
    /\ UNCHANGED <<deployment, event, task, history>>

-----------------------------------------------------------------------------
(* The worker *)

\* Mutant: delivered events are taken too
TakesDelivered(e) == event[e].due /\ event[e].attempts < MaxAttempts

\* Mutant: an event that has failed once is never taken again
TakesNewOnly(e) ==
    /\ event[e].status = "PENDING"
    /\ event[e].due
    /\ event[e].attempts < MaxAttempts

\* get_pending_events; its row locks end with its transaction
Eligible(e) ==
    /\ event[e].status \in Unfinished
    /\ event[e].due
    /\ event[e].attempts < MaxAttempts

\* process_pending_events; the next pass starts when all tasks of this one ended
BeginPass(w) ==
    /\ \A e \in Events : task[w][e] = Idle
    /\ \E e \in Events : Eligible(e)
    /\ task' = [task EXCEPT ![w] = [e \in Events |-> IF Eligible(e) THEN Queued ELSE Idle]]
    /\ UNCHANGED <<deployment, event, endpoint, history>>

\* The endpoints an event goes to; the unreadable ones among them are disabled
Candidates(e) ==
    {p \in Endpoints : /\ endpoint[p].state = "active"
                       /\ endpoint[p].failures < MaxFailures
                       /\ e \in Filter[p]}
Targets(e) == Candidates(e) \ deployment.unreadable

Disabled(failing) ==
    [p \in Endpoints |-> IF p \in failing THEN [endpoint[p] EXCEPT !.state = "disabled"]
                                          ELSE endpoint[p]]

\* mark_delivered, whatever the status of the event is by now
MarkDelivered(e) == [event EXCEPT ![e].status = "DELIVERED"]

\* Nothing of one process runs between the re-check and the writes of another
\* of its tasks
Undisturbed(w, e) == \A f \in Events \ {e} : task[w][f].pc # "rechecked"

\* Phase 1 of process_event: the status of the event is not looked at
ReadTargets(w, e) ==
    /\ task[w][e] = Queued
    /\ Undisturbed(w, e)
    /\ endpoint' = Disabled(Candidates(e) \cap deployment.unreadable)
    /\ IF Targets(e) = {}
       THEN /\ event' = MarkDelivered(e)
            /\ task' = [task EXCEPT ![w][e] = Idle]
            /\ noTarget' = noTarget \cup {e}
       ELSE /\ task' = [task EXCEPT ![w][e] = Sending(Targets(e))]
            /\ UNCHANGED <<event, noTarget>>
    /\ UNCHANGED <<deployment, acks, lost, crashed>>

\* Counting up to the bound
OneMore(n) == IF n < AckBound THEN n + 1 ELSE n

\* Phase 2: the calls of the fan-out have all returned, those in "ok" with 2xx
Send(w, e, ok) ==
    /\ task[w][e].pc = "sending"
    /\ Undisturbed(w, e)
    /\ ok \subseteq task[w][e].targets
    /\ task' = [task EXCEPT ![w][e] = Answered(@.targets, ok)]
    /\ acks' = [acks EXCEPT ![e] = 
            [p \in Endpoints |-> IF p \in ok THEN OneMore(@[p]) ELSE @[p]]]
    /\ UNCHANGED <<deployment, event, endpoint, lost, crashed, noTarget>>

\* The re-check of phase 3, a plain read
StillUnfinished(e) == event[e].status \in Unfinished

Recheck(w, e) ==
    /\ task[w][e].pc = "answered"
    /\ Undisturbed(w, e)
    /\ task' = [task EXCEPT ![w][e] =
            IF StillUnfinished(e) THEN Rechecked(@.targets, @.ok, event[e].attempts) ELSE Idle]
    /\ UNCHANGED <<deployment, event, endpoint, history>>

\* schedule_retry, from the attempts that the re-check read.  An event without
\* attempts left stays RETRYING: mark_failed has no caller.
AfterFailure(e, attempts) ==
    [event EXCEPT ![e] = [status |-> "RETRYING", attempts |-> attempts + 1, due |-> FALSE]]

\* Mutant: an event counts as delivered whatever its endpoints answered
AlwaysSucceeds(ok) == ok \subseteq Endpoints

\* One endpoint that took the event is enough
Succeeds(ok) == ok # {}

\* The counter of an endpoint that was called; a success does not re-enable it
Counted(p, ok) ==
    IF p \in ok THEN [endpoint[p] EXCEPT !.failures = 0]
    ELSE [endpoint[p] EXCEPT !.failures = @ + 1,
                             !.state = IF @ = "active" /\ endpoint[p].failures + 1 >= MaxFailures
                                       THEN "disabled" ELSE @]

\* The writes of phase 3
Record(w, e) ==
    /\ task[w][e].pc = "rechecked"
    /\ LET t == task[w][e]
       IN  /\ event' = IF Succeeds(t.ok) THEN MarkDelivered(e) ELSE AfterFailure(e, t.attempts)
           /\ endpoint' = [p \in Endpoints |->
                  IF p \in t.targets /\ endpoint[p].state # "deleted"
                  THEN Counted(p, t.ok) ELSE endpoint[p]]
    /\ task' = [task EXCEPT ![w][e] = Idle]
    /\ UNCHANGED <<deployment, history>>

\* Some endpoint took the event in the delivery that w is about to record
Holds(w, e) == task[w][e].pc \in {"answered", "rechecked"} /\ task[w][e].ok # {}

\* A transaction of a task fails, in phase 1 or in phase 3: its writes are
\* rolled back, and gather keeps the exception to itself
TaskFails(w, e) ==
    /\ task[w][e].pc \in {"queued", "answered", "rechecked"}
    /\ Undisturbed(w, e)
    /\ task' = [task EXCEPT ![w][e] = Idle]
    /\ lost' = IF Holds(w, e) THEN [lost EXCEPT ![e] = OneMore(@)] ELSE lost
    /\ UNCHANGED <<deployment, event, endpoint, acks, crashed, noTarget>>

\* The process dies, and with it its tasks; another is started in its place.
\* Bound: one crash.
Crash(w) ==
    /\ ~crashed
    /\ \E e \in Events : task[w][e] # Idle
    /\ task' = [task EXCEPT ![w] = [e \in Events |-> Idle]]
    /\ lost' = [e \in Events |-> IF Holds(w, e) THEN OneMore(lost[e]) ELSE lost[e]]
    /\ crashed' = TRUE
    /\ UNCHANGED <<deployment, event, endpoint, acks, noTarget>>

Sends(w, e) == \E ok \in SUBSET Endpoints : Send(w, e, ok)

Next ==
    \/ \E e \in Events : Queue(e) \/ BecomesDue(e)
    \/ \E p \in Endpoints : DeleteEndpoint(p)
    \/ \E w \in fleet : BeginPass(w) \/ Crash(w)
    \/ \E w \in fleet, e \in Events :
        ReadTargets(w, e) \/ Sends(w, e) \/ Recheck(w, e) \/ Record(w, e) \/ TaskFails(w, e)

Spec == Init /\ [][Next]_vars

\* Events are queued, delays pass and calls return (they have a time limit of
\* 30 s); each process runs its worker for ever, and of the transactions on an
\* event that are tried again and again not all fail.
Fairness ==
    /\ \A e \in Events :
        /\ WF_vars(Queue(e))
        /\ WF_vars(BecomesDue(e))
        /\ SF_vars(\E w \in fleet : ReadTargets(w, e))
        /\ WF_vars(\E w \in fleet : Sends(w, e))
        /\ SF_vars(\E w \in fleet : Recheck(w, e))
        /\ SF_vars(\E w \in fleet : Record(w, e))
    /\ WF_vars(\E w \in fleet : BeginPass(w))

FairSpec == Spec /\ Fairness

-----------------------------------------------------------------------------
(* Properties *)

Acknowledged(e) == \E p \in Endpoints : acks[e][p] > 0

\* An event is marked delivered only when an endpoint acknowledged it, or when
\* some attempt found no endpoint to send it to: then it counts as delivered
\* although nobody received it.
DeliveredWasReceived ==
    \A e \in Events : event[e].status = "DELIVERED" => Acknowledged(e) \/ e \in noTarget

\* In a deployment of one process, which handles the events of a pass
\* concurrently, an endpoint gets an event again after it has acknowledged it
\* only when the outcome of a delivery was lost, by a transaction that failed or
\* a process that died: once for every such loss.
RepeatsOnlyWhatWasLost ==
    Cardinality(fleet) = 1 => \A e \in Events : \A p \in Endpoints : acks[e][p] <= 1 + lost[e]

Settled(e) ==
    event[e].status = "DELIVERED" \/ (event[e].status = "RETRYING" /\ event[e].attempts >= MaxAttempts)

\* Every event comes to rest, delivered or with its attempts used up, although
\* processes overwrite one another's results and die in the middle of a pass.
EventsSettle == <>[](\A e \in deployment.traffic : Settled(e))
=============================================================================
