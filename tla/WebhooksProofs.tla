--------------------------- MODULE WebhooksProofs ---------------------------
(***************************************************************************)
(* Proofs about Webhooks for any processes, events, endpoints, filters,    *)
(* limits and crashes.                                                     *)
(***************************************************************************)
EXTENDS Webhooks, FiniteSetTheorems, TLAPS

\* What the calls of a delivery returned was acknowledged.
AnswersAreAcknowledged ==
    \A w \in Workers, e \in Events :
        (task[w][e].pc \in {"answered", "rechecked"} /\ task[w][e].ok # {}) => Acknowledged(e)

\* A process that is alone works on unfinished events.  What an endpoint has
\* acknowledged more often than deliveries were lost is recorded, or is in the
\* delivery that the process is about to record.
RoundOf(w, e) ==
    /\ task[w][e] # Idle => event[e].status \in Unfinished
    /\ \A p \in Endpoints :
          \/ acks[e][p] <= lost[e]
          \/ acks[e][p] <= lost[e] + 1 /\ (event[e].status = "DELIVERED" \/ Holds(w, e))

OneRound == Cardinality(fleet) = 1 => \A w \in fleet, e \in Events : RoundOf(w, e)

(***************************************************************************)
(* Type correctness                                                        *)
(***************************************************************************)

\* The stages of a delivery are told apart by their pc.
LEMMA Stages ==
    ASSUME NEW t \in Task
    PROVE  /\ t.pc \in {"idle", "queued", "sending", "answered", "rechecked"}
           /\ t.pc = "idle" <=> t = Idle
           /\ t.pc = "queued" <=> t = Queued
           /\ t.pc \in {"sending", "answered", "rechecked"} => t.targets \in SUBSET Endpoints
           /\ t.pc \in {"answered", "rechecked"} => t.ok \in SUBSET Endpoints
           /\ t.pc = "rechecked" => t.attempts \in Nat
  BY DEF Task, Idle, Queued

\* The constructors of the stages.
LEMMA StageTypes ==
    ASSUME NEW targets \in SUBSET Endpoints, NEW ok \in SUBSET Endpoints, NEW n \in Nat
    PROVE  /\ Idle \in Task /\ Queued \in Task
           /\ Sending(targets) \in Task
           /\ Answered(targets, ok) \in Task
           /\ Rechecked(targets, ok, n) \in Task
  BY DEF Task, Idle, Queued, Sending, Answered, Rechecked

\* A task of a worker of the fleet.
LEMMA TaskTypes ==
    ASSUME TypeOK, NEW w \in fleet, NEW e \in Events
    PROVE  w \in Workers /\ task[w][e] \in Task
  BY WebhooksAssumption DEF TypeOK, fleet

\* A task that is replaced is a task.
LEMMA ReplacedTask ==
    ASSUME TypeOK, NEW w \in Workers, NEW e \in Events, NEW t \in Task
    PROVE  [task EXCEPT ![w][e] = t] \in [Workers -> [Events -> Task]]
  BY DEF TypeOK

\* An event that is marked is an event.
LEMMA DeliveredRow ==
    ASSUME TypeOK, NEW e \in Events
    PROVE  MarkDelivered(e) \in [Events -> EventRow]
<1>1. event[e] \in EventRow
  BY DEF TypeOK
<1>2. [event[e] EXCEPT !.status = "DELIVERED"] \in EventRow
  BY <1>1 DEF EventRow, Status
<1>. QED
  BY <1>2 DEF TypeOK, MarkDelivered

\* Queueing and waiting
LEMMA EventsKeepTypes ==
    ASSUME TypeOK, NEW e \in Events, Queue(e) \/ BecomesDue(e)
    PROVE  TypeOK'
<1>1. NewEvent \in EventRow
  BY DEF NewEvent, EventRow, Status
<1>2. event[e] \in EventRow
  BY DEF TypeOK
<1>3. [event[e] EXCEPT !.due = TRUE] \in EventRow
  BY <1>2 DEF EventRow
<1>4. event' \in [Events -> EventRow]
  BY <1>1, <1>3 DEF TypeOK, Queue, BecomesDue
<1>. QED
  BY <1>4 DEF TypeOK, Queue, BecomesDue, history

\* An endpoint is deleted.
LEMMA DeleteKeepsTypes ==
    ASSUME TypeOK, NEW p \in Endpoints, DeleteEndpoint(p)
    PROVE  TypeOK'
  BY DEF TypeOK, DeleteEndpoint, history, EndpointRow

\* A count that grows stays within its bound.
LEMMA OneMoreStays ==
    ASSUME NEW n \in 0..AckBound
    PROVE  OneMore(n) \in 0..AckBound /\ OneMore(n) >= n /\ OneMore(n) <= n + 1
  BY WebhooksAssumption DEF OneMore

\* A pass that begins, and a process that dies.
LEMMA WorkersKeepTypes ==
    ASSUME TypeOK, NEW w \in fleet, BeginPass(w) \/ Crash(w)
    PROVE  TypeOK'
<1>1. w \in Workers
  BY WebhooksAssumption DEF TypeOK, fleet
<1>2. Idle \in Task /\ Queued \in Task
  BY DEF Task
<1>3. CASE BeginPass(w)
  BY <1>1, <1>2, <1>3 DEF TypeOK, BeginPass, history
<1>4. CASE Crash(w)
  BY <1>1, <1>2, <1>4, OneMoreStays DEF TypeOK, Crash
<1>. QED
  BY <1>3, <1>4

\* A worker reads the endpoints of an event.
LEMMA ReadTargetsKeepsTypes ==
    ASSUME TypeOK, NEW w \in fleet, NEW e \in Events, ReadTargets(w, e)
    PROVE  TypeOK'
<1>1. w \in Workers /\ task[w][e] \in Task
  BY TaskTypes
<1>2. Targets(e) \in SUBSET Endpoints
  BY DEF Targets, Candidates
<1>3. Idle \in Task /\ Sending(Targets(e)) \in Task
  BY <1>2 DEF Task, Sending
<1>4. endpoint' \in [Endpoints -> EndpointRow]
  BY DEF TypeOK, ReadTargets, Disabled, EndpointRow
<1>5. task' \in [Workers -> [Events -> Task]]
  BY <1>1, <1>3, ReplacedTask DEF ReadTargets
<1>6. event' \in [Events -> EventRow] /\ noTarget' \subseteq Events
  BY DeliveredRow DEF TypeOK, ReadTargets
<1>. QED
  BY <1>4, <1>5, <1>6 DEF TypeOK, ReadTargets

\* A worker sends.
LEMMA SendKeepsTypes ==
    ASSUME TypeOK, NEW w \in fleet, NEW e \in Events, NEW ok, Send(w, e, ok)
    PROVE  TypeOK'
<1>1. w \in Workers /\ task[w][e] \in Task
  BY TaskTypes
<1>2. task[w][e].targets \in SUBSET Endpoints /\ ok \in SUBSET Endpoints
  BY <1>1, Stages DEF Send
<1>3. Answered(task[w][e].targets, ok) \in Task
  BY <1>2 DEF Task, Answered
<1>4. task' \in [Workers -> [Events -> Task]]
  BY <1>1, <1>3, ReplacedTask DEF Send
<1>5. acks' \in [Events -> [Endpoints -> 0..AckBound]]
  BY OneMoreStays DEF TypeOK, Send
<1>. QED
  BY <1>4, <1>5 DEF TypeOK, Send

\* A worker looks at the event again.
LEMMA RecheckKeepsTypes ==
    ASSUME TypeOK, NEW w \in fleet, NEW e \in Events, Recheck(w, e)
    PROVE  TypeOK'
<1>1. w \in Workers /\ task[w][e] \in Task
  BY TaskTypes
<1>2. /\ task[w][e].targets \in SUBSET Endpoints
      /\ task[w][e].ok \in SUBSET Endpoints
      /\ event[e].attempts \in Nat
  BY <1>1, Stages DEF TypeOK, Recheck, EventRow
<1>3. /\ Idle \in Task
      /\ Rechecked(task[w][e].targets, task[w][e].ok, event[e].attempts) \in Task
  BY <1>2, StageTypes
<1>4. task' \in [Workers -> [Events -> Task]]
  BY <1>1, <1>3, ReplacedTask DEF Recheck
<1>. QED
  BY <1>4 DEF TypeOK, Recheck, history

\* A worker records the outcome.
LEMMA RecordKeepsTypes ==
    ASSUME TypeOK, NEW w \in fleet, NEW e \in Events, Record(w, e)
    PROVE  TypeOK'
<1>1. w \in Workers /\ task[w][e] \in Task
  BY TaskTypes
<1>2. task[w][e].attempts \in Nat
  BY <1>1, Stages DEF Record
<1>3. event' \in [Events -> EventRow]
  <2>1. [status |-> "RETRYING", attempts |-> task[w][e].attempts + 1, due |-> FALSE] \in EventRow
    BY <1>2 DEF EventRow, Status
  <2>. QED
    BY <2>1, DeliveredRow DEF TypeOK, Record, AfterFailure
<1>4. ASSUME NEW p \in Endpoints
      PROVE  Counted(p, task[w][e].ok) \in EndpointRow
  <2>1. endpoint[p] \in EndpointRow
    BY DEF TypeOK
  <2>2. [endpoint[p] EXCEPT !.failures = 0] \in EndpointRow
    BY <2>1 DEF EndpointRow
  <2>3. ASSUME NEW s \in {"active", "disabled", "deleted"}
        PROVE  [endpoint[p] EXCEPT !.failures = @ + 1, !.state = s] \in EndpointRow
    <3>1. endpoint[p].failures + 1 \in Nat
      BY <2>1 DEF EndpointRow
    <3>. DEFINE n == endpoint[p].failures + 1
    <3>2. n \in Nat
      BY <3>1
    <3>. HIDE DEF n
    <3>3. [endpoint[p] EXCEPT !.failures = n, !.state = s] \in EndpointRow
      BY <2>1, <3>2 DEF EndpointRow
    <3>. QED
      BY <3>3 DEF n
  <2>4. endpoint[p].state \in {"active", "disabled", "deleted"}
    BY <2>1 DEF EndpointRow
  <2>5. CASE p \in task[w][e].ok
    BY <2>2, <2>5 DEF Counted
  <2>6. CASE p \notin task[w][e].ok
    <3>. DEFINE s == IF /\ endpoint[p].state = "active"
                        /\ endpoint[p].failures + 1 >= MaxFailures
                     THEN "disabled" ELSE endpoint[p].state
    <3>1. s \in {"active", "disabled", "deleted"}
      BY <2>4
    <3>2. Counted(p, task[w][e].ok) = [endpoint[p] EXCEPT !.failures = @ + 1, !.state = s]
      BY <2>6 DEF Counted
    <3>. HIDE DEF s
    <3>. QED
      BY <2>3, <3>1, <3>2
  <2>. QED
    BY <2>5, <2>6
<1>5. endpoint' \in [Endpoints -> EndpointRow]
  BY <1>4 DEF TypeOK, Record
<1>6. Idle \in Task
  BY DEF Task
<1>7. task' \in [Workers -> [Events -> Task]]
  BY <1>1, <1>6, ReplacedTask DEF Record
<1>. QED
  BY <1>3, <1>5, <1>7 DEF TypeOK, Record, history

\* A transaction of a worker fails.
LEMMA TaskFailsKeepsTypes ==
    ASSUME TypeOK, NEW w \in fleet, NEW e \in Events, TaskFails(w, e)
    PROVE  TypeOK'
<1>1. w \in Workers /\ Idle \in Task
  BY TaskTypes DEF Task
<1>2. task' \in [Workers -> [Events -> Task]]
  BY <1>1, ReplacedTask DEF TaskFails
<1>3. lost' \in [Events -> 0..AckBound]
  BY OneMoreStays DEF TypeOK, TaskFails
<1>. QED
  BY <1>2, <1>3 DEF TypeOK, TaskFails

\* Every event, endpoint and delivery is always in a state the tables and the
\* code have, and what the history counts stays within its bound.
THEOREM TypeCorrect == Spec => []TypeOK
<1>1. Init => TypeOK
  <2>. SUFFICES ASSUME Init PROVE TypeOK
    OBVIOUS
  <2>1. event \in [Events -> EventRow]
    BY DEF Init, EventRow, Status
  <2>2. endpoint \in [Endpoints -> EndpointRow]
    BY DEF Init, EndpointRow
  <2>3. task \in [Workers -> [Events -> Task]]
    BY DEF Init, Task
  <2>4. /\ acks \in [Events -> [Endpoints -> 0..AckBound]]
        /\ lost \in [Events -> 0..AckBound]
    BY WebhooksAssumption DEF Init
  <2>. QED
    BY <2>1, <2>2, <2>3, <2>4 DEF Init, TypeOK
<1>2. TypeOK /\ [Next]_vars => TypeOK'
  <2>. SUFFICES ASSUME TypeOK, [Next]_vars
                PROVE  TypeOK'
    OBVIOUS
  <2>1. CASE \E e \in Events : Queue(e) \/ BecomesDue(e)
    BY <2>1, EventsKeepTypes
  <2>2. CASE \E p \in Endpoints : DeleteEndpoint(p)
    BY <2>2, DeleteKeepsTypes
  <2>3. CASE \E w \in fleet : BeginPass(w) \/ Crash(w)
    BY <2>3, WorkersKeepTypes
  <2>4. CASE \E w \in fleet, e \in Events : ReadTargets(w, e)
    BY <2>4, ReadTargetsKeepsTypes
  <2>5. CASE \E w \in fleet, e \in Events : Sends(w, e)
    BY <2>5, SendKeepsTypes DEF Sends
  <2>6. CASE \E w \in fleet, e \in Events : Recheck(w, e)
    BY <2>6, RecheckKeepsTypes
  <2>7. CASE \E w \in fleet, e \in Events : Record(w, e)
    BY <2>7, RecordKeepsTypes
  <2>8. CASE \E w \in fleet, e \in Events : TaskFails(w, e)
    BY <2>8, TaskFailsKeepsTypes
  <2>9. CASE UNCHANGED vars
    BY <2>9 DEF vars, TypeOK
  <2>. QED
    BY <2>1, <2>2, <2>3, <2>4, <2>5, <2>6, <2>7, <2>8, <2>9 DEF Next
<1>. QED
  BY <1>1, <1>2, PTL DEF Spec

(***************************************************************************)
(* What is marked delivered was received                                   *)
(***************************************************************************)

\* One's own stage changes, the others stay.
LEMMA OneTask ==
    ASSUME TypeOK, NEW w \in fleet, NEW e \in Events, NEW t,
           task' = [task EXCEPT ![w][e] = t]
    PROVE  /\ task'[w][e] = t
           /\ \A v \in Workers, f \in Events : (v # w \/ f # e) => task'[v][f] = task[v][f]
  BY WebhooksAssumption DEF TypeOK, fleet

\* A call that succeeded is counted, and no count goes down.
LEMMA SendAcknowledges ==
    ASSUME TypeOK, NEW w \in fleet, NEW e \in Events, NEW ok, Send(w, e, ok)
    PROVE  /\ \A f \in Events : Acknowledged(f) => Acknowledged(f)'
           /\ ok # {} => Acknowledged(e)'
           /\ \A f \in Events \ {e} : acks'[f] = acks[f]
           /\ \A p \in Endpoints : acks'[e][p] <= acks[e][p] + 1
           /\ \A p \in Endpoints \ ok : acks'[e][p] = acks[e][p]
<1>1. ok \in SUBSET Endpoints
  BY TaskTypes, Stages DEF Send
<1>2. \A p \in Endpoints :
          acks'[e][p] = IF p \in ok THEN OneMore(acks[e][p]) ELSE acks[e][p]
  BY DEF TypeOK, Send
<1>3. \A f \in Events \ {e} : acks'[f] = acks[f]
  BY DEF TypeOK, Send
<1>4. \A p \in Endpoints : acks[e][p] \in 0..AckBound
  BY DEF TypeOK
<1>5. \A p \in Endpoints : /\ acks'[e][p] >= acks[e][p]
                           /\ acks'[e][p] <= acks[e][p] + 1
                           /\ p \in ok => acks'[e][p] > 0
                           /\ p \notin ok => acks'[e][p] = acks[e][p]
  <2>. TAKE p \in Endpoints
  <2>1. acks[e][p] \in 0..AckBound
    BY <1>4
  <2>2. p \in ok => OneMore(acks[e][p]) > 0
    BY <2>1, WebhooksAssumption DEF OneMore
  <2>. QED
    BY <1>2, <2>1, <2>2, OneMoreStays
<1>6. \A f \in Events : Acknowledged(f) => Acknowledged(f)'
  <2>1. Acknowledged(e) => Acknowledged(e)'
    BY <1>4, <1>5 DEF Acknowledged
  <2>2. \A f \in Events \ {e} : Acknowledged(f) => Acknowledged(f)'
    BY <1>3 DEF Acknowledged
  <2>. QED
    BY <2>1, <2>2
<1>7. ok # {} => Acknowledged(e)'
  BY <1>1, <1>5 DEF Acknowledged
<1>. QED
  BY <1>3, <1>5, <1>6, <1>7

Received == TypeOK /\ DeliveredWasReceived /\ AnswersAreAcknowledged

\* Steps outside the deliveries: no event becomes delivered, no answer arrives.
LEMMA OthersKeepReceived ==
    ASSUME Received,
           \/ \E e \in Events : Queue(e) \/ BecomesDue(e)
           \/ \E p \in Endpoints : DeleteEndpoint(p)
           \/ \E w \in fleet : BeginPass(w) \/ Crash(w)
    PROVE  DeliveredWasReceived' /\ AnswersAreAcknowledged'
<1>. USE DEF Received, DeliveredWasReceived, AnswersAreAcknowledged, Acknowledged
<1>1. ASSUME NEW e \in Events, Queue(e)
      PROVE  DeliveredWasReceived' /\ AnswersAreAcknowledged'
  BY <1>1 DEF Queue, NewEvent, TypeOK, history
<1>2. ASSUME NEW e \in Events, BecomesDue(e)
      PROVE  DeliveredWasReceived' /\ AnswersAreAcknowledged'
  BY <1>2 DEF BecomesDue, TypeOK, history, EventRow
<1>3. ASSUME NEW p \in Endpoints, DeleteEndpoint(p)
      PROVE  DeliveredWasReceived' /\ AnswersAreAcknowledged'
  BY <1>3 DEF DeleteEndpoint, history
<1>4. ASSUME NEW w \in fleet, BeginPass(w)
      PROVE  DeliveredWasReceived' /\ AnswersAreAcknowledged'
  BY <1>4 DEF BeginPass, TypeOK, history, Idle, Queued
<1>5. ASSUME NEW w \in fleet, Crash(w)
      PROVE  DeliveredWasReceived' /\ AnswersAreAcknowledged'
  BY <1>5 DEF Crash, TypeOK, Idle
<1>. QED
  BY <1>1, <1>2, <1>3, <1>4, <1>5

\* A worker reads the endpoints of an event.
LEMMA ReadTargetsKeepsReceived ==
    ASSUME Received, NEW w \in fleet, NEW e \in Events, ReadTargets(w, e)
    PROVE  DeliveredWasReceived' /\ AnswersAreAcknowledged'
<1>. DEFINE t == IF Targets(e) = {} THEN Idle ELSE Sending(Targets(e))
<1>1. task' = [task EXCEPT ![w][e] = t] /\ t.pc \in {"idle", "sending"}
  <2>1. t.pc \in {"idle", "sending"}
    BY DEF Idle, Sending
  <2>2. task' = [task EXCEPT ![w][e] = t]
    BY DEF ReadTargets
  <2>. QED
    BY <2>1, <2>2
<1>. HIDE DEF t
<1>2. AnswersAreAcknowledged'
  BY <1>1, OneTask DEF Received, AnswersAreAcknowledged, Acknowledged, ReadTargets
<1>3. \A f \in Events \ {e} : event'[f] = event[f]
  BY DEF ReadTargets, MarkDelivered, Received, TypeOK
<1>4. event'[e] = event[e] \/ e \in noTarget'
  BY DEF ReadTargets, Received, TypeOK
<1>5. noTarget \subseteq noTarget' /\ acks' = acks
  BY DEF ReadTargets
<1>. QED
  BY <1>2, <1>3, <1>4, <1>5 DEF Received, DeliveredWasReceived, Acknowledged

\* A worker sends, and knows of the acknowledgements it gets.
LEMMA SendKeepsReceived ==
    ASSUME Received, NEW w \in fleet, NEW e \in Events, NEW ok, Send(w, e, ok)
    PROVE  DeliveredWasReceived' /\ AnswersAreAcknowledged'
<1>1. /\ \A f \in Events : Acknowledged(f) => Acknowledged(f)'
      /\ ok # {} => Acknowledged(e)'
  BY SendAcknowledges DEF Received
<1>2. task' = [task EXCEPT ![w][e] = Answered(task[w][e].targets, ok)]
  BY DEF Send, Received, TypeOK
<1>3. DeliveredWasReceived'
  BY <1>1 DEF Received, DeliveredWasReceived, Send
<1>4. AnswersAreAcknowledged'
  BY <1>1, <1>2, OneTask DEF Received, AnswersAreAcknowledged, Answered
<1>. QED
  BY <1>3, <1>4

\* A worker looks at the event again.
LEMMA RecheckKeepsReceived ==
    ASSUME Received, NEW w \in fleet, NEW e \in Events, Recheck(w, e)
    PROVE  DeliveredWasReceived' /\ AnswersAreAcknowledged'
<1>1. event' = event /\ acks' = acks /\ noTarget' = noTarget
  BY DEF Recheck, history
<1>. DEFINE t == IF StillUnfinished(e)
                 THEN Rechecked(task[w][e].targets, task[w][e].ok, event[e].attempts)
                 ELSE Idle
<1>2. /\ task' = [task EXCEPT ![w][e] = t]
      /\ t.pc = "idle" \/ (t.pc = "rechecked" /\ t.ok = task[w][e].ok)
  <2>1. t.pc = "idle" \/ (t.pc = "rechecked" /\ t.ok = task[w][e].ok)
    BY DEF Rechecked, Idle
  <2>2. w \in Workers
    BY WebhooksAssumption DEF Received, TypeOK, fleet
  <2>3. task' = [task EXCEPT ![w][e] = t]
    BY <2>2 DEF Recheck, Received, TypeOK
  <2>. QED
    BY <2>1, <2>3
<1>. HIDE DEF t
<1>3. task[w][e].pc = "answered" /\ w \in Workers
  BY WebhooksAssumption DEF Recheck, Received, TypeOK, fleet
<1>4. AnswersAreAcknowledged'
  BY <1>1, <1>2, <1>3, OneTask DEF Received, AnswersAreAcknowledged, Acknowledged
<1>. QED
  BY <1>1, <1>4 DEF Received, DeliveredWasReceived, Acknowledged

\* A worker marks only what some endpoint has acknowledged.
LEMMA RecordKeepsReceived ==
    ASSUME Received, NEW w \in fleet, NEW e \in Events, Record(w, e)
    PROVE  DeliveredWasReceived' /\ AnswersAreAcknowledged'
<1>1. acks' = acks /\ noTarget' = noTarget
  BY DEF Record, history
<1>2. task' = [task EXCEPT ![w][e] = Idle] /\ task[w][e].pc = "rechecked" /\ w \in Workers
  BY WebhooksAssumption DEF Record, Received, TypeOK, fleet
<1>3. AnswersAreAcknowledged'
  BY <1>1, <1>2, OneTask DEF Received, AnswersAreAcknowledged, Acknowledged, Idle
<1>4. \A f \in Events \ {e} : event'[f] = event[f]
  BY DEF Record, MarkDelivered, AfterFailure, Received, TypeOK
<1>5. event'[e].status = "DELIVERED" => task[w][e].ok # {}
  BY DEF Record, Succeeds, AfterFailure, Received, TypeOK
<1>6. event'[e].status = "DELIVERED" => Acknowledged(e)
  BY <1>2, <1>5 DEF Received, AnswersAreAcknowledged
<1>. QED
  BY <1>1, <1>3, <1>4, <1>6 DEF Received, DeliveredWasReceived, Acknowledged

\* A transaction that fails takes no acknowledgement back.
LEMMA TaskFailsKeepsReceived ==
    ASSUME Received, NEW w \in fleet, NEW e \in Events, TaskFails(w, e)
    PROVE  DeliveredWasReceived' /\ AnswersAreAcknowledged'
<1>1. event' = event /\ acks' = acks /\ noTarget' = noTarget
  BY DEF TaskFails
<1>2. task' = [task EXCEPT ![w][e] = Idle]
  BY DEF TaskFails
<1>3. AnswersAreAcknowledged'
  BY <1>1, <1>2, OneTask DEF Received, AnswersAreAcknowledged, Acknowledged, Idle
<1>. QED
  BY <1>1, <1>3 DEF Received, DeliveredWasReceived, Acknowledged

\* An event is marked delivered only when an endpoint has acknowledged it or
\* some attempt found no endpoint for it, whatever the processes overwrite.
THEOREM DeliveredSafe == Spec => []DeliveredWasReceived
<1>1. Init => DeliveredWasReceived /\ AnswersAreAcknowledged
  BY DEF Init, DeliveredWasReceived, AnswersAreAcknowledged, Idle
<1>2. Received /\ [Next]_vars => DeliveredWasReceived' /\ AnswersAreAcknowledged'
  <2>. SUFFICES ASSUME Received, [Next]_vars
                PROVE  DeliveredWasReceived' /\ AnswersAreAcknowledged'
    OBVIOUS
  <2>1. CASE \/ \E e \in Events : Queue(e) \/ BecomesDue(e)
             \/ \E p \in Endpoints : DeleteEndpoint(p)
             \/ \E w \in fleet : BeginPass(w) \/ Crash(w)
    BY <2>1, OthersKeepReceived
  <2>2. CASE \E w \in fleet, e \in Events : ReadTargets(w, e)
    BY <2>2, ReadTargetsKeepsReceived
  <2>3. CASE \E w \in fleet, e \in Events : Sends(w, e)
    BY <2>3, SendKeepsReceived DEF Sends
  <2>4. CASE \E w \in fleet, e \in Events : Recheck(w, e)
    BY <2>4, RecheckKeepsReceived
  <2>5. CASE \E w \in fleet, e \in Events : Record(w, e)
    BY <2>5, RecordKeepsReceived
  <2>6. CASE \E w \in fleet, e \in Events : TaskFails(w, e)
    BY <2>6, TaskFailsKeepsReceived
  <2>7. CASE UNCHANGED vars
    BY <2>7 DEF vars, Received, DeliveredWasReceived, AnswersAreAcknowledged, Acknowledged
  <2>. QED
    BY <2>1, <2>2, <2>3, <2>4, <2>5, <2>6, <2>7 DEF Next
<1>3. Spec => []TypeOK
  BY TypeCorrect
<1>. QED
  BY <1>1, <1>2, <1>3, PTL DEF Spec, Received

(***************************************************************************)
(* One process repeats only what was lost                                  *)
(***************************************************************************)

\* A round is not touched by what leaves its task, its event and its counts
\* alone.
LEMMA RoundStays ==
    ASSUME NEW w, NEW e, RoundOf(w, e), task'[w][e] = task[w][e],
           event'[e] = event[e], acks'[e] = acks[e], lost'[e] = lost[e]
    PROVE  RoundOf(w, e)'
  BY DEF RoundOf, Holds

\* The counts are numbers.
LEMMA Counts ==
    ASSUME TypeOK, NEW e \in Events, NEW p \in Endpoints
    PROVE  acks[e][p] \in 0..AckBound /\ lost[e] \in 0..AckBound
  BY DEF TypeOK

\* A delivery that ends without a record: what it held counts as lost.
LEMMA LossKeepsRound ==
    ASSUME TypeOK, NEW w \in fleet, NEW e \in Events, RoundOf(w, e),
           task'[w][e] = Idle, event'[e] = event[e], acks'[e] = acks[e],
           lost'[e] = IF Holds(w, e) THEN OneMore(lost[e]) ELSE lost[e]
    PROVE  RoundOf(w, e)'
<1>1. ASSUME NEW p \in Endpoints
      PROVE  \/ acks'[e][p] <= lost'[e]
             \/ acks'[e][p] <= lost'[e] + 1 /\ event'[e].status = "DELIVERED"
  <2>1. acks[e][p] \in 0..AckBound /\ lost[e] \in 0..AckBound /\ AckBound \in Nat
    BY <1>1, Counts, WebhooksAssumption
  <2>2. CASE Holds(w, e)
    <3>1. lost'[e] = OneMore(lost[e]) /\ acks[e][p] <= lost[e] + 1
      BY <2>1, <2>2 DEF RoundOf
    <3>. QED
      BY <2>1, <3>1 DEF OneMore
  <2>3. CASE ~Holds(w, e)
    BY <2>1, <2>3 DEF RoundOf
  <2>. QED
    BY <2>2, <2>3
<1>. QED
  BY <1>1 DEF RoundOf

\* Steps outside the deliveries
LEMMA OthersKeepRounds ==
    ASSUME TypeOK, NEW w \in fleet, \A e \in Events : RoundOf(w, e),
           \/ \E e \in Events : Queue(e) \/ BecomesDue(e)
           \/ \E p \in Endpoints : DeleteEndpoint(p)
           \/ BeginPass(w)
           \/ Crash(w)
    PROVE  \A e \in Events : RoundOf(w, e)'
<1>1. ASSUME NEW e \in Events, Queue(e)
      PROVE  \A f \in Events : RoundOf(w, f)'
  BY <1>1 DEF Queue, NewEvent, TypeOK, history, Unfinished, RoundOf, Holds
<1>2. ASSUME NEW e \in Events, BecomesDue(e)
      PROVE  \A f \in Events : RoundOf(w, f)'
  BY <1>2 DEF BecomesDue, TypeOK, history, EventRow, RoundOf, Holds
<1>3. ASSUME NEW p \in Endpoints, DeleteEndpoint(p)
      PROVE  \A f \in Events : RoundOf(w, f)'
  BY <1>3, RoundStays DEF DeleteEndpoint, history
<1>4. ASSUME BeginPass(w)
      PROVE  \A f \in Events : RoundOf(w, f)'
  <2>. TAKE f \in Events
  <2>1. task[w][f] = Idle /\ acks' = acks /\ lost' = lost /\ event' = event
    BY <1>4 DEF BeginPass, history
  <2>2. task'[w][f] # Idle => event[f].status \in Unfinished
    BY <1>4, WebhooksAssumption DEF BeginPass, Eligible, TypeOK, fleet
  <2>3. ~Holds(w, f)
    BY <2>1 DEF Holds, Idle
  <2>. QED
    BY <2>1, <2>2, <2>3 DEF RoundOf
<1>5. ASSUME Crash(w)
      PROVE  \A f \in Events : RoundOf(w, f)'
  <2>. TAKE f \in Events
  <2>1. task'[w][f] = Idle
    BY <1>5, WebhooksAssumption DEF Crash, TypeOK, fleet
  <2>. QED
    BY <1>5, <2>1, LossKeepsRound DEF Crash
<1>. QED
  BY <1>1, <1>2, <1>3, <1>4, <1>5

\* A round begins with the endpoints that are read.
LEMMA ReadTargetsKeepsRounds ==
    ASSUME TypeOK, NEW w \in fleet, NEW e \in Events, ReadTargets(w, e), RoundOf(w, e)
    PROVE  RoundOf(w, e)'
<1>1. ~Holds(w, e)
  BY DEF ReadTargets, Queued, Holds
<1>2. event[e].status \in Unfinished
  BY DEF RoundOf, ReadTargets, Queued, Idle
<1>3. acks' = acks /\ lost' = lost /\ \A p \in Endpoints : acks[e][p] <= lost[e]
  BY <1>1, <1>2 DEF ReadTargets, RoundOf, Unfinished
<1>4. task'[w][e] # Idle => event' = event
  <2>1. CASE Targets(e) = {}
    <3>1. task' = [task EXCEPT ![w][e] = Idle]
      BY <2>1 DEF ReadTargets
    <3>2. task'[w][e] = Idle
      BY <3>1, WebhooksAssumption DEF TypeOK, fleet
    <3>. QED
      BY <3>2
  <2>2. CASE Targets(e) # {}
    BY <2>2 DEF ReadTargets
  <2>. QED
    BY <2>1, <2>2
<1>. QED
  BY <1>2, <1>3, <1>4 DEF RoundOf

\* A worker sends to the endpoints of its round.
LEMMA SendKeepsRounds ==
    ASSUME TypeOK, NEW w \in fleet, NEW e \in Events, NEW ok, Send(w, e, ok), RoundOf(w, e)
    PROVE  RoundOf(w, e)'
<1>1. event[e].status \in Unfinished /\ ~Holds(w, e)
  BY DEF RoundOf, Send, Idle, Holds
<1>2. \A p \in Endpoints : acks[e][p] <= lost[e]
  BY <1>1 DEF RoundOf, Unfinished
<1>3. /\ \A p \in Endpoints : acks'[e][p] <= acks[e][p] + 1
      /\ \A p \in Endpoints \ ok : acks'[e][p] = acks[e][p]
  BY SendAcknowledges
<1>4. ASSUME NEW p \in Endpoints
      PROVE  acks'[e][p] <= lost[e] \/ (acks'[e][p] <= lost[e] + 1 /\ ok # {})
  <2>1. acks[e][p] \in 0..AckBound /\ lost[e] \in 0..AckBound /\ acks'[e][p] \in Int
    <3>1. acks'[e][p] \in 0..AckBound
      BY SendKeepsTypes DEF TypeOK
    <3>. QED
      BY <3>1, Counts
  <2>. QED
    BY <1>2, <1>3, <2>1
<1>5. task'[w][e] = Answered(task[w][e].targets, ok)
  BY WebhooksAssumption DEF Send, TypeOK, fleet
<1>6. Holds(w, e)' <=> ok # {}
  BY <1>5 DEF Holds, Answered
<1>7. event' = event /\ lost' = lost
  BY DEF Send
<1>. QED
  BY <1>1, <1>4, <1>6, <1>7 DEF RoundOf

\* A worker looks at the event again.
LEMMA RecheckKeepsRounds ==
    ASSUME TypeOK, NEW w \in fleet, NEW e \in Events, Recheck(w, e), RoundOf(w, e)
    PROVE  RoundOf(w, e)'
<1>1. task[w][e].pc = "answered" /\ event' = event /\ acks' = acks /\ lost' = lost
  BY DEF Recheck, history
<1>2. event[e].status \in Unfinished
  BY <1>1 DEF RoundOf, Idle
<1>. DEFINE t == Rechecked(task[w][e].targets, task[w][e].ok, event[e].attempts)
<1>3. task'[w][e] = t
  BY <1>2, WebhooksAssumption DEF Recheck, StillUnfinished, TypeOK, fleet
<1>4. Holds(w, e)' <=> Holds(w, e)
  BY <1>1, <1>3 DEF Holds, Rechecked
<1>. QED
  BY <1>1, <1>2, <1>4 DEF RoundOf

\* A round ends with its record.
LEMMA RecordKeepsRounds ==
    ASSUME TypeOK, NEW w \in fleet, NEW e \in Events, Record(w, e), RoundOf(w, e)
    PROVE  RoundOf(w, e)'
<1>1. task[w][e].pc = "rechecked" /\ acks' = acks /\ lost' = lost
  BY DEF Record, history
<1>2. task'[w][e] = Idle
  BY WebhooksAssumption DEF Record, TypeOK, fleet
<1>3. event[e].status \in Unfinished
  BY <1>1 DEF RoundOf, Idle
<1>4. task[w][e].ok # {} => event'[e].status = "DELIVERED"
  <2>1. event[e] \in EventRow
    BY DEF TypeOK
  <2>2. [event[e] EXCEPT !.status = "DELIVERED"].status = "DELIVERED"
    BY <2>1 DEF EventRow
  <2>. QED
    BY <2>2 DEF Record, Succeeds, MarkDelivered, TypeOK
<1>5. Holds(w, e) => event'[e].status = "DELIVERED"
  BY <1>4 DEF Holds
<1>6. event[e].status # "DELIVERED"
  BY <1>3 DEF Unfinished
<1>. QED
  BY <1>1, <1>2, <1>5, <1>6 DEF RoundOf

\* A delivery of one event leaves the rounds of the others alone.
LEMMA OtherRounds ==
    ASSUME TypeOK, NEW w \in fleet, NEW e \in Events, NEW f \in Events \ {e}, RoundOf(w, f),
           ReadTargets(w, e) \/ Sends(w, e) \/ Recheck(w, e) \/ Record(w, e) \/ TaskFails(w, e)
    PROVE  RoundOf(w, f)'
<1>1. event'[f] = event[f]
  BY DEF ReadTargets, Sends, Send, Recheck, Record, TaskFails, MarkDelivered, AfterFailure,
         history, TypeOK
<1>2. acks'[f] = acks[f] /\ lost'[f] = lost[f]
  BY DEF ReadTargets, Sends, Send, Recheck, Record, TaskFails, history, TypeOK
<1>3. task'[w][f] = task[w][f]
  BY WebhooksAssumption
     DEF ReadTargets, Sends, Send, Recheck, Record, TaskFails, TypeOK, fleet
<1>. QED
  BY <1>1, <1>2, <1>3, RoundStays

\* A transaction of a round fails.
LEMMA TaskFailsKeepsRounds ==
    ASSUME TypeOK, NEW w \in fleet, NEW e \in Events, TaskFails(w, e), RoundOf(w, e)
    PROVE  RoundOf(w, e)'
<1>1. task'[w][e] = Idle /\ event' = event /\ acks' = acks
  BY WebhooksAssumption DEF TaskFails, TypeOK, fleet
<1>2. lost'[e] = IF Holds(w, e) THEN OneMore(lost[e]) ELSE lost[e]
  BY DEF TaskFails, TypeOK
<1>. QED
  BY <1>1, <1>2, LossKeepsRound

\* The deployment stays.
LEMMA FleetStays ==
    ASSUME [Next]_vars
    PROVE  fleet' = fleet
<1>. SUFFICES deployment' = deployment
  BY DEF fleet
<1>1. CASE \E e \in Events : Queue(e) \/ BecomesDue(e)
  BY <1>1 DEF Queue, BecomesDue
<1>2. CASE \E p \in Endpoints : DeleteEndpoint(p)
  BY <1>2 DEF DeleteEndpoint
<1>3. CASE \E w \in fleet : BeginPass(w) \/ Crash(w)
  BY <1>3 DEF BeginPass, Crash
<1>4. CASE \E w \in fleet, e \in Events : ReadTargets(w, e) \/ Sends(w, e)
  BY <1>4 DEF ReadTargets, Sends, Send
<1>5. CASE \E w \in fleet, e \in Events : Recheck(w, e) \/ Record(w, e) \/ TaskFails(w, e)
  BY <1>5 DEF Recheck, Record, TaskFails
<1>6. CASE UNCHANGED vars
  BY <1>6 DEF vars
<1>. QED
  BY <1>1, <1>2, <1>3, <1>4, <1>5, <1>6 DEF Next

\* The one process of a deployment
LEMMA TheProcess ==
    ASSUME TypeOK, Cardinality(fleet) = 1
    PROVE  \E u : fleet = {u}
<1>1. IsFiniteSet(fleet)
  BY WebhooksAssumption, FS_Subset DEF TypeOK, fleet
<1>. QED
  BY <1>1, FS_Singleton

\* In a deployment of one process an endpoint that has acknowledged an event
\* gets it again only for a delivery whose outcome was lost, once for each,
\* however many events a pass handles and whichever transactions fail.
THEOREM RepeatsSafe == Spec => []RepeatsOnlyWhatWasLost
<1>1. Init => OneRound
  <2>. SUFFICES ASSUME Init, NEW w \in fleet, NEW e \in Events
                PROVE  RoundOf(w, e)
    BY DEF OneRound
  <2>1. task[w][e] = Idle
    BY WebhooksAssumption DEF Init, fleet
  <2>2. lost[e] = 0 /\ \A p \in Endpoints : acks[e][p] = 0
    BY DEF Init
  <2>. QED
    BY <2>1, <2>2 DEF RoundOf
<1>2. TypeOK /\ OneRound /\ [Next]_vars => OneRound'
  <2>. SUFFICES ASSUME TypeOK, OneRound, [Next]_vars, Cardinality(fleet') = 1
                PROVE  \A w \in fleet', e \in Events : RoundOf(w, e)'
    BY DEF OneRound
  <2>1. fleet' = fleet
    BY FleetStays
  <2>2. PICK u : fleet = {u}
    BY <2>1, TheProcess
  <2>3. \A e \in Events : RoundOf(u, e)
    BY <2>1, <2>2 DEF OneRound
  <2>. SUFFICES \A e \in Events : RoundOf(u, e)'
    BY <2>1, <2>2
  <2>4. CASE \/ \E e \in Events : Queue(e) \/ BecomesDue(e)
             \/ \E p \in Endpoints : DeleteEndpoint(p)
             \/ \E w \in fleet : BeginPass(w) \/ Crash(w)
    BY <2>2, <2>3, <2>4, OthersKeepRounds
  <2>5. CASE \E w \in fleet, e \in Events : \/ ReadTargets(w, e) \/ Sends(w, e)
                                            \/ Recheck(w, e) \/ Record(w, e)
                                            \/ TaskFails(w, e)
    <3>1. PICK e \in Events : \/ ReadTargets(u, e) \/ Sends(u, e)
                              \/ Recheck(u, e) \/ Record(u, e)
                              \/ TaskFails(u, e)
      BY <2>2, <2>5
    <3>2. RoundOf(u, e)'
      BY <2>2, <2>3, <3>1, ReadTargetsKeepsRounds, SendKeepsRounds, RecheckKeepsRounds,
         RecordKeepsRounds, TaskFailsKeepsRounds DEF Sends
    <3>3. \A f \in Events \ {e} : RoundOf(u, f)'
      BY <2>2, <2>3, <3>1, OtherRounds
    <3>. QED
      BY <3>2, <3>3
  <2>6. CASE UNCHANGED vars
    BY <2>3, <2>6, RoundStays DEF vars
  <2>. QED
    BY <2>4, <2>5, <2>6 DEF Next
<1>3. TypeOK /\ OneRound => RepeatsOnlyWhatWasLost
  <2>. SUFFICES ASSUME TypeOK, OneRound, Cardinality(fleet) = 1,
                       NEW e \in Events, NEW p \in Endpoints
                PROVE  acks[e][p] <= 1 + lost[e]
    BY DEF RepeatsOnlyWhatWasLost
  <2>1. PICK u : fleet = {u}
    BY TheProcess
  <2>2. RoundOf(u, e)
    BY <2>1 DEF OneRound
  <2>. QED
    BY <2>2, Counts DEF RoundOf
<1>4. Spec => []TypeOK
  BY TypeCorrect
<1>. QED
  BY <1>1, <1>2, <1>3, <1>4, PTL DEF Spec
=============================================================================
