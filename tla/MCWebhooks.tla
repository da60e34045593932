---------------------------- MODULE MCWebhooks ----------------------------
(***************************************************************************)
(* Small instances of Webhooks: one process with two events and an         *)
(* endpoint that has become unreadable, and two processes with one event.  *)
(* One endpoint takes every event, the other filters.                      *)
(***************************************************************************)
EXTENDS Webhooks

CONSTANTS w1, w2, e1, e2, p1, p2

MCWorkers == {w1, w2}
MCEvents == {e1, e2}
MCDeployments ==
    {[fleet |-> {w1}, traffic |-> {e1, e2}, unreadable |-> {p2}],
     [fleet |-> {w1, w2}, traffic |-> {e1}, unreadable |-> {}]}
MCFilter == [p \in Endpoints |-> IF p = p1 THEN MCEvents ELSE {e1}]
=============================================================================
