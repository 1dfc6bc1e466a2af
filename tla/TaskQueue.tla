------------------------------ MODULE TaskQueue ------------------------------
(***************************************************************************)
(* The durable background-work queue (TASK_QUEUE): a Cloudflare Queue,     *)
(* which is external, with the acknowledge-or-retry policy of its only     *)
(* consumer, the queue() handler of services/scheduler/src/index.js.       *)
(*                                                                         *)
(* Delivery is at least once and unordered.  q[task][n] counts the copies  *)
(* of a task whose next delivery will be their n-th.                       *)
(***************************************************************************)
EXTENDS Naturals

CONSTANT MaxDeliveries  \* MAX_DELIVERIES = max_retries + 1: a copy's last delivery

ASSUME MaxDeliveriesAssumption == MaxDeliveries \in Nat \ {0}

Deliveries == 1 .. MaxDeliveries

Queues(Task) == [Task -> [Deliveries -> Nat]]

EmptyQueue(Task) == [task \in Task |-> [n \in Deliveries |-> 0]]

\* TASK_QUEUE.send: a new copy, waiting for its first delivery.
Sent(q, task) == [q EXCEPT ![task][1] = @ + 1]

\* The queue hands a copy to the consumer.
Taken(q, task, n) == [q EXCEPT ![task][n] = @ - 1]

\* The handler threw, or its isolate died: the copy comes back for one more
\* delivery, unless this was its last one.  On the last one the consumer records
\* the failure and acknowledges; if it died instead, the dead-letter queue, which
\* nothing reads, takes the copy.
Returned(q, task, n) ==
    IF n < MaxDeliveries THEN [q EXCEPT ![task][n + 1] = @ + 1] ELSE q

Waiting(q, task, n) == q[task][n] > 0
=============================================================================
