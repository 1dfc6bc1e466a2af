-------------------------- MODULE TaskQueueProofs --------------------------
(* What the operators of TaskQueue preserve, for every set of tasks. *)
EXTENDS TaskQueue, TLAPS

\* Sending keeps a queue a queue, whatever is sent.
LEMMA SentTyped ==
    ASSUME NEW Task, NEW q \in Queues(Task), NEW task
    PROVE  Sent(q, task) \in Queues(Task)
<1>1. CASE task \in Task
  BY <1>1, MaxDeliveriesAssumption DEF Queues, Sent, Deliveries
<1>2. CASE task \notin Task
  BY <1>2 DEF Queues, Sent
<1>3. QED
  BY <1>1, <1>2

\* Taking a copy that is there keeps the counts natural numbers.
LEMMA TakenTyped ==
    ASSUME NEW Task, NEW q \in Queues(Task), NEW task \in Task, NEW n \in Deliveries,
           Waiting(q, task, n)
    PROVE  Taken(q, task, n) \in Queues(Task)
<1>1. q[task] \in [Deliveries -> Nat]
  BY DEF Queues
<1>2. q[task][n] - 1 \in Nat
  BY <1>1 DEF Waiting
<1>3. QED
  BY <1>1, <1>2 DEF Queues, Taken

\* A copy comes back for a delivery that exists, or not at all.
LEMMA ReturnedTyped ==
    ASSUME NEW Task, NEW q \in Queues(Task), NEW task, NEW n \in Deliveries
    PROVE  Returned(q, task, n) \in Queues(Task)
<1>1. CASE task \in Task /\ n < MaxDeliveries
  <2>1. n + 1 \in Deliveries
    BY MaxDeliveriesAssumption, <1>1 DEF Deliveries
  <2>2. q[task][n + 1] + 1 \in Nat
    BY <1>1, <2>1 DEF Queues
  <2>3. QED
    BY <1>1, <2>1, <2>2 DEF Queues, Returned
<1>2. CASE task \notin Task \/ ~(n < MaxDeliveries)
  BY <1>2 DEF Queues, Returned
<1>3. QED
  BY <1>1, <1>2

\* Some copy of the task is waiting.
Holds(q, task) == \E n \in Deliveries : Waiting(q, task, n)

\* A copy that can be delivered is a copy that waits.
LEMMA WaitingHolds ==
    ASSUME NEW q, NEW task, NEW n \in Deliveries, Waiting(q, task, n)
    PROVE  Holds(q, task)
BY DEF Holds

\* Sending a task makes no copy of another task appear.
LEMMA HoldsSent ==
    ASSUME NEW Task, NEW q \in Queues(Task), NEW task, NEW other \in Task,
           Holds(Sent(q, task), other)
    PROVE  other = task \/ Holds(q, other)
BY DEF Holds, Waiting, Sent, Queues

\* Taking a copy makes none appear.
LEMMA HoldsTaken ==
    ASSUME NEW Task, NEW q \in Queues(Task), NEW task \in Task, NEW n \in Deliveries,
           NEW other \in Task, Holds(Taken(q, task, n), other)
    PROVE  Holds(q, other)
<1>1. PICK m \in Deliveries : Taken(q, task, n)[other][m] > 0
  BY DEF Holds, Waiting
<1>2. q[other][m] \in Nat /\ q[task][n] \in Nat
  BY DEF Queues
<1>3. q[other][m] > 0
  <2>1. CASE other = task /\ m = n
    BY <1>1, <1>2, <2>1 DEF Taken, Queues
  <2>2. CASE ~(other = task /\ m = n)
    BY <1>1, <1>2, <2>2 DEF Taken, Queues
  <2>3. QED
    BY <2>1, <2>2
<1>4. QED
  BY <1>3 DEF Holds, Waiting

\* Returning a copy makes no copy of another task appear.
LEMMA HoldsReturned ==
    ASSUME NEW Task, NEW q \in Queues(Task), NEW task, NEW n \in Deliveries,
           NEW other \in Task, Holds(Returned(q, task, n), other)
    PROVE  other = task \/ Holds(q, other)
BY DEF Holds, Waiting, Returned, Queues

\* A new queue is empty.
LEMMA HoldsEmpty ==
    ASSUME NEW Task
    PROVE  /\ EmptyQueue(Task) \in Queues(Task)
           /\ \A task \in Task : ~Holds(EmptyQueue(Task), task)
BY DEF EmptyQueue, Queues, Holds, Waiting
=============================================================================
