---------------------------- MODULE DeliveryOutbox ----------------------------
(***************************************************************************)
(* The older Slack outbox, src/functions/lib/delivery-outbox.js, and its   *)
(* part of the consumer in src/services/scheduler/src/index.js.            *)
(*                                                                         *)
(* One row of delivery_outbox.  The sweep takes what was queued or claimed *)
(* fifteen minutes ago to be lost, and has no lease to tell it otherwise;  *)
(* that time may pass between any two steps.                               *)
(***************************************************************************)
EXTENDS Naturals

CONSTANTS
    Workers,          \* overlapping invocations of the task's handler
    MaxDeliveries,
    MaxRequeues,      \* bound: reconnections that requeue what was blocked
    MaxCopies,        \* bound: copies of the task that wait at once
    MaxFaults         \* bound: failures of any kind

VARIABLES
    status, later,    \* the row's status, and whether next_attempt_at is ahead
    q,                \* the queue
    sweep,            \* what the sweep is at: "idle", "chosen" or "sent"
    at, copy,         \* what a worker is at, and which delivery it was handed
    posts,            \* messages posted to Slack
    requeues, faults, unsure

vars == <<status, later, q, sweep, at, copy, posts, requeues, faults, unsure>>

Row   == "row"
Queue == INSTANCE TaskQueue

Blocked == {"blocked_configuration", "blocked_service_disabled"}
Settled == {"delivered", "failed"} \cup Blocked

Init ==
    /\ status = "pending"
    /\ later = FALSE
    /\ q = Queue!EmptyQueue({Row})
    /\ sweep = "idle"
    /\ at = [w \in Workers |-> "free"]
    /\ copy = [w \in Workers |-> 0]
    /\ posts = 0
    /\ requeues = 0
    /\ faults = 0
    /\ unsure = FALSE

Faulty ==
    /\ faults < MaxFaults
    /\ faults' = faults + 1

Busy == \E w \in Workers : at[w] # "free"

-----------------------------------------------------------------------------
(* The sweep: recoverOutboxDeliveries and queueOutboxDelivery *)

\* Slip: a claim is never taken for lost.
LostQueued == status = "queued"

Lost == status \in {"queued", "processing"}

\* What has not moved for fifteen minutes is pending again; a worker may still have it.
Reset ==
    /\ sweep = "idle"
    /\ Lost
    /\ IF Busy THEN Faulty /\ unsure' = TRUE ELSE UNCHANGED <<faults, unsure>>
    /\ status' = "pending"
    /\ UNCHANGED <<later, q, sweep, at, copy, posts, requeues>>

Choose ==
    /\ sweep = "idle"
    /\ status \in {"pending", "retrying"}
    /\ ~later
    /\ sweep' = "chosen"
    /\ UNCHANGED <<status, later, q, at, copy, posts, requeues, faults, unsure>>

QueueIt ==
    /\ sweep = "chosen"
    /\ \A n \in Queue!Deliveries : q[Row][n] < MaxCopies
    /\ q' = Queue!Sent(q, Row)
    /\ sweep' = "sent"
    /\ UNCHANGED <<status, later, at, copy, posts, requeues, faults, unsure>>

\* noteQueueFailure: pending unless it is delivered, even if a worker claimed it meanwhile.
QueueFails ==
    /\ sweep = "chosen"
    /\ Faulty
    /\ status' = IF status # "delivered" THEN "pending" ELSE status
    /\ unsure' = (unsure \/ Busy)
    /\ sweep' = "idle"
    /\ UNCHANGED <<later, q, at, copy, posts, requeues>>

Mark ==
    /\ sweep = "sent"
    /\ status' = IF status \in {"pending", "retrying", "failed"} THEN "queued" ELSE status
    /\ sweep' = "idle"
    /\ UNCHANGED <<later, q, at, copy, posts, requeues, faults, unsure>>

\* requeueBlockedForOrg, when the workspace is connected, and requeueBlockedForSite, which
\* takes what waits for its next attempt too; the sweep follows.
Requeue ==
    /\ requeues < MaxRequeues
    /\ requeues' = requeues + 1
    /\ status \in {"blocked_configuration", "failed", "retrying", "pending"}
    /\ status' = "pending"
    /\ later' = FALSE
    /\ unsure' = (unsure \/ Busy)
    /\ UNCHANGED <<q, sweep, at, copy, posts, faults>>

\* The time of the next attempt comes.
Pass ==
    /\ later
    /\ later' = FALSE
    /\ UNCHANGED <<status, q, sweep, at, copy, posts, requeues, faults, unsure>>

-----------------------------------------------------------------------------
(* The worker: deliverSlackOutbox *)

\* Slip: a row that another worker has can be claimed too.
ClaimableProcessing == status \notin {"delivered"} \cup Blocked

Claimable == status \in {"pending", "queued", "retrying", "failed"}

Take(w) ==
    /\ at[w] = "free"
    /\ \E n \in Queue!Deliveries :
           /\ Queue!Waiting(q, Row, n)
           /\ q' = Queue!Taken(q, Row, n)
           /\ IF Claimable
              THEN /\ status' = "processing"
                   /\ at' = [at EXCEPT ![w] = "claimed"]
                   /\ copy' = [copy EXCEPT ![w] = n]
              ELSE UNCHANGED <<status, at, copy>>
    /\ UNCHANGED <<later, sweep, posts, requeues, faults, unsure>>

Free(w) ==
    /\ at' = [at EXCEPT ![w] = "free"]
    /\ copy' = [copy EXCEPT ![w] = 0]

\* Acknowledged with a status that the next attempt is not for: the app is off, the
\* workspace is not connected, Slack refuses the channel, or the payload is no message.
Refuse(w) ==
    /\ at[w] = "claimed"
    /\ \/ status' = IF status # "delivered" THEN "blocked_service_disabled" ELSE status
       \/ status' = "blocked_configuration"
       \/ status' = "failed"
    /\ later' = FALSE
    /\ Free(w)
    /\ UNCHANGED <<q, sweep, posts, requeues, faults, unsure>>

Post(w) ==
    /\ at[w] = "claimed"
    /\ posts' = posts + 1
    /\ at' = [at EXCEPT ![w] = "posted"]
    /\ UNCHANGED <<status, later, q, sweep, copy, requeues, faults, unsure>>

Deliver(w) ==
    /\ at[w] = "posted"
    /\ status' = "delivered"
    /\ later' = FALSE
    /\ Free(w)
    /\ UNCHANGED <<q, sweep, posts, requeues, faults, unsure>>

\* The error is thrown on: the consumer has the copy delivered again, or marks the row.
Thrown(n) == IF n = MaxDeliveries THEN "failed" ELSE "retrying"

\* Slack fails, or the channel could not be marked verified after Slack had posted.
Throw(w) ==
    /\ at[w] \in {"claimed", "posted"}
    /\ Faulty
    /\ status' = Thrown(copy[w])
    /\ later' = (copy[w] # MaxDeliveries)
    /\ q' = Queue!Returned(q, Row, copy[w])
    /\ unsure' = (unsure \/ at[w] = "posted")
    /\ Free(w)
    /\ UNCHANGED <<sweep, posts, requeues>>

Die(w) ==
    /\ at[w] # "free"
    /\ Faulty
    /\ q' = Queue!Returned(q, Row, copy[w])
    /\ unsure' = (unsure \/ at[w] = "posted")
    /\ Free(w)
    /\ UNCHANGED <<status, later, sweep, posts, requeues>>

-----------------------------------------------------------------------------
Worker(w) == Take(w) \/ Refuse(w) \/ Post(w) \/ Deliver(w) \/ Throw(w) \/ Die(w)

Next ==
    \/ Reset \/ Choose \/ QueueIt \/ QueueFails \/ Mark \/ Requeue \/ Pass
    \/ \E w \in Workers : Worker(w)

Spec == Init /\ [][Next]_vars

\* What goes on by itself: the handler of a task, the sweep's repair, its work on a row.
Handles == \E w \in Workers : Take(w) \/ Refuse(w) \/ Post(w) \/ Deliver(w)
Repairs == Reset \/ Pass
Sweeps  == Choose \/ QueueIt \/ Mark

-----------------------------------------------------------------------------
TypeOK ==
    /\ status \in {"pending", "queued", "processing", "retrying"} \cup Settled
    /\ later \in BOOLEAN
    /\ q \in Queue!Queues({Row})
    /\ sweep \in {"idle", "chosen", "sent"}
    /\ at \in [Workers -> {"free", "claimed", "posted"}]
    /\ copy \in [Workers -> 0 .. MaxDeliveries]
    /\ posts \in Nat
    /\ requeues \in 0 .. MaxRequeues
    /\ faults \in 0 .. MaxFaults
    /\ unsure \in BOOLEAN

\* The message is posted again only where the row says too little: its worker was taken
\* for lost or had its claim overwritten while it lived, or posted and did not get to
\* record it.
RepeatHasCause == posts > 1 => unsure

\* A row that is due does not stay so, whichever copies and workers are lost.
RowSettles == status \notin Settled ~> status \in Settled
=============================================================================
