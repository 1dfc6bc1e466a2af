--------------------------- MODULE PlatformEvents ---------------------------
(***************************************************************************)
(* The platform event log and its read model: platform-event-store.ts,     *)
(* platform-event-projector.ts and the operator's replay script.           *)
(*                                                                         *)
(* An event is a row of platform_events.  Publishers and the recovery      *)
(* sweep put it on the task queue, consumers project it: an append-only    *)
(* fact and, for an event that changes a subject's state, the subject's    *)
(* current-state row.  Each action is what an invocation does between two  *)
(* awaits.                                                                 *)
(***************************************************************************)
EXTENDS TaskQueue

CONSTANTS
    Threads,      \* concurrent invocations
    Events,       \* event rows, numbered in the order of (occurred_at, id)
    NoEvent,
    Subjects,     \* (model, project, subject) triples that have a state
    NoSubject,
    SubjectOf,    \* the subject whose state an event changes, NoSubject if none
    Faults,       \* the kinds of fault the environment may inject
    MaxFaults,    \* bound: how many of them
    MaxCopies,    \* bound: copies of a task waiting when a sweep starts
    MaxReplays    \* bound: how many operator replays

FaultKinds == {"crash",   \* an invocation dies between two steps
               "reply",   \* a batch commits, but its caller sees an error
               "slow",    \* a handler still runs when the sweep takes it for stale
               "send",    \* TASK_QUEUE.send throws
               "db"}      \* a database call throws and changes nothing

ASSUME EventsAssumption ==
    /\ Events \subseteq Nat
    /\ NoEvent \notin Events
    /\ NoSubject \notin Subjects
    /\ SubjectOf \in [Events -> Subjects \cup {NoSubject}]

ASSUME LimitsAssumption ==
    /\ Faults \subseteq FaultKinds
    /\ MaxFaults \in Nat
    /\ MaxCopies \in Nat
    /\ MaxReplays \in Nat

VARIABLES
    \* platform_events, a function of the event for each column
    status,      \* projection_status
    aged,        \* updated_at is more than 15 minutes ago
    facts,       \* platform_projection_events: the events recorded there
    head,        \* platform_projection_state: the subject's last_event_id
    queue,       \* copies of the projection tasks, see TaskQueue
    \* an invocation: the await it is at, the event at hand, the rows its loop has
    \* left, and the delivery number of the message it holds
    pc, cur, todo, delivery,
    faults,      \* faults injected so far
    replays      \* operator replays so far

logVars    == <<status, aged>>
modelVars  == <<facts, head>>
threadVars == <<pc, cur, todo, delivery>>
vars == <<logVars, modelVars, queue, threadVars, faults, replays>>

-----------------------------------------------------------------------------
Statuses == {"absent", "pending", "queued", "processing", "projected", "failed"}

Labels == {"idle",
           "send", "confirm", "demote",   \* enqueueProjection
           "select",                      \* recoverPlatformEventProjections
           "project", "fail",             \* projectPlatformEvent
           "ack", "nack"}                 \* the queue consumer

\* Where an invocation holds a message.
Handling == {"project", "fail", "ack", "nack"}

Init ==
    /\ status = [e \in Events |-> "absent"]
    /\ aged = [e \in Events |-> FALSE]
    /\ facts = {}
    /\ head = [s \in Subjects |-> NoEvent]
    /\ queue = EmptyQueue(Events)
    /\ pc = [t \in Threads |-> "idle"]
    /\ cur = [t \in Threads |-> NoEvent]
    /\ todo = [t \in Threads |-> {}]
    /\ delivery = [t \in Threads |-> 1]
    /\ faults = 0
    /\ replays = 0

-----------------------------------------------------------------------------
(* Control of an invocation *)

Goto(t, label) ==
    /\ pc' = [pc EXCEPT ![t] = label]
    /\ UNCHANGED <<cur, todo, delivery>>

Takes(t, label, e) ==
    /\ pc' = [pc EXCEPT ![t] = label]
    /\ cur' = [cur EXCEPT ![t] = e]
    /\ UNCHANGED <<todo, delivery>>

Enter(t, label, e, rows, n) ==
    /\ pc' = [pc EXCEPT ![t] = label]
    /\ cur' = [cur EXCEPT ![t] = e]
    /\ todo' = [todo EXCEPT ![t] = rows]
    /\ delivery' = [delivery EXCEPT ![t] = n]

End(t) == Enter(t, "idle", NoEvent, {}, 1)

\* The loop that enqueues these rows, which may be none.
Enqueue(t, rows) == IF rows = {} THEN End(t) ELSE Enter(t, "send", NoEvent, rows, 1)

NextRow(t) == Enqueue(t, todo[t] \ {cur[t]})

Fault(kind) ==
    /\ kind \in Faults
    /\ faults < MaxFaults
    /\ faults' = faults + 1

Healthy == UNCHANGED faults

Room == \A e \in Events, n \in Deliveries : queue[e][n] < MaxCopies

\* Slip: updated_at stays as it was.
MarkedUnstamped(rows, newStatus) ==
    /\ status' = [e \in Events |-> IF e \in rows THEN newStatus ELSE status[e]]
    /\ UNCHANGED aged

\* An UPDATE of these rows also stamps updated_at.
Marked(rows, newStatus) ==
    /\ status' = [e \in Events |-> IF e \in rows THEN newStatus ELSE status[e]]
    /\ aged' = [e \in Events |-> e \notin rows /\ aged[e]]

-----------------------------------------------------------------------------
(* publishPlatformEvent; a duplicate changes nothing *)

Publish(t, e) ==
    /\ pc[t] = "idle"
    /\ status[e] = "absent"
    /\ Marked({e}, "pending")
    /\ Enqueue(t, {e})
    /\ UNCHANGED <<modelVars, queue, faults, replays>>

-----------------------------------------------------------------------------
(* enqueueProjection, for each row of todo *)

Send(t, e) ==
    /\ pc[t] = "send"
    /\ e \in todo[t]
    /\ queue' = Sent(queue, e)
    /\ Takes(t, "confirm", e)
    /\ UNCHANGED <<logVars, modelVars, faults, replays>>

SendFails(t, e) ==
    /\ pc[t] = "send"
    /\ e \in todo[t]
    /\ Fault("send")
    /\ Takes(t, "demote", e)
    /\ UNCHANGED <<logVars, modelVars, queue, replays>>

Enqueueable == {"pending", "failed"}

\* By now a consumer may already have projected the event.
Confirm(t) ==
    /\ pc[t] = "confirm"
    /\ Marked({e \in {cur[t]} : status[e] \in Enqueueable}, "queued")
    /\ NextRow(t)
    /\ UNCHANGED <<modelVars, queue, faults, replays>>

ConfirmFails(t) ==
    /\ pc[t] = "confirm"
    /\ Fault("db")
    /\ Goto(t, "demote")
    /\ UNCHANGED <<logVars, modelVars, queue, replays>>

\* Slip: the catch block demotes whatever it finds.
DemoteAlways(t) ==
    /\ pc[t] = "demote"
    /\ Marked({cur[t]}, "pending")
    /\ NextRow(t)
    /\ UNCHANGED <<modelVars, queue, faults, replays>>

\* The catch block: an event that is not projected is pending again.
Demote(t) ==
    /\ pc[t] = "demote"
    /\ Marked({e \in {cur[t]} : status[e] # "projected"}, "pending")
    /\ NextRow(t)
    /\ UNCHANGED <<modelVars, queue, faults, replays>>

-----------------------------------------------------------------------------
(* recoverPlatformEventProjections *)

\* Slip: the sweep forgets the events whose task was lost.
StaleClaim(e) == status[e] = "processing" /\ aged[e]

Stale(e) == status[e] \in {"queued", "processing"} /\ aged[e]

SweepStale(t) ==
    /\ pc[t] = "idle"
    /\ Room
    /\ Marked({e \in Events : Stale(e)}, "pending")
    /\ Goto(t, "select")
    /\ UNCHANGED <<modelVars, queue, faults, replays>>

SweepSelect(t) ==
    /\ pc[t] = "select"
    /\ Enqueue(t, {e \in Events : status[e] \in Enqueueable})
    /\ UNCHANGED <<logVars, modelVars, queue, faults, replays>>

-----------------------------------------------------------------------------
(* projectPlatformEvent *)

Claimable(e) == status[e] \in {"pending", "queued", "failed"}

Claim(t, e, n) ==
    /\ pc[t] = "idle"
    /\ Waiting(queue, e, n)
    /\ Claimable(e)
    /\ queue' = Taken(queue, e, n)
    /\ Marked({e}, "processing")
    /\ Enter(t, "project", e, {}, n)
    /\ UNCHANGED <<modelVars, faults, replays>>

\* Slip: the last event to be projected wins.
LaterAlways(e, s) == SubjectOf[e] = s

\* ON CONFLICT ... WHERE the new event is later than the row's.
Later(e, s) == SubjectOf[e] = s /\ (head[s] = NoEvent \/ e > head[s])

\* The batch commits as a whole: the fact, the subject's state and, if the claim
\* still stands, the event's status.
Reflect(e) ==
    /\ facts' = facts \cup {e}
    /\ head' = [s \in Subjects |-> IF Later(e, s) THEN e ELSE head[s]]
    /\ Marked({f \in {e} : status[f] = "processing"}, "projected")

Project(t) ==
    /\ pc[t] = "project"
    /\ Reflect(cur[t])
    /\ Goto(t, "ack")
    /\ UNCHANGED <<queue, faults, replays>>

ProjectUnconfirmed(t) ==
    /\ pc[t] = "project"
    /\ Fault("reply")
    /\ Reflect(cur[t])
    /\ Goto(t, "fail")
    /\ UNCHANGED <<queue, replays>>

\* Slip: the status is not part of the batch.
ProjectFailsPartly(t) ==
    /\ pc[t] = "project"
    /\ Fault("db")
    /\ Marked({e \in {cur[t]} : status[e] = "processing"}, "projected")
    /\ Goto(t, "fail")
    /\ UNCHANGED <<modelVars, queue, replays>>

ProjectFails(t) ==
    /\ pc[t] = "project"
    /\ Fault("db")
    /\ Goto(t, "fail")
    /\ UNCHANGED <<logVars, modelVars, queue, replays>>

\* The catch block; the claim it fails may be another invocation's.
Fail(t) ==
    /\ pc[t] = "fail"
    /\ Marked({e \in {cur[t]} : status[e] = "processing"}, "failed")
    /\ Goto(t, "nack")
    /\ UNCHANGED <<modelVars, queue, faults, replays>>

FailFails(t) ==
    /\ pc[t] = "fail"
    /\ Fault("db")
    /\ Goto(t, "nack")
    /\ UNCHANGED <<logVars, modelVars, queue, replays>>

-----------------------------------------------------------------------------
(* The queue consumer, and what ends an invocation early *)

Ack(t) ==
    /\ pc[t] = "ack"
    /\ End(t)
    /\ UNCHANGED <<logVars, modelVars, queue, faults, replays>>

Release(t) ==
    /\ queue' = IF pc[t] \in Handling THEN Returned(queue, cur[t], delivery[t]) ELSE queue
    /\ End(t)

Nack(t) ==
    /\ pc[t] = "nack"
    /\ Release(t)
    /\ UNCHANGED <<logVars, modelVars, faults, replays>>

Skip(e, n) ==
    /\ Waiting(queue, e, n)
    /\ ~Claimable(e)
    /\ queue' = Taken(queue, e, n)
    /\ UNCHANGED <<logVars, modelVars, threadVars, faults, replays>>

\* The batch dies, or the claim throws, before this message has claimed anything.
BatchDies(e, n) ==
    /\ Waiting(queue, e, n)
    /\ Fault("crash") \/ Fault("db")
    /\ queue' = Returned(Taken(queue, e, n), e, n)
    /\ UNCHANGED <<logVars, modelVars, threadVars, replays>>

Crash(t) ==
    /\ pc[t] # "idle"
    /\ Fault("crash")
    /\ Release(t)
    /\ UNCHANGED <<logVars, modelVars, replays>>

\* A database call that a publisher or the sweep does not catch.
Abort(t) ==
    /\ pc[t] \in {"demote", "select"}
    /\ Fault("db")
    /\ End(t)
    /\ UNCHANGED <<logVars, modelVars, queue, replays>>

-----------------------------------------------------------------------------
(* The operator and the clock *)

\* replaySql: the selected rows are pending again, whatever they were; what they
\* projected stays.
Replay(scope) ==
    /\ scope # {}
    /\ \A e \in scope : status[e] # "absent"
    /\ replays < MaxReplays
    /\ replays' = replays + 1
    /\ Marked(scope, "pending")
    /\ UNCHANGED <<modelVars, queue, threadVars, faults>>

Projecting(t, e) == pc[t] \in {"project", "fail"} /\ cur[t] = e

\* Fifteen minutes pass since a row was queued, or claimed by a worker that is gone.
Ages(e) ==
    /\ status[e] \in {"queued", "processing"}
    /\ ~aged[e]
    /\ (Healthy /\ \A t \in Threads : ~Projecting(t, e)) \/ Fault("slow")
    /\ aged' = [aged EXCEPT ![e] = TRUE]
    /\ UNCHANGED <<status, modelVars, queue, threadVars, replays>>

-----------------------------------------------------------------------------
Continue(t) ==
    \/ \E e \in Events : Send(t, e) \/ SendFails(t, e)
    \/ Confirm(t) \/ ConfirmFails(t) \/ Demote(t) \/ SweepSelect(t)
    \/ Project(t) \/ ProjectUnconfirmed(t) \/ ProjectFails(t) \/ Fail(t) \/ FailFails(t)
    \/ Ack(t) \/ Nack(t)

Start(t) ==
    \/ \E e \in Events : Publish(t, e)
    \/ \E e \in Events, n \in Deliveries : Claim(t, e, n)
    \/ SweepStale(t)

Next ==
    \/ \E t \in Threads : Start(t) \/ Continue(t) \/ Crash(t) \/ Abort(t)
    \/ \E e \in Events, n \in Deliveries : Skip(e, n) \/ BatchDies(e, n)
    \/ \E e \in Events : Ages(e)
    \/ \E scope \in SUBSET Events : Replay(scope)

Spec == Init /\ [][Next]_vars

\* Invocations run to their end, the queue delivers, the cron fires, time passes;
\* nobody is obliged to publish, to replay or to fail.
Fairness ==
    /\ \A t \in Threads : WF_vars(Continue(t) /\ Healthy)
    /\ \A e \in Events, n \in Deliveries :
           /\ SF_vars(\E t \in Threads : Claim(t, e, n))
           /\ WF_vars(Skip(e, n))
    /\ SF_vars(\E t \in Threads : SweepStale(t))
    /\ \A e \in Events : WF_vars(Ages(e) /\ Healthy)

FairSpec == Spec /\ Fairness

-----------------------------------------------------------------------------
(* Properties *)

ThreadTypeOK ==
    /\ pc \in [Threads -> Labels]
    /\ cur \in [Threads -> Events \cup {NoEvent}]
    /\ todo \in [Threads -> SUBSET Events]
    /\ delivery \in [Threads -> Deliveries]
    /\ \A t \in Threads : pc[t] \notin {"idle", "send", "select"} => cur[t] \in Events

TypeOK ==
    /\ status \in [Events -> Statuses]
    /\ aged \in [Events -> BOOLEAN]
    /\ \A e \in Events : aged[e] => status[e] \in {"queued", "processing"}
    /\ facts \subseteq Events
    /\ head \in [Subjects -> Events \cup {NoEvent}]
    /\ queue \in Queues(Events)
    /\ ThreadTypeOK
    /\ faults \in Nat
    /\ replays \in Nat

About(s) == {e \in facts : SubjectOf[e] = s}

\* A subject's state is that of its latest event in the read model, in whatever order
\* the queue delivers events, however often, and whatever is replayed or fails.
HeadIsLatest ==
    \A s \in Subjects :
        /\ About(s) = {} => head[s] = NoEvent
        /\ About(s) # {} => head[s] \in About(s) /\ \A e \in About(s) : e <= head[s]

\* An event that the log calls projected is in the read model, and its subject's state
\* is at least as recent, although workers overlap and the claim one settles may be
\* another's.
ProjectedIsReflected ==
    \A e \in Events : status[e] = "projected" =>
        /\ e \in facts
        /\ \A s \in Subjects : SubjectOf[e] = s => head[s] \in Events /\ head[s] >= e

\* A projected event stays projected unless the operator replays it: no late catch
\* block, sweep or redelivered task touches it.
ProjectedIsFinal ==
    [][\A e \in Events : status[e] = "projected" =>
          status'[e] = "projected" \/ replays' > replays]_vars

\* Every event that was published, or replayed, ends up projected: a lost task, a dead
\* worker and a late confirmation are all recovered by the sweep.
EveryEventProjected ==
    \A e \in Events : status[e] # "absent" ~> status[e] = "projected"
=============================================================================
