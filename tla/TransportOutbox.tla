-------------------------- MODULE TransportOutbox --------------------------
(***************************************************************************)
(* The transport outbox: src/functions/lib/transport-outbox.ts, the        *)
(* provider adapters it calls, and the queue consumer of the scheduler.    *)
(*                                                                         *)
(* A command is one row of transport_outbox.  Producers, cron sweeps and   *)
(* queue consumers are separate invocations of Workers that share the      *)
(* database and the task queue; every await of theirs is a point where     *)
(* others run, so each action below is what happens between two awaits.    *)
(* A thread is one such invocation.                                        *)
(*                                                                         *)
(* The clock is abstracted to what the code compares it with: a lease is   *)
(* live until it expires, a row backs off until next_attempt_at passes.    *)
(***************************************************************************)
EXTENDS TaskQueue

CONSTANTS
    Threads,        \* concurrent invocations
    Commands,       \* transport commands, one per (provider, operation, idempotency key)
    NoCommand,
    Slack,          \* the commands a Slack requeue may select
    Marked,         \* github.issue.create commands that carry an idempotency marker
    SameMarker,     \* the sets of them that carry one marker, as those of one incident do
    WithCallback,   \* commands published with a callback
    MaxAttempts,    \* transport_outbox.max_attempts
    Faults,         \* the kinds of fault the environment may inject
    MaxFaults,      \* bound: how many of them
    MaxCopies,      \* bound: copies of a task waiting when a producer of more starts
    MaxRequeues     \* bound: how many operator requeues

FaultKinds == {"crash",   \* an invocation dies between two steps
               "reply",   \* the provider acts but the adapter reports an error
               "page",    \* a marked issue is past the one page the lookup reads
               "slow",    \* a handler is still running when its lease expires
               "send",    \* TASK_QUEUE.send throws
               "db"}      \* a database call throws

ASSUME CommandsAssumption ==
    /\ NoCommand \notin Commands
    /\ Slack \subseteq Commands
    /\ Marked \subseteq Commands \ Slack
    /\ SameMarker \subseteq SUBSET Marked
    /\ WithCallback \subseteq Commands \ Slack

ASSUME LimitsAssumption ==
    /\ MaxAttempts \in Nat \ {0}
    /\ Faults \subseteq FaultKinds
    /\ MaxFaults \in Nat
    /\ MaxCopies \in Nat
    /\ MaxRequeues \in Nat

VARIABLES
    \* transport_outbox, a function of the command for each column
    status, attempts, backoff, lease, receipt,
    \* transport_callbacks
    cbStatus, cbLease,
    queue,       \* copies of the tasks, see TaskQueue
    posts,       \* posts[c]: times the provider has carried out c
    applied,     \* applied[c]: the receipt the product handler last applied
    \* an invocation: the await it is at, the command at hand, what the last call
    \* returned or threw, and what it was started with
    pc, cur, memo, job,
    faults,      \* faults injected so far
    requeues     \* operator requeues so far

outboxVars   == <<status, attempts, backoff, lease, receipt>>
callbackVars == <<cbStatus, cbLease>>
productVars  == <<posts, applied>>
threadVars   == <<pc, cur, memo, job>>
vars == <<outboxVars, callbackVars, queue, productVars, threadVars, faults, requeues>>

-----------------------------------------------------------------------------
Refused  == {"blocked", "failed"}
Terminal == {"delivered"} \cup Refused
Sendable == {"pending", "retrying"}
Statuses == Sendable \cup {"absent", "queued", "processing"} \cup Terminal
Receipts == {"none"} \cup Terminal
Leases   == {"none", "live", "expired"}

CallbackStatuses == {"none", "pending", "queued", "processing", "completed"}

Kinds == {"deliver", "finalize"}
Tasks == Kinds \X Commands

Labels == {"idle", "store",                              \* publishTransportCommand
           "send", "confirm", "demote",                  \* queueTransport
           "select",                                     \* recoverTransportCommands
           "lookup", "post", "settle",                   \* executeTransportCommand
           "cbSelect", "cbSend", "cbConfirm", "cbNote",  \* queueTransportCallback
           "cbScan",                                     \* recoverTransportCallbacks
           "finalize", "apply", "cbSettle",              \* executeTransportCallback
           "ack", "nack"}                                \* the queue consumer

\* Where no command is at hand, unless the invocation holds a message.
Between == {"idle", "send", "select", "cbSelect", "cbScan"}

Memos == Statuses \cup Receipts \cup {"retryable"}

\* todo: the rows a loop has left; kind and n: the message held, if any, and its
\* delivery number; exhausted: whether the claim used up the attempts.
Job == [todo : SUBSET Commands, kind : Kinds \cup {"none"}, n : Deliveries,
        exhausted : BOOLEAN]

Rows(todo) == [todo |-> todo, kind |-> "none", n |-> 1, exhausted |-> FALSE]

NoJob == Rows({})

Init ==
    /\ status = [c \in Commands |-> "absent"]
    /\ attempts = [c \in Commands |-> 0]
    /\ backoff = [c \in Commands |-> FALSE]
    /\ lease = [c \in Commands |-> "none"]
    /\ receipt = [c \in Commands |-> "none"]
    /\ cbStatus = [c \in Commands |-> "none"]
    /\ cbLease = [c \in Commands |-> "none"]
    /\ queue = EmptyQueue(Tasks)
    /\ posts = [c \in Commands |-> 0]
    /\ applied = [c \in Commands |-> "none"]
    /\ pc = [t \in Threads |-> "idle"]
    /\ cur = [t \in Threads |-> NoCommand]
    /\ memo = [t \in Threads |-> "none"]
    /\ job = [t \in Threads |-> NoJob]
    /\ faults = 0
    /\ requeues = 0

-----------------------------------------------------------------------------
(* Control of an invocation *)

Goto(t, label) ==
    /\ pc' = [pc EXCEPT ![t] = label]
    /\ UNCHANGED <<cur, memo, job>>

\* The last call returned or threw this.
Returns(t, label, result) ==
    /\ pc' = [pc EXCEPT ![t] = label]
    /\ memo' = [memo EXCEPT ![t] = result]
    /\ UNCHANGED <<cur, job>>

\* The loop takes up command c.
Takes(t, label, c) ==
    /\ pc' = [pc EXCEPT ![t] = label]
    /\ cur' = [cur EXCEPT ![t] = c]
    /\ UNCHANGED <<memo, job>>

Enter(t, label, c, result, newJob) ==
    /\ pc' = [pc EXCEPT ![t] = label]
    /\ cur' = [cur EXCEPT ![t] = c]
    /\ memo' = [memo EXCEPT ![t] = result]
    /\ job' = [job EXCEPT ![t] = newJob]

End(t) == Enter(t, "idle", NoCommand, "none", NoJob)

\* A loop over these rows, which may be none.
Loop(t, label, rows) ==
    IF rows = {} THEN End(t) ELSE Enter(t, label, NoCommand, "none", Rows(rows))

NextRow(t, label, c) == Loop(t, label, job[t].todo \ {c})

Fault(kind) ==
    /\ kind \in Faults
    /\ faults < MaxFaults
    /\ faults' = faults + 1

Healthy == UNCHANGED faults

\* Sweeps and repeated publications send again what may still be waiting.
Room(kind) ==
    \A c \in Commands, n \in Deliveries : queue[<<kind, c>>][n] < MaxCopies

-----------------------------------------------------------------------------
(* publishTransportCommand *)

\* INSERT ... ON CONFLICT DO NOTHING of a new command.
Publish(t, c) ==
    /\ pc[t] = "idle"
    /\ status[c] = "absent"
    /\ status' = [status EXCEPT ![c] = "pending"]
    /\ Enter(t, IF c \in WithCallback THEN "store" ELSE "send", c, "absent", Rows({c}))
    /\ UNCHANGED <<attempts, backoff, lease, receipt, callbackVars, queue, productVars,
                   faults, requeues>>

\* The same idempotency key again: the row is left alone, its status is read,
\* and only a callback is stored.
PublishDuplicate(t, c) ==
    /\ pc[t] = "idle"
    /\ c \in WithCallback
    /\ status[c] # "absent"
    /\ Room("finalize")
    /\ Enter(t, "store", c, status[c], Rows({c}))
    /\ UNCHANGED <<outboxVars, callbackVars, queue, productVars, faults, requeues>>

\* storeTransportCallback, and where the publisher goes from there.
StoreCallback(t) ==
    /\ pc[t] = "store"
    /\ cbStatus' = IF cbStatus[cur[t]] = "none"
                   THEN [cbStatus EXCEPT ![cur[t]] = "pending"]
                   ELSE cbStatus
    /\ \/ memo[t] = "absent" /\ Goto(t, "send")
       \/ memo[t] \in Terminal /\ Goto(t, "cbSelect")
       \/ memo[t] \notin Terminal \cup {"absent"} /\ End(t)
    /\ UNCHANGED <<outboxVars, cbLease, queue, productVars, faults, requeues>>

-----------------------------------------------------------------------------
(* queueTransport, for each row of todo *)

Send(t, c) ==
    /\ pc[t] = "send"
    /\ c \in job[t].todo
    /\ queue' = Sent(queue, <<"deliver", c>>)
    /\ Takes(t, "confirm", c)
    /\ UNCHANGED <<outboxVars, callbackVars, productVars, faults, requeues>>

SendFails(t, c) ==
    /\ pc[t] = "send"
    /\ c \in job[t].todo
    /\ Fault("send")
    /\ Takes(t, "demote", c)
    /\ UNCHANGED <<outboxVars, callbackVars, queue, productVars, requeues>>

\* By now the consumer may already have the message.
Confirm(t) ==
    LET c == cur[t] IN
    /\ pc[t] = "confirm"
    /\ IF status[c] \in Sendable
       THEN /\ status' = [status EXCEPT ![c] = "queued"]
            /\ backoff' = [backoff EXCEPT ![c] = FALSE]
       ELSE UNCHANGED <<status, backoff>>
    /\ NextRow(t, "send", c)
    /\ UNCHANGED <<attempts, lease, receipt, callbackVars, queue, productVars,
                   faults, requeues>>

ConfirmFails(t) ==
    /\ pc[t] = "confirm"
    /\ Fault("db")
    /\ Goto(t, "demote")
    /\ UNCHANGED <<outboxVars, callbackVars, queue, productVars, requeues>>

\* The catch block: whatever the row has become, unless delivered, is pending again.
Demote(t) ==
    LET c == cur[t] IN
    /\ pc[t] = "demote"
    /\ status' = IF status[c] # "delivered"
                 THEN [status EXCEPT ![c] = "pending"] ELSE status
    /\ NextRow(t, "send", c)
    /\ UNCHANGED <<attempts, backoff, lease, receipt, callbackVars, queue, productVars,
                   faults, requeues>>

-----------------------------------------------------------------------------
(* recoverTransportCommands and requeueBlockedTransportCommands *)

Stale(c) == status[c] = "processing" /\ lease[c] = "expired"

\* Slip: the sweep forgets the rows that retry.
DueUnlessRetrying(c) == status[c] = "pending" /\ ~backoff[c]

Due(c) == status[c] \in Sendable /\ ~backoff[c]

\* Rows that a bulk UPDATE selects get a new status, no lease and no backoff.
Reset(rows, newStatus) ==
    /\ status' = [c \in Commands |-> IF c \in rows THEN newStatus ELSE status[c]]
    /\ lease' = [c \in Commands |-> IF c \in rows THEN "none" ELSE lease[c]]
    /\ backoff' = [c \in Commands |-> c \notin rows /\ backoff[c]]
    /\ UNCHANGED <<attempts, receipt>>

SweepStale(t) ==
    /\ pc[t] = "idle"
    /\ Room("deliver")
    /\ Reset({c \in Commands : Stale(c)}, "retrying")
    /\ Goto(t, "select")
    /\ UNCHANGED <<callbackVars, queue, productVars, faults, requeues>>

SweepSelect(t) ==
    /\ pc[t] = "select"
    /\ Loop(t, "send", {c \in Commands : Due(c)})
    /\ UNCHANGED <<outboxVars, callbackVars, queue, productVars, faults, requeues>>

\* Slip: delivered commands are reopened too.
ReopenedSettled(scope) == {c \in scope : status[c] \in Terminal}

Reopened(scope) == {c \in scope : status[c] \in Refused}

\* An operator reconnects Slack: the refused commands in scope start over.
Requeue(t, scope) ==
    /\ pc[t] = "idle"
    /\ Reopened(scope) # {}
    /\ requeues < MaxRequeues
    /\ requeues' = requeues + 1
    /\ Reset(Reopened(scope), "pending")
    /\ Loop(t, "send", Reopened(scope))
    /\ UNCHANGED <<callbackVars, queue, productVars, faults>>

-----------------------------------------------------------------------------
(* executeTransportCommand *)

\* Slip: the claim takes any row that is not settled.
ClaimableWhileProcessing(c) == status[c] \notin Terminal \cup {"absent"} /\ ~backoff[c]

\* Slip: the claim forgets the status.
ClaimableAlways(c) == ~backoff[c]

Claimable(c) == status[c] \in Sendable \cup {"queued"} /\ ~backoff[c]

\* Slip: off by one.
ExhaustedLate(count) == count > MaxAttempts

Exhausted(count) == count >= MaxAttempts

\* claimTransportCommand, on the n-th delivery of the message.
Claim(t, c, n) ==
    /\ pc[t] = "idle"
    /\ Waiting(queue, <<"deliver", c>>, n)
    /\ Claimable(c)
    /\ queue' = Taken(queue, <<"deliver", c>>, n)
    /\ status' = [status EXCEPT ![c] = "processing"]
    /\ attempts' = [attempts EXCEPT ![c] = @ + 1]
    /\ lease' = [lease EXCEPT ![c] = "live"]
    /\ Enter(t, IF c \in Marked THEN "lookup" ELSE "post", c, "none",
             [todo |-> {c}, kind |-> "deliver", n |-> n,
              exhausted |-> Exhausted(attempts[c] + 1)])
    /\ UNCHANGED <<backoff, receipt, callbackVars, productVars, faults, requeues>>

\* Slip: the marker is never looked for.
LookupSkipped(t) ==
    /\ pc[t] = "lookup"
    /\ Goto(t, "post")
    /\ UNCHANGED <<outboxVars, callbackVars, queue, productVars, faults, requeues>>

\* Slip: any issue is taken for the marked one.
LookupTrusting(t) ==
    /\ pc[t] = "lookup"
    /\ Returns(t, "settle", "delivered")
    /\ UNCHANGED <<outboxVars, callbackVars, queue, productVars, faults, requeues>>

\* The commands whose issue is an issue of c's, and whether there is one.
Alike(c)  == {c} \cup UNION {group \in SameMarker : c \in group}
Backed(c) == \E d \in Alike(c) : posts[d] > 0

\* findIssueByBodyMarker: an issue that is already there is not created again, whichever
\* command created it.
Lookup(t) ==
    /\ pc[t] = "lookup"
    /\ \/ Backed(cur[t]) /\ Returns(t, "settle", "delivered")
       \/ ~Backed(cur[t]) /\ Goto(t, "post")
    /\ UNCHANGED <<outboxVars, callbackVars, queue, productVars, faults, requeues>>

LookupMisses(t) ==
    /\ pc[t] = "lookup"
    /\ Backed(cur[t])
    /\ Fault("page")
    /\ Goto(t, "post")
    /\ UNCHANGED <<outboxVars, callbackVars, queue, productVars, requeues>>

Posted(t) == posts' = [posts EXCEPT ![cur[t]] = @ + 1]

Post(t) ==
    /\ pc[t] = "post"
    /\ Posted(t)
    /\ Returns(t, "settle", "delivered")
    /\ UNCHANGED <<outboxVars, callbackVars, queue, applied, faults, requeues>>

\* The provider acted, but the reply was lost or unusable, or the local write
\* that follows the provider call threw.
PostUnconfirmed(t) ==
    /\ pc[t] = "post"
    /\ Fault("reply")
    /\ Posted(t)
    /\ \/ Returns(t, "settle", "retryable")
       \/ cur[t] \in Slack /\ Returns(t, "settle", "failed")
    /\ UNCHANGED <<outboxVars, callbackVars, queue, applied, requeues>>

\* The adapter threw before the provider acted.
HandlerFails(t) ==
    /\ pc[t] \in {"lookup", "post"}
    /\ \E outcome \in {"retryable"} \cup Refused : Returns(t, "settle", outcome)
    /\ UNCHANGED <<outboxVars, callbackVars, queue, productVars, faults, requeues>>

\* finish: the receipt and the terminal status in one UPDATE, WHERE id only.
Finish(c, outcome) ==
    /\ status' = [status EXCEPT ![c] = outcome]
    /\ receipt' = [receipt EXCEPT ![c] = outcome]
    /\ lease' = [lease EXCEPT ![c] = "none"]
    /\ backoff' = [backoff EXCEPT ![c] = FALSE]
    /\ UNCHANGED attempts

SettleDelivered(t) ==
    /\ pc[t] = "settle"
    /\ memo[t] = "delivered"
    /\ Finish(cur[t], "delivered")
    /\ Goto(t, "cbSelect")
    /\ UNCHANGED <<callbackVars, queue, productVars, faults, requeues>>

SettleRetrying(t) ==
    LET c == cur[t] IN
    /\ pc[t] = "settle"
    /\ memo[t] = "retryable"
    /\ ~job[t].exhausted
    /\ status' = [status EXCEPT ![c] = "retrying"]
    /\ lease' = [lease EXCEPT ![c] = "none"]
    /\ backoff' = [backoff EXCEPT ![c] = TRUE]
    /\ Goto(t, "nack")
    /\ UNCHANGED <<attempts, receipt, callbackVars, queue, productVars, faults, requeues>>

\* Slip: the error's disposition is stored as it is, the exhausted retry's too.
OutcomeAsThrown(t) == memo[t]

Outcome(t) == IF memo[t] = "blocked" THEN "blocked" ELSE "failed"

SettleRefused(t) ==
    /\ pc[t] = "settle"
    /\ memo[t] \in Refused \/ (memo[t] = "retryable" /\ job[t].exhausted)
    /\ Finish(cur[t], Outcome(t))
    /\ Goto(t, "cbSelect")
    /\ UNCHANGED <<callbackVars, queue, productVars, faults, requeues>>

\* An error thrown after a delivery is caught by the same try block and becomes a
\* retryable outcome; one thrown by the catch block leaves the handler, and the
\* message is redelivered.
Throw(t) ==
    \/ memo[t] = "delivered" /\ Returns(t, "settle", "retryable")
    \/ memo[t] # "delivered" /\ Goto(t, "nack")

SettleFails(t) ==
    /\ pc[t] = "settle"
    /\ Fault("db")
    /\ Throw(t)
    /\ UNCHANGED <<outboxVars, callbackVars, queue, productVars, requeues>>

-----------------------------------------------------------------------------
(* queueTransportCallback, called by the publisher, the executor and the sweep *)

CallbackDone(t, c) ==
    IF job[t].kind = "none" THEN NextRow(t, "cbSelect", c) ELSE Goto(t, "ack")

CallbackSelect(t, c) ==
    /\ pc[t] = "cbSelect"
    /\ c \in job[t].todo
    /\ IF cbStatus[c] = "pending" THEN Takes(t, "cbSend", c) ELSE CallbackDone(t, c)
    /\ UNCHANGED <<outboxVars, callbackVars, queue, productVars, faults, requeues>>

CallbackSend(t) ==
    /\ pc[t] = "cbSend"
    /\ queue' = Sent(queue, <<"finalize", cur[t]>>)
    /\ Goto(t, "cbConfirm")
    /\ UNCHANGED <<outboxVars, callbackVars, productVars, faults, requeues>>

CallbackConfirm(t) ==
    /\ pc[t] = "cbConfirm"
    /\ cbStatus' = IF cbStatus[cur[t]] = "pending"
                   THEN [cbStatus EXCEPT ![cur[t]] = "queued"] ELSE cbStatus
    /\ CallbackDone(t, cur[t])
    /\ UNCHANGED <<outboxVars, cbLease, queue, productVars, faults, requeues>>

CallbackSendFails(t) ==
    /\ \/ pc[t] = "cbSend" /\ Fault("send")
       \/ pc[t] = "cbConfirm" /\ Fault("db")
    /\ Goto(t, "cbNote")
    /\ UNCHANGED <<outboxVars, callbackVars, queue, productVars, requeues>>

\* The catch block only records last_error.
CallbackNote(t) ==
    /\ pc[t] = "cbNote"
    /\ CallbackDone(t, cur[t])
    /\ UNCHANGED <<outboxVars, callbackVars, queue, productVars, faults, requeues>>

\* The call itself throws into its caller: for an executor that has just recorded
\* a delivery, into the try block the call is part of.
CallbackThrows(t) ==
    /\ pc[t] \in {"cbSelect", "cbNote"}
    /\ Fault("db")
    /\ IF job[t].kind = "none" THEN End(t) ELSE Throw(t)
    /\ UNCHANGED <<outboxVars, callbackVars, queue, productVars, requeues>>

-----------------------------------------------------------------------------
(* executeTransportCallback and recoverTransportCallbacks *)

ClaimCallback(t, c, n) ==
    /\ pc[t] = "idle"
    /\ Waiting(queue, <<"finalize", c>>, n)
    /\ cbStatus[c] \in {"pending", "queued"}
    /\ queue' = Taken(queue, <<"finalize", c>>, n)
    /\ cbStatus' = [cbStatus EXCEPT ![c] = "processing"]
    /\ cbLease' = [cbLease EXCEPT ![c] = "live"]
    /\ Enter(t, "finalize", c, "none",
             [todo |-> {c}, kind |-> "finalize", n |-> n, exhausted |-> FALSE])
    /\ UNCHANGED <<outboxVars, productVars, faults, requeues>>

ReadReceipt(t) ==
    LET found == receipt[cur[t]] IN
    /\ pc[t] = "finalize"
    /\ \/ found = "none" /\ Returns(t, "cbSettle", "retryable")
       \/ found # "none" /\ Returns(t, "apply", found)
    /\ UNCHANGED <<outboxVars, callbackVars, queue, productVars, faults, requeues>>

Applied(t) == [applied EXCEPT ![cur[t]] = memo[t]]

Apply(t) ==
    /\ pc[t] = "apply"
    /\ applied' = Applied(t)
    /\ Goto(t, "cbSettle")
    /\ UNCHANGED <<outboxVars, callbackVars, queue, posts, faults, requeues>>

\* The product handler throws, before or after its effect.
ApplyFails(t) ==
    /\ pc[t] = "apply"
    /\ applied' \in {applied, Applied(t)}
    /\ Returns(t, "cbSettle", "retryable")
    /\ UNCHANGED <<outboxVars, callbackVars, queue, posts, faults, requeues>>

\* Slip: the callback completes although its handler threw.
CallbackSettleAlways(t) ==
    /\ pc[t] = "cbSettle"
    /\ cbStatus' = [cbStatus EXCEPT ![cur[t]] = "completed"]
    /\ cbLease' = [cbLease EXCEPT ![cur[t]] = "none"]
    /\ Goto(t, "ack")
    /\ UNCHANGED <<outboxVars, queue, productVars, faults, requeues>>

\* Both updates are WHERE transport_id only.
CallbackSettle(t) ==
    LET ok == memo[t] # "retryable" IN
    /\ pc[t] = "cbSettle"
    /\ cbStatus' = [cbStatus EXCEPT ![cur[t]] = IF ok THEN "completed" ELSE "pending"]
    /\ cbLease' = [cbLease EXCEPT ![cur[t]] = "none"]
    /\ Goto(t, IF ok THEN "ack" ELSE "nack")
    /\ UNCHANGED <<outboxVars, queue, productVars, faults, requeues>>

CallbackSettleFails(t) ==
    /\ pc[t] = "cbSettle"
    /\ Fault("db")
    /\ \/ memo[t] # "retryable" /\ Returns(t, "cbSettle", "retryable")
       \/ memo[t] = "retryable" /\ Goto(t, "nack")
    /\ UNCHANGED <<outboxVars, callbackVars, queue, productVars, requeues>>

\* Slip: the sweep recovers the wrong status.
CallbackStaleQueued(c) == cbStatus[c] = "queued" /\ cbLease[c] = "expired"

CallbackStale(c) == cbStatus[c] = "processing" /\ cbLease[c] = "expired"

\* Slip: the sweep does not wait for the command to settle.
CallbackReadyEarly(c) == cbStatus[c] = "pending"

CallbackReady(c) == cbStatus[c] = "pending" /\ status[c] \in Terminal

CallbackSweepStale(t) ==
    /\ pc[t] = "idle"
    /\ Room("finalize")
    /\ cbStatus' = [c \in Commands |-> IF CallbackStale(c) THEN "pending" ELSE cbStatus[c]]
    /\ cbLease' = [c \in Commands |-> IF CallbackStale(c) THEN "none" ELSE cbLease[c]]
    /\ Goto(t, "cbScan")
    /\ UNCHANGED <<outboxVars, queue, productVars, faults, requeues>>

CallbackSweepScan(t) ==
    /\ pc[t] = "cbScan"
    /\ Loop(t, "cbSelect", {c \in Commands : CallbackReady(c)})
    /\ UNCHANGED <<outboxVars, callbackVars, queue, productVars, faults, requeues>>

-----------------------------------------------------------------------------
(* The queue consumer, and what ends an invocation early *)

Ack(t) ==
    /\ pc[t] = "ack"
    /\ End(t)
    /\ UNCHANGED <<outboxVars, callbackVars, queue, productVars, faults, requeues>>

\* The invocation is over, and the queue has its message back, if it held one.
Release(t) ==
    /\ queue' = IF job[t].kind = "none" THEN queue
                ELSE Returned(queue, <<job[t].kind, cur[t]>>, job[t].n)
    /\ End(t)

Nack(t) ==
    /\ pc[t] = "nack"
    /\ Release(t)
    /\ UNCHANGED <<outboxVars, callbackVars, productVars, faults, requeues>>

\* A task whose row cannot be claimed is acknowledged.
Skip(c, n) ==
    /\ \E kind \in Kinds :
           /\ Waiting(queue, <<kind, c>>, n)
           /\ IF kind = "deliver" THEN ~Claimable(c)
              ELSE cbStatus[c] \notin {"pending", "queued"}
           /\ queue' = Taken(queue, <<kind, c>>, n)
    /\ UNCHANGED <<outboxVars, callbackVars, productVars, threadVars, faults, requeues>>

\* The batch dies before this message's handler has claimed anything: the delivery
\* counts all the same.
BatchDies(c, n) ==
    /\ Fault("crash") \/ Fault("db")
    /\ \E kind \in Kinds :
           /\ Waiting(queue, <<kind, c>>, n)
           /\ queue' = Returned(Taken(queue, <<kind, c>>, n), <<kind, c>>, n)
    /\ UNCHANGED <<outboxVars, callbackVars, productVars, threadVars, requeues>>

Crash(t) ==
    /\ pc[t] # "idle"
    /\ Fault("crash")
    /\ Release(t)
    /\ UNCHANGED <<outboxVars, callbackVars, productVars, requeues>>

\* A database call that a producer or a sweep does not catch.
Abort(t) ==
    /\ pc[t] \in {"store", "demote", "select", "cbScan"}
    /\ Fault("db")
    /\ End(t)
    /\ UNCHANGED <<outboxVars, callbackVars, queue, productVars, requeues>>

-----------------------------------------------------------------------------
(* Time *)

Working(t, c) == pc[t] \in {"lookup", "post", "settle"} /\ cur[t] = c
Finalizing(t, c) == pc[t] \in {"finalize", "apply", "cbSettle"} /\ cur[t] = c

LeaseExpires(c) ==
    /\ lease[c] = "live"
    /\ (Healthy /\ \A t \in Threads : ~Working(t, c)) \/ Fault("slow")
    /\ lease' = [lease EXCEPT ![c] = "expired"]
    /\ UNCHANGED <<status, attempts, backoff, receipt, callbackVars, queue, productVars,
                   threadVars, requeues>>

CallbackLeaseExpires(c) ==
    /\ cbLease[c] = "live"
    /\ (Healthy /\ \A t \in Threads : ~Finalizing(t, c)) \/ Fault("slow")
    /\ cbLease' = [cbLease EXCEPT ![c] = "expired"]
    /\ UNCHANGED <<outboxVars, cbStatus, queue, productVars, threadVars, requeues>>

BackoffElapses(c) ==
    /\ backoff[c]
    /\ backoff' = [backoff EXCEPT ![c] = FALSE]
    /\ UNCHANGED <<status, attempts, lease, receipt, callbackVars, queue, productVars,
                   threadVars, faults, requeues>>

-----------------------------------------------------------------------------
Queueing(t) ==
    \/ \E c \in Commands : Send(t, c) \/ SendFails(t, c)
    \/ Confirm(t) \/ ConfirmFails(t) \/ Demote(t)

Executing(t) ==
    \/ Lookup(t) \/ LookupMisses(t) \/ Post(t) \/ PostUnconfirmed(t) \/ HandlerFails(t)
    \/ SettleDelivered(t) \/ SettleRetrying(t) \/ SettleRefused(t) \/ SettleFails(t)

CallbackQueueing(t) ==
    \/ \E c \in Commands : CallbackSelect(t, c)
    \/ CallbackSend(t) \/ CallbackConfirm(t)
    \/ CallbackSendFails(t) \/ CallbackNote(t) \/ CallbackThrows(t)

CallbackExecuting(t) ==
    \/ ReadReceipt(t) \/ Apply(t) \/ ApplyFails(t)
    \/ CallbackSettle(t) \/ CallbackSettleFails(t)

\* What an invocation that has started goes on to do.
Continue(t) ==
    \/ StoreCallback(t) \/ Queueing(t) \/ SweepSelect(t) \/ Executing(t)
    \/ CallbackQueueing(t) \/ CallbackExecuting(t) \/ CallbackSweepScan(t)
    \/ Ack(t) \/ Nack(t)

\* How an invocation starts.
Start(t) ==
    \/ \E c \in Commands : Publish(t, c) \/ PublishDuplicate(t, c)
    \/ \E c \in Commands, n \in Deliveries : Claim(t, c, n) \/ ClaimCallback(t, c, n)
    \/ SweepStale(t) \/ CallbackSweepStale(t)
    \/ \E scope \in SUBSET Slack : Requeue(t, scope)

Next ==
    \/ \E t \in Threads : Start(t) \/ Continue(t) \/ Crash(t) \/ Abort(t)
    \/ \E c \in Commands, n \in Deliveries : Skip(c, n) \/ BatchDies(c, n)
    \/ \E c \in Commands : LeaseExpires(c) \/ CallbackLeaseExpires(c) \/ BackoffElapses(c)

Spec == Init /\ [][Next]_vars

\* Invocations run to their end, the queue delivers, the cron fires, time passes.
\* An invocation starts only on a free thread, hence the strong fairness.  The
\* environment is never obliged to inject a fault, and a product handler that is
\* called again and again does not fail every time.
Fairness ==
    /\ \A t \in Threads : WF_vars(Continue(t) /\ Healthy)
    /\ \A c \in Commands, n \in Deliveries :
           /\ SF_vars(\E t \in Threads : Claim(t, c, n))
           /\ SF_vars(\E t \in Threads : ClaimCallback(t, c, n))
           /\ WF_vars(Skip(c, n))
    /\ SF_vars(\E t \in Threads : SweepStale(t))
    /\ SF_vars(\E t \in Threads : CallbackSweepStale(t))
    /\ \A c \in Commands :
           /\ WF_vars(LeaseExpires(c) /\ Healthy)
           /\ WF_vars(CallbackLeaseExpires(c) /\ Healthy)
           /\ WF_vars(BackoffElapses(c))
           /\ SF_vars(\E t \in Threads : cur[t] = c /\ Apply(t))

FairSpec == Spec /\ Fairness

-----------------------------------------------------------------------------
(* Properties *)

ThreadTypeOK ==
    /\ pc \in [Threads -> Labels]
    /\ cur \in [Threads -> Commands \cup {NoCommand}]
    /\ memo \in [Threads -> Memos]
    /\ job \in [Threads -> Job]
    /\ \A t \in Threads :
           pc[t] \notin Between \/ job[t].kind # "none" => cur[t] \in Commands

TypeOK ==
    /\ status \in [Commands -> Statuses]
    /\ attempts \in [Commands -> Nat]
    /\ backoff \in [Commands -> BOOLEAN]
    /\ lease \in [Commands -> Leases]
    /\ receipt \in [Commands -> Receipts]
    /\ cbStatus \in [Commands -> CallbackStatuses]
    /\ cbLease \in [Commands -> Leases]
    /\ queue \in Queues(Tasks)
    /\ posts \in [Commands -> Nat]
    /\ applied \in [Commands -> Memos]
    /\ ThreadTypeOK
    /\ faults \in Nat
    /\ requeues \in Nat

\* The environment under which the outbox keeps its promise: invocations may die,
\* provider replies may be lost, messages come late, twice or not at all; but a
\* handler finishes within its lease, and the queue and the database answer.
Calm == Faults \subseteq {"crash", "reply"}

\* A delivered or refused row holds the receipt of that outcome, and a delivery is
\* backed by a provider action, its own or that of a command with the same marker,
\* whatever goes wrong and whoever settles the row.
DeliveredWasPosted ==
    \A c \in Commands :
        /\ status[c] \in Terminal => receipt[c] = status[c]
        /\ receipt[c] = "delivered" => Backed(c)

\* A finalizer never runs before its command has a receipt: the "Transport receipt
\* is unavailable" error of executeTransportCallback cannot happen.
FinalizerHasReceipt ==
    \A t \in Threads, c \in Commands : Finalizing(t, c) => receipt[c] # "none"

\* The lease excludes: two consumers never execute the same command at once,
\* although messages are duplicated and sweeps overlap.
Exclusive ==
    \A c \in Commands : \A t, u \in Threads : Working(t, c) /\ Working(u, c) => t = u

\* Once delivered, a command stays delivered and the provider does not act on it again.
DeliveredIsFinal ==
    [][\A c \in Commands : status[c] = "delivered" =>
          status'[c] = "delivered" /\ posts'[c] = posts[c]]_vars

\* A command with an idempotency marker acts once, although an invocation may die
\* right after the provider acted and another one retries it.
MarkedOnce == \A c \in Marked : posts[c] <= 1

\* Only faults and operator requeues push a command past max_attempts.
AttemptsWithinBudget ==
    \A c \in Commands : attempts[c] <= MaxAttempts + faults + requeues

\* A completed callback has applied the very receipt the command ended with.
CompletedAppliedTheOutcome ==
    \A c \in Commands : cbStatus[c] = "completed" =>
        /\ status[c] \in Terminal
        /\ applied[c] = status[c]

\* A row that is waiting for a retry, or whose worker died, is queued again or settles.
RowsMoveOn ==
    \A c \in Commands :
        status[c] \in Sendable \cup {"processing"}
            ~> status[c] \in {"queued"} \cup Terminal

\* A callback of a settled command that failed, or whose finalizer died, is queued again.
CallbacksMoveOn ==
    \A c \in Commands :
        cbStatus[c] \in {"pending", "processing"} /\ status[c] \in Terminal
            ~> cbStatus[c] \in {"queued", "completed"} \/ status[c] \notin Terminal

-----------------------------------------------------------------------------
(* What the operations guide says and the code does not do *)

\* docs/PLATFORM_EVENT_OPERATIONS.md: the cron recovery sweep requeues stale or failed
\* transport commands, so a queued command gets somewhere.
QueuedMovesOn == \A c \in Commands : status[c] = "queued" ~> status[c] # "queued"

-----------------------------------------------------------------------------
(* What the outbox promises, seen through this mapping *)

Phase(c) ==
    IF status[c] \in {"absent"} \cup Terminal THEN status[c] ELSE "open"

Promise == INSTANCE TransportPromise WITH
    phase <- [c \in Commands |-> Phase(c)], effects <- posts,
    Reopenable <- Slack, Once <- Marked

\* Under Calm the outbox implements the promise.
KeepsPromise == Promise!Spec
=============================================================================
