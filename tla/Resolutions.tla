----------------------------- MODULE Resolutions -----------------------------
(***************************************************************************)
(* Resolution of a feedback report and the email that tells its reporter:  *)
(* src/functions/lib/noxspot-resolution.js and the webhook of the mail     *)
(* provider, src/functions/api/postmark/webhook.ts.                        *)
(*                                                                         *)
(* One report whose reporter asked to be told.  Requests, webhooks and the *)
(* hourly reconciliation overlap, and so do the workers of the two tasks.  *)
(* Ten minutes may pass between any two steps: a claim whose worker is     *)
(* gone is taken over then, and one whose worker is slow may be.           *)
(***************************************************************************)
EXTENDS Naturals

CONSTANTS
    Callers,          \* overlapping requests, webhooks and reconciliations
    Workers,          \* overlapping invocations of the two tasks
    MaxCalls,         \* bound: calls
    MaxFaults         \* bound: failures of any kind

VARIABLES
    status, notify, ai,   \* status, notification_status, resolution_ai_status
    message,              \* whether notification_message_id is set
    episode,              \* how often the report was taken up again after it was resolved
    expected,             \* whether this resolution asked for an email
    call,                 \* what a caller is at, and what it has read
    work,                 \* what a worker is at, and the episode it read
    tasks,                \* waiting copies of the two tasks
    sent,                 \* emails accepted by the provider, by episode
    calls, faults,
    raced, crossed, broken, unsure, asked

reportVars == <<status, notify, ai, message, episode, expected>>
causes     == <<raced, crossed, broken, unsure, asked>>
vars == <<reportVars, call, work, tasks, sent, calls, faults, causes>>

\* The linked issue is closed or reopened; or people open or investigate the report, or
\* resolve it, and do so without an email, with one or with another one.
Operations == {"close", "reopen", "open", "investigate", "resolve", "notify", "retry"}

Statuses == {"open", "investigating", "resolved"}

StatusOf(operation) ==
    CASE operation \in {"reopen", "open"} -> "open"
      [] operation = "investigate" -> "investigating"
      [] OTHER -> "resolved"

\* A complaint counts as a bounce.
Notifications ==
    {"not_requested", "pending", "sending", "accepted", "delivered", "bounced", "failed"}

NoCall == [phase |-> "idle", operation |-> "close", status |-> "open", notify |-> "not_requested"]
Free   == [phase |-> "free", episode |-> 0]

Init ==
    /\ status = "open"
    /\ notify = "not_requested"
    /\ ai = "not_requested"
    /\ message = FALSE
    /\ episode = 0
    /\ expected = FALSE
    /\ call = [c \in Callers |-> NoCall]
    /\ work = [w \in Workers |-> Free]
    /\ tasks = [prepare |-> 0, send |-> 0]
    /\ sent = [e \in 0 .. MaxCalls |-> 0]
    /\ calls = 0
    /\ faults = 0
    /\ raced = FALSE
    /\ crossed = FALSE
    /\ broken = FALSE
    /\ unsure = FALSE
    /\ asked = FALSE

Faulty ==
    /\ faults < MaxFaults
    /\ faults' = faults + 1

\* One copy more, of which this model keeps one: a copy that finds nothing to do is
\* acknowledged.
Queued(task) == tasks' = [tasks EXCEPT ![task] = 1]

-----------------------------------------------------------------------------
(* The callers *)

Due(state) == state \in {"pending", "sending", "failed"}

\* A closed issue is skipped if its report is resolved.
Admitted(operation) == operation = "close" => status # "resolved"

\* An email is asked for in addition to one that is due, or was sent.
AsksAgain(operation) ==
    \/ operation = "retry"
    \/ operation = "notify" /\ (notify = "bounced" \/ ai # "not_requested")
    \/ operation = "close" /\ Due(notify)

Read(c) ==
    /\ call[c].phase = "idle"
    /\ calls < MaxCalls
    /\ calls' = calls + 1
    /\ \E operation \in Operations :
           /\ Admitted(operation)
           /\ call' = [call EXCEPT ![c] = [phase |-> "read", operation |-> operation,
                                            status |-> status, notify |-> notify]]
           /\ asked' = (asked \/ AsksAgain(operation))
    /\ raced' = (raced \/ \E d \in Callers : call[d].phase # "idle")
    /\ UNCHANGED <<reportVars, work, tasks, sent, faults, crossed, broken, unsure>>

\* queueNotification.
Queues(c) ==
    \/ call[c].operation = "retry"
    \/ /\ call[c].operation = "notify"
       /\ call[c].notify \notin {"pending", "sending", "accepted", "delivered"}

\* What is still to do after the report is written.
Remains(c) ==
    CASE Queues(c) -> "queueing"
      [] call[c].operation = "close" -> "closing"
      [] call[c].operation = "reopen" -> "reopening"
      [] OTHER -> "idle"

\* updateNoxSpotReport writes back the notification's status as it read it.  Only a report
\* that was resolved and is opened begins anew: one that is investigated keeps its email.
Write(c) ==
    LET new       == StatusOf(call[c].operation)
        reopening == new = "open" /\ call[c].status = "resolved" IN
    /\ call[c].phase = "read"
    /\ status' = new
    /\ notify' = IF Queues(c) THEN "pending"
                 ELSE IF reopening THEN "not_requested" ELSE call[c].notify
    /\ message' = (message /\ ~reopening)
    /\ episode' = IF new # "resolved" /\ call[c].status = "resolved" THEN episode + 1 ELSE episode
    /\ expected' = (new = "resolved" /\ (expected \/ call[c].operation # "resolve"))
    /\ call' = [call EXCEPT ![c] = [NoCall EXCEPT !.phase = Remains(c)]]
    /\ raced' = (raced \/ notify # call[c].notify)
    /\ UNCHANGED <<ai, work, tasks, sent, calls, faults, crossed, broken, unsure, asked>>

\* What follows, in a statement of its own.
Follow(c) ==
    /\ \/ /\ call[c].phase = "queueing"
          /\ Queued("send")
          /\ UNCHANGED ai
       \/ /\ call[c].phase = "closing"
          /\ ai' = IF status = "resolved" THEN "pending" ELSE ai
          /\ Queued("prepare")
       \/ /\ call[c].phase = "reopening"
          /\ ai' = "not_requested"
          /\ UNCHANGED tasks
    /\ call' = [call EXCEPT ![c] = NoCall]
    /\ UNCHANGED <<status, notify, message, episode, expected, work, sent, calls, faults, causes>>

\* A caller breaks off.  Called again, it finds the report resolved and skips it.
BreakOff(c) ==
    /\ call[c].phase # "idle"
    /\ Faulty
    /\ broken' = TRUE
    /\ call' = [call EXCEPT ![c] = NoCall]
    /\ UNCHANGED <<reportVars, work, tasks, sent, calls, raced, crossed, unsure, asked>>

-----------------------------------------------------------------------------
(* The workers *)

Taken(task) ==
    /\ tasks[task] > 0
    /\ tasks' = [tasks EXCEPT ![task] = 0]

\* A claim is ten minutes old: its worker is gone, or slow, which is counted.
Stale(phases) ==
    \/ (\A w \in Workers : work[w].phase \notin phases) /\ UNCHANGED <<faults, unsure>>
    \/ (\E w \in Workers : work[w].phase \in phases) /\ Faulty /\ unsure' = TRUE

\* The report was taken up again after this worker claimed it.
Overtaken(w) == work[w].episode # episode

\* prepareNoxSpotResolutionEmail.  It may come between a call's two statements.
Prepare(w) ==
    /\ work[w].phase = "free"
    /\ Taken("prepare")
    /\ status = "resolved"
    /\ \/ ai \in {"pending", "failed"} /\ UNCHANGED <<faults, unsure>>
       \/ ai = "generating" /\ Stale({"preparing"})
    /\ ai' = "generating"
    /\ work' = [work EXCEPT ![w] = [phase |-> "preparing", episode |-> episode]]
    /\ crossed' = (crossed \/ \E c \in Callers : call[c].phase \in {"closing", "reopening"})
    /\ UNCHANGED <<status, notify, message, episode, expected, call, sent, calls, raced, broken, asked>>

\* Slip: the email is prepared and not asked for.
ReadyStatusKept == notify

ReadyStatus == IF status = "resolved" THEN "pending" ELSE notify

Prepared(w) ==
    /\ work[w].phase = "preparing"
    /\ \/ /\ ai' = "insufficient"
          /\ UNCHANGED <<notify, tasks>>
       \/ /\ ai' = IF status = "resolved" THEN "ready" ELSE ai
          /\ notify' = ReadyStatus
          /\ Queued("send")
    /\ work' = [work EXCEPT ![w] = Free]
    /\ crossed' = (crossed \/ Overtaken(w))
    /\ UNCHANGED <<status, message, episode, expected, call, sent, calls, faults, raced, broken, unsure, asked>>

\* Slip: whoever comes is let in.
ClaimableAlways == notify \in {"pending", "failed", "sending"}

Claimable == notify \in {"pending", "failed"}

\* deliverNoxSpotResolutionEmail.
Send(w) ==
    /\ work[w].phase = "free"
    /\ Taken("send")
    /\ status = "resolved"
    /\ \/ Claimable /\ UNCHANGED <<faults, unsure>>
       \/ notify = "sending" /\ Stale({"sending", "posted"})
    /\ notify' = "sending"
    /\ work' = [work EXCEPT ![w] = [phase |-> "sending", episode |-> episode]]
    /\ UNCHANGED <<status, ai, message, episode, expected, call, sent, calls, raced, crossed, broken, asked>>

\* The recipient is suppressed after an earlier bounce.
Suppress(w) ==
    /\ work[w].phase = "free"
    /\ Taken("send")
    /\ status = "resolved"
    /\ notify \notin {"accepted", "delivered"}
    /\ Faulty
    /\ notify' = "bounced"
    /\ UNCHANGED <<status, ai, message, episode, expected, call, work, sent, calls, causes>>

\* Nothing to do: the report is not resolved, or was sent, or another has claimed it.
Skip(task) ==
    /\ Taken(task)
    /\ \/ status # "resolved"
       \/ task = "prepare" /\ ai \notin {"pending", "failed"}
       \/ task = "send" /\ ~Claimable
    /\ UNCHANGED <<reportVars, call, work, sent, calls, faults, causes>>

Post(w) ==
    /\ work[w].phase = "sending"
    /\ sent' = [sent EXCEPT ![work[w].episode] = @ + 1]
    /\ work' = [work EXCEPT ![w].phase = "posted"]
    /\ UNCHANGED <<reportVars, call, tasks, calls, faults, causes>>

\* By id: the report may be taken up again, or the email another worker's.
Accept(w) ==
    /\ work[w].phase = "posted"
    /\ notify' = "accepted"
    /\ message' = TRUE
    /\ work' = [work EXCEPT ![w] = Free]
    /\ UNCHANGED <<status, ai, episode, expected, call, tasks, sent, calls, faults, causes>>

\* A call throws: the claim is marked failed, by id, and the copy is delivered again.
Throw(w) ==
    /\ work[w].phase # "free"
    /\ Faulty
    /\ IF work[w].phase = "preparing"
       THEN ai' = "failed" /\ Queued("prepare") /\ UNCHANGED notify
       ELSE notify' = "failed" /\ Queued("send") /\ UNCHANGED ai
    /\ unsure' = (unsure \/ work[w].phase = "posted" \/ \E v \in Workers \ {w} : work[v].phase = "sending")
    /\ crossed' = (crossed \/ Overtaken(w))
    /\ work' = [work EXCEPT ![w] = Free]
    /\ UNCHANGED <<status, message, episode, expected, call, sent, calls, raced, broken, asked>>

Die(w) ==
    /\ work[w].phase # "free"
    /\ Faulty
    /\ unsure' = (unsure \/ work[w].phase = "posted")
    /\ work' = [work EXCEPT ![w] = Free]
    /\ UNCHANGED <<reportVars, call, tasks, sent, calls, raced, crossed, broken, asked>>

\* Slip: what the provider calls the event is stored.
ReportedAsNamed == {"delivery", "bounce"}

Reported == {"delivered", "bounced"}

\* The provider reports about the message whose id the report still has.
Postmark ==
    /\ message
    /\ \E result \in Reported : notify' = result
    /\ UNCHANGED <<status, ai, message, episode, expected, call, work, tasks, sent, calls, faults, causes>>

\* recoverNoxSpotResolutionPreparations and recoverNoxSpotResolutionEmails.
Sweep ==
    /\ status = "resolved"
    /\ \/ ai \in {"pending", "failed", "generating"} /\ tasks.prepare = 0 /\ Queued("prepare")
       \/ Due(notify) /\ tasks.send = 0 /\ Queued("send")
    /\ UNCHANGED <<reportVars, call, work, sent, calls, faults, causes>>

-----------------------------------------------------------------------------
Worker(w) ==
    \/ Prepare(w) \/ Prepared(w) \/ Send(w) \/ Suppress(w) \/ Post(w) \/ Accept(w)
    \/ Throw(w) \/ Die(w)

Next ==
    \/ \E c \in Callers : Read(c) \/ Write(c) \/ Follow(c) \/ BreakOff(c)
    \/ \E w \in Workers : Worker(w)
    \/ Skip("prepare") \/ Skip("send")
    \/ Postmark \/ Sweep

Spec == Init /\ [][Next]_vars

-----------------------------------------------------------------------------
TypeOK ==
    /\ status \in Statuses
    /\ notify \in Notifications
    /\ ai \in {"not_requested", "pending", "generating", "insufficient", "ready", "failed"}
    /\ message \in BOOLEAN
    /\ episode \in 0 .. MaxCalls
    /\ expected \in BOOLEAN
    /\ call \in [Callers -> [phase : {"idle", "read", "queueing", "closing", "reopening"}, operation : Operations,
                            status : Statuses, notify : Notifications]]
    /\ work \in [Workers -> [phase : {"free", "preparing", "sending", "posted"}, episode : 0 .. MaxCalls]]
    /\ tasks \in [{"prepare", "send"} -> 0 .. 1]
    /\ sent \in [0 .. MaxCalls -> Nat]
    /\ calls \in 0 .. MaxCalls
    /\ faults \in 0 .. MaxFaults
    /\ {raced, crossed, broken, unsure, asked} \subseteq BOOLEAN

\* The reporter gets one email until the resolved report is opened or investigated again,
\* whatever the sweeps queue again, unless calls overlapped each other, a worker came
\* between the statements of a call or settled a report that was taken up again under it,
\* posted and could not record it or was taken for dead, or somebody asked for an email
\* when one was due or sent.
OneEmailPerResolution ==
    \A e \in 0 .. MaxCalls : sent[e] > 1 => raced \/ crossed \/ unsure \/ asked

\* A resolution that asked for an email is pursued: the email is being prepared, is due or
\* was dealt with, unless calls overlapped or one broke off between its two statements.
ResolvedIsPursued ==
    status = "resolved" /\ expected /\ (\A c \in Callers : call[c].phase = "idle") /\ ~raced /\ ~broken
        => ai \in {"pending", "generating", "insufficient", "failed"} \/ notify # "not_requested"
=============================================================================
