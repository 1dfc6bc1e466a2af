# NoxConnect, modelled and checked

NoxConnect (NoxHere) is a set of Cloudflare Workers around one D1 database and one task
queue.  Products record what happens as platform events, ask for Slack and GitHub actions as
transport commands, and leave the rest to a queue consumer and a cron tick.  Nothing holds a
lock: every invocation may interleave with every other at each `await`, may die there, and
may be run again.  What keeps the data right is a handful of `UPDATE ... WHERE status IN (...)`
statements, leases, unique keys and sweeps.  This directory holds TLA+ models of those parts,
the TLC configurations that check them and TLAPS proofs about them.

Paths below are relative to `src/`.

## 1. Inventory

### Parts that are modelled

| Part | Source | State it keeps | Operations |
| --- | --- | --- | --- |
| Transport outbox | `functions/lib/transport-outbox.ts`, `functions/lib/transports/` | `transport_outbox`: status, attempts, lease, next attempt, receipt; `transport_callbacks`: status, lease | publish (also as a duplicate), queue, claim, execute, settle, queue and execute a callback, two recovery sweeps, requeue of refused Slack commands |
| Task queue and consumer | `services/scheduler/src/index.js` | the copies of each task and how often each was delivered | send, deliver, acknowledge, retry, drop after the last delivery, redeliver a batch that died |
| Event log and read model | `functions/lib/platform-event-store.ts`, `functions/lib/platform-event-projector.ts`, `scripts/replay-platform-events.mjs` | `platform_events`: projection status and age; `platform_projection_events`; `platform_projection_state` | publish, enqueue, project, recover, replay |
| Delivery event sweep | `functions/lib/transport-delivery-events.ts` | the lifecycle events of a command in the log | select the rows with missing events, publish them one by one |
| Review job queue | `functions/lib/review-jobs.js`, `functions/api/review/`, the pull_request branch of `functions/api/webhook.js` | `review_jobs`: status, attempts, claimed_by | enqueue with supersession, cancel, claim, fail, complete |
| Incidents on GitHub | `functions/lib/noxcue-github.js`, `services/cue/src/github-incidents.ts` | `cue_github_incidents`: status, two counts of occurrences, the issue and the one before | report an occurrence, claim, look for the issue, store a create or an update and its callback, finalize, recover |
| Error groups | `storeError` in `services/cue/src/events.ts` | `cue_error_groups`: status, last_notified_at | receive an event, resolve, reopen |
| Feedback resolution | `functions/lib/noxspot-resolution.js`, `functions/api/postmark/webhook.ts` | `spot_reports`: status, notification_status, resolution_ai_status | close, reopen, open, investigate, resolve with or without an email, ask for another, prepare and send it, hear of its fate, two sweeps |
| Older Slack outbox | `functions/lib/delivery-outbox.js` | `delivery_outbox`: status, next_attempt_at | queue, claim, post, refuse, fail, sweep, requeue |
| Native sessions and the CLI | `services/gateway/src/control/auth.ts`, `apps/cli/` | `native_sessions`: token hashes, revoked_at; on a computer the stored session and a lock file | login, logout, use, request, refresh, revoke |
| Mirror of GitHub's issues | `functions/lib/github-sync.js`, `functions/api/webhook.js` | `issues`; the cursor in `sync_state` | take in a webhook, list since the cursor or all, prune |
| Database recovery | `services/scheduler/src/database-recovery.js` | a request and its repositories, each with a status | initialise, take one repository, close |
| Device sign-in and connection | `functions/lib/connection-identity.ts` | an authorization's poll time and result; a connection's tokens | poll, exchange, persist, resolve, refresh |
| Capability runs | `functions/lib/connection-capability-executor.ts` | `connection_capability_runs`: command, status, receipt | claim, run, finish, fail |

How they interact: a publisher inserts a row and sends a task; the consumer hands the task to
the outbox or the projector, which claims the row; the outbox calls a provider, stores a
receipt and queues a callback into the product; the cron tick runs the sweeps that repair what
a dead invocation, a lost message or a late statement left behind; the delivery event sweep
reads the outbox and writes the event log, whose projection goes through the same queue.  The
review queue shares only the database: GitHub fills it and runners outside Cloudflare poll it.
Incidents are reported by the code that groups errors; their commands go to the outbox, whose
callback finalizes them.  The closing of an issue, told by a webhook or found by the mirror,
resolves its feedback report.  Recovery steps synchronise the mirror; sign-in makes the sessions
that the command line refreshes.

What makes each correct:

- *Outbox*: one worker executes a command at a time; a delivery is final and backed by an action of
  the provider, on this command or on one that carries its marker; a marked command acts once; attempts are bounded; a callback applies the
  outcome the command ended with; nothing waits for ever.
- *Event log*: the state of a subject is that of its latest event, whatever the order of
  delivery; a projected event is in the read model; every event gets there.
- *Delivery sweep*: the log says nothing of a command that is not so, and nothing of its outcome
  before it says that it was queued; a command that stays settled is announced.
- *Review queue*: claims of a job are capped, one runner has it at a time, what has ended stays
  ended, and what is queued ends.
- *Incidents*: one that shows as open has nothing left to report; one that waits comes to rest; a
  recurrence after its issue was closed gets a new issue (it does not, see `doc_recurrence`).
- *Error groups*: one announcement per cooldown.
- *Resolution*: one email per resolution, and no resolution that asked for an email and is forgotten.
- *Older Slack outbox*: a row that is due settles, and a message is posted again only for a cause.
- *Sessions*: one process refreshes at a time; the stored token is honoured; a session that was
  signed out of stays so.
- *Mirror*: it has what GitHub has, or the next run will list it.
- *Recovery*: a completed request has no repository left.
- *Sign-in*: an approved code is not reported as denied; overlapping refreshes keep the connection.
- *Capability runs*: all callers of a key get one answer.

### Parts that are not modelled

`PROJECT.json` names each with its reason.  Stateful parts that the plan below takes up: the
scheduled digests, the event archive, the telemetry client and the statistics audit.  Of modelled
parts these operations are missing: the pull-request and commit halves of the synchronisation and
the `closed_by` lookups of issues; the links between an incident's issues; aggregates and the other
kinds of events of NoxCue; intake of feedback reports and the reporter's answer; browser sessions;
expiry of device codes and of refresh tokens; connections of other providers.  Parts left out for
good: routing, validation of envelopes, text generation, user interface, generated SDKs, and
handlers that execute one statement.

### What is hard

Interleavings at every `await`; a late `UPDATE` of a publisher after the consumer has finished;
invocations that die between the provider's action and the receipt; messages delivered twice,
late or not at all; catch blocks that write by `id` alone; sweeps that judge by a lease or by
the age of a row; an operator's requeue or replay in the midst of it.  `PROJECT.json` lists the
hazards line by line with the properties that would show them going wrong.

## 2. Modules

| Module | What it is |
| --- | --- |
| `TaskQueue` | the queue: operators on a function from tasks and delivery numbers to copies |
| `TransportPromise` | what the outbox promises its callers, in five actions |
| `TransportOutbox` | the outbox, its callbacks, its sweeps and the part of the consumer that runs it |
| `PlatformEvents` | the event log, its projection and its replay, on the same queue |
| `DeliveryEvents` | the delivery event sweep, beside an outbox that is `TransportPromise` |
| `ReviewJobs` | the review queue, its webhook and its runners |
| `Incidents` | one incident: reports, the background task, the commands, the finalizer, people |
| `ErrorGroups` | one fingerprint and its cooldown |
| `Resolutions` | one feedback report: overlapping callers, two tasks, the mail provider, two sweeps |
| `DeliveryOutbox` | one row of the older Slack outbox, on `TaskQueue` |
| `CliSessions` | a user's processes, the store and lock file they share, and the server's sessions |
| `GithubMirror` | one issue, its webhooks and overlapping synchronisations |
| `DatabaseRecovery` | one request and the overlapping steps that work on it |
| `DeviceSignIn` | one device code, its polls, and the connection that requests refresh |
| `CapabilityRuns` | one idempotency key and the calls that use it |
| `MCServices` | the nine services, one in each behaviour |
| `MCTransportOutbox`, `MCPlatformEvents` | definitions the configurations need |
| `*Proofs` | theorems: two modules about the outbox, one each about the queue, the event log, the delivery sweep, the review queue and the sessions, and `ServicesProofs` about the nine services |

`TransportOutbox` and `PlatformEvents` extend `TaskQueue`.  `TransportOutbox` implements
`TransportPromise` (`KeepsPromise`), and `DeliveryEvents` instantiates `TransportPromise` as its
outbox: the sweep is checked against what the outbox promises, not against its interleavings.

### Correspondence with the code

**Threads.** One thread is one invocation of a Worker: a request that publishes, a consumer that
handles one message, a cron sweep.  `pc` names the `await` it is at; an action is what runs from
one await to the next.  A database statement or batch is one step, because D1 executes it in one
transaction.  An invocation that dies loses its thread's state and, if it held a message, gives
it back to the queue with its delivery number increased (`Release`, `Crash`).

**Rows.** One function per column, from commands or events.  Clock values are replaced by what
the code compares them with: a lease is `live` or `expired`, `backoff` says that next_attempt_at
lies ahead, `aged` that updated_at is fifteen minutes old.  `LeaseExpires`, `BackoffElapses` and
`Ages` are the passing of time.  A lease may expire under a working handler only as the fault
"slow"; otherwise only once its worker is gone.

**Outbox.** `Publish` is the INSERT of publishTransportCommand, `StoreCallback` the callback's;
`Send`, `SendFails`, `Confirm`, `ConfirmFails`, `Demote` are queueTransport, used by publishers,
the sweep and the requeue alike; `SweepStale` and `SweepSelect` are the two statements of
recoverTransportCommands; `Claim`, `Lookup`, `Post`, `PostUnconfirmed`, `HandlerFails`, the
`Settle...` actions and `Throw` are executeTransportCommand with its adapters; the
`Callback...` actions, `ClaimCallback`, `ReadReceipt`, `Apply` and `ApplyFails` are the callback's
life; `Requeue` is requeueBlockedTransportCommands.  The consumer is `Ack`, `Nack`, `Skip`,
`BatchDies`.  Provider, route and content are abstracted to: the call acts or does not, is
reported or not, and an error is retryable, blocking or final.  Issues are found by a marker, which
the commands of one incident have in common while their keys differ: `SameMarker` groups the
commands, `Alike(c)` are those that c would find an issue of, and `Backed(c)` says that one of them
has posted.  A create settles for such an issue (`Lookup`), so a command may be delivered that never
posted itself.

**Events.** `Publish` inserts; `Send` to `Demote` are enqueueProjection; `SweepStale` and
`SweepSelect` recoverPlatformEventProjections; `Claim`, `Project`, `Fail` and their failing
variants projectPlatformEvent, whose batch of fact, state and status is one step (`Reflect`);
`Replay` is the operator's script.  Events are numbered in the order of (occurred_at, id).

**Delivery sweep.** `Select` reads the rows and what they lack; `Publish` publishes one event, from
that snapshot; `Abort` is a publication that throws.

**Review queue.** One pull request.  `Push`, `MarkReady`, `Close` and `Redeliver` are GitHub;
`Supersede` and `Insert` are the two statements of enqueueReviewJob, between which another webhook
may run; `Claim`, `Minted` and `MintFails` are the claim endpoint; `Complete` is the other one.  All
timestamps of this table are written with `strftime('...%Z')`, which SQLite answers with NULL:
hence `ClaimedLongAgo(h) == FALSE`, and hence any queued job may be the first by created_at.

**The smaller services.** Each module follows one row: one incident, one fingerprint, one report, one
delivery, one issue, one request, one authorization, one key.  The code treats rows independently,
so what can go wrong among two goes wrong at one, where requests, tasks, sweeps and people overlap.
An actor's record holds the statement it is at and what it has read, which is what goes stale.  A
SELECT and the claim behind it are one step where the claim's own WHERE decides.  A deadline that
the code compares with a clock (ten or fifteen minutes, a polling interval) may pass between any two
steps.  Whether the actor of an old claim is gone or slow is a choice; the slow one is counted.

- *Incidents.* `Occur` is stageGithubIncident, `Claim` to `Throw` are the background task, `Completes`
  is the batch of completeIncident, which the task and the callback share, and `SendsMore` what
  follows it.  A worker's phase says how far it is: it has claimed the row (`claimed`), looked for
  the issue (`found`), stored the command (`stored`) and its callback (`published`), or completed
  the row itself (`completed`).  From each of them it may die (`Die`) or throw (`Throw`): the catch block
  writes `failed` by id, whatever the row is by then and although the command may be on its way.
  The call that publishes the comment comes after the callback is stored, so its failure is a
  `Throw` of a worker that has published.  `outbox` keeps what the incident needs of the transport: a
  key is stored once and its callback is applied once, unless `FinalizeAgain`; a create settles for any
  issue with the marker, and otherwise looks in one step and creates in another, so that two
  creates may make two issues.  That the lookup reads one page is left out here (`TransportOutbox`
  has it).  The cadence of updates is a choice between `Store` and `NothingDue`.
- *Error groups.* `Decide`, `Store` and `Announce` are the SELECT, the batch and the publication of
  storeError; time is a number because the cooldown subtracts.
- *Resolution.* `Operations` are those of the linked issue (`close`, `reopen`) and of the people who
  use the report's endpoint: they open it, investigate it, or resolve it without an email
  (`resolve`), with one (`notify`) or with another one (`retry`).  `Read`, `Write` and `Follow` are the
  statements of updateNoxSpotReport and of its two callers from GitHub: `Write` writes back the
  notification's status as `Read` found it, and begins anew only if the report goes from resolved to
  open.  `Prepare`, `Prepared`, `Send`, `Post`, `Accept` are the tasks.  `episode` counts how often a
  resolved report was opened or investigated again, to say "one email per resolution"; `expected`
  says whether the resolution asked for an email.  A report that is investigated after its email was
  accepted, and whose issue is then closed, is written about again: in the model's words that is the
  email of a new resolution, as it is after a reopening.  The reporter has agreed to be written to.
- *Older Slack outbox.* `Reset`, `Choose`, `QueueIt`, `Mark` are the sweep; `Take` to `Throw` the
  worker.
- *Sessions.* A token is a session and a generation; the server honours the last one.  `pc` says
  whether a process waits for the lock file, has judged it stale, or is inside.  The lock file says
  who made it, whether it names a process that lives, and whether it is old.
- *Mirror.* Versions are numbered; `changed` says that GitHub's copy is newer than the cursor.
- *Recovery.* The two statements of finishIfDrained are `CountJobs` and `Close`.
- *Sign-in.* GitHub gives tokens for a code once and honours a refresh token once.
- *Capability runs.* The hash of a command includes its id, so the branch that compares leases is
  never taken for the command that is repeated, and is not in the model.

Each property of these modules names the causes that break it, and a variable of the model remembers
whether they have come up: `stolen` (a lock broken whose holder lived), `lost` (an answer that
carried a token), `overwrote` (`use` wrote back a session that was replaced), `stillValid` (a
session that could not be revoked), `raced` (decisions or calls that overlapped), `crossed` (a
worker that came between a call's two statements, or settled a report that was taken up again under
it),
`broken` (a caller gone between its two statements), `unsure` (a worker taken for dead, or one that
posted and did not record it), `asked` (an email asked for beside one that was due or
sent), `stranded` (an incident whose worker died with its
claim, or whose command was settled before it was published again), `overtaken` (a callback applied
twice; `twiceApplied` in `MCServices`), `late` (a handler that threw when its command had its callback
already, or when its row was another worker's), `reordered`, `unseen`, `capped`, `twice`, `slow`, `overlapped`.  These are the code's
known limits, found by dropping the cause and reading the counterexample; the property says that
there are no others.

Operators whose comment begins with *Slip* are plausible mistakes in the code.  No specification
uses them; each replaces one definition to show that a property notices.  Those of the type
invariants are slips of this code too: a terminal status that is taken from the error, an UPDATE
that forgets its time stamp, an endpoint that does not check what a runner reports, a webhook that
stores the provider's word for an event.

## 3. What the runs check

| Run | Instance | Properties |
| --- | --- | --- |
| `outbox_calm` | 2 threads; a Slack command, or a marked issue with a callback, which may find that an earlier command with its marker has posted; 2 attempts, 2 deliveries, 2 faults among dying workers and lost replies, 1 requeue.  669,398 states | `TypeOK`, `Exclusive`, `MarkedOnce`, `CompletedAppliedTheOutcome`, `DeliveredIsFinal`, `KeepsPromise` |
| `outbox_faulty` | 2 threads, a marked issue with a callback, 2 attempts, 2 deliveries, any two faults.  1,741,433 states | `DeliveredWasPosted`, `FinalizerHasReceipt`, `AttemptsWithinBudget` |
| `outbox_live` | 2 threads, a command with a callback, 2 attempts, a worker that dies; fairness | `RowsMoveOn`, `CallbacksMoveOn` |
| `events_log` | 2 threads, 2 events of one subject, 1 delivery of each copy, any two faults, 1 replay; fairness | `TypeOK`, `HeadIsLatest`, `ProjectedIsReflected`, `ProjectedIsFinal`, `EveryEventProjected` |
| `sweep_log` | 2 overlapping sweeps, a Slack command and an issue; fairness | `TypeOK`, `OutcomesAreTrue`, `QueuedBeforeOutcome`, `OutcomesAreAnnounced` |
| `review_queue` | 2 heads, 2 overlapping webhooks, 2 redeliveries, 2 runners, 1 death, 2 attempts; fairness | `TypeOK`, `AttemptsCapped`, `OneReviewer`, `EndedIsFinal`, `JobsEnd` |
| `services` | one of nine services in each behaviour, 2 overlapping actors; 2 occurrences, 2 faults; 2 logins, 1 rotation, 1 fault; 3 events, a cooldown of 2 ticks; 1 caller, 3 calls, 2 workers, 1 fault; 2 deliveries, 1 requeue, 2 faults; 2 versions and a deletion; 2 repositories; 4 tokens; 2 command ids, 3 requests; fairness for incidents and the Slack outbox.  1,157,579 states | `ServicesTypeOK`, `OpenIsUpToDate`, `IncidentSettles`, `LockExclusive`, `StoredTokenIsHonoured`, `SignedOutStaysOut`, `OneAnnouncementPerCooldown`, `OneEmailPerResolution`, `ResolvedIsPursued`, `RepeatHasCause`, `RowSettles`, `MirrorCatchesUp`, `CompletedIsDrained`, `ApprovedSignInHolds`, `OneAnswerPerKey` |

Five more runs check a sentence of the repository that the code does not keep, and TLC must find
the violation:

- `doc_delivered`: a delivered command is replayed.  queueTransportCallback is awaited inside the
  try block of executeTransportCommand; when it throws, the catch block writes `retrying` over the
  delivery.
- `doc_queued`: a command stays `queued` for ever.  The publisher's late UPDATE marks a row queued
  after the consumer has tried it and marked it retrying; the copies of its task are spent on the
  backoff, and the sweep, unlike the one for events, does not look at queued rows.
- `doc_announced`: a delivery is never announced.  A command that was refused, announced as failed,
  requeued and delivered has a terminal event already.
- `doc_orphan`: a review job whose runner died stays `running`, since its claim has no time.
- `doc_recurrence`: an incident recurs after people closed its issue and gets no new one.  The task
  publishes a create command, but the transport looks for the incident's marker among issues of
  every state and returns the closed one, which is recorded as open.

The models show three more behaviours that contradict a sentence of the documents and are not
kept as runs.  An action without a marker is repeated when its worker dies after acting
(`KeepsPromise` therefore bounds the actions of marked commands only).  The sweep returns a stale
claim to `retrying` even if it was the last attempt (`AttemptsWithinBudget` therefore allows one
more attempt per fault).  A late webhook of an older head supersedes the job of the newest one
(no property of `ReviewJobs` says that the newest head is reviewed).

**Bounds.** Every bound is a constant: copies of a task waiting when a producer starts
(`MaxCopies`), deliveries, faults, requeues, replays, redeliveries, deaths, heads.  Two threads are
enough for each conflict there is between two statements: publisher against consumer, consumer
against consumer, consumer against sweep or requeue; a dead invocation frees its thread.  Two
deliveries and two attempts reach the first, a repeated and the last one.  In `events_log` each copy
is delivered once: the messages that arrive again are those a sweep sent again, and whatever fails
is left to the sweep.  Two faults reach every error path, a catch block that fails in its turn
included, and let a worker die while it repairs what another left.  Commands share only the
invocations and, if they are of one incident, the issue.  `OneCommand` lets the instance of
`outbox_calm` follow one command of either kind; `Earlier` names a command that has posted before
and shares the marker of the one that is followed.  `outbox_faulty` follows one marked command
without a second.  The proofs cover any number of commands and every `SameMarker`.

The services are run in one model because they share no state: the initial choice of `part` says
which of them moves, and the state space is the sum of the nine, not their product.  A liveness
property is stated of the behaviours of its part.  Two actors make each overlap of two statements
that the comments name; two faults let a repair fail.  Two logins let a process hold a session that
was signed out of while another signs in again.  A report has one caller at a time and two workers:
that calls overlap is one of the causes which both properties of the report exempt, while three
calls, one after another, reach a second resolution after an investigation or a reopening.  Two
occurrences let one arrive under a worker, and let a second command find the first one's issue.

**Deadlock** is checked everywhere except in the review runs, where a closed pull request
with no job left is an end, and in `services` and `doc_recurrence`, where calls, versions and
occurrences run out.

**Fairness.** An invocation that is not interrupted runs on, the queue delivers what waits, the cron
fires, and time passes; each is a property of the platform.  An invocation can begin only on a free
thread, which is why claims and sweeps have strong fairness.  No fault, publication, requeue or
replay is ever owed.  Three assumptions go beyond the platform: a product handler does not fail
at every attempt (`outbox_live`), a delivery sweep does not fail at the same row at every tick
(`sweep_log`), and runners keep polling and end their reviews (`review_queue`).  `JobsEnd` says
nothing once a runner has died.

## 4. What is proved

TLAPS checks these for every set of threads, commands, events and runners, and for every bound.

| Theorem | Says | From |
| --- | --- | --- |
| `TransportOutboxProofs!TypeCorrect` | `[]TypeOK` | any faults |
| `TransportOutboxProofs!DeliveriesArePosted` | `[]DeliveredWasPosted` | any faults |
| `TransportOutboxProofs!FinalizersHaveReceipts` | `[]FinalizerHasReceipt` | any faults |
| `TransportOutboxProofs!AttemptsBounded` | `[]AttemptsWithinBudget` | any faults |
| `TransportCalmProofs!OneWorker` | `[]Exclusive` | `Timely` |
| `TransportCalmProofs!DeliveryIsFinal` | `DeliveredIsFinal` | `Timely` |
| `TransportCalmProofs!CallbacksApplyTheOutcome` | `[]CompletedAppliedTheOutcome` | `Timely` |
| `TransportCalmProofs!MarkedActsOnce` | `[]MarkedOnce` | `Calm` |
| `TransportCalmProofs!PromiseKept` | `KeepsPromise` | `Calm` |
| `PlatformEventsProofs!EventsTypeCorrect` | `[]TypeOK` | any faults |
| `PlatformEventsProofs!ReadModelIsCurrent`, `TheProjectedIsReflected` | `[]HeadIsLatest`, `[]ProjectedIsReflected` | any faults |
| `PlatformEventsProofs!ProjectionIsFinal` | `ProjectedIsFinal` | any faults |
| `DeliveryEventsProofs!SweepTypeCorrect`, `LogIsTrue`, `QueuedComesFirst` | `[]TypeOK`, `[]OutcomesAreTrue`, `[]QueuedBeforeOutcome` | |
| `CliSessionsProofs!OneProcessInside`, `TheStoredTokenIsHonoured`, `WhatLogoutRemovedStaysOut` | `[]LockExclusive`, `[]StoredTokenIsHonoured`, `[]SignedOutStaysOut` | any faults |
| `ReviewJobsProofs!ReviewTypeCorrect`, `ClaimsAreCapped`, `OneRunnerPerJob`, `EndsAreFinal` | `[]TypeOK`, `[]AttemptsCapped`, `[]OneReviewer`, `EndedIsFinal` | |
| `CliSessionsProofs!SessionsAreTyped` | `[]TypeOK` | any faults |
| `ServicesProofs!ServicesAreTyped` | `[]ServicesTypeOK` | any faults |
| `ServicesProofs!OpenIncidentsAreUpToDate` | `[]OpenIsUpToDate` | any faults |
| `ServicesProofs!AnnouncedOncePerCooldown` | `[]OneAnnouncementPerCooldown` | |
| `ServicesProofs!OneEmailIsSent`, `ResolutionsArePursued` | `[]OneEmailPerResolution`, `[]ResolvedIsPursued` | any faults |
| `ServicesProofs!RepeatsHaveCauses` | `[]RepeatHasCause` | any faults |
| `ServicesProofs!TheMirrorCatchesUp` | `[]MirrorCatchesUp` | |
| `ServicesProofs!RecoveriesAreDrained` | `[]CompletedIsDrained` | |
| `ServicesProofs!ApprovedSignInsHold` | `[]ApprovedSignInHolds` | |
| `ServicesProofs!KeysHaveOneAnswer` | `[]OneAnswerPerKey` | |
| `ServicesProofs!EveryPartIsItself` | `ServicesSpec` implies the specification of each service | |

Two assumptions name the environment of the outbox.  `Timely` is
`Faults \subseteq {"crash", "reply", "page"}`: workers may die anywhere, provider replies may be
lost and a marked issue may lie past the page the lookup reads, but a handler ends within its lease
and the queue and the database answer.  It is needed: with "slow" two workers execute a command,
with "send" or "db" a catch block hands a claimed row to a second worker, and with "db" a delivery
may be overwritten (`doc_delivered`).  `Calm` excludes "page" too, with which a marked issue is
created again.  The other assumptions are that the bounds of the models are natural numbers, those
that divide or index positive (`LimitsAssumption`, `BoundsAssumption`, `FaultsAssumption`, ...), that
the constants that stand for nothing (`NoCommand`, ...) are not among the things, and what
`CommandsAssumption` says of the kinds of commands.

The arguments, in the words of the invariants that carry them:

- *Receipts* (any faults): a worker about to settle as delivered has posted, or found the issue of a
  command with its marker, which therefore posted; a row that is delivered has the receipt of it, and a row's receipt is never taken away; a callback is
  queued only for a row with a receipt and a finalizer's claim therefore finds one.
- *Exclusion* (`LeaseInv`): a working thread's command is `processing` under a live lease, and no
  other thread works on it.  The late statements of publishers and sweeps do not touch a processing
  row, and the sweep takes only expired leases, which in calm no working thread has.
- *Finality* follows step by step: the actions that write `status` either need a claim, which a
  delivered row cannot be under, or exclude delivered rows in their WHERE.
- *Marked once* (`MarkedInv`): a marked command that has been posted is found by the lookup, and a
  worker that goes on to post holds the only claim and has looked after the last post of its own command.
  (Two commands with one marker may each look before the other posts; the theorem counts the
  actions of each.)
- *Budget* (`BudgetInv`, any faults): a row's debt is what may still become an attempt: one if it is
  free, that is to be claimed or claimed by a worker that the sweep may take for dead, and one for
  each invocation that owes, that is will yet demote it or settle it as retrying, whatever has become
  of the row by then.  Only a claim turns debt into an attempt, and it takes the row's one; only a
  fault or a requeue adds to the debt, one at a time.  So attempts and debt together do not exceed
  max_attempts, faults and requeues once the attempts are used up.  The invariant counts threads, so
  the proof needs the cardinality of finite sets; nothing is assumed of slow handlers or failing
  statements, and the bound of TLC's run is the bound of the theorem.
- *Callbacks* (`CallbackInv`): a command with a callback is not Slack's, so no operator reopens it and
  its receipt, once there, stays and settles its row (`RowStep`).  A handler is given that receipt, so
  whoever applies, applies the same one, however often the callback is executed.
- *Promise*: every step of the outbox is a step of `TransportPromise` or leaves phase and posts
  alone, by exclusion and finality.
- *Read model*: facts and heads change only together in the batch, and a head only to a later event.
- *Final projections*: `Demote`, `Fail` and `Stale` name the statuses they change, and projected is
  none of them.
- *Delivery sweep*: what a plan holds for a settled row stays true unless an operator may reopen the
  row, and a plan that still holds a queued event is published in order.
- *Review jobs* (`ReviewInv`): a job that is absent or queued has attempts left; a runner that has a
  job is the one that claimed it last, and only a webhook may have ended it.
- *Session lock* (`LockInv`): while no lock was stolen, whoever is inside made the lock file, and the
  file names it as living.  Exclusion alone is not inductive: a process may enter when there is no
  file, so a missing file, or one that names the dead, must mean that nobody is inside.
- *Stored token* (`TokenInv`, `Kept`): every token was issued, so a sign-in's session is one nobody
  has revoked; whoever rotates is alone in the lock and holds an honoured token until it saves it.
  The stored token is honoured, or that process is about to replace it.
- *Signed out* (`Removed`): every process holds a revoked session, the stored one, or one that it is
  about to save.  Logout revokes the stored session before it deletes it, so a process that waited
  with it in hand finds nothing that the server still honours; a login saves only where nothing is
  stored.  This needs no word about lost answers: a token whose successor was lost is not honoured,
  and its logout counts as `stillValid`.
- *Incidents* (`IncidentQuiet`): unless a callback was applied twice or a handler threw too late, one
  worker works on the row or one callback is due, never both, and the row is processing then; a row
  that is open has processed all its occurrences.  A worker whose command has its callback does not
  work on the row any more: what it may still do to the row is throw, which is `late`.
- *Error groups* (`GroupQuiet`): without a race one request at a time has decided and not yet stored;
  notified_at is no earlier than any message said or stored; a group that shows as resolved was
  resolved since; and who decided to notify did so after a cooldown or a resolution.  From these the
  messages are a cooldown apart or have a resolution between them.
- *Resolutions, pursued* (`PursuedQuiet`): while calls do not overlap, a resolution that asked for
  an email has it prepared, due or dealt with, or the one call that there is has written the closing
  and will ask; and only a resolved report expects one.
- *Resolutions, one email* (`EmailFits`): each episode is first one in which nothing is due, then one
  in which a worker prepares, then the email is due or out, and what is out or due is never made due
  again: no task, sweep, worker or call is left that would.  A report that is not resolved has
  nothing out in its episode, although the notification's status may be that of the one before: an
  investigation leaves it as it was.  Two causes came out of counterexamples.  A report taken up
  again while a worker has its email is written to by that worker afterwards, in its new episode,
  because prepareNoxSpotResolutionEmail and deliverNoxSpotResolutionEmail record failures by id
  alone: that is `crossed`.  And an issue that is closed while an email is due, which an earlier
  investigation can bring about, asks for one more: that is `asked`.
- *Older Slack outbox* (`SlackQuiet`): until somebody is unsure, one worker at a time has the row,
  which is processing then; a message that was posted is in a delivered row, or its worker is about to
  record it, and who has just claimed the row has not posted it.
- *Mirror* (`MirrorQuiet`): the row is in step, the cursor is behind the change, or the webhook of the
  deletion waits; a run under way holds what GitHub has, or was not told because the cursor is past
  the change; and once it has written, the row is in step.
- *Recovery* (`DrainedInv`): a step that is about to close a request found nothing left of it, and
  nothing is added to it afterwards: a repository that is finished stays so.
- *Sign-in* (`PollQuiet`, `ConnectionQuiet`): while no poll is slow, the interval belongs to the one
  poll that is busy, and a used code has its result or the poll that will set it.  While GitHub's
  answers arrive, one token at most is honoured: the stored one, or the one that a poll or a request
  is about to store; nobody holds an honoured token that is not stored.
- *Capability runs* (`CapabilityQuiet`): without an overlap one caller works on the key, nobody has an
  answer before the run is completed, and afterwards all have the stored one.
- *Composition*: a step of `MCServices` is a step of one part and leaves the variables of the others
  alone.  What is proved of `CliSessions` by itself therefore holds of the model that TLC runs.

Not proved, and left to TLC: the liveness properties (`RowsMoveOn`, `CallbacksMoveOn`,
`EveryEventProjected`, `OutcomesAreAnnounced`, `JobsEnd`, `IncidentSettles`, `RowSettles`), since
fairness is out of the prover's reach.  Every invariant and every action property of the passing
runs is a theorem.

## 5. Plan

Done: the queue, the outbox and its promise, the event log, the delivery sweep, the review queue, the
nine smaller services, and the theorems above.  Next, in this order:

1. `Digests`: one message per period and destination from overlapping ticks.
2. The pull-request half of `GithubMirror`, which follows the pattern of its issues, and the
   composition of the mirror with `DatabaseRecovery`.
3. `Incidents` beside `TransportPromise`, to replace what its `outbox` says of the transport.
4. `TelemetryQueue`, `Archive` and the statistics audit: bounded queues and resumable jobs.

Theorems to come: that the queue of `Incidents` is what `TransportPromise` allows, once item 3 is
done; and which faults each of `Exclusive` and `DeliveredIsFinal` survives one by one, "send" with an
idle consumer for instance, instead of all that `Timely` excludes together.
