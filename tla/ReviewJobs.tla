----------------------------- MODULE ReviewJobs -----------------------------
(***************************************************************************)
(* The review job queue: src/functions/lib/review-jobs.js, the webhook     *)
(* that fills it and the /api/review endpoints that runners poll.          *)
(*                                                                         *)
(* One pull request of a repository that is enabled for review.  Jobs are  *)
(* rows of review_jobs, one per head commit.  Webhook deliveries overlap   *)
(* and arrive in any order; runners live outside and may die.              *)
(***************************************************************************)
EXTENDS Naturals

CONSTANTS
    MaxHead,          \* bound: heads pushed, numbered in the order of their pushes
    Webhooks,         \* overlapping invocations of the webhook
    Runners,
    NoRunner,
    MaxAttempts,      \* MAX_ATTEMPTS
    MaxRedeliveries,  \* bound: webhooks that GitHub delivers again
    MaxDeaths         \* bound: runners and invocations that die

ASSUME ReviewAssumption ==
    /\ MaxHead \in Nat
    /\ NoRunner \notin Runners
    /\ MaxAttempts \in Nat \ {0}
    /\ MaxRedeliveries \in Nat
    /\ MaxDeaths \in Nat

VARIABLES
    head, draft, open,     \* the pull request on GitHub; head is 0 before it is opened
    sent, waiting,         \* webhooks GitHub has sent, and those not handled yet
    status, attempts, claimedBy,   \* review_jobs
    inserting,             \* inserting[w]: the head webhook w is about to insert, or 0
    phase, job,            \* what a runner is at, and the head it claimed, or 0
    redeliveries, deaths

pullVars   == <<head, draft, open>>
hookVars   == <<sent, waiting>>
jobVars    == <<status, attempts, claimedBy>>
runnerVars == <<phase, job>>
counters   == <<redeliveries, deaths>>
vars == <<pullVars, hookVars, jobVars, inserting, runnerVars, counters>>

Heads  == 1 .. MaxHead
Active == {"queued", "running"}
Ended  == {"completed", "failed", "superseded", "cancelled"}

Actions  == {"opened", "synchronize", "ready_for_review", "closed"}
Payloads == [action : Actions, head : Heads, draft : BOOLEAN]

Init ==
    /\ head = 0
    /\ draft \in BOOLEAN
    /\ open = TRUE
    /\ sent = {}
    /\ waiting = {}
    /\ status = [h \in Heads |-> "absent"]
    /\ attempts = [h \in Heads |-> 0]
    /\ claimedBy = [h \in Heads |-> NoRunner]
    /\ inserting = [w \in Webhooks |-> 0]
    /\ phase = [r \in Runners |-> "idle"]
    /\ job = [r \in Runners |-> 0]
    /\ redeliveries = 0
    /\ deaths = 0

Dies ==
    /\ deaths < MaxDeaths
    /\ deaths' = deaths + 1

-----------------------------------------------------------------------------
(* GitHub *)

Sends(action, h, isDraft) ==
    LET payload == [action |-> action, head |-> h, draft |-> isDraft]
    IN  sent' = sent \cup {payload} /\ waiting' = waiting \cup {payload}

Push ==
    /\ open
    /\ head < MaxHead
    /\ head' = head + 1
    /\ Sends(IF head = 0 THEN "opened" ELSE "synchronize", head + 1, draft)
    /\ UNCHANGED <<draft, open, jobVars, inserting, runnerVars, counters>>

MarkReady ==
    /\ open /\ draft /\ head > 0
    /\ draft' = FALSE
    /\ Sends("ready_for_review", head, FALSE)
    /\ UNCHANGED <<head, open, jobVars, inserting, runnerVars, counters>>

Close ==
    /\ open /\ head > 0
    /\ open' = FALSE
    /\ Sends("closed", head, draft)
    /\ UNCHANGED <<head, draft, jobVars, inserting, runnerVars, counters>>

Redeliver(payload) ==
    /\ payload \in sent \ waiting
    /\ redeliveries < MaxRedeliveries
    /\ redeliveries' = redeliveries + 1
    /\ waiting' = waiting \cup {payload}
    /\ UNCHANGED <<pullVars, sent, jobVars, inserting, runnerVars, deaths>>

-----------------------------------------------------------------------------
(* The webhook *)

Handles(payload) ==
    /\ payload \in waiting
    /\ waiting' = waiting \ {payload}
    /\ UNCHANGED <<pullVars, sent, runnerVars, counters>>

\* Active jobs of these heads end like this.
Ends(heads, how) ==
    /\ status' = [h \in Heads |-> IF h \in heads /\ status[h] \in Active THEN how ELSE status[h]]
    /\ UNCHANGED <<attempts, claimedBy>>

\* enqueueReviewJob, its first statement: every other head is taken for an older one.
Supersede(w, payload) ==
    /\ inserting[w] = 0
    /\ payload.action # "closed"
    /\ ~payload.draft \/ payload.action = "ready_for_review"
    /\ Handles(payload)
    /\ Ends(Heads \ {payload.head}, "superseded")
    /\ inserting' = [inserting EXCEPT ![w] = payload.head]

\* A draft is not reviewed.
Ignore(payload) ==
    /\ payload.action \notin {"closed", "ready_for_review"}
    /\ payload.draft
    /\ Handles(payload)
    /\ UNCHANGED <<jobVars, inserting>>

\* Slip: off by one.
RetriableLate(h) == status[h] = "failed" /\ attempts[h] <= MaxAttempts

\* ON CONFLICT ... WHERE.
Retriable(h) == status[h] = "failed" /\ attempts[h] < MaxAttempts

\* Its second statement, some time later.
Insert(w) ==
    LET h == inserting[w] IN
    /\ h # 0
    /\ status' = IF status[h] = "absent" \/ Retriable(h)
                 THEN [status EXCEPT ![h] = "queued"] ELSE status
    /\ inserting' = [inserting EXCEPT ![w] = 0]
    /\ UNCHANGED <<pullVars, hookVars, attempts, claimedBy, runnerVars, counters>>

\* It throws, which is recorded but not retried.
InsertFails(w) ==
    /\ inserting[w] # 0
    /\ Dies
    /\ inserting' = [inserting EXCEPT ![w] = 0]
    /\ UNCHANGED <<pullVars, hookVars, jobVars, runnerVars, redeliveries>>

Cancel(payload) ==
    /\ payload.action = "closed"
    /\ Handles(payload)
    /\ Ends(Heads, "cancelled")
    /\ UNCHANGED inserting

-----------------------------------------------------------------------------
(* The runners and their endpoints *)

\* claimed_at is strftime('%Y-%m-%dT%H:%M:%Z', ...), and so is what it is compared
\* with.  SQLite knows no %Z and returns NULL, and a comparison with NULL selects no row.
ClaimedLongAgo(h) == FALSE

\* Slip: a running job is as good as a queued one.
ClaimableWhileRunning(h) == status[h] \in Active

Claimable(h) == status[h] = "queued" \/ (status[h] = "running" /\ ClaimedLongAgo(h))

\* claimReviewJob.  created_at is NULL for the same reason, so any of the jobs may be
\* the one that ORDER BY created_at LIMIT 1 selects.
Claim(r, h) ==
    /\ phase[r] = "idle"
    /\ Claimable(h)
    /\ status' = [status EXCEPT ![h] = "running"]
    /\ attempts' = [attempts EXCEPT ![h] = @ + 1]
    /\ claimedBy' = [claimedBy EXCEPT ![h] = r]
    /\ phase' = [phase EXCEPT ![r] = "minting"]
    /\ job' = [job EXCEPT ![r] = h]
    /\ UNCHANGED <<pullVars, hookVars, inserting, counters>>

Rests(r) ==
    /\ phase' = [phase EXCEPT ![r] = "idle"]
    /\ job' = [job EXCEPT ![r] = 0]

\* The claim endpoint has a token and answers.
Minted(r) ==
    /\ phase[r] = "minting"
    /\ phase' = [phase EXCEPT ![r] = "reviewing"]
    /\ UNCHANGED <<pullVars, hookVars, jobVars, inserting, job, counters>>

\* Slip: a job whose token cannot be minted is left alone.
MintFailsQuietly(r) ==
    /\ phase[r] = "minting"
    /\ Rests(r)
    /\ UNCHANGED <<pullVars, hookVars, jobVars, inserting, counters>>

\* failReviewJob.
MintFails(r) ==
    /\ phase[r] = "minting"
    /\ status' = [h \in Heads |-> IF h = job[r] /\ status[h] = "running" THEN "failed" ELSE status[h]]
    /\ Rests(r)
    /\ UNCHANGED <<pullVars, hookVars, attempts, claimedBy, inserting, counters>>

\* Slip: whatever became of the job, the runner's word is taken.
OwnsAlways(r, h, named) == named => claimedBy[h] = r

\* A report that names no runner is believed of any running job.
Owns(r, h, named) == status[h] = "running" /\ (named => claimedBy[h] = r)

\* Slip: whatever word the runner reports is stored.
OutcomesUnchecked == {"completed", "failed", "approved"}

\* TERMINAL_STATUSES of the endpoint; the column itself takes any word.
Outcomes == {"completed", "failed"}

\* completeReviewJob; a runner that has lost the job is told so.
Complete(r) ==
    /\ phase[r] = "reviewing"
    /\ \E outcome \in Outcomes, named \in BOOLEAN :
           status' = [h \in Heads |-> IF h = job[r] /\ Owns(r, h, named) THEN outcome ELSE status[h]]
    /\ Rests(r)
    /\ UNCHANGED <<pullVars, hookVars, attempts, claimedBy, inserting, counters>>

RunnerDies(r) ==
    /\ phase[r] # "idle"
    /\ Dies
    /\ Rests(r)
    /\ UNCHANGED <<pullVars, hookVars, jobVars, inserting, redeliveries>>

-----------------------------------------------------------------------------
Webhook(w) ==
    \/ \E payload \in waiting : Supersede(w, payload)
    \/ Insert(w) \/ InsertFails(w)

Runner(r) ==
    \/ \E h \in Heads : Claim(r, h)
    \/ Minted(r) \/ MintFails(r) \/ Complete(r) \/ RunnerDies(r)

Next ==
    \/ Push \/ MarkReady \/ Close
    \/ \E payload \in sent : Redeliver(payload) \/ Ignore(payload) \/ Cancel(payload)
    \/ \E w \in Webhooks : Webhook(w)
    \/ \E r \in Runners : Runner(r)

Spec == Init /\ [][Next]_vars

\* Runners poll, and end their reviews unless they die.
Fairness ==
    /\ \A h \in Heads : SF_vars(\E r \in Runners : Claim(r, h))
    /\ \A r \in Runners : WF_vars(Minted(r) \/ MintFails(r) \/ Complete(r))

FairSpec == Spec /\ Fairness

-----------------------------------------------------------------------------
(* Properties *)

TypeOK ==
    /\ head \in 0 .. MaxHead
    /\ draft \in BOOLEAN
    /\ open \in BOOLEAN
    /\ sent \subseteq Payloads
    /\ waiting \subseteq sent
    /\ status \in [Heads -> {"absent"} \cup Active \cup Ended]
    /\ attempts \in [Heads -> Nat]
    /\ claimedBy \in [Heads -> Runners \cup {NoRunner}]
    /\ inserting \in [Webhooks -> 0 .. MaxHead]
    /\ phase \in [Runners -> {"idle", "minting", "reviewing"}]
    /\ job \in [Runners -> 0 .. MaxHead]
    /\ \A r \in Runners : phase[r] = "idle" <=> job[r] = 0
    /\ redeliveries \in Nat
    /\ deaths \in Nat

\* A job is claimed MAX_ATTEMPTS times at most, however often the webhook that requeues
\* it is delivered.
AttemptsCapped == \A h \in Heads : attempts[h] <= MaxAttempts

\* A job that was completed, superseded or cancelled stays so: neither a redelivered
\* webhook nor a runner that reports late brings it back or changes its outcome.
EndedIsFinal ==
    [][\A h \in Heads : status[h] \in Ended \ {"failed"} => status'[h] = status[h]]_vars

\* No head is reviewed by two runners at once: a job that is queued again after it was
\* claimed has been given up by the runner that had it.
OneReviewer == \A r, s \in Runners : job[r] # 0 /\ job[r] = job[s] => r = s

\* Unless a runner dies, a job that was queued ends.
JobsEnd == \A h \in Heads : status[h] \in Active ~> status[h] \in Ended \/ deaths > 0

-----------------------------------------------------------------------------
(* What a comment of review-jobs.js says and the code does not do *)

Orphaned(h) ==
    status[h] = "running" /\ \A r \in Runners : job[r] # h

\* "the stale-running arm reclaims jobs whose runner died mid-review"
OrphansAreReclaimed == \A h \in Heads : Orphaned(h) ~> ~Orphaned(h)
=============================================================================
