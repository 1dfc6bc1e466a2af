------------------------------ MODULE Incidents ------------------------------
(***************************************************************************)
(* The GitHub issue of a recurring incident: stageGithubIncident in        *)
(* src/services/cue/src/github-incidents.ts, the background task, callback *)
(* and recovery of src/functions/lib/noxcue-github.js, and what the GitHub *)
(* transport does with the commands they publish.                          *)
(*                                                                         *)
(* One row of cue_github_incidents.  Its occurrences overlap with the      *)
(* workers that report them and with the people who close its issue.  Ten  *)
(* minutes, after which the recovery sweep queues the row again, may pass  *)
(* between any two steps.                                                  *)
(***************************************************************************)
EXTENDS Naturals

CONSTANTS
    Workers,          \* overlapping invocations of the task's handler
    MaxOccurrences,   \* bound: occurrences reported
    MaxTasks,         \* bound: copies of the task that wait at once
    MaxFaults         \* bound: failures of any kind

VARIABLES
    occurrences, processing, status,   \* occurrence_count, processing_occurrence_count, status
    number, previous,                  \* github_issue_number, previous_issue_number; 0 is NULL
    issues,           \* the issues of the repository that carry the incident's marker
    tasks,            \* waiting copies of the task
    at,               \* what a worker is at, and the command and payload it has made
    outbox,           \* the commands of the incident by idempotency key, with their callbacks
    faults, stranded, overtaken, late

rowVars == <<occurrences, processing, status, number, previous>>
causes  == <<faults, stranded, overtaken, late>>
vars    == <<rowVars, issues, tasks, at, outbox, causes>>

\* A create command makes one issue at most, which has the command's number here.
Numbers == 1 .. MaxOccurrences
Kinds   == {"create", "update"}
Keys    == Numbers \X Kinds

Idle == [phase |-> "idle", key |-> <<0, "create">>, issue |-> 0, previous |-> 0]

\* A worker that has only to end what it began.
Ending(phase) == [Idle EXCEPT !.phase = phase]

\* The row is the worker's: it has claimed it and the command has no callback from it yet.
Working == {"claimed", "found", "stored"}

Unpublished == [state |-> "absent", issue |-> 0, previous |-> 0, callback |-> "none"]

Init ==
    /\ occurrences = 0
    /\ processing = 0
    /\ status = "absent"
    /\ number = 0
    /\ previous = 0
    /\ issues = [n \in Numbers |-> "absent"]
    /\ tasks = 0
    /\ at = [w \in Workers |-> Idle]
    /\ outbox = [key \in Keys |-> Unpublished]
    /\ faults = 0
    /\ stranded = FALSE
    /\ overtaken = FALSE
    /\ late = FALSE

Faulty ==
    /\ faults < MaxFaults
    /\ faults' = faults + 1

\* TASK_QUEUE.send.  A copy beyond the bound would find the row claimed or settled.
Queued == tasks' = IF tasks < MaxTasks THEN tasks + 1 ELSE tasks

\* findIssueByBodyMarker finds one of these, whatever its state.
Marked == {n \in Numbers : issues[n] # "absent"}

-----------------------------------------------------------------------------
(* The reports, and the people who read the issues *)

StagedStatus == IF status = "processing" THEN "processing" ELSE "pending"

\* stageGithubIncident; a task that cannot be sent is left to recovery.
Occur ==
    /\ occurrences < MaxOccurrences
    /\ occurrences' = occurrences + 1
    /\ status' = StagedStatus
    /\ \/ Queued /\ UNCHANGED faults
       \/ Faulty /\ UNCHANGED tasks
    /\ UNCHANGED <<processing, number, previous, issues, at, outbox, stranded, overtaken, late>>

Close(n) ==
    /\ issues[n] = "open"
    /\ issues' = [issues EXCEPT ![n] = "closed"]
    /\ UNCHANGED <<rowVars, tasks, at, outbox, causes>>

-----------------------------------------------------------------------------
(* The background task: createOrUpdateNoxCueGitHubIssue *)

Claimable == status \in {"pending", "failed"}

Claim(w) ==
    /\ at[w].phase = "idle"
    /\ tasks > 0
    /\ tasks' = tasks - 1
    /\ IF Claimable
       THEN /\ status' = "processing"
            /\ processing' = occurrences
            /\ at' = [at EXCEPT ![w].phase = "claimed"]
       ELSE UNCHANGED <<status, processing, at>>
    /\ UNCHANGED <<occurrences, number, previous, issues, outbox, causes>>

\* markDisabled: the project's issues, the environment's or the service are off.
Disable(w) ==
    /\ at[w].phase = "claimed"
    /\ Faulty
    /\ status' = "disabled"
    /\ at' = [at EXCEPT ![w] = Idle]
    /\ UNCHANGED <<occurrences, processing, number, previous, issues, tasks, outbox, stranded, overtaken, late>>

Finds(w, kind, issue, prev) ==
    at' = [at EXCEPT ![w] = [phase |-> "found", key |-> <<processing, kind>>,
                             issue |-> issue, previous |-> prev]]

\* processIncident reads the row, and gets the recorded issue or looks for the marker.  An
\* open issue is updated; if it is closed, or there is none, another one is asked for.
Look(w) ==
    /\ at[w].phase = "claimed"
    /\ \/ \E n \in IF number # 0 THEN {number} ELSE Marked :
              IF issues[n] = "open" THEN Finds(w, "update", n, previous)
                                    ELSE Finds(w, "create", 0, n)
       \/ number = 0 /\ Marked = {} /\ Finds(w, "create", 0, previous)
    /\ UNCHANGED <<rowVars, issues, tasks, outbox, causes>>

\* publishGitHubTransport stores the command, unless its key is there already.
Store(w) ==
    LET key == at[w].key IN
    /\ at[w].phase = "found"
    /\ outbox' = IF outbox[key].state # "absent" THEN outbox
                 ELSE [outbox EXCEPT ![key].state = "queued", ![key].issue = at[w].issue]
    /\ at' = [at EXCEPT ![w].phase = "stored"]
    /\ UNCHANGED <<rowVars, issues, tasks, causes>>

\* It stores the callback, unless the command has one.  One that was applied before is not
\* applied again: the row keeps the status that the claim gave it.
Attach(w) ==
    LET key == at[w].key IN
    /\ at[w].phase = "stored"
    /\ outbox' = IF outbox[key].callback # "none" THEN outbox
                 ELSE [outbox EXCEPT ![key].callback = "due", ![key].previous = at[w].previous]
    /\ at' = [at EXCEPT ![w] = Ending("published")]
    /\ stranded' = (stranded \/ (outbox[key].callback \in {"told", "done"} /\ status = "processing"))
    /\ UNCHANGED <<rowVars, issues, tasks, faults, overtaken, late>>

\* The command is queued, and an update is followed by a comment of its own.
Leave(w) ==
    /\ at[w].phase = "published"
    /\ at' = [at EXCEPT ![w] = Idle]
    /\ UNCHANGED <<rowVars, issues, tasks, outbox, causes>>

\* Slip: an occurrence that came while the row was processed is forgotten.
CompletedStatusOpen == "open"

CompletedStatus == IF occurrences > processing THEN "pending" ELSE "open"

\* completeIncident: its batch,
Completes(issue, prev) ==
    /\ status' = CompletedStatus
    /\ number' = issue
    /\ previous' = prev
    /\ UNCHANGED <<occurrences, processing>>

\* and the task that it sends, after reading the row again, when there is more to report.
SendsMore == IF status = "pending" THEN Queued ELSE UNCHANGED tasks

\* The issue was found open, and was updated a moment ago.
NothingDue(w) ==
    /\ at[w].phase = "found"
    /\ at[w].key[2] = "update"
    /\ Completes(at[w].issue, at[w].previous)
    /\ at' = [at EXCEPT ![w] = Ending("completed")]
    /\ UNCHANGED <<issues, tasks, outbox, causes>>

Completed(w) ==
    /\ at[w].phase = "completed"
    /\ SendsMore
    /\ at' = [at EXCEPT ![w] = Idle]
    /\ UNCHANGED <<rowVars, issues, outbox, causes>>

\* GitHub, D1, the queue or the service binding fails: the row is marked, by id, and the
\* error is thrown on, so that the queue delivers the copy again unless it was the last
\* time.  The callback may be due by then, or the row another worker's.
Throw(w) ==
    /\ at[w].phase # "idle"
    /\ Faulty
    /\ status' = "failed"
    /\ late' = (late \/ at[w].phase = "published" \/ (at[w].phase = "completed" /\ status = "processing"))
    /\ at' = [at EXCEPT ![w] = Idle]
    /\ Queued \/ UNCHANGED tasks
    /\ UNCHANGED <<occurrences, processing, number, previous, issues, outbox, stranded, overtaken>>

\* The isolate dies.  Nobody claims a row that is processing, and no sweep looks at it.
Die(w) ==
    /\ at[w].phase # "idle"
    /\ Faulty
    /\ stranded' = (stranded \/ at[w].phase \in Working)
    /\ at' = [at EXCEPT ![w] = Idle]
    /\ Queued \/ UNCHANGED tasks
    /\ UNCHANGED <<rowVars, issues, outbox, overtaken, late>>

\* Slip: only what failed is swept.
RecoverableFailed == status = "failed"

Recoverable == status \in {"pending", "failed"}

\* recoverNoxCueGithubIncidents.
Recover ==
    /\ Recoverable
    /\ Queued
    /\ UNCHANGED <<rowVars, issues, at, outbox, causes>>

-----------------------------------------------------------------------------
(* The transport and its callback *)

\* deliverGitHubTransport.  An update has its issue; a create settles for any issue that
\* carries the marker, and goes on if there is none.
Deliver(key) ==
    /\ outbox[key].state = "queued"
    /\ \/ /\ key[2] = "update"
          /\ outbox' = [outbox EXCEPT ![key].state = "delivered"]
       \/ /\ key[2] = "create"
          /\ \E n \in Marked : outbox' = [outbox EXCEPT ![key].state = "delivered", ![key].issue = n]
       \/ /\ key[2] = "create" /\ Marked = {}
          /\ outbox' = [outbox EXCEPT ![key].state = "creating"]
    /\ UNCHANGED <<rowVars, issues, tasks, at, causes>>

\* The issue is created; if the reply is lost, the command is tried again.
Create(key) ==
    /\ outbox[key].state = "creating"
    /\ issues' = [issues EXCEPT ![key[1]] = "open"]
    /\ \/ /\ outbox' = [outbox EXCEPT ![key].state = "delivered", ![key].issue = key[1]]
          /\ UNCHANGED faults
       \/ Faulty /\ outbox' = [outbox EXCEPT ![key].state = "queued"]
    /\ UNCHANGED <<rowVars, tasks, at, stranded, overtaken, late>>

Refuse(key) ==
    /\ outbox[key].state \in {"queued", "creating"}
    /\ Faulty
    /\ outbox' = [outbox EXCEPT ![key].state = "refused"]
    /\ UNCHANGED <<rowVars, issues, tasks, at, stranded, overtaken, late>>

\* finalizeNoxCueGitHubIssue: the callback of a receipt writes the row,
Finalize(key) ==
    /\ outbox[key].callback = "due"
    /\ \/ outbox[key].state = "delivered" /\ Completes(outbox[key].issue, outbox[key].previous)
       \/ /\ outbox[key].state = "refused"
          /\ status' = "failed"
          /\ UNCHANGED <<occurrences, processing, number, previous>>
    /\ outbox' = [outbox EXCEPT ![key].callback = "told"]
    /\ UNCHANGED <<issues, tasks, at, causes>>

\* and sends the task.
Finalized(key) ==
    /\ outbox[key].callback = "told"
    /\ IF outbox[key].state = "delivered" THEN SendsMore ELSE UNCHANGED tasks
    /\ outbox' = [outbox EXCEPT ![key].callback = "done"]
    /\ UNCHANGED <<rowVars, issues, at, causes>>

\* That throws, or its worker dies or outlives the lease: it will be applied again.
FinalizeAgain(key) ==
    /\ outbox[key].callback = "told"
    /\ Faulty
    /\ overtaken' = TRUE
    /\ outbox' = [outbox EXCEPT ![key].callback = "due"]
    /\ UNCHANGED <<rowVars, issues, tasks, at, stranded, late>>

-----------------------------------------------------------------------------
Worker(w) ==
    \/ Claim(w) \/ Disable(w) \/ Look(w) \/ Store(w) \/ Attach(w) \/ Leave(w)
    \/ NothingDue(w) \/ Completed(w) \/ Throw(w) \/ Die(w)

Transport(key) ==
    \/ Deliver(key) \/ Create(key) \/ Refuse(key)
    \/ Finalize(key) \/ Finalized(key) \/ FinalizeAgain(key)

Next ==
    \/ Occur \/ Recover
    \/ \E n \in Numbers : Close(n)
    \/ \E w \in Workers : Worker(w)
    \/ \E key \in Keys : Transport(key)

Spec == Init /\ [][Next]_vars

\* What goes on by itself: the handler of a task, and the transport.
Handles ==
    \E w \in Workers :
        Claim(w) \/ Look(w) \/ Store(w) \/ Attach(w) \/ Leave(w) \/ NothingDue(w) \/ Completed(w)
Delivers == \E key \in Keys : Deliver(key) \/ Create(key) \/ Finalize(key) \/ Finalized(key)

-----------------------------------------------------------------------------
TypeOK ==
    /\ occurrences \in 0 .. MaxOccurrences
    /\ processing \in 0 .. occurrences
    /\ status \in {"absent", "pending", "processing", "failed", "open", "disabled"}
    /\ {number, previous} \subseteq Numbers \cup {0}
    /\ issues \in [Numbers -> {"absent", "open", "closed"}]
    /\ tasks \in 0 .. MaxTasks
    /\ at \in [Workers -> [phase : Working \cup {"idle", "published", "completed"},
                           key : (Numbers \cup {0}) \X Kinds,
                           issue : Numbers \cup {0}, previous : Numbers \cup {0}]]
    /\ outbox \in [Keys -> [state : {"absent", "queued", "creating", "delivered", "refused"},
                            issue : Numbers \cup {0}, previous : Numbers \cup {0},
                            callback : {"none", "due", "told", "done"}]]
    /\ faults \in 0 .. MaxFaults
    /\ {stranded, overtaken, late} \subseteq BOOLEAN

\* An incident that shows as open has reported every occurrence it had when it was last
\* claimed, none came since, nobody works on it and no callback will write it, whatever
\* overlapped and failed.  The exceptions: a callback was applied twice, or a handler threw
\* when its command had a callback already, or when its row was already another's.
OpenIsUpToDate ==
    status = "open" /\ ~overtaken /\ ~late =>
        /\ processing = occurrences
        /\ \A w \in Workers : at[w].phase \notin Working
        /\ \A key \in Keys : outbox[key].callback # "due"

\* An incident that waits, failed or is being worked on comes to rest, unless it was
\* stranded: a worker died with its claim, or a retry of the same occurrences found that
\* its command was settled before, refused for good or followed by an error.
IncidentSettles ==
    status \in {"pending", "failed", "processing"}
        ~> (status \in {"open", "disabled"} \/ stranded \/ overtaken)

\* What services/cue/README.md says: a recurrence after human closure creates a new
\* linked issue.  A create command that was sent because an issue was found closed does
\* not come back with that issue.
RecurrenceGetsANewIssue ==
    \A key \in Keys :
        key[2] = "create" /\ outbox[key].state = "delivered" /\ outbox[key].previous # 0
            => outbox[key].issue # outbox[key].previous
=============================================================================
