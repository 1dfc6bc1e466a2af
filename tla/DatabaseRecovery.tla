--------------------------- MODULE DatabaseRecovery ---------------------------
(***************************************************************************)
(* Recovery of the database from GitHub, one repository in each step:      *)
(* src/services/scheduler/src/database-recovery.js.                        *)
(*                                                                         *)
(* One request, the oldest that is not finished.  The cron tick and the    *)
(* endpoint each take steps, which overlap.  A job whose step is gone      *)
(* nobody takes over: its request is never completed, and later requests   *)
(* wait for ever.                                                          *)
(***************************************************************************)
EXTENDS Naturals

CONSTANTS
    Steps,            \* overlapping invocations of runDatabaseRecoveryStep
    Repos,            \* repositories the installations can see
    NoRepo

VARIABLES
    request, job,     \* the status of the request, and of its repositories
    step,             \* what a step is at: the phase, its repository, what it counted
    initialized,      \* whether the request was initialised
    twice             \* whether repositories were added to it after that

vars == <<request, job, step, initialized, twice>>

Resting == [phase |-> "idle", repo |-> NoRepo, drained |-> FALSE]

Unfinished == {"pending", "running"}

Init ==
    /\ request = "pending"
    /\ job = [repo \in Repos |-> "absent"]
    /\ step = [s \in Steps |-> Resting]
    /\ initialized = FALSE
    /\ twice = FALSE

Goes(s, phase) == step' = [step EXCEPT ![s].phase = phase]

Ends(s) == step' = [step EXCEPT ![s] = Resting]

Pick(s) ==
    /\ step[s].phase = "idle"
    /\ request \in Unfinished
    /\ Goes(s, IF request = "pending" THEN "initializing" ELSE "choosing")
    /\ UNCHANGED <<request, job, initialized, twice>>

\* A statement for each repository; a job that is there already is left as it is.
Insert(s) ==
    /\ step[s].phase = "initializing"
    /\ \E repo \in Repos :
           /\ job[repo] = "absent"
           /\ job' = [job EXCEPT ![repo] = "pending"]
    /\ twice' = initialized
    /\ UNCHANGED <<request, step, initialized>>

\* The repositories that a token can see may have become fewer.
Initialize(s) ==
    /\ step[s].phase = "initializing"
    /\ request' = "running"
    /\ initialized' = TRUE
    /\ Goes(s, "choosing")
    /\ UNCHANGED <<job, twice>>

\* GitHub refuses.  By id: another step may have initialised the request meanwhile.
InitializeFails(s) ==
    /\ step[s].phase = "initializing"
    /\ request' = "failed"
    /\ Ends(s)
    /\ UNCHANGED <<job, initialized, twice>>

Choose(s) ==
    /\ step[s].phase = "choosing"
    /\ IF \E repo \in Repos : job[repo] = "pending"
       THEN \E repo \in Repos :
                /\ job[repo] = "pending"
                /\ step' = [step EXCEPT ![s].phase = "chosen", ![s].repo = repo]
       ELSE Goes(s, "counting")
    /\ UNCHANGED <<request, job, initialized, twice>>

\* Another step may have chosen the job too: that the UPDATE found nothing goes unnoticed.
Start(s) ==
    /\ step[s].phase = "chosen"
    /\ job' = IF job[step[s].repo] = "pending" THEN [job EXCEPT ![step[s].repo] = "running"] ELSE job
    /\ Goes(s, "syncing")
    /\ UNCHANGED <<request, initialized, twice>>

\* The repository was synchronised, or its synchronisation threw.
Finish(s) ==
    /\ step[s].phase = "syncing"
    /\ \E result \in {"done", "failed"} : job' = [job EXCEPT ![step[s].repo] = result]
    /\ Goes(s, "counting")
    /\ UNCHANGED <<request, initialized, twice>>

\* Slip: a job that another step runs does not count.
RemainingPending == {repo \in Repos : job[repo] = "pending"}

Remaining == {repo \in Repos : job[repo] \in Unfinished}

\* finishIfDrained: a SELECT, and an UPDATE that goes by what it found.
CountJobs(s) ==
    /\ step[s].phase = "counting"
    /\ step' = [step EXCEPT ![s].phase = "closing", ![s].drained = (Remaining = {})]
    /\ UNCHANGED <<request, job, initialized, twice>>

Close(s) ==
    /\ step[s].phase = "closing"
    /\ request' = IF step[s].drained THEN "completed" ELSE request
    /\ Ends(s)
    /\ UNCHANGED <<job, initialized, twice>>

\* D1 fails outside the try, or the isolate dies.
Die(s) ==
    /\ step[s].phase # "idle"
    /\ Ends(s)
    /\ UNCHANGED <<request, job, initialized, twice>>

Next ==
    \E s \in Steps :
        \/ Pick(s) \/ Insert(s) \/ Initialize(s) \/ InitializeFails(s) \/ Choose(s) \/ Start(s)
        \/ Finish(s) \/ CountJobs(s) \/ Close(s) \/ Die(s)

Spec == Init /\ [][Next]_vars

-----------------------------------------------------------------------------
TypeOK ==
    /\ request \in Unfinished \cup {"completed", "failed"}
    /\ job \in [Repos -> Unfinished \cup {"absent", "done", "failed"}]
    /\ step \in [Steps -> [phase : {"idle", "initializing", "choosing", "chosen", "syncing", "counting", "closing"},
                           repo : Repos \cup {NoRepo}, drained : BOOLEAN]]
    /\ initialized \in BOOLEAN
    /\ twice \in BOOLEAN

\* A request that shows as completed has no repository left to recover, however its
\* steps overlapped and died, unless a second step still added repositories to it when
\* a first had it running.
CompletedIsDrained ==
    request = "completed" /\ ~twice => \A repo \in Repos : job[repo] \notin Unfinished
=============================================================================
