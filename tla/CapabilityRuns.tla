---------------------------- MODULE CapabilityRuns ----------------------------
(***************************************************************************)
(* Ids of one idempotency key, as the connection service runs them:   *)
(* src/functions/lib/connection-capability-executor.ts.                    *)
(*                                                                         *)
(* The row remembers a hash of the whole command, its id included, so that *)
(* only the command that came first is ever run; a caller that repeats it  *)
(* under another id is told that the key was used.  The lease is compared  *)
(* for other ids alone: while one call runs the command, a repeated one    *)
(* runs it too.                                                            *)
(***************************************************************************)
EXTENDS Naturals, FiniteSets

CONSTANTS
    Callers,          \* overlapping calls
    Ids,         \* ids of equal commands
    NoCommand,
    MaxRuns           \* bound: requests to the provider, which the model numbers

VARIABLES
    id, status, receipt,   \* the row: its command, "processing", "failed" or "completed", its answer
    at,                    \* what a caller is at, and the provider's answer
    runs,                  \* requests to the provider
    told,                  \* the answers that callers got
    overlapped

vars == <<id, status, receipt, at, runs, told, overlapped>>

Resting == [phase |-> "idle", answer |-> 0]

Init ==
    /\ id = NoCommand
    /\ status = "absent"
    /\ receipt = 0
    /\ at = [c \in Callers |-> Resting]
    /\ runs = 0
    /\ told = {}
    /\ overlapped = FALSE

Goes(c, phase) == at' = [at EXCEPT ![c].phase = phase]

Ends(c) == at' = [at EXCEPT ![c] = Resting]

Others(c) == {d \in Callers \ {c} : at[d].phase # "idle"}

\* claimRun inserts the row, unless there is one, and reads it.
Claim(c, command) ==
    /\ at[c].phase = "idle"
    /\ status = "absent" \/ id = command
    /\ status # "completed"
    /\ id' = command
    /\ status' = IF status = "absent" THEN "processing" ELSE status
    /\ at' = [at EXCEPT ![c] = [phase |-> IF status = "failed" THEN "reclaiming" ELSE "running",
                                answer |-> 0]]
    /\ overlapped' = (overlapped \/ Others(c) # {})
    /\ UNCHANGED <<receipt, runs, told>>

\* The command was run: its receipt is the answer.
Repeat(c, command) ==
    /\ at[c].phase = "idle"
    /\ id = command
    /\ status = "completed"
    /\ told' = told \cup {receipt}
    /\ UNCHANGED <<id, status, receipt, at, runs, overlapped>>

\* A failed run is taken up again, by the first who comes.
Reclaim(c) ==
    /\ at[c].phase = "reclaiming"
    /\ IF status = "failed"
       THEN status' = "processing" /\ Goes(c, "running")
       ELSE Ends(c) /\ UNCHANGED status
    /\ UNCHANGED <<id, receipt, runs, told, overlapped>>

\* executeAi; a command for GitHub or Slack goes to their outbox, whose key it shares.
Run(c) ==
    /\ at[c].phase = "running"
    /\ runs < MaxRuns
    /\ runs' = runs + 1
    /\ at' = [at EXCEPT ![c].phase = "ran", ![c].answer = runs']
    /\ UNCHANGED <<id, status, receipt, told, overlapped>>

\* Slip: the receipt is stored and the run goes on being processed.
FinishedProcessing == "processing"

Finished == "completed"

\* finishRun, by id.
Finish(c) ==
    /\ at[c].phase = "ran"
    /\ status' = Finished
    /\ receipt' = at[c].answer
    /\ told' = told \cup {at[c].answer}
    /\ Ends(c)
    /\ UNCHANGED <<id, runs, overlapped>>

\* failRun, by id: the provider or D1 failed.
Fail(c) ==
    /\ at[c].phase \in {"running", "ran"}
    /\ status' = "failed"
    /\ Ends(c)
    /\ UNCHANGED <<id, receipt, runs, told, overlapped>>

Die(c) ==
    /\ at[c].phase # "idle"
    /\ Ends(c)
    /\ UNCHANGED <<id, status, receipt, runs, told, overlapped>>

Next ==
    \E c \in Callers :
        \/ \E command \in Ids : Claim(c, command) \/ Repeat(c, command)
        \/ Reclaim(c) \/ Run(c) \/ Finish(c) \/ Fail(c) \/ Die(c)

Spec == Init /\ [][Next]_vars

-----------------------------------------------------------------------------
TypeOK ==
    /\ id \in Ids \cup {NoCommand}
    /\ status \in {"absent", "processing", "failed", "completed"}
    /\ receipt \in 0 .. MaxRuns
    /\ at \in [Callers -> [phase : {"idle", "reclaiming", "running", "ran"},
                           answer : 0 .. MaxRuns]]
    /\ runs \in 0 .. MaxRuns
    /\ told \subseteq 1 .. MaxRuns
    /\ overlapped \in BOOLEAN

\* All callers of a key get the same answer, whatever failed before the first of them
\* got it, unless a command was sent again while it ran.
OneAnswerPerKey == Cardinality(told) <= 1 \/ overlapped
=============================================================================
