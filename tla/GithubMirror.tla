----------------------------- MODULE GithubMirror -----------------------------
(***************************************************************************)
(* The mirror of a repository's issues: webhooks, which write what GitHub  *)
(* tells of one issue, and the synchronisation of the whole list           *)
(* (src/functions/lib/github-sync.js), which a cron tick, the task queue,  *)
(* the database recovery or a person starts.                               *)
(*                                                                         *)
(* One issue.  GitHub's copy has a version; the list says how a version    *)
(* compares with the cursor, which is the time the last run ended at.      *)
(***************************************************************************)
EXTENDS Naturals

CONSTANTS
    Runs,             \* overlapping runs of the synchronisation
    MaxVersions       \* bound: changes of the issue before it is deleted

VARIABLES
    version,          \* what GitHub has: 0 before the issue exists
    changed,          \* whether GitHub's copy is newer than the cursor
    cursor,           \* whether sync_state has a last_synced
    hooks,            \* webhooks on their way, by the version they tell of
    row,              \* the mirrored version; 0 if there is no row
    run,              \* what a run is at, whether it takes the whole list, what it got
    seen,             \* the newest version that was ever mirrored
    overtaken, reordered, unseen, capped

causes == <<overtaken, reordered, unseen, capped>>
vars   == <<version, changed, cursor, hooks, row, run, seen, causes>>

Gone     == MaxVersions + 1
Versions == 0 .. Gone
Resting  == [phase |-> "idle", full |-> FALSE, got |-> 0]

\* What a row should hold.
Listed(v) == IF v = Gone THEN 0 ELSE v

Larger(a, b) == IF a > b THEN a ELSE b

Init ==
    /\ version = 0
    /\ changed = FALSE
    /\ cursor = FALSE
    /\ hooks = {}
    /\ row = 0
    /\ run = [r \in Runs |-> Resting]
    /\ seen = 0
    /\ overtaken = FALSE
    /\ reordered = FALSE
    /\ unseen = FALSE
    /\ capped = FALSE

-----------------------------------------------------------------------------
(* GitHub, which is external *)

\* The issue is opened, edited or closed, or it is deleted or transferred.  GitHub sends
\* a webhook once; one that is not taken in is not sent again.
Change ==
    /\ version # Gone
    /\ \E v \in {version + 1, Gone} :
           /\ version = 0 => v = 1
           /\ version' = v
           /\ changed' = (v # Gone)
           /\ \/ hooks' = hooks \cup {v} /\ UNCHANGED unseen
              \/ UNCHANGED hooks /\ unseen' = (unseen \/ v = Gone)
    /\ overtaken' = (overtaken \/ \E r \in Runs : run[r].phase # "idle")
    /\ UNCHANGED <<cursor, row, run, seen, reordered, capped>>

-----------------------------------------------------------------------------
(* The webhook *)

\* upsertIssue, or the DELETE: neither looks at what the row holds.
Hook ==
    \E v \in hooks :
        /\ hooks' = hooks \ {v}
        /\ row' = Listed(v)
        /\ seen' = Larger(seen, v)
        /\ reordered' = (reordered \/ v < seen)
        /\ UNCHANGED <<version, changed, cursor, run, overtaken, unseen, capped>>

-----------------------------------------------------------------------------
(* The synchronisation: syncIssues *)

\* A forced run, or the first, takes the whole list; another what was updated since the
\* cursor.  Fifty pages are read, and the rest of a longer list is not.
Fetch(r) ==
    /\ run[r].phase = "idle"
    /\ \E full \in {TRUE, ~cursor} :
           LET listed == IF full \/ changed THEN Listed(version) ELSE 0 IN
           \E got \in {listed, 0} :
               /\ run' = [run EXCEPT ![r] = [phase |-> "fetched", full |-> full, got |-> got]]
               /\ capped' = (capped \/ got # listed)
    /\ UNCHANGED <<version, changed, cursor, hooks, row, seen, overtaken, reordered, unseen>>

Write(r) ==
    /\ run[r].phase = "fetched"
    /\ row' = IF run[r].got # 0 THEN run[r].got ELSE row
    /\ seen' = Larger(seen, run[r].got)
    /\ run' = [run EXCEPT ![r].phase = IF run[r].full THEN "pruning" ELSE "written"]
    /\ UNCHANGED <<version, changed, cursor, hooks, causes>>

\* Of a whole list: rows that it did not have are deleted.
Prune(r) ==
    /\ run[r].phase = "pruning"
    /\ row' = IF run[r].got = 0 THEN 0 ELSE row
    /\ seen' = IF run[r].got = 0 THEN Larger(seen, version) ELSE seen
    /\ run' = [run EXCEPT ![r].phase = "written"]
    /\ UNCHANGED <<version, changed, cursor, hooks, causes>>

\* The cursor becomes the present time: what changed before is not listed again.  It
\* stays when a run since the cursor found nothing at all.
End(r) ==
    /\ run[r].phase = "written"
    /\ \/ cursor' = TRUE /\ changed' = FALSE
       \/ ~run[r].full /\ run[r].got = 0 /\ UNCHANGED <<cursor, changed>>
    /\ run' = [run EXCEPT ![r] = Resting]
    /\ UNCHANGED <<version, hooks, row, seen, causes>>

\* Slip: a run that fails has moved the cursor.
AfterFailureAdvanced == FALSE

AfterFailure == changed

\* GitHub or D1 fails, or the isolate dies; the next tick starts over.
Fail(r) ==
    /\ run[r].phase # "idle"
    /\ changed' = AfterFailure
    /\ run' = [run EXCEPT ![r] = Resting]
    /\ UNCHANGED <<version, cursor, hooks, row, seen, causes>>

-----------------------------------------------------------------------------
Next ==
    \/ Change \/ Hook
    \/ \E r \in Runs : Fetch(r) \/ Write(r) \/ Prune(r) \/ End(r) \/ Fail(r)

Spec == Init /\ [][Next]_vars

-----------------------------------------------------------------------------
TypeOK ==
    /\ {version, row, seen} \subseteq Versions
    /\ {changed, cursor} \subseteq BOOLEAN
    /\ hooks \subseteq Versions
    /\ run \in [Runs -> [phase : {"idle", "fetched", "pruning", "written"}, full : BOOLEAN, got : Versions]]
    /\ {overtaken, reordered, unseen, capped} \subseteq BOOLEAN

\* The mirror has what GitHub has, or the next run will list it, whichever webhooks are
\* lost and runs fail, unless the issue changed while a run was going on, its webhooks
\* were taken in out of order, that of its deletion was lost, or the list was too long.
MirrorCatchesUp ==
    \/ row = Listed(version)
    \/ changed
    \/ Gone \in hooks
    \/ overtaken \/ reordered \/ unseen \/ capped
=============================================================================
