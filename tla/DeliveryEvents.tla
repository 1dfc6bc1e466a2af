--------------------------- MODULE DeliveryEvents ---------------------------
(***************************************************************************)
(* The sweep that tells the platform event log what became of transport    *)
(* commands: src/functions/lib/transport-delivery-events.ts, beside an     *)
(* outbox of which it knows no more than TransportPromise says.            *)
(*                                                                         *)
(* A lifecycle event is identified by its command and its idempotency key, *)
(* which the log keeps unique, so the log is a set of such pairs.  A row   *)
(* whose status is terminal holds the receipt of that status               *)
(* (TransportOutbox!DeliveredWasPosted), so one phase stands for both.     *)
(***************************************************************************)
EXTENDS Naturals

CONSTANTS Commands, Reopenable, Once, SameMarker,   \* see TransportPromise
          Sweeps,       \* overlapping cron ticks
          MaxEffects    \* bound: provider actions per command

VARIABLES phase, effects,   \* the outbox
          log,              \* lifecycle events in platform_events
          sweeping,         \* sweeping[s]: tick s is in its loop
          plan              \* plan[s]: the events the loop of s has left to publish

Outbox == INSTANCE TransportPromise

outboxVars == <<phase, effects>>
sweepVars  == <<sweeping, plan>>
vars == <<outboxVars, log, sweepVars>>

Keys == {"queued"} \cup Outbox!Outcomes

Init ==
    /\ Outbox!Init
    /\ log = {}
    /\ sweeping = [s \in Sweeps |-> FALSE]
    /\ plan = [s \in Sweeps |-> {}]

OutboxStep ==
    /\ Outbox!Next
    /\ \A c \in Commands : effects'[c] <= MaxEffects
    /\ UNCHANGED <<log, sweepVars>>

Queued(c)     == <<c, "queued">> \in log
Announced(c)  == \E key \in Outbox!Outcomes : <<c, key>> \in log
Settled(c)    == phase[c] \in Outbox!Outcomes

\* Slip: the sweep only looks for commands whose queued event is missing.
UnqueuedOnly(c) == phase[c] # "absent" /\ ~Queued(c)

\* The WHERE clause of the sweep.
Unreported(c) ==
    /\ phase[c] # "absent"
    /\ ~Queued(c) \/ (Settled(c) /\ ~Announced(c))

\* Slip: a row without a terminal status counts as failed.
MissingOrFailed(c) ==
    (IF Queued(c) THEN {} ELSE {<<c, "queued">>})
        \cup IF Announced(c) THEN {} ELSE {<<c, IF Settled(c) THEN phase[c] ELSE "failed">>}

\* Slip: whatever its status, a row is announced under it.
MissingUnsettled(c) ==
    (IF Queued(c) THEN {} ELSE {<<c, "queued">>})
        \cup IF Announced(c) THEN {} ELSE {<<c, phase[c]>>}

\* What the row, as it is selected, says is missing from the log.
Missing(c) ==
    (IF Queued(c) THEN {} ELSE {<<c, "queued">>})
        \cup IF Settled(c) /\ ~Announced(c) THEN {<<c, phase[c]>>} ELSE {}

Select(s) ==
    /\ ~sweeping[s]
    /\ sweeping' = [sweeping EXCEPT ![s] = TRUE]
    /\ plan' = [plan EXCEPT ![s] = UNION {Missing(c) : c \in {d \in Commands : Unreported(d)}}]
    /\ UNCHANGED <<outboxVars, log>>

\* Slip: the two events of a row are published in any order.
PublishAnyOrder(s, c, key) ==
    /\ <<c, key>> \in plan[s]
    /\ log' = log \cup {<<c, key>>}
    /\ plan' = [plan EXCEPT ![s] = @ \ {<<c, key>>}]
    /\ UNCHANGED <<outboxVars, sweeping>>

\* publishPlatformEvent, which does nothing if the key is there by now.  The row is
\* as old as the sweep: its command may have been reopened since.
Publish(s, c, key) ==
    /\ <<c, key>> \in plan[s]
    /\ key # "queued" => <<c, "queued">> \notin plan[s]
    /\ log' = log \cup {<<c, key>>}
    /\ plan' = [plan EXCEPT ![s] = @ \ {<<c, key>>}]
    /\ UNCHANGED <<outboxVars, sweeping>>

Stop(s) ==
    /\ sweeping' = [sweeping EXCEPT ![s] = FALSE]
    /\ plan' = [plan EXCEPT ![s] = {}]
    /\ UNCHANGED <<outboxVars, log>>

Finish(s) == sweeping[s] /\ plan[s] = {} /\ Stop(s)

\* A publication throws, or the tick dies: the rest of the rows wait for the next one.
Abort(s) == sweeping[s] /\ plan[s] # {} /\ Stop(s)

Next ==
    \/ OutboxStep
    \/ \E s \in Sweeps :
           Select(s) \/ Finish(s) \/ Abort(s)
           \/ \E c \in Commands, key \in Keys : Publish(s, c, key)

Spec == Init /\ [][Next]_vars

\* The cron fires, and a sweep does not abort before the same row every time.
Fairness ==
    /\ \A s \in Sweeps : WF_vars(Select(s) \/ Finish(s))
    /\ \A c \in Commands : SF_vars(\E s \in Sweeps, key \in Keys : Publish(s, c, key))

FairSpec == Spec /\ Fairness

-----------------------------------------------------------------------------
(* Properties *)

TypeOK ==
    /\ phase \in [Commands -> Outbox!Phases]
    /\ effects \in [Commands -> Nat]
    /\ log \subseteq Commands \X Keys
    /\ sweeping \in [Sweeps -> BOOLEAN]
    /\ plan \in [Sweeps -> SUBSET (Commands \X Keys)]

\* An outcome in the log is the outcome of its command, although the sweep publishes
\* what a row said some time ago and another sweep may have published since; only a
\* refusal may have been reopened.
OutcomesAreTrue ==
    \A c \in Commands, key \in Outbox!Outcomes :
        <<c, key>> \in log /\ (key = "delivered" \/ c \notin Reopenable) => phase[c] = key

\* A reader of the log never sees the outcome of a command it has not seen queued,
\* although sweeps overlap and stop anywhere.
QueuedBeforeOutcome == \A c \in Commands : Announced(c) => Queued(c)

\* A command that stays settled gets an outcome event in the log.
OutcomesAreAnnounced ==
    \A c \in Commands : Settled(c) ~> (Announced(c) \/ ~Settled(c))

\* docs/PLATFORM_EVENT_OPERATIONS.md: the sweep publishes terminal transport states
\* back, hence a delivery sooner or later.
DeliveriesAreAnnounced ==
    \A c \in Commands : phase[c] = "delivered" ~> <<c, "delivered">> \in log
=============================================================================
