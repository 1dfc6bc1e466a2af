----------------------------- MODULE ErrorGroups -----------------------------
(***************************************************************************)
(* Grouping of application errors and their announcement in Slack:         *)
(* storeError in src/services/cue/src/events.ts and the endpoints that set *)
(* the status of a group.                                                  *)
(*                                                                         *)
(* One fingerprint of a source that has a channel and announces single     *)
(* errors.  Requests overlap.                                              *)
(***************************************************************************)
EXTENDS Naturals

CONSTANTS
    Requests,         \* overlapping invocations
    MaxEvents,        \* bound: events, numbered as they arrive
    Cooldown,         \* error_cooldown_minutes
    MaxTime           \* bound: time

VARIABLES
    now,
    arrived,               \* events that have arrived
    resolved, notifiedAt,  \* the row of cue_error_groups; notifiedAt is 0 for NULL
    at,                    \* what a request has decided, and when
    announced,             \* the published messages, noxcue:error:<id>
    resolvedAt,            \* when the group was resolved
    raced

groupVars == <<resolved, notifiedAt>>
vars == <<now, arrived, groupVars, at, announced, resolvedAt, raced>>

Times == 1 .. MaxTime

Idle == [phase |-> "idle", event |-> 0, notify |-> FALSE, time |-> 0]

Init ==
    /\ now = 1
    /\ arrived = 0
    /\ resolved = FALSE
    /\ notifiedAt = 0
    /\ at = [r \in Requests |-> Idle]
    /\ announced = {}
    /\ resolvedAt = {}
    /\ raced = FALSE

Tick ==
    /\ now < MaxTime
    /\ now' = now + 1
    /\ UNCHANGED <<arrived, groupVars, at, announced, resolvedAt, raced>>

\* An endpoint sets the status; `acknowledged' is as good as `open' here.
Resolve ==
    /\ notifiedAt # 0
    /\ ~resolved
    /\ resolved' = TRUE
    /\ resolvedAt' = resolvedAt \cup {now}
    /\ UNCHANGED <<now, arrived, notifiedAt, at, announced, raced>>

Reopen ==
    /\ resolved
    /\ resolved' = FALSE
    /\ UNCHANGED <<now, arrived, notifiedAt, at, announced, resolvedAt, raced>>

Cooled == now - notifiedAt >= Cooldown

ShouldNotify == resolved \/ notifiedAt = 0 \/ Cooled

\* The event is not stored yet.  The group is read, and the decision taken.
Decide(r) ==
    /\ at[r].phase = "idle"
    /\ arrived < MaxEvents
    /\ arrived' = arrived + 1
    /\ at' = [at EXCEPT ![r] = [phase |-> "decided", event |-> arrived', notify |-> ShouldNotify, time |-> now]]
    /\ raced' = (raced \/ \E q \in Requests : at[q].phase = "decided")
    /\ UNCHANGED <<now, groupVars, announced, resolvedAt>>

\* Slip: an occurrence that is not announced clears the time of the one that was.
NotifiedExcluded(r) == IF at[r].notify THEN at[r].time ELSE 0

\* COALESCE(excluded.last_notified_at, cue_error_groups.last_notified_at)
Notified(r) == IF at[r].notify THEN at[r].time ELSE notifiedAt

\* The batch that stores the event and its group.
Store(r) ==
    /\ at[r].phase = "decided"
    /\ resolved' = FALSE
    /\ notifiedAt' = Notified(r)
    /\ at' = [at EXCEPT ![r].phase = "stored"]
    /\ UNCHANGED <<now, arrived, announced, resolvedAt, raced>>

\* publishSlackTransport, if it was decided to.
Announce(r) ==
    /\ at[r].phase = "stored"
    /\ announced' = IF at[r].notify
                    THEN announced \cup {[event |-> at[r].event, time |-> at[r].time]} ELSE announced
    /\ at' = [at EXCEPT ![r] = Idle]
    /\ UNCHANGED <<now, arrived, groupVars, resolvedAt, raced>>

\* The request breaks off.  Sent again, an event that was stored is only answered with
\* what became of it, and its message is never published; one that was not is new.
BreakOff(r) ==
    /\ at[r].phase # "idle"
    /\ at' = [at EXCEPT ![r] = Idle]
    /\ UNCHANGED <<now, arrived, groupVars, announced, resolvedAt, raced>>

Next ==
    \/ Tick \/ Resolve \/ Reopen
    \/ \E r \in Requests : Decide(r) \/ Store(r) \/ Announce(r) \/ BreakOff(r)

Spec == Init /\ [][Next]_vars

-----------------------------------------------------------------------------
TypeOK ==
    /\ now \in Times
    /\ arrived \in 0 .. MaxEvents
    /\ resolved \in BOOLEAN
    /\ notifiedAt \in 0 .. now
    /\ at \in [Requests -> [phase : {"idle", "decided", "stored"}, event : 0 .. MaxEvents,
                            notify : BOOLEAN, time : 0 .. MaxTime]]
    /\ announced \subseteq [event : 1 .. MaxEvents, time : Times]
    /\ resolvedAt \subseteq Times
    /\ raced \in BOOLEAN

\* A fingerprint is announced once per cooldown, however many occurrences overlap its
\* announcement, unless somebody resolved it in between, or two requests took their
\* decisions before either had stored its own.
OneAnnouncementPerCooldown ==
    \A a, b \in announced :
        a # b /\ a.time <= b.time /\ b.time - a.time < Cooldown
            => raced \/ \E t \in resolvedAt : a.time <= t /\ t <= b.time
=============================================================================
