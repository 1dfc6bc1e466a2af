------------------------ MODULE PlatformEventsProofs ------------------------
(* Theorems about PlatformEvents, for every value of its constants and in every *)
(* environment: whatever dies, runs late, is lost or is delivered twice.        *)
EXTENDS PlatformEvents, TaskQueueProofs

-----------------------------------------------------------------------------
(* Types *)

\* The rows that an UPDATE selects keep the columns well typed.
LEMMA MarkedTyped ==
    ASSUME TypeOK, NEW rows, NEW newStatus \in Statuses, Marked(rows, newStatus)
    PROVE  /\ status' \in [Events -> Statuses]
           /\ aged' \in [Events -> BOOLEAN]
           /\ \A e \in Events : aged'[e] => status'[e] \in {"queued", "processing"}
BY DEF TypeOK, Marked

\* A loop over events, empty or not, leaves a well-typed invocation.
LEMMA EnqueueTyped ==
    ASSUME TypeOK, NEW t \in Threads, NEW rows \in SUBSET Events, Enqueue(t, rows)
    PROVE  ThreadTypeOK'
BY MaxDeliveriesAssumption DEF TypeOK, ThreadTypeOK, Enqueue, End, Enter, Labels, Deliveries

\* So does going on to the next row,
LEMMA NextRowTyped ==
    ASSUME TypeOK, NEW t \in Threads, NextRow(t)
    PROVE  ThreadTypeOK'
<1>1. todo[t] \ {cur[t]} \in SUBSET Events
  BY DEF TypeOK, ThreadTypeOK
<1>2. QED
  BY <1>1, EnqueueTyped DEF NextRow

\* and an invocation that ends.
LEMMA EndTyped ==
    ASSUME TypeOK, NEW t \in Threads, End(t)
    PROVE  ThreadTypeOK'
BY MaxDeliveriesAssumption DEF TypeOK, ThreadTypeOK, End, Enter, Labels, Deliveries

\* A released message is a queue's business only.
LEMMA ReleaseTyped ==
    ASSUME TypeOK, NEW t \in Threads, Release(t)
    PROVE  ThreadTypeOK' /\ queue' \in Queues(Events)
<1>1. ThreadTypeOK'
  BY EndTyped DEF Release
<1>2. queue \in Queues(Events) /\ delivery[t] \in Deliveries
  BY DEF TypeOK, ThreadTypeOK
<1>3. Returned(queue, cur[t], delivery[t]) \in Queues(Events)
  BY <1>2, ReturnedTyped
<1>4. QED
  BY <1>1, <1>2, <1>3 DEF Release

\* The type invariant is inductive.
LEMMA TypeStep == TypeOK /\ [Next]_vars => TypeOK'
<1> SUFFICES ASSUME TypeOK, [Next]_vars
             PROVE  TypeOK'
  OBVIOUS
<1> USE EventsAssumption, LimitsAssumption
    DEF TypeOK, ThreadTypeOK, Statuses, Labels, logVars, modelVars, threadVars
<1>1. ASSUME NEW t \in Threads, NEW e \in Events, Publish(t, e)
      PROVE  TypeOK'
  BY <1>1, MarkedTyped, EnqueueTyped DEF Publish
<1>2. ASSUME NEW t \in Threads, NEW e \in Events, Send(t, e)
      PROVE  TypeOK'
  BY <1>2, SentTyped DEF Send, Takes
<1>3. ASSUME NEW t \in Threads, NEW e \in Events, SendFails(t, e)
      PROVE  TypeOK'
  BY <1>3 DEF SendFails, Takes, Fault
<1>4. ASSUME NEW t \in Threads, Confirm(t)
      PROVE  TypeOK'
  BY <1>4, MarkedTyped, NextRowTyped DEF Confirm
<1>5. ASSUME NEW t \in Threads, ConfirmFails(t)
      PROVE  TypeOK'
  BY <1>5 DEF ConfirmFails, Goto, Fault
<1>6. ASSUME NEW t \in Threads, Demote(t)
      PROVE  TypeOK'
  BY <1>6, MarkedTyped, NextRowTyped DEF Demote
<1>7. ASSUME NEW t \in Threads, SweepStale(t)
      PROVE  TypeOK'
  BY <1>7, MarkedTyped DEF SweepStale, Goto
<1>8. ASSUME NEW t \in Threads, SweepSelect(t)
      PROVE  TypeOK'
  BY <1>8, EnqueueTyped DEF SweepSelect
<1>9. ASSUME NEW t \in Threads, NEW e \in Events, NEW n \in Deliveries, Claim(t, e, n)
      PROVE  TypeOK'
  BY <1>9, MarkedTyped, TakenTyped DEF Claim, Enter
<1>10. ASSUME NEW t \in Threads, Project(t)
      PROVE  TypeOK'
  BY <1>10, MarkedTyped DEF Project, Goto, Reflect
<1>11. ASSUME NEW t \in Threads, ProjectUnconfirmed(t)
      PROVE  TypeOK'
  <2>1. cur[t] \in Events
    BY <1>11 DEF ProjectUnconfirmed
  <2>2. /\ status' \in [Events -> Statuses]
        /\ aged' \in [Events -> BOOLEAN]
        /\ \A e \in Events : aged'[e] => status'[e] \in {"queued", "processing"}
    BY <1>11, MarkedTyped DEF ProjectUnconfirmed, Reflect
  <2>3. facts' \subseteq Events /\ head' \in [Subjects -> Events \cup {NoEvent}]
    BY <1>11, <2>1 DEF ProjectUnconfirmed, Reflect
  <2>4. ThreadTypeOK'
    BY <1>11, <2>1 DEF ProjectUnconfirmed, Goto
  <2>5. QED
    BY <1>11, <2>2, <2>3, <2>4 DEF ProjectUnconfirmed, Fault
<1>12. ASSUME NEW t \in Threads, ProjectFails(t)
      PROVE  TypeOK'
  BY <1>12 DEF ProjectFails, Goto, Fault
<1>13. ASSUME NEW t \in Threads, Fail(t)
      PROVE  TypeOK'
  BY <1>13, MarkedTyped DEF Fail, Goto
<1>14. ASSUME NEW t \in Threads, FailFails(t)
      PROVE  TypeOK'
  BY <1>14 DEF FailFails, Goto, Fault
<1>15. ASSUME NEW t \in Threads, Ack(t)
      PROVE  TypeOK'
  BY <1>15, EndTyped DEF Ack
<1>16. ASSUME NEW t \in Threads, Nack(t)
      PROVE  TypeOK'
  BY <1>16, ReleaseTyped DEF Nack
<1>17. ASSUME NEW t \in Threads, Crash(t)
      PROVE  TypeOK'
  BY <1>17, ReleaseTyped DEF Crash, Fault
<1>18. ASSUME NEW t \in Threads, Abort(t)
      PROVE  TypeOK'
  BY <1>18, EndTyped DEF Abort, Fault
<1>19. ASSUME NEW e \in Events, NEW n \in Deliveries, Skip(e, n)
      PROVE  TypeOK'
  BY <1>19, TakenTyped DEF Skip
<1>20. ASSUME NEW e \in Events, NEW n \in Deliveries, BatchDies(e, n)
      PROVE  TypeOK'
  BY <1>20, TakenTyped, ReturnedTyped DEF BatchDies, Fault
<1>21. ASSUME NEW e \in Events, Ages(e)
      PROVE  TypeOK'
  BY <1>21 DEF Ages, Fault, Healthy
<1>22. ASSUME NEW scope \in SUBSET Events, Replay(scope)
      PROVE  TypeOK'
  BY <1>22, MarkedTyped DEF Replay
<1>23. CASE UNCHANGED vars
  BY <1>23 DEF vars
<1>24. QED
  BY <1>1, <1>2, <1>3, <1>4, <1>5, <1>6, <1>7, <1>8, <1>9, <1>10, <1>11, <1>12, <1>13,
     <1>14, <1>15, <1>16, <1>17, <1>18, <1>19, <1>20, <1>21, <1>22, <1>23
     DEF Next, Start, Continue

\* Rows, read model, queue and invocations are what their columns say.
THEOREM EventsTypeCorrect == Spec => []TypeOK
<1>1. Init => TypeOK
  BY MaxDeliveriesAssumption, EventsAssumption, HoldsEmpty
     DEF Init, TypeOK, ThreadTypeOK, Statuses, Labels, Deliveries
<1>2. QED
  BY <1>1, TypeStep, PTL DEF Spec

-----------------------------------------------------------------------------
(* The read model *)

\* Only a projection changes the read model, and only a projection or a row that is no
\* longer projected changes what is to be reflected.
LEMMA ReflectFrame ==
    ASSUME HeadIsLatest, ProjectedIsReflected, UNCHANGED modelVars,
           \A e \in Events : status'[e] = "projected" => status[e] = "projected"
    PROVE  HeadIsLatest' /\ ProjectedIsReflected'
<1>1. HeadIsLatest'
  BY DEF HeadIsLatest, About, modelVars
<1>2. ProjectedIsReflected'
  BY DEF ProjectedIsReflected, modelVars
<1>3. QED
  BY <1>1, <1>2

\* A projection makes the event's subject at least as recent as the event, and a
\* subject never goes back.
LEMMA ReflectStep ==
    ASSUME TypeOK, HeadIsLatest, ProjectedIsReflected, NEW e \in Events, Reflect(e)
    PROVE  HeadIsLatest' /\ ProjectedIsReflected'
<1> USE EventsAssumption DEF TypeOK
<1>1. facts' = facts \cup {e}
  BY DEF Reflect
<1>2. \A s \in Subjects : head'[s] = IF Later(e, s) THEN e ELSE head[s]
  BY DEF Reflect
<1>3. \A s \in Subjects : SubjectOf[e] = s => About(s)' = About(s) \cup {e}
  BY <1>1 DEF About
<1>4. \A s \in Subjects : SubjectOf[e] # s => About(s)' = About(s) /\ head'[s] = head[s]
  BY <1>1, <1>2 DEF About, Later
<1>5. \A s \in Subjects : About(s) \subseteq Events
  BY DEF About
<1>6. ASSUME NEW s \in Subjects
      PROVE  HeadIsLatest!(s)'
  <2>1. CASE SubjectOf[e] # s
    BY <1>4, <2>1 DEF HeadIsLatest
  <2>2. CASE SubjectOf[e] = s /\ head[s] = NoEvent
    <3>1. About(s) = {}
      BY <2>2, <1>5 DEF HeadIsLatest
    <3>2. head'[s] = e /\ About(s)' = {e}
      BY <1>2, <1>3, <2>2, <3>1 DEF Later
    <3>3. QED
      BY <3>2
  <2>3. CASE SubjectOf[e] = s /\ head[s] # NoEvent
    <3>1. head[s] \in About(s) /\ head[s] \in Nat /\ \A f \in About(s) : f \in Nat /\ f <= head[s]
      BY <2>3, <1>5 DEF HeadIsLatest
    <3>2. /\ head'[s] = IF e > head[s] THEN e ELSE head[s]
          /\ About(s)' = About(s) \cup {e}
      BY <1>2, <1>3, <2>3 DEF Later
    <3>3. QED
      BY <3>1, <3>2
  <2>4. QED
    BY <2>1, <2>2, <2>3
<1>7. \A f \in Events : status'[f] = "projected" => f = e \/ status[f] = "projected"
  BY DEF Reflect, Marked
<1>8. \A s \in Subjects : head[s] \in Events => head'[s] \in Events /\ head'[s] >= head[s]
  <2>1. \A f \in Events : f \in Nat
    OBVIOUS
  <2>2. SUFFICES ASSUME NEW s \in Subjects, head[s] \in Events
                 PROVE  head'[s] \in Events /\ head'[s] >= head[s]
    OBVIOUS
  <2>3. e \in Nat /\ head[s] \in Nat /\ head[s] # NoEvent
    BY <2>1, <2>2
  <2>4. CASE Later(e, s)
    <3>1. head'[s] = e
      BY <1>2, <2>4
    <3>2. e > head[s]
      BY <2>3, <2>4 DEF Later
    <3>3. QED
      BY <2>3, <3>1, <3>2
  <2>5. CASE ~Later(e, s)
    <3>1. head'[s] = head[s]
      BY <1>2, <2>5
    <3>2. QED
      BY <2>2, <2>3, <3>1
  <2>6. QED
    BY <2>4, <2>5
<1>9. \A s \in Subjects : SubjectOf[e] = s => head'[s] \in Events /\ head'[s] >= e
  <2>1. SUFFICES ASSUME NEW s \in Subjects, SubjectOf[e] = s
                 PROVE  head'[s] \in Events /\ head'[s] >= e
    OBVIOUS
  <2>2. e \in Nat
    OBVIOUS
  <2>3. CASE Later(e, s)
    <3>1. head'[s] = e
      BY <1>2, <2>3
    <3>2. QED
      BY <2>2, <3>1
  <2>4. CASE ~Later(e, s)
    <3>1. head'[s] = head[s] /\ head[s] # NoEvent /\ ~(e > head[s])
      BY <1>2, <2>1, <2>4 DEF Later
    <3>2. head[s] \in Events /\ head[s] \in Nat
      BY <3>1
    <3>3. QED
      BY <2>2, <3>1, <3>2
  <2>5. QED
    BY <2>3, <2>4
<1>10. ASSUME NEW f \in Events, status'[f] = "projected"
       PROVE  ProjectedIsReflected!(f)'
  <2>1. CASE f = e
    BY <1>1, <1>9, <2>1
  <2>2. CASE f # e
    <3>1. f \in facts /\ \A s \in Subjects : SubjectOf[f] = s => head[s] \in Events /\ head[s] >= f
      BY <1>7, <1>10, <2>2 DEF ProjectedIsReflected
    <3>2. \A s \in Subjects : SubjectOf[f] = s => head'[s] \in Events /\ head'[s] >= f
      <4>1. SUFFICES ASSUME NEW s \in Subjects, SubjectOf[f] = s
                     PROVE  head'[s] \in Events /\ head'[s] >= f
        OBVIOUS
      <4>2. head[s] \in Events /\ head[s] >= f
        BY <3>1, <4>1
      <4>3. head'[s] \in Events /\ head'[s] >= head[s]
        BY <1>8, <4>2
      <4>4. f \in Nat /\ head[s] \in Nat /\ head'[s] \in Nat
        BY <4>2, <4>3
      <4>5. QED
        BY <4>2, <4>3, <4>4
    <3>3. QED
      BY <1>1, <3>1, <3>2
  <2>3. QED
    BY <2>1, <2>2
<1>11. HeadIsLatest'
  BY <1>6 DEF HeadIsLatest
<1>12. ProjectedIsReflected'
  BY <1>10 DEF ProjectedIsReflected
<1>13. QED
  BY <1>11, <1>12

\* No step breaks the two invariants.
LEMMA ModelStep ==
    TypeOK /\ HeadIsLatest /\ ProjectedIsReflected /\ [Next]_vars
        => HeadIsLatest' /\ ProjectedIsReflected'
<1> SUFFICES ASSUME TypeOK, HeadIsLatest, ProjectedIsReflected, [Next]_vars
             PROVE  HeadIsLatest' /\ ProjectedIsReflected'
  OBVIOUS
<1> USE DEF logVars
<1>1. ASSUME NEW t \in Threads, NEW e \in Events, Publish(t, e)
      PROVE  HeadIsLatest' /\ ProjectedIsReflected'
  BY <1>1, ReflectFrame DEF Publish, Marked
<1>2. ASSUME NEW t \in Threads, NEW e \in Events, Send(t, e)
      PROVE  HeadIsLatest' /\ ProjectedIsReflected'
  BY <1>2, ReflectFrame DEF Send
<1>3. ASSUME NEW t \in Threads, NEW e \in Events, SendFails(t, e)
      PROVE  HeadIsLatest' /\ ProjectedIsReflected'
  BY <1>3, ReflectFrame DEF SendFails
<1>4. ASSUME NEW t \in Threads, Confirm(t)
      PROVE  HeadIsLatest' /\ ProjectedIsReflected'
  BY <1>4, ReflectFrame DEF Confirm, Marked
<1>5. ASSUME NEW t \in Threads, ConfirmFails(t)
      PROVE  HeadIsLatest' /\ ProjectedIsReflected'
  BY <1>5, ReflectFrame DEF ConfirmFails
<1>6. ASSUME NEW t \in Threads, Demote(t)
      PROVE  HeadIsLatest' /\ ProjectedIsReflected'
  BY <1>6, ReflectFrame DEF Demote, Marked
<1>7. ASSUME NEW t \in Threads, SweepStale(t)
      PROVE  HeadIsLatest' /\ ProjectedIsReflected'
  BY <1>7, ReflectFrame DEF SweepStale, Marked
<1>8. ASSUME NEW t \in Threads, SweepSelect(t)
      PROVE  HeadIsLatest' /\ ProjectedIsReflected'
  BY <1>8, ReflectFrame DEF SweepSelect
<1>9. ASSUME NEW t \in Threads, NEW e \in Events, NEW n \in Deliveries, Claim(t, e, n)
      PROVE  HeadIsLatest' /\ ProjectedIsReflected'
  BY <1>9, ReflectFrame DEF Claim, Marked
<1>10. ASSUME NEW t \in Threads, Project(t)
      PROVE  HeadIsLatest' /\ ProjectedIsReflected'
  <2>1. cur[t] \in Events /\ Reflect(cur[t])
    BY <1>10 DEF Project, TypeOK, ThreadTypeOK
  <2>2. QED
    BY <2>1, ReflectStep
<1>11. ASSUME NEW t \in Threads, ProjectUnconfirmed(t)
      PROVE  HeadIsLatest' /\ ProjectedIsReflected'
  <2>1. cur[t] \in Events /\ Reflect(cur[t])
    BY <1>11 DEF ProjectUnconfirmed, TypeOK, ThreadTypeOK
  <2>2. QED
    BY <2>1, ReflectStep
<1>12. ASSUME NEW t \in Threads, ProjectFails(t)
      PROVE  HeadIsLatest' /\ ProjectedIsReflected'
  BY <1>12, ReflectFrame DEF ProjectFails
<1>13. ASSUME NEW t \in Threads, Fail(t)
      PROVE  HeadIsLatest' /\ ProjectedIsReflected'
  BY <1>13, ReflectFrame DEF Fail, Marked
<1>14. ASSUME NEW t \in Threads, FailFails(t)
      PROVE  HeadIsLatest' /\ ProjectedIsReflected'
  BY <1>14, ReflectFrame DEF FailFails
<1>15. ASSUME NEW t \in Threads, Ack(t)
      PROVE  HeadIsLatest' /\ ProjectedIsReflected'
  BY <1>15, ReflectFrame DEF Ack
<1>16. ASSUME NEW t \in Threads, Nack(t)
      PROVE  HeadIsLatest' /\ ProjectedIsReflected'
  BY <1>16, ReflectFrame DEF Nack
<1>17. ASSUME NEW t \in Threads, Crash(t)
      PROVE  HeadIsLatest' /\ ProjectedIsReflected'
  BY <1>17, ReflectFrame DEF Crash
<1>18. ASSUME NEW t \in Threads, Abort(t)
      PROVE  HeadIsLatest' /\ ProjectedIsReflected'
  BY <1>18, ReflectFrame DEF Abort
<1>19. ASSUME NEW e \in Events, NEW n \in Deliveries, Skip(e, n)
      PROVE  HeadIsLatest' /\ ProjectedIsReflected'
  BY <1>19, ReflectFrame DEF Skip
<1>20. ASSUME NEW e \in Events, NEW n \in Deliveries, BatchDies(e, n)
      PROVE  HeadIsLatest' /\ ProjectedIsReflected'
  BY <1>20, ReflectFrame DEF BatchDies
<1>21. ASSUME NEW e \in Events, Ages(e)
      PROVE  HeadIsLatest' /\ ProjectedIsReflected'
  BY <1>21, ReflectFrame DEF Ages
<1>22. ASSUME NEW scope \in SUBSET Events, Replay(scope)
      PROVE  HeadIsLatest' /\ ProjectedIsReflected'
  BY <1>22, ReflectFrame DEF Replay, Marked
<1>23. CASE UNCHANGED vars
  BY <1>23, ReflectFrame DEF vars
<1>24. QED
  BY <1>1, <1>2, <1>3, <1>4, <1>5, <1>6, <1>7, <1>8, <1>9, <1>10, <1>11, <1>12, <1>13,
     <1>14, <1>15, <1>16, <1>17, <1>18, <1>19, <1>20, <1>21, <1>22, <1>23
     DEF Next, Start, Continue

\* HeadIsLatest and ProjectedIsReflected hold whatever the environment does.
THEOREM ReadModelIsCurrent == Spec => []HeadIsLatest /\ []ProjectedIsReflected
<1>1. Init => HeadIsLatest /\ ProjectedIsReflected
  BY DEF Init, HeadIsLatest, ProjectedIsReflected, About
<1>2. QED
  BY <1>1, EventsTypeCorrect, ModelStep, PTL DEF Spec

\* A projected event is in the read model: its fact is recorded, and its subject's state is
\* that of it or of a later event (projectPlatformEvent's batch).
THEOREM TheProjectedIsReflected == Spec => []ProjectedIsReflected
<1>1. QED
  BY ReadModelIsCurrent, PTL

-----------------------------------------------------------------------------
(* Projected events stay projected *)

Final ==
    \A e \in Events : status[e] = "projected" => status'[e] = "projected" \/ replays' > replays

\* Only a replay touches a projected row: every UPDATE names the statuses it expects.
LEMMA FinalStep == TypeOK /\ [Next]_vars => Final
<1> SUFFICES ASSUME TypeOK, [Next]_vars
             PROVE  Final
  OBVIOUS
<1> USE DEF logVars, Final
<1>1. ASSUME NEW t \in Threads, NEW e \in Events, Publish(t, e)
      PROVE  Final
  BY <1>1 DEF Publish, Marked
<1>2. ASSUME NEW t \in Threads, NEW e \in Events, Send(t, e)
      PROVE  Final
  BY <1>2 DEF Send
<1>3. ASSUME NEW t \in Threads, NEW e \in Events, SendFails(t, e)
      PROVE  Final
  BY <1>3 DEF SendFails
<1>4. ASSUME NEW t \in Threads, Confirm(t)
      PROVE  Final
  BY <1>4 DEF Confirm, Marked, Enqueueable
<1>5. ASSUME NEW t \in Threads, ConfirmFails(t)
      PROVE  Final
  BY <1>5 DEF ConfirmFails
<1>6. ASSUME NEW t \in Threads, Demote(t)
      PROVE  Final
  BY <1>6 DEF Demote, Marked
<1>7. ASSUME NEW t \in Threads, SweepStale(t)
      PROVE  Final
  BY <1>7 DEF SweepStale, Marked, Stale
<1>8. ASSUME NEW t \in Threads, SweepSelect(t)
      PROVE  Final
  BY <1>8 DEF SweepSelect
<1>9. ASSUME NEW t \in Threads, NEW e \in Events, NEW n \in Deliveries, Claim(t, e, n)
      PROVE  Final
  BY <1>9 DEF Claim, Marked, Claimable
<1>10. ASSUME NEW t \in Threads, Project(t)
      PROVE  Final
  BY <1>10 DEF Project, Reflect, Marked
<1>11. ASSUME NEW t \in Threads, ProjectUnconfirmed(t)
      PROVE  Final
  BY <1>11 DEF ProjectUnconfirmed, Reflect, Marked
<1>12. ASSUME NEW t \in Threads, ProjectFails(t)
      PROVE  Final
  BY <1>12 DEF ProjectFails
<1>13. ASSUME NEW t \in Threads, Fail(t)
      PROVE  Final
  BY <1>13 DEF Fail, Marked
<1>14. ASSUME NEW t \in Threads, FailFails(t)
      PROVE  Final
  BY <1>14 DEF FailFails
<1>15. ASSUME NEW t \in Threads, Ack(t)
      PROVE  Final
  BY <1>15 DEF Ack
<1>16. ASSUME NEW t \in Threads, Nack(t)
      PROVE  Final
  BY <1>16 DEF Nack
<1>17. ASSUME NEW t \in Threads, Crash(t)
      PROVE  Final
  BY <1>17 DEF Crash
<1>18. ASSUME NEW t \in Threads, Abort(t)
      PROVE  Final
  BY <1>18 DEF Abort
<1>19. ASSUME NEW e \in Events, NEW n \in Deliveries, Skip(e, n)
      PROVE  Final
  BY <1>19 DEF Skip
<1>20. ASSUME NEW e \in Events, NEW n \in Deliveries, BatchDies(e, n)
      PROVE  Final
  BY <1>20 DEF BatchDies
<1>21. ASSUME NEW e \in Events, Ages(e)
      PROVE  Final
  BY <1>21 DEF Ages
<1>22. ASSUME NEW scope \in SUBSET Events, Replay(scope)
      PROVE  Final
  BY <1>22 DEF Replay, Marked, TypeOK
<1>23. CASE UNCHANGED vars
  BY <1>23 DEF vars
<1>24. QED
  BY <1>1, <1>2, <1>3, <1>4, <1>5, <1>6, <1>7, <1>8, <1>9, <1>10, <1>11, <1>12, <1>13,
     <1>14, <1>15, <1>16, <1>17, <1>18, <1>19, <1>20, <1>21, <1>22, <1>23
     DEF Next, Start, Continue

\* ProjectedIsFinal for every number of events, invocations, faults and replays.
THEOREM ProjectionIsFinal == Spec => ProjectedIsFinal
<1>1. QED
  BY EventsTypeCorrect, FinalStep, PTL DEF Spec, ProjectedIsFinal, Final
=============================================================================
