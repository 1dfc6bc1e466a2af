------------------------ MODULE DeliveryEventsProofs ------------------------
(* Theorems about DeliveryEvents, for every set of commands, however many ticks *)
(* overlap, and for whatever an outbox does that keeps TransportPromise.        *)
EXTENDS DeliveryEvents, TLAPS

-----------------------------------------------------------------------------
(* Types *)

\* A step of the outbox moves a command to a phase, and changes nothing else.
LEMMA OutboxTyped ==
    ASSUME TypeOK, OutboxStep
    PROVE  TypeOK'
<1> USE DEF TypeOK, OutboxStep, sweepVars, Outbox!Moves, Outbox!Phases, Outbox!Outcomes,
            Outbox!Refusals
<1>1. ASSUME NEW c \in Commands, Outbox!Accept(c)
      PROVE  TypeOK'
  BY <1>1 DEF Outbox!Accept
<1>2. ASSUME NEW c \in Commands, Outbox!Act(c)
      PROVE  TypeOK'
  BY <1>2 DEF Outbox!Act
<1>3. ASSUME NEW c \in Commands, Outbox!Deliver(c)
      PROVE  TypeOK'
  BY <1>3 DEF Outbox!Deliver
<1>4. ASSUME NEW c \in Commands, Outbox!Refuse(c)
      PROVE  TypeOK'
  BY <1>4 DEF Outbox!Refuse
<1>5. ASSUME NEW scope \in SUBSET Reopenable, Outbox!Reopen(scope)
      PROVE  TypeOK'
  BY <1>5 DEF Outbox!Reopen
<1>6. QED
  BY <1>1, <1>2, <1>3, <1>4, <1>5 DEF Outbox!Next

\* What is missing from the log are lifecycle events of that command.
LEMMA MissingTyped ==
    \A c \in Commands : Missing(c) \subseteq {c} \X Keys
BY DEF Missing, Settled, Keys

\* A sweep plans what it finds missing, command by command.
LEMMA PlannedIsMissing ==
    ASSUME TypeOK, NEW s \in Sweeps, Select(s), NEW c \in Commands, NEW key
    PROVE  <<c, key>> \in plan'[s] <=> Unreported(c) /\ <<c, key>> \in Missing(c)
<1>1. plan'[s] = UNION {Missing(d) : d \in {e \in Commands : Unreported(e)}}
  BY DEF Select, TypeOK
<1>2. \A d \in Commands : <<c, key>> \in Missing(d) => d = c
  BY DEF Missing
<1>3. QED
  BY <1>1, <1>2

\* The type invariant is inductive.
LEMMA TypeStep == TypeOK /\ [Next]_vars => TypeOK'
<1> SUFFICES ASSUME TypeOK, [Next]_vars
             PROVE  TypeOK'
  OBVIOUS
<1> USE DEF outboxVars
<1>1. CASE OutboxStep
  BY <1>1, OutboxTyped
<1>2. ASSUME NEW s \in Sweeps, Select(s)
      PROVE  TypeOK'
  <2>1. UNION {Missing(c) : c \in {d \in Commands : Unreported(d)}} \subseteq Commands \X Keys
    BY MissingTyped
  <2>2. QED
    BY <1>2, <2>1 DEF Select, TypeOK
<1>3. ASSUME NEW s \in Sweeps, NEW c \in Commands, NEW key \in Keys, Publish(s, c, key)
      PROVE  TypeOK'
  BY <1>3 DEF Publish, TypeOK
<1>4. ASSUME NEW s \in Sweeps, Finish(s) \/ Abort(s)
      PROVE  TypeOK'
  BY <1>4 DEF Finish, Abort, Stop, TypeOK
<1>5. CASE UNCHANGED vars
  BY <1>5 DEF vars, sweepVars, TypeOK
<1>6. QED
  BY <1>1, <1>2, <1>3, <1>4, <1>5 DEF Next

\* Phases, log and plans are what their definitions say.
THEOREM SweepTypeCorrect == Spec => []TypeOK
<1>1. Init => TypeOK
  BY DEF Init, TypeOK, Outbox!Init, Outbox!Phases
<1>2. QED
  BY <1>1, TypeStep, PTL DEF Spec

-----------------------------------------------------------------------------
(* What the log says is so *)

\* Whoever is to be published, or has been, is still what it was: only refusals of
\* commands that may be reopened go out of date.
True(events) ==
    \A c \in Commands, key \in Outbox!Outcomes :
        <<c, key>> \in events /\ (key = "delivered" \/ c \notin Reopenable) => phase[c] = key

TrueInv == True(log) /\ \A s \in Sweeps : True(plan[s])

\* The outbox takes back no delivery, and no refusal it may not reopen.
LEMMA OutcomesStay ==
    ASSUME TypeOK, Outbox!Next, NEW c \in Commands, phase[c] \in Outbox!Outcomes,
           phase[c] = "delivered" \/ c \notin Reopenable
    PROVE  phase'[c] = phase[c]
<1> USE DEF TypeOK, Outbox!Moves, Outbox!Outcomes, Outbox!Refusals
<1>1. ASSUME NEW d \in Commands,
             Outbox!Accept(d) \/ Outbox!Act(d) \/ Outbox!Deliver(d) \/ Outbox!Refuse(d)
      PROVE  phase'[c] = phase[c]
  BY <1>1 DEF Outbox!Accept, Outbox!Act, Outbox!Deliver, Outbox!Refuse
<1>2. ASSUME NEW scope \in SUBSET Reopenable, Outbox!Reopen(scope)
      PROVE  phase'[c] = phase[c]
  BY <1>2 DEF Outbox!Reopen
<1>3. QED
  BY <1>1, <1>2 DEF Outbox!Next

\* No step breaks the inductive invariant.
LEMMA TrueStep == TypeOK /\ TrueInv /\ [Next]_vars => TrueInv'
<1> SUFFICES ASSUME TypeOK, TrueInv, [Next]_vars
             PROVE  TrueInv'
  OBVIOUS
<1> USE DEF outboxVars, sweepVars, TrueInv, True
<1>1. CASE OutboxStep
  BY <1>1, OutcomesStay DEF OutboxStep
<1>2. ASSUME NEW s \in Sweeps, Select(s)
      PROVE  TrueInv'
  <2>1. \A c \in Commands, key \in Outbox!Outcomes :
           <<c, key>> \in plan'[s] => phase[c] = key
    BY <1>2, PlannedIsMissing DEF Missing, Outbox!Outcomes, Outbox!Refusals
  <2>2. QED
    BY <1>2, <2>1 DEF Select, TypeOK
<1>3. ASSUME NEW s \in Sweeps, NEW c \in Commands, NEW key \in Keys, Publish(s, c, key)
      PROVE  TrueInv'
  BY <1>3 DEF Publish, TypeOK
<1>4. ASSUME NEW s \in Sweeps, Finish(s) \/ Abort(s)
      PROVE  TrueInv'
  BY <1>4 DEF Finish, Abort, Stop, TypeOK
<1>5. CASE UNCHANGED vars
  BY <1>5 DEF vars
<1>6. QED
  BY <1>1, <1>2, <1>3, <1>4, <1>5 DEF Next

\* OutcomesAreTrue, whatever overlaps and stops.
THEOREM LogIsTrue == Spec => []OutcomesAreTrue
<1>1. Init => TrueInv
  BY DEF Init, TrueInv, True
<1>2. TrueInv => OutcomesAreTrue
  BY DEF TrueInv, True, OutcomesAreTrue
<1>3. QED
  BY <1>1, <1>2, SweepTypeCorrect, TrueStep, PTL DEF Spec

-----------------------------------------------------------------------------
(* Queued comes first *)

\* An outcome that a sweep is going to publish has its queued event in the log already,
\* or before it in the plan.
OrderInv ==
    /\ QueuedBeforeOutcome
    /\ \A s \in Sweeps, c \in Commands, key \in Outbox!Outcomes :
           <<c, key>> \in plan[s] => Queued(c) \/ <<c, "queued">> \in plan[s]

\* No step breaks the inductive invariant.
LEMMA OrderStep == TypeOK /\ OrderInv /\ [Next]_vars => OrderInv'
<1> SUFFICES ASSUME TypeOK, OrderInv, [Next]_vars
             PROVE  OrderInv'
  OBVIOUS
<1> USE DEF outboxVars, sweepVars, OrderInv, QueuedBeforeOutcome, Queued, Announced,
            Outbox!Outcomes, Outbox!Refusals
<1>1. CASE OutboxStep
  BY <1>1 DEF OutboxStep
<1>2. ASSUME NEW s \in Sweeps, Select(s)
      PROVE  OrderInv'
  <2>1. \A c \in Commands, key \in Outbox!Outcomes :
           <<c, key>> \in plan'[s] => Queued(c) \/ <<c, "queued">> \in plan'[s]
    BY <1>2, PlannedIsMissing DEF Missing
  <2>2. QED
    BY <1>2, <2>1 DEF Select, TypeOK
<1>3. ASSUME NEW s \in Sweeps, NEW c \in Commands, NEW key \in Keys, Publish(s, c, key)
      PROVE  OrderInv'
  BY <1>3 DEF Publish, TypeOK
<1>4. ASSUME NEW s \in Sweeps, Finish(s) \/ Abort(s)
      PROVE  OrderInv'
  BY <1>4 DEF Finish, Abort, Stop, TypeOK
<1>5. CASE UNCHANGED vars
  BY <1>5 DEF vars
<1>6. QED
  BY <1>1, <1>2, <1>3, <1>4, <1>5 DEF Next

\* QueuedBeforeOutcome, whatever overlaps and stops.
THEOREM QueuedComesFirst == Spec => []QueuedBeforeOutcome
<1>1. Init => OrderInv
  BY DEF Init, OrderInv, QueuedBeforeOutcome, Announced
<1>2. OrderInv => QueuedBeforeOutcome
  BY DEF OrderInv
<1>3. QED
  BY <1>1, <1>2, SweepTypeCorrect, OrderStep, PTL DEF Spec
=============================================================================
