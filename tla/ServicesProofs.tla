---------------------------- MODULE ServicesProofs ----------------------------
(* Theorems about the smaller services, for every value of their constants. *)
EXTENDS MCServices, CliSessionsProofs, FiniteSetTheorems

\* The bounds of each part.
LEMMA VersionsBound == MaxVersions \in Nat
BY BoundsAssumption

LEMMA RunsBound == MaxRuns \in Nat
BY BoundsAssumption

LEMMA TokensBound == MaxTokens \in Nat
BY BoundsAssumption

LEMMA EventsBound == MaxEvents \in Nat /\ Cooldown \in Nat /\ MaxTime \in Nat \ {0}
BY BoundsAssumption

LEMMA SlackBounds == MaxDeliveries \in Nat \ {0} /\ MaxRequeues \in Nat /\ MaxManyFaults \in Nat
BY BoundsAssumption

LEMMA ReportBounds == MaxCalls \in Nat /\ MaxFaults \in Nat
BY BoundsAssumption

LEMMA IncidentBounds == MaxOccurrences \in Nat /\ MaxTasks \in Nat /\ MaxManyFaults \in Nat
BY BoundsAssumption

-----------------------------------------------------------------------------
(* DatabaseRecovery: a completed recovery has no repository left *)

RecoverySteps == [Recovery!Next]_recoveryVars

\* A step of the composition is a step of the recovery, or leaves it alone.
LEMMA RecoveryAlone == [ServicesNext]_servicesVars => RecoverySteps
BY DEF ServicesNext, servicesVars, IncidentStep, SessionStep, GroupStep, ReportStep, SlackStep,
       MirrorStep, RecoveryStep, SignInStep, CapabilityStep, RecoverySteps

\* What a step is at.
StepRecords ==
    [phase : {"idle", "initializing", "choosing", "chosen", "syncing", "counting", "closing"},
     repo : Repos \cup {Nobody}, drained : BOOLEAN]

\* The phases of a step that found the request initialised, or initialised it.
Working == {"choosing", "chosen", "syncing", "counting", "closing"}

\* Nothing is added to a request that was initialised without `twice' telling so; from then
\* on a repository that is finished stays finished, and a step that has counted no
\* unfinished ones may close whenever it likes.
DrainedInv ==
    /\ twice => initialized
    /\ recovery \in {"pending", "failed"} \/ initialized
    /\ \A s \in Actors : step[s].phase \in Working => initialized
    /\ recovery = "completed" /\ ~twice => Recovery!Remaining = {}
    /\ \A s \in Actors :
           step[s].phase = "closing" /\ step[s].drained /\ ~twice => Recovery!Remaining = {}

LEMMA RecoveryBegins == Recovery!Init => Recovery!TypeOK /\ DrainedInv
<1>1. Recovery!Init => Recovery!TypeOK
  <2> SUFFICES ASSUME Recovery!Init PROVE Recovery!TypeOK
    OBVIOUS
  <2>1. Recovery!Resting \in StepRecords
    BY DEF Recovery!Resting, StepRecords
  <2>2. step \in [Actors -> StepRecords]
    BY <2>1 DEF Recovery!Init
  <2>3. QED
    BY <2>2 DEF Recovery!Init, Recovery!TypeOK, Recovery!Unfinished, StepRecords
<1>2. Recovery!Init => DrainedInv
  BY DEF Recovery!Init, DrainedInv, Recovery!Resting, Working
<1>3. QED
  BY <1>1, <1>2

\* No step of it leaves the types.
LEMMA RecoveryTyped == Recovery!TypeOK /\ RecoverySteps => Recovery!TypeOK'
<1> SUFFICES ASSUME Recovery!TypeOK, RecoverySteps PROVE Recovery!TypeOK'
  OBVIOUS
<1> USE DEF Recovery!TypeOK, Recovery!Unfinished
<1>1. ASSUME NEW s \in Actors, Recovery!Pick(s) PROVE Recovery!TypeOK'
  BY <1>1 DEF Recovery!Pick, Recovery!Goes
<1>2. ASSUME NEW s \in Actors, Recovery!Insert(s) PROVE Recovery!TypeOK'
  BY <1>2 DEF Recovery!Insert
<1>3. ASSUME NEW s \in Actors, Recovery!Initialize(s) PROVE Recovery!TypeOK'
  BY <1>3 DEF Recovery!Initialize, Recovery!Goes
<1>4. ASSUME NEW s \in Actors, Recovery!InitializeFails(s) PROVE Recovery!TypeOK'
  BY <1>4 DEF Recovery!InitializeFails, Recovery!Ends, Recovery!Resting
<1>5. ASSUME NEW s \in Actors, Recovery!Choose(s) PROVE Recovery!TypeOK'
  <2>1. step' \in [Actors -> StepRecords]
    BY <1>5 DEF Recovery!Choose, Recovery!Goes, StepRecords
  <2>2. QED
    BY <1>5, <2>1 DEF Recovery!Choose, StepRecords
<1>6. ASSUME NEW s \in Actors, Recovery!Start(s) PROVE Recovery!TypeOK'
  BY <1>6 DEF Recovery!Start, Recovery!Goes
<1>7. ASSUME NEW s \in Actors, Recovery!Finish(s) PROVE Recovery!TypeOK'
  BY <1>7 DEF Recovery!Finish, Recovery!Goes
<1>8. ASSUME NEW s \in Actors, Recovery!CountJobs(s) PROVE Recovery!TypeOK'
  <2>1. PICK drained \in BOOLEAN :
            step' = [step EXCEPT ![s].phase = "closing", ![s].drained = drained]
    BY <1>8, Zenon DEF Recovery!CountJobs
  <2>2. step' \in [Actors -> StepRecords]
    BY <2>1 DEF StepRecords
  <2>3. QED
    BY <1>8, <2>2 DEF Recovery!CountJobs, StepRecords
<1>9. ASSUME NEW s \in Actors, Recovery!Close(s) PROVE Recovery!TypeOK'
  BY <1>9 DEF Recovery!Close, Recovery!Ends, Recovery!Resting
<1>10. ASSUME NEW s \in Actors, Recovery!Die(s) PROVE Recovery!TypeOK'
  BY <1>10 DEF Recovery!Die, Recovery!Ends, Recovery!Resting
<1>11. CASE UNCHANGED recoveryVars
  BY <1>11 DEF recoveryVars
<1>12. QED
  BY <1>1, <1>2, <1>3, <1>4, <1>5, <1>6, <1>7, <1>8, <1>9, <1>10, <1>11
     DEF RecoverySteps, Recovery!Next

\* No step of it breaks the invariant.
LEMMA DrainedKept == Recovery!TypeOK /\ DrainedInv /\ RecoverySteps => DrainedInv'
<1> SUFFICES ASSUME Recovery!TypeOK, DrainedInv, RecoverySteps PROVE DrainedInv'
  OBVIOUS
<1> USE DEF Recovery!TypeOK, Recovery!Unfinished, Recovery!Remaining, DrainedInv, Working
<1>1. ASSUME NEW s \in Actors, Recovery!Pick(s) PROVE DrainedInv'
  BY <1>1 DEF Recovery!Pick, Recovery!Goes
<1>2. ASSUME NEW s \in Actors, Recovery!Insert(s) PROVE DrainedInv'
  BY <1>2 DEF Recovery!Insert
<1>3. ASSUME NEW s \in Actors, Recovery!Initialize(s) PROVE DrainedInv'
  BY <1>3 DEF Recovery!Initialize, Recovery!Goes
<1>4. ASSUME NEW s \in Actors, Recovery!InitializeFails(s) PROVE DrainedInv'
  BY <1>4 DEF Recovery!InitializeFails, Recovery!Ends, Recovery!Resting
<1>5. ASSUME NEW s \in Actors, Recovery!Choose(s) PROVE DrainedInv'
  BY <1>5 DEF Recovery!Choose, Recovery!Goes
<1>6. ASSUME NEW s \in Actors, Recovery!Start(s) PROVE DrainedInv'
  BY <1>6 DEF Recovery!Start, Recovery!Goes
<1>7. ASSUME NEW s \in Actors, Recovery!Finish(s) PROVE DrainedInv'
  BY <1>7 DEF Recovery!Finish, Recovery!Goes
<1>8. ASSUME NEW s \in Actors, Recovery!CountJobs(s) PROVE DrainedInv'
  BY <1>8 DEF Recovery!CountJobs
<1>9. ASSUME NEW s \in Actors, Recovery!Close(s) PROVE DrainedInv'
  BY <1>9 DEF Recovery!Close, Recovery!Ends, Recovery!Resting
<1>10. ASSUME NEW s \in Actors, Recovery!Die(s) PROVE DrainedInv'
  BY <1>10 DEF Recovery!Die, Recovery!Ends, Recovery!Resting
<1>11. CASE UNCHANGED recoveryVars
  BY <1>11 DEF recoveryVars
<1>12. QED
  BY <1>1, <1>2, <1>3, <1>4, <1>5, <1>6, <1>7, <1>8, <1>9, <1>10, <1>11
     DEF RecoverySteps, Recovery!Next

\* A completed request has no repository left to recover, unless a second step added some
\* to it when a first had it running.
THEOREM RecoveriesAreDrained == ServicesSpec => []CompletedIsDrained
<1>1. ServicesInit => Recovery!TypeOK /\ DrainedInv
  BY RecoveryBegins DEF ServicesInit
<1>2. DrainedInv => CompletedIsDrained
  BY DEF DrainedInv, CompletedIsDrained, Recovery!CompletedIsDrained, Recovery!Remaining
<1>3. QED
  BY <1>1, <1>2, RecoveryAlone, RecoveryTyped, DrainedKept, PTL DEF ServicesSpec

-----------------------------------------------------------------------------
(* GithubMirror: the mirror has what GitHub has, or will be told *)

MirrorSteps == [Mirror!Next]_mirrorVars

\* A step of the composition is a step of the mirror, or leaves it alone.
LEMMA MirrorAlone == [ServicesNext]_servicesVars => MirrorSteps
BY DEF ServicesNext, servicesVars, IncidentStep, SessionStep, GroupStep, ReportStep, SlackStep,
       MirrorStep, RecoveryStep, SignInStep, CapabilityStep, MirrorSteps

RunRecords ==
    [phase : {"idle", "fetched", "pruning", "written"}, full : BOOLEAN, got : Mirror!Versions]

MirrorFlags ==
    /\ changed \in BOOLEAN
    /\ cursor \in BOOLEAN
    /\ overtaken \in BOOLEAN
    /\ reordered \in BOOLEAN
    /\ unseen \in BOOLEAN
    /\ capped \in BOOLEAN

\* Webhooks tell of versions there were, and what was mirrored is no newer than the issue.
MirrorTypes ==
    /\ version \in Mirror!Versions
    /\ row \in Mirror!Versions
    /\ seen \in Mirror!Versions
    /\ hooks \subseteq 1 .. version
    /\ run \in [Actors -> RunRecords]
    /\ seen <= version
    /\ \A r \in Actors : run[r].got <= version
    /\ changed => version \notin {0, Mirror!Gone}

\* The mirror has what GitHub has, and no older webhook can undo it unnoticed.
InStep == row = Mirror!Listed(version) /\ seen = version

\* Until something that MirrorCatchesUp excepts has happened, what a run that goes on has
\* got is what GitHub has, or it was not told of the issue because the cursor is past its
\* last change; and once it has written or pruned, the mirror is in step.
MirrorQuiet ==
    overtaken \/ reordered \/ unseen \/ capped \/
        /\ changed \/ Mirror!Gone \in hooks \/ InStep
        /\ \A r \in Actors :
               /\ run[r].phase # "idle" =>
                      IF run[r].full \/ run[r].got # 0 THEN run[r].got = Mirror!Listed(version)
                      ELSE ~changed
               /\ run[r].phase = "pruning" => run[r].full
               /\ run[r].phase = "pruning" /\ run[r].got # 0 => InStep
               /\ run[r].phase = "written" /\ (run[r].full \/ run[r].got # 0) => InStep

MirrorInv == MirrorFlags /\ MirrorTypes /\ MirrorQuiet

\* What the records and versions are made of.
LEMMA MirrorRecords ==
    /\ Mirror!Versions \subseteq Nat /\ 0 \in Mirror!Versions /\ Mirror!Gone \in Mirror!Versions
    /\ Mirror!Resting \in RunRecords
    /\ \A full \in BOOLEAN, got \in Mirror!Versions :
           [phase |-> "fetched", full |-> full, got |-> got] \in RunRecords
    /\ \A v \in Mirror!Versions : Mirror!Listed(v) \in Mirror!Versions
    /\ \A v, w \in Mirror!Versions : Mirror!Larger(v, w) \in {v, w}
BY VersionsBound
   DEF RunRecords, Mirror!Resting, Mirror!Versions, Mirror!Gone, Mirror!Listed, Mirror!Larger

LEMMA MirrorBegins == Mirror!Init => MirrorInv
<1> SUFFICES ASSUME Mirror!Init PROVE MirrorInv
  OBVIOUS
<1>1. MirrorFlags
  BY DEF Mirror!Init, MirrorFlags
<1>2. MirrorTypes
  <2>1. run \in [Actors -> RunRecords] /\ \A r \in Actors : run[r].got = 0
    BY MirrorRecords DEF Mirror!Init, Mirror!Resting
  <2>2. QED
    BY <2>1, VersionsBound DEF Mirror!Init, MirrorTypes, Mirror!Versions, Mirror!Gone
<1>3. MirrorQuiet
  BY VersionsBound
     DEF Mirror!Init, MirrorQuiet, InStep, Mirror!Resting, Mirror!Listed, Mirror!Gone
<1>4. QED
  BY <1>1, <1>2, <1>3 DEF MirrorInv

LEMMA MirrorFlagged == MirrorFlags /\ MirrorSteps => MirrorFlags'
<1> SUFFICES ASSUME MirrorFlags, MirrorSteps PROVE MirrorFlags'
  OBVIOUS
<1> USE DEF MirrorFlags
<1>1. ASSUME Mirror!Change PROVE MirrorFlags'
  BY <1>1 DEF Mirror!Change
<1>2. ASSUME Mirror!Hook PROVE MirrorFlags'
  BY <1>2 DEF Mirror!Hook
<1>3. ASSUME NEW r \in Actors, Mirror!Fetch(r) PROVE MirrorFlags'
  BY <1>3 DEF Mirror!Fetch
<1>4. ASSUME NEW r \in Actors, Mirror!Write(r) PROVE MirrorFlags'
  BY <1>4 DEF Mirror!Write, Mirror!causes
<1>5. ASSUME NEW r \in Actors, Mirror!Prune(r) PROVE MirrorFlags'
  BY <1>5 DEF Mirror!Prune, Mirror!causes
<1>6. ASSUME NEW r \in Actors, Mirror!End(r) PROVE MirrorFlags'
  BY <1>6 DEF Mirror!End, Mirror!causes
<1>7. ASSUME NEW r \in Actors, Mirror!Fail(r) PROVE MirrorFlags'
  BY <1>7 DEF Mirror!Fail, Mirror!AfterFailure, Mirror!causes
<1>8. CASE UNCHANGED mirrorVars
  BY <1>8 DEF mirrorVars
<1>9. QED
  BY <1>1, <1>2, <1>3, <1>4, <1>5, <1>6, <1>7, <1>8 DEF MirrorSteps, Mirror!Next

\* No step of it leaves the types.
LEMMA MirrorTyped == MirrorFlags /\ MirrorTypes /\ MirrorSteps => MirrorTypes'
<1> SUFFICES ASSUME MirrorFlags, MirrorTypes, MirrorSteps PROVE MirrorTypes'
  OBVIOUS
<1> USE DEF MirrorTypes
<1>1. ASSUME Mirror!Change PROVE MirrorTypes'
  <2>1. PICK v \in {version + 1, Mirror!Gone} :
            /\ version' = v
            /\ changed' = (v # Mirror!Gone)
            /\ hooks' \in {hooks, hooks \cup {v}}
    BY <1>1 DEF Mirror!Change
  <2>2. v \in Mirror!Versions /\ version < v
    BY <1>1, <2>1, VersionsBound DEF Mirror!Change, Mirror!Versions, Mirror!Gone
  <2>3. changed' => v # Mirror!Gone
    BY <2>1, Zenon
  <2>4. hooks' \subseteq 1 .. version'
    BY <2>1, <2>2, VersionsBound DEF Mirror!Versions, Mirror!Gone
  <2>5. QED
    <3>1. row' = row /\ seen' = seen /\ run' = run
      BY <1>1 DEF Mirror!Change
    <3>2. version' \notin {0} /\ version <= version' /\ version' \in Mirror!Versions
      BY <2>1, <2>2, VersionsBound DEF Mirror!Versions, Mirror!Gone
    <3>3. changed' => version' \notin {0, Mirror!Gone}
      BY <2>1, <2>3, <3>2
    <3>4. seen' <= version' /\ \A r \in Actors : run'[r].got <= version'
      BY <3>1, <3>2, VersionsBound DEF RunRecords, Mirror!Versions, Mirror!Gone
    <3>5. QED
      BY <2>4, <3>1, <3>2, <3>3, <3>4
<1>2. ASSUME Mirror!Hook PROVE MirrorTypes'
  BY <1>2, MirrorRecords, VersionsBound
     DEF Mirror!Hook, Mirror!Versions, Mirror!Gone, Mirror!Larger
<1>3. ASSUME NEW r \in Actors, Mirror!Fetch(r) PROVE MirrorTypes'
  <2>1. PICK full \in BOOLEAN, got \in {Mirror!Listed(version), 0} :
            run' = [run EXCEPT ![r] = [phase |-> "fetched", full |-> full, got |-> got]]
    BY <1>3, Zenon DEF Mirror!Fetch
  <2>2. got \in Mirror!Versions /\ got <= version
    BY MirrorRecords DEF Mirror!Versions, Mirror!Gone, Mirror!Listed
  <2>3. run' \in [Actors -> RunRecords]
    BY <2>1, <2>2, MirrorRecords
  <2>4. QED
    BY <1>3, <2>1, <2>2, <2>3 DEF Mirror!Fetch
<1>4. ASSUME NEW r \in Actors, Mirror!Write(r) PROVE MirrorTypes'
  <2>1. run' \in [Actors -> RunRecords]
    BY <1>4 DEF Mirror!Write, RunRecords
  <2>2. run[r].got \in Mirror!Versions
    BY DEF RunRecords
  <2>3. run'[r].got = run[r].got /\ \A v \in Actors \ {r} : run'[v] = run[v]
    BY <1>4 DEF Mirror!Write, RunRecords
  <2>4. QED
    BY <1>4, <2>1, <2>2, <2>3, MirrorRecords DEF Mirror!Write, Mirror!causes, Mirror!Larger
<1>5. ASSUME NEW r \in Actors, Mirror!Prune(r) PROVE MirrorTypes'
  <2>1. run' \in [Actors -> RunRecords] /\ \A v \in Actors : run'[v].got = run[v].got
    BY <1>5 DEF Mirror!Prune, RunRecords
  <2>2. QED
    BY <1>5, <2>1, MirrorRecords, VersionsBound
       DEF Mirror!Prune, Mirror!causes, Mirror!Larger, Mirror!Versions, Mirror!Gone
<1>6. ASSUME NEW r \in Actors, Mirror!End(r) PROVE MirrorTypes'
  <2>1. run' \in [Actors -> RunRecords]
    BY <1>6, MirrorRecords DEF Mirror!End
  <2>2. \A v \in Actors : run'[v].got \in {run[v].got, 0}
    BY <1>6 DEF Mirror!End, Mirror!Resting
  <2>3. (changed' = FALSE /\ cursor' = TRUE) \/ (changed' = changed /\ cursor' = cursor)
    BY <1>6 DEF Mirror!End
  <2>4. changed' => changed
    BY <2>3, Zenon
  <2>5. QED
    BY <1>6, <2>1, <2>2, <2>4, VersionsBound
       DEF Mirror!End, Mirror!causes, Mirror!Versions, Mirror!Gone
<1>7. ASSUME NEW r \in Actors, Mirror!Fail(r) PROVE MirrorTypes'
  BY <1>7, VersionsBound
     DEF Mirror!Fail, Mirror!AfterFailure, Mirror!Resting, RunRecords, Mirror!causes,
         Mirror!Versions, Mirror!Gone
<1>8. CASE UNCHANGED mirrorVars
  BY <1>8 DEF mirrorVars
<1>9. QED
  BY <1>1, <1>2, <1>3, <1>4, <1>5, <1>6, <1>7, <1>8 DEF MirrorSteps, Mirror!Next

\* No step of it breaks the invariant.
LEMMA MirrorKept == MirrorFlags /\ MirrorTypes /\ MirrorQuiet /\ MirrorSteps => MirrorQuiet'
<1> SUFFICES ASSUME MirrorFlags, MirrorTypes, MirrorQuiet, MirrorSteps PROVE MirrorQuiet'
  OBVIOUS
<1> USE DEF MirrorTypes, RunRecords, MirrorQuiet, InStep, Mirror!causes, Mirror!Gone,
           Mirror!Versions, Mirror!Listed, Mirror!Larger
<1>1. ASSUME Mirror!Change PROVE MirrorQuiet'
  BY <1>1, VersionsBound DEF Mirror!Change
<1>2. ASSUME Mirror!Hook PROVE MirrorQuiet'
  <2>1. PICK v \in hooks :
            /\ hooks' = hooks \ {v}
            /\ row' = Mirror!Listed(v)
            /\ seen' = Mirror!Larger(seen, v)
            /\ reordered' = (reordered \/ v < seen)
    BY <1>2 DEF Mirror!Hook
  <2>2. CASE v < seen
    BY <2>1, <2>2, Zenon DEF MirrorQuiet
  <2>3. CASE ~(v < seen)
    <3>1. reordered => reordered'
      BY <2>1, Zenon
    <3>2. UNCHANGED <<version, changed, run, overtaken, unseen, capped>>
      BY <1>2 DEF Mirror!Hook
    <3>3. QED
      BY <2>1, <2>3, <3>1, <3>2, VersionsBound
  <2>4. QED
    BY <2>2, <2>3
<1>3. ASSUME NEW r \in Actors, Mirror!Fetch(r) PROVE MirrorQuiet'
  <2>1. PICK full \in {TRUE, ~cursor} :
            \E got \in {IF full \/ changed THEN Mirror!Listed(version) ELSE 0, 0} :
                /\ run' = [run EXCEPT ![r] = [phase |-> "fetched", full |-> full, got |-> got]]
                /\ capped' = (capped
                              \/ got # IF full \/ changed THEN Mirror!Listed(version) ELSE 0)
    BY <1>3, Zenon DEF Mirror!Fetch
  <2> DEFINE listed == IF full \/ changed THEN Mirror!Listed(version) ELSE 0
  <2>2. PICK got \in {listed, 0} :
            /\ run' = [run EXCEPT ![r] = [phase |-> "fetched", full |-> full, got |-> got]]
            /\ capped' = (capped \/ got # listed)
    BY <2>1, Zenon
  <2>3. CASE got # listed
    BY <2>2, <2>3, Zenon DEF MirrorQuiet
  <2>4. CASE got = listed
    <3>1. capped => capped'
      BY <2>2, Zenon
    <3>2. run'[r].phase = "fetched" /\ run'[r].full = full /\ run'[r].got = listed
      BY <2>2, <2>4
    <3>3. \A v \in Actors \ {r} : run'[v] = run[v]
      BY <2>2
    <3>4. UNCHANGED <<version, changed, hooks, row, seen, overtaken, reordered, unseen>>
      BY <1>3 DEF Mirror!Fetch
    <3>5. QED
      BY <3>1, <3>2, <3>3, <3>4, VersionsBound
  <2>5. QED
    BY <2>3, <2>4
<1>4. ASSUME NEW r \in Actors, Mirror!Write(r) PROVE MirrorQuiet'
  BY <1>4, VersionsBound DEF Mirror!Write
<1>5. ASSUME NEW r \in Actors, Mirror!Prune(r) PROVE MirrorQuiet'
  BY <1>5, VersionsBound DEF Mirror!Prune
<1>6. ASSUME NEW r \in Actors, Mirror!End(r) PROVE MirrorQuiet'
  BY <1>6, VersionsBound DEF Mirror!End, Mirror!Resting
<1>7. ASSUME NEW r \in Actors, Mirror!Fail(r) PROVE MirrorQuiet'
  BY <1>7, VersionsBound DEF Mirror!Fail, Mirror!AfterFailure, Mirror!Resting
<1>8. CASE UNCHANGED mirrorVars
  BY <1>8 DEF mirrorVars
<1>9. QED
  BY <1>1, <1>2, <1>3, <1>4, <1>5, <1>6, <1>7, <1>8 DEF MirrorSteps, Mirror!Next

\* The mirror has what GitHub has, or the next run will list it, unless what the property
\* excepts has happened.
THEOREM TheMirrorCatchesUp == ServicesSpec => []MirrorCatchesUp
<1>1. ServicesInit => MirrorInv
  BY MirrorBegins DEF ServicesInit
<1>2. MirrorInv => MirrorCatchesUp
  BY DEF MirrorInv, MirrorQuiet, InStep, MirrorCatchesUp, Mirror!MirrorCatchesUp
<1>3. MirrorInv /\ [ServicesNext]_servicesVars => MirrorInv'
  BY MirrorAlone, MirrorFlagged, MirrorTyped, MirrorKept DEF MirrorInv
<1>4. QED
  BY <1>1, <1>2, <1>3, PTL DEF ServicesSpec

-----------------------------------------------------------------------------
(* CapabilityRuns: one answer for a key *)

CapabilitySteps == [Capability!Next]_capabilityVars

\* A step of the composition is a step of the executor, or leaves it alone.
LEMMA CapabilityAlone == [ServicesNext]_servicesVars => CapabilitySteps
BY DEF ServicesNext, servicesVars, IncidentStep, SessionStep, GroupStep, ReportStep, SlackStep,
       MirrorStep, RecoveryStep, SignInStep, CapabilityStep, CapabilitySteps

\* The instance counts as the theorems about finite sets do.
LEMMA CapabilityCounts == \A S : Capability!Cardinality(S) = Cardinality(S)
BY DEF Capability!Cardinality, Cardinality

CallerRecords == [phase : {"idle", "reclaiming", "running", "ran"}, answer : 0 .. MaxRuns]

\* An answer that somebody holds or the row has stored is one the provider gave.
CapabilityTypes ==
    /\ Capability!TypeOK
    /\ \A c \in Actors : caller[c].phase = "ran" => caller[c].answer > 0
    /\ capability = "completed" => receipt > 0

\* Unless a command was sent while it ran, one caller at a time works on the key, and
\* before the run is completed nobody has an answer; afterwards nobody works on it, and
\* all have the stored one.
CapabilityQuiet ==
    overlapped \/
        /\ \A c, d \in Actors : caller[c].phase # "idle" /\ caller[d].phase # "idle" => c = d
        /\ capability = "completed" => \A c \in Actors : caller[c].phase = "idle"
        /\ answers = IF capability = "completed" THEN {receipt} ELSE {}

CapabilityInv == CapabilityTypes /\ CapabilityQuiet

LEMMA CapabilityBegins == Capability!Init => CapabilityInv
<1> SUFFICES ASSUME Capability!Init PROVE CapabilityInv
  OBVIOUS
<1>1. Capability!Resting \in CallerRecords
  BY RunsBound DEF Capability!Resting, CallerRecords
<1>2. caller \in [Actors -> CallerRecords] /\ \A c \in Actors : caller[c].phase = "idle"
  BY <1>1 DEF Capability!Init, Capability!Resting
<1>3. CapabilityTypes
  <2>1. id = Nobody /\ capability = "absent" /\ receipt = 0 /\ runs = 0 /\ answers = {}
        /\ overlapped = FALSE
    BY DEF Capability!Init
  <2>2. receipt \in 0 .. MaxRuns /\ runs \in 0 .. MaxRuns
    BY <2>1, RunsBound
  <2>3. overlapped \in BOOLEAN
    BY <2>1
  <2>4. QED
    BY <1>2, <2>1, <2>2, <2>3 DEF CapabilityTypes, Capability!TypeOK, CallerRecords
<1>4. CapabilityQuiet
  BY <1>2 DEF Capability!Init, CapabilityQuiet
<1>5. QED
  BY <1>3, <1>4 DEF CapabilityInv

\* No step of it leaves the types.
LEMMA CapabilityTyped == CapabilityTypes /\ CapabilitySteps => CapabilityTypes'
<1> SUFFICES ASSUME CapabilityTypes, CapabilitySteps PROVE CapabilityTypes'
  OBVIOUS
<1> USE DEF CapabilityTypes, Capability!TypeOK, CallerRecords, Capability!Resting
<1>1. ASSUME NEW c \in Actors, NEW key \in Ids, Capability!Claim(c, key)
      PROVE  CapabilityTypes'
  BY <1>1, RunsBound DEF Capability!Claim, Capability!Others
<1>2. ASSUME NEW c \in Actors, NEW key \in Ids, Capability!Repeat(c, key)
      PROVE  CapabilityTypes'
  BY <1>2, RunsBound DEF Capability!Repeat
<1>3. ASSUME NEW c \in Actors, Capability!Reclaim(c) PROVE CapabilityTypes'
  BY <1>3, RunsBound DEF Capability!Reclaim, Capability!Goes, Capability!Ends
<1>4. ASSUME NEW c \in Actors, Capability!Run(c) PROVE CapabilityTypes'
  <2>1. runs' \in 1 .. MaxRuns
    BY <1>4, RunsBound DEF Capability!Run
  <2>2. caller' \in [Actors -> CallerRecords]
    <3>1. runs' \in 0 .. MaxRuns
      BY <2>1, RunsBound
    <3>2. caller' = [caller EXCEPT ![c].phase = "ran", ![c].answer = runs']
      BY <1>4 DEF Capability!Run
    <3>3. QED
      BY <3>1, <3>2
  <2>3. \A d \in Actors : caller'[d].phase = "ran" => caller'[d].answer > 0
    BY <1>4, <2>1 DEF Capability!Run
  <2>4. QED
    BY <1>4, <2>1, <2>2, <2>3 DEF Capability!Run
<1>5. ASSUME NEW c \in Actors, Capability!Finish(c) PROVE CapabilityTypes'
  <2>1. caller[c].answer \in 1 .. MaxRuns
    BY <1>5, RunsBound DEF Capability!Finish
  <2>2. caller' \in [Actors -> CallerRecords]
    BY <1>5, RunsBound DEF Capability!Finish, Capability!Ends
  <2>3. \A d \in Actors : caller'[d].phase = "ran" => caller'[d].answer > 0
    BY <1>5 DEF Capability!Finish, Capability!Ends
  <2>4. QED
    BY <1>5, <2>1, <2>2, <2>3 DEF Capability!Finish, Capability!Finished
<1>6. ASSUME NEW c \in Actors, Capability!Fail(c) PROVE CapabilityTypes'
  BY <1>6, RunsBound DEF Capability!Fail, Capability!Ends
<1>7. ASSUME NEW c \in Actors, Capability!Die(c) PROVE CapabilityTypes'
  BY <1>7, RunsBound DEF Capability!Die, Capability!Ends
<1>8. CASE UNCHANGED capabilityVars
  BY <1>8 DEF capabilityVars
<1>9. QED
  BY <1>1, <1>2, <1>3, <1>4, <1>5, <1>6, <1>7, <1>8 DEF CapabilitySteps, Capability!Next

\* No step of it breaks the invariant.
LEMMA CapabilityKept == CapabilityTypes /\ CapabilityQuiet /\ CapabilitySteps =>
    CapabilityQuiet'
<1> SUFFICES ASSUME CapabilityTypes, CapabilityQuiet, CapabilitySteps PROVE CapabilityQuiet'
  OBVIOUS
<1> USE DEF CapabilityTypes, CapabilityQuiet, Capability!TypeOK, CallerRecords,
           Capability!Resting
<1>1. ASSUME NEW c \in Actors, NEW key \in Ids, Capability!Claim(c, key)
      PROVE  CapabilityQuiet'
  BY <1>1, RunsBound DEF Capability!Claim, Capability!Others
<1>2. ASSUME NEW c \in Actors, NEW key \in Ids, Capability!Repeat(c, key)
      PROVE  CapabilityQuiet'
  BY <1>2, RunsBound DEF Capability!Repeat
<1>3. ASSUME NEW c \in Actors, Capability!Reclaim(c) PROVE CapabilityQuiet'
  BY <1>3, RunsBound DEF Capability!Reclaim, Capability!Goes, Capability!Ends
<1>4. ASSUME NEW c \in Actors, Capability!Run(c) PROVE CapabilityQuiet'
  BY <1>4, RunsBound DEF Capability!Run
<1>5. ASSUME NEW c \in Actors, Capability!Finish(c) PROVE CapabilityQuiet'
  BY <1>5, RunsBound DEF Capability!Finish, Capability!Finished, Capability!Ends
<1>6. ASSUME NEW c \in Actors, Capability!Fail(c) PROVE CapabilityQuiet'
  BY <1>6, RunsBound DEF Capability!Fail, Capability!Ends
<1>7. ASSUME NEW c \in Actors, Capability!Die(c) PROVE CapabilityQuiet'
  BY <1>7, RunsBound DEF Capability!Die, Capability!Ends
<1>8. CASE UNCHANGED capabilityVars
  BY <1>8 DEF capabilityVars
<1>9. QED
  BY <1>1, <1>2, <1>3, <1>4, <1>5, <1>6, <1>7, <1>8 DEF CapabilitySteps, Capability!Next

\* All callers of a key get the same answer, unless a command was sent again while it ran.
THEOREM KeysHaveOneAnswer == ServicesSpec => []OneAnswerPerKey
<1>1. ServicesInit => CapabilityInv
  BY CapabilityBegins DEF ServicesInit
<1>2. CapabilityInv => OneAnswerPerKey
  <2>1. CapabilityInv => answers = {} \/ answers = {receipt} \/ overlapped
    BY Zenon DEF CapabilityInv, CapabilityQuiet
  <2>2. Cardinality({}) = 0 /\ Cardinality({receipt}) = 1
    BY FS_EmptySet, FS_Singleton
  <2>3. QED
    BY <2>1, <2>2, CapabilityCounts DEF OneAnswerPerKey, Capability!OneAnswerPerKey
<1>3. CapabilityInv /\ [ServicesNext]_servicesVars => CapabilityInv'
  BY CapabilityAlone, CapabilityTyped, CapabilityKept DEF CapabilityInv
<1>4. QED
  BY <1>1, <1>2, <1>3, PTL DEF ServicesSpec

-----------------------------------------------------------------------------
(* DeviceSignIn: an approved sign-in is not denied, and its connection is honoured *)

DeviceSteps == [Device!Next]_signInVars

\* A step of the composition is a step of the sign-in, or leaves it alone.
LEMMA DeviceAlone == [ServicesNext]_servicesVars => DeviceSteps
BY DEF ServicesNext, servicesVars, IncidentStep, SessionStep, GroupStep, ReportStep, SlackStep,
       MirrorStep, RecoveryStep, SignInStep, CapabilityStep, DeviceSteps

PollRecords ==
    [phase : {"idle", "read", "claimed", "exchanged", "persisted"}, got : 0 .. MaxTokens]
ResolverRecords ==
    [phase : {"idle", "read", "refreshed"}, read : 0 .. MaxTokens, got : 0 .. MaxTokens]

SignInFlags ==
    result \in BOOLEAN /\ due \in BOOLEAN /\ slow \in BOOLEAN /\ signInLost \in BOOLEAN

\* Every token that anybody holds GitHub has issued.
SignInTypes ==
    /\ approval \in {"waiting", "approved", "denied", "used"}
    /\ poll \in [Actors -> PollRecords]
    /\ told \in {"nothing", "complete", "denied"}
    /\ issued \in 0 .. MaxTokens
    /\ honoured \subseteq 1 .. issued
    /\ connection \in 0 .. issued
    /\ resolver \in [Actors -> ResolverRecords]
    /\ \A p \in Actors : poll[p].got <= issued
    /\ \A p \in Actors : poll[p].phase = "exchanged" => poll[p].got > 0
    /\ \A r \in Actors : resolver[r].read <= issued /\ resolver[r].got <= issued
    /\ \A r \in Actors : resolver[r].phase = "refreshed" => resolver[r].got > 0

\* A poll that has claimed the interval.
Busy(p) == poll[p].phase \in {"claimed", "exchanged", "persisted"}

\* While no poll is slow, the interval is that of the one poll which is busy; a row with a
\* result has none; and a used code has its result, or the poll that will set it.
PollQuiet ==
    slow \/ signInLost \/
        /\ \A p \in Actors : Busy(p) => ~due /\ ~result
        /\ \A p, v \in Actors : Busy(p) /\ Busy(v) => p = v
        /\ \A p \in Actors : poll[p].phase \in {"exchanged", "persisted"} => approval = "used"
        /\ approval = "used" =>
               result \/ \E p \in Actors : poll[p].phase \in {"exchanged", "persisted"}
        /\ told = "denied" => approval = "denied"

\* While no answer of GitHub's is lost, one token at most is honoured: the one a poll is
\* about to store, the one a request is about to store, or the stored one; and nobody has
\* read one that is honoured but is not stored.
ConnectionQuiet ==
    signInLost \/
        /\ approval # "used" => connection = 0 /\ honoured = {}
        /\ \A p \in Actors :
               poll[p].phase = "exchanged" =>
                   approval = "used" /\ connection = 0 /\ honoured = {poll[p].got}
        /\ \A p, v \in Actors :
               poll[p].phase = "exchanged" /\ poll[v].phase = "exchanged" => p = v
        /\ connection = 0 => \A r \in Actors : resolver[r].phase = "idle"
        /\ \A r \in Actors :
               resolver[r].phase = "refreshed" =>
                   honoured = {resolver[r].got} /\ resolver[r].got # connection
        /\ \A r, s \in Actors :
               resolver[r].phase = "refreshed" /\ resolver[s].phase = "refreshed" => r = s
        /\ \A r \in Actors :
               resolver[r].phase = "read" /\ resolver[r].read \in honoured =>
                   resolver[r].read = connection
        /\ connection # 0 /\ (\A r \in Actors : resolver[r].phase # "refreshed") =>
               honoured = {connection}

SignInInv == SignInFlags /\ SignInTypes /\ PollQuiet /\ ConnectionQuiet

\* What nobody who is idle holds.
LEMMA SignInRecords ==
    /\ Device!Resting \in PollRecords /\ Device!Resting.phase = "idle" /\ Device!Resting.got = 0
    /\ Device!Unread \in ResolverRecords /\ Device!Unread.phase = "idle"
    /\ Device!Unread.read = 0 /\ Device!Unread.got = 0
BY TokensBound DEF Device!Resting, Device!Unread, PollRecords, ResolverRecords

LEMMA SignInBegins == Device!Init => SignInInv
<1> SUFFICES ASSUME Device!Init PROVE SignInInv
  OBVIOUS
<1>1. SignInFlags
  BY DEF Device!Init, SignInFlags
<1>2. poll \in [Actors -> PollRecords] /\ resolver \in [Actors -> ResolverRecords]
  BY SignInRecords DEF Device!Init
<1>3. \A a \in Actors :
          /\ poll[a].phase = "idle" /\ poll[a].got = 0
          /\ resolver[a].phase = "idle"
                        /\ resolver[a].read = 0 /\ resolver[a].got = 0
  BY SignInRecords DEF Device!Init
<1>4. SignInTypes
  BY <1>2, <1>3, TokensBound DEF Device!Init, SignInTypes
<1>5. PollQuiet
  BY <1>3 DEF Device!Init, PollQuiet, Busy
<1>6. ConnectionQuiet
  BY <1>3 DEF Device!Init, ConnectionQuiet
<1>7. QED
  BY <1>1, <1>4, <1>5, <1>6 DEF SignInInv

\* No step of it leaves the types.
LEMMA SignInFlagged == SignInFlags /\ DeviceSteps => SignInFlags'
<1> SUFFICES ASSUME SignInFlags, DeviceSteps PROVE SignInFlags'
  OBVIOUS
<1> USE DEF SignInFlags
<1>1. ASSUME Device!Decide PROVE SignInFlags'
  BY <1>1 DEF Device!Decide
<1>2. ASSUME Device!Pass PROVE SignInFlags'
  BY <1>2 DEF Device!Pass
<1>3. ASSUME NEW p \in Actors, Device!Read(p) PROVE SignInFlags'
  BY <1>3 DEF Device!Read
<1>4. ASSUME NEW p \in Actors, Device!Claim(p) PROVE SignInFlags'
  BY <1>4 DEF Device!Claim, Device!Claimable, Device!Resting
<1>5. ASSUME NEW p \in Actors, Device!Exchange(p) PROVE SignInFlags'
  BY <1>5 DEF Device!Exchange, Device!Resting
<1>6. ASSUME NEW p \in Actors, Device!Persist(p) PROVE SignInFlags'
  BY <1>6 DEF Device!Persist
<1>7. ASSUME NEW p \in Actors, Device!Complete(p) PROVE SignInFlags'
  BY <1>7 DEF Device!Complete, Device!Resting
<1>8. ASSUME NEW p \in Actors, Device!BreakOff(p) PROVE SignInFlags'
  BY <1>8 DEF Device!BreakOff, Device!Resting
<1>9. ASSUME NEW r \in Actors, Device!Resolve(r) PROVE SignInFlags'
  BY <1>9 DEF Device!Resolve, Device!pollVars
<1>10. ASSUME NEW r \in Actors, Device!Refresh(r) PROVE SignInFlags'
  BY <1>10 DEF Device!Refresh, Device!pollVars, Device!Unread
<1>11. ASSUME NEW r \in Actors, Device!Save(r) PROVE SignInFlags'
  BY <1>11 DEF Device!Save, Device!pollVars, Device!Stored, Device!Unread
<1>12. ASSUME NEW r \in Actors, Device!Lose(r) PROVE SignInFlags'
  BY <1>12 DEF Device!Lose, Device!pollVars, Device!Unread
<1>13. CASE UNCHANGED signInVars
  BY <1>13 DEF signInVars
<1>14. QED
  BY <1>1, <1>2, <1>3, <1>4, <1>5, <1>6, <1>7, <1>8, <1>9, <1>10, <1>11, <1>12, <1>13
     DEF DeviceSteps, Device!Next

LEMMA SignInTyped == SignInTypes /\ DeviceSteps => SignInTypes'
<1> SUFFICES ASSUME SignInTypes, DeviceSteps PROVE SignInTypes'
  OBVIOUS
<1> USE DEF SignInTypes, PollRecords, ResolverRecords
<1>1. ASSUME Device!Decide PROVE SignInTypes'
  BY <1>1, TokensBound, SignInRecords DEF Device!Decide
<1>2. ASSUME Device!Pass PROVE SignInTypes'
  BY <1>2, TokensBound, SignInRecords DEF Device!Pass
<1>3. ASSUME NEW p \in Actors, Device!Read(p) PROVE SignInTypes'
  <2>1. poll' \in [Actors -> PollRecords] /\ \A v \in Actors : poll'[v].got = poll[v].got
    BY <1>3 DEF Device!Read
  <2>2. \A v \in Actors : poll'[v].phase = "exchanged" => poll[v].phase = "exchanged"
    BY <1>3 DEF Device!Read
  <2>3. /\ told' \in {told, "complete"}
        /\ UNCHANGED <<approval, issued, honoured, connection, resolver>>
    BY <1>3 DEF Device!Read
  <2>4. QED
    BY <2>1, <2>2, <2>3
<1>4. ASSUME NEW p \in Actors, Device!Claim(p) PROVE SignInTypes'
  <2>1. /\ poll' \in [Actors -> PollRecords]
        /\ \A v \in Actors : poll'[v].got \in {poll[v].got, 0}
        /\ \A v \in Actors : poll'[v].phase = "exchanged" => poll'[v] = poll[v]
    BY <1>4, SignInRecords DEF Device!Claim
  <2>2. UNCHANGED <<approval, told, issued, honoured, connection, resolver>>
    BY <1>4 DEF Device!Claim
  <2>3. QED
    BY <2>1, <2>2, TokensBound
<1>5. ASSUME NEW p \in Actors, Device!Exchange(p) PROVE SignInTypes'
  <2>1. CASE approval = "approved"
    <3>1. /\ issued < MaxTokens /\ issued' = issued + 1 /\ honoured' = honoured \cup {issued'}
          /\ approval' = "used" /\ told' = told
          /\ poll' = [poll EXCEPT ![p] = [phase |-> "exchanged", got |-> issued']]
      BY <1>5, <2>1 DEF Device!Exchange
    <3>2. issued' \in 1 .. MaxTokens /\ issued < issued'
      BY <3>1, TokensBound
    <3>3. poll' \in [Actors -> PollRecords]
      BY <3>1, <3>2
    <3>4. QED
      BY <1>5, <3>1, <3>2, <3>3 DEF Device!Exchange
  <2>2. CASE approval # "approved"
    <3>1. told' \in {told, "denied"} /\ UNCHANGED <<approval, issued, honoured>>
          /\ poll' = [poll EXCEPT ![p] = Device!Resting]
      BY <1>5, <2>2 DEF Device!Exchange
    <3>2. QED
      BY <1>5, <3>1, SignInRecords DEF Device!Exchange
  <2>3. QED
    BY <2>1, <2>2
<1>6. ASSUME NEW p \in Actors, Device!Persist(p) PROVE SignInTypes'
  BY <1>6, TokensBound, SignInRecords DEF Device!Persist
<1>7. ASSUME NEW p \in Actors, Device!Complete(p) PROVE SignInTypes'
  BY <1>7, TokensBound, SignInRecords DEF Device!Complete
<1>8. ASSUME NEW p \in Actors, Device!BreakOff(p) PROVE SignInTypes'
  BY <1>8, TokensBound, SignInRecords DEF Device!BreakOff
<1>9. ASSUME NEW r \in Actors, Device!Resolve(r) PROVE SignInTypes'
  BY <1>9, TokensBound, SignInRecords DEF Device!Resolve, Device!pollVars
<1>10. ASSUME NEW r \in Actors, Device!Refresh(r) PROVE SignInTypes'
  <2>1. CASE resolver[r].read \in honoured
    <3>1. /\ issued < MaxTokens /\ issued' = issued + 1
          /\ honoured' = (honoured \ {resolver[r].read}) \cup {issued'}
          /\ resolver' = [resolver EXCEPT ![r].phase = "refreshed", ![r].got = issued']
      BY <1>10, <2>1 DEF Device!Refresh
    <3>2. issued' \in 0 .. MaxTokens /\ 0 < issued' /\ issued < issued'
      BY <3>1, TokensBound
    <3>3. resolver' \in [Actors -> ResolverRecords]
      BY <3>1, <3>2
    <3>4. honoured' \subseteq 1 .. issued'
      BY <3>1, <3>2, TokensBound
    <3>5. /\ \A v \in Actors \ {r} : resolver'[v] = resolver[v]
          /\ resolver'[r].read = resolver[r].read /\ resolver'[r].got = issued'
      BY <3>1
    <3>6. QED
      BY <1>10, <3>2, <3>3, <3>4, <3>5, TokensBound DEF Device!Refresh, Device!pollVars
  <2>2. CASE resolver[r].read \notin honoured
    <3>1. /\ resolver[r].phase = "read"
          /\ resolver' = [resolver EXCEPT ![r] = Device!Unread]
          /\ UNCHANGED <<issued, honoured, approval, poll, told, connection, signInLost>>
      BY <1>10, <2>2 DEF Device!Refresh, Device!pollVars
    <3>2. QED
      BY <3>1, SignInRecords
  <2>3. QED
    BY <2>1, <2>2
<1>11. ASSUME NEW r \in Actors, Device!Save(r) PROVE SignInTypes'
  BY <1>11, TokensBound, SignInRecords DEF Device!Save, Device!pollVars, Device!Stored
<1>12. ASSUME NEW r \in Actors, Device!Lose(r) PROVE SignInTypes'
  BY <1>12, TokensBound, SignInRecords DEF Device!Lose, Device!pollVars
<1>13. CASE UNCHANGED signInVars
  BY <1>13 DEF signInVars
<1>14. QED
  BY <1>1, <1>2, <1>3, <1>4, <1>5, <1>6, <1>7, <1>8, <1>9, <1>10, <1>11, <1>12, <1>13
     DEF DeviceSteps, Device!Next

\* No step of it breaks either invariant.
LEMMA PollKept == SignInFlags /\ SignInTypes /\ PollQuiet /\ DeviceSteps => PollQuiet'
<1> SUFFICES ASSUME SignInFlags, SignInTypes, PollQuiet, DeviceSteps PROVE PollQuiet'
  OBVIOUS
<1> USE DEF SignInTypes, PollQuiet, Busy, PollRecords
<1>1. ASSUME Device!Decide PROVE PollQuiet'
  BY <1>1, TokensBound, SignInRecords DEF Device!Decide
<1>2. ASSUME Device!Pass PROVE PollQuiet'
  BY <1>2, TokensBound, SignInRecords DEF Device!Pass
<1>3. ASSUME NEW p \in Actors, Device!Read(p) PROVE PollQuiet'
  <2>1. \A v \in Actors : \A phase \in {"claimed", "exchanged", "persisted"} :
            poll'[v].phase = phase <=> poll[v].phase = phase
    BY <1>3 DEF Device!Read
  <2>2. told' \in {told, "complete"} /\ UNCHANGED <<approval, result, due, slow, signInLost>>
    BY <1>3 DEF Device!Read
  <2>3. QED
    BY <2>1, <2>2
<1>4. ASSUME NEW p \in Actors, Device!Claim(p) PROVE PollQuiet'
  <2>1. UNCHANGED <<approval, result, told, slow, signInLost>>
    BY <1>4 DEF Device!Claim
  <2>2. \A v \in Actors \ {p} : poll'[v] = poll[v]
    BY <1>4 DEF Device!Claim
  <2>3. CASE Device!Claimable
    <3>1. due /\ ~result /\ ~due' /\ poll'[p].phase = "claimed" /\ poll[p].phase = "read"
      BY <1>4, <2>3 DEF Device!Claim, Device!Claimable
    <3>2. QED
      BY <2>1, <2>2, <3>1
  <2>4. CASE ~Device!Claimable
    <3>1. due' = due /\ poll'[p].phase = "idle" /\ poll[p].phase = "read"
      BY <1>4, <2>4, SignInRecords DEF Device!Claim
    <3>2. QED
      BY <2>1, <2>2, <3>1
  <2>5. QED
    BY <2>3, <2>4
<1>5. ASSUME NEW p \in Actors, Device!Exchange(p) PROVE PollQuiet'
  BY <1>5, TokensBound, SignInRecords DEF Device!Exchange
<1>6. ASSUME NEW p \in Actors, Device!Persist(p) PROVE PollQuiet'
  BY <1>6, TokensBound, SignInRecords DEF Device!Persist
<1>7. ASSUME NEW p \in Actors, Device!Complete(p) PROVE PollQuiet'
  BY <1>7, TokensBound, SignInRecords DEF Device!Complete
<1>8. ASSUME NEW p \in Actors, Device!BreakOff(p) PROVE PollQuiet'
  BY <1>8, TokensBound, SignInRecords DEF Device!BreakOff
<1>9. ASSUME NEW r \in Actors, Device!Resolve(r) PROVE PollQuiet'
  BY <1>9, TokensBound, SignInRecords DEF Device!Resolve, Device!pollVars
<1>10. ASSUME NEW r \in Actors, Device!Refresh(r) PROVE PollQuiet'
  BY <1>10, TokensBound, SignInRecords DEF Device!Refresh, Device!pollVars
<1>11. ASSUME NEW r \in Actors, Device!Save(r) PROVE PollQuiet'
  BY <1>11, TokensBound, SignInRecords DEF Device!Save, Device!pollVars, Device!Stored
<1>12. ASSUME NEW r \in Actors, Device!Lose(r) PROVE PollQuiet'
  BY <1>12, TokensBound, SignInRecords DEF Device!Lose, Device!pollVars
<1>13. CASE UNCHANGED signInVars
  BY <1>13 DEF signInVars
<1>14. QED
  BY <1>1, <1>2, <1>3, <1>4, <1>5, <1>6, <1>7, <1>8, <1>9, <1>10, <1>11, <1>12, <1>13
     DEF DeviceSteps, Device!Next

LEMMA ConnectionKept == SignInFlags /\ SignInTypes /\ ConnectionQuiet /\ DeviceSteps =>
    ConnectionQuiet'
<1> SUFFICES ASSUME SignInFlags, SignInTypes, ConnectionQuiet, DeviceSteps
             PROVE  ConnectionQuiet'
  OBVIOUS
<1> USE DEF SignInTypes, ConnectionQuiet, PollRecords, ResolverRecords
<1>1. ASSUME Device!Decide PROVE ConnectionQuiet'
  BY <1>1, TokensBound, SignInRecords DEF Device!Decide
<1>2. ASSUME Device!Pass PROVE ConnectionQuiet'
  BY <1>2, TokensBound, SignInRecords DEF Device!Pass
<1>3. ASSUME NEW p \in Actors, Device!Read(p) PROVE ConnectionQuiet'
  <2>1. \A v \in Actors : /\ poll'[v].phase = "exchanged" <=> poll[v].phase = "exchanged"
                          /\ poll'[v].got = poll[v].got
    BY <1>3 DEF Device!Read
  <2>2. UNCHANGED <<approval, honoured, connection, resolver, signInLost>>
    BY <1>3 DEF Device!Read
  <2>3. QED
    BY <2>1, <2>2
<1>4. ASSUME NEW p \in Actors, Device!Claim(p) PROVE ConnectionQuiet'
  <2>1. \A v \in Actors : poll'[v].phase = "exchanged" <=> poll[v].phase = "exchanged"
    BY <1>4, SignInRecords DEF Device!Claim
  <2>2. \A v \in Actors : poll[v].phase = "exchanged" => poll'[v].got = poll[v].got
    BY <1>4 DEF Device!Claim
  <2>3. UNCHANGED <<approval, honoured, connection, resolver, signInLost>>
    BY <1>4 DEF Device!Claim
  <2>4. QED
    BY <2>1, <2>2, <2>3
<1>5. ASSUME NEW p \in Actors, Device!Exchange(p) PROVE ConnectionQuiet'
  <2>1. UNCHANGED <<connection, resolver, signInLost>>
    BY <1>5 DEF Device!Exchange
  <2>2. CASE approval = "approved"
    <3>1. /\ issued' = issued + 1 /\ honoured' = honoured \cup {issued'} /\ approval' = "used"
          /\ poll' = [poll EXCEPT ![p] = [phase |-> "exchanged", got |-> issued']]
      BY <1>5, <2>2 DEF Device!Exchange
    <3>2. poll'[p].got = issued' /\ \A o \in Actors \ {p} : poll'[o] = poll[o]
      BY <3>1
    <3>3. signInLost \/ (connection = 0 /\ honoured' = {issued'})
      BY <2>2, <3>1
    <3>4. QED
      BY <2>1, <2>2, <3>1, <3>2, <3>3
  <2>3. CASE approval # "approved"
    <3>1. UNCHANGED <<approval, honoured>> /\ poll' = [poll EXCEPT ![p] = Device!Resting]
      BY <1>5, <2>3 DEF Device!Exchange
    <3>2. poll'[p].phase = "idle" /\ \A o \in Actors \ {p} : poll'[o] = poll[o]
      BY <3>1, SignInRecords
    <3>3. QED
      BY <2>1, <3>1, <3>2
  <2>4. QED
    BY <2>2, <2>3
<1>6. ASSUME NEW p \in Actors, Device!Persist(p) PROVE ConnectionQuiet'
  BY <1>6, TokensBound, SignInRecords DEF Device!Persist
<1>7. ASSUME NEW p \in Actors, Device!Complete(p) PROVE ConnectionQuiet'
  BY <1>7, TokensBound, SignInRecords DEF Device!Complete
<1>8. ASSUME NEW p \in Actors, Device!BreakOff(p) PROVE ConnectionQuiet'
  BY <1>8, TokensBound, SignInRecords DEF Device!BreakOff
<1>9. ASSUME NEW r \in Actors, Device!Resolve(r) PROVE ConnectionQuiet'
  BY <1>9, TokensBound, SignInRecords DEF Device!Resolve, Device!pollVars
<1>10. ASSUME NEW r \in Actors, Device!Refresh(r) PROVE ConnectionQuiet'
  <2>1. CASE resolver[r].read \in honoured
    <3>1. /\ issued' = issued + 1
          /\ honoured' = (honoured \ {resolver[r].read}) \cup {issued'}
          /\ resolver' = [resolver EXCEPT ![r].phase = "refreshed", ![r].got = issued']
          /\ UNCHANGED <<approval, poll, connection, signInLost>>
      BY <1>10, <2>1 DEF Device!Refresh, Device!pollVars
    <3>2. /\ \A v \in Actors \ {r} : resolver'[v] = resolver[v]
          /\ resolver'[r].phase = "refreshed" /\ resolver'[r].got = issued'
      BY <3>1
    <3>3. signInLost \/ (/\ resolver[r].read = connection /\ honoured = {connection}
                         /\ approval = "used" /\ connection # 0
                         /\ \A v \in Actors : resolver[v].phase # "refreshed")
      BY <1>10, <2>1 DEF Device!Refresh
    <3>4. signInLost \/ honoured' = {issued'}
      BY <3>1, <3>3
    <3>5. issued' \notin 0 .. issued
      BY <3>1, TokensBound
    <3>6. \A v \in Actors : resolver[v].read \in 0 .. issued
      BY TokensBound
    <3>7. \A v \in Actors : poll[v].phase # "exchanged" \/ signInLost
      BY <3>3
    <3>8. QED
      BY <3>1, <3>2, <3>3, <3>4, <3>5, <3>6, <3>7
  <2>2. CASE resolver[r].read \notin honoured
    <3>1. /\ resolver[r].phase = "read"
          /\ resolver' = [resolver EXCEPT ![r] = Device!Unread]
          /\ UNCHANGED <<issued, honoured, approval, poll, told, connection, signInLost>>
      BY <1>10, <2>2 DEF Device!Refresh, Device!pollVars
    <3>2. QED
      BY <3>1, SignInRecords
  <2>3. QED
    BY <2>1, <2>2
<1>11. ASSUME NEW r \in Actors, Device!Save(r) PROVE ConnectionQuiet'
  BY <1>11, TokensBound, SignInRecords DEF Device!Save, Device!pollVars, Device!Stored
<1>12. ASSUME NEW r \in Actors, Device!Lose(r) PROVE ConnectionQuiet'
  BY <1>12, TokensBound, SignInRecords DEF Device!Lose, Device!pollVars
<1>13. CASE UNCHANGED signInVars
  BY <1>13 DEF signInVars
<1>14. QED
  BY <1>1, <1>2, <1>3, <1>4, <1>5, <1>6, <1>7, <1>8, <1>9, <1>10, <1>11, <1>12, <1>13
     DEF DeviceSteps, Device!Next


\* A client whose user approved the code is not told that it was denied, and the stored
\* refresh token is honoured, unless a poll was slow or what GitHub gave was lost.
THEOREM ApprovedSignInsHold == ServicesSpec => []ApprovedSignInHolds
<1>1. ServicesInit => SignInInv
  BY SignInBegins DEF ServicesInit
<1>2. SignInInv => ApprovedSignInHolds
  <2>1. SignInInv => Device!ApprovedIsNotDenied
    BY DEF SignInInv, PollQuiet, Device!ApprovedIsNotDenied
  <2>2. SignInInv => Device!ConnectionIsHonoured
    BY DEF SignInInv, ConnectionQuiet, Device!ConnectionIsHonoured
  <2>3. QED
    BY <2>1, <2>2 DEF ApprovedSignInHolds
<1>3. SignInInv /\ [ServicesNext]_servicesVars => SignInInv'
  BY DeviceAlone, SignInFlagged, SignInTyped, PollKept, ConnectionKept DEF SignInInv
<1>4. QED
  BY <1>1, <1>2, <1>3, PTL DEF ServicesSpec

-----------------------------------------------------------------------------
(* ErrorGroups: a fingerprint is announced once per cooldown *)

GroupSteps == [Group!Next]_groupVars

\* A step of the composition is a step of a group, or leaves it alone.
LEMMA GroupAlone == [ServicesNext]_servicesVars => GroupSteps
BY DEF ServicesNext, servicesVars, IncidentStep, SessionStep, GroupStep, ReportStep, SlackStep,
       MirrorStep, RecoveryStep, SignInStep, CapabilityStep, GroupSteps

RequestRecords ==
    [phase : {"idle", "decided", "stored"}, event : 0 .. MaxEvents, notify : BOOLEAN,
     time : 0 .. MaxTime]

GroupFlags == resolved \in BOOLEAN /\ groupRaced \in BOOLEAN

\* What was decided was decided in the past.
GroupTypes ==
    /\ now \in 1 .. MaxTime
    /\ arrived \in 0 .. MaxEvents
    /\ notifiedAt \in 0 .. now
    /\ request \in [Actors -> RequestRecords]
    /\ announced \subseteq [event : 1 .. MaxEvents, time : 1 .. MaxTime]
    /\ resolvedAt \subseteq 1 .. now
    /\ \A r \in Actors : request[r].time <= now
    /\ \A r \in Actors : request[r].phase # "idle" =>
           request[r].time > 0 /\ request[r].event > 0

\* The messages that are published, and those of requests that have stored their event
\* and will publish them.
Message(r) == [event |-> request[r].event, time |-> request[r].time]
Said ==
    announced \cup
        {Message(r) : r \in {s \in Actors : request[s].phase = "stored" /\ request[s].notify}}

ResolvedBetween(from, to) == \E t \in resolvedAt : from <= t /\ t <= to

\* Unless two requests decided at one time, the group's last notification is the latest of
\* all messages, a group that is resolved was resolved after it, and the one request that
\* has decided to notify did so because nothing was said for a cooldown, or the group was
\* resolved since.
OneDecides ==
    \A r, s \in Actors : request[r].phase = "decided" /\ request[s].phase = "decided" => r = s
SaidByThen == \A a \in Said : a.time <= notifiedAt
ResolvedSince == resolved => ResolvedBetween(notifiedAt, now)
DecidedWell ==
    \A r \in Actors :
        request[r].phase = "decided" =>
            /\ notifiedAt <= request[r].time
            /\ request[r].notify => \/ notifiedAt = 0
                                    \/ request[r].time - notifiedAt >= Cooldown
                                    \/ ResolvedBetween(notifiedAt, request[r].time)
SaidApart ==
    \A a, b \in Said :
        a # b /\ a.time <= b.time /\ b.time - a.time < Cooldown =>
            ResolvedBetween(a.time, b.time)

GroupQuiet ==
    groupRaced \/ (OneDecides /\ SaidByThen /\ ResolvedSince /\ DecidedWell /\ SaidApart)

GroupInv == GroupFlags /\ GroupTypes /\ GroupQuiet

LEMMA GroupRecords ==
    /\ Group!Idle \in RequestRecords /\ Group!Idle.phase = "idle" /\ Group!Idle.time = 0
    /\ \A event \in 0 .. MaxEvents, says \in BOOLEAN, time \in 0 .. MaxTime :
           [phase |-> "decided", event |-> event, notify |-> says, time |-> time]
               \in RequestRecords
BY EventsBound DEF Group!Idle, RequestRecords

LEMMA GroupBegins == Group!Init => GroupInv
<1> SUFFICES ASSUME Group!Init PROVE GroupInv
  OBVIOUS
<1>1. GroupFlags
  BY DEF Group!Init, GroupFlags
<1>2. /\ request \in [Actors -> RequestRecords]
      /\ \A r \in Actors : request[r].phase = "idle" /\ request[r].time = 0
  BY GroupRecords DEF Group!Init
<1>3. now = 1 /\ arrived = 0 /\ notifiedAt = 0 /\ announced = {} /\ resolvedAt = {}
  BY DEF Group!Init
<1>4. GroupTypes
  BY <1>2, <1>3, EventsBound DEF GroupTypes
<1>5. Said = {}
  BY <1>2, <1>3 DEF Said
<1>6. ~resolved
  BY DEF Group!Init
<1>7. GroupQuiet
  BY <1>2, <1>5, <1>6
     DEF GroupQuiet, OneDecides, SaidByThen, ResolvedSince, DecidedWell, SaidApart
<1>8. QED
  BY <1>1, <1>4, <1>7 DEF GroupInv

\* No step of it leaves the types.
LEMMA GroupFlagged == GroupFlags /\ GroupSteps => GroupFlags'
<1> SUFFICES ASSUME GroupFlags, GroupSteps PROVE GroupFlags'
  OBVIOUS
<1> USE DEF GroupFlags
<1>1. ASSUME Group!Tick PROVE GroupFlags'
  BY <1>1 DEF Group!Tick, Group!groupVars
<1>2. ASSUME Group!Resolve PROVE GroupFlags'
  BY <1>2 DEF Group!Resolve
<1>3. ASSUME Group!Reopen PROVE GroupFlags'
  BY <1>3 DEF Group!Reopen
<1>4. ASSUME NEW r \in Actors, Group!Decide(r) PROVE GroupFlags'
  BY <1>4 DEF Group!Decide, Group!groupVars
<1>5. ASSUME NEW r \in Actors, Group!Store(r) PROVE GroupFlags'
  BY <1>5 DEF Group!Store
<1>6. ASSUME NEW r \in Actors, Group!Announce(r) PROVE GroupFlags'
  BY <1>6 DEF Group!Announce, Group!groupVars
<1>7. ASSUME NEW r \in Actors, Group!BreakOff(r) PROVE GroupFlags'
  BY <1>7 DEF Group!BreakOff, Group!groupVars
<1>8. CASE UNCHANGED groupVars
  BY <1>8 DEF groupVars
<1>9. QED
  BY <1>1, <1>2, <1>3, <1>4, <1>5, <1>6, <1>7, <1>8 DEF GroupSteps, Group!Next

LEMMA GroupTyped == GroupTypes /\ GroupSteps => GroupTypes'
<1> SUFFICES ASSUME GroupTypes, GroupSteps PROVE GroupTypes'
  OBVIOUS
<1> USE DEF GroupTypes, RequestRecords, Group!groupVars
<1>1. ASSUME Group!Tick PROVE GroupTypes'
  BY <1>1, EventsBound, GroupRecords DEF Group!Tick
<1>2. ASSUME Group!Resolve PROVE GroupTypes'
  BY <1>2, EventsBound, GroupRecords DEF Group!Resolve
<1>3. ASSUME Group!Reopen PROVE GroupTypes'
  BY <1>3, EventsBound, GroupRecords DEF Group!Reopen
<1>4. ASSUME NEW r \in Actors, Group!Decide(r) PROVE GroupTypes'
  <2>1. arrived' \in 1 .. MaxEvents
    BY <1>4, EventsBound DEF Group!Decide
  <2>2. Group!ShouldNotify \in BOOLEAN
    BY Zenon DEF Group!ShouldNotify
  <2>3. PICK says \in BOOLEAN :
            request' = [request EXCEPT ![r] = [phase |-> "decided", event |-> arrived',
                                               notify |-> says, time |-> now]]
    BY <1>4, <2>2 DEF Group!Decide
  <2>4. [phase |-> "decided", event |-> arrived', notify |-> says, time |-> now]
            \in RequestRecords
    BY <2>1, EventsBound, GroupRecords
  <2>5. request' \in [Actors -> RequestRecords]
    BY <2>3, <2>4
  <2>6. request'[r].time = now /\ request'[r].event = arrived'
        /\ \A s \in Actors \ {r} : request'[s] = request[s]
    BY <2>3
  <2>7. QED
    BY <1>4, <2>1, <2>5, <2>6, EventsBound DEF Group!Decide
<1>5. ASSUME NEW r \in Actors, Group!Store(r) PROVE GroupTypes'
  BY <1>5, EventsBound, GroupRecords DEF Group!Store, Group!Notified
<1>6. ASSUME NEW r \in Actors, Group!Announce(r) PROVE GroupTypes'
  BY <1>6, EventsBound, GroupRecords DEF Group!Announce
<1>7. ASSUME NEW r \in Actors, Group!BreakOff(r) PROVE GroupTypes'
  BY <1>7, EventsBound, GroupRecords DEF Group!BreakOff
<1>8. CASE UNCHANGED groupVars
  BY <1>8 DEF groupVars
<1>9. QED
  BY <1>1, <1>2, <1>3, <1>4, <1>5, <1>6, <1>7, <1>8 DEF GroupSteps, Group!Next

\* Only a request that stores its event adds a message.
LEMMA SaidBefore ==
    ASSUME GroupTypes,
           \/ Group!Tick \/ Group!Resolve \/ Group!Reopen \/ UNCHANGED groupVars
           \/ \E r \in Actors : Group!Decide(r) \/ Group!Announce(r) \/ Group!BreakOff(r)
    PROVE  Said' \subseteq Said
<1>1. ASSUME request' = request, announced' = announced PROVE Said' = Said
  BY <1>1 DEF Said, Message
<1>2. CASE Group!Tick \/ Group!Resolve \/ Group!Reopen \/ UNCHANGED groupVars
  BY <1>1, <1>2 DEF Group!Tick, Group!Resolve, Group!Reopen, groupVars
<1>3. ASSUME NEW r \in Actors, Group!Decide(r) PROVE Said' \subseteq Said
  <2>1. announced' = announced /\ request'[r].phase = "decided"
        /\ \A s \in Actors \ {r} : request'[s] = request[s]
    BY <1>3 DEF Group!Decide, GroupTypes
  <2>2. QED
    BY <2>1 DEF Said, Message
<1>4. ASSUME NEW r \in Actors, Group!Announce(r) PROVE Said' \subseteq Said
  <2>1. announced' \subseteq Said
    BY <1>4 DEF Group!Announce, Said, Message
  <2>2. request'[r].phase = "idle" /\ \A s \in Actors \ {r} : request'[s] = request[s]
    BY <1>4, GroupRecords DEF Group!Announce, GroupTypes
  <2>3. QED
    BY <2>1, <2>2 DEF Said, Message
<1>5. ASSUME NEW r \in Actors, Group!BreakOff(r) PROVE Said' \subseteq Said
  <2>1. announced' = announced /\ request'[r].phase = "idle"
        /\ \A s \in Actors \ {r} : request'[s] = request[s]
    BY <1>5, GroupRecords DEF Group!BreakOff, GroupTypes
  <2>2. QED
    BY <2>1 DEF Said, Message
<1>6. QED
  BY <1>2, <1>3, <1>4, <1>5

LEMMA SaidByStore ==
    ASSUME GroupTypes, NEW r \in Actors, Group!Store(r)
    PROVE  /\ Said' \subseteq Said \cup {Message(r)}
           /\ ~request[r].notify => Said' \subseteq Said
<1>1. announced' = announced /\ request'[r].notify = request[r].notify
      /\ request'[r].event = request[r].event /\ request'[r].time = request[r].time
      /\ \A s \in Actors \ {r} : request'[s] = request[s]
  BY DEF Group!Store, GroupTypes, RequestRecords
<1>2. QED
  BY <1>1 DEF Said, Message

\* Messages have times.
LEMMA SaidTimes == GroupTypes => \A a \in Said : a.time \in 1 .. MaxTime
BY EventsBound DEF GroupTypes, RequestRecords, Said, Message

\* As long as the last notification stays, nothing is said, and a decision is not changed,
\* what was said and decided stays as it should be.
LEMMA GroupFrame ==
    ASSUME GroupTypes, OneDecides, SaidByThen, DecidedWell, SaidApart,
           Said' \subseteq Said, notifiedAt' = notifiedAt, resolvedAt \subseteq resolvedAt',
           \A r \in Actors : request'[r].phase = "decided" => request'[r] = request[r]
    PROVE  OneDecides' /\ SaidByThen' /\ DecidedWell' /\ SaidApart'
<1>1. \A from, to : ResolvedBetween(from, to) => ResolvedBetween(from, to)'
  BY DEF ResolvedBetween
<1>2. OneDecides' /\ SaidByThen'
  BY DEF OneDecides, SaidByThen
<1>3. DecidedWell'
  BY <1>1 DEF DecidedWell
<1>4. SaidApart'
  BY <1>1 DEF SaidApart
<1>5. QED
  BY <1>2, <1>3, <1>4

\* No step of it breaks the invariant.
LEMMA GroupKept ==
    GroupFlags /\ GroupTypes /\ GroupTypes' /\ GroupQuiet /\ GroupSteps => GroupQuiet'
<1> SUFFICES ASSUME GroupFlags, GroupTypes, GroupTypes', GroupQuiet, GroupSteps, ~groupRaced'
             PROVE  OneDecides' /\ SaidByThen' /\ ResolvedSince' /\ DecidedWell' /\ SaidApart'
  BY DEF GroupQuiet
<1> DEFINE Still == OneDecides' /\ SaidByThen' /\ ResolvedSince' /\ DecidedWell' /\ SaidApart'
<1>1. ASSUME Group!Tick PROVE Still
  <2>1. ~groupRaced /\ Said' \subseteq Said
    BY <1>1, SaidBefore DEF Group!Tick
  <2>2. UNCHANGED <<resolved, notifiedAt, resolvedAt, request>> /\ now' = now + 1
    BY <1>1 DEF Group!Tick, Group!groupVars
  <2>3. ResolvedSince'
    BY <2>1, <2>2 DEF GroupQuiet, ResolvedSince, ResolvedBetween, GroupTypes
  <2>4. QED
    BY <2>1, <2>2, <2>3, GroupFrame DEF GroupQuiet
<1>2. ASSUME Group!Resolve PROVE Still
  <2>1. ~groupRaced /\ Said' \subseteq Said
    BY <1>2, SaidBefore DEF Group!Resolve
  <2>2. UNCHANGED <<now, notifiedAt, request>> /\ resolvedAt' = resolvedAt \cup {now}
    BY <1>2 DEF Group!Resolve
  <2>3. ResolvedSince'
    BY <2>2 DEF ResolvedSince, ResolvedBetween, GroupTypes
  <2>4. QED
    BY <2>1, <2>2, <2>3, GroupFrame DEF GroupQuiet
<1>3. ASSUME Group!Reopen PROVE Still
  <2>1. ~groupRaced /\ Said' \subseteq Said
    BY <1>3, SaidBefore DEF Group!Reopen
  <2>2. UNCHANGED <<notifiedAt, request, resolvedAt>> /\ ~resolved'
    BY <1>3 DEF Group!Reopen
  <2>3. QED
    BY <2>1, <2>2, GroupFrame DEF GroupQuiet, ResolvedSince
<1>4. ASSUME NEW r \in Actors, Group!Decide(r) PROVE Still
  <2>1. ~groupRaced /\ \A s \in Actors : request[s].phase # "decided"
    BY <1>4, Zenon DEF Group!Decide
  <2>2. Said' \subseteq Said
    BY <1>4, SaidBefore
  <2>3. UNCHANGED <<now, resolved, notifiedAt, resolvedAt>>
    BY <1>4 DEF Group!Decide, Group!groupVars
  <2>4. /\ \A s \in Actors \ {r} : request'[s] = request[s]
        /\ request'[r].notify = Group!ShouldNotify /\ request'[r].time = now
    BY <1>4 DEF Group!Decide, GroupTypes
  <2>5. OneDecides'
    BY <2>1, <2>4 DEF OneDecides
  <2>6. \A from, to : ResolvedBetween(from, to)' <=> ResolvedBetween(from, to)
    BY <2>3 DEF ResolvedBetween
  <2>7. SaidByThen' /\ SaidApart' /\ ResolvedSince'
    BY <2>1, <2>2, <2>3, <2>6 DEF GroupQuiet, SaidByThen, SaidApart, ResolvedSince
  <2>8. request'[r].notify =>
            notifiedAt = 0 \/ now - notifiedAt >= Cooldown \/ ResolvedBetween(notifiedAt, now)
    BY <2>1, <2>4 DEF Group!ShouldNotify, Group!Cooled, GroupQuiet, ResolvedSince
  <2>9. DecidedWell'
    <3>1. \A s \in Actors : request'[s].phase = "decided" => s = r
      BY <2>1, <2>4
    <3>2. notifiedAt' <= request'[r].time
      BY <2>3, <2>4 DEF GroupTypes
    <3>3. request'[r].notify => \/ notifiedAt' = 0
                                \/ request'[r].time - notifiedAt' >= Cooldown
                                \/ ResolvedBetween(notifiedAt, request[r].time)'
      BY <2>3, <2>4, <2>6, <2>8
    <3>4. QED
      BY <3>1, <3>2, <3>3 DEF DecidedWell
  <2>10. QED
    BY <2>5, <2>7, <2>9
<1>5. ASSUME NEW r \in Actors, Group!Store(r) PROVE Still
  <2>1. ~groupRaced /\ UNCHANGED <<now, resolvedAt>> /\ ~resolved'
    BY <1>5 DEF Group!Store
  <2>2. /\ request[r].phase = "decided" /\ request'[r].phase = "stored"
        /\ \A s \in Actors \ {r} : request'[s] = request[s]
    BY <1>5 DEF Group!Store, GroupTypes, RequestRecords
  <2>3. \A s \in Actors : request'[s].phase # "decided"
    BY <2>1, <2>2 DEF GroupQuiet, OneDecides
  <2>4. OneDecides' /\ DecidedWell' /\ ResolvedSince'
    BY <2>1, <2>3 DEF OneDecides, DecidedWell, ResolvedSince
  <2>5. \A from, to : ResolvedBetween(from, to)' <=> ResolvedBetween(from, to)
    BY <2>1 DEF ResolvedBetween
  <2>6. CASE ~request[r].notify
    <3>1. notifiedAt' = notifiedAt /\ Said' \subseteq Said
      BY <1>5, <2>6, SaidByStore DEF Group!Store, Group!Notified
    <3>2. QED
      BY <2>1, <2>4, <2>5, <3>1 DEF GroupQuiet, SaidByThen, SaidApart
  <2>7. CASE request[r].notify
    <3> DEFINE m == Message(r)
    <3>1. notifiedAt' = request[r].time /\ Said' \subseteq Said \cup {m}
      BY <1>5, <2>7, SaidByStore DEF Group!Store, Group!Notified
    <3>2. m.time = request[r].time
      BY DEF Message
    <3>3. notifiedAt <= request[r].time
          /\ \/ notifiedAt = 0
             \/ request[r].time - notifiedAt >= Cooldown
             \/ ResolvedBetween(notifiedAt, request[r].time)
      BY <2>1, <2>2, <2>7 DEF GroupQuiet, DecidedWell
    <3>4. request[r].time \in Nat /\ notifiedAt \in Nat /\ Cooldown \in Nat
      BY EventsBound DEF GroupTypes, RequestRecords
    <3>5. \A a \in Said : a.time \in Nat /\ a.time > 0 /\ a.time <= notifiedAt
      BY <2>1, SaidTimes, EventsBound DEF GroupQuiet, SaidByThen
    <3> HIDE DEF m
    <3>6. SaidByThen'
      BY <3>1, <3>2, <3>3, <3>4, <3>5 DEF SaidByThen
    <3>7. ASSUME NEW a \in Said, m.time - a.time < Cooldown
          PROVE  ResolvedBetween(a.time, m.time)
      BY <3>2, <3>3, <3>4, <3>5, <3>7 DEF ResolvedBetween, GroupTypes
    <3>8. ASSUME NEW a \in Said, m.time <= a.time, a.time - m.time < Cooldown
          PROVE  ResolvedBetween(m.time, a.time)
      <4>1. m.time = a.time
        BY <3>2, <3>3, <3>4, <3>5, <3>8
      <4>2. QED
        BY <3>7, <3>8, <4>1
    <3>9. SaidApart'
      BY <2>1, <2>5, <3>1, <3>7, <3>8 DEF GroupQuiet, SaidApart
    <3>10. QED
      BY <2>4, <3>6, <3>9
  <2>8. QED
    BY <2>6, <2>7
<1>6. ASSUME NEW r \in Actors, Group!Announce(r) \/ Group!BreakOff(r) PROVE Still
  <2>1. ~groupRaced /\ Said' \subseteq Said
    BY <1>6, SaidBefore DEF Group!Announce, Group!BreakOff
  <2>2. UNCHANGED <<now, resolved, notifiedAt, resolvedAt>>
        /\ request' = [request EXCEPT ![r] = Group!Idle]
    BY <1>6 DEF Group!Announce, Group!BreakOff, Group!groupVars
  <2>3. \A s \in Actors : request'[s].phase = "decided" => request'[s] = request[s]
    BY <2>2, GroupRecords DEF GroupTypes
  <2>4. ResolvedSince'
    BY <2>1, <2>2 DEF GroupQuiet, ResolvedSince, ResolvedBetween
  <2>5. QED
    BY <2>1, <2>2, <2>3, <2>4, GroupFrame DEF GroupQuiet
<1>7. CASE UNCHANGED groupVars
  <2>1. UNCHANGED <<now, resolved, notifiedAt, resolvedAt, request>> /\ ~groupRaced
        /\ Said' \subseteq Said
    BY <1>7, SaidBefore DEF groupVars
  <2>2. ResolvedSince'
    BY <2>1 DEF GroupQuiet, ResolvedSince, ResolvedBetween
  <2>3. QED
    BY <2>1, <2>2, GroupFrame DEF GroupQuiet
<1>8. QED
  BY <1>1, <1>2, <1>3, <1>4, <1>5, <1>6, <1>7 DEF GroupSteps, Group!Next

\* A fingerprint is announced once per cooldown, unless it was resolved in between or two
\* requests decided at one time.
THEOREM AnnouncedOncePerCooldown == ServicesSpec => []OneAnnouncementPerCooldown
<1>1. ServicesInit => GroupInv
  BY GroupBegins DEF ServicesInit
<1>2. GroupInv => OneAnnouncementPerCooldown
  BY DEF GroupInv, GroupQuiet, SaidApart, ResolvedBetween, Said, OneAnnouncementPerCooldown,
         Group!OneAnnouncementPerCooldown
<1>3. GroupInv /\ [ServicesNext]_servicesVars => GroupInv'
  BY GroupAlone, GroupFlagged, GroupTyped, GroupKept DEF GroupInv
<1>4. QED
  BY <1>1, <1>2, <1>3, PTL DEF ServicesSpec

-----------------------------------------------------------------------------
(* DeliveryOutbox: a message is not posted again without a cause *)

SlackSteps == [Slack!Next]_slackVars

\* A step of the composition is a step of the row, or leaves it alone.
LEMMA SlackAlone == [ServicesNext]_servicesVars => SlackSteps
BY DEF ServicesNext, servicesVars, IncidentStep, SessionStep, GroupStep, ReportStep, SlackStep,
       MirrorStep, RecoveryStep, SignInStep, CapabilityStep, SlackSteps

SlackFlags == later \in BOOLEAN /\ unsure \in BOOLEAN

SlackTypes ==
    /\ delivery \in {"pending", "queued", "processing", "retrying"} \cup Slack!Settled
    /\ q \in Slack!Queue!Queues({Slack!Row})
    /\ sweep \in {"idle", "chosen", "sent"}
    /\ at \in [Actors -> {"free", "claimed", "posted"}]
    /\ copy \in [Actors -> 0 .. MaxDeliveries]
    /\ \A w \in Actors : at[w] # "free" => copy[w] > 0
    /\ posts \in Nat
    /\ requeues \in 0 .. MaxRequeues
    /\ deliveryFaults \in 0 .. MaxManyFaults

\* While every claim was kept and every post recorded: a row that somebody works on is
\* processing, and one worker has it; a message is posted only once, and then its row is
\* delivered, or the worker that posted it is about to record it.
SlackQuiet ==
    unsure \/
        /\ \A w \in Actors : at[w] # "free" => delivery = "processing"
        /\ \A w, v \in Actors : at[w] # "free" /\ at[v] # "free" => w = v
        /\ posts <= 1
        /\ posts = 1 => delivery = "delivered" \/ \E w \in Actors : at[w] = "posted"
        /\ \A w \in Actors : at[w] = "claimed" => posts = 0

SlackInv == SlackFlags /\ SlackTypes /\ SlackQuiet

LEMMA SlackBegins == Slack!Init => SlackInv
<1> SUFFICES ASSUME Slack!Init PROVE SlackInv
  OBVIOUS
<1>1. SlackFlags
  BY DEF Slack!Init, SlackFlags
<1>2. q \in Slack!Queue!Queues({Slack!Row})
  BY DEF Slack!Init, Slack!Queue!Queues, Slack!Queue!EmptyQueue
<1>3. SlackTypes
  BY <1>2, SlackBounds DEF Slack!Init, SlackTypes
<1>4. SlackQuiet
  BY DEF Slack!Init, SlackQuiet
<1>5. QED
  BY <1>1, <1>3, <1>4 DEF SlackInv

\* A copy that is sent, handed over or returned leaves a queue.
LEMMA SlackQueue ==
    ASSUME q \in Slack!Queue!Queues({Slack!Row})
    PROVE  /\ Slack!Queue!Sent(q, Slack!Row) \in Slack!Queue!Queues({Slack!Row})
           /\ \A n \in 1 .. MaxDeliveries :
                  /\ Slack!Queue!Waiting(q, Slack!Row, n) =>
                         Slack!Queue!Taken(q, Slack!Row, n) \in Slack!Queue!Queues({Slack!Row})
                  /\ Slack!Queue!Returned(q, Slack!Row, n) \in Slack!Queue!Queues({Slack!Row})
<1> DEFINE Row == Slack!Row
<1>1. 1 \in 1 .. MaxDeliveries /\ \A n \in 1 .. MaxDeliveries : n < MaxDeliveries =>
          n + 1 \in 1 .. MaxDeliveries
  BY SlackBounds
<1>2. q \in [{Row} -> [1 .. MaxDeliveries -> Nat]]
  BY DEF Slack!Queue!Queues, Slack!Queue!Deliveries
<1> HIDE DEF Row
<1>3. q[Row] \in [1 .. MaxDeliveries -> Nat] /\ DOMAIN q = {Row}
  BY <1>2
<1>4. [q EXCEPT ![Row][1] = @ + 1] \in [{Row} -> [1 .. MaxDeliveries -> Nat]]
  BY <1>1, <1>2, <1>3
<1>5. ASSUME NEW n \in 1 .. MaxDeliveries, q[Row][n] > 0
      PROVE  [q EXCEPT ![Row][n] = @ - 1] \in [{Row} -> [1 .. MaxDeliveries -> Nat]]
  <2>1. q[Row][n] \in Nat /\ q[Row][n] - 1 \in Nat
    BY <1>3, <1>5
  <2>2. QED
    BY <1>2, <1>3, <2>1
<1>6. ASSUME NEW n \in 1 .. MaxDeliveries, n < MaxDeliveries
      PROVE  [q EXCEPT ![Row][n + 1] = @ + 1] \in [{Row} -> [1 .. MaxDeliveries -> Nat]]
  BY <1>1, <1>2, <1>3, <1>6
<1>7. QED
  BY <1>2, <1>4, <1>5, <1>6
     DEF Row, Slack!Queue!Queues, Slack!Queue!Deliveries, Slack!Queue!Sent,
     Slack!Queue!Taken, Slack!Queue!Waiting, Slack!Queue!Returned

\* No step of it leaves the types.
LEMMA SlackFlagged == SlackFlags /\ SlackSteps => SlackFlags'
<1> SUFFICES ASSUME SlackFlags, SlackSteps PROVE SlackFlags'
  OBVIOUS
<1> USE DEF SlackFlags
<1>1. ASSUME Slack!Reset PROVE SlackFlags'
  BY <1>1 DEF Slack!Reset, Slack!Lost, Slack!Busy, Slack!Faulty
<1>2. ASSUME Slack!Choose PROVE SlackFlags'
  BY <1>2 DEF Slack!Choose
<1>3. ASSUME Slack!QueueIt PROVE SlackFlags'
  BY <1>3 DEF Slack!QueueIt
<1>4. ASSUME Slack!QueueFails PROVE SlackFlags'
  BY <1>4 DEF Slack!QueueFails, Slack!Faulty, Slack!Busy
<1>5. ASSUME Slack!Mark PROVE SlackFlags'
  BY <1>5 DEF Slack!Mark
<1>6. ASSUME Slack!Requeue PROVE SlackFlags'
  BY <1>6 DEF Slack!Requeue, Slack!Busy
<1>7. ASSUME Slack!Pass PROVE SlackFlags'
  BY <1>7 DEF Slack!Pass
<1>8. ASSUME NEW w \in Actors, Slack!Take(w) PROVE SlackFlags'
  BY <1>8 DEF Slack!Take, Slack!Claimable
<1>9. ASSUME NEW w \in Actors, Slack!Refuse(w) PROVE SlackFlags'
  BY <1>9 DEF Slack!Refuse, Slack!Free
<1>10. ASSUME NEW w \in Actors, Slack!Post(w) PROVE SlackFlags'
  BY <1>10 DEF Slack!Post
<1>11. ASSUME NEW w \in Actors, Slack!Deliver(w) PROVE SlackFlags'
  BY <1>11 DEF Slack!Deliver, Slack!Free
<1>12. ASSUME NEW w \in Actors, Slack!Throw(w) PROVE SlackFlags'
  BY <1>12 DEF Slack!Throw, Slack!Free, Slack!Faulty, Slack!Thrown
<1>13. ASSUME NEW w \in Actors, Slack!Die(w) PROVE SlackFlags'
  BY <1>13 DEF Slack!Die, Slack!Free, Slack!Faulty
<1>14. CASE UNCHANGED slackVars
  BY <1>14 DEF slackVars
<1>15. QED
  BY <1>1, <1>2, <1>3, <1>4, <1>5, <1>6, <1>7, <1>8, <1>9, <1>10, <1>11, <1>12, <1>13, <1>14
     DEF SlackSteps, Slack!Next, Slack!Worker

LEMMA SlackTyped == SlackTypes /\ SlackSteps => SlackTypes'
<1> SUFFICES ASSUME SlackTypes, SlackSteps PROVE SlackTypes'
  OBVIOUS
<1> USE DEF SlackTypes, Slack!Settled, Slack!Blocked
<1>1. ASSUME Slack!Reset PROVE SlackTypes'
  BY <1>1, SlackBounds DEF Slack!Reset, Slack!Lost, Slack!Busy, Slack!Faulty
<1>2. ASSUME Slack!Choose PROVE SlackTypes'
  BY <1>2 DEF Slack!Choose
<1>3. ASSUME Slack!QueueIt PROVE SlackTypes'
  BY <1>3, SlackBounds, SlackQueue DEF Slack!QueueIt
<1>4. ASSUME Slack!QueueFails PROVE SlackTypes'
  BY <1>4, SlackBounds DEF Slack!QueueFails, Slack!Faulty, Slack!Busy
<1>5. ASSUME Slack!Mark PROVE SlackTypes'
  BY <1>5 DEF Slack!Mark
<1>6. ASSUME Slack!Requeue PROVE SlackTypes'
  BY <1>6, SlackBounds DEF Slack!Requeue, Slack!Busy
<1>7. ASSUME Slack!Pass PROVE SlackTypes'
  BY <1>7 DEF Slack!Pass
<1>8. ASSUME NEW w \in Actors, Slack!Take(w) PROVE SlackTypes'
  BY <1>8, SlackBounds, SlackQueue DEF Slack!Take, Slack!Claimable, Slack!Queue!Deliveries
<1>9. ASSUME NEW w \in Actors, Slack!Refuse(w) PROVE SlackTypes'
  BY <1>9, SlackBounds DEF Slack!Refuse, Slack!Free
<1>10. ASSUME NEW w \in Actors, Slack!Post(w) PROVE SlackTypes'
  BY <1>10 DEF Slack!Post
<1>11. ASSUME NEW w \in Actors, Slack!Deliver(w) PROVE SlackTypes'
  BY <1>11, SlackBounds DEF Slack!Deliver, Slack!Free
<1>12. ASSUME NEW w \in Actors, Slack!Throw(w) PROVE SlackTypes'
  <2>1. copy[w] \in 1 .. MaxDeliveries /\ at[w] # "free"
    BY <1>12, SlackBounds DEF Slack!Throw
  <2>2. /\ delivery' = Slack!Thrown(copy[w]) /\ Slack!Faulty /\ Slack!Free(w)
        /\ q' = Slack!Queue!Returned(q, Slack!Row, copy[w])
        /\ UNCHANGED <<sweep, posts, requeues>>
    BY <1>12 DEF Slack!Throw
  <2>3. q' \in Slack!Queue!Queues({Slack!Row})
    BY <2>1, <2>2, SlackQueue
  <2>4. QED
    BY <2>2, <2>3, SlackBounds DEF Slack!Faulty, Slack!Free, Slack!Thrown
<1>13. ASSUME NEW w \in Actors, Slack!Die(w) PROVE SlackTypes'
  BY <1>13, SlackBounds, SlackQueue DEF Slack!Die, Slack!Free, Slack!Faulty
<1>14. CASE UNCHANGED slackVars
  BY <1>14 DEF slackVars
<1>15. QED
  BY <1>1, <1>2, <1>3, <1>4, <1>5, <1>6, <1>7, <1>8, <1>9, <1>10, <1>11, <1>12, <1>13, <1>14
     DEF SlackSteps, Slack!Next, Slack!Worker

\* No step of it breaks the invariant.
LEMMA SlackKept == SlackTypes /\ SlackQuiet /\ SlackSteps => SlackQuiet'
<1> SUFFICES ASSUME SlackTypes, SlackQuiet, SlackSteps, ~unsure' PROVE SlackQuiet'
  BY DEF SlackQuiet
<1> USE DEF SlackTypes, SlackQuiet, Slack!Settled, Slack!Blocked
<1>1. ASSUME Slack!Reset PROVE SlackQuiet'
  BY <1>1 DEF Slack!Reset, Slack!Lost, Slack!Busy, Slack!Faulty
<1>2. ASSUME Slack!Choose PROVE SlackQuiet'
  BY <1>2 DEF Slack!Choose
<1>3. ASSUME Slack!QueueIt PROVE SlackQuiet'
  BY <1>3 DEF Slack!QueueIt
<1>4. ASSUME Slack!QueueFails PROVE SlackQuiet'
  BY <1>4 DEF Slack!QueueFails, Slack!Faulty, Slack!Busy
<1>5. ASSUME Slack!Mark PROVE SlackQuiet'
  BY <1>5 DEF Slack!Mark
<1>6. ASSUME Slack!Requeue PROVE SlackQuiet'
  BY <1>6 DEF Slack!Requeue, Slack!Busy
<1>7. ASSUME Slack!Pass PROVE SlackQuiet'
  BY <1>7 DEF Slack!Pass
<1>8. ASSUME NEW w \in Actors, Slack!Take(w) PROVE SlackQuiet'
  BY <1>8 DEF Slack!Take, Slack!Claimable
<1>9. ASSUME NEW w \in Actors, Slack!Refuse(w) PROVE SlackQuiet'
  BY <1>9 DEF Slack!Refuse, Slack!Free
<1>10. ASSUME NEW w \in Actors, Slack!Post(w) PROVE SlackQuiet'
  BY <1>10 DEF Slack!Post
<1>11. ASSUME NEW w \in Actors, Slack!Deliver(w) PROVE SlackQuiet'
  BY <1>11 DEF Slack!Deliver, Slack!Free
<1>12. ASSUME NEW w \in Actors, Slack!Throw(w) PROVE SlackQuiet'
  BY <1>12 DEF Slack!Throw, Slack!Free, Slack!Faulty, Slack!Thrown
<1>13. ASSUME NEW w \in Actors, Slack!Die(w) PROVE SlackQuiet'
  BY <1>13 DEF Slack!Die, Slack!Free, Slack!Faulty
<1>14. CASE UNCHANGED slackVars
  BY <1>14 DEF slackVars
<1>15. QED
  BY <1>1, <1>2, <1>3, <1>4, <1>5, <1>6, <1>7, <1>8, <1>9, <1>10, <1>11, <1>12, <1>13, <1>14
     DEF SlackSteps, Slack!Next, Slack!Worker

\* A message is not posted again unless its worker was taken for lost or had its claim
\* overwritten while it lived, or posted it and did not get to record it.
THEOREM RepeatsHaveCauses == ServicesSpec => []RepeatHasCause
<1>1. ServicesInit => SlackInv
  BY SlackBegins DEF ServicesInit
<1>2. SlackInv => RepeatHasCause
  BY DEF SlackInv, SlackTypes, SlackQuiet, RepeatHasCause, Slack!RepeatHasCause
<1>3. SlackInv /\ [ServicesNext]_servicesVars => SlackInv'
  BY SlackAlone, SlackFlagged, SlackTyped, SlackKept DEF SlackInv
<1>4. QED
  BY <1>1, <1>2, <1>3, PTL DEF ServicesSpec

-----------------------------------------------------------------------------
(* Resolutions: one email per resolution, and it is pursued *)

ReportSteps == [Report!Next]_reportVars

\* A step of the composition is a step of the report, or leaves it alone.
LEMMA ReportAlone == [ServicesNext]_servicesVars => ReportSteps
BY DEF ServicesNext, servicesVars, IncidentStep, SessionStep, GroupStep, ReportStep, SlackStep,
       MirrorStep, RecoveryStep, SignInStep, CapabilityStep, ReportSteps

CallRecords ==
    [phase : {"idle", "read", "queueing", "closing", "reopening"}, operation : Report!Operations,
     status : Report!Statuses, notify : Report!Notifications]
WorkRecords ==
    [phase : {"free", "preparing", "sending", "posted"}, episode : 0 .. MaxCalls]

Readers == {c \in Askers : call[c].phase = "read"}

ReportFlags ==
    /\ message \in BOOLEAN /\ raced \in BOOLEAN /\ crossed \in BOOLEAN /\ broken \in BOOLEAN
    /\ reportUnsure \in BOOLEAN /\ asked \in BOOLEAN /\ expected \in BOOLEAN

\* To take the report up again takes a call that has read it.
ReportTypes ==
    /\ report \in Report!Statuses
    /\ notify \in Report!Notifications
    /\ ai \in {"not_requested", "pending", "generating", "insufficient", "ready", "failed"}
    /\ episode \in 0 .. MaxCalls
    /\ call \in [Askers -> CallRecords]
    /\ work \in [Actors -> WorkRecords]
    /\ reportTasks \in [{"prepare", "send"} -> 0 .. 1]
    /\ sent \in [0 .. MaxCalls -> Nat]
    /\ calls \in 0 .. MaxCalls
    /\ reportFaults \in 0 .. MaxFaults
    /\ \A w \in Actors : work[w].episode <= episode
    /\ IsFiniteSet(Readers) /\ episode + Cardinality(Readers) <= calls

LEMMA ReportRecords ==
    /\ Report!NoCall \in CallRecords /\ Report!NoCall.phase = "idle"
    /\ Report!Free \in WorkRecords /\ Report!Free.phase = "free" /\ Report!Free.episode = 0
BY ReportBounds DEF Report!NoCall, Report!Free, CallRecords, WorkRecords, Report!Operations,
   Report!Notifications, Report!Statuses

\* A call that reads the report is one reader more, one that goes on or breaks off one less.
LEMMA ReadersCount ==
    ASSUME ReportTypes, NEW c \in Askers,
           \A d \in Askers \ {c} : call'[d].phase = call[d].phase
    PROVE  /\ IsFiniteSet(Readers')
           /\ call[c].phase = "read" /\ call'[c].phase # "read" =>
                  Cardinality(Readers') = Cardinality(Readers) - 1
           /\ call[c].phase # "read" /\ call'[c].phase # "read" =>
                  Cardinality(Readers') = Cardinality(Readers)
           /\ call[c].phase # "read" /\ call'[c].phase = "read" =>
                  Cardinality(Readers') = Cardinality(Readers) + 1
<1>1. IsFiniteSet(Readers)
  BY DEF ReportTypes
<1>2. call'[c].phase # "read" => Readers' = Readers \ {c}
  BY DEF Readers
<1>3. call'[c].phase = "read" => Readers' = Readers \cup {c}
  BY DEF Readers
<1>4. c \in Readers <=> call[c].phase = "read"
  BY DEF Readers
<1>5. QED
  BY <1>1, <1>2, <1>3, <1>4, FS_AddElement, FS_RemoveElement

LEMMA ReadersType == ReportTypes => Cardinality(Readers) \in Nat
BY FS_CardinalityType DEF ReportTypes

LEMMA ReadersAreOne ==
    ASSUME ReportTypes, NEW c \in Askers, call[c].phase = "read" PROVE Cardinality(Readers) > 0
<1>1. Readers # {} /\ IsFiniteSet(Readers)
  BY DEF Readers, ReportTypes
<1>2. QED
  BY <1>1, ReadersType, FS_EmptySet

\* No step of it leaves the types.
LEMMA ReportFlagged == ReportFlags /\ ReportSteps => ReportFlags'
<1> SUFFICES ASSUME ReportFlags, ReportSteps PROVE ReportFlags'
  OBVIOUS
<1> USE DEF ReportFlags
<1>1. ASSUME NEW c \in Askers, Report!Read(c) PROVE ReportFlags'
  BY <1>1 DEF Report!Read, Report!reportVars, Report!causes
<1>2. ASSUME NEW c \in Askers, Report!Write(c) PROVE ReportFlags'
  BY <1>2 DEF Report!Write, Report!reportVars, Report!causes
<1>3. ASSUME NEW c \in Askers, Report!Follow(c) PROVE ReportFlags'
  BY <1>3 DEF Report!Follow, Report!Queued, Report!NoCall, Report!reportVars, Report!causes
<1>4. ASSUME NEW c \in Askers, Report!BreakOff(c) PROVE ReportFlags'
  BY <1>4 DEF Report!BreakOff, Report!Faulty, Report!NoCall, Report!reportVars, Report!causes
<1>5. ASSUME NEW w \in Actors, Report!Prepare(w) PROVE ReportFlags'
  BY <1>5
     DEF Report!Prepare, Report!Taken, Report!Stale, Report!Faulty, Report!reportVars,
         Report!causes
<1>6. ASSUME NEW w \in Actors, Report!Prepared(w) PROVE ReportFlags'
  BY <1>6
     DEF Report!Prepared, Report!ReadyStatus, Report!Queued, Report!Overtaken, Report!Free,
         Report!reportVars, Report!causes
<1>7. ASSUME NEW w \in Actors, Report!Send(w) PROVE ReportFlags'
  BY <1>7
     DEF Report!Send, Report!Taken, Report!Stale, Report!Claimable, Report!Faulty,
         Report!reportVars, Report!causes
<1>8. ASSUME NEW w \in Actors, Report!Suppress(w) PROVE ReportFlags'
  BY <1>8 DEF Report!Suppress, Report!Taken, Report!Faulty, Report!reportVars, Report!causes
<1>9. ASSUME NEW w \in Actors, Report!Post(w) PROVE ReportFlags'
  BY <1>9 DEF Report!Post, Report!reportVars, Report!causes
<1>10. ASSUME NEW w \in Actors, Report!Accept(w) PROVE ReportFlags'
  BY <1>10 DEF Report!Accept, Report!Free, Report!reportVars, Report!causes
<1>11. ASSUME NEW w \in Actors, Report!Throw(w) PROVE ReportFlags'
  BY <1>11
     DEF Report!Throw, Report!Faulty, Report!Queued, Report!Overtaken, Report!Free,
         Report!reportVars, Report!causes
<1>12. ASSUME NEW w \in Actors, Report!Die(w) PROVE ReportFlags'
  BY <1>12 DEF Report!Die, Report!Faulty, Report!Free, Report!reportVars, Report!causes
<1>13. ASSUME NEW task \in {"prepare", "send"}, Report!Skip(task) PROVE ReportFlags'
  BY <1>13 DEF Report!Skip, Report!Taken, Report!reportVars, Report!causes
<1>14. ASSUME Report!Postmark PROVE ReportFlags'
  BY <1>14 DEF Report!Postmark, Report!Reported, Report!reportVars, Report!causes
<1>15. ASSUME Report!Sweep PROVE ReportFlags'
  BY <1>15 DEF Report!Sweep, Report!Queued, Report!reportVars, Report!causes
<1>16. CASE UNCHANGED reportVars
  BY <1>16 DEF reportVars
<1>17. QED
  BY <1>1, <1>2, <1>3, <1>4, <1>5, <1>6, <1>7, <1>8, <1>9, <1>10, <1>11, <1>12, <1>13, <1>14,
     <1>15, <1>16 DEF ReportSteps, Report!Next, Report!Worker

LEMMA ReportTyped == ReportTypes /\ ReportSteps => ReportTypes'
<1> SUFFICES ASSUME ReportTypes, ReportSteps PROVE ReportTypes'
  OBVIOUS
<1> USE DEF ReportTypes, CallRecords, WorkRecords, Report!Notifications, Report!Operations,
           Report!Statuses, Readers
<1>1. ASSUME NEW c \in Askers, Report!Read(c) PROVE ReportTypes'
  <2>1. PICK operation \in Report!Operations :
            call' = [call EXCEPT ![c] = [phase |-> "read", operation |-> operation,
                                         status |-> report, notify |-> notify]]
    BY <1>1 DEF Report!Read
  <2>2. [phase |-> "read", operation |-> operation, status |-> report, notify |-> notify]
            \in CallRecords
    OBVIOUS
  <2>3. call' \in [Askers -> CallRecords] /\ call'[c].phase = "read"
        /\ \A d \in Askers \ {c} : call'[d].phase = call[d].phase
    BY <2>1, <2>2
  <2>4. call[c].phase # "read" /\ calls' = calls + 1 /\ calls' \in 0 .. MaxCalls
    BY <1>1, ReportBounds DEF Report!Read
  <2>5. IsFiniteSet(Readers') /\ Cardinality(Readers') = Cardinality(Readers) + 1
    BY <2>3, <2>4, ReadersCount
  <2>6. UNCHANGED <<report, notify, ai, episode, work, reportTasks, sent, reportFaults>>
    BY <1>1 DEF Report!Read, Report!reportVars
  <2>7. IsFiniteSet(Readers') /\ episode' + Cardinality(Readers') <= calls'
    BY <2>4, <2>5, <2>6, ReadersType
  <2>8. QED
    BY <2>3, <2>4, <2>6, <2>7
<1>2. ASSUME NEW c \in Askers, Report!Write(c) PROVE ReportTypes'
  <2>1. /\ call[c].phase = "read" /\ report' \in Report!Statuses
        /\ notify' \in Report!Notifications
        /\ episode' \in {episode, episode + 1}
        /\ UNCHANGED <<ai, work, reportTasks, sent, calls, reportFaults>>
    BY <1>2 DEF Report!Write, Report!StatusOf
  <2>2. call' \in [Askers -> CallRecords] /\ call'[c].phase # "read"
        /\ \A d \in Askers \ {c} : call'[d].phase = call[d].phase
    <3>1. Report!Remains(c) \in {"idle", "queueing", "closing", "reopening"}
      BY DEF Report!Remains
    <3>2. call' = [call EXCEPT ![c] = [Report!NoCall EXCEPT !.phase = Report!Remains(c)]]
      BY <1>2 DEF Report!Write
    <3>3. /\ [Report!NoCall EXCEPT !.phase = Report!Remains(c)] \in CallRecords
          /\ [Report!NoCall EXCEPT !.phase = Report!Remains(c)].phase # "read"
      BY <3>1, ReportRecords
    <3>4. QED
      BY <3>2, <3>3
  <2>3. IsFiniteSet(Readers') /\ Cardinality(Readers') = Cardinality(Readers) - 1
    BY <2>1, <2>2, ReadersCount
  <2>4. Cardinality(Readers) \in Nat /\ Cardinality(Readers) > 0
    BY <2>1, ReadersType, ReadersAreOne
  <2>5. /\ episode \in Nat /\ calls \in 0 .. MaxCalls /\ calls' = calls
        /\ episode + Cardinality(Readers) <= calls
    BY <2>1, ReportBounds
  <2>6. /\ IsFiniteSet(Readers') /\ episode' + Cardinality(Readers') <= calls'
        /\ episode' \in 0 .. MaxCalls /\ episode' >= episode
    <3> HIDE DEF ReportTypes, Readers
    <3> QED
      BY <2>1, <2>3, <2>4, <2>5, ReportBounds
  <2>7. \A w \in Actors : work'[w].episode <= episode'
    BY <2>1, <2>6
  <2>8. QED
    BY <2>1, <2>2, <2>6, <2>7
<1>3. ASSUME NEW c \in Askers, Report!Follow(c) PROVE ReportTypes'
  <2>1. /\ call[c].phase # "read" /\ call' = [call EXCEPT ![c] = Report!NoCall]
        /\ UNCHANGED <<report, notify, episode, work, sent, calls, reportFaults>>
    BY <1>3 DEF Report!Follow, Report!causes
  <2>2. call' \in [Askers -> CallRecords] /\ call'[c].phase = "idle"
        /\ \A d \in Askers \ {c} : call'[d].phase = call[d].phase
    BY <2>1, ReportRecords
  <2>3. IsFiniteSet(Readers') /\ Cardinality(Readers') = Cardinality(Readers)
    BY <2>1, <2>2, ReadersCount
  <2>4. ai' \in {"not_requested", "pending", "generating", "insufficient", "ready", "failed"}
    BY <1>3 DEF Report!Follow
  <2>5. reportTasks' \in [{"prepare", "send"} -> 0 .. 1]
    BY <1>3 DEF Report!Follow, Report!Queued
  <2>6. QED
    BY <2>1, <2>2, <2>3, <2>4, <2>5
<1>4. ASSUME NEW c \in Askers, Report!BreakOff(c) PROVE ReportTypes'
  <2>1. /\ call' = [call EXCEPT ![c] = Report!NoCall]
        /\ UNCHANGED <<report, notify, ai, episode, work, reportTasks, sent, calls>>
        /\ reportFaults' \in 0 .. MaxFaults
    BY <1>4, ReportBounds DEF Report!BreakOff, Report!reportVars, Report!Faulty
  <2>2. call' \in [Askers -> CallRecords] /\ call'[c].phase = "idle"
        /\ \A d \in Askers \ {c} : call'[d].phase = call[d].phase
    BY <2>1, ReportRecords
  <2>3. /\ IsFiniteSet(Readers')
        /\ \/ Cardinality(Readers') = Cardinality(Readers)
           \/ Cardinality(Readers') = Cardinality(Readers) - 1
    BY <2>2, ReadersCount
  <2>4. IsFiniteSet(Readers') /\ episode' + Cardinality(Readers') <= calls'
    BY <2>1, <2>3, ReadersType
  <2>5. QED
    BY <2>1, <2>2, <2>4
<1>5. ASSUME NEW w \in Actors, Report!Prepare(w) PROVE ReportTypes'
  <2>1. [phase |-> "preparing", episode |-> episode] \in WorkRecords
    OBVIOUS
  <2>2. work' = [work EXCEPT ![w] = [phase |-> "preparing", episode |-> episode]]
        /\ UNCHANGED <<report, notify, episode, call, sent, calls>>
    BY <1>5 DEF Report!Prepare
  <2>3. work' \in [Actors -> WorkRecords] /\ \A v \in Actors : work'[v].episode <= episode
    BY <2>1, <2>2
  <2>4. Readers' = Readers
    BY <2>2
  <2>5. reportFaults' \in 0 .. MaxFaults
    BY <1>5, ReportBounds DEF Report!Prepare, Report!Stale, Report!Faulty
  <2>6. reportTasks' \in [{"prepare", "send"} -> 0 .. 1]
    BY <1>5 DEF Report!Prepare, Report!Taken
  <2>7. QED
    BY <1>5, <2>2, <2>3, <2>4, <2>5, <2>6 DEF Report!Prepare
<1>6. ASSUME NEW w \in Actors, Report!Prepared(w) PROVE ReportTypes'
  BY <1>6, ReportBounds, ReportRecords
     DEF Report!Prepared, Report!ReadyStatus, Report!Queued, Report!Overtaken, Report!Free,
         Report!reportVars, Report!causes
<1>7. ASSUME NEW w \in Actors, Report!Send(w) PROVE ReportTypes'
  <2>1. [phase |-> "sending", episode |-> episode] \in WorkRecords
    OBVIOUS
  <2>2. work' = [work EXCEPT ![w] = [phase |-> "sending", episode |-> episode]]
        /\ UNCHANGED <<report, ai, episode, call, sent, calls>>
    BY <1>7 DEF Report!Send
  <2>3. work' \in [Actors -> WorkRecords] /\ \A v \in Actors : work'[v].episode <= episode
    BY <2>1, <2>2
  <2>4. Readers' = Readers
    BY <2>2
  <2>5. reportFaults' \in 0 .. MaxFaults
    BY <1>7, ReportBounds DEF Report!Send, Report!Stale, Report!Faulty
  <2>6. reportTasks' \in [{"prepare", "send"} -> 0 .. 1]
    BY <1>7 DEF Report!Send, Report!Taken
  <2>7. QED
    BY <1>7, <2>2, <2>3, <2>4, <2>5, <2>6 DEF Report!Send
<1>8. ASSUME NEW w \in Actors, Report!Suppress(w) PROVE ReportTypes'
  BY <1>8, ReportBounds, ReportRecords
     DEF Report!Suppress, Report!Taken, Report!Faulty, Report!reportVars, Report!causes
<1>9. ASSUME NEW w \in Actors, Report!Post(w) PROVE ReportTypes'
  <2>1. /\ work' = [work EXCEPT ![w].phase = "posted"]
        /\ sent' = [sent EXCEPT ![work[w].episode] = @ + 1]
        /\ UNCHANGED <<report, notify, ai, episode, call, reportTasks, calls, reportFaults>>
    BY <1>9 DEF Report!Post, Report!reportVars, Report!causes
  <2>2. work[w].episode \in 0 .. MaxCalls
    OBVIOUS
  <2>3. sent' \in [0 .. MaxCalls -> Nat]
    BY <2>1, <2>2
  <2>4. work' \in [Actors -> WorkRecords] /\ \A v \in Actors : work'[v].episode <= episode
    BY <2>1
  <2>5. Readers' = Readers
    BY <2>1
  <2>6. QED
    BY <2>1, <2>3, <2>4, <2>5
<1>10. ASSUME NEW w \in Actors, Report!Accept(w) PROVE ReportTypes'
  BY <1>10, ReportBounds, ReportRecords
     DEF Report!Accept, Report!Free, Report!reportVars, Report!causes
<1>11. ASSUME NEW w \in Actors, Report!Throw(w) PROVE ReportTypes'
  BY <1>11, ReportBounds, ReportRecords
     DEF Report!Throw, Report!Faulty, Report!Queued, Report!Overtaken, Report!Free,
         Report!reportVars, Report!causes
<1>12. ASSUME NEW w \in Actors, Report!Die(w) PROVE ReportTypes'
  BY <1>12, ReportBounds, ReportRecords
     DEF Report!Die, Report!Faulty, Report!Free, Report!reportVars, Report!causes
<1>13. ASSUME NEW task \in {"prepare", "send"}, Report!Skip(task) PROVE ReportTypes'
  BY <1>13, ReportBounds, ReportRecords
     DEF Report!Skip, Report!Taken, Report!reportVars, Report!causes
<1>14. ASSUME Report!Postmark PROVE ReportTypes'
  BY <1>14, ReportBounds, ReportRecords DEF Report!Postmark, Report!Reported, Report!reportVars, Report!causes
<1>15. ASSUME Report!Sweep PROVE ReportTypes'
  BY <1>15, ReportBounds, ReportRecords
     DEF Report!Sweep, Report!Queued, Report!reportVars, Report!causes
<1>16. CASE UNCHANGED reportVars
  BY <1>16 DEF reportVars
<1>17. QED
  BY <1>1, <1>2, <1>3, <1>4, <1>5, <1>6, <1>7, <1>8, <1>9, <1>10, <1>11, <1>12, <1>13, <1>14,
     <1>15, <1>16 DEF ReportSteps, Report!Next, Report!Worker

\* What a call does that is alone.
LEMMA ReadDoes ==
    ASSUME ReportTypes, NEW c \in Askers, Report!Read(c), ~raced'
    PROVE  /\ ~raced /\ \A d \in Askers : call[d].phase = "idle"
           /\ call'[c].phase = "read" /\ call'[c].status = report /\ call'[c].notify = notify
           /\ call'[c].operation = "close" => report # "resolved"
           /\ \A d \in Askers \ {c} : call'[d] = call[d]
           /\ UNCHANGED <<report, notify, ai, message, episode, expected, work, reportTasks, sent,
                          crossed, broken, reportUnsure>>
           /\ ~asked' => /\ ~asked /\ call'[c].operation # "retry"
                         /\ call'[c].operation = "close" => ~Report!Due(notify)
                         /\ call'[c].operation = "notify" => notify # "bounced"
                            /\ ai = "not_requested"
<1>1. ~raced /\ \A d \in Askers : call[d].phase = "idle"
  BY Zenon DEF Report!Read
<1>2. PICK operation \in Report!Operations :
          /\ Report!Admitted(operation)
          /\ call' = [call EXCEPT ![c] = [phase |-> "read", operation |-> operation,
                                          status |-> report, notify |-> notify]]
          /\ asked' = (asked \/ Report!AsksAgain(operation))
  BY Zenon DEF Report!Read
<1>3. /\ call'[c].phase = "read" /\ call'[c].status = report /\ call'[c].notify = notify
      /\ call'[c].operation = operation /\ \A d \in Askers \ {c} : call'[d] = call[d]
  BY <1>2 DEF ReportTypes
<1>4. UNCHANGED <<report, notify, ai, message, episode, expected, work, reportTasks, sent,
                  crossed, broken, reportUnsure>>
  BY DEF Report!Read, Report!reportVars
<1>5. ~asked' => ~asked /\ ~Report!AsksAgain(operation)
  BY <1>2, Zenon
<1>6. operation = "close" => report # "resolved"
  BY <1>2 DEF Report!Admitted
<1>7. QED
  BY <1>1, <1>3, <1>4, <1>5, <1>6 DEF Report!AsksAgain

\* A call that takes the report up again.
TakesUp(c) == Report!StatusOf(call[c].operation) # "resolved" /\ call[c].status = "resolved"

LEMMA WriteDoes ==
    ASSUME ReportTypes, NEW c \in Askers, Report!Write(c), ~raced'
    PROVE  /\ ~raced /\ call[c].phase = "read" /\ notify = call[c].notify
           /\ report' = Report!StatusOf(call[c].operation)
           /\ call'[c].phase = Report!Remains(c)
           /\ Report!Queues(c) => notify' = "pending" /\ report' = "resolved"
           /\ ~Report!Queues(c) => notify' = notify \/ notify' = "not_requested"
           /\ ~Report!Queues(c) /\ ~TakesUp(c) => notify' = notify
           /\ episode' = IF TakesUp(c) THEN episode + 1 ELSE episode
           /\ expected' => report' = "resolved" /\ (expected \/ call[c].operation # "resolve")
           /\ \A d \in Askers \ {c} : call'[d] = call[d]
           /\ UNCHANGED <<ai, work, reportTasks, sent, crossed, broken, reportUnsure, asked>>
<1>1. ~raced /\ notify = call[c].notify
  BY Zenon DEF Report!Write
<1>2. call[c].phase = "read"
      /\ UNCHANGED <<ai, work, reportTasks, sent, crossed, broken, reportUnsure, asked>>
  BY DEF Report!Write
<1>3. /\ report' = Report!StatusOf(call[c].operation)
      /\ notify' = IF Report!Queues(c) THEN "pending"
                   ELSE IF Report!StatusOf(call[c].operation) = "open"
                           /\ call[c].status = "resolved"
                        THEN "not_requested" ELSE call[c].notify
      /\ episode' = IF TakesUp(c) THEN episode + 1 ELSE episode
      /\ call' = [call EXCEPT ![c] = [Report!NoCall EXCEPT !.phase = Report!Remains(c)]]
  BY DEF Report!Write, TakesUp
<1>4. expected' => report' = "resolved" /\ (expected \/ call[c].operation # "resolve")
  BY Zenon DEF Report!Write
<1>5. Report!Queues(c) => Report!StatusOf(call[c].operation) = "resolved"
  BY DEF Report!Queues, Report!StatusOf
<1>6. call'[c].phase = Report!Remains(c) /\ \A d \in Askers \ {c} : call'[d] = call[d]
  BY <1>3 DEF ReportTypes, Report!NoCall
<1>7. QED
  BY <1>1, <1>2, <1>3, <1>4, <1>5, <1>6 DEF TakesUp

Active(c)  == call[c].phase # "idle"
Closing(c) == call[c].phase = "closing"

OneCaller == \A c, d \in Askers : Active(c) /\ Active(d) => c = d

Reopens == \A c \in Askers : call[c].phase = "reopening" => report # "resolved"

\* Unless calls overlapped or one broke off, a resolution that asked for an email has it
\* prepared, due or dealt with, or the one call that there is will ask for it.
PursuedQuiet ==
    raced \/ broken \/
        /\ OneCaller
        /\ Reopens
        /\ expected => report = "resolved"
        /\ expected =>
               \/ ai \in {"pending", "generating", "insufficient", "failed"}
               \/ notify # "not_requested"
               \/ \E c \in Askers : Closing(c)

\* No step of it breaks the invariant.
LEMMA PursuedKept == ReportTypes /\ PursuedQuiet /\ ReportSteps => PursuedQuiet'
<1> SUFFICES ASSUME ReportTypes, PursuedQuiet, ReportSteps, ~raced', ~broken'
             PROVE  PursuedQuiet'
  BY DEF PursuedQuiet
<1> USE DEF ReportTypes, PursuedQuiet, CallRecords, WorkRecords, Report!Notifications,
           Report!Operations, Report!Statuses, OneCaller, Reopens, Active, Closing
<1>1. ASSUME NEW c \in Askers, Report!Read(c) PROVE PursuedQuiet'
  <2>1. /\ ~raced /\ \A d \in Askers : call[d].phase = "idle"
        /\ call'[c].phase = "read" /\ \A d \in Askers \ {c} : call'[d] = call[d]
        /\ UNCHANGED <<report, notify, ai, expected, broken>>
    BY <1>1, ReadDoes
  <2>2. \A d \in Askers \ {c} : call'[d].phase = "idle"
    BY <2>1
  <2>3. OneCaller' /\ Reopens'
    BY <2>1, <2>2
  <2>4. QED
    BY <2>1, <2>3
<1>2. ASSUME NEW c \in Askers, Report!Write(c) PROVE PursuedQuiet'
  <2>1. /\ ~raced /\ ~broken /\ call[c].phase = "read" /\ notify = call[c].notify
        /\ \A d \in Askers \ {c} : call'[d] = call[d]
        /\ call'[c].phase = Report!Remains(c)
        /\ report' = Report!StatusOf(call[c].operation) /\ ai' = ai
    BY <1>2, WriteDoes
  <2>2. \A d \in Askers \ {c} : call[d].phase = "idle" /\ call'[d].phase = "idle"
    BY <2>1
  <2>3. OneCaller' /\ Reopens'
    BY <2>1, <2>2 DEF Report!Remains, Report!Queues, Report!StatusOf
  <2>4. ASSUME expected' PROVE report' = "resolved"
    BY <1>2, <2>4, WriteDoes
  <2>5. ASSUME expected', notify' = "not_requested",
               ai \notin {"pending", "generating", "insufficient", "failed"}
        PROVE  Closing(c)'
    <3>1. ~Report!Queues(c) /\ report' = "resolved"
          /\ (expected \/ call[c].operation # "resolve")
      BY <1>2, <2>5, WriteDoes
    <3>2. ~TakesUp(c)
      BY <2>1, <3>1 DEF TakesUp
    <3>3. notify = "not_requested"
      BY <1>2, <2>5, <3>1, <3>2, WriteDoes
    <3>4. call[c].operation # "resolve"
      BY <2>1, <2>2, <2>5, <3>1, <3>3
    <3>5. call[c].operation = "close"
      BY <2>1, <3>1, <3>3, <3>4 DEF Report!Queues, Report!StatusOf
    <3>6. QED
      BY <2>1, <3>1, <3>5 DEF Report!Remains
  <2>6. QED
    BY <2>1, <2>3, <2>4, <2>5
<1>3. ASSUME NEW c \in Askers, Report!Follow(c) PROVE PursuedQuiet'
  BY <1>3, ReportRecords
     DEF Report!Follow, Report!Queued, Report!NoCall, Report!reportVars, Report!causes
<1>4. ASSUME NEW c \in Askers, Report!BreakOff(c) PROVE PursuedQuiet'
  BY <1>4, ReportRecords
     DEF Report!BreakOff, Report!Faulty, Report!NoCall, Report!reportVars, Report!causes
<1>5. ASSUME NEW w \in Actors, Report!Prepare(w) PROVE PursuedQuiet'
  BY <1>5, ReportRecords
     DEF Report!Prepare, Report!Taken, Report!Stale, Report!Faulty, Report!reportVars,
         Report!causes
<1>6. ASSUME NEW w \in Actors, Report!Prepared(w) PROVE PursuedQuiet'
  BY <1>6, ReportRecords
     DEF Report!Prepared, Report!ReadyStatus, Report!Queued, Report!Overtaken, Report!Free,
         Report!reportVars, Report!causes
<1>7. ASSUME NEW w \in Actors, Report!Send(w) PROVE PursuedQuiet'
  BY <1>7, ReportRecords
     DEF Report!Send, Report!Taken, Report!Stale, Report!Claimable, Report!Faulty,
         Report!reportVars, Report!causes
<1>8. ASSUME NEW w \in Actors, Report!Suppress(w) PROVE PursuedQuiet'
  BY <1>8, ReportRecords
     DEF Report!Suppress, Report!Taken, Report!Faulty, Report!reportVars, Report!causes
<1>9. ASSUME NEW w \in Actors, Report!Post(w) PROVE PursuedQuiet'
  BY <1>9, ReportRecords DEF Report!Post, Report!reportVars, Report!causes
<1>10. ASSUME NEW w \in Actors, Report!Accept(w) PROVE PursuedQuiet'
  BY <1>10, ReportRecords DEF Report!Accept, Report!Free, Report!reportVars, Report!causes
<1>11. ASSUME NEW w \in Actors, Report!Throw(w) PROVE PursuedQuiet'
  BY <1>11, ReportRecords
     DEF Report!Throw, Report!Faulty, Report!Queued, Report!Overtaken, Report!Free,
         Report!reportVars, Report!causes
<1>12. ASSUME NEW w \in Actors, Report!Die(w) PROVE PursuedQuiet'
  BY <1>12, ReportRecords
     DEF Report!Die, Report!Faulty, Report!Free, Report!reportVars, Report!causes
<1>13. ASSUME NEW task \in {"prepare", "send"}, Report!Skip(task) PROVE PursuedQuiet'
  BY <1>13, ReportRecords DEF Report!Skip, Report!Taken, Report!reportVars, Report!causes
<1>14. ASSUME Report!Postmark PROVE PursuedQuiet'
  BY <1>14, ReportRecords DEF Report!Postmark, Report!Reported, Report!reportVars, Report!causes
<1>15. ASSUME Report!Sweep PROVE PursuedQuiet'
  BY <1>15, ReportRecords DEF Report!Sweep, Report!Queued, Report!reportVars, Report!causes
<1>16. CASE UNCHANGED reportVars
  BY <1>16 DEF reportVars
<1>17. QED
  BY <1>1, <1>2, <1>3, <1>4, <1>5, <1>6, <1>7, <1>8, <1>9, <1>10, <1>11, <1>12, <1>13, <1>14,
     <1>15, <1>16 DEF ReportSteps, Report!Next, Report!Worker

Mine(w)     == work[w].episode = episode
Sends(w)    == work[w].phase \in {"sending", "posted"}
Prepares(w) == work[w].phase = "preparing" /\ Mine(w)

\* An email of this episode was sent, or is being sent; one is due.
Out == sent[episode] > 0 \/ \E w \in Actors : Sends(w) /\ Mine(w)
Due == notify \in {"pending", "failed", "sending"}

\* Nothing will make an email due.
NothingToCome ==
    /\ ai \notin {"pending", "generating", "failed"}
    /\ \A w \in Actors : ~Prepares(w)
    /\ \A c \in Askers : ~Closing(c)

\* The one call has read what is still so, and does not ask for a second email.
CallsFit ==
    /\ OneCaller
    /\ Reopens
    /\ \A c \in Askers :
           call[c].phase = "read" =>
               /\ call[c].status = report
               /\ call[c].operation # "retry"
               /\ call[c].operation = "close" =>
                      report # "resolved" /\ ~Report!Due(call[c].notify)
               /\ call[c].operation = "notify" => call[c].notify # "bounced"
                  /\ ai = "not_requested"

SentOnce ==
    /\ \A e \in 0 .. MaxCalls : sent[e] <= 1 /\ (e > episode => sent[e] = 0)
    /\ \A w \in Actors : work[w].phase = "sending" => sent[work[w].episode] = 0
    /\ \A w, v \in Actors : Sends(w) /\ Sends(v) /\ work[w].episode = work[v].episode => w = v

OnePrepares ==
    /\ \A w \in Actors : Prepares(w) => ai = "generating"
    /\ \A w, v \in Actors : Prepares(w) /\ Prepares(v) => w = v

\* No email is out until the report is resolved, and none is due when it was just closed
\* and not yet asked for one.
NotYet == ~Out /\ \A w \in Actors : ~Prepares(w)
NotYetDue ==
    /\ report # "resolved" => NotYet
    /\ (\E c \in Askers : Closing(c)) => NotYet /\ ~Due

\* What is out is not due again, and what is due is not due twice.
OutIsEnough == Out => NothingToCome /\ notify \notin {"pending", "failed", "not_requested"}
DueIsEnough == Due => NothingToCome
SentIsRecorded ==
    notify = "sending" /\ sent[episode] > 0 =>
        \E w \in Actors : work[w].phase = "posted" /\ Mine(w)

EmailFits ==
    CallsFit /\ SentOnce /\ OnePrepares /\ NotYetDue /\ OutIsEnough /\ DueIsEnough
    /\ SentIsRecorded
EmailQuiet == raced \/ crossed \/ reportUnsure \/ asked \/ EmailFits

\* A worker that claims nothing, and whose work does not change, is still what it was.
LEMMA SameWork ==
    UNCHANGED <<episode, work>> =>
        \A w \in Actors : /\ Mine(w)' <=> Mine(w)
                          /\ Sends(w)' <=> Sends(w)
                          /\ Prepares(w)' <=> Prepares(w)
BY DEF Mine, Sends, Prepares

LEMMA OthersWork ==
    ASSUME NEW w \in Actors, episode' = episode, \A v \in Actors \ {w} : work'[v] = work[v]
    PROVE  \A v \in Actors \ {w} : /\ Mine(v)' <=> Mine(v)
                                   /\ Sends(v)' <=> Sends(v)
                                   /\ Prepares(v)' <=> Prepares(v)
BY DEF Mine, Sends, Prepares

\* A call that changes nothing else, and does not close the report.
LEMMA EmailFrame ==
    ASSUME EmailFits, UNCHANGED <<report, notify, ai, episode, work, sent>>,
           \A c \in Askers : Closing(c)' => Closing(c), CallsFit'
    PROVE  EmailFits'
<1>1. \A w \in Actors : /\ Mine(w)' <=> Mine(w)
                        /\ Sends(w)' <=> Sends(w)
                        /\ Prepares(w)' <=> Prepares(w)
  BY SameWork
<1>2. (Out' <=> Out) /\ (Due' <=> Due) /\ (NotYet => NotYet')
      /\ (NothingToCome => NothingToCome')
  BY <1>1 DEF Out, Due, NotYet, NothingToCome
<1>3. SentOnce' /\ OnePrepares'
  BY <1>1 DEF EmailFits, SentOnce, OnePrepares
<1>4. NotYetDue' /\ OutIsEnough' /\ DueIsEnough' /\ SentIsRecorded'
  BY <1>1, <1>2 DEF EmailFits, NotYetDue, OutIsEnough, DueIsEnough, SentIsRecorded
<1>5. QED
  BY <1>3, <1>4 DEF EmailFits

\* A worker that ends makes nothing due, unless it posted and did not get to record it.
LEMMA FreedWorker ==
    ASSUME EmailFits, NEW w \in Actors, UNCHANGED <<report, ai, episode, call, sent>>,
           work'[w].phase = "free", \A v \in Actors \ {w} : work'[v] = work[v],
           notify' = "accepted" \/ (notify' = notify /\ work[w].phase # "posted")
    PROVE  EmailFits'
<1>1. \A v \in Actors \ {w} : (Mine(v)' <=> Mine(v)) /\ (Sends(v)' <=> Sends(v))
      /\ (Prepares(v)' <=> Prepares(v))
  BY OthersWork
<1>2. ~Sends(w)' /\ ~Prepares(w)'
  BY DEF Sends, Prepares
<1>3. (Out' => Out) /\ (Due' => Due)
  BY <1>1, <1>2 DEF Out, Due
<1>4. (NotYet => NotYet') /\ (NothingToCome => NothingToCome')
      /\ \A c \in Askers : Closing(c)' <=> Closing(c)
  BY <1>1, <1>2, <1>3 DEF NotYet, NothingToCome, Closing
<1>5. SentOnce'
  BY <1>1, <1>2 DEF EmailFits, SentOnce
<1>6. OnePrepares'
  BY <1>1, <1>2 DEF EmailFits, OnePrepares
<1>7. CallsFit'
  BY DEF EmailFits, CallsFit, OneCaller, Reopens, Active
<1>8. NotYetDue' /\ OutIsEnough' /\ DueIsEnough'
  BY <1>3, <1>4 DEF EmailFits, NotYetDue, OutIsEnough, DueIsEnough
<1>9. SentIsRecorded'
  <2>1. CASE notify' = "accepted"
    BY <2>1 DEF SentIsRecorded
  <2>2. CASE notify' = notify /\ work[w].phase # "posted"
    BY <1>1, <2>2 DEF EmailFits, SentIsRecorded
  <2>3. QED
    BY <2>1, <2>2
<1>10. QED
  BY <1>5, <1>6, <1>7, <1>8, <1>9 DEF EmailFits

\* The provider's answer makes nothing due.
LEMMA Answered ==
    ASSUME EmailFits, UNCHANGED <<report, ai, episode, call, work, sent>>,
           notify' \in {"delivered", "bounced"}
    PROVE  EmailFits'
<1>1. \A w \in Actors : (Mine(w)' <=> Mine(w)) /\ (Sends(w)' <=> Sends(w))
      /\ (Prepares(w)' <=> Prepares(w))
  BY SameWork
<1>2. (Out' <=> Out) /\ ~Due'
  BY <1>1 DEF Out, Due
<1>3. (NotYet => NotYet') /\ (NothingToCome => NothingToCome')
      /\ \A c \in Askers : Closing(c)' <=> Closing(c)
  BY <1>1, <1>2 DEF NotYet, NothingToCome, Closing
<1>4. SentOnce' /\ OnePrepares' /\ CallsFit'
  BY <1>1 DEF EmailFits, SentOnce, OnePrepares, CallsFit, OneCaller, Reopens, Active
<1>5. NotYetDue' /\ OutIsEnough' /\ DueIsEnough' /\ SentIsRecorded'
  BY <1>2, <1>3 DEF EmailFits, NotYetDue, OutIsEnough, DueIsEnough, SentIsRecorded
<1>6. QED
  BY <1>4, <1>5 DEF EmailFits

\* No step of it breaks the invariant.
LEMMA EmailKept == ReportTypes /\ ReportTypes' /\ EmailQuiet /\ ReportSteps => EmailQuiet'
<1> SUFFICES ASSUME ReportTypes, ReportTypes', EmailQuiet, ReportSteps,
                    ~raced', ~crossed', ~reportUnsure', ~asked'
             PROVE  EmailFits'
  BY DEF EmailQuiet
<1>1. ASSUME NEW c \in Askers, Report!Read(c) PROVE EmailFits'
  <2>1. /\ EmailFits /\ UNCHANGED <<report, notify, ai, episode, work, sent>>
        /\ \A d \in Askers : call[d].phase = "idle"
        /\ \A d \in Askers \ {c} : call'[d] = call[d]
    BY <1>1, ReadDoes DEF EmailQuiet
  <2>2. \A d \in Askers \ {c} : call'[d].phase = "idle"
    BY <2>1
  <2>3. call'[c].phase = "read" /\ call'[c].status = report /\ call'[c].notify = notify
        /\ (call'[c].operation = "close" => report # "resolved" /\ ~Report!Due(notify))
        /\ call'[c].operation # "retry"
        /\ (call'[c].operation = "notify" => notify # "bounced" /\ ai = "not_requested")
    BY <1>1, ReadDoes
  <2>4. CallsFit' /\ \A d \in Askers : Closing(d)' => Closing(d)
    BY <2>1, <2>2, <2>3 DEF CallsFit, OneCaller, Reopens, Active, Closing
  <2>5. QED
    BY <2>1, <2>4, EmailFrame
<1>2. ASSUME NEW c \in Askers, Report!Write(c) PROVE EmailFits'
  <2>1. /\ EmailFits /\ call[c].phase = "read" /\ notify = call[c].notify
        /\ call'[c].phase = Report!Remains(c)
        /\ report' = Report!StatusOf(call[c].operation)
        /\ \A d \in Askers \ {c} : call'[d] = call[d]
        /\ UNCHANGED <<ai, work, sent>>
    BY <1>2, WriteDoes DEF EmailQuiet
  <2>2. \A d \in Askers \ {c} : call[d].phase = "idle" /\ call'[d].phase = "idle"
    BY <2>1 DEF EmailFits, CallsFit, OneCaller, Active
  <2>3. /\ call[c].operation # "retry" /\ call[c].status = report
        /\ call[c].operation = "close" => report # "resolved" /\ ~Due
        /\ call[c].operation = "notify" => notify # "bounced" /\ ai = "not_requested"
    BY <2>1 DEF EmailFits, CallsFit, Due, Report!Due
  <2>4. call'[c].phase # "read" /\ (call'[c].phase = "reopening" => report' # "resolved")
        /\ (call'[c].phase = "closing" => ~Report!Queues(c) /\ call[c].operation = "close")
    BY <2>1 DEF Report!Remains, Report!Queues, Report!StatusOf
  <2>5. CallsFit'
    BY <2>1, <2>2, <2>4 DEF CallsFit, OneCaller, Reopens, Active
  <2>6. \A d \in Askers : Closing(d)' => ~Report!Queues(c) /\ call[c].operation = "close"
    BY <2>1, <2>2, <2>4 DEF Closing
  <2>7. \A d \in Askers : ~Closing(d)
    BY <2>1, <2>2 DEF Closing
  <2>8. episode' = IF TakesUp(c) THEN episode + 1 ELSE episode
    BY <1>2, WriteDoes
  <2>9. SentOnce'
    BY <2>1, <2>8 DEF EmailFits, SentOnce, Sends, ReportTypes
  <2>10. CASE Report!Queues(c)
    <3>1. notify' = "pending" /\ report' = "resolved"
      BY <1>2, <2>10, WriteDoes
    <3>2. /\ ai = "not_requested"
          /\ notify \notin {"pending", "sending", "accepted", "delivered", "bounced"}
      BY <2>1, <2>3, <2>10 DEF Report!Queues
    <3>3. notify \in {"not_requested", "failed"}
      BY <3>2 DEF ReportTypes, Report!Notifications
    <3>4. ~Out /\ episode' = episode
      BY <2>1, <2>8, <3>1, <3>3 DEF EmailFits, OutIsEnough, TakesUp
    <3>5. \A w \in Actors : (Mine(w)' <=> Mine(w)) /\ (Sends(w)' <=> Sends(w))
          /\ (Prepares(w)' <=> Prepares(w))
      BY <2>1, <3>4, SameWork
    <3>6. ~Out' /\ \A w \in Actors : ~Prepares(w)'
      BY <2>1, <3>2, <3>4, <3>5 DEF EmailFits, Out, OnePrepares
    <3>7. \A d \in Askers : ~Closing(d)'
      BY <2>6, <2>10
    <3>8. NothingToCome'
      BY <2>1, <3>2, <3>6, <3>7 DEF NothingToCome
    <3>9. QED
      BY <2>5, <2>9, <3>1, <3>6, <3>7, <3>8
         DEF EmailFits, OnePrepares, NotYetDue, OutIsEnough, DueIsEnough, SentIsRecorded
  <2>11. CASE ~Report!Queues(c) /\ ~TakesUp(c)
    <3>1. UNCHANGED <<notify, episode>>
      BY <1>2, <2>11, WriteDoes
    <3>2. \A w \in Actors : (Mine(w)' <=> Mine(w)) /\ (Sends(w)' <=> Sends(w))
          /\ (Prepares(w)' <=> Prepares(w))
      BY <2>1, <3>1, SameWork
    <3>3. (Out' <=> Out) /\ (Due' <=> Due) /\ (NotYet => NotYet')
      BY <2>1, <3>1, <3>2 DEF Out, Due, NotYet
    <3>4. report' # "resolved" => report # "resolved"
      BY <2>1, <2>3, <2>11 DEF TakesUp
    <3>5. (\E d \in Askers : Closing(d)') => report # "resolved" /\ ~Due
      BY <2>3, <2>6
    <3>6. NotYetDue'
      BY <2>1, <3>3, <3>4, <3>5 DEF EmailFits, NotYetDue
    <3>7. Out' => NothingToCome /\ report = "resolved"
      BY <2>1, <3>3 DEF EmailFits, OutIsEnough, NotYetDue, NotYet
    <3>8. Due' => NothingToCome /\ Due
      BY <2>1, <3>3 DEF EmailFits, DueIsEnough
    <3>9. Out' \/ Due' => NothingToCome'
      BY <2>1, <3>2, <3>5, <3>7, <3>8 DEF NothingToCome
    <3>10. OnePrepares' /\ OutIsEnough' /\ DueIsEnough' /\ SentIsRecorded'
      BY <2>1, <3>1, <3>2, <3>3, <3>9
         DEF EmailFits, OnePrepares, OutIsEnough, DueIsEnough, SentIsRecorded
    <3>11. QED
      BY <2>5, <2>9, <3>6, <3>10 DEF EmailFits
  <2>12. CASE ~Report!Queues(c) /\ TakesUp(c)
    <3>1. /\ notify' = notify \/ notify' = "not_requested"
          /\ episode' = episode + 1 /\ report' # "resolved"
      BY <1>2, <2>1, <2>12, WriteDoes DEF TakesUp
    <3>2. \A w \in Actors : ~Mine(w)'
      BY <2>1, <3>1, ReportBounds DEF Mine, ReportTypes, WorkRecords
    <3>3. sent'[episode'] = 0
      BY <2>1, <3>1, ReportBounds DEF EmailFits, SentOnce, ReportTypes
    <3>4. ~Out' /\ \A w \in Actors : ~Prepares(w)'
      BY <3>2, <3>3 DEF Out, Prepares
    <3>5. \A d \in Askers : ~Closing(d)'
      BY <2>1, <2>6, <3>1 DEF Report!StatusOf
    <3>6. Due' => NothingToCome'
      BY <2>1, <3>1, <3>4, <3>5 DEF EmailFits, DueIsEnough, Due, NothingToCome
    <3>7. QED
      BY <2>5, <2>9, <3>3, <3>4, <3>5, <3>6
         DEF EmailFits, OnePrepares, NotYetDue, NotYet, OutIsEnough, DueIsEnough, SentIsRecorded
  <2>13. QED
    BY <2>10, <2>11, <2>12
<1>3. ASSUME NEW c \in Askers, Report!Follow(c) PROVE EmailFits'
  <2>1. /\ EmailFits /\ call' = [call EXCEPT ![c] = Report!NoCall] /\ call[c].phase # "idle"
        /\ UNCHANGED <<report, notify, episode, work, sent>>
    BY <1>3 DEF Report!Follow, Report!causes, EmailQuiet
  <2>2. call'[c].phase = "idle" /\ \A d \in Askers \ {c} : call'[d] = call[d]
        /\ call[d].phase = "idle"
    BY <2>1, ReportRecords DEF EmailFits, CallsFit, OneCaller, Active, ReportTypes
  <2>3. \A d \in Askers : call'[d].phase = "idle"
    BY <2>2
  <2>4. CallsFit' /\ \A d \in Askers : ~Closing(d)'
    BY <2>3 DEF CallsFit, OneCaller, Reopens, Active, Closing
  <2>5. CASE ai' = ai
    BY <2>1, <2>4, <2>5, EmailFrame
  <2>6. CASE ai' # ai
    <3>1. \/ Closing(c)
          \/ call[c].phase = "reopening" /\ ai' = "not_requested"
      BY <1>3, <2>6 DEF Report!Follow, Closing
    <3>2. NotYet /\ (Due => ai' = "not_requested")
      BY <2>1, <3>1 DEF EmailFits, CallsFit, Reopens, NotYetDue
    <3>3. \A w \in Actors : (Mine(w)' <=> Mine(w)) /\ (Sends(w)' <=> Sends(w))
          /\ (Prepares(w)' <=> Prepares(w))
      BY <2>1, SameWork
    <3>4. ~Out' /\ (Due' <=> Due) /\ \A w \in Actors : ~Prepares(w)'
      BY <2>1, <3>2, <3>3 DEF NotYet, Out, Due
    <3>5. SentOnce' /\ SentIsRecorded'
      BY <2>1, <3>2, <3>3 DEF EmailFits, SentOnce, SentIsRecorded, NotYet, Out
    <3>6. DueIsEnough'
      BY <2>4, <3>2, <3>4 DEF DueIsEnough, NothingToCome
    <3>7. QED
      BY <2>4, <3>4, <3>5, <3>6
         DEF EmailFits, OnePrepares, NotYetDue, NotYet, OutIsEnough
  <2>7. QED
    BY <2>5, <2>6
<1>4. ASSUME NEW c \in Askers, Report!BreakOff(c) PROVE EmailFits'
  <2>1. /\ EmailFits /\ call' = [call EXCEPT ![c] = Report!NoCall]
        /\ UNCHANGED <<report, notify, ai, episode, work, sent>>
    BY <1>4 DEF Report!BreakOff, Report!reportVars, EmailQuiet
  <2>2. call'[c].phase = "idle" /\ \A d \in Askers \ {c} : call'[d] = call[d]
    BY <2>1, ReportRecords DEF ReportTypes
  <2>3. \A d \in Askers : Closing(d)' => Closing(d)
    BY <2>2 DEF Closing
  <2>4. CallsFit'
    BY <2>1, <2>2 DEF EmailFits, CallsFit, OneCaller, Reopens, Active
  <2>5. QED
    BY <2>1, <2>3, <2>4, EmailFrame
<1>5. ASSUME NEW w \in Actors, Report!Prepare(w) PROVE EmailFits'
  <2>1. EmailFits
    <3>1. raced' = raced /\ asked' = asked
          /\ (reportUnsure' = reportUnsure \/ reportUnsure' = TRUE)
      BY <1>5 DEF Report!Prepare, Report!Stale
    <3>2. crossed => crossed'
      BY <1>5, Zenon DEF Report!Prepare
    <3>3. QED
      BY <3>1, <3>2, Zenon DEF EmailQuiet
  <2>2. /\ EmailFits /\ UNCHANGED <<report, notify, episode, call, sent>>
        /\ ai' = "generating" /\ report = "resolved"
        /\ ai \in {"pending", "failed", "generating"}
        /\ work' = [work EXCEPT ![w] = [phase |-> "preparing", episode |-> episode]]
    BY <1>5, <2>1 DEF Report!Prepare
  <2>3. \A c \in Askers : call[c].phase # "closing"
    BY <1>5, Zenon DEF Report!Prepare
  <2>4. /\ work[w].phase = "free" /\ work'[w].phase = "preparing" /\ work'[w].episode = episode
        /\ \A v \in Actors \ {w} : work'[v] = work[v]
    BY <1>5, <2>2 DEF Report!Prepare, ReportTypes
  <2>5. \A v \in Actors : ~Prepares(v)
    <3>1. CASE ai = "generating"
      <4>1. \A v \in Actors : work[v].phase \notin {"preparing"}
        BY <1>5, <3>1, Zenon DEF Report!Prepare, Report!Stale
      <4>2. QED
        BY <4>1 DEF Prepares
    <3>2. CASE ai # "generating"
      BY <2>2, <3>2 DEF EmailFits, OnePrepares
    <3>3. QED
      BY <3>1, <3>2
  <2>6. ~Out /\ ~Due
    BY <2>2 DEF EmailFits, OutIsEnough, DueIsEnough, NothingToCome
  <2>7. \A v \in Actors \ {w} : (Mine(v)' <=> Mine(v)) /\ (Sends(v)' <=> Sends(v))
        /\ (Prepares(v)' <=> Prepares(v))
    BY <2>2, <2>4, OthersWork
  <2>8. ~Sends(w)'
    BY <2>4 DEF Sends
  <2>9. ~Out' /\ ~Due'
    BY <2>2, <2>6, <2>7, <2>8 DEF Out, Due
  <2>10. SentOnce'
    BY <2>2, <2>4, <2>7, <2>8 DEF EmailFits, SentOnce
  <2>11. OnePrepares'
    BY <2>2, <2>5, <2>7 DEF OnePrepares
  <2>12. CallsFit'
    <3>1. \A c \in Askers : call[c].phase = "read" => call[c].operation # "notify"
      BY <2>2 DEF EmailFits, CallsFit
    <3>2. QED
      BY <2>2, <3>1 DEF EmailFits, CallsFit, OneCaller, Reopens, Active
  <2>13. NotYetDue' /\ OutIsEnough' /\ DueIsEnough' /\ SentIsRecorded'
    BY <2>2, <2>3, <2>9 DEF NotYetDue, Closing, OutIsEnough, DueIsEnough, SentIsRecorded, Due
  <2>14. QED
    BY <2>10, <2>11, <2>12, <2>13 DEF EmailFits
<1>6. ASSUME NEW w \in Actors, Report!Prepared(w) PROVE EmailFits'
  <2>1. /\ EmailFits /\ UNCHANGED <<report, episode, call, sent>>
        /\ work' = [work EXCEPT ![w] = Report!Free] /\ work[w].phase = "preparing"
    BY <1>6 DEF Report!Prepared, EmailQuiet
  <2>2. Mine(w)
    BY <1>6, Zenon DEF Report!Prepared, Report!Overtaken, Mine
  <2>3. Prepares(w) /\ ai = "generating"
    BY <2>1, <2>2 DEF Prepares, EmailFits, OnePrepares
  <2>4. /\ ~Out /\ ~Due /\ report = "resolved"
        /\ \A c \in Askers : ~Closing(c)
    BY <2>1, <2>3
       DEF EmailFits, OutIsEnough, DueIsEnough, NothingToCome, NotYetDue, NotYet, ReportTypes
  <2>5. \/ ai' = "insufficient" /\ notify' = notify
        \/ ai' = "ready" /\ notify' = "pending"
    BY <1>6, <2>4 DEF Report!Prepared, Report!ReadyStatus
  <2>6. work'[w].phase = "free" /\ \A v \in Actors \ {w} : work'[v] = work[v]
    BY <2>1, ReportRecords DEF ReportTypes
  <2>7. \A v \in Actors \ {w} : (Mine(v)' <=> Mine(v)) /\ (Sends(v)' <=> Sends(v))
        /\ (Prepares(v)' <=> Prepares(v))
    BY <2>1, <2>6, OthersWork
  <2>8. ~Sends(w)' /\ ~Prepares(w)'
    BY <2>6 DEF Sends, Prepares
  <2>9. ~Out' /\ \A v \in Actors : ~Prepares(v)'
    BY <2>1, <2>3, <2>4, <2>7, <2>8 DEF Out, EmailFits, OnePrepares
  <2>10. SentOnce' /\ OnePrepares'
    BY <2>1, <2>6, <2>7, <2>8, <2>9 DEF EmailFits, SentOnce, OnePrepares
  <2>11. \A c \in Askers : ~Closing(c)'
    BY <2>1, <2>4 DEF Closing
  <2>12. NothingToCome'
    BY <2>5, <2>9, <2>11 DEF NothingToCome
  <2>13. CallsFit'
    <3>1. \A c \in Askers : call[c].phase = "read" => call[c].operation # "notify"
      BY <2>1, <2>3 DEF EmailFits, CallsFit
    <3>2. QED
      BY <2>1, <3>1 DEF EmailFits, CallsFit, OneCaller, Reopens, Active
  <2>14. NotYetDue' /\ OutIsEnough' /\ DueIsEnough'
    BY <2>1, <2>4, <2>9, <2>11, <2>12 DEF NotYetDue, OutIsEnough, DueIsEnough
  <2>15. SentIsRecorded'
    BY <2>4, <2>5 DEF SentIsRecorded, Due
  <2>16. QED
    BY <2>10, <2>13, <2>14, <2>15 DEF EmailFits
<1>7. ASSUME NEW w \in Actors, Report!Send(w) PROVE EmailFits'
  <2>1. EmailFits
    <3>1. raced' = raced /\ asked' = asked /\ crossed' = crossed
          /\ (reportUnsure' = reportUnsure \/ reportUnsure' = TRUE)
      BY <1>7 DEF Report!Send, Report!Stale
    <3>2. QED
      BY <3>1, Zenon DEF EmailQuiet
  <2>2. /\ EmailFits /\ UNCHANGED <<report, ai, episode, call, sent>>
        /\ notify' = "sending" /\ report = "resolved" /\ Due
        /\ work' = [work EXCEPT ![w] = [phase |-> "sending", episode |-> episode]]
    BY <1>7, <2>1 DEF Report!Send, Report!Claimable, Due
  <2>3. /\ work[w].phase = "free" /\ work'[w].phase = "sending" /\ work'[w].episode = episode
        /\ \A v \in Actors \ {w} : work'[v] = work[v]
    BY <1>7, <2>2 DEF Report!Send, ReportTypes
  <2>4. ~Out
    <3>1. CASE notify = "sending"
      <4>1. \A v \in Actors : work[v].phase \notin {"sending", "posted"}
        BY <1>7, <3>1, Zenon DEF Report!Send, Report!Claimable, Report!Stale
      <4>2. ~(sent[episode] > 0)
        BY <2>2, <3>1, <4>1 DEF EmailFits, SentIsRecorded
      <4>3. QED
        BY <4>1, <4>2 DEF Out, Sends
    <3>2. CASE notify # "sending"
      BY <2>2, <3>2 DEF EmailFits, OutIsEnough, Due
    <3>3. QED
      BY <3>1, <3>2
  <2>5. NothingToCome
    BY <2>2 DEF EmailFits, DueIsEnough
  <2>6. \A v \in Actors \ {w} : (Mine(v)' <=> Mine(v)) /\ (Sends(v)' <=> Sends(v))
        /\ (Prepares(v)' <=> Prepares(v))
    BY <2>2, <2>3, OthersWork
  <2>7. ~Prepares(w)'
    BY <2>3 DEF Prepares
  <2>8. NothingToCome' /\ \A c \in Askers : ~Closing(c)'
    BY <2>2, <2>5, <2>6, <2>7 DEF NothingToCome, Closing
  <2>9. sent[episode] = 0 /\ \A v \in Actors : ~(Sends(v) /\ Mine(v))
    <3>1. sent[episode] \in Nat /\ ~(sent[episode] > 0)
      BY <2>4 DEF Out, ReportTypes
    <3>2. QED
      BY <2>4, <3>1 DEF Out
  <2>10. SentOnce'
    BY <2>2, <2>3, <2>6, <2>9 DEF EmailFits, SentOnce, Mine
  <2>11. OnePrepares'
    BY <2>8 DEF OnePrepares, NothingToCome
  <2>12. CallsFit'
    BY <2>2 DEF EmailFits, CallsFit, OneCaller, Reopens, Active
  <2>13. NotYetDue' /\ OutIsEnough' /\ DueIsEnough' /\ SentIsRecorded'
    BY <2>2, <2>8, <2>9 DEF NotYetDue, OutIsEnough, DueIsEnough, SentIsRecorded
  <2>14. QED
    BY <2>10, <2>11, <2>12, <2>13 DEF EmailFits
<1>8. ASSUME NEW w \in Actors, Report!Suppress(w) PROVE EmailFits'
  <2>1. /\ EmailFits /\ UNCHANGED <<report, ai, episode, call, work, sent>>
        /\ notify' = "bounced"
    BY <1>8 DEF Report!Suppress, Report!causes, EmailQuiet
  <2>2. QED
    BY <2>1, Answered
<1>9. ASSUME NEW w \in Actors, Report!Post(w) PROVE EmailFits'
  <2>1. /\ EmailFits /\ UNCHANGED <<report, notify, ai, episode, call>>
        /\ work' = [work EXCEPT ![w].phase = "posted"] /\ work[w].phase = "sending"
        /\ sent' = [sent EXCEPT ![work[w].episode] = @ + 1]
    BY <1>9 DEF Report!Post, Report!reportVars, Report!causes, EmailQuiet
  <2>2. /\ work'[w].phase = "posted" /\ work'[w].episode = work[w].episode
        /\ \A v \in Actors \ {w} : work'[v] = work[v]
    BY <2>1 DEF ReportTypes, WorkRecords
  <2>3. work[w].episode \in 0 .. MaxCalls /\ work[w].episode <= episode
        /\ sent[work[w].episode] = 0
    BY <2>1 DEF ReportTypes, WorkRecords, EmailFits, SentOnce
  <2>4. sent'[work[w].episode] = 1 /\ \A e \in 0 .. MaxCalls \ {work[w].episode} :
            sent'[e] = sent[e]
    BY <2>1, <2>3 DEF ReportTypes
  <2>5. \A v \in Actors : (Mine(v)' <=> Mine(v)) /\ (Sends(v)' <=> Sends(v))
        /\ (Prepares(v)' <=> Prepares(v))
    BY <2>1, <2>2 DEF Mine, Sends, Prepares
  <2>6. Sends(w) /\ Sends(w)'
    BY <2>1, <2>2 DEF Sends
  <2>7. (Out' <=> Out) /\ (Due' <=> Due)
    <3>1. CASE Mine(w)
      BY <2>1, <2>5, <2>6, <3>1 DEF Out, Due
    <3>2. CASE ~Mine(w)
      <4>1. sent'[episode'] = sent[episode]
        BY <2>1, <2>4, <3>2 DEF Mine, ReportTypes
      <4>2. QED
        BY <2>1, <2>5, <4>1 DEF Out, Due
    <3>3. QED
      BY <3>1, <3>2
  <2>8. SentOnce'
    <3>1. \A v \in Actors \ {w} : Sends(v) => work[v].episode # work[w].episode
      BY <2>1, <2>6 DEF EmailFits, SentOnce
    <3>2. \A e \in 0 .. MaxCalls : sent'[e] <= 1 /\ (e > episode' => sent'[e] = 0)
      BY <2>1, <2>3, <2>4, ReportBounds DEF EmailFits, SentOnce, ReportTypes
    <3>3. \A v \in Actors : work'[v].phase = "sending" => sent'[work'[v].episode] = 0
      <4> SUFFICES ASSUME NEW v \in Actors, work'[v].phase = "sending"
                   PROVE  sent'[work'[v].episode] = 0
        OBVIOUS
      <4>1. v # w /\ work'[v] = work[v] /\ work[v].phase = "sending"
        BY <2>2
      <4>2. work[v].episode \in 0 .. MaxCalls \ {work[w].episode}
        BY <3>1, <4>1 DEF Sends, ReportTypes, WorkRecords
      <4>3. QED
        BY <2>1, <2>4, <4>1, <4>2 DEF EmailFits, SentOnce
    <3>4. \A v, u \in Actors : Sends(v)' /\ Sends(u)' /\ work'[v].episode = work'[u].episode =>
              v = u
      <4>1. \A v \in Actors : work'[v].episode = work[v].episode
        BY <2>2
      <4>2. QED
        BY <2>1, <2>5, <4>1 DEF EmailFits, SentOnce
    <3>5. QED
      BY <3>2, <3>3, <3>4 DEF SentOnce
  <2>9. OnePrepares' /\ CallsFit'
    BY <2>1, <2>5 DEF EmailFits, OnePrepares, CallsFit, OneCaller, Reopens, Active
  <2>10. (NotYet => NotYet') /\ (NothingToCome => NothingToCome')
         /\ \A c \in Askers : Closing(c)' <=> Closing(c)
    BY <2>1, <2>5, <2>7 DEF NotYet, NothingToCome, Closing
  <2>11. NotYetDue' /\ OutIsEnough' /\ DueIsEnough'
    BY <2>1, <2>7, <2>10 DEF EmailFits, NotYetDue, OutIsEnough, DueIsEnough
  <2>12. SentIsRecorded'
    <3>1. CASE Mine(w)
      BY <2>2, <2>5, <3>1 DEF SentIsRecorded
    <3>2. CASE ~Mine(w)
      <4>1. sent'[episode'] = sent[episode]
        BY <2>1, <2>4, <3>2 DEF Mine, ReportTypes
      <4>2. \A v \in Actors : work[v].phase = "posted" => work'[v].phase = "posted"
        BY <2>2
      <4>3. QED
        BY <2>1, <2>5, <4>1, <4>2 DEF EmailFits, SentIsRecorded
    <3>3. QED
      BY <3>1, <3>2
  <2>13. QED
    BY <2>8, <2>9, <2>11, <2>12 DEF EmailFits
<1>10. ASSUME NEW w \in Actors, Report!Accept(w) PROVE EmailFits'
  <2>1. /\ EmailFits /\ UNCHANGED <<report, ai, episode, call, sent>>
        /\ work' = [work EXCEPT ![w] = Report!Free] /\ notify' = "accepted"
    BY <1>10 DEF Report!Accept, Report!causes, EmailQuiet
  <2>2. work'[w].phase = "free" /\ \A v \in Actors \ {w} : work'[v] = work[v]
    BY <2>1, ReportRecords DEF ReportTypes
  <2>3. QED
    BY <2>1, <2>2, FreedWorker DEF Due
<1>11. ASSUME NEW w \in Actors, Report!Throw(w) PROVE EmailFits'
  <2>1. /\ EmailFits /\ UNCHANGED <<report, episode, call, sent>> /\ work[w].phase # "free"
        /\ work' = [work EXCEPT ![w] = Report!Free]
    BY <1>11 DEF Report!Throw, EmailQuiet
  <2>2. work[w].phase # "posted" /\ Mine(w)
    BY <1>11, Zenon DEF Report!Throw, Report!Overtaken, Mine
  <2>3. work'[w].phase = "free" /\ \A v \in Actors \ {w} : work'[v] = work[v]
    BY <2>1, ReportRecords DEF ReportTypes
  <2>4. \A v \in Actors \ {w} : (Mine(v)' <=> Mine(v)) /\ (Sends(v)' <=> Sends(v))
        /\ (Prepares(v)' <=> Prepares(v))
    BY <2>1, <2>3, OthersWork
  <2>5. ~Sends(w)' /\ ~Prepares(w)'
    BY <2>3 DEF Sends, Prepares
  <2>6. SentOnce'
    BY <2>1, <2>3, <2>4, <2>5 DEF EmailFits, SentOnce
  <2>7. \A c \in Askers : Closing(c)' <=> Closing(c)
    BY <2>1 DEF Closing
  <2>8. CASE work[w].phase = "preparing"
    <3>1. ai' = "failed" /\ notify' = notify
      BY <1>11, <2>8 DEF Report!Throw
    <3>2. Prepares(w) /\ ai = "generating"
      BY <2>1, <2>2, <2>8 DEF Prepares, EmailFits, OnePrepares
    <3>3. /\ ~Out /\ ~Due /\ report = "resolved" /\ \A c \in Askers : ~Closing(c)
      BY <2>1, <3>2 DEF EmailFits, OutIsEnough, DueIsEnough, NothingToCome, NotYetDue, NotYet
    <3>4. ~Out' /\ ~Due' /\ \A v \in Actors : ~Prepares(v)'
      BY <2>1, <2>4, <2>5, <3>1, <3>2, <3>3 DEF Out, Due, EmailFits, OnePrepares
    <3>5. CallsFit'
      <4>1. \A c \in Askers : call[c].phase = "read" => call[c].operation # "notify"
        BY <2>1, <3>2 DEF EmailFits, CallsFit
      <4>2. QED
        BY <2>1, <4>1 DEF EmailFits, CallsFit, OneCaller, Reopens, Active
    <3>6. QED
      BY <2>1, <2>6, <2>7, <3>3, <3>4, <3>5
         DEF EmailFits, OnePrepares, NotYetDue, OutIsEnough, DueIsEnough, SentIsRecorded, Due
  <2>9. CASE work[w].phase = "sending"
    <3>1. notify' = "failed" /\ ai' = ai
      BY <1>11, <2>9 DEF Report!Throw
    <3>2. Sends(w) /\ Out
      BY <2>2, <2>9 DEF Sends, Out
    <3>3. sent[episode] = 0 /\ \A v \in Actors \ {w} : ~(Sends(v) /\ Mine(v))
      BY <2>1, <2>2, <2>9, <3>2 DEF EmailFits, SentOnce, Mine
    <3>4. ~Out'
      BY <2>1, <2>4, <2>5, <3>3 DEF Out
    <3>5. NothingToCome /\ report = "resolved" /\ \A c \in Askers : ~Closing(c)
      BY <2>1, <3>2 DEF EmailFits, OutIsEnough, NotYetDue, NotYet
    <3>6. NothingToCome'
      BY <2>4, <2>5, <2>7, <3>1, <3>5 DEF NothingToCome
    <3>7. CallsFit'
      BY <2>1, <3>1 DEF EmailFits, CallsFit, OneCaller, Reopens, Active
    <3>8. QED
      BY <2>1, <2>6, <2>7, <3>1, <3>4, <3>5, <3>6, <3>7
         DEF EmailFits, OnePrepares, NothingToCome, NotYetDue, OutIsEnough, DueIsEnough,
             SentIsRecorded
  <2>10. QED
    BY <2>1, <2>2, <2>8, <2>9 DEF ReportTypes, WorkRecords
<1>12. ASSUME NEW w \in Actors, Report!Die(w) PROVE EmailFits'
  <2>1. /\ EmailFits /\ UNCHANGED <<report, ai, episode, call, sent, notify>>
        /\ work' = [work EXCEPT ![w] = Report!Free]
    BY <1>12 DEF Report!Die, Report!reportVars, EmailQuiet
  <2>2. work'[w].phase = "free" /\ \A v \in Actors \ {w} : work'[v] = work[v]
    BY <2>1, ReportRecords DEF ReportTypes
  <2>3. work[w].phase # "posted"
    BY <1>12, Zenon DEF Report!Die
  <2>4. QED
    BY <2>1, <2>2, <2>3, FreedWorker
<1>13. ASSUME NEW task \in {"prepare", "send"}, Report!Skip(task) PROVE EmailFits'
  <2>1. EmailFits /\ UNCHANGED <<report, notify, ai, episode, call, work, sent>>
    BY <1>13 DEF Report!Skip, Report!reportVars, Report!causes, EmailQuiet
  <2>2. CallsFit' /\ \A d \in Askers : Closing(d)' => Closing(d)
    BY <2>1 DEF EmailFits, CallsFit, OneCaller, Reopens, Active, Closing
  <2>3. QED
    BY <2>1, <2>2, EmailFrame
<1>14. ASSUME Report!Postmark PROVE EmailFits'
  <2>1. /\ EmailFits /\ UNCHANGED <<report, ai, episode, call, work, sent>>
        /\ notify' \in {"delivered", "bounced"}
    BY <1>14 DEF Report!Postmark, Report!Reported, Report!causes, EmailQuiet
  <2>2. QED
    BY <2>1, Answered
<1>15. ASSUME Report!Sweep PROVE EmailFits'
  <2>1. EmailFits /\ UNCHANGED <<report, notify, ai, episode, call, work, sent>>
    BY <1>15 DEF Report!Sweep, Report!reportVars, Report!causes, EmailQuiet
  <2>2. CallsFit' /\ \A d \in Askers : Closing(d)' => Closing(d)
    BY <2>1 DEF EmailFits, CallsFit, OneCaller, Reopens, Active, Closing
  <2>3. QED
    BY <2>1, <2>2, EmailFrame
<1>16. CASE UNCHANGED reportVars
  <2>1. EmailFits /\ UNCHANGED <<report, notify, ai, episode, call, work, sent>>
    BY <1>16 DEF reportVars, EmailQuiet
  <2>2. CallsFit' /\ \A d \in Askers : Closing(d)' => Closing(d)
    BY <2>1 DEF EmailFits, CallsFit, OneCaller, Reopens, Active, Closing
  <2>3. QED
    BY <2>1, <2>2, EmailFrame
<1>17. QED
  BY <1>1, <1>2, <1>3, <1>4, <1>5, <1>6, <1>7, <1>8, <1>9, <1>10, <1>11, <1>12, <1>13, <1>14,
     <1>15, <1>16 DEF ReportSteps, Report!Next, Report!Worker

LEMMA ReportBegins == Report!Init => ReportFlags /\ ReportTypes /\ PursuedQuiet /\ EmailQuiet
<1> SUFFICES ASSUME Report!Init PROVE ReportFlags /\ ReportTypes /\ PursuedQuiet /\ EmailQuiet
  OBVIOUS
<1>1. /\ report = "open" /\ notify = "not_requested" /\ ai = "not_requested" /\ episode = 0
      /\ expected = FALSE /\ calls = 0 /\ reportFaults = 0
      /\ sent = [e \in 0 .. MaxCalls |-> 0]
  BY DEF Report!Init
<1>2. call \in [Askers -> CallRecords] /\ \A c \in Askers : call[c].phase = "idle"
  BY ReportRecords DEF Report!Init
<1>3. work \in [Actors -> WorkRecords]
      /\ \A w \in Actors : work[w].phase = "free" /\ work[w].episode = 0
  BY ReportRecords DEF Report!Init
<1>4. reportTasks \in [{"prepare", "send"} -> 0 .. 1]
  BY DEF Report!Init
<1>5. Readers = {}
  BY <1>2 DEF Readers
<1>6. IsFiniteSet(Readers) /\ Cardinality(Readers) = 0
  BY <1>5, FS_EmptySet
<1>7. ReportFlags
  BY DEF Report!Init, ReportFlags
<1>8. ReportTypes
  BY <1>1, <1>2, <1>3, <1>4, <1>6, ReportBounds DEF ReportTypes, Report!Notifications, Report!Statuses
<1>9. PursuedQuiet
  BY <1>1, <1>2 DEF PursuedQuiet, OneCaller, Reopens, Active
<1>10. sent[episode] = 0
  BY <1>1, ReportBounds
<1>11. ~Out /\ ~Due /\ (\A w \in Actors : ~Sends(w) /\ ~Prepares(w))
       /\ \A c \in Askers : ~Closing(c)
  BY <1>1, <1>2, <1>3, <1>10 DEF Out, Due, Sends, Prepares, Closing
<1>12. CallsFit /\ SentOnce /\ OnePrepares
  BY <1>1, <1>2, <1>3, <1>11 DEF CallsFit, OneCaller, Reopens, Active, SentOnce, OnePrepares
<1>13. EmailQuiet
  BY <1>1, <1>11, <1>12
     DEF EmailQuiet, EmailFits, NotYetDue, NotYet, OutIsEnough, DueIsEnough, SentIsRecorded
<1>14. QED
  BY <1>7, <1>8, <1>9, <1>13

\* The email that a resolution asked for is being prepared, is due or was dealt with,
\* unless calls overlapped or one broke off between its two statements.
THEOREM ResolutionsArePursued == ServicesSpec => []ResolvedIsPursued
<1> DEFINE Inv == ReportTypes /\ PursuedQuiet
<1>1. ServicesInit => Inv
  BY ReportBegins DEF ServicesInit
<1>2. Inv => ResolvedIsPursued
  BY DEF PursuedQuiet, Closing, ResolvedIsPursued, Report!ResolvedIsPursued
<1>3. Inv /\ [ServicesNext]_servicesVars => Inv'
  BY ReportAlone, ReportTyped, PursuedKept
<1>4. QED
  BY <1>1, <1>2, <1>3, PTL DEF ServicesSpec

\* The reporter gets one email until the report is opened or investigated again, unless
\* calls overlapped, a worker came between the statements of a call or settled a report that
\* was taken up again under it, posted and did not get to record it or was taken for dead,
\* or somebody asked for an email when one was due or sent.
THEOREM OneEmailIsSent == ServicesSpec => []OneEmailPerResolution
<1> DEFINE Inv == ReportTypes /\ EmailQuiet
<1>1. ServicesInit => Inv
  BY ReportBegins DEF ServicesInit
<1>2. Inv => OneEmailPerResolution
  <2> SUFFICES ASSUME Inv, NEW e \in 0 .. MaxCalls, sent[e] > 1
               PROVE  raced \/ crossed \/ reportUnsure \/ asked
    BY DEF OneEmailPerResolution, Report!OneEmailPerResolution
  <2>1. ~EmailFits
    BY DEF EmailFits, SentOnce, ReportTypes
  <2>2. QED
    BY <2>1, Zenon DEF EmailQuiet
<1>3. Inv /\ [ServicesNext]_servicesVars => Inv'
  BY ReportAlone, ReportTyped, EmailKept
<1>4. QED
  BY <1>1, <1>2, <1>3, PTL DEF ServicesSpec

-----------------------------------------------------------------------------
(* Incidents: an incident that shows as open is up to date *)

IncidentSteps == [Incident!Next]_incidentVars

\* A step of the composition is a step of the incident, or leaves it alone.
LEMMA IncidentAlone == [ServicesNext]_servicesVars => IncidentSteps
BY DEF ServicesNext, servicesVars, IncidentStep, SessionStep, GroupStep, ReportStep, SlackStep,
       MirrorStep, RecoveryStep, SignInStep, CapabilityStep, IncidentSteps

ReporterRecords ==
    [phase : Incident!Working \cup {"idle", "published", "completed"},
     key : (Incident!Numbers \cup {0}) \X Incident!Kinds,
     issue : Incident!Numbers \cup {0}, previous : Incident!Numbers \cup {0}]
OutboxRecords ==
    [state : {"absent", "queued", "creating", "delivered", "refused"},
     issue : Incident!Numbers \cup {0}, previous : Incident!Numbers \cup {0},
     callback : {"none", "due", "told", "done"}]

IncidentFlags == stranded \in BOOLEAN /\ twiceApplied \in BOOLEAN /\ late \in BOOLEAN

IncidentTypes ==
    /\ occurrences \in 0 .. MaxOccurrences
    /\ processing \in 0 .. occurrences
    /\ incident \in {"absent", "pending", "processing", "failed", "open", "disabled"}
    /\ number \in Incident!Numbers \cup {0}
    /\ previous \in Incident!Numbers \cup {0}
    /\ issues \in [Incident!Numbers -> {"absent", "open", "closed"}]
    /\ incidentTasks \in 0 .. MaxTasks
    /\ reporter \in [Actors -> ReporterRecords]
    /\ outbox \in [Incident!Keys -> OutboxRecords]
    /\ incidentFaults \in 0 .. MaxManyFaults

Works(w)      == reporter[w].phase \in Incident!Working
InFlight(key) == outbox[key].callback = "due"

\* Unless a callback was applied twice, or a handler threw too late to write the row: one
\* worker has the row or one callback will write it, and then it is processing; a row that
\* is open has reported what there was.
IncidentQuiet ==
    \/ twiceApplied \/ late
    \/ /\ \A w, v \in Actors : Works(w) /\ Works(v) => w = v
       /\ \A key, other \in Incident!Keys : InFlight(key) /\ InFlight(other) => key = other
       /\ \A w \in Actors, key \in Incident!Keys : ~(Works(w) /\ InFlight(key))
       /\ \A w \in Actors : Works(w) => incident = "processing"
       /\ \A key \in Incident!Keys : InFlight(key) => incident = "processing"
       /\ incident = "open" => processing = occurrences

IncidentInv == IncidentFlags /\ IncidentTypes /\ IncidentQuiet

LEMMA IncidentRecords ==
    /\ \A phase \in {"idle", "published", "completed"} :
           Incident!Ending(phase) \in ReporterRecords /\ Incident!Ending(phase).phase = phase
    /\ Incident!Idle \in ReporterRecords /\ Incident!Idle.phase = "idle"
    /\ Incident!Unpublished \in OutboxRecords /\ Incident!Unpublished.callback = "none"
<1>1. <<0, "create">> \in (Incident!Numbers \cup {0}) \X Incident!Kinds
  BY DEF Incident!Kinds
<1>2. Incident!Idle \in ReporterRecords /\ Incident!Idle.phase = "idle"
  BY <1>1 DEF Incident!Idle, ReporterRecords
<1>3. \A phase \in {"idle", "published", "completed"} :
          Incident!Ending(phase) \in ReporterRecords /\ Incident!Ending(phase).phase = phase
  BY <1>2 DEF Incident!Ending, ReporterRecords
<1>4. QED
  BY <1>2, <1>3 DEF Incident!Unpublished, OutboxRecords

LEMMA IncidentBegins == Incident!Init => IncidentInv
<1> SUFFICES ASSUME Incident!Init PROVE IncidentInv
  OBVIOUS
<1>1. IncidentFlags
  BY DEF Incident!Init, IncidentFlags
<1>2. reporter \in [Actors -> ReporterRecords] /\ \A w \in Actors : reporter[w].phase = "idle"
  BY IncidentRecords DEF Incident!Init
<1>3. /\ outbox \in [Incident!Keys -> OutboxRecords]
      /\ \A key \in Incident!Keys : outbox[key].callback = "none"
  BY IncidentRecords DEF Incident!Init
<1>4. IncidentTypes
  BY <1>2, <1>3, IncidentBounds DEF Incident!Init, IncidentTypes
<1>5. IncidentQuiet
  BY <1>2, <1>3 DEF Incident!Init, IncidentQuiet, Works, InFlight, Incident!Working
<1>6. QED
  BY <1>1, <1>4, <1>5 DEF IncidentInv

\* A worker that goes on with what it has.
LEMMA GoesOn ==
    ASSUME IncidentTypes, NEW w \in Actors, NEW phase \in Incident!Working,
           reporter' = [reporter EXCEPT ![w].phase = phase]
    PROVE  /\ reporter' \in [Actors -> ReporterRecords] /\ reporter'[w].phase = phase
           /\ \A v \in Actors \ {w} : reporter'[v] = reporter[v]
<1> DEFINE Pairs == (Incident!Numbers \cup {0}) \X Incident!Kinds
<1>1. ReporterRecords = [phase : Incident!Working \cup {"idle", "published", "completed"},
                         key : Pairs, issue : Incident!Numbers \cup {0},
                         previous : Incident!Numbers \cup {0}]
  BY DEF ReporterRecords
<1> HIDE DEF Pairs
<1>2. QED
  BY <1>1 DEF IncidentTypes

\* A worker that looked knows its key, and an issue of the repository.
LEMMA Looked ==
    ASSUME IncidentTypes, NEW w \in Actors, Incident!Look(w)
    PROVE  /\ reporter[w].phase = "claimed"
           /\ \E found \in ReporterRecords :
                  found.phase = "found" /\ reporter' = [reporter EXCEPT ![w] = found]
           /\ UNCHANGED <<occurrences, processing, incident, number, previous, issues,
                          incidentTasks, outbox, incidentFaults, stranded, twiceApplied, late>>
<1> DEFINE Issues == Incident!Numbers \cup {0}
<1>1. processing \in Issues /\ number \in Issues /\ previous \in Issues
  BY IncidentBounds DEF IncidentTypes, Incident!Numbers
<1>2. ASSUME NEW kind \in {"create", "update"}, NEW issue \in Issues, NEW prev \in Issues,
             Incident!Finds(w, kind, issue, prev)
      PROVE  \E found \in ReporterRecords :
                 found.phase = "found" /\ reporter' = [reporter EXCEPT ![w] = found]
  <2> DEFINE found == [phase |-> "found", key |-> <<processing, kind>>, issue |-> issue,
                       previous |-> prev]
  <2>1. found \in ReporterRecords
    BY <1>1 DEF ReporterRecords, Incident!Working, Incident!Kinds
  <2>2. reporter' = [reporter EXCEPT ![w] = found]
    BY <1>2 DEF Incident!Finds
  <2>3. QED
    BY <2>1, <2>2
<1>3. CASE number = 0 /\ Incident!Marked = {} /\ Incident!Finds(w, "create", 0, previous)
  BY <1>1, <1>2, <1>3 DEF Incident!Look, Incident!rowVars, Incident!causes
<1>4. CASE \E n \in IF number # 0 THEN {number} ELSE Incident!Marked :
               IF issues[n] = "open" THEN Incident!Finds(w, "update", n, previous)
                                     ELSE Incident!Finds(w, "create", 0, n)
  <2>1. PICK n \in IF number # 0 THEN {number} ELSE Incident!Marked :
                 IF issues[n] = "open" THEN Incident!Finds(w, "update", n, previous)
                                       ELSE Incident!Finds(w, "create", 0, n)
    BY <1>4
  <2>2. n \in Issues
    BY <1>1 DEF Incident!Marked
  <2>3. \E found \in ReporterRecords :
            found.phase = "found" /\ reporter' = [reporter EXCEPT ![w] = found]
    BY <1>1, <1>2, <2>1, <2>2
  <2>4. QED
    BY <2>3 DEF Incident!Look, Incident!rowVars, Incident!causes
<1>5. QED
  BY <1>3, <1>4 DEF Incident!Look

\* Only the callback of the command itself is stored.
LEMMA Published ==
    ASSUME IncidentTypes, NEW w \in Actors, Incident!Store(w) \/ Incident!Attach(w)
    PROVE  /\ outbox' \in [Incident!Keys -> OutboxRecords]
           /\ \A key \in Incident!Keys :
                  \/ outbox'[key].callback = outbox[key].callback
                  \/ Incident!Attach(w) /\ key = reporter[w].key
           /\ reporter' \in [Actors -> ReporterRecords]
           /\ reporter[w].phase \in {"found", "stored"}
           /\ reporter'[w].phase \in {"stored", "published"}
           /\ Incident!Attach(w) => reporter'[w].phase = "published"
           /\ \A v \in Actors \ {w} : reporter'[v] = reporter[v]
           /\ UNCHANGED <<occurrences, processing, incident, number, previous, issues,
                          incidentTasks, incidentFaults, twiceApplied, late>>
<1>1. /\ reporter \in [Actors -> ReporterRecords] /\ outbox \in [Incident!Keys -> OutboxRecords]
      /\ reporter[w].issue \in Incident!Numbers \cup {0}
      /\ reporter[w].previous \in Incident!Numbers \cup {0}
  BY DEF IncidentTypes, ReporterRecords
<1>2. CASE Incident!Store(w)
  <2>1. outbox' = outbox
        \/ outbox' = [outbox EXCEPT ![reporter[w].key].state = "queued",
                                    ![reporter[w].key].issue = reporter[w].issue]
    BY <1>2 DEF Incident!Store
  <2>2. outbox' \in [Incident!Keys -> OutboxRecords]
        /\ \A key \in Incident!Keys : outbox'[key].callback = outbox[key].callback
    BY <1>1, <2>1 DEF OutboxRecords
  <2>3. reporter[w].phase = "found" /\ reporter' = [reporter EXCEPT ![w].phase = "stored"]
    BY <1>2 DEF Incident!Store
  <2>4. reporter' \in [Actors -> ReporterRecords] /\ reporter'[w].phase = "stored"
        /\ \A v \in Actors \ {w} : reporter'[v] = reporter[v]
    BY <2>3, GoesOn DEF Incident!Working
  <2>5. ~Incident!Attach(w)
    BY <2>3 DEF Incident!Attach
  <2>6. QED
    BY <1>2, <2>2, <2>3, <2>4, <2>5 DEF Incident!Store, Incident!rowVars, Incident!causes
<1>3. CASE Incident!Attach(w)
  <2>1. outbox' = outbox
        \/ outbox' = [outbox EXCEPT ![reporter[w].key].callback = "due",
                                    ![reporter[w].key].previous = reporter[w].previous]
    BY <1>3 DEF Incident!Attach
  <2>2. outbox' \in [Incident!Keys -> OutboxRecords]
        /\ \A key \in Incident!Keys :
               outbox'[key].callback = outbox[key].callback \/ key = reporter[w].key
    BY <1>1, <2>1 DEF OutboxRecords
  <2>3. reporter[w].phase = "stored"
        /\ reporter' = [reporter EXCEPT ![w] = Incident!Ending("published")]
    BY <1>3 DEF Incident!Attach
  <2>4. reporter' \in [Actors -> ReporterRecords] /\ reporter'[w].phase = "published"
        /\ \A v \in Actors \ {w} : reporter'[v] = reporter[v]
    BY <1>1, <2>3, IncidentRecords
  <2>5. QED
    BY <1>3, <2>2, <2>3, <2>4 DEF Incident!Attach, Incident!rowVars
<1>4. QED
  BY <1>2, <1>3

\* The transport changes one command; its callback, only when it is told or told again.
LEMMA Delivered ==
    ASSUME IncidentTypes, NEW key \in Incident!Keys,
           Incident!Deliver(key) \/ Incident!Create(key) \/ Incident!Refuse(key)
    PROVE  /\ issues' \in [Incident!Numbers -> {"absent", "open", "closed"}]
           /\ outbox' \in [Incident!Keys -> OutboxRecords]
           /\ \A other \in Incident!Keys : outbox'[other].callback = outbox[other].callback
           /\ incidentFaults' \in 0 .. MaxManyFaults
           /\ UNCHANGED <<occurrences, processing, incident, number, previous, incidentTasks,
                          reporter, stranded, twiceApplied, late>>
<1>1. /\ outbox \in [Incident!Keys -> OutboxRecords]
      /\ issues \in [Incident!Numbers -> {"absent", "open", "closed"}]
      /\ incidentFaults \in 0 .. MaxManyFaults /\ key[1] \in Incident!Numbers
  BY DEF IncidentTypes, Incident!Keys
<1>2. \E state \in {"creating", "delivered", "queued", "refused"}, n \in Incident!Numbers :
          \/ outbox' = [outbox EXCEPT ![key].state = state]
          \/ outbox' = [outbox EXCEPT ![key].state = state, ![key].issue = n]
  BY <1>1 DEF Incident!Deliver, Incident!Create, Incident!Refuse, Incident!Marked
<1>3. outbox' \in [Incident!Keys -> OutboxRecords]
      /\ \A other \in Incident!Keys : outbox'[other].callback = outbox[other].callback
  BY <1>1, <1>2 DEF OutboxRecords
<1>4. issues' \in [Incident!Numbers -> {"absent", "open", "closed"}]
  BY <1>1 DEF Incident!Deliver, Incident!Create, Incident!Refuse
<1>5. incidentFaults' \in 0 .. MaxManyFaults
  BY <1>1, IncidentBounds
     DEF Incident!Deliver, Incident!Create, Incident!Refuse, Incident!Faulty, Incident!causes
<1>6. QED
  BY <1>3, <1>4, <1>5
     DEF Incident!Deliver, Incident!Create, Incident!Refuse, Incident!rowVars, Incident!causes

LEMMA Told ==
    ASSUME IncidentTypes, NEW key \in Incident!Keys, NEW callback \in {"due", "told", "done"},
           outbox' = [outbox EXCEPT ![key].callback = callback]
    PROVE  /\ outbox' \in [Incident!Keys -> OutboxRecords]
           /\ outbox'[key].callback = callback
           /\ \A other \in Incident!Keys \ {key} : outbox'[other] = outbox[other]
BY DEF IncidentTypes, OutboxRecords

\* A completed row is open if there is no more to report.
LEMMA Completing ==
    ASSUME IncidentTypes, NEW issue \in Incident!Numbers \cup {0},
           NEW prev \in Incident!Numbers \cup {0}, Incident!Completes(issue, prev)
    PROVE  /\ incident' \in {"open", "pending"} /\ UNCHANGED <<occurrences, processing>>
           /\ incident' = "open" => processing = occurrences
           /\ number' \in Incident!Numbers \cup {0} /\ previous' \in Incident!Numbers \cup {0}
BY DEF IncidentTypes, Incident!Completes, Incident!CompletedStatus

LEMMA Finalizing ==
    ASSUME IncidentTypes, NEW key \in Incident!Keys, Incident!Finalize(key)
    PROVE  /\ incident' \in {"open", "pending", "failed"} /\ UNCHANGED <<occurrences, processing>>
           /\ incident' = "open" => processing = occurrences
           /\ number' \in Incident!Numbers \cup {0} /\ previous' \in Incident!Numbers \cup {0}
<1>1. outbox[key].issue \in Incident!Numbers \cup {0}
      /\ outbox[key].previous \in Incident!Numbers \cup {0}
  BY DEF IncidentTypes, OutboxRecords
<1>2. CASE Incident!Completes(outbox[key].issue, outbox[key].previous)
  BY <1>1, <1>2, Completing
<1>3. CASE incident' = "failed" /\ UNCHANGED <<occurrences, processing, number, previous>>
  BY <1>3 DEF IncidentTypes
<1>4. QED
  BY <1>2, <1>3 DEF Incident!Finalize

\* No step of it leaves the types.
LEMMA IncidentFlagged == IncidentFlags /\ IncidentSteps => IncidentFlags'
<1> SUFFICES ASSUME IncidentFlags, IncidentSteps PROVE IncidentFlags'
  OBVIOUS
<1> USE DEF IncidentFlags, Incident!causes
<1>1. ASSUME Incident!Occur PROVE IncidentFlags'
  BY <1>1 DEF Incident!Occur
<1>2. ASSUME Incident!Recover PROVE IncidentFlags'
  BY <1>2 DEF Incident!Recover
<1>3. ASSUME NEW n \in Incident!Numbers, Incident!Close(n) PROVE IncidentFlags'
  BY <1>3 DEF Incident!Close
<1>4. ASSUME NEW w \in Actors, Incident!Worker(w) PROVE IncidentFlags'
  BY <1>4
     DEF Incident!Worker, Incident!Claim, Incident!Disable, Incident!Look, Incident!Store,
         Incident!Attach, Incident!Leave, Incident!NothingDue, Incident!Completed,
         Incident!Throw, Incident!Die
<1>5. ASSUME NEW key \in Incident!Keys, Incident!Transport(key) PROVE IncidentFlags'
  BY <1>5
     DEF Incident!Transport, Incident!Deliver, Incident!Create, Incident!Refuse,
         Incident!Finalize, Incident!Finalized, Incident!FinalizeAgain
<1>6. CASE UNCHANGED incidentVars
  BY <1>6 DEF incidentVars
<1>7. QED
  BY <1>1, <1>2, <1>3, <1>4, <1>5, <1>6 DEF IncidentSteps, Incident!Next

LEMMA IncidentTyped == IncidentTypes /\ IncidentSteps => IncidentTypes'
<1> SUFFICES ASSUME IncidentTypes, IncidentSteps PROVE IncidentTypes'
  OBVIOUS
<1> USE IncidentBounds, IncidentRecords DEF IncidentTypes, Incident!rowVars, Incident!causes
<1>1. ASSUME Incident!Occur PROVE IncidentTypes'
  BY <1>1 DEF Incident!Occur, Incident!Queued, Incident!Faulty, Incident!StagedStatus
<1>2. ASSUME Incident!Recover PROVE IncidentTypes'
  BY <1>2 DEF Incident!Recover, Incident!Queued
<1>3. ASSUME NEW n \in Incident!Numbers, Incident!Close(n) PROVE IncidentTypes'
  BY <1>3 DEF Incident!Close
<1>4. ASSUME NEW w \in Actors, Incident!Claim(w) PROVE IncidentTypes'
  <2>1. reporter' \in [Actors -> ReporterRecords]
    <3>1. CASE reporter' = [reporter EXCEPT ![w].phase = "claimed"]
      <4> HIDE DEF IncidentTypes
      <4> QED
        BY <3>1, GoesOn DEF Incident!Working
    <3>2. QED
      BY <1>4, <3>1 DEF Incident!Claim
  <2>2. QED
    BY <1>4, <2>1 DEF Incident!Claim
<1>5. ASSUME NEW w \in Actors, Incident!Disable(w) PROVE IncidentTypes'
  BY <1>5 DEF Incident!Disable, Incident!Faulty
<1>6. ASSUME NEW w \in Actors, Incident!Look(w) PROVE IncidentTypes'
  BY <1>6, Looked
<1>7. ASSUME NEW w \in Actors, Incident!Store(w) \/ Incident!Attach(w) PROVE IncidentTypes'
  BY <1>7, Published
<1>8. ASSUME NEW w \in Actors, Incident!Leave(w) PROVE IncidentTypes'
  BY <1>8 DEF Incident!Leave
<1>9. ASSUME NEW w \in Actors, Incident!NothingDue(w) PROVE IncidentTypes'
  <2>1. Incident!Completes(reporter[w].issue, reporter[w].previous)
    BY <1>9 DEF Incident!NothingDue
  <2>2. reporter[w].issue \in Incident!Numbers \cup {0}
        /\ reporter[w].previous \in Incident!Numbers \cup {0}
    BY DEF ReporterRecords
  <2>3. /\ incident' \in {"open", "pending"} /\ UNCHANGED <<occurrences, processing>>
        /\ number' \in Incident!Numbers \cup {0} /\ previous' \in Incident!Numbers \cup {0}
    <3> HIDE DEF IncidentTypes
    <3> QED
      BY <2>1, <2>2, Completing
  <2>4. QED
    BY <1>9, <2>3 DEF Incident!NothingDue
<1>10. ASSUME NEW w \in Actors, Incident!Completed(w) PROVE IncidentTypes'
  BY <1>10 DEF Incident!Completed, Incident!SendsMore, Incident!Queued
<1>11. ASSUME NEW w \in Actors, Incident!Throw(w) PROVE IncidentTypes'
  BY <1>11 DEF Incident!Throw, Incident!Faulty, Incident!Queued
<1>12. ASSUME NEW w \in Actors, Incident!Die(w) PROVE IncidentTypes'
  BY <1>12 DEF Incident!Die, Incident!Faulty, Incident!Queued
<1>13. ASSUME NEW key \in Incident!Keys,
              Incident!Deliver(key) \/ Incident!Create(key) \/ Incident!Refuse(key)
       PROVE  IncidentTypes'
  BY <1>13, Delivered
<1>14. ASSUME NEW key \in Incident!Keys, Incident!Finalize(key) PROVE IncidentTypes'
  <2>1. /\ outbox' = [outbox EXCEPT ![key].callback = "told"]
        /\ UNCHANGED <<issues, incidentTasks, reporter, incidentFaults>>
    BY <1>14 DEF Incident!Finalize
  <2>2. /\ incident' \in {"open", "pending", "failed"} /\ UNCHANGED <<occurrences, processing>>
        /\ number' \in Incident!Numbers \cup {0} /\ previous' \in Incident!Numbers \cup {0}
        /\ outbox' \in [Incident!Keys -> OutboxRecords]
    <3> HIDE DEF IncidentTypes
    <3> QED
      BY <1>14, <2>1, Finalizing, Told
  <2>3. QED
    BY <2>1, <2>2
<1>15. ASSUME NEW key \in Incident!Keys, Incident!Finalized(key) PROVE IncidentTypes'
  <2>1. outbox' \in [Incident!Keys -> OutboxRecords]
    BY <1>15, Told DEF Incident!Finalized
  <2>2. QED
    BY <1>15, <2>1 DEF Incident!Finalized, Incident!SendsMore, Incident!Queued
<1>16. ASSUME NEW key \in Incident!Keys, Incident!FinalizeAgain(key) PROVE IncidentTypes'
  <2>1. outbox' \in [Incident!Keys -> OutboxRecords]
    BY <1>16, Told DEF Incident!FinalizeAgain
  <2>2. QED
    BY <1>16, <2>1 DEF Incident!FinalizeAgain, Incident!Faulty
<1>17. CASE UNCHANGED incidentVars
  BY <1>17 DEF incidentVars
<1>18. QED
  BY <1>1, <1>2, <1>3, <1>4, <1>5, <1>6, <1>7, <1>8, <1>9, <1>10, <1>11, <1>12, <1>13, <1>14,
     <1>15, <1>16, <1>17 DEF IncidentSteps, Incident!Next, Incident!Worker, Incident!Transport

\* No step of it breaks the invariant.
LEMMA IncidentKept == IncidentTypes /\ IncidentQuiet /\ IncidentSteps => IncidentQuiet'
<1> SUFFICES ASSUME IncidentTypes, IncidentQuiet, IncidentSteps, ~twiceApplied', ~late'
             PROVE  IncidentQuiet'
  BY DEF IncidentQuiet
<1> USE IncidentRecords
    DEF IncidentQuiet, Works, InFlight, Incident!Working, Incident!rowVars, Incident!causes
<1>1. ASSUME Incident!Occur PROVE IncidentQuiet'
  BY <1>1 DEF Incident!Occur, Incident!StagedStatus
<1>2. ASSUME Incident!Recover PROVE IncidentQuiet'
  BY <1>2 DEF Incident!Recover
<1>3. ASSUME NEW n \in Incident!Numbers, Incident!Close(n) PROVE IncidentQuiet'
  BY <1>3 DEF Incident!Close
<1>4. ASSUME NEW w \in Actors, Incident!Claim(w) PROVE IncidentQuiet'
  BY <1>4 DEF Incident!Claim, Incident!Claimable, IncidentTypes, ReporterRecords
<1>5. ASSUME NEW w \in Actors, Incident!Disable(w) PROVE IncidentQuiet'
  BY <1>5 DEF Incident!Disable, IncidentTypes, ReporterRecords
<1>6. ASSUME NEW w \in Actors, Incident!Look(w) PROVE IncidentQuiet'
  <2>1. PICK found \in ReporterRecords :
            found.phase = "found" /\ reporter' = [reporter EXCEPT ![w] = found]
    BY <1>6, Looked
  <2>2. reporter'[w].phase = "found" /\ \A v \in Actors \ {w} : reporter'[v] = reporter[v]
    BY <2>1 DEF IncidentTypes
  <2>3. reporter[w].phase = "claimed"
        /\ UNCHANGED <<occurrences, processing, incident, outbox, twiceApplied, late>>
    BY <1>6, Looked
  <2>4. QED
    BY <2>2, <2>3
<1>7. ASSUME NEW w \in Actors, Incident!Store(w) \/ Incident!Attach(w) PROVE IncidentQuiet'
  BY <1>7, Published
<1>8. ASSUME NEW w \in Actors, Incident!Leave(w) PROVE IncidentQuiet'
  BY <1>8 DEF Incident!Leave, IncidentTypes, ReporterRecords
<1>9. ASSUME NEW w \in Actors, Incident!NothingDue(w) PROVE IncidentQuiet'
  <2>1. Incident!Completes(reporter[w].issue, reporter[w].previous)
        /\ reporter[w].phase = "found"
        /\ reporter' = [reporter EXCEPT ![w] = Incident!Ending("completed")]
        /\ UNCHANGED <<outbox, twiceApplied, late>>
    BY <1>9 DEF Incident!NothingDue
  <2>2. reporter[w].issue \in Incident!Numbers \cup {0}
        /\ reporter[w].previous \in Incident!Numbers \cup {0}
    BY DEF IncidentTypes, ReporterRecords
  <2>3. incident' = "open" => processing' = occurrences'
    BY <2>1, <2>2, Completing
  <2>4. reporter'[w].phase = "completed" /\ \A v \in Actors \ {w} : reporter'[v] = reporter[v]
    BY <2>1 DEF IncidentTypes
  <2>5. QED
    BY <2>1, <2>3, <2>4
<1>10. ASSUME NEW w \in Actors, Incident!Completed(w) PROVE IncidentQuiet'
  BY <1>10 DEF Incident!Completed, IncidentTypes, ReporterRecords
<1>11. ASSUME NEW w \in Actors, Incident!Throw(w) PROVE IncidentQuiet'
  <2>1. /\ incident' = "failed" /\ UNCHANGED <<outbox, twiceApplied>>
        /\ reporter[w].phase # "idle" /\ reporter' = [reporter EXCEPT ![w] = Incident!Idle]
    BY <1>11 DEF Incident!Throw
  <2>2. /\ ~late /\ reporter[w].phase # "published"
        /\ reporter[w].phase = "completed" => incident # "processing"
    BY <1>11, Zenon DEF Incident!Throw
  <2>3. reporter'[w].phase = "idle" /\ \A v \in Actors \ {w} : reporter'[v] = reporter[v]
    BY <2>1 DEF IncidentTypes
  <2>4. \A v \in Actors : ~Works(v)'
    BY <2>1, <2>2, <2>3 DEF IncidentTypes, ReporterRecords
  <2>5. \A key \in Incident!Keys : ~InFlight(key)'
    BY <2>1, <2>2 DEF IncidentTypes, ReporterRecords
  <2>6. QED
    BY <2>1, <2>4, <2>5
<1>12. ASSUME NEW w \in Actors, Incident!Die(w) PROVE IncidentQuiet'
  BY <1>12 DEF Incident!Die, IncidentTypes, ReporterRecords
<1>13. ASSUME NEW key \in Incident!Keys,
              Incident!Deliver(key) \/ Incident!Create(key) \/ Incident!Refuse(key)
       PROVE  IncidentQuiet'
  BY <1>13, Delivered
<1>14. ASSUME NEW key \in Incident!Keys, Incident!Finalize(key) PROVE IncidentQuiet'
  <2>1. /\ outbox[key].callback = "due" /\ outbox' = [outbox EXCEPT ![key].callback = "told"]
        /\ UNCHANGED <<reporter, twiceApplied, late>>
    BY <1>14 DEF Incident!Finalize
  <2>2. outbox'[key].callback = "told"
        /\ \A other \in Incident!Keys \ {key} : outbox'[other] = outbox[other]
    BY <2>1, Told
  <2>3. incident' = "open" => processing' = occurrences'
    BY <1>14, Finalizing
  <2>4. QED
    BY <2>1, <2>2, <2>3
<1>15. ASSUME NEW key \in Incident!Keys, Incident!Finalized(key) PROVE IncidentQuiet'
  <2>1. outbox'[key].callback = "done"
        /\ \A other \in Incident!Keys \ {key} : outbox'[other] = outbox[other]
    BY <1>15, Told DEF Incident!Finalized
  <2>2. QED
    BY <1>15, <2>1 DEF Incident!Finalized
<1>16. ASSUME NEW key \in Incident!Keys, Incident!FinalizeAgain(key) PROVE IncidentQuiet'
  BY <1>16 DEF Incident!FinalizeAgain
<1>17. CASE UNCHANGED incidentVars
  BY <1>17 DEF incidentVars
<1>18. QED
  BY <1>1, <1>2, <1>3, <1>4, <1>5, <1>6, <1>7, <1>8, <1>9, <1>10, <1>11, <1>12, <1>13, <1>14,
     <1>15, <1>16, <1>17 DEF IncidentSteps, Incident!Next, Incident!Worker, Incident!Transport

\* An incident that shows as open has reported every occurrence, nobody works on it and no
\* callback will write it, unless a callback was applied twice or a handler threw when its
\* command had its callback or its row was another's.
THEOREM OpenIncidentsAreUpToDate == ServicesSpec => []OpenIsUpToDate
<1>1. ServicesInit => IncidentInv
  BY IncidentBegins DEF ServicesInit
<1>2. IncidentInv => OpenIsUpToDate
  BY DEF IncidentInv, IncidentQuiet, Works, InFlight, OpenIsUpToDate, Incident!OpenIsUpToDate
<1>3. IncidentInv /\ [ServicesNext]_servicesVars => IncidentInv'
  BY IncidentAlone, IncidentFlagged, IncidentTyped, IncidentKept DEF IncidentInv
<1>4. QED
  BY <1>1, <1>2, <1>3, PTL DEF ServicesSpec

-----------------------------------------------------------------------------
(* The types of all of them *)

SessionSteps == [Next]_vars

\* A step of the composition is a step of the session's processes, or leaves it alone.
LEMMA SessionAlone == [ServicesNext]_servicesVars => SessionSteps
BY DEF ServicesNext, servicesVars, IncidentStep, SessionStep, GroupStep, ReportStep, SlackStep,
       MirrorStep, RecoveryStep, SignInStep, CapabilityStep, SessionSteps

AllTyped ==
    /\ IncidentFlags /\ IncidentTypes
    /\ SessionInv
    /\ GroupFlags /\ GroupTypes
    /\ ReportFlags /\ ReportTypes
    /\ SlackFlags /\ SlackTypes
    /\ MirrorFlags /\ MirrorTypes
    /\ Recovery!TypeOK
    /\ SignInFlags /\ SignInTypes
    /\ CapabilityTypes

LEMMA IncidentTypeOK == IncidentFlags /\ IncidentTypes => Incident!TypeOK
<1> SUFFICES ASSUME IncidentFlags, IncidentTypes PROVE Incident!TypeOK
  OBVIOUS
<1>1. {stranded, twiceApplied, late} \subseteq BOOLEAN
  BY Zenon DEF IncidentFlags
<1>2. QED
  BY <1>1 DEF IncidentTypes, ReporterRecords, OutboxRecords, Incident!TypeOK

LEMMA GroupTypeOK == GroupFlags /\ GroupTypes => Group!TypeOK
<1> SUFFICES ASSUME GroupFlags, GroupTypes PROVE Group!TypeOK
  OBVIOUS
<1>1. resolvedAt \subseteq 1 .. MaxTime
  BY EventsBound DEF GroupTypes
<1>2. QED
  BY <1>1 DEF GroupFlags, GroupTypes, RequestRecords, Group!TypeOK, Group!Times

LEMMA ReportTypeOK == ReportFlags /\ ReportTypes => Report!TypeOK
<1> SUFFICES ASSUME ReportFlags, ReportTypes PROVE Report!TypeOK
  OBVIOUS
<1>1. {raced, crossed, broken, reportUnsure, asked} \subseteq BOOLEAN
  BY Zenon DEF ReportFlags
<1>2. message \in BOOLEAN /\ expected \in BOOLEAN
  BY DEF ReportFlags
<1>3. QED
  BY <1>1, <1>2 DEF ReportTypes, CallRecords, WorkRecords, Report!TypeOK

LEMMA SlackTypeOK == SlackFlags /\ SlackTypes => Slack!TypeOK
BY DEF SlackFlags, SlackTypes, Slack!TypeOK

LEMMA MirrorTypeOK == MirrorFlags /\ MirrorTypes => Mirror!TypeOK
<1> SUFFICES ASSUME MirrorFlags, MirrorTypes PROVE Mirror!TypeOK
  OBVIOUS
<1>1. /\ {changed, cursor} \subseteq BOOLEAN
      /\ {overtaken, reordered, unseen, capped} \subseteq BOOLEAN
  BY Zenon DEF MirrorFlags
<1>2. {version, row, seen} \subseteq Mirror!Versions
  BY DEF MirrorTypes
<1>3. hooks \subseteq Mirror!Versions
  BY VersionsBound DEF MirrorTypes, Mirror!Versions, Mirror!Gone
<1>4. QED
  BY <1>1, <1>2, <1>3, Zenon DEF MirrorTypes, RunRecords, Mirror!TypeOK

LEMMA SignInTypeOK == SignInFlags /\ SignInTypes => Device!TypeOK
<1> SUFFICES ASSUME SignInFlags, SignInTypes PROVE Device!TypeOK
  OBVIOUS
<1>1. {result, due, slow, signInLost} \subseteq BOOLEAN
  BY Zenon DEF SignInFlags
<1>2. honoured \subseteq Device!Tokens /\ connection \in 0 .. MaxTokens
  BY TokensBound DEF SignInTypes, Device!Tokens
<1>3. QED
  BY <1>1, <1>2 DEF SignInTypes, PollRecords, ResolverRecords, Device!TypeOK

\* The state of every part is as its rows, queues and workers can be.
THEOREM ServicesAreTyped == ServicesSpec => []ServicesTypeOK
<1>1. ServicesInit => AllTyped
  <2>1. ServicesInit => IncidentInv /\ GroupInv /\ SlackInv /\ MirrorInv /\ SignInInv
    BY IncidentBegins, GroupBegins, SlackBegins, MirrorBegins, SignInBegins DEF ServicesInit
  <2>2. ServicesInit =>
            SessionInv /\ ReportFlags /\ ReportTypes /\ Recovery!TypeOK /\ CapabilityInv
    BY SessionBegins, ReportBegins, RecoveryBegins, CapabilityBegins DEF ServicesInit
  <2>3. QED
    BY <2>1, <2>2
       DEF AllTyped, IncidentInv, GroupInv, SlackInv, MirrorInv, SignInInv, CapabilityInv
<1>2. AllTyped => ServicesTypeOK
  BY IncidentTypeOK, GroupTypeOK, ReportTypeOK, SlackTypeOK, MirrorTypeOK, SignInTypeOK,
     SessionTyped DEF AllTyped, CapabilityTypes, ServicesTypeOK
<1>3. AllTyped /\ [ServicesNext]_servicesVars => AllTyped'
  <2>1. AllTyped /\ [ServicesNext]_servicesVars =>
            /\ (IncidentFlags /\ IncidentTypes)' /\ (GroupFlags /\ GroupTypes)'
            /\ (ReportFlags /\ ReportTypes)' /\ (SlackFlags /\ SlackTypes)'
    BY IncidentAlone, IncidentFlagged, IncidentTyped, GroupAlone, GroupFlagged, GroupTyped,
       ReportAlone, ReportFlagged, ReportTyped, SlackAlone, SlackFlagged, SlackTyped
       DEF AllTyped
  <2>2. AllTyped /\ [ServicesNext]_servicesVars =>
            /\ (MirrorFlags /\ MirrorTypes)' /\ (SignInFlags /\ SignInTypes)'
            /\ Recovery!TypeOK' /\ CapabilityTypes'
    BY MirrorAlone, MirrorFlagged, MirrorTyped, DeviceAlone, SignInFlagged, SignInTyped,
       RecoveryAlone, RecoveryTyped, CapabilityAlone, CapabilityTyped DEF AllTyped
  <2>3. AllTyped /\ [ServicesNext]_servicesVars => SessionInv'
    BY SessionAlone, SessionKept DEF AllTyped, SessionSteps
  <2>4. QED
    BY <2>1, <2>2, <2>3 DEF AllTyped
<1>4. QED
  BY <1>1, <1>2, <1>3, PTL DEF ServicesSpec

-----------------------------------------------------------------------------
(* The composition is each of its parts *)

\* Running the services beside each other adds nothing to what one of them does, so that
\* what is proved of CliSessions by itself holds of the composition that TLC checks.
THEOREM EveryPartIsItself ==
    ServicesSpec =>
        /\ Incident!Spec /\ Spec /\ Group!Spec /\ Report!Spec /\ Slack!Spec
        /\ Mirror!Spec /\ Recovery!Spec /\ Device!Spec /\ Capability!Spec
<1>1. [ServicesNext]_servicesVars => [Incident!Next]_Incident!vars
  BY IncidentAlone DEF IncidentSteps, incidentVars, Incident!vars, Incident!rowVars, Incident!causes
<1>2. [ServicesNext]_servicesVars => [Group!Next]_Group!vars
  BY GroupAlone DEF GroupSteps, groupVars, Group!vars, Group!groupVars
<1>3. [ServicesNext]_servicesVars => [Report!Next]_Report!vars
  BY ReportAlone DEF ReportSteps, reportVars, Report!vars, Report!reportVars, Report!causes
<1>4. [ServicesNext]_servicesVars => [Slack!Next]_Slack!vars
  BY SlackAlone DEF SlackSteps, slackVars, Slack!vars
<1>5. [ServicesNext]_servicesVars => [Mirror!Next]_Mirror!vars
  BY MirrorAlone DEF MirrorSteps, mirrorVars, Mirror!vars, Mirror!causes
<1>6. [ServicesNext]_servicesVars => [Recovery!Next]_Recovery!vars
  BY RecoveryAlone DEF RecoverySteps, recoveryVars, Recovery!vars
<1>7. [ServicesNext]_servicesVars => [Device!Next]_Device!vars
  BY DeviceAlone DEF DeviceSteps, signInVars, Device!vars, Device!pollVars
<1>8. [ServicesNext]_servicesVars => [Capability!Next]_Capability!vars
  BY CapabilityAlone DEF CapabilitySteps, capabilityVars, Capability!vars
<1>9. [ServicesNext]_servicesVars => [Next]_vars
  BY SessionAlone DEF SessionSteps
<1>10. ServicesInit => /\ Incident!Init /\ Init /\ Group!Init /\ Report!Init /\ Slack!Init
                     /\ Mirror!Init /\ Recovery!Init /\ Device!Init /\ Capability!Init
  BY DEF ServicesInit
<1>11. QED
  BY <1>1, <1>2, <1>3, <1>4, <1>5, <1>6, <1>7, <1>8, <1>9, <1>10, PTL
     DEF ServicesSpec, Incident!Spec, Spec, Group!Spec, Report!Spec, Slack!Spec, Mirror!Spec,
         Recovery!Spec, Device!Spec, Capability!Spec
===============================================================================
