------------------------------ MODULE MCServices ------------------------------
(***************************************************************************)
(* The smaller services, each on a small instance.                         *)
(*                                                                         *)
(* They are modelled without a shared state, so nothing is lost by running *)
(* one of them in each behaviour: `part' says which, and the others stay   *)
(* as they begin.  CliSessions is extended, the others are instantiated.   *)
(***************************************************************************)
EXTENDS CliSessions

CONSTANTS
    Actors,           \* whoever overlaps: workers, callers, requests, runs, ...
    Askers,           \* who calls about a report
    Repos, Ids,
    Nobody,           \* no repository, no command
    MaxManyFaults,    \* bound: failures of any kind, of incidents and of Slack deliveries
    MaxOccurrences, MaxTasks, MaxEvents, Cooldown, MaxTime,
    MaxCalls, MaxDeliveries, MaxRequeues, MaxCopies, MaxVersions, MaxTokens, MaxRuns

ASSUME BoundsAssumption ==
    /\ MaxFaults \in Nat /\ MaxManyFaults \in Nat /\ MaxOccurrences \in Nat /\ MaxTasks \in Nat
    /\ MaxEvents \in Nat /\ Cooldown \in Nat /\ MaxTime \in Nat \ {0} /\ MaxCalls \in Nat
    /\ MaxDeliveries \in Nat \ {0} /\ MaxRequeues \in Nat /\ MaxCopies \in Nat
    /\ MaxVersions \in Nat /\ MaxTokens \in Nat /\ MaxRuns \in Nat

VARIABLES
    part,
    occurrences, processing, incident, number, previous, issues, incidentTasks, reporter,
    outbox, incidentFaults, stranded, twiceApplied, late,
    now, arrived, resolved, notifiedAt, request, announced, resolvedAt, groupRaced,
    report, notify, ai, message, episode, expected, call, work, reportTasks, sent, calls, reportFaults,
    raced, crossed, broken, reportUnsure, asked,
    delivery, later, q, sweep, at, copy, posts, requeues, deliveryFaults, unsure,
    version, changed, cursor, hooks, row, run, seen, overtaken, reordered, unseen, capped,
    recovery, job, step, initialized, twice,
    approval, result, due, poll, told, issued, honoured, connection, resolver, slow, signInLost,
    id, capability, receipt, caller, runs, answers, overlapped

incidentVars ==
    <<occurrences, processing, incident, number, previous, issues, incidentTasks, reporter,
      outbox, incidentFaults, stranded, twiceApplied, late>>
groupVars  == <<now, arrived, resolved, notifiedAt, request, announced, resolvedAt, groupRaced>>
reportVars ==
    <<report, notify, ai, message, episode, expected, call, work, reportTasks, sent, calls, reportFaults,
      raced, crossed, broken, reportUnsure, asked>>
slackVars      == <<delivery, later, q, sweep, at, copy, posts, requeues, deliveryFaults, unsure>>
mirrorVars     == <<version, changed, cursor, hooks, row, run, seen, overtaken, reordered, unseen, capped>>
recoveryVars   == <<recovery, job, step, initialized, twice>>
signInVars     ==
    <<approval, result, due, poll, told, issued, honoured, connection, resolver, slow, signInLost>>
capabilityVars == <<id, capability, receipt, caller, runs, answers, overlapped>>

Incident == INSTANCE Incidents WITH
    Workers <- Actors, status <- incident, tasks <- incidentTasks, at <- reporter,
    faults <- incidentFaults, overtaken <- twiceApplied, MaxFaults <- MaxManyFaults
Group == INSTANCE ErrorGroups WITH
    Requests <- Actors, at <- request, raced <- groupRaced
Report == INSTANCE Resolutions WITH
    Callers <- Askers, Workers <- Actors, status <- report, tasks <- reportTasks,
    faults <- reportFaults, unsure <- reportUnsure
Slack == INSTANCE DeliveryOutbox WITH
    Workers <- Actors, status <- delivery, faults <- deliveryFaults, MaxFaults <- MaxManyFaults
Mirror == INSTANCE GithubMirror WITH
    Runs <- Actors
Recovery == INSTANCE DatabaseRecovery WITH
    Steps <- Actors, NoRepo <- Nobody, request <- recovery
Device == INSTANCE DeviceSignIn WITH
    Polls <- Actors, Resolvers <- Actors, lost <- signInLost
Capability == INSTANCE CapabilityRuns WITH
    Callers <- Actors, NoCommand <- Nobody, status <- capability, at <- caller, told <- answers

ServicesInit ==
    /\ part \in {"incident", "session", "group", "report", "slack", "mirror", "recovery", "sign-in",
                 "capability"}
    /\ Incident!Init
    /\ Init
    /\ Group!Init
    /\ Report!Init
    /\ Slack!Init
    /\ Mirror!Init
    /\ Recovery!Init
    /\ Device!Init
    /\ Capability!Init

IncidentStep ==
    /\ part = "incident"
    /\ Incident!Next
    /\ UNCHANGED <<part, vars, groupVars, reportVars, slackVars, mirrorVars, recoveryVars, signInVars, capabilityVars>>

SessionStep ==
    /\ part = "session"
    /\ Next
    /\ UNCHANGED <<part, incidentVars, groupVars, reportVars, slackVars, mirrorVars, recoveryVars, signInVars, capabilityVars>>

GroupStep ==
    /\ part = "group"
    /\ Group!Next
    /\ UNCHANGED <<part, incidentVars, vars, reportVars, slackVars, mirrorVars, recoveryVars, signInVars, capabilityVars>>

ReportStep ==
    /\ part = "report"
    /\ Report!Next
    /\ UNCHANGED <<part, incidentVars, vars, groupVars, slackVars, mirrorVars, recoveryVars, signInVars, capabilityVars>>

SlackStep ==
    /\ part = "slack"
    /\ Slack!Next
    /\ UNCHANGED <<part, incidentVars, vars, groupVars, reportVars, mirrorVars, recoveryVars, signInVars, capabilityVars>>

MirrorStep ==
    /\ part = "mirror"
    /\ Mirror!Next
    /\ UNCHANGED <<part, incidentVars, vars, groupVars, reportVars, slackVars, recoveryVars, signInVars, capabilityVars>>

RecoveryStep ==
    /\ part = "recovery"
    /\ Recovery!Next
    /\ UNCHANGED <<part, incidentVars, vars, groupVars, reportVars, slackVars, mirrorVars, signInVars, capabilityVars>>

SignInStep ==
    /\ part = "sign-in"
    /\ Device!Next
    /\ UNCHANGED <<part, incidentVars, vars, groupVars, reportVars, slackVars, mirrorVars, recoveryVars, capabilityVars>>

CapabilityStep ==
    /\ part = "capability"
    /\ Capability!Next
    /\ UNCHANGED <<part, incidentVars, vars, groupVars, reportVars, slackVars, mirrorVars, recoveryVars, signInVars>>

ServicesNext ==
    \/ IncidentStep \/ SessionStep \/ GroupStep \/ ReportStep \/ SlackStep
    \/ MirrorStep \/ RecoveryStep \/ SignInStep \/ CapabilityStep

servicesVars ==
    <<part, incidentVars, vars, groupVars, reportVars, slackVars, mirrorVars, recoveryVars,
      signInVars, capabilityVars>>

\* The queues deliver, the sweeps run on every tick, and a handler that lives goes on.
Fairness ==
    /\ WF_incidentVars(part = "incident" /\ Incident!Handles)
    /\ WF_incidentVars(part = "incident" /\ Incident!Delivers)
    /\ WF_incidentVars(part = "incident" /\ Incident!Recover)
    /\ WF_slackVars(part = "slack" /\ Slack!Handles)
    /\ WF_slackVars(part = "slack" /\ Slack!Repairs)
    /\ WF_slackVars(part = "slack" /\ Slack!Sweeps)

ServicesSpec == ServicesInit /\ [][ServicesNext]_servicesVars /\ Fairness

-----------------------------------------------------------------------------
ServicesTypeOK ==
    /\ Incident!TypeOK
    /\ TypeOK
    /\ Group!TypeOK
    /\ Report!TypeOK
    /\ Slack!TypeOK
    /\ Mirror!TypeOK
    /\ Recovery!TypeOK
    /\ Device!TypeOK
    /\ Capability!TypeOK

\* An incident that shows as open has nothing left to report (Incidents).
OpenIsUpToDate == Incident!OpenIsUpToDate

\* An incident comes to rest unless it was stranded (Incidents).
IncidentSettles == part = "incident" => Incident!IncidentSettles

\* A fingerprint is announced once per cooldown (ErrorGroups).
OneAnnouncementPerCooldown == Group!OneAnnouncementPerCooldown

\* A resolution sends one email (Resolutions).
OneEmailPerResolution == Report!OneEmailPerResolution

\* A resolved report's email is pursued (Resolutions).
ResolvedIsPursued == Report!ResolvedIsPursued

\* A message is not posted again without a cause (DeliveryOutbox).
RepeatHasCause == Slack!RepeatHasCause

\* A row of the older Slack outbox that is due does not stay so (DeliveryOutbox).
RowSettles == part = "slack" => Slack!RowSettles

\* The mirror has what GitHub has, or will be told (GithubMirror).
MirrorCatchesUp == Mirror!MirrorCatchesUp

\* A completed recovery has no repository left (DatabaseRecovery).
CompletedIsDrained == Recovery!CompletedIsDrained

\* An approved sign-in is not reported as denied, and the connection it leaves is not lost
\* to requests that refresh it at one time (DeviceSignIn).
ApprovedSignInHolds == Device!ApprovedIsNotDenied /\ Device!ConnectionIsHonoured

\* All callers of a key get one answer (CapabilityRuns).
OneAnswerPerKey == Capability!OneAnswerPerKey
=============================================================================
