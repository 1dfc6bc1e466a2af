SPECIFICATION FairSpec
CONSTANTS
  NoEvent = NoEvent
  NoSubject = NoSubject
  Report = report
  Threads = {t1, t2}
  Events = {1, 2}
  Subjects = {report}
  SubjectOf <- ReportAndFact
  MaxDeliveries = 1
  Faults = {"crash", "reply", "slow", "send", "db"}
  MaxFaults = 2
  MaxCopies = 1
  MaxReplays = 1
INVARIANTS
  TypeOK
  HeadIsLatest
  ProjectedIsReflected
PROPERTIES
  ProjectedIsFinal
  EveryEventProjected
