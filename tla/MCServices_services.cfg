SPECIFICATION ServicesSpec
CONSTANTS
  Procs = {p1, p2}
  NoProc = NoProc
  Actors = {a1, a2}
  Askers = {a1}
  Repos = {r1, r2}
  Ids = {d1, d2}
  Nobody = Nobody
  MaxFaults = 1
  MaxManyFaults = 2
  MaxOccurrences = 2
  MaxTasks = 1
  MaxLogins = 2
  MaxRotations = 1
  MaxEvents = 3
  Cooldown = 2
  MaxTime = 3
  MaxCalls = 3
  MaxDeliveries = 2
  MaxRequeues = 1
  MaxCopies = 2
  MaxVersions = 2
  MaxTokens = 4
  MaxRuns = 3
CHECK_DEADLOCK FALSE
INVARIANTS
  ServicesTypeOK
  OpenIsUpToDate
  LockExclusive
  StoredTokenIsHonoured
  SignedOutStaysOut
  OneAnnouncementPerCooldown
  OneEmailPerResolution
  
  RepeatHasCause
  MirrorCatchesUp
  CompletedIsDrained
  ApprovedSignInHolds
  OneAnswerPerKey
PROPERTIES
  IncidentSettles
  RowSettles
