SPECIFICATION FairSpec
CONSTANTS
  NoRunner = NoRunner
  MaxHead = 2
  Webhooks = {w1, w2}
  Runners = {r1, r2}
  MaxAttempts = 2
  MaxRedeliveries = 2
  MaxDeaths = 1
CHECK_DEADLOCK FALSE
INVARIANTS
  TypeOK
  AttemptsCapped
  OneReviewer
PROPERTIES
  EndedIsFinal
  JobsEnd
