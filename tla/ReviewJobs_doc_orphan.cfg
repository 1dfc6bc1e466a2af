SPECIFICATION FairSpec
CONSTANTS
  NoRunner = NoRunner
  MaxHead = 1
  Webhooks = {w1}
  Runners = {r1, r2}
  MaxAttempts = 3
  MaxRedeliveries = 0
  MaxDeaths = 1
CHECK_DEADLOCK FALSE
PROPERTIES
  OrphansAreReclaimed
