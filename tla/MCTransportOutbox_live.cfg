SPECIFICATION FairSpec
CONSTANTS
  NoCommand = NoCommand
  Threads = {t1, t2}
  Commands = {update1}
  Slack = {}
  Marked = {}
  SameMarker = {}
  Earlier = {}
  WithCallback = {update1}
  MaxAttempts = 2
  MaxDeliveries = 1
  Faults = {"crash"}
  MaxFaults = 1
  MaxCopies = 1
  MaxRequeues = 0
PROPERTIES
  RowsMoveOn
  CallbacksMoveOn
