SPECIFICATION FairSpec
CONSTANTS
  NoCommand = NoCommand
  Threads = {t1, t2}
  Commands = {slack1}
  Slack = {slack1}
  Marked = {}
  SameMarker = {}
  Earlier = {}
  WithCallback = {}
  MaxAttempts = 2
  MaxDeliveries = 2
  Faults = {}
  MaxFaults = 0
  MaxCopies = 1
  MaxRequeues = 0
PROPERTIES
  QueuedMovesOn
