SPECIFICATION Spec
CONSTANTS
  NoCommand = NoCommand
  Threads = {t1, t2}
  Commands = {marked1}
  Slack = {}
  Marked = {marked1}
  SameMarker = {}
  Earlier = {}
  WithCallback = {marked1}
  MaxAttempts = 2
  MaxDeliveries = 2
  Faults = {"crash", "reply", "page", "slow", "send", "db"}
  MaxFaults = 2
  MaxCopies = 1
  MaxRequeues = 0
SYMMETRY Interchangeable
INVARIANTS
  DeliveredWasPosted
  FinalizerHasReceipt
  AttemptsWithinBudget
