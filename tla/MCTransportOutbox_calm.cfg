SPECIFICATION Spec
CONSTANTS
  NoCommand = NoCommand
  Threads = {t1, t2}
  Commands = {slack1, marked1, marked2}
  Slack = {slack1}
  Marked = {marked1, marked2}
  SameMarker = {{marked1, marked2}}
  Earlier = {marked2}
  WithCallback = {marked1}
  MaxAttempts = 2
  MaxDeliveries = 2
  Faults = {"crash", "reply"}
  MaxFaults = 2
  MaxCopies = 1
  MaxRequeues = 1
CONSTRAINT OneCommand
SYMMETRY Interchangeable
INVARIANTS
  TypeOK
  Exclusive
  MarkedOnce
  CompletedAppliedTheOutcome
PROPERTIES
  DeliveredIsFinal
  KeepsPromise
