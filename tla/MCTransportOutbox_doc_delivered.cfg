SPECIFICATION Spec
CONSTANTS
  NoCommand = NoCommand
  Threads = {t1, t2}
  Commands = {update1}
  Slack = {}
  Marked = {}
  SameMarker = {}
  Earlier = {}
  WithCallback = {update1}
  MaxAttempts = 2
  MaxDeliveries = 2
  Faults = {"db"}
  MaxFaults = 1
  MaxCopies = 1
  MaxRequeues = 0
SYMMETRY Interchangeable
PROPERTIES
  DeliveredIsFinal
