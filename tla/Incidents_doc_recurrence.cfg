SPECIFICATION Spec
CONSTANTS
  Workers = {w1}
  MaxOccurrences = 2
  MaxTasks = 1
  MaxFaults = 0
CHECK_DEADLOCK FALSE
INVARIANTS
  RecurrenceGetsANewIssue
