SPECIFICATION FairSpec
CONSTANTS
  Commands = {slack1, issue1}
  Reopenable = {slack1}
  Once = {issue1}
  SameMarker = {}
  Sweeps = {s1, s2}
  MaxEffects = 1
INVARIANTS
  TypeOK
  OutcomesAreTrue
  QueuedBeforeOutcome
PROPERTIES
  OutcomesAreAnnounced
