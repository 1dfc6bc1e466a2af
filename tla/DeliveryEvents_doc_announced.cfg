SPECIFICATION FairSpec
CONSTANTS
  Commands = {slack1}
  Reopenable = {slack1}
  Once = {}
  SameMarker = {}
  Sweeps = {s1, s2}
  MaxEffects = 1
PROPERTIES
  DeliveriesAreAnnounced
