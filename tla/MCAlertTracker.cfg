SPECIFICATION Spec
CONSTANTS
  None = None
  Alerts <- PassingSources
  MissTolerance = 1
  MaxSlots = 2
  MaxSnapshots = 3
  MaxLinks = 2
CHECK_DEADLOCK FALSE
INVARIANTS
  MatchingStable
  OpenUnlessAbsent
  EndsDatedWhenSeen
PROPERTY
  EncounterSpec
