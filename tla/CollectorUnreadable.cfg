SPECIFICATION Spec
CONSTANTS
  Threats = {ka}
  QueueSize = 1
  LastAttempt = 2
CHECK_DEADLOCK FALSE
INVARIANT
  UnmissedThreatsShown
