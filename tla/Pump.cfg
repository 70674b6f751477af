SPECIFICATION Spec
CONSTANTS
  Heartbeat = 4
  ObdInterval = 5
  Silence = 5
  ProbeTime = 1
  PublishTime = 1
  MaxTime = 16
CHECK_DEADLOCK FALSE
INVARIANTS
  SpeakingKeepsAlive
  SilenceNoticed
  GateCadence
  TransitionsPublished
