SPECIFICATION Spec
CONSTANTS
  Tables = {"sessions", "telemetry"}
  RobustRank = 1
  MinTable = 2
  Retain = 1
  MaxRows = 2
  QueueMax = 1
  BatchRows = 2
  MaxStarts = 2
  MaxOffers = 3
  MaxSweeps = 1
  Walls = {0, 2}
CHECK_DEADLOCK FALSE
INVARIANT
  DriveKeepsItsSession
