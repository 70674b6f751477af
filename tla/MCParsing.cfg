\* All packets of one or two slots and all databases of up to three records,
\* with up to two steps of harm.
SPECIFICATION ParsingSpec
CONSTANTS
  None = None
  AlertPackets <- MCAlertPackets
  TelemetryPackets <- MCTelemetryPackets
  Records <- MCRecords
  MaxRecords = 3
  Junk <- MCJunk
  MaxHarm = 2
INVARIANTS
  NeverFalselyClear
  ReadingsHonest
  NewRecordsByContent
CHECK_DEADLOCK FALSE
