\* One survey of a detector whose descriptor read does not return.
CONSTANTS
  Attempts = 1
  Reads = 1
  Handlers = 1
  MaxCommands = 1
SPECIFICATION Spec
PROPERTIES
  SurveyEnds
CHECK_DEADLOCK FALSE
