\* Two commands in a row; two attempts to pair; two reads, two subscriptions.
CONSTANTS
  Attempts = 2
  Reads = 2
  Handlers = 2
  MaxCommands = 2
SPECIFICATION Spec
PROPERTIES
  SuccessIsEarned
  LinkFreed
CHECK_DEADLOCK FALSE
