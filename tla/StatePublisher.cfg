\* Three publishes, one cancelled await and one restart: a writer that outlives
\* its await races the last publish, and the next process finds its debris.
CONSTANTS
  Detail = TRUE
  MaxTickets = 3
  MaxCancels = 1
  MaxEpochs = 2
SPECIFICATION Spec
INVARIANTS
  PairNeverBehind
  AcknowledgedLanded
  TempsAccounted
PROPERTIES
  NeverBackwards
  PublishReturns
CHECK_DEADLOCK FALSE
