\* Two viewers for one place and a backlog of two; a second process finds what
\* the broker still holds of the first.
CONSTANTS
  Viewers = {v1, v2}
  MaxClients = 1
  ClientQueue = 2
  StaleAfter = 1
  Settings = {{"feed"}, {"mqtt"}, {"gnss"}}
  MaxPublishes = 4
  MaxRuns = 2
SPECIFICATION Spec
INVARIANTS
  ViewersUpToDate
  FixIsLastWord
PROPERTIES
  OutletsEnd
  StatusHonest
CHECK_DEADLOCK FALSE
