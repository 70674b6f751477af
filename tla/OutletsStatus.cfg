\* The publisher alone: the connection drops and comes back.
CONSTANTS
  Viewers = {v1}
  MaxClients = 1
  ClientQueue = 1
  StaleAfter = 1
  Settings = {{"mqtt"}}
  MaxPublishes = 1
  MaxRuns = 1
SPECIFICATION Spec
PROPERTIES
  ConnectedSaysOnline
CHECK_DEADLOCK FALSE
