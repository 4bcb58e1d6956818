SPECIFICATION Spec
CONSTANTS
  Players = {1, 2}
  MaxClients = 2
  Bound = 12
  MaxRequests = 5
PROPERTIES
  UnregisterAlwaysHandled
CHECK_DEADLOCK FALSE
