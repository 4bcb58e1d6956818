SPECIFICATION Spec
CONSTANTS
  Players = {1, 2}
  MaxClients = 2
  Bound = 12
  MaxRequests = 6
INVARIANTS
  ServerSurvives
CHECK_DEADLOCK FALSE
