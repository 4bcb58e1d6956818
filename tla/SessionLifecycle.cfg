SPECIFICATION Spec
CONSTANTS
  Players = {1, 2, 3}
  MaxClients = 2
  Bound = 24
  MaxRequests = 6
INVARIANTS
  TypeOK
  
  AsksWhenEmpty
PROPERTIES
  UnregisterHandled
CHECK_DEADLOCK FALSE
